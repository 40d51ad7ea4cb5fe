------------------------ MODULE MCDiscoveryConnection ------------------------
(* Instances of DiscoveryConnection: two nodes, one schema each.           *)
EXTENDS DiscoveryConnection, TLC

CONSTANTS a, b, acquaintance, friend

VARIABLE scene

MCDomainOf == (acquaintance :> "personal") @@ (friend :> "family")
MCOneDomain == acquaintance :> "personal"

\* Where the handshake of a with b ends when nothing fails.
Connected ==
    LET target == EmbeddingPseudonym(b, 1)
        sender == SenderPseudonym(a, NoSchema)
        Friend(k, p) == k :> [messaging |-> p, role |-> DefaultRole, revoked |-> FALSE]
        Nobody == [k \in Key |-> NoContact]
        Ask == [type |-> "request", target |-> target, sender |-> sender,
                request_id |-> 1, role |-> DefaultRole, card |-> FALSE]
        Reply == [type |-> "accept", target |-> sender, sender |-> target,
                  request_id |-> 1, role |-> DefaultRole, card |-> TRUE]
    IN  /\ opt_ins = (a :> {}) @@ (b :> {1})
        /\ published = {target}
        /\ board = <<Ask, Reply>>
        /\ sent = [n \in Node |-> [i \in MsgId |-> IF n = a /\ i = 1 THEN "accepted" ELSE "none"]]
        /\ received = [n \in Node |-> [i \in MsgId |-> IF n = b /\ i = 1 THEN "accept" ELSE "none"]]
        /\ contacts = (a :> (Friend(NodeKey(b), target) @@ Nobody)) @@ (b :> (Friend(sender, sender) @@ Nobody))
        /\ trust = (a :> {<<NodeKey(b), DomainOf[DefaultRole]>>}) @@ (b :> {<<sender, DomainOf[DefaultRole]>>})
        /\ processed = (a :> {2}) @@ (b :> {1})
        /\ applied = [n \in Node |-> {}] /\ rejected = [n \in Node |-> {}]
        /\ poller = [n \in Node |-> [p \in Poller |-> IdlePoll]]
        /\ connector = [n \in Node |-> IdleConnect]
        /\ responder = [n \in Node |-> IdleRespond]

\* A handshake beside opting in and out, one beside sharing and revoking,
\* and a third message between nodes that are connected.
Room == [opting |-> 2, trusting |-> 2, connected |-> 3]
MCInit ==
    /\ scene \in DOMAIN Room
    /\ IF scene = "connected" THEN Connected ELSE Init
MCNext ==
    /\ \E n \in Node : \/ scene = "opting" /\ Discovery(n)
                       \/ scene # "opting" /\ Trusting(n)
                       \/ Connect(n) \/ Answer(n)
                       \/ \E p \in Poller : Inbound(n, p)
    /\ Len(board') <= Room[scene]
    /\ UNCHANGED scene
MCSpec == MCInit /\ [][MCNext]_<<scene, vars>> /\ Fairness
=============================================================================
