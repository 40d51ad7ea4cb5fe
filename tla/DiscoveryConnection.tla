------------------------- MODULE DiscoveryConnection -------------------------
(***************************************************************************)
(* The connection handshake between fold_db nodes over the encrypted       *)
(* bulletin board: connect posts a request and then saves the sent row,    *)
(* the peer's poll stores a received row, the peer's user answers it       *)
(* (status, trust, contact, acceptance posted, in that order) and the      *)
(* requester's poll applies the acceptance (status, trust, contact).  Data *)
(* shares travel the same way and are admitted by the contact book.        *)
(*                                                                         *)
(* A handler holds no lock across its awaits, so every store or network    *)
(* call that another handler could see half-way is an action of its own;   *)
(* a handler that returns an error, or whose process dies, goes back to    *)
(* idle and leaves what it already wrote.  A message id is its position on *)
(* the board, and names the request_id of the request it carries.          *)
(***************************************************************************)
EXTENDS Integers, Sequences, FiniteSets, FiniteSetsExt

CONSTANTS
    Node,
    Connecting,     \* nodes whose user sends connection requests
    Discoverable,   \* nodes whose user opts schemas in and out
    OptedIn,        \* nodes that had opted in and published before the start
    Sharing,        \* nodes whose user shares data and revokes contacts
    HasCard,        \* nodes whose user has set up an identity card
    Legacy,         \* peers running a client that echoes no request_id
    Schema,         \* schema names, numbered in key order
    NoSchema,       \* "connection-sender": no opt-in to derive from
    Poller,         \* polls a node may have in progress at once
    Role,
    DomainOf,       \* the trust domain of every role
    DefaultRole,    \* "acquaintance"
    NoContact,
    MaxMessages     \* bound: messages ever posted

ASSUME NodeAssumption ==
    \A S \in {Connecting, Discoverable, OptedIn, Sharing, HasCard, Legacy} : S \subseteq Node
ASSUME SchemaAssumption == Schema \subseteq Nat /\ NoSchema \in Nat \ Schema
ASSUME RoleAssumption == DefaultRole \in Role /\ Role = DOMAIN DomainOf
ASSUME MaxAssumption == MaxMessages \in Nat

VARIABLES
    opt_ins,        \* per node: schemas opted in to discovery
    published,      \* pseudonyms whose public key the service serves
    board,          \* the bulletin board
    sent,           \* per node: LocalSentRequest.status by request_id
    received,       \* per node: LocalConnectionRequest.status by message id
    contacts,       \* per node: the contact book by public key
    trust,          \* per node: <<public key, domain>> granted
    processed,      \* per node: msg_processed markers
    applied,        \* per node: data shares written
    rejected,       \* per node: data shares skipped by the sender check
    poller,         \* per node and poll: the message being dispatched
    connector,      \* per node: the connect handler in progress
    responder       \* per node: the accept handler in progress

localVars   == <<sent, received, contacts, trust, applied, rejected>>
handlerVars == <<poller, connector, responder>>
vars == <<opt_ins, published, board, localVars, processed, handlerVars>>

-----------------------------------------------------------------------------
(* Pseudonyms and keys.  A pseudonym's X25519 key is derived from it, so   *)
(* the pseudonym stands for the key; the Ed25519 node key is another.      *)

SenderPseudonym(n, s)    == [owner |-> n, kind |-> "sender", schema |-> s]
EmbeddingPseudonym(n, s) == [owner |-> n, kind |-> "embedding", schema |-> s]
NodeKey(n)               == [owner |-> n, kind |-> "node", schema |-> NoSchema]

Pseudonym == {SenderPseudonym(n, s) : n \in Node, s \in Schema \cup {NoSchema}}
             \cup {EmbeddingPseudonym(n, s) : n \in Node, s \in Schema}
Key == Pseudonym \cup {NodeKey(n) : n \in Node}

\* collect_our_pseudonyms: what a poll asks the board for.
CollectOurPseudonyms(n) ==
    {SenderPseudonym(n, NoSchema)}
        \cup {SenderPseudonym(n, s) : s \in opt_ins[n]}
        \cup {EmbeddingPseudonym(n, s) : s \in opt_ins[n]}

\* The pseudonym connect sends from: the first opt-in, else the fallback.
OurSenderPseudonym(n) ==
    SenderPseudonym(n, IF opt_ins[n] = {} THEN NoSchema ELSE Min(opt_ins[n]))

-----------------------------------------------------------------------------
(* Messages, rows and handlers                                             *)

NoId  == 0
MsgId == 1..MaxMessages

Message == [type : {"request", "accept", "decline", "data_share"},
            target : Pseudonym, sender : Pseudonym,
            request_id : MsgId \cup {NoId}, role : Role, card : BOOLEAN]

SentStatus     == {"none", "pending", "accepted", "declined"}
ReceivedStatus == {"none", "pending", "accept", "decline"}
Contact        == [messaging : Pseudonym, role : Role, revoked : BOOLEAN]
PollPC         == {"idle", "dispatch", "grant", "contact", "mark"}
ConnectPC      == {"idle", "post", "save"}
RespondPC      == {"idle", "grant", "contact", "send"}

IdlePoll    == [pc |-> "idle", msg |-> NoId, role |-> DefaultRole]
IdleConnect == [pc |-> "idle", msg |-> NoId, role |-> DefaultRole,
                target |-> {}]
IdleRespond == [pc |-> "idle", msg |-> NoId, role |-> DefaultRole]

TypeOK ==
    /\ opt_ins \in [Node -> SUBSET Schema]
    /\ published \subseteq Pseudonym
    /\ board \in Seq(Message) /\ Len(board) <= MaxMessages
    /\ sent \in [Node -> [MsgId -> SentStatus]]
    /\ received \in [Node -> [MsgId -> ReceivedStatus]]
    /\ contacts \in [Node -> [Key -> Contact \cup {NoContact}]]
    /\ trust \in [Node -> SUBSET (Key \X {DomainOf[r] : r \in Role})]
    /\ processed \in [Node -> SUBSET MsgId]
    /\ applied \in [Node -> SUBSET MsgId]
    /\ rejected \in [Node -> SUBSET MsgId]
    /\ poller \in [Node -> [Poller -> [pc : PollPC, msg : MsgId \cup {NoId}, role : Role]]]
    /\ connector \in [Node -> [pc : ConnectPC, msg : MsgId \cup {NoId},
                               role : Role, target : SUBSET Pseudonym]]
    /\ responder \in [Node -> [pc : RespondPC, msg : MsgId \cup {NoId}, role : Role]]

Init ==
    /\ opt_ins = [n \in Node |-> IF n \in OptedIn THEN Schema ELSE {}]
    /\ published = {EmbeddingPseudonym(n, s) : n \in OptedIn, s \in Schema}
    /\ board = <<>>
    /\ sent = [n \in Node |-> [i \in MsgId |-> "none"]]
    /\ received = [n \in Node |-> [i \in MsgId |-> "none"]]
    /\ contacts = [n \in Node |-> [k \in Key |-> NoContact]]
    /\ trust = [n \in Node |-> {}]
    /\ processed = [n \in Node |-> {}]
    /\ applied = [n \in Node |-> {}]
    /\ rejected = [n \in Node |-> {}]
    /\ poller = [n \in Node |-> [p \in Poller |-> IdlePoll]]
    /\ connector = [n \in Node |-> IdleConnect]
    /\ responder = [n \in Node |-> IdleRespond]

Active(n, k) == contacts[n][k] # NoContact /\ ~contacts[n][k].revoked

CanPost   == Len(board) < MaxMessages
PostedId  == Len(board) + 1
Post(msg) == CanPost /\ board' = Append(board, msg)

\* upsert_contact of a Contact::from_discovery: whatever was there, the new
\* messaging pseudonym and role are set and the contact is not revoked.
UpsertContact(n, k, pseudonym, role) ==
    contacts' = [contacts EXCEPT ![n][k] =
                    [messaging |-> pseudonym, role |-> role, revoked |-> FALSE]]

GrantTrust(n, k, role) ==
    trust' = [trust EXCEPT ![n] = @ \cup {<<k, DomainOf[role]>>}]

-----------------------------------------------------------------------------
(* Opting in and out                                                       *)

OptIn(n, s) ==
    /\ n \in Discoverable
    /\ s \notin opt_ins[n]
    /\ opt_ins' = [opt_ins EXCEPT ![n] = @ \cup {s}]
    /\ UNCHANGED <<published, board, localVars, processed, handlerVars>>

\* publish: the embeddings of the opted-in schemas are uploaded, but for
\* disabled categories and what follows a failed upload.
Publish(n) ==
    /\ n \in Discoverable
    /\ \E uploaded \in SUBSET opt_ins[n] :
          published' = published \cup {EmbeddingPseudonym(n, s) : s \in uploaded}
    /\ UNCHANGED <<opt_ins, board, localVars, processed, handlerVars>>

\* The opt-in row goes first; the service's copy may outlive it (the
\* unpublish call fails and the handler returns the error).
OptOut(n, s) ==
    /\ n \in Discoverable
    /\ s \in opt_ins[n]
    /\ opt_ins' = [opt_ins EXCEPT ![n] = @ \ {s}]
    /\ published' \in {published, published \ {EmbeddingPseudonym(n, s)}}
    /\ UNCHANGED <<board, localVars, processed, handlerVars>>

-----------------------------------------------------------------------------
(* connect: guards, then the post, then the sent row                       *)

AlreadyConnected(n, t) ==
    \E k \in Key : Active(n, k) /\ contacts[n][k].messaging = t

PendingTo(n, t) ==
    \E i \in DOMAIN board : sent[n][i] = "pending" /\ board[i].target = t

ConnectCheck(n, t, role) ==
    /\ n \in Connecting
    /\ connector[n].pc = "idle"
    /\ ~AlreadyConnected(n, t)
    /\ ~PendingTo(n, t)
    /\ t \in published
    /\ CanPost
    /\ connector' = [connector EXCEPT ![n] =
                        [pc |-> "post", msg |-> NoId, role |-> role, target |-> {t}]]
    /\ UNCHANGED <<opt_ins, published, board, localVars, processed, poller, responder>>

ConnectPost(n) ==
    /\ connector[n].pc = "post"
    /\ \E t \in connector[n].target :
          Post([type |-> "request", target |-> t, sender |-> OurSenderPseudonym(n),
                request_id |-> PostedId, role |-> connector[n].role, card |-> FALSE])
    /\ connector' = [connector EXCEPT ![n].pc = "save", ![n].msg = PostedId]
    /\ UNCHANGED <<opt_ins, published, localVars, processed, poller, responder>>

SaveSentRequest(n, i) == sent' = [sent EXCEPT ![n][i] = "pending"]

ConnectSave(n) ==
    /\ connector[n].pc = "save"
    /\ SaveSentRequest(n, connector[n].msg)
    /\ connector' = [connector EXCEPT ![n] = IdleConnect]
    /\ UNCHANGED <<opt_ins, published, board, received, contacts, trust, applied,
                   rejected, processed, poller, responder>>

\* The lookup, the post or the save fails, or the process dies.
ConnectFail(n) ==
    /\ connector[n].pc # "idle"
    /\ connector' = [connector EXCEPT ![n] = IdleConnect]
    /\ UNCHANGED <<opt_ins, published, board, localVars, processed, poller, responder>>

-----------------------------------------------------------------------------
(* respond_to_request: status, trust, contact, acceptance                  *)

\* update_request_status looks only for the row, not at its status.
UpdateRequestStatus(n, i, status) ==
    /\ received[n][i] # "none"
    /\ received' = [received EXCEPT ![n][i] = status]

Respond(n, i, action, role) ==
    /\ responder[n].pc = "idle"
    /\ action = "accept" => n \in HasCard
    /\ UpdateRequestStatus(n, i, action)
    /\ responder' = IF action = "accept"
                    THEN [responder EXCEPT ![n] = [pc |-> "grant", msg |-> i, role |-> role]]
                    ELSE responder
    /\ UNCHANGED <<opt_ins, published, board, sent, contacts, trust, applied, rejected,
                   processed, poller, connector>>

\* The trust and the contact go under the key the request carried.
RespondGrant(n) ==
    /\ responder[n].pc = "grant"
    /\ GrantTrust(n, board[responder[n].msg].sender, responder[n].role)
    /\ responder' = [responder EXCEPT ![n].pc = "contact"]
    /\ UNCHANGED <<opt_ins, published, board, sent, received, contacts, applied, rejected,
                   processed, poller, connector>>

RespondContact(n) ==
    LET sender == board[responder[n].msg].sender IN
    /\ responder[n].pc = "contact"
    /\ UpsertContact(n, sender, sender, responder[n].role)
    /\ responder' = [responder EXCEPT ![n].pc = "send"]
    /\ UNCHANGED <<opt_ins, published, board, sent, received, trust, applied, rejected,
                   processed, poller, connector>>

Acceptance(n) ==
    LET request == board[responder[n].msg] IN
    [type |-> "accept", target |-> request.sender, sender |-> request.target,
     request_id |-> request.request_id, role |-> DefaultRole, card |-> TRUE]

RespondSend(n) ==
    /\ responder[n].pc = "send"
    /\ Post(Acceptance(n))
    /\ responder' = [responder EXCEPT ![n] = IdleRespond]
    /\ UNCHANGED <<opt_ins, published, localVars, processed, poller, connector>>

\* A write fails, the process dies, or the fire-and-forget send is lost.
RespondFail(n) ==
    /\ responder[n].pc # "idle"
    /\ responder' = [responder EXCEPT ![n] = IdleRespond]
    /\ UNCHANGED <<opt_ins, published, board, localVars, processed, poller, connector>>

\* A peer running an older client answers without echoing the request_id,
\* and may decline in a message of its own.
LegacyReply(n, i, answer) ==
    /\ n \in Legacy
    /\ received[n][i] = "pending"
    /\ Post([type |-> answer, target |-> board[i].sender, sender |-> board[i].target,
             request_id |-> NoId, role |-> DefaultRole, card |-> FALSE])
    /\ UNCHANGED <<opt_ins, published, localVars, processed, handlerVars>>

-----------------------------------------------------------------------------
(* poll_and_decrypt_requests: dedup read, dispatch, dedup write            *)

Poll(n, p, i) ==
    /\ poller[n][p].pc = "idle"
    /\ board[i].target \in CollectOurPseudonyms(n)
    /\ i \notin processed[n]
    /\ poller' = [poller EXCEPT ![n][p] =
                     [pc |-> "dispatch", msg |-> i, role |-> DefaultRole]]
    /\ UNCHANGED <<opt_ins, published, board, localVars, processed, connector, responder>>

Dispatching(n, p, type) ==
    poller[n][p].pc = "dispatch" /\ board[poller[n][p].msg].type = type

\* save_received_request: the row is written whole, whatever it held.
SaveReceivedRequest(n, i) == received' = [received EXCEPT ![n][i] = "pending"]

DispatchRequest(n, p) ==
    /\ Dispatching(n, p, "request")
    /\ SaveReceivedRequest(n, poller[n][p].msg)
    /\ poller' = [poller EXCEPT ![n][p].pc = "mark"]
    /\ UNCHANGED <<opt_ins, published, board, sent, contacts, trust, applied, rejected,
                   processed, connector, responder>>

\* The rows update_sent_request_status may pick: pending, and the echoed
\* request_id's own or, without one, any to the replying pseudonym.
MatchingRows(n, msg) ==
    {i \in DOMAIN board : /\ sent[n][i] = "pending"
                          /\ IF msg.request_id # NoId
                             THEN i = msg.request_id
                             ELSE board[i].target = msg.sender}

\* Faulty variant: an acceptance that matches no pending row is an error.
DispatchAcceptNeedsRow(n, p) ==
    LET msg == board[poller[n][p].msg] IN
    /\ Dispatching(n, p, "accept")
    /\ \E i \in MatchingRows(n, msg) :
          /\ sent' = [sent EXCEPT ![n][i] = "accepted"]
          /\ poller' = [poller EXCEPT ![n][p].pc = IF msg.card THEN "grant" ELSE "mark",
                                      ![n][p].role = board[i].role]
    /\ UNCHANGED <<opt_ins, published, board, received, contacts, trust, applied, rejected,
                   processed, connector, responder>>

\* The status is updated first; the role is the matched row's.
DispatchAccept(n, p) ==
    LET msg  == board[poller[n][p].msg]
        rows == MatchingRows(n, msg)
        next == IF msg.card THEN "grant" ELSE "mark" IN
    /\ Dispatching(n, p, "accept")
    /\ \/ /\ rows = {}
          /\ sent' = sent
          /\ poller' = [poller EXCEPT ![n][p].pc = next, ![n][p].role = DefaultRole]
       \/ \E i \in rows :
          /\ sent' = [sent EXCEPT ![n][i] = "accepted"]
          /\ poller' = [poller EXCEPT ![n][p].pc = next, ![n][p].role = board[i].role]
    /\ UNCHANGED <<opt_ins, published, board, received, contacts, trust, applied, rejected,
                   processed, connector, responder>>

\* process_accepted_connection: trust, then the contact, under the node key
\* of the acceptor's identity card.
AcceptGrant(n, p) ==
    /\ poller[n][p].pc = "grant"
    /\ GrantTrust(n, NodeKey(board[poller[n][p].msg].sender.owner), poller[n][p].role)
    /\ poller' = [poller EXCEPT ![n][p].pc = "contact"]
    /\ UNCHANGED <<opt_ins, published, board, sent, received, contacts, applied, rejected,
                   processed, connector, responder>>

AcceptContact(n, p) ==
    LET sender == board[poller[n][p].msg].sender IN
    /\ poller[n][p].pc = "contact"
    /\ UpsertContact(n, NodeKey(sender.owner), sender, poller[n][p].role)
    /\ poller' = [poller EXCEPT ![n][p].pc = "mark"]
    /\ UNCHANGED <<opt_ins, published, board, sent, received, trust, applied, rejected,
                   processed, connector, responder>>

\* Faulty variant: a decline is recorded like an acceptance.
DispatchDeclineAsAccept(n, p) ==
    LET rows == MatchingRows(n, board[poller[n][p].msg]) IN
    /\ Dispatching(n, p, "decline")
    /\ \/ rows = {} /\ sent' = sent
       \/ \E i \in rows : sent' = [sent EXCEPT ![n][i] = "accepted"]
    /\ poller' = [poller EXCEPT ![n][p].pc = "mark"]
    /\ UNCHANGED <<opt_ins, published, board, received, contacts, trust, applied, rejected,
                   processed, connector, responder>>

DispatchDecline(n, p) ==
    LET rows == MatchingRows(n, board[poller[n][p].msg]) IN
    /\ Dispatching(n, p, "decline")
    /\ \/ rows = {} /\ sent' = sent
       \/ \E i \in rows : sent' = [sent EXCEPT ![n][i] = "declined"]
    /\ poller' = [poller EXCEPT ![n][p].pc = "mark"]
    /\ UNCHANGED <<opt_ins, published, board, received, contacts, trust, applied, rejected,
                   processed, connector, responder>>

\* Faulty variant: only revoked senders are turned away.
AuthorizedUnlessRevoked(n, msg) ==
    contacts[n][NodeKey(msg.sender.owner)] # NoContact =>
        ~contacts[n][NodeKey(msg.sender.owner)].revoked

\* authorize_data_share_sender: the payload carries the sender's node key.
AuthorizedShare(n, msg) == Active(n, NodeKey(msg.sender.owner))

\* The schemas of the share may not be approved here: skipped as well.
DispatchDataShare(n, p, approved) ==
    LET i == poller[n][p].msg IN
    /\ Dispatching(n, p, "data_share")
    /\ applied' = IF AuthorizedShare(n, board[i]) /\ approved
                  THEN [applied EXCEPT ![n] = @ \cup {i}] ELSE applied
    /\ rejected' = IF ~AuthorizedShare(n, board[i])
                   THEN [rejected EXCEPT ![n] = @ \cup {i}] ELSE rejected
    /\ poller' = [poller EXCEPT ![n][p].pc = "mark"]
    /\ UNCHANGED <<opt_ins, published, board, sent, received, contacts, trust,
                   processed, connector, responder>>

MarkProcessed(n, p) ==
    /\ poller[n][p].pc = "mark"
    /\ processed' = [processed EXCEPT ![n] = @ \cup {poller[n][p].msg}]
    /\ poller' = [poller EXCEPT ![n][p] = IdlePoll]
    /\ UNCHANGED <<opt_ins, published, board, localVars, connector, responder>>

\* A transient error, a failed marker write or a crash: retried next poll.
PollFail(n, p) ==
    /\ poller[n][p].pc # "idle"
    /\ poller' = [poller EXCEPT ![n][p] = IdlePoll]
    /\ UNCHANGED <<opt_ins, published, board, localVars, processed, connector, responder>>

-----------------------------------------------------------------------------
(* Using the contact book                                                  *)

SendDataShare(n, k) ==
    /\ n \in Sharing
    /\ Active(n, k)
    /\ Post([type |-> "data_share", target |-> contacts[n][k].messaging,
             sender |-> SenderPseudonym(n, NoSchema),
             request_id |-> NoId, role |-> DefaultRole, card |-> FALSE])
    /\ UNCHANGED <<opt_ins, published, localVars, processed, handlerVars>>

\* revoke_contact: every domain's grant is removed, then the row is marked.
RevokeContact(n, k) ==
    /\ n \in Sharing
    /\ Active(n, k)
    /\ trust' = [trust EXCEPT ![n] = {g \in @ : g[1] # k}]
    /\ contacts' = [contacts EXCEPT ![n][k].revoked = TRUE]
    /\ UNCHANGED <<opt_ins, published, board, sent, received, applied, rejected, processed,
                   handlerVars>>

-----------------------------------------------------------------------------
Discovery(n) == \/ \E s \in Schema : OptIn(n, s) \/ OptOut(n, s)
                \/ Publish(n)

Connect(n) == \/ \E t \in {q \in Pseudonym : q.owner # n}, r \in Role : ConnectCheck(n, t, r)
              \/ ConnectPost(n) \/ ConnectSave(n) \/ ConnectFail(n)

Answer(n) == \/ \E i \in DOMAIN board, a \in {"accept", "decline"}, r \in Role :
                    Respond(n, i, a, r)
             \/ RespondGrant(n) \/ RespondContact(n) \/ RespondSend(n) \/ RespondFail(n)
             \/ \E i \in DOMAIN board, a \in {"accept", "decline"} :
                    LegacyReply(n, i, a)

Inbound(n, p) == \/ \E i \in DOMAIN board : Poll(n, p, i)
                 \/ DispatchRequest(n, p) \/ DispatchAccept(n, p)
                 \/ AcceptGrant(n, p) \/ AcceptContact(n, p)
                 \/ DispatchDecline(n, p)
                 \/ \E a \in BOOLEAN : DispatchDataShare(n, p, a)
                 \/ MarkProcessed(n, p) \/ PollFail(n, p)

Trusting(n) == \E k \in Key : SendDataShare(n, k) \/ RevokeContact(n, k)

Next == \E n \in Node : \/ Discovery(n) \/ Connect(n) \/ Answer(n) \/ Trusting(n)
                        \/ \E p \in Poller : Inbound(n, p)

Spec == Init /\ [][Next]_vars

-----------------------------------------------------------------------------
(* Correctness                                                             *)

\* A sent request is "accepted" only if its target really posted an
\* acceptance of that very request (of some request to that pseudonym, when
\* the peer echoes no request_id), whatever was retried or posted meanwhile.
AcceptedWasAnswered ==
    \A n \in Node, i \in DOMAIN board :
        sent[n][i] = "accepted" =>
            \E j \in DOMAIN board :
                /\ board[j].type = "accept"
                /\ board[j].sender = board[i].target
                /\ board[j].request_id \in {i, NoId}

AcceptanceTo(n, m) ==
    \E j \in DOMAIN board : /\ board[j].type = "accept"
                            /\ board[j].target.owner = n /\ board[j].sender.owner = m

\* A node trusts a key only along a handshake: an acceptor after a request
\* from that key reached it, a requester after that peer's acceptance of
\* a request was posted to it.  Data of a peer is admitted only likewise.
TrustNeedsHandshake ==
    \A n \in Node :
        /\ \A g \in trust[n] :
              \/ g[1] = NodeKey(g[1].owner) /\ AcceptanceTo(n, g[1].owner)
              \/ \E i \in DOMAIN board : received[n][i] # "none" /\ board[i].sender = g[1]
        /\ \A i \in applied[n] : AcceptanceTo(n, board[i].sender.owner)

\* Every message to a pseudonym its node keeps polling is dispatched to the
\* end and marked, whatever transient failures interrupt it.
EventuallyProcessed ==
    \A n \in Node, i \in MsgId :
        (i \in DOMAIN board /\ board[i].target \in CollectOurPseudonyms(n))
            ~> (i \in DOMAIN board /\ (\/ i \in processed[n]
                                       \/ board[i].target \notin CollectOurPseudonyms(n)))

\* Clients poll periodically and a poll takes the messages one after the
\* other; store and network errors are transient.
InboundProgress(n, p) == Inbound(n, p) /\ ~PollFail(n, p)

Fairness ==
    /\ \A n \in Node, p \in Poller : WF_vars(InboundProgress(n, p))
    /\ <>[][\A n \in Node, p \in Poller : ~PollFail(n, p)]_vars

LiveSpec == Spec /\ Fairness

-----------------------------------------------------------------------------
(* What the repository says and the code does not do                       *)

\* The "primary match key is the Ed25519 pubkey" of the contact: a share
\* from a peer that is an active contact is not rejected.
SharesFromContactsPass ==
    \A n \in Node : \A i \in rejected[n] :
        ~\E k \in Key : k.owner = board[i].sender.owner /\ Active(n, k)
=============================================================================
