----------------------------- MODULE ContactTrust -----------------------------
(***************************************************************************)
(* Trust between users: the trust maps (one per domain), the contact book, *)
(* trust invites and their replay and decline records, and the operations  *)
(* of OperationProcessor that keep them in step.                           *)
(*                                                                         *)
(* No operation holds a lock: each is a program of store accesses, and     *)
(* another request may run, or the process may die, between any two.  A    *)
(* trust map is loaded, edited and stored whole; the contact book is       *)
(* loaded whole and then written back contact by contact.  A tier is       *)
(* represented by the role that carries it.                                *)
(***************************************************************************)
EXTENDS Integers, Sequences, FiniteSets, SequencesExt

CONSTANTS
    Key,            \* peers' public keys
    Role, Domain,
    DomainOf,       \* the trust domain of every role
    NoRole, NoContact,
    Invite,         \* valid invites users may hand to this node
    SenderOf,       \* the key that signed an invite
    Nonce,          \* nonces of the invites this node may create, in key order
    Task            \* requests that may be served at once

ASSUME RoleAssumption == DomainOf \in [Role -> Domain] /\ NoRole \notin Role
ASSUME DomainAssumption == IsFiniteSet(Domain)
ASSUME InviteAssumption == SenderOf \in [Invite -> Key]
ASSUME NonceAssumption == Nonce \subseteq Nat

VARIABLES
    trust,          \* trust[d][k]: the role whose tier key k has in domain d
    stored,         \* domains that have a stored trust map
    contacts,       \* the contact book
    consumed,       \* consumed invite nonces
    declined,       \* declined invites
    sent,           \* status of the invites this node created
    prog,           \* per task: the store accesses still to do
    local,          \* per task: what it has loaded
    start           \* history: per task, what was true when its request began

storeVars == <<trust, stored, contacts, consumed, declined, sent>>
taskVars  == <<prog, local>>
trustVars      == <<storeVars, taskVars, start>>

TrustMap == [Key -> Role \cup {NoRole}]
Contact  == [revoked : BOOLEAN, roles : [Domain -> Role \cup {NoRole}],
             direction : {"Outgoing", "Incoming", "Mutual"}]
Book     == [Key -> Contact \cup {NoContact}]
SentStatus == {"none", "pending", "accepted"}

TrustTypeOK ==
    /\ trust \in [Domain -> TrustMap]
    /\ stored \subseteq Domain
    /\ contacts \in Book
    /\ consumed \subseteq Invite
    /\ declined \subseteq Invite
    /\ sent \in [Nonce -> SentStatus]
    /\ local \in [Task -> [map : TrustMap, book : Book, todo : SUBSET Key,
                           mutual : BOOLEAN, sent : [Nonce -> SentStatus],
                           declined : SUBSET Invite]]
    /\ start \in [Task -> [consumed : SUBSET Invite, declined : SUBSET Invite,
                           alone : BOOLEAN]]

EmptyMap == [k \in Key |-> NoRole]
EmptyBook == [k \in Key |-> NoContact]
NoneSent == [n \in Nonce |-> "none"]
EmptyLocal == [map |-> EmptyMap, book |-> EmptyBook, todo |-> {}, mutual |-> FALSE,
               sent |-> NoneSent, declined |-> {}]

TrustInit ==
    /\ trust = [d \in Domain |-> EmptyMap]
    /\ stored = {}
    /\ contacts = EmptyBook
    /\ consumed = {}
    /\ declined = {}
    /\ sent = NoneSent
    /\ prog = [t \in Task |-> <<>>]
    /\ local = [t \in Task |-> EmptyLocal]
    /\ start = [t \in Task |-> [consumed |-> {}, declined |-> {}, alone |-> TRUE]]

Active(b, k) == b[k] # NoContact /\ ~b[k].revoked

-----------------------------------------------------------------------------
(* Edits of a loaded contact book                                          *)

\* upsert_contact: an update replaces the roles, for the new contact always
\* carries one, and clears revoked.
Upsert(b, k, r, direction) ==
    [b EXCEPT ![k] = [revoked |-> FALSE, direction |-> direction,
                      roles |-> [d \in Domain |-> IF d = DomainOf[r] THEN r ELSE NoRole]]]

SetRole(b, k, d, r) == IF b[k] = NoContact THEN b ELSE [b EXCEPT ![k].roles[d] = r]

Revoke(b, k) == IF b[k] = NoContact THEN b ELSE [b EXCEPT ![k].revoked = TRUE]

-----------------------------------------------------------------------------
(* The operations as programs of store accesses                            *)

Step(op)        == <<[op |-> op]>>
About(op, i)    == <<[op |-> op, invite |-> i]>>
EditBook(edit)  == <<[op |-> "loadBook", edit |-> edit], [op |-> "saveBook"]>>
EditTrust(d, k, r, invite) ==
    <<[op |-> "loadTrust", domain |-> d, invite |-> invite],
      [op |-> "storeTrust", domain |-> d, key |-> k, role |-> r, invite |-> invite]>>

GrantTrustForDomain(k, r) == EditTrust(DomainOf[r], k, r, {})

RevokeTrustForDomain(k, d) == EditTrust(d, k, NoRole, {})

AssignRoleToContact(k, r) ==
    GrantTrustForDomain(k, r)
        \o EditBook([kind |-> "role", key |-> k, domain |-> DomainOf[r], role |-> r])

RemoveRoleFromContact(k, d) ==
    RevokeTrustForDomain(k, d)
        \o EditBook([kind |-> "role", key |-> k, domain |-> d, role |-> NoRole])

\* The handshake of DiscoveryConnection ends like this: Incoming at the node
\* that was asked, Outgoing at the one that asked.
ConnectContact(k, r, direction) ==
    GrantTrustForDomain(k, r)
        \o EditBook([kind |-> "connect", key |-> k, role |-> r, direction |-> direction])

ListAndRevoke(k) == <<[op |-> "listDomains", key |-> k]>>

\* Faulty variant: the contact is marked before its grants are removed.
RevokeContactMarksFirst(k) == EditBook([kind |-> "revoke", key |-> k]) \o ListAndRevoke(k)

RevokeContact(k) == ListAndRevoke(k) \o EditBook([kind |-> "revoke", key |-> k])

CreateTrustInvite(n) == Step("loadSent") \o <<[op |-> "recordSent", nonce |-> n]>>

AcceptGrant(i, r) == EditTrust(DomainOf[r], SenderOf[i], r, {i})

\* What accept_trust_invite does once the trust is stored and the nonce marked.
AcceptFiling(i, r) ==
    Step("loadSent") \o Step("acceptSent")
        \o <<[op |-> "checkKnown", key |-> SenderOf[i]]>>
        \o EditBook([kind |-> "accept", key |-> SenderOf[i], role |-> r])

\* Faulty variant: the replay check is missing.
AcceptUnchecked(i, r) ==
    About("checkDeclined", i)
        \o AcceptGrant(i, r) \o About("markNonce", i) \o AcceptFiling(i, r)

\* The role is the invite's or the one the user picks instead.
AcceptTrustInvite(i, r) ==
    About("checkNonce", i) \o About("checkDeclined", i)
        \o AcceptGrant(i, r) \o About("markNonce", i) \o AcceptFiling(i, r)

Start(t, about, program) ==
    LET others == {u \in Task \ {t} : prog[u] # <<>>} IN
    /\ prog[t] = <<>>
    /\ prog' = [prog EXCEPT ![t] = program]
    /\ start' = [u \in Task |->
                    IF u = t THEN [consumed |-> consumed \cap about,
                                   declined |-> declined \cap about, alone |-> others = {}]
                    ELSE IF u \in others THEN [start[u] EXCEPT !.alone = FALSE] ELSE start[u]]
    /\ UNCHANGED <<storeVars, local>>

\* A nonce is drawn once: no request holds it and no row has it.
Drawn(n) ==
    \/ sent[n] # "none"
    \/ \E t \in Task : \E j \in DOMAIN prog[t] :
          prog[t][j].op = "recordSent" /\ prog[t][j].nonce = n

Serve(t) ==
    \/ \E k \in Key, r \in Role :
          \/ Start(t, {k}, AssignRoleToContact(k, r))
          \/ Start(t, {k}, GrantTrustForDomain(k, r))
          \/ \E direction \in {"Incoming", "Outgoing"} :
                Start(t, {k}, ConnectContact(k, r, direction))
    \/ \E k \in Key, d \in Domain :
          \/ Start(t, {k}, RemoveRoleFromContact(k, d))
          \/ Start(t, {k}, RevokeTrustForDomain(k, d))
    \/ \E k \in Key : Start(t, {k}, RevokeContact(k))
    \/ \E i \in Invite, r \in Role :
          \/ Start(t, {i, SenderOf[i]}, AcceptTrustInvite(i, r))
          \/ \E n \in Nonce :
                /\ ~Drawn(n)
                /\ Start(t, {i, SenderOf[i]}, AcceptTrustInvite(i, r) \o CreateTrustInvite(n))
    \/ \E n \in Nonce : ~Drawn(n) /\ Start(t, {}, CreateTrustInvite(n))
    \/ \E i \in Invite :
          \/ Start(t, {i}, Step("loadDeclined") \o About("decline", i))
          \/ Start(t, {i}, Step("loadDeclined") \o About("undecline", i))

-----------------------------------------------------------------------------
(* One action per kind of store access                                     *)

At(t, op) == prog[t] # <<>> /\ Head(prog[t]).op = op

\* The last access of a program ends the request and forgets what it read.
Done(t, rest, read) ==
    /\ prog' = [prog EXCEPT ![t] = rest]
    /\ local' = [local EXCEPT ![t] = IF rest = <<>> THEN EmptyLocal ELSE read]

Advance(t, read) == Done(t, Tail(prog[t]), read)

LoadTrustMap(t) ==
    /\ At(t, "loadTrust")
    /\ Advance(t, [local[t] EXCEPT !.map = trust[Head(prog[t]).domain]])
    /\ UNCHANGED <<storeVars, start>>

StoreTrustMap(t) ==
    LET s == Head(prog[t]) IN
    /\ At(t, "storeTrust")
    /\ trust' = [trust EXCEPT ![s.domain] = [local[t].map EXCEPT ![s.key] = s.role]]
    /\ stored' = stored \cup {s.domain}
    /\ Advance(t, [local[t] EXCEPT !.map = EmptyMap])
    /\ UNCHANGED <<contacts, consumed, declined, sent, start>>

\* Two accesses for each domain listed: load its map, store it without k.
Revocations(k, domains) ==
    [j \in 1..(2 * Len(domains)) |->
        RevokeTrustForDomain(k, domains[(j + 1) \div 2])[IF j % 2 = 1 THEN 1 ELSE 2]]

\* list_trust_domains, and one revocation for each domain listed.
ListDomains(t) ==
    /\ At(t, "listDomains")
    /\ Done(t, Revocations(Head(prog[t]).key, SetToSeq(stored)) \o Tail(prog[t]), local[t])
    /\ UNCHANGED <<storeVars, start>>

Edited(t) ==
    LET e == Head(prog[t]).edit IN
    CASE e.kind = "role"    -> SetRole(contacts, e.key, e.domain, e.role)
      [] e.kind = "revoke"  -> Revoke(contacts, e.key)
      [] e.kind = "connect" -> Upsert(contacts, e.key, e.role, e.direction)
      [] e.kind = "accept"  -> Upsert(contacts, e.key, e.role,
                                      IF local[t].mutual THEN "Mutual" ELSE "Outgoing")

LoadContactBook(t) ==
    /\ At(t, "loadBook")
    /\ Advance(t, [local[t] EXCEPT !.book = Edited(t), !.mutual = FALSE,
                                   !.todo = {k \in Key : Edited(t)[k] # NoContact}])
    /\ UNCHANGED <<storeVars, start>>

\* ContactBook::save: one put per contact, in no particular order.
SaveContact(t) ==
    /\ At(t, "saveBook")
    /\ \/ /\ local[t].todo = {}
          /\ contacts' = contacts
          /\ Advance(t, local[t])
       \/ \E k \in local[t].todo :
          /\ contacts' = [contacts EXCEPT ![k] = local[t].book[k]]
          /\ IF local[t].todo = {k}
             THEN Advance(t, [local[t] EXCEPT !.todo = {}, !.book = EmptyBook])
             ELSE Done(t, prog[t], [local[t] EXCEPT !.todo = @ \ {k}])
    /\ UNCHANGED <<trust, stored, consumed, declined, sent, start>>

\* The replay check: a consumed nonce ends the request.
CheckNonce(t) ==
    /\ At(t, "checkNonce")
    /\ Done(t, IF Head(prog[t]).invite \in consumed THEN <<>> ELSE Tail(prog[t]), local[t])
    /\ UNCHANGED <<storeVars, start>>

\* A declined invite ends the request; a list that cannot be read counts as
\* empty, and the history forgets the declines with it.
CheckDeclined(t) ==
    /\ At(t, "checkDeclined")
    /\ \/ /\ Done(t, IF Head(prog[t]).invite \in declined THEN <<>> ELSE Tail(prog[t]), local[t])
          /\ start' = start
       \/ /\ Advance(t, local[t])
          /\ start' = [start EXCEPT ![t].declined = {}]
    /\ UNCHANGED <<storeVars>>

MarkNonceConsumed(t) ==
    /\ At(t, "markNonce")
    /\ consumed' = consumed \cup {Head(prog[t]).invite}
    /\ Advance(t, local[t])
    /\ UNCHANGED <<trust, stored, contacts, declined, sent, start>>

\* Is the sender an active contact already?  Then the trust is mutual.
CheckKnown(t) ==
    /\ At(t, "checkKnown")
    /\ Advance(t, [local[t] EXCEPT !.mutual = Active(contacts, Head(prog[t]).key)])
    /\ UNCHANGED <<storeVars, start>>

\* Sent invites that cannot be read count as none.
LoadSent(t) ==
    /\ At(t, "loadSent")
    /\ \E read \in {sent, NoneSent} : Advance(t, [local[t] EXCEPT !.sent = read])
    /\ UNCHANGED <<storeVars, start>>

\* One put per invite; the first failure ends the loop and is only logged.
SaveSent(t, rows) ==
    /\ \E written \in SUBSET {n \in Nonce : rows[n] # "none"} :
          sent' = [n \in Nonce |-> IF n \in written THEN rows[n] ELSE sent[n]]
    /\ Advance(t, [local[t] EXCEPT !.sent = NoneSent])
    /\ UNCHANGED <<trust, stored, contacts, consumed, declined, start>>

\* The last pending invite, whoever it went to, is marked.
AcceptSent(t) ==
    LET pending == {n \in Nonce : local[t].sent[n] = "pending"} IN
    /\ At(t, "acceptSent")
    /\ SaveSent(t, IF pending = {} THEN NoneSent
                   ELSE [local[t].sent EXCEPT ![Max(pending)] = "accepted"])

RecordSent(t) ==
    /\ At(t, "recordSent")
    /\ SaveSent(t, [local[t].sent EXCEPT ![Head(prog[t]).nonce] = "pending"])

LoadDeclined(t) ==
    /\ At(t, "loadDeclined")
    /\ Advance(t, [local[t] EXCEPT !.declined = declined])
    /\ UNCHANGED <<storeVars, start>>

\* decline_trust_invite saves the whole list it loaded and the new record.
DeclineTrustInvite(t) ==
    /\ At(t, "decline")
    /\ declined' = declined \cup local[t].declined \cup {Head(prog[t]).invite}
    /\ Advance(t, local[t])
    /\ UNCHANGED <<trust, stored, contacts, consumed, sent, start>>

\* Whoever was refused because of the decline need not be any more.
UndeclineInvite(t) ==
    LET undone == local[t].declined \cap {Head(prog[t]).invite} IN
    /\ At(t, "undecline")
    /\ declined' = declined \ undone
    /\ start' = [u \in Task |-> [start[u] EXCEPT !.declined = @ \ undone]]
    /\ Advance(t, local[t])
    /\ UNCHANGED <<trust, stored, contacts, consumed, sent>>

\* An access fails and its error is returned, or the process dies.
Fail(t) ==
    /\ prog[t] # <<>>
    /\ Done(t, <<>>, local[t])
    /\ UNCHANGED <<storeVars, start>>

TaskStep(t) ==
    \/ Serve(t) \/ Fail(t)
    \/ LoadTrustMap(t) \/ StoreTrustMap(t) \/ ListDomains(t)
    \/ LoadContactBook(t) \/ SaveContact(t)
    \/ CheckNonce(t) \/ CheckDeclined(t) \/ MarkNonceConsumed(t) \/ CheckKnown(t)
    \/ LoadSent(t) \/ AcceptSent(t) \/ RecordSent(t)
    \/ LoadDeclined(t) \/ DeclineTrustInvite(t) \/ UndeclineInvite(t)

TrustNext == \E t \in Task : TaskStep(t)

TrustSpec == TrustInit /\ [][TrustNext]_trustVars

-----------------------------------------------------------------------------
(* Correctness                                                             *)

\* revoke_contact, when no other request overlaps it, marks the contact only
\* when it has no trust left in any domain, also after earlier requests about
\* it, or an earlier revocation, died half-way.  The request that marks it is
\* the one whose program or copy of the book moves on with the write.
RevokedAfterTrustGone ==
    [][\A t \in Task, k \in Key :
          (/\ Active(contacts, k) /\ contacts'[k].revoked
           /\ prog'[t] # prog[t] \/ local'[t] # local[t]
           /\ start[t].alone)
              => \A d \in Domain : trust[d][k] = NoRole]_trustVars

\* The invites a request is about to give trust for.
Granting(t) ==
    IF At(t, "loadTrust") \/ At(t, "storeTrust") THEN Head(prog[t]).invite ELSE {}

\* Replay prevention: a request that began after the invite's nonce was
\* consumed gives no trust, whatever else is in progress; nor does one that
\* began with the invite declined, unless the decline was undone meanwhile or
\* the declines could not be read.
ReplayRefused ==
    \A t \in Task : Granting(t) \cap (start[t].consumed \cup start[t].declined) = {}

=============================================================================
