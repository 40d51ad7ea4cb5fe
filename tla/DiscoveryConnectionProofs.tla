---------------------- MODULE DiscoveryConnectionProofs ----------------------
(* Safety of the connection handshake for any number of nodes, schemas,    *)
(* polls and messages.                                                     *)
EXTENDS DiscoveryConnection, TLAPS, WellFoundedInduction

\* A handler that is not idle works on a message the board has.
PointerInv ==
    /\ \A n \in Node, p \in Poller :
          poller[n][p].pc # "idle" => poller[n][p].msg \in DOMAIN board
    /\ \A n \in Node : responder[n].pc # "idle" => responder[n].msg \in DOMAIN board
    /\ \A n \in Node : connector[n].pc = "save" => connector[n].msg \in DOMAIN board

TypeInv == TypeOK /\ PointerInv

\* A request names itself; an acceptance that echoes a request_id names a
\* request from its target to its sender.
BoardInv ==
    \A i \in DOMAIN board :
        /\ board[i].type = "request" => board[i].request_id = i
        /\ (board[i].type = "accept" /\ board[i].request_id # NoId) =>
              /\ board[i].request_id \in DOMAIN board
              /\ board[board[i].request_id].target = board[i].sender

\* Only messages on the board have rows, and only requests a received one.
SentInv ==
    \A n \in Node, i \in MsgId : sent[n][i] # "none" => i \in DOMAIN board
ReceivedInv ==
    \A n \in Node, i \in MsgId :
        received[n][i] # "none" => i \in DOMAIN board /\ board[i].type = "request"

\* An acceptance in progress answers a received row; a poll works on a
\* message to its node, and stores trust and contact only for an acceptance.
RespondInv ==
    \A n \in Node : responder[n].pc # "idle" => received[n][responder[n].msg] # "none"
PollInv ==
    \A n \in Node, p \in Poller :
        /\ poller[n][p].pc # "idle" => board[poller[n][p].msg].target.owner = n
        /\ poller[n][p].pc \in {"grant", "contact"} =>
              board[poller[n][p].msg].type = "accept"

RowsInv == SentInv /\ ReceivedInv /\ RespondInv /\ PollInv

\* A contact under a node key comes from an acceptance of that node.
BookInv ==
    \A n \in Node, m \in Node :
        contacts[n][NodeKey(m)] # NoContact => AcceptanceTo(n, m)

\* A share that was applied is on the board.
AppliedInv == \A n \in Node : applied[n] \subseteq DOMAIN board

-----------------------------------------------------------------------------
(* Pseudonyms and the board                                                *)

(***************************************************************************)
(* The first opt-in in key order is one of the opt-ins.                    *)
(***************************************************************************)
LEMMA MinType ==
    ASSUME NEW S \in SUBSET Nat, S # {}
    PROVE  Min(S) \in S
<1> DEFINE R == {ss \in Nat \X Nat : ss[1] < ss[2]}
<1>1. IsWellFoundedOn(R, Nat)
  BY NatLessThanWellFounded, Zenon DEF OpToRel
<1> HIDE DEF R
<1>2. PICK x \in S : \A y \in S : ~(<<y, x>> \in R)
  BY <1>1, WFMin
<1>3. ASSUME NEW y \in S PROVE x <= y
  <2>1. <<y, x>> \in Nat \X Nat /\ <<y, x>>[1] = y /\ <<y, x>>[2] = x
    OBVIOUS
  <2>2. y < x => <<y, x>> \in R
    BY <2>1, Zenon DEF R
  <2> QED
    BY <1>2, <2>2
<1> QED
  BY <1>3 DEF Min

(***************************************************************************)
(* A pseudonym belongs to a node and is no node key.                       *)
(***************************************************************************)
LEMMA PseudonymTypes ==
    /\ \A n \in Node, s \in Schema \cup {NoSchema} : SenderPseudonym(n, s) \in Pseudonym
    /\ \A n \in Node, s \in Schema : EmbeddingPseudonym(n, s) \in Pseudonym
    /\ \A q \in Pseudonym : q.owner \in Node /\ q.kind # "node" /\ q \in Key
    /\ \A n \in Node : NodeKey(n) \in Key /\ NodeKey(n).owner = n /\ NodeKey(n).kind = "node"
<1>1. \A n \in Node, s \in Schema \cup {NoSchema} : SenderPseudonym(n, s) \in Pseudonym
  BY DEF Pseudonym
<1>2. \A n \in Node, s \in Schema : EmbeddingPseudonym(n, s) \in Pseudonym
  BY DEF Pseudonym
<1>3. ASSUME NEW q \in Pseudonym PROVE q.owner \in Node /\ q.kind # "node" /\ q \in Key
  <2>1. \/ \E n \in Node, s \in Schema \cup {NoSchema} : q = SenderPseudonym(n, s)
        \/ \E n \in Node, s \in Schema : q = EmbeddingPseudonym(n, s)
    BY DEF Pseudonym
  <2> QED
    BY <2>1 DEF SenderPseudonym, EmbeddingPseudonym, Key
<1>4. \A n \in Node : NodeKey(n) \in Key /\ NodeKey(n).owner = n /\ NodeKey(n).kind = "node"
  BY DEF NodeKey, Key
<1> QED
  BY <1>1, <1>2, <1>3, <1>4

(***************************************************************************)
(* connect always sends from a pseudonym of the node.                      *)
(***************************************************************************)
LEMMA OurSenderType ==
    ASSUME TypeOK, NEW n \in Node
    PROVE  OurSenderPseudonym(n) \in Pseudonym
<1>1. opt_ins[n] \subseteq Schema /\ Schema \subseteq Nat
  BY SchemaAssumption DEF TypeOK
<1>2. opt_ins[n] # {} => Min(opt_ins[n]) \in Schema
  BY <1>1, MinType
<1> QED
  BY <1>2, PseudonymTypes DEF OurSenderPseudonym

(***************************************************************************)
(* A posted message is the last of the board; the others stay.             *)
(***************************************************************************)
LEMMA Posted ==
    ASSUME board \in Seq(Message), NEW msg \in Message, Post(msg)
    PROVE  /\ board' \in Seq(Message)
           /\ Len(board') <= MaxMessages
           /\ DOMAIN board' = DOMAIN board \cup {PostedId}
           /\ PostedId \notin DOMAIN board
           /\ board'[PostedId] = msg
           /\ \A i \in DOMAIN board : board'[i] = board[i]
<1>1. /\ board' = Append(board, msg)
      /\ Len(board) < MaxMessages
      /\ Len(board) \in Nat
      /\ DOMAIN board = 1..Len(board)
      /\ PostedId = Len(board) + 1
  BY DEF Post, CanPost, PostedId
<1>2. /\ board' \in Seq(Message)
      /\ Len(board') = Len(board) + 1
      /\ DOMAIN board' = 1..(Len(board) + 1)
      /\ board'[Len(board) + 1] = msg
      /\ \A i \in 1..Len(board) : board'[i] = board[i]
  BY <1>1
<1> QED
  BY <1>1, <1>2, MaxAssumption

(***************************************************************************)
(* What a message of the board carries.                                    *)
(***************************************************************************)
LEMMA BoardTypes ==
    ASSUME TypeOK
    PROVE  /\ DOMAIN board \subseteq MsgId
           /\ \A i \in DOMAIN board :
                 /\ board[i] \in Message
                 /\ board[i].target \in Pseudonym /\ board[i].sender \in Pseudonym
                 /\ board[i].request_id \in MsgId \cup {NoId} /\ board[i].role \in Role
<1>1. DOMAIN board = 1..Len(board) /\ Len(board) \in Nat /\ Len(board) <= MaxMessages
  BY DEF TypeOK
<1>2. \A i \in DOMAIN board : board[i] \in Message
  BY DEF TypeOK
<1> QED
  BY <1>1, <1>2, MaxAssumption DEF MsgId, Message

-----------------------------------------------------------------------------
(* Type correctness                                                        *)

PollRecord     == [pc : PollPC, msg : MsgId \cup {NoId}, role : Role]
PollerTyped    == poller \in [Node -> [Poller -> PollRecord]]
ConnectRecord  == [pc : ConnectPC, msg : MsgId \cup {NoId}, role : Role,
                   target : SUBSET Pseudonym]
ConnectorTyped == connector \in [Node -> ConnectRecord]
ResponderTyped == responder \in [Node -> [pc : RespondPC, msg : MsgId \cup {NoId}, role : Role]]

(***************************************************************************)
(* A poll in progress dispatches a message of the board.                   *)
(***************************************************************************)
LEMMA PollTypes ==
    ASSUME TypeInv, NEW n \in Node, NEW p \in Poller
    PROVE  /\ poller[n][p] \in PollRecord
           /\ poller[n][p].pc \in PollPC
           /\ poller[n][p].role \in Role
           /\ poller[n][p].pc # "idle" =>
                 /\ poller[n][p].msg \in DOMAIN board
                 /\ poller[n][p].msg \in MsgId
                 /\ board[poller[n][p].msg].sender \in Pseudonym
                 /\ board[poller[n][p].msg].sender.owner \in Node
<1>1. poller[n][p] \in PollRecord
  BY DEF TypeInv, TypeOK, PollRecord
<1>2. poller[n][p].pc \in PollPC /\ poller[n][p].role \in Role
  BY <1>1 DEF PollRecord
<1>3. poller[n][p].pc # "idle" => poller[n][p].msg \in DOMAIN board
  BY DEF TypeInv, PointerInv
<1> QED
  BY <1>1, <1>2, <1>3, BoardTypes, PseudonymTypes DEF TypeInv

(***************************************************************************)
(* A status written to a sent row.                                         *)
(***************************************************************************)
LEMMA SentTypes ==
    ASSUME TypeOK, NEW n \in Node, NEW i \in MsgId, NEW st \in SentStatus,
           sent' = [sent EXCEPT ![n][i] = st]
    PROVE  /\ sent' \in [Node -> [MsgId -> SentStatus]]
           /\ sent'[n][i] = st
           /\ \A m \in Node, j \in MsgId : (m # n \/ j # i) => sent'[m][j] = sent[m][j]
BY DEF TypeOK

(***************************************************************************)
(* One poll moves: the others, and the other handlers, keep their message. *)
(***************************************************************************)
LEMMA PollerMoves ==
    ASSUME TypeInv, NEW n \in Node, NEW p \in Poller, NEW rec \in PollRecord,
           poller' = [poller EXCEPT ![n][p] = rec],
           rec.pc # "idle" => rec.msg \in DOMAIN board,
           UNCHANGED <<board, connector, responder>>
    PROVE  PollerTyped' /\ PointerInv'
<1>1. PollerTyped'
  BY DEF TypeInv, TypeOK, PollRecord, PollerTyped
<1>2. \A m \in Node, q \in Poller : poller'[m][q] = IF m = n /\ q = p THEN rec ELSE poller[m][q]
  BY DEF TypeInv, TypeOK
<1> QED
  BY <1>1, <1>2 DEF TypeInv, PointerInv

(***************************************************************************)
(* A poll goes on with the message it dispatches, or ends.                 *)
(***************************************************************************)
LEMMA PollerSteps ==
    ASSUME TypeInv, NEW n \in Node, NEW p \in Poller, NEW pc \in PollPC,
           poller[n][p].pc # "idle", poller' = [poller EXCEPT ![n][p].pc = pc],
           UNCHANGED <<board, connector, responder>>
    PROVE  PollerTyped' /\ PointerInv'
<1> DEFINE rec == [poller[n][p] EXCEPT !.pc = pc]
<1>1. poller[n][p] \in PollRecord /\ poller[n][p].msg \in DOMAIN board
  BY PollTypes
<1>3. rec \in PollRecord /\ rec.msg = poller[n][p].msg
  BY <1>1 DEF PollRecord
<1>2. poller' = [poller EXCEPT ![n][p] = rec]
  OBVIOUS
<1> HIDE DEF rec
<1> QED
  BY <1>1, <1>2, <1>3, PollerMoves

(***************************************************************************)
(* A poll ends, marked or failed.                                          *)
(***************************************************************************)
LEMMA PollerStops ==
    ASSUME TypeInv, NEW n \in Node, NEW p \in Poller,
           poller' = [poller EXCEPT ![n][p] = IdlePoll],
           UNCHANGED <<board, connector, responder>>
    PROVE  PollerTyped' /\ PointerInv'
<1>1. IdlePoll \in PollRecord /\ IdlePoll.pc = "idle"
  BY RoleAssumption DEF IdlePoll, PollRecord, PollPC
<1> QED
  BY <1>1, PollerMoves

(***************************************************************************)
(* Every handler of the handshake leaves rows, contacts, trust and markers *)
(* well formed, and works on a message that is on the board.               *)
(***************************************************************************)
LEMMA TypeInvariant == Spec => []TypeInv
<1>1. Init => TypeInv
  <2> SUFFICES ASSUME Init PROVE TypeInv
    OBVIOUS
  <2>1. board \in Seq(Message) /\ Len(board) <= MaxMessages
    BY MaxAssumption DEF Init
  <2>2. published \subseteq Pseudonym
    BY PseudonymTypes, NodeAssumption DEF Init
  <2>3. PointerInv
    BY DEF Init, PointerInv, IdlePoll, IdleRespond, IdleConnect
  <2> QED
    BY <2>1, <2>2, <2>3, RoleAssumption
    DEF Init, TypeInv, TypeOK, IdlePoll, IdleRespond, IdleConnect, SentStatus,
        ReceivedStatus, PollPC, ConnectPC, RespondPC
<1>2. TypeInv /\ [Next]_vars => TypeInv'
  <2> SUFFICES ASSUME TypeInv, [Next]_vars PROVE TypeInv'
    OBVIOUS
  <2>1. ASSUME NEW n \in Node, NEW s \in Schema, OptIn(n, s) PROVE TypeInv'
    BY <2>1 DEF OptIn, localVars, handlerVars, TypeInv, TypeOK, PointerInv
  <2>2. ASSUME NEW n \in Node, NEW s \in Schema, OptOut(n, s) PROVE TypeInv'
    BY <2>2 DEF OptOut, localVars, handlerVars, TypeInv, TypeOK, PointerInv
  <2>3. ASSUME NEW n \in Node, Publish(n) PROVE TypeInv'
    <3>1. published' \subseteq Pseudonym
      BY <2>3, PseudonymTypes DEF Publish, TypeInv, TypeOK
    <3> QED
      BY <2>3, <3>1 DEF Publish, localVars, handlerVars, TypeInv, TypeOK, PointerInv
  <2>4. ASSUME NEW n \in Node, NEW t \in {q \in Pseudonym : q.owner # n},
               NEW r \in Role, ConnectCheck(n, t, r)
        PROVE  TypeInv'
    <3>1. ConnectorTyped' /\ PointerInv'
      BY <2>4
      DEF ConnectCheck, ConnectorTyped, ConnectRecord, ConnectPC, TypeInv, TypeOK,
          PointerInv
    <3> QED
      BY <2>4, <3>1
      DEF ConnectCheck, localVars, TypeInv, TypeOK, ConnectorTyped, ConnectRecord
  <2>5. ASSUME NEW n \in Node, ConnectPost(n) PROVE TypeInv'
    <3>1. PICK t \in connector[n].target :
             Post([type |-> "request", target |-> t, sender |-> OurSenderPseudonym(n),
                   request_id |-> PostedId, role |-> connector[n].role, card |-> FALSE])
      BY <2>5 DEF ConnectPost
    <3> DEFINE msg == [type |-> "request", target |-> t, sender |-> OurSenderPseudonym(n),
                       request_id |-> PostedId, role |-> connector[n].role, card |-> FALSE]
    <3>2. t \in Pseudonym /\ connector[n].role \in Role
      BY <3>1 DEF TypeInv, TypeOK
    <3>3. PostedId \in MsgId
      BY <3>1, MaxAssumption DEF Post, CanPost, PostedId, MsgId, TypeInv, TypeOK
    <3>4. msg \in Message
      BY <3>2, <3>3, OurSenderType DEF Message, TypeInv
    <3>5. Post(msg)
      BY <3>1
    <3> HIDE DEF msg
    <3>6. /\ board' \in Seq(Message) /\ Len(board') <= MaxMessages
          /\ DOMAIN board' = DOMAIN board \cup {PostedId}
      BY <3>4, <3>5, Posted DEF TypeInv, TypeOK
    <3>7. ConnectorTyped'
      <4>1. connector[n] \in ConnectRecord
        BY DEF TypeInv, TypeOK, ConnectRecord
      <4>2. [connector[n] EXCEPT !.pc = "save", !.msg = PostedId] \in ConnectRecord
        BY <4>1, <3>3 DEF ConnectRecord, ConnectPC
      <4>3. connector' = [connector EXCEPT ![n] =
                             [connector[n] EXCEPT !.pc = "save", !.msg = PostedId]]
        BY <2>5 DEF ConnectPost
      <4> QED
        BY <4>2, <4>3 DEF ConnectorTyped, TypeInv, TypeOK, ConnectRecord
    <3>8. \A m \in Node : m # n => connector'[m] = connector[m]
      BY <2>5 DEF ConnectPost, TypeInv, TypeOK
    <3>9. connector'[n].msg = PostedId
      BY <2>5 DEF ConnectPost, TypeInv, TypeOK
    <3>10. UNCHANGED <<poller, responder>>
      BY <2>5 DEF ConnectPost
    <3>11. PointerInv'
      BY <3>6, <3>8, <3>9, <3>10 DEF TypeInv, PointerInv
    <3> QED
      BY <2>5, <3>6, <3>11, <3>7
      DEF ConnectPost, localVars, TypeInv, TypeOK, ConnectorTyped, ConnectRecord
  <2>6. ASSUME NEW n \in Node, ConnectSave(n) PROVE TypeInv'
    <3>1. connector[n].msg \in MsgId
      BY <2>6, BoardTypes DEF ConnectSave, TypeInv, PointerInv
    <3>2. sent' \in [Node -> [MsgId -> SentStatus]]
      BY <2>6, <3>1 DEF ConnectSave, SaveSentRequest, TypeInv, TypeOK, SentStatus
    <3>3. ConnectorTyped' /\ PointerInv'
      BY <2>6, RoleAssumption
      DEF ConnectSave, IdleConnect, ConnectorTyped, ConnectRecord, ConnectPC,
          TypeInv, TypeOK, PointerInv
    <3> QED
      BY <2>6, <3>2, <3>3
      DEF ConnectSave, TypeInv, TypeOK, ConnectorTyped, ConnectRecord
  <2>7. ASSUME NEW n \in Node, ConnectFail(n) PROVE TypeInv'
    <3>1. ConnectorTyped' /\ PointerInv'
      BY <2>7, RoleAssumption
      DEF ConnectFail, IdleConnect, ConnectorTyped, ConnectRecord, ConnectPC,
          TypeInv, TypeOK, PointerInv
    <3> QED
      BY <2>7, <3>1
      DEF ConnectFail, localVars, TypeInv, TypeOK, ConnectorTyped, ConnectRecord
  <2>8. ASSUME NEW n \in Node, NEW i \in DOMAIN board,
               NEW a \in {"accept", "decline"}, NEW r \in Role, Respond(n, i, a, r)
        PROVE  TypeInv'
    <3>1. i \in MsgId
      BY BoardTypes DEF TypeInv
    <3>2. received' \in [Node -> [MsgId -> ReceivedStatus]]
      BY <2>8, <3>1 DEF Respond, UpdateRequestStatus, TypeInv, TypeOK, ReceivedStatus
    <3>3. ResponderTyped' /\ PointerInv'
      BY <2>8, <3>1 DEF Respond, ResponderTyped, RespondPC, TypeInv, TypeOK, PointerInv
    <3> QED
      BY <2>8, <3>2, <3>3 DEF Respond, TypeInv, TypeOK, ResponderTyped
  <2>9. ASSUME NEW n \in Node, RespondGrant(n) PROVE TypeInv'
    <3>1. board[responder[n].msg].sender \in Pseudonym /\ responder[n].role \in Role
      BY <2>9, BoardTypes DEF RespondGrant, TypeInv, TypeOK, PointerInv
    <3>2. board[responder[n].msg].sender \in Key
      BY <3>1, PseudonymTypes
    <3>3. trust' \in [Node -> SUBSET (Key \X {DomainOf[d] : d \in Role})]
      BY <2>9, <3>1, <3>2 DEF RespondGrant, GrantTrust, TypeInv, TypeOK
    <3>4. ResponderTyped' /\ PointerInv'
      BY <2>9 DEF RespondGrant, ResponderTyped, RespondPC, TypeInv, TypeOK, PointerInv
    <3> QED
      BY <2>9, <3>3, <3>4 DEF RespondGrant, TypeInv, TypeOK, ResponderTyped
  <2>10. ASSUME NEW n \in Node, RespondContact(n) PROVE TypeInv'
    <3> DEFINE sender == board[responder[n].msg].sender
    <3>1. sender \in Pseudonym /\ responder[n].role \in Role
      BY <2>10, BoardTypes DEF RespondContact, TypeInv, TypeOK, PointerInv
    <3>2. /\ sender \in Key
          /\ [messaging |-> sender, role |-> responder[n].role, revoked |-> FALSE] \in Contact
      BY <3>1, PseudonymTypes DEF Contact
    <3>3. contacts' \in [Node -> [Key -> Contact \cup {NoContact}]]
      BY <2>10, <3>2 DEF RespondContact, UpsertContact, TypeInv, TypeOK
    <3>4. ResponderTyped' /\ PointerInv'
      BY <2>10
      DEF RespondContact, ResponderTyped, RespondPC, TypeInv, TypeOK, PointerInv
    <3> QED
      BY <2>10, <3>3, <3>4 DEF RespondContact, TypeInv, TypeOK, ResponderTyped
  <2>11. ASSUME NEW n \in Node, RespondSend(n) PROVE TypeInv'
    <3>1. Acceptance(n) \in Message
      BY <2>11, BoardTypes, RoleAssumption
      DEF RespondSend, Acceptance, Message, TypeInv, PointerInv
    <3>2. /\ board' \in Seq(Message) /\ Len(board') <= MaxMessages
          /\ DOMAIN board' = DOMAIN board \cup {PostedId}
      BY <2>11, <3>1, Posted DEF RespondSend, TypeInv, TypeOK
    <3>3. ResponderTyped' /\ PointerInv'
      BY <2>11, <3>2, RoleAssumption
      DEF RespondSend, IdleRespond, ResponderTyped, RespondPC, TypeInv, TypeOK,
          PointerInv
    <3> QED
      BY <2>11, <3>2, <3>3 DEF RespondSend, localVars, TypeInv, TypeOK, ResponderTyped
  <2>12. ASSUME NEW n \in Node, RespondFail(n) PROVE TypeInv'
    <3>1. ResponderTyped' /\ PointerInv'
      BY <2>12, RoleAssumption
      DEF RespondFail, IdleRespond, ResponderTyped, RespondPC, TypeInv, TypeOK,
          PointerInv
    <3> QED
      BY <2>12, <3>1 DEF RespondFail, localVars, TypeInv, TypeOK, ResponderTyped
  <2>13. ASSUME NEW n \in Node, NEW i \in DOMAIN board,
                NEW a \in {"accept", "decline"}, LegacyReply(n, i, a)
         PROVE  TypeInv'
    <3> DEFINE msg == [type |-> a, target |-> board[i].sender, sender |-> board[i].target,
                       request_id |-> NoId, role |-> DefaultRole, card |-> FALSE]
    <3>1. msg \in Message
      BY BoardTypes, RoleAssumption DEF Message, TypeInv
    <3>2. Post(msg)
      BY <2>13 DEF LegacyReply
    <3> HIDE DEF msg
    <3>3. /\ board' \in Seq(Message) /\ Len(board') <= MaxMessages
          /\ DOMAIN board' = DOMAIN board \cup {PostedId}
      BY <3>1, <3>2, Posted DEF TypeInv, TypeOK
    <3>4. PointerInv'
      BY <2>13, <3>3 DEF LegacyReply, handlerVars, TypeInv, PointerInv
    <3> QED
      BY <2>13, <3>3, <3>4 DEF LegacyReply, localVars, handlerVars, TypeInv, TypeOK
  <2>14. ASSUME NEW n \in Node, NEW p \in Poller, NEW i \in DOMAIN board, Poll(n, p, i)
         PROVE  TypeInv'
    <3> DEFINE rec == [pc |-> "dispatch", msg |-> i, role |-> DefaultRole]
    <3>1. rec \in PollRecord
      BY BoardTypes, RoleAssumption DEF PollRecord, PollPC, TypeInv
    <3>2. poller' = [poller EXCEPT ![n][p] = rec]
      BY <2>14 DEF Poll
    <3>3. PollerTyped' /\ PointerInv'
      BY <2>14, <3>1, <3>2, PollerMoves DEF Poll
    <3> QED
      BY <2>14, <3>3 DEF Poll, localVars, TypeInv, TypeOK, PollerTyped, PollRecord
  <2>15. ASSUME NEW n \in Node, NEW p \in Poller, DispatchRequest(n, p) PROVE TypeInv'
    <3>1. PollerTyped' /\ PointerInv'
      BY <2>15, PollerSteps DEF DispatchRequest, Dispatching, PollPC
    <3>2. poller[n][p].msg \in MsgId
      BY <2>15, BoardTypes DEF DispatchRequest, Dispatching, TypeInv, PointerInv
    <3>3. received' \in [Node -> [MsgId -> ReceivedStatus]]
      BY <2>15, <3>2
      DEF DispatchRequest, SaveReceivedRequest, TypeInv, TypeOK, ReceivedStatus
    <3> QED
      BY <2>15, <3>1, <3>3 DEF DispatchRequest, TypeInv, TypeOK, PollerTyped, PollRecord
  <2>16. ASSUME NEW n \in Node, NEW p \in Poller, DispatchAccept(n, p) PROVE TypeInv'
    <3> DEFINE next == IF board[poller[n][p].msg].card THEN "grant" ELSE "mark"
    <3>1. \A i \in DOMAIN board : board[i].role \in Role /\ i \in MsgId
      BY BoardTypes DEF TypeInv
    <3>2. PICK role \in Role :
             poller' = [poller EXCEPT ![n][p].pc = next, ![n][p].role = role]
      BY <2>16, <3>1, RoleAssumption DEF DispatchAccept, MatchingRows
    <3>3. next \in PollPC
      BY DEF PollPC
    <3> HIDE DEF next
    <3> DEFINE rec == [poller[n][p] EXCEPT !.pc = next, !.role = role]
    <3>4. poller[n][p] \in PollRecord /\ poller[n][p].msg \in DOMAIN board
      BY <2>16, PollTypes DEF DispatchAccept, Dispatching
    <3>5. rec \in PollRecord /\ rec.msg = poller[n][p].msg
      BY <3>3, <3>4 DEF PollRecord
    <3>6. poller' = [poller EXCEPT ![n][p] = rec]
      BY <3>2 DEF TypeInv, TypeOK
    <3> HIDE DEF rec
    <3>7. PollerTyped' /\ PointerInv'
      BY <2>16, <3>5, <3>6, <3>4, PollerMoves DEF DispatchAccept
    <3>8. sent' = sent \/ \E i \in MsgId : sent' = [sent EXCEPT ![n][i] = "accepted"]
      BY <2>16, <3>1 DEF DispatchAccept, MatchingRows
    <3>9. sent' \in [Node -> [MsgId -> SentStatus]]
      BY <3>8, SentTypes DEF TypeInv, TypeOK, SentStatus
    <3> QED
      BY <2>16, <3>7, <3>9 DEF DispatchAccept, TypeInv, TypeOK, PollerTyped, PollRecord
  <2>17. ASSUME NEW n \in Node, NEW p \in Poller, AcceptGrant(n, p) PROVE TypeInv'
    <3>1. PollerTyped' /\ PointerInv'
      BY <2>17, PollerSteps DEF AcceptGrant, PollPC
    <3>2. NodeKey(board[poller[n][p].msg].sender.owner) \in Key /\ poller[n][p].role \in Role
      BY <2>17, PollTypes, PseudonymTypes DEF AcceptGrant
    <3>3. trust' \in [Node -> SUBSET (Key \X {DomainOf[d] : d \in Role})]
      BY <2>17, <3>2 DEF AcceptGrant, GrantTrust, TypeInv, TypeOK
    <3> QED
      BY <2>17, <3>1, <3>3 DEF AcceptGrant, TypeInv, TypeOK, PollerTyped, PollRecord
  <2>18. ASSUME NEW n \in Node, NEW p \in Poller, AcceptContact(n, p) PROVE TypeInv'
    <3> DEFINE sender == board[poller[n][p].msg].sender
    <3>1. PollerTyped' /\ PointerInv'
      BY <2>18, PollerSteps DEF AcceptContact, PollPC
    <3>2. sender \in Pseudonym /\ NodeKey(sender.owner) \in Key /\ poller[n][p].role \in Role
      BY <2>18, PollTypes, PseudonymTypes DEF AcceptContact
    <3>3. [messaging |-> sender, role |-> poller[n][p].role, revoked |-> FALSE] \in Contact
      BY <3>2 DEF Contact
    <3>4. contacts' \in [Node -> [Key -> Contact \cup {NoContact}]]
      BY <2>18, <3>2, <3>3 DEF AcceptContact, UpsertContact, TypeInv, TypeOK
    <3> QED
      BY <2>18, <3>1, <3>4 DEF AcceptContact, TypeInv, TypeOK, PollerTyped, PollRecord
  <2>19. ASSUME NEW n \in Node, NEW p \in Poller, DispatchDecline(n, p) PROVE TypeInv'
    <3>1. PollerTyped' /\ PointerInv'
      BY <2>19, PollerSteps DEF DispatchDecline, Dispatching, PollPC
    <3>2. \A i \in DOMAIN board : i \in MsgId
      BY BoardTypes DEF TypeInv
    <3>3. sent' = sent \/ \E i \in MsgId : sent' = [sent EXCEPT ![n][i] = "declined"]
      BY <2>19, <3>2 DEF DispatchDecline, MatchingRows
    <3>4. sent' \in [Node -> [MsgId -> SentStatus]]
      BY <3>3, SentTypes DEF TypeInv, TypeOK, SentStatus
    <3> QED
      BY <2>19, <3>1, <3>4 DEF DispatchDecline, TypeInv, TypeOK, PollerTyped, PollRecord
  <2>20. ASSUME NEW n \in Node, NEW p \in Poller, NEW a \in BOOLEAN,
                DispatchDataShare(n, p, a)
         PROVE  TypeInv'
    <3>1. PollerTyped' /\ PointerInv'
      BY <2>20, PollerSteps DEF DispatchDataShare, Dispatching, PollPC
    <3>2. poller[n][p].msg \in MsgId
      BY <2>20, BoardTypes DEF DispatchDataShare, Dispatching, TypeInv, PointerInv
    <3>3. applied' \in [Node -> SUBSET MsgId] /\ rejected' \in [Node -> SUBSET MsgId]
      BY <2>20, <3>2 DEF DispatchDataShare, TypeInv, TypeOK
    <3> QED
      BY <2>20, <3>1, <3>3
      DEF DispatchDataShare, TypeInv, TypeOK, PollerTyped, PollRecord
  <2>21. ASSUME NEW n \in Node, NEW p \in Poller, MarkProcessed(n, p) PROVE TypeInv'
    <3>1. PollerTyped' /\ PointerInv'
      BY <2>21, PollerStops DEF MarkProcessed
    <3>2. poller[n][p].msg \in MsgId
      BY <2>21, BoardTypes DEF MarkProcessed, TypeInv, PointerInv
    <3>3. processed' \in [Node -> SUBSET MsgId]
      BY <2>21, <3>2 DEF MarkProcessed, TypeInv, TypeOK
    <3> QED
      BY <2>21, <3>1, <3>3
      DEF MarkProcessed, localVars, TypeInv, TypeOK, PollerTyped, PollRecord
  <2>22. ASSUME NEW n \in Node, NEW p \in Poller, PollFail(n, p) PROVE TypeInv'
    <3>1. PollerTyped' /\ PointerInv'
      BY <2>22, PollerStops DEF PollFail
    <3> QED
      BY <2>22, <3>1 DEF PollFail, localVars, TypeInv, TypeOK, PollerTyped, PollRecord
  <2>23. ASSUME NEW n \in Node, NEW k \in Key, SendDataShare(n, k) PROVE TypeInv'
    <3> DEFINE msg == [type |-> "data_share", target |-> contacts[n][k].messaging,
                       sender |-> SenderPseudonym(n, NoSchema),
                       request_id |-> NoId, role |-> DefaultRole, card |-> FALSE]
    <3>1. contacts[n][k] \in Contact
      BY <2>23 DEF SendDataShare, Active, TypeInv, TypeOK
    <3>2. msg \in Message
      BY <3>1, PseudonymTypes, RoleAssumption DEF Message, Contact
    <3>3. Post(msg)
      BY <2>23 DEF SendDataShare
    <3> HIDE DEF msg
    <3>4. /\ board' \in Seq(Message) /\ Len(board') <= MaxMessages
          /\ DOMAIN board' = DOMAIN board \cup {PostedId}
      BY <3>2, <3>3, Posted DEF TypeInv, TypeOK
    <3>5. PointerInv'
      BY <2>23, <3>4 DEF SendDataShare, handlerVars, TypeInv, PointerInv
    <3> QED
      BY <2>23, <3>4, <3>5 DEF SendDataShare, localVars, handlerVars, TypeInv, TypeOK
  <2>24. ASSUME NEW n \in Node, NEW k \in Key, RevokeContact(n, k) PROVE TypeInv'
    <3>1. contacts[n][k] \in Contact
      BY <2>24 DEF RevokeContact, Active, TypeInv, TypeOK
    <3>2. [contacts[n][k] EXCEPT !.revoked = TRUE] \in Contact
      BY <3>1 DEF Contact
    <3>3. contacts' = [contacts EXCEPT ![n][k] = [contacts[n][k] EXCEPT !.revoked = TRUE]]
      BY <2>24 DEF RevokeContact
    <3>4. contacts' \in [Node -> [Key -> Contact \cup {NoContact}]]
      BY <3>2, <3>3 DEF TypeInv, TypeOK
    <3>5. trust' \in [Node -> SUBSET (Key \X {DomainOf[d] : d \in Role})]
      BY <2>24 DEF RevokeContact, TypeInv, TypeOK
    <3> QED
      BY <2>24, <3>4, <3>5 DEF RevokeContact, handlerVars, TypeInv, TypeOK, PointerInv
  <2>25. CASE UNCHANGED vars
    BY <2>25 DEF vars, localVars, handlerVars, TypeInv, TypeOK, PointerInv
  <2> QED
    BY <2>1, <2>2, <2>3, <2>4, <2>5, <2>6, <2>7, <2>8, <2>9, <2>10, <2>11, <2>12,
       <2>13, <2>14, <2>15, <2>16, <2>17, <2>18, <2>19, <2>20, <2>21, <2>22, <2>23,
       <2>24, <2>25
    DEF Next, Discovery, Connect, Answer, Inbound, Trusting
<1> QED
  BY <1>1, <1>2, PTL DEF Spec

-----------------------------------------------------------------------------
(* Rows                                                                    *)

\* No message of the board changes or goes.
BoardKept == \A i \in DOMAIN board : i \in DOMAIN board' /\ board'[i] = board[i]

(***************************************************************************)
(* A message of any shape is posted at the end of the board.               *)
(***************************************************************************)
LEMMA Appended ==
    ASSUME TypeOK, NEW msg, Post(msg)
    PROVE  /\ BoardKept
           /\ PostedId \in MsgId
           /\ PostedId \notin DOMAIN board
           /\ DOMAIN board' = DOMAIN board \cup {PostedId}
           /\ board'[PostedId] = msg
<1>1. /\ board \in Seq(Message \cup {msg})
      /\ msg \in Message \cup {msg}
      /\ board' = Append(board, msg)
      /\ Len(board) < MaxMessages
      /\ Len(board) \in Nat
      /\ DOMAIN board = 1..Len(board)
      /\ PostedId = Len(board) + 1
  BY DEF TypeOK, Post, CanPost, PostedId
<1>2. /\ DOMAIN board' = 1..(Len(board) + 1)
      /\ board'[Len(board) + 1] = msg
      /\ \A i \in 1..Len(board) : board'[i] = board[i]
  BY <1>1
<1> QED
  BY <1>1, <1>2, MaxAssumption DEF BoardKept, MsgId

(***************************************************************************)
(* A new message disturbs no row and no handler.                           *)
(***************************************************************************)
LEMMA RowsKept ==
    ASSUME TypeInv, RowsInv, BoardKept, UNCHANGED <<sent, received>>
    PROVE  /\ SentInv' /\ ReceivedInv'
           /\ UNCHANGED responder => RespondInv'
           /\ UNCHANGED poller => PollInv'
<1>1. SentInv' /\ ReceivedInv'
  BY DEF RowsInv, SentInv, ReceivedInv, BoardKept
<1>2. UNCHANGED responder => RespondInv'
  BY DEF RowsInv, RespondInv
<1>3. UNCHANGED poller => PollInv'
  BY DEF RowsInv, PollInv, BoardKept, TypeInv, PointerInv
<1> QED
  BY <1>1, <1>2, <1>3

(***************************************************************************)
(* A poll moves and stays with its message; only the dispatch of an        *)
(* acceptance goes on to trust.                                            *)
(***************************************************************************)
LEMMA PollKept ==
    ASSUME TypeInv, PollInv, NEW n \in Node, NEW p \in Poller, UNCHANGED board,
           \A m \in Node, q \in Poller : (m # n \/ q # p) => poller'[m][q] = poller[m][q],
           \/ poller'[n][p].pc = "idle"
           \/ /\ poller'[n][p].msg = poller[n][p].msg
              /\ poller[n][p].pc # "idle"
              /\ poller'[n][p].pc \in {"grant", "contact"} =>
                    board[poller[n][p].msg].type = "accept"
    PROVE  PollInv'
BY DEF PollInv

(***************************************************************************)
(* One poll goes on with its message.                                      *)
(***************************************************************************)
LEMMA PollMoved ==
    ASSUME TypeInv, NEW n \in Node, NEW p \in Poller, NEW pc,
           poller' = [poller EXCEPT ![n][p].pc = pc]
    PROVE  /\ \A m \in Node, q \in Poller : (m # n \/ q # p) => poller'[m][q] = poller[m][q]
           /\ poller'[n][p].pc = pc /\ poller'[n][p].msg = poller[n][p].msg
BY DEF TypeInv, TypeOK

(***************************************************************************)
(* One poll ends.                                                          *)
(***************************************************************************)
LEMMA PollEnded ==
    ASSUME TypeInv, NEW n \in Node, NEW p \in Poller,
           poller' = [poller EXCEPT ![n][p] = IdlePoll]
    PROVE  /\ \A m \in Node, q \in Poller : (m # n \/ q # p) => poller'[m][q] = poller[m][q]
           /\ poller'[n][p].pc = "idle"
BY DEF TypeInv, TypeOK, IdlePoll

(***************************************************************************)
(* Rows exist only for messages of the board, received rows only for       *)
(* requests, and every handler works on a message of the kind it is for.   *)
(***************************************************************************)
LEMMA RowsInvariant == Spec => []RowsInv
<1>1. Init => RowsInv
  BY DEF Init, RowsInv, SentInv, ReceivedInv, RespondInv, PollInv, IdlePoll, IdleRespond
<1>2. TypeInv /\ RowsInv /\ [Next]_vars => RowsInv'
  <2> SUFFICES ASSUME TypeInv, RowsInv, [Next]_vars PROVE RowsInv'
    OBVIOUS
  <2>1. ASSUME NEW n \in Node, NEW s \in Schema, OptIn(n, s) PROVE RowsInv'
    BY <2>1
    DEF OptIn, localVars, handlerVars, RowsInv, SentInv, ReceivedInv, RespondInv,
        PollInv
  <2>2. ASSUME NEW n \in Node, NEW s \in Schema, OptOut(n, s) PROVE RowsInv'
    BY <2>2
    DEF OptOut, localVars, handlerVars, RowsInv, SentInv, ReceivedInv, RespondInv,
        PollInv
  <2>3. ASSUME NEW n \in Node, Publish(n) PROVE RowsInv'
    BY <2>3
    DEF Publish, localVars, handlerVars, RowsInv, SentInv, ReceivedInv, RespondInv,
        PollInv
  <2>4. ASSUME NEW n \in Node, NEW t \in {q \in Pseudonym : q.owner # n},
               NEW r \in Role, ConnectCheck(n, t, r)
        PROVE  RowsInv'
    BY <2>4
    DEF ConnectCheck, localVars, RowsInv, SentInv, ReceivedInv, RespondInv, PollInv
  <2>5. ASSUME NEW n \in Node, ConnectPost(n) PROVE RowsInv'
    <3>1. BoardKept
      BY <2>5, Appended DEF ConnectPost, TypeInv
    <3> QED
      BY <2>5, <3>1, RowsKept DEF ConnectPost, localVars, RowsInv
  <2>6. ASSUME NEW n \in Node, ConnectSave(n) PROVE RowsInv'
    <3>1. connector[n].msg \in DOMAIN board /\ connector[n].msg \in MsgId
      BY <2>6, BoardTypes DEF ConnectSave, TypeInv, PointerInv
    <3>2. sent' = [sent EXCEPT ![n][connector[n].msg] = "pending"]
      BY <2>6 DEF ConnectSave, SaveSentRequest
    <3>3. SentInv'
      BY <2>6, <3>1, <3>2, SentTypes
      DEF ConnectSave, TypeInv, SentStatus, RowsInv, SentInv
    <3> QED
      BY <2>6, <3>3 DEF ConnectSave, RowsInv, ReceivedInv, RespondInv, PollInv
  <2>7. ASSUME NEW n \in Node, ConnectFail(n) PROVE RowsInv'
    BY <2>7
    DEF ConnectFail, localVars, IdleConnect, RowsInv, SentInv, ReceivedInv,
        RespondInv, PollInv
  <2>8. ASSUME NEW n \in Node, NEW i \in DOMAIN board,
               NEW a \in {"accept", "decline"}, NEW r \in Role, Respond(n, i, a, r)
        PROVE  RowsInv'
    <3>1. i \in MsgId
      BY BoardTypes DEF TypeInv
    <3>2. \A m \in Node, j \in MsgId : received'[m][j] # "none" <=> received[m][j] # "none"
      BY <2>8, <3>1 DEF Respond, UpdateRequestStatus, TypeInv, TypeOK
    <3>3. \A m \in Node : responder'[m] = responder[m] \/ (m = n /\ responder'[m].msg = i)
      BY <2>8 DEF Respond, TypeInv, TypeOK
    <3>4. received[n][i] # "none"
      BY <2>8 DEF Respond, UpdateRequestStatus
    <3>5. \A m \in Node : responder[m].pc # "idle" => responder[m].msg \in MsgId
      BY BoardTypes DEF TypeInv, PointerInv
    <3>6. RespondInv'
      BY <3>1, <3>2, <3>3, <3>4, <3>5 DEF RowsInv, RespondInv
    <3> QED
      BY <2>8, <3>2, <3>6 DEF Respond, RowsInv, SentInv, ReceivedInv, PollInv
  <2>9. ASSUME NEW n \in Node, RespondGrant(n) PROVE RowsInv'
    <3>1. \A m \in Node : responder'[m].msg = responder[m].msg
                          /\ (responder'[m].pc # "idle" => responder[m].pc # "idle")
      BY <2>9 DEF RespondGrant, TypeInv, TypeOK
    <3>2. RespondInv'
      BY <2>9, <3>1 DEF RespondGrant, RowsInv, RespondInv
    <3> QED
      BY <2>9, <3>2 DEF RespondGrant, RowsInv, SentInv, ReceivedInv, PollInv
  <2>10. ASSUME NEW n \in Node, RespondContact(n) PROVE RowsInv'
    <3>1. \A m \in Node : responder'[m].msg = responder[m].msg
                          /\ (responder'[m].pc # "idle" => responder[m].pc # "idle")
      BY <2>10 DEF RespondContact, TypeInv, TypeOK
    <3>2. RespondInv'
      BY <2>10, <3>1 DEF RespondContact, RowsInv, RespondInv
    <3> QED
      BY <2>10, <3>2 DEF RespondContact, RowsInv, SentInv, ReceivedInv, PollInv
  <2>11. ASSUME NEW n \in Node, RespondSend(n) PROVE RowsInv'
    <3>1. BoardKept
      BY <2>11, Appended DEF RespondSend, TypeInv
    <3>2. SentInv' /\ ReceivedInv' /\ PollInv'
      BY <2>11, <3>1, RowsKept DEF RespondSend, localVars
    <3>3. \A m \in Node : responder'[m] = responder[m] \/ responder'[m].pc = "idle"
      BY <2>11 DEF RespondSend, IdleRespond, TypeInv, TypeOK
    <3>4. RespondInv'
      BY <2>11, <3>3 DEF RespondSend, localVars, RowsInv, RespondInv
    <3> QED
      BY <3>2, <3>4 DEF RowsInv
  <2>12. ASSUME NEW n \in Node, RespondFail(n) PROVE RowsInv'
    <3>1. \A m \in Node : responder'[m] = responder[m] \/ responder'[m].pc = "idle"
      BY <2>12 DEF RespondFail, IdleRespond, TypeInv, TypeOK
    <3>2. RespondInv'
      BY <2>12, <3>1 DEF RespondFail, localVars, RowsInv, RespondInv
    <3> QED
      BY <2>12, <3>2 DEF RespondFail, localVars, RowsInv, SentInv, ReceivedInv, PollInv
  <2>13. ASSUME NEW n \in Node, NEW i \in DOMAIN board,
                NEW a \in {"accept", "decline"}, LegacyReply(n, i, a)
         PROVE  RowsInv'
    <3>1. BoardKept
      BY <2>13, Appended DEF LegacyReply, TypeInv
    <3> QED
      BY <2>13, <3>1, RowsKept DEF LegacyReply, localVars, handlerVars, RowsInv
  <2>14. ASSUME NEW n \in Node, NEW p \in Poller, NEW i \in DOMAIN board, Poll(n, p, i)
         PROVE  RowsInv'
    <3>1. board[i].target.owner = n
      BY <2>14 DEF Poll, CollectOurPseudonyms, SenderPseudonym, EmbeddingPseudonym
    <3>2. \A m \in Node, q \in Poller :
             \/ poller'[m][q] = poller[m][q]
             \/ m = n /\ poller'[m][q] = [pc |-> "dispatch", msg |-> i, role |-> DefaultRole]
      BY <2>14 DEF Poll, TypeInv, TypeOK
    <3>3. PollInv'
      BY <2>14, <3>1, <3>2 DEF Poll, RowsInv, PollInv
    <3> QED
      BY <2>14, <3>3 DEF Poll, localVars, RowsInv, SentInv, ReceivedInv, RespondInv
  <2>15. ASSUME NEW n \in Node, NEW p \in Poller, DispatchRequest(n, p) PROVE RowsInv'
    <3>1. poller[n][p].msg \in DOMAIN board /\ poller[n][p].msg \in MsgId
      BY <2>15, PollTypes DEF DispatchRequest, Dispatching
    <3>2. \A m \in Node, j \in MsgId :
             received'[m][j] = IF m = n /\ j = poller[n][p].msg
                               THEN "pending" ELSE received[m][j]
      BY <2>15, <3>1 DEF DispatchRequest, SaveReceivedRequest, TypeInv, TypeOK
    <3>3. ReceivedInv'
      BY <2>15, <3>1, <3>2 DEF DispatchRequest, Dispatching, RowsInv, ReceivedInv
    <3>4. \A m \in Node : responder[m].pc # "idle" => responder[m].msg \in MsgId
      BY BoardTypes DEF TypeInv, PointerInv
    <3>5. RespondInv'
      BY <2>15, <3>2, <3>4 DEF DispatchRequest, RowsInv, RespondInv
    <3>6. PollInv'
      BY <2>15, PollMoved, PollKept DEF DispatchRequest, Dispatching, RowsInv
    <3> QED
      BY <2>15, <3>3, <3>5, <3>6 DEF DispatchRequest, RowsInv, SentInv
  <2>16. ASSUME NEW n \in Node, NEW p \in Poller, DispatchAccept(n, p) PROVE RowsInv'
    <3>1. PICK next, role :
             poller' = [poller EXCEPT ![n][p].pc = next, ![n][p].role = role]
      BY <2>16 DEF DispatchAccept
    <3>2. \A m \in Node, q \in Poller : (m # n \/ q # p) => poller'[m][q] = poller[m][q]
      BY <3>1 DEF TypeInv, TypeOK
    <3>3. poller'[n][p].msg = poller[n][p].msg
      BY <3>1 DEF TypeInv, TypeOK
    <3>4. PollInv'
      BY <2>16, <3>2, <3>3, PollKept DEF DispatchAccept, Dispatching, RowsInv
    <3>5. \/ sent' = sent
          \/ \E i \in DOMAIN board : sent' = [sent EXCEPT ![n][i] = "accepted"]
      BY <2>16 DEF DispatchAccept, MatchingRows
    <3>6. \A i \in DOMAIN board : i \in MsgId
      BY BoardTypes DEF TypeInv
    <3>7. SentInv'
      BY <2>16, <3>5, <3>6, SentTypes
      DEF DispatchAccept, TypeInv, SentStatus, RowsInv, SentInv
    <3> QED
      BY <2>16, <3>4, <3>7 DEF DispatchAccept, RowsInv, ReceivedInv, RespondInv
  <2>17. ASSUME NEW n \in Node, NEW p \in Poller, AcceptGrant(n, p) PROVE RowsInv'
    <3>1. board[poller[n][p].msg].type = "accept"
      BY <2>17 DEF AcceptGrant, RowsInv, PollInv
    <3>2. PollInv'
      BY <2>17, <3>1, PollMoved, PollKept DEF AcceptGrant, RowsInv
    <3> QED
      BY <2>17, <3>2 DEF AcceptGrant, RowsInv, SentInv, ReceivedInv, RespondInv
  <2>18. ASSUME NEW n \in Node, NEW p \in Poller, AcceptContact(n, p) PROVE RowsInv'
    <3>1. board[poller[n][p].msg].type = "accept"
      BY <2>18 DEF AcceptContact, RowsInv, PollInv
    <3>2. PollInv'
      BY <2>18, <3>1, PollMoved, PollKept DEF AcceptContact, RowsInv
    <3> QED
      BY <2>18, <3>2 DEF AcceptContact, RowsInv, SentInv, ReceivedInv, RespondInv
  <2>19. ASSUME NEW n \in Node, NEW p \in Poller, DispatchDecline(n, p) PROVE RowsInv'
    <3>1. PollInv'
      BY <2>19, PollMoved, PollKept DEF DispatchDecline, Dispatching, RowsInv
    <3>2. \/ sent' = sent
          \/ \E i \in DOMAIN board : sent' = [sent EXCEPT ![n][i] = "declined"]
      BY <2>19 DEF DispatchDecline, MatchingRows
    <3>3. \A i \in DOMAIN board : i \in MsgId
      BY BoardTypes DEF TypeInv
    <3>4. SentInv'
      BY <2>19, <3>2, <3>3, SentTypes
      DEF DispatchDecline, TypeInv, SentStatus, RowsInv, SentInv
    <3> QED
      BY <2>19, <3>1, <3>4 DEF DispatchDecline, RowsInv, ReceivedInv, RespondInv
  <2>20. ASSUME NEW n \in Node, NEW p \in Poller, NEW a \in BOOLEAN,
                DispatchDataShare(n, p, a)
         PROVE  RowsInv'
    <3>1. PollInv'
      BY <2>20, PollMoved, PollKept DEF DispatchDataShare, Dispatching, RowsInv
    <3> QED
      BY <2>20, <3>1 DEF DispatchDataShare, RowsInv, SentInv, ReceivedInv, RespondInv
  <2>21. ASSUME NEW n \in Node, NEW p \in Poller, MarkProcessed(n, p) PROVE RowsInv'
    <3>1. PollInv'
      BY <2>21, PollEnded, PollKept DEF MarkProcessed, RowsInv
    <3> QED
      BY <2>21, <3>1
      DEF MarkProcessed, localVars, RowsInv, SentInv, ReceivedInv, RespondInv
  <2>22. ASSUME NEW n \in Node, NEW p \in Poller, PollFail(n, p) PROVE RowsInv'
    <3>1. PollInv'
      BY <2>22, PollEnded, PollKept DEF PollFail, RowsInv
    <3> QED
      BY <2>22, <3>1
      DEF PollFail, localVars, RowsInv, SentInv, ReceivedInv, RespondInv
  <2>23. ASSUME NEW n \in Node, NEW k \in Key, SendDataShare(n, k) PROVE RowsInv'
    <3>1. BoardKept
      BY <2>23, Appended DEF SendDataShare, TypeInv
    <3> QED
      BY <2>23, <3>1, RowsKept DEF SendDataShare, localVars, handlerVars, RowsInv
  <2>24. ASSUME NEW n \in Node, NEW k \in Key, RevokeContact(n, k) PROVE RowsInv'
    BY <2>24
    DEF RevokeContact, handlerVars, RowsInv, SentInv, ReceivedInv, RespondInv,
        PollInv
  <2>25. CASE UNCHANGED vars
    BY <2>25
    DEF vars, localVars, handlerVars, RowsInv, SentInv, ReceivedInv, RespondInv,
        PollInv
  <2> QED
    BY <2>1, <2>2, <2>3, <2>4, <2>5, <2>6, <2>7, <2>8, <2>9, <2>10, <2>11, <2>12,
       <2>13, <2>14, <2>15, <2>16, <2>17, <2>18, <2>19, <2>20, <2>21, <2>22, <2>23,
       <2>24, <2>25
    DEF Next, Discovery, Connect, Answer, Inbound, Trusting
<1> QED
  BY <1>1, <1>2, TypeInvariant, PTL DEF Spec

-----------------------------------------------------------------------------
(* Answers                                                                 *)

(***************************************************************************)
(* An acceptance that echoes a request_id answers that very request.       *)
(***************************************************************************)
LEMMA BoardInvariant == Spec => []BoardInv
<1>1. Init => BoardInv
  BY DEF Init, BoardInv
<1>2. TypeInv /\ RowsInv /\ BoardInv /\ [Next]_vars => BoardInv'
  <2> SUFFICES ASSUME TypeInv, RowsInv, BoardInv, [Next]_vars PROVE BoardInv'
    OBVIOUS
  <2>1. ASSUME NEW n \in Node, NEW s \in Schema, OptIn(n, s) PROVE BoardInv'
    BY <2>1 DEF OptIn, localVars, handlerVars, BoardInv
  <2>2. ASSUME NEW n \in Node, NEW s \in Schema, OptOut(n, s) PROVE BoardInv'
    BY <2>2 DEF OptOut, localVars, handlerVars, BoardInv
  <2>3. ASSUME NEW n \in Node, Publish(n) PROVE BoardInv'
    BY <2>3 DEF Publish, localVars, handlerVars, BoardInv
  <2>4. ASSUME NEW n \in Node, NEW t \in {q \in Pseudonym : q.owner # n},
               NEW r \in Role, ConnectCheck(n, t, r)
        PROVE  BoardInv'
    BY <2>4 DEF ConnectCheck, localVars, BoardInv
  <2>5. ASSUME NEW n \in Node, ConnectPost(n) PROVE BoardInv'
    <3>1. PICK msg : Post(msg) /\ msg.type = "request" /\ msg.request_id = PostedId
      BY <2>5 DEF ConnectPost
    <3> QED
      BY <3>1, Appended DEF TypeInv, BoardInv, BoardKept
  <2>6. ASSUME NEW n \in Node, ConnectSave(n) PROVE BoardInv'
    BY <2>6 DEF ConnectSave, SaveSentRequest, BoardInv
  <2>7. ASSUME NEW n \in Node, ConnectFail(n) PROVE BoardInv'
    BY <2>7 DEF ConnectFail, localVars, IdleConnect, BoardInv
  <2>8. ASSUME NEW n \in Node, NEW i \in DOMAIN board,
               NEW a \in {"accept", "decline"}, NEW r \in Role, Respond(n, i, a, r)
        PROVE  BoardInv'
    BY <2>8 DEF Respond, UpdateRequestStatus, BoardInv
  <2>9. ASSUME NEW n \in Node, RespondGrant(n) PROVE BoardInv'
    BY <2>9 DEF RespondGrant, GrantTrust, BoardInv
  <2>10. ASSUME NEW n \in Node, RespondContact(n) PROVE BoardInv'
    BY <2>10 DEF RespondContact, UpsertContact, BoardInv
  <2>11. ASSUME NEW n \in Node, RespondSend(n) PROVE BoardInv'
    <3> DEFINE request == board[responder[n].msg]
    <3>1. /\ responder[n].msg \in DOMAIN board /\ responder[n].msg \in MsgId
          /\ received[n][responder[n].msg] # "none"
      BY <2>11, BoardTypes DEF RespondSend, TypeInv, PointerInv, RowsInv, RespondInv
    <3>2. request.request_id = responder[n].msg
      BY <3>1 DEF RowsInv, ReceivedInv, BoardInv
    <3>3. PICK msg : /\ Post(msg) /\ msg.type = "accept"
                     /\ msg.sender = request.target /\ msg.request_id = request.request_id
      BY <2>11 DEF RespondSend, Acceptance
    <3> QED
      BY <3>1, <3>2, <3>3, Appended DEF TypeInv, BoardInv, BoardKept
  <2>12. ASSUME NEW n \in Node, RespondFail(n) PROVE BoardInv'
    BY <2>12 DEF RespondFail, localVars, IdleRespond, BoardInv
  <2>13. ASSUME NEW n \in Node, NEW i \in DOMAIN board,
                NEW a \in {"accept", "decline"}, LegacyReply(n, i, a)
         PROVE  BoardInv'
    <3>1. PICK msg : Post(msg) /\ msg.type # "request" /\ msg.request_id = NoId
      BY <2>13 DEF LegacyReply
    <3> QED
      BY <3>1, Appended DEF TypeInv, BoardInv, BoardKept
  <2>14. ASSUME NEW n \in Node, NEW p \in Poller, NEW i \in DOMAIN board, Poll(n, p, i)
         PROVE  BoardInv'
    BY <2>14 DEF Poll, localVars, BoardInv
  <2>15. ASSUME NEW n \in Node, NEW p \in Poller, DispatchRequest(n, p) PROVE BoardInv'
    BY <2>15 DEF DispatchRequest, Dispatching, SaveReceivedRequest, BoardInv
  <2>16. ASSUME NEW n \in Node, NEW p \in Poller, DispatchAccept(n, p) PROVE BoardInv'
    BY <2>16 DEF DispatchAccept, Dispatching, MatchingRows, BoardInv
  <2>17. ASSUME NEW n \in Node, NEW p \in Poller, AcceptGrant(n, p) PROVE BoardInv'
    BY <2>17 DEF AcceptGrant, GrantTrust, BoardInv
  <2>18. ASSUME NEW n \in Node, NEW p \in Poller, AcceptContact(n, p) PROVE BoardInv'
    BY <2>18 DEF AcceptContact, UpsertContact, BoardInv
  <2>19. ASSUME NEW n \in Node, NEW p \in Poller, DispatchDecline(n, p) PROVE BoardInv'
    BY <2>19 DEF DispatchDecline, Dispatching, MatchingRows, BoardInv
  <2>20. ASSUME NEW n \in Node, NEW p \in Poller, NEW a \in BOOLEAN,
                DispatchDataShare(n, p, a)
         PROVE  BoardInv'
    BY <2>20 DEF DispatchDataShare, Dispatching, BoardInv
  <2>21. ASSUME NEW n \in Node, NEW p \in Poller, MarkProcessed(n, p) PROVE BoardInv'
    BY <2>21 DEF MarkProcessed, localVars, IdlePoll, BoardInv
  <2>22. ASSUME NEW n \in Node, NEW p \in Poller, PollFail(n, p) PROVE BoardInv'
    BY <2>22 DEF PollFail, localVars, IdlePoll, BoardInv
  <2>23. ASSUME NEW n \in Node, NEW k \in Key, SendDataShare(n, k) PROVE BoardInv'
    <3>1. PICK msg : Post(msg) /\ msg.type = "data_share"
      BY <2>23 DEF SendDataShare
    <3> QED
      BY <3>1, Appended DEF TypeInv, BoardInv, BoardKept
  <2>24. ASSUME NEW n \in Node, NEW k \in Key, RevokeContact(n, k) PROVE BoardInv'
    BY <2>24 DEF RevokeContact, handlerVars, BoardInv
  <2>25. CASE UNCHANGED vars
    BY <2>25 DEF vars, localVars, handlerVars, BoardInv
  <2> QED
    BY <2>1, <2>2, <2>3, <2>4, <2>5, <2>6, <2>7, <2>8, <2>9, <2>10, <2>11, <2>12,
       <2>13, <2>14, <2>15, <2>16, <2>17, <2>18, <2>19, <2>20, <2>21, <2>22, <2>23,
       <2>24, <2>25
    DEF Next, Discovery, Connect, Answer, Inbound, Trusting
<1> QED
  BY <1>1, <1>2, TypeInvariant, RowsInvariant, PTL DEF Spec

(***************************************************************************)
(* An acceptance stays on the board.                                       *)
(***************************************************************************)
LEMMA AnswersKept ==
    ASSUME TypeInv, RowsInv, BoardKept, UNCHANGED sent, AcceptedWasAnswered, TypeInv'
    PROVE  AcceptedWasAnswered'
<1> SUFFICES ASSUME NEW n \in Node, NEW i \in DOMAIN board', sent[n][i] = "accepted"
             PROVE  \E j \in DOMAIN board' : /\ board'[j].type = "accept"
                                             /\ board'[j].sender = board'[i].target
                                             /\ board'[j].request_id \in {i, NoId}
  BY DEF AcceptedWasAnswered
<1>1. i \in MsgId
  <2>1. DOMAIN board' = 1..Len(board') /\ Len(board') \in Nat /\ Len(board') <= MaxMessages
    BY DEF TypeInv, TypeOK
  <2> QED
    BY <2>1, MaxAssumption DEF MsgId
<1>2. i \in DOMAIN board /\ board'[i] = board[i]
  BY <1>1 DEF RowsInv, SentInv, BoardKept
<1>3. PICK j \in DOMAIN board : /\ board[j].type = "accept"
                               /\ board[j].sender = board[i].target
                               /\ board[j].request_id \in {i, NoId}
  BY <1>2 DEF AcceptedWasAnswered
<1> QED
  BY <1>2, <1>3 DEF BoardKept

(***************************************************************************)
(* Only an acceptance of the peer marks a sent request accepted: the row   *)
(* update_sent_request_status picks is the one the acceptance answers,     *)
(* whatever was posted, retried or polled twice in between.                *)
(***************************************************************************)
THEOREM AnsweredCorrect == Spec => []AcceptedWasAnswered
<1>1. Init => AcceptedWasAnswered
  BY DEF Init, AcceptedWasAnswered
<1>2. /\ TypeInv /\ TypeInv' /\ RowsInv /\ BoardInv /\ AcceptedWasAnswered
      /\ [Next]_vars
      => AcceptedWasAnswered'
  <2> SUFFICES ASSUME TypeInv, TypeInv', RowsInv, BoardInv, AcceptedWasAnswered, [Next]_vars
               PROVE  AcceptedWasAnswered'
    OBVIOUS
  <2>1. ASSUME NEW n \in Node, NEW s \in Schema, OptIn(n, s) PROVE AcceptedWasAnswered'
    BY <2>1 DEF OptIn, localVars, handlerVars, AcceptedWasAnswered
  <2>2. ASSUME NEW n \in Node, NEW s \in Schema, OptOut(n, s) PROVE AcceptedWasAnswered'
    BY <2>2 DEF OptOut, localVars, handlerVars, AcceptedWasAnswered
  <2>3. ASSUME NEW n \in Node, Publish(n) PROVE AcceptedWasAnswered'
    BY <2>3 DEF Publish, localVars, handlerVars, AcceptedWasAnswered
  <2>4. ASSUME NEW n \in Node, NEW t \in {q \in Pseudonym : q.owner # n},
               NEW r \in Role, ConnectCheck(n, t, r)
        PROVE  AcceptedWasAnswered'
    BY <2>4 DEF ConnectCheck, localVars, AcceptedWasAnswered
  <2>5. ASSUME NEW n \in Node, ConnectPost(n) PROVE AcceptedWasAnswered'
    <3>1. BoardKept /\ UNCHANGED sent
      BY <2>5, Appended DEF ConnectPost, TypeInv, localVars
    <3> QED
      BY <3>1, AnswersKept
  <2>6. ASSUME NEW n \in Node, ConnectSave(n) PROVE AcceptedWasAnswered'
    <3>1. connector[n].msg \in MsgId /\ DOMAIN board \subseteq MsgId
      BY <2>6, BoardTypes DEF ConnectSave, TypeInv, PointerInv
    <3>2. \A m \in Node, j \in MsgId : sent'[m][j] = "accepted" => sent[m][j] = "accepted"
      BY <2>6, <3>1, SentTypes DEF ConnectSave, SaveSentRequest, TypeInv, SentStatus
    <3> QED
      BY <2>6, <3>1, <3>2 DEF ConnectSave, AcceptedWasAnswered
  <2>7. ASSUME NEW n \in Node, ConnectFail(n) PROVE AcceptedWasAnswered'
    BY <2>7 DEF ConnectFail, localVars, IdleConnect, AcceptedWasAnswered
  <2>8. ASSUME NEW n \in Node, NEW i \in DOMAIN board,
               NEW a \in {"accept", "decline"}, NEW r \in Role, Respond(n, i, a, r)
        PROVE  AcceptedWasAnswered'
    BY <2>8 DEF Respond, UpdateRequestStatus, AcceptedWasAnswered
  <2>9. ASSUME NEW n \in Node, RespondGrant(n) PROVE AcceptedWasAnswered'
    BY <2>9 DEF RespondGrant, GrantTrust, AcceptedWasAnswered
  <2>10. ASSUME NEW n \in Node, RespondContact(n) PROVE AcceptedWasAnswered'
    BY <2>10 DEF RespondContact, UpsertContact, AcceptedWasAnswered
  <2>11. ASSUME NEW n \in Node, RespondSend(n) PROVE AcceptedWasAnswered'
    <3>1. BoardKept /\ UNCHANGED sent
      BY <2>11, Appended DEF RespondSend, TypeInv, localVars
    <3> QED
      BY <3>1, AnswersKept
  <2>12. ASSUME NEW n \in Node, RespondFail(n) PROVE AcceptedWasAnswered'
    BY <2>12 DEF RespondFail, localVars, IdleRespond, AcceptedWasAnswered
  <2>13. ASSUME NEW n \in Node, NEW i \in DOMAIN board,
                NEW a \in {"accept", "decline"}, LegacyReply(n, i, a)
         PROVE  AcceptedWasAnswered'
    <3>1. BoardKept /\ UNCHANGED sent
      BY <2>13, Appended DEF LegacyReply, TypeInv, localVars
    <3> QED
      BY <3>1, AnswersKept
  <2>14. ASSUME NEW n \in Node, NEW p \in Poller, NEW i \in DOMAIN board, Poll(n, p, i)
         PROVE  AcceptedWasAnswered'
    BY <2>14 DEF Poll, localVars, AcceptedWasAnswered
  <2>15. ASSUME NEW n \in Node, NEW p \in Poller, DispatchRequest(n, p)
         PROVE  AcceptedWasAnswered'
    BY <2>15 DEF DispatchRequest, Dispatching, SaveReceivedRequest, AcceptedWasAnswered
  <2>16. ASSUME NEW n \in Node, NEW p \in Poller, DispatchAccept(n, p)
         PROVE  AcceptedWasAnswered'
    <3> DEFINE msg == board[poller[n][p].msg]
    <3>1. poller[n][p].msg \in DOMAIN board /\ msg.type = "accept" /\ UNCHANGED board
      BY <2>16, PollTypes DEF DispatchAccept, Dispatching
    <3>2. CASE sent' = sent
      BY <3>1, <3>2 DEF AcceptedWasAnswered
    <3>3. CASE sent' # sent
      <4>1. PICK i \in MatchingRows(n, msg) : sent' = [sent EXCEPT ![n][i] = "accepted"]
        BY <2>16, <3>3 DEF DispatchAccept
      <4>2. i \in DOMAIN board /\ DOMAIN board \subseteq MsgId
        BY BoardTypes DEF MatchingRows, TypeInv
      <4>3. msg.sender = board[i].target /\ msg.request_id \in {i, NoId}
        BY <3>1, <4>2 DEF MatchingRows, BoardInv
      <4>4. \A m \in Node, j \in MsgId : (m # n \/ j # i) => sent'[m][j] = sent[m][j]
        BY <4>1, <4>2, SentTypes DEF TypeInv, SentStatus
      <4> QED
        BY <3>1, <4>2, <4>3, <4>4 DEF AcceptedWasAnswered
    <3> QED
      BY <3>2, <3>3
  <2>17. ASSUME NEW n \in Node, NEW p \in Poller, AcceptGrant(n, p)
         PROVE  AcceptedWasAnswered'
    BY <2>17 DEF AcceptGrant, GrantTrust, AcceptedWasAnswered
  <2>18. ASSUME NEW n \in Node, NEW p \in Poller, AcceptContact(n, p)
         PROVE  AcceptedWasAnswered'
    BY <2>18 DEF AcceptContact, UpsertContact, AcceptedWasAnswered
  <2>19. ASSUME NEW n \in Node, NEW p \in Poller, DispatchDecline(n, p)
         PROVE  AcceptedWasAnswered'
    <3>1. DOMAIN board \subseteq MsgId
      BY BoardTypes DEF TypeInv
    <3>2. \/ sent' = sent
          \/ \E i \in DOMAIN board : sent' = [sent EXCEPT ![n][i] = "declined"]
      BY <2>19 DEF DispatchDecline, MatchingRows
    <3>3. \A m \in Node, j \in MsgId : sent'[m][j] = "accepted" => sent[m][j] = "accepted"
      BY <3>1, <3>2, SentTypes DEF TypeInv, SentStatus
    <3> QED
      BY <2>19, <3>1, <3>3 DEF DispatchDecline, AcceptedWasAnswered
  <2>20. ASSUME NEW n \in Node, NEW p \in Poller, NEW a \in BOOLEAN,
                DispatchDataShare(n, p, a)
         PROVE  AcceptedWasAnswered'
    BY <2>20 DEF DispatchDataShare, Dispatching, AcceptedWasAnswered
  <2>21. ASSUME NEW n \in Node, NEW p \in Poller, MarkProcessed(n, p)
         PROVE  AcceptedWasAnswered'
    BY <2>21 DEF MarkProcessed, localVars, IdlePoll, AcceptedWasAnswered
  <2>22. ASSUME NEW n \in Node, NEW p \in Poller, PollFail(n, p)
         PROVE  AcceptedWasAnswered'
    BY <2>22 DEF PollFail, localVars, IdlePoll, AcceptedWasAnswered
  <2>23. ASSUME NEW n \in Node, NEW k \in Key, SendDataShare(n, k)
         PROVE  AcceptedWasAnswered'
    <3>1. BoardKept /\ UNCHANGED sent
      BY <2>23, Appended DEF SendDataShare, TypeInv, localVars
    <3> QED
      BY <3>1, AnswersKept
  <2>24. ASSUME NEW n \in Node, NEW k \in Key, RevokeContact(n, k)
         PROVE  AcceptedWasAnswered'
    BY <2>24 DEF RevokeContact, handlerVars, AcceptedWasAnswered
  <2>25. CASE UNCHANGED vars
    BY <2>25 DEF vars, localVars, handlerVars, AcceptedWasAnswered
  <2> QED
    BY <2>1, <2>2, <2>3, <2>4, <2>5, <2>6, <2>7, <2>8, <2>9, <2>10, <2>11, <2>12,
       <2>13, <2>14, <2>15, <2>16, <2>17, <2>18, <2>19, <2>20, <2>21, <2>22, <2>23,
       <2>24, <2>25
    DEF Next, Discovery, Connect, Answer, Inbound, Trusting
<1> QED
  BY <1>1, <1>2, TypeInvariant, RowsInvariant, BoardInvariant, PTL DEF Spec

-----------------------------------------------------------------------------
(* Trust, contacts and admitted shares                                     *)

\* The handshake that justifies a grant.
TrustJustified(n, k) ==
    \/ k = NodeKey(k.owner) /\ AcceptanceTo(n, k.owner)
    \/ \E i \in DOMAIN board : received[n][i] # "none" /\ board[i].sender = k
TrustInv == \A n \in Node : \A g \in trust[n] : TrustJustified(n, g[1])
AdmitInv == \A n \in Node : \A i \in applied[n] : AcceptanceTo(n, board[i].sender.owner)

\* No step undoes a handshake: messages stay, received rows stay.
RecordKept ==
    /\ BoardKept
    /\ \A n \in Node, i \in DOMAIN board : received[n][i] # "none" => received'[n][i] # "none"

HandshakeInv == TrustInv /\ BookInv /\ AppliedInv /\ AdmitInv

(***************************************************************************)
(* What justified a grant once justifies it for good.                      *)
(***************************************************************************)
LEMMA JustifiedKept ==
    ASSUME RecordKept, NEW n \in Node
    PROVE  /\ \A m : AcceptanceTo(n, m) => AcceptanceTo(n, m)'
           /\ \A k : TrustJustified(n, k) => TrustJustified(n, k)'
<1>1. \A m : AcceptanceTo(n, m) => AcceptanceTo(n, m)'
  BY DEF RecordKept, BoardKept, AcceptanceTo
<1> QED
  BY <1>1 DEF RecordKept, BoardKept, TrustJustified

(***************************************************************************)
(* A step that adds no grant, contact or admitted share.                   *)
(***************************************************************************)
LEMMA HandshakeKept ==
    ASSUME RecordKept, HandshakeInv
    PROVE  /\ (\A n \in Node : trust'[n] \subseteq trust[n]) => TrustInv'
           /\ UNCHANGED contacts => BookInv'
           /\ UNCHANGED applied => AppliedInv' /\ AdmitInv'
<1>1. (\A n \in Node : trust'[n] \subseteq trust[n]) => TrustInv'
  BY JustifiedKept DEF HandshakeInv, TrustInv
<1>2. UNCHANGED contacts => BookInv'
  BY JustifiedKept DEF HandshakeInv, BookInv
<1>3. UNCHANGED applied => AppliedInv' /\ AdmitInv'
  <2>1. UNCHANGED applied => AppliedInv'
    BY DEF HandshakeInv, AppliedInv, RecordKept, BoardKept
  <2>2. UNCHANGED applied =>
           \A n \in Node : \A i \in applied[n] : board'[i] = board[i]
    BY DEF HandshakeInv, AppliedInv, RecordKept, BoardKept
  <2> QED
    BY <2>1, <2>2, JustifiedKept DEF HandshakeInv, AdmitInv
<1> QED
  BY <1>1, <1>2, <1>3

(***************************************************************************)
(* No handler undoes a handshake: no step removes a message or a received  *)
(* row.                                                                    *)
(***************************************************************************)
LEMMA RecordStays ==
    ASSUME TypeInv, [Next]_vars PROVE RecordKept
<1>1. ASSUME NEW n \in Node, NEW s \in Schema, OptIn(n, s) PROVE RecordKept
  BY <1>1 DEF OptIn, localVars, handlerVars, RecordKept, BoardKept
<1>2. ASSUME NEW n \in Node, NEW s \in Schema, OptOut(n, s) PROVE RecordKept
  BY <1>2 DEF OptOut, localVars, handlerVars, RecordKept, BoardKept
<1>3. ASSUME NEW n \in Node, Publish(n) PROVE RecordKept
  BY <1>3 DEF Publish, localVars, handlerVars, RecordKept, BoardKept
<1>4. ASSUME NEW n \in Node, NEW t \in {q \in Pseudonym : q.owner # n},
             NEW r \in Role, ConnectCheck(n, t, r)
      PROVE  RecordKept
  BY <1>4 DEF ConnectCheck, localVars, RecordKept, BoardKept
<1>5. ASSUME NEW n \in Node, ConnectPost(n) PROVE RecordKept
  <2>1. BoardKept
    BY <1>5, Appended DEF ConnectPost, TypeInv
  <2> QED
    BY <1>5, <2>1 DEF ConnectPost, localVars, RecordKept
<1>6. ASSUME NEW n \in Node, ConnectSave(n) PROVE RecordKept
  BY <1>6 DEF ConnectSave, SaveSentRequest, RecordKept, BoardKept
<1>7. ASSUME NEW n \in Node, ConnectFail(n) PROVE RecordKept
  BY <1>7 DEF ConnectFail, localVars, IdleConnect, RecordKept, BoardKept
<1>8. ASSUME NEW n \in Node, NEW i \in DOMAIN board, NEW a \in {"accept", "decline"},
             NEW r \in Role, Respond(n, i, a, r)
      PROVE  RecordKept
  <2>1. i \in MsgId /\ DOMAIN board \subseteq MsgId
    BY BoardTypes DEF TypeInv
  <2>2. \A m \in Node, j \in MsgId : received[m][j] # "none" => received'[m][j] # "none"
    BY <1>8, <2>1 DEF Respond, UpdateRequestStatus, TypeInv, TypeOK
  <2> QED
    BY <1>8, <2>1, <2>2 DEF Respond, RecordKept, BoardKept
<1>9. ASSUME NEW n \in Node, RespondGrant(n) PROVE RecordKept
  BY <1>9 DEF RespondGrant, GrantTrust, RecordKept, BoardKept
<1>10. ASSUME NEW n \in Node, RespondContact(n) PROVE RecordKept
  BY <1>10 DEF RespondContact, UpsertContact, RecordKept, BoardKept
<1>11. ASSUME NEW n \in Node, RespondSend(n) PROVE RecordKept
  <2>1. BoardKept
    BY <1>11, Appended DEF RespondSend, TypeInv
  <2> QED
    BY <1>11, <2>1 DEF RespondSend, localVars, RecordKept
<1>12. ASSUME NEW n \in Node, RespondFail(n) PROVE RecordKept
  BY <1>12 DEF RespondFail, localVars, IdleRespond, RecordKept, BoardKept
<1>13. ASSUME NEW n \in Node, NEW i \in DOMAIN board,
              NEW a \in {"accept", "decline"}, LegacyReply(n, i, a)
       PROVE  RecordKept
  <2>1. BoardKept
    BY <1>13, Appended DEF LegacyReply, TypeInv
  <2> QED
    BY <1>13, <2>1 DEF LegacyReply, localVars, RecordKept
<1>14. ASSUME NEW n \in Node, NEW p \in Poller, NEW i \in DOMAIN board, Poll(n, p, i)
       PROVE  RecordKept
  BY <1>14 DEF Poll, localVars, RecordKept, BoardKept
<1>15. ASSUME NEW n \in Node, NEW p \in Poller, DispatchRequest(n, p) PROVE RecordKept
  <2>1. poller[n][p].msg \in MsgId /\ DOMAIN board \subseteq MsgId
    BY <1>15, PollTypes, BoardTypes DEF DispatchRequest, Dispatching, TypeInv
  <2>2. \A m \in Node, j \in MsgId : received[m][j] # "none" => received'[m][j] # "none"
    BY <1>15, <2>1 DEF DispatchRequest, SaveReceivedRequest, TypeInv, TypeOK
  <2> QED
    BY <1>15, <2>1, <2>2 DEF DispatchRequest, RecordKept, BoardKept
<1>16. ASSUME NEW n \in Node, NEW p \in Poller, DispatchAccept(n, p) PROVE RecordKept
  BY <1>16 DEF DispatchAccept, Dispatching, MatchingRows, RecordKept, BoardKept
<1>17. ASSUME NEW n \in Node, NEW p \in Poller, AcceptGrant(n, p) PROVE RecordKept
  BY <1>17 DEF AcceptGrant, GrantTrust, RecordKept, BoardKept
<1>18. ASSUME NEW n \in Node, NEW p \in Poller, AcceptContact(n, p) PROVE RecordKept
  BY <1>18 DEF AcceptContact, UpsertContact, RecordKept, BoardKept
<1>19. ASSUME NEW n \in Node, NEW p \in Poller, DispatchDecline(n, p) PROVE RecordKept
  BY <1>19 DEF DispatchDecline, Dispatching, MatchingRows, RecordKept, BoardKept
<1>20. ASSUME NEW n \in Node, NEW p \in Poller, NEW a \in BOOLEAN,
              DispatchDataShare(n, p, a)
       PROVE  RecordKept
  BY <1>20 DEF DispatchDataShare, Dispatching, RecordKept, BoardKept
<1>21. ASSUME NEW n \in Node, NEW p \in Poller, MarkProcessed(n, p) PROVE RecordKept
  BY <1>21 DEF MarkProcessed, localVars, IdlePoll, RecordKept, BoardKept
<1>22. ASSUME NEW n \in Node, NEW p \in Poller, PollFail(n, p) PROVE RecordKept
  BY <1>22 DEF PollFail, localVars, IdlePoll, RecordKept, BoardKept
<1>23. ASSUME NEW n \in Node, NEW k \in Key, SendDataShare(n, k) PROVE RecordKept
  <2>1. BoardKept
    BY <1>23, Appended DEF SendDataShare, TypeInv
  <2> QED
    BY <1>23, <2>1 DEF SendDataShare, localVars, RecordKept
<1>24. ASSUME NEW n \in Node, NEW k \in Key, RevokeContact(n, k) PROVE RecordKept
  BY <1>24 DEF RevokeContact, handlerVars, RecordKept, BoardKept
<1>25. CASE UNCHANGED vars
  BY <1>25 DEF vars, localVars, handlerVars, RecordKept, BoardKept
<1> QED
  BY <1>1, <1>2, <1>3, <1>4, <1>5, <1>6, <1>7, <1>8, <1>9, <1>10, <1>11, <1>12,
     <1>13, <1>14, <1>15, <1>16, <1>17, <1>18, <1>19, <1>20, <1>21, <1>22, <1>23,
     <1>24, <1>25
  DEF Next, Discovery, Connect, Answer, Inbound, Trusting

(***************************************************************************)
(* Trust, node-key contacts and admitted shares all come from a handshake. *)
(***************************************************************************)
LEMMA HandshakeInvariant == Spec => []HandshakeInv
<1>1. Init => HandshakeInv
  BY PseudonymTypes
  DEF Init, HandshakeInv, TrustInv, BookInv, AppliedInv, AdmitInv
<1>2. TypeInv /\ RowsInv /\ HandshakeInv /\ [Next]_vars => HandshakeInv'
  <2> SUFFICES ASSUME TypeInv, RowsInv, HandshakeInv, [Next]_vars PROVE HandshakeInv'
    OBVIOUS
  <2>0. RecordKept
    BY RecordStays
  <2> USE <2>0
  <2>1. ASSUME NEW n \in Node, NEW s \in Schema, OptIn(n, s) PROVE HandshakeInv'
    BY <2>1, HandshakeKept DEF OptIn, localVars, handlerVars, HandshakeInv
  <2>2. ASSUME NEW n \in Node, NEW s \in Schema, OptOut(n, s) PROVE HandshakeInv'
    BY <2>2, HandshakeKept DEF OptOut, localVars, handlerVars, HandshakeInv
  <2>3. ASSUME NEW n \in Node, Publish(n) PROVE HandshakeInv'
    BY <2>3, HandshakeKept DEF Publish, localVars, handlerVars, HandshakeInv
  <2>4. ASSUME NEW n \in Node, NEW t \in {q \in Pseudonym : q.owner # n},
               NEW r \in Role, ConnectCheck(n, t, r)
        PROVE  HandshakeInv'
    BY <2>4, HandshakeKept DEF ConnectCheck, localVars, HandshakeInv
  <2>5. ASSUME NEW n \in Node, ConnectPost(n) PROVE HandshakeInv'
    BY <2>5, HandshakeKept DEF ConnectPost, localVars, HandshakeInv
  <2>6. ASSUME NEW n \in Node, ConnectSave(n) PROVE HandshakeInv'
    BY <2>6, HandshakeKept DEF ConnectSave, SaveSentRequest, HandshakeInv
  <2>7. ASSUME NEW n \in Node, ConnectFail(n) PROVE HandshakeInv'
    BY <2>7, HandshakeKept DEF ConnectFail, localVars, IdleConnect, HandshakeInv
  <2>8. ASSUME NEW n \in Node, NEW i \in DOMAIN board,
               NEW a \in {"accept", "decline"}, NEW r \in Role, Respond(n, i, a, r)
        PROVE  HandshakeInv'
    BY <2>8, HandshakeKept DEF Respond, UpdateRequestStatus, HandshakeInv
  <2>9. ASSUME NEW n \in Node, RespondGrant(n) PROVE HandshakeInv'
    <3> DEFINE msg == responder[n].msg
    <3>1. msg \in DOMAIN board /\ received[n][msg] # "none"
      BY <2>9 DEF RespondGrant, TypeInv, PointerInv, RowsInv, RespondInv
    <3>2. TrustJustified(n, board[msg].sender)
      BY <3>1 DEF TrustJustified
    <3>3. \A m \in Node : \A g \in trust'[m] :
             g \in trust[m] \/ (m = n /\ g[1] = board[msg].sender)
      BY <2>9 DEF RespondGrant, GrantTrust, TypeInv, TypeOK
    <3>4. TrustInv'
      BY <3>2, <3>3, JustifiedKept DEF HandshakeInv, TrustInv
    <3> QED
      BY <2>9, <3>4, HandshakeKept DEF RespondGrant, HandshakeInv
  <2>10. ASSUME NEW n \in Node, RespondContact(n) PROVE HandshakeInv'
    <3> DEFINE sender == board[responder[n].msg].sender
    <3>1. sender \in Pseudonym
      BY <2>10, BoardTypes DEF RespondContact, TypeInv, PointerInv
    <3>2. sender \in Key /\ \A m \in Node : NodeKey(m) # sender /\ NodeKey(m) \in Key
      BY <3>1, PseudonymTypes
    <3>3. \A m \in Node, k \in Key : k # sender => contacts'[m][k] = contacts[m][k]
      BY <2>10 DEF RespondContact, UpsertContact, TypeInv, TypeOK
    <3>4. BookInv'
      BY <3>2, <3>3, JustifiedKept DEF HandshakeInv, BookInv
    <3> QED
      BY <2>10, <3>4, HandshakeKept DEF RespondContact, HandshakeInv
  <2>11. ASSUME NEW n \in Node, RespondSend(n) PROVE HandshakeInv'
    BY <2>11, HandshakeKept DEF RespondSend, localVars, IdleRespond, HandshakeInv
  <2>12. ASSUME NEW n \in Node, RespondFail(n) PROVE HandshakeInv'
    BY <2>12, HandshakeKept DEF RespondFail, localVars, IdleRespond, HandshakeInv
  <2>13. ASSUME NEW n \in Node, NEW i \in DOMAIN board,
                NEW a \in {"accept", "decline"}, LegacyReply(n, i, a)
         PROVE  HandshakeInv'
    BY <2>13, HandshakeKept DEF LegacyReply, localVars, handlerVars, HandshakeInv
  <2>14. ASSUME NEW n \in Node, NEW p \in Poller, NEW i \in DOMAIN board, Poll(n, p, i)
         PROVE  HandshakeInv'
    BY <2>14, HandshakeKept DEF Poll, localVars, HandshakeInv
  <2>15. ASSUME NEW n \in Node, NEW p \in Poller, DispatchRequest(n, p)
         PROVE  HandshakeInv'
    BY <2>15, HandshakeKept
    DEF DispatchRequest, Dispatching, SaveReceivedRequest, HandshakeInv
  <2>16. ASSUME NEW n \in Node, NEW p \in Poller, DispatchAccept(n, p)
         PROVE  HandshakeInv'
    BY <2>16, HandshakeKept DEF DispatchAccept, Dispatching, MatchingRows, HandshakeInv
  <2>17. ASSUME NEW n \in Node, NEW p \in Poller, AcceptGrant(n, p) PROVE HandshakeInv'
    <3> DEFINE k == NodeKey(board[poller[n][p].msg].sender.owner)
    <3>1. AcceptanceTo(n, board[poller[n][p].msg].sender.owner)
      BY <2>17, PollTypes DEF AcceptGrant, RowsInv, PollInv, AcceptanceTo
    <3>2. TrustJustified(n, k)
      BY <2>17, <3>1, PollTypes, PseudonymTypes DEF AcceptGrant, TrustJustified
    <3>3. \A m \in Node : \A g \in trust'[m] : g \in trust[m] \/ (m = n /\ g[1] = k)
      BY <2>17 DEF AcceptGrant, GrantTrust, TypeInv, TypeOK
    <3>4. TrustInv'
      BY <3>2, <3>3, JustifiedKept DEF HandshakeInv, TrustInv
    <3> QED
      BY <2>17, <3>4, HandshakeKept DEF AcceptGrant, HandshakeInv
  <2>18. ASSUME NEW n \in Node, NEW p \in Poller, AcceptContact(n, p)
         PROVE  HandshakeInv'
    <3> DEFINE owner == board[poller[n][p].msg].sender.owner
    <3>1. AcceptanceTo(n, owner) /\ owner \in Node
      BY <2>18, PollTypes DEF AcceptContact, RowsInv, PollInv, AcceptanceTo
    <3>2. \A m \in Node : NodeKey(m) \in Key /\ (NodeKey(m) = NodeKey(owner) => m = owner)
      BY <3>1, PseudonymTypes
    <3>3. \A m \in Node, k \in Key :
             (m # n \/ k # NodeKey(owner)) => contacts'[m][k] = contacts[m][k]
      BY <2>18 DEF AcceptContact, UpsertContact, TypeInv, TypeOK
    <3>4. BookInv'
      BY <3>1, <3>2, <3>3, JustifiedKept DEF HandshakeInv, BookInv
    <3> QED
      BY <2>18, <3>4, HandshakeKept DEF AcceptContact, HandshakeInv
  <2>19. ASSUME NEW n \in Node, NEW p \in Poller, DispatchDecline(n, p)
         PROVE  HandshakeInv'
    BY <2>19, HandshakeKept DEF DispatchDecline, Dispatching, MatchingRows, HandshakeInv
  <2>20. ASSUME NEW n \in Node, NEW p \in Poller, NEW a \in BOOLEAN,
                DispatchDataShare(n, p, a)
         PROVE  HandshakeInv'
    <3> DEFINE msg == poller[n][p].msg
    <3>1. msg \in DOMAIN board /\ board[msg].sender.owner \in Node /\ UNCHANGED board
      BY <2>20, PollTypes DEF DispatchDataShare, Dispatching
    <3>2. AuthorizedShare(n, board[msg]) => AcceptanceTo(n, board[msg].sender.owner)
      BY <3>1 DEF AuthorizedShare, Active, HandshakeInv, BookInv
    <3>3. \A m \in Node : \A i \in applied'[m] :
             i \in applied[m] \/ (m = n /\ i = msg /\ AuthorizedShare(n, board[msg]))
      BY <2>20 DEF DispatchDataShare, TypeInv, TypeOK
    <3>4. AppliedInv'
      BY <3>1, <3>3 DEF HandshakeInv, AppliedInv
    <3>5. AdmitInv'
      BY <3>1, <3>2, <3>3, JustifiedKept DEF HandshakeInv, AdmitInv
    <3> QED
      BY <2>20, <3>4, <3>5, HandshakeKept DEF DispatchDataShare, HandshakeInv
  <2>21. ASSUME NEW n \in Node, NEW p \in Poller, MarkProcessed(n, p)
         PROVE  HandshakeInv'
    BY <2>21, HandshakeKept DEF MarkProcessed, localVars, IdlePoll, HandshakeInv
  <2>22. ASSUME NEW n \in Node, NEW p \in Poller, PollFail(n, p) PROVE HandshakeInv'
    BY <2>22, HandshakeKept DEF PollFail, localVars, IdlePoll, HandshakeInv
  <2>23. ASSUME NEW n \in Node, NEW k \in Key, SendDataShare(n, k) PROVE HandshakeInv'
    BY <2>23, HandshakeKept DEF SendDataShare, localVars, handlerVars, HandshakeInv
  <2>24. ASSUME NEW n \in Node, NEW k \in Key, RevokeContact(n, k) PROVE HandshakeInv'
    <3>1. \A m \in Node : trust'[m] \subseteq trust[m]
      BY <2>24 DEF RevokeContact, TypeInv, TypeOK
    <3>2. \A m \in Node, j \in Key :
             contacts'[m][j] # NoContact => contacts[m][j] # NoContact
      BY <2>24 DEF RevokeContact, Active, TypeInv, TypeOK
    <3>3. BookInv'
      BY <3>2, JustifiedKept, PseudonymTypes DEF HandshakeInv, BookInv
    <3> QED
      BY <2>24, <3>1, <3>3, HandshakeKept DEF RevokeContact, HandshakeInv
  <2>25. CASE UNCHANGED vars
    BY <2>25, HandshakeKept DEF vars, localVars, handlerVars, HandshakeInv
  <2> QED
    BY <2>1, <2>2, <2>3, <2>4, <2>5, <2>6, <2>7, <2>8, <2>9, <2>10, <2>11, <2>12,
       <2>13, <2>14, <2>15, <2>16, <2>17, <2>18, <2>19, <2>20, <2>21, <2>22, <2>23,
       <2>24, <2>25
    DEF Next, Discovery, Connect, Answer, Inbound, Trusting
<1> QED
  BY <1>1, <1>2, TypeInvariant, RowsInvariant, PTL DEF Spec

(***************************************************************************)
(* A node trusts a key, and admits data of a peer, only along a handshake. *)
(***************************************************************************)
THEOREM HandshakeCorrect == Spec => []TrustNeedsHandshake
<1>1. HandshakeInv => TrustNeedsHandshake
  BY DEF HandshakeInv, TrustInv, AdmitInv, TrustJustified, TrustNeedsHandshake
<1> QED
  BY <1>1, HandshakeInvariant, PTL

(***************************************************************************)
(* Every handler of the handshake leaves rows, contacts, trust and markers *)
(* well formed.                                                            *)
(***************************************************************************)
THEOREM TypeCorrect == Spec => []TypeOK
<1>1. TypeInv => TypeOK
  BY DEF TypeInv
<1> QED
  BY <1>1, TypeInvariant, PTL
==============================================================================
