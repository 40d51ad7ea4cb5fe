-------------------------- MODULE AsyncQueryProofs --------------------------
(* What a row of the asking node shows, for any number of requests, polls  *)
(* and responses.                                                          *)
EXTENDS AsyncQuery, TLAPS

\* A response an inbox poll has in hand is on the board.
HandInv ==
    \A p \in Updater :
        updater[p].pc # "idle" =>
            \E r \in Request : \E n \in 1..Len(responses[r]) :
                updater[p].response = {<<r, n>>}

\* What RowShowsAnswer says of a row, for a row of r kept anywhere; the
\* responses it names are on the board.
Shows(r, row) ==
    /\ row.results <= Len(responses[r])
    /\ row.error <= Len(responses[r])
    /\ row.results # 0 => responses[r][row.results] = "success"
    /\ row.error # 0 => responses[r][row.error] = "error"
    /\ row.status = "completed" => row.results # 0
    /\ row.status = "error" => row.error # 0

\* The rows saved, and the rows polls hold between get and put.
RowInv ==
    /\ \A r \in Request : rows[r] # NoQuery => Shows(r, rows[r])
    /\ \A p \in Updater : updater[p].pc = "put" =>
            \A id \in updater[p].response : Shows(id[1], updater[p].row)

(***************************************************************************)
(* update_async_query_result turns a row into a row.                       *)
(***************************************************************************)
LEMMA AnsweredType ==
    ASSUME NEW row \in QueryRow, NEW n \in 0..MaxResponses, NEW outcome
    PROVE  Answered(row, n, outcome) \in QueryRow
  BY DEF Answered, QueryRow

(***************************************************************************)
(* Requests, rows, polls and markers stay well formed.                     *)
(***************************************************************************)
THEOREM TypeCorrect == AsyncSpec => []AsyncTypeOK
<1>1. AsyncInit => AsyncTypeOK
  BY ResponsesAssumption DEF AsyncInit, AsyncTypeOK, IdleExecutor, IdleUpdater, Answer
<1>2. AsyncTypeOK /\ [AsyncNext]_asyncVars => AsyncTypeOK'
  <2> SUFFICES ASSUME AsyncTypeOK, [AsyncNext]_asyncVars PROVE AsyncTypeOK'
    OBVIOUS
  <2> USE DEF AsyncTypeOK, IdleExecutor, IdleUpdater
  <2>1. ASSUME NEW r \in Request, Ask(r) PROVE AsyncTypeOK'
    <3>1. asked' \subseteq Request
      BY <2>1 DEF Ask
    <3>2. asking' \in [Request -> {"none", "posted", "over"}]
      BY <2>1 DEF Ask
    <3> QED
      BY <2>1, <3>1, <3>2 DEF Ask, execVars, updVars
  <2>2. ASSUME NEW r \in Request, AskSave(r) PROVE AsyncTypeOK'
    <3>1. PendingRow \in QueryRow
      BY ResponsesAssumption DEF PendingRow, QueryRow
    <3> QED
      BY <2>2, <3>1 DEF AskSave, execVars, updVars
  <2>3. ASSUME NEW r \in Request, DeleteAsyncQuery(r) PROVE AsyncTypeOK'
    BY <2>3 DEF DeleteAsyncQuery, execVars, updVars
  <2>4. ASSUME NEW p \in Executor, NEW r \in Request, PollRequest(p, r) PROVE AsyncTypeOK'
    BY <2>4 DEF PollRequest, askVars, updVars
  <2>5. ASSUME NEW p \in Executor, HandleIncomingQuery(p) PROVE AsyncTypeOK'
    BY <2>5 DEF HandleIncomingQuery, askVars, updVars
  <2>6. ASSUME NEW p \in Executor, Respond(p) PROVE AsyncTypeOK'
    <3>1. PICK r \in executor[p].request :
             /\ Len(responses[r]) < MaxResponses
             /\ responses' = [responses EXCEPT ![r] = Append(@, executor[p].outcome)]
      BY <2>6 DEF Respond
    <3>2. r \in Request /\ executor[p].outcome \in Answer /\ executor[p].request \subseteq Request
      BY <2>6, <3>1 DEF Respond
    <3>3. /\ responses' \in [Request -> Seq(Answer)]
          /\ \A s \in Request : Len(responses'[s]) <= MaxResponses
      <4>1. responses[r] \in Seq(Answer)
        BY <3>2
      <4>2. /\ Append(responses[r], executor[p].outcome) \in Seq(Answer)
            /\ Len(Append(responses[r], executor[p].outcome)) = Len(responses[r]) + 1
            /\ Len(responses[r]) \in Nat
        BY <3>2, <4>1
      <4>3. Len(Append(responses[r], executor[p].outcome)) <= MaxResponses
        BY <3>1, <4>2, ResponsesAssumption
      <4> QED
        BY <3>1, <3>2, <4>2, <4>3 DEF Answer
    <3>4. \A next \in {IdleExecutor, [pc |-> "mark", request |-> executor[p].request]} :
            next \in [pc : {"idle", "execute", "mark"}, request : SUBSET Request]
      BY <3>2
    <3>5. \E next \in {IdleExecutor, [pc |-> "mark", request |-> executor[p].request]} :
            executor' = [executor EXCEPT ![p] = next]
      BY <2>6 DEF Respond
    <3>6. executor' \in [Executor -> [pc : {"idle", "execute", "mark"}, request : SUBSET Request]
                         \cup [pc : {"respond"}, request : SUBSET Request, outcome : Answer]]
      BY <3>4, <3>5
    <3> QED
      BY <2>6, <3>3, <3>6 DEF Respond, askVars, updVars
  <2>7. ASSUME NEW p \in Executor, MarkRequest(p) PROVE AsyncTypeOK'
    BY <2>7 DEF MarkRequest, askVars, updVars
  <2>8. ASSUME NEW p \in Executor, ExecutorFail(p) PROVE AsyncTypeOK'
    BY <2>8 DEF ExecutorFail, askVars, updVars
  <2>9. ASSUME NEW p \in Updater, NEW r \in Request, NEW n \in 1..MaxResponses, PollResponse(p, r, n)
        PROVE  AsyncTypeOK'
    <3>1. {<<r, n>>} \subseteq ResponseId
      BY DEF ResponseId
    <3> QED
      BY <2>9, <3>1 DEF PollResponse, askVars, execVars
  <2>10. ASSUME NEW p \in Updater, HandleIncomingQueryResponse(p) PROVE AsyncTypeOK'
    <3>1. updater[p] \in [pc : {"idle", "check", "get", "mark"}, response : SUBSET ResponseId]
      BY <2>10 DEF HandleIncomingQueryResponse
    <3>2. \A next \in {"mark", "get"} :
            [updater[p] EXCEPT !.pc = next]
                \in [pc : {"idle", "check", "get", "mark"}, response : SUBSET ResponseId]
      BY <3>1
    <3>3. /\ skipped' \subseteq ResponseId
          /\ \E next \in {"mark", "get"} :
                updater' = [updater EXCEPT ![p] = [updater[p] EXCEPT !.pc = next]]
      BY <2>10, <3>1 DEF HandleIncomingQueryResponse
    <3> QED
      BY <2>10, <3>2, <3>3 DEF HandleIncomingQueryResponse, askVars, execVars
  <2>11. ASSUME NEW p \in Updater, GetRow(p) PROVE AsyncTypeOK'
    <3>1. PICK id \in updater[p].response :
             updater' = [updater EXCEPT ![p] =
                            IF rows[id[1]] = NoQuery THEN IdleUpdater
                            ELSE [pc |-> "put", response |-> {id},
                                  row |-> Answered(rows[id[1]], id[2], responses[id[1]][id[2]])]]
      BY <2>11 DEF GetRow
    <3>2. id \in ResponseId
      BY <3>1
    <3>3. id[1] \in Request /\ id[2] \in 0..MaxResponses
      BY <3>2, ResponsesAssumption DEF ResponseId
    <3>4. rows[id[1]] # NoQuery
            => Answered(rows[id[1]], id[2], responses[id[1]][id[2]]) \in QueryRow
      BY <3>3, AnsweredType
    <3> HIDE DEF QueryRow, ResponseId
    <3> QED
      BY <2>11, <3>1, <3>2, <3>4 DEF GetRow, askVars, execVars
  <2>12. ASSUME NEW p \in Updater, PutRow(p) PROVE AsyncTypeOK'
    BY <2>12 DEF PutRow, execVars
  <2>13. ASSUME NEW p \in Updater, MarkResponse(p) PROVE AsyncTypeOK'
    BY <2>13 DEF MarkResponse, askVars, execVars
  <2>14. ASSUME NEW p \in Updater, UpdaterFail(p) PROVE AsyncTypeOK'
    BY <2>14 DEF UpdaterFail, askVars, execVars
  <2>15. CASE UNCHANGED asyncVars
    BY <2>15 DEF asyncVars, askVars, execVars, updVars
  <2> QED
    BY <2>1, <2>2, <2>3, <2>4, <2>5, <2>6, <2>7, <2>8, <2>9, <2>10, <2>11,
       <2>12, <2>13, <2>14, <2>15
    DEF AsyncNext, Asking, Execution, Applying
<1> QED
  BY <1>1, <1>2, PTL DEF AsyncSpec

(***************************************************************************)
(* A response the contact posts comes after those already on the board and *)
(* changes none of them.                                                   *)
(***************************************************************************)
LEMMA Posted ==
    ASSUME AsyncTypeOK, NEW r \in Request, NEW o \in Answer,
           responses' = [responses EXCEPT ![r] = Append(@, o)]
    PROVE  \A s \in Request :
               /\ Len(responses[s]) \in Nat
               /\ Len(responses'[s]) \in Nat
               /\ Len(responses[s]) <= Len(responses'[s])
               /\ \A n \in 1..Len(responses[s]) : responses'[s][n] = responses[s][n]
<1> TAKE s \in Request
<1>1. responses[s] \in Seq(Answer) /\ Len(responses[s]) \in Nat
  BY DEF AsyncTypeOK
<1>2. CASE s = r
  <2>1. responses'[s] = Append(responses[s], o)
    BY <1>2 DEF AsyncTypeOK
  <2> QED
    BY <1>1, <2>1
<1>3. CASE s # r
  <2>1. responses'[s] = responses[s]
    BY <1>3 DEF AsyncTypeOK
  <2> QED
    BY <1>1, <2>1
<1> QED
  BY <1>2, <1>3

(***************************************************************************)
(* Applying a response of the board to a row that shows answers gives such *)
(* a row, whichever response the row showed before.                        *)
(***************************************************************************)
LEMMA AnsweredShows ==
    ASSUME NEW r \in Request, NEW row \in QueryRow, Shows(r, row),
           NEW n \in 1..Len(responses[r]), responses[r][n] \in Answer
    PROVE  Shows(r, Answered(row, n, responses[r][n]))
  BY DEF Shows, Answered, QueryRow, Answer

(***************************************************************************)
(* A poll dispatches a response the board really has.                      *)
(***************************************************************************)
LEMMA HandInvariant == AsyncSpec => []HandInv
<1>1. AsyncInit => HandInv
  BY DEF AsyncInit, HandInv, IdleUpdater
<1>2. AsyncTypeOK /\ HandInv /\ [AsyncNext]_asyncVars => HandInv'
  <2> SUFFICES ASSUME AsyncTypeOK, HandInv, [AsyncNext]_asyncVars PROVE HandInv'
    OBVIOUS
  <2>1. ASSUME NEW r \in Request, Ask(r) PROVE HandInv'
    BY <2>1 DEF Ask, execVars, updVars, HandInv, AsyncTypeOK, IdleUpdater
  <2>2. ASSUME NEW r \in Request, AskSave(r) PROVE HandInv'
    BY <2>2 DEF AskSave, execVars, updVars, HandInv, AsyncTypeOK, IdleUpdater
  <2>3. ASSUME NEW r \in Request, DeleteAsyncQuery(r) PROVE HandInv'
    BY <2>3 DEF DeleteAsyncQuery, execVars, updVars, HandInv, AsyncTypeOK, IdleUpdater
  <2>4. ASSUME NEW p \in Executor, NEW r \in Request, PollRequest(p, r) PROVE HandInv'
    BY <2>4 DEF PollRequest, askVars, updVars, HandInv, AsyncTypeOK, IdleUpdater
  <2>5. ASSUME NEW p \in Executor, HandleIncomingQuery(p) PROVE HandInv'
    BY <2>5 DEF HandleIncomingQuery, askVars, updVars, HandInv, AsyncTypeOK, IdleUpdater
  <2>6. ASSUME NEW p \in Executor, Respond(p) PROVE HandInv'
    <3>1. PICK r \in executor[p].request :
             responses' = [responses EXCEPT ![r] = Append(@, executor[p].outcome)]
      BY <2>6 DEF Respond
    <3>2. r \in Request /\ executor[p].outcome \in Answer
      BY <2>6, <3>1 DEF Respond, AsyncTypeOK
    <3>3. \A s \in Request : 1..Len(responses[s]) \subseteq 1..Len(responses'[s])
      BY <3>1, <3>2, Posted
    <3>4. UNCHANGED updater
      BY <2>6 DEF Respond, updVars
    <3> QED
      BY <3>3, <3>4 DEF HandInv
  <2>7. ASSUME NEW p \in Executor, MarkRequest(p) PROVE HandInv'
    BY <2>7 DEF MarkRequest, askVars, updVars, HandInv, AsyncTypeOK, IdleUpdater
  <2>8. ASSUME NEW p \in Executor, ExecutorFail(p) PROVE HandInv'
    BY <2>8 DEF ExecutorFail, askVars, updVars, HandInv, AsyncTypeOK, IdleUpdater
  <2>9. ASSUME NEW p \in Updater, NEW r \in Request, NEW n \in 1..MaxResponses, PollResponse(p, r, n)
        PROVE  HandInv'
    <3>1. UNCHANGED responses /\ n \in 1..Len(responses[r])
      BY <2>9 DEF PollResponse, execVars
    <3>2. /\ updater'[p].response = {<<r, n>>}
          /\ \A q \in Updater \ {p} : updater'[q] = updater[q]
      BY <2>9 DEF PollResponse, AsyncTypeOK
    <3> QED
      BY <3>1, <3>2 DEF HandInv
  <2>10. ASSUME NEW p \in Updater, HandleIncomingQueryResponse(p) PROVE HandInv'
    <3>1. UNCHANGED responses /\ updater[p].pc # "idle"
      BY <2>10 DEF HandleIncomingQueryResponse, execVars
    <3>2. updater'[p].response = updater[p].response
      BY <2>10 DEF HandleIncomingQueryResponse, AsyncTypeOK
    <3>3. \A q \in Updater \ {p} : updater'[q] = updater[q]
      BY <2>10 DEF HandleIncomingQueryResponse, AsyncTypeOK
    <3> QED
      BY <3>1, <3>2, <3>3 DEF HandInv
  <2>11. ASSUME NEW p \in Updater, GetRow(p) PROVE HandInv'
    <3>1. UNCHANGED responses /\ updater[p].pc # "idle"
      BY <2>11 DEF GetRow, execVars
    <3>2. PICK id \in updater[p].response :
             updater' = [updater EXCEPT ![p] =
                            IF rows[id[1]] = NoQuery THEN IdleUpdater
                            ELSE [pc |-> "put", response |-> {id},
                                  row |-> Answered(rows[id[1]], id[2], responses[id[1]][id[2]])]]
      BY <2>11 DEF GetRow
    <3>3. updater[p].response = {id}
      BY <3>1, <3>2 DEF HandInv
    <3>4. updater'[p].pc # "idle" => updater'[p].response = updater[p].response
      BY <3>2, <3>3 DEF AsyncTypeOK, IdleUpdater
    <3>5. \A q \in Updater \ {p} : updater'[q] = updater[q]
      BY <3>2 DEF AsyncTypeOK
    <3> QED
      BY <3>1, <3>4, <3>5 DEF HandInv
  <2>12. ASSUME NEW p \in Updater, PutRow(p) PROVE HandInv'
    BY <2>12 DEF PutRow, execVars, HandInv, AsyncTypeOK, IdleUpdater
  <2>13. ASSUME NEW p \in Updater, MarkResponse(p) PROVE HandInv'
    BY <2>13 DEF MarkResponse, askVars, execVars, HandInv, AsyncTypeOK, IdleUpdater
  <2>14. ASSUME NEW p \in Updater, UpdaterFail(p) PROVE HandInv'
    BY <2>14 DEF UpdaterFail, askVars, execVars, HandInv, AsyncTypeOK, IdleUpdater
  <2>15. CASE UNCHANGED asyncVars
    BY <2>15 DEF asyncVars, askVars, execVars, updVars, HandInv, AsyncTypeOK, IdleUpdater
  <2> QED
    BY <2>1, <2>2, <2>3, <2>4, <2>5, <2>6, <2>7, <2>8, <2>9, <2>10, <2>11,
       <2>12, <2>13, <2>14, <2>15
    DEF AsyncNext, Asking, Execution, Applying
<1> QED
  BY <1>1, <1>2, TypeCorrect, PTL DEF AsyncSpec

(***************************************************************************)
(* Whatever is executed twice, applied twice, applied out of order or      *)
(* written by two polls at once: a row only ever shows an answer the       *)
(* contact gave, under the status that belongs to it.                      *)
(***************************************************************************)
THEOREM RowsCorrect == AsyncSpec => []RowShowsAnswer
<1>1. AsyncInit => RowInv
  BY DEF AsyncInit, RowInv, IdleUpdater
<1>2. AsyncTypeOK /\ HandInv /\ RowInv /\ [AsyncNext]_asyncVars => RowInv'
  <2> SUFFICES ASSUME AsyncTypeOK, HandInv, RowInv, [AsyncNext]_asyncVars PROVE RowInv'
    OBVIOUS
  <2>1. ASSUME NEW r \in Request, Ask(r) PROVE RowInv'
    BY <2>1 DEF Ask, execVars, updVars, RowInv, Shows, AsyncTypeOK, IdleUpdater, PendingRow
  <2>2. ASSUME NEW r \in Request, AskSave(r) PROVE RowInv'
    BY <2>2
    DEF AskSave, execVars, updVars, RowInv, Shows, AsyncTypeOK, IdleUpdater, PendingRow
  <2>3. ASSUME NEW r \in Request, DeleteAsyncQuery(r) PROVE RowInv'
    BY <2>3
    DEF DeleteAsyncQuery, execVars, updVars, RowInv, Shows, AsyncTypeOK, IdleUpdater,
        PendingRow
  <2>4. ASSUME NEW p \in Executor, NEW r \in Request, PollRequest(p, r) PROVE RowInv'
    BY <2>4
    DEF PollRequest, askVars, updVars, RowInv, Shows, AsyncTypeOK, IdleUpdater,
        PendingRow
  <2>5. ASSUME NEW p \in Executor, HandleIncomingQuery(p) PROVE RowInv'
    BY <2>5
    DEF HandleIncomingQuery, askVars, updVars, RowInv, Shows, AsyncTypeOK, IdleUpdater,
        PendingRow
  <2>6. ASSUME NEW p \in Executor, Respond(p) PROVE RowInv'
    <3>1. PICK r \in executor[p].request :
             responses' = [responses EXCEPT ![r] = Append(@, executor[p].outcome)]
      BY <2>6 DEF Respond
    <3>2. r \in Request /\ executor[p].outcome \in Answer
      BY <2>6, <3>1 DEF Respond, AsyncTypeOK
    <3>3. ASSUME NEW s \in Request, NEW row \in QueryRow, Shows(s, row)
          PROVE  Shows(s, row)'
      BY <3>1, <3>2, <3>3, Posted DEF Shows, QueryRow
    <3>4. ASSUME NEW q \in Updater, updater[q].pc = "put", NEW id \in updater[q].response
          PROVE  id[1] \in Request /\ updater[q].row \in QueryRow
      BY <3>4 DEF AsyncTypeOK, ResponseId
    <3>5. \A s \in Request : rows[s] # NoQuery => rows[s] \in QueryRow
      BY DEF AsyncTypeOK
    <3>6. UNCHANGED <<rows, updater>>
      BY <2>6 DEF Respond, askVars, updVars
    <3> QED
      BY <3>3, <3>4, <3>5, <3>6 DEF RowInv, Shows
  <2>7. ASSUME NEW p \in Executor, MarkRequest(p) PROVE RowInv'
    BY <2>7
    DEF MarkRequest, askVars, updVars, RowInv, Shows, AsyncTypeOK, IdleUpdater,
        PendingRow
  <2>8. ASSUME NEW p \in Executor, ExecutorFail(p) PROVE RowInv'
    BY <2>8
    DEF ExecutorFail, askVars, updVars, RowInv, Shows, AsyncTypeOK, IdleUpdater,
        PendingRow
  <2>9. ASSUME NEW p \in Updater, NEW r \in Request, NEW n \in 1..MaxResponses, PollResponse(p, r, n)
        PROVE  RowInv'
    BY <2>9
    DEF PollResponse, askVars, execVars, RowInv, Shows, AsyncTypeOK, IdleUpdater,
        PendingRow
  <2>10. ASSUME NEW p \in Updater, HandleIncomingQueryResponse(p) PROVE RowInv'
    <3>1. UNCHANGED <<rows, responses>>
      BY <2>10 DEF HandleIncomingQueryResponse, askVars, execVars
    <3>2. updater'[p].pc \in {"mark", "get"}
      BY <2>10 DEF HandleIncomingQueryResponse, AsyncTypeOK
    <3>3. \A q \in Updater \ {p} : updater'[q] = updater[q]
      BY <2>10 DEF HandleIncomingQueryResponse, AsyncTypeOK
    <3> QED
      BY <3>1, <3>2, <3>3 DEF RowInv, Shows
  <2>11. ASSUME NEW p \in Updater, GetRow(p) PROVE RowInv'
    <3>1. PICK id \in updater[p].response :
             updater' = [updater EXCEPT ![p] =
                            IF rows[id[1]] = NoQuery THEN IdleUpdater
                            ELSE [pc |-> "put", response |-> {id},
                                  row |-> Answered(rows[id[1]], id[2], responses[id[1]][id[2]])]]
      BY <2>11 DEF GetRow
    <3>2. /\ id[1] \in Request
          /\ id[2] \in 1..Len(responses[id[1]])
          /\ responses[id[1]][id[2]] \in Answer
      <4>0. PICK r \in Request :
               \E n \in 1..Len(responses[r]) : updater[p].response = {<<r, n>>}
        BY <2>11 DEF GetRow, HandInv
      <4>1. PICK n \in 1..Len(responses[r]) : updater[p].response = {<<r, n>>}
        BY <4>0
      <4>2. id = <<r, n>> /\ id[1] = r /\ id[2] = n
        BY <4>1
      <4>3. responses[r] \in Seq(Answer)
        BY DEF AsyncTypeOK
      <4> QED
        BY <4>2, <4>3
    <3>3. rows[id[1]] # NoQuery => /\ rows[id[1]] \in QueryRow
                                 /\ Shows(id[1], rows[id[1]])
      BY <3>2 DEF AsyncTypeOK, RowInv
    <3>4. rows[id[1]] # NoQuery
            => Shows(id[1], Answered(rows[id[1]], id[2], responses[id[1]][id[2]]))
      BY <3>2, <3>3, AnsweredShows
    <3>5. UNCHANGED <<rows, responses>>
      BY <2>11 DEF GetRow, askVars, execVars
    <3>6. \A q \in Updater \ {p} : updater'[q] = updater[q]
      BY <3>1 DEF AsyncTypeOK
    <3>7. updater'[p].pc = "put" =>
            /\ rows[id[1]] # NoQuery
            /\ updater'[p].response = {id}
            /\ updater'[p].row = Answered(rows[id[1]], id[2], responses[id[1]][id[2]])
      BY <3>1 DEF AsyncTypeOK, IdleUpdater
    <3>8. \A q \in Updater : updater'[q].pc = "put" =>
            \A i \in updater'[q].response : Shows(i[1], updater'[q].row)
      BY <3>4, <3>6, <3>7 DEF RowInv
    <3> QED
      BY <3>5, <3>8 DEF RowInv, Shows
  <2>12. ASSUME NEW p \in Updater, PutRow(p) PROVE RowInv'
    <3>1. PICK id \in updater[p].response : rows' = [rows EXCEPT ![id[1]] = updater[p].row]
      BY <2>12 DEF PutRow
    <3>2. id[1] \in Request /\ Shows(id[1], updater[p].row)
      BY <2>12, <3>1 DEF PutRow, AsyncTypeOK, RowInv, ResponseId
    <3>3. UNCHANGED responses
      BY <2>12 DEF PutRow, execVars
    <3>4. \A r \in Request : rows'[r] # NoQuery => Shows(r, rows'[r])
      BY <3>1, <3>2 DEF AsyncTypeOK, RowInv
    <3>5. \A q \in Updater : updater'[q].pc = "put" => updater'[q] = updater[q]
      BY <2>12 DEF PutRow, AsyncTypeOK
    <3>6. \A q \in Updater : updater'[q].pc = "put" =>
            \A i \in updater'[q].response : Shows(i[1], updater'[q].row)
      BY <3>5 DEF RowInv
    <3> QED
      BY <3>3, <3>4, <3>6 DEF RowInv, Shows
  <2>13. ASSUME NEW p \in Updater, MarkResponse(p) PROVE RowInv'
    BY <2>13
    DEF MarkResponse, askVars, execVars, RowInv, Shows, AsyncTypeOK, IdleUpdater,
        PendingRow
  <2>14. ASSUME NEW p \in Updater, UpdaterFail(p) PROVE RowInv'
    BY <2>14
    DEF UpdaterFail, askVars, execVars, RowInv, Shows, AsyncTypeOK, IdleUpdater,
        PendingRow
  <2>15. CASE UNCHANGED asyncVars
    BY <2>15
    DEF asyncVars, askVars, execVars, updVars, RowInv, Shows, AsyncTypeOK, IdleUpdater,
        PendingRow
  <2> QED
    BY <2>1, <2>2, <2>3, <2>4, <2>5, <2>6, <2>7, <2>8, <2>9, <2>10, <2>11,
       <2>12, <2>13, <2>14, <2>15
    DEF AsyncNext, Asking, Execution, Applying
<1>3. RowInv => RowShowsAnswer
  BY DEF RowInv, Shows, RowShowsAnswer
<1> QED
  BY <1>1, <1>2, <1>3, TypeCorrect, HandInvariant, PTL DEF AsyncSpec
=============================================================================
