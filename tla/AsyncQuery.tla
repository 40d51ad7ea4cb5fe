------------------------------ MODULE AsyncQuery ------------------------------
(***************************************************************************)
(* Queries and schema lists asked of a contact over the message board.     *)
(* The asking node posts a request, then saves a row that tracks it; the   *)
(* contact polls the request, executes it and posts a response; the asking *)
(* node polls the response and updates the row.  Each side dispatches a    *)
(* message until its marker is written, so requests are executed and       *)
(* responses applied at least once.  A response is named by its request    *)
(* and its number among the responses to it.                               *)
(***************************************************************************)
EXTENDS Naturals, Sequences

CONSTANTS
    Request,        \* ids of the requests the user may make
    Executor,       \* the contact's polls that may overlap
    Updater,        \* the asking node's polls that may overlap
    MaxResponses,   \* bound: responses posted to one request
    NoQuery

ASSUME ResponsesAssumption == MaxResponses \in Nat \ {0}

VARIABLES
    asked,          \* requests on the board
    asking,         \* per request: how far async_query / async_browse is
    rows,           \* the asking node's async_query rows
    responses,      \* per request: the responses on the board, in order
    executor,       \* per poll of the contact: the request it dispatches
    executed,       \* markers of the contact
    updater,        \* per poll of the asking node: the response it dispatches
    processed,      \* markers of the asking node
    skipped         \* history: responses dropped for want of a row

askVars  == <<asked, asking, rows>>
execVars == <<responses, executor, executed>>
updVars  == <<updater, processed, skipped>>
asyncVars == <<askVars, execVars, updVars>>

ResponseId == Request \X (1..MaxResponses)
Answer    == {"success", "error"}

\* LocalAsyncQuery: results and error name the response they came from, 0
\* when there is none.
QueryRow == [status : {"pending", "completed", "error"},
             results : 0..MaxResponses, error : 0..MaxResponses]
PendingRow == [status |-> "pending", results |-> 0, error |-> 0]

AsyncTypeOK ==
    /\ asked \subseteq Request
    /\ asking \in [Request -> {"none", "posted", "over"}]
    /\ rows \in [Request -> QueryRow \cup {NoQuery}]
    /\ responses \in [Request -> Seq(Answer)]
    /\ \A r \in Request : Len(responses[r]) <= MaxResponses
    /\ executor \in [Executor -> [pc : {"idle", "execute", "mark"}, request : SUBSET Request]
                         \cup [pc : {"respond"}, request : SUBSET Request, outcome : Answer]]
    /\ executed \subseteq Request
    /\ updater \in [Updater -> [pc : {"idle", "check", "get", "mark"}, response : SUBSET ResponseId]
                        \cup [pc : {"put"}, response : SUBSET ResponseId, row : QueryRow]]
    /\ processed \subseteq ResponseId
    /\ skipped \subseteq ResponseId

IdleExecutor == [pc |-> "idle", request |-> {}]
IdleUpdater  == [pc |-> "idle", response |-> {}]

AsyncInit ==
    /\ asked = {}
    /\ asking = [r \in Request |-> "none"]
    /\ rows = [r \in Request |-> NoQuery]
    /\ responses = [r \in Request |-> <<>>]
    /\ executor = [p \in Executor |-> IdleExecutor]
    /\ executed = {}
    /\ updater = [p \in Updater |-> IdleUpdater]
    /\ processed = {}
    /\ skipped = {}

-----------------------------------------------------------------------------
(* The user of the asking node                                             *)

\* The message goes out first.  The post may fail, and it may fail after the
\* board took the message: then no row is ever saved.
Ask(r) ==
    /\ asking[r] = "none"
    /\ \/ asked' = asked \cup {r} /\ asking' = [asking EXCEPT ![r] = "posted"]
       \/ asked' \in {asked, asked \cup {r}} /\ asking' = [asking EXCEPT ![r] = "over"]
    /\ UNCHANGED <<rows, execVars, updVars>>

\* save_async_query, which may fail too.
AskSave(r) ==
    /\ asking[r] = "posted"
    /\ asking' = [asking EXCEPT ![r] = "over"]
    /\ rows' \in {rows, [rows EXCEPT ![r] = PendingRow]}
    /\ UNCHANGED <<asked, execVars, updVars>>

\* The user knows the id once the row is listed.
DeleteAsyncQuery(r) ==
    /\ rows[r] # NoQuery
    /\ rows' = [rows EXCEPT ![r] = NoQuery]
    /\ UNCHANGED <<asked, asking, execVars, updVars>>

-----------------------------------------------------------------------------
(* The contact                                                             *)

PollRequest(p, r) ==
    /\ executor[p].pc = "idle"
    /\ r \in asked \ executed
    /\ executor' = [executor EXCEPT ![p] = [pc |-> "execute", request |-> {r}]]
    /\ UNCHANGED <<askVars, responses, executed, updVars>>

\* A failed query is an answer too.  A schema list is the query that does
\* not fail: when it cannot be made, that is an error to be retried.
HandleIncomingQuery(p) ==
    /\ executor[p].pc = "execute"
    /\ \E outcome \in Answer :
          executor' = [executor EXCEPT ![p] =
                          [pc |-> "respond", request |-> @.request, outcome |-> outcome]]
    /\ UNCHANGED <<askVars, responses, executed, updVars>>

\* The post may fail after the board took the message, which is an error to
\* be retried like any other.
Respond(p) ==
    /\ executor[p].pc = "respond"
    /\ \E r \in executor[p].request :
          /\ Len(responses[r]) < MaxResponses
          /\ responses' = [responses EXCEPT ![r] = Append(@, executor[p].outcome)]
    /\ executor' \in {[executor EXCEPT ![p] = next] :
                         next \in {IdleExecutor, [pc |-> "mark", request |-> executor[p].request]}}
    /\ UNCHANGED <<askVars, executed, updVars>>

MarkRequest(p) ==
    /\ executor[p].pc = "mark"
    /\ executed' = executed \cup executor[p].request
    /\ executor' = [executor EXCEPT ![p] = IdleExecutor]
    /\ UNCHANGED <<askVars, responses, updVars>>

\* A transient error or a crash; the request is dispatched again.
ExecutorFail(p) ==
    /\ executor[p].pc # "idle"
    /\ executor' = [executor EXCEPT ![p] = IdleExecutor]
    /\ UNCHANGED <<askVars, responses, executed, updVars>>

-----------------------------------------------------------------------------
(* The asking node's inbox                                                 *)

PollResponse(p, r, n) ==
    /\ updater[p].pc = "idle"
    /\ n \in 1..Len(responses[r]) /\ <<r, n>> \notin processed
    /\ updater' = [updater EXCEPT ![p] = [pc |-> "check", response |-> {<<r, n>>}]]
    /\ UNCHANGED <<askVars, execVars, processed, skipped>>

\* A response without a row is skipped for good.
HandleIncomingQueryResponse(p) ==
    /\ updater[p].pc = "check"
    /\ \E id \in updater[p].response :
          IF rows[id[1]] = NoQuery
          THEN /\ updater' = [updater EXCEPT ![p].pc = "mark"]
               /\ skipped' = skipped \cup {id}
          ELSE /\ updater' = [updater EXCEPT ![p].pc = "get"]
               /\ skipped' = skipped
    /\ UNCHANGED <<askVars, execVars, processed>>

\* Faulty variant: a failed answer leaves the status alone.
AnsweredKeepsStatus(row, n, outcome) ==
    IF outcome = "error" THEN [row EXCEPT !.error = n]
    ELSE [row EXCEPT !.status = "completed", !.results = n]

\* Faulty variant: the error is stored where the results belong.
AnsweredSwapped(row, n, outcome) ==
    IF outcome = "error" THEN [row EXCEPT !.status = "error", !.results = n]
    ELSE [row EXCEPT !.status = "completed", !.results = n]

Answered(row, n, outcome) ==
    IF outcome = "error" THEN [row EXCEPT !.status = "error", !.error = n]
    ELSE [row EXCEPT !.status = "completed", !.results = n]

\* update_async_query_result reads the row again; a row deleted meanwhile is
\* an error and the response is retried.
GetRow(p) ==
    /\ updater[p].pc = "get"
    /\ \E id \in updater[p].response :
          updater' = [updater EXCEPT ![p] =
                         IF rows[id[1]] = NoQuery THEN IdleUpdater
                         ELSE [pc |-> "put", response |-> {id},
                               row |-> Answered(rows[id[1]], id[2], responses[id[1]][id[2]])]]
    /\ UNCHANGED <<askVars, execVars, processed, skipped>>

PutRow(p) ==
    /\ updater[p].pc = "put"
    /\ \E id \in updater[p].response : rows' = [rows EXCEPT ![id[1]] = updater[p].row]
    /\ updater' = [updater EXCEPT ![p] = [pc |-> "mark", response |-> @.response]]
    /\ UNCHANGED <<asked, asking, execVars, processed, skipped>>

MarkResponse(p) ==
    /\ updater[p].pc = "mark"
    /\ processed' = processed \cup updater[p].response
    /\ updater' = [updater EXCEPT ![p] = IdleUpdater]
    /\ UNCHANGED <<askVars, execVars, skipped>>

UpdaterFail(p) ==
    /\ updater[p].pc # "idle"
    /\ updater' = [updater EXCEPT ![p] = IdleUpdater]
    /\ UNCHANGED <<askVars, execVars, processed, skipped>>

-----------------------------------------------------------------------------
Asking(r) == Ask(r) \/ AskSave(r) \/ DeleteAsyncQuery(r)

Execution(p) ==
    \/ \E r \in Request : PollRequest(p, r)
    \/ HandleIncomingQuery(p) \/ Respond(p) \/ MarkRequest(p)

Applying(p) ==
    \/ \E r \in Request, n \in 1..MaxResponses : PollResponse(p, r, n)
    \/ HandleIncomingQueryResponse(p) \/ GetRow(p) \/ PutRow(p) \/ MarkResponse(p)

AsyncNext ==
    \/ \E r \in Request : Asking(r)
    \/ \E p \in Executor : Execution(p) \/ ExecutorFail(p)
    \/ \E p \in Updater : Applying(p) \/ UpdaterFail(p)

AsyncSpec == AsyncInit /\ [][AsyncNext]_asyncVars

\* Clients keep polling, and failures other than of a row deleted meanwhile
\* end at some time.
AsyncFairness ==
    /\ \A p \in Executor : WF_asyncVars(Execution(p))
    /\ \A p \in Updater : WF_asyncVars(Applying(p))
    /\ <>[][/\ \A p \in Executor : ExecutorFail(p) => Execution(p)
            /\ \A p \in Updater : UpdaterFail(p) => Applying(p)]_asyncVars

AsyncLiveSpec == AsyncSpec /\ AsyncFairness

-----------------------------------------------------------------------------
(* Correctness                                                             *)

Pending(r) == rows[r] # NoQuery /\ rows[r].status = "pending"

\* What a row shows is what the contact answered: results come from a
\* response that succeeded, an error from one that failed, and the status
\* names one of the two, however often the request was executed and the
\* responses applied, and by however many polls at once.
RowShowsAnswer ==
    \A r \in Request : rows[r] # NoQuery =>
        LET row == rows[r] IN
        /\ row.results # 0 => responses[r][row.results] = "success"
        /\ row.error # 0 => responses[r][row.error] = "error"
        /\ row.status = "completed" => row.results # 0
        /\ row.status = "error" => row.error # 0

\* A tracked request is answered, deleted, or its answer overtook the row.
EventuallyAnswered ==
    \A r \in Request :
        Pending(r)
            ~> (~Pending(r) \/ \E n \in 1..MaxResponses : <<r, n>> \in skipped)

=============================================================================
