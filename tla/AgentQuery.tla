----------------------------- MODULE AgentQuery -----------------------------
(***************************************************************************)
(* Questions to the language model: the agent that works with tools, the   *)
(* search of the native index with its interpretation, chat and follow-ups *)
(* on the results of a session, the sessions themselves, and the rows of   *)
(* ai_conversations in which every answered turn is kept.                  *)
(*                                                                         *)
(* The model is external: what it answers a request is one of Response. Time is     *)
(* counted in ticks: an agent may run for one (AGENT_QUERY_TIMEOUT), a     *)
(* session lives for TTL of them after its last use by the wall clock,     *)
(* which may be set.                                                       *)
(***************************************************************************)
EXTENDS DataQueries

CONSTANTS
    Ask,         \* requests: [kind, session, max_iterations]
    Response,    \* Response[r]: what the model may say to the agent: see parse_agent_response
    AgentFiles,  \* the files of a folder, those in it that can be read
    Schema_Service,  \* "real" | "test" | "none"
    PHASE_1_DESCRIPTIVE_NAMES,   \* labels of the built-in schemas
    TTL,         \* ticks after which an unused session is expired
    SearchKey,   \* where a search key is: a subset of {"saved", "environment"}
    WebPage,     \* what a URL answers: [ok, type, body]; body: pieces [kind: "open" | "close" | "text", name]
    MAX_FETCH_CHARS,
    MAX_RAW_RESULTS_TO_AI,
    MaxTicks, MaxSeconds  \* bounds of the instance

ASSUME AgentAssumption == TTL \in Nat \ {0} /\ {MaxTicks, MaxSeconds} \subseteq Nat /\ MAX_RAW_RESULTS_TO_AI \in Nat

VARIABLES
    sessions,  \* sessions[i]: [open, idle, history, searched, results]
    asked,     \* asked[r]: [pc, iter, empties, calls, left, acc, age, answer]; acc: what the tool it is in has done
    agentJob,  \* agentJob[r]: the progress job of an agent request
    turns,     \* rows of ai_conversations: [session, at, ask]
    ingestedFiles,  \* files recorded as ingested
    agentOptIns,  \* schemas opted into discovery by the agent
    madeViews, \* views: registered at the schema service, stored on the node
    changes,   \* history: what the tools changed, [by, call, item]: the request, the number of its call, the change
    unheard,   \* history: requests a message of which found no session
    disturbed, \* history: requests that were at work when the clock was set
    second,    \* the clock of the rows, in seconds
    ticks      \* spent of MaxTicks, by time and by setting the clock

agentVars == <<sessions, asked, agentJob, turns, ingestedFiles, agentOptIns, madeViews, changes, unheard, disturbed, second, ticks>>

SessionIds == {r.session : r \in Ask}
NoSession == [open |-> FALSE, idle |-> 0, history |-> <<>>, searched |-> FALSE, results |-> {}]
Unasked == [pc |-> "idle", iter |-> 0, empties |-> 0, calls |-> <<>>, left |-> {}, acc |-> {}, age |-> 0, answer |-> "none"]

AgentInit ==
    /\ sessions = [i \in SessionIds |-> NoSession]
    /\ asked = [r \in Ask |-> Unasked]
    /\ agentJob = [r \in Ask |-> "none"]
    /\ turns = {} /\ ingestedFiles = {} /\ agentOptIns = {} /\ madeViews = {} /\ changes = {} /\ unheard = {} /\ disturbed = {}
    /\ second = 0 /\ ticks = 0

Goto(r, pc) == asked' = [asked EXCEPT ![r].pc = pc]
Failed(r) == Goto(r, "error")
NoEffect == UNCHANGED <<ingestedFiles, agentOptIns, madeViews, changes, dataQueryVars>>

-----------------------------------------------------------------------------
(* Sessions.                                                               *)

\* Unused for too long, or last used later than the clock says it is.
is_expired(s) == s.open /\ (s.idle > TTL \/ s.idle < 0)
\* Faulty variant: finding a session does not count as using it.
create_or_get_session_Unused(i) ==
    [j \in SessionIds |->
        LET s == IF is_expired(sessions[j]) THEN NoSession ELSE sessions[j]
        IN  IF j # i THEN s ELSE IF s.open THEN s ELSE [NoSession EXCEPT !.open = TRUE]]
\* Drops every expired session, then finds the session or makes it.
create_or_get_session(i) ==
    [j \in SessionIds |->
        LET s == IF is_expired(sessions[j]) THEN NoSession ELSE sessions[j]
        IN  IF j # i THEN s ELSE IF s.open THEN [s EXCEPT !.idle = 0] ELSE [NoSession EXCEPT !.open = TRUE]]

\* A message for a session that is gone is lost with a warning.
add_message(r, role) ==
    IF sessions[r.session].open
    THEN /\ sessions' = [sessions EXCEPT ![r.session].history = Append(@, <<role, r>>), ![r.session].idle = 0]
         /\ UNCHANGED unheard
    ELSE unheard' = unheard \cup {r} /\ UNCHANGED sessions
add_results(r, hits) ==
    IF sessions[r.session].open
    THEN sessions' = [sessions EXCEPT ![r.session].searched = TRUE, ![r.session].results = hits, ![r.session].idle = 0]
    ELSE UNCHANGED sessions
get_session_with_results(i) == sessions[i].open /\ sessions[i].searched

\* The schema of the rows is loaded and approved, then the row is written under the session and the
\* second; a row of the same second is replaced, and a failure is logged only.
ensure_schema == schemas' = [schemas EXCEPT !["ai_conversations"].state = "approved"]
save_conversation_turn(r) ==
    /\ asked[r].pc = "save"
    /\ ensure_schema
    /\ second' \in {second, second + 1} \cap 0..MaxSeconds
    /\ turns' \in {turns, {t \in turns : ~(t.session = r.session /\ t.at = second')}
                          \cup {[session |-> r.session, at |-> second', ask |-> r]}}
    /\ Goto(r, "answered")
    /\ UNCHANGED <<sessions, agentJob, ingestedFiles, agentOptIns, madeViews, changes, unheard, disturbed, ticks>>
    /\ UNCHANGED <<rows, pager, written, edit, replies, ownerSet, overlapped>>

\* The messages of an answered request, one call each, with the tool calls between them.
NextMessage(r) ==
    IF asked[r].pc = "user" /\ asked[r].calls # <<>> THEN "tool_calls"
    ELSE IF asked[r].pc \in {"user", "tool_calls"} THEN "assistant" ELSE "save"
tell_session(r) ==
    /\ asked[r].pc \in {"user", "tool_calls", "assistant"}
    /\ add_message(r, asked[r].pc)
    /\ Goto(r, NextMessage(r))
    /\ NoEffect /\ UNCHANGED <<agentJob, turns, disturbed, second, ticks>>

\* Time passes; an agent that has used up its time is stopped before more passes, and what follows
\* the model's answer takes none.
Working(r) == r.kind = "agent" /\ asked[r].pc \in {"think", "act", "complete"}
Telling(r) == asked[r].pc \in {"user", "tool_calls", "assistant", "results"}
tick ==
    /\ ticks < MaxTicks /\ ticks' = ticks + 1
    /\ \A r \in Ask : (Working(r) => asked[r].age = 0) /\ ~Telling(r)
    /\ asked' = [r \in Ask |-> [asked[r] EXCEPT !.age = IF Working(r) THEN @ + 1 ELSE @]]
    /\ sessions' = [i \in SessionIds |-> [sessions[i] EXCEPT !.idle = IF @ <= TTL THEN @ + 1 ELSE @]]
    /\ NoEffect /\ UNCHANGED <<agentJob, turns, unheard, disturbed, second>>

\* The wall clock is set, back or forward: the sessions and the rows go by it, the timeout does not.
clock_set ==
    /\ ticks < MaxTicks /\ ticks' = ticks + 1
    /\ \E d \in {-1, 1} :
          sessions' = [i \in SessionIds |-> [sessions[i] EXCEPT !.idle = IF @ + d <= TTL THEN @ + d ELSE TTL + 1]]
    /\ second' \in 0..MaxSeconds
    /\ disturbed' = disturbed \cup {r \in Ask : Working(r) \/ Telling(r)}
    /\ NoEffect /\ UNCHANGED <<asked, agentJob, turns, unheard>>

-----------------------------------------------------------------------------
(* The agent.                                                              *)

\* No approved schema but the built-in ones.
is_empty_user_store ==
    \A s \in Names : schemas[s].state = "approved" => SchemaDef[s].label \in PHASE_1_DESCRIPTIVE_NAMES

\* The session is found or made; then the schemas are read, which may fail.
agent_query(r) ==
    /\ r.kind = "agent" /\ asked[r].pc = "idle"
    /\ sessions' = create_or_get_session(r.session)
    /\ \/ Failed(r) /\ UNCHANGED agentJob
       \/ /\ is_empty_user_store
          /\ asked' = [asked EXCEPT ![r].pc = "user", ![r].answer = "canned"]
          /\ UNCHANGED agentJob
       \/ /\ ~is_empty_user_store
          /\ Goto(r, "think")
          /\ agentJob' = [agentJob EXCEPT ![r] = "running"]
    /\ NoEffect /\ UNCHANGED <<turns, unheard, disturbed, second, ticks>>

\* What a response of the model is taken for: a JSON object is looked for, a tool named in it or
\* guessed from its fields, and anything else is an answer.
parse_agent_response(x) ==
    CASE x.form = "blank" -> "empty"
      [] x.form = "prose" -> "answer"
      [] x.form = "json" /\ x.tool # "none" -> "tool"
      [] x.form = "json" /\ x.tool = "none" /\ "answer" \in x.has -> IF x.say = "" THEN "nothing" ELSE "answer"
      [] x.form = "json" /\ x.tool = "none" /\ "answer" \notin x.has ->
            IF x.has \cap {"schema_name", "terms", "path", "data", "query", "url"} # {} THEN "tool" ELSE "odd"
GuessedTool(x) ==
    IF x.tool # "none" THEN x.tool
    ELSE IF "schema_name" \in x.has THEN "query"
    ELSE IF "terms" \in x.has THEN "search"
    ELSE IF "path" \in x.has THEN "scan_folder"
    ELSE IF "data" \in x.has THEN "ingest_json"
    ELSE IF "query" \in x.has THEN "web_search" ELSE "fetch_url"

MAX_CONSECUTIVE_EMPTY == 2
\* One round of run_agent_query_inner; the model may also fail to answer.
call_llm(r) ==
    /\ r.kind = "agent" /\ asked[r].pc = "think" /\ asked[r].iter < r.max_iterations
    /\ \/ Failed(r) /\ UNCHANGED agentJob
       \/ \E x \in Response[r] :
             LET is == parse_agent_response(x)
                 n == [asked[r] EXCEPT !.iter = @ + 1, !.empties = IF is = "empty" THEN @ + 1 ELSE 0]
             IN  \/ is = "empty" /\ n.empties < MAX_CONSECUTIVE_EMPTY /\ asked' = [asked EXCEPT ![r] = n] /\ UNCHANGED agentJob
                 \/ /\ is = "empty" /\ n.empties >= MAX_CONSECUTIVE_EMPTY
                    /\ Failed(r) /\ agentJob' = [agentJob EXCEPT ![r] = "failed"]
                 \/ is = "odd" /\ Failed(r) /\ UNCHANGED agentJob
                 \/ is = "nothing" /\ asked' = [asked EXCEPT ![r] = n] /\ UNCHANGED agentJob
                 \/ /\ is = "answer"
                    /\ asked' = [asked EXCEPT ![r] = [n EXCEPT !.pc = "complete", !.answer = "final"]]
                    /\ agentJob' = [agentJob EXCEPT ![r] = "completed"]
                 \/ /\ is = "tool"
                    /\ asked' = [asked EXCEPT ![r] = [n EXCEPT !.pc = "act", !.answer = GuessedTool(x), !.left = AgentFiles]]
                    /\ UNCHANGED agentJob
    /\ NoEffect /\ UNCHANGED <<sessions, turns, unheard, disturbed, second, ticks>>

\* The answer leaves the loop after its job was saved.
answer_found(r) ==
    /\ asked[r].pc = "complete" /\ Goto(r, "user")
    /\ NoEffect /\ UNCHANGED <<sessions, agentJob, turns, unheard, disturbed, second, ticks>>

\* Out of rounds: a partial answer, and the job has failed.
max_iterations(r) ==
    /\ r.kind = "agent" /\ asked[r].pc = "think" /\ asked[r].iter >= r.max_iterations
    /\ asked' = [asked EXCEPT ![r].pc = "user", ![r].answer = "partial"]
    /\ agentJob' = [agentJob EXCEPT ![r] = "failed"]
    /\ NoEffect /\ UNCHANGED <<sessions, turns, unheard, disturbed, second, ticks>>

\* Faulty variant: a job that is completed is left as it is.
TimedOut_Kept(job) == IF job = "completed" THEN job ELSE "failed"
TimedOut(job) == "failed"
\* The time is up wherever the loop is; the tool it was in is cut short.
run_agent_query_timeout(r) ==
    /\ Working(r) /\ asked[r].age = 1
    /\ Failed(r) /\ agentJob' = [agentJob EXCEPT ![r] = TimedOut(@)]
    /\ NoEffect /\ UNCHANGED <<sessions, turns, unheard, disturbed, second, ticks>>

\* A text is cut at a byte that is not the end of a character and the request breaks: the question or what
\* the model or a tool said, logged or put into the next prompt, and a tool's result put into the session.
slice_panics(r) ==
    /\ r.kind = "agent"
    /\ asked[r].pc \in {"idle", "think", "tool_calls"} /\ (asked[r].pc = "think" => r.max_iterations > 0)
    /\ Goto(r, "panicked")
    /\ NoEffect /\ UNCHANGED <<sessions, agentJob, turns, unheard, disturbed, second, ticks>>

-----------------------------------------------------------------------------
(* The tools.                                                              *)

\* told: the changes the result names.
ToolCallRecord(tool, result, n, told) == [tool |-> tool, result |-> result, n |-> n, told |-> told]
\* Faulty variant: a call that failed is not recorded.
Recorded_Successes(calls, call) == IF call.result = "error" THEN calls ELSE Append(calls, call)
Recorded(calls, call) == Append(calls, call)
\* The result of a tool goes into the context of the next round and into the record; of a tool that fails
\* it is the error alone, whatever the tool did before.
ToolEnded(r, call) ==
    asked' = [asked EXCEPT ![r] = [asked[r] EXCEPT !.pc = "think", !.acc = {}, !.left = {}, !.answer = "none",
                                                   !.calls = Recorded(asked[r].calls, call)]]
tool_result(r, n, told) == ToolEnded(r, ToolCallRecord(asked[r].answer, "ok", n, told))
tool_error(r) == ToolEnded(r, ToolCallRecord(asked[r].answer, "error", 0, {}))
Acting(r, tool) == asked[r].pc = "act" /\ asked[r].answer = tool
ChangeOf(r, c) == [by |-> r, call |-> Len(asked[r].calls) + 1, item |-> c]
Change(r, c) == changes' = changes \cup {ChangeOf(r, c)}
NoAgentElse == UNCHANGED <<sessions, agentJob, turns, unheard, disturbed, second, ticks>>

\* A hit in the turns of the running session is no evidence for it.
drop_current_session_hits(hits, session) ==
    {h \in hits : ~(h.schema = "ai_conversations" /\ h.key.hash = session)}

resolve_api_key ==
    IF "saved" \in SearchKey THEN "saved" ELSE IF "environment" \in SearchKey THEN "environment" ELSE "none"

\* One piece of a page.  The end of a script or a style leaves the flag of the tag that opened it set,
\* so the text up to the next tag is lost, and a script that follows at once is taken for text.
Strip(acc, x) ==
    CASE acc.skip # "none" -> IF x.kind = "close" /\ x.name = acc.skip THEN [acc EXCEPT !.skip = "none"] ELSE acc
      [] acc.skip = "none" /\ x.kind = "text" -> IF acc.tag THEN acc ELSE [acc EXCEPT !.out = Append(@, x.name)]
      [] acc.skip = "none" /\ x.kind = "open" /\ x.name \in {"script", "style"} /\ ~acc.tag ->
            [acc EXCEPT !.skip = x.name, !.tag = TRUE]
      [] OTHER -> [acc EXCEPT !.tag = FALSE]
strip_html(body) == FoldLeft(Strip, [skip |-> "none", tag |-> FALSE, out |-> <<>>], body).out
Fetched(page) == page.ok /\ page.type \in {"html", "text", "json"}
fetch_url(page) ==
    LET text == IF page.type = "html" THEN strip_html(page.body) ELSE [i \in DOMAIN page.body |-> page.body[i].name]
    IN  IF Len(text) <= MAX_FETCH_CHARS THEN text ELSE SubSeq(text, 1, MAX_FETCH_CHARS) \o <<"TRUNCATED">>

MAX_TOOL_RECORDS == 50
Shown(n) == IF n <= MAX_TOOL_RECORDS THEN n ELSE MAX_TOOL_RECORDS
\* A reading tool: one of Ns is counted in its result, or it fails.
Tells(r, tool, Ns) ==
    /\ Acting(r, tool)
    /\ (\E n \in Ns : tool_result(r, n, {})) \/ tool_error(r)
    /\ NoEffect /\ NoAgentElse

\* The rows, at most the limit, with their references resolved.
tool_query(r) ==
    Tells(r, "query", {Shown(Cardinality(execute_query_json(s).records)) + Cardinality(execute_query_json(s).resolved) : s \in Names})
\* Each schema with its number of records, 0 when they cannot be counted.
tool_list_schemas(r) == Tells(r, "list_schemas", {Cardinality(list_schemas)})
tool_count_records(r) == Tells(r, "count_records", UNION {count_schema_records(s) : s \in Names})
tool_list_orgs(r) == Tells(r, "list_orgs", {0})
tool_get_schema(r) == Tells(r, "get_schema", {Cardinality(processor_resolve(s)) : s \in Names})
tool_search(r) == Tells(r, "search", {Cardinality(drop_current_session_hits(native_index_search(FALSE), r.session))})
tool_scan_folder(r) == Tells(r, "scan_folder", {Cardinality(AgentFiles)})
tool_discovery_status(r) == Tells(r, "discovery_status", {Cardinality(agentOptIns)})
tool_web_search(r) == Tells(r, "web_search", IF resolve_api_key = "none" THEN {} ELSE {0})
tool_fetch_url(r) == Tells(r, "fetch_url", {Len(fetch_url(p)) : p \in {x \in WebPage : Fetched(x)}})
ReadTools(r) ==
    \/ tool_query(r) \/ tool_list_schemas(r) \/ tool_count_records(r) \/ tool_list_orgs(r) \/ tool_get_schema(r)
    \/ tool_search(r) \/ tool_scan_folder(r) \/ tool_discovery_status(r) \/ tool_web_search(r) \/ tool_fetch_url(r)

\* The files one by one: one recorded as ingested is skipped, one may fail, after some of it was written,
\* and the results name each with what became of it.
FileDone(r, f, outcome) ==
    asked' = [asked EXCEPT ![r].left = @ \ {f}, ![r].acc = @ \cup {<<"file", f, outcome>>}]
ingest_files(r) ==
    /\ Acting(r, "ingest_files") /\ asked[r].left # {}
    /\ \E f \in asked[r].left :
          \/ f \in ingestedFiles /\ FileDone(r, f, "skipped") /\ UNCHANGED <<ingestedFiles, changes>>
          \/ /\ f \notin ingestedFiles /\ FileDone(r, f, "ingested")
             /\ ingestedFiles' = ingestedFiles \cup {f} /\ Change(r, <<"file", f, "ingested">>)
          \/ /\ f \notin ingestedFiles /\ FileDone(r, f, "failed") /\ UNCHANGED ingestedFiles
             /\ Change(r, <<"file", f, "failed">>) \/ UNCHANGED changes
    /\ UNCHANGED <<madeViews, agentOptIns, dataQueryVars>> /\ NoAgentElse
ingest_files_done(r) ==
    /\ Acting(r, "ingest_files") /\ asked[r].left = {}
    /\ tool_result(r, Cardinality({x \in asked[r].acc : x[3] # "failed"}), asked[r].acc)
    /\ NoEffect /\ NoAgentElse

\* A view is registered at the schema service, its code is fetched, and only then it is stored here.
register_transform(r) ==
    /\ Acting(r, "create_view") /\ asked[r].acc = {}
    /\ \/ /\ Schema_Service = "real"
          /\ madeViews' = madeViews \cup {<<"registered", r>>}
          /\ Change(r, <<"view", "registered">>)
          /\ asked' = [asked EXCEPT ![r].acc = {<<"view", "registered">>}]
       \/ tool_error(r) /\ UNCHANGED <<madeViews, changes>>
    /\ UNCHANGED <<ingestedFiles, agentOptIns, dataQueryVars>> /\ NoAgentElse
create_view(r) ==
    /\ Acting(r, "create_view") /\ asked[r].acc # {}
    /\ \/ /\ madeViews' = madeViews \cup {<<"stored", r>>}
          /\ Change(r, <<"view", "stored">>)
          /\ tool_result(r, 1, asked[r].acc \cup {<<"view", "stored">>})
       \/ tool_error(r) /\ UNCHANGED <<madeViews, changes>>
    /\ UNCHANGED <<ingestedFiles, agentOptIns, dataQueryVars>> /\ NoAgentElse

\* A tool that changes something and ends: its result names the change, an error does not.
Changed(r, c) == Change(r, c) /\ tool_result(r, 1, {c})
NoChange(r) == tool_error(r) /\ UNCHANGED changes

\* The opt-in is saved or removed; nothing is published and nothing published is taken back.
tool_discovery_opt_in(r) ==
    /\ Acting(r, "discovery_opt_in")
    /\ \/ \E s \in Names : agentOptIns' = agentOptIns \cup {s} /\ Changed(r, <<"opt_in", s>>)
       \/ NoChange(r) /\ UNCHANGED agentOptIns
    /\ UNCHANGED <<ingestedFiles, madeViews, dataQueryVars>> /\ NoAgentElse
tool_discovery_opt_out(r) ==
    /\ Acting(r, "discovery_opt_out")
    /\ \/ \E s \in Names : agentOptIns' = agentOptIns \ {s} /\ Changed(r, <<"opt_out", s>>)
       \/ NoChange(r) /\ UNCHANGED agentOptIns
    /\ UNCHANGED <<ingestedFiles, madeViews, dataQueryVars>> /\ NoAgentElse

\* The ingestion (modelled elsewhere) may fail after some of the records were written.
tool_ingest_json(r) ==
    /\ Acting(r, "ingest_json")
    /\ \/ Changed(r, <<"json", "all">>)
       \/ Change(r, <<"json", "part">>) /\ tool_error(r)
       \/ NoChange(r)
    /\ UNCHANGED <<ingestedFiles, madeViews, agentOptIns, dataQueryVars>> /\ NoAgentElse

\* A mutation of the owner; the values are not told apart, the author is.
tool_update_record(r) ==
    /\ Acting(r, "update_record")
    /\ \/ \E s \in Names : \E x \in rows[s] :
             /\ rows' = [rows EXCEPT ![s] = Applied(@, [key |-> x.key, vals |-> <<>>, type |-> "update"], OwnerKey)]
             /\ Changed(r, <<"record", s>>)
       \/ NoChange(r) /\ UNCHANGED rows
    /\ UNCHANGED <<ingestedFiles, madeViews, agentOptIns>> /\ NoAgentElse
    /\ UNCHANGED <<schemas, pager, written, edit, replies, ownerSet, overlapped>>
WriteTools(r) == tool_discovery_opt_in(r) \/ tool_discovery_opt_out(r) \/ tool_ingest_json(r) \/ tool_update_record(r)

Tools == {"query", "list_schemas", "count_records", "list_orgs", "get_schema", "search", "scan_folder", "discovery_status",
          "web_search", "fetch_url", "ingest_files", "create_view", "discovery_opt_in", "discovery_opt_out", "ingest_json",
          "update_record"}
\* The access tools are gone and other names are unknown.
unknown_tool(r) ==
    /\ asked[r].pc = "act" /\ asked[r].answer \notin Tools
    /\ tool_error(r)
    /\ NoEffect /\ NoAgentElse

-----------------------------------------------------------------------------
(* The search of the index, chat and follow-ups.                           *)

ai_native_index_query(r) ==
    /\ r.kind = "index" /\ asked[r].pc = "idle"
    /\ sessions' = create_or_get_session(r.session)
    /\ Goto(r, "search")
    /\ NoEffect /\ UNCHANGED <<agentJob, turns, unheard, disturbed, second, ticks>>

\* The turns kept are indexed as well.
TurnHits == {[schema |-> "ai_conversations", key |-> [hash |-> t.session, range |-> t.at], field |-> "answer",
              fragment |-> "none"] : t \in turns}
\* Records give the hits their values; a hit without one is dropped when its score is low.
hydrate_index_results(hits) ==
    {h \in hits : h.schema = "ai_conversations" \/ \E x \in rows[h.schema] : x.key = h.key /\ h.field \in DOMAIN x.vals}
drop_null_value_low_score_hits(hits) == {hydrate_index_results(hits), hits}
Truncated(hits) ==
    {T \in SUBSET hits : Cardinality(T) = IF Cardinality(hits) <= MAX_RAW_RESULTS_TO_AI THEN Cardinality(hits)
                                                                                       ELSE MAX_RAW_RESULTS_TO_AI}
search_native_index(session) ==
    {h \in drop_current_session_hits(Hit \cup TurnHits, session) :
        h.schema = "ai_conversations" \/ ~is_internal_index_schema(h.schema)}

\* The model makes the terms and, after the search, interprets the hits; both calls may fail.
index_search(r) ==
    /\ asked[r].pc = "search"
    /\ \/ Failed(r)
       \/ \E kept \in drop_null_value_low_score_hits(search_native_index(r.session)) :
             \E hits \in Truncated(kept) :
                asked' = [asked EXCEPT ![r].pc = "interpret", ![r].acc = hits]
    /\ NoEffect /\ NoAgentElse
interpret_native_index_results(r) ==
    /\ asked[r].pc = "interpret"
    /\ asked' = [asked EXCEPT ![r].pc = "results", ![r].answer = "interpretation"] \/ Failed(r)
    /\ NoEffect /\ NoAgentElse
store_results(r) ==
    /\ asked[r].pc = "results"
    /\ add_results(r, asked[r].acc)
    /\ asked' = [asked EXCEPT ![r].pc = "user", ![r].acc = {}]
    /\ NoEffect /\ UNCHANGED <<agentJob, turns, unheard, disturbed, second, ticks>>

\* Chat reads the session without using it; a follow-up only asks the model.
chat(r) ==
    /\ r.kind \in {"chat", "followup"} /\ asked[r].pc = "idle"
    /\ IF get_session_with_results(r.session) THEN Goto(r, "analyze") ELSE Failed(r)
    /\ NoEffect /\ NoAgentElse
analyze_followup_question(r) ==
    /\ asked[r].pc = "analyze"
    /\ Failed(r) \/ Goto(r, IF r.kind = "chat" THEN "question" ELSE "answered")
    /\ NoEffect /\ NoAgentElse
answer_question(r) ==
    /\ asked[r].pc = "question"
    /\ Failed(r) \/ asked' = [asked EXCEPT ![r].pc = "user", ![r].answer = "chat"]
    /\ NoEffect /\ NoAgentElse

\* User data comes in: a schema with rows is approved (the imports are modelled elsewhere).
first_ingestion ==
    /\ \A s \in Names \ {"ai_conversations"} : schemas[s].state = "available"
    /\ \E s \in {x \in Names \ {"ai_conversations"} : SchemaDef[x].label \notin PHASE_1_DESCRIPTIVE_NAMES} :
          schemas' = [schemas EXCEPT ![s].state = "approved"]
    /\ UNCHANGED <<asked, ingestedFiles, agentOptIns, madeViews, changes>> /\ NoAgentElse
    /\ UNCHANGED <<rows, pager, written, edit, replies, ownerSet, overlapped>>

AskNext(r) ==
    \/ agent_query(r) \/ call_llm(r) \/ answer_found(r) \/ max_iterations(r) \/ run_agent_query_timeout(r)
    \/ ReadTools(r) \/ WriteTools(r) \/ ingest_files(r) \/ ingest_files_done(r) \/ register_transform(r) \/ create_view(r)
    \/ unknown_tool(r) \/ slice_panics(r)
    \/ ai_native_index_query(r) \/ index_search(r) \/ interpret_native_index_results(r) \/ store_results(r)
    \/ chat(r) \/ analyze_followup_question(r) \/ answer_question(r)
    \/ tell_session(r) \/ save_conversation_turn(r)
AgentNext(cast) == tick \/ clock_set \/ first_ingestion \/ \E r \in cast : AskNext(r)
\* All requests, interleaved with the other uses of the data.
AgentSpec ==
    /\ AgentInit /\ DataQueryInit
    /\ [][AgentNext(Ask) \/ ((QueryNext \/ ListingNext \/ SchemaNext) /\ UNCHANGED agentVars)]_<<agentVars, dataQueryVars>>

-----------------------------------------------------------------------------
(* Every message of an answered agent request gets into its session: the   *)
(* session cannot be dropped as expired while the agent is at work,        *)
(* whatever other requests come in between, unless the wall clock is set   *)
(* meanwhile (session.rs, TTL against AGENT_QUERY_TIMEOUT).                *)
TurnRemembered == \A r \in unheard : r.kind = "agent" => r \in disturbed

(* An answer hides no change: whatever a tool changed, the call that did   *)
(* it is among the tool calls returned, and its result names the change or *)
(* is an error.  An error does not name what was done before it: a view    *)
(* registered but not stored, a part of the JSON (run_agent_query_inner).  *)
ToldPcs == {"user", "tool_calls", "assistant", "save", "answered"}
CallsTold ==
    \A c \in changes : asked[c.by].pc \in ToldPcs =>
        LET calls == asked[c.by].calls
        IN  c.call \in DOMAIN calls /\ (c.item \in calls[c.call].told \/ calls[c.call].result = "error")

(* The job of an agent request agrees with what its caller is told: it is  *)
(* completed for a final answer, failed for a partial one, and never       *)
(* completed for a caller that got an error.  A request that breaks leaves *)
(* its caller without an answer, and then its job is completed only when   *)
(* the final answer had been found (run_agent_query, its timeout and the   *)
(* summary of the tool calls).                                             *)
JobTellsOutcome ==
    \A r \in Ask : r.kind = "agent" =>
        /\ asked[r].pc \in ToldPcs =>
              (asked[r].answer = "final" => agentJob[r] = "completed") /\ (asked[r].answer = "partial" => agentJob[r] = "failed")
        /\ asked[r].pc = "error" => agentJob[r] # "completed"
        /\ asked[r].pc = "panicked" /\ agentJob[r] = "completed" => asked[r].answer = "final"

(* "Store a summary of tool calls so future turns know what happened"      *)
(* (agent_query): a request whose job is completed does not end, while its *)
(* session lives, without the summary of its tool calls in it.             *)
TurnsKnowWhatHappened ==
    \A r \in Ask :
        r.kind = "agent" /\ agentJob[r] = "completed" /\ asked[r].pc \in {"answered", "panicked"} /\ asked[r].calls # <<>>
        /\ sessions[r.session].open => \E i \in DOMAIN sessions[r.session].history :
                                            sessions[r.session].history[i] = <<"tool_calls", r>>
==============================================================================
