-------------------------- MODULE FingerprintGraph --------------------------
(***************************************************************************)
(* The fingerprint graph: extraction of signals from texts, contacts and   *)
(* faces into planned records, the writer that stores them one by one, the *)
(* in-memory index of faces and the similarity edges found with it, the    *)
(* resolver that walks the graph for a persona while writers are at work,  *)
(* the sweep that proposes personas, and the rows of failed ingestions.    *)
(*                                                                         *)
(* Identifiers are deterministic in the code (hashes of their contents),   *)
(* so a fingerprint stands for its canonical value, an edge for its two    *)
(* ends and its kind, a mention for its source and extractor.  Weights and *)
(* similarities are thousandths.                                           *)
(***************************************************************************)
EXTENDS Integers, FiniteSets, Sequences, SequencesExt, FiniteSetsExt

CONSTANTS
    Job,          \* batches of sources to ingest
    Kind,         \* Kind[j]: "text", "hook", "contacts" or "photo"
    Items,        \* Items[j]: its sources, [src, schema, signals, expected]
    Token,        \* Token[t]: [class, fp, shared], what a piece of text is
    Sim,          \* Sim[f][g]: similarity of two faces
    Unindexable,  \* faces whose embedding has no length
    Malformed,    \* faces with an empty or non-finite embedding
    Spec0,        \* the persona that is resolved: [seeds, threshold, excludedEdges, excludedMentions, includedMentions]
    K,            \* NEIGHBOR_QUERY_K
    MinFingerprints, MinMentions,   \* MIN_FINGERPRINTS, MIN_MENTIONS
    Workload      \* what may run together: [jobs, resolve, sweep, crashes]

ASSUME GraphAssumption ==
    /\ {K, MinFingerprints, MinMentions} \subseteq Nat
    /\ \A w \in Workload : w.jobs \subseteq Job /\ w.crashes \in Nat

VARIABLES
    load,         \* the workload of this behaviour
    graph,        \* stored records, <<schema, key...>>
    weight,       \* weight of every stored edge
    bounds,       \* history: the edges that passed throughout a resolution, and at some time in it
    installed,   \* the canonical names of the schemas are installed
    batch,          \* job[j]: [pc, item, plan, faces, news, snapshot, written, stale, seen, crowded]
    annCache,     \* entries of the face index: how often each face is in it
    cacheReady,   \* CACHE_INITIALIZED
    cacheLock,    \* the job that holds CACHE_INIT_LOCK, or "free"
    errors,       \* error rows: <<source, extractor, resolved>>
    resolving,    \* a resolve_ingestion_error that has read its row
    resolver,     \* the resolution of the persona
    personas,     \* personas: [seeds, by]
    sweep,        \* sweep[j]: the sweep that job j spawned
    recentSweep,  \* LAST_SWEEP_MS is less than DEBOUNCE_MS ago
    crashes       \* crashes left

graphVars == <<load, graph, weight, bounds, installed, batch, annCache, cacheReady, cacheLock, errors,
               resolving, resolver, personas, sweep, recentSweep, crashes>>
jobVars == <<graph, weight, bounds, batch, annCache, cacheReady, cacheLock, errors, sweep>>
readVars == <<resolver, personas, recentSweep, resolving>>

-----------------------------------------------------------------------------
(* Keys and planned records.                                               *)

edge_id(a, b, kind) == [ends |-> {a, b}, kind |-> kind]

fingerprint_record(fp) == <<"Fingerprint", fp>>
extraction_status_id(src) == <<"ExtractionStatus", src>>
deterministic_mention_id(src) == <<"Mention", src>>
mention_by_source(src) == <<"MentionBySource", src>>
mention_by_fingerprint(fp, src) == <<"MentionByFingerprint", fp, src>>

\* Faulty variant: the rows before the edge they lead to.
EdgeRecords_RowsFirst(a, b, kind, w) ==
    << <<"EdgeByFingerprint", a, edge_id(a, b, kind)>>,
       <<"EdgeByFingerprint", b, edge_id(a, b, kind)>>,
       <<"Edge", edge_id(a, b, kind), w>> >>
\* An edge, then the two rows that lead to it.
EdgeRecords(a, b, kind, w) ==
    << <<"Edge", edge_id(a, b, kind), w>>,
       <<"EdgeByFingerprint", a, edge_id(a, b, kind)>>,
       <<"EdgeByFingerprint", b, edge_id(a, b, kind)>> >>

unique(s) == FoldLeft(LAMBDA acc, x : IF x \in ToSet(acc) THEN acc ELSE Append(acc, x), <<>>, s)

\* What the three extractors plan alike: mention and junctions of the
\* distinct fingerprints, and an edge for every pair of them.
MentionRecords(src, fps) ==
    <<deterministic_mention_id(src), mention_by_source(src)>>
    \o [i \in DOMAIN fps |-> mention_by_fingerprint(fps[i], src)]
PairRecords(fps, kind, w) ==
    FlattenSeq([i \in DOMAIN fps |->
        FlattenSeq([k \in 1..(Len(fps) - i) |-> EdgeRecords(fps[i], fps[i + k], kind, w[{fps[i], fps[i + k]}])])])
FingerprintRecords(fps) == [i \in DOMAIN fps |-> fingerprint_record(fps[i])]

-----------------------------------------------------------------------------
(* Texts.                                                                  *)

STRONG_BINDING_SCHEMAS == {"Contacts", "AppleContacts", "CalendarEvent"}
binding_for_schema(schema) == IF schema \in STRONG_BINDING_SCHEMAS THEN "Strong" ELSE "CoOccurrence"
edge_params(binding) == IF binding = "Strong" THEN <<"StrongMatch", 950>> ELSE <<"CoOccurrence", 300>>

classify_email_strength(t) == IF Token[t].class = "email" /\ Token[t].shared THEN 500 ELSE 1000

\* Emails, then phone numbers that are long enough, then names that are no
\* known phrase.
extract_signals(text) ==
    LET of(class) == SelectSeq(text, LAMBDA t : Token[t].class = class)
    IN  of("email") \o of("phone") \o of("name")

\* The strength of a fingerprint is that of its first signal.
StrengthOf(signals, fp) ==
    classify_email_strength(signals[Min({i \in DOMAIN signals : Token[signals[i]].fp = fp})])

plan_text_extraction(item, binding) ==
    LET signals == extract_signals(item.signals)
        fps == unique([i \in DOMAIN signals |-> Token[signals[i]].fp])
        params == edge_params(binding)
        w == [ab \in kSubset(2, ToSet(fps)) |->
                (params[2] * Min({StrengthOf(signals, fp) : fp \in ab})) \div 1000]
    IN  <<extraction_status_id(item.src)>>
        \o (IF signals = <<>> THEN <<>>
            ELSE FingerprintRecords(fps) \o MentionRecords(item.src, fps) \o PairRecords(fps, params[1], w))

\* run_after_batch: rows of the graph's own schemas and rows without text
\* are passed over; the binding comes from the schema.
is_system_descriptive_schema(schema) == schema \in {"Fingerprint", "Mention", "Edge", "Persona"}
collect_string_fields(item) == item.signals
run_after_batch(item) ==
    IF is_system_descriptive_schema(item.schema) \/ collect_string_fields(item) = <<>> THEN <<>>
    ELSE plan_text_extraction(item, binding_for_schema(item.schema))

-----------------------------------------------------------------------------
(* Contacts: name, key and hint of every active contact, all in one plan.  *)

contact_records(item) ==
    LET fps == unique([i \in DOMAIN item.signals |-> Token[item.signals[i]].fp])
        w == [ab \in kSubset(2, ToSet(fps)) |-> 500]
    IN  FingerprintRecords(fps) \o <<extraction_status_id(item.src)>>
        \o MentionRecords(item.src, fps) \o PairRecords(fps, "CoOccurrence", w)

import_contacts(items) == FlattenSeq([i \in DOMAIN items |-> contact_records(items[i])])

-----------------------------------------------------------------------------
(* Faces.                                                                  *)

validate_face_inputs(faces) == ToSet(faces) \cap Malformed = {}

plan_face_extraction(item) ==
    LET fps == unique(item.signals)
        w == [ab \in kSubset(2, ToSet(fps)) |-> 200]
    IN  <<extraction_status_id(item.src)>>
        \o (IF item.signals = <<>> THEN <<>>
            ELSE FingerprintRecords(item.signals) \o MentionRecords(item.src, fps)
                 \o PairRecords(fps, "CoOccurrence", w))

MIN_SIMILARITY_EDGE == 850
STRONG_MATCH_CUTOFF == 950

\* The records for the hits of one face.
similarity_records(face, hits) ==
    LET far == {h \in hits : h # face /\ Sim[face][h] >= MIN_SIMILARITY_EDGE}
        kind(h) == IF Sim[face][h] >= STRONG_MATCH_CUTOFF THEN "StrongMatch" ELSE "MediumMatch"
        s == SetToSeq(far)
    IN  FlattenSeq([i \in DOMAIN s |-> EdgeRecords(face, s[i], kind(s[i]), Sim[face][s[i]])])

Face == DOMAIN Sim
StoredFaces == {f \in Face \ Unindexable : fingerprint_record(f) \in graph}

\* nearest: K entries of the index with none left out nearer than one taken;
\* a face that is in the index twice takes two places.
nearest(face) ==
    LET entries == {<<f, i>> \in Face \X (1..4) : i <= annCache[f]}
        taken == kSubset(Min({K, Cardinality(entries)}), entries)
    IN  {T \in taken : \A e \in T, x \in entries \ T : Sim[face][e[1]] >= Sim[face][x[1]]}

-----------------------------------------------------------------------------
(* A batch.  Each item is planned, its records are written, and for photos *)
(* the similarity edges follow.  A failed item does not stop the batch.    *)

IdleJob == [pc |-> "idle", item |-> 1, plan |-> <<>>, faces |-> <<>>, news |-> <<>>, snapshot |-> {},
            written |-> FALSE, stale |-> FALSE, failed |-> {}, seen |-> {}, crowded |-> {}]

Finished(j) == batch[j].pc = "done"
ItemOf(j) == Items[j][batch[j].item]

GraphInit ==
    /\ load \in Workload
    /\ graph = {} /\ weight = <<>> /\ bounds = [low |-> {}, high |-> {}] /\ installed = FALSE
    /\ batch = [j \in Job |-> IdleJob]
    /\ annCache = [f \in Face |-> 0] /\ cacheReady = FALSE /\ cacheLock = "free"
    /\ errors = {} /\ resolving = <<>>
    /\ resolver = [pc |-> "idle"]
    /\ personas = {}
    /\ sweep = [j \in Job |-> [pc |-> "none"]]
    /\ recentSweep = FALSE
    /\ crashes = load.crashes

\* register_phase_1_schemas: looks the built-in schemas up, loads and
\* approves them, and installs their names.
register_phase_1_schemas ==
    /\ ~installed
    /\ installed' = TRUE
    /\ UNCHANGED <<load, jobVars, readVars, crashes>>

\* lookup: the name of a built-in schema is known only once they are installed.
lookup == installed

PlanOf(j, i) ==
    CASE Kind[j] = "text"     -> plan_text_extraction(Items[j][i], "CoOccurrence")
      [] Kind[j] = "hook"     -> run_after_batch(Items[j][i])
      [] Kind[j] = "contacts" -> import_contacts(Items[j])
      [] OTHER                -> plan_face_extraction(Items[j][i])

\* Where a batch goes when item i is through: the next item, or its end,
\* with a sweep if it wrote anything.
LastItem(j, i) == Kind[j] = "contacts" \/ i = Len(Items[j])
NextItem(j, r) ==
    IF LastItem(j, r.item) THEN [r EXCEPT !.pc = "done", !.plan = <<>>, !.faces = <<>>, !.news = <<>>]
    ELSE [r EXCEPT !.pc = "plan", !.item = @ + 1, !.plan = <<>>, !.faces = <<>>, !.news = <<>>]
SpawnedBy(j, r) ==
    IF NextItem(j, r).pc = "done" /\ r.written /\ load.sweep THEN [sweep EXCEPT ![j].pc = "spawned"] ELSE sweep
EndItem(j, r) == batch' = [batch EXCEPT ![j] = NextItem(j, r)] /\ sweep' = SpawnedBy(j, r)

start_batch(j) ==
    /\ j \in load.jobs /\ batch[j].pc = "idle"
    /\ batch' = [batch EXCEPT ![j].pc = "plan", ![j].seen = {i \in Job : Finished(i)}]
    /\ UNCHANGED <<load, graph, weight, bounds, installed, annCache, cacheReady, cacheLock, errors, sweep, readVars, crashes>>

\* write_ingestion_error: one row for a source and extractor, again open;
\* its own failure is only logged.
write_ingestion_error(src, extractor) ==
    \/ errors' = {e \in errors : e[1] # src \/ e[2] # extractor} \cup {<<src, extractor, FALSE>>}
    \/ UNCHANGED errors

plan_item(j) ==
    /\ batch[j].pc = "plan"
    /\ IF Kind[j] = "photo" /\ ~validate_face_inputs(ItemOf(j).signals)
       THEN /\ EndItem(j, [batch[j] EXCEPT !.failed = @ \cup {batch[j].item}])
            /\ write_ingestion_error(ItemOf(j).src, "face_detect")
       ELSE /\ LET plan == PlanOf(j, batch[j].item)
               IN  IF plan = <<>> THEN EndItem(j, batch[j])
                   ELSE /\ batch' = [batch EXCEPT ![j].pc = "write", ![j].plan = plan]
                        /\ UNCHANGED sweep
            /\ UNCHANGED errors
    /\ UNCHANGED <<load, graph, weight, bounds, installed, annCache, cacheReady, cacheLock, readVars, crashes>>

Stored(r) == IF r[1] = "Edge" THEN <<r[1], r[2]>> ELSE r
Weighted(r) ==
    IF r[1] = "Edge" THEN [e \in DOMAIN weight \cup {r[2]} |-> IF e = r[2] THEN r[3] ELSE weight[e]]
    ELSE weight

\* The edges the resolver follows.
Passing(w) == {e \in DOMAIN w : /\ e \notin Spec0.excludedEdges
                                /\ e.kind # "UserForbidden"
                                /\ w[e] >= Spec0.threshold}

\* execute_mutation of one record: written, over what was there.
WriteGraphRecord(r) ==
    /\ graph' = graph \cup {Stored(r)}
    /\ weight' = Weighted(r)
    /\ bounds' = [low |-> bounds.low \cap Passing(weight'), high |-> bounds.high \cup Passing(weight')]

\* emit_zero_yield_meta_error, for a source that was to yield something.
ZeroYield(j) == Kind[j] \in {"text", "photo"} /\ ItemOf(j).expected /\ Len(PlanOf(j, batch[j].item)) = 1

\* What counts as written; the hook counts only rows that yielded signals.
Yields(j) == Kind[j] # "hook" \/ Len(PlanOf(j, batch[j].item)) > 1

\* The item is stored: photos go on to their similarity edges.
StoredItem(j, r) ==
    IF Kind[j] = "photo" /\ ItemOf(j).signals # <<>>
    THEN /\ batch' = [batch EXCEPT ![j] = [r EXCEPT !.pc = "cache", !.faces = ItemOf(j).signals]]
         /\ UNCHANGED <<sweep, errors>>
    ELSE /\ EndItem(j, r)
         /\ IF ZeroYield(j) THEN write_ingestion_error(ItemOf(j).src, "meta_zero_yield") ELSE UNCHANGED errors

\* write_records, one record at a time.  Without the canonical names, or
\* when the store refuses, the item fails with what was written in place; a
\* photo leaves an error row.
write_record(j) ==
    /\ batch[j].pc = "write"
    /\ \/ /\ lookup
          /\ WriteGraphRecord(Head(batch[j].plan))
          /\ LET r == [batch[j] EXCEPT !.plan = Tail(@)]
             IN  IF r.plan = <<>> THEN StoredItem(j, [r EXCEPT !.written = @ \/ Yields(j)])
                 ELSE batch' = [batch EXCEPT ![j] = r] /\ UNCHANGED <<sweep, errors>>
       \/ /\ EndItem(j, [batch[j] EXCEPT !.failed = @ \cup {batch[j].item}])
          /\ IF Kind[j] = "photo" THEN write_ingestion_error(ItemOf(j).src, "face_detect") ELSE UNCHANGED errors
          /\ UNCHANGED <<graph, weight, bounds>>
    /\ UNCHANGED <<load, installed, annCache, cacheReady, cacheLock, readVars, crashes>>

\* The similarity edges failed: the photo still counts as ingested.
Stale(j) == EndItem(j, [batch[j] EXCEPT !.stale = TRUE])

\* ensure_cache_ready: an initialised index is used as it is; otherwise the
\* first job to get the lock rebuilds it and the others wait.
ensure_cache_ready(j) ==
    /\ batch[j].pc = "cache"
    /\ \/ /\ cacheReady
          /\ batch' = [batch EXCEPT ![j].pc = "search"]
          /\ UNCHANGED <<cacheLock, sweep>>
       \/ /\ ~cacheReady /\ cacheLock = "free"
          /\ \/ /\ lookup
                /\ cacheLock' = j
                /\ batch' = [batch EXCEPT ![j].pc = "rebuild", ![j].snapshot = StoredFaces]
                /\ UNCHANGED sweep
             \/ Stale(j) /\ UNCHANGED cacheLock
    /\ UNCHANGED <<load, graph, weight, bounds, installed, annCache, cacheReady, errors, readVars, crashes>>

\* rebuild_from_store and replace_all.
rebuild_from_store(j) ==
    /\ batch[j].pc = "rebuild"
    /\ annCache' = [f \in Face |-> IF f \in batch[j].snapshot THEN 1 ELSE 0]
    /\ cacheReady' = TRUE /\ cacheLock' = "free"
    /\ batch' = [batch EXCEPT ![j].pc = "search", ![j].snapshot = {}]
    /\ UNCHANGED <<load, graph, weight, bounds, installed, errors, sweep, readVars, crashes>>

\* One face: its neighbours are looked up before it is added.
search_face(j) ==
    /\ batch[j].pc = "search"
    /\ LET face == Head(batch[j].faces)
       IN  IF face \in Unindexable
           THEN batch' = [batch EXCEPT ![j].pc = "add"]
           ELSE \E hits \in nearest(face) :
                   batch' = [batch EXCEPT ![j].pc = "add",
                                      ![j].news = @ \o similarity_records(face, {h[1] : h \in hits}),
                                      ![j].crowded = IF Cardinality(hits) = K THEN @ \cup {face} ELSE @]
    /\ UNCHANGED <<load, graph, weight, bounds, installed, annCache, cacheReady, cacheLock, errors, sweep, readVars, crashes>>

\* The face joins the index.  After the last one the edges are written.
add_face(j) ==
    /\ batch[j].pc = "add"
    /\ LET face == Head(batch[j].faces)
           r == [batch[j] EXCEPT !.faces = Tail(@)]
       IN  /\ annCache' = IF face \in Unindexable THEN annCache ELSE [annCache EXCEPT ![face] = @ + 1]
           /\ IF r.faces # <<>> THEN batch' = [batch EXCEPT ![j] = [r EXCEPT !.pc = "search"]] /\ UNCHANGED sweep
              ELSE IF r.news # <<>> THEN batch' = [batch EXCEPT ![j] = [r EXCEPT !.pc = "link"]] /\ UNCHANGED sweep
              ELSE EndItem(j, r)
    /\ UNCHANGED <<load, graph, weight, bounds, installed, cacheReady, cacheLock, errors, readVars, crashes>>

emit_similarity_edges_for_faces(j) ==
    /\ batch[j].pc = "link"
    /\ \/ /\ WriteGraphRecord(Head(batch[j].news))
          /\ LET r == [batch[j] EXCEPT !.news = Tail(@)]
             IN  IF r.news = <<>> THEN EndItem(j, r)
                 ELSE batch' = [batch EXCEPT ![j] = r] /\ UNCHANGED sweep
       \/ Stale(j) /\ UNCHANGED <<graph, weight, bounds>>
    /\ UNCHANGED <<load, installed, annCache, cacheReady, cacheLock, errors, readVars, crashes>>

\* Faulty variant: the index counts as initialised after a restart.
Restart_KeepsReady ==
    /\ crashes > 0
    /\ crashes' = crashes - 1
    /\ batch' = [j \in Job |-> IF batch[j].pc \in {"idle", "done", "lost"} THEN batch[j]
                             ELSE [IdleJob EXCEPT !.pc = "lost"]]
    /\ installed' = FALSE
    /\ annCache' = [f \in Face |-> 0] /\ cacheLock' = "free"
    /\ sweep' = [j \in Job |-> [pc |-> "none"]] /\ recentSweep' = FALSE
    /\ resolver' = [pc |-> "idle"] /\ resolving' = <<>>
    /\ UNCHANGED <<load, graph, weight, bounds, errors, personas, cacheReady>>
\* The process ends and starts anew: batches, sweeps and resolutions under
\* way are gone, the index and the names are empty; the store remains.
GraphRestart ==
    /\ crashes > 0
    /\ crashes' = crashes - 1
    /\ batch' = [j \in Job |-> IF batch[j].pc \in {"idle", "done", "lost"} THEN batch[j]
                             ELSE [IdleJob EXCEPT !.pc = "lost"]]
    /\ installed' = FALSE
    /\ annCache' = [f \in Face |-> 0] /\ cacheReady' = FALSE /\ cacheLock' = "free"
    /\ sweep' = [j \in Job |-> [pc |-> "none"]] /\ recentSweep' = FALSE
    /\ resolver' = [pc |-> "idle"] /\ resolving' = <<>>
    /\ UNCHANGED <<load, graph, weight, bounds, errors, personas>>

-----------------------------------------------------------------------------
(* Error rows.                                                             *)

list_ingestion_errors(include_resolved) == {e \in errors : include_resolved \/ ~e[3]}

\* resolve_ingestion_error reads the row and writes it back resolved.
resolve_read ==
    /\ resolving = <<>>
    /\ \E e \in list_ingestion_errors(FALSE) : resolving' = e
    /\ UNCHANGED <<load, jobVars, installed, resolver, personas, recentSweep, crashes>>
resolve_ingestion_error ==
    /\ resolving # <<>>
    /\ errors' = {e \in errors : e[1] # resolving[1] \/ e[2] # resolving[2]}
                 \cup {<<resolving[1], resolving[2], TRUE>>}
    /\ resolving' = <<>>
    /\ UNCHANGED <<load, graph, weight, bounds, batch, annCache, cacheReady, cacheLock, sweep, installed,
                   resolver, personas, recentSweep, crashes>>

-----------------------------------------------------------------------------
(* The resolver.  It pops a fingerprint, reads the edges that touch it,    *)
(* fetches them one at a time, and at the end reads the mentions of every  *)
(* fingerprint it visited; writers go on in between.  Its queue is a stack *)
(* filled in the order of the store, which is taken as any order.          *)

fingerprint_exists(fp) == fingerprint_record(fp) \in graph
edge_ids_touching(fp) == {r[3] : r \in {x \in graph : x[1] = "EdgeByFingerprint" /\ x[2] = fp}}
mention_ids_touching(fp) == {r[3] : r \in {x \in graph : x[1] = "MentionByFingerprint" /\ x[2] = fp}}
fetch_edge(e) == <<"Edge", e>> \in graph
other_endpoint(e, fp) == e.ends \ {fp}

resolve ==
    /\ load.resolve /\ lookup
    /\ resolver.pc = "idle"
    /\ resolver' = [pc |-> "walk", queue |-> Spec0.seeds, edges |-> {}, at |-> "",
                    visited |-> {}, visitedEdges |-> {}, mentions |-> {}, todo |-> {},
                    missing |-> {}, dangling |-> {}, filtered |-> FALSE, start |-> graph]
    /\ bounds' = [low |-> Passing(weight), high |-> Passing(weight)]
    /\ UNCHANGED <<load, graph, weight, batch, annCache, cacheReady, cacheLock, errors, sweep, installed, personas, recentSweep, resolving, crashes>>

\* fingerprint_exists and edge_ids_touching.  A stored fingerprint stays
\* stored, so that both reads may be taken at the time of the second.
visit_fingerprint ==
    /\ resolver.pc = "walk" /\ resolver.edges = {}
    /\ \E fp \in resolver.queue :
          LET q == [resolver EXCEPT !.queue = @ \ {fp}]
          IN  resolver' = IF fp \in q.visited THEN q
                          ELSE IF ~fingerprint_exists(fp) THEN [q EXCEPT !.missing = @ \cup {fp}]
                          ELSE [q EXCEPT !.visited = @ \cup {fp}, !.at = fp,
                                         !.edges = edge_ids_touching(fp) \ q.visitedEdges]
    /\ UNCHANGED <<load, jobVars, installed, personas, recentSweep, resolving, crashes>>

\* Faulty variant: forbidden edges and edges below the threshold are followed.
FollowEdge_All(q, e) ==
    IF e \in Spec0.excludedEdges THEN [q EXCEPT !.filtered = TRUE]
    ELSE IF ~fetch_edge(e) THEN [q EXCEPT !.dangling = @ \cup {e}]
    ELSE [q EXCEPT !.visitedEdges = @ \cup {e}, !.queue = @ \cup (other_endpoint(e, q.at) \ q.visited)]
\* One edge of the fingerprint at hand.
FollowEdge(q, e) ==
    IF e \in Spec0.excludedEdges THEN [q EXCEPT !.filtered = TRUE]
    ELSE IF ~fetch_edge(e) THEN [q EXCEPT !.dangling = @ \cup {e}]
    ELSE IF e \notin Passing(weight) THEN [q EXCEPT !.filtered = TRUE]
    ELSE [q EXCEPT !.visitedEdges = @ \cup {e}, !.queue = @ \cup (other_endpoint(e, q.at) \ q.visited)]

follow_edge ==
    /\ resolver.pc = "walk"
    /\ \E e \in resolver.edges : resolver' = FollowEdge([resolver EXCEPT !.edges = @ \ {e}], e)
    /\ UNCHANGED <<load, jobVars, installed, personas, recentSweep, resolving, crashes>>

end_walk ==
    /\ resolver.pc = "walk" /\ resolver.queue = {} /\ resolver.edges = {}
    /\ resolver' = [resolver EXCEPT !.pc = "mentions", !.todo = resolver.visited]
    /\ UNCHANGED <<load, jobVars, installed, personas, recentSweep, resolving, crashes>>

collect_mentions ==
    /\ resolver.pc = "mentions"
    /\ \/ \E fp \in resolver.todo :
             resolver' = [resolver EXCEPT !.todo = @ \ {fp},
                                          !.mentions = @ \cup (mention_ids_touching(fp) \ Spec0.excludedMentions),
                                          !.filtered = @ \/ mention_ids_touching(fp) \cap Spec0.excludedMentions # {}]
       \/ /\ resolver.todo = {}
          /\ resolver' = [resolver EXCEPT !.pc = "done", !.mentions = @ \cup Spec0.includedMentions]
    /\ UNCHANGED <<load, jobVars, installed, personas, recentSweep, resolving, crashes>>

is_clean == resolver.missing = {} /\ resolver.dangling = {} /\ ~resolver.filtered

\* get_persona: the resolved ids that still have a record.
fetch_fingerprint_views == {fp \in resolver.visited : fingerprint_exists(fp)}
fetch_edge_views == {e \in resolver.visitedEdges : fetch_edge(e)}
fetch_mention_views == {m \in resolver.mentions : deterministic_mention_id(m) \in graph}

-----------------------------------------------------------------------------
(* The sweep.                                                              *)

MIN_EDGE_WEIGHT == 850

\* What can be reached from a set of fingerprints over edges E, by the rows
\* of a graph, in at most n rounds.
Reach(from, fps, E, rows) ==
    LET r[n \in 0..Cardinality(fps)] ==
          IF n = 0 THEN from \cap fps
          ELSE r[n - 1] \cup ((UNION {e.ends : e \in {x \in E : \E fp \in r[n - 1] : <<"EdgeByFingerprint", fp, x>> \in rows}})
                              \cap fps)
    IN  r[Cardinality(fps)]

load_all_fingerprint_ids == {r[2] : r \in {x \in graph : x[1] = "Fingerprint"}}
load_persona_seed_sets == {p.seeds : p \in personas} \ {{}}

Linking == {e \in DOMAIN weight : e.kind # "UserForbidden" /\ weight[e] >= MIN_EDGE_WEIGHT}
walk_component(fp) == Reach({fp}, load_all_fingerprint_ids, Linking, graph)
count_component_mentions(C) == Cardinality(UNION {mention_ids_touching(fp) : fp \in C})
component_covered(C, seeds) == \E s \in seeds : s \subseteq C

list_suggested_personas(fps, seeds) ==
    {C \in {walk_component(fp) : fp \in fps} :
        /\ Cardinality(C) >= MinFingerprints
        /\ ~component_covered(C, seeds)
        /\ count_component_mentions(C) >= MinMentions}

\* run_sweep_and_create_personas: skipped if one ran within the debounce
\* time, else the slot is taken before the sweep runs.
sweep_claim(j) ==
    /\ sweep[j].pc = "spawned"
    /\ sweep' = [sweep EXCEPT ![j] = IF recentSweep THEN [pc |-> "done"] ELSE [pc |-> "claimed"]]
    /\ recentSweep' = TRUE
    /\ UNCHANGED <<load, graph, weight, bounds, batch, annCache, cacheReady, cacheLock, errors, installed,
                   resolver, personas, resolving, crashes>>

sweep_load(j) ==
    /\ sweep[j].pc = "claimed"
    /\ \/ /\ lookup
          /\ sweep' = [sweep EXCEPT ![j] = [pc |-> "walk", fps |-> load_all_fingerprint_ids,
                                            seeds |-> load_persona_seed_sets]]
       \/ sweep' = [sweep EXCEPT ![j] = [pc |-> "done"]]
    /\ UNCHANGED <<load, graph, weight, bounds, batch, annCache, cacheReady, cacheLock, errors, installed, readVars, crashes>>

sweep_walk(j) ==
    /\ sweep[j].pc = "walk"
    /\ sweep' = [sweep EXCEPT ![j] = [pc |-> "create",
                                      found |-> list_suggested_personas(sweep[j].fps, sweep[j].seeds)]]
    /\ UNCHANGED <<load, graph, weight, bounds, batch, annCache, cacheReady, cacheLock, errors, installed, readVars, crashes>>

\* One tentative persona for each suggestion; a failure is logged.
run_sweep_and_create_personas(j) ==
    /\ sweep[j].pc = "create"
    /\ \/ \E C \in sweep[j].found :
             /\ sweep' = [sweep EXCEPT ![j].found = @ \ {C}]
             /\ \/ personas' = personas \cup {[seeds |-> C, by |-> j]}
                \/ UNCHANGED personas
       \/ /\ sweep[j].found = {}
          /\ sweep' = [sweep EXCEPT ![j] = [pc |-> "done"]]
          /\ UNCHANGED personas
    /\ UNCHANGED <<load, graph, weight, bounds, batch, annCache, cacheReady, cacheLock, errors, installed,
                   resolver, recentSweep, resolving, crashes>>

DebouncePasses ==
    /\ recentSweep
    /\ recentSweep' = FALSE
    /\ UNCHANGED <<load, jobVars, installed, resolver, personas, resolving, crashes>>

-----------------------------------------------------------------------------
GraphNext ==
    \/ register_phase_1_schemas
    \/ \E j \in Job :
         \/ start_batch(j) \/ plan_item(j) \/ write_record(j)
         \/ ensure_cache_ready(j) \/ rebuild_from_store(j)
         \/ search_face(j) \/ add_face(j) \/ emit_similarity_edges_for_faces(j)
         \/ sweep_claim(j) \/ sweep_load(j) \/ sweep_walk(j) \/ run_sweep_and_create_personas(j)
    \/ GraphRestart \/ DebouncePasses
    \/ resolve_read \/ resolve_ingestion_error
    \/ resolve \/ visit_fingerprint \/ follow_edge \/ end_walk \/ collect_mentions

GraphSpec == GraphInit /\ [][GraphNext]_graphVars

-----------------------------------------------------------------------------
(* Properties.                                                             *)

\* At every moment, with batches cut short by errors and restarts, a row
\* that leads from a fingerprint to an edge leads to a stored edge between
\* stored fingerprints: the plan stores fingerprints before edges and edges
\* before their rows, and similarity edges only reach faces of the index,
\* which were stored before (fingerprints/extractors, ingest_photo.rs).
NoDanglingEdge ==
    \A r \in graph : r[1] = "EdgeByFingerprint" =>
        /\ fetch_edge(r[3])
        /\ \A fp \in r[3].ends : fingerprint_exists(fp)

\* A resolution that ran while batches wrote lies between two clean ones:
\* it has every fingerprint that was reachable when it began over edges that
\* passed throughout, and none that is not reachable now over edges that
\* passed at some time; all it found has its record (resolver.rs resolve).
ResolveBracketed ==
    LET fps(g) == {r[2] : r \in {x \in g : x[1] = "Fingerprint"}}
    IN  resolver.pc = "done" =>
            /\ Reach(Spec0.seeds, fps(resolver.start), bounds.low, resolver.start) \subseteq resolver.visited
            /\ resolver.visited \subseteq Reach(Spec0.seeds, fps(graph), bounds.high, graph)
            /\ resolver.missing \subseteq Spec0.seeds
            /\ fetch_fingerprint_views = resolver.visited
            /\ fetch_edge_views = resolver.visitedEdges
            /\ fetch_mention_views \cup Spec0.includedMentions = resolver.mentions

\* A photo whose ingestion began after another had ended is linked with
\* every similar face of that other one, across restarts and however the
\* index was rebuilt, unless its own links failed or its search was cut at
\* K neighbours (ingest_photo.rs, face_ann_cache.rs).
LateSimilarLinked ==
    \A q \in Job : Kind[q] = "photo" /\ Finished(q) /\ ~batch[q].stale =>
        \A p \in batch[q].seen : Kind[p] = "photo" =>
            \A i \in DOMAIN Items[p] \ batch[p].failed, k \in DOMAIN Items[q] \ batch[q].failed :
                \A f \in ToSet(Items[p][i].signals) \ Unindexable, g \in ToSet(Items[q][k].signals) \ Unindexable :
                    f # g /\ Sim[g][f] >= MIN_SIMILARITY_EDGE /\ g \notin batch[q].crowded =>
                        \E e \in DOMAIN weight : e.ends = {f, g} /\ e.kind \in {"StrongMatch", "MediumMatch"}
====
