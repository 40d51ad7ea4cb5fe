------------------------- MODULE IngestionPipeline -------------------------
(***************************************************************************)
(* From a file to records: process_single_file_via_smart_folder and the    *)
(* IngestionService behind it.  Each task stores the file, checks the      *)
(* per-user dedup record, asks the AI for a schema per structure, resolves *)
(* it (structure cache, schema-service reuse, or creation under the        *)
(* schema-creation lock), scopes it to an organisation, publishes it to    *)
(* the cache shared by all tasks, writes the records children first, and   *)
(* records the file as ingested.                                           *)
(*                                                                         *)
(* The shared state is the node's schema store, the two in-memory caches   *)
(* and the database; a step of the model is the code between two awaits    *)
(* that other tasks can observe.  A schema is what its identity hash       *)
(* covers, its descriptive name and its fields, with the organisation      *)
(* prefix of its runtime name.  Keys, mappers and values are left out: a   *)
(* record is identified by its file and its place in it.                   *)
(***************************************************************************)
EXTENDS Naturals, Sequences, FiniteSets, Functions

CONSTANTS
    Task,           \* ingestion tasks that run side by side
    File,
    Structure,      \* structure hashes
    Doc,            \* what a file holds: nested or flat, and its records in
                    \* the order they are written, children before parents
    Desc,           \* descriptive names
    Field,
    Proposals,      \* the schemas the AI may propose for a structure
    Registry,       \* what other nodes may have registered with the service
    Org, NoOrg,
    RefField,       \* fields that hold references to child records
    NoTask, NoSchema,
    MaxRequests,    \* bound: requests submitted
    MaxRestarts     \* bound: process restarts

Schema   == [desc : Desc, fields : SUBSET Field, org : Org \cup {NoOrg}]
Personal == {s \in Schema : s.org = NoOrg}

ASSUME NoValueAssumption ==
    NoTask \notin Task /\ NoOrg \notin Org /\ NoSchema \notin Schema

ASSUME ProposalAssumption ==
    /\ Proposals \in [Structure -> SUBSET Personal]
    /\ \A r \in Registry : r \in [Desc -> Personal \cup {NoSchema}]

\* of is the place of the parent record, 0 for a top-level item; the items of
\* one file are all looked up under the structure hash of the first.  One
\* level of nesting: below it the code repeats the same steps recursively.
ASSUME DocAssumption ==
    \A f \in File :
        /\ Doc[f].nested \in BOOLEAN
        /\ Doc[f].recs \in Seq([s : Structure, of : Nat, field : RefField])
        /\ \E i \in DOMAIN Doc[f].recs : Doc[f].recs[i].of = 0
        /\ \A i \in DOMAIN Doc[f].recs :
               LET p == Doc[f].recs[i].of IN
               IF p = 0
               THEN \A j \in DOMAIN Doc[f].recs :
                        Doc[f].recs[j].of = 0 => Doc[f].recs[j].s = Doc[f].recs[i].s
               ELSE /\ Doc[f].nested /\ p > i /\ p \in DOMAIN Doc[f].recs
                    /\ Doc[f].recs[p].of = 0

ASSUME BoundAssumption == MaxRequests \in Nat /\ MaxRestarts \in Nat

VARIABLES
    active,      \* schema service: the active schema of a descriptive name
    registered,  \* schema_registration_cache: proposal -> cached answer
    shared,      \* shared_schema_cache: structure -> schema
    store,       \* the node's schemas: name -> state, successor, reference fields
    lock,        \* who holds schema_creation_lock
    uploads,     \* encrypted files in the upload storage
    ingested,    \* dedup records <<file, was the run executed>>
    records,     \* records in the database
    job,         \* the request each task is working on
    requests,
    restarts

persistent == <<store, uploads, ingested, records>>
vars == <<active, registered, shared, lock, persistent, job, requests, restarts>>

PC == {"idle", "store", "dedup", "collect", "reuse", "resolve", "reuse_load",
       "reuse_approve", "load_old", "load_new", "approve", "block",
       "refs_read", "refs_write", "org", "org_approve", "write",
       "ref", "record"}

Idle == [pc |-> "idle"]

PartialFn(f, D, R) == DOMAIN f \subseteq D /\ \A x \in DOMAIN f : f[x] \in R

\* A map with the entries of another put into it, and with one entry more.
Overlay(f, g) == [x \in DOMAIN f \cup DOMAIN g |-> IF x \in DOMAIN g THEN g[x] ELSE f[x]]
With(f, x, v) == Overlay(f, [y \in {x} |-> v])

Entry  == [state : {"Available", "Approved", "Blocked"},
           next : Schema \cup {NoSchema}, refs : SUBSET RefField]
RecId  == File \X Nat
Ref    == [schema : Schema, id : RecId]
Record == [schema : Schema, id : RecId, refs : SUBSET Ref, for : Org \cup {NoOrg}]

\* A request being worked on.  for is history (the organisation the request
\* named).
BusyOK(j) ==
    /\ j.pc \in PC \ {"idle"}
    /\ j.file \in File /\ j.org \in Org \cup {NoOrg} /\ j.auto \in BOOLEAN
    /\ PartialFn(j.props, Structure, Personal)     \* AI proposals
    /\ PartialFn(j.match, Structure, Personal)     \* batch reuse matches
    /\ PartialFn(j.local, Structure, Schema)       \* SchemaCache.local
    /\ j.todo \in Seq(1..Len(Doc[j.file].recs))    \* structures to resolve
    /\ j.answer \in Schema \cup {NoSchema}         \* what the current one got
    /\ j.replaced \in Schema \cup {NoSchema}       \* replaced_schema
    /\ j.meta \in SUBSET RefField                  \* schema metadata read
    /\ j.at \in 1..Len(Doc[j.file].recs)           \* next record to write
    /\ j.refs \subseteq Ref                        \* child references built
    /\ j.writing \in BOOLEAN                      \* past the commit

TypeOK ==
    /\ active \in [Desc -> Personal \cup {NoSchema}]
    /\ PartialFn(registered, Personal, Personal)
    /\ PartialFn(shared, Structure, Schema)
    /\ PartialFn(store, Schema, Entry)
    /\ lock \in Task \cup {NoTask}
    /\ uploads \subseteq File
    /\ ingested \subseteq File \X BOOLEAN
    /\ records \subseteq Record
    /\ DOMAIN job = Task /\ \A t \in Task : job[t] = Idle \/ BusyOK(job[t])
    /\ requests \in 0..MaxRequests
    /\ restarts \in 0..MaxRestarts

Init ==
    /\ active \in Registry
    /\ registered = <<>>
    /\ shared = <<>>
    /\ store = <<>>
    /\ lock = NoTask
    /\ uploads = {}
    /\ ingested = {}
    /\ records = {}
    /\ job = [t \in Task |-> Idle]
    /\ requests = 0
    /\ restarts = 0

-----------------------------------------------------------------------------
(* The document of a request                                               *)

Recs(t) == Doc[job[t].file].recs

\* The representative is the first top-level item: the records up to it.
RepTop(t) ==
    CHOOSE i \in DOMAIN Recs(t) :
        Recs(t)[i].of = 0 /\ \A k \in 1..(i - 1) : Recs(t)[k].of # 0

Rep(t) == [i \in 1..RepTop(t) |-> i]

Kids(t, i) == {k \in DOMAIN Recs(t) : Recs(t)[k].of = i}

\* SchemaCache::get and contains_key: the task's own entries first.
Cached(t, s) == s \in DOMAIN job[t].local \/ s \in DOMAIN shared
Lookup(t, s) == IF s \in DOMAIN job[t].local THEN job[t].local[s] ELSE shared[s]

At(t, pc) == job[t].pc = pc

Goto(t, pc) == job' = [job EXCEPT ![t].pc = pc]

-----------------------------------------------------------------------------
(* The request                                                             *)

Submit(t, f, org, auto) ==
    /\ At(t, "idle")
    /\ requests < MaxRequests
    /\ requests' = requests + 1
    /\ job' = [job EXCEPT ![t] =
                  [pc |-> "store", file |-> f, org |-> org, auto |-> auto,
                   props |-> <<>>, match |-> <<>>, local |-> <<>>, todo |-> <<>>,
                   answer |-> NoSchema, replaced |-> NoSchema,
                   meta |-> {}, at |-> 1, refs |-> {}, writing |-> FALSE]]
    /\ UNCHANGED <<active, registered, shared, lock, persistent, restarts>>

\* store_file_content_addressed
StoreFile(t) ==
    /\ At(t, "store")
    /\ uploads' = uploads \cup {job[t].file}
    /\ Goto(t, "dedup")
    /\ UNCHANGED <<active, registered, shared, lock, store, ingested, records,
                   requests, restarts>>

\* Without force_reingest a file that has a dedup record is skipped.
CheckDedup(t) ==
    /\ At(t, "dedup")
    /\ \/ Goto(t, "collect")
       \/ /\ \E auto \in BOOLEAN : <<job[t].file, auto>> \in ingested
          /\ job' = [job EXCEPT ![t] = Idle]
    /\ UNCHANGED <<active, registered, shared, lock, persistent, requests, restarts>>

\* collect_ai_proposals_recursive: one AI call for every structure of the
\* representative that is not cached (the caches only grow, so a structure
\* cached meanwhile costs a call and changes nothing).  The flat path asks
\* for the whole document, whatever is cached.
Collect(t) ==
    LET top    == Recs(t)[RepTop(t)].s
        nested == Doc[job[t].file].nested
        wanted == CASE ~nested -> {top}
                    [] nested /\ Cached(t, top) -> {}
                    [] OTHER -> {s \in {Recs(t)[i].s : i \in 1..RepTop(t)} : ~Cached(t, s)}
    IN
    /\ At(t, "collect")
    /\ \E props \in [wanted -> UNION {Proposals[s] : s \in wanted}] :
           /\ \A s \in wanted : props[s] \in Proposals[s]
           /\ job' = [job EXCEPT ![t].props = props,
                                 ![t].todo = IF nested THEN <<>> ELSE Rep(t),
                                 ![t].pc = IF nested THEN "reuse" ELSE "resolve"]
    /\ UNCHANGED <<active, registered, shared, lock, persistent, requests, restarts>>

\* batch_check_schema_reuse; after three failures it counts as no match. The
\* answer holds a match per descriptive name: where two structures are proposed
\* under one name, what is said of the one holds for both.
\* resolve_schemas_with_reuse starts at once: nothing to do if the top
\* structure is cached.
CheckReuse(t) ==
    LET props == job[t].props
        fits  == {s \in DOMAIN props :
                    /\ active[props[s].desc] # NoSchema
                    /\ props[s].fields \subseteq active[props[s].desc].fields}
    IN
    /\ At(t, "reuse")
    /\ \E names \in SUBSET {props[s].desc : s \in fits} :
           /\ names # {} =>
                 \A s \in fits : \/ props[s].desc \in names
                                 \/ \E q \in DOMAIN props \ fits : props[q].desc = props[s].desc
           /\ job' = [job EXCEPT
                  ![t].match = [s \in {q \in DOMAIN props : props[q].desc \in names} |-> active[props[s].desc]],
                  ![t].todo = IF Cached(t, Recs(t)[RepTop(t)].s) THEN <<>> ELSE Rep(t),
                  ![t].pc = "resolve"]
    /\ UNCHANGED <<active, registered, shared, lock, persistent, requests, restarts>>

-----------------------------------------------------------------------------
(* Resolving one structure                                                 *)

Current(t) == Recs(t)[Head(job[t].todo)].s

\* load_schema_from_json: a known schema keeps its state, but its definition,
\* the reference fields with it, is overwritten.
Load(s) ==
    store' = With(store, s,
                  [state |-> IF s \in DOMAIN store THEN store[s].state ELSE "Available",
                   next |-> IF s \in DOMAIN store THEN store[s].next ELSE NoSchema,
                   refs |-> {}])

Approve(s) == store' = [store EXCEPT ![s].state = "Approved"]

\* The structure got its schema: SchemaCache::insert, then update_ref_fields
\* if it has children.
Resolved(t, s) ==
    job' = [job EXCEPT
               ![t].local = With(@, Current(t), s),
               ![t].answer = s,
               ![t].todo = IF Kids(t, Head(job[t].todo)) = {} THEN Tail(@) ELSE @,
               ![t].pc = IF Kids(t, Head(job[t].todo)) = {} THEN "resolve" ELSE "refs_read"]

\* A child structure cached by now is skipped; the cache was asked about the
\* top one before its children were resolved.
Skippable(t) == Len(job[t].todo) > 1 /\ Cached(t, Current(t))

SkipCached(t) ==
    /\ At(t, "resolve") /\ job[t].todo # <<>> /\ Skippable(t)
    /\ job' = [job EXCEPT ![t].todo = Tail(@)]
    /\ UNCHANGED <<active, registered, shared, lock, persistent, requests, restarts>>

\* A superset match is used as it is if the node has the schema.
UseMatch(t) ==
    /\ At(t, "resolve") /\ job[t].todo # <<>> /\ ~Skippable(t)
    /\ Current(t) \in DOMAIN job[t].match
    /\ LET s == job[t].match[Current(t)] IN
       IF s \in DOMAIN store
       THEN Resolved(t, s)
       ELSE job' = [job EXCEPT ![t].answer = s, ![t].pc = "reuse_load"]
    /\ UNCHANGED <<active, registered, shared, lock, persistent, requests, restarts>>

ReuseLoad(t) ==
    /\ At(t, "reuse_load")
    /\ Load(job[t].answer)
    /\ Goto(t, "reuse_approve")
    /\ UNCHANGED <<active, registered, shared, lock, uploads, ingested, records,
                   requests, restarts>>

ReuseApprove(t) ==
    /\ At(t, "reuse_approve")
    /\ Approve(job[t].answer)
    /\ Resolved(t, job[t].answer)
    /\ UNCHANGED <<active, registered, shared, lock, uploads, ingested, records,
                   requests, restarts>>

\* No match: determine_schema_to_use.
NeedsSchema(t) ==
    /\ At(t, "resolve") /\ job[t].todo # <<>> /\ ~Skippable(t)
    /\ Current(t) \notin DOMAIN job[t].match

\* The schema service (external): a proposal within the active schema of its
\* name gets that schema, any other one a new active schema with the fields of
\* both, which replaces the old.
ServiceAnswer(p) ==
    CASE active[p.desc] = NoSchema -> p
      [] active[p.desc] # NoSchema -> [p EXCEPT !.fields = @ \cup active[p.desc].fields]

ServiceReplaced(p) ==
    IF ServiceAnswer(p) = active[p.desc] THEN NoSchema ELSE active[p.desc]

\* add_schema_to_service: a proposal seen before is answered from the
\* registration cache, without replaced_schema.
AddToService(t) ==
    LET p == job[t].props[Current(t)] IN
    IF p \in DOMAIN registered
    THEN /\ job' = [job EXCEPT ![t].answer = registered[p],
                               ![t].replaced = NoSchema,
                               ![t].pc = "load_old"]
         /\ UNCHANGED <<active, registered>>
    ELSE /\ job' = [job EXCEPT ![t].answer = ServiceAnswer(p),
                               ![t].replaced = ServiceReplaced(p),
                               ![t].pc = "load_old"]
         /\ active' = [active EXCEPT ![p.desc] = ServiceAnswer(p)]
         /\ registered' = With(registered, p, ServiceAnswer(p))

\* create_new_schema_with_node takes the lock and registers the proposal.
CreateSchema(t) ==
    /\ NeedsSchema(t)
    /\ lock = NoTask
    /\ lock' = t
    /\ AddToService(t)
    /\ UNCHANGED <<shared, persistent, requests, restarts>>

\* On expansion the replaced schema is fetched if the node lacks it.
LoadOld(t) ==
    LET old == job[t].replaced IN
    /\ At(t, "load_old")
    /\ IF old # NoSchema /\ old \notin DOMAIN store THEN Load(old) ELSE UNCHANGED store
    /\ Goto(t, "load_new")
    /\ UNCHANGED <<active, registered, shared, lock, uploads, ingested, records,
                   requests, restarts>>

\* Faulty variant: the old schema is blocked before the new one is approved.
LoadNewBlocksOld(t) ==
    LET old == job[t].replaced  s == job[t].answer IN
    /\ At(t, "load_new")
    /\ store' = LET known == IF old = NoSchema THEN store
                             ELSE [store EXCEPT ![old].state = "Blocked", ![old].next = s]
                IN With(known, s, [state |-> "Available", next |-> NoSchema, refs |-> {}])
    /\ Goto(t, "approve")
    /\ UNCHANGED <<active, registered, shared, lock, uploads, ingested, records,
                   requests, restarts>>

\* The answer is loaded if the node lacks it, and always on expansion; then
\* validate_field_mapper_compatibility (which may only fail).
LoadNew(t) ==
    LET s == job[t].answer IN
    /\ At(t, "load_new")
    /\ IF job[t].replaced = NoSchema /\ s \in DOMAIN store THEN UNCHANGED store ELSE Load(s)
    /\ Goto(t, "approve")
    /\ UNCHANGED <<active, registered, shared, lock, uploads, ingested, records,
                   requests, restarts>>

\* Approve the answer; without an expansion that ends the critical section.
ApproveNew(t) ==
    /\ At(t, "approve")
    /\ Approve(job[t].answer)
    /\ IF job[t].replaced = NoSchema
       THEN Resolved(t, job[t].answer) /\ lock' = NoTask
       ELSE Goto(t, "block") /\ UNCHANGED lock
    /\ UNCHANGED <<active, registered, shared, uploads, ingested, records,
                   requests, restarts>>

\* block_and_supersede, after the approval.
BlockOld(t) ==
    /\ At(t, "block")
    /\ store' = [store EXCEPT ![job[t].replaced].state = "Blocked",
                              ![job[t].replaced].next = job[t].answer]
    /\ Resolved(t, job[t].answer)
    /\ lock' = NoTask
    /\ UNCHANGED <<active, registered, shared, uploads, ingested, records,
                   requests, restarts>>

\* update_ref_fields reads the schema and writes it back without the lock.
ReadRefFields(t) ==
    /\ At(t, "refs_read")
    /\ job' = [job EXCEPT ![t].meta = store[job[t].answer].refs, ![t].pc = "refs_write"]
    /\ UNCHANGED <<active, registered, shared, lock, persistent, requests, restarts>>

WriteRefFields(t) ==
    LET fields == {Recs(t)[k].field : k \in Kids(t, Head(job[t].todo))} IN
    /\ At(t, "refs_write")
    /\ store' = [store EXCEPT ![job[t].answer].refs = job[t].meta \cup fields]
    /\ job' = [job EXCEPT ![t].todo = Tail(@), ![t].pc = "resolve"]
    /\ UNCHANGED <<active, registered, shared, lock, uploads, ingested, records,
                   requests, restarts>>

\* A resolution on the fly returns to the record that needed it, the initial
\* one goes on to the organisation.
EndResolve(t) ==
    /\ At(t, "resolve") /\ job[t].todo = <<>>
    /\ Goto(t, IF job[t].writing THEN "write" ELSE "org")
    /\ UNCHANGED <<active, registered, shared, lock, persistent, requests, restarts>>

-----------------------------------------------------------------------------
(* Organisation scope, publication to the shared cache                     *)

Scoped(s, org) == [s EXCEPT !.org = org]

\* Names of the local entries that still lack their organisation copy.
Unscoped(t) ==
    {s \in Range(job[t].local) : Scoped(s, job[t].org) \notin DOMAIN store}

\* ensure_org_schema: a copy of the personal definition, loaded and then
\* approved; a copy that is there already is taken as it is.
OrgLoad(t) ==
    /\ At(t, "org") /\ job[t].org # NoOrg
    /\ \E s \in Unscoped(t) :
           /\ store' = With(store, Scoped(s, job[t].org),
                            [state |-> "Available", next |-> NoSchema, refs |-> store[s].refs])
           /\ job' = [job EXCEPT ![t].answer = Scoped(s, job[t].org),
                                 ![t].pc = "org_approve"]
    /\ UNCHANGED <<active, registered, shared, lock, uploads, ingested, records,
                   requests, restarts>>

OrgApprove(t) ==
    /\ At(t, "org_approve")
    /\ Approve(job[t].answer)
    /\ Goto(t, "org")
    /\ UNCHANGED <<active, registered, shared, lock, uploads, ingested, records,
                   requests, restarts>>

\* remap_to_org and SchemaCache::commit.  The flat path has no cache to commit.
Remapped(t) ==
    [s \in DOMAIN job[t].local |->
        IF job[t].org = NoOrg THEN job[t].local[s]
                              ELSE Scoped(job[t].local[s], job[t].org)]

Commit(t) ==
    /\ At(t, "org") /\ (job[t].org = NoOrg \/ Unscoped(t) = {})
    /\ job' = [job EXCEPT ![t].local = Remapped(t), ![t].writing = TRUE,
                          ![t].pc = "write"]
    /\ shared' = IF Doc[job[t].file].nested THEN Overlay(shared, Remapped(t)) ELSE shared
    /\ UNCHANGED <<active, registered, lock, persistent, requests, restarts>>

-----------------------------------------------------------------------------
(* Writing the records                                                     *)

Id(t, i) == <<job[t].file, i>>

\* mutate_batch: a record replaces the one with its schema and key.
Put(new) == records' = new \cup {r \in records : \A n \in new : <<r.schema, r.id>> # <<n.schema, n.id>>}

\* filter_mappers_by_schema drops a reference the schema has no field for.
NewRecord(t, i) ==
    LET schema == Lookup(t, Recs(t)[i].s) IN
    [schema |-> schema, id |-> Id(t, i), for |-> job[t].org,
     refs |-> {r \in job[t].refs : \E k \in Kids(t, i) :
                   r.id = Id(t, k) /\ Recs(t)[k].field \in store[schema].refs}]

Written(t, i) ==
    CASE Recs(t)[i].of # 0 -> "ref"
      [] Recs(t)[i].of = 0 /\ i < Len(Recs(t)) -> "write"
      [] Recs(t)[i].of = 0 /\ i = Len(Recs(t)) -> "record"

\* ingest_decomposed_item, one record; without auto_execute only counted.
WriteRecord(t) ==
    LET i == job[t].at IN
    /\ At(t, "write") /\ Doc[job[t].file].nested
    /\ Cached(t, Recs(t)[i].s)
    /\ IF job[t].auto THEN Put({NewRecord(t, i)}) ELSE UNCHANGED records
    /\ job' = [job EXCEPT ![t].pc = Written(t, i),
                          ![t].at = IF Written(t, i) = "write" THEN @ + 1 ELSE @]
    /\ UNCHANGED <<active, registered, shared, lock, store, uploads, ingested,
                   requests, restarts>>

\* The reference to a written child names the schema the cache holds now.
BuildRef(t) ==
    LET i == job[t].at IN
    /\ At(t, "ref")
    /\ job' = [job EXCEPT
                  ![t].refs = @ \cup {[schema |-> Lookup(t, Recs(t)[i].s), id |-> Id(t, i)]},
                  ![t].at = @ + 1,
                  ![t].pc = "write"]
    /\ UNCHANGED <<active, registered, shared, lock, persistent, requests, restarts>>

\* A child whose structure the representative lacked is resolved on the fly:
\* an AI call, then resolve_schema_for_structure.
ResolveOnTheFly(t) ==
    LET s == Recs(t)[job[t].at].s IN
    /\ At(t, "write") /\ Doc[job[t].file].nested
    /\ ~Cached(t, s)
    /\ \E p \in Proposals[s] :
           job' = [job EXCEPT ![t].props = With(@, s, p),
                              ![t].todo = <<job[t].at>>,
                              ![t].pc = "resolve"]
    /\ UNCHANGED <<active, registered, shared, lock, persistent, requests, restarts>>

\* The flat path writes all its records in one mutate_batch.
WriteFlat(t) ==
    /\ At(t, "write") /\ ~Doc[job[t].file].nested
    /\ IF job[t].auto THEN Put({NewRecord(t, i) : i \in DOMAIN Recs(t)})
                      ELSE UNCHANGED records
    /\ Goto(t, "record")
    /\ UNCHANGED <<active, registered, shared, lock, store, uploads, ingested,
                   requests, restarts>>

\* record_file_ingested (a failing put is only logged), then the job completes.
Complete(t) ==
    /\ At(t, "record")
    /\ \/ ingested' = ingested \cup {<<job[t].file, job[t].auto>>}
       \/ UNCHANGED ingested
    /\ job' = [job EXCEPT ![t] = Idle]
    /\ UNCHANGED <<active, registered, shared, lock, store, uploads, records,
                   requests, restarts>>

\* Faulty variant: the dedup record is written on every exit.
FailRecorded(t) ==
    /\ ~At(t, "idle")
    /\ ingested' = ingested \cup {<<job[t].file, job[t].auto>>}
    /\ job' = [job EXCEPT ![t] = Idle]
    /\ lock' = IF lock = t THEN NoTask ELSE lock
    /\ UNCHANGED <<active, registered, shared, store, uploads, records, requests, restarts>>

\* Any awaited call may fail: the error ends the request and drops the lock.
Fail(t) ==
    /\ ~At(t, "idle")
    /\ job' = [job EXCEPT ![t] = Idle]
    /\ lock' = IF lock = t THEN NoTask ELSE lock
    /\ UNCHANGED <<active, registered, shared, persistent, requests, restarts>>

\* The process restarts: tasks, lock and caches are gone.
Restart ==
    /\ restarts < MaxRestarts
    /\ restarts' = restarts + 1
    /\ registered' = <<>>
    /\ shared' = <<>>
    /\ lock' = NoTask
    /\ job' = [t \in Task |-> Idle]
    /\ UNCHANGED <<active, persistent, requests>>

-----------------------------------------------------------------------------

Resolve(t) ==
    \/ SkipCached(t) \/ UseMatch(t) \/ ReuseLoad(t) \/ ReuseApprove(t)
    \/ CreateSchema(t) \/ LoadOld(t) \/ LoadNew(t) \/ ApproveNew(t) \/ BlockOld(t)
    \/ ReadRefFields(t) \/ WriteRefFields(t) \/ EndResolve(t)

Step(t) ==
    \/ StoreFile(t) \/ CheckDedup(t) \/ Collect(t) \/ CheckReuse(t)
    \/ Resolve(t)
    \/ OrgLoad(t) \/ OrgApprove(t) \/ Commit(t)
    \/ WriteRecord(t) \/ BuildRef(t) \/ ResolveOnTheFly(t) \/ WriteFlat(t)
    \/ Complete(t)

Next ==
    \/ \E t \in Task, f \in File, org \in Org \cup {NoOrg}, auto \in BOOLEAN :
           Submit(t, f, org, auto)
    \/ \E t \in Task : Step(t) \/ Fail(t)
    \/ Restart

Spec == Init /\ [][Next]_vars

-----------------------------------------------------------------------------
(* Properties                                                              *)

\* A file recorded as ingested by a run that executed its mutations has all
\* its records in the database, so skipping it later loses nothing.
IngestedIsStored ==
    \A f \in File : <<f, TRUE>> \in ingested =>
        \A i \in DOMAIN Doc[f].recs : \E r \in records : r.id = <<f, i>>

\* A blocked schema leads to a successor that took over its fields and is
\* itself approved or superseded: no window in which neither accepts data.
SupersededHasSuccessor ==
    \A s \in DOMAIN store : store[s].state = "Blocked" =>
        /\ store[s].next \in DOMAIN store
        /\ s.fields \subseteq store[s].next.fields
        /\ store[store[s].next].state \in {"Approved", "Blocked"}

\* A request for an organisation writes into that organisation's schemas, a
\* personal one into personal schemas.
ScopeKept == \A r \in records : r.schema.org = r.for
============================================================================
