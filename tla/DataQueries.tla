---------------------------- MODULE DataQueries ----------------------------
(***************************************************************************)
(* Reading and writing records over the schemas of the node: the names a   *)
(* request may use for a schema, the paged query with the rights of its    *)
(* caller, mutations, approving, blocking and tagging schemas and the      *)
(* access policies of their fields, the listing of keys, references        *)
(* resolved in results, the search of the native index, and the feed.      *)
(*                                                                         *)
(* The database is external: it holds rows [key, vals, author] and answers *)
(* a query with an unordered set of them.  A tier is 0 (public) to Owner.  *)
(***************************************************************************)
EXTENDS Integers, FiniteSets, Sequences, SequencesExt, Functions

CONSTANTS
    SchemaDef,    \* SchemaDef[s]: [label, fields, transforms, refs (field -> child), keyField, class (field -> tier)]
    RowsAtStart,  \* RowsAtStart[s]: the rows of schema s
    TierOf,       \* TierOf[domain]: tiers of the callers known in that domain
    OwnerKey,     \* the public key of the node's owner
    Pager,        \* clients that read a query page by page: [caller, schema, fields, sorted, least, limit]
    Write,        \* mutation requests: [via, caller, ops], an op: [schema, key, vals, type]
    Edit,         \* schema changes: [kind, schema, field, policy]
    Hit,          \* entries of the native index: [schema, key, field, fragment]
    Listing,      \* listings and feeds asked for: [kind, schema, friends, limit, offset]
    MAX_QUERY_LIMIT, INTERNAL_FETCH_CAP

ASSUME DataQueriesAssumption ==
    /\ {MAX_QUERY_LIMIT, INTERNAL_FETCH_CAP} \subseteq Nat \ {0}
    \* A request to set a policy carries one.
    /\ \A e \in Edit : e.policy # [domain |-> "none", tier |-> -1]

VARIABLES
    schemas,     \* schemas[s]: [state, org, policy]
    rows,        \* rows[s]: the rows of schema s
    pager,       \* pager[p]: [pc, offset, got, of]
    written,     \* the mutation requests that were answered
    edit,        \* edit[e]: [pc, on, copy, todo]
    replies,     \* replies[l]: the answer to a listing: [total, shown]
    ownerSet,    \* history: the policies the owner set, as <<schema, field, policy>>
    overlapped   \* history: schemas two changes of which overlapped

dataQueryVars == <<schemas, rows, pager, written, edit, replies, ownerSet, overlapped>>

OwnerTier == 9
NoPolicy == [domain |-> "none", tier |-> -1]
NoReply == [total |-> -1, shown |-> {}]
Names == DOMAIN SchemaDef

\* The trust domain of a schema goes with its organisation (org:<hash>, here the hash).
trust_domain(org) == IF org = "none" THEN "personal" ELSE org
\* Faulty variant: the defaults always replace the policies that are there.
Defaults_Always(s, org, force, policy) ==
    [f \in DOMAIN policy |->
        IF f \in DOMAIN SchemaDef[s].class THEN [domain |-> "personal", tier |-> SchemaDef[s].class[f]]
        ELSE [domain |-> trust_domain(org), tier |-> OwnerTier]]
\* The access policies that follow from the data classes; those that are there stay, unless forced.
Defaults(s, org, force, policy) ==
    [f \in DOMAIN policy |->
        IF ~force /\ policy[f] # NoPolicy THEN policy[f]
        ELSE IF f \in DOMAIN SchemaDef[s].class THEN [domain |-> "personal", tier |-> SchemaDef[s].class[f]]
        ELSE [domain |-> trust_domain(org), tier |-> OwnerTier]]
Unset(s) == [f \in SchemaDef[s].fields |-> NoPolicy]

\* A node with data, or one that has none yet and only knows the schemas.
DataQueryInit ==
    /\ \/ /\ schemas = [s \in Names |-> [state |-> "approved", org |-> "none", policy |-> Defaults(s, "none", FALSE, Unset(s))]]
          /\ rows = RowsAtStart
       \/ /\ schemas = [s \in Names |-> [state |-> "available", org |-> "none", policy |-> Unset(s)]]
          /\ rows = [s \in Names |-> {}]
    /\ pager = [p \in Pager |-> [pc |-> "open", offset |-> 0, got |-> <<>>, of |-> {}]]
    /\ written = {}
    /\ edit = [e \in Edit |-> [pc |-> "idle", on |-> "none", copy |-> <<>>, todo |-> {}]]
    /\ replies = [l \in Listing |-> NoReply] /\ ownerSet = {} /\ overlapped = {}

-----------------------------------------------------------------------------
(* Names of schemas.                                                       *)

list_schemas == {s \in Names : schemas[s].state # "blocked"}

\* The canonical names a request's name stands for; more than one is a conflict, a name nobody
\* has is passed on for the executor to refuse.
resolve_schema_name(name) ==
    IF name \in list_schemas THEN {name}
    ELSE LET labelled == {s \in list_schemas : SchemaDef[s].label = name}
         IN  IF labelled = {} THEN {name} ELSE labelled

\* The other resolution takes any schema with that label, blocked ones included.
processor_resolve(name) ==
    IF name \in Names THEN {name} ELSE {s \in Names : SchemaDef[s].label = name}

queryable_field_names(s) == SchemaDef[s].fields \cup SchemaDef[s].transforms \cup DOMAIN SchemaDef[s].refs
find_unknown_fields(s, requested) == requested \ queryable_field_names(s)
mutation_writable_field_names(s) == SchemaDef[s].fields \cup DOMAIN SchemaDef[s].refs
mutation_unknown_fields(s, vals) == DOMAIN vals \ mutation_writable_field_names(s)

-----------------------------------------------------------------------------
(* Queries.                                                                *)

\* The tiers of a caller, one for each domain that knows it.
build_access_context(caller) ==
    [owner |-> caller = OwnerKey,
     tiers |-> [d \in {d \in DOMAIN TierOf : caller \in DOMAIN TierOf[d]} |-> TierOf[d][caller]]]

Readable(ctx, policy) ==
    \/ ctx.owner
    \/ policy.tier = 0
    \/ policy.tier > 0 /\ policy.domain \in DOMAIN ctx.tiers /\ ctx.tiers[policy.domain] >= policy.tier

\* The executor: rows with the fields the caller may read, in no order.
query_with_access(ctx, s, fields) ==
    LET Seen(r) == {f \in fields \cap DOMAIN r.vals :
                        f \in DOMAIN schemas[s].policy /\ Readable(ctx, schemas[s].policy[f])}
    IN  {[r EXCEPT !.vals = Restrict(r.vals, Seen(r))] : r \in {x \in rows[s] : Seen(x) # {}}}

record_matches_value_filters(r, least) ==
    \A f \in DOMAIN least : f \in DOMAIN r.vals /\ r.vals[f] >= least[f]

\* A query without a filter takes at most INTERNAL_FETCH_CAP rows, whichever they are.
SampleN(S) ==
    IF Cardinality(S) <= INTERNAL_FETCH_CAP THEN {S}
    ELSE {T \in SUBSET S : Cardinality(T) = INTERNAL_FETCH_CAP}

\* The orders in which a set of rows may come: any, or by range key, ties in any order.
Ordered(S, sorted) ==
    {q \in [1..Cardinality(S) -> S] :
        /\ \A i, j \in 1..Cardinality(S) : i # j => q[i] # q[j]
        /\ sorted => \A i, j \in 1..Cardinality(S) : i < j => q[i].key.range <= q[j].key.range}

execute_query_json_with_access(p, s) ==
    UNION {Ordered({r \in T : record_matches_value_filters(r, p.least)}, p.sorted) :
              T \in SampleN(query_with_access(build_access_context(p.caller), s, p.fields))}

clamp(limit) == IF limit <= MAX_QUERY_LIMIT THEN limit ELSE MAX_QUERY_LIMIT
Page(q, offset, limit) == SubSeq(q, offset + 1, IF offset + limit <= Len(q) THEN offset + limit ELSE Len(q))

\* Faulty variant: has_more compares the last index of the page with the total.
has_more_Late(offset, returned, total) == offset + returned + 1 < total
has_more(offset, returned, total) == offset + returned < total

QueryRefused(p) == pager' = [pager EXCEPT ![p].pc = "refused"]
QueryPage(p, s) ==
    \E q \in execute_query_json_with_access(p, s) :
        LET at == pager[p].offset
            page == Page(q, at, clamp(p.limit))
        IN  pager' = [pager EXCEPT ![p] =
                [pc |-> IF has_more(at, Len(page), Len(q)) THEN "open" ELSE "done",
                 offset |-> at + Len(page),
                 got |-> @.got \o [i \in 1..Len(page) |-> page[i].key],
                 of |-> @.of \cup {rows[s]}]]

\* POST /api/query, once for each page of a client.
execute_query(p) ==
    /\ pager[p].pc = "open"
    /\ LET found == resolve_schema_name(p.schema)
       IN  \/ /\ Cardinality(found) > 1
              /\ QueryRefused(p)
           \/ \E s \in found :
                 /\ Cardinality(found) = 1
                 /\ IF s \notin list_schemas \/ find_unknown_fields(s, p.fields) # {}
                    THEN QueryRefused(p)
                    ELSE QueryPage(p, s)
    /\ UNCHANGED <<schemas, rows, written, edit, replies, ownerSet, overlapped>>

-----------------------------------------------------------------------------
(* References in results.                                                  *)

parse_ref_key(ref) == ref
collect_reference_metadata(s) == {f \in DOMAIN SchemaDef[s].refs : SchemaDef[s].refs[f] \in Names}
build_child_index(c) == {IF SchemaDef[c].keyField = "none" THEN [hash |-> "none", range |-> 0] ELSE r.key : r \in rows[c]}

\* The references of all rows of s that resolve, as <<schema, key, field, child key>>, to the given
\* depth; a schema met again on the way down is not followed.
rehydrate_references[d \in 0..2, s \in Names, visited \in SUBSET Names] ==
    IF d = 0 \/ s \in visited THEN {}
    ELSE LET locations == {l \in rows[s] \X collect_reference_metadata(s) : l[2] \in DOMAIN l[1].vals}
             children == {SchemaDef[s].refs[l[2]] : l \in locations}
         IN  UNION {{<<s, l[1].key, l[2], parse_ref_key(k)>> :
                        k \in l[1].vals[l[2]] \cap build_child_index(SchemaDef[s].refs[l[2]])} : l \in locations}
             \cup UNION {rehydrate_references[d - 1, c, visited \cup {s}] : c \in children}

\* The owner's query of the agent's tools: the rows and the references resolved one level down.
execute_query_json(s) ==
    [records |-> query_with_access(build_access_context(OwnerKey), s, SchemaDef[s].fields),
     resolved |-> rehydrate_references[1, s, {}]]

-----------------------------------------------------------------------------
(* Mutations.                                                              *)

Applied(S, op, author) ==
    LET others == {r \in S : r.key # op.key}
        old == {r \in S : r.key = op.key}
        vals == IF old = {} THEN op.vals ELSE op.vals @@ (CHOOSE r \in old : TRUE).vals
    IN  CASE op.type = "delete" -> others
          [] op.type = "update" \/ op.type = "create" -> others \cup {[key |-> op.key, vals |-> vals, author |-> author]}

\* write_mutations_with_access: only the owner may write a field by default.
Writable(caller) == build_access_context(caller).owner

\* POST /api/mutation.
execute_mutation(w) ==
    LET op == w.ops[1]
        found == resolve_schema_name(op.schema)
    IN  /\ w.via = "route" /\ w \notin written
        /\ written' = written \cup {w}
        /\ \/ \E s \in found :
                 /\ Cardinality(found) = 1 /\ s \in list_schemas
                 /\ mutation_unknown_fields(s, op.vals) = {}
                 /\ Writable(w.caller)
                 /\ rows' = [rows EXCEPT ![s] = Applied(@, op, w.caller)]
           \/ /\ \/ Cardinality(found) > 1
                 \/ \E s \in found : s \notin list_schemas \/ mutation_unknown_fields(s, op.vals) # {}
                 \/ ~Writable(w.caller)
              /\ UNCHANGED rows
        /\ UNCHANGED <<schemas, pager, edit, replies, ownerSet, overlapped>>

\* A batch is parsed whole before any of it is written; it names schemas by canonical name.
execute_mutations_batch(w) ==
    /\ w.via = "batch" /\ w \notin written
    /\ written' = written \cup {w}
    /\ IF \E i \in DOMAIN w.ops : w.ops[i].vals = <<>> /\ w.ops[i].type # "delete"
       THEN UNCHANGED rows
       ELSE rows' = FoldLeft(LAMBDA acc, op : [acc EXCEPT ![op.schema] = Applied(@, op, OwnerKey)], rows, w.ops)
    /\ UNCHANGED <<schemas, pager, edit, replies, ownerSet, overlapped>>

-----------------------------------------------------------------------------
(* Changing schemas: each change reads the schema and writes all of it     *)
(* back.                                                                   *)

Busy(s) == {e \in Edit : edit[e].pc = "held" /\ edit[e].on = s}
Held(e, s, copy) ==
    /\ edit' = [edit EXCEPT ![e] = [pc |-> "held", on |-> s, copy |-> copy, todo |-> edit[e].todo \ {s}]]
    /\ overlapped' = overlapped \cup (IF Busy(s) # {} THEN {s} ELSE {})
\* The change lets go of the schema, with others still to do or none.
Left(e, todo) ==
    edit' = [edit EXCEPT ![e] = [pc |-> IF todo = {} THEN "done" ELSE "next", on |-> "none", copy |-> <<>>, todo |-> todo]]
Replied(e) == Left(e, {})
update_schema(e) ==
    /\ schemas' = [schemas EXCEPT ![edit[e].on].org = edit[e].copy.org, ![edit[e].on].policy = edit[e].copy.policy]
    /\ Replied(e)

NotFound(e) ==
    /\ edit[e].pc = "idle" /\ e.kind \notin {"defaults", "reset"} /\ processor_resolve(e.schema) = {}
    /\ Replied(e)
    /\ UNCHANGED <<schemas, rows, pager, written, replies, ownerSet, overlapped>>

\* Approves the schema, then reads it for the policies that follow from the data classes.
approve_schema(e) ==
    /\ e.kind = "approve" /\ edit[e].pc = "idle"
    /\ \E s \in processor_resolve(e.schema) :
          /\ schemas' = [schemas EXCEPT ![s].state = "approved"]
          /\ Held(e, s, schemas[s])
    /\ UNCHANGED <<rows, pager, written, replies, ownerSet>>

\* POST /api/sharing/apply-defaults: the approved schemas, one after the other.
apply_defaults_all(e) ==
    /\ e.kind \in {"defaults", "reset"}
    /\ \/ /\ edit[e].pc = "idle" /\ Left(e, {s \in Names : schemas[s].state = "approved"})
          /\ UNCHANGED overlapped
       \/ edit[e].pc = "next" /\ \E s \in edit[e].todo : Held(e, s, schemas[s])
    /\ UNCHANGED <<schemas, rows, pager, written, replies, ownerSet>>

\* A failure to apply the defaults is logged or skipped; the schema is written only if a policy is.
apply_classification_defaults_with_force(e) ==
    LET s == edit[e].on
        copy == edit[e].copy
        force == e.kind = "reset"
        policy == Defaults(s, copy.org, force, copy.policy)
    IN  /\ e.kind \in {"approve", "defaults", "reset"} /\ edit[e].pc = "held"
        /\ Left(e, edit[e].todo)
        /\ \/ UNCHANGED <<schemas, ownerSet>>
           \/ /\ force \/ policy # copy.policy
              /\ schemas' = [schemas EXCEPT ![s].org = copy.org, ![s].policy = policy]
              /\ ownerSet' = IF force THEN {o \in ownerSet : o[1] # s} ELSE ownerSet
        /\ UNCHANGED <<rows, pager, written, replies, overlapped>>

block_schema(e) ==
    /\ e.kind = "block" /\ edit[e].pc = "idle"
    /\ \E s \in processor_resolve(e.schema) : schemas' = [schemas EXCEPT ![s].state = "blocked"]
    /\ Replied(e)
    /\ UNCHANGED <<rows, pager, written, replies, ownerSet, overlapped>>

set_schema_org_hash(e) ==
    /\ e.kind = "org" /\ edit[e].pc = "idle"
    /\ \E s \in processor_resolve(e.schema) : Held(e, s, [schemas[s] EXCEPT !.org = e.field])
    /\ UNCHANGED <<schemas, rows, pager, written, replies, ownerSet>>

\* The policy endpoint takes canonical names only.
set_field_access_policy(e) ==
    /\ e.kind = "policy" /\ edit[e].pc = "idle"
    /\ IF e.schema \in Names /\ e.field \in SchemaDef[e.schema].fields
       THEN Held(e, e.schema, [schemas[e.schema] EXCEPT !.policy[e.field] = e.policy])
       ELSE Replied(e) /\ UNCHANGED overlapped
    /\ UNCHANGED <<schemas, rows, pager, written, replies, ownerSet>>

WriteEdit(e) ==
    /\ e.kind \in {"org", "policy"} /\ edit[e].pc = "held"
    /\ update_schema(e)
    /\ ownerSet' = IF e.kind = "policy"
                   THEN {o \in ownerSet : <<o[1], o[2]>> # <<e.schema, e.field>>} \cup {<<e.schema, e.field, e.policy>>}
                   ELSE ownerSet
    /\ UNCHANGED <<rows, pager, written, replies, overlapped>>

-----------------------------------------------------------------------------
(* Listings.                                                               *)

KeysOf(s, f) == {r.key : r \in {x \in rows[s] : f \in DOMAIN x.vals}}
\* The keys of the key field, or of the field with most keys when that one has none.
list_schema_keys(s) ==
    IF SchemaDef[s].keyField # "none" /\ KeysOf(s, SchemaDef[s].keyField) # {} THEN {KeysOf(s, SchemaDef[s].keyField)}
    ELSE {KeysOf(s, f) : f \in {g \in SchemaDef[s].fields :
                                  \A h \in SchemaDef[s].fields : Cardinality(KeysOf(s, h)) <= Cardinality(KeysOf(s, g))}}
count_schema_records(s) == {Cardinality(K) : K \in list_schema_keys(s)}

INTERNAL_INDEX_SCHEMAS == {"Mention", "MentionBySource", "ExtractionStatus", "IngestionError", "TriggerFiring",
                           "ai_conversations", "ExtractionRule"}
is_internal_index_schema(s) ==
    s \in INTERNAL_INDEX_SCHEMAS \/ (s \in Names /\ SchemaDef[s].label \in INTERNAL_INDEX_SCHEMAS)
\* A hit on a text fragment gets the text of the fragment for its value, when it can be read.
hydrate_fragment_text(h) == IF h.fragment = "stored" THEN [h EXCEPT !.fragment = "text"] ELSE h
native_index_search(includeInternal) ==
    {hydrate_fragment_text(h) : h \in {x \in Hit : includeInternal \/ ~is_internal_index_schema(x.schema)}}

public_fields(s) == {f \in SchemaDef[s].fields : schemas[s].policy[f].tier = 0}
find_writer_pubkey(r) == r.author
\* The rows of friends, cut down to the public fields.
FeedItems(s, friends) ==
    IF public_fields(s) = {} THEN {}
    ELSE {[schema |-> s, key |-> r.key, author |-> find_writer_pubkey(r),
           shown |-> DOMAIN r.vals \cap public_fields(s)] : r \in {x \in rows[s] : find_writer_pubkey(x) \in friends}}
get_feed(l) ==
    LET names == IF l.schema = "none" THEN list_schemas ELSE resolve_schema_name(l.schema) \cap list_schemas
        items == IF l.friends = {} THEN {} ELSE UNION {FeedItems(s, l.friends) : s \in names}
    IN  {[total |-> Cardinality(items), shown |-> T] :
            T \in {S \in SUBSET items :
                      /\ Cardinality(S) = IF Cardinality(items) <= l.limit THEN Cardinality(items) ELSE l.limit
                      /\ \A x \in S, y \in items \ S : x.key.range >= y.key.range}}

Few(S, n) == IF Cardinality(S) <= n THEN Cardinality(S) ELSE n
keys_page(l) ==
    UNION {{[total |-> Cardinality(K), shown |-> T] :
                T \in {S \in SUBSET K : Cardinality(S) = Few(K, l.limit)}} :
              K \in UNION {list_schema_keys(s) : s \in processor_resolve(l.schema)}}

list_keys(l) ==
    /\ l.kind = "keys" /\ replies[l] = NoReply
    /\ \E a \in keys_page(l) : replies' = [replies EXCEPT ![l] = a]
    /\ UNCHANGED <<schemas, rows, pager, written, edit, ownerSet, overlapped>>
feed(l) ==
    /\ l.kind = "feed" /\ replies[l] = NoReply
    /\ \E a \in get_feed(l) : replies' = [replies EXCEPT ![l] = a]
    /\ UNCHANGED <<schemas, rows, pager, written, edit, ownerSet, overlapped>>
search(l) ==
    /\ l.kind = "search" /\ replies[l] = NoReply
    /\ replies' = [replies EXCEPT ![l] = [total |-> Cardinality(native_index_search(FALSE)), shown |-> native_index_search(FALSE)]]
    /\ UNCHANGED <<schemas, rows, pager, written, edit, ownerSet, overlapped>>

QueryNext ==
    \/ \E p \in Pager : execute_query(p)
    \/ \E w \in Write : execute_mutation(w) \/ execute_mutations_batch(w)
ListingNext ==
    \/ \E l \in Listing : list_keys(l) \/ feed(l) \/ search(l)
    \/ \E w \in Write : execute_mutation(w) \/ execute_mutations_batch(w)
SchemaNext ==
    \/ \E e \in Edit : NotFound(e) \/ approve_schema(e) \/ apply_defaults_all(e)
                       \/ apply_classification_defaults_with_force(e) \/ block_schema(e)
                       \/ set_schema_org_hash(e) \/ set_field_access_policy(e) \/ WriteEdit(e)
DataQuerySpec == DataQueryInit /\ [][QueryNext \/ ListingNext \/ SchemaNext]_dataQueryVars

-----------------------------------------------------------------------------
DistinctRanges(S) == \A x, y \in S : x.key.range = y.key.range => x = y

(* A client that reads a query to its last page, sorted by range keys that *)
(* differ, while nobody writes and the schema has no more rows than the    *)
(* fetch cap, has got every row it may see exactly once: the offset,       *)
(* limit and has_more of handlers/query.rs fit together over the pages.    *)
PagesComplete ==
    \A p \in Pager : pager[p].pc = "done" /\ p.sorted /\ Cardinality(pager[p].of) = 1 =>
        LET S == CHOOSE T \in pager[p].of : TRUE
            wanted == {r.key : r \in {x \in S : p.fields \cap DOMAIN x.vals # {} /\ record_matches_value_filters(x, p.least)}}
        IN  DistinctRanges(S) /\ Cardinality(S) <= INTERNAL_FETCH_CAP /\ p.caller = OwnerKey =>
                /\ ToSet(pager[p].got) = wanted
                /\ Len(pager[p].got) = Cardinality(wanted)

(* A policy the owner set on a field stays until the owner sets another,   *)
(* or has the defaults forced on the schema (apply_defaults_all):          *)
(* approving the schema again, tagging it with an organisation and the     *)
(* defaults of the data classes leave it, unless two changes of the schema *)
(* overlapped, each writing back all it had read (schema_ops.rs,           *)
(* trust_ops.rs).                                                          *)
PolicyKept == \A o \in ownerSet : o[1] \notin overlapped => schemas[o[1]].policy[o[2]] = o[3]
==============================================================================
