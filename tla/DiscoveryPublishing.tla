------------------------ MODULE DiscoveryPublishing ------------------------
(***************************************************************************)
(* Publishing to the discovery service: the opt-ins of schemas, the pass   *)
(* that uploads the embeddings of the opted-in schemas and writes a        *)
(* tracking row for each of them, the opt-out that takes them back, the    *)
(* interest profile whose disabled categories are not published, and the   *)
(* search for similar profiles.                                            *)
(*                                                                         *)
(* A pseudonym is derived from the node's key and the bytes of an          *)
(* embedding, so it is named by those bytes.  The service is external: it  *)
(* holds pseudonyms; which schema uploaded one is kept for the properties. *)
(***************************************************************************)
EXTENDS Integers, FiniteSets, Functions

CONSTANTS
    Embedding,     \* rows of the index: [schema, content, field, readable]
    PubCategory,   \* interest categories
    CategoryOf,    \* CategoryOf[s]: the category the fields of schema s are labelled with
    OptInRequest,  \* requests: [schema, category, faces, privacy, preview]
    Sensitive,     \* field names with a pattern of NEVER_PUBLISH
    PeerProfile,   \* PeerProfile[p]: the categories another node published
    StoreLayouts,  \* a subset of BOOLEAN: may the index be kept in the metadata's store?
    MaxDeletes, MaxPublishes, MaxOptOuts   \* bounds of the instance

ASSUME PublishingAssumption ==
    /\ {MaxDeletes, MaxPublishes, MaxOptOuts} \subseteq Nat
    /\ StoreLayouts \subseteq BOOLEAN

VARIABLES
    oneStore,   \* the store of the index is the metadata store: fold_db's choice, for good
    live,       \* rows of the index
    optIns,     \* opt-in configurations, one for a schema
    profile,    \* the interest profile: enabled flag of each detected category
    detected,   \* there is a profile
    uploaded,   \* tracking rows <<schema, pseudonym>>
    service,    \* what the service holds: [schema, pseudonym, space, preview]
    publisher,  \* the publish pass: [pc, todo, disabled, schema, batch, left]
    leaving,    \* the opt-out: [pc, schema, pseudonyms, rows]
    editing,    \* an edit of the profile that has read it: [pc, flags, category, enabled]
    centroids,  \* the category centroids are cached
    gaps,       \* history: uploads <<schema, pseudonym>> whose row was not written, or missed by an opt-out
    similar,    \* the last answer of similar_profiles: [peer, shared]
    deletes, publishes, optOuts   \* spent of the bounds

publishVars == <<oneStore, live, optIns, profile, detected, uploaded, service, publisher, leaving, editing, centroids,
                 gaps, similar, deletes, publishes, optOuts>>
interestVars == <<profile, detected, editing, centroids, similar>>
boundVars == <<deletes, publishes, optOuts>>

Schemas == {r.schema : r \in OptInRequest}
NotPublishing == [pc |-> "idle", todo |-> {}, disabled |-> {}, schema |-> "none", batch |-> {}, left |-> {}]
NotLeaving == [pc |-> "idle", schema |-> "none", pseudonyms |-> {}, rows |-> {}]
NotEditing == [pc |-> "idle", flags |-> <<>>, category |-> "none", enabled |-> FALSE]

PublishInit ==
    /\ oneStore \in StoreLayouts
    /\ live = Embedding
    /\ optIns = {} /\ profile = <<>> /\ detected = FALSE
    /\ uploaded = {} /\ service = {}
    /\ publisher = NotPublishing /\ leaving = NotLeaving /\ editing = NotEditing
    /\ centroids = FALSE /\ gaps = {} /\ similar = {}
    /\ deletes = 0 /\ publishes = 0 /\ optOuts = 0

-----------------------------------------------------------------------------
(* Opt-ins.                                                                *)

save_opt_in(o) == optIns' = {c \in optIns : c.schema # o.schema} \cup {o}
remove_opt_in(s) == optIns' = {c \in optIns : c.schema # s}

opt_in ==
    /\ \E o \in OptInRequest \ optIns : save_opt_in(o)
    /\ UNCHANGED <<live, uploaded, service, publisher, leaving, gaps, interestVars, boundVars>>

(* Removes the configurations and nothing else. *)
opt_out_all ==
    /\ optIns # {} /\ optOuts < MaxOptOuts
    /\ optOuts' = optOuts + 1 /\ optIns' = {}
    /\ UNCHANGED <<live, uploaded, service, publisher, leaving, gaps, interestVars, deletes, publishes>>

(* The record an embedding came from is deleted. *)
delete_record ==
    /\ deletes < MaxDeletes /\ deletes' = deletes + 1
    /\ \E e \in live : live' = live \ {e}
    /\ UNCHANGED <<optIns, uploaded, service, publisher, leaving, gaps, interestVars, publishes, optOuts>>

-----------------------------------------------------------------------------
(* The publish pass.                                                       *)

default_privacy_class(f) == IF f \in Sensitive THEN "never" ELSE "always"
field_privacy(c, f) == IF f \in DOMAIN c.privacy THEN c.privacy[f] ELSE default_privacy_class(f)

(* An old row has no field name and goes by the name of its schema. *)
field_name(e) == IF e.field = "legacy" THEN e.schema ELSE e.field

Scan(s) == {e \in live : e.schema = s /\ e.readable}
TextEntries(c) == {e \in Scan(c.schema) : field_name(e) # "__face__" /\ field_privacy(c, field_name(e)) # "never"}
FaceEntries(c) == {e \in Scan(c.schema) : c.faces /\ e.field = "__face__"}

UploadEntry(c, e, space, preview) ==
    [schema |-> c.schema, pseudonym |-> e.content, space |-> space, preview |-> preview]
upload_entries(c) ==
    {UploadEntry(c, e, "text", c.preview) : e \in TextEntries(c)}
    \cup {UploadEntry(c, e, "face", FALSE) : e \in FaceEntries(c)}

pseudonyms(entries) == {u.pseudonym : u \in entries}

disabled_categories == IF detected THEN {c \in DOMAIN profile : ~profile[c]} ELSE {}

(* The configurations and the disabled categories are read once, at the    *)
(* start; a profile that cannot be read disables nothing.                  *)
publish ==
    /\ publisher.pc = "idle" /\ publishes < MaxPublishes /\ optIns # {}
    /\ publishes' = publishes + 1
    /\ \E d \in {disabled_categories, {}} :
          publisher' = [NotPublishing EXCEPT !.pc = "next", !.todo = optIns, !.disabled = d]
    /\ UNCHANGED <<live, optIns, uploaded, service, leaving, gaps, interestVars, deletes, optOuts>>

NextSchema(p) == [p EXCEPT !.pc = IF p.todo = {} THEN "idle" ELSE "next", !.schema = "none", !.batch = {}, !.left = {}]

(* A schema without entries is passed over; a scan that fails ends the pass. *)
publish_schema ==
    /\ publisher.pc = "next"
    /\ \/ \E c \in publisher.todo :
             LET rest == [publisher EXCEPT !.todo = @ \ {c}]
                 batch == IF c.category \in publisher.disabled THEN {} ELSE upload_entries(c)
             IN publisher' = IF batch = {} THEN NextSchema(rest)
                             ELSE [rest EXCEPT !.pc = "post", !.schema = c.schema, !.batch = batch]
       \/ publisher' = NotPublishing
    /\ UNCHANGED <<live, optIns, uploaded, service, leaving, gaps, interestVars, boundVars>>

(* The service replaces what it has under the same pseudonym. *)
Received(batch) == {u \in service : u.pseudonym \notin pseudonyms(batch)} \cup batch
RowsOf(batch) == {<<u.schema, u.pseudonym>> : u \in batch}

(* An opt-out of the schema has listed what it takes back. *)
Listed(s) == leaving.pc \in {"post", "relist", "clear"} /\ leaving.schema = s

(* The upload reaches the service or not, and the answer may be lost: the  *)
(* pass then ends with an error and nothing is recorded.                   *)
upload ==
    /\ publisher.pc = "post"
    /\ \E reached, answered \in BOOLEAN :
          /\ answered => reached
          /\ service' = IF reached THEN Received(publisher.batch) ELSE service
          /\ publisher' = IF answered THEN [publisher EXCEPT !.pc = "track", !.left = pseudonyms(publisher.batch)]
                          ELSE NotPublishing
          /\ gaps' = IF reached /\ (~answered \/ Listed(publisher.schema)) THEN gaps \cup RowsOf(publisher.batch) ELSE gaps
    /\ UNCHANGED <<live, optIns, uploaded, leaving, interestVars, boundVars>>

(* One row after the other; a failed write ends the pass with an error.    *)
Unrecorded(s) == IF publisher.pc = "track" /\ publisher.schema = s THEN {<<s, p>> : p \in publisher.left} ELSE {}
record_uploaded ==
    /\ publisher.pc = "track"
    /\ \/ \E p \in publisher.left :
            /\ uploaded' = uploaded \cup {<<publisher.schema, p>>}
            /\ publisher' = LET more == [publisher EXCEPT !.left = @ \ {p}]
                            IN IF more.left = {} THEN NextSchema(more) ELSE more
            /\ UNCHANGED gaps
       \/ /\ publisher' = NotPublishing
          /\ gaps' = gaps \cup Unrecorded(publisher.schema)
          /\ UNCHANGED uploaded
    /\ UNCHANGED <<live, optIns, service, leaving, interestVars, boundVars>>

-----------------------------------------------------------------------------
(* Opting a schema out.                                                    *)

(* publish keeps its rows and finds the embeddings in the store of the     *)
(* index; opting out looks for both in the metadata store.                 *)
TrackedRows(s) == {r \in uploaded : r[1] = s}
list_uploaded_pseudonyms(s) == IF oneStore THEN {r[2] : r \in TrackedRows(s)} ELSE {}
derive_schema_pseudonyms(s) == IF oneStore THEN {e.content : e \in Scan(s)} ELSE {}

opt_out ==
    /\ leaving.pc = "idle" /\ optOuts < MaxOptOuts /\ optOuts' = optOuts + 1
    /\ \E s \in Schemas :
          /\ remove_opt_in(s)
          /\ leaving' = [NotLeaving EXCEPT !.pc = "list", !.schema = s]
    /\ UNCHANGED <<live, uploaded, service, publisher, gaps, interestVars, deletes, publishes>>

PseudonymsOf(s) ==
    IF list_uploaded_pseudonyms(s) # {} THEN list_uploaded_pseudonyms(s) ELSE derive_schema_pseudonyms(s)

(* With nothing to take back the opt-out has succeeded; it may also fail.  *)
opt_out_list ==
    /\ leaving.pc = "list"
    /\ \/ /\ leaving' = LET p == PseudonymsOf(leaving.schema)
                         IN [leaving EXCEPT !.pc = IF p = {} THEN "answer" ELSE "post", !.pseudonyms = p]
          /\ gaps' = gaps \cup Unrecorded(leaving.schema)
       \/ leaving' = NotLeaving /\ UNCHANGED gaps
    /\ UNCHANGED <<live, optIns, uploaded, service, publisher, interestVars, boundVars>>

(* The service forgets the pseudonyms, or the request fails; an answer     *)
(* that is lost is a failure too.                                          *)
Forgotten == {u \in service : u.pseudonym \notin leaving.pseudonyms}

(* Faulty variant: a failed request is logged and the rows go all the same. *)
Unpublish_Logged(reached, answered) ==
    /\ answered => reached
    /\ service' = IF reached THEN Forgotten ELSE service
    /\ leaving' = [leaving EXCEPT !.pc = "relist"]

Unpublish(reached, answered) ==
    /\ answered => reached
    /\ service' = IF reached THEN Forgotten ELSE service
    /\ leaving' = IF answered THEN [leaving EXCEPT !.pc = "relist"] ELSE NotLeaving

unpublish_pseudonyms ==
    /\ leaving.pc = "post"
    /\ \E reached, answered \in BOOLEAN : Unpublish(reached, answered)
    /\ UNCHANGED <<live, optIns, uploaded, publisher, gaps, interestVars, boundVars>>

(* The rows are listed again and deleted one by one; the first failure     *)
(* leaves the others.                                                      *)
clear_uploaded ==
    /\ \/ /\ leaving.pc = "relist"
          /\ leaving' = [leaving EXCEPT !.pc = "clear", !.rows = TrackedRows(leaving.schema)]
          /\ UNCHANGED uploaded
       \/ /\ leaving.pc = "clear"
          /\ \E r \in leaving.rows :
                uploaded' = uploaded \ {r} /\ leaving' = [leaving EXCEPT !.rows = @ \ {r}]
       \/ /\ leaving.pc = "clear" /\ leaving.rows = {}
          /\ leaving' = [leaving EXCEPT !.pc = "answer"] /\ UNCHANGED uploaded
       \/ leaving.pc \in {"relist", "clear"} /\ leaving' = NotLeaving /\ UNCHANGED uploaded
    /\ UNCHANGED <<live, optIns, service, publisher, gaps, interestVars, boundVars>>

opt_out_answer ==
    /\ leaving.pc = "answer" /\ leaving' = NotLeaving
    /\ UNCHANGED <<live, optIns, uploaded, service, publisher, gaps, interestVars, boundVars>>

-----------------------------------------------------------------------------
(* The interest profile.                                                   *)

load_interest_profile == IF detected THEN profile ELSE <<>>
Flag(flags, c) == IF c \in DOMAIN flags THEN flags[c] ELSE TRUE

(* The categories of the schemas that are there, with the flags they had.  *)
detect_interests ==
    /\ editing.pc = "idle"
    /\ editing' = [NotEditing EXCEPT !.pc = "detect", !.flags = load_interest_profile]
    /\ UNCHANGED <<live, optIns, uploaded, service, publisher, leaving, gaps, profile, detected, centroids, similar,
                   boundVars>>
detect_interests_from_schemas ==
    /\ editing.pc = "detect" /\ editing' = NotEditing
    /\ profile' = [c \in {CategoryOf[e.schema] : e \in live} |-> Flag(editing.flags, c)]
    /\ detected' = TRUE
    /\ UNCHANGED <<live, optIns, uploaded, service, publisher, leaving, gaps, centroids, similar, boundVars>>

toggle_interest ==
    /\ editing.pc = "idle" /\ detected
    /\ \E c \in DOMAIN profile, on \in BOOLEAN :
          editing' = [pc |-> "toggle", flags |-> profile, category |-> c, enabled |-> on]
    /\ UNCHANGED <<live, optIns, uploaded, service, publisher, leaving, gaps, profile, detected, centroids, similar,
                   boundVars>>
toggle_interest_category ==
    /\ editing.pc = "toggle" /\ editing' = NotEditing
    /\ profile' = [editing.flags EXCEPT ![editing.category] = editing.enabled]
    /\ UNCHANGED <<live, optIns, uploaded, service, publisher, leaving, gaps, detected, centroids, similar, boundVars>>

(* The enabled categories, or those of the opt-ins; a category without a   *)
(* centroid and a search that fails are passed over.                       *)
EnabledCategories == {c \in DOMAIN load_interest_profile : profile[c]}
SearchedCategories == IF EnabledCategories # {} THEN EnabledCategories ELSE {o.category : o \in optIns}
get_or_compute_centroids == centroids' = TRUE
search_with_threshold(c) == {p \in DOMAIN PeerProfile : c \in PeerProfile[p]}
Aggregated(answered) ==
    {[peer |-> p, shared |-> {c \in answered : p \in search_with_threshold(c)}] :
        p \in UNION {search_with_threshold(c) : c \in answered}}
similar_profiles ==
    /\ editing.pc = "idle" /\ SearchedCategories # {}
    /\ get_or_compute_centroids
    /\ \E answered \in SUBSET (SearchedCategories \cap PubCategory) : similar' = Aggregated(answered)
    /\ UNCHANGED <<live, optIns, uploaded, service, publisher, leaving, gaps, profile, detected, editing, boundVars>>

PublishNext ==
    /\ \/ opt_in \/ opt_out_all \/ delete_record
       \/ publish \/ publish_schema \/ upload \/ record_uploaded
       \/ opt_out \/ opt_out_list \/ unpublish_pseudonyms \/ clear_uploaded \/ opt_out_answer
    /\ UNCHANGED oneStore
InterestNext ==
    /\ \/ detect_interests \/ detect_interests_from_schemas \/ toggle_interest \/ toggle_interest_category
       \/ similar_profiles
    /\ UNCHANGED oneStore
PublishSpec == PublishInit /\ [][PublishNext \/ InterestNext]_publishVars

-----------------------------------------------------------------------------
(* Properties.                                                             *)

(* handlers/discovery/mod.rs, opt_out ("leave the tracking table intact so *)
(* a retry can finish the job - no silent drops"): whatever the service    *)
(* holds has a tracking row, or is about to get one, however the uploads   *)
(* and opt-outs before failed half way, overlapped and shared pseudonyms;  *)
(* but for what was uploaded without an answer or a row, and what an       *)
(* opt-out beside the pass could not see.                                  *)
HeldIsTracked ==
    \A u \in service : <<u.schema, u.pseudonym>> \in uploaded \cup gaps \cup Unrecorded(u.schema)

(* handlers/discovery/mod.rs, opt_out, of the tracking rows ("the          *)
(* authoritative record of what we uploaded, complete even if the user has *)
(* since deleted source embeddings locally.  This prevents zombie          *)
(* embeddings surviving opt-out"): an opt-out that is answered with        *)
(* success has taken back every upload that has its row.                   *)
RecordedTakenBack ==
    leaving.pc = "answer" =>
        \A u \in service : u.schema = leaving.schema => <<u.schema, u.pseudonym>> \in gaps \cup Unrecorded(u.schema)
====
