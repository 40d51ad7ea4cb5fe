--------------------------- MODULE ServicesProofs ---------------------------
(***************************************************************************)
(* Proofs about the node's smaller services: the calendar and the data     *)
(* shares of PeerSharing, the opt-out of DiscoveryPublishing, the access   *)
(* policies of DataQueries, the agent of AgentQuery.  Each service is      *)
(* taken with all its actions interleaved.                                 *)
(*                                                                         *)
(* CloudAccount, for any limits of the throttle, any organisations, rows   *)
(* and requests, and any number of crashes: the cloud is not asked too     *)
(* often, an interrupted restore stays resumable, a reset is not undone,   *)
(* and an organisation that was joined is synchronised.                    *)
(***************************************************************************)
EXTENDS DiscoveryPublishing, PeerSharing, AgentQuery, CloudAccount, SequenceTheorems, TLAPS

-----------------------------------------------------------------------------
(* The calendar.                                                           *)

CalTypeOK ==
    /\ calOn \in BOOLEAN /\ calLate \in BOOLEAN
    /\ calLocal \subseteq UNION CalBatch /\ calPeers \subseteq PeerBatch
    /\ syncing \in [pc : {"idle", "save", "done"}, left : SUBSET UNION CalBatch]
    /\ storing \in [pc : {"idle", "save", "done"}, set : SUBSET PeerBatch]
    /\ purging \in [pc : {"idle", "local", "peers", "done", "failed"},
                    local : SUBSET UNION CalBatch, peers : SUBSET PeerBatch]

(* What a purge has still to delete is in its list, and what it has passed *)
(* is gone, as long as the flag has stayed off and nothing was written     *)
(* late.                                                                   *)
PurgeInv ==
    ~calOn /\ ~calLate =>
       /\ purging.pc = "local" => calLocal \subseteq purging.local
       /\ purging.pc \in {"peers", "done"} => calLocal = {}
       /\ purging.pc = "peers" => calPeers \subseteq purging.peers
       /\ purging.pc = "done" => calPeers = {}

(* Every step of the calendar keeps its types and what the purge relies    *)
(* on.                                                                     *)
LEMMA CalendarStep ==
    ASSUME CalTypeOK, PurgeInv, CalendarNext
    PROVE  CalTypeOK' /\ PurgeInv'
<1> USE DEF CalTypeOK, PurgeInv, Works, Fails
<1>1. CASE calendar_sharing_opt_in
  BY <1>1 DEF calendar_sharing_opt_in
<1>2. CASE sync_calendar_events
  BY <1>2 DEF sync_calendar_events
<1>3. CASE save_local_events
  <2>1. /\ UNCHANGED <<calOn, calPeers, storing, purging>>
        /\ syncing' \in [pc : {"idle", "save", "done"}, left : SUBSET UNION CalBatch]
    BY <1>3 DEF save_local_events
  <2>2. CASE UNCHANGED <<calLocal, calLate>>
    BY <2>1, <2>2
  <2>3. CASE /\ \E e \in syncing.left : calLocal' = {f \in calLocal : f.hash # e.hash} \cup {e}
             /\ calLate' = (calLate \/ ~calOn)
    <3>1. calLocal' \subseteq UNION CalBatch
      BY <2>3
    <3>2. calLate' \in BOOLEAN /\ (calOn' \/ calLate')
      BY <2>1, <2>3
    <3> QED
      BY <2>1, <3>1, <3>2
  <2> QED
    BY <1>3, <2>2, <2>3 DEF save_local_events, fingerprint_event
<1>4. CASE store_peer_events
  BY <1>4 DEF store_peer_events
<1>5. CASE save_peer_events
  BY <1>5 DEF save_peer_events
<1>6. CASE calendar_sharing_opt_out
  BY <1>6 DEF calendar_sharing_opt_out, NoPurge
<1>7. CASE clear_all_calendar_data
  <2>1. UNCHANGED <<calOn, syncing, storing, calLate>>
    BY <1>7 DEF clear_all_calendar_data
  <2>2. CASE /\ purging.pc = "local" /\ UNCHANGED calPeers
             /\ \E e \in purging.local : /\ purging' = [purging EXCEPT !.local = @ \ {e}]
                                        /\ calLocal' = {f \in calLocal : f.hash # e.hash}
    BY <2>1, <2>2
  <2>3. CASE /\ purging.pc = "local" /\ purging.local = {} /\ UNCHANGED <<calLocal, calPeers>>
             /\ purging' = [purging EXCEPT !.pc = "peers", !.peers = calPeers]
    BY <2>1, <2>3
  <2>4. CASE /\ purging.pc = "peers" /\ UNCHANGED calLocal
             /\ \E b \in purging.peers : /\ purging' = [purging EXCEPT !.peers = @ \ {b}]
                                        /\ calPeers' = {q \in calPeers : q.peer # b.peer}
    BY <2>1, <2>4
  <2>5. CASE /\ purging.pc = "peers" /\ purging.peers = {} /\ UNCHANGED <<calLocal, calPeers>>
             /\ purging' = [purging EXCEPT !.pc = "done"]
    BY <2>1, <2>5
  <2>6. CASE purging' = [purging EXCEPT !.pc = "failed"] /\ UNCHANGED <<calLocal, calPeers>>
    BY <2>1, <2>6
  <2> QED
    BY <1>7, <2>2, <2>3, <2>4, <2>5, <2>6 DEF clear_all_calendar_data
<1>8. CASE get_shared_events
  BY <1>8 DEF get_shared_events
<1> QED
  BY <1>1, <1>2, <1>3, <1>4, <1>5, <1>6, <1>7, <1>8 DEF CalendarNext

(* The purge of an opt-out (handlers/discovery/calendar.rs) is complete in *)
(* every behaviour of the sharing services, with opt-ins, syncs, events of *)
(* peers and repeated opt-outs in between.                                 *)
THEOREM PurgeCorrect == SharingSpec => []CalendarPurged
<1>1. SharingInit => CalTypeOK /\ PurgeInv
  <2> SUFFICES ASSUME SharingInit
               PROVE  CalTypeOK /\ PurgeInv
    OBVIOUS
  <2>1. /\ ~calOn /\ ~calLate /\ calLocal = {} /\ calPeers = {}
        /\ calOn \in BOOLEAN /\ calLate \in BOOLEAN
        /\ syncing = [pc |-> "idle", left |-> {}] /\ storing = [pc |-> "idle", set |-> {}]
        /\ purging = [pc |-> "idle", local |-> {}, peers |-> {}]
    BY DEF SharingInit, NoPurge
  <2> QED
    BY <2>1 DEF CalTypeOK, PurgeInv
<1>2. CalTypeOK /\ PurgeInv /\ [SharingNext]_sharingVars => (CalTypeOK /\ PurgeInv)'
  <2> SUFFICES ASSUME CalTypeOK, PurgeInv, [SharingNext]_sharingVars
               PROVE  (CalTypeOK /\ PurgeInv)'
    OBVIOUS
  <2>1. CASE CalendarNext
    BY <2>1, CalendarStep
  <2>2. CASE UNCHANGED calVars
    BY <2>2 DEF calVars, CalTypeOK, PurgeInv
  <2> QED
    BY <2>1, <2>2 DEF SharingNext, MomentNext, ReferralNext, InviteNext, DataShareNext, sharingVars
<1>3. CalTypeOK /\ PurgeInv => CalendarPurged
  BY DEF CalTypeOK, PurgeInv, CalendarPurged
<1> QED
  BY <1>1, <1>2, <1>3, PTL DEF SharingSpec

-----------------------------------------------------------------------------
(* Data shares.                                                            *)

RecordKept(i) == i \in stored /\ (Share[i].file => i \in files /\ i \in faces)

DataTypeOK ==
    /\ shareIn \in [pc : {"sent", "write", "file", "faces", "notify", "mark", "done"}, next : Nat]
    /\ stored \subseteq DOMAIN Share /\ notices \in Nat

(* How far a dispatch is, counted in records that are stored for good; a   *)
(* refused share has written nothing.                                      *)
DispatchInv ==
    /\ shareIn.pc \in {"write", "file", "faces"} =>
          /\ validate_data_share_schemas /\ shareIn.next \in DOMAIN Share
          /\ \A i \in 1 .. (shareIn.next - 1) : RecordKept(i)
    /\ shareIn.pc \in {"file", "faces"} => shareIn.next \in stored
    /\ shareIn.pc = "faces" => shareIn.next \in files
    /\ shareIn.pc = "notify" => validate_data_share_schemas
    /\ shareIn.pc \in {"notify", "mark"} /\ validate_data_share_schemas =>
          \A i \in DOMAIN Share : RecordKept(i)
    /\ shareIn.pc = "mark" /\ validate_data_share_schemas => notices > 0
    /\ ~validate_data_share_schemas => stored = {} /\ notices = 0

DataInv == DataTypeOK /\ DispatchInv /\ MarkedShareStored

(* A share is a sequence of records. *)
LEMMA ShareFact == Len(Share) \in Nat /\ DOMAIN Share = 1 .. Len(Share)
BY SharingAssumption

(* When the record a dispatch is at is kept, the next one may follow, or   *)
(* all of them are kept.                                                   *)
LEMMA RecordDone ==
    ASSUME DataInv, shareIn.pc \in {"write", "file", "faces"}, shareIn' = AfterRecord,
           NEW n, n = shareIn.next, RecordKept(n)',
           stored \subseteq stored', stored' \subseteq DOMAIN Share,
           files \subseteq files', faces \subseteq faces', UNCHANGED <<notices, marked>>
    PROVE  DataInv'
<1>1. /\ n \in Nat /\ n \in 1 .. Len(Share) /\ Len(Share) \in Nat /\ validate_data_share_schemas
      /\ \A i \in 1 .. (n - 1) : RecordKept(i)
  BY ShareFact DEF DataInv, DataTypeOK, DispatchInv
<1>2. \A i \in 1 .. n : RecordKept(i)'
  BY <1>1 DEF RecordKept
<1>3. CASE n < Len(Share)
  <2>1. shareIn' = [pc |-> "write", next |-> n + 1] /\ n + 1 \in 1 .. Len(Share)
    BY <1>1, <1>3 DEF AfterRecord
  <2>2. DataTypeOK'
    BY <1>1, <2>1 DEF DataInv, DataTypeOK
  <2>3. DispatchInv'
    <3>1. (n + 1) - 1 = n
      BY <1>1
    <3>2. shareIn'.pc = "write" /\ shareIn'.next = n + 1 /\ shareIn'.next \in DOMAIN Share
      BY <2>1, ShareFact
    <3>3. \A i \in 1 .. (shareIn'.next - 1) : RecordKept(i)'
      BY <1>2, <3>1, <3>2
    <3> QED
      BY <1>1, <3>2, <3>3 DEF DispatchInv, validate_data_share_schemas
  <2>4. MarkedShareStored'
    BY <1>1 DEF DataInv, MarkedShareStored, validate_data_share_schemas
  <2> QED
    BY <2>2, <2>3, <2>4 DEF DataInv
<1>4. CASE ~(n < Len(Share))
  <2>1. shareIn' = [pc |-> "notify", next |-> n + 1] /\ n = Len(Share)
    BY <1>1, <1>4 DEF AfterRecord
  <2>2. DataTypeOK'
    BY <1>1, <2>1 DEF DataInv, DataTypeOK
  <2>3. DispatchInv'
    BY <1>1, <1>2, <2>1, ShareFact DEF DispatchInv, validate_data_share_schemas
  <2>4. MarkedShareStored'
    BY <1>1 DEF DataInv, MarkedShareStored, validate_data_share_schemas
  <2> QED
    BY <2>2, <2>3, <2>4 DEF DataInv
<1> QED
  BY <1>3, <1>4

(* A dispatch that fails starts again at the next poll; what it stored     *)
(* stays.                                                                  *)
LEMMA DispatchRetried ==
    ASSUME DataInv, shareIn' = Retried, UNCHANGED <<stored, files, faces, notices, marked>>
    PROVE  DataInv'
BY DEF DataInv, DataTypeOK, DispatchInv, MarkedShareStored, validate_data_share_schemas, Retried

(* Every step of a dispatch keeps the invariant. *)
LEMMA DataShareStep ==
    ASSUME DataInv, DataShareNext
    PROVE  DataInv'
<1>1. CASE poll_data_share
  <2>1. UNCHANGED <<stored, files, faces, notices, marked>> /\ ~marked
    BY <1>1 DEF poll_data_share
  <2>2. CASE ~validate_data_share_schemas
    <3>1. shareIn' = [pc |-> "mark", next |-> 1]
      BY <1>1, <2>2 DEF poll_data_share
    <3> QED
      BY <2>1, <2>2, <3>1 DEF DataInv, DataTypeOK, DispatchInv, MarkedShareStored, validate_data_share_schemas
  <2>3. CASE validate_data_share_schemas /\ Share = <<>>
    <3>1. shareIn' = [pc |-> "notify", next |-> 1]
      BY <1>1, <2>3 DEF poll_data_share
    <3> QED
      BY <2>1, <2>3, <3>1 DEF DataInv, DataTypeOK, DispatchInv, MarkedShareStored, validate_data_share_schemas
  <2>4. CASE validate_data_share_schemas /\ Share # <<>>
    <3>1. shareIn' = [pc |-> "write", next |-> 1]
      BY <1>1, <2>4 DEF poll_data_share
    <3>2. 1 \in DOMAIN Share /\ 1 .. (1 - 1) = {}
      BY <2>4, SharingAssumption, ShareFact
    <3> QED
      BY <2>1, <2>4, <3>1, <3>2 DEF DataInv, DataTypeOK, DispatchInv, MarkedShareStored, validate_data_share_schemas
  <2> QED
    BY <2>2, <2>3, <2>4
<1>2. CASE write_shared_record
  <2>1. UNCHANGED <<files, faces, notices, marked>> /\ shareIn.pc = "write"
        /\ shareIn.next \in DOMAIN Share /\ stored \subseteq DOMAIN Share
    BY <1>2 DEF write_shared_record, DataInv, DataTypeOK, DispatchInv
  <2>2. CASE stored' = stored \cup {shareIn.next} /\ ~Rec.file /\ shareIn' = AfterRecord
    <3>1. PICK n : n = shareIn.next
      OBVIOUS
    <3>2. RecordKept(n)'
      BY <2>2, <3>1 DEF RecordKept, Rec
    <3> QED
      BY <2>1, <2>2, <3>1, <3>2, RecordDone
  <2>3. CASE stored' = stored \cup {shareIn.next} /\ shareIn' = [shareIn EXCEPT !.pc = "file"]
    BY <2>1, <2>3
    DEF DataInv, DataTypeOK, DispatchInv, MarkedShareStored, RecordKept, validate_data_share_schemas
  <2>4. CASE UNCHANGED stored /\ shareIn' = Retried
    BY <2>1, <2>4, DispatchRetried
  <2> QED
    BY <1>2, <2>2, <2>3, <2>4 DEF write_shared_record
<1>3. CASE save_shared_file
  <2>1. UNCHANGED <<stored, faces, notices, marked>> /\ shareIn.pc = "file"
    BY <1>3 DEF save_shared_file
  <2>2. CASE files' = files \cup {shareIn.next} /\ shareIn' = [shareIn EXCEPT !.pc = "faces"]
    BY <2>1, <2>2
    DEF DataInv, DataTypeOK, DispatchInv, MarkedShareStored, RecordKept, validate_data_share_schemas
  <2>3. CASE UNCHANGED files /\ shareIn' = Retried
    BY <2>1, <2>3, DispatchRetried
  <2> QED
    BY <1>3, <2>2, <2>3 DEF save_shared_file
<1>4. CASE index_shared_faces
  <2>1. UNCHANGED <<stored, files, notices, marked>> /\ shareIn.pc = "faces"
    BY <1>4 DEF index_shared_faces
  <2>2. CASE faces' = faces \cup {shareIn.next} /\ shareIn' = AfterRecord
    <3>1. PICK n : n = shareIn.next
      OBVIOUS
    <3>2. RecordKept(n)' /\ stored \subseteq DOMAIN Share
      BY <2>1, <2>2, <3>1 DEF DataInv, DataTypeOK, DispatchInv, RecordKept
    <3> QED
      BY <2>1, <2>2, <3>1, <3>2, RecordDone
  <2>3. CASE UNCHANGED faces /\ shareIn' = Retried
    BY <2>1, <2>3, DispatchRetried
  <2> QED
    BY <1>4, <2>2, <2>3 DEF index_shared_faces
<1>5. CASE store_notification
  <2>1. UNCHANGED <<stored, files, faces, marked>> /\ shareIn.pc = "notify"
    BY <1>5 DEF store_notification
  <2>2. CASE notices' = notices + 1 /\ shareIn' = [shareIn EXCEPT !.pc = "mark"]
    BY <2>1, <2>2
    DEF DataInv, DataTypeOK, DispatchInv, MarkedShareStored, RecordKept, validate_data_share_schemas
  <2>3. CASE UNCHANGED notices /\ shareIn' = Retried
    BY <2>1, <2>3, DispatchRetried
  <2> QED
    BY <1>5, <2>2, <2>3 DEF store_notification
<1>6. CASE mark_data_share
  <2>1. UNCHANGED <<stored, files, faces, notices>> /\ shareIn.pc = "mark"
    BY <1>6 DEF mark_data_share
  <2>2. CASE marked' /\ shareIn' = [shareIn EXCEPT !.pc = "done"]
    <3>1. CASE validate_data_share_schemas
      <4>1. (\A i \in DOMAIN Share : RecordKept(i)) /\ notices > 0 /\ stored \subseteq DOMAIN Share
        BY <2>1, <3>1 DEF DataInv, DataTypeOK, DispatchInv
      <4>2. MarkedShareStored'
        BY <2>1, <3>1, <4>1 DEF MarkedShareStored, RecordKept, validate_data_share_schemas
      <4> QED
        BY <2>1, <2>2, <3>1, <4>2 DEF DataInv, DataTypeOK, DispatchInv, validate_data_share_schemas
    <3>2. CASE ~validate_data_share_schemas
      BY <2>1, <2>2, <3>2 DEF DataInv, DataTypeOK, DispatchInv, MarkedShareStored, validate_data_share_schemas
    <3> QED
      BY <3>1, <3>2
  <2>3. CASE UNCHANGED marked /\ shareIn' = Retried
    BY <2>1, <2>3, DispatchRetried
  <2> QED
    BY <1>6, <2>2, <2>3 DEF mark_data_share
<1> QED
  BY <1>1, <1>2, <1>3, <1>4, <1>5, <1>6 DEF DataShareNext

(* A data share that is marked as handled (inbound.rs, process_data_share) *)
(* is stored whole or was refused whole, for a share of any length and any *)
(* number of failures and polls.                                           *)
THEOREM ShareCorrect == SharingSpec => []MarkedShareStored
<1>1. SharingInit => DataInv
  BY DEF SharingInit, DataInv, DataTypeOK, DispatchInv, MarkedShareStored
<1>2. DataInv /\ [SharingNext]_sharingVars => DataInv'
  <2> SUFFICES ASSUME DataInv, [SharingNext]_sharingVars
               PROVE  DataInv'
    OBVIOUS
  <2>1. CASE DataShareNext
    BY <2>1, DataShareStep
  <2>2. CASE UNCHANGED dataVars
    BY <2>2 DEF dataVars, DataInv, DataTypeOK, DispatchInv, MarkedShareStored, RecordKept,
                validate_data_share_schemas
  <2> QED
    BY <2>1, <2>2 DEF SharingNext, MomentNext, ReferralNext, InviteNext, CalendarNext, sharingVars
<1>3. DataInv => MarkedShareStored
  BY DEF DataInv
<1> QED
  BY <1>1, <1>2, <1>3, PTL DEF SharingSpec

-----------------------------------------------------------------------------
(* Opting out of publishing.                                               *)

(* The records of the two handlers have their fields. *)
HandlersFormed ==
    /\ publisher = [pc |-> publisher.pc, todo |-> publisher.todo, disabled |-> publisher.disabled,
                    schema |-> publisher.schema, batch |-> publisher.batch, left |-> publisher.left]
    /\ leaving = [pc |-> leaving.pc, schema |-> leaving.schema, pseudonyms |-> leaving.pseudonyms,
                   rows |-> leaving.rows]

BatchOfSchema == publisher.pc = "post" => \A u \in publisher.batch : u.schema = publisher.schema

InGap(u) == <<u.schema, u.pseudonym>> \in gaps

(* HeldIsTracked, with the rows about to be written spelled out. *)
UploadTracked ==
    \A u \in service : ~InGap(u) =>
       \/ <<u.schema, u.pseudonym>> \in uploaded
       \/ publisher.pc = "track" /\ publisher.schema = u.schema /\ u.pseudonym \in publisher.left

(* What the opt-out asks the service to forget is all it holds of the      *)
(* schema, gaps aside; when its rows go it holds nothing of it.            *)
TakenBack ==
    /\ leaving.pc = "post" =>
          \A u \in service : u.schema = leaving.schema /\ ~InGap(u) => u.pseudonym \in leaving.pseudonyms
    /\ leaving.pc \in {"relist", "clear"} => \A u \in service : u.schema = leaving.schema => InGap(u)
    /\ leaving.pc = "clear" => \A r \in leaving.rows : r[1] = leaving.schema

OptOutInv == HandlersFormed /\ BatchOfSchema /\ UploadTracked /\ TakenBack

(* What is about to be recorded of a schema. *)
LEMMA UnrecordedFact ==
    \A a, b : <<a, b>> \in Unrecorded(a) <=>
                  publisher.pc = "track" /\ publisher.schema = a /\ b \in publisher.left
<1> TAKE a, b
<1>1. CASE publisher.pc = "track" /\ publisher.schema = a
  <2>1. Unrecorded(a) = {<<a, p>> : p \in publisher.left}
    BY <1>1 DEF Unrecorded
  <2>2. \A p : <<a, p>> = <<a, b>> => p = b
    OBVIOUS
  <2> QED
    BY <1>1, <2>1, <2>2
<1>2. CASE ~(publisher.pc = "track" /\ publisher.schema = a)
  BY <1>2 DEF Unrecorded
<1> QED
  BY <1>1, <1>2

(* The entries uploaded for a configuration are those of its schema. *)
LEMMA EntriesOfSchema == \A c : \A u \in upload_entries(c) : u.schema = c.schema
BY DEF upload_entries, UploadEntry

(* A step of the publish pass that leaves the service alone and tracks     *)
(* nothing less.                                                           *)
LEMMA PublisherMoves ==
    ASSUME OptOutInv, HandlersFormed', BatchOfSchema',
           UNCHANGED <<service, uploaded, leaving, gaps>>,
           publisher.pc # "track"
    PROVE  OptOutInv'
BY DEF OptOutInv, HandlersFormed, UploadTracked, TakenBack, InGap

(* A step that ends a schema leaves the publish pass between two schemas. *)
LEMMA NextSchemaFact ==
    ASSUME HandlersFormed
    PROVE  \E pc \in {"idle", "next"} :
             NextSchema(publisher) = [pc |-> pc, todo |-> publisher.todo, disabled |-> publisher.disabled,
                                      schema |-> "none", batch |-> {}, left |-> {}]
<1> DEFINE pc == IF publisher.todo = {} THEN "idle" ELSE "next"
<1>1. NextSchema(publisher) = [publisher EXCEPT !.pc = pc, !.schema = "none", !.batch = {}, !.left = {}]
  BY DEF NextSchema
<1>2. pc \in {"idle", "next"}
  OBVIOUS
<1> HIDE DEF pc
<1>3. NextSchema(publisher) = [pc |-> pc, todo |-> publisher.todo, disabled |-> publisher.disabled,
                               schema |-> "none", batch |-> {}, left |-> {}]
  <2>1. PICK r : r = [publisher EXCEPT !.pc = pc, !.schema = "none", !.batch = {}, !.left = {}]
    OBVIOUS
  <2>2. publisher = [pc |-> publisher.pc, todo |-> publisher.todo, disabled |-> publisher.disabled,
                     schema |-> publisher.schema, batch |-> publisher.batch, left |-> publisher.left]
    BY DEF HandlersFormed
  <2>3. r = [pc |-> pc, todo |-> publisher.todo, disabled |-> publisher.disabled,
             schema |-> "none", batch |-> {}, left |-> {}]
    BY ONLY <2>1, <2>2
  <2> QED
    BY <1>1, <2>1, <2>3
<1> QED
  BY <1>2, <1>3

(* A pass that is over has its fields and no batch. *)
LEMMA NotPublishingFact ==
    ASSUME publisher' = NotPublishing, UNCHANGED leaving, HandlersFormed
    PROVE  HandlersFormed' /\ BatchOfSchema' /\ publisher'.pc = "idle"
BY DEF NotPublishing, HandlersFormed, BatchOfSchema

(* The upload of a batch. *)
LEMMA UploadStep ==
    ASSUME OptOutInv, upload
    PROVE  OptOutInv'
<1>1. PICK reached \in BOOLEAN, answered \in BOOLEAN :
        /\ answered => reached
        /\ service' = IF reached THEN Received(publisher.batch) ELSE service
        /\ publisher' = IF answered
                        THEN [publisher EXCEPT !.pc = "track", !.left = pseudonyms(publisher.batch)]
                        ELSE NotPublishing
        /\ gaps' = IF reached /\ (~answered \/ Listed(publisher.schema))
                   THEN gaps \cup RowsOf(publisher.batch) ELSE gaps
  BY DEF upload
<1>2. publisher.pc = "post" /\ UNCHANGED <<uploaded, leaving>>
  BY DEF upload
<1>3. \A u \in publisher.batch : u.schema = publisher.schema
  BY <1>2 DEF OptOutInv, BatchOfSchema
<1>4. \A u \in service' : u \in service \/ (reached /\ u \in publisher.batch)
  BY <1>1 DEF Received
<1>5. gaps \subseteq gaps' /\ \A u : ~InGap(u)' => ~InGap(u)
  BY <1>1 DEF InGap
<1>6. \A u \in service : ~InGap(u) => <<u.schema, u.pseudonym>> \in uploaded
  BY <1>2 DEF OptOutInv, UploadTracked
<1>7. \A u \in publisher.batch : reached /\ (~answered \/ Listed(publisher.schema)) => InGap(u)'
  BY <1>1 DEF InGap, RowsOf
<1>8. TakenBack'
  <2>1. ASSUME leaving.pc \in {"post", "relist", "clear"}, NEW u \in service', u.schema = leaving.schema,
               ~InGap(u)'
        PROVE  u \in service /\ ~InGap(u)
    <3>1. u \notin publisher.batch \/ ~reached
      BY <1>3, <1>7, <2>1 DEF Listed
    <3> QED
      BY <1>4, <1>5, <2>1, <3>1
  <2> QED
    BY <1>2, <2>1 DEF OptOutInv, TakenBack
<1>9. CASE answered
  <2>1. publisher' = [publisher EXCEPT !.pc = "track", !.left = pseudonyms(publisher.batch)] /\ reached
    BY <1>1, <1>9
  <2>2. /\ publisher'.pc = "track" /\ publisher'.schema = publisher.schema
        /\ publisher'.left = pseudonyms(publisher.batch)
        /\ HandlersFormed' /\ BatchOfSchema'
    BY <1>2, <2>1 DEF OptOutInv, HandlersFormed, BatchOfSchema
  <2>3. UploadTracked'
    <3> SUFFICES ASSUME NEW u \in service', ~InGap(u)'
                 PROVE  \/ <<u.schema, u.pseudonym>> \in uploaded
                        \/ publisher.schema = u.schema /\ u.pseudonym \in pseudonyms(publisher.batch)
      BY <1>2, <2>2 DEF UploadTracked
    <3>1. CASE u \in service
      BY <1>5, <1>6, <3>1
    <3>2. CASE u \in publisher.batch
      BY <1>3, <3>2 DEF pseudonyms
    <3> QED
      BY <1>4, <3>1, <3>2
  <2> QED
    BY <1>8, <2>2, <2>3 DEF OptOutInv
<1>10. CASE ~answered
  <2>1. HandlersFormed' /\ BatchOfSchema'
    BY <1>1, <1>2, <1>10, NotPublishingFact DEF OptOutInv
  <2>2. \A u \in service' : ~InGap(u)' => u \in service /\ ~InGap(u)
    BY <1>4, <1>5, <1>7, <1>10
  <2>3. UploadTracked'
    BY <1>2, <1>6, <2>2 DEF UploadTracked
  <2> QED
    BY <1>8, <2>1, <2>3 DEF OptOutInv
<1> QED
  BY <1>9, <1>10

(* The tracking rows of an upload. *)
LEMMA RecordStep ==
    ASSUME OptOutInv, record_uploaded
    PROVE  OptOutInv'
<1>1. publisher.pc = "track" /\ UNCHANGED <<service, leaving>>
  BY DEF record_uploaded
<1>2. ASSUME NEW p \in publisher.left,
             uploaded' = uploaded \cup {<<publisher.schema, p>>}, UNCHANGED gaps,
             publisher' = LET more == [publisher EXCEPT !.left = @ \ {p}]
                          IN IF more.left = {} THEN NextSchema(more) ELSE more
      PROVE  OptOutInv'
  <2>a. PICK more : more = [publisher EXCEPT !.left = publisher.left \ {p}]
    OBVIOUS
  <2>b. publisher' = IF more.left = {} THEN NextSchema(more) ELSE more
    BY <1>2, <2>a
  <2>c. more = [pc |-> publisher.pc, todo |-> publisher.todo, disabled |-> publisher.disabled,
                schema |-> publisher.schema, batch |-> publisher.batch, left |-> publisher.left \ {p}]
    <3>1. publisher = [pc |-> publisher.pc, todo |-> publisher.todo, disabled |-> publisher.disabled,
                       schema |-> publisher.schema, batch |-> publisher.batch, left |-> publisher.left]
      BY DEF OptOutInv, HandlersFormed
    <3> QED
      BY ONLY <2>a, <3>1
  <2>1. /\ more = [pc |-> "track", todo |-> publisher.todo, disabled |-> publisher.disabled,
                   schema |-> publisher.schema, batch |-> publisher.batch, left |-> publisher.left \ {p}]
        /\ publisher' = IF more.left = {} THEN NextSchema(more) ELSE more
    BY ONLY <1>1, <2>b, <2>c
  <2>2. HandlersFormed' /\ BatchOfSchema'
    BY <1>1, <2>1 DEF OptOutInv, HandlersFormed, BatchOfSchema, NextSchema
  <2>3. \/ publisher'.pc = "track" /\ publisher'.schema = publisher.schema
           /\ publisher'.left = publisher.left \ {p}
        \/ publisher.left \ {p} = {}
    BY <2>1
  <2>4. UploadTracked'
    <3> SUFFICES ASSUME NEW u \in service, ~InGap(u), publisher.schema = u.schema,
                        u.pseudonym \in publisher.left, u.pseudonym # p
                 PROVE  /\ publisher'.pc = "track" /\ publisher'.schema = u.schema
                        /\ u.pseudonym \in publisher'.left
      BY <1>1, <1>2 DEF OptOutInv, UploadTracked, InGap
    <3> QED
      BY <2>3
  <2>5. TakenBack'
    BY <1>1, <1>2 DEF OptOutInv, TakenBack, InGap
  <2> QED
    BY <2>2, <2>4, <2>5 DEF OptOutInv
<1>3. CASE publisher' = NotPublishing /\ gaps' = gaps \cup Unrecorded(publisher.schema) /\ UNCHANGED uploaded
  <2>1. HandlersFormed' /\ BatchOfSchema'
    BY <1>1, <1>3, NotPublishingFact DEF OptOutInv
  <2>2. \A u : ~InGap(u)' => ~InGap(u) /\ ~(publisher.schema = u.schema /\ u.pseudonym \in publisher.left)
    BY <1>1, <1>3, UnrecordedFact DEF InGap
  <2>3. UploadTracked'
    BY <1>1, <1>3, <2>2 DEF OptOutInv, UploadTracked
  <2>4. TakenBack'
    BY <1>1, <1>3, <2>2 DEF OptOutInv, TakenBack
  <2> QED
    BY <2>1, <2>3, <2>4 DEF OptOutInv
<1> QED
  BY <1>2, <1>3 DEF record_uploaded

(* The list of pseudonyms an opt-out takes back: a schema with entries on  *)
(* the service and no upload at work has a tracking row for each of them,  *)
(* so the pseudonyms derived from the rows of the index are not needed.    *)
LEMMA ListStep ==
    ASSUME OptOutInv, opt_out_list
    PROVE  OptOutInv'
<1> DEFINE s == leaving.schema
           p == PseudonymsOf(s)
<1>1. leaving.pc = "list" /\ UNCHANGED <<uploaded, service, publisher>>
  BY DEF opt_out_list
<1>2. CASE leaving' = NotLeaving /\ UNCHANGED gaps
  BY <1>1, <1>2 DEF NotLeaving, OptOutInv, HandlersFormed, BatchOfSchema, UploadTracked, TakenBack, InGap
<1>3. CASE /\ leaving' = [leaving EXCEPT !.pc = IF p = {} THEN "answer" ELSE "post", !.pseudonyms = p]
           /\ gaps' = gaps \cup Unrecorded(s)
  <2>1. PICK q : q = p
    OBVIOUS
  <2>2. /\ leaving' = [pc |-> IF q = {} THEN "answer" ELSE "post", schema |-> s, pseudonyms |-> q,
                       rows |-> leaving.rows]
        /\ HandlersFormed' /\ BatchOfSchema'
    <3> HIDE DEF p
    <3> QED
      BY <1>1, <1>3, <2>1 DEF OptOutInv, HandlersFormed, BatchOfSchema
  <2>3. UploadTracked'
    BY <1>1, <1>3 DEF OptOutInv, UploadTracked, InGap
  <2>4. ASSUME oneStore, NEW u \in service, u.schema = s, ~InGap(u)'
        PROVE  u.pseudonym \in q
    <3>1. ~InGap(u) /\ ~(publisher.pc = "track" /\ publisher.schema = s /\ u.pseudonym \in publisher.left)
      BY <1>3, <2>4, UnrecordedFact DEF InGap
    <3>2. <<s, u.pseudonym>> \in uploaded
      BY <2>4, <3>1 DEF OptOutInv, UploadTracked
    <3>3. <<s, u.pseudonym>>[1] = s /\ <<s, u.pseudonym>>[2] = u.pseudonym
      OBVIOUS
    <3>4. u.pseudonym \in list_uploaded_pseudonyms(s)
      BY <2>4, <3>2, <3>3 DEF list_uploaded_pseudonyms, TrackedRows
    <3> QED
      BY <2>1, <3>4 DEF PseudonymsOf
  <2>5. ~oneStore => q = {}
    BY <2>1 DEF PseudonymsOf, list_uploaded_pseudonyms, derive_schema_pseudonyms
  <2>6. TakenBack'
    BY <1>1, <2>2, <2>4, <2>5 DEF TakenBack
  <2> QED
    BY <2>2, <2>3, <2>6 DEF OptOutInv
<1> QED
  BY <1>2, <1>3 DEF opt_out_list

(* The request that takes the pseudonyms back. *)
LEMMA UnpublishStep ==
    ASSUME OptOutInv, unpublish_pseudonyms
    PROVE  OptOutInv'
<1>1. leaving.pc = "post" /\ UNCHANGED <<uploaded, publisher, gaps>>
  BY DEF unpublish_pseudonyms
<1>2. PICK reached \in BOOLEAN, answered \in BOOLEAN : Unpublish(reached, answered)
  BY DEF unpublish_pseudonyms
<1>3. service' \subseteq service
  BY <1>2 DEF Unpublish, Forgotten
<1>4. HandlersFormed' /\ BatchOfSchema' /\ UploadTracked'
  BY <1>1, <1>2, <1>3 DEF OptOutInv, HandlersFormed, BatchOfSchema, UploadTracked, Unpublish, NotLeaving, InGap
<1>5. TakenBack'
  <2>1. CASE answered
    <3>1. leaving' = [leaving EXCEPT !.pc = "relist"] /\ service' = Forgotten
      BY <1>2, <2>1 DEF Unpublish
    <3>2. leaving'.pc = "relist" /\ leaving'.schema = leaving.schema
      BY <3>1 DEF OptOutInv, HandlersFormed
    <3> QED
      BY <1>1, <3>1, <3>2 DEF OptOutInv, TakenBack, Forgotten, InGap
  <2>2. CASE ~answered
    BY <1>2, <2>2 DEF TakenBack, Unpublish, NotLeaving
  <2> QED
    BY <2>1, <2>2
<1> QED
  BY <1>4, <1>5 DEF OptOutInv

(* The deletion of the tracking rows, once nothing of the schema is left   *)
(* on the service: listed again, one by one, ended or broken off.          *)
LEMMA ClearStep ==
    ASSUME OptOutInv, clear_uploaded
    PROVE  OptOutInv'
<1>1. leaving.pc \in {"relist", "clear"} /\ UNCHANGED <<service, publisher, gaps>>
  BY DEF clear_uploaded
<1>2. \A u \in service : u.schema = leaving.schema => InGap(u)
  BY <1>1 DEF OptOutInv, TakenBack
<1>3. ASSUME \A r \in uploaded : r[1] # leaving.schema => r \in uploaded'
      PROVE  UploadTracked'
  <2> SUFFICES ASSUME NEW u \in service, ~InGap(u), <<u.schema, u.pseudonym>> \in uploaded
               PROVE  <<u.schema, u.pseudonym>> \in uploaded'
    BY <1>1 DEF OptOutInv, UploadTracked, InGap
  <2>1. u.schema # leaving.schema
    BY <1>2
  <2>2. <<u.schema, u.pseudonym>>[1] = u.schema
    OBVIOUS
  <2> QED
    BY <1>3, <2>1, <2>2
<1>4. CASE /\ leaving.pc = "relist" /\ UNCHANGED uploaded
           /\ leaving' = [leaving EXCEPT !.pc = "clear", !.rows = TrackedRows(leaving.schema)]
  <2>1. \A r \in TrackedRows(leaving.schema) : r[1] = leaving.schema
    BY DEF TrackedRows
  <2>2. PICK rows1 : rows1 = TrackedRows(leaving.schema)
    OBVIOUS
  <2>3. leaving' = [pc |-> "clear", schema |-> leaving.schema, pseudonyms |-> leaving.pseudonyms, rows |-> rows1]
    BY <1>4, <2>2 DEF OptOutInv, HandlersFormed
  <2>4. HandlersFormed' /\ BatchOfSchema' /\ TakenBack'
    BY <1>1, <1>2, <2>1, <2>2, <2>3 DEF OptOutInv, HandlersFormed, BatchOfSchema, TakenBack, InGap
  <2> QED
    BY <1>3, <1>4, <2>4 DEF OptOutInv
<1>5. ASSUME leaving.pc = "clear",
             NEW r \in leaving.rows, uploaded' = uploaded \ {r}, leaving' = [leaving EXCEPT !.rows = leaving.rows \ {r}]
      PROVE  OptOutInv'
  <2>1. r[1] = leaving.schema
    BY <1>5 DEF OptOutInv, TakenBack
  <2>2. UploadTracked'
    BY <1>3, <1>5, <2>1
  <2>3. leaving' = [pc |-> "clear", schema |-> leaving.schema, pseudonyms |-> leaving.pseudonyms,
                    rows |-> leaving.rows \ {r}]
    BY <1>5 DEF OptOutInv, HandlersFormed
  <2>4. HandlersFormed' /\ BatchOfSchema' /\ TakenBack'
    BY <1>1, <1>2, <1>5, <2>3 DEF OptOutInv, HandlersFormed, BatchOfSchema, TakenBack, InGap
  <2> QED
    BY <2>2, <2>4 DEF OptOutInv
<1>6. CASE (leaving' = [leaving EXCEPT !.pc = "answer"] \/ leaving' = NotLeaving) /\ UNCHANGED uploaded
  <2>1. HandlersFormed' /\ BatchOfSchema' /\ TakenBack'
    BY <1>1, <1>6 DEF OptOutInv, HandlersFormed, BatchOfSchema, TakenBack, NotLeaving
  <2> QED
    BY <1>3, <1>6, <2>1 DEF OptOutInv
<1> QED
  BY <1>4, <1>5, <1>6 DEF clear_uploaded

(* Whatever the service holds has its row or is about to get it            *)
(* (handlers/discovery/mod.rs, opt_out and publish), with publish passes,  *)
(* opt-outs failing half way, opt-ins, deleted records and edits of the    *)
(* profile in between, and the index in the metadata's store or not; gaps  *)
(* are the uploads without an answer or a row, and those an opt-out beside *)
(* the pass could not see.                                                 *)
THEOREM TrackedCorrect == PublishSpec => []HeldIsTracked
<1>1. PublishInit => OptOutInv
  BY DEF PublishInit, NotPublishing, NotLeaving, OptOutInv, HandlersFormed, BatchOfSchema, UploadTracked, TakenBack
<1>2. OptOutInv /\ [PublishNext \/ InterestNext]_publishVars => OptOutInv'
  <2> SUFFICES ASSUME OptOutInv, [PublishNext \/ InterestNext]_publishVars
               PROVE  OptOutInv'
    OBVIOUS
  <2>1. CASE UNCHANGED <<uploaded, service, publisher, leaving, gaps>>
    BY <2>1 DEF OptOutInv, HandlersFormed, BatchOfSchema, UploadTracked, TakenBack, InGap
  <2>2. CASE publish
    <3>1. publisher.pc = "idle" /\ UNCHANGED <<service, uploaded, leaving, gaps>>
      BY <2>2 DEF publish
    <3>2. HandlersFormed' /\ BatchOfSchema'
      BY <2>2 DEF publish, NotPublishing, OptOutInv, HandlersFormed, BatchOfSchema
    <3> QED
      BY <3>1, <3>2, PublisherMoves
  <2>3. CASE publish_schema
    <3>1. publisher.pc = "next" /\ UNCHANGED <<service, uploaded, leaving, gaps>>
      BY <2>3 DEF publish_schema
    <3>2. ASSUME NEW c \in publisher.todo,
             LET rest == [publisher EXCEPT !.todo = @ \ {c}]
                 batch == IF c.category \in publisher.disabled THEN {} ELSE upload_entries(c)
             IN publisher' = IF batch = {} THEN NextSchema(rest)
                             ELSE [rest EXCEPT !.pc = "post", !.schema = c.schema, !.batch = batch]
          PROVE HandlersFormed' /\ BatchOfSchema'
      BY <3>1, <3>2, EntriesOfSchema DEF NextSchema, OptOutInv, HandlersFormed, BatchOfSchema
    <3>3. publisher' = NotPublishing => HandlersFormed' /\ BatchOfSchema'
      BY <3>1, NotPublishingFact DEF OptOutInv
    <3>4. HandlersFormed' /\ BatchOfSchema'
      BY <2>3, <3>2, <3>3 DEF publish_schema
    <3> QED
      BY <3>1, <3>4, PublisherMoves
  <2>4. CASE upload
    BY <2>4, UploadStep
  <2>5. CASE record_uploaded
    BY <2>5, RecordStep
  <2>6. CASE opt_out
    BY <2>6 DEF opt_out, NotLeaving, OptOutInv, HandlersFormed, BatchOfSchema, UploadTracked, TakenBack, InGap
  <2>7. CASE opt_out_list
    BY <2>7, ListStep
  <2>8. CASE unpublish_pseudonyms
    BY <2>8, UnpublishStep
  <2>9. CASE clear_uploaded
    BY <2>9, ClearStep
  <2>10. CASE opt_out_answer
    BY <2>10 DEF opt_out_answer, NotLeaving, OptOutInv, HandlersFormed, BatchOfSchema, UploadTracked, TakenBack, InGap
  <2>11. CASE opt_in \/ opt_out_all \/ delete_record
    BY <2>1, <2>11 DEF opt_in, opt_out_all, delete_record
  <2>12. CASE InterestNext
    BY <2>1, <2>12 DEF InterestNext, detect_interests, detect_interests_from_schemas, toggle_interest,
                       toggle_interest_category, similar_profiles
  <2>13. CASE UNCHANGED publishVars
    BY <2>1, <2>13 DEF publishVars
  <2> QED
    BY <2>2, <2>3, <2>4, <2>5, <2>6, <2>7, <2>8, <2>9, <2>10, <2>11, <2>12, <2>13 DEF PublishNext
<1>3. OptOutInv => HeldIsTracked
  BY UnrecordedFact DEF OptOutInv, UploadTracked, HeldIsTracked, InGap
<1> QED
  BY <1>1, <1>2, <1>3, PTL DEF PublishSpec

-----------------------------------------------------------------------------
(* Access policies.                                                        *)

(* The schemas and the changes at work have their fields. *)
SchemasFormed ==
    /\ schemas = [s \in Names |-> schemas[s]]
    /\ \A s \in Names :
          /\ schemas[s] = [state |-> schemas[s].state, org |-> schemas[s].org, policy |-> schemas[s].policy]
          /\ schemas[s].policy = [f \in SchemaDef[s].fields |-> schemas[s].policy[f]]
    /\ edit = [e \in Edit |-> edit[e]]

IsHeld(e) == edit[e].pc = "held"
TodoNamed == \A e \in Edit : edit[e].todo \subseteq Names

(* What a change has read is what is stored, but for the policy it sets,   *)
(* unless two changes of the schema overlapped.                            *)
CopyFits(e) ==
    /\ edit[e].on \in Names /\ e.kind \in {"approve", "defaults", "reset", "org", "policy"}
    /\ edit[e].copy.policy = [f \in SchemaDef[edit[e].on].fields |-> edit[e].copy.policy[f]]
    /\ e.kind = "policy" => /\ edit[e].on = e.schema /\ e.field \in SchemaDef[e.schema].fields
                            /\ edit[e].copy.policy[e.field] = e.policy
    /\ edit[e].on \notin overlapped =>
          \A f \in SchemaDef[edit[e].on].fields :
             (e.kind = "policy" /\ f = e.field) \/ edit[e].copy.policy[f] = schemas[edit[e].on].policy[f]
CopyCurrent == \A e \in Edit : IsHeld(e) => CopyFits(e)

(* Only one change of a schema is at work, unless two overlapped. *)
HeldAlone ==
    \A e1, e2 \in Edit : IsHeld(e1) /\ IsHeld(e2) /\ edit[e1].on = edit[e2].on
                           /\ edit[e1].on \notin overlapped => e1 = e2

(* The owner sets policies of fields that are there. *)
OwnerSetFormed ==
    \A o \in ownerSet : \E e \in Edit : /\ o = <<e.schema, e.field, e.policy>> /\ e.schema \in Names
                                        /\ e.field \in SchemaDef[e.schema].fields

PolicyInv == SchemasFormed /\ TodoNamed /\ CopyCurrent /\ HeldAlone /\ OwnerSetFormed /\ PolicyKept

SamePolicies == \A t \in Names : schemas'[t].policy = schemas[t].policy

(* Setting the state of a schema leaves the policies of all. *)
LEMMA StateWritten ==
    ASSUME SchemasFormed, NEW s \in Names, NEW state, schemas' = [schemas EXCEPT ![s].state = state],
           NEW e \in Edit, NEW w, edit' = [edit EXCEPT ![e] = w]
    PROVE  SchemasFormed' /\ SamePolicies
<1>0. PICK r : r = schemas[s]
  OBVIOUS
<1>1. r = [state |-> r.state, org |-> r.org, policy |-> r.policy]
  BY <1>0 DEF SchemasFormed
<1>2. schemas' = [t \in Names |-> IF t = s THEN [r EXCEPT !.state = state] ELSE schemas[t]]
  BY <1>0 DEF SchemasFormed
<1>3. [r EXCEPT !.state = state] = [state |-> state, org |-> r.org, policy |-> r.policy]
  BY <1>1
<1>4. /\ schemas'[s] = [state |-> state, org |-> schemas[s].org, policy |-> schemas[s].policy]
      /\ \A t \in Names : t # s => schemas'[t] = schemas[t]
      /\ schemas' = [t \in Names |-> schemas'[t]]
  BY <1>0, <1>2, <1>3
<1>5. SamePolicies
  BY <1>4 DEF SamePolicies
<1>6. edit' = [d \in Edit |-> edit'[d]]
  BY DEF SchemasFormed
<1> QED
  BY <1>4, <1>5, <1>6 DEF SchemasFormed

(* Writing a schema back replaces its policies and no other's. *)
LEMMA SchemaWritten ==
    ASSUME SchemasFormed, NEW s \in Names, NEW o, NEW p,
           p = [f \in SchemaDef[s].fields |-> p[f]],
           schemas' = [schemas EXCEPT ![s].org = o, ![s].policy = p],
           NEW e \in Edit, NEW w, edit' = [edit EXCEPT ![e] = w]
    PROVE  /\ SchemasFormed' /\ schemas'[s].policy = p
           /\ \A t \in Names : t # s => schemas'[t] = schemas[t]
<1>0. PICK r : r = schemas[s]
  OBVIOUS
<1>1. r = [state |-> r.state, org |-> r.org, policy |-> r.policy]
  BY <1>0 DEF SchemasFormed
<1>2. schemas' = [t \in Names |-> IF t = s THEN [r EXCEPT !.org = o, !.policy = p] ELSE schemas[t]]
  BY <1>0 DEF SchemasFormed
<1>3. [r EXCEPT !.org = o, !.policy = p] = [state |-> r.state, org |-> o, policy |-> p]
  <2>1. PICK q : q = [r EXCEPT !.org = o, !.policy = p]
    OBVIOUS
  <2>2. q = [state |-> r.state, org |-> o, policy |-> p]
    BY ONLY <1>1, <2>1
  <2> QED
    BY <2>1, <2>2
<1>4. /\ schemas'[s] = [state |-> schemas[s].state, org |-> o, policy |-> p]
      /\ \A t \in Names : t # s => schemas'[t] = schemas[t]
      /\ schemas' = [t \in Names |-> schemas'[t]]
  BY <1>0, <1>2, <1>3
<1>5. edit' = [d \in Edit |-> edit'[d]]
  BY DEF SchemasFormed
<1>6. schemas'[s].policy = p
  BY <1>4
<1>7. \A t \in Names :
         /\ schemas'[t] = [state |-> schemas'[t].state, org |-> schemas'[t].org, policy |-> schemas'[t].policy]
         /\ schemas'[t].policy = [f \in SchemaDef[t].fields |-> schemas'[t].policy[f]]
  <2> SUFFICES ASSUME NEW t \in Names
               PROVE  /\ schemas'[t] = [state |-> schemas'[t].state, org |-> schemas'[t].org, policy |-> schemas'[t].policy]
                      /\ schemas'[t].policy = [f \in SchemaDef[t].fields |-> schemas'[t].policy[f]]
    OBVIOUS
  <2>1. CASE t = s
    BY <1>4, <1>6, <2>1
  <2>2. CASE t # s
    BY <1>4, <2>2 DEF SchemasFormed
  <2> QED
    BY <2>1, <2>2
<1> QED
  BY <1>4, <1>5, <1>6, <1>7 DEF SchemasFormed

(* The parts of an entry of ownerSet. *)
LEMMA OwnerSetParts ==
    ASSUME OwnerSetFormed, NEW o \in ownerSet
    PROVE  /\ o[1] \in Names /\ o[2] \in SchemaDef[o[1]].fields /\ o[3] # NoPolicy
<1>1. PICK e \in Edit : /\ o = <<e.schema, e.field, e.policy>> /\ e.schema \in Names
                        /\ e.field \in SchemaDef[e.schema].fields
  BY DEF OwnerSetFormed
<1>2. o[1] = e.schema /\ o[2] = e.field /\ o[3] = e.policy
  BY <1>1
<1> QED
  BY <1>1, <1>2, DataQueriesAssumption DEF NoPolicy

(* A change that has read a schema: the other changes at work are on other *)
(* schemas, or the schema counts as overlapped from here on.               *)
LEMMA ChangeHeld ==
    ASSUME PolicyInv, SchemasFormed', SamePolicies, UNCHANGED ownerSet,
           NEW e \in Edit, NEW s \in Names, NEW copy, Held(e, s, copy),
           e.kind \in {"approve", "defaults", "reset", "org", "policy"}, ~IsHeld(e),
           copy.policy = [f \in SchemaDef[s].fields |-> copy.policy[f]],
           e.kind = "policy" => /\ s = e.schema /\ e.field \in SchemaDef[e.schema].fields
                                /\ copy.policy[e.field] = e.policy,
           \A f \in SchemaDef[s].fields :
              (e.kind = "policy" /\ f = e.field) \/ copy.policy[f] = schemas[s].policy[f]
    PROVE  PolicyInv'
<1>1. /\ edit'[e] = [pc |-> "held", on |-> s, copy |-> copy, todo |-> edit[e].todo \ {s}]
      /\ \A d \in Edit : d # e => edit'[d] = edit[d]
      /\ overlapped \subseteq overlapped'
      /\ (\E d \in Edit : edit[d].pc = "held" /\ edit[d].on = s) => s \in overlapped'
  BY DEF PolicyInv, SchemasFormed, Held, Busy
<1>2. CopyCurrent'
  <2> SUFFICES ASSUME NEW d \in Edit, edit'[d].pc = "held"
               PROVE  CopyFits(d)'
    BY DEF CopyCurrent, IsHeld
  <2>1. CASE d = e
    BY <1>1, <2>1 DEF CopyFits, SamePolicies
  <2>2. CASE d # e
    BY <1>1, <2>2 DEF PolicyInv, CopyCurrent, CopyFits, IsHeld, SamePolicies
  <2> QED
    BY <2>1, <2>2
<1>3. HeldAlone'
  BY <1>1 DEF PolicyInv, HeldAlone, IsHeld
<1>4. OwnerSetFormed'
  BY DEF PolicyInv, OwnerSetFormed
<1>5. PolicyKept'
  BY <1>1, OwnerSetParts DEF PolicyInv, PolicyKept, SamePolicies
<1>6. TodoNamed'
  <2> SUFFICES ASSUME NEW d \in Edit PROVE edit'[d].todo \subseteq Names
    BY DEF TodoNamed
  <2>1. edit[d].todo \subseteq Names
    BY DEF PolicyInv, TodoNamed
  <2>2. edit'[d].todo \subseteq edit[d].todo
    <3>1. CASE d = e
      <4>1. edit'[d].todo = edit[d].todo \ {s}
        BY <1>1, <3>1
      <4> QED
        BY <4>1
    <3>2. CASE d # e
      BY <1>1, <3>2
    <3> QED
      BY <3>1, <3>2
  <2> QED
    BY <2>1, <2>2
<1> QED
  BY <1>2, <1>3, <1>4, <1>5, <1>6 DEF PolicyInv

(* A change that ends without touching a policy. *)
LEMMA ChangeDropped ==
    ASSUME PolicyInv, SchemasFormed', SamePolicies, UNCHANGED <<ownerSet, overlapped>>,
           NEW e \in Edit, NEW todo \in SUBSET Names, Left(e, todo)
    PROVE  PolicyInv'
<1>1. /\ edit'[e].pc # "held" /\ edit'[e].todo = todo
      /\ \A d \in Edit : d # e => edit'[d] = edit[d]
  BY DEF PolicyInv, SchemasFormed, Left
<1>7. TodoNamed'
  BY <1>1 DEF PolicyInv, TodoNamed
<1>2. CopyCurrent'
  <2> SUFFICES ASSUME NEW d \in Edit, edit'[d].pc = "held"
               PROVE  CopyFits(d)'
    BY DEF CopyCurrent, IsHeld
  <2> QED
    BY <1>1 DEF PolicyInv, CopyCurrent, CopyFits, IsHeld, SamePolicies
<1>3. HeldAlone'
  BY <1>1 DEF PolicyInv, HeldAlone, IsHeld
<1>4. OwnerSetFormed'
  BY DEF PolicyInv, OwnerSetFormed
<1>5. PolicyKept'
  BY <1>1, OwnerSetParts DEF PolicyInv, PolicyKept, SamePolicies
<1> QED
  BY <1>2, <1>3, <1>4, <1>5, <1>7 DEF PolicyInv

(* A change keeps the entries S of ownerSet and may add its own. *)
SetRecorded(e, S) ==
    /\ S \subseteq ownerSet
    /\ \/ ownerSet' = S
       \/ e.kind = "policy" /\ ownerSet' = S \cup {<<e.schema, e.field, e.policy>>}
(* The policies of schema s are those of the entries S. *)
Agrees(s, policy, S) == \A o \in S : o[1] = s => policy[o[2]] = o[3]

(* A change that writes policies back: they are those that are stored for  *)
(* every field the owner set, but for the one that this change sets.       *)
LEMMA ChangeWritten ==
    ASSUME PolicyInv, SchemasFormed', UNCHANGED overlapped,
           NEW e \in Edit, IsHeld(e), NEW todo \in SUBSET Names, Left(e, todo), NEW s \in Names, s = edit[e].on, NEW policy,
           schemas'[s].policy = policy, \A t \in Names : t # s => schemas'[t] = schemas[t],
           NEW S, SetRecorded(e, S), e.kind = "policy" => policy[e.field] = e.policy,
           s \notin overlapped => Agrees(s, policy, S)
    PROVE  PolicyInv'
<1>1. /\ edit'[e].pc # "held" /\ edit'[e].todo = todo
      /\ \A d \in Edit : d # e => edit'[d] = edit[d]
  BY DEF PolicyInv, SchemasFormed, Left
<1>7. TodoNamed'
  BY <1>1 DEF PolicyInv, TodoNamed
<1>2. CopyCurrent'
  <2> SUFFICES ASSUME NEW d \in Edit, edit'[d].pc = "held"
               PROVE  CopyFits(d)'
    BY DEF CopyCurrent, IsHeld
  <2>1. d # e /\ edit'[d] = edit[d] /\ IsHeld(d) /\ CopyFits(d)
    BY <1>1 DEF PolicyInv, CopyCurrent, IsHeld
  <2>2. CASE edit[d].on \in overlapped
    BY <2>1, <2>2 DEF CopyFits
  <2>3. CASE edit[d].on \notin overlapped
    <3>1. edit[d].on # s
      BY <2>1, <2>3 DEF PolicyInv, HeldAlone
    <3>2. schemas'[edit[d].on] = schemas[edit[d].on]
      BY <2>1, <3>1 DEF CopyFits
    <3> QED
      BY <2>1, <3>2 DEF CopyFits
  <2> QED
    BY <2>2, <2>3
<1>3. HeldAlone'
  BY <1>1 DEF PolicyInv, HeldAlone, IsHeld
<1>4. CopyFits(e)
  BY DEF PolicyInv, CopyCurrent
<1>5. OwnerSetFormed'
  BY <1>4 DEF PolicyInv, OwnerSetFormed, CopyFits, SetRecorded
<1>6. PolicyKept'
  <2> SUFFICES ASSUME NEW o \in ownerSet', o[1] \notin overlapped
               PROVE  schemas'[o[1]].policy[o[2]] = o[3]
    BY DEF PolicyKept
  <2>1. CASE o \in S
    <3>1. o \in ownerSet /\ o[1] \in Names /\ schemas[o[1]].policy[o[2]] = o[3]
      BY <2>1, OwnerSetParts DEF PolicyInv, PolicyKept, SetRecorded
    <3>2. CASE o[1] = s
      BY <2>1, <3>2 DEF Agrees
    <3>3. CASE o[1] # s
      BY <3>1, <3>3
    <3> QED
      BY <3>2, <3>3
  <2>2. CASE o \notin S
    <3>1. e.kind = "policy" /\ policy[e.field] = e.policy /\ o = <<e.schema, e.field, e.policy>>
      BY <2>2 DEF SetRecorded
    <3>2. o[1] = e.schema /\ o[2] = e.field /\ o[3] = e.policy /\ s = e.schema
      BY <1>4, <3>1 DEF CopyFits
    <3> QED
      BY <3>1, <3>2
  <2> QED
    BY <2>1, <2>2
<1> QED
  BY <1>2, <1>3, <1>5, <1>6, <1>7 DEF PolicyInv

(* Every change of a schema keeps the invariant. *)
LEMMA SchemaStep ==
    ASSUME PolicyInv, SchemaNext
    PROVE  PolicyInv'
<1>1. PICK e \in Edit : NotFound(e) \/ approve_schema(e) \/ apply_defaults_all(e)
                        \/ apply_classification_defaults_with_force(e) \/ block_schema(e)
                        \/ set_schema_org_hash(e) \/ set_field_access_policy(e) \/ WriteEdit(e)
  BY DEF SchemaNext
<1>2. SchemasFormed
  BY DEF PolicyInv
<1>3. \A s : s \in processor_resolve(e.schema) => s \in Names
  BY DEF processor_resolve
<1>4. ASSUME UNCHANGED schemas, NEW w, edit' = [edit EXCEPT ![e] = w]
      PROVE  SchemasFormed' /\ SamePolicies
  BY <1>2, <1>4 DEF SchemasFormed, SamePolicies
<1>5. CASE NotFound(e)
  <2>1. Replied(e) /\ UNCHANGED <<schemas, ownerSet, overlapped>>
    BY <1>5 DEF NotFound
  <2> QED
    BY <1>4, <2>1, ChangeDropped DEF Replied, Left
<1>6. CASE approve_schema(e)
  <2>1. PICK s \in Names : schemas' = [schemas EXCEPT ![s].state = "approved"] /\ Held(e, s, schemas[s])
    BY <1>3, <1>6 DEF approve_schema
  <2>2. SchemasFormed' /\ SamePolicies
    BY <1>2, <2>1, StateWritten DEF Held
  <2>3. e.kind = "approve" /\ ~IsHeld(e) /\ UNCHANGED ownerSet
    BY <1>6 DEF approve_schema, IsHeld
  <2>4. schemas[s].policy = [f \in SchemaDef[s].fields |-> schemas[s].policy[f]]
    BY <1>2 DEF SchemasFormed
  <2> QED
    BY <2>1, <2>2, <2>3, <2>4, ChangeHeld
<1>12. CASE apply_defaults_all(e)
  <2>1. CASE edit[e].pc = "next" /\ \E s \in edit[e].todo : Held(e, s, schemas[s])
    <3>1. PICK s \in Names : Held(e, s, schemas[s])
      BY <2>1 DEF PolicyInv, TodoNamed
    <3>2. SchemasFormed' /\ SamePolicies
      BY <1>4, <1>12, <3>1 DEF Held, apply_defaults_all
    <3>3. e.kind \in {"defaults", "reset"} /\ ~IsHeld(e) /\ UNCHANGED ownerSet
      BY <1>12, <2>1 DEF apply_defaults_all, IsHeld
    <3>4. schemas[s].policy = [f \in SchemaDef[s].fields |-> schemas[s].policy[f]]
      BY <1>2 DEF SchemasFormed
    <3> QED
      BY <3>1, <3>2, <3>3, <3>4, ChangeHeld
  <2>2. CASE Left(e, {s \in Names : schemas[s].state = "approved"}) /\ UNCHANGED overlapped
    <3>1. PICK todo \in SUBSET Names : Left(e, todo)
      BY <2>2
    <3>2. SchemasFormed' /\ SamePolicies /\ UNCHANGED ownerSet
      BY <1>4, <1>12, <3>1 DEF Left, apply_defaults_all
    <3> QED
      BY <2>2, <3>1, <3>2, ChangeDropped
  <2> QED
    BY <1>12, <2>1, <2>2 DEF apply_defaults_all
<1>7. CASE apply_classification_defaults_with_force(e)
  <2> DEFINE s == edit[e].on
             p == Defaults(s, edit[e].copy.org, e.kind = "reset", edit[e].copy.policy)
             S == IF e.kind = "reset" THEN {o \in ownerSet : o[1] # s} ELSE ownerSet
  <2>1. /\ e.kind \in {"approve", "defaults", "reset"} /\ IsHeld(e) /\ Left(e, edit[e].todo)
        /\ UNCHANGED overlapped
    BY <1>7 DEF apply_classification_defaults_with_force, IsHeld
  <2>2. CopyFits(e) /\ edit[e].todo \in SUBSET Names
    BY <2>1 DEF PolicyInv, CopyCurrent, TodoNamed
  <2>3. CASE UNCHANGED <<schemas, ownerSet>>
    BY <1>4, <2>1, <2>2, <2>3, ChangeDropped DEF Left
  <2>4. CASE /\ schemas' = [schemas EXCEPT ![s].org = edit[e].copy.org, ![s].policy = p]
             /\ ownerSet' = S
    <3>1. s \in Names /\ DOMAIN edit[e].copy.policy = SchemaDef[s].fields
      BY <2>2 DEF CopyFits
    <3>2. /\ p = [f \in SchemaDef[s].fields |-> p[f]]
          /\ \A f \in SchemaDef[s].fields :
                e.kind # "reset" /\ edit[e].copy.policy[f] # NoPolicy => p[f] = edit[e].copy.policy[f]
      BY <3>1 DEF Defaults
    <3>3. s \notin overlapped => Agrees(s, p, S)
      <4> SUFFICES ASSUME s \notin overlapped, NEW o \in S, o[1] = s
                   PROVE  p[o[2]] = o[3]
        BY DEF Agrees
      <4>1. e.kind # "reset" /\ o \in ownerSet
        OBVIOUS
      <4>2. o[2] \in SchemaDef[s].fields /\ o[3] # NoPolicy /\ schemas[s].policy[o[2]] = o[3]
        BY <4>1, OwnerSetParts DEF PolicyInv, PolicyKept
      <4>3. edit[e].copy.policy[o[2]] = schemas[s].policy[o[2]]
        BY <2>1, <2>2, <4>2 DEF CopyFits
      <4> HIDE DEF p, S
      <4> QED
        BY <3>2, <4>1, <4>2, <4>3
    <3>5. SetRecorded(e, S)
      BY <2>4 DEF SetRecorded
    <3> HIDE DEF p, S
    <3>4. /\ SchemasFormed' /\ schemas'[s].policy = p
          /\ \A t \in Names : t # s => schemas'[t] = schemas[t]
      BY <1>2, <2>1, <2>4, <3>1, <3>2, SchemaWritten DEF Left
    <3>6. e.kind # "policy"
      BY <2>1
    <3> QED
      BY <2>1, <2>2, <3>1, <3>3, <3>4, <3>5, <3>6, ChangeWritten
  <2> QED
    BY <1>7, <2>3, <2>4 DEF apply_classification_defaults_with_force
<1>8. CASE block_schema(e)
  <2>1. PICK s \in Names : schemas' = [schemas EXCEPT ![s].state = "blocked"]
    BY <1>3, <1>8 DEF block_schema
  <2>2. Replied(e) /\ UNCHANGED <<ownerSet, overlapped>>
    BY <1>8 DEF block_schema
  <2>3. SchemasFormed' /\ SamePolicies
    BY <1>2, <2>1, <2>2, StateWritten DEF Replied, Left
  <2> QED
    BY <2>2, <2>3, ChangeDropped DEF Replied
<1>9. CASE set_schema_org_hash(e)
  <2>1. PICK s \in Names : Held(e, s, [schemas[s] EXCEPT !.org = e.field])
    BY <1>3, <1>9 DEF set_schema_org_hash
  <2>2. e.kind = "org" /\ ~IsHeld(e) /\ UNCHANGED <<schemas, ownerSet>>
    BY <1>9 DEF set_schema_org_hash, IsHeld
  <2>3. PICK copy : copy = [schemas[s] EXCEPT !.org = e.field]
    OBVIOUS
  <2>4. copy.policy = schemas[s].policy /\ copy.policy = [f \in SchemaDef[s].fields |-> copy.policy[f]]
    BY <1>2, <2>3 DEF SchemasFormed
  <2>5. SchemasFormed' /\ SamePolicies
    BY <1>4, <2>1, <2>2 DEF Held
  <2> QED
    BY <2>1, <2>2, <2>3, <2>4, <2>5, ChangeHeld
<1>10. CASE set_field_access_policy(e)
  <2>1. e.kind = "policy" /\ ~IsHeld(e) /\ UNCHANGED <<schemas, ownerSet>>
    BY <1>10 DEF set_field_access_policy, IsHeld
  <2>2. CASE Replied(e) /\ UNCHANGED overlapped
    <3>1. Left(e, {}) /\ SchemasFormed' /\ SamePolicies
      BY <1>4, <2>1, <2>2 DEF Replied, Left
    <3> QED
      BY <2>1, <2>2, <3>1, ChangeDropped
  <2>3. CASE /\ e.schema \in Names /\ e.field \in SchemaDef[e.schema].fields
             /\ Held(e, e.schema, [schemas[e.schema] EXCEPT !.policy[e.field] = e.policy])
    <3>1. PICK s \in Names : s = e.schema
      BY <2>3
    <3>2. PICK copy : copy = [schemas[s] EXCEPT !.policy[e.field] = e.policy]
      OBVIOUS
    <3>3. PICK r : r = schemas[s]
      OBVIOUS
    <3>4. /\ r = [state |-> r.state, org |-> r.org, policy |-> r.policy]
          /\ r.policy = [f \in SchemaDef[s].fields |-> r.policy[f]]
      BY <1>2, <3>3 DEF SchemasFormed
    <3>5. copy.policy = [r.policy EXCEPT ![e.field] = e.policy]
      BY <3>2, <3>3, <3>4
    <3>6. /\ copy.policy = [f \in SchemaDef[s].fields |-> copy.policy[f]]
          /\ copy.policy[e.field] = e.policy
          /\ \A f \in SchemaDef[s].fields : f = e.field \/ copy.policy[f] = r.policy[f]
      BY <2>3, <3>1, <3>4, <3>5
    <3>7. SchemasFormed' /\ SamePolicies
      BY <1>4, <2>1, <2>3 DEF Held
    <3>8. /\ Held(e, s, copy)
          /\ e.kind = "policy" => /\ s = e.schema /\ e.field \in SchemaDef[e.schema].fields
                                  /\ copy.policy[e.field] = e.policy
          /\ \A f \in SchemaDef[s].fields :
                (e.kind = "policy" /\ f = e.field) \/ copy.policy[f] = schemas[s].policy[f]
      BY <2>1, <2>3, <3>1, <3>2, <3>3, <3>6
    <3> QED
      BY <2>1, <3>6, <3>7, <3>8, ChangeHeld
  <2> QED
    BY <1>10, <2>2, <2>3 DEF set_field_access_policy
<1>11. CASE WriteEdit(e)
  <2> DEFINE s == edit[e].on
             p == edit[e].copy.policy
             S == IF e.kind = "policy" THEN {o \in ownerSet : <<o[1], o[2]>> # <<e.schema, e.field>>} ELSE ownerSet
  <2>1. /\ IsHeld(e) /\ Replied(e) /\ UNCHANGED overlapped
        /\ schemas' = [schemas EXCEPT ![s].org = edit[e].copy.org, ![s].policy = p]
        /\ SetRecorded(e, S)
    BY <1>11 DEF WriteEdit, update_schema, IsHeld, SetRecorded
  <2>2. CopyFits(e)
    BY <2>1 DEF PolicyInv, CopyCurrent
  <2>3. s \in Names /\ p = [f \in SchemaDef[s].fields |-> p[f]] /\ (e.kind = "policy" => p[e.field] = e.policy)
    BY <2>2 DEF CopyFits
  <2>4. s \notin overlapped => Agrees(s, p, S)
    <3> SUFFICES ASSUME s \notin overlapped, NEW o \in S, o[1] = s
                 PROVE  p[o[2]] = o[3]
      BY DEF Agrees
    <3>1. o[2] \in SchemaDef[s].fields /\ schemas[s].policy[o[2]] = o[3]
      BY OwnerSetParts DEF PolicyInv, PolicyKept
    <3>2. e.kind = "policy" => o[2] # e.field
      BY <2>2 DEF CopyFits
    <3> QED
      BY <2>2, <3>1, <3>2 DEF CopyFits
  <2> HIDE DEF S, p
  <2>5. /\ SchemasFormed' /\ schemas'[s].policy = p
        /\ \A t \in Names : t # s => schemas'[t] = schemas[t]
    BY <1>2, <2>1, <2>3, SchemaWritten DEF Replied, Left
  <2> QED
    BY <2>1, <2>3, <2>4, <2>5, ChangeWritten DEF Replied
<1> QED
  BY <1>1, <1>5, <1>6, <1>7, <1>8, <1>9, <1>10, <1>11, <1>12

(* An access policy the owner set on a field stays (schema_ops.rs,         *)
(* trust_ops.rs) under approvals, blocks, tags, defaults, mutations and    *)
(* queries in any number and order, unless two changes of its schema       *)
(* overlapped.                                                             *)
THEOREM PolicyCorrect == DataQuerySpec => []PolicyKept
<1>1. DataQueryInit => PolicyInv
  <2> SUFFICES ASSUME DataQueryInit
               PROVE  PolicyInv
    OBVIOUS
  <2>1. ownerSet = {} /\ edit = [e \in Edit |-> [pc |-> "idle", on |-> "none", copy |-> <<>>, todo |-> {}]]
    BY DEF DataQueryInit
  <2>2. CopyCurrent /\ HeldAlone /\ OwnerSetFormed /\ PolicyKept /\ TodoNamed
    BY <2>1 DEF CopyCurrent, HeldAlone, OwnerSetFormed, PolicyKept, IsHeld, TodoNamed
  <2>3. SchemasFormed
    <3> DEFINE Formed(c) == /\ c = [s \in Names |-> c[s]]
                            /\ \A s \in Names :
                                 /\ c[s] = [state |-> c[s].state, org |-> c[s].org, policy |-> c[s].policy]
                                 /\ c[s].policy = [f \in SchemaDef[s].fields |-> c[s].policy[f]]
    <3>1. \A s \in Names : /\ Unset(s) = [f \in SchemaDef[s].fields |-> Unset(s)[f]]
                           /\ Defaults(s, "none", FALSE, Unset(s)) =
                                 [f \in SchemaDef[s].fields |-> Defaults(s, "none", FALSE, Unset(s))[f]]
      BY DEF Defaults, Unset
    <3>2. CASE schemas = [s \in Names |-> [state |-> "approved", org |-> "none",
                                            policy |-> Defaults(s, "none", FALSE, Unset(s))]]
      <4>1. Formed(schemas)
        BY <3>1, <3>2
      <4> QED
        BY <2>1, <4>1 DEF SchemasFormed
    <3>3. CASE schemas = [s \in Names |-> [state |-> "available", org |-> "none", policy |-> Unset(s)]]
      <4>1. Formed(schemas)
        BY <3>1, <3>3
      <4> QED
        BY <2>1, <4>1 DEF SchemasFormed
    <3> QED
      BY <3>2, <3>3 DEF DataQueryInit
  <2> QED
    BY <2>2, <2>3 DEF PolicyInv
<1>2. PolicyInv /\ [QueryNext \/ ListingNext \/ SchemaNext]_dataQueryVars => PolicyInv'
  <2> SUFFICES ASSUME PolicyInv, [QueryNext \/ ListingNext \/ SchemaNext]_dataQueryVars
               PROVE  PolicyInv'
    OBVIOUS
  <2>1. CASE SchemaNext
    BY <2>1, SchemaStep
  <2>2. CASE UNCHANGED <<schemas, edit, ownerSet, overlapped>>
    BY <2>2 DEF PolicyInv, SchemasFormed, TodoNamed, CopyCurrent, CopyFits, HeldAlone, OwnerSetFormed, PolicyKept,
                IsHeld
  <2>3. CASE QueryNext \/ ListingNext
    BY <2>2, <2>3 DEF QueryNext, ListingNext, execute_query, execute_mutation, execute_mutations_batch,
                      list_keys, feed, search
  <2> QED
    BY <2>1, <2>2, <2>3 DEF dataQueryVars
<1>3. PolicyInv => PolicyKept
  BY DEF PolicyInv
<1> QED
  BY <1>1, <1>2, <1>3, PTL DEF DataQuerySpec

-----------------------------------------------------------------------------
(* The agent.                                                              *)

AgentPcs == {"idle", "think", "act", "complete", "error", "panicked"} \cup ToldPcs
InLoop(a) == a.pc \in {"think", "act", "complete"}
IsSeq(s) == \E S : s \in Seq(S)
Answers(x, call) == x.item \in call.told \/ call.result = "error"
Told(x, calls) == x.call \in DOMAIN calls /\ Answers(x, calls[x.call])
Known(x, a) == Told(x, a.calls) \/ (x.call = Len(a.calls) + 1 /\ x.item \in a.acc)

RequestFormed(a) ==
    /\ a = [pc |-> a.pc, iter |-> a.iter, empties |-> a.empties, calls |-> a.calls, left |-> a.left,
            acc |-> a.acc, age |-> a.age, answer |-> a.answer]
    /\ a.age \in {0, 1} /\ IsSeq(a.calls)
AskedFormed ==
    /\ asked = [r \in Ask |-> asked[r]] /\ \A r \in Ask : RequestFormed(asked[r])
    /\ agentJob = [r \in Ask |-> agentJob[r]]
SessionsFormed ==
    /\ sessions = [i \in SessionIds |-> sessions[i]]
    /\ \A i \in SessionIds :
          /\ sessions[i] = [open |-> sessions[i].open, idle |-> sessions[i].idle, history |-> sessions[i].history,
                            searched |-> sessions[i].searched, results |-> sessions[i].results]
          /\ sessions[i].idle \in Int

(* Only agents loop; between two calls nothing is left to be told, and     *)
(* only tools of several steps have something in hand.                     *)
KindFits(r, a) ==
    /\ InLoop(a) => r.kind = "agent"
    /\ r.kind = "agent" => a.pc \in AgentPcs /\ (a.pc \notin {"act", "error"} => a.acc = {})
    /\ a.pc \in {"idle", "think"} => a.answer = "none"
    /\ a.pc = "act" /\ a.answer \notin {"ingest_files", "create_view"} => a.acc = {}

(* The job runs as long as the loop does, is completed just before a final *)
(* answer leaves it, and fails with it otherwise.                          *)
JobFits(r, a, j) ==
    r.kind = "agent" =>
       /\ a.pc = "idle" => j = "none"
       /\ a.pc \in {"think", "act"} => j = "running"
       /\ a.pc = "complete" => j = "completed" /\ a.answer = "final"
       /\ a.pc \in ToldPcs => (a.answer = "final" <=> j = "completed") /\ (a.answer = "partial" => j = "failed")
       /\ a.pc = "error" => j # "completed"
       /\ a.pc = "panicked" /\ j = "completed" => a.answer = "final"

(* The session of a working agent has been unused for no longer than the   *)
(* agent has been at work, and what follows the answer takes no time,      *)
(* unless the clock was set meanwhile.                                     *)
SessionFits(r, a, s, D) ==
    r.kind = "agent" =>
       /\ a.pc = "idle" => a.age = 0
       /\ r \notin D /\ InLoop(a) => s.open /\ 0 <= s.idle /\ s.idle <= a.age
       /\ r \notin D /\ a.pc \in {"user", "tool_calls", "assistant"} => s.open /\ 0 <= s.idle /\ s.idle <= TTL

Fits(r, a, j, s, D) == KindFits(r, a) /\ JobFits(r, a, j) /\ SessionFits(r, a, s, D)
AllFit == \A r \in Ask : Fits(r, asked[r], agentJob[r], sessions[r.session], disturbed)

(* What a tool of a request changed is answered for by the record of its   *)
(* call, or the tool is still at work and has it in hand.                  *)
ChangesKnown == \A c \in changes : c.by \in Ask /\ c.by.kind = "agent" /\ Known(c, asked[c.by])

AgentInv == AskedFormed /\ SessionsFormed /\ AllFit /\ ChangesKnown /\ TurnRemembered

(* Each step of a request puts another record in its place. *)
Put(r, v) == [q \in Ask |-> IF q = r THEN v ELSE asked[q]]

\* Replacing the record of a request is Put.
LEMMA PutInPlace ==
    ASSUME AskedFormed, NEW r \in Ask, NEW v, asked' = [asked EXCEPT ![r] = v]
    PROVE  asked' = Put(r, v)
BY DEF AskedFormed, Put

\* The job of one request changes, and no other.
LEMMA AgentJobPut ==
    ASSUME AskedFormed, NEW r \in Ask, NEW j, agentJob' = [agentJob EXCEPT ![r] = j]
    PROVE  /\ agentJob' = [q \in Ask |-> agentJob'[q]] /\ agentJob'[r] = j
           /\ \A q \in Ask : q # r => agentJob'[q] = agentJob[q]
BY DEF AskedFormed

(* No step makes a session in use older or drops it. *)
SessionsKept ==
    \A i \in SessionIds : sessions[i].open /\ 0 <= sessions[i].idle /\ sessions[i].idle <= TTL =>
                             sessions'[i].open /\ 0 <= sessions'[i].idle /\ sessions'[i].idle <= sessions[i].idle

(* A step of one request: the others only rely on their sessions. *)
LEMMA RequestStep ==
    ASSUME AgentInv, NEW r \in Ask, NEW v, asked' = Put(r, v), RequestFormed(v),
           agentJob' = [q \in Ask |-> agentJob'[q]], \A q \in Ask : q # r => agentJob'[q] = agentJob[q],
           SessionsFormed', SessionsKept,
           Fits(r, v, agentJob'[r], sessions'[r.session], disturbed),
           \A c \in changes' : c \in changes \/ (c.by = r /\ r.kind = "agent" /\ Known(c, v)),
           r.kind = "agent" => \A x : Known(x, asked[r]) => Known(x, v),
           \A q \in unheard' : q \in unheard \/ (q.kind = "agent" => q \in disturbed), UNCHANGED disturbed
    PROVE  AgentInv'
<1>1. /\ asked' = [q \in Ask |-> asked'[q]] /\ asked'[r] = v
      /\ \A q \in Ask : q # r => asked'[q] = asked[q]
  BY DEF Put
<1>2. AskedFormed'
  <2>1. \A q \in Ask : RequestFormed(asked'[q])
    BY <1>1 DEF AgentInv, AskedFormed
  <2> QED
    BY <1>1, <2>1 DEF AskedFormed
<1>3. AllFit'
  <2> SUFFICES ASSUME NEW q \in Ask PROVE Fits(q, asked'[q], agentJob'[q], sessions'[q.session], disturbed')
    BY DEF AllFit
  <2>1. CASE q = r
    BY <1>1, <2>1
  <2>2. CASE q # r
    <3>1. asked'[q] = asked[q] /\ agentJob'[q] = agentJob[q]
      BY <1>1, <2>2
    <3>2. KindFits(q, asked[q]) /\ JobFits(q, asked[q], agentJob[q]) /\ SessionFits(q, asked[q], sessions[q.session], disturbed)
      BY DEF AgentInv, AllFit, Fits
    <3>3. q.session \in SessionIds
      BY DEF SessionIds
    <3>4. asked[q].age \in {0, 1} /\ sessions[q.session].idle \in Int /\ sessions'[q.session].idle \in Int
      BY <3>3 DEF AgentInv, AskedFormed, RequestFormed, SessionsFormed
    <3>5. SessionFits(q, asked[q], sessions'[q.session], disturbed)
      BY <3>2, <3>3, <3>4, AgentAssumption DEF SessionFits, SessionsKept
    <3> QED
      BY <3>1, <3>2, <3>5 DEF Fits
  <2> QED
    BY <2>1, <2>2
<1>4. ChangesKnown'
  <2> SUFFICES ASSUME NEW c \in changes' PROVE c.by \in Ask /\ c.by.kind = "agent" /\ Known(c, asked'[c.by])
    BY DEF ChangesKnown
  <2> QED
    BY <1>1 DEF AgentInv, ChangesKnown
<1>5. TurnRemembered'
  BY DEF AgentInv, TurnRemembered
<1> QED
  BY <1>2, <1>3, <1>4, <1>5 DEF AgentInv

(* What a record of a request is after a step. *)
Renewed(a, pc, iter, empties, calls, left, acc, answer) ==
    [pc |-> pc, iter |-> iter, empties |-> empties, calls |-> calls, left |-> left, acc |-> acc, age |-> a.age,
     answer |-> answer]

(* A tool call recorded answers for what it did, and those before it still do. *)
LEMMA CallRecorded ==
    ASSUME NEW calls, IsSeq(calls), NEW call
    PROVE  /\ IsSeq(Recorded(calls, call))
           /\ \A x : Told(x, calls) => Told(x, Recorded(calls, call))
           /\ \A x : x.call = Len(calls) + 1 /\ Answers(x, call) => Told(x, Recorded(calls, call))
<1>1. PICK S : calls \in Seq(S)
  BY DEF IsSeq
<1>2. calls \in Seq(S \cup {call})
  BY <1>1, SeqMonotonic
<1>3. /\ Append(calls, call) \in Seq(S \cup {call})
      /\ Len(Append(calls, call)) = Len(calls) + 1
      /\ \A i \in 1 .. Len(calls) : Append(calls, call)[i] = calls[i]
      /\ Append(calls, call)[Len(calls) + 1] = call
  BY <1>2, AppendProperties
<1>4. Len(calls) \in Nat /\ DOMAIN calls = 1 .. Len(calls) /\ DOMAIN Append(calls, call) = 1 .. (Len(calls) + 1)
  BY <1>2, <1>3, LenProperties
<1>5. IsSeq(Append(calls, call))
  BY <1>3 DEF IsSeq
<1>6. ASSUME NEW x, Told(x, calls) PROVE Told(x, Append(calls, call))
  <2>1. x.call \in 1 .. Len(calls) /\ Answers(x, calls[x.call])
    BY <1>4, <1>6 DEF Told
  <2>2. x.call \in DOMAIN Append(calls, call) /\ Append(calls, call)[x.call] = calls[x.call]
    BY <1>3, <1>4, <2>1
  <2> QED
    BY <2>1, <2>2 DEF Told
<1>7. ASSUME NEW x, x.call = Len(calls) + 1, Answers(x, call) PROVE Told(x, Append(calls, call))
  <2>1. x.call \in DOMAIN Append(calls, call) /\ Append(calls, call)[x.call] = call
    BY <1>3, <1>4, <1>7
  <2> QED
    BY <1>7, <2>1 DEF Told
<1> QED
  BY <1>5, <1>6, <1>7 DEF Recorded

\* A renewed request is a request of the same age.
LEMMA RenewedFormed ==
    ASSUME NEW a, RequestFormed(a), NEW pc, NEW iter, NEW empties, NEW calls, IsSeq(calls), NEW left, NEW acc, NEW answer,
           NEW v, v = Renewed(a, pc, iter, empties, calls, left, acc, answer)
    PROVE  /\ RequestFormed(v) /\ v.pc = pc /\ v.calls = calls /\ v.acc = acc /\ v.age = a.age /\ v.answer = answer
<1>1. a.age \in {0, 1}
  BY DEF RequestFormed
<1>2. v = [pc |-> pc, iter |-> iter, empties |-> empties, calls |-> calls, left |-> left, acc |-> acc,
           age |-> a.age, answer |-> answer]
  BY DEF Renewed
<1> QED
  BY ONLY IsSeq(calls), <1>1, <1>2 DEF RequestFormed

\* What the invariant says of one request and its session.
LEMMA RequestFacts ==
    ASSUME AgentInv, NEW r \in Ask
    PROVE  /\ RequestFormed(asked[r]) /\ IsSeq(asked[r].calls) /\ asked[r].age \in {0, 1}
           /\ KindFits(r, asked[r]) /\ JobFits(r, asked[r], agentJob[r]) /\ SessionFits(r, asked[r], sessions[r.session], disturbed)
           /\ r.session \in SessionIds /\ sessions[r.session].idle \in Int
           /\ TTL \in Nat /\ 1 <= TTL
<1>1. r.session \in SessionIds
  BY DEF SessionIds
<1> QED
  BY <1>1, AgentAssumption DEF AgentInv, AskedFormed, RequestFormed, AllFit, Fits, SessionsFormed

(* A step that leaves the sessions alone and changes nothing. *)
LEMMA QuietStep ==
    ASSUME AgentInv, NEW r \in Ask, NEW v, asked' = Put(r, v), RequestFormed(v),
           v.calls = asked[r].calls, r.kind = "agent" => v.acc = asked[r].acc,
           agentJob' = [q \in Ask |-> agentJob'[q]], \A q \in Ask : q # r => agentJob'[q] = agentJob[q],
           UNCHANGED <<sessions, changes, unheard, disturbed>>,
           KindFits(r, v), JobFits(r, v, agentJob'[r]), SessionFits(r, v, sessions[r.session], disturbed)
    PROVE  AgentInv'
<1>1. SessionsFormed' /\ SessionsKept
  BY DEF AgentInv, SessionsFormed, SessionsKept
<1>2. Fits(r, v, agentJob'[r], sessions'[r.session], disturbed)
  BY DEF Fits
<1>3. r.kind = "agent" => \A x : Known(x, asked[r]) => Known(x, v)
  BY DEF Known
<1> QED
  BY <1>1, <1>2, <1>3, RequestStep

(* The same, with the job left alone too. *)
LEMMA QuieterStep ==
    ASSUME AgentInv, NEW r \in Ask, NEW v, asked' = Put(r, v), RequestFormed(v),
           v.calls = asked[r].calls, r.kind = "agent" => v.acc = asked[r].acc,
           UNCHANGED <<agentJob, sessions, changes, unheard, disturbed>>,
           KindFits(r, v), JobFits(r, v, agentJob[r]), SessionFits(r, v, sessions[r.session], disturbed)
    PROVE  AgentInv'
<1>1. agentJob' = [q \in Ask |-> agentJob'[q]] /\ (\A q \in Ask : q # r => agentJob'[q] = agentJob[q])
  BY DEF AgentInv, AskedFormed
<1> QED
  BY <1>1, QuietStep

(* The record of a request after each kind of step. *)
SetAnswer(r, pc, answer) == asked' = [asked EXCEPT ![r].pc = pc, ![r].answer = answer]
SetLeft(r, left) == asked' = [asked EXCEPT ![r].left = left]
SetAcc(r, acc) == asked' = [asked EXCEPT ![r].acc = acc]
SetLeftAcc(r, left, acc) == asked' = [asked EXCEPT ![r].left = left, ![r].acc = acc]
SetPcAcc(r, pc, acc) == asked' = [asked EXCEPT ![r].pc = pc, ![r].acc = acc]

\* A request moves on.
LEMMA PcPut ==
    ASSUME AgentInv, NEW r \in Ask, NEW pc, Goto(r, pc)
    PROVE  \E v : /\ asked' = Put(r, v) /\ RequestFormed(v) /\ v.pc = pc /\ v.answer = asked[r].answer
                  /\ v.calls = asked[r].calls /\ v.acc = asked[r].acc /\ v.age = asked[r].age
<1>1. PICK v : v = [asked[r] EXCEPT !.pc = pc]
  OBVIOUS
<1>2. asked' = Put(r, v)
  BY <1>1 DEF AgentInv, AskedFormed, Put, Goto
<1>3. asked[r] = [pc |-> asked[r].pc, iter |-> asked[r].iter, empties |-> asked[r].empties, calls |-> asked[r].calls,
                  left |-> asked[r].left, acc |-> asked[r].acc, age |-> asked[r].age, answer |-> asked[r].answer]
  BY RequestFacts DEF RequestFormed
<1>4. v = Renewed(asked[r], pc, asked[r].iter, asked[r].empties, asked[r].calls, asked[r].left, asked[r].acc, asked[r].answer)
  BY ONLY <1>1, <1>3 DEF Renewed
<1>5. RequestFormed(asked[r]) /\ IsSeq(asked[r].calls)
  BY RequestFacts
<1>6. /\ RequestFormed(v) /\ v.pc = pc /\ v.answer = asked[r].answer
      /\ v.calls = asked[r].calls /\ v.acc = asked[r].acc /\ v.age = asked[r].age
  BY <1>4, <1>5, RenewedFormed
<1> QED
  BY <1>2, <1>6

\* A request moves on with an answer of the model.
LEMMA AnswerPut ==
    ASSUME AgentInv, NEW r \in Ask, NEW pc, NEW answer, SetAnswer(r, pc, answer)
    PROVE  \E v : /\ asked' = Put(r, v) /\ RequestFormed(v) /\ v.pc = pc /\ v.answer = answer
                  /\ v.calls = asked[r].calls /\ v.acc = asked[r].acc /\ v.age = asked[r].age
<1>1. PICK v : v = [asked[r] EXCEPT !.pc = pc, !.answer = answer]
  OBVIOUS
<1>2. asked' = Put(r, v)
  BY <1>1 DEF AgentInv, AskedFormed, Put, SetAnswer
<1>3. asked[r] = [pc |-> asked[r].pc, iter |-> asked[r].iter, empties |-> asked[r].empties, calls |-> asked[r].calls,
                  left |-> asked[r].left, acc |-> asked[r].acc, age |-> asked[r].age, answer |-> asked[r].answer]
  BY RequestFacts DEF RequestFormed
<1>4. v = Renewed(asked[r], pc, asked[r].iter, asked[r].empties, asked[r].calls, asked[r].left, asked[r].acc, answer)
  BY ONLY <1>1, <1>3 DEF Renewed
<1>5. RequestFormed(asked[r]) /\ IsSeq(asked[r].calls)
  BY RequestFacts
<1>6. /\ RequestFormed(v) /\ v.pc = pc /\ v.answer = answer
      /\ v.calls = asked[r].calls /\ v.acc = asked[r].acc /\ v.age = asked[r].age
  BY <1>4, <1>5, RenewedFormed
<1> QED
  BY <1>2, <1>6

\* The work left changes.
LEMMA LeftPut ==
    ASSUME AgentInv, NEW r \in Ask, NEW left, SetLeft(r, left)
    PROVE  \E v : /\ asked' = Put(r, v) /\ RequestFormed(v) /\ v.pc = asked[r].pc /\ v.answer = asked[r].answer
                  /\ v.calls = asked[r].calls /\ v.acc = asked[r].acc /\ v.age = asked[r].age
<1>1. PICK v : v = [asked[r] EXCEPT !.left = left]
  OBVIOUS
<1>2. asked' = Put(r, v)
  BY <1>1 DEF AgentInv, AskedFormed, Put, SetLeft
<1>3. asked[r] = [pc |-> asked[r].pc, iter |-> asked[r].iter, empties |-> asked[r].empties, calls |-> asked[r].calls,
                  left |-> asked[r].left, acc |-> asked[r].acc, age |-> asked[r].age, answer |-> asked[r].answer]
  BY RequestFacts DEF RequestFormed
<1>4. v = Renewed(asked[r], asked[r].pc, asked[r].iter, asked[r].empties, asked[r].calls, left, asked[r].acc, asked[r].answer)
  BY ONLY <1>1, <1>3 DEF Renewed
<1>5. RequestFormed(asked[r]) /\ IsSeq(asked[r].calls)
  BY RequestFacts
<1>6. /\ RequestFormed(v) /\ v.pc = asked[r].pc /\ v.answer = asked[r].answer
      /\ v.calls = asked[r].calls /\ v.acc = asked[r].acc /\ v.age = asked[r].age
  BY <1>4, <1>5, RenewedFormed
<1> QED
  BY <1>2, <1>6

\* The work done changes.
LEMMA AccPut ==
    ASSUME AgentInv, NEW r \in Ask, NEW acc, SetAcc(r, acc)
    PROVE  \E v : /\ asked' = Put(r, v) /\ RequestFormed(v) /\ v.pc = asked[r].pc /\ v.answer = asked[r].answer
                  /\ v.calls = asked[r].calls /\ v.acc = acc /\ v.age = asked[r].age
<1>1. PICK v : v = [asked[r] EXCEPT !.acc = acc]
  OBVIOUS
<1>2. asked' = Put(r, v)
  BY <1>1 DEF AgentInv, AskedFormed, Put, SetAcc
<1>3. asked[r] = [pc |-> asked[r].pc, iter |-> asked[r].iter, empties |-> asked[r].empties, calls |-> asked[r].calls,
                  left |-> asked[r].left, acc |-> asked[r].acc, age |-> asked[r].age, answer |-> asked[r].answer]
  BY RequestFacts DEF RequestFormed
<1>4. v = Renewed(asked[r], asked[r].pc, asked[r].iter, asked[r].empties, asked[r].calls, asked[r].left, acc, asked[r].answer)
  BY ONLY <1>1, <1>3 DEF Renewed
<1>5. RequestFormed(asked[r]) /\ IsSeq(asked[r].calls)
  BY RequestFacts
<1>6. /\ RequestFormed(v) /\ v.pc = asked[r].pc /\ v.answer = asked[r].answer
      /\ v.calls = asked[r].calls /\ v.acc = acc /\ v.age = asked[r].age
  BY <1>4, <1>5, RenewedFormed
<1> QED
  BY <1>2, <1>6

\* The work left and the work done change.
LEMMA LeftAccPut ==
    ASSUME AgentInv, NEW r \in Ask, NEW left, NEW acc, SetLeftAcc(r, left, acc)
    PROVE  \E v : /\ asked' = Put(r, v) /\ RequestFormed(v) /\ v.pc = asked[r].pc /\ v.answer = asked[r].answer
                  /\ v.calls = asked[r].calls /\ v.acc = acc /\ v.age = asked[r].age
<1>1. PICK v : v = [asked[r] EXCEPT !.left = left, !.acc = acc]
  OBVIOUS
<1>2. asked' = Put(r, v)
  BY <1>1 DEF AgentInv, AskedFormed, Put, SetLeftAcc
<1>3. asked[r] = [pc |-> asked[r].pc, iter |-> asked[r].iter, empties |-> asked[r].empties, calls |-> asked[r].calls,
                  left |-> asked[r].left, acc |-> asked[r].acc, age |-> asked[r].age, answer |-> asked[r].answer]
  BY RequestFacts DEF RequestFormed
<1>4. v = Renewed(asked[r], asked[r].pc, asked[r].iter, asked[r].empties, asked[r].calls, left, acc, asked[r].answer)
  BY ONLY <1>1, <1>3 DEF Renewed
<1>5. RequestFormed(asked[r]) /\ IsSeq(asked[r].calls)
  BY RequestFacts
<1>6. /\ RequestFormed(v) /\ v.pc = asked[r].pc /\ v.answer = asked[r].answer
      /\ v.calls = asked[r].calls /\ v.acc = acc /\ v.age = asked[r].age
  BY <1>4, <1>5, RenewedFormed
<1> QED
  BY <1>2, <1>6

\* A request moves on with other work done.
LEMMA PcAccPut ==
    ASSUME AgentInv, NEW r \in Ask, NEW pc, NEW acc, SetPcAcc(r, pc, acc)
    PROVE  \E v : /\ asked' = Put(r, v) /\ RequestFormed(v) /\ v.pc = pc /\ v.answer = asked[r].answer
                  /\ v.calls = asked[r].calls /\ v.acc = acc /\ v.age = asked[r].age
<1>1. PICK v : v = [asked[r] EXCEPT !.pc = pc, !.acc = acc]
  OBVIOUS
<1>2. asked' = Put(r, v)
  BY <1>1 DEF AgentInv, AskedFormed, Put, SetPcAcc
<1>3. asked[r] = [pc |-> asked[r].pc, iter |-> asked[r].iter, empties |-> asked[r].empties, calls |-> asked[r].calls,
                  left |-> asked[r].left, acc |-> asked[r].acc, age |-> asked[r].age, answer |-> asked[r].answer]
  BY RequestFacts DEF RequestFormed
<1>4. v = Renewed(asked[r], pc, asked[r].iter, asked[r].empties, asked[r].calls, asked[r].left, acc, asked[r].answer)
  BY ONLY <1>1, <1>3 DEF Renewed
<1>5. RequestFormed(asked[r]) /\ IsSeq(asked[r].calls)
  BY RequestFacts
<1>6. /\ RequestFormed(v) /\ v.pc = pc /\ v.answer = asked[r].answer
      /\ v.calls = asked[r].calls /\ v.acc = acc /\ v.age = asked[r].age
  BY <1>4, <1>5, RenewedFormed
<1> QED
  BY <1>2, <1>6

(* A request that fails. *)
LEMMA FailStep ==
    ASSUME AgentInv, NEW r \in Ask, Failed(r), UNCHANGED <<sessions, changes, unheard, disturbed>>,
           agentJob' = [q \in Ask |-> agentJob'[q]], \A q \in Ask : q # r => agentJob'[q] = agentJob[q],
           r.kind = "agent" => agentJob'[r] # "completed"
    PROVE  AgentInv'
<1>1. PICK v : /\ asked' = Put(r, v) /\ RequestFormed(v) /\ v.pc = "error"
               /\ v.calls = asked[r].calls /\ v.acc = asked[r].acc /\ v.age = asked[r].age
  BY PcPut DEF Failed
<1>2. KindFits(r, v) /\ JobFits(r, v, agentJob'[r]) /\ SessionFits(r, v, sessions[r.session], disturbed)
  BY <1>1 DEF KindFits, JobFits, SessionFits, InLoop, AgentPcs, ToldPcs
<1> QED
  BY <1>1, <1>2, QuietStep

(* Finding or making a session. *)
LEMMA SessionUsed ==
    ASSUME AgentInv, NEW i \in SessionIds, sessions' = create_or_get_session(i)
    PROVE  SessionsFormed' /\ SessionsKept /\ sessions'[i].open /\ sessions'[i].idle = 0
<1>1. ASSUME NEW k \in SessionIds
      PROVE  /\ sessions'[k] = [open |-> sessions'[k].open, idle |-> sessions'[k].idle,
                                history |-> sessions'[k].history, searched |-> sessions'[k].searched,
                                results |-> sessions'[k].results]
             /\ sessions'[k].idle \in Int
             /\ sessions[k].open /\ 0 <= sessions[k].idle /\ sessions[k].idle <= TTL =>
                   sessions'[k].open /\ 0 <= sessions'[k].idle /\ sessions'[k].idle <= sessions[k].idle
             /\ k = i => sessions'[k].open /\ sessions'[k].idle = 0
  <2>1. PICK s : s = IF is_expired(sessions[k]) THEN NoSession ELSE sessions[k]
    OBVIOUS
  <2>2. sessions'[k] = IF k # i THEN s ELSE IF s.open THEN [s EXCEPT !.idle = 0] ELSE [NoSession EXCEPT !.open = TRUE]
    BY <2>1 DEF create_or_get_session
  <2>3. /\ sessions[k] = [open |-> sessions[k].open, idle |-> sessions[k].idle, history |-> sessions[k].history,
                          searched |-> sessions[k].searched, results |-> sessions[k].results]
        /\ sessions[k].idle \in Int /\ TTL \in Nat
    BY AgentAssumption DEF AgentInv, SessionsFormed
  <2>4. /\ s = [open |-> s.open, idle |-> s.idle, history |-> s.history, searched |-> s.searched, results |-> s.results]
        /\ s.idle \in Int
        /\ sessions[k].open /\ 0 <= sessions[k].idle /\ sessions[k].idle <= TTL => s = sessions[k]
    <3>1. CASE is_expired(sessions[k])
      <4>1. s = NoSession
        BY <2>1, <3>1
      <4>2. ~(0 <= sessions[k].idle /\ sessions[k].idle <= TTL)
        BY <2>3, <3>1 DEF is_expired
      <4> QED
        BY <4>1, <4>2 DEF NoSession
    <3>2. CASE ~is_expired(sessions[k])
      <4>1. s = sessions[k]
        BY <2>1, <3>2
      <4> QED
        BY <2>3, <4>1
    <3> QED
      BY <3>1, <3>2
  <2>5. CASE k # i
    BY <2>2, <2>3, <2>4, <2>5
  <2>6. CASE k = i /\ s.open
    <3>1. PICK t : t = [s EXCEPT !.idle = 0]
      OBVIOUS
    <3>2. t = [open |-> s.open, idle |-> 0, history |-> s.history, searched |-> s.searched, results |-> s.results]
      BY ONLY <2>4, <3>1
    <3>3. sessions'[k] = t
      BY <2>2, <2>6, <3>1
    <3> QED
      BY <2>3, <2>6, <3>2, <3>3
  <2>7. CASE k = i /\ ~s.open
    <3>1. PICK t : t = [NoSession EXCEPT !.open = TRUE]
      OBVIOUS
    <3>2. t = [open |-> TRUE, idle |-> 0, history |-> <<>>, searched |-> FALSE, results |-> {}]
      BY <3>1 DEF NoSession
    <3>3. sessions'[k] = t
      BY <2>2, <2>7, <3>1
    <3> QED
      BY <2>3, <2>4, <2>7, <3>2, <3>3
  <2> QED
    BY <2>5, <2>6, <2>7
<1>2. sessions' = [k \in SessionIds |-> sessions'[k]]
  BY DEF create_or_get_session
<1>3. SessionsFormed'
  BY <1>1, <1>2 DEF SessionsFormed, SessionIds
<1> QED
  BY <1>1, <1>3 DEF SessionsKept

\* agent_query: the session is opened or used.
LEMMA AgentStarts ==
    ASSUME AgentInv, NEW r \in Ask, agent_query(r)
    PROVE  AgentInv'
<1>1. SessionsFormed' /\ SessionsKept /\ sessions'[r.session].open /\ sessions'[r.session].idle = 0
  BY SessionUsed, RequestFacts DEF agent_query
<1>2. r.kind = "agent" /\ asked[r].pc = "idle" /\ UNCHANGED <<changes, unheard, disturbed>>
  BY DEF agent_query, NoEffect
<1>3. asked[r].acc = {} /\ asked[r].age = 0 /\ TTL \in Nat
  BY <1>2, RequestFacts DEF KindFits, SessionFits
<1>a. agentJob[r] = "none"
  BY <1>2, RequestFacts DEF JobFits
<1>4. CASE is_empty_user_store /\ SetAnswer(r, "user", "canned") /\ UNCHANGED agentJob
  <2>1. PICK pc, w : pc = "user" /\ w = "canned"
    OBVIOUS
  <2>2. SetAnswer(r, pc, w) /\ UNCHANGED agentJob
    BY <1>4, <2>1
  <2>3. PICK v : /\ asked' = Put(r, v) /\ RequestFormed(v) /\ v.pc = pc /\ v.answer = w
                 /\ v.calls = asked[r].calls /\ v.acc = asked[r].acc /\ v.age = asked[r].age
    BY <2>2, AnswerPut
  <2>4. Fits(r, v, agentJob'[r], sessions'[r.session], disturbed)
    BY <1>1, <1>2, <1>3, <1>a, <2>1, <2>2, <2>3 DEF Fits, KindFits, JobFits, SessionFits, InLoop, AgentPcs, ToldPcs
  <2>5. \A x : Known(x, asked[r]) => Known(x, v)
    BY <2>3 DEF Known
  <2>6. agentJob' = [q \in Ask |-> agentJob'[q]] /\ (\A q \in Ask : q # r => agentJob'[q] = agentJob[q])
    BY <2>2 DEF AgentInv, AskedFormed
  <2> QED
    BY <1>1, <1>2, <2>3, <2>4, <2>5, <2>6, RequestStep
<1>5. CASE Goto(r, "think") /\ agentJob' = [agentJob EXCEPT ![r] = "running"]
  <2>1. PICK pc, w : pc = "think" /\ w = "running"
    OBVIOUS
  <2>2. Goto(r, pc) /\ agentJob' = [agentJob EXCEPT ![r] = w]
    BY <1>5, <2>1
  <2>3. PICK v : /\ asked' = Put(r, v) /\ RequestFormed(v) /\ v.pc = pc /\ v.answer = asked[r].answer
                 /\ v.calls = asked[r].calls /\ v.acc = asked[r].acc /\ v.age = asked[r].age
    BY <2>2, PcPut
  <2>4. /\ agentJob' = [q \in Ask |-> agentJob'[q]] /\ agentJob'[r] = w
        /\ \A q \in Ask : q # r => agentJob'[q] = agentJob[q]
    BY <2>2, AgentJobPut DEF AgentInv
  <2>b. asked[r].answer = "none"
    BY <1>2, RequestFacts DEF KindFits
  <2>5. Fits(r, v, agentJob'[r], sessions'[r.session], disturbed)
    BY <1>1, <1>2, <1>3, <2>1, <2>3, <2>4, <2>b DEF Fits, KindFits, JobFits, SessionFits, InLoop, AgentPcs, ToldPcs
  <2>6. \A x : Known(x, asked[r]) => Known(x, v)
    BY <2>3 DEF Known
  <2> QED
    BY <1>1, <1>2, <2>3, <2>4, <2>5, <2>6, RequestStep
<1>6. CASE Failed(r) /\ UNCHANGED agentJob
  <2>1. PICK v : /\ asked' = Put(r, v) /\ RequestFormed(v) /\ v.pc = "error"
                 /\ v.calls = asked[r].calls /\ v.acc = asked[r].acc /\ v.age = asked[r].age
    BY <1>6, PcPut DEF Failed
  <2>2. Fits(r, v, agentJob'[r], sessions'[r.session], disturbed)
    BY <1>2, <1>a, <1>6, <2>1 DEF Fits, KindFits, JobFits, SessionFits, InLoop, AgentPcs, ToldPcs
  <2>3. \A x : Known(x, asked[r]) => Known(x, v)
    BY <2>1 DEF Known
  <2>4. agentJob' = [q \in Ask |-> agentJob'[q]] /\ (\A q \in Ask : q # r => agentJob'[q] = agentJob[q])
    BY <1>6 DEF AgentInv, AskedFormed
  <2> QED
    BY <1>1, <1>2, <2>1, <2>2, <2>3, <2>4, RequestStep
<1> QED
  BY <1>4, <1>5, <1>6 DEF agent_query, SetAnswer

(* A tool that ends: the record of the call answers for what it had in     *)
(* hand and for what it changes at last.                                   *)
LEMMA ToolEnds ==
    ASSUME AgentInv, NEW r \in Ask, asked[r].pc = "act", NEW call,
           ToolEnded(r, call),
           UNCHANGED <<sessions, agentJob, unheard, disturbed>>,
           asked[r].acc \subseteq call.told \/ call.result = "error",
           \A c \in changes' : c \in changes \/ (c.by = r /\ c.call = Len(asked[r].calls) + 1 /\ Answers(c, call))
    PROVE  AgentInv'
<1> DEFINE calls == Recorded(asked[r].calls, call)
           w == [asked[r] EXCEPT !.pc = "think", !.acc = {}, !.left = {}, !.answer = "none", !.calls = calls]
<1>1. asked' = [asked EXCEPT ![r] = w]
  BY DEF ToolEnded
<1>a. PICK v : v = w
  OBVIOUS
<1>2. asked' = Put(r, v)
  <2> HIDE DEF w
  <2> QED
    BY <1>1, <1>a, PutInPlace DEF AgentInv
<1>3. asked[r] = [pc |-> asked[r].pc, iter |-> asked[r].iter, empties |-> asked[r].empties, calls |-> asked[r].calls,
                  left |-> asked[r].left, acc |-> asked[r].acc, age |-> asked[r].age, answer |-> asked[r].answer]
  BY RequestFacts DEF RequestFormed
<1>4. /\ IsSeq(calls) /\ (\A x : Told(x, asked[r].calls) => Told(x, calls))
      /\ \A x : x.call = Len(asked[r].calls) + 1 /\ Answers(x, call) => Told(x, calls)
  BY CallRecorded, RequestFacts
<1> HIDE DEF calls
<1>5. v = Renewed(asked[r], "think", asked[r].iter, asked[r].empties, calls, {}, {}, "none")
  BY ONLY <1>a, <1>3 DEF Renewed
<1>6. RequestFormed(v) /\ v.pc = "think" /\ v.calls = calls /\ v.acc = {} /\ v.age = asked[r].age /\ v.answer = "none"
  BY <1>4, <1>5, RenewedFormed, RequestFacts
<1>7. /\ r.kind = "agent" /\ agentJob[r] = "running"
      /\ r \notin disturbed => /\ sessions[r.session].open /\ 0 <= sessions[r.session].idle
                               /\ sessions[r.session].idle <= asked[r].age
  BY RequestFacts DEF KindFits, InLoop, JobFits, SessionFits
<1>8. Fits(r, v, agentJob'[r], sessions'[r.session], disturbed)
  BY <1>6, <1>7 DEF Fits, KindFits, JobFits, SessionFits, InLoop, AgentPcs, ToldPcs
<1>9. \A x : Known(x, asked[r]) => Known(x, v)
  <2> SUFFICES ASSUME NEW x, Known(x, asked[r]) PROVE Told(x, calls)
    BY <1>6 DEF Known
  <2>1. CASE Told(x, asked[r].calls)
    BY <1>4, <2>1
  <2>2. CASE x.call = Len(asked[r].calls) + 1 /\ x.item \in asked[r].acc
    <3>1. Answers(x, call)
      BY <2>2 DEF Answers
    <3> QED
      BY <1>4, <2>2, <3>1
  <2> QED
    BY <2>1, <2>2 DEF Known
<1>10. \A c \in changes' : c \in changes \/ (c.by = r /\ r.kind = "agent" /\ Known(c, v))
  BY <1>4, <1>6, <1>7 DEF Known
<1>11. /\ agentJob' = [q \in Ask |-> agentJob'[q]] /\ (\A q \in Ask : q # r => agentJob'[q] = agentJob[q])
       /\ SessionsFormed' /\ SessionsKept
  BY DEF AgentInv, AskedFormed, SessionsFormed, SessionsKept
<1> QED
  BY <1>2, <1>6, <1>8, <1>9, <1>10, <1>11, RequestStep

(* A round of the loop. *)
LEMMA RoundStep ==
    ASSUME AgentInv, NEW r \in Ask, call_llm(r)
    PROVE  AgentInv'
<1>1. r.kind = "agent" /\ asked[r].pc = "think" /\ UNCHANGED <<sessions, changes, unheard, disturbed>>
  BY DEF call_llm, NoEffect
<1>2. /\ asked[r].acc = {} /\ agentJob[r] = "running" /\ asked[r].answer = "none"
      /\ r \notin disturbed => /\ sessions[r.session].open /\ 0 <= sessions[r.session].idle
                               /\ sessions[r.session].idle <= asked[r].age
  BY <1>1, RequestFacts DEF KindFits, JobFits, SessionFits, InLoop
<1>3. /\ asked[r] = [pc |-> asked[r].pc, iter |-> asked[r].iter, empties |-> asked[r].empties, calls |-> asked[r].calls,
                     left |-> asked[r].left, acc |-> asked[r].acc, age |-> asked[r].age, answer |-> asked[r].answer]
      /\ RequestFormed(asked[r]) /\ IsSeq(asked[r].calls)
  BY RequestFacts DEF RequestFormed
<1>4. ASSUME UNCHANGED agentJob, Failed(r)
      PROVE  AgentInv'
  <2>1. agentJob' = [q \in Ask |-> agentJob'[q]] /\ (\A q \in Ask : q # r => agentJob'[q] = agentJob[q])
    BY <1>4 DEF AgentInv, AskedFormed
  <2> QED
    BY <1>1, <1>2, <1>4, <2>1, FailStep
<1>5. ASSUME NEW x \in Response[r], NEW n, NEW is,
             is = parse_agent_response(x),
             n = [asked[r] EXCEPT !.iter = asked[r].iter + 1,
                                  !.empties = IF is = "empty" THEN asked[r].empties + 1 ELSE 0],
             \/ asked' = [asked EXCEPT ![r] = n] /\ UNCHANGED agentJob
             \/ Failed(r) /\ agentJob' = [agentJob EXCEPT ![r] = "failed"]
             \/ Failed(r) /\ UNCHANGED agentJob
             \/ /\ asked' = [asked EXCEPT ![r] = [n EXCEPT !.pc = "complete", !.answer = "final"]]
                /\ agentJob' = [agentJob EXCEPT ![r] = "completed"]
             \/ /\ asked' = [asked EXCEPT ![r] = [n EXCEPT !.pc = "act", !.answer = GuessedTool(x), !.left = AgentFiles]]
                /\ UNCHANGED agentJob
      PROVE  AgentInv'
  <2>1. PICK e : e = IF is = "empty" THEN asked[r].empties + 1 ELSE 0
    OBVIOUS
  <2>2. n = [pc |-> asked[r].pc, iter |-> asked[r].iter + 1, empties |-> e, calls |-> asked[r].calls,
             left |-> asked[r].left, acc |-> asked[r].acc, age |-> asked[r].age, answer |-> asked[r].answer]
    <3>1. n = [asked[r] EXCEPT !.iter = asked[r].iter + 1, !.empties = e]
      BY <1>5, <2>1
    <3> QED
      BY ONLY <1>3, <3>1
  <2>3. agentJob = [q \in Ask |-> agentJob[q]]
    BY DEF AgentInv, AskedFormed
  <2>4. CASE asked' = [asked EXCEPT ![r] = n] /\ UNCHANGED agentJob
    <3>1. asked' = Put(r, n)
      BY <2>4, PutInPlace DEF AgentInv
    <3>2. n = Renewed(asked[r], asked[r].pc, asked[r].iter + 1, e, asked[r].calls, asked[r].left, asked[r].acc, asked[r].answer)
      BY ONLY <2>2 DEF Renewed
    <3>3. RequestFormed(n) /\ n.pc = asked[r].pc /\ n.calls = asked[r].calls /\ n.acc = asked[r].acc
          /\ n.age = asked[r].age /\ n.answer = asked[r].answer
      BY <1>3, <3>2, RenewedFormed
    <3>4. KindFits(r, n) /\ JobFits(r, n, agentJob[r]) /\ SessionFits(r, n, sessions[r.session], disturbed)
      BY <1>1, <1>2, <3>3 DEF KindFits, JobFits, SessionFits, InLoop, AgentPcs, ToldPcs
    <3> QED
      BY <1>1, <2>4, <3>1, <3>3, <3>4, QuieterStep
  <2>5. CASE Failed(r) /\ agentJob' = [agentJob EXCEPT ![r] = "failed"]
    <3>1. PICK w : w = "failed"
      OBVIOUS
    <3>2. /\ agentJob' = [q \in Ask |-> agentJob'[q]] /\ agentJob'[r] = w
          /\ \A q \in Ask : q # r => agentJob'[q] = agentJob[q]
      BY <2>5, <3>1, AgentJobPut DEF AgentInv
    <3>3. agentJob'[r] # "completed"
      BY <3>1, <3>2
    <3> QED
      BY <1>1, <2>5, <3>2, <3>3, FailStep
  <2>6. CASE Failed(r) /\ UNCHANGED agentJob
    BY <1>4, <2>6
  <2>7. CASE /\ asked' = [asked EXCEPT ![r] = [n EXCEPT !.pc = "complete", !.answer = "final"]]
             /\ agentJob' = [agentJob EXCEPT ![r] = "completed"]
    <3>1. PICK v, w : v = [n EXCEPT !.pc = "complete", !.answer = "final"] /\ w = "completed"
      OBVIOUS
    <3>2. asked' = Put(r, v)
      BY <2>7, <3>1, PutInPlace DEF AgentInv
    <3>3. v = Renewed(asked[r], "complete", asked[r].iter + 1, e, asked[r].calls, asked[r].left, asked[r].acc, "final")
      BY ONLY <2>2, <3>1 DEF Renewed
    <3>4. RequestFormed(v) /\ v.pc = "complete" /\ v.calls = asked[r].calls /\ v.acc = asked[r].acc
          /\ v.age = asked[r].age /\ v.answer = "final"
      BY <1>3, <3>3, RenewedFormed
    <3>5. /\ agentJob' = [q \in Ask |-> agentJob'[q]] /\ agentJob'[r] = w
          /\ \A q \in Ask : q # r => agentJob'[q] = agentJob[q]
      BY <2>7, <3>1, AgentJobPut DEF AgentInv
    <3>6. KindFits(r, v) /\ JobFits(r, v, agentJob'[r]) /\ SessionFits(r, v, sessions[r.session], disturbed)
      BY <1>1, <1>2, <3>1, <3>4, <3>5 DEF KindFits, JobFits, SessionFits, InLoop, AgentPcs, ToldPcs
    <3> QED
      BY <1>1, <3>2, <3>4, <3>5, <3>6, QuietStep
  <2>8. CASE /\ asked' = [asked EXCEPT ![r] = [n EXCEPT !.pc = "act", !.answer = GuessedTool(x), !.left = AgentFiles]]
             /\ UNCHANGED agentJob
    <3>1. PICK v, t : v = [n EXCEPT !.pc = "act", !.answer = t, !.left = AgentFiles] /\ t = GuessedTool(x)
      OBVIOUS
    <3>2. asked' = Put(r, v)
      BY <2>8, <3>1, PutInPlace DEF AgentInv
    <3>3. v = Renewed(asked[r], "act", asked[r].iter + 1, e, asked[r].calls, AgentFiles, asked[r].acc, t)
      BY ONLY <2>2, <3>1 DEF Renewed
    <3>4. RequestFormed(v) /\ v.pc = "act" /\ v.calls = asked[r].calls /\ v.acc = asked[r].acc /\ v.age = asked[r].age
      BY <1>3, <3>3, RenewedFormed
    <3>5. KindFits(r, v) /\ JobFits(r, v, agentJob[r]) /\ SessionFits(r, v, sessions[r.session], disturbed)
      BY <1>1, <1>2, <3>4 DEF KindFits, JobFits, SessionFits, InLoop, AgentPcs, ToldPcs
    <3> QED
      BY <1>1, <2>8, <3>2, <3>4, <3>5, QuieterStep
  <2> QED
    BY <1>5, <2>4, <2>5, <2>6, <2>7, <2>8
<1>6. CASE Failed(r) /\ UNCHANGED agentJob
  BY <1>4, <1>6
<1>7. CASE \E x \in Response[r] :
             LET is == parse_agent_response(x)
                 n == [asked[r] EXCEPT !.iter = @ + 1, !.empties = IF is = "empty" THEN @ + 1 ELSE 0]
             IN  \/ is = "empty" /\ n.empties < MAX_CONSECUTIVE_EMPTY /\ asked' = [asked EXCEPT ![r] = n] /\ UNCHANGED agentJob
                 \/ /\ is = "empty" /\ n.empties >= MAX_CONSECUTIVE_EMPTY
                    /\ Failed(r) /\ agentJob' = [agentJob EXCEPT ![r] = "failed"]
                 \/ is = "odd" /\ Failed(r) /\ UNCHANGED agentJob
                 \/ is = "nothing" /\ asked' = [asked EXCEPT ![r] = n] /\ UNCHANGED agentJob
                 \/ /\ is = "answer"
                    /\ asked' = [asked EXCEPT ![r] = [n EXCEPT !.pc = "complete", !.answer = "final"]]
                    /\ agentJob' = [agentJob EXCEPT ![r] = "completed"]
                 \/ /\ is = "tool"
                    /\ asked' = [asked EXCEPT ![r] = [n EXCEPT !.pc = "act", !.answer = GuessedTool(x), !.left = AgentFiles]]
                    /\ UNCHANGED agentJob
  BY <1>5, <1>7
<1> QED
  BY <1>6, <1>7 DEF call_llm

(* The loop is left: with an answer, out of rounds or out of time. *)
LEMMA LoopLeft ==
    ASSUME AgentInv, NEW r \in Ask, answer_found(r) \/ max_iterations(r) \/ run_agent_query_timeout(r)
    PROVE  AgentInv'
<1>1. UNCHANGED <<sessions, changes, unheard, disturbed>>
  BY DEF answer_found, max_iterations, run_agent_query_timeout, NoEffect
<1>2. CASE answer_found(r)
  <2>1. PICK pc : pc = "user"
    OBVIOUS
  <2>2. Goto(r, pc) /\ asked[r].pc = "complete" /\ UNCHANGED agentJob
    BY <1>2, <2>1 DEF answer_found
  <2>3. PICK v : /\ asked' = Put(r, v) /\ RequestFormed(v) /\ v.pc = pc /\ v.answer = asked[r].answer
                 /\ v.calls = asked[r].calls /\ v.acc = asked[r].acc /\ v.age = asked[r].age
    BY <2>2, PcPut
  <2>4. /\ r.kind = "agent" /\ asked[r].acc = {} /\ agentJob[r] = "completed" /\ asked[r].answer = "final"
        /\ r \notin disturbed => /\ sessions[r.session].open /\ 0 <= sessions[r.session].idle
                                 /\ sessions[r.session].idle <= TTL
    BY <2>2, RequestFacts DEF KindFits, JobFits, SessionFits, InLoop
  <2>5. KindFits(r, v) /\ JobFits(r, v, agentJob[r]) /\ SessionFits(r, v, sessions[r.session], disturbed)
    BY <2>1, <2>3, <2>4 DEF KindFits, JobFits, SessionFits, InLoop, AgentPcs, ToldPcs
  <2> QED
    BY <1>1, <2>2, <2>3, <2>5, QuieterStep
<1>3. CASE max_iterations(r)
  <2>1. PICK pc, w, j : pc = "user" /\ w = "partial" /\ j = "failed"
    OBVIOUS
  <2>2. SetAnswer(r, pc, w) /\ asked[r].pc = "think" /\ agentJob' = [agentJob EXCEPT ![r] = j]
    BY <1>3, <2>1 DEF max_iterations, SetAnswer
  <2>3. PICK v : /\ asked' = Put(r, v) /\ RequestFormed(v) /\ v.pc = pc /\ v.answer = w
                 /\ v.calls = asked[r].calls /\ v.acc = asked[r].acc /\ v.age = asked[r].age
    BY <2>2, AnswerPut
  <2>4. /\ r.kind = "agent" /\ asked[r].acc = {}
        /\ r \notin disturbed => /\ sessions[r.session].open /\ 0 <= sessions[r.session].idle
                                 /\ sessions[r.session].idle <= TTL
    BY <2>2, RequestFacts DEF KindFits, SessionFits, InLoop
  <2>5. /\ agentJob' = [q \in Ask |-> agentJob'[q]] /\ agentJob'[r] = j
        /\ \A q \in Ask : q # r => agentJob'[q] = agentJob[q]
    BY <2>2, AgentJobPut DEF AgentInv
  <2>6. KindFits(r, v) /\ JobFits(r, v, agentJob'[r]) /\ SessionFits(r, v, sessions[r.session], disturbed)
    BY <2>1, <2>3, <2>4, <2>5 DEF KindFits, JobFits, SessionFits, InLoop, AgentPcs, ToldPcs
  <2> QED
    BY <1>1, <2>3, <2>5, <2>6, QuietStep
<1>4. CASE run_agent_query_timeout(r)
  <2>1. PICK j : j = "failed"
    OBVIOUS
  <2>2. Failed(r) /\ agentJob' = [agentJob EXCEPT ![r] = j]
    BY <1>4, <2>1 DEF run_agent_query_timeout, TimedOut
  <2>3. /\ agentJob' = [q \in Ask |-> agentJob'[q]] /\ agentJob'[r] = j
        /\ \A q \in Ask : q # r => agentJob'[q] = agentJob[q]
    BY <2>2, AgentJobPut DEF AgentInv
  <2>4. agentJob'[r] # "completed"
    BY <2>1, <2>3
  <2> QED
    BY <1>1, <2>2, <2>3, <2>4, FailStep
<1> QED
  BY <1>2, <1>3, <1>4

(* A tool that ends without a change of its own. *)
LEMMA ResultStep ==
    ASSUME AgentInv, NEW r \in Ask, asked[r].pc = "act", NEW n, NEW told,
           (tool_result(r, n, told) /\ asked[r].acc \subseteq told) \/ tool_error(r),
           UNCHANGED <<changes, sessions, agentJob, unheard, disturbed>>
    PROVE  AgentInv'
<1>1. PICK call : /\ ToolEnded(r, call)
                  /\ \/ call = ToolCallRecord(asked[r].answer, "ok", n, told) /\ asked[r].acc \subseteq told
                     \/ call = ToolCallRecord(asked[r].answer, "error", 0, {})
  BY DEF tool_result, tool_error
<1>2. asked[r].acc \subseteq call.told \/ call.result = "error"
  BY <1>1 DEF ToolCallRecord
<1> QED
  BY <1>1, <1>2, ToolEnds

(* A tool that ends with a change: its result names it, or is an error. *)
LEMMA ChangedStep ==
    ASSUME AgentInv, NEW r \in Ask, asked[r].pc = "act", NEW c, Change(r, c), NEW n, NEW told,
           (tool_result(r, n, told) /\ asked[r].acc \cup {c} \subseteq told) \/ tool_error(r),
           UNCHANGED <<sessions, agentJob, unheard, disturbed>>
    PROVE  AgentInv'
<1>1. PICK call : /\ ToolEnded(r, call)
                  /\ \/ call = ToolCallRecord(asked[r].answer, "ok", n, told) /\ asked[r].acc \cup {c} \subseteq told
                     \/ call = ToolCallRecord(asked[r].answer, "error", 0, {})
  BY DEF tool_result, tool_error
<1>2. asked[r].acc \cup {c} \subseteq call.told \/ call.result = "error"
  BY <1>1 DEF ToolCallRecord
<1>3. PICK d : d = ChangeOf(r, c)
  OBVIOUS
<1>4. d.by = r /\ d.call = Len(asked[r].calls) + 1 /\ Answers(d, call)
  BY <1>2, <1>3 DEF ChangeOf, Answers
<1>5. \A e \in changes' : e \in changes \/ (e.by = r /\ e.call = Len(asked[r].calls) + 1 /\ Answers(e, call))
  BY <1>3, <1>4 DEF Change
<1> QED
  BY <1>1, <1>2, <1>5, ToolEnds

\* The tools that only read.
LEMMA ReadStep ==
    ASSUME AgentInv, NEW r \in Ask, ReadTools(r) \/ unknown_tool(r) \/ ingest_files_done(r)
    PROVE  AgentInv'
<1>1. ASSUME NEW tool, NEW Ns, Tells(r, tool, Ns), tool \notin {"ingest_files", "create_view"} PROVE AgentInv'
  <2>1. asked[r].pc = "act" /\ asked[r].answer = tool /\ UNCHANGED <<changes, sessions, agentJob, unheard, disturbed>>
    BY <1>1 DEF Tells, Acting, NoEffect, NoAgentElse
  <2>2. asked[r].acc \subseteq {}
    BY <1>1, <2>1, RequestFacts DEF KindFits
  <2>3. \E n : tool_result(r, n, {}) \/ tool_error(r)
    BY <1>1 DEF Tells
  <2> QED
    BY <2>1, <2>2, <2>3, ResultStep
<1>2. CASE ReadTools(r)
  <2>1. \E tool, Ns : Tells(r, tool, Ns) /\ tool \notin {"ingest_files", "create_view"}
    BY <1>2 DEF ReadTools, tool_query, tool_list_schemas, tool_count_records, tool_list_orgs, tool_get_schema,
       tool_search, tool_scan_folder, tool_discovery_status, tool_web_search, tool_fetch_url
  <2> QED
    BY <1>1, <2>1
<1>3. CASE unknown_tool(r)
  <2>1. /\ asked[r].pc = "act" /\ UNCHANGED <<changes, sessions, agentJob, unheard, disturbed>>
        /\ tool_error(r)
    BY <1>3 DEF unknown_tool, NoEffect, NoAgentElse
  <2> QED
    BY <2>1, ResultStep
<1>4. CASE ingest_files_done(r)
  <2>1. /\ asked[r].pc = "act" /\ UNCHANGED <<changes, sessions, agentJob, unheard, disturbed>>
        /\ \E n : tool_result(r, n, asked[r].acc)
    BY <1>4 DEF ingest_files_done, Acting, NoEffect, NoAgentElse
  <2> QED
    BY <2>1, ResultStep
<1> QED
  BY <1>2, <1>3, <1>4

\* The tools that write at once: each write is recorded with its request.
LEMMA WriteStep ==
    ASSUME AgentInv, NEW r \in Ask, WriteTools(r)
    PROVE  AgentInv'
<1>1. asked[r].pc = "act" /\ UNCHANGED <<sessions, agentJob, unheard, disturbed>>
  BY DEF WriteTools, tool_discovery_opt_in, tool_discovery_opt_out, tool_ingest_json, tool_update_record, Acting, NoAgentElse
<1>2. asked[r].acc = {}
  <2>1. asked[r].answer \in {"discovery_opt_in", "discovery_opt_out", "ingest_json", "update_record"}
    BY DEF WriteTools, tool_discovery_opt_in, tool_discovery_opt_out, tool_ingest_json, tool_update_record, Acting
  <2> QED
    BY <1>1, <2>1, RequestFacts DEF KindFits
<1>3. (\E c : Changed(r, c)) \/ (\E c : Change(r, c) /\ tool_error(r)) \/ NoChange(r)
  <2>1. CASE tool_discovery_opt_in(r)
    BY <2>1 DEF tool_discovery_opt_in
  <2>2. CASE tool_discovery_opt_out(r)
    BY <2>2 DEF tool_discovery_opt_out
  <2>3. CASE tool_ingest_json(r)
    BY <2>3 DEF tool_ingest_json
  <2>4. CASE tool_update_record(r)
    BY <2>4 DEF tool_update_record
  <2> QED
    BY <2>1, <2>2, <2>3, <2>4 DEF WriteTools
<1>4. CASE NoChange(r)
  <2>1. UNCHANGED changes /\ tool_error(r)
    BY <1>4 DEF NoChange
  <2> QED
    BY <1>1, <2>1, ResultStep
<1>5. ASSUME NEW c, Changed(r, c) PROVE AgentInv'
  <2>1. Change(r, c) /\ tool_result(r, 1, {c}) /\ asked[r].acc \cup {c} \subseteq {c}
    BY <1>2, <1>5 DEF Changed
  <2> QED
    BY <1>1, <2>1, ChangedStep
<1>6. ASSUME NEW c, Change(r, c), tool_error(r) PROVE AgentInv'
  BY <1>1, <1>6, ChangedStep
<1> QED
  BY <1>3, <1>4, <1>5, <1>6

(* A tool that goes on, with more in hand or not. *)
LEMMA ToolGoesOn ==
    ASSUME AgentInv, NEW r \in Ask, asked[r].pc = "act", asked[r].answer \in {"ingest_files", "create_view"},
           NEW v, asked' = Put(r, v), RequestFormed(v), v.pc = asked[r].pc, v.answer = asked[r].answer,
           v.calls = asked[r].calls, asked[r].acc \subseteq v.acc, v.age = asked[r].age,
           \A c \in changes' : c \in changes \/ \E i \in v.acc : c = ChangeOf(r, i),
           UNCHANGED <<sessions, agentJob, unheard, disturbed>>
    PROVE  AgentInv'
<1>1. /\ r.kind = "agent" /\ agentJob[r] = "running"
      /\ r \notin disturbed => /\ sessions[r.session].open /\ 0 <= sessions[r.session].idle
                               /\ sessions[r.session].idle <= asked[r].age
  BY RequestFacts DEF KindFits, InLoop, JobFits, SessionFits
<1>2. Fits(r, v, agentJob'[r], sessions'[r.session], disturbed)
  BY <1>1 DEF Fits, KindFits, JobFits, SessionFits, InLoop, AgentPcs, ToldPcs
<1>3. \A x : Known(x, asked[r]) => Known(x, v)
  BY DEF Known
<1>4. \A c \in changes' : c \in changes \/ (c.by = r /\ r.kind = "agent" /\ Known(c, v))
  <2>1. ASSUME NEW i \in v.acc, NEW c, c = ChangeOf(r, i) PROVE c.by = r /\ Known(c, v)
    <3>1. c.by = r /\ c.call = Len(asked[r].calls) + 1 /\ c.item = i
      BY <2>1 DEF ChangeOf
    <3> QED
      BY <2>1, <3>1 DEF Known
  <2> QED
    BY <1>1, <2>1
<1>5. /\ agentJob' = [q \in Ask |-> agentJob'[q]] /\ (\A q \in Ask : q # r => agentJob'[q] = agentJob[q])
      /\ SessionsFormed' /\ SessionsKept
  BY DEF AgentInv, AskedFormed, SessionsFormed, SessionsKept
<1> QED
  BY <1>2, <1>3, <1>4, <1>5, RequestStep

\* ingest_files, one file at a time.
LEMMA IngestStep ==
    ASSUME AgentInv, NEW r \in Ask, ingest_files(r)
    PROVE  AgentInv'
<1>1. asked[r].pc = "act" /\ asked[r].answer \in {"ingest_files", "create_view"}
      /\ UNCHANGED <<sessions, agentJob, unheard, disturbed>>
  BY DEF ingest_files, Acting, NoAgentElse
<1>2. PICK f, outcome : FileDone(r, f, outcome) /\ (UNCHANGED changes \/ Change(r, <<"file", f, outcome>>))
  BY DEF ingest_files
<1>3. PICK left, c, acc : left = asked[r].left \ {f} /\ c = <<"file", f, outcome>> /\ acc = asked[r].acc \cup {c}
  OBVIOUS
<1>4. SetLeftAcc(r, left, acc) /\ (UNCHANGED changes \/ Change(r, c))
  BY <1>2, <1>3 DEF SetLeftAcc, FileDone
<1>5. PICK v : /\ asked' = Put(r, v) /\ RequestFormed(v) /\ v.pc = asked[r].pc /\ v.answer = asked[r].answer
               /\ v.calls = asked[r].calls /\ v.acc = acc /\ v.age = asked[r].age
  BY <1>4, LeftAccPut
<1>6. asked[r].acc \subseteq v.acc /\ \A d \in changes' : d \in changes \/ \E i \in v.acc : d = ChangeOf(r, i)
  BY <1>3, <1>4, <1>5 DEF Change
<1> QED
  BY <1>1, <1>5, <1>6, ToolGoesOn

\* create_view, its transform first.
LEMMA ViewStep ==
    ASSUME AgentInv, NEW r \in Ask, register_transform(r) \/ create_view(r)
    PROVE  AgentInv'
<1>1. asked[r].pc = "act" /\ asked[r].answer \in {"ingest_files", "create_view"} /\ UNCHANGED <<sessions, agentJob, unheard, disturbed>>
  BY DEF register_transform, create_view, Acting, NoAgentElse
<1>2. CASE tool_error(r) /\ UNCHANGED changes
  BY <1>1, <1>2, ResultStep
<1>3. CASE /\ asked[r].acc = {} /\ Change(r, <<"view", "registered">>)
           /\ asked' = [asked EXCEPT ![r].acc = {<<"view", "registered">>}]
  <2>1. PICK c, acc : c = <<"view", "registered">> /\ acc = {c}
    OBVIOUS
  <2>2. SetAcc(r, acc) /\ Change(r, c)
    BY <1>3, <2>1 DEF SetAcc
  <2>3. PICK v : /\ asked' = Put(r, v) /\ RequestFormed(v) /\ v.pc = asked[r].pc /\ v.answer = asked[r].answer
                 /\ v.calls = asked[r].calls /\ v.acc = acc /\ v.age = asked[r].age
    BY <2>2, AccPut
  <2>4. asked[r].acc \subseteq v.acc /\ \A d \in changes' : d \in changes \/ \E i \in v.acc : d = ChangeOf(r, i)
    BY <1>3, <2>1, <2>2, <2>3 DEF Change
  <2> QED
    BY <1>1, <2>3, <2>4, ToolGoesOn
<1>4. CASE /\ Change(r, <<"view", "stored">>)
           /\ tool_result(r, 1, asked[r].acc \cup {<<"view", "stored">>})
  <2>1. PICK c : c = <<"view", "stored">>
    OBVIOUS
  <2>2. tool_result(r, 1, asked[r].acc \cup {c}) /\ Change(r, c)
    BY <1>4, <2>1
  <2> QED
    BY <1>1, <2>2, ChangedStep
<1>5. CASE register_transform(r)
  BY <1>2, <1>3, <1>5 DEF register_transform
<1>6. CASE create_view(r)
  BY <1>2, <1>4, <1>6 DEF create_view
<1> QED
  BY <1>5, <1>6

(* A step of a request that is no agent's. *)
LEMMA OtherStep ==
    ASSUME AgentInv, NEW r \in Ask, r.kind # "agent", NEW v, asked' = Put(r, v), RequestFormed(v),
           v.pc \notin {"idle", "think", "act", "complete"}, UNCHANGED <<agentJob, changes, disturbed>>,
           SessionsFormed', SessionsKept, \A q \in unheard' : q \in unheard \/ q.kind # "agent"
    PROVE  AgentInv'
<1>1. Fits(r, v, agentJob'[r], sessions'[r.session], disturbed)
  BY DEF Fits, KindFits, JobFits, SessionFits, InLoop
<1>2. agentJob' = [q \in Ask |-> agentJob'[q]] /\ (\A q \in Ask : q # r => agentJob'[q] = agentJob[q])
  BY DEF AgentInv, AskedFormed
<1> QED
  BY <1>1, <1>2, RequestStep

(* A message or results: a session that is there is used, one that is not  *)
(* is left so.                                                             *)
LEMMA SessionTouched ==
    ASSUME AgentInv, NEW i \in SessionIds, NEW s, sessions' = [sessions EXCEPT ![i] = s],
           s = [open |-> s.open, idle |-> s.idle, history |-> s.history, searched |-> s.searched, results |-> s.results],
           s.idle = 0, s.open = sessions[i].open
    PROVE  SessionsFormed' /\ SessionsKept
<1>1. /\ sessions' = [k \in SessionIds |-> sessions'[k]] /\ sessions'[i] = s
      /\ \A k \in SessionIds : k # i => sessions'[k] = sessions[k]
  BY DEF AgentInv, SessionsFormed
<1>2. \A k \in SessionIds :
        /\ sessions[k] = [open |-> sessions[k].open, idle |-> sessions[k].idle, history |-> sessions[k].history,
                          searched |-> sessions[k].searched, results |-> sessions[k].results]
        /\ sessions[k].idle \in Int
  BY DEF AgentInv, SessionsFormed
<1>3. ASSUME NEW k \in SessionIds
      PROVE  /\ sessions'[k] = [open |-> sessions'[k].open, idle |-> sessions'[k].idle, history |-> sessions'[k].history,
                                searched |-> sessions'[k].searched, results |-> sessions'[k].results]
             /\ sessions'[k].idle \in Int
             /\ sessions[k].open /\ 0 <= sessions[k].idle =>
                   sessions'[k].open /\ 0 <= sessions'[k].idle /\ sessions'[k].idle <= sessions[k].idle
  <2>1. CASE k = i
    <3>1. sessions'[k] = s /\ sessions[k].open = s.open /\ sessions[k].idle \in Int
      BY <1>1, <1>2, <2>1
    <3>2. s.idle \in Int /\ 0 <= s.idle /\ (0 <= sessions[k].idle => s.idle <= sessions[k].idle)
      BY <3>1
    <3> QED
      BY <3>1, <3>2
  <2>2. CASE k # i
    BY <1>1, <1>2, <2>2
  <2> QED
    BY <2>1, <2>2
<1>4. SessionsFormed'
  BY <1>1, <1>3 DEF SessionsFormed, SessionIds
<1> QED
  BY <1>3, <1>4 DEF SessionsKept

\* add_message: an expired session hears nothing.
LEMMA MessageAdded ==
    ASSUME AgentInv, NEW r \in Ask, NEW role, add_message(r, role)
    PROVE  /\ SessionsFormed' /\ SessionsKept
           /\ IF sessions[r.session].open THEN sessions'[r.session].open /\ sessions'[r.session].idle = 0 /\ UNCHANGED unheard
                                          ELSE unheard' = unheard \cup {r}
<1>1. r.session \in SessionIds
  BY DEF SessionIds
<1>2. CASE sessions[r.session].open
  <2>1. PICK h : h = Append(sessions[r.session].history, <<role, r>>)
    OBVIOUS
  <2>2. PICK s : s = [sessions[r.session] EXCEPT !.history = h, !.idle = 0]
    OBVIOUS
  <2>3. sessions' = [sessions EXCEPT ![r.session].history = h, ![r.session].idle = 0] /\ UNCHANGED unheard
    BY <1>2, <2>1 DEF add_message
  <2>4. sessions' = [sessions EXCEPT ![r.session] = s]
    BY <1>1, <2>2, <2>3 DEF AgentInv, SessionsFormed
  <2>5. sessions[r.session] = [open |-> sessions[r.session].open, idle |-> sessions[r.session].idle,
                               history |-> sessions[r.session].history, searched |-> sessions[r.session].searched,
                               results |-> sessions[r.session].results]
    BY <1>1 DEF AgentInv, SessionsFormed
  <2>6. s = [open |-> sessions[r.session].open, idle |-> 0, history |-> h, searched |-> sessions[r.session].searched,
             results |-> sessions[r.session].results]
    BY ONLY <2>2, <2>5
  <2>7. /\ s = [open |-> s.open, idle |-> s.idle, history |-> s.history, searched |-> s.searched, results |-> s.results]
        /\ s.idle = 0 /\ s.open = sessions[r.session].open
    BY ONLY <2>6
  <2>8. SessionsFormed' /\ SessionsKept
    BY <1>1, <2>4, <2>7, SessionTouched
  <2>9. sessions'[r.session] = s
    BY <1>1, <2>4 DEF AgentInv, SessionsFormed
  <2> QED
    BY <1>2, <2>3, <2>7, <2>8, <2>9
<1>3. CASE ~sessions[r.session].open
  <2>1. unheard' = unheard \cup {r} /\ UNCHANGED sessions
    BY <1>3 DEF add_message
  <2>2. SessionsFormed' /\ SessionsKept
    BY <2>1 DEF AgentInv, SessionsFormed, SessionsKept
  <2> QED
    BY <1>3, <2>1, <2>2
<1> QED
  BY <1>2, <1>3

\* add_results renews the session it finds.
LEMMA ResultsAdded ==
    ASSUME AgentInv, NEW r \in Ask, NEW hits, add_results(r, hits)
    PROVE  SessionsFormed' /\ SessionsKept
<1>1. r.session \in SessionIds
  BY DEF SessionIds
<1>2. CASE sessions[r.session].open
  <2>2. PICK s : s = [sessions[r.session] EXCEPT !.searched = TRUE, !.results = hits, !.idle = 0]
    OBVIOUS
  <2>3. sessions' = [sessions EXCEPT ![r.session].searched = TRUE, ![r.session].results = hits, ![r.session].idle = 0]
    BY <1>2 DEF add_results
  <2>4. sessions' = [sessions EXCEPT ![r.session] = s]
    BY <1>1, <2>2, <2>3 DEF AgentInv, SessionsFormed
  <2>5. sessions[r.session] = [open |-> sessions[r.session].open, idle |-> sessions[r.session].idle,
                               history |-> sessions[r.session].history, searched |-> sessions[r.session].searched,
                               results |-> sessions[r.session].results]
    BY <1>1 DEF AgentInv, SessionsFormed
  <2>6. s = [open |-> sessions[r.session].open, idle |-> 0, history |-> sessions[r.session].history, searched |-> TRUE,
             results |-> hits]
    BY ONLY <2>2, <2>5
  <2>7. /\ s = [open |-> s.open, idle |-> s.idle, history |-> s.history, searched |-> s.searched, results |-> s.results]
        /\ s.idle = 0 /\ s.open = sessions[r.session].open
    BY ONLY <2>6
  <2> QED
    BY <1>1, <2>4, <2>7, SessionTouched
<1>3. CASE ~sessions[r.session].open
  <2>1. UNCHANGED sessions
    BY <1>3 DEF add_results
  <2> QED
    BY <2>1 DEF AgentInv, SessionsFormed, SessionsKept
<1> QED
  BY <1>2, <1>3

(* The search, chat and follow-ups. *)
LEMMA SearchStep ==
    ASSUME AgentInv, NEW r \in Ask,
           \/ ai_native_index_query(r) \/ index_search(r) \/ interpret_native_index_results(r) \/ store_results(r)
           \/ chat(r) \/ analyze_followup_question(r) \/ answer_question(r)
    PROVE  AgentInv'
<1>1. /\ r.kind # "agent" /\ UNCHANGED <<agentJob, changes, disturbed>>
      /\ \A q \in unheard' : q \in unheard \/ q.kind # "agent"
  <2>1. r.kind \in {"index", "chat", "followup"} \/ asked[r].pc \in {"search", "interpret", "results", "analyze", "question"}
    BY DEF ai_native_index_query, index_search, interpret_native_index_results, store_results, chat,
           analyze_followup_question, answer_question
  <2>2. r.kind # "agent"
    BY <2>1, RequestFacts DEF KindFits, AgentPcs, ToldPcs
  <2>3. UNCHANGED <<agentJob, changes, unheard, disturbed>>
    BY DEF ai_native_index_query, index_search, interpret_native_index_results, store_results, chat,
           analyze_followup_question, answer_question, NoEffect, NoAgentElse
  <2> QED
    BY <2>2, <2>3
<1>2. SessionsFormed' /\ SessionsKept
  <2>1. CASE ai_native_index_query(r)
    BY <2>1, SessionUsed, RequestFacts DEF ai_native_index_query
  <2>2. CASE store_results(r)
    BY <2>2, ResultsAdded DEF store_results
  <2>3. CASE UNCHANGED sessions
    BY <2>3 DEF AgentInv, SessionsFormed, SessionsKept
  <2> QED
    BY <2>1, <2>2, <2>3 DEF index_search, interpret_native_index_results, chat, analyze_followup_question, answer_question,
       NoAgentElse
<1>3. ASSUME NEW pc, Goto(r, pc), pc \notin {"idle", "think", "act", "complete"} PROVE AgentInv'
  <2>1. PICK v : asked' = Put(r, v) /\ RequestFormed(v) /\ v.pc = pc
    BY <1>3, PcPut
  <2> QED
    BY <1>1, <1>2, <1>3, <2>1, OtherStep
<1>4. ASSUME NEW pc, NEW w, SetAnswer(r, pc, w), pc \notin {"idle", "think", "act", "complete"} PROVE AgentInv'
  <2>1. PICK v : asked' = Put(r, v) /\ RequestFormed(v) /\ v.pc = pc
    BY <1>4, AnswerPut
  <2> QED
    BY <1>1, <1>2, <1>4, <2>1, OtherStep
<1>5. ASSUME NEW pc, NEW hits, SetPcAcc(r, pc, hits), pc \notin {"idle", "think", "act", "complete"} PROVE AgentInv'
  <2>1. PICK v : asked' = Put(r, v) /\ RequestFormed(v) /\ v.pc = pc
    BY <1>5, PcAccPut
  <2> QED
    BY <1>1, <1>2, <1>5, <2>1, OtherStep
<1>6. CASE Failed(r)
  BY <1>3, <1>6 DEF Failed
<1>7. CASE ai_native_index_query(r)
  BY <1>3, <1>7 DEF ai_native_index_query
<1>8. CASE index_search(r)
  <2>1. PICK pc : pc = "interpret"
    OBVIOUS
  <2>2. Failed(r) \/ \E hits : SetPcAcc(r, pc, hits)
    BY <1>8, <2>1 DEF index_search, SetPcAcc
  <2> QED
    BY <1>5, <1>6, <2>1, <2>2
<1>9. CASE interpret_native_index_results(r)
  <2>1. PICK pc, w : pc = "results" /\ w = "interpretation"
    OBVIOUS
  <2>2. Failed(r) \/ SetAnswer(r, pc, w)
    BY <1>9, <2>1 DEF interpret_native_index_results, SetAnswer
  <2> QED
    BY <1>4, <1>6, <2>1, <2>2
<1>10. CASE store_results(r)
  <2>1. PICK pc, hits : pc = "user" /\ hits = {}
    OBVIOUS
  <2>2. SetPcAcc(r, pc, hits)
    BY <1>10, <2>1 DEF store_results, SetPcAcc
  <2> QED
    BY <1>5, <2>1, <2>2
<1>11. CASE chat(r)
  <2>1. Failed(r) \/ Goto(r, "analyze")
    BY <1>11 DEF chat
  <2> QED
    BY <1>3, <1>6, <2>1
<1>12. CASE analyze_followup_question(r)
  <2>1. PICK pc : pc = IF r.kind = "chat" THEN "question" ELSE "answered"
    OBVIOUS
  <2>2. Failed(r) \/ Goto(r, pc)
    BY <1>12, <2>1 DEF analyze_followup_question
  <2>3. pc \notin {"idle", "think", "act", "complete"}
    BY <2>1
  <2> QED
    BY <1>3, <1>6, <2>2, <2>3
<1>13. CASE answer_question(r)
  <2>1. PICK pc, w : pc = "user" /\ w = "chat"
    OBVIOUS
  <2>2. Failed(r) \/ SetAnswer(r, pc, w)
    BY <1>13, <2>1 DEF answer_question, SetAnswer
  <2> QED
    BY <1>4, <1>6, <2>1, <2>2
<1> QED
  BY <1>7, <1>8, <1>9, <1>10, <1>11, <1>12, <1>13

(* The messages of an answer find the session of an agent in place. *)
LEMMA TellStep ==
    ASSUME AgentInv, NEW r \in Ask, tell_session(r)
    PROVE  AgentInv'
<1>1. /\ asked[r].pc \in {"user", "tool_calls", "assistant"} /\ add_message(r, asked[r].pc) /\ Goto(r, NextMessage(r))
      /\ UNCHANGED <<agentJob, changes, disturbed>>
  BY DEF tell_session, NoEffect
<1>2. PICK pc : pc = NextMessage(r)
  OBVIOUS
<1>3. pc \in {"tool_calls", "assistant", "save"}
  BY <1>2 DEF NextMessage
<1>4. PICK v : /\ asked' = Put(r, v) /\ RequestFormed(v) /\ v.pc = pc /\ v.answer = asked[r].answer
               /\ v.calls = asked[r].calls /\ v.acc = asked[r].acc /\ v.age = asked[r].age
  BY <1>1, <1>2, PcPut
<1>5. /\ SessionsFormed' /\ SessionsKept
      /\ IF sessions[r.session].open THEN sessions'[r.session].open /\ sessions'[r.session].idle = 0 /\ UNCHANGED unheard
                                     ELSE unheard' = unheard \cup {r}
  BY <1>1, MessageAdded
<1>6. CASE r.kind # "agent"
  <2>1. \A q \in unheard' : q \in unheard \/ q.kind # "agent"
    BY <1>5, <1>6
  <2>2. v.pc \notin {"idle", "think", "act", "complete"}
    BY <1>3, <1>4
  <2> QED
    BY <1>1, <1>4, <1>5, <1>6, <2>1, <2>2, OtherStep
<1>7. CASE r.kind = "agent"
  <2>1. /\ asked[r].acc = {} /\ (r \notin disturbed => sessions[r.session].open) /\ TTL \in Nat
        /\ asked[r].answer = "final" <=> agentJob[r] = "completed"
        /\ asked[r].answer = "partial" => agentJob[r] = "failed"
    BY <1>1, <1>7, RequestFacts DEF KindFits, JobFits, SessionFits, ToldPcs
  <2>2. r \notin disturbed => /\ sessions'[r.session].open /\ 0 <= sessions'[r.session].idle
                             /\ sessions'[r.session].idle <= TTL
    BY <1>5, <2>1
  <2>a. \A q \in unheard' : q \in unheard \/ q \in disturbed
    BY <1>5, <2>1
  <2>3. Fits(r, v, agentJob'[r], sessions'[r.session], disturbed)
    BY <1>1, <1>3, <1>4, <1>7, <2>1, <2>2 DEF Fits, KindFits, JobFits, SessionFits, InLoop, AgentPcs, ToldPcs
  <2>4. \A x : Known(x, asked[r]) => Known(x, v)
    BY <1>4 DEF Known
  <2>5. agentJob' = [q \in Ask |-> agentJob'[q]] /\ (\A q \in Ask : q # r => agentJob'[q] = agentJob[q])
    BY <1>1 DEF AgentInv, AskedFormed
  <2> QED
    BY <1>1, <1>4, <1>5, <2>2, <2>3, <2>4, <2>5, <2>a, RequestStep
<1> QED
  BY <1>6, <1>7

\* save_conversation_turn.
LEMMA SaveStep ==
    ASSUME AgentInv, NEW r \in Ask, save_conversation_turn(r)
    PROVE  AgentInv'
<1>1. PICK pc : pc = "answered"
  OBVIOUS
<1>2. asked[r].pc = "save" /\ Goto(r, pc) /\ UNCHANGED <<sessions, agentJob, changes, unheard, disturbed>>
  BY <1>1 DEF save_conversation_turn
<1>3. PICK v : /\ asked' = Put(r, v) /\ RequestFormed(v) /\ v.pc = pc /\ v.answer = asked[r].answer
               /\ v.calls = asked[r].calls /\ v.acc = asked[r].acc /\ v.age = asked[r].age
  BY <1>2, PcPut
<1>4. KindFits(r, v) /\ JobFits(r, v, agentJob[r]) /\ SessionFits(r, v, sessions[r.session], disturbed)
  BY <1>1, <1>2, <1>3, RequestFacts DEF KindFits, JobFits, SessionFits, InLoop, AgentPcs, ToldPcs
<1> QED
  BY <1>2, <1>3, <1>4, QuieterStep

(* Time passes for a working agent and its session alike, and at most once *)
(* while the agent works.                                                  *)
LEMMA TickStep ==
    ASSUME AgentInv, tick
    PROVE  AgentInv'
<1>1. /\ \A r \in Ask : (Working(r) => asked[r].age = 0) /\ ~Telling(r)
      /\ asked' = [r \in Ask |-> [asked[r] EXCEPT !.age = IF Working(r) THEN asked[r].age + 1 ELSE asked[r].age]]
      /\ sessions' = [i \in SessionIds |-> [sessions[i] EXCEPT !.idle = IF sessions[i].idle <= TTL THEN sessions[i].idle + 1
                                                                                                   ELSE sessions[i].idle]]
      /\ UNCHANGED <<agentJob, changes, unheard, disturbed>>
  BY DEF tick, NoEffect
<1>2. ASSUME NEW r \in Ask
      PROVE  /\ RequestFormed(asked'[r])
             /\ asked'[r].pc = asked[r].pc /\ asked'[r].calls = asked[r].calls /\ asked'[r].acc = asked[r].acc
             /\ asked'[r].answer = asked[r].answer /\ asked'[r].age = IF Working(r) THEN 1 ELSE asked[r].age
  <2>1. PICK v, age : age = (IF Working(r) THEN asked[r].age + 1 ELSE asked[r].age) /\ v = [asked[r] EXCEPT !.age = age]
    OBVIOUS
  <2>2. asked'[r] = v
    BY <1>1, <2>1
  <2>3. age = (IF Working(r) THEN 1 ELSE asked[r].age) /\ age \in {0, 1}
    BY <1>1, <2>1, RequestFacts
  <2>4. asked[r] = [pc |-> asked[r].pc, iter |-> asked[r].iter, empties |-> asked[r].empties, calls |-> asked[r].calls,
                    left |-> asked[r].left, acc |-> asked[r].acc, age |-> asked[r].age, answer |-> asked[r].answer]
    BY RequestFacts DEF RequestFormed
  <2>5. v = [pc |-> asked[r].pc, iter |-> asked[r].iter, empties |-> asked[r].empties, calls |-> asked[r].calls,
             left |-> asked[r].left, acc |-> asked[r].acc, age |-> age, answer |-> asked[r].answer]
    BY ONLY <2>1, <2>4
  <2>6. IsSeq(asked[r].calls)
    BY RequestFacts
  <2>7. RequestFormed(v)
    BY ONLY <2>3, <2>5, <2>6 DEF RequestFormed
  <2> QED
    BY <2>2, <2>3, <2>5, <2>7
<1>3. ASSUME NEW i \in SessionIds
      PROVE  /\ sessions'[i] = [open |-> sessions'[i].open, idle |-> sessions'[i].idle, history |-> sessions'[i].history,
                                searched |-> sessions'[i].searched, results |-> sessions'[i].results]
             /\ sessions'[i].idle \in Int /\ sessions'[i].open = sessions[i].open
             /\ sessions[i].idle <= sessions'[i].idle /\ sessions'[i].idle <= sessions[i].idle + 1
  <2>1. PICK s, idle : /\ idle = (IF sessions[i].idle <= TTL THEN sessions[i].idle + 1 ELSE sessions[i].idle)
                       /\ s = [sessions[i] EXCEPT !.idle = idle]
    OBVIOUS
  <2>2. sessions'[i] = s
    BY <1>1, <2>1
  <2>3. /\ sessions[i] = [open |-> sessions[i].open, idle |-> sessions[i].idle, history |-> sessions[i].history,
                          searched |-> sessions[i].searched, results |-> sessions[i].results]
        /\ sessions[i].idle \in Int
    BY DEF AgentInv, SessionsFormed
  <2>4. idle \in Int /\ sessions[i].idle <= idle /\ idle <= sessions[i].idle + 1
    BY <2>1, <2>3, AgentAssumption
  <2>5. s = [open |-> sessions[i].open, idle |-> idle, history |-> sessions[i].history,
             searched |-> sessions[i].searched, results |-> sessions[i].results]
    BY ONLY <2>1, <2>3
  <2> QED
    BY <2>2, <2>4, <2>5
<1>4. AskedFormed'
  <2>1. asked' = [r \in Ask |-> asked'[r]] /\ agentJob' = [r \in Ask |-> agentJob'[r]]
    BY <1>1 DEF AgentInv, AskedFormed
  <2> QED
    BY <1>2, <2>1 DEF AskedFormed
<1>5. SessionsFormed'
  <2>1. sessions' = [i \in SessionIds |-> sessions'[i]]
    BY <1>1
  <2> QED
    BY <1>3, <2>1 DEF SessionsFormed, SessionIds
<1>6. AllFit'
  <2> SUFFICES ASSUME NEW r \in Ask PROVE Fits(r, asked'[r], agentJob'[r], sessions'[r.session], disturbed')
    BY DEF AllFit
  <2>1. /\ KindFits(r, asked[r]) /\ JobFits(r, asked[r], agentJob[r]) /\ SessionFits(r, asked[r], sessions[r.session], disturbed)
        /\ r.session \in SessionIds /\ sessions[r.session].idle \in Int /\ asked[r].age \in {0, 1}
    BY RequestFacts
  <2>2. KindFits(r, asked'[r]) /\ JobFits(r, asked'[r], agentJob'[r])
    BY <1>1, <1>2, <2>1 DEF KindFits, JobFits, InLoop
  <2>3. SessionFits(r, asked'[r], sessions'[r.session], disturbed')
    <3> SUFFICES ASSUME r.kind = "agent"
                 PROVE  /\ asked[r].pc = "idle" => asked'[r].age = 0
                        /\ r \notin disturbed /\ InLoop(asked[r]) =>
                              /\ sessions'[r.session].open /\ 0 <= sessions'[r.session].idle
                              /\ sessions'[r.session].idle <= asked'[r].age
                        /\ asked[r].pc \notin {"user", "tool_calls", "assistant"}
      BY <1>1, <1>2 DEF SessionFits, InLoop
    <3>1. asked[r].pc = "idle" => asked'[r].age = 0
      BY <1>2, <2>1 DEF SessionFits, Working
    <3>2. asked[r].pc \notin {"user", "tool_calls", "assistant"}
      BY <1>1 DEF Telling
    <3>3. ASSUME r \notin disturbed, InLoop(asked[r])
          PROVE  /\ sessions'[r.session].open /\ 0 <= sessions'[r.session].idle
                 /\ sessions'[r.session].idle <= asked'[r].age
      <4>1. Working(r)
        BY <3>3 DEF Working, InLoop
      <4>2. asked[r].age = 0 /\ asked'[r].age = 1
        BY <1>1, <1>2, <4>1
      <4>3. sessions[r.session].open /\ sessions[r.session].idle = 0
        BY <2>1, <3>3, <4>2 DEF SessionFits
      <4>4. /\ sessions'[r.session].open /\ sessions'[r.session].idle \in Int
            /\ 0 <= sessions'[r.session].idle /\ sessions'[r.session].idle <= 0 + 1
        BY <1>3, <2>1, <4>3
      <4> QED
        BY <4>2, <4>4
    <3> QED
      BY <3>1, <3>2, <3>3
  <2> QED
    BY <2>2, <2>3 DEF Fits
<1>7. ChangesKnown' /\ TurnRemembered'
  BY <1>1, <1>2 DEF AgentInv, ChangesKnown, Known, TurnRemembered
<1> QED
  BY <1>4, <1>5, <1>6, <1>7 DEF AgentInv

(* The clock is set: every request at work is disturbed, and one that is   *)
(* not at work asks nothing of its session.                                *)
LEMMA ClockStep ==
    ASSUME AgentInv, clock_set
    PROVE  AgentInv'
<1>1. PICK d \in {-1, 1} :
        sessions' = [i \in SessionIds |-> [sessions[i] EXCEPT !.idle = IF sessions[i].idle + d <= TTL THEN sessions[i].idle + d
                                                                                                    ELSE TTL + 1]]
  BY DEF clock_set
<1>2. /\ disturbed' = disturbed \cup {r \in Ask : Working(r) \/ Telling(r)}
      /\ UNCHANGED <<asked, agentJob, changes, unheard>>
  BY DEF clock_set, NoEffect
<1>3. ASSUME NEW i \in SessionIds
      PROVE  /\ sessions'[i] = [open |-> sessions'[i].open, idle |-> sessions'[i].idle, history |-> sessions'[i].history,
                                searched |-> sessions'[i].searched, results |-> sessions'[i].results]
             /\ sessions'[i].idle \in Int
  <2>1. PICK s, idle : /\ idle = (IF sessions[i].idle + d <= TTL THEN sessions[i].idle + d ELSE TTL + 1)
                       /\ s = [sessions[i] EXCEPT !.idle = idle]
    OBVIOUS
  <2>2. sessions'[i] = s
    BY <1>1, <2>1
  <2>3. /\ sessions[i] = [open |-> sessions[i].open, idle |-> sessions[i].idle, history |-> sessions[i].history,
                          searched |-> sessions[i].searched, results |-> sessions[i].results]
        /\ sessions[i].idle \in Int
    BY DEF AgentInv, SessionsFormed
  <2>4. idle \in Int
    BY <1>1, <2>1, <2>3, AgentAssumption
  <2>5. s = [open |-> sessions[i].open, idle |-> idle, history |-> sessions[i].history,
             searched |-> sessions[i].searched, results |-> sessions[i].results]
    BY ONLY <2>1, <2>3
  <2> QED
    BY <2>2, <2>4, <2>5
<1>4. AskedFormed' /\ ChangesKnown' /\ TurnRemembered'
  BY <1>2 DEF AgentInv, AskedFormed, ChangesKnown, TurnRemembered
<1>5. SessionsFormed'
  <2>1. sessions' = [i \in SessionIds |-> sessions'[i]]
    BY <1>1
  <2> QED
    BY <1>3, <2>1 DEF SessionsFormed, SessionIds
<1>6. AllFit'
  <2> SUFFICES ASSUME NEW r \in Ask PROVE Fits(r, asked'[r], agentJob'[r], sessions'[r.session], disturbed')
    BY DEF AllFit
  <2>1. KindFits(r, asked[r]) /\ JobFits(r, asked[r], agentJob[r]) /\ SessionFits(r, asked[r], sessions[r.session], disturbed)
    BY RequestFacts
  <2>2. r.kind = "agent" /\ asked[r].pc \in {"think", "act", "complete", "user", "tool_calls", "assistant"} => r \in disturbed'
    BY <1>2 DEF Working, Telling
  <2>3. SessionFits(r, asked'[r], sessions'[r.session], disturbed')
    BY <1>2, <2>1, <2>2 DEF SessionFits, InLoop
  <2> QED
    BY <1>2, <2>1, <2>3 DEF Fits, KindFits, JobFits
<1> QED
  BY <1>4, <1>5, <1>6 DEF AgentInv

\* A request that breaks: a job that is completed has its final answer.
LEMMA PanicStep ==
    ASSUME AgentInv, NEW r \in Ask, slice_panics(r)
    PROVE  AgentInv'
<1>1. PICK pc : pc = "panicked"
  OBVIOUS
<1>2. /\ r.kind = "agent" /\ asked[r].pc \in {"idle", "think", "tool_calls"} /\ Goto(r, pc)
      /\ UNCHANGED <<sessions, agentJob, changes, unheard, disturbed>>
  BY <1>1 DEF slice_panics, NoEffect
<1>3. PICK v : /\ asked' = Put(r, v) /\ RequestFormed(v) /\ v.pc = pc /\ v.answer = asked[r].answer
               /\ v.calls = asked[r].calls /\ v.acc = asked[r].acc /\ v.age = asked[r].age
  BY <1>2, PcPut
<1>4. KindFits(r, v) /\ JobFits(r, v, agentJob[r]) /\ SessionFits(r, v, sessions[r.session], disturbed)
  BY <1>1, <1>2, <1>3, RequestFacts DEF KindFits, JobFits, SessionFits, InLoop, AgentPcs, ToldPcs
<1> QED
  BY <1>2, <1>3, <1>4, QuieterStep

\* Every step, those of the other endpoints included.
LEMMA AgentStep ==
    ASSUME AgentInv,
           [AgentNext(Ask) \/ ((QueryNext \/ ListingNext \/ SchemaNext) /\ UNCHANGED agentVars)]_<<agentVars, dataQueryVars>>
    PROVE  AgentInv'
<1>1. CASE tick \/ clock_set
  BY <1>1, TickStep, ClockStep
<1>2. CASE UNCHANGED <<sessions, asked, agentJob, changes, unheard, disturbed>>
  BY <1>2 DEF AgentInv, AskedFormed, SessionsFormed, AllFit, ChangesKnown, TurnRemembered
<1>3. CASE first_ingestion
  BY <1>2, <1>3 DEF first_ingestion, NoAgentElse
<1>4. ASSUME NEW r \in Ask, AskNext(r) PROVE AgentInv'
  BY <1>4, AgentStarts, RoundStep, LoopLeft, ReadStep, WriteStep, IngestStep, ViewStep, SearchStep, TellStep, SaveStep,
     PanicStep DEF AskNext
<1> QED
  BY <1>1, <1>2, <1>3, <1>4 DEF AgentNext, agentVars

\* So the invariant holds throughout.
LEMMA AgentInvHolds == AgentSpec => []AgentInv
<1>1. ASSUME AgentInit PROVE AgentInv
  <2>1. /\ asked = [r \in Ask |-> Unasked] /\ agentJob = [r \in Ask |-> "none"] /\ changes = {} /\ unheard = {} /\ disturbed = {}
        /\ sessions = [i \in SessionIds |-> NoSession]
    BY <1>1 DEF AgentInit
  <2>2. RequestFormed(Unasked)
    <3>1. <<>> \in Seq({})
      OBVIOUS
    <3>2. IsSeq(<<>>)
      BY <3>1 DEF IsSeq
    <3> QED
      BY <3>2 DEF RequestFormed, Unasked
  <2>3. AskedFormed
    BY <2>1, <2>2 DEF AskedFormed
  <2>4. SessionsFormed
    BY <2>1 DEF SessionsFormed, NoSession
  <2>5. AllFit
    BY <2>1 DEF AllFit, Fits, KindFits, JobFits, SessionFits, InLoop, AgentPcs, ToldPcs, Unasked
  <2> QED
    BY <2>1, <2>3, <2>4, <2>5 DEF AgentInv, ChangesKnown, TurnRemembered
<1> QED
  BY <1>1, AgentStep, PTL DEF AgentSpec

(* Every message of an answered agent request gets into its session        *)
(* (session.rs), unless the wall clock is set while the agent is at work:  *)
(* for any requests, answers of the model and lifetime of a session of at  *)
(* least the time an agent may work.                                       *)
THEOREM TurnCorrect == AgentSpec => []TurnRemembered
<1>1. AgentInv => TurnRemembered
  BY DEF AgentInv
<1> QED
  BY <1>1, AgentInvHolds, PTL

(* An answer hides no change (run_agent_query_inner): the call that made   *)
(* it is recorded and names it or is an error, whatever the model asks for *)
(* and wherever a tool of several steps fails.                             *)
THEOREM CallsCorrect == AgentSpec => []CallsTold
<1>1. ASSUME AgentInv PROVE CallsTold
  <2> SUFFICES ASSUME NEW c \in changes, asked[c.by].pc \in ToldPcs
               PROVE  Told(c, asked[c.by].calls)
    BY DEF CallsTold, Told, Answers
  <2>1. c.by \in Ask /\ c.by.kind = "agent" /\ Known(c, asked[c.by])
    BY <1>1 DEF AgentInv, ChangesKnown
  <2>2. asked[c.by].acc = {}
    BY <1>1, <2>1, RequestFacts DEF KindFits, ToldPcs
  <2> QED
    BY <2>1, <2>2 DEF Known
<1> QED
  BY <1>1, AgentInvHolds, PTL

(* The job of an agent request agrees with what its caller is told, also   *)
(* when the time is up after the job was completed, and is completed for a *)
(* caller whose request broke only when the final answer had been found    *)
(* (run_agent_query).                                                      *)
THEOREM JobCorrect == AgentSpec => []JobTellsOutcome
<1>1. ASSUME AgentInv PROVE JobTellsOutcome
  <2>1. \A r \in Ask : JobFits(r, asked[r], agentJob[r])
    BY <1>1 DEF AgentInv, AllFit, Fits
  <2> QED
    BY <2>1 DEF JobTellsOutcome, JobFits, ToldPcs
<1> QED
  BY <1>1, AgentInvHolds, PTL

-----------------------------------------------------------------------------
(* The cloud account.                                                      *)

\* The parts that run side by side in AccountSpec.
Refresh == RefreshNext /\ UNCHANGED <<orgVars, resetVars>>
Bootstrap == BootstrapNext /\ UNCHANGED <<orgVars, resetVars>>
Reset == ResetNext /\ UNCHANGED <<refreshVars, bootVars, orgVars>>
AccountNext == Refresh \/ Bootstrap \/ Reset

-----------------------------------------------------------------------------
(* The throttle.                                                           *)

(***************************************************************************)
(* The history of attempts and the throttle tell the same story: as many   *)
(* failures as attempts, but for the one under way, and the last attempt   *)
(* is the latest of them. Between the gate and the record of an attempt    *)
(* nothing comes that would close the gate again.                          *)
(***************************************************************************)
ThrottleInv ==
    /\ clock \in Nat /\ tries \in Seq(Nat)
    /\ throttle \in [consecutive_failures : Nat, last_attempt_at : Int]
    /\ refreshing \in [pc : {"idle", "gated", "register"}, now : Nat]
    /\ \A i \in 1..Len(tries) : tries[i] <= throttle.last_attempt_at /\ tries[i] <= clock
    /\ refreshing.now <= clock
    /\ refreshing.pc = "gated" =>
          /\ remaining_cooldown(throttle, refreshing.now) = 0
          /\ \A i \in 1..Len(tries) : tries[i] <= refreshing.now
    /\ Len(tries) > 0 => throttle.last_attempt_at >= 0
    /\ Len(tries) = throttle.consecutive_failures + (IF refreshing.pc = "register" THEN 1 ELSE 0)
    /\ \A i, j \in 1..Len(tries) :
          i + MAX_ATTEMPTS <= j => tries[j] - tries[i] >= EXHAUSTION_COOLDOWN

(***************************************************************************)
(* The limits of the throttle.                                             *)
(***************************************************************************)
LEMMA Limits == MAX_ATTEMPTS \in Nat /\ MAX_ATTEMPTS > 0 /\ EXHAUSTION_COOLDOWN \in Nat
BY CloudAssumption

(***************************************************************************)
(* A fresh throttle has nothing to answer for.                             *)
(***************************************************************************)
LEMMA FreshThrottle ==
    ASSUME ThrottleInv, throttle' = RefreshThrottle, tries' = <<>>, clock' = clock,
           refreshing' \in [pc : {"idle", "gated", "register"}, now : Nat], refreshing'.pc = "idle",
           refreshing'.now <= clock
    PROVE  ThrottleInv'
<1>1. <<>> \in Seq(Nat) /\ Len(<<>>) = 0
  OBVIOUS
<1>2. /\ RefreshThrottle \in [consecutive_failures : Nat, last_attempt_at : Int]
      /\ RefreshThrottle.consecutive_failures = 0
  BY DEF RefreshThrottle, NoTry
<1> QED
  BY <1>1, <1>2 DEF ThrottleInv

(***************************************************************************)
(* The throttle lets an attempt through only after the cool-down once the  *)
(* attempts are used up.                                                   *)
(***************************************************************************)
LEMMA WaitedOut ==
    ASSUME ThrottleInv, refreshing.pc = "gated", Len(tries) >= MAX_ATTEMPTS
    PROVE  refreshing.now - throttle.last_attempt_at >= EXHAUSTION_COOLDOWN
<1>1. throttle.consecutive_failures \in Nat /\ throttle.last_attempt_at \in Int /\ refreshing.now \in Nat
  BY DEF ThrottleInv
<1>2. Len(tries) = throttle.consecutive_failures /\ throttle.last_attempt_at >= 0
  BY Limits, <1>1 DEF ThrottleInv
<1>3. required_wait(throttle) = EXHAUSTION_COOLDOWN
  BY <1>1, <1>2, Limits DEF required_wait
<1>4. throttle.last_attempt_at # NoTry
  BY <1>2 DEF NoTry
<1>5. remaining_cooldown(throttle, refreshing.now) = 0
  BY DEF ThrottleInv
<1> QED
  BY <1>1, <1>3, <1>4, <1>5, Limits DEF remaining_cooldown

(***************************************************************************)
(* An attempt: the new entry is the latest, and MAX_ATTEMPTS before it is  *)
(* an entry no later than the last one, which is a cool-down away.         *)
(***************************************************************************)
LEMMA AttemptStep ==
    ASSUME ThrottleInv, RecordAttempt
    PROVE  ThrottleInv'
<1> DEFINE n == Len(tries)
<1> DEFINE at == refreshing.now
<1>0. /\ refreshing.pc = "gated" /\ refreshing' = [refreshing EXCEPT !.pc = "register"]
      /\ throttle' = record_attempt(throttle, at) /\ tries' = Append(tries, at) /\ clock' = clock
  BY DEF RecordAttempt
<1>1. /\ clock \in Nat /\ at \in Nat /\ at <= clock /\ tries \in Seq(Nat) /\ n \in Nat
      /\ throttle \in [consecutive_failures : Nat, last_attempt_at : Int]
      /\ n = throttle.consecutive_failures
      /\ \A i \in 1..n : tries[i] \in Nat
  BY <1>0 DEF ThrottleInv
<1>2. /\ tries' \in Seq(Nat) /\ Len(tries') = n + 1 /\ tries'[n + 1] = at
      /\ \A i \in 1..n : tries'[i] = tries[i]
  BY <1>0, <1>1
<1>3. /\ throttle' \in [consecutive_failures : Nat, last_attempt_at : Int]
      /\ throttle'.consecutive_failures = n /\ throttle'.last_attempt_at = at
  BY <1>0, <1>1 DEF record_attempt
<1>4. \A i \in 1..n : tries[i] <= throttle.last_attempt_at /\ tries[i] <= at
  BY <1>0 DEF ThrottleInv
<1>5. n >= MAX_ATTEMPTS => at - throttle.last_attempt_at >= EXHAUSTION_COOLDOWN
  BY <1>0, WaitedOut
<1>6. \A i, j \in 1..n : i + MAX_ATTEMPTS <= j => tries[j] - tries[i] >= EXHAUSTION_COOLDOWN
  BY DEF ThrottleInv
<1>10. /\ refreshing' \in [pc : {"idle", "gated", "register"}, now : Nat]
       /\ refreshing'.pc = "register" /\ refreshing'.now = at
  BY <1>0 DEF ThrottleInv
<1> HIDE DEF n, at
<1>7. \A i \in 1..(n + 1) : i \in 1..n \/ i = n + 1
  BY <1>1
<1>8. \A i \in 1..Len(tries') : tries'[i] <= throttle'.last_attempt_at /\ tries'[i] <= clock'
  <2> SUFFICES ASSUME NEW i \in 1..(n + 1)
               PROVE  tries'[i] <= throttle'.last_attempt_at /\ tries'[i] <= clock'
    BY <1>2
  <2>1. CASE i \in 1..n
    <3>1. tries'[i] = tries[i] /\ tries[i] \in Nat /\ tries[i] <= at
      BY <1>1, <1>2, <1>4, <2>1
    <3> QED
      BY <1>0, <1>1, <1>3, <3>1
  <2>2. CASE i = n + 1
    <3>1. tries'[i] = at
      BY <1>2, <2>2
    <3> QED
      BY <1>0, <1>1, <1>3, <3>1
  <2> QED
    BY <1>7, <2>1, <2>2
<1>9. ASSUME NEW i \in 1..Len(tries'), NEW j \in 1..Len(tries'), i + MAX_ATTEMPTS <= j
      PROVE  tries'[j] - tries'[i] >= EXHAUSTION_COOLDOWN
  <2>1. i \in 1..n
    BY <1>1, <1>2, <1>9, Limits
  <2>2. CASE j \in 1..n
    BY <1>2, <1>6, <1>9, <2>1, <2>2
  <2>3. CASE j = n + 1
    <3>1. n >= MAX_ATTEMPTS
      BY <1>1, <1>9, <2>1, <2>3, Limits
    <3>2. throttle.last_attempt_at \in Int /\ tries[i] \in Nat
      BY <1>1, <2>1
    <3>3. tries'[j] = at /\ tries'[i] = tries[i] /\ tries[i] <= throttle.last_attempt_at
      BY <1>2, <1>4, <2>1, <2>3
    <3> QED
      BY <1>1, <1>5, <3>1, <3>2, <3>3, Limits
  <2> QED
    BY <1>2, <1>7, <2>2, <2>3
<1>11. Len(tries') > 0 => throttle'.last_attempt_at >= 0
  BY <1>1, <1>3
<1> QED
  BY <1>0, <1>1, <1>2, <1>3, <1>8, <1>9, <1>10, <1>11 DEF ThrottleInv

(***************************************************************************)
(* Every step keeps the history and the throttle together.                 *)
(***************************************************************************)
LEMMA ThrottleStep ==
    ASSUME ThrottleInv, [AccountNext]_cloudVars
    PROVE  ThrottleInv'
<1>0. /\ refreshing \in [pc : {"idle", "gated", "register"}, now : Nat] /\ clock \in Nat
      /\ refreshing.now <= clock
  BY DEF ThrottleInv
<1>k. ASSUME UNCHANGED <<throttle, refreshing, clock, tries>> PROVE ThrottleInv'
  BY <1>k DEF ThrottleInv
<1>1. CASE refresh_auth_inner
  <2>1. CASE HandOver(keyStored) /\ UNCHANGED refreshing
    BY <1>1, <2>1, <1>0, FreshThrottle DEF refresh_auth_inner, HandOver, record_success
  <2>2. CASE /\ remaining_cooldown(throttle, clock) = 0
             /\ refreshing' = [pc |-> "gated", now |-> clock]
             /\ UNCHANGED <<throttle, tries>>
    <3>1. refreshing.pc = "idle" /\ UNCHANGED clock
      BY <1>1 DEF refresh_auth_inner
    <3>2. /\ refreshing' \in [pc : {"idle", "gated", "register"}, now : Nat]
          /\ refreshing'.pc = "gated" /\ refreshing'.now = clock
      BY <1>0, <2>2
    <3> QED
      BY <1>0, <2>2, <3>1, <3>2 DEF ThrottleInv, remaining_cooldown, required_wait
  <2> QED
    BY <1>1, <2>1, <2>2 DEF refresh_auth_inner
<1>9. CASE RecordAttempt
  BY <1>9, AttemptStep
<1>2. CASE reregister_and_store
  <2>1. /\ refreshing.pc = "register" /\ UNCHANGED clock /\ refreshing'.now <= clock
        /\ refreshing' \in [pc : {"idle", "gated", "register"}, now : Nat] /\ refreshing'.pc = "idle"
    BY <1>0, <1>2 DEF reregister_and_store
  <2>2. CASE HandOver(keyIssued')
    BY <2>1, <2>2, FreshThrottle DEF HandOver, record_success
  <2>3. CASE throttle' = record_failure(throttle) /\ UNCHANGED tries
    <3>1. throttle \in [consecutive_failures : Nat, last_attempt_at : Int]
      BY DEF ThrottleInv
    <3>2. /\ throttle' \in [consecutive_failures : Nat, last_attempt_at : Int]
          /\ throttle'.consecutive_failures = throttle.consecutive_failures + 1
          /\ throttle'.last_attempt_at = throttle.last_attempt_at
      BY <2>3, <3>1 DEF record_failure
    <3> QED
      BY <2>1, <2>3, <3>2 DEF ThrottleInv
  <2> QED
    BY <1>2, <2>2, <2>3 DEF reregister_and_store
<1>3. CASE token_refresh
  BY <1>3, <1>k DEF token_refresh
<1>4. CASE Second
  <2>1. clock' = clock + 1 /\ UNCHANGED <<throttle, refreshing, tries>>
    BY <1>4 DEF Second
  <2>2. clock' \in Nat
    BY <1>0, <2>1
  <2>3. \A i \in 1..Len(tries) : tries[i] \in Nat /\ tries[i] <= clock
    BY DEF ThrottleInv
  <2>4. /\ \A i \in 1..Len(tries) : tries[i] <= clock'
        /\ refreshing.now <= clock'
    BY <1>0, <2>1, <2>3
  <2> QED
    BY <2>1, <2>2, <2>4 DEF ThrottleInv
<1>5. CASE build_auth_refresh_callback
  BY <1>0, <1>5, FreshThrottle DEF build_auth_refresh_callback
<1>6. CASE Bootstrap
  BY <1>6, <1>k DEF Bootstrap, BootstrapNext, refreshVars
<1>7. CASE Reset
  BY <1>7, <1>k DEF Reset, refreshVars
<1>8. CASE UNCHANGED cloudVars
  BY <1>8, <1>k DEF cloudVars, refreshVars
<1> QED
  BY <1>1, <1>2, <1>3, <1>4, <1>5, <1>6, <1>7, <1>8, <1>9 DEF AccountNext, Refresh, RefreshNext

(***************************************************************************)
(* AttemptsThrottled: between two registrations that are MAX_ATTEMPTS      *)
(* apart in a row of failures lies a full cool-down, whatever the failures *)
(* and the keys that others stored meanwhile (RefreshThrottle,             *)
(* refresh_auth_inner).                                                    *)
(***************************************************************************)
THEOREM ThrottleCorrect == AccountSpec => []AttemptsThrottled
<1>1. CloudInit => ThrottleInv
  <2> SUFFICES ASSUME CloudInit PROVE ThrottleInv
    OBVIOUS
  <2>1. tries \in Seq(Nat) /\ Len(tries) = 0
    BY DEF CloudInit
  <2>2. /\ throttle \in [consecutive_failures : Nat, last_attempt_at : Int]
        /\ throttle.consecutive_failures = 0
    BY DEF CloudInit, RefreshThrottle, NoTry
  <2>3. /\ refreshing \in [pc : {"idle", "gated", "register"}, now : Nat]
        /\ refreshing.pc = "idle" /\ refreshing.now <= clock
    BY DEF CloudInit
  <2> QED
    BY <2>1, <2>2, <2>3 DEF CloudInit, ThrottleInv
<1>2. ThrottleInv /\ [AccountNext]_cloudVars => ThrottleInv'
  BY ThrottleStep
<1>3. ThrottleInv => AttemptsThrottled
  <2> SUFFICES ASSUME ThrottleInv, NEW i \in DOMAIN tries, i + MAX_ATTEMPTS \in DOMAIN tries
               PROVE  tries[i + MAX_ATTEMPTS] - tries[i] >= EXHAUSTION_COOLDOWN
    BY DEF AttemptsThrottled
  <2>1. DOMAIN tries = 1..Len(tries) /\ Len(tries) \in Nat
    BY DEF ThrottleInv
  <2>2. i + MAX_ATTEMPTS <= i + MAX_ATTEMPTS
    BY <2>1, Limits
  <2> QED
    BY <2>1, <2>2 DEF ThrottleInv
<1> QED
  BY <1>1, <1>2, <1>3, PTL DEF AccountSpec, AccountNext, Refresh, Bootstrap, Reset

-----------------------------------------------------------------------------
(* The download after a restore.                                           *)

(***************************************************************************)
(* The marker goes, and the status says complete, only with everything     *)
(* downloaded.                                                             *)
(***************************************************************************)
BootInv ==
    /\ booting \in {"clear", "status", "done"} => Targets \subseteq downloaded
    /\ bootStatus = "complete" => Targets \subseteq downloaded
    /\ begun /\ ~(Targets \subseteq downloaded) => marker # "none"

(***************************************************************************)
(* Every step keeps BootInv: a download only grows.                        *)
(***************************************************************************)
LEMMA BootStep ==
    ASSUME BootInv, [AccountNext]_cloudVars
    PROVE  BootInv'
<1> USE DEF BootInv
<1>k. ASSUME UNCHANGED bootVars PROVE BootInv'
  BY <1>k DEF bootVars
<1>1. CASE finalize_restore
  BY <1>1 DEF finalize_restore
<1>2. CASE write_bootstrap_marker
  <2>1. CASE marker' = "sealed" /\ booting' = "marked"
    BY <1>2, <2>1 DEF write_bootstrap_marker
  <2>2. CASE booting' = "failed" /\ UNCHANGED <<marker, begun>>
    BY <1>2, <2>2 DEF write_bootstrap_marker
  <2> QED
    BY <1>2, <2>1, <2>2 DEF write_bootstrap_marker
<1>3. CASE bootstrap_target
  <2>1. /\ bootStatus' \in {"in_progress", bootStatus} /\ UNCHANGED <<marker, begun>>
        /\ downloaded \subseteq downloaded'
        /\ booting' \in {"clear", "orgs", "error"}
        /\ booting' = "clear" => Targets \subseteq downloaded'
    BY <1>3 DEF bootstrap_target, write_bootstrap_status, Targets
  <2> QED
    BY <2>1
<1>4. CASE bootstrap_all
  <2>1. /\ UNCHANGED <<marker, bootStatus, begun>> /\ downloaded \subseteq downloaded'
        /\ booting' \in {"clear", "orgs", "error"}
        /\ booting' = "clear" => Targets \subseteq downloaded'
    BY <1>4 DEF bootstrap_all
  <2> QED
    BY <2>1
<1>5. CASE bootstrap_from_cloud
  BY <1>5 DEF bootstrap_from_cloud, write_bootstrap_status
<1>6. CASE resume_bootstrap
  BY <1>6 DEF resume_bootstrap, check_bootstrap_pending
<1>7. CASE BootCrash
  BY <1>7 DEF BootCrash
<1>8. CASE Refresh
  BY <1>8, <1>k DEF Refresh, RefreshNext, build_auth_refresh_callback, bootVars
<1>9. CASE Reset
  BY <1>9, <1>k DEF Reset
<1>10. CASE UNCHANGED cloudVars
  BY <1>10, <1>k DEF cloudVars
<1> QED
  BY <1>1, <1>2, <1>3, <1>4, <1>5, <1>6, <1>7, <1>8, <1>9, <1>10
  DEF AccountNext, Bootstrap, BootstrapNext

(***************************************************************************)
(* RestoreResumable: from the first marker until everything is here, the   *)
(* marker is there for the next start and restore_status does not say      *)
(* complete, through failing downloads, failing writes of the status and   *)
(* any number of crashes (bootstrap_from_cloud, resume_bootstrap).         *)
(***************************************************************************)
THEOREM RestoreCorrect == AccountSpec => []RestoreResumable
<1>1. CloudInit => BootInv
  <2> SUFFICES ASSUME CloudInit PROVE BootInv
    OBVIOUS
  <2>1. CASE marker = "plain"
    BY <2>1 DEF CloudInit, BootInv
  <2>2. CASE marker = "none"
    BY <2>2 DEF CloudInit, BootInv
  <2> QED
    BY <2>1, <2>2 DEF CloudInit
<1>2. BootInv /\ [AccountNext]_cloudVars => BootInv'
  BY BootStep
<1>3. BootInv => RestoreResumable
  BY DEF BootInv, RestoreResumable, check_bootstrap_pending, restore_status
<1> QED
  BY <1>1, <1>2, <1>3, PTL DEF AccountSpec, AccountNext, Refresh, Bootstrap, Reset

-----------------------------------------------------------------------------
(* The reset of the database.                                              *)

\* The shape of the two jobs.
JobsTyped ==
    /\ resetting.pc \in {"idle", "stash", "stop", "purge", "wipe", "restore", "swap"}
    /\ resetting = [pc |-> resetting.pc, stash |-> resetting.stash, rows |-> resetting.rows]
    /\ migrating.pc \in {"idle", "lock", "snapshot", "upload"}
    /\ migrating = [pc |-> migrating.pc, rows |-> migrating.rows]

(***************************************************************************)
(* Rows that were wiped are neither here nor in a cloud that an engine     *)
(* reads, nor in a migration's snapshot.  From the purge on the engine is  *)
(* stopped and the cloud empty, and from the wipe on so is the node, until *)
(* the rows that went are counted as wiped.                                *)
(***************************************************************************)
ResetInv ==
    /\ JobsTyped
    /\ resetting.pc = "idle" \/ migrating.pc = "idle"
    /\ localRows \cap wiped = {}
    /\ engine # "none" => cloudRows \cap wiped = {}
    /\ migrating.rows \cap wiped = {}
    /\ migrating.pc = "idle" => migrating.rows = {}
    /\ resetting.pc \in {"restore", "swap"} => localRows = {}
    /\ resetting.pc = "purge" => engine = "stopped"
    /\ resetting.pc = "stop" => engine # "none"
    /\ resetting.pc \in {"wipe", "restore", "swap"} =>
          engine = "none" \/ (engine = "stopped" /\ cloudRows = {})

(***************************************************************************)
(* Every step keeps ResetInv when no migration runs beside a reset.        *)
(***************************************************************************)
LEMMA ResetKept ==
    ASSUME ~ MigrateBesideReset, ResetInv, [AccountNext]_cloudVars
    PROVE  ResetInv'
<1>k. ASSUME UNCHANGED resetVars PROVE ResetInv'
  BY <1>k DEF resetVars, ResetInv, JobsTyped
<1>i. NoReset.pc = "idle" /\ NoReset.rows = {} /\
      NoReset = [pc |-> NoReset.pc, stash |-> NoReset.stash, rows |-> NoReset.rows]
  BY DEF NoReset
<1>1. CASE SyncCycle
  BY <1>1 DEF SyncCycle, ResetInv, JobsTyped
<1>2. ASSUME NEW r \in Row, WriteRow(r) PROVE ResetInv'
  BY <1>2 DEF WriteRow, ResetInv, JobsTyped
<1>3. CASE reset_database
  <2>1. CASE UNCHANGED resetting
    BY <1>3, <2>1 DEF reset_database, ResetInv, JobsTyped
  <2>2. CASE ResetStep("stash")
    <3>1. migrating.pc = "idle"
      BY <1>3 DEF reset_database, JobMayStart, JobBusy
    <3>2. /\ resetting'.pc = "stash"
          /\ resetting' = [pc |-> "stash", stash |-> resetting.stash, rows |-> resetting.rows]
      BY <2>2 DEF ResetStep, ResetInv, JobsTyped
    <3> QED
      BY <1>3, <3>1, <3>2 DEF reset_database, ResetInv, JobsTyped
  <2> QED
    BY <1>3, <2>1, <2>2 DEF reset_database
<1>4. CASE read_tree_raw
  <2>1. /\ resetting'.pc = IF engine = "none" THEN "wipe" ELSE "stop"
        /\ resetting' = [pc |-> resetting'.pc, stash |-> tree, rows |-> resetting.rows]
    BY <1>4 DEF read_tree_raw, ResetInv, JobsTyped
  <2> QED
    BY <1>4, <2>1 DEF read_tree_raw, ResetInv, JobsTyped
<1>5. CASE stop_sync
  <2>1. /\ resetting'.pc = "purge"
        /\ resetting' = [pc |-> "purge", stash |-> resetting.stash, rows |-> resetting.rows]
    BY <1>5 DEF stop_sync, ResetStep, ResetInv, JobsTyped
  <2>2. cloudRows' \cap wiped = {}
    BY <1>5 DEF stop_sync, ResetInv
  <2> QED
    BY <1>5, <2>1, <2>2 DEF stop_sync, ResetInv, JobsTyped
<1>6. CASE purge_personal_log
  <2>1. CASE cloudRows' = {} /\ ResetStep("wipe")
    <3>1. /\ resetting'.pc = "wipe"
          /\ resetting' = [pc |-> "wipe", stash |-> resetting.stash, rows |-> resetting.rows]
      BY <2>1 DEF ResetStep, ResetInv, JobsTyped
    <3> QED
      BY <1>6, <2>1, <3>1 DEF purge_personal_log, ResetInv, JobsTyped
  <2>2. CASE ResetFails /\ UNCHANGED cloudRows
    BY <1>6, <2>2, <1>i DEF purge_personal_log, ResetFails, ResetInv, JobsTyped
  <2> QED
    BY <1>6, <2>1, <2>2 DEF purge_personal_log
<1>7. CASE perform_database_reset
  <2>1. CASE /\ resetting' = [resetting EXCEPT !.pc = "restore", !.rows = localRows]
             /\ localRows' = {}
    <3>1. /\ resetting'.pc = "restore"
          /\ resetting' = [pc |-> "restore", stash |-> resetting.stash, rows |-> resetting'.rows]
      BY <2>1 DEF ResetInv, JobsTyped
    <3> QED
      BY <1>7, <2>1, <3>1 DEF perform_database_reset, ResetInv, JobsTyped
  <2>2. CASE ResetFails /\ localRows' \in SUBSET localRows
    BY <1>7, <2>2, <1>i DEF perform_database_reset, ResetFails, ResetInv, JobsTyped
  <2> QED
    BY <1>7, <2>1, <2>2 DEF perform_database_reset
<1>8. CASE write_tree_raw
  <2>1. CASE UNCHANGED resetting
    BY <1>8, <2>1 DEF write_tree_raw, ResetInv, JobsTyped
  <2>2. CASE ResetStep("swap")
    <3>1. /\ resetting'.pc = "swap"
          /\ resetting' = [pc |-> "swap", stash |-> resetting.stash, rows |-> resetting.rows]
      BY <2>2 DEF ResetStep, ResetInv, JobsTyped
    <3> QED
      BY <1>8, <3>1 DEF write_tree_raw, ResetInv, JobsTyped
  <2>3. CASE ResetFails
    BY <1>8, <2>3, <1>i DEF write_tree_raw, ResetFails, ResetInv, JobsTyped
  <2> QED
    BY <1>8, <2>1, <2>2, <2>3 DEF write_tree_raw
<1>9. CASE reset_complete
  <2>1. /\ localRows' = {} /\ migrating' = migrating /\ migrating.pc = "idle"
        /\ engine' # "none" => cloudRows' = {}
    BY <1>9 DEF reset_complete, ResetInv
  <2> QED
    BY <1>9, <2>1, <1>i DEF reset_complete, ResetInv, JobsTyped
<1>10. CASE ResetCrash
  <2>1. engine' # "none" => engine # "none"
    BY <1>10 DEF ResetCrash
  <2>2. migrating' = [pc |-> "idle", rows |-> {}]
    BY <1>10 DEF ResetCrash
  <2> QED
    BY <1>10, <2>1, <2>2, <1>i DEF ResetCrash, ResetInv, JobsTyped
<1>11. CASE migrate_start
  <2>1. /\ migrating'.pc \in {"idle", "lock"}
        /\ migrating' = [pc |-> migrating'.pc, rows |-> migrating.rows]
    BY <1>11 DEF migrate_start, ResetInv, JobsTyped
  <2>2. resetting.pc = "idle"
    BY <1>11 DEF migrate_start, JobMayStart, JobBusy
  <2> QED
    BY <1>11, <2>1, <2>2 DEF migrate_start, ResetInv, JobsTyped
<1>12. CASE migrate_to_cloud
  <2>0. migrating.pc # "idle" /\ resetting.pc = "idle"
    BY <1>12 DEF migrate_to_cloud, ResetInv
  <2>1. /\ UNCHANGED <<localRows, engine, resetting, wiped>>
        /\ migrating'.pc \in {"idle", "lock", "snapshot", "upload"}
        /\ migrating' = [pc |-> migrating'.pc, rows |-> migrating'.rows]
        /\ migrating'.rows \in {migrating.rows, localRows, {}}
        /\ migrating'.pc = "idle" => migrating'.rows = {}
        /\ cloudRows' \in {cloudRows, migrating.rows}
    BY <1>12 DEF migrate_to_cloud, ResetInv, JobsTyped
  <2> QED
    BY <2>0, <2>1 DEF ResetInv, JobsTyped
<1>13. CASE Refresh
  BY <1>13, <1>k DEF Refresh
<1>14. CASE Bootstrap
  BY <1>14, <1>k DEF Bootstrap
<1>15. CASE UNCHANGED cloudVars
  BY <1>15, <1>k DEF cloudVars
<1> QED
  BY <1>1, <1>2, <1>3, <1>4, <1>5, <1>6, <1>7, <1>8, <1>9, <1>10, <1>11, <1>12, <1>13, <1>14, <1>15
  DEF AccountNext, Reset, ResetNext

(***************************************************************************)
(* ResetNotUndone: while no migration runs beside a reset, the rows a      *)
(* finished reset removed never come back to the node, whatever purges     *)
(* fail, wherever a crash falls, and however often the engine synchronises *)
(* afterwards (perform_database_reset, purge_personal_log, stop_sync).     *)
(***************************************************************************)
THEOREM ResetCorrect == ~ MigrateBesideReset /\ AccountSpec => []ResetNotUndone
<1> SUFFICES ASSUME ~ MigrateBesideReset PROVE AccountSpec => []ResetNotUndone
  OBVIOUS
<1>1. CloudInit => ResetInv
  BY DEF CloudInit, ResetInv, JobsTyped, NoReset
<1>2. ResetInv /\ [AccountNext]_cloudVars => ResetInv'
  BY ResetKept
<1>3. ResetInv => ResetNotUndone
  BY DEF ResetInv, ResetNotUndone
<1> QED
  BY <1>1, <1>2, <1>3, PTL DEF AccountSpec, AccountNext, Refresh, Bootstrap, Reset

-----------------------------------------------------------------------------
(* Organisations.                                                          *)

Organisations == OrgNext /\ UNCHANGED <<refreshVars, bootVars, resetVars>>

AtWork(r) == orgAt[r].pc \notin {"idle", "done", "failed"}
Alone(r) == \A q \in OrgRequest : AtWork(q) => q = r
Joins(r) == r.kind \in {"create", "join"}
RequestRecord ==
    [pc : {"idle", "cloud", "read", "purge", "install", "skip", "done", "failed"}, read : SUBSET Org]

\* This node belongs to what it joined, and the engine knows of it.
JoinedInv ==
    /\ engine = "on" => joinedOk \subseteq syncTargets
    /\ \A o \in joinedOk : o \in Org /\ Me \in orgs[o]

(***************************************************************************)
(* With one request at a time, what a request read is still the list when  *)
(* it gives it to the engine, or keeps it because it is empty, and a       *)
(* request that creates or joins keeps this node a member until then.      *)
(***************************************************************************)
OrgInv ==
    /\ orgAt \in [OrgRequest -> RequestRecord] /\ DOMAIN orgs = Org
    /\ JoinedInv
    /\ \A r \in OrgRequest : AtWork(r) => Alone(r)
    /\ \A r \in OrgRequest : orgAt[r].pc = "install" => orgAt[r].read = Memberships
    /\ \A r \in OrgRequest : orgAt[r].pc = "skip" => Memberships = {}
    /\ \A r \in OrgRequest :
          Joins(r) /\ orgAt[r].pc \in {"cloud", "read", "purge", "install", "skip"} => Me \in orgs[r.org]

(***************************************************************************)
(* A request that begins, or goes on, is alone.                            *)
(***************************************************************************)
LEMMA OneRequest ==
    ASSUME ~ OrgOverlap, OrgInv, NEW r \in OrgRequest
    PROVE  /\ \A kind : Begin(r, kind) => Alone(r) /\ orgAt[r].pc = "idle" /\ r.kind = kind
           /\ orgAt[r].pc \in {"cloud", "read", "purge", "install", "skip"} => Alone(r)
<1>1. \A kind : Begin(r, kind) => Alone(r) /\ orgAt[r].pc = "idle" /\ r.kind = kind
  BY DEF Begin, Org_Busy, Alone, AtWork
<1>2. orgAt[r].pc \in {"cloud", "read", "purge", "install", "skip"} => Alone(r)
  BY DEF OrgInv, AtWork
<1> QED
  BY <1>1, <1>2

(***************************************************************************)
(* A step of a request that is alone, other than reading the list: it is   *)
(* enough to look at the request itself.                                   *)
(***************************************************************************)
LEMMA RequestMoves ==
    ASSUME OrgInv, NEW r \in OrgRequest, Alone(r),
           NEW pc \in {"cloud", "read", "purge", "done", "failed"}, OrgStep(r, pc),
           DOMAIN orgs' = Org, JoinedInv',
           Joins(r) /\ pc \notin {"done", "failed"} => Me \in orgs'[r.org]
    PROVE  OrgInv'
<1>1. orgAt[r] \in RequestRecord
  BY DEF OrgInv
<1>2. /\ [orgAt[r] EXCEPT !.pc = pc] \in RequestRecord
      /\ [orgAt[r] EXCEPT !.pc = pc].pc = pc
  BY <1>1 DEF RequestRecord
<1>3. orgAt' = [orgAt EXCEPT ![r] = [orgAt[r] EXCEPT !.pc = pc]]
  BY DEF OrgStep
<1>4. /\ orgAt' \in [OrgRequest -> RequestRecord] /\ orgAt'[r].pc = pc
      /\ \A q \in OrgRequest : q # r => orgAt'[q] = orgAt[q]
  BY <1>2, <1>3 DEF OrgInv
<1>5. \A q \in OrgRequest : q # r => orgAt'[q].pc \in {"idle", "done", "failed"}
  BY <1>4 DEF Alone, AtWork
<1>6. \A q \in OrgRequest : AtWork(q)' => Alone(q)'
  BY <1>5 DEF Alone, AtWork
<1>7. \A q \in OrgRequest : orgAt'[q].pc \notin {"install", "skip"}
  BY <1>4, <1>5
<1>8. \A q \in OrgRequest :
         Joins(q) /\ orgAt'[q].pc \in {"cloud", "read", "purge", "install", "skip"} => Me \in orgs'[q.org]
  BY <1>4, <1>5
<1> QED
  BY <1>4, <1>6, <1>7, <1>8 DEF OrgInv

(***************************************************************************)
(* Every step keeps OrgInv when requests do not overlap.                   *)
(***************************************************************************)
LEMMA OrgKept ==
    ASSUME ~ OrgOverlap, OrgInv, [Organisations]_cloudVars
    PROVE  OrgInv'
<1>e. UNCHANGED engine
  BY DEF Organisations, cloudVars, resetVars
<1>d. DOMAIN orgs = Org /\ JoinedInv
  BY DEF OrgInv
<1>a. \A r \in OrgRequest : r.kind \in {"create", "join", "add", "remove", "delete"} => r.org \in Org
  BY CloudAssumption
<1>j. ASSUME UNCHANGED <<orgs, syncTargets, joinedOk>> PROVE DOMAIN orgs' = Org /\ JoinedInv'
  BY <1>d, <1>e, <1>j DEF JoinedInv
<1>g. ASSUME UNCHANGED <<syncTargets, joinedOk>>, DOMAIN orgs' = Org,
             \A o \in Org : Me \in orgs[o] => Me \in orgs'[o]
      PROVE  JoinedInv'
  BY <1>d, <1>e, <1>g DEF JoinedInv
<1>k. ASSUME UNCHANGED <<orgs, syncTargets, joinedOk, orgAt>> PROVE OrgInv'
  BY <1>e, <1>k DEF OrgInv, JoinedInv, AtWork, Alone, Memberships
<1>1. CASE OrgRestart
  <2>1. /\ orgAt' = [r \in OrgRequest |->
                        IF orgAt[r].pc \in {"idle", "failed"} THEN orgAt[r] ELSE [pc |-> "done", read |-> {}]]
        /\ syncTargets' = (IF engine = "on" THEN Memberships ELSE {})
        /\ UNCHANGED <<orgs, joinedOk>>
    BY <1>1 DEF OrgRestart
  <2>2. [pc |-> "done", read |-> {}] \in RequestRecord
    BY DEF RequestRecord
  <2>3. \A r \in OrgRequest : orgAt'[r] \in RequestRecord /\ orgAt'[r].pc \in {"idle", "done", "failed"}
    BY <2>1, <2>2 DEF OrgInv
  <2>4. JoinedInv'
    BY <1>d, <1>e, <2>1 DEF JoinedInv, Memberships
  <2> QED
    BY <1>d, <2>1, <2>3, <2>4 DEF OrgInv, AtWork
<1>2. ASSUME NEW r \in OrgRequest, create_org(r) PROVE OrgInv'
  <2>1. CASE /\ Begin(r, "create") /\ OrgStep(r, "cloud") /\ orgs' = [orgs EXCEPT ![r.org] = {Me}]
             /\ UNCHANGED <<syncTargets, joinedOk>>
    <3>1. r.org \in Org /\ Alone(r)
      BY <1>a, <2>1, OneRequest
    <3>2. /\ DOMAIN orgs' = Org /\ Me \in orgs'[r.org]
          /\ \A o \in Org : Me \in orgs[o] => Me \in orgs'[o]
      BY <1>d, <2>1, <3>1
    <3> QED
      BY <1>g, <2>1, <3>1, <3>2, RequestMoves
  <2>2. ASSUME NEW pc \in {"read", "done"}, Cloud(r, "cloud", pc), r.kind = "create",
               UNCHANGED <<orgs, syncTargets, joinedOk>>
        PROVE  OrgInv'
    <3>1. Alone(r) /\ OrgStep(r, pc)
      BY <2>2, OneRequest DEF Cloud
    <3>2. Joins(r) => Me \in orgs'[r.org]
      BY <2>2 DEF Cloud, OrgInv
    <3> QED
      BY <1>j, <2>2, <3>1, <3>2, RequestMoves
  <2> QED
    BY <1>2, <2>1, <2>2 DEF create_org
<1>3. ASSUME NEW r \in OrgRequest, join_org(r) PROVE OrgInv'
  <2>1. CASE /\ Begin(r, "join") /\ OrgStep(r, "cloud")
             /\ orgs' = [orgs EXCEPT ![r.org] = {Me, Other}] /\ UNCHANGED <<syncTargets, joinedOk>>
    <3>1. r.org \in Org /\ Alone(r)
      BY <1>a, <2>1, OneRequest
    <3>2. /\ DOMAIN orgs' = Org /\ Me \in orgs'[r.org]
          /\ \A o \in Org : Me \in orgs[o] => Me \in orgs'[o]
      BY <1>d, <2>1, <3>1
    <3> QED
      BY <1>g, <2>1, <3>1, <3>2, RequestMoves
  <2>2. CASE Cloud(r, "cloud", "read") /\ UNCHANGED <<orgs, syncTargets, joinedOk>>
    <3>1. Alone(r) /\ OrgStep(r, "read")
      BY <2>2, OneRequest DEF Cloud
    <3>2. Joins(r) => Me \in orgs'[r.org]
      BY <2>2 DEF Cloud, OrgInv
    <3> QED
      BY <1>j, <2>2, <3>1, <3>2, RequestMoves
  <2> QED
    BY <1>3, <2>1, <2>2 DEF join_org
<1>4. ASSUME NEW r \in OrgRequest, add_member(r) PROVE OrgInv'
  <2>1. CASE /\ Begin(r, "add") /\ OrgStep(r, "cloud")
             /\ orgs' = [orgs EXCEPT ![r.org] = @ \cup {r.who}]
             /\ UNCHANGED <<syncTargets, joinedOk>>
    <3>1. Alone(r) /\ ~ Joins(r)
      BY <2>1, OneRequest DEF Joins
    <3>2. DOMAIN orgs' = Org /\ \A o \in Org : Me \in orgs[o] => Me \in orgs'[o]
      BY <1>d, <2>1
    <3> QED
      BY <1>g, <2>1, <3>1, <3>2, RequestMoves
  <2>2. CASE Cloud(r, "cloud", "done") /\ UNCHANGED <<orgs, syncTargets, joinedOk>>
    <3>1. Alone(r) /\ OrgStep(r, "done")
      BY <2>2, OneRequest DEF Cloud
    <3> QED
      BY <1>j, <2>2, <3>1, RequestMoves
  <2> QED
    BY <1>4, <2>1, <2>2 DEF add_member
<1>5. ASSUME NEW r \in OrgRequest, remove_member(r) PROVE OrgInv'
  <2>1. CASE /\ Begin(r, "remove") /\ OrgStep(r, IF r.who = Me THEN "purge" ELSE "cloud")
             /\ orgs' = [orgs EXCEPT ![r.org] = @ \ {r.who}]
             /\ joinedOk' = (IF r.who = Me THEN joinedOk \ {r.org} ELSE joinedOk)
             /\ UNCHANGED syncTargets
    <3>1. Alone(r) /\ ~ Joins(r) /\ r.org \in Org
      BY <1>a, <2>1, OneRequest DEF Joins
    <3>2. DOMAIN orgs' = Org
      BY <1>d, <2>1
    <3>3. \A o \in joinedOk' : o \in joinedOk /\ Me \in orgs'[o]
      BY <1>d, <2>1, <3>1 DEF JoinedInv
    <3>4. JoinedInv'
      BY <1>d, <1>e, <2>1, <3>3 DEF JoinedInv
    <3>5. CASE r.who = Me
      <4>1. OrgStep(r, "purge")
        BY <2>1, <3>5
      <4> QED
        BY <3>1, <3>2, <3>4, <4>1, RequestMoves
    <3>6. CASE r.who # Me
      <4>1. OrgStep(r, "cloud")
        BY <2>1, <3>6
      <4> QED
        BY <3>1, <3>2, <3>4, <4>1, RequestMoves
    <3> QED
      BY <3>5, <3>6
  <2>2. CASE Cloud(r, "cloud", "done") /\ UNCHANGED <<orgs, syncTargets, joinedOk>>
    <3>1. Alone(r) /\ OrgStep(r, "done")
      BY <2>2, OneRequest DEF Cloud
    <3> QED
      BY <1>j, <2>2, <3>1, RequestMoves
  <2> QED
    BY <1>5, <2>1, <2>2 DEF remove_member
<1>6. ASSUME NEW r \in OrgRequest, delete_org(r) PROVE OrgInv'
  <2>1. /\ Begin(r, "delete") /\ OrgStep(r, "purge") /\ UNCHANGED syncTargets
        /\ orgs' = [orgs EXCEPT ![r.org] = {}] /\ joinedOk' = joinedOk \ {r.org}
    BY <1>6 DEF delete_org
  <2>2. Alone(r) /\ ~ Joins(r)
    BY <2>1, OneRequest DEF Joins
  <2>3. DOMAIN orgs' = Org /\ \A o \in joinedOk' : o \in joinedOk /\ orgs'[o] = orgs[o]
    BY <1>d, <2>1 DEF JoinedInv
  <2>4. JoinedInv'
    BY <1>d, <1>e, <2>1, <2>3 DEF JoinedInv
  <2> QED
    BY <2>1, <2>2, <2>3, <2>4, RequestMoves
<1>7. ASSUME NEW r \in OrgRequest, purge_org_locally(r) PROVE OrgInv'
  <2>1. PICK pc \in {"read", "failed"} :
           orgAt[r].pc = "purge" /\ OrgStep(r, pc) /\ UNCHANGED <<orgs, syncTargets, joinedOk>>
    BY <1>7 DEF purge_org_locally
  <2>2. Alone(r)
    BY <2>1, OneRequest
  <2>3. Joins(r) => Me \in orgs'[r.org]
    BY <2>1 DEF OrgInv
  <2> QED
    BY <1>j, <2>1, <2>2, <2>3, RequestMoves
<1>8. ASSUME NEW r \in OrgRequest,
             decline_invite(r) \/ list_orgs(r) \/ get_org(r) \/ get_pending_invites(r)
      PROVE  OrgInv'
  <2>1. /\ Begin(r, r.kind) /\ OrgStep(r, "done") /\ UNCHANGED <<orgs, syncTargets, joinedOk>>
    BY <1>8 DEF decline_invite, list_orgs, get_org, get_pending_invites, Begin
  <2>2. Alone(r)
    BY <2>1, OneRequest
  <2> QED
    BY <1>j, <2>1, <2>2, RequestMoves
<1>9. ASSUME NEW r \in OrgRequest, build_org_sync_config_from_sled(r) PROVE OrgInv'
  <2>1. PICK pc \in {"install", "skip"} :
           /\ orgAt[r].pc = "read" /\ UNCHANGED <<orgs, syncTargets, joinedOk>>
           /\ orgAt' = [orgAt EXCEPT ![r] = [pc |-> pc, read |-> Memberships]]
           /\ pc = "skip" => Memberships = {}
    BY <1>9 DEF build_org_sync_config_from_sled
  <2>2. Alone(r)
    BY <2>1, OneRequest
  <2>3. [pc |-> pc, read |-> Memberships] \in RequestRecord
    BY DEF RequestRecord, Memberships
  <2>4. /\ orgAt' \in [OrgRequest -> RequestRecord]
        /\ orgAt'[r].pc = pc /\ orgAt'[r].read = Memberships
        /\ \A q \in OrgRequest : q # r => orgAt'[q] = orgAt[q]
    BY <2>1, <2>3 DEF OrgInv
  <2>5. \A q \in OrgRequest : q # r => orgAt'[q].pc \in {"idle", "done", "failed"}
    BY <2>2, <2>4 DEF Alone, AtWork
  <2>6. \A q \in OrgRequest : AtWork(q)' => Alone(q)'
    BY <2>5 DEF Alone, AtWork
  <2>7. \A q \in OrgRequest :
           /\ orgAt'[q].pc = "install" => orgAt'[q].read = Memberships'
           /\ orgAt'[q].pc = "skip" => Memberships' = {}
    BY <2>1, <2>4, <2>5 DEF Memberships
  <2>8. \A q \in OrgRequest :
           Joins(q) /\ orgAt'[q].pc \in {"cloud", "read", "purge", "install", "skip"} => Me \in orgs'[q.org]
    BY <2>1, <2>4, <2>5 DEF OrgInv
  <2> QED
    BY <1>j, <2>1, <2>4, <2>6, <2>7, <2>8 DEF OrgInv
<1>10. ASSUME NEW r \in OrgRequest, configure_org_sync_if_needed(r) PROVE OrgInv'
  <2>1. /\ orgAt[r].pc \in {"install", "skip"} /\ OrgStep(r, "done") /\ UNCHANGED orgs
        /\ syncTargets' = (IF engine = "on" /\ orgAt[r].pc = "install" THEN orgAt[r].read ELSE syncTargets)
        /\ joinedOk' = (IF Joins(r) THEN joinedOk \cup {r.org} ELSE joinedOk)
    BY <1>10 DEF configure_org_sync_if_needed, Answered, Joins
  <2>2. /\ Alone(r)
        /\ orgAt[r].pc = "install" => orgAt[r].read = Memberships
        /\ orgAt[r].pc = "skip" => Memberships = {}
    BY <2>1, OneRequest DEF OrgInv
  <2>3. Joins(r) => r.org \in Org /\ Me \in orgs[r.org]
    BY <1>a, <2>1 DEF OrgInv, Joins
  <2>4. \A o \in joinedOk' : o \in Org /\ Me \in orgs'[o]
    BY <1>d, <2>1, <2>3 DEF JoinedInv
  <2>5. joinedOk' \subseteq Memberships
    BY <2>1, <2>4 DEF Memberships
  <2>6. engine = "on" => joinedOk' \subseteq syncTargets'
    BY <2>1, <2>2, <2>5
  <2>7. JoinedInv'
    BY <1>e, <2>4, <2>6 DEF JoinedInv
  <2> QED
    BY <1>d, <2>1, <2>2, <2>7, RequestMoves
<1>11. ASSUME NEW o \in Org, InviteArrives(o) PROVE OrgInv'
  BY <1>11, <1>k DEF InviteArrives
<1>12. CASE UNCHANGED cloudVars
  BY <1>12, <1>k DEF cloudVars, orgVars
<1> QED
  BY <1>1, <1>2, <1>3, <1>4, <1>5, <1>6, <1>7, <1>8, <1>9, <1>10, <1>11, <1>12
  DEF Organisations, OrgNext

(***************************************************************************)
(* JoinedOrgSynced: with one organisation request at a time, an            *)
(* organisation whose creation or join was answered is a target of a       *)
(* running engine until this node leaves it, whatever the cloud refuses    *)
(* and however often the node restarts (configure_org_sync_if_needed).     *)
(***************************************************************************)
THEOREM JoinedCorrect == ~ OrgOverlap /\ OrgSpec => []JoinedOrgSynced
<1> SUFFICES ASSUME ~ OrgOverlap PROVE OrgSpec => []JoinedOrgSynced
  OBVIOUS
<1>1. CloudInit => OrgInv
  <2> SUFFICES ASSUME CloudInit PROVE OrgInv
    OBVIOUS
  <2>1. [pc |-> "idle", read |-> {}] \in RequestRecord
    BY DEF RequestRecord
  <2> QED
    BY <2>1 DEF CloudInit, OrgInv, JoinedInv, AtWork
<1>2. OrgInv /\ [Organisations]_cloudVars => OrgInv'
  BY OrgKept
<1>3. OrgInv => JoinedOrgSynced
  BY DEF OrgInv, JoinedInv, JoinedOrgSynced
<1> QED
  BY <1>1, <1>2, <1>3, PTL DEF OrgSpec, Organisations
=============================================================================
