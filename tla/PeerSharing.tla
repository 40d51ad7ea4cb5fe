---------------------------- MODULE PeerSharing ----------------------------
(***************************************************************************)
(* What a node shares with its contacts: calendar events and photo moments *)
(* it compares with theirs, records it sends them, share rules and their   *)
(* invites, and the question whether a contact knows the sender of a       *)
(* connection request.                                                     *)
(*                                                                         *)
(* Every handler reads and writes rows of one key-value store and gives    *)
(* way between two of them; what it read before is what it uses after.     *)
(***************************************************************************)
EXTENDS Integers, FiniteSets, Sequences, SequencesExt, FiniteSetsExt

CONSTANTS
    Peer,          \* other nodes
    Messaging,     \* peers whose contact has a messaging key and pseudonym
    CalBatch,      \* requests with events of our calendar, sets of events [hash, title, place, start, end]
    PeerBatch,     \* requests with events of a peer: [peer, events]
    Accepted,      \* peers with an accepted connection request
    MaxCalendarBatch,   \* MAX_CALENDAR_BATCH
    Photos,        \* requests with photos: sequences of [time, cell, valid]
    MaxPhotoBatch, \* MAX_PHOTO_BATCH
    MaxHashes,     \* MAX_SAVED_MOMENT_HASHES
    PeerHashes,    \* requests with hashes of a peer: [peer, hashes]
    Asker,         \* requests to check the network, each with its query id
    Knows,         \* peers that know the subject of the connection request
    Rule,          \* share rules the sender may create
    Share,         \* records of a data share in their order: [schema, file, decodes]
    Approved,      \* schemas approved on the receiving node
    MaxScans,      \* photo scans of one behaviour
    MaxFailures    \* failed writes of one behaviour

ASSUME SharingAssumption ==
    /\ {MaxCalendarBatch, MaxPhotoBatch, MaxHashes, MaxScans, MaxFailures} \subseteq Nat
    /\ Messaging \subseteq Peer /\ Knows \subseteq Peer /\ Accepted \subseteq Peer
    /\ Share \in Seq({Share[i] : i \in DOMAIN Share})

VARIABLES
    contact,     \* contact[p]: "none", "active" or "revoked"
    calOn,       \* the calendar opt-in flag
    calLocal, calPeers,   \* stored events of ours, stored <<peer, events>>
    syncing,     \* sync_calendar_events: [pc, left]
    storing,     \* store_peer_events: [pc, set]
    purging,     \* calendar_sharing_opt_out: [pc, local, peers]
    calLate,     \* history: an event was written while the flag was off
    sharedEvents,  \* the last answer of get_shared_events: [event, peers]
    moments,     \* [optIns, ours, theirs, found, scans] of the photo moments
    request,     \* the connection request: [status, query, queried, vouches]
    asking,      \* asking[a]: [pc, row, todo, sent]
    mail,        \* messages on their way
    vouching,    \* the dispatch of a referral response: [pc, row, vouch]
    rules, handed, pending, subs,   \* share rules, invites handed to the user, pending invites, subscriptions
    shareIn,     \* the dispatch of the data share: [pc, next]
    stored, files, faces, notices, marked,   \* what the data share left
    failures     \* failed writes so far

calVars == <<calOn, calLocal, calPeers, syncing, storing, purging, calLate, sharedEvents>>
referralVars == <<request, asking, vouching>>
inviteVars == <<rules, handed, pending, subs>>
dataVars == <<shareIn, stored, files, faces, notices, marked>>
sharingVars == <<contact, calVars, moments, referralVars, mail, inviteVars, dataVars, failures>>

NoPurge == [pc |-> "idle", local |-> {}, peers |-> {}]
NoRow == [status |-> "pending", query |-> "none", queried |-> 0, vouches |-> <<>>]

SharingInit ==
    /\ contact \in {c \in [Peer -> {"none", "active", "revoked"}] : \E p \in Peer : c[p] = "active"}
    /\ calOn = FALSE /\ calLocal = {} /\ calPeers = {} /\ calLate = FALSE /\ sharedEvents = {}
    /\ syncing = [pc |-> "idle", left |-> {}] /\ storing = [pc |-> "idle", set |-> {}] /\ purging = NoPurge
    /\ moments = [optIns |-> {}, ours |-> [p \in Peer |-> <<>>], theirs |-> [p \in Peer |-> {}], found |-> {}, scans |-> 0]
    /\ request = NoRow
    /\ asking = [a \in Asker |-> [pc |-> "idle", row |-> NoRow, todo |-> {}, sent |-> 0]]
    /\ mail = {} /\ vouching = [pc |-> "idle", row |-> NoRow, vouch |-> <<>>]
    /\ rules = {} /\ handed = {} /\ pending = {} /\ subs = {}
    /\ shareIn = [pc |-> "sent", next |-> 1]
    /\ stored = {} /\ files = {} /\ faces = {} /\ notices = 0 /\ marked = FALSE
    /\ failures = 0

Fails == failures < MaxFailures /\ failures' = failures + 1
Works == UNCHANGED failures

-----------------------------------------------------------------------------
(* The calendar.                                                           *)

calendar_sharing_opt_in ==
    /\ ~calOn /\ calOn' = TRUE
    /\ UNCHANGED <<calLocal, calPeers, syncing, storing, purging, calLate, sharedEvents, failures>>

(* Checked once, then written event by event. *)
sync_calendar_events ==
    /\ syncing.pc = "idle" /\ calOn
    /\ \E b \in CalBatch : Cardinality(b) <= MaxCalendarBatch /\ syncing' = [pc |-> "save", left |-> b]
    /\ UNCHANGED <<calOn, calLocal, calPeers, storing, purging, calLate, sharedEvents, failures>>
fingerprint_event(e) == e
save_local_events ==
    /\ syncing.pc = "save"
    /\ \/ \E e \in syncing.left :
            /\ calLocal' = {f \in calLocal : f.hash # e.hash} \cup {fingerprint_event(e)}
            /\ syncing' = [pc |-> IF syncing.left = {e} THEN "done" ELSE "save", left |-> syncing.left \ {e}]
            /\ calLate' = (calLate \/ ~calOn)
            /\ Works
       \/ Fails /\ syncing' = [syncing EXCEPT !.pc = "done"] /\ UNCHANGED <<calLocal, calLate>>
    /\ UNCHANGED <<calOn, calPeers, storing, purging, sharedEvents>>

get_accepted_connections == Accepted
store_peer_events ==
    /\ storing.pc = "idle" /\ calOn
    /\ \E b \in PeerBatch :
          /\ Cardinality(b.events) <= MaxCalendarBatch /\ b.peer \in get_accepted_connections
          /\ storing' = [pc |-> "save", set |-> {b}]
    /\ UNCHANGED <<calOn, calLocal, calPeers, syncing, purging, calLate, sharedEvents, failures>>
save_peer_events ==
    /\ storing.pc = "save" /\ storing' = [storing EXCEPT !.pc = "done"]
    /\ \/ \E b \in storing.set : calPeers' = {q \in calPeers : q.peer # b.peer} \cup {b}
          /\ calLate' = (calLate \/ ~calOn) /\ Works
       \/ Fails /\ UNCHANGED <<calPeers, calLate>>
    /\ UNCHANGED <<calOn, calLocal, syncing, purging, sharedEvents>>

(* The flag first, then the rows that are there, whether the flag was on   *)
(* or not: an opt-out that failed is repeated.  One request at a time.     *)
calendar_sharing_opt_out ==
    /\ purging.pc \in {"idle", "done", "failed"}
    /\ calOn' = FALSE
    /\ purging' = [NoPurge EXCEPT !.pc = "local", !.local = calLocal]
    /\ UNCHANGED <<calLocal, calPeers, syncing, storing, calLate, sharedEvents, failures>>
(* Faulty variant: the events of the peers are left. *)
clear_all_calendar_data_LocalOnly ==
    /\ purging.pc = "local"
    /\ \/ \E e \in purging.local :
            purging' = [purging EXCEPT !.local = @ \ {e}] /\ calLocal' = {f \in calLocal : f.hash # e.hash}
       \/ purging.local = {} /\ purging' = [purging EXCEPT !.pc = "done"] /\ UNCHANGED calLocal
    /\ UNCHANGED <<calOn, calPeers, syncing, storing, calLate, sharedEvents, failures>>

clear_all_calendar_data ==
    /\ \/ \E e \in purging.local :
            /\ purging.pc = "local" /\ purging' = [purging EXCEPT !.local = @ \ {e}]
            /\ calLocal' = {f \in calLocal : f.hash # e.hash} /\ Works /\ UNCHANGED calPeers
       \/ /\ purging.pc = "local" /\ purging.local = {}
          /\ purging' = [purging EXCEPT !.pc = "peers", !.peers = calPeers]
          /\ Works /\ UNCHANGED <<calLocal, calPeers>>
       \/ \E b \in purging.peers :
            /\ purging.pc = "peers" /\ purging' = [purging EXCEPT !.peers = @ \ {b}]
            /\ calPeers' = {q \in calPeers : q.peer # b.peer} /\ Works /\ UNCHANGED calLocal
       \/ /\ purging.pc = "peers" /\ purging.peers = {} /\ purging' = [purging EXCEPT !.pc = "done"]
          /\ Works /\ UNCHANGED <<calLocal, calPeers>>
       \/ /\ purging.pc \in {"local", "peers"} /\ Fails /\ purging' = [purging EXCEPT !.pc = "failed"]
          /\ UNCHANGED <<calLocal, calPeers>>
    /\ UNCHANGED <<calOn, syncing, storing, calLate, sharedEvents>>

(* Similarity of two events, compared with the threshold without division: *)
(* weights and threshold are hundredths.                                   *)
DATE_WEIGHT == 40
TITLE_WEIGHT == 35
LOCATION_WEIGHT == 25
OVERLAP_THRESHOLD == 50
parse_datetime(t) == t >= 0
overlap(a, b) == Min({a.end, b.end}) - Max({a.start, b.start})
duration(a) == Max({a.end - a.start, 1})
date_overlap_score(a, b) ==
    IF \A t \in {a.start, a.end, b.start, b.end} : parse_datetime(t)
    THEN [n |-> Min({Max({overlap(a, b), 0}), duration(a), duration(b)}), d |-> Max({duration(a), duration(b)})]
    ELSE [n |-> 0, d |-> 1]
jaccard_similarity(s, t) ==
    IF s \cup t = {} THEN [n |-> 0, d |-> 1] ELSE [n |-> Cardinality(s \cap t), d |-> Cardinality(s \cup t)]
event_similarity(a, b) ==
    LET date == date_overlap_score(a, b)
        title == jaccard_similarity(a.title, b.title)
        place == jaccard_similarity(a.place, b.place)
    IN /\ date.n > 0
       /\ DATE_WEIGHT * date.n * title.d * place.d + TITLE_WEIGHT * title.n * date.d * place.d
          + LOCATION_WEIGHT * place.n * date.d * title.d >= OVERLAP_THRESHOLD * date.d * title.d * place.d
Matching(e) == {b.peer : b \in {q \in calPeers : \E f \in q.events : event_similarity(e, f)}}
detect_shared_events == {[event |-> e.hash, peers |-> Matching(e)] : e \in {f \in calLocal : Matching(f) # {}}}
get_shared_events ==
    /\ sharedEvents' = IF calOn THEN detect_shared_events ELSE {}
    /\ UNCHANGED <<calOn, calLocal, calPeers, syncing, storing, purging, calLate, failures>>

CalendarNext ==
    /\ \/ calendar_sharing_opt_in \/ sync_calendar_events \/ save_local_events
       \/ store_peer_events \/ save_peer_events \/ calendar_sharing_opt_out \/ clear_all_calendar_data
       \/ get_shared_events
    /\ UNCHANGED <<contact, moments, referralVars, mail, inviteVars, dataVars>>

-----------------------------------------------------------------------------
(* Photo moments: a hash stands for its hour and cell under the secret of  *)
(* the pair; cells are on a line, each with its neighbours.                *)

find_contact_by_pseudonym(p) == contact[p]
authorize_moment_peer(p) ==
    CASE find_contact_by_pseudonym(p) = "none" -> "unknown"
      [] find_contact_by_pseudonym(p) = "revoked" -> "revoked"
      [] OTHER -> "authorized"
moment_opt_in ==
    \E p \in Peer : authorize_moment_peer(p) = "authorized" /\ moments' = [moments EXCEPT !.optIns = @ \cup {p}]
moment_opt_out == \E p \in moments.optIns : moments' = [moments EXCEPT !.optIns = @ \ {p}]

time_bucket(photo) == photo.time
adjacent_time_buckets(photo) == << time_bucket(photo) - 1, time_bucket(photo), time_bucket(photo) + 1 >>
encode_location(photo) == photo.cell
neighboring_geohashes(cell) == << cell, cell + 1, cell - 1 >>
compute_moment_hash(bucket, cell) == <<bucket, cell>>
generate_moment_hashes(photo) ==
    LET buckets == adjacent_time_buckets(photo)
        cells == neighboring_geohashes(encode_location(photo))
        Hash(i) == compute_moment_hash(buckets[1 + ((i - 1) \div 3)], cells[1 + ((i - 1) % 3)])
    IN IF encode_location(photo) < 0 THEN <<>>
       ELSE [i \in 1 .. 9 |-> [hash |-> Hash(i), bucket |-> time_bucket(photo), cell |-> encode_location(photo)]]

(* The first of equal hashes stays, and the oldest go above the limit. *)
KeepNew(known, h) == IF \E i \in DOMAIN known : known[i].hash = h.hash THEN known ELSE Append(known, h)
save_our_moment_hashes(existing, hashes) ==
    LET merged == FoldLeft(KeepNew, existing, hashes)
    IN SubSeq(merged, Max({1, Len(merged) - MaxHashes + 1}), Len(merged))

(* A photo whose time cannot be read ends the scan at the first opt-in,    *)
(* with nothing saved for it.                                              *)
moment_scan ==
    \E photos \in Photos :
       LET all == FlattenSeq([i \in DOMAIN photos |-> generate_moment_hashes(photos[i])])
       IN /\ Len(photos) <= MaxPhotoBatch /\ \A i \in DOMAIN photos : photos[i].valid
          /\ moments.optIns # {} /\ moments.scans < MaxScans
          /\ moments' = [moments EXCEPT !.scans = @ + 1, !.ours = [p \in Peer |-> IF p \in moments.optIns
                                                   THEN save_our_moment_hashes(@[p], all) ELSE @[p]]]
moment_receive_hashes ==
    \E r \in PeerHashes :
       r.peer \in moments.optIns /\ moments' = [moments EXCEPT !.theirs[r.peer] = r.hashes]

find_hash_overlaps(ours, theirs) == SelectSeq(ours, LAMBDA h : h.hash \in theirs)
detect_shared_moments(p) ==
    {[peer |-> p, bucket |-> h.bucket, cell |-> h.cell] : h \in ToSet(find_hash_overlaps(moments.ours[p], moments.theirs[p]))}
moment_detect ==
    moments' = [moments EXCEPT !.found = @ \cup UNION {detect_shared_moments(p) : p \in moments.optIns}]

MomentNext ==
    /\ moment_opt_in \/ moment_opt_out \/ moment_scan \/ moment_receive_hashes \/ moment_detect
    /\ UNCHANGED <<contact, calVars, referralVars, mail, inviteVars, dataVars, failures>>

-----------------------------------------------------------------------------
(* Asking contacts about the sender of a connection request.               *)

active_contacts == {p \in Peer : contact[p] = "active"}
Eligible == active_contacts \cap Messaging

initiate_referral_query(a) ==
    /\ asking[a].pc = "idle" /\ request.status = "pending" /\ request.query = "none" /\ Eligible # {}
    /\ asking' = [asking EXCEPT ![a] = [pc |-> "send", row |-> request, todo |-> Eligible, sent |-> 0]]
    /\ UNCHANGED <<request, mail, vouching, contact>>
(* A message that fails is not counted; it may have been delivered. *)
send_referral_query(a) ==
    /\ asking[a].pc = "send"
    /\ \E p \in asking[a].todo, counted, delivered \in BOOLEAN :
          /\ counted => delivered
          /\ asking' = [asking EXCEPT ![a].todo = @ \ {p}, ![a].sent = IF counted THEN @ + 1 ELSE @]
          /\ mail' = IF delivered THEN mail \cup {[kind |-> "query", id |-> a, peer |-> p]} ELSE mail
    /\ UNCHANGED <<request, vouching, contact>>
(* The row read at the start is written back. *)
save_referral_query(a) ==
    /\ asking[a].pc = "send" /\ asking[a].todo = {}
    /\ request' = [asking[a].row EXCEPT !.query = a, !.queried = asking[a].sent]
    /\ asking' = [asking EXCEPT ![a].pc = "done"]
    /\ UNCHANGED <<mail, vouching, contact>>

(* The peer answers when the subject is one of its active contacts. *)
referral_contact_matches(p) == p \in Knows
handle_incoming_referral_query ==
    /\ \E m \in {n \in mail : n.kind = "query"} :
          mail' = (mail \ {m}) \cup (IF referral_contact_matches(m.peer) THEN {[m EXCEPT !.kind = "response"]} ELSE {})
    /\ UNCHANGED <<request, asking, vouching, contact>>

QueryMatches(m) == request.query = m.id
referral_voucher_matches(p) == p \in active_contacts

handle_incoming_referral_response ==
    /\ vouching.pc = "idle"
    /\ \E m \in {n \in mail : n.kind = "response"} :
          /\ mail' = mail \ {m}
          /\ vouching' = IF QueryMatches(m)
                         THEN [pc |-> "book", row |-> request,
                               vouch |-> <<[query |-> m.id, voucher |-> IF referral_voucher_matches(m.peer)
                                                                         THEN m.peer ELSE "Unknown contact"]>>]
                         ELSE vouching
    /\ UNCHANGED <<request, asking, contact>>
save_vouch ==
    /\ vouching.pc = "book"
    /\ request' = [vouching.row EXCEPT !.vouches = @ \o vouching.vouch]
    /\ vouching' = [pc |-> "idle", row |-> NoRow, vouch |-> <<>>]
    /\ UNCHANGED <<asking, mail, contact>>

(* The user answers the request, or revokes a contact, meanwhile. *)
update_request_status ==
    /\ request.status = "pending" /\ \E s \in {"accepted", "declined"} : request' = [request EXCEPT !.status = s]
    /\ UNCHANGED <<asking, mail, vouching, contact>>
revoke_contact ==
    /\ \E p \in active_contacts : contact' = [contact EXCEPT ![p] = "revoked"]
    /\ UNCHANGED <<request, asking, mail, vouching>>

ReferralNext ==
    /\ \/ \E a \in Asker : initiate_referral_query(a) \/ send_referral_query(a) \/ save_referral_query(a)
       \/ handle_incoming_referral_query \/ handle_incoming_referral_response \/ save_vouch
       \/ update_request_status \/ revoke_contact
    /\ UNCHANGED <<calVars, moments, inviteVars, dataVars, failures>>

-----------------------------------------------------------------------------
(* Share rules and invites, on the node that shares and on its contact.    *)
(* The prefix is that of the pair, the same for all its rules.             *)

Invite(r, form) == [secret |-> r, form |-> form]

create_rule ==
    /\ \E r \in Rule \ {q.id : q \in rules} : rules' = rules \cup {[id |-> r, active |-> TRUE]}
    /\ UNCHANGED <<handed, pending, subs, mail>>
deactivate_rule ==
    /\ \E r \in rules : r.active /\ rules' = (rules \ {r}) \cup {[r EXCEPT !.active = FALSE]}
    /\ UNCHANGED <<handed, pending, subs, mail>>

build_encrypted_invite(r) == Invite(r.id, "sealed")
HasRecipient == \E p \in Messaging : contact[p] # "none"
generate_invite ==
    /\ HasRecipient /\ \E r \in rules : handed' = handed \cup {build_encrypted_invite(r)}
    /\ UNCHANGED <<rules, pending, subs, mail>>
generate_and_send_invite ==
    /\ HasRecipient
    /\ \E r \in rules, delivered \in BOOLEAN :
          /\ handed' = IF delivered THEN handed \cup {build_encrypted_invite(r)} ELSE handed
          /\ mail' = IF delivered THEN mail \cup {[kind |-> "invite", id |-> r.id, peer |-> "us"]} ELSE mail
    /\ UNCHANGED <<rules, pending, subs>>

StoredInvite(m) == Invite(m.id, "plain")

(* One pending invite for a sender.  A message that cannot be opened is    *)
(* dropped; a store that fails leaves it for the next poll.                *)
handle_incoming_share_invite ==
    /\ \E m \in {n \in mail : n.kind = "invite"} :
          \/ mail' = mail \ {m} /\ pending' = {StoredInvite(m)}
          \/ mail' = mail \ {m} /\ UNCHANGED pending
    /\ UNCHANGED <<rules, handed, subs>>

(* The invite is the one in the request; the pending one of the sender is  *)
(* removed, whichever it is.                                               *)
accept_invite ==
    /\ \E i \in pending \cup handed :
          subs' = subs \cup {[secret |-> i.secret, form |-> i.form, queued |-> i \in pending]}
    /\ pending' \in {{}, pending}
    /\ UNCHANGED <<rules, handed, mail>>

InviteNext ==
    /\ \/ create_rule \/ deactivate_rule \/ generate_invite \/ generate_and_send_invite
       \/ handle_incoming_share_invite \/ accept_invite
    /\ UNCHANGED <<contact, calVars, moments, referralVars, dataVars, failures>>

-----------------------------------------------------------------------------
(* Receiving shared records.  The whole message comes again at the next    *)
(* poll until it is marked.                                                *)

validate_data_share_schemas == \A i \in DOMAIN Share : Share[i].schema \in Approved

poll_data_share ==
    /\ shareIn.pc = "sent" /\ ~marked
    /\ shareIn' = [pc |-> IF ~validate_data_share_schemas THEN "mark"
                           ELSE IF Share = <<>> THEN "notify" ELSE "write", next |-> 1]
    /\ UNCHANGED <<stored, files, faces, notices, marked, failures>>

Rec == Share[shareIn.next]
AfterRecord == [pc |-> IF shareIn.next < Len(Share) THEN "write" ELSE "notify", next |-> shareIn.next + 1]
Retried == [pc |-> "sent", next |-> 1]

(* Faulty variant: a record that cannot be written is passed over. *)
write_shared_record_Skip ==
    /\ shareIn.pc = "write"
    /\ \/ stored' = stored \cup {shareIn.next} /\ Works
          /\ shareIn' = IF Rec.file THEN [shareIn EXCEPT !.pc = "file"] ELSE AfterRecord
       \/ Fails /\ UNCHANGED stored /\ shareIn' = AfterRecord
    /\ UNCHANGED <<files, faces, notices, marked>>

write_shared_record ==
    /\ shareIn.pc = "write"
    /\ \/ stored' = stored \cup {shareIn.next} /\ Works
          /\ shareIn' = IF Rec.file THEN [shareIn EXCEPT !.pc = "file"] ELSE AfterRecord
       \/ Fails /\ UNCHANGED stored /\ shareIn' = Retried
    /\ UNCHANGED <<files, faces, notices, marked>>
(* A file that does not decode fails at every poll. *)
save_shared_file ==
    /\ shareIn.pc = "file"
    /\ \/ Rec.decodes /\ files' = files \cup {shareIn.next} /\ Works /\ shareIn' = [shareIn EXCEPT !.pc = "faces"]
       \/ Rec.decodes /\ Fails /\ UNCHANGED files /\ shareIn' = Retried
       \/ ~Rec.decodes /\ Works /\ UNCHANGED files /\ shareIn' = Retried
    /\ UNCHANGED <<stored, faces, notices, marked>>
index_shared_faces ==
    /\ shareIn.pc = "faces"
    /\ \/ faces' = faces \cup {shareIn.next} /\ Works /\ shareIn' = AfterRecord
       \/ Fails /\ UNCHANGED faces /\ shareIn' = Retried
    /\ UNCHANGED <<stored, files, notices, marked>>
store_notification ==
    /\ shareIn.pc = "notify"
    /\ \/ notices' = notices + 1 /\ Works /\ shareIn' = [shareIn EXCEPT !.pc = "mark"]
       \/ Fails /\ UNCHANGED notices /\ shareIn' = Retried
    /\ UNCHANGED <<stored, files, faces, marked>>
mark_data_share ==
    /\ shareIn.pc = "mark"
    /\ \/ marked' = TRUE /\ Works /\ shareIn' = [shareIn EXCEPT !.pc = "done"]
       \/ Fails /\ UNCHANGED marked /\ shareIn' = Retried
    /\ UNCHANGED <<stored, files, faces, notices>>

DataShareNext ==
    /\ \/ poll_data_share \/ write_shared_record \/ save_shared_file \/ index_shared_faces
       \/ store_notification \/ mark_data_share
    /\ UNCHANGED <<contact, calVars, moments, referralVars, mail, inviteVars>>

SharingNext == CalendarNext \/ MomentNext \/ ReferralNext \/ InviteNext \/ DataShareNext
SharingSpec == SharingInit /\ [][SharingNext]_sharingVars

-----------------------------------------------------------------------------
(* Properties.                                                             *)

(* handlers/discovery/calendar.rs, calendar_sharing_opt_out: once an       *)
(* opt-out is done no event of ours or of a peer is left, unless a request *)
(* that had passed its check before wrote one after the flag was off.      *)
CalendarPurged == purging.pc = "done" /\ ~calOn /\ ~calLate => calLocal = {} /\ calPeers = {}

(* inbound.rs, process_data_share: a share whose message is marked has all *)
(* its records, files and faces stored and was notified, however often     *)
(* its dispatch failed on the way; or it was refused and left nothing.     *)
MarkedShareStored ==
    marked => IF validate_data_share_schemas
              THEN /\ stored = DOMAIN Share /\ notices > 0
                   /\ \A i \in DOMAIN Share : Share[i].file => i \in files \cap faces
              ELSE stored = {} /\ notices = 0
====
