------------------------------- MODULE Personas -------------------------------
(***************************************************************************)
(* Personas, identities and received identity cards: the handlers under    *)
(* handlers/fingerprints that edit Persona, Identity and IdentityReceipt   *)
(* records, the bootstrap of the built-in Me persona, and the inbox of     *)
(* cards other nodes sent.                                                 *)
(*                                                                         *)
(* No handler holds a lock or a transaction.  Each is a walk over a few    *)
(* store accesses, any of which may fail or be the last before the process *)
(* dies; an edit of a persona reads the record, changes the copy and       *)
(* writes all of it back.  Threshold, relationship and aliases of a        *)
(* persona are left out: they are copied like the exclusions.              *)
(***************************************************************************)
EXTENDS Integers, FiniteSets

CONSTANTS
    Fp, Cluster,    \* fingerprints, and the sets of them the sweep proposes
    NodeFp,         \* the fingerprint of this node's public key
    Exclusion,      \* ids of edges or mentions a user may exclude
    Self, Peer,     \* identity ids: of this node, of other nodes
    Name,           \* display names
    Message,        \* identity cards other nodes send
    CardOf,         \* the identity a message's card claims
    Valid,          \* messages whose card signature verifies
    Forwarded,      \* messages not sent by the node their card names
    Pasted,         \* peers whose (valid) card the user also pastes
    MaxPersonas,    \* bound on the personas ever created
    MaxRequests,    \* bound on the requests served
    Requester, Boot,     \* requests served at once; the start of the node
    Does,           \* the kinds of request each task makes
    None            \* absent record, name, identity or message

Id == {Self} \cup Peer
PersonaId == 1..MaxPersonas
Process == Requester \cup {Boot}

ASSUME ClusterAssumption == Cluster \subseteq (SUBSET Fp) \ {{}}
ASSUME CardAssumption == CardOf \in [Message -> Peer] /\ Pasted \subseteq Peer
ASSUME NoneAssumption ==
    None \notin Id \cup Name \cup Message \cup PersonaId /\ NodeFp \notin Fp
ASSUME ProcessAssumption == Boot \notin Requester
ASSUME PersonaBoundAssumption == MaxPersonas \in Nat /\ MaxRequests \in Nat

VARIABLES
    persona,        \* Persona records by id
    created,        \* persona ids handed out so far
    identity,       \* Identity records: their display name, or None
    receipt,        \* identities that have an IdentityReceipt
    node_fp,        \* is the NodePubKey fingerprint stored?
    card,           \* the display name on the node's own IdentityCard
    inbox,          \* received cards: status and accepted_identity_id
    proc,           \* per process: where it is and what it has read
    requests        \* requests served so far

personaStore == <<persona, created, identity, receipt, node_fp, card, inbox>>
personaVars == <<personaStore, proc, requests>>

Record == [seeds : SUBSET (Fp \cup {NodeFp}), excluded : SUBSET Exclusion,
           identity : Id \cup {None}, confirmed : BOOLEAN, built_in : BOOLEAN,
           name : Name \cup {None}]
ASSUME RecordAssumption == None \notin Record

Row == [status : {"none", "pending", "accepted", "dismissed"}, id : Id \cup {None}]
PC == {"idle", "patch_write", "delete_write", "merge_read", "merge_write",
       "merge_delete", "me_probe", "me_identity", "me_fp", "me_receipt", "me_persona",
       "reissue_identity", "reissue_find", "reissue_write", "import_probe",
       "import_identity", "import_receipt", "import_link", "row_accept", "row_error",
       "row_dismiss"}
Local == [pc : PC, p : PersonaId \cup {None}, q : PersonaId \cup {None},
          rec : Record \cup {None}, id : Id \cup {None}, msg : Message \cup {None},
          name : Name \cup {None}]

PersonaTypeOK ==
    /\ persona \in [PersonaId -> Record \cup {None}]
    /\ created \in 0..MaxPersonas
    /\ identity \in [Id -> Name \cup {None}]
    /\ receipt \subseteq Id
    /\ node_fp \in BOOLEAN
    /\ card \in Name \cup {None}
    /\ inbox \in [Message -> Row]
    /\ proc \in [Process -> Local]
    /\ requests \in 0..MaxRequests

Idle == [pc |-> "idle", p |-> None, q |-> None, rec |-> None, id |-> None,
         msg |-> None, name |-> None]

PersonaInit ==
    /\ persona = [i \in PersonaId |-> None]
    /\ created = 0
    /\ identity = [i \in Id |-> None]
    /\ receipt = {}
    /\ node_fp = FALSE
    /\ card = None
    /\ inbox = [m \in Message |-> [status |-> "none", id |-> None]]
    /\ proc = [t \in Process |-> Idle]
    /\ requests = 0

-----------------------------------------------------------------------------
\* A request begins on an idle task once the node has started.
Begins(t, kind) ==
    /\ kind \in Does[t]
    /\ proc[t].pc = "idle"
    /\ proc[Boot].pc = "idle"
    /\ requests < MaxRequests
    /\ requests' = requests + 1

Goto(t, loc) == proc' = [proc EXCEPT ![t] = loc]
ProcAt(t, pc) == proc[t].pc = pc /\ UNCHANGED requests
ProcDone(t) == Goto(t, Idle)

\* An error inside import_identity_card ends a pasted import, and sends the
\* acceptance of a received card to record the error on its row.
Failed(t) ==
    IF proc[t].msg # None
    THEN Goto(t, [Idle EXCEPT !.pc = "row_error", !.msg = proc[t].msg])
    ELSE ProcDone(t)

\* What a successful import is followed by.
Imported(t) ==
    IF proc[t].msg # None
    THEN Goto(t, [Idle EXCEPT !.pc = "row_accept", !.msg = proc[t].msg, !.id = proc[t].id])
    ELSE ProcDone(t)

\* Create, under an id nobody has used, and Update of a Persona record.
Create(rec) ==
    /\ created < MaxPersonas
    /\ persona' = [persona EXCEPT ![created + 1] = rec]
    /\ created' = created + 1
Update(i, rec) == persona' = [persona EXCEPT ![i] = rec] /\ UNCHANGED created

-----------------------------------------------------------------------------
(* The operations of a PersonaPatch on the record it read.                 *)
Patch == [kind : {"exclude", "include"}, arg : Exclusion]
         \cup [kind : {"confirm", "unconfirm", "clear"}, arg : {None}]
         \cup [kind : {"link"}, arg : Id]

Rejected(rec, patch) ==
    \/ patch.kind = "unconfirm" /\ rec.confirmed
    \/ patch.kind = "clear" /\ rec.built_in

Patched(rec, patch) ==
    CASE patch.kind = "exclude"   -> [rec EXCEPT !.excluded = @ \cup {patch.arg}]
      [] patch.kind = "include"   -> [rec EXCEPT !.excluded = @ \ {patch.arg}]
      [] patch.kind = "confirm"   -> [rec EXCEPT !.confirmed = TRUE]
      [] patch.kind = "unconfirm" -> [rec EXCEPT !.confirmed = FALSE]
      [] patch.kind = "link"      -> [rec EXCEPT !.identity = patch.arg]
      [] patch.kind = "clear"     -> [rec EXCEPT !.identity = None]

\* apply_persona_patch: the user links identities the node lists.
PatchRead(t) ==
    /\ Begins(t, "patch")
    /\ \E i \in PersonaId, patch \in Patch :
        /\ persona[i] # None
        /\ patch.kind = "link" => identity[patch.arg] # None
        /\ ~ Rejected(persona[i], patch)
        /\ Goto(t, [Idle EXCEPT !.pc = "patch_write", !.p = i,
                                !.rec = Patched(persona[i], patch)])
    /\ UNCHANGED personaStore

\* The end of a patch; one that links an import continues the import.
PatchWrite(t) ==
    /\ ProcAt(t, "patch_write")
    /\ Update(proc[t].p, proc[t].rec)
    /\ Imported(t)
    /\ UNCHANGED <<identity, receipt, node_fp, card, inbox>>

DeleteRead(t) ==
    /\ Begins(t, "delete")
    /\ \E i \in PersonaId :
        /\ persona[i] # None
        /\ ~ persona[i].built_in
        /\ Goto(t, [Idle EXCEPT !.pc = "delete_write", !.p = i])
    /\ UNCHANGED personaStore

DeleteWrite(t) ==
    /\ ProcAt(t, "delete_write")
    /\ Update(proc[t].p, None)
    /\ ProcDone(t)
    /\ UNCHANGED <<identity, receipt, node_fp, card, inbox>>

-----------------------------------------------------------------------------
(* merge_personas: both are read, then the survivor written, then the      *)
(* absorbed one deleted.                                                   *)
MergeReadSurvivor(t) ==
    /\ Begins(t, "merge")
    /\ \E i, j \in PersonaId :
        /\ i # j
        /\ persona[i] # None
        /\ Goto(t, [Idle EXCEPT !.pc = "merge_read", !.p = i, !.q = j,
                                !.rec = persona[i]])
    /\ UNCHANGED personaStore

\* Faulty variant: the verified link of the absorbed persona is dropped.
MergedWithoutLink(survivor, absorbed) ==
    [survivor EXCEPT !.seeds = @ \cup absorbed.seeds,
                     !.excluded = @ \cup absorbed.excluded]

Merged(survivor, absorbed) ==
    [survivor EXCEPT
        !.seeds = @ \cup absorbed.seeds,
        !.excluded = @ \cup absorbed.excluded,
        !.identity = IF @ = None THEN absorbed.identity ELSE @]

MergeReadAbsorbed(t) ==
    LET survivor == proc[t].rec
        absorbed == persona[proc[t].q]
    IN  /\ ProcAt(t, "merge_read")
        /\ IF \/ absorbed = None
              \/ survivor.built_in \/ absorbed.built_in
              \/ /\ survivor.identity # None
                 /\ absorbed.identity # None
                 /\ survivor.identity # absorbed.identity
           THEN ProcDone(t)
           ELSE Goto(t, [proc[t] EXCEPT !.pc = "merge_write",
                                        !.rec = Merged(survivor, absorbed)])
        /\ UNCHANGED personaStore

MergeWrite(t) ==
    /\ ProcAt(t, "merge_write")
    /\ Update(proc[t].p, proc[t].rec)
    /\ Goto(t, [Idle EXCEPT !.pc = "merge_delete", !.q = proc[t].q])
    /\ UNCHANGED <<identity, receipt, node_fp, card, inbox>>

MergeDelete(t) ==
    /\ ProcAt(t, "merge_delete")
    /\ Update(proc[t].q, None)
    /\ ProcDone(t)
    /\ UNCHANGED <<identity, receipt, node_fp, card, inbox>>

-----------------------------------------------------------------------------
Suggested(seeds, confirmed) ==
    [seeds |-> seeds, excluded |-> {}, identity |-> None, confirmed |-> confirmed,
     built_in |-> FALSE, name |-> None]

\* accept_suggested_persona does not look for a persona that has the seeds.
AcceptSuggested(t) ==
    /\ Begins(t, "suggested")
    /\ \E seeds \in Cluster : Create(Suggested(seeds, TRUE))
    /\ UNCHANGED <<identity, receipt, node_fp, card, inbox, proc>>

\* A sweep in the background makes a tentative persona for a cluster.
AutoCreate ==
    /\ \E seeds \in Cluster : Create(Suggested(seeds, FALSE))
    /\ UNCHANGED <<identity, receipt, node_fp, card, inbox, proc, requests>>

-----------------------------------------------------------------------------
(* Me: set_identity_card saves the card and makes sure that there is a Me  *)
(* persona; so does the start of a node that has a card.                   *)
SaveCard(t) ==
    /\ Begins(t, "card")
    /\ \E n \in Name :
        /\ card' = n
        /\ Goto(t, [Idle EXCEPT !.pc = "me_probe", !.name = n])
    /\ UNCHANGED <<persona, created, identity, receipt, node_fp, inbox>>

\* Faulty variant: probes for the Identity and trusts that the rest followed.
MeProbeIdentity(t) ==
    /\ ProcAt(t, "me_probe")
    /\ Goto(t, [proc[t] EXCEPT !.pc = IF identity[Self] # None THEN "me_persona"
                                                              ELSE "me_identity"])
    /\ UNCHANGED personaStore

\* ensure_me_persona_if_absent
MeProbe(t) ==
    /\ ProcAt(t, "me_probe")
    /\ IF \E i \in PersonaId : persona[i] # None /\ persona[i].built_in
       THEN ProcDone(t)
       ELSE Goto(t, [proc[t] EXCEPT !.pc = "me_identity"])
    /\ UNCHANGED personaStore

\* bootstrap_self_identity: write_records on four records, in this order.
MeIdentity(t) ==
    /\ ProcAt(t, "me_identity")
    /\ identity' = [identity EXCEPT ![Self] = proc[t].name]
    /\ Goto(t, [proc[t] EXCEPT !.pc = "me_fp"])
    /\ UNCHANGED <<persona, created, receipt, node_fp, card, inbox>>

MeFingerprint(t) ==
    /\ ProcAt(t, "me_fp")
    /\ node_fp' = TRUE
    /\ Goto(t, [proc[t] EXCEPT !.pc = "me_receipt"])
    /\ UNCHANGED <<persona, created, identity, receipt, card, inbox>>

MeReceipt(t) ==
    /\ ProcAt(t, "me_receipt")
    /\ receipt' = receipt \cup {Self}
    /\ Goto(t, [proc[t] EXCEPT !.pc = "me_persona"])
    /\ UNCHANGED <<persona, created, identity, node_fp, card, inbox>>

MePersona(t) ==
    /\ ProcAt(t, "me_persona")
    /\ Create([seeds |-> {NodeFp}, excluded |-> {}, identity |-> Self,
               confirmed |-> TRUE, built_in |-> TRUE, name |-> proc[t].name])
    /\ ProcDone(t)
    /\ UNCHANGED <<identity, receipt, node_fp, card, inbox>>

-----------------------------------------------------------------------------
(* reissue_identity_card with a new display name.                          *)
ReissueRead(t) ==
    /\ Begins(t, "reissue")
    /\ identity[Self] # None
    /\ \E n \in Name : Goto(t, [Idle EXCEPT !.pc = "reissue_identity", !.name = n])
    /\ UNCHANGED personaStore

ReissueIdentity(t) ==
    /\ ProcAt(t, "reissue_identity")
    /\ identity' = [identity EXCEPT ![Self] = proc[t].name]
    /\ Goto(t, [proc[t] EXCEPT !.pc = "reissue_find"])
    /\ UNCHANGED <<persona, created, receipt, node_fp, card, inbox>>

\* update_me_persona_name: any built-in persona, or none.
ReissueFindMe(t) ==
    LET Me == {i \in PersonaId : persona[i] # None /\ persona[i].built_in}
    IN  /\ ProcAt(t, "reissue_find")
        /\ \/ Me = {} /\ ProcDone(t)
           \/ \E i \in Me :
                Goto(t, [Idle EXCEPT !.pc = "reissue_write", !.p = i,
                            !.rec = [persona[i] EXCEPT !.name = proc[t].name]])
        /\ UNCHANGED personaStore

ReissueMeName(t) ==
    /\ ProcAt(t, "reissue_write")
    /\ Update(proc[t].p, proc[t].rec)
    /\ ProcDone(t)
    /\ UNCHANGED <<identity, receipt, node_fp, card, inbox>>

-----------------------------------------------------------------------------
(* import_identity_card, from the clipboard or for a row of the inbox; the *)
(* user may name a persona to link.  A card's signature is verified first. *)
Verified(m) == m \in Valid    \* the signature check of the importer

Links(t) == IF "link" \in Does[t] THEN PersonaId \cup {None} ELSE {None}

ImportPaste(t) ==
    /\ Begins(t, "import")
    /\ \E i \in Pasted, link \in Links(t) :
        Goto(t, [Idle EXCEPT !.pc = "import_probe", !.id = i, !.p = link])
    /\ UNCHANGED personaStore

\* accept_received_card: an accepted row is answered, a dismissed one refused.
AcceptRow(t) ==
    /\ Begins(t, "accept")
    /\ \E m \in Message, link \in Links(t) :
        /\ inbox[m].status = "pending"
        /\ Goto(t, [Idle EXCEPT !.pc = IF Verified(m) THEN "import_probe" ELSE "row_error",
                                !.msg = m, !.id = CardOf[m], !.p = link])
    /\ UNCHANGED personaStore

ImportProbe(t) ==
    /\ ProcAt(t, "import_probe")
    /\ Goto(t, [proc[t] EXCEPT
                    !.pc = IF identity[proc[t].id] = None THEN "import_identity"
                                                          ELSE "import_link"])
    /\ UNCHANGED personaStore

\* The face fingerprint and edge of a card follow the receipt; they are in no
\* junction, so no reader of the graph reaches them.
ImportIdentity(t) ==
    /\ ProcAt(t, "import_identity")
    /\ \E n \in Name : identity' = [identity EXCEPT ![proc[t].id] = n]
    /\ Goto(t, [proc[t] EXCEPT !.pc = "import_receipt"])
    /\ UNCHANGED <<persona, created, receipt, node_fp, card, inbox>>

ImportReceipt(t) ==
    /\ ProcAt(t, "import_receipt")
    /\ receipt' = receipt \cup {proc[t].id}
    /\ Goto(t, [proc[t] EXCEPT !.pc = "import_link"])
    /\ UNCHANGED <<persona, created, identity, node_fp, card, inbox>>

\* The read half of the patch that links; PatchWrite is the other half.
ImportLink(t) ==
    LET i == proc[t].p
    IN  /\ ProcAt(t, "import_link")
        /\ CASE i = None -> Imported(t)
             [] i # None /\ persona[i] = None -> Failed(t)
             [] OTHER ->
                  Goto(t, [proc[t] EXCEPT !.pc = "patch_write",
                               !.rec = Patched(persona[i],
                                               [kind |-> "link", arg |-> proc[t].id])])
        /\ UNCHANGED personaStore

-----------------------------------------------------------------------------
(* The inbox.                                                              *)

\* handle_incoming_identity_card, again on every redelivery of the message.
Deliver(m) ==
    /\ m \notin Forwarded
    /\ inbox' = [inbox EXCEPT ![m] = [status |-> "pending", id |-> None]]
    /\ UNCHANGED <<persona, created, identity, receipt, node_fp, card, proc, requests>>

\* resolve_received_card
Resolve(m, status, id) == inbox' = [inbox EXCEPT ![m] = [status |-> status, id |-> id]]

RowAccepted(t) ==
    /\ ProcAt(t, "row_accept")
    /\ Resolve(proc[t].msg, "accepted", proc[t].id)
    /\ ProcDone(t)
    /\ UNCHANGED <<persona, created, identity, receipt, node_fp, card>>

RowError(t) ==
    /\ ProcAt(t, "row_error")
    /\ Resolve(proc[t].msg, "pending", None)
    /\ ProcDone(t)
    /\ UNCHANGED <<persona, created, identity, receipt, node_fp, card>>

DismissRead(t) ==
    /\ Begins(t, "dismiss")
    /\ \E m \in Message :
        /\ inbox[m].status \in {"pending", "dismissed"}
        /\ Goto(t, [Idle EXCEPT !.pc = "row_dismiss", !.msg = m])
    /\ UNCHANGED personaStore

DismissWrite(t) ==
    /\ ProcAt(t, "row_dismiss")
    /\ Resolve(proc[t].msg, "dismissed", None)
    /\ ProcDone(t)
    /\ UNCHANGED <<persona, created, identity, receipt, node_fp, card>>

-----------------------------------------------------------------------------
\* The next store access of the request fails.
ProcFail(t) ==
    /\ proc[t].pc # "idle"
    /\ IF proc[t].pc \in {"import_probe", "import_identity", "import_receipt",
                          "import_link", "patch_write"}
       THEN Failed(t)
       ELSE ProcDone(t)
    /\ UNCHANGED <<personaStore, requests>>

\* The process dies; the next start bootstraps Me if it can load a card.
Crash ==
    /\ \E begun \in BOOLEAN :
        proc' = [t \in Process |->
                    IF t = Boot /\ card # None /\ begun
                    THEN [Idle EXCEPT !.pc = "me_probe", !.name = card]
                    ELSE Idle]
    /\ UNCHANGED <<personaStore, requests>>

Personas(t) ==
    \/ PatchRead(t) \/ PatchWrite(t) \/ DeleteRead(t) \/ DeleteWrite(t)
    \/ MergeReadSurvivor(t) \/ MergeReadAbsorbed(t) \/ MergeWrite(t) \/ MergeDelete(t)
    \/ AcceptSuggested(t)

Me(t) ==
    \/ SaveCard(t) \/ MeProbe(t) \/ MeIdentity(t) \/ MeFingerprint(t) \/ MeReceipt(t)
    \/ MePersona(t) \/ ReissueRead(t) \/ ReissueIdentity(t) \/ ReissueFindMe(t)
    \/ ReissueMeName(t)

Cards(t) ==
    \/ ImportPaste(t) \/ AcceptRow(t) \/ ImportProbe(t) \/ ImportIdentity(t)
    \/ ImportReceipt(t) \/ ImportLink(t) \/ RowAccepted(t) \/ RowError(t)
    \/ DismissRead(t) \/ DismissWrite(t)

PersonaNext ==
    \/ \E t \in Process : Personas(t) \/ Me(t) \/ Cards(t) \/ ProcFail(t)
    \/ \E m \in Message : Deliver(m)
    \/ AutoCreate
    \/ Crash

PersonaSpec == PersonaInit /\ [][PersonaNext]_personaVars

-----------------------------------------------------------------------------
(* Correctness                                                             *)

BuiltIn == {i \in PersonaId : persona[i] # None /\ persona[i].built_in}

\* A node gets one Me persona, although the bootstrap asks and then writes, may
\* fail or die anywhere and is run again by every card save and every start;
\* and Me comes after the records it stands on: the node's own Identity, its
\* receipt and its fingerprint.  (One request at a time saves the card.)
MeSound ==
    /\ Cardinality(BuiltIn) <= 1
    /\ BuiltIn # {} => identity[Self] # None /\ Self \in receipt /\ node_fp

\* What the personas know between them.
Known(field) == UNION {persona[i][field] : i \in {j \in PersonaId : persona[j] # None}}
Linked == {persona[i].identity : i \in {j \in PersonaId : persona[j] # None}} \ {None}
Ends(pc) == \E t \in Process : proc[t].pc = pc /\ proc'[t] # proc[t]

\* Merging never loses a seed, an exclusion or a verified link, even if it fails
\* or dies half way: seeds go only with a persona the user deletes, exclusions
\* and links also by a patch.  (One request at a time edits personas: merges,
\* patches and re-issues overwrite what they did not see.)
MergeLosesNothing ==
    [][/\ ~ Known("seeds") \subseteq Known("seeds")' => Ends("delete_write")
       /\ (~ Known("excluded") \subseteq Known("excluded")' \/ ~ Linked \subseteq Linked')
            => Ends("delete_write") \/ Ends("patch_write")]_personaVars
=============================================================================
