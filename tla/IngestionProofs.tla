--------------------------- MODULE IngestionProofs ---------------------------
(***************************************************************************)
(* Proofs about IngestionPipeline, for any tasks, files, proposals and     *)
(* registries: the types, that a file recorded as ingested has all its     *)
(* records in the database, and that a blocked schema leads to one that    *)
(* took over.                                                              *)
(***************************************************************************)
EXTENDS IngestionPipeline, SequenceTheorems, WellFoundedInduction, TLAPS

\* Maps from some members of D to V.
Partial(D, V) == UNION {[A -> V] : A \in SUBSET D}

\* A request being worked on.
JobRecord ==
    [pc : PC \ {"idle"}, file : File, org : Org \cup {NoOrg}, auto : BOOLEAN,
     props : Partial(Structure, Personal), match : Partial(Structure, Personal),
     local : Partial(Structure, Schema), todo : Seq(Nat),
     answer : Schema \cup {NoSchema}, replaced : Schema \cup {NoSchema},
     meta : SUBSET RefField, at : Nat, refs : SUBSET Ref, writing : BOOLEAN]

DocOf(j) == Doc[j.file].recs
Nested(j) == Doc[j.file].nested

FirstTop(q) == CHOOSE i \in DOMAIN q : q[i].of = 0 /\ \A k \in 1..(i - 1) : q[k].of # 0

\* Where a structure of the list todo is being resolved.
Resolving ==
    {"resolve", "reuse_load", "reuse_approve", "load_old", "load_new", "approve", "block",
     "refs_read", "refs_write"}

\* What a request holds, given the structures sh of the shared cache, the
\* schemas st of the node and the records rs in the database.
Has(j, sh, s) == s \in DOMAIN j.local \cup sh

\* A place in the document.
InDoc(j) == j.at \in 1..Len(DocOf(j)) /\ j.todo \in Seq(1..Len(DocOf(j)))

\* Whatever is left to resolve was proposed, or is cached and will be skipped;
\* the last one, which is not skipped, was proposed.
Proposed(j, sh) ==
    LET q == DocOf(j)  n == Len(j.todo) IN
    /\ j.pc = "reuse" =>
          \/ Has(j, sh, q[FirstTop(q)].s)
          \/ \A i \in 1..FirstTop(q) : Has(j, sh, q[i].s) \/ q[i].s \in DOMAIN j.props
    /\ j.pc \in Resolving =>
          \A k \in 1..n : \/ q[j.todo[k]].s \in DOMAIN j.props
                          \/ k < n /\ Has(j, sh, q[j.todo[k]].s)
    /\ j.pc \in Resolving \ {"resolve"} => j.todo # <<>>

\* The structure of a record that is written has a schema.
Located(j, sh) ==
    LET q == DocOf(j) IN
    /\ j.pc = "ref" => Has(j, sh, q[j.at].s) /\ q[j.at].of # 0
    /\ j.pc = "reuse" => Nested(j)
    /\ j.pc \in {"refs_read", "refs_write"} => q[Head(j.todo)].s \in DOMAIN j.local
    /\ ~ Nested(j) /\ j.pc \in {"org", "org_approve", "write"} => q[1].s \in DOMAIN j.local
    /\ ~ Nested(j) /\ j.pc \in Resolving =>
          j.todo = <<1>> \/ (j.todo = <<>> /\ q[1].s \in DOMAIN j.local)

Settled(st, s) == s \in DOMAIN st /\ st[s].state \in {"Approved", "Blocked"}

\* What a request refers to is in the store by the time it counts on it, and
\* the answer of an expansion is settled before the old schema is blocked.
Installed(j, st) ==
    /\ \A s \in DOMAIN j.local : j.local[s] \in DOMAIN st
    /\ j.pc \in {"reuse_load", "load_old", "load_new"} => j.answer # NoSchema
    /\ j.pc \in {"reuse_approve", "approve", "block", "refs_read", "refs_write", "org_approve"} =>
          j.answer \in DOMAIN st
    /\ j.pc \in {"load_old", "load_new", "approve", "block"} /\ j.replaced # NoSchema =>
          j.replaced.fields \subseteq j.answer.fields
    /\ j.pc \in {"load_new", "approve", "block"} /\ j.replaced # NoSchema =>
          j.replaced \in DOMAIN st
    /\ j.pc = "block" => j.replaced # NoSchema /\ Settled(st, j.answer)

\* The records before the place a request has reached are in the database.
Reached(j) ==
    IF j.pc = "record" THEN Len(DocOf(j)) ELSE IF j.pc = "ref" THEN j.at ELSE j.at - 1
Saved(j, rs) ==
    j.auto => \A i \in 1..Reached(j) : \E r \in rs : r.id = <<j.file, i>>

BusyInv(j, sh, st, rs) ==
    /\ j \in JobRecord
    /\ InDoc(j) /\ Proposed(j, sh) /\ Located(j, sh) /\ Installed(j, st) /\ Saved(j, rs)
TaskInv(j, sh, st, rs) == j = Idle \/ BusyInv(j, sh, st, rs)

SharedInv ==
    /\ active \in [Desc -> Personal \cup {NoSchema}]
    /\ registered \in Partial(Personal, Personal)
    /\ shared \in Partial(Structure, Schema)
    /\ store \in Partial(Schema, Entry)
    /\ records \subseteq Record
    /\ lock \in Task \cup {NoTask} /\ uploads \subseteq File /\ ingested \subseteq File \X BOOLEAN
    /\ requests \in 0..MaxRequests /\ restarts \in 0..MaxRestarts

JobsInv ==
    /\ job = [t \in Task |-> job[t]]
    /\ \A t \in Task : TaskInv(job[t], DOMAIN shared, store, records)

-----------------------------------------------------------------------------
(* Maps and documents.                                                     *)

(***************************************************************************)
(* The empty map.                                                          *)
(***************************************************************************)
LEMMA PartialEmpty ==
    ASSUME NEW D, NEW V
    PROVE  <<>> \in Partial(D, V) /\ DOMAIN <<>> = {}
<1>1. <<>> \in [{} -> V] /\ DOMAIN <<>> = {}
  OBVIOUS
<1> QED
  BY <1>1 DEF Partial

(***************************************************************************)
(* What a map of Partial(D, V) is.                                         *)
(***************************************************************************)
LEMMA PartialType ==
    ASSUME NEW D, NEW V, NEW f \in Partial(D, V)
    PROVE  /\ DOMAIN f \subseteq D /\ \A x \in DOMAIN f : f[x] \in V
           /\ f = [x \in DOMAIN f |-> f[x]]
BY DEF Partial

(***************************************************************************)
(* A function on some members of D is such a map.                          *)
(***************************************************************************)
LEMMA PartialIntro ==
    ASSUME NEW D, NEW V, NEW A \in SUBSET D, NEW f \in [A -> V]
    PROVE  f \in Partial(D, V)
BY DEF Partial

\* h is f with the entries of g put into it, and f with one entry more.
Joins(h, f, g) ==
    /\ DOMAIN h = DOMAIN f \cup DOMAIN g
    /\ \A x \in DOMAIN g : h[x] = g[x]
    /\ \A x \in DOMAIN f : x \notin DOMAIN g => h[x] = f[x]
Adds(h, f, x, v) ==
    /\ DOMAIN h = DOMAIN f \cup {x}
    /\ h[x] = v
    /\ \A y \in DOMAIN f : y # x => h[y] = f[y]

(***************************************************************************)
(* What Overlay and With compute.                                          *)
(***************************************************************************)
LEMMA OverlayJoins ==
    ASSUME NEW f, NEW g
    PROVE  Joins(Overlay(f, g), f, g)
<1>1. PICK h : h = Overlay(f, g)
  OBVIOUS
<1>2. /\ DOMAIN h = DOMAIN f \cup DOMAIN g
      /\ \A x \in DOMAIN g : h[x] = g[x]
      /\ \A x \in DOMAIN f : x \notin DOMAIN g => h[x] = f[x]
  BY <1>1 DEF Overlay
<1> QED
  BY <1>1, <1>2 DEF Joins

\* With adds one entry.
LEMMA WithAdds ==
    ASSUME NEW f, NEW x, NEW v
    PROVE  Adds(With(f, x, v), f, x, v)
<1>1. PICK g : g = [y \in {x} |-> v]
  OBVIOUS
<1>2. PICK h : h = Overlay(f, g)
  OBVIOUS
<1>3. Joins(h, f, g)
  BY <1>2, OverlayJoins
<1>4. DOMAIN g = {x} /\ g[x] = v
  BY <1>1
<1>5. Adds(h, f, x, v)
  BY <1>3, <1>4 DEF Joins, Adds
<1> QED
  BY <1>1, <1>2, <1>5 DEF With

(***************************************************************************)
(* Both keep the types.                                                    *)
(***************************************************************************)
LEMMA OverlayType ==
    ASSUME NEW D, NEW V, NEW f \in Partial(D, V), NEW g \in Partial(D, V)
    PROVE  Overlay(f, g) \in Partial(D, V)
<1> DEFINE A == DOMAIN f \cup DOMAIN g
           Val(x) == IF x \in DOMAIN g THEN g[x] ELSE f[x]
<1>1. A \subseteq D /\ \A x \in A : Val(x) \in V
  BY PartialType
<1>2. Overlay(f, g) = [x \in A |-> Val(x)]
  BY DEF Overlay
<1> HIDE DEF A, Val
<1>3. Overlay(f, g) \in [A -> V]
  BY <1>1, <1>2
<1> QED
  BY <1>1, <1>3, PartialIntro

\* With keeps the type of a map.
LEMMA WithType ==
    ASSUME NEW D, NEW V, NEW f \in Partial(D, V), NEW x \in D, NEW v \in V
    PROVE  With(f, x, v) \in Partial(D, V)
<1>1. PICK g : g = [y \in {x} |-> v]
  OBVIOUS
<1>2. g \in Partial(D, V)
  BY <1>1, PartialIntro
<1> QED
  BY <1>1, <1>2, OverlayType DEF With

(***************************************************************************)
(* The records of a document: there is a first top-level item; a child     *)
(* comes before its parent, so the last record is a top-level item; and    *)
(* the items of a flat document are top-level items of one structure.      *)
(***************************************************************************)
LEMMA DocFacts ==
    ASSUME NEW f \in File
    PROVE  LET q == Doc[f].recs IN
           /\ Doc[f].nested \in BOOLEAN
           /\ Len(q) \in Nat \ {0} /\ DOMAIN q = 1..Len(q)
           /\ \A i \in 1..Len(q) : /\ q[i].s \in Structure /\ q[i].field \in RefField /\ q[i].of \in Nat
                                   /\ q[i].of # 0 => i < Len(q) /\ Doc[f].nested
           /\ FirstTop(q) \in 1..Len(q) /\ q[FirstTop(q)].of = 0
           /\ ~ Doc[f].nested => FirstTop(q) = 1 /\ \A i \in 1..Len(q) : q[i].s = q[1].s
<1> DEFINE q == Doc[f].recs
           Top == {i \in DOMAIN q : q[i].of = 0}
<1>1. /\ Doc[f].nested \in BOOLEAN
      /\ q \in Seq([s : Structure, of : Nat, field : RefField])
      /\ \E i \in DOMAIN q : q[i].of = 0
      /\ \A i \in DOMAIN q :
               LET p == q[i].of IN
               IF p = 0
               THEN \A j \in DOMAIN q : q[j].of = 0 => q[j].s = q[i].s
               ELSE /\ Doc[f].nested /\ p > i /\ p \in DOMAIN q /\ q[p].of = 0
  BY DocAssumption
<1> HIDE DEF q
<1>2. /\ Len(q) \in Nat /\ DOMAIN q = 1..Len(q)
      /\ \A i \in 1..Len(q) : q[i] \in [s : Structure, of : Nat, field : RefField]
  <2>1. PICK T : T = [s : Structure, of : Nat, field : RefField]
    OBVIOUS
  <2>2. q \in Seq(T)
    BY <1>1, <2>1
  <2>3. Len(q) \in Nat /\ DOMAIN q = 1..Len(q) /\ \A i \in 1..Len(q) : q[i] \in T
    BY <2>2
  <2> QED
    BY <2>1, <2>3
<1>3. Top \subseteq Nat /\ Top # {}
  BY <1>1, <1>2
<1>4. PICK i \in Top : \A k \in Top : ~ (k < i)
  <2> DEFINE Less == {ss \in Nat \X Nat : ss[1] < ss[2]}
  <2>1. IsWellFoundedOn(Less, Nat)
    BY NatLessThanWellFounded, Zenon DEF OpToRel
  <2>2. \A a, b \in Nat : a < b => <<a, b>> \in Less
    OBVIOUS
  <2> HIDE DEF Less, Top
  <2>3. PICK m \in Top : \A k \in Top : ~ (<<k, m>> \in Less)
    BY <2>1, <1>3, WFMin
  <2>4. \A k \in Top : ~ (k < m)
    BY <1>3, <2>2, <2>3
  <2> QED
    BY <2>4
<1>5. i \in DOMAIN q /\ q[i].of = 0 /\ \A k \in 1..(i - 1) : q[k].of # 0
  <2>1. i \in 1..Len(q) /\ q[i].of = 0
    BY <1>2
  <2>2. ASSUME NEW k \in 1..(i - 1), q[k].of = 0 PROVE FALSE
    <3>1. k \in Top /\ k < i
      BY <1>2, <2>1, <2>2
    <3> QED
      BY <3>1, <1>4
  <2> QED
    BY <1>2, <2>1, <2>2
<1>6. FirstTop(q) \in DOMAIN q /\ q[FirstTop(q)].of = 0 /\ \A k \in 1..(FirstTop(q) - 1) : q[k].of # 0
  BY <1>5 DEF FirstTop
<1>7. \A k \in 1..Len(q) : q[k].of # 0 => k < Len(q) /\ Doc[f].nested
  BY <1>1, <1>2
<1>8. ~ Doc[f].nested => FirstTop(q) = 1 /\ \A k \in 1..Len(q) : q[k].s = q[1].s
  <2> SUFFICES ASSUME ~ Doc[f].nested PROVE FirstTop(q) = 1 /\ \A k \in 1..Len(q) : q[k].s = q[1].s
    OBVIOUS
  <2>1. \A k \in 1..Len(q) : q[k].of = 0
    BY <1>7
  <2>2. 1 \in 1..Len(q)
    BY <1>2, <1>6
  <2>3. FirstTop(q) = 1
    BY <1>2, <1>6, <2>1, <2>2
  <2> QED
    BY <1>1, <1>2, <2>1, <2>2, <2>3
<1> QED
  BY <1>1, <1>2, <1>6, <1>7, <1>8 DEF q

-----------------------------------------------------------------------------
(* One request moves, the others keep what they hold.                      *)

\* The store loses no schema, and none that is approved or blocked becomes
\* merely available again.
Grown(st, st2) ==
    /\ DOMAIN st \subseteq DOMAIN st2
    /\ \A s \in DOMAIN st : Settled(st, s) => Settled(st2, s)

Kept(rs, rs2) == \A r \in rs : \E q \in rs2 : q.id = r.id

(***************************************************************************)
(* A request that does not move is not disturbed.                          *)
(***************************************************************************)
LEMMA BusyKept ==
    ASSUME NEW j, NEW sh, NEW st, NEW rs, NEW sh2, NEW st2, NEW rs2,
           BusyInv(j, sh, st, rs),
           sh \subseteq sh2, Grown(st, st2), Kept(rs, rs2)
    PROVE  BusyInv(j, sh2, st2, rs2)
<1>1. j \in JobRecord /\ InDoc(j)
  BY DEF BusyInv
<1>2. \A s : Has(j, sh, s) => Has(j, sh2, s)
  BY DEF Has
<1>3. Proposed(j, sh2)
  BY <1>2 DEF BusyInv, Proposed
<1>4. Located(j, sh2)
  BY <1>2 DEF BusyInv, Located
<1>5. Installed(j, st2)
  <2>1. \A s : s \in DOMAIN st => s \in DOMAIN st2
    BY DEF Grown
  <2>2. \A s : Settled(st, s) => Settled(st2, s)
    BY DEF Grown, Settled
  <2> QED
    BY <2>1, <2>2 DEF BusyInv, Installed
<1>6. Saved(j, rs2)
  BY DEF BusyInv, Saved, Kept
<1> QED
  BY <1>1, <1>3, <1>4, <1>5, <1>6 DEF BusyInv

(***************************************************************************)
(* A step of one request.                                                  *)
(***************************************************************************)
LEMMA OneTaskMoves ==
    ASSUME JobsInv, NEW t \in Task, NEW v, job' = [job EXCEPT ![t] = v],
           DOMAIN shared \subseteq DOMAIN shared', Grown(store, store'), Kept(records, records'),
           TaskInv(v, DOMAIN shared', store', records')
    PROVE  JobsInv'
<1>1. job' = [u \in Task |-> IF u = t THEN v ELSE job[u]]
  BY DEF JobsInv
<1>2. job' = [u \in Task |-> job'[u]]
  BY <1>1
<1>3. ASSUME NEW u \in Task PROVE TaskInv(job'[u], DOMAIN shared', store', records')
  <2>1. CASE u = t
    BY <1>1, <2>1
  <2>2. CASE u # t
    <3>1. job'[u] = job[u] /\ TaskInv(job[u], DOMAIN shared, store, records)
      BY <1>1, <2>2 DEF JobsInv
    <3>2. PICK j : j = job[u]
      OBVIOUS
    <3>3. CASE j = Idle
      BY <3>1, <3>2, <3>3 DEF TaskInv
    <3>4. CASE BusyInv(j, DOMAIN shared, store, records)
      BY <3>1, <3>2, <3>4, BusyKept DEF TaskInv
    <3> QED
      BY <3>1, <3>2, <3>3, <3>4 DEF TaskInv
  <2> QED
    BY <2>1, <2>2
<1> QED
  BY <1>2, <1>3 DEF JobsInv

-----------------------------------------------------------------------------
(* What each move of a request needs.                                      *)

(***************************************************************************)
(* A request that only changes its place keeps the rest.                   *)
(***************************************************************************)
LEMMA GotoFields ==
    ASSUME NEW j \in JobRecord, NEW pc \in PC \ {"idle"}, NEW v, v = [j EXCEPT !.pc = pc]
    PROVE  /\ v \in JobRecord /\ v.pc = pc /\ v.file = j.file /\ v.org = j.org /\ v.auto = j.auto
           /\ v.props = j.props /\ v.match = j.match /\ v.local = j.local /\ v.todo = j.todo
           /\ v.answer = j.answer /\ v.replaced = j.replaced /\ v.meta = j.meta
           /\ v.at = j.at /\ v.refs = j.refs /\ v.writing = j.writing
BY DEF JobRecord

\* Where a request may go without doing anything else, and what must hold.
Hop(j, pc, st, rs) ==
    \/ j.pc = "store" /\ pc = "dedup"
    \/ j.pc = "dedup" /\ pc = "collect"
    \/ j.pc = "reuse_load" /\ pc = "reuse_approve" /\ j.answer \in DOMAIN st
    \/ /\ j.pc = "load_old" /\ pc = "load_new"
       /\ j.replaced # NoSchema => j.replaced \in DOMAIN st
    \/ j.pc = "load_new" /\ pc = "approve" /\ j.answer \in DOMAIN st
    \/ j.pc = "approve" /\ pc = "block" /\ j.replaced # NoSchema /\ Settled(st, j.answer)
    \/ j.pc = "resolve" /\ pc \in {"write", "org"} /\ j.todo = <<>>
    \/ j.pc = "org_approve" /\ pc = "org"
    \/ /\ j.pc = "write" /\ pc = "record"
       /\ j.auto => \A i \in 1..Len(DocOf(j)) : \E r \in rs : r.id = <<j.file, i>>

(***************************************************************************)
(* Such a hop keeps the invariant.                                         *)
(***************************************************************************)
LEMMA HopInv ==
    ASSUME NEW j, NEW sh, NEW st, NEW rs, BusyInv(j, sh, st, rs),
           NEW pc, Hop(j, pc, st, rs), NEW v, v = [j EXCEPT !.pc = pc]
    PROVE  BusyInv(v, sh, st, rs)
<1>1. pc \in PC \ {"idle"} /\ pc # "reuse" /\ pc # "ref" /\ pc \notin {"refs_read", "refs_write"}
  BY DEF Hop, PC
<1>2. /\ v \in JobRecord /\ v.pc = pc /\ v.file = j.file /\ v.org = j.org /\ v.auto = j.auto
      /\ v.props = j.props /\ v.match = j.match /\ v.local = j.local /\ v.todo = j.todo
      /\ v.answer = j.answer /\ v.replaced = j.replaced /\ v.meta = j.meta
      /\ v.at = j.at /\ v.refs = j.refs /\ v.writing = j.writing
  BY <1>1, GotoFields DEF BusyInv
<1>3. DocOf(v) = DocOf(j) /\ Nested(v) = Nested(j)
  BY <1>2 DEF DocOf, Nested
<1>4. InDoc(v)
  BY <1>2, <1>3 DEF BusyInv, InDoc
<1>5. pc \in Resolving => j.pc \in Resolving \ {"resolve"}
  BY DEF Hop, Resolving
<1>6. Proposed(v, sh)
  BY <1>1, <1>2, <1>3, <1>5 DEF BusyInv, Proposed, Has
<1>7. Located(v, sh)
  <2>1. ~ Nested(j) /\ pc \in {"org", "org_approve", "write"} => DocOf(j)[1].s \in DOMAIN j.local
    <3>1. CASE j.pc = "resolve"
      <4>1. j.todo = <<>> \/ pc \notin {"org", "org_approve", "write"}
        BY <3>1 DEF Hop
      <4>2. j.pc \in Resolving /\ Located(j, sh)
        BY <3>1 DEF Resolving, BusyInv
      <4>3. <<>> # <<1>>
        OBVIOUS
      <4> QED
        BY <4>1, <4>2, <4>3 DEF Located
    <3>2. CASE j.pc = "org_approve"
      BY <3>2 DEF BusyInv, Located
    <3> QED
      BY <3>1, <3>2 DEF Hop
  <2>2. ~ Nested(j) /\ pc \in Resolving =>
           j.todo = <<1>> \/ (j.todo = <<>> /\ DocOf(j)[1].s \in DOMAIN j.local)
    BY <1>5 DEF BusyInv, Located
  <2> QED
    BY <1>1, <1>2, <1>3, <2>1, <2>2 DEF Located
<1>8. Installed(v, st)
  <2>1. /\ pc = "reuse_approve" => j.pc = "reuse_load" /\ j.answer \in DOMAIN st
        /\ pc = "load_new" => j.pc = "load_old" /\ (j.replaced # NoSchema => j.replaced \in DOMAIN st)
        /\ pc = "approve" => j.pc = "load_new" /\ j.answer \in DOMAIN st
        /\ pc = "block" => j.pc = "approve" /\ j.replaced # NoSchema /\ Settled(st, j.answer)
        /\ pc \notin {"reuse_load", "load_old", "org_approve"}
    BY DEF Hop
  <2> QED
    BY <1>1, <1>2, <2>1 DEF BusyInv, Installed
<1>9. Saved(v, rs)
  <2>1. CASE pc = "record"
    <3>1. Reached(v) = Len(DocOf(j))
      BY <1>2, <1>3, <2>1 DEF Reached
    <3> QED
      BY <1>2, <2>1, <3>1 DEF Hop, Saved
  <2>2. CASE pc # "record"
    <3>1. j.pc # "record" /\ j.pc # "ref"
      BY DEF Hop
    <3>2. Reached(v) = Reached(j)
      BY <1>1, <1>2, <1>3, <2>2, <3>1 DEF Reached
    <3> QED
      BY <1>2, <3>2 DEF BusyInv, Saved
  <2> QED
    BY <2>1, <2>2
<1> QED
  BY <1>2, <1>4, <1>6, <1>7, <1>8, <1>9 DEF BusyInv

(***************************************************************************)
(* The document of a request.                                              *)
(***************************************************************************)
LEMMA RequestDoc ==
    ASSUME NEW j \in JobRecord
    PROVE  LET q == DocOf(j) IN
           /\ Nested(j) \in BOOLEAN
           /\ Len(q) \in Nat \ {0} /\ DOMAIN q = 1..Len(q)
           /\ \A i \in 1..Len(q) : /\ q[i].s \in Structure /\ q[i].field \in RefField /\ q[i].of \in Nat
                                   /\ q[i].of # 0 => i < Len(q) /\ Nested(j)
           /\ FirstTop(q) \in 1..Len(q) /\ q[FirstTop(q)].of = 0
           /\ ~ Nested(j) => FirstTop(q) = 1 /\ \A i \in 1..Len(q) : q[i].s = q[1].s
<1>1. j.file \in File
  BY DEF JobRecord
<1> QED
  BY <1>1, DocFacts DEF DocOf, Nested

(***************************************************************************)
(* collect_ai_proposals_recursive: the proposals are in.                   *)
(***************************************************************************)
LEMMA CollectInv ==
    ASSUME NEW j, NEW sh, NEW st, NEW rs, BusyInv(j, sh, st, rs), j.pc = "collect",
           NEW props \in Partial(Structure, Personal), NEW pc, NEW todo,
           IF Nested(j)
           THEN /\ pc = "reuse" /\ todo = <<>>
                /\ \/ Has(j, sh, DocOf(j)[FirstTop(DocOf(j))].s)
                   \/ \A i \in 1..FirstTop(DocOf(j)) : \/ Has(j, sh, DocOf(j)[i].s)
                                                       \/ DocOf(j)[i].s \in DOMAIN props
           ELSE pc = "resolve" /\ todo = << 1 >> /\ DocOf(j)[1].s \in DOMAIN props,
           NEW v, v = [j EXCEPT !.props = props, !.todo = todo, !.pc = pc]
    PROVE  BusyInv(v, sh, st, rs)
<1>0. j \in JobRecord
  BY DEF BusyInv
<1>1. todo \in Seq(1..Len(DocOf(j))) /\ todo \in Seq(Nat) /\ pc \in PC \ {"idle"}
  <2>1. Len(DocOf(j)) \in Nat \ {0}
    BY <1>0, RequestDoc
  <2>2. 1 \in 1..Len(DocOf(j))
    BY <2>1
  <2>3. <<>> \in Seq(1..Len(DocOf(j))) /\ <<1>> \in Seq(1..Len(DocOf(j)))
        /\ <<>> \in Seq(Nat) /\ <<1>> \in Seq(Nat)
    BY <2>2
  <2> QED
    BY <2>3 DEF PC
<1>2. /\ v \in JobRecord /\ v.pc = pc /\ v.file = j.file /\ v.auto = j.auto
      /\ v.props = props /\ v.local = j.local /\ v.todo = todo
      /\ v.answer = j.answer /\ v.replaced = j.replaced /\ v.at = j.at
  BY <1>0, <1>1 DEF JobRecord
<1>3. DocOf(v) = DocOf(j) /\ Nested(v) = Nested(j)
  BY <1>2 DEF DocOf, Nested
<1>4. InDoc(v)
  BY <1>1, <1>2, <1>3 DEF BusyInv, InDoc
<1>5. pc \in {"reuse", "resolve"}
  OBVIOUS
<1>6. Proposed(v, sh)
  <2>1. CASE Nested(j)
    BY <1>2, <1>3, <2>1 DEF Proposed, Has, Resolving
  <2>2. CASE ~ Nested(j)
    <3>1. Len(todo) = 1 /\ todo[1] = 1 /\ pc = "resolve"
      BY <2>2
    <3>2. \A k \in 1..1 : DocOf(v)[v.todo[k]].s \in DOMAIN v.props
      BY <1>2, <1>3, <2>2, <3>1
    <3> QED
      BY <1>2, <3>1, <3>2 DEF Proposed
  <2> QED
    BY <2>1, <2>2
<1>7. Located(v, sh)
  BY <1>2, <1>3, <1>5 DEF Located, Resolving
<1>8. Installed(v, st)
  BY <1>2, <1>5 DEF BusyInv, Installed
<1>9. Saved(v, rs)
  <2>1. Reached(v) = Reached(j)
    BY <1>2, <1>3, <1>5 DEF Reached
  <2> QED
    BY <1>2, <2>1 DEF BusyInv, Saved
<1> QED
  BY <1>2, <1>4, <1>6, <1>7, <1>8, <1>9 DEF BusyInv

(***************************************************************************)
(* batch_check_schema_reuse: the matches are in.                           *)
(***************************************************************************)
LEMMA ReuseInv ==
    ASSUME NEW j, NEW sh, NEW st, NEW rs, BusyInv(j, sh, st, rs), j.pc = "reuse",
           NEW match \in Partial(Structure, Personal), NEW todo,
           todo = IF Has(j, sh, DocOf(j)[FirstTop(DocOf(j))].s) THEN <<>>
                  ELSE [i \in 1..FirstTop(DocOf(j)) |-> i],
           NEW v, v = [j EXCEPT !.match = match, !.todo = todo, !.pc = "resolve"]
    PROVE  BusyInv(v, sh, st, rs)
<1>0. j \in JobRecord
  BY DEF BusyInv
<1>q. PICK q, n : q = DocOf(j) /\ n = FirstTop(q)
  OBVIOUS
<1>n. n \in 1..Len(q) /\ Len(q) \in Nat \ {0}
  BY <1>0, <1>q, RequestDoc
<1>t. PICK all : all = [i \in 1..n |-> i]
  OBVIOUS
<1>s. all \in Seq(1..Len(q)) /\ all \in Seq(Nat) /\ Len(all) = n /\ \A i \in 1..n : all[i] = i
  <2>1. all \in [1..n -> 1..Len(q)] /\ all \in [1..n -> Nat]
    BY <1>t, <1>n
  <2> QED
    BY <2>1, <1>t, <1>n
<1>1. todo \in Seq(1..Len(q)) /\ todo \in Seq(Nat) /\ "resolve" \in PC \ {"idle"}
  <2>1. <<>> \in Seq(1..Len(q)) /\ <<>> \in Seq(Nat)
    OBVIOUS
  <2> QED
    BY <1>s, <1>t, <1>q, <2>1 DEF PC
<1>2. /\ v \in JobRecord /\ v.pc = "resolve" /\ v.file = j.file /\ v.auto = j.auto
      /\ v.props = j.props /\ v.local = j.local /\ v.todo = todo
      /\ v.answer = j.answer /\ v.replaced = j.replaced /\ v.at = j.at
  BY <1>0, <1>1 DEF JobRecord
<1>3. DocOf(v) = q /\ Nested(v) = Nested(j)
  BY <1>2, <1>q DEF DocOf, Nested
<1>4. InDoc(v)
  BY <1>1, <1>2, <1>3, <1>q DEF BusyInv, InDoc
<1>6. Proposed(v, sh)
  <2>1. CASE Has(j, sh, q[n].s)
    <3>1. todo = <<>> /\ Len(todo) = 0
      BY <1>q, <2>1
    <3>2. Len(v.todo) = 0
      BY <1>2, <3>1
    <3>3. \A k \in 1..0 : FALSE
      OBVIOUS
    <3> QED
      BY <1>2, <3>2, <3>3 DEF Proposed
  <2>2. CASE ~ Has(j, sh, q[n].s)
    <3>1. todo = all
      BY <1>q, <1>t, <2>2
    <3>2. \A i \in 1..n : Has(j, sh, q[i].s) \/ q[i].s \in DOMAIN j.props
      BY <1>q, <2>2 DEF BusyInv, Proposed
    <3>3. q[n].s \in DOMAIN j.props
      BY <1>n, <2>2, <3>2
    <3>4. \A k \in 1..n : \/ q[all[k]].s \in DOMAIN v.props
                          \/ k < n /\ Has(v, sh, q[all[k]].s)
      <4> SUFFICES ASSUME NEW k \in 1..n PROVE q[k].s \in DOMAIN j.props \/ (k < n /\ Has(j, sh, q[k].s))
        BY <1>2, <1>s DEF Has
      <4>1. CASE k = n
        BY <3>3, <4>1
      <4>2. CASE k # n
        BY <1>n, <3>2, <4>2
      <4> QED
        BY <4>1, <4>2
    <3> QED
      BY <1>2, <1>3, <1>s, <3>1, <3>4 DEF Proposed
  <2> QED
    BY <2>1, <2>2
<1>7. Located(v, sh)
  <2>1. Nested(j)
    BY DEF BusyInv, Located
  <2> QED
    BY <1>2, <1>3, <2>1 DEF Located
<1>8. Installed(v, st)
  BY <1>2 DEF BusyInv, Installed
<1>9. Saved(v, rs)
  <2>1. Reached(v) = Reached(j)
    BY <1>2, <1>3, <1>q DEF Reached
  <2> QED
    BY <1>2, <2>1 DEF BusyInv, Saved
<1> QED
  BY <1>2, <1>4, <1>6, <1>7, <1>8, <1>9 DEF BusyInv

(***************************************************************************)
(* What is left of the list after its head was dealt with.                 *)
(***************************************************************************)
LEMMA RestProposed ==
    ASSUME NEW j, NEW sh, NEW st, NEW rs, BusyInv(j, sh, st, rs), j.pc \in Resolving, j.todo # <<>>
    PROVE  LET q == DocOf(j)  rest == Tail(j.todo) IN
           /\ rest \in Seq(1..Len(q)) /\ rest \in Seq(Nat) /\ Head(j.todo) = j.todo[1]
           /\ Head(j.todo) \in 1..Len(q) /\ q[Head(j.todo)].s \in Structure
           /\ \A k \in 1..Len(rest) : \/ q[rest[k]].s \in DOMAIN j.props
                                      \/ k < Len(rest) /\ Has(j, sh, q[rest[k]].s)
<1>1. PICK q, todo, rest : q = DocOf(j) /\ todo = j.todo /\ rest = Tail(j.todo)
  OBVIOUS
<1>2. todo \in Seq(1..Len(q)) /\ todo # <<>>
  BY <1>1 DEF BusyInv, InDoc
<1>3. /\ Head(todo) \in 1..Len(q) /\ rest \in Seq(1..Len(q)) /\ Len(rest) = Len(todo) - 1
      /\ \A i \in 1..Len(rest) : rest[i] = todo[i + 1]
  BY <1>1, <1>2, HeadTailProperties
<1>4. Head(todo) = todo[1] /\ Len(todo) \in Nat \ {0}
  BY <1>2
<1>5. \A k \in 1..Len(todo) : \/ q[todo[k]].s \in DOMAIN j.props
                              \/ k < Len(todo) /\ Has(j, sh, q[todo[k]].s)
  BY <1>1 DEF BusyInv, Proposed
<1>6. \A k \in 1..Len(rest) : \/ q[rest[k]].s \in DOMAIN j.props
                              \/ k < Len(rest) /\ Has(j, sh, q[rest[k]].s)
  <2> SUFFICES ASSUME NEW k \in 1..Len(rest)
               PROVE  \/ q[rest[k]].s \in DOMAIN j.props
                      \/ k < Len(rest) /\ Has(j, sh, q[rest[k]].s)
    OBVIOUS
  <2>1. k + 1 \in 1..Len(todo) /\ rest[k] = todo[k + 1]
    BY <1>3, <1>4
  <2>2. k + 1 < Len(todo) => k < Len(rest)
    BY <1>3, <1>4
  <2> QED
    BY <1>5, <2>1, <2>2
<1>7. rest \in Seq(Nat)
  <2>1. 1..Len(q) \subseteq Nat
    OBVIOUS
  <2> QED
    BY <1>3, <2>1, SeqMonotonic
<1>8. j \in JobRecord
  BY DEF BusyInv
<1>9. q[Head(todo)].s \in Structure
  BY <1>1, <1>3, <1>8, RequestDoc
<1> QED
  BY <1>1, <1>3, <1>4, <1>6, <1>7, <1>9

(***************************************************************************)
(* A cached child structure is skipped.                                    *)
(***************************************************************************)
LEMMA SkipInv ==
    ASSUME NEW j, NEW sh, NEW st, NEW rs, BusyInv(j, sh, st, rs),
           j.pc = "resolve", j.todo # <<>>, Len(j.todo) > 1,
           NEW v, v = [j EXCEPT !.todo = Tail(j.todo)]
    PROVE  BusyInv(v, sh, st, rs)
<1>0. j \in JobRecord /\ j.pc \in Resolving
  BY DEF BusyInv, Resolving
<1>1. PICK rest : rest = Tail(j.todo)
  OBVIOUS
<1>r. /\ rest \in Seq(1..Len(DocOf(j))) /\ rest \in Seq(Nat)
      /\ \A k \in 1..Len(rest) : \/ DocOf(j)[rest[k]].s \in DOMAIN j.props
                                 \/ k < Len(rest) /\ Has(j, sh, DocOf(j)[rest[k]].s)
  BY <1>0, <1>1, RestProposed
<1>2. /\ v \in JobRecord /\ v.pc = "resolve" /\ v.file = j.file /\ v.auto = j.auto
      /\ v.props = j.props /\ v.local = j.local /\ v.todo = rest
      /\ v.answer = j.answer /\ v.replaced = j.replaced /\ v.at = j.at
  BY <1>0, <1>1, <1>r DEF JobRecord
<1>3. DocOf(v) = DocOf(j) /\ Nested(v) = Nested(j)
  BY <1>2 DEF DocOf, Nested
<1>4. InDoc(v)
  BY <1>2, <1>3, <1>r DEF BusyInv, InDoc
<1>6. Proposed(v, sh)
  BY <1>2, <1>3, <1>r DEF Proposed, Has
<1>7. Located(v, sh)
  <2>1. Nested(j)
    <3>1. Len(<<1>>) = 1 /\ Len(<<>>) = 0
      OBVIOUS
    <3>2. ~ Nested(j) => j.todo = <<1>> \/ j.todo = <<>>
      BY <1>0 DEF BusyInv, Located
    <3>3. j.todo # <<1>> /\ j.todo # <<>>
      <4>1. ~ (Len(<<1>>) > 1) /\ ~ (Len(<<>>) > 1)
        BY <3>1
      <4> QED
        BY <4>1
    <3> QED
      BY <3>2, <3>3
  <2> QED
    BY <1>2, <1>3, <2>1 DEF Located
<1>8. Installed(v, st)
  BY <1>2 DEF BusyInv, Installed
<1>9. Saved(v, rs)
  <2>1. Reached(v) = Reached(j)
    BY <1>2, <1>3 DEF Reached
  <2> QED
    BY <1>2, <2>1 DEF BusyInv, Saved
<1> QED
  BY <1>2, <1>4, <1>6, <1>7, <1>8, <1>9 DEF BusyInv

(***************************************************************************)
(* SchemaCache::insert: the structure at hand got a schema of the node.    *)
(***************************************************************************)
LEMMA ResolvedInv ==
    ASSUME NEW j, NEW sh, NEW st, NEW rs, BusyInv(j, sh, st, rs),
           j.pc \in Resolving, j.todo # <<>>,
           NEW s \in Schema, s \in DOMAIN st, NEW leaf \in BOOLEAN,
           NEW v, v = [j EXCEPT !.local = With(j.local, DocOf(j)[Head(j.todo)].s, s),
                                !.answer = s,
                                !.todo = IF leaf THEN Tail(j.todo) ELSE j.todo,
                                !.pc = IF leaf THEN "resolve" ELSE "refs_read"]
    PROVE  BusyInv(v, sh, st, rs)
<1>0. j \in JobRecord /\ j.local \in Partial(Structure, Schema) /\ j.todo \in Seq(1..Len(DocOf(j)))
      /\ j.todo \in Seq(Nat)
  BY DEF BusyInv, JobRecord, InDoc
<1>1. PICK rest, c, local, todo, pc :
         /\ rest = Tail(j.todo) /\ c = DocOf(j)[Head(j.todo)].s
         /\ local = With(j.local, c, s)
         /\ todo = IF leaf THEN rest ELSE j.todo
         /\ pc = IF leaf THEN "resolve" ELSE "refs_read"
  OBVIOUS
<1>r. /\ rest \in Seq(1..Len(DocOf(j))) /\ rest \in Seq(Nat) /\ c \in Structure
      /\ Head(j.todo) = j.todo[1]
      /\ \A k \in 1..Len(rest) : \/ DocOf(j)[rest[k]].s \in DOMAIN j.props
                                 \/ k < Len(rest) /\ Has(j, sh, DocOf(j)[rest[k]].s)
  BY <1>0, <1>1, RestProposed
<1>l. /\ local \in Partial(Structure, Schema) /\ DOMAIN local = DOMAIN j.local \cup {c}
      /\ local[c] = s /\ \A y \in DOMAIN j.local : y # c => local[y] = j.local[y]
  <2>1. local \in Partial(Structure, Schema)
    BY <1>0, <1>1, <1>r, WithType
  <2>2. Adds(local, j.local, c, s)
    BY <1>1, WithAdds
  <2> QED
    BY <2>1, <2>2 DEF Adds
<1>p. pc \in PC \ {"idle"} /\ pc \in {"resolve", "refs_read"} /\ pc \in Resolving
  BY <1>1 DEF PC, Resolving
<1>t. todo \in Seq(1..Len(DocOf(j))) /\ todo \in Seq(Nat)
  BY <1>0, <1>1, <1>r
<1>v. v = [j EXCEPT !.local = local, !.answer = s, !.todo = todo, !.pc = pc]
  BY <1>1
<1>2. /\ v \in JobRecord /\ v.pc = pc /\ v.file = j.file /\ v.auto = j.auto
      /\ v.props = j.props /\ v.local = local /\ v.todo = todo
      /\ v.answer = s /\ v.replaced = j.replaced /\ v.at = j.at
  BY <1>0, <1>l, <1>p, <1>t, <1>v DEF JobRecord
<1>3. DocOf(v) = DocOf(j) /\ Nested(v) = Nested(j)
  BY <1>2 DEF DocOf, Nested
<1>4. InDoc(v)
  BY <1>2, <1>3, <1>t DEF BusyInv, InDoc
<1>5. \A x : Has(j, sh, x) => Has(v, sh, x)
  BY <1>2, <1>l DEF Has
<1>6. Proposed(v, sh)
  <2>1. \A k \in 1..Len(todo) : \/ DocOf(j)[todo[k]].s \in DOMAIN j.props
                                \/ k < Len(todo) /\ Has(j, sh, DocOf(j)[todo[k]].s)
    <3>1. CASE leaf
      BY <1>1, <1>r, <3>1
    <3>2. CASE ~ leaf
      BY <1>1, <3>2 DEF BusyInv, Proposed
    <3> QED
      BY <3>1, <3>2
  <2>2. pc # "resolve" => todo # <<>>
    BY <1>1
  <2> QED
    BY <1>2, <1>3, <1>5, <1>p, <2>1, <2>2 DEF Proposed
<1>7. Located(v, sh)
  <2>1. pc = "refs_read" => DocOf(j)[Head(todo)].s \in DOMAIN local
    BY <1>1, <1>l
  <2>2. ~ Nested(j) => todo = <<1>> \/ (todo = <<>> /\ DocOf(j)[1].s \in DOMAIN local)
    <3> SUFFICES ASSUME ~ Nested(j) PROVE todo = <<1>> \/ (todo = <<>> /\ DocOf(j)[1].s \in DOMAIN local)
      OBVIOUS
    <3>1. j.todo = <<1>>
      BY DEF BusyInv, Located
    <3>2. Head(<<1>>) = 1 /\ Tail(<<1>>) = <<>>
      OBVIOUS
    <3>3. c = DocOf(j)[1].s /\ rest = <<>>
      BY <1>1, <3>1, <3>2
    <3> QED
      BY <1>1, <1>l, <3>1, <3>3
  <2> QED
    BY <1>2, <1>3, <1>p, <2>1, <2>2 DEF Located
<1>8. Installed(v, st)
  <2>1. \A x \in DOMAIN local : local[x] \in DOMAIN st
    BY <1>l DEF BusyInv, Installed
  <2> QED
    BY <1>2, <1>p, <2>1 DEF Installed
<1>9. Saved(v, rs)
  <2>1. Reached(v) = Reached(j)
    BY <1>2, <1>3, <1>p DEF Reached, Resolving
  <2> QED
    BY <1>2, <2>1 DEF BusyInv, Saved
<1> QED
  BY <1>2, <1>4, <1>6, <1>7, <1>8, <1>9 DEF BusyInv

(***************************************************************************)
(* An answer to act on: a match the node lacks (UseMatch), the answer of   *)
(* the service (AddToService), a copy for an organisation (OrgLoad).       *)
(***************************************************************************)
LEMMA AnswerInv ==
    ASSUME NEW j, NEW sh, NEW st, NEW rs, BusyInv(j, sh, st, rs),
           NEW s \in Schema, NEW old \in Schema \cup {NoSchema}, NEW pc,
           \/ j.pc = "resolve" /\ j.todo # <<>> /\ pc = "reuse_load"
           \/ /\ j.pc = "resolve" /\ j.todo # <<>> /\ pc = "load_old"
              /\ old # NoSchema => old.fields \subseteq s.fields
           \/ j.pc = "org" /\ pc = "org_approve" /\ s \in DOMAIN st,
           NEW v, v = [j EXCEPT !.answer = s, !.replaced = old, !.pc = pc]
    PROVE  BusyInv(v, sh, st, rs)
<1>0. j \in JobRecord /\ pc \in PC \ {"idle"} /\ s # NoSchema
  BY NoValueAssumption DEF BusyInv, PC
<1>2. /\ v \in JobRecord /\ v.pc = pc /\ v.file = j.file /\ v.auto = j.auto
      /\ v.props = j.props /\ v.local = j.local /\ v.todo = j.todo
      /\ v.answer = s /\ v.replaced = old /\ v.at = j.at
  BY <1>0 DEF JobRecord
<1>3. DocOf(v) = DocOf(j) /\ Nested(v) = Nested(j)
  BY <1>2 DEF DocOf, Nested
<1>4. InDoc(v)
  BY <1>2, <1>3 DEF BusyInv, InDoc
<1>5. pc \in {"reuse_load", "load_old", "org_approve"}
      /\ (pc \in Resolving => j.pc = "resolve" /\ j.pc \in Resolving /\ j.todo # <<>>)
      /\ (pc = "org_approve" => j.pc = "org")
  BY DEF Resolving
<1>6. Proposed(v, sh)
  BY <1>2, <1>3, <1>5 DEF BusyInv, Proposed, Has
<1>7. Located(v, sh)
  BY <1>2, <1>3, <1>5 DEF BusyInv, Located
<1>8. Installed(v, st)
  BY <1>0, <1>2 DEF BusyInv, Installed
<1>9. Saved(v, rs)
  <2>1. Reached(v) = Reached(j)
    BY <1>2, <1>3, <1>5 DEF Reached
  <2> QED
    BY <1>2, <2>1 DEF BusyInv, Saved
<1> QED
  BY <1>2, <1>4, <1>6, <1>7, <1>8, <1>9 DEF BusyInv

(***************************************************************************)
(* update_ref_fields read the metadata.                                    *)
(***************************************************************************)
LEMMA ReadRefsInv ==
    ASSUME NEW j, NEW sh, NEW st, NEW rs, BusyInv(j, sh, st, rs), j.pc = "refs_read",
           NEW meta \in SUBSET RefField,
           NEW v, v = [j EXCEPT !.meta = meta, !.pc = "refs_write"]
    PROVE  BusyInv(v, sh, st, rs)
<1>0. j \in JobRecord /\ "refs_write" \in PC \ {"idle"}
  BY DEF BusyInv, PC
<1>2. /\ v \in JobRecord /\ v.pc = "refs_write" /\ v.file = j.file /\ v.auto = j.auto
      /\ v.props = j.props /\ v.local = j.local /\ v.todo = j.todo
      /\ v.answer = j.answer /\ v.replaced = j.replaced /\ v.at = j.at
  BY <1>0 DEF JobRecord
<1>3. DocOf(v) = DocOf(j) /\ Nested(v) = Nested(j) /\ {v.pc, j.pc} \subseteq Resolving
  BY <1>2 DEF DocOf, Nested, Resolving
<1>4. InDoc(v)
  BY <1>2, <1>3 DEF BusyInv, InDoc
<1>6. Proposed(v, sh)
  BY <1>2, <1>3 DEF BusyInv, Proposed, Has
<1>7. Located(v, sh)
  BY <1>2, <1>3 DEF BusyInv, Located
<1>8. Installed(v, st)
  BY <1>2 DEF BusyInv, Installed
<1>9. Saved(v, rs)
  <2>1. Reached(v) = Reached(j)
    BY <1>2, <1>3 DEF Reached
  <2> QED
    BY <1>2, <2>1 DEF BusyInv, Saved
<1> QED
  BY <1>2, <1>4, <1>6, <1>7, <1>8, <1>9 DEF BusyInv

(***************************************************************************)
(* update_ref_fields wrote the schema back: on to the next structure.      *)
(***************************************************************************)
LEMMA WroteRefsInv ==
    ASSUME NEW j, NEW sh, NEW st, NEW rs, BusyInv(j, sh, st, rs), j.pc = "refs_write",
           NEW v, v = [j EXCEPT !.todo = Tail(j.todo), !.pc = "resolve"]
    PROVE  BusyInv(v, sh, st, rs)
<1>0. j \in JobRecord /\ "resolve" \in PC \ {"idle"} /\ {"resolve", j.pc} \subseteq Resolving
      /\ j.todo # <<>>
  BY DEF BusyInv, PC, Resolving, Proposed
<1>1. PICK rest : rest = Tail(j.todo)
  OBVIOUS
<1>r. /\ rest \in Seq(1..Len(DocOf(j))) /\ rest \in Seq(Nat)
      /\ \A k \in 1..Len(rest) : \/ DocOf(j)[rest[k]].s \in DOMAIN j.props
                                 \/ k < Len(rest) /\ Has(j, sh, DocOf(j)[rest[k]].s)
  BY <1>0, <1>1, RestProposed
<1>2. /\ v \in JobRecord /\ v.pc = "resolve" /\ v.file = j.file /\ v.auto = j.auto
      /\ v.props = j.props /\ v.local = j.local /\ v.todo = rest
      /\ v.answer = j.answer /\ v.replaced = j.replaced /\ v.at = j.at
  BY <1>0, <1>1, <1>r DEF JobRecord
<1>3. DocOf(v) = DocOf(j) /\ Nested(v) = Nested(j)
  BY <1>2 DEF DocOf, Nested
<1>4. InDoc(v)
  BY <1>2, <1>3, <1>r DEF BusyInv, InDoc
<1>6. Proposed(v, sh)
  BY <1>2, <1>3, <1>r DEF Proposed, Has
<1>7. Located(v, sh)
  <2>1. ~ Nested(j) => rest = <<>> /\ DocOf(j)[1].s \in DOMAIN j.local
    <3> SUFFICES ASSUME ~ Nested(j) PROVE rest = <<>> /\ DocOf(j)[1].s \in DOMAIN j.local
      OBVIOUS
    <3>1. j.todo = <<1>> /\ DocOf(j)[Head(j.todo)].s \in DOMAIN j.local
      BY <1>0 DEF BusyInv, Located
    <3>2. Head(<<1>>) = 1 /\ Tail(<<1>>) = <<>>
      OBVIOUS
    <3> QED
      BY <1>1, <3>1, <3>2
  <2> QED
    BY <1>2, <1>3, <2>1 DEF Located
<1>8. Installed(v, st)
  BY <1>2 DEF BusyInv, Installed
<1>9. Saved(v, rs)
  <2>1. Reached(v) = Reached(j)
    BY <1>2, <1>3 DEF Reached
  <2> QED
    BY <1>2, <2>1 DEF BusyInv, Saved
<1> QED
  BY <1>2, <1>4, <1>6, <1>7, <1>8, <1>9 DEF BusyInv

(***************************************************************************)
(* SchemaCache::commit, after remap_to_org.                                *)
(***************************************************************************)
LEMMA CommitInv ==
    ASSUME NEW j, NEW sh, NEW st, NEW rs, BusyInv(j, sh, st, rs), j.pc = "org",
           NEW local \in Partial(Structure, Schema), DOMAIN local = DOMAIN j.local,
           \A s \in DOMAIN local : local[s] \in DOMAIN st,
           NEW v, v = [j EXCEPT !.local = local, !.writing = TRUE, !.pc = "write"]
    PROVE  BusyInv(v, sh, st, rs)
<1>0. j \in JobRecord /\ "write" \in PC \ {"idle"}
  BY DEF BusyInv, PC
<1>2. /\ v \in JobRecord /\ v.pc = "write" /\ v.file = j.file /\ v.auto = j.auto
      /\ v.props = j.props /\ v.local = local /\ v.todo = j.todo
      /\ v.answer = j.answer /\ v.replaced = j.replaced /\ v.at = j.at
  BY <1>0 DEF JobRecord
<1>3. DocOf(v) = DocOf(j) /\ Nested(v) = Nested(j) /\ v.pc \notin Resolving
  BY <1>2 DEF DocOf, Nested, Resolving
<1>4. InDoc(v)
  BY <1>2, <1>3 DEF BusyInv, InDoc
<1>6. Proposed(v, sh)
  BY <1>2, <1>3 DEF Proposed
<1>7. Located(v, sh)
  BY <1>2, <1>3 DEF BusyInv, Located
<1>8. Installed(v, st)
  BY <1>2 DEF Installed
<1>9. Saved(v, rs)
  <2>1. Reached(v) = Reached(j)
    BY <1>2, <1>3 DEF Reached
  <2> QED
    BY <1>2, <2>1 DEF BusyInv, Saved
<1> QED
  BY <1>2, <1>4, <1>6, <1>7, <1>8, <1>9 DEF BusyInv

(***************************************************************************)
(* ingest_decomposed_item: a record is in the database.  A child goes on   *)
(* to its reference; after a top-level item comes the next record, or the  *)
(* end.                                                                    *)
(***************************************************************************)
LEMMA WroteInv ==
    ASSUME NEW j, NEW sh, NEW st, NEW rs, BusyInv(j, sh, st, rs), j.pc = "write",
           Nested(j), Has(j, sh, DocOf(j)[j.at].s),
           j.auto => \E r \in rs : r.id = <<j.file, j.at>>,
           NEW pc, NEW at,
           pc = IF DocOf(j)[j.at].of # 0 THEN "ref" ELSE IF j.at < Len(DocOf(j)) THEN "write" ELSE "record",
           at = IF pc = "write" THEN j.at + 1 ELSE j.at,
           NEW v, v = [j EXCEPT !.pc = pc, !.at = at]
    PROVE  BusyInv(v, sh, st, rs)
<1>0. j \in JobRecord /\ pc \in PC \ {"idle"} /\ pc \in {"ref", "write", "record"}
  BY DEF BusyInv, PC
<1>q. Len(DocOf(j)) \in Nat \ {0} /\ j.at \in 1..Len(DocOf(j))
  BY <1>0, RequestDoc DEF BusyInv, InDoc
<1>1. at \in 1..Len(DocOf(j)) /\ at \in Nat
  <2>1. CASE pc = "write"
    BY <1>q, <2>1
  <2>2. CASE pc # "write"
    BY <1>q, <2>2
  <2> QED
    BY <2>1, <2>2
<1>2. /\ v \in JobRecord /\ v.pc = pc /\ v.file = j.file /\ v.auto = j.auto
      /\ v.props = j.props /\ v.local = j.local /\ v.todo = j.todo
      /\ v.answer = j.answer /\ v.replaced = j.replaced /\ v.at = at
  BY <1>0, <1>1 DEF JobRecord
<1>3. DocOf(v) = DocOf(j) /\ Nested(v) = Nested(j) /\ v.pc \notin Resolving
  BY <1>0, <1>2 DEF DocOf, Nested, Resolving
<1>4. InDoc(v)
  BY <1>1, <1>2, <1>3 DEF BusyInv, InDoc
<1>6. Proposed(v, sh)
  BY <1>0, <1>2, <1>3 DEF Proposed
<1>7. Located(v, sh)
  <2>1. pc = "ref" => at = j.at /\ DocOf(j)[j.at].of # 0
    OBVIOUS
  <2> QED
    BY <1>0, <1>2, <1>3, <2>1 DEF Located, Has
<1>8. Installed(v, st)
  BY <1>0, <1>2 DEF BusyInv, Installed
<1>9. Saved(v, rs)
  <2>1. Reached(v) = j.at
    <3>1. CASE pc = "ref"
      BY <1>2, <3>1 DEF Reached
    <3>2. CASE pc = "write"
      BY <1>2, <1>q, <3>2 DEF Reached
    <3>3. CASE pc = "record"
      BY <1>2, <1>3, <1>q, <3>3 DEF Reached
    <3> QED
      BY <1>0, <3>1, <3>2, <3>3
  <2>2. Reached(j) = j.at - 1
    BY DEF Reached
  <2>3. j.auto => \A i \in 1..j.at : \E r \in rs : r.id = <<j.file, i>>
    <3> SUFFICES ASSUME j.auto, NEW i \in 1..j.at PROVE \E r \in rs : r.id = <<j.file, i>>
      OBVIOUS
    <3>1. CASE i = j.at
      BY <3>1
    <3>2. CASE i # j.at
      <4>1. i \in 1..Reached(j)
        BY <1>q, <2>2, <3>2
      <4> QED
        BY <4>1 DEF BusyInv, Saved
    <3> QED
      BY <3>1, <3>2
  <2> SUFFICES ASSUME v.auto PROVE \A i \in 1..Reached(v) : \E r \in rs : r.id = <<v.file, i>>
    BY DEF Saved
  <2>4. j.auto
    BY <1>2, Zenon
  <2>5. \A i \in 1..j.at : \E r \in rs : r.id = <<j.file, i>>
    BY <2>3, <2>4, Zenon
  <2> SUFFICES ASSUME NEW i \in 1..Reached(v) PROVE \E r \in rs : r.id = <<v.file, i>>
    OBVIOUS
  <2>6. i \in 1..j.at
    BY <2>1
  <2>7. PICK r \in rs : r.id = <<j.file, i>>
    BY <2>5, <2>6
  <2>8. <<v.file, i>> = <<j.file, i>>
    BY <1>2
  <2> QED
    BY <2>7, <2>8
<1> QED
  BY <1>2, <1>4, <1>6, <1>7, <1>8, <1>9 DEF BusyInv

(***************************************************************************)
(* The reference to a child is built, its parent is still to come.         *)
(***************************************************************************)
LEMMA RefInv ==
    ASSUME NEW j, NEW sh, NEW st, NEW rs, BusyInv(j, sh, st, rs), j.pc = "ref",
           NEW refs \in SUBSET Ref,
           NEW v, v = [j EXCEPT !.refs = refs, !.at = j.at + 1, !.pc = "write"]
    PROVE  BusyInv(v, sh, st, rs)
<1>0. j \in JobRecord /\ "write" \in PC \ {"idle"}
  BY DEF BusyInv, PC
<1>q. Len(DocOf(j)) \in Nat \ {0} /\ j.at \in 1..Len(DocOf(j)) /\ j.at < Len(DocOf(j)) /\ Nested(j)
  <2>1. j.at \in 1..Len(DocOf(j)) /\ DocOf(j)[j.at].of # 0
    BY DEF BusyInv, InDoc, Located
  <2> QED
    BY <1>0, <2>1, RequestDoc
<1>1. PICK at : at = j.at + 1
  OBVIOUS
<1>a. at \in 1..Len(DocOf(j)) /\ at \in Nat
  BY <1>1, <1>q
<1>2. /\ v \in JobRecord /\ v.pc = "write" /\ v.file = j.file /\ v.auto = j.auto
      /\ v.props = j.props /\ v.local = j.local /\ v.todo = j.todo
      /\ v.answer = j.answer /\ v.replaced = j.replaced /\ v.at = at
  BY <1>0, <1>1, <1>a DEF JobRecord
<1>3. DocOf(v) = DocOf(j) /\ Nested(v) = Nested(j) /\ v.pc \notin Resolving
  BY <1>2 DEF DocOf, Nested, Resolving
<1>4. InDoc(v)
  BY <1>a, <1>2, <1>3 DEF BusyInv, InDoc
<1>6. Proposed(v, sh)
  BY <1>2, <1>3 DEF Proposed
<1>7. Located(v, sh)
  BY <1>2, <1>3, <1>q DEF Located
<1>8. Installed(v, st)
  BY <1>2 DEF BusyInv, Installed
<1>9. Saved(v, rs)
  <2>1. Reached(v) = j.at /\ Reached(j) = j.at
    BY <1>1, <1>2, <1>q DEF Reached
  <2> QED
    BY <1>2, <2>1 DEF BusyInv, Saved
<1> QED
  BY <1>2, <1>4, <1>6, <1>7, <1>8, <1>9 DEF BusyInv

(***************************************************************************)
(* The structure of a record is resolved on the fly.                       *)
(***************************************************************************)
LEMMA OnTheFlyInv ==
    ASSUME NEW j, NEW sh, NEW st, NEW rs, BusyInv(j, sh, st, rs), j.pc = "write", Nested(j),
           NEW props \in Partial(Structure, Personal), DocOf(j)[j.at].s \in DOMAIN props,
           NEW v, v = [j EXCEPT !.props = props, !.todo = <<j.at>>, !.pc = "resolve"]
    PROVE  BusyInv(v, sh, st, rs)
<1>0. j \in JobRecord /\ "resolve" \in PC \ {"idle"}
  BY DEF BusyInv, PC
<1>q. j.at \in 1..Len(DocOf(j)) /\ j.at \in Nat
  BY <1>0 DEF BusyInv, InDoc, JobRecord
<1>1. PICK todo : todo = <<j.at>>
  OBVIOUS
<1>t. /\ todo \in Seq(1..Len(DocOf(j))) /\ todo \in Seq(Nat) /\ Len(todo) = 1 /\ todo[1] = j.at
  BY <1>1, <1>q
<1>2. /\ v \in JobRecord /\ v.pc = "resolve" /\ v.file = j.file /\ v.auto = j.auto
      /\ v.props = props /\ v.local = j.local /\ v.todo = todo
      /\ v.answer = j.answer /\ v.replaced = j.replaced /\ v.at = j.at
  BY <1>0, <1>1, <1>t DEF JobRecord
<1>3. DocOf(v) = DocOf(j) /\ Nested(v) = Nested(j)
  BY <1>2 DEF DocOf, Nested
<1>4. InDoc(v)
  BY <1>t, <1>2, <1>3 DEF BusyInv, InDoc
<1>6. Proposed(v, sh)
  <2>1. \A k \in 1..1 : DocOf(v)[v.todo[k]].s \in DOMAIN v.props
    BY <1>2, <1>3, <1>t
  <2> QED
    BY <1>2, <1>t, <2>1 DEF Proposed
<1>7. Located(v, sh)
  BY <1>2, <1>3 DEF Located
<1>8. Installed(v, st)
  BY <1>2 DEF BusyInv, Installed
<1>9. Saved(v, rs)
  <2>1. Reached(v) = Reached(j)
    BY <1>2, <1>3 DEF Reached
  <2> QED
    BY <1>2, <2>1 DEF BusyInv, Saved
<1> QED
  BY <1>2, <1>4, <1>6, <1>7, <1>8, <1>9 DEF BusyInv

(***************************************************************************)
(* A new request.                                                          *)
(***************************************************************************)
LEMMA SubmitInv ==
    ASSUME NEW sh, NEW st, NEW rs, NEW f \in File, NEW org \in Org \cup {NoOrg}, NEW auto \in BOOLEAN,
           NEW v, v = [pc |-> "store", file |-> f, org |-> org, auto |-> auto,
                   props |-> <<>>, match |-> <<>>, local |-> <<>>, todo |-> <<>>,
                   answer |-> NoSchema, replaced |-> NoSchema,
                   meta |-> {}, at |-> 1, refs |-> {}, writing |-> FALSE]
    PROVE  BusyInv(v, sh, st, rs)
<1>1. PICK e : e = <<>>
  OBVIOUS
<1>2. /\ e \in Partial(Structure, Personal) /\ e \in Partial(Structure, Schema) /\ DOMAIN e = {}
      /\ e \in Seq(Nat) /\ e \in Seq(1..Len(Doc[f].recs))
  <2>1. e \in Partial(Structure, Personal) /\ e \in Partial(Structure, Schema) /\ DOMAIN e = {}
    BY <1>1, PartialEmpty
  <2> QED
    BY <1>1, <2>1
<1>3. v = [pc |-> "store", file |-> f, org |-> org, auto |-> auto,
           props |-> e, match |-> e, local |-> e, todo |-> e,
           answer |-> NoSchema, replaced |-> NoSchema,
           meta |-> {}, at |-> 1, refs |-> {}, writing |-> FALSE]
  BY <1>1
<1>4. v \in JobRecord /\ v.pc = "store" /\ v.file = f /\ v.at = 1 /\ v.todo = e /\ v.local = e
  BY <1>2, <1>3 DEF JobRecord, PC
<1>5. DocOf(v) = Doc[f].recs /\ Len(DocOf(v)) \in Nat \ {0}
  BY <1>4, DocFacts DEF DocOf
<1>6. InDoc(v) /\ Proposed(v, sh) /\ Located(v, sh)
  BY <1>2, <1>4, <1>5 DEF InDoc, Proposed, Located, Resolving
<1>7. Installed(v, st)
  BY <1>2, <1>4 DEF Installed
<1>8. Saved(v, rs)
  <2>1. Reached(v) = 0
    BY <1>4 DEF Reached
  <2> QED
    BY <2>1 DEF Saved
<1> QED
  BY <1>4, <1>6, <1>7, <1>8 DEF BusyInv

-----------------------------------------------------------------------------
(* The schema store.                                                       *)

\* SupersededHasSuccessor, of a store.
Chain(st) ==
    \A s \in DOMAIN st : st[s].state = "Blocked" =>
        Settled(st, st[s].next) /\ s.fields \subseteq st[s].next.fields

StoreInv(st) == st \in Partial(Schema, Entry) /\ Chain(st)

(***************************************************************************)
(* A change that settles nothing less, and after which a blocked schema    *)
(* was blocked before with its successor, or has one that took over.       *)
(***************************************************************************)
LEMMA ChainKept ==
    ASSUME NEW st, NEW st2, Chain(st), Grown(st, st2),
           \A s \in DOMAIN st2 : st2[s].state = "Blocked" =>
              \/ s \in DOMAIN st /\ st[s].state = "Blocked" /\ st2[s].next = st[s].next
              \/ Settled(st2, st2[s].next) /\ s.fields \subseteq st2[s].next.fields
    PROVE  Chain(st2)
<1> SUFFICES ASSUME NEW s \in DOMAIN st2, st2[s].state = "Blocked"
             PROVE  Settled(st2, st2[s].next) /\ s.fields \subseteq st2[s].next.fields
  BY DEF Chain
<1>1. CASE s \in DOMAIN st /\ st[s].state = "Blocked" /\ st2[s].next = st[s].next
  <2>1. Settled(st, st[s].next) /\ s.fields \subseteq st[s].next.fields
    BY <1>1 DEF Chain
  <2>2. st[s].next \in DOMAIN st
    BY <2>1 DEF Settled
  <2> QED
    BY <1>1, <2>1, <2>2 DEF Grown
<1> QED
  BY <1>1

(***************************************************************************)
(* load_schema_from_json: a schema the node has keeps its state and its    *)
(* successor, a new one is available.                                      *)
(***************************************************************************)
LEMMA LoadInv ==
    ASSUME NEW st, StoreInv(st), NEW s \in Schema, NEW e \in Entry,
           IF s \in DOMAIN st THEN e.state = st[s].state /\ e.next = st[s].next
                              ELSE e.state = "Available",
           NEW st2, st2 = With(st, s, e)
    PROVE  StoreInv(st2) /\ Grown(st, st2) /\ s \in DOMAIN st2
<1>1. st2 \in Partial(Schema, Entry)
  BY WithType DEF StoreInv
<1>2. Adds(st2, st, s, e)
  BY WithAdds
<1>3. /\ DOMAIN st2 = DOMAIN st \cup {s} /\ st2[s] = e
      /\ \A y \in DOMAIN st : y # s => st2[y] = st[y]
  BY <1>2 DEF Adds
<1>4. Grown(st, st2)
  BY <1>3 DEF Grown, Settled
<1>5. \A x \in DOMAIN st2 : st2[x].state = "Blocked" =>
         x \in DOMAIN st /\ st[x].state = "Blocked" /\ st2[x].next = st[x].next
  BY <1>3
<1>6. Chain(st2)
  BY <1>4, <1>5, ChainKept DEF StoreInv
<1> QED
  BY <1>1, <1>3, <1>4, <1>6 DEF StoreInv

\* What may become of the entry of s.
MayBecome(st, s, e) ==
    /\ Settled(st, s) => e.state \in {"Approved", "Blocked"}
    /\ e.state = "Blocked" => \/ st[s].state = "Blocked" /\ e.next = st[s].next
                              \/ Settled(st, e.next) /\ s.fields \subseteq e.next.fields

(***************************************************************************)
(* Changes of one entry.                                                   *)
(***************************************************************************)
LEMMA EntryInv ==
    ASSUME NEW st, StoreInv(st), NEW s \in DOMAIN st, NEW e \in Entry,
           MayBecome(st, s, e),
           NEW st2, st2 = [st EXCEPT ![s] = e]
    PROVE  StoreInv(st2) /\ Grown(st, st2) /\ st2[s] = e
<1>0. DOMAIN st \subseteq Schema /\ (\A x \in DOMAIN st : st[x] \in Entry) /\ st = [x \in DOMAIN st |-> st[x]]
  BY PartialType DEF StoreInv
<1>1. DOMAIN st2 = DOMAIN st /\ st2[s] = e /\ \A x \in DOMAIN st : x # s => st2[x] = st[x]
  BY <1>0
<1>2. st2 \in Partial(Schema, Entry)
  <2>1. st2 \in [DOMAIN st -> Entry]
    BY <1>0
  <2> QED
    BY <1>0, <2>1, PartialIntro
<1>3. Grown(st, st2)
  BY <1>1 DEF Grown, Settled, MayBecome
<1>4. \A x \in DOMAIN st2 : st2[x].state = "Blocked" =>
              \/ x \in DOMAIN st /\ st[x].state = "Blocked" /\ st2[x].next = st[x].next
              \/ Settled(st2, st2[x].next) /\ x.fields \subseteq st2[x].next.fields
  <2>1. \A y : Settled(st, y) => Settled(st2, y)
    BY <1>3 DEF Grown, Settled
  <2> QED
    BY <1>1, <2>1 DEF MayBecome
<1>5. Chain(st2)
  BY <1>3, <1>4, ChainKept DEF StoreInv
<1> QED
  BY <1>1, <1>2, <1>3, <1>5 DEF StoreInv

(***************************************************************************)
(* Approval.                                                               *)
(***************************************************************************)
LEMMA ApproveInv ==
    ASSUME NEW st, StoreInv(st), NEW s \in DOMAIN st,
           NEW st2, st2 = [st EXCEPT ![s].state = "Approved"]
    PROVE  StoreInv(st2) /\ Grown(st, st2) /\ Settled(st2, s)
<1>1. st[s] \in Entry
  BY PartialType DEF StoreInv
<1>2. PICK e : e = [st[s] EXCEPT !.state = "Approved"]
  OBVIOUS
<1>3. e \in Entry /\ e.state = "Approved"
  BY <1>1, <1>2 DEF Entry
<1>4. st2 = [st EXCEPT ![s] = e]
  BY <1>2
<1>m. MayBecome(st, s, e)
  BY <1>3 DEF MayBecome
<1>5. StoreInv(st2) /\ Grown(st, st2) /\ st2[s] = e
  BY <1>3, <1>4, <1>m, EntryInv
<1>6. s \in DOMAIN st2
  BY <1>5 DEF Grown
<1> QED
  BY <1>3, <1>5, <1>6 DEF Settled

(***************************************************************************)
(* block_and_supersede, once the successor is settled.                     *)
(***************************************************************************)
LEMMA BlockInv ==
    ASSUME NEW st, StoreInv(st), NEW old \in DOMAIN st, NEW s \in Schema,
           Settled(st, s), old.fields \subseteq s.fields,
           NEW st2, st2 = [st EXCEPT ![old].state = "Blocked", ![old].next = s]
    PROVE  StoreInv(st2) /\ Grown(st, st2)
<1>1. st[old] \in Entry
  BY PartialType DEF StoreInv
<1>2. PICK d : d = [st[old] EXCEPT !.state = "Blocked"]
  OBVIOUS
<1>3. d \in Entry /\ d.state = "Blocked"
  BY <1>1, <1>2 DEF Entry
<1>4. PICK e : e = [d EXCEPT !.next = s]
  OBVIOUS
<1>5. e \in Entry /\ e.state = "Blocked" /\ e.next = s
  BY <1>3, <1>4 DEF Entry
<1>6. st2 = [st EXCEPT ![old] = e]
  BY <1>2, <1>4
<1>7. MayBecome(st, old, e)
  BY <1>5 DEF MayBecome
<1>8. e \in Entry
  BY <1>5
<1>9. StoreInv(st2) /\ Grown(st, st2) /\ st2[old] = e
  BY ONLY StoreInv(st), old \in DOMAIN st, <1>6, <1>7, <1>8, EntryInv
<1> QED
  BY <1>9

(***************************************************************************)
(* update_ref_fields: reference fields only.                               *)
(***************************************************************************)
LEMMA RefFieldsInv ==
    ASSUME NEW st, StoreInv(st), NEW s \in DOMAIN st, NEW refs \in SUBSET RefField,
           NEW st2, st2 = [st EXCEPT ![s].refs = refs]
    PROVE  StoreInv(st2) /\ Grown(st, st2)
<1>1. st[s] \in Entry
  BY PartialType DEF StoreInv
<1>2. PICK e : e = [st[s] EXCEPT !.refs = refs]
  OBVIOUS
<1>3. e \in Entry /\ e.state = st[s].state /\ e.next = st[s].next
  BY <1>1, <1>2 DEF Entry
<1>4. st2 = [st EXCEPT ![s] = e]
  BY <1>2
<1>5. MayBecome(st, s, e)
  BY <1>3 DEF MayBecome, Settled
<1>6. e \in Entry
  BY <1>3
<1>7. StoreInv(st2) /\ Grown(st, st2) /\ st2[s] = e
  BY ONLY StoreInv(st), s \in DOMAIN st, <1>4, <1>5, <1>6, EntryInv
<1> QED
  BY <1>7

(***************************************************************************)
(* The same store.                                                         *)
(***************************************************************************)
LEMMA SameStore ==
    ASSUME NEW st, StoreInv(st)
    PROVE  Grown(st, st)
BY DEF Grown


-----------------------------------------------------------------------------
(* The steps.                                                              *)

IngestInv == SharedInv /\ StoreInv(store) /\ JobsInv /\ IngestedIsStored

(***************************************************************************)
(* A task that is somewhere works on a request.                            *)
(***************************************************************************)
LEMMA Acting ==
    ASSUME IngestInv, NEW t \in Task, NEW pc, pc # "idle", At(t, pc)
    PROVE  BusyInv(job[t], DOMAIN shared, store, records) /\ job[t].pc = pc
<1>1. TaskInv(job[t], DOMAIN shared, store, records)
  BY DEF IngestInv, JobsInv
<1>2. job[t].pc = pc
  BY DEF At
<1>3. Idle.pc = "idle"
  BY DEF Idle
<1> QED
  BY <1>1, <1>2, <1>3 DEF TaskInv

(***************************************************************************)
(* The document of a task is that of its request.                          *)
(***************************************************************************)
LEMMA TaskDoc ==
    ASSUME NEW t
    PROVE  /\ Recs(t) = DocOf(job[t]) /\ RepTop(t) = FirstTop(DocOf(job[t]))
           /\ Doc[job[t].file].nested = Nested(job[t])
           /\ Current(t) = DocOf(job[t])[Head(job[t].todo)].s
           /\ \A s : Cached(t, s) <=> Has(job[t], DOMAIN shared, s)
<1>1. Recs(t) = DocOf(job[t])
  BY DEF Recs, DocOf
<1>2. RepTop(t) = FirstTop(DocOf(job[t]))
  BY <1>1 DEF RepTop, FirstTop
<1>3. Doc[job[t].file].nested = Nested(job[t])
  BY DEF Nested
<1>4. Current(t) = DocOf(job[t])[Head(job[t].todo)].s
  BY <1>1 DEF Current
<1>5. \A s : Cached(t, s) <=> Has(job[t], DOMAIN shared, s)
  BY DEF Cached, Has
<1> QED
  BY <1>1, <1>2, <1>3, <1>4, <1>5

(***************************************************************************)
(* A step of one task, whatever it does to the shared state.               *)
(***************************************************************************)
LEMMA Moves ==
    ASSUME IngestInv, NEW t \in Task, NEW v, job' = [job EXCEPT ![t] = v],
           SharedInv', StoreInv(store'), ingested' = ingested,
           DOMAIN shared \subseteq DOMAIN shared', Grown(store, store'), Kept(records, records'),
           BusyInv(v, DOMAIN shared', store', records') \/ v = Idle
    PROVE  IngestInv'
<1>1. TaskInv(v, DOMAIN shared', store', records')
  BY DEF TaskInv
<1>2. JobsInv'
  BY <1>1, OneTaskMoves DEF IngestInv
<1>3. IngestedIsStored'
  <2> SUFFICES ASSUME NEW f \in File, <<f, TRUE>> \in ingested', NEW i \in DOMAIN Doc[f].recs
               PROVE  \E r \in records' : r.id = <<f, i>>
    BY DEF IngestedIsStored
  <2>1. PICK r \in records : r.id = <<f, i>>
    BY DEF IngestInv, IngestedIsStored
  <2>2. PICK q \in records' : q.id = r.id
    BY <2>1 DEF Kept
  <2> QED
    BY <2>1, <2>2
<1> QED
  BY <1>2, <1>3 DEF IngestInv

(***************************************************************************)
(* A step of one task that leaves the caches, the store and the database   *)
(* alone.                                                                  *)
(***************************************************************************)
LEMMA QuietMove ==
    ASSUME IngestInv, NEW t \in Task, NEW v, job' = [job EXCEPT ![t] = v], SharedInv',
           UNCHANGED <<shared, store, records, ingested>>,
           BusyInv(v, DOMAIN shared, store, records) \/ v = Idle
    PROVE  IngestInv'
<1>1. Kept(records, records') /\ Grown(store, store') /\ DOMAIN shared \subseteq DOMAIN shared'
      /\ StoreInv(store') /\ ingested' = ingested
  BY DEF Kept, Grown, IngestInv
<1>2. BusyInv(v, DOMAIN shared', store', records') \/ v = Idle
  OBVIOUS
<1> QED
  BY <1>1, <1>2, Moves

(***************************************************************************)
(* A step of one task that changes the store.                              *)
(***************************************************************************)
LEMMA StoreMove ==
    ASSUME IngestInv, NEW t \in Task, NEW v, job' = [job EXCEPT ![t] = v], SharedInv',
           UNCHANGED <<shared, records, ingested>>, StoreInv(store'), Grown(store, store'),
           BusyInv(v, DOMAIN shared, store', records)
    PROVE  IngestInv'
<1>1. Kept(records, records') /\ DOMAIN shared \subseteq DOMAIN shared' /\ ingested' = ingested
  BY DEF Kept
<1>2. BusyInv(v, DOMAIN shared', store', records')
  OBVIOUS
<1> QED
  BY <1>1, <1>2, Moves

(***************************************************************************)
(* A request survives a change of the store, and the types do.             *)
(***************************************************************************)
LEMMA StoreChange ==
    ASSUME IngestInv, NEW j, BusyInv(j, DOMAIN shared, store, records),
           StoreInv(store'), Grown(store, store')
    PROVE  BusyInv(j, DOMAIN shared, store', records)
<1>1. Kept(records, records)
  BY DEF Kept
<1>2. DOMAIN shared \subseteq DOMAIN shared
  OBVIOUS
<1> QED
  BY <1>1, <1>2, BusyKept

(***************************************************************************)
(* StoreFile, CheckDedup.                                                  *)
(***************************************************************************)
LEMMA StoreFileInv ==
    ASSUME IngestInv, NEW t \in Task, StoreFile(t)
    PROVE  IngestInv'
<1>1. BusyInv(job[t], DOMAIN shared, store, records) /\ job[t].pc = "store"
  BY Acting DEF StoreFile
<1>2. Hop(job[t], "dedup", store, records)
  BY <1>1 DEF Hop
<1>3. PICK v : v = [job[t] EXCEPT !.pc = "dedup"]
  OBVIOUS
<1>4. BusyInv(v, DOMAIN shared, store, records)
  BY <1>1, <1>2, <1>3, HopInv
<1>5. job' = [job EXCEPT ![t] = v]
  BY <1>3 DEF StoreFile, Goto
<1>6. job[t].file \in File
  BY <1>1 DEF BusyInv, JobRecord
<1>7. SharedInv'
  BY <1>6 DEF IngestInv, SharedInv, StoreFile
<1> QED
  BY <1>4, <1>5, <1>7, QuietMove DEF StoreFile

\* CheckDedup: the request goes on, or ends because the file is recorded.
LEMMA CheckDedupInv ==
    ASSUME IngestInv, NEW t \in Task, CheckDedup(t)
    PROVE  IngestInv'
<1>1. BusyInv(job[t], DOMAIN shared, store, records) /\ job[t].pc = "dedup"
  BY Acting DEF CheckDedup
<1>2. SharedInv' /\ UNCHANGED <<shared, store, records, ingested>>
  BY DEF IngestInv, SharedInv, CheckDedup, persistent
<1>3. CASE Goto(t, "collect")
  <2>1. Hop(job[t], "collect", store, records)
    BY <1>1 DEF Hop
  <2>2. PICK v : v = [job[t] EXCEPT !.pc = "collect"]
    OBVIOUS
  <2>3. BusyInv(v, DOMAIN shared, store, records)
    BY <1>1, <2>1, <2>2, HopInv
  <2>4. job' = [job EXCEPT ![t] = v]
    BY <1>3, <2>2 DEF Goto
  <2> QED
    BY <1>2, <2>3, <2>4, QuietMove
<1>4. CASE job' = [job EXCEPT ![t] = Idle]
  BY <1>2, <1>4, QuietMove
<1> QED
  BY <1>3, <1>4 DEF CheckDedup

(***************************************************************************)
(* Collect: what is asked for is what is not cached.                       *)
(***************************************************************************)
LEMMA CollectStep ==
    ASSUME IngestInv, NEW t \in Task, Collect(t)
    PROVE  IngestInv'
<1> DEFINE j == job[t]
           top == Recs(t)[RepTop(t)].s
           nested == Doc[job[t].file].nested
           wanted == CASE ~nested -> {top}
                       [] nested /\ Cached(t, top) -> {}
                       [] OTHER -> {s \in {Recs(t)[i].s : i \in 1..RepTop(t)} : ~Cached(t, s)}
<1>1. BusyInv(j, DOMAIN shared, store, records) /\ j.pc = "collect"
  BY Acting DEF Collect
<1>2. SharedInv' /\ UNCHANGED <<shared, store, records, ingested>>
  BY DEF IngestInv, SharedInv, Collect, persistent
<1>3. PICK props \in [wanted -> UNION {Proposals[s] : s \in wanted}] :
         /\ \A s \in wanted : props[s] \in Proposals[s]
         /\ job' = [job EXCEPT ![t].props = props,
                               ![t].todo = IF nested THEN <<>> ELSE Rep(t),
                               ![t].pc = IF nested THEN "reuse" ELSE "resolve"]
  BY DEF Collect
<1>4. j \in JobRecord
  BY <1>1 DEF BusyInv
<1>q. PICK q, n : /\ q = DocOf(j) /\ n = FirstTop(q) /\ q = Recs(t) /\ n = RepTop(t)
                  /\ nested = Nested(j)
  BY TaskDoc
<1>5. /\ n \in 1..Len(q) /\ \A i \in 1..Len(q) : q[i].s \in Structure
      /\ Nested(j) \in BOOLEAN /\ Len(q) \in Nat /\ (~ Nested(j) => n = 1)
  <2>1. PICK z : z = job[t] /\ z \in JobRecord
    BY <1>4
  <2>2. /\ FirstTop(DocOf(z)) \in 1..Len(DocOf(z)) /\ \A i \in 1..Len(DocOf(z)) : DocOf(z)[i].s \in Structure
        /\ Nested(z) \in BOOLEAN /\ Len(DocOf(z)) \in Nat /\ (~ Nested(z) => FirstTop(DocOf(z)) = 1)
    BY ONLY <2>1, RequestDoc
  <2> QED
    BY <1>q, <2>1, <2>2
<1>w. /\ ~ Nested(j) => wanted = {q[n].s}
      /\ Nested(j) /\ ~ Cached(t, q[n].s) => wanted = {s \in {q[i].s : i \in 1..n} : ~ Cached(t, s)}
  BY <1>q, <1>5
<1>6. wanted \subseteq Structure
  BY <1>q, <1>5
<1>7. DOMAIN props = wanted
  BY <1>3
<1>8. props \in Partial(Structure, Personal)
  <2> HIDE DEF wanted
  <2>1. \A s \in wanted : props[s] \in Personal
    BY <1>3, <1>6, ProposalAssumption
  <2>2. props \in [wanted -> Personal]
    BY <1>3, <2>1
  <2> QED
    BY <1>6, <2>2, PartialIntro
<1>9. PICK todo, pc : /\ todo = IF Nested(j) THEN <<>> ELSE Rep(t)
                      /\ pc = IF Nested(j) THEN "reuse" ELSE "resolve"
  BY <1>q
<1>10. \A s : Cached(t, s) <=> Has(j, DOMAIN shared, s)
  BY TaskDoc
<1>11. IF Nested(j)
       THEN /\ pc = "reuse" /\ todo = <<>>
            /\ \/ Has(j, DOMAIN shared, DocOf(j)[FirstTop(DocOf(j))].s)
               \/ \A i \in 1..FirstTop(DocOf(j)) : \/ Has(j, DOMAIN shared, DocOf(j)[i].s)
                                                   \/ DocOf(j)[i].s \in DOMAIN props
       ELSE pc = "resolve" /\ todo = <<1>> /\ DocOf(j)[1].s \in DOMAIN props
  <2>1. CASE Nested(j)
    <3>1. CASE Cached(t, q[n].s)
      BY <1>q, <1>9, <1>10, <2>1, <3>1
    <3>2. CASE ~ Cached(t, q[n].s)
      <4>1. wanted = {s \in {q[i].s : i \in 1..n} : ~ Cached(t, s)}
        BY <1>w, <2>1, <3>2
      <4>2. \A i \in 1..n : Has(j, DOMAIN shared, q[i].s) \/ q[i].s \in wanted
        BY <1>10, <4>1
      <4> QED
        BY <1>q, <1>7, <1>9, <2>1, <4>2
    <3> QED
      BY <3>1, <3>2
  <2>2. CASE ~ Nested(j)
    <3>1. Rep(t) = <<1>>
      <4>1. RepTop(t) = 1
        BY <1>q, <1>5, <2>2
      <4>2. Rep(t) = [i \in 1..1 |-> i]
        BY <4>1 DEF Rep
      <4>3. [i \in 1..1 |-> i] = <<1>>
        OBVIOUS
      <4> QED
        BY <4>2, <4>3
    <3>2. wanted = {q[n].s} /\ n = 1
      BY <1>w, <1>5, <2>2
    <3> QED
      BY <1>q, <1>7, <1>9, <2>2, <3>1, <3>2
  <2> QED
    BY <2>1, <2>2
<1>12. PICK v : v = [job[t] EXCEPT !.props = props, !.todo = todo, !.pc = pc]
  OBVIOUS
<1>13. BusyInv(v, DOMAIN shared, store, records)
  <2> HIDE DEF wanted
  <2> QED
    BY <1>1, <1>8, <1>11, <1>12, CollectInv
<1>14. job' = [job EXCEPT ![t] = v]
  BY <1>q, <1>3, <1>9, <1>12
<1> QED
  BY <1>2, <1>13, <1>14, QuietMove

(***************************************************************************)
(* CheckReuse: a match is the active schema of a proposal's name.          *)
(***************************************************************************)
LEMMA CheckReuseStep ==
    ASSUME IngestInv, NEW t \in Task, CheckReuse(t)
    PROVE  IngestInv'
<1> DEFINE j == job[t]
           props == job[t].props
           fits  == {s \in DOMAIN props :
                       /\ active[props[s].desc] # NoSchema
                       /\ props[s].fields \subseteq active[props[s].desc].fields}
<1>1. BusyInv(j, DOMAIN shared, store, records) /\ j.pc = "reuse"
  BY Acting DEF CheckReuse
<1>2. SharedInv' /\ UNCHANGED <<shared, store, records, ingested>>
  BY DEF IngestInv, SharedInv, CheckReuse, persistent
<1>13. PICK names \in SUBSET {props[s].desc : s \in fits} :
           job' = [job EXCEPT
                  ![t].match = [s \in {q \in DOMAIN props : props[q].desc \in names} |-> active[props[s].desc]],
                  ![t].todo = IF Cached(t, Recs(t)[RepTop(t)].s) THEN <<>> ELSE Rep(t),
                  ![t].pc = "resolve"]
  BY DEF CheckReuse
<1> DEFINE hits == {q \in DOMAIN props : props[q].desc \in names}
<1>14. PICK match : match = [s \in hits |-> active[props[s].desc]]
  OBVIOUS
<1>3. job' = [job EXCEPT
                  ![t].match = match,
                  ![t].todo = IF Cached(t, Recs(t)[RepTop(t)].s) THEN <<>> ELSE Rep(t),
                  ![t].pc = "resolve"]
  BY <1>13, <1>14
<1>4. props \in Partial(Structure, Personal) /\ active \in [Desc -> Personal \cup {NoSchema}]
  BY <1>1 DEF BusyInv, JobRecord, IngestInv, SharedInv
<1>5. DOMAIN props \subseteq Structure /\ \A s \in DOMAIN props : props[s] \in Personal
  <2>1. PICK p : p = job[t].props
    OBVIOUS
  <2>2. p \in Partial(Structure, Personal)
    BY <1>4, <2>1
  <2>3. DOMAIN p \subseteq Structure /\ \A s \in DOMAIN p : p[s] \in Personal
    BY <2>2, PartialType
  <2> QED
    BY <2>1, <2>3
<1>6. \A s \in hits : active[props[s].desc] \in Personal
  <2>1. \A p \in Personal : p.desc \in Desc
    BY DEF Personal, Schema
  <2>2. \A d \in names : active[d] # NoSchema
    OBVIOUS
  <2> QED
    BY <1>4, <1>5, <2>1, <2>2
<1>7. match \in Partial(Structure, Personal)
  <2>1. PICK m : m = [s \in hits |-> active[props[s].desc]]
    OBVIOUS
  <2>2. m \in [hits -> Personal] /\ hits \in SUBSET Structure
    BY <1>5, <1>6, <2>1
  <2>3. m \in Partial(Structure, Personal)
    <3> HIDE DEF hits
    <3> QED
      BY <2>2, PartialIntro
  <2> QED
    BY <1>14, <2>1, <2>3
<1>8. PICK todo : todo = IF Cached(t, Recs(t)[RepTop(t)].s) THEN <<>> ELSE Rep(t)
  OBVIOUS
<1>9. todo = IF Has(job[t], DOMAIN shared, DocOf(job[t])[FirstTop(DocOf(job[t]))].s) THEN <<>>
             ELSE [i \in 1..FirstTop(DocOf(job[t])) |-> i]
  BY <1>8, TaskDoc DEF Rep
<1>10. PICK v : v = [job[t] EXCEPT !.match = match, !.todo = todo, !.pc = "resolve"]
  OBVIOUS
<1>11. BusyInv(v, DOMAIN shared, store, records)
  BY <1>1, <1>7, <1>9, <1>10, ReuseInv
<1>12. job' = [job EXCEPT ![t] = v]
  BY <1>3, <1>8, <1>10
<1> QED
  BY <1>2, <1>11, <1>12, QuietMove

(***************************************************************************)
(* SkipCached.                                                             *)
(***************************************************************************)
LEMMA SkipStep ==
    ASSUME IngestInv, NEW t \in Task, SkipCached(t)
    PROVE  IngestInv'
<1>1. BusyInv(job[t], DOMAIN shared, store, records) /\ job[t].pc = "resolve"
  BY Acting DEF SkipCached
<1>2. SharedInv' /\ UNCHANGED <<shared, store, records, ingested>>
  BY DEF IngestInv, SharedInv, SkipCached, persistent
<1>3. job[t].todo # <<>> /\ Len(job[t].todo) > 1
  BY DEF SkipCached, Skippable
<1>4. PICK v : v = [job[t] EXCEPT !.todo = Tail(job[t].todo)]
  OBVIOUS
<1>5. BusyInv(v, DOMAIN shared, store, records)
  BY <1>1, <1>3, <1>4, SkipInv
<1>6. job' = [job EXCEPT ![t] = v]
  BY <1>4 DEF SkipCached
<1> QED
  BY <1>2, <1>5, <1>6, QuietMove

(***************************************************************************)
(* Resolved: the request after the structure at hand got its schema.       *)
(***************************************************************************)
LEMMA ResolvedStep ==
    ASSUME IngestInv, NEW t \in Task, NEW st, NEW s \in Schema, s \in DOMAIN st,
           BusyInv(job[t], DOMAIN shared, st, records),
           job[t].pc \in Resolving, job[t].todo # <<>>, Resolved(t, s)
    PROVE  \E v : job' = [job EXCEPT ![t] = v] /\ BusyInv(v, DOMAIN shared, st, records)
<1>1. PICK leaf \in BOOLEAN : leaf <=> Kids(t, Head(job[t].todo)) = {}
  OBVIOUS
<1>2. PICK local, todo, pc :
         /\ local = With(job[t].local, DocOf(job[t])[Head(job[t].todo)].s, s)
         /\ todo = IF leaf THEN Tail(job[t].todo) ELSE job[t].todo
         /\ pc = IF leaf THEN "resolve" ELSE "refs_read"
  OBVIOUS
<1>3. PICK v : v = [job[t] EXCEPT !.local = local, !.answer = s, !.todo = todo, !.pc = pc]
  OBVIOUS
<1>4. BusyInv(v, DOMAIN shared, st, records)
  <2>1. v = [job[t] EXCEPT !.local = With(job[t].local, DocOf(job[t])[Head(job[t].todo)].s, s),
                           !.answer = s,
                           !.todo = IF leaf THEN Tail(job[t].todo) ELSE job[t].todo,
                           !.pc = IF leaf THEN "resolve" ELSE "refs_read"]
    BY <1>2, <1>3
  <2> QED
    BY <2>1, ResolvedInv
<1>5. job' = [job EXCEPT ![t].local = local, ![t].answer = s, ![t].todo = todo, ![t].pc = pc]
  <2>1. Current(t) = DocOf(job[t])[Head(job[t].todo)].s
    BY TaskDoc
  <2> QED
    BY <1>1, <1>2, <2>1 DEF Resolved
<1>6. job' = [job EXCEPT ![t] = v]
  BY <1>3, <1>5
<1> QED
  BY <1>4, <1>6

(***************************************************************************)
(* UseMatch.                                                               *)
(***************************************************************************)
LEMMA UseMatchStep ==
    ASSUME IngestInv, NEW t \in Task, UseMatch(t)
    PROVE  IngestInv'
<1>1. BusyInv(job[t], DOMAIN shared, store, records) /\ job[t].pc = "resolve" /\ job[t].todo # <<>>
  BY Acting DEF UseMatch
<1>2. SharedInv' /\ UNCHANGED <<shared, store, records, ingested>>
  BY DEF IngestInv, SharedInv, UseMatch, persistent
<1>3. PICK s : s = job[t].match[Current(t)]
  OBVIOUS
<1>4. s \in Schema
  <2>1. PICK m : m = job[t].match
    OBVIOUS
  <2>2. m \in Partial(Structure, Personal) /\ Current(t) \in DOMAIN m
    BY <1>1, <2>1 DEF BusyInv, JobRecord, UseMatch
  <2>3. \A x \in DOMAIN m : m[x] \in Personal
    BY <2>2, PartialType
  <2> QED
    BY <1>3, <2>1, <2>2, <2>3 DEF Personal
<1>5. CASE s \in DOMAIN store
  <2>1. Resolved(t, s)
    BY <1>3, <1>5 DEF UseMatch
  <2>2. job[t].pc \in Resolving
    BY <1>1 DEF Resolving
  <2>3. PICK v : job' = [job EXCEPT ![t] = v] /\ BusyInv(v, DOMAIN shared, store, records)
    BY <1>1, <1>4, <1>5, <2>1, <2>2, ResolvedStep
  <2> QED
    BY <1>2, <2>3, QuietMove
<1>6. CASE s \notin DOMAIN store
  <2>1. job' = [job EXCEPT ![t].answer = s, ![t].pc = "reuse_load"]
    BY <1>3, <1>6 DEF UseMatch
  <2>2. PICK v : v = [job[t] EXCEPT !.answer = s, !.replaced = job[t].replaced, !.pc = "reuse_load"]
    OBVIOUS
  <2>3. job[t] \in JobRecord /\ job[t].replaced \in Schema \cup {NoSchema}
    BY <1>1 DEF BusyInv, JobRecord
  <2>4. v = [job[t] EXCEPT !.answer = s, !.pc = "reuse_load"]
    BY <2>2, <2>3 DEF JobRecord
  <2>5. BusyInv(v, DOMAIN shared, store, records)
    BY <1>1, <1>4, <2>2, <2>3, AnswerInv
  <2>6. job' = [job EXCEPT ![t] = v]
    BY <2>1, <2>4
  <2> QED
    BY <1>2, <2>5, <2>6, QuietMove
<1> QED
  BY <1>5, <1>6

(***************************************************************************)
(* Load, in a state of the specification.                                  *)
(***************************************************************************)
LEMMA LoadStep ==
    ASSUME IngestInv, NEW s \in Schema, Load(s)
    PROVE  StoreInv(store') /\ Grown(store, store') /\ s \in DOMAIN store'
<1>0. StoreInv(store)
  BY DEF IngestInv
<1>1. PICK e : e = [state |-> IF s \in DOMAIN store THEN store[s].state ELSE "Available",
                    next |-> IF s \in DOMAIN store THEN store[s].next ELSE NoSchema,
                    refs |-> {}]
  OBVIOUS
<1>2. s \in DOMAIN store => store[s] \in Entry
  BY <1>0, PartialType DEF StoreInv
<1>3. e \in Entry
  BY <1>1, <1>2 DEF Entry
<1>4. IF s \in DOMAIN store THEN e.state = store[s].state /\ e.next = store[s].next
                            ELSE e.state = "Available"
  BY <1>1
<1>5. store' = With(store, s, e)
  BY <1>1 DEF Load
<1> QED
  BY <1>0, <1>3, <1>4, <1>5, LoadInv

(***************************************************************************)
(* ReuseLoad, ReuseApprove.                                                *)
(***************************************************************************)
LEMMA ReuseLoadStep ==
    ASSUME IngestInv, NEW t \in Task, ReuseLoad(t)
    PROVE  IngestInv'
<1>1. BusyInv(job[t], DOMAIN shared, store, records) /\ job[t].pc = "reuse_load"
  BY Acting DEF ReuseLoad
<1>2. job[t].answer \in Schema
  BY <1>1 DEF BusyInv, JobRecord, Installed
<1>3. StoreInv(store') /\ Grown(store, store') /\ job[t].answer \in DOMAIN store'
  BY <1>2, LoadStep DEF ReuseLoad
<1>4. SharedInv' /\ UNCHANGED <<shared, records, ingested>>
  BY <1>3 DEF IngestInv, SharedInv, StoreInv, ReuseLoad
<1>5. BusyInv(job[t], DOMAIN shared, store', records)
  BY <1>1, <1>3, StoreChange
<1>6. Hop(job[t], "reuse_approve", store', records)
  BY <1>1, <1>3 DEF Hop
<1>7. PICK v : v = [job[t] EXCEPT !.pc = "reuse_approve"]
  OBVIOUS
<1>8. BusyInv(v, DOMAIN shared, store', records)
  BY <1>5, <1>6, <1>7, HopInv
<1>9. job' = [job EXCEPT ![t] = v]
  BY <1>7 DEF ReuseLoad, Goto
<1> QED
  BY <1>3, <1>4, <1>8, <1>9, StoreMove

\* ReuseApprove: the match the node lacked is loaded by now.
LEMMA ReuseApproveStep ==
    ASSUME IngestInv, NEW t \in Task, ReuseApprove(t)
    PROVE  IngestInv'
<1>1. BusyInv(job[t], DOMAIN shared, store, records) /\ job[t].pc = "reuse_approve"
  BY Acting DEF ReuseApprove
<1>2. job[t].answer \in DOMAIN store /\ StoreInv(store)
  BY <1>1 DEF BusyInv, Installed, IngestInv
<1>3. StoreInv(store') /\ Grown(store, store')
  BY <1>2, ApproveInv DEF ReuseApprove, Approve
<1>4. SharedInv' /\ UNCHANGED <<shared, records, ingested>>
  BY <1>3 DEF IngestInv, SharedInv, StoreInv, ReuseApprove
<1>5. BusyInv(job[t], DOMAIN shared, store', records)
  BY <1>1, <1>3, StoreChange
<1>6. job[t].pc \in Resolving /\ job[t].todo # <<>>
  BY <1>1 DEF BusyInv, Proposed, Resolving
<1>7. job[t].answer \in Schema /\ job[t].answer \in DOMAIN store'
  <2>1. DOMAIN store \subseteq Schema
    BY <1>2, PartialType DEF StoreInv
  <2> QED
    BY <1>2, <1>3, <2>1 DEF Grown
<1>8. PICK v : job' = [job EXCEPT ![t] = v] /\ BusyInv(v, DOMAIN shared, store', records)
  BY <1>5, <1>6, <1>7, ResolvedStep DEF ReuseApprove
<1> QED
  BY <1>3, <1>4, <1>8, StoreMove

(***************************************************************************)
(* The proposal for the structure at hand, when no match answers it.       *)
(***************************************************************************)
LEMMA HasProposal ==
    ASSUME IngestInv, NEW t \in Task, NeedsSchema(t)
    PROVE  job[t].props[Current(t)] \in Personal
<1>1. BusyInv(job[t], DOMAIN shared, store, records) /\ job[t].pc = "resolve" /\ job[t].todo # <<>>
      /\ ~ Skippable(t)
  BY Acting DEF NeedsSchema
<1>2. job[t].pc \in Resolving
  BY <1>1 DEF Resolving
<1>3. Current(t) = DocOf(job[t])[job[t].todo[1]].s /\ Len(job[t].todo) \in Nat \ {0}
  <2>1. PICK todo : todo = job[t].todo
    OBVIOUS
  <2>2. todo \in Seq(Nat) /\ todo # <<>>
    BY <1>1, <2>1 DEF BusyInv, JobRecord
  <2>3. Head(todo) = todo[1] /\ Len(todo) \in Nat \ {0}
    BY <2>2
  <2>4. Current(t) = DocOf(job[t])[Head(job[t].todo)].s
    BY TaskDoc
  <2> QED
    BY <2>1, <2>3, <2>4
<1>4. \A k \in 1..Len(job[t].todo) :
         \/ DocOf(job[t])[job[t].todo[k]].s \in DOMAIN job[t].props
         \/ k < Len(job[t].todo) /\ Has(job[t], DOMAIN shared, DocOf(job[t])[job[t].todo[k]].s)
  BY <1>1, <1>2 DEF BusyInv, Proposed
<1>5. \/ Current(t) \in DOMAIN job[t].props
      \/ 1 < Len(job[t].todo) /\ Has(job[t], DOMAIN shared, Current(t))
  <2>1. 1 \in 1..Len(job[t].todo)
    BY <1>3
  <2> QED
    BY <1>3, <1>4, <2>1
<1>6. Current(t) \in DOMAIN job[t].props
  <2>1. ~ (Len(job[t].todo) > 1 /\ Has(job[t], DOMAIN shared, Current(t)))
    BY <1>1, TaskDoc DEF Skippable
  <2> QED
    BY <1>3, <1>5, <2>1
<1>7. PICK p : p = job[t].props
  OBVIOUS
<1>8. p \in Partial(Structure, Personal)
  BY <1>1, <1>7 DEF BusyInv, JobRecord
<1>9. \A x \in DOMAIN p : p[x] \in Personal
  BY <1>8, PartialType
<1> QED
  BY <1>6, <1>7, <1>9

(***************************************************************************)
(* The schema service: its answer is a personal schema, and one that       *)
(* replaces another has the fields of both.                                *)
(***************************************************************************)
LEMMA ServiceFacts ==
    ASSUME IngestInv, NEW p \in Personal
    PROVE  /\ ServiceAnswer(p) \in Personal
           /\ ServiceReplaced(p) \in Schema \cup {NoSchema}
           /\ ServiceReplaced(p) # NoSchema => ServiceReplaced(p).fields \subseteq ServiceAnswer(p).fields
           /\ p.desc \in Desc
<1>1. /\ p \in Schema /\ p.desc \in Desc /\ p.fields \in SUBSET Field /\ p.org = NoOrg
      /\ Personal \subseteq Schema
  BY DEF Personal, Schema
<1>2. PICK a : a = active[p.desc]
  OBVIOUS
<1>3. a \in Personal \cup {NoSchema}
  BY <1>1, <1>2 DEF IngestInv, SharedInv
<1>4. CASE a = NoSchema
  <2>1. ServiceAnswer(p) = p
    BY <1>2, <1>4 DEF ServiceAnswer
  <2>2. ServiceReplaced(p) = NoSchema
    BY <1>2, <1>4 DEF ServiceReplaced
  <2> QED
    BY <1>1, <2>1, <2>2
<1>5. CASE a # NoSchema
  <2>1. a \in Personal /\ a.fields \in SUBSET Field
    BY <1>3, <1>5 DEF Personal, Schema
  <2>2. PICK fields : fields = p.fields \cup a.fields
    OBVIOUS
  <2>3. ServiceAnswer(p) = [p EXCEPT !.fields = fields]
    BY <1>2, <1>5, <2>2 DEF ServiceAnswer
  <2>4. PICK b : b = [p EXCEPT !.fields = fields]
    OBVIOUS
  <2>5. b \in Schema /\ b.fields = fields /\ b.org = NoOrg
    BY <1>1, <2>1, <2>2, <2>4 DEF Schema
  <2>6. ServiceReplaced(p) \in {a, NoSchema}
    BY <1>2 DEF ServiceReplaced
  <2>7. a.fields \subseteq b.fields
    BY <2>2, <2>5
  <2>8. b \in Personal
    BY <2>5 DEF Personal
  <2> QED
    BY <1>1, <2>1, <2>3, <2>4, <2>6, <2>7, <2>8
<1> QED
  BY <1>4, <1>5

(***************************************************************************)
(* CreateSchema.                                                           *)
(***************************************************************************)
LEMMA CreateStep ==
    ASSUME IngestInv, NEW t \in Task, CreateSchema(t)
    PROVE  IngestInv'
<1>1. BusyInv(job[t], DOMAIN shared, store, records) /\ job[t].pc = "resolve" /\ job[t].todo # <<>>
  BY Acting DEF CreateSchema, NeedsSchema
<1>2. PICK p : p = job[t].props[Current(t)]
  OBVIOUS
<1>3. p \in Personal
  BY <1>2, HasProposal DEF CreateSchema
<1>4. /\ ServiceAnswer(p) \in Personal /\ ServiceReplaced(p) \in Schema \cup {NoSchema}
      /\ ServiceReplaced(p) # NoSchema => ServiceReplaced(p).fields \subseteq ServiceAnswer(p).fields
      /\ p.desc \in Desc
  BY <1>3, ServiceFacts
<1>5. UNCHANGED <<shared, store, records, ingested, uploads, requests, restarts>> /\ lock' = t
  BY DEF CreateSchema, persistent
<1>6. /\ active \in [Desc -> Personal \cup {NoSchema}] /\ registered \in Partial(Personal, Personal)
      /\ shared \in Partial(Structure, Schema) /\ store \in Partial(Schema, Entry)
      /\ records \subseteq Record /\ uploads \subseteq File /\ ingested \subseteq File \X BOOLEAN
      /\ requests \in 0..MaxRequests /\ restarts \in 0..MaxRestarts
  BY DEF IngestInv, SharedInv
<1>s. PICK s, old :
        /\ s \in Personal /\ old \in Schema \cup {NoSchema}
        /\ old # NoSchema => old.fields \subseteq s.fields
        /\ job' = [job EXCEPT ![t].answer = s, ![t].replaced = old, ![t].pc = "load_old"]
        /\ active' \in [Desc -> Personal \cup {NoSchema}]
        /\ registered' \in Partial(Personal, Personal)
  <2>1. CASE p \in DOMAIN registered
    <3>1. /\ job' = [job EXCEPT ![t].answer = registered[p], ![t].replaced = NoSchema,
                                ![t].pc = "load_old"]
          /\ active' = active /\ registered' = registered
      BY <1>2, <2>1 DEF CreateSchema, AddToService
    <3>2. registered[p] \in Personal
      BY <1>6, <2>1, PartialType
    <3> QED
      BY <1>6, <3>1, <3>2
  <2>2. CASE p \notin DOMAIN registered
    <3>1. /\ job' = [job EXCEPT ![t].answer = ServiceAnswer(p), ![t].replaced = ServiceReplaced(p),
                                ![t].pc = "load_old"]
          /\ active' = [active EXCEPT ![p.desc] = ServiceAnswer(p)]
          /\ registered' = With(registered, p, ServiceAnswer(p))
      BY <1>2, <2>2 DEF CreateSchema, AddToService
    <3>2. registered' \in Partial(Personal, Personal)
      BY <1>3, <1>4, <1>6, <3>1, WithType
    <3>3. active' \in [Desc -> Personal \cup {NoSchema}]
      BY <1>4, <1>6, <3>1
    <3> QED
      BY <1>4, <3>1, <3>2, <3>3
  <2> QED
    BY <2>1, <2>2
<1>7. SharedInv'
  BY <1>5, <1>6, <1>s DEF SharedInv
<1>8. s \in Schema
  BY <1>s DEF Personal
<1>9. PICK v : v = [job[t] EXCEPT !.answer = s, !.replaced = old, !.pc = "load_old"]
  OBVIOUS
<1>10. BusyInv(v, DOMAIN shared, store, records)
  BY <1>1, <1>8, <1>9, <1>s, AnswerInv
<1>11. job' = [job EXCEPT ![t] = v]
  BY <1>9, <1>s
<1> QED
  BY <1>5, <1>7, <1>10, <1>11, QuietMove

(***************************************************************************)
(* LoadOld, LoadNew.                                                       *)
(***************************************************************************)
LEMMA LoadOldStep ==
    ASSUME IngestInv, NEW t \in Task, LoadOld(t)
    PROVE  IngestInv'
<1>1. BusyInv(job[t], DOMAIN shared, store, records) /\ job[t].pc = "load_old"
  BY Acting DEF LoadOld
<1>2. job[t].replaced \in Schema \cup {NoSchema} /\ StoreInv(store)
  BY <1>1 DEF BusyInv, JobRecord, IngestInv
<1>3. /\ StoreInv(store') /\ Grown(store, store')
      /\ job[t].replaced # NoSchema => job[t].replaced \in DOMAIN store'
  <2>1. CASE job[t].replaced # NoSchema /\ job[t].replaced \notin DOMAIN store
    <3>1. Load(job[t].replaced) /\ job[t].replaced \in Schema
      BY <1>2, <2>1 DEF LoadOld
    <3> QED
      BY <3>1, LoadStep
  <2>2. CASE job[t].replaced = NoSchema \/ job[t].replaced \in DOMAIN store
    <3>1. store' = store
      BY <2>2 DEF LoadOld
    <3> QED
      BY <1>2, <2>2, <3>1, SameStore
  <2> QED
    BY <2>1, <2>2
<1>4. SharedInv' /\ UNCHANGED <<shared, records, ingested>>
  BY <1>3 DEF IngestInv, SharedInv, StoreInv, LoadOld
<1>5. BusyInv(job[t], DOMAIN shared, store', records)
  BY <1>1, <1>3, StoreChange
<1>6. Hop(job[t], "load_new", store', records)
  BY <1>1, <1>3 DEF Hop
<1>7. PICK v : v = [job[t] EXCEPT !.pc = "load_new"]
  OBVIOUS
<1>8. BusyInv(v, DOMAIN shared, store', records)
  BY <1>5, <1>6, <1>7, HopInv
<1>9. job' = [job EXCEPT ![t] = v]
  BY <1>7 DEF LoadOld, Goto
<1> QED
  BY <1>3, <1>4, <1>8, <1>9, StoreMove

\* LoadNew: the answer is a schema of the node afterwards.
LEMMA LoadNewStep ==
    ASSUME IngestInv, NEW t \in Task, LoadNew(t)
    PROVE  IngestInv'
<1>1. BusyInv(job[t], DOMAIN shared, store, records) /\ job[t].pc = "load_new"
  BY Acting DEF LoadNew
<1>2. job[t].answer \in Schema /\ StoreInv(store)
  BY <1>1 DEF BusyInv, JobRecord, Installed, IngestInv
<1>3. StoreInv(store') /\ Grown(store, store') /\ job[t].answer \in DOMAIN store'
  <2>1. CASE job[t].replaced = NoSchema /\ job[t].answer \in DOMAIN store
    <3>1. store' = store
      BY <2>1 DEF LoadNew
    <3> QED
      BY <1>2, <2>1, <3>1, SameStore
  <2>2. CASE ~ (job[t].replaced = NoSchema /\ job[t].answer \in DOMAIN store)
    <3>1. Load(job[t].answer)
      BY <2>2 DEF LoadNew
    <3> QED
      BY <1>2, <3>1, LoadStep
  <2> QED
    BY <2>1, <2>2
<1>4. SharedInv' /\ UNCHANGED <<shared, records, ingested>>
  BY <1>3 DEF IngestInv, SharedInv, StoreInv, LoadNew
<1>5. BusyInv(job[t], DOMAIN shared, store', records)
  BY <1>1, <1>3, StoreChange
<1>6. Hop(job[t], "approve", store', records)
  BY <1>1, <1>3 DEF Hop
<1>7. PICK v : v = [job[t] EXCEPT !.pc = "approve"]
  OBVIOUS
<1>8. BusyInv(v, DOMAIN shared, store', records)
  BY <1>5, <1>6, <1>7, HopInv
<1>9. job' = [job EXCEPT ![t] = v]
  BY <1>7 DEF LoadNew, Goto
<1> QED
  BY <1>3, <1>4, <1>8, <1>9, StoreMove

(***************************************************************************)
(* ApproveNew and BlockOld: the answer is settled before the schema it     *)
(* replaces is blocked.                                                    *)
(***************************************************************************)
LEMMA ApproveNewStep ==
    ASSUME IngestInv, NEW t \in Task, ApproveNew(t)
    PROVE  IngestInv'
<1>1. BusyInv(job[t], DOMAIN shared, store, records) /\ job[t].pc = "approve"
  BY Acting DEF ApproveNew
<1>2. job[t].answer \in DOMAIN store /\ StoreInv(store) /\ DOMAIN store \subseteq Schema
  BY <1>1, PartialType DEF BusyInv, Installed, IngestInv, StoreInv
<1>3. StoreInv(store') /\ Grown(store, store') /\ Settled(store', job[t].answer)
  BY <1>2, ApproveInv DEF ApproveNew, Approve
<1>4. SharedInv' /\ UNCHANGED <<shared, records, ingested>>
  BY <1>3 DEF IngestInv, SharedInv, StoreInv, ApproveNew
<1>5. BusyInv(job[t], DOMAIN shared, store', records)
  BY <1>1, <1>3, StoreChange
<1>6. CASE job[t].replaced = NoSchema
  <2>1. job[t].pc \in Resolving /\ job[t].todo # <<>>
    BY <1>1 DEF BusyInv, Proposed, Resolving
  <2>2. job[t].answer \in Schema /\ job[t].answer \in DOMAIN store'
    BY <1>2, <1>3 DEF Grown
  <2>3. Resolved(t, job[t].answer)
    BY <1>6 DEF ApproveNew
  <2>4. PICK v : job' = [job EXCEPT ![t] = v] /\ BusyInv(v, DOMAIN shared, store', records)
    BY <1>5, <2>1, <2>2, <2>3, ResolvedStep
  <2> QED
    BY <1>3, <1>4, <2>4, StoreMove
<1>7. CASE job[t].replaced # NoSchema
  <2>1. Hop(job[t], "block", store', records)
    BY <1>1, <1>3, <1>7 DEF Hop
  <2>2. PICK v : v = [job[t] EXCEPT !.pc = "block"]
    OBVIOUS
  <2>3. BusyInv(v, DOMAIN shared, store', records)
    BY <1>5, <2>1, <2>2, HopInv
  <2>4. job' = [job EXCEPT ![t] = v]
    BY <1>7, <2>2 DEF ApproveNew, Goto
  <2> QED
    BY <1>3, <1>4, <2>3, <2>4, StoreMove
<1> QED
  BY <1>6, <1>7

\* BlockOld: the only step that blocks a schema.
LEMMA BlockOldStep ==
    ASSUME IngestInv, NEW t \in Task, BlockOld(t)
    PROVE  IngestInv'
<1>1. BusyInv(job[t], DOMAIN shared, store, records) /\ job[t].pc = "block"
  BY Acting DEF BlockOld
<1>2. /\ job[t].answer \in DOMAIN store /\ Settled(store, job[t].answer)
      /\ job[t].replaced \in DOMAIN store /\ job[t].replaced.fields \subseteq job[t].answer.fields
  BY <1>1 DEF BusyInv, Installed
<1>3. StoreInv(store) /\ DOMAIN store \subseteq Schema
  BY PartialType DEF IngestInv, StoreInv
<1>4. PICK old, s : old = job[t].replaced /\ s = job[t].answer
  OBVIOUS
<1>5. StoreInv(store') /\ Grown(store, store')
  <2>1. old \in DOMAIN store /\ s \in Schema /\ Settled(store, s) /\ old.fields \subseteq s.fields
    BY <1>2, <1>3, <1>4
  <2>2. store' = [store EXCEPT ![old].state = "Blocked", ![old].next = s]
    BY <1>4 DEF BlockOld
  <2> QED
    BY ONLY <1>3, <2>1, <2>2, BlockInv
<1>6. SharedInv' /\ UNCHANGED <<shared, records, ingested>>
  BY <1>5 DEF IngestInv, SharedInv, StoreInv, BlockOld
<1>7. BusyInv(job[t], DOMAIN shared, store', records)
  BY <1>1, <1>5, StoreChange
<1>8. job[t].pc \in Resolving /\ job[t].todo # <<>>
  BY <1>1 DEF BusyInv, Proposed, Resolving
<1>9. job[t].answer \in Schema /\ job[t].answer \in DOMAIN store'
  BY <1>2, <1>3, <1>5 DEF Grown
<1>10. PICK v : job' = [job EXCEPT ![t] = v] /\ BusyInv(v, DOMAIN shared, store', records)
  BY <1>7, <1>8, <1>9, ResolvedStep DEF BlockOld
<1> QED
  BY <1>5, <1>6, <1>10, StoreMove

(***************************************************************************)
(* ReadRefFields, WriteRefFields, EndResolve.                              *)
(***************************************************************************)
LEMMA ReadRefFieldsStep ==
    ASSUME IngestInv, NEW t \in Task, ReadRefFields(t)
    PROVE  IngestInv'
<1>1. BusyInv(job[t], DOMAIN shared, store, records) /\ job[t].pc = "refs_read"
  BY Acting DEF ReadRefFields
<1>2. SharedInv' /\ UNCHANGED <<shared, store, records, ingested>>
  BY DEF IngestInv, SharedInv, ReadRefFields, persistent
<1>3. job[t].answer \in DOMAIN store /\ \A s \in DOMAIN store : store[s] \in Entry
  BY <1>1, PartialType DEF BusyInv, Installed, IngestInv, StoreInv
<1>4. PICK meta : meta = store[job[t].answer].refs
  OBVIOUS
<1>5. meta \in SUBSET RefField
  BY <1>3, <1>4 DEF Entry
<1>6. PICK v : v = [job[t] EXCEPT !.meta = meta, !.pc = "refs_write"]
  OBVIOUS
<1>7. BusyInv(v, DOMAIN shared, store, records)
  BY <1>1, <1>5, <1>6, ReadRefsInv
<1>8. job' = [job EXCEPT ![t] = v]
  BY <1>4, <1>6 DEF ReadRefFields
<1> QED
  BY <1>2, <1>7, <1>8, QuietMove

\* WriteRefFields changes neither the state nor the successor of a schema.
LEMMA WriteRefFieldsStep ==
    ASSUME IngestInv, NEW t \in Task, WriteRefFields(t)
    PROVE  IngestInv'
<1>1. BusyInv(job[t], DOMAIN shared, store, records) /\ job[t].pc = "refs_write"
  BY Acting DEF WriteRefFields
<1>2. job[t].answer \in DOMAIN store /\ StoreInv(store) /\ job[t] \in JobRecord
  BY <1>1 DEF BusyInv, Installed, IngestInv
<1>3. PICK refs : refs = job[t].meta \cup {Recs(t)[k].field : k \in Kids(t, Head(job[t].todo))}
  OBVIOUS
<1>4. refs \in SUBSET RefField
  <2>1. job[t].meta \in SUBSET RefField
    BY <1>2 DEF JobRecord
  <2>2. DOMAIN Recs(t) = 1..Len(Recs(t)) /\ \A i \in 1..Len(Recs(t)) : Recs(t)[i].field \in RefField
    <3>1. PICK z : z = job[t] /\ z \in JobRecord
      BY <1>2
    <3>2. /\ DOMAIN DocOf(z) = 1..Len(DocOf(z))
          /\ \A i \in 1..Len(DocOf(z)) : DocOf(z)[i].field \in RefField
      BY ONLY <3>1, RequestDoc
    <3>3. Recs(t) = DocOf(z)
      BY <3>1, TaskDoc
    <3> QED
      BY <3>2, <3>3
  <2> QED
    BY <1>3, <2>1, <2>2 DEF Kids
<1>5. PICK s : s = job[t].answer
  OBVIOUS
<1>6. store' = [store EXCEPT ![s].refs = refs]
  BY <1>3, <1>5 DEF WriteRefFields
<1>7. StoreInv(store') /\ Grown(store, store')
  <2>1. s \in DOMAIN store
    BY <1>2, <1>5
  <2> QED
    BY <1>2, <1>4, <1>6, <2>1, RefFieldsInv
<1>8. SharedInv' /\ UNCHANGED <<shared, records, ingested>>
  BY <1>7 DEF IngestInv, SharedInv, StoreInv, WriteRefFields
<1>9. BusyInv(job[t], DOMAIN shared, store', records)
  BY <1>1, <1>7, StoreChange
<1>10. PICK v : v = [job[t] EXCEPT !.todo = Tail(job[t].todo), !.pc = "resolve"]
  OBVIOUS
<1>11. BusyInv(v, DOMAIN shared, store', records)
  BY <1>1, <1>9, <1>10, WroteRefsInv
<1>12. job' = [job EXCEPT ![t] = v]
  BY <1>10 DEF WriteRefFields
<1> QED
  BY <1>7, <1>8, <1>11, <1>12, StoreMove

\* EndResolve.
LEMMA EndResolveStep ==
    ASSUME IngestInv, NEW t \in Task, EndResolve(t)
    PROVE  IngestInv'
<1>1. BusyInv(job[t], DOMAIN shared, store, records) /\ job[t].pc = "resolve" /\ job[t].todo = <<>>
  BY Acting DEF EndResolve
<1>2. SharedInv' /\ UNCHANGED <<shared, store, records, ingested>>
  BY DEF IngestInv, SharedInv, EndResolve, persistent
<1>3. PICK pc \in {"write", "org"} : pc = IF job[t].writing THEN "write" ELSE "org"
  OBVIOUS
<1>4. Hop(job[t], pc, store, records)
  BY <1>1 DEF Hop
<1>5. PICK v : v = [job[t] EXCEPT !.pc = pc]
  OBVIOUS
<1>6. BusyInv(v, DOMAIN shared, store, records)
  BY <1>1, <1>4, <1>5, HopInv
<1>7. job' = [job EXCEPT ![t] = v]
  BY <1>3, <1>5 DEF EndResolve, Goto
<1> QED
  BY <1>2, <1>6, <1>7, QuietMove

(***************************************************************************)
(* OrgLoad, OrgApprove.                                                    *)
(***************************************************************************)
LEMMA ScopedType ==
    ASSUME NEW s \in Schema, NEW org \in Org \cup {NoOrg}
    PROVE  Scoped(s, org) \in Schema
BY DEF Scoped, Schema

\* OrgLoad: the copy is new to the store.
LEMMA OrgLoadStep ==
    ASSUME IngestInv, NEW t \in Task, OrgLoad(t)
    PROVE  IngestInv'
<1>1. BusyInv(job[t], DOMAIN shared, store, records) /\ job[t].pc = "org"
  BY Acting DEF OrgLoad
<1>2. /\ StoreInv(store) /\ DOMAIN store \subseteq Schema /\ \A x \in DOMAIN store : store[x] \in Entry
  BY PartialType DEF IngestInv, StoreInv
<1>3. PICK s \in Unscoped(t) :
           /\ store' = With(store, Scoped(s, job[t].org),
                            [state |-> "Available", next |-> NoSchema, refs |-> store[s].refs])
           /\ job' = [job EXCEPT ![t].answer = Scoped(s, job[t].org), ![t].pc = "org_approve"]
  BY DEF OrgLoad
<1>4. PICK c, e : /\ c = Scoped(s, job[t].org)
                  /\ e = [state |-> "Available", next |-> NoSchema, refs |-> store[s].refs]
  OBVIOUS
<1>5. s \in DOMAIN store /\ c \notin DOMAIN store
  BY <1>1, <1>3, <1>4 DEF Unscoped, Range, BusyInv, Installed
<1>6. job[t] \in JobRecord /\ job[t].org \in Org \cup {NoOrg} /\ job[t].replaced \in Schema \cup {NoSchema}
  BY <1>1 DEF BusyInv, JobRecord
<1>7. c \in Schema
  BY <1>2, <1>4, <1>5, <1>6, ScopedType
<1>8. e \in Entry /\ e.state = "Available"
  BY <1>2, <1>4, <1>5 DEF Entry
<1>9. store' = With(store, c, e)
  BY <1>3, <1>4
<1>10. StoreInv(store') /\ Grown(store, store') /\ c \in DOMAIN store'
  <2>1. IF c \in DOMAIN store THEN e.state = store[c].state /\ e.next = store[c].next
                              ELSE e.state = "Available"
    BY <1>5, <1>8
  <2> QED
    BY ONLY <1>2, <1>7, <1>8, <1>9, <2>1, LoadInv
<1>11. SharedInv' /\ UNCHANGED <<shared, records, ingested>>
  BY <1>10 DEF IngestInv, SharedInv, StoreInv, OrgLoad
<1>12. BusyInv(job[t], DOMAIN shared, store', records)
  BY <1>1, <1>10, StoreChange
<1>13. PICK v : v = [job[t] EXCEPT !.answer = c, !.replaced = job[t].replaced, !.pc = "org_approve"]
  OBVIOUS
<1>14. v = [job[t] EXCEPT !.answer = c, !.pc = "org_approve"]
  BY <1>6, <1>13 DEF JobRecord
<1>15. BusyInv(v, DOMAIN shared, store', records)
  BY <1>1, <1>6, <1>7, <1>10, <1>12, <1>13, AnswerInv
<1>16. job' = [job EXCEPT ![t] = v]
  BY <1>3, <1>4, <1>14
<1> QED
  BY <1>10, <1>11, <1>15, <1>16, StoreMove

\* OrgApprove.
LEMMA OrgApproveStep ==
    ASSUME IngestInv, NEW t \in Task, OrgApprove(t)
    PROVE  IngestInv'
<1>1. BusyInv(job[t], DOMAIN shared, store, records) /\ job[t].pc = "org_approve"
  BY Acting DEF OrgApprove
<1>2. job[t].answer \in DOMAIN store /\ StoreInv(store)
  BY <1>1 DEF BusyInv, Installed, IngestInv
<1>3. StoreInv(store') /\ Grown(store, store')
  BY <1>2, ApproveInv DEF OrgApprove, Approve
<1>4. SharedInv' /\ UNCHANGED <<shared, records, ingested>>
  BY <1>3 DEF IngestInv, SharedInv, StoreInv, OrgApprove
<1>5. BusyInv(job[t], DOMAIN shared, store', records)
  BY <1>1, <1>3, StoreChange
<1>6. Hop(job[t], "org", store', records)
  BY <1>1 DEF Hop
<1>7. PICK v : v = [job[t] EXCEPT !.pc = "org"]
  OBVIOUS
<1>8. BusyInv(v, DOMAIN shared, store', records)
  BY <1>5, <1>6, <1>7, HopInv
<1>9. job' = [job EXCEPT ![t] = v]
  BY <1>7 DEF OrgApprove, Goto
<1> QED
  BY <1>3, <1>4, <1>8, <1>9, StoreMove

(***************************************************************************)
(* Commit: the shared cache only gains entries.                            *)
(***************************************************************************)
LEMMA RemappedFacts ==
    ASSUME IngestInv, NEW t \in Task, Commit(t)
    PROVE  /\ Remapped(t) \in Partial(Structure, Schema) /\ DOMAIN Remapped(t) = DOMAIN job[t].local
           /\ \A s \in DOMAIN Remapped(t) : Remapped(t)[s] \in DOMAIN store
<1>1. BusyInv(job[t], DOMAIN shared, store, records) /\ job[t].pc = "org"
  BY Acting DEF Commit
<1>2. DOMAIN store \subseteq Schema
  BY PartialType DEF IngestInv, StoreInv
<1>3. PICK local, org : local = job[t].local /\ org = job[t].org
  OBVIOUS
<1>4. local \in Partial(Structure, Schema) /\ org \in Org \cup {NoOrg}
  BY <1>1, <1>3 DEF BusyInv, JobRecord
<1>5. DOMAIN local \subseteq Structure /\ \A s \in DOMAIN local : local[s] \in DOMAIN store
  <2>1. DOMAIN local \subseteq Structure
    BY <1>4, PartialType
  <2> QED
    BY <1>1, <1>3, <2>1 DEF BusyInv, Installed
<1>6. org = NoOrg \/ \A s \in DOMAIN local : Scoped(local[s], org) \in DOMAIN store
  BY <1>3 DEF Commit, Unscoped, Range
<1>7. Remapped(t) = [s \in DOMAIN local |-> IF org = NoOrg THEN local[s] ELSE Scoped(local[s], org)]
  BY <1>3 DEF Remapped
<1>8. PICK m : m = Remapped(t)
  OBVIOUS
<1>9. DOMAIN m = DOMAIN local /\ \A s \in DOMAIN local : m[s] \in DOMAIN store
  BY <1>5, <1>6, <1>7, <1>8
<1>10. m \in [DOMAIN local -> Schema]
  BY <1>2, <1>5, <1>6, <1>7, <1>8
<1>11. m \in Partial(Structure, Schema)
  BY <1>5, <1>10, PartialIntro
<1> QED
  BY <1>3, <1>8, <1>9, <1>11

\* Commit keeps the invariant.
LEMMA CommitStep ==
    ASSUME IngestInv, NEW t \in Task, Commit(t)
    PROVE  IngestInv'
<1>1. BusyInv(job[t], DOMAIN shared, store, records) /\ job[t].pc = "org"
  BY Acting DEF Commit
<1>2. PICK m : m = Remapped(t)
  OBVIOUS
<1>3. /\ m \in Partial(Structure, Schema) /\ DOMAIN m = DOMAIN job[t].local
      /\ \A s \in DOMAIN m : m[s] \in DOMAIN store
  BY <1>2, RemappedFacts
<1>4. shared \in Partial(Structure, Schema) /\ StoreInv(store)
  BY DEF IngestInv, SharedInv
<1>5. shared' \in Partial(Structure, Schema) /\ DOMAIN shared \subseteq DOMAIN shared'
  <2>1. shared' = Overlay(shared, m) \/ shared' = shared
    BY <1>2 DEF Commit
  <2>2. CASE shared' = Overlay(shared, m)
    <3>1. Overlay(shared, m) \in Partial(Structure, Schema)
      BY <1>3, <1>4, OverlayType
    <3>2. Joins(Overlay(shared, m), shared, m)
      BY OverlayJoins
    <3> QED
      BY <2>2, <3>1, <3>2 DEF Joins
  <2> QED
    BY <1>4, <2>1, <2>2
<1>6. UNCHANGED <<store, records, ingested>>
  BY DEF Commit, persistent
<1>7. SharedInv'
  BY <1>5 DEF IngestInv, SharedInv, Commit, persistent
<1>8. Grown(store, store') /\ Kept(records, records') /\ StoreInv(store') /\ ingested' = ingested
  BY <1>4, <1>6, SameStore DEF Kept
<1>9. BusyInv(job[t], DOMAIN shared', store', records')
  BY <1>1, <1>5, <1>8, BusyKept
<1>10. PICK v : v = [job[t] EXCEPT !.local = m, !.writing = TRUE, !.pc = "write"]
  OBVIOUS
<1>11. BusyInv(v, DOMAIN shared', store', records')
  <2>1. \A s \in DOMAIN m : m[s] \in DOMAIN store'
    BY <1>3, <1>6
  <2> QED
    BY <1>1, <1>3, <1>9, <1>10, <2>1, CommitInv
<1>12. job' = [job EXCEPT ![t] = v]
  BY <1>2, <1>10 DEF Commit
<1> QED
  BY <1>5, <1>7, <1>8, <1>11, <1>12, Moves

(***************************************************************************)
(* A record of the document can be built once its structure has a schema.  *)
(***************************************************************************)
LEMMA LookupType ==
    ASSUME IngestInv, NEW t \in Task, BusyInv(job[t], DOMAIN shared, store, records),
           NEW s, Has(job[t], DOMAIN shared, s)
    PROVE  Lookup(t, s) \in Schema
<1>1. PICK local : local = job[t].local
  OBVIOUS
<1>2. local \in Partial(Structure, Schema) /\ shared \in Partial(Structure, Schema)
  BY <1>1 DEF BusyInv, JobRecord, IngestInv, SharedInv
<1>3. (\A x \in DOMAIN local : local[x] \in Schema) /\ \A x \in DOMAIN shared : shared[x] \in Schema
  BY <1>2, PartialType
<1> QED
  BY <1>1, <1>3 DEF Has, Lookup

\* The record built for a place of the document carries its identity.
LEMMA NewRecordType ==
    ASSUME IngestInv, NEW t \in Task, BusyInv(job[t], DOMAIN shared, store, records),
           NEW i \in 1..Len(DocOf(job[t])), Has(job[t], DOMAIN shared, DocOf(job[t])[i].s)
    PROVE  NewRecord(t, i) \in Record /\ NewRecord(t, i).id = <<job[t].file, i>>
<1>1. PICK schema : schema = Lookup(t, Recs(t)[i].s)
  OBVIOUS
<1>2. schema \in Schema
  <2>1. Recs(t) = DocOf(job[t])
    BY TaskDoc
  <2>2. Lookup(t, DocOf(job[t])[i].s) \in Schema
    BY LookupType
  <2> QED
    BY <1>1, <2>1, <2>2
<1>3. PICK id, refs :
         /\ id = Id(t, i)
         /\ refs = {r \in job[t].refs : \E k \in Kids(t, i) :
                      r.id = Id(t, k) /\ Recs(t)[k].field \in store[schema].refs}
  OBVIOUS
<1>4. job[t].file \in File /\ job[t].refs \in SUBSET Ref /\ job[t].org \in Org \cup {NoOrg}
  BY DEF BusyInv, JobRecord
<1>5. id = <<job[t].file, i>> /\ id \in RecId
  BY <1>3, <1>4 DEF Id, RecId
<1>6. refs \in SUBSET Ref
  BY <1>3, <1>4
<1>7. NewRecord(t, i) = [schema |-> schema, id |-> id, for |-> job[t].org, refs |-> refs]
  BY <1>1, <1>3 DEF NewRecord
<1> QED
  BY <1>2, <1>4, <1>5, <1>6, <1>7 DEF Record

(***************************************************************************)
(* mutate_batch: a record is replaced by one with its identity.            *)
(***************************************************************************)
LEMMA PutKeeps ==
    ASSUME NEW new \in SUBSET Record, records \subseteq Record, Put(new)
    PROVE  records' \subseteq Record /\ Kept(records, records') /\ new \subseteq records'
<1>1. records' = new \cup {r \in records : \A n \in new : <<r.schema, r.id>> # <<n.schema, n.id>>}
  BY DEF Put
<1>2. ASSUME NEW r \in records PROVE \E q \in records' : q.id = r.id
  <2>1. CASE \A n \in new : <<r.schema, r.id>> # <<n.schema, n.id>>
    BY <1>1, <2>1
  <2>2. CASE \E n \in new : <<r.schema, r.id>> = <<n.schema, n.id>>
    BY <1>1, <2>2
  <2> QED
    BY <2>1, <2>2
<1> QED
  BY <1>1, <1>2 DEF Kept

(***************************************************************************)
(* A step of one task that writes records.                                 *)
(***************************************************************************)
LEMMA RecordMove ==
    ASSUME IngestInv, NEW t \in Task, NEW v, job' = [job EXCEPT ![t] = v], SharedInv',
           UNCHANGED <<shared, store, ingested>>, Kept(records, records'),
           BusyInv(v, DOMAIN shared, store, records')
    PROVE  IngestInv'
<1>1. Grown(store, store') /\ DOMAIN shared \subseteq DOMAIN shared'
      /\ StoreInv(store') /\ ingested' = ingested
  BY DEF Grown, IngestInv
<1>2. BusyInv(v, DOMAIN shared', store', records')
  OBVIOUS
<1> QED
  BY <1>1, <1>2, Moves

\* A request survives the replacement of records by others with their identity.
LEMMA RecordChange ==
    ASSUME IngestInv, NEW j, BusyInv(j, DOMAIN shared, store, records), Kept(records, records')
    PROVE  BusyInv(j, DOMAIN shared, store, records')
<1>1. Grown(store, store)
  BY DEF Grown
<1>2. DOMAIN shared \subseteq DOMAIN shared
  OBVIOUS
<1> QED
  BY <1>1, <1>2, BusyKept

(***************************************************************************)
(* WriteRecord, WriteFlat.                                                 *)
(***************************************************************************)
LEMMA WriteRecordStep ==
    ASSUME IngestInv, NEW t \in Task, WriteRecord(t)
    PROVE  IngestInv'
<1>1. BusyInv(job[t], DOMAIN shared, store, records) /\ job[t].pc = "write"
  BY Acting DEF WriteRecord
<1>2. PICK i : i = job[t].at
  OBVIOUS
<1>3. i \in 1..Len(DocOf(job[t])) /\ Recs(t) = DocOf(job[t]) /\ Nested(job[t])
  BY <1>1, <1>2, TaskDoc DEF BusyInv, InDoc, WriteRecord
<1>4. Has(job[t], DOMAIN shared, DocOf(job[t])[i].s)
  BY <1>2, TaskDoc DEF WriteRecord
<1>5. /\ records' \subseteq Record /\ Kept(records, records')
      /\ job[t].auto => \E r \in records' : r.id = <<job[t].file, i>>
  <2>0. records \subseteq Record
    BY DEF IngestInv, SharedInv
  <2>1. CASE job[t].auto
    <3>1. PICK n : n = NewRecord(t, i)
      OBVIOUS
    <3>2. n \in Record /\ n.id = <<job[t].file, i>>
      BY <1>1, <1>3, <1>4, <3>1, NewRecordType
    <3>3. Put({n})
      BY <1>2, <2>1, <3>1 DEF WriteRecord
    <3>4. {n} \in SUBSET Record
      BY <3>2
    <3>5. records' \subseteq Record /\ Kept(records, records') /\ {n} \subseteq records'
      BY <2>0, <3>3, <3>4, PutKeeps
    <3> QED
      BY <3>2, <3>5
  <2>2. CASE ~ job[t].auto
    <3>1. records' = records
      BY <2>2 DEF WriteRecord
    <3> QED
      BY <2>0, <2>2, <3>1 DEF Kept
  <2> QED
    BY <2>1, <2>2
<1>6. SharedInv' /\ UNCHANGED <<shared, store, ingested>>
  BY <1>5 DEF IngestInv, SharedInv, WriteRecord
<1>7. BusyInv(job[t], DOMAIN shared, store, records')
  BY <1>1, <1>5, RecordChange
<1>8. PICK pc, at : /\ pc = Written(t, i)
                    /\ at = IF pc = "write" THEN i + 1 ELSE i
  OBVIOUS
<1>9. pc = IF DocOf(job[t])[i].of # 0 THEN "ref" ELSE IF i < Len(DocOf(job[t])) THEN "write" ELSE "record"
  <2>1. Len(DocOf(job[t])) \in Nat
    <3>1. PICK z : z = job[t] /\ z \in JobRecord
      BY <1>1 DEF BusyInv
    <3>2. Len(DocOf(z)) \in Nat
      BY ONLY <3>1, RequestDoc
    <3> QED
      BY <3>1, <3>2
  <2>2. i < Len(DocOf(job[t])) \/ i = Len(DocOf(job[t]))
    BY <1>3, <2>1
  <2> QED
    BY <1>3, <1>8, <2>2 DEF Written
<1>10. PICK v : v = [job[t] EXCEPT !.pc = pc, !.at = at]
  OBVIOUS
<1>11. BusyInv(v, DOMAIN shared, store, records')
  BY <1>1, <1>2, <1>3, <1>4, <1>5, <1>7, <1>8, <1>9, <1>10, WroteInv
<1>12. job' = [job EXCEPT ![t] = v]
  BY <1>2, <1>8, <1>10 DEF WriteRecord
<1> QED
  BY <1>5, <1>6, <1>11, <1>12, RecordMove

\* WriteFlat: all records of a flat document have the one schema.
LEMMA WriteFlatStep ==
    ASSUME IngestInv, NEW t \in Task, WriteFlat(t)
    PROVE  IngestInv'
<1>1. BusyInv(job[t], DOMAIN shared, store, records) /\ job[t].pc = "write"
  BY Acting DEF WriteFlat
<1>2. Recs(t) = DocOf(job[t]) /\ ~ Nested(job[t])
  BY TaskDoc DEF WriteFlat
<1>3. /\ DOMAIN DocOf(job[t]) = 1..Len(DocOf(job[t]))
      /\ \A i \in 1..Len(DocOf(job[t])) : DocOf(job[t])[i].s = DocOf(job[t])[1].s
  <2>1. PICK z : z = job[t] /\ z \in JobRecord
    BY <1>1 DEF BusyInv
  <2>2. /\ DOMAIN DocOf(z) = 1..Len(DocOf(z))
        /\ ~ Nested(z) => \A i \in 1..Len(DocOf(z)) : DocOf(z)[i].s = DocOf(z)[1].s
    BY ONLY <2>1, RequestDoc
  <2> QED
    BY <1>2, <2>1, <2>2
<1>4. \A i \in 1..Len(DocOf(job[t])) : Has(job[t], DOMAIN shared, DocOf(job[t])[i].s)
  <2>1. DocOf(job[t])[1].s \in DOMAIN job[t].local
    BY <1>1, <1>2 DEF BusyInv, Located
  <2> QED
    BY <1>3, <2>1 DEF Has
<1>5. /\ records' \subseteq Record /\ Kept(records, records')
      /\ job[t].auto => \A i \in 1..Len(DocOf(job[t])) : \E r \in records' : r.id = <<job[t].file, i>>
  <2>0. records \subseteq Record
    BY DEF IngestInv, SharedInv
  <2>1. CASE job[t].auto
    <3>1. PICK new : new = {NewRecord(t, i) : i \in 1..Len(DocOf(job[t]))}
      OBVIOUS
    <3>2. \A i \in 1..Len(DocOf(job[t])) :
             NewRecord(t, i) \in Record /\ NewRecord(t, i).id = <<job[t].file, i>>
      BY <1>1, <1>4, NewRecordType
    <3>3. Put(new)
      BY <1>2, <1>3, <2>1, <3>1 DEF WriteFlat
    <3>4. new \in SUBSET Record
      BY <3>1, <3>2
    <3>5. records' \subseteq Record /\ Kept(records, records') /\ new \subseteq records'
      BY <2>0, <3>3, <3>4, PutKeeps
    <3>6. \A i \in 1..Len(DocOf(job[t])) : NewRecord(t, i) \in records'
      BY <3>1, <3>5
    <3> QED
      BY <3>2, <3>5, <3>6
  <2>2. CASE ~ job[t].auto
    <3>1. records' = records
      BY <2>2 DEF WriteFlat
    <3> QED
      BY <2>0, <2>2, <3>1 DEF Kept
  <2> QED
    BY <2>1, <2>2
<1>6. SharedInv' /\ UNCHANGED <<shared, store, ingested>>
  BY <1>5 DEF IngestInv, SharedInv, WriteFlat
<1>7. BusyInv(job[t], DOMAIN shared, store, records')
  BY <1>1, <1>5, RecordChange
<1>8. Hop(job[t], "record", store, records')
  BY <1>1, <1>5 DEF Hop
<1>9. PICK v : v = [job[t] EXCEPT !.pc = "record"]
  OBVIOUS
<1>10. BusyInv(v, DOMAIN shared, store, records')
  BY <1>7, <1>8, <1>9, HopInv
<1>11. job' = [job EXCEPT ![t] = v]
  BY <1>9 DEF WriteFlat, Goto
<1> QED
  BY <1>5, <1>6, <1>10, <1>11, RecordMove

(***************************************************************************)
(* BuildRef, ResolveOnTheFly.                                              *)
(***************************************************************************)
LEMMA BuildRefStep ==
    ASSUME IngestInv, NEW t \in Task, BuildRef(t)
    PROVE  IngestInv'
<1>1. BusyInv(job[t], DOMAIN shared, store, records) /\ job[t].pc = "ref"
  BY Acting DEF BuildRef
<1>2. SharedInv' /\ UNCHANGED <<shared, store, records, ingested>>
  BY DEF IngestInv, SharedInv, BuildRef, persistent
<1>3. PICK i : i = job[t].at
  OBVIOUS
<1>4. PICK s, id, refs : /\ s = Lookup(t, Recs(t)[i].s) /\ id = Id(t, i)
                         /\ refs = job[t].refs \cup {[schema |-> s, id |-> id]}
  OBVIOUS
<1>5. s \in Schema
  <2>1. Has(job[t], DOMAIN shared, DocOf(job[t])[i].s)
    BY <1>1, <1>3 DEF BusyInv, Located
  <2>2. Lookup(t, DocOf(job[t])[i].s) \in Schema
    BY <1>1, <2>1, LookupType
  <2>3. Recs(t) = DocOf(job[t])
    BY TaskDoc
  <2> QED
    BY <1>4, <2>2, <2>3
<1>6. job[t].file \in File /\ job[t].refs \in SUBSET Ref /\ i \in Nat
  BY <1>1, <1>3 DEF BusyInv, JobRecord
<1>7. id \in RecId
  BY <1>4, <1>6 DEF Id, RecId
<1>8. refs \in SUBSET Ref
  BY <1>4, <1>5, <1>6, <1>7 DEF Ref
<1>9. PICK v : v = [job[t] EXCEPT !.refs = refs, !.at = job[t].at + 1, !.pc = "write"]
  OBVIOUS
<1>10. BusyInv(v, DOMAIN shared, store, records)
  BY <1>1, <1>8, <1>9, RefInv
<1>11. job' = [job EXCEPT ![t] = v]
  BY <1>3, <1>4, <1>9 DEF BuildRef
<1> QED
  BY <1>2, <1>10, <1>11, QuietMove

\* ResolveOnTheFly: the structure at hand is proposed.
LEMMA ResolveOnTheFlyStep ==
    ASSUME IngestInv, NEW t \in Task, ResolveOnTheFly(t)
    PROVE  IngestInv'
<1>1. BusyInv(job[t], DOMAIN shared, store, records) /\ job[t].pc = "write"
  BY Acting DEF ResolveOnTheFly
<1>2. SharedInv' /\ UNCHANGED <<shared, store, records, ingested>>
  BY DEF IngestInv, SharedInv, ResolveOnTheFly, persistent
<1>3. PICK s : s = Recs(t)[job[t].at].s
  OBVIOUS
<1>4. PICK p \in Proposals[s] :
           job' = [job EXCEPT ![t].props = With(job[t].props, s, p),
                              ![t].todo = <<job[t].at>>,
                              ![t].pc = "resolve"]
  BY <1>3 DEF ResolveOnTheFly
<1>5. Recs(t) = DocOf(job[t]) /\ Nested(job[t]) /\ job[t].at \in 1..Len(DocOf(job[t]))
  BY <1>1, TaskDoc DEF ResolveOnTheFly, BusyInv, InDoc
<1>6. s \in Structure
  <2>1. PICK z : z = job[t] /\ z \in JobRecord
    BY <1>1 DEF BusyInv
  <2>2. \A i \in 1..Len(DocOf(z)) : DocOf(z)[i].s \in Structure
    BY ONLY <2>1, RequestDoc
  <2> QED
    BY <1>3, <1>5, <2>1, <2>2
<1>7. p \in Personal
  BY <1>4, <1>6, ProposalAssumption
<1>8. PICK props, old : old = job[t].props /\ props = With(old, s, p)
  OBVIOUS
<1>9. old \in Partial(Structure, Personal)
  BY <1>1, <1>8 DEF BusyInv, JobRecord
<1>10. props \in Partial(Structure, Personal)
  BY <1>6, <1>7, <1>8, <1>9, WithType
<1>11. DocOf(job[t])[job[t].at].s \in DOMAIN props
  <2>1. Adds(props, old, s, p)
    BY <1>8, WithAdds
  <2> QED
    BY <1>3, <1>5, <2>1 DEF Adds
<1>12. PICK v : v = [job[t] EXCEPT !.props = props, !.todo = <<job[t].at>>, !.pc = "resolve"]
  OBVIOUS
<1>13. BusyInv(v, DOMAIN shared, store, records)
  BY <1>1, <1>5, <1>10, <1>11, <1>12, OnTheFlyInv
<1>14. job' = [job EXCEPT ![t] = v]
  BY <1>4, <1>8, <1>12
<1> QED
  BY <1>2, <1>13, <1>14, QuietMove

(***************************************************************************)
(* Complete: the request that is recorded has written every record.        *)
(***************************************************************************)
LEMMA CompleteStep ==
    ASSUME IngestInv, NEW t \in Task, Complete(t)
    PROVE  IngestInv'
<1>1. BusyInv(job[t], DOMAIN shared, store, records) /\ job[t].pc = "record"
  BY Acting DEF Complete
<1>2. /\ job' = [job EXCEPT ![t] = Idle] /\ UNCHANGED <<shared, store, records>>
      /\ ingested' \subseteq ingested \cup {<<job[t].file, job[t].auto>>}
  BY DEF Complete
<1>3. job[t].file \in File /\ job[t].auto \in BOOLEAN
  BY <1>1 DEF BusyInv, JobRecord
<1>4. SharedInv'
  <2>1. <<job[t].file, job[t].auto>> \in File \X BOOLEAN
    BY <1>3
  <2>2. ingested' \subseteq File \X BOOLEAN
    BY <1>2, <2>1 DEF IngestInv, SharedInv
  <2> QED
    BY <2>2 DEF IngestInv, SharedInv, Complete
<1>5. JobsInv'
  <2>1. TaskInv(Idle, DOMAIN shared', store', records')
    BY DEF TaskInv
  <2>2. Kept(records, records') /\ Grown(store, store') /\ DOMAIN shared \subseteq DOMAIN shared'
    BY <1>2 DEF Kept, Grown
  <2> QED
    BY <1>2, <2>1, <2>2, OneTaskMoves DEF IngestInv
<1>6. IngestedIsStored'
  <2> SUFFICES ASSUME NEW f \in File, <<f, TRUE>> \in ingested', NEW i \in DOMAIN Doc[f].recs
               PROVE  \E r \in records' : r.id = <<f, i>>
    BY DEF IngestedIsStored
  <2>1. CASE <<f, TRUE>> \in ingested
    BY <1>2, <2>1 DEF IngestInv, IngestedIsStored
  <2>2. CASE <<f, TRUE>> \notin ingested
    <3>1. <<f, TRUE>> = <<job[t].file, job[t].auto>>
      BY <1>2, <2>2
    <3>2. f = job[t].file /\ job[t].auto = TRUE
      BY <3>1
    <3>3. Reached(job[t]) = Len(DocOf(job[t])) /\ DocOf(job[t]) = Doc[f].recs
      BY <1>1, <3>2 DEF Reached, DocOf
    <3>4. DOMAIN Doc[f].recs = 1..Len(Doc[f].recs)
      BY DocFacts
    <3>5. i \in 1..Reached(job[t])
      BY <3>3, <3>4
    <3>6. \A k \in 1..Reached(job[t]) : \E r \in records : r.id = <<job[t].file, k>>
      BY <1>1, <3>2 DEF BusyInv, Saved
    <3> QED
      BY <1>2, <3>2, <3>5, <3>6
  <2> QED
    BY <2>1, <2>2
<1> QED
  BY <1>2, <1>4, <1>5, <1>6 DEF IngestInv

(***************************************************************************)
(* Fail, Submit, Restart.                                                  *)
(***************************************************************************)
LEMMA FailStep ==
    ASSUME IngestInv, NEW t \in Task, Fail(t)
    PROVE  IngestInv'
<1>1. SharedInv' /\ UNCHANGED <<shared, store, records, ingested>>
  BY DEF IngestInv, SharedInv, Fail, persistent
<1>2. job' = [job EXCEPT ![t] = Idle]
  BY DEF Fail
<1> QED
  BY <1>1, <1>2, QuietMove

\* Submit.
LEMMA SubmitStep ==
    ASSUME IngestInv, NEW t \in Task, NEW f \in File, NEW org \in Org \cup {NoOrg},
           NEW auto \in BOOLEAN, Submit(t, f, org, auto)
    PROVE  IngestInv'
<1>1. SharedInv' /\ UNCHANGED <<shared, store, records, ingested>>
  BY BoundAssumption DEF IngestInv, SharedInv, Submit, persistent
<1>2. PICK v : v = [pc |-> "store", file |-> f, org |-> org, auto |-> auto,
                   props |-> <<>>, match |-> <<>>, local |-> <<>>, todo |-> <<>>,
                   answer |-> NoSchema, replaced |-> NoSchema,
                   meta |-> {}, at |-> 1, refs |-> {}, writing |-> FALSE]
  OBVIOUS
<1>3. BusyInv(v, DOMAIN shared, store, records)
  BY <1>2, SubmitInv
<1>4. job' = [job EXCEPT ![t] = v]
  BY <1>2 DEF Submit
<1> QED
  BY <1>1, <1>3, <1>4, QuietMove

\* Restart: what is left is what the store and the database hold.
LEMMA RestartStep ==
    ASSUME IngestInv, Restart
    PROVE  IngestInv'
<1>1. /\ registered' = <<>> /\ shared' = <<>> /\ lock' = NoTask /\ job' = [t \in Task |-> Idle]
      /\ UNCHANGED <<active, store, uploads, ingested, records, requests>>
  BY DEF Restart, persistent
<1>2. registered' \in Partial(Personal, Personal) /\ shared' \in Partial(Structure, Schema)
  BY <1>1, PartialEmpty
<1>3. restarts' \in 0..MaxRestarts
  BY BoundAssumption DEF IngestInv, SharedInv, Restart
<1>4. SharedInv'
  BY <1>1, <1>2, <1>3 DEF IngestInv, SharedInv
<1>5. JobsInv'
  <2>1. job' = [t \in Task |-> job'[t]] /\ \A t \in Task : job'[t] = Idle
    BY <1>1
  <2> QED
    BY <2>1 DEF JobsInv, TaskInv
<1>6. StoreInv(store') /\ IngestedIsStored'
  BY <1>1 DEF IngestInv, IngestedIsStored
<1> QED
  BY <1>4, <1>5, <1>6 DEF IngestInv

-----------------------------------------------------------------------------
(* The theorems.                                                           *)

(***************************************************************************)
(* The invariant holds initially.                                          *)
(***************************************************************************)
LEMMA IngestInit == Init => IngestInv
<1> SUFFICES ASSUME Init PROVE IngestInv
  OBVIOUS
<1>1. PICK e : e = <<>>
  OBVIOUS
<1>2. /\ e \in Partial(Personal, Personal) /\ e \in Partial(Structure, Schema)
      /\ e \in Partial(Schema, Entry) /\ DOMAIN e = {}
  BY <1>1, PartialEmpty
<1>3. registered = e /\ shared = e /\ store = e
  BY <1>1 DEF Init
<1>4. active \in [Desc -> Personal \cup {NoSchema}]
  BY ProposalAssumption DEF Init
<1>5. SharedInv
  BY <1>2, <1>3, <1>4, BoundAssumption DEF Init, SharedInv
<1>6. StoreInv(store)
  BY <1>2, <1>3 DEF StoreInv, Chain
<1>7. JobsInv
  BY DEF Init, JobsInv, TaskInv
<1>8. IngestedIsStored
  BY DEF Init, IngestedIsStored
<1> QED
  BY <1>5, <1>6, <1>7, <1>8 DEF IngestInv

(***************************************************************************)
(* Every step keeps it.                                                    *)
(***************************************************************************)
LEMMA IngestNext == IngestInv /\ [Next]_vars => IngestInv'
<1> SUFFICES ASSUME IngestInv, [Next]_vars PROVE IngestInv'
  OBVIOUS
<1>1. ASSUME NEW t \in Task, Resolve(t) PROVE IngestInv'
  BY <1>1, SkipStep, UseMatchStep, ReuseLoadStep, ReuseApproveStep, CreateStep, LoadOldStep,
     LoadNewStep, ApproveNewStep, BlockOldStep, ReadRefFieldsStep, WriteRefFieldsStep,
     EndResolveStep DEF Resolve
<1>2. ASSUME NEW t \in Task, Step(t) PROVE IngestInv'
  BY <1>1, <1>2, StoreFileInv, CheckDedupInv, CollectStep, CheckReuseStep, OrgLoadStep,
     OrgApproveStep, CommitStep, WriteRecordStep, BuildRefStep, ResolveOnTheFlyStep,
     WriteFlatStep, CompleteStep DEF Step
<1>3. CASE UNCHANGED vars
  <2>1. SharedInv' /\ StoreInv(store') /\ IngestedIsStored'
    BY <1>3 DEF vars, persistent, IngestInv, SharedInv, IngestedIsStored
  <2>2. JobsInv'
    BY <1>3 DEF vars, persistent, IngestInv, JobsInv
  <2> QED
    BY <2>1, <2>2 DEF IngestInv
<1> QED
  BY <1>2, <1>3, FailStep, SubmitStep, RestartStep DEF Next

\* The inductive invariant holds throughout, for any number of concurrent
\* requests: the lemmas above, one for each action.
THEOREM IngestInvariant == Spec => []IngestInv
BY IngestInit, IngestNext, PTL DEF Spec

(***************************************************************************)
(* Every variable keeps the type the code gives it, whatever the number of *)
(* tasks, files and structures; a request never leaves its document.       *)
(***************************************************************************)
THEOREM IngestionTypes == Spec => []TypeOK
<1>1. IngestInv => TypeOK
  <2> SUFFICES ASSUME IngestInv PROVE TypeOK
    OBVIOUS
  <2>1. PartialFn(registered, Personal, Personal)
    BY PartialType DEF IngestInv, SharedInv, PartialFn
  <2>2. PartialFn(shared, Structure, Schema)
    BY PartialType DEF IngestInv, SharedInv, PartialFn
  <2>3. PartialFn(store, Schema, Entry)
    BY PartialType DEF IngestInv, SharedInv, PartialFn
  <2>4. ASSUME NEW t \in Task PROVE job[t] = Idle \/ BusyOK(job[t])
    <3> SUFFICES ASSUME job[t] # Idle PROVE BusyOK(job[t])
      OBVIOUS
    <3>1. PICK j : j = job[t]
      OBVIOUS
    <3>2. BusyInv(j, DOMAIN shared, store, records)
      BY <3>1 DEF IngestInv, JobsInv, TaskInv
    <3>3. j \in JobRecord /\ InDoc(j)
      BY <3>2 DEF BusyInv
    <3>4. /\ j.props \in Partial(Structure, Personal) /\ j.match \in Partial(Structure, Personal)
          /\ j.local \in Partial(Structure, Schema)
          /\ j.pc \in PC \ {"idle"} /\ j.file \in File /\ j.org \in Org \cup {NoOrg}
          /\ j.auto \in BOOLEAN /\ j.answer \in Schema \cup {NoSchema}
          /\ j.replaced \in Schema \cup {NoSchema} /\ j.meta \in SUBSET RefField
          /\ j.refs \in SUBSET Ref /\ j.writing \in BOOLEAN
      BY <3>3 DEF JobRecord
    <3>5. PICK p, m, l : p = j.props /\ m = j.match /\ l = j.local
      OBVIOUS
    <3>6. PartialFn(p, Structure, Personal) /\ PartialFn(m, Structure, Personal)
          /\ PartialFn(l, Structure, Schema)
      BY <3>4, <3>5, PartialType DEF PartialFn
    <3>7. j.todo \in Seq(1..Len(Doc[j.file].recs)) /\ j.at \in 1..Len(Doc[j.file].recs)
      BY <3>3 DEF InDoc, DocOf
    <3>8. BusyOK(j)
      BY <3>4, <3>5, <3>6, <3>7 DEF BusyOK
    <3> QED
      BY <3>1, <3>8
  <2>5. DOMAIN job = Task
    BY DEF IngestInv, JobsInv
  <2> QED
    BY <2>1, <2>2, <2>3, <2>4, <2>5 DEF TypeOK, IngestInv, SharedInv
<1> QED
  BY <1>1, IngestInvariant, PTL

(***************************************************************************)
(* A file recorded as ingested by a run that executed its mutations has    *)
(* all its records in the database, whatever other tasks, failures,        *)
(* restarts and repeated requests for the file come between: skipping it   *)
(* later loses nothing.                                                    *)
(***************************************************************************)
THEOREM IngestedCorrect == Spec => []IngestedIsStored
<1>1. IngestInv => IngestedIsStored
  BY DEF IngestInv
<1> QED
  BY <1>1, IngestInvariant, PTL

(***************************************************************************)
(* A schema that was blocked by an expansion names a successor the node    *)
(* has, that took over its fields, and that is approved or itself          *)
(* superseded: also while the request that expands it is half way, fails   *)
(* or is cut off by a restart.                                             *)
(***************************************************************************)
THEOREM SupersededCorrect == Spec => []SupersededHasSuccessor
<1>1. IngestInv => SupersededHasSuccessor
  BY DEF IngestInv, StoreInv, Chain, Settled, SupersededHasSuccessor
<1> QED
  BY <1>1, IngestInvariant, PTL
=============================================================================
