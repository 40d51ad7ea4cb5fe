----------------------------- MODULE NodeProofs -----------------------------
(***************************************************************************)
(* Proofs about the node's own state.                                      *)
(*                                                                         *)
(* NodeLifecycle, for any requests, databases and identities, any number   *)
(* of administrative operations, crashes and failures, interleaved step by *)
(* step: the cached node signs with the identity it presents and the tree  *)
(* holds; and restore_from_phrase, undisturbed, ends with all of the       *)
(* restored identity or with all that it found.                            *)
(*                                                                         *)
(* AiConfig, for any keys, any number of concurrent saves and any bounds   *)
(* on restarts, failing writes and calls: no key is left in the clear once *)
(* a load has succeeded, and no accepted key is lost.                      *)
(***************************************************************************)
EXTENDS NodeLifecycle, AiConfig, SequenceTheorems, TLAPS

-----------------------------------------------------------------------------
(* Programs                                                                *)

SimpleOps == {"fast", "slow", "pool", "build", "dropPool", "dropNode", "clearPrivate",
              "clearPublic", "clearProfile", "unmark", "dropConfig", "mark", "marked", "card",
              "network", "saveConfig"}
Uses == {"signer", "node", "try", "need", "any", "prior", "mint"}
StepRec ==
    [op : SimpleOps]
        \cup [op : {"config"}, edit : Path \cup {"keep", "pre", "cloud", "local"}]
        \cup [op : {"public", "private"}, use : Uses]
        \cup [op : {"savePrivate", "savePublic"}, undo : BOOLEAN]
        \cup [op : {"newConfig"}, which : {"edited", "pre"}]

Use(s) == IF s.op \in {"public", "private"} THEN s.use ELSE "none"
Is(p, j, op, use) == j \in 1..Len(p) /\ p[j].op = op /\ Use(p[j]) = use
SaveOps == {"savePrivate", "savePublic"}

\* Step j of program p belongs to the critical section of get_node; or to what
\* may leave it, or never enter it, for the end of get_node.
Inside(p, j) ==
    \/ Use(p[j]) \in {"signer", "node"} \/ p[j].op = "build"
    \/ p[j].op = "pool" /\ Is(p, j + 1, "public", "signer")
    \/ p[j].op = "config" /\ Is(p, j + 2, "public", "signer")
Entering(p, j) == Inside(p, j) \/ p[j].op \in {"fast", "slow"} \/ Use(p[j]) = "try"

\* What comes after a step, and before it, wherever a program is cut.
After(p, j) ==
    /\ p[j].op = "fast" => Is(p, j + 1, "slow", "none")
    /\ p[j].op = "slow" => Is(p, j + 1, "config", "none") /\ Inside(p, j + 1)
    /\ p[j].op = "config" /\ Inside(p, j) => Is(p, j + 1, "pool", "none")
    /\ Is(p, j, "public", "signer") => Is(p, j + 1, "private", "signer")
    /\ Is(p, j, "private", "signer") => Is(p, j + 1, "public", "node")
    /\ Is(p, j, "public", "node") => Is(p, j + 1, "private", "node")
    /\ Is(p, j, "private", "node") => Is(p, j + 1, "build", "none")
    /\ Is(p, j, "public", "try") => Is(p, j + 1, "private", "try")
    /\ Is(p, j, "private", "try") => Is(p, j + 1, "fast", "none")
    /\ p[j].op = "newConfig" => Is(p, j + 1, "dropPool", "none")
    /\ p[j].op = "dropPool" => Is(p, j + 1, "dropNode", "none")
    /\ p[j].op = "savePrivate" => Is(p, j + 1, "savePublic", "none")
    /\ Is(p, j, "private", "mint") => Is(p, j + 1, "savePrivate", "none")
Before(p, j) ==
    /\ Inside(p, j) => p[j - 1].op = "slow" \/ (Inside(p, j - 1) /\ p[j - 1].op # "build")
    /\ p[j].op = "dropPool" => p[j - 1].op = "newConfig"
    /\ p[j].op = "savePublic" => p[j - 1].op = "savePrivate"
    /\ p[j].op = "clearPublic" => p[j - 1].op = "clearPrivate"
Flow(p) == \A j \in 1..Len(p) : After(p, j) /\ (j > 1 => Before(p, j))

\* A program that begins outside of all sections.
Apart(p) == p # <<>> => ~ Inside(p, 1) /\ p[1].op \notin {"dropPool", "savePublic", "clearPublic"}
Closed(p) == Flow(p) /\ Apart(p)

\* q is what is left of p after its first n steps.
Rest(q, p, n) ==
    /\ q \in Seq(StepRec) /\ n \in 0..Len(p) /\ Len(q) = Len(p) - n
    /\ \A j \in 1..Len(q) : q[j] = p[j + n]

(***************************************************************************)
(* What the steps of each kind carry.                                      *)
(***************************************************************************)
LEMMA StepTypes ==
    ASSUME NEW s \in StepRec
    PROVE  /\ s.op \in SimpleOps \cup SaveOps \cup {"config", "public", "private", "newConfig"}
           /\ s.op = "config" => s.edit \in Path \cup {"keep", "pre", "cloud", "local"}
           /\ s.op \in {"public", "private"} => s.use \in Uses /\ Use(s) = s.use
           /\ s.op \notin {"public", "private"} => Use(s) = "none"
           /\ Use(s) # "none" => s.op \in {"public", "private"}
           /\ s.op \in SaveOps => s.undo \in BOOLEAN
           /\ s.op = "newConfig" => s.which \in {"edited", "pre"}
BY DEF StepRec, SimpleOps, SaveOps, Use, Uses

(***************************************************************************)
(* One program after the other.                                            *)
(***************************************************************************)
LEMMA Concat ==
    ASSUME NEW p \in Seq(StepRec), NEW q \in Seq(StepRec)
    PROVE  /\ p \o q \in Seq(StepRec) /\ Len(p \o q) = Len(p) + Len(q)
           /\ Len(p) \in Nat /\ Len(q) \in Nat
           /\ \A j \in 1..Len(p) : (p \o q)[j] = p[j]
           /\ \A j \in 1..Len(q) : (p \o q)[Len(p) + j] = q[j]
           /\ \A j \in 1..Len(p \o q) :
                 \/ j \in 1..Len(p)
                 \/ j - Len(p) \in 1..Len(q) /\ (p \o q)[j] = q[j - Len(p)]
<1>1. /\ p \o q \in Seq(StepRec) /\ Len(p \o q) = Len(p) + Len(q)
      /\ Len(p) \in Nat /\ Len(q) \in Nat
  OBVIOUS
<1>2. \A j \in 1..Len(p) : (p \o q)[j] = p[j]
  OBVIOUS
<1>3. \A j \in 1..Len(q) : (p \o q)[Len(p) + j] = q[j]
  OBVIOUS
<1>4. ASSUME NEW j \in 1..Len(p \o q), j \notin 1..Len(p)
      PROVE  j - Len(p) \in 1..Len(q) /\ (p \o q)[j] = q[j - Len(p)]
  <2>1. j - Len(p) \in 1..Len(q) /\ Len(p) + (j - Len(p)) = j
    BY <1>1, <1>4
  <2> QED
    BY <1>3, <2>1
<1> QED
  BY <1>1, <1>2, <1>3, <1>4

(***************************************************************************)
(* Order of concatenation.                                                 *)
(***************************************************************************)
LEMMA Associative ==
    ASSUME NEW p \in Seq(StepRec), NEW q \in Seq(StepRec), NEW r \in Seq(StepRec)
    PROVE  (p \o q) \o r = p \o (q \o r)
OBVIOUS

(***************************************************************************)
(* The ways a program is cut.                                              *)
(***************************************************************************)
LEMMA Cuts ==
    ASSUME NEW p \in Seq(StepRec)
    PROVE  /\ Len(p) \in Nat /\ (p = <<>> <=> Len(p) = 0)
           /\ p # <<>> => Head(p) = p[1] /\ 1 \in 1..Len(p) /\ p[1] \in StepRec
                          /\ Rest(Tail(p), p, 1)
           /\ \A n \in 0..Len(p) : Rest(SubSeq(p, n + 1, Len(p)), p, n)
<1>1. Len(p) \in Nat /\ (p = <<>> <=> Len(p) = 0)
  OBVIOUS
<1>2. ASSUME p # <<>>
      PROVE  Head(p) = p[1] /\ 1 \in 1..Len(p) /\ p[1] \in StepRec /\ Rest(Tail(p), p, 1)
  <2>1. /\ Head(p) = p[1] /\ 1 \in 1..Len(p) /\ p[1] \in StepRec
        /\ Tail(p) \in Seq(StepRec) /\ Len(Tail(p)) = Len(p) - 1 /\ 1 \in 0..Len(p)
    BY <1>1, <1>2
  <2>2. \A j \in 1..Len(Tail(p)) : Tail(p)[j] = p[j + 1]
    BY <1>2
  <2> QED
    BY <2>1, <2>2 DEF Rest
<1>3. ASSUME NEW n \in 0..Len(p) PROVE Rest(SubSeq(p, n + 1, Len(p)), p, n)
  <2>1. /\ SubSeq(p, n + 1, Len(p)) \in Seq(StepRec)
        /\ Len(SubSeq(p, n + 1, Len(p))) = Len(p) - n
    BY <1>1
  <2>2. \A j \in 1..Len(SubSeq(p, n + 1, Len(p))) : SubSeq(p, n + 1, Len(p))[j] = p[j + n]
    BY <1>1
  <2> QED
    BY <2>1, <2>2 DEF Rest
<1> QED
  BY <1>1, <1>2, <1>3

(***************************************************************************)
(* A cut moves the steps, and what is said of them and their successors.   *)
(***************************************************************************)
LEMMA RestSteps ==
    ASSUME NEW p \in Seq(StepRec), NEW q, NEW n, Rest(q, p, n), NEW j \in 1..Len(q)
    PROVE  /\ j + n \in 1..Len(p) /\ q[j] = p[j + n] /\ q[j] \in StepRec
           /\ \A k \in Nat : \A op, use : Is(q, j + k, op, use) <=> Is(p, j + n + k, op, use)
           /\ \A op, use : Is(q, j, op, use) <=> Is(p, j + n, op, use)
           /\ Inside(q, j) <=> Inside(p, j + n)
           /\ Entering(q, j) <=> Entering(p, j + n)
<1>1. /\ j + n \in 1..Len(p) /\ q[j] = p[j + n] /\ q[j] \in StepRec
      /\ n \in Nat /\ j \in Nat /\ Len(p) \in Nat /\ Len(q) = Len(p) - n
  BY DEF Rest
<1>2. ASSUME NEW k \in Nat, NEW op, NEW use
      PROVE  Is(q, j + k, op, use) <=> Is(p, j + n + k, op, use)
  <2>1. j + k \in 1..Len(q) <=> j + n + k \in 1..Len(p)
    BY <1>1
  <2>2. ASSUME j + k \in 1..Len(q) PROVE q[j + k] = p[j + n + k]
    <3>1. q[j + k] = p[(j + k) + n] /\ (j + k) + n = j + n + k
      BY <1>1, <2>2 DEF Rest
    <3> QED
      BY <3>1
  <2> QED
    BY <2>1, <2>2 DEF Is
<1>3. \A op, use : Is(q, j, op, use) <=> Is(p, j + n, op, use)
  BY <1>1 DEF Is
<1>4. Inside(q, j) <=> Inside(p, j + n)
  <2>1. /\ Is(q, j + 1, "public", "signer") <=> Is(p, j + n + 1, "public", "signer")
        /\ Is(q, j + 2, "public", "signer") <=> Is(p, j + n + 2, "public", "signer")
    BY <1>2
  <2> QED
    BY <1>1, <2>1 DEF Inside
<1>5. Entering(q, j) <=> Entering(p, j + n)
  BY <1>1, <1>4 DEF Entering
<1> QED
  BY <1>1, <1>2, <1>3, <1>4, <1>5

(***************************************************************************)
(* What is left of a program keeps the order of its steps.                 *)
(***************************************************************************)
LEMMA FlowRest ==
    ASSUME NEW p \in Seq(StepRec), NEW q, NEW n, Rest(q, p, n), Flow(p)
    PROVE  Flow(q)
<1> SUFFICES ASSUME NEW j \in 1..Len(q) PROVE After(q, j) /\ (j > 1 => Before(q, j))
  BY DEF Flow
<1> DEFINE i == j + n
<1>1. i \in 1..Len(p) /\ q[j] = p[i] /\ (Inside(q, j) <=> Inside(p, i))
  BY RestSteps
<1>2. \A op, use : /\ Is(q, j, op, use) <=> Is(p, i, op, use)
                   /\ Is(q, j + 1, op, use) <=> Is(p, i + 1, op, use)
  BY RestSteps
<1>3. ASSUME Is(q, j + 1, "config", "none") PROVE Inside(q, j + 1) <=> Inside(p, i + 1)
  <2>1. j + 1 \in 1..Len(q)
    BY <1>3 DEF Is
  <2>2. Inside(q, j + 1) <=> Inside(p, (j + 1) + n)
    BY <2>1, RestSteps
  <2>3. (j + 1) + n = i + 1
    BY DEF Rest
  <2> QED
    BY <2>2, <2>3
<1>4. After(p, i)
  BY <1>1 DEF Flow
<1>5. After(q, j)
  <2> HIDE DEF i
  <2> QED
    BY <1>1, <1>2, <1>3, <1>4 DEF After
<1>6. ASSUME j > 1 PROVE Before(q, j)
  <2>1. j - 1 \in 1..Len(q) /\ (j - 1) + n = i - 1 /\ i > 1
    BY <1>6 DEF Rest
  <2>2. q[j - 1] = p[i - 1] /\ (Inside(q, j - 1) <=> Inside(p, i - 1))
    <3>1. q[j - 1] = p[(j - 1) + n] /\ (Inside(q, j - 1) <=> Inside(p, (j - 1) + n))
      BY <2>1, RestSteps
    <3> QED
      BY <2>1, <3>1
  <2>3. Before(p, i)
    BY <1>1, <2>1 DEF Flow
  <2> HIDE DEF i
  <2> QED
    BY <1>1, <2>2, <2>3 DEF Before
<1> QED
  BY <1>5, <1>6

(***************************************************************************)
(* Steps of the parts, and what is said of them, in the whole.             *)
(***************************************************************************)
LEMMA ConcatSteps ==
    ASSUME NEW p \in Seq(StepRec), NEW q \in Seq(StepRec), Closed(p), Closed(q)
    PROVE  /\ \A j \in 1..Len(p) :
                 /\ (p \o q)[j] = p[j]
                 /\ Inside(p \o q, j) <=> Inside(p, j)
                 /\ \A op, use : /\ Is(p \o q, j, op, use) <=> Is(p, j, op, use)
                                 /\ Is(p, j + 1, op, use) => Is(p \o q, j + 1, op, use)
           /\ \A j \in 1..Len(q) :
                 /\ (p \o q)[Len(p) + j] = q[j]
                 /\ Inside(p \o q, Len(p) + j) <=> Inside(q, j)
                 /\ \A op, use : /\ Is(p \o q, Len(p) + j, op, use) <=> Is(q, j, op, use)
                                 /\ Is(p \o q, Len(p) + j + 1, op, use) <=> Is(q, j + 1, op, use)
<1> DEFINE r == p \o q
           n == Len(p)
<1>1. /\ r \in Seq(StepRec) /\ Len(r) = n + Len(q) /\ n \in Nat /\ Len(q) \in Nat
      /\ \A j \in 1..n : r[j] = p[j]
      /\ \A j \in 1..Len(q) : r[n + j] = q[j]
  BY Concat
<1> HIDE DEF r, n
<1>2. ASSUME NEW j \in 1..n, NEW op, NEW use, Is(p, j, op, use) PROVE Is(r, j, op, use)
  BY <1>1, <1>2 DEF Is, n
<1>3. ASSUME NEW j \in Nat, NEW op, NEW use, Is(r, j, op, use), j <= n PROVE Is(p, j, op, use)
  BY <1>1, <1>3 DEF Is, n
<1>4. ASSUME NEW j \in Nat \ {0}, NEW op, NEW use PROVE Is(r, n + j, op, use) <=> Is(q, j, op, use)
  BY <1>1 DEF Is
<1>5. ~ Is(q, 1, "public", "signer")
  <2>1. ASSUME Is(q, 1, "public", "signer") PROVE FALSE
    <3>1. q # <<>> /\ Inside(q, 1)
      BY <1>1, <2>1 DEF Is, Inside
    <3> QED
      BY <3>1 DEF Closed, Apart
  <2> QED
    BY <2>1
<1>6. ~ Is(q, 2, "public", "signer")
  <2>1. ASSUME Is(q, 2, "public", "signer") PROVE FALSE
    <3>1. q # <<>> /\ Inside(q, 2) /\ 2 \in 1..Len(q)
      BY <1>1, <2>1 DEF Is, Inside
    <3>2. Before(q, 2)
      BY <3>1 DEF Closed, Flow
    <3>3. q[1].op = "slow" \/ Inside(q, 1)
      <4>1. 2 - 1 = 1
        OBVIOUS
      <4> QED
        BY <3>1, <3>2, <4>1 DEF Before
    <3>4. q[1].op = "slow"
      BY <3>1, <3>3 DEF Closed, Apart
    <3>5. 1 \in 1..Len(q) /\ After(q, 1)
      BY <1>1, <3>1 DEF Closed, Flow
    <3>6. Is(q, 1 + 1, "config", "none")
      BY <3>4, <3>5 DEF After
    <3> QED
      BY <2>1, <3>6 DEF Is
  <2> QED
    BY <2>1
<1>7. ASSUME NEW j \in 1..n PROVE Inside(r, j) <=> Inside(p, j)
  <2>1. r[j] = p[j]
    BY <1>1
  <2>2. Is(r, j + 1, "public", "signer") <=> Is(p, j + 1, "public", "signer")
    <3>1. CASE j + 1 <= n
      <4>1. j + 1 \in 1..n
        BY <1>1, <3>1
      <4> QED
        BY <1>2, <1>3, <3>1, <4>1
    <3>2. CASE j = n
      <4>1. ~ Is(r, n + 1, "public", "signer")
        BY <1>4, <1>5
      <4>2. ~ Is(p, n + 1, "public", "signer")
        BY <1>1 DEF Is, n
      <4> QED
        BY <3>2, <4>1, <4>2
    <3> QED
      BY <1>1, <3>1, <3>2
  <2>3. Is(r, j + 2, "public", "signer") <=> Is(p, j + 2, "public", "signer")
    <3>1. CASE j + 2 <= n
      <4>1. j + 2 \in 1..n
        BY <1>1, <3>1
      <4> QED
        BY <1>2, <1>3, <3>1, <4>1
    <3>2. CASE j + 2 > n
      <4>1. ~ Is(p, j + 2, "public", "signer")
        BY <1>1, <3>2 DEF Is, n
      <4>2. j + 2 = n + 1 \/ j + 2 = n + 2
        BY <1>1, <3>2
      <4>3. ~ Is(r, n + 1, "public", "signer") /\ ~ Is(r, n + 2, "public", "signer")
        BY <1>4, <1>5, <1>6
      <4> QED
        BY <4>1, <4>2, <4>3
    <3> QED
      BY <1>1, <3>1, <3>2
  <2> QED
    BY <2>1, <2>2, <2>3 DEF Inside
<1>8. ASSUME NEW j \in 1..Len(q) PROVE Inside(r, n + j) <=> Inside(q, j)
  <2>1. r[n + j] = q[j] /\ n + j + 1 = n + (j + 1) /\ n + j + 2 = n + (j + 2)
    <3>1. r[n + j] = q[j]
      BY ONLY <1>1, j \in 1..Len(q)
    <3>2. n \in Int /\ j \in Int
      BY ONLY <1>1, j \in 1..Len(q)
    <3>3. n + j + 1 = n + (j + 1) /\ n + j + 2 = n + (j + 2)
      BY ONLY <3>2
    <3> QED
      BY ONLY <3>1, <3>3
  <2>2. /\ Is(r, n + (j + 1), "public", "signer") <=> Is(q, j + 1, "public", "signer")
        /\ Is(r, n + (j + 2), "public", "signer") <=> Is(q, j + 2, "public", "signer")
    BY <1>4
  <2> QED
    BY <2>1, <2>2 DEF Inside
<1>9. ASSUME NEW j \in 1..n
      PROVE  /\ r[j] = p[j] /\ (Inside(r, j) <=> Inside(p, j))
             /\ \A op, use : /\ Is(r, j, op, use) <=> Is(p, j, op, use)
                             /\ Is(p, j + 1, op, use) => Is(r, j + 1, op, use)
  <2>1. \A op, use : Is(p, j + 1, op, use) => j + 1 \in 1..n
    BY DEF Is, n
  <2>2. j \in Nat /\ j <= n /\ j + 1 \in Nat
    BY <1>1
  <2> QED
    BY <1>1, <1>2, <1>3, <1>7, <2>1, <2>2
<1>10. ASSUME NEW j \in 1..Len(q)
       PROVE  /\ r[n + j] = q[j] /\ (Inside(r, n + j) <=> Inside(q, j))
              /\ \A op, use : /\ Is(r, n + j, op, use) <=> Is(q, j, op, use)
                              /\ Is(r, n + j + 1, op, use) <=> Is(q, j + 1, op, use)
  <2>1. n + j + 1 = n + (j + 1) /\ j + 1 \in Nat \ {0} /\ j \in Nat \ {0}
    BY <1>1
  <2> QED
    BY <1>1, <1>4, <1>8, <2>1
<1> QED
  BY <1>9, <1>10 DEF r, n

-----------------------------------------------------------------------------
(* Tasks                                                                   *)

LocalRec ==
    [op : Op, cfg : Config, pre : Config, pool : Pool \cup {NoPool}, keep : Pool \cup {NoPool},
     read : Pair, signer : Pair, prior : Pair, new : Pair, failed : BOOLEAN]

\* A save, or a node dropped (of a restore: before the network is asked), is
\* to come after step n.
Ahead(p, n) == \E j \in 1..Len(p) : j > n /\ p[j].op = "savePrivate"
Drops(p, op, n) ==
    \E k \in 1..Len(p) : /\ k > n /\ p[k].op = "dropNode"
                         /\ op = "restore" => \A i \in 1..k : i > n => p[i].op # "network"

\* An operation that did not fail saves an identity once, before it creates
\* any node, and drops the node afterwards; what it reads or checks first, it
\* reads before it saves.
NormalAt(p, op, j) ==
    /\ p[j].op \in SaveOps =>
          /\ op \in {"restore", "bootstrap"} /\ p[j].undo = FALSE
          /\ \A i \in 1..j : ~ Entering(p, i)
          /\ ~ Ahead(p, j) /\ Drops(p, op, j)
    /\ Is(p, j, "private", "prior") => op = "restore" /\ Ahead(p, j)
    /\ Is(p, j, "private", "mint") => op = "bootstrap"
    /\ p[j].op = "marked" => Ahead(p, j)
Normal(p, op) == \A j \in 1..Len(p) : NormalAt(p, op, j)

\* One that failed puts the identity back and drops the node, or clears it.
UndoOps == {"clearPrivate", "clearPublic", "newConfig", "dropPool"}
Undoing(p) ==
    /\ p # <<>> /\ p[Len(p)].op = "dropNode"
    /\ \A j \in 1..Len(p) : \/ p[j].op \in SaveOps /\ p[j].undo = TRUE
                            \/ p[j].op \in UndoOps
                            \/ j = Len(p)
Undo(p, op) ==
    \/ op = "restore" /\ Undoing(p)
    \/ op = "bootstrap" /\ p # <<>> /\ p[1].op = "clearPrivate"

\* Accesses have a pool; what failed, or may, has something to undo; what is
\* saved is a whole identity.
NeedsPool == {"public", "private", "savePrivate", "savePublic", "build"}
Pooled(p, l) ==
    \/ l.pool # NoPool
    \/ \A j \in 1..Len(p) : p[j].op \in NeedsPool => \E i \in 1..Len(p) : i < j /\ p[i].op = "pool"
Kept(p, l) ==
    /\ l.keep # NoPool => l.op \in {"restore", "bootstrap"}
    /\ l.failed => l.keep # NoPool
    /\ l.op = "restore" /\ l.keep = NoPool => \E j \in 1..Len(p) : Is(p, j, "private", "prior")
    /\ l.op = "bootstrap" /\ l.keep = NoPool => Ahead(p, 0) \/ (p # <<>> /\ p[1].op = "savePublic")
Chosen(p, l) ==
    \A j \in 1..Len(p) : p[j].op \in SaveOps =>
        Complete(l.new) \/ \E i \in 1..Len(p) : i < j /\ Is(p, i, "private", "mint")

Sound(p, l) ==
    /\ p \in Seq(StepRec) /\ l \in LocalRec
    /\ Flow(p)
    /\ p = <<>> <=> l.op = "none"
    /\ p # <<>> => p[1].op # "clearPublic"
    /\ IF l.failed THEN Undo(p, l.op) ELSE Normal(p, l.op)
    /\ Pooled(p, l) /\ Kept(p, l) /\ Chosen(p, l)

\* The identity was or may be changed, and the node is still to be dropped.
Owes(p, l) ==
    /\ l.op \in {"restore", "bootstrap"}
    /\ l.failed \/ (~ Ahead(p, 0) /\ Drops(p, l.op, 0))

\* A cut after step n leaves behind what the rest needs, when the task goes on
\* with m.
Cut(p, l, n, m) ==
    /\ n \in 1..Len(p) /\ p[n].op # "clearPrivate" /\ p[1].op # "clearPrivate"
    /\ m \in LocalRec /\ m.op = l.op /\ m.failed = l.failed
    /\ m.pool # NoPool \/ (m.pool = l.pool /\ \A i \in 1..n : p[i].op # "pool")
    /\ \/ m.keep # NoPool /\ m.op \in {"restore", "bootstrap"}
       \/ /\ m.keep = l.keep /\ \A i \in 1..n : ~ Is(p, i, "private", "prior")
          /\ p[1].op # "savePublic" /\ (n = 1 \/ \A i \in 1..n : p[i].op # "savePrivate")
    /\ \/ Complete(m.new)
       \/ m.new = l.new /\ \A i \in 1..n : ~ Is(p, i, "private", "mint")

(***************************************************************************)
(* A cut program: what is ahead of a step stays ahead of it.               *)
(***************************************************************************)
LEMMA AheadRest ==
    ASSUME NEW p \in Seq(StepRec), NEW q, NEW n, Rest(q, p, n), NEW j \in Nat
    PROVE  /\ Ahead(q, j) <=> Ahead(p, j + n)
           /\ \A op : Drops(q, op, j) <=> Drops(p, op, j + n)
<1>1. n \in Nat /\ Len(q) = Len(p) - n /\ Len(p) \in Nat /\ Len(q) \in Nat
      /\ \A i \in 1..Len(q) : q[i] = p[i + n] /\ i + n \in 1..Len(p)
  BY DEF Rest
<1>2. \A i \in 1..Len(p) : i > j + n => i - n \in 1..Len(q) /\ q[i - n] = p[i] /\ i - n > j
  <2> SUFFICES ASSUME NEW i \in 1..Len(p), i > j + n
               PROVE  i - n \in 1..Len(q) /\ q[i - n] = p[i] /\ i - n > j
    OBVIOUS
  <2>1. i - n \in 1..Len(q) /\ (i - n) + n = i /\ i - n > j
    BY <1>1
  <2> QED
    BY <1>1, <2>1
<1>3. Ahead(q, j) <=> Ahead(p, j + n)
  <2>1. ASSUME Ahead(q, j) PROVE Ahead(p, j + n)
    <3>1. PICK i \in 1..Len(q) : i > j /\ q[i].op = "savePrivate"
      BY <2>1 DEF Ahead
    <3>2. i + n \in 1..Len(p) /\ i + n > j + n /\ p[i + n].op = "savePrivate"
      BY <1>1, <3>1
    <3> QED
      BY <3>2 DEF Ahead
  <2>2. ASSUME Ahead(p, j + n) PROVE Ahead(q, j)
    BY <1>2, <2>2 DEF Ahead
  <2> QED
    BY <2>1, <2>2
<1>4. ASSUME NEW op PROVE Drops(q, op, j) <=> Drops(p, op, j + n)
  <2>1. ASSUME Drops(q, op, j) PROVE Drops(p, op, j + n)
    <3>1. PICK k \in 1..Len(q) : /\ k > j /\ q[k].op = "dropNode"
                                 /\ op = "restore" => \A i \in 1..k : i > j => q[i].op # "network"
      BY <2>1 DEF Drops
    <3>2. k + n \in 1..Len(p) /\ k + n > j + n /\ p[k + n].op = "dropNode"
      BY <1>1, <3>1
    <3>3. ASSUME op = "restore", NEW i \in 1..(k + n), i > j + n PROVE p[i].op # "network"
      <4>1. i - n \in 1..k /\ i - n > j /\ i \in 1..Len(p)
        BY <1>1, <3>2, <3>3
      <4> QED
        BY <1>2, <3>1, <3>3, <4>1
    <3> QED
      BY <3>2, <3>3 DEF Drops
  <2>2. ASSUME Drops(p, op, j + n) PROVE Drops(q, op, j)
    <3>1. PICK k \in 1..Len(p) : /\ k > j + n /\ p[k].op = "dropNode"
                                 /\ op = "restore" => \A i \in 1..k : i > j + n => p[i].op # "network"
      BY <2>2 DEF Drops
    <3>2. k - n \in 1..Len(q) /\ k - n > j /\ q[k - n].op = "dropNode"
      BY <1>2, <3>1
    <3>3. ASSUME op = "restore", NEW i \in 1..(k - n), i > j PROVE q[i].op # "network"
      <4>1. i + n \in 1..k /\ i + n > j + n /\ i \in 1..Len(q)
        BY <1>1, <3>2, <3>3
      <4>2. q[i] = p[i + n]
        BY <1>1, <4>1
      <4> QED
        BY <3>1, <3>3, <4>1, <4>2
    <3> QED
      BY <3>2, <3>3 DEF Drops
  <2> QED
    BY <2>1, <2>2
<1> QED
  BY <1>3, <1>4

(***************************************************************************)
(* What is left of a normal program is normal.                             *)
(***************************************************************************)
LEMMA NormalRest ==
    ASSUME NEW p \in Seq(StepRec), NEW q, NEW n, Rest(q, p, n), NEW op, Normal(p, op)
    PROVE  Normal(q, op)
<1> SUFFICES ASSUME NEW j \in 1..Len(q) PROVE NormalAt(q, op, j)
  BY DEF Normal
<1>1. j + n \in 1..Len(p) /\ q[j] = p[j + n] /\ n \in Nat
  BY RestSteps DEF Rest
<1>2. \A o, use : Is(q, j, o, use) <=> Is(p, j + n, o, use)
  BY RestSteps
<1>3. Ahead(q, j) <=> Ahead(p, j + n)
  BY AheadRest
<1>4. Drops(q, op, j) <=> Drops(p, op, j + n)
  BY AheadRest
<1>5. ASSUME \A i \in 1..(j + n) : ~ Entering(p, i) PROVE \A i \in 1..j : ~ Entering(q, i)
  <2> SUFFICES ASSUME NEW i \in 1..j PROVE ~ Entering(q, i)
    OBVIOUS
  <2>1. i \in 1..Len(q) /\ i + n \in 1..(j + n)
    BY <1>1 DEF Rest
  <2>2. Entering(q, i) <=> Entering(p, i + n)
    BY <2>1, RestSteps
  <2> QED
    BY <1>5, <2>1, <2>2
<1>6. NormalAt(p, op, j + n)
  BY <1>1 DEF Normal
<1> QED
  BY <1>1, <1>2, <1>3, <1>4, <1>5, <1>6 DEF NormalAt

(***************************************************************************)
(* What is left of undoing.                                                *)
(***************************************************************************)
LEMMA UndoRest ==
    ASSUME NEW p \in Seq(StepRec), NEW q, NEW n, Rest(q, p, n), q # <<>>, Undoing(p)
    PROVE  Undoing(q)
<1>1. n \in Nat /\ Len(q) = Len(p) - n /\ Len(p) \in Nat /\ Len(q) \in Nat /\ Len(q) # 0
      /\ \A i \in 1..Len(q) : q[i] = p[i + n] /\ i + n \in 1..Len(p)
  BY DEF Rest
<1>2. q[Len(q)] = p[Len(p)]
  BY <1>1
<1> QED
  BY <1>1, <1>2 DEF Undoing

(***************************************************************************)
(* A cut leaves a sound task.                                              *)
(***************************************************************************)
LEMMA SoundRest ==
    ASSUME NEW p, NEW l, NEW q, NEW n, NEW m, Sound(p, l), Rest(q, p, n), Cut(p, l, n, m),
           q # <<>>
    PROVE  Sound(q, m)
<1>1. /\ p \in Seq(StepRec) /\ l \in LocalRec /\ Flow(p) /\ p # <<>> /\ l.op # "none"
      /\ q \in Seq(StepRec) /\ m \in LocalRec /\ m.op = l.op /\ m.failed = l.failed
  BY DEF Sound, Rest, Cut
<1>2. /\ n \in Nat /\ Len(q) = Len(p) - n /\ Len(p) \in Nat /\ Len(q) \in Nat /\ Len(q) # 0
      /\ 1 \in 1..Len(q) /\ 1 \in 1..Len(p) /\ n \in 1..Len(p) /\ n >= 1
      /\ \A i \in 1..Len(q) : q[i] = p[i + n] /\ i + n \in 1..Len(p)
  BY <1>1 DEF Rest, Cut
<1>3. \A i \in 1..Len(p) : i > n => i - n \in 1..Len(q) /\ q[i - n] = p[i]
  <2> SUFFICES ASSUME NEW i \in 1..Len(p), i > n PROVE i - n \in 1..Len(q) /\ q[i - n] = p[i]
    OBVIOUS
  <2>1. i - n \in 1..Len(q) /\ (i - n) + n = i
    BY <1>2
  <2> QED
    BY <1>2, <2>1
<1>4. Flow(q)
  BY <1>1, FlowRest
<1>5. q[1].op # "clearPublic"
  <2>1. q[1] = p[1 + n] /\ 1 + n \in 1..Len(p) /\ 1 + n > 1 /\ (1 + n) - 1 = n
    BY <1>2
  <2>2. Before(p, 1 + n)
    BY <1>1, <2>1 DEF Flow
  <2>3. p[1 + n].op = "clearPublic" => p[n].op = "clearPrivate"
    BY <2>1, <2>2 DEF Before
  <2> QED
    BY <2>1, <2>3 DEF Cut
<1>6. ASSUME l.failed PROVE Undo(q, m.op)
  <2>1. l.op = "restore" /\ Undoing(p)
    BY <1>6 DEF Sound, Undo, Cut
  <2>2. Undoing(q)
    BY <1>1, <2>1, UndoRest
  <2> QED
    BY <1>1, <2>1, <2>2 DEF Undo
<1>7. ASSUME ~ l.failed PROVE Normal(q, m.op)
  BY <1>1, <1>7, NormalRest DEF Sound
<1>8. Pooled(q, m)
  <2> SUFFICES ASSUME m.pool = NoPool, NEW j \in 1..Len(q), q[j].op \in NeedsPool
               PROVE  \E i \in 1..Len(q) : i < j /\ q[i].op = "pool"
    BY DEF Pooled
  <2>1. l.pool = NoPool /\ \A i \in 1..n : p[i].op # "pool"
    BY DEF Cut
  <2>2. j + n \in 1..Len(p) /\ p[j + n].op \in NeedsPool
    BY <1>2
  <2>3. PICK i \in 1..Len(p) : i < j + n /\ p[i].op = "pool"
    BY <2>1, <2>2 DEF Sound, Pooled
  <2>4. i > n
    BY <1>2, <2>1, <2>3
  <2>5. i - n \in 1..Len(q) /\ q[i - n].op = "pool" /\ i - n < j
    BY <1>2, <1>3, <2>3, <2>4
  <2> QED
    BY <2>5
<1>9. Kept(q, m)
  <2>1. CASE m.keep # NoPool /\ m.op \in {"restore", "bootstrap"}
    BY <2>1 DEF Kept
  <2>2. CASE /\ m.keep = l.keep /\ \A i \in 1..n : ~ Is(p, i, "private", "prior")
             /\ p[1].op # "savePublic" /\ (n = 1 \/ \A i \in 1..n : p[i].op # "savePrivate")
    <3>1. Kept(p, l)
      BY DEF Sound
    <3>2. ASSUME m.op = "restore", m.keep = NoPool
          PROVE  \E j \in 1..Len(q) : Is(q, j, "private", "prior")
      <4>1. PICK i \in 1..Len(p) : Is(p, i, "private", "prior")
        BY <1>1, <2>2, <3>1, <3>2 DEF Kept
      <4>2. i > n
        BY <1>2, <2>2, <4>1
      <4>3. i - n \in 1..Len(q) /\ q[i - n] = p[i]
        BY <1>3, <4>2
      <4> QED
        BY <4>1, <4>3 DEF Is
    <3>3. ASSUME m.op = "bootstrap", m.keep = NoPool
          PROVE  Ahead(q, 0) \/ q[1].op = "savePublic"
      <4>1. Ahead(p, 0)
        BY <1>1, <2>2, <3>1, <3>3 DEF Kept
      <4>2. PICK i \in 1..Len(p) : i > 0 /\ p[i].op = "savePrivate"
        BY <4>1 DEF Ahead
      <4>3. CASE i > n
        <5>1. i - n \in 1..Len(q) /\ q[i - n].op = "savePrivate" /\ i - n > 0
          BY <1>2, <1>3, <4>2, <4>3
        <5> QED
          BY <5>1 DEF Ahead
      <4>4. CASE i <= n
        <5>1. n = 1 /\ i = 1
          BY <1>2, <2>2, <4>2, <4>4
        <5>2. After(p, 1)
          BY <1>1, <1>2 DEF Flow
        <5>3. Is(p, 1 + 1, "savePublic", "none")
          BY <4>2, <5>1, <5>2 DEF After
        <5>4. q[1] = p[1 + 1]
          BY <1>2, <5>1
        <5> QED
          BY <5>3, <5>4 DEF Is
      <4> QED
        BY <1>2, <4>3, <4>4
    <3>4. /\ m.keep # NoPool => m.op \in {"restore", "bootstrap"}
          /\ m.failed => m.keep # NoPool
      BY <1>1, <2>2, <3>1 DEF Kept
    <3> QED
      BY <3>2, <3>3, <3>4 DEF Kept
  <2> QED
    BY <2>1, <2>2 DEF Cut
<1>10. Chosen(q, m)
  <2> SUFFICES ASSUME NEW j \in 1..Len(q), q[j].op \in SaveOps, ~ Complete(m.new)
               PROVE  \E i \in 1..Len(q) : i < j /\ Is(q, i, "private", "mint")
    BY DEF Chosen
  <2>1. m.new = l.new /\ \A i \in 1..n : ~ Is(p, i, "private", "mint")
    BY DEF Cut
  <2>2. j + n \in 1..Len(p) /\ p[j + n].op \in SaveOps
    BY <1>2
  <2>3. PICK i \in 1..Len(p) : i < j + n /\ Is(p, i, "private", "mint")
    BY <2>1, <2>2 DEF Sound, Chosen
  <2>4. i > n
    BY <1>2, <2>1, <2>3
  <2>5. i - n \in 1..Len(q) /\ q[i - n] = p[i] /\ i - n < j
    BY <1>2, <1>3, <2>3, <2>4
  <2> QED
    BY <2>3, <2>5 DEF Is
<1>11. IF m.failed THEN Undo(q, m.op) ELSE Normal(q, m.op)
  BY <1>1, <1>6, <1>7
<1> QED
  BY <1>1, <1>4, <1>5, <1>8, <1>9, <1>10, <1>11 DEF Sound

(***************************************************************************)
(* And one that owes what it owed, unless the node is dropped.             *)
(***************************************************************************)
LEMMA OwesRest ==
    ASSUME NEW p, NEW l, NEW q, NEW n, NEW m, Sound(p, l), Rest(q, p, n), n \in 1..Len(p),
           m.op = l.op, m.failed = l.failed, Owes(p, l), p[1].op # "clearPrivate",
           \A i \in 1..n : p[i].op # "dropNode"
    PROVE  q # <<>> /\ Owes(q, m)
<1>1. /\ p \in Seq(StepRec) /\ q \in Seq(StepRec) /\ n \in Nat /\ Len(p) \in Nat
      /\ Len(q) = Len(p) - n /\ 0 + n = n
  BY DEF Sound, Rest
<1>2. CASE l.failed
  <2>1. Undoing(p)
    BY <1>2 DEF Sound, Undo
  <2>2. n # Len(p)
    BY <1>1, <2>1 DEF Undoing
  <2> QED
    BY <1>1, <1>2, <2>2 DEF Owes
<1>3. CASE ~ l.failed
  <2>1. ~ Ahead(p, 0) /\ Drops(p, l.op, 0)
    BY <1>3 DEF Owes
  <2>2. ~ Ahead(p, n)
    BY <1>1, <2>1 DEF Ahead
  <2>3. Drops(p, l.op, n)
    <3>1. PICK k \in 1..Len(p) : /\ k > 0 /\ p[k].op = "dropNode"
                                 /\ l.op = "restore" => \A i \in 1..k : i > 0 => p[i].op # "network"
      BY <2>1 DEF Drops
    <3>2. k > n
      BY <1>1, <3>1
    <3>3. l.op = "restore" => \A i \in 1..k : i > n => p[i].op # "network"
      BY <1>1, <3>1
    <3> QED
      BY <3>1, <3>2, <3>3 DEF Drops
  <2>4. (Ahead(q, 0) <=> Ahead(p, 0 + n)) /\ (Drops(q, l.op, 0) <=> Drops(p, l.op, 0 + n))
    BY <1>1, AheadRest
  <2>5. ~ Ahead(q, 0) /\ Drops(q, l.op, 0)
    BY <1>1, <2>2, <2>3, <2>4
  <2>6. q # <<>>
    BY <2>5 DEF Drops
  <2> QED
    BY <2>5, <2>6 DEF Owes
<1> QED
  BY <1>2, <1>3

(***************************************************************************)
(* A task without an operation.                                            *)
(***************************************************************************)
LEMMA IdleSound == Sound(<<>>, Idle) /\ ~ Owes(<<>>, Idle)
<1>1. Idle \in LocalRec
  BY PathAssumption DEF Idle, LocalRec, Op, Config, DefaultConfig, Pair, NoPair, Key
<1>2. <<>> \in Seq(StepRec) /\ Len(<<>>) = 0 /\ 1..0 = {}
  OBVIOUS
<1>3. Idle.op = "none" /\ Idle.failed = FALSE /\ Idle.keep = NoPool
  BY DEF Idle
<1>4. /\ Flow(<<>>) /\ Normal(<<>>, Idle.op) /\ Pooled(<<>>, Idle) /\ Kept(<<>>, Idle)
      /\ Chosen(<<>>, Idle)
  BY <1>2, <1>3 DEF Flow, Normal, Pooled, Kept, Chosen
<1> QED
  BY <1>1, <1>2, <1>3, <1>4 DEF Sound, Owes

(***************************************************************************)
(* Where a task enters get_node nothing is to be saved any more.           *)
(***************************************************************************)
LEMMA EnteringSound ==
    ASSUME NEW p, NEW l, Sound(p, l), p # <<>>, Entering(p, 1)
    PROVE  /\ ~ l.failed /\ \A j \in 1..Len(p) : p[j].op \notin SaveOps
           /\ \A j \in 1..Len(p) : p[j].op # "marked" /\ ~ Is(p, j, "private", "prior")
           /\ l.op \in {"restore", "bootstrap"} => l.keep # NoPool
<1>1. p \in Seq(StepRec) /\ 1 \in 1..Len(p) /\ Len(p) \in Nat
  BY DEF Sound
<1>2. ASSUME l.failed PROVE FALSE
  <2>1. CASE Undoing(p)
    <3>1. p[1].op \in SaveOps \cup UndoOps \cup {"dropNode"}
      BY <1>1, <2>1 DEF Undoing
    <3> QED
      BY <3>1 DEF Entering, Inside, SaveOps, UndoOps, Use
  <2>2. CASE p[1].op = "clearPrivate"
    BY <2>2 DEF Entering, Inside, Use
  <2> QED
    BY <1>2, <2>1, <2>2 DEF Sound, Undo
<1>3. ASSUME NEW j \in 1..Len(p) PROVE NormalAt(p, l.op, j)
  BY <1>2 DEF Sound, Normal
<1>4. ASSUME NEW j \in 1..Len(p), p[j].op \in SaveOps PROVE FALSE
  <2>1. 1 \in 1..j
    BY <1>1
  <2> QED
    BY <1>3, <1>4, <2>1 DEF NormalAt
<1>5. ASSUME NEW j \in Nat PROVE ~ Ahead(p, j)
  BY <1>4 DEF Ahead, SaveOps
<1>6. ASSUME NEW j \in 1..Len(p) PROVE p[j].op # "marked" /\ ~ Is(p, j, "private", "prior")
  <2>1. NormalAt(p, l.op, j) /\ ~ Ahead(p, j)
    BY <1>1, <1>3, <1>5
  <2> QED
    BY <2>1 DEF NormalAt
<1>7. ~ Ahead(p, 0) /\ p[1].op # "savePublic"
  BY <1>1, <1>4, <1>5 DEF SaveOps
<1>8. l.op \in {"restore", "bootstrap"} => l.keep # NoPool
  BY <1>6, <1>7 DEF Sound, Kept
<1> QED
  BY <1>2, <1>4, <1>6, <1>8

(***************************************************************************)
(* From where a task enters get_node its steps lead to the end of it.      *)
(***************************************************************************)
NodeOps == {"fast", "slow", "config", "pool", "public", "private"}
Building(p, j) ==
    \E k \in 1..Len(p) : k >= j /\ p[k].op = "build"
                         /\ \A i \in 1..Len(p) : i >= j /\ i < k => p[i].op \in NodeOps

\* One step earlier.
LEMMA BuildingBack ==
    ASSUME NEW p \in Seq(StepRec), NEW j \in 1..Len(p), p[j].op \in NodeOps, Building(p, j + 1)
    PROVE  Building(p, j)
<1>1. PICK k \in 1..Len(p) : k >= j + 1 /\ p[k].op = "build"
                             /\ \A i \in 1..Len(p) : i >= j + 1 /\ i < k => p[i].op \in NodeOps
  BY DEF Building
<1>2. k >= j /\ \A i \in 1..Len(p) : i >= j /\ i < k => p[i].op \in NodeOps
  BY <1>1
<1> QED
  BY <1>1, <1>2 DEF Building

\* From each of them.
LEMMA BuildAhead ==
    ASSUME NEW p \in Seq(StepRec), Flow(p), NEW j \in 1..Len(p), Entering(p, j)
    PROVE  Building(p, j)
<1>1. Len(p) \in Nat /\ \A i \in 1..Len(p) : After(p, i) /\ p[i] \in StepRec /\ i + 1 \in Nat
  BY DEF Flow
<1>2. ASSUME NEW i \in 1..Len(p), p[i].op = "build" PROVE Building(p, i)
  BY <1>2 DEF Building
<1>3. ASSUME NEW i \in 1..Len(p), Is(p, i, "private", "node") PROVE Building(p, i)
  <2>1. Is(p, i + 1, "build", "none")
    BY <1>1, <1>3 DEF After
  <2>2. Building(p, i + 1)
    BY <1>2, <2>1 DEF Is
  <2> QED
    BY <1>3, <2>2, BuildingBack DEF Is, NodeOps
<1>4. ASSUME NEW i \in 1..Len(p), Is(p, i, "public", "node") PROVE Building(p, i)
  <2>1. Is(p, i + 1, "private", "node")
    BY <1>1, <1>4 DEF After
  <2>2. Building(p, i + 1)
    BY <1>3, <2>1 DEF Is
  <2> QED
    BY <1>4, <2>2, BuildingBack DEF Is, NodeOps
<1>5. ASSUME NEW i \in 1..Len(p), Is(p, i, "private", "signer") PROVE Building(p, i)
  <2>1. Is(p, i + 1, "public", "node")
    BY <1>1, <1>5 DEF After
  <2>2. Building(p, i + 1)
    BY <1>4, <2>1 DEF Is
  <2> QED
    BY <1>5, <2>2, BuildingBack DEF Is, NodeOps
<1>6. ASSUME NEW i \in 1..Len(p), Is(p, i, "public", "signer") PROVE Building(p, i)
  <2>1. Is(p, i + 1, "private", "signer")
    BY <1>1, <1>6 DEF After
  <2>2. Building(p, i + 1)
    BY <1>5, <2>1 DEF Is
  <2> QED
    BY <1>6, <2>2, BuildingBack DEF Is, NodeOps
<1>7. ASSUME NEW i \in 1..Len(p), p[i].op = "pool", Inside(p, i) PROVE Building(p, i)
  <2>1. Is(p, i + 1, "public", "signer")
    BY <1>7 DEF Inside, Use
  <2>2. Building(p, i + 1)
    BY <1>6, <2>1 DEF Is
  <2> QED
    BY <1>7, <2>2, BuildingBack DEF NodeOps
<1>8. ASSUME NEW i \in 1..Len(p), p[i].op = "config", Inside(p, i) PROVE Building(p, i)
  <2>1. Is(p, i + 2, "public", "signer") /\ (i + 1) + 1 = i + 2
    BY <1>8 DEF Inside, Use
  <2>2. Is(p, i + 1, "pool", "none")
    BY <1>1, <1>8 DEF After
  <2>3. i + 1 \in 1..Len(p) /\ p[i + 1].op = "pool" /\ Inside(p, i + 1)
    BY <2>1, <2>2 DEF Inside, Is
  <2>4. Building(p, i + 1)
    BY <1>7, <2>3
  <2> QED
    BY <1>8, <2>4, BuildingBack DEF NodeOps
<1>9. ASSUME NEW i \in 1..Len(p), p[i].op = "slow" PROVE Building(p, i)
  <2>1. Is(p, i + 1, "config", "none") /\ Inside(p, i + 1)
    BY <1>1, <1>9 DEF After
  <2>2. Building(p, i + 1)
    BY <1>8, <2>1 DEF Is
  <2> QED
    BY <1>9, <2>2, BuildingBack DEF NodeOps
<1>10. ASSUME NEW i \in 1..Len(p), p[i].op = "fast" PROVE Building(p, i)
  <2>1. Is(p, i + 1, "slow", "none")
    BY <1>1, <1>10 DEF After
  <2>2. Building(p, i + 1)
    BY <1>9, <2>1 DEF Is
  <2> QED
    BY <1>10, <2>2, BuildingBack DEF NodeOps
<1>11. ASSUME NEW i \in 1..Len(p), Is(p, i, "private", "try") PROVE Building(p, i)
  <2>1. Is(p, i + 1, "fast", "none")
    BY <1>1, <1>11 DEF After
  <2>2. Building(p, i + 1)
    BY <1>10, <2>1 DEF Is
  <2> QED
    BY <1>11, <2>2, BuildingBack DEF Is, NodeOps
<1>12. ASSUME NEW i \in 1..Len(p), Is(p, i, "public", "try") PROVE Building(p, i)
  <2>1. Is(p, i + 1, "private", "try")
    BY <1>1, <1>12 DEF After
  <2>2. Building(p, i + 1)
    BY <1>11, <2>1 DEF Is
  <2> QED
    BY <1>12, <2>2, BuildingBack DEF Is, NodeOps
<1>13. \/ p[j].op \in {"fast", "slow", "build"}
       \/ p[j].op \in {"pool", "config"} /\ Inside(p, j)
       \/ \E use \in {"signer", "node", "try"} : Is(p, j, "public", use) \/ Is(p, j, "private", use)
  <2>1. Use(p[j]) # "none" => p[j].op \in {"public", "private"}
    BY <1>1, StepTypes
  <2> QED
    BY <2>1 DEF Entering, Inside, Is
<1> QED
  BY <1>2, <1>3, <1>4, <1>5, <1>6, <1>7, <1>8, <1>9, <1>10, <1>11, <1>12, <1>13

\* Where the program of a task goes on once get_node is left.
NodeEnd(p) == SubSeq(p, 1 + SelectInSeq(p, LAMBDA s : s.op = "build"), Len(p))

(***************************************************************************)
(* A task that leaves get_node goes on behind the first step that builds.  *)
(***************************************************************************)
LEMMA NodeEndRest ==
    ASSUME NEW p \in Seq(StepRec), p # <<>>, Flow(p), Entering(p, 1)
    PROVE  \E n \in 1..Len(p) : /\ Rest(NodeEnd(p), p, n) /\ p[n].op = "build"
                                /\ \A i \in 1..n : i < n => p[i].op \in NodeOps
<1>1. 1 \in 1..Len(p) /\ Len(p) \in Nat
  OBVIOUS
<1>2. PICK k \in 1..Len(p) : k >= 1 /\ p[k].op = "build"
                             /\ \A i \in 1..Len(p) : i >= 1 /\ i < k => p[i].op \in NodeOps
  BY <1>1, BuildAhead DEF Building
<1> DEFINE I == {i \in 1..Len(p) : p[i].op = "build"}
<1>3. k \in I /\ \A y \in I : k <= y
  BY <1>1, <1>2 DEF NodeOps
<1>4. \A x \in I : (\A y \in I : x <= y) => x = k
  BY <1>1, <1>3
<1>5. Min(I) = k
  BY <1>3, <1>4 DEF Min
<1>6. SelectInSeq(p, LAMBDA s : s.op = "build") = k
  BY <1>3, <1>5 DEF SelectInSeq
<1>7. NodeEnd(p) = SubSeq(p, k + 1, Len(p)) /\ k \in 0..Len(p)
  BY <1>1, <1>6 DEF NodeEnd
<1>8. Rest(NodeEnd(p), p, k)
  BY <1>7, Cuts
<1> QED
  BY <1>1, <1>2, <1>8

\* Continue, as a choice of what the task is left with.
Left(q, m) == IF q = <<>> THEN Idle ELSE m

(***************************************************************************)
(* The task that leaves get_node.                                          *)
(***************************************************************************)
LEMMA JumpSound ==
    ASSUME NEW p, NEW l, Sound(p, l), p # <<>>, Entering(p, 1), NEW q, q = NodeEnd(p),
           NEW m \in LocalRec, m.op = l.op, m.failed = l.failed, m.keep = l.keep,
           m.new = l.new, m.pool # NoPool
    PROVE  /\ Sound(q, Left(q, m)) /\ (Owes(p, l) => Owes(q, Left(q, m)))
           /\ q # <<>> => ~ Inside(q, 1) /\ q[1].op # "dropPool"
<1>1. /\ p \in Seq(StepRec) /\ Flow(p) /\ Len(p) \in Nat /\ 1 \in 1..Len(p) /\ p[1] \in StepRec
      /\ \A i \in 1..Len(p) : p[i] \in StepRec
  BY DEF Sound
<1>2. PICK n \in 1..Len(p) : /\ Rest(NodeEnd(p), p, n) /\ p[n].op = "build"
                             /\ \A i \in 1..n : i < n => p[i].op \in NodeOps
  BY <1>1, NodeEndRest
<1>3. /\ ~ l.failed /\ \A j \in 1..Len(p) : p[j].op \notin SaveOps
      /\ \A j \in 1..Len(p) : p[j].op # "marked" /\ ~ Is(p, j, "private", "prior")
      /\ l.op \in {"restore", "bootstrap"} => l.keep # NoPool
  BY EnteringSound
<1>4. ASSUME NEW i \in 1..Len(p), Is(p, i, "private", "mint") PROVE FALSE
  <2>1. Is(p, i + 1, "savePrivate", "none")
    BY <1>1, <1>4 DEF Flow, After
  <2> QED
    BY <1>3, <2>1 DEF Is, SaveOps
<1>5. \A i \in 1..n : i \in 1..Len(p) /\ p[i].op \in NodeOps \cup {"build"}
  BY <1>1, <1>2
<1>6. p[1].op \in NodeOps \cup {"build"} /\ 1 \in 1..n
  BY <1>1, <1>5
<1>7. Cut(p, l, n, m)
  <2>1. p[n].op # "clearPrivate" /\ p[1].op # "clearPrivate" /\ p[1].op # "savePublic"
    BY <1>2, <1>6 DEF NodeOps
  <2>2. \A i \in 1..n : ~ Is(p, i, "private", "prior") /\ p[i].op # "savePrivate"
                        /\ ~ Is(p, i, "private", "mint")
    BY <1>3, <1>4, <1>5 DEF SaveOps
  <2>3. \/ m.keep # NoPool /\ m.op \in {"restore", "bootstrap"}
        \/ /\ m.keep = l.keep /\ \A i \in 1..n : ~ Is(p, i, "private", "prior")
           /\ p[1].op # "savePublic" /\ (n = 1 \/ \A i \in 1..n : p[i].op # "savePrivate")
    BY <2>1, <2>2
  <2>4. Complete(m.new) \/ (m.new = l.new /\ \A i \in 1..n : ~ Is(p, i, "private", "mint"))
    BY <2>2
  <2> QED
    BY <2>1, <2>3, <2>4 DEF Cut
<1>8. Rest(q, p, n)
  BY <1>2
<1>9. Sound(q, Left(q, m))
  <2>1. CASE q = <<>>
    BY <2>1, IdleSound DEF Left
  <2>2. CASE q # <<>>
    <3>1. Sound(q, m)
      BY ONLY Sound(p, l), <1>8, <1>7, <2>2, SoundRest
    <3> QED
      BY <2>2, <3>1 DEF Left
  <2> QED
    BY <2>1, <2>2
<1>10. ASSUME Owes(p, l) PROVE Owes(q, Left(q, m))
  <2>1. p[1].op # "clearPrivate" /\ \A i \in 1..n : p[i].op # "dropNode"
    BY <1>5, <1>6 DEF NodeOps
  <2>2. q # <<>> /\ Owes(q, m)
    BY <1>8, <1>10, <2>1, OwesRest
  <2> QED
    BY <2>2 DEF Left
<1>11. ASSUME q # <<>> PROVE ~ Inside(q, 1) /\ q[1].op # "dropPool"
  <2>1. 1 \in 1..Len(q) /\ 1 + n \in 1..Len(p) /\ 1 + n > 1 /\ (1 + n) - 1 = n /\ q[1] = p[1 + n]
    <3>1. q \in Seq(StepRec) /\ Len(q) \in Nat /\ Len(q) = Len(p) - n
      BY <1>8 DEF Rest
    <3>2. 1 \in 1..Len(q)
      BY <1>11, <3>1
    <3> QED
      BY <1>1, <1>8, <3>1, <3>2 DEF Rest
  <2>2. Inside(q, 1) <=> Inside(p, 1 + n)
    BY <1>1, <1>8, <2>1, RestSteps
  <2>3. Before(p, 1 + n)
    BY <1>1, <2>1 DEF Flow
  <2> QED
    BY <1>2, <2>1, <2>2, <2>3 DEF Before
<1> QED
  BY <1>9, <1>10, <1>11

(***************************************************************************)
(* The task that does one step.                                            *)
(***************************************************************************)
LEMMA TailSound ==
    ASSUME NEW p, NEW l, Sound(p, l), p # <<>>, NEW q, q = Tail(p), NEW m, Cut(p, l, 1, m)
    PROVE  /\ Sound(q, Left(q, m))
           /\ p[1].op # "dropNode" => (Owes(p, l) => Owes(q, Left(q, m)))
           /\ q # <<>> /\ Inside(q, 1) =>
                 p[1].op = "slow" \/ (Inside(p, 1) /\ p[1].op # "build")
           /\ q # <<>> /\ q[1].op = "dropPool" => p[1].op = "newConfig"
           /\ q # <<>> => q[1] = p[2]
<1>1. /\ p \in Seq(StepRec) /\ Flow(p) /\ Len(p) \in Nat /\ 1 \in 1..Len(p)
      /\ Rest(q, p, 1) /\ m.op = l.op /\ m.failed = l.failed /\ p[1].op # "clearPrivate"
  BY Cuts DEF Sound, Cut
<1>2. Sound(q, Left(q, m))
  <2>1. CASE q = <<>>
    BY <2>1, IdleSound DEF Left
  <2>2. CASE q # <<>>
    <3>1. Sound(q, m)
      BY <1>1, <2>2, SoundRest
    <3> QED
      BY <2>2, <3>1 DEF Left
  <2> QED
    BY <2>1, <2>2
<1>3. ASSUME p[1].op # "dropNode", Owes(p, l) PROVE Owes(q, Left(q, m))
  <2>1. \A i \in 1..1 : p[i].op # "dropNode"
    BY <1>3
  <2>2. q # <<>> /\ Owes(q, m)
    BY <1>1, <1>3, <2>1, OwesRest
  <2> QED
    BY <2>2 DEF Left
<1>4. ASSUME q # <<>>
      PROVE  /\ Inside(q, 1) => p[1].op = "slow" \/ (Inside(p, 1) /\ p[1].op # "build")
             /\ q[1].op = "dropPool" => p[1].op = "newConfig"
             /\ q[1] = p[2]
  <2>1. 1 \in 1..Len(q) /\ 1 + 1 = 2 /\ 2 \in 1..Len(p) /\ 2 > 1 /\ 2 - 1 = 1 /\ q[1] = p[2]
    <3>1. q \in Seq(StepRec) /\ Len(q) \in Nat /\ Len(q) = Len(p) - 1
      BY <1>1 DEF Rest
    <3>2. 1 \in 1..Len(q)
      BY <1>4, <3>1
    <3> QED
      BY <1>1, <3>1, <3>2 DEF Rest
  <2>2. Inside(q, 1) <=> Inside(p, 1 + 1)
    BY <1>1, <2>1, RestSteps
  <2>3. Before(p, 2)
    BY <1>1, <2>1 DEF Flow
  <2> QED
    BY <2>1, <2>2, <2>3 DEF Before
<1> QED
  BY <1>2, <1>3, <1>4

(***************************************************************************)
(* Inside get_node the next step is inside as well.                        *)
(***************************************************************************)
LEMMA InsideNext ==
    ASSUME NEW p \in Seq(StepRec), p # <<>>, Flow(p),
           (Inside(p, 1) /\ p[1].op # "build") \/ p[1].op = "slow"
    PROVE  /\ Tail(p) # <<>> /\ Inside(Tail(p), 1) /\ 2 \in 1..Len(p) /\ Tail(p)[1] = p[2]
           /\ \A op, use : Is(Tail(p), 1, op, use) <=> Is(p, 2, op, use)
<1>1. Len(p) \in Nat /\ 1 \in 1..Len(p) /\ Rest(Tail(p), p, 1) /\ p[1] \in StepRec
  BY Cuts
<1>2. After(p, 1) /\ 1 + 1 = 2 /\ 1 + 2 = 3 /\ 2 + 1 = 3
  BY <1>1 DEF Flow
<1>3. \/ p[1].op = "slow"
      \/ p[1].op \in {"pool", "config"} /\ Inside(p, 1)
      \/ \E use \in {"signer", "node"} : Is(p, 1, "public", use) \/ Is(p, 1, "private", use)
  <2>1. Use(p[1]) # "none" => p[1].op \in {"public", "private"}
    BY <1>1, StepTypes
  <2> QED
    BY <1>1, <2>1 DEF Inside, Is
<1>4. 2 \in 1..Len(p) /\ Inside(p, 2)
  <2>1. CASE p[1].op = "slow"
    BY <1>2, <2>1 DEF After, Is
  <2>2. CASE p[1].op = "pool" /\ Inside(p, 1)
    <3>1. Is(p, 2, "public", "signer")
      BY <1>2, <2>2 DEF Inside, Use
    <3> QED
      BY <3>1 DEF Is, Inside
  <2>3. CASE p[1].op = "config" /\ Inside(p, 1)
    <3>1. Is(p, 3, "public", "signer") /\ Is(p, 2, "pool", "none")
      BY <1>2, <2>3 DEF Inside, Use, After
    <3> QED
      BY <1>2, <3>1 DEF Is, Inside
  <2>4. CASE \E use \in {"signer", "node"} : Is(p, 1, "public", use) \/ Is(p, 1, "private", use)
    <3>1. \/ Is(p, 2, "private", "signer") \/ Is(p, 2, "public", "node")
          \/ Is(p, 2, "private", "node") \/ Is(p, 2, "build", "none")
      BY <1>2, <2>4 DEF After
    <3> QED
      BY <3>1 DEF Is, Inside
  <2> QED
    BY <1>3, <2>1, <2>2, <2>3, <2>4
<1>5. Tail(p) # <<>> /\ 1 \in 1..Len(Tail(p))
  <2>1. Tail(p) \in Seq(StepRec) /\ Len(Tail(p)) = Len(p) - 1
    BY <1>1 DEF Rest
  <2> QED
    BY <1>1, <1>4, <2>1
<1>6. /\ Tail(p)[1] = p[1 + 1] /\ (Inside(Tail(p), 1) <=> Inside(p, 1 + 1))
      /\ \A op, use : Is(Tail(p), 1, op, use) <=> Is(p, 1 + 1, op, use)
  <2> DEFINE q == Tail(p)
  <2>1. Rest(q, p, 1) /\ 1 \in 1..Len(q)
    BY <1>1, <1>5
  <2> HIDE DEF q
  <2>2. /\ q[1] = p[1 + 1] /\ (Inside(q, 1) <=> Inside(p, 1 + 1))
        /\ \A op, use : Is(q, 1, op, use) <=> Is(p, 1 + 1, op, use)
    BY <2>1, RestSteps
  <2> QED
    BY <2>2 DEF q
<1> QED
  BY <1>2, <1>4, <1>5, <1>6

(***************************************************************************)
(* Who saves owes.                                                         *)
(***************************************************************************)
LEMMA SaveOwes ==
    ASSUME NEW p, NEW l, Sound(p, l), p # <<>>, p[1].op \in SaveOps, NEW q, q = Tail(p),
           NEW m, m.op = l.op, m.failed = l.failed
    PROVE  q # <<>> /\ Owes(q, m)
<1>1. /\ p \in Seq(StepRec) /\ Len(p) \in Nat /\ 1 \in 1..Len(p) /\ Rest(q, p, 1)
      /\ 0 + 1 = 1 /\ 0 \in Nat /\ q \in Seq(StepRec) /\ Len(q) = Len(p) - 1
      /\ (q = <<>> => Len(q) = 0)
  <2>1. p \in Seq(StepRec)
    BY DEF Sound
  <2>2. Len(p) \in Nat /\ 1 \in 1..Len(p) /\ Rest(q, p, 1)
    BY <2>1, Cuts
  <2>3. q \in Seq(StepRec) /\ Len(q) = Len(p) - 1
    BY <2>2 DEF Rest
  <2>4. q = <<>> => Len(q) = 0
    BY ONLY <2>3, Cuts
  <2> QED
    BY <2>1, <2>2, <2>3, <2>4
<1>2. CASE l.failed
  <2>1. Undoing(p) /\ l.op = "restore"
    BY <1>2 DEF Sound, Undo, SaveOps
  <2>2. Len(p) # 1
    BY <2>1 DEF Undoing, SaveOps
  <2>3. q # <<>>
    BY <1>1, <2>2
  <2> QED
    BY <1>2, <2>1, <2>3 DEF Owes
<1>3. CASE ~ l.failed
  <2>1. /\ l.op \in {"restore", "bootstrap"}
        /\ ~ Ahead(p, 1) /\ Drops(p, l.op, 1)
    BY <1>1, <1>3 DEF Sound, Normal, NormalAt
  <2>2. (Ahead(q, 0) <=> Ahead(p, 0 + 1)) /\ (Drops(q, l.op, 0) <=> Drops(p, l.op, 0 + 1))
    BY <1>1, AheadRest
  <2>3. ~ Ahead(q, 0) /\ Drops(q, l.op, 0)
    BY <1>1, <2>1, <2>2
  <2>4. q # <<>>
    BY <1>1, <2>3 DEF Drops
  <2> QED
    BY <2>1, <2>3, <2>4 DEF Owes
<1> QED
  BY <1>2, <1>3

-----------------------------------------------------------------------------
(* The inductive invariant                                                 *)

\* A task whose next step is inside get_node's section, or in the middle of
\* update_config, holds the write lock of the slot, and nobody else does.
Held(p, held) ==
    /\ held => p # <<>> /\ (Inside(p, 1) \/ p[1].op \in {"dropPool", "dropNode"})
    /\ p # <<>> /\ (Inside(p, 1) \/ p[1].op = "dropPool") => held

\* What a task inside get_node has read is what the tree holds, unless the
\* node it builds is still to be dropped.
Agrees(p, l, tree, owed) ==
    p # <<>> /\ Inside(p, 1) =>
    /\ p[1].op \in {"public", "private", "build"} => l.pool.path = l.cfg.path
    /\ Is(p, 1, "private", "signer") =>
          (l.read.pub # NoKey => tree.pub # NoKey) /\ (owed \/ l.read.pub = tree.pub)
    /\ Is(p, 1, "public", "node") \/ Is(p, 1, "private", "node") \/ p[1].op = "build" =>
          Complete(tree) /\ (owed \/ l.signer = tree)
    /\ Is(p, 1, "private", "node") => l.read.pub # NoKey /\ (owed \/ l.read.pub = tree.pub)
    /\ p[1].op = "build" => owed \/ l.read = tree

Owed == \E t \in Task : Owes(prog[t], local[t])
Creates(t) == Agrees(prog[t], local[t], ident[local[t].pool.path], Owed)

SlotGood ==
    \/ Owed
    \/ slot = NoNode
    \/ slot.signer = slot.id /\ slot.id = ident[slot.cfg.path]

SlotRec == [cfg : Config, signer : Pair, id : Pair, pool : Pool]
Types ==
    /\ config \in Config
    /\ slot = NoNode \/ slot \in SlotRec
    /\ lock \in Task \cup {Free}
    /\ pool = NoPool \/ pool \in Pool
    /\ pools \in Nat
    /\ ident \in [Path -> Pair]
    /\ disk \in Config \cup {NoConfig}
    /\ prog \in [Task -> Seq(StepRec)]
    /\ local \in [Task -> LocalRec]

Good ==
    /\ Types /\ SlotGood
    /\ \A t \in Task : Sound(prog[t], local[t]) /\ Held(prog[t], lock = t) /\ Creates(t)

HistOK ==
    /\ hist = [wiped |-> hist.wiped, clean |-> hist.clean, ident |-> hist.ident,
               config |-> hist.config]
    /\ hist.wiped \in BOOLEAN

NodeInv == HistOK /\ (~ hist.wiped => Good)

\* Task t goes on with program q, having read m; nobody else does anything.
Goes(t, q, m) ==
    /\ prog' = [prog EXCEPT ![t] = q] /\ local' = [local EXCEPT ![t] = m]
    /\ Sound(q, m) /\ Held(q, lock' = t)
    /\ lock' = lock \/ {lock, lock'} \subseteq {t, Free}

Typed == /\ config' \in Config /\ (slot' = NoNode \/ slot' \in SlotRec)
        /\ (pool' = NoPool \/ pool' \in Pool) /\ pools' \in Nat
        /\ ident' \in [Path -> Pair] /\ disk' \in Config \cup {NoConfig}

(***************************************************************************)
(* The tasks after a step of one of them.                                  *)
(***************************************************************************)
LEMMA Stepped ==
    ASSUME Good, NEW t \in Task, NEW q, NEW m, Goes(t, q, m), Typed
    PROVE  /\ Types' /\ prog'[t] = q /\ local'[t] = m
           /\ \A u \in Task \ {t} : prog'[u] = prog[u] /\ local'[u] = local[u]
                                    /\ (lock' = u <=> lock = u)
           /\ \A u \in Task : Sound(prog[u], local[u])' /\ Held(prog[u], lock = u)'
           /\ \A u \in Task \ {t} : Inside(prog[u], 1) /\ prog[u] # <<>> => lock = u
           /\ Owes(q, m) => Owed'
           /\ (Owes(prog[t], local[t]) => Owes(q, m)) => (Owed => Owed')
<1>1. prog \in [Task -> Seq(StepRec)] /\ local \in [Task -> LocalRec] /\ lock \in Task \cup {Free}
  BY DEF Good, Types
<1>2. q \in Seq(StepRec) /\ m \in LocalRec
  BY DEF Goes, Sound
<1>3. lock' \in Task \cup {Free}
  BY <1>1 DEF Goes
<1>4. /\ prog' \in [Task -> Seq(StepRec)] /\ local' \in [Task -> LocalRec]
      /\ prog'[t] = q /\ local'[t] = m
      /\ \A u \in Task \ {t} : prog'[u] = prog[u] /\ local'[u] = local[u]
  BY <1>1, <1>2 DEF Goes
<1>5. Types'
  BY <1>3, <1>4 DEF Types, Typed
<1>6. \A u \in Task \ {t} : lock' = u <=> lock = u
  BY LockAssumption DEF Goes
<1>7. ASSUME NEW u \in Task PROVE Sound(prog[u], local[u])' /\ Held(prog[u], lock = u)'
  <2>1. CASE u = t
    <3>1. Sound(q, m) /\ Held(q, lock' = t)
      BY DEF Goes
    <3> QED
      BY <1>4, <2>1, <3>1
  <2>2. CASE u # t
    <3>1. Sound(prog[u], local[u]) /\ Held(prog[u], lock = u)
      BY DEF Good
    <3>2. prog'[u] = prog[u] /\ local'[u] = local[u] /\ (lock' = u <=> lock = u)
      BY <1>4, <1>6, <2>2
    <3>3. Held(prog'[u], lock' = u)
      BY <3>1, <3>2 DEF Held
    <3> QED
      BY <3>1, <3>2, <3>3
  <2> QED
    BY <2>1, <2>2
<1>8. ASSUME NEW u \in Task \ {t}, Inside(prog[u], 1), prog[u] # <<>> PROVE lock = u
  BY <1>8 DEF Good, Held
<1>9. ASSUME Owes(q, m) PROVE Owed'
  <2>1. Owes(prog'[t], local'[t])
    BY <1>4, <1>9
  <2> QED
    BY <2>1 DEF Owed
<1>10. ASSUME Owes(prog[t], local[t]) => Owes(q, m), Owed PROVE Owed'
  <2>1. PICK u \in Task : Owes(prog[u], local[u])
    BY <1>10 DEF Owed
  <2>2. CASE u = t
    BY <1>9, <1>10, <2>1, <2>2
  <2>3. CASE u # t
    <3>1. Owes(prog'[u], local'[u])
      BY <1>4, <2>1, <2>3
    <3> QED
      BY <3>1 DEF Owed
  <2> QED
    BY <2>2, <2>3
<1> QED
  BY <1>4, <1>5, <1>6, <1>7, <1>8, <1>9, <1>10

(***************************************************************************)
(* A step that leaves the trees and the node as they are.                  *)
(***************************************************************************)
LEMMA Keeping ==
    ASSUME Good, NEW t \in Task, NEW q, NEW m, Goes(t, q, m), Typed,
           Owes(prog[t], local[t]) => Owes(q, m), ident' = ident, slot' = slot,
           (Owed => Owed') => Agrees(q, m, ident[m.pool.path], Owed')
    PROVE  Good'
<1>1. /\ Types' /\ prog'[t] = q /\ local'[t] = m /\ (Owed => Owed')
      /\ \A u \in Task \ {t} : prog'[u] = prog[u] /\ local'[u] = local[u]
      /\ \A u \in Task : Sound(prog[u], local[u])' /\ Held(prog[u], lock = u)'
  BY Stepped
<1>2. SlotGood'
  BY <1>1 DEF Good, SlotGood
<1>3. ASSUME NEW u \in Task PROVE Creates(u)'
  <2>1. CASE u = t
    <3>1. Agrees(q, m, ident[m.pool.path], Owed')
      BY <1>1
    <3> QED
      BY <1>1, <2>1, <3>1 DEF Creates
  <2>2. CASE u # t
    <3>1. Agrees(prog[u], local[u], ident[local[u].pool.path], Owed)
      BY DEF Good, Creates
    <3>2. Agrees(prog[u], local[u], ident[local[u].pool.path], Owed')
      BY <1>1, <3>1 DEF Agrees
    <3>3. prog'[u] = prog[u] /\ local'[u] = local[u]
      BY <1>1, <2>2
    <3> QED
      BY <3>2, <3>3 DEF Creates
  <2> QED
    BY <2>1, <2>2
<1> QED
  BY <1>1, <1>2, <1>3 DEF Good

(***************************************************************************)
(* A step that writes a tree, by a task that owes from then on: entries    *)
(* become others, never none.                                              *)
(***************************************************************************)
LEMMA Writing ==
    ASSUME Good, NEW t \in Task, NEW q, NEW m, Goes(t, q, m), Typed,
           Owes(q, m), ~ Inside(q, 1), slot' = slot,
           \A path \in Path : /\ ident[path].pub # NoKey => ident'[path].pub # NoKey
                              /\ ident[path].priv # NoKey => ident'[path].priv # NoKey
    PROVE  Good'
<1>1. /\ Types' /\ prog'[t] = q /\ local'[t] = m /\ Owed'
      /\ \A u \in Task \ {t} : prog'[u] = prog[u] /\ local'[u] = local[u]
      /\ \A u \in Task : Sound(prog[u], local[u])' /\ Held(prog[u], lock = u)'
  BY Stepped
<1>2. SlotGood'
  BY <1>1 DEF SlotGood
<1>3. ASSUME NEW u \in Task PROVE Creates(u)'
  <2>1. CASE u = t
    <3>1. ~ Inside(prog'[u], 1)
      BY <1>1, <2>1
    <3> QED
      BY <3>1 DEF Creates, Agrees
  <2>2. CASE u # t
    <3> DEFINE tree == ident[local[u].pool.path]
               new  == ident'[local[u].pool.path]
    <3>1. Agrees(prog[u], local[u], tree, Owed)
      BY DEF Good, Creates
    <3>2. ASSUME local[u].pool # NoPool
          PROVE  (tree.pub # NoKey => new.pub # NoKey) /\ (Complete(tree) => Complete(new))
      <4>1. local[u].pool.path \in Path
        BY <3>2 DEF Good, Types, LocalRec, Pool
      <4> QED
        BY <4>1 DEF Complete
    <3>2a. ASSUME local[u].pool = NoPool, prog[u] # <<>> PROVE prog[u][1].op \notin NeedsPool
      <4>1. Sound(prog[u], local[u])
        BY DEF Good
      <4>2. 1 \in 1..Len(prog[u])
        BY <3>2a, <4>1, Cuts DEF Sound
      <4> QED
        BY <3>2a, <4>1, <4>2 DEF Sound, Pooled
    <3> HIDE DEF tree, new
    <3>3. Agrees(prog[u], local[u], new, Owed')
      <4>1. CASE local[u].pool # NoPool
        BY <1>1, <3>1, <3>2, <4>1 DEF Agrees
      <4>2. CASE local[u].pool = NoPool
        BY <3>1, <3>2a, <4>2 DEF Agrees, NeedsPool, Is
      <4> QED
        BY <4>1, <4>2
    <3>4. prog'[u] = prog[u] /\ local'[u] = local[u]
      BY <1>1, <2>2
    <3> QED
      BY <3>3, <3>4 DEF Creates, new
  <2> QED
    BY <2>1, <2>2
<1> QED
  BY <1>1, <1>2, <1>3 DEF Good

(***************************************************************************)
(* A step that drops the node.                                             *)
(***************************************************************************)
LEMMA Dropping ==
    ASSUME Good, NEW t \in Task, NEW q, NEW m, Goes(t, q, m), Typed,
           ~ (q # <<>> /\ Inside(q, 1)), lock \in {t, Free}, slot' = NoNode
    PROVE  Good'
<1>1. /\ Types' /\ prog'[t] = q /\ local'[t] = m
      /\ \A u \in Task \ {t} : prog'[u] = prog[u] /\ local'[u] = local[u]
      /\ \A u \in Task : Sound(prog[u], local[u])' /\ Held(prog[u], lock = u)'
      /\ \A u \in Task \ {t} : Inside(prog[u], 1) /\ prog[u] # <<>> => lock = u
  BY Stepped
<1>2. SlotGood'
  BY <1>1 DEF SlotGood
<1>3. ASSUME NEW u \in Task PROVE Creates(u)'
  <2>1. ~ (prog'[u] # <<>> /\ Inside(prog'[u], 1))
    BY <1>1, LockAssumption
  <2> QED
    BY <2>1 DEF Creates, Agrees
<1> QED
  BY <1>1, <1>2, <1>3 DEF Good

(***************************************************************************)
(* The node is built.                                                      *)
(***************************************************************************)
LEMMA Built ==
    ASSUME Good, NEW t \in Task, NEW q, NEW m, Goes(t, q, m), Typed,
           Owes(prog[t], local[t]) => Owes(q, m), ident' = ident, lock = t,
           ~ (q # <<>> /\ Inside(q, 1)),
           Owed \/ (slot'.signer = slot'.id /\ slot'.id = ident[slot'.cfg.path])
    PROVE  Good'
<1>1. /\ Types' /\ prog'[t] = q /\ local'[t] = m /\ (Owed => Owed')
      /\ \A u \in Task \ {t} : prog'[u] = prog[u] /\ local'[u] = local[u]
      /\ \A u \in Task : Sound(prog[u], local[u])' /\ Held(prog[u], lock = u)'
      /\ \A u \in Task \ {t} : Inside(prog[u], 1) /\ prog[u] # <<>> => lock = u
  BY Stepped
<1>2. SlotGood'
  BY <1>1 DEF SlotGood
<1>3. ASSUME NEW u \in Task PROVE Creates(u)'
  <2>1. ~ (prog'[u] # <<>> /\ Inside(prog'[u], 1))
    BY <1>1
  <2> QED
    BY <2>1 DEF Creates, Agrees
<1> QED
  BY <1>1, <1>2, <1>3 DEF Good

(***************************************************************************)
(* What a step does not touch keeps its type.                              *)
(***************************************************************************)
LEMMA Untouched ==
    ASSUME Good
    PROVE  /\ config' = config => config' \in Config
           /\ slot' = slot => (slot' = NoNode \/ slot' \in SlotRec)
           /\ pool' = pool => (pool' = NoPool \/ pool' \in Pool)
           /\ pools' = pools => pools' \in Nat
           /\ ident' = ident => ident' \in [Path -> Pair]
           /\ disk' = disk => disk' \in Config \cup {NoConfig}
BY DEF Good, Types

(***************************************************************************)
(* A step outside of all sections.                                         *)
(***************************************************************************)
LEMMA PlainStep ==
    ASSUME Good, NEW t \in Task, NEW p, p = prog[t], NEW l, l = local[t], p # <<>>,
           NEW m, Advance(t, m), Cut(p, l, 1, m), ~ Inside(p, 1),
           p[1].op \notin {"slow", "newConfig", "dropPool", "dropNode"},
           ident' = ident, slot' = slot, lock' = lock, Typed
    PROVE  Good'
<1> DEFINE q == Tail(p)
           n == Left(q, m)
<1>1. Sound(p, l) /\ Held(p, lock = t)
  BY DEF Good
<1>2. /\ Sound(q, n) /\ (Owes(p, l) => Owes(q, n))
      /\ q # <<>> => ~ Inside(q, 1) /\ q[1].op # "dropPool"
  BY <1>1, TailSound
<1>3. prog' = [prog EXCEPT ![t] = q] /\ local' = [local EXCEPT ![t] = n]
  BY DEF Advance, Continue, Left
<1> HIDE DEF q, n
<1>4. lock # t
  BY <1>1 DEF Held
<1>5. Goes(t, q, n)
  <2>1. Held(q, lock' = t)
    BY <1>2, <1>4 DEF Held
  <2> QED
    BY <1>2, <1>3, <2>1 DEF Goes
<1>6. Agrees(q, n, ident[n.pool.path], Owed')
  BY <1>2 DEF Agrees
<1> QED
  BY <1>2, <1>5, <1>6, Keeping

(***************************************************************************)
(* get_node is left.                                                       *)
(***************************************************************************)
LEMMA JumpStep ==
    ASSUME Good, NEW t \in Task, NEW p, p = prog[t], NEW l, l = local[t], p # <<>>,
           Entering(p, 1), NEW m \in LocalRec, Continue(t, AfterNode(t), m),
           m.op = l.op, m.failed = l.failed, m.keep = l.keep, m.new = l.new,
           m.pool # NoPool, ident' = ident, slot' = slot, Typed,
           lock' # t, lock' = lock \/ {lock, lock'} \subseteq {t, Free}
    PROVE  Good'
<1> DEFINE q == NodeEnd(p)
           n == Left(q, m)
<1>1. Sound(p, l)
  BY DEF Good
<1>2. /\ Sound(q, n) /\ (Owes(p, l) => Owes(q, n))
      /\ q # <<>> => ~ Inside(q, 1) /\ q[1].op # "dropPool"
  BY <1>1, JumpSound
<1>3. prog' = [prog EXCEPT ![t] = q] /\ local' = [local EXCEPT ![t] = n]
  BY DEF AfterNode, NodeEnd, Continue, Left
<1> HIDE DEF q, n
<1>4. Goes(t, q, n)
  <2>1. Held(q, lock' = t)
    BY <1>2 DEF Held
  <2> QED
    BY <1>2, <1>3, <2>1 DEF Goes
<1>5. Agrees(q, n, ident[n.pool.path], Owed')
  BY <1>2 DEF Agrees
<1> QED
  BY <1>2, <1>4, <1>5, Keeping

(***************************************************************************)
(* An operation ends.                                                      *)
(***************************************************************************)
LEMMA EndStep ==
    ASSUME Good, NEW t \in Task, NEW m, Continue(t, <<>>, m), ~ Owes(prog[t], local[t]),
           ident' = ident, slot' = slot, Typed,
           lock' # t, lock' = lock \/ {lock, lock'} \subseteq {t, Free}
    PROVE  Good'
<1>1. prog' = [prog EXCEPT ![t] = <<>>] /\ local' = [local EXCEPT ![t] = Idle]
  BY DEF Continue
<1>2. Goes(t, <<>>, Idle)
  <2>1. Held(<<>>, lock' = t)
    BY DEF Held
  <2> QED
    BY <1>1, <2>1, IdleSound DEF Goes
<1>3. Agrees(<<>>, Idle, ident[Idle.pool.path], Owed')
  BY DEF Agrees
<1> QED
  BY <1>2, <1>3, Keeping

-----------------------------------------------------------------------------
(* The programs                                                            *)

Edit == Path \cup {"keep", "pre", "cloud", "local"}

(***************************************************************************)
(* The steps programs are built from.                                      *)
(***************************************************************************)
LEMMA Blocks ==
    /\ \A op \in SimpleOps : /\ Step(op) \in Seq(StepRec) /\ Len(Step(op)) = 1
                             /\ Step(op)[1].op = op /\ Use(Step(op)[1]) = "none"
    /\ \A edit \in Edit : /\ ReadConfig(edit) \in Seq(StepRec) /\ Len(ReadConfig(edit)) = 1
                          /\ ReadConfig(edit)[1].op = "config" /\ Use(ReadConfig(edit)[1]) = "none"
    /\ \A use \in Uses : /\ Load(use) \in Seq(StepRec) /\ Len(Load(use)) = 2
                         /\ Load(use)[1].op = "public" /\ Use(Load(use)[1]) = use
                         /\ Load(use)[2].op = "private" /\ Use(Load(use)[2]) = use
    /\ \A undo \in BOOLEAN :
          /\ Save(undo) \in Seq(StepRec) /\ Len(Save(undo)) = 2
          /\ Save(undo)[1].op = "savePrivate" /\ Save(undo)[1].undo = undo
          /\ Save(undo)[2].op = "savePublic" /\ Save(undo)[2].undo = undo
          /\ Use(Save(undo)[1]) = "none" /\ Use(Save(undo)[2]) = "none"
    /\ \A which \in {"edited", "pre"} :
          LET new == <<[op |-> "newConfig", which |-> which]>> IN
          /\ new \in Seq(StepRec) /\ Len(new) = 1
          /\ new[1].op = "newConfig" /\ Use(new[1]) = "none"
<1>1. ASSUME NEW op \in SimpleOps
      PROVE  /\ Step(op) \in Seq(StepRec) /\ Len(Step(op)) = 1
             /\ Step(op)[1].op = op /\ Use(Step(op)[1]) = "none"
  <2>1. [op |-> op] \in StepRec /\ op \notin {"public", "private"}
    BY DEF StepRec, SimpleOps
  <2> QED
    BY <2>1 DEF Step, Use
<1>2. ASSUME NEW edit \in Edit
      PROVE  /\ ReadConfig(edit) \in Seq(StepRec) /\ Len(ReadConfig(edit)) = 1
             /\ ReadConfig(edit)[1].op = "config" /\ Use(ReadConfig(edit)[1]) = "none"
  <2>1. [op |-> "config", edit |-> edit] \in StepRec
    BY DEF StepRec, Edit
  <2> QED
    BY <2>1 DEF ReadConfig, Use
<1>3. ASSUME NEW use \in Uses
      PROVE  /\ Load(use) \in Seq(StepRec) /\ Len(Load(use)) = 2
             /\ Load(use)[1].op = "public" /\ Use(Load(use)[1]) = use
             /\ Load(use)[2].op = "private" /\ Use(Load(use)[2]) = use
  <2>1. [op |-> "public", use |-> use] \in StepRec /\ [op |-> "private", use |-> use] \in StepRec
    BY DEF StepRec
  <2> QED
    BY <2>1 DEF Load, Use
<1>4. ASSUME NEW undo \in BOOLEAN
      PROVE  /\ Save(undo) \in Seq(StepRec) /\ Len(Save(undo)) = 2
             /\ Save(undo)[1].op = "savePrivate" /\ Save(undo)[1].undo = undo
             /\ Save(undo)[2].op = "savePublic" /\ Save(undo)[2].undo = undo
             /\ Use(Save(undo)[1]) = "none" /\ Use(Save(undo)[2]) = "none"
  <2>1. /\ [op |-> "savePrivate", undo |-> undo] \in StepRec
        /\ [op |-> "savePublic", undo |-> undo] \in StepRec
    BY DEF StepRec
  <2> QED
    BY <2>1 DEF Save, Use
<1>5. ASSUME NEW which \in {"edited", "pre"}
      PROVE  LET new == <<[op |-> "newConfig", which |-> which]>> IN
             /\ new \in Seq(StepRec) /\ Len(new) = 1
             /\ new[1].op = "newConfig" /\ Use(new[1]) = "none"
  <2>1. [op |-> "newConfig", which |-> which] \in StepRec
    BY DEF StepRec
  <2> QED
    BY <2>1 DEF Use
<1> QED
  BY <1>1, <1>2, <1>3, <1>4, <1>5

\* Programs that neither save nor prepare to, and what else is said of them.
PlainAt(p, j) ==
    /\ p[j].op \notin SaveOps \cup {"marked"}
    /\ ~ Is(p, j, "private", "prior") /\ ~ Is(p, j, "private", "mint")
Plain(p)    == p \in Seq(StepRec) /\ Closed(p) /\ \A j \in 1..Len(p) : PlainAt(p, j)
Has(p, op, use) == \E j \in 1..Len(p) : Is(p, j, op, use)
Hushed(p)   == \A j \in 1..Len(p) : p[j].op # "network"
Supplied(p) ==
    \A j \in 1..Len(p) : p[j].op \in NeedsPool => \E i \in 1..Len(p) : i < j /\ p[i].op = "pool"

(***************************************************************************)
(* Programs that begin outside of all sections may follow one another.     *)
(***************************************************************************)
LEMMA ClosedConcat ==
    ASSUME NEW p \in Seq(StepRec), NEW q \in Seq(StepRec), Closed(p), Closed(q)
    PROVE  p \o q \in Seq(StepRec) /\ Closed(p \o q)
<1> DEFINE r == p \o q
           n == Len(p)
<1>1. /\ r \in Seq(StepRec) /\ Len(r) = n + Len(q) /\ n \in Nat /\ Len(q) \in Nat
      /\ \A j \in 1..Len(r) : j \in 1..n \/ j - n \in 1..Len(q)
  BY Concat
<1>2. \A j \in 1..n :
         /\ r[j] = p[j] /\ (Inside(r, j) <=> Inside(p, j))
         /\ \A op, use : /\ Is(r, j, op, use) <=> Is(p, j, op, use)
                         /\ Is(p, j + 1, op, use) => Is(r, j + 1, op, use)
  BY ConcatSteps
<1>3. \A j \in 1..Len(q) :
         /\ r[n + j] = q[j] /\ (Inside(r, n + j) <=> Inside(q, j))
         /\ \A op, use : /\ Is(r, n + j, op, use) <=> Is(q, j, op, use)
                         /\ Is(r, n + j + 1, op, use) <=> Is(q, j + 1, op, use)
  BY ConcatSteps
<1>4. \A op, use, j : Is(p, j, op, use) => j \in 1..n
  BY DEF Is
<1>5. \A op, use, j : Is(q, j, op, use) => j \in 1..Len(q)
  BY DEF Is
<1> HIDE DEF r, n
<1>6. ASSUME NEW j \in 1..n PROVE After(r, j) /\ (j > 1 => Before(r, j))
  <2>0. j \in 1..Len(p)
    BY DEF n
  <2>1. After(p, j)
    BY <2>0 DEF Closed, Flow
  <2>2. /\ r[j] = p[j] /\ (Inside(r, j) <=> Inside(p, j))
        /\ \A op, use : /\ Is(r, j, op, use) <=> Is(p, j, op, use)
                        /\ Is(p, j + 1, op, use) => Is(r, j + 1, op, use)
    BY <1>2
  <2>3. Is(p, j + 1, "config", "none") => (Inside(r, j + 1) <=> Inside(p, j + 1))
    BY <1>2, <1>4
  <2>4. After(r, j)
    BY <2>1, <2>2, <2>3 DEF After
  <2>5. ASSUME j > 1 PROVE Before(r, j)
    <3>1. Before(p, j)
      BY <2>0, <2>5 DEF Closed, Flow
    <3>2. j - 1 \in 1..n
      BY <1>1, <2>5
    <3>3. r[j - 1] = p[j - 1] /\ (Inside(r, j - 1) <=> Inside(p, j - 1))
      BY <1>2, <3>2
    <3> QED
      BY <2>2, <3>1, <3>3 DEF Before
  <2> QED
    BY <2>4, <2>5
<1>7. ASSUME NEW j \in 1..Len(q) PROVE After(r, n + j) /\ (n + j > 1 => Before(r, n + j))
  <2>1. After(q, j)
    BY DEF Closed, Flow
  <2>2. /\ r[n + j] = q[j] /\ (Inside(r, n + j) <=> Inside(q, j))
        /\ \A op, use : /\ Is(r, n + j, op, use) <=> Is(q, j, op, use)
                        /\ Is(r, n + j + 1, op, use) <=> Is(q, j + 1, op, use)
    BY <1>3
  <2>3. Is(q, j + 1, "config", "none") => (Inside(r, n + j + 1) <=> Inside(q, j + 1))
    <3>1. n + j + 1 = n + (j + 1)
      BY <1>1
    <3> QED
      BY <1>3, <1>5, <3>1
  <2>4. After(r, n + j)
    BY <2>1, <2>2, <2>3 DEF After
  <2>5. CASE j > 1
    <3>1. Before(q, j)
      BY <2>5 DEF Closed, Flow
    <3>2. j - 1 \in 1..Len(q) /\ n + (j - 1) = (n + j) - 1
      BY <1>1, <2>5
    <3>3. r[(n + j) - 1] = q[j - 1] /\ (Inside(r, (n + j) - 1) <=> Inside(q, j - 1))
      BY <1>3, <3>2
    <3> QED
      BY <2>2, <2>4, <3>1, <3>3 DEF Before
  <2>6. CASE j = 1
    <3>1. q # <<>>
      BY <1>1
    <3>2. ~ Inside(q, 1) /\ q[1].op \notin {"dropPool", "savePublic", "clearPublic"}
      BY <3>1 DEF Closed, Apart
    <3>3. Before(r, n + j)
      BY <2>2, <2>6, <3>2 DEF Before
    <3> QED
      BY <2>4, <3>3
  <2> QED
    BY <1>1, <2>5, <2>6
<1>8. Flow(r)
  <2> SUFFICES ASSUME NEW j \in 1..Len(r) PROVE After(r, j) /\ (j > 1 => Before(r, j))
    BY DEF Flow
  <2>1. CASE j \in 1..n
    BY <1>6, <2>1
  <2>2. CASE j - n \in 1..Len(q)
    <3>1. n + (j - n) = j
      BY <1>1
    <3>2. After(r, n + (j - n)) /\ (n + (j - n) > 1 => Before(r, n + (j - n)))
      BY <1>7, <2>2
    <3> QED
      BY <3>1, <3>2
  <2> QED
    BY <1>1, <2>1, <2>2
<1>9. Apart(r)
  <2> SUFFICES ASSUME r # <<>>
               PROVE  ~ Inside(r, 1) /\ r[1].op \notin {"dropPool", "savePublic", "clearPublic"}
    BY DEF Apart
  <2>1. CASE n >= 1
    <3>1. 1 \in 1..n /\ p # <<>>
      BY <1>1, <2>1 DEF n
    <3> QED
      BY <1>2, <3>1 DEF Closed, Apart
  <2>2. CASE n = 0
    <3>1. Len(r) # 0
      BY <1>1
    <3>2. 1 \in 1..Len(q) /\ n + 1 = 1 /\ q # <<>>
      BY <1>1, <2>2, <3>1
    <3> QED
      BY <1>3, <3>2 DEF Closed, Apart
  <2> QED
    BY <1>1, <2>1, <2>2
<1> QED
  BY <1>1, <1>8, <1>9 DEF Closed, r

(***************************************************************************)
(* What is said of two programs is said of one after the other.            *)
(***************************************************************************)
LEMMA PlainConcat ==
    ASSUME NEW p, NEW q, Plain(p), Plain(q)
    PROVE  /\ Plain(p \o q)
           /\ Hushed(p) /\ Hushed(q) => Hushed(p \o q)
           /\ Supplied(p) /\ (Supplied(q) \/ Has(p, "pool", "none")) => Supplied(p \o q)
           /\ \A op, use : Has(p, op, use) \/ Has(q, op, use) => Has(p \o q, op, use)
<1> DEFINE r == p \o q
           n == Len(p)
<1>0. p \in Seq(StepRec) /\ q \in Seq(StepRec) /\ Closed(p) /\ Closed(q)
  BY DEF Plain
<1>1. /\ Len(r) = n + Len(q) /\ n \in Nat /\ Len(q) \in Nat
      /\ \A j \in 1..Len(r) : j \in 1..n \/ (j - n \in 1..Len(q) /\ n + (j - n) = j)
      /\ \A j \in 1..n : j \in 1..Len(r)
      /\ \A j \in 1..Len(q) : n + j \in 1..Len(r)
  <2>1. /\ Len(r) = n + Len(q) /\ n \in Nat /\ Len(q) \in Nat
        /\ \A j \in 1..Len(r) : j \in 1..n \/ j - n \in 1..Len(q)
    BY <1>0, Concat
  <2> HIDE DEF r, n
  <2> QED
    BY <2>1
<1>2. \A j \in 1..n : r[j] = p[j] /\ \A op, use : Is(r, j, op, use) <=> Is(p, j, op, use)
  BY <1>0, ConcatSteps
<1>3. \A j \in 1..Len(q) :
         r[n + j] = q[j] /\ \A op, use : Is(r, n + j, op, use) <=> Is(q, j, op, use)
  BY <1>0, ConcatSteps
<1>4. Closed(r) /\ r \in Seq(StepRec)
  BY <1>0, ClosedConcat
<1>4a. /\ \A j \in 1..n : PlainAt(p, j)
       /\ Hushed(p) => \A j \in 1..n : p[j].op # "network"
       /\ Supplied(p) => \A j \in 1..n : p[j].op \in NeedsPool =>
                                            \E i \in 1..n : i < j /\ p[i].op = "pool"
       /\ Has(p, "pool", "none") => \E i \in 1..n : p[i].op = "pool"
       /\ \A op, use : Has(p, op, use) => \E i \in 1..n : Is(p, i, op, use)
  BY DEF Plain, Hushed, Supplied, Has, Is
<1> HIDE DEF r, n
<1>5. ASSUME NEW j \in 1..Len(r) PROVE PlainAt(r, j)
  <2>1. CASE j \in 1..n
    BY <1>2, <1>4a, <2>1 DEF PlainAt
  <2>2. CASE j - n \in 1..Len(q) /\ n + (j - n) = j
    <3>1. PlainAt(q, j - n)
      BY <2>2 DEF Plain
    <3>2. r[j] = q[j - n] /\ \A op, use : Is(r, j, op, use) <=> Is(q, j - n, op, use)
      <4>1. r[n + (j - n)] = q[j - n]
            /\ \A op, use : Is(r, n + (j - n), op, use) <=> Is(q, j - n, op, use)
        BY <1>3, <2>2
      <4> QED
        BY <2>2, <4>1
    <3> QED
      BY <3>1, <3>2 DEF PlainAt
  <2> QED
    BY <1>1, <2>1, <2>2
<1>6. ASSUME Hushed(p), Hushed(q) PROVE Hushed(r)
  <2> SUFFICES ASSUME NEW j \in 1..Len(r) PROVE r[j].op # "network"
    BY DEF Hushed
  <2>1. CASE j \in 1..n
    BY <1>2, <1>4a, <1>6, <2>1
  <2>2. CASE j - n \in 1..Len(q) /\ n + (j - n) = j
    <3>1. r[n + (j - n)] = q[j - n]
      BY <1>3, <2>2
    <3> QED
      BY <1>6, <2>2, <3>1 DEF Hushed
  <2> QED
    BY <1>1, <2>1, <2>2
<1>7. ASSUME Supplied(p), Supplied(q) \/ Has(p, "pool", "none") PROVE Supplied(r)
  <2> SUFFICES ASSUME NEW j \in 1..Len(r), r[j].op \in NeedsPool
               PROVE  \E i \in 1..Len(r) : i < j /\ r[i].op = "pool"
    BY DEF Supplied
  <2>1. CASE j \in 1..n
    <3>1. PICK i \in 1..n : i < j /\ p[i].op = "pool"
      BY <1>2, <1>4a, <1>7, <2>1
    <3> QED
      BY <1>1, <1>2, <3>1
  <2>2. CASE j - n \in 1..Len(q) /\ n + (j - n) = j
    <3>1. CASE Has(p, "pool", "none")
      <4>1. PICK i \in 1..n : p[i].op = "pool"
        BY <1>4a, <3>1
      <4>2. i < j
        BY <1>1, <2>2
      <4> QED
        BY <1>1, <1>2, <4>1, <4>2
    <3>2. CASE Supplied(q)
      <4>1. r[n + (j - n)] = q[j - n]
        BY <1>3, <2>2
      <4>2. PICK i \in 1..Len(q) : i < j - n /\ q[i].op = "pool"
        BY <2>2, <3>2, <4>1 DEF Supplied
      <4>3. n + i \in 1..Len(r) /\ n + i < j /\ r[n + i] = q[i]
        BY <1>1, <1>3, <2>2, <4>2
      <4> QED
        BY <4>2, <4>3
    <3> QED
      BY <1>7, <3>1, <3>2
  <2> QED
    BY <1>1, <2>1, <2>2
<1>8. ASSUME NEW op, NEW use, Has(p, op, use) \/ Has(q, op, use) PROVE Has(r, op, use)
  <2>1. CASE Has(p, op, use)
    <3>1. PICK i \in 1..n : Is(p, i, op, use)
      BY <1>4a, <2>1
    <3> QED
      BY <1>1, <1>2, <3>1 DEF Has
  <2>2. CASE Has(q, op, use)
    <3>1. PICK i \in 1..Len(q) : Is(q, i, op, use)
      BY <2>2 DEF Has
    <3> QED
      BY <1>1, <1>3, <3>1 DEF Has
  <2> QED
    BY <1>8, <2>1, <2>2
<1> QED
  BY <1>4, <1>5, <1>6, <1>7, <1>8 DEF Plain, r

\* Step j of p is the one named.
Named(p, j, op, use) == p[j].op = op /\ Use(p[j]) = use

(***************************************************************************)
(* The steps of one program after another, by name.                        *)
(***************************************************************************)
Follows(r, p, q) ==
    /\ r \in Seq(StepRec) /\ Len(r) = Len(p) + Len(q)
    /\ \A j \in 1..Len(p) : r[j] = p[j]
    /\ \A j \in 1..Len(q) : r[Len(p) + j] = q[j]

\* It follows it.
LEMMA Joined ==
    ASSUME NEW p \in Seq(StepRec), NEW q \in Seq(StepRec)
    PROVE  Follows(p \o q, p, q)
BY Concat DEF Follows

(***************************************************************************)
(* The steps of get_node, and of the end of update_config.                 *)
(***************************************************************************)
LEMMA NodeSteps ==
    /\ GetNode \in Seq(StepRec) /\ Len(GetNode) = 9
    /\ Named(GetNode, 1, "fast", "none") /\ Named(GetNode, 2, "slow", "none")
    /\ Named(GetNode, 3, "config", "none") /\ Named(GetNode, 4, "pool", "none")
    /\ Named(GetNode, 5, "public", "signer") /\ Named(GetNode, 6, "private", "signer")
    /\ Named(GetNode, 7, "public", "node") /\ Named(GetNode, 8, "private", "node")
    /\ Named(GetNode, 9, "build", "none")
<1> DEFINE a == Step("fast")
           b == Step("slow")
           c == GetPool
           d == Load("signer")
           e == Load("node")
           f == Step("build")
<1>1. /\ a \in Seq(StepRec) /\ Len(a) = 1 /\ Named(a, 1, "fast", "none")
      /\ b \in Seq(StepRec) /\ Len(b) = 1 /\ Named(b, 1, "slow", "none")
      /\ f \in Seq(StepRec) /\ Len(f) = 1 /\ Named(f, 1, "build", "none")
  BY Blocks DEF SimpleOps, Named
<1>2. /\ d \in Seq(StepRec) /\ Len(d) = 2
      /\ Named(d, 1, "public", "signer") /\ Named(d, 2, "private", "signer")
      /\ e \in Seq(StepRec) /\ Len(e) = 2
      /\ Named(e, 1, "public", "node") /\ Named(e, 2, "private", "node")
  BY Blocks DEF Uses, Named
<1>3. /\ c \in Seq(StepRec) /\ Len(c) = 2
      /\ Named(c, 1, "config", "none") /\ Named(c, 2, "pool", "none")
  <2> DEFINE x == ReadConfig("keep")
             y == Step("pool")
  <2>1. /\ x \in Seq(StepRec) /\ Len(x) = 1 /\ Named(x, 1, "config", "none")
        /\ y \in Seq(StepRec) /\ Len(y) = 1 /\ Named(y, 1, "pool", "none")
    BY Blocks DEF SimpleOps, Edit, Named
  <2> HIDE DEF x, y
  <2>2. /\ x \o y \in Seq(StepRec) /\ Len(x \o y) = 2
        /\ (x \o y)[1] = x[1] /\ (x \o y)[1 + 1] = y[1]
    BY <2>1, Concat
  <2> QED
    BY <2>1, <2>2 DEF GetPool, x, y, Named
<1>4. GetNode = ((((a \o b) \o c) \o d) \o e) \o f
  BY DEF GetNode
<1> HIDE DEF a, b, c, d, e, f
<1> DEFINE s2 == a \o b
           s4 == s2 \o c
           s6 == s4 \o d
           s8 == s6 \o e
           s9 == s8 \o f
<1>10. GetNode = s9
  BY <1>4 DEF s9, s8, s6, s4, s2
<1>6. s2 \in Seq(StepRec) /\ Len(s2) = 2 /\ s2[1] = a[1] /\ s2[2] = b[1]
  <2>1. Follows(a \o b, a, b)
    BY <1>1, Joined
  <2>2. Follows(s2, a, b)
    BY <2>1 DEF s2
  <2> HIDE DEF s2
  <2> QED
    BY <1>1, <2>2 DEF Follows
<1> HIDE DEF s2
<1>7. /\ s4 \in Seq(StepRec) /\ Len(s4) = 4
      /\ s4[1] = s2[1] /\ s4[2] = s2[2] /\ s4[3] = c[1] /\ s4[4] = c[2]
  <2>1. Follows(s2 \o c, s2, c)
    BY <1>3, <1>6, Joined
  <2>2. Follows(s4, s2, c)
    BY <2>1 DEF s4
  <2> HIDE DEF s4
  <2> QED
    BY <1>3, <1>6, <2>2 DEF Follows
<1> HIDE DEF s4
<1>8. /\ s6 \in Seq(StepRec) /\ Len(s6) = 6 /\ \A j \in 1..4 : s6[j] = s4[j]
      /\ s6[5] = d[1] /\ s6[6] = d[2]
  <2>1. Follows(s4 \o d, s4, d)
    BY <1>2, <1>7, Joined
  <2>2. Follows(s6, s4, d)
    BY <2>1 DEF s6
  <2> HIDE DEF s6
  <2> QED
    BY <1>2, <1>7, <2>2 DEF Follows
<1> HIDE DEF s6
<1>8a. /\ s8 \in Seq(StepRec) /\ Len(s8) = 8 /\ \A j \in 1..6 : s8[j] = s6[j]
       /\ s8[7] = e[1] /\ s8[8] = e[2]
  <2>1. Follows(s6 \o e, s6, e)
    BY <1>2, <1>8, Joined
  <2>2. Follows(s8, s6, e)
    BY <2>1 DEF s8
  <2> HIDE DEF s8
  <2> QED
    BY <1>2, <1>8, <2>2 DEF Follows
<1> HIDE DEF s8
<1>9. s9 \in Seq(StepRec) /\ Len(s9) = 9 /\ (\A j \in 1..8 : s9[j] = s8[j]) /\ s9[9] = f[1]
  <2>1. Follows(s8 \o f, s8, f)
    BY <1>1, <1>8a, Joined
  <2>2. Follows(s9, s8, f)
    BY <2>1 DEF s9
  <2> HIDE DEF s9
  <2> QED
    BY <1>1, <1>8a, <2>2 DEF Follows
<1> HIDE DEF s9
<1>11. /\ s9[1] = a[1] /\ s9[2] = b[1] /\ s9[3] = c[1] /\ s9[4] = c[2] /\ s9[5] = d[1]
       /\ s9[6] = d[2] /\ s9[7] = e[1] /\ s9[8] = e[2] /\ s9[9] = f[1]
  <2>1. s6[1] = a[1] /\ s6[2] = b[1] /\ s6[3] = c[1] /\ s6[4] = c[2] /\ s6[5] = d[1] /\ s6[6] = d[2]
    BY <1>6, <1>7, <1>8
  <2>2. s9[7] = e[1] /\ s9[8] = e[2] /\ s9[9] = f[1] /\ \A j \in 1..6 : s9[j] = s6[j]
    BY <1>8a, <1>9
  <2> QED
    BY <2>1, <2>2
<1> QED
  BY <1>1, <1>2, <1>3, <1>9, <1>10, <1>11 DEF Named

\* The steps of the end of update_config.
LEMMA UpdateSteps ==
    ASSUME NEW which \in {"edited", "pre"}
    PROVE  /\ UpdateConfig(which) \in Seq(StepRec) /\ Len(UpdateConfig(which)) = 3
           /\ Named(UpdateConfig(which), 1, "newConfig", "none")
           /\ Named(UpdateConfig(which), 2, "dropPool", "none")
           /\ Named(UpdateConfig(which), 3, "dropNode", "none")
<1> DEFINE a == <<[op |-> "newConfig", which |-> which]>>
           b == Step("dropPool")
           c == Step("dropNode")
           s2 == a \o b
           s3 == s2 \o c
<1>1. a \in Seq(StepRec) /\ Len(a) = 1 /\ Named(a, 1, "newConfig", "none")
  BY Blocks DEF Named
<1>2. /\ b \in Seq(StepRec) /\ Len(b) = 1 /\ Named(b, 1, "dropPool", "none")
      /\ c \in Seq(StepRec) /\ Len(c) = 1 /\ Named(c, 1, "dropNode", "none")
  BY Blocks DEF SimpleOps, Named
<1>3. UpdateConfig(which) = s3
  BY DEF UpdateConfig
<1> HIDE DEF a, b, c
<1>5. s2 \in Seq(StepRec) /\ Len(s2) = 2 /\ s2[1] = a[1] /\ s2[2] = b[1]
  <2>1. Follows(a \o b, a, b)
    BY <1>1, <1>2, Joined
  <2>2. Follows(s2, a, b)
    BY <2>1 DEF s2
  <2> HIDE DEF s2
  <2> QED
    BY <1>1, <1>2, <2>2 DEF Follows
<1> HIDE DEF s2
<1>6. /\ s3 \in Seq(StepRec) /\ Len(s3) = 3
      /\ s3[1] = s2[1] /\ s3[2] = s2[2] /\ s3[3] = c[1]
  <2>1. Follows(s2 \o c, s2, c)
    BY <1>2, <1>5, Joined
  <2>2. Follows(s3, s2, c)
    BY <2>1 DEF s3
  <2> HIDE DEF s3
  <2> QED
    BY <1>2, <1>5, <2>2 DEF Follows
<1> HIDE DEF s3
<1> QED
  BY <1>1, <1>2, <1>3, <1>5, <1>6 DEF Named

(***************************************************************************)
(* get_node is a section of its own, also behind an attempt to load.       *)
(***************************************************************************)
LEMMA PlainNode ==
    /\ Plain(GetNode) /\ Hushed(GetNode) /\ Supplied(GetNode)
    /\ Plain(Load("try") \o GetNode) /\ Hushed(Load("try") \o GetNode)
<1> DEFINE p == GetNode
           a == Load("try")
           r == a \o p
<1>1. /\ p \in Seq(StepRec) /\ Len(p) = 9 /\ 1..9 = {1, 2, 3, 4, 5, 6, 7, 8, 9}
      /\ Is(p, 1, "fast", "none") /\ Is(p, 2, "slow", "none")
      /\ Is(p, 3, "config", "none") /\ Is(p, 4, "pool", "none")
      /\ Is(p, 5, "public", "signer") /\ Is(p, 6, "private", "signer")
      /\ Is(p, 7, "public", "node") /\ Is(p, 8, "private", "node")
      /\ Is(p, 9, "build", "none")
  BY NodeSteps DEF Named, Is
<1>2. /\ a \in Seq(StepRec) /\ Len(a) = 2 /\ Named(a, 1, "public", "try") /\ Named(a, 2, "private", "try")
  BY Blocks DEF Uses, Named
<1> HIDE DEF p, a
<1>3. /\ ~ Inside(p, 1) /\ ~ Inside(p, 2)
      /\ \A j \in {3, 4, 5, 6, 7, 8, 9} : Inside(p, j)
  BY <1>1 DEF Inside, Is
<1>4. ASSUME NEW j \in 1..9 PROVE After(p, j) /\ (j > 1 => Before(p, j))
  <2>1. After(p, j)
    BY <1>1, <1>3 DEF After, Is
  <2>2. j > 1 => Before(p, j)
    BY <1>1, <1>3 DEF Before, Is
  <2> QED
    BY <2>1, <2>2
<1>5. Closed(p)
  <2>1. Flow(p)
    BY <1>1, <1>4 DEF Flow
  <2>2. Apart(p)
    BY <1>1, <1>3 DEF Apart, Is
  <2> QED
    BY <2>1, <2>2 DEF Closed
<1>6. ASSUME NEW j \in 1..9 PROVE PlainAt(p, j) /\ p[j].op # "network"
  BY <1>1 DEF PlainAt, Is, SaveOps
<1>7. Plain(p) /\ Hushed(p)
  BY <1>1, <1>5, <1>6 DEF Plain, Hushed
<1>8. Supplied(p)
  <2>1. \A j \in 1..9 : p[j].op \in NeedsPool => j > 4
    BY <1>1 DEF NeedsPool, Is
  <2> QED
    BY <1>1, <2>1 DEF Supplied, Is
<1>9. /\ r \in Seq(StepRec) /\ Len(r) = 11 /\ r[1] = a[1] /\ r[2] = a[2]
      /\ \A j \in 1..9 : r[2 + j] = p[j]
  <2>1. Follows(a \o p, a, p)
    BY <1>1, <1>2, Joined
  <2>2. Follows(r, a, p)
    BY <2>1 DEF r
  <2> HIDE DEF r
  <2> QED
    BY <1>1, <1>2, <2>2 DEF Follows
<1> HIDE DEF r
<1>10. ASSUME NEW j \in 1..11, j # 1, j # 2
       PROVE  j - 2 \in 1..9 /\ r[j] = p[j - 2] /\ j \in 1..Len(r)
  <2>1. j - 2 \in 1..9 /\ 2 + (j - 2) = j
    BY <1>10
  <2> QED
    BY <1>9, <2>1
<1>11. /\ Is(r, 1, "public", "try") /\ Is(r, 2, "private", "try") /\ Is(r, 3, "fast", "none")
       /\ \A j \in 1..9 : \A op, use : Is(r, 2 + j, op, use) <=> Is(p, j, op, use)
  <2>1. Is(r, 1, "public", "try") /\ Is(r, 2, "private", "try")
    BY <1>2, <1>9 DEF Is, Named
  <2>2. ASSUME NEW j \in 1..9, NEW op, NEW use PROVE Is(r, 2 + j, op, use) <=> Is(p, j, op, use)
    BY <1>1, <1>9 DEF Is
  <2>3. Is(r, 2 + 1, "fast", "none")
    BY <1>1, <2>2
  <2> QED
    BY <2>1, <2>2, <2>3
<1>12. /\ ~ Inside(r, 1) /\ ~ Inside(r, 2)
       /\ \A j \in 1..9 : Inside(r, 2 + j) <=> Inside(p, j)
  <2>1. ~ Inside(r, 1) /\ ~ Inside(r, 2)
    BY <1>11 DEF Inside, Is
  <2>2. ASSUME NEW j \in 1..9 PROVE Inside(r, 2 + j) <=> Inside(p, j)
    <3>1. r[2 + j] = p[j]
      BY <1>9
    <3>2. \A k \in {1, 2} : Is(r, 2 + j + k, "public", "signer") <=> Is(p, j + k, "public", "signer")
      <4> SUFFICES ASSUME NEW k \in {1, 2}
                   PROVE  Is(r, 2 + j + k, "public", "signer") <=> Is(p, j + k, "public", "signer")
        OBVIOUS
      <4>1. CASE j + k \in 1..9
        <5>1. 2 + (j + k) = 2 + j + k
          OBVIOUS
        <5> QED
          BY <1>11, <4>1, <5>1
      <4>2. CASE j + k \notin 1..9
        BY <1>1, <1>9, <4>2 DEF Is
      <4> QED
        BY <4>1, <4>2
    <3> QED
      BY <3>1, <3>2 DEF Inside
  <2> QED
    BY <2>1, <2>2
<1>13. ASSUME NEW j \in 1..11 PROVE After(r, j) /\ (j > 1 => Before(r, j))
  <2>1. CASE j = 1
    BY <1>11, <2>1 DEF After, Is
  <2>2. CASE j = 2
    <3>1. After(r, j)
      BY <1>11, <2>2 DEF After, Is
    <3>2. Before(r, j)
      BY <1>11, <1>12, <2>2 DEF Before, Is
    <3> QED
      BY <3>1, <3>2
  <2>3. CASE j # 1 /\ j # 2
    <3> DEFINE i == j - 2
    <3>1. i \in 1..9 /\ 2 + i = j /\ r[j] = p[i]
      BY <1>10, <2>3
    <3> HIDE DEF i
    <3>2. \A op, use : /\ Is(r, j, op, use) <=> Is(p, i, op, use)
                       /\ Is(p, i + 1, op, use) => Is(r, j + 1, op, use)
      <4> SUFFICES ASSUME NEW op, NEW use
                   PROVE  /\ Is(r, j, op, use) <=> Is(p, i, op, use)
                          /\ Is(p, i + 1, op, use) => Is(r, j + 1, op, use)
        OBVIOUS
      <4>1. Is(r, j, op, use) <=> Is(p, i, op, use)
        BY <1>11, <3>1
      <4>2. ASSUME Is(p, i + 1, op, use) PROVE Is(r, j + 1, op, use)
        <5>1. i + 1 \in 1..9 /\ 2 + (i + 1) = j + 1
          BY <1>1, <3>1, <4>2 DEF Is
        <5> QED
          BY <1>11, <4>2, <5>1
      <4> QED
        BY <4>1, <4>2
    <3>3. /\ Inside(r, j) <=> Inside(p, i)
          /\ i + 1 \in 1..9 => (Inside(r, j + 1) <=> Inside(p, i + 1))
      <4>1. i + 1 \in 1..9 => 2 + (i + 1) = j + 1
        BY <3>1
      <4> QED
        BY <1>12, <3>1, <4>1
    <3>4. After(r, j)
      <4>1. After(p, i)
        BY <1>4, <3>1
      <4>2. Is(p, i + 1, "config", "none") => i + 1 \in 1..9
        BY <1>1 DEF Is
      <4> QED
        BY <3>1, <3>2, <3>3, <4>1, <4>2 DEF After
    <3>5. Before(r, j)
      <4>1. CASE i = 1
        <5>1. ~ Inside(r, j) /\ r[j].op = "fast"
          BY <1>1, <1>3, <3>1, <3>3, <4>1 DEF Is
        <5> QED
          BY <5>1 DEF Before
      <4>2. CASE i > 1
        <5>1. i - 1 \in 1..9 /\ 2 + (i - 1) = j - 1
          BY <3>1, <4>2
        <5>2. r[j - 1] = p[i - 1] /\ (Inside(r, j - 1) <=> Inside(p, i - 1))
          BY <1>9, <1>12, <5>1
        <5>3. Before(p, i)
          BY <1>4, <3>1, <4>2
        <5> QED
          BY <3>1, <3>3, <5>2, <5>3 DEF Before
      <4> QED
        BY <3>1, <4>1, <4>2
    <3> QED
      BY <3>4, <3>5
  <2> QED
    BY <2>1, <2>2, <2>3
<1>14. Closed(r)
  <2>1. Flow(r)
    BY <1>9, <1>13 DEF Flow
  <2>2. Apart(r)
    BY <1>11, <1>12 DEF Apart, Is
  <2> QED
    BY <2>1, <2>2 DEF Closed
<1>15. ASSUME NEW j \in 1..11 PROVE PlainAt(r, j) /\ r[j].op # "network"
  <2>1. CASE j \in {1, 2}
    BY <1>11, <2>1 DEF PlainAt, Is, SaveOps
  <2>2. CASE j # 1 /\ j # 2
    BY <1>6, <1>9, <1>10, <2>2, <1>1 DEF PlainAt, Is
  <2> QED
    BY <2>1, <2>2
<1>16. Plain(r) /\ Hushed(r)
  BY <1>9, <1>14, <1>15 DEF Plain, Hushed
<1> QED
  BY <1>7, <1>8, <1>16 DEF r, p, a

(***************************************************************************)
(* The plain programs.                                                     *)
(***************************************************************************)
LEMMA PlainStepOp ==
    ASSUME NEW p \in Seq(StepRec), Len(p) = 1,
           p[1].op \notin {"build", "fast", "slow", "dropPool", "clearPublic", "newConfig",
                           "marked"} \cup SaveOps,
           Use(p[1]) = "none", p[1].op \notin NeedsPool
    PROVE  /\ Plain(p) /\ Supplied(p) /\ Has(p, p[1].op, "none")
           /\ p[1].op # "network" => Hushed(p)
<1>1. 1..1 = {1} /\ p # <<>> /\ 1 \in 1..Len(p)
  OBVIOUS
<1>2. \A op, use : ~ Is(p, 2, op, use) /\ ~ Is(p, 3, op, use) /\ ~ Is(p, 1 + 1, op, use)
                   /\ ~ Is(p, 1 + 2, op, use)
  BY DEF Is
<1>3. ~ Inside(p, 1)
  BY <1>2 DEF Inside
<1>4. After(p, 1)
  BY <1>3 DEF After, Is, SaveOps, NeedsPool
<1>5. Closed(p)
  BY <1>1, <1>3, <1>4 DEF Closed, Flow, Apart, SaveOps
<1>6. PlainAt(p, 1)
  BY DEF PlainAt, Is
<1> QED
  BY <1>1, <1>5, <1>6 DEF Plain, Supplied, Has, Hushed, Is

\* The parts programs are built from that save nothing.
LEMMA PlainBlocks ==
    /\ \A op \in SimpleOps \ {"build", "fast", "slow", "dropPool", "clearPublic", "marked"} :
          /\ Plain(Step(op)) /\ Supplied(Step(op)) /\ Has(Step(op), op, "none")
          /\ op # "network" => Hushed(Step(op))
    /\ \A edit \in Edit : /\ Plain(ReadConfig(edit)) /\ Supplied(ReadConfig(edit))
                          /\ Hushed(ReadConfig(edit))
    /\ \A use \in {"need", "any"} : Plain(Load(use)) /\ Hushed(Load(use))
    /\ \A which \in {"edited", "pre"} :
          /\ Plain(UpdateConfig(which)) /\ Hushed(UpdateConfig(which))
          /\ Supplied(UpdateConfig(which)) /\ Has(UpdateConfig(which), "dropNode", "none")
    /\ Plain(Clear) /\ Hushed(Clear)
    /\ Plain(GetPool) /\ Hushed(GetPool) /\ Supplied(GetPool) /\ Has(GetPool, "pool", "none")
<1>1. ASSUME NEW op \in SimpleOps \ {"build", "fast", "slow", "dropPool", "clearPublic", "marked"}
      PROVE  /\ Plain(Step(op)) /\ Supplied(Step(op)) /\ Has(Step(op), op, "none")
             /\ op # "network" => Hushed(Step(op))
  <2> DEFINE p == Step(op)
  <2>1. p \in Seq(StepRec) /\ Len(p) = 1 /\ p[1].op = op /\ Use(p[1]) = "none"
    BY Blocks
  <2>2. op \notin {"build", "fast", "slow", "dropPool", "clearPublic", "newConfig", "marked"}
                    \cup SaveOps /\ op \notin NeedsPool
    BY DEF SimpleOps, SaveOps, NeedsPool
  <2> HIDE DEF p
  <2>3. /\ Plain(p) /\ Supplied(p) /\ Has(p, p[1].op, "none")
        /\ p[1].op # "network" => Hushed(p)
    BY <2>1, <2>2, PlainStepOp
  <2> QED
    BY <2>1, <2>3 DEF p
<1>2. ASSUME NEW edit \in Edit
      PROVE  Plain(ReadConfig(edit)) /\ Supplied(ReadConfig(edit)) /\ Hushed(ReadConfig(edit))
  <2> DEFINE p == ReadConfig(edit)
  <2>1. p \in Seq(StepRec) /\ Len(p) = 1 /\ p[1].op = "config" /\ Use(p[1]) = "none"
    BY Blocks
  <2> HIDE DEF p
  <2>2. /\ p[1].op \notin {"build", "fast", "slow", "dropPool", "clearPublic", "newConfig", "marked"}
                            \cup SaveOps
        /\ p[1].op \notin NeedsPool
    BY <2>1 DEF SaveOps, NeedsPool
  <2>3. Plain(p) /\ Supplied(p) /\ Hushed(p)
    BY <2>1, <2>2, PlainStepOp
  <2> QED
    BY <2>3 DEF p
<1>3. ASSUME NEW use \in {"need", "any"} PROVE Plain(Load(use)) /\ Hushed(Load(use))
  <2> DEFINE p == Load(use)
  <2>1. p \in Seq(StepRec) /\ Len(p) = 2 /\ Is(p, 1, "public", use) /\ Is(p, 2, "private", use)
    BY Blocks DEF Uses, Is
  <2> HIDE DEF p
  <2>2. 1..2 = {1, 2} /\ ~ Inside(p, 1) /\ ~ Inside(p, 2) /\ 1 + 1 = 2
    BY <2>1 DEF Inside, Is
  <2>3. After(p, 1) /\ After(p, 2) /\ Before(p, 2)
    BY <2>1, <2>2 DEF After, Before, Is
  <2>4. Closed(p)
    BY <2>1, <2>2, <2>3 DEF Closed, Flow, Apart, Is
  <2>5. PlainAt(p, 1) /\ PlainAt(p, 2) /\ p[1].op # "network" /\ p[2].op # "network"
    BY <2>1 DEF PlainAt, Is, SaveOps
  <2>6. Plain(p) /\ Hushed(p)
    BY <2>1, <2>2, <2>4, <2>5 DEF Plain, Hushed
  <2> QED
    BY <2>6 DEF p
<1>4. ASSUME NEW which \in {"edited", "pre"}
      PROVE  /\ Plain(UpdateConfig(which)) /\ Hushed(UpdateConfig(which))
             /\ Supplied(UpdateConfig(which)) /\ Has(UpdateConfig(which), "dropNode", "none")
  <2> DEFINE p == UpdateConfig(which)
  <2>1. /\ p \in Seq(StepRec) /\ Len(p) = 3 /\ Is(p, 1, "newConfig", "none")
        /\ Is(p, 2, "dropPool", "none") /\ Is(p, 3, "dropNode", "none")
    BY UpdateSteps DEF Is, Named
  <2> HIDE DEF p
  <2>2. 1..3 = {1, 2, 3} /\ ~ Inside(p, 1) /\ ~ Inside(p, 2) /\ ~ Inside(p, 3)
    BY <2>1 DEF Inside, Is
  <2>3. After(p, 1) /\ After(p, 2) /\ After(p, 3) /\ Before(p, 2) /\ Before(p, 3)
    BY <2>1, <2>2 DEF After, Before, Is
  <2>4. Closed(p)
    BY <2>1, <2>2, <2>3 DEF Closed, Flow, Apart, Is
  <2>5. \A j \in {1, 2, 3} : PlainAt(p, j) /\ p[j].op # "network" /\ p[j].op \notin NeedsPool
    BY <2>1 DEF PlainAt, Is, SaveOps, NeedsPool
  <2>6. Plain(p) /\ Hushed(p) /\ Supplied(p) /\ Has(p, "dropNode", "none")
    BY <2>1, <2>2, <2>4, <2>5 DEF Plain, Hushed, Supplied, Has
  <2> QED
    BY <2>6 DEF p
<1>5. Plain(Clear) /\ Hushed(Clear)
  <2> DEFINE a == Step("clearPrivate")
             b == Step("clearPublic")
             p == a \o b
  <2>1. /\ a \in Seq(StepRec) /\ Len(a) = 1 /\ Named(a, 1, "clearPrivate", "none")
        /\ b \in Seq(StepRec) /\ Len(b) = 1 /\ Named(b, 1, "clearPublic", "none")
    BY Blocks DEF SimpleOps, Named
  <2>2. Clear = p
    BY DEF Clear
  <2> HIDE DEF a, b
  <2>3. Follows(p, a, b)
    BY <2>1, Joined
  <2> HIDE DEF p
  <2>4. /\ p \in Seq(StepRec) /\ Len(p) = 2
        /\ Is(p, 1, "clearPrivate", "none") /\ Is(p, 2, "clearPublic", "none")
    BY <2>1, <2>3 DEF Follows, Named, Is
  <2>5. 1..2 = {1, 2} /\ ~ Inside(p, 1) /\ ~ Inside(p, 2)
    BY <2>4 DEF Inside, Is
  <2>6. After(p, 1) /\ After(p, 2) /\ Before(p, 2)
    BY <2>4, <2>5 DEF After, Before, Is
  <2>7. Closed(p)
    BY <2>4, <2>5, <2>6 DEF Closed, Flow, Apart, Is
  <2>8. \A j \in {1, 2} : PlainAt(p, j) /\ p[j].op # "network"
    BY <2>4 DEF PlainAt, Is, SaveOps
  <2> QED
    BY <2>2, <2>4, <2>5, <2>7, <2>8 DEF Plain, Hushed
<1>6. Plain(GetPool) /\ Hushed(GetPool) /\ Supplied(GetPool) /\ Has(GetPool, "pool", "none")
  <2> DEFINE a == ReadConfig("keep")
             b == Step("pool")
  <2>1. Plain(a) /\ Hushed(a) /\ Supplied(a)
    BY <1>2 DEF Edit
  <2>2. Plain(b) /\ Hushed(b) /\ Supplied(b) /\ Has(b, "pool", "none")
    BY <1>1 DEF SimpleOps
  <2>3. GetPool = a \o b
    BY DEF GetPool
  <2> HIDE DEF a, b
  <2> QED
    BY <2>1, <2>2, <2>3, PlainConcat
<1> QED
  BY <1>1, <1>2, <1>3, <1>4, <1>5, <1>6

\* Programs that go through without a save.
Easy(p) == Plain(p) /\ Supplied(p)

(***************************************************************************)
(* The operations that save no identity, and the parts of the others.      *)
(***************************************************************************)
LEMMA EasyConcat ==
    ASSUME NEW p, NEW q, Easy(p), Plain(q), Supplied(q) \/ Has(p, "pool", "none")
    PROVE  Easy(p \o q) /\ \A op, use : Has(p, op, use) \/ Has(q, op, use) => Has(p \o q, op, use)
BY PlainConcat DEF Easy

\* The programs that save nothing.
LEMMA EasyPrograms ==
    /\ Easy(GetNode) /\ Easy(SignedRegister) /\ Easy(EnableCloudSync)
    /\ \A edit \in Path \cup {"cloud"} :
          Easy(ApplySetup(edit)) /\ Has(ApplySetup(edit), "dropNode", "none")
    /\ Easy(SignedRegister \o EnableCloudSync)
    /\ Has(SignedRegister \o EnableCloudSync, "dropNode", "none")
    /\ Easy(DeleteAccount) /\ Has(DeleteAccount, "pool", "none")
    /\ Easy(EnsureDefaultIdentity("try")) /\ Hushed(EnsureDefaultIdentity("try"))
<1>1. Easy(GetNode)
  BY PlainNode DEF Easy
<1>2. Easy(GetPool) /\ Has(GetPool, "pool", "none") /\ Plain(GetPool) /\ Hushed(GetPool)
  BY PlainBlocks DEF Easy
<1>3. Plain(Load("need")) /\ Plain(Load("any"))
  BY PlainBlocks
<1>4. /\ Easy(Step("saveConfig")) /\ Easy(Step("network")) /\ Easy(Step("dropNode"))
      /\ Easy(Step("clearProfile")) /\ Easy(Step("unmark"))
  BY PlainBlocks DEF Easy, SimpleOps
<1>5. Easy(UpdateConfig("edited")) /\ Has(UpdateConfig("edited"), "dropNode", "none")
  BY PlainBlocks DEF Easy
<1>6. \A edit \in Edit : Easy(ReadConfig(edit))
  BY PlainBlocks DEF Easy
<1>7. ASSUME NEW edit \in Edit
      PROVE  /\ Easy(ReadConfig(edit) \o Step("saveConfig") \o UpdateConfig("edited"))
             /\ Has(ReadConfig(edit) \o Step("saveConfig") \o UpdateConfig("edited"), "dropNode", "none")
  <2>1. Easy(ReadConfig(edit) \o Step("saveConfig"))
    BY <1>4, <1>6, EasyConcat DEF Easy
  <2> QED
    BY <1>5, <2>1, EasyConcat DEF Easy
<1>8. \A edit \in Path \cup {"cloud"} :
         Easy(ApplySetup(edit)) /\ Has(ApplySetup(edit), "dropNode", "none")
  BY <1>7 DEF ApplySetup, Edit
<1>9. Easy(EnableCloudSync) /\ Has(EnableCloudSync, "dropNode", "none")
  BY <1>7 DEF EnableCloudSync, Edit
<1>10. Easy(EnsureDefaultIdentity("need")) /\ Has(EnsureDefaultIdentity("need"), "pool", "none")
  <2>1. Easy(GetPool \o Load("need")) /\ Has(GetPool \o Load("need"), "pool", "none")
    BY <1>2, <1>3, EasyConcat
  <2>2. Easy(GetPool \o Load("need") \o GetNode) /\ Has(GetPool \o Load("need") \o GetNode, "pool", "none")
    BY <1>1, <2>1, EasyConcat DEF Easy
  <2> QED
    BY <2>2 DEF EnsureDefaultIdentity
<1>11. Easy(SignedRegister)
  <2> DEFINE a == EnsureDefaultIdentity("need")
  <2>1. Easy(a) /\ Has(a, "pool", "none")
    BY <1>10
  <2> HIDE DEF a
  <2>2. Easy(a \o GetPool) /\ Has(a \o GetPool, "pool", "none")
    BY <1>2, <2>1, EasyConcat
  <2>3. Easy(a \o GetPool \o Load("need"))
    BY <1>3, <2>2, EasyConcat
  <2>4. Easy(a \o GetPool \o Load("need") \o Step("network"))
    BY <1>4, <2>3, EasyConcat DEF Easy
  <2> QED
    BY <2>4 DEF SignedRegister, a
<1>12. /\ Easy(SignedRegister \o EnableCloudSync)
       /\ Has(SignedRegister \o EnableCloudSync, "dropNode", "none")
  BY <1>9, <1>11, EasyConcat DEF Easy
<1>13. Easy(DeleteAccount) /\ Has(DeleteAccount, "pool", "none")
  <2>1. Easy(GetPool \o Load("any")) /\ Has(GetPool \o Load("any"), "pool", "none")
    BY <1>2, <1>3, EasyConcat
  <2> DEFINE b == GetPool \o Load("any") \o Step("dropNode")
  <2>2. Easy(b) /\ Has(b, "pool", "none")
    BY <1>4, <2>1, EasyConcat DEF Easy
  <2>3. DeleteAccount = b \o Clear \o Step("clearProfile") \o Step("unmark")
    BY DEF DeleteAccount
  <2> HIDE DEF b
  <2>4. Easy(b \o Clear) /\ Has(b \o Clear, "pool", "none")
    BY <2>2, EasyConcat, PlainBlocks
  <2>5. /\ Easy(b \o Clear \o Step("clearProfile"))
        /\ Has(b \o Clear \o Step("clearProfile"), "pool", "none")
    BY <1>4, <2>4, EasyConcat DEF Easy
  <2>6. /\ Easy(b \o Clear \o Step("clearProfile") \o Step("unmark"))
        /\ Has(b \o Clear \o Step("clearProfile") \o Step("unmark"), "pool", "none")
    BY <1>4, <2>5, EasyConcat DEF Easy
  <2> QED
    BY <2>3, <2>6
<1>14. Easy(EnsureDefaultIdentity("try")) /\ Hushed(EnsureDefaultIdentity("try"))
  <2> DEFINE x == Load("try") \o GetNode
  <2>1. EnsureDefaultIdentity("try") = GetPool \o x
    <3>1. GetPool \in Seq(StepRec) /\ GetNode \in Seq(StepRec) /\ Load("try") \in Seq(StepRec)
      BY <1>2, NodeSteps, Blocks DEF Plain, Uses
    <3> QED
      BY <3>1, Associative DEF EnsureDefaultIdentity
  <2>2. Plain(x) /\ Hushed(x)
    BY PlainNode
  <2> HIDE DEF x
  <2>3. Easy(GetPool \o x)
    BY <1>2, <2>2, EasyConcat
  <2>4. Hushed(GetPool \o x)
    BY <1>2, <2>2, PlainConcat
  <2> QED
    BY <2>1, <2>3, <2>4
<1> QED
  BY <1>1, <1>8, <1>9, <1>11, <1>12, <1>13, <1>14

\* A program that saves, before the step that drops the node is added.
SavedAt(p, op, j) ==
    /\ p[j].op \in SaveOps =>
          /\ op \in {"restore", "bootstrap"} /\ p[j].undo = FALSE
          /\ \A i \in 1..j : ~ Entering(p, i)
          /\ ~ Ahead(p, j)
    /\ Is(p, j, "private", "prior") => op = "restore" /\ Ahead(p, j)
    /\ Is(p, j, "private", "mint") => op = "bootstrap"
    /\ p[j].op = "marked" => Ahead(p, j)
Minted(p) ==
    \A j \in 1..Len(p) : p[j].op \in SaveOps => \E i \in 1..Len(p) : i < j /\ Is(p, i, "private", "mint")
Saving(p, op, minted) ==
    /\ p \in Seq(StepRec) /\ Closed(p) /\ p # <<>> /\ Supplied(p)
    /\ \A j \in 1..Len(p) : SavedAt(p, op, j)
    /\ Has(p, "pool", "none") /\ Has(p, "savePrivate", "none")
    /\ op = "restore" => Has(p, "private", "prior")
    /\ minted => Minted(p)

(***************************************************************************)
(* A plain program follows one that saves.                                 *)
(***************************************************************************)
LEMMA SavingAppend ==
    ASSUME NEW p, NEW b, NEW op, NEW minted, Saving(p, op, minted), Plain(b)
    PROVE  /\ Saving(p \o b, op, minted)
           /\ Hushed(p) /\ Hushed(b) => Hushed(p \o b)
           /\ Normal(p, op) => Normal(p \o b, op)
           /\ (op = "restore" => Hushed(p) /\ Hushed(b)) /\ Has(b, "dropNode", "none") =>
                 Normal(p \o b, op)
<1> DEFINE r == p \o b
           n == Len(p)
<1>0. p \in Seq(StepRec) /\ b \in Seq(StepRec) /\ Closed(p) /\ Closed(b) /\ p # <<>>
  BY DEF Plain, Saving
<1>1. /\ Len(r) = n + Len(b) /\ n \in Nat /\ Len(b) \in Nat /\ n # 0
      /\ \A j \in 1..Len(r) : j \in 1..n \/ (j - n \in 1..Len(b) /\ n + (j - n) = j /\ j > n)
      /\ \A j \in 1..n : j \in 1..Len(r)
      /\ \A j \in 1..Len(b) : n + j \in 1..Len(r) /\ n + j > n
  <2>1. /\ Len(r) = n + Len(b) /\ n \in Nat /\ Len(b) \in Nat /\ n # 0
        /\ \A j \in 1..Len(r) : j \in 1..n \/ j - n \in 1..Len(b)
    BY <1>0, Concat
  <2> HIDE DEF r, n
  <2> QED
    BY <2>1
<1>2. \A j \in 1..n : r[j] = p[j] /\ (Inside(r, j) <=> Inside(p, j))
                      /\ \A o, use : Is(r, j, o, use) <=> Is(p, j, o, use)
  BY <1>0, ConcatSteps
<1>3. \A j \in 1..Len(b) :
         r[n + j] = b[j] /\ \A o, use : Is(r, n + j, o, use) <=> Is(b, j, o, use)
  BY <1>0, ConcatSteps
<1>4. Closed(r) /\ r \in Seq(StepRec)
  BY <1>0, ClosedConcat
<1>5. /\ \A j \in 1..n : SavedAt(p, op, j)
      /\ Hushed(p) => \A j \in 1..n : p[j].op # "network"
      /\ \A j \in 1..n : p[j].op \in NeedsPool => \E i \in 1..n : i < j /\ p[i].op = "pool"
      /\ \A o, use : Has(p, o, use) => \E i \in 1..n : Is(p, i, o, use)
      /\ Minted(p) => \A j \in 1..n : p[j].op \in SaveOps =>
                                         \E i \in 1..n : i < j /\ Is(p, i, "private", "mint")
      /\ \A j \in Nat : Ahead(p, j) <=> \E i \in 1..n : i > j /\ p[i].op = "savePrivate"
      /\ Normal(p, op) => \A j \in 1..n : NormalAt(p, op, j)
      /\ \A j \in Nat : Drops(p, op, j) <=>
            \E k \in 1..n : /\ k > j /\ p[k].op = "dropNode"
                            /\ op = "restore" => \A i \in 1..k : i > j => p[i].op # "network"
  BY DEF Saving, Hushed, Supplied, Has, Is, Minted, Ahead, Normal, Drops
<1> HIDE DEF r, n
<1>6. ASSUME NEW j \in 1..Len(r), j \notin 1..n
      PROVE  /\ j > n /\ r[j].op \notin SaveOps \cup {"marked"}
             /\ ~ Is(r, j, "private", "prior") /\ ~ Is(r, j, "private", "mint")
             /\ Hushed(b) => r[j].op # "network"
  <2>1. j - n \in 1..Len(b) /\ n + (j - n) = j /\ j > n
    BY <1>1, <1>6
  <2>2. PlainAt(b, j - n) /\ (Hushed(b) => b[j - n].op # "network")
    BY <2>1 DEF Plain, Hushed
  <2>3. r[n + (j - n)] = b[j - n]
        /\ \A o, use : Is(r, n + (j - n), o, use) <=> Is(b, j - n, o, use)
    BY <1>3, <2>1
  <2> QED
    BY <2>1, <2>2, <2>3 DEF PlainAt
<1>7. ASSUME NEW j \in Nat PROVE Ahead(r, j) <=> Ahead(p, j)
  <2>1. ASSUME Ahead(r, j) PROVE Ahead(p, j)
    <3>1. PICK i \in 1..Len(r) : i > j /\ r[i].op = "savePrivate"
      BY <2>1 DEF Ahead
    <3>2. i \in 1..n
      BY <1>6, <3>1 DEF SaveOps
    <3> QED
      BY <1>2, <1>5, <3>1, <3>2
  <2>2. ASSUME Ahead(p, j) PROVE Ahead(r, j)
    <3>1. PICK i \in 1..n : i > j /\ p[i].op = "savePrivate"
      BY <1>5, <2>2
    <3>2. i \in 1..Len(r) /\ r[i].op = "savePrivate"
      BY <1>1, <1>2, <3>1
    <3> QED
      BY <3>1, <3>2 DEF Ahead
  <2> QED
    BY <2>1, <2>2
<1>8. ASSUME NEW j \in 1..Len(r) PROVE SavedAt(r, op, j)
  <2>1. CASE j \in 1..n
    <3>1. SavedAt(p, op, j) /\ (Ahead(r, j) <=> Ahead(p, j))
      BY <1>5, <1>7, <2>1
    <3>2. \A i \in 1..j : Entering(r, i) <=> Entering(p, i)
      <4>1. \A i \in 1..j : i \in 1..n
        BY <1>1, <2>1
      <4> QED
        BY <1>2, <4>1 DEF Entering
    <3>3. r[j] = p[j] /\ \A o, use : Is(r, j, o, use) <=> Is(p, j, o, use)
      BY <1>2, <2>1
    <3> QED
      BY <3>1, <3>2, <3>3 DEF SavedAt
  <2>2. CASE j \notin 1..n
    BY <1>6, <2>2 DEF SavedAt
  <2> QED
    BY <2>1, <2>2
<1>9. Supplied(r)
  <2> SUFFICES ASSUME NEW j \in 1..Len(r), r[j].op \in NeedsPool
               PROVE  \E i \in 1..Len(r) : i < j /\ r[i].op = "pool"
    BY DEF Supplied
  <2>1. CASE j \in 1..n
    BY <1>1, <1>2, <1>5, <2>1
  <2>2. CASE j \notin 1..n
    <3>1. Has(p, "pool", "none")
      BY DEF Saving
    <3>2. PICK i \in 1..n : Is(p, i, "pool", "none")
      BY <1>5, <3>1
    <3>3. i < j /\ i \in 1..Len(r) /\ r[i].op = "pool"
      BY <1>1, <1>2, <1>6, <2>2, <3>2 DEF Is
    <3> QED
      BY <3>3
  <2> QED
    BY <2>1, <2>2
<1>10. ASSUME NEW o, NEW use, Has(p, o, use) PROVE Has(r, o, use)
  <2>1. PICK i \in 1..n : Is(p, i, o, use)
    BY <1>5, <1>10
  <2> QED
    BY <1>1, <1>2, <2>1 DEF Has
<1>11. ASSUME minted PROVE Minted(r)
  <2> SUFFICES ASSUME NEW j \in 1..Len(r), r[j].op \in SaveOps
               PROVE  \E i \in 1..Len(r) : i < j /\ Is(r, i, "private", "mint")
    BY DEF Minted
  <2>1. j \in 1..n
    BY <1>6
  <2>2. PICK i \in 1..n : i < j /\ Is(p, i, "private", "mint")
    BY <1>2, <1>5, <1>11, <2>1 DEF Saving
  <2> QED
    BY <1>1, <1>2, <2>2
<1>12. Saving(r, op, minted)
  <2>1. r # <<>>
    BY <1>1
  <2> QED
    BY <1>4, <1>8, <1>9, <1>10, <1>11, <2>1 DEF Saving
<1>13. ASSUME Hushed(p), Hushed(b) PROVE Hushed(r)
  BY <1>2, <1>5, <1>6, <1>13 DEF Hushed
<1>14. ASSUME \A j \in 1..n : p[j].op \in SaveOps => Drops(r, op, j) PROVE Normal(r, op)
  <2> SUFFICES ASSUME NEW j \in 1..Len(r) PROVE NormalAt(r, op, j)
    BY DEF Normal
  <2>1. r[j].op \in SaveOps => Drops(r, op, j)
    BY <1>2, <1>6, <1>14
  <2> QED
    BY <1>8, <2>1 DEF SavedAt, NormalAt
<1>15. ASSUME Normal(p, op) PROVE Normal(r, op)
  <2>1. ASSUME NEW j \in 1..n, p[j].op \in SaveOps PROVE Drops(r, op, j)
    <3>1. Drops(p, op, j) /\ j \in Nat
      BY <1>1, <1>5, <1>15, <2>1 DEF NormalAt
    <3>2. PICK k \in 1..n : /\ k > j /\ p[k].op = "dropNode"
                            /\ op = "restore" => \A i \in 1..k : i > j => p[i].op # "network"
      BY <1>5, <3>1
    <3>3. \A i \in 1..k : i \in 1..n
      BY <1>1
    <3>4. k \in 1..Len(r) /\ r[k].op = "dropNode"
      BY <1>1, <1>2, <3>2
    <3>5. op = "restore" => \A i \in 1..k : i > j => r[i].op # "network"
      BY <1>2, <3>2, <3>3
    <3> QED
      BY <3>2, <3>4, <3>5 DEF Drops
  <2> QED
    BY <1>14, <2>1
<1>16. ASSUME op = "restore" => Hushed(p) /\ Hushed(b), Has(b, "dropNode", "none")
       PROVE  Normal(r, op)
  <2>1. PICK k \in 1..Len(b) : Is(b, k, "dropNode", "none")
    BY <1>16 DEF Has
  <2>2. n + k \in 1..Len(r) /\ r[n + k].op = "dropNode" /\ n + k > n
    BY <1>1, <1>3, <2>1 DEF Is
  <2>3. \A i \in 1..(n + k) : i \in 1..Len(r)
    BY <1>1, <2>2
  <2>4. op = "restore" => \A i \in 1..(n + k) : r[i].op # "network"
    BY <1>13, <1>16, <2>3 DEF Hushed
  <2>5. ASSUME NEW j \in 1..n PROVE Drops(r, op, j)
    <3>1. n + k > j
      BY <1>1, <2>2
    <3> QED
      BY <2>2, <2>4, <3>1 DEF Drops
  <2> QED
    BY <1>14, <2>5
<1> QED
  BY <1>12, <1>13, <1>15, <1>16 DEF r

(***************************************************************************)
(* An operation that begins with a program that saves.                     *)
(***************************************************************************)
LEMMA SavingSound ==
    ASSUME NEW p, NEW op \in {"restore", "bootstrap"}, NEW new \in Pair, NEW minted,
           Saving(p, op, minted), Normal(p, op), minted \/ Complete(new), NEW l,
           l = [Idle EXCEPT !.op = op, !.new = new]
    PROVE  Sound(p, l) /\ ~ Owes(p, l)
<1>1. Idle \in LocalRec
  BY IdleSound DEF Sound
<1>2. l \in LocalRec /\ l.op = op /\ l.new = new /\ l.failed = FALSE /\ l.keep = NoPool
  BY <1>1 DEF LocalRec, Idle, Op
<1>3. p \in Seq(StepRec) /\ Closed(p) /\ p # <<>>
  BY DEF Saving
<1>4. p[1].op # "clearPublic"
  BY <1>3 DEF Closed, Apart
<1>5. Pooled(p, l)
  BY DEF Saving, Supplied, Pooled
<1>6. Ahead(p, 0)
  BY DEF Saving, Has, Is, Ahead
<1>7. Kept(p, l)
  BY <1>2, <1>6 DEF Kept, Saving, Has
<1>8. Chosen(p, l)
  BY <1>2 DEF Chosen, Saving, Minted
<1>9. Sound(p, l)
  BY <1>2, <1>3, <1>4, <1>5, <1>7, <1>8 DEF Sound, Closed
<1> QED
  BY <1>2, <1>6, <1>9 DEF Owes

\* One that saves nothing.
LEMMA EasySound ==
    ASSUME NEW p, Easy(p), p # <<>>, NEW op \in {"request", "setup", "register", "delete"}, NEW l,
           l = [Idle EXCEPT !.op = op, !.new = NoPair]
    PROVE  Sound(p, l) /\ ~ Owes(p, l)
<1>1. Idle \in LocalRec
  BY IdleSound DEF Sound
<1>2. l \in LocalRec /\ l.op = op /\ l.failed = FALSE /\ l.keep = NoPool
  <2>1. op \in Op /\ NoPair \in Pair
    BY DEF Op, NoPair, Pair, Key
  <2>2. Idle.failed = FALSE /\ Idle.keep = NoPool
    BY DEF Idle
  <2> QED
    BY <1>1, <2>1, <2>2 DEF LocalRec
<1>3. p \in Seq(StepRec) /\ Closed(p) /\ \A j \in 1..Len(p) : PlainAt(p, j)
  BY DEF Easy, Plain
<1>4. p[1].op # "clearPublic"
  BY <1>3 DEF Closed, Apart
<1>5. Pooled(p, l) /\ Kept(p, l)
  BY <1>2 DEF Easy, Supplied, Pooled, Kept
<1>6. Normal(p, l.op) /\ Chosen(p, l)
  BY <1>3 DEF Normal, NormalAt, Chosen, PlainAt
<1>7. Sound(p, l)
  BY <1>2, <1>3, <1>4, <1>5, <1>6 DEF Sound, Closed
<1> QED
  BY <1>2, <1>7 DEF Owes

\* The steps of GetPool, Load and Save, as the programs below use them.
LEMMA SaveSteps ==
    /\ GetPool \in Seq(StepRec) /\ Len(GetPool) = 2
    /\ Named(GetPool, 1, "config", "none") /\ Named(GetPool, 2, "pool", "none")
    /\ Save(FALSE) \in Seq(StepRec) /\ Len(Save(FALSE)) = 2
    /\ Named(Save(FALSE), 1, "savePrivate", "none") /\ Save(FALSE)[1].undo = FALSE
    /\ Named(Save(FALSE), 2, "savePublic", "none") /\ Save(FALSE)[2].undo = FALSE
<1> DEFINE x == ReadConfig("keep")
           y == Step("pool")
<1>1. /\ x \in Seq(StepRec) /\ Len(x) = 1 /\ Named(x, 1, "config", "none")
      /\ y \in Seq(StepRec) /\ Len(y) = 1 /\ Named(y, 1, "pool", "none")
  BY Blocks DEF SimpleOps, Edit, Named
<1>2. GetPool = x \o y
  BY DEF GetPool
<1> HIDE DEF x, y
<1>3. Follows(GetPool, x, y)
  BY <1>1, <1>2, Joined
<1>4. /\ GetPool \in Seq(StepRec) /\ Len(GetPool) = 2
      /\ Named(GetPool, 1, "config", "none") /\ Named(GetPool, 2, "pool", "none")
  BY <1>1, <1>3 DEF Follows, Named
<1>5. /\ Save(FALSE) \in Seq(StepRec) /\ Len(Save(FALSE)) = 2
      /\ Named(Save(FALSE), 1, "savePrivate", "none") /\ Save(FALSE)[1].undo = FALSE
      /\ Named(Save(FALSE), 2, "savePublic", "none") /\ Save(FALSE)[2].undo = FALSE
  BY Blocks DEF Named
<1> QED
  BY <1>4, <1>5

(***************************************************************************)
(* What restore_from_phrase does up to the save.                           *)
(***************************************************************************)
RestoreStart == (ReadConfig("pre") \o GetPool \o Load("prior")) \o (GetPool \o Save(FALSE))

(***************************************************************************)
(* Its steps.                                                              *)
(***************************************************************************)
LEMMA RestoreStartSteps ==
    /\ RestoreStart \in Seq(StepRec) /\ Len(RestoreStart) = 9
    /\ 1..9 = {1, 2, 3, 4, 5, 6, 7, 8, 9}
    /\ Is(RestoreStart, 1, "config", "none") /\ RestoreStart[1].edit = "pre"
    /\ Is(RestoreStart, 2, "config", "none") /\ RestoreStart[2] = GetPool[1]
    /\ Is(RestoreStart, 3, "pool", "none")
    /\ Is(RestoreStart, 4, "public", "prior") /\ Is(RestoreStart, 5, "private", "prior")
    /\ Is(RestoreStart, 6, "config", "none") /\ RestoreStart[6] = GetPool[1]
    /\ Is(RestoreStart, 7, "pool", "none")
    /\ Is(RestoreStart, 8, "savePrivate", "none") /\ RestoreStart[8].undo = FALSE
    /\ Is(RestoreStart, 9, "savePublic", "none") /\ RestoreStart[9].undo = FALSE
<1> DEFINE a == ReadConfig("pre")
           b == GetPool
           c == Load("prior")
           d == Save(FALSE)
           ab == a \o b
           abc == ab \o c
           bd == b \o d
           r == abc \o bd
<1>0. a[1].edit = "pre"
  BY DEF ReadConfig
<1>1. /\ a \in Seq(StepRec) /\ Len(a) = 1 /\ Named(a, 1, "config", "none")
      /\ b \in Seq(StepRec) /\ Len(b) = 2
      /\ Named(b, 1, "config", "none") /\ Named(b, 2, "pool", "none")
      /\ c \in Seq(StepRec) /\ Len(c) = 2
      /\ Named(c, 1, "public", "prior") /\ Named(c, 2, "private", "prior")
      /\ d \in Seq(StepRec) /\ Len(d) = 2
      /\ Named(d, 1, "savePrivate", "none") /\ Named(d, 2, "savePublic", "none")
      /\ d[1].undo = FALSE /\ d[2].undo = FALSE
  <2>1. a \in Seq(StepRec) /\ Len(a) = 1 /\ Named(a, 1, "config", "none")
    BY Blocks DEF Edit, Named
  <2>2. /\ b \in Seq(StepRec) /\ Len(b) = 2
        /\ Named(b, 1, "config", "none") /\ Named(b, 2, "pool", "none")
    BY SaveSteps DEF Named
  <2>3. /\ c \in Seq(StepRec) /\ Len(c) = 2
        /\ Named(c, 1, "public", "prior") /\ Named(c, 2, "private", "prior")
    BY Blocks DEF Uses, Named
  <2>4. /\ d \in Seq(StepRec) /\ Len(d) = 2
        /\ Named(d, 1, "savePrivate", "none") /\ Named(d, 2, "savePublic", "none")
        /\ d[1].undo = FALSE /\ d[2].undo = FALSE
    BY SaveSteps DEF Named
  <2> QED
    BY ONLY <2>1, <2>2, <2>3, <2>4
<1>2. RestoreStart = r
  BY DEF RestoreStart
<1> HIDE DEF a, b, c, d
<1>3. Follows(ab, a, b) /\ Follows(bd, b, d)
  BY <1>1, Joined
<1> HIDE DEF ab, bd
<1>4. ab \in Seq(StepRec) /\ Len(ab) = 3 /\ ab[1] = a[1] /\ ab[2] = b[1] /\ ab[3] = b[2]
  BY <1>1, <1>3 DEF Follows
<1>5. /\ bd \in Seq(StepRec) /\ Len(bd) = 4
      /\ bd[1] = b[1] /\ bd[2] = b[2] /\ bd[3] = d[1] /\ bd[4] = d[2]
  BY <1>1, <1>3 DEF Follows
<1>6. Follows(abc, ab, c)
  BY <1>1, <1>4, Joined
<1> HIDE DEF abc
<1>7. /\ abc \in Seq(StepRec) /\ Len(abc) = 5 /\ \A j \in {1, 2, 3} : abc[j] = ab[j]
      /\ abc[4] = c[1] /\ abc[5] = c[2]
  BY <1>1, <1>4, <1>6 DEF Follows
<1>8. Follows(r, abc, bd)
  BY <1>5, <1>7, Joined
<1> HIDE DEF r
<1>9. /\ r \in Seq(StepRec) /\ Len(r) = 9 /\ 1..9 = {1, 2, 3, 4, 5, 6, 7, 8, 9}
      /\ \A j \in {1, 2, 3, 4, 5} : r[j] = abc[j]
      /\ r[6] = bd[1] /\ r[7] = bd[2] /\ r[8] = bd[3] /\ r[9] = bd[4]
  BY <1>5, <1>7, <1>8 DEF Follows
<1>10. r[1] = a[1] /\ r[2] = b[1] /\ r[3] = b[2] /\ r[4] = c[1] /\ r[5] = c[2]
  BY <1>4, <1>7, <1>9
<1>11. r[6] = b[1] /\ r[7] = b[2] /\ r[8] = d[1] /\ r[9] = d[2]
  BY <1>5, <1>9
<1>12. r[2] = GetPool[1] /\ r[6] = GetPool[1]
  BY <1>10, <1>11 DEF b
<1> QED
  BY <1>0, <1>1, <1>2, <1>9, <1>10, <1>11, <1>12 DEF Is, Named

\* It saves.
LEMMA RestoreSaves == Saving(RestoreStart, "restore", FALSE) /\ Hushed(RestoreStart)
<1> DEFINE r == RestoreStart
<1>1. /\ r \in Seq(StepRec) /\ Len(r) = 9 /\ 1..9 = {1, 2, 3, 4, 5, 6, 7, 8, 9}
      /\ Is(r, 1, "config", "none") /\ Is(r, 2, "config", "none") /\ Is(r, 3, "pool", "none")
      /\ Is(r, 4, "public", "prior") /\ Is(r, 5, "private", "prior")
      /\ Is(r, 6, "config", "none") /\ Is(r, 7, "pool", "none")
      /\ Is(r, 8, "savePrivate", "none") /\ Is(r, 9, "savePublic", "none")
      /\ r[8].undo = FALSE /\ r[9].undo = FALSE
  BY RestoreStartSteps
<1> HIDE DEF r
<1>2. \A j \in 1..9 : ~ Inside(r, j) /\ ~ Entering(r, j) /\ r[j].op # "network"
  BY <1>1 DEF Inside, Entering, Is
<1>3. \A j \in 1..9 : After(r, j) /\ (j > 1 => Before(r, j))
  <2>1. \A j \in 1..9 : After(r, j)
    BY <1>1, <1>2 DEF After, Is
  <2>2. \A j \in 1..9 : j > 1 => Before(r, j)
    BY <1>1, <1>2 DEF Before, Is
  <2> QED
    BY <2>1, <2>2
<1>4. Closed(r)
  BY <1>1, <1>2, <1>3 DEF Closed, Flow, Apart, Is
<1>5. Ahead(r, 5) /\ ~ Ahead(r, 8) /\ ~ Ahead(r, 9)
  BY <1>1 DEF Ahead, Is
<1>6. \A j \in 1..9 : SavedAt(r, "restore", j)
  <2>1. \A j \in 1..9 : r[j].op \in SaveOps => j \in {8, 9} /\ r[j].undo = FALSE
    BY <1>1 DEF SaveOps, Is
  <2>2. \A j \in 1..9 : /\ Is(r, j, "private", "prior") => j = 5
                        /\ ~ Is(r, j, "private", "mint") /\ r[j].op # "marked"
    BY <1>1 DEF Is
  <2>3. \A j \in 1..9 : \A i \in 1..j : ~ Entering(r, i)
    BY <1>2
  <2> QED
    BY <1>5, <2>1, <2>2, <2>3 DEF SavedAt
<1>7. Supplied(r)
  <2>1. \A j \in 1..9 : r[j].op \in NeedsPool => j > 3
    BY <1>1 DEF NeedsPool, Is
  <2> QED
    BY <1>1, <2>1 DEF Supplied, Is
<1>8. Has(r, "pool", "none") /\ Has(r, "savePrivate", "none") /\ Has(r, "private", "prior")
  BY <1>1 DEF Has
<1>9. Saving(r, "restore", FALSE) /\ Hushed(r)
  <2>1. r # <<>>
    BY <1>1
  <2> QED
    BY <1>1, <1>2, <1>4, <1>6, <1>7, <1>8, <2>1 DEF Saving, Hushed
<1> QED
  BY <1>9 DEF r

(***************************************************************************)
(* The parts of restore_from_phrase, from the first on.                    *)
(***************************************************************************)
LEMMA RestoreParts ==
    RestoreFromPhrase =
        (((RestoreStart \o EnsureDefaultIdentity("try")) \o UpdateConfig("pre"))
            \o SignedRegister) \o EnableCloudSync
<1> DEFINE a == ReadConfig("pre") \o GetPool \o Load("prior")
           g == GetPool \o Save(FALSE)
           e == EnsureDefaultIdentity("try")
           u == UpdateConfig("pre")
           s == SignedRegister
           c == EnableCloudSync
<1>1. /\ e \in Seq(StepRec) /\ u \in Seq(StepRec) /\ s \in Seq(StepRec) /\ c \in Seq(StepRec)
  BY EasyPrograms, PlainBlocks DEF Easy, Plain
<1>2. a \in Seq(StepRec) /\ g \in Seq(StepRec)
  <2>1. /\ ReadConfig("pre") \in Seq(StepRec) /\ Load("prior") \in Seq(StepRec)
        /\ GetPool \in Seq(StepRec) /\ Save(FALSE) \in Seq(StepRec)
    BY Blocks, SaveSteps DEF Edit, Uses
  <2>2. ReadConfig("pre") \o GetPool \in Seq(StepRec)
    BY ONLY <2>1, Concat
  <2>3. a \in Seq(StepRec)
    BY ONLY <2>1, <2>2, Concat
  <2>4. g \in Seq(StepRec)
    BY ONLY <2>1, Concat
  <2> QED
    BY <2>3, <2>4
<1>3. RestoreFromPhrase = a \o (g \o e \o u \o s \o c) /\ RestoreStart = a \o g
  BY DEF RestoreFromPhrase, FinalizeRestore, RestoreStart
<1> HIDE DEF a, g, e, u, s, c
<1> DEFINE x1 == g \o e
           x2 == x1 \o u
           x3 == x2 \o s
<1>4. x1 \in Seq(StepRec)
  BY <1>1, <1>2
<1> HIDE DEF x1
<1>5. x2 \in Seq(StepRec)
  BY <1>1, <1>4
<1> HIDE DEF x2
<1>6. x3 \in Seq(StepRec)
  BY <1>1, <1>5
<1> HIDE DEF x3
<1>7. \A x, y \in Seq(StepRec) : a \o (x \o y) = (a \o x) \o y
  BY <1>2, Associative
<1>8. a \o (x3 \o c) = (a \o x3) \o c
  BY ONLY <1>1, <1>6, <1>7
<1>9. a \o (x2 \o s) = (a \o x2) \o s
  BY ONLY <1>1, <1>5, <1>7
<1>10. a \o (x1 \o u) = (a \o x1) \o u
  BY ONLY <1>1, <1>4, <1>7
<1>11. a \o (g \o e) = (a \o g) \o e
  BY ONLY <1>1, <1>2, <1>7
<1>12. x3 = x2 \o s /\ x2 = x1 \o u /\ x1 = g \o e
  BY DEF x1, x2, x3
<1>13. RestoreFromPhrase = (((RestoreStart \o e) \o u) \o s) \o c
  BY ONLY <1>3, <1>8, <1>9, <1>10, <1>11, <1>12
<1> QED
  BY <1>13 DEF e, u, s, c

(***************************************************************************)
(* restore_from_phrase saves an identity and drops the node.               *)
(***************************************************************************)
LEMMA RestoreProgram == Saving(RestoreFromPhrase, "restore", FALSE) /\ Normal(RestoreFromPhrase, "restore")
<1> DEFINE e == EnsureDefaultIdentity("try")
           u == UpdateConfig("pre")
           s == SignedRegister
           c == EnableCloudSync
           p0 == RestoreStart
           p1 == p0 \o e
           p2 == p1 \o u
           p3 == p2 \o s
           p4 == p3 \o c
<1>1. Plain(e) /\ Hushed(e) /\ Plain(s) /\ Plain(c)
  BY EasyPrograms DEF Easy
<1>2. Plain(u) /\ Hushed(u) /\ Has(u, "dropNode", "none")
  BY PlainBlocks
<1>3. Saving(p0, "restore", FALSE) /\ Hushed(p0)
  BY RestoreSaves
<1>4. RestoreFromPhrase = p4
  BY RestoreParts
<1> HIDE DEF e, u, s, c, p0
<1>5. Saving(p1, "restore", FALSE) /\ Hushed(p1)
  BY <1>1, <1>3, SavingAppend
<1> HIDE DEF p1
<1>6. Saving(p2, "restore", FALSE) /\ Normal(p2, "restore")
  BY <1>2, <1>5, SavingAppend
<1> HIDE DEF p2
<1>7. Saving(p3, "restore", FALSE) /\ Normal(p3, "restore")
  BY <1>1, <1>6, SavingAppend
<1> HIDE DEF p3
<1>8. Saving(p4, "restore", FALSE) /\ Normal(p4, "restore")
  BY <1>1, <1>7, SavingAppend
<1> QED
  BY <1>4, <1>8 DEF p1, p2, p3


(***************************************************************************)
(* What run_bootstrap does up to the save.                                 *)
(***************************************************************************)
BootstrapStart(i) ==
    Step("marked") \o GetPool \o (IF i = NoKey THEN Load("mint") ELSE <<>>) \o Save(FALSE)

\* It saves, with a fresh identity if it was given none.
LEMMA BootstrapSaves == \A i : Saving(BootstrapStart(i), "bootstrap", i = NoKey)
<1> SUFFICES ASSUME NEW i PROVE Saving(BootstrapStart(i), "bootstrap", i = NoKey)
  OBVIOUS
<1> DEFINE a == Step("marked")
           b == GetPool
           c == Load("mint")
           d == Save(FALSE)
           ab == a \o b
<1>1. /\ a \in Seq(StepRec) /\ Len(a) = 1 /\ Named(a, 1, "marked", "none")
      /\ b \in Seq(StepRec) /\ Len(b) = 2
      /\ Named(b, 1, "config", "none") /\ Named(b, 2, "pool", "none")
      /\ c \in Seq(StepRec) /\ Len(c) = 2
      /\ Named(c, 1, "public", "mint") /\ Named(c, 2, "private", "mint")
      /\ d \in Seq(StepRec) /\ Len(d) = 2
      /\ Named(d, 1, "savePrivate", "none") /\ Named(d, 2, "savePublic", "none")
      /\ d[1].undo = FALSE /\ d[2].undo = FALSE
  <2>1. a \in Seq(StepRec) /\ Len(a) = 1 /\ Named(a, 1, "marked", "none")
    BY Blocks DEF SimpleOps, Named
  <2>2. /\ b \in Seq(StepRec) /\ Len(b) = 2
        /\ Named(b, 1, "config", "none") /\ Named(b, 2, "pool", "none")
    BY SaveSteps DEF Named
  <2>3. /\ c \in Seq(StepRec) /\ Len(c) = 2
        /\ Named(c, 1, "public", "mint") /\ Named(c, 2, "private", "mint")
    BY Blocks DEF Uses, Named
  <2>4. /\ d \in Seq(StepRec) /\ Len(d) = 2
        /\ Named(d, 1, "savePrivate", "none") /\ Named(d, 2, "savePublic", "none")
        /\ d[1].undo = FALSE /\ d[2].undo = FALSE
    BY SaveSteps DEF Named
  <2> QED
    BY ONLY <2>1, <2>2, <2>3, <2>4
<1>2. BootstrapStart(i) = ab \o (IF i = NoKey THEN c ELSE <<>>) \o d
  BY DEF BootstrapStart
<1> HIDE DEF a, b, c, d
<1>3. Follows(ab, a, b)
  BY <1>1, Joined
<1> HIDE DEF ab
<1>4. ab \in Seq(StepRec) /\ Len(ab) = 3 /\ ab[1] = a[1] /\ ab[2] = b[1] /\ ab[3] = b[2]
  BY <1>1, <1>3 DEF Follows
<1>5. CASE i # NoKey
  <2> DEFINE r == ab \o d
  <2>1. BootstrapStart(i) = r
    <3>1. ab \o <<>> = ab
      BY <1>4
    <3> QED
      BY <1>2, <1>5, <3>1
  <2>2. Follows(r, ab, d)
    BY <1>1, <1>4, Joined
  <2> HIDE DEF r
  <2>3. /\ r \in Seq(StepRec) /\ Len(r) = 5 /\ 1..5 = {1, 2, 3, 4, 5}
        /\ r[1] = a[1] /\ r[2] = b[1] /\ r[3] = b[2] /\ r[4] = d[1] /\ r[5] = d[2]
    BY <1>1, <1>4, <2>2 DEF Follows
  <2>4. /\ Is(r, 1, "marked", "none") /\ Is(r, 2, "config", "none") /\ Is(r, 3, "pool", "none")
        /\ Is(r, 4, "savePrivate", "none") /\ Is(r, 5, "savePublic", "none")
        /\ r[4].undo = FALSE /\ r[5].undo = FALSE
    BY <1>1, <2>3 DEF Is, Named
  <2>5. \A j \in 1..5 : ~ Inside(r, j) /\ ~ Entering(r, j)
    BY <2>3, <2>4 DEF Inside, Entering, Is
  <2>6. \A j \in 1..5 : After(r, j)
    BY <2>3, <2>4, <2>5 DEF After, Is
  <2>7. \A j \in 1..5 : j > 1 => Before(r, j)
    BY <2>3, <2>4, <2>5 DEF Before, Is
  <2>8. Closed(r)
    BY <2>3, <2>4, <2>5, <2>6, <2>7 DEF Closed, Flow, Apart, Is
  <2>9. Ahead(r, 1) /\ ~ Ahead(r, 4) /\ ~ Ahead(r, 5)
    BY <2>3, <2>4 DEF Ahead, Is
  <2>10. \A j \in 1..5 : SavedAt(r, "bootstrap", j)
    <3>1. \A j \in 1..5 : r[j].op \in SaveOps => j \in {4, 5} /\ r[j].undo = FALSE
      BY <2>3, <2>4 DEF SaveOps, Is
    <3>2. \A j \in 1..5 : /\ ~ Is(r, j, "private", "prior")
                          /\ ~ Is(r, j, "private", "mint") /\ (r[j].op = "marked" => j = 1)
      BY <2>3, <2>4 DEF Is
    <3>3. \A j \in 1..5 : \A k \in 1..j : ~ Entering(r, k)
      BY <2>5
    <3> QED
      BY <2>9, <3>1, <3>2, <3>3 DEF SavedAt
  <2>11. Supplied(r)
    <3>1. \A j \in 1..5 : r[j].op \in NeedsPool => j > 3
      BY <2>3, <2>4 DEF NeedsPool, Is
    <3> QED
      BY <2>3, <2>4, <3>1 DEF Supplied, Is
  <2>12. Has(r, "pool", "none") /\ Has(r, "savePrivate", "none")
    BY <2>3, <2>4 DEF Has
  <2>13. r # <<>>
    <3>1. r \in Seq(StepRec) /\ Len(r) # 0
      BY <2>3
    <3> QED
      BY ONLY <3>1, Cuts
  <2>14. Saving(r, "bootstrap", i = NoKey)
    BY <1>5, <2>3, <2>8, <2>10, <2>11, <2>12, <2>13 DEF Saving
  <2> QED
    BY <2>1, <2>14
<1>6. CASE i = NoKey
  <2> DEFINE abc == ab \o c
             r == abc \o d
  <2>1. BootstrapStart(i) = r
    BY <1>2, <1>6
  <2>2. Follows(abc, ab, c)
    BY <1>1, <1>4, Joined
  <2> HIDE DEF abc
  <2>3. /\ abc \in Seq(StepRec) /\ Len(abc) = 5
        /\ abc[1] = ab[1] /\ abc[2] = ab[2] /\ abc[3] = ab[3] /\ abc[4] = c[1] /\ abc[5] = c[2]
    BY <1>1, <1>4, <2>2 DEF Follows
  <2>4. Follows(r, abc, d)
    BY <1>1, <2>3, Joined
  <2> HIDE DEF r
  <2>5. /\ r \in Seq(StepRec) /\ Len(r) = 7 /\ 1..7 = {1, 2, 3, 4, 5, 6, 7}
        /\ \A j \in {1, 2, 3, 4, 5} : r[j] = abc[j]
        /\ r[6] = d[1] /\ r[7] = d[2]
    BY <1>1, <2>3, <2>4 DEF Follows
  <2>6. /\ Is(r, 1, "marked", "none") /\ Is(r, 2, "config", "none") /\ Is(r, 3, "pool", "none")
        /\ Is(r, 4, "public", "mint") /\ Is(r, 5, "private", "mint")
        /\ Is(r, 6, "savePrivate", "none") /\ Is(r, 7, "savePublic", "none")
        /\ r[6].undo = FALSE /\ r[7].undo = FALSE
    <3>1. r[1] = a[1] /\ r[2] = b[1] /\ r[3] = b[2] /\ r[4] = c[1] /\ r[5] = c[2]
      BY <1>4, <2>3, <2>5
    <3> QED
      BY <1>1, <2>5, <3>1 DEF Is, Named
  <2>7. \A j \in 1..7 : ~ Inside(r, j) /\ ~ Entering(r, j)
    BY <2>5, <2>6 DEF Inside, Entering, Is
  <2>8. \A j \in 1..7 : After(r, j)
    BY <2>5, <2>6, <2>7 DEF After, Is
  <2>9. \A j \in 1..7 : j > 1 => Before(r, j)
    BY <2>5, <2>6, <2>7 DEF Before, Is
  <2>10. Closed(r)
    BY <2>5, <2>6, <2>7, <2>8, <2>9 DEF Closed, Flow, Apart, Is
  <2>11. Ahead(r, 1) /\ ~ Ahead(r, 6) /\ ~ Ahead(r, 7)
    BY <2>5, <2>6 DEF Ahead, Is
  <2>12. \A j \in 1..7 : SavedAt(r, "bootstrap", j)
    <3>1. \A j \in 1..7 : r[j].op \in SaveOps => j \in {6, 7} /\ r[j].undo = FALSE
      BY <2>5, <2>6 DEF SaveOps, Is
    <3>2. \A j \in 1..7 : ~ Is(r, j, "private", "prior") /\ (r[j].op = "marked" => j = 1)
      BY <2>5, <2>6 DEF Is
    <3>3. \A j \in 1..7 : \A k \in 1..j : ~ Entering(r, k)
      BY <2>7
    <3> QED
      BY <2>11, <3>1, <3>2, <3>3 DEF SavedAt
  <2>13. Supplied(r)
    <3>1. \A j \in 1..7 : r[j].op \in NeedsPool => j > 3
      BY <2>5, <2>6 DEF NeedsPool, Is
    <3> QED
      BY <2>5, <2>6, <3>1 DEF Supplied, Is
  <2>14. Has(r, "pool", "none") /\ Has(r, "savePrivate", "none")
    BY <2>5, <2>6 DEF Has
  <2>15. Minted(r)
    <3>1. \A j \in 1..7 : r[j].op \in SaveOps => j > 5
      BY <2>5, <2>6 DEF SaveOps, Is
    <3> QED
      BY <2>5, <2>6, <3>1 DEF Minted
  <2>16. r # <<>>
    <3>1. r \in Seq(StepRec) /\ Len(r) # 0
      BY <2>5
    <3> QED
      BY ONLY <3>1, Cuts
  <2>17. Saving(r, "bootstrap", i = NoKey)
    BY <2>5, <2>10, <2>12, <2>13, <2>14, <2>15, <2>16 DEF Saving
  <2> QED
    BY <2>1, <2>17
<1> QED
  BY <1>5, <1>6

(***************************************************************************)
(* run_bootstrap saves an identity and drops the node.                     *)
(***************************************************************************)
LEMMA BootstrapProgram ==
    ASSUME NEW i, NEW edit \in {"cloud", "local"}
    PROVE  /\ Saving(Bootstrap(i, edit), "bootstrap", i = NoKey)
           /\ Normal(Bootstrap(i, edit), "bootstrap")
<1> DEFINE y == IF edit = "cloud" THEN Step("network") ELSE <<>>
           p0 == BootstrapStart(i)
           p1 == p0 \o y
           p2 == p1 \o ReadConfig(edit)
           p3 == p2 \o Step("saveConfig")
           p4 == p3 \o UpdateConfig("edited")
           p5 == p4 \o GetNode
           p6 == p5 \o Step("card")
           p7 == p6 \o Step("mark")
           Sav(p) == Saving(p, "bootstrap", i = NoKey)
<1>1. /\ Plain(Step("network")) /\ Plain(Step("saveConfig")) /\ Plain(Step("card"))
      /\ Plain(Step("mark")) /\ Plain(ReadConfig(edit)) /\ Plain(GetNode)
      /\ Plain(UpdateConfig("edited")) /\ Has(UpdateConfig("edited"), "dropNode", "none")
  BY PlainBlocks, PlainNode DEF SimpleOps, Edit
<1>2. Plain(<<>>)
  <2>1. <<>> \in Seq(StepRec) /\ Len(<<>>) = 0 /\ 1..0 = {}
    OBVIOUS
  <2> QED
    BY <2>1 DEF Plain, Closed, Flow, Apart
<1>3. Bootstrap(i, edit) = p7
  BY DEF Bootstrap, BootstrapStart
<1>4. Plain(y)
  BY <1>1, <1>2
<1>5. Sav(p0)
  BY BootstrapSaves
<1> HIDE DEF y, p0
<1>6. Sav(p1)
  BY <1>4, <1>5, SavingAppend
<1> HIDE DEF p1
<1>7. Sav(p2)
  BY <1>1, <1>6, SavingAppend
<1> HIDE DEF p2
<1>8. Sav(p3)
  BY <1>1, <1>7, SavingAppend
<1> HIDE DEF p3
<1>9. Sav(p4) /\ Normal(p4, "bootstrap")
  BY <1>1, <1>8, SavingAppend
<1> HIDE DEF p4
<1>10. Sav(p5) /\ Normal(p5, "bootstrap")
  BY <1>1, <1>9, SavingAppend
<1> HIDE DEF p5
<1>11. Sav(p6) /\ Normal(p6, "bootstrap")
  BY <1>1, <1>10, SavingAppend
<1> HIDE DEF p6
<1>12. Sav(p7) /\ Normal(p7, "bootstrap")
  BY <1>1, <1>11, SavingAppend
<1> QED
  BY <1>3, <1>12

(***************************************************************************)
(* The rollback of restore_from_phrase.                                    *)
(***************************************************************************)
LEMMA RollbackSound ==
    ASSUME NEW l \in LocalRec, l.op = "restore", l.keep # NoPool, NEW m,
           m = [l EXCEPT !.pool = l.keep, !.failed = TRUE, !.new = l.prior]
    PROVE  /\ RestoreRollback(l.prior) # <<>>
           /\ Sound(RestoreRollback(l.prior), m) /\ Owes(RestoreRollback(l.prior), m)
           /\ ~ Inside(RestoreRollback(l.prior), 1)
           /\ RestoreRollback(l.prior)[1].op # "dropPool"
<1> DEFINE a == IF Complete(l.prior) THEN Save(TRUE) ELSE Clear
           u == UpdateConfig("pre")
           r == a \o u
<1>1. /\ m \in LocalRec /\ m.op = "restore" /\ m.failed = TRUE /\ m.keep # NoPool
      /\ m.pool # NoPool /\ m.new = l.prior
  BY DEF LocalRec
<1>2. RestoreRollback(l.prior) = r
  BY DEF RestoreRollback
<1>3. /\ u \in Seq(StepRec) /\ Len(u) = 3
      /\ Named(u, 1, "newConfig", "none") /\ Named(u, 2, "dropPool", "none")
      /\ Named(u, 3, "dropNode", "none")
  BY UpdateSteps
<1>4. /\ a \in Seq(StepRec) /\ Len(a) = 2
      /\ \/ /\ Complete(l.prior)
            /\ Named(a, 1, "savePrivate", "none") /\ Named(a, 2, "savePublic", "none")
            /\ a[1].undo = TRUE /\ a[2].undo = TRUE
         \/ Named(a, 1, "clearPrivate", "none") /\ Named(a, 2, "clearPublic", "none")
  <2>1. CASE Complete(l.prior)
    BY <2>1, Blocks DEF Named
  <2>2. CASE ~ Complete(l.prior)
    <3> DEFINE x == Step("clearPrivate")
               y == Step("clearPublic")
    <3>1. /\ x \in Seq(StepRec) /\ Len(x) = 1 /\ Named(x, 1, "clearPrivate", "none")
          /\ y \in Seq(StepRec) /\ Len(y) = 1 /\ Named(y, 1, "clearPublic", "none")
      BY Blocks DEF SimpleOps, Named
    <3>2. a = Clear /\ Clear = x \o y
      BY <2>2 DEF Clear
    <3> HIDE DEF x, y, a
    <3>3. Follows(a, x, y)
      BY <3>1, <3>2, Joined
    <3> QED
      BY <3>1, <3>3 DEF Follows, Named
  <2> QED
    BY <2>1, <2>2
<1> HIDE DEF a, u
<1>5. Follows(r, a, u)
  BY <1>3, <1>4, Joined
<1> HIDE DEF r
<1>6. /\ r \in Seq(StepRec) /\ Len(r) = 5 /\ 1..5 = {1, 2, 3, 4, 5}
      /\ r[1] = a[1] /\ r[2] = a[2] /\ r[3] = u[1] /\ r[4] = u[2] /\ r[5] = u[3]
  BY <1>3, <1>4, <1>5 DEF Follows
<1>7. /\ \/ /\ Complete(l.prior)
            /\ Is(r, 1, "savePrivate", "none") /\ Is(r, 2, "savePublic", "none")
            /\ r[1].undo = TRUE /\ r[2].undo = TRUE
         \/ Is(r, 1, "clearPrivate", "none") /\ Is(r, 2, "clearPublic", "none")
      /\ Is(r, 3, "newConfig", "none") /\ Is(r, 4, "dropPool", "none") /\ Is(r, 5, "dropNode", "none")
  BY <1>3, <1>4, <1>6 DEF Is, Named
<1>8. \A j \in 1..5 : ~ Inside(r, j)
  BY <1>6, <1>7 DEF Inside, Is
<1>9. Flow(r)
  <2>1. \A j \in 1..5 : After(r, j)
    BY <1>6, <1>7, <1>8 DEF After, Is
  <2>2. \A j \in 1..5 : j > 1 => Before(r, j)
    BY <1>6, <1>7, <1>8 DEF Before, Is
  <2> QED
    BY <1>6, <2>1, <2>2 DEF Flow
<1>10. Undoing(r)
  <2>1. r # <<>>
    BY <1>6, Cuts
  <2> QED
    BY <1>6, <1>7, <2>1 DEF Undoing, UndoOps, SaveOps, Is
<1>11. Pooled(r, m) /\ Kept(r, m)
  BY <1>1 DEF Pooled, Kept
<1>12. Chosen(r, m)
  BY <1>1, <1>6, <1>7 DEF Chosen, SaveOps, Is
<1>13. r # <<>> /\ r[1].op # "clearPublic" /\ r[1].op # "dropPool"
  BY <1>6, <1>7, <1>10 DEF Is, Undoing
<1>14. Sound(r, m)
  BY <1>1, <1>6, <1>9, <1>10, <1>11, <1>12, <1>13 DEF Sound, Undo
<1>15. Owes(r, m)
  BY <1>1 DEF Owes
<1> QED
  BY <1>2, <1>6, <1>8, <1>13, <1>14, <1>15

(***************************************************************************)
(* The rollback of run_bootstrap.                                          *)
(***************************************************************************)
LEMMA UnbootSound ==
    ASSUME NEW l \in LocalRec, l.op = "bootstrap", l.keep # NoPool, NEW m,
           m = [l EXCEPT !.pool = l.keep, !.failed = TRUE]
    PROVE  /\ BootstrapRollback # <<>>
           /\ Sound(BootstrapRollback, m) /\ Owes(BootstrapRollback, m)
           /\ ~ Inside(BootstrapRollback, 1) /\ BootstrapRollback[1].op # "dropPool"
<1> DEFINE r == BootstrapRollback
<1>1. /\ m \in LocalRec /\ m.op = "bootstrap" /\ m.failed = TRUE /\ m.keep # NoPool
      /\ m.pool # NoPool
  BY DEF LocalRec
<1>2. Plain(Clear) /\ Plain(Step("unmark")) /\ Plain(Step("dropConfig"))
  BY PlainBlocks DEF SimpleOps
<1>3. Plain(r)
  <2>1. Plain(Clear \o Step("unmark"))
    BY <1>2, PlainConcat
  <2>2. Plain(Clear \o Step("unmark") \o Step("dropConfig"))
    BY <1>2, <2>1, PlainConcat
  <2> QED
    BY <2>2 DEF BootstrapRollback
<1>4. r # <<>> /\ r[1].op = "clearPrivate"
  <2> DEFINE x == Step("clearPrivate")
             y == Step("clearPublic")
             z == Step("unmark")
             w == Step("dropConfig")
  <2>1. /\ x \in Seq(StepRec) /\ Len(x) = 1 /\ Named(x, 1, "clearPrivate", "none")
        /\ y \in Seq(StepRec) /\ Len(y) = 1 /\ z \in Seq(StepRec) /\ Len(z) = 1
        /\ w \in Seq(StepRec) /\ Len(w) = 1
    BY Blocks DEF SimpleOps, Named
  <2>2. r = ((x \o y) \o z) \o w
    BY DEF BootstrapRollback, Clear
  <2> HIDE DEF x, y, z, w
  <2> DEFINE xy == x \o y
             xyz == xy \o z
             s == xyz \o w
  <2>3. Follows(xy, x, y)
    BY <2>1, Joined
  <2> HIDE DEF xy
  <2>4. xy \in Seq(StepRec) /\ Len(xy) = 2 /\ xy[1] = x[1]
    BY <2>1, <2>3 DEF Follows
  <2>5. Follows(xyz, xy, z)
    BY <2>1, <2>4, Joined
  <2> HIDE DEF xyz
  <2>6. xyz \in Seq(StepRec) /\ Len(xyz) = 3 /\ xyz[1] = x[1]
    BY <2>1, <2>4, <2>5 DEF Follows
  <2>7. Follows(s, xyz, w)
    BY <2>1, <2>6, Joined
  <2>8. r = s
    BY <2>2 DEF s, xyz, xy
  <2> HIDE DEF s, r
  <2>9. s \in Seq(StepRec) /\ Len(s) = 4 /\ s[1] = x[1]
    BY <2>1, <2>6, <2>7 DEF Follows
  <2> QED
    BY <2>1, <2>8, <2>9 DEF Named
<1> HIDE DEF r
<1>5. Flow(r) /\ r \in Seq(StepRec) /\ ~ Inside(r, 1)
  BY <1>3, <1>4 DEF Plain, Closed, Apart
<1>6. Chosen(r, m) /\ Pooled(r, m) /\ Kept(r, m)
  BY <1>1, <1>3 DEF Chosen, Pooled, Kept, Plain, PlainAt
<1>7. Sound(r, m)
  BY <1>1, <1>4, <1>5, <1>6 DEF Sound, Undo
<1>8. Owes(r, m)
  BY <1>1 DEF Owes
<1> QED
  BY <1>4, <1>5, <1>7, <1>8 DEF r

-----------------------------------------------------------------------------
(* The steps keep the invariant                                            *)

(***************************************************************************)
(* A program begins.                                                       *)
(***************************************************************************)
LEMMA BeginStep ==
    ASSUME Good, NEW t \in Task, NEW p, NEW l, Sound(p, l), Closed(p), p # <<>>,
           prog[t] = <<>>, prog' = [prog EXCEPT ![t] = p], local' = [local EXCEPT ![t] = l],
           ident' = ident, slot' = slot, lock' = lock, Typed
    PROVE  Good'
<1>1. Sound(prog[t], local[t]) /\ Held(prog[t], lock = t)
  BY DEF Good
<1>2. lock # t /\ local[t].op = "none"
  BY <1>1 DEF Sound, Held
<1>3. ~ Inside(p, 1) /\ p[1].op # "dropPool"
  BY DEF Closed, Apart
<1>4. Goes(t, p, l)
  <2>1. Held(p, lock' = t)
    BY <1>2, <1>3 DEF Held
  <2> QED
    BY <2>1 DEF Goes
<1>5. Agrees(p, l, ident[l.pool.path], Owed')
  BY <1>3 DEF Agrees
<1>6. ~ Owes(prog[t], local[t])
  BY <1>2 DEF Owes
<1> QED
  BY <1>4, <1>5, <1>6, Keeping

(***************************************************************************)
(* An operation is asked for.                                              *)
(***************************************************************************)
LEMMA ServeStep ==
    ASSUME Good, NEW t \in Task, Serve(t)
    PROVE  Good'
<1>1. ASSUME NEW op, NEW new, NEW p, Begin(t, op, new, p), Closed(p), p # <<>>,
             Sound(p, [Idle EXCEPT !.op = op, !.new = new])
      PROVE  Good'
  <2> DEFINE l == [Idle EXCEPT !.op = op, !.new = new]
  <2>1. /\ prog[t] = <<>> /\ prog' = [prog EXCEPT ![t] = p] /\ local' = [local EXCEPT ![t] = l]
        /\ config' = config /\ slot' = slot /\ lock' = lock /\ pool' = pool /\ pools' = pools
        /\ ident' = ident /\ disk' = disk
    BY <1>1 DEF Begin, memVars, diskVars
  <2>2. Typed
    BY <2>1, Untouched DEF Typed
  <2>3. Sound(p, l)
    BY <1>1
  <2> HIDE DEF l
  <2> QED
    BY <1>1, <2>1, <2>2, <2>3, BeginStep
<1>2. ASSUME NEW op \in {"request", "setup", "register", "delete"}, NEW p, Easy(p), p # <<>>,
             Begin(t, op, NoPair, p)
      PROVE  Good'
  <2>1. Sound(p, [Idle EXCEPT !.op = op, !.new = NoPair])
    BY <1>2, EasySound
  <2>2. Closed(p)
    BY <1>2 DEF Easy, Plain
  <2> QED
    BY <1>1, <1>2, <2>1, <2>2
<1>3. ASSUME NEW op \in {"restore", "bootstrap"}, NEW i \in Identity \cup {NoKey}, NEW p,
             NEW minted, minted = (i = NoKey) \/ (i # NoKey /\ minted = FALSE),
             Saving(p, op, minted), Normal(p, op),
             Begin(t, op, Whole(i), p)
      PROVE  Good'
  <2>1. Whole(i) \in Pair
    BY DEF Whole, Pair, Key
  <2>2. i # NoKey => Complete(Whole(i))
    BY DEF Whole, Complete
  <2>3. minted \/ Complete(Whole(i))
    BY <1>3, <2>2
  <2>4. Sound(p, [Idle EXCEPT !.op = op, !.new = Whole(i)])
    BY <1>3, <2>1, <2>3, SavingSound
  <2>5. Closed(p) /\ p # <<>>
    BY <1>3 DEF Saving
  <2> QED
    BY <1>1, <1>3, <2>4, <2>5
<1>4. ASSUME NEW p, NEW op, NEW use, Has(p, op, use) PROVE p # <<>>
  BY <1>4 DEF Has
<1>5. CASE Begin(t, "request", NoPair, GetNode)
  <2>0. GetNode \in Seq(StepRec) /\ Len(GetNode) # 0
    BY NodeSteps
  <2>1. Easy(GetNode) /\ GetNode # <<>>
    <3>1. GetNode # <<>>
      BY ONLY <2>0, Cuts
    <3> QED
      BY <3>1, EasyPrograms
  <2> QED
    BY <1>2, <1>5, <2>1
<1>6. ASSUME NEW edit \in Path \cup {"cloud"}, Begin(t, "setup", NoPair, ApplySetup(edit)) PROVE Good'
  <2>1. Easy(ApplySetup(edit)) /\ ApplySetup(edit) # <<>>
    BY <1>4, EasyPrograms
  <2> QED
    BY <1>2, <1>6, <2>1
<1>7. CASE Begin(t, "register", NoPair, SignedRegister \o EnableCloudSync)
  <2>1. Easy(SignedRegister \o EnableCloudSync) /\ SignedRegister \o EnableCloudSync # <<>>
    BY <1>4, EasyPrograms
  <2> QED
    BY <1>2, <1>7, <2>1
<1>8. ASSUME NEW i \in Identity, Begin(t, "restore", Whole(i), RestoreFromPhrase) PROVE Good'
  <2>1. i # NoKey
    BY KeyAssumption
  <2>2. Saving(RestoreFromPhrase, "restore", FALSE) /\ Normal(RestoreFromPhrase, "restore")
    BY RestoreProgram
  <2> QED
    BY <1>3, <1>8, <2>1, <2>2
<1>9. ASSUME NEW i \in Identity \cup {NoKey}, NEW edit \in {"cloud", "local"},
             Begin(t, "bootstrap", Whole(i), Bootstrap(i, edit))
      PROVE  Good'
  <2>1. /\ Saving(Bootstrap(i, edit), "bootstrap", i = NoKey)
        /\ Normal(Bootstrap(i, edit), "bootstrap")
    BY BootstrapProgram
  <2> DEFINE minted == i = NoKey
  <2>2. minted = (i = NoKey) \/ (i # NoKey /\ minted = FALSE)
    OBVIOUS
  <2>3. Saving(Bootstrap(i, edit), "bootstrap", minted)
    BY <2>1
  <2> HIDE DEF minted
  <2> QED
    BY <1>3, <1>9, <2>1, <2>2, <2>3
<1>10. CASE Begin(t, "delete", NoPair, DeleteAccount)
  <2>1. Easy(DeleteAccount) /\ DeleteAccount # <<>>
    BY <1>4, EasyPrograms
  <2> QED
    BY <1>2, <1>10, <2>1
<1> QED
  BY <1>5, <1>6, <1>7, <1>8, <1>9, <1>10 DEF Serve

(***************************************************************************)
(* A task that breaks off before it wrote owes nothing.                    *)
(***************************************************************************)
LEMMA UnkeptOwes ==
    ASSUME NEW p, NEW l, Sound(p, l), ~ l.failed, l.keep = NoPool,
           p = <<>> \/ p[1].op # "savePublic"
    PROVE  ~ Owes(p, l)
<1>1. CASE l.op = "restore"
  <2>1. PICK j \in 1..Len(p) : Is(p, j, "private", "prior")
    BY <1>1 DEF Sound, Kept
  <2>2. NormalAt(p, l.op, j)
    BY DEF Sound, Normal
  <2>3. Ahead(p, j)
    BY <2>1, <2>2 DEF NormalAt
  <2>4. Ahead(p, 0)
    BY <2>3 DEF Ahead
  <2> QED
    BY <2>4 DEF Owes
<1>2. CASE l.op = "bootstrap"
  BY <1>2 DEF Sound, Kept, Owes
<1> QED
  BY <1>1, <1>2 DEF Owes

(***************************************************************************)
(* An error is returned.                                                   *)
(***************************************************************************)
LEMMA AbortStep ==
    ASSUME Good, NEW t \in Task, ~ local[t].failed, Abort(t),
           local[t].keep = NoPool => prog[t] = <<>> \/ prog[t][1].op # "savePublic",
           ident' = ident, slot' = slot, Typed,
           lock' # t, lock' = lock \/ {lock, lock'} \subseteq {t, Free}
    PROVE  Good'
<1> DEFINE l == local[t]
<1>1. Sound(prog[t], l)
  BY DEF Good
<1>2. l \in LocalRec /\ Kept(prog[t], l)
  BY <1>1 DEF Sound
<1>3. CASE l.keep = NoPool
  <2>1. Continue(t, <<>>, Idle)
    BY <1>3 DEF Abort
  <2>2. ~ Owes(prog[t], local[t])
    BY <1>1, <1>3, UnkeptOwes
  <2> QED
    BY <2>1, <2>2, EndStep
<1>4. ASSUME NEW q, NEW m, Continue(t, q, m), q # <<>>, Sound(q, m), Owes(q, m), ~ Inside(q, 1),
             q[1].op # "dropPool"
      PROVE  Good'
  <2>1. prog' = [prog EXCEPT ![t] = q] /\ local' = [local EXCEPT ![t] = m]
    BY <1>4 DEF Continue
  <2>2. Goes(t, q, m)
    <3>1. Held(q, lock' = t)
      BY <1>4 DEF Held
    <3> QED
      BY <1>4, <2>1, <3>1 DEF Goes
  <2>3. Agrees(q, m, ident[m.pool.path], Owed')
    BY <1>4 DEF Agrees
  <2> QED
    BY <1>4, <2>2, <2>3, Keeping
<1>5. CASE l.keep # NoPool /\ l.op = "restore"
  <2> DEFINE m == [l EXCEPT !.pool = l.keep, !.failed = TRUE, !.new = l.prior]
             q == RestoreRollback(l.prior)
  <2>1. Continue(t, q, m)
    <3>1. Continue(t, RestoreRollback([l EXCEPT !.pool = l.keep, !.failed = TRUE].prior),
                   [[l EXCEPT !.pool = l.keep, !.failed = TRUE] EXCEPT
                       !.new = [l EXCEPT !.pool = l.keep, !.failed = TRUE].prior])
      BY <1>5 DEF Abort
    <3>2. /\ [l EXCEPT !.pool = l.keep, !.failed = TRUE].prior = l.prior
          /\ [[l EXCEPT !.pool = l.keep, !.failed = TRUE] EXCEPT !.new = l.prior] = m
      BY <1>2 DEF LocalRec
    <3> QED
      BY <3>1, <3>2
  <2>2. q # <<>> /\ Sound(q, m) /\ Owes(q, m) /\ ~ Inside(q, 1) /\ q[1].op # "dropPool"
    <3>1. \E x \in LocalRec : x = l
      BY <1>2
    <3> QED
      BY <1>2, <1>5, RollbackSound
  <2> HIDE DEF q, m
  <2> QED
    BY <1>4, <2>1, <2>2
<1>6. CASE l.keep # NoPool /\ l.op = "bootstrap"
  <2> DEFINE m == [l EXCEPT !.pool = l.keep, !.failed = TRUE]
             q == BootstrapRollback
  <2>1. Continue(t, q, m)
    BY <1>6 DEF Abort
  <2>2. q # <<>> /\ Sound(q, m) /\ Owes(q, m) /\ ~ Inside(q, 1) /\ q[1].op # "dropPool"
    BY <1>2, <1>6, UnbootSound
  <2> HIDE DEF q, m
  <2> QED
    BY <1>4, <2>1, <2>2
<1> QED
  BY <1>2, <1>3, <1>5, <1>6 DEF Kept

(***************************************************************************)
(* A step that leaves what the rest of the program needs.                  *)
(***************************************************************************)
LEMMA CutOne ==
    ASSUME NEW p, NEW l, Sound(p, l), p # <<>>, NEW m \in LocalRec, m.op = l.op,
           m.failed = l.failed, m.keep = l.keep, m.new = l.new,
           m.pool # NoPool \/ (m.pool = l.pool /\ p[1].op # "pool"),
           p[1].op \notin {"clearPrivate", "savePublic"},
           ~ Is(p, 1, "private", "prior"), ~ Is(p, 1, "private", "mint")
    PROVE  Cut(p, l, 1, m)
<1>1. p \in Seq(StepRec) /\ 1 \in 1..Len(p) /\ 1..1 = {1}
  BY Cuts DEF Sound
<1> QED
  BY <1>1 DEF Cut

(***************************************************************************)
(* What is known of a task that is about to do a step.                     *)
(***************************************************************************)
LEMMA Ready ==
    ASSUME Good, NEW t \in Task, NEW op, At(t, op)
    PROVE  /\ prog[t] \in Seq(StepRec) /\ prog[t] # <<>> /\ prog[t][1].op = op
           /\ prog[t][1] = Head(prog[t]) /\ prog[t][1] \in StepRec /\ 1 \in 1..Len(prog[t])
           /\ Len(prog[t]) \in Nat /\ Rest(Tail(prog[t]), prog[t], 1) /\ Flow(prog[t])
           /\ Sound(prog[t], local[t]) /\ Held(prog[t], lock = t) /\ Creates(t)
           /\ local[t] \in LocalRec
           /\ op \in NeedsPool => local[t].pool \in Pool /\ local[t].pool # NoPool
           /\ local[t].failed => op \in SaveOps \cup UndoOps \cup {"dropNode"}
<1> DEFINE p == prog[t]
           l == local[t]
<1>1. Sound(p, l) /\ Held(p, lock = t) /\ Creates(t)
  BY DEF Good
<1>2. p \in Seq(StepRec) /\ p # <<>> /\ l \in LocalRec /\ Flow(p) /\ Head(p).op = op
  BY <1>1 DEF At, Sound
<1>3. /\ Head(p) = p[1] /\ p[1] \in StepRec /\ 1 \in 1..Len(p) /\ Len(p) \in Nat
      /\ Rest(Tail(p), p, 1)
  BY <1>2, Cuts
<1>4. ASSUME op \in NeedsPool PROVE l.pool \in Pool /\ l.pool # NoPool
  <2>1. l.pool # NoPool
    BY <1>1, <1>2, <1>3, <1>4 DEF Sound, Pooled
  <2> QED
    BY <1>2, <2>1 DEF LocalRec
<1>5. ASSUME l.failed PROVE op \in SaveOps \cup UndoOps \cup {"dropNode"}
  BY <1>1, <1>2, <1>3, <1>5 DEF Sound, Undo, Undoing, UndoOps
<1> QED
  BY <1>1, <1>2, <1>3, <1>4, <1>5

(***************************************************************************)
(* A step outside of all sections that reads or notes something.           *)
(***************************************************************************)
LEMMA SimpleStep ==
    ASSUME Good, NEW t \in Task, NEW op, At(t, op), NEW m \in LocalRec, Advance(t, m),
           m.op = local[t].op, m.failed = local[t].failed, m.keep = local[t].keep,
           m.new = local[t].new, m.pool # NoPool \/ (m.pool = local[t].pool /\ op # "pool"),
           ~ Inside(prog[t], 1),
           op \notin {"slow", "newConfig", "dropPool", "dropNode", "clearPrivate", "savePublic"},
           ~ Is(prog[t], 1, "private", "prior"), ~ Is(prog[t], 1, "private", "mint"),
           ident' = ident, slot' = slot, lock' = lock, Typed
    PROVE  Good'
<1>1. /\ Sound(prog[t], local[t]) /\ prog[t] # <<>> /\ prog[t][1].op = op
  BY Ready
<1>2. Cut(prog[t], local[t], 1, m)
  BY <1>1, CutOne
<1> QED
  BY <1>1, <1>2, PlainStep

(***************************************************************************)
(* A step inside of get_node, or the one that enters its section.          *)
(***************************************************************************)
LEMMA InsideStep ==
    ASSUME Good, NEW t \in Task, NEW op, At(t, op), NEW m \in LocalRec, Advance(t, m),
           m.op = local[t].op, m.failed = local[t].failed, m.keep = local[t].keep,
           m.new = local[t].new, m.pool # NoPool \/ (m.pool = local[t].pool /\ op # "pool"),
           (Inside(prog[t], 1) /\ op # "build") \/ op = "slow",
           ident' = ident, slot' = slot, lock' = t, lock \in {t, Free}, Typed,
           (Owed => Owed') => Agrees(Tail(prog[t]), m, ident[m.pool.path], Owed')
    PROVE  Good'
<1> DEFINE p == prog[t]
           l == local[t]
           q == Tail(p)
<1>1. /\ p \in Seq(StepRec) /\ p # <<>> /\ p[1].op = op /\ Flow(p) /\ Sound(p, l)
      /\ p[1] \in StepRec
  BY Ready
<1>2. q # <<>> /\ Inside(q, 1)
  BY <1>1, InsideNext
<1>3. /\ op \notin {"clearPrivate", "savePublic", "dropNode"}
      /\ ~ Is(p, 1, "private", "prior") /\ ~ Is(p, 1, "private", "mint")
  <2>1. Use(p[1]) # "none" => p[1].op \in {"public", "private"}
    BY <1>1, StepTypes
  <2> QED
    BY <1>1, <2>1 DEF Inside, Is
<1>4. Cut(p, l, 1, m)
  BY <1>1, <1>3, CutOne
<1>5. Sound(q, Left(q, m)) /\ (Owes(p, l) => Owes(q, Left(q, m)))
  BY <1>1, <1>3, <1>4, TailSound
<1>6. Left(q, m) = m
  BY <1>2 DEF Left
<1>7. prog' = [prog EXCEPT ![t] = q] /\ local' = [local EXCEPT ![t] = m]
  BY <1>2 DEF Advance, Continue
<1>8. Agrees(q, m, ident[m.pool.path], Owed') \/ ~ (Owed => Owed')
  OBVIOUS
<1> HIDE DEF q, p, l
<1>9. Goes(t, q, m)
  <2>1. Held(q, lock' = t)
    BY <1>2 DEF Held
  <2> QED
    BY <1>5, <1>6, <1>7, <2>1 DEF Goes
<1>10. Owes(prog[t], local[t]) => Owes(q, m)
  BY <1>5, <1>6 DEF p, l
<1> QED
  BY <1>8, <1>9, <1>10, Keeping

(***************************************************************************)
(* Inside of get_node a task holds the lock.                               *)
(***************************************************************************)
LEMMA Locked ==
    ASSUME Good, NEW t \in Task, NEW op, At(t, op)
    PROVE  /\ Inside(prog[t], 1) \/ op = "dropPool" => lock = t
           /\ lock = t => Inside(prog[t], 1) \/ op \in {"dropPool", "dropNode"}
BY Ready DEF Held

(***************************************************************************)
(* The configuration is read.                                              *)
(***************************************************************************)
LEMMA ConfigStep ==
    ASSUME Good, NEW t \in Task, GetBaseConfig(t)
    PROVE  Good'
<1> DEFINE l == local[t]
           p == prog[t]
           edit == Head(p).edit
           m == [l EXCEPT !.cfg = Edited(config, edit), !.pre = IF edit = "pre" THEN config ELSE l.pre]
<1>1. /\ At(t, "config") /\ Advance(t, m)
      /\ config' = config /\ slot' = slot /\ lock' = lock /\ pool' = pool /\ pools' = pools
      /\ ident' = ident /\ disk' = disk
  BY DEF GetBaseConfig, memVars, diskVars
<1>2. /\ p \in Seq(StepRec) /\ p # <<>> /\ p[1].op = "config" /\ p[1] = Head(p) /\ p[1] \in StepRec
      /\ l \in LocalRec /\ Flow(p) /\ 1 \in 1..Len(p)
  BY <1>1, Ready
<1>3. config \in Config /\ edit \in Path \cup {"keep", "pre", "cloud", "local"}
  BY <1>2, StepTypes DEF Good, Types
<1>4. Edited(config, edit) \in Config
  BY <1>3 DEF Edited, Config
<1>5. /\ m \in LocalRec /\ m.op = l.op /\ m.failed = l.failed /\ m.keep = l.keep /\ m.new = l.new
      /\ m.pool = l.pool
  BY <1>2, <1>3, <1>4 DEF LocalRec
<1>6. Typed
  BY <1>1, Untouched DEF Typed
<1> HIDE DEF m
<1>7. CASE ~ Inside(p, 1)
  BY <1>1, <1>2, <1>5, <1>6, <1>7, SimpleStep DEF Is
<1>8. CASE Inside(p, 1)
  <2>1. Is(p, 2, "pool", "none")
    <3>1. After(p, 1) /\ 1 + 1 = 2
      BY <1>2 DEF Flow
    <3> QED
      BY <1>2, <1>8, <3>1 DEF After
  <2>2. Is(Tail(p), 1, "pool", "none")
    BY <1>2, <1>8, <2>1, InsideNext
  <2>3. Agrees(Tail(p), m, ident[m.pool.path], Owed')
    BY <2>2 DEF Agrees, Is
  <2> QED
    BY <1>1, <1>2, <1>5, <1>6, <1>8, <2>3, Locked, InsideStep
<1> QED
  BY <1>7, <1>8

(***************************************************************************)
(* The pool.                                                               *)
(***************************************************************************)
LEMMA PoolStep ==
    ASSUME Good, NEW t \in Task, GetOrCreatePool(t)
    PROVE  Good'
<1> DEFINE l == local[t]
           p == prog[t]
           hit == pool # NoPool /\ pool.path = l.cfg.path
           m == [l EXCEPT !.pool = pool']
<1>1. /\ At(t, "pool") /\ Advance(t, m)
      /\ pool' = IF hit THEN pool ELSE [path |-> l.cfg.path, n |-> pools + 1]
      /\ pools' = IF hit THEN pools ELSE pools + 1
      /\ config' = config /\ slot' = slot /\ lock' = lock
      /\ ident' = ident /\ disk' = disk
  BY DEF GetOrCreatePool, diskVars
<1>2. /\ p \in Seq(StepRec) /\ p # <<>> /\ p[1].op = "pool" /\ p[1] \in StepRec
      /\ l \in LocalRec /\ Flow(p) /\ 1 \in 1..Len(p)
  BY <1>1, Ready
<1>3. l.cfg.path \in Path /\ pools \in Nat /\ (pool = NoPool \/ pool \in Pool)
  BY <1>2 DEF Good, Types, LocalRec, Config
<1>4. pool' \in Pool /\ pool'.path = l.cfg.path /\ pools' \in Nat
  <2>1. [path |-> l.cfg.path, n |-> pools + 1] \in Pool
    BY <1>3 DEF Pool
  <2> QED
    BY <1>1, <1>3, <2>1
<1>5. pool' # NoPool
  BY <1>4, PoolAssumption
<1>6. /\ m \in LocalRec /\ m.op = l.op /\ m.failed = l.failed /\ m.keep = l.keep /\ m.new = l.new
      /\ m.pool = pool' /\ m.cfg = l.cfg
  BY <1>2, <1>4 DEF LocalRec
<1>7. Typed
  BY <1>1, <1>4, Untouched DEF Typed
<1> HIDE DEF m
<1>8. CASE ~ Inside(p, 1)
  BY <1>1, <1>2, <1>5, <1>6, <1>7, <1>8, SimpleStep DEF Is
<1>9. CASE Inside(p, 1)
  <2>1. Is(p, 2, "public", "signer")
    <3>1. 1 + 1 = 2
      OBVIOUS
    <3> QED
      BY <1>2, <1>9, <3>1 DEF Inside, Use
  <2>2. Is(Tail(p), 1, "public", "signer")
    BY <1>2, <1>9, <2>1, InsideNext
  <2>3. Agrees(Tail(p), m, ident[m.pool.path], Owed')
    BY <1>4, <1>6, <2>2 DEF Agrees, Is
  <2> QED
    BY <1>1, <1>2, <1>5, <1>6, <1>7, <1>9, <2>3, Locked, InsideStep
<1> QED
  BY <1>8, <1>9

(***************************************************************************)
(* get_node finds a node: it is left.                                      *)
(***************************************************************************)
LEMMA HitStep ==
    ASSUME Good, NEW t \in Task, NEW op \in {"fast", "slow"}, At(t, op), lock = Free,
           slot # NoNode, Continue(t, AfterNode(t), [local[t] EXCEPT !.pool = slot.pool]),
           ident' = ident, slot' = slot, lock' = lock, Typed
    PROVE  Good'
<1> DEFINE l == local[t]
           m == [l EXCEPT !.pool = slot.pool]
<1>1. l \in LocalRec /\ prog[t] # <<>> /\ prog[t][1].op = op
  BY Ready
<1>2. slot.pool \in Pool /\ slot.pool # NoPool
  BY PoolAssumption DEF Good, Types, SlotRec
<1>3. /\ m \in LocalRec /\ m.op = l.op /\ m.failed = l.failed /\ m.keep = l.keep /\ m.new = l.new
      /\ m.pool # NoPool
  BY <1>1, <1>2 DEF LocalRec
<1>4. Entering(prog[t], 1)
  BY <1>1 DEF Entering
<1>5. Continue(t, AfterNode(t), m)
  OBVIOUS
<1>6. lock' # t
  BY LockAssumption
<1> HIDE DEF m
<1> QED
  BY <1>1, <1>3, <1>4, <1>5, <1>6, JumpStep

(***************************************************************************)
(* The first look at the slot.                                             *)
(***************************************************************************)
LEMMA FastStep ==
    ASSUME Good, NEW t \in Task, GetNodeFast(t)
    PROVE  Good'
<1>1. /\ At(t, "fast") /\ lock = Free
      /\ config' = config /\ slot' = slot /\ lock' = lock /\ pool' = pool /\ pools' = pools
      /\ ident' = ident /\ disk' = disk
  BY DEF GetNodeFast, memVars, diskVars
<1>2. Typed
  BY <1>1, Untouched DEF Typed
<1>3. CASE slot # NoNode
  BY <1>1, <1>2, <1>3, HitStep DEF GetNodeFast
<1>4. CASE slot = NoNode
  <2>1. Advance(t, local[t])
    BY <1>4 DEF GetNodeFast
  <2>2. prog[t][1].op = "fast" /\ local[t] \in LocalRec
    BY <1>1, Ready
  <2>3. ~ Inside(prog[t], 1) /\ ~ Is(prog[t], 1, "private", "prior") /\ ~ Is(prog[t], 1, "private", "mint")
    BY <2>2 DEF Inside, Use, Is
  <2> QED
    BY <1>1, <1>2, <2>1, <2>2, <2>3, SimpleStep
<1> QED
  BY <1>3, <1>4

(***************************************************************************)
(* The second look, under the write lock.                                  *)
(***************************************************************************)
LEMMA SlowStep ==
    ASSUME Good, NEW t \in Task, GetNodeSlow(t)
    PROVE  Good'
<1>1. /\ At(t, "slow") /\ lock = Free
      /\ config' = config /\ slot' = slot /\ pool' = pool /\ pools' = pools
      /\ ident' = ident /\ disk' = disk
  BY DEF GetNodeSlow, diskVars
<1>2. Typed
  BY <1>1, Untouched DEF Typed
<1>3. CASE slot # NoNode
  BY <1>1, <1>2, <1>3, HitStep DEF GetNodeSlow
<1>4. CASE slot = NoNode
  <2> DEFINE p == prog[t]
  <2>1. Advance(t, local[t]) /\ lock' = t
    BY <1>4 DEF GetNodeSlow
  <2>2. /\ p[1].op = "slow" /\ local[t] \in LocalRec /\ Flow(p) /\ p \in Seq(StepRec) /\ p # <<>>
        /\ 1 \in 1..Len(p)
    BY <1>1, Ready
  <2>3. Is(p, 2, "config", "none")
    <3>1. After(p, 1) /\ 1 + 1 = 2
      BY <2>2 DEF Flow
    <3> QED
      BY <2>2, <3>1 DEF After
  <2>4. Is(Tail(p), 1, "config", "none")
    BY <2>2, <2>3, InsideNext
  <2>5. Agrees(Tail(p), local[t], ident[local[t].pool.path], Owed')
    BY <2>4 DEF Agrees, Is
  <2> QED
    BY <1>1, <1>2, <2>1, <2>2, <2>5, InsideStep
<1> QED
  BY <1>3, <1>4

(***************************************************************************)
(* The public key is read.                                                 *)
(***************************************************************************)
LEMMA PublicStep ==
    ASSUME Good, NEW t \in Task, LoadPublic(t)
    PROVE  Good'
<1> DEFINE l == local[t]
           p == prog[t]
           tree == ident[l.pool.path]
           m == [l EXCEPT !.read = [priv |-> NoKey, pub |-> tree.pub]]
<1>1. /\ At(t, "public") /\ Advance(t, m)
      /\ config' = config /\ slot' = slot /\ lock' = lock /\ pool' = pool /\ pools' = pools
      /\ ident' = ident /\ disk' = disk
  BY DEF LoadPublic, memVars, diskVars
<1>2. /\ p \in Seq(StepRec) /\ p # <<>> /\ p[1].op = "public" /\ p[1] \in StepRec
      /\ l \in LocalRec /\ Flow(p) /\ 1 \in 1..Len(p) /\ l.pool \in Pool /\ l.pool # NoPool
      /\ Creates(t)
  BY <1>1, Ready DEF NeedsPool
<1>3. tree \in Pair
  BY <1>2 DEF Good, Types, Pool
<1>4. /\ m \in LocalRec /\ m.op = l.op /\ m.failed = l.failed /\ m.keep = l.keep /\ m.new = l.new
      /\ m.pool = l.pool /\ m.cfg = l.cfg /\ m.signer = l.signer /\ m.read.pub = tree.pub
  BY <1>2, <1>3 DEF LocalRec, Pair, Key
<1>5. Typed
  BY <1>1, Untouched DEF Typed
<1>6. Agrees(p, l, tree, Owed)
  BY <1>2 DEF Creates
<1> HIDE DEF m
<1>7. CASE ~ Inside(p, 1)
  BY <1>1, <1>2, <1>4, <1>5, <1>7, SimpleStep DEF Is
<1>8. CASE Inside(p, 1)
  <2>1. After(p, 1) /\ 1 + 1 = 2
    BY <1>2 DEF Flow
  <2>2. \A op, use : Is(Tail(p), 1, op, use) <=> Is(p, 2, op, use)
    BY <1>2, <1>8, InsideNext
  <2>3. Is(p, 1, "public", "signer") \/ Is(p, 1, "public", "node")
    BY <1>2, <1>8 DEF Inside, Is
  <2>4. ident[m.pool.path] = tree
    BY <1>4
  <2> HIDE DEF tree
  <2>5. ASSUME Owed => Owed' PROVE Agrees(Tail(p), m, tree, Owed')
    <3>1. CASE Is(p, 1, "public", "signer")
      <4>1. Is(Tail(p), 1, "private", "signer")
        BY <2>1, <2>2, <3>1 DEF After
      <4>2. m.pool.path = m.cfg.path
        BY <1>2, <1>4, <1>6, <1>8 DEF Agrees
      <4> QED
        BY <1>4, <4>1, <4>2 DEF Agrees, Is
    <3>2. CASE Is(p, 1, "public", "node")
      <4>1. Is(Tail(p), 1, "private", "node")
        BY <2>1, <2>2, <3>2 DEF After
      <4>2. m.pool.path = m.cfg.path /\ Complete(tree) /\ (Owed \/ l.signer = tree)
        BY <1>2, <1>4, <1>6, <1>8, <3>2 DEF Agrees
      <4> QED
        BY <1>4, <2>5, <4>1, <4>2 DEF Agrees, Is, Complete
    <3> QED
      BY <2>3, <3>1, <3>2
  <2> QED
    BY <1>1, <1>2, <1>4, <1>5, <1>8, <2>4, <2>5, Locked, InsideStep
<1> QED
  BY <1>7, <1>8

(***************************************************************************)
(* What follows a cut that ends outside of get_node's section is outside.  *)
(***************************************************************************)
LEMMA Outside ==
    ASSUME NEW p \in Seq(StepRec), Flow(p), NEW q, NEW n \in 1..Len(p), Rest(q, p, n),
           ~ Inside(p, n), p[n].op \notin {"slow", "newConfig"}, q # <<>>
    PROVE  ~ Inside(q, 1) /\ q[1].op # "dropPool"
<1>1. 1 \in 1..Len(q) /\ 1 + n \in 1..Len(p) /\ 1 + n > 1 /\ (1 + n) - 1 = n /\ q[1] = p[1 + n]
  <2>1. q \in Seq(StepRec) /\ Len(q) \in Nat /\ Len(q) = Len(p) - n /\ Len(p) \in Nat
    BY DEF Rest
  <2>2. 1 \in 1..Len(q)
    BY <2>1
  <2> QED
    BY <2>1, <2>2 DEF Rest
<1>2. Inside(q, 1) <=> Inside(p, 1 + n)
  BY <1>1, RestSteps
<1>3. Before(p, 1 + n)
  BY <1>1 DEF Flow
<1> QED
  BY <1>1, <1>2, <1>3 DEF Before

(***************************************************************************)
(* A cut outside of all sections.                                          *)
(***************************************************************************)
LEMMA SkipStep ==
    ASSUME Good, NEW t \in Task, NEW p, p = prog[t], NEW l, l = local[t], p # <<>>,
           NEW q, NEW n \in 1..Len(p), Rest(q, p, n), NEW m, Continue(t, q, m), Cut(p, l, n, m),
           ~ Inside(p, n), p[n].op \notin {"slow", "newConfig"}, lock # t,
           Owes(p, l) => \A i \in 1..n : p[i].op # "dropNode",
           ident' = ident, slot' = slot, lock' = lock, Typed
    PROVE  Good'
<1>1. Sound(p, l) /\ p \in Seq(StepRec) /\ Flow(p)
  BY DEF Good, Sound
<1>2. m.op = l.op /\ m.failed = l.failed /\ p[1].op # "clearPrivate"
  BY DEF Cut
<1>3. Sound(q, Left(q, m))
  <2>1. CASE q = <<>>
    BY <2>1, IdleSound DEF Left
  <2>2. CASE q # <<>>
    <3>1. Sound(q, m)
      BY <1>1, <2>2, SoundRest
    <3> QED
      BY <2>2, <3>1 DEF Left
  <2> QED
    BY <2>1, <2>2
<1>4. ASSUME Owes(p, l) PROVE Owes(q, Left(q, m))
  <2>1. q # <<>> /\ Owes(q, m)
    BY <1>1, <1>2, <1>4, OwesRest
  <2> QED
    BY <2>1 DEF Left
<1>5. q # <<>> => ~ Inside(q, 1) /\ q[1].op # "dropPool"
  BY <1>1, Outside
<1> DEFINE k == Left(q, m)
<1>6. prog' = [prog EXCEPT ![t] = q] /\ local' = [local EXCEPT ![t] = k]
  BY DEF Continue, Left
<1>7. Sound(q, k) /\ (Owes(prog[t], local[t]) => Owes(q, k))
  BY <1>3, <1>4
<1> HIDE DEF k
<1>8. Goes(t, q, k)
  <2>1. Held(q, lock' = t)
    BY <1>5 DEF Held
  <2> QED
    BY <1>6, <1>7, <2>1 DEF Goes
<1>9. Agrees(q, k, ident[k.pool.path], Owed')
  BY <1>5 DEF Agrees
<1> QED
  BY <1>7, <1>8, <1>9, Keeping

\* What a task reads, and goes on with.
Seen(t) == [local[t].read EXCEPT !.priv = ident[local[t].pool.path].priv]
With(t) == [local[t] EXCEPT !.read = Seen(t)]

(***************************************************************************)
(* The private key is read: what the task reads.                           *)
(***************************************************************************)
LEMMA SeenTypes ==
    ASSUME Good, NEW t \in Task, LoadPrivate(t)
    PROVE  /\ At(t, "private") /\ Typed /\ ident' = ident /\ slot' = slot
           /\ prog[t][1].use \in Uses /\ Use(prog[t][1]) = prog[t][1].use
           /\ lock' = IF prog[t][1].use = "signer" /\ ~ Complete(Seen(t)) THEN Free ELSE lock
           /\ Seen(t) \in Pair /\ With(t) \in LocalRec
           /\ Seen(t).priv = ident[local[t].pool.path].priv /\ Seen(t).pub = local[t].read.pub
           /\ With(t) = [local[t] EXCEPT !.read = Seen(t)]
           /\ With(t).op = local[t].op /\ With(t).failed = local[t].failed
           /\ With(t).keep = local[t].keep /\ With(t).new = local[t].new
           /\ With(t).pool = local[t].pool /\ With(t).cfg = local[t].cfg
           /\ With(t).signer = local[t].signer /\ With(t).read = Seen(t)
<1> DEFINE l == local[t]
           p == prog[t]
<1>1. /\ At(t, "private")
      /\ lock' = IF Head(p).use = "signer" /\ ~ Complete(Seen(t)) THEN Free ELSE lock
      /\ config' = config /\ slot' = slot /\ pool' = pool /\ pools' = pools
      /\ ident' = ident /\ disk' = disk
  BY DEF LoadPrivate, diskVars, Seen
<1>2. /\ p[1] = Head(p) /\ p[1] \in StepRec /\ p[1].op = "private"
      /\ l \in LocalRec /\ l.pool \in Pool
  BY <1>1, Ready DEF NeedsPool
<1>3. p[1].use \in Uses /\ Use(p[1]) = p[1].use
  BY <1>2, StepTypes
<1>4. Typed
  BY <1>1, Untouched DEF Typed
<1>5. ident[l.pool.path] \in Pair /\ l.read \in Pair
  BY <1>2 DEF Good, Types, Pool, LocalRec
<1>6. /\ Seen(t) \in Pair /\ Seen(t).priv = ident[l.pool.path].priv /\ Seen(t).pub = l.read.pub
  BY <1>5 DEF Seen, Pair
<1>7. \E x : x = Seen(t) /\ x \in Pair
  BY <1>6
<1>8. /\ With(t) \in LocalRec
      /\ With(t).op = l.op /\ With(t).failed = l.failed
      /\ With(t).keep = l.keep /\ With(t).new = l.new
      /\ With(t).pool = l.pool /\ With(t).cfg = l.cfg
      /\ With(t).signer = l.signer /\ With(t).read = Seen(t)
  BY <1>2, <1>6 DEF LocalRec, With
<1> QED
  BY <1>1, <1>2, <1>3, <1>4, <1>6, <1>8 DEF With

(***************************************************************************)
(* And what it does with it.                                               *)
(***************************************************************************)
LEMMA SeenCases ==
    ASSUME NEW t \in Task, LoadPrivate(t), NEW use, use = Head(prog[t]).use,
           NEW x, x = Seen(t), NEW l, l = With(t)
    PROVE  /\ use = "any" => Advance(t, l)
           /\ use = "need" /\ ~ Complete(x) => Abort(t)
           /\ use = "try" /\ ~ Complete(x) => Continue(t, AfterNode(t), l)
           /\ use \in {"need", "try"} /\ Complete(x) => Advance(t, l)
           /\ use = "prior" => Advance(t, [l EXCEPT !.prior = x, !.keep = l.pool])
           /\ use = "mint" /\ ~ Complete(x) => \E i \in Fresh : Advance(t, [l EXCEPT !.new = Whole(i)])
           /\ use = "mint" /\ Complete(x) => Continue(t, SubSeq(prog[t], 4, Len(prog[t])),
                                                      [l EXCEPT !.new = x, !.keep = l.pool])
           /\ use = "signer" /\ ~ Complete(x) => LeaveGetNode(t)
           /\ use = "signer" /\ Complete(x) => Advance(t, [l EXCEPT !.signer = x])
           /\ use = "node" /\ Complete(x) => Advance(t, l)
<1>1. /\ x = [local[t].read EXCEPT !.priv = ident[local[t].pool.path].priv]
      /\ l = [local[t] EXCEPT !.read = x]
  BY DEF Seen, With
<1>2. CASE use = "any"
  BY <1>1, <1>2 DEF LoadPrivate
<1>3. CASE use = "need"
  BY <1>1, <1>3 DEF LoadPrivate
<1>4. CASE use = "try"
  BY <1>1, <1>4 DEF LoadPrivate
<1>5. CASE use = "prior"
  BY <1>1, <1>5 DEF LoadPrivate
<1>6. CASE use = "mint"
  BY <1>1, <1>6 DEF LoadPrivate
<1>7. CASE use = "signer"
  BY <1>1, <1>7 DEF LoadPrivate
<1>8. CASE use = "node"
  BY <1>1, <1>8 DEF LoadPrivate
<1> QED
  BY <1>2, <1>3, <1>4, <1>5, <1>6, <1>7, <1>8

(***************************************************************************)
(* The private key is read inside of get_node's section.                   *)
(***************************************************************************)
LEMMA InnerStep ==
    ASSUME Good, NEW t \in Task, LoadPrivate(t), prog[t][1].use \in {"signer", "node"}
    PROVE  Good'
<1> DEFINE p == prog[t]
           l == local[t]
           use == p[1].use
           tree == ident[l.pool.path]
<1>1. /\ At(t, "private") /\ Typed /\ ident' = ident /\ slot' = slot
      /\ Use(p[1]) = use
      /\ lock' = IF use = "signer" /\ ~ Complete(Seen(t)) THEN Free ELSE lock
      /\ Seen(t) \in Pair /\ With(t) \in LocalRec
      /\ Seen(t).priv = tree.priv /\ Seen(t).pub = l.read.pub
      /\ With(t).op = l.op /\ With(t).failed = l.failed
      /\ With(t).keep = l.keep /\ With(t).new = l.new
      /\ With(t).pool = l.pool /\ With(t).cfg = l.cfg
      /\ With(t).signer = l.signer /\ With(t).read = Seen(t)
  BY SeenTypes
<1>2. /\ p \in Seq(StepRec) /\ p # <<>> /\ p[1].op = "private" /\ p[1] \in StepRec
      /\ l \in LocalRec /\ Flow(p) /\ 1 \in 1..Len(p) /\ l.pool \in Pool /\ l.pool # NoPool
      /\ Creates(t) /\ p[1] = Head(p) /\ Sound(p, l) /\ ~ l.failed
  BY <1>1, Ready DEF NeedsPool, SaveOps, UndoOps
<1>3. Inside(p, 1) /\ lock = t
  <2>1. Inside(p, 1)
    BY <1>1 DEF Inside
  <2> QED
    BY <1>1, <2>1, Locked
<1>4. tree \in Pair /\ Agrees(p, l, tree, Owed)
  BY <1>2 DEF Good, Types, Pool, Creates
<1>5. After(p, 1) /\ 1 + 1 = 2
  BY <1>2 DEF Flow
<1>6. \A op, u : Is(Tail(p), 1, op, u) <=> Is(p, 2, op, u)
  BY <1>2, <1>3, InsideNext
<1>7. PICK x \in Pair : x = Seen(t)
  BY <1>1
<1>8. PICK r \in LocalRec : r = With(t)
  BY <1>1
<1>9. /\ use = "signer" /\ ~ Complete(x) => LeaveGetNode(t)
      /\ use = "signer" /\ Complete(x) => Advance(t, [r EXCEPT !.signer = x])
      /\ use = "node" /\ Complete(x) => Advance(t, r)
  BY <1>2, <1>7, <1>8, SeenCases
<1>10. /\ x.priv = tree.priv /\ x.pub = l.read.pub
       /\ r.op = l.op /\ r.failed = l.failed /\ r.keep = l.keep /\ r.new = l.new
       /\ r.pool = l.pool /\ r.cfg = l.cfg /\ r.signer = l.signer /\ r.read = x
       /\ lock' = IF use = "signer" /\ ~ Complete(x) THEN Free ELSE lock
  BY <1>1, <1>7, <1>8
<1>11. l.pool.path = l.cfg.path
  BY <1>2, <1>3, <1>4 DEF Agrees
<1> HIDE DEF tree
<1>12. ASSUME x.pub = tree.pub PROVE x = tree
  BY <1>4, <1>10, <1>12 DEF Pair
<1>13. CASE use = "signer" /\ ~ Complete(x)
  <2>1. LeaveGetNode(t) /\ lock' = Free
    BY <1>9, <1>10, <1>13
  <2>2. lock' # t
    BY <2>1, LockAssumption
  <2>3. Entering(p, 1)
    BY <1>3 DEF Entering
  <2>4. CASE l.op = "bootstrap"
    <3>1. Abort(t)
      BY <2>1, <2>4 DEF LeaveGetNode
    <3>2. prog[t][1].op # "savePublic"
      BY <1>2
    <3> QED
      BY <1>1, <1>2, <1>3, <2>1, <2>2, <3>1, <3>2, AbortStep
  <2>5. CASE l.op # "bootstrap"
    <3>1. Continue(t, AfterNode(t), l)
      BY <2>1, <2>5 DEF LeaveGetNode
    <3> QED
      BY <1>1, <1>2, <1>3, <2>1, <2>2, <2>3, <3>1, JumpStep
  <2> QED
    BY <2>4, <2>5
<1>14. CASE use = "signer" /\ Complete(x)
  <2> DEFINE m == [r EXCEPT !.signer = x]
  <2>1. Advance(t, m) /\ lock' = lock
    BY <1>9, <1>10, <1>14
  <2>2. /\ m \in LocalRec /\ m.op = l.op /\ m.failed = l.failed /\ m.keep = l.keep
        /\ m.new = l.new /\ m.pool = l.pool /\ m.cfg = l.cfg /\ m.signer = x
    BY <1>10 DEF LocalRec
  <2> HIDE DEF m
  <2>3. Is(p, 1, "private", "signer")
    BY <1>1, <1>2, <1>14 DEF Is
  <2>4. Is(Tail(p), 1, "public", "node")
    BY <1>5, <1>6, <2>3 DEF After
  <2>5. (l.read.pub # NoKey => tree.pub # NoKey) /\ (Owed \/ l.read.pub = tree.pub)
    BY <1>2, <1>3, <1>4, <2>3 DEF Agrees
  <2>6. Complete(tree)
    BY <1>10, <1>14, <2>5 DEF Complete
  <2>7. Owed \/ x = tree
    BY <1>10, <1>12, <2>5
  <2>8. ASSUME Owed => Owed' PROVE Agrees(Tail(p), m, tree, Owed')
    BY <1>11, <2>2, <2>4, <2>6, <2>7, <2>8 DEF Agrees, Is
  <2>9. ident[m.pool.path] = tree
    BY <2>2 DEF tree
  <2> QED
    BY <1>1, <1>2, <1>3, <2>1, <2>2, <2>8, <2>9, InsideStep
<1>15. CASE use = "node"
  <2>1. Is(p, 1, "private", "node")
    BY <1>1, <1>2, <1>15 DEF Is
  <2>2. /\ Complete(tree) /\ (Owed \/ l.signer = tree)
        /\ l.read.pub # NoKey /\ (Owed \/ l.read.pub = tree.pub)
    BY <1>2, <1>3, <1>4, <2>1 DEF Agrees
  <2>3. Complete(x) /\ (Owed \/ x = tree)
    BY <1>10, <1>12, <2>2 DEF Complete
  <2>4. Advance(t, r) /\ lock' = lock
    BY <1>9, <1>10, <1>15, <2>3
  <2>5. Is(Tail(p), 1, "build", "none")
    BY <1>5, <1>6, <2>1 DEF After
  <2>6. ASSUME Owed => Owed' PROVE Agrees(Tail(p), r, tree, Owed')
    BY <1>10, <1>11, <2>2, <2>3, <2>5, <2>6 DEF Agrees, Is
  <2>7. ident[r.pool.path] = tree
    BY <1>10 DEF tree
  <2> QED
    BY <1>1, <1>2, <1>3, <1>10, <2>4, <2>6, <2>7, InsideStep
<1> QED
  BY <1>13, <1>14, <1>15

(***************************************************************************)
(* The private key is read outside of it.                                  *)
(***************************************************************************)
LEMMA OuterStep ==
    ASSUME Good, NEW t \in Task, LoadPrivate(t), prog[t][1].use \notin {"signer", "node"}
    PROVE  Good'
<1> DEFINE p == prog[t]
           l == local[t]
           use == p[1].use
<1>1. /\ At(t, "private") /\ Typed /\ ident' = ident /\ slot' = slot
      /\ use \in Uses /\ Use(p[1]) = use /\ lock' = lock
      /\ Seen(t) \in Pair /\ With(t) \in LocalRec
      /\ With(t).op = l.op /\ With(t).failed = l.failed
      /\ With(t).keep = l.keep /\ With(t).new = l.new /\ With(t).pool = l.pool
  BY SeenTypes
<1>2. /\ p \in Seq(StepRec) /\ p # <<>> /\ p[1].op = "private" /\ p[1] \in StepRec
      /\ l \in LocalRec /\ Flow(p) /\ 1 \in 1..Len(p) /\ l.pool \in Pool /\ l.pool # NoPool
      /\ p[1] = Head(p) /\ Sound(p, l) /\ ~ l.failed /\ Len(p) \in Nat
  BY <1>1, Ready DEF NeedsPool, SaveOps, UndoOps
<1>3. ~ Inside(p, 1) /\ lock # t
  <2>1. ~ Inside(p, 1)
    BY <1>1, <1>2 DEF Inside
  <2> QED
    BY <1>1, <2>1, Locked
<1>4. NormalAt(p, l.op, 1) /\ After(p, 1) /\ 1 + 1 = 2
  BY <1>2 DEF Flow, Sound, Normal
<1>7. PICK x \in Pair : x = Seen(t)
  BY <1>1
<1>8. PICK r \in LocalRec : r = With(t)
  BY <1>1
<1>9. /\ use = "any" => Advance(t, r)
      /\ use = "need" /\ ~ Complete(x) => Abort(t)
      /\ use = "try" /\ ~ Complete(x) => Continue(t, AfterNode(t), r)
      /\ use \in {"need", "try"} /\ Complete(x) => Advance(t, r)
      /\ use = "prior" => Advance(t, [r EXCEPT !.prior = x, !.keep = r.pool])
      /\ use = "mint" /\ ~ Complete(x) => \E i \in Fresh : Advance(t, [r EXCEPT !.new = Whole(i)])
      /\ use = "mint" /\ Complete(x) => Continue(t, SubSeq(p, 4, Len(p)),
                                                 [r EXCEPT !.new = x, !.keep = r.pool])
  BY <1>2, <1>7, <1>8, SeenCases
<1>10. /\ r.op = l.op /\ r.failed = l.failed /\ r.keep = l.keep /\ r.new = l.new /\ r.pool = l.pool
  BY <1>1, <1>8
<1>11. \A u : Is(p, 1, "private", u) <=> use = u
  BY <1>1, <1>2 DEF Is
<1> HIDE DEF use
<1>12. CASE use = "any" \/ (use \in {"need", "try"} /\ Complete(x))
  <2>1. Advance(t, r) /\ ~ Is(p, 1, "private", "prior") /\ ~ Is(p, 1, "private", "mint")
    BY <1>9, <1>11, <1>12
  <2> QED
    BY <1>1, <1>3, <1>10, <2>1, SimpleStep
<1>13. CASE use = "need" /\ ~ Complete(x)
  <2>1. Abort(t) /\ prog[t][1].op # "savePublic"
    BY <1>2, <1>9, <1>13
  <2> QED
    BY <1>1, <1>2, <1>3, <2>1, AbortStep
<1>14. CASE use = "try" /\ ~ Complete(x)
  <2>1. Continue(t, AfterNode(t), r)
    BY <1>9, <1>14
  <2>2. Entering(p, 1)
    BY <1>1, <1>14 DEF Entering
  <2> QED
    BY <1>1, <1>2, <1>3, <1>10, <2>1, <2>2, JumpStep
<1>15. CASE use = "prior"
  <2> DEFINE m == [r EXCEPT !.prior = x, !.keep = r.pool]
  <2>1. Advance(t, m)
    BY <1>9, <1>15
  <2>2. /\ m \in LocalRec /\ m.op = l.op /\ m.failed = l.failed /\ m.keep = l.pool
        /\ m.new = l.new /\ m.pool = l.pool
    BY <1>10 DEF LocalRec
  <2> HIDE DEF m
  <2>3. l.op = "restore"
    BY <1>4, <1>11, <1>15 DEF NormalAt
  <2>4. \A i \in 1..1 : p[i].op # "pool" /\ ~ Is(p, i, "private", "mint")
    BY <1>2, <1>11, <1>15
  <2>5. Cut(p, l, 1, m)
    BY <1>2, <2>2, <2>3, <2>4 DEF Cut
  <2> QED
    BY <1>1, <1>2, <1>3, <2>1, <2>5, PlainStep
<1>16. CASE use = "mint" /\ ~ Complete(x)
  <2>1. PICK i \in Fresh : Advance(t, [r EXCEPT !.new = Whole(i)])
    BY <1>9, <1>16
  <2> DEFINE m == [r EXCEPT !.new = Whole(i)]
  <2>2. Whole(i) \in Pair /\ Complete(Whole(i))
    BY KeyAssumption DEF Whole, Pair, Key, Complete
  <2>3. /\ m \in LocalRec /\ m.op = l.op /\ m.failed = l.failed /\ m.keep = l.keep
        /\ m.new = Whole(i) /\ m.pool = l.pool
    BY <1>10, <2>2 DEF LocalRec
  <2>4. Advance(t, m)
    BY <2>1
  <2> HIDE DEF m
  <2>5. \A j \in 1..1 : p[j].op # "pool" /\ ~ Is(p, j, "private", "prior")
    BY <1>2, <1>11, <1>16
  <2>6. Cut(p, l, 1, m)
    BY <1>2, <2>2, <2>3, <2>5 DEF Cut
  <2> QED
    BY <1>1, <1>2, <1>3, <2>4, <2>6, PlainStep
<1>17. CASE use = "mint" /\ Complete(x)
  <2> DEFINE m == [r EXCEPT !.new = x, !.keep = r.pool]
             q == SubSeq(p, 4, Len(p))
  <2>1. Continue(t, q, m)
    BY <1>9, <1>17
  <2>2. /\ m \in LocalRec /\ m.op = l.op /\ m.failed = l.failed /\ m.keep = l.pool
        /\ m.new = x /\ m.pool = l.pool
    BY <1>10 DEF LocalRec
  <2>3. l.op = "bootstrap"
    BY <1>4, <1>11, <1>17 DEF NormalAt
  <2>4. 2 \in 1..Len(p) /\ p[2].op = "savePrivate"
    BY <1>4, <1>11, <1>17 DEF After, Is
  <2>5. 3 \in 1..Len(p) /\ p[3].op = "savePublic"
    <3>1. After(p, 2) /\ 2 + 1 = 3
      BY <1>2, <2>4 DEF Flow
    <3> QED
      BY <2>4, <3>1 DEF After, Is
  <2>6. Rest(q, p, 3)
    <3>1. 3 \in 0..Len(p) /\ 3 + 1 = 4
      BY <1>2, <2>5
    <3> QED
      BY <1>2, <3>1, Cuts
  <2> HIDE DEF m, q
  <2>7. Cut(p, l, 3, m)
    BY <1>2, <1>17, <2>2, <2>3, <2>5 DEF Cut
  <2>8. ~ Owes(p, l)
    <3>1. Ahead(p, 0)
      BY <1>2, <2>4 DEF Ahead
    <3> QED
      BY <1>2, <3>1 DEF Owes
  <2>9. ~ Inside(p, 3)
    <3>1. Use(p[3]) = "none"
      BY <2>5 DEF Use
    <3> QED
      BY <2>5, <3>1 DEF Inside
  <2> QED
    BY <1>1, <1>2, <1>3, <2>1, <2>5, <2>6, <2>7, <2>8, <2>9, SkipStep
<1>18. use \in {"any", "need", "try", "prior", "mint"}
  BY <1>1 DEF Uses, use
<1> QED
  BY <1>12, <1>13, <1>14, <1>15, <1>16, <1>17, <1>18

(***************************************************************************)
(* The node is assembled.                                                  *)
(***************************************************************************)
LEMMA BuildStep ==
    ASSUME Good, NEW t \in Task, Build(t)
    PROVE  Good'
<1> DEFINE p == prog[t]
           l == local[t]
           q == Tail(p)
           n == Left(q, l)
           tree == ident[l.pool.path]
<1>1. /\ At(t, "build") /\ Advance(t, l) /\ lock' = Free
      /\ slot' = [cfg |-> l.cfg, signer |-> l.signer, id |-> l.read, pool |-> l.pool]
      /\ config' = config /\ pool' = pool /\ pools' = pools /\ ident' = ident /\ disk' = disk
  BY DEF Build, diskVars
<1>2. /\ p \in Seq(StepRec) /\ p # <<>> /\ p[1].op = "build" /\ p[1] \in StepRec
      /\ l \in LocalRec /\ Flow(p) /\ 1 \in 1..Len(p) /\ l.pool \in Pool
      /\ Creates(t) /\ Sound(p, l)
  BY <1>1, Ready DEF NeedsPool
<1>3. Inside(p, 1) /\ lock = t
  <2>1. Inside(p, 1)
    BY <1>2 DEF Inside
  <2> QED
    BY <1>1, <2>1, Locked
<1>4. Agrees(p, l, tree, Owed)
  BY <1>2 DEF Creates
<1>5. l.pool.path = l.cfg.path /\ (Owed \/ l.signer = tree) /\ (Owed \/ l.read = tree)
  BY <1>2, <1>3, <1>4 DEF Agrees
<1>6. Owed \/ (slot'.signer = slot'.id /\ slot'.id = ident[slot'.cfg.path])
  BY <1>1, <1>5
<1>7. Typed
  <2>1. slot' \in SlotRec
    BY <1>1, <1>2 DEF SlotRec, LocalRec
  <2> QED
    BY <1>1, <2>1, Untouched DEF Typed
<1>8. Cut(p, l, 1, l)
  BY <1>2, CutOne DEF Is
<1>9. /\ Sound(q, n) /\ (Owes(p, l) => Owes(q, n))
      /\ ~ (q # <<>> /\ Inside(q, 1)) /\ ~ (q # <<>> /\ q[1].op = "dropPool")
  BY <1>2, <1>8, TailSound
<1>10. prog' = [prog EXCEPT ![t] = q] /\ local' = [local EXCEPT ![t] = n]
  BY <1>1 DEF Advance, Continue, Left
<1> HIDE DEF q, n, tree
<1>11. Goes(t, q, n)
  <2>1. Held(q, lock' = t)
    BY <1>1, <1>9, LockAssumption DEF Held
  <2> QED
    BY <1>1, <1>3, <1>9, <1>10, <2>1 DEF Goes
<1> QED
  BY <1>1, <1>3, <1>6, <1>7, <1>9, <1>11, Built

(***************************************************************************)
(* A key is written.                                                       *)
(***************************************************************************)
LEMMA WriteStep ==
    ASSUME Good, NEW t \in Task, NEW op \in SaveOps, At(t, op),
           NEW m, m = local[t] \/ (local[t].op = "bootstrap"
                                   /\ m = [local[t] EXCEPT !.keep = local[t].pool]),
           op = "savePublic" /\ local[t].op = "bootstrap" => m.keep = local[t].pool,
           Advance(t, m), slot' = slot, lock' = lock, config' = config, pool' = pool,
           pools' = pools, disk' = disk,
           \/ ident' = [ident EXCEPT ![local[t].pool.path].priv = local[t].new.priv]
           \/ ident' = [ident EXCEPT ![local[t].pool.path].pub = local[t].new.pub]
    PROVE  Good'
<1> DEFINE p == prog[t]
           l == local[t]
           q == Tail(p)
<1>1. /\ p \in Seq(StepRec) /\ p # <<>> /\ p[1].op = op /\ p[1] \in StepRec
      /\ l \in LocalRec /\ Flow(p) /\ 1 \in 1..Len(p) /\ l.pool \in Pool /\ l.pool # NoPool
      /\ Sound(p, l) /\ Len(p) \in Nat /\ Kept(p, l)
  BY Ready DEF NeedsPool, SaveOps, Sound
<1>2. ~ Inside(p, 1) /\ lock # t
  <2>1. ~ Inside(p, 1)
    BY <1>1 DEF Inside, Use, SaveOps
  <2> QED
    BY <2>1, Locked DEF SaveOps
<1>3. Complete(l.new) /\ l.new \in Pair
  <2>1. \A i \in 1..Len(p) : ~ (i < 1)
    BY <1>1
  <2> QED
    BY <1>1, <2>1 DEF Sound, Chosen, LocalRec
<1>4. l.op \in {"restore", "bootstrap"}
  <2>1. CASE l.failed
    BY <1>1, <2>1 DEF Sound, Undo
  <2>2. CASE ~ l.failed
    BY <1>1, <2>2 DEF Sound, Normal, NormalAt
  <2> QED
    BY <2>1, <2>2
<1>5. ASSUME l.op = "restore", op = "savePublic" PROVE l.keep # NoPool
  <2> SUFFICES ASSUME l.keep = NoPool PROVE FALSE
    OBVIOUS
  <2>1. ~ l.failed
    BY <1>1 DEF Kept
  <2>2. PICK j \in 1..Len(p) : Is(p, j, "private", "prior")
    BY <1>1, <1>5 DEF Kept
  <2>3. Ahead(p, j) /\ ~ Ahead(p, 1)
    BY <1>1, <1>5, <2>1, <2>2 DEF Sound, Normal, NormalAt, SaveOps
  <2> QED
    BY <2>3 DEF Ahead
<1>6. /\ m \in LocalRec /\ m.op = l.op /\ m.failed = l.failed /\ m.new = l.new /\ m.pool = l.pool
      /\ m.keep = l.keep \/ (l.op = "bootstrap" /\ m.keep = l.pool)
      /\ op = "savePublic" => m.keep # NoPool
  BY <1>1, <1>4, <1>5 DEF LocalRec
<1>7. Cut(p, l, 1, m)
  <2>1. \A i \in 1..1 : ~ Is(p, i, "private", "prior") /\ p[i].op # "clearPrivate"
    BY <1>1 DEF Is, SaveOps
  <2>2. op = "savePrivate" \/ op = "savePublic"
    BY DEF SaveOps
  <2> QED
    BY <1>1, <1>3, <1>4, <1>6, <2>1, <2>2 DEF Cut
<1>8. Sound(q, Left(q, m)) /\ (q # <<>> => ~ Inside(q, 1) /\ q[1].op # "dropPool")
  BY <1>1, <1>2, <1>7, TailSound DEF SaveOps
<1>9. q # <<>> /\ Owes(q, m)
  BY <1>1, <1>6, SaveOwes
<1>10. Left(q, m) = m
  BY <1>9 DEF Left
<1>11. prog' = [prog EXCEPT ![t] = q] /\ local' = [local EXCEPT ![t] = m]
  BY <1>9 DEF Advance, Continue
<1> HIDE DEF q
<1>12. Goes(t, q, m)
  <2>1. Held(q, lock' = t)
    BY <1>2, <1>8, <1>9 DEF Held
  <2> QED
    BY <1>8, <1>10, <1>11, <2>1 DEF Goes
<1>13. l.pool.path \in Path /\ ident \in [Path -> Pair]
  BY <1>1 DEF Pool, Good, Types
<1>14. ident' \in [Path -> Pair]
  BY <1>3, <1>13 DEF Pair
<1>15. Typed
  BY <1>14, Untouched DEF Typed
<1>16. ASSUME NEW path \in Path
       PROVE  /\ ident[path].pub # NoKey => ident'[path].pub # NoKey
              /\ ident[path].priv # NoKey => ident'[path].priv # NoKey
  BY <1>3, <1>13 DEF Complete, Pair
<1> QED
  BY <1>8, <1>9, <1>12, <1>15, <1>16, Writing

(***************************************************************************)
(* The two keys.                                                           *)
(***************************************************************************)
LEMMA SaveStep ==
    ASSUME Good, NEW t \in Task, SavePrivate(t) \/ SavePublic(t)
    PROVE  Good'
<1> DEFINE l == local[t]
<1>1. CASE SavePrivate(t)
  <2>1. /\ At(t, "savePrivate") /\ Advance(t, l)
        /\ ident' = [ident EXCEPT ![l.pool.path].priv = l.new.priv]
        /\ config' = config /\ slot' = slot /\ lock' = lock /\ pool' = pool /\ pools' = pools
        /\ disk' = disk
    BY <1>1 DEF SavePrivate, memVars
  <2>2. "savePrivate" \in SaveOps
    BY DEF SaveOps
  <2> QED
    BY <2>1, <2>2, WriteStep
<1>2. CASE SavePublic(t)
  <2> DEFINE m == [l EXCEPT !.keep = IF l.op = "bootstrap" /\ lock # t THEN l.pool ELSE l.keep]
  <2>1. /\ At(t, "savePublic") /\ Advance(t, m)
        /\ ident' = [ident EXCEPT ![l.pool.path].pub = l.new.pub]
        /\ config' = config /\ slot' = slot /\ lock' = lock /\ pool' = pool /\ pools' = pools
        /\ disk' = disk
    BY <1>2 DEF SavePublic, memVars
  <2>2. "savePublic" \in SaveOps
    BY DEF SaveOps
  <2>3. l \in LocalRec /\ prog[t][1].op = "savePublic"
    BY <2>1, Ready
  <2>4. lock # t
    <3>1. ~ Inside(prog[t], 1)
      BY <2>3 DEF Inside, Use
    <3> QED
      BY <2>1, <3>1, Locked
  <2>5. CASE l.op = "bootstrap"
    <3>1. m = [l EXCEPT !.keep = l.pool] /\ m.keep = l.pool
      BY <2>3, <2>4, <2>5 DEF LocalRec
    <3> HIDE DEF m
    <3> QED
      BY <2>1, <2>2, <2>5, <3>1, WriteStep
  <2>6. CASE l.op # "bootstrap"
    <3>1. m = l
      BY <2>3, <2>6 DEF LocalRec
    <3> HIDE DEF m
    <3>2. Advance(t, l)
      BY <2>1, <3>1
    <3> QED
      BY <2>1, <2>2, <2>6, <3>2, WriteStep
  <2> QED
    BY <2>5, <2>6
<1> QED
  BY <1>1, <1>2

(***************************************************************************)
(* update_config writes the configuration, and drops the pool.             *)
(***************************************************************************)
LEMMA UpdateStep ==
    ASSUME Good, NEW t \in Task, NEW op \in {"newConfig", "dropPool"}, At(t, op),
           NEW m \in LocalRec, Advance(t, m), m.op = local[t].op, m.failed = local[t].failed,
           m.keep = local[t].keep, m.new = local[t].new, m.pool = local[t].pool,
           ident' = ident, slot' = slot, lock' = t, lock \in {t, Free}, Typed
    PROVE  Good'
<1> DEFINE p == prog[t]
           l == local[t]
           q == Tail(p)
           n == Left(q, m)
<1>1. /\ p \in Seq(StepRec) /\ p # <<>> /\ p[1].op = op /\ Flow(p) /\ Sound(p, l)
      /\ p[1] \in StepRec /\ 1 \in 1..Len(p)
  BY Ready
<1>2. Cut(p, l, 1, m)
  BY <1>1, CutOne DEF Is
<1>3. ~ Inside(p, 1)
  BY <1>1 DEF Inside, Use
<1>4. /\ Sound(q, n) /\ (Owes(p, l) => Owes(q, n)) /\ (q # <<>> => ~ Inside(q, 1))
      /\ (q # <<>> => q[1] = p[2])
  <2>1. p[1].op # "dropNode" /\ p[1].op # "slow"
    BY <1>1
  <2>2. /\ Sound(q, Left(q, m)) /\ (Owes(p, l) => Owes(q, Left(q, m)))
        /\ (q # <<>> => q[1] = p[2])
        /\ (q # <<>> /\ Inside(q, 1) => p[1].op = "slow" \/ (Inside(p, 1) /\ p[1].op # "build"))
    <3> HIDE DEF p, l
    <3> QED
      BY ONLY <1>1, <1>2, <2>1, TailSound
  <2> QED
    BY <1>3, <2>1, <2>2
<1>5. Is(p, 2, "dropPool", "none") \/ Is(p, 2, "dropNode", "none")
  <2>1. After(p, 1) /\ 1 + 1 = 2
    BY <1>1 DEF Flow
  <2> QED
    BY <1>1, <2>1 DEF After
<1>6. q # <<>>
  <2>1. q \in Seq(StepRec) /\ Len(q) # 0
    BY <1>1, <1>5, Cuts DEF Rest, Is
  <2> QED
    BY ONLY <2>1, Cuts
<1>7. q[1].op \in {"dropPool", "dropNode"}
  BY <1>4, <1>5, <1>6 DEF Is
<1>8. prog' = [prog EXCEPT ![t] = q] /\ local' = [local EXCEPT ![t] = n]
  BY DEF Advance, Continue, Left
<1> HIDE DEF q, n
<1>9. Goes(t, q, n)
  <2>1. Held(q, lock' = t)
    BY <1>6, <1>7 DEF Held
  <2> QED
    BY <1>4, <1>8, <2>1 DEF Goes
<1>10. Agrees(q, n, ident[n.pool.path], Owed')
  BY <1>4 DEF Agrees
<1>11. Owes(prog[t], local[t]) => Owes(q, n)
  BY <1>4
<1> QED
  BY <1>9, <1>10, <1>11, Keeping

(***************************************************************************)
(* The steps of update_config.                                             *)
(***************************************************************************)
LEMMA NewConfigStep ==
    ASSUME Good, NEW t \in Task, NewConfig(t) \/ DropPool(t) \/ DropNode(t)
    PROVE  Good'
<1> DEFINE l == local[t]
           p == prog[t]
<1>1. CASE NewConfig(t)
  <2> DEFINE c == IF Head(p).which = "pre" THEN l.pre ELSE l.cfg
             m == [l EXCEPT !.cfg = c]
  <2>1. /\ At(t, "newConfig") /\ lock = Free /\ lock' = t /\ config' = c /\ Advance(t, m)
        /\ slot' = slot /\ pool' = pool /\ pools' = pools /\ ident' = ident /\ disk' = disk
    BY <1>1 DEF NewConfig, diskVars
  <2>2. l \in LocalRec
    BY <2>1, Ready
  <2>3. c \in Config
    BY <2>2 DEF LocalRec
  <2> HIDE DEF c
  <2>4. /\ m \in LocalRec /\ m.op = l.op /\ m.failed = l.failed /\ m.keep = l.keep
        /\ m.new = l.new /\ m.pool = l.pool
    BY <2>2, <2>3 DEF LocalRec
  <2>5. Typed
    BY <2>1, <2>3, Untouched DEF Typed
  <2> HIDE DEF m
  <2> QED
    BY <2>1, <2>4, <2>5, UpdateStep
<1>2. CASE DropPool(t)
  <2>1. /\ At(t, "dropPool") /\ Advance(t, l) /\ pool' \in {NoPool, pool}
        /\ config' = config /\ slot' = slot /\ lock' = lock /\ pools' = pools
        /\ ident' = ident /\ disk' = disk
    BY <1>2 DEF DropPool, diskVars
  <2>2. l \in LocalRec /\ lock = t
    BY <2>1, Ready, Locked
  <2>3. Typed
    BY <2>1, Untouched DEF Typed, Good, Types
  <2> QED
    BY <2>1, <2>2, <2>3, UpdateStep
<1>3. CASE DropNode(t)
  <2> DEFINE q == Tail(p)
             n == Left(q, l)
  <2>1. /\ At(t, "dropNode") /\ lock \in {t, Free} /\ slot' = NoNode /\ lock' = Free
        /\ Advance(t, l) /\ config' = config /\ pool' = pool /\ pools' = pools
        /\ ident' = ident /\ disk' = disk
    BY <1>3 DEF DropNode, diskVars
  <2>2. /\ l \in LocalRec /\ p[1].op = "dropNode" /\ Sound(p, l) /\ p # <<>>
    BY <2>1, Ready
  <2>3. Typed
    BY <2>1, Untouched DEF Typed
  <2>4. Cut(p, l, 1, l) /\ ~ Inside(p, 1)
    BY <2>2, CutOne DEF Is, Inside, Use
  <2>5. /\ Sound(q, n)
        /\ ~ (q # <<>> /\ Inside(q, 1)) /\ ~ (q # <<>> /\ q[1].op = "dropPool")
    BY <2>2, <2>4, TailSound
  <2>6. prog' = [prog EXCEPT ![t] = q] /\ local' = [local EXCEPT ![t] = n]
    BY <2>1 DEF Advance, Continue, Left
  <2> HIDE DEF q, n
  <2>7. Goes(t, q, n)
    <3>1. Held(q, lock' = t)
      BY <2>1, <2>5, LockAssumption DEF Held
    <3> QED
      BY <2>1, <2>5, <2>6, <3>1 DEF Goes
  <2> QED
    BY <2>1, <2>3, <2>5, <2>7, Dropping
<1> QED
  BY <1>1, <1>2, <1>3

(***************************************************************************)
(* Files, the card and the marker are written.                             *)
(***************************************************************************)
LEMMA FileStep ==
    ASSUME Good, NEW t \in Task,
           SaveNodeConfig(t) \/ DropConfig(t) \/ SaveCard(t) \/ ClearProfile(t) \/ SetMarker(t)
    PROVE  Good'
<1> DEFINE l == local[t]
           p == prog[t]
<1>1. PICK op \in {"saveConfig", "dropConfig", "card", "clearProfile", "mark", "unmark"} :
          /\ At(t, op) /\ Advance(t, l) /\ disk' \in {disk, l.cfg, NoConfig}
          /\ config' = config /\ slot' = slot /\ lock' = lock /\ pool' = pool /\ pools' = pools
          /\ ident' = ident
  BY DEF SaveNodeConfig, DropConfig, SaveCard, ClearProfile, SetMarker, memVars
<1>2. l \in LocalRec /\ p[1].op = op
  BY <1>1, Ready
<1>3. disk' \in Config \cup {NoConfig}
  BY <1>1, <1>2 DEF LocalRec, Good, Types
<1>4. Typed
  BY <1>1, <1>3, Untouched DEF Typed
<1>5. ~ Inside(p, 1) /\ ~ Is(p, 1, "private", "prior") /\ ~ Is(p, 1, "private", "mint")
  BY <1>1, <1>2 DEF Inside, Use, Is
<1>6. op \notin {"pool", "slow", "newConfig", "dropPool", "dropNode", "clearPrivate", "savePublic"}
  BY <1>1
<1> QED
  BY <1>1, <1>2, <1>4, <1>5, <1>6, SimpleStep

(***************************************************************************)
(* The registration, and the marker.                                       *)
(***************************************************************************)
LEMMA EndingStep ==
    ASSUME Good, NEW t \in Task, Network(t) \/ CheckMarker(t)
    PROVE  Good'
<1> DEFINE l == local[t]
           p == prog[t]
<1>1. PICK op \in {"network", "marked"} :
          /\ At(t, op)
          /\ Advance(t, l) \/ (Continue(t, <<>>, Idle) /\ op = "network" /\ l.op \in {"register", "restore"})
                           \/ (Continue(t, <<>>, l) /\ op = "marked")
          /\ config' = config /\ slot' = slot /\ lock' = lock /\ pool' = pool /\ pools' = pools
          /\ ident' = ident /\ disk' = disk
  BY DEF Network, CheckMarker, memVars, diskVars, Advance
<1>2. /\ l \in LocalRec /\ p[1].op = op /\ p # <<>> /\ Sound(p, l) /\ ~ l.failed /\ 1 \in 1..Len(p)
      /\ Len(p) \in Nat
  BY <1>1, Ready DEF SaveOps, UndoOps
<1>3. Typed
  BY <1>1, Untouched DEF Typed
<1>4. ~ Inside(p, 1) /\ ~ Is(p, 1, "private", "prior") /\ ~ Is(p, 1, "private", "mint")
  BY <1>1, <1>2 DEF Inside, Use, Is
<1>5. lock # t
  BY <1>1, <1>4, Locked
<1>6. CASE Advance(t, l)
  <2>1. op \notin {"pool", "slow", "newConfig", "dropPool", "dropNode", "clearPrivate", "savePublic"}
    BY <1>1
  <2> QED
    BY <1>1, <1>2, <1>3, <1>4, <1>6, <2>1, SimpleStep
<1>7. CASE Continue(t, <<>>, Idle) /\ op = "network" /\ l.op \in {"register", "restore"}
  <2>1. ~ Owes(p, l)
    <3>1. l.op = "restore" => ~ Drops(p, l.op, 0)
      BY <1>2, <1>7 DEF Drops
    <3> QED
      BY <1>2, <1>7, <3>1 DEF Owes
  <2> QED
    BY <1>1, <1>3, <1>5, <1>7, <2>1, EndStep
<1>8. CASE Continue(t, <<>>, l) /\ op = "marked"
  <2>1. ~ Owes(p, l)
    <3>1. Ahead(p, 1)
      BY <1>2, <1>8 DEF Sound, Normal, NormalAt
    <3>2. Ahead(p, 0)
      BY <3>1 DEF Ahead
    <3> QED
      BY <1>2, <3>2 DEF Owes
  <2> QED
    BY <1>1, <1>3, <1>5, <1>8, <2>1, EndStep
<1> QED
  BY <1>1, <1>6, <1>7, <1>8

\* The error of a write that undoes something is only logged; so is that of
\* an attempt to load an identity.
Ignored(t) ==
    LET s == Head(prog[t]) IN
    IF s.op \in {"savePrivate", "savePublic"} THEN s.undo ELSE s.op = "clearPrivate"
Tried(t) == Head(prog[t]).op = "public" /\ Head(prog[t]).use = "try"

(***************************************************************************)
(* What becomes of a task one of whose steps fails.                        *)
(***************************************************************************)
LEMMA FailCases ==
    ASSUME NEW t \in Task, Fail(t), NEW s, s = Head(prog[t])
    PROVE  /\ \E op \in {"public", "savePrivate", "savePublic", "clearPrivate", "build",
                         "saveConfig", "network", "card", "mark"} : At(t, op)
           /\ Ignored(t) => Continue(t, SubSeq(prog[t], IF s.op = "savePublic" THEN 2 ELSE 3,
                                               Len(prog[t])), local[t])
           /\ ~ Ignored(t) /\ lock = t => LeaveGetNode(t)
           /\ ~ Ignored(t) /\ lock # t /\ Tried(t) => Continue(t, AfterNode(t), local[t])
           /\ ~ Ignored(t) /\ lock # t /\ ~ Tried(t) => Abort(t)
           /\ lock' = IF lock = t /\ ~ Ignored(t) THEN Free ELSE lock
           /\ hist' = [hist EXCEPT !.clean = hist.clean /\ ~ Ignored(t),
                           !.wiped = hist.wiped \/ s.op = "clearPrivate"
                                     \/ (s.op = "savePublic" /\ local[t].keep = NoPool)]
           /\ config' = config /\ slot' = slot /\ pool' = pool /\ pools' = pools
           /\ ident' = ident /\ disk' = disk
<1>1. ~ (Ignored(t) /\ Tried(t))
  BY DEF Ignored, Tried
<1>2. CASE Ignored(t)
  BY <1>1, <1>2 DEF Fail, diskVars, Ignored, Tried
<1>3. CASE ~ Ignored(t)
  BY <1>3 DEF Fail, diskVars, Ignored, Tried
<1> QED
  BY <1>2, <1>3

(***************************************************************************)
(* A step fails.                                                           *)
(***************************************************************************)
LEMMA FailStep ==
    ASSUME Good, HistOK, NEW t \in Task, Fail(t)
    PROVE  HistOK' /\ (Good' \/ hist'.wiped)
<1> DEFINE l == local[t]
           p == prog[t]
           s == Head(p)
           wipe == s.op = "clearPrivate" \/ (s.op = "savePublic" /\ l.keep = NoPool)
<1>1. PICK op \in {"public", "savePrivate", "savePublic", "clearPrivate", "build",
                   "saveConfig", "network", "card", "mark"} : At(t, op)
  BY DEF Fail
<1>2. /\ Ignored(t) => Continue(t, SubSeq(p, IF s.op = "savePublic" THEN 2 ELSE 3, Len(p)), l)
      /\ ~ Ignored(t) /\ lock = t => LeaveGetNode(t)
      /\ ~ Ignored(t) /\ lock # t /\ Tried(t) => Continue(t, AfterNode(t), l)
      /\ ~ Ignored(t) /\ lock # t /\ ~ Tried(t) => Abort(t)
      /\ lock' = IF lock = t /\ ~ Ignored(t) THEN Free ELSE lock
      /\ hist' = [hist EXCEPT !.clean = hist.clean /\ ~ Ignored(t), !.wiped = hist.wiped \/ wipe]
      /\ config' = config /\ slot' = slot /\ pool' = pool /\ pools' = pools
      /\ ident' = ident /\ disk' = disk
  BY FailCases
<1>3. /\ p \in Seq(StepRec) /\ p # <<>> /\ p[1].op = op /\ p[1] \in StepRec /\ p[1] = s
      /\ l \in LocalRec /\ Flow(p) /\ 1 \in 1..Len(p) /\ Len(p) \in Nat
      /\ Sound(p, l) /\ Kept(p, l)
      /\ op \in NeedsPool => l.pool \in Pool /\ l.pool # NoPool
      /\ l.failed => op \in SaveOps \cup UndoOps \cup {"dropNode"}
  BY <1>1, Ready DEF Sound
<1>4. HistOK' /\ (hist'.wiped <=> hist.wiped \/ wipe)
  BY <1>2 DEF HistOK
<1>5. Typed
  BY <1>2, Untouched DEF Typed
<1>6. SUFFICES ASSUME ~ wipe PROVE Good'
  BY <1>4
<1>7. CASE Ignored(t)
  <2> DEFINE n == IF op = "savePublic" THEN 1 ELSE 2
             q == SubSeq(p, n + 1, Len(p))
  <2>1. op \in SaveOps /\ p[1].undo = TRUE
    <3>1. op \in {"savePrivate", "savePublic"}
      BY <1>3, <1>6, <1>7 DEF Ignored
    <3> QED
      BY <1>3, <1>7, <3>1, StepTypes DEF SaveOps, Ignored
  <2>2. l.failed
    <3>1. ASSUME ~ l.failed PROVE FALSE
      <4>1. NormalAt(p, l.op, 1)
        BY <1>3, <3>1 DEF Sound, Normal
      <4> QED
        BY <1>3, <2>1, <4>1 DEF NormalAt
    <3> QED
      BY <3>1
  <2>3. l.op = "restore" /\ Undoing(p) /\ l.keep # NoPool
    BY <1>3, <2>1, <2>2 DEF Sound, Undo, SaveOps, Kept
  <2>4. n \in 1..Len(p) /\ p[n].op \in SaveOps /\ n + 1 = (IF op = "savePublic" THEN 2 ELSE 3)
        /\ \A i \in 1..n : p[i].op \in SaveOps
    <3>1. CASE op = "savePublic"
      BY <1>3, <2>1, <3>1
    <3>2. CASE op = "savePrivate"
      <4>1. After(p, 1) /\ 1 + 1 = 2
        BY <1>3 DEF Flow
      <4>2. 2 \in 1..Len(p) /\ p[2].op = "savePublic"
        BY <1>3, <3>2, <4>1 DEF After, Is
      <4> QED
        BY <1>3, <3>2, <4>2 DEF SaveOps
    <3> QED
      BY <2>1, <3>1, <3>2 DEF SaveOps
  <2>5. Rest(q, p, n)
    <3>1. n \in 0..Len(p)
      BY <1>3, <2>4
    <3> QED
      BY <1>3, <3>1, Cuts
  <2>6. Continue(t, q, l)
    BY <1>2, <1>3, <1>7, <2>4
  <2> HIDE DEF n, q
  <2>7. Complete(l.new)
    <3>1. \A i \in 1..Len(p) : ~ (i < 1)
      BY <1>3
    <3> QED
      BY <1>3, <2>1, <3>1 DEF Sound, Chosen
  <2>8. Cut(p, l, n, l)
    <3>1. l.pool # NoPool
      BY <1>3, <2>1 DEF NeedsPool, SaveOps
    <3> QED
      BY <1>3, <2>1, <2>3, <2>4, <2>7, <3>1 DEF Cut, SaveOps
  <2>9. ~ Inside(p, n) /\ p[n].op \notin {"slow", "newConfig"} /\ \A i \in 1..n : p[i].op # "dropNode"
    BY <2>4 DEF Inside, Use, SaveOps
  <2>10. lock # t
    <3>1. ~ Inside(p, 1)
      BY <1>3, <2>1 DEF Inside, Use, SaveOps
    <3> QED
      BY <1>1, <2>1, <3>1, Locked DEF SaveOps
  <2>11. lock' = lock
    BY <1>2, <1>7
  <2> QED
    BY <1>2, <1>3, <1>5, <2>4, <2>5, <2>6, <2>8, <2>9, <2>10, <2>11, SkipStep
<1>8. CASE ~ Ignored(t)
  <2>1. ~ l.failed
    <3> SUFFICES ASSUME l.failed PROVE FALSE
      OBVIOUS
    <3>1. op \in SaveOps
      BY <1>1, <1>3, <1>6 DEF UndoOps
    <3>2. Undoing(p)
      BY <1>3, <3>1 DEF Sound, Undo, SaveOps
    <3>3. p[1].undo = TRUE
      BY <1>3, <3>1, <3>2 DEF Undoing, UndoOps, SaveOps
    <3> QED
      BY <1>3, <1>8, <3>1, <3>3 DEF SaveOps, Ignored
  <2>2. l.keep = NoPool => prog[t] = <<>> \/ prog[t][1].op # "savePublic"
    BY <1>3, <1>6
  <2>3. lock' # t /\ (lock' = lock \/ {lock, lock'} \subseteq {t, Free})
    BY <1>2, <1>8, LockAssumption
  <2>4. CASE lock = t
    <3>1. LeaveGetNode(t)
      BY <1>2, <1>8, <2>4
    <3>2. Inside(p, 1)
      BY <1>1, <2>4, Locked
    <3>3. CASE l.op = "bootstrap"
      <4>1. Abort(t)
        BY <3>1, <3>3 DEF LeaveGetNode
      <4> QED
        BY <1>2, <1>5, <2>1, <2>2, <2>3, <4>1, AbortStep
    <3>4. CASE l.op # "bootstrap"
      <4>1. Continue(t, AfterNode(t), l)
        BY <3>1, <3>4 DEF LeaveGetNode
      <4>2. l.pool # NoPool
        <5>1. op \in {"public", "build"}
          <6>1. Use(p[1]) # "none" => p[1].op \in {"public", "private"}
            BY <1>3, StepTypes
          <6> QED
            BY <1>1, <1>3, <3>2, <6>1 DEF Inside
        <5> QED
          BY <1>3, <5>1 DEF NeedsPool
      <4>3. Entering(p, 1)
        BY <3>2 DEF Entering
      <4> QED
        BY <1>2, <1>3, <1>5, <2>3, <4>1, <4>2, <4>3, JumpStep
    <3> QED
      BY <3>3, <3>4
  <2>5. CASE lock # t /\ Tried(t)
    <3>1. Continue(t, AfterNode(t), l)
      BY <1>2, <1>8, <2>5
    <3>2. l.pool # NoPool
      BY <1>3, <2>5 DEF NeedsPool, Tried
    <3>3. Entering(p, 1)
      BY <1>3, <2>5 DEF Entering, Use, Tried
    <3> QED
      BY <1>2, <1>3, <1>5, <2>3, <3>1, <3>2, <3>3, JumpStep
  <2>6. CASE lock # t /\ ~ Tried(t)
    <3>1. Abort(t)
      BY <1>2, <1>8, <2>6
    <3> QED
      BY <1>2, <1>5, <2>1, <2>2, <2>3, <3>1, AbortStep
  <2> QED
    BY <2>4, <2>5, <2>6
<1> QED
  BY <1>7, <1>8

(***************************************************************************)
(* A crash.                                                                *)
(***************************************************************************)
LEMMA RestartStep ==
    ASSUME Good, HistOK, Restart
    PROVE  Good' /\ HistOK'
<1>1. /\ config' = IF disk = NoConfig THEN DefaultConfig ELSE disk
      /\ slot' = NoNode /\ lock' = Free /\ pool' = NoPool /\ pools' = 0
      /\ prog' = [t \in Task |-> <<>>] /\ local' = [t \in Task |-> Idle]
      /\ hist' = [hist EXCEPT !.clean = FALSE] /\ ident' = ident /\ disk' = disk
  BY DEF Restart
<1>2. HistOK'
  BY <1>1 DEF HistOK
<1>3. DefaultConfig \in Config
  BY PathAssumption DEF DefaultConfig, Config
<1>4. Types'
  <2>1. <<>> \in Seq(StepRec) /\ Idle \in LocalRec
    BY IdleSound DEF Sound
  <2>2. config' \in Config /\ disk' \in Config \cup {NoConfig} /\ ident' \in [Path -> Pair]
    BY <1>1, <1>3 DEF Good, Types
  <2> QED
    BY <1>1, <2>1, <2>2 DEF Types
<1>5. SlotGood'
  BY <1>1 DEF SlotGood
<1>6. ASSUME NEW t \in Task PROVE Sound(prog[t], local[t])' /\ Held(prog[t], lock = t)' /\ Creates(t)'
  <2>1. prog'[t] = <<>> /\ local'[t] = Idle /\ lock' # t
    BY <1>1, LockAssumption
  <2>2. Sound(<<>>, Idle)
    BY IdleSound
  <2> QED
    BY <2>1, <2>2 DEF Held, Creates, Agrees
<1> QED
  BY <1>2, <1>4, <1>5, <1>6 DEF Good

(***************************************************************************)
(* A process starts.                                                       *)
(***************************************************************************)
LEMMA NodeStart == Init => NodeInv
<1> SUFFICES ASSUME Init PROVE NodeInv
  OBVIOUS
<1>1. /\ config = DefaultConfig /\ slot = NoNode /\ lock = Free /\ pool = NoPool /\ pools = 0
      /\ prog = [t \in Task |-> <<>>] /\ local = [t \in Task |-> Idle]
      /\ hist = [wiped |-> FALSE, clean |-> TRUE, ident |-> ident, config |-> config]
  BY DEF Init
<1>2. DefaultConfig \in Config /\ NoPair \in Pair
  BY PathAssumption DEF DefaultConfig, Config, NoPair, Pair, Key
<1>3. ident \in [Path -> Pair] /\ disk \in Config \cup {NoConfig}
  <2>1. \A i \in Fresh : Whole(i) \in Pair
    BY DEF Whole, Pair, Key
  <2> QED
    BY <1>2, <2>1 DEF Init
<1>4. Types
  <2>1. <<>> \in Seq(StepRec) /\ Idle \in LocalRec
    BY IdleSound DEF Sound
  <2> QED
    BY <1>1, <1>2, <1>3, <2>1 DEF Types
<1>5. SlotGood
  BY <1>1 DEF SlotGood
<1>6. ASSUME NEW t \in Task PROVE Sound(prog[t], local[t]) /\ Held(prog[t], lock = t) /\ Creates(t)
  <2>1. prog[t] = <<>> /\ local[t] = Idle /\ lock # t
    BY <1>1, LockAssumption
  <2>2. Sound(<<>>, Idle)
    BY IdleSound
  <2> QED
    BY <2>1, <2>2 DEF Held, Creates, Agrees
<1>7. HistOK
  BY <1>1 DEF HistOK
<1> QED
  BY <1>4, <1>5, <1>6, <1>7 DEF NodeInv, Good

(***************************************************************************)
(* One step of a task keeps the invariant.                                 *)
(***************************************************************************)
LEMMA TaskInv ==
    ASSUME Good, HistOK, NEW t \in Task, TaskStep(t)
    PROVE  HistOK' /\ (Good' \/ hist'.wiped)
<1>1. CASE Serve(t)
  <2>1. HistOK'
    BY <1>1 DEF Serve, Begin, HistOK
  <2> QED
    BY <1>1, <2>1, ServeStep
<1>2. CASE Fail(t)
  BY <1>2, FailStep
<1>3. CASE ClearPrivate(t)
  BY <1>3 DEF ClearPrivate, HistOK
<1>4. CASE ClearPublic(t)
  <2>1. At(t, "clearPublic")
    BY <1>4 DEF ClearPublic
  <2>2. prog[t] # <<>> /\ prog[t][1].op = "clearPublic" /\ Sound(prog[t], local[t])
    BY <2>1, Ready
  <2> QED
    BY <2>2 DEF Sound
<1>5. CASE GetBaseConfig(t)
  BY <1>5, ConfigStep DEF GetBaseConfig, HistOK
<1>6. CASE GetOrCreatePool(t)
  BY <1>6, PoolStep DEF GetOrCreatePool, HistOK
<1>7. CASE GetNodeFast(t)
  BY <1>7, FastStep DEF GetNodeFast, HistOK
<1>8. CASE GetNodeSlow(t)
  BY <1>8, SlowStep DEF GetNodeSlow, HistOK
<1>9. CASE Build(t)
  BY <1>9, BuildStep DEF Build, HistOK
<1>10. CASE LoadPublic(t)
  BY <1>10, PublicStep DEF LoadPublic, HistOK
<1>11. CASE LoadPrivate(t)
  BY <1>11, InnerStep, OuterStep DEF LoadPrivate, HistOK
<1>12. CASE SavePrivate(t) \/ SavePublic(t)
  BY <1>12, SaveStep DEF SavePrivate, SavePublic, HistOK
<1>13. CASE NewConfig(t) \/ DropPool(t) \/ DropNode(t)
  BY <1>13, NewConfigStep DEF NewConfig, DropPool, DropNode, HistOK
<1>14. CASE SaveNodeConfig(t) \/ DropConfig(t) \/ SaveCard(t) \/ ClearProfile(t) \/ SetMarker(t)
  BY <1>14, FileStep DEF SaveNodeConfig, DropConfig, SaveCard, ClearProfile, SetMarker, HistOK
<1>15. CASE Network(t) \/ CheckMarker(t)
  BY <1>15, EndingStep DEF Network, CheckMarker, HistOK
<1> QED
  BY <1>1, <1>2, <1>3, <1>4, <1>5, <1>6, <1>7, <1>8, <1>9, <1>10, <1>11, <1>12, <1>13, <1>14, <1>15
     DEF TaskStep

(***************************************************************************)
(* Once something was cleared nothing more is claimed.                     *)
(***************************************************************************)
LEMMA StaysWiped ==
    ASSUME HistOK, hist.wiped, [Next]_vars
    PROVE  HistOK' /\ hist'.wiped
<1>1. CASE Restart
  BY <1>1 DEF Restart, HistOK
<1>2. ASSUME NEW t \in Task, TaskStep(t) PROVE HistOK' /\ hist'.wiped
  <2>1. CASE Serve(t)
    BY <2>1 DEF Serve, Begin, HistOK
  <2>2. CASE Fail(t)
    BY <2>2 DEF Fail, HistOK
  <2>3. CASE ClearPrivate(t)
    BY <2>3 DEF ClearPrivate, HistOK
  <2>4. CASE ~ Serve(t) /\ ~ Fail(t) /\ ~ ClearPrivate(t)
    <3>1. hist' = hist
      BY <1>2, <2>4 DEF TaskStep, GetBaseConfig, GetOrCreatePool, GetNodeFast, GetNodeSlow, Build,
            LoadPublic, LoadPrivate, SavePrivate, SavePublic, ClearPublic, SaveCard, ClearProfile,
            NewConfig, DropPool, DropNode, SaveNodeConfig, DropConfig, Network, CheckMarker, SetMarker
    <3> QED
      BY <3>1 DEF HistOK
  <2> QED
    BY <2>1, <2>2, <2>3, <2>4
<1>3. CASE UNCHANGED vars
  BY <1>3 DEF vars, HistOK
<1> QED
  BY <1>1, <1>2, <1>3 DEF Next

(***************************************************************************)
(* NodeInv is kept by every step.                                          *)
(***************************************************************************)
LEMMA NodeStep == NodeInv /\ [Next]_vars => NodeInv'
<1> SUFFICES ASSUME NodeInv, [Next]_vars PROVE NodeInv'
  OBVIOUS
<1>1. CASE hist.wiped
  BY <1>1, StaysWiped DEF NodeInv
<1>2. CASE ~ hist.wiped
  <2>1. Good /\ HistOK
    BY <1>2 DEF NodeInv
  <2>2. CASE Restart
    BY <2>1, <2>2, RestartStep DEF NodeInv
  <2>3. CASE \E t \in Task : TaskStep(t)
    BY <2>1, <2>3, TaskInv DEF NodeInv
  <2>4. CASE UNCHANGED vars
    <3>1. HistOK'
      BY <2>1, <2>4 DEF vars, HistOK
    <3>2. Good'
      <4>1. Types' /\ SlotGood'
        BY <2>1, <2>4 DEF vars, memVars, diskVars, taskVars, Good, Types, SlotGood, Owed
      <4>2. ASSUME NEW t \in Task
            PROVE Sound(prog[t], local[t])' /\ Held(prog[t], lock = t)' /\ Creates(t)'
        <5>1. prog' = prog /\ local' = local /\ lock' = lock /\ ident' = ident
          BY <2>4 DEF vars, memVars, diskVars, taskVars
        <5> QED
          BY <2>1, <5>1 DEF Good, Creates, Owed, Held
      <4> QED
        BY <4>1, <4>2 DEF Good
    <3> QED
      BY <3>1, <3>2 DEF NodeInv
  <2> QED
    BY <2>2, <2>3, <2>4 DEF Next
<1> QED
  BY <1>1, <1>2

(***************************************************************************)
(* Nothing owed: the node is the tree's.                                   *)
(***************************************************************************)
LEMMA NodeMatches == NodeInv => NodeMatchesIdentity
<1> SUFFICES ASSUME NodeInv, ~ hist.wiped, Quiet, slot # NoNode
             PROVE  slot.signer = slot.id /\ slot.id = ident[slot.cfg.path]
  BY DEF NodeMatchesIdentity
<1>1. ~ Owed
  BY DEF Owed, Owes, Quiet
<1> QED
  BY <1>1 DEF NodeInv, Good, SlotGood

(***************************************************************************)
(* NodeMatchesIdentity.                                                    *)
(***************************************************************************)
THEOREM NodeCorrect == Spec => []NodeMatchesIdentity
<1>1. Spec => []NodeInv
  BY NodeStart, NodeStep, PTL DEF Spec
<1> QED
  BY <1>1, NodeMatches, PTL

-----------------------------------------------------------------------------
(* restore_from_phrase, undisturbed                                        *)

First(p, op) == p # <<>> /\ p[1].op = op
Prelude(p)   == First(p, "config") /\ p[1].edit = "pre"

\* The configurations a restore may leave, of those it found.
Near(h) == {h.config, [h.config EXCEPT !.cloud = TRUE]}

\* What the order of restore_from_phrase rests on: the configuration to go back
\* to is the first thing read, the prior identity is read key after key before
\* any configuration is written, and the new one is saved before the network is
\* asked.
Framed(p) ==
    /\ \A j \in 1..Len(p) : p[j].op = "config" =>
           p[j].edit \in {"keep", "pre", "cloud"} /\ (j > 1 => p[j].edit # "pre")
    /\ \A j \in 1..Len(p) : Is(p, j, "private", "prior") =>
           /\ j > 1 => Is(p, j - 1, "public", "prior")
           /\ \A i \in 1..j : p[i].op # "newConfig"
    /\ \A j \in 1..Len(p) : p[j].op = "savePrivate" => \A i \in 1..j : p[i].op # "network"
    /\ \A j \in 1..Len(p) : p[j].op # "marked"

\* A restore that did not fail, its program p still to do: of the trees and the
\* configuration it found (h), those of the tree and conf it has changed.
Noted(p, l, h) ==
    /\ First(p, "config") \/ l.cfg \in Near(h)
    /\ IF Prelude(p) THEN l.keep = NoPool ELSE l.pre = h.config
    /\ l.keep # NoPool => l.keep.path = h.config.path /\ l.prior = h.ident[h.config.path]
    /\ First(p, "private") /\ Is(p, 1, "private", "prior") => l.read.pub = h.ident[h.config.path].pub
    /\ (Ahead(p, 0) \/ First(p, "savePublic")) /\ l.pool # NoPool => l.pool.path = h.config.path
Replaced(p, l, tree, h) ==
    IF Ahead(p, 0) THEN tree = h.ident
    ELSE IF First(p, "savePublic")
    THEN tree = [h.ident EXCEPT ![h.config.path].priv = l.new.priv]
    ELSE tree = [h.ident EXCEPT ![h.config.path] = l.new]
Forward(p, l, tree, conf, h) ==
    /\ Framed(p) /\ Noted(p, l, h) /\ Replaced(p, l, tree, h)
    /\ conf \in Near(h) /\ (l.keep = NoPool => conf = h.config)

\* One that failed, and puts back what it found.
Backward(p, l, tree, conf, h) ==
    /\ l.keep # NoPool /\ l.pool = l.keep /\ l.keep.path = h.config.path
    /\ l.prior = h.ident[h.config.path] /\ l.new = l.prior /\ l.pre = h.config
    /\ \A j \in 1..Len(p) : p[j].op = "newConfig" => p[j].which = "pre"
    /\ (\E j \in 1..Len(p) : p[j].op = "newConfig") \/ conf = h.config
    /\ \A x \in Path : x # h.config.path => tree[x] = h.ident[x]
    /\ First(p, "savePublic") => tree[h.config.path].priv = l.new.priv
    /\ \/ First(p, "savePrivate") \/ First(p, "savePublic") \/ First(p, "clearPrivate")
       \/ tree[h.config.path] = h.ident[h.config.path]

Phase(p, l, tree, conf, h) ==
    IF l.failed THEN Backward(p, l, tree, conf, h) ELSE Forward(p, l, tree, conf, h)

\* A request only asks for the node.
Serving(p) == \A j \in 1..Len(p) : p[j].op \in NodeOps \cup {"build"}
Alone(t) == \A u \in Task \ {t} : local[u].op \in {"none", "request"}

RestoreInv ==
    /\ hist.clean \in BOOLEAN
    /\ ~ hist.wiped =>
       /\ hist.ident \in [Path -> Pair] /\ hist.config \in Config
       /\ \A t \in Task : local[t].op = "request" => Serving(prog[t])
       /\ hist.clean => \A t \in Task : local[t].op = "restore" =>
             Alone(t) /\ Phase(prog[t], local[t], ident, config, hist)

\* The program opens as restore_from_phrase does.
Opens(p) == p \in Seq(StepRec) /\ Framed(p) /\ Prelude(p) /\ Ahead(p, 0)

\* Reads the configuration only as it is, or to turn cloud sync on.
Modest(p) == \A j \in 1..Len(p) : p[j].op = "config" => p[j].edit \in {"keep", "cloud"}

(***************************************************************************)
(* Modest programs one after the other.                                    *)
(***************************************************************************)
LEMMA ModestConcat ==
    ASSUME NEW p \in Seq(StepRec), NEW q \in Seq(StepRec), Modest(p), Modest(q)
    PROVE  p \o q \in Seq(StepRec) /\ Modest(p \o q)
<1> DEFINE r == p \o q
<1>1. /\ r \in Seq(StepRec) /\ \A j \in 1..Len(p) : r[j] = p[j]
      /\ \A j \in 1..Len(r) : j \in 1..Len(p) \/ (j - Len(p) \in 1..Len(q) /\ r[j] = q[j - Len(p)])
  BY Concat
<1> HIDE DEF r
<1>2. Modest(r)
  BY <1>1 DEF Modest
<1> QED
  BY <1>1, <1>2 DEF r

(***************************************************************************)
(* What follows may not read the prior identity or save one.               *)
(***************************************************************************)
LEMMA OpensAppend ==
    ASSUME NEW p, NEW q, Opens(p), Plain(q), Modest(q)
    PROVE  Opens(p \o q)
<1> DEFINE r == p \o q
           n == Len(p)
<1>1. p \in Seq(StepRec) /\ q \in Seq(StepRec)
  BY DEF Opens, Plain
<1>2. /\ r \in Seq(StepRec) /\ Len(r) = n + Len(q) /\ n \in Nat /\ Len(q) \in Nat
      /\ \A j \in 1..n : r[j] = p[j]
      /\ \A j \in 1..Len(r) : j \in 1..n \/ (j - n \in 1..Len(q) /\ r[j] = q[j - n])
  BY <1>1, Concat
<1>3. n > 0 /\ 1 \in 1..n /\ 1 \in 1..Len(r)
  <2>1. PICK j \in 1..n : TRUE
    BY DEF Opens, Ahead
  <2> QED
    BY <1>2, <2>1
<1> HIDE DEF r, n
<1>4. \A j \in 1..n : \A op, use : Is(r, j, op, use) <=> Is(p, j, op, use)
  BY <1>2 DEF Is, n
<1>5. ASSUME NEW j \in 1..Len(r), j \notin 1..n
      PROVE  /\ r[j].op = "config" => r[j].edit \in {"keep", "cloud"}
             /\ ~ Is(r, j, "private", "prior") /\ r[j].op \notin {"savePrivate", "marked"}
  <2>1. j - n \in 1..Len(q) /\ r[j] = q[j - n]
    BY <1>2, <1>5
  <2>2. PlainAt(q, j - n)
    BY <2>1 DEF Plain
  <2> QED
    BY <2>1, <2>2 DEF Modest, PlainAt, Is, SaveOps
<1>6. Framed(r)
  <2>1. ASSUME NEW j \in 1..Len(r), r[j].op = "config"
        PROVE  r[j].edit \in {"keep", "pre", "cloud"} /\ (j > 1 => r[j].edit # "pre")
    <3>1. CASE j \in 1..n
      BY <1>2, <2>1, <3>1 DEF Opens, Framed, n
    <3> QED
      BY <1>5, <2>1, <3>1
  <2>2. ASSUME NEW j \in 1..Len(r), Is(r, j, "private", "prior")
        PROVE  /\ j > 1 => Is(r, j - 1, "public", "prior")
               /\ \A i \in 1..j : r[i].op # "newConfig"
    <3>1. j \in 1..n /\ Is(p, j, "private", "prior")
      BY <1>4, <1>5, <2>2
    <3>2. /\ j > 1 => Is(p, j - 1, "public", "prior")
          /\ \A i \in 1..j : p[i].op # "newConfig"
      BY <3>1 DEF Opens, Framed, n
    <3>3. (j > 1 => j - 1 \in 1..n) /\ \A i \in 1..j : i \in 1..n
      BY <1>2, <3>1
    <3> QED
      BY <1>2, <1>4, <3>2, <3>3
  <2>3. ASSUME NEW j \in 1..Len(r), r[j].op = "savePrivate", NEW i \in 1..j
        PROVE  r[i].op # "network"
    <3>1. j \in 1..n /\ i \in 1..n
      BY <1>2, <1>5, <2>3
    <3> QED
      BY <1>2, <2>3, <3>1 DEF Opens, Framed, n
  <2>4. ASSUME NEW j \in 1..Len(r) PROVE r[j].op # "marked"
    <3>1. CASE j \in 1..n
      BY <1>2, <3>1 DEF Opens, Framed, n
    <3> QED
      BY <1>5, <3>1
  <2> QED
    BY <2>1, <2>2, <2>3, <2>4 DEF Framed
<1>7. Prelude(r)
  <2>1. r # <<>> /\ r[1] = p[1]
    BY <1>2, <1>3
  <2> QED
    BY <2>1 DEF Opens, Prelude, First
<1>8. Ahead(r, 0)
  <2>1. PICK j \in 1..n : p[j].op = "savePrivate"
    BY DEF Opens, Ahead, n
  <2>2. j \in 1..Len(r) /\ j > 0 /\ r[j].op = "savePrivate"
    BY <1>2, <2>1
  <2> QED
    BY <2>2 DEF Ahead
<1> QED
  BY <1>2, <1>6, <1>7, <1>8 DEF Opens, r

(***************************************************************************)
(* The parts of restore_from_phrase that come after the save.              *)
(***************************************************************************)
LEMMA ModestParts ==
    /\ Modest(EnsureDefaultIdentity("try")) /\ Modest(UpdateConfig("pre"))
    /\ Modest(SignedRegister) /\ Modest(EnableCloudSync)
    /\ GetPool \in Seq(StepRec) /\ GetPool[1].edit = "keep"
<1>1. \A edit \in {"keep", "cloud"} : ReadConfig(edit) \in Seq(StepRec) /\ Modest(ReadConfig(edit))
  <2> SUFFICES ASSUME NEW edit \in {"keep", "cloud"}
               PROVE  ReadConfig(edit) \in Seq(StepRec) /\ Modest(ReadConfig(edit))
    OBVIOUS
  <2>1. ReadConfig(edit) \in Seq(StepRec)
    BY Blocks DEF Edit
  <2>2. Len(ReadConfig(edit)) = 1 /\ ReadConfig(edit)[1].edit = edit
    BY DEF ReadConfig
  <2> QED
    BY <2>1, <2>2 DEF Modest
<1>2. \A op \in SimpleOps : Step(op) \in Seq(StepRec) /\ Modest(Step(op))
  BY Blocks DEF Modest, SimpleOps
<1>3. \A use \in Uses : Load(use) \in Seq(StepRec) /\ Modest(Load(use))
  <2> SUFFICES ASSUME NEW use \in Uses PROVE Load(use) \in Seq(StepRec) /\ Modest(Load(use))
    OBVIOUS
  <2>1. /\ Load(use) \in Seq(StepRec) /\ Len(Load(use)) = 2
        /\ Load(use)[1].op = "public" /\ Load(use)[2].op = "private" /\ 1..2 = {1, 2}
    BY Blocks
  <2> QED
    BY <2>1 DEF Modest
<1>4. \A which \in {"edited", "pre"} : UpdateConfig(which) \in Seq(StepRec) /\ Modest(UpdateConfig(which))
  <2> SUFFICES ASSUME NEW which \in {"edited", "pre"}
               PROVE  UpdateConfig(which) \in Seq(StepRec) /\ Modest(UpdateConfig(which))
    OBVIOUS
  <2>1. /\ UpdateConfig(which) \in Seq(StepRec) /\ Len(UpdateConfig(which)) = 3 /\ 1..3 = {1, 2, 3}
        /\ UpdateConfig(which)[1].op = "newConfig" /\ UpdateConfig(which)[2].op = "dropPool"
        /\ UpdateConfig(which)[3].op = "dropNode"
    BY UpdateSteps DEF Named
  <2> QED
    BY <2>1 DEF Modest
<1>5. GetPool \in Seq(StepRec) /\ Modest(GetPool) /\ GetPool[1].edit = "keep"
  <2>1. /\ ReadConfig("keep") \in Seq(StepRec) /\ Step("pool") \in Seq(StepRec)
        /\ Modest(ReadConfig("keep")) /\ Modest(Step("pool"))
    BY <1>1, <1>2 DEF SimpleOps
  <2>2. GetPool \in Seq(StepRec) /\ Modest(GetPool)
    BY <2>1, ModestConcat DEF GetPool
  <2>3. GetPool[1] = ReadConfig("keep")[1]
    <3>1. Len(ReadConfig("keep")) = 1 /\ 1 \in 1..1
      BY DEF ReadConfig
    <3> QED
      BY <2>1, <3>1, Concat DEF GetPool
  <2>4. ReadConfig("keep")[1].edit = "keep"
    BY DEF ReadConfig
  <2> QED
    BY <2>2, <2>3, <2>4
<1>6. GetNode \in Seq(StepRec) /\ Modest(GetNode)
  <2> DEFINE a == Step("fast") \o Step("slow")
             b == Load("signer")
             c == Load("node")
             d == Step("build")
  <2>1. /\ Step("fast") \in Seq(StepRec) /\ Step("slow") \in Seq(StepRec) /\ d \in Seq(StepRec)
        /\ Modest(Step("fast")) /\ Modest(Step("slow")) /\ Modest(d)
    BY <1>2 DEF SimpleOps
  <2>2. b \in Seq(StepRec) /\ c \in Seq(StepRec) /\ Modest(b) /\ Modest(c)
    BY <1>3 DEF Uses
  <2>3. a \in Seq(StepRec) /\ Modest(a)
    BY <2>1, ModestConcat
  <2>4. GetNode = (((a \o GetPool) \o b) \o c) \o d
    BY DEF GetNode
  <2> HIDE DEF a, b, c, d
  <2>5. (a \o GetPool) \in Seq(StepRec) /\ Modest(a \o GetPool)
    BY <1>5, <2>3, ModestConcat
  <2>6. ((a \o GetPool) \o b) \in Seq(StepRec) /\ Modest((a \o GetPool) \o b)
    BY <2>2, <2>5, ModestConcat
  <2>7. (((a \o GetPool) \o b) \o c) \in Seq(StepRec) /\ Modest(((a \o GetPool) \o b) \o c)
    BY <2>2, <2>6, ModestConcat
  <2> QED
    BY <2>1, <2>4, <2>7, ModestConcat
<1>7. \A use \in {"try", "need"} :
         EnsureDefaultIdentity(use) \in Seq(StepRec) /\ Modest(EnsureDefaultIdentity(use))
  <2> SUFFICES ASSUME NEW use \in {"try", "need"}
               PROVE  EnsureDefaultIdentity(use) \in Seq(StepRec) /\ Modest(EnsureDefaultIdentity(use))
    OBVIOUS
  <2>1. Load(use) \in Seq(StepRec) /\ Modest(Load(use))
    BY <1>3 DEF Uses
  <2>2. GetPool \o Load(use) \in Seq(StepRec) /\ Modest(GetPool \o Load(use))
    BY <1>5, <2>1, ModestConcat
  <2> QED
    BY <1>6, <2>2, ModestConcat DEF EnsureDefaultIdentity
<1>8. Modest(SignedRegister)
  <2> DEFINE a == EnsureDefaultIdentity("need") \o GetPool
             b == a \o Load("need")
  <2>1. a \in Seq(StepRec) /\ Modest(a)
    BY <1>5, <1>7, ModestConcat
  <2>2. Load("need") \in Seq(StepRec) /\ Modest(Load("need"))
    BY <1>3 DEF Uses
  <2> HIDE DEF a
  <2>3. b \in Seq(StepRec) /\ Modest(b)
    BY <2>1, <2>2, ModestConcat
  <2>4. Step("network") \in Seq(StepRec) /\ Modest(Step("network"))
    BY <1>2 DEF SimpleOps
  <2>5. SignedRegister = b \o Step("network")
    BY DEF SignedRegister, a, b
  <2> HIDE DEF b
  <2> QED
    BY <2>3, <2>4, <2>5, ModestConcat
<1>9. Modest(EnableCloudSync)
  <2>1. /\ ReadConfig("cloud") \in Seq(StepRec) /\ Modest(ReadConfig("cloud"))
        /\ Step("saveConfig") \in Seq(StepRec) /\ Modest(Step("saveConfig"))
        /\ UpdateConfig("edited") \in Seq(StepRec) /\ Modest(UpdateConfig("edited"))
    BY <1>1, <1>2, <1>4 DEF SimpleOps
  <2>2. ReadConfig("cloud") \o Step("saveConfig") \in Seq(StepRec)
        /\ Modest(ReadConfig("cloud") \o Step("saveConfig"))
    BY <2>1, ModestConcat
  <2> QED
    BY <2>1, <2>2, ModestConcat DEF EnableCloudSync
<1> QED
  BY <1>4, <1>5, <1>7, <1>8, <1>9

(***************************************************************************)
(* restore_from_phrase opens like that.                                    *)
(***************************************************************************)
LEMMA RestoreOpens == Opens(RestoreFromPhrase)
<1> DEFINE r == RestoreStart
           e == EnsureDefaultIdentity("try")
           u == UpdateConfig("pre")
           s == SignedRegister
           c == EnableCloudSync
<1>1. /\ r \in Seq(StepRec) /\ Len(r) = 9 /\ 1..9 = {1, 2, 3, 4, 5, 6, 7, 8, 9}
      /\ r[1].op = "config" /\ r[1].edit = "pre" /\ r[2].op = "config" /\ r[2].edit = "keep"
      /\ Is(r, 4, "public", "prior") /\ Is(r, 5, "private", "prior")
      /\ r[6].op = "config" /\ r[6].edit = "keep" /\ r[8].op = "savePrivate"
      /\ \A j \in {3, 4, 5, 7, 8, 9} : r[j].op # "config"
      /\ \A j \in {1, 2, 3, 4, 6, 7, 8, 9} : ~ Is(r, j, "private", "prior")
      /\ \A j \in 1..9 : r[j].op \notin {"newConfig", "network", "marked"}
  BY RestoreStartSteps, ModestParts DEF Is
<1> HIDE DEF r
<1>2. Framed(r)
  <2>1. \A j \in 1..9 : r[j].op = "config" =>
            r[j].edit \in {"keep", "pre", "cloud"} /\ (j > 1 => r[j].edit # "pre")
    BY <1>1
  <2>2. \A j \in 1..9 : Is(r, j, "private", "prior") =>
            /\ j > 1 => Is(r, j - 1, "public", "prior")
            /\ \A i \in 1..j : r[i].op # "newConfig"
    <3> SUFFICES ASSUME NEW j \in 1..9, Is(r, j, "private", "prior")
                 PROVE  /\ j > 1 => Is(r, j - 1, "public", "prior")
                        /\ \A i \in 1..j : r[i].op # "newConfig"
      OBVIOUS
    <3>1. j = 5 /\ 5 - 1 = 4 /\ \A i \in 1..j : i \in 1..9
      BY <1>1
    <3> QED
      BY <1>1, <3>1
  <2>3. \A j \in 1..9 : \A i \in 1..j : r[i].op # "network"
    BY <1>1
  <2> QED
    BY <1>1, <2>1, <2>2, <2>3 DEF Framed
<1>3. Opens(r)
  <2>1. r \in Seq(StepRec) /\ Len(r) = 9
    BY <1>1
  <2>2. r # <<>> /\ 8 \in 1..Len(r) /\ 8 > 0
    BY ONLY <2>1
  <2> QED
    BY <1>1, <1>2, <2>2 DEF Opens, Prelude, First, Ahead
<1>4. Plain(e) /\ Plain(u) /\ Plain(s) /\ Plain(c)
  BY EasyPrograms, PlainBlocks DEF Easy
<1>5. Modest(e) /\ Modest(u) /\ Modest(s) /\ Modest(c)
  BY ModestParts
<1>6. RestoreFromPhrase = (((r \o e) \o u) \o s) \o c
  BY RestoreParts DEF r
<1> HIDE DEF e, u, s, c
<1>7. Opens(r \o e)
  BY <1>3, <1>4, <1>5, OpensAppend
<1>8. Opens((r \o e) \o u)
  BY <1>4, <1>5, <1>7, OpensAppend
<1>9. Opens(((r \o e) \o u) \o s)
  BY <1>4, <1>5, <1>8, OpensAppend
<1> QED
  BY <1>4, <1>5, <1>6, <1>9, OpensAppend

(***************************************************************************)
(* A request only asks for the node.                                       *)
(***************************************************************************)
LEMMA NodeServes == Serving(GetNode)
<1>1. 1..9 = {1, 2, 3, 4, 5, 6, 7, 8, 9}
  OBVIOUS
<1> QED
  BY <1>1, NodeSteps DEF Serving, NodeOps, Named

\* What a restore that did not fail has noted, once its first step is done.
Recorded(m, conf, h) ==
    /\ m.cfg \in Near(h) /\ m.pre = h.config /\ conf \in Near(h)
    /\ IF m.keep = NoPool THEN conf = h.config
       ELSE m.keep.path = h.config.path /\ m.prior = h.ident[h.config.path]

(***************************************************************************)
(* It has, whenever its next step is not to read a configuration.          *)
(***************************************************************************)
LEMMA ForwardRecorded ==
    ASSUME NEW p, NEW l, NEW tree, NEW conf, NEW h, Forward(p, l, tree, conf, h),
           ~ First(p, "config")
    PROVE  Recorded(l, conf, h)
BY DEF Forward, Noted, Recorded, Prelude

(***************************************************************************)
(* What the rest of a framed program is.                                   *)
(***************************************************************************)
LEMMA FramedRest ==
    ASSUME NEW p \in Seq(StepRec), NEW q, NEW n \in 1..Len(p), Rest(q, p, n), Framed(p)
    PROVE  Framed(q) /\ ~ Prelude(q)
<1>1. /\ q \in Seq(StepRec) /\ n \in Nat /\ n >= 1 /\ Len(p) \in Nat /\ Len(q) \in Nat
      /\ \A j \in 1..Len(q) : j + n \in 1..Len(p) /\ q[j] = p[j + n] /\ j + n > 1
  BY DEF Rest
<1>2. ASSUME NEW j \in 1..Len(q), q[j].op = "config"
      PROVE  q[j].edit \in {"keep", "pre", "cloud"} /\ q[j].edit # "pre"
  BY <1>1, <1>2 DEF Framed
<1>3. ASSUME NEW j \in 1..Len(q), Is(q, j, "private", "prior")
      PROVE  /\ j > 1 => Is(q, j - 1, "public", "prior")
             /\ \A i \in 1..j : q[i].op # "newConfig"
  <2>1. Is(p, j + n, "private", "prior")
    BY <1>3, RestSteps
  <2>2. Is(p, (j + n) - 1, "public", "prior") /\ \A i \in 1..(j + n) : p[i].op # "newConfig"
    BY <1>1, <2>1 DEF Framed
  <2>3. ASSUME j > 1 PROVE Is(q, j - 1, "public", "prior")
    <3>1. j - 1 \in 1..Len(q) /\ (j - 1) + n = (j + n) - 1
      BY <1>1, <2>3
    <3>2. \A i \in 1..Len(q) : Is(q, i, "public", "prior") <=> Is(p, i + n, "public", "prior")
      BY RestSteps
    <3> QED
      BY <2>2, <3>1, <3>2
  <2>4. \A i \in 1..j : i \in 1..Len(q) /\ i + n \in 1..(j + n)
    BY <1>1
  <2> QED
    BY <1>1, <2>2, <2>3, <2>4
<1>4. ASSUME NEW j \in 1..Len(q), q[j].op = "savePrivate", NEW i \in 1..j
      PROVE  q[i].op # "network"
  <2>1. j + n \in 1..Len(p) /\ p[j + n].op = "savePrivate" /\ i \in 1..Len(q) /\ i + n \in 1..(j + n)
    BY <1>1, <1>4
  <2> QED
    BY <1>1, <2>1 DEF Framed
<1>5. Framed(q)
  <2>1. \A j \in 1..Len(q) : q[j].op # "marked"
    BY <1>1 DEF Framed
  <2> QED
    BY <1>2, <1>3, <1>4, <2>1 DEF Framed
<1>6. ~ Prelude(q)
  <2> SUFFICES ASSUME q # <<>>, q[1].op = "config", q[1].edit = "pre" PROVE FALSE
    BY DEF Prelude, First
  <2>1. 1 \in 1..Len(q)
    BY <1>1
  <2> QED
    BY <1>2, <2>1
<1> QED
  BY <1>5, <1>6

(***************************************************************************)
(* Steps that save nothing leave a save ahead or done.                     *)
(***************************************************************************)
LEMMA SaveRest ==
    ASSUME NEW p \in Seq(StepRec), Flow(p), NEW q, NEW n \in 1..Len(p), Rest(q, p, n),
           p[n].op \notin SaveOps, \A i \in 1..n : p[i].op # "savePrivate"
    PROVE  (Ahead(q, 0) <=> Ahead(p, 0)) /\ ~ First(q, "savePublic")
<1>1. /\ q \in Seq(StepRec) /\ n \in Nat /\ n >= 1 /\ Len(p) \in Nat /\ Len(q) \in Nat
      /\ \A j \in 1..Len(q) : j + n \in 1..Len(p) /\ q[j] = p[j + n] /\ j + n > 1
  BY DEF Rest
<1>2. Ahead(q, 0) <=> Ahead(p, n)
  <2>1. Ahead(q, 0) <=> Ahead(p, 0 + n)
    BY AheadRest
  <2> QED
    BY <1>1, <2>1
<1>3. Ahead(p, n) <=> Ahead(p, 0)
  BY <1>1 DEF Ahead
<1>4. ~ First(q, "savePublic")
  <2> SUFFICES ASSUME q # <<>>, q[1].op = "savePublic" PROVE FALSE
    BY DEF First
  <2>1. 1 \in 1..Len(q) /\ 1 + n \in 1..Len(p) /\ 1 + n > 1 /\ (1 + n) - 1 = n
    BY <1>1
  <2>2. Before(p, 1 + n) /\ p[1 + n].op = "savePublic"
    BY <1>1, <2>1 DEF Flow
  <2>3. p[n].op = "savePrivate"
    BY <2>1, <2>2 DEF Before
  <2> QED
    BY <2>3 DEF SaveOps
<1> QED
  BY <1>2, <1>3, <1>4

(***************************************************************************)
(* Steps of a restore that save nothing.                                   *)
(***************************************************************************)
LEMMA ForwardRest ==
    ASSUME NEW p, NEW l, Sound(p, l), NEW tree, NEW conf, NEW h, Forward(p, l, tree, conf, h),
           NEW q, NEW n \in 1..Len(p), Rest(q, p, n), \A i \in 1..n : p[i].op \notin SaveOps,
           NEW m, NEW after, Recorded(m, after, h), m.new = l.new,
           Is(q, 1, "private", "prior") /\ Is(p, n, "public", "prior") =>
               m.read.pub = h.ident[h.config.path].pub,
           Ahead(p, 0) /\ m.pool # NoPool => m.pool.path = h.config.path
    PROVE  Forward(q, m, tree, after, h)
<1>1. p \in Seq(StepRec) /\ Flow(p)
  BY DEF Sound
<1>2. Framed(q) /\ ~ Prelude(q)
  BY <1>1, FramedRest DEF Forward
<1>3. (Ahead(q, 0) <=> Ahead(p, 0)) /\ ~ First(q, "savePublic")
  <2>1. n \in Nat /\ n \in 1..n
    OBVIOUS
  <2> QED
    BY <1>1, <2>1, SaveRest DEF SaveOps
<1>4. ~ First(p, "savePublic")
  <2>1. 1 \in 1..n
    OBVIOUS
  <2> QED
    BY <2>1 DEF First, SaveOps
<1>5. Is(q, 1, "private", "prior") => m.read.pub = h.ident[h.config.path].pub
  <2>1. ASSUME Is(q, 1, "private", "prior") PROVE Is(p, n, "public", "prior")
    <3>1. 1 \in 1..Len(q)
      BY <2>1 DEF Is
    <3>2. Is(p, 1 + n, "private", "prior")
      BY <1>1, <2>1, <3>1, RestSteps
    <3>3. 1 + n \in 1..Len(p) /\ 1 + n > 1 /\ (1 + n) - 1 = n
      BY <3>2 DEF Is
    <3> QED
      BY <3>2, <3>3 DEF Forward, Framed
  <2> QED
    BY <2>1
<1>6. Noted(q, m, h)
  BY <1>2, <1>3, <1>5 DEF Noted, Recorded
<1>7. Replaced(q, m, tree, h)
  BY <1>3, <1>4 DEF Forward, Replaced
<1> QED
  BY <1>2, <1>6, <1>7 DEF Forward, Recorded

\* What was found, as it is kept for the restore to compare with.
Found(h) == h.ident \in [Path -> Pair] /\ h.config \in Config

(***************************************************************************)
(* The new private key is saved.                                           *)
(***************************************************************************)
LEMMA ForwardPrivate ==
    ASSUME NEW p, NEW l, Sound(p, l), ~ l.failed, p # <<>>, p[1].op = "savePrivate",
           l.pool # NoPool, NEW tree, NEW conf, NEW h, Found(h), Forward(p, l, tree, conf, h)
    PROVE  Forward(Tail(p), l, [tree EXCEPT ![l.pool.path].priv = l.new.priv], conf, h)
<1> DEFINE q == Tail(p)
<1>1. p \in Seq(StepRec) /\ Flow(p) /\ Normal(p, l.op)
  BY DEF Sound
<1>2. 1 \in 1..Len(p) /\ Rest(q, p, 1) /\ p[1] \in StepRec
  BY <1>1, Cuts
<1>3. Framed(q) /\ ~ Prelude(q)
  BY <1>1, <1>2, FramedRest DEF Forward
<1>4. ~ Ahead(q, 0)
  <2>1. NormalAt(p, l.op, 1)
    BY <1>1, <1>2 DEF Normal
  <2>2. ~ Ahead(p, 1)
    BY <2>1 DEF NormalAt, SaveOps
  <2>3. Ahead(q, 0) <=> Ahead(p, 0 + 1)
    BY <1>1, <1>2, AheadRest
  <2> QED
    BY <2>2, <2>3
<1>5. First(q, "savePublic") /\ ~ Is(q, 1, "private", "prior")
  <2>1. After(p, 1) /\ 1 + 1 = 2
    BY <1>1, <1>2 DEF Flow
  <2>2. 2 \in 1..Len(p) /\ p[2].op = "savePublic"
    BY <2>1 DEF After, Is
  <2>3. q \in Seq(StepRec) /\ Len(q) = Len(p) - 1 /\ Len(p) \in Nat
    BY <1>2 DEF Rest
  <2>4. 1 \in 1..Len(q)
    BY <2>2, <2>3
  <2>5. q[1] = p[1 + 1]
    BY <1>2, <2>4 DEF Rest
  <2> QED
    BY <2>1, <2>2, <2>3, <2>4, <2>5 DEF First, Is
<1>6. Ahead(p, 0)
  BY <1>2 DEF Ahead
<1> HIDE DEF q
<1>7. l.pool.path = h.config.path /\ tree = h.ident
  BY <1>6 DEF Forward, Noted, Replaced
<1>8. ~ First(p, "config") /\ Recorded(l, conf, h)
  <2>1. ~ First(p, "config")
    BY DEF First
  <2> QED
    BY <2>1, ForwardRecorded
<1>9. Noted(q, l, h)
  BY <1>3, <1>5, <1>7, <1>8 DEF Noted, Recorded
<1>10. Replaced(q, l, [tree EXCEPT ![l.pool.path].priv = l.new.priv], h)
  BY <1>4, <1>5, <1>7 DEF Replaced
<1> QED
  BY <1>3, <1>8, <1>9, <1>10 DEF Forward, Recorded, q

(***************************************************************************)
(* Two keys put into a pair make the identity they are of.                 *)
(***************************************************************************)
LEMMA PairSaved ==
    ASSUME NEW pair \in Pair, NEW new \in Pair, pair.priv = new.priv
    PROVE  [pair EXCEPT !.pub = new.pub] = new
BY DEF Pair

(***************************************************************************)
(* The new public key is saved.                                            *)
(***************************************************************************)
LEMMA ForwardPublic ==
    ASSUME NEW p, NEW l, Sound(p, l), ~ l.failed, p # <<>>, p[1].op = "savePublic",
           l.pool # NoPool, NEW tree, NEW conf, NEW h, Found(h), Forward(p, l, tree, conf, h)
    PROVE  Forward(Tail(p), l, [tree EXCEPT ![l.pool.path].pub = l.new.pub], conf, h)
<1> DEFINE q == Tail(p)
           home == h.config.path
           saved == [tree EXCEPT ![l.pool.path].pub = l.new.pub]
<1>1. p \in Seq(StepRec) /\ Flow(p) /\ Normal(p, l.op) /\ l \in LocalRec
  BY DEF Sound
<1>2. 1 \in 1..Len(p) /\ Rest(q, p, 1) /\ p[1] \in StepRec
  BY <1>1, Cuts
<1>3. Framed(q) /\ ~ Prelude(q)
  BY <1>1, <1>2, FramedRest DEF Forward
<1>4. ~ Ahead(p, 0) /\ ~ Ahead(q, 0)
  <2>1. NormalAt(p, l.op, 1)
    BY <1>1, <1>2 DEF Normal
  <2>2. ~ Ahead(p, 1)
    BY <2>1 DEF NormalAt, SaveOps
  <2>3. Ahead(q, 0) <=> Ahead(p, 0 + 1)
    BY <1>1, <1>2, AheadRest
  <2>4. \A j \in 1..Len(p) : j > 0 /\ p[j].op = "savePrivate" => j > 1
    BY <1>1
  <2> QED
    BY <2>2, <2>3, <2>4 DEF Ahead
<1>5. ~ First(q, "savePublic") /\ ~ Is(q, 1, "private", "prior")
  <2>1. q \in Seq(StepRec) /\ Len(q) = Len(p) - 1 /\ Len(p) \in Nat /\ Len(q) \in Nat
    BY <1>2 DEF Rest
  <2>2. ASSUME q # <<>>, q[1].op = "savePublic" PROVE FALSE
    <3>1. 1 \in 1..Len(q) /\ 1 + 1 \in 1..Len(p) /\ 1 + 1 > 1 /\ (1 + 1) - 1 = 1
      BY <2>1, <2>2
    <3>2. q[1] = p[1 + 1] /\ Before(p, 1 + 1)
      BY <1>1, <1>2, <3>1 DEF Rest, Flow
    <3> QED
      BY <2>2, <3>1, <3>2 DEF Before
  <2>3. ASSUME Is(q, 1, "private", "prior") PROVE FALSE
    <3>1. 1 \in 1..Len(q)
      BY <2>3 DEF Is
    <3>2. Is(p, 1 + 1, "private", "prior")
      BY <1>1, <1>2, <2>3, <3>1, RestSteps
    <3>3. 1 + 1 \in 1..Len(p) /\ 1 + 1 > 1 /\ (1 + 1) - 1 = 1
      BY <3>2 DEF Is
    <3>4. Is(p, 1, "public", "prior")
      BY <3>2, <3>3 DEF Forward, Framed
    <3> QED
      BY <3>4 DEF Is
  <2> QED
    BY <2>2, <2>3 DEF First
<1>6. First(p, "savePublic") /\ ~ First(p, "config")
  BY DEF First
<1>7. l.pool.path = home /\ tree = [h.ident EXCEPT ![home].priv = l.new.priv]
  BY <1>4, <1>6 DEF Forward, Noted, Replaced
<1>8. Recorded(l, conf, h)
  BY <1>6, ForwardRecorded
<1>9. h.ident \in [Path -> Pair] /\ home \in Path /\ l.new \in Pair
  BY <1>1 DEF Found, Config, LocalRec
<1>10. saved = [h.ident EXCEPT ![home] = l.new]
  <2>1. tree[home] = [h.ident[home] EXCEPT !.priv = l.new.priv] /\ h.ident[home] \in Pair
    BY <1>7, <1>9
  <2>2. tree[home] \in Pair /\ tree[home].priv = l.new.priv
    BY <1>9, <2>1 DEF Pair
  <2>3. [tree[home] EXCEPT !.pub = l.new.pub] = l.new
    BY <1>9, <2>2, PairSaved
  <2>4. saved = [tree EXCEPT ![home] = l.new]
    BY <1>7, <2>3
  <2> HIDE DEF home
  <2>5. [[h.ident EXCEPT ![home].priv = l.new.priv] EXCEPT ![home] = l.new]
            = [h.ident EXCEPT ![home] = l.new]
    BY <1>9
  <2> QED
    BY <1>7, <2>4, <2>5
<1> HIDE DEF q, saved
<1>11. Noted(q, l, h)
  BY <1>3, <1>4, <1>5, <1>8 DEF Noted, Recorded
<1>12. Replaced(q, l, saved, h)
  BY <1>4, <1>5, <1>10 DEF Replaced
<1> QED
  BY <1>3, <1>8, <1>11, <1>12 DEF Forward, Recorded, q, saved

(***************************************************************************)
(* What a rollback has left to do, after its first step.                   *)
(***************************************************************************)
LEMMA BackwardTail ==
    ASSUME NEW p \in Seq(StepRec), p # <<>>, Flow(p), NEW q, q = Tail(p),
           \A j \in 1..Len(p) : p[j].op = "newConfig" => p[j].which = "pre"
    PROVE  /\ \A j \in 1..Len(q) : q[j].op = "newConfig" => q[j].which = "pre"
           /\ p[1].op # "newConfig" /\ (\E j \in 1..Len(p) : p[j].op = "newConfig")
                  => \E j \in 1..Len(q) : q[j].op = "newConfig"
           /\ p[1].op # "savePrivate" => ~ First(q, "savePublic")
<1>1. /\ q \in Seq(StepRec) /\ Len(q) = Len(p) - 1 /\ Len(p) \in Nat /\ Len(q) \in Nat
      /\ \A j \in 1..Len(q) : q[j] = p[j + 1] /\ j + 1 \in 1..Len(p)
      /\ p[1] \in StepRec
  BY Cuts DEF Rest
<1>2. ASSUME NEW j \in 1..Len(p), p[j].op = "newConfig", p[1].op # "newConfig"
      PROVE  \E i \in 1..Len(q) : q[i].op = "newConfig"
  <2>1. j - 1 \in 1..Len(q) /\ (j - 1) + 1 = j
    BY <1>1, <1>2
  <2>2. q[j - 1] = p[j]
    BY <1>1, <2>1
  <2> QED
    BY <1>2, <2>1, <2>2
<1>3. ASSUME p[1].op # "savePrivate", q # <<>>, q[1].op = "savePublic" PROVE FALSE
  <2>1. 1 \in 1..Len(q) /\ 1 + 1 \in 1..Len(p) /\ 1 + 1 > 1 /\ (1 + 1) - 1 = 1
    BY <1>1, <1>3
  <2>2. q[1] = p[1 + 1] /\ Before(p, 1 + 1)
    BY <1>1, <2>1 DEF Flow
  <2> QED
    BY <1>3, <2>1, <2>2 DEF Before
<1> QED
  BY <1>1, <1>2, <1>3 DEF First

(***************************************************************************)
(* The configuration is put back, and the node dropped.                    *)
(***************************************************************************)
LEMMA BackwardRest ==
    ASSUME NEW p, NEW l, Sound(p, l), p # <<>>, p[1].op \in {"newConfig", "dropPool", "dropNode"},
           NEW tree, NEW conf, NEW h, Backward(p, l, tree, conf, h),
           NEW m, m.keep = l.keep, m.pool = l.pool, m.prior = l.prior, m.new = l.new, m.pre = l.pre,
           NEW after, after = IF p[1].op = "newConfig" THEN h.config ELSE conf
    PROVE  Backward(Tail(p), m, tree, after, h)
<1> DEFINE q == Tail(p)
<1>1. p \in Seq(StepRec) /\ Flow(p)
  BY DEF Sound
<1>2. /\ \A j \in 1..Len(q) : q[j].op = "newConfig" => q[j].which = "pre"
      /\ p[1].op # "newConfig" /\ (\E j \in 1..Len(p) : p[j].op = "newConfig")
             => \E j \in 1..Len(q) : q[j].op = "newConfig"
      /\ ~ First(q, "savePublic")
  <2>1. \A j \in 1..Len(p) : p[j].op = "newConfig" => p[j].which = "pre"
    BY DEF Backward
  <2>2. p[1].op # "savePrivate"
    OBVIOUS
  <2> QED
    BY ONLY <1>1, <2>1, <2>2, p # <<>>, BackwardTail
<1>3. tree[h.config.path] = h.ident[h.config.path]
  BY DEF Backward, First
<1>4. (\E j \in 1..Len(q) : q[j].op = "newConfig") \/ after = h.config
  BY <1>2 DEF Backward
<1> HIDE DEF q
<1> QED
  BY <1>2, <1>3, <1>4 DEF Backward, q

(***************************************************************************)
(* The prior private key is saved.                                         *)
(***************************************************************************)
LEMMA BackwardPrivate ==
    ASSUME NEW p, NEW l, Sound(p, l), p # <<>>, p[1].op = "savePrivate",
           NEW tree \in [Path -> Pair], NEW conf, NEW h, Found(h), Backward(p, l, tree, conf, h)
    PROVE  Backward(Tail(p), l, [tree EXCEPT ![l.pool.path].priv = l.new.priv], conf, h)
<1> DEFINE q == Tail(p)
           home == h.config.path
           saved == [tree EXCEPT ![l.pool.path].priv = l.new.priv]
<1>1. p \in Seq(StepRec) /\ Flow(p)
  BY DEF Sound
<1>2. /\ \A j \in 1..Len(q) : q[j].op = "newConfig" => q[j].which = "pre"
      /\ (\E j \in 1..Len(p) : p[j].op = "newConfig") => \E j \in 1..Len(q) : q[j].op = "newConfig"
  BY <1>1, BackwardTail DEF Backward
<1>3. First(q, "savePublic")
  <2>1. 1 \in 1..Len(p) /\ Len(p) \in Nat /\ Rest(q, p, 1)
    BY <1>1, Cuts
  <2>2. After(p, 1) /\ 1 + 1 = 2
    BY <1>1, <2>1 DEF Flow
  <2>3. 2 \in 1..Len(p) /\ p[2].op = "savePublic"
    BY <2>2 DEF After, Is
  <2>4. q \in Seq(StepRec) /\ 1 \in 1..Len(q)
    BY <2>1, <2>3 DEF Rest
  <2>5. q[1] = p[1 + 1]
    BY <2>1, <2>4 DEF Rest
  <2> QED
    BY <2>2, <2>3, <2>4, <2>5 DEF First
<1>4. l.pool.path = home /\ home \in Path
  BY DEF Backward, Found, Config
<1>5. /\ \A x \in Path : x # home => saved[x] = tree[x]
      /\ saved[home].priv = l.new.priv
  <2>1. tree[home] \in Pair
    BY <1>4
  <2>2. saved[home] = [tree[home] EXCEPT !.priv = l.new.priv]
    BY <1>4
  <2>3. saved[home].priv = l.new.priv
    BY <2>1, <2>2 DEF Pair
  <2>4. \A x \in Path : x # home => saved[x] = tree[x]
    BY <1>4
  <2> QED
    BY <2>3, <2>4
<1> HIDE DEF q, saved
<1> QED
  BY <1>2, <1>3, <1>5 DEF Backward, q, saved

(***************************************************************************)
(* The prior public key is saved.                                          *)
(***************************************************************************)
LEMMA BackwardPublic ==
    ASSUME NEW p, NEW l, Sound(p, l), p # <<>>, p[1].op = "savePublic",
           NEW tree \in [Path -> Pair], NEW conf, NEW h, Found(h), Backward(p, l, tree, conf, h)
    PROVE  Backward(Tail(p), l, [tree EXCEPT ![l.pool.path].pub = l.new.pub], conf, h)
<1> DEFINE q == Tail(p)
           home == h.config.path
           saved == [tree EXCEPT ![l.pool.path].pub = l.new.pub]
<1>1. p \in Seq(StepRec) /\ Flow(p) /\ l \in LocalRec
  BY DEF Sound
<1>2. /\ \A j \in 1..Len(q) : q[j].op = "newConfig" => q[j].which = "pre"
      /\ (\E j \in 1..Len(p) : p[j].op = "newConfig") => \E j \in 1..Len(q) : q[j].op = "newConfig"
      /\ ~ First(q, "savePublic")
  BY <1>1, BackwardTail DEF Backward
<1>3. l.pool.path = home /\ home \in Path /\ tree[home].priv = l.new.priv
  <2>1. First(p, "savePublic")
    BY DEF First
  <2> QED
    BY <2>1 DEF Backward, Found, Config
<1>4. saved[home] = h.ident[home]
  <2>1. tree[home] \in Pair /\ l.new \in Pair
    BY <1>1, <1>3 DEF LocalRec
  <2>2. saved[home] = [tree[home] EXCEPT !.pub = l.new.pub]
    BY <1>3
  <2>3. saved[home] = l.new
    BY <1>3, <2>1, <2>2, PairSaved
  <2> QED
    BY <2>3 DEF Backward
<1>5. \A x \in Path : x # home => saved[x] = tree[x]
  BY <1>3
<1> HIDE DEF q, saved
<1> QED
  BY <1>2, <1>4, <1>5 DEF Backward, q, saved

(***************************************************************************)
(* A restore that fails begins to put back what it found.                  *)
(***************************************************************************)
LEMMA RollbackBegins ==
    ASSUME NEW p, NEW l \in LocalRec, ~ First(p, "config"), l.keep # NoPool,
           NEW tree \in [Path -> Pair], NEW conf, NEW h, Found(h), Forward(p, l, tree, conf, h),
           NEW m, m = [l EXCEPT !.pool = l.keep, !.failed = TRUE, !.new = l.prior]
    PROVE  Backward(RestoreRollback(l.prior), m, tree, conf, h)
<1> DEFINE a == IF Complete(l.prior) THEN Save(TRUE) ELSE Clear
           u == UpdateConfig("pre")
           r == a \o u
           home == h.config.path
<1>1. /\ m.keep = l.keep /\ m.pool = l.keep /\ m.prior = l.prior /\ m.new = l.prior /\ m.pre = l.pre
  BY DEF LocalRec
<1>2. /\ u \in Seq(StepRec) /\ Len(u) = 3 /\ u[1].op = "newConfig"
      /\ u[2].op = "dropPool" /\ u[3].op = "dropNode"
  BY UpdateSteps DEF Named
<1>3. u[1].which = "pre"
  <2> DEFINE x == <<[op |-> "newConfig", which |-> "pre"]>>
             y == Step("dropPool")
             z == Step("dropNode")
  <2>1. x \in Seq(StepRec) /\ y \in Seq(StepRec) /\ z \in Seq(StepRec) /\ Len(x) = 1
    BY Blocks DEF SimpleOps
  <2>2. x[1].which = "pre"
    OBVIOUS
  <2>3. u = (x \o y) \o z
    BY DEF UpdateConfig
  <2> HIDE DEF x, y, z, u
  <2>4. Follows(x \o y, x, y)
    BY <2>1, Joined
  <2>5. (x \o y) \in Seq(StepRec) /\ Len(x \o y) = 1 + Len(y) /\ (x \o y)[1] = x[1] /\ Len(y) \in Nat
    BY <2>1, <2>4 DEF Follows
  <2>6. Follows((x \o y) \o z, x \o y, z)
    BY <2>1, <2>5, Joined
  <2>7. ((x \o y) \o z)[1] = (x \o y)[1]
    BY <2>5, <2>6 DEF Follows
  <2> QED
    BY <2>2, <2>3, <2>5, <2>7
<1>4. /\ a \in Seq(StepRec) /\ Len(a) = 2 /\ a[1].op \in {"savePrivate", "clearPrivate"}
      /\ a[2].op \in {"savePublic", "clearPublic"}
  <2>1. CASE Complete(l.prior)
    BY <2>1, Blocks
  <2>2. CASE ~ Complete(l.prior)
    <3> DEFINE x == Step("clearPrivate")
               y == Step("clearPublic")
    <3>1. /\ x \in Seq(StepRec) /\ Len(x) = 1 /\ x[1].op = "clearPrivate"
          /\ y \in Seq(StepRec) /\ Len(y) = 1 /\ y[1].op = "clearPublic"
      BY Blocks DEF SimpleOps
    <3>2. a = x \o y
      BY <2>2 DEF Clear
    <3> HIDE DEF x, y, a
    <3>3. Follows(a, x, y)
      BY <3>1, <3>2, Joined
    <3> QED
      BY <3>1, <3>3 DEF Follows
  <2> QED
    BY <2>1, <2>2
<1>5. RestoreRollback(l.prior) = r
  BY DEF RestoreRollback
<1> HIDE DEF a, u
<1>6. Follows(r, a, u)
  BY <1>2, <1>4, Joined
<1> HIDE DEF r
<1>7. /\ r \in Seq(StepRec) /\ Len(r) = 5 /\ 1..5 = {1, 2, 3, 4, 5} /\ r # <<>>
      /\ r[1] = a[1] /\ r[2] = a[2] /\ r[3] = u[1] /\ r[4] = u[2] /\ r[5] = u[3]
  BY <1>2, <1>4, <1>6 DEF Follows
<1>8. /\ \A j \in 1..Len(r) : r[j].op = "newConfig" => r[j].which = "pre"
      /\ \E j \in 1..Len(r) : r[j].op = "newConfig"
  BY <1>2, <1>3, <1>4, <1>7
<1>9. (First(r, "savePrivate") \/ First(r, "clearPrivate")) /\ ~ First(r, "savePublic")
  BY <1>4, <1>7 DEF First
<1>10. /\ l.pre = h.config /\ l.keep.path = home /\ l.prior = h.ident[home]
  BY ForwardRecorded DEF Recorded
<1>11. \A x \in Path : x # home => tree[x] = h.ident[x]
  BY DEF Forward, Replaced, Found
<1> QED
  BY <1>1, <1>5, <1>8, <1>9, <1>10, <1>11 DEF Backward

-----------------------------------------------------------------------------
(* The steps of a restore                                                  *)

Restores(t) ==
    /\ Good /\ Found(hist) /\ local[t].op = "restore"
    /\ Phase(prog[t], local[t], ident, config, hist)

\* It goes on as it should, or ends before it began to change anything.
Proceeds(t) ==
    \E q, m :
       /\ prog' = [prog EXCEPT ![t] = q] /\ local' = [local EXCEPT ![t] = Left(q, m)]
       /\ \/ q = <<>> /\ local[t].keep = NoPool
          \/ /\ m.op = "restore" /\ Phase(q, m, ident', config', hist)
             /\ q = <<>> => /\ m.failed = local[t].failed /\ m.keep = local[t].keep
                            /\ m.new = local[t].new

(***************************************************************************)
(* A step that saves nothing.                                              *)
(***************************************************************************)
LEMMA GoesOn ==
    ASSUME NEW t \in Task, Restores(t), NEW p, p = prog[t], NEW l, l = local[t], ~ l.failed,
           NEW q, NEW n \in 1..Len(p), Rest(q, p, n), \A i \in 1..n : p[i].op \notin SaveOps,
           NEW m, Continue(t, q, m), Recorded(m, config', hist), m.new = l.new, m.op = l.op,
           m.failed = l.failed, q # <<>> \/ m.keep = l.keep, ident' = ident,
           Is(q, 1, "private", "prior") /\ Is(p, n, "public", "prior") =>
               m.read.pub = hist.ident[hist.config.path].pub,
           Ahead(p, 0) /\ m.pool # NoPool => m.pool.path = hist.config.path
    PROVE  Proceeds(t)
<1>1. Sound(p, l) /\ Forward(p, l, ident, config, hist)
  BY DEF Restores, Good, Phase
<1>2. Forward(q, m, ident', config', hist)
  BY <1>1, ForwardRest
<1>3. prog' = [prog EXCEPT ![t] = q] /\ local' = [local EXCEPT ![t] = Left(q, m)]
  BY DEF Continue, Left
<1>4. m.op = "restore" /\ Phase(q, m, ident', config', hist)
  BY <1>2 DEF Restores, Phase
<1> QED
  BY <1>3, <1>4 DEF Proceeds

\* What most steps leave alone of what a task has noted.
SameNotes(l, m) ==
    /\ m.op = l.op /\ m.failed = l.failed /\ m.new = l.new /\ m.keep = l.keep
    /\ m.cfg = l.cfg /\ m.pre = l.pre /\ m.prior = l.prior

(***************************************************************************)
(* get_node is left.                                                       *)
(***************************************************************************)
LEMMA GoesPast ==
    ASSUME NEW t \in Task, Restores(t), NEW p, p = prog[t], NEW l, l = local[t], ~ l.failed,
           p # <<>>, Entering(p, 1), p[1].op # "config", NEW m, Continue(t, AfterNode(t), m),
           SameNotes(l, m), ident' = ident, config' = config
    PROVE  Proceeds(t)
<1>1. Sound(p, l) /\ Forward(p, l, ident, config, hist)
  BY DEF Restores, Good, Phase
<1>2. p \in Seq(StepRec) /\ Flow(p) /\ Normal(p, l.op)
  BY <1>1 DEF Sound
<1>3. PICK n \in 1..Len(p) : /\ Rest(NodeEnd(p), p, n) /\ p[n].op = "build"
                             /\ \A i \in 1..n : i < n => p[i].op \in NodeOps
  BY <1>2, NodeEndRest
<1>4. AfterNode(t) = NodeEnd(p)
  BY DEF AfterNode, NodeEnd
<1>5. \A i \in 1..n : p[i].op \notin SaveOps
  <2>1. \A i \in 1..n : i < n \/ i = n
    OBVIOUS
  <2> QED
    BY <1>3, <2>1 DEF SaveOps, NodeOps
<1>6. ~ Ahead(p, 0)
  <2> SUFFICES ASSUME NEW j \in 1..Len(p), p[j].op = "savePrivate" PROVE FALSE
    BY DEF Ahead
  <2>1. NormalAt(p, l.op, j)
    BY <1>2 DEF Normal
  <2>2. 1 \in 1..j
    OBVIOUS
  <2> QED
    BY <2>1, <2>2 DEF NormalAt, SaveOps
<1>7. Recorded(l, config, hist)
  <2>1. ~ First(p, "config")
    BY DEF First
  <2> QED
    BY <1>1, <2>1, ForwardRecorded
<1>8. Recorded(m, config', hist)
  BY <1>7 DEF Recorded, SameNotes
<1>9. ~ Is(p, n, "public", "prior")
  BY <1>3 DEF Is
<1> HIDE DEF NodeEnd
<1> QED
  BY <1>3, <1>4, <1>5, <1>6, <1>8, <1>9, GoesOn DEF SameNotes

(***************************************************************************)
(* A step that notes nothing.                                              *)
(***************************************************************************)
LEMMA GoesAhead ==
    ASSUME NEW t \in Task, Restores(t), NEW p, p = prog[t], NEW l, l = local[t], ~ l.failed,
           NEW op, At(t, op), op \notin SaveOps \cup {"config"}, NEW m, Advance(t, m),
           SameNotes(l, m), ident' = ident, config' = config,
           Is(Tail(p), 1, "private", "prior") /\ Is(p, 1, "public", "prior") =>
               m.read.pub = hist.ident[hist.config.path].pub,
           Ahead(p, 0) /\ m.pool # NoPool => m.pool.path = hist.config.path
    PROVE  Proceeds(t)
<1>1. Sound(p, l) /\ Forward(p, l, ident, config, hist) /\ Good
  BY DEF Restores, Good, Phase
<1>2. p # <<>> /\ p[1].op = op /\ Rest(Tail(p), p, 1) /\ 1 \in 1..Len(p) /\ 1..1 = {1}
  BY <1>1, Ready
<1>3. Recorded(l, config, hist)
  <2>1. ~ First(p, "config")
    BY <1>2 DEF First
  <2> QED
    BY <1>1, <2>1, ForwardRecorded
<1>4. Recorded(m, config', hist)
  BY <1>3 DEF Recorded, SameNotes
<1>5. Continue(t, Tail(p), m)
  BY DEF Advance
<1>6. \A i \in 1..1 : p[i].op \notin SaveOps
  BY <1>2
<1>7. m.new = l.new /\ m.op = l.op /\ m.failed = l.failed /\ m.keep = l.keep
  BY DEF SameNotes
<1> DEFINE q == Tail(p)
<1>8. /\ Rest(q, p, 1) /\ Continue(t, q, m) /\ (q # <<>> \/ m.keep = l.keep)
      /\ Is(q, 1, "private", "prior") /\ Is(p, 1, "public", "prior") =>
             m.read.pub = hist.ident[hist.config.path].pub
  BY <1>2, <1>5, <1>7
<1> HIDE DEF q
<1> QED
  BY <1>2, <1>4, <1>6, <1>7, <1>8, GoesOn

(***************************************************************************)
(* A step that leaves all the task knows as it is.                         *)
(***************************************************************************)
LEMMA GoesPlainly ==
    ASSUME NEW t \in Task, Restores(t), ~ local[t].failed, NEW op, At(t, op),
           op \notin SaveOps \cup {"config", "public"}, Advance(t, local[t]),
           ident' = ident, config' = config
    PROVE  Proceeds(t)
<1>1. Sound(prog[t], local[t]) /\ Forward(prog[t], local[t], ident, config, hist) /\ Good
  BY DEF Restores, Good, Phase
<1>2. prog[t] # <<>> /\ prog[t][1].op = op
  BY <1>1, Ready
<1>3. ~ Is(prog[t], 1, "public", "prior")
  BY <1>2 DEF Is
<1>4. Ahead(prog[t], 0) /\ local[t].pool # NoPool => local[t].pool.path = hist.config.path
  BY <1>1 DEF Forward, Noted
<1> QED
  BY <1>3, <1>4, GoesAhead DEF SameNotes

(***************************************************************************)
(* The configuration is read.                                              *)
(***************************************************************************)
LEMMA RestoreConfig ==
    ASSUME NEW t \in Task, Restores(t), GetBaseConfig(t)
    PROVE  Proceeds(t)
<1> DEFINE p == prog[t]
           l == local[t]
           edit == Head(p).edit
           m == [l EXCEPT !.cfg = Edited(config, edit), !.pre = IF edit = "pre" THEN config ELSE l.pre]
<1>1. /\ At(t, "config") /\ Advance(t, m) /\ ident' = ident /\ config' = config
  BY DEF GetBaseConfig, memVars, diskVars
<1>2. /\ p \in Seq(StepRec) /\ p # <<>> /\ p[1].op = "config" /\ p[1] = Head(p) /\ p[1] \in StepRec
      /\ l \in LocalRec /\ 1 \in 1..Len(p) /\ Rest(Tail(p), p, 1) /\ ~ l.failed /\ 1..1 = {1}
  BY <1>1, Ready DEF Restores, SaveOps, UndoOps
<1>3. Forward(p, l, ident, config, hist)
  BY <1>2 DEF Restores, Phase
<1>4. edit \in {"keep", "pre", "cloud"} /\ (edit = "pre" <=> Prelude(p))
  BY <1>2, <1>3 DEF Forward, Framed, Prelude, First
<1>5. config \in Near(hist) /\ hist.config \in Config
  BY <1>3 DEF Forward, Restores, Found
<1>6. Edited(config, edit) \in Near(hist)
  <2>1. [[hist.config EXCEPT !.cloud = TRUE] EXCEPT !.cloud = TRUE]
            = [hist.config EXCEPT !.cloud = TRUE]
    BY <1>5 DEF Config
  <2>2. [config EXCEPT !.cloud = TRUE] \in Near(hist)
    BY <1>5, <2>1 DEF Near
  <2>3. CASE edit \in {"keep", "pre"}
    BY <1>5, <2>3 DEF Edited
  <2>4. CASE edit = "cloud"
    <3>1. Edited(config, "cloud") = [config EXCEPT !.cloud = TRUE]
      BY DEF Edited
    <3> QED
      BY <2>2, <2>4, <3>1
  <2> QED
    BY <1>4, <2>3, <2>4
<1>7. /\ m.op = l.op /\ m.failed = l.failed /\ m.keep = l.keep /\ m.new = l.new
      /\ m.pool = l.pool /\ m.prior = l.prior /\ m.read = l.read
      /\ m.cfg = Edited(config, edit) /\ m.pre = IF edit = "pre" THEN config ELSE l.pre
  BY <1>2 DEF LocalRec
<1> HIDE DEF m
<1>8. m.pre = hist.config
  BY <1>3, <1>4, <1>7 DEF Forward, Noted
<1>9. Recorded(m, config', hist)
  BY <1>1, <1>3, <1>5, <1>6, <1>7, <1>8 DEF Recorded, Forward, Noted
<1>10. Ahead(p, 0) /\ m.pool # NoPool => m.pool.path = hist.config.path
  BY <1>3, <1>7 DEF Forward, Noted
<1> DEFINE q == Tail(p)
<1>11. /\ Rest(q, p, 1) /\ Continue(t, q, m) /\ ~ Is(p, 1, "public", "prior")
       /\ \A i \in 1..1 : p[i].op \notin SaveOps
  BY <1>1, <1>2 DEF Advance, Is, SaveOps
<1> HIDE DEF q
<1> QED
  BY <1>1, <1>2, <1>7, <1>9, <1>10, <1>11, GoesOn

(***************************************************************************)
(* The pool.                                                               *)
(***************************************************************************)
LEMMA RestorePool ==
    ASSUME NEW t \in Task, Restores(t), GetOrCreatePool(t)
    PROVE  Proceeds(t)
<1> DEFINE p == prog[t]
           l == local[t]
           m == [l EXCEPT !.pool = pool']
<1>1. /\ At(t, "pool") /\ Advance(t, m) /\ ident' = ident /\ config' = config
      /\ pool'.path = l.cfg.path
  BY DEF GetOrCreatePool, diskVars
<1>2. p # <<>> /\ p[1].op = "pool" /\ l \in LocalRec /\ ~ l.failed
  BY <1>1, Ready DEF Restores, SaveOps, UndoOps
<1>3. Forward(p, l, ident, config, hist) /\ ~ First(p, "config")
  BY <1>2 DEF Restores, Phase, First
<1>4. SameNotes(l, m) /\ m.pool = pool'
  BY <1>2 DEF SameNotes, LocalRec
<1>5. m.pool.path = hist.config.path
  <2>1. l.cfg \in Near(hist) /\ hist.config \in Config
    BY <1>3, ForwardRecorded DEF Recorded, Restores, Found
  <2>2. l.cfg.path = hist.config.path
    BY <2>1 DEF Near, Config
  <2> QED
    BY <1>1, <1>4, <2>2
<1>6. ~ Is(p, 1, "public", "prior")
  BY <1>2 DEF Is
<1> HIDE DEF m
<1>7. "pool" \notin SaveOps \cup {"config"}
  BY DEF SaveOps
<1> QED
  BY <1>1, <1>2, <1>4, <1>5, <1>6, <1>7, GoesAhead

(***************************************************************************)
(* get_node looks for the node, without and with the lock.                 *)
(***************************************************************************)
LEMMA RestoreFast ==
    ASSUME NEW t \in Task, Restores(t), GetNodeFast(t) \/ GetNodeSlow(t)
    PROVE  Proceeds(t)
<1> DEFINE p == prog[t]
           l == local[t]
           m == [l EXCEPT !.pool = slot.pool]
<1>1. PICK op \in {"fast", "slow"} :
         /\ At(t, op) /\ ident' = ident /\ config' = config
         /\ Continue(t, AfterNode(t), m) \/ Advance(t, l)
  BY DEF GetNodeFast, GetNodeSlow, memVars, diskVars
<1>2. p # <<>> /\ p[1].op = op /\ l \in LocalRec /\ ~ l.failed
  BY <1>1, Ready DEF Restores, SaveOps, UndoOps
<1>3. SameNotes(l, m)
  BY <1>2 DEF SameNotes, LocalRec
<1> HIDE DEF m
<1>4. CASE Continue(t, AfterNode(t), m)
  <2>1. Entering(p, 1) /\ p[1].op # "config"
    BY <1>1, <1>2 DEF Entering
  <2> QED
    BY <1>1, <1>2, <1>3, <1>4, <2>1, GoesPast
<1>5. CASE Advance(t, l)
  <2>1. op \notin SaveOps \cup {"config", "public"}
    BY <1>1 DEF SaveOps
  <2> QED
    BY <1>1, <1>2, <1>5, <2>1, GoesPlainly
<1> QED
  BY <1>1, <1>4, <1>5

(***************************************************************************)
(* The public key is read.                                                 *)
(***************************************************************************)
LEMMA RestorePublic ==
    ASSUME NEW t \in Task, Restores(t), LoadPublic(t)
    PROVE  Proceeds(t)
<1> DEFINE p == prog[t]
           l == local[t]
           m == [l EXCEPT !.read = [priv |-> NoKey, pub |-> ident[l.pool.path].pub]]
<1>1. /\ At(t, "public") /\ Advance(t, m) /\ ident' = ident /\ config' = config
  BY DEF LoadPublic, memVars, diskVars
<1>2. /\ p \in Seq(StepRec) /\ p # <<>> /\ p[1].op = "public" /\ l \in LocalRec /\ ~ l.failed
      /\ l.pool # NoPool /\ Sound(p, l) /\ Rest(Tail(p), p, 1)
  BY <1>1, Ready DEF Restores, SaveOps, UndoOps, NeedsPool
<1>3. Forward(p, l, ident, config, hist)
  BY <1>2 DEF Restores, Phase
<1>4. SameNotes(l, m) /\ m.pool = l.pool /\ m.read.pub = ident[l.pool.path].pub
  BY <1>2 DEF SameNotes, LocalRec
<1>5. Ahead(p, 0) /\ m.pool # NoPool => m.pool.path = hist.config.path
  BY <1>3, <1>4 DEF Forward, Noted
<1>6. ASSUME Is(Tail(p), 1, "private", "prior")
      PROVE  m.read.pub = hist.ident[hist.config.path].pub
  <2>1. 1 \in 1..Len(Tail(p))
    BY <1>6 DEF Is
  <2>2. Is(p, 1 + 1, "private", "prior")
    <3>1. \A q : Rest(q, p, 1) => \A j \in 1..Len(q) :
             Is(q, j, "private", "prior") <=> Is(p, j + 1, "private", "prior")
      BY <1>2, RestSteps
    <3> QED
      BY <1>2, <1>6, <2>1, <3>1
  <2>3. 1 + 1 \in 1..Len(p)
    BY <2>2 DEF Is
  <2>4. NormalAt(p, l.op, 1 + 1)
    BY <1>2, <2>3 DEF Sound, Normal
  <2>5. Ahead(p, 1 + 1)
    BY <2>2, <2>4 DEF NormalAt
  <2>6. Ahead(p, 0)
    BY <2>5 DEF Ahead
  <2>7. l.pool.path = hist.config.path /\ ident = hist.ident
    BY <1>2, <1>3, <2>6 DEF Forward, Noted, Replaced
  <2> QED
    BY <1>4, <2>7
<1> HIDE DEF m
<1>7. "public" \notin SaveOps \cup {"config"}
  BY DEF SaveOps
<1> QED
  BY <1>1, <1>2, <1>4, <1>5, <1>6, <1>7, GoesAhead

(***************************************************************************)
(* An error is returned.                                                   *)
(***************************************************************************)
LEMMA RestoreAbort ==
    ASSUME NEW t \in Task, Restores(t), ~ local[t].failed, Abort(t), ~ First(prog[t], "config"),
           ident' = ident, config' = config
    PROVE  Proceeds(t)
<1> DEFINE l == local[t]
<1>1. Sound(prog[t], l) /\ l \in LocalRec /\ Forward(prog[t], l, ident, config, hist) /\ Found(hist)
  BY DEF Restores, Good, Phase, Sound
<1>2. l.op = "restore" /\ ident \in [Path -> Pair]
  BY DEF Restores, Good, Types
<1>3. CASE l.keep = NoPool
  <2>1. Continue(t, <<>>, Idle)
    BY <1>3 DEF Abort
  <2>2. prog' = [prog EXCEPT ![t] = <<>>] /\ local' = [local EXCEPT ![t] = Left(<<>>, Idle)]
    BY <2>1 DEF Continue, Left
  <2> QED
    BY <1>3, <2>2 DEF Proceeds
<1>4. CASE l.keep # NoPool
  <2> DEFINE m == [l EXCEPT !.pool = l.keep, !.failed = TRUE, !.new = l.prior]
             q == RestoreRollback(l.prior)
  <2>1. Continue(t, q, m)
    <3>1. Continue(t, RestoreRollback([l EXCEPT !.pool = l.keep, !.failed = TRUE].prior),
                   [[l EXCEPT !.pool = l.keep, !.failed = TRUE] EXCEPT
                       !.new = [l EXCEPT !.pool = l.keep, !.failed = TRUE].prior])
      BY <1>2, <1>4 DEF Abort
    <3>2. /\ [l EXCEPT !.pool = l.keep, !.failed = TRUE].prior = l.prior
          /\ [[l EXCEPT !.pool = l.keep, !.failed = TRUE] EXCEPT !.new = l.prior] = m
      BY <1>1 DEF LocalRec
    <3> QED
      BY <3>1, <3>2
  <2>2. m.op = "restore" /\ m.failed = TRUE
    BY <1>1, <1>2 DEF LocalRec
  <2>3. q # <<>> /\ Backward(q, m, ident, config, hist)
    <3>1. PICK x \in LocalRec : x = l
      BY <1>1
    <3>2. x.op = "restore" /\ x.keep # NoPool /\ Forward(prog[t], x, ident, config, hist)
      BY <1>1, <1>2, <1>4, <3>1
    <3> DEFINE y == [x EXCEPT !.pool = x.keep, !.failed = TRUE, !.new = x.prior]
    <3>3. RestoreRollback(x.prior) # <<>>
      BY ONLY <3>1, <3>2, RollbackSound
    <3>4. Backward(RestoreRollback(x.prior), y, ident, config, hist)
      BY ONLY <1>1, <1>2, <3>1, <3>2, RollbackBegins, ~ First(prog[t], "config")
    <3> QED
      BY <3>1, <3>3, <3>4
  <2> HIDE DEF q, m
  <2>4. prog' = [prog EXCEPT ![t] = q] /\ local' = [local EXCEPT ![t] = Left(q, m)]
    BY <2>1 DEF Continue, Left
  <2>5. Phase(q, m, ident', config', hist)
    BY <2>2, <2>3 DEF Phase
  <2> QED
    BY <2>2, <2>3, <2>4, <2>5 DEF Proceeds
<1> QED
  BY <1>3, <1>4

(***************************************************************************)
(* The private key is read, which is all the task notes.                   *)
(***************************************************************************)
LEMMA SeenPlainly ==
    ASSUME NEW t \in Task, Restores(t), LoadPrivate(t), NEW m, Advance(t, m),
           m.op = local[t].op, m.failed = local[t].failed, m.new = local[t].new,
           m.keep = local[t].keep, m.cfg = local[t].cfg, m.pre = local[t].pre,
           m.prior = local[t].prior, m.pool = local[t].pool
    PROVE  Proceeds(t)
<1>1. At(t, "private") /\ ident' = ident /\ config' = config
  BY DEF LoadPrivate, memVars, diskVars
<1>2. /\ prog[t] # <<>> /\ prog[t][1].op = "private" /\ ~ local[t].failed
  BY <1>1, Ready DEF Restores, SaveOps, UndoOps
<1>3. Forward(prog[t], local[t], ident, config, hist)
  BY <1>2 DEF Restores, Phase
<1>4. ~ Is(prog[t], 1, "public", "prior")
  BY <1>2 DEF Is
<1>5. Ahead(prog[t], 0) /\ m.pool # NoPool => m.pool.path = hist.config.path
  BY <1>3 DEF Forward, Noted
<1>6. SameNotes(local[t], m) /\ "private" \notin SaveOps \cup {"config"}
  BY DEF SameNotes, SaveOps
<1> QED
  BY <1>1, <1>2, <1>4, <1>5, <1>6, GoesAhead

(***************************************************************************)
(* The prior identity has been read.                                       *)
(***************************************************************************)
LEMMA RestorePrior ==
    ASSUME NEW t \in Task, Restores(t), LoadPrivate(t), prog[t][1].use = "prior"
    PROVE  Proceeds(t)
<1> DEFINE p == prog[t]
           l == local[t]
           home == hist.config.path
           m == [With(t) EXCEPT !.prior = Seen(t), !.keep = With(t).pool]
<1>1. /\ At(t, "private") /\ ident' = ident /\ config' = config /\ Advance(t, m)
  <2>1. Head(p).use = "prior"
    <3>1. At(t, "private") /\ Good
      BY DEF LoadPrivate, Restores
    <3> QED
      BY <3>1, Ready
  <2>2. At(t, "private") /\ ident' = ident /\ config' = config
    BY DEF LoadPrivate, memVars, diskVars
  <2> QED
    BY <2>1, <2>2, SeenCases
<1>2. /\ p \in Seq(StepRec) /\ p # <<>> /\ p[1].op = "private" /\ 1 \in 1..Len(p) /\ Len(p) \in Nat
      /\ l \in LocalRec /\ ~ l.failed /\ l.pool # NoPool /\ Sound(p, l) /\ Rest(Tail(p), p, 1)
      /\ 1..1 = {1}
  BY <1>1, Ready DEF Restores, SaveOps, UndoOps, NeedsPool
<1>3. /\ Seen(t) \in Pair /\ With(t) \in LocalRec /\ Use(p[1]) = "prior"
      /\ Seen(t).priv = ident[l.pool.path].priv /\ Seen(t).pub = l.read.pub
      /\ With(t).op = l.op /\ With(t).failed = l.failed /\ With(t).new = l.new
      /\ With(t).pool = l.pool /\ With(t).cfg = l.cfg
  BY SeenTypes DEF Restores
<1>4. With(t).pre = l.pre
  BY <1>2, <1>3 DEF With, LocalRec
<1>5. /\ m.op = l.op /\ m.failed = l.failed /\ m.new = l.new /\ m.pool = l.pool
      /\ m.cfg = l.cfg /\ m.pre = l.pre /\ m.prior = Seen(t) /\ m.keep = l.pool
  BY <1>3, <1>4 DEF LocalRec
<1> HIDE DEF m
<1>6. Forward(p, l, ident, config, hist) /\ Found(hist)
  BY <1>2 DEF Restores, Phase
<1>7. Is(p, 1, "private", "prior")
  BY <1>2, <1>3 DEF Is
<1>8. Ahead(p, 1)
  <2>1. NormalAt(p, l.op, 1)
    BY <1>2 DEF Sound, Normal
  <2> QED
    BY <1>7, <2>1 DEF NormalAt
<1>9. Ahead(p, 0) /\ Tail(p) # <<>>
  <2>1. PICK j \in 1..Len(p) : j > 1 /\ p[j].op = "savePrivate"
    BY <1>8 DEF Ahead
  <2>2. j > 0 /\ Len(p) > 1
    BY <1>2, <2>1
  <2>3. ASSUME NEW q, Rest(q, p, 1) PROVE q # <<>>
    BY <2>2, <2>3 DEF Rest
  <2>4. Tail(p) # <<>>
    BY <1>2, <2>3
  <2> QED
    BY <2>1, <2>2, <2>4 DEF Ahead
<1>10. l.pool.path = home /\ ident = hist.ident
  BY <1>2, <1>6, <1>9 DEF Forward, Noted, Replaced
<1>11. Seen(t) = hist.ident[home]
  <2>1. Seen(t).pub = hist.ident[home].pub
    BY <1>3, <1>6, <1>7, <1>2 DEF Forward, Noted, First
  <2>2. hist.ident[home] \in Pair
    BY <1>6 DEF Found, Config
  <2> QED
    BY <1>3, <1>10, <2>1, <2>2 DEF Pair
<1>12. Recorded(l, config, hist)
  <2>1. ~ First(p, "config")
    BY <1>2 DEF First
  <2> QED
    BY <1>6, <2>1, ForwardRecorded
<1>13. Recorded(m, config', hist)
  BY <1>1, <1>2, <1>5, <1>10, <1>11, <1>12 DEF Recorded
<1> DEFINE q == Tail(p)
<1>14. /\ Rest(q, p, 1) /\ Continue(t, q, m) /\ q # <<>> /\ ~ Is(p, 1, "public", "prior")
       /\ \A i \in 1..1 : p[i].op \notin SaveOps
  BY <1>1, <1>2, <1>9 DEF Advance, Is, SaveOps
<1>15. Ahead(p, 0) /\ m.pool # NoPool => m.pool.path = home
  BY <1>5, <1>10
<1> HIDE DEF q
<1> QED
  BY <1>1, <1>2, <1>5, <1>13, <1>14, <1>15, GoesOn

(***************************************************************************)
(* The private key is read.                                                *)
(***************************************************************************)
LEMMA RestorePrivate ==
    ASSUME NEW t \in Task, Restores(t), LoadPrivate(t)
    PROVE  Proceeds(t)
<1> DEFINE p == prog[t]
           l == local[t]
           use == p[1].use
<1>1. /\ At(t, "private") /\ ident' = ident /\ config' = config /\ Good /\ l.op = "restore"
  BY DEF LoadPrivate, memVars, diskVars, Restores
<1>2. /\ p \in Seq(StepRec) /\ p # <<>> /\ p[1].op = "private" /\ 1 \in 1..Len(p) /\ p[1] = Head(p)
      /\ l \in LocalRec /\ ~ l.failed /\ l.pool # NoPool /\ Sound(p, l) /\ Creates(t) /\ l.pool \in Pool
  BY <1>1, Ready DEF SaveOps, UndoOps, NeedsPool
<1>3. /\ Seen(t) \in Pair /\ With(t) \in LocalRec /\ Use(p[1]) = use /\ use \in Uses
      /\ Seen(t).priv = ident[l.pool.path].priv /\ Seen(t).pub = l.read.pub
      /\ With(t).op = l.op /\ With(t).failed = l.failed /\ With(t).new = l.new
      /\ With(t).pool = l.pool /\ With(t).cfg = l.cfg /\ With(t).keep = l.keep
  BY <1>1, SeenTypes
<1>4. With(t).pre = l.pre /\ With(t).prior = l.prior
  BY <1>2, <1>3 DEF With, LocalRec
<1>5. PICK r \in LocalRec : r = With(t)
  BY <1>3
<1>6. PICK x \in Pair : x = Seen(t)
  BY <1>3
<1>7. /\ use = "any" => Advance(t, r)
      /\ use = "need" /\ ~ Complete(x) => Abort(t)
      /\ use = "try" /\ ~ Complete(x) => Continue(t, AfterNode(t), r)
      /\ use \in {"need", "try"} /\ Complete(x) => Advance(t, r)
      /\ use = "signer" /\ ~ Complete(x) => LeaveGetNode(t)
      /\ use = "signer" /\ Complete(x) => Advance(t, [r EXCEPT !.signer = x])
      /\ use = "node" /\ Complete(x) => Advance(t, r)
  BY <1>2, <1>5, <1>6, SeenCases
<1>8. /\ r.op = l.op /\ r.failed = l.failed /\ r.new = l.new /\ r.pool = l.pool
      /\ r.cfg = l.cfg /\ r.keep = l.keep /\ r.pre = l.pre /\ r.prior = l.prior
  BY <1>3, <1>4, <1>5
<1>9. use # "mint"
  <2>1. NormalAt(p, l.op, 1)
    BY <1>2 DEF Sound, Normal
  <2> QED
    BY <1>1, <1>2, <1>3, <2>1 DEF NormalAt, Is
<1>10. CASE use = "prior"
  BY <1>10, RestorePrior
<1>11. ASSUME Advance(t, r) PROVE Proceeds(t)
  BY <1>8, <1>11, SeenPlainly
<1>12. CASE use = "need" /\ ~ Complete(x)
  <2>1. Abort(t) /\ ~ First(p, "config")
    BY <1>2, <1>7, <1>12 DEF First
  <2> QED
    BY <1>1, <1>2, <2>1, RestoreAbort
<1>13. ASSUME NEW m, Continue(t, AfterNode(t), m), SameNotes(l, m), use \in {"try", "signer"}
       PROVE  Proceeds(t)
  <2>1. Entering(p, 1) /\ p[1].op # "config"
    BY <1>2, <1>3, <1>13 DEF Entering, Inside
  <2> QED
    BY <1>1, <1>2, <1>13, <2>1, GoesPast
<1>14. CASE use = "try" /\ ~ Complete(x)
  BY <1>7, <1>8, <1>13, <1>14 DEF SameNotes
<1>15. CASE use = "signer" /\ ~ Complete(x)
  <2>1. Continue(t, AfterNode(t), l)
    BY <1>1, <1>7, <1>15 DEF LeaveGetNode
  <2> QED
    BY <1>13, <1>15, <2>1 DEF SameNotes
<1>16. CASE use = "signer" /\ Complete(x)
  <2> DEFINE m == [r EXCEPT !.signer = x]
  <2>1. Advance(t, m)
    BY <1>7, <1>16
  <2>2. /\ m.op = l.op /\ m.failed = l.failed /\ m.new = l.new /\ m.pool = l.pool
        /\ m.cfg = l.cfg /\ m.keep = l.keep /\ m.pre = l.pre /\ m.prior = l.prior
    BY <1>8 DEF LocalRec
  <2> HIDE DEF m
  <2> QED
    BY <2>1, <2>2, SeenPlainly
<1>17. CASE use = "node"
  <2>1. Inside(p, 1) /\ Is(p, 1, "private", "node")
    BY <1>2, <1>3, <1>17 DEF Inside, Is
  <2>2. Complete(ident[l.pool.path]) /\ l.read.pub # NoKey
    BY <1>2, <2>1 DEF Creates, Agrees
  <2>3. Complete(x)
    BY <1>3, <1>6, <2>2 DEF Complete
  <2> QED
    BY <1>7, <1>11, <1>17, <2>3
<1>18. use = "any" \/ (use \in {"need", "try"} /\ Complete(x)) => Proceeds(t)
  BY <1>7, <1>11
<1> QED
  BY <1>3, <1>9, <1>10, <1>12, <1>14, <1>15, <1>16, <1>17, <1>18 DEF Uses

(***************************************************************************)
(* The node is built, and files are written.                               *)
(***************************************************************************)
LEMMA RestoreFiles ==
    ASSUME NEW t \in Task, Restores(t),
           \/ Build(t) \/ SaveNodeConfig(t) \/ DropConfig(t) \/ SaveCard(t) \/ ClearProfile(t)
           \/ SetMarker(t)
    PROVE  Proceeds(t)
<1>1. PICK op \in {"build", "saveConfig", "dropConfig", "card", "clearProfile", "mark", "unmark"} :
         At(t, op) /\ Advance(t, local[t]) /\ ident' = ident /\ config' = config
  BY DEF Build, SaveNodeConfig, DropConfig, SaveCard, ClearProfile, SetMarker, memVars, diskVars
<1>2. ~ local[t].failed
  BY <1>1, Ready DEF Restores, SaveOps, UndoOps
<1>3. op \notin SaveOps \cup {"config", "public"}
  BY DEF SaveOps
<1> QED
  BY <1>1, <1>2, <1>3, GoesPlainly

(***************************************************************************)
(* A key is saved, of the new identity or of the one put back.             *)
(***************************************************************************)
LEMMA RestoreSave ==
    ASSUME NEW t \in Task, Restores(t), SavePrivate(t) \/ SavePublic(t)
    PROVE  Proceeds(t)
<1> DEFINE p == prog[t]
           l == local[t]
           q == Tail(p)
<1>1. /\ Good /\ Found(hist) /\ l.op = "restore" /\ Phase(p, l, ident, config, hist)
      /\ Sound(p, l) /\ l \in LocalRec /\ ident \in [Path -> Pair]
  BY DEF Restores, Good, Sound, Types
<1>2. ASSUME NEW op \in SaveOps, At(t, op), Advance(t, l), config' = config,
             ident' = IF op = "savePrivate"
                      THEN [ident EXCEPT ![l.pool.path].priv = l.new.priv]
                      ELSE [ident EXCEPT ![l.pool.path].pub = l.new.pub]
      PROVE  Proceeds(t)
  <2>1. p # <<>> /\ p[1].op = op /\ l.pool # NoPool
    BY <1>1, <1>2, Ready DEF SaveOps, NeedsPool
  <2>2. Phase(q, l, ident', config', hist)
    <3>1. CASE op = "savePrivate" /\ ~ l.failed
      <4>1. Forward(p, l, ident, config, hist)
        BY <1>1, <3>1 DEF Phase
      <4>2. Forward(q, l, [ident EXCEPT ![l.pool.path].priv = l.new.priv], config, hist)
        BY <1>1, <2>1, <3>1, <4>1, ForwardPrivate
      <4> QED
        BY <1>2, <3>1, <4>2 DEF Phase
    <3>2. CASE op = "savePublic" /\ ~ l.failed
      <4>1. Forward(p, l, ident, config, hist)
        BY <1>1, <3>2 DEF Phase
      <4>2. Forward(q, l, [ident EXCEPT ![l.pool.path].pub = l.new.pub], config, hist)
        BY <1>1, <2>1, <3>2, <4>1, ForwardPublic
      <4> QED
        BY <1>2, <3>2, <4>2 DEF Phase
    <3>3. CASE op = "savePrivate" /\ l.failed
      <4>1. Backward(p, l, ident, config, hist)
        BY <1>1, <3>3 DEF Phase
      <4>2. Backward(q, l, [ident EXCEPT ![l.pool.path].priv = l.new.priv], config, hist)
        BY <1>1, <2>1, <3>3, <4>1, BackwardPrivate
      <4> QED
        BY <1>2, <3>3, <4>2 DEF Phase
    <3>4. CASE op = "savePublic" /\ l.failed
      <4>1. Backward(p, l, ident, config, hist)
        BY <1>1, <3>4 DEF Phase
      <4>2. Backward(q, l, [ident EXCEPT ![l.pool.path].pub = l.new.pub], config, hist)
        BY <1>1, <2>1, <3>4, <4>1, BackwardPublic
      <4> QED
        BY <1>2, <3>4, <4>2 DEF Phase
    <3> QED
      BY <3>1, <3>2, <3>3, <3>4 DEF SaveOps
  <2>3. prog' = [prog EXCEPT ![t] = q] /\ local' = [local EXCEPT ![t] = Left(q, l)]
    BY <1>2 DEF Advance, Continue, Left
  <2> QED
    BY <1>1, <2>2, <2>3 DEF Proceeds
<1>3. CASE SavePrivate(t)
  BY <1>2, <1>3 DEF SavePrivate, memVars, SaveOps
<1>4. CASE SavePublic(t)
  <2>1. [l EXCEPT !.keep = IF l.op = "bootstrap" /\ lock # t THEN l.pool ELSE l.keep] = l
    BY <1>1 DEF LocalRec
  <2>2. Advance(t, l)
    BY <1>4, <2>1 DEF SavePublic
  <2> QED
    BY <1>2, <1>4, <2>2 DEF SavePublic, memVars, SaveOps
<1> QED
  BY <1>3, <1>4

(***************************************************************************)
(* The configuration is written.                                           *)
(***************************************************************************)
LEMMA RestoreNewConfig ==
    ASSUME NEW t \in Task, Restores(t), NewConfig(t)
    PROVE  Proceeds(t)
<1> DEFINE p == prog[t]
           l == local[t]
           c == IF Head(p).which = "pre" THEN l.pre ELSE l.cfg
           m == [l EXCEPT !.cfg = c]
<1>1. At(t, "newConfig") /\ Advance(t, m) /\ config' = c /\ ident' = ident
  BY DEF NewConfig, diskVars
<1>2. /\ p \in Seq(StepRec) /\ p # <<>> /\ p[1].op = "newConfig" /\ p[1] = Head(p) /\ 1 \in 1..Len(p)
      /\ Len(p) \in Nat /\ l \in LocalRec /\ Sound(p, l) /\ Rest(Tail(p), p, 1) /\ 1..1 = {1}
      /\ Found(hist) /\ l.op = "restore"
  BY <1>1, Ready DEF Restores
<1>3. /\ m.op = l.op /\ m.failed = l.failed /\ m.new = l.new /\ m.pool = l.pool
      /\ m.cfg = c /\ m.pre = l.pre /\ m.prior = l.prior /\ m.keep = l.keep
  BY <1>2 DEF LocalRec
<1> HIDE DEF m
<1>4. CASE l.failed
  <2>1. Backward(p, l, ident, config, hist)
    BY <1>4 DEF Restores, Phase
  <2>2. c = hist.config
    BY <1>2, <2>1 DEF Backward
  <2>3. config' = IF p[1].op = "newConfig" THEN hist.config ELSE config
    BY <1>1, <1>2, <2>2
  <2>4. \A after : after = (IF p[1].op = "newConfig" THEN hist.config ELSE config) =>
                      Backward(Tail(p), m, ident, after, hist)
    BY <1>2, <1>3, <2>1, BackwardRest
  <2>5. Phase(Tail(p), m, ident', config', hist)
    BY <1>1, <1>3, <1>4, <2>3, <2>4 DEF Phase
  <2> DEFINE q == Tail(p)
  <2>6. prog' = [prog EXCEPT ![t] = q] /\ local' = [local EXCEPT ![t] = Left(q, m)]
    BY <1>1 DEF Advance, Continue, Left
  <2> QED
    BY <1>2, <1>3, <2>5, <2>6 DEF Proceeds
<1>5. CASE ~ l.failed
  <2>1. Forward(p, l, ident, config, hist)
    BY <1>5 DEF Restores, Phase
  <2>2. Recorded(l, config, hist)
    <3>1. ~ First(p, "config")
      BY <1>2 DEF First
    <3> QED
      BY <2>1, <3>1, ForwardRecorded
  <2>3. c \in Near(hist)
    <3>1. l.pre \in Near(hist)
      BY <2>2 DEF Recorded, Near
    <3> QED
      BY <2>2, <3>1 DEF Recorded
  <2>4. l.keep # NoPool
    <3>1. ASSUME NEW j \in 1..Len(p), Is(p, j, "private", "prior") PROVE FALSE
      <4>1. 1 \in 1..j
        BY <1>2
      <4> QED
        BY <1>2, <2>1, <3>1, <4>1 DEF Forward, Framed
    <3> QED
      BY <1>2, <3>1 DEF Sound, Kept
  <2>5. Recorded(m, config', hist)
    BY <1>1, <1>3, <2>2, <2>3, <2>4 DEF Recorded
  <2>6. Ahead(p, 0) /\ m.pool # NoPool => m.pool.path = hist.config.path
    BY <1>3, <2>1 DEF Forward, Noted
  <2> DEFINE q == Tail(p)
  <2>7. /\ Rest(q, p, 1) /\ Continue(t, q, m) /\ ~ Is(p, 1, "public", "prior")
        /\ \A i \in 1..1 : p[i].op \notin SaveOps
    BY <1>1, <1>2 DEF Advance, Is, SaveOps
  <2> HIDE DEF q
  <2> QED
    BY <1>1, <1>2, <1>3, <1>5, <2>5, <2>6, <2>7, GoesOn
<1> QED
  BY <1>4, <1>5

(***************************************************************************)
(* The pool and the node are dropped.                                      *)
(***************************************************************************)
LEMMA RestoreDrop ==
    ASSUME NEW t \in Task, Restores(t), DropPool(t) \/ DropNode(t)
    PROVE  Proceeds(t)
<1> DEFINE p == prog[t]
           l == local[t]
<1>1. PICK op \in {"dropPool", "dropNode"} :
         At(t, op) /\ Advance(t, l) /\ config' = config /\ ident' = ident
  BY DEF DropPool, DropNode, diskVars
<1>2. /\ p \in Seq(StepRec) /\ p # <<>> /\ p[1].op = op /\ Sound(p, l) /\ l.op = "restore"
  BY <1>1, Ready DEF Restores
<1>3. CASE l.failed
  <2>1. Backward(p, l, ident, config, hist)
    BY <1>3 DEF Restores, Phase
  <2>2. \A after : after = (IF p[1].op = "newConfig" THEN hist.config ELSE config) =>
                      Backward(Tail(p), l, ident, after, hist)
    BY <1>1, <1>2, <2>1, BackwardRest
  <2>3. config' = IF p[1].op = "newConfig" THEN hist.config ELSE config
    BY <1>1, <1>2
  <2>4. Phase(Tail(p), l, ident', config', hist)
    BY <1>1, <1>3, <2>2, <2>3 DEF Phase
  <2> DEFINE q == Tail(p)
  <2>5. prog' = [prog EXCEPT ![t] = q] /\ local' = [local EXCEPT ![t] = Left(q, l)]
    BY <1>1 DEF Advance, Continue, Left
  <2> QED
    BY <1>2, <2>4, <2>5 DEF Proceeds
<1>4. CASE ~ l.failed
  <2>1. op \notin SaveOps \cup {"config", "public"}
    BY DEF SaveOps
  <2> QED
    BY <1>1, <1>4, <2>1, GoesPlainly
<1> QED
  BY <1>3, <1>4

(***************************************************************************)
(* The registration, answered or refused; the marker is not looked at.     *)
(***************************************************************************)
LEMMA RestoreNetwork ==
    ASSUME NEW t \in Task, Restores(t), Network(t) \/ CheckMarker(t)
    PROVE  Proceeds(t)
<1> DEFINE p == prog[t]
           l == local[t]
<1>1. PICK op \in {"network", "marked"} :
         /\ At(t, op) /\ config' = config /\ ident' = ident
         /\ op = "network" => Advance(t, l) \/ Continue(t, <<>>, Idle)
  BY DEF Network, CheckMarker, memVars, diskVars
<1>2. /\ p \in Seq(StepRec) /\ p # <<>> /\ p[1].op = op /\ 1 \in 1..Len(p) /\ Sound(p, l)
      /\ l.op = "restore" /\ ~ l.failed
  BY <1>1, Ready DEF Restores, SaveOps, UndoOps
<1>3. Forward(p, l, ident, config, hist)
  BY <1>2 DEF Restores, Phase
<1>4. op = "network"
  BY <1>2, <1>3 DEF Forward, Framed
<1>5. CASE Advance(t, l)
  BY <1>1, <1>2, <1>4, <1>5, GoesPlainly DEF SaveOps
<1>6. CASE Continue(t, <<>>, Idle)
  <2>1. prog' = [prog EXCEPT ![t] = <<>>] /\ local' = [local EXCEPT ![t] = Left(<<>>, l)]
    BY <1>6 DEF Continue, Left
  <2>2. CASE l.keep = NoPool
    BY <2>1, <2>2 DEF Proceeds
  <2>3. CASE l.keep # NoPool
    <3>1. ~ Ahead(p, 0) /\ ~ First(p, "savePublic") /\ ~ First(p, "config")
      <4>1. ASSUME NEW j \in 1..Len(p), p[j].op = "savePrivate" PROVE FALSE
        <5>1. 1 \in 1..j
          OBVIOUS
        <5> QED
          BY <1>2, <1>3, <1>4, <4>1, <5>1 DEF Forward, Framed
      <4> QED
        BY <1>2, <1>4, <4>1 DEF Ahead, First
    <3>2. Recorded(l, config, hist)
      BY <1>3, <3>1, ForwardRecorded
    <3>3. /\ Framed(<<>>) /\ ~ Ahead(<<>>, 0) /\ ~ First(<<>>, "savePublic")
          /\ ~ First(<<>>, "config") /\ ~ First(<<>>, "private") /\ ~ Prelude(<<>>)
      BY DEF Framed, Ahead, First, Prelude, Is
    <3>4. Noted(<<>>, l, hist)
      BY <2>3, <3>2, <3>3 DEF Noted, Recorded
    <3>5. Replaced(<<>>, l, ident, hist)
      BY <1>3, <3>1, <3>3 DEF Forward, Replaced
    <3>6. Forward(<<>>, l, ident', config', hist)
      BY <1>1, <2>3, <3>2, <3>3, <3>4, <3>5 DEF Forward, Recorded
    <3>7. Phase(<<>>, l, ident', config', hist)
      BY <1>2, <3>6 DEF Phase
    <3> QED
      BY <1>2, <2>1, <3>7 DEF Proceeds
  <2> QED
    BY <2>2, <2>3
<1> QED
  BY <1>1, <1>4, <1>5, <1>6

(***************************************************************************)
(* A step of a restore fails.                                              *)
(***************************************************************************)
LEMMA RestoreFail ==
    ASSUME NEW t \in Task, Restores(t), HistOK, Fail(t), hist'.clean
    PROVE  Proceeds(t)
<1> DEFINE p == prog[t]
           l == local[t]
<1>1. PICK op \in {"public", "savePrivate", "savePublic", "clearPrivate", "build",
                   "saveConfig", "network", "card", "mark"} : At(t, op)
  BY DEF Fail
<1>2. /\ p \in Seq(StepRec) /\ p # <<>> /\ p[1].op = op /\ p[1] \in StepRec /\ p[1] = Head(p)
      /\ l \in LocalRec /\ Sound(p, l) /\ l.op = "restore" /\ Good
      /\ l.failed => op \in SaveOps \cup UndoOps \cup {"dropNode"}
  BY <1>1, Ready DEF Restores
<1>3. ~ Ignored(t)
  <2>1. hist' = [hist EXCEPT !.clean = hist.clean /\ ~ Ignored(t),
                     !.wiped = hist.wiped \/ Head(p).op = "clearPrivate"
                               \/ (Head(p).op = "savePublic" /\ local[t].keep = NoPool)]
    BY FailCases
  <2>2. hist'.clean = (hist.clean /\ ~ Ignored(t))
    BY <2>1 DEF HistOK
  <2> QED
    BY <2>2
<1>4. ~ l.failed
  <2> SUFFICES ASSUME l.failed PROVE FALSE
    OBVIOUS
  <2>1. op \in SaveOps
    BY <1>1, <1>2, <1>3 DEF UndoOps, Ignored
  <2>2. Undoing(p) /\ 1 \in 1..Len(p)
    BY <1>2, <2>1, Cuts DEF Sound, Undo
  <2>3. p[1].undo = TRUE
    BY <1>2, <2>1, <2>2 DEF Undoing, UndoOps, SaveOps
  <2> QED
    BY <1>2, <1>3, <2>1, <2>3 DEF SaveOps, Ignored
<1>5. /\ lock = t => LeaveGetNode(t)
      /\ lock # t /\ Tried(t) => Continue(t, AfterNode(t), l)
      /\ lock # t /\ ~ Tried(t) => Abort(t)
      /\ config' = config /\ ident' = ident
  BY <1>3, FailCases
<1>6. ASSUME Continue(t, AfterNode(t), l), Entering(p, 1) PROVE Proceeds(t)
  <2>1. p[1].op # "config" /\ SameNotes(l, l)
    BY <1>1, <1>2 DEF SameNotes
  <2> QED
    BY <1>2, <1>4, <1>5, <1>6, <2>1, GoesPast
<1>7. CASE lock = t
  <2>1. Continue(t, AfterNode(t), l)
    BY <1>2, <1>5, <1>7 DEF LeaveGetNode
  <2>2. Inside(p, 1)
    BY <1>1, <1>2, <1>7, Locked
  <2> QED
    BY <1>6, <2>1, <2>2 DEF Entering
<1>8. CASE lock # t /\ Tried(t)
  <2>1. Entering(p, 1)
    BY <1>2, <1>8 DEF Entering, Use, Tried
  <2> QED
    BY <1>5, <1>6, <1>8, <2>1
<1>9. CASE lock # t /\ ~ Tried(t)
  <2>1. ~ First(p, "config")
    BY <1>1, <1>2 DEF First
  <2> QED
    BY <1>4, <1>5, <1>9, <2>1, RestoreAbort
<1> QED
  BY <1>7, <1>8, <1>9

(***************************************************************************)
(* A step of a restore, as long as nothing disturbs it.                    *)
(***************************************************************************)
LEMMA RestoreStep ==
    ASSUME NEW t \in Task, Restores(t), HistOK, TaskStep(t), ~ Serve(t), hist'.clean, ~ hist'.wiped
    PROVE  Proceeds(t)
<1>1. ~ ClearPrivate(t)
  <2> SUFFICES ASSUME ClearPrivate(t) PROVE FALSE
    OBVIOUS
  <2>1. hist' = [hist EXCEPT !.wiped = TRUE]
    BY DEF ClearPrivate
  <2>2. hist'.wiped = TRUE
    BY <2>1 DEF HistOK
  <2> QED
    BY <2>2
<1>2. ~ ClearPublic(t)
  <2> SUFFICES ASSUME ClearPublic(t) PROVE FALSE
    OBVIOUS
  <2>1. At(t, "clearPublic")
    BY DEF ClearPublic
  <2> QED
    BY <2>1, Ready DEF Restores, Sound
<1>3. CASE Fail(t)
  BY <1>3, RestoreFail
<1>4. CASE GetBaseConfig(t) \/ GetOrCreatePool(t) \/ GetNodeFast(t) \/ GetNodeSlow(t)
  BY <1>4, RestoreConfig, RestorePool, RestoreFast
<1>5. CASE LoadPublic(t) \/ LoadPrivate(t) \/ SavePrivate(t) \/ SavePublic(t)
  BY <1>5, RestorePublic, RestorePrivate, RestoreSave
<1>6. CASE Build(t) \/ SaveNodeConfig(t) \/ DropConfig(t) \/ SaveCard(t) \/ ClearProfile(t)
           \/ SetMarker(t)
  BY <1>6, RestoreFiles
<1>7. CASE NewConfig(t) \/ DropPool(t) \/ DropNode(t) \/ Network(t) \/ CheckMarker(t)
  BY <1>7, RestoreNewConfig, RestoreDrop, RestoreNetwork
<1> QED
  BY <1>1, <1>2, <1>3, <1>4, <1>5, <1>6, <1>7 DEF TaskStep

-----------------------------------------------------------------------------
(* The other tasks, and the history                                        *)

(***************************************************************************)
(* What a step of an operation leaves of the history.                      *)
(***************************************************************************)
LEMMA HistKept ==
    ASSUME HistOK, hist.clean \in BOOLEAN, NEW t \in Task, TaskStep(t), ~ Serve(t)
    PROVE  /\ hist'.ident = hist.ident /\ hist'.config = hist.config
           /\ hist'.clean \in BOOLEAN /\ (hist'.clean => hist.clean)
           /\ hist.wiped => hist'.wiped
<1>1. CASE Fail(t)
  <2>1. PICK dirty, wipe : hist' = [hist EXCEPT !.clean = hist.clean /\ ~ dirty,
                                        !.wiped = hist.wiped \/ wipe]
    <3>1. PICK s : s = Head(prog[t])
      OBVIOUS
    <3>2. hist' = [hist EXCEPT !.clean = hist.clean /\ ~ Ignored(t),
                       !.wiped = hist.wiped \/ (s.op = "clearPrivate"
                                 \/ (s.op = "savePublic" /\ local[t].keep = NoPool))]
      BY <1>1, <3>1, FailCases
    <3> QED
      BY <3>2
  <2>2. /\ hist'.clean = (hist.clean /\ ~ dirty) /\ hist'.wiped = (hist.wiped \/ wipe)
        /\ hist'.ident = hist.ident /\ hist'.config = hist.config
    BY <2>1 DEF HistOK
  <2> QED
    BY <2>2
<1>2. CASE ClearPrivate(t)
  <2>1. hist' = [hist EXCEPT !.wiped = TRUE]
    BY <1>2 DEF ClearPrivate
  <2> QED
    BY <2>1 DEF HistOK
<1>3. CASE hist' = hist
  BY <1>3
<1> QED
  BY <1>1, <1>2, <1>3
     DEF TaskStep, GetBaseConfig, GetOrCreatePool, GetNodeFast, GetNodeSlow, Build, LoadPublic,
         LoadPrivate, SavePrivate, SavePublic, ClearPublic, SaveCard, ClearProfile, NewConfig,
         DropPool, DropNode, SaveNodeConfig, DropConfig, Network, CheckMarker, SetMarker

\* It goes on with it, or ends it.
Stays(t) == \E q, m : Continue(t, q, m) /\ (m.op = local[t].op \/ q = <<>>)

(***************************************************************************)
(* A step of an operation is one of its task, which goes on with it or     *)
(* ends it.                                                                *)
(***************************************************************************)
LEMMA OpStays ==
    ASSUME Good, NEW t \in Task, TaskStep(t), ~ Serve(t)
    PROVE  Stays(t)
<1> DEFINE l == local[t]
<1>1. l \in LocalRec
  BY DEF Good, Types
<1>3. ASSUME NEW q, NEW m, Continue(t, q, m), m.op = l.op PROVE Stays(t)
  BY <1>3 DEF Stays
<1>4. ASSUME NEW m, Advance(t, m), m.op = l.op PROVE Stays(t)
  <2>1. Continue(t, Tail(prog[t]), m)
    BY <1>4 DEF Advance
  <2> QED
    BY <1>4, <2>1 DEF Stays
<1>5. ASSUME NEW m, Continue(t, <<>>, m) PROVE Stays(t)
  BY <1>5 DEF Stays
<1>6. ASSUME Abort(t) PROVE Stays(t)
  <2>1. Kept(prog[t], l)
    BY DEF Good, Sound
  <2>2. CASE l.keep = NoPool
    <3>1. Continue(t, <<>>, Idle)
      BY <1>6, <2>2 DEF Abort
    <3> QED
      BY <1>5, <3>1
  <2>3. CASE l.keep # NoPool /\ l.op = "restore"
    <3> DEFINE f == [l EXCEPT !.pool = l.keep, !.failed = TRUE]
               m == [f EXCEPT !.new = f.prior]
    <3>1. Continue(t, RestoreRollback(f.prior), m)
      BY <1>6, <2>3 DEF Abort
    <3>2. m.op = l.op
      BY <1>1 DEF LocalRec
    <3> HIDE DEF f, m
    <3> QED
      BY <1>3, <3>1, <3>2
  <2>4. CASE l.keep # NoPool /\ l.op = "bootstrap"
    <3> DEFINE m == [l EXCEPT !.pool = l.keep, !.failed = TRUE]
    <3>1. Continue(t, BootstrapRollback, m)
      BY <1>6, <2>4 DEF Abort
    <3>2. m.op = l.op
      BY <1>1 DEF LocalRec
    <3> HIDE DEF m
    <3> QED
      BY <1>3, <3>1, <3>2
  <2> QED
    BY <2>1, <2>2, <2>3, <2>4 DEF Kept
<1>7. ASSUME LeaveGetNode(t) PROVE Stays(t)
  <2>1. CASE l.op = "bootstrap"
    <3>1. Abort(t)
      BY <1>7, <2>1 DEF LeaveGetNode
    <3> QED
      BY <1>6, <3>1
  <2>2. CASE l.op # "bootstrap"
    <3>1. Continue(t, AfterNode(t), l)
      BY <1>7, <2>2 DEF LeaveGetNode
    <3> QED
      BY <1>3, <3>1
  <2> QED
    BY <2>1, <2>2
<1>8. CASE Fail(t)
  <2>1. CASE Ignored(t)
    <3>1. \E q : Continue(t, q, l)
      BY <1>8, <2>1, FailCases
    <3> QED
      BY <1>3, <3>1
  <2>2. CASE ~ Ignored(t)
    <3>1. LeaveGetNode(t) \/ Abort(t) \/ Continue(t, AfterNode(t), l)
      BY <1>8, <2>2, FailCases
    <3> QED
      BY <1>3, <1>6, <1>7, <3>1
  <2> QED
    BY <2>1, <2>2
<1>9. CASE Advance(t, l)
  BY <1>4, <1>9
<1>10. CASE GetBaseConfig(t)
  <2>1. PICK c, d : Advance(t, [l EXCEPT !.cfg = c, !.pre = d])
    <3>1. Advance(t, [l EXCEPT !.cfg = Edited(config, Head(prog[t]).edit),
                               !.pre = IF Head(prog[t]).edit = "pre" THEN config ELSE l.pre])
      BY <1>10 DEF GetBaseConfig
    <3> QED
      BY <3>1
  <2>2. [l EXCEPT !.cfg = c, !.pre = d].op = l.op
    BY <1>1 DEF LocalRec
  <2> QED
    BY <1>4, <2>1, <2>2
<1>11. CASE GetOrCreatePool(t)
  <2>1. Advance(t, [l EXCEPT !.pool = pool'])
    BY <1>11 DEF GetOrCreatePool
  <2>2. [l EXCEPT !.pool = pool'].op = l.op
    BY <1>1 DEF LocalRec
  <2> QED
    BY <1>4, <2>1, <2>2
<1>12. CASE GetNodeFast(t) \/ GetNodeSlow(t)
  <2>1. Continue(t, AfterNode(t), [l EXCEPT !.pool = slot.pool]) \/ Advance(t, l)
    BY <1>12 DEF GetNodeFast, GetNodeSlow
  <2>2. [l EXCEPT !.pool = slot.pool].op = l.op
    BY <1>1 DEF LocalRec
  <2> QED
    BY <1>3, <1>4, <2>1, <2>2
<1>13. CASE LoadPublic(t)
  <2>1. PICK x : Advance(t, [l EXCEPT !.read = x])
    BY <1>13 DEF LoadPublic
  <2>2. [l EXCEPT !.read = x].op = l.op
    BY <1>1 DEF LocalRec
  <2> QED
    BY <1>4, <2>1, <2>2
<1>14. CASE LoadPrivate(t)
  <2>1. PICK r \in LocalRec : r = With(t)
    BY <1>14, SeenTypes
  <2>2. PICK x \in Pair : x = Seen(t)
    BY <1>14, SeenTypes
  <2>3. r.op = l.op
    BY <1>14, <2>1, SeenTypes
  <2>4. \A a, b : /\ [r EXCEPT !.prior = a, !.keep = b].op = l.op
                  /\ [r EXCEPT !.new = a].op = l.op
                  /\ [r EXCEPT !.new = a, !.keep = b].op = l.op
                  /\ [r EXCEPT !.signer = a].op = l.op
    BY <2>3 DEF LocalRec
  <2>5. At(t, "private")
    BY <1>14 DEF LoadPrivate
  <2>6. /\ prog[t][1] = Head(prog[t]) /\ prog[t][1] \in StepRec /\ prog[t][1].op = "private"
        /\ Creates(t) /\ prog[t] # <<>> /\ 1 \in 1..Len(prog[t])
    BY <2>5, Ready
  <2> DEFINE use == Head(prog[t]).use
  <2>7. use \in Uses /\ Use(prog[t][1]) = use
    BY <2>6, StepTypes
  <2>8. use = "node" => Complete(x)
    <3> SUFFICES ASSUME use = "node" PROVE Complete(x)
      OBVIOUS
    <3>1. Inside(prog[t], 1) /\ Is(prog[t], 1, "private", "node")
      BY <2>6, <2>7 DEF Inside, Is
    <3>2. Complete(ident[l.pool.path]) /\ l.read.pub # NoKey
      BY <2>6, <3>1 DEF Creates, Agrees
    <3>3. Seen(t).priv = ident[l.pool.path].priv /\ Seen(t).pub = l.read.pub
      BY <1>14, SeenTypes
    <3> QED
      BY <2>2, <3>2, <3>3 DEF Complete
  <2>9. /\ use = "any" => Advance(t, r)
        /\ use = "need" /\ ~ Complete(x) => Abort(t)
        /\ use = "try" /\ ~ Complete(x) => Continue(t, AfterNode(t), r)
        /\ use \in {"need", "try"} /\ Complete(x) => Advance(t, r)
        /\ use = "prior" => Advance(t, [r EXCEPT !.prior = x, !.keep = r.pool])
        /\ use = "mint" /\ ~ Complete(x) => \E i \in Fresh : Advance(t, [r EXCEPT !.new = Whole(i)])
        /\ use = "mint" /\ Complete(x) => Continue(t, SubSeq(prog[t], 4, Len(prog[t])),
                                                   [r EXCEPT !.new = x, !.keep = r.pool])
        /\ use = "signer" /\ ~ Complete(x) => LeaveGetNode(t)
        /\ use = "signer" /\ Complete(x) => Advance(t, [r EXCEPT !.signer = x])
        /\ use = "node" /\ Complete(x) => Advance(t, r)
    BY <1>14, <2>1, <2>2, SeenCases
  <2> HIDE DEF use
  <2>10. CASE use \in {"any", "need", "try", "node"}
    BY <1>3, <1>4, <1>6, <2>3, <2>8, <2>9, <2>10
  <2>11. CASE use = "prior"
    BY <1>4, <2>4, <2>9, <2>11
  <2>12. CASE use = "mint"
    <3>1. CASE Complete(x)
      <4>1. PICK q : Continue(t, q, [r EXCEPT !.new = x, !.keep = r.pool])
        BY <2>9, <2>12, <3>1
      <4> QED
        BY <1>3, <2>4, <4>1
    <3>2. CASE ~ Complete(x)
      <4>1. PICK i : Advance(t, [r EXCEPT !.new = Whole(i)])
        BY <2>9, <2>12, <3>2
      <4> QED
        BY <1>4, <2>4, <4>1
    <3> QED
      BY <3>1, <3>2
  <2>13. CASE use = "signer"
    BY <1>4, <1>7, <2>4, <2>9, <2>13
  <2> QED
    BY <2>7, <2>10, <2>11, <2>12, <2>13 DEF Uses
<1>15. CASE SavePublic(t)
  <2>1. PICK k : Advance(t, [l EXCEPT !.keep = k])
    <3>1. Advance(t, [l EXCEPT !.keep = IF l.op = "bootstrap" /\ lock # t THEN l.pool ELSE l.keep])
      BY <1>15 DEF SavePublic
    <3> QED
      BY <3>1
  <2>2. [l EXCEPT !.keep = k].op = l.op
    BY <1>1 DEF LocalRec
  <2> QED
    BY <1>4, <2>1, <2>2
<1>16. CASE NewConfig(t)
  <2>1. PICK c : Advance(t, [l EXCEPT !.cfg = c])
    BY <1>16 DEF NewConfig
  <2>2. [l EXCEPT !.cfg = c].op = l.op
    BY <1>1 DEF LocalRec
  <2> QED
    BY <1>4, <2>1, <2>2
<1>17. CASE Network(t) \/ CheckMarker(t)
  <2>1. Advance(t, l) \/ Continue(t, <<>>, Idle) \/ \E q : Continue(t, q, l)
    BY <1>17 DEF Network, CheckMarker
  <2> QED
    BY <1>3, <1>4, <1>5, <2>1
<1> QED
  <2> HIDE DEF l
  <2> QED
    BY <1>8, <1>9, <1>10, <1>11, <1>12, <1>13, <1>14, <1>15, <1>16, <1>17
       DEF TaskStep, Build, SavePrivate, ClearPrivate, ClearPublic, SaveCard, ClearProfile,
           DropPool, DropNode, SaveNodeConfig, DropConfig, SetMarker, l

(***************************************************************************)
(* So the other tasks are what they were.                                  *)
(***************************************************************************)
LEMMA StaysAlone ==
    ASSUME Good, NEW t \in Task, Stays(t)
    PROVE  /\ local'[t].op \in {local[t].op, "none"}
           /\ \A u \in Task \ {t} : prog'[u] = prog[u] /\ local'[u] = local[u]
<1>1. PICK q, m : Continue(t, q, m) /\ (m.op = local[t].op \/ q = <<>>)
  BY DEF Stays
<1>2. prog' = [prog EXCEPT ![t] = q] /\ local' = [local EXCEPT ![t] = Left(q, m)]
  BY <1>1 DEF Continue, Left
<1>3. Left(q, m).op \in {local[t].op, "none"}
  BY <1>1 DEF Left, Idle
<1>4. prog \in [Task -> Seq(StepRec)] /\ local \in [Task -> LocalRec]
  BY DEF Good, Types
<1> HIDE DEF Left
<1> QED
  BY <1>2, <1>3, <1>4

(***************************************************************************)
(* A step is one of a task that has a program.                             *)
(***************************************************************************)
LEMMA Busy ==
    ASSUME Good, NEW t \in Task, TaskStep(t), ~ Serve(t)
    PROVE  prog[t] # <<>> /\ local[t].op # "none"
<1>1. \E op : At(t, op)
  BY DEF TaskStep, Fail, GetBaseConfig, GetOrCreatePool, GetNodeFast, GetNodeSlow, Build, LoadPublic,
         LoadPrivate, SavePrivate, SavePublic, ClearPrivate, ClearPublic, SaveCard, ClearProfile,
         NewConfig, DropPool, DropNode, SaveNodeConfig, DropConfig, Network, CheckMarker, SetMarker
<1>2. prog[t] # <<>>
  BY <1>1 DEF At
<1> QED
  BY <1>2 DEF Good, Sound

(***************************************************************************)
(* What is left of a program that only asks for the node.                  *)
(***************************************************************************)
LEMMA ServingRest ==
    ASSUME NEW p \in Seq(StepRec), Serving(p), NEW q, NEW n, Rest(q, p, n)
    PROVE  Serving(q)
<1>1. \A j \in 1..Len(q) : j + n \in 1..Len(p) /\ q[j] = p[j + n]
  BY DEF Rest
<1> QED
  BY <1>1 DEF Serving

(***************************************************************************)
(* A request changes no identity and no configuration.                     *)
(***************************************************************************)
LEMMA RequestKept ==
    ASSUME Good, NEW t \in Task, TaskStep(t), ~ Serve(t), local[t].op = "request", Serving(prog[t])
    PROVE  ident' = ident /\ config' = config /\ Serving(prog'[t])
<1> DEFINE p == prog[t]
           l == local[t]
           done == \E q : prog' = [prog EXCEPT ![t] = q] /\ Serving(q)
<1>1. /\ p \in Seq(StepRec) /\ p # <<>> /\ Flow(p) /\ Sound(p, l) /\ l \in LocalRec
      /\ Rest(Tail(p), p, 1) /\ 1 \in 1..Len(p) /\ Head(p) = p[1] /\ p[1] \in StepRec
  BY Busy, Cuts DEF Good, Sound
<1>2. p[1].op \in NodeOps \cup {"build"}
  BY <1>1 DEF Serving
<1>3. ASSUME NEW q, NEW m, NEW n, Continue(t, q, m), Rest(q, p, n) PROVE done
  <2>1. Serving(q)
    BY <1>1, <1>3, ServingRest
  <2> QED
    BY <1>3, <2>1 DEF Continue
<1>4. ASSUME NEW m, Advance(t, m) PROVE done
  <2>1. Continue(t, Tail(p), m)
    BY <1>4 DEF Advance
  <2> QED
    BY <1>1, <1>3, <2>1
<1>5. ASSUME NEW m, Continue(t, AfterNode(t), m), Entering(p, 1) PROVE done
  <2>1. AfterNode(t) = NodeEnd(p)
    BY DEF AfterNode, NodeEnd
  <2>2. \E n \in 1..Len(p) : Rest(NodeEnd(p), p, n)
    BY <1>1, <1>5, NodeEndRest
  <2> HIDE DEF NodeEnd, done
  <2> QED
    BY <1>3, <1>5, <2>1, <2>2
<1>6. ASSUME Abort(t) PROVE done
  <2>1. l.keep = NoPool
    BY <1>1 DEF Sound, Kept
  <2>2. Continue(t, <<>>, Idle)
    BY <1>6, <2>1 DEF Abort
  <2>3. Serving(<<>>)
    BY DEF Serving
  <2> QED
    BY <2>2, <2>3 DEF Continue
<1>7. ASSUME LeaveGetNode(t), Entering(p, 1) PROVE done
  <2>1. Continue(t, AfterNode(t), l)
    BY <1>7 DEF LeaveGetNode
  <2> QED
    BY <1>5, <1>7, <2>1
<1>8. ASSUME Fail(t) PROVE ident' = ident /\ config' = config /\ done
  <2>1. ~ Ignored(t)
    BY <1>1, <1>2 DEF Ignored, NodeOps
  <2>2. /\ lock = t => LeaveGetNode(t)
        /\ lock # t /\ Tried(t) => Continue(t, AfterNode(t), l)
        /\ lock # t /\ ~ Tried(t) => Abort(t)
        /\ ident' = ident /\ config' = config
    BY <1>8, <2>1, FailCases
  <2>3. ASSUME lock = t PROVE Entering(p, 1)
    <3>1. At(t, p[1].op)
      BY <1>1 DEF At
    <3>2. Inside(p, 1)
      BY <1>2, <2>3, <3>1, Locked DEF NodeOps
    <3> QED
      BY <3>2 DEF Entering
  <2>4. ASSUME Tried(t) PROVE Entering(p, 1)
    BY <1>1, <2>4 DEF Entering, Use, Tried
  <2> HIDE DEF done, p, l
  <2> QED
    BY <1>5, <1>6, <1>7, <2>2, <2>3, <2>4 DEF l
<1>9. ASSUME GetBaseConfig(t) PROVE ident' = ident /\ config' = config /\ done
  BY <1>4, <1>9 DEF GetBaseConfig, memVars, diskVars
<1>10. ASSUME GetOrCreatePool(t) PROVE ident' = ident /\ config' = config /\ done
  BY <1>4, <1>10 DEF GetOrCreatePool, diskVars
<1>11. ASSUME GetNodeFast(t) \/ GetNodeSlow(t) PROVE ident' = ident /\ config' = config /\ done
  <2>1. Continue(t, AfterNode(t), [l EXCEPT !.pool = slot.pool]) \/ Advance(t, l)
    BY <1>11 DEF GetNodeFast, GetNodeSlow
  <2>2. Entering(p, 1)
    BY <1>1, <1>11 DEF GetNodeFast, GetNodeSlow, At, Entering
  <2>3. ident' = ident /\ config' = config
    BY <1>11 DEF GetNodeFast, GetNodeSlow, memVars, diskVars
  <2> HIDE DEF done
  <2> QED
    BY <1>4, <1>5, <2>1, <2>2, <2>3
<1>12. ASSUME Build(t) PROVE ident' = ident /\ config' = config /\ done
  BY <1>4, <1>12 DEF Build, diskVars
<1>13. ASSUME LoadPublic(t) PROVE ident' = ident /\ config' = config /\ done
  BY <1>4, <1>13 DEF LoadPublic, memVars, diskVars
<1>14. ASSUME LoadPrivate(t) PROVE ident' = ident /\ config' = config /\ done
  <2>1. ident' = ident /\ config' = config /\ At(t, "private")
    BY <1>14 DEF LoadPrivate, memVars, diskVars
  <2>2. PICK r : r = With(t)
    OBVIOUS
  <2>3. PICK x : x = Seen(t)
    OBVIOUS
  <2> DEFINE use == Head(p).use
  <2>4. use \in Uses /\ Use(p[1]) = use /\ p[1].op = "private"
    BY <1>1, <2>1, StepTypes DEF At
  <2>5. use \notin {"mint", "prior"}
    <3>1. NormalAt(p, l.op, 1)
      <4>1. ~ l.failed
        BY <2>1, <2>4, Ready DEF SaveOps, UndoOps
      <4> QED
        BY <1>1, <4>1 DEF Sound, Normal
    <3> QED
      BY <1>1, <2>4, <3>1 DEF NormalAt, Is
  <2>6. use = "node" => Complete(x)
    <3> SUFFICES ASSUME use = "node" PROVE Complete(x)
      OBVIOUS
    <3>1. Inside(p, 1) /\ Is(p, 1, "private", "node")
      BY <1>1, <2>4 DEF Inside, Is
    <3>2. Complete(ident[l.pool.path]) /\ l.read.pub # NoKey
      BY <1>1, <3>1 DEF Good, Creates, Agrees
    <3>3. Seen(t).priv = ident[l.pool.path].priv /\ Seen(t).pub = l.read.pub
      BY <1>14, SeenTypes
    <3> QED
      BY <2>3, <3>2, <3>3 DEF Complete
  <2>7. /\ use = "any" => Advance(t, r)
        /\ use = "need" /\ ~ Complete(x) => Abort(t)
        /\ use = "try" /\ ~ Complete(x) => Continue(t, AfterNode(t), r)
        /\ use \in {"need", "try"} /\ Complete(x) => Advance(t, r)
        /\ use = "signer" /\ ~ Complete(x) => LeaveGetNode(t)
        /\ use = "signer" /\ Complete(x) => Advance(t, [r EXCEPT !.signer = x])
        /\ use = "node" /\ Complete(x) => Advance(t, r)
    BY <1>14, <2>2, <2>3, SeenCases
  <2>8. use \in {"try", "signer"} => Entering(p, 1)
    BY <2>4 DEF Entering, Inside
  <2> HIDE DEF done, use, p, l
  <2>9. CASE use \in {"any", "need", "node"}
    BY <1>4, <1>6, <2>1, <2>6, <2>7, <2>9
  <2>10. CASE use \in {"try", "signer"}
    BY <1>4, <1>5, <1>7, <2>1, <2>7, <2>8, <2>10
  <2> QED
    BY <2>4, <2>5, <2>9, <2>10 DEF Uses
<1>15. ident' = ident /\ config' = config /\ done
  <2>1. ~ \E op : At(t, op) /\ op \notin NodeOps \cup {"build"}
    BY <1>1, <1>2 DEF At
  <2>2. Fail(t) \/ GetBaseConfig(t) \/ GetOrCreatePool(t) \/ GetNodeFast(t) \/ GetNodeSlow(t)
        \/ Build(t) \/ LoadPublic(t) \/ LoadPrivate(t)
    BY <2>1 DEF TaskStep, SavePrivate, SavePublic, ClearPrivate, ClearPublic, SaveCard, ClearProfile,
                NewConfig, DropPool, DropNode, SaveNodeConfig, DropConfig, Network, CheckMarker,
                SetMarker, NodeOps
  <2> HIDE DEF done
  <2> QED
    BY <1>8, <1>9, <1>10, <1>11, <1>12, <1>13, <1>14, <2>2
<1>16. prog'[t] \in {q \in {prog'[t]} : Serving(q)}
  <2>1. PICK q : prog' = [prog EXCEPT ![t] = q] /\ Serving(q)
    BY <1>15
  <2>2. prog'[t] = q
    BY <2>1 DEF Good, Types
  <2> QED
    BY <2>1, <2>2
<1> QED
  BY <1>15, <1>16

(***************************************************************************)
(* Only what was found is compared with.                                   *)
(***************************************************************************)
LEMMA PhaseSame ==
    ASSUME NEW p, NEW l, NEW tree, NEW conf, NEW h, NEW k, h.ident = k.ident, h.config = k.config,
           Phase(p, l, tree, conf, h)
    PROVE  Phase(p, l, tree, conf, k)
<1>1. Near(h) = Near(k)
  BY DEF Near
<1> QED
  BY <1>1 DEF Phase, Forward, Backward, Noted, Replaced

-----------------------------------------------------------------------------
(* RestoreInv is inductive                                                 *)

(***************************************************************************)
(* A step of an operation keeps it.                                        *)
(***************************************************************************)
LEMMA RestoreTask ==
    ASSUME Good, HistOK, RestoreInv, ~ hist.wiped, NEW t \in Task, TaskStep(t), ~ Serve(t),
           ~ hist'.wiped
    PROVE  RestoreInv'
<1>1. /\ hist'.ident = hist.ident /\ hist'.config = hist.config
      /\ hist'.clean \in BOOLEAN /\ (hist'.clean => hist.clean)
  BY HistKept DEF RestoreInv
<1>2. /\ local'[t].op \in {local[t].op, "none"}
      /\ \A u \in Task \ {t} : prog'[u] = prog[u] /\ local'[u] = local[u]
      /\ prog[t] # <<>> /\ local[t].op # "none"
  BY Busy, OpStays, StaysAlone
<1>3. Found(hist) /\ \A u \in Task : local[u].op = "request" => Serving(prog[u])
  BY DEF RestoreInv, Found
<1>4. ASSUME NEW u \in Task, local'[u].op = "request" PROVE Serving(prog'[u])
  <2>1. CASE u = t
    <3>1. local[t].op = "request"
      BY <1>2, <1>4, <2>1
    <3> QED
      BY <1>3, <2>1, <3>1, RequestKept
  <2>2. CASE u # t
    BY <1>2, <1>3, <1>4, <2>2
  <2> QED
    BY <2>1, <2>2
<1>5. ASSUME hist'.clean, NEW u \in Task, local'[u].op = "restore"
      PROVE  Alone(u)' /\ Phase(prog'[u], local'[u], ident', config', hist')
  <2>1. local[u].op = "restore"
    <3>1. CASE u = t
      BY <1>2, <1>5, <3>1
    <3>2. CASE u # t
      BY <1>2, <1>5, <3>2
    <3> QED
      BY <3>1, <3>2
  <2>2. Alone(u) /\ Phase(prog[u], local[u], ident, config, hist)
    BY <1>1, <1>5, <2>1 DEF RestoreInv
  <2>3. CASE u = t
    <3>1. Restores(t)
      BY <1>3, <2>1, <2>2, <2>3 DEF Restores
    <3>2. PICK q, m :
             /\ prog' = [prog EXCEPT ![t] = q] /\ local' = [local EXCEPT ![t] = Left(q, m)]
             /\ q = <<>> \/ Phase(q, m, ident', config', hist)
      BY <1>5, <3>1, RestoreStep DEF Proceeds
    <3>3. prog'[t] = q /\ local'[t] = Left(q, m)
      <4>1. prog \in [Task -> Seq(StepRec)] /\ local \in [Task -> LocalRec]
        BY DEF Good, Types
      <4> HIDE DEF Left
      <4> QED
        BY <3>2, <4>1
    <3>4. q # <<>>
      BY <1>5, <2>3, <3>3 DEF Left, Idle
    <3>5. local'[t] = m
      BY <3>3, <3>4 DEF Left
    <3>6. Phase(prog'[t], local'[t], ident', config', hist)
      BY <3>2, <3>3, <3>4, <3>5
    <3>7. Alone(t)'
      BY <1>2, <2>2, <2>3 DEF Alone
    <3> QED
      BY <1>1, <2>3, <3>6, <3>7, PhaseSame
  <2>4. CASE u # t
    <3>1. local[t].op = "request"
      BY <1>2, <2>2, <2>4 DEF Alone
    <3>2. ident' = ident /\ config' = config
      BY <1>3, <3>1, RequestKept
    <3>3. Phase(prog'[u], local'[u], ident', config', hist)
      BY <1>2, <2>2, <2>4, <3>2
    <3>4. Alone(u)'
      BY <1>2, <2>2, <3>1 DEF Alone
    <3> QED
      BY <1>1, <3>3, <3>4, PhaseSame
  <2> QED
    BY <2>3, <2>4
<1> QED
  BY <1>1, <1>3, <1>4, <1>5 DEF RestoreInv, Found

(***************************************************************************)
(* restore_from_phrase begins.                                             *)
(***************************************************************************)
LEMMA RestorePhase ==
    ASSUME NEW tree, NEW conf, NEW h, h.ident = tree, h.config = conf, NEW new, NEW l,
           l = [Idle EXCEPT !.op = "restore", !.new = new]
    PROVE  Phase(RestoreFromPhrase, l, tree, conf, h)
<1> DEFINE p == RestoreFromPhrase
<1>1. Framed(p) /\ Prelude(p) /\ Ahead(p, 0)
  BY RestoreOpens DEF Opens
<1>2. l.failed = FALSE /\ l.keep = NoPool /\ l.pool = NoPool
  BY DEF Idle
<1>3. First(p, "config") /\ ~ First(p, "private")
  BY <1>1 DEF Prelude, First
<1> HIDE DEF p
<1>4. Noted(p, l, h)
  BY <1>1, <1>2, <1>3 DEF Noted
<1>5. Replaced(p, l, tree, h)
  BY <1>1 DEF Replaced
<1>6. Forward(p, l, tree, conf, h)
  BY <1>1, <1>2, <1>4, <1>5 DEF Forward, Near
<1> QED
  BY <1>2, <1>6 DEF Phase, p

(***************************************************************************)
(* What is asked for.                                                      *)
(***************************************************************************)
LEMMA RestoreServe ==
    ASSUME Good, HistOK, RestoreInv, ~ hist.wiped, NEW t \in Task, Serve(t)
    PROVE  RestoreInv'
<1>1. PICK op, new, program :
         /\ Begin(t, op, new, program)
         /\ op = "request" => program = GetNode
         /\ op = "restore" => program = RestoreFromPhrase
         /\ op \in Operators \cup {"request"}
  BY DEF Serve, Operators
<1> DEFINE l == [Idle EXCEPT !.op = op, !.new = new]
<1>2. /\ prog[t] = <<>> /\ prog' = [prog EXCEPT ![t] = program]
      /\ local' = [local EXCEPT ![t] = l] /\ ident' = ident /\ config' = config
  BY <1>1 DEF Begin, memVars, diskVars
<1>3. l.op = op
  BY DEF Idle
<1>4. /\ prog'[t] = program /\ local'[t] = l
      /\ \A u \in Task \ {t} : prog'[u] = prog[u] /\ local'[u] = local[u]
  <2>1. prog \in [Task -> Seq(StepRec)] /\ local \in [Task -> LocalRec]
    BY DEF Good, Types
  <2> HIDE DEF l
  <2> QED
    BY <1>2, <2>1
<1>5. local[t].op = "none"
  BY <1>2 DEF Good, Sound
<1>6. /\ \A u \in Task : local[u].op = "request" => Serving(prog[u])
      /\ hist.ident \in [Path -> Pair] /\ hist.config \in Config /\ hist.clean \in BOOLEAN
  BY DEF RestoreInv
<1> HIDE DEF l
<1>7. \A u \in Task : local'[u].op = "request" => Serving(prog'[u])
  <2> SUFFICES ASSUME NEW u \in Task, local'[u].op = "request" PROVE Serving(prog'[u])
    OBVIOUS
  <2>1. CASE u = t
    BY <1>1, <1>3, <1>4, <2>1, NodeServes
  <2>2. CASE u # t
    BY <1>4, <1>6, <2>2
  <2> QED
    BY <2>1, <2>2
<1>8. CASE op = "request"
  <2>1. hist' = hist
    BY <1>1, <1>8 DEF Begin, Operators
  <2>2. ASSUME hist.clean, NEW u \in Task, local'[u].op = "restore"
        PROVE  Alone(u)' /\ Phase(prog'[u], local'[u], ident', config', hist')
    <3>1. u # t
      BY <1>3, <1>4, <1>8, <2>2
    <3>2. local[u].op = "restore"
      BY <1>4, <2>2, <3>1
    <3>3. Alone(u) /\ Phase(prog[u], local[u], ident, config, hist)
      BY <2>2, <3>2 DEF RestoreInv
    <3>4. Alone(u)'
      BY <1>3, <1>4, <1>8, <3>3 DEF Alone
    <3> QED
      BY <1>2, <1>4, <2>1, <3>1, <3>3, <3>4
  <2> QED
    BY <1>6, <1>7, <2>1, <2>2 DEF RestoreInv
<1>9. CASE op \in Operators
  <2>1. /\ hist'.ident = ident /\ hist'.config = config
        /\ hist'.clean = (hist.clean /\ \A u \in Task \ {t} : local[u].op \notin Operators)
    <3>1. hist' = [hist EXCEPT !.ident = ident, !.config = config,
                       !.clean = hist.clean /\ \A u \in Task \ {t} : local[u].op \notin Operators]
      BY <1>1, <1>9 DEF Begin
    <3> QED
      BY <3>1 DEF HistOK
  <2>2. ident \in [Path -> Pair] /\ config \in Config /\ hist'.clean \in BOOLEAN
    BY <1>6, <2>1 DEF Good, Types
  <2>3. ASSUME hist'.clean, NEW u \in Task, local'[u].op = "restore"
        PROVE  Alone(u)' /\ Phase(prog'[u], local'[u], ident', config', hist')
    <3>1. \A v \in Task \ {t} : local[v].op \in {"none", "request"}
      <4>1. \A v \in Task : local[v].op \in Op
        BY DEF Good, Types, LocalRec
      <4> QED
        BY <2>1, <2>3, <4>1 DEF Op, Operators
    <3>2. u = t
      BY <1>4, <2>3, <3>1
    <3>3. Alone(u)'
      BY <1>4, <3>1, <3>2 DEF Alone
    <3>4. op = "restore"
      BY <1>3, <1>4, <2>3, <3>2
    <3>5. l = [Idle EXCEPT !.op = "restore", !.new = new]
      BY <3>4 DEF l
    <3>6. Phase(RestoreFromPhrase, l, ident', config', hist')
      BY <1>2, <2>1, <3>5, RestorePhase
    <3> QED
      BY <1>1, <1>4, <3>2, <3>3, <3>4, <3>6
  <2> QED
    BY <1>7, <2>1, <2>2, <2>3 DEF RestoreInv
<1> QED
  BY <1>1, <1>8, <1>9

(***************************************************************************)
(* Nothing runs when a process starts.                                     *)
(***************************************************************************)
LEMMA RestoreBegins == Init => RestoreInv
<1> SUFFICES ASSUME Init PROVE RestoreInv
  OBVIOUS
<1>1. hist.ident = ident /\ hist.config = config /\ hist.clean = TRUE /\ hist.wiped = FALSE
  BY DEF Init
<1>2. Good
  BY <1>1, NodeStart DEF NodeInv
<1>3. \A t \in Task : local[t].op = "none"
  BY DEF Init, Idle
<1>4. ident \in [Path -> Pair] /\ config \in Config
  BY <1>2 DEF Good, Types
<1> QED
  BY <1>1, <1>3, <1>4 DEF RestoreInv

(***************************************************************************)
(* RestoreInv is kept by every step.                                       *)
(***************************************************************************)
LEMMA RestoreKept == NodeInv /\ RestoreInv /\ [Next]_vars => RestoreInv'
<1> SUFFICES ASSUME NodeInv, RestoreInv, [Next]_vars PROVE RestoreInv'
  OBVIOUS
<1>1. HistOK /\ hist.clean \in BOOLEAN
  BY DEF NodeInv, RestoreInv
<1>2. CASE UNCHANGED vars
  <2>1. /\ prog' = prog /\ local' = local /\ ident' = ident /\ config' = config /\ hist' = hist
    BY <1>2 DEF vars, memVars, diskVars, taskVars
  <2>2. \A t \in Task : Alone(t)' <=> Alone(t)
    BY <2>1 DEF Alone
  <2> QED
    BY <2>1, <2>2 DEF RestoreInv
<1>3. ASSUME NEW t \in Task, Serve(t) PROVE hist'.clean \in BOOLEAN
  <2>1. PICK op, new, program : Begin(t, op, new, program)
    BY <1>3 DEF Serve
  <2>2. CASE op \notin Operators
    BY <1>1, <2>1, <2>2 DEF Begin
  <2>3. CASE op \in Operators
    <3>1. hist' = [hist EXCEPT !.ident = ident, !.config = config,
                       !.clean = hist.clean /\ \A u \in Task \ {t} : local[u].op \notin Operators]
      BY <2>1, <2>3 DEF Begin
    <3>2. hist'.clean = (hist.clean /\ \A u \in Task \ {t} : local[u].op \notin Operators)
      BY <1>1, <3>1 DEF HistOK
    <3> QED
      BY <3>2
  <2> QED
    BY <2>2, <2>3
<1>4. CASE Restart
  <2>1. hist' = [hist EXCEPT !.clean = FALSE] /\ \A t \in Task : local'[t].op = "none"
    BY <1>4 DEF Restart, Idle
  <2>2. /\ hist'.clean = FALSE /\ hist'.wiped = hist.wiped
        /\ hist'.ident = hist.ident /\ hist'.config = hist.config
    BY <1>1, <2>1 DEF HistOK
  <2>3. \A t \in Task : local'[t].op # "request"
    BY <2>1
  <2> QED
    BY <2>2, <2>3 DEF RestoreInv
<1>5. ASSUME NEW t \in Task, TaskStep(t) PROVE RestoreInv'
  <2>1. hist'.clean \in BOOLEAN
    BY <1>1, <1>3, <1>5, HistKept
  <2>2. CASE hist'.wiped
    BY <2>1, <2>2 DEF RestoreInv
  <2>3. CASE ~ hist'.wiped
    <3>1. ~ hist.wiped
      BY <1>1, <2>3, StaysWiped
    <3>2. Good
      BY <3>1 DEF NodeInv
    <3> QED
      BY <1>1, <1>5, <2>3, <3>1, <3>2, RestoreServe, RestoreTask
  <2> QED
    BY <2>2, <2>3
<1> QED
  BY <1>2, <1>4, <1>5 DEF Next

-----------------------------------------------------------------------------
(* What it gives                                                           *)

\* A restore that ends, undisturbed, ends with all of the new identity or with
\* all that it found.
Settled(t, l) ==
    (/\ l.op = "restore" /\ prog'[t] = <<>>
     /\ l.keep # NoPool /\ hist'.clean /\ ~hist'.wiped) =>
        IF l.failed
        THEN ident' = hist.ident /\ config' = hist.config
        ELSE /\ ident' = [hist.ident EXCEPT ![l.keep.path] = l.new]
             /\ config' \in {hist.config, [hist.config EXCEPT !.cloud = TRUE]}

(***************************************************************************)
(* Nothing left to do: the identity and the configuration are settled.     *)
(***************************************************************************)
LEMMA PhaseEnds ==
    ASSUME NEW m, NEW tree \in [Path -> Pair], NEW conf, NEW h, Found(h),
           Phase(<<>>, m, tree, conf, h), m.keep # NoPool
    PROVE  IF m.failed
           THEN tree = h.ident /\ conf = h.config
           ELSE /\ tree = [h.ident EXCEPT ![m.keep.path] = m.new]
                /\ conf \in {h.config, [h.config EXCEPT !.cloud = TRUE]}
<1>1. /\ ~ Ahead(<<>>, 0) /\ ~ First(<<>>, "savePublic") /\ ~ First(<<>>, "savePrivate")
      /\ ~ First(<<>>, "clearPrivate") /\ 1..Len(<<>>) = {}
  BY DEF Ahead, First
<1>2. CASE m.failed
  <2>1. Backward(<<>>, m, tree, conf, h)
    BY <1>2 DEF Phase
  <2>2. conf = h.config
    BY <1>1, <2>1 DEF Backward
  <2>3. \A x \in Path : tree[x] = h.ident[x]
    BY <1>1, <2>1 DEF Backward
  <2>4. tree = h.ident
    <3>1. h.ident \in [Path -> Pair]
      BY DEF Found
    <3> QED
      BY ONLY <2>3, <3>1, tree \in [Path -> Pair]
  <2> QED
    BY <1>2, <2>2, <2>4
<1>3. CASE ~ m.failed
  <2>1. Forward(<<>>, m, tree, conf, h)
    BY <1>3 DEF Phase
  <2>2. tree = [h.ident EXCEPT ![h.config.path] = m.new]
    BY <1>1, <2>1 DEF Forward, Replaced
  <2>3. m.keep.path = h.config.path
    BY <2>1 DEF Forward, Noted
  <2>4. conf \in {h.config, [h.config EXCEPT !.cloud = TRUE]}
    BY <2>1 DEF Forward, Near
  <2> QED
    BY <1>3, <2>2, <2>3, <2>4
<1> QED
  BY <1>2, <1>3

(***************************************************************************)
(* So every restore that ends does.                                        *)
(***************************************************************************)
LEMMA RestoreSettles ==
    NodeInv /\ NodeInv' /\ RestoreInv /\ [Next]_vars =>
        [\A t \in Task : Settled(t, local[t])]_vars
<1> SUFFICES ASSUME NodeInv, NodeInv', RestoreInv, Next, NEW t \in Task, local[t].op = "restore",
                    prog'[t] = <<>>, local[t].keep # NoPool, hist'.clean, ~ hist'.wiped
             PROVE  IF local[t].failed
                    THEN ident' = hist.ident /\ config' = hist.config
                    ELSE /\ ident' = [hist.ident EXCEPT ![local[t].keep.path] = local[t].new]
                         /\ config' \in {hist.config, [hist.config EXCEPT !.cloud = TRUE]}
  BY DEF Settled
<1>1. HistOK /\ hist.clean \in BOOLEAN /\ ident' \in [Path -> Pair]
  BY DEF NodeInv, RestoreInv, Good, Types
<1>2. ~ hist.wiped
  BY <1>1, StaysWiped
<1>3. Good /\ Found(hist)
  BY <1>2 DEF NodeInv, RestoreInv, Found
<1>4. /\ prog[t] # <<>>
      /\ prog \in [Task -> Seq(StepRec)] /\ local \in [Task -> LocalRec]
  BY <1>3 DEF Good, Sound, Types
<1>5. ~ Restart
  <2> SUFFICES ASSUME Restart PROVE FALSE
    OBVIOUS
  <2>1. hist' = [hist EXCEPT !.clean = FALSE]
    BY DEF Restart
  <2> QED
    BY <1>1, <2>1 DEF HistOK
<1>6. PICK u \in Task : TaskStep(u)
  BY <1>5 DEF Next
<1>7. ~ Serve(u)
  <2> SUFFICES ASSUME Serve(u) PROVE FALSE
    OBVIOUS
  <2>1. PICK op, new, program : Begin(u, op, new, program)
    BY DEF Serve
  <2>2. prog[u] = <<>> /\ prog' = [prog EXCEPT ![u] = program]
    BY <2>1 DEF Begin
  <2> QED
    BY <1>4, <2>2
<1>8. u = t
  <2>1. u # t => prog'[t] = prog[t]
    BY <1>3, <1>6, <1>7, OpStays, StaysAlone
  <2> QED
    BY <1>4, <2>1
<1>9. hist.clean
  BY <1>1, <1>6, <1>7, HistKept
<1>10. Restores(t)
  BY <1>2, <1>3, <1>9 DEF RestoreInv, Restores
<1>11. PICK q, m :
          /\ prog' = [prog EXCEPT ![t] = q]
          /\ Phase(q, m, ident', config', hist)
          /\ q = <<>> => m.failed = local[t].failed /\ m.keep = local[t].keep /\ m.new = local[t].new
  BY <1>1, <1>4, <1>6, <1>7, <1>8, <1>10, RestoreStep DEF Proceeds
<1>12. q = <<>>
  BY <1>4, <1>11
<1>13. Phase(<<>>, m, ident', config', hist) /\ m.keep # NoPool
  BY <1>11, <1>12
<1>14. IF m.failed
       THEN ident' = hist.ident /\ config' = hist.config
       ELSE /\ ident' = [hist.ident EXCEPT ![m.keep.path] = m.new]
            /\ config' \in {hist.config, [hist.config EXCEPT !.cloud = TRUE]}
  <2>1. PICK tree \in [Path -> Pair] : tree = ident'
    BY <1>1
  <2> QED
    BY <1>3, <1>13, <2>1, PhaseEnds
<1> QED
  BY <1>11, <1>12, <1>14

(***************************************************************************)
(* restore_from_phrase ends with the restored identity or with what it     *)
(* found: RestoreAllOrNothing.                                             *)
(***************************************************************************)
THEOREM AllOrNothingCorrect == Spec => RestoreAllOrNothing
<1>1. Init => NodeInv /\ RestoreInv
  BY NodeStart, RestoreBegins
<1>2. NodeInv /\ RestoreInv /\ [Next]_vars => NodeInv' /\ RestoreInv'
  BY NodeStep, RestoreKept
<1>3. NodeInv /\ NodeInv' /\ RestoreInv /\ [Next]_vars => [\A t \in Task : Settled(t, local[t])]_vars
  BY RestoreSettles
<1>4. [][\A t \in Task : Settled(t, local[t])]_vars => RestoreAllOrNothing
  BY PTL DEF RestoreAllOrNothing, Settled
<1> QED
  BY <1>1, <1>2, <1>3, <1>4, PTL DEF Spec

-----------------------------------------------------------------------------
(* The AI configuration                                                    *)

ApiKey == UserKey \cup {NoApiKey, LegacyKey}

\* A file as parsed or as requested: it may carry the placeholder.
FileRecord ==
    [provider : AIProvider, key : ApiKey \cup {Redacted}, vision : AIProvider,
     enabled : {"unset", "yes", "no"}, query : UseCaseOverride, chat : UseCaseOverride,
     there : BOOLEAN]

\* What a service runs with; "none" before it is started.
Configuration ==
    [provider : AIProvider \cup {"none"}, key : ApiKey \cup {EnvKey}, vision : AIProvider,
     enabled : BOOLEAN, chat : UseCaseOverride]

Secret == [key : ApiKey, under : {0, 1}]
LoadRecord ==
    [pc : {"idle", "read", "strip", "loaded", "failed"}, saved : FileRecord, key : ApiKey]
SaveRecord ==
    [pc : {"idle", "file", "key", "reload", "service", "query", "done"}, request : FileRecord,
     loaded : Configuration]

(***************************************************************************)
(* What is on disk, and the loads and saves that copy it.  A key in the    *)
(* clear is the one an older release left, no request brings that key, and *)
(* an empty store is the one that was never written.                       *)
(***************************************************************************)
StoreInv ==
    /\ cfgFile \in FileRecord /\ cfgFile.key \in {NoApiKey, LegacyKey}
    /\ sealed \in Secret /\ (sealed.key = NoApiKey => sealed = NoSecret)
    /\ master \in {0, 1}
    /\ loader \in LoadRecord /\ loader.saved.key \in {NoApiKey, LegacyKey}
    /\ saver \in [Saver -> SaveRecord]
    /\ \A s \in Saver : saver[s].request.key \in UserKey \cup {NoApiKey, Redacted}

\* The services, and the call one of them makes.
ServiceInv ==
    /\ aiService \in Configuration /\ llmService \in Configuration
    /\ booted \in 0..2

CallInv ==
    /\ call \in [pc : {"idle", "calling", "ok", "error"}, attempt : 0..MaxRetries,
                 slept : {call.slept}]
    /\ metrics \in [calls : Nat, errors : Nat] /\ metrics.errors <= metrics.calls

\* What a load under way read is no more in the clear than the file is: the
\* file can only lose its key.
ClearInv ==
    loader.pc # "idle" /\ (loader.saved.key = NoApiKey \/ loader.pc = "loaded") =>
        cfgFile.key = NoApiKey

\* A load strips the file only when the store holds a key.
StripInv == loader.pc = "strip" => sealed.key # NoApiKey

(***************************************************************************)
(* The accepted key is the sealed one, or, as long as nothing is sealed,   *)
(* the one in the file, which is then also the one a load holds that will  *)
(* seal it.                                                                *)
(***************************************************************************)
KeyInv ==
    \/ dropped
    \/ /\ sealed.key # NoApiKey => given = sealed.key
       /\ sealed.key = NoApiKey =>
             /\ given = cfgFile.key
             /\ loader.saved.key \in {NoApiKey, given}

-----------------------------------------------------------------------------
(* Records.                                                                *)

(***************************************************************************)
(* The constant records are well formed.                                   *)
(***************************************************************************)
LEMMA ConstantRecords ==
    /\ NoFile \in FileRecord /\ NoFile.key = NoApiKey
    /\ NoSecret \in Secret
    /\ NoService \in Configuration /\ DefaultAiConfig \in Configuration
    /\ IdleLoader \in LoadRecord /\ IdleLoader.pc = "idle" /\ IdleLoader.saved = NoFile
    /\ IdleSave \in SaveRecord /\ IdleSave.request = NoFile
    /\ DoneSave \in SaveRecord /\ DoneSave.request = NoFile
<1>1. NoFile \in FileRecord /\ NoFile.key = NoApiKey
  BY DEF NoFile, FileRecord, ApiKey, AIProvider, UseCaseOverride, NoOverride
<1>2. NoSecret \in Secret
  BY DEF NoSecret, Secret, ApiKey
<1>3. DefaultAiConfig \in Configuration
  BY DEF DefaultAiConfig, Configuration, ApiKey, AIProvider, UseCaseOverride, NoOverride
<1>4. NoService \in Configuration
  BY <1>3 DEF NoService, Configuration
<1>5. IdleLoader \in LoadRecord /\ IdleLoader.pc = "idle" /\ IdleLoader.saved = NoFile
  BY <1>1 DEF IdleLoader, LoadRecord, ApiKey
<1>6. IdleSave \in SaveRecord /\ IdleSave.request = NoFile
  BY <1>1, <1>4 DEF IdleSave, SaveRecord
<1>7. DoneSave \in SaveRecord /\ DoneSave.request = NoFile
  BY <1>1, <1>4 DEF DoneSave, IdleSave, SaveRecord
<1> QED
  BY <1>1, <1>2, <1>3, <1>4, <1>5, <1>6, <1>7

(***************************************************************************)
(* load_from_file keeps a key that is no placeholder.                      *)
(***************************************************************************)
LEMMA LoadFromFile ==
    ASSUME NEW f \in FileRecord
    PROVE  /\ load_from_file(f) \in FileRecord
           /\ load_from_file(f).key = IF f.key = Redacted THEN NoApiKey ELSE f.key
<1> DEFINE g == IF f.key = Redacted THEN [f EXCEPT !.key = NoApiKey] ELSE f
<1>1. g \in FileRecord /\ g.key = IF f.key = Redacted THEN NoApiKey ELSE f.key
  BY DEF FileRecord, ApiKey
<1>2. load_from_file(f) = normalize(g)
  BY DEF load_from_file
<1> HIDE DEF g
<1>3. normalize(g) \in FileRecord /\ normalize(g).key = g.key
  <2>1. CASE is_set(g.query) /\ ~ is_set(g.chat)
    <3>1. normalize(g) = [g EXCEPT !.chat = g.query, !.query = NoOverride]
      BY <2>1 DEF normalize
    <3> QED
      BY <1>1, <3>1 DEF FileRecord, UseCaseOverride
  <2>2. CASE ~ (is_set(g.query) /\ ~ is_set(g.chat))
    BY <2>2, <1>1 DEF normalize
  <2> QED
    BY <2>1, <2>2
<1> QED
  BY <1>1, <1>2, <1>3

(***************************************************************************)
(* A request as the handler sees it.                                       *)
(***************************************************************************)
LEMMA RequestRecord ==
    ASSUME NEW r \in Requests
    PROVE  r \in FileRecord /\ r.key \in UserKey \cup {NoApiKey, Redacted}
<1>1. PICK q \in Requested :
         r = [Request EXCEPT !.provider = q.provider, !.key = q.key, !.enabled = q.enabled,
                             !.chat = q.chat]
  BY DEF Requests
<1>2. /\ q.provider \in AIProvider /\ q.key \in UserKey \cup {NoApiKey, Redacted}
      /\ q.enabled \in {"yes", "no"} /\ q.chat \in UseCaseOverride
  BY AiRequestAssumption DEF AIProvider, UseCaseOverride, NoOverride
<1>3. Request \in FileRecord
  BY ConstantRecords DEF Request, FileRecord
<1> QED
  BY <1>1, <1>2, <1>3 DEF FileRecord, ApiKey

(***************************************************************************)
(* The configuration a load returns.                                       *)
(***************************************************************************)
LEMMA LoadedRecord ==
    ASSUME NEW f \in FileRecord, NEW k \in ApiKey
    PROVE  Loaded(f, k) \in Configuration
<1>1. EnvFallback(f.enabled, k) \in ApiKey \cup {EnvKey}
  BY DEF EnvFallback
<1>2. env_bool(f.enabled) \in BOOLEAN
  BY AiBoundAssumption DEF env_bool
<1>3. f.provider \in AIProvider /\ f.vision \in AIProvider /\ f.chat \in UseCaseOverride
  BY DEF FileRecord
<1> QED
  BY <1>1, <1>2, <1>3 DEF Loaded, Configuration

(***************************************************************************)
(* The configuration a request reloads.                                    *)
(***************************************************************************)
LEMMA ReloadedRecord ==
    ASSUME StoreInv
    PROVE  load_or_default \in Configuration
<1>1. load_from_file(cfgFile) \in FileRecord
  BY LoadFromFile DEF StoreInv
<1>2. StoredKey \in ApiKey
  BY DEF StoreInv, StoredKey, Secret
<1>3. Loaded(load_from_file(cfgFile), StoredKey) \in Configuration
  BY <1>1, <1>2, LoadedRecord
<1> QED
  BY <1>3, ConstantRecords DEF load_or_default

-----------------------------------------------------------------------------
(* Types.                                                                  *)

(***************************************************************************)
(* One save moves on: its record is replaced by a well-formed one.         *)
(***************************************************************************)
LEMMA SaverMoves ==
    ASSUME StoreInv, NEW s \in Saver, NEW r \in SaveRecord,
           r.request.key \in UserKey \cup {NoApiKey, Redacted},
           saver' = [saver EXCEPT ![s] = r]
    PROVE  /\ saver' \in [Saver -> SaveRecord]
           /\ \A u \in Saver : saver'[u].request.key \in UserKey \cup {NoApiKey, Redacted}
<1>1. \A u \in Saver : saver'[u] = IF u = s THEN r ELSE saver[u]
  BY DEF StoreInv
<1> QED
  BY <1>1 DEF StoreInv

(***************************************************************************)
(* The pc of a save moves on.                                              *)
(***************************************************************************)
LEMMA SaverSteps ==
    ASSUME StoreInv, NEW s \in Saver,
           NEW pc \in {"idle", "file", "key", "reload", "service", "query", "done"},
           saver' = [saver EXCEPT ![s].pc = pc]
    PROVE  /\ saver' \in [Saver -> SaveRecord]
           /\ \A u \in Saver : saver'[u].request.key \in UserKey \cup {NoApiKey, Redacted}
<1>1. saver[s] \in SaveRecord
  BY DEF StoreInv
<1>2. [saver[s] EXCEPT !.pc = pc] \in SaveRecord
  BY <1>1 DEF SaveRecord
<1>3. [saver[s] EXCEPT !.pc = pc].request = saver[s].request
  BY <1>1 DEF SaveRecord
<1>4. saver' = [saver EXCEPT ![s] = [saver[s] EXCEPT !.pc = pc]]
  OBVIOUS
<1> QED
  BY <1>2, <1>3, <1>4, SaverMoves DEF StoreInv

(***************************************************************************)
(* Every step keeps the disk and the loads and saves well formed.          *)
(***************************************************************************)
LEMMA StoreStep ==
    ASSUME StoreInv, [AiNext]_aiVars
    PROVE  StoreInv'
<1> USE DEF StoreInv
<1>1. CASE BeginLoad
  <2>1. /\ load_from_file(cfgFile) \in FileRecord
        /\ load_from_file(cfgFile).key \in {NoApiKey, LegacyKey}
    BY LoadFromFile, AiKeyAssumption
  <2>2. loader' = [pc |-> "read", saved |-> load_from_file(cfgFile), key |-> NoApiKey]
    BY <1>1 DEF BeginLoad, IdleLoader
  <2>3. loader' \in LoadRecord /\ loader'.saved.key \in {NoApiKey, LegacyKey}
    BY <2>1, <2>2 DEF LoadRecord, ApiKey
  <2> QED
    BY <2>3, <1>1 DEF BeginLoad
<1>2. CASE LoadKey
  <2>1. \E pc \in {"strip", "loaded", "failed"}, k \in ApiKey :
           loader' = [loader EXCEPT !.pc = pc, !.key = k]
    <3>1. StoredKey \in ApiKey /\ loader.saved.key \in ApiKey /\ loader.key \in ApiKey
      BY DEF StoredKey, Secret, LoadRecord, FileRecord, ApiKey
    <3>2. AfterStore(loader.saved, StoredKey) \in {"strip", "loaded"}
      BY DEF AfterStore
    <3>3. [loader EXCEPT !.pc = "failed"] = [loader EXCEPT !.pc = "failed", !.key = loader.key]
      BY DEF LoadRecord
    <3> QED
      BY <3>1, <3>2, <3>3, <1>2 DEF LoadKey
  <2>2. loader' \in LoadRecord /\ loader'.saved = loader.saved
    BY <2>1 DEF LoadRecord
  <2>3. sealed' \in Secret /\ (sealed'.key = NoApiKey => sealed' = NoSecret)
    BY <1>2 DEF LoadKey, Secret, LoadRecord, ApiKey
  <2> QED
    BY <2>2, <2>3, <1>2 DEF LoadKey
<1>3. CASE strip_legacy_api_key_from_disk
  <2>1. /\ cfgFile' \in FileRecord /\ cfgFile'.key \in {NoApiKey, LegacyKey}
    BY <1>3 DEF strip_legacy_api_key_from_disk, LoadRecord, FileRecord, ApiKey
  <2>2. loader' \in LoadRecord /\ loader'.saved = loader.saved
    BY <1>3 DEF strip_legacy_api_key_from_disk, LoadRecord
  <2> QED
    BY <2>1, <2>2, <1>3 DEF strip_legacy_api_key_from_disk
<1>4. CASE LoadEnds
  BY <1>4, ConstantRecords DEF LoadEnds
<1>5. CASE AiRestart
  <2>1. \A s \in Saver : saver'[s] \in SaveRecord /\ saver'[s].request = NoFile
    BY <1>5, ConstantRecords DEF AiRestart
  <2>2. saver' \in [Saver -> SaveRecord]
    BY <1>5, ConstantRecords DEF AiRestart
  <2> QED
    BY <2>1, <2>2, <1>5, ConstantRecords DEF AiRestart
<1>6. CASE initialize_master_key
  BY <1>6 DEF initialize_master_key
<1>7. ASSUME NEW s \in Saver, save_ingestion_config(s) PROVE StoreInv'
  <2>1. PICK r \in Requests :
           saver' = [saver EXCEPT ![s] = [IdleSave EXCEPT !.pc = "file", !.request = r]]
    BY <1>7 DEF save_ingestion_config
  <2>2. r \in FileRecord /\ r.key \in UserKey \cup {NoApiKey, Redacted}
    BY RequestRecord
  <2>3. /\ [IdleSave EXCEPT !.pc = "file", !.request = r] \in SaveRecord
        /\ [IdleSave EXCEPT !.pc = "file", !.request = r].request = r
    BY <2>2, ConstantRecords DEF SaveRecord
  <2>4. /\ saver' \in [Saver -> SaveRecord]
        /\ \A u \in Saver : saver'[u].request.key \in UserKey \cup {NoApiKey, Redacted}
    BY <2>1, <2>2, <2>3, SaverMoves
  <2> QED
    BY <2>4, <1>7 DEF save_ingestion_config
<1>8. ASSUME NEW s \in Saver, save_to_file(s) PROVE StoreInv'
  <2>1. saver[s].request \in FileRecord
    BY DEF SaveRecord
  <2>2. /\ prepare_for_save([saver[s].request EXCEPT !.key = NoApiKey]) \in FileRecord
        /\ prepare_for_save([saver[s].request EXCEPT !.key = NoApiKey]).key = NoApiKey
    BY <2>1 DEF prepare_for_save, FileRecord, ApiKey
  <2>3. CASE saver' = [saver EXCEPT ![s].pc = "key"]
             /\ cfgFile' = prepare_for_save([saver[s].request EXCEPT !.key = NoApiKey])
    <3>1. /\ saver' \in [Saver -> SaveRecord]
          /\ \A u \in Saver : saver'[u].request.key \in UserKey \cup {NoApiKey, Redacted}
      BY <2>3, SaverSteps
    <3> QED
      BY <3>1, <2>2, <2>3, <1>8 DEF save_to_file
  <2>4. CASE saver' = [saver EXCEPT ![s] = DoneSave] /\ UNCHANGED cfgFile
    <3>1. /\ saver' \in [Saver -> SaveRecord]
          /\ \A u \in Saver : saver'[u].request.key \in UserKey \cup {NoApiKey, Redacted}
      BY <2>4, SaverMoves, ConstantRecords
    <3> QED
      BY <3>1, <2>4, <1>8 DEF save_to_file
  <2> QED
    BY <2>3, <2>4, <1>8 DEF save_to_file
<1>9. ASSUME NEW s \in Saver, SaveKey(s) PROVE StoreInv'
  <2>1. \/ saver' = [saver EXCEPT ![s].pc = "reload"]
        \/ saver' = [saver EXCEPT ![s] = DoneSave]
    BY <1>9 DEF SaveKey
  <2>2. /\ saver' \in [Saver -> SaveRecord]
        /\ \A u \in Saver : saver'[u].request.key \in UserKey \cup {NoApiKey, Redacted}
    <3>1. CASE saver' = [saver EXCEPT ![s].pc = "reload"]
      BY <3>1, SaverSteps
    <3>2. CASE saver' = [saver EXCEPT ![s] = DoneSave]
      BY <3>2, SaverMoves, ConstantRecords
    <3> QED
      BY <2>1, <3>1, <3>2
  <2>3. sealed' \in Secret /\ (sealed'.key = NoApiKey => sealed' = NoSecret)
    <3>1. CASE UNCHANGED sealed
      BY <3>1
    <3>2. CASE ~ KeepsKey(saver[s].request.key)
               /\ sealed' = [key |-> saver[s].request.key, under |-> master]
      BY <3>2 DEF KeepsKey, Secret, ApiKey
    <3> QED
      BY <3>1, <3>2, <1>9 DEF SaveKey
  <2> QED
    BY <2>2, <2>3, <1>9 DEF SaveKey
<1>10. ASSUME NEW s \in Saver, ReloadConfig(s) PROVE StoreInv'
  <2>1. saver[s] \in SaveRecord
    OBVIOUS
  <2>2. load_or_default \in Configuration
    BY ReloadedRecord
  <2> DEFINE r == [saver[s] EXCEPT !.pc = "service", !.loaded = load_or_default]
  <2>3. r \in SaveRecord /\ r.request = saver[s].request
    BY <2>1, <2>2 DEF SaveRecord
  <2>4. saver' = [saver EXCEPT ![s] = r]
    BY <1>10 DEF ReloadConfig
  <2> HIDE DEF r
  <2>5. /\ saver' \in [Saver -> SaveRecord]
        /\ \A u \in Saver : saver'[u].request.key \in UserKey \cup {NoApiKey, Redacted}
    BY <2>3, <2>4, SaverMoves
  <2> QED
    BY <2>5, <1>10 DEF ReloadConfig
<1>11. ASSUME NEW s \in Saver, ReplaceService(s) PROVE StoreInv'
  <2>1. /\ saver' \in [Saver -> SaveRecord]
        /\ \A u \in Saver : saver'[u].request.key \in UserKey \cup {NoApiKey, Redacted}
    BY <1>11, SaverSteps DEF ReplaceService
  <2> QED
    BY <2>1, <1>11 DEF ReplaceService
<1>12. ASSUME NEW s \in Saver, reload(s) PROVE StoreInv'
  <2>1. /\ saver' \in [Saver -> SaveRecord]
        /\ \A u \in Saver : saver'[u].request.key \in UserKey \cup {NoApiKey, Redacted}
    BY <1>12, SaverMoves, ConstantRecords DEF reload
  <2> QED
    BY <2>1, <1>12 DEF reload
<1>13. CASE StartCall
  BY <1>13 DEF StartCall
<1>14. CASE call_with_retries
  BY <1>14 DEF call_with_retries
<1>15. CASE record_call
  BY <1>15 DEF record_call
<1>16. CASE UNCHANGED aiVars
  BY <1>16 DEF aiVars
<1> QED
  BY <1>1, <1>2, <1>3, <1>4, <1>5, <1>6, <1>7, <1>8, <1>9, <1>10, <1>11, <1>12,
     <1>13, <1>14, <1>15, <1>16
  DEF AiNext, LoadNext, SaveNext, CallNext

(***************************************************************************)
(* The disk and the tasks on it stay well formed.                          *)
(***************************************************************************)
LEMMA StoreInvariant == AiSpec => []StoreInv
<1>1. AiInit => StoreInv
  <2> SUFFICES ASSUME AiInit PROVE StoreInv
    OBVIOUS
  <2>1. cfgFile \in FileRecord /\ cfgFile.key \in {NoApiKey, LegacyKey}
    BY ConstantRecords
    DEF AiInit, FileRecord, ApiKey, UseCaseOverride, AIProvider
  <2>2. sealed \in Secret /\ (sealed.key = NoApiKey => sealed = NoSecret) /\ master \in {0, 1}
    BY ConstantRecords DEF AiInit
  <2>3. loader \in LoadRecord /\ loader.saved.key \in {NoApiKey, LegacyKey}
    BY ConstantRecords DEF AiInit
  <2>4. /\ saver \in [Saver -> SaveRecord]
        /\ \A s \in Saver : saver[s].request.key \in UserKey \cup {NoApiKey, Redacted}
    BY ConstantRecords DEF AiInit
  <2> QED
    BY <2>1, <2>2, <2>3, <2>4 DEF StoreInv
<1>2. StoreInv /\ [AiNext]_aiVars => StoreInv'
  BY StoreStep
<1> QED
  BY <1>1, <1>2, PTL DEF AiSpec

-----------------------------------------------------------------------------
(* The services and the calls.                                             *)

(***************************************************************************)
(* Every step keeps the services well formed.                              *)
(***************************************************************************)
LEMMA ServiceStep ==
    ASSUME StoreInv, ServiceInv, [AiNext]_aiVars
    PROVE  ServiceInv'
<1> USE DEF ServiceInv
<1>1. CASE BeginLoad
  BY <1>1 DEF BeginLoad
<1>2. CASE LoadKey
  BY <1>2 DEF LoadKey
<1>3. CASE strip_legacy_api_key_from_disk
  BY <1>3 DEF strip_legacy_api_key_from_disk
<1>4. CASE LoadEnds
  <2>1. Loaded(loader.saved, loader.key) \in Configuration
    BY LoadedRecord DEF StoreInv, LoadRecord
  <2>2. aiService' \in Configuration /\ llmService' \in Configuration
    BY <2>1, <1>4, ConstantRecords DEF LoadEnds
  <2>3. booted' \in 0..2
    BY <1>4 DEF LoadEnds
  <2> QED
    BY <2>2, <2>3
<1>5. CASE AiRestart
  BY <1>5, ConstantRecords DEF AiRestart
<1>6. CASE initialize_master_key
  BY <1>6 DEF initialize_master_key
<1>7. ASSUME NEW s \in Saver, save_ingestion_config(s) PROVE ServiceInv'
  BY <1>7 DEF save_ingestion_config
<1>8. ASSUME NEW s \in Saver, save_to_file(s) PROVE ServiceInv'
  BY <1>8 DEF save_to_file
<1>9. ASSUME NEW s \in Saver, SaveKey(s) PROVE ServiceInv'
  BY <1>9 DEF SaveKey
<1>10. ASSUME NEW s \in Saver, ReloadConfig(s) PROVE ServiceInv'
  BY <1>10 DEF ReloadConfig
<1>11. ASSUME NEW s \in Saver, ReplaceService(s) PROVE ServiceInv'
  <2>1. saver[s].loaded \in Configuration
    BY DEF StoreInv, SaveRecord
  <2> QED
    BY <2>1, <1>11 DEF ReplaceService
<1>12. ASSUME NEW s \in Saver, reload(s) PROVE ServiceInv'
  BY <1>12, ReloadedRecord DEF reload
<1>13. CASE StartCall
  BY <1>13 DEF StartCall
<1>14. CASE call_with_retries
  BY <1>14 DEF call_with_retries
<1>15. CASE record_call
  BY <1>15 DEF record_call
<1>16. CASE UNCHANGED aiVars
  BY <1>16 DEF aiVars
<1> QED
  BY <1>1, <1>2, <1>3, <1>4, <1>5, <1>6, <1>7, <1>8, <1>9, <1>10, <1>11, <1>12,
     <1>13, <1>14, <1>15, <1>16
  DEF AiNext, LoadNext, SaveNext, CallNext

(***************************************************************************)
(* Every step keeps the attempts of a call within what is allowed, and     *)
(* counts no more errors than calls.                                       *)
(***************************************************************************)
LEMMA CallStep ==
    ASSUME CallInv, [AiNext]_aiVars
    PROVE  CallInv'
<1> USE DEF CallInv
<1>0. MaxRetries \in Nat
  BY AiBoundAssumption
<1>1. CASE BeginLoad
  BY <1>1 DEF BeginLoad
<1>2. CASE LoadKey
  BY <1>2 DEF LoadKey
<1>3. CASE strip_legacy_api_key_from_disk
  BY <1>3 DEF strip_legacy_api_key_from_disk
<1>4. CASE LoadEnds
  BY <1>4 DEF LoadEnds
<1>5. CASE AiRestart
  BY <1>5, <1>0 DEF AiRestart, IdleCall
<1>6. CASE initialize_master_key
  BY <1>6 DEF initialize_master_key
<1>7. ASSUME NEW s \in Saver, save_ingestion_config(s) PROVE CallInv'
  BY <1>7 DEF save_ingestion_config
<1>8. ASSUME NEW s \in Saver, save_to_file(s) PROVE CallInv'
  BY <1>8 DEF save_to_file
<1>9. ASSUME NEW s \in Saver, SaveKey(s) PROVE CallInv'
  BY <1>9 DEF SaveKey
<1>10. ASSUME NEW s \in Saver, ReloadConfig(s) PROVE CallInv'
  BY <1>10 DEF ReloadConfig
<1>11. ASSUME NEW s \in Saver, ReplaceService(s) PROVE CallInv'
  BY <1>11 DEF ReplaceService
<1>12. ASSUME NEW s \in Saver, reload(s) PROVE CallInv'
  BY <1>12 DEF reload
<1>13. CASE StartCall
  <2>1. \/ call' = [pc |-> "error", attempt |-> 0, slept |-> 0]
        \/ call' = [pc |-> "calling", attempt |-> 1, slept |-> 0] /\ MaxRetries # 0
    BY <1>13 DEF StartCall, IdleCall
  <2>2. call' \in [pc : {"idle", "calling", "ok", "error"}, attempt : 0..MaxRetries,
                   slept : {call'.slept}]
    BY <2>1, <1>0
  <2> QED
    BY <2>2, <1>13 DEF StartCall
<1>14. CASE call_with_retries
  <2>1. call.attempt \in 0..MaxRetries /\ call.pc \in {"idle", "calling", "ok", "error"}
    OBVIOUS
  <2>2. \/ call' = [call EXCEPT !.pc = "ok"]
        \/ call' = [call EXCEPT !.pc = "error"]
        \/ /\ call.attempt < MaxRetries
           /\ call' = [call EXCEPT !.attempt = call.attempt + 1,
                                   !.slept = call.slept + 2^(call.attempt - 1)]
    BY <1>14 DEF call_with_retries
  <2>3. CASE call' = [call EXCEPT !.pc = "ok"]
    BY <2>3, <2>1, <1>14 DEF call_with_retries
  <2>4. CASE call' = [call EXCEPT !.pc = "error"]
    BY <2>4, <2>1, <1>14 DEF call_with_retries
  <2>5. ASSUME call.attempt < MaxRetries, NEW n,
               call' = [call EXCEPT !.attempt = call.attempt + 1, !.slept = n]
        PROVE  CallInv'
    <3>1. call.attempt + 1 \in 0..MaxRetries
      BY <2>1, <2>5, <1>0
    <3>2. call' \in [pc : {"idle", "calling", "ok", "error"}, attempt : 0..MaxRetries,
                     slept : {call'.slept}]
      BY <3>1, <2>5
    <3> QED
      BY <3>2, <1>14 DEF call_with_retries
  <2> QED
    BY <2>2, <2>3, <2>4, <2>5
<1>15. CASE record_call
  <2>1. metrics' \in [calls : Nat, errors : Nat] /\ metrics'.errors <= metrics'.calls
    BY <1>15 DEF record_call
  <2> QED
    BY <2>1, <1>0, <1>15 DEF record_call, IdleCall
<1>16. CASE UNCHANGED aiVars
  BY <1>16 DEF aiVars
<1> QED
  BY <1>1, <1>2, <1>3, <1>4, <1>5, <1>6, <1>7, <1>8, <1>9, <1>10, <1>11, <1>12,
     <1>13, <1>14, <1>15, <1>16
  DEF AiNext, LoadNext, SaveNext, CallNext

(***************************************************************************)
(* Types: the keys on disk are the empty one, one a user entered or the    *)
(* one an older release left, never the placeholder of the settings page;  *)
(* a call makes at most MaxRetries attempts; no more errors than calls are *)
(* counted (IngestionConfig, call_with_retries, RoleMetrics::record).      *)
(***************************************************************************)
THEOREM AiTypes == AiSpec => []AiTypeOK
<1>1. AiInit => ServiceInv
  BY ConstantRecords DEF AiInit, ServiceInv
<1>2. AiInit => CallInv
  BY AiBoundAssumption DEF AiInit, CallInv, IdleCall
<1>3. StoreInv /\ ServiceInv /\ [AiNext]_aiVars => ServiceInv'
  BY ServiceStep
<1>4. CallInv /\ [AiNext]_aiVars => CallInv'
  BY CallStep
<1>5. StoreInv /\ ServiceInv /\ CallInv => AiTypeOK
  BY DEF StoreInv, ServiceInv, CallInv, AiTypeOK, Secret, ApiKey
<1> QED
  BY <1>1, <1>2, <1>3, <1>4, <1>5, StoreInvariant, PTL DEF AiSpec

-----------------------------------------------------------------------------
(* No key in the clear.                                                    *)

(***************************************************************************)
(* Every step keeps ClearInv: a step either leaves the file's key alone or *)
(* removes it, and a load ends well only with nothing to strip or after it *)
(* stripped.                                                               *)
(***************************************************************************)
LEMMA ClearStep ==
    ASSUME StoreInv, ClearInv, [AiNext]_aiVars
    PROVE  ClearInv'
<1> USE DEF ClearInv
<1>0. loader \in LoadRecord /\ cfgFile.key \in {NoApiKey, LegacyKey}
  BY DEF StoreInv
<1>1. CASE BeginLoad
  <2>1. load_from_file(cfgFile).key = cfgFile.key
    BY LoadFromFile, AiKeyAssumption DEF StoreInv
  <2>2. loader'.saved = load_from_file(cfgFile) /\ loader'.pc = "read"
    BY <1>1 DEF BeginLoad, IdleLoader
  <2> QED
    BY <2>1, <2>2, <1>1 DEF BeginLoad
<1>2. CASE LoadKey
  <2>1. /\ loader'.saved = loader.saved
        /\ loader'.pc = "loaded" => loader.saved.key = NoApiKey
    BY <1>0, <1>2 DEF LoadKey, LoadRecord, AfterStore
  <2> QED
    BY <2>1, <1>2 DEF LoadKey
<1>3. CASE strip_legacy_api_key_from_disk
  <2>1. CASE cfgFile' = [loader.saved EXCEPT !.key = NoApiKey]
    BY <2>1, <1>0 DEF LoadRecord, FileRecord
  <2>2. CASE loader' = [loader EXCEPT !.pc = "failed"] /\ UNCHANGED cfgFile
    BY <2>2, <1>0, <1>3 DEF strip_legacy_api_key_from_disk, LoadRecord
  <2> QED
    BY <2>1, <2>2, <1>3 DEF strip_legacy_api_key_from_disk
<1>4. CASE LoadEnds
  BY <1>4, ConstantRecords DEF LoadEnds
<1>5. CASE AiRestart
  BY <1>5, ConstantRecords DEF AiRestart
<1>6. CASE initialize_master_key
  BY <1>6 DEF initialize_master_key
<1>7. ASSUME NEW s \in Saver, save_ingestion_config(s) PROVE ClearInv'
  BY <1>7 DEF save_ingestion_config
<1>8. ASSUME NEW s \in Saver, save_to_file(s) PROVE ClearInv'
  <2>1. CASE cfgFile' = prepare_for_save([saver[s].request EXCEPT !.key = NoApiKey])
    <3>1. saver[s].request \in FileRecord
      BY DEF StoreInv, SaveRecord
    <3>2. cfgFile'.key = NoApiKey
      BY <2>1, <3>1 DEF prepare_for_save, FileRecord
    <3> QED
      BY <3>2
  <2>2. CASE UNCHANGED cfgFile
    BY <2>2, <1>8 DEF save_to_file
  <2> QED
    BY <2>1, <2>2, <1>8 DEF save_to_file
<1>9. ASSUME NEW s \in Saver, SaveKey(s) PROVE ClearInv'
  BY <1>9 DEF SaveKey
<1>10. ASSUME NEW s \in Saver, ReloadConfig(s) PROVE ClearInv'
  BY <1>10 DEF ReloadConfig
<1>11. ASSUME NEW s \in Saver, ReplaceService(s) PROVE ClearInv'
  BY <1>11 DEF ReplaceService
<1>12. ASSUME NEW s \in Saver, reload(s) PROVE ClearInv'
  BY <1>12 DEF reload
<1>13. CASE StartCall
  BY <1>13 DEF StartCall
<1>14. CASE call_with_retries
  BY <1>14 DEF call_with_retries
<1>15. CASE record_call
  BY <1>15 DEF record_call
<1>16. CASE UNCHANGED aiVars
  BY <1>16 DEF aiVars
<1> QED
  BY <1>1, <1>2, <1>3, <1>4, <1>5, <1>6, <1>7, <1>8, <1>9, <1>10, <1>11, <1>12,
     <1>13, <1>14, <1>15, <1>16
  DEF AiNext, LoadNext, SaveNext, CallNext

(***************************************************************************)
(* What a load has read bounds what the file still shows.                  *)
(***************************************************************************)
LEMMA ClearInvariant == AiSpec => []ClearInv
<1>1. AiInit => ClearInv
  BY ConstantRecords DEF AiInit, ClearInv
<1>2. StoreInv /\ ClearInv /\ [AiNext]_aiVars => ClearInv'
  BY ClearStep
<1> QED
  BY <1>1, <1>2, StoreInvariant, PTL DEF AiSpec

(***************************************************************************)
(* PlaintextCleared: after a load that succeeded ingestion_config.json     *)
(* holds no key in the clear, whichever crash, failing write or concurrent *)
(* save came between the steps of this load or of an earlier one           *)
(* (IngestionConfig::load, strip_legacy_api_key_from_disk).                *)
(***************************************************************************)
THEOREM ClearedCorrect == AiSpec => []PlaintextCleared
<1>1. ClearInv => PlaintextCleared
  BY DEF ClearInv, PlaintextCleared
<1> QED
  BY <1>1, ClearInvariant, PTL

-----------------------------------------------------------------------------
(* No key lost.                                                            *)

(***************************************************************************)
(* Every step keeps StripInv: the store never empties.                     *)
(***************************************************************************)
LEMMA StripStep ==
    ASSUME StoreInv, StripInv, [AiNext]_aiVars
    PROVE  StripInv'
<1> USE DEF StripInv
<1>0. loader \in LoadRecord /\ sealed \in Secret
  BY DEF StoreInv
<1>1. CASE BeginLoad
  BY <1>1 DEF BeginLoad, IdleLoader
<1>2. CASE LoadKey
  <2>1. \/ /\ UNCHANGED sealed
           /\ loader'.pc = "strip" => StoredKey # NoApiKey
        \/ sealed'.key = loader.saved.key /\ loader.saved.key # NoApiKey
    <3>1. ASSUME loader' = [loader EXCEPT !.pc = "failed"] PROVE loader'.pc = "failed"
      BY <1>0, <3>1 DEF LoadRecord
    <3>2. ASSUME loader' = [loader EXCEPT !.pc = AfterStore(loader.saved, StoredKey), !.key = StoredKey],
                 StoredKey # NoApiKey \/ loader.saved.key = NoApiKey
          PROVE  loader'.pc = "strip" => StoredKey # NoApiKey
      BY <1>0, <3>2 DEF LoadRecord, AfterStore
    <3> QED
      BY <3>1, <3>2, <1>2 DEF LoadKey
  <2> QED
    BY <2>1 DEF StoredKey
<1>3. CASE strip_legacy_api_key_from_disk
  BY <1>0, <1>3 DEF strip_legacy_api_key_from_disk, LoadRecord
<1>4. CASE LoadEnds
  BY <1>4 DEF LoadEnds, IdleLoader
<1>5. CASE AiRestart
  BY <1>5 DEF AiRestart, IdleLoader
<1>6. CASE initialize_master_key
  BY <1>6 DEF initialize_master_key
<1>7. ASSUME NEW s \in Saver, save_ingestion_config(s) PROVE StripInv'
  BY <1>7 DEF save_ingestion_config
<1>8. ASSUME NEW s \in Saver, save_to_file(s) PROVE StripInv'
  BY <1>8 DEF save_to_file
<1>9. ASSUME NEW s \in Saver, SaveKey(s) PROVE StripInv'
  <2>1. \/ UNCHANGED sealed
        \/ sealed'.key = saver[s].request.key /\ saver[s].request.key # NoApiKey
    BY <1>9 DEF SaveKey, KeepsKey
  <2> QED
    BY <2>1, <1>9 DEF SaveKey
<1>10. ASSUME NEW s \in Saver, ReloadConfig(s) PROVE StripInv'
  BY <1>10 DEF ReloadConfig
<1>11. ASSUME NEW s \in Saver, ReplaceService(s) PROVE StripInv'
  BY <1>11 DEF ReplaceService
<1>12. ASSUME NEW s \in Saver, reload(s) PROVE StripInv'
  BY <1>12 DEF reload
<1>13. CASE StartCall
  BY <1>13 DEF StartCall
<1>14. CASE call_with_retries
  BY <1>14 DEF call_with_retries
<1>15. CASE record_call
  BY <1>15 DEF record_call
<1>16. CASE UNCHANGED aiVars
  BY <1>16 DEF aiVars
<1> QED
  BY <1>1, <1>2, <1>3, <1>4, <1>5, <1>6, <1>7, <1>8, <1>9, <1>10, <1>11, <1>12,
     <1>13, <1>14, <1>15, <1>16
  DEF AiNext, LoadNext, SaveNext, CallNext

(***************************************************************************)
(* Every step keeps KeyInv: what leaves the file is sealed, or nothing was *)
(* sealed and the file went with its key; what replaces the sealed key is  *)
(* accepted in the same step.                                              *)
(***************************************************************************)
LEMMA KeyStep ==
    ASSUME StoreInv, StripInv, KeyInv, [AiNext]_aiVars
    PROVE  KeyInv'
<1>0. /\ loader \in LoadRecord /\ sealed \in Secret
      /\ cfgFile.key \in {NoApiKey, LegacyKey} /\ cfgFile \in FileRecord
      /\ NoApiKey # LegacyKey /\ NoApiKey \notin UserKey /\ LegacyKey # Redacted
  BY AiKeyAssumption DEF StoreInv
<1>k. ASSUME UNCHANGED <<cfgFile, sealed, given, dropped>>,
             loader'.saved.key \in {loader.saved.key, NoApiKey}
      PROVE  KeyInv'
  BY <1>k DEF KeyInv
<1>1. CASE BeginLoad
  <2>1. loader'.saved.key = cfgFile.key
    BY <1>1, LoadFromFile, <1>0 DEF BeginLoad, IdleLoader
  <2> QED
    BY <2>1, <1>1 DEF BeginLoad, KeyInv
<1>2. CASE LoadKey
  <2>1. loader'.saved = loader.saved
    BY <1>0, <1>2 DEF LoadKey, LoadRecord
  <2>2. CASE UNCHANGED sealed
    BY <1>k, <2>1, <2>2, <1>2 DEF LoadKey
  <2>3. CASE /\ StoredKey = NoApiKey /\ loader.saved.key # NoApiKey
             /\ sealed' = [key |-> loader.saved.key, under |-> master]
    BY <2>1, <2>3, <1>2 DEF LoadKey, StoredKey, KeyInv
  <2> QED
    BY <2>2, <2>3, <1>2 DEF LoadKey
<1>3. CASE strip_legacy_api_key_from_disk
  <2>1. sealed.key # NoApiKey
    BY <1>3 DEF StripInv, strip_legacy_api_key_from_disk
  <2> QED
    BY <2>1, <1>3 DEF strip_legacy_api_key_from_disk, KeyInv
<1>4. CASE LoadEnds
  <2>1. loader'.saved.key = NoApiKey
    BY <1>4, ConstantRecords DEF LoadEnds
  <2> QED
    BY <1>k, <2>1, <1>4 DEF LoadEnds
<1>5. CASE AiRestart
  <2>1. loader'.saved.key = NoApiKey
    BY <1>5, ConstantRecords DEF AiRestart
  <2> QED
    BY <1>k, <2>1, <1>5 DEF AiRestart
<1>6. CASE initialize_master_key
  BY <1>6, <1>k DEF initialize_master_key
<1>7. ASSUME NEW s \in Saver, save_ingestion_config(s) PROVE KeyInv'
  BY <1>7, <1>k DEF save_ingestion_config
<1>8. ASSUME NEW s \in Saver, save_to_file(s) PROVE KeyInv'
  <2>1. CASE UNCHANGED <<cfgFile, dropped>>
    BY <1>k, <2>1, <1>8 DEF save_to_file
  <2>2. CASE /\ cfgFile' = prepare_for_save([saver[s].request EXCEPT !.key = NoApiKey])
             /\ dropped' = (dropped \/ (cfgFile.key # NoApiKey /\ sealed = NoSecret))
    <3>1. saver[s].request \in FileRecord
      BY DEF StoreInv, SaveRecord
    <3>2. cfgFile'.key = NoApiKey
      BY <2>2, <3>1 DEF prepare_for_save, FileRecord
    <3>3. UNCHANGED <<sealed, given, loader>>
      BY <1>8 DEF save_to_file
    <3>4. CASE dropped \/ (cfgFile.key # NoApiKey /\ sealed = NoSecret)
      <4>1. dropped'
        BY <2>2, <3>4, Zenon
      <4> QED
        BY <4>1 DEF KeyInv
    <3>5. CASE ~ dropped /\ ~ (cfgFile.key # NoApiKey /\ sealed = NoSecret)
      <4>1. sealed.key = NoApiKey => cfgFile.key = NoApiKey
        BY <3>5 DEF StoreInv
      <4>2. /\ sealed.key # NoApiKey => given = sealed.key
            /\ sealed.key = NoApiKey => given = cfgFile.key /\ loader.saved.key \in {NoApiKey, given}
        BY <3>5 DEF KeyInv
      <4> QED
        BY <4>1, <4>2, <3>2, <3>3 DEF KeyInv
    <3> QED
      BY <3>4, <3>5
  <2> QED
    BY <2>1, <2>2, <1>8 DEF save_to_file
<1>9. ASSUME NEW s \in Saver, SaveKey(s) PROVE KeyInv'
  <2>1. CASE UNCHANGED <<sealed, given>>
    BY <1>k, <2>1, <1>9 DEF SaveKey
  <2>2. CASE /\ ~ KeepsKey(saver[s].request.key)
             /\ sealed' = [key |-> saver[s].request.key, under |-> master]
             /\ given' = IF saver[s].request.key \in UserKey THEN saver[s].request.key ELSE given
    <3>1. saver[s].request.key \in UserKey
      BY <2>2 DEF KeepsKey, StoreInv
    <3> QED
      BY <3>1, <2>2, <1>0, <1>9 DEF SaveKey, KeyInv
  <2> QED
    BY <2>1, <2>2, <1>9 DEF SaveKey
<1>10. ASSUME NEW s \in Saver, ReloadConfig(s) PROVE KeyInv'
  BY <1>10, <1>k DEF ReloadConfig
<1>11. ASSUME NEW s \in Saver, ReplaceService(s) PROVE KeyInv'
  BY <1>11, <1>k DEF ReplaceService
<1>12. ASSUME NEW s \in Saver, reload(s) PROVE KeyInv'
  BY <1>12, <1>k DEF reload
<1>13. CASE StartCall
  BY <1>13, <1>k DEF StartCall
<1>14. CASE call_with_retries
  BY <1>14, <1>k DEF call_with_retries
<1>15. CASE record_call
  BY <1>15, <1>k DEF record_call
<1>16. CASE UNCHANGED aiVars
  BY <1>16, <1>k DEF aiVars
<1> QED
  BY <1>1, <1>2, <1>3, <1>4, <1>5, <1>6, <1>7, <1>8, <1>9, <1>10, <1>11, <1>12,
     <1>13, <1>14, <1>15, <1>16
  DEF AiNext, LoadNext, SaveNext, CallNext

(***************************************************************************)
(* KeyKept: an accepted key is always on disk, sealed or in the clear,     *)
(* through migrations, concurrent saves, failing writes and restarts,      *)
(* unless a save replaced a file whose key was never migrated              *)
(* (IngestionConfig::save_to_file, load).                                  *)
(***************************************************************************)
THEOREM KeptCorrect == AiSpec => []KeyKept
<1>1. AiInit => StripInv /\ KeyInv
  BY ConstantRecords DEF AiInit, StripInv, KeyInv, NoSecret
<1>2. StoreInv /\ StripInv /\ [AiNext]_aiVars => StripInv'
  BY StripStep
<1>3. StoreInv /\ StripInv /\ KeyInv /\ [AiNext]_aiVars => KeyInv'
  BY KeyStep
<1>4. KeyInv => KeyKept
  BY DEF KeyInv, KeyKept
<1> QED
  BY <1>1, <1>2, <1>3, <1>4, StoreInvariant, PTL DEF AiSpec
=============================================================================
