---------------------------- MODULE PeopleProofs ----------------------------
(***************************************************************************)
(* What the node knows of people, for any number of requests in progress:  *)
(* the replay prevention of trust invites and the revocation of contacts   *)
(* (any keys, domains and invites), and the personas with the cards of     *)
(* others (any tasks, fingerprints, identities and messages).              *)
(***************************************************************************)
EXTENDS ContactTrust, Personas, FiniteSetTheorems, TLAPS

\* The store accesses a request may still have to do.
BookEdit ==
    [kind : {"role"}, key : Key, domain : Domain, role : Role \cup {NoRole}]
        \cup [kind : {"connect"}, key : Key, role : Role, direction : {"Incoming", "Outgoing"}]
        \cup [kind : {"revoke"}, key : Key]
        \cup [kind : {"accept"}, key : Key, role : Role]
TrustAccess ==
    [op : {"loadTrust"}, domain : Domain, invite : SUBSET Invite]
        \cup [op : {"storeTrust"}, domain : Domain, key : Key, role : Role \cup {NoRole},
              invite : SUBSET Invite]
OtherAccess ==
    [op : {"saveBook", "loadSent", "acceptSent", "loadDeclined"}]
        \cup [op : {"loadBook"}, edit : BookEdit]
        \cup [op : {"listDomains", "checkKnown"}, key : Key]
        \cup [op : {"recordSent"}, nonce : Nonce]
        \cup [op : {"checkNonce", "checkDeclined", "markNonce", "decline", "undecline"},
              invite : Invite]
Access == TrustAccess \cup OtherAccess

ProgTyped == prog \in [Task -> Seq(Access)]

\* The invites an access gives trust for.
Grants(a) == IF a.op \in {"loadTrust", "storeTrust"} THEN a.invite ELSE {}
GrantsIn(p, I) == \A j \in 1..Len(p) : Grants(p[j]) \subseteq I

NonceCheck(i)   == [op |-> "checkNonce", invite |-> i]
DeclineCheck(i) == [op |-> "checkDeclined", invite |-> i]

\* In program p every access that gives trust for an invite of C comes after
\* the replay check of that invite, for one of D after the decline check.
Guarded(p, C, D) ==
    \A j \in 1..Len(p) : \A i \in Grants(p[j]) :
        /\ i \in C => \E h \in 1..(j - 1) : p[h] = NonceCheck(i)
        /\ i \in D => \E h \in 1..(j - 1) : p[h] = DeclineCheck(i)

\* Records only grow while a request that began with them is under way; an
\* undone decline is forgotten by the history with it.
RecordInv ==
    \A t \in Task : start[t].consumed \subseteq consumed /\ start[t].declined \subseteq declined

GuardInv ==
    \A t \in Task : Guarded(prog[t], start[t].consumed, start[t].declined)


-----------------------------------------------------------------------------
(* Programs                                                                *)

(***************************************************************************)
(* What the accesses of each kind carry.                                   *)
(***************************************************************************)
LEMMA AccessTypes ==
    ASSUME NEW a \in Access
    PROVE  /\ a.op \in {"loadTrust", "storeTrust"} => a.domain \in Domain /\ a.invite \subseteq Invite
           /\ a.op = "storeTrust" => a.key \in Key /\ a.role \in Role \cup {NoRole}
           /\ a.op = "loadBook" => a.edit \in BookEdit
           /\ a.op \in {"listDomains", "checkKnown"} => a.key \in Key
           /\ a.op = "recordSent" => a.nonce \in Nonce
           /\ a.op \in {"checkNonce", "checkDeclined", "markNonce", "decline", "undecline"} =>
                 a.invite \in Invite
           /\ a.op = "checkNonce" => a = NonceCheck(a.invite)
           /\ a.op = "checkDeclined" => a = DeclineCheck(a.invite)
<1>1. CASE a \in TrustAccess
  BY <1>1 DEF TrustAccess
<1>2. CASE a \in OtherAccess
  BY <1>2 DEF OtherAccess, NonceCheck, DeclineCheck
<1> QED
  BY <1>1, <1>2 DEF Access

(***************************************************************************)
(* The rest of a program, and its first access.                            *)
(***************************************************************************)
LEMMA TailAccess ==
    ASSUME NEW p \in Seq(Access), p # <<>>
    PROVE  /\ Head(p) \in Access /\ Head(p) = p[1] /\ 1 \in 1..Len(p)
           /\ Tail(p) \in Seq(Access) /\ Len(Tail(p)) = Len(p) - 1
           /\ \A j \in 1..Len(Tail(p)) : Tail(p)[j] = p[j + 1] /\ j + 1 \in 1..Len(p)
OBVIOUS

(***************************************************************************)
(* A program one after the other.                                          *)
(***************************************************************************)
LEMMA ConcatAccess ==
    ASSUME NEW p \in Seq(Access), NEW q \in Seq(Access)
    PROVE  /\ p \o q \in Seq(Access) /\ Len(p \o q) = Len(p) + Len(q)
           /\ Len(p) \in Nat /\ Len(q) \in Nat
           /\ \A j \in 1..Len(p) : (p \o q)[j] = p[j]
           /\ \A j \in 1..Len(q) : (p \o q)[Len(p) + j] = q[j]
           /\ \A j \in 1..Len(p \o q) :
                 \/ j \in 1..Len(p)
                 \/ j - Len(p) \in 1..Len(q) /\ (p \o q)[j] = q[j - Len(p)]
<1>1. /\ p \o q \in Seq(Access) /\ Len(p \o q) = Len(p) + Len(q)
      /\ Len(p) \in Nat /\ Len(q) \in Nat
  OBVIOUS
<1>2. \A j \in 1..Len(p) : (p \o q)[j] = p[j]
  OBVIOUS
<1>3. \A j \in 1..Len(q) : (p \o q)[Len(p) + j] = q[j]
  OBVIOUS
<1>4. ASSUME NEW j \in 1..Len(p \o q), j \notin 1..Len(p)
      PROVE  j - Len(p) \in 1..Len(q) /\ (p \o q)[j] = q[j - Len(p)]
  <2>1. j - Len(p) \in 1..Len(q) /\ Len(p) + (j - Len(p)) = j
    BY <1>1, <1>4
  <2> QED
    BY <1>3, <2>1
<1> QED
  BY <1>1, <1>2, <1>3, <1>4

(***************************************************************************)
(* What a program gives trust for is what its parts do.                    *)
(***************************************************************************)
LEMMA ConcatGrants ==
    ASSUME NEW p \in Seq(Access), NEW q \in Seq(Access), NEW I,
           GrantsIn(p, I), GrantsIn(q, I)
    PROVE  p \o q \in Seq(Access) /\ GrantsIn(p \o q, I)
<1>1. ASSUME NEW j \in 1..Len(p \o q) PROVE Grants((p \o q)[j]) \subseteq I
  <2>1. CASE j \in 1..Len(p)
    BY <2>1, ConcatAccess DEF GrantsIn
  <2>2. CASE j - Len(p) \in 1..Len(q) /\ (p \o q)[j] = q[j - Len(p)]
    BY <2>2 DEF GrantsIn
  <2> QED
    BY <2>1, <2>2, ConcatAccess
<1> QED
  BY <1>1, ConcatAccess DEF GrantsIn

(***************************************************************************)
(* A program that gives trust for no invite needs no check.                *)
(***************************************************************************)
LEMMA PlainGuarded ==
    ASSUME NEW p, GrantsIn(p, {}), NEW C, NEW D
    PROVE  Guarded(p, C, D)
BY DEF GrantsIn, Guarded

(***************************************************************************)
(* A program that checks first is guarded, whatever follows.               *)
(***************************************************************************)
LEMMA ChecksFirst ==
    ASSUME NEW i \in Invite, NEW p \in Seq(Access), GrantsIn(p, {i}), NEW C, NEW D,
           Len(p) >= 2, p[1] = NonceCheck(i), p[2] = DeclineCheck(i)
    PROVE  Guarded(p, C, D)
<1> SUFFICES ASSUME NEW j \in 1..Len(p), NEW k \in Grants(p[j])
             PROVE  /\ \E h \in 1..(j - 1) : p[h] = NonceCheck(k)
                    /\ \E h \in 1..(j - 1) : p[h] = DeclineCheck(k)
  BY DEF Guarded
<1>1. k = i
  BY DEF GrantsIn
<1>2. Grants(p[1]) = {} /\ Grants(p[2]) = {}
  BY DEF Grants, NonceCheck, DeclineCheck
<1>3. j # 1 /\ j # 2
  BY <1>2
<1>4. Len(p) \in Nat
  OBVIOUS
<1>5. 1 \in 1..(j - 1) /\ 2 \in 1..(j - 1)
  BY <1>3, <1>4
<1> QED
  BY <1>1, <1>5

(***************************************************************************)
(* A program guarded against some records is guarded against fewer.        *)
(***************************************************************************)
LEMMA GuardedLess ==
    ASSUME NEW p, NEW C, NEW D, NEW E \in SUBSET C, NEW F \in SUBSET D, Guarded(p, C, D)
    PROVE  Guarded(p, E, F)
BY DEF Guarded

(***************************************************************************)
(* The accesses left of a guarded program are guarded: a check may go once *)
(* what it checks for is not in the records.                               *)
(***************************************************************************)
LEMMA GuardedTail ==
    ASSUME NEW p \in Seq(Access), p # <<>>, NEW C, NEW D, Guarded(p, C, D),
           \A i \in C : Head(p) # NonceCheck(i),
           \A i \in D : Head(p) # DeclineCheck(i)
    PROVE  Guarded(Tail(p), C, D)
<1> SUFFICES ASSUME NEW j \in 1..Len(Tail(p)), NEW i \in Grants(Tail(p)[j])
             PROVE  /\ i \in C => \E h \in 1..(j - 1) : Tail(p)[h] = NonceCheck(i)
                    /\ i \in D => \E h \in 1..(j - 1) : Tail(p)[h] = DeclineCheck(i)
  BY DEF Guarded
<1>1. /\ j + 1 \in 1..Len(p) /\ Tail(p)[j] = p[j + 1] /\ Head(p) = p[1]
      /\ Len(Tail(p)) \in Nat
  BY TailAccess
<1>2. ASSUME NEW h \in 1..((j + 1) - 1), h # 1
      PROVE  h - 1 \in 1..(j - 1) /\ Tail(p)[h - 1] = p[h]
  <2>1. h - 1 \in 1..(j - 1) /\ h - 1 \in 1..Len(Tail(p)) /\ (h - 1) + 1 = h
    BY <1>1, <1>2
  <2> QED
    BY <2>1, TailAccess
<1>3. i \in C => \E h \in 1..((j + 1) - 1) : p[h] = NonceCheck(i) /\ h # 1
  BY <1>1 DEF Guarded
<1>4. i \in D => \E h \in 1..((j + 1) - 1) : p[h] = DeclineCheck(i) /\ h # 1
  BY <1>1 DEF Guarded
<1> QED
  BY <1>2, <1>3, <1>4

(***************************************************************************)
(* Accesses that give no trust may be put before a guarded program.        *)
(***************************************************************************)
LEMMA GuardedAfter ==
    ASSUME NEW q \in Seq(Access), NEW p \in Seq(Access), NEW C, NEW D,
           GrantsIn(q, {}), Guarded(p, C, D)
    PROVE  Guarded(q \o p, C, D)
<1> SUFFICES ASSUME NEW j \in 1..Len(q \o p), NEW i \in Grants((q \o p)[j])
             PROVE  /\ i \in C => \E h \in 1..(j - 1) : (q \o p)[h] = NonceCheck(i)
                    /\ i \in D => \E h \in 1..(j - 1) : (q \o p)[h] = DeclineCheck(i)
  BY DEF Guarded
<1>1. j \notin 1..Len(q)
  BY ConcatAccess DEF GrantsIn
<1>2. j - Len(q) \in 1..Len(p) /\ (q \o p)[j] = p[j - Len(q)] /\ Len(q) \in Nat /\ Len(p) \in Nat
  BY <1>1, ConcatAccess
<1>3. ASSUME NEW h \in 1..((j - Len(q)) - 1)
      PROVE  Len(q) + h \in 1..(j - 1) /\ (q \o p)[Len(q) + h] = p[h]
  <2>1. Len(q) + h \in 1..(j - 1) /\ h \in 1..Len(p)
    BY <1>2
  <2> QED
    BY <2>1, ConcatAccess
<1> QED
  BY <1>2, <1>3 DEF Guarded

(***************************************************************************)
(* A program of one access or of two.                                      *)
(***************************************************************************)
LEMMA ShortPrograms ==
    ASSUME NEW a \in Access, NEW b \in Access, NEW I
    PROVE  /\ <<a>> \in Seq(Access) /\ Len(<<a>>) = 1 /\ <<a>>[1] = a
           /\ Grants(a) \subseteq I => GrantsIn(<<a>>, I)
           /\ <<a, b>> \in Seq(Access)
           /\ Grants(a) \subseteq I /\ Grants(b) \subseteq I => GrantsIn(<<a, b>>, I)
<1>1. <<a>> \in Seq(Access) /\ Len(<<a>>) = 1 /\ <<a>>[1] = a
  OBVIOUS
<1>2. <<a, b>> \in Seq(Access) /\ Len(<<a, b>>) = 2 /\ <<a, b>>[1] = a /\ <<a, b>>[2] = b
  OBVIOUS
<1>3. Grants(a) \subseteq I => GrantsIn(<<a>>, I)
  BY <1>1 DEF GrantsIn
<1>4. Grants(a) \subseteq I /\ Grants(b) \subseteq I => GrantsIn(<<a, b>>, I)
  BY <1>2 DEF GrantsIn
<1> QED
  BY <1>1, <1>2, <1>3, <1>4

(***************************************************************************)
(* The building blocks of the operations.                                  *)
(***************************************************************************)
LEMMA StepPrograms ==
    /\ \A op \in {"loadSent", "acceptSent", "loadDeclined"} :
          Step(op) \in Seq(Access) /\ GrantsIn(Step(op), {})
    /\ \A op \in {"checkNonce", "checkDeclined", "markNonce", "decline", "undecline"}, i \in Invite :
          About(op, i) \in Seq(Access) /\ GrantsIn(About(op, i), {})
    /\ \A e \in BookEdit : EditBook(e) \in Seq(Access) /\ GrantsIn(EditBook(e), {})
    /\ \A k \in Key : /\ ListAndRevoke(k) \in Seq(Access) /\ GrantsIn(ListAndRevoke(k), {})
                      /\ <<[op |-> "checkKnown", key |-> k]>> \in Seq(Access)
                      /\ GrantsIn(<<[op |-> "checkKnown", key |-> k]>>, {})
    /\ \A n \in Nonce : /\ <<[op |-> "recordSent", nonce |-> n]>> \in Seq(Access)
                        /\ GrantsIn(<<[op |-> "recordSent", nonce |-> n]>>, {})
<1>1. ASSUME NEW op \in {"loadSent", "acceptSent", "loadDeclined"}
      PROVE  Step(op) \in Seq(Access) /\ GrantsIn(Step(op), {})
  <2>1. [op |-> op] \in Access /\ Grants([op |-> op]) = {}
    BY DEF Access, OtherAccess, Grants
  <2> QED
    BY <2>1, ShortPrograms DEF Step
<1>2. ASSUME NEW op \in {"checkNonce", "checkDeclined", "markNonce", "decline", "undecline"},
             NEW i \in Invite
      PROVE  About(op, i) \in Seq(Access) /\ GrantsIn(About(op, i), {})
  <2>1. [op |-> op, invite |-> i] \in Access /\ Grants([op |-> op, invite |-> i]) = {}
    BY DEF Access, OtherAccess, Grants
  <2> QED
    BY <2>1, ShortPrograms DEF About
<1>3. ASSUME NEW e \in BookEdit
      PROVE  EditBook(e) \in Seq(Access) /\ GrantsIn(EditBook(e), {})
  <2>1. /\ [op |-> "loadBook", edit |-> e] \in Access
        /\ Grants([op |-> "loadBook", edit |-> e]) = {}
    BY DEF Access, OtherAccess, Grants
  <2>2. [op |-> "saveBook"] \in Access /\ Grants([op |-> "saveBook"]) = {}
    BY DEF Access, OtherAccess, Grants
  <2> QED
    BY <2>1, <2>2, ShortPrograms DEF EditBook
<1>4. ASSUME NEW k \in Key
      PROVE  /\ ListAndRevoke(k) \in Seq(Access) /\ GrantsIn(ListAndRevoke(k), {})
             /\ <<[op |-> "checkKnown", key |-> k]>> \in Seq(Access)
             /\ GrantsIn(<<[op |-> "checkKnown", key |-> k]>>, {})
  <2>1. \A op \in {"listDomains", "checkKnown"} :
           [op |-> op, key |-> k] \in Access /\ Grants([op |-> op, key |-> k]) = {}
    BY DEF Access, OtherAccess, Grants
  <2> QED
    BY <2>1, ShortPrograms DEF ListAndRevoke
<1>5. ASSUME NEW n \in Nonce
      PROVE  /\ <<[op |-> "recordSent", nonce |-> n]>> \in Seq(Access)
             /\ GrantsIn(<<[op |-> "recordSent", nonce |-> n]>>, {})
  <2>1. /\ [op |-> "recordSent", nonce |-> n] \in Access
        /\ Grants([op |-> "recordSent", nonce |-> n]) = {}
    BY DEF Access, OtherAccess, Grants
  <2> QED
    BY <2>1, ShortPrograms
<1> QED
  BY <1>1, <1>2, <1>3, <1>4, <1>5

(***************************************************************************)
(* An edit of a trust map gives trust for the invites it is told of.       *)
(***************************************************************************)
LEMMA EditTrustProgram ==
    ASSUME NEW d \in Domain, NEW k \in Key, NEW r \in Role \cup {NoRole}, NEW I \in SUBSET Invite
    PROVE  /\ EditTrust(d, k, r, I) \in Seq(Access)
           /\ GrantsIn(EditTrust(d, k, r, I), I)
           /\ EditTrust(d, k, r, I)[1] \in Access /\ EditTrust(d, k, r, I)[2] \in Access
           /\ Grants(EditTrust(d, k, r, I)[1]) = I /\ Grants(EditTrust(d, k, r, I)[2]) = I
<1>1. /\ [op |-> "loadTrust", domain |-> d, invite |-> I] \in Access
      /\ Grants([op |-> "loadTrust", domain |-> d, invite |-> I]) = I
  BY DEF Access, TrustAccess, Grants
<1>2. /\ [op |-> "storeTrust", domain |-> d, key |-> k, role |-> r, invite |-> I] \in Access
      /\ Grants([op |-> "storeTrust", domain |-> d, key |-> k, role |-> r, invite |-> I]) = I
  BY DEF Access, TrustAccess, Grants
<1>3. /\ EditTrust(d, k, r, I)[1] = [op |-> "loadTrust", domain |-> d, invite |-> I]
      /\ EditTrust(d, k, r, I)[2] =
            [op |-> "storeTrust", domain |-> d, key |-> k, role |-> r, invite |-> I]
  BY DEF EditTrust
<1>4. EditTrust(d, k, r, I) \in Seq(Access) /\ GrantsIn(EditTrust(d, k, r, I), I)
  BY <1>1, <1>2, ShortPrograms DEF EditTrust
<1> QED
  BY <1>1, <1>2, <1>3, <1>4

(***************************************************************************)
(* The domains listed are domains, each of them once.                      *)
(***************************************************************************)
LEMMA ListedDomains ==
    ASSUME NEW S \in SUBSET Domain
    PROVE  SetToSeq(S) \in Seq(Domain)
<1>1. IsFiniteSet(S)
  BY DomainAssumption, FS_Subset
<1>2. Cardinality(S) \in Nat /\ \E f \in [1..Cardinality(S) -> S] : IsInjective(f)
  BY <1>1, FS_CardinalityType, Zenon
  DEF ExistsBijection, Bijection, Injection, IsInjective
<1>3. SetToSeq(S) \in [1..Cardinality(S) -> S]
  BY <1>2 DEF SetToSeq
<1> QED
  BY <1>2, <1>3

(***************************************************************************)
(* The revocations in the domains listed give trust for no invite.         *)
(***************************************************************************)
LEMMA RevocationsProgram ==
    ASSUME NEW k \in Key, NEW domains \in Seq(Domain)
    PROVE  Revocations(k, domains) \in Seq(Access) /\ GrantsIn(Revocations(k, domains), {})
<1> DEFINE n == 2 * Len(domains)
           R == Revocations(k, domains)
<1>1. n \in Nat
  OBVIOUS
<1>2. ASSUME NEW j \in 1..n PROVE R[j] \in Access /\ Grants(R[j]) = {}
  <2>1. (j + 1) \div 2 \in 1..Len(domains)
    OBVIOUS
  <2>2. domains[(j + 1) \div 2] \in Domain
    BY <2>1
  <2>3. PICK d \in Domain : \/ R[j] = EditTrust(d, k, NoRole, {})[1]
                           \/ R[j] = EditTrust(d, k, NoRole, {})[2]
    BY <2>2 DEF Revocations, RevokeTrustForDomain
  <2> HIDE DEF R, n
  <2>4. {} \in SUBSET Invite /\ NoRole \in Role \cup {NoRole}
    OBVIOUS
  <2> QED
    BY <2>3, <2>4, EditTrustProgram
<1>3. DOMAIN R = 1..n /\ R = [j \in 1..n |-> R[j]]
  BY DEF Revocations
<1> HIDE DEF R
<1>4. R \in [1..n -> Access]
  BY <1>2, <1>3
<1>5. R \in Seq(Access) /\ Len(R) = n
  BY <1>1, <1>4
<1> QED
  BY <1>2, <1>5 DEF GrantsIn, R

(***************************************************************************)
(* The operations that are about no invite give trust for none.            *)
(***************************************************************************)
LEMMA PlainPrograms ==
    /\ \A k \in Key, r \in Role :
          /\ GrantTrustForDomain(k, r) \in Seq(Access) /\ GrantsIn(GrantTrustForDomain(k, r), {})
          /\ AssignRoleToContact(k, r) \in Seq(Access) /\ GrantsIn(AssignRoleToContact(k, r), {})
          /\ \A x \in {"Incoming", "Outgoing"} :
                ConnectContact(k, r, x) \in Seq(Access) /\ GrantsIn(ConnectContact(k, r, x), {})
    /\ \A k \in Key, d \in Domain :
          /\ RevokeTrustForDomain(k, d) \in Seq(Access) /\ GrantsIn(RevokeTrustForDomain(k, d), {})
          /\ RemoveRoleFromContact(k, d) \in Seq(Access) /\ GrantsIn(RemoveRoleFromContact(k, d), {})
    /\ \A k \in Key : RevokeContact(k) \in Seq(Access) /\ GrantsIn(RevokeContact(k), {})
    /\ \A n \in Nonce : CreateTrustInvite(n) \in Seq(Access) /\ GrantsIn(CreateTrustInvite(n), {})
    /\ \A i \in Invite, op \in {"decline", "undecline"} :
          /\ Step("loadDeclined") \o About(op, i) \in Seq(Access)
          /\ GrantsIn(Step("loadDeclined") \o About(op, i), {})
<1>1. ASSUME NEW k \in Key, NEW r \in Role
      PROVE  /\ GrantTrustForDomain(k, r) \in Seq(Access)
             /\ GrantsIn(GrantTrustForDomain(k, r), {})
             /\ AssignRoleToContact(k, r) \in Seq(Access)
             /\ GrantsIn(AssignRoleToContact(k, r), {})
             /\ \A x \in {"Incoming", "Outgoing"} :
                   /\ ConnectContact(k, r, x) \in Seq(Access)
                   /\ GrantsIn(ConnectContact(k, r, x), {})
  <2>1. GrantTrustForDomain(k, r) \in Seq(Access) /\ GrantsIn(GrantTrustForDomain(k, r), {})
    BY RoleAssumption, EditTrustProgram DEF GrantTrustForDomain
  <2>2. [kind |-> "role", key |-> k, domain |-> DomainOf[r], role |-> r] \in BookEdit
    BY RoleAssumption DEF BookEdit
  <2>3. \A x \in {"Incoming", "Outgoing"} :
           [kind |-> "connect", key |-> k, role |-> r, direction |-> x] \in BookEdit
    BY DEF BookEdit
  <2> QED
    BY <2>1, <2>2, <2>3, StepPrograms, ConcatGrants
    DEF AssignRoleToContact, ConnectContact
<1>2. ASSUME NEW k \in Key, NEW d \in Domain
      PROVE  /\ RevokeTrustForDomain(k, d) \in Seq(Access)
             /\ GrantsIn(RevokeTrustForDomain(k, d), {})
             /\ RemoveRoleFromContact(k, d) \in Seq(Access)
             /\ GrantsIn(RemoveRoleFromContact(k, d), {})
  <2>1. RevokeTrustForDomain(k, d) \in Seq(Access) /\ GrantsIn(RevokeTrustForDomain(k, d), {})
    BY EditTrustProgram DEF RevokeTrustForDomain
  <2>2. [kind |-> "role", key |-> k, domain |-> d, role |-> NoRole] \in BookEdit
    BY DEF BookEdit
  <2> QED
    BY <2>1, <2>2, StepPrograms, ConcatGrants DEF RemoveRoleFromContact
<1>3. ASSUME NEW k \in Key
      PROVE  RevokeContact(k) \in Seq(Access) /\ GrantsIn(RevokeContact(k), {})
  <2>1. [kind |-> "revoke", key |-> k] \in BookEdit
    BY DEF BookEdit
  <2> QED
    BY <2>1, StepPrograms, ConcatGrants DEF RevokeContact
<1>4. ASSUME NEW n \in Nonce
      PROVE  CreateTrustInvite(n) \in Seq(Access) /\ GrantsIn(CreateTrustInvite(n), {})
  BY StepPrograms, ConcatGrants DEF CreateTrustInvite
<1>5. ASSUME NEW i \in Invite, NEW op \in {"decline", "undecline"}
      PROVE  /\ Step("loadDeclined") \o About(op, i) \in Seq(Access)
             /\ GrantsIn(Step("loadDeclined") \o About(op, i), {})
  BY StepPrograms, ConcatGrants
<1> QED
  BY <1>1, <1>2, <1>3, <1>4, <1>5

(***************************************************************************)
(* The acceptance of an invite checks it first, and gives trust for no     *)
(* other; also when an invite of this node's own is created after it.      *)
(***************************************************************************)
LEMMA AcceptProgram ==
    ASSUME NEW i \in Invite, NEW r \in Role, NEW C, NEW D
    PROVE  /\ AcceptTrustInvite(i, r) \in Seq(Access)
           /\ Guarded(AcceptTrustInvite(i, r), C, D)
           /\ \A n \in Nonce :
                 /\ AcceptTrustInvite(i, r) \o CreateTrustInvite(n) \in Seq(Access)
                 /\ Guarded(AcceptTrustInvite(i, r) \o CreateTrustInvite(n), C, D)
<1> DEFINE A == About("checkNonce", i)
           B == About("checkDeclined", i)
           G == AcceptGrant(i, r)
           M == About("markNonce", i)
           F == AcceptFiling(i, r)
           p == AcceptTrustInvite(i, r)
<1>1. A \in Seq(Access) /\ B \in Seq(Access) /\ M \in Seq(Access)
  BY StepPrograms
<1>2. GrantsIn(A, {i}) /\ GrantsIn(B, {i}) /\ GrantsIn(M, {i})
  BY StepPrograms DEF GrantsIn
<1>3. G \in Seq(Access) /\ GrantsIn(G, {i})
  BY RoleAssumption, InviteAssumption, EditTrustProgram DEF AcceptGrant
<1>4. F \in Seq(Access) /\ GrantsIn(F, {i})
  <2>1. SenderOf[i] \in Key
    BY InviteAssumption
  <2>2. [kind |-> "accept", key |-> SenderOf[i], role |-> r] \in BookEdit
    BY <2>1 DEF BookEdit
  <2>3. F \in Seq(Access) /\ GrantsIn(F, {})
    BY <2>1, <2>2, StepPrograms, ConcatGrants DEF AcceptFiling
  <2> QED
    BY <2>3 DEF GrantsIn
<1>5. A \o B \in Seq(Access) /\ GrantsIn(A \o B, {i})
  BY <1>1, <1>2, ConcatGrants
<1>6. A \o B \o G \in Seq(Access) /\ GrantsIn(A \o B \o G, {i})
  BY <1>3, <1>5, ConcatGrants
<1>7. A \o B \o G \o M \in Seq(Access) /\ GrantsIn(A \o B \o G \o M, {i})
  BY <1>1, <1>2, <1>6, ConcatGrants
<1>8. p \in Seq(Access) /\ GrantsIn(p, {i})
  BY <1>4, <1>7, ConcatGrants DEF AcceptTrustInvite
<1>9. Len(A \o B) = 2 /\ (A \o B)[1] = NonceCheck(i) /\ (A \o B)[2] = DeclineCheck(i)
  BY DEF About, NonceCheck, DeclineCheck
<1> DEFINE Checks(q) == Len(q) >= 2 /\ q[1] = NonceCheck(i) /\ q[2] = DeclineCheck(i)
<1>10. ASSUME NEW q \in Seq(Access), NEW s \in Seq(Access), Checks(q) PROVE Checks(q \o s)
  BY <1>10, ConcatAccess
<1>11. Checks(A \o B)
  BY <1>9
<1> HIDE DEF A, B, G, M, F, Checks
<1>12. Checks(A \o B \o G \o M \o F)
  BY <1>1, <1>3, <1>4, <1>5, <1>6, <1>7, <1>10, <1>11
<1>13. Checks(p)
  BY <1>12 DEF AcceptTrustInvite, A, B, G, M, F
<1>14. ASSUME NEW n \in Nonce
       PROVE  /\ p \o CreateTrustInvite(n) \in Seq(Access)
              /\ GrantsIn(p \o CreateTrustInvite(n), {i})
              /\ Checks(p \o CreateTrustInvite(n))
  <2>1. CreateTrustInvite(n) \in Seq(Access) /\ GrantsIn(CreateTrustInvite(n), {i})
    BY PlainPrograms DEF GrantsIn
  <2> QED
    BY <1>8, <1>10, <1>13, <2>1, ConcatGrants
<1> HIDE DEF p
<1>15. \A q \in Seq(Access) : GrantsIn(q, {i}) /\ Checks(q) => Guarded(q, C, D)
  BY ChecksFirst DEF Checks
<1> QED
  BY <1>8, <1>13, <1>14, <1>15 DEF p

-----------------------------------------------------------------------------
(* Type correctness                                                        *)

TaskLocal == [map : TrustMap, book : Book, todo : SUBSET Key, mutual : BOOLEAN,
          sent : [Nonce -> SentStatus], declined : SUBSET Invite]
LocalTyped == local \in [Task -> TaskLocal]

TypeInv == TrustTypeOK /\ ProgTyped

(***************************************************************************)
(* Every request is a program that checks an invite before it gives trust  *)
(* for it.                                                                 *)
(***************************************************************************)
LEMMA Served ==
    ASSUME NEW t \in Task, Serve(t)
    PROVE  \E about, p : /\ p \in Seq(Access)
                         /\ \A C, D : Guarded(p, C, D)
                         /\ Start(t, about, p)
<1>1. CASE \E k \in Key, r \in Role :
              \/ Start(t, {k}, AssignRoleToContact(k, r))
              \/ Start(t, {k}, GrantTrustForDomain(k, r))
              \/ \E direction \in {"Incoming", "Outgoing"} :
                    Start(t, {k}, ConnectContact(k, r, direction))
  BY <1>1, PlainPrograms, PlainGuarded
<1>2. CASE \E k \in Key, d \in Domain :
              \/ Start(t, {k}, RemoveRoleFromContact(k, d))
              \/ Start(t, {k}, RevokeTrustForDomain(k, d))
  BY <1>2, PlainPrograms, PlainGuarded
<1>3. CASE \E k \in Key : Start(t, {k}, RevokeContact(k))
  BY <1>3, PlainPrograms, PlainGuarded
<1>4. CASE \E i \in Invite, r \in Role :
              \/ Start(t, {i, SenderOf[i]}, AcceptTrustInvite(i, r))
              \/ \E n \in Nonce : Start(t, {i, SenderOf[i]},
                                        AcceptTrustInvite(i, r) \o CreateTrustInvite(n))
  BY <1>4, AcceptProgram
<1>5. CASE \E n \in Nonce : Start(t, {}, CreateTrustInvite(n))
  BY <1>5, PlainPrograms, PlainGuarded
<1>6. CASE \E i \in Invite : \/ Start(t, {i}, Step("loadDeclined") \o About("decline", i))
                             \/ Start(t, {i}, Step("loadDeclined") \o About("undecline", i))
  BY <1>6, PlainPrograms, PlainGuarded
<1> QED
  BY <1>1, <1>2, <1>3, <1>4, <1>5, <1>6 DEF Serve

(***************************************************************************)
(* An access ends: the program and what was read change for this request   *)
(* alone.                                                                  *)
(***************************************************************************)
LEMMA AccessEnds ==
    ASSUME TypeInv, NEW t \in Task, NEW rest \in Seq(Access), NEW read \in TaskLocal,
           Done(t, rest, read)
    PROVE  /\ ProgTyped' /\ LocalTyped'
           /\ \A u \in Task : prog'[u] = IF u = t THEN rest ELSE prog[u]
<1>1. EmptyLocal \in TaskLocal
  BY DEF EmptyLocal, TaskLocal, EmptyMap, EmptyBook, NoneSent, TrustMap, Book, SentStatus
<1>2. ProgTyped' /\ \A u \in Task : prog'[u] = IF u = t THEN rest ELSE prog[u]
  BY DEF Done, TypeInv, ProgTyped
<1>3. local \in [Task -> TaskLocal]
  BY DEF TypeInv, TrustTypeOK, TaskLocal
<1>4. LocalTyped'
  BY <1>1, <1>3 DEF Done, LocalTyped
<1> QED
  BY <1>2, <1>4

(***************************************************************************)
(* What a request has read, and where it is.                               *)
(***************************************************************************)
LEMMA AtTypes ==
    ASSUME TypeInv, NEW t \in Task
    PROVE  /\ prog[t] \in Seq(Access)
           /\ local[t] \in TaskLocal
           /\ \A op : At(t, op) => /\ Head(prog[t]) \in Access /\ Head(prog[t]).op = op
                                   /\ Tail(prog[t]) \in Seq(Access)
BY DEF TypeInv, TrustTypeOK, ProgTyped, TaskLocal, At

(***************************************************************************)
(* The edits of a contact book keep it one.                                *)
(***************************************************************************)
LEMMA EditedBook ==
    ASSUME TypeInv, NEW t \in Task, At(t, "loadBook")
    PROVE  Edited(t) \in Book
<1> DEFINE e == Head(prog[t]).edit
<1>1. e \in BookEdit
  BY AtTypes, AccessTypes
<1>2. contacts \in Book
  BY DEF TypeInv, TrustTypeOK
<1>3. ASSUME NEW k \in Key, NEW r \in Role, NEW direction \in {"Outgoing", "Incoming", "Mutual"}
      PROVE  Upsert(contacts, k, r, direction) \in Book
  <2>1. [revoked |-> FALSE, direction |-> direction,
         roles |-> [d \in Domain |-> IF d = DomainOf[r] THEN r ELSE NoRole]] \in Contact
    BY DEF Contact
  <2> QED
    BY <1>2, <2>1 DEF Upsert, Book
<1>4. ASSUME NEW k \in Key, contacts[k] # NoContact PROVE contacts[k] \in Contact
  BY <1>2, <1>4 DEF Book
<1>5. ASSUME NEW k \in Key PROVE Revoke(contacts, k) \in Book
  <2>1. CASE contacts[k] = NoContact
    BY <1>2, <2>1 DEF Revoke
  <2>2. CASE contacts[k] # NoContact
    <3>1. [contacts[k] EXCEPT !.revoked = TRUE] \in Contact
      BY <1>4, <2>2 DEF Contact
    <3>2. Revoke(contacts, k) = [contacts EXCEPT ![k] = [contacts[k] EXCEPT !.revoked = TRUE]]
      BY <2>2 DEF Revoke
    <3> QED
      BY <1>2, <3>1, <3>2 DEF Book
  <2> QED
    BY <2>1, <2>2
<1>6. ASSUME NEW k \in Key, NEW d \in Domain, NEW r \in Role \cup {NoRole}
      PROVE  SetRole(contacts, k, d, r) \in Book
  <2>1. CASE contacts[k] = NoContact
    BY <1>2, <2>1 DEF SetRole
  <2>2. CASE contacts[k] # NoContact
    <3> DEFINE c == contacts[k]
    <3>1. c \in Contact /\ c.roles \in [Domain -> Role \cup {NoRole}]
      BY <1>4, <2>2 DEF Contact
    <3>2. [c.roles EXCEPT ![d] = r] \in [Domain -> Role \cup {NoRole}]
      BY <3>1
    <3>3. [c EXCEPT !.roles = [c.roles EXCEPT ![d] = r]] \in Contact
      BY <3>1, <3>2 DEF Contact
    <3>4. SetRole(contacts, k, d, r)
             = [contacts EXCEPT ![k] = [c EXCEPT !.roles = [c.roles EXCEPT ![d] = r]]]
      BY <2>2 DEF SetRole
    <3> QED
      BY <1>2, <3>3, <3>4 DEF Book
  <2> QED
    BY <2>1, <2>2
<1>7. CASE e.kind = "role"
  <2>1. e.key \in Key /\ e.domain \in Domain /\ e.role \in Role \cup {NoRole}
    BY <1>1, <1>7 DEF BookEdit
  <2> QED
    BY <1>6, <1>7, <2>1 DEF Edited
<1>8. CASE e.kind = "revoke"
  BY <1>1, <1>5, <1>8 DEF Edited, BookEdit
<1>9. CASE e.kind = "connect"
  <2>1. e.key \in Key /\ e.role \in Role /\ e.direction \in {"Incoming", "Outgoing"}
    BY <1>1, <1>9 DEF BookEdit
  <2> QED
    BY <1>3, <1>9, <2>1 DEF Edited
<1>10. CASE e.kind = "accept"
  <2>1. e.key \in Key /\ e.role \in Role
    BY <1>1, <1>10 DEF BookEdit
  <2> QED
    BY <1>3, <1>10, <2>1 DEF Edited
<1>11. e.kind \in {"role", "revoke", "connect", "accept"}
  BY <1>1 DEF BookEdit
<1> QED
  BY <1>7, <1>8, <1>9, <1>10, <1>11

(***************************************************************************)
(* The trust maps, the contact book, the records and every request under   *)
(* way stay well formed.                                                   *)
(***************************************************************************)
LEMMA TypeInvariant == TrustSpec => []TypeInv
<1>1. TrustInit => TypeInv
  <2> SUFFICES ASSUME TrustInit PROVE TypeInv
    OBVIOUS
  <2>1. EmptyMap \in TrustMap /\ EmptyBook \in Book /\ NoneSent \in [Nonce -> SentStatus]
    BY DEF EmptyMap, EmptyBook, NoneSent, TrustMap, Book, SentStatus
  <2>2. EmptyLocal \in TaskLocal
    BY <2>1 DEF EmptyLocal, TaskLocal
  <2>3. ProgTyped
    BY DEF TrustInit, ProgTyped
  <2> QED
    BY <2>1, <2>2, <2>3 DEF TrustInit, TypeInv, TrustTypeOK, TaskLocal
<1>2. TypeInv /\ [TrustNext]_trustVars => TypeInv'
  <2> SUFFICES ASSUME TypeInv, [TrustNext]_trustVars PROVE TypeInv'
    OBVIOUS
  <2>1. ASSUME NEW t \in Task, Serve(t) PROVE TypeInv'
    <3>1. PICK about, p : p \in Seq(Access) /\ Start(t, about, p)
      BY <2>1, Served
    <3>2. ProgTyped'
      BY <3>1 DEF Start, TypeInv, ProgTyped
    <3>3. \A u \in Task : start[u] \in [consumed : SUBSET Invite, declined : SUBSET Invite,
                                        alone : BOOLEAN]
      BY DEF TypeInv, TrustTypeOK
    <3>4. consumed \cap about \subseteq Invite /\ declined \cap about \subseteq Invite
      BY DEF TypeInv, TrustTypeOK
    <3>5. start' \in [Task -> [consumed : SUBSET Invite, declined : SUBSET Invite,
                               alone : BOOLEAN]]
      BY <3>1, <3>3, <3>4 DEF Start
    <3> QED
      BY <3>1, <3>2, <3>5 DEF Start, storeVars, TypeInv, TrustTypeOK
  <2>2. ASSUME NEW t \in Task, Fail(t) PROVE TypeInv'
    <3>1. <<>> \in Seq(Access) /\ local[t] \in TaskLocal
      BY AtTypes
    <3>2. ProgTyped' /\ LocalTyped'
      BY <2>2, <3>1, AccessEnds DEF Fail
    <3> QED
      BY <2>2, <3>2 DEF Fail, storeVars, TypeInv, TrustTypeOK, LocalTyped, TaskLocal
  <2>3. ASSUME NEW t \in Task, LoadTrustMap(t) PROVE TypeInv'
    <3>1. trust[Head(prog[t]).domain] \in TrustMap
      BY <2>3, AtTypes, AccessTypes DEF LoadTrustMap, TypeInv, TrustTypeOK
    <3>2. [local[t] EXCEPT !.map = trust[Head(prog[t]).domain]] \in TaskLocal
      BY <3>1, AtTypes DEF TaskLocal
    <3>3. ProgTyped' /\ LocalTyped'
      BY <2>3, <3>2, AtTypes, AccessEnds DEF LoadTrustMap, Advance
    <3> QED
      BY <2>3, <3>3 DEF LoadTrustMap, storeVars, TypeInv, TrustTypeOK, LocalTyped, TaskLocal
  <2>4. ASSUME NEW t \in Task, StoreTrustMap(t) PROVE TypeInv'
    <3> DEFINE s == Head(prog[t])
    <3>1. s.domain \in Domain /\ s.key \in Key /\ s.role \in Role \cup {NoRole}
      BY <2>4, AtTypes, AccessTypes DEF StoreTrustMap
    <3>2. local[t].map \in TrustMap
      BY AtTypes DEF TaskLocal
    <3>3. [local[t].map EXCEPT ![s.key] = s.role] \in TrustMap
      BY <3>1, <3>2 DEF TrustMap
    <3>4. trust' \in [Domain -> TrustMap] /\ stored' \subseteq Domain
      BY <2>4, <3>1, <3>3 DEF StoreTrustMap, TypeInv, TrustTypeOK
    <3>5. [local[t] EXCEPT !.map = EmptyMap] \in TaskLocal
      BY AtTypes DEF TaskLocal, EmptyMap, TrustMap
    <3>6. ProgTyped' /\ LocalTyped'
      BY <2>4, <3>5, AtTypes, AccessEnds DEF StoreTrustMap, Advance
    <3> QED
      BY <2>4, <3>4, <3>6 DEF StoreTrustMap, TypeInv, TrustTypeOK, LocalTyped, TaskLocal
  <2>5. ASSUME NEW t \in Task, ListDomains(t) PROVE TypeInv'
    <3>1. Head(prog[t]).key \in Key /\ Tail(prog[t]) \in Seq(Access) /\ local[t] \in TaskLocal
      BY <2>5, AtTypes, AccessTypes DEF ListDomains
    <3>2. SetToSeq(stored) \in Seq(Domain)
      BY ListedDomains DEF TypeInv, TrustTypeOK
    <3>3. Revocations(Head(prog[t]).key, SetToSeq(stored)) \o Tail(prog[t]) \in Seq(Access)
      BY <3>1, <3>2, RevocationsProgram, ConcatAccess
    <3>4. ProgTyped' /\ LocalTyped'
      BY <2>5, <3>1, <3>3, AccessEnds DEF ListDomains
    <3> QED
      BY <2>5, <3>4 DEF ListDomains, storeVars, TypeInv, TrustTypeOK, LocalTyped, TaskLocal
  <2>6. ASSUME NEW t \in Task, LoadContactBook(t) PROVE TypeInv'
    <3>1. Edited(t) \in Book
      BY <2>6, EditedBook DEF LoadContactBook
    <3> DEFINE todo == {k \in Key : Edited(t)[k] # NoContact}
    <3>2. todo \subseteq Key
      OBVIOUS
    <3> HIDE DEF todo
    <3>3. [local[t] EXCEPT !.book = Edited(t), !.mutual = FALSE, !.todo = todo] \in TaskLocal
      <4>1. local[t] \in TaskLocal
        BY AtTypes
      <4> QED
        BY <3>1, <3>2, <4>1 DEF TaskLocal
    <3>4. ProgTyped' /\ LocalTyped'
      BY <2>6, <3>3, AtTypes, AccessEnds DEF LoadContactBook, Advance, todo
    <3> QED
      BY <2>6, <3>4
      DEF LoadContactBook, storeVars, TypeInv, TrustTypeOK, LocalTyped, TaskLocal
  <2>7. ASSUME NEW t \in Task, SaveContact(t) PROVE TypeInv'
    <3>1. local[t] \in TaskLocal /\ local[t].todo \subseteq Key /\ local[t].book \in Book
      BY AtTypes DEF TaskLocal
    <3>2. prog[t] \in Seq(Access) /\ Tail(prog[t]) \in Seq(Access)
      BY <2>7, AtTypes DEF SaveContact
    <3>3. contacts' \in Book
      BY <2>7, <3>1 DEF SaveContact, TypeInv, TrustTypeOK, Book
    <3>4. [local[t] EXCEPT !.todo = {}, !.book = EmptyBook] \in TaskLocal
      BY <3>1 DEF TaskLocal, EmptyBook, Book
    <3>5. \A k : [local[t] EXCEPT !.todo = @ \ {k}] \in TaskLocal
      BY <3>1 DEF TaskLocal
    <3>6. \E rest \in Seq(Access), read \in TaskLocal : Done(t, rest, read)
      BY <2>7, <3>1, <3>2, <3>4, <3>5 DEF SaveContact, Advance
    <3>7. ProgTyped' /\ LocalTyped'
      BY <3>6, AccessEnds
    <3> QED
      BY <2>7, <3>3, <3>7 DEF SaveContact, TypeInv, TrustTypeOK, LocalTyped, TaskLocal
  <2>8. ASSUME NEW t \in Task, CheckNonce(t) PROVE TypeInv'
    <3>1. local[t] \in TaskLocal /\ Tail(prog[t]) \in Seq(Access) /\ <<>> \in Seq(Access)
      BY <2>8, AtTypes DEF CheckNonce
    <3>2. \E rest \in Seq(Access) : Done(t, rest, local[t])
      BY <2>8, <3>1 DEF CheckNonce
    <3>3. ProgTyped' /\ LocalTyped'
      BY <3>1, <3>2, AccessEnds
    <3> QED
      BY <2>8, <3>3 DEF CheckNonce, storeVars, TypeInv, TrustTypeOK, LocalTyped, TaskLocal
  <2>9. ASSUME NEW t \in Task, CheckDeclined(t) PROVE TypeInv'
    <3>1. local[t] \in TaskLocal /\ Tail(prog[t]) \in Seq(Access) /\ <<>> \in Seq(Access)
      BY <2>9, AtTypes DEF CheckDeclined
    <3>2. \E rest \in Seq(Access) : Done(t, rest, local[t])
      BY <2>9, <3>1 DEF CheckDeclined, Advance
    <3>3. ProgTyped' /\ LocalTyped'
      BY <3>1, <3>2, AccessEnds
    <3>4. start[t] \in [consumed : SUBSET Invite, declined : SUBSET Invite, alone : BOOLEAN]
      BY DEF TypeInv, TrustTypeOK
    <3>5. [start[t] EXCEPT !.declined = {}]
             \in [consumed : SUBSET Invite, declined : SUBSET Invite, alone : BOOLEAN]
      BY <3>4
    <3>6. start' = start \/ start' = [start EXCEPT ![t] = [start[t] EXCEPT !.declined = {}]]
      BY <2>9 DEF CheckDeclined
    <3>7. start' \in [Task -> [consumed : SUBSET Invite, declined : SUBSET Invite,
                               alone : BOOLEAN]]
      BY <3>5, <3>6 DEF TypeInv, TrustTypeOK
    <3> QED
      BY <2>9, <3>3, <3>7
      DEF CheckDeclined, storeVars, TypeInv, TrustTypeOK, LocalTyped, TaskLocal
  <2>10. ASSUME NEW t \in Task, MarkNonceConsumed(t) PROVE TypeInv'
    <3>1. ProgTyped' /\ LocalTyped'
      BY <2>10, AtTypes, AccessEnds DEF MarkNonceConsumed, Advance
    <3>2. Head(prog[t]).invite \in Invite
      BY <2>10, AtTypes, AccessTypes DEF MarkNonceConsumed
    <3> QED
      BY <2>10, <3>1, <3>2
      DEF MarkNonceConsumed, TypeInv, TrustTypeOK, LocalTyped, TaskLocal
  <2>11. ASSUME NEW t \in Task, CheckKnown(t) PROVE TypeInv'
    <3>1. [local[t] EXCEPT !.mutual = Active(contacts, Head(prog[t]).key)] \in TaskLocal
      BY AtTypes DEF TaskLocal, Active
    <3>2. ProgTyped' /\ LocalTyped'
      BY <2>11, <3>1, AtTypes, AccessEnds DEF CheckKnown, Advance
    <3> QED
      BY <2>11, <3>2 DEF CheckKnown, storeVars, TypeInv, TrustTypeOK, LocalTyped, TaskLocal
  <2>12. ASSUME NEW t \in Task, LoadSent(t) PROVE TypeInv'
    <3>1. \A read \in {sent, NoneSent} : [local[t] EXCEPT !.sent = read] \in TaskLocal
      <4>1. /\ local[t] \in TaskLocal
            /\ sent \in [Nonce -> SentStatus] /\ NoneSent \in [Nonce -> SentStatus]
        BY AtTypes DEF TypeInv, TrustTypeOK, NoneSent, SentStatus
      <4> QED
        BY <4>1 DEF TaskLocal
    <3>2. \E read \in TaskLocal : Done(t, Tail(prog[t]), read)
      BY <2>12, <3>1 DEF LoadSent, Advance
    <3>3. ProgTyped' /\ LocalTyped'
      BY <2>12, <3>2, AtTypes, AccessEnds DEF LoadSent
    <3> QED
      BY <2>12, <3>3 DEF LoadSent, storeVars, TypeInv, TrustTypeOK, LocalTyped, TaskLocal
  <2>13. ASSUME NEW t \in Task, AcceptSent(t) PROVE TypeInv'
    <3>1. local[t].sent \in [Nonce -> SentStatus] /\ NoneSent \in [Nonce -> SentStatus]
      BY AtTypes DEF TaskLocal, NoneSent, SentStatus
    <3>2. PICK rows \in [Nonce -> SentStatus] : SaveSent(t, rows)
      BY <2>13, <3>1 DEF AcceptSent, SentStatus
    <3>3. [local[t] EXCEPT !.sent = NoneSent] \in TaskLocal
      BY <3>1, AtTypes DEF TaskLocal
    <3>4. sent' \in [Nonce -> SentStatus]
      BY <3>2 DEF SaveSent, TypeInv, TrustTypeOK
    <3>5. ProgTyped' /\ LocalTyped'
      BY <2>13, <3>2, <3>3, AtTypes, AccessEnds DEF AcceptSent, SaveSent, Advance
    <3> QED
      BY <3>2, <3>4, <3>5 DEF SaveSent, TypeInv, TrustTypeOK, LocalTyped, TaskLocal
  <2>14. ASSUME NEW t \in Task, RecordSent(t) PROVE TypeInv'
    <3>1. local[t].sent \in [Nonce -> SentStatus] /\ NoneSent \in [Nonce -> SentStatus]
      BY AtTypes DEF TaskLocal, NoneSent, SentStatus
    <3>2. PICK rows \in [Nonce -> SentStatus] : SaveSent(t, rows)
      BY <2>14, <3>1 DEF RecordSent, SentStatus
    <3>3. [local[t] EXCEPT !.sent = NoneSent] \in TaskLocal
      BY <3>1, AtTypes DEF TaskLocal
    <3>4. sent' \in [Nonce -> SentStatus]
      BY <3>2 DEF SaveSent, TypeInv, TrustTypeOK
    <3>5. ProgTyped' /\ LocalTyped'
      BY <2>14, <3>2, <3>3, AtTypes, AccessEnds DEF RecordSent, SaveSent, Advance
    <3> QED
      BY <3>2, <3>4, <3>5 DEF SaveSent, TypeInv, TrustTypeOK, LocalTyped, TaskLocal
  <2>15. ASSUME NEW t \in Task, LoadDeclined(t) PROVE TypeInv'
    <3>1. [local[t] EXCEPT !.declined = declined] \in TaskLocal
      <4>1. local[t] \in TaskLocal /\ declined \subseteq Invite
        BY AtTypes DEF TypeInv, TrustTypeOK
      <4> QED
        BY <4>1 DEF TaskLocal
    <3>2. ProgTyped' /\ LocalTyped'
      BY <2>15, <3>1, AtTypes, AccessEnds DEF LoadDeclined, Advance
    <3> QED
      BY <2>15, <3>2
      DEF LoadDeclined, storeVars, TypeInv, TrustTypeOK, LocalTyped, TaskLocal
  <2>16. ASSUME NEW t \in Task, DeclineTrustInvite(t) PROVE TypeInv'
    <3>1. ProgTyped' /\ LocalTyped'
      BY <2>16, AtTypes, AccessEnds DEF DeclineTrustInvite, Advance
    <3>2. Head(prog[t]).invite \in Invite /\ local[t].declined \subseteq Invite
      BY <2>16, AtTypes, AccessTypes DEF DeclineTrustInvite, TaskLocal
    <3> QED
      BY <2>16, <3>1, <3>2
      DEF DeclineTrustInvite, TypeInv, TrustTypeOK, LocalTyped, TaskLocal
  <2>17. ASSUME NEW t \in Task, UndeclineInvite(t) PROVE TypeInv'
    <3> DEFINE undone == local[t].declined \cap {Head(prog[t]).invite}
    <3>1. ProgTyped' /\ LocalTyped'
      BY <2>17, AtTypes, AccessEnds DEF UndeclineInvite, Advance
    <3>2. \A u \in Task : [start[u] EXCEPT !.declined = @ \ undone]
             \in [consumed : SUBSET Invite, declined : SUBSET Invite, alone : BOOLEAN]
      BY DEF TypeInv, TrustTypeOK
    <3>3. start' \in [Task -> [consumed : SUBSET Invite, declined : SUBSET Invite,
                               alone : BOOLEAN]]
      BY <2>17, <3>2 DEF UndeclineInvite
    <3>4. declined' \subseteq Invite
      BY <2>17 DEF UndeclineInvite, TypeInv, TrustTypeOK
    <3> QED
      BY <2>17, <3>1, <3>3, <3>4
      DEF UndeclineInvite, TypeInv, TrustTypeOK, LocalTyped, TaskLocal
  <2>18. CASE UNCHANGED trustVars
    BY <2>18 DEF trustVars, storeVars, taskVars, TypeInv, TrustTypeOK, ProgTyped
  <2> QED
    BY <2>1, <2>2, <2>3, <2>4, <2>5, <2>6, <2>7, <2>8, <2>9, <2>10, <2>11, <2>12,
       <2>13, <2>14, <2>15, <2>16, <2>17, <2>18
    DEF TrustNext, TaskStep
<1> QED
  BY <1>1, <1>2, PTL DEF TrustSpec

(***************************************************************************)
(* Every request leaves the trust maps, the book and the records well      *)
(* formed, however requests interleave, fail or die.                       *)
(***************************************************************************)
THEOREM TypeCorrect == TrustSpec => []TrustTypeOK
<1>1. TypeInv => TrustTypeOK
  BY DEF TypeInv
<1> QED
  BY <1>1, TypeInvariant, PTL

-----------------------------------------------------------------------------
(* Replay prevention                                                       *)

(***************************************************************************)
(* An access that is no check goes: the rest of the program is guarded.    *)
(***************************************************************************)
LEMMA GuardedRest ==
    ASSUME TypeInv, GuardInv, NEW t \in Task, NEW op, At(t, op),
           op \notin {"checkNonce", "checkDeclined"}
    PROVE  Guarded(Tail(prog[t]), start[t].consumed, start[t].declined)
<1>1. prog[t] \in Seq(Access) /\ prog[t] # <<>> /\ Head(prog[t]).op = op
  BY AtTypes DEF At
<1>2. \A i : Head(prog[t]) # NonceCheck(i) /\ Head(prog[t]) # DeclineCheck(i)
  BY <1>1 DEF NonceCheck, DeclineCheck
<1> QED
  BY <1>1, <1>2, GuardedTail DEF GuardInv

(***************************************************************************)
(* A request goes on with a guarded rest; the others are as they were.     *)
(***************************************************************************)
LEMMA GuardedStep ==
    ASSUME TypeInv, GuardInv, NEW t \in Task, NEW rest, NEW read, Done(t, rest, read),
           UNCHANGED start, Guarded(rest, start[t].consumed, start[t].declined)
    PROVE  GuardInv'
<1>1. \A u \in Task : prog'[u] = IF u = t THEN rest ELSE prog[u]
  BY DEF Done, TypeInv, ProgTyped
<1> QED
  BY <1>1 DEF GuardInv

(***************************************************************************)
(* A request that ends.                                                    *)
(***************************************************************************)
LEMMA NothingGuarded ==
    ASSUME NEW C, NEW D
    PROVE  Guarded(<<>>, C, D)
BY DEF Guarded

(***************************************************************************)
(* No request has an access left that would give trust for an invite it    *)
(* found consumed or declined, before the check that refuses it.           *)
(***************************************************************************)
LEMMA ReplayInvariant == TrustSpec => [](RecordInv /\ GuardInv)
<1>1. TrustInit => RecordInv /\ GuardInv
  BY NothingGuarded DEF TrustInit, RecordInv, GuardInv
<1>2. TypeInv /\ RecordInv /\ GuardInv /\ [TrustNext]_trustVars => (RecordInv /\ GuardInv)'
  <2> SUFFICES ASSUME TypeInv, RecordInv, GuardInv, [TrustNext]_trustVars
               PROVE  RecordInv' /\ GuardInv'
    OBVIOUS
  <2>1. ASSUME NEW t \in Task, Serve(t) PROVE RecordInv' /\ GuardInv'
    <3>1. PICK about, p : (\A C, D : Guarded(p, C, D)) /\ Start(t, about, p)
      BY <2>1, Served
    <3>2. \A u \in Task : prog'[u] = IF u = t THEN p ELSE prog[u]
      BY <3>1 DEF Start, TypeInv, ProgTyped
    <3>3. \A u \in Task \ {t} : /\ start'[u].consumed = start[u].consumed
                                /\ start'[u].declined = start[u].declined
      BY <3>1 DEF Start, TypeInv, TrustTypeOK
    <3>4. start'[t].consumed \subseteq consumed /\ start'[t].declined \subseteq declined
      BY <3>1 DEF Start
    <3>5. UNCHANGED <<consumed, declined>>
      BY <3>1 DEF Start, storeVars
    <3>6. RecordInv'
      BY <3>3, <3>4, <3>5 DEF RecordInv
    <3>7. GuardInv'
      BY <3>1, <3>2, <3>3 DEF GuardInv
    <3> QED
      BY <3>6, <3>7
  <2>2. ASSUME NEW t \in Task, Fail(t) PROVE RecordInv' /\ GuardInv'
    <3>1. GuardInv'
      BY <2>2, NothingGuarded, GuardedStep DEF Fail
    <3> QED
      BY <2>2, <3>1 DEF Fail, storeVars, RecordInv
  <2>3. ASSUME NEW t \in Task, LoadTrustMap(t) PROVE RecordInv' /\ GuardInv'
    <3>1. GuardInv'
      BY <2>3, GuardedRest, GuardedStep DEF LoadTrustMap, Advance
    <3> QED
      BY <2>3, <3>1 DEF LoadTrustMap, storeVars, RecordInv
  <2>4. ASSUME NEW t \in Task, StoreTrustMap(t) PROVE RecordInv' /\ GuardInv'
    <3>1. GuardInv'
      BY <2>4, GuardedRest, GuardedStep DEF StoreTrustMap, Advance
    <3> QED
      BY <2>4, <3>1 DEF StoreTrustMap, storeVars, RecordInv
  <2>5. ASSUME NEW t \in Task, ListDomains(t) PROVE RecordInv' /\ GuardInv'
    <3>1. Head(prog[t]).key \in Key /\ Tail(prog[t]) \in Seq(Access)
      BY <2>5, AtTypes, AccessTypes DEF ListDomains
    <3>2. SetToSeq(stored) \in Seq(Domain)
      BY ListedDomains DEF TypeInv, TrustTypeOK
    <3>3. Guarded(Tail(prog[t]), start[t].consumed, start[t].declined)
      BY <2>5, GuardedRest DEF ListDomains
    <3> DEFINE first == Revocations(Head(prog[t]).key, SetToSeq(stored))
    <3>4. first \in Seq(Access) /\ GrantsIn(first, {})
      BY <3>1, <3>2, RevocationsProgram
    <3>5. Done(t, first \o Tail(prog[t]), local[t]) /\ UNCHANGED start
      BY <2>5 DEF ListDomains
    <3> HIDE DEF first
    <3>6. Guarded(first \o Tail(prog[t]), start[t].consumed, start[t].declined)
      BY <3>1, <3>3, <3>4, GuardedAfter
    <3>7. GuardInv'
      BY <3>5, <3>6, GuardedStep
    <3> QED
      BY <2>5, <3>7 DEF ListDomains, storeVars, RecordInv
  <2>6. ASSUME NEW t \in Task, LoadContactBook(t) PROVE RecordInv' /\ GuardInv'
    <3>1. GuardInv'
      BY <2>6, GuardedRest, GuardedStep DEF LoadContactBook, Advance
    <3> QED
      BY <2>6, <3>1 DEF LoadContactBook, storeVars, RecordInv
  <2>7. ASSUME NEW t \in Task, SaveContact(t) PROVE RecordInv' /\ GuardInv'
    <3>1. Guarded(Tail(prog[t]), start[t].consumed, start[t].declined)
      BY <2>7, GuardedRest DEF SaveContact
    <3>2. Guarded(prog[t], start[t].consumed, start[t].declined)
      BY DEF GuardInv
    <3>3. \E rest \in {prog[t], Tail(prog[t])} : \E read : Done(t, rest, read)
      BY <2>7 DEF SaveContact, Advance
    <3>4. GuardInv'
      BY <2>7, <3>1, <3>2, <3>3, GuardedStep DEF SaveContact
    <3> QED
      BY <2>7, <3>4 DEF SaveContact, RecordInv
  <2>8. ASSUME NEW t \in Task, CheckNonce(t) PROVE RecordInv' /\ GuardInv'
    <3> DEFINE i == Head(prog[t]).invite
    <3>1. prog[t] \in Seq(Access) /\ prog[t] # <<>> /\ Head(prog[t]) = NonceCheck(i)
      BY <2>8, AtTypes, AccessTypes DEF CheckNonce, At
    <3>2. ASSUME i \in consumed PROVE GuardInv'
      <4>1. Done(t, <<>>, local[t]) /\ UNCHANGED start
        BY <2>8, <3>2 DEF CheckNonce
      <4> QED
        BY <4>1, NothingGuarded, GuardedStep
    <3>3. ASSUME i \notin consumed PROVE GuardInv'
      <4>1. Done(t, Tail(prog[t]), local[t]) /\ UNCHANGED start
        BY <2>8, <3>3 DEF CheckNonce
      <4>2. \A k \in start[t].consumed : Head(prog[t]) # NonceCheck(k)
        BY <3>1, <3>3 DEF RecordInv, NonceCheck
      <4>3. \A k : Head(prog[t]) # DeclineCheck(k)
        BY <3>1 DEF NonceCheck, DeclineCheck
      <4>4. Guarded(Tail(prog[t]), start[t].consumed, start[t].declined)
        BY <3>1, <4>2, <4>3, GuardedTail DEF GuardInv
      <4> QED
        BY <4>1, <4>4, GuardedStep
    <3> QED
      BY <2>8, <3>2, <3>3 DEF CheckNonce, storeVars, RecordInv
  <2>9. ASSUME NEW t \in Task, CheckDeclined(t) PROVE RecordInv' /\ GuardInv'
    <3> DEFINE i == Head(prog[t]).invite
    <3>1. prog[t] \in Seq(Access) /\ prog[t] # <<>> /\ Head(prog[t]) = DeclineCheck(i)
      BY <2>9, AtTypes, AccessTypes DEF CheckDeclined, At
    <3>2. \A k : Head(prog[t]) # NonceCheck(k)
      BY <3>1 DEF NonceCheck, DeclineCheck
    <3>3. CASE UNCHANGED start /\ Done(t, <<>>, local[t])
      <4>1. GuardInv'
        BY <3>3, NothingGuarded, GuardedStep
      <4> QED
        BY <2>9, <3>3, <4>1 DEF CheckDeclined, storeVars, RecordInv
    <3>4. CASE UNCHANGED start /\ Done(t, Tail(prog[t]), local[t]) /\ i \notin declined
      <4>1. \A k \in start[t].declined : Head(prog[t]) # DeclineCheck(k)
        BY <3>1, <3>4 DEF RecordInv, DeclineCheck
      <4>2. Guarded(Tail(prog[t]), start[t].consumed, start[t].declined)
        BY <3>1, <3>2, <4>1, GuardedTail DEF GuardInv
      <4>3. GuardInv'
        BY <3>4, <4>2, GuardedStep
      <4> QED
        BY <2>9, <3>4, <4>3 DEF CheckDeclined, storeVars, RecordInv
    <3>5. CASE start' = [start EXCEPT ![t].declined = {}] /\ Done(t, Tail(prog[t]), local[t])
      <4>1. \A u \in Task : start'[u].consumed = start[u].consumed
                            /\ start'[u].declined = IF u = t THEN {} ELSE start[u].declined
        BY <3>5 DEF TypeInv, TrustTypeOK
      <4>2. \A u \in Task : prog'[u] = IF u = t THEN Tail(prog[t]) ELSE prog[u]
        BY <3>5 DEF Done, TypeInv, ProgTyped
      <4>3. Guarded(prog[t], start[t].consumed, {})
        BY GuardedLess DEF GuardInv
      <4>4. Guarded(Tail(prog[t]), start[t].consumed, {})
        BY <3>1, <3>2, <4>3, GuardedTail
      <4>5. GuardInv'
        BY <4>1, <4>2, <4>4 DEF GuardInv
      <4>6. UNCHANGED <<consumed, declined>>
        BY <2>9 DEF CheckDeclined, storeVars
      <4> QED
        BY <4>1, <4>5, <4>6 DEF RecordInv
    <3> QED
      BY <2>9, <3>3, <3>4, <3>5 DEF CheckDeclined, Advance
  <2>10. ASSUME NEW t \in Task, MarkNonceConsumed(t) PROVE RecordInv' /\ GuardInv'
    <3>1. GuardInv'
      BY <2>10, GuardedRest, GuardedStep DEF MarkNonceConsumed, Advance
    <3> QED
      BY <2>10, <3>1 DEF MarkNonceConsumed, storeVars, RecordInv
  <2>11. ASSUME NEW t \in Task, CheckKnown(t) PROVE RecordInv' /\ GuardInv'
    <3>1. GuardInv'
      BY <2>11, GuardedRest, GuardedStep DEF CheckKnown, Advance
    <3> QED
      BY <2>11, <3>1 DEF CheckKnown, storeVars, RecordInv
  <2>12. ASSUME NEW t \in Task, LoadSent(t) PROVE RecordInv' /\ GuardInv'
    <3>1. \E read : Done(t, Tail(prog[t]), read)
      BY <2>12 DEF LoadSent, Advance
    <3>2. GuardInv'
      BY <2>12, <3>1, GuardedRest, GuardedStep DEF LoadSent
    <3> QED
      BY <2>12, <3>2 DEF LoadSent, storeVars, RecordInv
  <2>13. ASSUME NEW t \in Task, AcceptSent(t) PROVE RecordInv' /\ GuardInv'
    <3>1. PICK rows : SaveSent(t, rows)
      BY <2>13, Zenon DEF AcceptSent
    <3>2. GuardInv'
      BY <2>13, <3>1, GuardedRest, GuardedStep DEF AcceptSent, SaveSent, Advance
    <3> QED
      BY <3>1, <3>2 DEF SaveSent, RecordInv
  <2>14. ASSUME NEW t \in Task, RecordSent(t) PROVE RecordInv' /\ GuardInv'
    <3>1. PICK rows : SaveSent(t, rows)
      BY <2>14, Zenon DEF RecordSent
    <3>2. GuardInv'
      BY <2>14, <3>1, GuardedRest, GuardedStep DEF RecordSent, SaveSent, Advance
    <3> QED
      BY <3>1, <3>2 DEF SaveSent, RecordInv
  <2>15. ASSUME NEW t \in Task, LoadDeclined(t) PROVE RecordInv' /\ GuardInv'
    <3>1. GuardInv'
      BY <2>15, GuardedRest, GuardedStep DEF LoadDeclined, Advance
    <3> QED
      BY <2>15, <3>1 DEF LoadDeclined, storeVars, RecordInv
  <2>16. ASSUME NEW t \in Task, DeclineTrustInvite(t) PROVE RecordInv' /\ GuardInv'
    <3>1. GuardInv'
      BY <2>16, GuardedRest, GuardedStep DEF DeclineTrustInvite, Advance
    <3> QED
      BY <2>16, <3>1 DEF DeclineTrustInvite, storeVars, RecordInv
  <2>17. ASSUME NEW t \in Task, UndeclineInvite(t) PROVE RecordInv' /\ GuardInv'
    <3> DEFINE undone == local[t].declined \cap {Head(prog[t]).invite}
    <3>1. \A u \in Task : start'[u].consumed = start[u].consumed
                          /\ start'[u].declined = start[u].declined \ undone
      BY <2>17 DEF UndeclineInvite, TypeInv, TrustTypeOK
    <3>2. consumed' = consumed /\ declined' = declined \ undone
      BY <2>17 DEF UndeclineInvite
    <3>3. \A u \in Task : prog'[u] = IF u = t THEN Tail(prog[t]) ELSE prog[u]
      BY <2>17 DEF UndeclineInvite, Advance, Done, TypeInv, ProgTyped
    <3>4. Guarded(Tail(prog[t]), start[t].consumed, start[t].declined)
      BY <2>17, GuardedRest DEF UndeclineInvite
    <3> HIDE DEF undone
    <3>5. \A u \in Task : start'[u].declined \subseteq start[u].declined
      BY <3>1
    <3>6. ASSUME NEW u \in Task
          PROVE  Guarded(prog'[u], start'[u].consumed, start'[u].declined)
      <4>1. Guarded(prog'[u], start[u].consumed, start[u].declined)
        BY <3>3, <3>4 DEF GuardInv
      <4> QED
        BY <3>1, <3>5, <4>1, GuardedLess
    <3> QED
      BY <3>1, <3>2, <3>6 DEF RecordInv, GuardInv
  <2>18. CASE UNCHANGED trustVars
    BY <2>18 DEF trustVars, storeVars, taskVars, RecordInv, GuardInv
  <2> QED
    BY <2>1, <2>2, <2>3, <2>4, <2>5, <2>6, <2>7, <2>8, <2>9, <2>10, <2>11, <2>12,
       <2>13, <2>14, <2>15, <2>16, <2>17, <2>18
    DEF TrustNext, TaskStep
<1> QED
  BY <1>1, <1>2, TypeInvariant, PTL DEF TrustSpec

(***************************************************************************)
(* Replay prevention: accept_trust_invite gives no trust for an invite     *)
(* whose nonce was consumed, or that was declined, when the request began. *)
(***************************************************************************)
THEOREM ReplayCorrect == TrustSpec => []ReplayRefused
<1>1. TypeInv /\ GuardInv => ReplayRefused
  <2> SUFFICES ASSUME TypeInv, GuardInv, NEW t \in Task, NEW i \in Granting(t)
               PROVE  i \notin start[t].consumed /\ i \notin start[t].declined
    BY DEF ReplayRefused
  <2>1. At(t, "loadTrust") \/ At(t, "storeTrust")
    BY DEF Granting
  <2>2. prog[t] \in Seq(Access) /\ prog[t] # <<>>
    BY <2>1, AtTypes DEF At
  <2>3. 1 \in 1..Len(prog[t]) /\ Head(prog[t]) = prog[t][1]
    BY <2>2, TailAccess
  <2>4. i \in Grants(prog[t][1])
    BY <2>1, <2>3 DEF Granting, Grants, At
  <2>5. ~\E h \in 1..(1 - 1) : TRUE
    OBVIOUS
  <2> QED
    BY <2>3, <2>4, <2>5 DEF GuardInv, Guarded
<1> QED
  BY <1>1, TypeInvariant, ReplayInvariant, PTL

-----------------------------------------------------------------------------
(* Revocations                                                             *)

\* The access that marks a contact as revoked in the book it loads.
Marks(a) == a.op = "loadBook" /\ a.edit.kind = "revoke"

\* The accesses by which a revocation of k takes its trust away, and those
\* after which it has none in domain d, or the domains with trust are listed.
Sweeping(a, k) ==
    /\ a.op \in {"listDomains", "loadTrust", "storeTrust"}
    /\ a.op = "listDomains" => a.key = k
    /\ a.op = "storeTrust" => a.key = k /\ a.role = NoRole
Clears(a, d) == a.op = "listDomains" \/ (a.op = "storeTrust" /\ a.domain = d)

\* The book is saved right after it is loaded, and only a revocation of the
\* same contact comes before the access that marks it.
Shape(p) ==
    \A j \in 1..Len(p) :
        /\ p[j].op = "saveBook" /\ j > 1 => p[j - 1].op = "loadBook"
        /\ Marks(p[j]) => \A i \in 1..(j - 1) : Sweeping(p[i], p[j].edit.key)

\* Where program p marks a contact, its trust in every domain is gone by then.
Swept(p, tr) ==
    \A j \in 1..Len(p) : Marks(p[j]) => \A d \in Domain :
        tr[d][p[j].edit.key] = NoRole \/ \E i \in 1..(j - 1) : Clears(p[i], d)

\* Saving what a request holds marks no active contact that has trust.
Harmless(l, b, tr) ==
    \A k \in l.todo :
        /\ l.book[k] # NoContact
        /\ Active(b, k) /\ l.book[k].revoked => \A d \in Domain : tr[d][k] = NoRole

ShapeInv == \A t \in Task : Shape(prog[t])
AloneInv == \A t, u \in Task : prog[t] # <<>> /\ start[t].alone /\ u # t => prog[u] = <<>>
MapsInv  == \A d \in Domain \ stored : trust[d] = EmptyMap
SweptInv == \A t \in Task : start[t].alone => Swept(prog[t], trust)
SaveInv  == \A t \in Task :
    start[t].alone /\ At(t, "saveBook") => Harmless(local[t], contacts, trust)

RevokeInv == ShapeInv /\ AloneInv /\ MapsInv /\ SweptInv /\ SaveInv

(***************************************************************************)
(* What is left of a program keeps its shape.                              *)
(***************************************************************************)
LEMMA ShapeTail ==
    ASSUME NEW p \in Seq(Access), p # <<>>, Shape(p)
    PROVE  Shape(Tail(p))
<1> SUFFICES ASSUME NEW j \in 1..Len(Tail(p))
             PROVE  /\ Tail(p)[j].op = "saveBook" /\ j > 1 => Tail(p)[j - 1].op = "loadBook"
                    /\ Marks(Tail(p)[j]) =>
                          \A i \in 1..(j - 1) : Sweeping(Tail(p)[i], Tail(p)[j].edit.key)
  BY DEF Shape
<1>1. /\ j + 1 \in 1..Len(p) /\ Tail(p)[j] = p[j + 1] /\ Len(Tail(p)) \in Nat /\ j \in Nat
  BY TailAccess
<1>2. ASSUME NEW i \in 1..(j - 1) PROVE Tail(p)[i] = p[i + 1] /\ i + 1 \in 1..((j + 1) - 1)
  <2>1. i \in 1..Len(Tail(p)) /\ i + 1 \in 1..((j + 1) - 1)
    BY <1>1
  <2> QED
    BY <2>1, TailAccess
<1>3. ASSUME Tail(p)[j].op = "saveBook", j > 1 PROVE Tail(p)[j - 1].op = "loadBook"
  <2>1. p[(j + 1) - 1].op = "loadBook"
    BY <1>1, <1>3 DEF Shape
  <2>2. j - 1 \in 1..(j - 1) /\ (j - 1) + 1 = (j + 1) - 1
    BY <1>1, <1>3
  <2> QED
    BY <1>2, <2>1, <2>2
<1>4. ASSUME Marks(Tail(p)[j]), NEW i \in 1..(j - 1)
      PROVE  Sweeping(Tail(p)[i], Tail(p)[j].edit.key)
  BY <1>1, <1>2, <1>4 DEF Shape
<1> QED
  BY <1>3, <1>4

(***************************************************************************)
(* An access that is not a load of the book is followed by no save of it.  *)
(***************************************************************************)
LEMMA NoSaveNext ==
    ASSUME NEW p \in Seq(Access), p # <<>>, Shape(p), Head(p).op # "loadBook", Tail(p) # <<>>
    PROVE  Head(Tail(p)).op # "saveBook"
<1>1. /\ Head(p) = p[1] /\ Len(p) \in Nat /\ Len(Tail(p)) = Len(p) - 1
      /\ Tail(p) \in Seq(Access)
  BY TailAccess
<1>2. Len(Tail(p)) > 0 /\ 1 \in 1..Len(Tail(p)) /\ Head(Tail(p)) = Tail(p)[1]
  BY <1>1, TailAccess
<1>3. Head(Tail(p)) = p[2] /\ 2 \in 1..Len(p)
  <2>1. Tail(p)[1] = p[1 + 1] /\ 1 + 1 \in 1..Len(p) /\ 1 + 1 = 2
    BY <1>2, TailAccess
  <2> QED
    BY <1>2, <2>1
<1>4. p[2].op = "saveBook" => p[1].op = "loadBook"
  <2>1. 2 > 1 /\ 2 - 1 = 1
    OBVIOUS
  <2> QED
    BY <1>3, <2>1 DEF Shape
<1> QED
  BY <1>1, <1>3, <1>4

(***************************************************************************)
(* An access that clears a domain may go once the domain is clear.         *)
(***************************************************************************)
LEMMA SweptTail ==
    ASSUME NEW p \in Seq(Access), p # <<>>, NEW tr, NEW tr2, Swept(p, tr),
           \A j \in 2..Len(p) : Marks(p[j]) => \A d \in Domain :
               tr[d][p[j].edit.key] = NoRole \/ Clears(Head(p), d) =>
                   tr2[d][p[j].edit.key] = NoRole
    PROVE  Swept(Tail(p), tr2)
<1> SUFFICES ASSUME NEW j \in 1..Len(Tail(p)), Marks(Tail(p)[j]), NEW d \in Domain
             PROVE  \/ tr2[d][Tail(p)[j].edit.key] = NoRole
                    \/ \E i \in 1..(j - 1) : Clears(Tail(p)[i], d)
  BY DEF Swept
<1>1. /\ j + 1 \in 1..Len(p) /\ Tail(p)[j] = p[j + 1] /\ Len(Tail(p)) \in Nat /\ j \in Nat
      /\ Head(p) = p[1] /\ Len(p) \in Nat
  BY TailAccess
<1>2. j + 1 \in 2..Len(p)
  BY <1>1
<1>3. \/ tr[d][p[j + 1].edit.key] = NoRole
      \/ \E i \in 1..((j + 1) - 1) : Clears(p[i], d)
  BY <1>1 DEF Swept
<1>4. CASE tr[d][p[j + 1].edit.key] = NoRole \/ Clears(Head(p), d)
  BY <1>1, <1>2, <1>4
<1>5. ASSUME NEW i \in 1..((j + 1) - 1), Clears(p[i], d), i # 1
      PROVE  \E h \in 1..(j - 1) : Clears(Tail(p)[h], d)
  <2>1. i - 1 \in 1..(j - 1) /\ i - 1 \in 1..Len(Tail(p)) /\ (i - 1) + 1 = i
    BY <1>1, <1>5
  <2>2. Tail(p)[i - 1] = p[i]
    BY <2>1, TailAccess
  <2> QED
    BY <1>5, <2>1, <2>2
<1> QED
  BY <1>1, <1>3, <1>4, <1>5

(***************************************************************************)
(* Every domain with a trust map is listed.                                *)
(***************************************************************************)
LEMMA AllListed ==
    ASSUME NEW S \in SUBSET Domain, NEW d \in S
    PROVE  \E n \in 1..Len(SetToSeq(S)) : SetToSeq(S)[n] = d
<1> DEFINE c == Cardinality(S)
           f == SetToSeq(S)
<1>1. IsFiniteSet(S)
  BY DomainAssumption, FS_Subset
<1>2. c \in Nat /\ \E g \in [1..c -> S] : IsInjective(g)
  BY <1>1, FS_CardinalityType, Zenon
  DEF ExistsBijection, Bijection, Injection, IsInjective
<1>3. f \in [1..c -> S] /\ IsInjective(f)
  BY <1>2 DEF SetToSeq
<1> HIDE DEF c, f
<1>4. f \in Injection(1..c, S)
  BY <1>3, Zenon DEF Injection, IsInjective
<1>5. Cardinality(1..c) = c
  <2>1. 1 \in Int /\ c \in Int /\ 1 <= c + 1
    BY <1>2
  <2>2. Cardinality(1..c) = IF 1 > c THEN 0 ELSE c - 1 + 1
    BY <2>1, FS_Interval
  <2> QED
    BY <1>2, <2>2
<1>6. f \in Surjection(1..c, S)
  BY <1>1, <1>4, <1>5, FS_Injection DEF c
<1>7. PICK n \in 1..c : f[n] = d
  BY <1>6 DEF Surjection
<1>8. Len(f) = c
  BY <1>2, <1>3
<1> QED
  BY <1>7, <1>8 DEF f

(***************************************************************************)
(* The revocations of k sweep, and clear each of the domains listed.       *)
(***************************************************************************)
LEMMA RevocationsSweep ==
    ASSUME NEW k \in Key, NEW domains \in Seq(Domain)
    PROVE  /\ \A j \in 1..Len(Revocations(k, domains)) : Sweeping(Revocations(k, domains)[j], k)
           /\ \A n \in 1..Len(domains) : \E j \in 1..Len(Revocations(k, domains)) :
                 Clears(Revocations(k, domains)[j], domains[n])
<1> DEFINE n == 2 * Len(domains)
           R == Revocations(k, domains)
<1>1. n \in Nat
  OBVIOUS
<1>2. DOMAIN R = 1..n
  BY DEF Revocations
<1>3. Len(R) = n
  <2>1. R \in Seq(Access)
    BY RevocationsProgram
  <2> HIDE DEF R, n
  <2> QED
    BY <1>1, <1>2, <2>1
<1>4. ASSUME NEW d, NEW a \in {EditTrust(d, k, NoRole, {})[1], EditTrust(d, k, NoRole, {})[2]}
      PROVE  Sweeping(a, k)
  BY DEF EditTrust, Sweeping
<1>5. ASSUME NEW j \in 1..n PROVE Sweeping(R[j], k)
  <2>1. PICK d : \/ R[j] = EditTrust(d, k, NoRole, {})[1]
                 \/ R[j] = EditTrust(d, k, NoRole, {})[2]
    BY DEF Revocations, RevokeTrustForDomain
  <2> HIDE DEF R, n
  <2> QED
    BY <1>4, <2>1
<1>6. ASSUME NEW m \in 1..Len(domains) PROVE 2 * m \in 1..n /\ Clears(R[2 * m], domains[m])
  <2>1. /\ 2 * m \in 1..n /\ (2 * m + 1) \div 2 = m /\ (2 * m) % 2 # 1
    OBVIOUS
  <2>2. R[2 * m] = EditTrust(domains[m], k, NoRole, {})[2]
    BY <2>1 DEF Revocations, RevokeTrustForDomain
  <2>3. R[2 * m].op = "storeTrust" /\ R[2 * m].domain = domains[m]
    BY <2>2 DEF EditTrust
  <2> QED
    BY <2>1, <2>3 DEF Clears
<1> HIDE DEF R, n
<1> QED
  BY <1>3, <1>5, <1>6 DEF R

(***************************************************************************)
(* The listing of the domains is replaced by the revocations in them.      *)
(***************************************************************************)
LEMMA ListingSwept ==
    ASSUME NEW p \in Seq(Access), p # <<>>, Shape(p), Head(p).op = "listDomains",
           NEW q \in Seq(Access), \A j \in 1..Len(q) : Sweeping(q[j], Head(p).key),
           NEW tr, NEW S,
           \A d \in S : \E j \in 1..Len(q) : Clears(q[j], d),
           \A d \in Domain \ S : tr[d] = EmptyMap
    PROVE  Shape(q \o Tail(p)) /\ Swept(q \o Tail(p), tr)
<1> DEFINE r == q \o Tail(p)
           n == Len(q)
<1>1. /\ Tail(p) \in Seq(Access) /\ Head(p) = p[1] /\ Head(p) \in Access /\ Head(p).key \in Key
      /\ Len(p) \in Nat
  BY TailAccess, AccessTypes
<1>2. ASSUME NEW j \in 1..Len(r)
      PROVE  \/ j \in 1..n /\ r[j] = q[j] /\ Sweeping(r[j], Head(p).key)
             \/ j - n \in 1..Len(Tail(p)) /\ r[j] = p[(j - n) + 1] /\ (j - n) + 1 \in 1..Len(p)
  <2>1. CASE j \in 1..n
    BY <2>1, <1>1, ConcatAccess
  <2>2. CASE j - n \in 1..Len(Tail(p)) /\ r[j] = Tail(p)[j - n]
    BY <2>2, <1>1, TailAccess
  <2> QED
    BY <2>1, <2>2, <1>1, ConcatAccess
<1>3. ASSUME NEW a, Sweeping(a, Head(p).key) PROVE a.op # "saveBook" /\ ~ Marks(a)
  BY <1>3 DEF Sweeping, Marks
<1>n. n \in Nat /\ Len(r) \in Nat /\ Len(r) = n + Len(Tail(p)) /\ Len(Tail(p)) \in Nat
  BY <1>1, ConcatAccess
<1>4. ASSUME NEW j \in 1..Len(r), r[j].op = "saveBook", j > 1 PROVE r[j - 1].op = "loadBook"
  <2>1. j - n \in 1..Len(Tail(p)) /\ r[j] = p[(j - n) + 1] /\ (j - n) + 1 \in 1..Len(p)
    BY <1>2, <1>3, <1>4
  <2>2. j - n > 0 /\ j \in Nat
    BY <2>1, <1>n
  <2>3. p[((j - n) + 1) - 1].op = "loadBook"
    BY <1>4, <2>1, <2>2, <1>n DEF Shape
  <2>4. p[1].op # "loadBook"
    BY <1>1
  <2>5. j - n # 1
    BY <2>3, <2>4
  <2>6. j - 1 \in 1..Len(r) /\ (j - 1) - n >= 1 /\ ((j - 1) - n) + 1 = ((j - n) + 1) - 1
        /\ j - 1 \notin 1..n
    BY <2>1, <2>2, <2>5, <1>n
  <2>7. r[j - 1] = p[((j - 1) - n) + 1]
    BY <1>2, <2>6
  <2> QED
    BY <2>3, <2>6, <2>7
<1>5. ASSUME NEW j \in 1..Len(r), Marks(r[j])
      PROVE  /\ j - n \in 1..Len(Tail(p)) /\ r[j].edit.key = Head(p).key
             /\ \A i \in 1..(j - 1) : Sweeping(r[i], r[j].edit.key)
             /\ 1..n \subseteq 1..(j - 1)
  <2>1. j - n \in 1..Len(Tail(p)) /\ r[j] = p[(j - n) + 1] /\ (j - n) + 1 \in 1..Len(p)
    BY <1>2, <1>3, <1>5
  <2>2. \A i \in 1..(((j - n) + 1) - 1) : Sweeping(p[i], r[j].edit.key)
    BY <1>5, <2>1 DEF Shape
  <2>3. 1 \in 1..(((j - n) + 1) - 1)
    BY <2>1, <1>n
  <2>4. r[j].edit.key = Head(p).key
    BY <1>1, <2>2, <2>3 DEF Sweeping
  <2>5. ASSUME NEW i \in 1..(j - 1) PROVE Sweeping(r[i], r[j].edit.key)
    <3>1. i \in 1..Len(r)
      BY <2>1, <1>n
    <3>2. CASE Sweeping(r[i], Head(p).key)
      BY <2>4, <3>2
    <3>3. CASE i - n \in 1..Len(Tail(p)) /\ r[i] = p[(i - n) + 1]
      <4>1. (i - n) + 1 \in 1..(((j - n) + 1) - 1)
        BY <2>1, <1>n, <3>3
      <4> QED
        BY <2>2, <3>3, <4>1
    <3> QED
      BY <1>2, <3>1, <3>2, <3>3
  <2>6. 1..n \subseteq 1..(j - 1)
    BY <2>1, <1>n
  <2> QED
    BY <2>1, <2>4, <2>5, <2>6
<1>6. ASSUME NEW j \in 1..Len(r), Marks(r[j]), NEW d \in Domain
      PROVE  tr[d][r[j].edit.key] = NoRole \/ \E i \in 1..(j - 1) : Clears(r[i], d)
  <2>1. CASE d \in S
    <3>1. PICK i \in 1..n : Clears(q[i], d)
      BY <2>1
    <3>2. r[i] = q[i] /\ i \in 1..(j - 1)
      BY <1>1, <1>5, <1>6, ConcatAccess
    <3> QED
      BY <3>1, <3>2
  <2>2. CASE d \notin S
    BY <1>1, <1>5, <1>6, <2>2 DEF EmptyMap
  <2> QED
    BY <2>1, <2>2
<1> HIDE DEF r, n
<1>7. Shape(r)
  BY <1>4, <1>5 DEF Shape
<1>8. Swept(r, tr)
  BY <1>6 DEF Swept
<1> QED
  BY <1>7, <1>8 DEF r


-----------------------------------------------------------------------------
(* Which programs mark a contact                                           *)

\* A program that marks none, and loads the book before it saves it.
Unmarked(p) ==
    \A j \in 1..Len(p) : /\ ~ Marks(p[j])
                         /\ p[j].op = "saveBook" => j > 1 /\ p[j - 1].op = "loadBook"

\* What a request may begin with.
Opening(p) ==
    /\ p \in Seq(Access) /\ Shape(p) /\ (\A tr : Swept(p, tr))
    /\ p # <<>> => Head(p).op # "saveBook"

(***************************************************************************)
(* Such programs one after the other are such a program.                   *)
(***************************************************************************)
LEMMA ConcatUnmarked ==
    ASSUME NEW p \in Seq(Access), NEW q \in Seq(Access), Unmarked(p), Unmarked(q)
    PROVE  p \o q \in Seq(Access) /\ Unmarked(p \o q)
<1> DEFINE r == p \o q
           n == Len(p)
<1>1. n \in Nat /\ Len(q) \in Nat /\ Len(r) = n + Len(q) /\ r \in Seq(Access)
  BY ConcatAccess
<1>2. ASSUME NEW j \in 1..Len(r)
      PROVE  /\ ~ Marks(r[j])
             /\ r[j].op = "saveBook" => j > 1 /\ r[j - 1].op = "loadBook"
  <2>1. CASE j \in 1..n
    <3>1. r[j] = p[j]
      BY <2>1, ConcatAccess
    <3>2. ASSUME r[j].op = "saveBook" PROVE j > 1 /\ r[j - 1].op = "loadBook"
      <4>1. j > 1 /\ p[j - 1].op = "loadBook"
        BY <2>1, <3>1, <3>2 DEF Unmarked
      <4>2. j - 1 \in 1..n
        BY <1>1, <2>1, <4>1
      <4>3. r[j - 1] = p[j - 1]
        BY <4>2, ConcatAccess
      <4> QED
        BY <4>1, <4>3
    <3> QED
      BY <2>1, <3>1, <3>2 DEF Unmarked
  <2>2. CASE j - n \in 1..Len(q) /\ r[j] = q[j - n]
    <3>1. ASSUME r[j].op = "saveBook" PROVE j > 1 /\ r[j - 1].op = "loadBook"
      <4>1. j - n > 1 /\ q[(j - n) - 1].op = "loadBook"
        BY <2>2, <3>1 DEF Unmarked
      <4>2. j > 1 /\ (j - n) - 1 \in 1..Len(q) /\ n + ((j - n) - 1) = j - 1
        BY <1>1, <2>2, <4>1
      <4>3. r[j - 1] = q[(j - n) - 1]
        BY <4>2, ConcatAccess
      <4> QED
        BY <4>1, <4>2, <4>3
    <3> QED
      BY <2>2, <3>1 DEF Unmarked
  <2> QED
    BY <2>1, <2>2, ConcatAccess
<1> HIDE DEF r, n
<1> QED
  BY <1>1, <1>2 DEF Unmarked, r

(***************************************************************************)
(* A request that marks no contact may begin.                              *)
(***************************************************************************)
LEMMA UnmarkedOpens ==
    ASSUME NEW p \in Seq(Access), Unmarked(p)
    PROVE  Opening(p)
<1>1. Shape(p) /\ \A tr : Swept(p, tr)
  BY DEF Unmarked, Shape, Swept
<1>2. p # <<>> => Head(p).op # "saveBook"
  <2> SUFFICES ASSUME p # <<>> PROVE Head(p).op # "saveBook"
    OBVIOUS
  <2>1. Head(p) = p[1] /\ 1 \in 1..Len(p)
    BY TailAccess
  <2>2. p[1].op = "saveBook" => 1 > 1
    BY <2>1 DEF Unmarked
  <2> QED
    BY <2>1, <2>2
<1> QED
  BY <1>1, <1>2 DEF Opening

(***************************************************************************)
(* The building blocks of the operations that mark no contact.             *)
(***************************************************************************)
LEMMA UnmarkedParts ==
    /\ \A a \in Access : a.op \notin {"saveBook", "loadBook"} =>
          <<a>> \in Seq(Access) /\ Unmarked(<<a>>)
    /\ \A a, b \in Access :
          a.op \notin {"saveBook", "loadBook"} /\ b.op \notin {"saveBook", "loadBook"} =>
              <<a, b>> \in Seq(Access) /\ Unmarked(<<a, b>>)
    /\ \A e \in BookEdit : e.kind # "revoke" =>
          EditBook(e) \in Seq(Access) /\ Unmarked(EditBook(e))
<1>1. ASSUME NEW a \in Access, a.op \notin {"saveBook", "loadBook"}
      PROVE  <<a>> \in Seq(Access) /\ Unmarked(<<a>>)
  BY <1>1 DEF Unmarked, Marks
<1>2. ASSUME NEW a \in Access, NEW b \in Access, a.op \notin {"saveBook", "loadBook"},
             b.op \notin {"saveBook", "loadBook"}
      PROVE  <<a, b>> \in Seq(Access) /\ Unmarked(<<a, b>>)
  BY <1>2 DEF Unmarked, Marks
<1>3. ASSUME NEW e \in BookEdit, e.kind # "revoke"
      PROVE  EditBook(e) \in Seq(Access) /\ Unmarked(EditBook(e))
  <2> DEFINE a == [op |-> "loadBook", edit |-> e]
             b == [op |-> "saveBook"]
  <2>1. a \in Access /\ b \in Access
    BY DEF Access, OtherAccess
  <2>2. a.op = "loadBook" /\ ~ Marks(a) /\ b.op = "saveBook" /\ ~ Marks(b)
    BY <1>3 DEF Marks
  <2>3. EditBook(e) = <<a, b>>
    BY DEF EditBook
  <2> HIDE DEF a, b
  <2>4. <<a, b>> \in Seq(Access) /\ Len(<<a, b>>) = 2 /\ <<a, b>>[1] = a /\ <<a, b>>[2] = b
    BY <2>1
  <2>5. Unmarked(<<a, b>>)
    <3>1. \A j \in 1..2 : j = 1 \/ (j = 2 /\ j - 1 = 1 /\ j > 1)
      OBVIOUS
    <3> QED
      BY <2>2, <2>4, <3>1 DEF Unmarked
  <2> QED
    BY <2>3, <2>4, <2>5
<1> QED
  BY <1>1, <1>2, <1>3

(***************************************************************************)
(* The parts again, by name.                                               *)
(***************************************************************************)
LEMMA UnmarkedBlocks ==
    /\ \A op \in {"loadSent", "acceptSent", "loadDeclined"} :
          Step(op) \in Seq(Access) /\ Unmarked(Step(op))
    /\ \A op \in {"checkNonce", "checkDeclined", "markNonce", "decline", "undecline"}, i \in Invite :
          About(op, i) \in Seq(Access) /\ Unmarked(About(op, i))
    /\ \A k \in Key : /\ <<[op |-> "checkKnown", key |-> k]>> \in Seq(Access)
                      /\ Unmarked(<<[op |-> "checkKnown", key |-> k]>>)
    /\ \A n \in Nonce : CreateTrustInvite(n) \in Seq(Access) /\ Unmarked(CreateTrustInvite(n))
    /\ \A d \in Domain, k \in Key, r \in Role \cup {NoRole}, I \in SUBSET Invite :
          EditTrust(d, k, r, I) \in Seq(Access) /\ Unmarked(EditTrust(d, k, r, I))
<1>1. ASSUME NEW op \in {"loadSent", "acceptSent", "loadDeclined"}
      PROVE  Step(op) \in Seq(Access) /\ Unmarked(Step(op))
  <2>1. [op |-> op] \in Access /\ [op |-> op].op \notin {"saveBook", "loadBook"}
    BY DEF Access, OtherAccess
  <2> QED
    BY <2>1, UnmarkedParts DEF Step
<1>2. ASSUME NEW op \in {"checkNonce", "checkDeclined", "markNonce", "decline", "undecline"},
             NEW i \in Invite
      PROVE  About(op, i) \in Seq(Access) /\ Unmarked(About(op, i))
  <2>1. /\ [op |-> op, invite |-> i] \in Access
        /\ [op |-> op, invite |-> i].op \notin {"saveBook", "loadBook"}
    BY DEF Access, OtherAccess
  <2> QED
    BY <2>1, UnmarkedParts DEF About
<1>3. ASSUME NEW k \in Key
      PROVE  /\ <<[op |-> "checkKnown", key |-> k]>> \in Seq(Access)
             /\ Unmarked(<<[op |-> "checkKnown", key |-> k]>>)
  <2>1. /\ [op |-> "checkKnown", key |-> k] \in Access
        /\ [op |-> "checkKnown", key |-> k].op \notin {"saveBook", "loadBook"}
    BY DEF Access, OtherAccess
  <2> QED
    BY <2>1, UnmarkedParts
<1>4. ASSUME NEW n \in Nonce
      PROVE  CreateTrustInvite(n) \in Seq(Access) /\ Unmarked(CreateTrustInvite(n))
  <2>1. /\ [op |-> "recordSent", nonce |-> n] \in Access
        /\ [op |-> "recordSent", nonce |-> n].op \notin {"saveBook", "loadBook"}
    BY DEF Access, OtherAccess
  <2>2. /\ <<[op |-> "recordSent", nonce |-> n]>> \in Seq(Access)
        /\ Unmarked(<<[op |-> "recordSent", nonce |-> n]>>)
    BY <2>1, UnmarkedParts
  <2> QED
    BY <1>1, <2>2, ConcatUnmarked DEF CreateTrustInvite
<1>5. ASSUME NEW d \in Domain, NEW k \in Key, NEW r \in Role \cup {NoRole}, NEW I \in SUBSET Invite
      PROVE  EditTrust(d, k, r, I) \in Seq(Access) /\ Unmarked(EditTrust(d, k, r, I))
  <2> DEFINE a == [op |-> "loadTrust", domain |-> d, invite |-> I]
             b == [op |-> "storeTrust", domain |-> d, key |-> k, role |-> r, invite |-> I]
  <2>1. a \in Access /\ b \in Access
    BY DEF Access, TrustAccess
  <2>2. a.op \notin {"saveBook", "loadBook"} /\ b.op \notin {"saveBook", "loadBook"}
    OBVIOUS
  <2>3. EditTrust(d, k, r, I) = <<a, b>>
    BY DEF EditTrust
  <2> HIDE DEF a, b
  <2> QED
    BY <2>1, <2>2, <2>3, UnmarkedParts
<1> QED
  BY <1>1, <1>2, <1>3, <1>4, <1>5

(***************************************************************************)
(* All requests but the revocation mark no contact.                        *)
(***************************************************************************)
LEMMA UnmarkedPrograms ==
    /\ \A k \in Key, r \in Role :
          /\ Opening(GrantTrustForDomain(k, r)) /\ Opening(AssignRoleToContact(k, r))
          /\ \A x \in {"Incoming", "Outgoing"} : Opening(ConnectContact(k, r, x))
    /\ \A k \in Key, d \in Domain :
          Opening(RevokeTrustForDomain(k, d)) /\ Opening(RemoveRoleFromContact(k, d))
    /\ \A n \in Nonce : Opening(CreateTrustInvite(n))
    /\ \A i \in Invite, op \in {"decline", "undecline"} :
          Opening(Step("loadDeclined") \o About(op, i))
    /\ \A i \in Invite, r \in Role :
          /\ Opening(AcceptTrustInvite(i, r))
          /\ \A n \in Nonce : Opening(AcceptTrustInvite(i, r) \o CreateTrustInvite(n))
<1> DEFINE U(p) == p \in Seq(Access) /\ Unmarked(p)
<1>0. ASSUME NEW p, U(p) PROVE Opening(p)
  BY <1>0, UnmarkedOpens
<1>c. ASSUME NEW p, NEW q, U(p), U(q) PROVE U(p \o q)
  BY <1>c, ConcatUnmarked
<1>e. ASSUME NEW e \in BookEdit, e.kind # "revoke" PROVE U(EditBook(e))
  BY <1>e, UnmarkedParts
<1>t. ASSUME NEW d \in Domain, NEW k \in Key, NEW r \in Role \cup {NoRole}, NEW I \in SUBSET Invite
      PROVE  U(EditTrust(d, k, r, I))
  BY UnmarkedBlocks
<1>s. ASSUME NEW op \in {"loadSent", "acceptSent", "loadDeclined"} PROVE U(Step(op))
  BY UnmarkedBlocks
<1>a. ASSUME NEW op \in {"checkNonce", "checkDeclined", "markNonce", "decline", "undecline"},
             NEW i \in Invite
      PROVE  U(About(op, i))
  BY UnmarkedBlocks
<1>k. ASSUME NEW k \in Key PROVE U(<<[op |-> "checkKnown", key |-> k]>>)
  BY UnmarkedBlocks
<1>n. ASSUME NEW n \in Nonce PROVE U(CreateTrustInvite(n))
  BY UnmarkedBlocks
<1> HIDE DEF U
<1>1. ASSUME NEW k \in Key, NEW r \in Role
      PROVE  /\ U(GrantTrustForDomain(k, r)) /\ U(AssignRoleToContact(k, r))
             /\ \A x \in {"Incoming", "Outgoing"} : U(ConnectContact(k, r, x))
  <2>1. U(GrantTrustForDomain(k, r))
    BY RoleAssumption, <1>t DEF GrantTrustForDomain
  <2>2. U(EditBook([kind |-> "role", key |-> k, domain |-> DomainOf[r], role |-> r]))
    BY RoleAssumption, <1>e DEF BookEdit
  <2>3. \A x \in {"Incoming", "Outgoing"} :
           U(EditBook([kind |-> "connect", key |-> k, role |-> r, direction |-> x]))
    BY <1>e DEF BookEdit
  <2> QED
    BY <2>1, <2>2, <2>3, <1>c DEF AssignRoleToContact, ConnectContact
<1>2. ASSUME NEW k \in Key, NEW d \in Domain
      PROVE  U(RevokeTrustForDomain(k, d)) /\ U(RemoveRoleFromContact(k, d))
  <2>1. U(RevokeTrustForDomain(k, d))
    BY <1>t DEF RevokeTrustForDomain
  <2>2. U(EditBook([kind |-> "role", key |-> k, domain |-> d, role |-> NoRole]))
    BY <1>e DEF BookEdit
  <2> QED
    BY <2>1, <2>2, <1>c DEF RemoveRoleFromContact
<1>3. ASSUME NEW i \in Invite, NEW op \in {"decline", "undecline"}
      PROVE  U(Step("loadDeclined") \o About(op, i))
  BY <1>s, <1>a, <1>c
<1>4. ASSUME NEW i \in Invite, NEW r \in Role PROVE U(AcceptTrustInvite(i, r))
  <2>1. SenderOf[i] \in Key /\ DomainOf[r] \in Domain
    BY InviteAssumption, RoleAssumption
  <2>2. U(AcceptGrant(i, r))
    BY <2>1, <1>t DEF AcceptGrant
  <2>3. U(EditBook([kind |-> "accept", key |-> SenderOf[i], role |-> r]))
    BY <2>1, <1>e DEF BookEdit
  <2>4. U(AcceptFiling(i, r))
    BY <2>1, <2>3, <1>s, <1>k, <1>c DEF AcceptFiling
  <2>5. U(About("checkNonce", i) \o About("checkDeclined", i))
    BY <1>a, <1>c
  <2>6. U(About("checkNonce", i) \o About("checkDeclined", i) \o AcceptGrant(i, r))
    BY <2>5, <2>2, <1>c
  <2>7. U(About("checkNonce", i) \o About("checkDeclined", i) \o AcceptGrant(i, r)
            \o About("markNonce", i))
    BY <2>6, <1>a, <1>c
  <2> QED
    BY <2>7, <2>4, <1>c DEF AcceptTrustInvite
<1> QED
  BY <1>0, <1>1, <1>2, <1>3, <1>4, <1>c, <1>n

(***************************************************************************)
(* The revocation lists the domains before it marks the contact.           *)
(***************************************************************************)
LEMMA RevocationOpens ==
    ASSUME NEW k \in Key
    PROVE  Opening(RevokeContact(k))
<1> DEFINE a == [op |-> "listDomains", key |-> k]
           b == [op |-> "loadBook", edit |-> [kind |-> "revoke", key |-> k]]
           c == [op |-> "saveBook"]
<1>1. a \in Access /\ b \in Access /\ c \in Access
  BY DEF Access, OtherAccess, BookEdit
<1>2. /\ a.op = "listDomains" /\ ~ Marks(a) /\ Sweeping(a, k) /\ \A d : Clears(a, d)
      /\ b.op = "loadBook" /\ b.edit.key = k
      /\ c.op = "saveBook" /\ ~ Marks(c)
  BY DEF Marks, Sweeping, Clears
<1>3. RevokeContact(k) = <<a>> \o <<b, c>>
  BY DEF RevokeContact, ListAndRevoke, EditBook
<1> HIDE DEF a, b, c
<1> DEFINE p == <<a>> \o <<b, c>>
<1>4. /\ p \in Seq(Access) /\ Len(p) = 3 /\ p[1] = a /\ p[2] = b /\ p[3] = c
      /\ Head(p) = a /\ p # <<>>
  <2>1. /\ <<a>> \in Seq(Access) /\ Len(<<a>>) = 1 /\ <<a>>[1] = a
        /\ <<b, c>> \in Seq(Access) /\ Len(<<b, c>>) = 2
        /\ <<b, c>>[1] = b /\ <<b, c>>[2] = c
    BY <1>1
  <2>2. p \in Seq(Access) /\ Len(p) = 3
    BY <2>1, ConcatAccess
  <2>3. p[1] = a /\ p[1 + 1] = b /\ p[1 + 2] = c
    BY <2>1, ConcatAccess
  <2> HIDE DEF p
  <2>4. p # <<>> /\ Head(p) = p[1]
    BY <2>2, TailAccess
  <2> QED
    BY <2>2, <2>3, <2>4
<1> HIDE DEF p
<1>5. ASSUME NEW j \in 1..Len(p)
      PROVE  /\ p[j].op = "saveBook" => j = 3
             /\ Marks(p[j]) => j = 2 /\ p[j] = b /\ \A i \in 1..(j - 1) : i = 1
  BY <1>2, <1>4
<1>6. Shape(p)
  <2>1. 3 - 1 = 2
    OBVIOUS
  <2> QED
    BY <1>2, <1>4, <1>5, <2>1 DEF Shape
<1>7. ASSUME NEW tr PROVE Swept(p, tr)
  <2>1. 1 \in 1..(2 - 1)
    OBVIOUS
  <2> QED
    BY <1>2, <1>4, <1>5, <2>1 DEF Swept
<1> QED
  BY <1>2, <1>3, <1>4, <1>6, <1>7 DEF Opening, p

(***************************************************************************)
(* Every request begins with such a program.                               *)
(***************************************************************************)
LEMMA Opened ==
    ASSUME NEW t \in Task, Serve(t)
    PROVE  \E about, p : Opening(p) /\ Start(t, about, p)
<1>1. CASE \E k \in Key, r \in Role :
              \/ Start(t, {k}, AssignRoleToContact(k, r))
              \/ Start(t, {k}, GrantTrustForDomain(k, r))
              \/ \E direction \in {"Incoming", "Outgoing"} :
                    Start(t, {k}, ConnectContact(k, r, direction))
  BY <1>1, UnmarkedPrograms
<1>2. CASE \E k \in Key, d \in Domain :
              \/ Start(t, {k}, RemoveRoleFromContact(k, d))
              \/ Start(t, {k}, RevokeTrustForDomain(k, d))
  BY <1>2, UnmarkedPrograms
<1>3. CASE \E k \in Key : Start(t, {k}, RevokeContact(k))
  BY <1>3, RevocationOpens
<1>4. CASE \E i \in Invite, r \in Role :
              \/ Start(t, {i, SenderOf[i]}, AcceptTrustInvite(i, r))
              \/ \E n \in Nonce : Start(t, {i, SenderOf[i]},
                                        AcceptTrustInvite(i, r) \o CreateTrustInvite(n))
  BY <1>4, UnmarkedPrograms
<1>5. CASE \E n \in Nonce : Start(t, {}, CreateTrustInvite(n))
  BY <1>5, UnmarkedPrograms
<1>6. CASE \E i \in Invite : \/ Start(t, {i}, Step("loadDeclined") \o About("decline", i))
                             \/ Start(t, {i}, Step("loadDeclined") \o About("undecline", i))
  BY <1>6, UnmarkedPrograms
<1> QED
  BY <1>1, <1>2, <1>3, <1>4, <1>5, <1>6 DEF Serve

-----------------------------------------------------------------------------
(* The steps                                                               *)

\* Request t goes on with program rest; no other moves, nor begins.
Moves(t, rest) ==
    /\ prog[t] # <<>>
    /\ \A u \in Task : prog'[u] = IF u = t THEN rest ELSE prog[u]
    /\ \A u \in Task : start'[u].alone = start[u].alone

(***************************************************************************)
(* A request on its own is disturbed by no other, so a step is judged by   *)
(* what it leaves to the request that takes it.                            *)
(***************************************************************************)
LEMMA MoveKept ==
    ASSUME RevokeInv, NEW t \in Task, NEW rest, Moves(t, rest), Shape(rest), MapsInv',
           start[t].alone => Swept(rest, trust'),
           start[t].alone /\ rest # <<>> /\ Head(rest).op = "saveBook" =>
               Harmless(local'[t], contacts', trust')
    PROVE  RevokeInv'
<1>1. ASSUME NEW u \in Task, u # t, start[u].alone PROVE prog'[u] = <<>>
  BY <1>1 DEF RevokeInv, AloneInv, Moves
<1>2. ShapeInv'
  BY DEF RevokeInv, ShapeInv, Moves
<1>3. AloneInv'
  BY DEF RevokeInv, AloneInv, Moves
<1>4. SweptInv'
  <2> SUFFICES ASSUME NEW u \in Task, start[u].alone PROVE Swept(prog'[u], trust')
    BY DEF SweptInv, Moves
  <2>1. CASE u = t
    BY <2>1 DEF Moves
  <2>2. CASE u # t
    <3>1. prog'[u] = <<>>
      BY <1>1, <2>2
    <3>2. 1..Len(prog'[u]) = {}
      BY <3>1
    <3> QED
      BY <3>2 DEF Swept
  <2> QED
    BY <2>1, <2>2
<1>5. SaveInv'
  <2> SUFFICES ASSUME NEW u \in Task, start[u].alone, prog'[u] # <<>>,
                      Head(prog'[u]).op = "saveBook"
               PROVE  Harmless(local'[u], contacts', trust')
    BY DEF SaveInv, Moves, At
  <2> QED
    BY <1>1 DEF Moves
<1> QED
  BY <1>2, <1>3, <1>4, <1>5 DEF RevokeInv

(***************************************************************************)
(* The end of an access, as a move of the request.                         *)
(***************************************************************************)
LEMMA DoneMoves ==
    ASSUME TypeInv, NEW t \in Task, prog[t] # <<>>, NEW rest, NEW read, Done(t, rest, read),
           \A u \in Task : start'[u].alone = start[u].alone
    PROVE  /\ Moves(t, rest)
           /\ local'[t] = IF rest = <<>> THEN EmptyLocal ELSE read
           /\ \A u \in Task \ {t} : local'[u] = local[u]
BY DEF Done, Moves, TypeInv, TrustTypeOK, ProgTyped

(***************************************************************************)
(* An access that takes no trust away and loads no book, or the end.       *)
(***************************************************************************)
LEMMA IdleMove ==
    ASSUME TypeInv, RevokeInv, NEW t \in Task, NEW rest, Moves(t, rest),
           \/ rest = <<>>
           \/ rest = Tail(prog[t]) /\ Head(prog[t]).op \notin {"listDomains", "storeTrust", "loadBook"},
           UNCHANGED <<trust, stored>>
    PROVE  RevokeInv'
<1> DEFINE p == prog[t]
<1>1. p \in Seq(Access) /\ p # <<>> /\ Shape(p)
  BY AtTypes DEF Moves, RevokeInv, ShapeInv
<1>2. MapsInv'
  BY DEF RevokeInv, MapsInv
<1>3. CASE rest = <<>>
  <2>1. 1..Len(rest) = {}
    BY <1>3
  <2>2. Shape(rest) /\ Swept(rest, trust')
    BY <2>1 DEF Shape, Swept
  <2> QED
    BY <1>2, <1>3, <2>2, MoveKept
<1>4. CASE rest = Tail(p) /\ Head(p).op \notin {"listDomains", "storeTrust", "loadBook"}
  <2>1. Shape(rest)
    BY <1>1, <1>4, ShapeTail
  <2>2. rest # <<>> => Head(rest).op # "saveBook"
    BY <1>1, <1>4, NoSaveNext
  <2>3. start[t].alone => Swept(rest, trust')
    <3> SUFFICES ASSUME start[t].alone PROVE Swept(rest, trust)
      OBVIOUS
    <3>1. Swept(p, trust)
      BY DEF RevokeInv, SweptInv
    <3>2. \A d : ~ Clears(Head(p), d)
      BY <1>4 DEF Clears
    <3> HIDE DEF p
    <3> QED
      BY <1>1, <1>4, <3>1, <3>2, SweptTail
  <2> QED
    BY <1>2, <2>1, <2>2, <2>3, MoveKept
<1> QED
  BY <1>3, <1>4

(***************************************************************************)
(* Only the mark of a revocation turns an active contact into a revoked    *)
(* one in the book loaded.                                                 *)
(***************************************************************************)
LEMMA EditMarks ==
    ASSUME TypeInv, NEW t \in Task, At(t, "loadBook"), NEW k \in Key,
           Active(contacts, k), Edited(t)[k] # NoContact, Edited(t)[k].revoked
    PROVE  Marks(Head(prog[t])) /\ Head(prog[t]).edit.key = k
<1> DEFINE e == Head(prog[t]).edit
<1>1. e \in BookEdit /\ Head(prog[t]).op = "loadBook"
  BY AtTypes, AccessTypes
<1>2. contacts \in Book /\ contacts[k] \in Contact /\ contacts[k].revoked = FALSE
  BY DEF TypeInv, TrustTypeOK, Book, Active, Contact
<1>3. ASSUME NEW x \in Key, NEW r, NEW direction
      PROVE  Upsert(contacts, x, r, direction)[k].revoked = FALSE
  BY <1>2 DEF Upsert, Book
<1>4. ASSUME NEW x \in Key, NEW d, NEW r
      PROVE  SetRole(contacts, x, d, r)[k].revoked = FALSE
  <2>1. CASE contacts[x] = NoContact \/ x # k
    BY <1>2, <2>1 DEF SetRole, Book
  <2>2. CASE contacts[x] # NoContact /\ x = k
    <3> DEFINE c == contacts[k]
               c2 == [c EXCEPT !.roles = [c.roles EXCEPT ![d] = r]]
    <3>1. SetRole(contacts, x, d, r)[k] = c2
      BY <1>2, <2>2 DEF SetRole, Book
    <3>2. c2.revoked = c.revoked
      BY <1>2 DEF Contact
    <3> QED
      BY <1>2, <3>1, <3>2
  <2> QED
    BY <2>1, <2>2
<1>5. ASSUME NEW x \in Key, x # k PROVE Revoke(contacts, x)[k].revoked = FALSE
  BY <1>2, <1>5 DEF Revoke, Book
<1>6. e.kind \in {"role", "revoke", "connect", "accept"} /\ e.key \in Key
  BY <1>1 DEF BookEdit
<1>7. CASE e.kind = "role"
  BY <1>4, <1>6, <1>7 DEF Edited
<1>8. CASE e.kind \in {"connect", "accept"}
  BY <1>3, <1>6, <1>8 DEF Edited
<1>9. CASE e.kind = "revoke" /\ e.key # k
  <2>1. Edited(t) = Revoke(contacts, e.key)
    BY <1>9 DEF Edited
  <2> QED
    BY <1>5, <1>6, <1>9, <2>1
<1>10. CASE e.kind = "revoke" /\ e.key = k
  BY <1>1, <1>10 DEF Marks
<1> QED
  BY <1>6, <1>7, <1>8, <1>9, <1>10

(***************************************************************************)
(* A request begins: nobody is on its own any more but, if nothing else is *)
(* under way, the request itself.                                          *)
(***************************************************************************)
LEMMA RevokeServe ==
    ASSUME TypeInv, RevokeInv, NEW t \in Task, Serve(t)
    PROVE  RevokeInv'
<1>1. PICK about, p : Opening(p) /\ Start(t, about, p)
  BY Opened
<1>2. /\ prog[t] = <<>> /\ \A u \in Task : prog'[u] = IF u = t THEN p ELSE prog[u]
      /\ UNCHANGED <<trust, stored, contacts, local>>
  BY <1>1 DEF Start, storeVars, TypeInv, ProgTyped
<1>3. start'[t].alone => \A u \in Task \ {t} : prog[u] = <<>>
  BY <1>1, Zenon DEF Start
<1>4. ASSUME NEW u \in Task, u # t, start'[u].alone PROVE prog[u] = <<>>
  <2> SUFFICES ASSUME prog[u] # <<>> PROVE FALSE
    OBVIOUS
  <2>1. start'[u] = [start[u] EXCEPT !.alone = FALSE]
    BY <1>1, <1>4 DEF Start
  <2>2. start[u] \in [consumed : SUBSET Invite, declined : SUBSET Invite, alone : BOOLEAN]
    BY DEF TypeInv, TrustTypeOK
  <2>3. start'[u].alone = FALSE
    BY <2>1, <2>2
  <2> QED
    BY <1>4, <2>3
<1>5. ShapeInv'
  BY <1>1, <1>2 DEF RevokeInv, ShapeInv, Opening
<1>6. AloneInv'
  BY <1>2, <1>3, <1>4 DEF AloneInv
<1>7. MapsInv'
  BY <1>2 DEF RevokeInv, MapsInv
<1>8. SweptInv'
  <2> SUFFICES ASSUME NEW u \in Task, start'[u].alone PROVE Swept(prog'[u], trust')
    BY DEF SweptInv
  <2>1. CASE u = t
    BY <1>1, <1>2, <2>1 DEF Opening
  <2>2. CASE u # t
    <3>1. prog'[u] = <<>>
      BY <1>2, <1>4, <2>2
    <3>2. 1..Len(prog'[u]) = {}
      BY <3>1
    <3> QED
      BY <3>2 DEF Swept
  <2> QED
    BY <2>1, <2>2
<1>9. SaveInv'
  <2> SUFFICES ASSUME NEW u \in Task, start'[u].alone, prog'[u] # <<>>,
                      Head(prog'[u]).op = "saveBook"
               PROVE  FALSE
    BY DEF SaveInv, At
  <2> QED
    BY <1>1, <1>2, <1>4 DEF Opening
<1> QED
  BY <1>5, <1>6, <1>7, <1>8, <1>9 DEF RevokeInv

(***************************************************************************)
(* A trust map is stored: in its domain the key revoked has no role.       *)
(***************************************************************************)
LEMMA RevokeStore ==
    ASSUME TypeInv, RevokeInv, NEW t \in Task, StoreTrustMap(t)
    PROVE  RevokeInv'
<1> DEFINE p == prog[t]
           s == Head(prog[t])
<1>1. /\ p \in Seq(Access) /\ p # <<>> /\ Shape(p) /\ s.op = "storeTrust" /\ s = p[1]
      /\ s.domain \in Domain /\ s.key \in Key
  BY AtTypes, TailAccess, AccessTypes DEF StoreTrustMap, At, RevokeInv, ShapeInv
<1>2. Moves(t, Tail(p))
  BY <1>1, DoneMoves DEF StoreTrustMap, Advance
<1>3. /\ trust \in [Domain -> TrustMap] /\ local[t].map \in TrustMap
      /\ trust' = [trust EXCEPT ![s.domain] = [local[t].map EXCEPT ![s.key] = s.role]]
      /\ stored' = stored \cup {s.domain}
  BY AtTypes DEF StoreTrustMap, TypeInv, TrustTypeOK, TaskLocal
<1>4. MapsInv'
  BY <1>1, <1>3 DEF RevokeInv, MapsInv
<1>5. Shape(Tail(p)) /\ (Tail(p) # <<>> => Head(Tail(p)).op # "saveBook")
  BY <1>1, ShapeTail, NoSaveNext
<1>6. ASSUME start[t].alone PROVE Swept(Tail(p), trust')
  <2>1. Swept(p, trust)
    BY <1>6 DEF RevokeInv, SweptInv
  <2>2. ASSUME NEW j \in 2..Len(p), Marks(p[j]), NEW d \in Domain,
               trust[d][p[j].edit.key] = NoRole \/ Clears(Head(p), d)
        PROVE  trust'[d][p[j].edit.key] = NoRole
    <3>1. j \in 1..Len(p) /\ 1 \in 1..(j - 1)
      BY <1>1
    <3>2. s.key = p[j].edit.key /\ s.role = NoRole
      BY <1>1, <2>2, <3>1 DEF Shape, Sweeping
    <3>3. CASE d = s.domain
      <4>1. trust'[d] = [local[t].map EXCEPT ![s.key] = s.role]
        BY <1>1, <1>3, <3>3
      <4> QED
        BY <1>1, <1>3, <3>2, <4>1 DEF TrustMap
    <3>4. CASE d # s.domain
      <4>1. trust'[d] = trust[d] /\ ~ Clears(Head(p), d)
        BY <1>1, <1>3, <3>4 DEF Clears
      <4> QED
        BY <2>2, <4>1
    <3> QED
      BY <3>3, <3>4
  <2> HIDE DEF p, s
  <2> QED
    BY <1>1, <2>1, <2>2, SweptTail
<1> QED
  BY <1>2, <1>4, <1>5, <1>6, MoveKept

(***************************************************************************)
(* The domains are listed: in those not listed nobody has a role.          *)
(***************************************************************************)
LEMMA RevokeListing ==
    ASSUME TypeInv, RevokeInv, NEW t \in Task, ListDomains(t)
    PROVE  RevokeInv'
<1> DEFINE p == prog[t]
           q == Revocations(Head(prog[t]).key, SetToSeq(stored))
<1>1. /\ p \in Seq(Access) /\ p # <<>> /\ Shape(p) /\ Head(p).op = "listDomains"
      /\ Head(p).key \in Key
  BY AtTypes, TailAccess, AccessTypes DEF ListDomains, At, RevokeInv, ShapeInv
<1>2. stored \subseteq Domain /\ SetToSeq(stored) \in Seq(Domain)
  BY ListedDomains DEF TypeInv, TrustTypeOK
<1>3. /\ q \in Seq(Access) /\ \A j \in 1..Len(q) : Sweeping(q[j], Head(p).key)
  BY <1>1, <1>2, RevocationsProgram, RevocationsSweep
<1>4. \A d \in stored : \E j \in 1..Len(q) : Clears(q[j], d)
  <2> SUFFICES ASSUME NEW d \in stored PROVE \E j \in 1..Len(q) : Clears(q[j], d)
    OBVIOUS
  <2>1. PICK n \in 1..Len(SetToSeq(stored)) : SetToSeq(stored)[n] = d
    BY <1>2, AllListed
  <2> QED
    BY <1>1, <1>2, <2>1, RevocationsSweep
<1>5. Moves(t, q \o Tail(p)) /\ UNCHANGED <<trust, stored>>
  BY <1>1, DoneMoves DEF ListDomains, storeVars
<1>6. MapsInv' /\ \A d \in Domain \ stored : trust[d] = EmptyMap
  BY <1>5 DEF RevokeInv, MapsInv
<1>7. Shape(q \o Tail(p)) /\ Swept(q \o Tail(p), trust)
  <2> HIDE DEF p, q
  <2> QED
    BY <1>1, <1>3, <1>4, <1>6, ListingSwept
<1>8. q \o Tail(p) # <<>> => Head(q \o Tail(p)).op # "saveBook"
  <2> SUFFICES ASSUME q \o Tail(p) # <<>> PROVE Head(q \o Tail(p)).op # "saveBook"
    OBVIOUS
  <2>1. Tail(p) \in Seq(Access)
    BY <1>1, TailAccess
  <2> HIDE DEF p, q
  <2>2. CASE q = <<>>
    <3>1. q \o Tail(p) = Tail(p)
      BY <2>1, <2>2
    <3> QED
      BY <1>1, <3>1, NoSaveNext
  <2>3. CASE q # <<>>
    <3>1. Head(q \o Tail(p)) = q[1] /\ 1 \in 1..Len(q)
      BY <1>3, <2>1, <2>3
    <3> QED
      BY <1>3, <3>1 DEF Sweeping
  <2> QED
    BY <2>2, <2>3
<1> HIDE DEF p, q
<1> QED
  BY <1>5, <1>6, <1>7, <1>8, MoveKept

(***************************************************************************)
(* The book is loaded: when the contact is marked, its trust is gone.      *)
(***************************************************************************)
LEMMA RevokeLoad ==
    ASSUME TypeInv, RevokeInv, NEW t \in Task, LoadContactBook(t)
    PROVE  RevokeInv'
<1> DEFINE p == prog[t]
           todo == {k \in Key : Edited(t)[k] # NoContact}
           read == [local[t] EXCEPT !.book = Edited(t), !.mutual = FALSE, !.todo = todo]
<1>1. p \in Seq(Access) /\ p # <<>> /\ Shape(p) /\ Head(p).op = "loadBook" /\ Head(p) = p[1]
      /\ 1 \in 1..Len(p) /\ At(t, "loadBook")
  BY AtTypes, TailAccess DEF LoadContactBook, At, RevokeInv, ShapeInv
<1>2. Done(t, Tail(p), read) /\ UNCHANGED <<trust, stored, contacts, start>>
  BY DEF LoadContactBook, Advance, storeVars
<1>3. read.book = Edited(t) /\ read.todo = todo
  <2>1. local[t] \in TaskLocal
    BY AtTypes
  <2> HIDE DEF todo
  <2> QED
    BY <2>1 DEF TaskLocal
<1> HIDE DEF read
<1>4. Moves(t, Tail(p)) /\ (Tail(p) # <<>> => local'[t] = read)
  BY <1>1, <1>2, DoneMoves
<1>5. MapsInv'
  BY <1>2 DEF RevokeInv, MapsInv
<1>6. Shape(Tail(p))
  BY <1>1, ShapeTail
<1>7. ASSUME start[t].alone PROVE Swept(p, trust)
  BY <1>7 DEF RevokeInv, SweptInv
<1>8. ASSUME start[t].alone PROVE Swept(Tail(p), trust')
  <2>1. \A d : ~ Clears(Head(p), d)
    BY <1>1 DEF Clears
  <2>2. trust' = trust
    BY <1>2
  <2> HIDE DEF p
  <2>3. Swept(Tail(p), trust)
    BY <1>1, <1>7, <1>8, <2>1, SweptTail
  <2> QED
    BY <2>2, <2>3
<1>9. ASSUME start[t].alone PROVE Harmless(read, contacts, trust)
  <2>1. ASSUME NEW k \in read.todo, Active(contacts, k), read.book[k].revoked, NEW d \in Domain
        PROVE  trust[d][k] = NoRole
    <3>1. k \in Key /\ Edited(t)[k] # NoContact /\ Edited(t)[k].revoked
      BY <1>3, <2>1
    <3>2. Marks(p[1]) /\ p[1].edit.key = k
      BY <1>1, <2>1, <3>1, EditMarks
    <3>3. 1..(1 - 1) = {}
      OBVIOUS
    <3> HIDE DEF p
    <3> QED
      BY <1>1, <1>7, <1>9, <3>2, <3>3 DEF Swept
  <2>2. \A k \in read.todo : read.book[k] # NoContact
    BY <1>3
  <2> QED
    BY <2>1, <2>2 DEF Harmless
<1>10. ASSUME start[t].alone, Tail(p) # <<>> PROVE Harmless(local'[t], contacts', trust')
  BY <1>2, <1>4, <1>9, <1>10
<1> HIDE DEF p
<1> QED
  BY <1>4, <1>5, <1>6, <1>8, <1>10, MoveKept

(***************************************************************************)
(* A contact is written: the rest of the book stays as harmless.           *)
(***************************************************************************)
LEMMA RevokeSave ==
    ASSUME TypeInv, RevokeInv, NEW t \in Task, SaveContact(t)
    PROVE  RevokeInv'
<1>1. /\ At(t, "saveBook") /\ UNCHANGED <<trust, stored, start>> /\ prog[t] # <<>>
      /\ Head(prog[t]).op = "saveBook" /\ local[t] \in TaskLocal
  BY AtTypes DEF SaveContact, At
<1>2. CASE \E read : Advance(t, read)
  <2>1. Moves(t, Tail(prog[t]))
    BY <1>1, <1>2, DoneMoves DEF Advance
  <2> QED
    BY <1>1, <2>1, IdleMove
<1>3. ASSUME NEW k \in local[t].todo, contacts' = [contacts EXCEPT ![k] = local[t].book[k]],
             Done(t, prog[t], [local[t] EXCEPT !.todo = local[t].todo \ {k}])
      PROVE  RevokeInv'
  <2>1. /\ Moves(t, prog[t]) /\ local'[t] = [local[t] EXCEPT !.todo = local[t].todo \ {k}]
    BY <1>1, <1>3, DoneMoves
  <2>2. local'[t].todo = local[t].todo \ {k} /\ local'[t].book = local[t].book
    BY <1>1, <2>1 DEF TaskLocal
  <2>3. Shape(prog[t]) /\ MapsInv' /\ (start[t].alone => Swept(prog[t], trust'))
    BY <1>1 DEF RevokeInv, ShapeInv, MapsInv, SweptInv
  <2>4. start[t].alone => Harmless(local[t], contacts, trust)
    BY <1>1 DEF RevokeInv, SaveInv
  <2>5. \A x \in local'[t].todo : contacts'[x] = contacts[x] /\ x \in local[t].todo
    BY <1>3, <2>2 DEF TypeInv, TrustTypeOK, Book
  <2>6. start[t].alone => Harmless(local'[t], contacts', trust')
    BY <1>1, <2>2, <2>4, <2>5 DEF Harmless, Active
  <2> QED
    BY <2>1, <2>3, <2>6, MoveKept
<1> QED
  BY <1>2, <1>3 DEF SaveContact

(***************************************************************************)
(* The other accesses neither give nor take trust, and mark no contact.    *)
(***************************************************************************)
LEMMA RevokeOther ==
    ASSUME TypeInv, RevokeInv, NEW t \in Task,
           \/ Fail(t) \/ LoadTrustMap(t) \/ CheckNonce(t) \/ CheckDeclined(t)
           \/ MarkNonceConsumed(t) \/ CheckKnown(t) \/ LoadSent(t) \/ AcceptSent(t) \/ RecordSent(t)
           \/ LoadDeclined(t) \/ DeclineTrustInvite(t) \/ UndeclineInvite(t)
    PROVE  RevokeInv'
<1> DEFINE Quiet == {"loadTrust", "checkNonce", "checkDeclined", "markNonce", "checkKnown",
                     "loadSent", "acceptSent", "recordSent", "loadDeclined", "decline",
                     "undecline"}
           Finishes == \E rest, read :
                      /\ Done(t, rest, read)
                      /\ \/ rest = <<>>
                         \/ rest = Tail(prog[t]) /\ Head(prog[t]).op \in Quiet
           Same == /\ prog[t] # <<>> /\ UNCHANGED <<trust, stored>>
                   /\ \A u \in Task : start'[u].alone = start[u].alone
<1>f. ASSUME Finishes, Same PROVE RevokeInv'
  <2>1. PICK rest, read : /\ Done(t, rest, read)
                          /\ \/ rest = <<>>
                             \/ rest = Tail(prog[t]) /\ Head(prog[t]).op \in Quiet
    BY <1>f
  <2>2. Moves(t, rest) /\ UNCHANGED <<trust, stored>>
    BY <1>f, <2>1, DoneMoves
  <2> QED
    BY <2>1, <2>2, IdleMove
<1>1. CASE Fail(t)
  <2>1. Finishes
    BY <1>1 DEF Fail, storeVars
  <2>2. Same
    BY <1>1 DEF Fail, storeVars
  <2> QED
    BY <2>1, <2>2, <1>f
<1>2. CASE LoadTrustMap(t)
  <2>1. Finishes
    BY <1>2 DEF LoadTrustMap, Advance, At, storeVars
  <2>2. Same
    BY <1>2 DEF LoadTrustMap, Advance, At, storeVars
  <2> QED
    BY <2>1, <2>2, <1>f
<1>3. CASE CheckNonce(t)
  <2>1. Finishes
    BY <1>3 DEF CheckNonce, Advance, At, storeVars
  <2>2. Same
    BY <1>3 DEF CheckNonce, Advance, At, storeVars
  <2> QED
    BY <2>1, <2>2, <1>f
<1>4. CASE CheckDeclined(t)
  <2>1. Finishes /\ prog[t] # <<>> /\ UNCHANGED <<trust, stored>>
    BY <1>4 DEF CheckDeclined, Advance, At, storeVars
  <2>2. start' = start \/ start' = [start EXCEPT ![t].declined = {}]
    BY <1>4 DEF CheckDeclined
  <2>3. \A u \in Task : start'[u].alone = start[u].alone
    BY <2>2 DEF TypeInv, TrustTypeOK
  <2> QED
    BY <2>1, <2>3, <1>f
<1>5. CASE MarkNonceConsumed(t)
  <2>1. Finishes
    BY <1>5 DEF MarkNonceConsumed, Advance, At
  <2>2. Same
    BY <1>5 DEF MarkNonceConsumed, Advance, At
  <2> QED
    BY <2>1, <2>2, <1>f
<1>6. CASE CheckKnown(t)
  <2>1. Finishes
    BY <1>6 DEF CheckKnown, Advance, At, storeVars
  <2>2. Same
    BY <1>6 DEF CheckKnown, Advance, At, storeVars
  <2> QED
    BY <2>1, <2>2, <1>f
<1>7. CASE LoadSent(t)
  <2>1. Finishes
    BY <1>7 DEF LoadSent, Advance, At, storeVars
  <2>2. Same
    BY <1>7 DEF LoadSent, Advance, At, storeVars
  <2> QED
    BY <2>1, <2>2, <1>f
<1>8. CASE AcceptSent(t) \/ RecordSent(t)
  <2>1. Finishes
    BY <1>8 DEF AcceptSent, RecordSent, SaveSent, Advance, At
  <2>2. Same
    BY <1>8 DEF AcceptSent, RecordSent, SaveSent, Advance, At
  <2> QED
    BY <2>1, <2>2, <1>f
<1>9. CASE LoadDeclined(t)
  <2>1. Finishes
    BY <1>9 DEF LoadDeclined, Advance, At, storeVars
  <2>2. Same
    BY <1>9 DEF LoadDeclined, Advance, At, storeVars
  <2> QED
    BY <2>1, <2>2, <1>f
<1>10. CASE DeclineTrustInvite(t)
  <2>1. Finishes
    BY <1>10 DEF DeclineTrustInvite, Advance, At
  <2>2. Same
    BY <1>10 DEF DeclineTrustInvite, Advance, At
  <2> QED
    BY <2>1, <2>2, <1>f
<1>11. CASE UndeclineInvite(t)
  <2>1. Finishes /\ prog[t] # <<>> /\ UNCHANGED <<trust, stored>>
    BY <1>11 DEF UndeclineInvite, Advance, At
  <2>2. \E undone : start' = [u \in Task |-> [start[u] EXCEPT !.declined = @ \ undone]]
    BY <1>11 DEF UndeclineInvite
  <2>3. \A u \in Task : start'[u].alone = start[u].alone
    BY <2>2 DEF TypeInv, TrustTypeOK
  <2> QED
    BY <2>1, <2>3, <1>f
<1> QED
  BY <1>1, <1>2, <1>3, <1>4, <1>5, <1>6, <1>7, <1>8, <1>9, <1>10, <1>11

(***************************************************************************)
(* Nobody has a role when the node starts, and no request is under way.    *)
(***************************************************************************)
LEMMA RevokeInit == TrustInit => RevokeInv
<1> SUFFICES ASSUME TrustInit PROVE RevokeInv
  OBVIOUS
<1>1. \A t \in Task : prog[t] = <<>> /\ 1..Len(prog[t]) = {}
  BY DEF TrustInit
<1>2. ShapeInv /\ SweptInv
  BY <1>1 DEF ShapeInv, Shape, SweptInv, Swept
<1>3. AloneInv /\ SaveInv
  BY <1>1 DEF AloneInv, SaveInv, At
<1>4. MapsInv
  BY DEF TrustInit, MapsInv
<1> QED
  BY <1>2, <1>3, <1>4 DEF RevokeInv

(***************************************************************************)
(* A revocation on its own never marks a contact that has trust left.      *)
(***************************************************************************)
LEMMA RevokeInvariant == TrustSpec => [](TypeInv /\ RevokeInv)
<1>1. TypeInv /\ RevokeInv /\ [TrustNext]_trustVars => RevokeInv'
  <2> SUFFICES ASSUME TypeInv, RevokeInv, [TrustNext]_trustVars PROVE RevokeInv'
    OBVIOUS
  <2>1. ASSUME NEW t \in Task, TaskStep(t) PROVE RevokeInv'
    BY <2>1, RevokeServe, RevokeStore, RevokeListing, RevokeLoad, RevokeSave, RevokeOther
    DEF TaskStep
  <2>2. CASE UNCHANGED trustVars
    BY <2>2
    DEF trustVars, storeVars, taskVars, RevokeInv, ShapeInv, AloneInv, MapsInv, SweptInv, SaveInv,
        At, Shape, Swept, Harmless, Active
  <2> QED
    BY <2>1, <2>2 DEF TrustNext
<1> QED
  BY <1>1, RevokeInit, TypeInvariant, PTL DEF TrustSpec

(***************************************************************************)
(* revoke_contact, when no other request overlaps it, marks the contact    *)
(* only when it has no trust left in any domain: whatever requests about   *)
(* it came before, and wherever they, or an earlier revocation, died.      *)
(***************************************************************************)
THEOREM RevokeCorrect == TrustSpec => RevokedAfterTrustGone
<1> DEFINE Step1 == \A t \in Task, k \in Key :
              (/\ Active(contacts, k) /\ contacts'[k].revoked
               /\ prog'[t] # prog[t] \/ local'[t] # local[t]
               /\ start[t].alone)
                  => \A d \in Domain : trust[d][k] = NoRole
<1>1. TypeInv /\ RevokeInv /\ [TrustNext]_trustVars => [Step1]_trustVars
  <2> SUFFICES ASSUME TypeInv, RevokeInv, [TrustNext]_trustVars, NEW t \in Task, NEW k \in Key,
                      Active(contacts, k), contacts'[k].revoked,
                      prog'[t] # prog[t] \/ local'[t] # local[t], start[t].alone,
                      NEW d \in Domain
               PROVE  trust[d][k] = NoRole
    OBVIOUS
  <2>1. contacts \in Book /\ ~ contacts[k].revoked
    BY DEF TypeInv, TrustTypeOK, Active
  <2>2. contacts' # contacts
    BY <2>1
  <2>3. PICK u \in Task : TaskStep(u)
    BY <2>2 DEF TrustNext, trustVars, storeVars
  <2>4. CASE SaveContact(u)
    <3>1. PICK x \in local[u].todo : contacts' = [contacts EXCEPT ![x] = local[u].book[x]]
      BY <2>2, <2>4 DEF SaveContact
    <3>2. x = k /\ contacts'[k] = local[u].book[k]
      BY <2>1, <3>1 DEF Book
    <3>3. u = t
      <4>1. \E rest, read : Done(u, rest, read)
        BY <2>4 DEF SaveContact, Advance
      <4> QED
        BY <4>1 DEF Done, TypeInv, TrustTypeOK, ProgTyped
    <3>4. Harmless(local[t], contacts, trust)
      BY <2>4, <3>3 DEF SaveContact, RevokeInv, SaveInv
    <3> QED
      BY <3>1, <3>2, <3>3, <3>4 DEF Harmless
  <2>5. CASE ~ SaveContact(u)
    <3>1. contacts' = contacts
      <4>1. CASE Serve(u)
        <5>1. \E about, p : Start(u, about, p)
          BY <4>1, Opened
        <5> QED
          BY <5>1 DEF Start, storeVars
      <4>2. CASE ~ Serve(u)
        BY <2>3, <2>5, <4>2
        DEF TaskStep, Fail, LoadTrustMap, StoreTrustMap, ListDomains, LoadContactBook, CheckNonce,
            CheckDeclined, MarkNonceConsumed, CheckKnown, LoadSent, AcceptSent, RecordSent,
            SaveSent, LoadDeclined, DeclineTrustInvite, UndeclineInvite, storeVars
      <4> QED
        BY <4>1, <4>2
    <3> QED
      BY <2>2, <3>1
  <2> QED
    BY <2>4, <2>5
<1> QED
  BY <1>1, RevokeInvariant, PTL DEF TrustSpec, RevokedAfterTrustGone

-----------------------------------------------------------------------------
(* Personas.                                                               *)

\* The built-in personas among ps.
BI(ps) == {i \in PersonaId : ps[i] # None /\ ps[i].built_in}

\* Where a process bootstraps Me, holds a persona it is going to write, and
\* works on a card.
MePC == {"me_probe", "me_identity", "me_fp", "me_receipt", "me_persona"}
HoldPC == {"patch_write", "merge_read", "merge_write", "reissue_write"}
ImportPC == {"import_probe", "import_identity", "import_receipt", "import_link"}

\* What a process holds, given the personas ps, how many were created, the
\* name of the node's Identity, the receipts and the node's fingerprint.
LocalInv(l, ps, cr, self, rc, fp) ==
    /\ l \in Local
    /\ l.pc \in MePC \cup {"reissue_identity", "reissue_find"} => l.name \in Name
    /\ l.pc \in ImportPC => l.id \in Id
    /\ l.pc \in HoldPC => /\ l.rec \in Record /\ l.p \in 1..cr
                          /\ l.rec.built_in <=> l.p \in BI(ps)
    /\ l.pc = "merge_read" => l.q \in PersonaId
    /\ l.pc = "delete_write" => l.p \in 1..cr /\ l.p \notin BI(ps)
    /\ l.pc \in {"merge_write", "merge_delete"} => l.q \in 1..cr /\ l.q \notin BI(ps)
    /\ l.pc \in {"me_fp", "me_receipt", "me_persona"} => self # None
    /\ l.pc \in {"me_receipt", "me_persona"} => fp
    /\ l.pc = "me_persona" => Self \in rc
Held(l) == LocalInv(l, persona, created, identity[Self], receipt, node_fp)

StoreTypes ==
    /\ persona \in [PersonaId -> Record \cup {None}]
    /\ created \in 0..MaxPersonas
    /\ identity \in [Id -> Name \cup {None}]
    /\ receipt \subseteq Id
    /\ node_fp \in BOOLEAN
    /\ card \in Name \cup {None}
    /\ inbox \in [Message -> Row]
    /\ requests \in 0..MaxRequests

\* Ids are handed out in order, and Me comes after what it stands on.
StoreOK ==
    /\ \A i \in PersonaId : i > created => persona[i] = None
    /\ BI(persona) # {} => identity[Self] # None /\ Self \in receipt /\ node_fp

PersonaInv ==
    /\ StoreTypes /\ StoreOK
    /\ proc = [t \in Process |-> proc[t]]
    /\ \A t \in Process : Held(proc[t])

\* A step of t that is not part of the bootstrap of Me.
Plain(t) ==
    \E v : proc' = [proc EXCEPT ![t] = v] /\ v.pc \notin MePC /\ BI(persona') = BI(persona)

(***************************************************************************)
(* What a process holds survives what others do: no persona that was built *)
(* in ceases to be, or the other way round, and nothing Me stands on goes. *)
(***************************************************************************)
LEMMA LocalKept ==
    ASSUME NEW l, NEW ps, NEW cr \in Nat, NEW self, NEW rc, NEW fp \in BOOLEAN,
           NEW ps2, NEW cr2 \in Nat, NEW self2, NEW rc2, NEW fp2 \in BOOLEAN,
           LocalInv(l, ps, cr, self, rc, fp),
           cr <= cr2, \A i \in 1..cr : i \in BI(ps) <=> i \in BI(ps2),
           self # None => self2 # None, fp => fp2, rc \subseteq rc2
    PROVE  LocalInv(l, ps2, cr2, self2, rc2, fp2)
<1>1. l \in Local /\ (l.pc \in MePC \cup {"reissue_identity", "reissue_find"} => l.name \in Name)
      /\ (l.pc \in ImportPC => l.id \in Id) /\ (l.pc = "merge_read" => l.q \in PersonaId)
  BY DEF LocalInv
<1>2. \A i \in 1..cr : i \in 1..cr2
  OBVIOUS
<1>3. l.pc \in HoldPC => /\ l.rec \in Record /\ l.p \in 1..cr2
                         /\ l.rec.built_in <=> l.p \in BI(ps2)
  BY <1>2 DEF LocalInv
<1>4. l.pc = "delete_write" => l.p \in 1..cr2 /\ l.p \notin BI(ps2)
  BY <1>2 DEF LocalInv
<1>5. l.pc \in {"merge_write", "merge_delete"} => l.q \in 1..cr2 /\ l.q \notin BI(ps2)
  BY <1>2 DEF LocalInv
<1>6. /\ l.pc \in {"me_fp", "me_receipt", "me_persona"} => self2 # None
      /\ l.pc \in {"me_receipt", "me_persona"} => fp2
      /\ l.pc = "me_persona" => Self \in rc2
  BY DEF LocalInv
<1> QED
  BY <1>1, <1>3, <1>4, <1>5, <1>6 DEF LocalInv

\* The store after a step, with regard to what processes hold.
Kept ==
    /\ created <= created'
    /\ \A i \in 1..created : i \in BI(persona) <=> i \in BI(persona')
    /\ identity[Self] # None => identity'[Self] # None
    /\ node_fp => node_fp'
    /\ receipt \subseteq receipt'

(***************************************************************************)
(* A step of one process.                                                  *)
(***************************************************************************)
LEMMA ProcessMoves ==
    ASSUME PersonaInv, NEW t \in Process, NEW v, proc' = [proc EXCEPT ![t] = v],
           StoreTypes', StoreOK', Kept, Held(v)'
    PROVE  PersonaInv'
<1>1. proc' = [u \in Process |-> IF u = t THEN v ELSE proc[u]]
  BY DEF PersonaInv
<1>2. created \in Nat /\ created' \in Nat /\ node_fp \in BOOLEAN /\ node_fp' \in BOOLEAN
  BY PersonaBoundAssumption DEF PersonaInv, StoreTypes
<1>3. ASSUME NEW u \in Process PROVE LocalInv(proc'[u], persona', created', identity'[Self], receipt', node_fp')
  <2>1. CASE u = t
    BY <1>1, <2>1 DEF Held
  <2>2. CASE u # t
    <3>1. PICK l : l = proc[u]
      OBVIOUS
    <3>2. proc'[u] = l /\ LocalInv(l, persona, created, identity[Self], receipt, node_fp)
      BY <1>1, <2>2, <3>1 DEF PersonaInv, Held
    <3>3. LocalInv(l, persona', created', identity'[Self], receipt', node_fp')
      BY <1>2, <3>2, LocalKept DEF Kept
    <3> QED
      BY <3>2, <3>3
  <2> QED
    BY <2>1, <2>2
<1>4. proc' = [u \in Process |-> proc'[u]]
  BY <1>1
<1> QED
  BY <1>3, <1>4 DEF PersonaInv, Held

(***************************************************************************)
(* A step of one process that only reads.                                  *)
(***************************************************************************)
LEMMA ProcessReads ==
    ASSUME PersonaInv, NEW t \in Process, NEW v, proc' = [proc EXCEPT ![t] = v],
           UNCHANGED personaStore, requests' \in 0..MaxRequests, Held(v)
    PROVE  PersonaInv' /\ BI(persona') = BI(persona)
<1>1. UNCHANGED <<persona, created, identity, receipt, node_fp, card, inbox>>
  BY DEF personaStore
<1>2. StoreTypes' /\ StoreOK'
  BY <1>1 DEF PersonaInv, StoreTypes, StoreOK
<1>3. Kept
  <2>1. created \in Nat
    BY PersonaBoundAssumption DEF PersonaInv, StoreTypes
  <2> QED
    BY <1>1, <2>1 DEF Kept
<1>4. Held(v)'
  BY <1>1 DEF Held
<1> QED
  BY <1>1, <1>2, <1>3, <1>4, ProcessMoves

(***************************************************************************)
(* A process that holds nothing.                                           *)
(***************************************************************************)
LEMMA IdleFacts ==
    /\ Idle \in Local /\ Idle.pc = "idle" /\ Idle.p = None /\ Idle.q = None /\ Idle.rec = None
    /\ Idle.id = None /\ Idle.msg = None /\ Idle.name = None
BY DEF Idle, Local, PC

\* Nothing depends on it any more, but the row of a received card.
AtRow(l) == l \in Local /\ l.pc \in {"idle", "row_accept", "row_error", "row_dismiss"}

\* Such a task holds nothing the store could contradict.
LEMMA AtRowHeld ==
    ASSUME NEW v, AtRow(v), NEW ps, NEW cr, NEW self, NEW rc, NEW fp
    PROVE  LocalInv(v, ps, cr, self, rc, fp) /\ v.pc \notin MePC
BY DEF AtRow, LocalInv, MePC, HoldPC, ImportPC

\* Where a request goes when it is done, has imported or has failed.
LEMMA SettledValue ==
    ASSUME PersonaInv, NEW t \in Process, Failed(t) \/ Imported(t) \/ ProcDone(t)
    PROVE  \E v : proc' = [proc EXCEPT ![t] = v] /\ AtRow(v)
<1>1. proc[t] \in Local
  BY DEF PersonaInv, Held, LocalInv
<1>2. PICK a : a = [Idle EXCEPT !.pc = "row_error", !.msg = proc[t].msg]
  OBVIOUS
<1>3. PICK b : b = [Idle EXCEPT !.pc = "row_accept", !.msg = proc[t].msg, !.id = proc[t].id]
  OBVIOUS
<1>4. proc[t].msg \in Message \cup {None} /\ proc[t].id \in Id \cup {None}
  BY <1>1 DEF Local
<1>5. AtRow(a) /\ AtRow(b) /\ AtRow(Idle)
  BY <1>2, <1>3, <1>4 DEF AtRow, Idle, Local, PC
<1>6. \/ proc' = [proc EXCEPT ![t] = a] \/ proc' = [proc EXCEPT ![t] = b]
      \/ proc' = [proc EXCEPT ![t] = Idle]
  BY <1>2, <1>3 DEF Failed, Imported, ProcDone, Goto
<1> QED
  BY <1>5, <1>6

(***************************************************************************)
(* A request that begins; the personas a request may find.                 *)
(***************************************************************************)
LEMMA BeginsBound ==
    ASSUME PersonaInv, NEW t, NEW kind, Begins(t, kind)
    PROVE  requests' \in 0..MaxRequests
BY PersonaBoundAssumption DEF PersonaInv, StoreTypes, Begins

\* A persona that is there has an id handed out before.
LEMMA FoundPersona ==
    ASSUME PersonaInv, NEW i \in PersonaId, persona[i] # None
    PROVE  /\ persona[i] \in Record /\ i \in 1..created
           /\ persona[i].built_in <=> i \in BI(persona)
<1>1. persona[i] \in Record
  BY DEF PersonaInv, StoreTypes
<1>2. created \in Nat /\ i \in Nat /\ i >= 1 /\ ~ (i > created)
  BY PersonaBoundAssumption DEF PersonaInv, StoreTypes, StoreOK, PersonaId
<1>3. persona[i].built_in <=> i \in BI(persona)
  BY DEF BI
<1> QED
  BY <1>1, <1>2, <1>3

(***************************************************************************)
(* What a patch makes of a persona: the user cannot patch built_in.        *)
(***************************************************************************)
LEMMA PatchedFacts ==
    ASSUME NEW rec \in Record, NEW patch \in Patch
    PROVE  /\ Patched(rec, patch) \in Record /\ Patched(rec, patch).built_in = rec.built_in
           /\ Patched(rec, patch).seeds = rec.seeds
<1>1. \/ patch.kind \in {"exclude", "include"} /\ patch.arg \in Exclusion
      \/ patch.kind \in {"confirm", "unconfirm", "clear"}
      \/ patch.kind = "link" /\ patch.arg \in Id
  BY DEF Patch
<1>2. CASE patch.kind = "exclude" /\ patch.arg \in Exclusion
  <2>1. PICK x : x = rec.excluded \cup {patch.arg}
    OBVIOUS
  <2>2. x \in SUBSET Exclusion
    BY <1>2, <2>1 DEF Record
  <2>3. Patched(rec, patch) = [rec EXCEPT !.excluded = x]
    BY <1>2, <2>1 DEF Patched
  <2> QED
    BY <2>2, <2>3 DEF Record
<1>3. CASE patch.kind = "include" /\ patch.arg \in Exclusion
  <2>1. PICK x : x = rec.excluded \ {patch.arg}
    OBVIOUS
  <2>2. x \in SUBSET Exclusion
    BY <1>3, <2>1 DEF Record
  <2>3. Patched(rec, patch) = [rec EXCEPT !.excluded = x]
    BY <1>3, <2>1 DEF Patched
  <2> QED
    BY <2>2, <2>3 DEF Record
<1>4. CASE patch.kind = "confirm"
  <2>1. Patched(rec, patch) = [rec EXCEPT !.confirmed = TRUE]
    BY <1>4 DEF Patched
  <2> QED
    BY <2>1 DEF Record
<1>5. CASE patch.kind = "unconfirm"
  <2>1. Patched(rec, patch) = [rec EXCEPT !.confirmed = FALSE]
    BY <1>5 DEF Patched
  <2> QED
    BY <2>1 DEF Record
<1>6. CASE patch.kind = "clear"
  <2>1. Patched(rec, patch) = [rec EXCEPT !.identity = None]
    BY <1>6 DEF Patched
  <2> QED
    BY <2>1 DEF Record
<1>7. CASE patch.kind = "link" /\ patch.arg \in Id
  <2>1. Patched(rec, patch) = [rec EXCEPT !.identity = patch.arg]
    BY <1>7 DEF Patched
  <2> QED
    BY <1>7, <2>1 DEF Record
<1> QED
  BY <1>1, <1>2, <1>3, <1>4, <1>5, <1>6, <1>7

(***************************************************************************)
(* The reading halves of patch, delete and merge.                          *)
(***************************************************************************)
LEMMA PatchReadStep ==
    ASSUME PersonaInv, NEW t \in Process, PatchRead(t)
    PROVE  PersonaInv' /\ Plain(t)
<1>1. PICK i \in PersonaId, patch \in Patch :
        /\ persona[i] # None
        /\ Goto(t, [Idle EXCEPT !.pc = "patch_write", !.p = i, !.rec = Patched(persona[i], patch)])
  BY DEF PatchRead
<1>2. persona[i] \in Record /\ i \in 1..created /\ (persona[i].built_in <=> i \in BI(persona))
  BY <1>1, FoundPersona
<1>3. PICK rec : rec = Patched(persona[i], patch)
  OBVIOUS
<1>4. rec \in Record /\ (rec.built_in <=> i \in BI(persona))
  BY <1>2, <1>3, PatchedFacts
<1>5. PICK v : v = [Idle EXCEPT !.pc = "patch_write", !.p = i, !.rec = rec]
  OBVIOUS
<1>6. v \in Local /\ v.pc = "patch_write" /\ v.p = i /\ v.rec = rec
  BY <1>4, <1>5 DEF Idle, Local, PC
<1>7. Held(v) /\ v.pc \notin MePC
  BY <1>2, <1>4, <1>6 DEF Held, LocalInv, MePC, ImportPC
<1>8. proc' = [proc EXCEPT ![t] = v]
  BY <1>1, <1>3, <1>5 DEF Goto
<1>9. UNCHANGED personaStore /\ requests' \in 0..MaxRequests
  BY BeginsBound DEF PatchRead
<1>10. PersonaInv' /\ BI(persona') = BI(persona)
  BY <1>7, <1>8, <1>9, ProcessReads
<1> QED
  BY <1>7, <1>8, <1>10 DEF Plain

\* DeleteRead: what is going to be deleted is not built in.
LEMMA DeleteReadStep ==
    ASSUME PersonaInv, NEW t \in Process, DeleteRead(t)
    PROVE  PersonaInv' /\ Plain(t)
<1>1. PICK i \in PersonaId :
        /\ persona[i] # None /\ ~ persona[i].built_in
        /\ Goto(t, [Idle EXCEPT !.pc = "delete_write", !.p = i])
  BY DEF DeleteRead
<1>2. i \in 1..created /\ i \notin BI(persona)
  BY <1>1, FoundPersona
<1>3. PICK v : v = [Idle EXCEPT !.pc = "delete_write", !.p = i]
  OBVIOUS
<1>4. v \in Local /\ v.pc = "delete_write" /\ v.p = i
  BY <1>3 DEF Idle, Local, PC
<1>5. Held(v) /\ v.pc \notin MePC
  BY <1>2, <1>4 DEF Held, LocalInv, MePC, ImportPC, HoldPC
<1>6. proc' = [proc EXCEPT ![t] = v]
  BY <1>1, <1>3 DEF Goto
<1>7. UNCHANGED personaStore /\ requests' \in 0..MaxRequests
  BY BeginsBound DEF DeleteRead
<1>8. PersonaInv' /\ BI(persona') = BI(persona)
  BY <1>5, <1>6, <1>7, ProcessReads
<1> QED
  BY <1>5, <1>6, <1>8 DEF Plain

\* MergeReadSurvivor.
LEMMA MergeReadSurvivorStep ==
    ASSUME PersonaInv, NEW t \in Process, MergeReadSurvivor(t)
    PROVE  PersonaInv' /\ Plain(t)
<1>1. PICK i \in PersonaId, j \in PersonaId :
        /\ i # j /\ persona[i] # None
        /\ Goto(t, [Idle EXCEPT !.pc = "merge_read", !.p = i, !.q = j, !.rec = persona[i]])
  BY DEF MergeReadSurvivor
<1>2. PICK rec : rec = persona[i]
  OBVIOUS
<1>3. rec \in Record /\ i \in 1..created /\ (rec.built_in <=> i \in BI(persona))
  BY <1>1, <1>2, FoundPersona
<1>4. PICK v : v = [Idle EXCEPT !.pc = "merge_read", !.p = i, !.q = j, !.rec = rec]
  OBVIOUS
<1>5. v \in Local /\ v.pc = "merge_read" /\ v.p = i /\ v.q = j /\ v.rec = rec
  BY <1>3, <1>4 DEF Idle, Local, PC
<1>6. Held(v) /\ v.pc \notin MePC
  BY <1>3, <1>5 DEF Held, LocalInv, MePC, ImportPC
<1>7. proc' = [proc EXCEPT ![t] = v]
  BY <1>1, <1>2, <1>4 DEF Goto
<1>8. UNCHANGED personaStore /\ requests' \in 0..MaxRequests
  BY BeginsBound DEF MergeReadSurvivor
<1>9. PersonaInv' /\ BI(persona') = BI(persona)
  BY <1>6, <1>7, <1>8, ProcessReads
<1> QED
  BY <1>6, <1>7, <1>9 DEF Plain

(***************************************************************************)
(* What a merge makes of two personas.                                     *)
(***************************************************************************)
LEMMA MergedFacts ==
    ASSUME NEW a \in Record, NEW b \in Record
    PROVE  LET m == Merged(a, b) IN
           /\ m \in Record /\ m.built_in = a.built_in
           /\ m.seeds = a.seeds \cup b.seeds /\ m.excluded = a.excluded \cup b.excluded
           /\ m.identity = IF a.identity = None THEN b.identity ELSE a.identity
<1>1. PICK seeds, excluded, identity0 :
        /\ seeds = a.seeds \cup b.seeds /\ excluded = a.excluded \cup b.excluded
        /\ identity0 = IF a.identity = None THEN b.identity ELSE a.identity
  OBVIOUS
<1>2. /\ seeds \in SUBSET (Fp \cup {NodeFp}) /\ excluded \in SUBSET Exclusion
      /\ identity0 \in Id \cup {None}
  BY <1>1 DEF Record
<1>3. PICK m : m = [a EXCEPT !.seeds = seeds, !.excluded = excluded, !.identity = identity0]
  OBVIOUS
<1>4. m \in Record /\ m.built_in = a.built_in /\ m.seeds = seeds /\ m.excluded = excluded
      /\ m.identity = identity0
  BY <1>2, <1>3 DEF Record
<1>5. Merged(a, b) = m
  BY <1>1, <1>3 DEF Merged
<1> QED
  BY <1>1, <1>4, <1>5

\* MergeReadAbsorbed: neither of the two is built in.
LEMMA MergeReadAbsorbedStep ==
    ASSUME PersonaInv, NEW t \in Process, MergeReadAbsorbed(t)
    PROVE  PersonaInv' /\ Plain(t)
<1>1. UNCHANGED personaStore /\ requests' \in 0..MaxRequests /\ proc[t].pc = "merge_read"
  BY DEF MergeReadAbsorbed, ProcAt, PersonaInv, StoreTypes
<1>2. CASE ProcDone(t)
  <2>1. PICK v : proc' = [proc EXCEPT ![t] = v] /\ AtRow(v)
    BY <1>2, SettledValue
  <2>2. Held(v) /\ v.pc \notin MePC
    BY <2>1, AtRowHeld DEF Held
  <2>3. PersonaInv' /\ BI(persona') = BI(persona)
    BY <1>1, <2>1, <2>2, ProcessReads
  <2> QED
    BY <2>1, <2>2, <2>3 DEF Plain
<1>3. CASE ~ ProcDone(t)
  <2>1. PICK l, q, a, b : l = proc[t] /\ q = proc[t].q /\ a = proc[t].rec /\ b = persona[proc[t].q]
    OBVIOUS
  <2>2. /\ b # None /\ ~ a.built_in /\ ~ b.built_in
        /\ Goto(t, [l EXCEPT !.pc = "merge_write", !.rec = Merged(a, b)])
    BY <1>3, <2>1 DEF MergeReadAbsorbed
  <2>3. LocalInv(l, persona, created, identity[Self], receipt, node_fp) /\ l.pc = "merge_read"
    BY <1>1, <2>1 DEF PersonaInv, Held
  <2>4. l \in Local /\ a \in Record /\ l.p \in 1..created /\ (a.built_in <=> l.p \in BI(persona))
    BY <2>1, <2>3 DEF LocalInv, HoldPC
  <2>5. q \in PersonaId
    BY <2>1, <2>3 DEF LocalInv
  <2>6. b \in Record /\ q \in 1..created /\ q \notin BI(persona)
    BY <2>1, <2>2, <2>5, FoundPersona
  <2>7. PICK m : m = Merged(a, b)
    OBVIOUS
  <2>8. m \in Record /\ m.built_in = a.built_in
    BY <2>4, <2>6, <2>7, MergedFacts
  <2>9. PICK v : v = [l EXCEPT !.pc = "merge_write", !.rec = m]
    OBVIOUS
  <2>10. v \in Local /\ v.pc = "merge_write" /\ v.p = l.p /\ v.q = q /\ v.rec = m
    BY <2>1, <2>4, <2>8, <2>9 DEF Local, PC
  <2>11. Held(v) /\ v.pc \notin MePC
    BY <2>4, <2>6, <2>8, <2>10 DEF Held, LocalInv, MePC, ImportPC
  <2>12. proc' = [proc EXCEPT ![t] = v]
    BY <2>1, <2>2, <2>7, <2>9 DEF Goto
  <2>13. PersonaInv' /\ BI(persona') = BI(persona)
    BY <1>1, <2>11, <2>12, ProcessReads
  <2> QED
    BY <2>11, <2>12, <2>13 DEF Plain
<1> QED
  BY <1>2, <1>3

(***************************************************************************)
(* Writing a persona back: what is built in stays so.                      *)
(***************************************************************************)
LEMMA UpdateKeeps ==
    ASSUME PersonaInv, NEW i \in 1..created, NEW rec \in Record \cup {None},
           (rec # None /\ rec.built_in) <=> i \in BI(persona), Update(i, rec),
           UNCHANGED <<identity, receipt, node_fp, card, inbox, requests>>
    PROVE  StoreTypes' /\ StoreOK' /\ Kept /\ BI(persona') = BI(persona)
<1>1. /\ persona \in [PersonaId -> Record \cup {None}] /\ created \in 0..MaxPersonas
      /\ created' = created /\ persona' = [persona EXCEPT ![i] = rec] /\ created \in Nat
  BY PersonaBoundAssumption DEF PersonaInv, StoreTypes, Update
<1>2. i \in PersonaId
  BY <1>1, PersonaBoundAssumption DEF PersonaId
<1>3. /\ persona' \in [PersonaId -> Record \cup {None}]
      /\ \A k \in PersonaId : persona'[k] = IF k = i THEN rec ELSE persona[k]
  BY <1>1, <1>2
<1>4. BI(persona') = BI(persona)
  BY <1>2, <1>3 DEF BI
<1>5. StoreTypes'
  BY <1>1, <1>3 DEF PersonaInv, StoreTypes
<1>6. StoreOK'
  <2>1. \A k \in PersonaId : k > created' => persona'[k] = None
    BY <1>1, <1>3 DEF PersonaInv, StoreOK
  <2> QED
    BY <1>4, <2>1 DEF PersonaInv, StoreOK
<1>7. Kept
  BY <1>1, <1>4 DEF Kept
<1> QED
  BY <1>4, <1>5, <1>6, <1>7

(***************************************************************************)
(* A step that writes a persona and then holds v.                          *)
(***************************************************************************)
LEMMA WriteMove ==
    ASSUME PersonaInv, NEW t \in Process, NEW i \in 1..created, NEW rec \in Record \cup {None},
           (rec # None /\ rec.built_in) <=> i \in BI(persona), Update(i, rec),
           UNCHANGED <<identity, receipt, node_fp, card, inbox, requests>>,
           NEW v, proc' = [proc EXCEPT ![t] = v], AtRow(v)
    PROVE  PersonaInv' /\ Plain(t)
<1>1. StoreTypes' /\ StoreOK' /\ Kept /\ BI(persona') = BI(persona)
  BY UpdateKeeps
<1>2. Held(v)' /\ v.pc \notin MePC
  BY AtRowHeld DEF Held
<1>3. PersonaInv'
  BY <1>1, <1>2, ProcessMoves
<1> QED
  BY <1>1, <1>2, <1>3 DEF Plain

(***************************************************************************)
(* The writing halves.                                                     *)
(***************************************************************************)
LEMMA HeldAt ==
    ASSUME PersonaInv, NEW t \in Process, proc[t].pc \in HoldPC
    PROVE  /\ proc[t].rec \in Record /\ proc[t].p \in 1..created
           /\ (proc[t].rec # None /\ proc[t].rec.built_in) <=> proc[t].p \in BI(persona)
<1>1. /\ proc[t].rec \in Record /\ proc[t].p \in 1..created
      /\ proc[t].rec.built_in <=> proc[t].p \in BI(persona)
  BY DEF PersonaInv, Held, LocalInv
<1> QED
  BY <1>1, RecordAssumption

\* PatchWrite.
LEMMA PatchWriteStep ==
    ASSUME PersonaInv, NEW t \in Process, PatchWrite(t)
    PROVE  PersonaInv' /\ Plain(t)
<1>1. proc[t].pc \in HoldPC
  BY DEF PatchWrite, ProcAt, HoldPC
<1>2. PICK i, rec : i = proc[t].p /\ rec = proc[t].rec
  OBVIOUS
<1>3. /\ i \in 1..created /\ rec \in Record \cup {None}
      /\ (rec # None /\ rec.built_in) <=> i \in BI(persona)
  BY <1>1, <1>2, HeldAt
<1>4. PICK v : proc' = [proc EXCEPT ![t] = v] /\ AtRow(v)
  BY SettledValue DEF PatchWrite
<1>5. Update(i, rec) /\ UNCHANGED <<identity, receipt, node_fp, card, inbox, requests>>
  BY <1>2 DEF PatchWrite, ProcAt
<1> QED
  BY <1>3, <1>4, <1>5, WriteMove

\* DeleteWrite.
LEMMA DeleteWriteStep ==
    ASSUME PersonaInv, NEW t \in Process, DeleteWrite(t)
    PROVE  PersonaInv' /\ Plain(t)
<1>1. PICK i : i = proc[t].p
  OBVIOUS
<1>2. i \in 1..created /\ i \notin BI(persona)
  BY <1>1 DEF PersonaInv, Held, LocalInv, DeleteWrite, ProcAt
<1>3. PICK v : proc' = [proc EXCEPT ![t] = v] /\ AtRow(v)
  BY SettledValue DEF DeleteWrite
<1>4. Update(i, None) /\ UNCHANGED <<identity, receipt, node_fp, card, inbox, requests>>
  BY <1>1 DEF DeleteWrite, ProcAt
<1>5. /\ None \in Record \cup {None}
      /\ (None # None /\ None.built_in) <=> i \in BI(persona)
  BY <1>2
<1> QED
  BY <1>2, <1>3, <1>4, <1>5, WriteMove

\* MergeWrite: the absorbed persona is still to be deleted.
LEMMA MergeWriteStep ==
    ASSUME PersonaInv, NEW t \in Process, MergeWrite(t)
    PROVE  PersonaInv' /\ Plain(t)
<1>1. proc[t].pc \in HoldPC
  BY DEF MergeWrite, ProcAt, HoldPC
<1>2. PICK i, rec, q : i = proc[t].p /\ rec = proc[t].rec /\ q = proc[t].q
  OBVIOUS
<1>3. /\ i \in 1..created /\ rec \in Record \cup {None}
      /\ (rec # None /\ rec.built_in) <=> i \in BI(persona)
  BY <1>1, <1>2, HeldAt
<1>4. q \in 1..created /\ q \notin BI(persona)
  BY <1>2 DEF PersonaInv, Held, LocalInv, MergeWrite, ProcAt
<1>5. Update(i, rec) /\ UNCHANGED <<identity, receipt, node_fp, card, inbox, requests>>
  BY <1>2 DEF MergeWrite, ProcAt
<1>6. StoreTypes' /\ StoreOK' /\ Kept /\ BI(persona') = BI(persona) /\ created' = created
  <2>1. StoreTypes' /\ StoreOK' /\ Kept /\ BI(persona') = BI(persona)
    BY <1>3, <1>5, UpdateKeeps
  <2> QED
    BY <1>5, <2>1 DEF Update
<1>7. q \in PersonaId
  BY <1>4, PersonaBoundAssumption DEF PersonaInv, StoreTypes, PersonaId
<1>8. PICK v : v = [Idle EXCEPT !.pc = "merge_delete", !.q = q]
  OBVIOUS
<1>9. v \in Local /\ v.pc = "merge_delete" /\ v.q = q
  BY <1>7, <1>8 DEF Idle, Local, PC
<1>10. Held(v)' /\ v.pc \notin MePC
  BY <1>4, <1>6, <1>9 DEF Held, LocalInv, MePC, HoldPC, ImportPC
<1>11. proc' = [proc EXCEPT ![t] = v]
  BY <1>2, <1>8 DEF MergeWrite, Goto
<1>12. PersonaInv'
  BY <1>6, <1>10, <1>11, ProcessMoves
<1> QED
  BY <1>6, <1>10, <1>11, <1>12 DEF Plain

\* MergeDelete.
LEMMA MergeDeleteStep ==
    ASSUME PersonaInv, NEW t \in Process, MergeDelete(t)
    PROVE  PersonaInv' /\ Plain(t)
<1>1. PICK i : i = proc[t].q
  OBVIOUS
<1>2. i \in 1..created /\ i \notin BI(persona)
  BY <1>1 DEF PersonaInv, Held, LocalInv, MergeDelete, ProcAt
<1>3. PICK v : proc' = [proc EXCEPT ![t] = v] /\ AtRow(v)
  BY SettledValue DEF MergeDelete
<1>4. Update(i, None) /\ UNCHANGED <<identity, receipt, node_fp, card, inbox, requests>>
  BY <1>1 DEF MergeDelete, ProcAt
<1>5. /\ None \in Record \cup {None}
      /\ (None # None /\ None.built_in) <=> i \in BI(persona)
  BY <1>2
<1> QED
  BY <1>2, <1>3, <1>4, <1>5, WriteMove

\* ReissueMeName writes a built-in persona back as one.
LEMMA ReissueMeNameStep ==
    ASSUME PersonaInv, NEW t \in Process, ReissueMeName(t)
    PROVE  PersonaInv' /\ Plain(t)
<1>1. proc[t].pc \in HoldPC
  BY DEF ReissueMeName, ProcAt, HoldPC
<1>2. PICK i, rec : i = proc[t].p /\ rec = proc[t].rec
  OBVIOUS
<1>3. /\ i \in 1..created /\ rec \in Record \cup {None}
      /\ (rec # None /\ rec.built_in) <=> i \in BI(persona)
  BY <1>1, <1>2, HeldAt
<1>4. PICK v : proc' = [proc EXCEPT ![t] = v] /\ AtRow(v)
  BY SettledValue DEF ReissueMeName
<1>5. Update(i, rec) /\ UNCHANGED <<identity, receipt, node_fp, card, inbox, requests>>
  BY <1>2 DEF ReissueMeName, ProcAt
<1> QED
  BY <1>3, <1>4, <1>5, WriteMove

(***************************************************************************)
(* A persona is created under an id nobody has used.                       *)
(***************************************************************************)
LEMMA CreateKeeps ==
    ASSUME PersonaInv, NEW rec \in Record, Create(rec), requests' \in 0..MaxRequests,
           UNCHANGED <<identity, receipt, node_fp, card, inbox>>,
           rec.built_in => identity[Self] # None /\ Self \in receipt /\ node_fp
    PROVE  /\ StoreTypes' /\ StoreOK' /\ Kept
           /\ BI(persona') = IF rec.built_in THEN BI(persona) \cup {created + 1} ELSE BI(persona)
<1>1. /\ persona \in [PersonaId -> Record \cup {None}] /\ created \in Nat /\ created < MaxPersonas
      /\ created' = created + 1 /\ persona' = [persona EXCEPT ![created + 1] = rec]
      /\ rec.built_in \in BOOLEAN
  BY PersonaBoundAssumption DEF PersonaInv, StoreTypes, Create, Record
<1>2. PICK n : n = created + 1
  OBVIOUS
<1>3. n \in PersonaId /\ n > created
  BY <1>1, <1>2, PersonaBoundAssumption DEF PersonaId
<1>4. /\ persona' \in [PersonaId -> Record \cup {None}]
      /\ \A k \in PersonaId : persona'[k] = IF k = n THEN rec ELSE persona[k]
  BY <1>1, <1>2, <1>3
<1>5. persona[n] = None
  BY <1>3 DEF PersonaInv, StoreOK
<1>6. BI(persona') = IF rec.built_in THEN BI(persona) \cup {n} ELSE BI(persona)
  BY <1>3, <1>4, <1>5, RecordAssumption DEF BI
<1>7. StoreTypes'
  BY <1>1, <1>4, PersonaBoundAssumption DEF PersonaInv, StoreTypes
<1>8. StoreOK'
  <2>1. \A k \in PersonaId : k > created' => persona'[k] = None
    BY <1>1, <1>2, <1>4 DEF PersonaInv, StoreOK, PersonaId
  <2>2. BI(persona') # {} => identity[Self] # None /\ Self \in receipt /\ node_fp
    BY <1>6 DEF PersonaInv, StoreOK
  <2> QED
    BY <2>1, <2>2 DEF StoreOK
<1>9. Kept
  BY <1>1, <1>2, <1>6 DEF Kept
<1> QED
  BY <1>2, <1>6, <1>7, <1>8, <1>9

(***************************************************************************)
(* A step beside the processes.                                            *)
(***************************************************************************)
LEMMA StoreMoves ==
    ASSUME PersonaInv, UNCHANGED proc, StoreTypes', StoreOK', Kept
    PROVE  PersonaInv'
<1>1. created \in Nat /\ created' \in Nat /\ node_fp \in BOOLEAN /\ node_fp' \in BOOLEAN
  BY PersonaBoundAssumption DEF PersonaInv, StoreTypes
<1>2. ASSUME NEW u \in Process PROVE LocalInv(proc'[u], persona', created', identity'[Self], receipt', node_fp')
  <2>1. PICK l : l = proc[u]
    OBVIOUS
  <2>2. proc'[u] = l /\ LocalInv(l, persona, created, identity[Self], receipt, node_fp)
    BY <2>1 DEF PersonaInv, Held
  <2>3. LocalInv(l, persona', created', identity'[Self], receipt', node_fp')
    BY <1>1, <2>2, LocalKept DEF Kept
  <2> QED
    BY <2>2, <2>3
<1>3. proc' = [u \in Process |-> proc'[u]]
  BY DEF PersonaInv
<1> QED
  BY <1>2, <1>3 DEF PersonaInv, Held

(***************************************************************************)
(* Suggested personas.                                                     *)
(***************************************************************************)
LEMMA SuggestedStep ==
    ASSUME PersonaInv, NEW seeds \in Cluster, NEW confirmed \in BOOLEAN,
           Create(Suggested(seeds, confirmed)), requests' \in 0..MaxRequests,
           UNCHANGED <<identity, receipt, node_fp, card, inbox, proc>>
    PROVE  PersonaInv' /\ BI(persona') = BI(persona)
<1>1. PICK rec : rec = Suggested(seeds, confirmed)
  OBVIOUS
<1>2. rec \in Record /\ rec.built_in = FALSE
  BY <1>1, ClusterAssumption DEF Suggested, Record
<1>3. StoreTypes' /\ StoreOK' /\ Kept /\ BI(persona') = BI(persona)
  BY <1>1, <1>2, CreateKeeps
<1> QED
  BY <1>3, StoreMoves

\* AcceptSuggested.
LEMMA AcceptSuggestedStep ==
    ASSUME PersonaInv, NEW t \in Process, AcceptSuggested(t)
    PROVE  PersonaInv' /\ BI(persona') = BI(persona) /\ proc' = proc
<1>1. requests' \in 0..MaxRequests
  BY BeginsBound DEF AcceptSuggested
<1> QED
  BY <1>1, SuggestedStep DEF AcceptSuggested

\* AutoCreate.
LEMMA AutoCreateStep ==
    ASSUME PersonaInv, AutoCreate
    PROVE  PersonaInv' /\ BI(persona') = BI(persona) /\ proc' = proc
<1>1. requests' \in 0..MaxRequests
  BY DEF AutoCreate, PersonaInv, StoreTypes
<1> QED
  BY <1>1, SuggestedStep DEF AutoCreate

(***************************************************************************)
(* The inbox.                                                              *)
(***************************************************************************)
LEMMA InboxStep ==
    ASSUME PersonaInv, NEW m, NEW row \in Row, inbox' = [inbox EXCEPT ![m] = row],
           UNCHANGED <<persona, created, identity, receipt, node_fp, card, requests>>
    PROVE  StoreTypes' /\ StoreOK' /\ Kept /\ BI(persona') = BI(persona)
<1>1. inbox' \in [Message -> Row]
  BY DEF PersonaInv, StoreTypes
<1>2. created \in Nat
  BY PersonaBoundAssumption DEF PersonaInv, StoreTypes
<1> QED
  BY <1>1, <1>2 DEF PersonaInv, StoreTypes, StoreOK, Kept

\* Deliver.
LEMMA DeliverStep ==
    ASSUME PersonaInv, NEW m \in Message, Deliver(m)
    PROVE  PersonaInv' /\ BI(persona') = BI(persona) /\ proc' = proc
<1>1. PICK row : row = [status |-> "pending", id |-> None]
  OBVIOUS
<1>2. row \in Row
  BY <1>1 DEF Row
<1>3. StoreTypes' /\ StoreOK' /\ Kept /\ BI(persona') = BI(persona)
  BY <1>1, <1>2, InboxStep DEF Deliver
<1> QED
  BY <1>3, StoreMoves DEF Deliver

\* The row of a card is resolved, left with its error or dismissed.
LEMMA RowStep ==
    ASSUME PersonaInv, NEW t \in Process, RowAccepted(t) \/ RowError(t) \/ DismissWrite(t)
    PROVE  PersonaInv' /\ Plain(t)
<1>1. proc[t] \in Local
  BY DEF PersonaInv, Held, LocalInv
<1>2. PICK m, row : /\ m = proc[t].msg /\ inbox' = [inbox EXCEPT ![m] = row]
                    /\ \/ row = [status |-> "accepted", id |-> proc[t].id]
                       \/ row = [status |-> "pending", id |-> None]
                       \/ row = [status |-> "dismissed", id |-> None]
  BY DEF RowAccepted, RowError, DismissWrite, Resolve
<1>3. row \in Row
  BY <1>1, <1>2 DEF Row, Local
<1>4. UNCHANGED <<persona, created, identity, receipt, node_fp, card, requests>> /\ ProcDone(t)
  BY DEF RowAccepted, RowError, DismissWrite, ProcAt
<1>5. StoreTypes' /\ StoreOK' /\ Kept /\ BI(persona') = BI(persona)
  BY <1>2, <1>3, <1>4, InboxStep
<1>6. PICK v : proc' = [proc EXCEPT ![t] = v] /\ AtRow(v)
  BY <1>4, SettledValue
<1>7. Held(v)' /\ v.pc \notin MePC
  BY <1>6, AtRowHeld DEF Held
<1>8. PersonaInv'
  BY <1>5, <1>6, <1>7, ProcessMoves
<1> QED
  BY <1>5, <1>6, <1>7, <1>8 DEF Plain

\* DismissRead.
LEMMA DismissReadStep ==
    ASSUME PersonaInv, NEW t \in Process, DismissRead(t)
    PROVE  PersonaInv' /\ Plain(t)
<1>1. PICK m \in Message : Goto(t, [Idle EXCEPT !.pc = "row_dismiss", !.msg = m])
  BY DEF DismissRead
<1>2. PICK v : v = [Idle EXCEPT !.pc = "row_dismiss", !.msg = m]
  OBVIOUS
<1>3. AtRow(v)
  BY <1>2 DEF AtRow, Idle, Local, PC
<1>4. Held(v) /\ v.pc \notin MePC
  BY <1>3, AtRowHeld DEF Held
<1>5. proc' = [proc EXCEPT ![t] = v]
  BY <1>1, <1>2 DEF Goto
<1>6. UNCHANGED personaStore /\ requests' \in 0..MaxRequests
  BY BeginsBound DEF DismissRead
<1>7. PersonaInv' /\ BI(persona') = BI(persona)
  BY <1>4, <1>5, <1>6, ProcessReads
<1> QED
  BY <1>4, <1>5, <1>7 DEF Plain

(***************************************************************************)
(* The import of a card.                                                   *)
(***************************************************************************)
LEMMA ImportPasteStep ==
    ASSUME PersonaInv, NEW t \in Process, ImportPaste(t)
    PROVE  PersonaInv' /\ Plain(t)
<1>1. PICK i \in Pasted, link \in Links(t) :
        Goto(t, [Idle EXCEPT !.pc = "import_probe", !.id = i, !.p = link])
  BY DEF ImportPaste
<1>2. i \in Id /\ link \in PersonaId \cup {None}
  BY CardAssumption DEF Id, Links
<1>3. PICK v : v = [Idle EXCEPT !.pc = "import_probe", !.id = i, !.p = link]
  OBVIOUS
<1>4. v \in Local /\ v.pc = "import_probe" /\ v.id = i
  BY <1>2, <1>3 DEF Idle, Local, PC
<1>5. Held(v) /\ v.pc \notin MePC
  BY <1>2, <1>4 DEF Held, LocalInv, MePC, HoldPC
<1>6. proc' = [proc EXCEPT ![t] = v]
  BY <1>1, <1>3 DEF Goto
<1>7. UNCHANGED personaStore /\ requests' \in 0..MaxRequests
  BY BeginsBound DEF ImportPaste
<1>8. PersonaInv' /\ BI(persona') = BI(persona)
  BY <1>5, <1>6, <1>7, ProcessReads
<1> QED
  BY <1>5, <1>6, <1>8 DEF Plain

\* AcceptRow.
LEMMA AcceptRowStep ==
    ASSUME PersonaInv, NEW t \in Process, AcceptRow(t)
    PROVE  PersonaInv' /\ Plain(t)
<1>1. PICK m \in Message, link \in Links(t) :
        Goto(t, [Idle EXCEPT !.pc = IF Verified(m) THEN "import_probe" ELSE "row_error",
                                !.msg = m, !.id = CardOf[m], !.p = link])
  BY DEF AcceptRow
<1>2. PICK pc \in {"import_probe", "row_error"} : pc = IF Verified(m) THEN "import_probe" ELSE "row_error"
  OBVIOUS
<1>3. PICK i : i = CardOf[m]
  OBVIOUS
<1>4. i \in Id /\ link \in PersonaId \cup {None}
  BY <1>3, CardAssumption DEF Id, Links
<1>5. PICK v : v = [Idle EXCEPT !.pc = pc, !.msg = m, !.id = i, !.p = link]
  OBVIOUS
<1>6. v \in Local /\ v.pc = pc /\ v.id = i
  BY <1>4, <1>5 DEF Idle, Local, PC
<1>7. Held(v) /\ v.pc \notin MePC
  BY <1>4, <1>6 DEF Held, LocalInv, MePC, HoldPC
<1>8. proc' = [proc EXCEPT ![t] = v]
  BY <1>1, <1>2, <1>3, <1>5 DEF Goto
<1>9. UNCHANGED personaStore /\ requests' \in 0..MaxRequests
  BY BeginsBound DEF AcceptRow
<1>10. PersonaInv' /\ BI(persona') = BI(persona)
  BY <1>7, <1>8, <1>9, ProcessReads
<1> QED
  BY <1>7, <1>8, <1>10 DEF Plain

\* ImportProbe.
LEMMA ImportProbeStep ==
    ASSUME PersonaInv, NEW t \in Process, ImportProbe(t)
    PROVE  PersonaInv' /\ Plain(t)
<1>1. PICK pc \in {"import_identity", "import_link"} :
         pc = IF identity[proc[t].id] = None THEN "import_identity" ELSE "import_link"
  OBVIOUS
<1>2. UNCHANGED personaStore /\ requests' \in 0..MaxRequests /\ proc[t].pc = "import_probe"
  BY DEF ImportProbe, ProcAt, PersonaInv, StoreTypes
<1>3. proc[t] \in Local /\ proc[t].id \in Id
  BY <1>2 DEF PersonaInv, Held, LocalInv, ImportPC
<1>4. PICK v : v = [proc[t] EXCEPT !.pc = pc]
  OBVIOUS
<1>5. v \in Local /\ v.pc = pc /\ v.id = proc[t].id
  BY <1>3, <1>4 DEF Local, PC
<1>6. Held(v) /\ v.pc \notin MePC
  BY <1>3, <1>5 DEF Held, LocalInv, MePC, HoldPC
<1>7. proc' = [proc EXCEPT ![t] = v]
  BY <1>1, <1>4 DEF ImportProbe, Goto
<1>8. PersonaInv' /\ BI(persona') = BI(persona)
  BY <1>2, <1>6, <1>7, ProcessReads
<1> QED
  BY <1>6, <1>7, <1>8 DEF Plain

\* ImportIdentity and ImportReceipt only add.
LEMMA ImportWriteStep ==
    ASSUME PersonaInv, NEW t \in Process, ImportIdentity(t) \/ ImportReceipt(t)
    PROVE  PersonaInv' /\ Plain(t)
<1>1. UNCHANGED <<persona, created, node_fp, card, inbox, requests>>
      /\ proc[t].pc \in {"import_identity", "import_receipt"}
  BY DEF ImportIdentity, ImportReceipt, ProcAt
<1>2. proc[t] \in Local /\ proc[t].id \in Id
  BY <1>1 DEF PersonaInv, Held, LocalInv, ImportPC
<1>3. PICK pc \in {"import_receipt", "import_link"} : Goto(t, [proc[t] EXCEPT !.pc = pc])
  BY DEF ImportIdentity, ImportReceipt
<1>4. identity' \in [Id -> Name \cup {None}] /\ (identity[Self] # None => identity'[Self] # None)
  <2>1. CASE identity' = identity
    BY <2>1 DEF PersonaInv, StoreTypes
  <2>2. CASE \E n \in Name : identity' = [identity EXCEPT ![proc[t].id] = n]
    BY <1>2, <2>2, NoneAssumption DEF PersonaInv, StoreTypes, Id
  <2> QED
    BY <2>1, <2>2 DEF ImportIdentity, ImportReceipt
<1>5. receipt' \subseteq Id /\ receipt \subseteq receipt'
  BY <1>2 DEF PersonaInv, StoreTypes, ImportIdentity, ImportReceipt
<1>6. StoreTypes' /\ StoreOK' /\ Kept /\ BI(persona') = BI(persona)
  <2>1. created \in Nat
    BY PersonaBoundAssumption DEF PersonaInv, StoreTypes
  <2> QED
    BY <1>1, <1>4, <1>5, <2>1 DEF PersonaInv, StoreTypes, StoreOK, Kept
<1>7. PICK v : v = [proc[t] EXCEPT !.pc = pc]
  OBVIOUS
<1>8. v \in Local /\ v.pc = pc /\ v.id = proc[t].id
  BY <1>2, <1>7 DEF Local, PC
<1>9. Held(v)' /\ v.pc \notin MePC
  BY <1>2, <1>8 DEF Held, LocalInv, MePC, HoldPC
<1>10. proc' = [proc EXCEPT ![t] = v]
  BY <1>3, <1>7 DEF Goto
<1>11. PersonaInv'
  BY <1>6, <1>9, <1>10, ProcessMoves
<1> QED
  BY <1>6, <1>9, <1>10, <1>11 DEF Plain

\* ImportLink: the linked copy is as built in as the persona.
LEMMA ImportLinkStep ==
    ASSUME PersonaInv, NEW t \in Process, ImportLink(t)
    PROVE  PersonaInv' /\ Plain(t)
<1>1. UNCHANGED personaStore /\ requests' \in 0..MaxRequests /\ proc[t].pc = "import_link"
  BY DEF ImportLink, ProcAt, PersonaInv, StoreTypes
<1>2. proc[t] \in Local /\ proc[t].id \in Id /\ proc[t].p \in PersonaId \cup {None}
  BY <1>1 DEF PersonaInv, Held, LocalInv, ImportPC, Local
<1>3. CASE Imported(t) \/ Failed(t)
  <2>1. PICK v : proc' = [proc EXCEPT ![t] = v] /\ AtRow(v)
    BY <1>3, SettledValue
  <2>2. Held(v) /\ v.pc \notin MePC
    BY <2>1, AtRowHeld DEF Held
  <2>3. PersonaInv' /\ BI(persona') = BI(persona)
    BY <1>1, <2>1, <2>2, ProcessReads
  <2> QED
    BY <2>1, <2>2, <2>3 DEF Plain
<1>4. CASE /\ proc[t].p # None /\ persona[proc[t].p] # None
           /\ Goto(t, [proc[t] EXCEPT !.pc = "patch_write",
                               !.rec = Patched(persona[proc[t].p],
                                               [kind |-> "link", arg |-> proc[t].id])])
  <2>1. PICK i, patch, rec : /\ i = proc[t].p /\ patch = [kind |-> "link", arg |-> proc[t].id]
                             /\ rec = Patched(persona[i], patch)
    OBVIOUS
  <2>2. patch \in Patch /\ i \in PersonaId /\ persona[i] # None
    BY <1>2, <1>4, <2>1 DEF Patch
  <2>3. /\ persona[i] \in Record /\ i \in 1..created
        /\ persona[i].built_in <=> i \in BI(persona)
    BY <2>2, FoundPersona
  <2>4. rec \in Record /\ rec.built_in = persona[i].built_in
    BY <2>1, <2>2, <2>3, PatchedFacts
  <2>5. PICK v : v = [proc[t] EXCEPT !.pc = "patch_write", !.rec = rec]
    OBVIOUS
  <2>6. v \in Local /\ v.pc = "patch_write" /\ v.p = i /\ v.rec = rec
    BY <1>2, <2>1, <2>4, <2>5 DEF Local, PC
  <2>7. Held(v) /\ v.pc \notin MePC
    BY <2>3, <2>4, <2>6 DEF Held, LocalInv, MePC, HoldPC, ImportPC
  <2>8. proc' = [proc EXCEPT ![t] = v]
    BY <1>4, <2>1, <2>5 DEF Goto
  <2>9. PersonaInv' /\ BI(persona') = BI(persona)
    BY <1>1, <2>7, <2>8, ProcessReads
  <2> QED
    BY <2>7, <2>8, <2>9 DEF Plain
<1> QED
  BY <1>3, <1>4 DEF ImportLink

(***************************************************************************)
(* A store access that fails.                                              *)
(***************************************************************************)
LEMMA ProcFailStep ==
    ASSUME PersonaInv, NEW t \in Process, ProcFail(t)
    PROVE  PersonaInv' /\ Plain(t)
<1>1. UNCHANGED personaStore /\ requests' \in 0..MaxRequests
  BY DEF ProcFail, PersonaInv, StoreTypes
<1>2. PICK v : proc' = [proc EXCEPT ![t] = v] /\ AtRow(v)
  BY SettledValue DEF ProcFail
<1>3. Held(v) /\ v.pc \notin MePC
  BY <1>2, AtRowHeld DEF Held
<1>4. PersonaInv' /\ BI(persona') = BI(persona)
  BY <1>1, <1>2, <1>3, ProcessReads
<1> QED
  BY <1>2, <1>3, <1>4 DEF Plain

(***************************************************************************)
(* The re-issue of the node's card.                                        *)
(***************************************************************************)
LEMMA ReissueReadStep ==
    ASSUME PersonaInv, NEW t \in Process, ReissueRead(t)
    PROVE  PersonaInv' /\ Plain(t)
<1>1. PICK n \in Name : Goto(t, [Idle EXCEPT !.pc = "reissue_identity", !.name = n])
  BY DEF ReissueRead
<1>2. PICK v : v = [Idle EXCEPT !.pc = "reissue_identity", !.name = n]
  OBVIOUS
<1>3. v \in Local /\ v.pc = "reissue_identity" /\ v.name = n
  BY <1>2 DEF Idle, Local, PC
<1>4. Held(v) /\ v.pc \notin MePC
  BY <1>3 DEF Held, LocalInv, MePC, HoldPC, ImportPC
<1>5. proc' = [proc EXCEPT ![t] = v]
  BY <1>1, <1>2 DEF Goto
<1>6. UNCHANGED personaStore /\ requests' \in 0..MaxRequests
  BY BeginsBound DEF ReissueRead
<1>7. PersonaInv' /\ BI(persona') = BI(persona)
  BY <1>4, <1>5, <1>6, ProcessReads
<1> QED
  BY <1>4, <1>5, <1>7 DEF Plain

\* A name is written on the node's Identity.
LEMMA NamedStore ==
    ASSUME PersonaInv, NEW n \in Name, identity' = [identity EXCEPT ![Self] = n],
           UNCHANGED <<persona, created, receipt, node_fp, card, inbox, requests>>
    PROVE  StoreTypes' /\ StoreOK' /\ Kept /\ BI(persona') = BI(persona) /\ identity'[Self] # None
<1>1. created \in Nat
  BY PersonaBoundAssumption DEF PersonaInv, StoreTypes
<1>2. identity' \in [Id -> Name \cup {None}] /\ identity'[Self] = n /\ n # None
  BY NoneAssumption DEF PersonaInv, StoreTypes, Id
<1> QED
  BY <1>1, <1>2 DEF PersonaInv, StoreTypes, StoreOK, Kept

\* ReissueIdentity.
LEMMA ReissueIdentityStep ==
    ASSUME PersonaInv, NEW t \in Process, ReissueIdentity(t)
    PROVE  PersonaInv' /\ Plain(t)
<1>1. PICK n : n = proc[t].name
  OBVIOUS
<1>2. proc[t] \in Local /\ n \in Name
  BY <1>1 DEF ReissueIdentity, ProcAt, PersonaInv, Held, LocalInv
<1>3. StoreTypes' /\ StoreOK' /\ Kept /\ BI(persona') = BI(persona)
  <2>1. /\ identity' = [identity EXCEPT ![Self] = n]
        /\ UNCHANGED <<persona, created, receipt, node_fp, card, inbox, requests>>
    BY <1>1 DEF ReissueIdentity, ProcAt
  <2> QED
    BY <1>2, <2>1, NamedStore
<1>4. PICK v : v = [proc[t] EXCEPT !.pc = "reissue_find"]
  OBVIOUS
<1>5. v \in Local /\ v.pc = "reissue_find" /\ v.name = n
  BY <1>1, <1>2, <1>4 DEF Local, PC
<1>6. Held(v)' /\ v.pc \notin MePC
  BY <1>2, <1>5 DEF Held, LocalInv, MePC, HoldPC, ImportPC
<1>7. proc' = [proc EXCEPT ![t] = v]
  BY <1>4 DEF ReissueIdentity, Goto
<1>8. PersonaInv'
  BY <1>3, <1>6, <1>7, ProcessMoves
<1> QED
  BY <1>3, <1>6, <1>7, <1>8 DEF Plain

\* ReissueFindMe: the renamed copy is as built in as the persona.
LEMMA ReissueFindMeStep ==
    ASSUME PersonaInv, NEW t \in Process, ReissueFindMe(t)
    PROVE  PersonaInv' /\ Plain(t)
<1>1. UNCHANGED personaStore /\ requests' \in 0..MaxRequests /\ proc[t].pc = "reissue_find"
  BY DEF ReissueFindMe, ProcAt, PersonaInv, StoreTypes
<1>2. PICK n : n = proc[t].name
  OBVIOUS
<1>3. n \in Name
  BY <1>1, <1>2 DEF PersonaInv, Held, LocalInv
<1>4. CASE ProcDone(t)
  <2>1. PICK v : proc' = [proc EXCEPT ![t] = v] /\ AtRow(v)
    BY <1>4, SettledValue
  <2>2. Held(v) /\ v.pc \notin MePC
    BY <2>1, AtRowHeld DEF Held
  <2>3. PersonaInv' /\ BI(persona') = BI(persona)
    BY <1>1, <2>1, <2>2, ProcessReads
  <2> QED
    BY <2>1, <2>2, <2>3 DEF Plain
<1>5. CASE \E i \in PersonaId : /\ persona[i] # None
                               /\ Goto(t, [Idle EXCEPT !.pc = "reissue_write", !.p = i,
                                             !.rec = [persona[i] EXCEPT !.name = n]])
  <2>1. PICK i \in PersonaId : /\ persona[i] # None
                               /\ Goto(t, [Idle EXCEPT !.pc = "reissue_write", !.p = i,
                                             !.rec = [persona[i] EXCEPT !.name = n]])
    BY <1>5
  <2>2. /\ persona[i] \in Record /\ i \in 1..created
        /\ persona[i].built_in <=> i \in BI(persona)
    BY <2>1, FoundPersona
  <2>3. PICK rec : rec = [persona[i] EXCEPT !.name = n]
    OBVIOUS
  <2>4. rec \in Record /\ rec.built_in = persona[i].built_in
    BY <1>3, <2>2, <2>3 DEF Record
  <2>5. PICK v : v = [Idle EXCEPT !.pc = "reissue_write", !.p = i, !.rec = rec]
    OBVIOUS
  <2>6. v \in Local /\ v.pc = "reissue_write" /\ v.p = i /\ v.rec = rec
    BY <2>4, <2>5 DEF Idle, Local, PC
  <2>7. Held(v) /\ v.pc \notin MePC
    BY <2>2, <2>4, <2>6 DEF Held, LocalInv, MePC, HoldPC, ImportPC
  <2>8. proc' = [proc EXCEPT ![t] = v]
    BY <2>1, <2>3, <2>5 DEF Goto
  <2>9. PersonaInv' /\ BI(persona') = BI(persona)
    BY <1>1, <2>7, <2>8, ProcessReads
  <2> QED
    BY <2>7, <2>8, <2>9 DEF Plain
<1> QED
  BY <1>2, <1>4, <1>5 DEF ReissueFindMe

(***************************************************************************)
(* The bootstrap of Me.                                                    *)
(***************************************************************************)
\* A step of t that goes on with the bootstrap, past its probe only if there
\* is no Me.
GoesOn(t) ==
    /\ proc[t].pc \in MePC /\ BI(persona') = BI(persona)
    /\ proc[t].pc = "me_probe" => BI(persona) = {}
    /\ \E v : proc' = [proc EXCEPT ![t] = v] /\ v.pc \in MePC

\* A step of t that begins it.
Starts(t) ==
    /\ "card" \in Does[t] /\ proc[t].pc = "idle" /\ proc[Boot].pc = "idle"
    /\ BI(persona') = BI(persona)
    /\ \E v : proc' = [proc EXCEPT ![t] = v] /\ v.pc = "me_probe"

\* A step of t that ends it.
Finishes(t) ==
    /\ proc[t].pc = "me_persona" /\ proc' = [proc EXCEPT ![t] = Idle]
    /\ \E i : BI(persona') = BI(persona) \cup {i}

\* SaveCard begins the bootstrap.
LEMMA SaveCardStep ==
    ASSUME PersonaInv, NEW t \in Process, SaveCard(t)
    PROVE  PersonaInv' /\ Starts(t)
<1>1. PICK n \in Name : card' = n /\ Goto(t, [Idle EXCEPT !.pc = "me_probe", !.name = n])
  BY DEF SaveCard
<1>2. PICK v : v = [Idle EXCEPT !.pc = "me_probe", !.name = n]
  OBVIOUS
<1>3. v \in Local /\ v.pc = "me_probe" /\ v.name = n
  BY <1>2 DEF Idle, Local, PC
<1>4. Held(v)'
  BY <1>3 DEF Held, LocalInv, MePC, HoldPC, ImportPC
<1>5. proc' = [proc EXCEPT ![t] = v]
  BY <1>1, <1>2 DEF Goto
<1>6. UNCHANGED <<persona, created, identity, receipt, node_fp, inbox>> /\ requests' \in 0..MaxRequests
  BY BeginsBound DEF SaveCard
<1>7. created \in Nat
  BY PersonaBoundAssumption DEF PersonaInv, StoreTypes
<1>8. StoreTypes' /\ StoreOK' /\ Kept
  BY <1>1, <1>6, <1>7 DEF PersonaInv, StoreTypes, StoreOK, Kept
<1>9. PersonaInv'
  BY <1>4, <1>5, <1>8, ProcessMoves
<1> QED
  BY <1>3, <1>5, <1>6, <1>9 DEF Starts, SaveCard, Begins

\* What the bootstrap holds as it goes on to pc.
LEMMA MeValue ==
    ASSUME PersonaInv, NEW t \in Process, proc[t].pc \in MePC, NEW pc \in MePC
    PROVE  LET v == [proc[t] EXCEPT !.pc = pc] IN
           v \in Local /\ v.pc = pc /\ v.name \in Name
<1>1. proc[t] \in Local /\ proc[t].name \in Name
  BY DEF PersonaInv, Held, LocalInv
<1> QED
  BY <1>1 DEF Local, PC, MePC

\* MeProbe ends it, or goes on if there is no Me.
LEMMA MeProbeStep ==
    ASSUME PersonaInv, NEW t \in Process, MeProbe(t)
    PROVE  PersonaInv' /\ (Plain(t) \/ GoesOn(t))
<1>1. UNCHANGED personaStore /\ requests' \in 0..MaxRequests /\ proc[t].pc = "me_probe"
  BY DEF MeProbe, ProcAt, PersonaInv, StoreTypes
<1>2. CASE ProcDone(t)
  <2>1. PICK v : proc' = [proc EXCEPT ![t] = v] /\ AtRow(v)
    BY <1>2, SettledValue
  <2>2. Held(v) /\ v.pc \notin MePC
    BY <2>1, AtRowHeld DEF Held
  <2>3. PersonaInv' /\ BI(persona') = BI(persona)
    BY <1>1, <2>1, <2>2, ProcessReads
  <2> QED
    BY <2>1, <2>2, <2>3 DEF Plain
<1>3. CASE BI(persona) = {} /\ Goto(t, [proc[t] EXCEPT !.pc = "me_identity"])
  <2>1. PICK v : v = [proc[t] EXCEPT !.pc = "me_identity"]
    OBVIOUS
  <2>2. v \in Local /\ v.pc = "me_identity" /\ v.name \in Name
    BY <1>1, <2>1, MeValue DEF MePC
  <2>3. Held(v)
    BY <2>2 DEF Held, LocalInv, HoldPC, ImportPC
  <2>4. proc' = [proc EXCEPT ![t] = v]
    BY <1>3, <2>1 DEF Goto
  <2>5. PersonaInv' /\ BI(persona') = BI(persona)
    BY <1>1, <2>3, <2>4, ProcessReads
  <2> QED
    BY <1>1, <1>3, <2>2, <2>4, <2>5 DEF GoesOn, MePC
<1> QED
  BY <1>2, <1>3 DEF MeProbe, BI

\* MeIdentity.
LEMMA MeIdentityStep ==
    ASSUME PersonaInv, NEW t \in Process, MeIdentity(t)
    PROVE  PersonaInv' /\ GoesOn(t)
<1>1. proc[t].pc = "me_identity" /\ UNCHANGED <<persona, created, receipt, node_fp, card, inbox, requests>>
  BY DEF MeIdentity, ProcAt
<1>2. PICK n : n = proc[t].name
  OBVIOUS
<1>3. n \in Name
  BY <1>1, <1>2 DEF PersonaInv, Held, LocalInv, MePC
<1>4. StoreTypes' /\ StoreOK' /\ Kept /\ BI(persona') = BI(persona) /\ identity'[Self] # None
  <2>1. identity' = [identity EXCEPT ![Self] = n]
    BY <1>2 DEF MeIdentity
  <2> QED
    BY <1>1, <1>3, <2>1, NamedStore
<1>5. PICK v : v = [proc[t] EXCEPT !.pc = "me_fp"]
  OBVIOUS
<1>6. v \in Local /\ v.pc = "me_fp" /\ v.name \in Name
  BY <1>1, <1>5, MeValue DEF MePC
<1>7. Held(v)'
  BY <1>4, <1>6 DEF Held, LocalInv, HoldPC, ImportPC
<1>8. proc' = [proc EXCEPT ![t] = v]
  BY <1>5 DEF MeIdentity, Goto
<1>9. PersonaInv'
  BY <1>4, <1>7, <1>8, ProcessMoves
<1> QED
  BY <1>1, <1>4, <1>6, <1>8, <1>9 DEF GoesOn, MePC

\* MeFingerprint.
LEMMA MeFingerprintStep ==
    ASSUME PersonaInv, NEW t \in Process, MeFingerprint(t)
    PROVE  PersonaInv' /\ GoesOn(t)
<1>1. /\ proc[t].pc = "me_fp" /\ node_fp' = TRUE
      /\ UNCHANGED <<persona, created, identity, receipt, card, inbox, requests>>
  BY DEF MeFingerprint, ProcAt
<1>2. created \in Nat /\ identity[Self] # None
  BY <1>1, PersonaBoundAssumption DEF PersonaInv, StoreTypes, Held, LocalInv
<1>3. StoreTypes' /\ StoreOK' /\ Kept /\ BI(persona') = BI(persona)
  BY <1>1, <1>2 DEF PersonaInv, StoreTypes, StoreOK, Kept
<1>4. PICK v : v = [proc[t] EXCEPT !.pc = "me_receipt"]
  OBVIOUS
<1>5. v \in Local /\ v.pc = "me_receipt" /\ v.name \in Name
  BY <1>1, <1>4, MeValue DEF MePC
<1>6. Held(v)'
  BY <1>1, <1>2, <1>5 DEF Held, LocalInv, HoldPC, ImportPC
<1>7. proc' = [proc EXCEPT ![t] = v]
  BY <1>4 DEF MeFingerprint, Goto
<1>8. PersonaInv'
  BY <1>3, <1>6, <1>7, ProcessMoves
<1> QED
  BY <1>1, <1>3, <1>5, <1>7, <1>8 DEF GoesOn, MePC

\* MeReceipt.
LEMMA MeReceiptStep ==
    ASSUME PersonaInv, NEW t \in Process, MeReceipt(t)
    PROVE  PersonaInv' /\ GoesOn(t)
<1>1. /\ proc[t].pc = "me_receipt" /\ receipt' = receipt \cup {Self}
      /\ UNCHANGED <<persona, created, identity, node_fp, card, inbox, requests>>
  BY DEF MeReceipt, ProcAt
<1>2. created \in Nat /\ identity[Self] # None /\ node_fp
  BY <1>1, PersonaBoundAssumption DEF PersonaInv, StoreTypes, Held, LocalInv
<1>3. StoreTypes' /\ StoreOK' /\ Kept /\ BI(persona') = BI(persona)
  BY <1>1, <1>2 DEF PersonaInv, StoreTypes, StoreOK, Kept, Id
<1>4. PICK v : v = [proc[t] EXCEPT !.pc = "me_persona"]
  OBVIOUS
<1>5. v \in Local /\ v.pc = "me_persona" /\ v.name \in Name
  BY <1>1, <1>4, MeValue DEF MePC
<1>6. Held(v)'
  BY <1>1, <1>2, <1>5 DEF Held, LocalInv, HoldPC, ImportPC
<1>7. proc' = [proc EXCEPT ![t] = v]
  BY <1>4 DEF MeReceipt, Goto
<1>8. PersonaInv'
  BY <1>3, <1>6, <1>7, ProcessMoves
<1> QED
  BY <1>1, <1>3, <1>5, <1>7, <1>8 DEF GoesOn, MePC

\* MePersona: by now the Identity, the fingerprint and the receipt are there.
LEMMA MePersonaStep ==
    ASSUME PersonaInv, NEW t \in Process, MePersona(t)
    PROVE  PersonaInv' /\ Finishes(t)
<1>1. /\ proc[t].pc = "me_persona" /\ proc' = [proc EXCEPT ![t] = Idle]
      /\ UNCHANGED <<identity, receipt, node_fp, card, inbox, requests>>
  BY DEF MePersona, ProcAt, ProcDone, Goto
<1>2. PICK rec : rec = [seeds |-> {NodeFp}, excluded |-> {}, identity |-> Self,
                        confirmed |-> TRUE, built_in |-> TRUE, name |-> proc[t].name]
  OBVIOUS
<1>3. proc[t].name \in Name /\ identity[Self] # None /\ Self \in receipt /\ node_fp
  BY <1>1 DEF PersonaInv, Held, LocalInv, MePC
<1>4. rec \in Record /\ rec.built_in = TRUE
  BY <1>2, <1>3 DEF Record, Id
<1>5. Create(rec)
  BY <1>2 DEF MePersona
<1>6. requests' \in 0..MaxRequests
  BY <1>1 DEF PersonaInv, StoreTypes
<1>7. StoreTypes' /\ StoreOK' /\ Kept /\ BI(persona') = BI(persona) \cup {created + 1}
  BY <1>1, <1>3, <1>4, <1>5, <1>6, CreateKeeps
<1>8. AtRow(Idle)
  BY IdleFacts DEF AtRow
<1>9. PICK v : v = Idle
  OBVIOUS
<1>10. Held(v)'
  BY <1>8, <1>9, AtRowHeld DEF Held
<1>11. PersonaInv'
  BY <1>1, <1>7, <1>9, <1>10, ProcessMoves
<1> QED
  BY <1>1, <1>7, <1>11 DEF Finishes

(***************************************************************************)
(* The process dies, and the node starts again.                            *)
(***************************************************************************)
LEMMA CrashStep ==
    ASSUME PersonaInv, Crash
    PROVE  /\ PersonaInv' /\ BI(persona') = BI(persona)
           /\ \A t \in Process : proc'[t].pc = "idle" \/ (t = Boot /\ proc'[t].pc = "me_probe")
<1>1. UNCHANGED <<persona, created, identity, receipt, node_fp, card, inbox, requests>>
  BY DEF Crash, personaStore
<1>2. PICK v : v = [Idle EXCEPT !.pc = "me_probe", !.name = card]
  OBVIOUS
<1>3. PICK begun \in BOOLEAN :
        proc' = [t \in Process |-> IF t = Boot /\ card # None /\ begun THEN v ELSE Idle]
  BY <1>2 DEF Crash
<1>4. card # None => v \in Local /\ v.pc = "me_probe" /\ v.name \in Name
  BY <1>2 DEF PersonaInv, StoreTypes, Idle, Local, PC
<1>5. card # None => Held(v)
  BY <1>4 DEF Held, LocalInv, HoldPC, ImportPC, MePC
<1>6. Held(Idle) /\ Idle.pc = "idle"
  BY IdleFacts, AtRowHeld DEF AtRow, Held
<1>7. \A t \in Process : Held(proc'[t])
  BY <1>3, <1>5, <1>6
<1>8. \A t \in Process : Held(proc[t])'
  BY <1>1, <1>7 DEF Held
<1>9. StoreTypes' /\ StoreOK'
  BY <1>1 DEF PersonaInv, StoreTypes, StoreOK
<1>10. proc' = [t \in Process |-> proc'[t]]
  BY <1>3
<1>11. \A t \in Process : proc'[t].pc = "idle" \/ (t = Boot /\ proc'[t].pc = "me_probe")
  BY <1>3, <1>4, <1>6
<1> QED
  BY <1>1, <1>8, <1>9, <1>10, <1>11 DEF PersonaInv

(***************************************************************************)
(* The steps of a task, and all steps, with regard to the bootstrap.       *)
(***************************************************************************)
LEMMA PersonaTaskStep ==
    ASSUME PersonaInv, NEW t \in Process, Personas(t) \/ Me(t) \/ Cards(t) \/ ProcFail(t)
    PROVE  /\ PersonaInv'
           /\ \/ Plain(t) \/ GoesOn(t) \/ Starts(t) \/ Finishes(t)
              \/ (BI(persona') = BI(persona) /\ proc' = proc)
<1>1. CASE Personas(t)
  BY <1>1, PatchReadStep, PatchWriteStep, DeleteReadStep, DeleteWriteStep, MergeReadSurvivorStep,
     MergeReadAbsorbedStep, MergeWriteStep, MergeDeleteStep, AcceptSuggestedStep DEF Personas
<1>2. CASE Me(t)
  BY <1>2, SaveCardStep, MeProbeStep, MeIdentityStep, MeFingerprintStep, MeReceiptStep,
     MePersonaStep, ReissueReadStep, ReissueIdentityStep, ReissueFindMeStep, ReissueMeNameStep DEF Me
<1>3. CASE Cards(t)
  BY <1>3, ImportPasteStep, AcceptRowStep, ImportProbeStep, ImportWriteStep, ImportLinkStep,
     RowStep, DismissReadStep DEF Cards
<1>4. CASE ProcFail(t)
  BY <1>4, ProcFailStep
<1> QED
  BY <1>1, <1>2, <1>3, <1>4

\* Nothing is stored and nobody works at first.
LEMMA PersonaStart ==
    ASSUME PersonaInit
    PROVE  PersonaInv /\ BI(persona) = {} /\ \A t \in Process : proc[t].pc = "idle"
<1>1. BI(persona) = {}
  BY DEF PersonaInit, BI
<1>2. /\ persona \in [PersonaId -> Record \cup {None}] /\ identity \in [Id -> Name \cup {None}]
      /\ \A i \in PersonaId : persona[i] = None
  BY DEF PersonaInit
<1>3. inbox \in [Message -> Row]
  BY DEF PersonaInit, Row
<1>4. StoreTypes
  <2>1. 0 \in 0..MaxPersonas /\ 0 \in 0..MaxRequests
    BY PersonaBoundAssumption
  <2>2. /\ created = 0 /\ receipt = {} /\ node_fp = FALSE /\ card = None /\ requests = 0
    BY DEF PersonaInit
  <2> QED
    BY <1>2, <1>3, <2>1, <2>2 DEF StoreTypes
<1>5. StoreOK
  BY <1>1, <1>2 DEF StoreOK
<1>6. Held(Idle) /\ Idle.pc = "idle"
  BY IdleFacts, AtRowHeld DEF AtRow, Held
<1>7. proc = [t \in Process |-> Idle]
  BY DEF PersonaInit
<1> QED
  BY <1>1, <1>4, <1>5, <1>6, <1>7 DEF PersonaInv

\* Every step keeps the invariant.
LEMMA PersonaStep ==
    ASSUME PersonaInv, [PersonaNext]_personaVars
    PROVE  PersonaInv'
<1>1. CASE PersonaNext
  BY <1>1, PersonaTaskStep, DeliverStep, AutoCreateStep, CrashStep DEF PersonaNext
<1>2. CASE UNCHANGED personaVars
  BY <1>2 DEF personaVars, personaStore, PersonaInv, StoreTypes, StoreOK, Held
<1> QED
  BY <1>1, <1>2

(***************************************************************************)
(* The persona store is well typed, and what each task holds between two   *)
(* accesses agrees with it on what may not change: which personas are      *)
(* built in, which ids are taken, and what Me stands on.                   *)
(***************************************************************************)
THEOREM PersonaInvariant == PersonaSpec => []PersonaInv
BY PersonaStart, PersonaStep, PTL DEF PersonaSpec

\* The records, the inbox and what the tasks hold are well typed.
THEOREM PersonaTypes == PersonaSpec => []PersonaTypeOK
<1>1. ASSUME PersonaInv PROVE PersonaTypeOK
  <2>1. \A t \in Process : proc[t] \in Local
    BY <1>1 DEF PersonaInv, Held, LocalInv
  <2>2. proc \in [Process -> Local]
    BY <1>1, <2>1 DEF PersonaInv
  <2> QED
    BY <1>1, <2>2 DEF PersonaInv, StoreTypes, PersonaTypeOK
<1> QED
  BY <1>1, PersonaInvariant, PTL

(***************************************************************************)
(* One Me.                                                                 *)
(***************************************************************************)
\* One task at a time saves the node's card.
OneCardSaver ==
    \A t, u \in Process : "card" \in Does[t] /\ "card" \in Does[u] => t = u

\* Who bootstraps Me does it alone, and past its probe there is no Me.
MeInv ==
    /\ \A t \in Process : proc[t].pc \in MePC => t = Boot \/ "card" \in Does[t]
    /\ \A t, u \in Process : proc[t].pc \in MePC /\ proc[u].pc \in MePC => t = u
    /\ \A t \in Process : proc[t].pc \in MePC \ {"me_probe"} => BI(persona) = {}
    /\ \A i, j \in BI(persona) : i = j

\* The four ways a task may move keep the bootstrap alone.
LEMMA MeInvTask ==
    ASSUME OneCardSaver, PersonaInv, MeInv, NEW t \in Process,
           \/ Plain(t) \/ GoesOn(t) \/ Starts(t) \/ Finishes(t)
           \/ (BI(persona') = BI(persona) /\ proc' = proc)
    PROVE  MeInv'
<1> DEFINE Moved(v) == \A u \in Process : proc'[u] = IF u = t THEN v ELSE proc[u]
<1>1. ASSUME NEW v, proc' = [proc EXCEPT ![t] = v] PROVE Moved(v)
  <2>1. proc = [u \in Process |-> proc[u]]
    BY DEF PersonaInv
  <2>2. proc' = [u \in Process |-> IF u = t THEN v ELSE proc[u]]
    BY <1>1, <2>1
  <2> QED
    BY <2>2
<1>2. CASE Plain(t)
  <2>1. PICK v : Moved(v) /\ v.pc \notin MePC /\ BI(persona') = BI(persona)
    BY <1>1, <1>2 DEF Plain
  <2> QED
    BY <2>1 DEF MeInv
<1>3. CASE GoesOn(t)
  <2>1. PICK v : /\ Moved(v) /\ v.pc \in MePC /\ BI(persona') = BI(persona)
                 /\ proc[t].pc \in MePC /\ (proc[t].pc = "me_probe" => BI(persona) = {})
    BY <1>1, <1>3 DEF GoesOn
  <2>2. BI(persona) = {}
    BY <2>1 DEF MeInv
  <2> QED
    BY <2>1, <2>2 DEF MeInv
<1>4. CASE Starts(t)
  <2>1. PICK v : /\ Moved(v) /\ v.pc = "me_probe" /\ BI(persona') = BI(persona)
                 /\ "card" \in Does[t] /\ proc[t].pc = "idle" /\ proc[Boot].pc = "idle"
    BY <1>1, <1>4 DEF Starts
  <2>2. \A u \in Process : proc[u].pc \notin MePC
    BY <2>1 DEF MeInv, OneCardSaver, MePC
  <2> QED
    BY <2>1, <2>2 DEF MeInv, MePC
<1>5. CASE Finishes(t)
  <2>1. PICK i : /\ Moved(Idle) /\ proc[t].pc = "me_persona"
                 /\ BI(persona') = BI(persona) \cup {i}
    BY <1>1, <1>5 DEF Finishes
  <2>2. BI(persona) = {} /\ \A u \in Process : u # t => proc[u].pc \notin MePC
    BY <2>1 DEF MeInv, MePC
  <2>3. Idle.pc \notin MePC
    BY IdleFacts DEF MePC
  <2>4. \A u \in Process : proc'[u].pc \notin MePC
    BY <2>1, <2>2, <2>3
  <2> QED
    BY <2>1, <2>2, <2>4 DEF MeInv
<1>6. CASE BI(persona') = BI(persona) /\ proc' = proc
  BY <1>6 DEF MeInv
<1> QED
  BY <1>2, <1>3, <1>4, <1>5, <1>6

\* And so does every step; after a crash only the start bootstraps.
LEMMA MeInvStep ==
    ASSUME OneCardSaver, PersonaInv, MeInv, [PersonaNext]_personaVars
    PROVE  MeInv'
<1>1. CASE \E t \in Process : Personas(t) \/ Me(t) \/ Cards(t) \/ ProcFail(t)
  BY <1>1, PersonaTaskStep, MeInvTask
<1>2. CASE AutoCreate \/ (\E m \in Message : Deliver(m)) \/ UNCHANGED personaVars
  <2>1. BI(persona') = BI(persona) /\ proc' = proc
    BY <1>2, AutoCreateStep, DeliverStep DEF personaVars, personaStore
  <2> QED
    BY <2>1 DEF MeInv
<1>3. CASE Crash
  <2>1. BI(persona') = BI(persona)
        /\ \A t \in Process : proc'[t].pc = "idle" \/ (t = Boot /\ proc'[t].pc = "me_probe")
    BY <1>3, CrashStep
  <2>2. \A t \in Process : proc'[t].pc \in MePC => t = Boot /\ proc'[t].pc = "me_probe"
    BY <2>1 DEF MePC
  <2> QED
    BY <2>1, <2>2 DEF MeInv
<1> QED
  BY <1>1, <1>2, <1>3 DEF PersonaNext

(***************************************************************************)
(* However often the bootstrap is begun again, and wherever it fails or    *)
(* dies, a node has one Me, with everything it stands on, as long as one   *)
(* task at a time saves the card.                                          *)
(***************************************************************************)
THEOREM MeCorrect ==
    ASSUME OneCardSaver
    PROVE  PersonaSpec => []MeSound
<1>1. PersonaInit => MeInv
  <2>1. SUFFICES ASSUME PersonaInit PROVE MeInv
    OBVIOUS
  <2>2. BI(persona) = {} /\ \A t \in Process : proc[t].pc = "idle"
    BY <2>1, PersonaStart
  <2> QED
    BY <2>2 DEF MeInv, MePC
<1>2. PersonaInv /\ MeInv /\ [PersonaNext]_personaVars => MeInv'
  BY MeInvStep
<1>3. PersonaInv /\ MeInv => MeSound
  <2>1. SUFFICES ASSUME PersonaInv, MeInv PROVE MeSound
    OBVIOUS
  <2>2. BuiltIn = BI(persona) /\ \A i, j \in BuiltIn : i = j
    BY <2>1 DEF BuiltIn, BI, MeInv
  <2>3. Cardinality(BuiltIn) <= 1
    <3>1. CASE BuiltIn = {}
      BY <3>1, FS_EmptySet
    <3>2. CASE BuiltIn # {}
      <4>1. PICK i : i \in BuiltIn
        BY <3>2
      <4>2. BuiltIn = {i}
        BY <2>2, <4>1
      <4> QED
        BY <4>2, FS_Singleton
    <3> QED
      BY <3>1, <3>2
  <2> QED
    BY <2>1, <2>2, <2>3 DEF MeSound, PersonaInv, StoreOK
<1> QED
  BY <1>1, <1>2, <1>3, PersonaInvariant, PTL DEF PersonaSpec

-----------------------------------------------------------------------------
(* A merge loses nothing.                                                  *)

\* One task at a time edits personas.
Edits(t) == Does[t] \cap {"patch", "delete", "merge", "reissue", "link"} # {}
OneEditor == \A t, u \in Process : Edits(t) /\ Edits(u) => t = u

\* a knows what b knows.
Covers(a, b) ==
    /\ b.seeds \subseteq a.seeds /\ b.excluded \subseteq a.excluded
    /\ b.identity # None => a.identity = b.identity

EditPC == HoldPC \cup {"delete_write", "merge_delete"}

\* Only a task that may edit personas is about to write one.
Entitled(l, t) ==
    /\ l.pc \in EditPC \cup {"reissue_identity", "reissue_find"} => Edits(t)
    /\ l.pc \in ImportPC /\ l.p # None => Edits(t)

\* What a task is going to write is what the persona knows, or more; and what a
\* merge deletes is known to another persona.
Fresh(l, ps) ==
    /\ l.pc \in HoldPC => ps[l.p] # None
    /\ l.pc = "patch_write" => ps[l.p].seeds \subseteq l.rec.seeds
    /\ l.pc \in {"merge_read", "reissue_write", "merge_write"} => Covers(l.rec, ps[l.p])
    /\ l.pc \in {"merge_read", "merge_write"} => l.p # l.q /\ l.q \in PersonaId
    /\ l.pc = "merge_write" => ps[l.q] # None /\ Covers(l.rec, ps[l.q])
    /\ l.pc = "merge_delete" =>
        \E i \in PersonaId : i # l.q /\ ps[i] # None /\ Covers(ps[i], ps[l.q])

EditInv == \A t \in Process : Entitled(proc[t], t) /\ Fresh(proc[t], persona)

\* What a step may lose, and when.
LosesNothing ==
    /\ ~ Known("seeds") \subseteq Known("seeds")' => Ends("delete_write")
    /\ (~ Known("excluded") \subseteq Known("excluded")' \/ ~ Linked \subseteq Linked')
         => Ends("delete_write") \/ Ends("patch_write")

\* Every persona lives on in one that knows as much.
SeedsLiveOn ==
    \A k \in PersonaId : persona[k] # None =>
        \E j \in PersonaId : persona'[j] # None /\ persona[k].seeds \subseteq persona'[j].seeds
LivesOn ==
    \A k \in PersonaId : persona[k] # None =>
        \E j \in PersonaId : persona'[j] # None /\ Covers(persona'[j], persona[k])

\* Then no seed is lost.
LEMMA SeedsKnown ==
    ASSUME SeedsLiveOn
    PROVE  Known("seeds") \subseteq Known("seeds")'
<1>1. SUFFICES ASSUME NEW x \in Known("seeds") PROVE x \in Known("seeds")'
  OBVIOUS
<1>2. PICK k \in PersonaId : persona[k] # None /\ x \in persona[k].seeds
  BY DEF Known
<1>3. PICK j \in PersonaId : persona'[j] # None /\ x \in persona'[j].seeds
  BY <1>2 DEF SeedsLiveOn
<1> QED
  BY <1>3 DEF Known

\* Then nothing is lost.
LEMMA AllKnown ==
    ASSUME LivesOn
    PROVE  LosesNothing
<1>1. SeedsLiveOn
  BY DEF LivesOn, SeedsLiveOn, Covers
<1>2. Known("excluded") \subseteq Known("excluded")'
  <2>1. SUFFICES ASSUME NEW x \in Known("excluded") PROVE x \in Known("excluded")'
    OBVIOUS
  <2>2. PICK k \in PersonaId : persona[k] # None /\ x \in persona[k].excluded
    BY DEF Known
  <2>3. PICK j \in PersonaId : persona'[j] # None /\ x \in persona'[j].excluded
    BY <2>2 DEF LivesOn, Covers
  <2> QED
    BY <2>3 DEF Known
<1>3. Linked \subseteq Linked'
  <2>1. SUFFICES ASSUME NEW x \in Linked PROVE x \in Linked'
    OBVIOUS
  <2>2. PICK k \in PersonaId : persona[k] # None /\ x = persona[k].identity /\ x # None
    BY DEF Linked
  <2>3. PICK j \in PersonaId : persona'[j] # None /\ x = persona'[j].identity
    BY <2>2 DEF LivesOn, Covers
  <2> QED
    BY <2>2, <2>3 DEF Linked
<1> QED
  BY <1>1, <1>2, <1>3, SeedsKnown DEF LosesNothing

\* Nothing is lost where nothing is written.
LEMMA SameKnown ==
    ASSUME persona' = persona
    PROVE  LosesNothing
BY AllKnown DEF LivesOn, Covers

(***************************************************************************)
(* Steps of a task.                                                        *)
(***************************************************************************)
\* A value that neither holds nor imports a persona.
Quiet(v) == v.pc \notin EditPC \cup ImportPC \cup {"reissue_identity", "reissue_find"}

\* There is nothing to ask of it.
LEMMA QuietFresh ==
    ASSUME NEW v, NEW t, NEW ps, Quiet(v)
    PROVE  Entitled(v, t) /\ Fresh(v, ps)
BY DEF Quiet, Entitled, Fresh, EditPC, HoldPC

\* A task at a row, done or at the bootstrap is such.
LEMMA RowQuiet ==
    ASSUME NEW v, AtRow(v) \/ v.pc \in MePC
    PROVE  Quiet(v)
BY DEF AtRow, MePC, Quiet, EditPC, HoldPC, ImportPC

\* A task moves and leaves the personas alone.
LEMMA EditReads ==
    ASSUME PersonaInv, EditInv, NEW t \in Process, NEW v, proc' = [proc EXCEPT ![t] = v],
           persona' = persona, Entitled(v, t), Fresh(v, persona)
    PROVE  EditInv' /\ LosesNothing
<1>1. \A u \in Process : proc'[u] = IF u = t THEN v ELSE proc[u]
  BY DEF PersonaInv
<1>2. \A u \in Process : Entitled(proc'[u], u) /\ Fresh(proc'[u], persona')
  BY <1>1 DEF EditInv
<1> QED
  BY <1>2, SameKnown DEF EditInv

\* The same, to a place where it holds none.
LEMMA EditQuiet ==
    ASSUME PersonaInv, EditInv, NEW t \in Process, persona' = persona,
           \E v : proc' = [proc EXCEPT ![t] = v] /\ (AtRow(v) \/ v.pc \in MePC)
    PROVE  EditInv' /\ LosesNothing
<1>1. PICK v : proc' = [proc EXCEPT ![t] = v] /\ (AtRow(v) \/ v.pc \in MePC)
  OBVIOUS
<1>2. Entitled(v, t) /\ Fresh(v, persona)
  BY <1>1, RowQuiet, QuietFresh
<1> QED
  BY <1>1, <1>2, EditReads

\* The one editor writes: nobody else holds a persona.
LEMMA EditWrites ==
    ASSUME OneEditor, PersonaInv, EditInv, NEW t \in Process, Edits(t), NEW v,
           proc' = [proc EXCEPT ![t] = v], Entitled(v, t), Fresh(v, persona')
    PROVE  EditInv'
<1>1. \A u \in Process : proc'[u] = IF u = t THEN v ELSE proc[u]
  BY DEF PersonaInv
<1>2. ASSUME NEW u \in Process, u # t PROVE Entitled(proc'[u], u) /\ Fresh(proc'[u], persona')
  <2>1. proc'[u] = proc[u] /\ Entitled(proc[u], u) /\ ~ Edits(u)
    BY <1>1, <1>2 DEF EditInv, OneEditor
  <2>2. proc[u].pc \notin EditPC
    BY <2>1 DEF Entitled
  <2>3. Fresh(proc[u], persona')
    BY <2>2 DEF Fresh, EditPC, HoldPC
  <2> QED
    BY <2>1, <2>3
<1>3. Entitled(proc'[t], t) /\ Fresh(proc'[t], persona')
  BY <1>1
<1>4. \A u \in Process : Entitled(proc'[u], u) /\ Fresh(proc'[u], persona')
  BY <1>2, <1>3
<1> QED
  BY <1>4 DEF EditInv

\* A new persona disturbs nobody.
LEMMA FreshCreated ==
    ASSUME PersonaInv, NEW rec \in Record, Create(rec), NEW t \in Process, Fresh(proc[t], persona)
    PROVE  Fresh(proc[t], persona')
<1>1. /\ persona \in [PersonaId -> Record \cup {None}] /\ created \in Nat /\ created < MaxPersonas
      /\ persona' = [persona EXCEPT ![created + 1] = rec]
  BY PersonaBoundAssumption DEF PersonaInv, StoreTypes, Create
<1>2. \A k \in 1..created : k \in PersonaId /\ persona'[k] = persona[k]
  BY <1>1, PersonaBoundAssumption DEF PersonaId
<1>3. \A k \in PersonaId : persona[k] # None => k \in 1..created
  BY FoundPersona
<1>4. PICK l : l = proc[t]
  OBVIOUS
<1>5. /\ l.pc \in HoldPC => l.p \in 1..created
      /\ l.pc \in {"merge_write", "merge_delete"} => l.q \in 1..created
  BY <1>4 DEF PersonaInv, Held, LocalInv
<1>6. Fresh(l, persona)
  BY <1>4
<1>7. l.pc \in HoldPC => persona'[l.p] = persona[l.p]
  BY <1>2, <1>5
<1>8. l.pc \in {"merge_write", "merge_delete"} => persona'[l.q] = persona[l.q]
  BY <1>2, <1>5
<1>9. l.pc = "merge_delete" =>
        \E i \in PersonaId : i # l.q /\ persona'[i] # None /\ Covers(persona'[i], persona'[l.q])
  BY <1>2, <1>3, <1>6, <1>8 DEF Fresh
<1>10. Fresh(l, persona')
  BY <1>6, <1>7, <1>8, <1>9 DEF Fresh, HoldPC
<1> QED
  BY <1>4, <1>10

\* A new persona costs nothing.
LEMMA CreatedKnown ==
    ASSUME PersonaInv, NEW rec \in Record, Create(rec)
    PROVE  LosesNothing
<1>1. /\ persona \in [PersonaId -> Record \cup {None}] /\ created \in Nat /\ created < MaxPersonas
      /\ persona' = [persona EXCEPT ![created + 1] = rec]
  BY PersonaBoundAssumption DEF PersonaInv, StoreTypes, Create
<1>2. \A k \in 1..created : k \in PersonaId /\ persona'[k] = persona[k]
  BY <1>1, PersonaBoundAssumption DEF PersonaId
<1>3. \A k \in PersonaId : persona[k] # None => k \in 1..created
  BY FoundPersona
<1>4. LivesOn
  BY <1>2, <1>3 DEF LivesOn, Covers
<1> QED
  BY <1>4, AllKnown

\* Steps that create one.
LEMMA EditCreates ==
    ASSUME PersonaInv, EditInv, NEW rec \in Record, Create(rec),
           \/ proc' = proc
           \/ \E t \in Process : proc' = [proc EXCEPT ![t] = Idle]
    PROVE  EditInv' /\ LosesNothing
<1>1. Quiet(Idle)
  BY IdleFacts, RowQuiet DEF AtRow
<1>2. \A u \in Process : proc'[u] = proc[u] \/ proc'[u] = Idle
  BY DEF PersonaInv
<1>3. ASSUME NEW u \in Process PROVE Entitled(proc'[u], u) /\ Fresh(proc'[u], persona')
  <2>1. CASE proc'[u] = proc[u]
    BY <2>1, FreshCreated DEF EditInv
  <2>2. CASE proc'[u] = Idle
    BY <1>1, <2>2, QuietFresh
  <2> QED
    BY <1>2, <2>1, <2>2
<1>4. EditInv'
  BY <1>3 DEF EditInv
<1> QED
  BY <1>4, CreatedKnown

(***************************************************************************)
(* Patches and deletions.                                                  *)
(***************************************************************************)
LEMMA PatchReadEdit ==
    ASSUME PersonaInv, EditInv, NEW t \in Process, PatchRead(t)
    PROVE  EditInv' /\ LosesNothing
<1>1. PICK i \in PersonaId, patch \in Patch :
        /\ persona[i] # None
        /\ Goto(t, [Idle EXCEPT !.pc = "patch_write", !.p = i, !.rec = Patched(persona[i], patch)])
  BY DEF PatchRead
<1>2. Edits(t) /\ persona' = persona
  BY DEF PatchRead, Begins, Edits, personaStore
<1>3. PICK rec : rec = Patched(persona[i], patch)
  OBVIOUS
<1>4. rec.seeds = persona[i].seeds
  BY <1>1, <1>3, FoundPersona, PatchedFacts
<1>5. PICK v : v = [Idle EXCEPT !.pc = "patch_write", !.p = i, !.rec = rec]
  OBVIOUS
<1>6. v.pc = "patch_write" /\ v.p = i /\ v.rec = rec
  BY <1>5 DEF Idle
<1>7. Entitled(v, t) /\ Fresh(v, persona)
  BY <1>1, <1>2, <1>4, <1>6 DEF Entitled, Fresh, EditPC, HoldPC, ImportPC
<1>8. proc' = [proc EXCEPT ![t] = v]
  BY <1>1, <1>3, <1>5 DEF Goto
<1> QED
  BY <1>2, <1>7, <1>8, EditReads

\* A persona is overwritten.
LEMMA Overwritten ==
    ASSUME PersonaInv, NEW i \in 1..created, NEW rec, Update(i, rec)
    PROVE  i \in PersonaId /\ \A k \in PersonaId : persona'[k] = IF k = i THEN rec ELSE persona[k]
<1>1. /\ persona \in [PersonaId -> Record \cup {None}] /\ created \in 0..MaxPersonas
      /\ persona' = [persona EXCEPT ![i] = rec]
  BY DEF PersonaInv, StoreTypes, Update
<1>2. i \in PersonaId
  BY <1>1, PersonaBoundAssumption DEF PersonaId
<1> QED
  BY <1>1, <1>2

\* PatchWrite: a patch keeps the seeds it read.
LEMMA PatchWriteEdit ==
    ASSUME OneEditor, PersonaInv, EditInv, NEW t \in Process, PatchWrite(t)
    PROVE  EditInv' /\ LosesNothing
<1>1. proc[t].pc = "patch_write"
  BY DEF PatchWrite, ProcAt
<1>2. PICK i, rec : i = proc[t].p /\ rec = proc[t].rec
  OBVIOUS
<1>3. Edits(t) /\ persona[i] # None /\ persona[i].seeds \subseteq rec.seeds
  BY <1>1, <1>2 DEF EditInv, Entitled, Fresh, EditPC, HoldPC
<1>4. rec \in Record /\ i \in 1..created
  BY <1>1, <1>2, HeldAt DEF HoldPC
<1>5. PICK v : proc' = [proc EXCEPT ![t] = v] /\ AtRow(v)
  BY SettledValue DEF PatchWrite
<1>6. Entitled(v, t) /\ Fresh(v, persona')
  BY <1>5, RowQuiet, QuietFresh
<1>7. EditInv'
  BY <1>3, <1>5, <1>6, EditWrites
<1>8. Ends("patch_write")
  <2>1. proc'[t] = v
    BY <1>5 DEF PersonaInv
  <2>2. v.pc # "patch_write"
    BY <1>5 DEF AtRow
  <2> QED
    BY <1>1, <2>1, <2>2 DEF Ends
<1>9. i \in PersonaId /\ \A k \in PersonaId : persona'[k] = IF k = i THEN rec ELSE persona[k]
  BY <1>2, <1>4, Overwritten DEF PatchWrite
<1>10. SeedsLiveOn
  BY <1>3, <1>4, <1>9, RecordAssumption DEF SeedsLiveOn
<1> QED
  BY <1>7, <1>8, <1>10, SeedsKnown DEF LosesNothing

\* DeleteRead.
LEMMA DeleteReadEdit ==
    ASSUME PersonaInv, EditInv, NEW t \in Process, DeleteRead(t)
    PROVE  EditInv' /\ LosesNothing
<1>1. PICK i \in PersonaId : Goto(t, [Idle EXCEPT !.pc = "delete_write", !.p = i])
  BY DEF DeleteRead
<1>2. Edits(t) /\ persona' = persona
  BY DEF DeleteRead, Begins, Edits, personaStore
<1>3. PICK v : v = [Idle EXCEPT !.pc = "delete_write", !.p = i]
  OBVIOUS
<1>4. v.pc = "delete_write"
  BY <1>3 DEF Idle
<1>5. Entitled(v, t) /\ Fresh(v, persona)
  BY <1>2, <1>4 DEF Entitled, Fresh, HoldPC, ImportPC
<1>6. proc' = [proc EXCEPT ![t] = v]
  BY <1>1, <1>3 DEF Goto
<1> QED
  BY <1>2, <1>5, <1>6, EditReads

\* DeleteWrite may lose what it likes.
LEMMA DeleteWriteEdit ==
    ASSUME OneEditor, PersonaInv, EditInv, NEW t \in Process, DeleteWrite(t)
    PROVE  EditInv' /\ LosesNothing
<1>1. proc[t].pc = "delete_write"
  BY DEF DeleteWrite, ProcAt
<1>2. Edits(t)
  BY <1>1 DEF EditInv, Entitled, EditPC
<1>3. PICK v : proc' = [proc EXCEPT ![t] = v] /\ AtRow(v)
  BY SettledValue DEF DeleteWrite
<1>4. Entitled(v, t) /\ Fresh(v, persona')
  BY <1>3, RowQuiet, QuietFresh
<1>5. EditInv'
  BY <1>2, <1>3, <1>4, EditWrites
<1>6. Ends("delete_write")
  <2>1. proc'[t] = v
    BY <1>3 DEF PersonaInv
  <2>2. v.pc # "delete_write"
    BY <1>3 DEF AtRow
  <2> QED
    BY <1>1, <2>1, <2>2 DEF Ends
<1> QED
  BY <1>5, <1>6 DEF LosesNothing

(***************************************************************************)
(* The merge.                                                              *)
(***************************************************************************)
LEMMA MergeReadSurvivorEdit ==
    ASSUME PersonaInv, EditInv, NEW t \in Process, MergeReadSurvivor(t)
    PROVE  EditInv' /\ LosesNothing
<1>1. PICK i \in PersonaId, j \in PersonaId :
        /\ i # j /\ persona[i] # None
        /\ Goto(t, [Idle EXCEPT !.pc = "merge_read", !.p = i, !.q = j, !.rec = persona[i]])
  BY DEF MergeReadSurvivor
<1>2. Edits(t) /\ persona' = persona
  BY DEF MergeReadSurvivor, Begins, Edits, personaStore
<1>3. PICK rec : rec = persona[i]
  OBVIOUS
<1>4. PICK v : v = [Idle EXCEPT !.pc = "merge_read", !.p = i, !.q = j, !.rec = rec]
  OBVIOUS
<1>5. v.pc = "merge_read" /\ v.p = i /\ v.q = j /\ v.rec = rec
  BY <1>4 DEF Idle
<1>6. Covers(v.rec, persona[v.p])
  BY <1>3, <1>5 DEF Covers
<1>7. Entitled(v, t) /\ Fresh(v, persona)
  BY <1>1, <1>2, <1>5, <1>6 DEF Entitled, Fresh, EditPC, HoldPC, ImportPC
<1>8. proc' = [proc EXCEPT ![t] = v]
  BY <1>1, <1>3, <1>4 DEF Goto
<1> QED
  BY <1>2, <1>7, <1>8, EditReads

\* What the merged persona knows.
LEMMA MergedCovers ==
    ASSUME NEW a \in Record, NEW b \in Record, NEW c, Covers(a, c),
           ~ (a.identity # None /\ b.identity # None /\ a.identity # b.identity)
    PROVE  Covers(Merged(a, b), c) /\ Covers(Merged(a, b), b)
<1>1. PICK m : m = Merged(a, b)
  OBVIOUS
<1>2. /\ m.seeds = a.seeds \cup b.seeds /\ m.excluded = a.excluded \cup b.excluded
      /\ m.identity = IF a.identity = None THEN b.identity ELSE a.identity
  BY <1>1, MergedFacts
<1>3. Covers(m, c) /\ Covers(m, b)
  BY <1>2 DEF Covers
<1> QED
  BY <1>1, <1>3

\* MergeReadAbsorbed: the merged copy knows what both know.
LEMMA MergeReadAbsorbedEdit ==
    ASSUME PersonaInv, EditInv, NEW t \in Process, MergeReadAbsorbed(t)
    PROVE  EditInv' /\ LosesNothing
<1>1. proc[t].pc = "merge_read" /\ persona' = persona
  BY DEF MergeReadAbsorbed, ProcAt, personaStore
<1>2. CASE ProcDone(t)
  <2>1. PICK v : proc' = [proc EXCEPT ![t] = v] /\ AtRow(v)
    BY <1>2, SettledValue
  <2> QED
    BY <1>1, <2>1, EditQuiet
<1>3. CASE ~ ProcDone(t)
  <2>1. PICK i, q, a, b : i = proc[t].p /\ q = proc[t].q /\ a = proc[t].rec /\ b = persona[q]
    OBVIOUS
  <2>2. /\ b # None /\ ~ (a.identity # None /\ b.identity # None /\ a.identity # b.identity)
        /\ Goto(t, [proc[t] EXCEPT !.pc = "merge_write", !.rec = Merged(a, b)])
    BY <1>3, <2>1 DEF MergeReadAbsorbed
  <2>3. Edits(t) /\ persona[i] # None /\ Covers(a, persona[i]) /\ i # q /\ q \in PersonaId
    BY <1>1, <2>1 DEF EditInv, Entitled, Fresh, EditPC, HoldPC
  <2>4. a \in Record /\ proc[t] \in Local
    BY <1>1, <2>1 DEF PersonaInv, Held, LocalInv, HoldPC
  <2>5. b \in Record
    BY <2>1, <2>2, <2>3, FoundPersona
  <2>6. PICK m : m = Merged(a, b)
    OBVIOUS
  <2>7. Covers(m, persona[i]) /\ Covers(m, b)
    BY <2>2, <2>3, <2>4, <2>5, <2>6, MergedCovers
  <2>8. PICK v : v = [proc[t] EXCEPT !.pc = "merge_write", !.rec = m]
    OBVIOUS
  <2>9. v.pc = "merge_write" /\ v.p = i /\ v.q = q /\ v.rec = m
    BY <2>1, <2>4, <2>8 DEF Local
  <2>10. Entitled(v, t) /\ Fresh(v, persona)
    BY <2>1, <2>2, <2>3, <2>7, <2>9 DEF Entitled, Fresh, EditPC, HoldPC, ImportPC
  <2>11. proc' = [proc EXCEPT ![t] = v]
    BY <2>2, <2>6, <2>8 DEF Goto
  <2> QED
    BY <1>1, <2>10, <2>11, EditReads
<1> QED
  BY <1>2, <1>3

\* MergeWrite: from here on the survivor knows what is deleted next.
LEMMA MergeWriteEdit ==
    ASSUME OneEditor, PersonaInv, EditInv, NEW t \in Process, MergeWrite(t)
    PROVE  EditInv' /\ LosesNothing
<1>1. proc[t].pc = "merge_write"
  BY DEF MergeWrite, ProcAt
<1>2. PICK i, rec, q : i = proc[t].p /\ rec = proc[t].rec /\ q = proc[t].q
  OBVIOUS
<1>3. /\ Edits(t) /\ i # q /\ q \in PersonaId
      /\ Covers(rec, persona[i]) /\ Covers(rec, persona[q])
  BY <1>1, <1>2 DEF EditInv, Entitled, Fresh, EditPC, HoldPC
<1>4. rec \in Record /\ i \in 1..created
  BY <1>1, <1>2, HeldAt DEF HoldPC
<1>5. i \in PersonaId /\ \A k \in PersonaId : persona'[k] = IF k = i THEN rec ELSE persona[k]
  BY <1>2, <1>4, Overwritten DEF MergeWrite
<1>6. PICK v : v = [Idle EXCEPT !.pc = "merge_delete", !.q = q]
  OBVIOUS
<1>7. v.pc = "merge_delete" /\ v.q = q
  BY <1>6 DEF Idle
<1>8. persona'[i] # None /\ Covers(persona'[i], persona'[q])
  BY <1>3, <1>4, <1>5, RecordAssumption
<1>9. Entitled(v, t) /\ Fresh(v, persona')
  BY <1>3, <1>5, <1>7, <1>8 DEF Entitled, Fresh, HoldPC, ImportPC
<1>10. proc' = [proc EXCEPT ![t] = v]
  BY <1>2, <1>6 DEF MergeWrite, Goto
<1>11. EditInv'
  BY <1>3, <1>9, <1>10, EditWrites
<1>12. LivesOn
  <2>1. \A k \in PersonaId : k # i => persona'[k] = persona[k] /\ Covers(persona[k], persona[k])
    BY <1>5 DEF Covers
  <2>2. Covers(persona'[i], persona[i])
    BY <1>3, <1>5
  <2> QED
    BY <1>5, <1>8, <2>1, <2>2 DEF LivesOn
<1> QED
  BY <1>11, <1>12, AllKnown

\* MergeDelete: what goes lives on in another persona.
LEMMA MergeDeleteEdit ==
    ASSUME OneEditor, PersonaInv, EditInv, NEW t \in Process, MergeDelete(t)
    PROVE  EditInv' /\ LosesNothing
<1>1. proc[t].pc = "merge_delete"
  BY DEF MergeDelete, ProcAt
<1>2. PICK q : q = proc[t].q
  OBVIOUS
<1>3. Edits(t)
  BY <1>1 DEF EditInv, Entitled, EditPC
<1>4. PICK i \in PersonaId : i # q /\ persona[i] # None /\ Covers(persona[i], persona[q])
  BY <1>1, <1>2 DEF EditInv, Fresh
<1>5. q \in 1..created
  BY <1>1, <1>2 DEF PersonaInv, Held, LocalInv
<1>6. q \in PersonaId /\ \A k \in PersonaId : persona'[k] = IF k = q THEN None ELSE persona[k]
  BY <1>2, <1>5, Overwritten DEF MergeDelete
<1>7. PICK v : proc' = [proc EXCEPT ![t] = v] /\ AtRow(v)
  BY SettledValue DEF MergeDelete
<1>8. Entitled(v, t) /\ Fresh(v, persona')
  BY <1>7, RowQuiet, QuietFresh
<1>9. EditInv'
  BY <1>3, <1>7, <1>8, EditWrites
<1>10. LivesOn
  <2>1. \A k \in PersonaId : k # q => persona'[k] = persona[k] /\ Covers(persona[k], persona[k])
    BY <1>6 DEF Covers
  <2>2. persona'[i] # None /\ Covers(persona'[i], persona[q])
    BY <1>4, <2>1
  <2> QED
    BY <2>1, <2>2 DEF LivesOn
<1> QED
  BY <1>9, <1>10, AllKnown

(***************************************************************************)
(* The re-issue.                                                           *)
(***************************************************************************)
LEMMA ReissueReadEdit ==
    ASSUME PersonaInv, EditInv, NEW t \in Process, ReissueRead(t)
    PROVE  EditInv' /\ LosesNothing
<1>1. PICK n \in Name : Goto(t, [Idle EXCEPT !.pc = "reissue_identity", !.name = n])
  BY DEF ReissueRead
<1>2. Edits(t) /\ persona' = persona
  BY DEF ReissueRead, Begins, Edits, personaStore
<1>3. PICK v : v = [Idle EXCEPT !.pc = "reissue_identity", !.name = n]
  OBVIOUS
<1>4. v.pc = "reissue_identity"
  BY <1>3 DEF Idle
<1>5. Entitled(v, t) /\ Fresh(v, persona)
  BY <1>2, <1>4 DEF Entitled, Fresh, HoldPC, ImportPC
<1>6. proc' = [proc EXCEPT ![t] = v]
  BY <1>1, <1>3 DEF Goto
<1> QED
  BY <1>2, <1>5, <1>6, EditReads

\* ReissueIdentity.
LEMMA ReissueIdentityEdit ==
    ASSUME PersonaInv, EditInv, NEW t \in Process, ReissueIdentity(t)
    PROVE  EditInv' /\ LosesNothing
<1>1. proc[t].pc = "reissue_identity" /\ persona' = persona
  BY DEF ReissueIdentity, ProcAt
<1>2. Edits(t)
  BY <1>1 DEF EditInv, Entitled
<1>3. PICK v : v = [proc[t] EXCEPT !.pc = "reissue_find"]
  OBVIOUS
<1>4. v.pc = "reissue_find"
  BY <1>3 DEF PersonaInv, Held, LocalInv, Local
<1>5. Entitled(v, t) /\ Fresh(v, persona)
  BY <1>2, <1>4 DEF Entitled, Fresh, HoldPC, ImportPC
<1>6. proc' = [proc EXCEPT ![t] = v]
  BY <1>3 DEF ReissueIdentity, Goto
<1> QED
  BY <1>1, <1>5, <1>6, EditReads

\* ReissueFindMe: the copy differs in its name.
LEMMA ReissueFindMeEdit ==
    ASSUME PersonaInv, EditInv, NEW t \in Process, ReissueFindMe(t)
    PROVE  EditInv' /\ LosesNothing
<1>1. proc[t].pc = "reissue_find" /\ persona' = persona
  BY DEF ReissueFindMe, ProcAt, personaStore
<1>2. CASE ProcDone(t)
  <2>1. PICK v : proc' = [proc EXCEPT ![t] = v] /\ AtRow(v)
    BY <1>2, SettledValue
  <2> QED
    BY <1>1, <2>1, EditQuiet
<1>3. CASE ~ ProcDone(t)
  <2>1. PICK n : n = proc[t].name
    OBVIOUS
  <2>2. PICK i \in PersonaId : /\ persona[i] # None
                               /\ Goto(t, [Idle EXCEPT !.pc = "reissue_write", !.p = i,
                                             !.rec = [persona[i] EXCEPT !.name = n]])
    BY <1>3, <2>1 DEF ReissueFindMe
  <2>3. Edits(t)
    BY <1>1 DEF EditInv, Entitled
  <2>4. PICK rec : rec = [persona[i] EXCEPT !.name = n]
    OBVIOUS
  <2>5. persona[i] \in Record
    BY <2>2, FoundPersona
  <2>6. Covers(rec, persona[i])
    BY <2>4, <2>5 DEF Covers, Record
  <2>7. PICK v : v = [Idle EXCEPT !.pc = "reissue_write", !.p = i, !.rec = rec]
    OBVIOUS
  <2>8. v.pc = "reissue_write" /\ v.p = i /\ v.rec = rec
    BY <2>7 DEF Idle
  <2>9. Entitled(v, t) /\ Fresh(v, persona)
    BY <2>2, <2>3, <2>6, <2>8 DEF Entitled, Fresh, HoldPC, ImportPC
  <2>10. proc' = [proc EXCEPT ![t] = v]
    BY <2>2, <2>4, <2>7 DEF Goto
  <2> QED
    BY <1>1, <2>9, <2>10, EditReads
<1> QED
  BY <1>2, <1>3

\* ReissueMeName.
LEMMA ReissueMeNameEdit ==
    ASSUME OneEditor, PersonaInv, EditInv, NEW t \in Process, ReissueMeName(t)
    PROVE  EditInv' /\ LosesNothing
<1>1. proc[t].pc = "reissue_write"
  BY DEF ReissueMeName, ProcAt
<1>2. PICK i, rec : i = proc[t].p /\ rec = proc[t].rec
  OBVIOUS
<1>3. Edits(t) /\ Covers(rec, persona[i])
  BY <1>1, <1>2 DEF EditInv, Entitled, Fresh, EditPC, HoldPC
<1>4. rec \in Record /\ i \in 1..created
  BY <1>1, <1>2, HeldAt DEF HoldPC
<1>5. i \in PersonaId /\ \A k \in PersonaId : persona'[k] = IF k = i THEN rec ELSE persona[k]
  BY <1>2, <1>4, Overwritten DEF ReissueMeName
<1>6. PICK v : proc' = [proc EXCEPT ![t] = v] /\ AtRow(v)
  BY SettledValue DEF ReissueMeName
<1>7. Entitled(v, t) /\ Fresh(v, persona')
  BY <1>6, RowQuiet, QuietFresh
<1>8. EditInv'
  BY <1>3, <1>6, <1>7, EditWrites
<1>9. LivesOn
  <2>1. \A k \in PersonaId : k # i => persona'[k] = persona[k] /\ Covers(persona[k], persona[k])
    BY <1>5 DEF Covers
  <2>2. persona'[i] # None /\ Covers(persona'[i], persona[i])
    BY <1>3, <1>4, <1>5, RecordAssumption
  <2> QED
    BY <1>5, <2>1, <2>2 DEF LivesOn
<1> QED
  BY <1>8, <1>9, AllKnown

(***************************************************************************)
(* The import of a card.                                                   *)
(***************************************************************************)
\* A task that imports edits a persona only if it was asked to link one.
LEMMA ImportingFresh ==
    ASSUME NEW v, NEW t, NEW ps, v.pc \in ImportPC, v.p # None => Edits(t)
    PROVE  Entitled(v, t) /\ Fresh(v, ps)
BY DEF Entitled, Fresh, EditPC, HoldPC, ImportPC

\* ImportPaste and AcceptRow: only an editor names a persona to link.
LEMMA ImportBeginsEdit ==
    ASSUME PersonaInv, EditInv, NEW t \in Process, ImportPaste(t) \/ AcceptRow(t)
    PROVE  EditInv' /\ LosesNothing
<1>1. persona' = persona
  BY DEF ImportPaste, AcceptRow, personaStore
<1>2. PICK v : /\ proc' = [proc EXCEPT ![t] = v] /\ v.pc \in {"import_probe", "row_error"}
              /\ v.p \in Links(t)
  <2>1. CASE ImportPaste(t)
    <3>1. PICK i \in Pasted, link \in Links(t) :
            Goto(t, [Idle EXCEPT !.pc = "import_probe", !.id = i, !.p = link])
      BY <2>1 DEF ImportPaste
    <3>2. PICK v : v = [Idle EXCEPT !.pc = "import_probe", !.id = i, !.p = link]
      OBVIOUS
    <3>3. v.pc = "import_probe" /\ v.p = link
      BY <3>2 DEF Idle
    <3> QED
      BY <3>1, <3>2, <3>3 DEF Goto
  <2>2. CASE AcceptRow(t)
    <3>1. PICK m \in Message, link \in Links(t) :
            Goto(t, [Idle EXCEPT !.pc = IF Verified(m) THEN "import_probe" ELSE "row_error",
                                 !.msg = m, !.id = CardOf[m], !.p = link])
      BY <2>2 DEF AcceptRow
    <3>2. PICK pc \in {"import_probe", "row_error"} : pc = IF Verified(m) THEN "import_probe" ELSE "row_error"
      OBVIOUS
    <3>3. PICK v : v = [Idle EXCEPT !.pc = pc, !.msg = m, !.id = CardOf[m], !.p = link]
      OBVIOUS
    <3>4. v.pc = pc /\ v.p = link
      BY <3>3 DEF Idle
    <3> QED
      BY <3>1, <3>2, <3>3, <3>4 DEF Goto
  <2> QED
    BY <2>1, <2>2
<1>3. v.p # None => Edits(t)
  BY <1>2 DEF Links, Edits
<1>4. Entitled(v, t) /\ Fresh(v, persona)
  <2>1. CASE v.pc = "import_probe"
    BY <1>3, <2>1, ImportingFresh DEF ImportPC
  <2>2. CASE v.pc = "row_error"
    BY <2>2, QuietFresh DEF Quiet, EditPC, HoldPC, ImportPC
  <2> QED
    BY <1>2, <2>1, <2>2
<1> QED
  BY <1>1, <1>2, <1>4, EditReads

\* ImportProbe, ImportIdentity and ImportReceipt.
LEMMA ImportGoesOnEdit ==
    ASSUME PersonaInv, EditInv, NEW t \in Process,
           ImportProbe(t) \/ ImportIdentity(t) \/ ImportReceipt(t)
    PROVE  EditInv' /\ LosesNothing
<1>1. persona' = persona /\ proc[t].pc \in ImportPC
  BY DEF ImportProbe, ImportIdentity, ImportReceipt, ProcAt, personaStore, ImportPC
<1>2. proc[t] \in Local /\ (proc[t].p # None => Edits(t))
  BY <1>1 DEF PersonaInv, Held, LocalInv, EditInv, Entitled
<1>3. PICK pc \in ImportPC : proc' = [proc EXCEPT ![t] = [proc[t] EXCEPT !.pc = pc]]
  BY DEF ImportProbe, ImportIdentity, ImportReceipt, Goto, ImportPC
<1>4. PICK v : v = [proc[t] EXCEPT !.pc = pc]
  OBVIOUS
<1>5. v.pc = pc /\ v.p = proc[t].p
  BY <1>2, <1>4 DEF Local
<1>6. Entitled(v, t) /\ Fresh(v, persona)
  BY <1>2, <1>5, ImportingFresh
<1> QED
  BY <1>1, <1>3, <1>4, <1>6, EditReads

\* ImportLink: the linked copy keeps its seeds.
LEMMA ImportLinkEdit ==
    ASSUME PersonaInv, EditInv, NEW t \in Process, ImportLink(t)
    PROVE  EditInv' /\ LosesNothing
<1>1. proc[t].pc = "import_link" /\ persona' = persona
  BY DEF ImportLink, ProcAt, personaStore
<1>2. proc[t] \in Local /\ proc[t].id \in Id /\ proc[t].p \in PersonaId \cup {None}
  BY <1>1 DEF PersonaInv, Held, LocalInv, ImportPC, Local
<1>3. CASE Imported(t) \/ Failed(t)
  BY <1>1, <1>3, SettledValue, EditQuiet
<1>4. CASE ~ (Imported(t) \/ Failed(t))
  <2>1. PICK i, patch, rec : /\ i = proc[t].p /\ patch = [kind |-> "link", arg |-> proc[t].id]
                             /\ rec = Patched(persona[i], patch)
    OBVIOUS
  <2>2. i # None /\ persona[i] # None /\ Goto(t, [proc[t] EXCEPT !.pc = "patch_write", !.rec = rec])
    BY <1>4, <2>1 DEF ImportLink
  <2>3. Edits(t)
    BY <1>1, <2>1, <2>2 DEF EditInv, Entitled, ImportPC
  <2>4. patch \in Patch /\ i \in PersonaId
    BY <1>2, <2>1, <2>2 DEF Patch
  <2>5. rec.seeds = persona[i].seeds
    BY <2>1, <2>2, <2>4, FoundPersona, PatchedFacts
  <2>6. PICK v : v = [proc[t] EXCEPT !.pc = "patch_write", !.rec = rec]
    OBVIOUS
  <2>7. v.pc = "patch_write" /\ v.p = i /\ v.rec = rec
    BY <1>2, <2>1, <2>6 DEF Local
  <2>8. Entitled(v, t) /\ Fresh(v, persona)
    BY <2>2, <2>3, <2>5, <2>7 DEF Entitled, Fresh, EditPC, HoldPC, ImportPC
  <2>9. proc' = [proc EXCEPT ![t] = v]
    BY <2>2, <2>6 DEF Goto
  <2> QED
    BY <1>1, <2>8, <2>9, EditReads
<1> QED
  BY <1>3, <1>4

(***************************************************************************)
(* Everything else leaves the personas alone, or adds one.                 *)
(***************************************************************************)
LEMMA SettlesEdit ==
    ASSUME PersonaInv, EditInv, NEW t \in Process,
           RowAccepted(t) \/ RowError(t) \/ DismissWrite(t) \/ ProcFail(t)
    PROVE  EditInv' /\ LosesNothing
<1>1. persona' = persona /\ (Failed(t) \/ Imported(t) \/ ProcDone(t))
  BY DEF RowAccepted, RowError, DismissWrite, ProcFail, personaStore
<1> QED
  BY <1>1, SettledValue, EditQuiet

\* DismissRead.
LEMMA DismissReadEdit ==
    ASSUME PersonaInv, EditInv, NEW t \in Process, DismissRead(t)
    PROVE  EditInv' /\ LosesNothing
<1>1. PICK m \in Message : Goto(t, [Idle EXCEPT !.pc = "row_dismiss", !.msg = m])
  BY DEF DismissRead
<1>2. PICK v : v = [Idle EXCEPT !.pc = "row_dismiss", !.msg = m]
  OBVIOUS
<1>3. AtRow(v) /\ proc' = [proc EXCEPT ![t] = v] /\ persona' = persona
  BY <1>1, <1>2 DEF AtRow, Idle, Local, PC, Goto, DismissRead, personaStore
<1> QED
  BY <1>3, EditQuiet

\* The bootstrap before it creates Me.
LEMMA MeEdit ==
    ASSUME PersonaInv, EditInv, NEW t \in Process,
           SaveCard(t) \/ MeProbe(t) \/ MeIdentity(t) \/ MeFingerprint(t) \/ MeReceipt(t)
    PROVE  EditInv' /\ LosesNothing
<1>1. persona' = persona
  BY DEF SaveCard, MeProbe, MeIdentity, MeFingerprint, MeReceipt, personaStore
<1>2. CASE ProcDone(t)
  BY <1>1, <1>2, SettledValue, EditQuiet
<1>3. CASE SaveCard(t)
  <2>1. Starts(t)
    BY <1>3, SaveCardStep
  <2> QED
    BY <1>1, <2>1, EditQuiet DEF Starts, MePC
<1>4. CASE MeProbe(t) /\ ~ ProcDone(t)
  <2>1. PICK v : v = [proc[t] EXCEPT !.pc = "me_identity"]
    OBVIOUS
  <2>2. v.pc \in MePC /\ proc' = [proc EXCEPT ![t] = v]
    BY <1>4, <2>1, MeValue DEF MeProbe, ProcAt, Goto, MePC
  <2> QED
    BY <1>1, <2>2, EditQuiet
<1>5. CASE MeIdentity(t) \/ MeFingerprint(t) \/ MeReceipt(t)
  <2>1. GoesOn(t)
    BY <1>5, MeIdentityStep, MeFingerprintStep, MeReceiptStep
  <2> QED
    BY <1>1, <2>1, EditQuiet DEF GoesOn
<1> QED
  BY <1>2, <1>3, <1>4, <1>5

\* AcceptSuggested, AutoCreate and MePersona.
LEMMA CreatesEdit ==
    ASSUME PersonaInv, EditInv,
           AutoCreate \/ \E t \in Process : AcceptSuggested(t) \/ MePersona(t)
    PROVE  EditInv' /\ LosesNothing
<1>1. ASSUME NEW seeds \in Cluster, NEW confirmed \in BOOLEAN PROVE Suggested(seeds, confirmed) \in Record
  BY ClusterAssumption DEF Suggested, Record
<1>2. CASE AutoCreate \/ \E t \in Process : AcceptSuggested(t)
  <2>1. PICK seeds \in Cluster, confirmed \in BOOLEAN :
          Create(Suggested(seeds, confirmed)) /\ proc' = proc
    BY <1>2 DEF AutoCreate, AcceptSuggested
  <2> QED
    BY <1>1, <2>1, EditCreates
<1>3. CASE \E t \in Process : MePersona(t)
  <2>1. PICK t \in Process : MePersona(t)
    BY <1>3
  <2>2. PICK rec : rec = [seeds |-> {NodeFp}, excluded |-> {}, identity |-> Self,
                          confirmed |-> TRUE, built_in |-> TRUE, name |-> proc[t].name]
    OBVIOUS
  <2>3. proc[t].name \in Name
    BY <2>1 DEF MePersona, ProcAt, PersonaInv, Held, LocalInv, MePC
  <2>4. rec \in Record
    BY <2>2, <2>3 DEF Record, Id
  <2>5. Create(rec) /\ proc' = [proc EXCEPT ![t] = Idle]
    BY <2>1, <2>2 DEF MePersona, ProcDone, Goto
  <2> QED
    BY <2>4, <2>5, EditCreates
<1> QED
  BY <1>2, <1>3

\* Deliver, Crash and stuttering.
LEMMA BesideEdit ==
    ASSUME PersonaInv, EditInv, (\E m \in Message : Deliver(m)) \/ Crash \/ UNCHANGED personaVars
    PROVE  EditInv' /\ LosesNothing
<1>1. persona' = persona
  BY DEF Deliver, Crash, personaStore, personaVars
<1>2. CASE proc' = proc
  BY <1>1, <1>2, SameKnown DEF EditInv
<1>3. CASE Crash
  <2>1. \A t \in Process : proc'[t].pc = "idle" \/ proc'[t].pc = "me_probe"
    BY <1>3, CrashStep
  <2>2. \A t \in Process : Quiet(proc'[t])
    BY <2>1 DEF Quiet, EditPC, HoldPC, ImportPC
  <2>3. \A t \in Process : Entitled(proc'[t], t) /\ Fresh(proc'[t], persona')
    BY <2>2, QuietFresh
  <2> QED
    BY <1>1, <2>3, SameKnown DEF EditInv
<1> QED
  BY <1>2, <1>3 DEF Deliver, personaVars

\* Every step of the specification.
LEMMA EditStep ==
    ASSUME OneEditor, PersonaInv, EditInv, [PersonaNext]_personaVars
    PROVE  EditInv' /\ LosesNothing
<1>1. ASSUME NEW t \in Process, Personas(t) PROVE EditInv' /\ LosesNothing
  BY <1>1, PatchReadEdit, PatchWriteEdit, DeleteReadEdit, DeleteWriteEdit, MergeReadSurvivorEdit,
     MergeReadAbsorbedEdit, MergeWriteEdit, MergeDeleteEdit, CreatesEdit DEF Personas
<1>2. ASSUME NEW t \in Process, Me(t) PROVE EditInv' /\ LosesNothing
  BY <1>2, MeEdit, CreatesEdit, ReissueReadEdit, ReissueIdentityEdit, ReissueFindMeEdit,
     ReissueMeNameEdit DEF Me
<1>3. ASSUME NEW t \in Process, Cards(t) PROVE EditInv' /\ LosesNothing
  BY <1>3, ImportBeginsEdit, ImportGoesOnEdit, ImportLinkEdit, SettlesEdit, DismissReadEdit DEF Cards
<1>4. ASSUME NEW t \in Process, ProcFail(t) PROVE EditInv' /\ LosesNothing
  BY <1>4, SettlesEdit
<1>5. CASE AutoCreate \/ (\E m \in Message : Deliver(m)) \/ Crash \/ UNCHANGED personaVars
  BY <1>5, CreatesEdit, BesideEdit
<1> QED
  BY <1>1, <1>2, <1>3, <1>4, <1>5 DEF PersonaNext

(***************************************************************************)
(* Wherever a merge fails or dies, no seed, exclusion or verified link is  *)
(* lost with it, as long as one task at a time edits personas: what it     *)
(* writes first knows all that it deletes afterwards.                      *)
(***************************************************************************)
THEOREM MergeCorrect ==
    ASSUME OneEditor
    PROVE  PersonaSpec => MergeLosesNothing
<1>1. PersonaInit => EditInv
  <2>1. SUFFICES ASSUME PersonaInit PROVE EditInv
    OBVIOUS
  <2>2. \A t \in Process : proc[t].pc = "idle"
    BY <2>1, PersonaStart
  <2>3. \A t \in Process : Quiet(proc[t])
    BY <2>2 DEF Quiet, EditPC, HoldPC, ImportPC
  <2> QED
    BY <2>3, QuietFresh DEF EditInv
<1>2. PersonaInv /\ EditInv /\ [PersonaNext]_personaVars => EditInv' /\ LosesNothing
  BY EditStep
<1>3. PersonaSpec => [][LosesNothing]_personaVars
  BY <1>1, <1>2, PersonaInvariant, PTL DEF PersonaSpec
<1> QED
  BY <1>3 DEF MergeLosesNothing, LosesNothing
=============================================================================
