----------------------- MODULE ConversationRunProofs -----------------------
(***************************************************************************)
(* For any tool calls, hosts, numbers of submissions, turns, compactions   *)
(* and faults.                                                             *)
(***************************************************************************)
EXTENDS ConversationRun, FiniteSetTheorems, WellFoundedInduction, TLAPS

----------------------------------------------------------------------------
(* Induction, for sets of numbers, and functions defined by recursion.     *)

\* A non-empty set of numbers has a least one.
LEMMA Least == ASSUME NEW S, S \subseteq Nat, S # {} PROVE \E x \in S : \A y \in S : x <= y
<1> DEFINE R == OpToRel(<, Nat)
<1>1. IsWellFoundedOn(R, Nat)
  BY NatLessThanWellFounded, Zenon
<1>2. \A x, y \in Nat : y < x => <<y, x>> \in R
  BY DEF OpToRel
<1> HIDE DEF R
<1>3. PICK x \in S : \A y \in S : ~ (<<y, x>> \in R)
  BY <1>1, WFMin
<1>4. \A y \in S : ~ (y < x)
  BY <1>2, <1>3
<1>5. \A y \in S : x <= y
  BY <1>4
<1> QED BY <1>5

\* Induction, for a set.
LEMMA NatSetInduction ==
  ASSUME NEW S, 0 \in S, \A n \in Nat : n \in S => n + 1 \in S PROVE Nat \subseteq S
<1> SUFFICES ASSUME ~(Nat \subseteq S) PROVE FALSE
  OBVIOUS
<1> DEFINE B == Nat \ S
<1>1. B \subseteq Nat /\ B # {}
  OBVIOUS
<1>2. PICK x \in B : \A y \in B : x <= y
  <2> HIDE DEF B
  <2> QED BY <1>1, Least
<1>3. x # 0 /\ x - 1 \in Nat /\ x - 1 \notin B
  BY <1>2
<1> QED BY <1>3, <1>2

\* Induction up to a bound.
LEMMA UpTo ==
  ASSUME NEW n \in Nat, NEW S, 0 \in S, \A k \in 1..n : k - 1 \in S => k \in S
  PROVE  \A k \in 0..n : k \in S
<1> DEFINE B == {k \in Nat : k \in 0..n => k \in S}
<1>1. 0 \in B
  OBVIOUS
<1>2. ASSUME NEW k \in Nat, k \in B PROVE k + 1 \in B
  <2>1. CASE k + 1 \in 0..n
    <3>1. k + 1 \in 1..n /\ k \in 0..n /\ (k + 1) - 1 = k
      BY <2>1
    <3> QED BY <3>1, <1>2
  <2> QED BY <2>1
<1>3. Nat \subseteq B
  <2> HIDE DEF B
  <2> QED BY <1>1, <1>2, NatSetInduction
<1> QED BY <1>3

\* A fold over 1..n has all its stages.
LEMMA FoldExists ==
  ASSUME NEW A, NEW a \in A, NEW n \in Nat, NEW step \in [1..n -> [A -> A]]
  PROVE  \E f \in [0..n -> A] : f[0] = a /\ \A k \in 1..n : f[k] = step[k][f[k - 1]]
<1> DEFINE G == {m \in Nat : m \in 0..n => \E f \in [0..m -> A] : f[0] = a /\ \A k \in 1..m : f[k] = step[k][f[k - 1]]}
<1>1. 0 \in G
  <2> DEFINE f == [k \in 0..0 |-> a]
  <2>1. f \in [0..0 -> A] /\ f[0] = a /\ \A k \in 1..0 : f[k] = step[k][f[k - 1]]
    OBVIOUS
  <2> QED BY <2>1
<1>2. ASSUME NEW m \in 0..n, m \in G, m + 1 \in 0..n PROVE m + 1 \in G
  <2>1. PICK f \in [0..m -> A] : f[0] = a /\ \A k \in 1..m : f[k] = step[k][f[k - 1]]
    BY <1>2
  <2> DEFINE g == [k \in 0..(m + 1) |-> IF k \in 0..m THEN f[k] ELSE step[m + 1][f[m]]]
  <2>2. g \in [0..(m + 1) -> A]
    <3>1. f[m] \in A /\ step[m + 1] \in [A -> A]
      BY <1>2
    <3> QED BY <3>1
  <2>3. g[0] = a
    BY <2>1
  <2>4. ASSUME NEW k \in 1..(m + 1) PROVE g[k] = step[k][g[k - 1]]
    <3>1. k - 1 \in 0..m /\ g[k - 1] = f[k - 1]
      BY <2>4
    <3>2. CASE k \in 1..m
      BY <2>1, <3>1, <3>2
    <3>3. CASE k = m + 1
      BY <3>1, <3>3
    <3> QED BY <3>2, <3>3
  <2> HIDE DEF g
  <2> QED BY <2>2, <2>3, <2>4
<1>3. \A m \in 0..n : m \in G
  <2>1. \A k \in 1..n : k - 1 \in G => k \in G
    <3> SUFFICES ASSUME NEW k \in 1..n, k - 1 \in G PROVE k \in G
      OBVIOUS
    <3>1. k - 1 \in 0..n /\ (k - 1) + 1 = k /\ k \in 0..n
      OBVIOUS
    <3> HIDE DEF G
    <3> QED BY <3>1, <1>2
  <2> HIDE DEF G
  <2> QED BY <1>1, <2>1, UpTo
<1> QED BY <1>3

----------------------------------------------------------------------------
(* Parts of a sequence.                                                    *)

\* One step of Only.
OnlyStep(s, P, f, n) == IF n = 0 THEN <<>> ELSE IF n \in P THEN Append(f[n - 1], s[n]) ELSE f[n - 1]

\* Only is what its recursive definition says.
LEMMA OnlyDef ==
  ASSUME NEW S, NEW s \in Seq(S), NEW P
  PROVE  \E f \in [0..Len(s) -> Seq(S)] :
           Only(s, P) = f[Len(s)] /\ \A k \in 0..Len(s) : f[k] = OnlyStep(s, P, f, k)
<1> DEFINE n == Len(s)
           Eq(f) == f = [k \in 0..n |-> OnlyStep(s, P, f, k)]
           step == [k \in 1..n |-> [r \in Seq(S) |-> IF k \in P THEN Append(r, s[k]) ELSE r]]
<1>0. n \in Nat
  OBVIOUS
<1>1. \E f \in [0..n -> Seq(S)] : f[0] = <<>> /\ \A k \in 1..n : f[k] = step[k][f[k - 1]]
  <2> DEFINE A == Seq(S)
             a == <<>>
  <2>1. step \in [1..n -> [A -> A]] /\ a \in A
    OBVIOUS
  <2> HIDE DEF step, n, A, a
  <2>2. \E f \in [0..n -> A] : f[0] = a /\ \A k \in 1..n : f[k] = step[k][f[k - 1]]
    BY <1>0, <2>1, FoldExists
  <2> USE DEF A, a
  <2> QED BY <2>2
<1>2. \E f : Eq(f)
  <2>1. PICK f \in [0..n -> Seq(S)] : f[0] = <<>> /\ \A k \in 1..n : f[k] = step[k][f[k - 1]]
    BY <1>1
  <2>2. ASSUME NEW k \in 0..n PROVE f[k] = OnlyStep(s, P, f, k)
    <3>1. CASE k = 0
      BY <2>1, <3>1 DEF OnlyStep
    <3>2. CASE k \in 1..n
      <4>1. k - 1 \in 0..n /\ f[k - 1] \in Seq(S) /\ k # 0
        BY <3>2
      <4> QED BY <2>1, <3>2, <4>1 DEF OnlyStep
    <3> QED BY <1>0, <3>1, <3>2
  <2>3. Eq(f)
    BY <2>2
  <2> HIDE DEF Eq
  <2> QED BY <2>3
<1>3. Eq(CHOOSE f : Eq(f))
  <2> HIDE DEF Eq
  <2> QED BY <1>2
<1>4. Only(s, P) = (CHOOSE f : Eq(f))[n]
  BY DEF Only, OnlyStep
<1>5. PICK u : Eq(u) /\ Only(s, P) = u[n]
  <2> HIDE DEF Eq
  <2> QED BY <1>3, <1>4
<1>6. ASSUME NEW k \in 0..n PROVE u[k] = OnlyStep(s, P, u, k)
  BY <1>5
<1>7. \A k \in 0..n : u[k] \in Seq(S)
  <2> DEFINE B == {k \in 0..n : u[k] \in Seq(S)}
  <2>1. 0 \in B
    <3>1. u[0] = <<>>
      BY <1>0, <1>6 DEF OnlyStep
    <3>2. u[0] \in Seq(S) /\ 0 \in 0..n
      BY <1>0, <3>1
    <3> QED BY <3>2
  <2>2. ASSUME NEW k \in 1..n, k - 1 \in B PROVE k \in B
    <3>1. k \in 0..n /\ k # 0 /\ s[k] \in S
      OBVIOUS
    <3>2. u[k] = IF k \in P THEN Append(u[k - 1], s[k]) ELSE u[k - 1]
      BY <1>6, <3>1 DEF OnlyStep
    <3>3. u[k - 1] \in Seq(S)
      BY <2>2
    <3>4. u[k] \in Seq(S)
      BY <3>1, <3>2, <3>3
    <3> QED BY <3>1, <3>4
  <2>3. \A k \in 0..n : k \in B
    <3> HIDE DEF B, n
    <3> QED BY <1>0, <2>1, <2>2, UpTo
  <2> QED BY <2>3
<1>8. u \in [0..n -> Seq(S)]
  BY <1>5, <1>7
<1> QED BY <1>5, <1>6, <1>8

\* p gives the positions, among the first k of P in s, that r is made of.
Picks(r, s, P, k, p) ==
  /\ p \in [1..Len(r) -> 1..k]
  /\ \A i, j \in 1..Len(r) : i < j => p[i] < p[j]
  /\ \A i \in 1..Len(r) : p[i] \in P /\ r[i] = s[p[i]]
  /\ \A m \in 1..k : m \in P => \E i \in 1..Len(r) : p[i] = m

\* One more position of P.
LEMMA PicksAnother ==
  ASSUME NEW S, NEW s \in Seq(S), NEW P, NEW k \in 1..Len(s), k \in P, NEW r \in Seq(S), NEW p, Picks(r, s, P, k - 1, p)
  PROVE  \E q : Picks(Append(r, s[k]), s, P, k, q)
<1> DEFINE n == Len(r)
           a == Append(r, s[k])
           q == [i \in 1..(n + 1) |-> IF i \in 1..n THEN p[i] ELSE k]
<1>1. n \in Nat /\ Len(a) = n + 1 /\ s[k] \in S
  OBVIOUS
<1>2. (\A i \in 1..n : a[i] = r[i] /\ i \in 1..(n + 1)) /\ a[n + 1] = s[k]
  BY <1>1
<1>3. \A i \in 1..n : p[i] \in 1..(k - 1) /\ p[i] \in 1..k /\ p[i] < k
  BY DEF Picks
<1>4. (\A i \in 1..n : q[i] = p[i]) /\ q[n + 1] = k
  BY <1>1
<1>5. q \in [1..(n + 1) -> 1..k]
  BY <1>1, <1>3
<1> HIDE DEF q, a
<1>6. \A i \in 1..(n + 1) : i \in 1..n \/ i = n + 1
  BY <1>1
<1>7. ASSUME NEW i \in 1..(n + 1), NEW j \in 1..(n + 1), i < j PROVE q[i] < q[j]
  <2>1. i \in 1..n
    BY <1>1, <1>7
  <2>2. CASE j \in 1..n
    BY <1>4, <1>7, <2>1, <2>2 DEF Picks
  <2>3. CASE j = n + 1
    BY <1>3, <1>4, <2>1, <2>3
  <2> QED BY <1>6, <2>2, <2>3
<1>8. ASSUME NEW i \in 1..(n + 1) PROVE q[i] \in P /\ a[i] = s[q[i]]
  <2>1. CASE i \in 1..n
    BY <1>2, <1>4, <2>1 DEF Picks
  <2>2. CASE i = n + 1
    BY <1>2, <1>4, <2>2
  <2> QED BY <1>6, <2>1, <2>2
<1>9. ASSUME NEW m \in 1..k, m \in P PROVE \E i \in 1..(n + 1) : q[i] = m
  <2>1. CASE m = k
    BY <1>1, <1>4, <2>1
  <2>2. CASE m \in 1..(k - 1)
    <3>1. PICK i \in 1..n : p[i] = m
      BY <1>9, <2>2 DEF Picks
    <3> QED BY <1>2, <1>4, <3>1
  <2> QED BY <2>1, <2>2
<1>10. Picks(a, s, P, k, q)
  BY <1>1, <1>5, <1>7, <1>8, <1>9 DEF Picks
<1> QED BY <1>10 DEF a

\* A position outside P.
LEMMA PicksNothing ==
  ASSUME NEW r, NEW s, NEW P, NEW k \in Nat \ {0}, k \notin P, Len(r) \in Nat, NEW p, Picks(r, s, P, k - 1, p)
  PROVE  Picks(r, s, P, k, p)
<1>1. \A i \in 1..Len(r) : p[i] \in 1..k
  BY DEF Picks
<1>2. \A m \in 1..k : m \in P => m \in 1..(k - 1)
  OBVIOUS
<1> QED BY <1>1, <1>2 DEF Picks

\* What Only returns: the elements at the given positions, in order, and no
\* others.
LEMMA OnlySpec ==
  ASSUME NEW S, NEW s \in Seq(S), NEW P
  PROVE  Only(s, P) \in Seq(S) /\ \E p : Picks(Only(s, P), s, P, Len(s), p)
<1> DEFINE n == Len(s)
<1>0. n \in Nat
  OBVIOUS
<1>1. PICK f \in [0..n -> Seq(S)] : Only(s, P) = f[n] /\ \A k \in 0..n : f[k] = OnlyStep(s, P, f, k)
  BY OnlyDef
<1> DEFINE B == {k \in 0..n : \E p : Picks(f[k], s, P, k, p)}
<1>2. 0 \in B
  <2>1. f[0] = <<>> /\ 0 \in 0..n
    BY <1>0, <1>1 DEF OnlyStep
  <2>2. Picks(<<>>, s, P, 0, [i \in 1..0 |-> 0])
    BY DEF Picks
  <2>3. Picks(f[0], s, P, 0, [i \in 1..0 |-> 0])
    BY <2>1, <2>2, Zenon
  <2> QED BY <2>1, <2>3
<1>3. ASSUME NEW k \in 1..n, k - 1 \in B PROVE k \in B
  <2>1. k \in 0..n /\ k - 1 \in 0..n /\ k # 0 /\ k \in Nat \ {0}
    BY <1>0
  <2>2. f[k] = IF k \in P THEN Append(f[k - 1], s[k]) ELSE f[k - 1]
    BY <1>1, <2>1 DEF OnlyStep
  <2>3. f[k - 1] \in Seq(S) /\ Len(f[k - 1]) \in Nat
    BY <2>1
  <2>4. PICK p : Picks(f[k - 1], s, P, k - 1, p)
    BY <1>3
  <2>5. CASE k \in P
    <3>1. \E q : Picks(Append(f[k - 1], s[k]), s, P, k, q)
      BY <2>3, <2>4, <2>5, PicksAnother
    <3>2. f[k] = Append(f[k - 1], s[k])
      BY <2>2, <2>5
    <3>3. \E q : Picks(f[k], s, P, k, q)
      BY <3>1, <3>2
    <3> QED BY <2>1, <3>3
  <2>6. CASE k \notin P
    BY <2>1, <2>2, <2>3, <2>4, <2>6, PicksNothing
  <2> QED BY <2>5, <2>6
<1>4. \A k \in 0..n : k \in B
  <2> HIDE DEF B, n
  <2> QED BY <1>0, <1>2, <1>3, UpTo
<1>5. n \in 0..n
  BY <1>0
<1> QED BY <1>1, <1>4, <1>5

\* What Only returns, without the order.
LEMMA OnlyRange ==
  ASSUME NEW S, NEW s \in Seq(S), NEW P
  PROVE  Range(Only(s, P)) = {s[i] : i \in DOMAIN s \cap P}
<1>1. PICK p : Picks(Only(s, P), s, P, Len(s), p)
  BY OnlySpec
<1>2. Only(s, P) \in Seq(S)
  BY OnlySpec
<1> DEFINE r == Only(s, P)
<1>3. DOMAIN r = 1..Len(r) /\ DOMAIN s = 1..Len(s)
  BY <1>2
<1> HIDE DEF r
<1>4. ASSUME NEW i \in DOMAIN r PROVE r[i] \in {s[k] : k \in DOMAIN s \cap P}
  BY <1>1, <1>3 DEF Picks, r
<1>5. ASSUME NEW k \in DOMAIN s \cap P PROVE \E i \in DOMAIN r : r[i] = s[k]
  <2>1. \A m \in 1..Len(s) : m \in P => \E i \in 1..Len(r) : p[i] = m
    BY <1>1 DEF Picks, r
  <2>2. \A i \in 1..Len(r) : r[i] = s[p[i]]
    BY <1>1 DEF Picks, r
  <2>3. PICK i \in DOMAIN r : p[i] = k
    BY <1>3, <2>1
  <2> QED BY <1>3, <2>2, <2>3
<1> QED BY <1>4, <1>5 DEF Range, r

----------------------------------------------------------------------------
(* Drafts.                                                                 *)

\* A function on 1..n is a sequence.
LEMMA IsSeq ==
  ASSUME NEW S, NEW n \in Nat, NEW f \in [1..n -> S]
  PROVE  f \in Seq(S) /\ Len(f) = n /\ DOMAIN f = 1..n
OBVIOUS

Drafts == [subs: Seq(SubmissionRecord), inbox: Seq(InboxItem), entries: Seq(EntryRecord), users: Seq(Nat)]

Statuses == Settled \cup {"queued", "placed"}

\* Change touches the status of open submissions only.
LEMMA ChangeFields ==
  ASSUME NEW D \in Drafts, NEW ids, NEW st \in Statuses
  PROVE  LET C == Change(D, ids, st)
         IN /\ C \in Drafts /\ C.inbox = D.inbox /\ C.entries = D.entries /\ C.users = D.users
            /\ Len(C.subs) = Len(D.subs) /\ DOMAIN C.subs = DOMAIN D.subs
            /\ \A id \in DOMAIN D.subs :
                 /\ C.subs[id].type = D.subs[id].type
                 /\ C.subs[id].status = IF id \in ids /\ D.subs[id].status \notin Settled THEN st ELSE D.subs[id].status
<1> DEFINE s == [id \in DOMAIN D.subs |->
             IF id \in ids /\ D.subs[id].status \notin Settled THEN [D.subs[id] EXCEPT !.status = st] ELSE D.subs[id]]
           C == [D EXCEPT !.subs = s]
<1>1. D.subs \in Seq(SubmissionRecord)
  BY DEF Drafts
<1>2. ASSUME NEW r \in SubmissionRecord
      PROVE  [r EXCEPT !.status = st] \in SubmissionRecord /\ [r EXCEPT !.status = st].type = r.type
             /\ [r EXCEPT !.status = st].status = st
  BY DEF SubmissionRecord, Statuses
<1>3. \A id \in DOMAIN D.subs : D.subs[id] \in SubmissionRecord
  BY <1>1
<1>4. ASSUME NEW id \in DOMAIN D.subs
      PROVE  /\ s[id] \in SubmissionRecord /\ s[id].type = D.subs[id].type
             /\ s[id].status = IF id \in ids /\ D.subs[id].status \notin Settled THEN st ELSE D.subs[id].status
  BY <1>2, <1>3
<1>5. s \in Seq(SubmissionRecord) /\ Len(s) = Len(D.subs) /\ DOMAIN s = DOMAIN D.subs
  <2> DEFINE n == Len(D.subs)
  <2>1. n \in Nat /\ DOMAIN D.subs = 1..n
    BY <1>1
  <2>2. s \in [1..n -> SubmissionRecord]
    <3>1. DOMAIN s = 1..n /\ s = [id \in DOMAIN s |-> s[id]]
      BY <2>1
    <3> HIDE DEF s
    <3> QED BY <2>1, <3>1, <1>4
  <2> HIDE DEF s, n
  <2>3. s \in Seq(SubmissionRecord) /\ Len(s) = n /\ DOMAIN s = 1..n
    BY <2>1, <2>2, IsSeq
  <2> QED BY <2>1, <2>3 DEF n
<1> HIDE DEF s
<1>6. C \in Drafts /\ C.inbox = D.inbox /\ C.entries = D.entries /\ C.users = D.users /\ C.subs = s
  BY <1>5 DEF Drafts
<1>7. Change(D, ids, st) = C
  BY DEF Change, s
<1> HIDE DEF C
<1> QED BY <1>4, <1>5, <1>6, <1>7

\* AppendTo touches the entries only.
LEMMA AppendFields ==
  ASSUME NEW D \in Drafts, NEW e \in EntryRecord
  PROVE  LET C == AppendTo(D, e)
         IN /\ C \in Drafts /\ C.inbox = D.inbox /\ C.subs = D.subs /\ C.users = D.users
            /\ C.entries = Append(D.entries, e)
<1> DEFINE E == Append(D.entries, e)
<1>1. E \in Seq(EntryRecord)
  BY DEF Drafts
<1> HIDE DEF E
<1>2. LET C == [D EXCEPT !.entries = E]
      IN C \in Drafts /\ C.inbox = D.inbox /\ C.subs = D.subs /\ C.users = D.users /\ C.entries = E
  BY <1>1 DEF Drafts
<1> QED BY <1>2 DEF AppendTo, E

\* The fields of an entry.
LEMMA EntryTyped ==
  ASSUME NEW kind \in {"user", "assistant", "result", "reset", "summary"}, NEW of \in Nat,
         NEW calls \in Seq(Range(Calls)), NEW head \in Nat
  PROVE  LET e == Entry(kind, of, calls, head)
         IN e \in EntryRecord /\ e.kind = kind /\ e.of = of /\ e.calls = calls /\ e.head = head
BY DEF Entry, EntryRecord

----------------------------------------------------------------------------
(* The start of the active range.                                          *)

\* i is the last head marker of the first k entries, or there is none.
IsMarker(E, k, i) ==
  /\ i \in 0..k /\ (i > 0 => E[i].head > 0)
  /\ \A j \in (i + 1)..k : E[j].head = 0

\* There is exactly one such position.
LEMMA MarkerIs ==
  ASSUME NEW E \in Seq(EntryRecord)
  PROVE  /\ IsMarker(E, Len(E), Marker(E))
         /\ \A i : IsMarker(E, Len(E), i) => Marker(E) = i
<1> DEFINE n == Len(E)
           B == {k \in 0..n : \E i : IsMarker(E, k, i)}
<1>0. n \in Nat /\ \A k \in 1..n : E[k].head \in Nat
  <2>1. \A k \in 1..n : E[k] \in EntryRecord
    OBVIOUS
  <2> QED BY <2>1 DEF EntryRecord
<1>1. 0 \in B
  <2>1. IsMarker(E, 0, 0)
    BY DEF IsMarker
  <2> QED BY <1>0, <2>1
<1>2. ASSUME NEW k \in 1..n, k - 1 \in B PROVE k \in B
  <2>1. PICK i : IsMarker(E, k - 1, i)
    BY <1>2
  <2>2. CASE E[k].head > 0
    <3>1. IsMarker(E, k, k)
      BY <1>0, <2>2 DEF IsMarker
    <3> QED BY <3>1, <1>0
  <2>3. CASE E[k].head = 0
    <3>1. IsMarker(E, k, i)
      BY <1>0, <2>1, <2>3 DEF IsMarker
    <3> QED BY <3>1, <1>0
  <2> QED BY <1>0, <2>2, <2>3
<1>3. \A k \in 0..n : k \in B
  <2> HIDE DEF B, n
  <2> QED BY <1>0, <1>1, <1>2, UpTo
<1>4. \E i : IsMarker(E, n, i)
  BY <1>0, <1>3
<1>5. \E i \in 0..n : (i > 0 => E[i].head > 0) /\ \A j \in (i + 1)..n : E[j].head = 0
  BY <1>4 DEF IsMarker
<1>6. IsMarker(E, n, Marker(E))
  BY <1>5 DEF Marker, IsMarker
<1>7. ASSUME NEW i, IsMarker(E, n, i), NEW m, IsMarker(E, n, m) PROVE i = m
  BY <1>0, <1>7 DEF IsMarker
<1> QED BY <1>6, <1>7

\* Entries that set no head leave the active range as it is.
LEMMA RangeKept ==
  ASSUME NEW E \in Seq(EntryRecord), NEW F \in Seq(EntryRecord), Len(E) <= Len(F),
         \A i \in 1..Len(E) : F[i] = E[i], \A i \in (Len(E) + 1)..Len(F) : F[i].head = 0
  PROVE  RangeStart(F) = RangeStart(E)
<1>1. IsMarker(E, Len(E), Marker(E))
  BY MarkerIs
<1>2. IsMarker(F, Len(F), Marker(E))
  BY <1>1 DEF IsMarker
<1>3. Marker(F) = Marker(E)
  BY <1>2, MarkerIs
<1> QED BY <1>1, <1>3 DEF RangeStart, IsMarker

\* A head marker starts the active range at its head.
LEMMA RangeMoved ==
  ASSUME NEW E \in Seq(EntryRecord), NEW e \in EntryRecord, e.head > 0
  PROVE  RangeStart(Append(E, e)) = e.head
<1> DEFINE F == Append(E, e)
<1>1. F \in Seq(EntryRecord) /\ Len(F) = Len(E) + 1 /\ F[Len(E) + 1] = e /\ Len(E) \in Nat
  OBVIOUS
<1> HIDE DEF F
<1>2. IsMarker(F, Len(F), Len(F))
  BY <1>1 DEF IsMarker
<1>3. Marker(F) = Len(F)
  BY <1>1, <1>2, MarkerIs
<1>4. RangeStart(F) = e.head
  BY <1>1, <1>3 DEF RangeStart
<1> QED BY <1>4 DEF F

\* No head points beyond its own entry.
HeadsIn(E) == \A i \in DOMAIN E : E[i].head <= i

\* The active range starts within the transcript.
LEMMA RangeWithin ==
  ASSUME NEW E \in Seq(EntryRecord), HeadsIn(E)
  PROVE  RangeStart(E) \in 0..Len(E)
<1>1. IsMarker(E, Len(E), Marker(E))
  BY MarkerIs
<1>2. ASSUME Marker(E) # 0 PROVE E[Marker(E)].head \in 0..Len(E)
  <2>1. Marker(E) \in 1..Len(E)
    BY <1>1, <1>2 DEF IsMarker
  <2>2. E[Marker(E)] \in EntryRecord /\ E[Marker(E)].head <= Marker(E)
    BY <2>1 DEF HeadsIn
  <2> QED BY <2>1, <2>2 DEF EntryRecord
<1> QED BY <1>2 DEF RangeStart

----------------------------------------------------------------------------
(* Boundaries.                                                             *)

Extends(E, F) == Len(E) <= Len(F) /\ \A i \in 1..Len(E) : F[i] = E[i]

\* What a commit may do to the transcript besides adding calls and results.
Neutral(E, F) ==
  /\ Extends(E, F) /\ HeadsIn(F) /\ RangeStart(E) <= RangeStart(F)
  /\ \A i \in (Len(E) + 1)..Len(F) : F[i].kind \in {"user", "reset", "summary"}

\* Nothing appended.
LEMMA NeutralRefl ==
  ASSUME NEW E \in Seq(EntryRecord), HeadsIn(E) PROVE Neutral(E, E)
BY RangeWithin DEF Neutral, Extends

\* One after the other.
LEMMA NeutralTrans ==
  ASSUME NEW E \in Seq(EntryRecord), NEW F \in Seq(EntryRecord), NEW G \in Seq(EntryRecord),
         HeadsIn(E), Neutral(E, F), Neutral(F, G)
  PROVE  Neutral(E, G)
<1>1. RangeStart(E) \in Nat /\ RangeStart(F) \in Nat /\ RangeStart(G) \in Nat
  BY RangeWithin DEF Neutral
<1>2. \A i \in (Len(E) + 1)..Len(G) : i \in (Len(E) + 1)..Len(F) \/ i \in (Len(F) + 1)..Len(G)
  BY DEF Neutral, Extends
<1>3. \A i \in (Len(E) + 1)..Len(F) : G[i] = F[i]
  BY DEF Neutral, Extends
<1>4. Extends(E, G)
  BY DEF Neutral, Extends
<1>5. \A i \in (Len(E) + 1)..Len(G) : G[i].kind \in {"user", "reset", "summary"}
  BY <1>2, <1>3 DEF Neutral
<1>6. RangeStart(E) <= RangeStart(G) /\ HeadsIn(G)
  BY <1>1 DEF Neutral
<1> QED BY <1>4, <1>5, <1>6 DEF Neutral

\* A user message, or a head that is not behind the active range.
LEMMA NeutralAppend ==
  ASSUME NEW E \in Seq(EntryRecord), HeadsIn(E), NEW e \in EntryRecord, e.head <= Len(E) + 1,
         e.kind \in {"user", "reset", "summary"}, e.head = 0 \/ RangeStart(E) <= e.head
  PROVE  Neutral(E, Append(E, e))
<1> DEFINE F == Append(E, e)
<1>1. F \in Seq(EntryRecord) /\ Len(F) = Len(E) + 1 /\ F[Len(E) + 1] = e /\ Len(E) \in Nat
  OBVIOUS
<1>2. \A i \in 1..Len(E) : F[i] = E[i]
  OBVIOUS
<1>3. e.head \in Nat
  BY DEF EntryRecord
<1> HIDE DEF F
<1>4. HeadsIn(F)
  <2> SUFFICES ASSUME NEW i \in 1..Len(F) PROVE F[i].head <= i
    BY <1>1 DEF HeadsIn
  <2>1. CASE i \in 1..Len(E)
    BY <1>2, <2>1 DEF HeadsIn
  <2>2. CASE i = Len(E) + 1
    BY <1>1, <1>3, <2>2
  <2> QED BY <1>1, <2>1, <2>2
<1>5. RangeStart(E) <= RangeStart(F)
  <2>1. CASE e.head = 0
    <3>1. RangeStart(F) = RangeStart(E)
      BY <1>1, <1>2, <2>1, RangeKept
    <3> QED BY <3>1, RangeWithin
  <2>2. CASE e.head > 0
    BY <2>2, RangeMoved DEF F
  <2> QED BY <1>3, <2>1, <2>2
<1>6. Neutral(E, F)
  BY <1>1, <1>2, <1>4, <1>5 DEF Neutral, Extends
<1> QED BY <1>6 DEF F

\* A head that was appended is one of some numbers, or lies among what was appended.
Sourced(E, F, K) ==
  \A i \in (Len(E) + 1)..Len(F) : F[i].head \in K \cup {0} \/ F[i].head > Len(E)

HeadsOf(I) == {I[i].head : i \in DOMAIN I}

\* The heads of an inbox, with one more at most.
HeadsWithin(J, I, h) == HeadsOf(J) \subseteq HeadsOf(I) \cup {h}

\* One more entry.
LEMMA SourcedAppend ==
  ASSUME NEW E \in Seq(EntryRecord), NEW e \in EntryRecord, NEW K, e.head \in K \cup {0} \/ e.head > Len(E)
  PROVE  Sourced(E, Append(E, e), K)
<1> DEFINE F == Append(E, e)
           n == Len(E)
<1>1. n \in Nat /\ Len(F) = n + 1 /\ F[n + 1] = e
  OBVIOUS
<1> HIDE DEF F
<1>2. \A i \in (n + 1)..(n + 1) : i = n + 1
  BY <1>1
<1>3. \A i \in (n + 1)..Len(F) : F[i] = e
  BY <1>1, <1>2
<1> QED BY <1>3 DEF Sourced, F

\* Nothing appended.
LEMMA SourcedRefl == ASSUME NEW E \in Seq(EntryRecord), NEW K PROVE Sourced(E, E, K)
BY DEF Sourced

\* One after the other.
LEMMA SourcedTrans ==
  ASSUME NEW E \in Seq(EntryRecord), NEW F \in Seq(EntryRecord), NEW G \in Seq(EntryRecord), NEW K,
         Extends(E, F), Extends(F, G), NEW L, NEW M, Sourced(E, F, L), Sourced(F, G, M), L \subseteq K, M \subseteq K
  PROVE  Sourced(E, G, K) /\ Extends(E, G)
<1> DEFINE n == Len(E)
           m == Len(F)
           l == Len(G)
<1>1. n \in Nat /\ m \in Nat /\ l \in Nat /\ n <= m /\ m <= l
  BY DEF Extends
<1>2. \A i \in (n + 1)..l : G[i].head \in Nat
  <2>1. \A i \in 1..l : G[i] \in EntryRecord
    OBVIOUS
  <2> HIDE DEF n, m, l
  <2>2. \A i \in (n + 1)..l : i \in 1..l
    BY <1>1
  <2> QED BY <2>1, <2>2 DEF EntryRecord
<1>3. /\ \A i \in 1..n : F[i] = E[i]
      /\ \A i \in 1..m : G[i] = F[i]
      /\ \A i \in (n + 1)..m : F[i].head \in K \cup {0} \/ F[i].head > n
      /\ \A i \in (m + 1)..l : G[i].head \in K \cup {0} \/ G[i].head > m
  BY DEF Sourced, Extends
<1> HIDE DEF n, m, l
<1>4. n <= l /\ (\A i \in 1..n : i \in 1..m) /\ \A i \in (n + 1)..l : i \in (m + 1)..l \/ (i \in (n + 1)..m /\ i \in 1..m)
  BY <1>1
<1>5. \A i \in 1..n : G[i] = E[i]
  BY <1>3, <1>4
<1>6. \A i \in (n + 1)..l : G[i].head \in K \cup {0} \/ G[i].head > n
  <2> SUFFICES ASSUME NEW i \in (n + 1)..l PROVE G[i].head \in K \cup {0} \/ G[i].head > n
    OBVIOUS
  <2>1. CASE i \in (m + 1)..l
    <3>1. G[i].head > m /\ G[i].head \in Nat => G[i].head > n
      BY <1>1
    <3> QED BY <1>2, <1>3, <2>1, <3>1
  <2>2. CASE i \in (n + 1)..m /\ i \in 1..m
    BY <1>3, <2>2
  <2> QED BY <1>4, <2>1, <2>2
<1> QED BY <1>4, <1>5, <1>6 DEF Sourced, Extends, n, l

\* The entry of a write, placed when it is not stale.
LEMMA WritePlaced ==
  ASSUME NEW D \in Drafts, HeadsIn(D.entries), NEW head \in Int, head \in -1..Len(D.entries), ~IsStale(D, head)
  PROVE  /\ WriteEntry(D, head) \in EntryRecord
         /\ Neutral(D.entries, Append(D.entries, WriteEntry(D, head)))
         /\ Sourced(D.entries, Append(D.entries, WriteEntry(D, head)), {head})
<1> DEFINE e == WriteEntry(D, head)
<1>1. D.entries \in Seq(EntryRecord) /\ Len(D.entries) \in Nat
  BY DEF Drafts
<1>2. RangeStart(D.entries) \in 0..Len(D.entries)
  BY <1>1, RangeWithin
<1>3. /\ e \in EntryRecord /\ e.kind \in {"reset", "summary"}
      /\ e.head = IF head = -1 THEN Len(D.entries) + 1 ELSE head
  BY <1>1 DEF WriteEntry, Entry, EntryRecord
<1>4. e.head <= Len(D.entries) + 1 /\ (e.head = 0 \/ RangeStart(D.entries) <= e.head)
  BY <1>1, <1>2, <1>3 DEF IsStale
<1>5. e.head \in {head} \cup {0} \/ e.head > Len(D.entries)
  BY <1>1, <1>3
<1> HIDE DEF e
<1>6. Neutral(D.entries, Append(D.entries, e))
  BY <1>1, <1>3, <1>4, NeutralAppend
<1>7. Sourced(D.entries, Append(D.entries, e), {head})
  BY <1>1, <1>3, <1>5, SourcedAppend
<1> QED BY <1>3, <1>6, <1>7 DEF e

\* What placing one write changes.
LEMMA PlaceWriteFields ==
  ASSUME NEW D \in Drafts, HeadsIn(D.entries), NEW item \in InboxItem, item.head \in -1..Len(D.entries)
  PROVE  LET C == PlaceWrite(D, item)
         IN /\ C \in Drafts /\ C.inbox = D.inbox /\ C.users = D.users /\ Neutral(D.entries, C.entries)
            /\ Sourced(D.entries, C.entries, {item.head})
            /\ Len(C.subs) = Len(D.subs) /\ DOMAIN C.subs = DOMAIN D.subs
            /\ \A id \in DOMAIN D.subs :
                 /\ C.subs[id].type = D.subs[id].type
                 /\ IF id = item.id /\ D.subs[id].status \notin Settled
                    THEN C.subs[id].status \in {"done", "stale"} ELSE C.subs[id].status = D.subs[id].status
<1>1. {"done", "stale"} \subseteq Statuses
  BY DEF Statuses, Settled
<1>2. CASE IsStale(D, item.head)
  <2>1. PlaceWrite(D, item) = Change(D, {item.id}, "stale")
    BY <1>2 DEF PlaceWrite
  <2>2. D.entries \in Seq(EntryRecord)
    BY DEF Drafts
  <2>3. Sourced(D.entries, D.entries, {item.head}) /\ Neutral(D.entries, D.entries)
    BY <2>2, SourcedRefl, NeutralRefl
  <2> QED BY <1>1, <2>1, <2>3, ChangeFields
<1>3. CASE ~IsStale(D, item.head)
  <2> DEFINE A == AppendTo(D, WriteEntry(D, item.head))
  <2>1. PlaceWrite(D, item) = Change(A, {item.id}, "done")
    BY <1>3 DEF PlaceWrite
  <2>2. item.head \in Int
    BY DEF InboxItem
  <2>3. WriteEntry(D, item.head) \in EntryRecord /\ Neutral(D.entries, Append(D.entries, WriteEntry(D, item.head)))
        /\ Sourced(D.entries, Append(D.entries, WriteEntry(D, item.head)), {item.head})
    BY <1>3, <2>2, WritePlaced
  <2>4. /\ A \in Drafts /\ A.inbox = D.inbox /\ A.subs = D.subs /\ A.users = D.users
        /\ A.entries = Append(D.entries, WriteEntry(D, item.head))
    BY <2>3, AppendFields
  <2> HIDE DEF A
  <2> DEFINE C == Change(A, {item.id}, "done")
  <2>5. /\ C \in Drafts /\ C.inbox = A.inbox /\ C.entries = A.entries /\ C.users = A.users
        /\ Len(C.subs) = Len(A.subs) /\ DOMAIN C.subs = DOMAIN A.subs
        /\ \A id \in DOMAIN A.subs :
             /\ C.subs[id].type = A.subs[id].type
             /\ C.subs[id].status =
                  IF id \in {item.id} /\ A.subs[id].status \notin Settled THEN "done" ELSE A.subs[id].status
    BY <1>1, <2>4, ChangeFields
  <2> HIDE DEF C
  <2>6. Neutral(D.entries, C.entries) /\ Sourced(D.entries, C.entries, {item.head})
    BY <2>3, <2>4, <2>5
  <2>7. C = PlaceWrite(D, item)
    BY <2>1 DEF C
  <2> QED BY <2>4, <2>5, <2>6, <2>7
<1> QED BY <1>2, <1>3

\* A draft whose inbox holds the queued submissions, in order.
Orderly(D) ==
  /\ D \in Drafts /\ HeadsIn(D.entries)
  /\ \A i \in DOMAIN D.inbox : /\ D.inbox[i].head \in -1..Len(D.entries)
                               /\ D.inbox[i].id \in DOMAIN D.subs /\ D.subs[D.inbox[i].id].status = "queued"
  /\ \A id \in DOMAIN D.subs : D.subs[id].status = "queued" => \E i \in DOMAIN D.inbox : D.inbox[i].id = id
  /\ \A i, j \in DOMAIN D.inbox : i < j => D.inbox[i].id < D.inbox[j].id

\* What is the same in a later draft of the same commit.
Follows(D, C) ==
  /\ C \in Drafts /\ C.inbox = D.inbox /\ C.users = D.users /\ Neutral(D.entries, C.entries)
  /\ Sourced(D.entries, C.entries, HeadsOf(D.inbox))
  /\ Len(C.subs) = Len(D.subs) /\ DOMAIN C.subs = DOMAIN D.subs
  /\ \A id \in DOMAIN D.subs : C.subs[id].type = D.subs[id].type

\* The draft after the writes among the first n items of the inbox.
Stage(D, n, C) ==
  /\ Follows(D, C)
  /\ \A id \in DOMAIN D.subs :
       IF \E i \in 1..n : D.inbox[i].id = id /\ D.inbox[i].mode = "write"
       THEN C.subs[id].status \in {"done", "stale"} ELSE C.subs[id].status = D.subs[id].status

WriteStep(D, f, n) ==
  IF n = 0 THEN D
  ELSE IF D.inbox[n].mode = "write" THEN PlaceWrite(f[n - 1], D.inbox[n]) ELSE f[n - 1]

\* What is known of an item of the inbox.
LEMMA OrderlyItem ==
  ASSUME NEW D, Orderly(D), NEW k \in 1..Len(D.inbox)
  PROVE  /\ D.inbox[k] \in InboxItem /\ D.inbox[k].head \in -1..Len(D.entries)
         /\ D.inbox[k].id \in DOMAIN D.subs /\ D.subs[D.inbox[k].id].status = "queued"
         /\ \A j \in 1..Len(D.inbox) : D.inbox[j].id = D.inbox[k].id => j = k
<1>1. D.inbox \in Seq(InboxItem)
  BY DEF Orderly, Drafts
<1> DEFINE s == D.inbox
<1>2. DOMAIN s = 1..Len(s) /\ Len(s) \in Nat /\ \A j \in 1..Len(s) : s[j] \in InboxItem
  <2> HIDE DEF s
  <2> QED BY <1>1 DEF s
<1>3. \A j \in 1..Len(s) : s[j].id = s[k].id => j = k
  <2>1. \A i, j \in 1..Len(s) : i < j => s[i].id < s[j].id
    BY <1>2 DEF Orderly
  <2>2. \A x \in InboxItem : x.id \in Nat
    BY DEF InboxItem
  <2>3. \A j \in 1..Len(s) : s[j].id \in Nat
    <3> HIDE DEF s
    <3> QED BY <1>2, <2>2
  <2> HIDE DEF s
  <2> QED BY <1>2, <2>1, <2>3 DEF s
<1>4. s[k] \in InboxItem
  BY <1>2
<1> QED BY <1>2, <1>3, <1>4 DEF Orderly

\* Placing one more write, in a draft that follows.
LEMMA PlaceNext ==
  ASSUME NEW D, Orderly(D), NEW k \in 1..Len(D.inbox), NEW C, Follows(D, C)
  PROVE  LET B == PlaceWrite(C, D.inbox[k])
         IN /\ Follows(D, B)
            /\ \A id \in DOMAIN D.subs :
                 IF id = D.inbox[k].id /\ C.subs[id].status \notin Settled
                 THEN B.subs[id].status \in {"done", "stale"} ELSE B.subs[id].status = C.subs[id].status
<1> DEFINE item == D.inbox[k]
           B == PlaceWrite(C, item)
<1>1. item \in InboxItem /\ item.head \in -1..Len(D.entries)
  BY OrderlyItem
<1>2. D \in Drafts /\ D.entries \in Seq(EntryRecord) /\ HeadsIn(D.entries)
  BY DEF Orderly, Drafts
<1>3. C \in Drafts /\ C.entries \in Seq(EntryRecord) /\ HeadsIn(C.entries) /\ Len(D.entries) <= Len(C.entries)
  BY DEF Follows, Neutral, Extends, Drafts
<1>4. item.head \in -1..Len(C.entries)
  BY <1>1, <1>2, <1>3
<1>5. /\ B \in Drafts /\ B.inbox = C.inbox /\ B.users = C.users /\ Neutral(C.entries, B.entries)
      /\ Sourced(C.entries, B.entries, {item.head})
      /\ Len(B.subs) = Len(C.subs) /\ DOMAIN B.subs = DOMAIN C.subs
      /\ \A id \in DOMAIN C.subs :
           /\ B.subs[id].type = C.subs[id].type
           /\ IF id = item.id /\ C.subs[id].status \notin Settled
              THEN B.subs[id].status \in {"done", "stale"} ELSE B.subs[id].status = C.subs[id].status
  <2> HIDE DEF item
  <2> QED BY <1>1, <1>3, <1>4, PlaceWriteFields
<1>6. {item.head} \subseteq HeadsOf(D.inbox)
  <2>1. k \in DOMAIN D.inbox
    BY DEF Orderly, Drafts
  <2> QED BY <2>1 DEF HeadsOf
<1> HIDE DEF B, item
<1>7. Neutral(D.entries, B.entries)
  <2>1. B.entries \in Seq(EntryRecord)
    BY <1>5 DEF Drafts
  <2> QED BY <1>2, <1>3, <1>5, <2>1, NeutralTrans DEF Follows
<1>8. Sourced(D.entries, B.entries, HeadsOf(D.inbox))
  <2>1. B.entries \in Seq(EntryRecord) /\ Extends(D.entries, C.entries) /\ Extends(C.entries, B.entries)
    BY <1>5 DEF Drafts, Follows, Neutral
  <2>2. Sourced(D.entries, C.entries, HeadsOf(D.inbox))
    BY DEF Follows
  <2> QED BY <1>2, <1>3, <1>5, <1>6, <2>1, <2>2, SourcedTrans
<1>9. Follows(D, B)
  BY <1>5, <1>7, <1>8 DEF Follows
<1> QED BY <1>5, <1>9 DEF B, item, Follows

\* Every stage of PlaceWrites.
LEMMA StageNext ==
  ASSUME NEW D, Orderly(D), NEW k \in 1..Len(D.inbox), NEW C, Stage(D, k - 1, C)
  PROVE  Stage(D, k, IF D.inbox[k].mode = "write" THEN PlaceWrite(C, D.inbox[k]) ELSE C)
<1> DEFINE id == D.inbox[k].id
<1>1. /\ id \in DOMAIN D.subs /\ D.subs[id].status = "queued"
      /\ \A j \in 1..Len(D.inbox) : D.inbox[j].id = id => j = k
  BY OrderlyItem
<1>2. \A i \in 1..k : i \in 1..Len(D.inbox) /\ (i \in 1..(k - 1) \/ i = k)
  OBVIOUS
<1>3. \A i \in 1..(k - 1) : i \in 1..k /\ i # k
  OBVIOUS
<1>4. CASE D.inbox[k].mode # "write"
  <2>1. ASSUME NEW s PROVE (\E i \in 1..k : D.inbox[i].id = s /\ D.inbox[i].mode = "write")
                            <=> (\E i \in 1..(k - 1) : D.inbox[i].id = s /\ D.inbox[i].mode = "write")
    BY <1>2, <1>3, <1>4
  <2> QED BY <1>4, <2>1 DEF Stage
<1>5. CASE D.inbox[k].mode = "write"
  <2> DEFINE B == PlaceWrite(C, D.inbox[k])
  <2>1. Follows(D, C)
    BY DEF Stage
  <2>2. /\ Follows(D, B)
        /\ \A s \in DOMAIN D.subs :
             IF s = D.inbox[k].id /\ C.subs[s].status \notin Settled
             THEN B.subs[s].status \in {"done", "stale"} ELSE B.subs[s].status = C.subs[s].status
    BY <2>1, PlaceNext
  <2> HIDE DEF B
  <2>3. C.subs[id].status = "queued"
    <3>1. ~ \E i \in 1..(k - 1) : D.inbox[i].id = id /\ D.inbox[i].mode = "write"
      BY <1>1, <1>2, <1>3
    <3> HIDE DEF id
    <3> QED BY <1>1, <3>1 DEF Stage
  <2>4. ASSUME NEW s \in DOMAIN D.subs
        PROVE  IF \E i \in 1..k : D.inbox[i].id = s /\ D.inbox[i].mode = "write"
               THEN B.subs[s].status \in {"done", "stale"} ELSE B.subs[s].status = D.subs[s].status
    <3>1. CASE s = id
      <4>1. B.subs[s].status \in {"done", "stale"}
        BY <2>2, <2>3, <3>1 DEF Settled
      <4>2. \E i \in 1..k : D.inbox[i].id = s /\ D.inbox[i].mode = "write"
        BY <1>5, <3>1
      <4> QED BY <4>1, <4>2
    <3>2. CASE s # id
      <4>1. (\E i \in 1..k : D.inbox[i].id = s /\ D.inbox[i].mode = "write")
              <=> (\E i \in 1..(k - 1) : D.inbox[i].id = s /\ D.inbox[i].mode = "write")
        BY <1>2, <1>3, <3>2
      <4>2. B.subs[s].status = C.subs[s].status
        BY <2>2, <3>2
      <4> QED BY <4>1, <4>2 DEF Stage
    <3> QED BY <3>1, <3>2
  <2> QED BY <1>5, <2>2, <2>4 DEF Stage, B
<1> QED BY <1>4, <1>5

\* A draft follows itself.
LEMMA FollowsSelf == ASSUME NEW D, Orderly(D) PROVE Follows(D, D) /\ Stage(D, 0, D)
<1>1. D \in Drafts /\ D.entries \in Seq(EntryRecord) /\ HeadsIn(D.entries)
  BY DEF Orderly, Drafts
<1>2. Neutral(D.entries, D.entries) /\ Sourced(D.entries, D.entries, HeadsOf(D.inbox))
  BY <1>1, NeutralRefl, SourcedRefl
<1>3. Follows(D, D)
  BY <1>1, <1>2 DEF Follows
<1>4. \A id : ~ \E i \in 1..0 : D.inbox[i].id = id /\ D.inbox[i].mode = "write"
  OBVIOUS
<1> QED BY <1>3, <1>4 DEF Stage

\* PlaceWrites places every write of the inbox and touches nothing else.
LEMMA PlaceWritesSpec ==
  ASSUME NEW D, Orderly(D)
  PROVE  Stage(D, Len(D.inbox), PlaceWrites(D))
<1> DEFINE n == Len(D.inbox)
           Eq(f) == f = [k \in 0..n |-> WriteStep(D, f, k)]
           A == {C \in Drafts : Follows(D, C)}
           next(C, k) == IF D.inbox[k].mode = "write" THEN PlaceWrite(C, D.inbox[k]) ELSE C
           step == [k \in 1..n |-> [C \in A |-> next(C, k)]]
<1>0. n \in Nat
  BY DEF Orderly, Drafts
<1>1. \A C : Follows(D, C) => C \in A
  BY DEF Follows
<1>2. D \in A
  BY <1>1, FollowsSelf
<1>3. ASSUME NEW k \in 1..n, NEW C \in A PROVE next(C, k) \in A
  <2>1. Follows(D, C)
    OBVIOUS
  <2>2. Follows(D, PlaceWrite(C, D.inbox[k]))
    BY <2>1, PlaceNext
  <2>3. PlaceWrite(C, D.inbox[k]) \in A
    BY <1>1, <2>2
  <2> HIDE DEF A
  <2> QED BY <2>3
<1>4. \E f \in [0..n -> A] : f[0] = D /\ \A k \in 1..n : f[k] = step[k][f[k - 1]]
  <2>1. step \in [1..n -> [A -> A]]
    <3> HIDE DEF A, n, next
    <3> QED BY <1>3
  <2> HIDE DEF step, n, A
  <2> QED BY <1>0, <1>2, <2>1, FoldExists
<1>5. \E f : Eq(f)
  <2>1. PICK f \in [0..n -> A] : f[0] = D /\ \A k \in 1..n : f[k] = step[k][f[k - 1]]
    BY <1>4
  <2>2. ASSUME NEW k \in 0..n PROVE f[k] = WriteStep(D, f, k)
    <3>1. CASE k = 0
      BY <2>1, <3>1 DEF WriteStep
    <3>2. CASE k \in 1..n
      <4>1. k - 1 \in 0..n /\ k # 0
        BY <1>0, <3>2
      <4>2. f[k - 1] \in A
        <5> HIDE DEF A, n
        <5> QED BY <4>1
      <4>3. step[k][f[k - 1]] = next(f[k - 1], k)
        <5> HIDE DEF A, n, next
        <5> QED BY <3>2, <4>2
      <4>4. f[k] = next(f[k - 1], k)
        BY <2>1, <3>2, <4>3
      <4> HIDE DEF n, A
      <4> QED BY <4>1, <4>4 DEF WriteStep
    <3> QED BY <1>0, <3>1, <3>2
  <2>3. Eq(f)
    <3> HIDE DEF A, n
    <3> QED BY <2>2
  <2> HIDE DEF Eq
  <2> QED BY <2>3
<1>6. Eq(CHOOSE f : Eq(f))
  <2> HIDE DEF Eq
  <2> QED BY <1>5
<1>7. PlaceWrites(D) = (CHOOSE f : Eq(f))[n]
  BY DEF PlaceWrites, WriteStep
<1>8. PICK u : Eq(u) /\ PlaceWrites(D) = u[n]
  <2> HIDE DEF Eq
  <2> QED BY <1>6, <1>7
<1>9. \A k \in 0..n : u[k] = WriteStep(D, u, k)
  <2> HIDE DEF n
  <2> QED BY <1>8
<1>10. \A k \in 0..n : Stage(D, k, u[k])
  <2> DEFINE B == {k \in 0..n : Stage(D, k, u[k])}
  <2>1. 0 \in B
    <3>1. u[0] = D /\ 0 \in 0..n
      BY <1>0, <1>9 DEF WriteStep
    <3>2. Stage(D, 0, u[0])
      BY <3>1, FollowsSelf
    <3> QED BY <3>1, <3>2
  <2>2. ASSUME NEW k \in 1..n, k - 1 \in B PROVE k \in B
    <3>1. k \in 0..n /\ k # 0
      BY <1>0
    <3>2. u[k] = IF D.inbox[k].mode = "write" THEN PlaceWrite(u[k - 1], D.inbox[k]) ELSE u[k - 1]
      BY <1>9, <3>1 DEF WriteStep
    <3>3. Stage(D, k - 1, u[k - 1])
      BY <2>2
    <3>4. Stage(D, k, u[k])
      BY <3>2, <3>3, StageNext
    <3> QED BY <3>1, <3>4
  <2>3. \A k \in 0..n : k \in B
    <3> HIDE DEF B, n
    <3> QED BY <1>0, <2>1, <2>2, UpTo
  <2> QED BY <2>3
<1> QED BY <1>0, <1>8, <1>10

\* Any entries that set no head, after a transcript.
LEMMA PlainCat ==
  ASSUME NEW E \in Seq(EntryRecord), HeadsIn(E), NEW F \in Seq(EntryRecord), \A i \in 1..Len(F) : F[i].head = 0
  PROVE  /\ E \o F \in Seq(EntryRecord) /\ Extends(E, E \o F) /\ HeadsIn(E \o F)
         /\ RangeStart(E \o F) = RangeStart(E)
         /\ Len(E \o F) = Len(E) + Len(F)
         /\ \A i \in (Len(E) + 1)..Len(E \o F) : i - Len(E) \in 1..Len(F) /\ (E \o F)[i] = F[i - Len(E)]
<1> DEFINE G == E \o F
<1>1. G \in Seq(EntryRecord) /\ Len(G) = Len(E) + Len(F) /\ Len(E) \in Nat /\ Len(F) \in Nat
  OBVIOUS
<1>2. \A i \in 1..Len(E) : G[i] = E[i]
  OBVIOUS
<1>3. \A i \in (Len(E) + 1)..Len(G) : i - Len(E) \in 1..Len(F) /\ G[i] = F[i - Len(E)]
  OBVIOUS
<1> HIDE DEF G
<1>4. Extends(E, G)
  BY <1>1, <1>2 DEF Extends
<1>5. \A i \in (Len(E) + 1)..Len(G) : G[i].head = 0
  BY <1>3
<1>6. HeadsIn(G)
  <2> SUFFICES ASSUME NEW i \in 1..Len(G) PROVE G[i].head <= i
    BY <1>1 DEF HeadsIn
  <2>1. CASE i \in 1..Len(E)
    BY <1>2, <2>1 DEF HeadsIn
  <2>2. CASE i \in (Len(E) + 1)..Len(G)
    BY <1>1, <1>5, <2>2
  <2> QED BY <1>1, <2>1, <2>2
<1>7. RangeStart(G) = RangeStart(E)
  BY <1>1, <1>2, <1>5, RangeKept
<1> QED BY <1>1, <1>3, <1>4, <1>6, <1>7 DEF G

\* What placing the chosen inputs changes.
LEMMA PlaceUsersFields ==
  ASSUME NEW D \in Drafts, HeadsIn(D.entries), NEW ids \in Seq(Nat)
  PROVE  LET C == PlaceUsers(D, ids)
         IN /\ C \in Drafts /\ C.inbox = D.inbox /\ C.users = ids /\ Neutral(D.entries, C.entries)
            /\ Sourced(D.entries, C.entries, {})
            /\ Len(C.subs) = Len(D.subs) /\ DOMAIN C.subs = DOMAIN D.subs
            /\ \A id \in DOMAIN D.subs :
                 /\ C.subs[id].type = D.subs[id].type
                 /\ C.subs[id].status =
                      IF id \in Range(ids) /\ D.subs[id].status \notin Settled THEN "placed" ELSE D.subs[id].status
<1> DEFINE A == Change(D, Range(ids), "placed")
           F == [i \in DOMAIN ids |-> Entry("user", ids[i], <<>>, 0)]
<1>1. "placed" \in Statuses
  BY DEF Statuses
<1>2. /\ A \in Drafts /\ A.inbox = D.inbox /\ A.entries = D.entries /\ A.users = D.users
      /\ Len(A.subs) = Len(D.subs) /\ DOMAIN A.subs = DOMAIN D.subs
      /\ \A id \in DOMAIN D.subs :
           /\ A.subs[id].type = D.subs[id].type
           /\ A.subs[id].status =
                IF id \in Range(ids) /\ D.subs[id].status \notin Settled THEN "placed" ELSE D.subs[id].status
  BY <1>1, ChangeFields
<1>3. DOMAIN ids = 1..Len(ids) /\ Len(ids) \in Nat /\ \A i \in 1..Len(ids) : ids[i] \in Nat
  OBVIOUS
<1>4. ASSUME NEW i \in 1..Len(ids)
      PROVE  F[i] \in EntryRecord /\ F[i].kind = "user" /\ F[i].head = 0
  <2>1. F[i] = Entry("user", ids[i], <<>>, 0)
    BY <1>3
  <2>2. ids[i] \in Nat
    BY <1>3
  <2> HIDE DEF F
  <2> QED BY <2>1, <2>2 DEF Entry, EntryRecord
<1>5. F \in Seq(EntryRecord) /\ Len(F) = Len(ids)
  <2>1. F \in [1..Len(ids) -> EntryRecord]
    <3>1. DOMAIN F = 1..Len(ids) /\ F = [i \in DOMAIN F |-> F[i]]
      BY <1>3
    <3> HIDE DEF F
    <3> QED BY <3>1, <1>4
  <2> HIDE DEF F
  <2> QED BY <1>3, <2>1, IsSeq
<1> HIDE DEF A, F
<1> DEFINE G == A.entries \o F
<1>6. A.entries \in Seq(EntryRecord) /\ HeadsIn(A.entries)
  BY <1>2 DEF Drafts
<1>7. /\ G \in Seq(EntryRecord) /\ Extends(A.entries, G) /\ HeadsIn(G) /\ RangeStart(G) = RangeStart(A.entries)
      /\ \A i \in (Len(A.entries) + 1)..Len(G) : i - Len(A.entries) \in 1..Len(F) /\ G[i] = F[i - Len(A.entries)]
  <2> DEFINE E == A.entries
  <2>1. E \in Seq(EntryRecord) /\ HeadsIn(E)
    BY <1>6
  <2> HIDE DEF E
  <2>2. /\ E \o F \in Seq(EntryRecord) /\ Extends(E, E \o F) /\ HeadsIn(E \o F) /\ RangeStart(E \o F) = RangeStart(E)
        /\ \A i \in (Len(E) + 1)..Len(E \o F) : i - Len(E) \in 1..Len(F) /\ (E \o F)[i] = F[i - Len(E)]
    BY <1>4, <1>5, <2>1, PlainCat
  <2> QED BY <2>2 DEF E
<1> HIDE DEF G
<1>8. Neutral(D.entries, G)
  <2>1. RangeStart(D.entries) \in Nat
    BY <1>2, <1>6, RangeWithin
  <2>2. RangeStart(D.entries) <= RangeStart(G)
    BY <1>2, <1>7, <2>1
  <2>3. \A i \in (Len(D.entries) + 1)..Len(G) : G[i].kind \in {"user", "reset", "summary"}
    <3> SUFFICES ASSUME NEW i \in (Len(A.entries) + 1)..Len(G) PROVE G[i].kind = "user"
      BY <1>2
    <3>1. i - Len(A.entries) \in 1..Len(ids) /\ G[i] = F[i - Len(A.entries)]
      BY <1>5, <1>7
    <3>2. F[i - Len(A.entries)].kind = "user"
      BY <1>4, <3>1
    <3> QED BY <3>1, <3>2
  <2> QED BY <1>2, <1>7, <2>2, <2>3 DEF Neutral
<1>9. Sourced(D.entries, G, {})
  <2> SUFFICES ASSUME NEW i \in (Len(A.entries) + 1)..Len(G) PROVE G[i].head = 0
    BY <1>2 DEF Sourced
  <2>1. i - Len(A.entries) \in 1..Len(ids) /\ G[i] = F[i - Len(A.entries)]
    BY <1>5, <1>7
  <2>2. F[i - Len(A.entries)].head = 0
    BY <1>4, <2>1
  <2> QED BY <2>1, <2>2
<1> DEFINE H == [A EXCEPT !.entries = G, !.users = ids]
<1>10. H \in Drafts /\ H.inbox = A.inbox /\ H.users = ids /\ H.entries = G /\ H.subs = A.subs
  BY <1>2, <1>7 DEF Drafts
<1>11. PlaceUsers(D, ids) = H
  BY DEF PlaceUsers, A, F, G
<1> HIDE DEF H
<1> QED BY <1>2, <1>8, <1>9, <1>10, <1>11

\* What is left of the inbox keeps its order.
LEMMA OnlyInOrder ==
  ASSUME NEW s \in Seq(InboxItem), \A i, j \in DOMAIN s : i < j => s[i].id < s[j].id, NEW P
  PROVE  LET r == Only(s, P)
         IN /\ r \in Seq(InboxItem) /\ Range(r) = {s[i] : i \in DOMAIN s \cap P}
            /\ \A i, j \in DOMAIN r : i < j => r[i].id < r[j].id
<1> DEFINE r == Only(s, P)
<1>1. r \in Seq(InboxItem) /\ Range(r) = {s[i] : i \in DOMAIN s \cap P}
  BY OnlySpec, OnlyRange
<1>2. PICK p : Picks(r, s, P, Len(s), p)
  BY OnlySpec
<1>3. DOMAIN r = 1..Len(r) /\ DOMAIN s = 1..Len(s)
  BY <1>1
<1> HIDE DEF r
<1>4. \A i \in DOMAIN r : p[i] \in DOMAIN s /\ r[i] = s[p[i]]
  BY <1>2, <1>3 DEF Picks
<1>5. \A i, j \in DOMAIN r : i < j => p[i] < p[j]
  BY <1>2, <1>3 DEF Picks
<1>6. \A i, j \in DOMAIN r : i < j => r[i].id < r[j].id
  BY <1>4, <1>5
<1> QED BY <1>1, <1>6 DEF r

\* What a boundary does to a draft: some of the queued inputs are placed and
\* become the new inputs of a run, every queued write is done or stale, what is
\* left of the queue keeps its order.
Places(D, B) ==
  /\ Orderly(B) /\ Neutral(D.entries, B.entries)
  /\ Sourced(D.entries, B.entries, HeadsOf(D.inbox)) /\ HeadsOf(B.inbox) \subseteq HeadsOf(D.inbox)
  /\ Len(B.subs) = Len(D.subs) /\ DOMAIN B.subs = DOMAIN D.subs
  /\ \A i, j \in DOMAIN B.users : B.users[i] = B.users[j] => i = j
  /\ \A id \in Range(B.users) : id \in DOMAIN D.subs /\ D.subs[id].status = "queued"
  /\ \A id \in DOMAIN D.subs :
       /\ B.subs[id].type = D.subs[id].type
       /\ D.subs[id].status # "queued" => B.subs[id].status = D.subs[id].status
       /\ id \in Range(B.users) => B.subs[id].status = "placed"
       /\ D.subs[id].status = "queued" /\ id \notin Range(B.users) => B.subs[id].status \in {"queued", "done", "stale"}

\* The part of the boundary that is the same whatever inputs it chooses.
LEMMA ChoicePlaces ==
  ASSUME NEW D, Orderly(D), NEW chosen \in SUBSET DOMAIN D.inbox,
         \A i \in chosen : D.inbox[i].mode # "write"
  PROVE  LET left == {i \in DOMAIN D.inbox : D.inbox[i].mode # "write"} \ chosen
             placed == PlaceUsers(PlaceWrites(D), Only([i \in DOMAIN D.inbox |-> D.inbox[i].id], chosen))
         IN Places(D, [placed EXCEPT !.inbox = Only(D.inbox, left)])
<1> DEFINE s == D.inbox
           all == [i \in DOMAIN s |-> s[i].id]
           ids == Only(all, chosen)
           left == {i \in DOMAIN s : s[i].mode # "write"} \ chosen
           rest == Only(s, left)
           W == PlaceWrites(D)
           U == PlaceUsers(W, ids)
           B == [U EXCEPT !.inbox = rest]
<1>1. s \in Seq(InboxItem) /\ D \in Drafts /\ D.entries \in Seq(EntryRecord) /\ HeadsIn(D.entries)
  BY DEF Orderly, Drafts
<1>2. DOMAIN s = 1..Len(s) /\ Len(s) \in Nat
  BY <1>1
<1>3. ASSUME NEW k \in DOMAIN s
      PROVE  /\ s[k] \in InboxItem /\ s[k].head \in -1..Len(D.entries) /\ s[k].id \in Nat
             /\ s[k].id \in DOMAIN D.subs /\ D.subs[s[k].id].status = "queued"
             /\ \A j \in DOMAIN s : s[j].id = s[k].id => j = k
  <2>1. /\ s[k] \in InboxItem /\ s[k].head \in -1..Len(D.entries)
        /\ s[k].id \in DOMAIN D.subs /\ D.subs[s[k].id].status = "queued"
        /\ \A j \in DOMAIN s : s[j].id = s[k].id => j = k
    BY <1>2, OrderlyItem
  <2>2. \A x \in InboxItem : x.id \in Nat
    BY DEF InboxItem
  <2> QED BY <2>1, <2>2
<1> DEFINE order == \A i, j \in DOMAIN s : i < j => s[i].id < s[j].id
<1>4. order
  BY DEF Orderly
<1> HIDE DEF s
<1>5. all \in Seq(Nat) /\ Len(all) = Len(s) /\ DOMAIN all = DOMAIN s /\ \A i \in DOMAIN s : all[i] = s[i].id
  <2>1. all \in [1..Len(s) -> Nat]
    BY <1>2, <1>3
  <2>2. \A i \in DOMAIN s : all[i] = s[i].id
    OBVIOUS
  <2> HIDE DEF all
  <2> QED BY <1>2, <2>1, <2>2, IsSeq
<1> HIDE DEF all, order
<1>6. ids \in Seq(Nat) /\ Range(ids) = {s[i].id : i \in chosen}
  <2>1. ids \in Seq(Nat) /\ Range(ids) = {all[i] : i \in DOMAIN all \cap chosen}
    BY <1>5, OnlySpec, OnlyRange
  <2>2. DOMAIN all \cap chosen = chosen /\ \A i \in chosen : all[i] = s[i].id
    BY <1>5 DEF s
  <2> QED BY <2>1, <2>2
<1>7. \A i, j \in DOMAIN ids : ids[i] = ids[j] => i = j
  <2>1. PICK p : Picks(ids, all, chosen, Len(all), p)
    BY <1>5, OnlySpec
  <2>2. DOMAIN ids = 1..Len(ids) /\ Len(ids) \in Nat
    BY <1>6
  <2>3. \A i \in DOMAIN ids : p[i] \in DOMAIN s /\ ids[i] = s[p[i]].id
    BY <1>2, <1>5, <2>1, <2>2 DEF Picks
  <2> HIDE DEF ids
  <2>4. \A i, j \in DOMAIN ids : ids[i] = ids[j] => p[i] = p[j]
    BY <1>3, <2>3
  <2>5. \A i, j \in DOMAIN ids : i < j => p[i] < p[j]
    BY <2>1, <2>2 DEF Picks
  <2>6. \A i \in DOMAIN ids : p[i] \in Nat
    BY <1>2, <2>3
  <2> QED BY <2>2, <2>4, <2>5, <2>6
<1>8. rest \in Seq(InboxItem) /\ Range(rest) = {s[i] : i \in left}
  <2>1. DOMAIN s \cap left = left
    OBVIOUS
  <2> HIDE DEF left
  <2> QED BY <1>1, <1>4, <2>1, OnlyInOrder DEF order, s
<1>9. \A i, j \in DOMAIN rest : i < j => rest[i].id < rest[j].id
  <2> HIDE DEF left
  <2> QED BY <1>1, <1>4, OnlyInOrder DEF order, s
<1>10. Stage(D, Len(s), W)
  BY PlaceWritesSpec DEF s
<1>11. /\ W \in Drafts /\ W.entries \in Seq(EntryRecord) /\ HeadsIn(W.entries) /\ Neutral(D.entries, W.entries)
       /\ Sourced(D.entries, W.entries, HeadsOf(s))
       /\ Len(W.subs) = Len(D.subs) /\ DOMAIN W.subs = DOMAIN D.subs
       /\ \A id \in DOMAIN D.subs : W.subs[id].type = D.subs[id].type
  BY <1>10 DEF Stage, Follows, Neutral, Drafts, s
<1>12. ASSUME NEW id \in DOMAIN D.subs
       PROVE  IF \E i \in DOMAIN s : s[i].id = id /\ s[i].mode = "write"
              THEN W.subs[id].status \in {"done", "stale"} ELSE W.subs[id].status = D.subs[id].status
  BY <1>2, <1>10 DEF Stage, s
<1> HIDE DEF ids, rest, W
<1>13. /\ U \in Drafts /\ U.users = ids /\ Neutral(W.entries, U.entries)
       /\ Sourced(W.entries, U.entries, {})
       /\ Len(U.subs) = Len(W.subs) /\ DOMAIN U.subs = DOMAIN W.subs
       /\ \A id \in DOMAIN W.subs :
            /\ U.subs[id].type = W.subs[id].type
            /\ U.subs[id].status =
                 IF id \in Range(ids) /\ W.subs[id].status \notin Settled THEN "placed" ELSE W.subs[id].status
  BY <1>6, <1>11, PlaceUsersFields
<1> HIDE DEF U
<1>14. B \in Drafts /\ B.inbox = rest /\ B.users = ids /\ B.entries = U.entries /\ B.subs = U.subs
  BY <1>8, <1>13 DEF Drafts
<1> HIDE DEF B
<1>15. Neutral(D.entries, B.entries)
  <2>1. U.entries \in Seq(EntryRecord)
    BY <1>13 DEF Drafts
  <2> QED BY <1>1, <1>11, <1>13, <1>14, <2>1, NeutralTrans
<1>16. Sourced(D.entries, B.entries, HeadsOf(s))
  <2>1. U.entries \in Seq(EntryRecord) /\ Extends(D.entries, W.entries) /\ Extends(W.entries, U.entries) /\ {} \subseteq HeadsOf(s)
    BY <1>11, <1>13 DEF Drafts, Neutral
  <2> QED BY <1>1, <1>11, <1>13, <1>14, <2>1, SourcedTrans
<1>17. HeadsOf(B.inbox) \subseteq HeadsOf(s)
  <2> SUFFICES ASSUME NEW i \in DOMAIN rest PROVE rest[i].head \in HeadsOf(s)
    BY <1>14 DEF HeadsOf
  <2>1. PICK k \in left : rest[i] = s[k]
    BY <1>8 DEF Range
  <2>2. k \in DOMAIN s
    BY <2>1
  <2> QED BY <2>1, <2>2 DEF HeadsOf
<1>18. Len(B.subs) = Len(D.subs) /\ DOMAIN B.subs = DOMAIN D.subs
       /\ \A id \in DOMAIN D.subs : B.subs[id].type = D.subs[id].type
  BY <1>11, <1>13, <1>14
<1>19. \A id \in Range(ids) : id \in DOMAIN D.subs /\ D.subs[id].status = "queued"
  <2>1. \A i \in chosen : i \in DOMAIN s
    BY DEF s
  <2> QED BY <1>3, <1>6, <2>1
<1>20. \A id \in Range(ids) : W.subs[id].status = "queued"
  <2> SUFFICES ASSUME NEW k \in chosen PROVE W.subs[s[k].id].status = "queued"
    BY <1>6
  <2>1. k \in DOMAIN s /\ s[k].mode # "write"
    BY DEF s
  <2>2. ~ \E i \in DOMAIN s : s[i].id = s[k].id /\ s[i].mode = "write"
    BY <1>3, <2>1
  <2> QED BY <1>3, <1>12, <2>1, <2>2
<1>21. ASSUME NEW id \in DOMAIN D.subs
       PROVE  /\ D.subs[id].status # "queued" => B.subs[id].status = D.subs[id].status
              /\ id \in Range(ids) => B.subs[id].status = "placed"
              /\ D.subs[id].status = "queued" /\ id \notin Range(ids) => B.subs[id].status \in {"queued", "done", "stale"}
              /\ B.subs[id].status = "queued" => \E i \in left : s[i].id = id
  <2>1. B.subs[id].status = IF id \in Range(ids) /\ W.subs[id].status \notin Settled THEN "placed" ELSE W.subs[id].status
    BY <1>11, <1>13, <1>14
  <2>2. id \in Range(ids) => B.subs[id].status = "placed"
    BY <1>20, <2>1 DEF Settled
  <2>3. D.subs[id].status # "queued" => B.subs[id].status = D.subs[id].status
    BY <1>3, <1>12, <1>19, <2>1
  <2>4. D.subs[id].status = "queued" /\ id \notin Range(ids) => B.subs[id].status \in {"queued", "done", "stale"}
    BY <1>12, <2>1
  <2>5. ASSUME B.subs[id].status = "queued" PROVE \E i \in left : s[i].id = id
    <3>1. D.subs[id].status = "queued"
      BY <2>3, <2>5
    <3>2. PICK i \in DOMAIN s : s[i].id = id
      BY <3>1 DEF Orderly, s
    <3>3. id \notin Range(ids)
      BY <2>2, <2>5
    <3>4. i \notin chosen
      BY <1>6, <3>2, <3>3
    <3>5. s[i].mode # "write"
      <4>1. W.subs[id].status = "queued"
        BY <2>1, <2>5, <3>3
      <4> QED BY <1>12, <3>2, <4>1
    <3> QED BY <3>2, <3>4, <3>5
  <2> QED BY <2>2, <2>3, <2>4, <2>5
<1>22. ASSUME NEW i \in DOMAIN rest
       PROVE  rest[i].head \in -1..Len(B.entries) /\ rest[i].id \in DOMAIN B.subs /\ B.subs[rest[i].id].status = "queued"
  <2>1. PICK k \in left : rest[i] = s[k]
    BY <1>8 DEF Range
  <2>2. k \in DOMAIN s /\ k \notin chosen /\ s[k].mode # "write"
    BY <2>1
  <2>3. s[k].id \notin Range(ids)
    <3>1. \A j \in chosen : j \in DOMAIN s
      BY DEF s
    <3> QED BY <1>3, <1>6, <2>2, <3>1
  <2>4. ~ \E j \in DOMAIN s : s[j].id = s[k].id /\ s[j].mode = "write"
    BY <1>3, <2>2
  <2>5. W.subs[s[k].id].status = "queued"
    BY <1>3, <1>12, <2>2, <2>4
  <2>6. B.subs[s[k].id].status = "queued"
    BY <1>3, <1>11, <1>13, <1>14, <2>2, <2>3, <2>5
  <2>7. s[k].head \in -1..Len(B.entries)
    <3>1. Len(D.entries) <= Len(B.entries) /\ Len(D.entries) \in Nat /\ Len(B.entries) \in Nat
      BY <1>1, <1>14, <1>15 DEF Neutral, Extends, Drafts
    <3>2. s[k].head \in -1..Len(D.entries)
      BY <1>3, <2>2
    <3> QED BY <3>1, <3>2
  <2> QED BY <1>3, <1>18, <2>1, <2>2, <2>6, <2>7
<1>23. ASSUME NEW id \in DOMAIN B.subs, B.subs[id].status = "queued" PROVE \E i \in DOMAIN rest : rest[i].id = id
  <2>1. PICK k \in left : s[k].id = id
    BY <1>18, <1>21, <1>23
  <2>2. s[k] \in Range(rest)
    BY <1>8
  <2> QED BY <2>1, <2>2 DEF Range
<1>24. HeadsIn(B.entries)
  BY <1>15 DEF Neutral
<1>25. Orderly(B)
  BY <1>9, <1>14, <1>22, <1>23, <1>24 DEF Orderly
<1>26. Places(D, B)
  BY <1>7, <1>14, <1>15, <1>18, <1>19, <1>21, <1>25, <1>16, <1>17 DEF Places, s
<1> QED BY <1>26 DEF B, U, W, rest, ids, all, s

\* applyBoundary, whatever is chosen.
LEMMA BoundarySpec ==
  ASSUME NEW D, Orderly(D), NEW at, NEW modes
  PROVE  Places(D, Boundary(D, at, modes))
<1> DEFINE items == D.inbox
           final == at = "final" \/ HasReset(items)
           first(i) == \A j \in 1..(i - 1) : items[j].mode # items[i].mode
           users == {i \in DOMAIN items :
                       /\ items[i].mode = "steer" \/ (items[i].mode = "followUp" /\ final)
                       /\ items[i].mode \in modes \/ first(i)}
           left == {i \in DOMAIN items : items[i].mode # "write"} \ users
           placed == PlaceUsers(PlaceWrites(D), Only([i \in DOMAIN items |-> items[i].id], users))
<1>1. users \in SUBSET DOMAIN D.inbox /\ \A i \in users : D.inbox[i].mode # "write"
  OBVIOUS
<1>2. Boundary(D, at, modes) = [placed EXCEPT !.inbox = Only(items, left)]
  BY DEF Boundary
<1> HIDE DEF users
<1>3. Places(D, [placed EXCEPT !.inbox = Only(items, left)])
  BY <1>1, ChoicePlaces
<1> QED BY <1>2, <1>3

----------------------------------------------------------------------------
(* Steps between drafts that keep the inbox in order.                      *)

\* More entries.
LEMMA OrderlyEntries ==
  ASSUME NEW D, Orderly(D), NEW C, C \in Drafts, C.subs = D.subs, C.inbox = D.inbox,
         Len(D.entries) <= Len(C.entries), HeadsIn(C.entries)
  PROVE  Orderly(C)
<1>1. Len(D.entries) \in Nat /\ Len(C.entries) \in Nat
  BY DEF Orderly, Drafts
<1>2. \A h \in -1..Len(D.entries) : h \in -1..Len(C.entries)
  BY <1>1
<1> QED BY <1>2 DEF Orderly

\* One entry that sets no head.
LEMMA OrderlyAppend ==
  ASSUME NEW D, Orderly(D), NEW e \in EntryRecord, e.head = 0
  PROVE  LET C == AppendTo(D, e)
         IN /\ Orderly(C) /\ C.subs = D.subs /\ C.inbox = D.inbox /\ C.users = D.users
            /\ C.entries = Append(D.entries, e) /\ Extends(D.entries, C.entries)
            /\ RangeStart(C.entries) = RangeStart(D.entries)
<1> DEFINE E == D.entries
           C == AppendTo(D, e)
<1>1. D \in Drafts /\ E \in Seq(EntryRecord) /\ HeadsIn(E)
  BY DEF Orderly, Drafts
<1>2. /\ C \in Drafts /\ C.inbox = D.inbox /\ C.subs = D.subs /\ C.users = D.users
      /\ C.entries = Append(E, e)
  BY <1>1, AppendFields
<1> HIDE DEF E, C
<1> DEFINE F == <<e>>
<1>3. F \in Seq(EntryRecord) /\ (\A i \in 1..Len(F) : F[i].head = 0) /\ E \o F = Append(E, e)
  BY <1>1
<1> HIDE DEF F
<1>4. Extends(E, E \o F) /\ HeadsIn(E \o F) /\ RangeStart(E \o F) = RangeStart(E)
  BY <1>1, <1>3, PlainCat
<1>5. Orderly(C)
  BY <1>2, <1>3, <1>4, OrderlyEntries DEF Extends, E
<1> QED BY <1>2, <1>3, <1>4, <1>5 DEF C, E

\* The entry of a write that is not stale.
LEMMA OrderlyWrite ==
  ASSUME NEW D, Orderly(D), NEW head \in Int, head \in -1..Len(D.entries), ~IsStale(D, head)
  PROVE  LET C == AppendTo(D, WriteEntry(D, head))
         IN /\ Orderly(C) /\ C.subs = D.subs /\ C.inbox = D.inbox /\ C.users = D.users
            /\ Neutral(D.entries, C.entries) /\ Sourced(D.entries, C.entries, {head})
<1> DEFINE e == WriteEntry(D, head)
           C == AppendTo(D, e)
<1>1. D \in Drafts /\ HeadsIn(D.entries)
  BY DEF Orderly
<1>2. /\ e \in EntryRecord /\ Neutral(D.entries, Append(D.entries, e))
      /\ Sourced(D.entries, Append(D.entries, e), {head})
  BY <1>1, WritePlaced
<1> HIDE DEF e
<1>3. /\ C \in Drafts /\ C.inbox = D.inbox /\ C.subs = D.subs /\ C.users = D.users
      /\ C.entries = Append(D.entries, e)
  BY <1>1, <1>2, AppendFields
<1> HIDE DEF C
<1>4. Orderly(C)
  BY <1>2, <1>3, OrderlyEntries DEF Neutral, Extends
<1> QED BY <1>2, <1>3, <1>4 DEF C, e

\* Settling submissions that are not queued.
LEMMA OrderlyChange ==
  ASSUME NEW D, Orderly(D), NEW ids, NEW st \in Settled,
         \A id \in ids : id \in DOMAIN D.subs => D.subs[id].status # "queued"
  PROVE  LET C == Change(D, ids, st)
         IN /\ Orderly(C) /\ C.entries = D.entries /\ C.inbox = D.inbox /\ C.users = D.users
            /\ Len(C.subs) = Len(D.subs) /\ DOMAIN C.subs = DOMAIN D.subs
            /\ \A id \in DOMAIN D.subs :
                 /\ C.subs[id].type = D.subs[id].type
                 /\ C.subs[id].status = IF id \in ids /\ D.subs[id].status \notin Settled THEN st ELSE D.subs[id].status
<1> DEFINE C == Change(D, ids, st)
<1>1. D \in Drafts /\ st \in Statuses
  BY DEF Orderly, Statuses
<1>2. /\ C \in Drafts /\ C.inbox = D.inbox /\ C.entries = D.entries /\ C.users = D.users
      /\ Len(C.subs) = Len(D.subs) /\ DOMAIN C.subs = DOMAIN D.subs
      /\ \A id \in DOMAIN D.subs :
           /\ C.subs[id].type = D.subs[id].type
           /\ C.subs[id].status = IF id \in ids /\ D.subs[id].status \notin Settled THEN st ELSE D.subs[id].status
  BY <1>1, ChangeFields
<1>3. st # "queued"
  BY DEF Settled
<1> HIDE DEF C
<1>4. \A id \in DOMAIN D.subs : C.subs[id].status = "queued" <=> D.subs[id].status = "queued"
  BY <1>2, <1>3
<1>5. Orderly(C)
  BY <1>2, <1>4 DEF Orderly
<1> QED BY <1>2, <1>5 DEF C

\* The submissions of the items at other positions.
Others(I, P, ids) == ids = {I[i].id : i \in DOMAIN I \ P}

Remaining(D, ids, st, P) == [Change(D, ids, st) EXCEPT !.inbox = Only(D.inbox, P)]

\* Some items leave the inbox and are settled.
LEMMA OrderlyKeep ==
  ASSUME NEW D, Orderly(D), NEW P, NEW st \in Settled, NEW ids, Others(D.inbox, P, ids)
  PROVE  LET C == Remaining(D, ids, st, P)
         IN /\ Orderly(C) /\ C.entries = D.entries /\ C.users = D.users
            /\ Len(C.subs) = Len(D.subs) /\ DOMAIN C.subs = DOMAIN D.subs
            /\ \A id \in DOMAIN D.subs :
                 /\ C.subs[id].type = D.subs[id].type
                 /\ C.subs[id].status = "placed" <=> D.subs[id].status = "placed"
<1> DEFINE s == D.inbox
           r == Only(s, P)
           A == Change(D, ids, st)
           C == [A EXCEPT !.inbox = r]
<1>1. D \in Drafts /\ st \in Statuses /\ s \in Seq(InboxItem)
  BY DEF Orderly, Statuses, Drafts
<1>2. DOMAIN s = 1..Len(s)
  BY <1>1
<1>3. /\ A \in Drafts /\ A.entries = D.entries /\ A.users = D.users
      /\ Len(A.subs) = Len(D.subs) /\ DOMAIN A.subs = DOMAIN D.subs
      /\ \A id \in DOMAIN D.subs :
           /\ A.subs[id].type = D.subs[id].type
           /\ A.subs[id].status = IF id \in ids /\ D.subs[id].status \notin Settled THEN st ELSE D.subs[id].status
  BY <1>1, ChangeFields
<1>4. \A i, j \in DOMAIN s : i < j => s[i].id < s[j].id
  BY DEF Orderly
<1>5. ids = {s[i].id : i \in DOMAIN s \ P}
  BY DEF Others
<1>6. \A k \in DOMAIN s : /\ s[k].head \in -1..Len(D.entries)
                          /\ s[k].id \in DOMAIN D.subs /\ D.subs[s[k].id].status = "queued"
                          /\ \A j \in DOMAIN s : s[j].id = s[k].id => j = k
  BY <1>2, OrderlyItem
<1>7. \A id \in DOMAIN D.subs : D.subs[id].status = "queued" => \E i \in DOMAIN s : s[i].id = id
  BY DEF Orderly
<1> HIDE DEF s
<1>8. /\ r \in Seq(InboxItem) /\ Range(r) = {s[i] : i \in DOMAIN s \cap P}
      /\ \A i, j \in DOMAIN r : i < j => r[i].id < r[j].id
  BY <1>1, <1>4, OnlyInOrder
<1> HIDE DEF A, r
<1>9. C \in Drafts /\ C.inbox = r /\ C.users = A.users /\ C.entries = A.entries /\ C.subs = A.subs
  BY <1>3, <1>8 DEF Drafts
<1> HIDE DEF C
<1>10. \A id \in ids : id \in DOMAIN D.subs /\ D.subs[id].status = "queued"
  BY <1>5, <1>6
<1>11. st # "queued" /\ st # "placed" /\ "queued" \notin Settled /\ "placed" \notin Settled
  BY DEF Settled
<1>12. \A id \in DOMAIN D.subs : C.subs[id].status = IF id \in ids THEN st ELSE D.subs[id].status
  BY <1>3, <1>9, <1>10, <1>11
<1>13. ASSUME NEW i \in DOMAIN r
       PROVE  r[i].head \in -1..Len(C.entries) /\ r[i].id \in DOMAIN C.subs /\ C.subs[r[i].id].status = "queued"
  <2>1. PICK k \in DOMAIN s \cap P : r[i] = s[k]
    BY <1>8 DEF Range
  <2>2. s[k].id \notin ids
    BY <1>5, <1>6
  <2> QED BY <1>3, <1>6, <1>9, <1>12, <2>1, <2>2
<1>14. ASSUME NEW id \in DOMAIN C.subs, C.subs[id].status = "queued" PROVE \E i \in DOMAIN r : r[i].id = id
  <2>1. id \in DOMAIN D.subs /\ id \notin ids /\ D.subs[id].status = "queued"
    BY <1>3, <1>9, <1>11, <1>12, <1>14
  <2>2. PICK k \in DOMAIN s : s[k].id = id
    BY <1>7, <2>1
  <2>3. k \in DOMAIN s \cap P
    BY <1>5, <2>1, <2>2
  <2>4. s[k] \in Range(r)
    BY <1>8, <2>3
  <2> QED BY <2>2, <2>4 DEF Range
<1>15. HeadsIn(C.entries)
  BY <1>3, <1>9 DEF Orderly
<1>16. Orderly(C)
  BY <1>8, <1>9, <1>13, <1>14, <1>15 DEF Orderly
<1>17. \A id \in DOMAIN D.subs : C.subs[id].type = D.subs[id].type
                                 /\ (C.subs[id].status = "placed" <=> D.subs[id].status = "placed")
  BY <1>3, <1>9, <1>10, <1>11, <1>12
<1>18. C = Remaining(D, ids, st, P)
  BY DEF C, A, r, s, Remaining
<1> QED BY <1>3, <1>9, <1>16, <1>17, <1>18

\* A new submission that is not queued.
LEMMA OrderlyRecord ==
  ASSUME NEW D, Orderly(D), NEW type \in {"input", "write", "summary"}, NEW st \in {"placed", "done", "stale"}
  PROVE  LET C == [D EXCEPT !.subs = Append(D.subs, [type |-> type, status |-> st])]
         IN /\ Orderly(C) /\ C.entries = D.entries /\ C.inbox = D.inbox /\ C.users = D.users
            /\ C.subs = Append(D.subs, [type |-> type, status |-> st])
<1> DEFINE x == [type |-> type, status |-> st]
           S == Append(D.subs, x)
           C == [D EXCEPT !.subs = S]
           n == Len(D.subs)
<1>1. D \in Drafts /\ D.subs \in Seq(SubmissionRecord)
  BY DEF Orderly, Drafts
<1>2. x \in SubmissionRecord /\ x.status = st
  BY DEF SubmissionRecord, Settled
<1> HIDE DEF x
<1>3. /\ S \in Seq(SubmissionRecord) /\ DOMAIN D.subs = 1..n /\ DOMAIN S = 1..(n + 1) /\ n \in Nat
      /\ S[n + 1] = x /\ \A id \in DOMAIN D.subs : id \in DOMAIN S /\ S[id] = D.subs[id]
  BY <1>1, <1>2
<1> HIDE DEF S, n
<1>4. C \in Drafts /\ C.subs = S /\ C.entries = D.entries /\ C.inbox = D.inbox /\ C.users = D.users
  BY <1>1, <1>3 DEF Drafts
<1> HIDE DEF C
<1>5. \A id \in DOMAIN S : S[id].status = "queued" => id \in DOMAIN D.subs /\ D.subs[id].status = "queued"
  BY <1>2, <1>3
<1>6. Orderly(C)
  BY <1>3, <1>4, <1>5 DEF Orderly
<1> QED BY <1>4, <1>6 DEF C, S, x

Enqueued(D, type, mode, head) ==
  LET R == [D EXCEPT !.subs = Append(D.subs, [type |-> type, status |-> "queued"])]
  IN [R EXCEPT !.inbox = Append(R.inbox, [id |-> Len(D.subs) + 1, mode |-> mode, head |-> head])]

\* A new submission that is queued.
LEMMA OrderlyQueue ==
  ASSUME NEW D, Orderly(D), NEW type \in {"input", "write", "summary"},
         NEW mode \in {"steer", "followUp", "write"}, NEW head \in -1..Len(D.entries)
  PROVE  LET C == Enqueued(D, type, mode, head)
         IN /\ Orderly(C) /\ C.entries = D.entries /\ C.users = D.users
            /\ C.subs = Append(D.subs, [type |-> type, status |-> "queued"])
            /\ C.inbox = Append(D.inbox, [id |-> Len(D.subs) + 1, mode |-> mode, head |-> head])
<1> DEFINE x == [type |-> type, status |-> "queued"]
           n == Len(D.subs)
           m == Len(D.inbox)
           y == [id |-> n + 1, mode |-> mode, head |-> head]
           S == Append(D.subs, x)
           I == Append(D.inbox, y)
           R == [D EXCEPT !.subs = S]
           C == [R EXCEPT !.inbox = Append(R.inbox, y)]
<1>1. D \in Drafts /\ D.subs \in Seq(SubmissionRecord) /\ D.inbox \in Seq(InboxItem)
      /\ n \in Nat /\ m \in Nat /\ DOMAIN D.subs = 1..n /\ DOMAIN D.inbox = 1..m
  BY DEF Orderly, Drafts
<1>2. x \in SubmissionRecord /\ x.status = "queued"
  BY DEF SubmissionRecord
<1>3. y \in InboxItem /\ y.id = n + 1 /\ y.head = head
  BY <1>1 DEF InboxItem
<1> HIDE DEF x, y
<1>4. /\ S \in Seq(SubmissionRecord) /\ DOMAIN S = 1..(n + 1)
      /\ S[n + 1] = x /\ \A id \in 1..n : S[id] = D.subs[id]
  BY <1>1, <1>2
<1>5. /\ I \in Seq(InboxItem) /\ DOMAIN I = 1..(m + 1)
      /\ I[m + 1] = y /\ \A i \in 1..m : I[i] = D.inbox[i]
  BY <1>1, <1>3
<1>6. \A i \in 1..m : D.inbox[i].id \in 1..n /\ D.inbox[i].head \in -1..Len(D.entries)
                      /\ D.subs[D.inbox[i].id].status = "queued"
  BY <1>1 DEF Orderly
<1>7. \A i, j \in 1..m : i < j => D.inbox[i].id < D.inbox[j].id
  BY <1>1 DEF Orderly
<1>8. \A id \in 1..n : D.subs[id].status = "queued" => \E i \in 1..m : D.inbox[i].id = id
  BY <1>1 DEF Orderly
<1> HIDE DEF S, n, m
<1>9. R \in Drafts /\ R.subs = S /\ R.entries = D.entries /\ R.inbox = D.inbox /\ R.users = D.users
  BY <1>1, <1>4 DEF Drafts
<1> HIDE DEF R
<1>10. Append(R.inbox, y) = I
  BY <1>9
<1> HIDE DEF I
<1>11. C \in Drafts /\ C.subs = S /\ C.entries = D.entries /\ C.inbox = I /\ C.users = D.users
  BY <1>5, <1>9, <1>10 DEF Drafts
<1> HIDE DEF C
<1>12. ASSUME NEW i \in 1..(m + 1)
       PROVE  I[i].head \in -1..Len(D.entries) /\ I[i].id \in 1..(n + 1) /\ S[I[i].id].status = "queued"
  <2>1. CASE i \in 1..m
    <3>1. I[i] = D.inbox[i] /\ D.inbox[i].id \in 1..n
      BY <1>5, <1>6, <2>1
    <3>2. S[D.inbox[i].id] = D.subs[D.inbox[i].id]
      BY <1>4, <3>1
    <3>3. D.inbox[i].id \in 1..(n + 1)
      BY <1>1, <3>1
    <3> QED BY <1>6, <2>1, <3>1, <3>2, <3>3
  <2>2. CASE i = m + 1
    BY <1>1, <1>2, <1>3, <1>4, <1>5, <2>2
  <2> QED BY <1>1, <2>1, <2>2
<1>13. ASSUME NEW id \in 1..(n + 1), S[id].status = "queued" PROVE \E i \in 1..(m + 1) : I[i].id = id
  <2>1. CASE id \in 1..n
    <3>1. PICK i \in 1..m : D.inbox[i].id = id
      BY <1>4, <1>8, <1>13, <2>1
    <3> QED BY <1>1, <1>5, <3>1
  <2>2. CASE id = n + 1
    BY <1>1, <1>3, <1>5, <2>2
  <2> QED BY <1>1, <2>1, <2>2
<1>14. ASSUME NEW i \in 1..(m + 1), NEW j \in 1..(m + 1), i < j PROVE I[i].id < I[j].id
  <2>1. i \in 1..m
    BY <1>1, <1>14
  <2>2. CASE j \in 1..m
    BY <1>5, <1>7, <1>14, <2>1, <2>2
  <2>3. CASE j = m + 1
    BY <1>1, <1>3, <1>5, <1>6, <2>1, <2>3
  <2> QED BY <1>1, <2>2, <2>3
<1>15. HeadsIn(C.entries)
  BY <1>11 DEF Orderly
<1>16. Orderly(C)
  BY <1>4, <1>5, <1>11, <1>12, <1>13, <1>14, <1>15 DEF Orderly
<1>17. C = Enqueued(D, type, mode, head)
  BY DEF C, R, S, x, y, n, Enqueued
<1> QED BY <1>11, <1>16, <1>17 DEF S, x, I, y, n

\* The heads of the inbox after one more item.
LEMMA HeadsMore ==
  ASSUME NEW I \in Seq(InboxItem), NEW y \in InboxItem
  PROVE  HeadsOf(Append(I, y)) \subseteq HeadsOf(I) \cup {y.head}
<1> DEFINE J == Append(I, y)
<1>1. DOMAIN J = DOMAIN I \cup {Len(I) + 1} /\ J[Len(I) + 1] = y /\ \A i \in DOMAIN I : J[i] = I[i]
  OBVIOUS
<1> HIDE DEF J
<1>2. HeadsOf(J) \subseteq HeadsOf(I) \cup {y.head}
  BY <1>1 DEF HeadsOf
<1> QED BY <1>2 DEF J

----------------------------------------------------------------------------
(* The submissions and the inputs of the run.                              *)

\* The placed submissions are the inputs of the run, each once.
Inputs(S, ins) ==
  /\ ins \in Seq(Nat) /\ \A i, j \in DOMAIN ins : ins[i] = ins[j] => i = j
  /\ Range(ins) = {id \in DOMAIN S : S[id].status = "placed"}

Ledger == Orderly(Draft) /\ Inputs(subs, run.inputs)

\* The fields of the draft a commit starts from.
LEMMA DraftFields ==
  /\ Draft.subs = subs /\ Draft.inbox = inbox /\ Draft.entries = entries /\ Draft.users = <<>>
  /\ Orderly(Draft) => /\ Draft \in Drafts /\ subs \in Seq(SubmissionRecord) /\ inbox \in Seq(InboxItem)
                       /\ entries \in Seq(EntryRecord) /\ HeadsIn(entries)
BY DEF Draft, Orderly, Drafts

\* The next draft is the one that was committed, without its inputs.
LEMMA Committed ==
  ASSUME NEW B, Orderly(B), Commit(B)
  PROVE  /\ Orderly(Draft)' /\ subs' = B.subs /\ inbox' = B.inbox /\ entries' = B.entries
         /\ Draft' = [subs |-> subs', inbox |-> inbox', entries |-> entries', users |-> <<>>]
<1> DEFINE C == [subs |-> B.subs, inbox |-> B.inbox, entries |-> B.entries, users |-> <<>>]
<1>1. C \in Drafts /\ C.subs = B.subs /\ C.inbox = B.inbox /\ C.entries = B.entries
  BY DEF Orderly, Drafts
<1>2. Draft' = C
  BY DEF Draft, Commit
<1> HIDE DEF C
<1>3. Orderly(C)
  BY <1>1 DEF Orderly
<1>4. Orderly(Draft)'
  BY <1>2, <1>3 DEF Orderly
<1> QED BY <1>4 DEF Commit, Draft

\* A run that begins: only its inputs are placed.
LEMMA NoInputs ==
  ASSUME NEW S, Inputs(S, <<>>)
  PROVE  \A id \in DOMAIN S : S[id].status # "placed"
<1>1. Range(<<>>) = {}
  BY DEF Range
<1> QED BY <1>1 DEF Inputs

\* The inputs after a boundary: those of the run, and those it placed.
LEMMA PlacedInputs ==
  ASSUME NEW D, NEW B, Places(D, B), NEW ins, Inputs(D.subs, ins)
  PROVE  /\ B.users \in Seq(Nat) /\ DOMAIN B.subs = DOMAIN D.subs
         /\ \A i, j \in DOMAIN B.users : B.users[i] = B.users[j] => i = j
         /\ Range(ins) \cap Range(B.users) = {}
         /\ Range(ins) \cup Range(B.users) = {id \in DOMAIN B.subs : B.subs[id].status = "placed"}
<1>1. B.users \in Seq(Nat) /\ DOMAIN B.subs = DOMAIN D.subs
  BY DEF Places, Orderly, Drafts
<1>2. \A i, j \in DOMAIN B.users : B.users[i] = B.users[j] => i = j
  BY DEF Places
<1>3. \A id \in Range(B.users) : id \in DOMAIN D.subs /\ D.subs[id].status = "queued" /\ B.subs[id].status = "placed"
  BY DEF Places
<1>4. \A id \in Range(ins) : id \in DOMAIN D.subs /\ D.subs[id].status = "placed" /\ B.subs[id].status = "placed"
  BY DEF Places, Inputs
<1>5. \A id \in DOMAIN D.subs : B.subs[id].status = "placed" => id \in Range(ins) \cup Range(B.users)
  BY DEF Places, Inputs
<1> QED BY <1>1, <1>2, <1>3, <1>4, <1>5

\* endRun: the inputs of the run are settled, those placed since remain.
LEMMA SettledInputs ==
  ASSUME NEW B, Orderly(B), NEW ins, NEW us \in Seq(Nat), NEW st \in Settled,
         \A i, j \in DOMAIN us : us[i] = us[j] => i = j,
         Range(ins) \cap Range(us) = {},
         Range(ins) \cup Range(us) = {id \in DOMAIN B.subs : B.subs[id].status = "placed"}
  PROVE  LET C == Change(B, Range(ins), st)
         IN /\ Orderly(C) /\ C.entries = B.entries /\ C.users = B.users /\ Inputs(C.subs, us)
<1> DEFINE C == Change(B, Range(ins), st)
<1>1. \A id \in Range(ins) : id \in DOMAIN B.subs => B.subs[id].status # "queued"
  OBVIOUS
<1>2. /\ Orderly(C) /\ C.entries = B.entries /\ C.inbox = B.inbox /\ C.users = B.users
      /\ Len(C.subs) = Len(B.subs) /\ DOMAIN C.subs = DOMAIN B.subs
      /\ \A id \in DOMAIN B.subs :
           /\ C.subs[id].type = B.subs[id].type
           /\ C.subs[id].status = IF id \in Range(ins) /\ B.subs[id].status \notin Settled THEN st ELSE B.subs[id].status
  BY <1>1, OrderlyChange
<1> HIDE DEF C
<1>3. st # "placed" /\ "placed" \notin Settled
  BY DEF Settled
<1>4. \A id \in DOMAIN B.subs : C.subs[id].status = "placed" <=> id \in Range(us)
  BY <1>2, <1>3
<1>5. Inputs(C.subs, us)
  BY <1>2, <1>4 DEF Inputs
<1> QED BY <1>2, <1>5 DEF C

\* handOver: the inputs placed since join those of the run.
LEMMA JoinedInputs ==
  ASSUME NEW S, NEW ins \in Seq(Nat), NEW us \in Seq(Nat),
         \A i, j \in DOMAIN ins : ins[i] = ins[j] => i = j,
         \A i, j \in DOMAIN us : us[i] = us[j] => i = j,
         Range(ins) \cap Range(us) = {},
         Range(ins) \cup Range(us) = {id \in DOMAIN S : S[id].status = "placed"}
  PROVE  Inputs(S, ins \o us)
<1> DEFINE all == ins \o us
           n == Len(ins)
           m == Len(us)
<1>1. /\ all \in Seq(Nat) /\ n \in Nat /\ m \in Nat
      /\ DOMAIN all = 1..(n + m) /\ DOMAIN ins = 1..n /\ DOMAIN us = 1..m
  OBVIOUS
<1>2. \A i \in 1..n : i \in DOMAIN all /\ all[i] = ins[i]
  BY <1>1
<1>3. \A i \in (n + 1)..(n + m) : i - n \in 1..m /\ all[i] = us[i - n]
  BY <1>1
<1>4. \A i \in 1..m : i + n \in DOMAIN all /\ all[i + n] = us[i]
  BY <1>1
<1> HIDE DEF all, n, m
<1>5. \A i \in 1..(n + m) : i \in 1..n \/ i \in (n + 1)..(n + m)
  BY <1>1
<1>6. (\A i \in 1..n : all[i] \in Range(ins)) /\ (\A i \in (n + 1)..(n + m) : all[i] \in Range(us))
  BY <1>1, <1>2, <1>3 DEF Range
<1>7. ASSUME NEW i \in DOMAIN all, NEW j \in DOMAIN all, all[i] = all[j] PROVE i = j
  <2>1. CASE i \in 1..n /\ j \in 1..n
    BY <1>1, <1>2, <1>7, <2>1
  <2>2. CASE i \in (n + 1)..(n + m) /\ j \in (n + 1)..(n + m)
    <3>1. us[i - n] = us[j - n] /\ i - n \in DOMAIN us /\ j - n \in DOMAIN us
      BY <1>1, <1>3, <1>7, <2>2
    <3>2. i - n = j - n
      BY <3>1
    <3> QED BY <1>1, <2>2, <3>2
  <2>3. CASE ~(i \in 1..n <=> j \in 1..n)
    BY <1>1, <1>5, <1>6, <1>7, <2>3
  <2> QED BY <1>1, <1>5, <2>1, <2>2, <2>3
<1>8. Range(all) = Range(ins) \cup Range(us)
  <2>1. \A i \in DOMAIN all : all[i] \in Range(ins) \cup Range(us)
    BY <1>1, <1>5, <1>6
  <2>2. \A i \in DOMAIN ins : \E k \in DOMAIN all : all[k] = ins[i]
    BY <1>1, <1>2
  <2>3. \A i \in DOMAIN us : \E k \in DOMAIN all : all[k] = us[i]
    BY <1>1, <1>4
  <2> QED BY <2>1, <2>2, <2>3 DEF Range
<1> QED BY <1>1, <1>7, <1>8 DEF Inputs, all

\* The run stops, or a new generation takes it.
Begins(G) ==
  \/ run' = NoRun /\ gens' = G
  \/ \E us \in Seq(Nat) : run' = [task |-> Len(G) + 1, inputs |-> us] /\ gens' = Append(G, NewGeneration)

\* startRun.
LEMMA StartRunSpec ==
  ASSUME NEW us \in Seq(Nat), NEW G, StartRun(us, G)
  PROVE  run'.inputs = us /\ Begins(G)
<1>1. CASE us = <<>>
  BY <1>1 DEF StartRun, NoRun, Begins
<1>2. CASE us # <<>>
  BY <1>2 DEF StartRun, Begins
<1> QED BY <1>1, <1>2

\* One more submission, queued or done: the placed ones are the same.
LEMMA SameInputs ==
  ASSUME NEW S \in Seq(SubmissionRecord), NEW ins, Inputs(S, ins), NEW x \in SubmissionRecord, x.status # "placed"
  PROVE  Inputs(Append(S, x), ins)
<1> DEFINE T == Append(S, x)
<1>1. /\ DOMAIN T = 1..(Len(S) + 1) /\ DOMAIN S = 1..Len(S) /\ Len(S) \in Nat
      /\ T[Len(S) + 1] = x /\ \A id \in DOMAIN S : T[id] = S[id]
  OBVIOUS
<1> HIDE DEF T
<1>2. {id \in DOMAIN T : T[id].status = "placed"} = {id \in DOMAIN S : S[id].status = "placed"}
  BY <1>1
<1> QED BY <1>2 DEF Inputs, T

\* One more submission, placed, where none was.
LEMMA FirstInput ==
  ASSUME NEW S \in Seq(SubmissionRecord), Inputs(S, <<>>), NEW x \in SubmissionRecord, x.status = "placed"
  PROVE  Inputs(Append(S, x), <<Len(S) + 1>>)
<1> DEFINE T == Append(S, x)
           one == <<Len(S) + 1>>
<1>1. /\ DOMAIN T = 1..(Len(S) + 1) /\ DOMAIN S = 1..Len(S) /\ Len(S) \in Nat
      /\ T[Len(S) + 1] = x /\ \A id \in DOMAIN S : T[id] = S[id]
  OBVIOUS
<1>2. \A id \in DOMAIN S : S[id].status # "placed"
  BY NoInputs
<1>3. one \in Seq(Nat) /\ DOMAIN one = {1} /\ one[1] = Len(S) + 1
  BY <1>1
<1> HIDE DEF T, one
<1>4. {id \in DOMAIN T : T[id].status = "placed"} = {Len(S) + 1}
  BY <1>1, <1>2
<1>5. Range(one) = {Len(S) + 1}
  BY <1>3 DEF Range
<1> QED BY <1>3, <1>4, <1>5 DEF Inputs, T, one

\* admitSubmission: queued behind a run, placed without one, possibly with
\* what was queued before.
LEMMA AdmitSpec ==
  ASSUME Ledger, NEW type \in {"input", "write", "summary"}, NEW mode \in {"steer", "followUp", "write"},
         NEW head \in -1..Len(entries), NEW modes, Admit(Draft, type, mode, head, modes, gens)
  PROVE  /\ Ledger' /\ Neutral(entries, entries')
         /\ Sourced(entries, entries', HeadsOf(inbox) \cup {head})
         /\ HeadsWithin(inbox', inbox, head)
         /\ \/ run # NoRun /\ run' = run /\ gens' = gens /\ entries' = entries
            \/ run = NoRun /\ Begins(gens)
<1> DEFINE D == Draft
           id == Len(D.subs) + 1
           record(status) == [D EXCEPT !.subs = Append(D.subs, [type |-> type, status |-> status])]
           R == record("queued")
           queued == [R EXCEPT !.inbox = Append(R.inbox, [id |-> id, mode |-> mode, head |-> head])]
           K == HeadsOf(inbox) \cup {head}
<1>1. /\ Orderly(D) /\ D.subs = subs /\ D.inbox = inbox /\ D.entries = entries /\ D.users = <<>>
      /\ D \in Drafts /\ subs \in Seq(SubmissionRecord) /\ entries \in Seq(EntryRecord) /\ HeadsIn(entries)
      /\ Inputs(subs, run.inputs)
  BY DraftFields DEF Ledger
<1>2. Neutral(entries, entries) /\ Sourced(entries, entries, K)
  BY <1>1, NeutralRefl, SourcedRefl
<1>3. \A st \in {"queued", "placed", "done", "stale"} : [type |-> type, status |-> st] \in SubmissionRecord
  BY DEF SubmissionRecord, Settled
<1>4. /\ Orderly(queued) /\ queued.entries = entries /\ queued.users = <<>>
      /\ queued.subs = Append(subs, [type |-> type, status |-> "queued"]) /\ HeadsOf(queued.inbox) \subseteq K
  <2>1. Orderly(D) /\ head \in -1..Len(D.entries)
    BY <1>1
  <2> HIDE DEF D
  <2>2. /\ Orderly(queued) /\ queued.entries = D.entries /\ queued.users = D.users
        /\ queued.subs = Append(D.subs, [type |-> type, status |-> "queued"])
        /\ HeadsOf(queued.inbox) \subseteq HeadsOf(D.inbox) \cup {head}
    <3>1. queued = Enqueued(D, type, mode, head)
      BY DEF Enqueued
    <3> HIDE DEF queued
    <3>2. /\ Orderly(queued) /\ queued.entries = D.entries /\ queued.users = D.users
          /\ queued.subs = Append(D.subs, [type |-> type, status |-> "queued"])
          /\ queued.inbox = Append(D.inbox, [id |-> Len(D.subs) + 1, mode |-> mode, head |-> head])
      BY <2>1, <3>1, OrderlyQueue
    <3> DEFINE y == [id |-> Len(D.subs) + 1, mode |-> mode, head |-> head]
    <3>3. y \in InboxItem /\ y.head = head /\ D.inbox \in Seq(InboxItem)
      <4>1. Len(D.subs) + 1 \in Nat /\ head \in Int /\ D.inbox \in Seq(InboxItem)
        BY <2>1 DEF Orderly, Drafts
      <4> QED BY <4>1 DEF InboxItem
    <3> HIDE DEF y
    <3>4. HeadsOf(Append(D.inbox, y)) \subseteq HeadsOf(D.inbox) \cup {head}
      BY <3>3, HeadsMore
    <3> QED BY <3>2, <3>4 DEF y
  <2> HIDE DEF queued
  <2> QED BY <1>1, <2>2 DEF D
<1>5. Inputs(queued.subs, run.inputs)
  <2>1. [type |-> type, status |-> "queued"] \in SubmissionRecord /\ [type |-> type, status |-> "queued"].status # "placed"
    BY <1>3
  <2> QED BY <1>1, <1>4, <2>1, SameInputs
<1>6. CASE run # NoRun
  <2>1. Commit(queued) /\ run' = run /\ gens' = gens
    BY <1>6 DEF Admit
  <2> HIDE DEF queued
  <2>2. Orderly(Draft)' /\ subs' = queued.subs /\ entries' = entries /\ inbox' = queued.inbox
    BY <1>4, <2>1, Committed
  <2>3. HeadsWithin(inbox', inbox, head)
    BY <1>4, <2>2 DEF HeadsWithin
  <2> QED BY <1>2, <1>4, <1>5, <1>6, <2>1, <2>2, <2>3 DEF Ledger
<1>7. CASE run = NoRun
  <2>0. run.inputs = <<>>
    BY <1>7 DEF NoRun
  <2> DEFINE input == [AppendTo(record("placed"), Entry("user", id, <<>>, 0)) EXCEPT !.users = <<id>>]
             write == IF IsStale(D, head) THEN record("stale") ELSE AppendTo(record("done"), WriteEntry(D, head))
             idle == IF D.inbox # <<>> THEN Boundary(queued, "final", modes) ELSE IF type = "input" THEN input ELSE write
  <2>1. Commit(idle) /\ StartRun(idle.users, gens)
    BY <1>7 DEF Admit
  <2>2. /\ Orderly(idle) /\ Neutral(entries, idle.entries) /\ Inputs(idle.subs, idle.users)
        /\ Sourced(entries, idle.entries, K) /\ HeadsOf(idle.inbox) \subseteq K
    <3>1. CASE D.inbox # <<>>
      <4> DEFINE B == Boundary(queued, "final", modes)
      <4>1. idle = B
        BY <3>1
      <4> HIDE DEF queued
      <4>2. Places(queued, B)
        BY <1>4, BoundarySpec
      <4> HIDE DEF B
      <4>3. Orderly(B) /\ Neutral(entries, B.entries)
        BY <1>4, <4>2 DEF Places
      <4>4. /\ B.users \in Seq(Nat) /\ \A i, j \in DOMAIN B.users : B.users[i] = B.users[j] => i = j
            /\ Range(<<>>) \cup Range(B.users) = {s \in DOMAIN B.subs : B.subs[s].status = "placed"}
        BY <1>5, <2>0, <4>2, PlacedInputs
      <4>5. Range(<<>>) = {}
        BY DEF Range
      <4>6. Inputs(B.subs, B.users)
        BY <4>4, <4>5 DEF Inputs
      <4>7. Sourced(entries, B.entries, K) /\ HeadsOf(B.inbox) \subseteq K
        <5>1. Sourced(entries, B.entries, HeadsOf(queued.inbox)) /\ HeadsOf(B.inbox) \subseteq HeadsOf(queued.inbox)
          BY <1>4, <4>2 DEF Places
        <5> QED BY <1>4, <5>1 DEF Sourced
      <4> QED BY <4>1, <4>3, <4>6, <4>7
    <3>2. CASE D.inbox = <<>> /\ type = "input"
      <4> DEFINE P == record("placed")
                 e == Entry("user", id, <<>>, 0)
                 A == AppendTo(P, e)
                 C == [A EXCEPT !.users = <<id>>]
      <4>1. idle = C
        BY <3>2
      <4>2. id \in Nat /\ e \in EntryRecord /\ e.head = 0 /\ e.kind = "user"
        <5>1. id \in Nat
          BY <1>1
        <5> HIDE DEF id
        <5> QED BY <5>1 DEF Entry, EntryRecord
      <4> HIDE DEF D, e
      <4>3. /\ Orderly(P) /\ P.entries = entries /\ P.inbox = inbox
            /\ P.subs = Append(subs, [type |-> type, status |-> "placed"])
        BY <1>1, OrderlyRecord
      <4> HIDE DEF P
      <4>4. Orderly(A) /\ A.subs = P.subs /\ A.inbox = P.inbox /\ A.entries = Append(entries, e)
        BY <4>2, <4>3, OrderlyAppend
      <4> HIDE DEF A
      <4>5. C \in Drafts /\ C.subs = A.subs /\ C.inbox = A.inbox /\ C.entries = A.entries /\ C.users = <<id>>
        <5>1. A \in Drafts /\ <<id>> \in Seq(Nat)
          BY <4>2, <4>4 DEF Orderly
        <5> HIDE DEF id
        <5> QED BY <5>1 DEF Drafts
      <4>6. Neutral(entries, Append(entries, e)) /\ Sourced(entries, Append(entries, e), K)
        BY <1>1, <4>2, NeutralAppend, SourcedAppend
      <4>7. Inputs(P.subs, <<id>>)
        <5>1. [type |-> type, status |-> "placed"] \in SubmissionRecord /\ [type |-> type, status |-> "placed"].status = "placed"
          BY <1>3
        <5> QED BY <1>1, <2>0, <4>3, <5>1, FirstInput
      <4> HIDE DEF C, id
      <4>8. Orderly(C)
        BY <4>4, <4>5 DEF Orderly
      <4> HIDE DEF idle
      <4> QED BY <4>1, <4>3, <4>4, <4>5, <4>6, <4>7, <4>8
    <3>3. CASE D.inbox = <<>> /\ type # "input" /\ IsStale(D, head)
      <4> DEFINE P == record("stale")
      <4>1. idle = P
        BY <3>3
      <4>2. /\ Orderly(P) /\ P.entries = entries /\ P.users = <<>> /\ P.inbox = inbox
            /\ P.subs = Append(subs, [type |-> type, status |-> "stale"])
        <5> HIDE DEF D
        <5> QED BY <1>1, OrderlyRecord
      <4>3. [type |-> type, status |-> "stale"] \in SubmissionRecord /\ [type |-> type, status |-> "stale"].status # "placed"
        BY <1>3
      <4> HIDE DEF P, idle
      <4>4. Inputs(P.subs, <<>>)
        BY <1>1, <2>0, <4>2, <4>3, SameInputs
      <4> QED BY <1>2, <4>1, <4>2, <4>4
    <3>4. CASE D.inbox = <<>> /\ type # "input" /\ ~IsStale(D, head)
      <4> DEFINE P == record("done")
                 C == AppendTo(P, WriteEntry(D, head))
      <4>1. idle = C
        BY <3>4
      <4>2. /\ Orderly(P) /\ P.entries = entries /\ P.users = <<>> /\ P.inbox = inbox
            /\ P.subs = Append(subs, [type |-> type, status |-> "done"])
        <5> HIDE DEF D
        <5> QED BY <1>1, OrderlyRecord
      <4>3. [type |-> type, status |-> "done"] \in SubmissionRecord /\ [type |-> type, status |-> "done"].status # "placed"
        BY <1>3
      <4> HIDE DEF P, idle, D
      <4>4. Inputs(P.subs, <<>>)
        BY <1>1, <2>0, <4>2, <4>3, SameInputs
      <4>5. WriteEntry(D, head) = WriteEntry(P, head) /\ ~IsStale(P, head) /\ head \in Int /\ head \in -1..Len(P.entries)
        BY <1>1, <3>4, <4>2 DEF WriteEntry, IsStale
      <4>6. /\ Orderly(C) /\ C.subs = P.subs /\ C.users = P.users /\ C.inbox = P.inbox /\ Neutral(P.entries, C.entries)
            /\ Sourced(P.entries, C.entries, {head})
        BY <4>2, <4>5, OrderlyWrite
      <4> HIDE DEF C
      <4>7. Sourced(entries, C.entries, K)
        BY <4>2, <4>6 DEF Sourced
      <4> QED BY <4>1, <4>2, <4>4, <4>6, <4>7
    <3> QED BY <3>1, <3>2, <3>3, <3>4
  <2> HIDE DEF idle
  <2>3. Orderly(Draft)' /\ subs' = idle.subs /\ entries' = idle.entries /\ inbox' = idle.inbox
    BY <2>1, <2>2, Committed
  <2>4. run'.inputs = idle.users /\ Begins(gens)
    BY <2>1, <2>2, StartRunSpec DEF Inputs
  <2>5. HeadsWithin(inbox', inbox, head)
    BY <2>2, <2>3 DEF HeadsWithin
  <2> QED BY <1>7, <2>2, <2>3, <2>4, <2>5 DEF Ledger
<1> QED BY <1>6, <1>7

----------------------------------------------------------------------------
(* Steps that leave what the invariants say of the tasks.                  *)

SameGen(x, y) ==
  /\ y.live = x.live /\ y.assistant = x.assistant /\ y.pending = x.pending /\ y.outcome = x.outcome
  /\ y.phase = "tools" <=> x.phase = "tools"
SameTool(x, y) ==
  /\ y.gen = x.gen /\ y.assistant = x.assistant /\ y.call = x.call
  /\ y.live = x.live /\ y.outcome = x.outcome
SameComp(x, y) == y.owner = x.owner /\ y.phase = x.phase /\ y.live = x.live /\ y.kept = x.kept

GensKeep(G, H) ==
  /\ H \in Seq(GenerationTask) /\ Len(H) = Len(G) /\ DOMAIN H = DOMAIN G
  /\ \A g \in DOMAIN G : SameGen(G[g], H[g])
ToolsKeep(T, U) ==
  /\ U \in Seq(ToolTask) /\ Len(U) = Len(T) /\ DOMAIN U = DOMAIN T
  /\ \A t \in DOMAIN T : SameTool(T[t], U[t])
CompsKeep(C, B) ==
  /\ B \in Seq(CompactionTask) /\ Len(B) = Len(C) /\ DOMAIN B = DOMAIN C
  /\ \A c \in DOMAIN C : SameComp(C[c], B[c])

\* One element of a sequence replaced.
LEMMA SeqUpdate ==
  ASSUME NEW S, NEW s \in Seq(S), NEW i \in DOMAIN s, NEW x \in S
  PROVE  LET r == [s EXCEPT ![i] = x]
         IN /\ r \in Seq(S) /\ Len(r) = Len(s) /\ DOMAIN r = DOMAIN s
            /\ r[i] = x /\ \A j \in DOMAIN s : j # i => r[j] = s[j]
OBVIOUS

\* One element more.
LEMMA SeqAppend ==
  ASSUME NEW S, NEW s \in Seq(S), NEW x \in S
  PROVE  LET r == Append(s, x)
         IN /\ r \in Seq(S) /\ Len(r) = Len(s) + 1 /\ Len(s) \in Nat
            /\ DOMAIN s = 1..Len(s) /\ DOMAIN r = 1..(Len(s) + 1) /\ DOMAIN r = DOMAIN s \cup {Len(s) + 1}
            /\ r[Len(s) + 1] = x /\ \A j \in DOMAIN s : r[j] = s[j] /\ j # Len(s) + 1
OBVIOUS

\* Every element replaced.
LEMMA SeqMap ==
  ASSUME NEW S, NEW s \in Seq(S), NEW r, DOMAIN r = DOMAIN s, r = [i \in DOMAIN r |-> r[i]],
         \A i \in DOMAIN s : r[i] \in S
  PROVE  r \in Seq(S) /\ Len(r) = Len(s)
<1>1. Len(s) \in Nat /\ DOMAIN s = 1..Len(s)
  OBVIOUS
<1>2. r \in [1..Len(s) -> S]
  BY <1>1
<1> QED BY <1>1, <1>2, IsSeq

\* One generation replaced by one like it.
LEMMA GenUpdate ==
  ASSUME NEW G \in Seq(GenerationTask), NEW g \in DOMAIN G, NEW x \in GenerationTask, SameGen(G[g], x)
  PROVE  LET H == [G EXCEPT ![g] = x]
         IN GensKeep(G, H) /\ H[g] = x /\ \A h \in DOMAIN G : h # g => H[h] = G[h]
<1> DEFINE H == [G EXCEPT ![g] = x]
<1>1. /\ H \in Seq(GenerationTask) /\ Len(H) = Len(G) /\ DOMAIN H = DOMAIN G
      /\ H[g] = x /\ \A h \in DOMAIN G : h # g => H[h] = G[h]
  BY SeqUpdate
<1> HIDE DEF H
<1>2. \A h \in DOMAIN G : SameGen(G[h], G[h])
  BY DEF SameGen
<1>3. GensKeep(G, H)
  BY <1>1, <1>2 DEF GensKeep
<1> QED BY <1>1, <1>3 DEF H

\* Nothing replaced.
LEMMA KeepRefl ==
  /\ \A G \in Seq(GenerationTask) : GensKeep(G, G)
  /\ \A T \in Seq(ToolTask) : ToolsKeep(T, T)
  /\ \A C \in Seq(CompactionTask) : CompsKeep(C, C)
BY DEF GensKeep, ToolsKeep, CompsKeep, SameGen, SameTool, SameComp

----------------------------------------------------------------------------
(* The run and its generation.                                             *)

Busy(r, G, T, C) ==
  /\ r \in [task: Nat, inputs: Seq(Nat)] /\ (r.task = 0 => r = NoRun)
  /\ G \in Seq(GenerationTask) /\ (r.task # 0 => r.task \in DOMAIN G)
  /\ \A g \in DOMAIN G : G[g].live <=> g = r.task
  /\ \A t \in DOMAIN T : T[t].live => T[t].gen = r.task
  /\ \A c \in DOMAIN C : C[c].live /\ C[c].owner # 0 => C[c].owner = r.task

\* No task of a run is live.
Idle(G, T, C) ==
  /\ G \in Seq(GenerationTask) /\ \A g \in DOMAIN G : ~G[g].live
  /\ \A t \in DOMAIN T : ~T[t].live
  /\ \A c \in DOMAIN C : C[c].live => C[c].owner = 0

\* Without a run nothing is live.
LEMMA IdleWithout ==
  ASSUME NEW G, NEW T, NEW C, Busy(NoRun, G, T, C), \A t \in DOMAIN T : T[t].gen \in DOMAIN G
  PROVE  Idle(G, T, C)
<1>1. 0 \notin DOMAIN G
  BY DEF Busy
<1> QED BY <1>1 DEF Busy, Idle, NoRun

\* A new generation is as its definition says.
LEMMA NewGenerationFields ==
  /\ NewGeneration \in GenerationTask /\ NewGeneration.live = TRUE /\ NewGeneration.phase = "prepare"
  /\ NewGeneration.assistant = 0 /\ NewGeneration.pending = <<>> /\ NewGeneration.outcome = "none"
BY DEF NewGeneration, GenerationTask

\* A run that begins where nothing is live.
LEMMA BeginsBusy ==
  ASSUME NEW H, NEW T, NEW C, Idle(H, T, C), Begins(H)
  PROVE  Busy(run', gens', T, C)
<1>1. H \in Seq(GenerationTask) /\ Len(H) \in Nat /\ DOMAIN H = 1..Len(H)
  BY DEF Idle
<1>2. CASE run' = NoRun /\ gens' = H
  <2>1. NoRun \in [task: Nat, inputs: Seq(Nat)] /\ NoRun.task = 0
    BY DEF NoRun
  <2>2. Busy(NoRun, H, T, C)
    BY <1>1, <2>1 DEF Busy, Idle
  <2> QED BY <1>2, <2>2
<1>3. CASE \E us \in Seq(Nat) : run' = [task |-> Len(H) + 1, inputs |-> us] /\ gens' = Append(H, NewGeneration)
  <2>1. PICK us \in Seq(Nat) : run' = [task |-> Len(H) + 1, inputs |-> us] /\ gens' = Append(H, NewGeneration)
    BY <1>3
  <2> DEFINE r == [task |-> Len(H) + 1, inputs |-> us]
             G == Append(H, NewGeneration)
  <2>2. r \in [task: Nat, inputs: Seq(Nat)] /\ r.task = Len(H) + 1 /\ r.task # 0
    BY <1>1
  <2>3. /\ G \in Seq(GenerationTask) /\ DOMAIN G = DOMAIN H \cup {Len(H) + 1}
        /\ G[Len(H) + 1] = NewGeneration /\ \A g \in DOMAIN H : G[g] = H[g] /\ g # Len(H) + 1
    <3>1. NewGeneration \in GenerationTask
      BY NewGenerationFields
    <3> HIDE DEF G
    <3> QED BY <1>1, <3>1, SeqAppend DEF G
  <2> HIDE DEF r, G
  <2>4. Busy(r, G, T, C)
    BY <2>2, <2>3, NewGenerationFields DEF Busy, Idle
  <2> QED BY <2>1, <2>4 DEF r, G
<1> QED BY <1>2, <1>3 DEF Begins

\* The run and its tasks stay, or some of them end.
LEMMA BusyKeeps ==
  ASSUME NEW r, NEW G, NEW H, NEW T, NEW C, Busy(r, G, T, C), GensKeep(G, H), NEW U, NEW B,
         \A t \in DOMAIN U : U[t].live => U[t].gen = r.task,
         \A c \in DOMAIN B : B[c].live /\ B[c].owner # 0 => B[c].owner = r.task
  PROVE  Busy(r, H, U, B)
BY DEF Busy, GensKeep, SameGen

\* A generation that ended.
LEMMA EndedFields ==
  ASSUME gens \in Seq(GenerationTask), NEW g \in DOMAIN gens,
         NEW o \in {"completed", "failed", "aborted", "faulted"}
  PROVE  LET H == Ended(g, o)
         IN /\ H \in Seq(GenerationTask) /\ Len(H) = Len(gens) /\ DOMAIN H = DOMAIN gens
            /\ \A h \in DOMAIN gens : h # g => H[h] = gens[h]
            /\ ~H[g].live /\ H[g].outcome = o /\ H[g].assistant = gens[g].assistant /\ H[g].pending = <<>>
<1> DEFINE x == [NewGeneration EXCEPT !.live = FALSE, !.outcome = o, !.assistant = gens[g].assistant]
           H == [gens EXCEPT ![g] = x]
<1>1. gens[g].assistant \in Nat
  <2>1. gens[g] \in GenerationTask
    OBVIOUS
  <2> QED BY <2>1 DEF GenerationTask
<1>2. x \in GenerationTask /\ x.live = FALSE /\ x.outcome = o /\ x.assistant = gens[g].assistant /\ x.pending = <<>>
  BY <1>1, NewGenerationFields DEF GenerationTask
<1>3. H = Ended(g, o)
  BY DEF Ended
<1> HIDE DEF x
<1>4. /\ H \in Seq(GenerationTask) /\ Len(H) = Len(gens) /\ DOMAIN H = DOMAIN gens
      /\ H[g] = x /\ \A h \in DOMAIN gens : h # g => H[h] = gens[h]
  BY <1>2, SeqUpdate
<1> HIDE DEF H
<1> QED BY <1>2, <1>3, <1>4

\* A generation that is ready to end is the one of the run; nothing else is live.
LEMMA ReadyOwnsRun ==
  ASSUME Busy(run, gens, tools, comps), NEW g \in DOMAIN gens, Ready(g)
  PROVE  /\ run.task = g
         /\ \A o \in {"completed", "failed", "aborted", "faulted"} : Idle(Ended(g, o), tools, comps)
<1>1. run.task = g /\ gens \in Seq(GenerationTask)
  BY DEF Ready, Busy
<1>2. \A t \in DOMAIN tools : ~tools[t].live
  BY <1>1 DEF Ready, Busy, OwnedTools
<1>3. \A c \in DOMAIN comps : comps[c].live => comps[c].owner = 0
  BY <1>1 DEF Ready, Busy, OwnedComps
<1>4. ASSUME NEW o \in {"completed", "failed", "aborted", "faulted"} PROVE Idle(Ended(g, o), tools, comps)
  <2> DEFINE H == Ended(g, o)
  <2>1. /\ H \in Seq(GenerationTask) /\ DOMAIN H = DOMAIN gens
        /\ (\A h \in DOMAIN gens : h # g => H[h] = gens[h]) /\ ~H[g].live
    BY <1>1, EndedFields
  <2> HIDE DEF H
  <2>2. \A h \in DOMAIN gens : h # g => ~gens[h].live
    BY <1>1 DEF Busy
  <2>3. Idle(H, tools, comps)
    BY <1>2, <1>3, <2>1, <2>2 DEF Idle
  <2> QED BY <2>3 DEF H
<1> QED BY <1>1, <1>4

----------------------------------------------------------------------------
(* The calls of a round and their results.                                 *)

Res(E, a, c) == {r \in DOMAIN E : E[r].kind = "result" /\ E[r].of = a /\ E[r].calls = <<c>>}
TasksOf(T, g, c) == {t \in DOMAIN T : T[t].gen = g /\ T[t].call = c}

\* Who belongs to whom.
Linked(E, G, T) ==
  /\ \A g \in DOMAIN G :
       /\ G[g].live => (G[g].assistant # 0 <=> G[g].phase = "tools")
       /\ G[g].assistant = 0 \/ ~G[g].live => G[g].pending = <<>>
       /\ G[g].assistant # 0 => G[g].assistant \in DOMAIN E
       /\ \A i, j \in DOMAIN G[g].pending : G[g].pending[i] = G[g].pending[j] => i = j
  /\ \A g, h \in DOMAIN G : G[g].assistant = G[h].assistant /\ G[g].assistant # 0 => g = h
  /\ \A r \in DOMAIN E : E[r].kind = "result" => E[r].of < r
  /\ \A t \in DOMAIN T : /\ T[t].gen \in DOMAIN G /\ T[t].assistant # 0
                         /\ T[t].assistant = G[T[t].gen].assistant
  /\ \A t, u \in DOMAIN T : T[t].gen = T[u].gen /\ T[t].call = T[u].call => t = u

\* One call of a round: not started, or with its task, or answered; never
\* answered before its task is over.
CallState(E, G, T, g, c) ==
  LET R == Res(E, G[g].assistant, c)
      K == TasksOf(T, g, c)
  IN /\ \A r, q \in R : r = q
     /\ c \in Range(G[g].pending) => R = {} /\ K = {}
     /\ \A t \in K : IF T[t].live THEN R = {} ELSE T[t].outcome = "faulted" \/ R # {}
     /\ c \in Range(E[G[g].assistant].calls) =>
          c \in Range(G[g].pending) \/ K # {} \/ R # {} \/ (~G[g].live /\ G[g].outcome = "faulted")

Answered(E, G, T) ==
  \A g \in DOMAIN G : G[g].assistant # 0 => \A c \in Range(Calls) : CallState(E, G, T, g, c)

\* A call whose generation, results and tasks are the same.
LEMMA Untouched ==
  ASSUME NEW E, NEW F, NEW G, NEW H, NEW T, NEW U, NEW g, NEW c,
         CallState(E, G, T, g, c), SameGen(G[g], H[g]),
         F[G[g].assistant] = E[G[g].assistant], Res(F, G[g].assistant, c) = Res(E, G[g].assistant, c),
         TasksOf(U, g, c) = TasksOf(T, g, c),
         \A t \in TasksOf(T, g, c) : U[t].live = T[t].live /\ U[t].outcome = T[t].outcome
  PROVE  CallState(F, H, U, g, c)
BY DEF CallState, SameGen

\* The results of a call after others were appended.
LEMMA ResKept ==
  ASSUME NEW E \in Seq(EntryRecord), NEW F \in Seq(EntryRecord), Extends(E, F), NEW a, NEW c,
         \A i \in (Len(E) + 1)..Len(F) : ~(F[i].kind = "result" /\ F[i].of = a /\ F[i].calls = <<c>>)
  PROVE  Res(F, a, c) = Res(E, a, c)
<1> DEFINE n == Len(E)
           m == Len(F)
           Is(x) == x.kind = "result" /\ x.of = a /\ x.calls = <<c>>
<1>1. n \in Nat /\ m \in Nat /\ n <= m /\ DOMAIN E = 1..n /\ DOMAIN F = 1..m /\ \A i \in 1..n : F[i] = E[i]
  BY DEF Extends
<1>2. \A i \in (n + 1)..m : ~Is(F[i])
  OBVIOUS
<1>3. Res(F, a, c) = {r \in DOMAIN F : Is(F[r])} /\ Res(E, a, c) = {r \in DOMAIN E : Is(E[r])}
  BY DEF Res
<1> HIDE DEF n, m, Is
<1>4. \A i \in 1..m : i \in 1..n \/ i \in (n + 1)..m
  BY <1>1
<1>5. \A i \in 1..n : i \in 1..m
  BY <1>1
<1> QED BY <1>1, <1>2, <1>3, <1>4, <1>5

\* What a commit without results does to the transcript.
Resultless(E, F) ==
  Extends(E, F) /\ \A i \in (Len(E) + 1)..Len(F) : F[i].kind # "result"

\* The tasks of a call after tools that are as they were.
LEMMA TasksKept ==
  ASSUME NEW T, NEW U, ToolsKeep(T, U), NEW g, NEW c
  PROVE  /\ TasksOf(U, g, c) = TasksOf(T, g, c)
         /\ \A t \in TasksOf(T, g, c) : U[t].live = T[t].live /\ U[t].outcome = T[t].outcome
BY DEF ToolsKeep, SameTool, TasksOf

\* A commit without results that keeps the tasks.
LEMMA RoundsKeep ==
  ASSUME NEW E \in Seq(EntryRecord), NEW F \in Seq(EntryRecord), Resultless(E, F),
         NEW G, NEW H, GensKeep(G, H), NEW T, NEW U, ToolsKeep(T, U), Linked(E, G, T), Answered(E, G, T)
  PROVE  Linked(F, H, U) /\ Answered(F, H, U)
<1>1. DOMAIN E \subseteq DOMAIN F /\ (\A i \in DOMAIN E : F[i] = E[i])
      /\ \A i \in DOMAIN F : i \in DOMAIN E \/ i \in (Len(E) + 1)..Len(F)
  BY DEF Resultless, Extends
<1>2. DOMAIN H = DOMAIN G /\ \A g \in DOMAIN G : SameGen(G[g], H[g])
  BY DEF GensKeep
<1>3. DOMAIN U = DOMAIN T /\ \A t \in DOMAIN T : SameTool(T[t], U[t])
  BY DEF ToolsKeep
<1>4. Linked(F, H, U)
  <2>1. ASSUME NEW g \in DOMAIN H
        PROVE  /\ H[g].live => (H[g].assistant # 0 <=> H[g].phase = "tools")
               /\ H[g].assistant = 0 \/ ~H[g].live => H[g].pending = <<>>
               /\ H[g].assistant # 0 => H[g].assistant \in DOMAIN F
               /\ \A i, j \in DOMAIN H[g].pending : H[g].pending[i] = H[g].pending[j] => i = j
    BY <1>1, <1>2 DEF Linked, SameGen
  <2>2. \A g, h \in DOMAIN H : H[g].assistant = H[h].assistant /\ H[g].assistant # 0 => g = h
    BY <1>2 DEF Linked, SameGen
  <2>3. \A r \in DOMAIN F : F[r].kind = "result" => F[r].of < r
    BY <1>1 DEF Linked, Resultless
  <2>4. \A t \in DOMAIN U : U[t].gen \in DOMAIN H /\ U[t].assistant # 0 /\ U[t].assistant = H[U[t].gen].assistant
    BY <1>2, <1>3 DEF Linked, SameGen, SameTool
  <2>5. \A t, u \in DOMAIN U : U[t].gen = U[u].gen /\ U[t].call = U[u].call => t = u
    BY <1>3 DEF Linked, SameTool
  <2> QED BY <2>1, <2>2, <2>3, <2>4, <2>5 DEF Linked
<1>5. ASSUME NEW g \in DOMAIN H, H[g].assistant # 0, NEW c \in Range(Calls) PROVE CallState(F, H, U, g, c)
  <2> DEFINE a == G[g].assistant
  <2>1. g \in DOMAIN G /\ SameGen(G[g], H[g]) /\ a # 0
    BY <1>2, <1>5 DEF SameGen
  <2>2. CallState(E, G, T, g, c)
    BY <2>1 DEF Answered
  <2>3. F[a] = E[a]
    BY <1>1, <2>1 DEF Linked
  <2>4. Res(F, a, c) = Res(E, a, c)
    BY ResKept DEF Resultless
  <2>5. /\ TasksOf(U, g, c) = TasksOf(T, g, c)
        /\ \A t \in TasksOf(T, g, c) : U[t].live = T[t].live /\ U[t].outcome = T[t].outcome
    BY TasksKept
  <2> QED BY <2>1, <2>2, <2>3, <2>4, <2>5, Untouched
<1> QED BY <1>4, <1>5 DEF Answered

\* A successor generation has no round yet.
LEMMA RoundsBegin ==
  ASSUME NEW E \in Seq(EntryRecord), NEW G \in Seq(GenerationTask), NEW T, Linked(E, G, T), Answered(E, G, T)
  PROVE  Linked(E, Append(G, NewGeneration), T) /\ Answered(E, Append(G, NewGeneration), T)
<1> DEFINE H == Append(G, NewGeneration)
           n == Len(G) + 1
<1>1. DOMAIN H = DOMAIN G \cup {n} /\ H[n] = NewGeneration /\ \A g \in DOMAIN G : H[g] = G[g] /\ g # n
  <2>1. NewGeneration \in GenerationTask
    BY NewGenerationFields
  <2> QED BY <2>1, SeqAppend
<1>2. H[n].assistant = 0 /\ H[n].live /\ H[n].phase = "prepare" /\ H[n].pending = <<>>
  BY <1>1, NewGenerationFields
<1> HIDE DEF H, n
<1>3. Linked(E, H, T)
  <2>1. ASSUME NEW g \in DOMAIN H
        PROVE  /\ H[g].live => (H[g].assistant # 0 <=> H[g].phase = "tools")
               /\ H[g].assistant = 0 \/ ~H[g].live => H[g].pending = <<>>
               /\ H[g].assistant # 0 => H[g].assistant \in DOMAIN E
               /\ \A i, j \in DOMAIN H[g].pending : H[g].pending[i] = H[g].pending[j] => i = j
    <3>1. CASE g \in DOMAIN G
      BY <1>1, <3>1 DEF Linked
    <3>2. CASE g = n
      <4>1. DOMAIN <<>> = {}
        OBVIOUS
      <4> QED BY <1>2, <3>2, <4>1
    <3> QED BY <1>1, <3>1, <3>2
  <2>2. \A g, h \in DOMAIN H : H[g].assistant = H[h].assistant /\ H[g].assistant # 0 => g = h
    BY <1>1, <1>2 DEF Linked
  <2>3. \A t \in DOMAIN T : T[t].gen \in DOMAIN H /\ T[t].assistant # 0 /\ T[t].assistant = H[T[t].gen].assistant
    BY <1>1 DEF Linked
  <2> QED BY <2>1, <2>2, <2>3 DEF Linked
<1>4. ASSUME NEW g \in DOMAIN H, H[g].assistant # 0, NEW c \in Range(Calls) PROVE CallState(E, H, T, g, c)
  <2>1. g \in DOMAIN G /\ H[g] = G[g]
    BY <1>1, <1>2, <1>4
  <2>2. CallState(E, G, T, g, c)
    BY <1>4, <2>1 DEF Answered
  <2> QED BY <2>1, <2>2 DEF CallState
<1> QED BY <1>3, <1>4 DEF Answered, H

\* A run that begins adds at most a generation without a round.
LEMMA BeginsRounds ==
  ASSUME NEW E \in Seq(EntryRecord), NEW H \in Seq(GenerationTask), NEW T, Begins(H),
         Linked(E, H, T), Answered(E, H, T)
  PROVE  Linked(E, gens', T) /\ Answered(E, gens', T)
<1>1. CASE gens' = H
  BY <1>1
<1>2. CASE gens' = Append(H, NewGeneration)
  <2>1. Linked(E, Append(H, NewGeneration), T) /\ Answered(E, Append(H, NewGeneration), T)
    BY RoundsBegin
  <2> QED BY <1>2, <2>1
<1> QED BY <1>1, <1>2 DEF Begins

\* A generation that ends when none of its tools is live: each call it never
\* started is answered now, or the generation faulted.
LEMMA RoundsEnd ==
  ASSUME NEW E \in Seq(EntryRecord), NEW F \in Seq(EntryRecord), Extends(E, F),
         NEW G, NEW T, Linked(E, G, T), Answered(E, G, T),
         NEW g \in DOMAIN G, G[g].live, \A t \in DOMAIN T : ~T[t].live,
         NEW H, DOMAIN H = DOMAIN G, \A h \in DOMAIN G : h # g => H[h] = G[h],
         ~H[g].live, H[g].assistant = G[g].assistant, H[g].pending = <<>>,
         \A i \in (Len(E) + 1)..Len(F) : F[i].kind = "result" => F[i].of = G[g].assistant /\ G[g].assistant # 0,
         G[g].assistant # 0 => \A c \in Range(Calls) :
            \/ /\ Res(F, G[g].assistant, c) = Res(E, G[g].assistant, c)
               /\ c \in Range(G[g].pending) => H[g].outcome = "faulted"
            \/ c \in Range(G[g].pending) /\ \E q : Res(F, G[g].assistant, c) = {q}
  PROVE  Linked(F, H, T) /\ Answered(F, H, T)
<1> DEFINE a == G[g].assistant
<1>1. DOMAIN E \subseteq DOMAIN F /\ (\A i \in DOMAIN E : F[i] = E[i])
      /\ DOMAIN E = 1..Len(E) /\ DOMAIN F = 1..Len(F) /\ Len(E) \in Nat /\ Len(F) \in Nat
      /\ \A i \in DOMAIN F : i \in DOMAIN E \/ i \in (Len(E) + 1)..Len(F)
  BY DEF Extends
<1>2. a # 0 => a \in DOMAIN E
  BY DEF Linked
<1>3. DOMAIN <<>> = {} /\ Range(<<>>) = {}
  BY DEF Range
<1>4. Linked(F, H, T)
  <2>1. ASSUME NEW h \in DOMAIN H
        PROVE  /\ H[h].live => (H[h].assistant # 0 <=> H[h].phase = "tools")
               /\ H[h].assistant = 0 \/ ~H[h].live => H[h].pending = <<>>
               /\ H[h].assistant # 0 => H[h].assistant \in DOMAIN F
               /\ \A i, j \in DOMAIN H[h].pending : H[h].pending[i] = H[h].pending[j] => i = j
    <3>1. CASE h = g
      BY <1>1, <1>2, <1>3, <3>1
    <3>2. CASE h # g
      BY <1>1, <3>2 DEF Linked
    <3> QED BY <3>1, <3>2
  <2>2. \A h \in DOMAIN G : H[h].assistant = G[h].assistant
    OBVIOUS
  <2>3. \A h, k \in DOMAIN H : H[h].assistant = H[k].assistant /\ H[h].assistant # 0 => h = k
    BY <2>2 DEF Linked
  <2>4. ASSUME NEW r \in DOMAIN F, F[r].kind = "result" PROVE F[r].of < r
    <3>1. CASE r \in DOMAIN E
      BY <1>1, <2>4, <3>1 DEF Linked
    <3>2. CASE r \in (Len(E) + 1)..Len(F)
      <4>1. F[r].of = a /\ a # 0
        BY <2>4, <3>2
      <4>2. a \in 1..Len(E)
        BY <1>1, <1>2, <4>1
      <4> HIDE DEF a
      <4> QED BY <1>1, <3>2, <4>1, <4>2
    <3> QED BY <1>1, <3>1, <3>2
  <2>5. \A t \in DOMAIN T : T[t].gen \in DOMAIN H /\ T[t].assistant # 0 /\ T[t].assistant = H[T[t].gen].assistant
    BY <2>2 DEF Linked
  <2>6. \A t, u \in DOMAIN T : T[t].gen = T[u].gen /\ T[t].call = T[u].call => t = u
    BY DEF Linked
  <2> QED BY <2>1, <2>3, <2>4, <2>5, <2>6 DEF Linked
<1>5. ASSUME NEW h \in DOMAIN H, H[h].assistant # 0, NEW c \in Range(Calls) PROVE CallState(F, H, T, h, c)
  <2>1. G[h].assistant # 0 /\ H[h].assistant = G[h].assistant
    BY <1>5
  <2>2. CallState(E, G, T, h, c)
    BY <2>1 DEF Answered
  <2>3. F[G[h].assistant] = E[G[h].assistant]
    BY <1>1, <2>1 DEF Linked
  <2>4. CASE h # g
    <3>1. G[h].assistant # a
      BY <2>1, <2>4 DEF Linked
    <3>2. Res(F, G[h].assistant, c) = Res(E, G[h].assistant, c)
      BY <3>1, ResKept
    <3>3. SameGen(G[h], H[h])
      BY <2>4 DEF SameGen
    <3> QED BY <2>2, <2>3, <3>2, <3>3, Untouched
  <2>5. CASE h = g
    <3> DEFINE R == Res(E, a, c)
               Q == Res(F, a, c)
               K == TasksOf(T, g, c)
    <3>1. /\ \A r, q \in R : r = q
          /\ c \in Range(G[g].pending) => R = {} /\ K = {}
          /\ \A t \in K : T[t].outcome = "faulted" \/ R # {}
          /\ c \in Range(E[a].calls) =>
               c \in Range(G[g].pending) \/ K # {} \/ R # {} \/ (~G[g].live /\ G[g].outcome = "faulted")
      BY <2>2, <2>5 DEF CallState, TasksOf
    <3>3. \/ Q = R /\ (c \in Range(G[g].pending) => H[g].outcome = "faulted")
          \/ c \in Range(G[g].pending) /\ \E q : Q = {q}
      BY <2>1, <2>5
    <3> HIDE DEF R, Q, K
    <3>5. /\ \A r, q \in Q : r = q
          /\ \A t \in K : T[t].outcome = "faulted" \/ Q # {}
          /\ c \in Range(E[a].calls) => K # {} \/ Q # {} \/ (~H[g].live /\ H[g].outcome = "faulted")
      BY <3>1, <3>3
    <3>6. \A t \in K : ~T[t].live
      BY DEF K, TasksOf
    <3> QED BY <1>3, <2>3, <2>5, <3>5, <3>6 DEF CallState, Q, K
  <2> QED BY <2>4, <2>5
<1> QED BY <1>4, <1>5 DEF Answered

\* The result of a call.
LEMMA ResultFields ==
  ASSUME NEW a \in Nat, NEW c \in Range(Calls)
  PROVE  LET e == Result(a, c)
         IN /\ e \in EntryRecord /\ e.kind = "result" /\ e.of = a /\ e.head = 0 /\ e.calls = <<c>>
            /\ \A d : e.calls = <<d>> => c = d
<1> DEFINE s == <<c>>
           e == Entry("result", a, s, 0)
<1>1. s \in Seq(Range(Calls)) /\ \A d : s = <<d>> => c = d
  OBVIOUS
<1> HIDE DEF s
<1>2. e \in EntryRecord /\ e.kind = "result" /\ e.of = a /\ e.calls = s /\ e.head = 0
  BY <1>1, EntryTyped
<1> HIDE DEF e
<1>3. e = Result(a, c)
  BY DEF e, s, Result
<1> QED BY <1>1, <1>2, <1>3 DEF s

\* One entry more.
Adds(E, F, e) == Extends(E, F) /\ Len(F) = Len(E) + 1 /\ F[Len(E) + 1] = e

\* The tools of a step that ends one of them.
EndsTool(T, U, t, o) ==
  /\ U \in Seq(ToolTask) /\ DOMAIN U = DOMAIN T /\ Len(U) = Len(T) /\ \A u \in DOMAIN T : u # t => U[u] = T[u]
  /\ U[t].gen = T[t].gen /\ U[t].assistant = T[t].assistant /\ U[t].call = T[t].call
  /\ ~U[t].live /\ U[t].outcome = o

\* The tasks of each call after one of them ended.
LEMMA TasksEnd ==
  ASSUME NEW T, NEW U, NEW t \in DOMAIN T, NEW o, EndsTool(T, U, t, o), NEW g, NEW c
  PROVE  /\ TasksOf(U, g, c) = TasksOf(T, g, c)
         /\ \A u \in TasksOf(T, g, c) : u # t => U[u].live = T[u].live /\ U[u].outcome = T[u].outcome
BY DEF EndsTool, TasksOf

\* Who belongs to whom is the same after a tool ended.
LEMMA LinkedEnd ==
  ASSUME NEW E, NEW G, NEW T, Linked(E, G, T), NEW U, NEW t \in DOMAIN T, NEW o, EndsTool(T, U, t, o)
  PROVE  Linked(E, G, U)
<1>1. DOMAIN U = DOMAIN T
      /\ \A u \in DOMAIN T : U[u].gen = T[u].gen /\ U[u].assistant = T[u].assistant /\ U[u].call = T[u].call
  BY DEF EndsTool
<1> QED BY <1>1 DEF Linked

\* settle: the only task of a call ends together with its only result.
LEMMA RoundsSettle ==
  ASSUME NEW E \in Seq(EntryRecord), NEW F \in Seq(EntryRecord),
         NEW G, NEW T, Linked(E, G, T), Answered(E, G, T),
         NEW U, NEW t \in DOMAIN T, NEW o, EndsTool(T, U, t, o), T[t].live,
         T[t].assistant \in Nat, T[t].call \in Range(Calls),
         Adds(E, F, Result(T[t].assistant, T[t].call))
  PROVE  Linked(F, G, U) /\ Answered(F, G, U)
<1> DEFINE a == T[t].assistant
           d == T[t].call
           k == T[t].gen
           n == Len(E) + 1
           e == Result(a, d)
<1>1. /\ e.kind = "result" /\ e.of = a /\ e.calls = <<d>> /\ e \in EntryRecord
      /\ \A c : e.calls = <<c>> => d = c
  BY ResultFields
<1>2. k \in DOMAIN G /\ a = G[k].assistant /\ a # 0 /\ a \in DOMAIN E
  BY DEF Linked
<1> HIDE DEF k
<1>3. /\ DOMAIN F = DOMAIN E \cup {n} /\ F[n] = e /\ (\A i \in DOMAIN E : F[i] = E[i] /\ i # n /\ i < n)
      /\ Extends(E, F) /\ \A i \in (Len(E) + 1)..Len(F) : i = n
  BY <1>1 DEF Adds, Extends
<1> HIDE DEF n, e, a, d
<1>4. Linked(F, G, T)
  <2>1. \A r \in DOMAIN F : F[r].kind = "result" => F[r].of < r
    BY <1>1, <1>2, <1>3 DEF Linked
  <2> QED BY <1>3, <2>1 DEF Linked
<1>5. Linked(F, G, U)
  BY <1>4, LinkedEnd
<1>6. ASSUME NEW g \in DOMAIN G, G[g].assistant # 0, NEW c \in Range(Calls) PROVE CallState(F, G, U, g, c)
  <2>1. CallState(E, G, T, g, c)
    BY <1>6 DEF Answered
  <2>2. F[G[g].assistant] = E[G[g].assistant]
    BY <1>3, <1>6 DEF Linked
  <2>3. SameGen(G[g], G[g])
    BY DEF SameGen
  <2>4. /\ TasksOf(U, g, c) = TasksOf(T, g, c)
        /\ \A u \in TasksOf(T, g, c) : u # t => U[u].live = T[u].live /\ U[u].outcome = T[u].outcome
    BY DEF EndsTool, TasksOf
  <2>5. CASE g # k \/ c # d
    <3>1. Res(F, G[g].assistant, c) = Res(E, G[g].assistant, c)
      <4>1. G[g].assistant # a \/ c # d
        BY <1>2, <1>6, <2>5 DEF Linked
      <4> QED BY <1>1, <1>3, <4>1, ResKept
    <3>2. t \notin TasksOf(T, g, c)
      BY <2>5 DEF TasksOf, k, d
    <3> QED BY <2>1, <2>2, <2>3, <2>4, <3>1, <3>2, Untouched
  <2>6. CASE g = k /\ c = d
    <3>1. t \in TasksOf(T, g, c) /\ \A u \in TasksOf(T, g, c) : u = t
      BY <2>6 DEF TasksOf, k, d, Linked
    <3>2. Res(E, G[g].assistant, c) = {} /\ c \notin Range(G[g].pending)
      BY <2>1, <3>1 DEF CallState
    <3>3. Res(F, G[g].assistant, c) = {n}
      <4>1. Res(E, a, d) = {} /\ a = G[g].assistant /\ d = c
        BY <1>2, <2>6, <3>2
      <4>2. Res(F, a, d) = {n}
        BY <1>1, <1>3, <4>1 DEF Res
      <4> QED BY <4>1, <4>2
    <3>4. ~U[t].live
      BY DEF EndsTool
    <3> QED BY <2>4, <3>1, <3>2, <3>3, <3>4 DEF CallState
  <2> QED BY <2>5, <2>6
<1> QED BY <1>5, <1>6 DEF Answered

\* A tool task that faults ends without a result.
LEMMA RoundsFault ==
  ASSUME NEW E, NEW G, NEW T, Linked(E, G, T), Answered(E, G, T),
         NEW U, NEW t \in DOMAIN T, EndsTool(T, U, t, "faulted")
  PROVE  Linked(E, G, U) /\ Answered(E, G, U)
<1>1. Linked(E, G, U)
  BY LinkedEnd
<1>2. ASSUME NEW g \in DOMAIN G, G[g].assistant # 0, NEW c \in Range(Calls) PROVE CallState(E, G, U, g, c)
  <2>1. CallState(E, G, T, g, c)
    BY <1>2 DEF Answered
  <2>2. /\ TasksOf(U, g, c) = TasksOf(T, g, c)
        /\ \A u \in TasksOf(T, g, c) : u # t => U[u].live = T[u].live /\ U[u].outcome = T[u].outcome
    BY TasksEnd
  <2>3. ~U[t].live /\ U[t].outcome = "faulted"
    BY DEF EndsTool
  <2> QED BY <2>1, <2>2, <2>3 DEF CallState
<1> QED BY <1>1, <1>2 DEF Answered

\* The tools of a step that starts some calls of a round.
AddsTools(T, U, g, a, s) ==
  /\ U \in Seq(ToolTask) /\ DOMAIN T \subseteq DOMAIN U /\ \A t \in DOMAIN T : U[t] = T[t]
  /\ \A u \in DOMAIN U \ DOMAIN T :
       /\ U[u].gen = g /\ U[u].assistant = a /\ U[u].live /\ U[u].phase = "call" /\ U[u].runs = 0
       /\ U[u].call \in Range(s)
  /\ \A c \in Range(s) : \E u \in DOMAIN U \ DOMAIN T : U[u].call = c
  /\ \A u, v \in DOMAIN U \ DOMAIN T : U[u].call = U[v].call => u = v

\* What holds when the calls 's' of the round of 'g' start: they were not
\* started nor answered, and the others are as they must be.
GoesOn(E, F, G, H, T, g, a, s) ==
  /\ DOMAIN H = DOMAIN G /\ \A h \in DOMAIN G : h # g => H[h] = G[h]
  /\ a # 0 /\ a \in DOMAIN F
  /\ H[g].live /\ H[g].phase = "tools" /\ H[g].assistant = a
  /\ \A i, j \in DOMAIN H[g].pending : H[g].pending[i] = H[g].pending[j] => i = j
  /\ \A h \in DOMAIN G : h # g => G[h].assistant # a
  /\ \A t \in DOMAIN T : T[t].gen = g => T[t].assistant = a
  /\ \A i \in (Len(E) + 1)..Len(F) : F[i].kind = "result" => F[i].of = a /\ a < i
  /\ \A c \in Range(Calls) : LET R == Res(F, a, c) K == TasksOf(T, g, c) IN
       /\ c \in Range(s) => R = {} /\ K = {} /\ c \notin Range(H[g].pending)
       /\ \A r, q \in R : r = q
       /\ c \in Range(H[g].pending) => R = {} /\ K = {}
       /\ \A t \in K : IF T[t].live THEN R = {} ELSE T[t].outcome = "faulted" \/ R # {}
       /\ c \in Range(F[a].calls) => c \in Range(s) \/ c \in Range(H[g].pending) \/ K # {} \/ R # {}

\* A step that starts calls of a round.
LEMMA RoundsGo ==
  ASSUME NEW E \in Seq(EntryRecord), NEW F \in Seq(EntryRecord), Extends(E, F),
         NEW G, NEW H, NEW T, NEW U, Linked(E, G, T), Answered(E, G, T),
         NEW g \in DOMAIN G, NEW a, NEW s, AddsTools(T, U, g, a, s), GoesOn(E, F, G, H, T, g, a, s)
  PROVE  Linked(F, H, U) /\ Answered(F, H, U)
<1> USE DEF GoesOn
<1> DEFINE R(c) == Res(F, a, c)
           K(c) == TasksOf(T, g, c)
<1>1. DOMAIN E \subseteq DOMAIN F /\ (\A i \in DOMAIN E : F[i] = E[i])
      /\ \A i \in DOMAIN F : i \in DOMAIN E \/ i \in (Len(E) + 1)..Len(F)
  BY DEF Extends
<1>2. U \in Seq(ToolTask) /\ DOMAIN T \subseteq DOMAIN U /\ \A t \in DOMAIN T : U[t] = T[t]
  BY DEF AddsTools
<1>3. ASSUME NEW u \in DOMAIN U \ DOMAIN T
      PROVE  /\ U[u].gen = g /\ U[u].assistant = a /\ U[u].live /\ U[u].call \in Range(s)
             /\ U[u].call \in Range(Calls) /\ K(U[u].call) = {}
  <2>1. U[u].gen = g /\ U[u].assistant = a /\ U[u].live /\ U[u].call \in Range(s)
    BY DEF AddsTools
  <2>2. U[u].call \in Range(Calls)
    <3>1. U[u] \in ToolTask
      BY <1>2
    <3> QED BY <3>1 DEF ToolTask
  <2> QED BY <2>1, <2>2
<1>4. Linked(F, H, U)
  <2>1. ASSUME NEW h \in DOMAIN H
        PROVE  /\ H[h].live => (H[h].assistant # 0 <=> H[h].phase = "tools")
               /\ H[h].assistant = 0 \/ ~H[h].live => H[h].pending = <<>>
               /\ H[h].assistant # 0 => H[h].assistant \in DOMAIN F
               /\ \A i, j \in DOMAIN H[h].pending : H[h].pending[i] = H[h].pending[j] => i = j
    <3>1. CASE h = g
      BY <3>1
    <3>2. CASE h # g
      BY <1>1, <3>2 DEF Linked
    <3> QED BY <3>1, <3>2
  <2>2. \A h, k \in DOMAIN H : H[h].assistant = H[k].assistant /\ H[h].assistant # 0 => h = k
    BY DEF Linked
  <2>3. ASSUME NEW r \in DOMAIN F, F[r].kind = "result" PROVE F[r].of < r
    BY <1>1, <2>3 DEF Linked
  <2>4. ASSUME NEW t \in DOMAIN U
        PROVE  U[t].gen \in DOMAIN H /\ U[t].assistant # 0 /\ U[t].assistant = H[U[t].gen].assistant
    <3>1. CASE t \in DOMAIN T
      BY <1>2, <3>1 DEF Linked
    <3>2. CASE t \notin DOMAIN T
      BY <1>3, <3>2
    <3> QED BY <3>1, <3>2
  <2>5. ASSUME NEW t \in DOMAIN U, NEW u \in DOMAIN U, U[t].gen = U[u].gen, U[t].call = U[u].call PROVE t = u
    <3>1. CASE t \in DOMAIN T /\ u \in DOMAIN T
      BY <1>2, <2>5, <3>1 DEF Linked
    <3>2. CASE t \notin DOMAIN T /\ u \notin DOMAIN T
      BY <2>5, <3>2 DEF AddsTools
    <3>3. ASSUME NEW x \in DOMAIN T, NEW y \in DOMAIN U \ DOMAIN T, U[x].gen = U[y].gen, U[x].call = U[y].call
          PROVE  FALSE
      <4>1. U[y].gen = g /\ K(U[y].call) = {}
        BY <1>3
      <4>2. x \in K(U[y].call)
        BY <1>2, <3>3, <4>1 DEF TasksOf
      <4> HIDE DEF K
      <4> QED BY <4>1, <4>2
    <3> QED BY <2>5, <3>1, <3>2, <3>3
  <2> QED BY <2>1, <2>2, <2>3, <2>4, <2>5 DEF Linked
<1>5. ASSUME NEW h \in DOMAIN H, H[h].assistant # 0, NEW c \in Range(Calls) PROVE CallState(F, H, U, h, c)
  <2>1. CASE h # g
    <3>1. G[h].assistant # 0 /\ G[h].assistant # a /\ H[h] = G[h] /\ G[h].assistant \in DOMAIN E
      BY <1>5, <2>1 DEF Linked
    <3>2. CallState(E, G, T, h, c) /\ SameGen(G[h], H[h])
      BY <3>1 DEF Answered, SameGen
    <3>3. Res(F, G[h].assistant, c) = Res(E, G[h].assistant, c)
      BY <3>1, ResKept
    <3>4. TasksOf(U, h, c) = TasksOf(T, h, c)
      BY <1>2, <1>3, <2>1 DEF TasksOf
    <3>5. \A t \in TasksOf(T, h, c) : U[t].live = T[t].live /\ U[t].outcome = T[t].outcome
      BY <1>2 DEF TasksOf
    <3>6. F[G[h].assistant] = E[G[h].assistant]
      BY <1>1, <3>1
    <3> QED BY <3>2, <3>3, <3>4, <3>5, <3>6, Untouched
  <2>2. CASE h = g /\ c \in Range(s)
    <3>1. R(c) = {} /\ c \notin Range(H[g].pending)
      BY <2>2
    <3>2. \A t \in TasksOf(U, g, c) : U[t].live
      <4>1. \A t \in TasksOf(U, g, c) : t \notin DOMAIN T
        <5>1. K(c) = {}
          BY <2>2
        <5> QED BY <1>2, <5>1 DEF TasksOf
      <4> QED BY <1>3, <4>1 DEF TasksOf
    <3>3. TasksOf(U, g, c) # {}
      <4>1. PICK u \in DOMAIN U \ DOMAIN T : U[u].call = c
        BY <2>2 DEF AddsTools
      <4> QED BY <1>3, <4>1 DEF TasksOf
    <3> QED BY <2>2, <3>1, <3>2, <3>3 DEF CallState
  <2>3. CASE h = g /\ c \notin Range(s)
    <3>1. TasksOf(U, g, c) = K(c)
      BY <1>2, <1>3, <2>3 DEF TasksOf
    <3>2. \A t \in K(c) : U[t] = T[t]
      BY <1>2 DEF TasksOf
    <3>3. /\ \A r, q \in R(c) : r = q
          /\ c \in Range(H[g].pending) => R(c) = {} /\ K(c) = {}
          /\ \A t \in K(c) : IF T[t].live THEN R(c) = {} ELSE T[t].outcome = "faulted" \/ R(c) # {}
          /\ c \in Range(F[a].calls) => c \in Range(H[g].pending) \/ K(c) # {} \/ R(c) # {}
      BY <2>3
    <3>4. H[g].assistant = a /\ H[g].live
      OBVIOUS
    <3> HIDE DEF K, R, GoesOn
    <3>5. Res(F, a, c) = R(c)
      BY DEF R
    <3>6. CallState(F, H, U, g, c)
      BY <3>1, <3>2, <3>3, <3>4, <3>5 DEF CallState
    <3> QED BY <2>3, <3>6
  <2> QED BY <2>1, <2>2, <2>3
<1> QED BY <1>4, <1>5 DEF Answered

\* F ends with the results of the distinct calls s.
ResultsOn(E, F, a, s) ==
  /\ \A i, j \in DOMAIN s : s[i] = s[j] => i = j
  /\ Len(F) = Len(E) + Len(s) /\ \A i \in 1..Len(s) : F[Len(E) + i] = Result(a, s[i])

\* One result of c if it is one of s and had none, as many as before otherwise.
NowAnswered(E, F, a, s, c) ==
  IF c \in Range(s) THEN \E q : Res(F, a, c) = {q} ELSE Res(F, a, c) = Res(E, a, c)
NoResult(E, a, s) == \A c \in Range(s) : Res(E, a, c) = {}

\* Results appended for distinct calls that had none.
LEMMA ResAnswers ==
  ASSUME NEW E \in Seq(EntryRecord), NEW F \in Seq(EntryRecord), Extends(E, F),
         NEW s \in Seq(Range(Calls)), NEW a \in Nat, ResultsOn(E, F, a, s),
         NEW c, NoResult(E, a, s)
  PROVE  NowAnswered(E, F, a, s, c)
<1> DEFINE n == Len(s)
           b == Len(E)
           Is(x) == x.kind = "result" /\ x.of = a /\ x.calls = <<c>>
<1>1. n \in Nat /\ b \in Nat /\ DOMAIN s = 1..n /\ DOMAIN F = 1..(b + n) /\ DOMAIN E = 1..b /\ \A r \in 1..b : F[r] = E[r]
  BY DEF Extends, ResultsOn
<1>2. ASSUME NEW i \in 1..n PROVE (Is(F[b + i]) <=> s[i] = c) /\ F[b + i].of = a /\ F[b + i].head = 0
  <2> DEFINE x == s[i]
             e == Result(a, x)
  <2>1. x \in Range(Calls)
    BY <1>1
  <2>2. /\ e.kind = "result" /\ e.of = a /\ e.calls = <<x>> /\ e.head = 0
        /\ \A d : e.calls = <<d>> => x = d
    <3> HIDE DEF x
    <3> QED BY <2>1, ResultFields
  <2>3. F[b + i] = e
    BY <1>1 DEF ResultsOn
  <2> HIDE DEF e
  <2> QED BY <2>2, <2>3
<1>3. \A i \in (b + 1)..(b + n) : i - b \in 1..n /\ b + (i - b) = i
  BY <1>1
<1>4. \A i \in 1..n : b + i \in 1..(b + n) /\ b + i \notin 1..b
  BY <1>1
<1>5. \A i \in 1..(b + n) : i \in 1..b \/ i \in (b + 1)..(b + n)
  BY <1>1
<1>6. \A i \in (b + 1)..(b + n) : (Is(F[i]) <=> s[i - b] = c) /\ F[i].of = a /\ F[i].head = 0
  <2> HIDE DEF Is, n, b
  <2> QED BY <1>2, <1>3
<1>7. \A r \in 1..b : c \in Range(s) => ~Is(F[r])
  BY <1>1 DEF Res, NoResult
<1>8. Res(F, a, c) = {r \in DOMAIN F : Is(F[r])} /\ Res(E, a, c) = {r \in DOMAIN E : Is(E[r])}
  BY DEF Res
<1>10. ASSUME c \in Range(s) PROVE \E q : Res(F, a, c) = {q}
  <2>1. PICK k \in 1..n : s[k] = c
    BY <1>1, <1>10 DEF Range
  <2> HIDE DEF Is, n, b
  <2>2. ASSUME NEW r \in DOMAIN F, Is(F[r]) PROVE r = b + k
    <3>1. r \in (b + 1)..(b + n)
      BY <1>1, <1>5, <1>7, <1>10, <2>2
    <3>2. s[r - b] = c /\ r - b \in DOMAIN s /\ k \in DOMAIN s
      BY <1>1, <1>3, <1>6, <2>2, <3>1
    <3>3. r - b = k
      BY <2>1, <3>2 DEF ResultsOn
    <3> QED BY <1>3, <3>1, <3>3
  <2>3. b + k \in DOMAIN F /\ Is(F[b + k])
    BY <1>1, <1>2, <1>4, <2>1
  <2>4. Res(F, a, c) = {b + k}
    BY <1>8, <2>2, <2>3
  <2> QED BY <2>4
<1>11. ASSUME c \notin Range(s), NEW i \in (b + 1)..(b + n) PROVE ~Is(F[i])
  <2>1. i - b \in DOMAIN s
    BY <1>1, <1>3
  <2> HIDE DEF Is, n, b
  <2> QED BY <1>6, <1>11, <2>1 DEF Range
<1>12. ASSUME c \notin Range(s) PROVE Res(F, a, c) = Res(E, a, c)
  <2>1. \A r \in 1..b : r \in 1..(b + n)
    BY <1>1
  <2> HIDE DEF Is, n, b
  <2> QED BY <1>1, <1>5, <1>8, <1>11, <1>12, <2>1
<1> QED BY <1>10, <1>12 DEF NowAnswered

\* The rest of a non-empty sequence of distinct calls.
LEMMA TailOf ==
  ASSUME NEW S, NEW s \in Seq(S), s # <<>>, \A i, j \in DOMAIN s : s[i] = s[j] => i = j
  PROVE  /\ Tail(s) \in Seq(S) /\ Head(s) \in S /\ <<Head(s)>> \in Seq(S)
         /\ \A i, j \in DOMAIN Tail(s) : Tail(s)[i] = Tail(s)[j] => i = j
         /\ Head(s) \notin Range(Tail(s)) /\ Range(s) = Range(Tail(s)) \cup {Head(s)}
         /\ Range(<<Head(s)>>) = {Head(s)} /\ \A i, j \in DOMAIN <<Head(s)>> : i = j
<1> DEFINE u == Tail(s)
           n == Len(s)
<1>1. n \in Nat /\ n > 0 /\ DOMAIN s = 1..n /\ Head(s) = s[1] /\ s[1] \in S
  OBVIOUS
<1>2. u \in Seq(S) /\ DOMAIN u = 1..(n - 1) /\ \A i \in 1..(n - 1) : u[i] = s[i + 1] /\ i + 1 \in 1..n
  BY <1>1
<1> HIDE DEF u, n
<1>3. ASSUME NEW i \in DOMAIN u, NEW j \in DOMAIN u, u[i] = u[j] PROVE i = j
  <2>1. s[i + 1] = s[j + 1] /\ i + 1 \in DOMAIN s /\ j + 1 \in DOMAIN s
    BY <1>1, <1>2, <1>3
  <2>2. i + 1 = j + 1
    BY <2>1
  <2> QED BY <1>2, <2>2
<1>4. s[1] \notin Range(u)
  <2>1. ASSUME NEW i \in DOMAIN u, u[i] = s[1] PROVE FALSE
    <3>1. s[i + 1] = s[1] /\ i + 1 \in DOMAIN s /\ 1 \in DOMAIN s
      BY <1>1, <1>2, <2>1
    <3>2. i + 1 = 1
      BY <3>1
    <3> QED BY <1>2, <3>2
  <2> QED BY <2>1 DEF Range
<1>5. Range(s) = Range(u) \cup {s[1]}
  <2>1. \A k \in 1..n : k = 1 \/ (k - 1 \in 1..(n - 1) /\ (k - 1) + 1 = k)
    BY <1>1
  <2>2. ASSUME NEW k \in DOMAIN s, k # 1 PROVE \E i \in DOMAIN u : u[i] = s[k]
    <3>1. k - 1 \in DOMAIN u /\ (k - 1) + 1 = k
      BY <1>1, <1>2, <2>1, <2>2
    <3> QED BY <1>1, <1>2, <3>1
  <2>3. \A i \in DOMAIN u : \E k \in DOMAIN s : s[k] = u[i]
    BY <1>1, <1>2
  <2>4. 1 \in DOMAIN s
    BY <1>1
  <2> QED BY <2>2, <2>3, <2>4 DEF Range
<1>6. <<s[1]>> \in Seq(S) /\ Range(<<s[1]>>) = {s[1]} /\ DOMAIN <<s[1]>> = {1}
  BY <1>1 DEF Range
<1> QED BY <1>1, <1>2, <1>3, <1>4, <1>5, <1>6 DEF u

\* A new tool task.
LEMMA NewToolFields ==
  ASSUME NEW g \in Nat, NEW a \in Nat, NEW c \in Range(Calls)
  PROVE  LET x == NewTool(g, a, c)
         IN /\ x \in ToolTask /\ x.gen = g /\ x.assistant = a /\ x.call = c
            /\ x.live /\ x.phase = "call" /\ x.runs = 0
BY DEF NewTool, ToolTask

ToolsFor(g, a, s) == [i \in DOMAIN s |-> NewTool(g, a, s[i])]

\* The tasks of some distinct calls, after those there are.
LEMMA AddsToolsSpec ==
  ASSUME NEW T \in Seq(ToolTask), NEW g \in Nat, NEW a \in Nat, NEW s \in Seq(Range(Calls)),
         \A i, j \in DOMAIN s : s[i] = s[j] => i = j
  PROVE  AddsTools(T, T \o ToolsFor(g, a, s), g, a, s)
<1> DEFINE n == Len(T)
           m == Len(s)
           N == [i \in DOMAIN s |-> NewTool(g, a, s[i])]
           U == T \o N
<1>0. N = ToolsFor(g, a, s)
  BY DEF ToolsFor
<1>1. n \in Nat /\ m \in Nat /\ DOMAIN T = 1..n /\ DOMAIN s = 1..m
  OBVIOUS
<1>2. ASSUME NEW i \in 1..m
      PROVE  /\ N[i] \in ToolTask /\ N[i].gen = g /\ N[i].assistant = a /\ N[i].call = s[i]
             /\ N[i].live /\ N[i].phase = "call" /\ N[i].runs = 0
  <2> DEFINE x == NewTool(g, a, s[i])
  <2>1. N[i] = x /\ s[i] \in Range(Calls)
    BY <1>1
  <2>2. /\ x \in ToolTask /\ x.gen = g /\ x.assistant = a /\ x.call = s[i]
        /\ x.live /\ x.phase = "call" /\ x.runs = 0
    BY <2>1, NewToolFields
  <2> HIDE DEF N, x
  <2> QED BY <2>1, <2>2
<1>3. N \in Seq(ToolTask) /\ DOMAIN N = 1..m /\ Len(N) = m
  <2>1. DOMAIN N = 1..m /\ N = [i \in 1..m |-> N[i]]
    BY <1>1
  <2> HIDE DEF N
  <2>2. N \in [1..m -> ToolTask]
    BY <1>2, <2>1
  <2> QED BY <1>1, <2>1, <2>2, IsSeq
<1> HIDE DEF N
<1>4. U \in Seq(ToolTask) /\ DOMAIN U = 1..(n + m)
      /\ (\A t \in 1..n : U[t] = T[t]) /\ \A t \in (n + 1)..(n + m) : U[t] = N[t - n]
  BY <1>1, <1>3
<1>5. \A t \in (n + 1)..(n + m) : t - n \in 1..m
  BY <1>1
<1>6. \A i \in 1..m : i + n \in (n + 1)..(n + m) /\ (i + n) - n = i
  BY <1>1
<1> HIDE DEF U, n, m
<1>7. DOMAIN U \ DOMAIN T = (n + 1)..(n + m) /\ DOMAIN T \subseteq DOMAIN U
  BY <1>1, <1>4
<1>8. ASSUME NEW u \in (n + 1)..(n + m)
      PROVE  /\ U[u].gen = g /\ U[u].assistant = a /\ U[u].live /\ U[u].phase = "call" /\ U[u].runs = 0
             /\ U[u].call = s[u - n] /\ u - n \in DOMAIN s
  <2>1. U[u] = N[u - n] /\ u - n \in 1..m
    BY <1>4, <1>5
  <2> QED BY <1>1, <1>2, <2>1
<1>9. \A c \in Range(s) : \E u \in (n + 1)..(n + m) : U[u].call = c
  <2>1. ASSUME NEW i \in DOMAIN s PROVE \E u \in (n + 1)..(n + m) : U[u].call = s[i]
    <3>1. U[i + n].call = s[i] /\ i + n \in (n + 1)..(n + m)
      BY <1>1, <1>6, <1>8
    <3> QED BY <3>1
  <2> QED BY <2>1 DEF Range
<1>10. ASSUME NEW u \in (n + 1)..(n + m), NEW v \in (n + 1)..(n + m), U[u].call = U[v].call PROVE u = v
  <2>1. u - n = v - n
    BY <1>8, <1>10
  <2> QED BY <1>1, <2>1
<1>11. \A u \in (n + 1)..(n + m) : U[u].call \in Range(s)
  BY <1>8 DEF Range
<1>12. \A t \in DOMAIN T : U[t] = T[t]
  BY <1>1, <1>4
<1>13. AddsTools(T, U, g, a, s)
  BY <1>4, <1>7, <1>8, <1>9, <1>10, <1>11, <1>12 DEF AddsTools
<1> QED BY <1>0, <1>13 DEF U

----------------------------------------------------------------------------
(* Compactions.                                                            *)

\* A live blocking compaction is the one its generation waits for, and no head
\* has moved past its cut.
Comps(E, G, C) ==
  /\ C \in Seq(CompactionTask)
  /\ \A c \in DOMAIN C : C[c].owner \in DOMAIN G \cup {0} /\ C[c].kept \in 0..Len(E)
  /\ \A c \in DOMAIN C : C[c].live /\ C[c].owner # 0 =>
       /\ G[C[c].owner].compacted = c
       /\ C[c].phase = "summarize" => RangeStart(E) <= C[c].kept

Owned(r, C) == \A c \in DOMAIN C : C[c].live /\ C[c].owner # 0 => C[c].owner = r.task

\* The compactions stay, and so does the active range.
LEMMA CompsStay ==
  ASSUME NEW E \in Seq(EntryRecord), NEW F \in Seq(EntryRecord), Len(E) <= Len(F), RangeStart(F) = RangeStart(E),
         NEW G, NEW H, DOMAIN H = DOMAIN G, \A g \in DOMAIN G : H[g].compacted = G[g].compacted,
         NEW C, NEW B, Comps(E, G, C), CompsKeep(C, B)
  PROVE  Comps(F, H, B)
<1>1. DOMAIN B = DOMAIN C /\ B \in Seq(CompactionTask) /\ \A c \in DOMAIN C : SameComp(C[c], B[c])
  BY DEF CompsKeep
<1>2. ASSUME NEW c \in DOMAIN B PROVE B[c].owner \in DOMAIN H \cup {0} /\ B[c].kept \in 0..Len(F)
  <2>1. C[c].kept \in 0..Len(E)
    BY <1>1 DEF Comps
  <2>2. B[c].kept \in 0..Len(F)
    BY <1>1, <2>1 DEF SameComp
  <2> QED BY <1>1, <2>2 DEF Comps, SameComp
<1>3. ASSUME NEW c \in DOMAIN B, B[c].live, B[c].owner # 0
      PROVE  H[B[c].owner].compacted = c /\ (B[c].phase = "summarize" => RangeStart(F) <= B[c].kept)
  BY <1>1, <1>3 DEF Comps, SameComp
<1> QED BY <1>1, <1>2, <1>3 DEF Comps

\* No blocking compaction is live.
LEMMA CompsIdle ==
  ASSUME NEW E \in Seq(EntryRecord), NEW F \in Seq(EntryRecord), Len(E) <= Len(F),
         NEW G, NEW H, DOMAIN G \subseteq DOMAIN H, NEW C, Comps(E, G, C),
         \A c \in DOMAIN C : C[c].live => C[c].owner = 0
  PROVE  Comps(F, H, C)
<1>1. \A c \in DOMAIN C : C[c].kept \in 0..Len(F)
  BY DEF Comps
<1> QED BY <1>1 DEF Comps

\* A new compaction task.
LEMMA NewCompactionFields ==
  ASSUME NEW o \in Nat, NEW b \in BOOLEAN
  PROVE  LET x == NewCompaction(o, b)
         IN x \in CompactionTask /\ x.owner = o /\ x.phase = "select" /\ x.live /\ x.kept = 0
BY DEF NewCompaction, CompactionTask

\* One compaction more, of a generation that has none.
LEMMA CompsAdd ==
  ASSUME NEW E \in Seq(EntryRecord), NEW G, NEW H, DOMAIN H = DOMAIN G, NEW C, Comps(E, G, C),
         DOMAIN G \subseteq Nat, NEW r, Owned(r, C),
         NEW o \in DOMAIN G \cup {0}, NEW b \in BOOLEAN,
         o # 0 => o = r.task /\ H[o].compacted = Len(C) + 1 /\ \A c \in DOMAIN C : C[c].live => C[c].owner # o,
         \A g \in DOMAIN G : g # o => H[g].compacted = G[g].compacted
  PROVE  Comps(E, H, Append(C, NewCompaction(o, b))) /\ Owned(r, Append(C, NewCompaction(o, b)))
<1> DEFINE x == NewCompaction(o, b)
           B == Append(C, x)
           n == Len(C) + 1
<1>1. x \in CompactionTask /\ x.owner = o /\ x.phase = "select" /\ x.live /\ x.kept = 0
  <2>1. o \in Nat
    OBVIOUS
  <2> QED BY <2>1, NewCompactionFields
<1> HIDE DEF x
<1>2. C \in Seq(CompactionTask)
  BY DEF Comps
<1>3. /\ B \in Seq(CompactionTask) /\ DOMAIN B = DOMAIN C \cup {n}
      /\ B[n] = x /\ \A c \in DOMAIN C : B[c] = C[c] /\ c # n
  BY <1>1, <1>2, SeqAppend
<1> HIDE DEF B, n
<1>4. Len(E) \in Nat
  OBVIOUS
<1>5. \A c \in DOMAIN B : B[c].owner \in DOMAIN H \cup {0} /\ B[c].kept \in 0..Len(E)
  BY <1>1, <1>3, <1>4 DEF Comps
<1>6. ASSUME NEW c \in DOMAIN B, B[c].live, B[c].owner # 0
      PROVE  /\ H[B[c].owner].compacted = c /\ B[c].owner = r.task
             /\ B[c].phase = "summarize" => RangeStart(E) <= B[c].kept
  <2>1. CASE c = n
    BY <1>1, <1>3, <1>6, <2>1 DEF n
  <2>2. CASE c \in DOMAIN C
    <3>1. B[c] = C[c] /\ C[c].owner \in DOMAIN G /\ C[c].owner = r.task /\ C[c].owner # o
      BY <1>3, <1>6, <2>2 DEF Comps, Owned
    <3> QED BY <1>6, <2>2, <3>1 DEF Comps
  <2> QED BY <1>3, <2>1, <2>2
<1>7. Comps(E, H, B)
  BY <1>3, <1>5, <1>6 DEF Comps
<1>8. Owned(r, B)
  BY <1>6 DEF Owned
<1> QED BY <1>7, <1>8 DEF B, x

\* One compaction replaced, or ended.
LEMMA CompsReplace ==
  ASSUME NEW E \in Seq(EntryRecord), NEW G, NEW C, Comps(E, G, C), NEW r, Owned(r, C),
         NEW k \in DOMAIN C, NEW x \in CompactionTask, x.owner = C[k].owner, x.kept \in 0..Len(E),
         x.live => C[k].live /\ (x.phase = "summarize" => RangeStart(E) <= x.kept)
  PROVE  LET B == [C EXCEPT ![k] = x]
         IN Comps(E, G, B) /\ Owned(r, B) /\ DOMAIN B = DOMAIN C /\ B[k] = x /\ \A c \in DOMAIN C : c # k => B[c] = C[c]
<1> DEFINE B == [C EXCEPT ![k] = x]
<1>1. C \in Seq(CompactionTask)
  BY DEF Comps
<1>2. /\ B \in Seq(CompactionTask) /\ DOMAIN B = DOMAIN C
      /\ B[k] = x /\ \A c \in DOMAIN C : c # k => B[c] = C[c]
  BY <1>1, SeqUpdate
<1> HIDE DEF B
<1>3. \A c \in DOMAIN B : B[c].owner \in DOMAIN G \cup {0} /\ B[c].kept \in 0..Len(E)
  BY <1>2 DEF Comps
<1>4. ASSUME NEW c \in DOMAIN B, B[c].live, B[c].owner # 0
      PROVE  /\ G[B[c].owner].compacted = c /\ B[c].owner = r.task
             /\ B[c].phase = "summarize" => RangeStart(E) <= B[c].kept
  <2>1. CASE c = k
    BY <1>2, <1>4, <2>1 DEF Comps, Owned
  <2>2. CASE c # k
    BY <1>2, <1>4, <2>2 DEF Comps, Owned
  <2> QED BY <2>1, <2>2
<1>5. Comps(E, G, B) /\ Owned(r, B)
  BY <1>2, <1>3, <1>4 DEF Comps, Owned
<1> QED BY <1>2, <1>5 DEF B

----------------------------------------------------------------------------
(* The inductive invariant.                                                *)

\* A tool that has not reached its intent has not run, and one that may not be
\* replayed runs once.
Once(T) ==
  \A t \in DOMAIN T : /\ T[t].call \notin SafeCalls => T[t].runs <= 1
                      /\ T[t].phase = "call" => T[t].runs = 0

Budget == [turns: 0..MaxTurns, raw: 0..MaxRaw, faults: 0..MaxFaults]

Inv ==
  /\ Ledger /\ Busy(run, gens, tools, comps) /\ Comps(entries, gens, comps)
  /\ tools \in Seq(ToolTask) /\ Once(tools) /\ slots \in Seq(Range(Calls)) /\ used \in Budget
  /\ Linked(entries, gens, tools) /\ Answered(entries, gens, tools)

\* What the steps use of the invariant.
LEMMA InvTypes ==
  ASSUME Inv
  PROVE  /\ subs \in Seq(SubmissionRecord) /\ inbox \in Seq(InboxItem) /\ entries \in Seq(EntryRecord)
         /\ HeadsIn(entries) /\ Orderly(Draft) /\ Inputs(subs, run.inputs)
         /\ gens \in Seq(GenerationTask) /\ tools \in Seq(ToolTask) /\ comps \in Seq(CompactionTask)
         /\ Owned(run, comps) /\ Neutral(entries, entries)
         /\ \A g \in DOMAIN gens : gens[g] \in GenerationTask
         /\ \A t \in DOMAIN tools : tools[t] \in ToolTask
         /\ \A c \in DOMAIN comps : comps[c] \in CompactionTask
<1>1. /\ subs \in Seq(SubmissionRecord) /\ inbox \in Seq(InboxItem) /\ entries \in Seq(EntryRecord)
      /\ HeadsIn(entries) /\ Orderly(Draft) /\ Inputs(subs, run.inputs)
  BY DraftFields DEF Inv, Ledger
<1>2. gens \in Seq(GenerationTask) /\ tools \in Seq(ToolTask) /\ comps \in Seq(CompactionTask) /\ Owned(run, comps)
  BY DEF Inv, Busy, Comps, Owned
<1>3. Neutral(entries, entries)
  BY <1>1, NeutralRefl
<1> QED BY <1>1, <1>2, <1>3

\* What is appended besides calls and results is no result.
LEMMA NeutralResultless ==
  ASSUME NEW E, NEW F, Neutral(E, F) PROVE Resultless(E, F) /\ Len(E) <= Len(F)
BY DEF Neutral, Resultless, Extends

\* A step that keeps the run, its tasks and its calls.
LEMMA QuietStep ==
  ASSUME Inv, Ledger', run' = run, Resultless(entries, entries'),
         GensKeep(gens, gens'), ToolsKeep(tools, tools'), Once(tools'),
         Comps(entries', gens', comps'), Owned(run, comps'), slots' \in Seq(Range(Calls)), used' \in Budget
  PROVE  Inv'
<1>1. entries \in Seq(EntryRecord) /\ entries' \in Seq(EntryRecord)
  <2>1. (Orderly(Draft))'
    BY DEF Ledger
  <2> QED BY <2>1, InvTypes DEF Orderly, Drafts, Draft
<1>2. Linked(entries', gens', tools') /\ Answered(entries', gens', tools')
  BY <1>1, RoundsKeep DEF Inv
<1>3. tools' \in Seq(ToolTask) /\ \A t \in DOMAIN tools' : tools'[t].live => tools'[t].gen = run.task
  BY DEF ToolsKeep, SameTool, Inv, Busy
<1>4. Busy(run, gens', tools', comps')
  BY <1>3, BusyKeeps DEF Inv, Owned
<1>5. Busy(run, gens, tools, comps)'
  BY <1>4
<1>6. (Linked(entries, gens, tools) /\ Answered(entries, gens, tools))'
  BY <1>2
<1> QED BY <1>3, <1>5, <1>6 DEF Inv, Once, Comps, Budget

\* A step after which the run begins anew or stops.
LEMMA TurnStep ==
  ASSUME Inv, Ledger', NEW H, Idle(H, tools, comps'), Begins(H), DOMAIN gens \subseteq DOMAIN H,
         tools' = tools, Len(entries) <= Len(entries'), Comps(entries, gens, comps'),
         Linked(entries', H, tools), Answered(entries', H, tools), slots' \in Seq(Range(Calls)), used' \in Budget
  PROVE  Inv'
<1>1. entries \in Seq(EntryRecord) /\ entries' \in Seq(EntryRecord) /\ H \in Seq(GenerationTask)
  <2>1. (Orderly(Draft))'
    BY DEF Ledger
  <2> QED BY <2>1, InvTypes DEF Orderly, Drafts, Draft, Idle
<1>2. Busy(run', gens', tools, comps')
  BY BeginsBusy
<1>3. Linked(entries', gens', tools) /\ Answered(entries', gens', tools)
  BY <1>1, BeginsRounds
<1>4. DOMAIN gens \subseteq DOMAIN gens'
  <2>1. CASE gens' = H
    BY <2>1
  <2>2. CASE gens' = Append(H, NewGeneration)
    <3>1. DOMAIN Append(H, NewGeneration) = DOMAIN H \cup {Len(H) + 1}
      BY <1>1, NewGenerationFields, SeqAppend
    <3> QED BY <2>2, <3>1
  <2> QED BY <2>1, <2>2 DEF Begins
<1>5. Comps(entries', gens', comps')
  BY <1>1, <1>4, CompsIdle DEF Idle
<1>6. tools' \in Seq(ToolTask) /\ Once(tools')
  BY DEF Inv
<1>7. (Busy(run, gens, tools, comps) /\ Linked(entries, gens, tools) /\ Answered(entries, gens, tools))'
  BY <1>2, <1>3
<1> QED BY <1>5, <1>6, <1>7 DEF Inv, Once, Comps, Budget

----------------------------------------------------------------------------
(* Host operations.                                                        *)

\* What every step does: the invariant holds again, and no head goes back.
Sound == Inv' /\ RangeStart(entries') >= RangeStart(entries)

\* A step that leaves the table of submissions, the inbox and the transcript.
LEMMA SameLedger ==
  ASSUME Ledger, UNCHANGED table, run' = run PROVE Ledger' /\ entries' = entries
<1>1. Draft' = Draft /\ entries' = entries
  BY DEF Draft, table
<1>2. Orderly(Draft)'
  BY <1>1 DEF Ledger, Orderly
<1>3. Inputs(subs, run.inputs)'
  BY DEF table, Ledger, Inputs
<1> QED BY <1>1, <1>2, <1>3 DEF Ledger

\* A step that keeps also the transcript.
LEMMA StillStep ==
  ASSUME Inv, Ledger', entries' = entries, run' = run,
         GensKeep(gens, gens'), ToolsKeep(tools, tools'), Once(tools'),
         Comps(entries, gens', comps'), Owned(run, comps'), slots' = slots, used' \in Budget
  PROVE  Sound
<1>1. Resultless(entries, entries') /\ slots' \in Seq(Range(Calls)) /\ Comps(entries', gens', comps')
  BY InvTypes, NeutralResultless DEF Inv
<1>2. Inv'
  BY <1>1, QuietStep
<1>3. RangeStart(entries) \in Nat
  <2>1. RangeStart(entries) \in 0..Len(entries)
    BY InvTypes, RangeWithin
  <2> QED BY <2>1
<1> QED BY <1>2, <1>3 DEF Sound

\* A submission is admitted, by a host or a background compaction.
LEMMA AdmitStep ==
  ASSUME Inv, NEW type \in {"input", "write", "summary"}, NEW mode \in {"steer", "followUp", "write"},
         NEW head \in -1..Len(entries), NEW modes, Admit(Draft, type, mode, head, modes, gens),
         UNCHANGED <<slots, tools, used>>, Comps(entries, gens, comps'), Owned(run, comps')
  PROVE  Sound
<1>1. /\ Ledger' /\ Neutral(entries, entries')
      /\ \/ run # NoRun /\ run' = run /\ gens' = gens /\ entries' = entries
         \/ run = NoRun /\ Begins(gens)
  BY AdmitSpec DEF Inv
<1>2. GensKeep(gens, gens) /\ ToolsKeep(tools, tools)
  BY InvTypes, KeepRefl
<1>3. used' \in Budget /\ slots' \in Seq(Range(Calls)) /\ Once(tools')
  BY DEF Inv
<1>4. CASE run' = run /\ gens' = gens /\ entries' = entries
  BY <1>1, <1>2, <1>3, <1>4, StillStep
<1>5. CASE run = NoRun /\ Begins(gens)
  <2>1. Idle(gens, tools, comps)
    <3>1. Busy(NoRun, gens, tools, comps) /\ \A t \in DOMAIN tools : tools[t].gen \in DOMAIN gens
      BY <1>5 DEF Inv, Linked
    <3> QED BY <3>1, IdleWithout
  <2>2. \A c \in DOMAIN comps' : comps'[c].live => comps'[c].owner = 0
    <3>1. run.task = 0
      BY <1>5 DEF NoRun
    <3> QED BY <3>1 DEF Owned
  <2>3. Idle(gens, tools, comps')
    BY <2>1, <2>2 DEF Idle
  <2>4. entries \in Seq(EntryRecord) /\ entries' \in Seq(EntryRecord)
    <3>1. (Orderly(Draft))'
      BY <1>1 DEF Ledger
    <3> QED BY <3>1, InvTypes DEF Orderly, Drafts, Draft
  <2>5. Resultless(entries, entries') /\ Len(entries) <= Len(entries')
    BY <1>1, NeutralResultless
  <2>6. Linked(entries', gens, tools) /\ Answered(entries', gens, tools)
    BY <1>2, <2>4, <2>5, RoundsKeep DEF Inv
  <2>7. Inv'
    BY <1>1, <1>3, <1>5, <2>3, <2>5, <2>6, TurnStep
  <2>8. RangeStart(entries') >= RangeStart(entries)
    <3>1. RangeStart(entries) \in 0..Len(entries) /\ RangeStart(entries') \in 0..Len(entries')
      BY <1>1, <2>4, InvTypes, RangeWithin DEF Neutral
    <3>2. RangeStart(entries) <= RangeStart(entries')
      BY <1>1 DEF Neutral
    <3> QED BY <3>1, <3>2
  <2> QED BY <2>7, <2>8 DEF Sound
<1> QED BY <1>1, <1>4, <1>5

\* submit.
LEMMA SubmitStep ==
  ASSUME Inv, NEW mode \in {"steer", "followUp", "write"}, NEW head \in {-1, 0}, NEW modes, Submit(mode, head, modes)
  PROVE  Sound
<1> DEFINE type == IF mode = "write" THEN "write" ELSE "input"
<1>1. type \in {"input", "write", "summary"}
  OBVIOUS
<1>2. Len(entries) \in Nat
  BY InvTypes
<1>3. head \in -1..Len(entries)
  BY <1>2
<1>4. Admit(Draft, type, mode, head, modes, gens) /\ UNCHANGED <<slots, tools, used>> /\ comps' = comps
  BY DEF Submit
<1>5. Comps(entries, gens, comps') /\ Owned(run, comps')
  BY <1>4, InvTypes DEF Inv
<1> HIDE DEF type
<1> QED BY <1>1, <1>3, <1>4, <1>5, AdmitStep

\* The inbox keeps some items, the submissions of the others are aborted.
LEMMA KeepLedger ==
  ASSUME Ledger, NEW P, NEW ids, Others(inbox, P, ids), run' = run,
         Commit([Change(Draft, ids, "aborted") EXCEPT !.inbox = Only(@, P)])
  PROVE  Ledger' /\ entries' = entries
<1> DEFINE D == Draft
           A == Change(D, ids, "aborted")
           C == Remaining(D, ids, "aborted", P)
<1>1. /\ Orderly(D) /\ D.subs = subs /\ D.inbox = inbox /\ D.entries = entries /\ D.users = <<>>
      /\ D \in Drafts /\ Inputs(subs, run.inputs)
  BY DraftFields DEF Ledger
<1>2. "aborted" \in Settled /\ "aborted" \in Statuses
  BY DEF Settled, Statuses
<1>3. A.inbox = D.inbox
  <2> HIDE DEF D
  <2> QED BY <1>1, <1>2, ChangeFields
<1>4. Commit(C)
  BY <1>3 DEF Remaining
<1> HIDE DEF D
<1>5. /\ Orderly(C) /\ C.entries = D.entries /\ C.users = D.users /\ DOMAIN C.subs = DOMAIN D.subs
      /\ \A id \in DOMAIN D.subs : C.subs[id].status = "placed" <=> D.subs[id].status = "placed"
  <2>1. Others(D.inbox, P, ids)
    BY <1>1
  <2> QED BY <1>1, <1>2, <2>1, OrderlyKeep
<1> HIDE DEF C
<1>6. Orderly(Draft)' /\ subs' = C.subs /\ entries' = C.entries
  BY <1>4, <1>5, Committed
<1>7. Inputs(C.subs, run.inputs)
  BY <1>1, <1>5 DEF Inputs
<1> QED BY <1>1, <1>5, <1>6, <1>7 DEF Ledger

\* A mark, and the end of an execution, are all these steps set.
LEMMA MarkedTasks ==
  ASSUME NEW m \in BOOLEAN
  PROVE  /\ \A x \in GenerationTask : LET y == [x EXCEPT !.mark = m]
                                      IN y \in GenerationTask /\ SameGen(x, y) /\ y.compacted = x.compacted
         /\ \A x \in ToolTask : LET y == [x EXCEPT !.mark = m]
                                IN y \in ToolTask /\ SameTool(x, y) /\ y.phase = x.phase /\ y.runs = x.runs
         /\ \A x \in ToolTask : LET y == [x EXCEPT !.executing = m]
                                IN y \in ToolTask /\ SameTool(x, y) /\ y.phase = x.phase /\ y.runs = x.runs
         /\ \A x \in CompactionTask : LET y == [x EXCEPT !.mark = m] IN y \in CompactionTask /\ SameComp(x, y)
<1>1. ASSUME NEW x \in GenerationTask
      PROVE  LET y == [x EXCEPT !.mark = m] IN y \in GenerationTask /\ SameGen(x, y) /\ y.compacted = x.compacted
  BY DEF GenerationTask, SameGen
<1>2. ASSUME NEW x \in ToolTask
      PROVE  /\ LET y == [x EXCEPT !.mark = m] IN y \in ToolTask /\ SameTool(x, y) /\ y.phase = x.phase /\ y.runs = x.runs
             /\ LET y == [x EXCEPT !.executing = m] IN y \in ToolTask /\ SameTool(x, y) /\ y.phase = x.phase /\ y.runs = x.runs
  BY DEF ToolTask, SameTool
<1>3. ASSUME NEW x \in CompactionTask
      PROVE  LET y == [x EXCEPT !.mark = m] IN y \in CompactionTask /\ SameComp(x, y)
  BY DEF CompactionTask, SameComp
<1> QED BY <1>1, <1>2, <1>3

\* Every task replaced by one like it.
LEMMA GensMap ==
  ASSUME NEW G \in Seq(GenerationTask), NEW H, DOMAIN H = DOMAIN G, H = [g \in DOMAIN H |-> H[g]],
         \A g \in DOMAIN G : H[g] \in GenerationTask /\ SameGen(G[g], H[g])
  PROVE  GensKeep(G, H)
<1>1. H \in Seq(GenerationTask) /\ Len(H) = Len(G)
  BY SeqMap
<1> QED BY <1>1 DEF GensKeep

\* Every tool replaced by one like it.
LEMMA ToolsMap ==
  ASSUME NEW T \in Seq(ToolTask), Once(T), NEW U, DOMAIN U = DOMAIN T, U = [t \in DOMAIN U |-> U[t]],
         \A t \in DOMAIN T : U[t] \in ToolTask /\ SameTool(T[t], U[t]) /\ U[t].phase = T[t].phase /\ U[t].runs = T[t].runs
  PROVE  ToolsKeep(T, U) /\ Once(U)
<1>1. U \in Seq(ToolTask) /\ Len(U) = Len(T)
  BY SeqMap
<1>2. ToolsKeep(T, U)
  BY <1>1 DEF ToolsKeep
<1>3. Once(U)
  BY DEF Once, SameTool
<1> QED BY <1>2, <1>3

\* Every compaction replaced by one like it.
LEMMA CompsMap ==
  ASSUME NEW C \in Seq(CompactionTask), NEW B, DOMAIN B = DOMAIN C, B = [c \in DOMAIN B |-> B[c]],
         \A c \in DOMAIN C : B[c] \in CompactionTask /\ SameComp(C[c], B[c])
  PROVE  CompsKeep(C, B)
<1>1. B \in Seq(CompactionTask) /\ Len(B) = Len(C)
  BY SeqMap
<1> QED BY <1>1 DEF CompsKeep

\* The compactions of a step that keeps them and the transcript.
LEMMA CompsStill ==
  ASSUME Inv, NEW H, GensKeep(gens, H), \A g \in DOMAIN gens : H[g].compacted = gens[g].compacted,
         NEW B, CompsKeep(comps, B)
  PROVE  Comps(entries, H, B) /\ Owned(run, B)
<1>1. entries \in Seq(EntryRecord) /\ Len(entries) <= Len(entries) /\ Comps(entries, gens, comps) /\ DOMAIN H = DOMAIN gens
  BY InvTypes DEF Inv, GensKeep
<1>2. Comps(entries, H, B)
  BY <1>1, CompsStay
<1>3. Owned(run, B)
  BY InvTypes DEF Owned, CompsKeep, SameComp
<1> QED BY <1>2, <1>3

\* Submission.abort.
LEMMA WithdrawStep == ASSUME Inv, NEW id, Withdraw(id) PROVE Sound
<1> DEFINE P == {i \in DOMAIN inbox : inbox[i].id # id}
           ids == {id}
<1>1. /\ id \in DOMAIN subs /\ subs[id].status = "queued" /\ UNCHANGED <<run, slots, gens, tools, comps, used>>
      /\ Commit([Change(Draft, ids, "aborted") EXCEPT !.inbox = Only(@, P)])
  BY DEF Withdraw
<1>2. Others(inbox, P, ids)
  <2>1. PICK i \in DOMAIN inbox : inbox[i].id = id
    <3>1. Draft.subs = subs /\ Draft.inbox = inbox /\ Orderly(Draft)
      BY DraftFields, InvTypes
    <3>2. \A s \in DOMAIN Draft.subs : Draft.subs[s].status = "queued" => \E i \in DOMAIN Draft.inbox : Draft.inbox[i].id = s
      BY <3>1 DEF Orderly
    <3> QED BY <1>1, <3>1, <3>2
  <2> QED BY <2>1 DEF Others
<1> HIDE DEF P, ids
<1>3. Ledger' /\ entries' = entries
  BY <1>1, <1>2, KeepLedger DEF Inv
<1>4. GensKeep(gens, gens) /\ ToolsKeep(tools, tools) /\ CompsKeep(comps, comps)
  BY InvTypes, KeepRefl
<1>5. Comps(entries, gens, comps) /\ Owned(run, comps) /\ Once(tools) /\ used \in Budget
  BY InvTypes DEF Inv
<1> QED BY <1>1, <1>3, <1>4, <1>5, StillStep

\* Conversation.abort.
LEMMA AbortConversationStep == ASSUME Inv, NEW background, AbortConversation(background) PROVE Sound
<1> DEFINE W == {i \in DOMAIN inbox : inbox[i].mode = "write"}
           ids == {inbox[i].id : i \in DOMAIN inbox \ W}
           mG(g) == gens[g].mark \/ gens[g].live
           mT(t) == tools[t].mark \/ tools[t].live
           mC(c) == comps[c].mark \/ comps[c].live
           H == [g \in DOMAIN gens |-> [gens[g] EXCEPT !.mark = mG(g)]]
           U == [t \in DOMAIN tools |-> [tools[t] EXCEPT !.mark = mT(t)]]
           B == [c \in DOMAIN comps |->
                   IF comps[c].background /\ ~background THEN comps[c] ELSE [comps[c] EXCEPT !.mark = mC(c)]]
<1>1. /\ gens' = H /\ tools' = U /\ comps' = B /\ UNCHANGED <<run, slots, used>>
      /\ Commit([Change(Draft, ids, "aborted") EXCEPT !.inbox = Only(@, W)])
  BY DEF AbortConversation
<1>2. Others(inbox, W, ids)
  BY DEF Others
<1>3. Ledger' /\ entries' = entries
  <2> HIDE DEF W, ids
  <2> QED BY <1>1, <1>2, KeepLedger DEF Inv
<1>4. /\ \A g \in DOMAIN gens : gens[g] \in GenerationTask /\ mG(g) \in BOOLEAN
      /\ \A t \in DOMAIN tools : tools[t] \in ToolTask /\ mT(t) \in BOOLEAN
      /\ \A c \in DOMAIN comps : comps[c] \in CompactionTask /\ mC(c) \in BOOLEAN
  BY InvTypes DEF GenerationTask, ToolTask, CompactionTask
<1> HIDE DEF mG, mT, mC, W, ids
<1>5. GensKeep(gens, H) /\ \A g \in DOMAIN gens : H[g].compacted = gens[g].compacted
  <2>1. ASSUME NEW g \in DOMAIN gens
        PROVE  H[g] \in GenerationTask /\ SameGen(gens[g], H[g]) /\ H[g].compacted = gens[g].compacted
    <3> DEFINE y == [gens[g] EXCEPT !.mark = mG(g)]
    <3>1. y \in GenerationTask /\ SameGen(gens[g], y) /\ y.compacted = gens[g].compacted
      BY <1>4, MarkedTasks
    <3>2. H[g] = y
      OBVIOUS
    <3> HIDE DEF y, H
    <3> QED BY <3>1, <3>2
  <2>2. DOMAIN H = DOMAIN gens /\ H = [g \in DOMAIN H |-> H[g]]
    OBVIOUS
  <2> HIDE DEF H
  <2> QED BY <2>1, <2>2, InvTypes, GensMap
<1>6. ToolsKeep(tools, U) /\ Once(U)
  <2>1. ASSUME NEW t \in DOMAIN tools
        PROVE  U[t] \in ToolTask /\ SameTool(tools[t], U[t]) /\ U[t].phase = tools[t].phase /\ U[t].runs = tools[t].runs
    <3> DEFINE y == [tools[t] EXCEPT !.mark = mT(t)]
    <3>1. y \in ToolTask /\ SameTool(tools[t], y) /\ y.phase = tools[t].phase /\ y.runs = tools[t].runs
      BY <1>4, MarkedTasks
    <3>2. U[t] = y
      OBVIOUS
    <3> HIDE DEF y, U
    <3> QED BY <3>1, <3>2
  <2>2. DOMAIN U = DOMAIN tools /\ U = [t \in DOMAIN U |-> U[t]]
    OBVIOUS
  <2> HIDE DEF U
  <2> QED BY <2>1, <2>2, InvTypes, ToolsMap DEF Inv
<1>7. CompsKeep(comps, B)
  <2>1. ASSUME NEW c \in DOMAIN comps PROVE B[c] \in CompactionTask /\ SameComp(comps[c], B[c])
    <3> DEFINE y == [comps[c] EXCEPT !.mark = mC(c)]
    <3>1. y \in CompactionTask /\ SameComp(comps[c], y) /\ SameComp(comps[c], comps[c])
      BY <1>4, MarkedTasks DEF SameComp
    <3>2. B[c] = y \/ B[c] = comps[c]
      OBVIOUS
    <3> HIDE DEF y, B
    <3> QED BY <1>4, <3>1, <3>2
  <2>2. DOMAIN B = DOMAIN comps /\ B = [c \in DOMAIN B |-> B[c]]
    OBVIOUS
  <2> HIDE DEF B
  <2> QED BY <2>1, <2>2, InvTypes, CompsMap
<1> HIDE DEF H, U, B
<1>8. Comps(entries, H, B) /\ Owned(run, B)
  BY <1>5, <1>7, CompsStill
<1>9. used' \in Budget
  BY <1>1 DEF Inv
<1> QED BY <1>1, <1>3, <1>5, <1>6, <1>8, <1>9, StillStep

\* A step that keeps the tools and the transcript.
LEMMA ToolsAside ==
  ASSUME Inv, UNCHANGED <<table, run, slots, tools>>, used' \in Budget,
         GensKeep(gens, gens'), Comps(entries, gens', comps'), Owned(run, comps')
  PROVE  Sound
<1>1. Ledger' /\ entries' = entries
  BY SameLedger DEF Inv
<1>2. ToolsKeep(tools, tools') /\ Once(tools')
  <2>1. ToolsKeep(tools, tools) /\ Once(tools)
    BY InvTypes, KeepRefl DEF Inv
  <2> QED BY <2>1
<1> QED BY <1>1, <1>2, StillStep

\* Harness.compact.
LEMMA CompactStep == ASSUME Inv, Compact PROVE Sound
<1>1. /\ UNCHANGED <<table, run, slots, gens, tools, used>>
      /\ comps' = Append(comps, NewCompaction(0, FALSE))
  BY DEF Compact, CreateCompaction
<1>2. GensKeep(gens, gens) /\ DOMAIN gens \subseteq Nat /\ used \in Budget
  BY InvTypes, KeepRefl DEF Inv
<1>3. Comps(entries, gens, Append(comps, NewCompaction(0, FALSE))) /\ Owned(run, Append(comps, NewCompaction(0, FALSE)))
  <2>1. entries \in Seq(EntryRecord) /\ Comps(entries, gens, comps) /\ Owned(run, comps)
    BY InvTypes DEF Inv
  <2> QED BY <1>2, <2>1, CompsAdd
<1> QED BY <1>1, <1>2, <1>3, ToolsAside

\* The compaction that a step of a generation starts, if any.
Starts(g, k) ==
  \/ comps' = comps /\ k = gens[g].compacted
  \/ comps' = Append(comps, NewCompaction(0, TRUE)) /\ k = gens[g].compacted
  \/ comps' = Append(comps, NewCompaction(g, FALSE)) /\ k = Len(comps) + 1 /\ Ready(g)

\* A step of one generation that stays live.
LEMMA GenStep ==
  ASSUME Inv, UNCHANGED <<table, run, slots, tools, used>>, NEW g \in DOMAIN gens,
         GensKeep(gens, gens'), \A h \in DOMAIN gens : h # g => gens'[h] = gens[h],
         Starts(g, gens'[g].compacted)
  PROVE  Sound
<1>1. /\ entries \in Seq(EntryRecord) /\ Comps(entries, gens, comps) /\ Owned(run, comps) /\ used' \in Budget
      /\ DOMAIN gens \subseteq Nat /\ DOMAIN gens' = DOMAIN gens /\ g # 0
  BY InvTypes DEF Inv, GensKeep
<1>2. CASE comps' = comps /\ gens'[g].compacted = gens[g].compacted
  <2>1. CompsKeep(comps, comps) /\ \A h \in DOMAIN gens : gens'[h].compacted = gens[h].compacted
    BY <1>2, InvTypes, KeepRefl
  <2>2. Comps(entries, gens', comps) /\ Owned(run, comps)
    BY <2>1, CompsStill
  <2> QED BY <1>1, <1>2, <2>2, ToolsAside
<1>3. CASE comps' = Append(comps, NewCompaction(0, TRUE)) /\ gens'[g].compacted = gens[g].compacted
  <2>1. \A h \in DOMAIN gens : gens'[h].compacted = gens[h].compacted
    BY <1>3
  <2>2. Comps(entries, gens', Append(comps, NewCompaction(0, TRUE))) /\ Owned(run, Append(comps, NewCompaction(0, TRUE)))
    BY <1>1, <2>1, CompsAdd
  <2> QED BY <1>1, <1>3, <2>2, ToolsAside
<1>4. CASE comps' = Append(comps, NewCompaction(g, FALSE)) /\ gens'[g].compacted = Len(comps) + 1 /\ Ready(g)
  <2>1. \A h \in DOMAIN gens : h # g => gens'[h].compacted = gens[h].compacted
    OBVIOUS
  <2>2. run.task = g /\ \A c \in DOMAIN comps : comps[c].live => comps[c].owner # g
    BY <1>4, ReadyOwnsRun DEF Inv, Ready, OwnedComps
  <2>3. g # 0 => g = run.task /\ gens'[g].compacted = Len(comps) + 1 /\ \A c \in DOMAIN comps : comps[c].live => comps[c].owner # g
    BY <1>4, <2>2
  <2>4. g \in DOMAIN gens \cup {0} /\ FALSE \in BOOLEAN
    OBVIOUS
  <2>5. Comps(entries, gens', Append(comps, NewCompaction(g, FALSE))) /\ Owned(run, Append(comps, NewCompaction(g, FALSE)))
    <3> DEFINE H == gens'
               no == FALSE
               B == Append(comps, NewCompaction(g, no))
    <3>1. /\ DOMAIN H = DOMAIN gens /\ \A h \in DOMAIN gens : h # g => H[h].compacted = gens[h].compacted
          /\ g # 0 => g = run.task /\ H[g].compacted = Len(comps) + 1 /\ \A c \in DOMAIN comps : comps[c].live => comps[c].owner # g
      BY <1>1, <2>1, <2>3
    <3>2. no \in BOOLEAN
      OBVIOUS
    <3> HIDE DEF H, no
    <3>3. Comps(entries, H, B) /\ Owned(run, B)
      BY <1>1, <2>4, <3>1, <3>2, CompsAdd
    <3> QED BY <3>3 DEF H, no
  <2> QED BY <1>1, <1>4, <2>5, ToolsAside
<1> QED BY <1>2, <1>3, <1>4 DEF Starts

\* Harness.abortTask.
LEMMA AbortTaskStep == ASSUME Inv, NEW g \in DOMAIN gens, AbortTask(g) PROVE Sound
<1> DEFINE x == [gens[g] EXCEPT !.mark = TRUE]
           H == [gens EXCEPT ![g] = x]
<1>1. gens' = H /\ UNCHANGED <<table, run, slots, tools, comps, used>>
  BY DEF AbortTask
<1>2. x \in GenerationTask /\ SameGen(gens[g], x) /\ x.compacted = gens[g].compacted
  BY InvTypes, MarkedTasks
<1> HIDE DEF x
<1>3. GensKeep(gens, H) /\ H[g] = x /\ \A h \in DOMAIN gens : h # g => H[h] = gens[h]
  BY <1>2, InvTypes, GenUpdate
<1> HIDE DEF H
<1>4. Starts(g, gens'[g].compacted)
  BY <1>1, <1>2, <1>3 DEF Starts
<1> QED BY <1>1, <1>3, <1>4, GenStep

\* What a step of the prepare, request, poll and retry phases stores.
Stored(x, p, v, n, k) == [x EXCEPT !.phase = p, !.overflow = v, !.attempt = n, !.compacted = k]

\* A step that works on a generation, by the fields it stores.
LEMMA WorkStep ==
  ASSUME Inv, UNCHANGED <<table, run, slots, tools, used>>, NEW g \in DOMAIN gens,
         NEW p \in {"prepare", "request", "poll", "retry"}, NEW v \in BOOLEAN, NEW n \in Nat, NEW k \in Nat,
         gens[g].phase # "tools",
         gens' = [gens EXCEPT ![g] = Stored(gens[g], p, v, n, k)],
         Starts(g, k)
  PROVE  Sound
<1> DEFINE x == Stored(gens[g], p, v, n, k)
           H == [gens EXCEPT ![g] = x]
<1>1. x \in GenerationTask /\ SameGen(gens[g], x) /\ x.compacted = k
  <2>1. gens[g] \in GenerationTask /\ p \in {"prepare", "request", "poll", "retry", "tools"} /\ p # "tools"
    BY InvTypes
  <2> DEFINE w == gens[g]
             y == Stored(w, p, v, n, k)
  <2>2. w \in GenerationTask /\ w.phase # "tools"
    BY <2>1
  <2> HIDE DEF w
  <2>3. y \in GenerationTask /\ y.compacted = k /\ SameGen(w, y)
    BY <2>1, <2>2 DEF GenerationTask, SameGen, Stored
  <2> QED BY <2>3 DEF w
<1>2. gens' = H
  OBVIOUS
<1> HIDE DEF x
<1>3. GensKeep(gens, H) /\ H[g] = x /\ \A h \in DOMAIN gens : h # g => H[h] = gens[h]
  BY <1>1, InvTypes, GenUpdate
<1> HIDE DEF H
<1>4. GensKeep(gens, gens') /\ gens'[g].compacted = k /\ \A h \in DOMAIN gens : h # g => gens'[h] = gens[h]
  BY <1>1, <1>2, <1>3
<1> QED BY <1>4, GenStep

\* A generation that works is the live one, without a round in these phases.
LEMMA WorksFields ==
  ASSUME Inv, NEW g \in DOMAIN gens, NEW ps, Works(g, ps), "tools" \notin ps
  PROVE  /\ Ready(g) /\ gens[g].phase \in ps /\ gens[g].phase # "tools" /\ gens[g] \in GenerationTask
         /\ gens[g].assistant = 0 /\ gens[g].pending = <<>>
<1>1. Ready(g) /\ gens[g].phase \in ps /\ gens[g].phase # "tools" /\ gens[g].live
  BY DEF Works, Ready
<1> QED BY <1>1, InvTypes DEF Inv, Linked

\* prepare over the blocking threshold.
LEMMA PrepareCompactsStep == ASSUME Inv, NEW g \in DOMAIN gens, PrepareCompacts(g) PROVE Sound
<1> DEFINE x == gens[g]
           k == Len(comps) + 1
<1>1. Works(g, {"prepare"}) /\ UNCHANGED <<table, run, slots, tools, used>>
      /\ comps' = Append(comps, NewCompaction(g, FALSE)) /\ gens' = [gens EXCEPT ![g].compacted = k]
  BY DEF PrepareCompacts, CreateCompaction
<1>2. Ready(g) /\ x.phase = "prepare" /\ x \in GenerationTask
  BY <1>1, WorksFields
<1>3. k \in Nat
  BY InvTypes
<1>4. /\ x.overflow \in BOOLEAN /\ x.attempt \in Nat
      /\ [x EXCEPT !.compacted = k] = Stored(x, "prepare", x.overflow, x.attempt, k)
  <2> HIDE DEF x, k
  <2> QED BY <1>2 DEF GenerationTask, Stored
<1>5. gens' = [gens EXCEPT ![g] = Stored(gens[g], "prepare", x.overflow, x.attempt, k)]
  BY <1>1, <1>4
<1>6. Starts(g, k)
  BY <1>1, <1>2 DEF Starts
<1>7. gens[g].phase # "tools"
  BY <1>2
<1>8. UNCHANGED <<table, run, slots, tools, used>> /\ x.attempt \in Nat /\ x.overflow \in BOOLEAN
  BY <1>1, <1>4
<1> HIDE DEF k
<1> QED BY <1>3, <1>5, <1>6, <1>7, <1>8, WorkStep

\* classify: a context overflow.
LEMMA OverflowStep == ASSUME Inv, NEW g \in DOMAIN gens, Overflow(g) PROVE Sound
<1> DEFINE x == gens[g]
           k == Len(comps) + 1
<1>1. /\ Works(g, {"request", "poll"}) /\ UNCHANGED <<table, run, slots, tools, used>>
      /\ comps' = Append(comps, NewCompaction(g, FALSE))
      /\ gens' = [gens EXCEPT ![g].phase = "prepare", ![g].overflow = TRUE, ![g].compacted = k]
  BY DEF Overflow, CreateCompaction
<1>2. Ready(g) /\ x.phase # "tools" /\ x \in GenerationTask
  BY <1>1, WorksFields
<1>3. k \in Nat
  BY InvTypes
<1>4. /\ x.attempt \in Nat
      /\ [[[x EXCEPT !.phase = "prepare"] EXCEPT !.overflow = TRUE] EXCEPT !.compacted = k] = Stored(x, "prepare", TRUE, x.attempt, k)
  <2> HIDE DEF x, k
  <2> QED BY <1>2 DEF GenerationTask, Stored
<1>5. gens' = [gens EXCEPT ![g] = Stored(gens[g], "prepare", TRUE, x.attempt, k)]
  BY <1>1, <1>4
<1>6. Starts(g, k)
  BY <1>1, <1>2 DEF Starts
<1>7. gens[g].phase # "tools"
  BY <1>2
<1> DEFINE yes == TRUE
<1>8. yes \in BOOLEAN /\ gens' = [gens EXCEPT ![g] = Stored(gens[g], "prepare", yes, x.attempt, k)]
  BY <1>5
<1>9. UNCHANGED <<table, run, slots, tools, used>> /\ x.attempt \in Nat
  BY <1>1, <1>4
<1> HIDE DEF yes, k
<1> QED BY <1>3, <1>6, <1>7, <1>8, <1>9, WorkStep

\* prepare: the request is pinned, perhaps beside a background compaction.
LEMMA PrepareStep == ASSUME Inv, NEW g \in DOMAIN gens, Prepare(g) PROVE Sound
<1> DEFINE x == gens[g]
           k == x.compacted
           no == FALSE
<1>1. /\ Works(g, {"prepare"}) /\ UNCHANGED <<table, run, slots, tools, used>>
      /\ comps' = comps \/ comps' = Append(comps, NewCompaction(0, TRUE))
      /\ gens' = [gens EXCEPT ![g].phase = "request", ![g].overflow = no]
  BY DEF Prepare, CreateCompaction
<1>2. Ready(g) /\ x.phase # "tools" /\ x \in GenerationTask
  BY <1>1, WorksFields
<1>3. no \in BOOLEAN
  OBVIOUS
<1>4. /\ x.attempt \in Nat /\ k \in Nat
      /\ [[x EXCEPT !.phase = "request"] EXCEPT !.overflow = no] = Stored(x, "request", no, x.attempt, k)
  <2> HIDE DEF x
  <2> QED BY <1>2 DEF GenerationTask, Stored
<1>5. gens' = [gens EXCEPT ![g] = Stored(gens[g], "request", no, x.attempt, k)]
  BY <1>1, <1>4
<1>6. Starts(g, k)
  BY <1>1, <1>2 DEF Starts
<1>7. gens[g].phase # "tools"
  BY <1>2
<1>8. UNCHANGED <<table, run, slots, tools, used>> /\ x.attempt \in Nat /\ k \in Nat
  BY <1>1, <1>4
<1> HIDE DEF no, k
<1> QED BY <1>3, <1>5, <1>6, <1>7, <1>8, WorkStep

\* A step that only moves the phase of a generation, or counts an attempt.
LEMMA PhaseStep ==
  ASSUME Inv, NEW g \in DOMAIN gens, NEW ps, Works(g, ps), "tools" \notin ps,
         UNCHANGED <<table, run, slots, tools, comps, used>>, NEW p \in {"prepare", "request", "poll", "retry"},
         \/ gens' = [gens EXCEPT ![g].phase = p]
         \/ gens' = [gens EXCEPT ![g].phase = p, ![g].attempt = @ + 1]
  PROVE  Sound
<1> DEFINE x == gens[g]
<1>1. x.phase # "tools" /\ x \in GenerationTask
  BY WorksFields
<1>2. /\ x.overflow \in BOOLEAN /\ x.attempt \in Nat /\ x.attempt + 1 \in Nat /\ x.compacted \in Nat
      /\ [x EXCEPT !.phase = p] = Stored(x, p, x.overflow, x.attempt, x.compacted)
      /\ [[x EXCEPT !.phase = p] EXCEPT !.attempt = x.attempt + 1] = Stored(x, p, x.overflow, x.attempt + 1, x.compacted)
  <2> DEFINE m == x.attempt + 1
  <2> HIDE DEF x
  <2>1. x.overflow \in BOOLEAN /\ x.attempt \in Nat /\ x.compacted \in Nat
    BY <1>1 DEF GenerationTask
  <2>2. [x EXCEPT !.phase = p] = Stored(x, p, x.overflow, x.attempt, x.compacted)
    BY <1>1 DEF GenerationTask, Stored
  <2>3. m \in Nat
    BY <2>1
  <2> HIDE DEF m
  <2>4. [[x EXCEPT !.phase = p] EXCEPT !.attempt = m] = Stored(x, p, x.overflow, m, x.compacted)
    BY <1>1 DEF GenerationTask, Stored
  <2> QED BY <2>1, <2>2, <2>3, <2>4 DEF m
<1>3. \E n \in Nat : gens' = [gens EXCEPT ![g] = Stored(gens[g], p, x.overflow, n, x.compacted)]
  <2>1. CASE gens' = [gens EXCEPT ![g].phase = p]
    BY <1>2, <2>1
  <2>2. CASE gens' = [gens EXCEPT ![g].phase = p, ![g].attempt = @ + 1]
    BY <1>2, <2>2
  <2> QED BY <2>1, <2>2
<1>4. PICK n \in Nat : gens' = [gens EXCEPT ![g] = Stored(gens[g], p, x.overflow, n, x.compacted)]
  BY <1>3
<1>5. Starts(g, x.compacted)
  BY DEF Starts
<1>6. gens[g].phase # "tools"
  BY <1>1
<1> QED BY <1>2, <1>4, <1>5, <1>6, WorkStep

\* #reconcile.
LEMMA ReconcileStep == ASSUME Inv, Reconcile PROVE Sound
<1> DEFINE cancelled(owner) == owner # 0 /\ gens[owner].live /\ gens[owner].mark
           mT(t) == tools[t].mark \/ (tools[t].live /\ cancelled(tools[t].gen))
           mC(c) == comps[c].mark \/ (comps[c].live /\ cancelled(comps[c].owner))
           U == [t \in DOMAIN tools |-> [tools[t] EXCEPT !.mark = mT(t)]]
           B == [c \in DOMAIN comps |-> [comps[c] EXCEPT !.mark = mC(c)]]
<1>1. tools' = U /\ comps' = B /\ UNCHANGED <<table, run, slots, gens, used>>
  BY DEF Reconcile
<1>2. /\ \A t \in DOMAIN tools : tools[t] \in ToolTask /\ mT(t) \in BOOLEAN
      /\ \A c \in DOMAIN comps : comps[c] \in CompactionTask /\ mC(c) \in BOOLEAN
  BY InvTypes DEF ToolTask, CompactionTask
<1> HIDE DEF mT, mC
<1>3. ToolsKeep(tools, U) /\ Once(U)
  <2>1. ASSUME NEW t \in DOMAIN tools
        PROVE  U[t] \in ToolTask /\ SameTool(tools[t], U[t]) /\ U[t].phase = tools[t].phase /\ U[t].runs = tools[t].runs
    <3> DEFINE y == [tools[t] EXCEPT !.mark = mT(t)]
    <3>1. y \in ToolTask /\ SameTool(tools[t], y) /\ y.phase = tools[t].phase /\ y.runs = tools[t].runs
      BY <1>2, MarkedTasks
    <3>2. U[t] = y
      OBVIOUS
    <3> HIDE DEF y, U
    <3> QED BY <3>1, <3>2
  <2>2. DOMAIN U = DOMAIN tools /\ U = [t \in DOMAIN U |-> U[t]]
    OBVIOUS
  <2> HIDE DEF U
  <2> QED BY <2>1, <2>2, InvTypes, ToolsMap DEF Inv
<1>4. CompsKeep(comps, B)
  <2>1. ASSUME NEW c \in DOMAIN comps PROVE B[c] \in CompactionTask /\ SameComp(comps[c], B[c])
    <3> DEFINE y == [comps[c] EXCEPT !.mark = mC(c)]
    <3>1. y \in CompactionTask /\ SameComp(comps[c], y)
      BY <1>2, MarkedTasks
    <3>2. B[c] = y
      OBVIOUS
    <3> HIDE DEF y, B
    <3> QED BY <3>1, <3>2
  <2>2. DOMAIN B = DOMAIN comps /\ B = [c \in DOMAIN B |-> B[c]]
    OBVIOUS
  <2> HIDE DEF B
  <2> QED BY <2>1, <2>2, InvTypes, CompsMap
<1> HIDE DEF U, B
<1>5. GensKeep(gens, gens)
  BY InvTypes, KeepRefl
<1>6. Comps(entries, gens, B) /\ Owned(run, B)
  BY <1>4, <1>5, CompsStill
<1>7. Ledger' /\ entries' = entries
  BY <1>1, SameLedger DEF Inv
<1>8. used' \in Budget
  BY <1>1 DEF Inv
<1> QED BY <1>1, <1>3, <1>5, <1>6, <1>7, <1>8, StillStep

\* A step that keeps the transcript and all but the tools.
LEMMA ToolsOnly ==
  ASSUME Inv, UNCHANGED <<table, run, slots, gens, comps>>, used' \in Budget,
         ToolsKeep(tools, tools'), Once(tools')
  PROVE  Sound
<1>1. Ledger' /\ entries' = entries
  BY SameLedger DEF Inv
<1>2. GensKeep(gens, gens') /\ Comps(entries, gens', comps') /\ Owned(run, comps')
  <2>1. GensKeep(gens, gens) /\ Comps(entries, gens, comps) /\ Owned(run, comps)
    BY InvTypes, KeepRefl DEF Inv
  <2> QED BY <2>1
<1> QED BY <1>1, <1>2, StillStep

\* One fault more.
LEMMA FaultsBudget == ASSUME Inv, Faults PROVE used' \in Budget
<1>1. used \in Budget /\ used.faults < MaxFaults /\ used' = [used EXCEPT !.faults = used.faults + 1] /\ MaxFaults \in Nat
  BY ConversationAssumption DEF Inv, Faults
<1>2. used.faults \in 0..MaxFaults
  BY <1>1 DEF Budget
<1> DEFINE n == used.faults + 1
<1>3. n \in 0..MaxFaults
  BY <1>1, <1>2
<1>4. used' = [used EXCEPT !.faults = n]
  BY <1>1
<1> HIDE DEF n
<1> QED BY <1>1, <1>3, <1>4 DEF Budget

\* The process dies.
LEMMA CrashStep == ASSUME Inv, Crash PROVE Sound
<1> DEFINE no == FALSE
           U == [t \in DOMAIN tools |-> [tools[t] EXCEPT !.executing = no]]
<1>1. tools' = U /\ UNCHANGED <<table, run, slots, gens, comps>> /\ used' \in Budget
  BY FaultsBudget DEF Crash
<1>2. no \in BOOLEAN
  OBVIOUS
<1> HIDE DEF no
<1>3. ToolsKeep(tools, U) /\ Once(U)
  <2>1. ASSUME NEW t \in DOMAIN tools
        PROVE  U[t] \in ToolTask /\ SameTool(tools[t], U[t]) /\ U[t].phase = tools[t].phase /\ U[t].runs = tools[t].runs
    <3> DEFINE y == [tools[t] EXCEPT !.executing = no]
    <3>1. y \in ToolTask /\ SameTool(tools[t], y) /\ y.phase = tools[t].phase /\ y.runs = tools[t].runs
      BY <1>2, InvTypes, MarkedTasks
    <3>2. U[t] = y
      OBVIOUS
    <3> HIDE DEF y, U
    <3> QED BY <3>1, <3>2
  <2>2. DOMAIN U = DOMAIN tools /\ U = [t \in DOMAIN U |-> U[t]]
    OBVIOUS
  <2> HIDE DEF U
  <2> QED BY <2>1, <2>2, InvTypes, ToolsMap DEF Inv
<1> HIDE DEF U
<1> QED BY <1>1, <1>3, ToolsOnly

----------------------------------------------------------------------------
(* Tools.                                                                  *)

\* One tool replaced by one like it that has run as often as it may.
LEMMA ToolUpdate ==
  ASSUME NEW T \in Seq(ToolTask), Once(T), NEW t \in DOMAIN T, NEW y \in ToolTask, SameTool(T[t], y),
         y.call \notin SafeCalls => y.runs <= 1, y.phase = "call" => y.runs = 0
  PROVE  LET U == [T EXCEPT ![t] = y] IN ToolsKeep(T, U) /\ Once(U)
<1> DEFINE U == [T EXCEPT ![t] = y]
<1>1. /\ U \in Seq(ToolTask) /\ Len(U) = Len(T) /\ DOMAIN U = DOMAIN T
      /\ U[t] = y /\ \A u \in DOMAIN T : u # t => U[u] = T[u]
  BY SeqUpdate
<1> HIDE DEF U
<1>2. \A u \in DOMAIN T : SameTool(T[u], T[u])
  BY DEF SameTool
<1>3. ToolsKeep(T, U)
  BY <1>1, <1>2 DEF ToolsKeep
<1>4. Once(U)
  BY <1>1 DEF Once
<1> QED BY <1>3, <1>4 DEF U

\* A tool runs once more.
LEMMA RunsAgain ==
  ASSUME NEW x \in ToolTask, NEW p \in {"call", "execute"}
  PROVE  LET y == [x EXCEPT !.phase = p, !.executing = TRUE, !.runs = x.runs + 1]
         IN y \in ToolTask /\ SameTool(x, y) /\ y.phase = p /\ y.runs = x.runs + 1 /\ y.call = x.call /\ x.runs \in Nat
<1> DEFINE n == x.runs + 1
<1>1. x.runs \in Nat
  BY DEF ToolTask
<1>2. n \in Nat
  BY <1>1
<1> HIDE DEF n
<1>3. LET y == [x EXCEPT !.phase = p, !.executing = TRUE, !.runs = n]
      IN y \in ToolTask /\ SameTool(x, y) /\ y.phase = p /\ y.runs = n /\ y.call = x.call
  BY <1>2 DEF ToolTask, SameTool
<1> QED BY <1>1, <1>3 DEF n

\* call: the intent is stored and execution begins.
LEMMA ToolIntendsStep == ASSUME Inv, NEW t \in DOMAIN tools, ToolIntends(t) PROVE Sound
<1> DEFINE x == tools[t]
           y == [x EXCEPT !.phase = "execute", !.executing = TRUE, !.runs = x.runs + 1]
           U == [tools EXCEPT ![t] = y]
<1>1. tools' = U /\ UNCHANGED <<table, run, slots, gens, comps, used>> /\ x.phase = "call" /\ used' \in Budget
  BY DEF ToolIntends, ToolWorks, Inv
<1>2. x \in ToolTask /\ x.runs = 0 /\ Once(tools) /\ tools \in Seq(ToolTask)
  BY <1>1, InvTypes DEF Inv, Once
<1>3. y \in ToolTask /\ SameTool(x, y) /\ y.phase = "execute" /\ y.runs = x.runs + 1
  <2> HIDE DEF x
  <2> QED BY <1>2, RunsAgain
<1>4. y.runs <= 1
  BY <1>2, <1>3
<1> HIDE DEF y
<1>5. ToolsKeep(tools, U) /\ Once(U)
  BY <1>2, <1>3, <1>4, ToolUpdate
<1> HIDE DEF U
<1> QED BY <1>1, <1>5, ToolsOnly

\* execute, reached by recovery, for a tool that may be replayed.
LEMMA ToolRerunsStep == ASSUME Inv, NEW t \in DOMAIN tools, ToolReruns(t) PROVE Sound
<1> DEFINE x == tools[t]
           y == [x EXCEPT !.phase = "execute", !.executing = TRUE, !.runs = x.runs + 1]
           U == [tools EXCEPT ![t] = y]
<1>1. /\ tools' = [tools EXCEPT ![t] = [x EXCEPT !.executing = TRUE, !.runs = x.runs + 1]]
      /\ UNCHANGED <<table, run, slots, gens, comps, used>> /\ used' \in Budget
      /\ x.phase = "execute" /\ x.call \in SafeCalls
  BY DEF ToolReruns, ToolWorks, Inv
<1>2. x \in ToolTask /\ Once(tools) /\ tools \in Seq(ToolTask)
  BY <1>1, InvTypes DEF Inv
<1>3. tools' = U
  <2>1. \A n : [x EXCEPT !.executing = TRUE, !.runs = n] = [x EXCEPT !.phase = "execute", !.executing = TRUE, !.runs = n]
    <3> HIDE DEF x
    <3> QED BY <1>1, <1>2 DEF ToolTask
  <2> QED BY <1>1, <2>1
<1>4. y \in ToolTask /\ SameTool(x, y) /\ y.phase = "execute" /\ y.call = x.call
  <2> HIDE DEF x
  <2> QED BY <1>2, RunsAgain
<1> HIDE DEF y
<1>5. ToolsKeep(tools, U) /\ Once(U)
  BY <1>1, <1>2, <1>4, ToolUpdate
<1>6. UNCHANGED <<table, run, slots, gens, comps>> /\ used' \in Budget
  BY <1>1
<1> HIDE DEF U
<1> QED BY <1>3, <1>5, <1>6, ToolsOnly

\* A commit of one entry that sets no head.
LEMMA AppendLedger ==
  ASSUME Ledger, NEW e \in EntryRecord, e.head = 0, Commit(AppendTo(Draft, e)), run' = run
  PROVE  /\ Ledger' /\ Adds(entries, entries', e) /\ entries' \in Seq(EntryRecord)
         /\ RangeStart(entries') = RangeStart(entries)
<1> DEFINE C == AppendTo(Draft, e)
<1>1. Orderly(Draft) /\ Draft.subs = subs /\ Draft.entries = entries /\ entries \in Seq(EntryRecord)
  BY DraftFields DEF Ledger
<1>2. /\ Orderly(C) /\ C.subs = subs /\ C.entries = Append(entries, e) /\ Extends(entries, C.entries)
      /\ RangeStart(C.entries) = RangeStart(entries)
  <2> DEFINE D == Draft
  <2>1. Orderly(D)
    BY <1>1
  <2> HIDE DEF D
  <2>2. LET B == AppendTo(D, e)
        IN /\ Orderly(B) /\ B.subs = D.subs /\ B.entries = Append(D.entries, e) /\ Extends(D.entries, B.entries)
           /\ RangeStart(B.entries) = RangeStart(D.entries)
    BY <2>1, OrderlyAppend
  <2> QED BY <1>1, <2>2 DEF D
<1> HIDE DEF C
<1>3. Orderly(Draft)' /\ subs' = C.subs /\ entries' = C.entries
  BY <1>2, Committed DEF C
<1>4. Inputs(subs, run.inputs)'
  BY <1>2, <1>3 DEF Ledger, Inputs
<1>5. Adds(entries, C.entries, e) /\ C.entries \in Seq(EntryRecord)
  BY <1>1, <1>2 DEF Adds
<1> QED BY <1>2, <1>3, <1>4, <1>5 DEF Ledger

\* A step that ends a tool.
LEMMA ToolEndsStep ==
  ASSUME Inv, Ledger', UNCHANGED <<run, slots, gens, comps>>, used' \in Budget, Len(entries) <= Len(entries'),
         RangeStart(entries') = RangeStart(entries), NEW t \in DOMAIN tools, NEW o, EndsTool(tools, tools', t, o),
         Once(tools'), Linked(entries', gens, tools'), Answered(entries', gens, tools')
  PROVE  Sound
<1>1. entries \in Seq(EntryRecord) /\ entries' \in Seq(EntryRecord)
  <2>1. (Orderly(Draft))'
    BY DEF Ledger
  <2> QED BY <2>1, InvTypes DEF Orderly, Drafts, Draft
<1>2. GensKeep(gens, gens) /\ CompsKeep(comps, comps)
  BY InvTypes, KeepRefl
<1>3. Comps(entries', gens, comps)
  BY <1>1, <1>2, CompsStay DEF Inv
<1>4. tools' \in Seq(ToolTask) /\ \A u \in DOMAIN tools' : tools'[u].live => tools'[u].gen = run.task
  BY DEF EndsTool, Inv, Busy
<1>5. Busy(run, gens, tools', comps)
  BY <1>2, <1>4, BusyKeeps DEF Inv, Busy
<1>6. slots' \in Seq(Range(Calls))
  BY DEF Inv
<1>7. (Busy(run, gens, tools, comps) /\ Linked(entries, gens, tools) /\ Answered(entries, gens, tools) /\ Comps(entries, gens, comps))'
  BY <1>3, <1>5
<1>8. RangeStart(entries) \in Nat
  <2>1. RangeStart(entries) \in 0..Len(entries)
    BY InvTypes, RangeWithin
  <2> QED BY <2>1
<1>9. Inv'
  BY <1>4, <1>6, <1>7 DEF Inv, Once, Budget
<1> QED BY <1>8, <1>9 DEF Sound

\* The record of a tool that ended.
LEMMA EndsToolSpec ==
  ASSUME NEW T \in Seq(ToolTask), Once(T), NEW t \in DOMAIN T, NEW y \in ToolTask,
         y.gen = T[t].gen, y.assistant = T[t].assistant, y.call = T[t].call, ~y.live,
         y.phase = T[t].phase, y.runs = T[t].runs
  PROVE  LET U == [T EXCEPT ![t] = y] IN EndsTool(T, U, t, y.outcome) /\ Once(U)
<1> DEFINE U == [T EXCEPT ![t] = y]
<1>1. /\ U \in Seq(ToolTask) /\ Len(U) = Len(T) /\ DOMAIN U = DOMAIN T
      /\ U[t] = y /\ \A u \in DOMAIN T : u # t => U[u] = T[u]
  BY SeqUpdate
<1> HIDE DEF U
<1>2. EndsTool(T, U, t, y.outcome)
  BY <1>1 DEF EndsTool
<1>3. Once(U)
  BY <1>1 DEF Once
<1> QED BY <1>2, <1>3 DEF U

\* settle.
LEMMA SettlesStep ==
  ASSUME Inv, NEW t \in DOMAIN tools, tools[t].live,
         NEW outcome \in {"completed", "failed", "aborted"}, NEW control \in {"none", "terminate", "handoff"},
         Settles(t, outcome, control)
  PROVE  Sound
<1> DEFINE x == tools[t]
           y == [x EXCEPT !.live = FALSE, !.mark = FALSE, !.executing = FALSE, !.outcome = outcome, !.control = control]
           U == [tools EXCEPT ![t] = y]
           e == Result(x.assistant, x.call)
<1>1. tools' = U /\ UNCHANGED <<run, slots, gens, comps, used>> /\ Commit(AppendTo(Draft, e))
  BY DEF Settles
<1>2. x \in ToolTask /\ Once(tools) /\ tools \in Seq(ToolTask) /\ used' \in Budget
  BY <1>1, InvTypes DEF Inv
<1>3. x.assistant \in Nat /\ x.call \in Range(Calls)
  BY <1>2 DEF ToolTask
<1>4. e \in EntryRecord /\ e.head = 0
  <2> HIDE DEF x
  <2> QED BY <1>3, ResultFields
<1>5. /\ y \in ToolTask /\ y.gen = x.gen /\ y.assistant = x.assistant /\ y.call = x.call /\ ~y.live
      /\ y.phase = x.phase /\ y.runs = x.runs /\ y.outcome = outcome
  <2> HIDE DEF x
  <2> QED BY <1>2 DEF ToolTask
<1> HIDE DEF y
<1>6. EndsTool(tools, U, t, outcome) /\ Once(U)
  BY <1>2, <1>5, EndsToolSpec
<1> HIDE DEF U, e
<1>7. /\ Ledger' /\ Adds(entries, entries', e) /\ entries' \in Seq(EntryRecord)
      /\ RangeStart(entries') = RangeStart(entries)
  BY <1>1, <1>4, AppendLedger DEF Inv
<1>8. Linked(entries', gens, U) /\ Answered(entries', gens, U)
  <2>1. /\ entries \in Seq(EntryRecord) /\ Linked(entries, gens, tools) /\ Answered(entries, gens, tools)
        /\ tools[t].assistant \in Nat /\ tools[t].call \in Range(Calls)
        /\ Adds(entries, entries', Result(tools[t].assistant, tools[t].call))
    BY <1>3, <1>7, InvTypes DEF Inv, e
  <2> QED BY <1>6, <1>7, <2>1, RoundsSettle
<1>9. Len(entries) <= Len(entries')
  BY <1>7 DEF Adds, Extends
<1> QED BY <1>1, <1>2, <1>6, <1>7, <1>8, <1>9, ToolEndsStep

\* settleSchedulerOutcome for a tool.
LEMMA ToolFaultsStep == ASSUME Inv, NEW t \in DOMAIN tools, ToolFaults(t) PROVE Sound
<1> DEFINE x == tools[t]
           y == [x EXCEPT !.live = FALSE, !.mark = FALSE, !.executing = FALSE, !.outcome = "faulted"]
           U == [tools EXCEPT ![t] = y]
<1>1. tools' = U /\ UNCHANGED <<table, run, slots, gens, comps>> /\ used' \in Budget
  BY FaultsBudget DEF ToolFaults
<1>2. x \in ToolTask /\ Once(tools) /\ tools \in Seq(ToolTask)
  BY InvTypes DEF Inv
<1>3. /\ y \in ToolTask /\ y.gen = x.gen /\ y.assistant = x.assistant /\ y.call = x.call /\ ~y.live
      /\ y.phase = x.phase /\ y.runs = x.runs /\ y.outcome = "faulted"
  <2> HIDE DEF x
  <2> QED BY <1>2 DEF ToolTask
<1> HIDE DEF y
<1>4. EndsTool(tools, U, t, "faulted") /\ Once(U)
  BY <1>2, <1>3, EndsToolSpec
<1> HIDE DEF U
<1>5. Ledger' /\ entries' = entries
  BY <1>1, SameLedger DEF Inv
<1>6. Linked(entries, gens, U) /\ Answered(entries, gens, U)
  BY <1>4, RoundsFault DEF Inv
<1>7. Len(entries) <= Len(entries)
  BY InvTypes
<1> QED BY <1>1, <1>4, <1>5, <1>6, <1>7, ToolEndsStep

\* ToolExecutionApi.commit.
LEMMA ToolAppendsStep == ASSUME Inv, NEW t \in DOMAIN tools, ToolAppends(t) PROVE Sound
<1> DEFINE e == Entry("user", 0, <<>>, 0)
<1>1. /\ UNCHANGED <<run, slots, gens, tools, comps>> /\ Commit(AppendTo(Draft, e))
      /\ used.raw < MaxRaw /\ used' = [used EXCEPT !.raw = used.raw + 1]
  BY DEF ToolAppends
<1>2. e \in EntryRecord /\ e.head = 0 /\ e.kind = "user"
  BY DEF Entry, EntryRecord
<1>3. used' \in Budget
  <2>1. used \in Budget /\ used.raw \in 0..MaxRaw /\ MaxRaw \in Nat
    BY ConversationAssumption DEF Inv, Budget
  <2> DEFINE n == used.raw + 1
  <2>2. n \in 0..MaxRaw
    BY <1>1, <2>1
  <2>3. used' = [used EXCEPT !.raw = n]
    BY <1>1
  <2> HIDE DEF n
  <2> QED BY <2>1, <2>2, <2>3 DEF Budget
<1> HIDE DEF e
<1>4. /\ Ledger' /\ Adds(entries, entries', e) /\ entries' \in Seq(EntryRecord)
      /\ RangeStart(entries') = RangeStart(entries)
  BY <1>1, <1>2, AppendLedger DEF Inv
<1>5. Resultless(entries, entries') /\ Len(entries) <= Len(entries')
  <2>1. Len(entries) \in Nat
    BY InvTypes
  <2> QED BY <1>2, <1>4, <2>1 DEF Resultless, Adds, Extends
<1>6. GensKeep(gens, gens) /\ ToolsKeep(tools, tools) /\ CompsKeep(comps, comps)
  BY InvTypes, KeepRefl
<1>7. Comps(entries', gens, comps)
  <2>1. entries \in Seq(EntryRecord)
    BY InvTypes
  <2> QED BY <1>4, <1>5, <1>6, <2>1, CompsStay DEF Inv
<1>8. Owned(run, comps) /\ Once(tools) /\ slots \in Seq(Range(Calls))
  BY InvTypes DEF Inv
<1>9. Inv'
  BY <1>1, <1>3, <1>4, <1>5, <1>6, <1>7, <1>8, QuietStep
<1>10. RangeStart(entries) \in Nat
  <2>1. RangeStart(entries) \in 0..Len(entries)
    BY InvTypes, RangeWithin
  <2> QED BY <2>1
<1> QED BY <1>4, <1>9, <1>10 DEF Sound

----------------------------------------------------------------------------
(* Steps of a compaction.                                                  *)

\* A step that replaces one compaction only.
LEMMA CompStep ==
  ASSUME Inv, UNCHANGED <<table, run, slots, gens, tools, used>>, NEW c \in DOMAIN comps,
         NEW x \in CompactionTask, x.owner = comps[c].owner, x.kept \in 0..Len(entries),
         x.live => comps[c].live /\ (x.phase = "summarize" => RangeStart(entries) <= x.kept),
         comps' = [comps EXCEPT ![c] = x]
  PROVE  Sound
<1> DEFINE B == [comps EXCEPT ![c] = x]
<1>1. Comps(entries, gens, B) /\ Owned(run, B)
  <2>1. entries \in Seq(EntryRecord) /\ Comps(entries, gens, comps) /\ Owned(run, comps)
    BY InvTypes DEF Inv
  <2> QED BY <2>1, CompsReplace
<1>2. comps' = B
  OBVIOUS
<1>3. GensKeep(gens, gens) /\ used' \in Budget
  BY InvTypes, KeepRefl DEF Inv
<1> HIDE DEF B
<1>4. Comps(entries, gens', comps') /\ Owned(run, comps') /\ GensKeep(gens, gens')
  BY <1>1, <1>2, <1>3
<1> QED BY <1>3, <1>4, ToolsAside

\* select: the cut is fixed.
LEMMA SelectStep == ASSUME Inv, NEW c \in DOMAIN comps, Select(c) PROVE Sound
<1>1. PICK cut \in Cuts(entries) : comps' = [comps EXCEPT ![c] = [@ EXCEPT !.phase = "summarize", !.kept = cut]]
  BY DEF Select
<1>2. UNCHANGED <<table, run, slots, gens, tools, used>> /\ comps[c].live
  BY DEF Select, CompactionWorks
<1>3. cut \in 1..Len(entries) /\ cut >= RangeStart(entries)
  BY DEF Cuts, Active
<1>4. RangeStart(entries) \in 0..Len(entries) /\ Len(entries) \in Nat
  BY InvTypes, RangeWithin
<1> DEFINE y == comps[c]
           x == [y EXCEPT !.phase = "summarize", !.kept = cut]
<1>5. y \in CompactionTask /\ cut \in Nat /\ cut \in 0..Len(entries) /\ RangeStart(entries) <= cut
  BY <1>3, <1>4, InvTypes
<1>6. comps' = [comps EXCEPT ![c] = x]
  BY <1>1
<1>7. x \in CompactionTask /\ x.owner = y.owner /\ x.kept = cut /\ x.phase = "summarize"
  <2> HIDE DEF y
  <2> QED BY <1>5 DEF CompactionTask
<1> HIDE DEF x
<1> QED BY <1>2, <1>5, <1>6, <1>7, CompStep

\* The record of a compaction that ended.
LEMMA CompEnded ==
  ASSUME Inv, NEW c \in DOMAIN comps, NEW placed \in BOOLEAN, CompactionEnds(c, placed)
  PROVE  \E x \in CompactionTask : /\ comps' = [comps EXCEPT ![c] = x] /\ x.owner = comps[c].owner
                                   /\ x.kept = 0 /\ ~x.live
<1> DEFINE y == comps[c]
           x == [y EXCEPT !.live = FALSE, !.mark = FALSE, !.kept = 0, !.placed = placed]
<1>1. y \in CompactionTask
  BY InvTypes
<1>2. comps' = [comps EXCEPT ![c] = x]
  BY DEF CompactionEnds
<1>3. x \in CompactionTask /\ x.owner = y.owner /\ x.kept = 0 /\ ~x.live
  <2> HIDE DEF y
  <2> QED BY <1>1 DEF CompactionTask
<1> HIDE DEF x
<1> QED BY <1>2, <1>3

\* A compaction that places nothing.
LEMMA CompactionGivesUpStep == ASSUME Inv, NEW c \in DOMAIN comps, CompactionGivesUp(c) PROVE Sound
<1> DEFINE no == FALSE
<1>1. UNCHANGED <<table, run, slots, gens, tools, used>> /\ CompactionEnds(c, no) /\ no \in BOOLEAN
  BY DEF CompactionGivesUp
<1> HIDE DEF no
<1>2. PICK x \in CompactionTask : /\ comps' = [comps EXCEPT ![c] = x] /\ x.owner = comps[c].owner
                                  /\ x.kept = 0 /\ ~x.live
  BY <1>1, CompEnded
<1>3. Len(entries) \in Nat
  BY InvTypes
<1>4. x.kept \in 0..Len(entries)
  BY <1>2, <1>3
<1> QED BY <1>1, <1>2, <1>4, CompStep

\* placeSummary.
LEMMA PlaceSummaryStep == ASSUME Inv, NEW c \in DOMAIN comps, NEW modes, PlaceSummary(c, modes) PROVE Sound
<1> DEFINE yes == TRUE
           kept == comps[c].kept
<1>1. /\ CompactionEnds(c, yes) /\ yes \in BOOLEAN /\ comps[c].live /\ comps[c].phase = "summarize"
      /\ UNCHANGED <<slots, tools, used>>
      /\ \/ /\ comps[c].owner # 0 /\ Commit(AppendTo(Draft, WriteEntry(Draft, kept))) /\ UNCHANGED <<run, gens>>
         \/ comps[c].owner = 0 /\ Admit(Draft, "summary", "write", kept, modes, gens)
  BY DEF PlaceSummary, CompactionWorks
<1> HIDE DEF yes
<1>2. PICK x \in CompactionTask : /\ comps' = [comps EXCEPT ![c] = x] /\ x.owner = comps[c].owner
                                  /\ x.kept = 0 /\ ~x.live
  BY <1>1, CompEnded
<1>3. Len(entries) \in Nat /\ kept \in 0..Len(entries)
  BY InvTypes DEF Inv, Comps
<1>4. /\ Comps(entries, gens, comps') /\ Owned(run, comps') /\ DOMAIN comps' = DOMAIN comps
      /\ ~comps'[c].live /\ \A d \in DOMAIN comps : d # c => comps'[d] = comps[d]
  <2> DEFINE B == [comps EXCEPT ![c] = x]
  <2>1. /\ Comps(entries, gens, B) /\ Owned(run, B) /\ DOMAIN B = DOMAIN comps
        /\ B[c] = x /\ \A d \in DOMAIN comps : d # c => B[d] = comps[d]
    <3>1. entries \in Seq(EntryRecord) /\ Comps(entries, gens, comps) /\ Owned(run, comps)
          /\ x.kept \in 0..Len(entries)
      BY <1>2, <1>3, InvTypes DEF Inv
    <3> QED BY <1>2, <3>1, CompsReplace
  <2>2. comps' = B
    BY <1>2
  <2> HIDE DEF B
  <2> QED BY <1>2, <2>1, <2>2
<1>5. CASE comps[c].owner = 0 /\ Admit(Draft, "summary", "write", kept, modes, gens)
  <2>1. kept \in -1..Len(entries) /\ UNCHANGED <<slots, tools, used>>
    BY <1>1, <1>3
  <2> HIDE DEF kept
  <2> QED BY <1>4, <1>5, <2>1, AdmitStep
<1>6. CASE comps[c].owner # 0 /\ Commit(AppendTo(Draft, WriteEntry(Draft, kept))) /\ UNCHANGED <<run, gens>>
  <2>1. RangeStart(entries) <= kept /\ gens[comps[c].owner].compacted = c /\ comps[c].owner = run.task
    BY <1>1, <1>6, InvTypes DEF Inv, Comps, Owned
  <2>2. \A d \in DOMAIN comps' : comps'[d].live => comps'[d].owner = 0
    <3>1. ASSUME NEW d \in DOMAIN comps, d # c, comps[d].live, comps[d].owner # 0 PROVE FALSE
      <4>1. gens[comps[d].owner].compacted = d /\ comps[d].owner = run.task
        BY <3>1, InvTypes DEF Inv, Comps, Owned
      <4> QED BY <2>1, <3>1, <4>1
    <3> QED BY <1>4, <3>1
  <2>3. RangeStart(entries) \in 0..Len(entries)
    BY InvTypes, RangeWithin
  <2> DEFINE D == Draft
             C == AppendTo(D, WriteEntry(D, kept))
  <2>4. Orderly(D) /\ D.entries = entries /\ D.subs = subs /\ Inputs(subs, run.inputs)
    BY InvTypes, DraftFields
  <2>5. kept \in Int /\ kept \in -1..Len(D.entries) /\ ~IsStale(D, kept)
    BY <1>3, <2>1, <2>3, <2>4 DEF IsStale
  <2>6. Commit(C)
    BY <1>6
  <2> HIDE DEF D, kept
  <2>7. Orderly(C) /\ C.subs = D.subs /\ Neutral(D.entries, C.entries)
    BY <2>4, <2>5, OrderlyWrite
  <2> HIDE DEF C
  <2>8. Orderly(Draft)' /\ subs' = C.subs /\ entries' = C.entries
    BY <2>6, <2>7, Committed
  <2>9. Neutral(entries, entries')
    BY <2>4, <2>7, <2>8
  <2>10. Ledger'
    <3>1. Inputs(subs, run.inputs)'
      BY <1>6, <2>4, <2>7, <2>8 DEF Inputs
    <3> QED BY <2>8, <3>1 DEF Ledger
  <2>11. Resultless(entries, entries') /\ Len(entries) <= Len(entries') /\ RangeStart(entries) <= RangeStart(entries')
    BY <2>9, NeutralResultless DEF Neutral
  <2>12. entries \in Seq(EntryRecord) /\ entries' \in Seq(EntryRecord) /\ HeadsIn(entries')
    BY <2>8, InvTypes DEF Orderly, Drafts, Draft
  <2>13. Comps(entries', gens', comps')
    <3>1. DOMAIN gens \subseteq DOMAIN gens'
      BY <1>6
    <3> QED BY <1>4, <2>2, <2>11, <2>12, <3>1, CompsIdle
  <2>14. GensKeep(gens, gens') /\ ToolsKeep(tools, tools') /\ Once(tools') /\ slots' \in Seq(Range(Calls)) /\ used' \in Budget
    <3>1. GensKeep(gens, gens) /\ ToolsKeep(tools, tools)
      BY InvTypes, KeepRefl
    <3> QED BY <1>1, <1>6, <3>1 DEF Inv
  <2>15. Inv'
    BY <1>4, <1>6, <2>10, <2>11, <2>13, <2>14, QuietStep
  <2>16. RangeStart(entries') \in 0..Len(entries')
    BY <2>12, RangeWithin
  <2>17. RangeStart(entries') >= RangeStart(entries)
    BY <2>3, <2>11, <2>16
  <2> QED BY <2>15, <2>17 DEF Sound
<1> QED BY <1>1, <1>5, <1>6

----------------------------------------------------------------------------
(* Steps that end a generation.                                            *)

\* The inputs of the run and those a boundary placed are the placed ones.
Joins(B) ==
  /\ B.users \in Seq(Nat) /\ \A i, j \in DOMAIN B.users : B.users[i] = B.users[j] => i = j
  /\ Range(run.inputs) \cap Range(B.users) = {}
  /\ Range(run.inputs) \cup Range(B.users) = {id \in DOMAIN B.subs : B.subs[id].status = "placed"}

\* endRun, for the generation of the run.
LEMMA EndRunSpec ==
  ASSUME NEW B, Orderly(B), Joins(B), NEW st \in Settled
  PROVE  LET C == EndRun(B, run.task, st)
         IN /\ Orderly(C) /\ C.entries = B.entries /\ C.users = B.users /\ Inputs(C.subs, B.users)
<1> DEFINE C == Change(B, Range(run.inputs), st)
           ins == run.inputs
           us == B.users
<1>1. C = EndRun(B, run.task, st)
  BY DEF EndRun
<1>2. /\ us \in Seq(Nat) /\ \A i, j \in DOMAIN us : us[i] = us[j] => i = j
  BY DEF Joins
<1>3. /\ Range(ins) \cap Range(us) = {}
      /\ Range(ins) \cup Range(us) = {id \in DOMAIN B.subs : B.subs[id].status = "placed"}
  BY DEF Joins
<1>4. /\ Orderly(C) /\ C.entries = B.entries /\ C.users = B.users /\ Inputs(C.subs, us)
  <2> HIDE DEF us
  <2> QED BY <1>2, <1>3, SettledInputs
<1> HIDE DEF C
<1> QED BY <1>1, <1>4

\* The next transcript, of a commit that ends the generation.
EndsOn(g, o, F) ==
  /\ Len(entries) <= Len(F) /\ RangeStart(entries) <= RangeStart(F)
  /\ Linked(F, Ended(g, o), tools) /\ Answered(F, Ended(g, o), tools)

\* The run goes to a successor, starts anew or stops.
LEMMA EndsStep ==
  ASSUME Inv, NEW g \in DOMAIN gens, Ready(g), UNCHANGED <<tools, comps>>,
         slots' \in Seq(Range(Calls)), used' \in Budget,
         NEW o \in {"completed", "failed", "aborted", "faulted"}, NEW B, Orderly(B), Joins(B), EndsOn(g, o, B.entries),
         \/ \E st \in Settled : Commit(EndRun(B, g, st)) /\ StartRun(B.users, Ended(g, o))
         \/ Commit(B) /\ o = "completed" /\ HandOver(g, B.users)
  PROVE  Sound
<1>1. run.task = g /\ Idle(Ended(g, o), tools, comps) /\ run \in [task: Nat, inputs: Seq(Nat)]
  BY ReadyOwnsRun DEF Inv, Busy
<1>2. /\ Ended(g, o) \in Seq(GenerationTask) /\ Len(Ended(g, o)) = Len(gens) /\ DOMAIN Ended(g, o) = DOMAIN gens
  BY InvTypes, EndedFields
<1>3. Ledger' /\ entries' = B.entries /\ Begins(Ended(g, o))
  <2>1. ASSUME NEW st \in Settled, Commit(EndRun(B, g, st)), StartRun(B.users, Ended(g, o))
        PROVE  Ledger' /\ entries' = B.entries /\ Begins(Ended(g, o))
    <3> DEFINE C == EndRun(B, g, st)
    <3>1. Orderly(C) /\ C.entries = B.entries /\ Inputs(C.subs, B.users)
      BY <1>1, EndRunSpec
    <3> HIDE DEF C
    <3>2. Orderly(Draft)' /\ subs' = C.subs /\ entries' = C.entries
      BY <2>1, <3>1, Committed DEF C
    <3>3. run'.inputs = B.users /\ Begins(Ended(g, o))
      BY <2>1, StartRunSpec DEF Joins
    <3> QED BY <3>1, <3>2, <3>3 DEF Ledger
  <2>2. ASSUME Commit(B), o = "completed", HandOver(g, B.users)
        PROVE  Ledger' /\ entries' = B.entries /\ Begins(Ended(g, o))
    <3> DEFINE us == run.inputs \o B.users
    <3>1. run' = [task |-> Len(gens) + 1, inputs |-> us] /\ gens' = Append(Ended(g, o), NewGeneration)
      BY <1>1, <2>2 DEF HandOver
    <3>2. us \in Seq(Nat)
      BY <1>1 DEF Joins
    <3>3. Inputs(B.subs, us)
      <4>1. run.inputs \in Seq(Nat) /\ \A i, j \in DOMAIN run.inputs : run.inputs[i] = run.inputs[j] => i = j
        BY InvTypes DEF Inputs
      <4>2. /\ B.users \in Seq(Nat) /\ \A i, j \in DOMAIN B.users : B.users[i] = B.users[j] => i = j
            /\ Range(run.inputs) \cap Range(B.users) = {}
            /\ Range(run.inputs) \cup Range(B.users) = {id \in DOMAIN B.subs : B.subs[id].status = "placed"}
        BY DEF Joins
      <4> QED BY <4>1, <4>2, JoinedInputs
    <3> HIDE DEF us
    <3>4. Orderly(Draft)' /\ subs' = B.subs /\ entries' = B.entries
      BY <2>2, Committed
    <3>5. run'.inputs = us
      BY <3>1
    <3>6. Begins(Ended(g, o))
      BY <1>2, <3>1, <3>2 DEF Begins
    <3> QED BY <3>3, <3>4, <3>5, <3>6 DEF Ledger
  <2> QED BY <2>1, <2>2
<1>4. /\ Linked(entries', Ended(g, o), tools) /\ Answered(entries', Ended(g, o), tools)
      /\ Len(entries) <= Len(entries') /\ RangeStart(entries) <= RangeStart(entries')
  BY <1>3 DEF EndsOn
<1>5. Inv'
  <2> DEFINE H == Ended(g, o)
             B1 == comps'
  <2>1. Idle(H, tools, comps') /\ DOMAIN gens \subseteq DOMAIN H /\ Comps(entries, gens, comps') /\ tools' = tools
    BY <1>1, <1>2 DEF Inv
  <2>2. Linked(entries', H, tools) /\ Answered(entries', H, tools) /\ Begins(H)
    BY <1>3, <1>4
  <2> HIDE DEF H
  <2> QED BY <1>3, <1>4, <2>1, <2>2, TurnStep
<1>6. RangeStart(entries) \in Int /\ RangeStart(entries') \in Int
  <2>1. RangeStart(entries) \in 0..Len(entries)
    BY InvTypes, RangeWithin
  <2>2. B.entries \in Seq(EntryRecord) /\ HeadsIn(B.entries)
    BY DEF Orderly, Drafts
  <2>3. RangeStart(B.entries) \in 0..Len(B.entries)
    BY <2>2, RangeWithin
  <2> QED BY <1>3, <2>1, <2>3
<1> QED BY <1>4, <1>5, <1>6 DEF Sound

\* A generation ends without new results.
LEMMA EndsResultless ==
  ASSUME Inv, NEW g \in DOMAIN gens, Ready(g), NEW o \in {"completed", "failed", "aborted", "faulted"},
         NEW F \in Seq(EntryRecord), Resultless(entries, F), RangeStart(entries) <= RangeStart(F),
         gens[g].pending = <<>> \/ o = "faulted"
  PROVE  EndsOn(g, o, F)
<1> DEFINE H == Ended(g, o)
           a == gens[g].assistant
<1>1. entries \in Seq(EntryRecord) /\ Linked(entries, gens, tools) /\ Answered(entries, gens, tools) /\ Extends(entries, F)
  BY InvTypes DEF Inv, Resultless
<1>2. /\ DOMAIN H = DOMAIN gens /\ \A h \in DOMAIN gens : h # g => H[h] = gens[h]
      /\ ~H[g].live /\ H[g].outcome = o /\ H[g].assistant = a /\ H[g].pending = <<>>
  BY InvTypes, EndedFields
<1>3. gens[g].live /\ \A t \in DOMAIN tools : ~tools[t].live
  BY ReadyOwnsRun DEF Inv, Idle, Ready
<1>4. \A i \in (Len(entries) + 1)..Len(F) : F[i].kind # "result"
  BY DEF Resultless
<1>5. ASSUME NEW c \in Range(Calls)
      PROVE  Res(F, a, c) = Res(entries, a, c) /\ (c \in Range(gens[g].pending) => H[g].outcome = "faulted")
  <2>1. Res(F, a, c) = Res(entries, a, c)
    BY <1>1, <1>4, ResKept
  <2>2. Range(<<>>) = {}
    BY DEF Range
  <2> QED BY <1>2, <2>1, <2>2
<1> HIDE DEF H
<1>6. Linked(F, H, tools) /\ Answered(F, H, tools)
  BY <1>1, <1>2, <1>3, <1>4, <1>5, RoundsEnd
<1>7. Len(entries) <= Len(F)
  BY <1>1 DEF Extends
<1> QED BY <1>6, <1>7 DEF EndsOn, H

\* failNoModel, failModelError, a fault and an abort.
LEMMA UnansweredStep ==
  ASSUME Inv, NEW g \in DOMAIN gens, Ready(g), UNCHANGED <<tools, comps>>, used' \in Budget,
         NEW o \in {"completed", "failed", "aborted", "faulted"}, NEW st \in Settled,
         NEW D, Orderly(D), D.subs = subs, D.users = <<>>, EndsOn(g, o, D.entries), EndsUnanswered(g, D, st, o)
  PROVE  Sound
<1>1. run.task = g
  BY ReadyOwnsRun DEF Inv
<1>2. /\ Commit(EndRun(D, g, st)) /\ run' = NoRun /\ slots' = <<>> /\ gens' = Ended(g, o)
  BY <1>1 DEF EndsUnanswered, RunWithout
<1>3. StartRun(D.users, Ended(g, o))
  BY <1>2 DEF StartRun
<1>4. Joins(D)
  <2>1. Range(<<>>) = {} /\ <<>> \in Seq(Nat) /\ DOMAIN <<>> = {}
    BY DEF Range
  <2>2. Range(run.inputs) = {id \in DOMAIN subs : subs[id].status = "placed"}
    BY InvTypes DEF Inputs
  <2> QED BY <2>1, <2>2 DEF Joins
<1>5. slots' \in Seq(Range(Calls))
  BY <1>2
<1> QED BY <1>2, <1>3, <1>4, <1>5, EndsStep

\* These ends with the transcript as it is.
LEMMA DraftEndsStep ==
  ASSUME Inv, NEW g \in DOMAIN gens, Ready(g), UNCHANGED <<tools, comps>>, used' \in Budget,
         NEW o \in {"completed", "failed", "aborted", "faulted"}, NEW st \in Settled,
         gens[g].pending = <<>> \/ o = "faulted", EndsUnanswered(g, Draft, st, o)
  PROVE  Sound
<1>1. Orderly(Draft) /\ Draft.subs = subs /\ Draft.users = <<>> /\ Draft.entries = entries /\ entries \in Seq(EntryRecord)
  BY InvTypes, DraftFields
<1>2. RangeStart(entries) <= RangeStart(entries)
  <2>1. RangeStart(entries) \in 0..Len(entries)
    BY InvTypes, RangeWithin
  <2> QED BY <2>1
<1>3. EndsOn(g, o, entries)
  <2>1. Resultless(entries, entries)
    BY InvTypes, NeutralResultless
  <2> QED BY <1>1, <1>2, <2>1, EndsResultless
<1> DEFINE D == Draft
<1>4. Orderly(D) /\ D.subs = subs /\ D.users = <<>> /\ EndsOn(g, o, D.entries) /\ EndsUnanswered(g, D, st, o)
  BY <1>1, <1>3
<1> HIDE DEF D
<1> QED BY <1>4, UnansweredStep

\* prepare without a model.
LEMMA PrepareFailsStep == ASSUME Inv, NEW g \in DOMAIN gens, PrepareFails(g) PROVE Sound
<1>1. Works(g, {"prepare"}) /\ EndsUnanswered(g, Draft, "error", "failed") /\ UNCHANGED <<tools, comps>> /\ used' \in Budget
  BY DEF PrepareFails, Inv
<1>2. Ready(g) /\ gens[g].pending = <<>>
  BY <1>1, WorksFields
<1>3. "error" \in Settled
  BY DEF Settled
<1> QED BY <1>1, <1>2, <1>3, DraftEndsStep

\* classify: a retry, or the end.
LEMMA FailsStep == ASSUME Inv, NEW g \in DOMAIN gens, Fails(g) PROVE Sound
<1>1. /\ Works(g, {"request", "poll"}) /\ UNCHANGED <<tools, comps, used>> /\ used' \in Budget
      /\ \/ gens' = [gens EXCEPT ![g].phase = "retry"] /\ UNCHANGED <<table, run, slots>>
         \/ EndsUnanswered(g, Draft, "error", "failed")
  BY DEF Fails, Inv
<1>2. Ready(g) /\ gens[g].pending = <<>> /\ "error" \in Settled
  BY <1>1, WorksFields DEF Settled
<1>3. CASE gens' = [gens EXCEPT ![g].phase = "retry"] /\ UNCHANGED <<table, run, slots>>
  BY <1>1, <1>3, PhaseStep
<1>4. CASE EndsUnanswered(g, Draft, "error", "failed")
  BY <1>1, <1>2, <1>4, DraftEndsStep
<1> QED BY <1>1, <1>3, <1>4

\* settleSchedulerOutcome for a generation.
LEMMA GenerationFaultsStep == ASSUME Inv, NEW g \in DOMAIN gens, GenerationFaults(g) PROVE Sound
<1>1. Ready(g) /\ EndsUnanswered(g, Draft, "faulted", "faulted") /\ UNCHANGED <<tools, comps>> /\ used' \in Budget
  BY FaultsBudget DEF GenerationFaults
<1>2. "faulted" \in Settled
  BY DEF Settled
<1> QED BY <1>1, <1>2, DraftEndsStep

ResultsFor(a, s) == [i \in DOMAIN s |-> Result(a, s[i])]

Followed(E, F, a, s) ==
  /\ F \in Seq(EntryRecord) /\ Len(F) = Len(E) + Len(s) /\ Extends(E, F) /\ Len(E) \in Nat /\ Len(s) \in Nat
  /\ \A i \in 1..Len(s) : F[Len(E) + i] = Result(a, s[i])
  /\ \A i \in (Len(E) + 1)..Len(F) : F[i].head = 0 /\ F[i].of = a /\ F[i].kind = "result"

\* The results of some calls appended to a transcript.
LEMMA ResultsFollow ==
  ASSUME NEW E \in Seq(EntryRecord), NEW s \in Seq(Range(Calls)), NEW a \in Nat
  PROVE  LET F == E \o ResultsFor(a, s)
         IN Followed(E, F, a, s)
<1> DEFINE N == [i \in DOMAIN s |-> Result(a, s[i])]
           n == Len(E)
           m == Len(s)
           F == E \o N
<1>0. N = ResultsFor(a, s)
  BY DEF ResultsFor
<1>1. n \in Nat /\ m \in Nat /\ DOMAIN s = 1..m /\ DOMAIN E = 1..n
  OBVIOUS
<1>2. ASSUME NEW i \in 1..m
      PROVE  N[i] = Result(a, s[i]) /\ N[i] \in EntryRecord /\ N[i].head = 0 /\ N[i].of = a /\ N[i].kind = "result"
  <2> DEFINE e == Result(a, s[i])
  <2>1. N[i] = e /\ s[i] \in Range(Calls)
    BY <1>1
  <2>2. e \in EntryRecord /\ e.head = 0 /\ e.of = a /\ e.kind = "result"
    BY <2>1, ResultFields
  <2> HIDE DEF N, e
  <2> QED BY <2>1, <2>2 DEF e
<1>3. N \in Seq(EntryRecord) /\ DOMAIN N = 1..m /\ Len(N) = m
  <2>1. DOMAIN N = 1..m /\ N = [i \in 1..m |-> N[i]]
    BY <1>1
  <2> HIDE DEF N
  <2>2. N \in [1..m -> EntryRecord]
    BY <1>2, <2>1
  <2> QED BY <1>1, <2>1, <2>2, IsSeq
<1> HIDE DEF N
<1>4. F \in Seq(EntryRecord) /\ Len(F) = n + m
      /\ (\A i \in 1..n : F[i] = E[i]) /\ \A i \in (n + 1)..(n + m) : F[i] = N[i - n]
  BY <1>1, <1>3
<1> HIDE DEF F, n, m
<1>5. \A i \in 1..m : n + i \in (n + 1)..(n + m) /\ (n + i) - n = i
  BY <1>1
<1>6. \A i \in (n + 1)..(n + m) : i - n \in 1..m
  BY <1>1
<1>7. \A i \in 1..m : F[n + i] = Result(a, s[i])
  BY <1>2, <1>4, <1>5
<1>8. ASSUME NEW i \in (n + 1)..(n + m) PROVE F[i].head = 0 /\ F[i].of = a /\ F[i].kind = "result"
  <2>1. F[i] = N[i - n] /\ i - n \in 1..m
    BY <1>4, <1>6
  <2> QED BY <1>2, <2>1
<1>9. n <= n + m
  BY <1>1
<1>10. Extends(E, F)
  BY <1>4, <1>9 DEF Extends, n
<1>11. Followed(E, F, a, s)
  BY <1>1, <1>4, <1>7, <1>8, <1>10 DEF Followed, n, m
<1> QED BY <1>0, <1>11 DEF F

\* A draft with entries that set no head.
LEMMA EntriesDraft ==
  ASSUME Orderly(Draft), NEW F \in Seq(EntryRecord), Extends(entries, F),
         \A i \in (Len(entries) + 1)..Len(F) : F[i].head = 0
  PROVE  LET D == [Draft EXCEPT !.entries = F]
         IN /\ Orderly(D) /\ D.subs = subs /\ D.users = <<>> /\ D.entries = F /\ RangeStart(F) = RangeStart(entries)
<1> DEFINE A == Draft
           D == [A EXCEPT !.entries = F]
<1>1. /\ Orderly(A) /\ A \in Drafts /\ A.subs = subs /\ A.users = <<>> /\ A.entries = entries
      /\ entries \in Seq(EntryRecord) /\ HeadsIn(entries)
  BY DraftFields
<1> HIDE DEF A
<1>2. D \in Drafts /\ D.subs = A.subs /\ D.users = A.users /\ D.entries = F /\ D.inbox = A.inbox
  BY <1>1 DEF Drafts
<1>3. Len(entries) <= Len(F) /\ Len(entries) \in Nat /\ \A i \in 1..Len(entries) : F[i] = entries[i]
  BY <1>1 DEF Extends
<1>4. HeadsIn(F)
  <2>1. DOMAIN F = 1..Len(F) /\ DOMAIN entries = 1..Len(entries) /\ Len(F) \in Nat
    BY <1>1
  <2> QED BY <1>1, <1>3, <2>1 DEF HeadsIn
<1>5. RangeStart(F) = RangeStart(entries)
  BY <1>1, <1>3, RangeKept
<1> HIDE DEF D
<1>6. Orderly(D)
  BY <1>1, <1>2, <1>3, <1>4, OrderlyEntries
<1> QED BY <1>1, <1>2, <1>5, <1>6 DEF D, A

\* A round that ends by answering the calls that never started.
LEMMA RoundsAbort ==
  ASSUME NEW E \in Seq(EntryRecord), NEW F \in Seq(EntryRecord), Extends(E, F),
         NEW G, NEW T, Linked(E, G, T), Answered(E, G, T),
         NEW g \in DOMAIN G, G[g].live, \A t \in DOMAIN T : ~T[t].live,
         NEW H, DOMAIN H = DOMAIN G, \A h \in DOMAIN G : h # g => H[h] = G[h],
         ~H[g].live, H[g].assistant = G[g].assistant, H[g].pending = <<>>,
         G[g].assistant \in Nat, G[g].pending \in Seq(Range(Calls)),
         Len(F) = Len(E) + Len(G[g].pending),
         \A i \in 1..Len(G[g].pending) : F[Len(E) + i] = Result(G[g].assistant, G[g].pending[i]),
         \A i \in (Len(E) + 1)..Len(F) : F[i].of = G[g].assistant
  PROVE  Linked(F, H, T) /\ Answered(F, H, T)
<1> DEFINE a == G[g].assistant
           s == G[g].pending
<1>1. Len(E) \in Nat /\ Len(s) \in Nat
  OBVIOUS
<1>2. (a = 0 => s = <<>>) /\ \A i, j \in DOMAIN s : s[i] = s[j] => i = j
  BY DEF Linked
<1>3. a = 0 => (Len(E) + 1)..Len(F) = {}
  BY <1>1, <1>2
<1>4. \A i \in (Len(E) + 1)..Len(F) : F[i].kind = "result" => F[i].of = G[g].assistant /\ G[g].assistant # 0
  BY <1>3
<1>5. ASSUME NEW c \in Range(Calls), a # 0
      PROVE  \/ Res(F, a, c) = Res(E, a, c) /\ (c \in Range(s) => H[g].outcome = "faulted")
             \/ c \in Range(s) /\ \E q : Res(F, a, c) = {q}
  <2>1. NoResult(E, a, s)
    <3>1. \A d \in Range(s) : d \in Range(Calls)
      BY DEF Range
    <3> QED BY <1>5, <3>1 DEF Answered, CallState, NoResult
  <2>2. a \in Nat /\ s \in Seq(Range(Calls)) /\ ResultsOn(E, F, a, s)
    BY <1>2 DEF ResultsOn
  <2> HIDE DEF a, s
  <2>3. NowAnswered(E, F, a, s, c)
    BY <2>1, <2>2, ResAnswers
  <2> QED BY <2>3 DEF NowAnswered
<1>6. G[g].assistant # 0 => \A c \in Range(Calls) :
            \/ /\ Res(F, G[g].assistant, c) = Res(E, G[g].assistant, c)
               /\ c \in Range(G[g].pending) => H[g].outcome = "faulted"
            \/ c \in Range(G[g].pending) /\ \E q : Res(F, G[g].assistant, c) = {q}
  BY <1>5
<1> QED BY <1>4, <1>6, RoundsEnd

\* The abort handler: the calls that never started are answered.
LEMMA GenerationAbortsStep == ASSUME Inv, NEW g \in DOMAIN gens, GenerationAborts(g) PROVE Sound
<1> DEFINE s == gens[g].pending
           a == gens[g].assistant
           F == entries \o [i \in DOMAIN s |-> Result(a, s[i])]
           D == [Draft EXCEPT !.entries = F]
           H == Ended(g, "aborted")
<1>1. Draft.entries = entries /\ Orderly(Draft) /\ entries \in Seq(EntryRecord)
  BY InvTypes, DraftFields
<1>2. Ready(g) /\ EndsUnanswered(g, D, "aborted", "aborted") /\ UNCHANGED <<tools, comps>> /\ used' \in Budget
  BY <1>1 DEF GenerationAborts, Inv
<1>3. s \in Seq(Range(Calls)) /\ a \in Nat /\ gens[g].live /\ "aborted" \in Settled
  <2>1. gens[g] \in GenerationTask
    BY InvTypes
  <2> QED BY <1>2, <2>1 DEF GenerationTask, Ready, Settled
<1>4. Linked(entries, gens, tools) /\ Answered(entries, gens, tools)
  BY DEF Inv
<1>5. /\ DOMAIN H = DOMAIN gens /\ \A h \in DOMAIN gens : h # g => H[h] = gens[h]
      /\ ~H[g].live /\ H[g].assistant = gens[g].assistant /\ H[g].pending = <<>>
  BY InvTypes, EndedFields
<1>6. \A t \in DOMAIN tools : ~tools[t].live
  BY <1>2, ReadyOwnsRun DEF Inv, Idle
<1>7. /\ F \in Seq(EntryRecord) /\ Len(F) = Len(entries) + Len(s) /\ Extends(entries, F) /\ Len(entries) \in Nat /\ Len(s) \in Nat
      /\ \A i \in 1..Len(s) : F[Len(entries) + i] = Result(a, s[i])
      /\ \A i \in (Len(entries) + 1)..Len(F) : F[i].head = 0 /\ F[i].of = a /\ F[i].kind = "result"
  <2>1. F = entries \o ResultsFor(a, s)
    BY DEF ResultsFor
  <2> HIDE DEF s, a, F
  <2>2. Followed(entries, F, a, s)
    BY <1>1, <1>3, <2>1, ResultsFollow
  <2> QED BY <2>2 DEF Followed
<1> HIDE DEF F, H
<1>11. Linked(F, H, tools) /\ Answered(F, H, tools)
  <2>1. /\ gens[g].assistant \in Nat /\ gens[g].pending \in Seq(Range(Calls))
        /\ Len(F) = Len(entries) + Len(gens[g].pending)
        /\ \A i \in 1..Len(gens[g].pending) : F[Len(entries) + i] = Result(gens[g].assistant, gens[g].pending[i])
        /\ \A i \in (Len(entries) + 1)..Len(F) : F[i].of = gens[g].assistant
    BY <1>3, <1>7
  <2>2. F \in Seq(EntryRecord) /\ Extends(entries, F) /\ gens[g].live
    BY <1>3, <1>7
  <2> HIDE DEF s, a
  <2> QED BY <1>1, <1>4, <1>5, <1>6, <2>1, <2>2, RoundsAbort
<1>12. /\ Orderly(D) /\ D.subs = subs /\ D.users = <<>> /\ D.entries = F /\ RangeStart(F) = RangeStart(entries)
  BY <1>1, <1>7, EntriesDraft
<1>13. EndsOn(g, "aborted", F)
  <2>1. RangeStart(entries) \in 0..Len(entries)
    BY InvTypes, RangeWithin
  <2>2. RangeStart(entries) <= RangeStart(F) /\ Len(entries) <= Len(F)
    BY <1>7, <1>12, <2>1
  <2> QED BY <1>11, <2>2 DEF EndsOn, H
<1> HIDE DEF D
<1>14. EndsOn(g, "aborted", D.entries)
  BY <1>12, <1>13
<1> QED BY <1>2, <1>3, <1>12, <1>14, UnansweredStep

\* Nothing but a boundary after entries without results.
LEMMA ResultlessTrans ==
  ASSUME NEW E \in Seq(EntryRecord), NEW F \in Seq(EntryRecord), NEW K \in Seq(EntryRecord),
         Resultless(E, F), Resultless(F, K)
  PROVE  Resultless(E, K)
<1> DEFINE n == Len(E)
           m == Len(F)
           l == Len(K)
<1>1. n \in Nat /\ m \in Nat /\ l \in Nat /\ n <= m /\ m <= l
  BY DEF Resultless, Extends
<1>2. /\ \A i \in 1..n : F[i] = E[i]
      /\ \A i \in 1..m : K[i] = F[i]
      /\ \A i \in (n + 1)..m : F[i].kind # "result"
      /\ \A i \in (m + 1)..l : K[i].kind # "result"
  BY DEF Resultless, Extends
<1> HIDE DEF n, m, l
<1>3. /\ n <= l /\ \A i \in 1..n : i \in 1..m
      /\ \A i \in (n + 1)..l : i \in (m + 1)..l \/ (i \in (n + 1)..m /\ i \in 1..m)
  BY <1>1
<1>4. n <= l /\ (\A i \in 1..n : K[i] = E[i]) /\ \A i \in (n + 1)..l : K[i].kind # "result"
  BY <1>2, <1>3
<1> QED BY <1>4 DEF Resultless, Extends, n, l

\* applyBoundary in a commit that ends the generation of the run.
LEMMA BoundaryEnds ==
  ASSUME Inv, NEW g \in DOMAIN gens, Ready(g), gens[g].pending = <<>>,
         NEW D, Orderly(D), D.subs = subs, Resultless(entries, D.entries), RangeStart(entries) <= RangeStart(D.entries),
         NEW at, NEW modes
  PROVE  LET B == Boundary(D, at, modes)
         IN /\ Orderly(B) /\ Joins(B) /\ EndsOn(g, "completed", B.entries)
            /\ B.entries \in Seq(EntryRecord) /\ Resultless(entries, B.entries) /\ RangeStart(entries) <= RangeStart(B.entries)
<1> DEFINE B == Boundary(D, at, modes)
<1>1. Places(D, B)
  BY BoundarySpec
<1> HIDE DEF B
<1>2. Orderly(B) /\ Neutral(D.entries, B.entries)
  BY <1>1 DEF Places
<1>3. D.entries \in Seq(EntryRecord) /\ B.entries \in Seq(EntryRecord) /\ HeadsIn(D.entries) /\ HeadsIn(B.entries)
  BY <1>2 DEF Orderly, Drafts
<1>4. entries \in Seq(EntryRecord) /\ HeadsIn(entries) /\ Inputs(subs, run.inputs)
  BY InvTypes
<1>5. Resultless(D.entries, B.entries)
  BY <1>2, <1>3, NeutralResultless
<1>6. Resultless(entries, B.entries)
  <2> DEFINE F == D.entries
             K == B.entries
  <2>1. F \in Seq(EntryRecord) /\ K \in Seq(EntryRecord) /\ Resultless(entries, F) /\ Resultless(F, K)
    BY <1>3, <1>5
  <2> HIDE DEF F, K
  <2>2. Resultless(entries, K)
    BY <1>4, <2>1, ResultlessTrans
  <2> QED BY <2>2 DEF K
<1>7. RangeStart(entries) <= RangeStart(B.entries)
  <2>1. /\ RangeStart(entries) \in Nat /\ RangeStart(D.entries) \in Nat /\ RangeStart(B.entries) \in Nat
    <3>1. RangeStart(entries) \in 0..Len(entries)
      BY <1>4, RangeWithin
    <3>2. RangeStart(D.entries) \in 0..Len(D.entries)
      BY <1>3, RangeWithin
    <3>3. RangeStart(B.entries) \in 0..Len(B.entries)
      BY <1>3, RangeWithin
    <3> QED BY <3>1, <3>2, <3>3
  <2>2. RangeStart(D.entries) <= RangeStart(B.entries)
    BY <1>2 DEF Neutral
  <2> QED BY <2>1, <2>2
<1>8. Joins(B)
  <2> DEFINE ins == run.inputs
  <2>1. Inputs(D.subs, ins)
    BY <1>4
  <2> HIDE DEF ins
  <2>2. /\ B.users \in Seq(Nat)
        /\ \A i, j \in DOMAIN B.users : B.users[i] = B.users[j] => i = j
        /\ Range(ins) \cap Range(B.users) = {}
        /\ Range(ins) \cup Range(B.users) = {id \in DOMAIN B.subs : B.subs[id].status = "placed"}
    BY <1>1, <2>1, PlacedInputs
  <2> QED BY <2>2 DEF Joins, ins
<1>9. EndsOn(g, "completed", B.entries)
  BY <1>3, <1>6, <1>7, EndsResultless
<1> QED BY <1>2, <1>3, <1>6, <1>7, <1>8, <1>9 DEF B

\* One more entry that is no result.
LEMMA ResultlessAppend ==
  ASSUME NEW E \in Seq(EntryRecord), NEW e \in EntryRecord, e.kind # "result"
  PROVE  Append(E, e) \in Seq(EntryRecord) /\ Resultless(E, Append(E, e))
<1> DEFINE n == Len(E)
           F == Append(E, e)
<1>1. n \in Nat /\ F \in Seq(EntryRecord) /\ Len(F) = n + 1 /\ F[n + 1] = e /\ \A i \in 1..n : F[i] = E[i]
  OBVIOUS
<1> HIDE DEF n, F
<1>2. n <= n + 1 /\ \A i \in (n + 1)..(n + 1) : i = n + 1
  BY <1>1
<1>3. n <= Len(F) /\ (\A i \in 1..n : F[i] = E[i]) /\ \A i \in (n + 1)..Len(F) : F[i].kind # "result"
  BY <1>1, <1>2
<1>4. Resultless(E, F)
  BY <1>3 DEF Resultless, Extends, n
<1> QED BY <1>1, <1>4 DEF F

\* A draft after a response without calls.
LEMMA AnsweredDraft ==
  ASSUME Inv
  PROVE  LET D == AppendTo(Draft, AssistantEntry(<<>>))
         IN /\ Orderly(D) /\ D.subs = subs /\ Resultless(entries, D.entries)
            /\ RangeStart(entries) <= RangeStart(D.entries)
<1> DEFINE A == Draft
           e == AssistantEntry(<<>>)
           D == AppendTo(A, e)
<1>1. Orderly(A) /\ A.subs = subs /\ A.entries = entries /\ entries \in Seq(EntryRecord) /\ HeadsIn(entries)
  BY InvTypes, DraftFields
<1>2. e \in EntryRecord /\ e.kind # "result" /\ e.head = 0
  <2> DEFINE no == <<>>
             zero == 0
  <2>1. no \in Seq(Range(Calls)) /\ zero \in Nat
    OBVIOUS
  <2> HIDE DEF no, zero
  <2>2. LET x == Entry("assistant", zero, no, zero)
        IN x \in EntryRecord /\ x.kind = "assistant" /\ x.head = zero
    BY <2>1, EntryTyped
  <2> QED BY <2>2 DEF AssistantEntry, no, zero
<1> HIDE DEF A, e
<1>3. Orderly(D) /\ D.subs = A.subs /\ D.entries = Append(A.entries, e) /\ RangeStart(D.entries) = RangeStart(A.entries)
  BY <1>1, <1>2, OrderlyAppend
<1>4. Resultless(entries, D.entries)
  BY <1>1, <1>2, <1>3, ResultlessAppend
<1>5. RangeStart(entries) \in 0..Len(entries)
  BY <1>1, RangeWithin
<1>6. RangeStart(entries) <= RangeStart(D.entries)
  BY <1>1, <1>3, <1>5
<1> QED BY <1>1, <1>3, <1>4, <1>6 DEF D, A, e

\* An onYield continuation: one more user entry, and no input joins the run.
LEMMA ContinuedDraft ==
  ASSUME Inv, NEW g \in DOMAIN gens, Ready(g), gens[g].pending = <<>>,
         NEW B, Orderly(B), Joins(B), Resultless(entries, B.entries), RangeStart(entries) <= RangeStart(B.entries)
  PROVE  LET C == AppendTo(B, Entry("user", 0, <<>>, 0))
         IN Orderly(C) /\ Joins(C) /\ C.users = B.users /\ EndsOn(g, "completed", C.entries)
<1> DEFINE e == Entry("user", 0, <<>>, 0)
           C == AppendTo(B, e)
<1>1. e \in EntryRecord /\ e.kind # "result" /\ e.head = 0
  <2> DEFINE no == <<>>
             zero == 0
  <2>1. no \in Seq(Range(Calls)) /\ zero \in Nat
    OBVIOUS
  <2> HIDE DEF no, zero
  <2>2. LET x == Entry("user", zero, no, zero)
        IN x \in EntryRecord /\ x.kind = "user" /\ x.head = zero
    BY <2>1, EntryTyped
  <2> QED BY <2>2 DEF no, zero
<1> HIDE DEF e
<1>2. /\ Orderly(C) /\ C.subs = B.subs /\ C.users = B.users /\ C.entries = Append(B.entries, e)
      /\ RangeStart(C.entries) = RangeStart(B.entries)
  BY <1>1, OrderlyAppend
<1>3. B.entries \in Seq(EntryRecord) /\ C.entries \in Seq(EntryRecord)
  BY <1>2 DEF Orderly, Drafts
<1>4. Resultless(B.entries, C.entries)
  BY <1>1, <1>2, <1>3, ResultlessAppend
<1>5. entries \in Seq(EntryRecord)
  BY InvTypes
<1>6. Resultless(entries, C.entries) /\ RangeStart(entries) <= RangeStart(C.entries)
  <2> DEFINE F == B.entries
             K == C.entries
  <2>1. F \in Seq(EntryRecord) /\ K \in Seq(EntryRecord) /\ Resultless(entries, F) /\ Resultless(F, K)
    BY <1>3, <1>4
  <2> HIDE DEF F, K
  <2>2. Resultless(entries, K)
    BY <1>5, <2>1, ResultlessTrans
  <2> QED BY <1>2, <2>2 DEF K
<1> HIDE DEF C
<1>7. EndsOn(g, "completed", C.entries)
  BY <1>3, <1>6, EndsResultless
<1>8. Joins(C)
  BY <1>2 DEF Joins
<1> QED BY <1>2, <1>7, <1>8 DEF C, e

\* answer.
LEMMA AnswerStep == ASSUME Inv, NEW g \in DOMAIN gens, NEW modes, NEW continue \in BOOLEAN, Answer(g, modes, continue) PROVE Sound
<1> DEFINE D == AppendTo(Draft, AssistantEntry(<<>>))
           B == Boundary(D, "final", modes)
           C == AppendTo(B, Entry("user", 0, <<>>, 0))
<1>1. /\ Works(g, {"request", "poll"}) /\ UNCHANGED <<tools, comps>>
      /\ \/ B.users = <<>> /\ Commit(C) /\ HandOver(g, <<>>) /\ UNCHANGED slots
         \/ Commit(EndRun(B, g, "done")) /\ slots' = <<>> /\ StartRun(B.users, Ended(g, "completed"))
  BY DEF Answer
<1>2. Ready(g) /\ gens[g].pending = <<>>
  BY <1>1, WorksFields
<1>3. used' \in Budget
  <2>1. used \in Budget /\ used' = [used EXCEPT !.turns = @ + (IF continue THEN 1 ELSE 0)] /\ used'.turns <= MaxTurns
    BY DEF Answer, Inv
  <2>2. MaxTurns \in Nat
    BY ConversationAssumption
  <2> QED BY <2>1, <2>2 DEF Budget
<1>4. slots' \in Seq(Range(Calls))
  <2>1. slots' = slots \/ slots' = <<>>
    BY <1>1
  <2> DEFINE S == Seq(Range(Calls))
  <2>2. slots \in S /\ <<>> \in S
    BY DEF Inv
  <2> HIDE DEF S
  <2>3. slots' \in S
    BY <2>1, <2>2
  <2> QED BY <2>3 DEF S
<1>5. Orderly(D) /\ D.subs = subs /\ Resultless(entries, D.entries) /\ RangeStart(entries) <= RangeStart(D.entries)
  BY AnsweredDraft
<1> HIDE DEF D
<1>6. /\ Orderly(B) /\ Joins(B) /\ EndsOn(g, "completed", B.entries)
      /\ Resultless(entries, B.entries) /\ RangeStart(entries) <= RangeStart(B.entries)
  BY <1>2, <1>5, BoundaryEnds
<1> HIDE DEF B
<1>7. Orderly(C) /\ Joins(C) /\ C.users = B.users /\ EndsOn(g, "completed", C.entries)
  BY <1>2, <1>6, ContinuedDraft
<1> HIDE DEF C
<1>8. "done" \in Settled
  BY DEF Settled
<1>9. CASE B.users = <<>> /\ Commit(C) /\ HandOver(g, <<>>) /\ UNCHANGED slots
  <2>1. Commit(C) /\ HandOver(g, C.users)
    BY <1>7, <1>9
  <2> QED BY <1>1, <1>2, <1>3, <1>4, <1>7, <2>1, EndsStep
<1>10. CASE Commit(EndRun(B, g, "done")) /\ slots' = <<>> /\ StartRun(B.users, Ended(g, "completed"))
  BY <1>1, <1>2, <1>3, <1>4, <1>6, <1>8, <1>10, EndsStep
<1> QED BY <1>1, <1>9, <1>10

\* The draft a tool round ends with: a handoff resets the head.
LEMMA FinishDraft ==
  ASSUME Inv, NEW D, D = Draft \/ D = AppendTo(Draft, WriteEntry(Draft, -1))
  PROVE  /\ Orderly(D) /\ D.subs = subs /\ Resultless(entries, D.entries)
         /\ RangeStart(entries) <= RangeStart(D.entries)
<1> DEFINE A == Draft
           C == AppendTo(A, WriteEntry(A, -1))
<1>1. Orderly(A) /\ A.subs = subs /\ A.entries = entries /\ Neutral(entries, entries)
  BY InvTypes, DraftFields
<1>2. Orderly(C) /\ C.subs = A.subs /\ Neutral(A.entries, C.entries)
  <2> DEFINE h == -1
  <2>1. h \in Int /\ h \in -1..Len(A.entries) /\ ~IsStale(A, h)
    <3>1. Len(A.entries) \in Nat
      BY <1>1 DEF Orderly, Drafts
    <3> QED BY <3>1 DEF IsStale
  <2>2. C = AppendTo(A, WriteEntry(A, h))
    OBVIOUS
  <2> HIDE DEF h, A, C
  <2> QED BY <1>1, <2>1, <2>2, OrderlyWrite
<1>3. (D = A \/ D = C) /\ Neutral(entries, A.entries) /\ Neutral(entries, C.entries)
  BY <1>1, <1>2
<1> HIDE DEF A, C
<1>4. Orderly(D) /\ D.subs = subs /\ Neutral(entries, D.entries)
  BY <1>1, <1>2, <1>3
<1> QED BY <1>4, NeutralResultless DEF Neutral

\* The two drafts finishToolRound starts its boundary with, and its three ends.
LEMMA FinishesWith ==
  ASSUME NEW g, NEW modes, FinishToolRound(g, modes)
  PROVE  \E D, at : /\ D = Draft \/ D = AppendTo(Draft, WriteEntry(Draft, -1))
                    /\ LET B == Boundary(D, at, modes)
                       IN \/ Commit(EndRun(B, g, "done")) /\ StartRun(B.users, Ended(g, "completed"))
                          \/ Commit(EndRun(B, g, "reset")) /\ StartRun(B.users, Ended(g, "completed"))
                          \/ Commit(B) /\ HandOver(g, B.users)
<1> DEFINE round     == {t \in DOMAIN tools : tools[t].gen = g}
           controls  == {tools[t].control : t \in round}
           terminate == slots = <<>> /\ controls = {"terminate"}
           handoff   == "handoff" \in controls
           D == IF handoff THEN AppendTo(Draft, WriteEntry(Draft, -1)) ELSE Draft
           at == IF terminate \/ handoff THEN "final" ELSE "postTools"
           B == Boundary(D, at, modes)
<1>1. IF terminate \/ handoff \/ HasReset(inbox)
      THEN /\ Commit(EndRun(B, g, IF terminate \/ handoff THEN "done" ELSE "reset"))
           /\ StartRun(B.users, Ended(g, "completed"))
      ELSE Commit(B) /\ HandOver(g, B.users)
  BY DEF FinishToolRound
<1>2. D = Draft \/ D = AppendTo(Draft, WriteEntry(Draft, -1))
  OBVIOUS
<1> HIDE DEF terminate, handoff, D, at
<1>3. \/ Commit(EndRun(B, g, "done")) /\ StartRun(B.users, Ended(g, "completed"))
      \/ Commit(EndRun(B, g, "reset")) /\ StartRun(B.users, Ended(g, "completed"))
      \/ Commit(B) /\ HandOver(g, B.users)
  <2> HIDE DEF B
  <2> QED BY <1>1
<1> QED BY <1>2, <1>3

\* finishToolRound.
LEMMA FinishToolRoundStep == ASSUME Inv, NEW g \in DOMAIN gens, NEW modes, FinishToolRound(g, modes) PROVE Sound
<1>1. /\ Ready(g) /\ gens[g].pending = <<>> /\ UNCHANGED <<tools, comps>> /\ slots' \in Seq(Range(Calls)) /\ used' \in Budget
  BY DEF FinishToolRound, Works, Inv
<1>2. PICK D, at : /\ D = Draft \/ D = AppendTo(Draft, WriteEntry(Draft, -1))
                   /\ LET B == Boundary(D, at, modes)
                      IN \/ Commit(EndRun(B, g, "done")) /\ StartRun(B.users, Ended(g, "completed"))
                         \/ Commit(EndRun(B, g, "reset")) /\ StartRun(B.users, Ended(g, "completed"))
                         \/ Commit(B) /\ HandOver(g, B.users)
  BY FinishesWith
<1> DEFINE B == Boundary(D, at, modes)
<1>3. \/ Commit(EndRun(B, g, "done")) /\ StartRun(B.users, Ended(g, "completed"))
      \/ Commit(EndRun(B, g, "reset")) /\ StartRun(B.users, Ended(g, "completed"))
      \/ Commit(B) /\ HandOver(g, B.users)
  BY <1>2
<1>4. Orderly(D) /\ D.subs = subs /\ Resultless(entries, D.entries) /\ RangeStart(entries) <= RangeStart(D.entries)
  BY <1>2, FinishDraft
<1>5. Orderly(B) /\ Joins(B) /\ EndsOn(g, "completed", B.entries)
  BY <1>1, <1>4, BoundaryEnds
<1> HIDE DEF B
<1>6. "done" \in Settled /\ "reset" \in Settled
  BY DEF Settled
<1>7. CASE Commit(B) /\ HandOver(g, B.users)
  BY <1>1, <1>5, <1>7, EndsStep
<1>8. CASE Commit(EndRun(B, g, "done")) /\ StartRun(B.users, Ended(g, "completed"))
  BY <1>1, <1>5, <1>6, <1>8, EndsStep
<1>9. CASE Commit(EndRun(B, g, "reset")) /\ StartRun(B.users, Ended(g, "completed"))
  BY <1>1, <1>5, <1>6, <1>9, EndsStep
<1> QED BY <1>3, <1>7, <1>8, <1>9

\* The next calls of a round start: the run stays with its generation.
LEMMA BusyGo ==
  ASSUME NEW r, NEW G, NEW T, NEW C, Busy(r, G, T, C), NEW g \in DOMAIN G, G[g].live,
         NEW H \in Seq(GenerationTask), DOMAIN H = DOMAIN G, \A h \in DOMAIN G : h # g => H[h] = G[h], H[g].live,
         NEW U, NEW a, NEW s, AddsTools(T, U, g, a, s)
  PROVE  Busy(r, H, U, C)
<1>1. r.task = g
  BY DEF Busy
<1>2. \A h \in DOMAIN H : H[h].live <=> h = r.task
  BY <1>1 DEF Busy
<1>3. ASSUME NEW t \in DOMAIN U, U[t].live PROVE U[t].gen = r.task
  <2>1. CASE t \in DOMAIN T
    BY <1>3, <2>1 DEF AddsTools, Busy
  <2>2. CASE t \notin DOMAIN T
    BY <1>1, <2>2 DEF AddsTools
  <2> QED BY <2>1, <2>2
<1> QED BY <1>2, <1>3 DEF Busy

\* New tasks have not run.
LEMMA OnceGo ==
  ASSUME NEW T, Once(T), NEW U, NEW g, NEW a, NEW s, AddsTools(T, U, g, a, s)
  PROVE  U \in Seq(ToolTask) /\ Once(U)
<1>1. ASSUME NEW t \in DOMAIN U
      PROVE  (U[t].call \notin SafeCalls => U[t].runs <= 1) /\ (U[t].phase = "call" => U[t].runs = 0)
  <2>1. CASE t \in DOMAIN T
    BY <2>1 DEF Once, AddsTools
  <2>2. CASE t \notin DOMAIN T
    BY <2>2 DEF AddsTools
  <2> QED BY <2>1, <2>2
<1> QED BY <1>1 DEF Once, AddsTools

\* A step that starts calls of a round.
LEMMA GoStep ==
  ASSUME Inv, NEW g \in DOMAIN gens, gens[g].live, UNCHANGED <<run, comps>>,
         slots' \in Seq(Range(Calls)), used' \in Budget,
         Ledger', entries' \in Seq(EntryRecord), Len(entries) <= Len(entries'), RangeStart(entries') = RangeStart(entries),
         NEW H \in Seq(GenerationTask), gens' = H, DOMAIN H = DOMAIN gens, \A h \in DOMAIN gens : h # g => H[h] = gens[h],
         H[g].live, H[g].compacted = gens[g].compacted,
         NEW U, tools' = U, NEW a, NEW s, AddsTools(tools, U, g, a, s),
         Linked(entries', H, U), Answered(entries', H, U)
  PROVE  Sound
<1>1. Busy(run, H, U, comps)
  BY BusyGo DEF Inv
<1>2. U \in Seq(ToolTask) /\ Once(U)
  BY OnceGo DEF Inv
<1>3. Comps(entries', H, comps)
  <2>1. entries \in Seq(EntryRecord) /\ comps \in Seq(CompactionTask) /\ Comps(entries, gens, comps)
    BY InvTypes DEF Inv
  <2>2. CompsKeep(comps, comps)
    BY <2>1, KeepRefl
  <2>3. \A h \in DOMAIN gens : H[h].compacted = gens[h].compacted
    OBVIOUS
  <2> QED BY <2>1, <2>2, <2>3, CompsStay
<1>4. RangeStart(entries') >= RangeStart(entries)
  <2>1. RangeStart(entries) \in 0..Len(entries)
    BY InvTypes, RangeWithin
  <2> QED BY <2>1
<1>5. Inv'
  BY <1>1, <1>2, <1>3 DEF Inv
<1> QED BY <1>4, <1>5 DEF Sound

\* The round when its next call starts.
LEMMA RoundsNext ==
  ASSUME NEW E \in Seq(EntryRecord), NEW G \in Seq(GenerationTask), NEW T, Linked(E, G, T), Answered(E, G, T),
         NEW g \in DOMAIN G, G[g].live, G[g].assistant # 0, G[g].pending # <<>>,
         NEW H, DOMAIN H = DOMAIN G, \A h \in DOMAIN G : h # g => H[h] = G[h],
         H[g].live, H[g].phase = "tools", H[g].assistant = G[g].assistant, H[g].pending = Tail(G[g].pending),
         NEW U, AddsTools(T, U, g, G[g].assistant, <<Head(G[g].pending)>>)
  PROVE  Linked(E, H, U) /\ Answered(E, H, U)
<1> DEFINE a == G[g].assistant
           p == G[g].pending
           s == <<Head(p)>>
           q == Tail(p)
<1>1. p \in Seq(Range(Calls)) /\ p # <<>> /\ \A i, j \in DOMAIN p : p[i] = p[j] => i = j
  <2>1. G[g] \in GenerationTask
    OBVIOUS
  <2> QED BY <2>1 DEF GenerationTask, Linked
<1>2. /\ q \in Seq(Range(Calls)) /\ \A i, j \in DOMAIN q : q[i] = q[j] => i = j
      /\ Head(p) \notin Range(q) /\ Range(p) = Range(q) \cup {Head(p)} /\ Range(s) = {Head(p)}
  <2> HIDE DEF p
  <2> QED BY <1>1, TailOf
<1>3. /\ a # 0 /\ a \in DOMAIN E /\ AddsTools(T, U, g, a, s) /\ H[g].assistant = a /\ H[g].pending = q
      /\ \A h \in DOMAIN G : h # g => G[h].assistant # a
      /\ \A t \in DOMAIN T : T[t].gen = g => T[t].assistant = a
  BY DEF Linked
<1>4. ASSUME NEW c \in Range(Calls)
      PROVE  LET R == Res(E, a, c) K == TasksOf(T, g, c) IN
             /\ c \in Range(s) => R = {} /\ K = {} /\ c \notin Range(q)
             /\ \A x, y \in R : x = y
             /\ c \in Range(q) => R = {} /\ K = {}
             /\ \A t \in K : IF T[t].live THEN R = {} ELSE T[t].outcome = "faulted" \/ R # {}
             /\ c \in Range(E[a].calls) => c \in Range(s) \/ c \in Range(q) \/ K # {} \/ R # {}
  <2> DEFINE R == Res(E, a, c)
             K == TasksOf(T, g, c)
  <2>1. CallState(E, G, T, g, c)
    BY <1>3 DEF Answered
  <2>2. /\ \A x, y \in R : x = y
        /\ c \in Range(p) => R = {} /\ K = {}
        /\ \A t \in K : IF T[t].live THEN R = {} ELSE T[t].outcome = "faulted" \/ R # {}
        /\ c \in Range(E[a].calls) => c \in Range(p) \/ K # {} \/ R # {}
    BY <2>1 DEF CallState
  <2> HIDE DEF R, K, s, q, p
  <2> QED BY <1>2, <2>2 DEF R, K
<1>5. Len(E) \in Nat /\ Extends(E, E)
  BY DEF Extends
<1>6. \A i \in (Len(E) + 1)..Len(E) : E[i].kind = "result" => E[i].of = a /\ a < i
  BY <1>5
<1>7. \A i, j \in DOMAIN H[g].pending : H[g].pending[i] = H[g].pending[j] => i = j
  <2> HIDE DEF q
  <2> QED BY <1>2, <1>3
<1>8. \A c \in Range(Calls) : LET R == Res(E, a, c) K == TasksOf(T, g, c) IN
           /\ c \in Range(s) => R = {} /\ K = {} /\ c \notin Range(H[g].pending)
           /\ \A r, x \in R : r = x
           /\ c \in Range(H[g].pending) => R = {} /\ K = {}
           /\ \A t \in K : IF T[t].live THEN R = {} ELSE T[t].outcome = "faulted" \/ R # {}
           /\ c \in Range(E[a].calls) => c \in Range(s) \/ c \in Range(H[g].pending) \/ K # {} \/ R # {}
  BY <1>3, <1>4
<1>9. GoesOn(E, E, G, H, T, g, a, s)
  BY <1>3, <1>6, <1>7, <1>8 DEF GoesOn
<1> HIDE DEF a, s, p, q
<1> QED BY <1>3, <1>5, <1>9, RoundsGo

\* The task of one call, after those there are.
LEMMA AddsOneTool ==
  ASSUME NEW T \in Seq(ToolTask), NEW g \in Nat, NEW a \in Nat, NEW c \in Range(Calls)
  PROVE  AddsTools(T, Append(T, NewTool(g, a, c)), g, a, <<c>>)
<1> DEFINE x == NewTool(g, a, c)
           n == Len(T)
           U == Append(T, x)
           s == <<c>>
<1>1. /\ x \in ToolTask /\ x.gen = g /\ x.assistant = a /\ x.call = c /\ x.live /\ x.phase = "call" /\ x.runs = 0
  BY NewToolFields
<1>2. Range(s) = {c}
  BY DEF Range
<1> HIDE DEF x, s
<1>3. /\ n \in Nat /\ U \in Seq(ToolTask) /\ DOMAIN T = 1..n /\ DOMAIN U = 1..(n + 1)
      /\ (\A t \in 1..n : U[t] = T[t]) /\ U[n + 1] = x
  BY <1>1
<1> HIDE DEF U, n
<1>4. 1..n \subseteq 1..(n + 1) /\ (1..(n + 1)) \ (1..n) = {n + 1}
  BY <1>3
<1>5. DOMAIN U \ DOMAIN T = {n + 1} /\ DOMAIN T \subseteq DOMAIN U /\ \A t \in DOMAIN T : U[t] = T[t]
  BY <1>3, <1>4
<1>6. AddsTools(T, U, g, a, s)
  BY <1>1, <1>2, <1>3, <1>5 DEF AddsTools
<1> QED BY <1>6 DEF U, x, s

\* The next call of a sequential round.
LEMMA NextCallStep == ASSUME Inv, NEW g \in DOMAIN gens, NextCall(g) PROVE Sound
<1> DEFINE z == gens[g]
           y == [z EXCEPT !.pending = Tail(z.pending)]
           H == [gens EXCEPT ![g] = y]
           a == z.assistant
           c == Head(z.pending)
           U == Append(tools, NewTool(g, a, c))
<1>1. /\ Ready(g) /\ z.phase = "tools" /\ z.pending # <<>> /\ tools' = U
      /\ UNCHANGED <<table, run, slots, comps, used>>
  BY DEF NextCall, Works
<1>2. gens' = H
  BY DEF NextCall
<1>3. z \in GenerationTask /\ gens \in Seq(GenerationTask) /\ tools \in Seq(ToolTask) /\ z.live /\ g \in Nat
      /\ entries \in Seq(EntryRecord)
  BY <1>1, InvTypes DEF Ready
<1>4. /\ Linked(entries, gens, tools) /\ Answered(entries, gens, tools)
  BY DEF Inv
<1>5. /\ z.pending \in Seq(Range(Calls)) /\ z.assistant \in Nat /\ z.assistant # 0
      /\ \A i, j \in DOMAIN z.pending : z.pending[i] = z.pending[j] => i = j
  <2>1. z.pending \in Seq(Range(Calls)) /\ z.assistant \in Nat
    BY <1>3 DEF GenerationTask
  <2> QED BY <1>1, <1>3, <1>4, <2>1 DEF Linked
<1>6. Tail(z.pending) \in Seq(Range(Calls)) /\ c \in Range(Calls)
  <2> DEFINE p == z.pending
             S == Range(Calls)
  <2>1. p \in Seq(S) /\ p # <<>> /\ \A i, j \in DOMAIN p : p[i] = p[j] => i = j
    BY <1>1, <1>5
  <2> HIDE DEF p, S
  <2>2. Tail(p) \in Seq(S) /\ Head(p) \in S
    BY <2>1, TailOf
  <2> QED BY <2>2 DEF p, S
<1>7. /\ y \in GenerationTask /\ y.live /\ y.phase = "tools" /\ y.assistant = z.assistant /\ y.pending = Tail(z.pending)
      /\ y.compacted = z.compacted
  <2> HIDE DEF z
  <2> QED BY <1>1, <1>3, <1>6 DEF GenerationTask
<1>8. AddsTools(tools, U, g, a, <<c>>)
  <2> HIDE DEF a, c
  <2> QED BY <1>3, <1>5, <1>6, AddsOneTool DEF a
<1> HIDE DEF y, U
<1>9. H \in Seq(GenerationTask) /\ DOMAIN H = DOMAIN gens /\ H[g] = y /\ \A h \in DOMAIN gens : h # g => H[h] = gens[h]
  <2> HIDE DEF z
  <2> QED BY <1>3, <1>7, SeqUpdate
<1> HIDE DEF H
<1>10. Linked(entries, H, U) /\ Answered(entries, H, U)
  <2>1. /\ gens[g].live /\ gens[g].assistant # 0 /\ gens[g].pending # <<>>
        /\ H[g].live /\ H[g].phase = "tools" /\ H[g].assistant = gens[g].assistant /\ H[g].pending = Tail(gens[g].pending)
        /\ AddsTools(tools, U, g, gens[g].assistant, <<Head(gens[g].pending)>>)
    BY <1>1, <1>3, <1>5, <1>7, <1>8, <1>9
  <2> HIDE DEF z
  <2> QED BY <1>3, <1>4, <1>9, <2>1, RoundsNext
<1>11. Ledger' /\ entries' = entries /\ slots' \in Seq(Range(Calls)) /\ used' \in Budget
  BY <1>1, SameLedger DEF Inv
<1>12. Len(entries) <= Len(entries') /\ RangeStart(entries') = RangeStart(entries) /\ entries' \in Seq(EntryRecord)
  BY <1>3, <1>11
<1>13. gens[g].live /\ H[g].live /\ H[g].compacted = gens[g].compacted
  BY <1>3, <1>7, <1>9
<1>14. Linked(entries', H, U) /\ Answered(entries', H, U)
  BY <1>10, <1>11
<1> DEFINE s == <<c>>
<1>15. AddsTools(tools, U, g, a, s) /\ UNCHANGED <<run, comps>>
  BY <1>1, <1>8
<1> HIDE DEF s, a
<1> QED BY <1>1, <1>2, <1>9, <1>11, <1>12, <1>13, <1>14, <1>15, GoStep

\* Only keeps distinct elements distinct.
LEMMA OnlyDistinct ==
  ASSUME NEW S, NEW s \in Seq(S), \A i, j \in DOMAIN s : s[i] = s[j] => i = j, NEW P
  PROVE  LET r == Only(s, P) IN r \in Seq(S) /\ \A i, j \in DOMAIN r : r[i] = r[j] => i = j
<1> DEFINE r == Only(s, P)
<1>1. r \in Seq(S)
  BY OnlySpec
<1>2. PICK p : Picks(r, s, P, Len(s), p)
  BY OnlySpec
<1> HIDE DEF r
<1>3. DOMAIN r = 1..Len(r) /\ DOMAIN s = 1..Len(s) /\ Len(r) \in Nat /\ Len(s) \in Nat
  BY <1>1
<1>4. ASSUME NEW i \in DOMAIN r, NEW j \in DOMAIN r, r[i] = r[j] PROVE i = j
  <2>1. /\ p[i] \in DOMAIN s /\ p[j] \in DOMAIN s /\ r[i] = s[p[i]] /\ r[j] = s[p[j]]
        /\ (i < j => p[i] < p[j]) /\ (j < i => p[j] < p[i])
    BY <1>2, <1>3 DEF Picks
  <2>2. p[i] = p[j]
    BY <1>4, <2>1
  <2>3. i \in Int /\ j \in Int /\ p[i] \in Int /\ p[j] \in Int
    BY <1>3, <2>1
  <2> QED BY <2>1, <2>2, <2>3
<1> QED BY <1>1, <1>4 DEF r

\* The calls of a response: those not offered, those that start now, the rest.
Splits(cs, ms, now, pd) ==
  /\ cs \in Seq(Range(Calls)) /\ ms \in Seq(Range(Calls)) /\ now \in Seq(Range(Calls)) /\ pd \in Seq(Range(Calls))
  /\ \A i, j \in DOMAIN ms : ms[i] = ms[j] => i = j
  /\ \A i, j \in DOMAIN now : now[i] = now[j] => i = j
  /\ \A i, j \in DOMAIN pd : pd[i] = pd[j] => i = j
  /\ Range(ms) \cap Range(now) = {} /\ Range(ms) \cap Range(pd) = {} /\ Range(now) \cap Range(pd) = {}
  /\ Range(cs) \subseteq Range(ms) \cup Range(now) \cup Range(pd)

\* What startToolRound does with the calls of a response.
LEMMA SplitsSpec ==
  ASSUME NEW cs \in Seq(Range(Calls)), \A i, j \in DOMAIN cs : cs[i] = cs[j] => i = j, NEW offered, NEW sequential \in BOOLEAN
  PROVE  LET missing == Only(cs, {i \in DOMAIN cs : cs[i] \notin offered})
             wanted  == Only(cs, {i \in DOMAIN cs : cs[i] \in offered})
             now     == IF sequential /\ wanted # <<>> THEN <<Head(wanted)>> ELSE wanted
             pending == IF sequential /\ wanted # <<>> THEN Tail(wanted) ELSE <<>>
         IN Splits(cs, missing, now, pending)
<1> DEFINE S == Range(Calls)
           P == {i \in DOMAIN cs : cs[i] \notin offered}
           Q == {i \in DOMAIN cs : cs[i] \in offered}
           ms == Only(cs, P)
           w == Only(cs, Q)
           now == IF sequential /\ w # <<>> THEN <<Head(w)>> ELSE w
           pd == IF sequential /\ w # <<>> THEN Tail(w) ELSE <<>>
<1>1. cs \in Seq(S)
  OBVIOUS
<1> HIDE DEF S
<1>2. /\ ms \in Seq(S) /\ (\A i, j \in DOMAIN ms : ms[i] = ms[j] => i = j)
      /\ w \in Seq(S) /\ \A i, j \in DOMAIN w : w[i] = w[j] => i = j
  <2> HIDE DEF P, Q
  <2> QED BY <1>1, OnlyDistinct
<1>3. Range(ms) = {cs[i] : i \in DOMAIN cs \cap P} /\ Range(w) = {cs[i] : i \in DOMAIN cs \cap Q}
  <2> HIDE DEF P, Q
  <2> QED BY <1>1, OnlyRange
<1> HIDE DEF ms, w
<1>4. Range(ms) \cap Range(w) = {} /\ Range(cs) \subseteq Range(ms) \cup Range(w)
  <2>1. ASSUME NEW x \in Range(ms), x \in Range(w) PROVE FALSE
    BY <1>3, <2>1
  <2>2. ASSUME NEW x \in Range(cs) PROVE x \in Range(ms) \/ x \in Range(w)
    <3>1. PICK i \in DOMAIN cs : cs[i] = x
      BY DEF Range
    <3> QED BY <1>3, <3>1
  <2> QED BY <2>1, <2>2
<1> HIDE DEF P, Q
<1>5. CASE sequential /\ w # <<>>
  <2> DEFINE h == <<Head(w)>>
             q == Tail(w)
  <2>1. /\ q \in Seq(S) /\ h \in Seq(S) /\ (\A i, j \in DOMAIN q : q[i] = q[j] => i = j)
        /\ Head(w) \notin Range(q) /\ Range(w) = Range(q) \cup {Head(w)} /\ Range(h) = {Head(w)}
        /\ \A i, j \in DOMAIN h : i = j
    BY <1>2, <1>5, TailOf
  <2>2. now = h /\ pd = q
    BY <1>5
  <2> HIDE DEF h, q, now, pd
  <2>3. Range(ms) \cap Range(h) = {} /\ Range(ms) \cap Range(q) = {} /\ Range(h) \cap Range(q) = {}
        /\ Range(cs) \subseteq Range(ms) \cup Range(h) \cup Range(q)
    BY <1>4, <2>1
  <2> QED BY <1>1, <1>2, <2>1, <2>2, <2>3 DEF Splits, S, now, pd, ms, w, P, Q
<1>6. CASE ~(sequential /\ w # <<>>)
  <2> DEFINE q == <<>>
  <2>1. now = w /\ pd = q
    BY <1>6
  <2>2. q \in Seq(S) /\ Range(q) = {} /\ DOMAIN q = {}
    BY DEF Range
  <2> HIDE DEF q, now, pd
  <2>3. Range(ms) \cap Range(w) = {} /\ Range(ms) \cap Range(q) = {} /\ Range(w) \cap Range(q) = {}
        /\ Range(cs) \subseteq Range(ms) \cup Range(w) \cup Range(q)
    BY <1>4, <2>2
  <2> QED BY <1>1, <1>2, <2>1, <2>2, <2>3 DEF Splits, S, now, pd, ms, w, P, Q
<1> QED BY <1>5, <1>6

\* The transcript of a round that opens at 'a', with the results of 'ms'.
Opens(E, F, a, cs, ms) ==
  /\ a = Len(E) + 1 /\ Extends(E, F) /\ a \in DOMAIN F /\ F[a].calls = cs
  /\ \A i \in (Len(E) + 1)..Len(F) : F[i].head = 0 /\ (F[i].kind = "result" => F[i].of = a /\ a < i)
  /\ \A c : IF c \in Range(ms) THEN \E q : Res(F, a, c) = {q} ELSE Res(F, a, c) = {}

\* The response and the results of the calls that were not offered.
LEMMA OpensSpec ==
  ASSUME NEW E \in Seq(EntryRecord), \A r \in DOMAIN E : E[r].kind = "result" => E[r].of < r,
         NEW cs \in Seq(Range(Calls)), NEW ms \in Seq(Range(Calls)), \A i, j \in DOMAIN ms : ms[i] = ms[j] => i = j
  PROVE  LET a == Len(E) + 1
             F == Append(E, AssistantEntry(cs)) \o [i \in DOMAIN ms |-> Result(a, ms[i])]
         IN F \in Seq(EntryRecord) /\ Opens(E, F, a, cs, ms)
<1> DEFINE n == Len(E)
           a == n + 1
           e == AssistantEntry(cs)
           B == Append(E, e)
           F == B \o [i \in DOMAIN ms |-> Result(a, ms[i])]
<1>1. e \in EntryRecord /\ e.kind = "assistant" /\ e.calls = cs /\ e.head = 0
  <2> DEFINE zero == 0
  <2>1. zero \in Nat
    OBVIOUS
  <2> HIDE DEF zero
  <2>2. LET x == Entry("assistant", zero, cs, zero)
        IN x \in EntryRecord /\ x.kind = "assistant" /\ x.calls = cs /\ x.head = zero
    BY <2>1, EntryTyped
  <2> QED BY <2>2 DEF AssistantEntry, zero
<1> HIDE DEF e
<1>2. /\ n \in Nat /\ a \in Nat /\ B \in Seq(EntryRecord) /\ Len(B) = a /\ DOMAIN E = 1..n /\ DOMAIN B = 1..a
      /\ B[a] = e /\ \A i \in 1..n : B[i] = E[i]
  BY <1>1
<1> HIDE DEF B, a
<1>3. /\ F \in Seq(EntryRecord) /\ Len(F) = Len(B) + Len(ms) /\ Extends(B, F) /\ Len(ms) \in Nat
      /\ \A i \in 1..Len(ms) : F[Len(B) + i] = Result(a, ms[i])
      /\ \A i \in (Len(B) + 1)..Len(F) : F[i].head = 0 /\ F[i].of = a /\ F[i].kind = "result"
  <2>1. B \in Seq(EntryRecord) /\ a \in Nat
    BY <1>2
  <2>2. F = B \o ResultsFor(a, ms)
    BY DEF ResultsFor
  <2> HIDE DEF F
  <2>3. Followed(B, F, a, ms)
    BY <2>1, <2>2, ResultsFollow
  <2> QED BY <2>3 DEF Followed
<1> HIDE DEF F
<1>4. ResultsOn(B, F, a, ms)
  BY <1>3 DEF ResultsOn
<1>5. \A c : Res(B, a, c) = {}
  <2>1. ASSUME NEW r \in DOMAIN B PROVE ~(B[r].kind = "result" /\ B[r].of = a)
    <3>1. CASE r = a
      BY <1>1, <1>2, <3>1
    <3>2. CASE r # a
      <4>1. r \in 1..n /\ r < a
        BY <1>2, <3>2 DEF a
      <4>2. B[r] = E[r] /\ (E[r].kind = "result" => E[r].of < r)
        BY <1>2, <4>1
      <4>3. E[r].of \in Nat
        <5>1. E[r] \in EntryRecord
          BY <1>2, <4>1
        <5> QED BY <5>1 DEF EntryRecord
      <4> QED BY <1>2, <4>1, <4>2, <4>3
    <3> QED BY <3>1, <3>2
  <2> QED BY <2>1 DEF Res
<1>6. \A c : NowAnswered(B, F, a, ms, c)
  <2>1. NoResult(B, a, ms)
    BY <1>5 DEF NoResult
  <2> QED BY <1>2, <1>3, <1>4, <2>1, ResAnswers
<1>7. \A c : IF c \in Range(ms) THEN \E q : Res(F, a, c) = {q} ELSE Res(F, a, c) = {}
  BY <1>5, <1>6 DEF NowAnswered
<1>8. Len(F) \in Nat /\ DOMAIN F = 1..Len(F) /\ a <= Len(F) /\ n <= Len(F) /\ \A i \in 1..a : F[i] = B[i]
  BY <1>2, <1>3 DEF Extends, a
<1>9. F[a] = e /\ a \in DOMAIN F /\ \A i \in 1..n : F[i] = E[i]
  <2>1. a \in 1..a /\ a \in 1..Len(F) /\ \A i \in 1..n : i \in 1..a
    BY <1>2, <1>8 DEF a
  <2> QED BY <1>2, <1>8, <2>1
<1>10. ASSUME NEW i \in (n + 1)..Len(F) PROVE F[i].head = 0 /\ (F[i].kind = "result" => F[i].of = a /\ a < i)
  <2>1. CASE i = a
    BY <1>1, <1>9, <2>1
  <2>2. CASE i # a
    <3>1. i \in (a + 1)..Len(F) /\ a < i
      BY <1>2, <1>8, <2>2 DEF a
    <3> QED BY <1>2, <1>3, <3>1
  <2> QED BY <2>1, <2>2
<1>11. Extends(E, F)
  BY <1>8, <1>9 DEF Extends
<1>12. Opens(E, F, a, cs, ms)
  BY <1>1, <1>7, <1>9, <1>10, <1>11 DEF Opens, a
<1> QED BY <1>3, <1>12 DEF F, a, B, e

\* The round when it opens.
LEMMA RoundsOpen ==
  ASSUME NEW E \in Seq(EntryRecord), NEW F \in Seq(EntryRecord), NEW G, NEW T, Linked(E, G, T), Answered(E, G, T),
         NEW g \in DOMAIN G, G[g].assistant = 0, NEW a, NEW cs, NEW ms, NEW now, NEW pd,
         Opens(E, F, a, cs, ms), Splits(cs, ms, now, pd),
         NEW H, DOMAIN H = DOMAIN G, \A h \in DOMAIN G : h # g => H[h] = G[h],
         H[g].live, H[g].phase = "tools", H[g].assistant = a, H[g].pending = pd,
         NEW U, AddsTools(T, U, g, a, now)
  PROVE  Linked(F, H, U) /\ Answered(F, H, U)
<1> DEFINE n == Len(E)
<1>1. n \in Nat /\ DOMAIN E = 1..n /\ a = n + 1 /\ Extends(E, F) /\ a \in DOMAIN F /\ F[a].calls = cs
  BY DEF Opens
<1>2. a # 0 /\ a \notin DOMAIN E
  BY <1>1
<1>3. \A h \in DOMAIN G : G[h].assistant # a
  BY <1>2 DEF Linked
<1>4. \A t \in DOMAIN T : T[t].gen # g
  BY DEF Linked
<1>5. \A c : TasksOf(T, g, c) = {}
  BY <1>4 DEF TasksOf
<1>6. \A c : IF c \in Range(ms) THEN \E q : Res(F, a, c) = {q} ELSE Res(F, a, c) = {}
  BY DEF Opens
<1>7. /\ Range(ms) \cap Range(now) = {} /\ Range(ms) \cap Range(pd) = {} /\ Range(now) \cap Range(pd) = {}
      /\ Range(cs) \subseteq Range(ms) \cup Range(now) \cup Range(pd)
      /\ \A i, j \in DOMAIN pd : pd[i] = pd[j] => i = j
  BY DEF Splits
<1>8. ASSUME NEW c
      PROVE  LET R == Res(F, a, c) K == TasksOf(T, g, c) IN
             /\ c \in Range(now) => R = {} /\ K = {} /\ c \notin Range(pd)
             /\ \A r, q \in R : r = q
             /\ c \in Range(pd) => R = {} /\ K = {}
             /\ \A t \in K : IF T[t].live THEN R = {} ELSE T[t].outcome = "faulted" \/ R # {}
             /\ c \in Range(cs) => c \in Range(now) \/ c \in Range(pd) \/ K # {} \/ R # {}
  <2> DEFINE R == Res(F, a, c)
             K == TasksOf(T, g, c)
  <2>1. K = {} /\ (c \in Range(ms) => \E q : R = {q}) /\ (c \notin Range(ms) => R = {})
    BY <1>5, <1>6
  <2> HIDE DEF R, K
  <2>2. /\ c \in Range(now) => R = {} /\ K = {} /\ c \notin Range(pd)
        /\ \A r, q \in R : r = q
        /\ c \in Range(pd) => R = {} /\ K = {}
        /\ \A t \in K : IF T[t].live THEN R = {} ELSE T[t].outcome = "faulted" \/ R # {}
        /\ c \in Range(cs) => c \in Range(now) \/ c \in Range(pd) \/ K # {} \/ R # {}
    BY <1>7, <2>1
  <2> QED BY <2>2 DEF R, K
<1>9. \A i \in (Len(E) + 1)..Len(F) : F[i].kind = "result" => F[i].of = a /\ a < i
  BY DEF Opens
<1>10. GoesOn(E, F, G, H, T, g, a, now)
  BY <1>1, <1>2, <1>3, <1>4, <1>7, <1>8, <1>9 DEF GoesOn
<1> QED BY <1>1, <1>10, RoundsGo

\* startToolRound.
LEMMA StartToolRoundStep ==
  ASSUME Inv, NEW g \in DOMAIN gens, NEW cs \in Rounds, NEW offered, NEW sequential \in BOOLEAN,
         StartToolRound(g, cs, offered, sequential)
  PROVE  Sound
<1> DEFINE z == gens[g]
           a == Len(entries) + 1
           ms == Only(cs, {i \in DOMAIN cs : cs[i] \notin offered})
           w == Only(cs, {i \in DOMAIN cs : cs[i] \in offered})
           now == IF sequential /\ w # <<>> THEN <<Head(w)>> ELSE w
           pd == IF sequential /\ w # <<>> THEN Tail(w) ELSE <<>>
           F == Append(entries, AssistantEntry(cs)) \o [i \in DOMAIN ms |-> Result(a, ms[i])]
           D == [Draft EXCEPT !.entries = F]
           y == [z EXCEPT !.phase = "tools", !.assistant = a, !.pending = pd]
           H == [gens EXCEPT ![g] = y]
           U == tools \o [i \in DOMAIN now |-> NewTool(g, a, now[i])]
<1>1. Draft.entries = entries /\ Orderly(Draft) /\ entries \in Seq(EntryRecord)
  BY InvTypes, DraftFields
<1>2. /\ Works(g, {"request", "poll"}) /\ used.turns < MaxTurns /\ used' = [used EXCEPT !.turns = used.turns + 1]
      /\ Commit(D) /\ tools' = U /\ slots' = ms /\ gens' = H /\ UNCHANGED <<run, comps>>
  BY <1>1 DEF StartToolRound
<1>3. /\ Ready(g) /\ z \in GenerationTask /\ z.live /\ z.assistant = 0
  <2>1. Ready(g) /\ gens[g] \in GenerationTask /\ gens[g].assistant = 0
    BY <1>2, WorksFields
  <2> QED BY <2>1 DEF Ready
<1>4. cs \in Seq(Range(Calls)) /\ \A i, j \in DOMAIN cs : cs[i] = cs[j] => i = j
  <2>1. PICK n \in 1..Len(Calls) : cs = SubSeq(Calls, 1, n)
    BY DEF Rounds
  <2>2. Calls \in Seq(Range(Calls)) /\ \A i, j \in DOMAIN Calls : Calls[i] = Calls[j] => i = j
    BY ConversationAssumption
  <2>3. /\ cs \in Seq(Range(Calls)) /\ Len(cs) = n /\ DOMAIN cs = 1..n /\ 1..n \subseteq DOMAIN Calls
        /\ \A i \in 1..n : cs[i] = Calls[i]
    BY <2>1, <2>2
  <2> QED BY <2>2, <2>3
<1>5. Splits(cs, ms, now, pd)
  BY <1>4, SplitsSpec
<1> HIDE DEF ms, now, pd
<1>6. /\ ms \in Seq(Range(Calls)) /\ now \in Seq(Range(Calls)) /\ pd \in Seq(Range(Calls))
      /\ (\A i, j \in DOMAIN ms : ms[i] = ms[j] => i = j)
      /\ \A i, j \in DOMAIN now : now[i] = now[j] => i = j
  BY <1>5 DEF Splits
<1>7. Linked(entries, gens, tools) /\ Answered(entries, gens, tools) /\ tools \in Seq(ToolTask) /\ gens \in Seq(GenerationTask)
  BY InvTypes DEF Inv
<1>8. F \in Seq(EntryRecord) /\ Opens(entries, F, a, cs, ms)
  <2>1. \A r \in DOMAIN entries : entries[r].kind = "result" => entries[r].of < r
    BY <1>7 DEF Linked
  <2> QED BY <1>1, <1>4, <1>6, <2>1, OpensSpec
<1> HIDE DEF F
<1>9. a \in Nat /\ g \in Nat
  BY <1>1, <1>7
<1>10. AddsTools(tools, U, g, a, now)
  <2>1. U = tools \o ToolsFor(g, a, now)
    BY DEF ToolsFor
  <2> HIDE DEF a, U
  <2> QED BY <1>6, <1>7, <1>9, <2>1, AddsToolsSpec
<1> HIDE DEF U
<1>11. /\ y \in GenerationTask /\ y.live /\ y.phase = "tools" /\ y.assistant = a /\ y.pending = pd
       /\ y.compacted = z.compacted
  <2> HIDE DEF z, a
  <2> QED BY <1>3, <1>6, <1>9 DEF GenerationTask
<1> HIDE DEF y
<1>12. H \in Seq(GenerationTask) /\ DOMAIN H = DOMAIN gens /\ H[g] = y /\ \A h \in DOMAIN gens : h # g => H[h] = gens[h]
  BY <1>7, <1>11, SeqUpdate
<1> HIDE DEF H, a
<1>13. Linked(F, H, U) /\ Answered(F, H, U)
  <2>1. H[g].live /\ H[g].phase = "tools" /\ H[g].assistant = a /\ H[g].pending = pd /\ gens[g].assistant = 0
    BY <1>3, <1>11, <1>12
  <2> HIDE DEF z
  <2> QED BY <1>1, <1>5, <1>7, <1>8, <1>10, <1>12, <2>1, RoundsOpen
<1>14. Extends(entries, F) /\ \A i \in (Len(entries) + 1)..Len(F) : F[i].head = 0
  BY <1>8 DEF Opens
<1>15. Orderly(D) /\ D.subs = subs /\ D.entries = F /\ RangeStart(F) = RangeStart(entries)
  BY <1>1, <1>8, <1>14, EntriesDraft
<1> HIDE DEF D
<1>16. Orderly(Draft)' /\ subs' = D.subs /\ entries' = D.entries
  BY <1>2, <1>15, Committed
<1>17. Ledger'
  <2>1. Inputs(subs, run.inputs)
    BY InvTypes
  <2>2. Inputs(subs, run.inputs)'
    BY <1>2, <1>15, <1>16, <2>1 DEF Inputs
  <2> QED BY <1>16, <2>2 DEF Ledger
<1>18. Len(entries) <= Len(F)
  BY <1>14 DEF Extends
<1>19. used' \in Budget
  <2>1. used \in Budget /\ used.turns \in 0..MaxTurns /\ MaxTurns \in Nat
    BY ConversationAssumption DEF Inv, Budget
  <2> DEFINE n == used.turns + 1
  <2>2. n \in 0..MaxTurns /\ used' = [used EXCEPT !.turns = n]
    BY <1>2, <2>1
  <2> HIDE DEF n
  <2> QED BY <2>1, <2>2 DEF Budget
<1>20. /\ entries' \in Seq(EntryRecord) /\ Len(entries) <= Len(entries') /\ RangeStart(entries') = RangeStart(entries)
       /\ Linked(entries', H, U) /\ Answered(entries', H, U)
  BY <1>8, <1>13, <1>15, <1>16, <1>18
<1>21. gens[g].live /\ H[g].live /\ H[g].compacted = gens[g].compacted
  BY <1>3, <1>11, <1>12
<1>22. slots' \in Seq(Range(Calls)) /\ gens' = H /\ tools' = U /\ UNCHANGED <<run, comps>>
  BY <1>2, <1>6
<1> QED BY <1>10, <1>12, <1>17, <1>19, <1>20, <1>21, <1>22, GoStep

----------------------------------------------------------------------------
(* The theorems.                                                           *)

\* Nothing has happened yet.
LEMMA InitInv == Init => Inv
<1> SUFFICES ASSUME Init PROVE Inv
  OBVIOUS
<1> DEFINE no == <<>>
<1>1. /\ subs = no /\ inbox = no /\ entries = no /\ run = NoRun /\ slots = no /\ gens = no /\ tools = no /\ comps = no
      /\ used = [turns |-> 0, raw |-> 0, faults |-> 0]
  BY DEF Init
<1>2. /\ DOMAIN no = {} /\ Len(no) = 0 /\ (\A S : no \in Seq(S)) /\ Range(no) = {}
  BY DEF Range
<1>3. NoRun.task = 0 /\ NoRun.inputs = no /\ NoRun \in [task: Nat, inputs: Seq(Nat)]
  BY DEF NoRun
<1>4. used \in Budget
  BY <1>1, ConversationAssumption DEF Budget
<1> HIDE DEF no
<1>5. Orderly(Draft)
  <2> DEFINE D == Draft
  <2>1. D.subs = no /\ D.inbox = no /\ D.entries = no /\ D.users = no /\ D \in Drafts
    <3>1. D = [subs |-> no, inbox |-> no, entries |-> no, users |-> no]
      BY <1>1 DEF Draft, no
    <3> HIDE DEF D
    <3> QED BY <1>2, <3>1 DEF Drafts
  <2> HIDE DEF D
  <2>2. Orderly(D)
    BY <1>2, <2>1 DEF Orderly, HeadsIn
  <2> QED BY <2>2 DEF D
<1>6. Inputs(subs, run.inputs)
  BY <1>1, <1>2, <1>3 DEF Inputs
<1>7. Busy(run, gens, tools, comps)
  BY <1>1, <1>2, <1>3 DEF Busy
<1>8. Comps(entries, gens, comps) /\ Linked(entries, gens, tools) /\ Answered(entries, gens, tools) /\ Once(tools)
  BY <1>1, <1>2 DEF Comps, Linked, Answered, Once
<1> QED BY <1>1, <1>2, <1>4, <1>5, <1>6, <1>7, <1>8 DEF Inv, Ledger

\* The steps of hosts.
LEMMA HostSound == ASSUME Inv, Host PROVE Sound
<1>1. ASSUME NEW modes \in Modes, Submit("followUp", 0, modes) PROVE Sound
  BY <1>1, SubmitStep
<1>2. ASSUME NEW modes \in Modes, Submit("steer", 0, modes) PROVE Sound
  BY <1>2, SubmitStep
<1>3. ASSUME NEW modes \in Modes, Submit("write", -1, modes) PROVE Sound
  BY <1>3, SubmitStep
<1>4. ASSUME NEW id \in DOMAIN subs, Withdraw(id) PROVE Sound
  BY <1>4, WithdrawStep
<1>5. ASSUME NEW background \in BOOLEAN, AbortConversation(background) PROVE Sound
  BY <1>5, AbortConversationStep
<1>6. ASSUME NEW g \in DOMAIN gens, AbortTask(g) PROVE Sound
  BY <1>6, AbortTaskStep
<1>7. ASSUME Compact PROVE Sound
  BY <1>7, CompactStep
<1> QED BY <1>1, <1>2, <1>3, <1>4, <1>5, <1>6, <1>7 DEF Host

\* The steps of a generation.
LEMMA GenerationSound == ASSUME Inv, NEW g \in DOMAIN gens, Generation(g) PROVE Sound
<1>1. ASSUME Defer(g) PROVE Sound
  <2>1. /\ Works(g, {"request"}) /\ UNCHANGED <<table, run, slots, tools, comps, used>>
        /\ gens' = [gens EXCEPT ![g].phase = "poll"]
    BY <1>1 DEF Defer
  <2> QED BY <2>1, PhaseStep
<1>2. ASSUME Retry(g) PROVE Sound
  <2>1. /\ Works(g, {"retry"}) /\ UNCHANGED <<table, run, slots, tools, comps, used>>
        /\ gens' = [gens EXCEPT ![g].phase = "prepare", ![g].attempt = @ + 1]
    BY <1>2 DEF Retry
  <2> QED BY <2>1, PhaseStep
<1>3. ASSUME NEW modes \in Modes, NEW continue \in BOOLEAN, Answer(g, modes, continue) PROVE Sound
  BY <1>3, AnswerStep
<1>4. ASSUME NEW calls \in Rounds, NEW sequential \in (IF "sequential" \in Hosts THEN BOOLEAN ELSE {FALSE}),
             NEW offered \in (IF "unavailable" \in Hosts THEN SUBSET Range(calls) ELSE {Range(calls)}),
             StartToolRound(g, calls, offered, sequential)
      PROVE  Sound
  <2>1. sequential \in BOOLEAN
    OBVIOUS
  <2> QED BY <1>4, <2>1, StartToolRoundStep
<1>5. ASSUME NEW modes \in Modes, FinishToolRound(g, modes) PROVE Sound
  BY <1>5, FinishToolRoundStep
<1>6. ASSUME \/ PrepareFails(g) \/ PrepareCompacts(g) \/ Prepare(g) \/ Overflow(g) \/ Fails(g)
             \/ NextCall(g) \/ GenerationAborts(g)
      PROVE  Sound
  BY <1>6, PrepareFailsStep, PrepareCompactsStep, PrepareStep, OverflowStep, FailsStep, NextCallStep, GenerationAbortsStep
<1> QED BY <1>1, <1>2, <1>3, <1>4, <1>5, <1>6 DEF Generation

\* The steps of a tool.
LEMMA ToolSound == ASSUME Inv, NEW t \in DOMAIN tools, Tool(t) PROVE Sound
<1>1. ASSUME ToolRefuses(t) PROVE Sound
  BY <1>1, SettlesStep DEF ToolRefuses, ToolWorks
<1>2. ASSUME NEW outcome \in {"completed", "failed"}, NEW control \in {"none", "terminate", "handoff"},
             ToolReturns(t, outcome, control)
      PROVE  Sound
  BY <1>2, SettlesStep DEF ToolReturns, ToolWorks
<1>3. ASSUME ToolInterrupted(t) PROVE Sound
  BY <1>3, SettlesStep DEF ToolInterrupted, ToolWorks
<1>4. ASSUME ToolAborts(t) PROVE Sound
  BY <1>4, SettlesStep DEF ToolAborts
<1> QED BY <1>1, <1>2, <1>3, <1>4, ToolIntendsStep, ToolAppendsStep, ToolRerunsStep DEF Tool

\* Every step.
LEMMA NextSound == ASSUME Inv, [Next]_vars PROVE Inv' /\ [RangeStart(entries') >= RangeStart(entries)]_vars
<1>1. ASSUME Next PROVE Sound
  <2>1. ASSUME NEW c \in DOMAIN comps, Compaction(c) PROVE Sound
    BY <2>1, SelectStep, CompactionGivesUpStep, PlaceSummaryStep DEF Compaction
  <2> QED BY <1>1, <2>1, HostSound, ReconcileStep, CrashStep, GenerationSound, GenerationFaultsStep, ToolSound,
             ToolFaultsStep DEF Next
<1>2. ASSUME UNCHANGED vars PROVE Inv'
  BY <1>2 DEF vars, Inv, Ledger, Draft
<1> QED BY <1>1, <1>2 DEF Sound

\* What every state satisfies, and what no step does to the head of the
\* transcript: the inductive invariant of the conversation.
THEOREM ConversationInvariant == Spec => []Inv /\ HeadsOnlyAdvance
<1>1. Init => Inv
  BY InitInv
<1>2. Inv /\ [Next]_vars => Inv' /\ [RangeStart(entries') >= RangeStart(entries)]_vars
  BY NextSound
<1> QED BY <1>1, <1>2, PTL DEF Spec, HeadsOnlyAdvance

\* As many inputs as the sequence is long.
LEMMA CountInputs ==
  ASSUME NEW s \in Seq(Nat), \A i, j \in DOMAIN s : s[i] = s[j] => i = j
  PROVE  Cardinality(Range(s)) = Len(s)
<1> DEFINE n == Len(s)
           S == Range(s)
<1>1. n \in Nat /\ DOMAIN s = 1..n
  OBVIOUS
<1>2. s \in [1..n -> S] /\ (\A y \in S : \E i \in 1..n : s[i] = y)
  BY <1>1 DEF Range
<1>3. \A i, j \in 1..n : s[i] = s[j] => i = j
  BY <1>1
<1> HIDE DEF n, S
<1>4. s \in Bijection(1..n, S)
  BY <1>2, <1>3 DEF Bijection, Injection, Surjection, IsInjective
<1>5. ExistsBijection(1..n, S)
  BY <1>4 DEF ExistsBijection
<1>6. Cardinality(S) = n
  BY <1>1, <1>5, FS_CountingElements
<1> QED BY <1>6 DEF S, n

\* The records of the conversation keep their shapes.
THEOREM ConversationTyped == Spec => []TypeOK
<1>1. ASSUME Inv PROVE TypeOK
  <2>1. /\ subs \in Seq(SubmissionRecord) /\ inbox \in Seq(InboxItem) /\ entries \in Seq(EntryRecord) /\ HeadsIn(entries)
        /\ gens \in Seq(GenerationTask) /\ tools \in Seq(ToolTask) /\ comps \in Seq(CompactionTask) /\ Orderly(Draft)
        /\ \A t \in DOMAIN tools : tools[t] \in ToolTask
    BY <1>1, InvTypes
  <2>2. slots \in Seq(Range(Calls)) /\ used \in [turns: 0..MaxTurns, raw: 0..MaxRaw, faults: 0..MaxFaults]
    BY <1>1 DEF Inv, Budget
  <2>3. run \in [task: 0..Len(gens), inputs: Seq(Nat)]
    <3>1. run \in [task: Nat, inputs: Seq(Nat)] /\ (run.task # 0 => run.task \in DOMAIN gens)
      BY <1>1 DEF Inv, Busy
    <3>2. DOMAIN gens = 1..Len(gens) /\ Len(gens) \in Nat
      BY <2>1
    <3>3. run.task \in 0..Len(gens)
      BY <3>1, <3>2
    <3> QED BY <3>1, <3>3
  <2>4. \A i \in DOMAIN entries : entries[i].head <= i
    BY <2>1 DEF HeadsIn
  <2>5. \A i \in DOMAIN inbox : inbox[i].head \in -1..Len(entries)
    <3>1. Draft.inbox = inbox /\ Draft.entries = entries
      BY DraftFields
    <3>2. \A i \in DOMAIN Draft.inbox : Draft.inbox[i].head \in -1..Len(Draft.entries)
      BY <2>1 DEF Orderly
    <3> QED BY <3>1, <3>2
  <2>6. \A t \in DOMAIN tools : tools[t].gen \in DOMAIN gens /\ tools[t].assistant \in DOMAIN entries
    BY <1>1 DEF Inv, Linked
  <2>7. \A c \in DOMAIN comps : comps[c].owner \in DOMAIN gens \cup {0} /\ comps[c].kept \in 0..Len(entries)
    BY <1>1 DEF Inv, Comps
  <2> QED BY <2>1, <2>2, <2>3, <2>4, <2>5, <2>6, <2>7 DEF TypeOK
<1> QED BY <1>1, ConversationInvariant, PTL

\* No submission is lost, duplicated or settled twice: what is queued is in the
\* inbox, in order, and what is placed are the inputs of the run, each once.
THEOREM EverySubmissionAccounted == Spec => []SubmissionsAccounted
<1>1. ASSUME Inv PROVE SubmissionsAccounted
  <2>1. Orderly(Draft) /\ Draft.inbox = inbox /\ Draft.subs = subs /\ Inputs(subs, run.inputs)
    BY <1>1, InvTypes, DraftFields
  <2>2. /\ \A i \in DOMAIN inbox : inbox[i].id \in DOMAIN subs /\ subs[inbox[i].id].status = "queued"
        /\ \A id \in DOMAIN subs : subs[id].status = "queued" => \E i \in DOMAIN inbox : inbox[i].id = id
        /\ \A i, j \in DOMAIN inbox : i < j => inbox[i].id < inbox[j].id
    BY <2>1 DEF Orderly
  <2>3. {inbox[i].id : i \in DOMAIN inbox} = {id \in DOMAIN subs : subs[id].status = "queued"}
    BY <2>2
  <2>4. Range(run.inputs) = {id \in DOMAIN subs : subs[id].status = "placed"}
    BY <2>1 DEF Inputs
  <2>5. Cardinality(Range(run.inputs)) = Len(run.inputs)
    BY <2>1, CountInputs DEF Inputs
  <2> QED BY <2>2, <2>3, <2>4, <2>5 DEF SubmissionsAccounted
<1> QED BY <1>1, ConversationInvariant, PTL

\* The conversation is busy exactly while the generation that will settle its
\* run is live, and no tool or blocking compaction outlives that generation.
THEOREM RunOwnsItsWork == Spec => []RunHasItsGeneration
<1>1. ASSUME Inv PROVE RunHasItsGeneration
  <2>1. Busy(run, gens, tools, comps)
    BY <1>1 DEF Inv
  <2>2. {g \in DOMAIN gens : gens[g].live} = {run.task} \ {0}
    <3>1. 0 \notin DOMAIN gens
      BY <2>1 DEF Busy
    <3>2. run.task # 0 => run.task \in DOMAIN gens
      BY <2>1 DEF Busy
    <3>3. \A g \in DOMAIN gens : gens[g].live <=> g = run.task
      BY <2>1 DEF Busy
    <3> QED BY <3>1, <3>2, <3>3
  <2> QED BY <2>1, <2>2 DEF RunHasItsGeneration, Busy
<1> QED BY <1>1, ConversationInvariant, PTL

\* However often the process dies, a tool that may not be replayed executes at
\* most once for one call.
THEOREM UnsafeToolsRunOnce == Spec => []UnsafeRunsOnce
<1>1. Inv => UnsafeRunsOnce
  BY DEF Inv, Once, UnsafeRunsOnce
<1> QED BY <1>1, ConversationInvariant, PTL

\* A set without two members.
LEMMA AtMostOne == ASSUME NEW S, \A x, y \in S : x = y PROVE Cardinality(S) <= 1
<1>1. CASE S = {}
  BY <1>1, FS_EmptySet
<1>2. CASE S # {}
  <2>1. PICK x \in S : TRUE
    BY <1>2
  <2>2. S = {x}
    BY <2>1
  <2>3. Cardinality({x}) = 1
    BY FS_Singleton
  <2> QED BY <2>2, <2>3
<1> QED BY <1>1, <1>2

\* Every call of a finished round has one result, whatever was refused, aborted,
\* repeated or never started, unless its task or its generation faulted.
THEOREM EveryCallAnswered == Spec => []CallsAnswered
<1>1. ASSUME Inv PROVE CallsAnswered
  <2>1. SUFFICES ASSUME NEW g \in DOMAIN gens, gens[g].assistant # 0, NEW c \in Range(entries[gens[g].assistant].calls)
                 PROVE  LET results == ResultsOf(gens[g].assistant, c)
                            faulted == \/ gens[g].outcome = "faulted"
                                       \/ \E t \in DOMAIN tools : /\ tools[t].gen = g /\ tools[t].call = c
                                                                  /\ tools[t].outcome = "faulted"
                        IN Cardinality(results) <= 1 /\ (~gens[g].live /\ ~faulted => results # {})
    BY DEF CallsAnswered
  <2> DEFINE a == gens[g].assistant
             R == Res(entries, a, c)
             K == TasksOf(tools, g, c)
  <2>2. a \in DOMAIN entries /\ entries \in Seq(EntryRecord) /\ gens[g].assistant # 0
    BY <1>1, <2>1, InvTypes DEF Inv, Linked
  <2>3. c \in Range(Calls)
    <3>1. entries[a] \in EntryRecord
      BY <2>2
    <3>2. entries[a].calls \in Seq(Range(Calls))
      BY <3>1 DEF EntryRecord
    <3> QED BY <2>1, <3>2 DEF Range
  <2>4. CallState(entries, gens, tools, g, c)
    BY <1>1, <2>2, <2>3 DEF Inv, Answered
  <2>5. /\ \A r, q \in R : r = q
        /\ \A t \in K : IF tools[t].live THEN R = {} ELSE tools[t].outcome = "faulted" \/ R # {}
        /\ c \in Range(gens[g].pending) \/ K # {} \/ R # {} \/ (~gens[g].live /\ gens[g].outcome = "faulted")
    BY <2>1, <2>4 DEF CallState
  <2>6. R = ResultsOf(a, c)
    BY DEF Res, ResultsOf
  <2>7. ASSUME ~gens[g].live PROVE gens[g].pending = <<>> /\ \A t \in K : ~tools[t].live
    <3>1. gens[g].pending = <<>>
      BY <1>1, <2>7 DEF Inv, Linked
    <3>2. \A t \in DOMAIN tools : tools[t].gen = g => ~tools[t].live
      BY <1>1, <2>7 DEF Inv, Busy
    <3> QED BY <3>1, <3>2 DEF TasksOf
  <2>8. Range(<<>>) = {}
    BY DEF Range
  <2>9. K \subseteq {t \in DOMAIN tools : tools[t].gen = g /\ tools[t].call = c}
    BY DEF TasksOf
  <2> HIDE DEF R, K
  <2>10. Cardinality(R) <= 1
    BY <2>5, AtMostOne
  <2>11. ASSUME ~gens[g].live, gens[g].outcome # "faulted",
                \A t \in DOMAIN tools : tools[t].gen = g /\ tools[t].call = c => tools[t].outcome # "faulted"
         PROVE  R # {}
    <3>1. c \notin Range(gens[g].pending)
      BY <2>7, <2>8, <2>11
    <3>2. \A t \in K : ~tools[t].live /\ tools[t].outcome # "faulted"
      BY <2>7, <2>9, <2>11
    <3> QED BY <2>5, <2>11, <3>1, <3>2
  <2> QED BY <2>6, <2>10, <2>11
<1> QED BY <1>1, ConversationInvariant, PTL


----------------------------------------------------------------------------
(* A cut keeps each result with its call.  A tool that appends a message   *)
(* itself can be overtaken by a cut that another task selects in the       *)
(* middle of the round, so the last theorem is about conversations where   *)
(* no tool does, or where every compaction blocks its generation.          *)

Apart == MaxRaw = 0 \/ ("compact" \notin Hosts /\ "background" \notin Hosts)

\* The assistants of the rounds that are open.
OpenRounds(G) == {G[g].assistant : g \in {h \in DOMAIN G : G[h].live}} \ {0}

\* An assistant, and the last one up to a place.
Asked(E, a, m) ==
  /\ a \in DOMAIN E /\ E[a].kind = "assistant" /\ E[a].head = 0
  /\ \A j \in (a + 1)..m : E[j].kind # "assistant"

\* A result follows the assistant it answers before any other one does.
Answers(E) ==
  \A r \in DOMAIN E : E[r].kind = "result" => E[r].head = 0 /\ E[r].of < r /\ Asked(E, E[r].of, r)

\* Nothing that could be cut follows the assistant of an open round.
Asking(E, G) ==
  \A a \in OpenRounds(G) :
    Asked(E, a, Len(E)) /\ (MaxRaw = 0 => \A j \in (a + 1)..Len(E) : E[j].kind # "user")

\* Where tools append messages, no compaction works beside an open round.
Blocking(G, C) ==
  MaxRaw # 0 => \A c \in DOMAIN C : C[c].owner # 0 /\ (C[c].live => OpenRounds(G) = {})

\* A cut at k parts no result, present or to come, from its call.
Whole(E, G, k) ==
  /\ \A r \in DOMAIN E : E[r].kind = "result" /\ r >= k => E[r].of >= k
  /\ \A a \in OpenRounds(G) : a >= k

\* The places where the transcript may still be cut.
Marks(I, C) == HeadsOf(I) \cup {C[c].kept : c \in DOMAIN C}

Pair(E, G, I, C) ==
  /\ Answers(E) /\ Asking(E, G) /\ Blocking(G, C)
  /\ Whole(E, G, RangeStart(E)) /\ \A k \in Marks(I, C) : Whole(E, G, k)

\* An assistant that was the last one up to a place still is.
LEMMA AskedKept ==
  ASSUME NEW E \in Seq(EntryRecord), NEW F \in Seq(EntryRecord), Extends(E, F), NEW a, NEW m \in 0..Len(E), Asked(E, a, m)
  PROVE  Asked(F, a, m)
<1>1. Len(E) \in Nat /\ Len(F) \in Nat /\ DOMAIN E = 1..Len(E) /\ DOMAIN F = 1..Len(F) /\ Len(E) <= Len(F)
      /\ \A i \in 1..Len(E) : F[i] = E[i]
  BY DEF Extends
<1>2. a \in 1..Len(E) /\ \A j \in (a + 1)..m : j \in 1..Len(E)
  BY <1>1 DEF Asked
<1> QED BY <1>1, <1>2 DEF Asked

\* The last assistant of a transcript, after entries that are none.
LEMMA AskedOn ==
  ASSUME NEW E \in Seq(EntryRecord), NEW F \in Seq(EntryRecord), Extends(E, F), NEW a, Asked(E, a, Len(E)),
         NEW n \in 0..Len(F), \A i \in (Len(E) + 1)..n : F[i].kind # "assistant"
  PROVE  Asked(F, a, n)
<1>1. Len(E) \in Nat /\ Len(F) \in Nat /\ DOMAIN E = 1..Len(E) /\ DOMAIN F = 1..Len(F) /\ Len(E) <= Len(F)
      /\ \A i \in 1..Len(E) : F[i] = E[i]
  BY DEF Extends
<1>2. a \in 1..Len(E) /\ \A j \in (a + 1)..n : j \in 1..Len(E) \/ j \in (Len(E) + 1)..n
  BY <1>1 DEF Asked
<1>3. \A j \in (a + 1)..n : j \in 1..Len(E) => j \in (a + 1)..Len(E)
  BY <1>1, <1>2
<1> QED BY <1>1, <1>2, <1>3 DEF Asked

\* Where the active range starts after entries were appended.
LEMMA RangeFrom ==
  ASSUME NEW E \in Seq(EntryRecord), NEW F \in Seq(EntryRecord), Extends(E, F)
  PROVE  \/ RangeStart(F) = RangeStart(E)
         \/ \E i \in (Len(E) + 1)..Len(F) : F[i].head > 0 /\ RangeStart(F) = F[i].head
<1> DEFINE m == Marker(F)
<1>1. IsMarker(F, Len(F), m) /\ Len(E) \in Nat /\ Len(F) \in Nat /\ Len(E) <= Len(F) /\ \A i \in 1..Len(E) : F[i] = E[i]
  BY MarkerIs DEF Extends
<1>2. m \in 0..Len(F) /\ (m > 0 => F[m].head > 0) /\ \A j \in (m + 1)..Len(F) : F[j].head = 0
  BY <1>1 DEF IsMarker
<1>3. RangeStart(F) = IF m = 0 THEN 0 ELSE F[m].head
  BY DEF RangeStart
<1> HIDE DEF m
<1>4. CASE m > Len(E)
  <2>1. m \in (Len(E) + 1)..Len(F) /\ m > 0
    BY <1>1, <1>2, <1>4
  <2> QED BY <1>2, <1>3, <2>1
<1>5. CASE m <= Len(E)
  <2>1. \A i \in (Len(E) + 1)..Len(F) : i \in (m + 1)..Len(F)
    BY <1>1, <1>2, <1>5
  <2>2. RangeStart(F) = RangeStart(E)
    BY <1>1, <1>2, <2>1, RangeKept
  <2> QED BY <2>2
<1> QED BY <1>1, <1>2, <1>4, <1>5

\* Whatever is appended besides calls and results, while rounds may end.
LEMMA PairPlain ==
  ASSUME NEW E \in Seq(EntryRecord), NEW F \in Seq(EntryRecord), NEW G, NEW H, NEW I, NEW J, NEW C, NEW B,
         Pair(E, G, I, C), Extends(E, F), OpenRounds(H) \subseteq OpenRounds(G), Blocking(H, B),
         \A i \in (Len(E) + 1)..Len(F) : F[i].kind \in {"user", "reset", "summary"},
         NEW K, \A k \in K : Whole(E, G, k), Marks(J, B) \subseteq K, Sourced(E, F, K),
         OpenRounds(H) # {} => \A i \in (Len(E) + 1)..Len(F) :
           (F[i].head \in K \cup {0}) /\ (MaxRaw = 0 => F[i].kind # "user")
  PROVE  Pair(F, H, J, B)
<1> DEFINE n == Len(E)
           m == Len(F)
<1>1. n \in Nat /\ m \in Nat /\ n <= m /\ DOMAIN E = 1..n /\ DOMAIN F = 1..m /\ \A i \in 1..n : F[i] = E[i]
  BY DEF Extends
<1>2. \A i \in 1..m : i \in 1..n \/ i \in (n + 1)..m
  BY <1>1
<1>3. \A i \in (n + 1)..m : F[i].kind # "assistant" /\ F[i].kind # "result"
  OBVIOUS
<1>4. \A r \in DOMAIN F : F[r].kind = "result" => r \in DOMAIN E /\ F[r] = E[r]
  BY <1>1, <1>2, <1>3
<1>5. Answers(F)
  <2> SUFFICES ASSUME NEW r \in DOMAIN F, F[r].kind = "result" PROVE F[r].head = 0 /\ F[r].of < r /\ Asked(F, F[r].of, r)
    BY DEF Answers
  <2>1. r \in DOMAIN E /\ F[r] = E[r]
    BY <1>4
  <2>2. E[r].head = 0 /\ E[r].of < r /\ Asked(E, E[r].of, r)
    BY <2>1 DEF Pair, Answers
  <2>3. r \in 0..Len(E)
    BY <1>1, <2>1
  <2> QED BY <2>1, <2>2, <2>3, AskedKept
<1>6. Asking(F, H)
  <2> SUFFICES ASSUME NEW a \in OpenRounds(H)
               PROVE  Asked(F, a, Len(F)) /\ (MaxRaw = 0 => \A j \in (a + 1)..Len(F) : F[j].kind # "user")
    BY DEF Asking
  <2>1. Asked(E, a, Len(E)) /\ (MaxRaw = 0 => \A j \in (a + 1)..Len(E) : E[j].kind # "user")
    BY DEF Pair, Asking
  <2>2. Asked(F, a, Len(F))
    <3>1. m \in 0..m
      BY <1>1
    <3> QED BY <1>3, <2>1, <3>1, AskedOn
  <2>3. ASSUME MaxRaw = 0, NEW j \in (a + 1)..m PROVE F[j].kind # "user"
    <3>1. a \in 1..n
      BY <1>1, <2>1 DEF Asked
    <3>2. CASE j \in 1..n
      <4>1. j \in (a + 1)..n
        BY <3>1, <3>2
      <4> QED BY <1>1, <2>1, <2>3, <3>2, <4>1
    <3>3. CASE j \in (n + 1)..m
      BY <2>3, <3>3
    <3>4. j \in 1..m
      BY <1>1, <3>1
    <3> QED BY <1>2, <3>2, <3>3, <3>4
  <2> QED BY <2>2, <2>3
<1>7. ASSUME NEW k, Whole(E, G, k) PROVE Whole(F, H, k)
  BY <1>4, <1>7 DEF Whole
<1>8. Whole(F, H, RangeStart(F))
  <2>1. CASE RangeStart(F) = RangeStart(E)
    BY <1>7, <2>1 DEF Pair
  <2>2. ASSUME NEW i \in (n + 1)..m, F[i].head > 0, RangeStart(F) = F[i].head PROVE Whole(F, H, RangeStart(F))
    <3>1. CASE F[i].head \in K
      BY <1>7, <2>2, <3>1
    <3>2. CASE F[i].head \notin K
      <4>1. F[i].head > n /\ OpenRounds(H) = {}
        BY <2>2, <3>2 DEF Sourced
      <4>2. F[i].head \in Nat
        <5>1. F[i] \in EntryRecord
          BY <1>1
        <5> QED BY <5>1 DEF EntryRecord
      <4>3. \A r \in DOMAIN E : ~(r >= F[i].head)
        BY <1>1, <4>1, <4>2
      <4> QED BY <1>4, <2>2, <4>1, <4>3 DEF Whole
    <3> QED BY <3>1, <3>2
  <2> QED BY <2>1, <2>2, RangeFrom
<1> QED BY <1>5, <1>6, <1>7, <1>8 DEF Pair

\* Results of an open round.
LEMMA PairResults ==
  ASSUME NEW E \in Seq(EntryRecord), NEW F \in Seq(EntryRecord), NEW G, NEW I, NEW C, Pair(E, G, I, C), Extends(E, F),
         NEW a \in OpenRounds(G),
         \A i \in (Len(E) + 1)..Len(F) : F[i].kind = "result" /\ F[i].of = a /\ F[i].head = 0
  PROVE  Pair(F, G, I, C)
<1> DEFINE n == Len(E)
           m == Len(F)
<1>1. n \in Nat /\ m \in Nat /\ n <= m /\ DOMAIN E = 1..n /\ DOMAIN F = 1..m /\ \A i \in 1..n : F[i] = E[i]
  BY DEF Extends
<1>2. \A i \in 1..m : i \in 1..n \/ i \in (n + 1)..m
  BY <1>1
<1>3. \A i \in (n + 1)..m : F[i].kind # "assistant" /\ F[i].kind # "user"
  OBVIOUS
<1>4. \A b \in OpenRounds(G) : Asked(E, b, n) /\ b \in 1..n
  BY <1>1 DEF Pair, Asking, Asked
<1>5. Answers(F)
  <2> SUFFICES ASSUME NEW r \in DOMAIN F, F[r].kind = "result" PROVE F[r].head = 0 /\ F[r].of < r /\ Asked(F, F[r].of, r)
    BY DEF Answers
  <2>1. CASE r \in 1..n
    <3>1. E[r].head = 0 /\ E[r].of < r /\ Asked(E, E[r].of, r) /\ F[r] = E[r]
      BY <1>1, <2>1 DEF Pair, Answers
    <3>2. r \in 0..Len(E)
      BY <1>1, <2>1
    <3> QED BY <3>1, <3>2, AskedKept
  <2>2. CASE r \in (n + 1)..m
    <3>1. F[r].of = a /\ F[r].head = 0 /\ r \in 0..Len(F) /\ a < r
      BY <1>1, <1>4, <2>2
    <3>2. \A i \in (n + 1)..r : i \in (n + 1)..m
      BY <1>1, <2>2
    <3>3. Asked(F, a, r)
      BY <1>3, <1>4, <3>1, <3>2, AskedOn
    <3> QED BY <3>1, <3>3
  <2> QED BY <1>1, <1>2, <2>1, <2>2
<1>6. Asking(F, G)
  <2> SUFFICES ASSUME NEW b \in OpenRounds(G)
               PROVE  Asked(F, b, Len(F)) /\ (MaxRaw = 0 => \A j \in (b + 1)..Len(F) : F[j].kind # "user")
    BY DEF Asking
  <2>1. Asked(E, b, Len(E)) /\ (MaxRaw = 0 => \A j \in (b + 1)..Len(E) : E[j].kind # "user")
    BY DEF Pair, Asking
  <2>2. Asked(F, b, Len(F))
    <3>1. m \in 0..m
      BY <1>1
    <3> QED BY <1>3, <2>1, <3>1, AskedOn
  <2>3. ASSUME MaxRaw = 0, NEW j \in (b + 1)..m PROVE F[j].kind # "user"
    <3>1. CASE j \in 1..n
      <4>1. j \in (b + 1)..n
        BY <1>4, <3>1
      <4> QED BY <1>1, <2>1, <2>3, <3>1, <4>1
    <3>2. CASE j \in (n + 1)..m
      BY <1>3, <3>2
    <3>3. j \in 1..m
      BY <1>1, <1>4
    <3> QED BY <1>2, <3>1, <3>2, <3>3
  <2> QED BY <2>2, <2>3
<1>7. ASSUME NEW k, Whole(E, G, k) PROVE Whole(F, G, k)
  <2>1. ASSUME NEW r \in DOMAIN F, F[r].kind = "result", r >= k PROVE F[r].of >= k
    <3>1. CASE r \in 1..n
      BY <1>1, <1>7, <2>1, <3>1 DEF Whole
    <3>2. CASE r \in (n + 1)..m
      BY <1>7, <3>2 DEF Whole
    <3> QED BY <1>1, <1>2, <3>1, <3>2
  <2> QED BY <1>7, <2>1 DEF Whole
<1>8. RangeStart(F) = RangeStart(E)
  BY <1>1, RangeKept
<1> QED BY <1>5, <1>6, <1>7, <1>8 DEF Pair

\* A response, and results of its own calls: at most its round opens.
LEMMA PairAsks ==
  ASSUME NEW E \in Seq(EntryRecord), HeadsIn(E), NEW F \in Seq(EntryRecord), NEW G, NEW H, NEW I, NEW C,
         Pair(E, G, I, C), Extends(E, F), \A k \in Marks(I, C) : k \in Int /\ k <= Len(E),
         Len(E) < Len(F), F[Len(E) + 1].kind = "assistant", F[Len(E) + 1].head = 0,
         \A i \in (Len(E) + 2)..Len(F) : F[i].kind = "result" /\ F[i].of = Len(E) + 1 /\ F[i].head = 0,
         OpenRounds(H) \subseteq {Len(E) + 1}, Blocking(H, C)
  PROVE  Pair(F, H, I, C)
<1> DEFINE n == Len(E)
           m == Len(F)
           a == n + 1
<1>1. /\ n \in Nat /\ m \in Nat /\ n < m /\ DOMAIN E = 1..n /\ DOMAIN F = 1..m /\ a \in 1..m
      /\ \A i \in 1..n : F[i] = E[i]
  BY DEF Extends
<1>2. \A i \in 1..m : i \in 1..n \/ i = a \/ i \in (n + 2)..m
  BY <1>1
<1>3. \A j \in (a + 1)..m : j \in (n + 2)..m /\ F[j].kind # "assistant" /\ F[j].kind # "user"
  BY <1>1
<1>4. Asked(F, a, m)
  BY <1>1, <1>3 DEF Asked
<1>5. Answers(F)
  <2> SUFFICES ASSUME NEW r \in DOMAIN F, F[r].kind = "result" PROVE F[r].head = 0 /\ F[r].of < r /\ Asked(F, F[r].of, r)
    BY DEF Answers
  <2>1. CASE r \in 1..n
    <3>1. E[r].head = 0 /\ E[r].of < r /\ Asked(E, E[r].of, r) /\ F[r] = E[r]
      BY <1>1, <2>1 DEF Pair, Answers
    <3>2. r \in 0..Len(E)
      BY <1>1, <2>1
    <3> QED BY <3>1, <3>2, AskedKept
  <2>2. CASE r \in (n + 2)..m
    <3>1. F[r].of = a /\ F[r].head = 0 /\ a < r
      BY <1>1, <2>2
    <3>2. \A j \in (a + 1)..r : j \in (a + 1)..m
      BY <1>1, <2>2
    <3>3. Asked(F, a, r)
      BY <1>4, <3>2 DEF Asked
    <3> QED BY <3>1, <3>3
  <2>3. CASE r = a
    BY <2>3
  <2> QED BY <1>1, <1>2, <2>1, <2>2, <2>3
<1>6. Asking(F, H)
  BY <1>3, <1>4 DEF Asking
<1>7. ASSUME NEW k \in Int, k <= n, Whole(E, G, k) PROVE Whole(F, H, k)
  <2>1. ASSUME NEW r \in DOMAIN F, F[r].kind = "result", r >= k PROVE F[r].of >= k
    <3>1. CASE r \in 1..n
      BY <1>1, <1>7, <2>1, <3>1 DEF Whole
    <3>2. CASE r \in (n + 2)..m
      BY <1>1, <1>7, <3>2
    <3>3. CASE r = a
      BY <2>1, <3>3
    <3> QED BY <1>1, <1>2, <3>1, <3>2, <3>3
  <2>2. \A b \in OpenRounds(H) : b >= k
    BY <1>1, <1>7
  <2> QED BY <2>1, <2>2 DEF Whole
<1>8. RangeStart(F) = RangeStart(E) /\ RangeStart(E) \in 0..n
  <2>1. \A i \in (n + 1)..m : F[i].head = 0
    <3>1. \A i \in (n + 1)..m : i = a \/ i \in (n + 2)..m
      BY <1>1
    <3> QED BY <3>1
  <2>2. n <= m
    BY <1>1
  <2> QED BY <1>1, <2>1, <2>2, RangeKept, RangeWithin
<1>9. Whole(F, H, RangeStart(F))
  <2>1. RangeStart(E) \in Int /\ RangeStart(E) <= n
    BY <1>1, <1>8
  <2> QED BY <1>7, <1>8, <2>1 DEF Pair
<1>10. \A k \in Marks(I, C) : Whole(F, H, k)
  BY <1>7 DEF Pair
<1> QED BY <1>5, <1>6, <1>9, <1>10 DEF Pair

\* selectCut offers only cuts that part no result from its call.
LEMMA CutWhole ==
  ASSUME NEW E \in Seq(EntryRecord), NEW G, NEW I, NEW C, Pair(E, G, I, C), NEW k \in Cuts(E),
         MaxRaw = 0 \/ OpenRounds(G) = {}
  PROVE  Whole(E, G, k)
<1>1. Len(E) \in Nat /\ DOMAIN E = 1..Len(E)
  OBVIOUS
<1>2. k \in Active(E) /\ IsCandidate(E, k) /\ k \in 1..Len(E) /\ k >= RangeStart(E)
  BY DEF Cuts, Active
<1>3. \A r \in DOMAIN E : E[r].kind = "result" => E[r].head = 0 /\ E[r].of < r /\ Asked(E, E[r].of, r)
  BY DEF Pair, Answers
<1>4. \A a \in OpenRounds(G) :
        Asked(E, a, Len(E)) /\ (MaxRaw = 0 => \A j \in (a + 1)..Len(E) : E[j].kind # "user")
  BY DEF Pair, Asking
<1>5. CASE E[k].kind = "assistant"
  <2>1. ASSUME NEW a, NEW m \in 1..Len(E), Asked(E, a, m), m >= k PROVE a >= k
    <3>1. a \in 1..Len(E) /\ \A j \in (a + 1)..m : E[j].kind # "assistant"
      BY <1>1, <2>1 DEF Asked
    <3> QED BY <1>1, <1>2, <1>5, <2>1, <3>1
  <2>2. ASSUME NEW r \in DOMAIN E, E[r].kind = "result", r >= k PROVE E[r].of >= k
    BY <1>1, <1>3, <2>1, <2>2
  <2>3. ASSUME NEW a \in OpenRounds(G) PROVE a >= k
    <3>1. Len(E) \in 1..Len(E) /\ Len(E) >= k
      BY <1>1, <1>2
    <3> QED BY <1>4, <2>1, <3>1
  <2> QED BY <2>2, <2>3 DEF Whole
<1>6. CASE E[k].kind = "user"
  <2> DEFINE before == {a \in Active(E) : a < k /\ E[a].kind = "assistant"}
  <2>1. \A r \in Active(E) : ~(/\ r > k /\ E[r].kind = "result" /\ before # {}
                               /\ \A a \in before : a <= E[r].of
                               /\ \A b \in k..r : E[b].kind # "assistant")
    BY <1>2, <1>6 DEF IsCandidate
  <2>2. ASSUME NEW r \in DOMAIN E, E[r].kind = "result", r >= k, ~(E[r].of >= k) PROVE FALSE
    <3> DEFINE a == E[r].of
    <3>1. E[r].head = 0 /\ a < r /\ a \in 1..Len(E) /\ r \in 1..Len(E)
      BY <1>1, <1>3, <2>2 DEF Asked
    <3>2. E[a].kind = "assistant" /\ E[a].head = 0 /\ \A j \in (a + 1)..r : E[j].kind # "assistant"
      BY <1>3, <2>2 DEF Asked
    <3>3. RangeStart(E) \in Int
      <4>1. \A i \in 1..Len(E) : E[i].head \in Nat
        <5>1. \A i \in 1..Len(E) : E[i] \in EntryRecord
          OBVIOUS
        <5> QED BY <5>1 DEF EntryRecord
      <4>2. Marker(E) \in 0..Len(E)
        BY <1>1, MarkerIs DEF IsMarker
      <4>3. Marker(E) # 0 => Marker(E) \in 1..Len(E)
        BY <1>1, <4>2
      <4> QED BY <4>1, <4>3 DEF RangeStart
    <3>4. r >= RangeStart(E)
      BY <1>1, <1>2, <2>2, <3>1, <3>3
    <3>5. a >= RangeStart(E)
      <4>1. Whole(E, G, RangeStart(E))
        BY DEF Pair
      <4> QED BY <2>2, <3>4, <4>1 DEF Whole
    <3>6. r \in Active(E) /\ a \in Active(E)
      BY <3>1, <3>2, <3>4, <3>5 DEF Active
    <3>7. a < k /\ r > k
      <4>1. r # k
        BY <1>6, <2>2
      <4> QED BY <1>1, <1>2, <2>2, <3>1, <4>1
    <3>8. a \in before
      BY <3>2, <3>6, <3>7
    <3>9. ASSUME NEW b \in before PROVE b <= a
      <4>1. b \in 1..Len(E) /\ b < k /\ E[b].kind = "assistant"
        BY DEF Active
      <4> QED BY <1>1, <1>2, <3>1, <3>2, <3>7, <4>1
    <3>10. \A b \in k..r : E[b].kind # "assistant"
      BY <1>2, <3>1, <3>2, <3>7
    <3> HIDE DEF before
    <3> QED BY <2>1, <2>2, <3>6, <3>7, <3>8, <3>9, <3>10
  <2>3. ASSUME NEW a \in OpenRounds(G) PROVE a >= k
    <3>1. a \in 1..Len(E) /\ \A j \in (a + 1)..Len(E) : E[j].kind # "user"
      BY <1>1, <1>4 DEF Asked
    <3> QED BY <1>1, <1>2, <1>6, <3>1
  <2> QED BY <2>2, <2>3 DEF Whole
<1> QED BY <1>2, <1>5, <1>6 DEF IsCandidate

\* What the invariant says of the active range.
LEMMA PairedActive ==
  ASSUME NEW E \in Seq(EntryRecord), NEW G, NEW I, NEW C, Pair(E, G, I, C),
         NEW r \in Active(E), E[r].kind = "result"
  PROVE  E[r].of \in Active(E)
<1>1. r \in DOMAIN E /\ r >= RangeStart(E) /\ DOMAIN E = 1..Len(E)
  BY DEF Active
<1>2. E[r].of \in 1..Len(E) /\ E[E[r].of].head = 0
  BY <1>1 DEF Pair, Answers, Asked
<1>3. E[r].of >= RangeStart(E)
  BY <1>1 DEF Pair, Whole
<1> QED BY <1>2, <1>3 DEF Active

----------------------------------------------------------------------------
(* The cuts of the steps.                                                  *)

Paired == Pair(entries, gens, inbox, comps)

\* The places where the transcript is cut at all times, or was before.
LEMMA MarksWhole ==
  ASSUME NEW E \in Seq(EntryRecord), NEW G, NEW I, NEW C, Pair(E, G, I, C)
  PROVE  \A k \in Marks(I, C) \cup {-1, 0} : Whole(E, G, k)
<1>1. \A r \in DOMAIN E : E[r].kind = "result" => E[r].of \in 1..Len(E)
  BY DEF Pair, Answers, Asked
<1>2. \A a \in OpenRounds(G) : a \in 1..Len(E)
  BY DEF Pair, Asking, Asked
<1>3. Whole(E, G, 0) /\ Whole(E, G, -1)
  BY <1>1, <1>2 DEF Whole
<1> QED BY <1>3 DEF Pair

\* Generations that are live, or not, with the rounds they had.
LEMMA OpenKept ==
  ASSUME NEW G, NEW H, DOMAIN H = DOMAIN G, \A h \in DOMAIN G : H[h].live = G[h].live /\ H[h].assistant = G[h].assistant
  PROVE  OpenRounds(H) = OpenRounds(G)
BY DEF OpenRounds

\* Where no generation is live, no round is open, nor where one begins.
LEMMA BeginsClosed ==
  ASSUME NEW H, NEW T, NEW C, Idle(H, T, C)
  PROVE  OpenRounds(H) = {} /\ (Begins(H) => OpenRounds(gens') = {})
<1>1. H \in Seq(GenerationTask) /\ \A h \in DOMAIN H : ~H[h].live
  BY DEF Idle
<1>2. OpenRounds(H) = {}
  BY <1>1 DEF OpenRounds
<1>3. OpenRounds(Append(H, NewGeneration)) = {}
  <2> DEFINE G == Append(H, NewGeneration)
  <2>1. DOMAIN G = DOMAIN H \cup {Len(H) + 1} /\ G[Len(H) + 1] = NewGeneration /\ \A h \in DOMAIN H : G[h] = H[h]
    BY <1>1, NewGenerationFields, SeqAppend
  <2> HIDE DEF G
  <2>2. \A h \in DOMAIN G : G[h].live => G[h].assistant = 0
    BY <1>1, <2>1, NewGenerationFields
  <2>3. OpenRounds(G) = {}
    BY <2>2 DEF OpenRounds
  <2> QED BY <2>3 DEF G
<1> QED BY <1>2, <1>3 DEF Begins

\* The compactions keep their owners; some end.
Shrinks(C, B) ==
  /\ DOMAIN B = DOMAIN C
  /\ \A c \in DOMAIN C : B[c].owner = C[c].owner /\ (B[c].live => C[c].live) /\ B[c].kept \in {C[c].kept, 0}

\* So nothing blocks that did not block before.
LEMMA BlockingShrinks ==
  ASSUME NEW G, NEW H, NEW C, NEW B, Blocking(G, C), Shrinks(C, B), OpenRounds(H) \subseteq OpenRounds(G)
  PROVE  Blocking(H, B)
BY DEF Blocking, Shrinks

\* And no cut is new.
LEMMA MarksShrink ==
  ASSUME NEW I, NEW J, NEW C, NEW B, Shrinks(C, B), HeadsOf(J) \subseteq HeadsOf(I)
  PROVE  Marks(J, B) \subseteq Marks(I, C) \cup {0}
BY DEF Marks, Shrinks

\* A step that keeps the transcript.
LEMMA StillPaired ==
  ASSUME Inv, Paired, entries' = entries, HeadsOf(inbox') \subseteq HeadsOf(inbox),
         OpenRounds(gens') \subseteq OpenRounds(gens), Blocking(gens', comps'),
         Marks(inbox', comps') \subseteq Marks(inbox, comps) \cup {0}
  PROVE  Paired'
<1> DEFINE K == Marks(inbox, comps) \cup {-1, 0}
<1>1. entries \in Seq(EntryRecord) /\ Extends(entries, entries) /\ Sourced(entries, entries, K)
  BY InvTypes, SourcedRefl DEF Extends
<1>2. \A k \in K : Whole(entries, gens, k)
  BY <1>1, MarksWhole DEF Paired
<1>3. Marks(inbox', comps') \subseteq K
  OBVIOUS
<1>4. \A i \in (Len(entries) + 1)..Len(entries) : FALSE
  BY <1>1
<1> HIDE DEF K
<1>5. Pair(entries, gens', inbox', comps')
  BY <1>1, <1>2, <1>3, <1>4, PairPlain DEF Paired
<1> QED BY <1>5 DEF Paired

\* One that keeps also the inbox, or some items of it.
LEMMA TasksPaired ==
  ASSUME Inv, Paired, entries' = entries, HeadsOf(inbox') \subseteq HeadsOf(inbox),
         OpenRounds(gens') \subseteq OpenRounds(gens), Shrinks(comps, comps')
  PROVE  Paired'
<1>1. Blocking(gens, comps)
  BY DEF Paired, Pair
<1>2. Blocking(gens', comps') /\ Marks(inbox', comps') \subseteq Marks(inbox, comps) \cup {0}
  BY <1>1, BlockingShrinks, MarksShrink
<1> QED BY <1>2, StillPaired

\* The compactions as they are.
LEMMA ShrinksRefl == ASSUME NEW C PROVE Shrinks(C, C)
BY DEF Shrinks

\* A generation that works before or between rounds has none open.
LEMMA WorksClosed ==
  ASSUME Inv, NEW g \in DOMAIN gens, NEW ps, Works(g, ps), "tools" \notin ps
  PROVE  OpenRounds(gens) = {}
<1>1. Ready(g) /\ gens[g].assistant = 0
  BY WorksFields
<1>2. \A h \in DOMAIN gens : gens[h].live => h = g
  BY <1>1, ReadyOwnsRun DEF Inv, Busy
<1> QED BY <1>1, <1>2 DEF OpenRounds

\* A compaction starts, on its own only where no tool appends messages.
LEMMA CreatedPaired ==
  ASSUME Inv, Paired, UNCHANGED table, OpenRounds(gens') \subseteq OpenRounds(gens),
         NEW owner \in Nat, NEW background \in BOOLEAN, comps' = Append(comps, NewCompaction(owner, background)),
         MaxRaw # 0 => owner # 0 /\ OpenRounds(gens) = {}
  PROVE  Paired'
<1> DEFINE x == NewCompaction(owner, background)
           B == Append(comps, x)
<1>1. comps \in Seq(CompactionTask) /\ Blocking(gens, comps)
  BY InvTypes DEF Paired, Pair
<1>2. x \in CompactionTask /\ x.owner = owner /\ x.kept = 0
  BY DEF NewCompaction, CompactionTask
<1>3. /\ DOMAIN B = DOMAIN comps \cup {Len(comps) + 1}
      /\ B[Len(comps) + 1] = x /\ \A c \in DOMAIN comps : B[c] = comps[c]
  <2> HIDE DEF x
  <2> QED BY <1>1, <1>2, SeqAppend
<1> HIDE DEF x
<1>4. comps' = B
  BY DEF x
<1> HIDE DEF B
<1>5. Blocking(gens', B)
  BY <1>1, <1>2, <1>3 DEF Blocking
<1>6. Marks(inbox, B) \subseteq Marks(inbox, comps) \cup {0}
  BY <1>2, <1>3 DEF Marks
<1>7. Marks(inbox', comps') \subseteq Marks(inbox, comps) \cup {0} /\ HeadsOf(inbox') \subseteq HeadsOf(inbox)
  BY <1>4, <1>6 DEF table
<1> QED BY <1>4, <1>5, <1>7, StillPaired DEF table

\* One compaction that ends, or stays.
LEMMA OneShrinks ==
  ASSUME NEW C \in Seq(CompactionTask), NEW c \in DOMAIN C, NEW x \in CompactionTask, x.owner = C[c].owner,
         x.kept = 0, ~x.live, NEW B, B = [C EXCEPT ![c] = x]
  PROVE  Shrinks(C, B)
<1>1. DOMAIN B = DOMAIN C /\ B[c] = x /\ \A d \in DOMAIN C : d # c => B[d] = C[d]
  BY SeqUpdate
<1> QED BY <1>1 DEF Shrinks

\* The heads of the items that stay in the inbox.
LEMMA KeptHeads ==
  ASSUME Inv, NEW P, NEW ids, Commit([Change(Draft, ids, "aborted") EXCEPT !.inbox = Only(@, P)])
  PROVE  HeadsOf(inbox') \subseteq HeadsOf(inbox) /\ entries' = entries
<1> DEFINE D == Draft
           A == Change(D, ids, "aborted")
<1>1. D \in Drafts /\ D.inbox = inbox /\ D.entries = entries /\ inbox \in Seq(InboxItem) /\ "aborted" \in Statuses
  BY InvTypes, DraftFields DEF Statuses, Settled
<1>2. A \in Drafts /\ A.inbox = inbox /\ A.entries = entries
  <2> HIDE DEF D
  <2> QED BY <1>1, ChangeFields
<1> HIDE DEF A
<1>3. inbox' = Only(inbox, P) /\ entries' = entries
  BY <1>2 DEF Commit, Drafts, A
<1>4. Range(Only(inbox, P)) = {inbox[i] : i \in DOMAIN inbox \cap P}
  BY <1>1, OnlyRange
<1> DEFINE J == Only(inbox, P)
<1> HIDE DEF J
<1>5. \A j \in DOMAIN J : \E i \in DOMAIN inbox : J[j] = inbox[i]
  BY <1>4 DEF Range, J
<1>6. HeadsOf(J) \subseteq HeadsOf(inbox)
  BY <1>5 DEF HeadsOf
<1> QED BY <1>3, <1>6 DEF J

\* A step of the tasks only.
LEMMA AsidePaired ==
  ASSUME Inv, Paired, UNCHANGED table, OpenRounds(gens') \subseteq OpenRounds(gens), Shrinks(comps, comps')
  PROVE  Paired'
<1>1. entries' = entries /\ HeadsOf(inbox') \subseteq HeadsOf(inbox)
  BY DEF table
<1> QED BY <1>1, TasksPaired

\* One that leaves the generations and the compactions.
LEMMA ToolsPaired ==
  ASSUME Inv, Paired, UNCHANGED <<table, gens, comps>> PROVE Paired'
<1>1. OpenRounds(gens') \subseteq OpenRounds(gens)
  OBVIOUS
<1>2. Shrinks(comps, comps')
  BY ShrinksRefl
<1> QED BY <1>1, <1>2, AsidePaired

\* One generation with the round it had.
LEMMA OneGenOpen ==
  ASSUME NEW G \in Seq(GenerationTask), NEW g \in DOMAIN G, NEW x, x.live = G[g].live, x.assistant = G[g].assistant,
         NEW H, H = [G EXCEPT ![g] = x]
  PROVE  OpenRounds(H) \subseteq OpenRounds(G)
<1>1. DOMAIN H = DOMAIN G /\ H[g] = x /\ \A h \in DOMAIN G : h # g => H[h] = G[h]
  OBVIOUS
<1>2. \A h \in DOMAIN G : H[h].live = G[h].live /\ H[h].assistant = G[h].assistant
  BY <1>1
<1> QED BY <1>1, <1>2, OpenKept

\* Submission.abort.
LEMMA WithdrawPaired == ASSUME Inv, Paired, NEW id, Withdraw(id) PROVE Paired'
<1> DEFINE P == {i \in DOMAIN inbox : inbox[i].id # id}
           ids == {id}
<1>1. UNCHANGED <<gens, comps>> /\ Commit([Change(Draft, ids, "aborted") EXCEPT !.inbox = Only(@, P)])
  BY DEF Withdraw
<1> HIDE DEF P, ids
<1>2. HeadsOf(inbox') \subseteq HeadsOf(inbox) /\ entries' = entries
  BY <1>1, KeptHeads
<1>3. OpenRounds(gens') \subseteq OpenRounds(gens)
  BY <1>1
<1>4. Shrinks(comps, comps')
  BY <1>1, ShrinksRefl
<1> QED BY <1>2, <1>3, <1>4, TasksPaired

\* Conversation.abort.
LEMMA AbortConversationPaired == ASSUME Inv, Paired, NEW background, AbortConversation(background) PROVE Paired'
<1> DEFINE W == {i \in DOMAIN inbox : inbox[i].mode = "write"}
           ids == {inbox[i].id : i \in DOMAIN inbox \ W}
           mG(g) == gens[g].mark \/ gens[g].live
           mC(c) == comps[c].mark \/ comps[c].live
           H == [g \in DOMAIN gens |-> [gens[g] EXCEPT !.mark = mG(g)]]
           B == [c \in DOMAIN comps |->
                   IF comps[c].background /\ ~background THEN comps[c] ELSE [comps[c] EXCEPT !.mark = mC(c)]]
<1>1. /\ gens' = H /\ comps' = B
      /\ Commit([Change(Draft, ids, "aborted") EXCEPT !.inbox = Only(@, W)])
  BY DEF AbortConversation
<1>2. HeadsOf(inbox') \subseteq HeadsOf(inbox) /\ entries' = entries
  <2> HIDE DEF W, ids
  <2> QED BY <1>1, KeptHeads
<1>3. /\ \A g \in DOMAIN gens : gens[g] \in GenerationTask /\ mG(g) \in BOOLEAN
      /\ \A c \in DOMAIN comps : comps[c] \in CompactionTask /\ mC(c) \in BOOLEAN
  BY InvTypes DEF GenerationTask, CompactionTask
<1> HIDE DEF mG, mC, W, ids
<1>4. OpenRounds(H) \subseteq OpenRounds(gens)
  <2>1. ASSUME NEW g \in DOMAIN gens PROVE H[g].live = gens[g].live /\ H[g].assistant = gens[g].assistant
    <3> DEFINE y == [gens[g] EXCEPT !.mark = mG(g)]
    <3>1. SameGen(gens[g], y)
      BY <1>3, MarkedTasks
    <3>2. H[g] = y
      OBVIOUS
    <3> HIDE DEF y, H
    <3> QED BY <3>1, <3>2 DEF SameGen
  <2>2. DOMAIN H = DOMAIN gens
    OBVIOUS
  <2> HIDE DEF H
  <2> QED BY <2>1, <2>2, OpenKept
<1>5. Shrinks(comps, B)
  <2>1. ASSUME NEW c \in DOMAIN comps PROVE SameComp(comps[c], B[c])
    <3> DEFINE y == [comps[c] EXCEPT !.mark = mC(c)]
    <3>1. SameComp(comps[c], y) /\ SameComp(comps[c], comps[c])
      BY <1>3, MarkedTasks DEF SameComp
    <3>2. B[c] = y \/ B[c] = comps[c]
      OBVIOUS
    <3> HIDE DEF y, B
    <3> QED BY <3>1, <3>2
  <2>2. DOMAIN B = DOMAIN comps
    OBVIOUS
  <2> HIDE DEF B
  <2> QED BY <2>1, <2>2 DEF Shrinks, SameComp
<1> HIDE DEF H, B
<1> QED BY <1>1, <1>2, <1>4, <1>5, TasksPaired

\* Harness.abortTask.
LEMMA AbortTaskPaired == ASSUME Inv, Paired, NEW g \in DOMAIN gens, AbortTask(g) PROVE Paired'
<1> DEFINE x == [gens[g] EXCEPT !.mark = TRUE]
<1>1. gens' = [gens EXCEPT ![g] = x] /\ UNCHANGED table /\ comps' = comps
  BY DEF AbortTask
<1>2. x.live = gens[g].live /\ x.assistant = gens[g].assistant /\ gens \in Seq(GenerationTask)
  BY InvTypes, MarkedTasks DEF SameGen
<1> HIDE DEF x
<1>3. OpenRounds(gens') \subseteq OpenRounds(gens)
  BY <1>1, <1>2, OneGenOpen
<1>4. Shrinks(comps, comps')
  BY <1>1, ShrinksRefl
<1> QED BY <1>1, <1>3, <1>4, AsidePaired

\* #reconcile.
LEMMA ReconcilePaired == ASSUME Inv, Paired, Reconcile PROVE Paired'
<1> DEFINE cancelled(owner) == owner # 0 /\ gens[owner].live /\ gens[owner].mark
           mC(c) == comps[c].mark \/ (comps[c].live /\ cancelled(comps[c].owner))
           B == [c \in DOMAIN comps |-> [comps[c] EXCEPT !.mark = mC(c)]]
<1>1. comps' = B /\ UNCHANGED table /\ gens' = gens
  BY DEF Reconcile
<1>2. \A c \in DOMAIN comps : comps[c] \in CompactionTask /\ mC(c) \in BOOLEAN
  BY InvTypes DEF CompactionTask
<1> HIDE DEF mC
<1>3. Shrinks(comps, B)
  <2>1. ASSUME NEW c \in DOMAIN comps PROVE SameComp(comps[c], B[c])
    <3> DEFINE y == [comps[c] EXCEPT !.mark = mC(c)]
    <3>1. SameComp(comps[c], y)
      BY <1>2, MarkedTasks
    <3>2. B[c] = y
      OBVIOUS
    <3> HIDE DEF y, B
    <3> QED BY <3>1, <3>2
  <2>2. DOMAIN B = DOMAIN comps
    OBVIOUS
  <2> HIDE DEF B
  <2> QED BY <2>1, <2>2 DEF Shrinks, SameComp
<1> HIDE DEF B
<1>4. OpenRounds(gens') \subseteq OpenRounds(gens) /\ Shrinks(comps, comps')
  BY <1>1, <1>3
<1> QED BY <1>1, <1>4, AsidePaired

\* The tools as a step of theirs changes them are in no cut.
LEMMA ToolMovesPaired ==
  ASSUME Inv, Paired, Crash \/ \E t \in DOMAIN tools : ToolIntends(t) \/ ToolReruns(t) \/ ToolFaults(t)
  PROVE  Paired'
BY ToolsPaired DEF ToolIntends, ToolReruns, ToolFaults, Crash

\* A compaction that places nothing.
LEMMA CompactionGivesUpPaired == ASSUME Inv, Paired, NEW c \in DOMAIN comps, CompactionGivesUp(c) PROVE Paired'
<1> DEFINE no == FALSE
<1>1. UNCHANGED <<table, gens>> /\ CompactionEnds(c, no) /\ no \in BOOLEAN
  BY DEF CompactionGivesUp
<1> HIDE DEF no
<1>2. PICK x \in CompactionTask : /\ comps' = [comps EXCEPT ![c] = x] /\ x.owner = comps[c].owner
                                  /\ x.kept = 0 /\ ~x.live
  BY <1>1, CompEnded
<1>3. Shrinks(comps, comps')
  BY <1>2, InvTypes, OneShrinks
<1>4. OpenRounds(gens') \subseteq OpenRounds(gens)
  BY <1>1
<1> QED BY <1>1, <1>3, <1>4, AsidePaired

\* Harness.compact.
LEMMA CompactPaired == ASSUME Inv, Paired, Apart, Compact PROVE Paired'
<1> DEFINE no == FALSE
           owner == 0
<1>1. comps' = Append(comps, NewCompaction(owner, no)) /\ UNCHANGED table /\ gens' = gens /\ "compact" \in Hosts
  BY DEF Compact, CreateCompaction
<1>2. no \in BOOLEAN /\ owner \in Nat /\ MaxRaw = 0
  BY <1>1 DEF Apart
<1> HIDE DEF no, owner
<1>3. OpenRounds(gens') \subseteq OpenRounds(gens)
  BY <1>1
<1> QED BY <1>1, <1>2, <1>3, CreatedPaired

\* What a step of the prepare, request, poll and retry phases stores keeps the round.
LEMMA StoredOpen ==
  ASSUME Inv, NEW g \in DOMAIN gens, NEW p, NEW v, NEW n, NEW k,
         \/ gens' = [gens EXCEPT ![g].phase = p]
         \/ gens' = [gens EXCEPT ![g].phase = p, ![g].attempt = n]
         \/ gens' = [gens EXCEPT ![g].phase = p, ![g].overflow = v]
         \/ gens' = [gens EXCEPT ![g].compacted = k]
         \/ gens' = [gens EXCEPT ![g].phase = p, ![g].overflow = v, ![g].compacted = k]
         \/ gens' = [gens EXCEPT ![g].pending = n]
  PROVE  OpenRounds(gens') \subseteq OpenRounds(gens)
<1> DEFINE w == gens[g]
<1>1. gens \in Seq(GenerationTask) /\ w \in GenerationTask
  BY InvTypes
<1> DEFINE x1 == [w EXCEPT !.phase = p]
           x2 == [[w EXCEPT !.phase = p] EXCEPT !.attempt = n]
           x3 == [[w EXCEPT !.phase = p] EXCEPT !.overflow = v]
           x4 == [w EXCEPT !.compacted = k]
           x5 == [[[w EXCEPT !.phase = p] EXCEPT !.overflow = v] EXCEPT !.compacted = k]
           x6 == [w EXCEPT !.pending = n]
<1>2. \E x : x.live = w.live /\ x.assistant = w.assistant /\ gens' = [gens EXCEPT ![g] = x]
  <2>1. \/ gens' = [gens EXCEPT ![g] = x1] \/ gens' = [gens EXCEPT ![g] = x2] \/ gens' = [gens EXCEPT ![g] = x3]
        \/ gens' = [gens EXCEPT ![g] = x4] \/ gens' = [gens EXCEPT ![g] = x5] \/ gens' = [gens EXCEPT ![g] = x6]
    OBVIOUS
  <2>2. /\ x1.live = w.live /\ x1.assistant = w.assistant /\ x2.live = w.live /\ x2.assistant = w.assistant
        /\ x3.live = w.live /\ x3.assistant = w.assistant /\ x4.live = w.live /\ x4.assistant = w.assistant
        /\ x5.live = w.live /\ x5.assistant = w.assistant /\ x6.live = w.live /\ x6.assistant = w.assistant
    <3> HIDE DEF w
    <3> QED BY <1>1 DEF GenerationTask
  <2> HIDE DEF x1, x2, x3, x4, x5, x6, w
  <2> QED BY <2>1, <2>2
<1>3. PICK x : x.live = w.live /\ x.assistant = w.assistant /\ gens' = [gens EXCEPT ![g] = x]
  BY <1>2
<1> QED BY <1>1, <1>3, OneGenOpen

\* The steps that store no more than that.
LEMMA PhasesPaired ==
  ASSUME Inv, Paired, NEW g \in DOMAIN gens,
         \/ Defer(g) \/ Retry(g) \/ NextCall(g) \/ (Prepare(g) /\ comps' = comps)
         \/ (Fails(g) /\ gens' = [gens EXCEPT ![g].phase = "retry"] /\ UNCHANGED table)
  PROVE  Paired'
<1>1. UNCHANGED table /\ comps' = comps
  BY DEF Defer, Retry, NextCall, Prepare, Fails
<1>2. \/ gens' = [gens EXCEPT ![g].phase = "poll"]
      \/ gens' = [gens EXCEPT ![g].phase = "prepare", ![g].attempt = gens[g].attempt + 1]
      \/ gens' = [gens EXCEPT ![g].pending = Tail(gens[g].pending)]
      \/ gens' = [gens EXCEPT ![g].phase = "request", ![g].overflow = FALSE]
      \/ gens' = [gens EXCEPT ![g].phase = "retry"]
  BY DEF Defer, Retry, NextCall, Prepare, Fails
<1>3. OpenRounds(gens') \subseteq OpenRounds(gens)
  <2> DEFINE m == gens[g].attempt + 1
             q == Tail(gens[g].pending)
             no == FALSE
  <2>1. \/ gens' = [gens EXCEPT ![g].phase = "poll"] \/ gens' = [gens EXCEPT ![g].phase = "prepare", ![g].attempt = m]
        \/ gens' = [gens EXCEPT ![g].pending = q] \/ gens' = [gens EXCEPT ![g].phase = "request", ![g].overflow = no]
        \/ gens' = [gens EXCEPT ![g].phase = "retry"]
    BY <1>2
  <2> HIDE DEF m, q, no
  <2>2. CASE gens' = [gens EXCEPT ![g].phase = "poll"]
    BY <2>2, StoredOpen
  <2>3. CASE gens' = [gens EXCEPT ![g].phase = "prepare", ![g].attempt = m]
    BY <2>3, StoredOpen
  <2>4. CASE gens' = [gens EXCEPT ![g].pending = q]
    BY <2>4, StoredOpen
  <2>5. CASE gens' = [gens EXCEPT ![g].phase = "request", ![g].overflow = no]
    BY <2>5, StoredOpen
  <2>6. CASE gens' = [gens EXCEPT ![g].phase = "retry"]
    BY <2>6, StoredOpen
  <2> QED BY <2>1, <2>2, <2>3, <2>4, <2>5, <2>6
<1>4. Shrinks(comps, comps')
  BY <1>1, ShrinksRefl
<1> QED BY <1>1, <1>3, <1>4, AsidePaired

\* prepare beside a background compaction.
LEMMA PreparePaired == ASSUME Inv, Paired, Apart, NEW g \in DOMAIN gens, Prepare(g) PROVE Paired'
<1> DEFINE yes == TRUE
           no == FALSE
           owner == 0
<1>1. /\ gens' = [gens EXCEPT ![g].phase = "request", ![g].overflow = no] /\ UNCHANGED table
      /\ comps' = comps \/ (comps' = Append(comps, NewCompaction(owner, yes)) /\ "background" \in Hosts)
  BY DEF Prepare, CreateCompaction
<1>2. yes \in BOOLEAN /\ owner \in Nat
  OBVIOUS
<1> HIDE DEF yes, no, owner
<1>3. CASE comps' = comps
  BY <1>3, PhasesPaired
<1>4. CASE comps' = Append(comps, NewCompaction(owner, yes)) /\ "background" \in Hosts
  <2>1. OpenRounds(gens') \subseteq OpenRounds(gens)
    BY <1>1, StoredOpen
  <2>2. MaxRaw = 0
    BY <1>4 DEF Apart
  <2> QED BY <1>1, <1>2, <1>4, <2>1, <2>2, CreatedPaired
<1> QED BY <1>1, <1>3, <1>4

\* A blocking compaction, of a generation without a round.
LEMMA BlocksPaired == ASSUME Inv, Paired, NEW g \in DOMAIN gens, PrepareCompacts(g) \/ Overflow(g) PROVE Paired'
<1> DEFINE yes == TRUE
           no == FALSE
           k == Len(comps) + 1
<1>1. /\ Works(g, {"prepare", "request", "poll"}) /\ UNCHANGED table
      /\ comps' = Append(comps, NewCompaction(g, no))
      /\ \/ gens' = [gens EXCEPT ![g].compacted = k]
         \/ gens' = [gens EXCEPT ![g].phase = "prepare", ![g].overflow = yes, ![g].compacted = k]
  BY DEF PrepareCompacts, Overflow, CreateCompaction, Works
<1>2. no \in BOOLEAN /\ g \in Nat /\ g # 0
  BY InvTypes
<1> HIDE DEF yes, no, k
<1>3. OpenRounds(gens) = {}
  BY <1>1, WorksClosed
<1>4. OpenRounds(gens') \subseteq OpenRounds(gens)
  <2>1. CASE gens' = [gens EXCEPT ![g].compacted = k]
    BY <2>1, StoredOpen
  <2>2. CASE gens' = [gens EXCEPT ![g].phase = "prepare", ![g].overflow = yes, ![g].compacted = k]
    BY <2>2, StoredOpen
  <2> QED BY <1>1, <2>1, <2>2
<1> QED BY <1>1, <1>2, <1>3, <1>4, CreatedPaired

\* A commit that appends no calls and no results.
LEMMA PlainPaired ==
  ASSUME Inv, Paired, entries' \in Seq(EntryRecord), Extends(entries, entries'),
         \A i \in (Len(entries) + 1)..Len(entries') : entries'[i].kind \in {"user", "reset", "summary"},
         OpenRounds(gens') \subseteq OpenRounds(gens), Blocking(gens', comps'),
         NEW K, \A k \in K : Whole(entries, gens, k), Marks(inbox', comps') \subseteq K, Sourced(entries, entries', K),
         OpenRounds(gens') # {} => \A i \in (Len(entries) + 1)..Len(entries') :
           (entries'[i].head \in K \cup {0}) /\ (MaxRaw = 0 => entries'[i].kind # "user")
  PROVE  Paired'
<1>1. Pair(entries', gens', inbox', comps')
  BY InvTypes, PairPlain DEF Paired
<1> QED BY <1>1 DEF Paired

\* One entry, while the generations and the inbox stay.
LEMMA OnePaired ==
  ASSUME Inv, Paired, NEW e \in EntryRecord, e.kind \in {"user", "reset", "summary"}, entries' = Append(entries, e),
         inbox' = inbox, gens' = gens, Shrinks(comps, comps'), e.head \in Marks(inbox, comps) \cup {0},
         MaxRaw = 0 => e.kind # "user"
  PROVE  Paired'
<1> DEFINE K == Marks(inbox, comps) \cup {-1, 0}
<1>1. entries \in Seq(EntryRecord)
  BY InvTypes
<1>2. \A k \in K : Whole(entries, gens, k)
  BY <1>1, MarksWhole DEF Paired
<1>3. /\ entries' \in Seq(EntryRecord) /\ Extends(entries, entries') /\ Sourced(entries, entries', K)
      /\ \A i \in (Len(entries) + 1)..Len(entries') : entries'[i] = e
  <2>1. /\ Append(entries, e) \in Seq(EntryRecord) /\ Len(Append(entries, e)) = Len(entries) + 1 /\ Len(entries) \in Nat
        /\ Append(entries, e)[Len(entries) + 1] = e /\ DOMAIN entries = 1..Len(entries)
        /\ \A j \in DOMAIN entries : Append(entries, e)[j] = entries[j]
    BY <1>1, SeqAppend
  <2>2. Sourced(entries, Append(entries, e), K)
    BY <1>1, SourcedAppend
  <2> HIDE DEF K
  <2>3. \A i \in (Len(entries) + 1)..Len(entries') : i = Len(entries) + 1
    BY <2>1
  <2> QED BY <2>1, <2>2, <2>3 DEF Extends
<1>4. OpenRounds(gens') \subseteq OpenRounds(gens) /\ Blocking(gens, comps) /\ HeadsOf(inbox') \subseteq HeadsOf(inbox)
  BY DEF Paired, Pair
<1>5. Blocking(gens', comps') /\ Marks(inbox', comps') \subseteq Marks(inbox, comps) \cup {0}
  BY <1>4, BlockingShrinks, MarksShrink
<1>6. Marks(inbox', comps') \subseteq K /\ e.head \in K \cup {0}
  BY <1>5
<1> HIDE DEF K
<1> QED BY <1>2, <1>3, <1>4, <1>5, <1>6, PlainPaired

\* ToolExecutionApi.commit.
LEMMA ToolAppendsPaired == ASSUME Inv, Paired, NEW t \in DOMAIN tools, ToolAppends(t) PROVE Paired'
<1> DEFINE e == Entry("user", 0, <<>>, 0)
           C == AppendTo(Draft, e)
<1>1. gens' = gens /\ comps' = comps /\ Commit(C) /\ used.raw < MaxRaw
  BY DEF ToolAppends
<1>2. e \in EntryRecord /\ e.head = 0 /\ e.kind = "user"
  BY DEF Entry, EntryRecord
<1> HIDE DEF e
<1>3. entries' = Append(entries, e) /\ inbox' = inbox
  <2>1. C.inbox = Draft.inbox /\ C.entries = Append(Draft.entries, e)
    BY <1>2, InvTypes, DraftFields, AppendFields
  <2> QED BY <1>1, <2>1, DraftFields DEF Commit
<1>4. MaxRaw # 0
  <2>1. used.raw \in 0..MaxRaw
    BY DEF Inv, Budget
  <2> QED BY <1>1, <2>1
<1>5. Shrinks(comps, comps')
  BY <1>1, ShrinksRefl
<1> QED BY <1>1, <1>2, <1>3, <1>4, <1>5, OnePaired

\* select.
LEMMA SelectPaired == ASSUME Inv, Paired, NEW c \in DOMAIN comps, Select(c) PROVE Paired'
<1>1. PICK cut \in Cuts(entries) : comps' = [comps EXCEPT ![c] = [@ EXCEPT !.phase = "summarize", !.kept = cut]]
  BY DEF Select
<1>2. UNCHANGED <<table, gens>> /\ comps[c].live
  BY DEF Select, CompactionWorks
<1> DEFINE y == comps[c]
           x == [y EXCEPT !.phase = "summarize", !.kept = cut]
           K == Marks(inbox, comps) \cup {-1, 0}
           L == K \cup {cut}
<1>3. entries \in Seq(EntryRecord) /\ y \in CompactionTask /\ comps \in Seq(CompactionTask) /\ cut \in Nat
  BY InvTypes DEF Cuts, Active
<1>4. x \in CompactionTask /\ x.owner = y.owner /\ x.kept = cut /\ x.live = y.live
  <2> HIDE DEF y
  <2> QED BY <1>3 DEF CompactionTask
<1>5. comps' = [comps EXCEPT ![c] = x]
  BY <1>1
<1> HIDE DEF x
<1>6. DOMAIN comps' = DOMAIN comps /\ comps'[c] = x /\ \A d \in DOMAIN comps : d # c => comps'[d] = comps[d]
  BY <1>3, <1>4, <1>5, SeqUpdate
<1>7. Blocking(gens, comps) /\ gens' = gens
  BY <1>2 DEF Paired, Pair
<1>8. Blocking(gens', comps')
  BY <1>4, <1>6, <1>7 DEF Blocking
<1>9. Whole(entries, gens, cut)
  <2>1. MaxRaw = 0 \/ OpenRounds(gens) = {}
    BY <1>2, <1>7 DEF Blocking
  <2> QED BY <1>3, <2>1, CutWhole DEF Paired
<1>10. \A k \in L : Whole(entries, gens, k)
  BY <1>3, <1>9, MarksWhole DEF Paired
<1>11. inbox' = inbox /\ entries' = entries
  BY <1>2 DEF table
<1>12. Marks(inbox', comps') \subseteq L
  BY <1>4, <1>6, <1>11 DEF Marks
<1> HIDE DEF L
<1>13. entries' \in Seq(EntryRecord) /\ Extends(entries, entries') /\ Sourced(entries, entries', L)
  BY <1>3, <1>11, SourcedRefl DEF Extends
<1>14. \A i \in (Len(entries) + 1)..Len(entries') : FALSE
  BY <1>3, <1>11
<1>15. OpenRounds(gens') \subseteq OpenRounds(gens)
  BY <1>2
<1> QED BY <1>8, <1>10, <1>12, <1>13, <1>14, <1>15, PlainPaired

\* A submission is admitted: what it appends while a run is active waits in the inbox.
LEMMA AdmitPaired ==
  ASSUME Inv, Paired, NEW type \in {"input", "write", "summary"}, NEW mode \in {"steer", "followUp", "write"},
         NEW head \in -1..Len(entries), head \in Marks(inbox, comps) \cup {-1, 0}, NEW modes,
         Admit(Draft, type, mode, head, modes, gens), Shrinks(comps, comps')
  PROVE  Paired'
<1> DEFINE K == Marks(inbox, comps) \cup {-1, 0}
<1>0. Ledger
  BY DEF Inv
<1>1. /\ Ledger' /\ Neutral(entries, entries') /\ Sourced(entries, entries', HeadsOf(inbox) \cup {head})
      /\ HeadsOf(inbox') \subseteq HeadsOf(inbox) \cup {head}
      /\ \/ run # NoRun /\ run' = run /\ gens' = gens /\ entries' = entries
         \/ run = NoRun /\ Begins(gens)
  <2>1. Ledger'
    BY <1>0, AdmitSpec
  <2>2. Neutral(entries, entries')
    BY <1>0, AdmitSpec
  <2>3. Sourced(entries, entries', HeadsOf(inbox) \cup {head})
    BY <1>0, AdmitSpec
  <2>4. HeadsOf(inbox') \subseteq HeadsOf(inbox) \cup {head}
    <3>1. HeadsWithin(inbox', inbox, head)
      BY <1>0, AdmitSpec
    <3> QED BY <3>1 DEF HeadsWithin
  <2>5. \/ run # NoRun /\ run' = run /\ gens' = gens /\ entries' = entries
        \/ run = NoRun /\ Begins(gens)
    BY <1>0, AdmitSpec
  <2> QED BY <2>1, <2>2, <2>3, <2>4, <2>5
<1>2. entries \in Seq(EntryRecord) /\ entries' \in Seq(EntryRecord)
  <2>1. (Orderly(Draft))'
    BY <1>1 DEF Ledger
  <2> QED BY <2>1, InvTypes DEF Orderly, Drafts, Draft
<1>3. \A k \in K : Whole(entries, gens, k)
  BY <1>2, MarksWhole DEF Paired
<1>4. OpenRounds(gens') \subseteq OpenRounds(gens) /\ (OpenRounds(gens') = {} \/ entries' = entries)
  <2>1. CASE gens' = gens /\ entries' = entries
    BY <2>1
  <2>2. CASE run = NoRun /\ Begins(gens)
    <3>1. Idle(gens, tools, comps)
      BY <2>2, IdleWithout DEF Inv, Linked
    <3>2. OpenRounds(gens') = {}
      BY <2>2, <3>1, BeginsClosed
    <3> QED BY <3>2
  <2> QED BY <1>1, <2>1, <2>2
<1>5. Blocking(gens', comps')
  <2>1. Blocking(gens, comps)
    BY DEF Paired, Pair
  <2> QED BY <1>4, <2>1, BlockingShrinks
<1>6. Marks(inbox', comps') \subseteq K
  BY <1>1 DEF Marks, Shrinks
<1>7. Sourced(entries, entries', K)
  <2>1. HeadsOf(inbox) \cup {head} \subseteq K
    BY DEF Marks
  <2> HIDE DEF K
  <2> QED BY <1>1, <2>1 DEF Sourced
<1>8. /\ Extends(entries, entries')
      /\ \A i \in (Len(entries) + 1)..Len(entries') : entries'[i].kind \in {"user", "reset", "summary"}
  BY <1>1 DEF Neutral
<1>9. entries' = entries => \A i \in (Len(entries) + 1)..Len(entries') : FALSE
  BY <1>2
<1> HIDE DEF K
<1> QED BY <1>2, <1>3, <1>4, <1>5, <1>6, <1>7, <1>8, <1>9, PlainPaired

\* Submit, of a write that resets or of an input.
LEMMA SubmitPaired ==
  ASSUME Inv, Paired, NEW mode \in {"steer", "followUp", "write"}, NEW head \in {-1, 0}, NEW modes, Submit(mode, head, modes)
  PROVE  Paired'
<1> DEFINE type == IF mode = "write" THEN "write" ELSE "input"
<1>1. type \in {"input", "write", "summary"}
  OBVIOUS
<1>2. Len(entries) \in Nat
  BY InvTypes
<1>3. head \in -1..Len(entries) /\ head \in Marks(inbox, comps) \cup {-1, 0}
  BY <1>2
<1>4. Admit(Draft, type, mode, head, modes, gens) /\ comps' = comps
  BY DEF Submit
<1>5. Shrinks(comps, comps')
  BY <1>4, ShrinksRefl
<1> HIDE DEF type
<1> QED BY <1>1, <1>3, <1>4, <1>5, AdmitPaired

\* placeSummary: its head is the cut the compaction kept.
LEMMA PlaceSummaryPaired == ASSUME Inv, Paired, NEW c \in DOMAIN comps, NEW modes, PlaceSummary(c, modes) PROVE Paired'
<1> DEFINE yes == TRUE
           kept == comps[c].kept
           e == WriteEntry(Draft, kept)
           C == AppendTo(Draft, e)
<1>1. /\ CompactionEnds(c, yes) /\ yes \in BOOLEAN
      /\ \/ comps[c].owner # 0 /\ Commit(C) /\ gens' = gens
         \/ comps[c].owner = 0 /\ Admit(Draft, "summary", "write", kept, modes, gens)
  BY DEF PlaceSummary
<1> HIDE DEF yes
<1>2. PICK x \in CompactionTask : /\ comps' = [comps EXCEPT ![c] = x] /\ x.owner = comps[c].owner
                                  /\ x.kept = 0 /\ ~x.live
  BY <1>1, CompEnded
<1>3. Shrinks(comps, comps')
  BY <1>2, InvTypes, OneShrinks
<1>4. Len(entries) \in Nat /\ kept \in 0..Len(entries) /\ kept \in Marks(inbox, comps)
  BY InvTypes DEF Inv, Comps, Marks
<1>5. CASE comps[c].owner = 0 /\ Admit(Draft, "summary", "write", kept, modes, gens)
  <2>1. kept \in -1..Len(entries) /\ kept \in Marks(inbox, comps) \cup {-1, 0}
    BY <1>4
  <2> HIDE DEF kept
  <2> QED BY <1>3, <1>5, <2>1, AdmitPaired
<1>6. CASE Commit(C) /\ gens' = gens
  <2>1. e = Entry("summary", 0, <<>>, kept) /\ kept \in Nat
    BY <1>4 DEF WriteEntry
  <2>2. e \in EntryRecord /\ e.kind = "summary" /\ e.head = kept
    <3> DEFINE no == <<>>
               zero == 0
    <3>1. no \in Seq(Range(Calls)) /\ zero \in Nat /\ e = Entry("summary", zero, no, kept)
      BY <2>1
    <3> HIDE DEF no, zero, kept, e
    <3>2. LET u == Entry("summary", zero, no, kept)
          IN u \in EntryRecord /\ u.kind = "summary" /\ u.head = kept
      BY <2>1, <3>1, EntryTyped
    <3> QED BY <3>1, <3>2
  <2> HIDE DEF e, kept
  <2>3. entries' = Append(entries, e) /\ inbox' = inbox
    <3>1. C.inbox = Draft.inbox /\ C.entries = Append(Draft.entries, e)
      BY <2>2, InvTypes, DraftFields, AppendFields
    <3> QED BY <1>6, <3>1, DraftFields DEF Commit
  <2> QED BY <1>3, <1>4, <1>6, <2>2, <2>3, OnePaired
<1> QED BY <1>1, <1>5, <1>6

\* A result of the round that is open.
LEMMA SettlesPaired ==
  ASSUME Inv, Paired, NEW t \in DOMAIN tools, tools[t].live, NEW outcome, NEW control, Settles(t, outcome, control)
  PROVE  Paired'
<1> DEFINE x == tools[t]
           a == x.assistant
           e == Result(a, x.call)
           C == AppendTo(Draft, e)
<1>1. gens' = gens /\ comps' = comps /\ Commit(C)
  BY DEF Settles
<1>2. x \in ToolTask
  BY InvTypes
<1>3. a \in Nat /\ x.call \in Range(Calls)
  BY <1>2 DEF ToolTask
<1>4. e \in EntryRecord /\ e.kind = "result" /\ e.of = a /\ e.head = 0
  <2> HIDE DEF x
  <2> QED BY <1>3, ResultFields
<1>5. a \in OpenRounds(gens)
  <2>1. x.gen \in DOMAIN gens /\ a # 0 /\ a = gens[x.gen].assistant /\ gens[x.gen].live
    BY DEF Inv, Linked, Busy
  <2> QED BY <2>1 DEF OpenRounds
<1> HIDE DEF e, a
<1>6. entries' = Append(entries, e) /\ inbox' = inbox /\ entries \in Seq(EntryRecord)
  <2>1. C.inbox = Draft.inbox /\ C.entries = Append(Draft.entries, e)
    BY <1>4, InvTypes, DraftFields, AppendFields
  <2> QED BY <1>1, <2>1, InvTypes, DraftFields DEF Commit
<1>7. /\ entries' \in Seq(EntryRecord) /\ Extends(entries, entries')
      /\ \A i \in (Len(entries) + 1)..Len(entries') : entries'[i] = e
  <2>1. /\ Append(entries, e) \in Seq(EntryRecord) /\ Len(Append(entries, e)) = Len(entries) + 1 /\ Len(entries) \in Nat
        /\ Append(entries, e)[Len(entries) + 1] = e /\ DOMAIN entries = 1..Len(entries)
        /\ \A j \in DOMAIN entries : Append(entries, e)[j] = entries[j]
    BY <1>4, <1>6, SeqAppend
  <2>2. \A i \in (Len(entries) + 1)..Len(entries') : i = Len(entries) + 1
    BY <1>6, <2>1
  <2> QED BY <1>6, <2>1, <2>2 DEF Extends
<1>8. Pair(entries', gens, inbox, comps)
  BY <1>4, <1>5, <1>6, <1>7, PairResults DEF Paired
<1> QED BY <1>1, <1>6, <1>8 DEF Paired

\* A tool that settles.
LEMMA ToolSettlesPaired ==
  ASSUME Inv, Paired, NEW t \in DOMAIN tools,
         \/ ToolRefuses(t) \/ ToolInterrupted(t) \/ ToolAborts(t) \/ \E outcome, control : ToolReturns(t, outcome, control)
  PROVE  Paired'
<1>1. tools[t].live /\ \E outcome, control : Settles(t, outcome, control)
  BY DEF ToolRefuses, ToolInterrupted, ToolAborts, ToolReturns, ToolWorks
<1> QED BY <1>1, SettlesPaired

\* A transcript whose rounds are over, after a boundary.
LEMMA PairEnds ==
  ASSUME NEW E \in Seq(EntryRecord), NEW F \in Seq(EntryRecord), NEW G, NEW H, NEW I, NEW J, NEW C,
         Pair(E, G, I, C), Neutral(E, F), Sourced(E, F, HeadsOf(I) \cup {-1}), HeadsOf(J) \subseteq HeadsOf(I),
         OpenRounds(H) = {}
  PROVE  Pair(F, H, J, C)
<1> DEFINE K == Marks(I, C) \cup {-1, 0}
<1>1. \A k \in K : Whole(E, G, k)
  BY MarksWhole
<1>2. Marks(J, C) \subseteq K
  BY DEF Marks
<1>3. Sourced(E, F, K)
  <2>1. HeadsOf(I) \cup {-1} \subseteq K
    BY DEF Marks
  <2> HIDE DEF K
  <2> QED BY <2>1 DEF Sourced
<1>4. Blocking(H, C)
  <2>1. Blocking(G, C) /\ Shrinks(C, C) /\ OpenRounds(H) \subseteq OpenRounds(G)
    BY ShrinksRefl DEF Pair
  <2> QED BY <2>1, BlockingShrinks
<1>5. Extends(E, F) /\ OpenRounds(H) \subseteq OpenRounds(G)
      /\ \A i \in (Len(E) + 1)..Len(F) : F[i].kind \in {"user", "reset", "summary"}
  BY DEF Neutral
<1> HIDE DEF K
<1> QED BY <1>1, <1>2, <1>3, <1>4, <1>5, PairPlain

\* endRun settles inputs only.
LEMMA EndRunKeeps ==
  ASSUME NEW B \in Drafts, NEW g, NEW st \in Settled, Commit(EndRun(B, g, st))
  PROVE  entries' = B.entries /\ inbox' = B.inbox
<1> DEFINE ids == Range(run.inputs)
           C == Change(B, ids, st)
<1>1. st \in Statuses
  BY DEF Statuses
<1> HIDE DEF ids
<1>2. C.entries = B.entries /\ C.inbox = B.inbox
  BY <1>1, ChangeFields
<1>3. EndRun(B, g, st) = C \/ EndRun(B, g, st) = B
  BY DEF EndRun, ids
<1> HIDE DEF C
<1> QED BY <1>2, <1>3 DEF Commit

\* The run goes to a successor, starts anew or stops, from a transcript 'E'.
LEMMA EndsPaired ==
  ASSUME Inv, NEW g \in DOMAIN gens, Ready(g), comps' = comps,
         NEW o \in {"completed", "failed", "aborted", "faulted"},
         NEW E \in Seq(EntryRecord), Pair(E, gens, inbox, comps), NEW B \in Drafts, Neutral(E, B.entries),
         Sourced(E, B.entries, HeadsOf(inbox) \cup {-1}), HeadsOf(B.inbox) \subseteq HeadsOf(inbox),
         \/ \E st \in Settled : Commit(EndRun(B, g, st)) /\ StartRun(B.users, Ended(g, o))
         \/ Commit(B) /\ o = "completed" /\ \E us \in Seq(Nat) : HandOver(g, us)
  PROVE  Paired'
<1>1. run.task = g /\ Idle(Ended(g, o), tools, comps) /\ run \in [task: Nat, inputs: Seq(Nat)]
  BY ReadyOwnsRun DEF Inv, Busy
<1>2. B.entries \in Seq(EntryRecord) /\ B.users \in Seq(Nat)
  BY DEF Drafts
<1>3. entries' = B.entries /\ inbox' = B.inbox /\ Begins(Ended(g, o))
  <2>1. ASSUME NEW st \in Settled, Commit(EndRun(B, g, st)), StartRun(B.users, Ended(g, o))
        PROVE  entries' = B.entries /\ inbox' = B.inbox /\ Begins(Ended(g, o))
    BY <1>2, <2>1, EndRunKeeps, StartRunSpec
  <2>2. ASSUME Commit(B), o = "completed", NEW us \in Seq(Nat), HandOver(g, us)
        PROVE  entries' = B.entries /\ inbox' = B.inbox /\ Begins(Ended(g, o))
    <3> DEFINE ins == run.inputs \o us
    <3>1. run' = [task |-> Len(gens) + 1, inputs |-> ins] /\ gens' = Append(Ended(g, o), NewGeneration)
      BY <1>1, <2>2 DEF HandOver
    <3>2. ins \in Seq(Nat) /\ Len(Ended(g, o)) = Len(gens)
      BY <1>1, InvTypes, EndedFields
    <3> HIDE DEF ins
    <3>3. Begins(Ended(g, o))
      BY <3>1, <3>2 DEF Begins
    <3> QED BY <2>2, <3>3 DEF Commit
  <2> QED BY <2>1, <2>2
<1>4. OpenRounds(gens') = {}
  <2> DEFINE H == Ended(g, o)
  <2>1. Idle(H, tools, comps) /\ Begins(H)
    BY <1>1, <1>3
  <2> HIDE DEF H
  <2> QED BY <2>1, BeginsClosed
<1>5. entries' \in Seq(EntryRecord) /\ Neutral(E, entries') /\ HeadsOf(inbox') \subseteq HeadsOf(inbox)
      /\ Sourced(E, entries', HeadsOf(inbox) \cup {-1})
  BY <1>2, <1>3
<1>6. Pair(entries', gens', inbox', comps)
  BY <1>4, <1>5, PairEnds
<1> QED BY <1>6 DEF Paired

\* failNoModel, failModelError, a fault and an abort.
LEMMA UnansweredPaired ==
  ASSUME Inv, NEW g \in DOMAIN gens, Ready(g), comps' = comps,
         NEW o \in {"completed", "failed", "aborted", "faulted"}, NEW st \in Settled,
         NEW D, Orderly(D), D.users = <<>>, D.inbox = inbox, Pair(D.entries, gens, inbox, comps), EndsUnanswered(g, D, st, o)
  PROVE  Paired'
<1>1. run.task = g
  BY ReadyOwnsRun DEF Inv
<1>2. Commit(EndRun(D, g, st)) /\ StartRun(D.users, Ended(g, o))
  BY <1>1 DEF EndsUnanswered, RunWithout, StartRun
<1>3. D \in Drafts /\ D.entries \in Seq(EntryRecord) /\ HeadsIn(D.entries)
  BY DEF Orderly, Drafts
<1> DEFINE E == D.entries
<1>4. E \in Seq(EntryRecord) /\ Neutral(E, E) /\ Sourced(E, E, HeadsOf(inbox) \cup {-1}) /\ Pair(E, gens, inbox, comps)
  BY <1>3, NeutralRefl, SourcedRefl
<1>5. Neutral(E, D.entries) /\ Sourced(E, D.entries, HeadsOf(inbox) \cup {-1}) /\ HeadsOf(D.inbox) \subseteq HeadsOf(inbox)
  BY <1>4
<1> HIDE DEF E
<1> QED BY <1>2, <1>3, <1>4, <1>5, EndsPaired

\* These ends with the transcript as it is.
LEMMA DraftEndsPaired ==
  ASSUME Inv, Paired, NEW g \in DOMAIN gens,
         \/ PrepareFails(g) \/ GenerationFaults(g)
         \/ Fails(g) /\ EndsUnanswered(g, Draft, "error", "failed")
  PROVE  Paired'
<1>1. Ready(g) /\ comps' = comps
  BY DEF PrepareFails, GenerationFaults, Fails, Works
<1>2. \/ EndsUnanswered(g, Draft, "error", "failed") \/ EndsUnanswered(g, Draft, "faulted", "faulted")
  BY DEF PrepareFails, GenerationFaults
<1> DEFINE D == Draft
<1>3. Orderly(D) /\ D.users = <<>> /\ D.inbox = inbox /\ Pair(D.entries, gens, inbox, comps)
  BY InvTypes, DraftFields DEF Paired
<1>4. EndsUnanswered(g, D, "error", "failed") \/ EndsUnanswered(g, D, "faulted", "faulted")
  BY <1>2
<1>5. "error" \in Settled /\ "faulted" \in Settled
  BY DEF Settled
<1> HIDE DEF D
<1>6. CASE EndsUnanswered(g, D, "error", "failed")
  BY <1>1, <1>3, <1>5, <1>6, UnansweredPaired
<1>7. CASE EndsUnanswered(g, D, "faulted", "faulted")
  BY <1>1, <1>3, <1>5, <1>7, UnansweredPaired
<1> QED BY <1>4, <1>6, <1>7

\* The abort handler.
LEMMA GenerationAbortsPaired == ASSUME Inv, Paired, NEW g \in DOMAIN gens, GenerationAborts(g) PROVE Paired'
<1> DEFINE s == gens[g].pending
           a == gens[g].assistant
           F == entries \o [i \in DOMAIN s |-> Result(a, s[i])]
           D == [Draft EXCEPT !.entries = F]
<1>1. Draft.entries = entries /\ Orderly(Draft) /\ entries \in Seq(EntryRecord) /\ Draft \in Drafts /\ Draft.inbox = inbox
  BY InvTypes, DraftFields
<1>2. Ready(g) /\ EndsUnanswered(g, D, "aborted", "aborted") /\ comps' = comps
  BY <1>1 DEF GenerationAborts
<1>3. s \in Seq(Range(Calls)) /\ a \in Nat /\ gens[g].live /\ "aborted" \in Settled
  <2>1. gens[g] \in GenerationTask
    BY InvTypes
  <2> QED BY <1>2, <2>1 DEF GenerationTask, Ready, Settled
<1>4. a = 0 => s = <<>>
  BY DEF Inv, Linked
<1>5. /\ F \in Seq(EntryRecord) /\ Len(F) = Len(entries) + Len(s) /\ Extends(entries, F)
      /\ \A i \in (Len(entries) + 1)..Len(F) : F[i].head = 0 /\ F[i].of = a /\ F[i].kind = "result"
  <2>1. F = entries \o ResultsFor(a, s)
    BY DEF ResultsFor
  <2> HIDE DEF s, a, F
  <2>2. Followed(entries, F, a, s)
    BY <1>1, <1>3, <2>1, ResultsFollow
  <2> QED BY <2>2 DEF Followed
<1>6. Pair(F, gens, inbox, comps)
  <2>1. CASE a = 0
    <3>1. F = entries
      <4>1. s = <<>>
        BY <1>4, <2>1
      <4>2. Len(F) = Len(entries) /\ \A i \in 1..Len(entries) : F[i] = entries[i]
        BY <1>1, <1>5, <4>1 DEF Extends
      <4> HIDE DEF F
      <4> QED BY <1>1, <1>5, <4>2
    <3> QED BY <3>1 DEF Paired
  <2>2. CASE a # 0
    <3>1. a \in OpenRounds(gens)
      BY <1>3, <2>2 DEF OpenRounds
    <3> HIDE DEF F, a
    <3> QED BY <1>1, <1>5, <3>1, PairResults DEF Paired
  <2> QED BY <2>1, <2>2
<1> HIDE DEF F, s, a
<1>7. Orderly(D) /\ D.users = <<>> /\ D.entries = F
  <2>1. \A i \in (Len(entries) + 1)..Len(F) : F[i].head = 0
    BY <1>5
  <2> QED BY <1>1, <1>5, <2>1, EntriesDraft
<1>8. D.inbox = inbox
  <2> DEFINE A == Draft
  <2>1. A \in Drafts /\ A.inbox = inbox /\ D = [A EXCEPT !.entries = F]
    BY <1>1
  <2> HIDE DEF A, D
  <2> QED BY <2>1 DEF Drafts
<1>9. Pair(D.entries, gens, inbox, comps)
  BY <1>6, <1>7
<1> HIDE DEF D
<1> QED BY <1>2, <1>3, <1>7, <1>8, <1>9, UnansweredPaired

\* Where the cuts lie.
LEMMA MarksBelow == ASSUME Inv PROVE \A k \in Marks(inbox, comps) : k \in Int /\ k <= Len(entries)
<1>1. Len(entries) \in Nat /\ \A c \in DOMAIN comps : comps[c].kept \in 0..Len(entries)
  BY InvTypes DEF Inv, Comps
<1>2. \A i \in DOMAIN inbox : inbox[i].head \in -1..Len(entries)
  BY InvTypes, DraftFields DEF Orderly
<1> QED BY <1>1, <1>2 DEF Marks, HeadsOf

\* A response without calls opens no round.
LEMMA AnsweredPaired ==
  ASSUME Inv, Paired, OpenRounds(gens) = {}
  PROVE  LET D == AppendTo(Draft, AssistantEntry(<<>>))
         IN D.inbox = inbox /\ D.entries \in Seq(EntryRecord) /\ Pair(D.entries, gens, inbox, comps)
<1> DEFINE e == AssistantEntry(<<>>)
           D == AppendTo(Draft, e)
<1>1. entries \in Seq(EntryRecord) /\ HeadsIn(entries)
  BY InvTypes
<1>2. e \in EntryRecord /\ e.kind = "assistant" /\ e.head = 0
  <2> DEFINE no == <<>>
             zero == 0
  <2>1. no \in Seq(Range(Calls)) /\ zero \in Nat
    OBVIOUS
  <2> HIDE DEF no, zero
  <2>2. LET x == Entry("assistant", zero, no, zero)
        IN x \in EntryRecord /\ x.kind = "assistant" /\ x.head = zero
    BY <2>1, EntryTyped
  <2> QED BY <2>2 DEF AssistantEntry, no, zero
<1> HIDE DEF e
<1>3. D.inbox = inbox /\ D.entries = Append(entries, e)
  <2>1. D.inbox = Draft.inbox /\ D.entries = Append(Draft.entries, e)
    BY <1>2, InvTypes, DraftFields, AppendFields
  <2> QED BY <2>1, DraftFields
<1> HIDE DEF D
<1> DEFINE F == Append(entries, e)
           n == Len(entries)
<1>4. /\ F \in Seq(EntryRecord) /\ Len(F) = n + 1 /\ n \in Nat /\ F[n + 1] = e /\ DOMAIN entries = 1..n
      /\ \A j \in DOMAIN entries : F[j] = entries[j]
  BY <1>1, <1>2, SeqAppend
<1> HIDE DEF F
<1>5. Extends(entries, F) /\ n < Len(F) /\ \A i \in (n + 2)..Len(F) : FALSE
  BY <1>4 DEF Extends
<1>6. Blocking(gens, comps)
  BY DEF Paired, Pair
<1>7. OpenRounds(gens) \subseteq {n + 1}
  OBVIOUS
<1>8. Pair(F, gens, inbox, comps)
  BY <1>1, <1>2, <1>4, <1>5, <1>6, <1>7, MarksBelow, PairAsks DEF Paired
<1> QED BY <1>3, <1>4, <1>8 DEF F, D, e

\* applyBoundary, of a draft with the inbox of the state.
LEMMA BoundaryMoves ==
  ASSUME NEW D, Orderly(D), D.inbox = inbox, NEW at, NEW modes
  PROVE  LET B == Boundary(D, at, modes)
         IN /\ Orderly(B) /\ Neutral(D.entries, B.entries) /\ HeadsOf(B.inbox) \subseteq HeadsOf(inbox)
            /\ Sourced(D.entries, B.entries, HeadsOf(inbox) \cup {-1})
<1> DEFINE B == Boundary(D, at, modes)
<1>1. Places(D, B)
  BY BoundarySpec
<1> HIDE DEF B
<1>2. /\ Orderly(B) /\ Neutral(D.entries, B.entries) /\ HeadsOf(B.inbox) \subseteq HeadsOf(inbox)
      /\ Sourced(D.entries, B.entries, HeadsOf(inbox))
  BY <1>1 DEF Places
<1>3. Sourced(D.entries, B.entries, HeadsOf(inbox) \cup {-1})
  BY <1>2 DEF Sourced
<1> QED BY <1>2, <1>3 DEF B

\* An onYield continuation: one more user entry.
LEMMA ContinuedMoves ==
  ASSUME NEW E \in Seq(EntryRecord), HeadsIn(E), NEW K, NEW B, Orderly(B), Neutral(E, B.entries), Sourced(E, B.entries, K)
  PROVE  LET C == AppendTo(B, Entry("user", 0, <<>>, 0))
         IN /\ Orderly(C) /\ C.inbox = B.inbox /\ Neutral(E, C.entries) /\ Sourced(E, C.entries, K)
<1> DEFINE e == Entry("user", 0, <<>>, 0)
           C == AppendTo(B, e)
           F == B.entries
           L == C.entries
<1>1. e \in EntryRecord /\ e.kind = "user" /\ e.head = 0
  <2> DEFINE no == <<>>
             zero == 0
  <2>1. no \in Seq(Range(Calls)) /\ zero \in Nat
    OBVIOUS
  <2> HIDE DEF no, zero
  <2>2. LET x == Entry("user", zero, no, zero)
        IN x \in EntryRecord /\ x.kind = "user" /\ x.head = zero
    BY <2>1, EntryTyped
  <2> QED BY <2>2 DEF no, zero
<1> HIDE DEF e
<1>2. Orderly(C) /\ C.inbox = B.inbox /\ L = Append(F, e)
  BY <1>1, OrderlyAppend
<1> HIDE DEF C
<1>3. F \in Seq(EntryRecord) /\ HeadsIn(F) /\ L \in Seq(EntryRecord)
  BY <1>2 DEF Orderly, Drafts
<1> HIDE DEF F, L
<1>4. e.head <= Len(F) + 1
  BY <1>1, <1>3
<1>5. Neutral(F, L) /\ Sourced(F, L, K)
  BY <1>1, <1>2, <1>3, <1>4, NeutralAppend, SourcedAppend
<1>6. Neutral(E, F) /\ Sourced(E, F, K)
  BY DEF F
<1>7. Neutral(E, L)
  BY <1>3, <1>5, <1>6, NeutralTrans
<1>8. Extends(E, F) /\ Extends(F, L) /\ K \subseteq K
  BY <1>5, <1>6 DEF Neutral
<1>9. Sourced(E, L, K)
  BY <1>3, <1>5, <1>6, <1>8, SourcedTrans
<1> QED BY <1>2, <1>7, <1>9 DEF L, C, e

\* answer.
LEMMA AnswerPaired ==
  ASSUME Inv, Paired, NEW g \in DOMAIN gens, NEW modes, NEW continue \in BOOLEAN, Answer(g, modes, continue)
  PROVE  Paired'
<1> DEFINE D == AppendTo(Draft, AssistantEntry(<<>>))
           B == Boundary(D, "final", modes)
           C == AppendTo(B, Entry("user", 0, <<>>, 0))
           E == D.entries
           K == HeadsOf(inbox) \cup {-1}
<1>1. /\ Works(g, {"request", "poll"}) /\ comps' = comps
      /\ \/ Commit(C) /\ HandOver(g, <<>>)
         \/ Commit(EndRun(B, g, "done")) /\ StartRun(B.users, Ended(g, "completed"))
  BY DEF Answer
<1>2. Ready(g) /\ OpenRounds(gens) = {}
  <2> DEFINE ps == {"request", "poll"}
  <2>1. Works(g, ps) /\ "tools" \notin ps
    BY <1>1
  <2> HIDE DEF ps
  <2> QED BY <2>1, WorksFields, WorksClosed
<1>3. Orderly(D) /\ D.inbox = inbox /\ E \in Seq(EntryRecord) /\ Pair(E, gens, inbox, comps)
  BY <1>2, AnsweredDraft, AnsweredPaired
<1>4. HeadsIn(E)
  BY <1>3 DEF Orderly
<1> HIDE DEF D
<1>5. /\ Orderly(B) /\ Neutral(E, B.entries) /\ HeadsOf(B.inbox) \subseteq HeadsOf(inbox) /\ Sourced(E, B.entries, K)
  BY <1>3, BoundaryMoves
<1> HIDE DEF B, E, K
<1>6. Orderly(C) /\ C.inbox = B.inbox /\ Neutral(E, C.entries) /\ Sourced(E, C.entries, K)
  BY <1>3, <1>4, <1>5, ContinuedMoves
<1> HIDE DEF C
<1>7. "done" \in Settled /\ <<>> \in Seq(Nat) /\ B \in Drafts /\ C \in Drafts /\ HeadsOf(C.inbox) \subseteq HeadsOf(inbox)
  BY <1>5, <1>6 DEF Settled, Orderly
<1>8. Sourced(E, B.entries, HeadsOf(inbox) \cup {-1}) /\ Sourced(E, C.entries, HeadsOf(inbox) \cup {-1})
  BY <1>5, <1>6 DEF K
<1>9. CASE Commit(C) /\ HandOver(g, <<>>)
  BY <1>1, <1>2, <1>3, <1>6, <1>7, <1>8, <1>9, EndsPaired
<1>10. CASE Commit(EndRun(B, g, "done")) /\ StartRun(B.users, Ended(g, "completed"))
  BY <1>1, <1>2, <1>3, <1>5, <1>7, <1>8, <1>10, EndsPaired
<1> QED BY <1>1, <1>9, <1>10

\* The draft a tool round ends with, and its boundary.
LEMMA FinishMoves ==
  ASSUME Inv, NEW D, D = Draft \/ D = AppendTo(Draft, WriteEntry(Draft, -1)), NEW at, NEW modes
  PROVE  LET B == Boundary(D, at, modes)
         IN /\ Orderly(B) /\ Neutral(entries, B.entries) /\ HeadsOf(B.inbox) \subseteq HeadsOf(inbox)
            /\ Sourced(entries, B.entries, HeadsOf(inbox) \cup {-1})
<1> DEFINE K == HeadsOf(inbox) \cup {-1}
           A == Draft
           C == AppendTo(A, WriteEntry(A, -1))
           B == Boundary(D, at, modes)
           F == D.entries
           L == B.entries
<1>1. Orderly(A) /\ A.inbox = inbox /\ A.entries = entries /\ entries \in Seq(EntryRecord) /\ HeadsIn(entries)
  BY InvTypes, DraftFields
<1>2. Orderly(C) /\ C.inbox = A.inbox /\ Neutral(A.entries, C.entries) /\ Sourced(A.entries, C.entries, {-1})
  <2> DEFINE h == -1
  <2>1. h \in Int /\ h \in -1..Len(A.entries) /\ ~IsStale(A, h)
    <3>1. Len(A.entries) \in Nat
      BY <1>1 DEF Orderly, Drafts
    <3> QED BY <3>1 DEF IsStale
  <2>2. C = AppendTo(A, WriteEntry(A, h))
    OBVIOUS
  <2> HIDE DEF A, C, h
  <2>3. Orderly(C) /\ C.inbox = A.inbox /\ Neutral(A.entries, C.entries) /\ Sourced(A.entries, C.entries, {h})
    BY <1>1, <2>1, <2>2, OrderlyWrite
  <2> QED BY <2>3 DEF h
<1>3. D = A \/ D = C
  OBVIOUS
<1> HIDE DEF A, C
<1>4. Orderly(D) /\ D.inbox = inbox /\ Neutral(entries, F) /\ Sourced(entries, F, K)
  <2>1. CASE D = A
    <3>1. F = entries
      BY <1>1, <2>1
    <3> HIDE DEF F, K
    <3> QED BY <1>1, <2>1, <3>1, NeutralRefl, SourcedRefl
  <2>2. CASE D = C
    <3>1. F = C.entries /\ Sourced(entries, F, {-1}) /\ Neutral(entries, F)
      BY <1>1, <1>2, <2>2
    <3>2. Sourced(entries, F, K)
      <4> HIDE DEF F
      <4> QED BY <3>1 DEF Sourced
    <3> QED BY <1>1, <1>2, <2>2, <3>1, <3>2
  <2> QED BY <1>3, <2>1, <2>2
<1>5. Orderly(B) /\ Neutral(F, L) /\ HeadsOf(B.inbox) \subseteq HeadsOf(inbox) /\ Sourced(F, L, K)
  BY <1>4, BoundaryMoves
<1>6. F \in Seq(EntryRecord) /\ L \in Seq(EntryRecord)
  BY <1>4, <1>5 DEF Orderly, Drafts
<1>7. L = B.entries
  OBVIOUS
<1> HIDE DEF B, F, L, K
<1>8. Neutral(entries, L)
  BY <1>1, <1>4, <1>5, <1>6, NeutralTrans
<1>9. Extends(entries, F) /\ Extends(F, L) /\ K \subseteq K
  BY <1>4, <1>5 DEF Neutral
<1>10. Sourced(entries, L, K)
  BY <1>1, <1>4, <1>5, <1>6, <1>9, SourcedTrans
<1> QED BY <1>5, <1>7, <1>8, <1>10 DEF B, K

\* finishToolRound.
LEMMA FinishToolRoundPaired ==
  ASSUME Inv, Paired, NEW g \in DOMAIN gens, NEW modes, FinishToolRound(g, modes) PROVE Paired'
<1>1. Ready(g) /\ comps' = comps
  BY DEF FinishToolRound, Works
<1>2. PICK D, at : /\ D = Draft \/ D = AppendTo(Draft, WriteEntry(Draft, -1))
                   /\ LET B == Boundary(D, at, modes)
                      IN \/ Commit(EndRun(B, g, "done")) /\ StartRun(B.users, Ended(g, "completed"))
                         \/ Commit(EndRun(B, g, "reset")) /\ StartRun(B.users, Ended(g, "completed"))
                         \/ Commit(B) /\ HandOver(g, B.users)
  BY FinishesWith
<1> DEFINE B == Boundary(D, at, modes)
           E == entries
<1>3. \/ Commit(EndRun(B, g, "done")) /\ StartRun(B.users, Ended(g, "completed"))
      \/ Commit(EndRun(B, g, "reset")) /\ StartRun(B.users, Ended(g, "completed"))
      \/ Commit(B) /\ HandOver(g, B.users)
  BY <1>2
<1>4. /\ Orderly(B) /\ Neutral(E, B.entries) /\ HeadsOf(B.inbox) \subseteq HeadsOf(inbox)
      /\ Sourced(E, B.entries, HeadsOf(inbox) \cup {-1})
  BY <1>2, FinishMoves
<1> HIDE DEF B
<1>5. "done" \in Settled /\ "reset" \in Settled /\ B \in Drafts /\ B.users \in Seq(Nat)
  BY <1>4 DEF Settled, Orderly, Drafts
<1>6. E \in Seq(EntryRecord) /\ Pair(E, gens, inbox, comps)
  BY InvTypes DEF Paired
<1> HIDE DEF E
<1>7. CASE Commit(B) /\ HandOver(g, B.users)
  BY <1>1, <1>4, <1>5, <1>6, <1>7, EndsPaired
<1>8. CASE Commit(EndRun(B, g, "done")) /\ StartRun(B.users, Ended(g, "completed"))
  BY <1>1, <1>4, <1>5, <1>6, <1>8, EndsPaired
<1>9. CASE Commit(EndRun(B, g, "reset")) /\ StartRun(B.users, Ended(g, "completed"))
  BY <1>1, <1>4, <1>5, <1>6, <1>9, EndsPaired
<1> QED BY <1>3, <1>7, <1>8, <1>9

\* A round's entries: the response, then results of its calls only.
LEMMA RoundEntries ==
  ASSUME NEW E \in Seq(EntryRecord), NEW cs \in Seq(Range(Calls)), NEW ms \in Seq(Range(Calls))
  PROVE  LET a == Len(E) + 1
             F == Append(E, AssistantEntry(cs)) \o [i \in DOMAIN ms |-> Result(a, ms[i])]
         IN /\ F \in Seq(EntryRecord) /\ Extends(E, F) /\ Len(E) < Len(F)
            /\ F[Len(E) + 1].kind = "assistant" /\ \A i \in (Len(E) + 1)..Len(F) : F[i].head = 0
            /\ \A i \in (Len(E) + 2)..Len(F) : F[i].kind = "result" /\ F[i].of = Len(E) + 1
<1> DEFINE n == Len(E)
           a == n + 1
           e == AssistantEntry(cs)
           B == Append(E, e)
           F == B \o [i \in DOMAIN ms |-> Result(a, ms[i])]
<1>1. e \in EntryRecord /\ e.kind = "assistant" /\ e.head = 0
  <2> DEFINE zero == 0
  <2>1. zero \in Nat
    OBVIOUS
  <2> HIDE DEF zero
  <2>2. LET x == Entry("assistant", zero, cs, zero)
        IN x \in EntryRecord /\ x.kind = "assistant" /\ x.head = zero
    BY <2>1, EntryTyped
  <2> QED BY <2>2 DEF AssistantEntry, zero
<1> HIDE DEF e
<1>2. /\ B \in Seq(EntryRecord) /\ Len(B) = n + 1 /\ n \in Nat /\ B[n + 1] = e /\ DOMAIN E = 1..n
      /\ \A j \in DOMAIN E : B[j] = E[j]
  BY <1>1, SeqAppend
<1> HIDE DEF B
<1>3. Followed(B, F, a, ms)
  <2>1. a \in Nat /\ F = B \o ResultsFor(a, ms)
    BY <1>2 DEF ResultsFor
  <2> HIDE DEF a, F
  <2> QED BY <1>2, <2>1, ResultsFollow
<1> HIDE DEF F
<1>4. /\ F \in Seq(EntryRecord) /\ Extends(B, F)
      /\ \A i \in (n + 2)..Len(F) : F[i].head = 0 /\ F[i].of = a /\ F[i].kind = "result"
  <2>1. Len(B) + 1 = n + 2
    BY <1>2
  <2> QED BY <1>3, <2>1 DEF Followed
<1>5. Len(F) \in Nat /\ n + 1 <= Len(F) /\ F[n + 1] = e /\ \A i \in 1..n : F[i] = E[i]
  <2>1. /\ Len(F) \in Nat /\ n + 1 <= Len(F) /\ n + 1 \in 1..(n + 1)
        /\ \A i \in 1..(n + 1) : F[i] = B[i]
    BY <1>2, <1>4 DEF Extends
  <2>2. \A i \in 1..n : i \in 1..(n + 1) /\ i \in DOMAIN E
    BY <1>2
  <2> HIDE DEF n
  <2> QED BY <1>2, <2>1, <2>2
<1>6. \A i \in (n + 1)..Len(F) : i = n + 1 \/ i \in (n + 2)..Len(F)
  BY <1>2, <1>5
<1>7. \A i \in (n + 1)..Len(F) : F[i].head = 0
  BY <1>1, <1>4, <1>5, <1>6
<1>8. Extends(E, F) /\ n < Len(F)
  BY <1>2, <1>5 DEF Extends
<1> QED BY <1>1, <1>4, <1>5, <1>7, <1>8 DEF F, B, e

\* startToolRound.
LEMMA StartToolRoundPaired ==
  ASSUME Inv, Paired, NEW g \in DOMAIN gens, NEW cs \in Rounds, NEW offered, NEW sequential \in BOOLEAN,
         StartToolRound(g, cs, offered, sequential)
  PROVE  Paired'
<1> DEFINE z == gens[g]
           a == Len(entries) + 1
           ms == Only(cs, {i \in DOMAIN cs : cs[i] \notin offered})
           w == Only(cs, {i \in DOMAIN cs : cs[i] \in offered})
           pd == IF sequential /\ w # <<>> THEN Tail(w) ELSE <<>>
           F == Append(entries, AssistantEntry(cs)) \o [i \in DOMAIN ms |-> Result(a, ms[i])]
           D == [Draft EXCEPT !.entries = F]
           y == [z EXCEPT !.phase = "tools", !.assistant = a, !.pending = pd]
           H == [gens EXCEPT ![g] = y]
<1>1. Draft.entries = entries /\ Draft.inbox = inbox /\ Draft \in Drafts /\ entries \in Seq(EntryRecord) /\ HeadsIn(entries)
  BY InvTypes, DraftFields
<1>2. Works(g, {"request", "poll"}) /\ Commit(D) /\ gens' = H /\ comps' = comps
  BY <1>1 DEF StartToolRound
<1>3. Ready(g) /\ z \in GenerationTask /\ OpenRounds(gens) = {} /\ gens \in Seq(GenerationTask)
  <2> DEFINE ps == {"request", "poll"}
  <2>1. Works(g, ps) /\ "tools" \notin ps
    BY <1>2
  <2> HIDE DEF ps
  <2> QED BY <2>1, InvTypes, WorksFields, WorksClosed
<1>4. cs \in Seq(Range(Calls))
  <2>1. PICK n \in 1..Len(Calls) : cs = SubSeq(Calls, 1, n)
    BY DEF Rounds
  <2>2. Calls \in Seq(Range(Calls))
    BY ConversationAssumption
  <2> QED BY <2>1, <2>2
<1>5. ms \in Seq(Range(Calls)) /\ pd \in Seq(Range(Calls))
  <2> DEFINE S == {i \in DOMAIN cs : cs[i] \notin offered}
             P == {i \in DOMAIN cs : cs[i] \in offered}
  <2>1. S \in SUBSET DOMAIN cs /\ P \in SUBSET DOMAIN cs
    OBVIOUS
  <2> HIDE DEF S, P
  <2>2. Only(cs, S) \in Seq(Range(Calls)) /\ Only(cs, P) \in Seq(Range(Calls))
    BY <1>4, <2>1, OnlySpec
  <2>3. ms = Only(cs, S) /\ w = Only(cs, P)
    BY DEF S, P
  <2> HIDE DEF ms, w
  <2> QED BY <2>2, <2>3
<1> HIDE DEF ms, pd
<1>6. /\ F \in Seq(EntryRecord) /\ Extends(entries, F) /\ Len(entries) < Len(F)
      /\ F[Len(entries) + 1].kind = "assistant" /\ \A i \in (Len(entries) + 1)..Len(F) : F[i].head = 0
      /\ \A i \in (Len(entries) + 2)..Len(F) : F[i].kind = "result" /\ F[i].of = Len(entries) + 1
  BY <1>1, <1>4, <1>5, RoundEntries
<1> HIDE DEF F
<1>7. entries' = F /\ inbox' = inbox
  <2> DEFINE A == Draft
  <2>1. A \in Drafts /\ A.inbox = inbox /\ D = [A EXCEPT !.entries = F]
    BY <1>1
  <2> HIDE DEF A
  <2>2. D.entries = F /\ D.inbox = inbox
    BY <2>1 DEF Drafts
  <2> HIDE DEF D
  <2> QED BY <1>2, <2>2 DEF Commit
<1>8. y \in GenerationTask /\ y.assistant = a /\ y.live = z.live
  <2>1. a \in Nat
    BY <1>1
  <2> HIDE DEF z, a
  <2> QED BY <1>3, <1>5, <2>1 DEF GenerationTask
<1> HIDE DEF y, D
<1>9. DOMAIN H = DOMAIN gens /\ H[g] = y /\ \A h \in DOMAIN gens : h # g => H[h] = gens[h]
  BY <1>3, <1>8, SeqUpdate
<1> HIDE DEF H
<1>10. OpenRounds(H) \subseteq {Len(entries) + 1}
  <2>1. \A h \in DOMAIN gens : gens[h].live => gens[h].assistant = 0
    BY <1>3 DEF OpenRounds
  <2>2. \A h \in DOMAIN H : H[h].live => H[h].assistant \in {0, a}
    BY <1>8, <1>9, <2>1
  <2> QED BY <2>2 DEF OpenRounds
<1>11. Blocking(H, comps)
  <2>1. ASSUME MaxRaw # 0, NEW c \in DOMAIN comps PROVE comps[c].owner # 0 /\ ~comps[c].live
    <3>1. comps[c].owner # 0
      BY <2>1 DEF Paired, Pair, Blocking
    <3>2. ASSUME comps[c].live PROVE FALSE
      <4>1. comps[c].owner = g
        BY <1>3, <3>1, <3>2, InvTypes, ReadyOwnsRun DEF Inv, Owned
      <4> QED BY <1>3, <3>2, <4>1 DEF Ready, OwnedComps
    <3> QED BY <3>1, <3>2
  <2> QED BY <2>1 DEF Blocking
<1>12. Pair(F, H, inbox, comps)
  <2>1. /\ F[Len(entries) + 1].head = 0
        /\ \A i \in (Len(entries) + 2)..Len(F) : F[i].kind = "result" /\ F[i].of = Len(entries) + 1 /\ F[i].head = 0
    <3>1. \A i \in (Len(entries) + 2)..Len(F) : i \in (Len(entries) + 1)..Len(F)
      BY <1>1
    <3>2. Len(entries) + 1 \in (Len(entries) + 1)..Len(F)
      BY <1>1, <1>6
    <3> QED BY <1>6, <3>1, <3>2
  <2> QED BY <1>1, <1>6, <1>10, <1>11, <2>1, MarksBelow, PairAsks DEF Paired
<1> QED BY <1>2, <1>7, <1>12 DEF Paired

\* The steps of hosts.
LEMMA HostPaired == ASSUME Inv, Paired, Apart, Host PROVE Paired'
<1>1. ASSUME NEW modes \in Modes, Submit("followUp", 0, modes) PROVE Paired'
  BY <1>1, SubmitPaired
<1>2. ASSUME NEW modes \in Modes, Submit("steer", 0, modes) PROVE Paired'
  BY <1>2, SubmitPaired
<1>3. ASSUME NEW modes \in Modes, Submit("write", -1, modes) PROVE Paired'
  BY <1>3, SubmitPaired
<1>4. ASSUME NEW id \in DOMAIN subs, Withdraw(id) PROVE Paired'
  BY <1>4, WithdrawPaired
<1>5. ASSUME NEW background \in BOOLEAN, AbortConversation(background) PROVE Paired'
  BY <1>5, AbortConversationPaired
<1>6. ASSUME NEW g \in DOMAIN gens, AbortTask(g) PROVE Paired'
  BY <1>6, AbortTaskPaired
<1>7. ASSUME Compact PROVE Paired'
  BY <1>7, CompactPaired
<1> QED BY <1>1, <1>2, <1>3, <1>4, <1>5, <1>6, <1>7 DEF Host

\* The steps of a generation.
LEMMA GenerationPaired == ASSUME Inv, Paired, Apart, NEW g \in DOMAIN gens, Generation(g) PROVE Paired'
<1>1. ASSUME PrepareFails(g) \/ Fails(g) PROVE Paired'
  <2>1. \/ PrepareFails(g)
        \/ Fails(g) /\ gens' = [gens EXCEPT ![g].phase = "retry"] /\ UNCHANGED table
        \/ Fails(g) /\ EndsUnanswered(g, Draft, "error", "failed")
    BY <1>1 DEF Fails
  <2> QED BY <2>1, PhasesPaired, DraftEndsPaired
<1>2. ASSUME Defer(g) \/ Retry(g) \/ NextCall(g) PROVE Paired'
  BY <1>2, PhasesPaired
<1>3. ASSUME NEW modes \in Modes, NEW continue \in BOOLEAN, Answer(g, modes, continue) PROVE Paired'
  BY <1>3, AnswerPaired
<1>4. ASSUME NEW calls \in Rounds, NEW sequential \in (IF "sequential" \in Hosts THEN BOOLEAN ELSE {FALSE}),
             NEW offered \in (IF "unavailable" \in Hosts THEN SUBSET Range(calls) ELSE {Range(calls)}),
             StartToolRound(g, calls, offered, sequential)
      PROVE  Paired'
  <2>1. sequential \in BOOLEAN
    OBVIOUS
  <2> QED BY <1>4, <2>1, StartToolRoundPaired
<1>5. ASSUME NEW modes \in Modes, FinishToolRound(g, modes) PROVE Paired'
  BY <1>5, FinishToolRoundPaired
<1>6. ASSUME PrepareCompacts(g) \/ Overflow(g) \/ Prepare(g) \/ GenerationAborts(g) PROVE Paired'
  BY <1>6, BlocksPaired, PreparePaired, GenerationAbortsPaired
<1> QED BY <1>1, <1>2, <1>3, <1>4, <1>5, <1>6 DEF Generation

\* The steps of a tool.
LEMMA ToolPaired == ASSUME Inv, Paired, NEW t \in DOMAIN tools, Tool(t) PROVE Paired'
<1>1. ASSUME ToolIntends(t) \/ ToolReruns(t) PROVE Paired'
  BY <1>1, ToolMovesPaired
<1>2. ASSUME ToolAppends(t) PROVE Paired'
  BY <1>2, ToolAppendsPaired
<1>3. ASSUME \/ ToolRefuses(t) \/ ToolInterrupted(t) \/ ToolAborts(t)
             \/ \E outcome \in {"completed", "failed"}, control \in {"none", "terminate", "handoff"} :
                  ToolReturns(t, outcome, control)
      PROVE  Paired'
  BY <1>3, ToolSettlesPaired
<1> QED BY <1>1, <1>2, <1>3 DEF Tool

\* Every step.
LEMMA NextPaired == ASSUME Inv, Paired, Apart, [Next]_vars PROVE Paired'
<1>1. ASSUME NEW c \in DOMAIN comps, Compaction(c) PROVE Paired'
  BY <1>1, SelectPaired, CompactionGivesUpPaired, PlaceSummaryPaired DEF Compaction
<1>2. ASSUME NEW g \in DOMAIN gens, GenerationFaults(g) PROVE Paired'
  BY <1>2, DraftEndsPaired
<1>3. ASSUME Crash \/ \E t \in DOMAIN tools : ToolFaults(t) PROVE Paired'
  BY <1>3, ToolMovesPaired
<1>4. ASSUME UNCHANGED vars PROVE Paired'
  BY <1>4 DEF vars, Paired
<1> QED BY <1>1, <1>2, <1>3, <1>4, HostPaired, ReconcilePaired, GenerationPaired, ToolPaired DEF Next

\* Nothing has happened yet.
LEMMA InitPaired == Init => Paired
<1> SUFFICES ASSUME Init PROVE Paired
  OBVIOUS
<1> DEFINE no == <<>>
<1>1. inbox = no /\ entries = no /\ gens = no /\ comps = no /\ DOMAIN no = {}
  BY DEF Init
<1> HIDE DEF no
<1>2. OpenRounds(no) = {} /\ Marks(no, no) = {}
  BY <1>1 DEF OpenRounds, Marks, HeadsOf
<1>3. Answers(no) /\ Asking(no, no) /\ Blocking(no, no) /\ Whole(no, no, RangeStart(no))
  BY <1>1, <1>2 DEF Answers, Asking, Blocking, Whole
<1> QED BY <1>1, <1>2, <1>3 DEF Paired, Pair

\* A result is in the active range together with the response that asked for
\* it, whatever compactions, resets, writes and aborts cut away: selectCut
\* offers no place between a call and its results, and no step moves the head
\* into a round.  Where tools append messages of their own this holds if no
\* compaction works beside them.
THEOREM PairsKept == Apart /\ Spec => []PairsStayTogether
<1> DEFINE IInv == Inv /\ Paired /\ Apart
<1>1. Apart /\ Init => IInv
  BY InitInv, InitPaired
<1>2. IInv /\ [Next]_vars => IInv'
  <2> SUFFICES ASSUME IInv, [Next]_vars PROVE IInv'
    OBVIOUS
  <2>1. Inv'
    BY NextSound
  <2>2. Paired'
    BY NextPaired
  <2>3. Apart'
    BY DEF Apart
  <2> QED BY <2>1, <2>2, <2>3
<1>3. IInv => PairsStayTogether
  BY InvTypes, PairedActive DEF Paired, PairsStayTogether
<1> HIDE DEF IInv
<1> QED BY <1>1, <1>2, <1>3, PTL DEF Spec
=============================================================================
