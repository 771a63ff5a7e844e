-------------------------- MODULE ContextViewProofs --------------------------
(***************************************************************************)
(* ContextView: what a request shows reduced stays reduced, and what a     *)
(* fact alone rests on stays in full, for branches of any length, any      *)
(* sizes, targets, cache lifetimes and thresholds.                         *)
(***************************************************************************)
EXTENDS ContextView, FiniteSetTheorems, WellFoundedInduction, TLAPS

----------------------------------------------------------------------------
(* First places.                                                           *)

\* A non-empty set of numbers has a least one.
LEMMA Least == ASSUME NEW S, S \subseteq Nat, S # {} PROVE \E x \in S : \A y \in S : x <= y
<1> DEFINE R == OpToRel(<, Nat)
<1>1. IsWellFoundedOn(R, Nat)
  BY NatLessThanWellFounded, Zenon
<1>2. \A x, y \in Nat : y < x => <<y, x>> \in R
  BY DEF OpToRel
<1> HIDE DEF R
<1>3. PICK x \in S : \A y \in S : ~ (<<y, x>> \in R)
  BY <1>1, WFMin
<1>4. \A y \in S : ~ (y < x)
  BY <1>2, <1>3
<1>5. \A y \in S : x <= y
  BY <1>4
<1> QED BY <1>5

\* The first of a set of places is a least member, or 0 for none.
LEMMA FirstIs ==
  ASSUME NEW S, S \subseteq Nat \ {0}
  PROVE  /\ First(S) \in Nat /\ (First(S) = 0 <=> S = {})
         /\ S # {} => First(S) \in S
         /\ \A y \in S : First(S) <= y
<1>1. CASE S = {}
  BY <1>1 DEF First
<1>2. CASE S # {}
  <2>1. PICK x \in S : \A y \in S : x <= y
    BY <1>2, Least
  <2>2. Min(S) \in S /\ \A y \in S : Min(S) <= y
    BY <2>1 DEF Min
  <2> QED BY <2>2, <1>2 DEF First
<1> QED BY <1>1, <1>2

\* A place that was found stays, one that was not is found after n.
Stays(a, b, n) ==
  /\ a \in 0..n /\ b \in Nat
  /\ a # 0 => b = a
  /\ a = 0 => b = 0 \/ b > n

\* More places behind the branch do not change the first one.
LEMMA FirstStays ==
  ASSUME NEW n \in Nat, NEW S, NEW T, S \subseteq 1..n, S \subseteq T, T \subseteq Nat \ {0},
         \A y \in T : y \in S \/ y > n
  PROVE  Stays(First(S), First(T), n)
<1>0. S \subseteq Nat \ {0}
  OBVIOUS
<1>1. /\ First(S) \in Nat /\ (First(S) = 0 <=> S = {}) /\ (S # {} => First(S) \in S)
      /\ \A y \in S : First(S) <= y
  BY <1>0, FirstIs
<1>2. /\ First(T) \in Nat /\ (First(T) = 0 <=> T = {}) /\ (T # {} => First(T) \in T)
      /\ \A y \in T : First(T) <= y
  BY FirstIs
<1>3. CASE S = {}
  BY <1>1, <1>2, <1>3 DEF Stays
<1>4. CASE S # {}
  <2>1. First(S) \in T /\ First(S) \in 1..n /\ First(T) \in T
    BY <1>1, <1>2, <1>4
  <2>2. First(T) <= First(S)
    BY <1>2, <2>1
  <2>3. First(T) \in S
    <3>1. ~ (First(T) > n)
      BY <2>1, <2>2, <1>2
    <3> QED BY <2>1, <3>1
  <2>4. First(S) <= First(T)
    BY <1>1, <2>3
  <2>5. First(S) = First(T)
    BY <2>1, <2>2, <2>4, <1>1, <1>2
  <2> QED BY <2>1, <2>5, <1>2 DEF Stays
<1> QED BY <1>3, <1>4

----------------------------------------------------------------------------
(* A branch Q that extends R.                                              *)

Extends(R, Q) ==
  /\ Len(R) \in Nat /\ Len(Q) \in Nat /\ Len(R) <= Len(Q)
  /\ DOMAIN R = 1..Len(R) /\ DOMAIN Q = 1..Len(Q)
  /\ \A i \in 1..Len(R) : Q[i] = R[i]

\* The places of a kind on the branch stay, others come behind it.
LEMMA PlacesStay ==
  ASSUME NEW R, NEW Q, Extends(R, Q), NEW kind
  PROVE  /\ Places(R, kind) \subseteq 1..Len(R) /\ Places(R, kind) \subseteq Places(Q, kind)
         /\ Places(Q, kind) \subseteq Nat \ {0}
         /\ \A y \in Places(Q, kind) : y \in Places(R, kind) \/ y > Len(R)
BY DEF Extends, Places

\* The stop that completes a result's turn is found once.
LEMMA CompletedStays ==
  ASSUME NEW R, NEW Q, Extends(R, Q), NEW i \in 1..Len(R)
  PROVE  Stays(CompletedAt(R, i), CompletedAt(Q, i), Len(R))
<1> DEFINE S == {s \in Places(R, "stop") : s > i}
           T == {s \in Places(Q, "stop") : s > i}
<1>1. /\ S \subseteq 1..Len(R) /\ S \subseteq T /\ T \subseteq Nat \ {0}
      /\ \A y \in T : y \in S \/ y > Len(R)
  BY PlacesStay
<1>2. Len(R) \in Nat
  BY DEF Extends
<1>3. Stays(First(S), First(T), Len(R))
  <2> HIDE DEF S, T
  <2> QED BY <1>1, <1>2, FirstStays
<1> QED BY <1>3 DEF CompletedAt

\* The place is behind the result.
LEMMA CompletedBehind ==
  ASSUME NEW R, NEW Q, Extends(R, Q), NEW i \in 1..Len(R)
  PROVE  CompletedAt(Q, i) = 0 \/ CompletedAt(Q, i) > i
<1> DEFINE T == {s \in Places(Q, "stop") : s > i}
<1>1. T \subseteq Nat \ {0} /\ \A y \in T : y > i
  BY PlacesStay
<1>2. First(T) = 0 \/ First(T) \in T
  <2> HIDE DEF T
  <2> QED BY <1>1, FirstIs
<1> QED BY <1>1, <1>2 DEF CompletedAt

\* So is the stop of the turn that consumed it.
LEMMA ConsumedStays ==
  ASSUME NEW R, NEW Q, Extends(R, Q), NEW i \in 1..Len(R)
  PROVE  Stays(ConsumedAt(R, i), ConsumedAt(Q, i), Len(R))
<1> DEFINE c == CompletedAt(R, i)
           d == CompletedAt(Q, i)
           S == {s \in Places(R, "stop") : s > c}
           T == {s \in Places(Q, "stop") : s > d}
<1>0. Stays(c, d, Len(R)) /\ Len(R) \in Nat
  BY CompletedStays DEF Extends
<1>1. ConsumedAt(R, i) = (IF c = 0 THEN 0 ELSE First(S)) /\ ConsumedAt(Q, i) = (IF d = 0 THEN 0 ELSE First(T))
  BY DEF ConsumedAt
<1>2. T \subseteq Nat \ {0} /\ \A y \in T : y > d
  BY PlacesStay
<1>3. CASE c = 0
  <2>1. First(T) \in Nat /\ (First(T) = 0 \/ First(T) \in T)
    <3> HIDE DEF T
    <3> QED BY <1>2, FirstIs
  <2>2. d = 0 \/ First(T) = 0 \/ First(T) > Len(R)
    <3>1. d \in Nat /\ (d = 0 \/ d > Len(R))
      BY <1>0, <1>3 DEF Stays
    <3> HIDE DEF T, d, c
    <3> QED BY <2>1, <1>2, <1>0, <3>1
  <2> HIDE DEF S, T, c, d
  <2> QED BY <1>0, <1>1, <1>3, <2>1, <2>2 DEF Stays
<1>4. CASE c # 0
  <2>1. d = c
    BY <1>0, <1>4 DEF Stays
  <2>2. /\ S \subseteq 1..Len(R) /\ S \subseteq T /\ T \subseteq Nat \ {0}
        /\ \A y \in T : y \in S \/ y > Len(R)
    BY <2>1, PlacesStay
  <2>3. Stays(First(S), First(T), Len(R))
    <3> HIDE DEF S, T
    <3> QED BY <2>2, <1>0, FirstStays
  <2> HIDE DEF S, T, c, d
  <2> QED BY <2>3, <2>1, <1>1, <1>4
<1> QED BY <1>3, <1>4

\* A later result of the same target is found once.
LEMMA LaterStays ==
  ASSUME NEW R, NEW Q, Extends(R, Q), NEW i \in 1..Len(R)
  PROVE  Stays(LaterRead(R, i), LaterRead(Q, i), Len(R))
<1> DEFINE Of2(B) == {j \in Places(B, "result") : j > i /\ B[i].target # "none" /\ B[j].text /\ B[j].target = B[i].target}
           S == Of2(R)
           T == Of2(Q)
<1>1. S \subseteq 1..Len(R) /\ T \subseteq Nat \ {0}
  BY PlacesStay
<1>2. \A j \in 1..Len(R) : j \in S <=> j \in T
  <2>1. \A j \in 1..Len(R) : j \in Places(R, "result") <=> j \in Places(Q, "result")
    BY PlacesStay
  <2>2. \A j \in 1..Len(R) : Q[j] = R[j]
    BY DEF Extends
  <2> QED BY <2>1, <2>2
<1>3. Len(R) \in Nat /\ \A y \in T : y \in S \/ y > Len(R)
  BY <1>1, <1>2 DEF Extends
<1>4. Stays(First(S), First(T), Len(R))
  <2> HIDE DEF S, T
  <2>1. S \subseteq T
    BY <1>1, <1>2
  <2> QED BY <1>1, <1>3, <2>1, FirstStays
<1> QED BY <1>4 DEF LaterRead

\* The place where a result is superseded is found once.
LEMMA SupersededStays ==
  ASSUME NEW R, NEW Q, Extends(R, Q), NEW i \in 1..Len(R)
  PROVE  Stays(SupersededAt(R, i), SupersededAt(Q, i), Len(R))
<1> DEFINE c == CompletedAt(R, i)
           d == CompletedAt(Q, i)
           l == LaterRead(R, i)
           m == LaterRead(Q, i)
<1>1. Stays(c, d, Len(R)) /\ Stays(l, m, Len(R)) /\ Len(R) \in Nat
  BY CompletedStays, LaterStays DEF Extends
<1>2. /\ SupersededAt(R, i) = IF 0 \in {c, l} THEN 0 ELSE Max({l, c})
      /\ SupersededAt(Q, i) = IF 0 \in {d, m} THEN 0 ELSE Max({m, d})
  BY DEF SupersededAt
<1>3. \A x, y \in Nat : Max({x, y}) = IF x >= y THEN x ELSE y
  <2> TAKE x, y \in Nat
  <2> DEFINE z == IF x >= y THEN x ELSE y
  <2>1. z \in {x, y} /\ \A w \in {x, y} : z >= w
    OBVIOUS
  <2>2. \A v \in {x, y} : (\A w \in {x, y} : v >= w) => v = z
    OBVIOUS
  <2> HIDE DEF z
  <2>3. Max({x, y}) = z
    BY <2>1, <2>2 DEF Max
  <2> QED BY <2>3 DEF z
<1> HIDE DEF c, d, l, m
<1>4. c \in Nat /\ d \in Nat /\ l \in Nat /\ m \in Nat
  BY <1>1 DEF Stays
<1>5. Max({l, c}) = (IF l >= c THEN l ELSE c) /\ Max({m, d}) = (IF m >= d THEN m ELSE d)
  BY <1>3, <1>4
<1> QED BY <1>1, <1>2, <1>4, <1>5 DEF Stays

\* The first prefix at which a result may be reduced is found once.
LEMMA EligibleStays ==
  ASSUME NEW R, NEW Q, Extends(R, Q), NEW i \in 1..Len(R)
  PROVE  Stays(EligibleAt(R, i), EligibleAt(Q, i), Len(R))
<1> DEFINE a == ConsumedAt(R, i)
           b == ConsumedAt(Q, i)
           e == SupersededAt(R, i)
           f == SupersededAt(Q, i)
           S == {a, e} \ {0}
           T == {b, f} \ {0}
<1>1. Stays(a, b, Len(R)) /\ Stays(e, f, Len(R)) /\ Len(R) \in Nat
  BY ConsumedStays, SupersededStays DEF Extends
<1>2. EligibleAt(R, i) = First(S) /\ EligibleAt(Q, i) = First(T)
  BY DEF EligibleAt
<1>3. /\ S \subseteq 1..Len(R) /\ S \subseteq T /\ T \subseteq Nat \ {0}
      /\ \A y \in T : y \in S \/ y > Len(R)
  <2> HIDE DEF a, b, e, f
  <2> QED BY <1>1 DEF Stays
<1> HIDE DEF S, T
<1> QED BY <1>1, <1>2, <1>3, FirstStays

\* It is behind the result.
LEMMA EligibleBehind ==
  ASSUME NEW R, Extends(R, R), NEW i \in 1..Len(R)
  PROVE  EligibleAt(R, i) = 0 \/ EligibleAt(R, i) > i
<1> DEFINE c == CompletedAt(R, i)
           a == ConsumedAt(R, i)
           e == SupersededAt(R, i)
           S == {a, e} \ {0}
           l == LaterRead(R, i)
<1>1. /\ c \in Nat /\ a \in Nat /\ e \in Nat /\ l \in Nat
      /\ c = 0 \/ c > i
  BY CompletedStays, ConsumedStays, SupersededStays, LaterStays, CompletedBehind DEF Stays
<1>2. a = 0 \/ a > i
  <2> DEFINE T == {s \in Places(R, "stop") : s > c}
  <2>1. T \subseteq Nat \ {0} /\ \A y \in T : y > c
    BY PlacesStay
  <2>2. First(T) = 0 \/ First(T) \in T
    <3> HIDE DEF T
    <3> QED BY <2>1, FirstIs
  <2>3. a = 0 \/ (c # 0 /\ a = First(T))
    BY DEF ConsumedAt
  <2> HIDE DEF T, c, a
  <2> QED BY <1>1, <2>1, <2>2, <2>3
<1>3. e = 0 \/ e > i
  <2>1. e = 0 \/ (c # 0 /\ l # 0 /\ e = Max({l, c}))
    BY DEF SupersededAt
  <2>2. Max({l, c}) \in Nat /\ Max({l, c}) >= c
    <3> HIDE DEF l, c
    <3>1. \E z \in {l, c} : \A w \in {l, c} : z >= w
      BY <1>1
    <3> QED BY <1>1, <3>1 DEF Max
  <2> HIDE DEF c, e, l
  <2> QED BY <1>1, <2>1, <2>2
<1>4. First(S) = 0 \/ First(S) \in S
  <2>1. S \subseteq Nat \ {0}
    BY <1>1
  <2> HIDE DEF S
  <2> QED BY <2>1, FirstIs
<1>5. EligibleAt(R, i) = First(S)
  BY DEF EligibleAt
<1> QED BY <1>2, <1>3, <1>4, <1>5

\* The first fact that rests on the result alone is found once.
LEMMA CitedStays ==
  ASSUME NEW R, NEW Q, Extends(R, Q), NEW i
  PROVE  /\ Stays(CitedFrom(R, i), CitedFrom(Q, i), Len(R))
         /\ CitedFrom(R, i) # 0 <=> \E j \in DOMAIN R : \E f \in R[j].note : f.sources = {i}
<1> DEFINE S == {j \in DOMAIN R : \E f \in R[j].note : f.sources = {i}}
           T == {j \in DOMAIN Q : \E f \in Q[j].note : f.sources = {i}}
<1>1. /\ S \subseteq 1..Len(R) /\ S \subseteq T /\ T \subseteq Nat \ {0}
      /\ \A y \in T : y \in S \/ y > Len(R)
  BY DEF Extends
<1>2. Len(R) \in Nat /\ S \subseteq Nat \ {0}
  BY DEF Extends
<1>3. Stays(First(S), First(T), Len(R)) /\ (First(S) = 0 <=> S = {})
  <2> HIDE DEF S, T
  <2> QED BY <1>1, <1>2, FirstStays, FirstIs
<1> QED BY <1>3 DEF CitedFrom

\* The tokens between a result and its eligibility are counted once.
LEMMA SuffixStays ==
  ASSUME NEW R, NEW Q, Extends(R, Q), NEW i \in 1..Len(R), EligibleAt(R, i) # 0
  PROVE  SuffixTokens(Q, i) = SuffixTokens(R, i)
<1> DEFINE e == EligibleAt(R, i)
<1>1. e \in 1..Len(R) /\ EligibleAt(Q, i) = e /\ Len(R) \in Nat
  BY EligibleStays DEF Stays, Extends
<1>2. \A k \in 1..Len(R) : Q[k] = R[k]
  BY DEF Extends
<1>3. SubSeq(Q, i + 1, e) = SubSeq(R, i + 1, e)
  <2> HIDE DEF e
  <2> QED BY <1>1, <1>2
<1>4. SuffixTokens(Q, i) = Tokens(Q, i + 1, e) /\ SuffixTokens(R, i) = Tokens(R, i + 1, e)
  BY <1>1 DEF SuffixTokens
<1> QED BY <1>3, <1>4 DEF Tokens

----------------------------------------------------------------------------
(* What is shown reduced.                                                  *)

\* A reduced result stays reduced.
LEMMA ReducedStays ==
  ASSUME NEW R, NEW Q, Extends(R, Q), NEW i \in 1..Len(R), NEW cache, Reduces(R, cache, i)
  PROVE  Reduces(Q, cache, i)
<1>1. Q[i] = R[i] /\ Len(R) \in Nat /\ Len(Q) \in Nat /\ Len(R) <= Len(Q)
  BY DEF Extends
<1>2. EligibleAt(R, i) # 0 /\ EligibleAt(R, i) \in 0..Len(R) /\ EligibleAt(Q, i) = EligibleAt(R, i)
  BY EligibleStays DEF Reduces, Stays
<1>3. CitedFrom(Q, i) = 0 \/ CitedFrom(Q, i) > EligibleAt(Q, i)
  <2>1. Stays(CitedFrom(R, i), CitedFrom(Q, i), Len(R))
    BY CitedStays
  <2>2. CitedFrom(R, i) = 0 \/ CitedFrom(R, i) > EligibleAt(R, i)
    BY DEF Reduces
  <2> QED BY <1>1, <1>2, <2>1, <2>2 DEF Stays
<1>4. SuffixTokens(Q, i) = SuffixTokens(R, i)
  BY <1>2, SuffixStays
<1>5. Idle(R, cache, i) => Idle(Q, cache, i)
  <2>1. i < Len(R) => i + 1 \in 1..Len(R) /\ i < Len(Q)
    BY <1>1
  <2> QED BY <2>1 DEF Idle, Extends
<1> QED BY <1>1, <1>2, <1>3, <1>4, <1>5 DEF Reduces

\* A result in full that a fact cites alone stays in full.
LEMMA EvidenceStays ==
  ASSUME NEW R, NEW Q, Extends(R, Q), NEW i \in 1..Len(R), NEW cache,
         CitedFrom(R, i) # 0, ~Reduces(R, cache, i)
  PROVE  ~Reduces(Q, cache, i)
<1> SUFFICES ASSUME Reduces(Q, cache, i) PROVE FALSE
  OBVIOUS
<1>1. Q[i] = R[i] /\ Len(R) \in Nat /\ Len(Q) \in Nat /\ Len(R) <= Len(Q) /\ Extends(R, R)
  BY DEF Extends
<1>2. CitedFrom(Q, i) = CitedFrom(R, i) /\ CitedFrom(R, i) \in 1..Len(R)
  BY CitedStays DEF Stays
<1>3. EligibleAt(Q, i) # 0 /\ CitedFrom(Q, i) > EligibleAt(Q, i)
  BY <1>2 DEF Reduces
<1>4. EligibleAt(R, i) # 0 /\ EligibleAt(Q, i) = EligibleAt(R, i) /\ EligibleAt(R, i) \in 0..Len(R)
  BY <1>1, <1>2, <1>3, EligibleStays DEF Stays
<1>5. SuffixTokens(Q, i) = SuffixTokens(R, i)
  BY <1>4, SuffixStays
<1>6. EligibleAt(R, i) > i
  BY <1>1, <1>4, EligibleBehind
<1>7. Idle(Q, cache, i) => Idle(R, cache, i)
  <2>1. i < Len(R) /\ i + 1 \in 1..Len(R)
    BY <1>1, <1>4, <1>6
  <2> QED BY <2>1 DEF Idle, Extends
<1>8. CitedFrom(R, i) > EligibleAt(R, i)
  BY <1>2, <1>3, <1>4
<1> QED BY <1>1, <1>4, <1>5, <1>7, <1>8 DEF Reduces

----------------------------------------------------------------------------
(* The theorems.                                                           *)

\* The branch is a sequence.
Branch == records \in Seq(Range(records))

\* Each step appends one record, whatever it is.
LEMMA StepExtends ==
  ASSUME Branch, Next
  PROVE  Branch' /\ Extends(records, records')
<1>1. ASSUME NEW r, Extend(r) PROVE \E x : records' = Append(records, x)
  BY <1>1 DEF Extend
<1>2. \E x : records' = Append(records, x)
  BY <1>1 DEF Next, Prompt, Stop, ToolResult, TakeNote, CompactFromNotes, CompactByWriter, Checkpoint
<1>3. PICK x : records' = Append(records, x)
  BY <1>2
<1>4. records' \in Seq(Range(records) \cup {x}) /\ Len(records') = Len(records) + 1
      /\ records'[Len(records) + 1] = x /\ \A i \in 1..Len(records) : records'[i] = records[i]
  BY <1>3 DEF Branch
<1>5. Extends(records, records')
  BY <1>4 DEF Extends, Branch
<1>6. \A i \in DOMAIN records' : records'[i] \in Range(records')
  BY DEF Range
<1>7. Branch'
  BY <1>4, <1>6 DEF Branch
<1> QED BY <1>5, <1>7

\* The initial branch is empty.
LEMMA InitBranch == ASSUME Init PROVE Branch
BY DEF Init, Branch

\* A branch is a sequence in every state.
THEOREM Branches == Spec => []Branch
<1>1. Branch /\ [Next]_vars => Branch'
  <2> SUFFICES ASSUME Branch, [Next]_vars PROVE Branch'
    OBVIOUS
  <2>1. CASE UNCHANGED vars
    BY <2>1 DEF vars, Branch
  <2> QED BY <2>1, StepExtends
<1> QED BY <1>1, InitBranch, PTL DEF Spec

\* No result that one request showed reduced is full in a later one of the same
\* model, whatever is appended (reduction.ts reduceRecords).
THEOREM ReducedPrefixIsMonotone == Spec => ReductionOnlyGrows
<1>1. ASSUME Branch, [Next]_vars
      PROVE  \A cache \in Lifetimes : reduceRecords(records, cache) \subseteq reduceRecords(records', cache)
  <2>1. CASE UNCHANGED vars
    BY <2>1 DEF vars
  <2>2. CASE Next
    <3>1. Extends(records, records')
      BY <1>1, <2>2, StepExtends
    <3>2. ASSUME NEW cache, NEW i \in reduceRecords(records, cache)
          PROVE  i \in reduceRecords(records', cache)
      <4>1. i \in Places(records, "result") /\ Reduces(records, cache, i)
        BY DEF reduceRecords
      <4>2. i \in Places(records', "result") /\ i \in 1..Len(records)
        BY <3>1, <4>1, PlacesStay
      <4>3. Reduces(records', cache, i)
        BY <3>1, <4>1, <4>2, ReducedStays
      <4> QED BY <4>2, <4>3 DEF reduceRecords
    <3> QED BY <3>2
  <2> QED BY <1>1, <2>1, <2>2
<1>2. Branch /\ [Next]_vars =>
        [\A cache \in Lifetimes : reduceRecords(records, cache) \subseteq reduceRecords(records', cache)]_vars
  BY <1>1
<1> QED BY <1>2, Branches, PTL DEF Spec, ReductionOnlyGrows

\* A result that some fact cites alone while it is shown in full is never
\* reduced afterwards (reduction.ts soleEvidenceFrom).
THEOREM EvidenceIsKept == Spec => SoleEvidenceStays
<1> DEFINE Kept == \A cache \in Lifetimes, i \in Places(records, "result") :
                     (CitedAlone(i) /\ ~Reduces(records, cache, i)) => ~Reduces(records', cache, i)
<1>1. ASSUME Branch, [Next]_vars PROVE Kept
  <2>1. CASE UNCHANGED vars
    BY <2>1 DEF vars
  <2>2. CASE Next
    <3>1. Extends(records, records')
      BY <1>1, <2>2, StepExtends
    <3>2. ASSUME NEW cache, NEW i \in Places(records, "result"), CitedAlone(i), ~Reduces(records, cache, i)
          PROVE  ~Reduces(records', cache, i)
      <4>1. i \in 1..Len(records)
        BY <3>1, PlacesStay
      <4>2. CitedFrom(records, i) # 0
        BY <3>1, <3>2, CitedStays DEF CitedAlone
      <4> QED BY <3>1, <3>2, <4>1, <4>2, EvidenceStays
    <3> QED BY <3>2
  <2> QED BY <1>1, <2>1, <2>2
<1>2. Branch /\ [Next]_vars => [Kept]_vars
  BY <1>1
<1> QED BY <1>2, Branches, PTL DEF Spec, SoleEvidenceStays

----------------------------------------------------------------------------
(* Merging work notes.                                                     *)

\* Induction up to a bound.
LEMMA UpTo ==
  ASSUME NEW n \in Nat, NEW S, 0 \in S, \A k \in 1..n : k - 1 \in S => k \in S
  PROVE  \A k \in 0..n : k \in S
<1> DEFINE B == {k \in 0..n : k \notin S}
<1> SUFFICES ASSUME B # {} PROVE FALSE
  OBVIOUS
<1>1. PICK x \in B : \A y \in B : x <= y
  <2>1. B \subseteq Nat
    OBVIOUS
  <2> HIDE DEF B
  <2> QED BY <2>1, Least
<1>2. x \in 0..n /\ x \notin S /\ x # 0
  OBVIOUS
<1>3. x \in 1..n /\ x - 1 \in 0..n /\ x - 1 \notin B
  BY <1>1, <1>2
<1>4. x - 1 \in S
  BY <1>3
<1> QED BY <1>2, <1>3, <1>4

\* The last of a set of places is a greatest member, or 0 for none.
LEMMA LastIs ==
  ASSUME NEW n \in Nat, NEW S, S \subseteq 1..n
  PROVE  /\ LastOf(S) \in 0..n /\ (LastOf(S) = 0 <=> S = {})
         /\ S # {} => LastOf(S) \in S
         /\ \A y \in S : y <= LastOf(S)
<1>1. CASE S = {}
  BY <1>1 DEF LastOf
<1>2. CASE S # {}
  <2> DEFINE U == {k \in Nat : \A y \in S : y <= k}
  <2>1. U \subseteq Nat /\ n \in U
    OBVIOUS
  <2>2. PICK x \in U : \A k \in U : x <= k
    <3> HIDE DEF U
    <3> QED BY <2>1, Least
  <2>3. x \in S
    <3> SUFFICES ASSUME x \notin S PROVE FALSE
      OBVIOUS
    <3>0. PICK y \in S : TRUE
      BY <1>2
    <3>1. y \in Nat /\ y > 0 /\ y <= x /\ y # x
      BY <3>0
    <3>2. x - 1 \in Nat /\ \A z \in S : z <= x - 1
      BY <3>1
    <3>3. x - 1 \in U
      BY <3>2
    <3> QED BY <2>2, <3>2, <3>3
  <2>4. \A y \in S : x >= y
    OBVIOUS
  <2>5. Max(S) \in S /\ \A y \in S : Max(S) >= y
    <3> HIDE DEF U
    <3> QED BY <2>3, <2>4 DEF Max
  <2>6. LastOf(S) = Max(S)
    BY <1>2 DEF LastOf
  <2> HIDE DEF U
  <2>7. LastOf(S) \in S /\ LastOf(S) \in 1..n
    BY <2>5, <2>6
  <2>8. ASSUME NEW y \in S PROVE y <= LastOf(S)
    <3>1. LastOf(S) >= y /\ y \in 1..n
      BY <2>5, <2>6
    <3> QED BY <3>1, <2>7
  <2> QED BY <1>2, <2>7, <2>8
<1> QED BY <1>1, <1>2

\* One step of the merge.
MergeStep(R, m, n) == IF n \in workNotes(R) THEN AddNote(m, R[n]) ELSE m

\* The stages of a merge through record n.
Stages(R, f, n) ==
  /\ f[0] = [ok |-> TRUE, note |-> PreviousNote(R)]
  /\ \A k \in 1..n : f[k] = MergeStep(R, f[k - 1], k)

\* A merge has all its stages.
LEMMA StagesExist == ASSUME NEW R, NEW n \in Nat PROVE \E f : Stages(R, f, n)
<1> DEFINE G == {m \in 0..n : \E f : Stages(R, f, m)}
<1>1. 0 \in G
  <2> DEFINE a == [ok |-> TRUE, note |-> PreviousNote(R)]
             f == [k \in 0..0 |-> a]
  <2>1. f[0] = a
    <3> HIDE DEF a
    <3> QED OBVIOUS
  <2>2. Stages(R, f, 0)
    <3> HIDE DEF f
    <3> QED BY <2>1 DEF Stages
  <2> HIDE DEF f
  <2> QED BY <2>2
<1>2. ASSUME NEW m \in 1..n, m - 1 \in G PROVE m \in G
  <2>1. PICK f : Stages(R, f, m - 1)
    BY <1>2
  <2> DEFINE last == MergeStep(R, f[m - 1], m)
             g == [k \in 0..m |-> IF k = m THEN last ELSE f[k]]
  <2>2. g[m] = last /\ \A k \in 0..(m - 1) : g[k] = f[k]
    <3> HIDE DEF last
    <3> QED OBVIOUS
  <2>3. Stages(R, g, m)
    <3> HIDE DEF g
    <3>1. g[0] = [ok |-> TRUE, note |-> PreviousNote(R)]
      BY <2>1, <2>2 DEF Stages
    <3>2. ASSUME NEW k \in 1..m PROVE g[k] = MergeStep(R, g[k - 1], k)
      <4>1. k - 1 \in 0..(m - 1) /\ g[k - 1] = f[k - 1]
        BY <2>2
      <4>2. CASE k = m
        BY <2>2, <4>1, <4>2
      <4>3. CASE k \in 1..(m - 1)
        <5>1. f[k] = MergeStep(R, f[k - 1], k)
          BY <2>1, <4>3 DEF Stages
        <5>2. g[k] = f[k]
          BY <2>2, <4>3
        <5> QED BY <4>1, <5>1, <5>2
      <4> QED BY <4>2, <4>3
    <3> QED BY <3>1, <3>2 DEF Stages
  <2> HIDE DEF g
  <2> QED BY <2>3
<1>3. n \in G
  <2> HIDE DEF G
  <2> QED BY <1>1, <1>2, UpTo
<1> QED BY <1>3

\* mergeWorkNotes is the last stage.
LEMMA MergeDef ==
  ASSUME NEW R, Len(R) \in Nat
  PROVE  \E f : Stages(R, f, Len(R)) /\ mergeWorkNotes(R) = f[Len(R)]
<1> DEFINE n == Len(R)
           a == [ok |-> TRUE, note |-> PreviousNote(R)]
           Eq(f) == f = [k \in 0..n |-> IF k = 0 THEN a ELSE MergeStep(R, f[k - 1], k)]
<1>1. \E f : Eq(f)
  <2>1. PICK f : Stages(R, f, n)
    BY StagesExist
  <2> DEFINE h == [k \in 0..n |-> f[k]]
  <2>2. \A k \in 0..n : h[k] = f[k]
    OBVIOUS
  <2>3. ASSUME NEW k \in 0..n PROVE h[k] = IF k = 0 THEN a ELSE MergeStep(R, h[k - 1], k)
    <3>1. CASE k = 0
      <4>1. h[k] = f[0]
        BY <2>2, <3>1
      <4>2. f[0] = a
        BY <2>1 DEF Stages
      <4> HIDE DEF h, a
      <4> QED BY <3>1, <4>1, <4>2
    <3>2. CASE k # 0
      <4>1. k \in 1..n /\ k - 1 \in 0..n
        BY <3>2
      <4>2. f[k] = MergeStep(R, f[k - 1], k)
        BY <2>1, <4>1 DEF Stages
      <4>3. h[k] = f[k] /\ h[k - 1] = f[k - 1]
        BY <2>2, <4>1
      <4> HIDE DEF h, a
      <4> QED BY <3>2, <4>2, <4>3
    <3> QED BY <3>1, <3>2
  <2>4. Eq(h)
    <3> DEFINE E(k) == IF k = 0 THEN a ELSE MergeStep(R, h[k - 1], k)
    <3>1. \A k \in 0..n : h[k] = E(k)
      BY <2>3
    <3>2. [k \in 0..n |-> h[k]] = [k \in 0..n |-> E(k)]
      <4> HIDE DEF E, h
      <4> QED BY <3>1
    <3>3. h = [k \in 0..n |-> h[k]]
      OBVIOUS
    <3>4. h = [k \in 0..n |-> E(k)]
      BY <3>2, <3>3
    <3> HIDE DEF h
    <3> QED BY <3>4
  <2> HIDE DEF h, Eq
  <2> QED BY <2>4
<1>2. mergeWorkNotes(R) = (CHOOSE f : Eq(f))[n]
  BY DEF mergeWorkNotes, MergeStep
<1>3. Eq(CHOOSE f : Eq(f))
  <2> HIDE DEF Eq
  <2> QED BY <1>1
<1>4. PICK u : Eq(u) /\ mergeWorkNotes(R) = u[n]
  <2> HIDE DEF Eq
  <2> QED BY <1>2, <1>3
<1>5. Stages(R, u, n)
  <2>1. \A k \in 0..n : u[k] = IF k = 0 THEN a ELSE MergeStep(R, u[k - 1], k)
    BY <1>4
  <2>2. 0 \in 0..n /\ \A k \in 1..n : k \in 0..n /\ k # 0
    OBVIOUS
  <2> HIDE DEF n
  <2> QED BY <2>1, <2>2 DEF Stages
<1> QED BY <1>4, <1>5

----------------------------------------------------------------------------
(* What a merge keeps.                                                     *)

\* The facts that a note does not correct, and its own.
After(facts, note) == {f \in facts : ~Replaced(f, note)} \cup Of(note, "fact")

\* Facts that stand after one more note, and the note's own.
LEMMA OneMoreNote ==
  ASSUME NEW R, NEW note, NEW S, NEW n \in Nat, S \subseteq Nat, \A i \in S : i < n
  PROVE  Uncorrected(R, note, S \cup {n}) = After(Uncorrected(R, note, S), R[n].note)
<1> DEFINE stands(f, later) == \A j \in later : ~Replaced(f, R[j].note)
           Old(T) == {f \in Of(note, "fact") : stands(f, T)}
           New(T, i) == {f \in Of(R[i].note, "fact") : stands(f, {j \in T : j > i})}
           T == S \cup {n}
<1>1. \A B : Uncorrected(R, note, B) = Old(B) \cup UNION {New(B, i) : i \in B}
  BY DEF Uncorrected
<1>2. Old(T) = {f \in Old(S) : ~Replaced(f, R[n].note)}
  OBVIOUS
<1>3. ASSUME NEW i \in S PROVE New(T, i) = {f \in New(S, i) : ~Replaced(f, R[n].note)}
  <2>1. i < n /\ {j \in T : j > i} = {j \in S : j > i} \cup {n}
    BY <1>3
  <2>2. \A f : stands(f, {j \in T : j > i}) <=> stands(f, {j \in S : j > i}) /\ ~Replaced(f, R[n].note)
    BY <2>1
  <2> HIDE DEF stands, T
  <2> QED BY <2>2
<1>4. New(T, n) = Of(R[n].note, "fact")
  <2>1. ASSUME NEW j \in T PROVE ~(j > n)
    <3>1. j = n \/ (j \in S /\ j \in Nat /\ j < n)
      OBVIOUS
    <3> QED BY <3>1
  <2>2. \A f : stands(f, {j \in T : j > n})
    BY <2>1
  <2> HIDE DEF stands, T
  <2> QED BY <2>2
<1>5. UNION {New(T, i) : i \in T} = {f \in UNION {New(S, i) : i \in S} : ~Replaced(f, R[n].note)} \cup New(T, n)
  <2> DEFINE W == New(T, n)
             V == {f \in UNION {New(S, i) : i \in S} : ~Replaced(f, R[n].note)}
  <2>1. ASSUME NEW f, f \in UNION {New(T, i) : i \in T} PROVE f \in V \cup W
    <3>1. PICK i \in T : f \in New(T, i)
      BY <2>1
    <3>2. CASE i = n
      BY <3>1, <3>2
    <3>3. CASE i \in S
      <4>1. f \in New(S, i) /\ ~Replaced(f, R[n].note)
        <5> HIDE DEF New
        <5> QED BY <1>3, <3>1, <3>3
      <4> HIDE DEF New
      <4> QED BY <3>3, <4>1
    <3> QED BY <3>2, <3>3
  <2>2. ASSUME NEW f \in V PROVE f \in UNION {New(T, i) : i \in T}
    <3>1. PICK i \in S : f \in New(S, i) /\ ~Replaced(f, R[n].note)
      <4> HIDE DEF New
      <4> QED OBVIOUS
    <3>2. f \in New(T, i) /\ i \in T
      <4> HIDE DEF New
      <4> QED BY <1>3, <3>1
    <3> HIDE DEF New, T
    <3> QED BY <3>2
  <2>3. W \subseteq UNION {New(T, i) : i \in T}
    <3>1. n \in T
      OBVIOUS
    <3> HIDE DEF New, T
    <3> QED BY <3>1
  <2> HIDE DEF New
  <2> QED BY <2>1, <2>2, <2>3
<1> HIDE DEF Old, New
<1>6. Uncorrected(R, note, T) = Old(T) \cup UNION {New(T, i) : i \in T}
      /\ Uncorrected(R, note, S) = Old(S) \cup UNION {New(S, i) : i \in S}
  BY <1>1
<1> HIDE DEF T
<1>7. Uncorrected(R, note, T) = {f \in Uncorrected(R, note, S) : ~Replaced(f, R[n].note)} \cup Of(R[n].note, "fact")
  BY <1>2, <1>4, <1>5, <1>6
<1> QED BY <1>7 DEF T, After

\* What AddNote keeps of the instructions and the facts.
LEMMA AddNoteKeeps ==
  ASSUME NEW m, NEW r, AddNote(m, r).ok
  PROVE  /\ m.ok
         /\ Of(AddNote(m, r).note, "instruction") = Of(m.note, "instruction")
         /\ Of(AddNote(m, r).note, "fact") = After(Of(m.note, "fact"), r.note)
<1> DEFINE plan == IF Of(r.note, "plan") # {} THEN Of(r.note, "plan")
                   ELSE {f \in Of(m.note, "plan") : ~Replaced(f, r.note)}
           merged == Of(m.note, "instruction") \cup {f \in Of(m.note, "fact") : ~Replaced(f, r.note)}
                       \cup Of(r.note, "fact") \cup plan
           refused == \/ ~m.ok
                      \/ \E f \in Of(m.note, "instruction") : Replaced(f, r.note)
                      \/ Ambiguous(m.note, r.note)
<1>1. AddNote(m, r) = IF refused THEN [ok |-> FALSE, note |-> {}] ELSE [ok |-> TRUE, note |-> merged]
  BY DEF AddNote
<1>2. ~refused
  <2> HIDE DEF refused, merged
  <2> QED BY <1>1
<1>3. AddNote(m, r).note = merged
  <2> HIDE DEF refused, merged
  <2> QED BY <1>1, <1>2
<1>4. \A f \in plan : f.section = "plan"
  BY DEF Of
<1>5. Of(merged, "instruction") = Of(m.note, "instruction")
  <2> HIDE DEF plan
  <2> QED BY <1>4 DEF Of
<1>6. Of(merged, "fact") = {f \in Of(m.note, "fact") : ~Replaced(f, r.note)} \cup Of(r.note, "fact")
  <2> HIDE DEF plan
  <2> QED BY <1>4 DEF Of
<1> QED BY <1>2, <1>3, <1>5, <1>6 DEF After

\* A merge of finite notes is finite and takes no more facts from an entry than
\* it gives.
LEMMA AddNoteCounts ==
  ASSUME NEW m, NEW r, AddNote(m, r).ok, IsFiniteSet(m.note), IsFiniteSet(r.note)
  PROVE  /\ IsFiniteSet(AddNote(m, r).note)
         /\ \A id \in Superseded(r.note) :
              Cardinality({f \in Of(m.note, "fact") : id \in f.sources})
                <= Cardinality({f \in r.note : id \in f.supersedes})
<1>1. AddNote(m, r).note \subseteq m.note \cup r.note /\ ~Ambiguous(m.note, r.note)
  BY DEF AddNote, Of
<1>2. IsFiniteSet(m.note \cup r.note)
  BY FS_Union
<1>3. IsFiniteSet(AddNote(m, r).note)
  <2> DEFINE S == m.note \cup r.note
             T == AddNote(m, r).note
  <2>1. IsFiniteSet(S) /\ T \in SUBSET S
    BY <1>1, <1>2
  <2> HIDE DEF S, T
  <2>2. IsFiniteSet(T)
    BY <2>1, FS_Subset
  <2> QED BY <2>2 DEF T
<1>4. ASSUME NEW id \in Superseded(r.note)
      PROVE  Cardinality({f \in Of(m.note, "fact") : id \in f.sources})
               <= Cardinality({f \in r.note : id \in f.supersedes})
  <2> DEFINE droppable == Of(m.note, "fact") \cup (IF Of(r.note, "plan") = {} THEN Of(m.note, "plan") ELSE {})
             A == {f \in Of(m.note, "fact") : id \in f.sources}
             B == {f \in droppable : id \in f.sources}
             C == {f \in r.note : id \in f.supersedes}
  <2>1. ~(Cardinality(B) > Cardinality(C))
    BY <1>1, <1>4 DEF Ambiguous
  <2>2. A \in SUBSET B /\ B \in SUBSET m.note /\ C \in SUBSET r.note
    BY DEF Of
  <2> HIDE DEF A, B, C, droppable
  <2>3. IsFiniteSet(B) /\ IsFiniteSet(C)
    BY <2>2, FS_Subset
  <2>4. Cardinality(A) <= Cardinality(B) /\ IsFiniteSet(A)
    BY <2>2, <2>3, FS_Subset
  <2>5. Cardinality(A) \in Nat /\ Cardinality(B) \in Nat /\ Cardinality(C) \in Nat
    BY <2>3, <2>4, FS_CardinalityType
  <2>6. Cardinality(A) <= Cardinality(C)
    BY <2>1, <2>4, <2>5
  <2> QED BY <2>6 DEF A, C
<1> QED BY <1>3, <1>4

\* One more correction that gives what it takes.
LEMMA OneMoreForOne ==
  ASSUME NEW R, NEW note, NEW S, NEW n \in Nat, S \subseteq Nat, \A i \in S : i < n,
         OneForOne(R, note, S),
         \A id \in Superseded(R[n].note) :
           Cardinality({f \in Uncorrected(R, note, S) : id \in f.sources})
             <= Cardinality({f \in R[n].note : id \in f.supersedes})
  PROVE  OneForOne(R, note, S \cup {n})
<1> DEFINE T == S \cup {n}
<1>1. \A j \in S : {i \in T : i < j} = {i \in S : i < j}
  OBVIOUS
<1>2. {i \in T : i < n} = S
  <2>1. ASSUME NEW i \in T PROVE i \in S <=> i < n
    <3>1. CASE i = n
      BY <3>1
    <3>2. CASE i \in S
      BY <3>2
    <3> QED BY <3>1, <3>2
  <2>2. S \subseteq T
    OBVIOUS
  <2> HIDE DEF T
  <2> QED BY <2>1, <2>2
<1>3. ASSUME NEW j \in T, NEW id \in Superseded(R[j].note)
      PROVE  Cardinality({f \in Uncorrected(R, note, {i \in T : i < j}) : id \in f.sources})
               <= Cardinality({f \in R[j].note : id \in f.supersedes})
  <2>1. CASE j = n
    <3> HIDE DEF T
    <3> QED BY <1>2, <1>3, <2>1
  <2>2. CASE j \in S
    <3>1. {i \in T : i < j} = {i \in S : i < j}
      BY <1>1, <2>2
    <3> HIDE DEF T
    <3> QED BY <1>3, <2>2, <3>1 DEF OneForOne
  <2> QED BY <2>1, <2>2
<1> HIDE DEF T
<1>4. OneForOne(R, note, T)
  BY <1>3 DEF OneForOne
<1> QED BY <1>4 DEF T

\* The notes of a branch are finite.
FiniteNotes(R) == \A i \in DOMAIN R : IsFiniteSet(R[i].note)

\* So are all stages of a merge.
LEMMA StagesFinite ==
  ASSUME NEW R, Extends(R, R), FiniteNotes(R), NEW f, Stages(R, f, Len(R))
  PROVE  \A k \in 0..Len(R) : f[k].ok => IsFiniteSet(f[k].note)
<1> DEFINE n == Len(R)
           G == {k \in 0..n : f[k].ok => IsFiniteSet(f[k].note)}
<1>1. n \in Nat /\ DOMAIN R = 1..n
  BY DEF Extends
<1>2. 0 \in G
  <2>1. LastCheckpoint(R) \in 0..n
    <3>1. Places(R, "checkpoint") \subseteq 1..n
      BY PlacesStay
    <3> QED BY <1>1, <3>1, LastIs DEF LastCheckpoint
  <2>2. IsFiniteSet(PreviousNote(R))
    <3> HIDE DEF n
    <3> QED BY <1>1, <2>1, FS_EmptySet DEF PreviousNote, FiniteNotes
  <2>3. f[0].note = PreviousNote(R)
    BY DEF Stages
  <2> QED BY <1>1, <2>2, <2>3
<1>3. ASSUME NEW k \in 1..n, k - 1 \in G PROVE k \in G
  <2>1. f[k] = MergeStep(R, f[k - 1], k) /\ IsFiniteSet(R[k].note)
    BY <1>1 DEF Stages, FiniteNotes
  <2>2. f[k - 1].ok => IsFiniteSet(f[k - 1].note)
    BY <1>3
  <2>3. CASE f[k] = f[k - 1]
    BY <2>2, <2>3
  <2>4. CASE f[k] = AddNote(f[k - 1], R[k])
    <3>1. f[k].ok => f[k - 1].ok
      BY <2>4, AddNoteKeeps
    <3> QED BY <2>1, <2>2, <2>4, <3>1, AddNoteCounts
  <2> QED BY <2>1, <2>3, <2>4 DEF MergeStep
<1> HIDE DEF G, n
<1>4. \A k \in 0..n : k \in G
  BY <1>1, <1>2, <1>3, UpTo
<1> QED BY <1>4 DEF G, n

\* A note through place c stands for the writer's note and the work notes up
\* to there.
StandsFor(R, note, c) ==
  /\ Of(note, "instruction") = Of(Base(R).note, "instruction")
  /\ Of(note, "fact") = Uncorrected(R, Base(R).note, {i \in Since(R) : i <= c})
  /\ OneForOne(R, Base(R).note, {i \in Since(R) : i <= c})

\* The last checkpoint, by whomever, stands for what it covers.
Notes(R) ==
  /\ CoveredThrough(R) \in 0..Len(R) /\ Base(R).covered \in 0..CoveredThrough(R)
  /\ StandsFor(R, PreviousNote(R), CoveredThrough(R))

\* So does every stage of the merge that is not refused.
LEMMA MergeStandsFor ==
  ASSUME NEW R, Extends(R, R), FiniteNotes(R), Notes(R), mergeWorkNotes(R).ok
  PROVE  StandsFor(R, mergeWorkNotes(R).note, Len(R))
<1> DEFINE n == Len(R)
           c == CoveredThrough(R)
           base == Base(R).note
           W(k) == {i \in Since(R) : i <= IF k < c THEN c ELSE k}
           Good(m, k) == m.ok => /\ Of(m.note, "instruction") = Of(base, "instruction")
                                 /\ Of(m.note, "fact") = Uncorrected(R, base, W(k))
                                 /\ OneForOne(R, base, W(k))
<1>1. n \in Nat /\ c \in 0..n /\ Base(R).covered \in 0..c
  BY DEF Extends, Notes
<1>2. Since(R) \subseteq 1..n /\ \A i \in 1..n : i \in workNotes(R) <=> (i \in Since(R) /\ i > c)
  <2>1. Places(R, "note") \subseteq 1..n
    BY PlacesStay
  <2>2. \A i \in 1..n : i > c => i > Base(R).covered
    BY <1>1
  <2> QED BY <2>1, <2>2 DEF Since, workNotes
<1>3. PICK f : Stages(R, f, n) /\ mergeWorkNotes(R) = f[n]
  BY <1>1, MergeDef
<1>9. \A k \in 0..n : f[k].ok => IsFiniteSet(f[k].note)
  BY <1>3, StagesFinite
<1> DEFINE G == {k \in 0..n : Good(f[k], k)}
<1>4. 0 \in G
  <2>1. f[0].note = PreviousNote(R)
    BY <1>3 DEF Stages
  <2>2. W(0) = {i \in Since(R) : i <= c}
    BY <1>1
  <2>3. Good(f[0], 0)
    <3> HIDE DEF W, c
    <3> QED BY <2>1, <2>2 DEF Notes, StandsFor, c
  <2> HIDE DEF Good
  <2> QED BY <2>3, <1>1
<1>5. ASSUME NEW k \in 1..n, k - 1 \in G PROVE k \in G
  <2>1. Good(f[k - 1], k - 1) /\ f[k] = MergeStep(R, f[k - 1], k)
    <3> HIDE DEF Good
    <3> QED BY <1>3, <1>5 DEF Stages
  <2>2. CASE k \in workNotes(R)
    <3>1. k \in Since(R) /\ k > c
      BY <1>2, <2>2
    <3>2. W(k) = W(k - 1) \cup {k} /\ W(k - 1) \subseteq Nat /\ \A i \in W(k - 1) : i < k
      BY <1>1, <1>2, <3>1
    <3>3. f[k] = AddNote(f[k - 1], R[k])
      BY <2>1, <2>2 DEF MergeStep
    <3>4. Good(f[k], k)
      <4> SUFFICES ASSUME f[k].ok PROVE Good(f[k], k)
        OBVIOUS
      <4>1. /\ f[k - 1].ok
            /\ Of(f[k].note, "instruction") = Of(f[k - 1].note, "instruction")
            /\ Of(f[k].note, "fact") = After(Of(f[k - 1].note, "fact"), R[k].note)
        BY <3>3, AddNoteKeeps
      <4>2. /\ Of(f[k - 1].note, "instruction") = Of(base, "instruction")
            /\ Of(f[k - 1].note, "fact") = Uncorrected(R, base, W(k - 1))
            /\ OneForOne(R, base, W(k - 1))
        BY <2>1, <4>1
      <4>6. IsFiniteSet(f[k - 1].note) /\ IsFiniteSet(R[k].note)
        <5>1. k - 1 \in 0..n /\ k \in DOMAIN R
          BY <1>1 DEF Extends
        <5> QED BY <1>9, <4>1, <5>1 DEF FiniteNotes
      <4>7. \A id \in Superseded(R[k].note) :
              Cardinality({x \in Of(f[k - 1].note, "fact") : id \in x.sources})
                <= Cardinality({x \in R[k].note : id \in x.supersedes})
        <5> DEFINE m == f[k - 1]
                   q == R[k]
        <5>1. AddNote(m, q).ok /\ IsFiniteSet(m.note) /\ IsFiniteSet(q.note)
          BY <3>3, <4>6
        <5> HIDE DEF m, q
        <5>2. \A id \in Superseded(q.note) :
                Cardinality({x \in Of(m.note, "fact") : id \in x.sources})
                  <= Cardinality({x \in q.note : id \in x.supersedes})
          BY <5>1, AddNoteCounts
        <5> QED BY <5>2 DEF m, q
      <4> HIDE DEF W, base
      <4>3. k \in Nat
        OBVIOUS
      <4>4. Uncorrected(R, base, W(k - 1) \cup {k}) = After(Uncorrected(R, base, W(k - 1)), R[k].note)
        <5> DEFINE V == W(k - 1)
        <5>1. V \subseteq Nat /\ \A i \in V : i < k
          BY <3>2
        <5> HIDE DEF V
        <5>2. Uncorrected(R, base, V \cup {k}) = After(Uncorrected(R, base, V), R[k].note)
          BY <4>3, <5>1, OneMoreNote
        <5> QED BY <5>2 DEF V
      <4>5. Of(f[k].note, "fact") = Uncorrected(R, base, W(k))
        BY <3>2, <4>1, <4>2, <4>4
      <4>8. OneForOne(R, base, W(k - 1) \cup {k})
        <5> DEFINE V == W(k - 1)
        <5>1. V \subseteq Nat /\ \A i \in V : i < k
          BY <3>2
        <5>2. /\ OneForOne(R, base, V)
              /\ \A id \in Superseded(R[k].note) :
                   Cardinality({x \in Uncorrected(R, base, V) : id \in x.sources})
                     <= Cardinality({x \in R[k].note : id \in x.supersedes})
          BY <4>2, <4>7
        <5> HIDE DEF V
        <5>3. OneForOne(R, base, V \cup {k})
          BY <4>3, <5>1, <5>2, OneMoreForOne
        <5> QED BY <5>3 DEF V
      <4>9. OneForOne(R, base, W(k))
        BY <3>2, <4>8
      <4> QED BY <4>1, <4>2, <4>5, <4>9
    <3> HIDE DEF Good
    <3> QED BY <3>4
  <2>3. CASE k \notin workNotes(R)
    <3>1. W(k) = W(k - 1)
      <4>1. ~(k \in Since(R) /\ k > c)
        BY <1>2, <2>3
      <4>2. \A i \in Since(R) : i \in Nat
        BY <1>2
      <4> HIDE DEF c
      <4> QED BY <1>1, <4>1, <4>2
    <3>2. f[k] = f[k - 1]
      BY <2>1, <2>3 DEF MergeStep
    <3>3. Good(f[k], k)
      <4> HIDE DEF W, base
      <4> QED BY <2>1, <3>1, <3>2
    <3> HIDE DEF Good
    <3> QED BY <3>3
  <2> QED BY <2>2, <2>3
<1>6. n \in G
  <2> HIDE DEF G, n
  <2>1. \A k \in 0..n : k \in G
    BY <1>1, <1>4, <1>5, UpTo
  <2> QED BY <1>1, <2>1
<1>7. W(n) = {i \in Since(R) : i <= n}
  BY <1>1
<1>8. Good(f[n], n)
  BY <1>6
<1> HIDE DEF W, n
<1> QED BY <1>3, <1>7, <1>8 DEF StandsFor, n

----------------------------------------------------------------------------
(* What a step keeps.                                                      *)

\* The same facts stand on both branches.
SameFor(R, Q, S) == \A note : Uncorrected(Q, note, S) = Uncorrected(R, note, S)

\* Facts of places on both branches.
LEMMA SameFacts ==
  ASSUME NEW R, NEW Q, Extends(R, Q), NEW S, S \subseteq 1..Len(R)
  PROVE  SameFor(R, Q, S)
<1> SUFFICES ASSUME NEW note PROVE Uncorrected(Q, note, S) = Uncorrected(R, note, S)
  BY DEF SameFor
<1>1. \A i \in S : Q[i] = R[i]
  BY DEF Extends
<1> DEFINE stands(B, f, later) == \A j \in later : ~Replaced(f, B[j].note)
           Old(B) == {f \in Of(note, "fact") : stands(B, f, S)}
           New(B, i) == {f \in Of(B[i].note, "fact") : stands(B, f, {j \in S : j > i})}
<1>2. Old(Q) = Old(R)
  BY <1>1
<1>3. \A i \in S : New(Q, i) = New(R, i)
  <2> TAKE i \in S
  <2>1. \A f : stands(Q, f, {j \in S : j > i}) <=> stands(R, f, {j \in S : j > i})
    BY <1>1
  <2>2. Q[i] = R[i]
    BY <1>1
  <2> HIDE DEF stands
  <2> QED BY <2>1, <2>2
<1>4. UNION {New(Q, i) : i \in S} = UNION {New(R, i) : i \in S}
  <2> HIDE DEF New
  <2> QED BY <1>3
<1>5. /\ Uncorrected(Q, note, S) = Old(Q) \cup UNION {New(Q, i) : i \in S}
      /\ Uncorrected(R, note, S) = Old(R) \cup UNION {New(R, i) : i \in S}
  BY DEF Uncorrected
<1> HIDE DEF Old, New
<1> QED BY <1>2, <1>4, <1>5

\* Corrections that give what they take do so on both branches.
LEMMA SameForOne ==
  ASSUME NEW R, NEW Q, Extends(R, Q), NEW S, S \subseteq 1..Len(R), NEW note, OneForOne(R, note, S)
  PROVE  OneForOne(Q, note, S)
<1>1. ASSUME NEW j \in S, NEW id \in Superseded(Q[j].note)
      PROVE  Cardinality({f \in Uncorrected(Q, note, {i \in S : i < j}) : id \in f.sources})
               <= Cardinality({f \in Q[j].note : id \in f.supersedes})
  <2> DEFINE B == {i \in S : i < j}
  <2>1. B \subseteq 1..Len(R) /\ Q[j] = R[j]
    BY DEF Extends
  <2>2. Cardinality({f \in Uncorrected(R, note, B) : id \in f.sources})
          <= Cardinality({f \in R[j].note : id \in f.supersedes})
    BY <1>1, <2>1 DEF OneForOne
  <2> HIDE DEF B
  <2>3. Uncorrected(Q, note, B) = Uncorrected(R, note, B)
    <3>1. SameFor(R, Q, B)
      BY <2>1, SameFacts
    <3> QED BY <3>1 DEF SameFor
  <2>4. Cardinality({f \in Uncorrected(Q, note, B) : id \in f.sources})
          <= Cardinality({f \in Q[j].note : id \in f.supersedes})
    BY <2>1, <2>2, <2>3
  <2> QED BY <2>4 DEF B
<1> QED BY <1>1 DEF OneForOne

\* Branch Q is R and one record more.
OneMore(R, Q) == Extends(R, Q) /\ Extends(Q, Q) /\ Len(Q) = Len(R) + 1

\* Places of a kind after one record more.
LEMMA PlacesMore ==
  ASSUME NEW R, NEW Q, OneMore(R, Q), NEW kind
  PROVE  /\ Q[Len(Q)].kind = kind => Places(Q, kind) = Places(R, kind) \cup {Len(Q)}
         /\ Q[Len(Q)].kind # kind => Places(Q, kind) = Places(R, kind)
BY DEF OneMore, Extends, Places

\* The last of a set of places with one more behind it.
LEMMA LastMore ==
  ASSUME NEW n \in Nat, NEW S, S \subseteq 1..n
  PROVE  LastOf(S \cup {n + 1}) = n + 1
<1> DEFINE T == S \cup {n + 1}
<1>1. T \subseteq 1..(n + 1) /\ n + 1 \in T /\ n + 1 \in Nat
  OBVIOUS
<1> HIDE DEF T
<1>2. LastOf(T) \in 0..(n + 1) /\ n + 1 <= LastOf(T)
  BY <1>1, LastIs
<1> QED BY <1>2 DEF T

\* The writer's places are among the checkpoints.
Writers(R) == {i \in Places(R, "checkpoint") : R[i].by = "writer"}

\* Checkpoints of a branch are records of it.
LEMMA CheckpointIs ==
  ASSUME NEW R, Extends(R, R)
  PROVE  /\ LastCheckpoint(R) \in 0..Len(R) /\ WriterCheckpoint(R) \in 0..Len(R)
         /\ WriterCheckpoint(R) = LastOf(Writers(R)) /\ Writers(R) \subseteq 1..Len(R)
         /\ Places(R, "checkpoint") \subseteq 1..Len(R)
<1>1. Places(R, "checkpoint") \subseteq 1..Len(R) /\ Len(R) \in Nat
  BY PlacesStay DEF Extends
<1>2. Writers(R) \subseteq 1..Len(R)
  BY <1>1 DEF Writers
<1>3. WriterCheckpoint(R) = LastOf(Writers(R))
  BY DEF WriterCheckpoint, Writers
<1> QED BY <1>1, <1>2, <1>3, LastIs DEF LastCheckpoint

\* A record that is no checkpoint changes none of this.
LEMMA OtherStep ==
  ASSUME NEW R, NEW Q, OneMore(R, Q), Notes(R), Q[Len(Q)].kind # "checkpoint"
  PROVE  Notes(Q)
<1>0. Extends(R, Q) /\ Extends(R, R) /\ Len(R) \in Nat /\ Len(Q) = Len(R) + 1
  BY DEF OneMore, Extends
<1>1. Places(Q, "checkpoint") = Places(R, "checkpoint")
  BY PlacesMore
<1>2. \A i \in 1..Len(R) : Q[i] = R[i]
  BY <1>0 DEF Extends
<1>3. LastCheckpoint(Q) = LastCheckpoint(R) /\ LastCheckpoint(R) \in 0..Len(R)
  BY <1>0, <1>1, CheckpointIs DEF LastCheckpoint
<1>4. PreviousNote(Q) = PreviousNote(R) /\ CoveredThrough(Q) = CoveredThrough(R)
  BY <1>2, <1>3 DEF PreviousNote, CoveredThrough
<1>5. Writers(Q) = Writers(R)
  BY <1>0, <1>1, <1>2, CheckpointIs DEF Writers
<1>6. WriterCheckpoint(Q) = WriterCheckpoint(R) /\ WriterCheckpoint(R) \in 0..Len(R)
  BY <1>0, <1>5, CheckpointIs DEF WriterCheckpoint, Writers
<1>7. Base(Q) = Base(R)
  BY <1>2, <1>6 DEF Base
<1> DEFINE c == CoveredThrough(R)
           S == {i \in Since(R) : i <= c}
<1>8. c \in 0..Len(R)
  BY DEF Notes
<1>9. S \subseteq 1..Len(R)
  BY <1>0, PlacesStay DEF Since
<1>10. {i \in Since(Q) : i <= c} = S
  <2>1. Places(Q, "note") = Places(R, "note") \/ Places(Q, "note") = Places(R, "note") \cup {Len(Q)}
    BY PlacesMore
  <2>2. ~(Len(Q) <= c)
    BY <1>0, <1>8
  <2> HIDE DEF c
  <2> QED BY <1>7, <2>1, <2>2 DEF Since
<1>11. Uncorrected(Q, Base(Q).note, S) = Uncorrected(R, Base(R).note, S)
  <2> HIDE DEF S
  <2>1. Extends(R, Q) /\ S \subseteq 1..Len(R)
    BY <1>0, <1>9
  <2>2. SameFor(R, Q, S)
    BY <2>1, SameFacts
  <2> QED BY <1>7, <2>2 DEF SameFor
<1>12. CoveredThrough(Q) \in 0..Len(Q)
  BY <1>0, <1>4, <1>8
<1>13. OneForOne(Q, Base(R).note, S)
  <2>1. OneForOne(R, Base(R).note, S)
    BY DEF Notes, StandsFor
  <2> HIDE DEF S
  <2> QED BY <1>0, <1>9, <2>1, SameForOne
<1> HIDE DEF c, S
<1> QED BY <1>4, <1>7, <1>10, <1>11, <1>12, <1>13 DEF Notes, StandsFor, c, S

\* A writer's checkpoint starts anew.
LEMMA WriterStep ==
  ASSUME NEW R, NEW Q, OneMore(R, Q), Q[Len(Q)].kind = "checkpoint", Q[Len(Q)].by = "writer",
         Q[Len(Q)].covered \in 1..Len(R)
  PROVE  Notes(Q)
<1>0. Extends(R, R) /\ Extends(Q, Q) /\ Len(R) \in Nat /\ Len(Q) = Len(R) + 1 /\ Len(Q) # 0 /\ Len(Q) \in 1..Len(Q)
  BY DEF OneMore, Extends
<1>1. Places(Q, "checkpoint") = Places(R, "checkpoint") \cup {Len(R) + 1}
  BY <1>0, PlacesMore
<1>2. LastCheckpoint(Q) = Len(Q)
  BY <1>0, <1>1, CheckpointIs, LastMore DEF LastCheckpoint
<1>3. Writers(Q) = Writers(R) \cup {Len(R) + 1}
  <2>1. \A i \in 1..Len(R) : Q[i] = R[i]
    BY DEF OneMore, Extends
  <2> QED BY <1>0, <1>1, <2>1, CheckpointIs DEF Writers
<1>4. WriterCheckpoint(Q) = Len(Q)
  <2>1. WriterCheckpoint(Q) = LastOf(Writers(Q)) /\ Writers(R) \subseteq 1..Len(R)
    BY <1>0, CheckpointIs
  <2>2. LastOf(Writers(R) \cup {Len(R) + 1}) = Len(R) + 1
    BY <1>0, <2>1, LastMore
  <2> QED BY <1>0, <1>3, <2>1, <2>2
<1>5. PreviousNote(Q) = Q[Len(Q)].note /\ CoveredThrough(Q) = Q[Len(Q)].covered
  BY <1>0, <1>2 DEF PreviousNote, CoveredThrough
<1>6. Base(Q).note = Q[Len(Q)].note /\ Base(Q).covered = Q[Len(Q)].covered
  BY <1>0, <1>4 DEF Base
<1>7. {i \in Since(Q) : i <= Q[Len(Q)].covered} = {}
  <2>1. Places(Q, "note") \subseteq 1..Len(Q)
    BY <1>0, PlacesStay
  <2> QED BY <1>0, <1>6, <2>1 DEF Since
<1>8. \A note : Uncorrected(Q, note, {}) = Of(note, "fact")
  BY DEF Uncorrected
<1> DEFINE c == Q[Len(Q)].covered
           note == Q[Len(Q)].note
<1>9. c \in 0..Len(Q) /\ c \in 0..c
  BY <1>0
<1>10. Of(note, "fact") = Uncorrected(Q, note, {i \in Since(Q) : i <= c})
  BY <1>7, <1>8
<1>11. PreviousNote(Q) = note /\ CoveredThrough(Q) = c /\ Base(Q).note = note /\ Base(Q).covered = c
  BY <1>5, <1>6
<1>12. OneForOne(Q, note, {i \in Since(Q) : i <= c})
  BY <1>7 DEF OneForOne
<1> HIDE DEF c, note
<1> QED BY <1>9, <1>10, <1>11, <1>12 DEF Notes, StandsFor

\* A checkpoint of merged work notes stands for what it merged.
LEMMA NotesStep ==
  ASSUME NEW R, NEW Q, OneMore(R, Q), FiniteNotes(R), Notes(R),
         Q[Len(Q)].kind = "checkpoint", Q[Len(Q)].by = "notes",
         workNotes(R) # {}, mergeWorkNotes(R).ok,
         Q[Len(Q)].note = mergeWorkNotes(R).note, Q[Len(Q)].covered = LastOf(Places(R, "note"))
  PROVE  Notes(Q)
<1> DEFINE l == LastOf(Places(R, "note"))
           S == {i \in Since(R) : i <= l}
<1>0. /\ Extends(R, R) /\ Extends(R, Q) /\ Len(R) \in Nat /\ Len(Q) = Len(R) + 1 /\ Len(Q) # 0
      /\ Places(R, "note") \subseteq 1..Len(R)
  <2>1. /\ Extends(R, R) /\ Extends(R, Q) /\ Len(R) \in Nat /\ Len(Q) = Len(R) + 1 /\ Len(Q) # 0
    BY DEF OneMore, Extends
  <2> QED BY <2>1, PlacesStay
<1>1. l \in 0..Len(R) /\ \A i \in Places(R, "note") : i <= l
  BY <1>0, LastIs
<1>2. Base(R).covered \in 0..CoveredThrough(R) /\ CoveredThrough(R) \in 0..Len(R) /\ CoveredThrough(R) <= l
  <2>1. PICK i \in Places(R, "note") : i > CoveredThrough(R)
    BY DEF workNotes
  <2> HIDE DEF l
  <2> QED BY <1>0, <1>1, <2>1 DEF Notes
<1>3. Places(Q, "checkpoint") = Places(R, "checkpoint") \cup {Len(R) + 1}
  BY <1>0, PlacesMore
<1>4. LastCheckpoint(Q) = Len(Q)
  BY <1>0, <1>3, CheckpointIs, LastMore DEF LastCheckpoint
<1>5. PreviousNote(Q) = mergeWorkNotes(R).note /\ CoveredThrough(Q) = l
  BY <1>0, <1>4 DEF PreviousNote, CoveredThrough
<1>6. \A i \in 1..Len(R) : Q[i] = R[i]
  BY <1>0 DEF Extends
<1>7. Writers(Q) = Writers(R)
  BY <1>0, <1>3, <1>6, CheckpointIs DEF Writers
<1>8. WriterCheckpoint(Q) = WriterCheckpoint(R) /\ WriterCheckpoint(R) \in 0..Len(R)
  BY <1>0, <1>7, CheckpointIs DEF WriterCheckpoint, Writers
<1>9. Base(Q) = Base(R)
  BY <1>6, <1>8 DEF Base
<1>10. Since(Q) = Since(R)
  BY <1>9, PlacesMore DEF Since
<1>11. S = {i \in Since(R) : i <= Len(R)} /\ S \subseteq 1..Len(R)
  <2> HIDE DEF l
  <2> QED BY <1>0, <1>1 DEF Since
<1>12. StandsFor(R, mergeWorkNotes(R).note, Len(R))
  BY <1>0, MergeStandsFor
<1>13. Uncorrected(Q, Base(R).note, S) = Uncorrected(R, Base(R).note, S)
  <2> HIDE DEF S
  <2>1. Extends(R, Q) /\ S \subseteq 1..Len(R)
    BY <1>0, <1>11
  <2>2. SameFor(R, Q, S)
    BY <2>1, SameFacts
  <2> QED BY <2>2 DEF SameFor
<1>16. OneForOne(Q, Base(R).note, S)
  <2>1. OneForOne(R, Base(R).note, S)
    <3> HIDE DEF S
    <3> QED BY <1>11, <1>12 DEF StandsFor
  <2> HIDE DEF S
  <2> QED BY <1>0, <1>11, <2>1, SameForOne
<1> HIDE DEF l, S
<1>14. l \in 0..Len(Q) /\ Base(Q).covered \in 0..l
  BY <1>0, <1>1, <1>2, <1>9
<1>15. {i \in Since(Q) : i <= l} = S
  BY <1>10 DEF S
<1> QED BY <1>5, <1>9, <1>11, <1>12, <1>13, <1>14, <1>15, <1>16 DEF Notes, StandsFor

\* Every note that comes to a branch is finite.
LEMMA FiniteNotesKept ==
  ASSUME Branch, FiniteNotes(records), Next PROVE FiniteNotes(records')
<1>1. Extends(records, records) /\ DOMAIN records = 1..Len(records) /\ Len(records) \in Nat
  BY DEF Branch, Extends
<1>2. ASSUME NEW r, IsFiniteSet(r.note), NEW pause, records' = Append(records, [r EXCEPT !.pause = pause])
      PROVE  FiniteNotes(records')
  <2> DEFINE y == [r EXCEPT !.pause = pause]
  <2>1. y.note = r.note
    OBVIOUS
  <2> HIDE DEF y
  <2>2. records' = Append(records, y)
    BY <1>2 DEF y
  <2>3. DOMAIN records' = 1..(Len(records) + 1) /\ records'[Len(records) + 1] = y
        /\ \A i \in 1..Len(records) : records'[i] = records[i]
    BY <2>2 DEF Branch
  <2> QED BY <1>1, <1>2, <2>1, <2>3 DEF FiniteNotes
<1>3. ASSUME NEW r, IsFiniteSet(r.note), Extend(r) PROVE FiniteNotes(records')
  BY <1>2, <1>3 DEF Extend
<1>4. ASSUME NEW kind, NEW size PROVE IsFiniteSet(Record(kind, size).note)
  BY FS_EmptySet DEF Record
<1>5. ASSUME NEW note, IsFiniteSet(note), NEW covered, NEW by, Checkpoint(note, covered, by)
      PROVE  FiniteNotes(records')
  <2> DEFINE r == [Record("checkpoint", 1) EXCEPT !.note = note, !.covered = covered, !.by = by]
  <2>1. Extend(r)
    BY <1>5 DEF Checkpoint
  <2>2. r.note = note
    BY DEF Record
  <2> HIDE DEF r
  <2> QED BY <1>3, <1>5, <2>1, <2>2
<1>6. CASE Prompt \/ Stop
  BY <1>3, <1>4, <1>6 DEF Prompt, Stop
<1>7. ASSUME NEW target, NEW size, NEW text, ToolResult(target, size, text) PROVE FiniteNotes(records')
  <2> DEFINE r == [Record("result", size) EXCEPT !.target = target, !.text = text]
  <2>1. Extend(r)
    BY <1>7 DEF ToolResult
  <2>2. r.note = {}
    BY DEF Record
  <2> HIDE DEF r
  <2> QED BY <1>3, <2>1, <2>2, FS_EmptySet
<1>8. ASSUME NEW fact, NEW plan \in Plans, TakeNote({fact} \cup plan) PROVE FiniteNotes(records')
  <2> DEFINE facts == {fact} \cup plan
             r == [Record("note", 0) EXCEPT !.note = facts]
  <2>1. IsFiniteSet(facts)
    <3>1. IsFiniteSet(plan)
      <4>1. plan = {} \/ \E x : plan = {x}
        BY DEF Plans
      <4> QED BY <4>1, FS_EmptySet, FS_Singleton
    <3> QED BY <3>1, FS_Singleton, FS_Union
  <2> HIDE DEF facts
  <2>2. Extend(r)
    BY <1>8 DEF TakeNote, facts
  <2>3. r.note = facts
    BY DEF Record
  <2> HIDE DEF r
  <2> QED BY <1>3, <2>1, <2>2, <2>3
<1>9. CASE CompactFromNotes
  <2>1. PICK f : Stages(records, f, Len(records)) /\ mergeWorkNotes(records) = f[Len(records)]
    BY <1>1, MergeDef
  <2>2. IsFiniteSet(mergeWorkNotes(records).note)
    <3>1. mergeWorkNotes(records).ok
      BY <1>9 DEF CompactFromNotes
    <3>2. \A k \in 0..Len(records) : f[k].ok => IsFiniteSet(f[k].note)
      BY <1>1, <2>1, StagesFinite
    <3> QED BY <1>1, <2>1, <3>1, <3>2
  <2> QED BY <1>5, <1>9, <2>2 DEF CompactFromNotes
<1>10. ASSUME NEW note \in WriterNotes, NEW covered, CompactByWriter(note, covered)
       PROVE  FiniteNotes(records')
  <2>1. IsFiniteSet(note)
    BY FS_Singleton DEF WriterNotes
  <2> QED BY <1>5, <1>10, <2>1 DEF CompactByWriter
<1> QED BY <1>6, <1>7, <1>8, <1>9, <1>10 DEF Next

\* Notes are finite in every state.
THEOREM NotesAreFinite == Spec => []FiniteNotes(records)
<1>1. Init => FiniteNotes(records)
  BY DEF Init, FiniteNotes
<1>2. Branch /\ FiniteNotes(records) /\ [Next]_vars => FiniteNotes(records)'
  <2> SUFFICES ASSUME Branch, FiniteNotes(records), [Next]_vars PROVE FiniteNotes(records)'
    OBVIOUS
  <2>1. CASE UNCHANGED vars
    BY <2>1 DEF vars
  <2> QED BY <2>1, FiniteNotesKept
<1> QED BY <1>1, <1>2, Branches, PTL DEF Spec

\* The last checkpoint stands for what it covers after every step.
LEMMA NotesKept ==
  ASSUME Branch, FiniteNotes(records), Notes(records), Next PROVE Notes(records')
<1> DEFINE R == records
           Q == records'
           x == Q[Len(Q)]
<1>1. OneMore(R, Q) /\ \A r : Extend(r) => \E pause : x = [r EXCEPT !.pause = pause]
  <2>1. Extends(R, Q) /\ Branch'
    BY StepExtends
  <2>2. \E y : Q = Append(R, y)
    BY DEF Next, Prompt, Stop, ToolResult, TakeNote, CompactFromNotes, CompactByWriter, Checkpoint, Extend
  <2>3. Len(Q) = Len(R) + 1
    BY <2>2 DEF Branch
  <2>4. Extends(Q, Q)
    BY <2>1 DEF Extends
  <2>5. ASSUME NEW r, Extend(r) PROVE \E pause : x = [r EXCEPT !.pause = pause]
    <3>1. PICK pause : Q = Append(R, [r EXCEPT !.pause = pause])
      BY <2>5 DEF Extend
    <3> DEFINE y == [r EXCEPT !.pause = pause]
    <3>2. Q[Len(Q)] = y
      <4> HIDE DEF y
      <4>1. Q = Append(R, y)
        BY <3>1 DEF y
      <4> QED BY <4>1, <2>3 DEF Branch
    <3> QED BY <3>2
  <2> QED BY <2>1, <2>3, <2>4, <2>5 DEF OneMore
<1> HIDE DEF R, Q
<1>2. ASSUME x.kind # "checkpoint" PROVE Notes(Q)
  BY <1>1, <1>2, OtherStep DEF R
<1>3. CASE CompactFromNotes
  <2>1. /\ workNotes(R) # {} /\ mergeWorkNotes(R).ok
        /\ Extend([Record("checkpoint", 1) EXCEPT !.note = mergeWorkNotes(R).note,
                     !.covered = LastOf(Places(R, "note")), !.by = "notes"])
    BY <1>3 DEF CompactFromNotes, Checkpoint, R
  <2> DEFINE note == mergeWorkNotes(R).note
             covered == LastOf(Places(R, "note"))
  <2>2. /\ x.kind = "checkpoint" /\ x.by = "notes" /\ x.note = note
        /\ x.covered = covered
    <3> HIDE DEF note, covered
    <3>1. Extend([Record("checkpoint", 1) EXCEPT !.note = note, !.covered = covered, !.by = "notes"])
      BY <2>1 DEF note, covered
    <3>2. PICK pause : x = [[Record("checkpoint", 1) EXCEPT !.note = note, !.covered = covered, !.by = "notes"]
                              EXCEPT !.pause = pause]
      BY <1>1, <3>1
    <3> HIDE DEF x
    <3> QED BY <3>2 DEF Record
  <2>3. /\ Q[Len(Q)].kind = "checkpoint" /\ Q[Len(Q)].by = "notes"
        /\ Q[Len(Q)].note = mergeWorkNotes(R).note /\ Q[Len(Q)].covered = LastOf(Places(R, "note"))
    BY <2>2
  <2>4. Notes(R) /\ FiniteNotes(R)
    BY DEF R
  <2> HIDE DEF note, covered, x
  <2>5. Notes(Q)
    BY <1>1, <2>1, <2>3, <2>4, NotesStep
  <2> QED BY <2>5 DEF Q
<1>4. ASSUME NEW note, NEW covered \in DOMAIN records, CompactByWriter(note, covered)
      PROVE  Notes(Q)
  <2>1. Extend([Record("checkpoint", 1) EXCEPT !.note = note, !.covered = covered, !.by = "writer"])
    BY <1>4 DEF CompactByWriter, Checkpoint
  <2>2. x.kind = "checkpoint" /\ x.by = "writer" /\ x.covered = covered
    <3>1. PICK pause : x = [[Record("checkpoint", 1) EXCEPT !.note = note, !.covered = covered, !.by = "writer"]
                              EXCEPT !.pause = pause]
      BY <1>1, <2>1
    <3> HIDE DEF x
    <3> QED BY <3>1 DEF Record
  <2>3. covered \in 1..Len(R)
    BY <1>1, <1>4 DEF OneMore, Extends, R
  <2>4. Q[Len(Q)].covered \in 1..Len(R)
    BY <2>2, <2>3
  <2> QED BY <1>1, <2>2, <2>4, WriterStep
<1>5. ASSUME NEW size, NEW kind, kind # "checkpoint", Extend(Record(kind, size)) PROVE Notes(Q)
  <2>1. PICK pause : x = [Record(kind, size) EXCEPT !.pause = pause]
    BY <1>1, <1>5
  <2>2. x.kind = kind
    <3> HIDE DEF x
    <3> QED BY <2>1 DEF Record
  <2> QED BY <1>2, <1>5, <2>2
<1>6. ASSUME NEW target, NEW size, NEW text, ToolResult(target, size, text) PROVE Notes(Q)
  <2>1. PICK pause : x = [[Record("result", size) EXCEPT !.target = target, !.text = text] EXCEPT !.pause = pause]
    BY <1>1, <1>6 DEF ToolResult
  <2>2. x.kind = "result"
    <3> HIDE DEF x
    <3> QED BY <2>1 DEF Record
  <2> QED BY <1>2, <2>2
<1>7. ASSUME NEW facts, TakeNote(facts) PROVE Notes(Q)
  <2>1. PICK pause : x = [[Record("note", 0) EXCEPT !.note = facts] EXCEPT !.pause = pause]
    BY <1>1, <1>7 DEF TakeNote
  <2>2. x.kind = "note"
    <3> HIDE DEF x
    <3> QED BY <2>1 DEF Record
  <2> QED BY <1>2, <2>2
<1>8. CASE Prompt \/ Stop
  <2>1. Extend(Record("user", 1)) \/ Extend(Record("stop", 1))
    BY <1>8 DEF Prompt, Stop
  <2>2. "user" # "checkpoint" /\ "stop" # "checkpoint"
    OBVIOUS
  <2>3. Notes(Q)
    <3> HIDE DEF Q
    <3> QED BY <1>5, <2>1, <2>2, Zenon
  <2> QED BY <2>3 DEF Q
<1> QED BY <1>3, <1>4, <1>6, <1>7, <1>8 DEF Next, Q

\* The last checkpoint stands for what it covers, in every state.
THEOREM CheckpointsStand == Spec => []Notes(records)
<1>1. ASSUME Init PROVE Notes(records)
  <2>1. records = <<>> /\ DOMAIN records = {} /\ Len(records) = 0
    BY <1>1 DEF Init
  <2>2. \A kind : Places(records, kind) = {}
    BY <2>1 DEF Places
  <2>3. LastCheckpoint(records) = 0 /\ WriterCheckpoint(records) = 0 /\ Since(records) = {}
    BY <2>2 DEF LastCheckpoint, WriterCheckpoint, LastOf, Since
  <2>4. /\ PreviousNote(records) = {} /\ CoveredThrough(records) = 0
        /\ Base(records).note = {} /\ Base(records).covered = 0
    BY <2>3 DEF PreviousNote, CoveredThrough, Base
  <2>5. Of({}, "fact") = Uncorrected(records, {}, {}) /\ OneForOne(records, {}, {}) /\ 0 \in 0..0
    BY DEF Uncorrected, OneForOne
  <2>6. {i \in Since(records) : i <= 0} = {}
    BY <2>3
  <2> QED BY <2>1, <2>4, <2>5, <2>6 DEF Notes, StandsFor
<1>2. Branch /\ FiniteNotes(records) /\ Notes(records) /\ [Next]_vars => Notes(records)'
  <2> SUFFICES ASSUME Branch, FiniteNotes(records), Notes(records), [Next]_vars
               PROVE  Notes(records)'
    OBVIOUS
  <2>1. CASE UNCHANGED vars
    BY <2>1 DEF vars
  <2> QED BY <2>1, NotesKept
<1>3. Init => Notes(records)
  BY <1>1
<1> QED BY <1>2, <1>3, Branches, NotesAreFinite, PTL DEF Spec

\* Over any number of merges and checkpoints without a writer the instructions
\* stay, the merged note has exactly the facts that no later note corrects, and
\* no correction has taken more facts away than it gave (work-notes.ts
\* mergeWorkNotes).
THEOREM FactsStand == Spec => []FactsCorrectedNotLost
<1>1. Branch /\ FiniteNotes(records) /\ Notes(records) => FactsCorrectedNotLost
  <2> SUFFICES ASSUME Branch, FiniteNotes(records), Notes(records), mergeWorkNotes(records).ok
               PROVE  /\ Of(mergeWorkNotes(records).note, "instruction") = Of(Base(records).note, "instruction")
                      /\ Of(mergeWorkNotes(records).note, "fact") =
                           Uncorrected(records, Base(records).note, Since(records))
                      /\ OneForOne(records, Base(records).note, Since(records))
    BY DEF FactsCorrectedNotLost
  <2>1. Extends(records, records) /\ Since(records) \subseteq 1..Len(records)
    <3>1. Extends(records, records)
      BY DEF Branch, Extends
    <3> QED BY <3>1, PlacesStay DEF Since
  <2>2. StandsFor(records, mergeWorkNotes(records).note, Len(records))
    BY <2>1, MergeStandsFor
  <2>3. {i \in Since(records) : i <= Len(records)} = Since(records)
    BY <2>1
  <2> QED BY <2>2, <2>3 DEF StandsFor
<1> QED BY <1>1, Branches, NotesAreFinite, CheckpointsStand, PTL
=============================================================================
