-------------------------- MODULE JsonlStorageProofs --------------------------
(***************************************************************************)
(* JsonlStorage: recovery never refuses a directory the backend itself     *)
(* left behind, and the backend implements CommitLog, for any objects, any *)
(* number of commits, crashes, failed operations and power losses.         *)
(***************************************************************************)
EXTENDS JsonlStorage, WellFoundedInduction, TLAPS

----------------------------------------------------------------------------
(* What markers and records are.                                           *)

Kinds == {"create", "base", "delta", "retire", "live", "terminal"}

MarkerRec == [seq : Nat \ {0}, id : Nat, writes : Batches]
RecordRec == [seq : Nat \ {0}, id : Nat, kind : Kinds]

\* No line of content c is cut off, or only its last one.
Clear(c) == \A x \in 1..Len(c) : c[x] # Torn
Whole(c) == \A x \in 1..(Len(c) - 1) : c[x] # Torn

\* The markers of M that need a record of o, and a record that one needs.
Needs(M, o) == {i \in 1..Len(M) : o \in DOMAIN M[i].writes /\ InSidecar(M[i].writes[o])}
Sound(M, o, r) == \E i \in Needs(M, o) : r.seq = M[i].seq
Has(M, c, i) == \E x \in 1..Len(c) : c[x].seq = M[i].seq

\* Numbers rise, and a number that a marker needs names the record it wrote.
Ordered(c) == \A x, y \in 1..Len(c) : x < y => c[x].seq < c[y].seq
Genuine(M, o, c) ==
  \A i \in Needs(M, o), x \in 1..Len(c) :
     c[x].seq = M[i].seq => c[x].id = M[i].id /\ c[x].kind = M[i].writes[o]

\* Records no marker needs come last.
TailLast(M, o, c) ==
  \A x, y \in 1..Len(c) : x < y /\ Sound(M, o, c[y]) => Sound(M, o, c[x])

\* A needed record is missing only when recovery does not miss it.
Ended(M, o, kind) == \E i \in 1..Len(M) : o \in DOMAIN M[i].writes /\ M[i].writes[o] = kind
Rebased(M, o, c, i) ==
  \E j \in Needs(M, o) : i < j /\ M[j].writes[o] \in {"create", "base"} /\ Has(M, c, j)
Gone(M, o, c, i) ==
  \/ o \in Works /\ Ended(M, o, "terminal")
  \/ o \in Docs /\ (Ended(M, o, "retire") \/ Rebased(M, o, c, i))
Covered(M, o, c) == \A i \in Needs(M, o) : Has(M, c, i) \/ Gone(M, o, c, i)

\* Recovery with markers M accepts a sidecar of o with records c.
Fits(M, o, c) == Ordered(c) /\ Genuine(M, o, c) /\ TailLast(M, o, c) /\ Covered(M, o, c)

\* Every line is a record that a marker needs.
Clean(M, o, c) == Clear(c) /\ \A x \in 1..Len(c) : Sound(M, o, c[x])

\* Markers in order, none writing an object that one before it ended.
Legal(M) ==
  /\ \A i, j \in 1..Len(M) : i < j =>
       /\ M[i].seq < M[j].seq
       /\ \A o \in DOMAIN M[i].writes \cap DOMAIN M[j].writes : M[i].writes[o] \notin {"retire", "terminal"}
  /\ \A i \in 1..Len(M) : \A o \in DOMAIN M[i].writes :
       M[i].writes[o] \in IF o \in Works THEN {"live", "terminal"}
                          ELSE {"create", "base", "delta", "retire"}

Begins(m, M) == Len(m) <= Len(M) /\ \A i \in 1..Len(m) : m[i] = M[i]

\* The batches of a sequence of markers.
AsLog(M) == [i \in 1..Len(M) |-> [id |-> M[i].id, writes |-> M[i].writes]]

----------------------------------------------------------------------------
(* Numbers.                                                                *)

\* A non-empty set of numbers has a least one.
LEMMA Least == ASSUME NEW S, S \subseteq Nat, S # {} PROVE \E x \in S : \A y \in S : x <= y
<1> DEFINE R == OpToRel(<, Nat)
<1>1. IsWellFoundedOn(R, Nat)
  BY NatLessThanWellFounded, Zenon
<1>2. \A x, y \in Nat : y < x => <<y, x>> \in R
  BY DEF OpToRel
<1> HIDE DEF R
<1>3. PICK x \in S : \A y \in S : ~ (<<y, x>> \in R)
  BY <1>1, WFMin
<1>4. \A y \in S : ~ (y < x)
  BY <1>2, <1>3
<1>5. \A y \in S : x <= y
  BY <1>4
<1> QED BY <1>5

\* A non-empty set of numbers up to n has a greatest one.
LEMMA Greatest ==
  ASSUME NEW n \in Nat, NEW S, S \subseteq 1..n, S # {} PROVE \E x \in S : \A y \in S : y <= x
<1> DEFINE T == {k \in Nat : n - k \in S}
<1>1. PICK s \in S : TRUE
  OBVIOUS
<1>2. n - s \in T
  BY <1>1
<1>3. T \subseteq Nat /\ T # {}
  BY <1>2
<1> HIDE DEF T
<1>4. PICK k \in T : \A j \in T : k <= j
  BY <1>3, Least
<1>5. k \in Nat /\ n - k \in S
  BY <1>4 DEF T
<1>6. \A y \in S : y <= n - k
  <2> TAKE y \in S
  <2>1. n - y \in T
    BY DEF T
  <2> QED BY <2>1, <1>4, <1>5
<1> QED BY <1>5, <1>6

\* The first place where something holds no longer, if only behind the end.
LEMMA FirstBreak ==
  ASSUME NEW n \in Nat, NEW S
  PROVE  \E k \in 1..(n + 1) : (\A i \in 1..(k - 1) : i \in S) /\ (k \in 1..n => k \notin S)
<1> DEFINE B == {i \in 1..n : i \notin S}
<1>1. CASE B = {}
  <2>1. n + 1 \in 1..(n + 1) /\ (\A i \in 1..(n + 1 - 1) : i \in S) /\ (n + 1 \in 1..n => n + 1 \notin S)
    BY <1>1
  <2> QED BY <2>1
<1>2. CASE B # {}
  <2>1. B \subseteq Nat
    OBVIOUS
  <2>2. PICK k \in B : \A y \in B : k <= y
    <3> HIDE DEF B
    <3> QED BY <2>1, <1>2, Least
  <2>3. k \in 1..(n + 1) /\ (\A i \in 1..(k - 1) : i \in S) /\ (k \in 1..n => k \notin S)
    BY <2>2
  <2> QED BY <2>3
<1> QED BY <1>1, <1>2

----------------------------------------------------------------------------
(* Lines.                                                                  *)

LEMMA TornIsNoLine == Torn \notin MarkerRec /\ Torn \notin RecordRec
<1>1. Torn.seq = 0
  BY DEF Torn
<1>2. \A r \in MarkerRec : r.seq # 0
  BY DEF MarkerRec
<1>3. \A r \in RecordRec : r.seq # 0
  BY DEF RecordRec
<1> QED BY <1>1, <1>2, <1>3

\* A file without a torn line inside is its complete lines, and maybe a torn one.
LEMMA CompleteLines ==
  ASSUME NEW S, Torn \notin S, NEW c \in Seq(S \cup {Torn}), Whole(c)
  PROVE  /\ Complete(c) \in Seq(S) /\ Len(Complete(c)) <= Len(c)
         /\ \A x \in 1..Len(Complete(c)) : Complete(c)[x] = c[x]
         /\ Clear(c) => Complete(c) = c
<1>1. CASE c = <<>>
  BY <1>1 DEF Complete, Clear
<1>2. CASE c # <<>> /\ c[Len(c)] = Torn
  <2>1. Complete(c) = SubSeq(c, 1, Len(c) - 1)
    BY <1>2 DEF Complete, Last, Front
  <2>2. Len(c) \in Nat /\ Len(c) >= 1
    BY <1>2
  <2>3. \A x \in 1..(Len(c) - 1) : c[x] \in S
    BY DEF Whole
  <2>4. SubSeq(c, 1, Len(c) - 1) \in Seq(S)
    BY <2>2, <2>3
  <2>5. ~Clear(c)
    BY <1>2, <2>2 DEF Clear
  <2> QED BY <2>1, <2>2, <2>4, <2>5
<1>3. CASE c # <<>> /\ c[Len(c)] # Torn
  <2>1. Complete(c) = c
    BY <1>3 DEF Complete, Last, Front
  <2>2. Len(c) \in Nat /\ Len(c) >= 1
    BY <1>3
  <2>3. \A x \in 1..Len(c) : c[x] \in S
    BY <1>3, <2>2 DEF Whole
  <2>4. c \in Seq(S)
    BY <2>3
  <2> QED BY <2>1, <2>4
<1> QED BY <1>1, <1>2, <1>3

\* A sequence of lines has no torn one.
LEMMA LinesAreClear ==
  ASSUME NEW S, Torn \notin S, NEW c \in Seq(S) PROVE Clear(c) /\ Whole(c) /\ Complete(c) = c
<1>1. \A x \in 1..Len(c) : c[x] \in S
  OBVIOUS
<1>2. Clear(c) /\ Whole(c)
  BY <1>1 DEF Clear, Whole
<1>3. c \in Seq(S \cup {Torn})
  OBVIOUS
<1> QED BY <1>2, <1>3, CompleteLines

\* One more line, complete or torn.
LEMMA AppendedLines ==
  ASSUME NEW S, Torn \notin S, NEW c \in Seq(S)
  PROVE  /\ \A r \in S : /\ Append(c, r) \in Seq(S)
                         /\ Whole(Append(c, r)) /\ Clear(Append(c, r)) /\ Complete(Append(c, r)) = Append(c, r)
         /\ Append(c, Torn) \in Seq(S \cup {Torn})
         /\ Whole(Append(c, Torn)) /\ Complete(Append(c, Torn)) = c
<1>1. \A r \in S : /\ Append(c, r) \in Seq(S)
                   /\ Whole(Append(c, r)) /\ Clear(Append(c, r)) /\ Complete(Append(c, r)) = Append(c, r)
  <2> TAKE r \in S
  <2>1. Append(c, r) \in Seq(S)
    OBVIOUS
  <2> QED BY <2>1, LinesAreClear
<1> DEFINE d == Append(c, Torn)
<1>2. d \in Seq(S \cup {Torn}) /\ Len(d) = Len(c) + 1 /\ d[Len(c) + 1] = Torn /\ \A x \in 1..Len(c) : d[x] = c[x]
  OBVIOUS
<1>3. Whole(d)
  BY <1>2 DEF Whole
<1>4. d # <<>> /\ Last(d) = Torn /\ Front(d) = SubSeq(d, 1, Len(c))
  BY <1>2 DEF Last, Front
<1>5. SubSeq(d, 1, Len(c)) = c
  <2> HIDE DEF d
  <2> QED BY <1>2
<1>6. Complete(d) = c
  BY <1>4, <1>5 DEF Complete
<1> QED BY <1>1, <1>2, <1>3, <1>6

----------------------------------------------------------------------------
(* What fits stays fitting.                                                *)

\* Markers and records have their fields.
LEMMA MarkersTyped ==
  ASSUME NEW M \in Seq(MarkerRec), NEW i \in 1..Len(M)
  PROVE  M[i] \in MarkerRec /\ M[i].seq \in Nat /\ M[i].seq # 0 /\ M[i].id \in Nat /\ M[i].writes \in Batches
<1>1. M[i] \in MarkerRec
  OBVIOUS
<1> QED BY <1>1 DEF MarkerRec

LEMMA RecordsTyped ==
  ASSUME NEW c \in Seq(RecordRec), NEW x \in 1..Len(c)
  PROVE  c[x] \in RecordRec /\ c[x].seq \in Nat /\ c[x].seq # 0 /\ c[x].id \in Nat /\ c[x].kind \in Kinds
<1>1. c[x] \in RecordRec
  OBVIOUS
<1> QED BY <1>1 DEF RecordRec

\* Needs of a longer sequence of markers.
LEMMA NeedsAppended ==
  ASSUME NEW M \in Seq(MarkerRec), NEW mk \in MarkerRec, NEW o
  PROVE  LET N == Append(M, mk)
         IN /\ Len(N) = Len(M) + 1 /\ N[Len(M) + 1] = mk /\ \A i \in 1..Len(M) : N[i] = M[i]
            /\ o \in SidecarsOf(mk.writes) => Needs(N, o) = Needs(M, o) \cup {Len(M) + 1}
            /\ o \notin SidecarsOf(mk.writes) => Needs(N, o) = Needs(M, o)
            /\ Needs(M, o) \subseteq 1..Len(M) /\ Needs(M, o) \subseteq Needs(N, o)
<1> DEFINE N == Append(M, mk)
<1>1. Len(N) = Len(M) + 1 /\ N[Len(M) + 1] = mk /\ \A i \in 1..Len(M) : N[i] = M[i]
  OBVIOUS
<1> HIDE DEF N
<1>2. Needs(M, o) \subseteq 1..Len(M)
  BY DEF Needs
<1>3. \A i \in 1..Len(M) : i \in Needs(N, o) <=> i \in Needs(M, o)
  BY <1>1 DEF Needs
<1>4. Len(M) + 1 \in Needs(N, o) <=> o \in SidecarsOf(mk.writes)
  BY <1>1 DEF Needs, SidecarsOf
<1>5. Needs(N, o) \subseteq 1..(Len(M) + 1)
  BY <1>1 DEF Needs
<1>6. /\ o \in SidecarsOf(mk.writes) => Needs(N, o) = Needs(M, o) \cup {Len(M) + 1}
      /\ o \notin SidecarsOf(mk.writes) => Needs(N, o) = Needs(M, o)
      /\ Needs(M, o) \subseteq Needs(N, o)
  <2>1. Len(M) \in Nat
    OBVIOUS
  <2>2. \A i \in Needs(N, o) : i \in 1..Len(M) \/ i = Len(M) + 1
    BY <1>5, <2>1
  <2>3. Needs(M, o) \subseteq Needs(N, o)
    BY <1>2, <1>3
  <2>4. Needs(N, o) \subseteq Needs(M, o) \cup {Len(M) + 1}
    BY <1>3, <2>2
  <2>5. Len(M) + 1 \notin Needs(M, o)
    BY <1>2, <2>1
  <2> QED BY <1>4, <2>3, <2>4, <2>5
<1> QED BY <1>1, <1>2, <1>6 DEF N

\* A record with a number beyond all markers may follow.
LEMMA FitsRecord ==
  ASSUME NEW M \in Seq(MarkerRec), NEW o, NEW c \in Seq(RecordRec), NEW r \in RecordRec,
         Fits(M, o, c), \A x \in 1..Len(c) : c[x].seq < r.seq, \A i \in 1..Len(M) : M[i].seq < r.seq
  PROVE  Fits(M, o, Append(c, r))
<1> DEFINE d == Append(c, r)
<1>1. Len(d) = Len(c) + 1 /\ d[Len(c) + 1] = r /\ \A x \in 1..Len(c) : d[x] = c[x]
  OBVIOUS
<1>2. Len(c) \in Nat /\ Needs(M, o) \subseteq 1..Len(M)
  BY DEF Needs
<1> HIDE DEF d
<1>3. Ordered(d)
  <2> SUFFICES ASSUME NEW x \in 1..Len(d), NEW y \in 1..Len(d), x < y PROVE d[x].seq < d[y].seq
    BY DEF Ordered
  <2>1. x \in 1..Len(c)
    BY <1>1, <1>2
  <2>2. CASE y \in 1..Len(c)
    BY <2>1, <2>2, <1>1 DEF Ordered, Fits
  <2>3. CASE y = Len(c) + 1
    BY <2>1, <2>3, <1>1
  <2>4. y \in 1..Len(c) \/ y = Len(c) + 1
    BY <1>1, <1>2
  <2> QED BY <2>2, <2>3, <2>4
<1>4. \A i \in Needs(M, o) : M[i].seq # r.seq
  <2> TAKE i \in Needs(M, o)
  <2>1. i \in 1..Len(M)
    BY <1>2
  <2>2. M[i].seq < r.seq /\ M[i].seq \in Nat
    BY <2>1, MarkersTyped
  <2> QED BY <2>2 DEF RecordRec
<1>5. Genuine(M, o, d)
  BY <1>1, <1>2, <1>4 DEF Genuine, Fits
<1>6. ~Sound(M, o, r)
  BY <1>4 DEF Sound
<1>7. TailLast(M, o, d)
  <2> SUFFICES ASSUME NEW x \in 1..Len(d), NEW y \in 1..Len(d), x < y, Sound(M, o, d[y]) PROVE Sound(M, o, d[x])
    BY DEF TailLast
  <2>1. y \in 1..Len(c)
    BY <1>1, <1>2, <1>6
  <2>2. x \in 1..Len(c)
    BY <2>1, <1>2
  <2> QED BY <2>1, <2>2, <1>1 DEF TailLast, Fits
<1>8. \A i : Has(M, c, i) => Has(M, d, i)
  BY <1>1, <1>2 DEF Has
<1>9. Covered(M, o, d)
  BY <1>8 DEF Covered, Fits, Gone, Rebased
<1> QED BY <1>3, <1>5, <1>7, <1>9 DEF Fits, d

\* What an earlier marker ended or rebased stays ended and rebased.
LEMMA GoneStays ==
  ASSUME NEW M \in Seq(MarkerRec), NEW mk \in MarkerRec, NEW o, NEW c, NEW i, Gone(M, o, c, i)
  PROVE  Gone(Append(M, mk), o, c, i)
<1> DEFINE N == Append(M, mk)
<1>1. /\ Len(N) = Len(M) + 1 /\ N[Len(M) + 1] = mk /\ \A k \in 1..Len(M) : N[k] = M[k]
      /\ Needs(M, o) \subseteq Needs(N, o) /\ Needs(M, o) \subseteq 1..Len(M)
  BY NeedsAppended
<1> HIDE DEF N
<1>2. \A kind : Ended(M, o, kind) => Ended(N, o, kind)
  BY <1>1 DEF Ended
<1>3. Rebased(M, o, c, i) => Rebased(N, o, c, i)
  BY <1>1 DEF Rebased, Has
<1> QED BY <1>2, <1>3 DEF Gone, N

\* A marker that needs no record of o changes nothing for it.
LEMMA FitsMarkerOther ==
  ASSUME NEW M \in Seq(MarkerRec), NEW mk \in MarkerRec, NEW o, NEW c,
         o \notin SidecarsOf(mk.writes), Fits(M, o, c)
  PROVE  Fits(Append(M, mk), o, c)
<1> DEFINE N == Append(M, mk)
<1>1. /\ \A k \in 1..Len(M) : N[k] = M[k]
      /\ Needs(N, o) = Needs(M, o) /\ Needs(M, o) \subseteq 1..Len(M)
  BY NeedsAppended
<1>2. \A i : Gone(M, o, c, i) => Gone(N, o, c, i)
  BY GoneStays
<1> HIDE DEF N
<1>3. \A r : Sound(N, o, r) <=> Sound(M, o, r)
  BY <1>1 DEF Sound
<1>4. Genuine(N, o, c)
  BY <1>1 DEF Genuine, Fits
<1>5. TailLast(N, o, c)
  BY <1>3 DEF TailLast, Fits
<1>6. Covered(N, o, c)
  BY <1>1, <1>2 DEF Covered, Fits, Has
<1> QED BY <1>4, <1>5, <1>6 DEF Fits, N

\* A marker confirms the record that its commit appended last.
LEMMA FitsMarkerOwn ==
  ASSUME NEW M \in Seq(MarkerRec), NEW mk \in MarkerRec, NEW o, NEW g \in Seq(RecordRec), NEW r \in RecordRec,
         Fits(M, o, Append(g, r)), Clean(M, o, g), o \in SidecarsOf(mk.writes),
         r.seq = mk.seq, r.id = mk.id, r.kind = mk.writes[o],
         \A i \in 1..Len(M) : M[i].seq < mk.seq
  PROVE  Fits(Append(M, mk), o, Append(g, r)) /\ Clean(Append(M, mk), o, Append(g, r))
<1> DEFINE N == Append(M, mk)
           d == Append(g, r)
           n == Len(M) + 1
<1>1. /\ Len(N) = n /\ N[n] = mk /\ \A k \in 1..Len(M) : N[k] = M[k]
      /\ Needs(N, o) = Needs(M, o) \cup {n} /\ Needs(M, o) \subseteq 1..Len(M)
  BY NeedsAppended
<1>2. Len(d) = Len(g) + 1 /\ d[Len(g) + 1] = r /\ \A x \in 1..Len(g) : d[x] = g[x]
  OBVIOUS
<1>3. Len(g) \in Nat /\ d \in Seq(RecordRec) /\ \A x \in 1..Len(d) : d[x] \in RecordRec
  <2>1. d \in Seq(RecordRec)
    OBVIOUS
  <2> QED BY <2>1
<1>4. \A i : Gone(M, o, d, i) => Gone(N, o, d, i)
  BY GoneStays
<1>5. Ordered(d) /\ Genuine(M, o, d) /\ Covered(M, o, d)
  BY DEF Fits
<1> HIDE DEF N, d, n
<1>6. \A x \in 1..Len(d) : Sound(N, o, d[x])
  <2> TAKE x \in 1..Len(d)
  <2>1. CASE x \in 1..Len(g)
    BY <2>1, <1>1, <1>2 DEF Clean, Sound
  <2>2. CASE x = Len(g) + 1
    BY <2>2, <1>1, <1>2 DEF Sound
  <2> QED BY <2>1, <2>2, <1>2, <1>3
<1>7. Genuine(N, o, d)
  <2> SUFFICES ASSUME NEW i \in Needs(N, o), NEW x \in 1..Len(d), d[x].seq = N[i].seq
               PROVE  d[x].id = N[i].id /\ d[x].kind = N[i].writes[o]
    BY DEF Genuine
  <2>1. CASE i \in Needs(M, o)
    BY <2>1, <1>1, <1>5 DEF Genuine
  <2>2. CASE i = n
    <3>1. d[x].seq = r.seq
      BY <2>2, <1>1
    <3>2. x = Len(g) + 1
      <4> SUFFICES ASSUME x < Len(g) + 1 PROVE FALSE
        BY <1>2, <1>3
      <4>1. d[x].seq < d[Len(g) + 1].seq
        BY <1>2, <1>3, <1>5 DEF Ordered
      <4>2. d[x].seq \in Nat
        BY <1>3 DEF RecordRec
      <4> QED BY <4>1, <4>2, <3>1, <1>2
    <3> QED BY <3>2, <2>2, <1>1, <1>2
  <2> QED BY <2>1, <2>2, <1>1
<1>8. Covered(N, o, d)
  <2> SUFFICES ASSUME NEW i \in Needs(N, o) PROVE Has(N, d, i) \/ Gone(N, o, d, i)
    BY DEF Covered
  <2>1. CASE i \in Needs(M, o)
    BY <2>1, <1>1, <1>4, <1>5 DEF Covered, Has
  <2>2. CASE i = n
    BY <2>2, <1>1, <1>2, <1>3 DEF Has
  <2> QED BY <2>1, <2>2, <1>1
<1>9. TailLast(N, o, d)
  BY <1>6 DEF TailLast
<1>10. Clear(d)
  BY <1>3, TornIsNoLine DEF Clear
<1> QED BY <1>5, <1>6, <1>7, <1>8, <1>9, <1>10 DEF Fits, Clean, N, d

\* A part of the records fits when it covers what is needed.
LEMMA FitsPart ==
  ASSUME NEW M \in Seq(MarkerRec), NEW o, NEW c \in Seq(RecordRec), Fits(M, o, c),
         NEW a \in Nat, NEW b \in Nat, a <= b, b <= Len(c), Covered(M, o, SubSeq(c, a + 1, b))
  PROVE  /\ Fits(M, o, SubSeq(c, a + 1, b)) /\ SubSeq(c, a + 1, b) \in Seq(RecordRec)
         /\ (\A x \in 1..Len(c) : a < x /\ x <= b => Sound(M, o, c[x])) => Clean(M, o, SubSeq(c, a + 1, b))
<1> DEFINE d == SubSeq(c, a + 1, b)
<1>1. d \in Seq(RecordRec) /\ Len(d) = b - a /\ \A x \in 1..(b - a) : d[x] = c[a + x] /\ a + x \in 1..Len(c)
  OBVIOUS
<1>2. \A x \in 1..(b - a) : a + x \in Int /\ a < a + x /\ a + x <= b
  OBVIOUS
<1>3. \A x, y \in 1..(b - a) : x < y => a + x < a + y
  OBVIOUS
<1> HIDE DEF d
<1>4. Ordered(d)
  <2> SUFFICES ASSUME NEW x \in 1..(b - a), NEW y \in 1..(b - a), x < y PROVE d[x].seq < d[y].seq
    BY <1>1 DEF Ordered
  <2>1. a + x \in 1..Len(c) /\ a + y \in 1..Len(c) /\ a + x < a + y /\ d[x] = c[a + x] /\ d[y] = c[a + y]
    BY <1>1, <1>3
  <2>2. Ordered(c)
    BY DEF Fits
  <2>3. c[a + x].seq < c[a + y].seq
    BY <2>1, <2>2 DEF Ordered
  <2> QED BY <2>1, <2>3
<1>5. Genuine(M, o, d)
  <2> SUFFICES ASSUME NEW i \in Needs(M, o), NEW x \in 1..(b - a), d[x].seq = M[i].seq
               PROVE  d[x].id = M[i].id /\ d[x].kind = M[i].writes[o]
    BY <1>1 DEF Genuine
  <2>1. a + x \in 1..Len(c) /\ d[x] = c[a + x]
    BY <1>1
  <2>2. Genuine(M, o, c)
    BY DEF Fits
  <2> QED BY <2>1, <2>2 DEF Genuine
<1>6. TailLast(M, o, d)
  <2> SUFFICES ASSUME NEW x \in 1..(b - a), NEW y \in 1..(b - a), x < y, Sound(M, o, d[y]) PROVE Sound(M, o, d[x])
    BY <1>1 DEF TailLast
  <2>1. a + x \in 1..Len(c) /\ a + y \in 1..Len(c) /\ a + x < a + y /\ d[x] = c[a + x] /\ d[y] = c[a + y]
    BY <1>1, <1>3
  <2>2. TailLast(M, o, c)
    BY DEF Fits
  <2>3. Sound(M, o, c[a + x])
    BY <2>1, <2>2 DEF TailLast
  <2> QED BY <2>1, <2>3
<1>7. Clear(d)
  BY <1>1, LinesAreClear, TornIsNoLine
<1>8. (\A x \in 1..Len(c) : a < x /\ x <= b => Sound(M, o, c[x])) => Clean(M, o, d)
  BY <1>1, <1>2, <1>7 DEF Clean
<1> QED BY <1>1, <1>4, <1>5, <1>6, <1>8 DEF Fits, d

\* What fewer markers need is what more of them need of the first ones.
LEMMA NeedsBegin ==
  ASSUME NEW m \in Seq(MarkerRec), NEW M \in Seq(MarkerRec), Begins(m, M), NEW o
  PROVE  /\ Needs(m, o) \subseteq Needs(M, o) /\ Needs(m, o) \subseteq 1..Len(m)
         /\ \A i \in Needs(m, o) : m[i] = M[i]
         /\ \A r : Sound(m, o, r) => Sound(M, o, r)
<1>1. Len(m) \in Nat /\ Len(M) \in Nat /\ Len(m) <= Len(M) /\ \A i \in 1..Len(m) : m[i] = M[i]
  BY DEF Begins
<1>2. Needs(m, o) \subseteq 1..Len(m)
  BY DEF Needs
<1>3. 1..Len(m) \subseteq 1..Len(M)
  BY <1>1
<1>4. \A i \in Needs(m, o) : i \in Needs(M, o) /\ m[i] = M[i]
  BY <1>1, <1>2, <1>3 DEF Needs
<1> QED BY <1>2, <1>4 DEF Sound

\* Cutting off the tail that the markers M do not need leaves what fewer need.
LEMMA FitsCut ==
  ASSUME NEW m \in Seq(MarkerRec), NEW M \in Seq(MarkerRec), Begins(m, M), NEW o,
         NEW c \in Seq(RecordRec), Fits(m, o, c), Fits(M, o, c),
         NEW k \in 0..Len(c), \A x \in 1..k : Sound(M, o, c[x]),
         k < Len(c) => ~Sound(M, o, c[k + 1])
  PROVE  Fits(m, o, SubSeq(c, 1, k))
<1> DEFINE d == SubSeq(c, 1, k)
<1>1. d \in Seq(RecordRec) /\ Len(d) = k /\ \A x \in 1..k : d[x] = c[x]
  OBVIOUS
<1>2. Len(c) \in Nat /\ k \in Nat /\ k <= Len(c)
  OBVIOUS
<1> HIDE DEF d
<1>3. \A x \in 1..Len(c) : Sound(M, o, c[x]) => x \in 1..k
  <2> SUFFICES ASSUME NEW x \in 1..Len(c), Sound(M, o, c[x]), k < x PROVE FALSE
    BY <1>2
  <2>1. k + 1 \in 1..Len(c) /\ (k + 1 < x \/ k + 1 = x) /\ k < Len(c)
    BY <1>2
  <2>2. Sound(M, o, c[k + 1])
    BY <2>1 DEF TailLast, Fits
  <2> QED BY <2>1, <2>2
<1>4. \A i \in Needs(m, o) : Has(m, c, i) => Has(m, d, i)
  <2> SUFFICES ASSUME NEW i \in Needs(m, o), NEW x \in 1..Len(c), c[x].seq = m[i].seq PROVE Has(m, d, i)
    BY DEF Has
  <2>1. Sound(m, o, c[x])
    BY DEF Sound
  <2>2. x \in 1..k
    BY <2>1, <1>3, NeedsBegin
  <2> QED BY <2>2, <1>1 DEF Has
<1>5. \A i : Gone(m, o, c, i) => Gone(m, o, d, i)
  BY <1>4 DEF Gone, Rebased
<1>6. Covered(m, o, d)
  BY <1>4, <1>5 DEF Covered, Fits
<1>7. Covered(m, o, SubSeq(c, 0 + 1, k))
  BY <1>6 DEF d
<1>8. 0 \in Nat /\ 0 <= k
  BY <1>2
<1>9. Fits(m, o, SubSeq(c, 0 + 1, k))
  BY <1>2, <1>7, <1>8, FitsPart
<1> QED BY <1>9

\* What a commit reclaims: everything when it ended the object ...
LEMMA FitsNothing ==
  ASSUME NEW M, NEW o,
         (o \in Works /\ Ended(M, o, "terminal")) \/ (o \in Docs /\ Ended(M, o, "retire"))
  PROVE  Fits(M, o, <<>>) /\ Clean(M, o, <<>>)
<1>1. \A x : x \notin 1..Len(<<>>)
  OBVIOUS
<1>2. Ordered(<<>>) /\ Genuine(M, o, <<>>) /\ TailLast(M, o, <<>>) /\ Clean(M, o, <<>>)
  BY <1>1 DEF Ordered, Genuine, TailLast, Clean, Clear
<1>3. Covered(M, o, <<>>)
  BY DEF Covered, Gone
<1> QED BY <1>2, <1>3 DEF Fits

\* ... or all but the record of its own base.
LEMMA FitsBase ==
  ASSUME NEW M \in Seq(MarkerRec), NEW n \in Nat, n = Len(M), NEW o \in Docs, NEW r \in RecordRec, Legal(M),
         n \in Needs(M, o), M[n].writes[o] = "base",
         r.seq = M[n].seq, r.id = M[n].id, r.kind = M[n].writes[o]
  PROVE  Fits(M, o, <<r>>) /\ Clean(M, o, <<r>>)
<1> DEFINE c == <<r>>
<1>1. c \in Seq(RecordRec) /\ Len(c) = 1 /\ c[1] = r
  OBVIOUS
<1> HIDE DEF c
<1>2. 1..Len(c) = {1}
  BY <1>1
<1>3. Ordered(c)
  BY <1>2 DEF Ordered
<1>4. \A i \in Needs(M, o) : i # n => i < n /\ M[i].seq < M[n].seq /\ M[i].seq \in Nat /\ M[n].seq \in Nat
  <2> TAKE i \in Needs(M, o)
  <2> HAVE i # n
  <2>1. i \in 1..Len(M) /\ n \in 1..Len(M)
    BY DEF Needs
  <2>2. i < n
    BY <2>1
  <2> QED BY <2>1, <2>2, MarkersTyped DEF Legal
<1>5. Genuine(M, o, c)
  <2> SUFFICES ASSUME NEW i \in Needs(M, o), r.seq = M[i].seq PROVE i = n
    BY <1>1, <1>2 DEF Genuine
  <2> QED BY <1>4
<1>6. \A x \in 1..Len(c) : Sound(M, o, c[x])
  BY <1>1, <1>2 DEF Sound
<1>7. TailLast(M, o, c)
  BY <1>6 DEF TailLast
<1>8. Has(M, c, n)
  BY <1>1, <1>2 DEF Has
<1>9. Covered(M, o, c)
  <2> SUFFICES ASSUME NEW i \in Needs(M, o) PROVE Has(M, c, i) \/ Gone(M, o, c, i)
    BY DEF Covered
  <2>1. CASE i = n
    BY <2>1, <1>8
  <2>2. CASE i # n
    <3>1. Rebased(M, o, c, i)
      BY <2>2, <1>4, <1>8 DEF Rebased
    <3> QED BY <3>1 DEF Gone
  <2> QED BY <2>1, <2>2
<1>10. Clear(c)
  BY <1>1, LinesAreClear, TornIsNoLine
<1> QED BY <1>3, <1>5, <1>6, <1>7, <1>9, <1>10 DEF Fits, Clean, c

----------------------------------------------------------------------------
(* What recovery sees of one object.                                       *)

\* The main file and one sidecar, as recovery may find them.
Found(o) ==
  /\ Whole(disk[Main]) /\ Whole(disk[o])
  /\ Markers \in Seq(MarkerRec) /\ Legal(Markers)
  /\ Records(o) \in Seq(RecordRec) /\ Fits(Markers, o, Records(o))

LEMMA SeesConfirmed ==
  ASSUME NEW o, Found(o)
  PROVE  /\ \A x \in 1..Len(Records(o)) : IsConfirmed(o, Records(o)[x]) <=> Sound(Markers, o, Records(o)[x])
         /\ \A i \in WritesOf(o) : Confirms(o, i) # {} <=> i \in Needs(Markers, o) /\ Has(Markers, Records(o), i)
         /\ WritesOf(o) = {i \in 1..Len(Markers) : o \in DOMAIN Markers[i].writes}
<1> DEFINE M == Markers
           c == Records(o)
<1>1. M \in Seq(MarkerRec) /\ c \in Seq(RecordRec)
  BY DEF Found
<1>2. DOMAIN M = 1..Len(M) /\ Range(c) = {c[x] : x \in 1..Len(c)}
  BY <1>1 DEF Range
<1>3. WritesOf(o) = {i \in 1..Len(M) : o \in DOMAIN M[i].writes}
  BY <1>2 DEF WritesOf
<1>4. \A i : i \in Needs(M, o) <=> i \in WritesOf(o) /\ InSidecar(M[i].writes[o])
  BY <1>3 DEF Needs
<1> HIDE DEF M, c
<1>5. \A i, r : r \in Confirms(o, i) <=> (\E x \in 1..Len(c) : r = c[x]) /\ InSidecar(M[i].writes[o]) /\ r.seq = M[i].seq
  BY <1>2 DEF Confirms, M, c
<1>6. \A x \in 1..Len(c) : IsConfirmed(o, c[x]) <=> Sound(M, o, c[x])
  BY <1>4, <1>5 DEF IsConfirmed, Sound
<1>7. \A i \in WritesOf(o) : Confirms(o, i) # {} <=> i \in Needs(M, o) /\ Has(M, c, i)
  <2> TAKE i \in WritesOf(o)
  <2>1. Confirms(o, i) # {} <=> \E r : r \in Confirms(o, i)
    OBVIOUS
  <2>2. (\E r : r \in Confirms(o, i)) <=> InSidecar(M[i].writes[o]) /\ \E x \in 1..Len(c) : c[x].seq = M[i].seq
    BY <1>5
  <2> QED BY <2>1, <2>2, <1>4 DEF Has
<1> QED BY <1>3, <1>6, <1>7 DEF M, c

\* The last write to an object, and whether one ended it.
LEMMA SeesEnds ==
  ASSUME NEW o, Found(o)
  PROVE  /\ FinalKind(o) = "terminal" <=> Ended(Markers, o, "terminal")
         /\ Retired(o) <=> Ended(Markers, o, "retire")
<1> DEFINE M == Markers
<1>1. M \in Seq(MarkerRec) /\ Legal(M) /\ Len(M) \in Nat
  BY DEF Found
<1>2. WritesOf(o) = {i \in 1..Len(M) : o \in DOMAIN M[i].writes}
  BY SeesConfirmed
<1> HIDE DEF M
<1>3. \A kind : Ended(M, o, kind) <=> \E i \in WritesOf(o) : M[i].writes[o] = kind
  BY <1>2 DEF Ended
<1>4. CASE WritesOf(o) = {}
  BY <1>3, <1>4 DEF FinalKind, Retired, M
<1>5. CASE WritesOf(o) # {}
  <2>1. WritesOf(o) \subseteq 1..Len(M)
    BY <1>2
  <2>2. \E i \in WritesOf(o) : \A j \in WritesOf(o) : j <= i
    BY <1>1, <1>5, <2>1, Greatest
  <2>3. LastWrite(o) \in WritesOf(o) /\ \A j \in WritesOf(o) : j <= LastWrite(o)
    BY <2>2 DEF LastWrite
  <2>4. FinalKind(o) = M[LastWrite(o)].writes[o]
    BY <1>5 DEF FinalKind, M
  <2>5. \A i \in WritesOf(o) : M[i].writes[o] = "terminal" => i = LastWrite(o)
    <3> SUFFICES ASSUME NEW i \in WritesOf(o), M[i].writes[o] = "terminal", i # LastWrite(o) PROVE FALSE
      OBVIOUS
    <3>1. i < LastWrite(o) /\ i \in 1..Len(M) /\ LastWrite(o) \in 1..Len(M)
      BY <2>1, <2>3
    <3>2. o \in DOMAIN M[i].writes \cap DOMAIN M[LastWrite(o)].writes
      BY <1>2, <2>3
    <3> QED BY <3>1, <3>2, <1>1 DEF Legal
  <2>6. FinalKind(o) = "terminal" <=> Ended(M, o, "terminal")
    BY <1>3, <2>3, <2>4, <2>5
  <2> QED BY <2>6, <1>3 DEF Retired, M
<1> QED BY <1>4, <1>5

\* The bases recovery knows are the markers of a base whose record is there.
LEMMA SeesBases ==
  ASSUME NEW o, Found(o)
  PROVE  \A j : j \in Bases(o) <=> /\ j \in Needs(Markers, o) /\ Markers[j].writes[o] \in {"create", "base"}
                                   /\ Has(Markers, Records(o), j)
<1> DEFINE M == Markers
           c == Records(o)
<1>1. M \in Seq(MarkerRec) /\ c \in Seq(RecordRec) /\ Genuine(M, o, c)
  BY DEF Found, Fits
<1>2. \A i : i \in Needs(M, o) <=> i \in WritesOf(o) /\ InSidecar(M[i].writes[o])
  BY SeesConfirmed DEF Needs
<1>3. Range(c) = {c[x] : x \in 1..Len(c)}
  BY <1>1 DEF Range
<1>4. \A i, r : r \in Confirms(o, i) <=> (\E x \in 1..Len(c) : r = c[x]) /\ InSidecar(M[i].writes[o]) /\ r.seq = M[i].seq
  BY <1>3 DEF Confirms
<1>5. \A j : j \in Bases(o) <=> j \in WritesOf(o) /\ \E r \in Confirms(o, j) : r.kind \in {"create", "base"}
  BY DEF Bases
<1> HIDE DEF M, c
<1>6. \A j \in Needs(M, o), x \in 1..Len(c) : c[x].seq = M[j].seq => c[x].kind = M[j].writes[o]
  BY <1>1 DEF Genuine
<1>7. \A j : j \in Bases(o) <=> j \in Needs(M, o) /\ \E x \in 1..Len(c) : c[x].seq = M[j].seq /\ c[x].kind \in {"create", "base"}
  BY <1>2, <1>4, <1>5
<1>8. \A j : j \in Bases(o) <=> j \in Needs(M, o) /\ M[j].writes[o] \in {"create", "base"} /\ Has(M, c, j)
  BY <1>6, <1>7 DEF Has
<1> QED BY <1>8 DEF M, c

\* What may be missing is what recovery calls optional.
LEMMA SeesGone ==
  ASSUME NEW o, Found(o), NEW i \in Needs(Markers, o), Gone(Markers, o, Records(o), i)
  PROVE  Optional(o, i)
<1>1. CASE o \in Works /\ Ended(Markers, o, "terminal")
  BY <1>1, SeesEnds DEF Optional, Spent
<1>2. CASE o \in Docs /\ Ended(Markers, o, "retire")
  BY <1>2, SeesEnds DEF Optional, Spent
<1>3. CASE o \in Docs /\ Rebased(Markers, o, Records(o), i)
  <2>1. PICK j \in Needs(Markers, o) : /\ i < j /\ Markers[j].writes[o] \in {"create", "base"}
                                       /\ Has(Markers, Records(o), j)
    BY <1>3 DEF Rebased
  <2>2. j \in Bases(o)
    BY <2>1, SeesBases
  <2>3. i \in 1..Len(Markers) /\ j \in 1..Len(Markers)
    BY DEF Needs
  <2>4. Markers[i].seq < Markers[j].seq
    BY <2>1, <2>3 DEF Found, Legal
  <2> QED BY <1>3, <2>2, <2>4 DEF Optional, BeforeLatestBase
<1> QED BY <1>1, <1>2, <1>3 DEF Gone

\* Recovery does not refuse files that fit.
LEMMA NotCorrupt ==
  ASSUME \A o \in Objects : Found(o), Objects # {}
  PROVE  ~Corrupt
<1>1. PICK p \in Objects : TRUE
  OBVIOUS
<1>2. Whole(disk[Main]) /\ Markers \in Seq(MarkerRec) /\ Legal(Markers)
  BY <1>1 DEF Found
<1>3. ~Garbled(disk[Main])
  BY <1>2 DEF Whole, Garbled
<1>4. \A i, j \in 1..Len(Markers) : i < j => ~(Markers[i].seq >= Markers[j].seq)
  <2> TAKE i, j \in 1..Len(Markers)
  <2> HAVE i < j
  <2>1. Markers[i].seq < Markers[j].seq
    BY <1>2 DEF Legal
  <2>2. Markers[i].seq \in Nat /\ Markers[j].seq \in Nat
    BY <1>2, MarkersTyped
  <2> QED BY <2>1, <2>2
<1>5. \A i, j \in DOMAIN Markers : i < j => ~(Markers[i].seq >= Markers[j].seq)
  BY <1>2, <1>4
<1>6. ASSUME NEW o \in Objects
      PROVE  /\ ~Garbled(disk[o])
             /\ \A i, j \in DOMAIN Records(o) : i < j => ~(Records(o)[i].seq >= Records(o)[j].seq)
             /\ \A i \in WritesOf(o) : ~(InSidecar(Markers[i].writes[o]) /\ ~Optional(o, i) /\ Confirms(o, i) = {})
             /\ \A i, j \in DOMAIN Records(o) :
                  ~(i < j /\ IsConfirmed(o, Records(o)[j]) /\ ~IsConfirmed(o, Records(o)[i]))
  <2>1. /\ Found(o) /\ Whole(disk[o]) /\ Records(o) \in Seq(RecordRec)
        /\ Ordered(Records(o)) /\ TailLast(Markers, o, Records(o)) /\ Covered(Markers, o, Records(o))
    BY DEF Found, Fits
  <2>2. ~Garbled(disk[o])
    BY <2>1 DEF Whole, Garbled
  <2>3. DOMAIN Records(o) = 1..Len(Records(o))
    BY <2>1
  <2>4. \A i, j \in 1..Len(Records(o)) : i < j => ~(Records(o)[i].seq >= Records(o)[j].seq)
    <3> TAKE i, j \in 1..Len(Records(o))
    <3> HAVE i < j
    <3>1. Records(o)[i].seq < Records(o)[j].seq
      BY <2>1 DEF Ordered
    <3>2. Records(o)[i].seq \in Nat /\ Records(o)[j].seq \in Nat
      BY <2>1, RecordsTyped
    <3> QED BY <3>1, <3>2
  <2>5. \A i \in WritesOf(o) : ~(InSidecar(Markers[i].writes[o]) /\ ~Optional(o, i) /\ Confirms(o, i) = {})
    <3> SUFFICES ASSUME NEW i \in WritesOf(o), InSidecar(Markers[i].writes[o]), ~Optional(o, i), Confirms(o, i) = {}
                 PROVE  FALSE
      OBVIOUS
    <3>1. i \in Needs(Markers, o)
      BY <2>1, SeesConfirmed DEF Needs
    <3>2. ~Has(Markers, Records(o), i)
      BY <2>1, <3>1, SeesConfirmed
    <3>3. Gone(Markers, o, Records(o), i)
      BY <2>1, <3>1, <3>2 DEF Covered
    <3> QED BY <2>1, <3>1, <3>3, SeesGone
  <2>6. \A i, j \in 1..Len(Records(o)) :
                  ~(i < j /\ IsConfirmed(o, Records(o)[j]) /\ ~IsConfirmed(o, Records(o)[i]))
    BY <2>1, SeesConfirmed DEF TailLast
  <2> QED BY <2>2, <2>3, <2>4, <2>5, <2>6
<1> QED BY <1>3, <1>5, <1>6 DEF Corrupt

\* The lines that stay are those up to the first unconfirmed one.
LEMMA CutAt ==
  ASSUME NEW o, Found(o)
  PROVE  \E k \in 0..Len(Records(o)) :
           /\ Confirmed(o) = SubSeq(Records(o), 1, k)
           /\ \A x \in 1..k : Sound(Markers, o, Records(o)[x])
           /\ k < Len(Records(o)) => ~Sound(Markers, o, Records(o)[k + 1])
<1> DEFINE c == Records(o)
           P(n) == /\ \A i \in 1..(n - 1) : IsConfirmed(o, Records(o)[i])
                   /\ n \in DOMAIN Records(o) => ~IsConfirmed(o, Records(o)[n])
           first == CHOOSE n \in 1..(Len(Records(o)) + 1) : P(n)
           S == {i \in 1..Len(c) : IsConfirmed(o, c[i])}
<1>1. c \in Seq(RecordRec) /\ Len(c) \in Nat /\ DOMAIN c = 1..Len(c)
  BY DEF Found
<1>2. PICK n \in 1..(Len(c) + 1) : (\A i \in 1..(n - 1) : i \in S) /\ (n \in 1..Len(c) => n \notin S)
  <2> HIDE DEF S, c
  <2> QED BY <1>1, FirstBreak
<1>3. P(n)
  BY <1>1, <1>2
<1>4. first \in 1..(Len(c) + 1) /\ P(first)
  <2> HIDE DEF P
  <2> QED BY <1>3
<1>5. Confirmed(o) = SubSeq(c, 1, first - 1)
  BY DEF Confirmed
<1> HIDE DEF first
<1>6. \A x \in 1..Len(c) : IsConfirmed(o, c[x]) <=> Sound(Markers, o, c[x])
  BY SeesConfirmed
<1>7. first - 1 \in 0..Len(c) /\ first - 1 + 1 = first /\ (first - 1 < Len(c) => first \in 1..Len(c))
  BY <1>1, <1>4
<1>8. \A x \in 1..(first - 1) : x \in 1..Len(c) /\ Sound(Markers, o, c[x])
  BY <1>1, <1>4, <1>6
<1>9. first - 1 < Len(c) => ~Sound(Markers, o, c[first - 1 + 1])
  BY <1>1, <1>4, <1>6, <1>7
<1> QED BY <1>5, <1>7, <1>8, <1>9

\* They fit whatever markers they fitted before, and a marker needs each.
LEMMA ConfirmedLines ==
  ASSUME NEW o, Found(o)
  PROVE  /\ Confirmed(o) \in Seq(RecordRec) /\ Clean(Markers, o, Confirmed(o))
         /\ \A m \in Seq(MarkerRec) : Begins(m, Markers) /\ Fits(m, o, Records(o)) => Fits(m, o, Confirmed(o))
         /\ \A i \in Needs(Markers, o) : Has(Markers, Records(o), i) <=> Has(Markers, Confirmed(o), i)
<1> DEFINE M == Markers
           c == Records(o)
           d == Confirmed(o)
<1>1. M \in Seq(MarkerRec) /\ c \in Seq(RecordRec) /\ Fits(M, o, c) /\ Len(c) \in Nat
  BY DEF Found
<1>2. PICK k \in 0..Len(c) : /\ d = SubSeq(c, 1, k) /\ \A x \in 1..k : Sound(M, o, c[x])
                             /\ k < Len(c) => ~Sound(M, o, c[k + 1])
  BY CutAt
<1> HIDE DEF M, c, d
<1>3. d \in Seq(RecordRec) /\ Len(d) = k /\ (\A x \in 1..k : d[x] = c[x]) /\ 1..k \subseteq 1..Len(c)
  BY <1>1, <1>2
<1>4. Clean(M, o, d)
  <2>1. Clear(d)
    BY <1>3, LinesAreClear, TornIsNoLine
  <2> QED BY <2>1, <1>2, <1>3 DEF Clean
<1>5. \A m \in Seq(MarkerRec) : Begins(m, M) /\ Fits(m, o, c) => Fits(m, o, d)
  BY <1>1, <1>2, FitsCut
<1>6. \A x \in 1..Len(c) : Sound(M, o, c[x]) => x \in 1..k
  <2> SUFFICES ASSUME NEW x \in 1..Len(c), Sound(M, o, c[x]), k < x PROVE FALSE
    BY <1>1
  <2>1. k + 1 \in 1..Len(c) /\ (k + 1 < x \/ k + 1 = x) /\ k < Len(c)
    BY <1>1
  <2>2. Sound(M, o, c[k + 1])
    BY <1>1, <2>1 DEF TailLast, Fits
  <2> QED BY <2>1, <2>2, <1>2
<1>7. \A i \in Needs(M, o) : Has(M, c, i) <=> Has(M, d, i)
  BY <1>3, <1>6 DEF Has, Sound
<1> QED BY <1>3, <1>4, <1>5, <1>7 DEF M, c, d

LEMMA BeginsItself == ASSUME NEW M \in Seq(MarkerRec) PROVE Begins(M, M)
  BY DEF Begins

\* Sequence numbers tell the order of the markers.
LEMMA SeqTellsOrder ==
  ASSUME NEW M \in Seq(MarkerRec), Legal(M), NEW i \in 1..Len(M), NEW j \in 1..Len(M)
  PROVE  /\ M[i].seq < M[j].seq <=> i < j
         /\ M[i].seq = M[j].seq => i = j
         /\ M[i].seq \in Nat /\ M[j].seq \in Nat
<1>1. M[i].seq \in Nat /\ M[j].seq \in Nat
  BY MarkersTyped
<1>2. i < j => M[i].seq < M[j].seq
  BY DEF Legal
<1>3. j < i => M[j].seq < M[i].seq
  BY DEF Legal
<1>4. i \in Nat /\ j \in Nat
  OBVIOUS
<1> QED BY <1>1, <1>2, <1>3, <1>4

\* What recovery retains of a sidecar fits.
LEMMA RetainedLines ==
  ASSUME NEW o, Found(o)
  PROVE  Retained(o) \in Seq(RecordRec) /\ Fits(Markers, o, Retained(o)) /\ Clean(Markers, o, Retained(o))
<1> DEFINE M == Markers
           L == Confirmed(o)
           P(n) == /\ \A i \in 1..(n - 1) : BeforeLatestBase(o, Confirmed(o)[i].seq)
                   /\ n \in DOMAIN Confirmed(o) => ~BeforeLatestBase(o, Confirmed(o)[n].seq)
           first == CHOOSE n \in 1..(Len(Confirmed(o)) + 1) : P(n)
           S == {i \in 1..Len(L) : BeforeLatestBase(o, L[i].seq)}
<1>1. M \in Seq(MarkerRec) /\ Legal(M) /\ Len(M) \in Nat /\ Fits(M, o, Records(o))
  BY DEF Found
<1>2. /\ L \in Seq(RecordRec) /\ Clean(M, o, L) /\ Fits(M, o, L)
      /\ \A i \in Needs(M, o) : Has(M, Records(o), i) <=> Has(M, L, i)
  BY <1>1, ConfirmedLines, BeginsItself
<1>3. Len(L) \in Nat /\ DOMAIN L = 1..Len(L)
  BY <1>2
<1>4. CASE Spent(o)
  <2>1. Retained(o) = <<>>
    BY <1>4 DEF Retained
  <2>2. (o \in Works /\ Ended(M, o, "terminal")) \/ (o \in Docs /\ Ended(M, o, "retire"))
    BY <1>4, SeesEnds DEF Spent
  <2>3. Fits(M, o, <<>>) /\ Clean(M, o, <<>>)
    BY <2>2, FitsNothing
  <2> QED BY <2>1, <2>3
<1>5. CASE ~Spent(o)
  <2>1. PICK n \in 1..(Len(L) + 1) : (\A i \in 1..(n - 1) : i \in S) /\ (n \in 1..Len(L) => n \notin S)
    <3> HIDE DEF S, L
    <3> QED BY <1>3, FirstBreak
  <2>2. P(n)
    BY <1>3, <2>1
  <2>3. first \in 1..(Len(L) + 1) /\ P(first)
    <3> HIDE DEF P
    <3> QED BY <2>2
  <2>4. Retained(o) = SubSeq(L, first, Len(L))
    BY <1>5 DEF Retained
  <2> DEFINE d == SubSeq(L, first, Len(L))
  <2> HIDE DEF first, S
  <2>5. (\A i \in 1..(first - 1) : BeforeLatestBase(o, L[i].seq)) /\ (first \in 1..Len(L) => ~BeforeLatestBase(o, L[first].seq))
    BY <2>3, <1>3
  <2>6. Len(d) = Len(L) - first + 1 /\ \A x \in 1..(Len(L) - first + 1) : d[x] = L[first + x - 1]
    BY <1>2, <2>3
  <2>7. ~(o \in Works /\ Ended(M, o, "terminal")) /\ ~(o \in Docs /\ Ended(M, o, "retire"))
    BY <1>5, SeesEnds DEF Spent
  <2>8. \A j : j \in Bases(o) <=> j \in Needs(M, o) /\ M[j].writes[o] \in {"create", "base"} /\ Has(M, L, j)
    BY SeesBases, <1>2
  <2> HIDE DEF d, L, M, P
  <2>9. Needs(M, o) \subseteq 1..Len(M)
    BY DEF Needs
  <2>10. \A i \in 1..Len(M), x \in 1..Len(L) : first <= x /\ L[x].seq = M[i].seq => Has(M, d, i)
    <3> SUFFICES ASSUME NEW i \in 1..Len(M), NEW x \in 1..Len(L), first <= x, L[x].seq = M[i].seq PROVE Has(M, d, i)
      OBVIOUS
    <3>1. x - first + 1 \in 1..(Len(L) - first + 1) /\ first + (x - first + 1) - 1 = x
      BY <1>3, <2>3
    <3>2. d[x - first + 1] = L[x] /\ x - first + 1 \in 1..Len(d)
      BY <2>6, <3>1
    <3> QED BY <3>2 DEF Has
  <2>11. ASSUME NEW i \in Needs(M, o), o \in Docs, NEW j \in Bases(o), i < j
         PROVE  Gone(M, o, d, i)
    <3>1. Bases(o) \subseteq 1..Len(M) /\ Bases(o) # {}
      BY <2>8, <2>9, <2>11
    <3>2. PICK b \in Bases(o) : \A k \in Bases(o) : k <= b
      BY <1>1, <3>1, Greatest
    <3>3. /\ b \in Needs(M, o) /\ M[b].writes[o] \in {"create", "base"} /\ Has(M, L, b)
          /\ b \in 1..Len(M) /\ j \in 1..Len(M) /\ i \in 1..Len(M)
      BY <2>8, <2>9, <3>1
    <3>4. PICK x \in 1..Len(L) : L[x].seq = M[b].seq
      BY <3>3 DEF Has
    <3>5. ~BeforeLatestBase(o, M[b].seq)
      <4> SUFFICES ASSUME NEW k \in Bases(o), M[b].seq < M[k].seq PROVE FALSE
        BY DEF BeforeLatestBase, M
      <4>1. k \in 1..Len(M) /\ k <= b
        BY <3>1, <3>2
      <4>2. b < k
        BY <4>1, <3>3, <1>1, SeqTellsOrder
      <4> QED BY <4>1, <4>2, <3>3
    <3>6. first <= x
      <4> SUFFICES ASSUME x < first PROVE FALSE
        BY <2>3
      <4>1. x \in 1..(first - 1)
        BY <2>3
      <4> QED BY <4>1, <2>5, <3>4, <3>5
    <3>7. Has(M, d, b)
      BY <3>3, <3>4, <3>6, <2>10
    <3>8. i < b
      BY <2>11, <3>2, <3>3
    <3> QED BY <2>11, <3>3, <3>7, <3>8 DEF Gone, Rebased
  <2>12. Covered(M, o, d)
    <3> SUFFICES ASSUME NEW i \in Needs(M, o) PROVE Has(M, d, i) \/ Gone(M, o, d, i)
      BY DEF Covered
    <3>1. CASE Has(M, L, i)
      <4>1. PICK x \in 1..Len(L) : L[x].seq = M[i].seq
        BY <3>1 DEF Has
      <4>2. CASE first <= x
        BY <4>1, <4>2, <2>9, <2>10
      <4>3. CASE x < first
        <5>1. x \in 1..(first - 1)
          BY <4>3, <2>3
        <5>2. o \in Docs /\ \E j \in Bases(o) : M[i].seq < M[j].seq
          BY <5>1, <2>5, <4>1 DEF BeforeLatestBase, M
        <5>3. PICK j \in Bases(o) : M[i].seq < M[j].seq
          BY <5>2
        <5>4. i \in 1..Len(M) /\ j \in 1..Len(M)
          BY <2>8, <2>9
        <5>5. i < j
          BY <5>3, <5>4, <1>1, SeqTellsOrder
        <5> QED BY <5>2, <5>5, <2>11
      <4>4. first <= x \/ x < first
        BY <2>3
      <4> QED BY <4>2, <4>3, <4>4
    <3>2. CASE Gone(M, o, L, i)
      <4>1. o \in Docs /\ Rebased(M, o, L, i)
        BY <3>2, <2>7 DEF Gone
      <4>2. PICK j \in Needs(M, o) : i < j /\ M[j].writes[o] \in {"create", "base"} /\ Has(M, L, j)
        BY <4>1 DEF Rebased
      <4>3. j \in Bases(o)
        BY <4>2, <2>8
      <4> QED BY <4>1, <4>2, <4>3, <2>11
    <3> QED BY <3>1, <3>2, <1>2 DEF Fits, Covered
  <2>13. first - 1 \in Nat /\ first - 1 <= Len(L) /\ first - 1 + 1 = first /\ Len(L) <= Len(L) /\ Len(L) \in Nat
    BY <1>3, <2>3
  <2>14. Covered(M, o, SubSeq(L, first - 1 + 1, Len(L)))
    BY <2>12, <2>13 DEF d
  <2>15. \A x \in 1..Len(L) : Sound(M, o, L[x])
    BY <1>2 DEF Clean
  <2>16. /\ Fits(M, o, SubSeq(L, first - 1 + 1, Len(L))) /\ SubSeq(L, first - 1 + 1, Len(L)) \in Seq(RecordRec)
         /\ Clean(M, o, SubSeq(L, first - 1 + 1, Len(L)))
    BY <1>1, <1>2, <2>13, <2>14, <2>15, FitsPart
  <2> QED BY <2>4, <2>13, <2>16 DEF L, M
<1> QED BY <1>4, <1>5

----------------------------------------------------------------------------
(* Values.                                                                 *)

\* The marker's write to o is part of the value that the markers M stand for.
Counts(M, o, i) ==
  /\ i \in 1..Len(M) /\ o \in DOMAIN M[i].writes
  /\ \A j \in 1..Len(M) : j > i /\ o \in DOMAIN M[j].writes => M[j].writes[o] \notin CL!Resets(o)
Ids(M, o) == {M[i].id : i \in {i \in 1..Len(M) : Counts(M, o, i)}}

LEMMA FunctionIsSeq ==
  ASSUME NEW S, NEW n \in Nat, NEW f \in [1..n -> S]
  PROVE  f \in Seq(S) /\ Len(f) = n
<1>1. f \in Seq(S)
  OBVIOUS
<1>2. DOMAIN f = 1..n /\ DOMAIN f = 1..Len(f) /\ Len(f) \in Nat
  BY <1>1
<1> QED BY <1>1, <1>2

LEMMA LogOfMarkers ==
  ASSUME NEW M \in Seq(MarkerRec)
  PROVE  /\ [i \in DOMAIN M |-> [id |-> M[i].id, writes |-> M[i].writes]] = AsLog(M)
         /\ AsLog(M) \in Seq([id : Nat, writes : Batches]) /\ Len(AsLog(M)) = Len(M)
         /\ \A i \in 1..Len(M) : AsLog(M)[i].id = M[i].id /\ AsLog(M)[i].writes = M[i].writes
<1>1. DOMAIN M = 1..Len(M) /\ Len(M) \in Nat
  OBVIOUS
<1>2. [i \in DOMAIN M |-> [id |-> M[i].id, writes |-> M[i].writes]] = AsLog(M)
  BY <1>1 DEF AsLog
<1>3. \A i \in 1..Len(M) : [id |-> M[i].id, writes |-> M[i].writes] \in [id : Nat, writes : Batches]
  BY MarkersTyped
<1>4. \A i \in 1..Len(M) : AsLog(M)[i] = [id |-> M[i].id, writes |-> M[i].writes]
  BY DEF AsLog
<1>5. AsLog(M) \in [1..Len(M) -> [id : Nat, writes : Batches]]
  BY <1>3 DEF AsLog
<1>6. AsLog(M) \in Seq([id : Nat, writes : Batches]) /\ Len(AsLog(M)) = Len(M)
  BY <1>1, <1>5, FunctionIsSeq
<1> QED BY <1>2, <1>4, <1>6

LEMMA ValueOf ==
  ASSUME NEW M \in Seq(MarkerRec)
  PROVE  CL!Value(AsLog(M)) = [o \in Objects |-> Ids(M, o)]
<1> DEFINE L == AsLog(M)
           V(o) == {L[i].id : i \in {i \in CL!Writes(L, o) :
                      \A j \in CL!Writes(L, o) : j > i => L[j].writes[o] \notin CL!Resets(o)}}
<1>1. /\ L \in Seq([id : Nat, writes : Batches]) /\ Len(L) = Len(M)
      /\ \A i \in 1..Len(M) : L[i].id = M[i].id /\ L[i].writes = M[i].writes
  BY LogOfMarkers
<1>2. CL!Value(L) = [o \in Objects |-> V(o)]
  BY DEF CL!Value, CL!Objects, Objects
<1> HIDE DEF L
<1>3. DOMAIN L = 1..Len(M)
  BY <1>1
<1>4. \A o : V(o) = Ids(M, o)
  <2> TAKE o
  <2>1. \A i : i \in CL!Writes(L, o) <=> i \in 1..Len(M) /\ o \in DOMAIN M[i].writes
    BY <1>1, <1>3 DEF CL!Writes
  <2>2. {i \in CL!Writes(L, o) : \A j \in CL!Writes(L, o) : j > i => L[j].writes[o] \notin CL!Resets(o)}
          = {i \in 1..Len(M) : Counts(M, o, i)}
    BY <2>1, <1>1 DEF Counts
  <2>3. \A i \in 1..Len(M) : L[i].id = M[i].id
    BY <1>1
  <2> DEFINE X == {i \in 1..Len(M) : Counts(M, o, i)}
  <2>4. V(o) = {L[i].id : i \in X}
    BY <2>2
  <2>5. {L[i].id : i \in X} = {M[i].id : i \in X}
    BY <2>3
  <2> QED BY <2>4, <2>5 DEF Ids
<1> QED BY <1>2, <1>4 DEF L

\* One more marker.
LEMMA IdsAppended ==
  ASSUME NEW M \in Seq(MarkerRec), NEW mk \in MarkerRec, NEW o
  PROVE  Ids(Append(M, mk), o) =
           IF o \notin DOMAIN mk.writes THEN Ids(M, o)
           ELSE IF mk.writes[o] \in CL!Resets(o) THEN {mk.id} ELSE Ids(M, o) \cup {mk.id}
<1> DEFINE N == Append(M, mk)
           n == Len(M) + 1
<1>1. Len(N) = n /\ N[n] = mk /\ \A i \in 1..Len(M) : N[i] = M[i]
  OBVIOUS
<1>2. Len(M) \in Nat
  OBVIOUS
<1> HIDE DEF N
<1>3. Counts(N, o, n) <=> o \in DOMAIN mk.writes
  BY <1>1, <1>2 DEF Counts
<1>4. \A i \in 1..Len(M) : Counts(N, o, i) <=> /\ Counts(M, o, i)
                                               /\ o \in DOMAIN mk.writes => mk.writes[o] \notin CL!Resets(o)
  <2> TAKE i \in 1..Len(M)
  <2>1. n \in 1..Len(N) /\ n > i /\ i \in 1..Len(N)
    BY <1>1, <1>2
  <2>2. \A j \in 1..Len(N) : j \in 1..Len(M) \/ j = n
    BY <1>1, <1>2
  <2>3. \A j \in 1..Len(M) : j \in 1..Len(N)
    BY <1>1, <1>2
  <2> HIDE DEF n
  <2> QED BY <2>1, <2>2, <2>3, <1>1 DEF Counts
<1>5. \A i : i \in 1..Len(N) <=> i \in 1..Len(M) \/ i = n
  BY <1>1, <1>2
<1>6. \A v : v \in Ids(N, o) <=> \E i \in 1..Len(N) : Counts(N, o, i) /\ v = N[i].id
  BY DEF Ids
<1>7. \A v : v \in Ids(M, o) <=> \E i \in 1..Len(M) : Counts(M, o, i) /\ v = M[i].id
  BY DEF Ids
<1> HIDE DEF n
<1>8. \A v : v \in Ids(N, o) <=> \/ o \in DOMAIN mk.writes /\ v = mk.id
                                 \/ v \in Ids(M, o) /\ (o \in DOMAIN mk.writes => mk.writes[o] \notin CL!Resets(o))
  BY <1>1, <1>3, <1>4, <1>5, <1>6, <1>7
<1>9. CASE o \notin DOMAIN mk.writes
  BY <1>8, <1>9 DEF N
<1>10. CASE o \in DOMAIN mk.writes /\ mk.writes[o] \in CL!Resets(o)
  BY <1>8, <1>10 DEF N
<1>11. CASE o \in DOMAIN mk.writes /\ mk.writes[o] \notin CL!Resets(o)
  BY <1>8, <1>11 DEF N
<1> QED BY <1>9, <1>10, <1>11

\* Kinds whose record is in the sidecar, and kinds that start a value anew.
LEMMA KindFacts ==
  ASSUME NEW M \in Seq(MarkerRec), Legal(M), NEW o \in Objects, NEW i \in 1..Len(M), o \in DOMAIN M[i].writes
  PROVE  LET kind == M[i].writes[o]
         IN /\ InSidecar(kind) <=> kind \notin {"retire", "terminal"}
            /\ o \in Works => kind \in {"live", "terminal"}
            /\ o \notin Works => kind \in {"create", "base", "delta", "retire"}
            /\ o \in Histories => kind \notin CL!Resets(o)
            /\ o \in Docs => (kind \in CL!Resets(o) <=> kind \in {"create", "base", "retire"})
            /\ o \in Works => kind \in CL!Resets(o)
            /\ (o \in Docs \/ o \in Works) /\ kind \in {"retire", "terminal"} => kind \in CL!Resets(o)
            /\ o \in Docs \/ o \in Histories \/ o \in Works
            /\ ~(o \in Histories /\ o \in Docs) /\ ~(o \in Histories /\ o \in Works) /\ ~(o \in Docs /\ o \in Works)
<1> DEFINE kind == M[i].writes[o]
<1>1. kind \in IF o \in Works THEN {"live", "terminal"} ELSE {"create", "base", "delta", "retire"}
  BY DEF Legal
<1>2. /\ o \in Docs \/ o \in Histories \/ o \in Works
      /\ ~(o \in Histories /\ o \in Docs) /\ ~(o \in Histories /\ o \in Works) /\ ~(o \in Docs /\ o \in Works)
  BY JsonlAssumption DEF Objects
<1> HIDE DEF kind
<1>3. CASE o \in Works /\ kind = "live"
  BY <1>2, <1>3 DEF InSidecar, CL!Resets, kind
<1>4. CASE o \in Works /\ kind = "terminal"
  BY <1>2, <1>4 DEF InSidecar, CL!Resets, kind
<1>5. CASE o \notin Works /\ kind \in {"create", "base", "delta"}
  BY <1>2, <1>5 DEF InSidecar, CL!Resets, kind
<1>6. CASE o \notin Works /\ kind = "retire"
  BY <1>2, <1>6 DEF InSidecar, CL!Resets, kind
<1> QED BY <1>1, <1>3, <1>4, <1>5, <1>6

\* What recovery reads for a write it applies is that write's batch.
LEMMA ContentIsOwn ==
  ASSUME NEW o, Found(o), NEW i \in Replayed(o)
  PROVE  Content(o, i) = Markers[i].id
<1> DEFINE M == Markers
           c == Records(o)
<1>1. M \in Seq(MarkerRec) /\ c \in Seq(RecordRec) /\ Genuine(M, o, c) /\ Covered(M, o, c)
  BY DEF Found, Fits
<1>2. i \in WritesOf(o) /\ ~(InSidecar(M[i].writes[o]) /\ Optional(o, i))
  BY DEF Replayed
<1>3. CASE ~InSidecar(M[i].writes[o])
  BY <1>3 DEF Content
<1>4. CASE InSidecar(M[i].writes[o])
  <2>1. i \in Needs(M, o)
    BY <1>2, <1>4, SeesConfirmed DEF Needs
  <2>2. Has(M, c, i)
    BY <1>1, <1>2, <1>4, <2>1, SeesGone DEF Covered
  <2>3. Confirms(o, i) # {}
    BY <1>2, <2>1, <2>2, SeesConfirmed
  <2> DEFINE r == CHOOSE r \in Confirms(o, i) : TRUE
  <2>4. r \in Confirms(o, i)
    BY <2>3
  <2>5. Content(o, i) = r.id
    BY <1>4 DEF Content
  <2> HIDE DEF r
  <2>6. PICK x \in 1..Len(c) : r = c[x] /\ r.seq = M[i].seq
    BY <2>4, <1>1 DEF Confirms, Range
  <2>7. r.id = M[i].id
    BY <1>1, <2>1, <2>6 DEF Genuine
  <2> QED BY <2>5, <2>7
<1> QED BY <1>3, <1>4

\* Of the writes recovery applies, those behind the last reset are those that
\* count.
LEMMA ReplayCounts ==
  ASSUME NEW o \in Objects, Found(o), NEW i
  PROVE  (/\ i \in Replayed(o)
          /\ \A j \in Replayed(o) : j > i => Markers[j].writes[o] \notin CL!Resets(o))
         <=> Counts(Markers, o, i)
<1> DEFINE M == Markers
           c == Records(o)
           W == {k \in 1..Len(M) : o \in DOMAIN M[k].writes}
<1>1. M \in Seq(MarkerRec) /\ Legal(M) /\ Covered(M, o, c) /\ Len(M) \in Nat
  BY DEF Found, Fits
<1>2. WritesOf(o) = W
  BY SeesConfirmed
<1>3. \A k : k \in Replayed(o) <=> k \in W /\ ~(InSidecar(M[k].writes[o]) /\ Optional(o, k))
  BY <1>2 DEF Replayed
<1>4. Counts(M, o, i) <=> i \in W /\ \A j \in W : j > i => M[j].writes[o] \notin CL!Resets(o)
  BY DEF Counts
<1>5. \A k \in W : /\ InSidecar(M[k].writes[o]) <=> M[k].writes[o] \notin {"retire", "terminal"}
                   /\ o \in Works => M[k].writes[o] \in {"live", "terminal"}
                   /\ o \notin Works => M[k].writes[o] \in {"create", "base", "delta", "retire"}
                   /\ o \in Histories => M[k].writes[o] \notin CL!Resets(o)
                   /\ o \in Docs => (M[k].writes[o] \in CL!Resets(o) <=> M[k].writes[o] \in {"create", "base", "retire"})
                   /\ (o \in Docs \/ o \in Works) /\ M[k].writes[o] \in {"retire", "terminal"} => M[k].writes[o] \in CL!Resets(o)
  BY <1>1, KindFacts
<1>6. /\ o \in Docs \/ o \in Histories \/ o \in Works
      /\ ~(o \in Histories /\ o \in Docs) /\ ~(o \in Histories /\ o \in Works) /\ ~(o \in Docs /\ o \in Works)
  BY JsonlAssumption DEF Objects
<1>7. \A k \in W : k \in 1..Len(M) /\ k \in Int
  OBVIOUS
<1>8. \A j, k \in W : M[j].writes[o] \in {"retire", "terminal"} => k <= j
  <2> TAKE j, k \in W
  <2>1. j \in 1..Len(M) /\ k \in 1..Len(M) /\ o \in DOMAIN M[j].writes \cap DOMAIN M[k].writes
    OBVIOUS
  <2>2. j < k => M[j].writes[o] \notin {"retire", "terminal"}
    BY <2>1, <1>1 DEF Legal
  <2> QED BY <2>1, <2>2
<1>9. CASE \A k \in W : ~Optional(o, k)
  BY <1>3, <1>4, <1>9 DEF M
<1>10. CASE Spent(o)
  <2>1. PICK e \in W : M[e].writes[o] \in {"retire", "terminal"}
    BY <1>10, SeesEnds DEF Spent, Ended
  <2>2. o \in Docs \/ o \in Works
    BY <1>10 DEF Spent
  <2>3. \A k : Optional(o, k)
    BY <1>10 DEF Optional
  <2>4. \A k \in W : M[k].writes[o] \in {"retire", "terminal"} <=> k = e
    BY <2>1, <1>7, <1>8
  <2>5. \A k : k \in Replayed(o) <=> k = e
    BY <1>3, <1>5, <2>1, <2>3, <2>4
  <2>6. \A j \in W : j # e => e > j
    BY <2>1, <1>7, <1>8
  <2>7. \A j \in W : ~(j > e)
    BY <2>1, <1>7, <1>8
  <2>8. M[e].writes[o] \in CL!Resets(o)
    BY <2>1, <2>2, <1>5
  <2>9. Counts(M, o, i) <=> i = e
    BY <1>4, <2>1, <2>6, <2>7, <2>8
  <2>10. ~(e > e)
    BY <1>7
  <2> QED BY <2>5, <2>9, <2>10 DEF M
<1>11. CASE o \in Docs /\ ~Spent(o)
  <2>1. \A j : j \in Bases(o) <=> j \in Needs(M, o) /\ M[j].writes[o] \in {"create", "base"} /\ Has(M, c, j)
    BY SeesBases
  <2>2. \A k \in W : k \in Needs(M, o) /\ M[k].writes[o] \in {"create", "base", "delta"}
    <3> TAKE k \in W
    <3>1. ~Ended(M, o, "retire")
      BY <1>11, SeesEnds DEF Spent
    <3>2. M[k].writes[o] # "retire"
      BY <3>1 DEF Ended
    <3> QED BY <3>2, <1>5, <1>6, <1>11 DEF Needs
  <2>3. \A k : k \in Needs(M, o) => k \in W
    BY DEF Needs
  <2>4. \A k \in W : Optional(o, k) <=> \E j \in Bases(o) : k < j
    <3> TAKE k \in W
    <3>1. \A j \in Bases(o) : M[k].seq < M[j].seq <=> k < j
      <4> TAKE j \in Bases(o)
      <4>1. j \in 1..Len(M) /\ k \in 1..Len(M)
        BY <2>1, <2>3
      <4> QED BY <4>1, <1>1, SeqTellsOrder
    <3> QED BY <3>1, <1>11 DEF Optional, BeforeLatestBase
  <2>5. \A j \in W : M[j].writes[o] \in {"create", "base"} => \E b \in Bases(o) : j <= b
    <3> TAKE j \in W
    <3> HAVE M[j].writes[o] \in {"create", "base"}
    <3>1. j \in Needs(M, o) /\ j <= j
      BY <2>2, <1>7
    <3>2. CASE Has(M, c, j)
      BY <3>1, <3>2, <2>1
    <3>3. CASE Gone(M, o, c, j)
      <4>1. Rebased(M, o, c, j)
        BY <3>3, <1>6, <1>11, SeesEnds DEF Gone, Spent
      <4>2. PICK b \in Needs(M, o) : j < b /\ M[b].writes[o] \in {"create", "base"} /\ Has(M, c, b)
        BY <4>1 DEF Rebased
      <4>3. b \in Bases(o) /\ j <= b
        BY <4>2, <2>1, <2>3, <1>7
      <4> QED BY <4>3
    <3> QED BY <3>1, <3>2, <3>3, <1>1 DEF Covered
  <2>6. \A b \in Bases(o) : b \in W /\ M[b].writes[o] \in CL!Resets(o)
    BY <2>1, <2>3, <1>5, <1>11
  <2>7. \A k : k \in Replayed(o) <=> k \in W /\ ~\E j \in Bases(o) : k < j
    BY <1>3, <1>5, <2>2, <2>4
  <2>8. \A k \in W : (\A j \in W : j > k => M[j].writes[o] \notin CL!Resets(o)) <=> ~\E j \in Bases(o) : k < j
    <3> TAKE k \in W
    <3>1. ASSUME NEW j \in W, j > k, M[j].writes[o] \in CL!Resets(o) PROVE \E b \in Bases(o) : k < b
      <4>1. M[j].writes[o] \in {"create", "base"}
        BY <3>1, <2>2, <1>5, <1>11
      <4>2. PICK b \in Bases(o) : j <= b
        BY <4>1, <2>5
      <4>3. k < b
        BY <4>2, <3>1, <1>7, <2>6
      <4> QED BY <4>3
    <3>2. ASSUME NEW b \in Bases(o), k < b PROVE \E j \in W : j > k /\ M[j].writes[o] \in CL!Resets(o)
      BY <3>2, <2>6, <1>7
    <3> QED BY <3>1, <3>2
  <2>9. Counts(M, o, i) <=> i \in Replayed(o)
    BY <1>4, <2>7, <2>8
  <2>10. i \in Replayed(o) => \A j \in Replayed(o) : j > i => M[j].writes[o] \notin CL!Resets(o)
    BY <2>7, <2>8
  <2> QED BY <2>9, <2>10 DEF M
<1>12. CASE o \notin Docs /\ ~Spent(o)
  <2>1. \A k \in W : ~Optional(o, k)
    BY <1>12 DEF Optional, BeforeLatestBase
  <2> QED BY <2>1, <1>9
<1> QED BY <1>10, <1>11, <1>12

\* Recovery rebuilds the value that the markers stand for.
LEMMA RecoveredValue ==
  ASSUME NEW o \in Objects, Found(o)
  PROVE  Recovered(o) = Ids(Markers, o)
<1> DEFINE X == {i \in Replayed(o) : \A j \in Replayed(o) : j > i => Markers[j].writes[o] \notin CL!Resets(o)}
           Y == {i \in 1..Len(Markers) : Counts(Markers, o, i)}
<1>1. X = Y
  BY ReplayCounts DEF Counts
<1>2. \A i \in X : Content(o, i) = Markers[i].id
  BY ContentIsOwn
<1>3. Recovered(o) = {Content(o, i) : i \in X}
  BY DEF Recovered
<1>4. Ids(Markers, o) = {Markers[i].id : i \in Y}
  BY DEF Ids
<1> HIDE DEF X, Y
<1> QED BY <1>1, <1>2, <1>3, <1>4

----------------------------------------------------------------------------
(* Files and what a power loss may leave of them.                          *)

MainContents == Seq(MarkerRec \cup {Torn})
SidecarContents == Seq(RecordRec \cup {Torn})
Contents == MainContents \cup SidecarContents

\* The contents each file has or may have after a power loss.
Surv(f, D, K) == [n \in Names |-> IF f = TRUE THEN K[n] ELSE {D[n]}]

\* Whatever survives of the main file is a beginning of it, and whatever
\* survives of a sidecar fits it.
FilesFit(D, S) ==
  /\ \A n \in Names : D[n] \in S[n]
  /\ \A m \in S[Main] : /\ m \in MainContents /\ Whole(m)
                        /\ Legal(Complete(m)) /\ Begins(Complete(m), Complete(D[Main]))
  /\ \A o \in Objects : \A c \in S[o] : c \in SidecarContents /\ Whole(c)
  /\ \A o \in Objects : \A c \in S[o], m \in S[Main] : Fits(Complete(m), o, Complete(c))

LEMMA NamesApart == Objects \subseteq Names /\ Main \in Names /\ Main \notin Objects /\ Objects # {}
  BY JsonlAssumption DEF Names, Main, Objects

Writes(f, D, K, n, c, E, H) ==
  E = [D EXCEPT ![n] = c] /\ H = IF f = TRUE THEN [K EXCEPT ![n] = @ \cup {c}] ELSE K
Flushes(D, K, n, H) == H = [K EXCEPT ![n] = {D[n]}]

\* What may survive of a file after an operation on it, and of the others.
Touched(D, S, n, c, E, T) ==
  /\ E[n] = c /\ \A k \in Names : k # n => E[k] = D[k] /\ T[k] = S[k]
  /\ c \in T[n] /\ T[n] \subseteq S[n] \cup {c}

LEMMA WriteTyped ==
  ASSUME NEW f, NEW D \in [Names -> Contents], NEW K \in [Names -> SUBSET Contents],
         NEW n \in Names, NEW c \in Contents, NEW E, NEW H, Writes(f, D, K, n, c, E, H)
  PROVE  E \in [Names -> Contents] /\ H \in [Names -> SUBSET Contents]
  BY DEF Writes

LEMMA WriteSpec ==
  ASSUME NEW f, NEW D \in [Names -> Contents], NEW K \in [Names -> SUBSET Contents],
         NEW n \in Names, NEW c \in Contents, NEW E, NEW H, Writes(f, D, K, n, c, E, H)
  PROVE  Touched(D, Surv(f, D, K), n, c, E, Surv(f, E, H))
<1>1. E[n] = c /\ \A k \in Names : k # n => E[k] = D[k]
  BY DEF Writes
<1>2. \A k \in Names : k # n => H[k] = K[k]
  BY DEF Writes
<1>3. f = TRUE => H[n] = K[n] \cup {c}
  BY DEF Writes
<1>4. \A k \in Names : k # n => Surv(f, E, H)[k] = Surv(f, D, K)[k]
  BY <1>1, <1>2 DEF Surv
<1>5. c \in Surv(f, E, H)[n] /\ Surv(f, E, H)[n] \subseteq Surv(f, D, K)[n] \cup {c}
  BY <1>1, <1>3 DEF Surv
<1> QED BY <1>1, <1>4, <1>5 DEF Touched

FlushedOnly(D, S, n, T) == T[n] = {D[n]} /\ \A k \in Names : k # n => T[k] = S[k]

LEMMA FlushTyped ==
  ASSUME NEW D \in [Names -> Contents], NEW K \in [Names -> SUBSET Contents], NEW n \in Names,
         NEW H, Flushes(D, K, n, H)
  PROVE  H \in [Names -> SUBSET Contents]
  BY DEF Flushes

LEMMA FlushSpec ==
  ASSUME NEW f, NEW D \in [Names -> Contents], NEW K \in [Names -> SUBSET Contents], NEW n \in Names,
         NEW H, Flushes(D, K, n, H)
  PROVE  FlushedOnly(D, Surv(f, D, K), n, Surv(f, D, H))
<1>1. H[n] = {D[n]} /\ \A k \in Names : k # n => H[k] = K[k]
  BY DEF Flushes
<1> QED BY <1>1 DEF Surv, FlushedOnly

\* Less may survive.
LEMMA FilesShrink ==
  ASSUME NEW D, NEW S, NEW T, FilesFit(D, S), \A n \in Names : T[n] \subseteq S[n] /\ D[n] \in T[n]
  PROVE  FilesFit(D, T)
<1>1. \A m \in T[Main] : m \in S[Main]
  BY NamesApart
<1>2. \A o \in Objects : \A c \in T[o] : c \in S[o]
  BY NamesApart
<1> QED BY <1>1, <1>2 DEF FilesFit

\* A sidecar gets a content that fits whatever survives of the main file.
LEMMA FilesSidecar ==
  ASSUME NEW D, NEW S, NEW E, NEW T, FilesFit(D, S), NEW o \in Objects, NEW c,
         Touched(D, S, o, c, E, T), c \in SidecarContents, Whole(c), \A m \in S[Main] : Fits(Complete(m), o, Complete(c))
  PROVE  FilesFit(E, T)
<1>1. o # Main /\ o \in Names /\ Main \in Names /\ \A p \in Objects : p \in Names /\ p # Main
  BY NamesApart
<1>2. E[Main] = D[Main] /\ T[Main] = S[Main]
  BY <1>1 DEF Touched
<1>3. \A n \in Names : E[n] \in T[n]
  BY DEF FilesFit, Touched
<1>4. \A p \in Objects : \A d \in T[p] : (p = o /\ d = c) \/ d \in S[p]
  BY <1>1 DEF Touched
<1> QED BY <1>2, <1>3, <1>4 DEF FilesFit

\* The main file gets a content that continues it, and the sidecars fit it.
LEMMA FilesMain ==
  ASSUME NEW D, NEW S, NEW E, NEW T, FilesFit(D, S), NEW m,
         Touched(D, S, Main, m, E, T), m \in MainContents, Whole(m), Legal(Complete(m)), Complete(m) \in Seq(MarkerRec),
         Begins(Complete(D[Main]), Complete(m)),
         \A o \in Objects : \A c \in S[o] : Fits(Complete(m), o, Complete(c))
  PROVE  FilesFit(E, T)
<1>1. Main \in Names /\ \A p \in Objects : p \in Names /\ p # Main
  BY NamesApart
<1>2. E[Main] = m /\ \A p \in Objects : E[p] = D[p] /\ T[p] = S[p]
  BY <1>1 DEF Touched
<1>3. \A n \in Names : E[n] \in T[n]
  BY DEF FilesFit, Touched
<1>4. \A k \in T[Main] : k = m \/ k \in S[Main]
  BY DEF Touched
<1>5. Begins(Complete(m), Complete(m))
  BY BeginsItself
<1>6. \A k \in S[Main] : Begins(Complete(k), Complete(m))
  <2> TAKE k \in S[Main]
  <2>1. Begins(Complete(k), Complete(D[Main])) /\ k \in MainContents /\ Whole(k)
    BY DEF FilesFit
  <2>2. D[Main] \in MainContents /\ Whole(D[Main])
    BY <1>1 DEF FilesFit
  <2>3. Complete(k) \in Seq(MarkerRec) /\ Complete(D[Main]) \in Seq(MarkerRec)
    BY <2>1, <2>2, CompleteLines, TornIsNoLine DEF MainContents
  <2>4. Len(Complete(k)) \in Nat /\ Len(Complete(D[Main])) \in Nat /\ Len(Complete(m)) \in Nat
    BY <2>3
  <2> QED BY <2>1, <2>4 DEF Begins
<1> QED BY <1>2, <1>3, <1>4, <1>5, <1>6 DEF FilesFit

\* A power loss picks one content of each file.
LEMMA FilesPower ==
  ASSUME NEW D, NEW S, NEW E, NEW T, FilesFit(D, S),
         \A n \in Names : E[n] \in S[n] /\ T[n] = {E[n]}
  PROVE  FilesFit(E, T)
<1>1. Main \in Names /\ \A p \in Objects : p \in Names
  BY NamesApart
<1>2. T[Main] = {E[Main]} /\ E[Main] \in S[Main] /\ \A o \in Objects : T[o] = {E[o]} /\ E[o] \in S[o]
  BY <1>1
<1>3. E[Main] \in MainContents /\ Whole(E[Main])
  BY <1>2 DEF FilesFit
<1>4. Complete(E[Main]) \in Seq(MarkerRec)
  BY <1>3, CompleteLines, TornIsNoLine DEF MainContents
<1>5. Begins(Complete(E[Main]), Complete(E[Main]))
  BY <1>4, BeginsItself
<1> QED BY <1>2, <1>5 DEF FilesFit

----------------------------------------------------------------------------
(* The invariant.                                                          *)

Up == {"tidy", "idle", "append", "flush", "mark", "apply", "authorize", "reclaim"}

Types ==
  /\ fsync \in BOOLEAN /\ disk \in [Names -> Contents] /\ kept \in [Names -> SUBSET Contents]
  /\ pc \in Up \cup {"down", "poisoned"}
  /\ todo \subseteq Objects /\ DOMAIN plan \subseteq Objects /\ live \subseteq Works
  /\ seq \in Nat /\ attempts \in Nat
  /\ (memory = <<>>) <=> (pc \in {"down", "poisoned"})

Files == FilesFit(disk, Surv(fsync, disk, kept))

\* An open backend wrote the main file's last line whole, numbers its commits
\* beyond it and serves the value of the markers, but for the one just written.
Upto(M, s) == \A i \in 1..Len(M) : M[i].seq <= s
Serves ==
  /\ pc \in Up => Clear(disk[Main])
  /\ pc \in Up \ {"apply"} => Upto(Markers, seq) /\ memory = [o \in Objects |-> Ids(Markers, o)]
  /\ pc = "apply" => \E g \in Seq(MarkerRec) :
       Markers = Append(g, job) /\ Upto(g, seq) /\ memory = [o \in Objects |-> Ids(g, o)]

\* The commit in progress may follow what is committed.
Jobs ==
  /\ pc \in {"append", "flush", "mark", "apply"} => job \in MarkerRec /\ job.seq = seq + 1
  /\ pc \in {"append", "flush", "mark"} => Legal(Append(Markers, job))
  /\ pc \in {"append", "flush"} => todo \subseteq SidecarsOf(job.writes)

\* The sidecars hold what is committed and the records of this commit so far.
Written == SidecarsOf(job.writes) \ (IF pc = "append" THEN todo ELSE {})
RecordedLast(M, o, c, r) == \E g \in Seq(RecordRec) : c = Append(g, r) /\ Clean(M, o, g)
Tails ==
  /\ pc \in {"idle", "apply", "authorize", "reclaim"} => \A o \in Objects : Clean(Markers, o, disk[o])
  /\ pc = "tidy" => \A o \in Objects \ todo : Clean(Markers, o, disk[o])
  /\ pc \in {"append", "flush", "mark"} =>
       \A o \in Objects : IF o \in Written THEN RecordedLast(Markers, o, disk[o], Record(o))
                          ELSE Clean(Markers, o, disk[o])

\* What reclamation will leave fits.
Plans ==
  /\ pc \in {"tidy", "authorize", "reclaim"} =>
       \A o \in DOMAIN plan : /\ plan[o] \in Seq(RecordRec)
                              /\ Clean(Markers, o, plan[o]) /\ Fits(Markers, o, plan[o])
  /\ pc \in {"authorize", "reclaim"} => todo \subseteq DOMAIN plan

\* What is flushed before the next step relies on it.
Alone(n) == Surv(fsync, disk, kept)[n] = {disk[n]}
Settled ==
  /\ pc = "flush" => \A o \in SidecarsOf(job.writes) \ todo : Alone(o)
  /\ pc = "mark" => \A o \in SidecarsOf(job.writes) : Alone(o)
  /\ pc = "reclaim" => Alone(Main)

StorageInv == Types /\ Files /\ Serves /\ Jobs /\ Tails /\ Plans /\ Settled

LEMMA BatchFacts ==
  ASSUME NEW w \in Batches
  PROVE  DOMAIN w \subseteq Objects /\ SidecarsOf(w) \subseteq DOMAIN w /\ \A o \in DOMAIN w : w[o] \in Kinds
<1>1. PICK O \in Groups : w \in [O -> {"create", "base", "delta", "retire", "live", "terminal"}]
  BY DEF Batches
<1>2. O \subseteq Objects
  BY JsonlAssumption DEF Objects
<1>3. DOMAIN w = O
  BY <1>1
<1>4. \A o \in DOMAIN w : w[o] \in Kinds
  BY <1>1 DEF Kinds
<1> QED BY <1>2, <1>3, <1>4 DEF SidecarsOf

\* The files as the operations of the backend see them.
LEMMA FileFacts ==
  ASSUME Types, Files
  PROVE  /\ Markers \in Seq(MarkerRec) /\ Legal(Markers) /\ Whole(disk[Main]) /\ disk[Main] \in MainContents
         /\ Clear(disk[Main]) => disk[Main] = Markers
         /\ \A o \in Objects : /\ Found(o) /\ Records(o) \in Seq(RecordRec)
                               /\ Clear(disk[o]) => disk[o] = Records(o)
         /\ \A m \in Surv(fsync, disk, kept)[Main] :
              /\ Complete(m) \in Seq(MarkerRec) /\ Begins(Complete(m), Markers)
              /\ \A o \in Objects : Fits(Complete(m), o, Records(o))
<1> DEFINE S == Surv(fsync, disk, kept)
<1>1. Main \in Names /\ \A o \in Objects : o \in Names
  BY NamesApart
<1>2. disk[Main] \in S[Main] /\ \A o \in Objects : disk[o] \in S[o]
  BY <1>1 DEF Files, FilesFit
<1>3. \A m \in S[Main] : /\ m \in MainContents /\ Whole(m) /\ Legal(Complete(m)) /\ Begins(Complete(m), Markers)
                         /\ \A o \in Objects : Fits(Complete(m), o, Records(o))
  BY <1>2 DEF Files, FilesFit, Markers, Records
<1>4. \A m \in S[Main] : Complete(m) \in Seq(MarkerRec) /\ (Clear(m) => Complete(m) = m)
  BY <1>3, CompleteLines, TornIsNoLine DEF MainContents
<1>5. \A o \in Objects : disk[o] \in SidecarContents /\ Whole(disk[o])
  BY <1>2 DEF Files, FilesFit
<1>6. \A o \in Objects : Records(o) \in Seq(RecordRec) /\ (Clear(disk[o]) => Records(o) = disk[o])
  BY <1>5, CompleteLines, TornIsNoLine DEF SidecarContents, Records
<1>7. Markers \in Seq(MarkerRec) /\ Legal(Markers) /\ Whole(disk[Main]) /\ (Clear(disk[Main]) => disk[Main] = Markers)
  BY <1>2, <1>3, <1>4 DEF Markers
<1>8. \A o \in Objects : Found(o)
  BY <1>2, <1>3, <1>5, <1>6, <1>7 DEF Found, Markers
<1> QED BY <1>2, <1>3, <1>4, <1>6, <1>7, <1>8

\* A marker that may follow.
LEMMA LegalAppend ==
  ASSUME NEW M \in Seq(MarkerRec), Legal(M), NEW mk \in MarkerRec,
         \A i \in 1..Len(M) : M[i].seq < mk.seq,
         \A o \in DOMAIN mk.writes :
            /\ mk.writes[o] \in IF o \in Works THEN {"live", "terminal"} ELSE {"create", "base", "delta", "retire"}
            /\ \A i \in 1..Len(M) : o \in DOMAIN M[i].writes => M[i].writes[o] \notin {"retire", "terminal"}
  PROVE  Legal(Append(M, mk))
<1> DEFINE N == Append(M, mk)
<1>1. Len(N) = Len(M) + 1 /\ N[Len(M) + 1] = mk /\ (\A i \in 1..Len(M) : N[i] = M[i]) /\ Len(M) \in Nat
  OBVIOUS
<1> HIDE DEF N
<1>2. \A i \in 1..Len(N) : i \in 1..Len(M) \/ i = Len(M) + 1
  BY <1>1
<1>3. ASSUME NEW i \in 1..Len(N), NEW j \in 1..Len(N), i < j
      PROVE  /\ N[i].seq < N[j].seq
             /\ \A o \in DOMAIN N[i].writes \cap DOMAIN N[j].writes : N[i].writes[o] \notin {"retire", "terminal"}
  <2>1. i \in 1..Len(M)
    BY <1>1, <1>2, <1>3
  <2>2. CASE j \in 1..Len(M)
    BY <2>1, <2>2, <1>1, <1>3 DEF Legal
  <2>3. CASE j = Len(M) + 1
    BY <2>1, <2>3, <1>1
  <2> QED BY <2>2, <2>3, <1>2
<1>4. \A i \in 1..Len(N) : \A o \in DOMAIN N[i].writes :
        N[i].writes[o] \in IF o \in Works THEN {"live", "terminal"} ELSE {"create", "base", "delta", "retire"}
  <2> TAKE i \in 1..Len(N)
  <2>1. CASE i \in 1..Len(M)
    BY <2>1, <1>1 DEF Legal
  <2>2. CASE i = Len(M) + 1
    BY <2>2, <1>1
  <2> QED BY <2>1, <2>2, <1>2
<1> QED BY <1>3, <1>4 DEF Legal, N

\* What the Session's validation admits.
LEMMA KindsAdmitted ==
  ASSUME Markers \in Seq(MarkerRec), Legal(Markers), NEW o, NEW kind \in KindsFor(o)
  PROVE  /\ kind \in IF o \in Works THEN {"live", "terminal"} ELSE {"create", "base", "delta", "retire"}
         /\ \A i \in 1..Len(Markers) : o \in DOMAIN Markers[i].writes => Markers[i].writes[o] \notin {"retire", "terminal"}
<1> DEFINE M == Markers
           kinds == {M[i].writes[o] : i \in {i \in DOMAIN M : o \in DOMAIN M[i].writes}}
<1>1. kind \in IF o \in Works THEN (IF kinds = {} THEN {"live"} ELSE IF "terminal" \in kinds THEN {} ELSE {"live", "terminal"})
               ELSE IF kinds = {} THEN {"create"}
               ELSE IF "retire" \in kinds THEN {} ELSE {"base", "delta", "retire"}
  BY DEF KindsFor
<1>2. DOMAIN M = 1..Len(M)
  OBVIOUS
<1>3. \A i \in 1..Len(M) : o \in DOMAIN M[i].writes => M[i].writes[o] \in kinds
  BY <1>2
<1>4. \A i \in 1..Len(M) : o \in DOMAIN M[i].writes =>
        M[i].writes[o] \in IF o \in Works THEN {"live", "terminal"} ELSE {"create", "base", "delta", "retire"}
  BY DEF Legal
<1> HIDE DEF M, kinds
<1>5. CASE o \in Works
  BY <1>1, <1>3, <1>4, <1>5 DEF M
<1>6. CASE o \notin Works
  BY <1>1, <1>3, <1>4, <1>6 DEF M
<1> QED BY <1>5, <1>6

----------------------------------------------------------------------------
(* Each action preserves it.                                               *)

\* An operation that leaves the files alone.
LEMMA SameFiles ==
  ASSUME Types, Files, UNCHANGED <<fsync, disk, kept>>
  PROVE  /\ Files' /\ Markers' = Markers /\ \A n : Alone(n)' <=> Alone(n)
         /\ fsync' \in BOOLEAN /\ disk' \in [Names -> Contents] /\ kept' \in [Names -> SUBSET Contents]
  BY DEF Types, Files, Markers, Alone

LEMMA BeginStep ==
  ASSUME StorageInv, NEW w \in Batches, Begin(w) PROVE StorageInv'
<1>0. Types /\ Files /\ Serves /\ Tails
  BY DEF StorageInv
<1>1. /\ pc = "idle" /\ attempts' = attempts + 1 /\ (\A o \in DOMAIN w : w[o] \in KindsFor(o))
      /\ job' = [seq |-> seq + 1, id |-> attempts + 1, writes |-> w] /\ todo' = SidecarsOf(w)
      /\ pc' = (IF SidecarsOf(w) = {} THEN "mark" ELSE "append")
      /\ UNCHANGED <<fsync, disk, kept, plan, memory, seq, live>>
  BY DEF Begin
<1>2. Files' /\ Markers' = Markers /\ (\A n : Alone(n)' <=> Alone(n))
  BY <1>0, <1>1, SameFiles
<1>3. DOMAIN w \subseteq Objects /\ SidecarsOf(w) \subseteq DOMAIN w
  BY BatchFacts
<1>4. pc' \in {"mark", "append"}
  BY <1>1
<1>5. Types'
  BY <1>0, <1>1, <1>3, <1>4 DEF Types, Up
<1>6. Serves'
  BY <1>0, <1>1, <1>2, <1>4 DEF Serves, Up
<1>7. job' \in MarkerRec /\ job'.seq = seq' + 1 /\ job'.writes = w
  BY <1>0, <1>1 DEF Types, MarkerRec
<1>8. Markers \in Seq(MarkerRec) /\ Legal(Markers)
  BY <1>0, FileFacts
<1>9. \A i \in 1..Len(Markers) : Markers[i].seq < job'.seq
  <2> TAKE i \in 1..Len(Markers)
  <2>1. Markers[i].seq <= seq /\ Markers[i].seq \in Nat /\ seq \in Nat
    BY <1>0, <1>1, <1>8, MarkersTyped DEF Serves, Up, Upto, Types
  <2> QED BY <2>1, <1>1, <1>7
<1>10. \A o \in DOMAIN job'.writes :
            /\ job'.writes[o] \in IF o \in Works THEN {"live", "terminal"} ELSE {"create", "base", "delta", "retire"}
            /\ \A i \in 1..Len(Markers) : o \in DOMAIN Markers[i].writes => Markers[i].writes[o] \notin {"retire", "terminal"}
  BY <1>1, <1>7, <1>8, KindsAdmitted
<1>11. Legal(Append(Markers, job'))
  BY <1>7, <1>8, <1>9, <1>10, LegalAppend
<1>12. Jobs'
  BY <1>1, <1>2, <1>4, <1>7, <1>11 DEF Jobs
<1>13. Written' = {}
  BY <1>1, <1>7 DEF Written
<1>14. Tails'
  BY <1>0, <1>1, <1>2, <1>4, <1>13 DEF Tails
<1>15. Plans' /\ Settled'
  BY <1>1, <1>4, <1>7 DEF Plans, Settled
<1> QED BY <1>2, <1>5, <1>6, <1>12, <1>14, <1>15 DEF StorageInv

\* A record of this commit is beyond whatever may survive.
LEMMA RecordIsNew ==
  ASSUME Types, Files, NEW r \in RecordRec, Upto(Markers, seq), r.seq = seq + 1,
         NEW o \in Objects, Clean(Markers, o, disk[o])
  PROVE  /\ disk[o] = Records(o) /\ disk[o] \in Seq(RecordRec)
         /\ \A x \in 1..Len(disk[o]) : disk[o][x].seq < r.seq
         /\ \A m \in Surv(fsync, disk, kept)[Main] : Fits(Complete(m), o, Append(disk[o], r))
<1> DEFINE c == disk[o]
<1>1. /\ Markers \in Seq(MarkerRec) /\ c = Records(o) /\ c \in Seq(RecordRec)
      /\ \A m \in Surv(fsync, disk, kept)[Main] : /\ Complete(m) \in Seq(MarkerRec) /\ Begins(Complete(m), Markers)
                                                  /\ Fits(Complete(m), o, c)
  BY FileFacts DEF Clean
<1>2. seq \in Nat
  BY DEF Types
<1> HIDE DEF c
<1>3. \A i \in 1..Len(Markers) : Markers[i].seq < r.seq
  <2> TAKE i \in 1..Len(Markers)
  <2>1. Markers[i].seq <= seq /\ Markers[i].seq \in Nat
    BY <1>1, MarkersTyped DEF Upto
  <2> QED BY <2>1, <1>2
<1>4. \A x \in 1..Len(c) : c[x].seq < r.seq
  <2> TAKE x \in 1..Len(c)
  <2>1. Sound(Markers, o, c[x])
    BY DEF Clean, c
  <2>2. PICK i \in 1..Len(Markers) : c[x].seq = Markers[i].seq
    BY <2>1 DEF Sound, Needs
  <2> QED BY <2>2, <1>3
<1>5. \A m \in Surv(fsync, disk, kept)[Main] : Fits(Complete(m), o, Append(c, r))
  <2> TAKE m \in Surv(fsync, disk, kept)[Main]
  <2>1. Complete(m) \in Seq(MarkerRec) /\ Fits(Complete(m), o, c)
    BY <1>1
  <2>2. \A i \in 1..Len(Complete(m)) : Complete(m)[i] = Markers[i] /\ i \in 1..Len(Markers)
    BY <1>1, <2>1 DEF Begins
  <2>3. \A i \in 1..Len(Complete(m)) : Complete(m)[i].seq < r.seq
    BY <2>2, <1>3
  <2> QED BY <2>1, <2>3, <1>1, <1>4, FitsRecord
<1> QED BY <1>1, <1>4, <1>5 DEF c

\* Writing a content that fits to a sidecar.
LEMMA WriteSidecar ==
  ASSUME Types, Files, NEW o \in Objects, NEW c \in SidecarContents, Whole(c), Write(o, c), fsync' = fsync,
         \A m \in Surv(fsync, disk, kept)[Main] : Fits(Complete(m), o, Complete(c))
  PROVE  /\ Files' /\ Markers' = Markers /\ disk'[Main] = disk[Main] /\ disk'[o] = c
         /\ \A p \in Objects : p # o => disk'[p] = disk[p] /\ (Alone(p)' <=> Alone(p))
         /\ ~fsync => \A n \in Names : Alone(n)'
         /\ Alone(Main)' <=> Alone(Main)
         /\ fsync' \in BOOLEAN /\ disk' \in [Names -> Contents] /\ kept' \in [Names -> SUBSET Contents]
<1> DEFINE S == Surv(fsync, disk, kept)
           T == Surv(fsync, disk', kept')
<1>1. fsync \in BOOLEAN /\ disk \in [Names -> Contents] /\ kept \in [Names -> SUBSET Contents]
  BY DEF Types
<1>2. o \in Names /\ o # Main /\ Main \in Names /\ \A p \in Objects : p \in Names
  BY NamesApart
<1>3. c \in Contents
  BY DEF Contents
<1>4. Writes(fsync, disk, kept, o, c, disk', kept')
  BY <1>1 DEF Write, Writes
<1>5. disk' \in [Names -> Contents] /\ kept' \in [Names -> SUBSET Contents]
  BY <1>1, <1>2, <1>3, <1>4, WriteTyped
<1>6. Touched(disk, S, o, c, disk', T)
  BY <1>1, <1>2, <1>3, <1>4, WriteSpec
<1> HIDE DEF S, T
<1>7. FilesFit(disk, S)
  BY DEF Files, S
<1>8. \A m \in S[Main] : Fits(Complete(m), o, Complete(c))
  BY DEF S
<1>9. FilesFit(disk', T)
  BY <1>6, <1>7, <1>8, FilesSidecar
<1>10. disk'[o] = c /\ \A n \in Names : n # o => disk'[n] = disk[n] /\ T[n] = S[n]
  BY <1>6 DEF Touched
<1>12. disk'[Main] = disk[Main]
  BY <1>2, <1>10
<1>13. \A p \in Objects : p # o => disk'[p] = disk[p] /\ (Alone(p)' <=> Alone(p))
  BY <1>2, <1>10 DEF Alone, S, T
<1>14. Alone(Main)' <=> Alone(Main)
  BY <1>2, <1>10 DEF Alone, S, T
<1>15. ~fsync => \A n \in Names : Alone(n)'
  BY DEF Alone, Surv
<1> QED BY <1>1, <1>5, <1>9, <1>10, <1>12, <1>13, <1>14, <1>15 DEF Files, T, Markers

\* Flushing a file.
LEMMA FlushFile ==
  ASSUME Types, Files, NEW n \in Names, Flush(n), UNCHANGED <<fsync, disk>>
  PROVE  /\ Files' /\ Markers' = Markers /\ Alone(n)' /\ \A k \in Names : Alone(k) => Alone(k)'
         /\ fsync' \in BOOLEAN /\ disk' \in [Names -> Contents] /\ kept' \in [Names -> SUBSET Contents]
<1> DEFINE S == Surv(fsync, disk, kept)
           T == Surv(fsync, disk, kept')
<1>1. fsync \in BOOLEAN /\ disk \in [Names -> Contents] /\ kept \in [Names -> SUBSET Contents]
  BY DEF Types
<1>2. Flushes(disk, kept, n, kept')
  BY DEF Flush, Flushes
<1>3. kept' \in [Names -> SUBSET Contents]
  BY <1>1, <1>2, FlushTyped
<1>11. FlushedOnly(disk, S, n, T)
  BY <1>1, <1>2, FlushSpec
<1> HIDE DEF S, T
<1>4. T[n] = {disk[n]} /\ \A k \in Names : k # n => T[k] = S[k]
  BY <1>11 DEF FlushedOnly
<1>5. FilesFit(disk, S)
  BY DEF Files, S
<1>6. \A k \in Names : disk[k] \in S[k]
  BY <1>5 DEF FilesFit
<1>7. \A k \in Names : T[k] \subseteq S[k] /\ disk[k] \in T[k]
  BY <1>4, <1>6
<1>8. FilesFit(disk, T)
  BY <1>5, <1>7, FilesShrink
<1>9. \A k \in Names : Alone(k) => Alone(k)'
  BY <1>4 DEF Alone, S, T
<1>10. Alone(n)'
  BY <1>4 DEF Alone, T
<1> QED BY <1>1, <1>3, <1>8, <1>9, <1>10 DEF Files, T, Markers

\* Writing a continuation to the main file.
LEMMA WriteMain ==
  ASSUME Types, Files, NEW m \in MainContents, Whole(m), Legal(Complete(m)), Complete(m) \in Seq(MarkerRec),
         Begins(Markers, Complete(m)), Write(Main, m), fsync' = fsync,
         \A o \in Objects : \A c \in Surv(fsync, disk, kept)[o] : Fits(Complete(m), o, Complete(c))
  PROVE  /\ Files' /\ Markers' = Complete(m) /\ disk'[Main] = m
         /\ \A p \in Objects : disk'[p] = disk[p] /\ (Alone(p)' <=> Alone(p))
         /\ fsync' \in BOOLEAN /\ disk' \in [Names -> Contents] /\ kept' \in [Names -> SUBSET Contents]
<1> DEFINE S == Surv(fsync, disk, kept)
           T == Surv(fsync, disk', kept')
<1>1. fsync \in BOOLEAN /\ disk \in [Names -> Contents] /\ kept \in [Names -> SUBSET Contents]
  BY DEF Types
<1>2. Main \in Names /\ \A p \in Objects : p \in Names /\ p # Main
  BY NamesApart
<1>3. m \in Contents
  BY DEF Contents
<1>4. Writes(fsync, disk, kept, Main, m, disk', kept')
  BY <1>1 DEF Write, Writes
<1>5. disk' \in [Names -> Contents] /\ kept' \in [Names -> SUBSET Contents]
  BY <1>1, <1>2, <1>3, <1>4, WriteTyped
<1>6. Touched(disk, S, Main, m, disk', T)
  BY <1>1, <1>2, <1>3, <1>4, WriteSpec
<1> HIDE DEF S, T
<1>7. FilesFit(disk, S)
  BY DEF Files, S
<1>8. \A o \in Objects : \A c \in S[o] : Fits(Complete(m), o, Complete(c))
  BY DEF S
<1>9. Begins(Complete(disk[Main]), Complete(m))
  BY DEF Markers
<1>10. FilesFit(disk', T)
  BY <1>6, <1>7, <1>8, <1>9, FilesMain
<1>11. disk'[Main] = m /\ \A p \in Objects : disk'[p] = disk[p] /\ T[p] = S[p]
  BY <1>2, <1>6 DEF Touched
<1>12. \A p \in Objects : Alone(p)' <=> Alone(p)
  BY <1>11 DEF Alone, S, T
<1> QED BY <1>1, <1>5, <1>10, <1>11, <1>12 DEF Files, T, Markers

LEMMA RecordTyped ==
  ASSUME job \in MarkerRec, NEW o \in SidecarsOf(job.writes)
  PROVE  Record(o) \in RecordRec /\ Record(o).seq = job.seq /\ Record(o).id = job.id /\ Record(o).kind = job.writes[o]
<1>1. job.writes \in Batches /\ job.seq \in Nat \ {0} /\ job.id \in Nat
  BY DEF MarkerRec
<1>2. job.writes[o] \in Kinds
  BY <1>1, BatchFacts
<1> QED BY <1>1, <1>2 DEF Record, RecordRec

LEMMA AppendSidecarStep ==
  ASSUME StorageInv, NEW o \in Objects, AppendSidecar(o) PROVE StorageInv'
<1> DEFINE r == Record(o)
           c == Append(disk[o], r)
<1>0. Types /\ Files /\ Serves /\ Jobs /\ Tails /\ Plans
  BY DEF StorageInv
<1>1. /\ pc = "append" /\ o \in todo /\ Write(o, c)
      /\ IF todo # {o} THEN todo' = todo \ {o} /\ pc' = pc
         ELSE IF fsync THEN todo' = SidecarsOf(job.writes) /\ pc' = "flush"
         ELSE todo' = {} /\ pc' = "mark"
      /\ UNCHANGED <<fsync, job, plan, memory, seq, live, attempts, acked, faults, losses>>
  BY DEF AppendSidecar
<1>2. /\ pc' \in {"append", "flush", "mark"} /\ (pc' = "append" => todo' = todo \ {o})
      /\ (pc' # "append" => todo = {o}) /\ (pc' = "flush" => todo' = SidecarsOf(job.writes))
      /\ (pc' = "mark" => ~fsync /\ todo' = {})
  BY <1>1
<1>3. job \in MarkerRec /\ job.seq = seq + 1 /\ todo \subseteq SidecarsOf(job.writes) /\ o \in SidecarsOf(job.writes)
  BY <1>0, <1>1 DEF Jobs
<1>4. r \in RecordRec /\ r.seq = seq + 1
  BY <1>3, RecordTyped
<1>5. Upto(Markers, seq) /\ Clean(Markers, o, disk[o])
  <2>1. o \notin Written
    BY <1>1 DEF Written
  <2> QED BY <2>1, <1>0, <1>1 DEF Serves, Tails, Up
<1>6. /\ disk[o] \in Seq(RecordRec)
      /\ \A m \in Surv(fsync, disk, kept)[Main] : Fits(Complete(m), o, c)
  BY <1>0, <1>4, <1>5, RecordIsNew
<1>7. c \in Seq(RecordRec) /\ Whole(c) /\ Complete(c) = c
  BY <1>4, <1>6, AppendedLines, TornIsNoLine
<1>8. c \in SidecarContents
  <2> HIDE DEF c
  <2> QED BY <1>7 DEF SidecarContents
<1> HIDE DEF c
<1>9. \A m \in Surv(fsync, disk, kept)[Main] : Fits(Complete(m), o, Complete(c))
  BY <1>6, <1>7
<1>10. /\ Files' /\ Markers' = Markers /\ disk'[Main] = disk[Main] /\ disk'[o] = c
       /\ \A p \in Objects : p # o => disk'[p] = disk[p]
       /\ ~fsync => \A n \in Names : Alone(n)'
       /\ fsync' \in BOOLEAN /\ disk' \in [Names -> Contents] /\ kept' \in [Names -> SUBSET Contents]
  BY <1>0, <1>1, <1>7, <1>8, <1>9, WriteSidecar
<1>11. SidecarsOf(job.writes) \subseteq Objects
  BY <1>3, BatchFacts DEF MarkerRec
<1>12. Types'
  BY <1>0, <1>1, <1>2, <1>10, <1>11 DEF Types, Up
<1>13. Serves'
  BY <1>0, <1>1, <1>2, <1>10 DEF Serves, Up
<1>14. Jobs'
  BY <1>0, <1>1, <1>2, <1>3, <1>10 DEF Jobs
<1>15. /\ o \in Written' /\ Record(o)' = r
       /\ \A p \in Objects : p # o => (p \in Written' <=> p \in Written) /\ Record(p)' = Record(p)
  BY <1>1, <1>2, <1>3 DEF Written, Record
<1>16. Tails'
  <2>1. RecordedLast(Markers, o, c, r)
    BY <1>5, <1>6 DEF RecordedLast, c
  <2>2. \A p \in Objects : p # o => IF p \in Written THEN RecordedLast(Markers, p, disk[p], Record(p))
                                    ELSE Clean(Markers, p, disk[p])
    BY <1>0, <1>1 DEF Tails
  <2>3. \A p \in Objects : IF p \in Written' THEN RecordedLast(Markers', p, disk'[p], Record(p)')
                           ELSE Clean(Markers', p, disk'[p])
    BY <2>1, <2>2, <1>10, <1>15
  <2> QED BY <2>3, <1>2 DEF Tails
<1>17. Plans'
  BY <1>2 DEF Plans
<1>18. Settled'
  BY <1>1, <1>2, <1>10, <1>11, NamesApart DEF Settled
<1> QED BY <1>10, <1>12, <1>13, <1>14, <1>16, <1>17, <1>18 DEF StorageInv

LEMMA FlushSidecarStep ==
  ASSUME StorageInv, NEW o \in Objects, FlushSidecar(o) PROVE StorageInv'
<1>0. Types /\ Files /\ Serves /\ Jobs /\ Tails /\ Settled
  BY DEF StorageInv
<1>1. /\ pc = "flush" /\ o \in todo /\ Flush(o) /\ todo' = todo \ {o} /\ pc' = (IF todo = {o} THEN "mark" ELSE pc)
      /\ UNCHANGED <<fsync, disk, job, plan, memory, seq, live, attempts>>
  BY DEF FlushSidecar
<1>2. pc' \in {"flush", "mark"} /\ (pc' = "mark" => todo = {o})
  BY <1>1
<1>3. o \in Names
  BY NamesApart
<1>4. /\ Files' /\ Markers' = Markers /\ Alone(o)' /\ (\A k \in Names : Alone(k) => Alone(k)')
      /\ fsync' \in BOOLEAN /\ disk' \in [Names -> Contents] /\ kept' \in [Names -> SUBSET Contents]
  BY <1>0, <1>1, <1>3, FlushFile
<1>5. Types'
  BY <1>0, <1>1, <1>2, <1>4 DEF Types, Up
<1>6. Serves' /\ Jobs'
  BY <1>0, <1>1, <1>2, <1>4 DEF Serves, Up, Jobs
<1>7. Written' = Written /\ \A p : Record(p)' = Record(p)
  BY <1>1, <1>2 DEF Written, Record
<1>8. Tails'
  BY <1>0, <1>1, <1>2, <1>4, <1>7 DEF Tails
<1>9. Plans'
  BY <1>2 DEF Plans
<1>10. \A p \in SidecarsOf(job.writes) : p \in Names
  <2>1. job.writes \in Batches
    BY <1>0, <1>1 DEF Jobs, MarkerRec
  <2> QED BY <2>1, BatchFacts, NamesApart
<1>11. Settled'
  BY <1>0, <1>1, <1>2, <1>4, <1>10 DEF Settled
<1> QED BY <1>4, <1>5, <1>6, <1>8, <1>9, <1>11 DEF StorageInv

\* The marker confirms the records its commit wrote and, with fsync, flushed.
LEMMA MarkerMayFollow ==
  ASSUME StorageInv, pc = "mark"
  PROVE  LET N == Append(Markers, job)
         IN /\ Markers \in Seq(MarkerRec) /\ disk[Main] = Markers /\ Append(disk[Main], Marker) = N
            /\ job \in MarkerRec /\ job.seq = seq + 1 /\ Upto(Markers, seq)
            /\ N \in Seq(MarkerRec) /\ N \in MainContents /\ Whole(N) /\ Clear(N) /\ Complete(N) = N
            /\ Legal(N) /\ Begins(Markers, N)
            /\ \A o \in Objects : Clean(N, o, disk[o])
            /\ \A o \in Objects : \A c \in Surv(fsync, disk, kept)[o] : Fits(N, o, Complete(c))
<1> DEFINE M == Markers
           N == Append(M, job)
           S == Surv(fsync, disk, kept)
<1>0. Types /\ Files /\ Serves /\ Jobs /\ Tails /\ Settled
  BY DEF StorageInv
<1>2. /\ M \in Seq(MarkerRec) /\ Legal(M) /\ disk[Main] = M
      /\ \A o \in Objects : Found(o) /\ (Clear(disk[o]) => disk[o] = Records(o))
  BY <1>0, FileFacts DEF Serves, Up
<1>3. job \in MarkerRec /\ job.seq = seq + 1 /\ Legal(N) /\ Upto(M, seq) /\ seq \in Nat
  BY <1>0 DEF Jobs, Serves, Up, Types
<1>4. Marker = job
  BY <1>3 DEF Marker, MarkerRec
<1>5. Append(disk[Main], Marker) = N
  BY <1>2, <1>4
<1>6. N \in Seq(MarkerRec) /\ Whole(N) /\ Clear(N) /\ Complete(N) = N
  BY <1>2, <1>3, AppendedLines, TornIsNoLine
<1>7. Begins(M, N)
  BY <1>2, <1>3 DEF Begins
<1>8. \A i \in 1..Len(M) : M[i].seq < job.seq
  <2> TAKE i \in 1..Len(M)
  <2>1. M[i].seq <= seq /\ M[i].seq \in Nat
    BY <1>2, <1>3, MarkersTyped DEF Upto
  <2> QED BY <2>1, <1>3
<1>9. SidecarsOf(job.writes) \subseteq Objects /\ Written = SidecarsOf(job.writes)
  BY <1>3, BatchFacts DEF MarkerRec, Written
<1>10. \A o \in Objects : Fits(M, o, Records(o))
  BY <1>2 DEF Found
<1>11. \A o \in Objects : \A c \in S[o] : Fits(M, o, Complete(c))
  BY <1>0, NamesApart DEF Files, FilesFit, Markers
<1>12. \A o \in SidecarsOf(job.writes) : /\ Fits(N, o, disk[o]) /\ Clean(N, o, disk[o])
                                         /\ disk[o] = Records(o) /\ S[o] = {disk[o]}
  <2> TAKE o \in SidecarsOf(job.writes)
  <2>1. o \in Objects
    BY <1>9
  <2>2. S[o] = {disk[o]}
    BY <1>0 DEF Settled, Alone
  <2>3. RecordedLast(M, o, disk[o], Record(o))
    BY <1>0, <1>9, <2>1 DEF Tails
  <2>4. PICK g \in Seq(RecordRec) : disk[o] = Append(g, Record(o)) /\ Clean(M, o, g)
    BY <2>3 DEF RecordedLast
  <2>5. Record(o) \in RecordRec /\ Record(o).seq = job.seq /\ Record(o).id = job.id /\ Record(o).kind = job.writes[o]
    BY <1>3, RecordTyped
  <2>6. Clear(disk[o])
    BY <2>4, <2>5, AppendedLines, TornIsNoLine
  <2>7. disk[o] = Records(o)
    BY <2>1, <2>6, <1>2
  <2>8. Fits(M, o, Append(g, Record(o)))
    BY <2>1, <2>4, <2>7, <1>10
  <2>9. Fits(N, o, Append(g, Record(o))) /\ Clean(N, o, Append(g, Record(o)))
    BY <2>4, <2>5, <2>8, <1>2, <1>3, <1>8, FitsMarkerOwn
  <2> QED BY <2>2, <2>4, <2>7, <2>9
<1> HIDE DEF M, N, S
<1>13. \A o \in Objects : \A c \in S[o] : Fits(N, o, Complete(c))
  <2> TAKE o \in Objects
  <2> TAKE c \in S[o]
  <2>1. CASE o \in SidecarsOf(job.writes)
    <3>1. c = disk[o] /\ Fits(N, o, disk[o]) /\ disk[o] = Records(o)
      BY <2>1, <1>12
    <3>2. Complete(c) = Records(o)
      BY <3>1 DEF Records
    <3> QED BY <3>1, <3>2
  <2>2. CASE o \notin SidecarsOf(job.writes)
    <3>1. Fits(M, o, Complete(c))
      BY <1>11
    <3> QED BY <2>2, <3>1, <1>2, <1>3, FitsMarkerOther DEF N
  <2> QED BY <2>1, <2>2
<1>14. \A o \in Objects : Clean(N, o, disk[o])
  <2> TAKE o \in Objects
  <2>1. CASE o \in SidecarsOf(job.writes)
    BY <2>1, <1>12
  <2>2. CASE o \notin SidecarsOf(job.writes)
    <3>1. Clean(M, o, disk[o])
      BY <2>2, <1>0, <1>9 DEF Tails, M
    <3>2. Len(N) = Len(M) + 1 /\ (\A i \in 1..Len(M) : N[i] = M[i]) /\ Needs(N, o) = Needs(M, o)
          /\ Needs(M, o) \subseteq 1..Len(M)
      BY <2>2, <1>2, <1>3, NeedsAppended DEF N
    <3> QED BY <3>1, <3>2 DEF Clean, Sound
  <2> QED BY <2>1, <2>2
<1>15. N \in MainContents
  BY <1>6 DEF MainContents
<1> QED BY <1>2, <1>3, <1>5, <1>6, <1>7, <1>13, <1>14, <1>15 DEF M, N, S

LEMMA AppendMarkerStep ==
  ASSUME StorageInv, AppendMarker PROVE StorageInv'
<1> DEFINE N == Append(Markers, job)
<1>0. Types /\ Serves
  BY DEF StorageInv
<1>1. /\ pc = "mark" /\ Write(Main, Append(disk[Main], Marker)) /\ pc' = "apply"
      /\ UNCHANGED <<fsync, job, todo, plan, memory, seq, live, attempts>>
  BY DEF AppendMarker
<1>2. /\ Markers \in Seq(MarkerRec) /\ Append(disk[Main], Marker) = N
      /\ job \in MarkerRec /\ job.seq = seq + 1 /\ Upto(Markers, seq)
      /\ N \in Seq(MarkerRec) /\ N \in MainContents /\ Whole(N) /\ Clear(N) /\ Complete(N) = N
      /\ Legal(N) /\ Begins(Markers, N)
      /\ \A o \in Objects : Clean(N, o, disk[o])
      /\ \A o \in Objects : \A c \in Surv(fsync, disk, kept)[o] : Fits(N, o, Complete(c))
  BY <1>1, MarkerMayFollow
<1>3. memory = [o \in Objects |-> Ids(Markers, o)]
  BY <1>0, <1>1 DEF Serves, Up
<1> HIDE DEF N
<1>4. Files
  BY DEF StorageInv
<1>5. Write(Main, N) /\ fsync' = fsync
  BY <1>1, <1>2
<1>6. Legal(Complete(N)) /\ Complete(N) \in Seq(MarkerRec) /\ Begins(Markers, Complete(N))
      /\ \A o \in Objects : \A c \in Surv(fsync, disk, kept)[o] : Fits(Complete(N), o, Complete(c))
  BY <1>2
<1>7. /\ Files' /\ Markers' = N /\ disk'[Main] = N
      /\ \A p \in Objects : disk'[p] = disk[p]
      /\ fsync' \in BOOLEAN /\ disk' \in [Names -> Contents] /\ kept' \in [Names -> SUBSET Contents]
  BY <1>0, <1>2, <1>4, <1>5, <1>6, WriteMain
<1>8. Types'
  BY <1>0, <1>1, <1>7 DEF Types, Up
<1>9. Serves'
  <2>1. \E g \in Seq(MarkerRec) : Markers' = Append(g, job') /\ Upto(g, seq') /\ memory' = [o \in Objects |-> Ids(g, o)]
    BY <1>1, <1>2, <1>3, <1>7 DEF N
  <2>2. Clear(disk'[Main])
    BY <1>2, <1>7
  <2> QED BY <2>1, <2>2, <1>1 DEF Serves
<1>10. Jobs'
  BY <1>1, <1>2 DEF Jobs
<1>11. Tails'
  BY <1>1, <1>2, <1>7 DEF Tails
<1>12. Plans' /\ Settled'
  BY <1>1 DEF Plans, Settled
<1> QED BY <1>7, <1>8, <1>9, <1>10, <1>11, <1>12 DEF StorageInv

\* A value for every object is not the value of a backend that serves nothing.
LEMMA ValueIsSomething ==
  ASSUME NEW V PROVE [o \in Objects |-> V[o]] # <<>>
<1> DEFINE f == [o \in Objects |-> V[o]]
<1>1. PICK o \in Objects : TRUE
  BY NamesApart
<1>2. o \in DOMAIN f
  BY <1>1
<1>3. DOMAIN <<>> = {}
  OBVIOUS
<1> HIDE DEF f
<1>4. f # <<>>
  BY <1>2, <1>3
<1> QED BY <1>4 DEF f

ServedOf(M) == [o \in Objects |-> Ids(M, o)]

LEMMA ServedIsSomething == ASSUME NEW M PROVE ServedOf(M) # <<>>
<1> DEFINE V == [o \in Objects |-> Ids(M, o)]
<1>1. [o \in Objects |-> V[o]] # <<>>
  BY ValueIsSomething
<1>2. [o \in Objects |-> V[o]] = V
  OBVIOUS
<1>3. ServedOf(M) = V
  BY DEF ServedOf
<1> HIDE DEF V
<1> QED BY <1>1, <1>2, <1>3

\* What a commit decides to reclaim fits what it committed.
LEMMA ReclamationsFit ==
  ASSUME job \in MarkerRec, Legal(Markers), NEW g \in Seq(MarkerRec), Markers = Append(g, job),
         NEW o \in DOMAIN Reclamations
  PROVE  /\ o \in Objects /\ Reclamations[o] \in Seq(RecordRec)
         /\ Clean(Markers, o, Reclamations[o]) /\ Fits(Markers, o, Reclamations[o])
<1> DEFINE M == Markers
           n == Len(M)
<1>1. /\ o \in DOMAIN job.writes
      /\ \/ o \in Docs /\ job.writes[o] \in {"base", "retire"}
         \/ o \in Works /\ job.writes[o] = "terminal"
      /\ Reclamations[o] = IF job.writes[o] = "base" THEN <<Record(o)>> ELSE <<>>
  BY DEF Reclamations
<1>2. M \in Seq(MarkerRec) /\ n \in Nat /\ n = Len(g) + 1 /\ n \in 1..Len(M) /\ M[n] = job
  OBVIOUS
<1>3. o \in Objects
  BY <1>1 DEF Objects
<1> HIDE DEF M, n
<1>4. CASE job.writes[o] = "base"
  <2>1. o \in Docs /\ o \in SidecarsOf(job.writes)
    BY <1>1, <1>4 DEF SidecarsOf, InSidecar
  <2>2. Record(o) \in RecordRec /\ Record(o).seq = job.seq /\ Record(o).id = job.id /\ Record(o).kind = job.writes[o]
    BY <2>1, RecordTyped
  <2>3. n \in Needs(M, o)
    BY <1>1, <1>2, <1>4 DEF Needs, InSidecar
  <2>4. n = Len(M) /\ Legal(M) /\ M[n].writes[o] = "base"
    BY <1>2, <1>4 DEF M, n
  <2>5. Record(o).seq = M[n].seq /\ Record(o).id = M[n].id /\ Record(o).kind = M[n].writes[o]
    BY <1>2, <2>2
  <2>6. Fits(M, o, <<Record(o)>>) /\ Clean(M, o, <<Record(o)>>)
    BY <1>2, <2>1, <2>2, <2>3, <2>4, <2>5, FitsBase
  <2>7. Reclamations[o] = <<Record(o)>>
    BY <1>1, <1>4
  <2>8. <<Record(o)>> \in Seq(RecordRec)
    BY <2>2
  <2> QED BY <1>3, <2>6, <2>7, <2>8 DEF M
<1>5. CASE job.writes[o] # "base"
  <2>1. Reclamations[o] = <<>>
    BY <1>1, <1>5
  <2>2. (o \in Works /\ Ended(M, o, "terminal")) \/ (o \in Docs /\ Ended(M, o, "retire"))
    BY <1>1, <1>2, <1>5 DEF Ended
  <2>3. Fits(M, o, <<>>) /\ Clean(M, o, <<>>)
    BY <2>2, FitsNothing
  <2>4. <<>> \in Seq(RecordRec)
    OBVIOUS
  <2> QED BY <1>3, <2>1, <2>3, <2>4 DEF M
<1> QED BY <1>4, <1>5

\* The memory after a commit is the value of its marker and those before.
LEMMA AppliedValue ==
  ASSUME job \in MarkerRec, NEW g \in Seq(MarkerRec), memory = [o \in Objects |-> Ids(g, o)]
  PROVE  [o \in Objects |-> Applied(o)] = ServedOf(Append(g, job))
<1>1. \A o \in Objects : Applied(o) = Ids(Append(g, job), o)
  <2> TAKE o \in Objects
  <2>1. memory[o] = Ids(g, o)
    OBVIOUS
  <2>2. Ids(Append(g, job), o) = IF o \notin DOMAIN job.writes THEN Ids(g, o)
          ELSE IF job.writes[o] \in CL!Resets(o) THEN {job.id} ELSE Ids(g, o) \cup {job.id}
    BY IdsAppended
  <2> QED BY <2>1, <2>2 DEF Applied
<1> QED BY <1>1 DEF ServedOf

LEMMA ApplyStep ==
  ASSUME StorageInv, Apply PROVE StorageInv'
<1>0. Types /\ Files /\ Serves /\ Jobs /\ Tails
  BY DEF StorageInv
<1>1. /\ pc = "apply" /\ memory' = [o \in Objects |-> Applied(o)] /\ seq' = job.seq
      /\ live' = (live \cup {o \in Works \cap DOMAIN job.writes : job.writes[o] = "live"})
               \ {o \in Works \cap DOMAIN job.writes : job.writes[o] = "terminal"}
      /\ plan' = Reclamations /\ todo' = DOMAIN Reclamations
      /\ pc' = (IF DOMAIN Reclamations = {} THEN "idle" ELSE IF fsync THEN "authorize" ELSE "reclaim")
      /\ UNCHANGED <<fsync, disk, kept, attempts>>
  BY DEF Apply
<1>2. Files' /\ Markers' = Markers /\ (\A n : Alone(n)' <=> Alone(n))
  BY <1>0, <1>1, SameFiles
<1>3. PICK g \in Seq(MarkerRec) : Markers = Append(g, job) /\ Upto(g, seq) /\ memory = [o \in Objects |-> Ids(g, o)]
  BY <1>0, <1>1 DEF Serves
<1>4. job \in MarkerRec /\ job.seq = seq + 1 /\ seq \in Nat /\ job.seq \in Nat
  BY <1>0, <1>1 DEF Jobs, Types
<1>5. Legal(Markers) /\ Clear(disk[Main])
  BY <1>0, <1>1, FileFacts DEF Serves, Up
<1>6. \A o \in DOMAIN Reclamations : /\ o \in Objects /\ Reclamations[o] \in Seq(RecordRec)
                                     /\ Clean(Markers, o, Reclamations[o]) /\ Fits(Markers, o, Reclamations[o])
  BY <1>3, <1>4, <1>5, ReclamationsFit
<1>7. memory' = ServedOf(Markers)
  BY <1>1, <1>3, <1>4, AppliedValue
<1>8. memory' # <<>>
  BY <1>7, ServedIsSomething
<1>9. pc' \in {"idle", "authorize", "reclaim"} /\ (pc' = "reclaim" => ~fsync)
  BY <1>1
<1>10. Types'
  BY <1>0, <1>1, <1>4, <1>6, <1>8, <1>9 DEF Types, Up
<1>11. Upto(Markers, seq')
  <2> SUFFICES ASSUME NEW i \in 1..Len(Markers) PROVE Markers[i].seq <= job.seq
    BY <1>1 DEF Upto
  <2>1. i \in 1..Len(g) \/ i = Len(g) + 1
    BY <1>3, <1>4
  <2>2. CASE i \in 1..Len(g)
    <3>1. Markers[i] = g[i]
      BY <2>2, <1>3, <1>4
    <3>2. g[i].seq <= seq /\ g[i].seq \in Nat
      BY <2>2, <1>3, MarkersTyped DEF Upto
    <3> QED BY <3>1, <3>2, <1>4
  <2>3. CASE i = Len(g) + 1
    BY <2>3, <1>3, <1>4
  <2> QED BY <2>1, <2>2, <2>3
<1>12. Serves'
  BY <1>1, <1>2, <1>5, <1>7, <1>9, <1>11 DEF Serves, Up, ServedOf
<1>13. Jobs'
  BY <1>9 DEF Jobs
<1>14. Tails'
  BY <1>0, <1>1, <1>2, <1>9 DEF Tails
<1>15. Plans'
  BY <1>1, <1>2, <1>6 DEF Plans
<1>16. ~fsync => Alone(Main)
  BY NamesApart DEF Alone, Surv
<1>17. Settled'
  BY <1>2, <1>9, <1>16 DEF Settled
<1> QED BY <1>2, <1>10, <1>12, <1>13, <1>14, <1>15, <1>17 DEF StorageInv

LEMMA AuthorizeStep ==
  ASSUME StorageInv, Authorize PROVE StorageInv'
<1>0. Types /\ Files /\ Serves /\ Jobs /\ Tails /\ Plans
  BY DEF StorageInv
<1>1. pc = "authorize" /\ UNCHANGED <<fsync, disk, job, memory, seq, live, attempts>>
  BY DEF Authorize
<1>2. CASE Flush(Main) /\ pc' = "reclaim" /\ UNCHANGED <<todo, plan>>
  <2>1. /\ Files' /\ Markers' = Markers /\ Alone(Main)'
        /\ fsync' \in BOOLEAN /\ disk' \in [Names -> Contents] /\ kept' \in [Names -> SUBSET Contents]
    BY <1>0, <1>1, <1>2, FlushFile, NamesApart
  <2>2. Types'
    BY <1>0, <1>1, <1>2, <2>1 DEF Types, Up
  <2>3. Serves' /\ Jobs' /\ Tails'
    BY <1>0, <1>1, <1>2, <2>1 DEF Serves, Jobs, Tails, Up
  <2>4. Plans' /\ Settled'
    BY <1>0, <1>1, <1>2, <2>1 DEF Plans, Settled
  <2> QED BY <2>1, <2>2, <2>3, <2>4 DEF StorageInv
<1>3. CASE pc' = "idle" /\ todo' = {} /\ plan' = NoPlan /\ UNCHANGED kept
  <2>1. Files' /\ Markers' = Markers
    BY <1>0, <1>1, <1>3, SameFiles
  <2>2. Types'
    BY <1>0, <1>1, <1>3 DEF Types, Up, NoPlan
  <2>3. Serves' /\ Jobs' /\ Tails'
    BY <1>0, <1>1, <1>3, <2>1 DEF Serves, Jobs, Tails, Up
  <2>4. Plans' /\ Settled'
    BY <1>3 DEF Plans, Settled
  <2> QED BY <2>1, <2>2, <2>3, <2>4 DEF StorageInv
<1> QED BY <1>2, <1>3 DEF Authorize

LEMMA ReclaimStep ==
  ASSUME StorageInv, NEW o \in Objects, Reclaim(o) PROVE StorageInv'
<1>0. Types /\ Files /\ Serves /\ Tails /\ Plans /\ Settled
  BY DEF StorageInv
<1>1. /\ pc = "reclaim" /\ o \in todo /\ todo' = todo \ {o}
      /\ IF todo = {o} THEN pc' = "idle" /\ plan' = NoPlan ELSE UNCHANGED <<pc, plan>>
      /\ UNCHANGED <<fsync, job, memory, seq, live, attempts>>
      /\ Write(o, plan[o]) \/ UNCHANGED <<disk, kept>>
  BY DEF Reclaim
<1>2. pc' \in {"idle", "reclaim"} /\ (pc' = "reclaim" => plan' = plan) /\ (pc' = "idle" => plan' = NoPlan)
  BY <1>1
<1>3. /\ plan[o] \in Seq(RecordRec) /\ Clean(Markers, o, plan[o]) /\ Fits(Markers, o, plan[o])
      /\ todo \subseteq DOMAIN plan
  BY <1>0, <1>1 DEF Plans
<1> DEFINE c == plan[o]
<1>4. Whole(c) /\ Complete(c) = c
  BY <1>3, LinesAreClear, TornIsNoLine
<1>5. c \in SidecarContents
  BY <1>3 DEF SidecarContents
<1>6. \A m \in Surv(fsync, disk, kept)[Main] : Fits(Complete(m), o, Complete(c))
  <2>1. Surv(fsync, disk, kept)[Main] = {disk[Main]}
    BY <1>0, <1>1 DEF Settled, Alone
  <2> QED BY <2>1, <1>3, <1>4 DEF Markers
<1>7. DOMAIN NoPlan = {}
  BY DEF NoPlan
<1>8. DOMAIN plan' \subseteq Objects
  BY <1>0, <1>2, <1>7 DEF Types
<1>9. ASSUME Files', Markers' = Markers, disk'[Main] = disk[Main], Alone(Main)',
             \A p \in Objects : Clean(Markers, p, disk'[p]),
             fsync' \in BOOLEAN, disk' \in [Names -> Contents], kept' \in [Names -> SUBSET Contents]
      PROVE  StorageInv'
  <2>1. Types'
    BY <1>0, <1>1, <1>2, <1>8, <1>9 DEF Types, Up
  <2>2. Serves'
    BY <1>0, <1>1, <1>2, <1>9 DEF Serves, Up
  <2>3. Jobs'
    BY <1>2 DEF Jobs
  <2>4. Tails'
    BY <1>2, <1>9 DEF Tails
  <2>5. Plans'
    BY <1>0, <1>1, <1>2, <1>9 DEF Plans
  <2>6. Settled'
    BY <1>2, <1>9 DEF Settled
  <2> QED BY <1>9, <2>1, <2>2, <2>3, <2>4, <2>5, <2>6 DEF StorageInv
<1>10. \A p \in Objects : Clean(Markers, p, disk[p])
  BY <1>0, <1>1 DEF Tails
<1>11. CASE Write(o, c)
  <2> HIDE DEF c
  <2>1. /\ Files' /\ Markers' = Markers /\ disk'[Main] = disk[Main] /\ disk'[o] = c
        /\ \A p \in Objects : p # o => disk'[p] = disk[p]
        /\ Alone(Main)' <=> Alone(Main)
        /\ fsync' \in BOOLEAN /\ disk' \in [Names -> Contents] /\ kept' \in [Names -> SUBSET Contents]
    BY <1>0, <1>1, <1>4, <1>5, <1>6, <1>11, WriteSidecar
  <2>2. Alone(Main)'
    BY <2>1, <1>0, <1>1 DEF Settled
  <2>3. \A p \in Objects : Clean(Markers, p, disk'[p])
    BY <2>1, <1>3, <1>10 DEF c
  <2> QED BY <2>1, <2>2, <2>3, <1>9
<1>12. CASE UNCHANGED <<disk, kept>>
  <2>1. /\ Files' /\ Markers' = Markers /\ \A n : Alone(n)' <=> Alone(n)
        /\ fsync' \in BOOLEAN /\ disk' \in [Names -> Contents] /\ kept' \in [Names -> SUBSET Contents]
    BY <1>0, <1>1, <1>12, SameFiles
  <2>2. Alone(Main)'
    BY <2>1, <1>0, <1>1 DEF Settled
  <2>3. \A p \in Objects : Clean(Markers, p, disk'[p])
    BY <1>10, <1>12
  <2>4. disk'[Main] = disk[Main]
    BY <1>12
  <2> QED BY <2>1, <2>2, <2>3, <2>4, <1>9
<1> QED BY <1>1, <1>11, <1>12

\* A backend that serves nothing only needs its files to fit.
LEMMA Forgotten ==
  ASSUME Files', fsync' \in BOOLEAN, disk' \in [Names -> Contents], kept' \in [Names -> SUBSET Contents],
         attempts' \in Nat, Forget, pc' \in {"down", "poisoned"}
  PROVE  StorageInv'
<1>1. todo' = {} /\ plan' = NoPlan /\ memory' = <<>> /\ seq' = 0 /\ live' = {}
  BY DEF Forget
<1>2. DOMAIN plan' = {}
  BY <1>1 DEF NoPlan
<1>3. Types'
  BY <1>1, <1>2 DEF Types, Up
<1>4. Serves' /\ Jobs' /\ Tails' /\ Plans' /\ Settled'
  BY DEF Serves, Jobs, Tails, Plans, Settled, Up
<1> QED BY <1>3, <1>4 DEF StorageInv

LEMMA StopSteps ==
  ASSUME StorageInv, FlushFails \/ Close \/ Crash PROVE StorageInv'
<1>0. Types /\ Files
  BY DEF StorageInv
<1>1. UNCHANGED <<fsync, disk, kept, attempts>> /\ Forget /\ pc' \in {"down", "poisoned"}
  BY DEF FlushFails, Close, Crash
<1>2. /\ Files' /\ fsync' \in BOOLEAN /\ disk' \in [Names -> Contents] /\ kept' \in [Names -> SUBSET Contents]
  BY <1>0, <1>1, SameFiles
<1>3. attempts' \in Nat
  BY <1>0, <1>1 DEF Types
<1> QED BY <1>1, <1>2, <1>3, Forgotten

LEMMA LosePowerStep ==
  ASSUME StorageInv, LosePower PROVE StorageInv'
<1> DEFINE S == Surv(fsync, disk, kept)
           T == Surv(fsync, disk', kept')
<1>0. Types /\ Files
  BY DEF StorageInv
<1>1. PICK survived \in [Names -> UNION {kept[n] : n \in Names}] :
         /\ \A n \in Names : survived[n] \in kept[n]
         /\ disk' = survived /\ kept' = [n \in Names |-> {survived[n]}]
  BY DEF LosePower
<1>2. fsync /\ pc' = "down" /\ Forget /\ UNCHANGED <<fsync, attempts>>
  BY DEF LosePower
<1>3. fsync = TRUE /\ kept \in [Names -> SUBSET Contents] /\ attempts \in Nat
  BY <1>0, <1>2 DEF Types
<1>4. \A n \in Names : S[n] = kept[n] /\ T[n] = {disk'[n]}
  BY <1>1, <1>3 DEF Surv
<1>5. \A n \in Names : disk'[n] \in S[n] /\ disk'[n] \in Contents
  BY <1>1, <1>3, <1>4
<1>6. disk' \in [Names -> Contents]
  BY <1>1, <1>5
<1>7. kept' \in [Names -> SUBSET Contents]
  <2>1. \A n \in Names : {survived[n]} \in SUBSET Contents
    BY <1>1, <1>5
  <2> QED BY <2>1, <1>1
<1> HIDE DEF S, T
<1>8. FilesFit(disk', T)
  BY <1>0, <1>4, <1>5, FilesPower DEF Files, S
<1>9. Files'
  BY <1>2, <1>8 DEF Files, T
<1> QED BY <1>2, <1>3, <1>6, <1>7, <1>9, Forgotten

\* An append that fails leaves the file, and maybe a torn line or the whole one.
LEMMA SidecarAppendFails ==
  ASSUME StorageInv, NEW o \in todo, pc = "append", AppendFails(o, Record(o)) PROVE StorageInv'
<1>0. Types /\ Files /\ Serves /\ Jobs /\ Tails
  BY DEF StorageInv
<1>1. /\ pc' = "poisoned" /\ Forget /\ UNCHANGED <<fsync, attempts>>
      /\ \/ UNCHANGED <<disk, kept>>
         \/ Write(o, Append(disk[o], Torn))
         \/ Write(o, Append(disk[o], Record(o)))
  BY DEF AppendFails
<1>2. job \in MarkerRec /\ job.seq = seq + 1 /\ o \in SidecarsOf(job.writes) /\ o \in Objects /\ attempts' \in Nat
  BY <1>0, <1>1 DEF Jobs, Types
<1>3. Record(o) \in RecordRec /\ Record(o).seq = seq + 1
  BY <1>2, RecordTyped
<1>4. Upto(Markers, seq) /\ Clean(Markers, o, disk[o])
  <2>1. o \notin Written
    BY DEF Written
  <2> QED BY <2>1, <1>0, <1>2 DEF Serves, Tails, Up
<1>5. /\ disk[o] = Records(o) /\ disk[o] \in Seq(RecordRec)
      /\ \A m \in Surv(fsync, disk, kept)[Main] : Fits(Complete(m), o, Append(disk[o], Record(o)))
  BY <1>0, <1>2, <1>3, <1>4, RecordIsNew
<1>6. \A m \in Surv(fsync, disk, kept)[Main] : Fits(Complete(m), o, disk[o])
  BY <1>0, <1>2, <1>5, FileFacts
<1>7. ASSUME NEW c \in SidecarContents, Whole(c), Write(o, c),
             Complete(c) = disk[o] \/ Complete(c) = Append(disk[o], Record(o))
      PROVE  StorageInv'
  <2>1. \A m \in Surv(fsync, disk, kept)[Main] : Fits(Complete(m), o, Complete(c))
    BY <1>5, <1>6, <1>7
  <2>2. /\ Files' /\ fsync' \in BOOLEAN /\ disk' \in [Names -> Contents] /\ kept' \in [Names -> SUBSET Contents]
    BY <1>0, <1>1, <1>2, <1>7, <2>1, WriteSidecar
  <2> QED BY <1>1, <1>2, <2>2, Forgotten
<1>8. CASE Write(o, Append(disk[o], Torn))
  <2> DEFINE c == Append(disk[o], Torn)
  <2>1. c \in Seq(RecordRec \cup {Torn}) /\ Whole(c) /\ Complete(c) = disk[o]
    BY <1>5, AppendedLines, TornIsNoLine
  <2> HIDE DEF c
  <2>2. c \in SidecarContents
    BY <2>1 DEF SidecarContents
  <2>3. Write(o, c)
    BY <1>8 DEF c
  <2> QED BY <2>1, <2>2, <2>3, <1>7
<1>9. CASE Write(o, Append(disk[o], Record(o)))
  <2> DEFINE c == Append(disk[o], Record(o))
  <2>1. c \in Seq(RecordRec) /\ Whole(c) /\ Complete(c) = c
    BY <1>3, <1>5, AppendedLines, TornIsNoLine
  <2>2. Write(o, c) /\ Complete(c) = Append(disk[o], Record(o))
    BY <1>9, <2>1
  <2> HIDE DEF c
  <2>3. c \in SidecarContents
    BY <2>1 DEF SidecarContents
  <2> QED BY <2>1, <2>2, <2>3, <1>7
<1>10. CASE UNCHANGED <<disk, kept>>
  <2>1. Files' /\ fsync' \in BOOLEAN /\ disk' \in [Names -> Contents] /\ kept' \in [Names -> SUBSET Contents]
    BY <1>0, <1>1, <1>10, SameFiles
  <2> QED BY <1>1, <1>2, <2>1, Forgotten
<1> QED BY <1>1, <1>8, <1>9, <1>10

LEMMA MarkerAppendFails ==
  ASSUME StorageInv, pc = "mark", AppendFails(Main, Marker) PROVE StorageInv'
<1> DEFINE N == Append(Markers, job)
<1>0. Types /\ Files
  BY DEF StorageInv
<1>1. /\ pc' = "poisoned" /\ Forget /\ UNCHANGED <<fsync, attempts>>
      /\ \/ UNCHANGED <<disk, kept>>
         \/ Write(Main, Append(disk[Main], Torn))
         \/ Write(Main, Append(disk[Main], Marker))
  BY DEF AppendFails
<1>2. /\ Markers \in Seq(MarkerRec) /\ disk[Main] = Markers /\ Append(disk[Main], Marker) = N
      /\ N \in Seq(MarkerRec) /\ N \in MainContents /\ Whole(N) /\ Complete(N) = N
      /\ Legal(N) /\ Begins(Markers, N)
      /\ \A o \in Objects : \A c \in Surv(fsync, disk, kept)[o] : Fits(N, o, Complete(c))
  BY MarkerMayFollow
<1> HIDE DEF N
<1>3. attempts' \in Nat /\ fsync' = fsync
  BY <1>0, <1>1 DEF Types
<1>4. CASE Write(Main, Append(disk[Main], Torn))
  <2> DEFINE c == Append(disk[Main], Torn)
  <2>1. c \in Seq(MarkerRec \cup {Torn}) /\ Whole(c) /\ Complete(c) = Markers
    BY <1>2, AppendedLines, TornIsNoLine
  <2>2. Write(Main, c)
    BY <1>4
  <2> HIDE DEF c
  <2>3. c \in MainContents
    BY <2>1 DEF MainContents
  <2>4. Legal(Markers) /\ Begins(Markers, Markers)
    BY <1>0, <1>2, FileFacts, BeginsItself
  <2>5. \A o \in Objects : \A d \in Surv(fsync, disk, kept)[o] : Fits(Markers, o, Complete(d))
    BY <1>0, NamesApart DEF Files, FilesFit, Markers
  <2>6. Legal(Complete(c)) /\ Complete(c) \in Seq(MarkerRec) /\ Begins(Markers, Complete(c))
        /\ \A o \in Objects : \A d \in Surv(fsync, disk, kept)[o] : Fits(Complete(c), o, Complete(d))
    BY <1>2, <2>1, <2>4, <2>5
  <2>7. Files' /\ fsync' \in BOOLEAN /\ disk' \in [Names -> Contents] /\ kept' \in [Names -> SUBSET Contents]
    BY <1>0, <1>3, <2>1, <2>2, <2>3, <2>6, WriteMain
  <2> QED BY <1>1, <1>3, <2>7, Forgotten
<1>5. CASE Write(Main, Append(disk[Main], Marker))
  <2>1. Write(Main, N)
    BY <1>2, <1>5
  <2>2. Legal(Complete(N)) /\ Complete(N) \in Seq(MarkerRec) /\ Begins(Markers, Complete(N))
        /\ \A o \in Objects : \A c \in Surv(fsync, disk, kept)[o] : Fits(Complete(N), o, Complete(c))
    BY <1>2
  <2>3. Files' /\ fsync' \in BOOLEAN /\ disk' \in [Names -> Contents] /\ kept' \in [Names -> SUBSET Contents]
    BY <1>0, <1>2, <1>3, <2>1, <2>2, WriteMain
  <2> QED BY <1>1, <1>3, <2>3, Forgotten
<1>6. CASE UNCHANGED <<disk, kept>>
  <2>1. Files' /\ fsync' \in BOOLEAN /\ disk' \in [Names -> Contents] /\ kept' \in [Names -> SUBSET Contents]
    BY <1>0, <1>1, <1>6, SameFiles
  <2> QED BY <1>1, <1>3, <2>1, Forgotten
<1> QED BY <1>1, <1>4, <1>5, <1>6

\* Recovery accepts the files and serves the value of the markers.
LEMMA RecoverStep ==
  ASSUME StorageInv, Recover PROVE StorageInv' /\ pc' = "tidy"
<1> DEFINE M == Markers
<1>0. Types /\ Files
  BY DEF StorageInv
<1>1. /\ M \in Seq(MarkerRec) /\ Legal(M) /\ M = Markers
      /\ \A o \in Objects : Found(o)
      /\ \A m \in Surv(fsync, disk, kept)[Main] : \A o \in Objects : Fits(Complete(m), o, Records(o))
  BY <1>0, FileFacts
<1>2. ~Corrupt
  BY <1>1, NamesApart, NotCorrupt
<1>3. /\ pc' = "tidy" /\ Write(Main, Markers) /\ memory' = [o \in Objects |-> Recovered(o)]
      /\ seq' = (IF Markers = <<>> THEN 0 ELSE Last(Markers).seq) /\ live' = {o \in Works : FinalKind(o) = "live"}
      /\ plan' = [o \in {o \in Docs \cup Works : Confirmed(o) # <<>> /\ Retained(o) # Confirmed(o)} |-> Retained(o)]
      /\ todo' = Objects /\ fsync' = fsync /\ attempts' = attempts
  BY <1>2 DEF Recover
<1>4. M \in MainContents /\ Whole(M) /\ Clear(M) /\ Complete(M) = M /\ Begins(M, M)
  <2>1. Whole(M) /\ Clear(M) /\ Complete(M) = M
    BY <1>1, LinesAreClear, TornIsNoLine
  <2>2. M \in MainContents
    <3> HIDE DEF M
    <3> QED BY <1>1 DEF MainContents
  <2> QED BY <1>1, <2>1, <2>2, BeginsItself
<1> HIDE DEF M
<1>5. \A o \in Objects : \A c \in Surv(fsync, disk, kept)[o] : Fits(M, o, Complete(c))
  BY <1>0, <1>1, NamesApart DEF Files, FilesFit, Markers
<1>6. Legal(Complete(M)) /\ Complete(M) \in Seq(MarkerRec) /\ Begins(Markers, Complete(M))
      /\ \A o \in Objects : \A c \in Surv(fsync, disk, kept)[o] : Fits(Complete(M), o, Complete(c))
  BY <1>1, <1>4, <1>5
<1>7. Write(Main, M) /\ fsync' = fsync
  BY <1>1, <1>3
<1>8. /\ Files' /\ Markers' = M /\ disk'[Main] = M
      /\ fsync' \in BOOLEAN /\ disk' \in [Names -> Contents] /\ kept' \in [Names -> SUBSET Contents]
  BY <1>0, <1>4, <1>6, <1>7, WriteMain
<1>9. memory' = ServedOf(M)
  <2>1. \A o \in Objects : Recovered(o) = Ids(M, o)
    BY <1>1, RecoveredValue
  <2> QED BY <2>1, <1>3 DEF ServedOf
<1>10. memory' # <<>>
  BY <1>9, ServedIsSomething
<1>11. seq' \in Nat /\ Upto(M, seq')
  <2>1. CASE M = <<>>
    BY <2>1, <1>1, <1>3 DEF Upto
  <2>2. CASE M # <<>>
    <3> DEFINE n == Len(M)
    <3>1. n \in 1..Len(M) /\ Last(M) = M[n]
      BY <2>2, <1>1 DEF Last
    <3>2. seq' = M[n].seq
      BY <2>2, <3>1, <1>1, <1>3
    <3>3. M[n].seq \in Nat
      BY <3>1, <1>1, MarkersTyped
    <3>4. \A i \in 1..Len(M) : M[i].seq <= M[n].seq
      <4> TAKE i \in 1..Len(M)
      <4>1. i < n \/ i = n
        BY <1>1
      <4>2. i < n => M[i].seq < M[n].seq
        BY <3>1, <1>1 DEF Legal
      <4>3. M[i].seq \in Nat
        BY <1>1, MarkersTyped
      <4> QED BY <4>1, <4>2, <4>3, <3>3
    <3> QED BY <3>2, <3>3, <3>4 DEF Upto
  <2> QED BY <2>1, <2>2
<1>12. \A o \in DOMAIN plan' : /\ o \in Objects /\ plan'[o] \in Seq(RecordRec)
                               /\ Clean(M, o, plan'[o]) /\ Fits(M, o, plan'[o])
  <2> TAKE o \in DOMAIN plan'
  <2>1. o \in Docs \cup Works /\ plan'[o] = Retained(o)
    BY <1>3
  <2>2. o \in Objects
    BY <2>1 DEF Objects
  <2>3. Retained(o) \in Seq(RecordRec) /\ Fits(Markers, o, Retained(o)) /\ Clean(Markers, o, Retained(o))
    BY <2>2, <1>1, RetainedLines
  <2> QED BY <2>1, <2>2, <2>3, <1>1
<1>13. live' \subseteq Works /\ todo' \subseteq Objects
  BY <1>3
<1>14. attempts' \in Nat
  BY <1>0, <1>3 DEF Types
<1>15. DOMAIN plan' \subseteq Objects
  BY <1>12
<1>16. Types'
  BY <1>3, <1>8, <1>10, <1>11, <1>13, <1>14, <1>15 DEF Types, Up
<1>17. Serves'
  BY <1>3, <1>4, <1>8, <1>9, <1>11 DEF Serves, Up, ServedOf
<1>18. Jobs' /\ Settled'
  BY <1>3 DEF Jobs, Settled
<1>19. Tails'
  BY <1>3 DEF Tails
<1>20. Plans'
  BY <1>3, <1>8, <1>12 DEF Plans
<1> QED BY <1>3, <1>8, <1>16, <1>17, <1>18, <1>19, <1>20 DEF StorageInv

LEMMA TidyStep ==
  ASSUME StorageInv, NEW o \in Objects, Tidy(o) PROVE StorageInv'
<1> DEFINE c == Confirmed(o)
<1>0. Types /\ Files /\ Serves /\ Tails /\ Plans
  BY DEF StorageInv
<1>1. /\ pc = "tidy" /\ o \in todo /\ Write(o, c)
      /\ IF todo # {o} THEN todo' = todo \ {o} /\ pc' = pc
         ELSE /\ todo' = DOMAIN plan
              /\ pc' = IF DOMAIN plan = {} THEN "idle" ELSE IF fsync THEN "authorize" ELSE "reclaim"
      /\ UNCHANGED <<fsync, job, plan, memory, seq, live, attempts>>
  BY DEF Tidy
<1>2. /\ pc' \in {"tidy", "idle", "authorize", "reclaim"} /\ (pc' = "reclaim" => ~fsync)
      /\ (pc' = "tidy" => todo' = todo \ {o}) /\ (pc' # "tidy" => todo' = DOMAIN plan /\ todo = {o})
  BY <1>1
<1>3. /\ Found(o) /\ Markers \in Seq(MarkerRec)
      /\ \A m \in Surv(fsync, disk, kept)[Main] :
           Complete(m) \in Seq(MarkerRec) /\ Begins(Complete(m), Markers) /\ Fits(Complete(m), o, Records(o))
  BY <1>0, FileFacts
<1>4. /\ c \in Seq(RecordRec) /\ Clean(Markers, o, c)
      /\ \A m \in Seq(MarkerRec) : Begins(m, Markers) /\ Fits(m, o, Records(o)) => Fits(m, o, c)
  BY <1>3, ConfirmedLines
<1>5. Whole(c) /\ Complete(c) = c
  BY <1>4, LinesAreClear, TornIsNoLine
<1> HIDE DEF c
<1>6. c \in SidecarContents
  BY <1>4 DEF SidecarContents
<1>7. \A m \in Surv(fsync, disk, kept)[Main] : Fits(Complete(m), o, Complete(c))
  BY <1>3, <1>4, <1>5
<1>8. /\ Files' /\ Markers' = Markers /\ disk'[Main] = disk[Main] /\ disk'[o] = c
      /\ \A p \in Objects : p # o => disk'[p] = disk[p]
      /\ ~fsync => \A n \in Names : Alone(n)'
      /\ fsync' \in BOOLEAN /\ disk' \in [Names -> Contents] /\ kept' \in [Names -> SUBSET Contents]
  BY <1>0, <1>1, <1>5, <1>6, <1>7, WriteSidecar
<1>9. todo' \subseteq Objects
  BY <1>0, <1>1 DEF Types
<1>10. Types'
  BY <1>0, <1>1, <1>2, <1>8, <1>9 DEF Types, Up
<1>11. Serves'
  BY <1>0, <1>1, <1>2, <1>8 DEF Serves, Up
<1>12. Jobs'
  BY <1>2 DEF Jobs
<1>13. \A p \in Objects : p = o \/ p \notin todo => Clean(Markers, p, disk'[p])
  BY <1>0, <1>1, <1>4, <1>8 DEF Tails
<1>14. Tails'
  BY <1>2, <1>8, <1>13 DEF Tails
<1>15. Plans'
  BY <1>0, <1>1, <1>2, <1>8 DEF Plans
<1>16. Settled'
  BY <1>2, <1>8, NamesApart DEF Settled
<1> QED BY <1>8, <1>10, <1>11, <1>12, <1>14, <1>15, <1>16 DEF StorageInv

\* An empty directory fits.
LEMMA InitHolds == Init => StorageInv
<1> SUFFICES ASSUME Init PROVE StorageInv
  OBVIOUS
<1>1. /\ fsync \in BOOLEAN /\ disk = [n \in Names |-> <<>>] /\ kept = [n \in Names |-> {<<>>}]
      /\ pc = "down" /\ todo = {} /\ plan = NoPlan /\ memory = <<>> /\ seq = 0 /\ live = {} /\ attempts = 0
  BY DEF Init
<1> DEFINE none == <<>>
<1>2. none \in MainContents /\ none \in SidecarContents /\ none \in Contents
  BY DEF MainContents, SidecarContents, Contents
<1>3. Whole(none) /\ Complete(none) = none
  BY DEF Whole, Complete
<1>4. Legal(none) /\ Begins(none, none)
  BY DEF Legal, Begins
<1>5. \A o : Fits(none, o, none)
  BY DEF Fits, Ordered, Genuine, TailLast, Covered, Needs
<1>6. none = <<>>
  OBVIOUS
<1> HIDE DEF none
<1>7. disk \in [Names -> Contents] /\ kept \in [Names -> SUBSET Contents]
  BY <1>1, <1>2, <1>6
<1>8. \A n \in Names : disk[n] = none /\ Surv(fsync, disk, kept)[n] = {none}
  BY <1>1, <1>6 DEF Surv
<1>9. Files
  BY <1>2, <1>3, <1>4, <1>5, <1>8, NamesApart DEF Files, FilesFit
<1>10. DOMAIN plan = {}
  BY <1>1 DEF NoPlan
<1>11. Types
  BY <1>1, <1>7, <1>10 DEF Types, Up
<1>12. Serves /\ Jobs /\ Tails /\ Plans /\ Settled
  BY <1>1 DEF Serves, Jobs, Tails, Plans, Settled, Up
<1> QED BY <1>9, <1>11, <1>12 DEF StorageInv

\* Every step preserves it.
LEMMA StepHolds == ASSUME StorageInv, [Next]_vars PROVE StorageInv'
<1>1. ASSUME NEW w \in Batches, Begin(w) PROVE StorageInv'
  BY <1>1, BeginStep
<1>2. ASSUME NEW o \in Objects, AppendSidecar(o) \/ FlushSidecar(o) \/ Reclaim(o) \/ Tidy(o) PROVE StorageInv'
  BY <1>2, AppendSidecarStep, FlushSidecarStep, ReclaimStep, TidyStep
<1>3. CASE AppendMarker
  BY <1>3, AppendMarkerStep
<1>4. CASE Apply
  BY <1>4, ApplyStep
<1>5. CASE Authorize
  BY <1>5, AuthorizeStep
<1>6. CASE CommitFails
  BY <1>6, SidecarAppendFails, MarkerAppendFails DEF CommitFails
<1>7. CASE FlushFails \/ Close \/ Crash
  BY <1>7, StopSteps
<1>8. CASE LosePower
  BY <1>8, LosePowerStep
<1>9. CASE Recover
  BY <1>9, RecoverStep
<1>10. CASE UNCHANGED vars
  BY <1>10 DEF vars, StorageInv, Types, Files, Serves, Jobs, Tails, Plans, Settled, Markers, Written, Record, Alone
<1> QED BY <1>1, <1>2, <1>3, <1>4, <1>5, <1>6, <1>7, <1>8, <1>9, <1>10 DEF Next

\* Whatever failed, was cut off or lost, the files fit each other, and an open
\* backend serves the value of its markers.
THEOREM StorageHolds == Spec => []StorageInv
<1>1. StorageInv /\ [Next]_vars => StorageInv'
  BY StepHolds
<1> QED BY InitHolds, <1>1, PTL DEF Spec

\* The backend's state keeps its shape.
THEOREM Typed == Spec => []TypeOK
<1>1. StorageInv => TypeOK
  <2> SUFFICES ASSUME StorageInv PROVE TypeOK
    OBVIOUS
  <2>1. Types /\ Files
    BY DEF StorageInv
  <2>2. pc \in Up \cup {"down", "poisoned"} /\ todo \subseteq Objects /\ DOMAIN plan \subseteq Objects /\ live \subseteq Works
        /\ ((memory = <<>>) <=> (pc \in {"down", "poisoned"}))
    BY <2>1 DEF Types
  <2>3. \A n \in Names : fsync => disk[n] \in kept[n]
    <3> TAKE n \in Names
    <3> HAVE fsync
    <3>1. disk[n] \in Surv(fsync, disk, kept)[n] /\ fsync = TRUE
      BY <2>1 DEF Files, FilesFit, Types
    <3> QED BY <3>1 DEF Surv
  <2>4. (memory = <<>>) = (pc \in {"down", "poisoned", "corrupt"})
    BY <2>2 DEF Up
  <2> QED BY <2>2, <2>3, <2>4 DEF TypeOK, Up
<1> QED BY StorageHolds, <1>1, PTL

\* No crash, failed operation or power loss leaves a directory recovery refuses.
THEOREM DirectoryOpensAgain == Spec => []NeverRefused
<1>1. StorageInv => NeverRefused
  BY DEF StorageInv, Types, Up, NeverRefused
<1> QED BY StorageHolds, <1>1, PTL

----------------------------------------------------------------------------
(* The backend implements CommitLog.                                       *)

\* CommitLog's steps on the backend's log and view.
ExtendedTo(l, k) == Len(k) = Len(l) + 1 /\ SubSeq(k, 1, Len(l)) = l
Admitted(l, k, v, w) == v # <<>> /\ v = CL!Value(l) /\ ExtendedTo(l, k) /\ w = v
Published(l, k, v, w, a, b) == v # <<>> /\ l # <<>> /\ w = CL!Value(l) /\ b = a \cup {l[Len(l)].id} /\ k = l
Failed(l, k, v, w) == v # <<>> /\ v = CL!Value(l) /\ ExtendedTo(l, k) /\ w = <<>>
Opened(l, k, v, w) == v = <<>> /\ w = CL!Value(l) /\ k = l
Cut(l, k, w) == w = <<>> /\ \E n \in 0..Len(l) : k = SubSeq(l, 1, n)

LEMMA AdmitOfLog ==
  Admitted(LogNow, LogNow', ViewNow, ViewNow') /\ UNCHANGED <<acked, losses>> => CL!Next
BY DEF Admitted, ExtendedTo, CL!Admit, CL!Extended, CL!Closed, CL!Next

LEMMA PublishOfLog ==
  Published(LogNow, LogNow', ViewNow, ViewNow', acked, acked') /\ UNCHANGED losses => CL!Next
BY DEF Published, CL!Publish, CL!Closed, CL!Next

LEMMA FailOfLog ==
  Failed(LogNow, LogNow', ViewNow, ViewNow') /\ UNCHANGED <<acked, losses>> => CL!Next
BY DEF Failed, ExtendedTo, CL!Fail, CL!Extended, CL!Closed, CL!Next

LEMMA OpenOfLog ==
  Opened(LogNow, LogNow', ViewNow, ViewNow') /\ UNCHANGED <<acked, losses>> => CL!Next
BY DEF Opened, CL!Open, CL!Closed, CL!Next

LEMMA CloseOfLog ==
  ViewNow' = <<>> /\ LogNow' = LogNow /\ UNCHANGED <<acked, losses>> => CL!Next
BY DEF CL!Close, CL!Closed, CL!Next

LEMMA LosePowerOfLog ==
  Cut(LogNow, LogNow', ViewNow') /\ losses' = losses + 1 /\ acked' = acked => CL!Next
BY DEF Cut, CL!LosePower, CL!IsTailLoss, CL!Closed, CL!Next

LEMMA StutterOfLog ==
  LogNow' = LogNow /\ ViewNow' = ViewNow /\ acked' = acked /\ losses' = losses => UNCHANGED CL!logVars
BY DEF CL!logVars

LEMMA MarkersSeq == StorageInv => Markers \in Seq(MarkerRec)
BY FileFacts DEF StorageInv

LEMMA LogValue ==
  ASSUME NEW M \in Seq(MarkerRec) PROVE CL!Value(AsLog(M)) = ServedOf(M)
BY ValueOf DEF ServedOf

LEMMA LogExtended ==
  ASSUME NEW M \in Seq(MarkerRec), NEW mk \in MarkerRec
  PROVE  ExtendedTo(AsLog(M), AsLog(Append(M, mk)))
<1> DEFINE N == Append(M, mk)
           l == AsLog(M)
           k == AsLog(N)
<1>1. N \in Seq(MarkerRec) /\ Len(N) = Len(M) + 1 /\ \A i \in 1..Len(M) : N[i] = M[i]
  OBVIOUS
<1> HIDE DEF N
<1>2. l \in Seq([id : Nat, writes : Batches]) /\ Len(l) = Len(M)
  BY LogOfMarkers
<1>3. k \in Seq([id : Nat, writes : Batches]) /\ Len(k) = Len(M) + 1
  BY <1>1, LogOfMarkers
<1>4. \A i \in 1..Len(M) : k[i] = l[i]
  <2> TAKE i \in 1..Len(M)
  <2>1. i \in 1..Len(N) /\ N[i] = M[i]
    BY <1>1
  <2> QED BY <2>1 DEF AsLog
<1> HIDE DEF l, k
<1>5. SubSeq(k, 1, Len(l)) = l
  BY <1>2, <1>3, <1>4
<1>6. ExtendedTo(l, k)
  BY <1>2, <1>3, <1>5 DEF ExtendedTo
<1> QED BY <1>6 DEF l, k, N

LEMMA LogBegins ==
  ASSUME NEW M \in Seq(MarkerRec), NEW m \in Seq(MarkerRec), Begins(m, M)
  PROVE  \E n \in 0..Len(AsLog(M)) : AsLog(m) = SubSeq(AsLog(M), 1, n)
<1> DEFINE l == AsLog(M)
           k == AsLog(m)
<1>1. Len(m) \in Nat /\ Len(M) \in Nat /\ Len(m) <= Len(M) /\ \A i \in 1..Len(m) : m[i] = M[i]
  BY DEF Begins
<1>2. l \in Seq([id : Nat, writes : Batches]) /\ Len(l) = Len(M)
  BY LogOfMarkers
<1>3. k \in Seq([id : Nat, writes : Batches]) /\ Len(k) = Len(m)
  BY LogOfMarkers
<1>4. \A i \in 1..Len(m) : k[i] = l[i]
  <2> TAKE i \in 1..Len(m)
  <2>1. i \in 1..Len(M) /\ m[i] = M[i]
    BY <1>1
  <2> QED BY <2>1 DEF AsLog
<1> HIDE DEF l, k
<1>5. k = SubSeq(l, 1, Len(m))
  BY <1>1, <1>2, <1>3, <1>4
<1>6. Len(m) \in 0..Len(l)
  BY <1>1, <1>2
<1> QED BY <1>5, <1>6 DEF l, k

\* What the writes of files do to the markers.
LEMMA SidecarKeepsMarkers ==
  ASSUME Types, NEW o \in Objects, NEW c, Write(o, c) PROVE Markers' = Markers
<1>1. Main \in Names /\ o # Main /\ disk \in [Names -> Contents] /\ disk' = [disk EXCEPT ![o] = c]
  BY NamesApart DEF Types, Write
<1>2. disk'[Main] = disk[Main]
  BY <1>1
<1> QED BY <1>2 DEF Markers

LEMMA MainSetsMarkers ==
  ASSUME Types, NEW c, Write(Main, c) PROVE Markers' = Complete(c)
<1>1. Main \in Names /\ disk \in [Names -> Contents] /\ disk' = [disk EXCEPT ![Main] = c]
  BY NamesApart DEF Types, Write
<1>2. disk'[Main] = c
  BY <1>1
<1> QED BY <1>2 DEF Markers

\* Steps that change neither the markers nor what readers see, or only close.
LEMMA Unseen ==
  ASSUME Markers' = Markers, ViewNow' = ViewNow \/ ViewNow' = <<>>, acked' = acked, losses' = losses
  PROVE  [CL!Next]_CL!logVars
<1>1. LogNow' = LogNow
  BY DEF LogNow
<1> QED BY <1>1, CloseOfLog, StutterOfLog

LEMMA ForgetsView == ASSUME Forget PROVE ViewNow' = <<>>
BY DEF Forget, ViewNow

LEMMA QuietSteps ==
  ASSUME StorageInv, NEW o \in Objects,
         \/ \E w \in Batches : Begin(w)
         \/ AppendSidecar(o) \/ FlushSidecar(o) \/ Reclaim(o)
         \/ Authorize \/ FlushFails \/ Close \/ Crash \/ Recover
  PROVE  [CL!Next]_CL!logVars
<1>0. Types /\ Files
  BY DEF StorageInv
<1>1. CASE \E w \in Batches : Begin(w)
  <2>1. pc = "idle" /\ pc' \in {"mark", "append"} /\ UNCHANGED <<disk, memory, acked, losses>>
    BY <1>1 DEF Begin
  <2> QED BY <2>1, Unseen DEF Markers, ViewNow
<1>2. CASE AppendSidecar(o)
  <2>1. pc = "append" /\ pc' \in {"append", "flush", "mark"} /\ UNCHANGED <<memory, acked, losses>>
    BY <1>2 DEF AppendSidecar
  <2>2. Markers' = Markers
    BY <1>0, <1>2, SidecarKeepsMarkers DEF AppendSidecar
  <2> QED BY <2>1, <2>2, Unseen DEF ViewNow
<1>3. CASE FlushSidecar(o)
  <2>1. pc = "flush" /\ pc' \in {"flush", "mark"} /\ UNCHANGED <<disk, memory, acked, losses>>
    BY <1>3 DEF FlushSidecar
  <2> QED BY <2>1, Unseen DEF Markers, ViewNow
<1>4. CASE Reclaim(o)
  <2>1. pc = "reclaim" /\ pc' \in {"reclaim", "idle"} /\ UNCHANGED <<memory, acked, losses>>
    BY <1>4 DEF Reclaim
  <2>2. Write(o, plan[o]) \/ disk' = disk
    BY <1>4 DEF Reclaim
  <2>3. Markers' = Markers
    BY <1>0, <2>2, SidecarKeepsMarkers DEF Markers
  <2> QED BY <2>1, <2>3, Unseen DEF ViewNow
<1>5. CASE Authorize
  <2>1. pc = "authorize" /\ pc' \in {"reclaim", "idle"} /\ UNCHANGED <<disk, memory, acked, losses>>
    BY <1>5 DEF Authorize
  <2> QED BY <2>1, Unseen DEF Markers, ViewNow
<1>6. CASE FlushFails \/ Close \/ Crash
  <2>1. Forget /\ UNCHANGED <<disk, acked, losses>>
    BY <1>6 DEF FlushFails, Close, Crash
  <2> QED BY <2>1, ForgetsView, Unseen DEF Markers
<1>7. CASE Recover
  <2>1. pc' = "tidy" /\ pc = "down"
    BY <1>7, RecoverStep DEF Recover
  <2>2. Write(Main, Markers) /\ UNCHANGED <<acked, losses>>
    BY <1>7, <2>1 DEF Recover
  <2>3. Markers \in Seq(MarkerRec)
    BY MarkersSeq
  <2>4. Complete(Markers) = Markers
    BY <2>3, LinesAreClear, TornIsNoLine
  <2>5. Markers' = Markers
    BY <1>0, <2>2, <2>4, MainSetsMarkers
  <2>6. ViewNow' = <<>>
    BY <2>1 DEF ViewNow
  <2> QED BY <2>2, <2>5, <2>6, Unseen
<1> QED BY <1>1, <1>2, <1>3, <1>4, <1>5, <1>6, <1>7

\* The last truncation of recovery opens the log.
LEMMA TidyOpens ==
  ASSUME StorageInv, NEW o \in Objects, Tidy(o) PROVE [CL!Next]_CL!logVars
<1>0. Types /\ Files /\ Serves
  BY DEF StorageInv
<1>1. pc = "tidy" /\ Write(o, Confirmed(o)) /\ UNCHANGED <<memory, acked, losses>>
  BY DEF Tidy
<1>2. Markers' = Markers
  BY <1>0, <1>1, SidecarKeepsMarkers
<1>3. CASE pc' = "tidy"
  BY <1>1, <1>2, <1>3, Unseen DEF ViewNow
<1>4. CASE pc' # "tidy"
  <2>1. ViewNow = <<>> /\ ViewNow' = memory
    BY <1>1, <1>4 DEF ViewNow
  <2>2. memory = ServedOf(Markers)
    BY <1>0, <1>1 DEF Serves, Up, ServedOf
  <2>3. Markers \in Seq(MarkerRec)
    BY MarkersSeq
  <2>4. LogNow = AsLog(Markers) /\ LogNow' = LogNow
    BY <1>2, <2>3, LogOfMarkers DEF LogNow
  <2>5. CL!Value(LogNow) = ServedOf(Markers)
    BY <2>3, <2>4, LogValue
  <2>6. Opened(LogNow, LogNow', ViewNow, ViewNow')
    BY <2>1, <2>2, <2>4, <2>5 DEF Opened
  <2> QED BY <1>1, <2>6, OpenOfLog
<1> QED BY <1>3, <1>4

\* The marker admits the batch; applying it publishes the batch.
LEMMA MarkerAdmits ==
  ASSUME StorageInv, AppendMarker PROVE [CL!Next]_CL!logVars
<1> DEFINE N == Append(Markers, job)
<1>0. Types /\ Serves
  BY DEF StorageInv
<1>1. pc = "mark" /\ pc' = "apply" /\ Write(Main, Append(disk[Main], Marker)) /\ UNCHANGED <<memory, acked, losses>>
  BY DEF AppendMarker
<1>2. /\ Markers \in Seq(MarkerRec) /\ Append(disk[Main], Marker) = N /\ job \in MarkerRec
      /\ N \in Seq(MarkerRec) /\ Complete(N) = N
  BY <1>1, MarkerMayFollow
<1>3. Markers' = N
  BY <1>0, <1>1, <1>2, MainSetsMarkers
<1>4. memory = ServedOf(Markers) /\ memory # <<>>
  BY <1>0, <1>1, ServedIsSomething DEF Serves, Up, ServedOf
<1>5. LogNow = AsLog(Markers)
  BY <1>2, LogOfMarkers DEF LogNow
<1>6. LogNow' = AsLog(Markers')
  <2>1. Markers' \in Seq(MarkerRec)
    BY <1>2, <1>3
  <2> QED BY <2>1, LogOfMarkers DEF LogNow
<1>7. ExtendedTo(AsLog(Markers), AsLog(N))
  BY <1>2, LogExtended
<1>8. CL!Value(LogNow) = ServedOf(Markers)
  BY <1>2, <1>5, LogValue
<1>9. ViewNow = memory /\ ViewNow' = memory
  BY <1>1 DEF ViewNow
<1> HIDE DEF N
<1>10. Admitted(LogNow, LogNow', ViewNow, ViewNow')
  BY <1>3, <1>4, <1>5, <1>6, <1>7, <1>8, <1>9 DEF Admitted
<1> QED BY <1>1, <1>10, AdmitOfLog

LEMMA ApplyPublishes ==
  ASSUME StorageInv, Apply PROVE [CL!Next]_CL!logVars
<1>0. Types /\ Files /\ Serves /\ Jobs
  BY DEF StorageInv
<1>1. /\ pc = "apply" /\ pc' \in {"idle", "authorize", "reclaim"} /\ memory' = [o \in Objects |-> Applied(o)]
      /\ acked' = acked \cup {job.id} /\ UNCHANGED <<disk, losses>>
  BY DEF Apply
<1>2. PICK g \in Seq(MarkerRec) : Markers = Append(g, job) /\ memory = [o \in Objects |-> Ids(g, o)]
  BY <1>0, <1>1 DEF Serves
<1>3. job \in MarkerRec
  BY <1>0, <1>1 DEF Jobs
<1>4. memory' = ServedOf(Markers)
  BY <1>1, <1>2, <1>3, AppliedValue
<1>5. memory # <<>>
  <2>1. memory = ServedOf(g)
    BY <1>2 DEF ServedOf
  <2> QED BY <2>1, ServedIsSomething
<1>6. Markers \in Seq(MarkerRec) /\ Markers' = Markers
  BY <1>1, MarkersSeq DEF Markers
<1> DEFINE n == Len(Markers)
<1>7. n \in 1..Len(Markers) /\ Markers[n] = job
  <2>1. n = Len(g) + 1 /\ Append(g, job)[Len(g) + 1] = job /\ Len(g) \in Nat
    BY <1>2, <1>3
  <2> QED BY <2>1, <1>2
<1>8. LogNow = AsLog(Markers) /\ LogNow' = LogNow
  BY <1>6, LogOfMarkers DEF LogNow
<1>9. Len(AsLog(Markers)) = n /\ AsLog(Markers)[n].id = job.id /\ AsLog(Markers) # <<>>
  <2>1. Len(AsLog(Markers)) = n /\ AsLog(Markers)[n].id = Markers[n].id
    BY <1>6, <1>7, LogOfMarkers
  <2>2. n # 0
    BY <1>7
  <2> QED BY <2>1, <2>2, <1>7
<1> HIDE DEF n
<1>10. CL!Value(LogNow) = ServedOf(Markers)
  BY <1>6, <1>8, LogValue
<1>11. ViewNow = memory /\ ViewNow' = memory'
  BY <1>1 DEF ViewNow
<1>12. Published(LogNow, LogNow', ViewNow, ViewNow', acked, acked')
  BY <1>1, <1>4, <1>5, <1>8, <1>9, <1>10, <1>11 DEF Published
<1> QED BY <1>1, <1>12, PublishOfLog

\* A failed commit closes the log, its batch in it or not.
LEMMA CommitFailsOnce ==
  ASSUME StorageInv, CommitFails PROVE [CL!Next]_CL!logVars
<1>0. Types /\ Serves
  BY DEF StorageInv
<1>1. UNCHANGED <<acked, losses>> /\ ViewNow' = <<>>
  BY ForgetsView DEF CommitFails, AppendFails
<1>2. ASSUME NEW o \in todo, AppendFails(o, Record(o)) PROVE [CL!Next]_CL!logVars
  <2>1. o \in Objects
    BY <1>0 DEF Types
  <2>2. \/ disk' = disk \/ Write(o, Append(disk[o], Torn)) \/ Write(o, Append(disk[o], Record(o)))
    BY <1>2 DEF AppendFails
  <2>3. disk' = disk => Markers' = Markers
    BY DEF Markers
  <2>4. Markers' = Markers
    BY <1>0, <2>1, <2>2, <2>3, SidecarKeepsMarkers
  <2> QED BY <1>1, <2>4, Unseen
<1>3. ASSUME pc = "mark", AppendFails(Main, Marker) PROVE [CL!Next]_CL!logVars
  <2> DEFINE N == Append(Markers, job)
  <2>1. /\ Markers \in Seq(MarkerRec) /\ disk[Main] = Markers /\ Append(disk[Main], Marker) = N
        /\ job \in MarkerRec /\ N \in Seq(MarkerRec) /\ Complete(N) = N
    BY <1>3, MarkerMayFollow
  <2>2. \/ disk' = disk \/ Write(Main, Append(disk[Main], Torn)) \/ Write(Main, N)
    BY <1>3, <2>1 DEF AppendFails
  <2>3. CASE disk' = disk
    <3>1. Markers' = Markers
      BY <2>3 DEF Markers
    <3> QED BY <3>1, <1>1, Unseen
  <2>4. CASE Write(Main, Append(disk[Main], Torn))
    <3>1. Complete(Append(disk[Main], Torn)) = Markers
      BY <2>1, AppendedLines, TornIsNoLine
    <3>2. Markers' = Markers
      BY <1>0, <2>4, <3>1, MainSetsMarkers
    <3> QED BY <3>2, <1>1, Unseen
  <2>5. CASE Write(Main, N)
    <3>1. Markers' = N
      BY <1>0, <2>1, <2>5, MainSetsMarkers
    <3>2. memory = ServedOf(Markers) /\ memory # <<>>
      BY <1>0, <1>3, ServedIsSomething DEF Serves, Up, ServedOf
    <3>3. LogNow = AsLog(Markers)
      BY <2>1, LogOfMarkers DEF LogNow
    <3>4. LogNow' = AsLog(Markers')
      <4>1. Markers' \in Seq(MarkerRec)
        BY <2>1, <3>1
      <4> QED BY <4>1, LogOfMarkers DEF LogNow
    <3>5. ExtendedTo(AsLog(Markers), AsLog(N))
      BY <2>1, LogExtended
    <3>6. CL!Value(LogNow) = ServedOf(Markers)
      BY <2>1, <3>3, LogValue
    <3>7. ViewNow = memory
      BY <1>3 DEF ViewNow
    <3> HIDE DEF N
    <3>8. Failed(LogNow, LogNow', ViewNow, ViewNow')
      BY <1>1, <3>1, <3>2, <3>3, <3>4, <3>5, <3>6, <3>7 DEF Failed
    <3> QED BY <1>1, <3>8, FailOfLog
  <2> QED BY <2>2, <2>3, <2>4, <2>5
<1> QED BY <1>2, <1>3 DEF CommitFails

\* Only a power loss shortens the log, and only at its end.
LEMMA LosePowerCuts ==
  ASSUME StorageInv, LosePower PROVE [CL!Next]_CL!logVars
<1>0. Types /\ Files
  BY DEF StorageInv
<1>1. fsync /\ losses' = losses + 1 /\ acked' = acked /\ ViewNow' = <<>>
  BY ForgetsView DEF LosePower
<1>2. PICK survived \in [Names -> UNION {kept[n] : n \in Names}] :
        (\A n \in Names : survived[n] \in kept[n]) /\ disk' = survived
  BY DEF LosePower
<1>3. disk'[Main] \in Surv(fsync, disk, kept)[Main]
  BY <1>0, <1>1, <1>2, NamesApart DEF Surv, Types
<1>4. Markers \in Seq(MarkerRec) /\ Markers' \in Seq(MarkerRec) /\ Begins(Markers', Markers)
  <2>1. /\ Markers \in Seq(MarkerRec)
        /\ \A m \in Surv(fsync, disk, kept)[Main] : Complete(m) \in Seq(MarkerRec) /\ Begins(Complete(m), Markers)
    BY <1>0, FileFacts
  <2>2. Markers' = Complete(disk'[Main])
    BY DEF Markers
  <2> QED BY <2>1, <2>2, <1>3
<1>5. LogNow = AsLog(Markers) /\ LogNow' = AsLog(Markers')
  BY <1>4, LogOfMarkers DEF LogNow
<1>6. \E n \in 0..Len(AsLog(Markers)) : AsLog(Markers') = SubSeq(AsLog(Markers), 1, n)
  BY <1>4, LogBegins
<1>7. Cut(LogNow, LogNow', ViewNow')
  BY <1>1, <1>5, <1>6 DEF Cut
<1> QED BY <1>1, <1>7, LosePowerOfLog

LEMMA InitOfLog == Init => CL!Init
<1> SUFFICES ASSUME Init PROVE CL!Init
  OBVIOUS
<1>1. disk[Main] = <<>> /\ pc = "down" /\ memory = <<>> /\ acked = {} /\ losses = 0
  BY NamesApart DEF Init
<1>2. Markers = <<>>
  BY <1>1 DEF Markers, Complete
<1>3. LogNow = <<>>
  <2>1. <<>> \in Seq(MarkerRec)
    OBVIOUS
  <2>2. LogNow = AsLog(<<>>) /\ Len(AsLog(<<>>)) = Len(<<>>) /\ AsLog(<<>>) \in Seq([id : Nat, writes : Batches])
    BY <1>2, <2>1, LogOfMarkers DEF LogNow
  <2> QED BY <2>2
<1>4. ViewNow = <<>>
  BY <1>1 DEF ViewNow
<1> QED BY <1>1, <1>3, <1>4 DEF CL!Init, CL!Closed

LEMMA StepOfLog ==
  ASSUME StorageInv, [Next]_vars PROVE [CL!Next]_CL!logVars
<1>1. ASSUME NEW w \in Batches, Begin(w) PROVE [CL!Next]_CL!logVars
  <2>1. PICK o \in Objects : TRUE
    BY NamesApart
  <2> QED BY <1>1, <2>1, QuietSteps
<1>2. ASSUME NEW o \in Objects, AppendSidecar(o) \/ FlushSidecar(o) \/ Reclaim(o) PROVE [CL!Next]_CL!logVars
  BY <1>2, QuietSteps
<1>3. ASSUME NEW o \in Objects, Tidy(o) PROVE [CL!Next]_CL!logVars
  BY <1>3, TidyOpens
<1>4. CASE AppendMarker
  BY <1>4, MarkerAdmits
<1>5. CASE Apply
  BY <1>5, ApplyPublishes
<1>6. CASE CommitFails
  BY <1>6, CommitFailsOnce
<1>7. CASE Authorize \/ FlushFails \/ Close \/ Crash \/ Recover
  <2>1. PICK o \in Objects : TRUE
    BY NamesApart
  <2> QED BY <1>7, <2>1, QuietSteps
<1>8. CASE LosePower
  BY <1>8, LosePowerCuts
<1>9. CASE UNCHANGED vars
  <2>1. Markers' = Markers /\ ViewNow' = ViewNow /\ acked' = acked /\ losses' = losses
    BY <1>9 DEF vars, Markers, ViewNow
  <2> QED BY <2>1, Unseen
<1> QED BY <1>1, <1>2, <1>3, <1>4, <1>5, <1>6, <1>7, <1>8, <1>9 DEF Next

\* The files and the backend are one log of atomic commits: a batch enters it
\* with its marker, readers see the value of what is in it, and only a power
\* loss takes batches out of it, from its end.
THEOREM StorageIsALog == Spec => ImplementsCommitLog
<1>1. StorageInv /\ [Next]_vars => [CL!Next]_CL!logVars
  BY StepOfLog
<1> QED BY InitOfLog, StorageHolds, <1>1, PTL DEF Spec, ImplementsCommitLog, CL!Spec
=============================================================================
