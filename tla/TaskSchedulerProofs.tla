------------------------ MODULE TaskSchedulerProofs ------------------------
(***************************************************************************)
(* For any number of tasks, any ownership trees and any number of faults:  *)
(* receipts are final only over drained work, aborts run bottom-up, an     *)
(* orphaned outcome never holds, and no wakeup is lost.                    *)
(***************************************************************************)
EXTENDS TaskScheduler, WellFoundedInduction, TLAPS

----------------------------------------------------------------------------
(* Induction over task identifiers, and the walks up the ownership tree.   *)

\* A non-empty set of numbers has a least one.
LEMMA Least == ASSUME NEW S, S \subseteq Nat, S # {} PROVE \E x \in S : \A y \in S : x <= y
<1> DEFINE R == OpToRel(<, Nat)
<1>1. IsWellFoundedOn(R, Nat)
  BY NatLessThanWellFounded, Zenon
<1>2. \A x, y \in Nat : y < x => <<y, x>> \in R
  BY DEF OpToRel
<1> HIDE DEF R
<1>3. PICK x \in S : \A y \in S : ~ (<<y, x>> \in R)
  BY <1>1, WFMin
<1>4. \A y \in S : ~ (y < x)
  BY <1>2, <1>3
<1>5. \A y \in S : x <= y
  BY <1>4
<1> QED BY <1>5

\* Induction, for a set.
LEMMA NatSetInduction ==
  ASSUME NEW S, 0 \in S, \A n \in Nat : n \in S => n + 1 \in S PROVE Nat \subseteq S
<1> SUFFICES ASSUME ~(Nat \subseteq S) PROVE FALSE
  OBVIOUS
<1> DEFINE B == Nat \ S
<1>1. B \subseteq Nat /\ B # {}
  OBVIOUS
<1>2. PICK x \in B : \A y \in B : x <= y
  <2> HIDE DEF B
  <2> QED BY <1>1, Least
<1>3. x # 0 /\ x - 1 \in Nat /\ x - 1 \notin B
  BY <1>2
<1> QED BY <1>3, <1>2

LEMMA TasksAreNumbers == /\ Tasks \subseteq Nat /\ 0 \notin Tasks
                         /\ \A t \in Tasks : \A p \in 1..(t - 1) : p \in Tasks /\ p < t
BY SchedulerAssumption DEF Tasks

\* What holds for a task when it holds for all older ones holds for all.
LEMMA TaskInduction ==
  ASSUME NEW S, \A t \in Tasks : (\A p \in 1..(t - 1) : p \in S) => t \in S PROVE Tasks \subseteq S
<1> SUFFICES ASSUME ~(Tasks \subseteq S) PROVE FALSE
  OBVIOUS
<1> DEFINE B == Tasks \ S
<1>1. B \subseteq Nat /\ B # {}
  BY TasksAreNumbers
<1>2. PICK x \in B : \A y \in B : x <= y
  <2> HIDE DEF B
  <2> QED BY <1>1, Least
<1>3. \A p \in 1..(x - 1) : p \in S
  BY <1>2, TasksAreNumbers
<1> QED BY <1>3, <1>2

\* One step of a walk up, with what f says of the task above.
Walk(T, E, f, t) ==
  LET p == ParentOf(T, E, t)
  IN IF p \notin 1..(t - 1) THEN {} ELSE {p} \cup (IF T[p].background THEN {} ELSE f[p])

\* CountsFor is what its recursive definition says.
LEMMA CountsForDef ==
  ASSUME NEW T, NEW E
  PROVE CountsFor(T, E) = [t \in Tasks |-> Walk(T, E, CountsFor(T, E), t)]
<1> DEFINE Eq(f) == f = [t \in Tasks |-> Walk(T, E, f, t)]
           G == {n \in Nat : \E f : f = [t \in 1..n |-> Walk(T, E, f, t)]}
<1>1. Nat \subseteq G
  <2>1. 0 \in G
    <3> DEFINE f == [t \in 1..0 |-> {}]
    <3>1. f = [t \in 1..0 |-> Walk(T, E, f, t)]
      OBVIOUS
    <3> QED BY <3>1
  <2>2. ASSUME NEW n \in Nat, n \in G PROVE n + 1 \in G
    <3>1. PICK f : f = [t \in 1..n |-> Walk(T, E, f, t)]
      BY <2>2
    <3> DEFINE g == [t \in 1..(n + 1) |-> IF t \in 1..n THEN f[t] ELSE Walk(T, E, f, t)]
    <3>2. ASSUME NEW t \in 1..(n + 1) PROVE g[t] = Walk(T, E, g, t)
      <4>1. \A p \in 1..(t - 1) : p \in 1..n /\ p \in 1..(n + 1)
        OBVIOUS
      <4>2. \A p \in 1..(t - 1) : g[p] = f[p]
        BY <4>1
      <4>3. Walk(T, E, g, t) = Walk(T, E, f, t)
        <5> HIDE DEF g
        <5> QED BY <4>2 DEF Walk
      <4>4. g[t] = Walk(T, E, f, t)
        BY <3>1
      <4> QED BY <4>3, <4>4
    <3>3. g = [t \in 1..(n + 1) |-> Walk(T, E, g, t)]
      BY <3>2
    <3> HIDE DEF g
    <3> QED BY <3>3
  <2> HIDE DEF G
  <2> QED BY <2>1, <2>2, NatSetInduction
<1>2. \E f : Eq(f)
  BY <1>1, SchedulerAssumption DEF Tasks
<1>3. Eq(CHOOSE f : Eq(f))
  <2> HIDE DEF Eq
  <2> QED BY <1>2
<1>4. CountsFor(T, E) = CHOOSE f : Eq(f)
  BY DEF CountsFor, Walk
<1> QED BY <1>3, <1>4

\* #ownedLive only finds younger tasks.
LEMMA OwnersAreOlder ==
  ASSUME NEW T, NEW E, NEW t \in Tasks PROVE CountsFor(T, E)[t] \subseteq 1..(t - 1)
<1> DEFINE S == {u \in Tasks : CountsFor(T, E)[u] \subseteq 1..(u - 1)}
<1>1. ASSUME NEW u \in Tasks, \A p \in 1..(u - 1) : p \in S PROVE u \in S
  <2>1. CountsFor(T, E)[u] = Walk(T, E, CountsFor(T, E), u)
    BY CountsForDef
  <2>2. ASSUME ParentOf(T, E, u) \in 1..(u - 1) PROVE CountsFor(T, E)[ParentOf(T, E, u)] \subseteq 1..(u - 1)
    BY <1>1, <2>2, TasksAreNumbers
  <2>3. Walk(T, E, CountsFor(T, E), u) \subseteq 1..(u - 1)
    BY <2>2 DEF Walk
  <2> QED BY <2>1, <2>3
<1>2. Tasks \subseteq S
  <2> HIDE DEF S
  <2> QED BY <1>1, TaskInduction
<1> QED BY <1>2

\* One step of the walk of #belowCancelled.
WalkCancelled(T, E, f, t) ==
  LET p == ParentOf(T, E, t)
  IN p \in 1..(t - 1) /\ (CancellationIntent(T[p]) \/ (~T[p].background /\ f[p]))

\* BelowCancelled is what its recursive definition says.
LEMMA BelowCancelledDef ==
  ASSUME NEW T, NEW E, NEW t \in Tasks
  PROVE BelowCancelled(T, E, t) <=>
          LET p == ParentOf(T, E, t)
          IN p \in 1..(t - 1) /\ (CancellationIntent(T[p]) \/ (~T[p].background /\ BelowCancelled(T, E, p)))
<1> DEFINE Eq(f) == f = [u \in Tasks |-> WalkCancelled(T, E, f, u)]
           G == {n \in Nat : \E f : f = [u \in 1..n |-> WalkCancelled(T, E, f, u)]}
<1>1. Nat \subseteq G
  <2>1. 0 \in G
    <3> DEFINE f == [u \in 1..0 |-> {}]
    <3>1. f = [u \in 1..0 |-> WalkCancelled(T, E, f, u)]
      OBVIOUS
    <3> QED BY <3>1
  <2>2. ASSUME NEW n \in Nat, n \in G PROVE n + 1 \in G
    <3>1. PICK f : f = [u \in 1..n |-> WalkCancelled(T, E, f, u)]
      BY <2>2
    <3> DEFINE g == [u \in 1..(n + 1) |-> IF u \in 1..n THEN f[u] ELSE WalkCancelled(T, E, f, u)]
    <3>2. ASSUME NEW u \in 1..(n + 1) PROVE g[u] = WalkCancelled(T, E, g, u)
      <4>1. \A p \in 1..(u - 1) : p \in 1..n /\ p \in 1..(n + 1)
        OBVIOUS
      <4>2. \A p \in 1..(u - 1) : g[p] = f[p]
        BY <4>1
      <4>3. WalkCancelled(T, E, g, u) = WalkCancelled(T, E, f, u)
        <5> HIDE DEF g
        <5> QED BY <4>2 DEF WalkCancelled
      <4>4. g[u] = WalkCancelled(T, E, f, u)
        BY <3>1
      <4> QED BY <4>3, <4>4
    <3>3. g = [u \in 1..(n + 1) |-> WalkCancelled(T, E, g, u)]
      BY <3>2
    <3> HIDE DEF g
    <3> QED BY <3>3
  <2> HIDE DEF G
  <2> QED BY <2>1, <2>2, NatSetInduction
<1>2. \E f : Eq(f)
  BY <1>1, SchedulerAssumption DEF Tasks
<1> DEFINE below == CHOOSE f : Eq(f)
<1>3. Eq(below)
  <2> HIDE DEF Eq
  <2> QED BY <1>2
<1>4. \A u : BelowCancelled(T, E, u) = below[u]
  BY DEF BelowCancelled, WalkCancelled
<1>5. below[t] = WalkCancelled(T, E, below, t)
  BY <1>3
<1> HIDE DEF below
<1>6. WalkCancelled(T, E, below, t) <=>
        LET p == ParentOf(T, E, t)
        IN p \in 1..(t - 1) /\ (CancellationIntent(T[p]) \/ (~T[p].background /\ below[p]))
  BY DEF WalkCancelled
<1>7. BelowCancelled(T, E, t) <=> WalkCancelled(T, E, below, t)
  BY <1>4, <1>5
<1> QED BY <1>4, <1>6, <1>7

\* #finalize makes final a largest set of held tasks: each has all its live
\* ordinary owned work in the set.
LEMMA FinalizeDef ==
  ASSUME NEW T, NEW E
  PROVE \E F \in SUBSET Tasks :
          /\ \A t \in Tasks : t \in F <=> T[t].status = "completing" /\ OwnedLive(T, E, t) \subseteq F
          /\ Finalize(T, E) = [t \in Tasks |-> IF t \in F THEN [T[t] EXCEPT !.status = "terminal"] ELSE T[t]]
<1> DEFINE Step(f, t) == T[t].status = "completing" /\ \A u \in OwnedLive(T, E, t) : f[u]
           Eq(f) == f = [t \in Tasks |-> Step(f, t)]
           ClosedUnder(S) == \A s \in S : T[s].status = "completing" /\ OwnedLive(T, E, s) \subseteq S
           G == UNION {S \in SUBSET Tasks : ClosedUnder(S)}
           g == [t \in Tasks |-> t \in G]
<1>1. \A t \in Tasks : OwnedLive(T, E, t) \subseteq Tasks
  BY DEF OwnedLive
<1>2. G \in SUBSET Tasks /\ ClosedUnder(G)
  OBVIOUS
<1>3. \A t \in Tasks : t \in G <=> T[t].status = "completing" /\ OwnedLive(T, E, t) \subseteq G
  <2>1. ASSUME NEW t \in Tasks, T[t].status = "completing", OwnedLive(T, E, t) \subseteq G PROVE t \in G
    <3> HIDE DEF G
    <3>1. ClosedUnder(G \cup {t}) /\ G \cup {t} \in SUBSET Tasks
      BY <1>2, <2>1
    <3>2. G \cup {t} \subseteq G
      BY <3>1 DEF G
    <3> QED BY <3>2
  <2> QED BY <1>2, <2>1
<1> HIDE DEF G
<1>4. Eq(g)
  <2>1. \A t \in Tasks : Step(g, t) <=> (T[t].status = "completing" /\ OwnedLive(T, E, t) \subseteq G)
    BY <1>1
  <2>2. \A t \in Tasks : (t \in G) = Step(g, t)
    <3> HIDE DEF g
    <3> QED BY <2>1, <1>3
  <2> QED BY <2>2
<1> HIDE DEF g
<1> DEFINE f == CHOOSE h : Eq(h)
           F == {t \in Tasks : f[t]}
<1>5. Eq(f)
  <2> HIDE DEF Eq
  <2> QED BY <1>4
<1>6. Finalize(T, E) = [t \in Tasks |-> IF f[t] THEN [T[t] EXCEPT !.status = "terminal"] ELSE T[t]]
  BY DEF Finalize
<1> HIDE DEF f
<1>7. \A t \in Tasks : f[t] = Step(f, t)
  BY <1>5
<1>8. \A t \in Tasks : t \in F <=> T[t].status = "completing" /\ OwnedLive(T, E, t) \subseteq F
  BY <1>7, <1>1
<1>9. Finalize(T, E) = [t \in Tasks |-> IF t \in F THEN [T[t] EXCEPT !.status = "terminal"] ELSE T[t]]
  BY <1>6
<1> HIDE DEF F
<1>10. F \in SUBSET Tasks
  BY DEF F
<1> QED BY <1>8, <1>9, <1>10

----------------------------------------------------------------------------
(* What the commit listener leaves scheduled.                              *)

SchedOK(s) == s \in Scheduled /\ Len(s.passes) <= 2

Changed(T) == {t \in Tasks : T[t] # tasks[t]}
EndedBy(T) == {t \in Changed(T) : T[t].status = "terminal"}
HeldBy(T) == {t \in Changed(T) : IsLive(T, t) /\ T[t].status = "completing" /\ tasks[t].status # "completing"}
MarkedBy(T) == {t \in Changed(T) : IsLive(T, t) /\ T[t].mark /\ ~tasks[t].mark}
FailedBy(T) == {t \in Changed(T) : FailedOutcome(T[t]) /\ ~FailedOutcome(tasks[t])}
WaitsBy(T) == {t \in Changed(T) : /\ IsLive(T, t)
                                  /\ T[t].status = "waiting" /\ T[t].policy = "failFast"
                                  /\ tasks[t].status # "waiting"}
AffectedBy(T) == {t \in Tasks : /\ T[t].status = "waiting" /\ T[t].policy = "failFast"
                                /\ T[t].on \cap FailedBy(T) # {}}
UnmarkedBy(T, E) ==
  {t \in Changed(T) : IsLive(T, t) /\ ~T[t].background /\ ~T[t].mark /\ BelowCancelled(T, E, t)}
Needed(s, T, E) ==
  s.retry \/ EndedBy(T) \cup HeldBy(T) \cup MarkedBy(T) \cup WaitsBy(T) \cup AffectedBy(T) \cup UnmarkedBy(T, E) # {}

LEMMA ObservedDef ==
  ASSUME NEW s, NEW T, NEW E
  PROVE Observed(s, T, E) =
          LET s1 == IF Needed(s, T, E)
                    THEN ScheduleReconcile(s, (s.checks \ EndedBy(T)) \cup WaitsBy(T) \cup AffectedBy(T))
                    ELSE s
          IN IF Changed(T) = {} THEN s1 ELSE Kick(s1)
<1>1. /\ EndedBy(T) = {t \in {t \in Tasks : T[t] # tasks[t]} : T[t].status = "terminal"}
      /\ Changed(T) = {t \in Tasks : T[t] # tasks[t]}
  BY DEF EndedBy, Changed
<1> DEFINE updated == {t \in {t \in Tasks : T[t] # tasks[t]} : IsLive(T, t)}
<1>2. /\ HeldBy(T) = {t \in updated : T[t].status = "completing" /\ tasks[t].status # "completing"}
      /\ MarkedBy(T) = {t \in updated : T[t].mark /\ ~tasks[t].mark}
      /\ WaitsBy(T) = {t \in updated : /\ T[t].status = "waiting" /\ T[t].policy = "failFast"
                                       /\ tasks[t].status # "waiting"}
      /\ UnmarkedBy(T, E) = {t \in updated : ~T[t].background /\ ~T[t].mark /\ BelowCancelled(T, E, t)}
  BY DEF HeldBy, MarkedBy, WaitsBy, UnmarkedBy, Changed
<1>3. AffectedBy(T) = {t \in Tasks : /\ T[t].status = "waiting" /\ T[t].policy = "failFast"
                                     /\ T[t].on \cap {u \in {u \in Tasks : T[u] # tasks[u]} :
                                           FailedOutcome(T[u]) /\ ~FailedOutcome(tasks[u])} # {}}
  BY DEF AffectedBy, FailedBy, Changed
<1> QED BY <1>1, <1>2, <1>3 DEF Observed, Needed

\* The waits that some scheduled pass will check.
Pending(s) == {w \in Tasks : w \in s.checks \/ \E i \in 1..Len(s.passes) : w \in s.passes[i]}

LEMMA KickFacts ==
  ASSUME NEW s, SchedOK(s)
  PROVE /\ SchedOK(Kick(s))
        /\ Kick(s).passes = s.passes /\ Kick(s).retry = s.retry /\ Kick(s).checks = s.checks
        /\ Kick(s).enabled = s.enabled /\ Kick(s).closing = s.closing
        /\ s.enabled /\ ~s.closing => Kick(s).drain # "idle"
        /\ Pending(Kick(s)) = Pending(s)
<1>1. SchedOK(Kick(s))
  BY DEF SchedOK, Scheduled, Kick
<1>2. /\ Kick(s).passes = s.passes /\ Kick(s).retry = s.retry /\ Kick(s).checks = s.checks
      /\ Kick(s).enabled = s.enabled /\ Kick(s).closing = s.closing
      /\ s.enabled /\ ~s.closing => Kick(s).drain # "idle"
  BY DEF SchedOK, Scheduled, Kick
<1> QED BY <1>1, <1>2 DEF Pending

LEMMA QueuePass ==
  ASSUME NEW q \in Seq(SUBSET Tasks), Len(q) <= 2, NEW c \in SUBSET Tasks,
         NEW r, r = IF Len(q) < 2 THEN Append(q, c) ELSE <<q[1], q[2] \cup c>>
  PROVE /\ r \in Seq(SUBSET Tasks) /\ Len(r) <= 2 /\ r # <<>>
        /\ \A w : (\E i \in 1..Len(r) : w \in r[i]) <=> w \in c \/ \E i \in 1..Len(q) : w \in q[i]
<1>1. Len(q) \in Nat
  OBVIOUS
<1>2. CASE Len(q) < 2
  <2>1. r = Append(q, c)
    BY <1>2
  <2>2. r \in Seq(SUBSET Tasks) /\ Len(r) = Len(q) + 1
    BY <2>1
  <2>3. r[Len(q) + 1] = c /\ \A i \in 1..Len(q) : r[i] = q[i]
    BY <2>1
  <2>4. r # <<>>
    BY <2>2, <1>1
  <2>5. 1..Len(r) = 1..Len(q) \cup {Len(q) + 1}
    BY <2>2, <1>1
  <2> QED BY <1>1, <1>2, <2>2, <2>3, <2>4, <2>5
<1>3. CASE ~(Len(q) < 2)
  <2>1. Len(q) = 2 /\ q[1] \in SUBSET Tasks /\ q[2] \in SUBSET Tasks
    BY <1>1, <1>3
  <2>2. r = <<q[1], q[2] \cup c>> /\ q[2] \cup c \in SUBSET Tasks
    BY <1>3, <2>1
  <2>3. r \in Seq(SUBSET Tasks) /\ Len(r) = 2 /\ r # <<>> /\ r[1] = q[1] /\ r[2] = q[2] \cup c
    BY <2>1, <2>2
  <2>4. 1..2 = {1, 2}
    OBVIOUS
  <2> QED BY <2>1, <2>3, <2>4
<1> QED BY <1>2, <1>3

LEMMA ScheduleReconcileFacts ==
  ASSUME NEW s, SchedOK(s), NEW checks \in SUBSET Tasks
  PROVE LET o == ScheduleReconcile(s, checks)
        IN /\ SchedOK(o) /\ o.enabled = s.enabled /\ o.closing = s.closing
           /\ o.drain = s.drain /\ o.missed = s.missed
           /\ s.closing => o = s
           /\ ~s.closing => /\ o.passes # <<>> /\ ~o.retry /\ o.checks = {}
                            /\ \A w \in Tasks : w \in Pending(o) <=>
                                 w \in checks \/ \E i \in 1..Len(s.passes) : w \in s.passes[i]
<1> DEFINE o == ScheduleReconcile(s, checks)
<1>1. CASE s.closing
  BY <1>1 DEF ScheduleReconcile
<1>2. CASE ~s.closing
  <2> DEFINE ps == IF Len(s.passes) < 2 THEN Append(s.passes, checks) ELSE <<s.passes[1], s.passes[2] \cup checks>>
  <2>1. o = [s EXCEPT !.passes = ps, !.checks = {}, !.retry = FALSE]
    BY <1>2 DEF ScheduleReconcile, SchedOK, Scheduled
  <2>2. s.passes \in Seq(SUBSET Tasks) /\ Len(s.passes) <= 2
    BY DEF SchedOK, Scheduled
  <2>3. /\ ps \in Seq(SUBSET Tasks) /\ Len(ps) <= 2 /\ ps # <<>>
        /\ \A w : (\E i \in 1..Len(ps) : w \in ps[i]) <=> w \in checks \/ \E i \in 1..Len(s.passes) : w \in s.passes[i]
    <3>1. ps = IF Len(s.passes) < 2 THEN Append(s.passes, checks) ELSE <<s.passes[1], s.passes[2] \cup checks>>
      OBVIOUS
    <3> HIDE DEF o, ps
    <3> QED BY <2>2, <3>1, QueuePass
  <2> HIDE DEF ps
  <2>5. /\ o.passes = ps /\ ~o.retry /\ o.checks = {} /\ o.enabled = s.enabled /\ o.closing = s.closing
        /\ o.drain = s.drain /\ o.missed = s.missed /\ o \in Scheduled
    BY <2>1, <2>3 DEF SchedOK, Scheduled
  <2> HIDE DEF o
  <2>6. \A w \in Tasks : w \in Pending(o) <=> \E i \in 1..Len(ps) : w \in ps[i]
    BY <2>5 DEF Pending
  <2>7. SchedOK(o)
    <3>1. Len(o.passes) <= 2
      BY <2>3, <2>5
    <3> QED BY <3>1, <2>5 DEF SchedOK
  <2>8. \A w \in Tasks : w \in Pending(o) <=> w \in checks \/ \E i \in 1..Len(s.passes) : w \in s.passes[i]
    BY <2>3, <2>6
  <2>9. o.passes # <<>>
    BY <2>3, <2>5
  <2> QED BY <1>2, <2>5, <2>7, <2>8, <2>9 DEF o
<1> QED BY <1>1, <1>2 DEF SchedOK, Scheduled

\* What #observe leaves scheduled, whatever the commit wrote.
LEMMA ObservedFacts ==
  ASSUME NEW s, SchedOK(s), NEW T, NEW E
  PROVE LET o == Observed(s, T, E)
        IN /\ SchedOK(o) /\ o.enabled = s.enabled /\ o.closing = s.closing
           /\ ~s.closing /\ Needed(s, T, E) =>
                /\ o.passes # <<>> /\ ~o.retry /\ o.checks = {}
                /\ \A w \in Tasks : w \in Pending(o) <=>
                     \/ w \in (s.checks \ EndedBy(T)) \cup WaitsBy(T) \cup AffectedBy(T)
                     \/ \E i \in 1..Len(s.passes) : w \in s.passes[i]
           /\ ~Needed(s, T, E) =>
                /\ o.passes = s.passes /\ o.retry = s.retry /\ o.checks = s.checks
                /\ Pending(o) = Pending(s)
           /\ Changed(T) = {} => o.drain = s.drain /\ o.missed = s.missed
           /\ Changed(T) # {} /\ s.enabled /\ ~s.closing => o.drain # "idle"
<1> DEFINE checks == (s.checks \ EndedBy(T)) \cup WaitsBy(T) \cup AffectedBy(T)
           s1 == IF Needed(s, T, E) THEN ScheduleReconcile(s, checks) ELSE s
<1>1. checks \in SUBSET Tasks
  BY DEF SchedOK, Scheduled, WaitsBy, AffectedBy, Changed
<1>2. Observed(s, T, E) = IF Changed(T) = {} THEN s1 ELSE Kick(s1)
  BY ObservedDef
<1>3. LET o == ScheduleReconcile(s, checks)
      IN /\ SchedOK(o) /\ o.enabled = s.enabled /\ o.closing = s.closing
         /\ o.drain = s.drain /\ o.missed = s.missed
         /\ ~s.closing => /\ o.passes # <<>> /\ ~o.retry /\ o.checks = {}
                          /\ \A w \in Tasks : w \in Pending(o) <=>
                               w \in checks \/ \E i \in 1..Len(s.passes) : w \in s.passes[i]
  <2> HIDE DEF checks
  <2> QED BY <1>1, ScheduleReconcileFacts
<1>4. SchedOK(s1)
  BY <1>3
<1>5. LET o == Kick(s1)
      IN /\ SchedOK(o)
         /\ o.passes = s1.passes /\ o.retry = s1.retry /\ o.checks = s1.checks
         /\ o.enabled = s1.enabled /\ o.closing = s1.closing
         /\ s1.enabled /\ ~s1.closing => o.drain # "idle"
         /\ Pending(o) = Pending(s1)
  <2> HIDE DEF s1
  <2> QED BY <1>4, KickFacts
<1>6. CASE Needed(s, T, E)
  <2>1. s1 = ScheduleReconcile(s, checks)
    BY <1>6
  <2> HIDE DEF s1
  <2> QED BY <1>2, <1>3, <1>5, <1>6, <2>1
<1>7. CASE ~Needed(s, T, E)
  <2>1. s1 = s
    BY <1>7
  <2> HIDE DEF s1
  <2> QED BY <1>2, <1>5, <1>7, <2>1
<1> QED BY <1>6, <1>7

----------------------------------------------------------------------------
(* Records only move forward.                                              *)

\* What no commit takes back of a task's record r when it writes q.
Forward(t, r, q) ==
  /\ r.status = "absent" => q \in {r, NewTask(t)}
  /\ r.status # "absent" => /\ q.status # "absent"
                            /\ q.owner = r.owner /\ q.conv = r.conv /\ q.background = r.background
  /\ r.mark => q.mark
  /\ r.status = "terminal" => q = r
  /\ r.status = "completing" => q.status \in {"completing", "terminal"} /\ q.outcome = r.outcome
  /\ r.status = "waiting" /\ q.status = "waiting" => q.on = r.on /\ q.policy = r.policy

\* A record's ownership is written once, marks stay, a receipt is final, an
\* outcome that holds is the outcome of the receipt, and a conversation keeps
\* its owner.
Evolves(T, E) ==
  /\ \A t \in Tasks : Forward(t, tasks[t], T[t])
  /\ \A c \in Convs : edges[c] >= 0 => E[c] = edges[c]

\* Every owner task exists, and work is only in conversations that exist.
ShapeOf(T, E) ==
  /\ E[Root] = 0
  /\ \A t \in Tasks : T[t].status = "absent" => T[t] = Absent
  /\ \A t \in Tasks : T[t].owner # 0 => T[T[t].owner].status # "absent"
  /\ \A t \in Tasks : T[t].owner = 0 => E[T[t].conv] >= 0
  /\ \A c \in Convs : E[c] > 0 => T[E[c]].status # "absent"
  /\ \A t \in Tasks : T[t].status = "waiting" => \A u \in T[t].on : T[u].status # "absent"

Shape == ShapeOf(tasks, edges)

\* What a commit of the records T and E checks of the work, the conversations
\* and the waits it adds.
Admitted(T, E) ==
  /\ \A t \in Tasks : tasks[t].status = "absent" /\ T[t].status # "absent" =>
       IF home[t].owner # 0 THEN tasks[home[t].owner].status # "absent" ELSE edges[home[t].conv] >= 0
  /\ \A c \in Convs : E[c] # edges[c] => E[c] > 0 /\ tasks[E[c]].status # "absent"
  /\ \A t \in Tasks : T[t].status = "waiting" /\ tasks[t].status # "waiting" =>
       \A u \in T[t].on : tasks[u].status # "absent"

Records(T, E) == T \in [Tasks -> TaskRecord] /\ E \in [Convs -> Edges]

LEMMA NewTaskTyped ==
  ASSUME TypeOK, NEW t \in Tasks
  PROVE /\ NewTask(t) \in TaskRecord /\ NewTask(t).owner < t
        /\ NewTask(t).status = "pending" /\ ~NewTask(t).mark /\ NewTask(t).owner = home[t].owner
        /\ NewTask(t).conv = home[t].conv /\ NewTask(t).on = {} /\ NewTask(t).policy = "none"
        /\ NewTask(t).outcome = "none" /\ NewTask(t).background = home[t].background
<1>1. /\ home[t] \in [owner: 0..N, conv: Convs, background: BOOLEAN] /\ home[t].owner < t
  BY SchedulerAssumption DEF TypeOK, Tasks
<1>2. Absent \in TaskRecord
  BY SchedulerAssumption DEF Absent, TaskRecord, Statuses, Outcomes, Policies
<1>3. /\ Absent.mark = FALSE /\ Absent.on = {} /\ Absent.policy = "none" /\ Absent.outcome = "none"
  BY DEF Absent
<1>4. NewTask(t) \in TaskRecord
  BY <1>1, <1>2 DEF NewTask, TaskRecord, Statuses, Live
<1>5. /\ NewTask(t).status = "pending" /\ NewTask(t).owner = home[t].owner
      /\ NewTask(t).conv = home[t].conv /\ NewTask(t).background = home[t].background
      /\ NewTask(t).mark = Absent.mark /\ NewTask(t).on = Absent.on
      /\ NewTask(t).policy = Absent.policy /\ NewTask(t).outcome = Absent.outcome
  BY <1>2 DEF NewTask, TaskRecord
<1> QED BY <1>1, <1>3, <1>4, <1>5

\* A commit that passes the checks keeps the tree whole.
LEMMA RecordStep ==
  ASSUME TypeOK, Shape, NEW T, NEW E, Records(T, E), Evolves(T, E), Admitted(T, E)
  PROVE ShapeOf(T, E) /\ \A t \in Tasks : T[t].owner < t
<1>1. \A t \in Tasks : T[t].status = "absent" => tasks[t].status = "absent" /\ T[t] = Absent
  BY NewTaskTyped DEF Evolves, Forward, Shape, ShapeOf
<1>2. \A t \in Tasks : tasks[t].status = "absent" => T[t] = Absent \/ T[t] = NewTask(t)
  BY DEF Evolves, Forward, Shape, ShapeOf
<1>3. \A t \in Tasks : tasks[t].status # "absent" => T[t].status # "absent"
  BY DEF Evolves, Forward
<1>4. Absent.status = "absent" /\ Absent.owner = 0 /\ Absent.conv = Root
  BY DEF Absent
<1>5. E[Root] = 0
  BY SchedulerAssumption DEF Evolves, Shape, ShapeOf
<1>6. ASSUME NEW t \in Tasks PROVE T[t].owner < t /\ (T[t].owner # 0 => T[T[t].owner].status # "absent")
  <2>1. CASE tasks[t].status # "absent"
    <3>1. T[t].owner = tasks[t].owner /\ tasks[t].owner < t /\ tasks[t].owner \in 0..N
      BY <2>1 DEF Evolves, Forward, TypeOK, TaskRecord
    <3> QED BY <3>1, <1>3, SchedulerAssumption DEF Shape, ShapeOf, Tasks
  <2>2. CASE T[t] = Absent
    BY <2>2, <1>4, SchedulerAssumption DEF Tasks
  <2>3. CASE tasks[t].status = "absent" /\ T[t] = NewTask(t)
    <3>1. NewTask(t).owner < t /\ NewTask(t).owner = home[t].owner /\ NewTask(t).status = "pending"
          /\ NewTask(t).owner \in 0..N
      BY NewTaskTyped DEF TaskRecord
    <3> QED BY <2>3, <3>1, <1>3, SchedulerAssumption DEF Admitted, Tasks
  <2> QED BY <1>2, <2>1, <2>2, <2>3
<1>7. ASSUME NEW t \in Tasks, T[t].owner = 0 PROVE E[T[t].conv] >= 0
  <2>1. CASE tasks[t].status # "absent"
    BY <2>1, <1>7 DEF Evolves, Forward, Shape, ShapeOf, TypeOK, TaskRecord
  <2>2. CASE T[t] = Absent
    BY <2>2, <1>4, <1>5
  <2>3. CASE tasks[t].status = "absent" /\ T[t] = NewTask(t)
    <3>1. NewTask(t).owner = home[t].owner /\ NewTask(t).status = "pending"
          /\ NewTask(t).conv = home[t].conv /\ NewTask(t).conv \in Convs
      BY NewTaskTyped DEF TaskRecord
    <3> QED BY <1>7, <2>3, <3>1 DEF Admitted, Evolves
  <2> QED BY <1>2, <2>1, <2>2, <2>3
<1>8. ASSUME NEW c \in Convs, E[c] > 0 PROVE T[E[c]].status # "absent"
  <2>1. E[c] \in Tasks
    BY <1>8, SchedulerAssumption DEF Records, Edges, Tasks
  <2>2. tasks[E[c]].status # "absent"
    BY <1>8 DEF Admitted, Shape, ShapeOf
  <2> QED BY <1>3, <2>1, <2>2
<1>9. ASSUME NEW t \in Tasks, T[t].status = "waiting", NEW u \in T[t].on PROVE T[u].status # "absent"
  <2>1. u \in Tasks
    BY <1>9 DEF Records, TaskRecord
  <2>2. tasks[u].status # "absent"
    BY <1>9 DEF Admitted, Shape, ShapeOf, Evolves, Forward
  <2> QED BY <1>3, <2>1, <2>2
<1> QED BY <1>1, <1>5, <1>6, <1>7, <1>8, <1>9 DEF ShapeOf

\* The ways an operation rewrites one record of an unfinished task.
LEMMA RecordForward ==
  ASSUME NEW t \in Tasks, NEW r \in TaskRecord
  PROVE /\ Forward(t, r, r)
        /\ r.status \in Live => LET q == [r EXCEPT !.mark = TRUE]
                                IN /\ q \in TaskRecord /\ Forward(t, r, q) /\ q.status = r.status
                                   /\ q.outcome = r.outcome /\ q.on = r.on /\ q.mark /\ q.policy = r.policy
        /\ r.status \in {"pending", "running", "waiting"} => \A status \in {"pending", "running"} :
             LET q == Resumed(r, status)
             IN q \in TaskRecord /\ Forward(t, r, q) /\ q.status = status /\ q.outcome = r.outcome
        /\ r.status = "running" => LET q == [r EXCEPT !.status = "pending"]
                                   IN q \in TaskRecord /\ Forward(t, r, q) /\ q.status = "pending"
        /\ r.status = "completing" => LET q == [r EXCEPT !.status = "terminal"]
             IN q \in TaskRecord /\ Forward(t, r, q) /\ q.status = "terminal" /\ q.outcome = r.outcome
<1>1. Forward(t, r, r)
  BY DEF Forward
<1>2. ASSUME r.status \in Live
      PROVE LET q == [r EXCEPT !.mark = TRUE]
            IN /\ q \in TaskRecord /\ Forward(t, r, q) /\ q.status = r.status
               /\ q.outcome = r.outcome /\ q.on = r.on /\ q.mark /\ q.policy = r.policy
  BY <1>2 DEF Forward, TaskRecord, Live
<1>3. ASSUME r.status \in {"pending", "running", "waiting"}, NEW status \in {"pending", "running"}
      PROVE LET q == Resumed(r, status)
            IN q \in TaskRecord /\ Forward(t, r, q) /\ q.status = status /\ q.outcome = r.outcome
  BY <1>3 DEF Forward, TaskRecord, Resumed, Statuses, Live, Policies
<1>4. ASSUME r.status = "running"
      PROVE LET q == [r EXCEPT !.status = "pending"]
            IN q \in TaskRecord /\ Forward(t, r, q) /\ q.status = "pending"
  BY <1>4 DEF Forward, TaskRecord, Statuses, Live
<1>5. ASSUME r.status = "completing"
      PROVE LET q == [r EXCEPT !.status = "terminal"]
            IN q \in TaskRecord /\ Forward(t, r, q) /\ q.status = "terminal" /\ q.outcome = r.outcome
  BY <1>5 DEF Forward, TaskRecord, Statuses, Live
<1> QED BY <1>1, <1>2, <1>3, <1>4, <1>5

\* The record of an outcome, in records where its task is unfinished.
LEMMA OutcomeRecord ==
  ASSUME NEW T \in [Tasks -> TaskRecord], NEW E, NEW t \in Tasks, NEW o \in Outcomes,
         T[t].status \in {"pending", "running", "waiting"}
  PROVE LET W == WithOutcome(T, E, t, o)
        IN /\ W \in [Tasks -> TaskRecord] /\ Forward(t, T[t], W[t]) /\ W[t].outcome = o
           /\ W[t].status = IF OwnedLive(T, E, t) # {} THEN "completing" ELSE "terminal"
           /\ \A u \in Tasks \ {t} : W[u] = T[u]
<1> DEFINE status == IF OwnedLive(T, E, t) # {} THEN "completing" ELSE "terminal"
           q == [T[t] EXCEPT !.status = status, !.on = {}, !.policy = "none", !.outcome = o]
<1>1. status \in {"completing", "terminal"}
  OBVIOUS
<1>2. WithOutcome(T, E, t, o) = [T EXCEPT ![t] = q]
  BY DEF WithOutcome
<1>3. q \in TaskRecord /\ Forward(t, T[t], q) /\ q.status = status /\ q.outcome = o
  <2> HIDE DEF status
  <2>1. T[t] \in TaskRecord
    OBVIOUS
  <2> QED BY <1>1, <2>1 DEF Forward, TaskRecord, Statuses, Live, Policies
<1> HIDE DEF q
<1> QED BY <1>2, <1>3

\* A commit is typed and moves forward when the records it writes do.
LEMMA CommitStep ==
  ASSUME TypeOK, Shape, NEW s, SchedOK(s), NEW T, NEW E,
         Records(T, E), Evolves(T, E), Admitted(T, E), Commit(s, T, E)
  PROVE /\ tasks' = T /\ edges' = E /\ SchedOK(sched')
        /\ Evolves(tasks', edges') /\ Shape' /\ \A t \in Tasks : tasks'[t].owner < t
        /\ sched' = IF <<T, E>> = <<tasks, edges>> THEN s ELSE Observed(s, T, E)
<1>1. tasks' = T /\ edges' = E /\ sched' = IF <<T, E>> = <<tasks, edges>> THEN s ELSE Observed(s, T, E)
  BY DEF Commit
<1>2. SchedOK(sched')
  BY <1>1, ObservedFacts
<1>3. ShapeOf(T, E) /\ \A t \in Tasks : T[t].owner < t
  BY RecordStep
<1>4. Evolves(tasks', edges')
  BY <1>1
<1>5. Shape'
  BY <1>1, <1>3 DEF Shape
<1> QED BY <1>1, <1>2, <1>3, <1>4, <1>5

\* Rewriting records of tasks that exist.
LEMMA UpdateStep ==
  ASSUME TypeOK, NEW T \in [Tasks -> TaskRecord],
         \A t \in Tasks : /\ T[t] = tasks[t] \/ (tasks[t].status # "absent" /\ Forward(t, tasks[t], T[t]))
                          /\ T[t].status = "waiting" => T[t] = tasks[t] \/ tasks[t].status = "waiting" \/ \A u \in T[t].on : tasks[u].status # "absent"
  PROVE Records(T, edges) /\ Evolves(T, edges) /\ Admitted(T, edges)
<1>1. Records(T, edges)
  BY DEF Records, TypeOK
<1>2. Evolves(T, edges)
  <2>1. \A t \in Tasks : Forward(t, tasks[t], tasks[t])
    BY DEF Forward
  <2> QED BY <2>1 DEF Evolves
<1>3. Admitted(T, edges)
  BY DEF Admitted
<1> QED BY <1>1, <1>2, <1>3

----------------------------------------------------------------------------
(* The walks see the same owners before and after a commit.                *)

\* X is closed under owners, and its tasks have the same owners in both.
SameOwners(A, E, B, F, X) ==
  \A t \in X : /\ t \in Tasks
               /\ ParentOf(A, E, t) = ParentOf(B, F, t)
               /\ A[t].background = B[t].background
               /\ ParentOf(A, E, t) \in 1..(t - 1) => ParentOf(A, E, t) \in X

LEMMA CountsForKept ==
  ASSUME NEW A, NEW E, NEW B, NEW F, NEW X, SameOwners(A, E, B, F, X), NEW t \in X
  PROVE CountsFor(A, E)[t] = CountsFor(B, F)[t]
<1> DEFINE S == {u \in Tasks : u \in X => CountsFor(A, E)[u] = CountsFor(B, F)[u]}
<1>1. ASSUME NEW u \in Tasks, \A p \in 1..(u - 1) : p \in S PROVE u \in S
  <2> SUFFICES ASSUME u \in X PROVE CountsFor(A, E)[u] = CountsFor(B, F)[u]
    OBVIOUS
  <2>1. /\ CountsFor(A, E)[u] = Walk(A, E, CountsFor(A, E), u)
        /\ CountsFor(B, F)[u] = Walk(B, F, CountsFor(B, F), u)
    BY CountsForDef
  <2>2. ParentOf(A, E, u) = ParentOf(B, F, u)
    BY DEF SameOwners
  <2>3. ASSUME ParentOf(A, E, u) \in 1..(u - 1)
        PROVE LET p == ParentOf(A, E, u)
              IN A[p].background = B[p].background /\ CountsFor(A, E)[p] = CountsFor(B, F)[p]
    BY <1>1, <2>3 DEF SameOwners
  <2>4. Walk(A, E, CountsFor(A, E), u) = Walk(B, F, CountsFor(B, F), u)
    BY <2>2, <2>3 DEF Walk
  <2> QED BY <2>1, <2>4
<1>2. Tasks \subseteq S
  <2> HIDE DEF S
  <2> QED BY <1>1, TaskInduction
<1> QED BY <1>2 DEF SameOwners

Existing == {t \in Tasks : tasks[t].status # "absent"}

LEMMA ParentExists ==
  ASSUME TypeOK, Shape, NEW t \in Tasks, ParentOf(tasks, edges, t) # 0
  PROVE ParentOf(tasks, edges, t) \in Existing
<1>1. tasks[t].owner \in 0..N /\ tasks[t].conv \in Convs /\ edges[tasks[t].conv] \in Edges
  BY DEF TypeOK, TaskRecord
<1> QED BY <1>1, SchedulerAssumption DEF ParentOf, Shape, ShapeOf, Existing, Tasks, Edges

\* A commit leaves the owners of existing tasks alone.
LEMMA OwnersKept ==
  ASSUME TypeOK, Shape, NEW T, NEW E, Evolves(T, E)
  PROVE SameOwners(tasks, edges, T, E, Existing)
<1> SUFFICES ASSUME NEW t \in Existing
             PROVE /\ ParentOf(tasks, edges, t) = ParentOf(T, E, t)
                   /\ tasks[t].background = T[t].background
                   /\ ParentOf(tasks, edges, t) \in 1..(t - 1) => ParentOf(tasks, edges, t) \in Existing
  BY DEF SameOwners, Existing
<1>1. t \in Tasks /\ tasks[t].status # "absent"
  BY DEF Existing
<1>2. T[t].owner = tasks[t].owner /\ T[t].conv = tasks[t].conv /\ tasks[t].background = T[t].background
  BY <1>1 DEF Evolves, Forward
<1>3. tasks[t].owner = 0 => E[tasks[t].conv] = edges[tasks[t].conv]
  BY <1>1 DEF Evolves, Shape, ShapeOf, TypeOK, TaskRecord
<1>4. ParentOf(tasks, edges, t) = ParentOf(T, E, t)
  BY <1>2, <1>3 DEF ParentOf
<1>5. ParentOf(tasks, edges, t) \in 1..(t - 1) => ParentOf(tasks, edges, t) # 0
  BY <1>1, TasksAreNumbers
<1> QED BY <1>1, <1>2, <1>4, <1>5, ParentExists

\* Only existing tasks are counted, and only a commit that creates one adds work.
LEMMA OwnedLiveKept ==
  ASSUME TypeOK, Shape, NEW T, NEW E, Evolves(T, E), NEW t \in Tasks
  PROVE \A u \in Existing : u \in OwnedLive(T, E, t) <=>
          IsLive(T, u) /\ ~tasks[u].background /\ t \in CountsFor(tasks, edges)[u]
<1>1. \A u \in Existing : CountsFor(tasks, edges)[u] = CountsFor(T, E)[u] /\ tasks[u].background = T[u].background
  BY OwnersKept, CountsForKept DEF SameOwners
<1> QED BY <1>1 DEF OwnedLive, Existing

LEMMA NoNewWork ==
  ASSUME TypeOK, Shape, NEW T, Evolves(T, edges), \A u \in Tasks : tasks[u].status = "absent" => T[u] = tasks[u],
         NEW t \in Tasks
  PROVE OwnedLive(T, edges, t) \subseteq OwnedLive(tasks, edges, t)
<1> SUFFICES ASSUME NEW u \in OwnedLive(T, edges, t) PROVE u \in OwnedLive(tasks, edges, t)
  OBVIOUS
<1>1. u \in Tasks /\ IsLive(T, u)
  BY DEF OwnedLive
<1>2. tasks[u].status # "absent"
  BY <1>1 DEF IsLive, Live
<1>3. u \in Existing
  BY <1>1, <1>2 DEF Existing
<1>4. tasks[u].status # "terminal"
  BY <1>1 DEF Evolves, Forward, IsLive, Live
<1>5. IsLive(tasks, u)
  BY <1>1, <1>2, <1>4 DEF TypeOK, TaskRecord, Statuses, IsLive
<1> QED BY <1>1, <1>3, <1>5, OwnedLiveKept DEF OwnedLive

\* Rewriting what is not ownership only changes which work is live.
LEMMA SameTree ==
  ASSUME NEW A, NEW B, NEW E, NEW t \in Tasks,
         \A u \in Tasks : B[u].owner = A[u].owner /\ B[u].conv = A[u].conv /\ B[u].background = A[u].background
  PROVE \A u \in Tasks : IsLive(A, u) => (u \in OwnedLive(B, E, t) <=> IsLive(B, u) /\ u \in OwnedLive(A, E, t))
<1>1. SameOwners(A, E, B, E, Tasks)
  BY TasksAreNumbers DEF SameOwners, ParentOf
<1>2. \A u \in Tasks : CountsFor(A, E)[u] = CountsFor(B, E)[u]
  BY <1>1, CountsForKept
<1> QED BY <1>2 DEF OwnedLive

----------------------------------------------------------------------------
(* The records each operation commits.                                     *)

\* A receipt is written over drained work, and an orphaned outcome only as one.
Settles(T, E) ==
  \A t \in Tasks :
    /\ T[t].status = "terminal" /\ tasks[t].status # "terminal" => OwnedLive(T, E, t) = {}
    /\ T[t].status = "completing" /\ tasks[t].status # "completing" => T[t].outcome # "orphaned"

Writes(T, E) == Records(T, E) /\ Evolves(T, E) /\ Admitted(T, E) /\ Settles(T, E)

\* Rewriting records of existing tasks without an outcome.
LEMMA UpdateWrites ==
  ASSUME TypeOK, NEW T \in [Tasks -> TaskRecord],
         \A t \in Tasks : T[t] = tasks[t] \/ /\ tasks[t].status # "absent" /\ Forward(t, tasks[t], T[t])
                                             /\ T[t].status \notin {"completing", "terminal"} \/ T[t].status = tasks[t].status
                                             /\ \/ T[t].status # "waiting" \/ tasks[t].status = "waiting"
                                                \/ \A u \in T[t].on : tasks[u].status # "absent"
  PROVE Writes(T, edges)
<1>1. Records(T, edges) /\ Evolves(T, edges) /\ Admitted(T, edges)
  BY UpdateStep
<1>2. Settles(T, edges)
  BY DEF Settles
<1> QED BY <1>1, <1>2 DEF Writes

\* Writing the outcome of one unfinished task.
LEMMA OutcomeWrites ==
  ASSUME TypeOK, Shape, NEW t \in Tasks, NEW o \in Outcomes, tasks[t].status \in {"pending", "running", "waiting"},
         o = "orphaned" => OwnedLive(tasks, edges, t) = {}
  PROVE Writes(WithOutcome(tasks, edges, t, o), edges)
<1> DEFINE W == WithOutcome(tasks, edges, t, o)
<1>1. /\ W \in [Tasks -> TaskRecord] /\ Forward(t, tasks[t], W[t]) /\ W[t].outcome = o
      /\ W[t].status = IF OwnedLive(tasks, edges, t) # {} THEN "completing" ELSE "terminal"
      /\ \A u \in Tasks \ {t} : W[u] = tasks[u]
  BY OutcomeRecord DEF TypeOK
<1> HIDE DEF W
<1>2. Records(W, edges) /\ Evolves(W, edges) /\ Admitted(W, edges)
  BY <1>1, UpdateStep
<1>3. OwnedLive(W, edges, t) \subseteq OwnedLive(tasks, edges, t)
  BY <1>1, <1>2, NoNewWork
<1>4. Settles(W, edges)
  BY <1>1, <1>3 DEF Settles
<1> QED BY <1>2, <1>4 DEF Writes, W

\* Creating one task, in a conversation that exists or below an existing owner.
LEMMA CreateWrites ==
  ASSUME TypeOK, Shape, NEW u \in Tasks, tasks[u].status = "absent",
         IF home[u].owner # 0 THEN tasks[home[u].owner].status # "absent" ELSE edges[home[u].conv] >= 0
  PROVE Writes([tasks EXCEPT ![u] = NewTask(u)], edges)
<1> DEFINE T == [tasks EXCEPT ![u] = NewTask(u)]
<1>1. /\ NewTask(u) \in TaskRecord /\ NewTask(u).status = "pending" /\ ~NewTask(u).mark
  BY NewTaskTyped
<1>2. T \in [Tasks -> TaskRecord] /\ T[u] = NewTask(u) /\ \A t \in Tasks \ {u} : T[t] = tasks[t]
  BY <1>1 DEF TypeOK
<1> HIDE DEF T
<1>3. Records(T, edges)
  BY <1>2 DEF Records, TypeOK
<1>4. Evolves(T, edges)
  <2>1. \A t \in Tasks : Forward(t, tasks[t], tasks[t])
    BY DEF Forward
  <2>2. Forward(u, tasks[u], NewTask(u))
    <3>1. tasks[u] = Absent /\ ~Absent.mark
      BY DEF Shape, ShapeOf, Absent
    <3> QED BY <1>1, <3>1 DEF Forward
  <2> QED BY <2>1, <2>2, <1>2 DEF Evolves
<1>5. Admitted(T, edges)
  BY <1>1, <1>2 DEF Admitted
<1>6. Settles(T, edges)
  BY <1>1, <1>2 DEF Settles
<1> QED BY <1>3, <1>4, <1>5, <1>6 DEF Writes, T

\* Finishing a task in the commit that creates work below it.
LEMMA FinishWithWorkWrites ==
  ASSUME TypeOK, Shape, NEW t \in Tasks, NEW u \in Tasks, NEW c \in Convs, FinishWithWork(t, u, c)
  PROVE Writes(WithOutcome([tasks EXCEPT ![u] = NewTask(u)], edges, t, "completed"), edges)
<1> DEFINE T == [tasks EXCEPT ![u] = NewTask(u)]
           W == WithOutcome(T, edges, t, "completed")
<1>1. /\ tasks[u].status = "absent" /\ tasks[t].status = "running" /\ t # u
      /\ home[u].owner = 0 /\ edges[home[u].conv] >= 0
  BY TasksAreNumbers DEF FinishWithWork, Gated, Fresh
<1>2. Writes(T, edges)
  BY <1>1, CreateWrites
<1>3. T \in [Tasks -> TaskRecord] /\ T[u] = NewTask(u) /\ \A v \in Tasks \ {u} : T[v] = tasks[v]
  BY <1>2 DEF Writes, Records, TypeOK
<1> HIDE DEF T
<1>4. /\ W \in [Tasks -> TaskRecord] /\ Forward(t, tasks[t], W[t])
      /\ W[t].status = IF OwnedLive(T, edges, t) # {} THEN "completing" ELSE "terminal"
      /\ W[t].outcome = "completed"
      /\ \A v \in Tasks \ {t} : W[v] = T[v]
  <2>1. T[t] = tasks[t] /\ "completed" \in Outcomes
    BY <1>1, <1>3 DEF Outcomes
  <2> QED BY <1>1, <1>3, <2>1, OutcomeRecord
<1> HIDE DEF W
<1>5. Records(W, edges)
  BY <1>4 DEF Records, TypeOK
<1>6. Evolves(W, edges)
  BY <1>2, <1>4 DEF Writes, Evolves
<1>7. Admitted(W, edges)
  BY <1>1, <1>2, <1>4 DEF Writes, Admitted
<1>8. ASSUME W[t].status = "terminal" PROVE OwnedLive(W, edges, t) = {}
  <2>1. OwnedLive(T, edges, t) = {}
    BY <1>4, <1>8
  <2>2. \A v \in Tasks : W[v].owner = T[v].owner /\ W[v].conv = T[v].conv /\ W[v].background = T[v].background
    BY <1>1, <1>3, <1>4 DEF Forward
  <2>3. \A v \in Tasks : IsLive(W, v) => IsLive(T, v)
    BY <1>4, <1>8 DEF IsLive, Live
  <2>4. \A v \in OwnedLive(W, edges, t) : v \in Tasks /\ IsLive(W, v)
    BY DEF OwnedLive
  <2> QED BY <2>1, <2>2, <2>3, <2>4, SameTree
<1>9. Settles(W, edges)
  <2>1. NewTask(u).status = "pending"
    BY NewTaskTyped
  <2> QED BY <1>3, <1>4, <1>8, <2>1 DEF Settles
<1> QED BY <1>5, <1>6, <1>7, <1>9 DEF Writes, W, T

\* Reopening: running tasks are pending again.
LEMMA OpenWrites == ASSUME TypeOK, OpenHarness PROVE Writes(tasks', edges)
<1>1. ASSUME NEW t \in Tasks
      PROVE tasks'[t] = IF tasks[t].status = "running" THEN Resumed(tasks[t], "pending") ELSE tasks[t]
  BY DEF OpenHarness
<1>2. ASSUME NEW t \in Tasks, tasks[t].status = "running"
      PROVE /\ Resumed(tasks[t], "pending") \in TaskRecord /\ Forward(t, tasks[t], Resumed(tasks[t], "pending"))
            /\ Resumed(tasks[t], "pending").status = "pending"
  <2>1. tasks[t] \in TaskRecord
    BY DEF TypeOK
  <2> QED BY <1>2, <2>1, RecordForward
<1>3. tasks' \in [Tasks -> TaskRecord]
  BY <1>1, <1>2 DEF OpenHarness, TypeOK
<1> QED BY <1>1, <1>2, <1>3, UpdateWrites

\* abort(id).
LEMMA AbortWrites ==
  ASSUME TypeOK, Shape, NEW t \in Tasks, Abort(t)
  PROVE \E T : Writes(T, edges) /\ Commit(sched, T, edges)
<1> DEFINE M == [tasks EXCEPT ![t].mark = TRUE]
           blocked == /\ inv[t] = NoInv /\ tasks[t].status # "completing"
                      /\ OwnedLive(tasks, edges, t) = {}
                      /\ registry = 0
<1>1. CASE blocked
  <2>1. tasks[t].status \in {"pending", "running", "waiting"} /\ "orphaned" \in Outcomes
    BY <1>1 DEF Abort, IsLive, Live, Outcomes
  <2>2. Writes(WithOutcome(tasks, edges, t, "orphaned"), edges)
    BY <1>1, <2>1, OutcomeWrites
  <2> QED BY <1>1, <2>2 DEF Abort
<1>2. CASE ~blocked
  <2>1. tasks[t] \in TaskRecord /\ tasks[t].status \in Live
    BY DEF TypeOK, Abort, IsLive
  <2>2. M = [tasks EXCEPT ![t] = [tasks[t] EXCEPT !.mark = TRUE]]
    BY DEF TypeOK
  <2>3. LET q == [tasks[t] EXCEPT !.mark = TRUE]
        IN q \in TaskRecord /\ Forward(t, tasks[t], q) /\ q.status = tasks[t].status
    BY <2>1, RecordForward
  <2>4. tasks[t].status # "absent"
    BY <2>1 DEF Live
  <2>5. Writes(M, edges)
    <3>1. M \in [Tasks -> TaskRecord] /\ M[t] = [tasks[t] EXCEPT !.mark = TRUE] /\ \A u \in Tasks \ {t} : M[u] = tasks[u]
      BY <2>2, <2>3 DEF TypeOK
    <3> HIDE DEF M
    <3> QED BY <3>1, <2>3, <2>4, UpdateWrites
  <2> QED BY <1>2, <2>5 DEF Abort
<1> QED BY <1>1, <1>2

\* Setting marks on live tasks.
Marked(S) == [t \in Tasks |-> IF t \in S THEN [tasks[t] EXCEPT !.mark = TRUE] ELSE tasks[t]]

LEMMA MarkWrites ==
  ASSUME TypeOK, NEW S, \A t \in Tasks : t \in S => IsLive(tasks, t)
  PROVE /\ Marked(S) \in [Tasks -> TaskRecord] /\ Writes(Marked(S), edges)
        /\ \A t \in Tasks : LET q == Marked(S)[t]
                            IN /\ q.status = tasks[t].status /\ q.owner = tasks[t].owner /\ q.conv = tasks[t].conv
                               /\ q.background = tasks[t].background /\ q.outcome = tasks[t].outcome
                               /\ q.mark <=> tasks[t].mark \/ t \in S
                               /\ q.on = tasks[t].on /\ q.policy = tasks[t].policy
<1> DEFINE M == Marked(S)
<1>1. ASSUME NEW t \in Tasks, t \in S
      PROVE LET q == [tasks[t] EXCEPT !.mark = TRUE]
            IN q \in TaskRecord /\ Forward(t, tasks[t], q) /\ q.status = tasks[t].status /\ q.outcome = tasks[t].outcome
               /\ q.mark /\ q.on = tasks[t].on /\ q.policy = tasks[t].policy
  <2>1. tasks[t] \in TaskRecord /\ tasks[t].status \in Live
    BY <1>1 DEF TypeOK, IsLive
  <2> QED BY <2>1, RecordForward
<1>2. \A t \in Tasks : t \in S => tasks[t].status # "absent"
  BY DEF IsLive, Live
<1>3. \A t \in Tasks : M[t] = IF t \in S THEN [tasks[t] EXCEPT !.mark = TRUE] ELSE tasks[t]
  BY DEF Marked
<1>4. M \in [Tasks -> TaskRecord]
  BY <1>1 DEF TypeOK, Marked
<1> HIDE DEF M
<1>5. Writes(M, edges)
  BY <1>1, <1>2, <1>3, <1>4, UpdateWrites
<1>6. \A t \in Tasks : M[t].owner = tasks[t].owner /\ M[t].conv = tasks[t].conv /\ M[t].background = tasks[t].background
  BY <1>1, <1>2, <1>3 DEF Forward
<1>7. \A t \in Tasks : M[t].status = tasks[t].status /\ M[t].outcome = tasks[t].outcome
                       /\ M[t].on = tasks[t].on /\ M[t].policy = tasks[t].policy
  BY <1>1, <1>3
<1>8. \A t \in Tasks : M[t].mark <=> tasks[t].mark \/ t \in S
  BY <1>1, <1>3
<1> QED BY <1>4, <1>5, <1>6, <1>7, <1>8 DEF M

LEMMA AbortConversationWrites ==
  ASSUME TypeOK, Shape, NEW c \in Convs, NEW b \in BOOLEAN, AbortConversation(c, b)
  PROVE \E T : Writes(T, edges) /\ Commit(sched, T, edges)
<1> DEFINE S == {t \in Tasks : /\ IsLive(tasks, t) /\ InScope(tasks, edges, c, b)[t]
                               /\ b \/ ~tasks[t].background}
<1>1. Commit(sched, Marked(S), edges)
  BY DEF AbortConversation, Marked
<1>2. \A t \in Tasks : t \in S => IsLive(tasks, t)
  OBVIOUS
<1> HIDE DEF S
<1>3. Writes(Marked(S), edges)
  BY <1>2, MarkWrites
<1> QED BY <1>1, <1>3

\* What a reconcile pass that checks these waits commits.
MarkedRecords(checks) == Marked(ReconcileMarks(checks))
FinalRecords(checks) == Finalize(MarkedRecords(checks), edges)

LEMMA ReconcileWrites ==
  ASSUME TypeOK, Shape, NEW checks PROVE Writes(FinalRecords(checks), edges)
<1> DEFINE M == MarkedRecords(checks)
           T == FinalRecords(checks)
<1>1. /\ M \in [Tasks -> TaskRecord] /\ Writes(M, edges)
      /\ \A t \in Tasks : M[t].status = tasks[t].status /\ M[t].owner = tasks[t].owner /\ M[t].conv = tasks[t].conv
                          /\ M[t].background = tasks[t].background /\ M[t].outcome = tasks[t].outcome
  <2>1. \A t \in Tasks : t \in ReconcileMarks(checks) => IsLive(tasks, t)
    BY DEF ReconcileMarks
  <2> QED BY <2>1, MarkWrites DEF MarkedRecords
<1> HIDE DEF M
<1>2. PICK F \in SUBSET Tasks :
        /\ \A t \in Tasks : t \in F <=> M[t].status = "completing" /\ OwnedLive(M, edges, t) \subseteq F
        /\ T = [t \in Tasks |-> IF t \in F THEN [M[t] EXCEPT !.status = "terminal"] ELSE M[t]]
  BY FinalizeDef DEF FinalRecords, M
<1> HIDE DEF T
<1>3. ASSUME NEW t \in F
      PROVE /\ T[t] \in TaskRecord /\ T[t].status = "terminal" /\ T[t].outcome = M[t].outcome /\ T[t].owner = M[t].owner
            /\ T[t].conv = M[t].conv /\ T[t].background = M[t].background /\ T[t].mark = M[t].mark
  <2>1. M[t] \in TaskRecord /\ T[t] = [M[t] EXCEPT !.status = "terminal"]
    BY <1>1, <1>2
  <2> QED BY <2>1 DEF TaskRecord, Statuses
<1>4. \A t \in Tasks \ F : T[t] = M[t]
  BY <1>2
<1>5. T \in [Tasks -> TaskRecord]
  BY <1>1, <1>2, <1>3, <1>4
<1>6. ASSUME NEW t \in Tasks PROVE /\ tasks[t].status # "absent" \/ T[t] = tasks[t]
                                   /\ Forward(t, tasks[t], T[t])
                                   /\ T[t].status = "waiting" => tasks[t].status = "waiting"
  <2>1. CASE t \in F
    <3>1. tasks[t].status = "completing" /\ (tasks[t].mark => M[t].mark)
      BY <1>1, <1>2, <2>1 DEF Writes, Evolves, Forward
    <3> QED BY <1>1, <1>3, <2>1, <3>1 DEF Forward
  <2>2. CASE t \notin F
    <3>1. T[t] = M[t] /\ Forward(t, tasks[t], M[t])
      BY <1>1, <1>4, <2>2 DEF Writes, Evolves
    <3>2. tasks[t].status = "absent" => M[t] = tasks[t]
      BY DEF M, MarkedRecords, Marked, ReconcileMarks, IsLive, Live
    <3> QED BY <1>1, <3>1, <3>2
  <2> QED BY <2>1, <2>2
<1>7. Records(T, edges) /\ Evolves(T, edges) /\ Admitted(T, edges)
  <2>1. \A t \in Tasks : /\ T[t] = tasks[t] \/ (tasks[t].status # "absent" /\ Forward(t, tasks[t], T[t]))
                         /\ T[t].status = "waiting" => tasks[t].status = "waiting"
    BY <1>6
  <2> QED BY <1>5, <2>1, UpdateStep
<1>8. ASSUME NEW t \in Tasks, T[t].status = "terminal", tasks[t].status # "terminal" PROVE OwnedLive(T, edges, t) = {}
  <2>1. t \in F
    BY <1>1, <1>4, <1>8
  <2>2. \A u \in Tasks : T[u].owner = M[u].owner /\ T[u].conv = M[u].conv /\ T[u].background = M[u].background
    BY <1>3, <1>4
  <2>3. \A u \in Tasks : IsLive(T, u) => IsLive(M, u) /\ u \notin F
    BY <1>3, <1>4 DEF IsLive, Live
  <2>4. \A u \in OwnedLive(T, edges, t) : u \in Tasks /\ IsLive(T, u)
    BY DEF OwnedLive
  <2>5. OwnedLive(M, edges, t) \subseteq F
    BY <1>2, <2>1
  <2>6. \A u \in Tasks : IsLive(M, u) => (u \in OwnedLive(T, edges, t) <=> IsLive(T, u) /\ u \in OwnedLive(M, edges, t))
    BY <2>2, SameTree
  <2> QED BY <2>3, <2>4, <2>5, <2>6
<1>9. Settles(T, edges)
  <2>1. \A t \in Tasks : T[t].status = "completing" => tasks[t].status = "completing"
    BY <1>1, <1>3, <1>4
  <2> QED BY <1>8, <2>1 DEF Settles
<1> QED BY <1>7, <1>9 DEF Writes, T

\* The records a reservation pass commits.
TakenRecord(t) ==
  IF registry # 0 THEN Resumed(tasks[t], "running")
  ELSE IF tasks[t].mark THEN WithOutcome(tasks, edges, t, "orphaned")[t] ELSE tasks[t]
ReservedRecords == [t \in Tasks |-> IF t \in {u \in Tasks : Eligible(u)} THEN TakenRecord(t) ELSE tasks[t]]

LEMMA TakenForward ==
  ASSUME TypeOK, NEW t \in Tasks, Eligible(t)
  PROVE LET r == TakenRecord(t)
        IN /\ tasks[t].status \in {"pending", "running", "waiting"}
           /\ r \in TaskRecord /\ Forward(t, tasks[t], r)
           /\ registry # 0 => r.status = "running"
           /\ registry = 0 /\ tasks[t].mark => r.status = "terminal" /\ OwnedLive(tasks, edges, t) = {}
           /\ registry = 0 /\ ~tasks[t].mark => r = tasks[t]
<1>1. tasks[t] \in TaskRecord /\ tasks[t].status \in {"pending", "running", "waiting"}
  BY DEF TypeOK, Eligible, Live
<1>2. CASE registry # 0
  <2>1. TakenRecord(t) = Resumed(tasks[t], "running")
    BY <1>2 DEF TakenRecord
  <2>2. LET q == Resumed(tasks[t], "running")
        IN q \in TaskRecord /\ Forward(t, tasks[t], q) /\ q.status = "running"
    BY <1>1, RecordForward
  <2> QED BY <1>1, <1>2, <2>1, <2>2
<1>3. CASE registry = 0 /\ tasks[t].mark
  <2>1. OwnedLive(tasks, edges, t) = {}
    BY <1>3 DEF Eligible, WaitingOn
  <2>2. TakenRecord(t) = WithOutcome(tasks, edges, t, "orphaned")[t]
    BY <1>3 DEF TakenRecord
  <2>3. LET W == WithOutcome(tasks, edges, t, "orphaned")
        IN /\ W \in [Tasks -> TaskRecord] /\ Forward(t, tasks[t], W[t])
           /\ W[t].status = IF OwnedLive(tasks, edges, t) # {} THEN "completing" ELSE "terminal"
    BY <1>1, OutcomeRecord DEF TypeOK, Outcomes
  <2> QED BY <1>1, <1>3, <2>1, <2>2, <2>3
<1>4. CASE registry = 0 /\ ~tasks[t].mark
  BY <1>1, <1>4 DEF TakenRecord, Forward
<1> QED BY <1>2, <1>3, <1>4

LEMMA ReserveWrites == ASSUME TypeOK, Shape PROVE Writes(ReservedRecords, edges)
<1> DEFINE T == ReservedRecords
<1>1. \A t \in Tasks : T[t] = IF Eligible(t) THEN TakenRecord(t) ELSE tasks[t]
  BY DEF ReservedRecords
<1>2. ASSUME NEW t \in Tasks, Eligible(t)
      PROVE LET r == TakenRecord(t)
            IN /\ tasks[t].status \in {"pending", "running", "waiting"}
               /\ r \in TaskRecord /\ Forward(t, tasks[t], r)
               /\ r.status \notin {"waiting", "completing"} \/ r = tasks[t]
               /\ r.status = "terminal" => OwnedLive(tasks, edges, t) = {}
  BY <1>2, TakenForward
<1>3. T \in [Tasks -> TaskRecord]
  BY <1>2 DEF ReservedRecords, TypeOK
<1> HIDE DEF T
<1>4. Records(T, edges) /\ Evolves(T, edges) /\ Admitted(T, edges)
  BY <1>1, <1>2, <1>3, UpdateStep
<1>5. ASSUME NEW t \in Tasks, T[t].status = "terminal", tasks[t].status # "terminal" PROVE OwnedLive(T, edges, t) = {}
  <2>1. OwnedLive(tasks, edges, t) = {}
    BY <1>1, <1>2, <1>5
  <2>2. \A u \in Tasks : tasks[u].status = "absent" => T[u] = tasks[u]
    BY <1>1, <1>2
  <2> QED BY <1>4, <2>1, <2>2, NoNewWork
<1>6. Settles(T, edges)
  BY <1>1, <1>2, <1>5 DEF Settles
<1> QED BY <1>4, <1>6 DEF Writes, T

----------------------------------------------------------------------------
(* What must still be derived from the records, and that it is scheduled.  *)

\* Work below a cancelled owner is marked.
MarksDown(T, E) ==
  \A t \in Tasks : IsLive(T, t) /\ ~T[t].background /\ BelowCancelled(T, E, t) => T[t].mark

\* A held outcome holds for something.
HeldForWork(T, E) ==
  \A t \in Tasks : T[t].status = "completing" => OwnedLive(T, E, t) # {}

\* failFast waits of which a task failed while another is neither failed nor marked.
Unapplied(T) ==
  {w \in Tasks : /\ T[w].status = "waiting" /\ T[w].policy = "failFast"
                 /\ \E m \in T[w].on : FailedOutcome(T[m])
                 /\ \E u \in T[w].on : IsLive(T, u) /\ ~FailedOutcome(T[u]) /\ ~T[u].mark}

LEMMA LiveBefore ==
  ASSUME TypeOK, NEW T, NEW E, Evolves(T, E), NEW t \in Existing, IsLive(T, t)
  PROVE IsLive(tasks, t)
<1>1. t \in Tasks /\ tasks[t].status \in Statuses /\ tasks[t].status # "absent"
  BY DEF Existing, TypeOK, TaskRecord
<1>2. tasks[t].status # "terminal"
  BY <1>1 DEF Evolves, Forward, IsLive, Live
<1> QED BY <1>1, <1>2 DEF Statuses, IsLive

LEMMA FailedStays ==
  ASSUME TypeOK, NEW T, NEW E, Evolves(T, E), NEW t \in Tasks, FailedOutcome(tasks[t])
  PROVE FailedOutcome(T[t])
BY DEF Evolves, Forward, FailedOutcome

\* A commit adds no failing wait that #observe does not collect.
LEMMA UnappliedKept ==
  ASSUME TypeOK, Shape, NEW T, NEW E, Writes(T, E),
         NEW w \in Unapplied(T), w \notin WaitsBy(T), w \notin AffectedBy(T)
  PROVE /\ w \in Unapplied(tasks)
        /\ \E m \in tasks[w].on : FailedOutcome(tasks[m])
        /\ \E u \in tasks[w].on : u \in Tasks /\ IsLive(tasks, u) /\ ~FailedOutcome(tasks[u]) /\ ~T[u].mark
<1> USE DEF Writes
<1>1. w \in Tasks /\ T[w].status = "waiting" /\ T[w].policy = "failFast"
  BY DEF Unapplied
<1>2. PICK m \in T[w].on : FailedOutcome(T[m])
  BY DEF Unapplied
<1>3. PICK u \in T[w].on : IsLive(T, u) /\ ~FailedOutcome(T[u]) /\ ~T[u].mark
  BY DEF Unapplied
<1>4. tasks[w].status = "waiting"
  BY <1>1 DEF WaitsBy, Changed, IsLive, Live
<1>5. T[w].on = tasks[w].on /\ T[w].policy = tasks[w].policy
  BY <1>1, <1>4 DEF Evolves, Forward
<1>6. m \in Tasks /\ u \in Tasks
  BY <1>1, <1>2, <1>3 DEF Records, TaskRecord
<1>7. FailedOutcome(tasks[m])
  BY <1>1, <1>2, <1>6 DEF AffectedBy, FailedBy, Changed
<1>8. u \in Existing
  BY <1>1, <1>3, <1>4, <1>5, <1>6 DEF Existing, Shape, ShapeOf
<1>9. IsLive(tasks, u)
  BY <1>3, <1>8, LiveBefore
<1>10. ~FailedOutcome(tasks[u]) /\ ~tasks[u].mark
  BY <1>3, <1>6, FailedStays DEF Evolves, Forward
<1> QED BY <1>1, <1>2, <1>3, <1>4, <1>5, <1>6, <1>7, <1>9, <1>10 DEF Unapplied

\* When #observe sees no reason, no cancellation begins.
LEMMA NoNewIntent ==
  ASSUME TypeOK, Shape, NEW s, NEW T, NEW E, Writes(T, E), ~Needed(s, T, E),
         NEW p \in Existing, CancellationIntent(T[p])
  PROVE CancellationIntent(tasks[p])
<1> USE DEF Writes
<1>1. p \in Tasks /\ IsLive(T, p)
  BY DEF Existing, CancellationIntent, IsLive
<1>2. IsLive(tasks, p)
  BY <1>1, LiveBefore
<1>3. CASE T[p].mark
  <2>1. p \notin MarkedBy(T)
    BY DEF Needed
  <2>2. tasks[p].mark
    BY <1>1, <1>3, <2>1 DEF MarkedBy, Changed
  <2> QED BY <1>2, <2>2 DEF CancellationIntent, IsLive
<1>4. CASE FailedOutcome(T[p])
  <2>1. T[p].status = "completing" /\ T[p].outcome # "completed"
    BY <1>1, <1>4 DEF FailedOutcome, IsLive, Live
  <2>2. p \notin HeldBy(T)
    BY DEF Needed
  <2>3. tasks[p].status = "completing"
    BY <1>1, <2>1, <2>2 DEF HeldBy, Changed
  <2>4. tasks[p].outcome = T[p].outcome
    BY <1>1, <2>3 DEF Evolves, Forward
  <2> QED BY <2>1, <2>3, <2>4 DEF CancellationIntent, FailedOutcome, Live
<1> QED BY <1>3, <1>4 DEF CancellationIntent

LEMMA NoNewCancelled ==
  ASSUME TypeOK, Shape, NEW s, NEW T, NEW E, Writes(T, E), ~Needed(s, T, E), NEW t \in Existing,
         BelowCancelled(T, E, t)
  PROVE BelowCancelled(tasks, edges, t)
<1> DEFINE S == {v \in Tasks : v \in Existing /\ BelowCancelled(T, E, v) => BelowCancelled(tasks, edges, v)}
<1>1. ASSUME NEW v \in Tasks, \A p \in 1..(v - 1) : p \in S PROVE v \in S
  <2> SUFFICES ASSUME v \in Existing, BelowCancelled(T, E, v) PROVE BelowCancelled(tasks, edges, v)
    OBVIOUS
  <2> DEFINE p == ParentOf(tasks, edges, v)
  <2>1. p = ParentOf(T, E, v) /\ (p \in 1..(v - 1) => p \in Existing)
    BY OwnersKept DEF Writes, SameOwners
  <2>2. p \in 1..(v - 1) /\ (CancellationIntent(T[p]) \/ (~T[p].background /\ BelowCancelled(T, E, p)))
    <3> HIDE DEF p
    <3> QED BY <2>1, BelowCancelledDef
  <2> HIDE DEF p
  <2>3. p \in S /\ p \in Existing /\ p \in Tasks
    BY <1>1, <2>1, <2>2
  <2>4. T[p].background = tasks[p].background
    BY <2>3, OwnersKept DEF Writes, SameOwners
  <2>5. CancellationIntent(tasks[p]) \/ (~tasks[p].background /\ BelowCancelled(tasks, edges, p))
    BY <2>2, <2>3, <2>4, NoNewIntent
  <2> QED BY <2>2, <2>5, BelowCancelledDef DEF p
<1>2. Tasks \subseteq S
  <2> HIDE DEF S
  <2> QED BY <1>1, TaskInduction
<1> QED BY <1>2 DEF Existing

\* When #observe sees no reason to reconcile there is none.
LEMMA QuietKept ==
  ASSUME TypeOK, Shape, NEW s, NEW T, NEW E, Writes(T, E), ~Needed(s, T, E),
         MarksDown(tasks, edges), HeldForWork(tasks, edges)
  PROVE MarksDown(T, E) /\ HeldForWork(T, E)
<1> USE DEF Writes
<1>1. ASSUME NEW t \in Tasks, IsLive(T, t), ~T[t].background, BelowCancelled(T, E, t) PROVE T[t].mark
  <2>1. CASE t \in Changed(T)
    <3>1. t \notin UnmarkedBy(T, E)
      BY DEF Needed
    <3> QED BY <1>1, <2>1, <3>1 DEF UnmarkedBy
  <2>2. CASE t \notin Changed(T)
    <3>1. T[t] = tasks[t] /\ IsLive(tasks, t) /\ t \in Existing
      BY <1>1, <2>2 DEF Changed, IsLive, Existing, Live
    <3>2. BelowCancelled(tasks, edges, t)
      BY <1>1, <3>1, NoNewCancelled
    <3> QED BY <1>1, <3>1, <3>2 DEF MarksDown
  <2> QED BY <2>1, <2>2
<1>2. ASSUME NEW t \in Tasks, T[t].status = "completing" PROVE OwnedLive(T, E, t) # {}
  <2>1. t \notin HeldBy(T)
    BY DEF Needed
  <2>2. tasks[t].status = "completing"
    BY <1>2, <2>1 DEF HeldBy, Changed, IsLive, Live
  <2>3. PICK u \in OwnedLive(tasks, edges, t) : TRUE
    BY <2>2 DEF HeldForWork
  <2>4. u \in Existing /\ ~tasks[u].background /\ t \in CountsFor(tasks, edges)[u] /\ u \in Tasks
    BY <2>3 DEF OwnedLive, IsLive, Live, Existing
  <2>5. T[u].status # "absent"
    BY <2>4 DEF Evolves, Forward, Existing
  <2>6. T[u].status # "terminal"
    <3>1. u \notin EndedBy(T) /\ tasks[u].status # "terminal"
      BY <2>3 DEF Needed, OwnedLive, IsLive, Live
    <3> QED BY <2>4, <3>1 DEF EndedBy, Changed
  <2>7. IsLive(T, u)
    BY <2>4, <2>5, <2>6 DEF Records, TaskRecord, Statuses, IsLive
  <2> QED BY <2>4, <2>7, OwnedLiveKept
<1> QED BY <1>1, <1>2 DEF MarksDown, HeldForWork

\* While a Harness has the session open: without a pass on the line the records
\* imply nothing more, and every failing wait is among those a pass will check.
Derived(s, T, E) ==
  /\ s.passes = <<>> /\ ~s.retry => MarksDown(T, E) /\ HeldForWork(T, E)
  /\ Unapplied(T) \subseteq Pending(s)
  /\ ~s.retry => s.checks = {}

Wakeups == up /\ ~sched.closing => Derived(sched, tasks, edges)

\* Without a reservation pass every eligible task has its invocation.
ReservedWork ==
  (up /\ sched.enabled /\ ~sched.closing /\ sched.drain = "idle" /\ ~sched.missed)
    => \A t \in Tasks : Eligible(t) => registry = 0 /\ ~tasks[t].mark

\* The inductive invariant.
Inv == TypeOK /\ Shape /\ OrphanNeverHolds /\ Wakeups /\ ReservedWork

\* The same pending passes.
Listens(s) ==
  /\ SchedOK(s)
  /\ s.passes = sched.passes /\ s.retry = sched.retry /\ s.checks = sched.checks
  /\ s.closing = sched.closing /\ s.enabled = sched.enabled

LEMMA SchedTyped == ASSUME TypeOK PROVE Listens(sched) /\ Listens(Kick(sched)) /\ Listens(PassDone(sched))
<1>1. SchedOK(sched)
  BY DEF TypeOK, SchedOK
<1>2. Listens(Kick(sched))
  BY <1>1, KickFacts DEF Listens
<1>3. Listens(PassDone(sched))
  BY <1>1 DEF Listens, PassDone, SchedOK, Scheduled
<1> QED BY <1>1, <1>2, <1>3 DEF Listens

LEMMA PendingSame == ASSUME NEW s, Listens(s) PROVE Pending(s) = Pending(sched)
BY DEF Pending, Listens

\* A commit keeps what is derived, or schedules what is to be derived.
LEMMA DerivedKept ==
  ASSUME TypeOK, Shape, NEW s, Listens(s), ~sched.closing, NEW T, NEW E, Writes(T, E),
         Derived(sched, tasks, edges), NEW o, o = Observed(s, T, E)
  PROVE Derived(o, T, E)
<1>1. /\ SchedOK(s) /\ ~s.closing /\ s.retry = sched.retry /\ s.checks = sched.checks /\ s.passes = sched.passes
      /\ Pending(s) = Pending(sched)
  BY PendingSame DEF Listens
<1>2. Unapplied(T) \subseteq Unapplied(tasks) \cup WaitsBy(T) \cup AffectedBy(T)
  BY UnappliedKept
<1>3. \A w \in Unapplied(T) : w \in Tasks /\ w \notin EndedBy(T)
  BY DEF Unapplied, EndedBy
<1>4. CASE Needed(s, T, E)
  <2>1. /\ o.passes # <<>> /\ ~o.retry /\ o.checks = {}
        /\ \A w \in Tasks : w \in Pending(o) <=>
             \/ w \in (s.checks \ EndedBy(T)) \cup WaitsBy(T) \cup AffectedBy(T)
             \/ \E i \in 1..Len(s.passes) : w \in s.passes[i]
    BY <1>1, <1>4, ObservedFacts
  <2>2. \A w \in Unapplied(tasks) : w \in s.checks \/ \E i \in 1..Len(s.passes) : w \in s.passes[i]
    BY <1>1 DEF Derived, Pending
  <2>3. Unapplied(T) \subseteq Pending(o)
    BY <1>2, <1>3, <2>1, <2>2
  <2> QED BY <2>1, <2>3 DEF Derived
<1>5. CASE ~Needed(s, T, E)
  <2>1. o.passes = s.passes /\ o.retry = s.retry /\ o.checks = s.checks /\ Pending(o) = Pending(s)
    BY <1>1, <1>5, ObservedFacts
  <2>2. WaitsBy(T) = {} /\ AffectedBy(T) = {}
    BY <1>5 DEF Needed
  <2>3. Unapplied(T) \subseteq Pending(o)
    BY <1>1, <1>2, <2>1, <2>2 DEF Derived
  <2>4. ASSUME o.passes = <<>>, ~o.retry PROVE MarksDown(T, E) /\ HeldForWork(T, E)
    <3>1. MarksDown(tasks, edges) /\ HeldForWork(tasks, edges)
      BY <1>1, <2>1, <2>4 DEF Derived
    <3> QED BY <1>5, <3>1, QuietKept
  <2> QED BY <1>1, <2>1, <2>3, <2>4 DEF Derived
<1> QED BY <1>4, <1>5

\* What every commit but a reconcile's keeps.
LEMMA CommitKeeps ==
  ASSUME Inv, ~sched.closing, NEW s, Listens(s), NEW T, NEW E, Writes(T, E), Commit(s, T, E), up' = up
  PROVE /\ tasks' \in [Tasks -> TaskRecord] /\ edges' \in [Convs -> Edges] /\ \A t \in Tasks : tasks'[t].owner < t
        /\ SchedOK(sched') /\ Shape' /\ OrphanNeverHolds' /\ Wakeups'
        /\ sched'.closing = sched.closing /\ sched'.enabled = sched.enabled
        /\ Changed(tasks') # {} /\ sched.enabled => sched'.drain # "idle"
        /\ Changed(tasks') = {} => tasks' = tasks /\ sched'.drain = s.drain /\ sched'.missed = s.missed
<1> USE DEF Writes
<1>1. TypeOK /\ Shape /\ SchedOK(s) /\ s.closing = sched.closing /\ s.enabled = sched.enabled
  BY DEF Inv, Listens
<1>2. /\ tasks' = T /\ edges' = E /\ SchedOK(sched') /\ Shape' /\ \A t \in Tasks : tasks'[t].owner < t
      /\ sched' = IF <<T, E>> = <<tasks, edges>> THEN s ELSE Observed(s, T, E)
  BY <1>1, CommitStep
<1>3. T \in [Tasks -> TaskRecord] /\ E \in [Convs -> Edges]
  BY DEF Records
<1>4. OrphanNeverHolds'
  BY <1>2 DEF OrphanNeverHolds, Settles, Evolves, Forward, Inv
<1>5. Wakeups'
  <2> SUFFICES ASSUME up, ~sched.closing PROVE Derived(sched', T, E)
    BY <1>1, <1>2, ObservedFacts DEF Wakeups
  <2>1. Derived(sched, tasks, edges)
    BY DEF Inv, Wakeups
  <2>2. CASE <<T, E>> = <<tasks, edges>>
    <3>1. Pending(s) = Pending(sched)
      BY PendingSame
    <3> QED BY <1>2, <2>1, <2>2, <3>1 DEF Derived, Listens
  <2>3. CASE <<T, E>> # <<tasks, edges>>
    BY <1>1, <1>2, <2>1, <2>3, DerivedKept
  <2> QED BY <2>2, <2>3
<1>6. /\ sched'.closing = s.closing /\ sched'.enabled = s.enabled
      /\ Changed(T) # {} /\ s.enabled /\ ~s.closing => sched'.drain # "idle"
      /\ Changed(T) = {} => sched'.drain = s.drain /\ sched'.missed = s.missed
  <2>1. CASE <<T, E>> = <<tasks, edges>>
    <3>1. Changed(T) = {}
      BY <2>1 DEF Changed
    <3> QED BY <1>2, <2>1, <3>1
  <2>2. CASE <<T, E>> # <<tasks, edges>>
    BY <1>1, <1>2, <2>2, ObservedFacts
  <2> QED BY <2>1, <2>2
<1>7. Changed(T) = {} => T = tasks
  BY <1>1, <1>3 DEF Changed, TypeOK
<1> QED BY <1>1, <1>2, <1>3, <1>4, <1>5, <1>6, <1>7

----------------------------------------------------------------------------
(* Every operation keeps the invariant.                                    *)

\* What is shown of every step.
StepOK == Inv' /\ (UNCHANGED <<tasks, edges>> \/ Writes(tasks', edges'))

\* Commits that leave the invocations and the registry alone.
LEMMA HostCommit ==
  ASSUME Inv, ~sched.closing, NEW T, NEW E, Writes(T, E), Commit(sched, T, E),
         UNCHANGED <<registry, inv, up, home>>
  PROVE StepOK
<1>1. TypeOK /\ Shape /\ Listens(sched)
  BY SchedTyped DEF Inv
<1>2. /\ tasks' \in [Tasks -> TaskRecord] /\ edges' \in [Convs -> Edges] /\ \A t \in Tasks : tasks'[t].owner < t
      /\ SchedOK(sched') /\ Shape' /\ OrphanNeverHolds' /\ Wakeups'
      /\ sched'.closing = sched.closing /\ sched'.enabled = sched.enabled
      /\ Changed(tasks') # {} /\ sched.enabled => sched'.drain # "idle"
      /\ Changed(tasks') = {} => tasks' = tasks /\ sched'.drain = sched.drain /\ sched'.missed = sched.missed
  BY <1>1, CommitKeeps
<1>3. tasks' = T /\ edges' = E
  BY DEF Commit
<1>4. TypeOK'
  BY <1>1, <1>2 DEF TypeOK, SchedOK
<1>5. ReservedWork'
  <2> SUFFICES ASSUME ReservedWork, up, sched.enabled, ~sched.closing, sched'.drain = "idle", ~sched'.missed,
                      NEW t \in Tasks, Eligible(t)'
               PROVE registry = 0 /\ ~tasks'[t].mark
    BY <1>2 DEF ReservedWork, Inv
  <2>1. tasks' = tasks /\ sched.drain = "idle" /\ ~sched.missed
    BY <1>2
  <2>2. OwnedLive(tasks, edges, t) \subseteq OwnedLive(tasks, E, t)
    <3>1. Evolves(tasks, E)
      BY <1>3, <2>1 DEF Writes
    <3>2. \A u \in OwnedLive(tasks, edges, t) : u \in Existing /\ IsLive(tasks, u) /\ ~tasks[u].background /\ t \in CountsFor(tasks, edges)[u]
      BY DEF OwnedLive, Existing, IsLive, Live
    <3> QED BY <1>1, <3>1, <3>2, OwnedLiveKept
  <2>3. Eligible(t)
    BY <1>3, <2>1, <2>2 DEF Eligible, WaitingOn
  <2> QED BY <2>1, <2>3 DEF ReservedWork
<1> QED BY <1>2, <1>3, <1>4, <1>5 DEF StepOK, Inv

\* Commits that end an invocation.
LEMMA EndingCommit ==
  ASSUME Inv, ~sched.closing, NEW t \in Tasks, NEW T, NEW E, Writes(T, E), Commit(Kick(sched), T, E), Ended(t),
         UNCHANGED <<registry, up, home>>
  PROVE StepOK
<1>1. TypeOK /\ Shape /\ Listens(Kick(sched)) /\ SchedOK(sched)
  BY SchedTyped DEF Inv, Listens
<1>2. /\ tasks' \in [Tasks -> TaskRecord] /\ edges' \in [Convs -> Edges] /\ \A u \in Tasks : tasks'[u].owner < u
      /\ SchedOK(sched') /\ Shape' /\ OrphanNeverHolds' /\ Wakeups'
      /\ sched'.closing = sched.closing /\ sched'.enabled = sched.enabled
      /\ Changed(tasks') # {} /\ sched.enabled => sched'.drain # "idle"
      /\ Changed(tasks') = {} => tasks' = tasks /\ sched'.drain = Kick(sched).drain
  BY <1>1, CommitKeeps
<1>3. tasks' = T /\ edges' = E
  BY DEF Commit
<1>4. TypeOK'
  <2>1. NoInv \in Invocations
    BY DEF NoInv, Invocations
  <2>2. inv' \in [Tasks -> Invocations]
    BY <1>1, <2>1 DEF TypeOK, Ended
  <2> QED BY <1>1, <1>2, <2>2 DEF TypeOK, SchedOK
<1>5. ReservedWork'
  <2>1. sched.enabled => sched'.drain # "idle"
    BY <1>1, <1>2, KickFacts
  <2> QED BY <1>2, <2>1 DEF ReservedWork
<1> QED BY <1>2, <1>3, <1>4, <1>5 DEF StepOK, Inv

\* Steps that write no record and leave the passes alone, or open or close.
LEMMA PlainStep ==
  ASSUME Inv, UNCHANGED <<tasks, edges, home>>, registry' \in Definitions, inv' \in [Tasks -> Invocations],
         SchedOK(sched'), up' \in BOOLEAN,
         (up /\ ~sched.closing => Derived(sched, tasks, edges)) /\ up' /\ ~sched'.closing => Derived(sched', tasks, edges),
         ReservedWork'
  PROVE StepOK
<1>1. TypeOK'
  BY DEF Inv, TypeOK, SchedOK
<1>2. Shape' /\ OrphanNeverHolds'
  BY DEF Inv, Shape, OrphanNeverHolds
<1>3. Wakeups'
  <2>1. Derived(sched', tasks', edges') <=> Derived(sched', tasks, edges)
    OBVIOUS
  <2> QED BY <2>1 DEF Wakeups, Inv
<1> QED BY <1>1, <1>2, <1>3 DEF StepOK, Inv

LEMMA InitSchedOK == SchedOK(InitSched) /\ InitSched.passes = <<>> /\ ~InitSched.enabled /\ ~InitSched.closing
<1>1. InitSched \in Scheduled
  BY DEF InitSched, Scheduled
<1>2. Len(InitSched.passes) <= 2 /\ InitSched.passes = <<>> /\ ~InitSched.enabled /\ ~InitSched.closing
  BY DEF InitSched
<1> QED BY <1>1, <1>2 DEF SchedOK

LEMMA NoInvTyped == NoInv \in Invocations
BY DEF NoInv, Invocations

\* Opening schedules the pass that derives whatever a crash left, and takes
\* every failFast wait along.
LEMMA OpenStep == ASSUME Inv, OpenHarness PROVE StepOK
<1>1. TypeOK /\ Shape
  BY DEF Inv
<1>2. Writes(tasks', edges) /\ edges' = edges
  BY <1>1, OpenWrites DEF OpenHarness
<1> DEFINE checks == {t \in Tasks : tasks[t].status = "waiting" /\ tasks[t].policy = "failFast"}
<1>3. LET o == sched'
      IN /\ SchedOK(o) /\ ~o.enabled /\ o.passes # <<>> /\ o.checks = {}
         /\ \A w \in Tasks : w \in Pending(o) <=> w \in checks
  <2>1. sched' = ScheduleReconcile(InitSched, checks)
    BY DEF OpenHarness
  <2>2. checks \in SUBSET Tasks
    OBVIOUS
  <2> HIDE DEF checks
  <2>3. 1..Len(InitSched.passes) = {}
    BY InitSchedOK
  <2> QED BY <2>1, <2>2, <2>3, InitSchedOK, ScheduleReconcileFacts
<1>4. ShapeOf(tasks', edges) /\ \A t \in Tasks : tasks'[t].owner < t
  BY <1>1, <1>2, RecordStep DEF Writes
<1>5. TypeOK' /\ Shape'
  BY <1>1, <1>2, <1>3, <1>4 DEF TypeOK, Shape, Writes, Records, OpenHarness, SchedOK
<1>6. OrphanNeverHolds'
  BY <1>2 DEF Inv, OrphanNeverHolds, Writes, Settles, Evolves, Forward
<1>7. Unapplied(tasks') \subseteq Pending(sched')
  <2>1. \A t \in Tasks : tasks'[t].status = "waiting" => tasks'[t] = tasks[t]
    <3>1. \A t \in Tasks : tasks[t].status = "running" => Resumed(tasks[t], "pending").status = "pending"
      BY <1>1 DEF TypeOK, TaskRecord, Resumed
    <3> QED BY <3>1 DEF OpenHarness
  <2> QED BY <1>3, <2>1 DEF Unapplied
<1>8. Wakeups' /\ ReservedWork'
  BY <1>3, <1>7 DEF Wakeups, Derived, ReservedWork
<1> QED BY <1>2, <1>5, <1>6, <1>8 DEF StepOK, Inv

\* Steps of the life cycle.
LEMMA LifecycleStep == ASSUME Inv, Lifecycle PROVE StepOK
<1>1. TypeOK /\ SchedOK(sched)
  BY DEF Inv, TypeOK, SchedOK
<1>2. CASE OpenHarness
  BY <1>2, OpenStep
<1>3. CASE Resume
  <2> DEFINE s == [sched EXCEPT !.enabled = TRUE]
  <2>1. /\ SchedOK(s) /\ s.passes = sched.passes /\ s.retry = sched.retry /\ s.checks = sched.checks
        /\ s.enabled /\ s.closing = sched.closing
    BY <1>1 DEF SchedOK, Scheduled
  <2> HIDE DEF s
  <2>2. /\ SchedOK(Kick(s)) /\ Kick(s).passes = s.passes /\ Kick(s).retry = s.retry /\ Kick(s).checks = s.checks
        /\ Kick(s).closing = s.closing /\ (~s.closing => Kick(s).drain # "idle") /\ Pending(Kick(s)) = Pending(s)
    BY <2>1, KickFacts
  <2>3. sched' = Kick(s) /\ ~sched.closing /\ up
    BY <1>3 DEF Resume, s
  <2>4. Pending(s) = Pending(sched)
    BY <2>1 DEF Pending
  <2>5. Derived(sched, tasks, edges) => Derived(sched', tasks, edges)
    BY <2>1, <2>2, <2>3, <2>4 DEF Derived
  <2>6. ReservedWork'
    BY <2>1, <2>2, <2>3 DEF ReservedWork
  <2> QED BY <1>1, <1>3, <2>1, <2>2, <2>3, <2>5, <2>6, PlainStep DEF Resume, TypeOK
<1>4. CASE Seal
  <2>1. SchedOK(sched') /\ sched'.closing
    BY <1>1, <1>4 DEF Seal, SchedOK, Scheduled
  <2>2. ReservedWork'
    BY <2>1 DEF ReservedWork
  <2> QED BY <1>1, <1>4, <2>1, <2>2, PlainStep DEF Seal, TypeOK
<1>5. CASE Closed
  <2>1. ReservedWork'
    BY <1>5 DEF Closed, ReservedWork
  <2> QED BY <1>1, <1>5, <2>1, InitSchedOK, PlainStep DEF Closed, TypeOK
<1>6. CASE Crash
  <2>1. ReservedWork'
    BY <1>6 DEF Crash, ReservedWork
  <2>2. inv' \in [Tasks -> Invocations]
    BY <1>6, NoInvTyped DEF Crash
  <2> QED BY <1>1, <1>6, <2>1, <2>2, InitSchedOK, PlainStep DEF Crash, TypeOK
<1>7. ASSUME NEW d \in Definitions, SetRegistry(d) PROVE StepOK
  <2>1. SchedOK(sched') /\ sched'.closing = sched.closing /\ sched'.passes = sched.passes /\ sched'.retry = sched.retry
        /\ sched'.checks = sched.checks /\ Pending(sched') = Pending(sched) /\ sched'.enabled = sched.enabled
        /\ (sched.enabled /\ ~sched.closing => sched'.drain # "idle")
    BY <1>1, <1>7, KickFacts DEF SetRegistry
  <2>2. ReservedWork'
    BY <2>1 DEF ReservedWork
  <2>3. Derived(sched, tasks, edges) => Derived(sched', tasks, edges)
    BY <2>1 DEF Derived
  <2> QED BY <1>1, <1>7, <2>1, <2>2, <2>3, PlainStep DEF SetRegistry, TypeOK
<1> QED BY <1>2, <1>3, <1>4, <1>5, <1>6, <1>7 DEF Lifecycle

LEMMA HostStep == ASSUME Inv, Host PROVE StepOK
<1>1. TypeOK /\ Shape
  BY DEF Inv
<1>2. ASSUME NEW t \in Tasks, CreateTop(t) PROVE StepOK
  <2>1. Writes([tasks EXCEPT ![t] = NewTask(t)], edges)
    BY <1>1, <1>2, CreateWrites DEF CreateTop, Fresh
  <2> QED BY <1>2, <2>1, HostCommit DEF CreateTop, Admitting
<1>3. ASSUME NEW t \in Tasks, Abort(t) PROVE StepOK
  <2>1. PICK T : Writes(T, edges) /\ Commit(sched, T, edges)
    BY <1>1, <1>3, AbortWrites
  <2> QED BY <1>3, <2>1, HostCommit DEF Abort, Admitting
<1>4. ASSUME NEW c \in Convs, NEW b \in BOOLEAN, AbortConversation(c, b) PROVE StepOK
  <2>1. PICK T : Writes(T, edges) /\ Commit(sched, T, edges)
    BY <1>1, <1>4, AbortConversationWrites
  <2> QED BY <1>4, <2>1, HostCommit DEF AbortConversation, Admitting
<1> QED BY <1>2, <1>3, <1>4 DEF Host

LEMMA HandlerStep == ASSUME Inv, NEW t \in Tasks, Handler(t) PROVE StepOK
<1>1. TypeOK /\ Shape /\ SchedOK(sched)
  BY DEF Inv, TypeOK, SchedOK
<1>2. CASE HandlerReturns(t)
  <2>1. inv' \in [Tasks -> Invocations]
    <3>1. inv[t] \in Invocations /\ inv' = [inv EXCEPT ![t] = [inv[t] EXCEPT !.pc = "step", !.last = "fault"]]
      BY <1>1, <1>2 DEF HandlerReturns, TypeOK
    <3>2. [inv[t] EXCEPT !.pc = "step", !.last = "fault"] \in Invocations
      BY <3>1 DEF Invocations
    <3> QED BY <1>1, <3>1, <3>2 DEF TypeOK
  <2>2. \A u \in Tasks : inv'[u] = NoInv => inv[u] = NoInv
    <3>1. inv[t] \in Invocations /\ inv'[t] = [inv[t] EXCEPT !.pc = "step", !.last = "fault"]
      BY <1>1, <1>2 DEF HandlerReturns, TypeOK
    <3>2. inv'[t].pc = "step"
      BY <3>1 DEF Invocations
    <3>3. inv'[t] # NoInv
      BY <3>2 DEF NoInv
    <3> QED BY <1>1, <1>2, <3>3 DEF HandlerReturns, TypeOK
  <2>3. ReservedWork'
    BY <1>2, <2>2 DEF Inv, ReservedWork, HandlerReturns, Eligible, WaitingOn
  <2> QED BY <1>1, <1>2, <2>1, <2>3, PlainStep DEF HandlerReturns, TypeOK
<1>3. CASE HandlerProgresses(t)
  <2> DEFINE s == IF sched.retry THEN ScheduleReconcile(sched, sched.checks) ELSE sched
  <2>1. sched.checks \in SUBSET Tasks /\ ~sched.closing
    BY <1>1, <1>3 DEF SchedOK, Scheduled, HandlerProgresses, Gated
  <2>2. /\ SchedOK(s) /\ s.enabled = sched.enabled /\ s.closing = sched.closing
        /\ Derived(sched, tasks, edges) => Derived(s, tasks, edges)
    <3>1. CASE sched.retry
      <4>1. s = ScheduleReconcile(sched, sched.checks)
        BY <3>1
      <4> HIDE DEF s
      <4>2. /\ SchedOK(s) /\ s.enabled = sched.enabled /\ s.closing = sched.closing
            /\ s.passes # <<>> /\ ~s.retry /\ s.checks = {}
            /\ \A w \in Tasks : w \in Pending(s) <=>
                 w \in sched.checks \/ \E i \in 1..Len(sched.passes) : w \in sched.passes[i]
        BY <1>1, <2>1, <4>1, ScheduleReconcileFacts
      <4>3. Pending(s) = Pending(sched)
        BY <4>2 DEF Pending
      <4> QED BY <4>2, <4>3 DEF Derived
    <3>2. CASE ~sched.retry
      BY <1>1, <3>2
    <3> QED BY <3>1, <3>2
  <2>3. sched' = Kick(s)
    BY <1>3 DEF HandlerProgresses
  <2> HIDE DEF s
  <2>4. /\ SchedOK(sched') /\ sched'.passes = s.passes /\ sched'.retry = s.retry /\ sched'.checks = s.checks
        /\ sched'.enabled = s.enabled /\ sched'.closing = s.closing /\ Pending(sched') = Pending(s)
        /\ s.enabled /\ ~s.closing => sched'.drain # "idle"
    BY <2>2, <2>3, KickFacts
  <2>5. Derived(sched, tasks, edges) => Derived(sched', tasks, edges)
    BY <2>2, <2>4 DEF Derived
  <2>6. inv' \in [Tasks -> Invocations]
    BY <1>1, <1>3 DEF HandlerProgresses, TypeOK, Invocations
  <2>7. ReservedWork'
    BY <2>4 DEF ReservedWork
  <2> QED BY <1>1, <1>3, <2>1, <2>2, <2>4, <2>5, <2>6, <2>7, PlainStep DEF HandlerProgresses, TypeOK
<1>4. ASSUME NEW on \in SUBSET Tasks, NEW policy \in {"allSettled", "failFast"}, CommitWait(t, on, policy) PROVE StepOK
  <2> DEFINE q == [tasks[t] EXCEPT !.status = "waiting", !.on = on, !.policy = policy]
             T == [tasks EXCEPT ![t].status = "waiting", ![t].on = on, ![t].policy = policy]
  <2>1. tasks[t] \in TaskRecord /\ tasks[t].status = "running" /\ ~sched.closing
    BY <1>1, <1>4 DEF TypeOK, CommitWait, Gated
  <2>2. q \in TaskRecord /\ Forward(t, tasks[t], q) /\ q.status = "waiting" /\ q.on = on
    BY <2>1 DEF Forward, TaskRecord, Statuses, Live, Policies
  <2>3. T = [tasks EXCEPT ![t] = q]
    BY <1>1 DEF TypeOK
  <2> HIDE DEF q
  <2>4. T \in [Tasks -> TaskRecord] /\ T[t] = q /\ \A u \in Tasks \ {t} : T[u] = tasks[u]
    BY <1>1, <2>2, <2>3 DEF TypeOK
  <2>5. Commit(sched, T, edges) /\ \A u \in on : tasks[u].status # "absent"
    BY <1>4 DEF CommitWait
  <2> HIDE DEF T
  <2>6. Writes(T, edges)
    BY <1>1, <2>1, <2>2, <2>4, <2>5, UpdateWrites
  <2> QED BY <1>4, <2>1, <2>5, <2>6, HostCommit DEF CommitWait
<1>5. ASSUME NEW o \in {"completed", "failed"}, CommitOutcome(t, o) PROVE StepOK
  <2>1. Writes(WithOutcome(tasks, edges, t, o), edges)
    BY <1>1, <1>5, OutcomeWrites DEF CommitOutcome, Gated, Outcomes
  <2> QED BY <1>5, <2>1, HostCommit DEF CommitOutcome, Gated
<1>6. ASSUME NEW u \in Tasks, CreateChild(t, u) PROVE StepOK
  <2>1. tasks[u].status = "absent" /\ home[u].owner = t /\ t # 0 /\ tasks[t].status # "absent"
    BY <1>6, TasksAreNumbers DEF CreateChild, Fresh, Gated
  <2>2. Writes([tasks EXCEPT ![u] = NewTask(u)], edges)
    BY <1>1, <2>1, CreateWrites
  <2> QED BY <1>6, <2>2, HostCommit DEF CreateChild, Gated
<1>7. ASSUME NEW c \in Convs, CreateConversation(t, c) PROVE StepOK
  <2> DEFINE E == [edges EXCEPT ![c] = t]
  <2>1. tasks[t].status # "absent" /\ edges[c] = -1 /\ ~sched.closing /\ Commit(sched, tasks, E)
    BY <1>7 DEF CreateConversation, Gated
  <2>2. t > 0 /\ t \in Edges
    BY SchedulerAssumption DEF Tasks, Edges
  <2>3. E \in [Convs -> Edges] /\ E[c] = t /\ \A d \in Convs \ {c} : E[d] = edges[d]
    BY <1>1, <2>2 DEF TypeOK
  <2> HIDE DEF E
  <2>4. Records(tasks, E)
    BY <1>1, <2>3 DEF Records, TypeOK
  <2>5. Evolves(tasks, E)
    BY <2>1, <2>3 DEF Evolves, Forward
  <2>6. Admitted(tasks, E)
    BY <2>1, <2>2, <2>3 DEF Admitted
  <2>7. Settles(tasks, E)
    BY DEF Settles
  <2> QED BY <1>7, <2>1, <2>4, <2>5, <2>6, <2>7, HostCommit DEF Writes, CreateConversation
<1>8. ASSUME NEW u \in Tasks, NEW c \in Convs, FinishWithWork(t, u, c) PROVE StepOK
  <2>1. Writes(WithOutcome([tasks EXCEPT ![u] = NewTask(u)], edges, t, "completed"), edges)
    BY <1>1, <1>8, FinishWithWorkWrites
  <2> QED BY <1>8, <2>1, HostCommit DEF FinishWithWork, Gated
<1> QED BY <1>2, <1>3, <1>4, <1>5, <1>6, <1>7, <1>8 DEF Handler

LEMMA InvocationStep == ASSUME Inv, NEW t \in Tasks, Steps(t) PROVE StepOK
<1>1. TypeOK /\ Shape /\ SchedOK(sched)
  BY DEF Inv, TypeOK, SchedOK
<1>2. /\ SchedOK(Kick(sched)) /\ Kick(sched).passes = sched.passes /\ Kick(sched).retry = sched.retry
      /\ Kick(sched).checks = sched.checks /\ Kick(sched).enabled = sched.enabled /\ Kick(sched).closing = sched.closing
      /\ sched.enabled /\ ~sched.closing => Kick(sched).drain # "idle"
      /\ Pending(Kick(sched)) = Pending(sched)
  BY <1>1, KickFacts
<1>3. ASSUME Ended(t), sched' = Kick(sched), UNCHANGED <<tasks, edges, registry, up, home>> PROVE StepOK
  <2>1. inv' \in [Tasks -> Invocations]
    BY <1>1, <1>3, NoInvTyped DEF Ended, TypeOK
  <2>2. Derived(sched, tasks, edges) => Derived(sched', tasks, edges)
    BY <1>2, <1>3 DEF Derived
  <2>3. ReservedWork'
    BY <1>2, <1>3 DEF ReservedWork
  <2> QED BY <1>1, <1>2, <1>3, <2>1, <2>2, <2>3, PlainStep DEF TypeOK
<1>4. CASE StepEnds(t)
  BY <1>3, <1>4 DEF StepEnds
<1>5. CASE StepContinues(t)
  <2>1. inv' \in [Tasks -> Invocations]
    BY <1>1, <1>5 DEF StepContinues, TypeOK, Invocations
  <2>2. \A u \in Tasks : inv'[u] = NoInv => inv[u] = NoInv
    <3>1. inv[t] \in Invocations /\ inv'[t] = [inv[t] EXCEPT !.pc = "phase", !.last = "none"]
      BY <1>1, <1>5 DEF StepContinues, TypeOK
    <3>2. inv'[t].pc = "phase"
      BY <3>1 DEF Invocations
    <3>3. inv'[t] # NoInv
      BY <3>2 DEF NoInv
    <3> QED BY <1>1, <1>5, <3>3 DEF StepContinues, TypeOK
  <2>3. ReservedWork'
    BY <1>5, <2>2 DEF Inv, ReservedWork, StepContinues, Eligible, WaitingOn
  <2> QED BY <1>1, <1>5, <2>1, <2>3, PlainStep DEF StepContinues, TypeOK
<1>6. CASE StepHandsOver(t)
  <2> DEFINE q == [tasks[t] EXCEPT !.status = "pending"]
             T == [tasks EXCEPT ![t].status = "pending"]
  <2>1. tasks[t] \in TaskRecord /\ tasks[t].status = "running" /\ ~sched.closing
    BY <1>1, <1>6 DEF TypeOK, StepHandsOver, Continues, Decides
  <2>2. q \in TaskRecord /\ Forward(t, tasks[t], q) /\ q.status = "pending"
    BY <2>1, RecordForward
  <2>3. T = [tasks EXCEPT ![t] = q]
    BY <1>1 DEF TypeOK
  <2> HIDE DEF q
  <2>4. T \in [Tasks -> TaskRecord] /\ T[t] = q /\ \A u \in Tasks \ {t} : T[u] = tasks[u]
    BY <1>1, <2>2, <2>3 DEF TypeOK
  <2>5. Commit(Kick(sched), T, edges)
    BY <1>6 DEF StepHandsOver
  <2> HIDE DEF T
  <2>6. Writes(T, edges)
    BY <1>1, <2>1, <2>2, <2>4, UpdateWrites
  <2> QED BY <1>6, <2>1, <2>5, <2>6, EndingCommit DEF StepHandsOver
<1>7. CASE StepFaults(t)
  <2>1. tasks[t].status = "running" /\ ~sched.closing /\ Ended(t) /\ UNCHANGED <<registry, up, home>>
    BY <1>7 DEF StepFaults, Decides
  <2>2. CASE Commit(Kick(sched), WithOutcome(tasks, edges, t, "failed"), edges)
    <3>1. Writes(WithOutcome(tasks, edges, t, "failed"), edges)
      BY <1>1, <2>1, OutcomeWrites DEF Outcomes
    <3> QED BY <2>1, <2>2, <3>1, EndingCommit
  <2>3. CASE sched' = Kick(sched) /\ UNCHANGED <<tasks, edges>>
    BY <1>3, <2>1, <2>3
  <2> QED BY <1>7, <2>2, <2>3 DEF StepFaults
<1> QED BY <1>4, <1>5, <1>6, <1>7 DEF Steps

\* The records of a reconcile pass, seen against the committed ones.
LEMMA FinalRecordsDef ==
  ASSUME TypeOK, NEW checks
  PROVE \E F \in SUBSET Tasks :
          /\ \A t \in Tasks : t \in F <=> tasks[t].status = "completing" /\ OwnedLive(tasks, edges, t) \subseteq F
          /\ \A t \in Tasks : /\ FinalRecords(checks)[t].mark <=> tasks[t].mark \/ t \in ReconcileMarks(checks)
                              /\ t \in F => FinalRecords(checks)[t].status = "terminal"
                              /\ t \notin F /\ t \notin ReconcileMarks(checks) => FinalRecords(checks)[t] = tasks[t]
                              /\ t \notin F => FinalRecords(checks)[t].status = tasks[t].status
<1> DEFINE S == ReconcileMarks(checks)
           M == Marked(S)
           T == FinalRecords(checks)
<1>1. /\ M \in [Tasks -> TaskRecord]
      /\ \A t \in Tasks : /\ M[t].status = tasks[t].status /\ M[t].owner = tasks[t].owner /\ M[t].conv = tasks[t].conv
                          /\ M[t].background = tasks[t].background
                          /\ M[t].mark <=> tasks[t].mark \/ t \in S
  <2>1. \A t \in Tasks : t \in S => IsLive(tasks, t)
    BY DEF ReconcileMarks
  <2> HIDE DEF S
  <2> QED BY <2>1, MarkWrites
<1>2. \A t \in Tasks : t \notin S => M[t] = tasks[t]
  BY DEF Marked
<1>3. T = Finalize(M, edges)
  BY DEF FinalRecords, MarkedRecords
<1> HIDE DEF S, M, T
<1>4. PICK F \in SUBSET Tasks :
        /\ \A t \in Tasks : t \in F <=> M[t].status = "completing" /\ OwnedLive(M, edges, t) \subseteq F
        /\ T = [t \in Tasks |-> IF t \in F THEN [M[t] EXCEPT !.status = "terminal"] ELSE M[t]]
  BY <1>3, FinalizeDef
<1>5. \A t \in Tasks : OwnedLive(M, edges, t) = OwnedLive(tasks, edges, t)
  <2> SUFFICES ASSUME NEW t \in Tasks PROVE OwnedLive(M, edges, t) = OwnedLive(tasks, edges, t)
    OBVIOUS
  <2>1. \A u \in Tasks : IsLive(tasks, u) => (u \in OwnedLive(M, edges, t) <=> IsLive(M, u) /\ u \in OwnedLive(tasks, edges, t))
    BY <1>1, SameTree
  <2>2. \A u \in Tasks : IsLive(M, u) <=> IsLive(tasks, u)
    BY <1>1 DEF IsLive
  <2>3. \A A, u : u \in OwnedLive(A, edges, t) => u \in Tasks /\ IsLive(A, u)
    BY DEF OwnedLive
  <2> QED BY <2>1, <2>2, <2>3
<1>6. ASSUME NEW t \in F PROVE T[t].status = "terminal" /\ T[t].mark = M[t].mark
  <2>1. M[t] \in TaskRecord /\ T[t] = [M[t] EXCEPT !.status = "terminal"]
    BY <1>1, <1>4
  <2> QED BY <2>1 DEF TaskRecord
<1>7. \A t \in Tasks \ F : T[t] = M[t]
  BY <1>4
<1>8. \A t \in Tasks : t \in F <=> tasks[t].status = "completing" /\ OwnedLive(tasks, edges, t) \subseteq F
  BY <1>1, <1>4, <1>5
<1>9. \A t \in Tasks : /\ T[t].mark <=> tasks[t].mark \/ t \in S
                       /\ t \in F => T[t].status = "terminal"
                       /\ t \notin F /\ t \notin S => T[t] = tasks[t]
                       /\ t \notin F => T[t].status = tasks[t].status
  BY <1>1, <1>2, <1>6, <1>7
<1> QED BY <1>8, <1>9 DEF S, T

\* The queue without its first pass.
LEMMA RestFacts ==
  ASSUME TypeOK, sched.passes # <<>>, NEW rest, rest = [sched EXCEPT !.passes = Tail(@)]
  PROVE /\ SchedOK(rest) /\ rest.retry = sched.retry /\ rest.checks = sched.checks /\ rest.closing = sched.closing
        /\ rest.enabled = sched.enabled /\ rest.drain = sched.drain /\ rest.missed = sched.missed
        /\ Head(sched.passes) \in SUBSET Tasks
        /\ \A w \in Tasks : w \in Pending(sched) => w \in Pending(rest) \/ w \in Head(sched.passes)
<1> DEFINE q == sched.passes
<1>1. q \in Seq(SUBSET Tasks) /\ Len(q) <= 2 /\ q # <<>>
  BY DEF TypeOK, Scheduled
<1>2. rest = [sched EXCEPT !.passes = Tail(q)]
  OBVIOUS
<1>3. sched \in Scheduled
  BY DEF TypeOK
<1> HIDE DEF q
<1>4. Head(q) \in SUBSET Tasks /\ Tail(q) \in Seq(SUBSET Tasks) /\ Len(Tail(q)) = Len(q) - 1 /\ Len(q) \in Nat /\ Len(q) > 0
  BY <1>1
<1>5. \A i \in 1..Len(Tail(q)) : Tail(q)[i] = q[i + 1]
  BY <1>1
<1>6. Head(q) = q[1]
  BY <1>1
<1>7. \A w : (\E i \in 1..Len(q) : w \in q[i]) => w \in Head(q) \/ \E i \in 1..Len(Tail(q)) : w \in Tail(q)[i]
  <2> SUFFICES ASSUME NEW w, NEW i \in 1..Len(q), w \in q[i], i # 1
               PROVE \E j \in 1..Len(Tail(q)) : w \in Tail(q)[j]
    BY <1>6
  <2>1. i - 1 \in 1..Len(Tail(q)) /\ (i - 1) + 1 = i
    BY <1>4
  <2>2. Tail(q)[i - 1] = q[i]
    BY <1>5, <2>1
  <2> QED BY <2>1, <2>2
<1>8. /\ rest \in Scheduled /\ rest.passes = Tail(q) /\ rest.retry = sched.retry /\ rest.checks = sched.checks
      /\ rest.closing = sched.closing
      /\ rest.enabled = sched.enabled /\ rest.drain = sched.drain /\ rest.missed = sched.missed
  BY <1>2, <1>3, <1>4 DEF Scheduled
<1>9. SchedOK(rest)
  <2>1. Len(rest.passes) <= 2
    BY <1>1, <1>4, <1>8
  <2> QED BY <1>8, <2>1 DEF SchedOK
<1>10. \A w \in Tasks : w \in Pending(sched) => w \in Pending(rest) \/ w \in Head(q)
  BY <1>7, <1>8 DEF Pending, q
<1> QED BY <1>4, <1>8, <1>9, <1>10 DEF q

LEMMA NeededFacts ==
  ASSUME NEW s, SchedOK(s), ~s.closing, NEW T, NEW E, Needed(s, T, E), NEW o, o = Observed(s, T, E)
  PROVE /\ o.passes # <<>> /\ ~o.retry /\ o.checks = {}
        /\ \A w \in Pending(s) \cup WaitsBy(T) \cup AffectedBy(T) : w \in Pending(o) \/ w \in EndedBy(T)
<1>1. /\ o.passes # <<>> /\ ~o.retry /\ o.checks = {}
      /\ \A w \in Tasks : w \in Pending(o) <=>
           \/ w \in (s.checks \ EndedBy(T)) \cup WaitsBy(T) \cup AffectedBy(T)
           \/ \E i \in 1..Len(s.passes) : w \in s.passes[i]
  BY ObservedFacts
<1>2. Pending(s) \cup WaitsBy(T) \cup AffectedBy(T) \subseteq Tasks
  BY DEF Pending, WaitsBy, AffectedBy, Changed
<1>3. \A w \in Pending(s) : w \in s.checks \/ \E i \in 1..Len(s.passes) : w \in s.passes[i]
  BY DEF Pending
<1> QED BY <1>1, <1>2, <1>3

\* A pass that changes nothing proves that there is nothing to derive, but for
\* the waits other passes check; one that changes something is followed by another.
LEMMA ReconcileDerives ==
  ASSUME TypeOK, Shape, sched.passes # <<>>, ~sched.closing, Derived(sched, tasks, edges),
         NEW checks, NEW rest, SchedOK(rest), rest.retry = sched.retry, rest.checks = sched.checks, ~rest.closing,
         \A w \in Tasks : w \in Pending(sched) => w \in Pending(rest) \/ w \in checks,
         NEW T, T = FinalRecords(checks),
         NEW o, T = tasks => o = rest, T # tasks => o = Observed(rest, T, edges)
  PROVE Derived(o, T, edges)
<1>1. /\ SchedOK(rest) /\ rest.retry = sched.retry /\ rest.checks = sched.checks /\ ~rest.closing
      /\ \A w \in Tasks : w \in Pending(sched) => w \in Pending(rest) \/ w \in checks
  OBVIOUS
<1>2. Writes(T, edges)
  BY ReconcileWrites
<1>3. PICK F \in SUBSET Tasks :
        /\ \A t \in Tasks : t \in F <=> tasks[t].status = "completing" /\ OwnedLive(tasks, edges, t) \subseteq F
        /\ \A t \in Tasks : /\ T[t].mark <=> tasks[t].mark \/ t \in ReconcileMarks(checks)
                            /\ t \in F => T[t].status = "terminal"
                            /\ t \notin F /\ t \notin ReconcileMarks(checks) => T[t] = tasks[t]
                            /\ t \notin F => T[t].status = tasks[t].status
  BY FinalRecordsDef
<1>4. ASSUME NEW w \in checks, NEW m \in tasks[w].on, NEW u \in tasks[w].on, tasks[w].status = "waiting",
             FailedOutcome(tasks[m]), u \in Tasks, IsLive(tasks, u), ~FailedOutcome(tasks[u])
      PROVE T[u].mark
  <2>1. u \in ReconcileMarks(checks)
    BY <1>4 DEF ReconcileMarks
  <2> QED BY <1>3, <1>4, <2>1
<1>5. ASSUME NEW w \in Unapplied(T), w \notin WaitsBy(T), w \notin AffectedBy(T)
      PROVE w \in Pending(rest)
  <2>1. /\ w \in Unapplied(tasks)
        /\ \E m \in tasks[w].on : FailedOutcome(tasks[m])
        /\ \E u \in tasks[w].on : u \in Tasks /\ IsLive(tasks, u) /\ ~FailedOutcome(tasks[u]) /\ ~T[u].mark
    BY <1>2, <1>5, UnappliedKept
  <2>2. w \in Tasks /\ tasks[w].status = "waiting" /\ w \in Pending(sched)
    BY <2>1 DEF Unapplied, Derived
  <2>3. w \notin checks
    BY <1>4, <2>1, <2>2
  <2> QED BY <1>1, <2>2, <2>3
<1>6. CASE T = tasks
  <2>1. o = rest
    BY <1>6
  <2>2. WaitsBy(T) = {} /\ AffectedBy(T) = {}
    BY <1>6 DEF WaitsBy, AffectedBy, FailedBy, Changed
  <2>3. Unapplied(T) \subseteq Pending(o)
    BY <1>5, <2>1, <2>2
  <2>4. MarksDown(T, edges)
    <3> SUFFICES ASSUME NEW t \in Tasks, IsLive(tasks, t), ~tasks[t].background, BelowCancelled(tasks, edges, t)
                 PROVE tasks[t].mark
      BY <1>6 DEF MarksDown
    <3>1. t \in ReconcileMarks(checks)
      BY DEF ReconcileMarks
    <3> QED BY <1>3, <1>6, <3>1
  <2>5. HeldForWork(T, edges)
    <3> SUFFICES ASSUME NEW t \in Tasks, tasks[t].status = "completing", OwnedLive(tasks, edges, t) = {} PROVE FALSE
      BY <1>6 DEF HeldForWork
    <3> QED BY <1>3, <1>6
  <2> QED BY <1>1, <2>1, <2>3, <2>4, <2>5 DEF Derived
<1>7. CASE T # tasks
  <2>1. o = Observed(rest, T, edges)
    BY <1>7
  <2>2. PICK t \in Tasks : T[t] # tasks[t]
    BY <1>2, <1>7 DEF Writes, Records, TypeOK
  <2>3. t \in EndedBy(T) \cup MarkedBy(T)
    <3>1. CASE t \in F
      BY <1>3, <2>2, <3>1 DEF EndedBy, Changed
    <3>2. CASE t \notin F
      <4>1. t \in ReconcileMarks(checks) /\ T[t].mark /\ T[t].status = tasks[t].status
        BY <1>3, <2>2, <3>2
      <4>2. IsLive(T, t)
        BY <4>1 DEF ReconcileMarks, IsLive
      <4>3. ~tasks[t].mark
        <5> SUFFICES ASSUME tasks[t].mark PROVE FALSE
          OBVIOUS
        <5>1. [tasks[t] EXCEPT !.mark = TRUE] = tasks[t]
          BY DEF TypeOK, TaskRecord
        <5>2. Marked(ReconcileMarks(checks))[t] = tasks[t]
          BY <5>1 DEF Marked
        <5>3. PICK G \in SUBSET Tasks :
                /\ \A u \in Tasks : u \in G <=> MarkedRecords(checks)[u].status = "completing" /\ OwnedLive(MarkedRecords(checks), edges, u) \subseteq G
                /\ T = [u \in Tasks |-> IF u \in G THEN [MarkedRecords(checks)[u] EXCEPT !.status = "terminal"] ELSE MarkedRecords(checks)[u]]
          BY FinalizeDef DEF FinalRecords
        <5>4. t \notin G
          <6>1. t \in G => T[t] = [tasks[t] EXCEPT !.status = "terminal"]
            BY <5>2, <5>3 DEF MarkedRecords
          <6>2. [tasks[t] EXCEPT !.status = "terminal"].status = "terminal"
            BY DEF TypeOK, TaskRecord
          <6>3. tasks[t].status # "terminal"
            BY <4>1 DEF ReconcileMarks, IsLive, Live
          <6> QED BY <4>1, <6>1, <6>2, <6>3
        <5> QED BY <2>2, <5>2, <5>3, <5>4 DEF MarkedRecords
      <4> QED BY <2>2, <4>1, <4>2, <4>3 DEF MarkedBy, Changed
    <3> QED BY <3>1, <3>2
  <2>4. Needed(rest, T, edges)
    BY <2>3 DEF Needed
  <2>5. /\ o.passes # <<>> /\ ~o.retry /\ o.checks = {}
        /\ \A w \in Pending(rest) \cup WaitsBy(T) \cup AffectedBy(T) : w \in Pending(o) \/ w \in EndedBy(T)
    BY <1>1, <2>1, <2>4, NeededFacts
  <2>6. \A w \in Unapplied(T) : w \in Tasks /\ w \notin EndedBy(T)
    BY DEF Unapplied, EndedBy
  <2>7. Unapplied(T) \subseteq Pending(o)
    BY <1>5, <2>5, <2>6
  <2> QED BY <2>5, <2>7 DEF Derived
<1> QED BY <1>6, <1>7

LEMMA ReconcileStep == ASSUME Inv, Reconcile PROVE StepOK
<1> DEFINE checks == Head(sched.passes)
           rest == [sched EXCEPT !.passes = Tail(@)]
           T == FinalRecords(checks)
<1>1. TypeOK /\ Shape /\ up /\ sched.passes # <<>> /\ UNCHANGED <<registry, inv, up, home>>
  BY DEF Inv, Reconcile
<1>2. /\ SchedOK(rest) /\ rest.retry = sched.retry /\ rest.checks = sched.checks /\ rest.closing = sched.closing
      /\ rest.enabled = sched.enabled /\ rest.drain = sched.drain /\ rest.missed = sched.missed
      /\ checks \in SUBSET Tasks
      /\ \A w \in Tasks : w \in Pending(sched) => w \in Pending(rest) \/ w \in checks
  BY <1>1, RestFacts
<1>3. Writes(T, edges)
  BY <1>1, ReconcileWrites
<1>4. \/ ~sched.closing /\ Commit(rest, T, edges)
      \/ sched.closing /\ sched' = rest /\ UNCHANGED <<tasks, edges>>
      \/ /\ ~sched.closing /\ sched' = [rest EXCEPT !.retry = TRUE, !.checks = @ \cup checks]
         /\ UNCHANGED <<tasks, edges>>
  BY DEF Reconcile, FinalRecords, MarkedRecords, Marked
<1>5. CASE ~sched.closing /\ Commit(rest, T, edges)
  <2> HIDE DEF rest, T
  <2>1. /\ tasks' = T /\ edges' = edges /\ SchedOK(sched') /\ Shape' /\ \A t \in Tasks : tasks'[t].owner < t
        /\ sched' = IF <<T, edges>> = <<tasks, edges>> THEN rest ELSE Observed(rest, T, edges)
    BY <1>1, <1>2, <1>3, <1>5, CommitStep DEF Writes
  <2>2. sched' = IF T = tasks THEN rest ELSE Observed(rest, T, edges)
    BY <2>1
  <2>3. TypeOK'
    BY <1>1, <1>3, <2>1 DEF TypeOK, SchedOK, Writes, Records
  <2>4. OrphanNeverHolds'
    BY <1>3, <2>1 DEF OrphanNeverHolds, Writes, Settles, Evolves, Forward, Inv
  <2>5. Derived(sched, tasks, edges)
    BY <1>1, <1>5 DEF Inv, Wakeups
  <2>6. Derived(sched', T, edges)
    <3> HIDE DEF checks
    <3>1. T = FinalRecords(checks)
      BY DEF T
    <3> QED BY <1>1, <1>2, <1>5, <2>2, <2>5, <3>1, ReconcileDerives
  <2>7. Wakeups'
    BY <2>1, <2>6 DEF Wakeups
  <2>8. ReservedWork'
    <3>1. CASE T = tasks
      <4>1. sched' = rest
        BY <2>2, <3>1
      <4> QED BY <1>1, <1>2, <2>1, <3>1, <4>1 DEF Inv, ReservedWork, Eligible, WaitingOn
    <3>2. CASE T # tasks
      <4>1. Changed(T) # {}
        BY <1>1, <1>3, <3>2 DEF Changed, Writes, Records, TypeOK
      <4>2. /\ sched'.enabled = sched.enabled /\ sched'.closing = sched.closing
            /\ sched.enabled /\ ~sched.closing => sched'.drain # "idle"
        BY <1>2, <2>2, <3>2, <4>1, ObservedFacts
      <4> QED BY <4>2 DEF ReservedWork
    <3> QED BY <3>1, <3>2
  <2> QED BY <1>3, <2>1, <2>3, <2>4, <2>7, <2>8 DEF StepOK, Inv
<1>6. CASE sched.closing /\ sched' = rest /\ UNCHANGED <<tasks, edges>>
  <2> HIDE DEF rest
  <2>1. ReservedWork'
    BY <1>2, <1>6 DEF ReservedWork
  <2> QED BY <1>1, <1>2, <1>6, <2>1, PlainStep DEF TypeOK
<1>7. CASE /\ ~sched.closing /\ sched' = [rest EXCEPT !.retry = TRUE, !.checks = @ \cup checks]
           /\ UNCHANGED <<tasks, edges>>
  <2> HIDE DEF rest, checks
  <2>1. /\ SchedOK(sched') /\ sched'.retry /\ sched'.passes = rest.passes /\ sched'.checks = rest.checks \cup checks
        /\ sched'.closing = rest.closing /\ sched'.enabled = rest.enabled /\ sched'.drain = rest.drain
        /\ sched'.missed = rest.missed
    BY <1>2, <1>7 DEF SchedOK, Scheduled
  <2>2. \A w \in Tasks : w \in Pending(sched) => w \in Pending(sched')
    BY <1>2, <2>1 DEF Pending
  <2>3. Derived(sched, tasks, edges) => Derived(sched', tasks, edges)
    BY <2>1, <2>2 DEF Derived, Unapplied
  <2>4. ReservedWork'
    BY <1>1, <1>2, <1>7, <2>1 DEF Inv, ReservedWork, Eligible, WaitingOn
  <2> QED BY <1>1, <1>2, <1>7, <2>1, <2>3, <2>4, PlainStep DEF TypeOK
<1> QED BY <1>4, <1>5, <1>6, <1>7

LEMMA ReserveStep == ASSUME Inv, Reserve PROVE StepOK
<1> DEFINE mode(t) == IF tasks[t].mark THEN "abort" ELSE "run"
           starts(t) == [mode |-> mode(t), pc |-> IF mode(t) = "run" THEN "step" ELSE "phase",
                         last |-> "none", def |-> registry]
<1>1. TypeOK /\ Shape /\ SchedOK(sched) /\ UNCHANGED <<registry, up, home>> /\ sched.drain # "idle"
  BY DEF Inv, TypeOK, SchedOK, Reserve
<1>2. \/ /\ ~sched.closing /\ Commit(PassDone(sched), ReservedRecords, edges)
         /\ inv' = [t \in Tasks |-> IF t \in {u \in Tasks : Eligible(u)} /\ registry # 0 THEN starts(t) ELSE inv[t]]
      \/ /\ sched' = [PassDone(sched) EXCEPT !.missed = sched.drain = "reserving"]
         /\ UNCHANGED <<tasks, edges, inv>>
  BY DEF Reserve, ReservedRecords, TakenRecord
<1>3. \A t \in Tasks : starts(t) \in Invocations /\ starts(t) # NoInv
  <2> SUFFICES ASSUME NEW t \in Tasks PROVE starts(t) \in Invocations /\ starts(t) # NoInv
    OBVIOUS
  <2>1. mode(t) \in {"run", "abort"} /\ registry \in Definitions
    BY <1>1 DEF TypeOK
  <2> HIDE DEF mode
  <2>2. starts(t) \in Invocations
    BY <2>1 DEF Invocations
  <2>3. starts(t).mode # NoInv.mode
    BY <2>1 DEF NoInv
  <2> QED BY <2>2, <2>3
<1> HIDE DEF starts
<1>4. Listens(PassDone(sched)) /\ Pending(PassDone(sched)) = Pending(sched)
  BY <1>1, SchedTyped, PendingSame
<1>5. CASE /\ ~sched.closing /\ Commit(PassDone(sched), ReservedRecords, edges)
           /\ inv' = [t \in Tasks |-> IF t \in {u \in Tasks : Eligible(u)} /\ registry # 0 THEN starts(t) ELSE inv[t]]
  <2>1. Writes(ReservedRecords, edges)
    BY <1>1, ReserveWrites
  <2>2. /\ tasks' \in [Tasks -> TaskRecord] /\ edges' \in [Convs -> Edges] /\ \A t \in Tasks : tasks'[t].owner < t
        /\ SchedOK(sched') /\ Shape' /\ OrphanNeverHolds' /\ Wakeups'
        /\ sched'.closing = sched.closing /\ sched'.enabled = sched.enabled
        /\ Changed(tasks') # {} /\ sched.enabled => sched'.drain # "idle"
        /\ Changed(tasks') = {} => tasks' = tasks
    BY <1>1, <1>4, <1>5, <2>1, CommitKeeps
  <2>3. tasks' = ReservedRecords /\ edges' = edges
    BY <1>5 DEF Commit
  <2>4. inv' \in [Tasks -> Invocations]
    BY <1>1, <1>3, <1>5 DEF TypeOK
  <2>5. TypeOK'
    BY <1>1, <2>2, <2>4 DEF TypeOK, SchedOK
  <2>6. ReservedWork'
    <3> SUFFICES ASSUME sched.enabled, sched'.drain = "idle", NEW t \in Tasks, Eligible(t)'
                 PROVE registry = 0 /\ ~tasks'[t].mark
      BY <1>1, <2>2 DEF ReservedWork
    <3>1. tasks' = tasks
      BY <2>2
    <3>2. inv'[t] = NoInv
      BY DEF Eligible
    <3>3. ~(Eligible(t) /\ registry # 0)
      BY <1>3, <1>5, <3>2
    <3>4. inv[t] = NoInv
      BY <1>5, <3>2, <3>3
    <3>5. Eligible(t)
      BY <2>3, <3>1, <3>4 DEF Eligible, WaitingOn
    <3>6. ~tasks[t].mark
      <4> SUFFICES ASSUME tasks[t].mark PROVE FALSE
        OBVIOUS
      <4>1. tasks[t].status \in {"pending", "running", "waiting"} /\ TakenRecord(t).status = "terminal"
        BY <1>1, <3>3, <3>5, TakenForward
      <4>2. tasks'[t] = TakenRecord(t)
        BY <2>3, <3>5 DEF ReservedRecords
      <4> QED BY <3>1, <4>1, <4>2
    <3> QED BY <3>1, <3>3, <3>5, <3>6
  <2> QED BY <2>1, <2>2, <2>3, <2>5, <2>6 DEF StepOK, Inv
<1>6. CASE /\ sched' = [PassDone(sched) EXCEPT !.missed = sched.drain = "reserving"]
           /\ UNCHANGED <<tasks, edges, inv>>
  <2>1. /\ SchedOK(sched') /\ sched'.passes = sched.passes /\ sched'.retry = sched.retry /\ sched'.checks = sched.checks
        /\ sched'.closing = sched.closing /\ sched'.drain = PassDone(sched).drain
        /\ sched'.missed = (sched.drain = "reserving")
    BY <1>4, <1>6 DEF Listens, SchedOK, Scheduled
  <2>2. Derived(sched, tasks, edges) => Derived(sched', tasks, edges)
    BY <2>1 DEF Derived, Pending
  <2>3. ReservedWork'
    <3>1. ~sched.closing /\ PassDone(sched).drain = "idle" => sched.drain = "reserving"
      BY <1>1 DEF PassDone, SchedOK, Scheduled
    <3> QED BY <2>1, <3>1 DEF ReservedWork
  <2> QED BY <1>1, <1>6, <2>1, <2>2, <2>3, PlainStep DEF TypeOK
<1> QED BY <1>2, <1>5, <1>6

LEMMA StepKeepsInv == ASSUME Inv, Next PROVE StepOK
<1>1. CASE Lifecycle
  BY <1>1, LifecycleStep
<1>2. CASE Host
  BY <1>2, HostStep
<1>3. CASE Passes
  BY <1>3, ReconcileStep, ReserveStep DEF Passes
<1>4. ASSUME NEW t \in Tasks, Steps(t) \/ Handler(t) PROVE StepOK
  BY <1>4, InvocationStep, HandlerStep
<1> QED BY <1>1, <1>2, <1>3, <1>4 DEF Next

LEMMA InitInv == ASSUME Init PROVE Inv
<1>1. Absent \in TaskRecord /\ Absent.owner = 0 /\ Absent.status = "absent" /\ Absent.conv = Root
  BY SchedulerAssumption DEF Absent, TaskRecord, Statuses, Outcomes, Policies
<1>2. \A t \in Tasks : tasks[t] = Absent
  BY DEF Init
<1>3. edges \in [Convs -> Edges] /\ edges[Root] = 0 /\ \A c \in Convs : ~(edges[c] > 0)
  BY SchedulerAssumption DEF Init, Edges
<1>4. TypeOK
  <2>1. inv \in [Tasks -> Invocations]
    BY NoInvTyped DEF Init
  <2>2. tasks \in [Tasks -> TaskRecord] /\ \A t \in Tasks : tasks[t].owner < t
    BY <1>1, <1>2, SchedulerAssumption DEF Init, Tasks
  <2>3. registry \in Definitions /\ up \in BOOLEAN /\ home \in Homes
    BY SchedulerAssumption DEF Init
  <2> QED BY <1>3, <2>1, <2>2, <2>3, InitSchedOK DEF TypeOK, Init, SchedOK
<1>5. Shape
  BY <1>1, <1>2, <1>3 DEF Shape, ShapeOf
<1>6. OrphanNeverHolds
  BY <1>1, <1>2 DEF OrphanNeverHolds
<1>7. Wakeups /\ ReservedWork
  BY DEF Init, Wakeups, ReservedWork
<1> QED BY <1>4, <1>5, <1>6, <1>7 DEF Inv

LEMMA StutterKeepsInv == ASSUME Inv, UNCHANGED vars PROVE Inv'
<1>1. TypeOK' /\ Shape' /\ OrphanNeverHolds'
  BY DEF Inv, vars, TypeOK, Shape, OrphanNeverHolds
<1>2. Wakeups'
  BY DEF Inv, vars, Wakeups
<1>3. ReservedWork'
  BY DEF Inv, vars, ReservedWork, Eligible, WaitingOn
<1> QED BY <1>1, <1>2, <1>3 DEF Inv

\* The invariant holds for any number of tasks, any ownership trees, any
\* definitions that come and go, any faults.
THEOREM SchedulerInvariant == Spec => []Inv
<1>1. Inv /\ [Next]_vars => Inv'
  BY StepKeepsInv, StutterKeepsInv DEF StepOK
<1>2. Init => Inv
  BY InitInv
<1> QED BY <1>1, <1>2, PTL DEF Spec

----------------------------------------------------------------------------
(* The properties.                                                         *)

\* When every held outcome holds for something, none is to be made final: the
\* youngest task of a set that #finalize could end would own nothing live.
LEMMA NothingToFinalize ==
  ASSUME TypeOK, HeldForWork(tasks, edges) PROVE Finalize(tasks, edges) = tasks
<1>1. PICK F \in SUBSET Tasks :
        /\ \A t \in Tasks : t \in F <=> tasks[t].status = "completing" /\ OwnedLive(tasks, edges, t) \subseteq F
        /\ Finalize(tasks, edges) = [t \in Tasks |-> IF t \in F THEN [tasks[t] EXCEPT !.status = "terminal"] ELSE tasks[t]]
  BY FinalizeDef
<1>2. F = {}
  <2> SUFFICES ASSUME F # {} PROVE FALSE
    OBVIOUS
  <2> DEFINE D == {n \in Nat : \E t \in F : n = N - t}
  <2>1. D \subseteq Nat /\ D # {}
    <3>1. PICK t \in F : TRUE
      OBVIOUS
    <3>2. N - t \in Nat
      BY SchedulerAssumption DEF Tasks
    <3> QED BY <3>2
  <2>2. PICK n \in D : \A k \in D : n <= k
    <3> HIDE DEF D
    <3> QED BY <2>1, Least
  <2>3. PICK t \in F : n = N - t
    BY <2>2
  <2>4. PICK u \in OwnedLive(tasks, edges, t) : TRUE
    BY <1>1, <2>3 DEF HeldForWork
  <2>5. u \in F /\ u \in Tasks /\ t \in CountsFor(tasks, edges)[u]
    BY <1>1, <2>4 DEF OwnedLive
  <2>6. t < u /\ t \in Tasks
    BY <2>5, OwnersAreOlder, TasksAreNumbers
  <2>7. N - u \in D /\ N - u < n
    BY <2>3, <2>5, <2>6, SchedulerAssumption DEF Tasks
  <2> QED BY <2>2, <2>7
<1> QED BY <1>1, <1>2 DEF TypeOK

\* No wakeup is lost: when nothing is scheduled, #reconcile would derive no
\* mark and no final record, and #reserve would find no task to start.
THEOREM NoWakeupIsLost == Spec => []NothingForgotten
<1>1. Inv => NothingForgotten
  <2> SUFFICES ASSUME Inv, Quiet
               PROVE /\ ReconcileMarks({t \in Tasks : tasks[t].policy = "failFast"}) \subseteq {t \in Tasks : tasks[t].mark}
                     /\ Finalize(tasks, edges) = tasks
                     /\ \A t \in Tasks : Eligible(t) => registry = 0 /\ ~tasks[t].mark
    BY DEF NothingForgotten
  <2>1. Derived(sched, tasks, edges)
    BY DEF Inv, Wakeups, Quiet
  <2>2. MarksDown(tasks, edges) /\ HeldForWork(tasks, edges) /\ Unapplied(tasks) = {}
    <3>1. Pending(sched) = {}
      BY <2>1 DEF Derived, Quiet, Pending
    <3> QED BY <2>1, <3>1 DEF Derived, Quiet
  <2>3. ASSUME NEW t \in ReconcileMarks({w \in Tasks : tasks[w].policy = "failFast"}) PROVE t \in Tasks /\ tasks[t].mark
    <3>1. t \in Tasks /\ IsLive(tasks, t)
      BY <2>3 DEF ReconcileMarks
    <3>2. CASE ~tasks[t].background /\ BelowCancelled(tasks, edges, t)
      BY <2>2, <3>1, <3>2 DEF MarksDown
    <3>3. CASE \E w \in {w \in Tasks : tasks[w].policy = "failFast"} :
                 /\ tasks[w].status = "waiting"
                 /\ \E m \in tasks[w].on : FailedOutcome(tasks[m])
                 /\ t \in tasks[w].on /\ ~FailedOutcome(tasks[t])
      <4>1. PICK w \in {w \in Tasks : tasks[w].policy = "failFast"} :
                 /\ tasks[w].status = "waiting"
                 /\ \E m \in tasks[w].on : FailedOutcome(tasks[m])
                 /\ t \in tasks[w].on /\ ~FailedOutcome(tasks[t])
        BY <3>3
      <4>2. w \notin Unapplied(tasks)
        BY <2>2
      <4> QED BY <3>1, <4>1, <4>2 DEF Unapplied
    <3> QED BY <2>3, <3>1, <3>2, <3>3 DEF ReconcileMarks
  <2>4. Finalize(tasks, edges) = tasks
    BY <2>2, NothingToFinalize DEF Inv
  <2>5. \A t \in Tasks : Eligible(t) => registry = 0 /\ ~tasks[t].mark
    BY DEF Inv, ReservedWork, Quiet
  <2> QED BY <2>3, <2>4, <2>5
<1> QED BY <1>1, SchedulerInvariant, PTL

\* #terminate never holds an orphaned outcome: both places that write one do so
\* only for a task below which nothing ordinary is live.
THEOREM OrphansNeverHold == Spec => []OrphanNeverHolds
<1>1. Inv => OrphanNeverHolds
  BY DEF Inv
<1> QED BY <1>1, SchedulerInvariant, PTL

\* Records, edges, invocations and what is scheduled are well formed.
THEOREM SchedulerTyped == Spec => []TypeOK
<1>1. Inv => TypeOK
  BY DEF Inv
<1> QED BY <1>1, SchedulerInvariant, PTL

\* A terminal receipt is written only over drained work, by a handler's own
\* commit, a fault, an orphaning or a reconcile pass.
THEOREM ReceiptsFollowDrain == Spec => FinishedMeansDrained
<1> DEFINE A == \A t \in Tasks : (tasks'[t].status = "terminal" /\ tasks[t].status # "terminal")
                                  => OwnedLive(tasks', edges', t) = {}
<1>1. ASSUME Inv, [Next]_vars PROVE [A]_vars
  <2>1. CASE UNCHANGED vars
    BY <2>1
  <2>2. CASE Next
    <3>1. UNCHANGED <<tasks, edges>> \/ Writes(tasks', edges')
      BY <1>1, <2>2, StepKeepsInv DEF StepOK
    <3> QED BY <3>1 DEF Writes, Settles
  <2> QED BY <1>1, <2>1, <2>2
<1> QED BY <1>1, SchedulerInvariant, PTL DEF Spec, FinishedMeansDrained

\* Only a reservation starts an abort invocation, and only over drained work.
THEOREM AbortsAreBottomUp == Spec => AbortsRunBottomUp
<1> DEFINE A == \A t \in Tasks : (inv'[t].mode = "abort" /\ inv[t].mode # "abort")
                                  => OwnedLive(tasks', edges', t) = {}
<1>1. ASSUME Inv, [Next]_vars PROVE [A]_vars
  <2>1. TypeOK /\ Shape
    BY <1>1 DEF Inv
  <2>2. ASSUME \A t \in Tasks : inv'[t].mode = inv[t].mode \/ inv'[t] = NoInv PROVE A
    BY <2>2 DEF NoInv
  <2>3. CASE UNCHANGED vars
    BY <2>3
  <2>4. CASE Lifecycle
    BY <2>2, <2>4 DEF Lifecycle, OpenHarness, Resume, Seal, Closed, Crash, SetRegistry
  <2>5. CASE Host
    BY <2>2, <2>5 DEF Host, CreateTop, Abort, AbortConversation
  <2>6. CASE Reconcile
    BY <2>2, <2>6 DEF Reconcile
  <2>7. CASE Reserve
    <3> SUFFICES ASSUME NEW t \in Tasks, inv'[t].mode = "abort", inv[t].mode # "abort"
                 PROVE OwnedLive(tasks', edges', t) = {}
      OBVIOUS
    <3>1. inv'[t] # inv[t]
      OBVIOUS
    <3>2. Eligible(t) /\ tasks[t].mark /\ edges' = edges /\ tasks' = ReservedRecords
      BY <2>7, <3>1 DEF Reserve, Commit, ReservedRecords, TakenRecord
    <3>3. OwnedLive(tasks, edges, t) = {}
      BY <3>2 DEF Eligible, WaitingOn
    <3>4. Evolves(ReservedRecords, edges)
      BY <2>1, ReserveWrites DEF Writes
    <3>5. \A u \in Tasks : tasks[u].status = "absent" => ReservedRecords[u] = tasks[u]
      BY DEF ReservedRecords, Eligible, Live
    <3> QED BY <2>1, <3>2, <3>3, <3>4, <3>5, NoNewWork
  <2>8. ASSUME NEW t \in Tasks, Steps(t) PROVE A
    <3>1. \A u \in Tasks : inv'[u].mode = inv[u].mode \/ inv'[u] = NoInv
      BY <2>1, <2>8 DEF Steps, StepEnds, StepContinues, StepHandsOver, StepFaults, Ended, TypeOK, Invocations
    <3> QED BY <2>2, <3>1
  <2>9. ASSUME NEW t \in Tasks, Handler(t) PROVE A
    <3>1. \A u \in Tasks : inv'[u].mode = inv[u].mode
      <4>1. CASE HandlerReturns(t)
        BY <2>1, <4>1 DEF HandlerReturns, TypeOK, Invocations
      <4>2. CASE HandlerProgresses(t)
        BY <2>1, <4>2 DEF HandlerProgresses, TypeOK, Invocations
      <4>3. CASE UNCHANGED inv
        BY <4>3
      <4> QED BY <2>9, <4>1, <4>2, <4>3 DEF Handler, CommitWait, CommitOutcome, CreateChild, CreateConversation, FinishWithWork
    <3> QED BY <2>2, <3>1
  <2> HIDE DEF A
  <2> QED BY <1>1, <2>3, <2>4, <2>5, <2>6, <2>7, <2>8, <2>9 DEF Next, Passes
<1> QED BY <1>1, SchedulerInvariant, PTL DEF Spec, AbortsRunBottomUp

\* No commit takes back what an earlier one wrote: ownership, a mark, the
\* outcome that holds, a receipt, a conversation's owner.
THEOREM RecordsMoveForward == Spec => [][Evolves(tasks', edges')]_vars
<1>1. ASSUME Inv, [Next]_vars PROVE [Evolves(tasks', edges')]_vars
  <2>1. CASE UNCHANGED vars
    BY <2>1
  <2>2. CASE Next
    <3>1. UNCHANGED <<tasks, edges>> \/ Writes(tasks', edges')
      BY <1>1, <2>2, StepKeepsInv DEF StepOK
    <3>2. CASE UNCHANGED <<tasks, edges>>
      BY <3>2 DEF Evolves, Forward
    <3> QED BY <3>1, <3>2 DEF Writes
  <2> QED BY <1>1, <2>1, <2>2
<1> QED BY <1>1, SchedulerInvariant, PTL DEF Spec
=============================================================================
