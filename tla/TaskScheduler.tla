--------------------------- MODULE TaskScheduler ---------------------------
(***************************************************************************)
(* The durable task scheduler of one Harness (packages/durable,            *)
(* src/harness/scheduler.ts) with the ownership rules of the transaction   *)
(* it commits through (src/session/transaction.ts).                        *)
(*                                                                         *)
(* Durable state: the task records and the owner edge of every             *)
(* conversation, replaced only by commits that the Session serializes on   *)
(* one line.  Volatile state: one invocation per task, and what the commit *)
(* listener scheduled: a reconcile pass, a reservation pass.  Everything   *)
(* volatile is lost in a crash; records are the only intent that survives. *)
(*                                                                         *)
(* Task identifiers are minted upwards, so an owner's is below the owned   *)
(* task's.  Identifier 0 stands for "no owner".                            *)
(***************************************************************************)
EXTENDS Integers, Sequences, FiniteSets

CONSTANTS
  N,             \* tasks are 1..N
  Homes,         \* the ownership trees to explore, see Init
  Convs,         \* conversations that can exist
  Root,          \* the ownerless root conversation
  Definitions,   \* definition objects the registry may resolve; 0 when none can take the tasks
  Inputs,        \* what hosts and handlers may do: "abort", "abortConversation", and wait policies
  Faults,        \* the faults that may happen: "crash", "close", "reject"
  MaxFaults      \* bound on them

ASSUME SchedulerAssumption ==
  /\ N \in Nat \ {0}
  /\ \A h \in Homes : /\ h \in [1..N -> [owner: 0..N, conv: Convs, background: BOOLEAN]]
                       /\ \A t \in 1..N : h[t].owner < t
  /\ Root \in Convs
  /\ Definitions \subseteq Nat /\ 1 \in Definitions
  /\ Inputs \subseteq {"abort", "abortConversation", "allSettled", "failFast"}
  /\ Faults \subseteq {"crash", "close", "reject"}
  /\ MaxFaults \in Nat

Tasks == 1..N

\* 'absent' is a task identifier not minted yet.
Live == {"pending", "running", "waiting", "completing"}
Statuses == Live \cup {"absent", "terminal"}
\* 'failed' stands for failed, aborted and faulted: the scheduler tells them
\* apart from 'completed' only, and writes 'orphaned' without running task code.
Outcomes == {"none", "completed", "failed", "orphaned"}
Policies == {"none", "allSettled", "failFast"}

\* A conversation edge: -1 not created, 0 ownerless, otherwise the owner task.
Edges == -1..N

TaskRecord ==
  [status: Statuses, owner: 0..N, conv: Convs, background: BOOLEAN, mark: BOOLEAN,
   on: SUBSET Tasks, policy: Policies, outcome: Outcomes]

\* An invocation: 'step' waits for a decision on the line, 'phase' is inside a
\* handler.  'last' judges the previous phase: it left a new checkpoint, or it
\* threw or left none.  'def' is the definition object the invocation started with.
Invocations ==
  [mode: {"none", "run", "abort"}, pc: {"none", "step", "phase"},
   last: {"none", "progress", "fault"}, def: Definitions \cup {0}]

VARIABLES
  home,       \* where each task will be created
  tasks,      \* committed task records
  edges,      \* committed owner edge of each conversation
  registry,   \* the definition that would take the tasks; 0 when none can
  inv,        \* #invocations
  sched,      \* what the listener scheduled, see InitSched
  up,         \* whether a Harness has the session open
  faults      \* faults so far, for the bound

vars == <<home, tasks, edges, registry, inv, sched, up, faults>>

NoInv == [mode |-> "none", pc |-> "none", last |-> "none", def |-> 0]

Absent == [status |-> "absent", owner |-> 0, conv |-> Root, background |-> FALSE, mark |-> FALSE,
           on |-> {}, policy |-> "none", outcome |-> "none"]

\* The record createTask stages for the task with that home.
NewTask(t) ==
  [Absent EXCEPT !.status = "pending", !.owner = home[t].owner, !.conv = home[t].conv,
                 !.background = home[t].background]

\* passes: reconcile passes on the line, each with the failFast waits it took
\* along; retry: a rejected pass left marks to derive, 'checks' its waits;
\* drain: a reservation pass is on the line, or will be followed by 'again';
\* missed (history): the last pass was rejected, and no wakeup came since.
Scheduled ==
  [passes: Seq(SUBSET Tasks), retry: BOOLEAN, checks: SUBSET Tasks,
   drain: {"idle", "reserving", "again"}, missed: BOOLEAN, enabled: BOOLEAN, closing: BOOLEAN]

InitSched ==
  [passes |-> <<>>, retry |-> FALSE, checks |-> {},
   drain |-> "idle", missed |-> FALSE, enabled |-> FALSE, closing |-> FALSE]

----------------------------------------------------------------------------
(* Ownership: walks up the tree.                                           *)

IsLive(T, t) == T[t].status \in Live

\* The owner task next above a task: its own, or its conversation's.
ParentOf(T, E, t) ==
  IF T[t].owner # 0 THEN T[t].owner
  ELSE IF E[T[t].conv] > 0 THEN E[T[t].conv] ELSE 0

\* failedOutcome, cancellationIntent.
FailedOutcome(r) == r.status \in {"completing", "terminal"} /\ r.outcome # "completed"
CancellationIntent(r) == r.status \in Live /\ (r.mark \/ FailedOutcome(r))

\* The owner tasks a live task counts for: every one above it up to and
\* including the first background one.
CountsFor(T, E) ==
  LET above[t \in Tasks] ==
        LET p == ParentOf(T, E, t)
        IN IF p \notin 1..(t - 1) THEN {}
           ELSE {p} \cup (IF T[p].background THEN {} ELSE above[p])
  IN above

\* #ownedLive: the live ordinary owned work of task t.
OwnedLive(T, E, t) ==
  LET above == CountsFor(T, E)
  IN {u \in Tasks : IsLive(T, u) /\ ~T[u].background /\ t \in above[u]}

\* #belowCancelled: walking up finds a live owner with cancellation intent
\* before a background owner without it.
BelowCancelled(T, E, t) ==
  LET below[u \in Tasks] ==
        LET p == ParentOf(T, E, u)
        IN /\ p \in 1..(u - 1)
           /\ CancellationIntent(T[p]) \/ (~T[p].background /\ below[p])
  IN below[t]

\* #inScope: walking up from t reaches conversation c, crossing background
\* owners only when asked to.
InScope(T, E, c, cross) ==
  LET reach[t \in Tasks] ==
        LET p == ParentOf(T, E, t)
        IN \/ T[t].owner = 0 /\ T[t].conv = c
           \/ /\ p \in 1..(t - 1)
              /\ cross \/ ~T[p].background
              /\ reach[p]
  IN reach

\* The owner tasks above t, which it may not wait on.
Owners(T, E, t) ==
  LET above[u \in Tasks] ==
        LET p == ParentOf(T, E, u)
        IN IF p \notin 1..(u - 1) THEN {} ELSE {p} \cup above[p]
  IN above[t]

----------------------------------------------------------------------------
(* The commit listener.                                                    *)

\* #kick: the microtask queues a pass before any later job of the line; a
\* wakeup during a pass is served by another one.
Kick(s) ==
  IF ~s.enabled \/ s.closing THEN s
  ELSE [s EXCEPT !.drain = IF @ = "idle" THEN "reserving" ELSE "again", !.missed = FALSE]

\* #scheduleReconcile: the microtask takes the pending waits along and queues
\* its commit.  One pass on the line and one behind it are told apart; a third
\* would derive the same from the same records.
ScheduleReconcile(s, checks) ==
  IF s.closing THEN s
  ELSE [s EXCEPT !.passes = IF Len(@) < 2 THEN Append(@, checks) ELSE <<@[1], @[2] \cup checks>>,
                 !.checks = {}, !.retry = FALSE]

\* Mutant: an outcome that is held schedules no reconcile.
ObservedMarks(s, T, E) ==
  LET changed   == {t \in Tasks : T[t] # tasks[t]}
      updated   == {t \in changed : IsLive(T, t)}
      newFailed == {t \in changed : FailedOutcome(T[t]) /\ ~FailedOutcome(tasks[t])}
      ended     == {t \in changed : T[t].status = "terminal"}
      newMarks  == {t \in updated : T[t].mark /\ ~tasks[t].mark}
      newFast   == {t \in updated : /\ T[t].status = "waiting" /\ T[t].policy = "failFast"
                                    /\ tasks[t].status # "waiting"}
      affected  == {t \in Tasks : /\ T[t].status = "waiting" /\ T[t].policy = "failFast"
                                  /\ T[t].on \cap newFailed # {}}
      unmarked  == {t \in updated : ~T[t].background /\ ~T[t].mark /\ BelowCancelled(T, E, t)}
      needed    == s.retry \/ ended \cup newMarks \cup newFast \cup affected \cup unmarked # {}
      s1 == IF needed THEN ScheduleReconcile(s, (s.checks \ ended) \cup newFast \cup affected) ELSE s
  IN IF changed = {} THEN s1 ELSE Kick(s1)

\* #observe: what a commit that makes the records T and E leaves scheduled.
Observed(s, T, E) ==
  LET changed   == {t \in Tasks : T[t] # tasks[t]}
      updated   == {t \in changed : IsLive(T, t)}
      newFailed == {t \in changed : FailedOutcome(T[t]) /\ ~FailedOutcome(tasks[t])}
      ended     == {t \in changed : T[t].status = "terminal"}
      held      == {t \in updated : T[t].status = "completing" /\ tasks[t].status # "completing"}
      newMarks  == {t \in updated : T[t].mark /\ ~tasks[t].mark}
      newFast   == {t \in updated : /\ T[t].status = "waiting" /\ T[t].policy = "failFast"
                                    /\ tasks[t].status # "waiting"}
      affected  == {t \in Tasks : /\ T[t].status = "waiting" /\ T[t].policy = "failFast"
                                  /\ T[t].on \cap newFailed # {}}
      unmarked  == {t \in updated : ~T[t].background /\ ~T[t].mark /\ BelowCancelled(T, E, t)}
      needed    == s.retry \/ ended \cup held \cup newMarks \cup newFast \cup affected \cup unmarked # {}
      s1 == IF needed THEN ScheduleReconcile(s, (s.checks \ ended) \cup newFast \cup affected) ELSE s
  IN IF changed = {} THEN s1 ELSE Kick(s1)

\* One commit on the Session line: the records, then the listener.  A callback
\* that stages nothing publishes nothing.
Commit(s, records, E) ==
  \E T \in {records} :
    /\ tasks' = T /\ edges' = E
    /\ sched' = IF <<T, E>> = <<tasks, edges>> THEN s ELSE Observed(s, T, E)

\* Mutant: owned work is looked up in the committed records, not the candidates.
WithOutcomeCommitted(T, E, t, outcome) ==
  [T EXCEPT ![t] = [@ EXCEPT !.status = IF OwnedLive(tasks, E, t) # {} THEN "completing" ELSE "terminal",
                             !.on = {}, !.policy = "none", !.outcome = outcome]]

\* #commitState and #terminate: an outcome holds as 'completing' while ordinary
\* owned work is live in the commit's candidates.
WithOutcome(T, E, t, outcome) ==
  [T EXCEPT ![t] = [@ EXCEPT !.status = IF OwnedLive(T, E, t) # {} THEN "completing" ELSE "terminal",
                             !.on = {}, !.policy = "none", !.outcome = outcome]]

\* The wait fields of a record that runs again.
Resumed(r, status) == [r EXCEPT !.status = status, !.on = {}, !.policy = "none"]

Fault(kind) == kind \in Faults /\ faults < MaxFaults /\ faults' = faults + 1
NoFault == UNCHANGED faults

----------------------------------------------------------------------------
(* Opening, resuming, closing, crashing.                                   *)

\* open: surviving running tasks become pending, every failFast wait is checked
\* again, and a reconcile derives what a crash left unapplied.
OpenHarness ==
  /\ ~up
  /\ up' = TRUE
  /\ tasks' = [t \in Tasks |-> IF tasks[t].status = "running"
                               THEN Resumed(tasks[t], "pending") ELSE tasks[t]]
  /\ sched' = ScheduleReconcile(InitSched,
                 {t \in Tasks : tasks[t].status = "waiting" /\ tasks[t].policy = "failFast"})
  /\ UNCHANGED <<edges, registry, inv, faults, home>>

Resume ==
  /\ up /\ ~sched.enabled /\ ~sched.closing
  /\ sched' = Kick([sched EXCEPT !.enabled = TRUE])
  /\ UNCHANGED <<tasks, edges, registry, inv, up, faults, home>>

\* #seal: admission closes; invocations are signalled and joined.
Seal ==
  /\ up /\ ~sched.closing /\ Fault("close")
  /\ sched' = [sched EXCEPT !.closing = TRUE]
  /\ UNCHANGED <<tasks, edges, registry, inv, up, home>>

\* join returned: the process no longer holds the session.
Closed ==
  /\ up /\ sched.closing
  /\ \A t \in Tasks : inv[t] = NoInv
  /\ up' = FALSE /\ sched' = InitSched
  /\ UNCHANGED <<tasks, edges, registry, inv, faults, home>>

\* The process dies, or an uncertain storage failure poisons the session.
Crash ==
  /\ up /\ Fault("crash")
  /\ up' = FALSE /\ sched' = InitSched /\ inv' = [t \in Tasks |-> NoInv]
  /\ UNCHANGED <<tasks, edges, registry, home>>

\* The registry resolves another definition, or none that can take the tasks.
SetRegistry(d) ==
  /\ up /\ d # registry
  /\ registry' = d
  /\ sched' = IF sched.closing THEN sched ELSE Kick(sched)
  /\ UNCHANGED <<tasks, edges, inv, up, faults, home>>

----------------------------------------------------------------------------
(* Host operations.                                                        *)

Admitting == up /\ ~sched.closing
Fresh == {t \in Tasks : tasks[t].status = "absent" /\ \A u \in 1..(t - 1) : tasks[u].status # "absent"}

\* Any commit may create a conversation-owned task, whoever owns the conversation.
CreateTop(t) ==
  /\ Admitting
  /\ t \in Fresh /\ home[t].owner = 0 /\ edges[home[t].conv] >= 0
  /\ Commit(sched, [tasks EXCEPT ![t] = NewTask(t)], edges)
  /\ UNCHANGED <<registry, inv, up, faults, home>>

\* Mutant: a blocked task is orphaned at once, whatever it owns.
AbortOrphans(t) ==
  /\ Admitting /\ "abort" \in Inputs
  /\ IsLive(tasks, t)
  /\ LET blocked == /\ inv[t] = NoInv /\ tasks[t].status # "completing"
                    /\ registry = 0
     IN Commit(sched, IF blocked THEN WithOutcome(tasks, edges, t, "orphaned")
                                 ELSE [tasks EXCEPT ![t].mark = TRUE], edges)
  /\ UNCHANGED <<registry, inv, up, faults, home>>

\* abort(id): orphan at once a blocked task with nothing below it, else mark.
Abort(t) ==
  /\ Admitting /\ "abort" \in Inputs
  /\ IsLive(tasks, t)
  /\ LET blocked == /\ inv[t] = NoInv /\ tasks[t].status # "completing"
                    /\ OwnedLive(tasks, edges, t) = {}
                    /\ registry = 0
     IN Commit(sched, IF blocked THEN WithOutcome(tasks, edges, t, "orphaned")
                                 ELSE [tasks EXCEPT ![t].mark = TRUE], edges)
  /\ UNCHANGED <<registry, inv, up, faults, home>>

\* abortConversation: one commit marks the scope and withdraws its inputs.
AbortConversation(c, background) ==
  /\ Admitting /\ "abortConversation" \in Inputs
  /\ edges[c] >= 0
  /\ LET reach == InScope(tasks, edges, c, background)
         marked == {t \in Tasks : /\ IsLive(tasks, t) /\ reach[t]
                                  /\ background \/ ~tasks[t].background}
     IN Commit(sched, [t \in Tasks |-> IF t \in marked THEN [tasks[t] EXCEPT !.mark = TRUE] ELSE tasks[t]], edges)
  /\ UNCHANGED <<registry, inv, up, faults, home>>

----------------------------------------------------------------------------
(* Reconciling.                                                            *)

\* Marks a pass derives: below cancelled owners, and failFast siblings.
ReconcileMarks(checks) ==
  LET failing == {w \in checks : /\ tasks[w].status = "waiting"
                                 /\ \E m \in tasks[w].on : FailedOutcome(tasks[m])}
  IN {t \in Tasks : /\ IsLive(tasks, t)
                    /\ \/ ~tasks[t].background /\ BelowCancelled(tasks, edges, t)
                       \/ \E w \in failing : t \in tasks[w].on /\ ~FailedOutcome(tasks[t])}

\* #finalize: terminal records for every held task, again and again until no
\* held task is left whose live ordinary owned work is gone.
Finalize(T, E) ==
  LET final[t \in Tasks] == /\ T[t].status = "completing"
                            /\ \A u \in OwnedLive(T, E, t) : final[u]
  IN [t \in Tasks |-> IF final[t] THEN [T[t] EXCEPT !.status = "terminal"] ELSE T[t]]

Reconcile ==
  /\ up /\ sched.passes # <<>>
  /\ LET checks == Head(sched.passes)
         rest   == [sched EXCEPT !.passes = Tail(@)]
         marks  == ReconcileMarks(checks)
         marked == [t \in Tasks |-> IF t \in marks THEN [tasks[t] EXCEPT !.mark = TRUE] ELSE tasks[t]]
         final  == Finalize(marked, edges)
     IN \/ ~sched.closing /\ NoFault /\ Commit(rest, final, edges)
        \/ /\ sched.closing /\ NoFault
           /\ sched' = rest
           /\ UNCHANGED <<tasks, edges>>
        \/ /\ ~sched.closing /\ final # tasks /\ Fault("reject")       \* retried with the next commit
           /\ sched' = [rest EXCEPT !.retry = TRUE, !.checks = @ \cup checks]
           /\ UNCHANGED <<tasks, edges>>
  /\ UNCHANGED <<registry, inv, up, home>>

----------------------------------------------------------------------------
(* Reserving.                                                              *)

\* Mutant: an abort handler waits for nothing.
WaitingOnUnlessMarked(t) ==
  IF ~tasks[t].mark /\ tasks[t].status = "waiting" THEN {u \in tasks[t].on : IsLive(tasks, u)} ELSE {}

\* #waitingOn: an abort-marked task waits for its live ordinary owned work, a
\* waiting one for the live part of its wait.
WaitingOn(t) ==
  IF tasks[t].mark THEN OwnedLive(tasks, edges, t)
  ELSE IF tasks[t].status = "waiting" THEN {u \in tasks[t].on : IsLive(tasks, u)} ELSE {}

Eligible(t) ==
  /\ tasks[t].status \in Live \ {"completing"}
  /\ inv[t] = NoInv
  /\ WaitingOn(t) = {}

\* #drain after a pass: another one when a wakeup arrived meanwhile.
PassDone(s) == [s EXCEPT !.drain = IF @ = "again" /\ ~s.closing THEN "reserving" ELSE "idle"]

\* #reserve: one commit reserves every eligible task and orphans abort-marked
\* ones that no definition can take.
Reserve ==
  /\ up /\ sched.drain # "idle"
  /\ LET picked == {t \in Tasks : Eligible(t)}
         taken(t) == IF registry # 0 THEN Resumed(tasks[t], "running")
                     ELSE IF tasks[t].mark THEN WithOutcome(tasks, edges, t, "orphaned")[t]
                     ELSE tasks[t]
         next == [t \in Tasks |-> IF t \in picked THEN taken(t) ELSE tasks[t]]
         mode(t) == IF tasks[t].mark THEN "abort" ELSE "run"
         starts(t) == [mode |-> mode(t), pc |-> IF mode(t) = "run" THEN "step" ELSE "phase",
                       last |-> "none", def |-> registry]
     IN \/ /\ ~sched.closing /\ NoFault
           /\ Commit(PassDone(sched), next, edges)
           /\ inv' = [t \in Tasks |-> IF t \in picked /\ registry # 0 THEN starts(t) ELSE inv[t]]
        \/ /\ \/ sched.closing /\ NoFault
              \/ ~sched.closing /\ next # tasks /\ Fault("reject")
           /\ sched' = [PassDone(sched) EXCEPT !.missed = sched.drain = "reserving"]
           /\ UNCHANGED <<tasks, edges, inv>>
  /\ UNCHANGED <<registry, up, home>>

----------------------------------------------------------------------------
(* Invocations.                                                            *)

\* The end of an invocation: its task is free, and the scheduler is woken.
Ended(t) == inv' = [inv EXCEPT ![t] = NoInv]

\* Rules 1 to 3: no longer running, closing, or abort-marked.  No write.
StepEnds(t) ==
  /\ inv[t].pc = "step"
  /\ \/ tasks[t].status # "running"
     \/ sched.closing
     \/ inv[t].mode = "run" /\ tasks[t].mark
  /\ Ended(t) /\ sched' = Kick(sched)
  /\ UNCHANGED <<tasks, edges, registry, up, faults, home>>

Decides(t, mode) ==
  /\ inv[t].pc = "step" /\ inv[t].mode = mode
  /\ tasks[t].status = "running" /\ ~sched.closing

\* Rules 4 and 6, and an abort handler without an outcome: the task faults.  A
\* rejected commit ends the invocation all the same.
StepFaults(t) ==
  /\ \/ Decides(t, "abort")
     \/ /\ Decides(t, "run") /\ ~tasks[t].mark
        /\ inv[t].last = "fault"
  /\ Ended(t)
  /\ \/ Commit(Kick(sched), WithOutcome(tasks, edges, t, "failed"), edges) /\ NoFault
     \/ /\ Fault("reject")
        /\ sched' = Kick(sched)
        /\ UNCHANGED <<tasks, edges>>
  /\ UNCHANGED <<registry, up, home>>

Continues(t) ==
  /\ Decides(t, "run") /\ ~tasks[t].mark
  /\ inv[t].last # "fault"

\* Rule 5: hand over to a replacement definition that can take the task.
HandsOver(t) == inv[t].last = "progress" /\ registry \notin {0, inv[t].def}

StepHandsOver(t) ==
  /\ Continues(t) /\ HandsOver(t)
  /\ Ended(t)
  /\ Commit(Kick(sched), [tasks EXCEPT ![t].status = "pending"], edges)
  /\ UNCHANGED <<registry, up, faults, home>>

StepContinues(t) ==
  /\ Continues(t) /\ ~HandsOver(t)
  /\ inv' = [inv EXCEPT ![t].pc = "phase", ![t].last = "none"]
  /\ UNCHANGED <<tasks, edges, registry, sched, up, faults, home>>

\* #gated: what every runtime commit rechecks on the line.
Gated(t) ==
  /\ inv[t].pc = "phase"
  /\ ~sched.closing
  /\ tasks[t].status = "running"
  /\ inv[t].mode = "run" => ~tasks[t].mark

\* A handler throws, or returns with the checkpoint it began with (an abort
\* handler: without an outcome, or after it).
HandlerReturns(t) ==
  /\ inv[t].pc = "phase"
  /\ inv' = [inv EXCEPT ![t].pc = "step", ![t].last = "fault"]
  /\ UNCHANGED <<tasks, edges, registry, sched, up, faults, home>>

\* A handler commits a new checkpoint and returns.
HandlerProgresses(t) ==
  /\ Gated(t) /\ inv[t].mode = "run"
  /\ inv' = [inv EXCEPT ![t].pc = "step", ![t].last = "progress"]
  /\ sched' = Kick(IF sched.retry THEN ScheduleReconcile(sched, sched.checks) ELSE sched)
  /\ UNCHANGED <<tasks, edges, registry, up, faults, home>>

\* #validateWait, then the wait replaces the running state.
CommitWait(t, on, policy) ==
  /\ Gated(t) /\ inv[t].mode = "run" /\ policy \in Inputs
  /\ on # {} /\ on \cap ({t} \cup Owners(tasks, edges, t)) = {}
  /\ \A u \in on : /\ tasks[u].status # "absent"
                   /\ policy = "failFast" => tasks[u].owner = t
  /\ Commit(sched, [tasks EXCEPT ![t].status = "waiting", ![t].on = on, ![t].policy = policy], edges)
  /\ UNCHANGED <<registry, inv, up, faults, home>>

\* A handler commits its outcome.
CommitOutcome(t, outcome) ==
  /\ Gated(t)
  /\ Commit(sched, WithOutcome(tasks, edges, t, outcome), edges)
  /\ UNCHANGED <<registry, inv, up, faults, home>>

\* New owned work needs an owner that is neither finished nor abort-marked in
\* the final candidate, so an abort handler creates none.
CreateChild(t, u) ==
  /\ Gated(t) /\ ~tasks[t].mark
  /\ u \in Fresh /\ home[u].owner = t
  /\ Commit(sched, [tasks EXCEPT ![u] = NewTask(u)], edges)
  /\ UNCHANGED <<registry, inv, up, faults, home>>

CreateConversation(t, c) ==
  /\ Gated(t) /\ ~tasks[t].mark
  /\ edges[c] = -1 /\ \E u \in Fresh : home[u].conv = c
  /\ Commit(sched, tasks, [edges EXCEPT ![c] = t])
  /\ UNCHANGED <<registry, inv, up, faults, home>>

\* One commit finishes the task and starts work in a conversation it owns.
FinishWithWork(t, u, c) ==
  /\ Gated(t) /\ inv[t].mode = "run"
  /\ u \in Fresh /\ home[u].owner = 0 /\ home[u].conv = c /\ edges[c] = t
  /\ LET created == [tasks EXCEPT ![u] = NewTask(u)]
     IN Commit(sched, WithOutcome(created, edges, t, "completed"), edges)
  /\ UNCHANGED <<registry, inv, up, faults, home>>

----------------------------------------------------------------------------
\* A tree gives each task its owner task or the conversation it is created in;
\* a child lives in its owner's conversation and is not background.
Init ==
  /\ home \in Homes
  /\ tasks = [t \in Tasks |-> Absent]
  /\ edges = [c \in Convs |-> IF c = Root THEN 0 ELSE -1]
  /\ registry = 1
  /\ inv = [t \in Tasks |-> NoInv]
  /\ sched = InitSched
  /\ up = FALSE
  /\ faults = 0

Lifecycle == OpenHarness \/ Resume \/ Seal \/ Closed \/ Crash \/ \E d \in Definitions : SetRegistry(d)

Host ==
  \/ \E t \in Tasks : CreateTop(t)
  \/ \E t \in Tasks : Abort(t)
  \/ \E c \in Convs, b \in BOOLEAN : AbortConversation(c, b)

Passes == Reconcile \/ Reserve

Steps(t) == StepEnds(t) \/ StepContinues(t) \/ StepHandsOver(t) \/ StepFaults(t)

Handler(t) ==
  \/ HandlerReturns(t) \/ HandlerProgresses(t)
  \/ \E on \in SUBSET Tasks, policy \in {"allSettled", "failFast"} : CommitWait(t, on, policy)
  \/ \E o \in {"completed", "failed"} : CommitOutcome(t, o)
  \/ \E u \in Tasks : CreateChild(t, u)
  \/ \E c \in Convs : CreateConversation(t, c)
  \/ \E u \in Tasks, c \in Convs : FinishWithWork(t, u, c)

Next == Lifecycle \/ Host \/ Passes \/ \E t \in Tasks : Steps(t) \/ Handler(t)

Spec == Init /\ [][Next]_vars

\* The microtask queue and the Session line run what is queued on them; a
\* session that went down is opened and resumed again; handlers settle.
Fairness ==
  /\ WF_vars(OpenHarness \/ Resume \/ Closed)
  /\ WF_vars(Reconcile) /\ WF_vars(Reserve)
  /\ \A t \in Tasks : WF_vars(HandlerReturns(t) \/ Steps(t))

FairSpec == Spec /\ Fairness

----------------------------------------------------------------------------
(* Properties.                                                             *)

\* The records and what is scheduled are well formed; an owner is older than
\* what it owns.
TypeOK ==
  /\ tasks \in [Tasks -> TaskRecord]
  /\ edges \in [Convs -> Edges]
  /\ registry \in Definitions
  /\ inv \in [Tasks -> Invocations]
  /\ sched \in Scheduled /\ Len(sched.passes) <= 2
  /\ home \in Homes
  /\ \A t \in Tasks : tasks[t].owner < t
  /\ up \in BOOLEAN

\* A terminal receipt guarantees that ordinary owned work drained: in the
\* commit that finishes a task nothing it ordinarily owns is live, work that
\* very commit created included.
FinishedMeansDrained ==
  [][\A t \in Tasks : (tasks'[t].status = "terminal" /\ tasks[t].status # "terminal")
       => OwnedLive(tasks', edges', t) = {}]_vars

\* Aborts run bottom-up: an abort invocation starts only when no ordinary owned
\* work of its task is live.
AbortsRunBottomUp ==
  [][\A t \in Tasks : (inv'[t].mode = "abort" /\ inv[t].mode # "abort")
       => OwnedLive(tasks', edges', t) = {}]_vars

\* An orphaned outcome never holds: no task code could take the task, so the
\* scheduler settles it only once nothing below it is live.
OrphanNeverHolds ==
  \A t \in Tasks : tasks[t].status = "completing" => tasks[t].outcome # "orphaned"

\* Nothing is scheduled and nothing runs.
Quiet ==
  /\ up /\ sched.enabled /\ ~sched.closing
  /\ sched.passes = <<>> /\ sched.drain = "idle" /\ ~sched.retry /\ ~sched.missed

\* No wakeup is lost: when nothing is scheduled, the committed records imply no
\* mark and no final record that is still missing, and every task
\* that could run has its invocation.
NothingForgotten ==
  Quiet =>
    /\ ReconcileMarks({t \in Tasks : tasks[t].policy = "failFast"}) \subseteq {t \in Tasks : tasks[t].mark}
    /\ Finalize(tasks, edges) = tasks
    /\ \A t \in Tasks : Eligible(t) => registry = 0 /\ ~tasks[t].mark

\* Cancellation ends: a live task with an abort mark or a held failed outcome
\* becomes terminal, through crashes and reopens, when a definition is there.  (Tasks
\* are finitely many and an intent lasts as long as its task is live, so "again
\* and again none has one" says that each of them ends.)
CancellationEnds == []<>(\A t \in Tasks : ~CancellationIntent(tasks[t]))

\* A failFast wait does not wait for the rest: once one of its tasks failed,
\* each of the others ends, though nobody aborted them and they may be parked.
FailFastReleases ==
  []<>(\A t \in Tasks : (/\ tasks[t].status = "waiting" /\ tasks[t].policy = "failFast"
                         /\ \E m \in tasks[t].on : FailedOutcome(tasks[m]))
                        => \A u \in tasks[t].on : tasks[u].status = "terminal")
=============================================================================
