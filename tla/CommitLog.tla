----------------------------- MODULE CommitLog -----------------------------
(***************************************************************************)
(* What a storage backend of packages/durable promises its Session         *)
(* (src/types.ts, interface Storage): one log of atomic commits.  A batch  *)
(* is in the log with all its writes or not at all, readers of an open     *)
(* backend see the state the log stands for, an acknowledged batch stays   *)
(* in the log, except that a power loss may take a tail that nothing had   *)
(* flushed.                                                                *)
(*                                                                         *)
(* A batch maps the objects it writes to the kind of each write.  An       *)
(* object's value is told by the identities of the batches it is made of.  *)
(***************************************************************************)
EXTENDS Integers, Sequences

CONSTANTS
  Docs,          \* documents that keep their latest value only
  Histories,     \* rewindable documents: every earlier value stays readable
  Works          \* tasks

Objects == Docs \cup Histories \cup Works

Closed == <<>>

VARIABLES
  log,      \* committed batches, oldest first: [id, writes]
  view,     \* what an open backend serves; Closed when none is open
  acked,    \* identities of the batches whose commit returned
  losses    \* power losses so far

logVars == <<log, view, acked, losses>>

\* Kinds of writes after which nothing older contributes to the value.
Resets(o) == IF o \in Histories THEN {} ELSE {"create", "base", "retire", "live", "terminal"}

Writes(entries, o) == {i \in DOMAIN entries : o \in DOMAIN entries[i].writes}

\* The value of every object after the batches of a log.
Value(entries) ==
  [o \in Objects |->
     {entries[i].id : i \in {i \in Writes(entries, o) :
        \A j \in Writes(entries, o) : j > i => entries[j].writes[o] \notin Resets(o)}}]

\* A log that a power loss may leave.
IsTailLoss(shorter) == \E n \in 0..Len(log) : shorter = SubSeq(log, 1, n)

Init == log = <<>> /\ view = Closed /\ acked = {} /\ losses = 0

\* One more batch at the end of the log.
Extended == Len(log') = Len(log) + 1 /\ SubSeq(log', 1, Len(log)) = log

\* The batch becomes durable in one step, on top of what readers see ...
Admit ==
  /\ view # Closed /\ view = Value(log)
  /\ Extended
  /\ UNCHANGED <<view, acked, losses>>

\* ... and is then published to readers and acknowledged.
Publish ==
  /\ view # Closed /\ log # <<>>
  /\ view' = Value(log) /\ acked' = acked \cup {log[Len(log)].id}
  /\ UNCHANGED <<log, losses>>

\* A commit that fails closes the backend, its batch in the log or not.
Fail ==
  /\ view # Closed /\ view = Value(log)
  /\ (Extended \/ UNCHANGED log) /\ view' = Closed
  /\ UNCHANGED <<acked, losses>>

Open == view = Closed /\ view' = Value(log) /\ UNCHANGED <<log, acked, losses>>

Close == view' = Closed /\ UNCHANGED <<log, acked, losses>>

\* Only here may the log lose batches.
LosePower == view' = Closed /\ IsTailLoss(log') /\ losses' = losses + 1 /\ UNCHANGED acked

Next == Admit \/ Publish \/ Fail \/ Open \/ Close \/ LosePower

Spec == Init /\ [][Next]_logVars
=============================================================================
