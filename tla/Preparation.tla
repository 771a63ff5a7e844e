---------------------------- MODULE Preparation -----------------------------
(***************************************************************************)
(* Optional background preparation (preview/preparation.ts) beside formal  *)
(* compaction (preview/controller.ts), the writer calls both make through  *)
(* the call journal, and what the checkpoints they commit cover.  One      *)
(* session; the commit protocol itself is in PreviewSession, here a        *)
(* compaction ends confirmed, appended but unconfirmed, or not at all.     *)
(*                                                                         *)
(* Every action is a stretch of the extension's code between two awaits,   *)
(* or a step of its host.                                                  *)
(***************************************************************************)
EXTENDS Coverage, CallJournal

CONSTANTS
  NotesEnabled,      \* previewWorkNotes.enabled
  CallsPerAttempt,   \* PREPARATION_CALLS_PER_ATTEMPT
  WriterCalls,       \* bound: calls of one writeMemory
  MaxEntries,        \* bound: entries of the session
  MaxRuns,           \* bound: preparation runs
  MaxCompactions,    \* bound: compactions begun
  MaxEvents          \* bound: custom entries, invalidations, navigations, aborts, crashes

ASSUME PreparationAssumption ==
  /\ NotesEnabled \in BOOLEAN
  /\ {KeepRecent, CallsPerAttempt, WriterCalls, MaxEntries, MaxRuns, MaxCompactions, MaxEvents}
       \subseteq Nat
  /\ MaxEntries >= 2   \* the session begins with two entries

VARIABLES
  branch,       \* the current branch
  other,        \* a branch navigated away from
  navigating,   \* between session_before_tree and session_tree
  lastId,       \* entry ids given so far
  epoch,        \* PreviewPreparation.epoch
  input,        \* the snapshot of the running preparation, or None
  armed,        \* the armed candidate, or None
  comp,         \* the compaction under way: phase, source, memory
  blocked,      \* an attempt is on record: pending, failed or interrupted
  unconfirmed,  \* id of a checkpoint appended by that attempt
  writer,       \* per purpose: where its writeMemory stands
  file,         \* the journal on disk
  calls, gap,   \* SessionJournal: calls, gap
  lastCall,     \* call ids given so far
  started,      \* history: preparation runs, with their interval
  sent,         \* history: requests sent
  compactions, events   \* counters for the bounds

sessionVars == <<branch, other, navigating, lastId>>
commitVars  == <<comp, blocked, unconfirmed>>
journalVars == <<file, calls, gap, lastCall, sent>>
bounds      == <<compactions, events>>
vars == <<sessionVars, epoch, input, armed, commitVars, writer, journalVars, started, bounds>>

None == [none |-> TRUE]

Idle == [phase |-> "idle"]

\* writeMemory is not running for this purpose.
Off == [phase |-> "off", call |-> 0, made |-> 0, aborted |-> FALSE]
Ready == [Off EXCEPT !.phase = "ready"]

running == input # None

Leaf == Last(branch)

\* The last message of the projection; a completed turn ends in a reply.
LastMessage == MaxOr0(Active(branch))
Completed == LastMessage # 0 /\ branch[LastMessage].kind = "reply"

Add(entry) == branch' = Append(branch, entry) /\ lastId' = lastId + 1

Abort(purpose) == [writer EXCEPT ![purpose].aborted = writer[purpose].phase # "off"]

-----------------------------------------------------------------------------
(* The session *)

Quiet == comp = Idle /\ ~navigating /\ lastId < MaxEntries

SessionStep ==
  UNCHANGED <<other, navigating, epoch, input, armed, commitVars, writer, journalVars, started, bounds>>

Prompt ==
  /\ Quiet
  /\ Add(Plain(lastId + 1, "user"))
  /\ SessionStep

\* A blocked session sends no requests.
Reply ==
  /\ Quiet /\ ~blocked
  /\ LastMessage # 0 /\ IsUser(branch[LastMessage])
  /\ Add(Plain(lastId + 1, "reply"))
  /\ SessionStep

\* The model calls context_note within a turn.
WorkNote ==
  /\ Quiet /\ ~blocked /\ NotesEnabled
  /\ LastMessage # 0 /\ IsUser(branch[LastMessage]) /\ Leaf.kind # "note"
  /\ Add(Plain(lastId + 1, "note"))
  /\ SessionStep

\* Another extension's entry, at any time.
CustomEntry ==
  /\ lastId < MaxEntries /\ events < MaxEvents
  /\ Add(Plain(lastId + 1, "custom"))
  /\ events' = events + 1
  /\ UNCHANGED <<other, navigating, epoch, input, armed, commitVars, writer, journalVars, started,
                 compactions>>

-----------------------------------------------------------------------------
(* PreviewPreparation *)

mayStart(interval) ==
  ~running /\ writable(gap) /\ ~preparedIn(calls, interval)

\* agent_settled with the context in the band below the threshold; the event
\* may come after session_before_tree.  The run itself is queued behind it.
prepare ==
  LET interval == checkpointInterval(branch)
  IN /\ comp = Idle /\ ~blocked /\ Completed
     /\ chooseCut(branch) # 0
     /\ mayStart(interval) /\ Cardinality(started) < MaxRuns
     /\ input' = freezePreparationInput(branch, epoch)
     /\ writer' = [writer EXCEPT !["preparation"] = Ready]
     /\ started' = started \cup {[run |-> Cardinality(started) + 1, interval |-> interval]}
     /\ UNCHANGED <<sessionVars, epoch, armed, commitVars, journalVars, bounds>>

\* The note arms a candidate unless the run was cancelled or its epoch is over.
Arms(w) == w.phase = "written" /\ ~w.aborted /\ input.epoch = epoch

\* The end of start()'s promise chain; finalizePreparation may refuse the note.
RunEnds ==
  LET w == writer["preparation"]
  IN /\ w.phase \in {"written", "failed"}
     /\ \/ Arms(w) /\ armed' = input
        \/ UNCHANGED armed
     /\ input' = None
     /\ writer' = [writer EXCEPT !["preparation"] = Off]
     /\ UNCHANGED <<sessionVars, epoch, commitVars, journalVars, started, bounds>>

\* Mutant: the deadline sets the reason and cancels nothing.
DeadlineOnlySays == running /\ ~writer["preparation"].aborted /\ UNCHANGED vars

Deadline ==
  /\ running /\ ~writer["preparation"].aborted
  /\ writer' = Abort("preparation")
  /\ UNCHANGED <<sessionVars, epoch, input, armed, commitVars, journalVars, started, bounds>>

\* invalidate(): cancel, drop the candidate, start a new epoch.
Invalidation ==
  /\ writer' = Abort("preparation") /\ armed' = None /\ epoch' = epoch + 1
  /\ UNCHANGED <<input, commitVars, journalVars, started>>

Event == events < MaxEvents /\ events' = events + 1 /\ UNCHANGED compactions

\* model_select, or session_before_switch and back.
invalidate ==
  /\ Event /\ Invalidation
  /\ UNCHANGED sessionVars

\* session_before_tree
BeforeTree ==
  /\ Event /\ Invalidation
  /\ comp = Idle /\ ~navigating
  /\ navigating' = TRUE /\ UNCHANGED <<branch, other, lastId>>

\* session_tree: back to an entry of this branch, or to the branch left before.
Navigate ==
  /\ navigating /\ comp = Idle
  /\ \/ \E n \in 1..(Len(branch) - 1) : ~IsUser(branch[n]) /\ branch' = SubSeq(branch, 1, n)
     \/ other # <<>> /\ branch' = other
  /\ other' = branch
  /\ navigating' = FALSE
  /\ UNCHANGED <<lastId, epoch, input, armed, commitVars, writer, journalVars, started, bounds>>

-----------------------------------------------------------------------------
(* compact() *)

Drops(status) == IF status = "invalid" THEN None ELSE armed

\* The turns kept: the recent ones, and an interrupted one in full.
Cut ==
  Min({chooseCut(branch), IF Completed THEN Len(branch) + 1 ELSE interruptedTurnStart(branch)})

\* take(): what the candidate is classified as, for a writer configured as it
\* was or not, and a note within the present budget or not.
Statuses(focus) ==
  IF armed = None THEN {"none"}
  ELSE {classifyPreparation(armed, branch, epoch, sameWriter, ~focus /\ ~tooLarge) :
          sameWriter \in BOOLEAN, tooLarge \in BOOLEAN}

\* Mutant: the checkpoint does not say what it covers.
WholeBranchUncovered(read) ==
  Memory(NoId, IF Cut <= Len(branch) THEN branch[Cut].id ELSE NoId, NoId, {}, read)

\* The checkpoint compact() proposes, without its id: for the whole branch,
\* or for the prefix up to end.
WholeBranch(read) ==
  Memory(NoId, IF Cut <= Len(branch) THEN branch[Cut].id ELSE NoId, Leaf.id, {}, read)

Prefix(start, end, carried, read) ==
  Memory(NoId, branch[start].id, branch[end].id, carried, read)

\* The path taken.  Whether a prefix is worth committing depends on token
\* counts, and the notes on their merge: the code falls through to the next.
Paths(status, focus) ==
  LET end == IF status = "new-sources" /\ Completed THEN reusablePrefix(armed) ELSE 0
      noteEnd == IF NotesEnabled /\ Completed /\ ~focus THEN MaxOr0(workNotes(branch)) ELSE 0
      prefix == IF end = 0 THEN 0 ELSE prefixCut(branch, end, Cut)
      notes == IF noteEnd = 0 THEN 0 ELSE prefixCut(branch, noteEnd, Cut)
  IN IF status = "current-full"
     THEN {[path |-> "complete", memory |-> WholeBranch(armed.read)]}
     ELSE {[path |-> "sync", memory |-> WholeBranch(ReadBy(branch))]}
          \cup (IF prefix = 0 THEN {}
                ELSE {[path |-> "prefix", memory |-> Prefix(prefix, end, {}, armed.read)]})
          \cup (IF notes = 0 THEN {}
                ELSE {[path |-> "notes",
                       memory |-> Prefix(notes, noteEnd, coveredUserMessages(branch, noteEnd),
                                         ReadByNotes(branch, noteEnd))]})

Fails == comp' = Idle /\ blocked' = TRUE

\* A completed turn, or an ended one when an attempt has to be superseded.
Boundary == Completed \/ (blocked /\ LastMessage # 0)

Supersedes == blocked' = TRUE /\ unconfirmed' = NoId

\* Everything up to the writer's call, or to staging when no call is needed.
CompactBegins ==
  /\ comp = Idle /\ ~navigating /\ compactions < MaxCompactions
  /\ Leaf.kind # "memory"
  /\ compactions' = compactions + 1
  /\ \/ /\ ~Boundary
        /\ Fails /\ writer' = Abort("preparation") /\ UNCHANGED <<unconfirmed, armed>>
     \/ /\ Boundary /\ Supersedes
        /\ \/ /\ Cut < 2
              /\ comp' = Idle /\ writer' = Abort("preparation") /\ UNCHANGED armed
           \/ /\ Cut >= 2
              /\ \E focus \in BOOLEAN : \E status \in Statuses(focus) : \E p \in Paths(status, focus) :
                   \/ /\ p.path = "sync"
                      /\ comp' = [phase |-> "writing", source |-> branch, memory |-> p.memory]
                      /\ writer' = [Abort("preparation") EXCEPT !["compaction"] = Ready]
                      /\ armed' = Drops(status)
                   \/ /\ p.path # "sync"
                      /\ writer' = Abort("preparation")
                      /\ \/ /\ comp' = [phase |-> "staged", source |-> branch, memory |-> p.memory]
                            /\ armed' = IF p.path = "notes" THEN Drops(status) ELSE None
                         \/ comp' = Idle /\ armed' = Drops(status)
  /\ UNCHANGED <<sessionVars, epoch, input, journalVars, started, events>>

UserAborts ==
  /\ Event
  /\ comp.phase = "writing" /\ ~writer["compaction"].aborted
  /\ writer' = Abort("compaction")
  /\ UNCHANGED <<sessionVars, epoch, input, armed, commitVars, journalVars, started>>

\* After writeMemory: the signal, the source, the summary's size, the stage.
CompactWritten ==
  LET w == writer["compaction"]
  IN /\ w.phase \in {"written", "failed"}
     /\ \/ /\ w.phase = "written" /\ ~w.aborted /\ branch = comp.source
           /\ comp' = [comp EXCEPT !.phase = "staged"] /\ UNCHANGED blocked
        \/ Fails
     /\ writer' = [writer EXCEPT !["compaction"] = Off]
     /\ UNCHANGED <<sessionVars, epoch, input, armed, unconfirmed, journalVars, started, bounds>>

\* PreviewPreparation.committed()
PreparationCommitted ==
  /\ writer' = Abort("preparation") /\ armed' = None /\ epoch' = epoch + 1
  /\ UNCHANGED <<input, journalVars, started>>

\* The host appends the checkpoint right after the hook, and session_compact
\* confirms it, unless the append or the readback fails.
HostAppends ==
  /\ comp.phase = "staged" /\ lastId < MaxEntries
  /\ comp' = Idle
  /\ Add([comp.memory EXCEPT !.id = lastId + 1])
  /\ \/ branch = comp.source /\ blocked' = FALSE /\ PreparationCommitted /\ UNCHANGED unconfirmed
     \/ /\ blocked' = TRUE /\ unconfirmed' = IF branch = comp.source THEN lastId + 1 ELSE NoId
        /\ UNCHANGED <<epoch, input, armed, writer, journalVars, started>>
  /\ UNCHANGED <<other, navigating, bounds>>

AppendFails ==
  /\ comp.phase = "staged"
  /\ Fails
  /\ UNCHANGED <<sessionVars, epoch, input, armed, unconfirmed, writer, journalVars, started, bounds>>

recover ==
  /\ comp = Idle /\ ~navigating
  /\ blocked /\ unconfirmed # NoId /\ Leaf.id = unconfirmed
  /\ blocked' = FALSE /\ unconfirmed' = NoId
  /\ PreparationCommitted
  /\ UNCHANGED <<sessionVars, comp, bounds>>

-----------------------------------------------------------------------------
(* writeMemory's calls and the journal's hooks *)

CallUnchanged == UNCHANGED <<sessionVars, epoch, input, armed, commitVars, started, bounds>>

Interval(purpose) ==
  checkpointInterval(IF purpose = "preparation" THEN input.branch ELSE comp.source)

RunOf(purpose) == IF purpose = "preparation" THEN Cardinality(started) ELSE 0

To(purpose, phase) == [writer EXCEPT ![purpose].phase = phase]

\* writeMemory throws outside a call: aborted, no capacity, no new source.
WriterFails(purpose) ==
  /\ writer[purpose].phase = "ready"
  /\ writer' = To(purpose, "failed")
  /\ UNCHANGED journalVars /\ CallUnchanged

\* Optional preparation stops where the call would go unrecorded.
Refused(purpose, threw) == purpose = "preparation" /\ threw

beforeDispatch(purpose) ==
  LET w == writer[purpose]
      call == lastCall + 1
  IN /\ w.phase = "ready" /\ ~w.aborted /\ w.made < WriterCalls
     /\ \/ /\ purpose = "preparation" /\ (~writable(gap) \/ w.made >= CallsPerAttempt)
           /\ writer' = To(purpose, "failed")
           /\ UNCHANGED journalVars
        \/ /\ purpose = "preparation" => writable(gap) /\ w.made < CallsPerAttempt
           /\ lastCall' = call
           /\ \E a \in Appends(file, StartLine(call, purpose, Interval(purpose))) :
                /\ file' = a.file
                /\ gap' = IF a.threw THEN "unwritable" ELSE gap
                /\ IF Refused(purpose, a.threw)
                     THEN writer' = To(purpose, "failed") /\ UNCHANGED calls
                     ELSE /\ writer' = [writer EXCEPT ![purpose] =
                                      [w EXCEPT !.phase = "reserved", !.call = call, !.made = w.made + 1]]
                          /\ calls' = Reserve(calls, call, purpose, Interval(purpose))
           /\ UNCHANGED sent
     /\ CallUnchanged

\* The request goes out, unless the signal was aborted meanwhile.
Dispatch(purpose) ==
  LET w == writer[purpose]
  IN /\ w.phase = "reserved" /\ ~w.aborted
     /\ writer' = To(purpose, "sent")
     /\ sent' = sent \cup {[call |-> w.call, run |-> RunOf(purpose), interval |-> Interval(purpose)]}
     /\ UNCHANGED <<file, calls, gap, lastCall>> /\ CallUnchanged

\* afterDispatch, and what writeMemory makes of the answer: another call (a
\* chunk, a declined tool call, a repair), a note, or a failure.
afterDispatch(purpose) ==
  LET w == writer[purpose]
      dispatched == w.phase = "sent"
  IN /\ dispatched \/ (w.phase = "reserved" /\ w.aborted)
     /\ \E a \in Appends(file, Settlement(w.call, dispatched)) :
          /\ file' = a.file
          /\ gap' = IF a.threw THEN "unwritable" ELSE gap
          /\ calls' = IF a.threw THEN calls
                      ELSE [calls EXCEPT ![w.call].settled = TRUE, ![w.call].dispatched = dispatched]
     /\ \E phase \in IF w.aborted THEN {"failed"} ELSE {"ready", "written", "failed"} :
          writer' = To(purpose, phase)
     /\ UNCHANGED <<lastCall, sent>> /\ CallUnchanged

-----------------------------------------------------------------------------
(* Crashes *)

\* The process dies and a new one opens the session: an append under way may
\* be torn, all but the files is gone, and a compaction under way left its
\* pending marker.
Crash ==
  /\ Event
  /\ \E f \in IF \E p \in Purposes : writer[p].phase \in {"ready", "reserved", "sent"}
              THEN CrashesIn(file) ELSE {file} :
       \E journal \in Loads(f) :
         file' = f /\ calls' = journal.calls /\ gap' = journal.gap
  /\ navigating' = FALSE
  /\ epoch' = 0 /\ input' = None /\ armed' = None
  /\ comp' = Idle /\ writer' = [p \in Purposes |-> Off]
  /\ UNCHANGED <<branch, other, lastId, blocked, unconfirmed, lastCall, sent, started>>

Init ==
  /\ branch = <<Plain(1, "user"), Plain(2, "reply")>> /\ lastId = 2
  /\ other = <<>> /\ navigating = FALSE
  /\ epoch = 0 /\ input = None /\ armed = None
  /\ comp = Idle /\ blocked = FALSE /\ unconfirmed = NoId
  /\ writer = [p \in Purposes |-> Off]
  /\ file = <<>> /\ calls = NoCalls /\ gap = "none" /\ lastCall = 0
  /\ started = {} /\ sent = {}
  /\ compactions = 0 /\ events = 0

WriterStep(purpose) ==
  WriterFails(purpose) \/ beforeDispatch(purpose) \/ Dispatch(purpose) \/ afterDispatch(purpose)

Next ==
  \/ Prompt \/ Reply \/ WorkNote \/ CustomEntry
  \/ prepare \/ RunEnds \/ Deadline \/ invalidate \/ BeforeTree \/ Navigate
  \/ CompactBegins \/ UserAborts \/ CompactWritten \/ HostAppends \/ AppendFails \/ recover
  \/ \E purpose \in Purposes : WriterStep(purpose)
  \/ Crash

Spec == Init /\ [][Next]_vars

\* The deadline's timer fires, promises settle, and a provider's stream ends
\* once its signal is aborted; it may hang until then.
AbortedWriter == writer["preparation"].aborted /\ WriterStep("preparation")

FairSpec == Spec /\ WF_vars(Deadline) /\ WF_vars(RunEnds) /\ WF_vars(AbortedWriter)

-----------------------------------------------------------------------------
(* Properties *)

Kinds == {"user", "reply", "note", "custom"}

Entries ==
  [id : 1..MaxEntries, kind : Kinds]
  \cup [id : 0..MaxEntries, kind : {"memory"}, firstKept : 0..MaxEntries,
        coveredThrough : 1..MaxEntries, carried : SUBSET (1..MaxEntries), read : SUBSET (1..MaxEntries)]

IsBranch(b) == DOMAIN b = 1..Len(b) /\ \A i \in DOMAIN b : b[i] \in Entries

\* Every variable keeps its type.
TypeOK ==
  /\ IsBranch(branch) /\ IsBranch(other) /\ branch # <<>>
  /\ navigating \in BOOLEAN /\ lastId \in 0..MaxEntries
  /\ epoch \in Nat
  /\ \A c \in {input, armed} \ {None} : IsBranch(c.branch) /\ c.epoch \in Nat
  /\ comp = Idle \/ (comp.phase \in {"writing", "staged"} /\ comp.memory \in Entries)
  /\ blocked \in BOOLEAN /\ unconfirmed \in 0..MaxEntries
  /\ writer \in [Purposes -> [phase : {"off", "ready", "reserved", "sent", "written", "failed"},
                               call : Nat, made : 0..WriterCalls, aborted : BOOLEAN]]
  /\ DOMAIN calls \subseteq 1..lastCall
  /\ gap \in {"none", "unreadable", "unwritable"}

\* No original is lost on the way from checkpoint to checkpoint: it is still
\* in context, or a writer read it for the note or for one the note rests on,
\* or, a user message, the checkpoint carries it verbatim.  Over all four
\* paths, interrupted turns and retries (controller.ts compact, cuts.ts,
\* work-notes.ts).
OriginalsSurvive ==
  LET c == Checkpoint(branch)
  IN c # 0 => \A i \in DOMAIN branch :
       IsMessage(branch[i]) =>
         \/ i \in Active(branch)
         \/ branch[i].id \in branch[c].read
         \/ IsUser(branch[i]) /\ branch[i].id \in branch[c].carried

\* A checkpoint's note rests on originals of its own branch only, whatever
\* navigation, cancellation and late results did to the candidate it may come
\* from (preparation.ts start, take; classifyPreparation).
NotesRestOnTheirBranch ==
  \A i \in DOMAIN branch :
    branch[i].kind = "memory" =>
      branch[i].read \cup branch[i].carried \subseteq {branch[j].id : j \in 1..(i - 1)}

\* Requests of a preparation leave from one run only per checkpoint interval,
\* over cancellations, navigation and restarts: at most one paid attempt
\* (call-journal.ts preparedIn, preparation.ts mayStart).
OnePaidAttemptPerInterval ==
  \A s, t \in sent : s.run # 0 /\ t.run # 0 /\ s.interval = t.interval => s.run = t.run

\* "Optional preparation never sends an unrecorded call": its start line is
\* complete in the file (call-journal.ts beforeDispatch).
PreparationIsRecorded ==
  \A s \in sent : s.run # 0 => Recorded(file, s.call)

\* A request that was sent after its start line went to the file is counted
\* by the status summary, or the summary shows a gap, also after restarts.
CountedOrGap ==
  \A s \in sent : Recorded(file, s.call) => Counted(calls, s.call) \/ gap # "none"

\* "A call interrupted by a crash stays visible as unsettled rather than
\* free": the status summary counts it.
InterruptedStaysVisible ==
  \A s \in sent : s.run # 0 => Counted(calls, s.call)

\* A preparation ends: the deadline cancels one that its provider keeps
\* waiting, and the next one can start (preparation.ts start).
PreparationEnds == running ~> ~running

=============================================================================
