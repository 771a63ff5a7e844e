-------------------------- MODULE ConversationRun --------------------------
(***************************************************************************)
(* One conversation of a Harness of packages/durable: submissions, the     *)
(* inbox, run control in pi.live, and the built-in generation, tool and    *)
(* compaction tasks that hand a run to one another (src/harness/inbox.ts,  *)
(* submissions.ts, live.ts, generation.ts, tool.ts, compaction.ts).        *)
(*                                                                         *)
(* Each action is one commit on the Session line.  The scheduler is seen   *)
(* as its tasks see it (TaskScheduler): a task works when the tasks it     *)
(* waits on are terminal, a marked one only runs its abort handler, after  *)
(* the work it owns, and a crash repeats a phase from its checkpoint.      *)
(* Entries that contribute no message to the model (system entries,        *)
(* failed and partial responses, host notes) are left out.                 *)
(***************************************************************************)
EXTENDS Integers, Sequences, FiniteSets, SequencesExt

CONSTANTS
  Calls,            \* tool calls one response may hold, in the order given
  SafeCalls,        \* those whose tool declares replay "safe"
  Hosts,            \* what hosts and configurations do, see HostChoices
  MaxSubmissions,   \* bound on host submissions
  MaxTurns,         \* bound on tool rounds and onYield continuations
  MaxAttempts,      \* request attempts of a generation, retry policy included
  MaxCompactions,   \* bound on compaction tasks
  MaxRaw,           \* bound on user messages a tool appends itself
  MaxFaults         \* bound on crashes and faults

HostChoices == {"steer", "reset", "withdraw", "abort", "compact", "background", "sequential", "unavailable"}

\* A provider gives the calls of one response distinct identifiers.
ASSUME ConversationAssumption ==
  /\ Calls \in Seq(Range(Calls)) /\ \A i, j \in DOMAIN Calls : Calls[i] = Calls[j] => i = j
  /\ SafeCalls \subseteq Range(Calls) /\ Hosts \subseteq HostChoices
  /\ {MaxSubmissions, MaxTurns, MaxAttempts, MaxCompactions, MaxRaw, MaxFaults} \subseteq Nat
  /\ MaxAttempts > 0

VARIABLES
  subs,      \* submission records in ID order: [type, status]
  inbox,     \* pi.inbox: [id, mode, head]
  entries,   \* the transcript: [kind, of, calls, head]
  run,       \* pi.live.run
  slots,     \* pi.live.tools: calls of the current round without a task
  gens,      \* generation tasks in ID order
  tools,     \* tool tasks in ID order
  comps,     \* compaction tasks in ID order
  used       \* bounded choices made so far: [turns, raw, faults]

vars == <<subs, inbox, entries, run, slots, gens, tools, comps, used>>
table == <<subs, inbox, entries>>

NoRun == [task |-> 0, inputs |-> <<>>]

Settled == {"done", "stale", "aborted", "error", "faulted", "reset"}

NewGeneration ==
  [phase |-> "prepare", live |-> TRUE, mark |-> FALSE, attempt |-> 1, compacted |-> 0,
   overflow |-> FALSE, assistant |-> 0, pending |-> <<>>, outcome |-> "none"]
NewTool(g, a, call) ==
  [gen |-> g, assistant |-> a, call |-> call, phase |-> "call", live |-> TRUE, mark |-> FALSE,
   executing |-> FALSE, runs |-> 0, outcome |-> "none", control |-> "none"]
NewCompaction(owner, background) ==
  [owner |-> owner, background |-> background, phase |-> "select", live |-> TRUE, mark |-> FALSE, kept |-> 0, placed |-> FALSE]

\* The elements at some positions of a sequence, in their order.
Only(s, positions) ==
  LET upTo[n \in 0..Len(s)] ==
        IF n = 0 THEN <<>> ELSE IF n \in positions THEN Append(upTo[n - 1], s[n]) ELSE upTo[n - 1]
  IN upTo[Len(s)]

----------------------------------------------------------------------------
(* The transcript.                                                         *)

\* calls: the calls of an assistant, the call of a result.
Entry(kind, of, calls, head) == [kind |-> kind, of |-> of, calls |-> calls, head |-> head]

\* latestHeadMarker and the start of the active range; 0 without a marker.
Marker(E) == CHOOSE i \in 0..Len(E) : /\ i > 0 => E[i].head > 0
                                      /\ \A j \in (i + 1)..Len(E) : E[j].head = 0
RangeStart(E) == IF Marker(E) = 0 THEN 0 ELSE E[Marker(E)].head

\* selectActive without the marker: what the model sees of the transcript.
Active(E) == {i \in 1..Len(E) : i >= RangeStart(E) /\ E[i].head = 0}

\* Mutant: a user entry is a candidate whatever follows it.
IsCandidateAnyUser(E, i) == E[i].kind \in {"assistant", "user"}

\* isCandidate: an assistant, or a user entry that no result of the preceding
\* assistant's calls follows before the next assistant.
IsCandidate(E, i) ==
  \/ E[i].kind = "assistant"
  \/ /\ E[i].kind = "user"
     /\ LET before == {a \in Active(E) : a < i /\ E[a].kind = "assistant"}
        IN \A r \in Active(E) : ~(/\ r > i /\ E[r].kind = "result" /\ before # {}
                                  /\ \A a \in before : a <= E[r].of
                                  /\ \A b \in i..r : E[b].kind # "assistant")

\* selectCut: which candidate it returns depends on token counts; something
\* before it must be worth summarizing.
Cuts(E) == {i \in Active(E) : IsCandidate(E, i) /\ \E j \in Active(E) : j < i}

----------------------------------------------------------------------------
(* Submissions and boundaries.  A draft is what one commit has staged.     *)

Draft == [subs |-> subs, inbox |-> inbox, entries |-> entries, users |-> <<>>]

Commit(D) == subs' = D.subs /\ inbox' = D.inbox /\ entries' = D.entries

AppendTo(D, entry) == [D EXCEPT !.entries = Append(@, entry)]

\* applySubmissionChange, for each of some submissions.
Change(D, ids, status) ==
  [D EXCEPT !.subs = [id \in DOMAIN D.subs |->
     IF id \in ids /\ D.subs[id].status \notin Settled THEN [D.subs[id] EXCEPT !.status = status] ELSE D.subs[id]]]

\* Mutant: a late summary is placed whatever was cut meanwhile.
IsStaleNever(D, head) == FALSE

IsStale(D, head) == head > 0 /\ head < RangeStart(D.entries)

\* A head of -1 is "self": a reset.
WriteEntry(D, head) ==
  Entry(IF head = -1 THEN "reset" ELSE "summary", 0, <<>>, IF head = -1 THEN Len(D.entries) + 1 ELSE head)

PlaceWrite(D, item) ==
  IF IsStale(D, item.head) THEN Change(D, {item.id}, "stale")
  ELSE Change(AppendTo(D, WriteEntry(D, item.head)), {item.id}, "done")

\* Each write of the inbox in order: the ones before it may make it stale.
PlaceWrites(D) ==
  LET upTo[n \in 0..Len(D.inbox)] ==
        IF n = 0 THEN D
        ELSE IF D.inbox[n].mode = "write" THEN PlaceWrite(upTo[n - 1], D.inbox[n]) ELSE upTo[n - 1]
  IN upTo[Len(D.inbox)]

PlaceUsers(D, ids) ==
  [Change(D, Range(ids), "placed") EXCEPT
     !.entries = @ \o [i \in DOMAIN ids |-> Entry("user", ids[i], <<>>, 0)],
     !.users = ids]

HasReset(items) == \E i \in DOMAIN items : items[i].head = -1

\* applyBoundary: every write, then the first or all steers, and at 'final' the
\* first or all follow-ups.
Boundary(D, at, modes) ==
  LET items   == D.inbox
      final   == at = "final" \/ HasReset(items)
      first(i) == \A j \in 1..(i - 1) : items[j].mode # items[i].mode
      users   == {i \in DOMAIN items :
                    /\ items[i].mode = "steer" \/ (items[i].mode = "followUp" /\ final)
                    /\ items[i].mode \in modes \/ first(i)}
      left    == {i \in DOMAIN items : items[i].mode # "write"} \ users
      placed  == PlaceUsers(PlaceWrites(D), Only([i \in DOMAIN items |-> items[i].id], users))
  IN [placed EXCEPT !.inbox = Only(items, left)]

\* The queue modes that select all; settings are read at each boundary.
Modes == SUBSET {"steer", "followUp"}

\* startRun: a new generation takes the run, if any input was selected.
StartRun(users, G) ==
  IF users = <<>> THEN run' = NoRun /\ gens' = G
  ELSE run' = [task |-> Len(G) + 1, inputs |-> users] /\ gens' = Append(G, NewGeneration)

\* endRun: settle each input of the run the task owns.
EndRun(D, g, status) ==
  IF run.task = g THEN Change(D, Range(run.inputs), status) ELSE D
RunWithout(g) == IF run.task = g THEN NoRun ELSE run

\* admitSubmission, past the request ID and whenBusy checks.  'G' are the
\* generations this commit has staged.
Admit(D, type, mode, head, modes, G) ==
  LET id     == Len(D.subs) + 1
      record(status) == [D EXCEPT !.subs = Append(@, [type |-> type, status |-> status])]
      queued == [record("queued") EXCEPT !.inbox = Append(@, [id |-> id, mode |-> mode, head |-> head])]
      input  == [AppendTo(record("placed"), Entry("user", id, <<>>, 0)) EXCEPT !.users = <<id>>]
      write  == IF IsStale(D, head) THEN record("stale") ELSE AppendTo(record("done"), WriteEntry(D, head))
      idle   == IF D.inbox # <<>> THEN Boundary(queued, "final", modes)
                ELSE IF type = "input" THEN input ELSE write
  IN IF run # NoRun THEN Commit(queued) /\ run' = run /\ gens' = G
     ELSE Commit(idle) /\ StartRun(idle.users, G)

----------------------------------------------------------------------------
(* Host operations.                                                        *)

HostSubmissions == Cardinality({i \in DOMAIN subs : subs[i].type # "summary"})

Submit(mode, head, modes) ==
  /\ HostSubmissions < MaxSubmissions
  /\ Admit(Draft, IF mode = "write" THEN "write" ELSE "input", mode, head, modes, gens)
  /\ UNCHANGED <<slots, tools, comps, used>>

\* Submission.abort: only what is still queued.
Withdraw(id) ==
  /\ "withdraw" \in Hosts
  /\ id \in DOMAIN subs /\ subs[id].status = "queued"
  /\ Commit([Change(Draft, {id}, "aborted") EXCEPT !.inbox = Only(@, {i \in DOMAIN inbox : inbox[i].id # id})])
  /\ UNCHANGED <<run, slots, gens, tools, comps, used>>

\* Conversation.abort: marks every live task in one commit, background ones if
\* asked to, and withdraws the queued inputs; queued writes stay.
AbortConversation(background) ==
  /\ "abort" \in Hosts
  /\ LET marked(T) == [i \in DOMAIN T |-> [T[i] EXCEPT !.mark = @ \/ T[i].live]]
     IN /\ gens' = marked(gens) /\ tools' = marked(tools)
        /\ comps' = [c \in DOMAIN comps |->
             IF comps[c].background /\ ~background THEN comps[c] ELSE marked(comps)[c]]
  /\ LET writes == {i \in DOMAIN inbox : inbox[i].mode = "write"}
         inputs == {inbox[i].id : i \in DOMAIN inbox \ writes}
     IN Commit([Change(Draft, inputs, "aborted") EXCEPT !.inbox = Only(@, writes)])
  /\ UNCHANGED <<run, slots, used>>

\* Harness.abortTask on the run's generation; #reconcile marks what it owns.
AbortTask(g) ==
  /\ "abort" \in Hosts
  /\ gens[g].live /\ ~gens[g].mark
  /\ gens' = [gens EXCEPT ![g].mark = TRUE]
  /\ UNCHANGED <<table, run, slots, tools, comps, used>>

Reconcile ==
  /\ \E g \in DOMAIN gens : gens[g].live /\ gens[g].mark
  /\ LET cancelled(owner) == owner # 0 /\ gens[owner].live /\ gens[owner].mark
     IN /\ tools' = [t \in DOMAIN tools |->
                       [tools[t] EXCEPT !.mark = @ \/ (tools[t].live /\ cancelled(tools[t].gen))]]
        /\ comps' = [c \in DOMAIN comps |->
                       [comps[c] EXCEPT !.mark = @ \/ (comps[c].live /\ cancelled(comps[c].owner))]]
  /\ UNCHANGED <<table, run, slots, gens, used>>

\* createCompaction.
CreateCompaction(owner, background) ==
  /\ Len(comps) < MaxCompactions
  /\ comps' = Append(comps, NewCompaction(owner, background))

Compact ==
  /\ "compact" \in Hosts
  /\ CreateCompaction(0, FALSE)
  /\ UNCHANGED <<table, run, slots, gens, tools, used>>

----------------------------------------------------------------------------
(* The generation.                                                         *)

\* Live tasks a generation owns; it waits for them in every phase that has any.
OwnedTools(g) == {t \in DOMAIN tools : tools[t].gen = g /\ tools[t].live}
OwnedComps(g) == {c \in DOMAIN comps : comps[c].owner = g /\ comps[c].live}
\* Mutant: an aborted generation does not wait for the work it owns.
ReadyOnceMarked(g) == gens[g].live /\ (gens[g].mark \/ (OwnedTools(g) = {} /\ OwnedComps(g) = {}))

Ready(g) == gens[g].live /\ OwnedTools(g) = {} /\ OwnedComps(g) = {}
Works(g, phases) == g \in DOMAIN gens /\ Ready(g) /\ ~gens[g].mark /\ gens[g].phase \in phases

Ended(g, outcome) ==
  [gens EXCEPT ![g] = [NewGeneration EXCEPT !.live = FALSE, !.outcome = outcome, !.assistant = gens[g].assistant]]

\* failNoModel, failModelError, a fault and an abort: the inputs settle, no
\* boundary is applied.
EndsUnanswered(g, D, status, outcome) ==
  /\ Commit(EndRun(D, g, status))
  /\ run' = RunWithout(g) /\ slots' = <<>>
  /\ gens' = Ended(g, outcome)

\* The overflow that started a blocking compaction which placed no summary.
OverflowStands(g) == gens[g].overflow /\ ~comps[gens[g].compacted].placed

\* prepare without a model, or after a compaction that did not help.
PrepareFails(g) ==
  /\ Works(g, {"prepare"})
  /\ EndsUnanswered(g, Draft, "error", "failed")
  /\ UNCHANGED <<tools, comps, used>>

\* prepare over the blocking threshold: compact first, then prepare again.
PrepareCompacts(g) ==
  /\ Works(g, {"prepare"}) /\ ~OverflowStands(g)
  /\ gens[g].compacted = 0 /\ Cuts(entries) # {}
  /\ CreateCompaction(g, FALSE)
  /\ gens' = [gens EXCEPT ![g].compacted = Len(comps) + 1]
  /\ UNCHANGED <<table, run, slots, tools, used>>

\* prepare: pin the request; over the background threshold and with no
\* compaction listed, start one beside it.
Prepare(g) ==
  /\ Works(g, {"prepare"}) /\ ~OverflowStands(g)
  /\ gens' = [gens EXCEPT ![g].phase = "request", ![g].overflow = FALSE]
  /\ \/ UNCHANGED comps
     \/ /\ "background" \in Hosts /\ gens[g].compacted = 0 /\ Cuts(entries) # {}
        /\ \A c \in DOMAIN comps : ~comps[c].live
        /\ CreateCompaction(0, TRUE)
  /\ UNCHANGED <<table, run, slots, tools, used>>

\* A deferred response, classified again from the poll phase.
Defer(g) ==
  /\ Works(g, {"request"})
  /\ gens' = [gens EXCEPT ![g].phase = "poll"]
  /\ UNCHANGED <<table, run, slots, tools, comps, used>>

\* classify: a context overflow starts a blocking compaction, once.
Overflow(g) ==
  /\ Works(g, {"request", "poll"})
  /\ gens[g].compacted = 0 /\ Cuts(entries) # {}
  /\ CreateCompaction(g, FALSE)
  /\ gens' = [gens EXCEPT ![g].phase = "prepare", ![g].overflow = TRUE, ![g].compacted = Len(comps) + 1]
  /\ UNCHANGED <<table, run, slots, tools, used>>

\* classify: a retryable error, then the retry phase.
Fails(g) ==
  /\ Works(g, {"request", "poll"})
  /\ \/ /\ gens[g].attempt < MaxAttempts
        /\ gens' = [gens EXCEPT ![g].phase = "retry"]
        /\ UNCHANGED <<table, run, slots>>
     \/ EndsUnanswered(g, Draft, "error", "failed")
  /\ UNCHANGED <<tools, comps, used>>

\* Mutant: the attempt is not counted.
RetryUncounted(g) ==
  /\ Works(g, {"retry"})
  /\ gens' = [gens EXCEPT ![g].phase = "prepare"]
  /\ UNCHANGED <<table, run, slots, tools, comps, used>>

Retry(g) ==
  /\ Works(g, {"retry"})
  /\ gens' = [gens EXCEPT ![g].phase = "prepare", ![g].attempt = @ + 1]
  /\ UNCHANGED <<table, run, slots, tools, comps, used>>

\* Mutant: inputs placed after the tools do not join the run.
HandOverAlone(g, users) ==
  /\ run' = IF run.task = g THEN [run EXCEPT !.task = Len(gens) + 1] ELSE run
  /\ gens' = Append(Ended(g, "completed"), NewGeneration)

\* handOver: a successor generation takes the run with its inputs.
HandOver(g, users) ==
  /\ run' = IF run.task = g THEN [task |-> Len(gens) + 1, inputs |-> run.inputs \o users] ELSE run
  /\ gens' = Append(Ended(g, "completed"), NewGeneration)

AssistantEntry(calls) == Entry("assistant", 0, calls, 0)

\* answer: the final boundary; an onYield continuation keeps the run when no
\* user item and no reset was selected.
Answer(g, modes, continue) ==
  /\ Works(g, {"request", "poll"})
  /\ LET placed == Boundary(AppendTo(Draft, AssistantEntry(<<>>)), "final", modes)
     IN IF continue /\ placed.users = <<>> /\ ~HasReset(inbox)
        THEN /\ Commit(AppendTo(placed, Entry("user", 0, <<>>, 0)))
             /\ HandOver(g, <<>>) /\ UNCHANGED slots
        ELSE /\ Commit(EndRun(placed, g, "done"))
             /\ slots' = <<>>
             /\ StartRun(placed.users, Ended(g, "completed"))
  /\ used' = [used EXCEPT !.turns = @ + (IF continue THEN 1 ELSE 0)]
  /\ used'.turns <= MaxTurns
  /\ UNCHANGED <<tools, comps>>

Result(a, call) == Entry("result", a, <<call>>, 0)

\* startToolRound: results for the calls that were not offered, tool tasks for
\* the others, only the first one now when the round is sequential.
StartToolRound(g, calls, offered, sequential) ==
  /\ Works(g, {"request", "poll"}) /\ used.turns < MaxTurns
  /\ LET a       == Len(entries) + 1
         missing == Only(calls, {i \in DOMAIN calls : calls[i] \notin offered})
         wanted  == Only(calls, {i \in DOMAIN calls : calls[i] \in offered})
         now     == IF sequential /\ wanted # <<>> THEN <<Head(wanted)>> ELSE wanted
         pending == IF sequential /\ wanted # <<>> THEN Tail(wanted) ELSE <<>>
     IN /\ Commit([Draft EXCEPT !.entries = Append(@, AssistantEntry(calls))
                                              \o [i \in DOMAIN missing |-> Result(a, missing[i])]])
        /\ tools' = tools \o [i \in DOMAIN now |-> NewTool(g, a, now[i])]
        /\ slots' = missing
        /\ gens' = [gens EXCEPT ![g] = [@ EXCEPT !.phase = "tools", !.assistant = a, !.pending = pending]]
  /\ used' = [used EXCEPT !.turns = @ + 1]
  /\ UNCHANGED <<run, comps>>

\* tools: the next call of a sequential round.
NextCall(g) ==
  /\ Works(g, {"tools"}) /\ gens[g].pending # <<>>
  /\ tools' = Append(tools, NewTool(g, gens[g].assistant, Head(gens[g].pending)))
  /\ gens' = [gens EXCEPT ![g].pending = Tail(@)]
  /\ UNCHANGED <<table, run, slots, comps, used>>

\* finishToolRound: terminate and handoff end the run at the final boundary, a
\* queued reset ends it unanswered, otherwise the next generation takes it.
FinishToolRound(g, modes) ==
  /\ Works(g, {"tools"}) /\ gens[g].pending = <<>>
  /\ LET round     == {t \in DOMAIN tools : tools[t].gen = g}
         controls  == {tools[t].control : t \in round}
         terminate == slots = <<>> /\ controls = {"terminate"}
         handoff   == "handoff" \in controls
         start     == IF handoff THEN AppendTo(Draft, WriteEntry(Draft, -1)) ELSE Draft
         placed    == Boundary(start, IF terminate \/ handoff THEN "final" ELSE "postTools", modes)
     IN IF terminate \/ handoff \/ HasReset(inbox)
        THEN /\ Commit(EndRun(placed, g, IF terminate \/ handoff THEN "done" ELSE "reset"))
             /\ StartRun(placed.users, Ended(g, "completed"))
        ELSE /\ Commit(placed)
             /\ HandOver(g, placed.users)
  /\ slots' = <<>>
  /\ UNCHANGED <<tools, comps, used>>

\* Mutant: calls of a sequential round that never started are left unanswered.
GenerationAbortsOnly(g) ==
  /\ Ready(g) /\ gens[g].mark
  /\ EndsUnanswered(g, Draft, "aborted", "aborted")
  /\ UNCHANGED <<tools, comps, used>>

\* The abort handler: calls never started get their results.
GenerationAborts(g) ==
  /\ Ready(g) /\ gens[g].mark
  /\ LET unstarted == gens[g].pending
         results   == [i \in DOMAIN unstarted |-> Result(gens[g].assistant, unstarted[i])]
     IN EndsUnanswered(g, [Draft EXCEPT !.entries = @ \o results], "aborted", "aborted")
  /\ UNCHANGED <<tools, comps, used>>

Faults == used.faults < MaxFaults /\ used' = [used EXCEPT !.faults = @ + 1]

\* settleSchedulerOutcome for a generation.
GenerationFaults(g) ==
  /\ Ready(g) /\ Faults
  /\ EndsUnanswered(g, Draft, "faulted", "faulted")
  /\ UNCHANGED <<tools, comps>>

----------------------------------------------------------------------------
(* Tools.                                                                  *)

ToolWorks(t, phase) == t \in DOMAIN tools /\ tools[t].live /\ ~tools[t].mark /\ tools[t].phase = phase

\* settle: the result entry and the outcome, in one commit.
Settles(t, outcome, control) ==
  /\ Commit(AppendTo(Draft, Result(tools[t].assistant, tools[t].call)))
  /\ tools' = [tools EXCEPT ![t] = [@ EXCEPT !.live = FALSE, !.mark = FALSE, !.executing = FALSE,
                                             !.outcome = outcome, !.control = control]]
  /\ UNCHANGED <<run, slots, gens, comps, used>>

\* call: unavailable, invalid or blocked before execution ...
ToolRefuses(t) == ToolWorks(t, "call") /\ Settles(t, "completed", "none")

\* ... or the intent, and then execution by the same invocation.
ToolIntends(t) ==
  /\ ToolWorks(t, "call")
  /\ tools' = [tools EXCEPT ![t] = [tools[t] EXCEPT !.phase = "execute", !.executing = TRUE, !.runs = @ + 1]]
  /\ UNCHANGED <<table, run, slots, gens, comps, used>>

ToolReturns(t, outcome, control) ==
  /\ ToolWorks(t, "execute") /\ tools[t].executing
  /\ outcome = "failed" => control = "none"
  /\ Settles(t, outcome, control)

\* ToolExecutionApi.commit: the tool itself appends a user message.
ToolAppends(t) ==
  /\ ToolWorks(t, "execute") /\ tools[t].executing /\ used.raw < MaxRaw
  /\ Commit(AppendTo(Draft, Entry("user", 0, <<>>, 0)))
  /\ used' = [used EXCEPT !.raw = @ + 1]
  /\ UNCHANGED <<run, slots, gens, tools, comps>>

\* Mutant: every interrupted tool is rerun.
ToolRerunsAlways(t) ==
  /\ ToolWorks(t, "execute") /\ ~tools[t].executing
  /\ tools' = [tools EXCEPT ![t] = [tools[t] EXCEPT !.executing = TRUE, !.runs = @ + 1]]
  /\ UNCHANGED <<table, run, slots, gens, comps, used>>

\* execute, reached by recovery only: rerun when the stored policy and the
\* current one say so, otherwise report the interruption.
ToolReruns(t) ==
  /\ ToolWorks(t, "execute") /\ ~tools[t].executing
  /\ tools[t].call \in SafeCalls
  /\ tools' = [tools EXCEPT ![t] = [tools[t] EXCEPT !.executing = TRUE, !.runs = @ + 1]]
  /\ UNCHANGED <<table, run, slots, gens, comps, used>>

ToolInterrupted(t) ==
  /\ ToolWorks(t, "execute") /\ ~tools[t].executing
  /\ Settles(t, "failed", "none")

ToolAborts(t) ==
  /\ tools[t].live /\ tools[t].mark
  /\ Settles(t, "aborted", "none")

\* settleSchedulerOutcome for a tool: done without an entry.
ToolFaults(t) ==
  /\ tools[t].live /\ Faults
  /\ tools' = [tools EXCEPT ![t] = [@ EXCEPT !.live = FALSE, !.mark = FALSE, !.executing = FALSE,
                                             !.outcome = "faulted"]]
  /\ UNCHANGED <<table, run, slots, gens, comps>>

----------------------------------------------------------------------------
(* Compactions.                                                            *)

CompactionWorks(c, phase) == c \in DOMAIN comps /\ comps[c].live /\ ~comps[c].mark /\ comps[c].phase = phase

CompactionEnds(c, placed) ==
  comps' = [comps EXCEPT ![c] = [@ EXCEPT !.live = FALSE, !.mark = FALSE, !.kept = 0, !.placed = placed]]

\* select: the range is fixed; the summary comes later.
Select(c) ==
  /\ CompactionWorks(c, "select")
  /\ \E cut \in Cuts(entries) :
       comps' = [comps EXCEPT ![c] = [@ EXCEPT !.phase = "summarize", !.kept = cut]]
  /\ UNCHANGED <<table, run, slots, gens, tools, used>>

\* Nothing to compact, declined, no model, a failed summary, or an abort.
CompactionGivesUp(c) ==
  /\ c \in DOMAIN comps /\ comps[c].live
  /\ CompactionEnds(c, FALSE)
  /\ UNCHANGED <<table, run, slots, gens, tools, used>>

\* placeSummary: a blocking compaction appends its summary, any other one
\* admits it as a write.
PlaceSummary(c, modes) ==
  /\ CompactionWorks(c, "summarize")
  /\ CompactionEnds(c, TRUE)
  /\ IF comps[c].owner # 0
     THEN /\ Commit(AppendTo(Draft, WriteEntry(Draft, comps[c].kept)))
          /\ UNCHANGED <<run, gens>>
     ELSE Admit(Draft, "summary", "write", comps[c].kept, modes, gens)
  /\ UNCHANGED <<slots, tools, used>>

----------------------------------------------------------------------------
\* The process dies and the Harness opens again: no tool is executing.
Crash ==
  /\ Faults
  /\ tools' = [t \in DOMAIN tools |-> [tools[t] EXCEPT !.executing = FALSE]]
  /\ UNCHANGED <<table, run, slots, gens, comps>>

Init ==
  /\ subs = <<>> /\ inbox = <<>> /\ entries = <<>>
  /\ run = NoRun /\ slots = <<>>
  /\ gens = <<>> /\ tools = <<>> /\ comps = <<>>
  /\ used = [turns |-> 0, raw |-> 0, faults |-> 0]

Host ==
  \/ \E modes \in Modes :
       \/ Submit("followUp", 0, modes)
       \/ "steer" \in Hosts /\ Submit("steer", 0, modes)
       \/ "reset" \in Hosts /\ Submit("write", -1, modes)
  \/ \E id \in DOMAIN subs : Withdraw(id)
  \/ \E background \in BOOLEAN : AbortConversation(background)
  \/ \E g \in DOMAIN gens : AbortTask(g)
  \/ Compact

Rounds == {SubSeq(Calls, 1, n) : n \in 1..Len(Calls)}

Generation(g) ==
  \/ PrepareFails(g) \/ PrepareCompacts(g) \/ Prepare(g)
  \/ Defer(g) \/ Overflow(g) \/ Fails(g) \/ Retry(g)
  \/ \E modes \in Modes, continue \in BOOLEAN : Answer(g, modes, continue)
  \/ \E calls \in Rounds, sequential \in (IF "sequential" \in Hosts THEN BOOLEAN ELSE {FALSE}) :
       \E offered \in (IF "unavailable" \in Hosts THEN SUBSET Range(calls) ELSE {Range(calls)}) :
         StartToolRound(g, calls, offered, sequential)
  \/ NextCall(g) \/ \E modes \in Modes : FinishToolRound(g, modes)
  \/ GenerationAborts(g)

Tool(t) ==
  \/ ToolRefuses(t) \/ ToolIntends(t) \/ ToolAppends(t)
  \/ \E outcome \in {"completed", "failed"}, control \in {"none", "terminate", "handoff"} :
       ToolReturns(t, outcome, control)
  \/ ToolReruns(t) \/ ToolInterrupted(t) \/ ToolAborts(t)

Compaction(c) == Select(c) \/ CompactionGivesUp(c) \/ \E modes \in Modes : PlaceSummary(c, modes)

Next ==
  \/ Host \/ Reconcile \/ Crash
  \/ \E g \in DOMAIN gens : Generation(g) \/ GenerationFaults(g)
  \/ \E t \in DOMAIN tools : Tool(t) \/ ToolFaults(t)
  \/ \E c \in DOMAIN comps : Compaction(c)

Spec == Init /\ [][Next]_vars

\* The scheduler runs every task that may run, a provider and a tool answer
\* sooner or later; hosts, crashes and faults are never obliged.
Fairness ==
  /\ WF_vars(Reconcile)
  /\ \A g \in 1..(MaxSubmissions + MaxTurns) : WF_vars(g \in DOMAIN gens /\ Generation(g))
  /\ \A t \in 1..(MaxTurns * Len(Calls)) : WF_vars(t \in DOMAIN tools /\ Tool(t))
  /\ \A c \in 1..MaxCompactions : WF_vars(c \in DOMAIN comps /\ Compaction(c))

FairSpec == Spec /\ Fairness

----------------------------------------------------------------------------
(* Properties.                                                             *)

SubmissionRecord == [type: {"input", "write", "summary"}, status: Settled \cup {"queued", "placed"}]
InboxItem == [id: Nat, mode: {"steer", "followUp", "write"}, head: Int]
EntryRecord ==
  [kind: {"user", "assistant", "result", "reset", "summary"}, of: Nat, calls: Seq(Range(Calls)), head: Nat]
GenerationTask ==
  [phase: {"prepare", "request", "poll", "retry", "tools"}, live: BOOLEAN, mark: BOOLEAN, attempt: Nat, compacted: Nat,
   overflow: BOOLEAN, assistant: Nat, pending: Seq(Range(Calls)),
   outcome: {"none", "completed", "failed", "aborted", "faulted"}]
ToolTask ==
  [gen: Nat, assistant: Nat, call: Range(Calls), phase: {"call", "execute"}, live: BOOLEAN, mark: BOOLEAN,
   executing: BOOLEAN, runs: Nat, outcome: {"none", "completed", "failed", "aborted", "faulted"},
   control: {"none", "terminate", "handoff"}]
CompactionTask ==
  [owner: Nat, background: BOOLEAN, phase: {"select", "summarize"}, live: BOOLEAN, mark: BOOLEAN, kept: Nat,
   placed: BOOLEAN]

\* The shape of the conversation's documents and task records.
TypeOK ==
  /\ subs \in Seq(SubmissionRecord) /\ inbox \in Seq(InboxItem) /\ entries \in Seq(EntryRecord)
  /\ run \in [task: 0..Len(gens), inputs: Seq(Nat)] /\ slots \in Seq(Range(Calls))
  /\ gens \in Seq(GenerationTask) /\ tools \in Seq(ToolTask) /\ comps \in Seq(CompactionTask)
  /\ used \in [turns: 0..MaxTurns, raw: 0..MaxRaw, faults: 0..MaxFaults]
  /\ \A i \in DOMAIN entries : entries[i].head <= i
  /\ \A i \in DOMAIN inbox : inbox[i].head \in -1..Len(entries)
  /\ \A t \in DOMAIN tools : tools[t].gen \in DOMAIN gens /\ tools[t].assistant \in DOMAIN entries
  /\ \A c \in DOMAIN comps : comps[c].owner \in DOMAIN gens \cup {0} /\ comps[c].kept \in 0..Len(entries)

\* Every submission is where its status says: queued ones are the inbox, in ID
\* order, placed inputs are the inputs of the run, each once, and a conversation
\* without a run has none.
SubmissionsAccounted ==
  /\ {inbox[i].id : i \in DOMAIN inbox} = {id \in DOMAIN subs : subs[id].status = "queued"}
  /\ \A i, j \in DOMAIN inbox : i < j => inbox[i].id < inbox[j].id
  /\ Range(run.inputs) = {id \in DOMAIN subs : subs[id].status = "placed"}
  /\ Cardinality(Range(run.inputs)) = Len(run.inputs)

\* A conversation is busy exactly while one generation is live, the one that
\* will settle the run; its tools and blocking compactions never outlive it.
RunHasItsGeneration ==
  /\ {g \in DOMAIN gens : gens[g].live} = {run.task} \ {0}
  /\ \A t \in DOMAIN tools : tools[t].live => tools[t].gen = run.task
  /\ \A c \in DOMAIN comps : comps[c].live /\ comps[c].owner # 0 => comps[c].owner = run.task

ResultsOf(a, call) == {r \in DOMAIN entries : entries[r].kind = "result" /\ entries[r].of = a /\ entries[r].calls = <<call>>}

\* Once its round is over, every tool call has its result, unless its task or
\* its generation faulted; no call ever has two, whatever was aborted, repeated
\* after a crash or never started.
CallsAnswered ==
  \A g \in DOMAIN gens : gens[g].assistant # 0 =>
    \A call \in Range(entries[gens[g].assistant].calls) :
      LET results == ResultsOf(gens[g].assistant, call)
          faulted == \/ gens[g].outcome = "faulted"
                     \/ \E t \in DOMAIN tools : /\ tools[t].gen = g /\ tools[t].call = call
                                                /\ tools[t].outcome = "faulted"
      IN Cardinality(results) <= 1 /\ (~gens[g].live /\ ~faulted => results # {})

\* A compaction never separates a result from its call: the model sees no
\* result whose call was cut.
PairsStayTogether ==
  \A r \in Active(entries) : entries[r].kind = "result" => entries[r].of \in Active(entries)

\* No crash makes a tool without replay "safe" execute twice for one call.
UnsafeRunsOnce ==
  \A t \in DOMAIN tools : tools[t].call \notin SafeCalls => tools[t].runs <= 1

\* A late summary never brings back history that a newer head has cut.
HeadsOnlyAdvance == [][RangeStart(entries') >= RangeStart(entries)]_vars

\* A placed input is settled in the end: answered, or unanswered with a reason.
InputsSettle ==
  \A id \in 1..MaxSubmissions :
    (id \in DOMAIN subs /\ subs[id].status = "placed") ~> (id \in DOMAIN subs /\ subs[id].status \in Settled)
=============================================================================
