# A verification development for context compaction in Pi

This directory holds TLA+ modules that model the context-compaction extension
of this repository and the durable harness it ships with, TLC configurations
that check them on small instances, and proofs checked by TLAPS. `PROJECT.json` maps every definition to the lines of
`src/` it stands for, names the runs, the hazards, the findings and the
theorems. Paths below are relative to `src/packages/`; `preview/` stands for
`coding-agent/src/extensions/context-memory/preview/`, `core/` for
`compaction-core/src/`, `resident/` for
`coding-agent/src/extensions/context-memory/`, `durable/` for `durable/src/`.

## 1. The system

A long session with a model outgrows its context window. This package replaces
Pi's own compaction: a *writer* (the session's model, or a fixed one) reads the
originals since the last *checkpoint* and writes a note whose facts cite entry
ids; the note becomes a checkpoint entry of the session, the originals it
covers leave the context and stay in the session file. What must never happen
is that a session goes on with a checkpoint nobody has validated on disk, that
originals vanish which no note has covered, or that paid calls go unaccounted.

The second half of the models is about the package `durable`: a harness that
runs conversations with a model as *tasks* whose records are committed, batch by
batch, to a storage, so that a crash at any point loses no input, repeats no
unsafe tool and leaves no task behind. It has its own compaction. Its promises
are written down in `durable`'s `docs/spec.md`; the models are made from its
code.

### Inventory

| Component | State | Operations | Interaction | What is hard | What makes it correct |
| --- | --- | --- | --- | --- | --- |
| Failure store (`preview/failure-store.ts`, `failure-io.ts`) | a marker file per session (`pending` or `blocked`, the attempt, the candidate's hash); in the process a latch, recovery markers, a readback frontier | `status`, `begin`, `stage`, `commit`, `recover`, `fail`, `markerPresent` | called by the controller inside one synchronous step | every read, rename, unlink and directory sync may fail on its own; crashes; power loss after an unsynced rename | an unconfirmed attempt stays on record; a claim goes only after a readback; the first cause is kept |
| Controller (`preview/controller.ts`, `extension.ts`) | sticky and observed failures, active and staged compactions, the verified branch | request guard, `compact`, `committed`, `compactionFailed`, `recover`, `sessionStart`, `branchChanged` | Pi's events; the store, writer, preparation, session manager | other extensions, the user, navigation and requests between its awaits | no request on an unconfirmed checkpoint, no native compaction over a claim, every compaction settles |
| Cuts and coverage (`core/cuts.ts`, `work-notes.ts`) | none: pure functions of a branch | `chooseCut`, `prefixCut`, `writerSources`, `coveredUserMessages` | used by `compact` on four paths | several checkpoints in a row on different paths | no original is lost |
| Preparation (`preview/preparation.ts`, `core/preparation-candidate.ts`) | one running job, one armed candidate, an epoch | `start`, `take`, `staged`, `committed`, `cancel`, `invalidate` | started after a turn; its candidate may be committed by `compact` | late results, deadline, navigation, cancellation, restarts | a candidate is used only for the branch it was written for; a run ends |
| Call journal (`preview/call-journal.ts`) | an append-only file per session; its calls and gap in memory | `hooks` (before and after each call), `preparedIn`, `writable`, `summary` | called by every writer call | torn lines, short writes, failing appends, restarts | paid calls are recorded, counted and not repeated |
| Writer (`core/writer.ts`) | local to one operation | generation per chunk, declined tool call, one repair, the checks on an answer, a splice and a shortened note | the provider; the journal's hooks | any answer, any error at any await | bounded calls, settled reservations, only notes that can be committed, nothing lost in a repair |
| Lease and storage of the resident build (`resident/lease.ts`, `storage.ts`) | a lock directory, a reaper directory, the expected stamp of the session file | `acquire`, `assert`, `release`, `requireRecovery`, appends | several Pi processes over one file | death between any two system calls, racing reapers, outside writers between check, write and new stamp | one holder; a live lease is not taken; writes only on known content |
| Host (`coding-agent/src/core/agent-session.ts`, `session-manager.ts`, `extensions/runner.ts`) | entries, branches, the leaf, abort signals | appends, compaction events, navigation | drives the extension | its steps interleave with the extension's awaits | (environment) |
| Reduction and work notes (`core/reduction.ts`, `work-notes.ts`) | none: pure functions of a branch | `reduceRecords`, `mergeWorkNotes` | the projection of every request; the notes path of `compact` | they are computed anew from a longer branch each time, with notes and checkpoints in between | the reduced view only grows, the only source of a fact stays, uncorrected facts stay |
| Task scheduler (`durable/harness/scheduler.ts`) | task records and owner edges (committed); invocations, a reserving loop, pending passes, fail-fast checks (process) | `open`, `resume`, `abort`, `abortConversation`, `close`; reconcile, reserve, step | observes every commit of the Session; runs handlers | commits of handlers, hosts and passes interleave; crash, close, rejected commits; definitions that are not there | a terminal task has drained; aborts run bottom-up; no wake-up is lost; cancellation ends |
| JSONL storage (`durable/storage/jsonl/storage.ts`) | a main file of markers, a sidecar file per document and task; the memory image | `commit`, `close`, recovery on `open` | the Session serializes its commits | failing appends, torn lines, power loss, reclamation of what is no longer needed | an atomic commit log; its own files are never refused |
| Conversation (`durable/harness/inbox.ts`, `submissions.ts`, `live.ts`, `generation.ts`, `tool.ts`, `compaction.ts`, `context.ts`) | submissions, inbox, entries and active range, the run, slots; one task per generation, tool call and compaction | submit, withdraw, abort, compact; the phases of the three tasks | one commit each, on the scheduler | steering, resets, compactions and aborts in the middle of a tool round; crashes after a tool's intent | every input is accounted for and settles; every call is answered; cuts keep pairs together; unsafe tools run once |
| Excerpts, history view, duplicate copies, notices, adapters, the rest of `durable`, the other Pi packages, `eval/` | see `PROJECT.json` | | | | not modelled, section 8 |

The marker is the hinge. `compact` writes a `pending` marker, calls the writer,
*stages* the candidate (its hash goes into the marker), and returns it to Pi;
Pi appends the checkpoint entry and fires `session_compact`; the store then
reads the entry and its sources back from disk, and only then removes the
marker. Everything that goes wrong on the way leaves the marker, and a marker
blocks requests until `/compact` succeeds or `/compaction-recover` confirms
what is on disk.

In `durable` the hinge is the commit. A handler, a host call or a scheduler pass
reads committed records, then commits one transaction: entries, submissions,
documents and task records together. `ConversationRun` is about which
transactions there are, `TaskScheduler` about who runs them and when,
`JsonlStorage` about a transaction reaching the disk; each takes from the next
one that a commit happens entirely or not at all, and `ImplementsCommitLog` is
that promise.

## 2. The plan

1. `FailureStore`, `PreviewSession`: the commit protocol, its faults and its
   environment; proofs of its safety. (done)
2. `SessionLease`: the writer lease among processes; proofs. (done)
3. `Coverage`, `CallJournal`, `Preparation`: what checkpoints cover, background
   preparation, accounting; proofs. (done)
4. `Writer`: one writer operation; proofs. (done)
5. `ContextView`: reduction of tool results and merging of work notes; proofs.
   (done)
6. `TaskScheduler`; proofs. `ConversationRun`; proofs. (done) `CommitLog` and
   `JsonlStorage`, the abstract specification of a storage and the refinement;
   proofs. (done)
7. Open: `Copies` (which of several loaded copies compacts) and
   `Readback` (the verified branch and the store's frontier against outside
   edits).

`PreviewSession` extends `FailureStore`; `Preparation` extends `Coverage` and
`CallJournal`; `JsonlStorage` instantiates `CommitLog`; each `MC*` module
extends its specification and holds constants only; each `*Proofs` module
extends the specification it is about. No module uses RECURSIVE.

## 3. How the modules correspond to the code

**`FailureStore`.** Each method of `PreviewFailureStore` is an operator that
returns the *set* of its results `[s, err]`, one for every way the file system
may answer, so that the controller's actions compose them exactly as the code
calls them, within one synchronous step. `marker` is the file a reader sees,
`synced` the file a power loss may bring back. Errors: reading the marker,
writing it before or after the rename, syncing its directory, reading the
session. Failure codes are told apart by what raises them, not by wording. A
hash is the sequence of (id, revision) of a branch: collision-free, and
different as soon as an entry was edited on disk.

**`PreviewSession`.** The handlers run without interruption between awaits, so
one action is the code from one await to the next. `phase` says where the
host's compaction stands: `writing` (in `writeMemory`), `returned` (Pi has the
candidate), `appended` (before `session_compact`), `failing` (before
`session_compact_failed`). `verified`, `superseded` and `served` are history
variables that only properties read. Host steps are included as far as the
extension sees them: an append that throws with or without its bytes in the
file, another extension that appends, replaces or cancels a compaction, tree
navigation, abort, restart. Deliberate abstractions:

- what a candidate covers is not in this module (see `Coverage`); the guards
  that depend on token counts are nondeterministic refusals;
- a request may run during any phase of a compaction, which is more than Pi
  permits;
- prompts are not bounced by the `input` handler, as for non-interactive input;
- a threshold compaction the extension declines changes nothing and is a
  stutter;
- invalid markers, invalid configuration, unflushed session files and path
  errors are not told apart from IO errors;
- Pi clears its own compaction state before `session_compact_failed`, so
  navigation and recovery may run in `failing`.

**`Coverage`.** Pure operators with the names of the source. A branch is a
sequence of entries; indices are those of the code plus one. Every message
weighs one token. `read` in a checkpoint is a history field: the originals some
writer has read for its note or for a note it rests on. The chain of conditions
in `classifyPreparation` is a chain of IF: as a CASE, whose guards overlap, it
would leave the choice open, which a proof attempt showed and TLC, taking the first
guard that holds, does not.

**`CallJournal`.** The file is a sequence of lines; `Fragment` is a last line
without its newline, `Joined` what an append behind a fragment makes. `Load` is
`load` with `session`'s catch, `Reserve` the entry that `beforeDispatch` leaves in
the map of calls.

**`Preparation`.** One session; the commit protocol is collapsed to confirmed,
appended but unconfirmed, or failed. `compact` up to the writer is one action
with its four paths: a complete candidate, a candidate for a prefix, merged
work notes for a prefix, or the writer. Whether a prefix is worth committing
(token counts) and whether notes merge is nondeterministic: the code falls
through to the next path. `prepare` may run between `session_before_tree` and
`session_tree`, since the agent settles independently of the navigation. The
fields `state` and `reason`, which only status reads, are left out. A crash and
the restart that follows are one action.

**`Writer`.** `writeMemory` for either role. A note is the facts it states and how
each is cited (`Cites`: with or without a verbatim quotation, without sources, from
an entry nobody can read), and whether it fits; text and the matching of quotations
are abstracted to that. A fact has a source of its own, so that merged prose, which
the size repair allows, still has every fact whose source it cites; facts that share
all their sources are not told apart. The code's paths to a returned note are actions of their
own: `AcceptAnswer` (an answer to generation, checked and measured),
`AcceptSpliced` (the facts a repair of sources or quotations was asked about,
spliced into the `candidate`, the whole validated again and measured) and
`AcceptShortened` (validated, measured, and compared with the candidate by
`assertRepairPreserved`). `RepairKind` decides, as `accept` does, which repair a
fault is given, and `MayAnswer` which facts a repair may withdraw. A note's gaps and
the wording of its facts are left out, and so is the resident build's writer.

**`SessionLease`.** One action per file-system call. The removal of the lock
directory and the rewriting of `owner.json` are two steps each, for another
process may look in between. So are a storage's check of the stamp
(`AssertAppend`), its write (`appendText`, `replace`) and the new stamp it then
expects (`Restamp`), for a program without the lease may write in between. Two
variables are history: `known`, the stamp of the content a process has in memory,
and `slipped`, that of content known but for outside writes between its own check
and re-stamp. A process identity (pid, start time, boot) is never reused. Only
locks of this host and boot are modelled.

**`ContextView`.** The one variable is the branch, a sequence of records: user
messages, final answers (`stop`), tool results with the file they read and a
size, work notes, checkpoints. `reduceRecords` is the code's function of a
branch and a cache lifetime: a result is shown as one line once it is consumed
or superseded, enough tokens followed it, it is no fact's only source, and the
cache would be cold anyway or the rewrite is cheap. `mergeWorkNotes` folds
`AddNote` over the notes since the last checkpoint. A fact has a section
(`instruction`, `plan`, or `fact` for the sections the merge treats alike), its
sources and what it supersedes. Call ids are unique; note text, schema bounds
and gaps are left out; a merge that fails validation takes the writer's path.
Cache lifetimes are quantified in the properties, for one model: a change of
model may bring results back, as the code means it.

**`TaskScheduler`.** `tasks` and `edges` (which task owns a conversation) are
the committed records, `inv` the invocations in the process, `sched` the
scheduler's own fields. An action is one commit on the Session line with what
`observe` does after it. Reconciliation passes are queued and run later; the
reserving loop remembers that it must go round again. `home` fixes where each
task will live, so that a handful of ownership trees can be enumerated. A
definition is a number, 0 for none; a newer one takes over between phases. `missed`
is a history field: a rejected pass left nobody to run it. Left out: the lazy
loading of owner edges (they are always loaded), memos, migrations of
checkpoints, and waiting for outcomes.

**`CommitLog`, `JsonlStorage`.** `CommitLog` says what `Storage` promises: a log
of batches, extended atomically; a batch whose commit failed may be in the log
or not, but is never half there; an open backend serves exactly the value of
the log; a power loss takes a suffix off. `JsonlStorage` has the files as
sequences of lines, `kept` what each file may be after a power loss (a flush
narrows it), and one action per file operation of `commit`, reclamation and
recovery. `CL` is the refinement: `log` is the main file's markers (`LogNow`),
`view` the memory image, closed while recovery tidies (`ViewNow`). A record is
confirmed by the marker of its number that says its sidecar was written: a
marker that retires a document or ends a task confirms none, so a record of a
commit that failed stays a tail when its number is used again. Assumptions: a flush also persists earlier
directory operations of that file; power is lost only in stores that were
opened with `fsync`; a crash may tear the line being written, a power loss takes
whole lines; the Session serializes commits and one batch writes an object once.

**`ConversationRun`.** One conversation. `entries` has user messages, answers,
results, summaries and resets with their heads; `gens`, `tools` and `comps` are
the tasks with their phases. Every action is a handler's phase up to its
commit. The scheduler is abstracted to what `TaskScheduler` shows of it: a task
runs when its owned work is gone, a mark leads to the abort handler. Crash and
reopening are one step: tasks stay, a tool with a stored intent may rerun.
Tokens are not counted: whether a threshold is met, and which candidate cut is
chosen, is a free choice. An answer's entry carries its calls, which have
distinct ids within one response (`ConversationAssumption`). Where the code
settles inbox items (`PlaceWrites`, `PlaceUsers`) the queued writes go first, then
the user messages, each in submission order. A tool counts as run from its intent on. Left out:
duplicate request ids and the `reject` policy, usage, progress, hooks, edits,
forks, a tool's own conversations, entries without effect on the model, and the
abort of a single tool or compaction; an orphaned outcome is a fault.

## 4. Runs

| Run | Module | Shows |
| --- | --- | --- |
| `commit_faults` | `PreviewSession` | with file operations failing, crashes anywhere, navigation, images, other extensions' entries and foreign compactions: `UnconfirmedStaysOnRecord`, `WriterRunsOnRecord`, `NoRequestOnUnconfirmed`, `ClaimsOutliveFailures`, `NoNativeCompactionOverClaim`, `FirstCauseIsKept`, `TypeOK` |
| `commit_settles` | `PreviewSession` | with the session file edited in place or unreadable at times, entries that slip in and compactions cancelled by others: `ConfirmedMeansReadBack`, and under fairness `CompactionSettles` |
| `coverage` | `Preparation` | `OriginalsSurvive` over two compactions on all paths, `NotesRestOnTheirBranch` under navigation, invalidation and custom entries |
| `journal_faults` | `Preparation` | `OnePaidAttemptPerInterval`, `CountedOrGap` with appends that throw anywhere, torn lines, unreadable journals; under fairness `PreparationEnds` with a provider that may keep silent |
| `writer_calls` | `Writer` | `CallsAreBounded`, `ReservationsSettle`, `WriterEnds`, and `ReturnedIsChecked` on each path a note may take |
| `lease_exclusion` | `SessionLease` | `MutualExclusion`, `LeaseIsKept`, and `AdmittedOnKnownContent` but for the window of section 5 |
| `context_view` | `ContextView` | `ReductionOnlyGrows`, `SoleEvidenceStays`, `FactsCorrectedNotLost` |
| `scheduler` | `TaskScheduler` | with aborts, waits, missing definitions, one crash, close or rejected commit: `FinishedMeansDrained`, `AbortsRunBottomUp`, `OrphanNeverHolds`, `NothingForgotten` |
| `jsonl` | `JsonlStorage` | with failing appends and flushes, crashes and power losses: `NeverRefused` and the refinement `ImplementsCommitLog` |
| `conversation` | `ConversationRun` | with steering, resets, withdrawals, aborts and all kinds of compaction: `SubmissionsAccounted`, `HeadsOnlyAdvance` |
| `conversation_tools` | `ConversationRun` | with tool rounds, retries, overflow, aborts, a crash or fault: `RunHasItsGeneration`, `CallsAnswered`, `PairsStayTogether`, `UnsafeRunsOnce`, and under fairness `InputsSettle` |
| `journal_torn` | `Preparation` | a sentence of the documentation that the code does not keep, section 5 |

Further configurations, to be run in the same way: `scheduler_ends` (under
fairness, `CancellationEnds` and `FailFastReleases` for a task with two
children; passes), `preparation_recorded` (`PreparationIsRecorded`: with journal
faults that are reported, every request of a preparation has its complete start
line on file; passes), `conversation_pairs` (`PairsStayTogether` with manual and
background compactions, which select their cut while a round is in flight, and
tools that append nothing; passes), and `guard_unclaimed`, `lease_uncertain` and
`lease_window`, which are violated, section 5.

**Bounds.** `commit_faults`: three entries are a turn, a checkpoint and what
slips in; two attempts are an attempt and its retry, which all the interesting
orders of marker, checkpoint and retry need; a third attempt meets the same
kinds of states as the second, and the theorems of section 6 hold for all
bounds. `coverage`: eight entries let a notes checkpoint be followed by turns
and a second checkpoint that must take over its carried messages; one event
during the one run of the preparation is what a late result needs.
`journal_*`: two runs, one compaction and two events give a restart between a
torn line and the append behind it, and another one after it. `writer_calls`:
three chunks, so that a repair in one chunk is followed by another chunk; a
rule of the user's and a next step are the facts the checks tell apart (of the
other sections the withdrawal rule says what it says of a next step); `WriterProofs` covers any number of each. `lease_exclusion`: a dead owner
and two processes that race for its lock, all of them able to die; three changes of
the file are a write, an outside write behind it and a further write; processes are
symmetric. `context_view`: seven records hold a read, the work that consumes it,
two notes that correct each other in either order, a correction of an entry that
supports two facts, and a checkpoint; the two sizes lie on either side of the
ratio. `scheduler`: an owner
with a child, with work in a conversation it owns, and with such work in the
background are the cases the ownership rules tell apart; one fault. `jsonl`:
three commits are a create, a rewrite and a retirement, two faults a crash in
recovery from another; one document of each kind and a task, written alone and
together. `conversation`: three submissions are the run's input, one to steer
and one write or reset; `conversation_tools`: two calls, one safe, in one round
with one retry and one compaction. In all modules but `PreviewSession` the
bounds stop the system, so deadlock is not checked there.

**Fairness.** `CompactionSettles`: the host awaits the hook and, in its
try/catch, always delivers `session_compact` or `session_compact_failed`
(`agent-session.ts`); a writer's call ends by an answer, an error or the abort;
a started process runs `session_start`. No step of the user, of other
extensions or of the file system is fair. `PreparationEnds`: the deadline's
timer fires, the promise chain settles, and a provider's stream ends once its
signal is aborted; before that it may hang for ever. `WriterEnds`: the provider
answers or its stream ends, and awaited promises settle. `InputsSettle`: the
scheduler's passes run and each live task that may run takes a step, which is
what `NothingForgotten` shows of the scheduler; a provider and a tool answer
sooner or later, for the harness sets them no deadline. It speaks of placed inputs:
a queued one may wait for a run that never comes. `CancellationEnds` and
`FailFastReleases`: microtasks and the Session's line run what is queued, a
session that went down is opened again, handlers settle. They need a definition
that is always there and no rejected commit: without a definition a task waits
for one, and a rejected pass waits for the next commit, as the code's comment
says.

## 5. Where documentation and code disagree

Four configurations are violated.

1. `guard_unclaimed` (`UnclaimedGuardWritesNothing`): after one unreadable moment
   the request guard of a session without a claim leaves a durable marker,
   because the latch itself (`failure-store.ts:439`) makes the session count as
   protected. `docs/context-memory/extension-preview-contract.md:94`: "A
   request-guard failure that is not a support classification (for example an
   unreadable configuration) aborts that request and reports it, but writes no
   marker".
2. `lease_uncertain` (`RecoveryMarkerIsPreserved`): a lock that requires recovery
   is retired by a process that had read its owner before (`lease.ts:118`).
   `docs/context-memory/architecture.md:83`: "failed rollback poisons storage and
   preserves a recovery marker."
3. `lease_window` (`OutsideWritesAreRejected`): a storage checks the stamp, writes,
   and then expects whatever stamp it finds (`storage.ts:131` and `150`, `171` and
   `184`). A program without the lease that writes in between is not noticed: its
   stamp is taken over unread, and the next write is admitted on content the
   process never loaded. `test/context-memory.test.ts:259`: "external content
   changes are rejected". `AdmittedOnKnownContent` says that nothing else gets by:
   any other outside write is refused, also after one was missed.
   (`architecture.md:85` calls the check "a cooperative consistency guard".)
4. `journal_torn` (`InterruptedStaysVisible`, quoted in `PROJECT.json`): a torn line is dropped on load but not from the file, so the
   next append completes it to garbage, and the start after that clears all
   calls. The gap shows (`CountedOrGap` holds), the calls do not.

Four more were met on the way and have no run of their own. A refused
`/compaction-recover` creates a marker when only the latch is set (the cause is
that of `guard_unclaimed`; `failure-store.ts` `reject`). "A run starts at most
once per checkpoint interval" (`preparation.ts`) is not so for a run that fails
before its first call; it costs nothing, for `OnePaidAttemptPerInterval` holds.
And `append` of the journal ignores the byte count of `writeSync`, so a short
write that reports no error lets a preparation send an unrecorded request; the
model's appends are complete or throw. In `durable`, a tool that itself appends
a user message in the middle of a round, while a manual or background
compaction selects its range, can part a call from its later result, which
`orderToolResults` then drops; `docs/spec.md` warns of such appends (section
12), so `PairsStayTogether` is checked with them against blocking compactions
only, and proved for those and, where no tool appends, for every compaction.

## 6. What is proved

All proofs are checked by TLAPS for every value of the constants under the
named assumptions of the modules: faults and environment steps are subsets of
their kinds, bounds are natural numbers (`MaxEntries` of `Preparation` at least 2: a session
begins with two entries), and `NoProc` is no process.

`PreviewSessionProofs`: `TypeOK`, `UnconfirmedStaysOnRecord`,
`NoRequestOnUnconfirmed`, `WriterRunsOnRecord`, and the action properties
`ClaimsOutliveFailures`, `NoNativeCompactionOverClaim`, `FirstCauseIsKept` and
`ConfirmedMeansReadBack`. The argument: each
method of the store either *preserves* the attempt that both copies of the
marker carry, or publishes a new one, or has read a checkpoint back (lemmas
`RecordFailure`, `Reject`, `Evaluate`, `Begin`, `Stage`, `Confirm`). The
invariants are not inductive alone: that an appended checkpoint is on record
needs `ReturnedIsStaged` (what Pi is about to append is staged, durably); that
a retry does not inherit a record needs `AttemptsAreFresh`; that native
compaction is excluded, although Pi's memory does not show a checkpoint whose
append failed after its bytes were written, needs `UnseenIsClaimed`; and
`MemoryIsStored` ties memory to the file. `Inv` is their conjunction, split
into what concerns the file, the types and the control, with one lemma per
action.

Two action properties need more, `CauseInv`. For `FirstCauseIsKept` the danger
is a write that is visible and not yet durable when the power fails: the older
marker comes back. `Causes` says that a durable failure which is not settled is
also the visible one, with its code, or has given way to another attempt that
has staged nothing, so what comes back is never the same attempt under another
code. It is kept because a blocked marker is written over only by a fresh
attempt or removed by a readback (`RecordFailureSteady`, `BeginSteady`,
`ConfirmSteady`). For `ConfirmedMeansReadBack` the readback compares the disk
with the source in the marker, while the checkpoint entry carries a source of
its own: `OneSource` says that whatever names an attempt, the three markers,
the compaction under way and every checkpoint of the session file, names one
source, and that attempt numbers are fresh. Both parts were first checked by
TLC on the constants of `commit_faults` and `commit_settles`.

`SessionLeaseProofs`: `TypeOK`, `MutualExclusion` and `LeaseIsKept`, for any
set of processes. The strengthening says that who made the directory finds it
there (`HoldersFindTheirLock`), that a readable live owner holds
(`OwnersHold`), and that the reaper's work is done by the one process that made
the reaper directory, on an owner that is dead (`ReaperIsAlone`); death is
final, which is why the second look at the owner suffices for exclusion.
The action property `AdmittedOnKnownContent` rests on `StampsTell`: no process
expects a stamp the file has not had yet; one that is open and expects the file's
stamp is up to date (`UpToDate`: it knows this content, or knows it but for what
slipped in); and one between its check and its re-stamp stays up to date through
both, for only its own write and outside writes fall there. That is where mutual
exclusion is needed (`AloneInWindow`): a write by another storage in the window
would outdate it unseen.

`WriterProofs`: `TypeOK`, `CallsAreBounded`, `ReservationsSettle` and
`ReturnedIsChecked`, for any number of chunks, any facts and any sections.
`CallsSoFar` counts the requests behind the accepted chunks plus the two that may
be extra; `Outstanding` says that exactly the places between the hooks have an open
reservation. That a returned note can be committed is proved path by path:
`AcceptAnswerStep` from the checks of an answer, `AcceptSplicedStep` from those of
the spliced note and from `SpliceKeeps` (a splice leaves what it did not ask about,
and withdraws only what a quotation repair may), `AcceptShortenedStep` from
`assertRepairPreserved`. It needs of the invariant that a repair under way has the
candidate it is about, and that generation has none (`RepairHasCandidate`).

`TaskSchedulerProofs`: `TypeOK`, `OrphanNeverHolds`, `NothingForgotten`,
`FinishedMeansDrained` and the action properties `RecordsMoveForward` and
`AbortsRunBottomUp`, for any number of tasks and any placement of them. The only
assumption besides finite bounds (`SchedulerAssumption`) is that a task's owner
is an older task, as ids are handed out in order. The inductive invariant is
`TypeOK`, `Shape`, `OrphanNeverHolds`, `Wakeups` and `ReservedWork`. `Shape`
says that owners, owner edges and waits name tasks that exist. `Wakeups` says
for each thing a reconciliation pass does which queued pass will do it, unless it
is done already, so that no order of passes and commits loses one; `ReservedWork`
that without a pending reservation every eligible task has its invocation.
What an owner holds is a walk up the chain of owners; facts about walks are
proved by induction along the older-owner order, and each action's lemma says
which walks it can change.

`ConversationRunProofs`: `ConversationInvariant` is the inductive invariant with
`HeadsOnlyAdvance`, and from it follow `TypeOK`, `SubmissionsAccounted`,
`RunHasItsGeneration`, `UnsafeRunsOnce` and `CallsAnswered`, for any number of
submissions, calls, rounds, retries and compactions. The assumptions are natural
bounds and distinct call ids within a response. The conjuncts of `Inv`:

- `Ledger`: the inbox is what is queued, in submission order; what is placed are
  exactly the run's inputs; every head points into the entries;
- `Busy`: while a run is active its live generation is the run's task, and live
  tools and blocking compactions are that generation's; without a run there are
  none;
- `Comps`: a live blocking compaction is the one its generation waits for, and no
  head has moved past its cut meanwhile. This is what makes `HeadsOnlyAdvance`
  inductive: without it an old summary might move the range back;
- `Once` and `Budget`: a tool's intent is stored before it runs, so an unsafe call
  counts no run before the intent and at most one after it; attempts stay in
  bounds;
- `Linked`: one generation per answer, one task per call of it, and who waits for
  whom;
- `Answered`: each call of every answer is not started, with its task, or
  answered, never answered before its task is over.

There is one lemma per action, a lemma for what a run's boundary does to the
inbox (`BoundarySpec`), and lemmas about `Only`, `PlaceWrites` and `PlaceUsers`
(what selecting and appending keep of order and membership). Where an argument
needs induction over the length of the inbox it is done with the least element
of a set of counterexamples, for the library's induction theorems take an
operator.

`PairsKept` is a theorem of its own, `Apart /\ Spec => []PairsStayTogether`. The
hypothesis `Apart` says of the constants that no tool appends messages, or that
no compaction is manual or in the background; of what section 5 says of such
appends it excludes exactly that. With both, TLC finds `PairsStayTogether`
violated. The inductive invariant `Pair` speaks of what is still to come as well:

- `Answers`: the assistant a result answers is the last one before the result;
- `Asking`: the assistant of an open round is the last one of the transcript, and
  no cut candidate follows it unless a tool appended it;
- `Whole`, of the range's start *and* of every place where the transcript may
  still be cut, that is, the heads that wait in the inbox and the cuts the
  compactions selected (`Marks`): a cut there parts no result from its
  assistant, and no open round starts before it, so that later results are not
  parted either;
- `Blocking`: where tools append, no compaction works while a round is open.

A bare `PairsStayTogether` is not inductive: a summary that was selected long ago
cuts at a place which the present range says nothing of. `CutWhole` says that
`selectCut` offers only places that are whole; each action's lemma says which
marks it adds, moves or drops, and that rounds are closed when a boundary resets
the head.

`ContextViewProofs`: `ReductionOnlyGrows`, `SoleEvidenceStays` and
`FactsCorrectedNotLost`, for any branch within the bounds of `ViewAssumption`.
The branch only grows, so what is said of the first place where something stands
is settled once it stands there; from this, that a result is eligible, cited or
older than the protected suffix is fixed when it is found, and a prefix once
reduced stays reduced. For the facts the inductive invariant is `Notes`: the last
checkpoint stands for the writer's note with every uncorrected fact of the notes
it covers, and each correction among these gave at least as many facts as stood on
the entry it corrects (`OneForOne`). The merge of work notes is a recursive
function, so its values are built by stages, and a stage loses a fact only to a
later correction of it. Notes are finite (`NotesAreFinite`), which counting needs.

`JsonlStorageProofs`: `TypeOK`, `NeverRefused` and the refinement
`ImplementsCommitLog`, for any documents and tasks, any batches and any number of
commits, crashes, failed operations and power losses. `JsonlAssumption` asks only
that the kinds of objects are disjoint, that there is an object, and that none is
called like the main file. The heart of the inductive invariant `StorageInv` is
`Files`. A power loss picks one content of each file, independently; so every
content of the main file that may survive must be a beginning of the current one,
and every content of a sidecar that may survive must *fit* (`Fits`) every one of
the main file: numbers rise (`Ordered`), a record with a number that a marker needs
is that marker's (`Genuine`), records nothing needs come last (`TailLast`), and a
needed record is missing only behind a base that is there, a retirement or a
terminal state (`Covered`). Neither the current contents alone nor files one by
one would be inductive: that reclamation waits until the markers are flushed
(`Settled`), and that the marker waits for the sidecars, is used exactly where a
new content must fit all the old ones. Around it: `Serves` (an open backend's
memory is the value of its markers, but for the one just written), `Jobs`, `Tails`
(sidecars of an open backend hold confirmed records and those of the commit in
progress) and `Plans` (what reclamation will leave fits). One lemma says that
recovery does not refuse files that fit (`NotCorrupt`), one that it reads off them
the value of the markers (`RecoveredValue`), one that what it cuts off and retains
fits again (`ConfirmedLines`, `RetainedLines`). The refinement then maps the marker's
append to `Admit`, `Apply` to `Publish`, the last truncation of recovery to
`Open`; every other step closes, loses power or stutters. `StorageInv` without the
variables' types was checked by TLC on the constants of `jsonl` before it was
proved.

`PreparationProofs`: `TypeOK`, `OnePaidAttemptPerInterval`, `CountedOrGap`,
`OriginalsSurvive` and `NotesRestOnTheirBranch`, for any faults, any cut and any
number of entries, compactions, preparations and writer calls. Two inductive
invariants, for two questions:

- `PreparationInv` is about the requests. What the file says is taken from its
  complete lines only (`Lines(file)`), so a torn append changes nothing until the
  next append joins it. A call that was paid for is found by every later load, or
  the load finds a joined line and refuses (`PaidOnRecord`); a running process
  that still knows its calls knows that one (`RunningPays`); what is reserved and
  what is sent is told apart by the settlement's `dispatched`, so a settled call
  that was never sent is not held against the interval (`ReservedIsOpen`,
  `SentCounts`). One lemma says what an append leaves of the complete lines, one
  what a load knows of a file.
- `RecordedUnlessTorn` says which faults break the documented promise that no
  unrecorded request is sent: without torn and partial appends it holds, with
  appends that throw at any point and journals that cannot be read. `journal_torn`
  shows that the hypothesis is needed.
- `CoverageInv` is about the branches. `GoodBranch` says of *every* checkpoint of a
  branch that it tells each message up to what it covers, keeps the others in
  context, and rests on entries before it. It holds of every prefix of a good
  branch, so navigation, which takes prefixes, keeps it; a candidate's snapshot is
  good too, and a checkpoint under way accounts for its source, which still begins
  the branch (`Proposes`, `Begins`). The lemmas on the four paths of `compact` say
  that each of them proposes such a checkpoint.
- `Typed` is not by itself inductive: that a proposed checkpoint is an entry of ids
  the session has given rests on what `CoverageInv` says it accounts for and on
  `Cut` being a place of the branch or the one behind it (`CutIs`), that call
  records have numbers up to the last one given on `PreparationInv`.

Both invariants were checked by TLC on the constants of their runs before they
were proved.

## 7. What is only model-checked

Liveness (`CompactionSettles`, `PreparationEnds`, `WriterEnds`, `InputsSettle`,
`CancellationEnds`, `FailFastReleases`) is beyond the installed provers.

Modules with recursive definitions use recursive functions, and what those
compute is proved only where an argument needs it (the walk along owners, the
placing of inbox items, the merge of work notes), from their defining equations.


## 8. What is not modelled

- Text: prompts, rendering, quotation search, token estimates, notices. They
  decide which nondeterministic branch is taken, never what state follows.
- The readback cache: an edit that keeps the file's identity and length goes
  unseen between two trust boundaries, as the code says; the model looks at the
  boundaries (planned: `Readback`).
- The history view (read-only paging) and duplicate copies of the extension.
- Several sessions in one process, and the journal's eviction at 32 of them.
- In the lease: a storage that moves from one file to another, power loss with
  unsynced directories, locks of another boot or host.
- The resident build's controller, writer, events and grants: frozen and
  superseded by the preview.
- In `durable`: documents and their deltas, forks, SQLite, views, prompts,
  events, usage, and what section 3 lists for each module.
- The other packages of the Pi monorepo (terminal interface, providers, servers,
  protocol and clients, some nine tenths of the repository's lines) and the
  evaluation harness: they surround the session logic modelled here, mostly as
  input, output and rendering, and share no state with it beyond the calls the
  models take as their environment. The two history adapters only read.
