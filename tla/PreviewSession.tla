--------------------------- MODULE PreviewSession ---------------------------
(***************************************************************************)
(* The commit protocol of the Pi extension: PreviewMemoryController        *)
(* (preview/controller.ts) and its event handlers (preview/extension.ts)   *)
(* over the failure store, one session, and the Pi host that drives them.  *)
(*                                                                         *)
(* The handlers are synchronous between awaits, so each action is the code *)
(* from one await to the next.  Between two of them the host, the user,    *)
(* other extensions, an editor on the session file and a crash interleave. *)
(***************************************************************************)
EXTENDS FailureStore, FiniteSets

CONSTANTS
  Env,           \* what the user and other extensions do besides prompting
  MaxEntries,    \* bound: entries of the session file
  MaxAttempts,   \* bound: compaction attempts
  MaxEdits       \* bound: in-place edits of the session file by others

EnvKinds == {"image", "custom", "foreign", "navigate"}

ASSUME EnvAssumption == Env \subseteq EnvKinds

ASSUME BoundsAssumption ==
  MaxEntries \in Nat \ {0} /\ MaxAttempts \in Nat /\ MaxEdits \in Nat

VARIABLES
  store,      \* FailureStore state: the marker file and the store's own maps
  stored,     \* the branches of the session file's entries, as last loaded
  edited,     \* ids of entries changed in the file since it was loaded
  known,      \* the branches of the entries in Pi's memory
  leaf,       \* the branch Pi has selected
  up,         \* a Pi process has the session open
  sticky,     \* stickyFailures
  observed,   \* observedFailures
  active,     \* activeCompactions
  staged,     \* stagedCompactions
  phase,      \* where the host's compaction stands
  attempt,    \* local to compact(): the attempt begun, 0 when none
  source,     \* local to compact(): attempt.sourceHash
  saved,      \* the compaction entry of the coming session_compact event
  aborted,    \* the compaction's abort signal
  inflight,   \* a provider request of the session is under way
  attempts, edits,                      \* counters for the bounds
  verified, superseded, served          \* history, read by properties only

processVars == <<sticky, observed, active, staged>>
hostVars    == <<phase, attempt, source, saved, aborted>>
fileVars    == <<stored, edited, edits>>
history     == <<verified, superseded, served>>
vars == <<store, fileVars, known, leaf, up, processVars, hostVars, inflight, attempts, history>>

-----------------------------------------------------------------------------
(* Session entries and branches *)

Kinds == {"user", "image", "done", "custom", "memory", "foreign"}

(***************************************************************************)
(* An entry: kind "done" is a completed assistant reply, "image" user      *)
(* input the preview cannot check, "memory" this package's checkpoint      *)
(* (written by attempt att, src its sourceHash), "foreign" any other       *)
(* compaction.  rev is 1 once the entry was edited on disk and reloaded.   *)
(***************************************************************************)
Entry(id, kind, a, src) == [id |-> id, kind |-> kind, rev |-> 0, att |-> a, src |-> src]

Message(id, kind) == Entry(id, kind, 0, <<>>)

IsMessage(token) == token.kind \in {"user", "image", "done"}

IsCompaction(token) == token.kind \in {"memory", "foreign"}

\* What the session file holds for a branch.
OnDisk(branch) ==
  [i \in DOMAIN branch |-> IF branch[i].id \in edited THEN [branch[i] EXCEPT !.rev = 1] ELSE branch[i]]

Same(branch) == OnDisk(branch) = branch

NextId == 1 + Cardinality(stored)

HasRoom == Cardinality(stored) < MaxEntries

\* The entry of branch b is the last one of the file.
LastStored(b) == b \in stored /\ \A c \in stored : c[Len(c)].id <= b[Len(b)].id

\* appendXxx of the session manager: to the file first, then to memory.
Append_(token) ==
  LET b == Append(leaf, token) IN
  /\ HasRoom
  /\ stored' = stored \cup {b}
  /\ known' = known \cup {b}
  /\ leaf' = b
  /\ UNCHANGED <<edited, edits>>

-----------------------------------------------------------------------------
(* What the controller reads in a session *)

Holds(branch, kind) == \E i \in DOMAIN branch : branch[i].kind = kind

\* unsupportedReason: content or a checkpoint this preview cannot check.
unsupportedReason(branch) == Holds(branch, "image") \/ Holds(branch, "foreign")

\* validateMemoryCheckpoints: what each checkpoint covers is still there.
CheckpointsValid(branch) ==
  \A i \in DOMAIN branch : branch[i].kind = "memory" =>
    /\ Len(branch[i].src) < i
    /\ hashEntries(SubSeq(branch, 1, Len(branch[i].src))) = branch[i].src

\* assertPreviewSession: the code it throws, or Ok.
SessionError(branch) ==
  IF unsupportedReason(branch) THEN "UNSUPPORTED"
  ELSE IF ~CheckpointsValid(branch) THEN "SOURCE_CHANGED" ELSE Ok

\* latestMemory: the entry is the last checkpoint of this package on the branch.
IsLatestMemory(token, branch) ==
  \E i \in DOMAIN branch : branch[i] = token /\ \A j \in i + 1..Len(branch) : branch[j].kind # "memory"

\* The attempts whose checkpoints a request on the branch carries.
AttemptsOn(branch) == {branch[i].att : i \in {j \in DOMAIN branch : branch[j].kind = "memory"}}

\* The last message of the projection decides the turn boundary.
EndsWith(branch, kinds) ==
  \E i \in DOMAIN branch :
    branch[i].kind \in kinds /\ \A j \in i + 1..Len(branch) : ~IsMessage(branch[j])

completed(branch)  == EndsWith(branch, {"done"})
terminated(branch) == EndsWith(branch, {"user", "image"})

\* Pi's prepareCompaction: there are messages since the last compaction.
prepareCompaction(branch) ==
  \E i \in DOMAIN branch :
    IsMessage(branch[i]) /\ \A j \in i..Len(branch) : ~IsCompaction(branch[j])

-----------------------------------------------------------------------------
(* The controller's own operators.  A result c carries the store and the   *)
(* controller's maps after the call.                                       *)

Control(s, stick, obs, err) == [s |-> s, sticky |-> stick, observed |-> obs, err |-> err]

\* fail(): sticky in the process whatever the store achieves.
Fail(s, code) ==
  { Control(r.s, IF r.err = Ok THEN code ELSE r.err, code, code) : r \in fail(s, code) }

\* Mutant: the marker alone does not protect a session.
protectedByMemory(s, stick, act) ==
  \/ stick # NoCode
  \/ act
  \/ \E b \in known : Holds(b, "memory")

protected(s, stick, act) ==
  \/ stick # NoCode
  \/ act
  \/ \E b \in known : Holds(b, "memory")
  \/ markerPresent(s)

inactive == unsupportedReason(leaf) /\ ~protected(store, sticky, active)

\* The checks of the request guards that follow assertReady: payload and
\* context size, tool pairs and the presence of the checkpoint.
RequestErrors == {Ok, "REFUSED"}

\* Mutant: only the failures this process has seen stop a request.
assertReadyInProcess(branch) ==
  IF SessionError(branch) # Ok THEN {Result(store, SessionError(branch))}
  ELSE {Result(store, IF sticky # NoCode THEN sticky ELSE Ok)}

assertReady(branch) ==
  IF SessionError(branch) # Ok THEN {Result(store, SessionError(branch))}
  ELSE IF sticky # NoCode THEN {Result(store, sticky)}
  ELSE evaluate(store, TRUE, TRUE, Same(branch), SessionReads)

\* guard(): a failure of a protected session is recorded, of any other not.
Guarded(r, act) ==
  IF r.err = Ok THEN {Control(r.s, sticky, observed, Ok)}
  ELSE IF protected(r.s, sticky, act) THEN Fail(r.s, r.err)
  ELSE {Control(r.s, sticky, observed, r.err)}

guard(branch, act, errors) ==
  UNION { Guarded(IF r.err = Ok THEN Result(r.s, e) ELSE r, act)
          : r \in assertReady(branch), e \in errors }

\* Take over what a call left in the store and in the controller's maps.
Becomes(c) == store' = c.s /\ sticky' = c.sticky /\ observed' = c.observed

-----------------------------------------------------------------------------
(* The host and the user *)

HostUnchanged == UNCHANGED <<hostVars, attempts, history>>

\* A prompt is on disk before any guard sees it.
Prompt ==
  \E kind \in {"user"} \cup (Env \cap {"image"}) :
    /\ up /\ phase # "starting" /\ ~inflight
    /\ Append_(Message(NextId, kind))
    /\ UNCHANGED <<store, up, processVars, inflight>> /\ HostUnchanged

\* Another extension, or a tool, appends an entry that is no message.
AppendCustom ==
  /\ "custom" \in Env /\ up /\ phase # "starting"
  /\ Append_(Message(NextId, "custom"))
  /\ UNCHANGED <<store, up, processVars, inflight>> /\ HostUnchanged

\* ctx.abort() reaches the signal of a compaction that is under way.
AbortCompaction == aborted' = (aborted \/ phase \in {"writing", "returned"})

(***************************************************************************)
(* A provider request for the unanswered input: context(), then            *)
(* beforeRequest().  An inactive preview lets it through unchecked.        *)
(***************************************************************************)
Request ==
  /\ up /\ phase # "starting" /\ ~inflight /\ terminated(leaf)
  /\ \/ /\ inactive
        /\ inflight' = TRUE
        /\ served' = served \cup AttemptsOn(leaf)
        /\ UNCHANGED <<store, processVars, aborted>>
     \/ /\ ~inactive
        /\ \E c \in guard(leaf, active, RequestErrors) :
             /\ Becomes(c)
             /\ inflight' = (c.err = Ok)
             /\ IF c.err = Ok THEN /\ served' = served \cup AttemptsOn(leaf)
                                  /\ UNCHANGED aborted
                ELSE AbortCompaction /\ UNCHANGED served
        /\ UNCHANGED <<active, staged>>
  /\ UNCHANGED <<fileVars, known, leaf, up, phase, attempt, source, saved, attempts, verified, superseded>>

\* The reply arrives, or the request ends without a completed one.
Respond ==
  /\ up /\ inflight
  /\ inflight' = FALSE
  /\ \/ Append_(Message(NextId, "done"))
     \/ UNCHANGED <<fileVars, known, leaf>>
  /\ UNCHANGED <<store, up, processVars>> /\ HostUnchanged

\* Tree navigation selects another entry; branchChanged() forgets caches.
Navigate ==
  /\ "navigate" \in Env /\ up /\ phase \in {"idle", "failing"} /\ ~inflight
  /\ \E b \in known \ {leaf} : leaf' = b
  /\ store' = [store EXCEPT !.frontier = FALSE]
  /\ UNCHANGED <<fileVars, known, up, processVars, inflight>> /\ HostUnchanged

(***************************************************************************)
(* Pi's own compaction, in a session the preview stands aside from.  Its   *)
(* session_compact event finds no attempt and no protection.               *)
(***************************************************************************)
NativeCompaction ==
  /\ up /\ phase = "idle" /\ ~inflight /\ inactive /\ prepareCompaction(leaf)
  /\ Append_(Message(NextId, "foreign"))
  /\ store' = [store EXCEPT !.frontier = FALSE]
  /\ UNCHANGED <<up, processVars, inflight>> /\ HostUnchanged

-----------------------------------------------------------------------------
(* Compaction *)

\* thresholdReady(): otherwise the hook cancels and records nothing.
thresholdReady ==
  /\ sticky = NoCode
  /\ completed(leaf)
  /\ \E r \in evaluate(store, FALSE, FALSE, Same(leaf), SessionReads) : r.err = Ok

(***************************************************************************)
(* compact(), up to the writer: results of its checks and of store.begin.  *)
(* queued: input waits in the host's queue.                                *)
(***************************************************************************)
Begun(reason, queued) ==
  LET s0     == [store EXCEPT !.frontier = FALSE]
      status == IF sticky # NoCode THEN {Result(s0, sticky)}
                ELSE evaluate(s0, TRUE, FALSE, Same(leaf), SessionReads)
      allowed(st) == (completed(leaf) \/ (st.err # Ok /\ terminated(leaf))) /\ ~queued
  IN  IF SessionError(leaf) # Ok THEN {Result(s0, SessionError(leaf))}
      ELSE IF reason = "overflow" THEN {Result(s0, "REFUSED")}
      ELSE UNION { IF allowed(st)
                     THEN begin(st.s, reason = "manual", attempts + 1, leaf, Same(leaf),
                                IF st.err = Ok THEN {Ok} ELSE SessionReads)
                     ELSE {Result(st.s, "REFUSED")} : st \in status }

\* The locals of compact() end with it.
EndOfCompact == attempt' = 0 /\ source' = <<>>

\* The attempts whose marker this step replaced by another attempt's.
Replaced == {store.marker.att, store.synced.att} \ {0, store'.marker.att}

BeginCompaction(reason) ==
  /\ up /\ phase = "idle" /\ ~inflight /\ prepareCompaction(leaf) /\ ~inactive
  /\ reason = "threshold" => thresholdReady
  /\ attempts < MaxAttempts
  /\ attempts' = attempts + 1
  /\ active' = TRUE /\ staged' = FALSE
  /\ \E queued \in BOOLEAN : \E r \in Begun(reason, queued) :
       IF r.err = Ok
         THEN /\ store' = r.s /\ observed' = NoCode /\ phase' = "writing"
              /\ attempt' = attempts + 1 /\ source' = hashEntries(leaf) /\ aborted' = FALSE
              /\ UNCHANGED sticky
         ELSE /\ \E c \in Fail(r.s, r.err) : Becomes(c)
              /\ phase' = "failing" /\ aborted' = TRUE     \* { cancel: true }
              /\ EndOfCompact
  /\ superseded' = superseded \cup Replaced
  /\ UNCHANGED <<fileVars, known, leaf, up, saved, inflight, verified, served>>

\* The user cancels the compaction.
UserAbort ==
  /\ up /\ phase \in {"writing", "returned"} /\ ~aborted
  /\ aborted' = TRUE
  /\ UNCHANGED <<store, fileVars, known, leaf, up, processVars, phase, attempt, source, saved,
                 inflight, attempts, history>>

(***************************************************************************)
(* compact(), from the writer's answer to its return.                      *)
(***************************************************************************)
\* Mutant: the writer's call ignores the abort signal and never returns.
WriterIgnoresAbort == IF aborted THEN {} ELSE {Ok, "REFUSED"}

WriterOutcomes == IF aborted THEN {"CANCELLED", "REFUSED"} ELSE {Ok, "REFUSED"}

Staged(outcome) ==
  IF outcome # Ok THEN {Result(store, outcome)}
  ELSE IF hashEntries(leaf) # source THEN {Result(store, "SOURCE_CHANGED")}
  ELSE stage(store, attempt, source, leaf, Same(leaf))

WriterReturns ==
  /\ up /\ phase = "writing"
  /\ \E outcome \in WriterOutcomes : \E r \in Staged(outcome) :
       IF r.err = Ok
         THEN /\ store' = r.s /\ staged' = TRUE /\ phase' = "returned"
              /\ UNCHANGED <<sticky, observed, aborted, attempt, source>>
         ELSE /\ \E c \in Fail(r.s, r.err) : Becomes(c)
              /\ phase' = "failing" /\ aborted' = TRUE
              /\ EndOfCompact /\ UNCHANGED staged
  /\ UNCHANGED <<fileVars, known, leaf, up, active, saved, inflight, attempts, history>>

(***************************************************************************)
(* The host after the hooks: another extension may cancel or replace the   *)
(* result, the signal may be aborted, and appendCompaction may fail, with  *)
(* or without the entry's bytes left in the file.                          *)
(***************************************************************************)
CheckpointEntry == Entry(NextId, "memory", attempt, source)

HostAppends ==
  /\ up /\ phase = "returned" /\ ~aborted
  /\ \E token \in {CheckpointEntry} \cup {Message(NextId, kind) : kind \in Env \cap {"foreign"}} :
       Append_(token)
  /\ phase' = "appended" /\ saved' = leaf' /\ EndOfCompact
  /\ UNCHANGED <<store, up, processVars, aborted, inflight, attempts, history>>

HostAppendFails ==
  /\ up /\ phase = "returned" /\ ~aborted
  /\ \/ UNCHANGED stored
     \/ HasRoom /\ stored' = stored \cup {Append(leaf, CheckpointEntry)}
  /\ phase' = "failing" /\ EndOfCompact
  /\ UNCHANGED <<store, edited, edits, known, leaf, up, processVars, saved, aborted,
                 inflight, attempts, history>>

HostCancels ==
  /\ up /\ phase = "returned"
  /\ phase' = "failing" /\ aborted' = TRUE /\ EndOfCompact
  /\ UNCHANGED <<store, fileVars, known, leaf, up, processVars, saved, inflight, attempts, history>>

(***************************************************************************)
(* session_compact: committed().                                           *)
(***************************************************************************)
CommitError ==
  IF SessionError(leaf) # Ok THEN SessionError(leaf)
  ELSE IF ~IsLatestMemory(Checkpoint(saved), leaf) THEN "COMMIT_UNCONFIRMED" ELSE Ok

\* What commit() and recover() leave: on success every failure is cleared.
Settle(r) ==
  /\ verified' = verified \cup ({r.ver} \ {0})
  /\ IF r.err = Ok THEN store' = r.s /\ sticky' = NoCode /\ observed' = NoCode
     ELSE \E c \in Fail(r.s, r.err) : Becomes(c)

\* The host's compaction is over: its signal and its entry go with it.
EndOfEvent == phase' = "idle" /\ saved' = <<>> /\ aborted' = FALSE

Committed ==
  /\ up /\ phase = "appended"
  /\ active' = FALSE /\ staged' = FALSE /\ EndOfEvent
  /\ IF CommitError # Ok
       THEN (\E c \in Fail(store, CommitError) : Becomes(c)) /\ UNCHANGED verified
       ELSE \E r \in confirm(store, FALSE, saved, leaf, OnDisk(saved)) : Settle(r)
  /\ UNCHANGED <<fileVars, known, leaf, up, attempt, source, inflight, attempts, superseded, served>>

(***************************************************************************)
(* session_compact_failed: compactionFailed().                             *)
(***************************************************************************)
\* Mutant: no default for a failure that was not observed.
FailureCodeUnset == observed

FailureCode ==
  IF observed # NoCode THEN observed
  ELSE IF aborted THEN "CANCELLED"
  ELSE IF staged THEN "COMMIT_UNCONFIRMED" ELSE "REFUSED"

\* Mutant: a failed compaction cleans its marker up.
CompactionFailedReleases ==
  /\ up /\ phase = "failing"
  /\ active' = FALSE /\ staged' = FALSE /\ EndOfEvent
  /\ \E r \in removeMarker(store) : store' = r.s
  /\ sticky' = NoCode /\ observed' = NoCode
  /\ UNCHANGED <<fileVars, known, leaf, up, attempt, source, inflight, attempts, history>>

CompactionFailed ==
  /\ up /\ phase = "failing"
  /\ active' = FALSE /\ staged' = FALSE /\ EndOfEvent
  /\ \E c \in Fail(store, FailureCode) : Becomes(c)
  /\ UNCHANGED <<fileVars, known, leaf, up, attempt, source, inflight, attempts, history>>

(***************************************************************************)
(* /compaction-recover: recover(), once the host is idle.                  *)
(***************************************************************************)
RecoverAllowed ==
  /\ SessionError(leaf) = Ok
  /\ Checkpoint(leaf).kind = "memory"
  /\ markerPresent(store)

Recover ==
  /\ up /\ phase \in {"idle", "failing"} /\ ~inflight /\ ~inactive
  /\ \/ /\ ~RecoverAllowed
        /\ store' = [store EXCEPT !.frontier = FALSE]
        /\ UNCHANGED <<sticky, observed, staged, verified>>
     \/ /\ RecoverAllowed
        /\ \E r \in confirm(store, TRUE, leaf, leaf, OnDisk(leaf)) :
             /\ verified' = verified \cup ({r.ver} \ {0})
             /\ store' = r.s
             /\ IF r.err = Ok THEN sticky' = NoCode /\ observed' = NoCode /\ staged' = FALSE
                ELSE UNCHANGED <<sticky, observed, staged>>
  /\ UNCHANGED <<fileVars, known, leaf, up, active, hostVars, inflight, attempts, superseded, served>>

-----------------------------------------------------------------------------
(* Opening, losing and editing the session *)

\* The process dies: its maps are gone, an unsynced marker change may be too.
Crash ==
  /\ up
  /\ \E m \in {store.marker, store.synced} : store' = FreshStore(m)
  /\ up' = FALSE /\ inflight' = FALSE /\ EndOfCompact /\ EndOfEvent
  /\ sticky' = NoCode /\ observed' = NoCode /\ active' = FALSE /\ staged' = FALSE
  /\ UNCHANGED <<fileVars, known, leaf, attempts, history>>

\* Pi loads the session file; its leaf is the last entry of the file.
Open ==
  /\ ~up
  /\ up' = TRUE /\ phase' = "starting"
  /\ stored' = {OnDisk(b) : b \in stored}
  /\ known' = stored'
  /\ \E b \in stored : LastStored(b) /\ leaf' = OnDisk(b)
  /\ edited' = {}
  /\ UNCHANGED <<store, edits, processVars, attempt, source, saved, aborted, inflight, attempts, history>>

SessionStart ==
  /\ up /\ phase = "starting"
  /\ phase' = "idle"
  /\ \/ inactive /\ UNCHANGED <<store, sticky, observed>>
     \/ ~inactive /\ \E c \in guard(leaf, active, {Ok}) : Becomes(c)
  /\ UNCHANGED <<fileVars, known, leaf, up, active, staged, attempt, source, saved, aborted,
                 inflight, attempts, history>>

\* Something else rewrites an entry of the file, in place or not: an edit
\* that keeps the file's length is not seen by the frontier.
Edit ==
  /\ edits < MaxEdits /\ edits' = edits + 1
  /\ \E b \in stored : \E i \in DOMAIN b : edited' = edited \cup {b[i].id}
  /\ \E sameLength \in BOOLEAN : store' = [store EXCEPT !.frontier = @ /\ sameLength]
  /\ UNCHANGED <<stored, known, leaf, up, processVars, inflight>> /\ HostUnchanged

-----------------------------------------------------------------------------

\* A persistent session with one completed turn, opened by the extension.
FirstTurn == <<Message(1, "done")>>

Init ==
  /\ store = FreshStore(NoMarker)
  /\ stored = {FirstTurn} /\ known = {FirstTurn} /\ leaf = FirstTurn
  /\ edited = {} /\ edits = 0
  /\ up = TRUE /\ phase = "starting" /\ inflight = FALSE
  /\ sticky = NoCode /\ observed = NoCode /\ active = FALSE /\ staged = FALSE
  /\ attempt = 0 /\ source = <<>> /\ saved = <<>> /\ aborted = FALSE /\ attempts = 0
  /\ verified = {} /\ superseded = {} /\ served = {}

Next ==
  \/ Prompt \/ AppendCustom \/ Request \/ Respond \/ Navigate \/ NativeCompaction
  \/ \E reason \in {"manual", "threshold", "overflow"} : BeginCompaction(reason)
  \/ UserAbort \/ WriterReturns \/ HostAppends \/ HostAppendFails \/ HostCancels
  \/ Committed \/ CompactionFailed \/ Recover
  \/ Crash \/ Open \/ SessionStart \/ Edit

-----------------------------------------------------------------------------
(* Properties *)

Tokens == [id : Nat, kind : Kinds, rev : {0, 1}, att : Nat, src : Hash]

Markers == {NoMarker} \cup
  [state : {"pending", "blocked"}, code : Codes, att : Nat, src : Hash, staged : BOOLEAN]

Stores == [marker : Markers, synced : Markers, latched : Codes \cup {NoCode},
           recovery : Markers, frontier : BOOLEAN]

\* Every variable keeps its type.
TypeOK ==
  /\ store \in Stores
  /\ stored \subseteq Seq(Tokens) /\ known \subseteq Seq(Tokens) /\ leaf \in Seq(Tokens)
  /\ saved \in Seq(Tokens) /\ source \in Hash
  /\ edited \subseteq Nat /\ edits \in Nat /\ attempts \in Nat /\ attempt \in Nat
  /\ up \in BOOLEAN /\ active \in BOOLEAN /\ staged \in BOOLEAN
  /\ aborted \in BOOLEAN /\ inflight \in BOOLEAN
  /\ sticky \in Codes \cup {NoCode} /\ observed \in Codes \cup {NoCode}
  /\ phase \in {"starting", "idle", "writing", "returned", "appended", "failing"}
  /\ verified \subseteq Nat /\ superseded \subseteq Nat /\ served \subseteq Nat

\* The attempts that need no record any more: their checkpoint was read
\* back from disk, or the user replaced them by an explicit /compact.
Settled == verified \cup superseded

\* The marker names attempt a and its staged candidate, also after a power loss.
OnRecord(a) ==
  \A m \in {store.marker, store.synced} : m.att = a /\ m.staged

\* A checkpoint of this package that reached the session file and was never
\* confirmed stays on record in the marker file, with the identity recover()
\* needs, whatever failures, guards, retries of writes or crashes follow
\* (failure-store.ts recordFailure, reject; controller.ts fail).
UnconfirmedStaysOnRecord ==
  \A b \in stored : \A i \in DOMAIN b :
    b[i].kind = "memory" /\ b[i].att \notin Settled => OnRecord(b[i].att)

\* No provider request is ever built on a checkpoint whose commit was not
\* confirmed against the disk, unless the user gave the attempt up by an
\* explicit /compact (controller.ts assertReady, context, beforeRequest).
NoRequestOnUnconfirmed == served \subseteq Settled

\* While the writer runs, and until Pi has the candidate, this very attempt
\* is the one on record, durably: a crash at any point leaves it blocked
\* (failure-store.ts begin: pending is persisted before the writer starts).
WriterRunsOnRecord ==
  phase \in {"writing", "returned"} =>
    \A m \in {store.marker, store.synced} : m.att = attempt

(***************************************************************************)
(* The inductive strengthening: a returned candidate is on record as       *)
(* staged, attempt numbers are fresh, memory holds only what the file      *)
(* holds, and a checkpoint that only the file holds is still claimed.      *)
(***************************************************************************)
ReturnedIsStaged == phase = "returned" => OnRecord(attempt)

AttemptsAreFresh ==
  /\ attempt <= attempts
  /\ phase \in {"writing", "returned"} => attempt # 0
  /\ \A b \in stored : \A i \in DOMAIN b :
       b[i].att <= attempts /\ (b[i].kind = "memory" => b[i].att # 0)

MemoryIsStored ==
  IsFiniteSet(stored) /\ <<>> \notin stored /\ known \subseteq stored /\ leaf \in known

UnseenIsClaimed ==
  (\E b \in stored : Holds(b, "memory")) =>
    \/ \E b \in known : Holds(b, "memory")
    \/ store.marker # NoMarker /\ store.synced # NoMarker

Inv ==
  /\ TypeOK /\ MemoryIsStored /\ AttemptsAreFresh
  /\ WriterRunsOnRecord /\ ReturnedIsStaged
  /\ UnconfirmedStaysOnRecord /\ UnseenIsClaimed /\ NoRequestOnUnconfirmed

\* Pi never compacts natively a session whose files hold a claim or a
\* checkpoint of this package, also when Pi's memory does not show it: after
\* an append that failed with its bytes on disk, a crash, or a navigation
\* (controller.ts protected, inactive).
ClaimOnDisk ==
  \/ store.marker # NoMarker
  \/ \E b \in stored : Holds(b, "memory")

NoNativeCompactionOverClaim == [][NativeCompaction => ~ClaimOnDisk]_vars

\* A durable claim goes away only in the step that read the very checkpoint
\* its attempt staged back from disk; an unstaged failure never goes away
\* (failure-store.ts confirm: "Only then may B remove the marker").
ClaimsOutliveFailures ==
  [][store.marker # NoMarker /\ store.synced # NoMarker =>
       \/ store'.marker # NoMarker
       \/ store.marker.staged /\ store.marker.att \in verified']_vars

\* Confirming a checkpoint means: it is the leaf, the file holds it and its
\* sources as memory does, and it sits directly on the branch its attempt
\* was begun on; an entry that slipped in between is refused.
ConfirmedMeansReadBack ==
  [][\A a \in verified' \ verified :
       /\ leaf \in stored /\ Same(leaf)
       /\ Checkpoint(leaf).kind = "memory" /\ Checkpoint(leaf).att = a /\ Checkpoint(leaf).rev = 0
       /\ Checkpoint(leaf).src = hashEntries(Sources(leaf))]_vars

\* A recorded failure keeps its first cause: later cancellations, guards and
\* failures of the same attempt do not replace the code, except after a
\* readback that succeeded (failure-store.ts recordFailure).
FirstCauseIsKept ==
  [][/\ store.marker.state = "blocked" /\ store'.marker.state = "blocked"
     /\ store.marker.att = store'.marker.att /\ store.marker.att \notin verified'
     => store.marker.code = store'.marker.code]_vars

\* extension-preview-contract.md: a request-guard failure of a session without
\* a claim "writes no marker; it is checked again on the next request".
UnclaimedGuardWritesNothing ==
  [][Request /\ ~protected(store, sticky, active) => store'.marker = NoMarker]_vars

-----------------------------------------------------------------------------
(***************************************************************************)
(* The host awaits every hook and always delivers session_compact or       *)
(* session_compact_failed; the writer's call ends by an answer, an error   *)
(* or an abort.                                                            *)
(***************************************************************************)
Fairness ==
  /\ WF_vars(WriterReturns)
  /\ WF_vars(HostAppends \/ HostAppendFails \/ HostCancels)
  /\ WF_vars(Committed)
  /\ WF_vars(CompactionFailed)
  /\ WF_vars(SessionStart)

Spec == Init /\ [][Next]_vars

FairSpec == Spec /\ Fairness

\* Every compaction the hook started ends, in a commit or a failure that the
\* host delivers, and its attempt with it: once idle, no marker is pending, it
\* is gone or it blocks the session (agent-session.ts compact, controller.ts
\* committed, compactionFailed).  A pending marker found by a restart ends
\* the same way (sessionStart).
CompactionSettles ==
  (up /\ (phase # "idle" \/ store.marker.state = "pending"))
    ~> (~up \/ (phase = "idle" /\ store.marker.state # "pending"))

=============================================================================
