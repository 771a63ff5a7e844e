---------------------------- MODULE FailureStore ----------------------------
(***************************************************************************)
(* PreviewFailureStore (preview/failure-store.ts) over failure-io.ts: the  *)
(* operational failure state of one session.  Every method is an operator  *)
(* that returns the SET of its possible results, one for each way the file *)
(* system may answer, so that the controller composes them the way the     *)
(* code calls them, inside one synchronous step.                           *)
(*                                                                         *)
(* A branch of the session is the sequence of its entries.                 *)
(***************************************************************************)
EXTENDS Naturals, Sequences

CONSTANT Faults     \* the file-system faults the environment may inject

FaultKinds == {"markerRead", "markerWrite", "markerSync", "sessionRead"}

ASSUME FaultsAssumption == Faults \subseteq FaultKinds

Ok     == "ok"
NoCode == "none"

(***************************************************************************)
(* The controlled failure codes, told apart by what raises them: IO stands *)
(* for MARKER_IO and SESSION_IO, UNSUPPORTED for the classifications of a  *)
(* session, REFUSED for every failure of a request's or a compaction's own *)
(* checks (tool boundary, overflow, cut, size, writer, note).              *)
(***************************************************************************)
Codes == {"CANCELLED", "COMMIT_UNCONFIRMED", "IO", "PENDING", "REFUSED", "SOURCE_CHANGED",
          "UNSUPPORTED"}

(***************************************************************************)
(* hashEntries: a digest of a branch that tells two branches apart exactly *)
(* when an entry or its content differs (SHA-256 taken as collision-free). *)
(* An entry's id fixes its content up to rev, which an edit on disk moves. *)
(***************************************************************************)
Hash == Seq(Nat \X {0, 1})

hashEntries(branch) == [i \in DOMAIN branch |-> <<branch[i].id, branch[i].rev>>]

(***************************************************************************)
(* The marker file.  att is the attempt's identity (0: the marker carries  *)
(* no attempt), src the hash of the branch the attempt was begun on (which *)
(* also names its leafId and lastCheckpointId), staged whether the marker    *)
(* carries the hash of the candidate that attempt staged.                  *)
(***************************************************************************)
NoMarker == [state |-> "none", code |-> NoCode, att |-> 0, src |-> <<>>, staged |-> FALSE]

Pending(a, branch) ==
  [state |-> "pending", code |-> "PENDING", att |-> a, src |-> hashEntries(branch), staged |-> FALSE]

Blocked(m, code) ==
  [state |-> "blocked", code |-> code, att |-> m.att, src |-> m.src, staged |-> m.staged]

(***************************************************************************)
(* The state of a store.  marker is the file as a reader sees it, synced   *)
(* the file a power loss may bring back: they differ after a rename or an  *)
(* unlink whose directory fsync failed.  latched, recovery (the map        *)
(* recoveryMarkers) and frontier live in the process.                      *)
(***************************************************************************)
FreshStore(m) ==
  [marker |-> m, synced |-> m, latched |-> NoCode, recovery |-> NoMarker, frontier |-> FALSE]

Result(s, err) == [s |-> s, err |-> err]

(***************************************************************************)
(* What a read of the marker file and of the session file may answer.      *)
(***************************************************************************)
MarkerReads == {Ok} \cup (IF "markerRead" \in Faults THEN {"IO"} ELSE {})

SessionReads == {Ok} \cup (IF "sessionRead" \in Faults THEN {"IO"} ELSE {})

(***************************************************************************)
(* writeMarker publishes by rename and then syncs the directory.  It may   *)
(* fail before the rename (the old marker stays) or after it (the new one  *)
(* is visible although an error is reported).                              *)
(***************************************************************************)
writeMarker(s, m) ==
  {Result([s EXCEPT !.marker = m, !.synced = m], Ok)}
    \cup (IF "markerWrite" \in Faults THEN {Result(s, "IO")} ELSE {})
    \cup (IF "markerSync" \in Faults THEN {Result([s EXCEPT !.marker = m], "IO")} ELSE {})

removeMarker(s) == writeMarker(s, NoMarker)

(***************************************************************************)
(* recordFailure: a blocked marker is never overwritten; otherwise the     *)
(* failure is written over what is known of the attempt, so its identity   *)
(* and its staged candidate stay on record.                                *)
(***************************************************************************)
Previous(s, recoveryMarker) ==
  IF s.marker # NoMarker THEN s.marker
  ELSE IF recoveryMarker # NoMarker THEN recoveryMarker
  ELSE s.recovery

\* Mutant: the failure is written without what is known of the attempt.
recordFailureForgets(s, code, recoveryMarker) ==
  UNION { CASE read # Ok                  -> {Result(s, read)}
            [] read = Ok /\ s.marker.state = "blocked" -> {Result(s, Ok)}
            [] OTHER -> writeMarker(s, Blocked(NoMarker, code))
          : read \in MarkerReads }

\* Mutant: a later failure overwrites the recorded one.
recordFailureOverwrites(s, code, recoveryMarker) ==
  UNION { IF read # Ok THEN {Result(s, read)}
          ELSE writeMarker(s, Blocked(Previous(s, recoveryMarker), code))
          : read \in MarkerReads }

recordFailure(s, code, recoveryMarker) ==
  UNION { CASE read # Ok                  -> {Result(s, read)}
            [] read = Ok /\ s.marker.state = "blocked" -> {Result(s, Ok)}
            [] OTHER -> writeMarker(s, Blocked(Previous(s, recoveryMarker), code))
          : read \in MarkerReads }

(***************************************************************************)
(* reject: latch the code in the process, keep a staged identity in        *)
(* memory, try to record the failure (errors swallowed), and throw.        *)
(***************************************************************************)
reject(s, code, recoveryMarker) ==
  LET kept == IF recoveryMarker.staged THEN Blocked(recoveryMarker, code) ELSE s.recovery
      s1   == [s EXCEPT !.latched = code, !.recovery = kept]
  IN  { Result(r.s, code) : r \in recordFailure(s1, code, recoveryMarker) }

\* Continue with the state of a step that succeeded, or reject with its error.
OrReject(r, recoveryMarker, then) ==
  IF r.err = Ok THEN then ELSE reject(r.s, r.err, recoveryMarker)

(***************************************************************************)
(* fail: the controller's failure, latched and recorded.                   *)
(***************************************************************************)
fail(s, code) ==
  UNION { OrReject(r, NoMarker, {r})
          : r \in recordFailure([s EXCEPT !.frontier = FALSE, !.latched = code], code, NoMarker) }

markerPresent(s) == s.latched # NoCode \/ s.recovery # NoMarker \/ s.marker # NoMarker

(***************************************************************************)
(* evaluate.  same: the branch read back from disk equals the branch in    *)
(* memory.  latch is FALSE only for inspect(); request is TRUE only for    *)
(* assertReady(), which may skip the readback while the frontier holds.    *)
(* reads is what reading the session file may answer: only Ok when the     *)
(* caller's PreviewReadback holds the answer already.                      *)
(* The error of a result is Ok exactly when the state is ready.            *)
(***************************************************************************)
Latch(s, latch, code) == Result(IF latch THEN [s EXCEPT !.latched = code] ELSE s, code)

evaluate(s, latch, request, same, reads) ==
  LET cleared == [s EXCEPT !.frontier = @ /\ ~request] IN
  { CASE read # Ok -> Latch(s, latch, read)
      [] read = Ok /\ s.marker # NoMarker -> Result(s, s.marker.code)
      [] read = Ok /\ s.marker = NoMarker /\ s.latched # NoCode -> Result(s, s.latched)
      [] read = Ok /\ s.marker = NoMarker /\ s.latched = NoCode /\ request /\ s.frontier -> Result(s, Ok)
      [] OTHER ->
           IF session # Ok THEN Latch(cleared, latch, session)
           ELSE IF ~same THEN Latch(cleared, latch, "SOURCE_CHANGED")
           ELSE Result([s EXCEPT !.frontier = request \/ @], Ok)
    : read \in MarkerReads, session \in reads }

(***************************************************************************)
(* begin: persist a pending attempt before any writer runs.  An explicit   *)
(* retry replaces whatever marker there is; any other attempt needs the    *)
(* store to be ready.  The latch is not cleared.                           *)
(***************************************************************************)
\* Mutant: the writer starts although the pending marker was not written.
PublishAnyway(s, a, branch) ==
  { Result([w.s EXCEPT !.recovery = NoMarker], Ok) : w \in writeMarker(s, Pending(a, branch)) }

Publish(s, a, branch) ==
  UNION { OrReject(w, NoMarker, {Result([w.s EXCEPT !.recovery = NoMarker], Ok)})
          : w \in writeMarker(s, Pending(a, branch)) }

begin(s, explicitRetry, a, branch, same, reads) ==
  LET s0      == [s EXCEPT !.frontier = FALSE]
      retried == { Result(s0, IF read # Ok THEN read
                              ELSE IF session # Ok THEN session
                              ELSE IF ~same THEN "SOURCE_CHANGED" ELSE Ok)
                   : read \in MarkerReads, session \in reads }
      checked == IF explicitRetry THEN retried ELSE evaluate(s0, TRUE, FALSE, same, reads)
  IN  UNION { OrReject(r, NoMarker, Publish(r.s, a, branch)) : r \in checked }

(***************************************************************************)
(* stage: the marker must still be this attempt's pending one, and neither *)
(* the branch in memory nor the one on disk may have moved.                *)
(***************************************************************************)
stage(s, a, src, branch, same) ==
  LET s0      == [s EXCEPT !.frontier = FALSE]
      checked == { Result(s0, CASE read # Ok -> read
                                [] read = Ok /\ s.marker.state # "pending" -> "COMMIT_UNCONFIRMED"
                                [] OTHER ->
                                     IF s.marker.att # a \/ s.marker.src # src \/ hashEntries(branch) # src
                                       THEN "SOURCE_CHANGED"
                                     ELSE IF session # Ok THEN session
                                     ELSE IF ~same THEN "SOURCE_CHANGED" ELSE Ok)
                   : read \in MarkerReads, session \in SessionReads }
  IN  UNION { OrReject(r, NoMarker,
                UNION { OrReject(w, NoMarker, {w})
                        : w \in writeMarker(r.s, [r.s.marker EXCEPT !.staged = TRUE]) })
              : r \in checked }

(***************************************************************************)
(* confirm: commit() and recover().  entry is the branch that ends in the  *)
(* checkpoint entry to confirm, branch the current branch in memory, disk  *)
(* what the session file holds for that entry's branch.  ver is a history  *)
(* field: the attempt whose readback succeeded, 0 when none did.           *)
(***************************************************************************)
\* The ids of a hash's entries, from the root to the leaf.
Ids(hash) == [i \in DOMAIN hash |-> hash[i][1]]

Sources(branch) == SubSeq(branch, 1, Len(branch) - 1)

Checkpoint(branch) == branch[Len(branch)]

\* candidateHash(entry) = marker.candidateHash: the entry is the candidate
\* the attempt staged, and nothing was edited in it since.
IsCandidate(token, m) == token.kind = "memory" /\ token.att = m.att /\ token.rev = 0

Identified(m, explicitRecovery, entry, branch) ==
  /\ m.att # 0
  /\ m.staged
  /\ explicitRecovery \/ m.state = "pending"
  /\ Ids(hashEntries(Sources(entry))) = Ids(m.src)     \* parentId = leafId
  /\ branch = entry
  /\ IsCandidate(Checkpoint(entry), m)

\* Mutant: only the checkpoint entry itself is compared with the disk.
ReadbackOfCheckpointOnly(m, entry, branch, disk) ==
  IF Checkpoint(disk) # Checkpoint(entry) \/ ~IsCandidate(Checkpoint(disk), m) THEN "COMMIT_UNCONFIRMED"
  ELSE Ok

\* The comparison of the checkpoint, its sources and the branch with the disk.
ReadbackError(m, entry, branch, disk) ==
  IF Checkpoint(disk) # Checkpoint(entry) \/ ~IsCandidate(Checkpoint(disk), m) THEN "COMMIT_UNCONFIRMED"
  ELSE IF hashEntries(Sources(disk)) # m.src \/ hashEntries(disk) # hashEntries(branch) THEN "SOURCE_CHANGED"
  ELSE Ok

Release(s, m) ==
  UNION { OrReject(u, m, {Result([u.s EXCEPT !.latched = NoCode, !.recovery = NoMarker], Ok)})
          : u \in removeMarker(s) }

Confirmed(results, a) == { [s |-> r.s, err |-> r.err, ver |-> a] : r \in results }

confirm(s, explicitRecovery, entry, branch, disk) ==
  LET s0 == [s EXCEPT !.frontier = FALSE]
      m  == IF s.marker # NoMarker THEN s.marker
            ELSE IF explicitRecovery THEN s.recovery ELSE NoMarker
      restored == IF s.marker # NoMarker THEN {Result(s0, Ok)} ELSE recordFailure(s0, m.code, m)
      readback(t) ==
        UNION { LET err == IF session # Ok THEN session ELSE ReadbackError(m, entry, branch, disk)
                IN  IF err = Ok THEN Confirmed(Release(t, m), m.att)
                    ELSE Confirmed(reject(t, err, m), 0)
                : session \in SessionReads }
  IN  UNION { IF read # Ok THEN Confirmed(reject(s0, read, NoMarker), 0)
              ELSE IF ~Identified(m, explicitRecovery, entry, branch)
                THEN Confirmed(reject(s0, "COMMIT_UNCONFIRMED", m), 0)
              ELSE UNION { IF r.err = Ok THEN readback(r.s)
                           ELSE Confirmed(reject(r.s, r.err, m), 0) : r \in restored }
              : read \in MarkerReads }

=============================================================================
