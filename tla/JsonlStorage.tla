---------------------------- MODULE JsonlStorage ----------------------------
(***************************************************************************)
(* The JSONL backend of packages/durable (src/storage/jsonl/storage.ts):   *)
(* one main file with a marker line per commit, one sidecar file per       *)
(* document and per live task.  A commit appends its sidecar records, then *)
(* the marker that confirms them; recovery applies confirmed records only; *)
(* sidecars whose earlier records a base, a retirement or a terminal task  *)
(* made unnecessary are replaced or removed.                               *)
(*                                                                         *)
(* The file system is external: every operation may fail or be cut off     *)
(* with none, part or all of its effect; a process crash keeps what was    *)
(* written; a power loss leaves of each file, independently, any content   *)
(* it had since it was last flushed.                                       *)
(***************************************************************************)
EXTENDS Integers, Sequences, SequencesExt

CONSTANTS
  Docs, Histories, Works,   \* as in CommitLog
  MaxCommits,               \* bound on commits attempted
  MaxFaults,                \* bound on crashes, failed operations and power losses
  Groups                    \* the sets of objects written by one batch

ASSUME JsonlAssumption ==
  /\ MaxCommits \in Nat /\ MaxFaults \in Nat
  /\ Groups \subseteq SUBSET (Docs \cup Histories \cup Works)
  /\ Docs \cap Histories = {} /\ (Docs \cup Histories) \cap Works = {}
  /\ Docs \cup Histories \cup Works # {} /\ "main" \notin Docs \cup Histories \cup Works

VARIABLES
  fsync,     \* the fsync option of this session's directory
  disk,      \* lines of each file, Torn last when its final line is cut off
  kept,      \* contents each file may have after a power loss (with fsync)
  pc,        \* where the backend is
  job,       \* the commit in progress: [seq, id, writes]
  todo,      \* objects the current phase has left
  plan,      \* replacement lines of the sidecars to reclaim
  memory,    \* what the backend serves
  seq,       \* the last applied sequence number
  live,      \* liveTaskSidecars
  attempts, acked, faults, losses

vars == <<fsync, disk, kept, pc, job, todo, plan, memory, seq, live,
          attempts, acked, faults, losses>>

Objects == Docs \cup Histories \cup Works
Main == "main"
Names == Objects \cup {Main}

Torn == [seq |-> 0]
NoJob == [seq |-> 0, id |-> 0, writes |-> <<>>]
NoPlan == [o \in {} |-> <<>>]

\* Complete lines of a file's content: a torn last line is cut off.
Complete(lines) == IF lines # <<>> /\ Last(lines) = Torn THEN Front(lines) ELSE lines
Markers == Complete(disk[Main])

\* A reader of the file fails on a line that was completed by a later append.
Garbled(lines) == \E i \in 1..(Len(lines) - 1) : lines[i] = Torn

\* Kinds of writes whose record is in the sidecar; the others are in the marker.
InSidecar(kind) == kind \in {"create", "base", "delta", "live"}
SidecarsOf(writes) == {o \in DOMAIN writes : InSidecar(writes[o])}

\* The log of batches the main file holds, and what readers see of it.
LogNow == [i \in DOMAIN Markers |-> [id |-> Markers[i].id, writes |-> Markers[i].writes]]
ViewNow == IF pc = "tidy" THEN <<>> ELSE memory

CL == INSTANCE CommitLog WITH log <- LogNow, view <- ViewNow, acked <- acked, losses <- losses

Fault == faults < MaxFaults /\ faults' = faults + 1

\* Replace the lines of one file; unflushed, the old contents may come back.
Write(name, lines) ==
  /\ disk' = [disk EXCEPT ![name] = lines]
  /\ kept' = IF fsync THEN [kept EXCEPT ![name] = @ \cup {lines}] ELSE kept
Flush(name) == kept' = [kept EXCEPT ![name] = {disk[name]}]

----------------------------------------------------------------------------
(* Committing.                                                             *)

\* Writes the Session's validation admits after the committed batches.
KindsFor(o) ==
  LET kinds == {Markers[i].writes[o] : i \in {i \in DOMAIN Markers : o \in DOMAIN Markers[i].writes}}
  IN IF o \in Works THEN (IF kinds = {} THEN {"live"} ELSE IF "terminal" \in kinds THEN {} ELSE {"live", "terminal"})
     ELSE IF kinds = {} THEN {"create"}
     ELSE IF "retire" \in kinds THEN {} ELSE {"base", "delta", "retire"}

\* prepareCommit and encodeCommit: no state changes before the first append.
Begin(writes) ==
  /\ pc = "idle" /\ attempts < MaxCommits
  /\ \A o \in DOMAIN writes : writes[o] \in KindsFor(o)
  /\ attempts' = attempts + 1
  /\ job' = [seq |-> seq + 1, id |-> attempts + 1, writes |-> writes]
  /\ todo' = SidecarsOf(writes)
  /\ pc' = IF SidecarsOf(writes) = {} THEN "mark" ELSE "append"
  /\ UNCHANGED <<fsync, disk, kept, plan, memory, seq, live, acked, faults, losses>>

Record(o) == [seq |-> job.seq, id |-> job.id, kind |-> job.writes[o]]
Marker == [seq |-> job.seq, id |-> job.id, writes |-> job.writes]

AppendSidecar(o) ==
  /\ pc = "append" /\ o \in todo
  /\ Write(o, Append(disk[o], Record(o)))
  /\ IF todo # {o} THEN todo' = todo \ {o} /\ pc' = pc
     ELSE IF fsync THEN todo' = SidecarsOf(job.writes) /\ pc' = "flush"
     ELSE todo' = {} /\ pc' = "mark"
  /\ UNCHANGED <<fsync, job, plan, memory, seq, live, attempts, acked, faults, losses>>

FlushSidecar(o) ==
  /\ pc = "flush" /\ o \in todo
  /\ Flush(o)
  /\ todo' = todo \ {o}
  /\ pc' = IF todo = {o} THEN "mark" ELSE pc
  /\ UNCHANGED <<fsync, disk, job, plan, memory, seq, live, attempts, acked, faults, losses>>

AppendMarker ==
  /\ pc = "mark"
  /\ Write(Main, Append(disk[Main], Marker))
  /\ pc' = "apply"
  /\ UNCHANGED <<fsync, job, todo, plan, memory, seq, live, attempts, acked, faults, losses>>

\* planReclamations: a retirement or a terminal state empties the sidecar, a
\* base of a latest-only document leaves its own records.
Reclamations ==
  [o \in {o \in DOMAIN job.writes :
            \/ o \in Docs /\ job.writes[o] \in {"base", "retire"}
            \/ o \in Works /\ job.writes[o] = "terminal" /\ o \in live}
     |-> IF job.writes[o] = "base" THEN <<Record(o)>> ELSE <<>>]

\* The value of an object after the batch.
Applied(o) ==
  IF o \notin DOMAIN job.writes THEN memory[o]
  ELSE IF job.writes[o] \in CL!Resets(o) THEN {job.id} ELSE memory[o] \cup {job.id}

\* Mutant: sidecars are reclaimed before the markers that authorize it are flushed.
ApplyReclaimsAtOnce ==
  /\ pc = "apply"
  /\ memory' = [o \in Objects |-> Applied(o)]
  /\ seq' = job.seq
  /\ live' = (live \cup {o \in Works \cap DOMAIN job.writes : job.writes[o] = "live"})
               \ {o \in Works \cap DOMAIN job.writes : job.writes[o] = "terminal"}
  /\ acked' = acked \cup {job.id}
  /\ plan' = Reclamations /\ todo' = DOMAIN Reclamations
  /\ pc' = IF DOMAIN Reclamations = {} THEN "idle" ELSE "reclaim"
  /\ job' = NoJob
  /\ UNCHANGED <<fsync, disk, kept, attempts, faults, losses>>

\* apply and adoptSidecarState, in one synchronous step after the marker.
Apply ==
  /\ pc = "apply"
  /\ memory' = [o \in Objects |-> Applied(o)]
  /\ seq' = job.seq
  /\ live' = (live \cup {o \in Works \cap DOMAIN job.writes : job.writes[o] = "live"})
               \ {o \in Works \cap DOMAIN job.writes : job.writes[o] = "terminal"}
  /\ acked' = acked \cup {job.id}
  /\ plan' = Reclamations /\ todo' = DOMAIN Reclamations
  /\ pc' = IF DOMAIN Reclamations = {} THEN "idle" ELSE IF fsync THEN "authorize" ELSE "reclaim"
  /\ job' = NoJob
  /\ UNCHANGED <<fsync, disk, kept, attempts, faults, losses>>

\* reclaimSidecars: with fsync the authorizing markers are flushed first; when
\* that fails, reclamation is deferred and nothing else happens.
Authorize ==
  /\ pc = "authorize"
  /\ \/ Flush(Main) /\ pc' = "reclaim" /\ UNCHANGED <<todo, plan, faults>>
     \/ Fault /\ pc' = "idle" /\ todo' = {} /\ plan' = NoPlan /\ UNCHANGED kept
  /\ UNCHANGED <<fsync, disk, job, memory, seq, live, attempts, acked, losses>>

\* replaceSidecar: a flushed temporary file renamed over the sidecar, or its
\* removal; errors are ignored.
Reclaim(o) ==
  /\ pc = "reclaim" /\ o \in todo
  /\ \/ Write(o, plan[o]) /\ UNCHANGED faults
     \/ Fault /\ UNCHANGED <<disk, kept>>
  /\ todo' = todo \ {o}
  /\ IF todo = {o} THEN pc' = "idle" /\ plan' = NoPlan ELSE UNCHANGED <<pc, plan>>
  /\ UNCHANGED <<fsync, job, memory, seq, live, attempts, acked, losses>>

----------------------------------------------------------------------------
(* Failures.                                                               *)

Forget ==
  /\ job' = NoJob /\ todo' = {} /\ plan' = NoPlan
  /\ memory' = <<>> /\ seq' = 0 /\ live' = {}

\* Mutant: the backend goes on after an append that reported an error.
AppendFailsUsable(name, line) ==
  /\ Fault
  /\ \/ UNCHANGED <<disk, kept>>
     \/ Write(name, Append(disk[name], Torn))
     \/ Write(name, Append(disk[name], line))
  /\ pc' = "idle" /\ job' = NoJob /\ todo' = {}
  /\ UNCHANGED <<fsync, plan, memory, seq, live, attempts, acked, losses>>

\* An append reports an error after none, part or all of it; the backend is
\* poisoned and serves nothing more.
AppendFails(name, line) ==
  /\ Fault
  /\ \/ UNCHANGED <<disk, kept>>
     \/ Write(name, Append(disk[name], Torn))
     \/ Write(name, Append(disk[name], line))
  /\ pc' = "poisoned" /\ Forget
  /\ UNCHANGED <<fsync, attempts, acked, losses>>

CommitFails ==
  \/ \E o \in todo : pc = "append" /\ AppendFails(o, Record(o))
  \/ pc = "mark" /\ AppendFails(Main, Marker)

FlushFails ==
  /\ pc = "flush" /\ Fault
  /\ pc' = "poisoned" /\ Forget
  /\ UNCHANGED <<fsync, disk, kept, attempts, acked, losses>>

\* The process ends: closed, replaced after poisoning, or killed at any point.
Close ==
  /\ pc \in {"idle", "poisoned"}
  /\ pc' = "down" /\ Forget
  /\ UNCHANGED <<fsync, disk, kept, attempts, acked, faults, losses>>

Crash ==
  /\ pc \notin {"down", "corrupt"} /\ Fault
  /\ pc' = "down" /\ Forget
  /\ UNCHANGED <<fsync, disk, kept, attempts, acked, losses>>

LosePower ==
  /\ fsync /\ pc # "corrupt" /\ Fault
  /\ \E survived \in [Names -> UNION {kept[n] : n \in Names}] :
       /\ \A n \in Names : survived[n] \in kept[n]
       /\ disk' = survived /\ kept' = [n \in Names |-> {survived[n]}]
  /\ pc' = "down" /\ Forget /\ losses' = losses + 1
  /\ UNCHANGED <<fsync, attempts, acked>>

----------------------------------------------------------------------------
(* Recovery.                                                               *)

\* Markers that write object o, and the record of o that one confirms.
WritesOf(o) == {i \in DOMAIN Markers : o \in DOMAIN Markers[i].writes}
Records(o) == Complete(disk[o])
Confirms(o, i) == {r \in Range(Records(o)) : InSidecar(Markers[i].writes[o]) /\ r.seq = Markers[i].seq}
IsConfirmed(o, r) == \E i \in WritesOf(o) : r \in Confirms(o, i)
LastWrite(o) == CHOOSE i \in WritesOf(o) : \A j \in WritesOf(o) : j <= i
FinalKind(o) == IF WritesOf(o) = {} THEN "none" ELSE Markers[LastWrite(o)].writes[o]
Retired(o) == \E i \in WritesOf(o) : Markers[i].writes[o] = "retire"

\* latestBases: the last confirmed record that is a base.
Bases(o) == {i \in WritesOf(o) : \E r \in Confirms(o, i) : r.kind \in {"create", "base"}}
BeforeLatestBase(o, s) == o \in Docs /\ \E j \in Bases(o) : s < Markers[j].seq

\* A sidecar all of whose records may be gone, and a record that may be.
Spent(o) == (o \in Works /\ FinalKind(o) = "terminal") \/ (o \in Docs /\ Retired(o))
Optional(o, i) == Spent(o) \/ BeforeLatestBase(o, Markers[i].seq)

\* Recovery refuses the directory.
Corrupt ==
  \/ Garbled(disk[Main])
  \/ \E i, j \in DOMAIN Markers : i < j /\ Markers[i].seq >= Markers[j].seq
  \/ \E o \in Objects :
       \/ Garbled(disk[o])
       \/ \E i, j \in DOMAIN Records(o) : i < j /\ Records(o)[i].seq >= Records(o)[j].seq
       \/ \E i \in WritesOf(o) : /\ InSidecar(Markers[i].writes[o])
                                 /\ ~Optional(o, i) /\ Confirms(o, i) = {}
       \/ \E i, j \in DOMAIN Records(o) :             \* a confirmed record after a tail
            i < j /\ IsConfirmed(o, Records(o)[j]) /\ ~IsConfirmed(o, Records(o)[i])

\* What a write contributes: the record found, or the marker's own data.
Content(o, i) ==
  IF InSidecar(Markers[i].writes[o]) THEN (CHOOSE r \in Confirms(o, i) : TRUE).id ELSE Markers[i].id

\* The writes recovery applies, skipping records reclaimed or not needed.
Replayed(o) == {i \in WritesOf(o) : ~(InSidecar(Markers[i].writes[o]) /\ Optional(o, i))}

Recovered(o) ==
  {Content(o, i) : i \in {i \in Replayed(o) :
     \A j \in Replayed(o) : j > i => Markers[j].writes[o] \notin CL!Resets(o)}}

\* Lines of a sidecar that stay: up to the first unconfirmed one.
Confirmed(o) ==
  LET first == CHOOSE n \in 1..(Len(Records(o)) + 1) :
                 /\ \A i \in 1..(n - 1) : IsConfirmed(o, Records(o)[i])
                 /\ n \in DOMAIN Records(o) => ~IsConfirmed(o, Records(o)[n])
  IN SubSeq(Records(o), 1, first - 1)

\* Lines recovery would retain in a sidecar whose older ones are reclaimable:
\* sequence numbers rise, so those not before the latest base are its last ones.
Retained(o) ==
  LET lines == Confirmed(o)
      first == CHOOSE n \in 1..(Len(lines) + 1) :
                 /\ \A i \in 1..(n - 1) : BeforeLatestBase(o, lines[i].seq)
                 /\ n \in DOMAIN lines => ~BeforeLatestBase(o, lines[n].seq)
  IN IF Spent(o) THEN <<>> ELSE SubSeq(lines, first, Len(lines))

\* recover up to its first truncation: read everything, decide, apply.
Recover ==
  /\ pc = "down"
  /\ IF Corrupt
     THEN /\ pc' = "corrupt"
          /\ UNCHANGED <<disk, kept, todo, plan, memory, seq, live>>
     ELSE /\ pc' = "tidy"
          /\ Write(Main, Markers)
          /\ memory' = [o \in Objects |-> Recovered(o)]
          /\ seq' = IF Markers = <<>> THEN 0 ELSE Last(Markers).seq
          /\ live' = {o \in Works : FinalKind(o) = "live"}
          /\ plan' = [o \in {o \in Docs \cup Works : /\ Confirmed(o) # <<>>
                                                     /\ Retained(o) # Confirmed(o)} |-> Retained(o)]
          /\ todo' = Objects
  /\ UNCHANGED <<fsync, job, attempts, acked, faults, losses>>

\* The torn line and the unconfirmed tail of one sidecar are cut off.
Tidy(o) ==
  /\ pc = "tidy" /\ o \in todo
  /\ Write(o, Confirmed(o))
  /\ IF todo # {o} THEN todo' = todo \ {o} /\ pc' = pc
     ELSE /\ todo' = DOMAIN plan
          /\ pc' = IF DOMAIN plan = {} THEN "idle" ELSE IF fsync THEN "authorize" ELSE "reclaim"
  /\ UNCHANGED <<fsync, job, plan, memory, seq, live, attempts, acked, faults, losses>>

----------------------------------------------------------------------------
Init ==
  /\ fsync \in BOOLEAN
  /\ disk = [n \in Names |-> <<>>] /\ kept = [n \in Names |-> {<<>>}]
  /\ pc = "down" /\ job = NoJob /\ todo = {} /\ plan = NoPlan
  /\ memory = <<>> /\ seq = 0 /\ live = {}
  /\ attempts = 0 /\ acked = {} /\ faults = 0 /\ losses = 0

Batches ==
  UNION {[O -> {"create", "base", "delta", "retire", "live", "terminal"}] : O \in Groups}

Next ==
  \/ \E writes \in Batches : Begin(writes)
  \/ \E o \in Objects : AppendSidecar(o) \/ FlushSidecar(o) \/ Reclaim(o) \/ Tidy(o)
  \/ AppendMarker \/ Apply \/ Authorize
  \/ CommitFails \/ FlushFails \/ Close \/ Crash \/ LosePower
  \/ Recover

Spec == Init /\ [][Next]_vars

----------------------------------------------------------------------------
(* Properties.                                                             *)

\* The shape of the backend's state; a served memory gives every object a value.
TypeOK ==
  /\ pc \in {"down", "tidy", "idle", "append", "flush", "mark", "apply", "authorize", "reclaim",
             "poisoned", "corrupt"}
  /\ todo \subseteq Objects /\ DOMAIN plan \subseteq Objects /\ live \subseteq Works
  /\ (memory = <<>>) = (pc \in {"down", "poisoned", "corrupt"})
  /\ \A n \in Names : fsync => disk[n] \in kept[n]

\* Whatever a crash, a failed operation or a power loss left, the directory
\* opens again: no required record is missing, none is out of order and no
\* confirmed record follows an unconfirmed tail.
NeverRefused == pc # "corrupt"

\* The backend implements one log of atomic commits: what it serves after any
\* recovery is exactly the value of the markers that survived.
ImplementsCommitLog == CL!Spec
=============================================================================
