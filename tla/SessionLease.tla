---------------------------- MODULE SessionLease ----------------------------
(***************************************************************************)
(* The resident build's writer lease (context-memory/lease.ts) and the     *)
(* storage that appends under it (context-memory/storage.ts): one session  *)
(* file, several Pi processes.  Each action is one file-system call or one *)
(* look at another process, for between any two of them other processes    *)
(* run, die, or an outside program writes the session file.                *)
(***************************************************************************)
EXTENDS Naturals

CONSTANTS
  Procs,         \* the Pi processes, each with one runtime
  MaxAcquires,   \* bound: acquisitions started, each with a nonce of its own
  MaxWrites,     \* bound: changes of the session file
  Faults         \* the faults the environment may inject

FaultKinds == {"io", "rollback", "external"}

NoProc == "none"

ASSUME LeaseAssumption ==
  /\ NoProc \notin Procs
  /\ Faults \subseteq FaultKinds
  /\ MaxAcquires \in Nat /\ MaxWrites \in Nat

VARIABLES
  lock,       \* the directory <file>.context.lock: exists, owner
  reaper,     \* the directory <file>.context.lock.reap: who made it
  alive,      \* the processes that run
  pc,         \* where a process stands in acquire, append or release
  nonce,      \* the nonce of the process's latest lease
  seen,       \* local to acquire(): the owner it read
  stamp,      \* the session file's stamp: a new one for every change
  expected,   \* the stamp the storage expects
  known,      \* the stamp of the content the process has in memory
  slipped,    \* history: the stamp of content known but for outside writes that
              \* fell between a check and the re-stamp after it
  acquires    \* counter for the bound

storageVars == <<stamp, expected, known, slipped>>
vars == <<lock, reaper, alive, pc, nonce, seen, storageVars, acquires>>

\* owner.json is missing, empty or incomplete: ownerAt() throws.
Unreadable == [nonce |-> 0]

\* Mutant: an owner without a nonce.
OwnerWithoutNonce(p, n, recovery) == [proc |-> p, nonce |-> 0, recoveryRequired |-> recovery]

Owner(p, n, recovery) == [proc |-> p, nonce |-> n, recoveryRequired |-> recovery]

Absent     == [exists |-> FALSE, owner |-> Unreadable]
Made(o)    == [exists |-> TRUE, owner |-> o]

\* Mutant: an owner that has been quiet for long counts as gone.
isDeadByTimeout(owner) == TRUE

\* isDead: process identity (pid, start time, boot) is never reused.
isDead(owner) == owner.proc \notin alive

At(p, place) == p \in alive /\ pc[p] = place

Goto(p, place) == pc' = [pc EXCEPT ![p] = place]

AcquireUnchanged == UNCHANGED <<alive, storageVars, acquires>>

-----------------------------------------------------------------------------
(* acquire() *)

Mkdir(p) ==
  /\ At(p, "closed") /\ acquires < MaxAcquires
  /\ acquires' = acquires + 1
  /\ nonce' = [nonce EXCEPT ![p] = acquires + 1]
  /\ IF lock.exists THEN Goto(p, "occupied") /\ UNCHANGED lock
     ELSE Goto(p, "made") /\ lock' = Made(Unreadable)
  /\ UNCHANGED <<reaper, alive, seen, storageVars>>

\* ownerAt(lockPath), and the refusal of a lock that requires recovery.
ReadOwner(p) ==
  /\ At(p, "occupied")
  /\ IF lock.owner = Unreadable \/ lock.owner.recoveryRequired
       THEN Goto(p, "closed") /\ UNCHANGED seen
       ELSE Goto(p, "read") /\ seen' = [seen EXCEPT ![p] = lock.owner]
  /\ UNCHANGED <<lock, reaper, nonce>> /\ AcquireUnchanged

CheckDead(p) ==
  /\ At(p, "read")
  /\ Goto(p, IF isDead(seen[p]) THEN "dead owner" ELSE "closed")
  /\ UNCHANGED <<lock, reaper, nonce, seen>> /\ AcquireUnchanged

MkdirReaper(p) ==
  /\ At(p, "dead owner")
  /\ IF reaper = NoProc THEN reaper' = p /\ Goto(p, "reaping")
     ELSE Goto(p, "closed") /\ UNCHANGED reaper
  /\ UNCHANGED <<lock, nonce, seen>> /\ AcquireUnchanged

\* Mutant: the owner is not read again once the reaper is in place.
NoReread(p) ==
  /\ At(p, "reaping")
  /\ Goto(p, "reread")
  /\ UNCHANGED <<lock, reaper, nonce, seen>> /\ AcquireUnchanged

\* The owner must still be the dead one, else CONTEXT_LOCK_CHANGED.
Reread(p) ==
  /\ At(p, "reaping")
  /\ Goto(p, IF lock.owner # Unreadable /\ lock.owner.nonce = seen[p].nonce /\ isDead(lock.owner)
               THEN "reread" ELSE "abandon")
  /\ UNCHANGED <<lock, reaper, nonce, seen>> /\ AcquireUnchanged

Retire(p) ==
  /\ At(p, "reread")
  /\ \/ lock.exists /\ lock' = Absent /\ Goto(p, "retired")
     \/ (~lock.exists \/ "io" \in Faults) /\ Goto(p, "abandon") /\ UNCHANGED lock
  /\ UNCHANGED <<reaper, nonce, seen>> /\ AcquireUnchanged

\* Another process may have made the directory since it was retired.
MkdirAgain(p) ==
  /\ At(p, "retired")
  /\ \/ ~lock.exists /\ lock' = Made(Unreadable) /\ Goto(p, "remade")
     \/ (lock.exists \/ "io" \in Faults) /\ Goto(p, "abandon") /\ UNCHANGED lock
  /\ UNCHANGED <<reaper, nonce, seen>> /\ AcquireUnchanged

\* rm of the retired directory, then of the reaper; either may fail.
RemoveReaper(p) ==
  /\ At(p, "remade")
  /\ \/ reaper' = NoProc /\ Goto(p, "made")
     \/ "io" \in Faults /\ reaper' = NoProc /\ Goto(p, "closed")
     \/ "io" \in Faults /\ Goto(p, "closed") /\ UNCHANGED reaper
  /\ UNCHANGED <<lock, nonce, seen>> /\ AcquireUnchanged

\* finally: the reaper goes away and acquire() throws.
Abandon(p) ==
  /\ At(p, "abandon")
  /\ reaper' = NoProc /\ Goto(p, "closed")
  /\ UNCHANGED <<lock, nonce, seen>> /\ AcquireUnchanged

\* owner.json with flag wx; an incomplete lock stays rather than be guessed at.
WriteOwner(p) ==
  /\ At(p, "made")
  /\ \/ /\ lock = Made(Unreadable)
        /\ lock' = Made(Owner(p, nonce[p], FALSE))
        /\ Goto(p, "leased")
     \/ /\ lock # Made(Unreadable) \/ "io" \in Faults
        /\ Goto(p, "closed") /\ UNCHANGED lock
  /\ UNCHANGED <<reaper, nonce, seen>> /\ AcquireUnchanged

-----------------------------------------------------------------------------
(* withFile(), append() and close() *)

\* Mutant: the content is read before the stamp is taken.
LoadFirst(p) ==
  /\ \/ /\ At(p, "leased") /\ Goto(p, "stamped")
        /\ known' = [known EXCEPT ![p] = stamp] /\ UNCHANGED expected
     \/ /\ At(p, "stamped") /\ Goto(p, "open")
        /\ expected' = [expected EXCEPT ![p] = stamp] /\ UNCHANGED known
  /\ slipped' = [slipped EXCEPT ![p] = 0]
  /\ UNCHANGED <<lock, reaper, alive, nonce, seen, stamp, acquires>>

\* The stamp is taken before the operation reads the file.
Load(p) ==
  /\ \/ /\ At(p, "leased") /\ Goto(p, "stamped")
        /\ expected' = [expected EXCEPT ![p] = stamp] /\ UNCHANGED known
     \/ /\ At(p, "stamped") /\ Goto(p, "open")
        /\ known' = [known EXCEPT ![p] = stamp] /\ UNCHANGED expected
  /\ slipped' = [slipped EXCEPT ![p] = 0]
  /\ UNCHANGED <<lock, reaper, alive, nonce, seen, stamp, acquires>>

\* SessionLease.assert: the lock still names this very lease.
Owns(p) == lock.owner # Unreadable /\ lock.owner.proc = p /\ lock.owner.nonce = nonce[p]

\* SessionStorage.assert; a refusal throws and leaves everything as it is.
AssertAppend(p) ==
  /\ At(p, "open")
  /\ Owns(p) /\ stamp = expected[p] /\ stamp < MaxWrites
  /\ Goto(p, "appending")
  /\ UNCHANGED <<lock, reaper, alive, nonce, seen, storageVars, acquires>>

\* What was written on known content is known; an outside write below it is not.
Wrote(p) ==
  /\ known' = [known EXCEPT ![p] = IF @ = stamp THEN stamp + 1 ELSE @]
  /\ slipped' = [slipped EXCEPT ![p] = IF @ = stamp THEN stamp + 1 ELSE @]

\* Written and synced, or undone after an error, or not even undone.
appendText(p) ==
  /\ At(p, "appending")
  /\ stamp' = stamp + 1
  /\ \/ Goto(p, "written") /\ Wrote(p)
     \/ "rollback" \in Faults /\ Goto(p, "poisoned") /\ UNCHANGED <<known, slipped>>
  /\ UNCHANGED <<lock, reaper, alive, nonce, seen, expected, acquires>>

\* The whole content from memory is renamed over the file, whatever is there; a
\* failure leaves it and the expected stamp alone.  (The first publication is an
\* exclusive link, which fails instead when the file has appeared.)
replace(p) ==
  /\ At(p, "appending")
  /\ \/ /\ Goto(p, "written") /\ stamp' = stamp + 1
        /\ known' = [known EXCEPT ![p] = stamp + 1] /\ slipped' = [slipped EXCEPT ![p] = 0]
     \/ "io" \in Faults /\ Goto(p, "open") /\ UNCHANGED <<stamp, known, slipped>>
  /\ UNCHANGED <<lock, reaper, alive, nonce, seen, expected, acquires>>

\* this.expected = stamp(file), a look of its own at the file.
Restamp(p) ==
  /\ At(p, "written")
  /\ expected' = [expected EXCEPT ![p] = stamp] /\ Goto(p, "open")
  /\ UNCHANGED <<lock, reaper, alive, nonce, seen, stamp, known, slipped, acquires>>

\* requireRecovery rewrites owner.json in place, so it is empty for a moment;
\* errors are swallowed, whatever they leave.
TruncateOwner(p) ==
  /\ At(p, "poisoned")
  /\ \/ lock.exists /\ lock' = Made(Unreadable) /\ Goto(p, "truncated")
     \/ (~lock.exists \/ "io" \in Faults) /\ Goto(p, "uncertain") /\ UNCHANGED lock
  /\ UNCHANGED <<reaper, nonce, seen>> /\ AcquireUnchanged

RequireRecovery(p) ==
  /\ At(p, "truncated")
  /\ \/ lock' = Made(Owner(p, nonce[p], TRUE))
     \/ "io" \in Faults /\ UNCHANGED lock
  /\ Goto(p, "uncertain")
  /\ UNCHANGED <<reaper, nonce, seen>> /\ AcquireUnchanged

\* release(): assert, then rm of owner.json and of the directory.  A poisoned
\* storage never gets here: its lock is kept.
Release(p) ==
  /\ At(p, "open") /\ Owns(p)
  /\ Goto(p, "releasing")
  /\ UNCHANGED <<lock, reaper, nonce, seen>> /\ AcquireUnchanged

RemoveOwner(p) ==
  /\ At(p, "releasing")
  /\ lock' = Made(Unreadable) /\ Goto(p, "emptied")
  /\ UNCHANGED <<reaper, nonce, seen>> /\ AcquireUnchanged

Rmdir(p) ==
  /\ At(p, "emptied")
  /\ lock' = Absent /\ Goto(p, "closed")
  /\ UNCHANGED <<reaper, nonce, seen>> /\ AcquireUnchanged

-----------------------------------------------------------------------------
(* The environment *)

\* The process dies without its exit handler: what it made stays, what it
\* had in memory is gone.
Die(p) ==
  /\ p \in alive
  /\ alive' = alive \ {p}
  /\ Goto(p, "closed")
  /\ nonce' = [nonce EXCEPT ![p] = 0]
  /\ seen' = [seen EXCEPT ![p] = Unreadable]
  /\ expected' = [expected EXCEPT ![p] = 0] /\ known' = [known EXCEPT ![p] = 0]
  /\ slipped' = [slipped EXCEPT ![p] = 0]
  /\ UNCHANGED <<lock, reaper, stamp, acquires>>

\* A program that takes no part in the lease writes the session file.
ExternalWrite ==
  /\ "external" \in Faults /\ stamp < MaxWrites
  /\ stamp' = stamp + 1
  /\ slipped' = [p \in Procs |->
                 IF At(p, "appending") \/ At(p, "written") THEN stamp + 1 ELSE slipped[p]]
  /\ UNCHANGED <<lock, reaper, alive, pc, nonce, seen, expected, known, acquires>>

Init ==
  /\ lock = Absent /\ reaper = NoProc /\ alive = Procs
  /\ pc = [p \in Procs |-> "closed"]
  /\ nonce = [p \in Procs |-> 0]
  /\ seen = [p \in Procs |-> Unreadable]
  /\ stamp = 0 /\ expected = [p \in Procs |-> 0] /\ known = [p \in Procs |-> 0]
  /\ slipped = [p \in Procs |-> 0]
  /\ acquires = 0

Step(p) ==
  \/ Mkdir(p) \/ ReadOwner(p) \/ CheckDead(p) \/ MkdirReaper(p) \/ Reread(p) \/ Retire(p)
  \/ MkdirAgain(p) \/ RemoveReaper(p) \/ Abandon(p) \/ WriteOwner(p)
  \/ Load(p) \/ AssertAppend(p) \/ appendText(p) \/ replace(p) \/ Restamp(p)
  \/ TruncateOwner(p) \/ RequireRecovery(p)
  \/ Release(p) \/ RemoveOwner(p) \/ Rmdir(p)

Next == (\E p \in Procs : Step(p) \/ Die(p)) \/ ExternalWrite

Spec == Init /\ [][Next]_vars

-----------------------------------------------------------------------------
(* Properties *)

Places == {"closed", "occupied", "read", "dead owner", "reaping", "reread", "retired", "remade",
           "abandon", "made", "leased", "stamped", "open", "appending", "written", "poisoned",
           "truncated", "uncertain", "releasing", "emptied"}

Owners == [proc : Procs, nonce : Nat \ {0}, recoveryRequired : BOOLEAN]

Locks == [exists : BOOLEAN, owner : Owners \cup {Unreadable}]

\* Every variable keeps its type.
TypeOK ==
  /\ lock \in Locks
  /\ reaper \in Procs \cup {NoProc}
  /\ alive \subseteq Procs
  /\ pc \in [Procs -> Places]
  /\ nonce \in [Procs -> Nat]
  /\ seen \in [Procs -> Owners \cup {Unreadable}]
  /\ stamp \in Nat /\ expected \in [Procs -> Nat] /\ known \in [Procs -> Nat]
  /\ slipped \in [Procs -> Nat]
  /\ acquires \in Nat

\* The process has made the lock directory, and not given it up.
HoldingPlaces == {"remade", "made", "leased", "stamped", "open", "appending", "written", "poisoned",
                  "truncated", "uncertain", "releasing", "emptied"}

Holds(p) == p \in alive /\ pc[p] \in HoldingPlaces

\* Two live processes never both hold the lease, whatever reaping, release
\* and acquisition do to each other's directories (lease.ts acquire, release).
MutualExclusion == \A p, q \in Procs : Holds(p) /\ Holds(q) => p = q

\* The lock of a live lease is not taken from it: assert() never finds
\* another owner (CONTEXT_LOCK_LOST) until the lease is released.
OwnPlaces == {"leased", "stamped", "open", "appending", "written", "poisoned", "releasing"}

LeaseIsKept ==
  \A p \in alive : pc[p] \in OwnPlaces => lock.exists /\ Owns(p)

(***************************************************************************)
(* The inductive strengthening: who has made the directory finds it there, *)
(* a readable live owner is a holder, the reaper's work is done by one     *)
(* process, and the owner it is about to retire is dead.                   *)
(***************************************************************************)
HoldersFindTheirLock ==
  \A p \in alive :
    /\ pc[p] \in {"remade", "made", "truncated", "emptied"} => lock = Made(Unreadable)
    /\ pc[p] = "uncertain" =>
         lock.exists /\ (lock.owner = Unreadable \/ lock.owner.proc = p)
    /\ pc[p] # "closed" => nonce[p] # 0

OwnersHold ==
  /\ ~lock.exists => lock.owner = Unreadable
  /\ lock.owner # Unreadable /\ lock.owner.proc \in alive => Holds(lock.owner.proc)

ReaperIsAlone ==
  \A p \in alive :
    /\ pc[p] \in {"reaping", "reread", "retired", "remade", "abandon"} => reaper = p
    /\ pc[p] = "reread" =>
         lock.exists /\ lock.owner # Unreadable /\ lock.owner.proc \notin alive

Inv ==
  /\ TypeOK /\ MutualExclusion /\ LeaseIsKept
  /\ HoldersFindTheirLock /\ OwnersHold /\ ReaperIsAlone

(***************************************************************************)
(* A write is admitted only on the content the process has in memory, also *)
(* where an outside write fell between taking the stamp and reading the    *)
(* file, between two writes, or another process held the lease meanwhile.  *)
(* What can be missed is exactly an outside write between a storage's own  *)
(* check and its look at the stamp afterwards (storage.ts 131 to 150, 171  *)
(* to 184), which that look takes for its own; any other is refused, also  *)
(* after one was missed.                                                   *)
(***************************************************************************)
AdmittedOnKnownContent ==
  [][\A p \in Procs : AssertAppend(p) => known[p] = stamp \/ slipped[p] = stamp]_vars

\* The tests: "external content changes are rejected" (context-memory.test.ts),
\* whenever they happen.  A change in that window is taken over unread.
OutsideWritesAreRejected ==
  [][\A p \in Procs : AssertAppend(p) => known[p] = stamp]_vars

\* architecture.md: "failed rollback poisons storage and preserves a recovery
\* marker": a lock that requires recovery is left to an inspection, nobody
\* takes it away (lease.ts requireRecovery: "Never release this lock").
RecoveryMarkerIsPreserved ==
  [][lock.owner # Unreadable /\ lock.owner.recoveryRequired => lock' = lock]_vars

=============================================================================
