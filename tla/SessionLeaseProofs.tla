------------------------- MODULE SessionLeaseProofs -------------------------
(***************************************************************************)
(* SessionLease: two live processes never both hold the lease, and nobody  *)
(* takes a live one's lock away, for any set of processes, any number of   *)
(* acquisitions and every fault of the model.                              *)
(***************************************************************************)
EXTENDS SessionLease, TLAPS

\* The initial state satisfies the inductive invariant.
LEMMA InitInv == Init => Inv
  BY LeaseAssumption
  DEF Init, Inv, TypeOK, MutualExclusion, LeaseIsKept, HoldersFindTheirLock, OwnersHold,
      ReaperIsAlone, Holds, HoldingPlaces, OwnPlaces, Absent, Unreadable, Places, NoProc, Locks, Owners

\* What the lock's constructors build.
LEMMA LockTypes ==
  /\ Absent \in Locks /\ ~Absent.exists /\ Absent.owner = Unreadable
  /\ \A o \in Owners \cup {Unreadable} : Made(o) \in Locks /\ Made(o).exists /\ Made(o).owner = o
  /\ \A p \in Procs, n \in Nat \ {0}, r \in BOOLEAN : Owner(p, n, r) \in Owners
  /\ Unreadable \notin Owners
  BY DEF Absent, Made, Owner, Unreadable, Locks, Owners

\* The invariant is kept, up to the reaper, by a step of a process that does not
\* hold the lock, neither before nor after it, and touches nothing of it.
LEMMA Elsewhere ==
  ASSUME Inv, NEW p \in Procs, NEW place, p \in alive, pc' = [pc EXCEPT ![p] = place],
         pc[p] \notin HoldingPlaces \cup {"closed"}, place \notin HoldingPlaces,
         lock' = lock, alive' = alive, nonce' = nonce
  PROVE  MutualExclusion' /\ LeaseIsKept' /\ HoldersFindTheirLock' /\ OwnersHold'
<1>1. \A q \in Procs : pc'[q] = IF q = p THEN place ELSE pc[q]
  BY DEF Inv, TypeOK
<1>2. \A q \in Procs : Holds(q)' <=> Holds(q)
  BY <1>1 DEF Holds
<1>3. \A q \in alive : q \in Procs /\ (q # p => pc'[q] = pc[q])
  BY <1>1 DEF Inv, TypeOK
<1>4. \A x \in OwnPlaces \cup {"remade", "made", "truncated", "emptied", "uncertain"} : x # place
  BY DEF OwnPlaces, HoldingPlaces
<1>5. MutualExclusion'
  BY <1>2 DEF Inv, MutualExclusion
<1>6. LeaseIsKept'
  <2> SUFFICES ASSUME NEW q \in alive', pc'[q] \in OwnPlaces PROVE lock'.exists /\ Owns(q)'
    BY DEF LeaseIsKept
  <2>1. q \in alive /\ pc[q] \in OwnPlaces
    BY <1>1, <1>3, <1>4
  <2>2. lock.exists /\ Owns(q)
    BY <2>1 DEF Inv, LeaseIsKept
  <2> QED BY <2>2 DEF Owns
<1>7. HoldersFindTheirLock'
  <2> SUFFICES ASSUME NEW q \in alive'
               PROVE  /\ pc'[q] \in {"remade", "made", "truncated", "emptied"} => lock' = Made(Unreadable)
                      /\ pc'[q] = "uncertain" => lock'.exists /\ (lock'.owner = Unreadable \/ lock'.owner.proc = q)
                      /\ pc'[q] # "closed" => nonce'[q] # 0
    BY DEF HoldersFindTheirLock
  <2>1. /\ pc[q] \in {"remade", "made", "truncated", "emptied"} => lock = Made(Unreadable)
        /\ pc[q] = "uncertain" => lock.exists /\ (lock.owner = Unreadable \/ lock.owner.proc = q)
        /\ pc[q] # "closed" => nonce[q] # 0
    BY DEF Inv, HoldersFindTheirLock
  <2>2. CASE q = p
    BY <1>1, <1>4, <2>1, <2>2
  <2>3. CASE q # p
    BY <1>3, <2>1, <2>3
  <2> QED BY <2>2, <2>3
<1>8. OwnersHold'
  <2>1. \A q \in alive : q \in Procs
    BY <1>3
  <2> QED BY <1>2, <2>1 DEF Inv, OwnersHold
<1> QED BY <1>5, <1>6, <1>7, <1>8

\* The invariant is kept: mkdir of the lock directory: an attempt on a taken one changes no holder.
LEMMA MkdirStep == ASSUME Inv, NEW p \in Procs, Mkdir(p) PROVE Inv'
<1> USE LeaseAssumption DEF Mkdir, At, Goto, AcquireUnchanged, storageVars
<1>1. TypeOK'
  <2>1. lock' \in Locks  BY LockTypes DEF Inv, TypeOK, HoldersFindTheirLock
  <2>2. seen' \in [Procs -> Owners \cup {Unreadable}]  BY DEF Inv, TypeOK, Locks
  <2>3. pc' \in [Procs -> Places]  BY DEF Inv, TypeOK, Places
  <2>4. nonce' \in [Procs -> Nat] /\ acquires' \in Nat  BY DEF Inv, TypeOK
  <2>5. stamp' \in Nat /\ expected' \in [Procs -> Nat] /\ known' \in [Procs -> Nat]
        /\ slipped' \in [Procs -> Nat]
    BY DEF Inv, TypeOK
  <2>6. reaper' \in Procs \cup {NoProc} /\ alive' \subseteq Procs  BY DEF Inv, TypeOK
  <2> QED BY <2>1, <2>2, <2>3, <2>4, <2>5, <2>6 DEF TypeOK
<1> USE DEF Absent, Made, Unreadable, Owner, Owns, isDead, HoldingPlaces, OwnPlaces, Locks, Owners, Holds
<1>2. MutualExclusion'
  BY DEF Inv, TypeOK, MutualExclusion, LeaseIsKept, HoldersFindTheirLock, ReaperIsAlone
<1>3. LeaseIsKept'
  BY DEF Inv, TypeOK, MutualExclusion, LeaseIsKept, HoldersFindTheirLock, ReaperIsAlone
<1>4. HoldersFindTheirLock'
  BY DEF Inv, TypeOK, MutualExclusion, LeaseIsKept, HoldersFindTheirLock, ReaperIsAlone
<1>5. OwnersHold'
  BY DEF Inv, TypeOK, LeaseIsKept, HoldersFindTheirLock, OwnersHold
<1>6. ReaperIsAlone'
  BY DEF Inv, TypeOK, LeaseIsKept, HoldersFindTheirLock, OwnersHold, ReaperIsAlone
<1> QED BY <1>1, <1>2, <1>3, <1>4, <1>5, <1>6 DEF Inv

\* The invariant is kept: reading owner.json changes no file.
LEMMA ReadOwnerStep == ASSUME Inv, NEW p \in Procs, ReadOwner(p) PROVE Inv'
<1> USE LeaseAssumption DEF ReadOwner, At, Goto, AcquireUnchanged, storageVars
<1>1. TypeOK'
  <2>1. lock' \in Locks  BY LockTypes DEF Inv, TypeOK, HoldersFindTheirLock
  <2>2. seen' \in [Procs -> Owners \cup {Unreadable}]  BY DEF Inv, TypeOK, Locks
  <2>3. pc' \in [Procs -> Places]  BY DEF Inv, TypeOK, Places
  <2>4. nonce' \in [Procs -> Nat] /\ acquires' \in Nat  BY DEF Inv, TypeOK
  <2>5. stamp' \in Nat /\ expected' \in [Procs -> Nat] /\ known' \in [Procs -> Nat]
        /\ slipped' \in [Procs -> Nat]
    BY DEF Inv, TypeOK
  <2>6. reaper' \in Procs \cup {NoProc} /\ alive' \subseteq Procs  BY DEF Inv, TypeOK
  <2> QED BY <2>1, <2>2, <2>3, <2>4, <2>5, <2>6 DEF TypeOK
<1>2. MutualExclusion' /\ LeaseIsKept' /\ HoldersFindTheirLock' /\ OwnersHold'
  <2>1. pc[p] \notin HoldingPlaces \cup {"closed"}
    BY DEF HoldingPlaces
  <2>2. \E place : place \notin HoldingPlaces /\ pc' = [pc EXCEPT ![p] = place]
    BY DEF HoldingPlaces
  <2> QED BY <2>1, <2>2, Elsewhere
<1>3. ReaperIsAlone'
  BY DEF Inv, TypeOK, ReaperIsAlone
<1> QED BY <1>1, <1>2, <1>3 DEF Inv

\* The invariant is kept: looking whether the owner is dead changes no file.
LEMMA CheckDeadStep == ASSUME Inv, NEW p \in Procs, CheckDead(p) PROVE Inv'
<1> USE LeaseAssumption DEF CheckDead, At, Goto, AcquireUnchanged, storageVars
<1>1. TypeOK'
  <2>1. lock' \in Locks  BY LockTypes DEF Inv, TypeOK, HoldersFindTheirLock
  <2>2. seen' \in [Procs -> Owners \cup {Unreadable}]  BY DEF Inv, TypeOK, Locks
  <2>3. pc' \in [Procs -> Places]  BY DEF Inv, TypeOK, Places
  <2>4. nonce' \in [Procs -> Nat] /\ acquires' \in Nat  BY DEF Inv, TypeOK
  <2>5. stamp' \in Nat /\ expected' \in [Procs -> Nat] /\ known' \in [Procs -> Nat]
        /\ slipped' \in [Procs -> Nat]
    BY DEF Inv, TypeOK
  <2>6. reaper' \in Procs \cup {NoProc} /\ alive' \subseteq Procs  BY DEF Inv, TypeOK
  <2> QED BY <2>1, <2>2, <2>3, <2>4, <2>5, <2>6 DEF TypeOK
<1>2. MutualExclusion' /\ LeaseIsKept' /\ HoldersFindTheirLock' /\ OwnersHold'
  <2>1. pc[p] \notin HoldingPlaces \cup {"closed"}
    BY DEF HoldingPlaces
  <2>2. \E place : place \notin HoldingPlaces /\ pc' = [pc EXCEPT ![p] = place]
    BY DEF HoldingPlaces
  <2> QED BY <2>1, <2>2, Elsewhere
<1>3. ReaperIsAlone'
  BY DEF Inv, TypeOK, ReaperIsAlone
<1> QED BY <1>1, <1>2, <1>3 DEF Inv

\* The invariant is kept: only one process gets the reaper directory.
LEMMA MkdirReaperStep == ASSUME Inv, NEW p \in Procs, MkdirReaper(p) PROVE Inv'
<1> USE LeaseAssumption DEF MkdirReaper, At, Goto, AcquireUnchanged, storageVars
<1>1. TypeOK'
  <2>1. lock' \in Locks  BY LockTypes DEF Inv, TypeOK, HoldersFindTheirLock
  <2>2. seen' \in [Procs -> Owners \cup {Unreadable}]  BY DEF Inv, TypeOK, Locks
  <2>3. pc' \in [Procs -> Places]  BY DEF Inv, TypeOK, Places
  <2>4. nonce' \in [Procs -> Nat] /\ acquires' \in Nat  BY DEF Inv, TypeOK
  <2>5. stamp' \in Nat /\ expected' \in [Procs -> Nat] /\ known' \in [Procs -> Nat]
        /\ slipped' \in [Procs -> Nat]
    BY DEF Inv, TypeOK
  <2>6. reaper' \in Procs \cup {NoProc} /\ alive' \subseteq Procs  BY DEF Inv, TypeOK
  <2> QED BY <2>1, <2>2, <2>3, <2>4, <2>5, <2>6 DEF TypeOK
<1>2. MutualExclusion' /\ LeaseIsKept' /\ HoldersFindTheirLock' /\ OwnersHold'
  <2>1. pc[p] \notin HoldingPlaces \cup {"closed"}
    BY DEF HoldingPlaces
  <2>2. \E place : place \notin HoldingPlaces /\ pc' = [pc EXCEPT ![p] = place]
    BY DEF HoldingPlaces
  <2> QED BY <2>1, <2>2, Elsewhere
<1>3. ReaperIsAlone'
  <2>1. \A q \in alive : q \in Procs /\ q # NoProc
    BY DEF Inv, TypeOK
  <2> QED BY <2>1 DEF Inv, TypeOK, ReaperIsAlone
<1> QED BY <1>1, <1>2, <1>3 DEF Inv

\* The invariant is kept: what the reaper reads again is the dead owner's lock, and stays it.
LEMMA RereadStep == ASSUME Inv, NEW p \in Procs, Reread(p) PROVE Inv'
<1> USE LeaseAssumption DEF Reread, At, Goto, AcquireUnchanged, storageVars
<1>1. TypeOK'
  <2>1. lock' \in Locks  BY LockTypes DEF Inv, TypeOK, HoldersFindTheirLock
  <2>2. seen' \in [Procs -> Owners \cup {Unreadable}]  BY DEF Inv, TypeOK, Locks
  <2>3. pc' \in [Procs -> Places]  BY DEF Inv, TypeOK, Places
  <2>4. nonce' \in [Procs -> Nat] /\ acquires' \in Nat  BY DEF Inv, TypeOK
  <2>5. stamp' \in Nat /\ expected' \in [Procs -> Nat] /\ known' \in [Procs -> Nat]
        /\ slipped' \in [Procs -> Nat]
    BY DEF Inv, TypeOK
  <2>6. reaper' \in Procs \cup {NoProc} /\ alive' \subseteq Procs  BY DEF Inv, TypeOK
  <2> QED BY <2>1, <2>2, <2>3, <2>4, <2>5, <2>6 DEF TypeOK
<1>2. MutualExclusion' /\ LeaseIsKept' /\ HoldersFindTheirLock' /\ OwnersHold'
  <2>1. pc[p] \notin HoldingPlaces \cup {"closed"}
    BY DEF HoldingPlaces
  <2>2. \E place : place \notin HoldingPlaces /\ pc' = [pc EXCEPT ![p] = place]
    BY DEF HoldingPlaces
  <2> QED BY <2>1, <2>2, Elsewhere
<1>3. ReaperIsAlone'
  <2>1. lock.owner # Unreadable => lock.exists
    BY DEF Inv, OwnersHold
  <2> QED BY <2>1 DEF Inv, TypeOK, ReaperIsAlone, isDead
<1> QED BY <1>1, <1>2, <1>3 DEF Inv

\* The invariant is kept: the retired lock had no live holder.
LEMMA RetireStep == ASSUME Inv, NEW p \in Procs, Retire(p) PROVE Inv'
<1> USE LeaseAssumption DEF Retire, At, Goto, AcquireUnchanged, storageVars
<1>1. TypeOK'
  <2>1. lock' \in Locks  BY LockTypes DEF Inv, TypeOK, HoldersFindTheirLock
  <2>2. seen' \in [Procs -> Owners \cup {Unreadable}]  BY DEF Inv, TypeOK, Locks
  <2>3. pc' \in [Procs -> Places]  BY DEF Inv, TypeOK, Places
  <2>4. nonce' \in [Procs -> Nat] /\ acquires' \in Nat  BY DEF Inv, TypeOK
  <2>5. stamp' \in Nat /\ expected' \in [Procs -> Nat] /\ known' \in [Procs -> Nat]
        /\ slipped' \in [Procs -> Nat]
    BY DEF Inv, TypeOK
  <2>6. reaper' \in Procs \cup {NoProc} /\ alive' \subseteq Procs  BY DEF Inv, TypeOK
  <2> QED BY <2>1, <2>2, <2>3, <2>4, <2>5, <2>6 DEF TypeOK
<1> USE DEF Absent, Made, Unreadable, Owner, Owns, isDead, HoldingPlaces, OwnPlaces, Locks, Owners, Holds
<1>2. MutualExclusion'
  BY DEF Inv, TypeOK, MutualExclusion, LeaseIsKept, HoldersFindTheirLock, ReaperIsAlone
<1>3. LeaseIsKept'
  BY DEF Inv, TypeOK, MutualExclusion, LeaseIsKept, HoldersFindTheirLock, ReaperIsAlone
<1>4. HoldersFindTheirLock'
  BY DEF Inv, TypeOK, MutualExclusion, LeaseIsKept, HoldersFindTheirLock, ReaperIsAlone
<1>5. OwnersHold'
  BY DEF Inv, TypeOK, LeaseIsKept, HoldersFindTheirLock, OwnersHold
<1>6. ReaperIsAlone'
  BY DEF Inv, TypeOK, LeaseIsKept, HoldersFindTheirLock, OwnersHold, ReaperIsAlone
<1> QED BY <1>1, <1>2, <1>3, <1>4, <1>5, <1>6 DEF Inv

\* The invariant is kept: the reaper takes the lock only if nobody made it meanwhile.
LEMMA MkdirAgainStep == ASSUME Inv, NEW p \in Procs, MkdirAgain(p) PROVE Inv'
<1> USE LeaseAssumption DEF MkdirAgain, At, Goto, AcquireUnchanged, storageVars
<1>1. TypeOK'
  <2>1. lock' \in Locks  BY LockTypes DEF Inv, TypeOK, HoldersFindTheirLock
  <2>2. seen' \in [Procs -> Owners \cup {Unreadable}]  BY DEF Inv, TypeOK, Locks
  <2>3. pc' \in [Procs -> Places]  BY DEF Inv, TypeOK, Places
  <2>4. nonce' \in [Procs -> Nat] /\ acquires' \in Nat  BY DEF Inv, TypeOK
  <2>5. stamp' \in Nat /\ expected' \in [Procs -> Nat] /\ known' \in [Procs -> Nat]
        /\ slipped' \in [Procs -> Nat]
    BY DEF Inv, TypeOK
  <2>6. reaper' \in Procs \cup {NoProc} /\ alive' \subseteq Procs  BY DEF Inv, TypeOK
  <2> QED BY <2>1, <2>2, <2>3, <2>4, <2>5, <2>6 DEF TypeOK
<1> USE DEF Absent, Made, Unreadable, Owner, Owns, isDead, HoldingPlaces, OwnPlaces, Locks, Owners, Holds
<1>2. MutualExclusion'
  BY DEF Inv, TypeOK, MutualExclusion, LeaseIsKept, HoldersFindTheirLock, ReaperIsAlone
<1>3. LeaseIsKept'
  BY DEF Inv, TypeOK, MutualExclusion, LeaseIsKept, HoldersFindTheirLock, ReaperIsAlone
<1>4. HoldersFindTheirLock'
  BY DEF Inv, TypeOK, MutualExclusion, LeaseIsKept, HoldersFindTheirLock, ReaperIsAlone
<1>5. OwnersHold'
  BY DEF Inv, TypeOK, LeaseIsKept, HoldersFindTheirLock, OwnersHold
<1>6. ReaperIsAlone'
  BY DEF Inv, TypeOK, LeaseIsKept, HoldersFindTheirLock, OwnersHold, ReaperIsAlone
<1> QED BY <1>1, <1>2, <1>3, <1>4, <1>5, <1>6 DEF Inv

\* The invariant is kept: the reaper goes away after the lock is made again.
LEMMA RemoveReaperStep == ASSUME Inv, NEW p \in Procs, RemoveReaper(p) PROVE Inv'
<1> USE LeaseAssumption DEF RemoveReaper, At, Goto, AcquireUnchanged, storageVars
<1>1. TypeOK'
  <2>1. lock' \in Locks  BY LockTypes DEF Inv, TypeOK, HoldersFindTheirLock
  <2>2. seen' \in [Procs -> Owners \cup {Unreadable}]  BY DEF Inv, TypeOK, Locks
  <2>3. pc' \in [Procs -> Places]  BY DEF Inv, TypeOK, Places
  <2>4. nonce' \in [Procs -> Nat] /\ acquires' \in Nat  BY DEF Inv, TypeOK
  <2>5. stamp' \in Nat /\ expected' \in [Procs -> Nat] /\ known' \in [Procs -> Nat]
        /\ slipped' \in [Procs -> Nat]
    BY DEF Inv, TypeOK
  <2>6. reaper' \in Procs \cup {NoProc} /\ alive' \subseteq Procs  BY DEF Inv, TypeOK
  <2> QED BY <2>1, <2>2, <2>3, <2>4, <2>5, <2>6 DEF TypeOK
<1> USE DEF Absent, Made, Unreadable, Owner, Owns, isDead, HoldingPlaces, OwnPlaces, Locks, Owners, Holds
<1>2. MutualExclusion'
  BY DEF Inv, TypeOK, MutualExclusion, LeaseIsKept, HoldersFindTheirLock, ReaperIsAlone
<1>3. LeaseIsKept'
  BY DEF Inv, TypeOK, MutualExclusion, LeaseIsKept, HoldersFindTheirLock, ReaperIsAlone
<1>4. HoldersFindTheirLock'
  BY DEF Inv, TypeOK, MutualExclusion, LeaseIsKept, HoldersFindTheirLock, ReaperIsAlone
<1>5. OwnersHold'
  BY DEF Inv, TypeOK, LeaseIsKept, HoldersFindTheirLock, OwnersHold
<1>6. ReaperIsAlone'
  BY DEF Inv, TypeOK, LeaseIsKept, HoldersFindTheirLock, OwnersHold, ReaperIsAlone
<1> QED BY <1>1, <1>2, <1>3, <1>4, <1>5, <1>6 DEF Inv

\* The invariant is kept: an abandoned reaping leaves the lock as it is.
LEMMA AbandonStep == ASSUME Inv, NEW p \in Procs, Abandon(p) PROVE Inv'
<1> USE LeaseAssumption DEF Abandon, At, Goto, AcquireUnchanged, storageVars
<1>1. TypeOK'
  <2>1. lock' \in Locks  BY LockTypes DEF Inv, TypeOK, HoldersFindTheirLock
  <2>2. seen' \in [Procs -> Owners \cup {Unreadable}]  BY DEF Inv, TypeOK, Locks
  <2>3. pc' \in [Procs -> Places]  BY DEF Inv, TypeOK, Places
  <2>4. nonce' \in [Procs -> Nat] /\ acquires' \in Nat  BY DEF Inv, TypeOK
  <2>5. stamp' \in Nat /\ expected' \in [Procs -> Nat] /\ known' \in [Procs -> Nat]
        /\ slipped' \in [Procs -> Nat]
    BY DEF Inv, TypeOK
  <2>6. reaper' \in Procs \cup {NoProc} /\ alive' \subseteq Procs  BY DEF Inv, TypeOK
  <2> QED BY <2>1, <2>2, <2>3, <2>4, <2>5, <2>6 DEF TypeOK
<1> USE DEF Absent, Made, Unreadable, Owner, Owns, isDead, HoldingPlaces, OwnPlaces, Locks, Owners, Holds
<1>2. MutualExclusion'
  BY DEF Inv, TypeOK, MutualExclusion, LeaseIsKept, HoldersFindTheirLock, ReaperIsAlone
<1>3. LeaseIsKept'
  BY DEF Inv, TypeOK, MutualExclusion, LeaseIsKept, HoldersFindTheirLock, ReaperIsAlone
<1>4. HoldersFindTheirLock'
  BY DEF Inv, TypeOK, MutualExclusion, LeaseIsKept, HoldersFindTheirLock, ReaperIsAlone
<1>5. OwnersHold'
  BY DEF Inv, TypeOK, LeaseIsKept, HoldersFindTheirLock, OwnersHold
<1>6. ReaperIsAlone'
  BY DEF Inv, TypeOK, LeaseIsKept, HoldersFindTheirLock, OwnersHold, ReaperIsAlone
<1> QED BY <1>1, <1>2, <1>3, <1>4, <1>5, <1>6 DEF Inv

\* The invariant is kept: owner.json is written by the process that made the directory.
LEMMA WriteOwnerStep == ASSUME Inv, NEW p \in Procs, WriteOwner(p) PROVE Inv'
<1> USE LeaseAssumption DEF WriteOwner, At, Goto, AcquireUnchanged, storageVars
<1>1. TypeOK'
  <2>1. lock' \in Locks  BY LockTypes DEF Inv, TypeOK, HoldersFindTheirLock
  <2>2. seen' \in [Procs -> Owners \cup {Unreadable}]  BY DEF Inv, TypeOK, Locks
  <2>3. pc' \in [Procs -> Places]  BY DEF Inv, TypeOK, Places
  <2>4. nonce' \in [Procs -> Nat] /\ acquires' \in Nat  BY DEF Inv, TypeOK
  <2>5. stamp' \in Nat /\ expected' \in [Procs -> Nat] /\ known' \in [Procs -> Nat]
        /\ slipped' \in [Procs -> Nat]
    BY DEF Inv, TypeOK
  <2>6. reaper' \in Procs \cup {NoProc} /\ alive' \subseteq Procs  BY DEF Inv, TypeOK
  <2> QED BY <2>1, <2>2, <2>3, <2>4, <2>5, <2>6 DEF TypeOK
<1> USE DEF Absent, Made, Unreadable, Owner, Owns, isDead, HoldingPlaces, OwnPlaces, Locks, Owners, Holds
<1>2. MutualExclusion'
  BY DEF Inv, TypeOK, MutualExclusion, LeaseIsKept, HoldersFindTheirLock, ReaperIsAlone
<1>3. LeaseIsKept'
  BY DEF Inv, TypeOK, MutualExclusion, LeaseIsKept, HoldersFindTheirLock, ReaperIsAlone
<1>4. HoldersFindTheirLock'
  BY DEF Inv, TypeOK, MutualExclusion, LeaseIsKept, HoldersFindTheirLock, ReaperIsAlone
<1>5. OwnersHold'
  BY DEF Inv, TypeOK, LeaseIsKept, HoldersFindTheirLock, OwnersHold
<1>6. ReaperIsAlone'
  BY DEF Inv, TypeOK, LeaseIsKept, HoldersFindTheirLock, OwnersHold, ReaperIsAlone
<1> QED BY <1>1, <1>2, <1>3, <1>4, <1>5, <1>6 DEF Inv

\* The invariant is kept: opening the file under the lease changes no lock.
LEMMA LoadStep == ASSUME Inv, NEW p \in Procs, Load(p) PROVE Inv'
<1> USE LeaseAssumption DEF Load, At, Goto, AcquireUnchanged, storageVars
<1>1. TypeOK'
  <2>1. lock' \in Locks  BY LockTypes DEF Inv, TypeOK, HoldersFindTheirLock
  <2>2. seen' \in [Procs -> Owners \cup {Unreadable}]  BY DEF Inv, TypeOK, Locks
  <2>3. pc' \in [Procs -> Places]  BY DEF Inv, TypeOK, Places
  <2>4. nonce' \in [Procs -> Nat] /\ acquires' \in Nat  BY DEF Inv, TypeOK
  <2>5. stamp' \in Nat /\ expected' \in [Procs -> Nat] /\ known' \in [Procs -> Nat]
        /\ slipped' \in [Procs -> Nat]
    BY DEF Inv, TypeOK
  <2>6. reaper' \in Procs \cup {NoProc} /\ alive' \subseteq Procs  BY DEF Inv, TypeOK
  <2> QED BY <2>1, <2>2, <2>3, <2>4, <2>5, <2>6 DEF TypeOK
<1> USE DEF Absent, Made, Unreadable, Owner, Owns, isDead, HoldingPlaces, OwnPlaces, Locks, Owners, Holds
<1>2. MutualExclusion'
  BY DEF Inv, TypeOK, MutualExclusion, LeaseIsKept, HoldersFindTheirLock, ReaperIsAlone
<1>3. LeaseIsKept'
  BY DEF Inv, TypeOK, MutualExclusion, LeaseIsKept, HoldersFindTheirLock, ReaperIsAlone
<1>4. HoldersFindTheirLock'
  BY DEF Inv, TypeOK, MutualExclusion, LeaseIsKept, HoldersFindTheirLock, ReaperIsAlone
<1>5. OwnersHold'
  BY DEF Inv, TypeOK, LeaseIsKept, HoldersFindTheirLock, OwnersHold
<1>6. ReaperIsAlone'
  BY DEF Inv, TypeOK, LeaseIsKept, HoldersFindTheirLock, OwnersHold, ReaperIsAlone
<1> QED BY <1>1, <1>2, <1>3, <1>4, <1>5, <1>6 DEF Inv

\* The invariant is kept: the storage's check changes nothing but the control state.
LEMMA AssertAppendStep == ASSUME Inv, NEW p \in Procs, AssertAppend(p) PROVE Inv'
<1> USE LeaseAssumption DEF AssertAppend, At, Goto, AcquireUnchanged, storageVars
<1>1. TypeOK'
  <2>1. lock' \in Locks  BY LockTypes DEF Inv, TypeOK, HoldersFindTheirLock
  <2>2. seen' \in [Procs -> Owners \cup {Unreadable}]  BY DEF Inv, TypeOK, Locks
  <2>3. pc' \in [Procs -> Places]  BY DEF Inv, TypeOK, Places
  <2>4. nonce' \in [Procs -> Nat] /\ acquires' \in Nat  BY DEF Inv, TypeOK
  <2>5. stamp' \in Nat /\ expected' \in [Procs -> Nat] /\ known' \in [Procs -> Nat]
        /\ slipped' \in [Procs -> Nat]
    BY DEF Inv, TypeOK
  <2>6. reaper' \in Procs \cup {NoProc} /\ alive' \subseteq Procs  BY DEF Inv, TypeOK
  <2> QED BY <2>1, <2>2, <2>3, <2>4, <2>5, <2>6 DEF TypeOK
<1> USE DEF Absent, Made, Unreadable, Owner, Owns, isDead, HoldingPlaces, OwnPlaces, Locks, Owners, Holds
<1>2. MutualExclusion'
  BY DEF Inv, TypeOK, MutualExclusion, LeaseIsKept, HoldersFindTheirLock, ReaperIsAlone
<1>3. LeaseIsKept'
  BY DEF Inv, TypeOK, MutualExclusion, LeaseIsKept, HoldersFindTheirLock, ReaperIsAlone
<1>4. HoldersFindTheirLock'
  BY DEF Inv, TypeOK, MutualExclusion, LeaseIsKept, HoldersFindTheirLock, ReaperIsAlone
<1>5. OwnersHold'
  BY DEF Inv, TypeOK, LeaseIsKept, HoldersFindTheirLock, OwnersHold
<1>6. ReaperIsAlone'
  BY DEF Inv, TypeOK, LeaseIsKept, HoldersFindTheirLock, OwnersHold, ReaperIsAlone
<1> QED BY <1>1, <1>2, <1>3, <1>4, <1>5, <1>6 DEF Inv

\* The invariant is kept: an append, undone or not, leaves the lock as it is.
LEMMA appendTextStep == ASSUME Inv, NEW p \in Procs, appendText(p) PROVE Inv'
<1> USE LeaseAssumption DEF appendText, Wrote, At, Goto, AcquireUnchanged, storageVars
<1>1. TypeOK'
  <2>1. lock' \in Locks  BY LockTypes DEF Inv, TypeOK, HoldersFindTheirLock
  <2>2. seen' \in [Procs -> Owners \cup {Unreadable}]  BY DEF Inv, TypeOK, Locks
  <2>3. pc' \in [Procs -> Places]  BY DEF Inv, TypeOK, Places
  <2>4. nonce' \in [Procs -> Nat] /\ acquires' \in Nat  BY DEF Inv, TypeOK
  <2>5. stamp' \in Nat /\ expected' \in [Procs -> Nat] /\ known' \in [Procs -> Nat]
        /\ slipped' \in [Procs -> Nat]
    BY DEF Inv, TypeOK
  <2>6. reaper' \in Procs \cup {NoProc} /\ alive' \subseteq Procs  BY DEF Inv, TypeOK
  <2> QED BY <2>1, <2>2, <2>3, <2>4, <2>5, <2>6 DEF TypeOK
<1> USE DEF Absent, Made, Unreadable, Owner, Owns, isDead, HoldingPlaces, OwnPlaces, Locks, Owners, Holds
<1>2. MutualExclusion'
  BY DEF Inv, TypeOK, MutualExclusion, LeaseIsKept, HoldersFindTheirLock, ReaperIsAlone
<1>3. LeaseIsKept'
  BY DEF Inv, TypeOK, MutualExclusion, LeaseIsKept, HoldersFindTheirLock, ReaperIsAlone
<1>4. HoldersFindTheirLock'
  BY DEF Inv, TypeOK, MutualExclusion, LeaseIsKept, HoldersFindTheirLock, ReaperIsAlone
<1>5. OwnersHold'
  BY DEF Inv, TypeOK, LeaseIsKept, HoldersFindTheirLock, OwnersHold
<1>6. ReaperIsAlone'
  BY DEF Inv, TypeOK, LeaseIsKept, HoldersFindTheirLock, OwnersHold, ReaperIsAlone
<1> QED BY <1>1, <1>2, <1>3, <1>4, <1>5, <1>6 DEF Inv

\* The invariant is kept: a replaced session file leaves the lock as it is.
LEMMA replaceStep == ASSUME Inv, NEW p \in Procs, replace(p) PROVE Inv'
<1> USE LeaseAssumption DEF replace, At, Goto, AcquireUnchanged, storageVars
<1>1. TypeOK'
  <2>1. lock' \in Locks  BY LockTypes DEF Inv, TypeOK, HoldersFindTheirLock
  <2>2. seen' \in [Procs -> Owners \cup {Unreadable}]  BY DEF Inv, TypeOK, Locks
  <2>3. pc' \in [Procs -> Places]  BY DEF Inv, TypeOK, Places
  <2>4. nonce' \in [Procs -> Nat] /\ acquires' \in Nat  BY DEF Inv, TypeOK
  <2>5. stamp' \in Nat /\ expected' \in [Procs -> Nat] /\ known' \in [Procs -> Nat]
        /\ slipped' \in [Procs -> Nat]
    BY DEF Inv, TypeOK
  <2>6. reaper' \in Procs \cup {NoProc} /\ alive' \subseteq Procs  BY DEF Inv, TypeOK
  <2> QED BY <2>1, <2>2, <2>3, <2>4, <2>5, <2>6 DEF TypeOK
<1> USE DEF Absent, Made, Unreadable, Owner, Owns, isDead, HoldingPlaces, OwnPlaces, Locks, Owners, Holds
<1>2. MutualExclusion'
  BY DEF Inv, TypeOK, MutualExclusion, LeaseIsKept, HoldersFindTheirLock, ReaperIsAlone
<1>3. LeaseIsKept'
  BY DEF Inv, TypeOK, MutualExclusion, LeaseIsKept, HoldersFindTheirLock, ReaperIsAlone
<1>4. HoldersFindTheirLock'
  BY DEF Inv, TypeOK, MutualExclusion, LeaseIsKept, HoldersFindTheirLock, ReaperIsAlone
<1>5. OwnersHold'
  BY DEF Inv, TypeOK, LeaseIsKept, HoldersFindTheirLock, OwnersHold
<1>6. ReaperIsAlone'
  BY DEF Inv, TypeOK, LeaseIsKept, HoldersFindTheirLock, OwnersHold, ReaperIsAlone
<1> QED BY <1>1, <1>2, <1>3, <1>4, <1>5, <1>6 DEF Inv

\* The invariant is kept: a look at the stamp changes no lock.
LEMMA RestampStep == ASSUME Inv, NEW p \in Procs, Restamp(p) PROVE Inv'
<1> USE LeaseAssumption DEF Restamp, At, Goto, AcquireUnchanged, storageVars
<1>1. TypeOK'
  <2>1. lock' \in Locks  BY LockTypes DEF Inv, TypeOK, HoldersFindTheirLock
  <2>2. seen' \in [Procs -> Owners \cup {Unreadable}]  BY DEF Inv, TypeOK, Locks
  <2>3. pc' \in [Procs -> Places]  BY DEF Inv, TypeOK, Places
  <2>4. nonce' \in [Procs -> Nat] /\ acquires' \in Nat  BY DEF Inv, TypeOK
  <2>5. stamp' \in Nat /\ expected' \in [Procs -> Nat] /\ known' \in [Procs -> Nat]
        /\ slipped' \in [Procs -> Nat]
    BY DEF Inv, TypeOK
  <2>6. reaper' \in Procs \cup {NoProc} /\ alive' \subseteq Procs  BY DEF Inv, TypeOK
  <2> QED BY <2>1, <2>2, <2>3, <2>4, <2>5, <2>6 DEF TypeOK
<1> USE DEF Absent, Made, Unreadable, Owner, Owns, isDead, HoldingPlaces, OwnPlaces, Locks, Owners, Holds
<1>2. MutualExclusion'
  BY DEF Inv, TypeOK, MutualExclusion, LeaseIsKept, HoldersFindTheirLock, ReaperIsAlone
<1>3. LeaseIsKept'
  BY DEF Inv, TypeOK, MutualExclusion, LeaseIsKept, HoldersFindTheirLock, ReaperIsAlone
<1>4. HoldersFindTheirLock'
  BY DEF Inv, TypeOK, MutualExclusion, LeaseIsKept, HoldersFindTheirLock, ReaperIsAlone
<1>5. OwnersHold'
  BY DEF Inv, TypeOK, LeaseIsKept, HoldersFindTheirLock, OwnersHold
<1>6. ReaperIsAlone'
  BY DEF Inv, TypeOK, LeaseIsKept, HoldersFindTheirLock, OwnersHold, ReaperIsAlone
<1> QED BY <1>1, <1>2, <1>3, <1>4, <1>5, <1>6 DEF Inv

\* The invariant is kept: a poisoned storage empties its own owner.json.
LEMMA TruncateOwnerStep == ASSUME Inv, NEW p \in Procs, TruncateOwner(p) PROVE Inv'
<1> USE LeaseAssumption DEF TruncateOwner, At, Goto, AcquireUnchanged, storageVars
<1>1. TypeOK'
  <2>1. lock' \in Locks  BY LockTypes DEF Inv, TypeOK, HoldersFindTheirLock
  <2>2. seen' \in [Procs -> Owners \cup {Unreadable}]  BY DEF Inv, TypeOK, Locks
  <2>3. pc' \in [Procs -> Places]  BY DEF Inv, TypeOK, Places
  <2>4. nonce' \in [Procs -> Nat] /\ acquires' \in Nat  BY DEF Inv, TypeOK
  <2>5. stamp' \in Nat /\ expected' \in [Procs -> Nat] /\ known' \in [Procs -> Nat]
        /\ slipped' \in [Procs -> Nat]
    BY DEF Inv, TypeOK
  <2>6. reaper' \in Procs \cup {NoProc} /\ alive' \subseteq Procs  BY DEF Inv, TypeOK
  <2> QED BY <2>1, <2>2, <2>3, <2>4, <2>5, <2>6 DEF TypeOK
<1> USE DEF Absent, Made, Unreadable, Owner, Owns, isDead, HoldingPlaces, OwnPlaces, Locks, Owners, Holds
<1>2. MutualExclusion'
  BY DEF Inv, TypeOK, MutualExclusion, LeaseIsKept, HoldersFindTheirLock, ReaperIsAlone
<1>3. LeaseIsKept'
  BY DEF Inv, TypeOK, MutualExclusion, LeaseIsKept, HoldersFindTheirLock, ReaperIsAlone
<1>4. HoldersFindTheirLock'
  BY DEF Inv, TypeOK, MutualExclusion, LeaseIsKept, HoldersFindTheirLock, ReaperIsAlone
<1>5. OwnersHold'
  BY DEF Inv, TypeOK, LeaseIsKept, HoldersFindTheirLock, OwnersHold
<1>6. ReaperIsAlone'
  BY DEF Inv, TypeOK, LeaseIsKept, HoldersFindTheirLock, OwnersHold, ReaperIsAlone
<1> QED BY <1>1, <1>2, <1>3, <1>4, <1>5, <1>6 DEF Inv

\* The invariant is kept: a poisoned storage rewrites its own owner.json.
LEMMA RequireRecoveryStep == ASSUME Inv, NEW p \in Procs, RequireRecovery(p) PROVE Inv'
<1> USE LeaseAssumption DEF RequireRecovery, At, Goto, AcquireUnchanged, storageVars
<1>1. TypeOK'
  <2>1. lock' \in Locks  BY LockTypes DEF Inv, TypeOK, HoldersFindTheirLock
  <2>2. seen' \in [Procs -> Owners \cup {Unreadable}]  BY DEF Inv, TypeOK, Locks
  <2>3. pc' \in [Procs -> Places]  BY DEF Inv, TypeOK, Places
  <2>4. nonce' \in [Procs -> Nat] /\ acquires' \in Nat  BY DEF Inv, TypeOK
  <2>5. stamp' \in Nat /\ expected' \in [Procs -> Nat] /\ known' \in [Procs -> Nat]
        /\ slipped' \in [Procs -> Nat]
    BY DEF Inv, TypeOK
  <2>6. reaper' \in Procs \cup {NoProc} /\ alive' \subseteq Procs  BY DEF Inv, TypeOK
  <2> QED BY <2>1, <2>2, <2>3, <2>4, <2>5, <2>6 DEF TypeOK
<1> USE DEF Absent, Made, Unreadable, Owner, Owns, isDead, HoldingPlaces, OwnPlaces, Locks, Owners, Holds
<1>2. MutualExclusion'
  BY DEF Inv, TypeOK, MutualExclusion, LeaseIsKept, HoldersFindTheirLock, ReaperIsAlone
<1>3. LeaseIsKept'
  BY DEF Inv, TypeOK, MutualExclusion, LeaseIsKept, HoldersFindTheirLock, ReaperIsAlone
<1>4. HoldersFindTheirLock'
  BY DEF Inv, TypeOK, MutualExclusion, LeaseIsKept, HoldersFindTheirLock, ReaperIsAlone
<1>5. OwnersHold'
  BY DEF Inv, TypeOK, LeaseIsKept, HoldersFindTheirLock, OwnersHold
<1>6. ReaperIsAlone'
  BY DEF Inv, TypeOK, LeaseIsKept, HoldersFindTheirLock, OwnersHold, ReaperIsAlone
<1> QED BY <1>1, <1>2, <1>3, <1>4, <1>5, <1>6 DEF Inv

\* The invariant is kept: the check of a release changes no file.
LEMMA ReleaseStep == ASSUME Inv, NEW p \in Procs, Release(p) PROVE Inv'
<1> USE LeaseAssumption DEF Release, At, Goto, AcquireUnchanged, storageVars
<1>1. TypeOK'
  <2>1. lock' \in Locks  BY LockTypes DEF Inv, TypeOK, HoldersFindTheirLock
  <2>2. seen' \in [Procs -> Owners \cup {Unreadable}]  BY DEF Inv, TypeOK, Locks
  <2>3. pc' \in [Procs -> Places]  BY DEF Inv, TypeOK, Places
  <2>4. nonce' \in [Procs -> Nat] /\ acquires' \in Nat  BY DEF Inv, TypeOK
  <2>5. stamp' \in Nat /\ expected' \in [Procs -> Nat] /\ known' \in [Procs -> Nat]
        /\ slipped' \in [Procs -> Nat]
    BY DEF Inv, TypeOK
  <2>6. reaper' \in Procs \cup {NoProc} /\ alive' \subseteq Procs  BY DEF Inv, TypeOK
  <2> QED BY <2>1, <2>2, <2>3, <2>4, <2>5, <2>6 DEF TypeOK
<1> USE DEF Absent, Made, Unreadable, Owner, Owns, isDead, HoldingPlaces, OwnPlaces, Locks, Owners, Holds
<1>2. MutualExclusion'
  BY DEF Inv, TypeOK, MutualExclusion, LeaseIsKept, HoldersFindTheirLock, ReaperIsAlone
<1>3. LeaseIsKept'
  BY DEF Inv, TypeOK, MutualExclusion, LeaseIsKept, HoldersFindTheirLock, ReaperIsAlone
<1>4. HoldersFindTheirLock'
  BY DEF Inv, TypeOK, MutualExclusion, LeaseIsKept, HoldersFindTheirLock, ReaperIsAlone
<1>5. OwnersHold'
  BY DEF Inv, TypeOK, LeaseIsKept, HoldersFindTheirLock, OwnersHold
<1>6. ReaperIsAlone'
  BY DEF Inv, TypeOK, LeaseIsKept, HoldersFindTheirLock, OwnersHold, ReaperIsAlone
<1> QED BY <1>1, <1>2, <1>3, <1>4, <1>5, <1>6 DEF Inv

\* The invariant is kept: a release empties its own lock.
LEMMA RemoveOwnerStep == ASSUME Inv, NEW p \in Procs, RemoveOwner(p) PROVE Inv'
<1> USE LeaseAssumption DEF RemoveOwner, At, Goto, AcquireUnchanged, storageVars
<1>1. TypeOK'
  <2>1. lock' \in Locks  BY LockTypes DEF Inv, TypeOK, HoldersFindTheirLock
  <2>2. seen' \in [Procs -> Owners \cup {Unreadable}]  BY DEF Inv, TypeOK, Locks
  <2>3. pc' \in [Procs -> Places]  BY DEF Inv, TypeOK, Places
  <2>4. nonce' \in [Procs -> Nat] /\ acquires' \in Nat  BY DEF Inv, TypeOK
  <2>5. stamp' \in Nat /\ expected' \in [Procs -> Nat] /\ known' \in [Procs -> Nat]
        /\ slipped' \in [Procs -> Nat]
    BY DEF Inv, TypeOK
  <2>6. reaper' \in Procs \cup {NoProc} /\ alive' \subseteq Procs  BY DEF Inv, TypeOK
  <2> QED BY <2>1, <2>2, <2>3, <2>4, <2>5, <2>6 DEF TypeOK
<1> USE DEF Absent, Made, Unreadable, Owner, Owns, isDead, HoldingPlaces, OwnPlaces, Locks, Owners, Holds
<1>2. MutualExclusion'
  BY DEF Inv, TypeOK, MutualExclusion, LeaseIsKept, HoldersFindTheirLock, ReaperIsAlone
<1>3. LeaseIsKept'
  BY DEF Inv, TypeOK, MutualExclusion, LeaseIsKept, HoldersFindTheirLock, ReaperIsAlone
<1>4. HoldersFindTheirLock'
  BY DEF Inv, TypeOK, MutualExclusion, LeaseIsKept, HoldersFindTheirLock, ReaperIsAlone
<1>5. OwnersHold'
  BY DEF Inv, TypeOK, LeaseIsKept, HoldersFindTheirLock, OwnersHold
<1>6. ReaperIsAlone'
  BY DEF Inv, TypeOK, LeaseIsKept, HoldersFindTheirLock, OwnersHold, ReaperIsAlone
<1> QED BY <1>1, <1>2, <1>3, <1>4, <1>5, <1>6 DEF Inv

\* The invariant is kept: a release removes its own lock.
LEMMA RmdirStep == ASSUME Inv, NEW p \in Procs, Rmdir(p) PROVE Inv'
<1> USE LeaseAssumption DEF Rmdir, At, Goto, AcquireUnchanged, storageVars
<1>1. TypeOK'
  <2>1. lock' \in Locks  BY LockTypes DEF Inv, TypeOK, HoldersFindTheirLock
  <2>2. seen' \in [Procs -> Owners \cup {Unreadable}]  BY DEF Inv, TypeOK, Locks
  <2>3. pc' \in [Procs -> Places]  BY DEF Inv, TypeOK, Places
  <2>4. nonce' \in [Procs -> Nat] /\ acquires' \in Nat  BY DEF Inv, TypeOK
  <2>5. stamp' \in Nat /\ expected' \in [Procs -> Nat] /\ known' \in [Procs -> Nat]
        /\ slipped' \in [Procs -> Nat]
    BY DEF Inv, TypeOK
  <2>6. reaper' \in Procs \cup {NoProc} /\ alive' \subseteq Procs  BY DEF Inv, TypeOK
  <2> QED BY <2>1, <2>2, <2>3, <2>4, <2>5, <2>6 DEF TypeOK
<1> USE DEF Absent, Made, Unreadable, Owner, Owns, isDead, HoldingPlaces, OwnPlaces, Locks, Owners, Holds
<1>2. MutualExclusion'
  BY DEF Inv, TypeOK, MutualExclusion, LeaseIsKept, HoldersFindTheirLock, ReaperIsAlone
<1>3. LeaseIsKept'
  BY DEF Inv, TypeOK, MutualExclusion, LeaseIsKept, HoldersFindTheirLock, ReaperIsAlone
<1>4. HoldersFindTheirLock'
  BY DEF Inv, TypeOK, MutualExclusion, LeaseIsKept, HoldersFindTheirLock, ReaperIsAlone
<1>5. OwnersHold'
  BY DEF Inv, TypeOK, LeaseIsKept, HoldersFindTheirLock, OwnersHold
<1>6. ReaperIsAlone'
  BY DEF Inv, TypeOK, LeaseIsKept, HoldersFindTheirLock, OwnersHold, ReaperIsAlone
<1> QED BY <1>1, <1>2, <1>3, <1>4, <1>5, <1>6 DEF Inv

\* The invariant is kept: a dead process holds nothing; its lock stays for a reaper.
LEMMA DieStep == ASSUME Inv, NEW p \in Procs, Die(p) PROVE Inv'
<1> USE LeaseAssumption DEF Die, At, Goto, AcquireUnchanged, storageVars
<1>1. TypeOK'
  <2>1. lock' \in Locks  BY LockTypes DEF Inv, TypeOK, HoldersFindTheirLock
  <2>2. seen' \in [Procs -> Owners \cup {Unreadable}]  BY DEF Inv, TypeOK, Locks
  <2>3. pc' \in [Procs -> Places]  BY DEF Inv, TypeOK, Places
  <2>4. nonce' \in [Procs -> Nat] /\ acquires' \in Nat  BY DEF Inv, TypeOK
  <2>5. stamp' \in Nat /\ expected' \in [Procs -> Nat] /\ known' \in [Procs -> Nat]
        /\ slipped' \in [Procs -> Nat]
    BY DEF Inv, TypeOK
  <2>6. reaper' \in Procs \cup {NoProc} /\ alive' \subseteq Procs  BY DEF Inv, TypeOK
  <2> QED BY <2>1, <2>2, <2>3, <2>4, <2>5, <2>6 DEF TypeOK
<1> USE DEF Absent, Made, Unreadable, Owner, Owns, isDead, HoldingPlaces, OwnPlaces, Locks, Owners, Holds
<1>2. MutualExclusion'
  BY DEF Inv, TypeOK, MutualExclusion, LeaseIsKept, HoldersFindTheirLock, ReaperIsAlone
<1>3. LeaseIsKept'
  BY DEF Inv, TypeOK, MutualExclusion, LeaseIsKept, HoldersFindTheirLock, ReaperIsAlone
<1>4. HoldersFindTheirLock'
  BY DEF Inv, TypeOK, MutualExclusion, LeaseIsKept, HoldersFindTheirLock, ReaperIsAlone
<1>5. OwnersHold'
  BY DEF Inv, TypeOK, LeaseIsKept, HoldersFindTheirLock, OwnersHold
<1>6. ReaperIsAlone'
  BY DEF Inv, TypeOK, LeaseIsKept, HoldersFindTheirLock, OwnersHold, ReaperIsAlone
<1> QED BY <1>1, <1>2, <1>3, <1>4, <1>5, <1>6 DEF Inv

\* The invariant is kept: a write by an outside program touches no lock.
LEMMA ExternalWriteStep == ASSUME Inv, ExternalWrite PROVE Inv'
  BY DEF Inv, ExternalWrite, TypeOK, MutualExclusion, LeaseIsKept, HoldersFindTheirLock, OwnersHold,
         ReaperIsAlone, Holds, Owns

\* The invariant is kept: a step that changes nothing keeps the invariant.
LEMMA StutterStep == ASSUME Inv, UNCHANGED vars PROVE Inv'
  BY DEF Inv, vars, storageVars, TypeOK, MutualExclusion, LeaseIsKept, HoldersFindTheirLock,
         OwnersHold, ReaperIsAlone, Holds, Owns

-----------------------------------------------------------------------------
(* The theorems *)

\* Every state of the lease protocol satisfies the inductive invariant: who has
\* made the lock directory finds it there, a readable live owner is a holder,
\* and one process at a time retires the lock of a dead one.
THEOREM Invariance == Spec => []Inv
<1>1. ASSUME Inv, [Next]_vars PROVE Inv'
  <2>1. CASE UNCHANGED vars  BY <1>1, <2>1, StutterStep
  <2>2. CASE ExternalWrite  BY <1>1, <2>2, ExternalWriteStep
  <2>3. ASSUME NEW p \in Procs, Step(p) \/ Die(p) PROVE Inv'
    BY <1>1, <2>3, MkdirStep, ReadOwnerStep, CheckDeadStep, MkdirReaperStep, RereadStep, RetireStep,
       MkdirAgainStep, RemoveReaperStep, AbandonStep, WriteOwnerStep, LoadStep, AssertAppendStep,
       appendTextStep, replaceStep, RestampStep, TruncateOwnerStep, RequireRecoveryStep, ReleaseStep, RemoveOwnerStep, RmdirStep,
       DieStep
    DEF Step
  <2> QED BY <1>1, <2>1, <2>2, <2>3 DEF Next
<1> QED BY <1>1, InitInv, PTL DEF Spec

\* Every variable of the lease and the storage keeps its type.
THEOREM TypeCorrect == Spec => []TypeOK
<1>1. Inv => TypeOK  BY DEF Inv
<1> QED BY <1>1, Invariance, PTL

\* Two live processes never both hold the lease of a session file, however
\* acquisitions, reaping, releases and deaths interleave (lease.ts acquire).
THEOREM Exclusion == Spec => []MutualExclusion
<1>1. Inv => MutualExclusion  BY DEF Inv
<1> QED BY <1>1, Invariance, PTL

\* A live lease is never lost: the lock names its owner until it releases it
\* (lease.ts assert would otherwise throw CONTEXT_LOCK_LOST).
THEOREM Ownership == Spec => []LeaseIsKept
<1>1. Inv => LeaseIsKept  BY DEF Inv
<1> QED BY <1>1, Invariance, PTL

-----------------------------------------------------------------------------
(* What a process has in memory *)

\* What is in memory is the file's content, but for what slipped in.
UpToDate(p) == known[p] = stamp \/ slipped[p] = stamp

\* A storage that would be admitted is up to date, and one that was admitted stays
\* so until it has taken its stamp; no stamp comes back.
StampsTell ==
  \A p \in Procs :
    /\ expected[p] <= stamp
    /\ p \in alive /\ pc[p] = "open" /\ expected[p] = stamp => UpToDate(p)
    /\ p \in alive /\ pc[p] \in {"appending", "written"} => UpToDate(p)

\* Only one process at a time is between its check and its stamp.
LEMMA AloneInWindow ==
  ASSUME Inv, NEW p \in Procs, NEW q \in Procs, p \in alive, q \in alive,
         pc[p] \in {"appending", "written"}, pc[q] \in {"appending", "written"}
  PROVE  p = q
BY DEF Inv, MutualExclusion, Holds, HoldingPlaces

\* A write by a storage outdates every other storage, of which none is in a window.
LEMMA WriteStamps ==
  ASSUME Inv, StampsTell, NEW p \in Procs, p \in alive, pc[p] = "appending", alive' = alive,
         NEW place \in {"written", "poisoned"}, pc' = [pc EXCEPT ![p] = place],
         stamp' = stamp + 1, expected' = expected,
         \A q \in Procs \ {p} : known'[q] = known[q] /\ slipped'[q] = slipped[q],
         place = "written" => UpToDate(p)'
  PROVE  StampsTell'
<1>0. TypeOK  BY DEF Inv
<1> SUFFICES ASSUME NEW q \in Procs
             PROVE  /\ expected'[q] <= stamp'
                    /\ q \in alive' /\ pc'[q] = "open" /\ expected'[q] = stamp' => UpToDate(q)'
                    /\ q \in alive' /\ pc'[q] \in {"appending", "written"} => UpToDate(q)'
  BY DEF StampsTell
<1>1. expected[q] \in Nat /\ stamp \in Nat /\ expected[q] <= stamp  BY <1>0 DEF TypeOK, StampsTell
<1>2. expected'[q] <= stamp' /\ expected'[q] # stamp'  BY <1>1
<1>3. CASE q = p  BY <1>0, <1>2, <1>3 DEF TypeOK
<1>4. CASE q # p
  <2>1. pc'[q] = pc[q]  BY <1>0, <1>4 DEF TypeOK
  <2>2. ~(q \in alive /\ pc[q] \in {"appending", "written"})  BY <1>4, AloneInWindow
  <2> QED BY <1>2, <2>1, <2>2
<1> QED BY <1>3, <1>4

\* What a storage knew before its write, or knew but for what slipped in, it knows
\* as much of afterwards.
LEMMA WroteKeeps ==
  ASSUME TypeOK, NEW p \in Procs, UpToDate(p), Wrote(p), stamp' = stamp + 1
  PROVE  UpToDate(p)' /\ \A q \in Procs \ {p} : known'[q] = known[q] /\ slipped'[q] = slipped[q]
BY DEF TypeOK, UpToDate, Wrote

\* The order is kept: of the steps of a process only its own reads and writes
\* of the session file touch it, and a new stamp is above all others.
LEMMA StampStep == ASSUME Inv, StampsTell, NEW p \in Procs, Step(p) \/ Die(p)
                   PROVE  StampsTell'
<1>0. TypeOK  BY DEF Inv
<1>1. CASE appendText(p)
  <2>1. UpToDate(p)  BY <1>1 DEF appendText, At, StampsTell
  <2>2. CASE Goto(p, "written") /\ Wrote(p)
    <3>1. UpToDate(p)' /\ \A q \in Procs \ {p} : known'[q] = known[q] /\ slipped'[q] = slipped[q]
      BY <1>0, <1>1, <2>1, <2>2, WroteKeeps DEF appendText
    <3> QED BY <1>1, <2>2, <3>1, WriteStamps DEF appendText, At, Goto
  <2>3. CASE Goto(p, "poisoned") /\ UNCHANGED <<known, slipped>>
    BY <1>1, <2>3, WriteStamps DEF appendText, At, Goto
  <2> QED BY <1>1, <2>2, <2>3 DEF appendText
<1>2. CASE replace(p)
  <2>1. CASE /\ Goto(p, "written") /\ stamp' = stamp + 1
             /\ known' = [known EXCEPT ![p] = stamp + 1] /\ slipped' = [slipped EXCEPT ![p] = 0]
    <3>1. UpToDate(p)' /\ \A q \in Procs \ {p} : known'[q] = known[q] /\ slipped'[q] = slipped[q]
      BY <1>0, <2>1 DEF TypeOK, UpToDate
    <3> QED BY <1>2, <2>1, <3>1, WriteStamps DEF replace, At, Goto
  <2>2. CASE Goto(p, "open") /\ UNCHANGED <<stamp, known, slipped>>
    BY <1>0, <1>2, <2>2 DEF replace, At, Goto, TypeOK, StampsTell, UpToDate
  <2> QED BY <1>2, <2>1, <2>2 DEF replace
<1> USE <1>0 DEF At, Goto, AcquireUnchanged, storageVars, StampsTell, TypeOK, UpToDate
<1>3. CASE Die(p)  BY <1>3 DEF Die
<1>4. CASE Load(p)  BY <1>4 DEF Load
<1>5. CASE Restamp(p)  BY <1>5 DEF Restamp
<1>6. CASE AssertAppend(p)  BY <1>6 DEF AssertAppend
<1>7. CASE Mkdir(p)  BY <1>7 DEF Mkdir
<1>8. CASE ReadOwner(p) \/ CheckDead(p) \/ MkdirReaper(p)
  BY <1>8 DEF ReadOwner, CheckDead, MkdirReaper
<1>9. CASE Reread(p) \/ Retire(p)  BY <1>9 DEF Reread, Retire
<1>10. CASE MkdirAgain(p) \/ RemoveReaper(p)  BY <1>10 DEF MkdirAgain, RemoveReaper
<1>11. CASE Abandon(p) \/ WriteOwner(p)  BY <1>11 DEF Abandon, WriteOwner
<1>12. CASE TruncateOwner(p) \/ RequireRecovery(p)  BY <1>12 DEF TruncateOwner, RequireRecovery
<1>13. CASE Release(p) \/ RemoveOwner(p) \/ Rmdir(p)  BY <1>13 DEF Release, RemoveOwner, Rmdir
<1> QED BY <1>1, <1>2, <1>3, <1>4, <1>5, <1>6, <1>7, <1>8, <1>9, <1>10, <1>11, <1>12, <1>13 DEF Step

\* An outside write outdates every storage but those whose window it falls into.
LEMMA OutsideStep == ASSUME TypeOK, StampsTell, ExternalWrite PROVE StampsTell'
<1> SUFFICES ASSUME NEW q \in Procs
             PROVE  /\ expected'[q] <= stamp'
                    /\ q \in alive' /\ pc'[q] = "open" /\ expected'[q] = stamp' => UpToDate(q)'
                    /\ q \in alive' /\ pc'[q] \in {"appending", "written"} => UpToDate(q)'
  BY DEF StampsTell
<1>1. expected[q] \in Nat /\ stamp \in Nat /\ expected[q] <= stamp  BY DEF TypeOK, StampsTell
<1>2. expected' = expected /\ stamp' = stamp + 1 /\ pc' = pc /\ alive' = alive  BY DEF ExternalWrite
<1>3. expected'[q] <= stamp' /\ expected'[q] # stamp'  BY <1>1, <1>2
<1>4. q \in alive /\ pc[q] \in {"appending", "written"} => slipped'[q] = stamp'
  BY DEF ExternalWrite, At
<1> QED BY <1>2, <1>3, <1>4 DEF UpToDate

\* A write is admitted only on the content the storage has in memory, whoever else
\* writes the file and whenever, but for outside writes that fell between one of
\* its own checks and the stamp it took afterwards (storage.ts assert, appendText,
\* replace): only there can a change be taken over unread.
THEOREM Admission == Spec => AdmittedOnKnownContent
<1>1. ASSUME Init PROVE StampsTell
  <2>1. \A p \in Procs : expected[p] = 0 /\ stamp = 0 /\ pc[p] = "closed"  BY <1>1 DEF Init
  <2>2. \A p \in Procs : expected[p] <= stamp  BY <2>1, 0 <= 0
  <2> QED BY <2>1, <2>2 DEF StampsTell
<1>2. ASSUME Inv, StampsTell, [Next]_vars PROVE StampsTell'
  <2>1. CASE UNCHANGED vars  BY <1>2, <2>1 DEF vars, storageVars, StampsTell, UpToDate
  <2>2. CASE ExternalWrite  BY <1>2, <2>2, OutsideStep DEF Inv
  <2> QED BY <1>2, <2>1, <2>2, StampStep DEF Next
<1>3. ASSUME Inv, StampsTell PROVE \A p \in Procs : AssertAppend(p) => UpToDate(p)
  BY <1>3 DEF AssertAppend, At, StampsTell
<1>4. Inv /\ StampsTell =>
        [\A p \in Procs : AssertAppend(p) => known[p] = stamp \/ slipped[p] = stamp]_vars
  BY <1>3 DEF UpToDate
<1> QED BY <1>1, <1>2, <1>4, Invariance, PTL DEF Spec, AdmittedOnKnownContent

=============================================================================
