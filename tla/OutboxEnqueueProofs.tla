------------------------ MODULE OutboxEnqueueProofs ------------------------
(***************************************************************************)
(* What holds of OutboxEnqueue for every number of processes, events and   *)
(* inodes, and every cap.                                                  *)
(*                                                                         *)
(* Neither mutual exclusion nor the cap is inductive.  IInv adds why no    *)
(* check of another process can end in a steal while no lock was orphaned: *)
(* the file at the path is its holder's, young, or a living process left   *)
(* it there and it names that process (LockOwned); everything a check      *)
(* remembers of a file agrees with that (ChecksHarmless), for death is     *)
(* final (SeenDead).                                                       *)
(*                                                                         *)
(* Once a lock was orphaned the cap gives way, by fewer events than there  *)
(* are processes past their count (Overrun); the rest of what DurableSpool *)
(* promises stays.                                                         *)
(***************************************************************************)
EXTENDS OutboxEnqueue, FiniteSetTheorems, TLAPS

(* Open lock files have inode numbers of their own.                        *)
DistinctInodes == \A p, q \in Procs : fd[p] # NoFile /\ fd[p] = fd[q] => p = q

(* The file at the path is that of a holder, young and with its pid from   *)
(* the write on, or was left by a living process that could not unlink it. *)
HeldBy(p) == /\ Holding(p)
             /\ fd[p] = lock.ino
             /\ lock.pid = IF pc[p] = "write" THEN NoPid ELSE p

LockOwned ==
    ~orphaned /\ lock # NoFile =>
        Left \/ (~lock.old /\ \E p \in Procs : HeldBy(p))

(* A holder's file is still at the path.                                   *)
HolderInPlace ==
    ~orphaned => \A p \in Procs : Holding(p) => lock # NoFile /\ lock.ino = fd[p]

(* No check has concluded anything that leads to a steal, and the only old *)
(* file one can have seen is a left one, which is still there.             *)
ChecksHarmless ==
    ~orphaned => \A p \in Procs : /\ pc[p] # "steal"
                                  /\ seen[p] # NoFile /\ seen[p].old => Left

(* The second look is only taken at the file of a process that is dead.    *)
SeenDead == \A p \in Procs : pc[p] \in {"relstat", "reread"} => seen[p].pid \notin Alive

(* Room for one more event lasts from the count to the link.               *)
Room ==
    /\ IsFiniteSet(spool)
    /\ ~orphaned =>
        /\ Cardinality(spool) <= MaxEvents
        /\ \A p \in Procs :
            pc[p] \in {"stage", "link"} => Cardinality(spool) < MaxEvents

(* The processes that have found room and not linked their event yet, and  *)
(* that there are no more than K of them at a time.                        *)
Counted == {p \in Procs : pc[p] \in {"stage", "link"}}
AtMost(K) == IsFiniteSet(Counted) /\ Cardinality(Counted) <= K

(* Each of them may still add its event.                                   *)
Overrun(K) == /\ IsFiniteSet(spool)
              /\ Cardinality(spool) + Cardinality(Counted) < MaxEvents + K

LockInv == /\ DistinctInodes
           /\ LockOwned
           /\ HolderInPlace
           /\ ChecksHarmless
           /\ SeenDead

(* What a caller is about to be told is so.                                *)
Bookkeeping ==
    /\ \A p \in Procs : ok[p] => event[p] \in spool \cup gone
    /\ acked \subseteq spool \cup gone
    /\ \A p \in Procs : ok[p] => pc[p] \in {"unstage", "release"}

IInv == TypeOK /\ LockInv /\ Room /\ NoStagingLeak /\ Bookkeeping

-----------------------------------------------------------------------------
(* Types.  The facts every step needs are made usable once.                *)

LEMMA Constants ==
    /\ NoFile \notin Inodes \cup Events \cup LockFile
    /\ MaxEvents \in Nat
    /\ NoPid \notin Procs
  BY EnqueueAssumption, LockFileAssumption

(* Every state is well typed, whatever the processes do and die of.        *)
THEOREM TypeCorrect == Spec => []TypeOK
<1>1. Init => TypeOK
  BY DEF Init, TypeOK, Label, Checking, Holding, Critical, Spool!SpoolTypeOK
<1>2. TypeOK /\ [Next]_vars => TypeOK'
  <2> SUFFICES ASSUME TypeOK, [Next]_vars PROVE TypeOK'
    OBVIOUS
  <2> USE Constants DEF TypeOK, Label, Acquiring, Checking, Critical, Holding,
          Goto, At, callVars, spoolVars, checkUnchanged,
          bodyUnchanged, LockFile, Spool!SpoolTypeOK
  <2>1. ASSUME NEW p \in Procs, NEW e \in Events, Enqueue(p, e) PROVE TypeOK'
    BY <2>1 DEF Enqueue
  <2>2. ASSUME NEW p \in Procs, CreateLock(p) PROVE TypeOK'
    BY <2>2 DEF CreateLock
  <2>3. ASSUME NEW p \in Procs, LockExists(p) PROVE TypeOK'
    BY <2>3 DEF LockExists
  <2>4. ASSUME NEW p \in Procs, WritePid(p) PROVE TypeOK'
    BY <2>4 DEF WritePid
  <2>5. ASSUME NEW p \in Procs, WritePidFails(p) PROVE TypeOK'
    BY <2>5 DEF WritePidFails, Finish
  <2>6. ASSUME NEW p \in Procs, StealLock(p) PROVE TypeOK'
    <3>1. /\ pc[p] = "steal" /\ fd' = fd /\ seen' = seen /\ staged' = staged
          /\ spool' = spool /\ acked' = acked /\ gone' = gone /\ orphaned' = orphaned
          /\ lock' = NoFile \/ lock' = lock
      BY <2>6 DEF StealLock
    <3>2. CASE pc' = [pc EXCEPT ![p] = "open"] /\ UNCHANGED callVars
      BY <3>1, <3>2
    <3>3. CASE Finish(p)
      BY <3>1, <3>3 DEF Finish
    <3>4. QED  BY <2>6, <3>2, <3>3 DEF StealLock
  <2>7. ASSUME NEW p \in Procs, Retry(p) PROVE TypeOK'
    BY <2>7 DEF Retry
  <2>8. ASSUME NEW p \in Procs, Busy(p) PROVE TypeOK'
    BY <2>8 DEF Busy, Finish
  <2>9. ASSUME NEW p \in Procs, Inspect(p) PROVE TypeOK'
    BY <2>9 DEF Inspect, NotStale
  <2>10. ASSUME NEW p \in Procs, ReadPid(p) PROVE TypeOK'
    BY <2>10 DEF ReadPid, Verdict, Stale, NotStale
  <2>11. ASSUME NEW p \in Procs, ProbeOwner(p) PROVE TypeOK'
    BY <2>11 DEF ProbeOwner, NotStale
  <2>12. ASSUME NEW p \in Procs, Reinspect(p) PROVE TypeOK'
    BY <2>12 DEF Reinspect, NotStale
  <2>13. ASSUME NEW p \in Procs, Reread(p) PROVE TypeOK'
    BY <2>13 DEF Reread, Verdict, Stale, NotStale
  <2>14. ASSUME NEW p \in Procs, PurgeExpired(p) PROVE TypeOK'
    BY <2>14, ZenonT(30) DEF PurgeExpired, Spool!Discard
  <2>15. ASSUME NEW p \in Procs, Lookup(p) PROVE TypeOK'
    BY <2>15 DEF Lookup
  <2>16. ASSUME NEW p \in Procs, CountQueued(p) PROVE TypeOK'
    BY <2>16 DEF CountQueued
  <2>17. ASSUME NEW p \in Procs, Stage(p) PROVE TypeOK'
    BY <2>17 DEF Stage
  <2>18. ASSUME NEW p \in Procs, Link(p) PROVE TypeOK'
    BY <2>18 DEF Link
  <2>19. ASSUME NEW p \in Procs, LinkFails(p) PROVE TypeOK'
    BY <2>19 DEF LinkFails
  <2>20. ASSUME NEW p \in Procs, Unstage(p) PROVE TypeOK'
    BY <2>20 DEF Unstage
  <2>20a. ASSUME NEW p \in Procs, UnstageFails(p) PROVE TypeOK'
    BY <2>20a DEF UnstageFails
  <2>21. ASSUME NEW p \in Procs, Release(p) PROVE TypeOK'
    BY <2>21 DEF Release, Finish
  <2>22. ASSUME NEW p \in Procs, DeadlinePasses(p) PROVE TypeOK'
    BY <2>22 DEF DeadlinePasses
  <2>23. ASSUME NEW p \in Procs, Crash(p) PROVE TypeOK'
    BY <2>23 DEF Crash
  <2>24. ASSUME NEW e \in Events, Deliver(e) PROVE TypeOK'
    BY <2>24 DEF Deliver, Spool!Discard
  <2>25. CASE LockAges
    BY <2>25 DEF LockAges
  <2>26. CASE UNCHANGED vars
    BY <2>26 DEF vars, Alive
  <2>27. QED
    BY <2>1, <2>2, <2>3, <2>4, <2>5, <2>6, <2>7, <2>8, <2>9, <2>10, <2>11, <2>12, <2>13, <2>14, <2>15, <2>16, <2>17, <2>18, <2>19, <2>20, <2>20a, <2>21, <2>22, <2>23, <2>24, <2>25, <2>26
    DEF Next, Step, Acquire, Check, Persist
<1>3. QED
  BY <1>1, <1>2, PTL DEF Spec

-----------------------------------------------------------------------------
(* The lock protocol.                                                      *)

LEMMA LockInvStep ==
    ASSUME TypeOK, TypeOK', LockInv, [Next]_vars
    PROVE  LockInv'
  <1> USE Constants DEF TypeOK, LockInv, DistinctInodes, LockOwned, Left, HeldBy, HolderInPlace,
        ChecksHarmless, SeenDead, Alive, Acquiring, Checking, Critical, Holding,
        Goto, At, callVars, spoolVars, checkUnchanged,
        bodyUnchanged, LockFile
  <1>1. ASSUME NEW p \in Procs, NEW e \in Events, Enqueue(p, e) PROVE LockInv'
    BY <1>1 DEF Enqueue
  <1>2. ASSUME NEW p \in Procs, CreateLock(p) PROVE LockInv'
    <2>1. PICK i \in Inodes \ {fd[q] : q \in Procs} :
            /\ lock' = [ino |-> i, pid |-> NoPid, old |-> FALSE]
            /\ fd' = [fd EXCEPT ![p] = i]
      BY <1>2 DEF CreateLock
    <2>2. /\ lock = NoFile /\ pc[p] = "open"
          /\ pc' = [pc EXCEPT ![p] = "write"]
          /\ UNCHANGED <<seen, orphaned>>
      BY <1>2 DEF CreateLock
    <2>3. \A q \in Procs : fd[q] # i
      BY <2>1
    <2>4. DistinctInodes'
      BY <2>1, <2>3
    <2>5. LockOwned'
      <3>1. HeldBy(p)' /\ ~lock'.old
        BY <2>1, <2>2
      <3>2. QED  BY <3>1
    <2>6. HolderInPlace'
      <3> SUFFICES ASSUME ~orphaned, NEW q \in Procs, Holding(q)'
                   PROVE  lock' # NoFile /\ lock'.ino = fd'[q]
        BY <2>2
      <3>1. q = p
        BY <2>2
      <3>2. lock'.ino = i /\ fd'[p] = i
        BY <2>1
      <3>3. lock' # NoFile
        <4>1. [ino |-> i, pid |-> NoPid, old |-> FALSE] \in LockFile
          BY <2>1
        <4>2. QED  BY <4>1, <2>1, LockFileAssumption
      <3>4. QED  BY <3>1, <3>2, <3>3
    <2>7. ChecksHarmless' /\ SeenDead'
      BY <2>2
    <2>8. QED  BY <2>4, <2>5, <2>6, <2>7
  <1>3. ASSUME NEW p \in Procs, LockExists(p) PROVE LockInv'
    BY <1>3 DEF LockExists
  <1>4. ASSUME NEW p \in Procs, WritePid(p) PROVE LockInv'
    BY <1>4 DEF WritePid
  <1>5. ASSUME NEW p \in Procs, WritePidFails(p) PROVE LockInv'
    <2>1. /\ pc[p] = "write"
          /\ pc' = [pc EXCEPT ![p] = "idle"]
          /\ fd' = [fd EXCEPT ![p] = NoFile]
          /\ orphaned => orphaned'
          /\ UNCHANGED seen
      BY <1>5 DEF WritePidFails, Finish
    <2>2. ~orphaned' => \/ lock' = NoFile
                        \/ p \in StuckLocks /\ lock' = [lock EXCEPT !.pid = p]
      BY <1>5, <2>1 DEF WritePidFails, UnlinkRaises
    <2>3. ~orphaned => lock # NoFile /\ lock.ino = fd[p]
      BY <2>1
    <2>4. ~orphaned => \A q \in Procs \ {p} : ~Holding(q)
      BY <2>3
    <2>5. ~orphaned' => lock' = NoFile \/ Left'
      BY <2>1, <2>2, <2>3
    <2>6. LockOwned'
      <3> HIDE DEF Left, HeldBy
      <3> QED  BY <2>5
    <2>7. HolderInPlace'
      BY <2>1, <2>4
    <2>8. ~orphaned => ~Left
      BY <2>1, <2>3
    <2>9. ChecksHarmless'
      BY <2>1, <2>8
    <2>10. DistinctInodes' /\ SeenDead'
      BY <2>1
    <2>11. QED  BY <2>6, <2>7, <2>9, <2>10
  <1>6. ASSUME NEW p \in Procs, StealLock(p) PROVE LockInv'
    <2>1. orphaned /\ orphaned'
      BY <1>6 DEF StealLock
    <2>2. DistinctInodes' /\ SeenDead'
      BY <1>6 DEF StealLock, Finish
    <2>3. QED  BY <2>1, <2>2
  <1>7. ASSUME NEW p \in Procs, Retry(p) PROVE LockInv'
    BY <1>7 DEF Retry
  <1>8. ASSUME NEW p \in Procs, Busy(p) PROVE LockInv'
    BY <1>8 DEF Busy, Finish
  <1>9. ASSUME NEW p \in Procs, Inspect(p) PROVE LockInv'
    BY <1>9 DEF Inspect, NotStale
  <1>10. ASSUME NEW p \in Procs, ReadPid(p) PROVE LockInv'
    BY <1>10 DEF ReadPid, Verdict, Stale, NotStale
  <1>11. ASSUME NEW p \in Procs, ProbeOwner(p) PROVE LockInv'
    BY <1>11 DEF ProbeOwner, NotStale
  <1>12. ASSUME NEW p \in Procs, Reinspect(p) PROVE LockInv'
    BY <1>12 DEF Reinspect, NotStale
  <1>13. ASSUME NEW p \in Procs, Reread(p) PROVE LockInv'
    BY <1>13 DEF Reread, Verdict, Stale, NotStale
  <1>14. ASSUME NEW p \in Procs, PurgeExpired(p) PROVE LockInv'
    BY <1>14 DEF PurgeExpired, Spool!Discard
  <1>15. ASSUME NEW p \in Procs, Lookup(p) PROVE LockInv'
    BY <1>15 DEF Lookup
  <1>16. ASSUME NEW p \in Procs, CountQueued(p) PROVE LockInv'
    BY <1>16 DEF CountQueued
  <1>17. ASSUME NEW p \in Procs, Stage(p) PROVE LockInv'
    BY <1>17 DEF Stage
  <1>18. ASSUME NEW p \in Procs, Link(p) PROVE LockInv'
    BY <1>18 DEF Link
  <1>19. ASSUME NEW p \in Procs, LinkFails(p) PROVE LockInv'
    BY <1>19 DEF LinkFails
  <1>20. ASSUME NEW p \in Procs, Unstage(p) PROVE LockInv'
    BY <1>20 DEF Unstage
  <1>20a. ASSUME NEW p \in Procs, UnstageFails(p) PROVE LockInv'
    BY <1>20a DEF UnstageFails
  <1>21. ASSUME NEW p \in Procs, Release(p) PROVE LockInv'
    <2>1. /\ pc[p] = "release"
          /\ pc' = [pc EXCEPT ![p] = "idle"]
          /\ fd' = [fd EXCEPT ![p] = NoFile]
          /\ lock' = NoFile \/ (p \in StuckLocks /\ lock' = lock)
          /\ UNCHANGED <<seen, orphaned>>
      <3>1. lock' = NoFile \/ (p \in StuckLocks /\ lock' = lock)
        BY <1>21 DEF Release, UnlinkRaises
      <3>2. QED  BY <1>21, <3>1 DEF Release, Finish
    <2>2. ~orphaned => lock # NoFile /\ lock.ino = fd[p]
      BY <2>1
    <2>3. ~orphaned => \A q \in Procs \ {p} : ~Holding(q)
      BY <2>2
    <2>4. ~orphaned => ~lock.old \/ Left
      BY <2>2
    <2>5. ~orphaned => lock' = NoFile \/ Left'
      BY <2>1, <2>2, <2>3
    <2>6. LockOwned'
      <3> HIDE DEF Left, HeldBy
      <3> QED  BY <2>1, <2>5
    <2>7. HolderInPlace'
      BY <2>1, <2>3
    <2>8. ChecksHarmless'
      BY <2>1, <2>5
    <2>9. DistinctInodes' /\ SeenDead'
      BY <2>1
    <2>10. QED  BY <2>6, <2>7, <2>8, <2>9
  <1>22. ASSUME NEW p \in Procs, DeadlinePasses(p) PROVE LockInv'
    BY <1>22 DEF DeadlinePasses
  <1>23. ASSUME NEW p \in Procs, Crash(p) PROVE LockInv'
    <2>1. /\ pc' = [pc EXCEPT ![p] = "dead"]
          /\ orphaned' = (orphaned \/ (lock # NoFile /\ (lock.ino = fd[p] \/ lock.pid = p)))
          /\ fd' = [fd EXCEPT ![p] = NoFile]
          /\ seen' = [seen EXCEPT ![p] = NoFile]
          /\ UNCHANGED lock
      BY <1>23 DEF Crash
    <2>2. DistinctInodes'
      BY <2>1
    <2>3. LockOwned'
      <3> SUFFICES ASSUME ~orphaned', lock # NoFile
                   PROVE  Left' \/ (~lock.old /\ \E q \in Procs : HeldBy(q)')
        BY <2>1
      <3>1. ~orphaned /\ lock.ino # fd[p] /\ lock.pid # p
        BY <2>1
      <3>2. CASE Left
        BY <2>1, <3>1, <3>2
      <3>3. CASE ~Left
        <4>1. PICK q \in Procs : HeldBy(q)
          BY <3>1, <3>3
        <4>2. q # p
          BY <3>1, <4>1
        <4>3. ~lock.old
          BY <3>1, <3>3
        <4>4. HeldBy(q)'
          BY <2>1, <4>1, <4>2
        <4>5. QED  BY <4>3, <4>4
      <3>4. QED  BY <3>2, <3>3
    <2>4. HolderInPlace'
      BY <2>1
    <2>5. ChecksHarmless'
      BY <2>1
    <2>6. SeenDead'
      BY <2>1
    <2>7. QED  BY <2>2, <2>3, <2>4, <2>5, <2>6
  <1>24. ASSUME NEW e \in Events, Deliver(e) PROVE LockInv'
    BY <1>24 DEF Deliver, Spool!Discard
  <1>25. CASE LockAges
    BY <1>25 DEF LockAges
  <1>26. CASE UNCHANGED vars
    BY <1>26 DEF vars
  <1>27. QED
    BY <1>1, <1>2, <1>3, <1>4, <1>5, <1>6, <1>7, <1>8, <1>9, <1>10, <1>11, <1>12, <1>13, <1>14, <1>15, <1>16, <1>17, <1>18, <1>19, <1>20, <1>20a, <1>21, <1>22, <1>23, <1>24, <1>25, <1>26
    DEF Next, Step, Acquire, Check, Persist

-----------------------------------------------------------------------------
(* The cap.  Only Link adds an event; between CountQueued and Link its     *)
(* process holds the lock, so no other process can use up the room.        *)

(* A step that adds no event and lets no process past the count.           *)
Quiet == /\ spool' \subseteq spool
         /\ orphaned => orphaned'
         /\ \A q \in Procs : pc'[q] \in {"stage", "link"} => pc[q] \in {"stage", "link"}

LEMMA QuietStep ==
    ASSUME TypeOK, [Next]_vars
    PROVE  Quiet \/ \E p \in Procs : CountQueued(p) \/ Link(p)
<1> USE Constants DEF TypeOK, Acquiring, Checking, Critical, Holding, Goto, At,
      callVars, spoolVars, checkUnchanged, bodyUnchanged, Quiet
<1>1. ASSUME NEW p \in Procs, NEW e \in Events, Enqueue(p, e) PROVE Quiet
  BY <1>1 DEF Enqueue
<1>2. ASSUME NEW p \in Procs, CreateLock(p) PROVE Quiet
  BY <1>2 DEF CreateLock
<1>3. ASSUME NEW p \in Procs, LockExists(p) PROVE Quiet
  BY <1>3 DEF LockExists
<1>4. ASSUME NEW p \in Procs, WritePid(p) PROVE Quiet
  BY <1>4 DEF WritePid
<1>5. ASSUME NEW p \in Procs, WritePidFails(p) PROVE Quiet
  BY <1>5 DEF WritePidFails, Finish
<1>6. ASSUME NEW p \in Procs, StealLock(p) PROVE Quiet
  BY <1>6 DEF StealLock, Finish
<1>7. ASSUME NEW p \in Procs, Retry(p) PROVE Quiet
  BY <1>7 DEF Retry
<1>8. ASSUME NEW p \in Procs, Busy(p) PROVE Quiet
  BY <1>8 DEF Busy, Finish
<1>9. ASSUME NEW p \in Procs, Inspect(p) PROVE Quiet
  BY <1>9 DEF Inspect, NotStale
<1>10. ASSUME NEW p \in Procs, ReadPid(p) PROVE Quiet
  BY <1>10 DEF ReadPid, Verdict, Stale, NotStale
<1>11. ASSUME NEW p \in Procs, ProbeOwner(p) PROVE Quiet
  BY <1>11 DEF ProbeOwner, NotStale
<1>12. ASSUME NEW p \in Procs, Reinspect(p) PROVE Quiet
  BY <1>12 DEF Reinspect, NotStale
<1>13. ASSUME NEW p \in Procs, Reread(p) PROVE Quiet
  BY <1>13 DEF Reread, Verdict, Stale, NotStale
<1>14. ASSUME NEW p \in Procs, PurgeExpired(p) PROVE Quiet
  BY <1>14 DEF PurgeExpired, Spool!Discard
<1>15. ASSUME NEW p \in Procs, Lookup(p) PROVE Quiet
  BY <1>15 DEF Lookup
<1>17. ASSUME NEW p \in Procs, Stage(p) PROVE Quiet
  BY <1>17 DEF Stage
<1>19. ASSUME NEW p \in Procs, LinkFails(p) PROVE Quiet
  BY <1>19 DEF LinkFails
<1>20. ASSUME NEW p \in Procs, Unstage(p) PROVE Quiet
  BY <1>20 DEF Unstage
<1>20a. ASSUME NEW p \in Procs, UnstageFails(p) PROVE Quiet
  BY <1>20a DEF UnstageFails
<1>21. ASSUME NEW p \in Procs, Release(p) PROVE Quiet
  BY <1>21 DEF Release, Finish
<1>22. ASSUME NEW p \in Procs, DeadlinePasses(p) PROVE Quiet
  BY <1>22 DEF DeadlinePasses
<1>23. ASSUME NEW p \in Procs, Crash(p) PROVE Quiet
  BY <1>23 DEF Crash
<1>24. ASSUME NEW e \in Events, Deliver(e) PROVE Quiet
  BY <1>24 DEF Deliver, Spool!Discard
<1>25. ASSUME LockAges PROVE Quiet
  BY <1>25 DEF LockAges
<1>26. ASSUME UNCHANGED vars PROVE Quiet
  BY <1>26 DEF vars
<1>27. QED
  BY <1>1, <1>2, <1>3, <1>4, <1>5, <1>6, <1>7, <1>8, <1>9, <1>10, <1>11, <1>12, <1>13, <1>14, <1>15, <1>17, <1>19, <1>20, <1>20a, <1>21, <1>22, <1>23, <1>24, <1>25, <1>26
  DEF Next, Step, Acquire, Check, Persist

LEMMA RoomStep ==
    ASSUME TypeOK, LockInv, Room, [Next]_vars
    PROVE  Room'
<1> USE Constants DEF TypeOK, Critical, Holding, Goto, bodyUnchanged
<1>1. CASE Quiet
  <2>1. /\ IsFiniteSet(spool')
        /\ Cardinality(spool') <= Cardinality(spool)
        /\ Cardinality(spool) \in Nat /\ Cardinality(spool') \in Nat
    BY <1>1, FS_Subset, FS_CardinalityType DEF Room, Quiet
  <2>2. QED  BY <1>1, <2>1 DEF Room, Quiet
<1>2. ASSUME NEW p \in Procs, CountQueued(p) PROVE Room'
  BY <1>2, FS_CardinalityType DEF CountQueued, Room, At, spoolVars
<1>3. ASSUME NEW p \in Procs, Link(p) PROVE Room'
  <2>1. /\ pc[p] = "link"
        /\ pc' = [pc EXCEPT ![p] = "unstage"]
        /\ spool' = spool \cup {event[p]}
        /\ UNCHANGED orphaned
    BY <1>3 DEF Link, At
  <2>2. IsFiniteSet(spool') /\ Cardinality(spool') <= Cardinality(spool) + 1
    <3>1. IsFiniteSet(spool) /\ Cardinality(spool) \in Nat
      BY FS_CardinalityType DEF Room
    <3>2. /\ IsFiniteSet(spool \cup {event[p]})
          /\ Cardinality(spool \cup {event[p]}) \in {Cardinality(spool), Cardinality(spool) + 1}
      BY <3>1, FS_AddElement
    <3>3. QED  BY <2>1, <3>1, <3>2
  <2>3. ~orphaned => Cardinality(spool) < MaxEvents
    BY <2>1 DEF Room
  <2>4. ~orphaned => \A q \in Procs : pc'[q] \notin {"stage", "link"}
    BY <2>1 DEF LockInv, HolderInPlace, DistinctInodes
  <2>5. Cardinality(spool) \in Nat /\ Cardinality(spool') \in Nat
    BY <2>2, FS_CardinalityType DEF Room
  <2>6. QED  BY <2>1, <2>2, <2>3, <2>4, <2>5, Constants DEF Room
<1>4. QED  BY <1>1, <1>2, <1>3, QuietStep

(* Without the lock the room that a process has counted may be used up by  *)
(* the others that have, and by no others: who counts at the cap goes away.*)
LEMMA OverrunStep ==
    ASSUME NEW K \in Nat \ {0}, TypeOK, AtMost(K), AtMost(K)', Overrun(K), [Next]_vars
    PROVE  Overrun(K)'
<1> USE Constants DEF Overrun
<1>1. /\ Cardinality(spool) \in Nat /\ Cardinality(Counted) \in Nat
      /\ Cardinality(Counted') \in Nat
  BY FS_CardinalityType DEF AtMost
<1>2. CASE Quiet
  <2>1. Counted' \subseteq Counted
    BY <1>2 DEF Quiet, Counted
  <2>2. Cardinality(Counted') <= Cardinality(Counted)
    BY <2>1, FS_Subset DEF AtMost
  <2>3. /\ IsFiniteSet(spool') /\ Cardinality(spool') <= Cardinality(spool)
        /\ Cardinality(spool') \in Nat
    BY <1>2, FS_Subset, FS_CardinalityType DEF Quiet
  <2>4. QED  BY <1>1, <2>2, <2>3
<1>3. ASSUME NEW p \in Procs, CountQueued(p) PROVE Overrun(K)'
  <2>1. spool' = spool
    BY <1>3 DEF CountQueued, spoolVars
  <2>2. CASE Cardinality(spool) < MaxEvents
    BY <1>1, <2>1, <2>2 DEF AtMost
  <2>3. CASE Cardinality(spool) >= MaxEvents
    <3>1. Counted' \subseteq Counted
      BY <1>3, <2>3 DEF CountQueued, Counted, Goto, TypeOK
    <3>2. Cardinality(Counted') <= Cardinality(Counted)
      BY <3>1, FS_Subset DEF AtMost
    <3>3. QED  BY <1>1, <2>1, <3>2
  <2>4. QED  BY <1>1, <2>2, <2>3
<1>4. ASSUME NEW p \in Procs, Link(p) PROVE Overrun(K)'
  <2>1. p \in Counted /\ Counted' = Counted \ {p}
    BY <1>4 DEF Link, Counted, At, Goto, TypeOK
  <2>2. Cardinality(Counted') = Cardinality(Counted) - 1
    BY <2>1, FS_RemoveElement DEF AtMost
  <2>3. /\ IsFiniteSet(spool')
        /\ Cardinality(spool') = Cardinality(spool) \/ Cardinality(spool') = Cardinality(spool) + 1
    BY <1>4, FS_AddElement DEF Link
  <2>4. QED  BY <1>1, <2>2, <2>3
<1>5. QED  BY <1>2, <1>3, <1>4, QuietStep

-----------------------------------------------------------------------------
(* Staging files and acknowledgements.                                     *)

LEMMA StagingStep ==
    ASSUME TypeOK, NoStagingLeak, [Next]_vars
    PROVE  NoStagingLeak'
  <1> USE Constants DEF TypeOK, NoStagingLeak, Alive, Acquiring, Checking, Critical, Holding,
        Goto, At, callVars, spoolVars, checkUnchanged, bodyUnchanged,
        Spool!SpoolTypeOK
  <1>1. ASSUME NEW p \in Procs, NEW e \in Events, Enqueue(p, e) PROVE NoStagingLeak'
    BY <1>1 DEF Enqueue
  <1>2. ASSUME NEW p \in Procs, CreateLock(p) PROVE NoStagingLeak'
    BY <1>2 DEF CreateLock
  <1>3. ASSUME NEW p \in Procs, LockExists(p) PROVE NoStagingLeak'
    BY <1>3 DEF LockExists
  <1>4. ASSUME NEW p \in Procs, WritePid(p) PROVE NoStagingLeak'
    BY <1>4 DEF WritePid
  <1>5. ASSUME NEW p \in Procs, WritePidFails(p) PROVE NoStagingLeak'
    BY <1>5 DEF WritePidFails, Finish
  <1>6. ASSUME NEW p \in Procs, StealLock(p) PROVE NoStagingLeak'
    BY <1>6 DEF StealLock, Finish
  <1>7. ASSUME NEW p \in Procs, Retry(p) PROVE NoStagingLeak'
    BY <1>7 DEF Retry
  <1>8. ASSUME NEW p \in Procs, Busy(p) PROVE NoStagingLeak'
    BY <1>8 DEF Busy, Finish
  <1>9. ASSUME NEW p \in Procs, Inspect(p) PROVE NoStagingLeak'
    BY <1>9 DEF Inspect, NotStale
  <1>10. ASSUME NEW p \in Procs, ReadPid(p) PROVE NoStagingLeak'
    BY <1>10 DEF ReadPid, Verdict, Stale, NotStale
  <1>11. ASSUME NEW p \in Procs, ProbeOwner(p) PROVE NoStagingLeak'
    BY <1>11 DEF ProbeOwner, NotStale
  <1>12. ASSUME NEW p \in Procs, Reinspect(p) PROVE NoStagingLeak'
    BY <1>12 DEF Reinspect, NotStale
  <1>13. ASSUME NEW p \in Procs, Reread(p) PROVE NoStagingLeak'
    BY <1>13 DEF Reread, Verdict, Stale, NotStale
  <1>14. ASSUME NEW p \in Procs, PurgeExpired(p) PROVE NoStagingLeak'
    BY <1>14 DEF PurgeExpired, Spool!Discard
  <1>15. ASSUME NEW p \in Procs, Lookup(p) PROVE NoStagingLeak'
    BY <1>15 DEF Lookup
  <1>16. ASSUME NEW p \in Procs, CountQueued(p) PROVE NoStagingLeak'
    BY <1>16 DEF CountQueued
  <1>17. ASSUME NEW p \in Procs, Stage(p) PROVE NoStagingLeak'
    BY <1>17 DEF Stage
  <1>18. ASSUME NEW p \in Procs, Link(p) PROVE NoStagingLeak'
    BY <1>18 DEF Link
  <1>19. ASSUME NEW p \in Procs, LinkFails(p) PROVE NoStagingLeak'
    BY <1>19 DEF LinkFails
  <1>20. ASSUME NEW p \in Procs, Unstage(p) PROVE NoStagingLeak'
    BY <1>20 DEF Unstage
  <1>20a. ASSUME NEW p \in Procs, UnstageFails(p) PROVE NoStagingLeak'
    BY <1>20a DEF UnstageFails
  <1>21. ASSUME NEW p \in Procs, Release(p) PROVE NoStagingLeak'
    BY <1>21 DEF Release, Finish
  <1>22. ASSUME NEW p \in Procs, DeadlinePasses(p) PROVE NoStagingLeak'
    BY <1>22 DEF DeadlinePasses
  <1>23. ASSUME NEW p \in Procs, Crash(p) PROVE NoStagingLeak'
    BY <1>23 DEF Crash
  <1>24. ASSUME NEW e \in Events, Deliver(e) PROVE NoStagingLeak'
    BY <1>24 DEF Deliver, Spool!Discard
  <1>25. CASE LockAges
    BY <1>25 DEF LockAges
  <1>26. CASE UNCHANGED vars
    BY <1>26 DEF vars
  <1>27. QED
    BY <1>1, <1>2, <1>3, <1>4, <1>5, <1>6, <1>7, <1>8, <1>9, <1>10, <1>11, <1>12, <1>13, <1>14, <1>15, <1>16, <1>17, <1>18, <1>19, <1>20, <1>20a, <1>21, <1>22, <1>23, <1>24, <1>25, <1>26
    DEF Next, Step, Acquire, Check, Persist

LEMMA BookkeepingStep ==
    ASSUME TypeOK, Bookkeeping, [Next]_vars
    PROVE  Bookkeeping'
  <1> USE Constants DEF TypeOK, Bookkeeping, Alive, Acquiring, Checking, Critical, Holding,
        Goto, At, callVars, spoolVars, checkUnchanged, bodyUnchanged,
        Spool!SpoolTypeOK
  <1>1. ASSUME NEW p \in Procs, NEW e \in Events, Enqueue(p, e) PROVE Bookkeeping'
    BY <1>1 DEF Enqueue
  <1>2. ASSUME NEW p \in Procs, CreateLock(p) PROVE Bookkeeping'
    BY <1>2 DEF CreateLock
  <1>3. ASSUME NEW p \in Procs, LockExists(p) PROVE Bookkeeping'
    BY <1>3 DEF LockExists
  <1>4. ASSUME NEW p \in Procs, WritePid(p) PROVE Bookkeeping'
    BY <1>4 DEF WritePid
  <1>5. ASSUME NEW p \in Procs, WritePidFails(p) PROVE Bookkeeping'
    BY <1>5 DEF WritePidFails, Finish
  <1>6. ASSUME NEW p \in Procs, StealLock(p) PROVE Bookkeeping'
    BY <1>6 DEF StealLock, Finish
  <1>7. ASSUME NEW p \in Procs, Retry(p) PROVE Bookkeeping'
    BY <1>7 DEF Retry
  <1>8. ASSUME NEW p \in Procs, Busy(p) PROVE Bookkeeping'
    BY <1>8 DEF Busy, Finish
  <1>9. ASSUME NEW p \in Procs, Inspect(p) PROVE Bookkeeping'
    BY <1>9 DEF Inspect, NotStale
  <1>10. ASSUME NEW p \in Procs, ReadPid(p) PROVE Bookkeeping'
    BY <1>10 DEF ReadPid, Verdict, Stale, NotStale
  <1>11. ASSUME NEW p \in Procs, ProbeOwner(p) PROVE Bookkeeping'
    BY <1>11 DEF ProbeOwner, NotStale
  <1>12. ASSUME NEW p \in Procs, Reinspect(p) PROVE Bookkeeping'
    BY <1>12 DEF Reinspect, NotStale
  <1>13. ASSUME NEW p \in Procs, Reread(p) PROVE Bookkeeping'
    BY <1>13 DEF Reread, Verdict, Stale, NotStale
  <1>14. ASSUME NEW p \in Procs, PurgeExpired(p) PROVE Bookkeeping'
    BY <1>14 DEF PurgeExpired, Spool!Discard
  <1>15. ASSUME NEW p \in Procs, Lookup(p) PROVE Bookkeeping'
    BY <1>15 DEF Lookup
  <1>16. ASSUME NEW p \in Procs, CountQueued(p) PROVE Bookkeeping'
    BY <1>16 DEF CountQueued
  <1>17. ASSUME NEW p \in Procs, Stage(p) PROVE Bookkeeping'
    BY <1>17 DEF Stage
  <1>18. ASSUME NEW p \in Procs, Link(p) PROVE Bookkeeping'
    BY <1>18 DEF Link
  <1>19. ASSUME NEW p \in Procs, LinkFails(p) PROVE Bookkeeping'
    BY <1>19 DEF LinkFails
  <1>20. ASSUME NEW p \in Procs, Unstage(p) PROVE Bookkeeping'
    BY <1>20 DEF Unstage
  <1>20a. ASSUME NEW p \in Procs, UnstageFails(p) PROVE Bookkeeping'
    BY <1>20a DEF UnstageFails
  <1>21. ASSUME NEW p \in Procs, Release(p) PROVE Bookkeeping'
    BY <1>21 DEF Release, Finish
  <1>22. ASSUME NEW p \in Procs, DeadlinePasses(p) PROVE Bookkeeping'
    BY <1>22 DEF DeadlinePasses
  <1>23. ASSUME NEW p \in Procs, Crash(p) PROVE Bookkeeping'
    BY <1>23 DEF Crash
  <1>24. ASSUME NEW e \in Events, Deliver(e) PROVE Bookkeeping'
    BY <1>24 DEF Deliver, Spool!Discard
  <1>25. CASE LockAges
    BY <1>25 DEF LockAges
  <1>26. CASE UNCHANGED vars
    BY <1>26 DEF vars
  <1>27. QED
    BY <1>1, <1>2, <1>3, <1>4, <1>5, <1>6, <1>7, <1>8, <1>9, <1>10, <1>11, <1>12, <1>13, <1>14, <1>15, <1>16, <1>17, <1>18, <1>19, <1>20, <1>20a, <1>21, <1>22, <1>23, <1>24, <1>25, <1>26
    DEF Next, Step, Acquire, Check, Persist

-----------------------------------------------------------------------------
(* The results.                                                            *)

LEMMA Inductive == Spec => []IInv
<1>1. Init => IInv
  <2> SUFFICES ASSUME Init PROVE IInv
    OBVIOUS
  <2>1. TypeOK
    BY Constants DEF Init, TypeOK, Label, Checking, Holding, Critical,
       Spool!SpoolTypeOK
  <2>2. LockInv
    BY DEF Init, LockInv, DistinctInodes, LockOwned, Left, HolderInPlace, ChecksHarmless,
           SeenDead, Holding, Critical
  <2>3. Room
    BY FS_EmptySet, Constants DEF Init, Room
  <2>4. NoStagingLeak /\ Bookkeeping
    BY DEF Init, NoStagingLeak, Bookkeeping
  <2>5. QED  BY <2>1, <2>2, <2>3, <2>4 DEF IInv
<1>2. TypeOK' /\ IInv /\ [Next]_vars => IInv'
  BY LockInvStep, RoomStep, StagingStep, BookkeepingStep DEF IInv
<1>3. QED
  BY <1>1, <1>2, TypeCorrect, PTL DEF Spec

(* The lock file is its holder's while it is held, and where nobody holds  *)
(* it there is none, but for one that its own living process could not     *)
(* unlink; until a lock is orphaned.                                       *)
THEOREM LockIsHolders == Spec => []LockMatchesHolder
<1>1. IInv => LockMatchesHolder
  BY DEF IInv, LockInv, LockOwned, HeldBy, HolderInPlace, LockMatchesHolder
<1>2. QED  BY <1>1, Inductive, PTL

(* At most one process is in the locked body, until a lock is orphaned. *)
THEOREM Exclusion == Spec => []MutualExclusion
<1>1. IInv => MutualExclusion
  BY DEF IInv, TypeOK, LockInv, DistinctInodes, HolderInPlace, Holding, MutualExclusion
<1>2. QED  BY <1>1, Inductive, PTL

(* The cap is never exceeded, until a lock is orphaned.                 *)
THEOREM CapKept == Spec => []WithinCap
<1>1. IInv => WithinCap
  BY DEF IInv, Room, WithinCap
<1>2. QED  BY <1>1, Inductive, PTL

(* A call leaves its staging file behind only if its unlink of it fails,   *)
(* and then it raises.                                                     *)
THEOREM StagingCleaned == Spec => []NoStagingLeak
<1>1. IInv => NoStagingLeak
  BY DEF IInv
<1>2. QED  BY <1>1, Inductive, PTL

(* A pid verdict of the second look is about the file that is there, and   *)
(* its owner is dead, with any number of crashes.                          *)
THEOREM VerdictSound == Spec => StaleVerdict
<1>1. ASSUME TypeOK, SeenDead, Next
      PROVE  \A p \in Procs : At(p, "reread") /\ pc'[p] = "steal"
                => lock # NoFile /\ lock.pid \in Procs \ Alive
  <2> SUFFICES ASSUME NEW p \in Procs, At(p, "reread"), pc'[p] = "steal"
               PROVE  lock # NoFile /\ lock.pid \in Procs \ Alive
    OBVIOUS
  <2>1. Reread(p)
    <3> USE <1>1 DEF TypeOK, Goto, At, Label, Acquiring, Checking, Critical
    <3>1. \A q \in Procs : ~Acquire(q)
      BY DEF Acquire, CreateLock, LockExists, WritePid, WritePidFails, StealLock,
             Retry, Busy, Finish
    <3>5. \A q \in Procs : ~PurgeExpired(q) /\ ~Lookup(q) /\ ~CountQueued(q) /\ ~Stage(q)
      BY DEF PurgeExpired, Lookup, CountQueued, Stage
    <3>6. \A q \in Procs : ~Link(q) /\ ~LinkFails(q) /\ ~Unstage(q) /\ ~UnstageFails(q) /\ ~Release(q)
      BY DEF Link, LinkFails, Unstage, UnstageFails, Release, Finish
    <3>2. \A q \in Procs : Check(q) => Reread(p)
      BY DEF Check, Inspect, ReadPid, ProbeOwner, Reinspect, Reread, Verdict,
             Stale, NotStale
    <3>3. \A q \in Procs : ~DeadlinePasses(q) /\ ~Crash(q)
      BY DEF DeadlinePasses, Crash
    <3>4. ~LockAges /\ \A e \in Events : ~Deliver(e) /\ \A q \in Procs : ~Enqueue(q, e)
      BY DEF LockAges, Deliver, Enqueue
    <3>7. QED  BY <3>1, <3>2, <3>3, <3>4, <3>5, <3>6 DEF Next, Step, Persist
  <2>2. QED  BY <1>1, <2>1 DEF Reread, Verdict, NotStale, Goto, At, TypeOK, SeenDead
<1>2. QED
  BY <1>1, Inductive, PTL DEF Spec, StaleVerdict, IInv, LockInv

-----------------------------------------------------------------------------
(* With crashes.  The lock of a process that died is taken by its path, so  *)
(* two that both saw it can both get in, and then the count and the link   *)
(* of each no longer belong together.  What remains is a bound.            *)

LEMMA OverrunInvariant ==
    ASSUME NEW CONSTANT K \in Nat \ {0}
    PROVE  Spec /\ []AtMost(K) => []Overrun(K)
<1>1. Init => Overrun(K)
  <2> SUFFICES ASSUME Init PROVE Overrun(K)
    OBVIOUS
  <2>1. spool = {} /\ Counted = {}
    BY DEF Init, Counted
  <2>2. QED  BY <2>1, FS_EmptySet, Constants DEF Overrun
<1>2. TypeOK /\ AtMost(K) /\ AtMost(K)' /\ Overrun(K) /\ [Next]_vars => Overrun(K)'
  BY OverrunStep
<1>3. QED  BY <1>1, <1>2, TypeCorrect, PTL DEF Spec

(* The events on disk exceed the cap by fewer than have counted and not    *)
(* linked at any one time (outbox.py:103-114), whatever dies and whatever  *)
(* lock is stolen: one at a time keeps the cap exactly.                    *)
THEOREM OverrunBounded ==
    ASSUME NEW CONSTANT K \in Nat \ {0}
    PROVE  Spec /\ []AtMost(K) => [](Cardinality(spool) <= MaxEvents + K - 1)
<1>1. AtMost(K) /\ Overrun(K) => Cardinality(spool) <= MaxEvents + K - 1
  BY FS_CardinalityType, Constants DEF AtMost, Overrun
<1>2. QED  BY <1>1, OverrunInvariant, PTL

(* An event whose enqueue returned is on disk until it was delivered or    *)
(* expired, whatever dies.                                                 *)
THEOREM AcknowledgedIsKept == Spec => []Spool!Kept
<1>1. IInv => Spool!Kept
  BY DEF IInv, Bookkeeping, Spool!Kept
<1>2. QED  BY <1>1, Inductive, PTL

-----------------------------------------------------------------------------
(* Refinement.                                                             *)

(* What a step does to the spool: nothing, or what one of the actions of   *)
(* DurableSpool does.  Only the cap is left open.                          *)
SpoolStep ==
    \/ UNCHANGED spoolVars
    \/ \E p \in Procs : /\ At(p, "link") /\ event[p] \in Events \ spool
                        /\ spool' = spool \cup {event[p]} /\ UNCHANGED <<acked, gone>>
    \/ \E e \in Events \cap (spool \cup gone) :
            acked' = acked \cup {e} /\ UNCHANGED <<spool, gone>>
    \/ \E X \in SUBSET spool : Spool!Discard(X)

LEMMA StepSimulation ==
    ASSUME TypeOK, Bookkeeping, [Next]_vars
    PROVE  SpoolStep
<1> USE DEF TypeOK, Goto, At, callVars, spoolVars, checkUnchanged,
      bodyUnchanged, SpoolStep
<1>1. ASSUME NEW p \in Procs, NEW e \in Events, Enqueue(p, e) PROVE SpoolStep
  BY <1>1 DEF Enqueue
<1>2. ASSUME NEW p \in Procs, CreateLock(p) PROVE SpoolStep
  BY <1>2 DEF CreateLock
<1>3. ASSUME NEW p \in Procs, LockExists(p) PROVE SpoolStep
  BY <1>3 DEF LockExists
<1>4. ASSUME NEW p \in Procs, WritePid(p) PROVE SpoolStep
  BY <1>4 DEF WritePid
<1>5. ASSUME NEW p \in Procs, WritePidFails(p) PROVE SpoolStep
  BY <1>5 DEF WritePidFails, Finish
<1>6. ASSUME NEW p \in Procs, StealLock(p) PROVE SpoolStep
  BY <1>6 DEF StealLock, Finish
<1>7. ASSUME NEW p \in Procs, Retry(p) PROVE SpoolStep
  BY <1>7 DEF Retry
<1>8. ASSUME NEW p \in Procs, Busy(p) PROVE SpoolStep
  BY <1>8 DEF Busy, Finish
<1>9. ASSUME NEW p \in Procs, Inspect(p) PROVE SpoolStep
  BY <1>9 DEF Inspect, NotStale
<1>10. ASSUME NEW p \in Procs, ReadPid(p) PROVE SpoolStep
  BY <1>10 DEF ReadPid, Verdict, Stale, NotStale
<1>11. ASSUME NEW p \in Procs, ProbeOwner(p) PROVE SpoolStep
  BY <1>11 DEF ProbeOwner, NotStale
<1>12. ASSUME NEW p \in Procs, Reinspect(p) PROVE SpoolStep
  BY <1>12 DEF Reinspect, NotStale
<1>13. ASSUME NEW p \in Procs, Reread(p) PROVE SpoolStep
  BY <1>13 DEF Reread, Verdict, Stale, NotStale
<1>14. ASSUME NEW p \in Procs, PurgeExpired(p) PROVE SpoolStep
  BY <1>14 DEF PurgeExpired
<1>15. ASSUME NEW p \in Procs, Lookup(p) PROVE SpoolStep
  BY <1>15 DEF Lookup
<1>16. ASSUME NEW p \in Procs, CountQueued(p) PROVE SpoolStep
  BY <1>16 DEF CountQueued
<1>17. ASSUME NEW p \in Procs, Stage(p) PROVE SpoolStep
  BY <1>17 DEF Stage
<1>18. ASSUME NEW p \in Procs, Link(p) PROVE SpoolStep
  <2>1. /\ pc[p] = "link" /\ event[p] \in Events
        /\ spool' = spool \cup {event[p]} /\ UNCHANGED <<acked, gone>>
    BY <1>18 DEF Link
  <2>2. CASE event[p] \in spool
    BY <2>1, <2>2
  <2>3. CASE event[p] \notin spool
    BY <2>1, <2>3
  <2>4. QED  BY <2>2, <2>3
<1>19. ASSUME NEW p \in Procs, LinkFails(p) PROVE SpoolStep
  BY <1>19 DEF LinkFails
<1>20. ASSUME NEW p \in Procs, Unstage(p) PROVE SpoolStep
  BY <1>20 DEF Unstage
<1>20a. ASSUME NEW p \in Procs, UnstageFails(p) PROVE SpoolStep
  BY <1>20a DEF UnstageFails
<1>21. ASSUME NEW p \in Procs, Release(p) PROVE SpoolStep
  <2>1. CASE ok[p]
    BY <1>21, <2>1 DEF Release, Bookkeeping
  <2>2. CASE ~ok[p]
    BY <1>21, <2>2 DEF Release
  <2>3. QED  BY <2>1, <2>2
<1>22. ASSUME NEW p \in Procs, DeadlinePasses(p) PROVE SpoolStep
  BY <1>22 DEF DeadlinePasses
<1>23. ASSUME NEW p \in Procs, Crash(p) PROVE SpoolStep
  BY <1>23 DEF Crash
<1>24. ASSUME NEW e \in Events, Deliver(e) PROVE SpoolStep
  <2>1. {e} \in SUBSET spool /\ Spool!Discard({e})
    BY <1>24 DEF Deliver
  <2>2. QED  BY <2>1
<1>25. CASE LockAges
  BY <1>25 DEF LockAges
<1>26. CASE UNCHANGED vars
  BY <1>26 DEF vars
<1>27. QED
  BY <1>1, <1>2, <1>3, <1>4, <1>5, <1>6, <1>7, <1>8, <1>9, <1>10, <1>11, <1>12, <1>13, <1>14, <1>15, <1>16, <1>17, <1>18, <1>19, <1>20, <1>20a, <1>21, <1>22, <1>23, <1>24, <1>25, <1>26
  DEF Next, Step, Acquire, Check, Persist

(* An instance of DurableSpool brings its own copy of Cardinality.         *)
LEMMA SameCardinality == \A S : Spool!Cardinality(S) = Cardinality(S)
  BY DEF Spool!Cardinality, Cardinality

LEMMA SpoolInit == Init => Spool!Init
<1> SUFFICES ASSUME Init PROVE Spool!Init
  OBVIOUS
<1>1. spool = {} /\ acked = {} /\ gone = {}
  BY DEF Init
<1>2. Spool!Cardinality({}) <= MaxEvents
  BY SameCardinality, FS_EmptySet, Constants
<1>3. QED  BY <1>1, <1>2 DEF Spool!Init

(* What enqueue does while no lock is orphaned is what DurableSpool does:  *)
(* an acknowledged event stays until it is delivered or expires, and the   *)
(* cap is kept.                                                            *)
THEOREM Refinement == Spec => ImplementsSpool
<1>1. ASSUME IInv, ~orphaned, [Next]_vars PROVE [Spool!Next]_(Spool!spoolVars)
  <2> USE DEF Spool!spoolVars, Spool!Next
  <2>1. CASE UNCHANGED spoolVars
    BY <2>1 DEF spoolVars
  <2>2. ASSUME NEW p \in Procs, At(p, "link"), event[p] \in Events \ spool,
               spool' = spool \cup {event[p]}, UNCHANGED <<acked, gone>>
        PROVE  Spool!Next
    <3>1. Cardinality(spool) < MaxEvents
      BY <1>1, <2>2 DEF IInv, Room, At
    <3>2. Spool!Store(event[p])
      BY <2>2, <3>1, SameCardinality DEF Spool!Store
    <3>3. QED  BY <2>2, <3>2
  <2>3. ASSUME NEW e \in Events \cap (spool \cup gone),
               acked' = acked \cup {e}, UNCHANGED <<spool, gone>>
        PROVE  Spool!Next
    BY <2>3 DEF Spool!Acknowledge
  <2>4. ASSUME NEW X \in SUBSET spool, Spool!Discard(X) PROVE Spool!Next
    BY <2>4
  <2>5. QED  BY <1>1, <2>1, <2>2, <2>3, <2>4, StepSimulation DEF SpoolStep, IInv
<1>2. IInv /\ [Next]_vars => [Spool!Next \/ orphaned]_spoolVars
  BY <1>1 DEF spoolVars, Spool!spoolVars
<1>3. QED
  BY <1>2, SpoolInit, Inductive, PTL DEF Spec, ImplementsSpool

(* Only a death or a failing unlink leaves a lock behind.                  *)
LEMMA NeverOrphaned == ~MayCrash /\ StuckLocks = {} => (Spec => []~orphaned)
<1> SUFFICES ASSUME ~MayCrash, StuckLocks = {} PROVE Spec => []~orphaned
  OBVIOUS
<1>1. Init => ~orphaned
  BY DEF Init
<1>2. ~orphaned /\ [Next]_vars => ~orphaned'
  <2> SUFFICES ASSUME ~orphaned, [Next]_vars PROVE ~orphaned'
    OBVIOUS
  <2> USE DEF checkUnchanged, bodyUnchanged
  <2>1. ASSUME NEW p \in Procs, Acquire(p) \/ Check(p) \/ Persist(p) PROVE ~orphaned'
    BY <2>1 DEF Acquire, CreateLock, LockExists, WritePid, WritePidFails, StealLock,
       Retry, Busy, Check, Inspect, ReadPid, ProbeOwner, Reinspect, Reread, Persist,
       PurgeExpired, Lookup, CountQueued, Stage, Link, LinkFails, Unstage,
       UnstageFails, Release, UnlinkRaises
  <2>2. ASSUME NEW p \in Procs, DeadlinePasses(p) \/ Crash(p) PROVE ~orphaned'
    BY <2>2 DEF DeadlinePasses, Crash
  <2>3. ASSUME NEW e \in Events, Deliver(e) PROVE ~orphaned'
    BY <2>3 DEF Deliver
  <2>4. ASSUME NEW p \in Procs, NEW e \in Events, Enqueue(p, e) PROVE ~orphaned'
    BY <2>4 DEF Enqueue
  <2>5. CASE LockAges \/ UNCHANGED vars
    BY <2>5 DEF LockAges, vars
  <2>6. QED  BY <2>1, <2>2, <2>3, <2>4, <2>5 DEF Next, Step
<1>3. QED  BY <1>1, <1>2, PTL DEF Spec

(* So enqueue keeps the whole promise of DurableSpool whenever no process  *)
(* dies and no unlink of a lock file fails, whatever else does.            *)
THEOREM FaultFreeRefinement == ~MayCrash /\ StuckLocks = {} => (Spec => Spool!Spec)
<1>1. [Spool!Next \/ orphaned]_spoolVars /\ ~orphaned => [Spool!Next]_(Spool!spoolVars)
  BY DEF spoolVars, Spool!spoolVars
<1>2. QED  BY <1>1, NeverOrphaned, Refinement, PTL DEF ImplementsSpool, Spool!Spec

(* DurableSpool with room for K - 1 events more than the cap.              *)
Wide(K) == INSTANCE DurableSpool WITH MaxEvents <- MaxEvents + K - 1

LEMMA SameCardinalityWide == \A K, S : Wide(K)!Cardinality(S) = Cardinality(S)
  BY DEF Wide!Cardinality, Cardinality

(* With any number of deaths enqueue keeps the same promise under a wider  *)
(* cap: by one event for each further process that counts and links at the *)
(* same time.                                                              *)
THEOREM WideRefinement ==
    ASSUME NEW CONSTANT K \in Nat \ {0}
    PROVE  Spec /\ []AtMost(K) => Wide(K)!Spec
<1>1. ASSUME TypeOK, Bookkeeping, AtMost(K), Overrun(K), [Next]_vars
      PROVE  [Wide(K)!Next]_(Wide(K)!spoolVars)
  <2> USE DEF Wide!spoolVars, Wide!Next
  <2>1. CASE UNCHANGED spoolVars
    BY <2>1 DEF spoolVars
  <2>2. ASSUME NEW p \in Procs, At(p, "link"), event[p] \in Events \ spool,
               spool' = spool \cup {event[p]}, UNCHANGED <<acked, gone>>
        PROVE  Wide(K)!Next
    <3>1. p \in Counted /\ Counted # {}
      BY <2>2 DEF At, Counted
    <3>2. Cardinality(Counted) \in Nat /\ Cardinality(Counted) # 0
      BY <1>1, <3>1, FS_EmptySet, FS_CardinalityType DEF AtMost
    <3>3. Cardinality(spool) \in Nat
      BY <1>1, FS_CardinalityType DEF Overrun
    <3>4. Cardinality(spool) < MaxEvents + K - 1
      BY <1>1, <3>2, <3>3, Constants DEF Overrun
    <3>5. Wide(K)!Store(event[p])
      BY <2>2, <3>4, SameCardinalityWide DEF Wide!Store
    <3>6. QED  BY <2>2, <3>5
  <2>3. ASSUME NEW e \in Events \cap (spool \cup gone),
               acked' = acked \cup {e}, UNCHANGED <<spool, gone>>
        PROVE  Wide(K)!Next
    BY <2>3 DEF Wide!Acknowledge
  <2>4. ASSUME NEW X \in SUBSET spool, Spool!Discard(X) PROVE Wide(K)!Next
    BY <2>4 DEF Wide!Discard, Spool!Discard
  <2>5. QED  BY <1>1, <2>1, <2>2, <2>3, <2>4, StepSimulation DEF SpoolStep
<1>2. Init => Wide(K)!Init
  <2> SUFFICES ASSUME Init PROVE Wide(K)!Init
    OBVIOUS
  <2>1. spool = {} /\ acked = {} /\ gone = {}
    BY DEF Init
  <2>2. Wide(K)!Cardinality({}) <= MaxEvents + K - 1
    BY SameCardinalityWide, FS_EmptySet, Constants
  <2>3. QED  BY <2>1, <2>2 DEF Wide!Init
<1>3. Spec /\ []AtMost(K) => []Overrun(K)
  BY OverrunInvariant
<1>4. IInv => TypeOK /\ Bookkeeping
  BY DEF IInv
<1>5. QED
  BY <1>1, <1>2, <1>3, <1>4, Inductive, PTL DEF Spec, Wide!Spec
=============================================================================
