--------------------------- MODULE OutboxEnqueue ---------------------------
(***************************************************************************)
(* TelemetryOutbox.enqueue of the Hermes plugin: several processes persist *)
(* events in one spool directory under the cross-process lock file         *)
(* .enqueue.lock.  One action per file-system call, so that every          *)
(* interleaving of the calls of two processes is a behaviour.              *)
(*                                                                         *)
(* A process is one pid with one TelemetryOutbox; its threads are          *)
(* serialised by the outbox's own _lock, so at most one enqueue per        *)
(* process is under way.  A crash is final for a pid: a restarted plugin   *)
(* is another member of Procs.                                             *)
(***************************************************************************)
EXTENDS Naturals, FiniteSets

CONSTANTS
    Procs,      \* process ids of the plugin instances that share the spool
    Events,     \* telemetry events
    Inodes,     \* inode numbers the file system reuses for lock files
    MaxEvents,  \* MAX_EVENTS
    MayCrash,   \* whether processes may die
    StuckLocks,    \* processes whose unlink of the lock file may fail
    StuckStaging,  \* processes whose unlink of their staging file may fail
    NoPid,      \* content of a lock file whose owner has not written its pid
    NoFile      \* no inode, no lock file, no event

ASSUME EnqueueAssumption == /\ MaxEvents \in Nat
                            /\ MayCrash \in BOOLEAN
                            /\ StuckLocks \cup StuckStaging \subseteq Procs
                            /\ NoPid \notin Procs
                            /\ NoFile \notin Inodes \cup Events

VARIABLES
    pc,         \* next file-system call of each process
    event,      \* the event each process is persisting
    late,       \* whether the 0.5 s lock deadline of the call has passed
    fd,         \* inode each process created as lock and still has open
    seen,       \* what the stale-lock check of each process observed so far
    ok,         \* whether the call is going to return its destination
    lock,       \* the file at .enqueue.lock, or NoFile
    staged,     \* processes whose call has its .pending-*.tmp file on disk
    spool, acked, gone,  \* as in DurableSpool
    orphaned    \* history: a lock file was in place with no living process to
                \* answer for it, its owner dead or its pid never written

vars == <<pc, event, late, fd, seen, ok, lock, staged, spool, acked, gone, orphaned>>

Spool == INSTANCE DurableSpool

LockFile == [ino : Inodes, pid : Procs \cup {NoPid}, old : BOOLEAN]

(* Calls of _queue_lock before it yields, of _stale_queue_lock, and of the *)
(* body of enqueue under the lock.                                         *)
Acquiring == {"open", "write", "pause", "steal"}
Checking == {"lstat", "read", "probe", "relstat", "reread"}
Critical == {"purge", "lookup", "count", "stage", "link", "unstage", "release"}
Label == {"idle", "dead"} \cup Acquiring \cup Checking \cup Critical

(* A lock file is a record, so it is never NoFile.                         *)
ASSUME LockFileAssumption == NoFile \notin LockFile

(* Between the creation of its lock file and the unlink that releases it.  *)
Holding(p) == pc[p] \in {"write"} \cup Critical

Alive == {p \in Procs : pc[p] # "dead"}

(* Types, and which part of a call's state is in use where it stands.      *)
TypeOK ==
    /\ pc \in [Procs -> Label]
    /\ event \in [Procs -> Events \cup {NoFile}]
    /\ late \in [Procs -> BOOLEAN]
    /\ fd \in [Procs -> Inodes \cup {NoFile}]
    /\ seen \in [Procs -> LockFile \cup {NoFile}]
    /\ ok \in [Procs -> BOOLEAN]
    /\ lock \in LockFile \cup {NoFile}
    /\ staged \subseteq Procs
    /\ Spool!SpoolTypeOK
    /\ orphaned \in BOOLEAN
    /\ \A p \in Procs :
        /\ event[p] = NoFile <=> pc[p] \in {"idle", "dead"}
        /\ fd[p] # NoFile <=> Holding(p)
        /\ seen[p] # NoFile <=> pc[p] \in Checking \ {"lstat"}
        /\ pc[p] \in {"probe", "relstat", "reread"} => seen[p].pid \in Procs

Init ==
    /\ pc = [p \in Procs |-> "idle"]
    /\ event = [p \in Procs |-> NoFile]
    /\ late = [p \in Procs |-> FALSE]
    /\ fd = [p \in Procs |-> NoFile]
    /\ seen = [p \in Procs |-> NoFile]
    /\ ok = [p \in Procs |-> FALSE]
    /\ lock = NoFile
    /\ staged = {}
    /\ spool = {} /\ acked = {} /\ gone = {}
    /\ orphaned = FALSE

callVars == <<event, late, ok>>
spoolVars == <<spool, acked, gone>>

Goto(p, l) == pc' = [pc EXCEPT ![p] = l]
At(p, l) == pc[p] = l

(* The call ends, returning or raising; what it remembered is forgotten.   *)
Finish(p) == /\ Goto(p, "idle")
             /\ event' = [event EXCEPT ![p] = NoFile]
             /\ late' = [late EXCEPT ![p] = FALSE]
             /\ ok' = [ok EXCEPT ![p] = FALSE]

(* enqueue(event) of an event below the size limit, up to the first open.  *)
(* Every event carries the id of its action, so that one that has left the *)
(* spool is not produced again.                                            *)
Enqueue(p, e) ==
    /\ At(p, "idle")
    /\ e \notin gone
    /\ Goto(p, "open")
    /\ event' = [event EXCEPT ![p] = e]
    /\ UNCHANGED <<late, ok, fd, seen, lock, staged, spoolVars, orphaned>>

-----------------------------------------------------------------------------
(* _queue_lock: acquisition.                                               *)

(* os.open with O_CREAT | O_EXCL succeeds: any inode number not in use.    *)
CreateLock(p) ==
    /\ At(p, "open")
    /\ lock = NoFile
    /\ \E i \in Inodes \ {fd[q] : q \in Procs} :
        /\ lock' = [ino |-> i, pid |-> NoPid, old |-> FALSE]
        /\ fd' = [fd EXCEPT ![p] = i]
    /\ late' = [late EXCEPT ![p] = FALSE]
    /\ Goto(p, "write")
    /\ UNCHANGED <<event, ok, seen, staged, spoolVars, orphaned>>

(* FileExistsError: go and see whether the lock is stale.                  *)
LockExists(p) ==
    /\ At(p, "open")
    /\ lock # NoFile
    /\ Goto(p, "lstat")
    /\ UNCHANGED <<callVars, fd, seen, lock, staged, spoolVars, orphaned>>

(* os.write and fsync of the pid go to the open descriptor, whether or not *)
(* the path still names that inode.                                        *)
WritePid(p) ==
    /\ At(p, "write")
    /\ lock' = IF lock # NoFile /\ lock.ino = fd[p]
               THEN [lock EXCEPT !.pid = p] ELSE lock
    /\ Goto(p, "purge")
    /\ UNCHANGED <<callVars, fd, seen, staged, spoolVars, orphaned>>

(* _unlink_queue_lock raises, or the close before it does: a file that is  *)
(* there stays.  A path that names nothing is as good as unlinked.         *)
UnlinkRaises(p) == p \in StuckLocks /\ lock # NoFile

(* The write or its fsync fails (disk full): close, unlink the path, raise.*)
(* Where the unlink fails too the file stays, with the pid or without.     *)
WritePidFails(p) ==
    /\ At(p, "write")
    /\ LET own == lock # NoFile /\ lock.ino = fd[p] IN
        \/ lock' = NoFile /\ UNCHANGED orphaned
        \/ /\ UnlinkRaises(p)
           /\ lock' = lock
           /\ orphaned' = (orphaned \/ own)
        \/ /\ UnlinkRaises(p) /\ own
           /\ lock' = [lock EXCEPT !.pid = p]
           /\ UNCHANGED orphaned
    /\ fd' = [fd EXCEPT ![p] = NoFile]
    /\ Finish(p)
    /\ UNCHANGED <<seen, staged, spoolVars>>

(* The caller of _stale_queue_lock unlinks the path, whatever file it now  *)
(* names, and opens again without looking at the deadline, or raises.      *)
StealLock(p) ==
    /\ At(p, "steal")
    /\ \/ lock' = NoFile /\ Goto(p, "open") /\ UNCHANGED callVars
       \/ UnlinkRaises(p) /\ lock' = lock /\ Finish(p)
    /\ UNCHANGED <<fd, seen, staged, spoolVars, orphaned>>

(* Bug: the deadline is not looked at.                                     *)
RetryForever(p) ==
    /\ At(p, "pause")
    /\ Goto(p, "open")
    /\ UNCHANGED <<callVars, fd, seen, lock, staged, spoolVars, orphaned>>

(* The lock is not stale: sleep and try again, or give up past deadline.   *)
Retry(p) ==
    /\ At(p, "pause")
    /\ ~late[p]
    /\ Goto(p, "open")
    /\ UNCHANGED <<callVars, fd, seen, lock, staged, spoolVars, orphaned>>

Busy(p) ==
    /\ At(p, "pause")
    /\ late[p]
    /\ Finish(p)
    /\ UNCHANGED <<fd, seen, lock, staged, spoolVars, orphaned>>

-----------------------------------------------------------------------------
(* _stale_queue_lock: lstat, read, probe, and a second lstat and read.     *)

(* What this check answers: stale means the caller will unlink the path.   *)
Stale(p) == Goto(p, "steal") /\ seen' = [seen EXCEPT ![p] = NoFile]
NotStale(p) == Goto(p, "pause") /\ seen' = [seen EXCEPT ![p] = NoFile]
Verdict(p, stale) == IF stale THEN Stale(p) ELSE NotStale(p)

checkUnchanged == <<callVars, fd, lock, staged, spoolVars, orphaned>>

(* Bug: a lock that vanished before the check counts as stale.             *)
InspectVanished(p) ==
    /\ At(p, "lstat")
    /\ IF lock = NoFile
       THEN Stale(p)
       ELSE Goto(p, "read") /\ seen' = [seen EXCEPT ![p] = lock]
    /\ UNCHANGED checkUnchanged

(* A vanished lock was released: not stale.                                *)
Inspect(p) ==
    /\ At(p, "lstat")
    /\ IF lock = NoFile
       THEN NotStale(p)
       ELSE Goto(p, "read") /\ seen' = [seen EXCEPT ![p] = lock]
    /\ UNCHANGED checkUnchanged

(* read_text opens the path afresh.  A file that is gone or has no pid yet *)
(* is judged by the age of the file inspected before (see LockAges).       *)
ReadPid(p) ==
    /\ At(p, "read")
    /\ IF lock = NoFile \/ lock.pid = NoPid
       THEN Verdict(p, seen[p].old)
       ELSE Goto(p, "probe") /\ seen' = [seen EXCEPT ![p].pid = lock.pid]
    /\ UNCHANGED checkUnchanged

(* Bug: the probe's result is ignored, so that any owner seems dead.       *)
ProbeNobody(p) ==
    /\ At(p, "probe")
    /\ Goto(p, "relstat")
    /\ UNCHANGED seen
    /\ UNCHANGED checkUnchanged

(* Bug: a pid that does not exist is no evidence of a stale lock.          *)
ProbeUndecided(p) ==
    /\ At(p, "probe")
    /\ NotStale(p)
    /\ UNCHANGED checkUnchanged

(* Only a pid that demonstrably exited goes on to the second look.         *)
ProbeOwner(p) ==
    /\ At(p, "probe")
    /\ IF seen[p].pid \in Alive
       THEN NotStale(p)
       ELSE Goto(p, "relstat") /\ UNCHANGED seen
    /\ UNCHANGED checkUnchanged

(* Bug: the same inode number is taken for the same file.                  *)
RereadSkipped(p) ==
    /\ At(p, "reread")
    /\ Stale(p)
    /\ UNCHANGED checkUnchanged

Reinspect(p) ==
    /\ At(p, "relstat")
    /\ IF lock # NoFile /\ lock.ino = seen[p].ino
       THEN Goto(p, "reread") /\ UNCHANGED seen
       ELSE NotStale(p)
    /\ UNCHANGED checkUnchanged

Reread(p) ==
    /\ At(p, "reread")
    /\ Verdict(p, lock # NoFile /\ lock.pid = seen[p].pid)
    /\ UNCHANGED checkUnchanged

-----------------------------------------------------------------------------
(* The body of enqueue, and the release of the lock in its finally block.  *)

bodyUnchanged == <<event, late, fd, seen, lock, orphaned>>

(* _purge_expired: any events may be past retention.  It also removes old  *)
(* staging files that earlier calls or dead processes left behind; nothing *)
(* else reads or counts those, so they are not state here.                 *)
PurgeExpired(p) ==
    /\ At(p, "purge")
    /\ \E X \in SUBSET spool : Spool!Discard(X)
    /\ Goto(p, "lookup")
    /\ UNCHANGED <<bodyUnchanged, ok, staged>>

(* destination.exists(): an identical event is queued already.             *)
Lookup(p) ==
    /\ At(p, "lookup")
    /\ LET queued == event[p] \in spool IN
        /\ ok' = [ok EXCEPT ![p] = queued]
        /\ Goto(p, IF queued THEN "release" ELSE "count")
    /\ UNCHANGED <<bodyUnchanged, staged, spoolVars>>

(* Bug: one event too many.                                                *)
CountQueuedOffByOne(p) ==
    /\ At(p, "count")
    /\ Goto(p, IF Cardinality(spool) > MaxEvents THEN "release" ELSE "stage")
    /\ UNCHANGED <<bodyUnchanged, ok, staged, spoolVars>>

(* The cap, in events; the byte cap is the same test on another measure.   *)
CountQueued(p) ==
    /\ At(p, "count")
    /\ Goto(p, IF Cardinality(spool) >= MaxEvents THEN "release" ELSE "stage")
    /\ UNCHANGED <<bodyUnchanged, ok, staged, spoolVars>>

(* mkstemp, write and fsync of the staging file; it is removed again when  *)
(* it could be created and not written.                                    *)
Stage(p) ==
    /\ At(p, "stage")
    /\ \/ staged' = staged \cup {p} /\ Goto(p, "link")
       \/ staged' = staged \cup {p} /\ Goto(p, "unstage")
       \/ UNCHANGED staged /\ Goto(p, "release")
    /\ UNCHANGED <<bodyUnchanged, ok, spoolVars>>

(* Bug: the staging file is only removed after a successful link.          *)
LinkFailsUnclean(p) ==
    /\ At(p, "link")
    /\ Goto(p, "release")
    /\ UNCHANGED <<bodyUnchanged, ok, staged, spoolVars>>

(* os.link, or os.replace where the file system has no hard links; a file  *)
(* that exists already is as good.                                         *)
Link(p) ==
    /\ At(p, "link")
    /\ spool' = spool \cup {event[p]}
    /\ ok' = [ok EXCEPT ![p] = TRUE]
    /\ staged' \in IF event[p] \in spool THEN {staged} ELSE {staged, staged \ {p}}
    /\ Goto(p, "unstage")
    /\ UNCHANGED <<bodyUnchanged, acked, gone>>

LinkFails(p) ==
    /\ At(p, "link")
    /\ Goto(p, "unstage")
    /\ UNCHANGED <<bodyUnchanged, ok, staged, spoolVars>>

Unstage(p) ==
    /\ At(p, "unstage")
    /\ staged' = staged \ {p}
    /\ Goto(p, "release")
    /\ UNCHANGED <<bodyUnchanged, ok, spoolVars>>

(* The unlink in the finally block raises: the file stays, and enqueue is  *)
(* going to raise although the event may be on disk.                       *)
UnstageFails(p) ==
    /\ At(p, "unstage")
    /\ p \in staged \cap StuckStaging
    /\ ok' = [ok EXCEPT ![p] = FALSE]
    /\ Goto(p, "release")
    /\ UNCHANGED <<bodyUnchanged, staged, spoolVars>>

(* Bug: a rejected event is acknowledged too.                              *)
ReleaseAcknowledging(p) ==
    /\ At(p, "release")
    /\ lock' = NoFile
    /\ staged' = staged \ {p}
    /\ fd' = [fd EXCEPT ![p] = NoFile]
    /\ acked' = acked \cup {event[p]}
    /\ Finish(p)
    /\ UNCHANGED <<seen, spool, gone, orphaned>>

(* Close and unlink the lock path; enqueue then returns or raises.  Where  *)
(* the unlink raises, so does enqueue, and the lock file stays.  A staging *)
(* file left on disk is no call's any more.                                *)
Release(p) ==
    /\ At(p, "release")
    /\ \/ /\ lock' = NoFile
          /\ acked' = IF ok[p] THEN acked \cup {event[p]} ELSE acked
       \/ UnlinkRaises(p) /\ UNCHANGED <<lock, acked>>
    /\ staged' = staged \ {p}
    /\ fd' = [fd EXCEPT ![p] = NoFile]
    /\ Finish(p)
    /\ UNCHANGED <<seen, spool, gone, orphaned>>

-----------------------------------------------------------------------------
(* The environment.                                                        *)

(* Some process's flush delivers an event and unlinks it; flushing does    *)
(* not take the queue lock.                                                *)
Deliver(e) ==
    /\ e \in spool
    /\ Spool!Discard({e})
    /\ UNCHANGED <<pc, callVars, fd, seen, ok, lock, staged, orphaned>>

(* 0.5 s have passed since _queue_lock was entered; a call looks at its    *)
(* deadline where it pauses, and nowhere else.                             *)
DeadlinePasses(p) ==
    /\ At(p, "pause")
    /\ ~late[p]
    /\ late' = [late EXCEPT ![p] = TRUE]
    /\ UNCHANGED <<pc, event, ok, fd, seen, lock, staged, spoolVars, orphaned>>

(* 30 s pass since the lock file was written.  Timing assumption: a living *)
(* process is not that long on its way from one pause to the next; a file  *)
(* that crosses the 30 s on the way is one that crossed just before.       *)
LockAges ==
    /\ lock # NoFile
    /\ ~lock.old
    /\ \A p \in Procs : pc[p] \in {"idle", "dead", "pause"}
    /\ lock' = [lock EXCEPT !.old = TRUE]
    /\ UNCHANGED <<pc, callVars, fd, seen, staged, spoolVars, orphaned>>

(* The process dies; the kernel closes its descriptors, its files stay.    *)
Crash(p) ==
    /\ MayCrash
    /\ p \in Alive
    /\ Goto(p, "dead")
    /\ orphaned' = (orphaned \/ (lock # NoFile /\ (lock.ino = fd[p] \/ lock.pid = p)))
    /\ fd' = [fd EXCEPT ![p] = NoFile]
    /\ seen' = [seen EXCEPT ![p] = NoFile]
    /\ event' = [event EXCEPT ![p] = NoFile]
    /\ late' = [late EXCEPT ![p] = FALSE]
    /\ ok' = [ok EXCEPT ![p] = FALSE]
    /\ staged' = staged \ {p}
    /\ UNCHANGED <<lock, spoolVars>>

Acquire(p) == \/ CreateLock(p) \/ LockExists(p)
              \/ WritePid(p) \/ WritePidFails(p)
              \/ StealLock(p) \/ Retry(p) \/ Busy(p)

Check(p) == \/ Inspect(p) \/ ReadPid(p) \/ ProbeOwner(p)
            \/ Reinspect(p) \/ Reread(p)

Persist(p) == \/ PurgeExpired(p) \/ Lookup(p) \/ CountQueued(p)
              \/ Stage(p) \/ Link(p) \/ LinkFails(p)
              \/ Unstage(p) \/ UnstageFails(p) \/ Release(p)

Step(p) == Acquire(p) \/ Check(p) \/ Persist(p)

Next == \/ \E p \in Procs, e \in Events : Enqueue(p, e)
        \/ \E p \in Procs : Step(p)
        \/ \E p \in Procs : DeadlinePasses(p)
        \/ \E p \in Procs : Crash(p)
        \/ \E e \in Events : Deliver(e)
        \/ LockAges

Spec == Init /\ [][Next]_vars

(* A running process executes its next call, and clocks advance: who pauses*)
(* again and again finds the deadline passed.                              *)
FairSpec == /\ Spec
            /\ \A p \in Procs : WF_vars(Step(p)) /\ SF_vars(DeadlinePasses(p))

-----------------------------------------------------------------------------
(* A call that ended and could not unlink its lock file: it names a living *)
(* process, so no check calls it stale and every enqueue of every process  *)
(* is Busy until that one exits (outbox.py:153, 165-166).                  *)
Left == /\ lock # NoFile
        /\ lock.pid \in StuckLocks \cap Alive
        /\ \A p \in Procs : fd[p] # lock.ino

(* Until a lock is orphaned, the file at the lock path is the one its      *)
(* holder created, or nobody holds the lock and the file was left by a     *)
(* failing unlink of its own process: no release, failed write or stale    *)
(* check of another process removes it, and no other failure leaves it.    *)
LockMatchesHolder ==
    ~orphaned => /\ \A p \in Procs : Holding(p) => /\ lock # NoFile
                                                   /\ lock.ino = fd[p]
                 /\ lock # NoFile => Left \/ \E p \in Procs : Holding(p)

(* Two processes are never both inside the locked body of enqueue          *)
(* (outbox.py:97), as long as no lock was orphaned; a lock that a living   *)
(* process could not unlink keeps everybody out.                           *)
MutualExclusion ==
    ~orphaned => \A p, q \in Procs :
                    pc[p] \in Critical /\ pc[q] \in Critical => p = q

(* The count of line 103 and the link of line 114 are separate calls, yet  *)
(* simultaneous plugin instances cannot exceed the queue cap (README.md,   *)
(* "Data handling"), as long as no lock was orphaned.                      *)
WithinCap == TypeOK /\ (~orphaned => Cardinality(spool) <= MaxEvents)

(* A staging file belongs to a call that is still going to link or unlink  *)
(* it, unless its unlink has failed (outbox.py:123), and then the call does*)
(* not return normally: no other exception path leaves one behind, and no  *)
(* caller is told that all went well when one was.                         *)
NoStagingLeak == \A p \in staged :
    \/ pc[p] \in {"link", "unstage"}
    \/ pc[p] = "release" /\ p \in StuckStaging /\ ~ok[p]

(* outbox.py:185-187: when the second look calls the lock stale by its     *)
(* pid, the file then at the path is a dead process's, however often the   *)
(* path was replaced since the first look.                                 *)
StaleVerdict ==
    [][\A p \in Procs : At(p, "reread") /\ pc'[p] = "steal"
            => lock # NoFile /\ lock.pid \in Procs \ Alive]_vars

(* Every enqueue ends, by returning, raising or dying with its process.    *)
Terminates == \A p \in Procs : []<>(pc[p] \in {"idle", "dead"})

(* A lock whose owner died after writing its pid does not outlive the next *)
(* call that finds it and can unlink: the deadline cannot cut the recovery *)
(* short.                                                                  *)
OwnerDied == lock # NoFile /\ lock.pid \in Procs \ Alive
Recovers == \A p \in Procs \ StuckLocks :
    At(p, "open") /\ OwnerDied ~> ~OwnerDied \/ At(p, "dead")

(* What enqueue does while no lock is orphaned is what DurableSpool does:  *)
(* an acknowledged event stays until it is delivered or expires, and the   *)
(* cap is kept.                                                            *)
ImplementsSpool == Spool!Init /\ [][Spool!Next \/ orphaned]_spoolVars
=============================================================================
