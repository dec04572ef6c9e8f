--------------------------- MODULE OpenClawOutbox ---------------------------
(***************************************************************************)
(* The durable telemetry queue of the OpenClaw plugin (telemetry-outbox.js *)
(* and the calls security.js makes of it).  The gateway is one Node.js     *)
(* process; what interleaves are its async functions, each from one await  *)
(* to the next: one enqueue for each event, one flush at most, the         *)
(* #scheduleRetry calls of earlier flushes, a retry timer and a            *)
(* setImmediate.  The process may die, and another may start.              *)
(*                                                                         *)
(* How long the timer waits is left open, and with it retryDelayMs.  The   *)
(* staging file of an enqueue is seen by nobody else before it is linked.  *)
(***************************************************************************)
EXTENDS Naturals, FiniteSets, FiniteSetsExt

CONSTANTS
    Events,      \* telemetry events: numbers, in the order of their digests
    Batch,       \* FLUSH_BATCH_SIZE, 20
    MaxEvents,   \* MAX_OUTBOX_EVENTS, 1000
    Perishable,  \* events that may reach MAX_OUTBOX_AGE_MS in the queue
    MaxRetries,  \* bound: #scheduleRetry calls that read the directory
    MaxTroubles, \* bound: outages, lost answers, failing calls of the file system,
                 \* deaths of the process
    Refused,     \* events the service refuses, or whose file cannot be parsed
    Left         \* events that earlier processes kept

VARIABLES
    alive,      \* whether the process runs
    lock,       \* .enqueue.lock: who wrote it, or nobody
    enqueue,    \* where the enqueue of each event is
    seen,       \* the events it counts
    spool,      \* events on disk
    aged,       \* those older than the retention
    expired,    \* events purged for their age
    flushing,   \* where the flush is
    todo,       \* the files it listed and did not come to yet
    delivered,  \* the number it has delivered
    retries,    \* #scheduleRetry calls, by whether their flush delivered a batch
    immediate,  \* whether a setImmediate is due
    timer,      \* the retry timer: off, armed or fired
    up,         \* whether the service answers
    received,   \* the events it ingested
    troubles,   \* how many of them there were
    derelict    \* whether a lock file was ever left that may be taken for stale

OutboxAssumption == /\ Events \subseteq Nat
                    /\ IsFiniteSet(Events)
                    /\ Batch \in Nat \ {0}
                    /\ MaxEvents \in Nat \ {0}
                    /\ Perishable \subseteq Events
                    /\ MaxRetries \in Nat \ {0}
                    /\ MaxTroubles \in Nat
                    /\ Refused \subseteq Events
                    /\ Left \subseteq Events
                    /\ Cardinality(Left) <= MaxEvents

queueVars == <<lock, enqueue, seen>>
diskVars == <<spool, aged, expired>>
flushVars == <<flushing, todo, delivered>>
wakeVars == <<retries, immediate, timer>>
serviceVars == <<up, received>>
outboxVars == <<alive, queueVars, diskVars, flushVars, wakeVars, serviceVars,
                troubles, derelict>>

InQueue == {"scan", "count", "link", "clean", "unlock", "abandon", "stumble"}
Enqueuing == InQueue \cup {"open", "steal", "flush"}
Ended == {"kept", "failed", "vanished", "lost"}
Flushing == {"list", "next", "send", "unlink", "more"}
Idle == [full |-> 0, part |-> 0]

Init == /\ alive = FALSE
        /\ lock = "none"
        /\ enqueue = [e \in Events |-> IF e \in Left THEN "kept" ELSE "new"]
        /\ seen = [e \in Events |-> {}]
        /\ spool = Left /\ aged = {} /\ expired = {}
        /\ flushing = "no" /\ todo = {} /\ delivered = 0
        /\ retries = Idle /\ immediate = FALSE /\ timer = "off"
        /\ up = TRUE /\ received = {}
        /\ troubles = 0 /\ derelict = FALSE

At(e, p) == enqueue[e] = p
Goto(e, p) == enqueue' = [enqueue EXCEPT ![e] = p]
Trouble == troubles < MaxTroubles /\ troubles' = troubles + 1
Smooth == UNCHANGED troubles

(* flush: the timer is cleared even when a flush is under way.             *)
Flush == /\ timer' = IF timer = "armed" THEN "off" ELSE timer
         /\ flushing' = IF flushing = "no" THEN "list" ELSE flushing

(* The plugin is loaded and flushes what earlier processes left.  A lock   *)
(* they left carries a dead process id, or one that is in use again.       *)
Start == /\ ~alive
         /\ alive' = TRUE
         /\ Flush
         /\ lock' \in IF lock = "owned" THEN {"dead", "owned"} ELSE {lock}
         /\ UNCHANGED <<enqueue, seen, diskVars, todo, delivered, retries, immediate,
                        serviceVars, troubles, derelict>>

Crash == /\ alive
         /\ Trouble
         /\ derelict' = (derelict \/ lock # "none")
         /\ alive' = FALSE
         /\ enqueue' = [e \in Events |-> IF enqueue[e] \in Enqueuing THEN "lost"
                                         ELSE enqueue[e]]
         /\ seen' = [e \in Events |-> {}]
         /\ flushing' = "no" /\ todo' = {} /\ delivered' = 0
         /\ retries' = Idle /\ immediate' = FALSE /\ timer' = "off"
         /\ UNCHANGED <<lock, diskVars, serviceVars>>

-----------------------------------------------------------------------------
(* report and enqueue.                                                     *)

Report(e) == /\ alive
             /\ At(e, "new")
             /\ Goto(e, "open")
             /\ UNCHANGED <<alive, lock, seen, diskVars, flushVars, wakeVars, serviceVars,
                            troubles, derelict>>

Lock(e, owner, next) ==
    /\ lock' = owner
    /\ Goto(e, next)
    /\ UNCHANGED <<alive, seen, diskVars, flushVars, wakeVars, serviceVars>>

SameHistory == UNCHANGED derelict

(* The file is created, and then the process id is written into it.  When  *)
(* that fails the file is removed, unless that fails too: it stays with    *)
(* the id of this process or, taken for stale after 30 seconds, with none. *)
Open(e) == /\ At(e, "open")
           /\ \/ lock = "none" /\ Lock(e, "owned", "scan") /\ Smooth /\ SameHistory
              \/ lock = "none" /\ Trouble /\ \E left \in {"none", "owned", "dead"} :
                    /\ Lock(e, left, "failed")
                    /\ derelict' = (derelict \/ left = "dead")
              \/ /\ lock # "none"
                 /\ Lock(e, lock, IF lock = "dead" THEN "steal" ELSE "open")
                 /\ Smooth /\ SameHistory

(* Half a second has passed.                                               *)
Busy(e) == /\ At(e, "open") /\ lock # "none"
           /\ Lock(e, lock, "failed") /\ Smooth /\ SameHistory

(* The stale lock is removed by its path, or not, and the half second may  *)
(* be over.                                                                *)
Steal(e) == /\ At(e, "steal")
            /\ \E next \in {"open", "failed"} :
                  (Lock(e, "none", next) /\ Smooth) \/ (Lock(e, lock, next) /\ Trouble)
            /\ SameHistory

Stays(e, next) == /\ Goto(e, next)
                  /\ UNCHANGED <<alive, lock, flushVars, wakeVars, serviceVars, derelict>>

(* #purgeExpired, and the directory is read.                               *)
Purged == /\ spool' = spool \ aged
          /\ expired' = expired \cup (spool \cap aged)
          /\ UNCHANGED aged

Scan(e) == /\ At(e, "scan")
           /\ Purged
           /\ seen' = [seen EXCEPT ![e] = spool']
           /\ Stays(e, "count")
           /\ Smooth

(* Each file is looked at.  One that is gone by then makes enqueue fail.   *)
Count(e) == /\ At(e, "count")
            /\ Stays(e, IF ~(seen[e] \subseteq spool) THEN "stumble"
                        ELSE IF Cardinality(seen[e]) >= MaxEvents THEN "abandon"
                        ELSE "link")
            /\ seen' = [seen EXCEPT ![e] = {}]
            /\ UNCHANGED <<diskVars, troubles>>

Link(e) == /\ At(e, "link")
           /\ \/ spool' = spool \cup {e} /\ Stays(e, "clean") /\ Smooth
              \/ spool' = spool /\ Stays(e, "abandon") /\ Trouble
           /\ UNCHANGED <<seen, aged, expired>>

(* The staging file is removed.  When that fails enqueue fails, though the *)
(* event is there.                                                         *)
Clean(e) == /\ At(e, "clean")
            /\ \/ Stays(e, "unlock") /\ Smooth
               \/ Stays(e, "abandon") /\ Trouble
            /\ UNCHANGED <<seen, diskVars>>

Outcome(e) == CASE At(e, "unlock") -> "flush"
                [] At(e, "abandon") -> "failed"
                [] At(e, "stumble") -> "vanished"

(* The descriptor is closed.  When that fails enqueue fails and the lock   *)
(* stays; a failing unlink of the lock goes unnoticed.  A lock that stays  *)
(* has the id of this process, and nobody else gets it while that lives.   *)
Unlock(e) == /\ enqueue[e] \in {"unlock", "abandon", "stumble"}
             /\ \/ Lock(e, "none", Outcome(e)) /\ Smooth
                \/ Lock(e, lock, Outcome(e)) /\ Trouble
                \/ Lock(e, lock, "failed") /\ Trouble
             /\ SameHistory

(* report flushes when enqueue has returned.                               *)
CallFlush(e) == /\ At(e, "flush")
                /\ Goto(e, "kept")
                /\ Flush
                /\ UNCHANGED <<alive, lock, seen, diskVars, todo, delivered, retries,
                               immediate, serviceVars, troubles, derelict>>

-----------------------------------------------------------------------------
(* #flush, and what follows when it ends.                                  *)

FlushStep == UNCHANGED <<alive, queueVars, timer, derelict>>
Reach(p) == flushing' = p

(* flush ends: #scheduleRetry is called with what was delivered.           *)
End(n) == /\ retries.full + retries.part < MaxRetries
          /\ Reach("no") /\ todo' = {} /\ delivered' = 0
          /\ retries' = IF n >= Batch THEN [retries EXCEPT !.full = @ + 1]
                        ELSE [retries EXCEPT !.part = @ + 1]

List == /\ flushing = "list"
        /\ \/ /\ Purged /\ todo' = spool' /\ Reach("next")
              /\ UNCHANGED <<delivered, retries>> /\ Smooth
           \/ End(0) /\ UNCHANGED diskVars /\ Trouble
        /\ UNCHANGED <<immediate, serviceVars>> /\ FlushStep

(* The next file is read.  One that is gone ends the batch.                *)
Pick == /\ flushing = "next"
        /\ Reach(IF todo # {} /\ delivered < Batch /\ Min(todo) \in spool
                 THEN "send" ELSE "more")
        /\ UNCHANGED <<todo, delivered, retries, immediate, diskVars, serviceVars>>
        /\ Smooth /\ FlushStep

Takes(e) == up /\ e \notin Refused

(* An answer may be lost after the event was ingested.  Whatever fails     *)
(* ends the batch, and the events behind this one wait.                    *)
Send == /\ flushing = "send"
        /\ \/ /\ Takes(Min(todo)) /\ received' = received \cup {Min(todo)}
              /\ (Reach("unlink") /\ Smooth) \/ (Reach("more") /\ Trouble)
           \/ ~Takes(Min(todo)) /\ UNCHANGED received /\ Reach("more") /\ Smooth
        /\ UNCHANGED <<todo, delivered, retries, immediate, diskVars, up>> /\ FlushStep

(* An unlink that fails is not noticed.                                    *)
Unlink == /\ flushing = "unlink"
          /\ \/ spool' = spool \ {Min(todo)} /\ Smooth
             \/ UNCHANGED spool /\ Trouble
          /\ todo' = todo \ {Min(todo)}
          /\ delivered' = delivered + 1
          /\ Reach("next")
          /\ UNCHANGED <<retries, immediate, aged, expired, serviceVars>> /\ FlushStep

(* Bug: only a full batch is followed by another one or by the timer.      *)
MoreFull == /\ flushing = "more"
            /\ immediate' = (immediate \/ (delivered > 0 /\ spool # {}))
            /\ IF delivered >= Batch THEN End(delivered)
               ELSE /\ Reach("no") /\ todo' = {} /\ delivered' = 0
                    /\ UNCHANGED retries
            /\ UNCHANGED <<diskVars, serviceVars>> /\ Smooth /\ FlushStep

(* Something was delivered and files remain: on with them.                 *)
More == /\ flushing = "more"
        /\ \/ /\ immediate' = (immediate \/ (delivered > 0 /\ spool # {}))
              /\ End(delivered) /\ Smooth
           \/ delivered > 0 /\ UNCHANGED immediate /\ End(0) /\ Trouble
        /\ UNCHANGED <<diskVars, serviceVars>> /\ FlushStep

(* Bug: the timer is armed only when the directory could not be read.      *)
ScheduleUnread(kind) ==
    /\ retries[kind] > 0
    /\ retries' = [retries EXCEPT ![kind] = @ - 1]
    /\ \/ UNCHANGED <<immediate, timer>> /\ Smooth
       \/ timer' = "armed" /\ UNCHANGED immediate /\ Trouble
    /\ UNCHANGED <<alive, queueVars, diskVars, flushVars, serviceVars, derelict>>

(* #scheduleRetry has read the directory, or could not.                    *)
Schedule(kind) ==
    /\ retries[kind] > 0
    /\ retries' = [retries EXCEPT ![kind] = @ - 1]
    /\ \/ spool = {} /\ UNCHANGED <<immediate, timer>> /\ Smooth
       \/ /\ (spool # {} /\ Smooth) \/ (spool = {} /\ Trouble)
          /\ IF kind = "full" THEN immediate' = TRUE /\ UNCHANGED timer
             ELSE UNCHANGED immediate /\ timer' = IF timer = "off" THEN "armed" ELSE timer
    /\ UNCHANGED <<alive, queueVars, diskVars, flushVars, serviceVars, derelict>>

(* The timer looks at the directory before it flushes.  A timer armed in   *)
(* the meantime is cleared by that flush.                                  *)
Fire == /\ timer = "armed"
        /\ timer' = "fired"
        /\ UNCHANGED <<alive, queueVars, diskVars, flushVars, retries, immediate,
                       serviceVars, troubles, derelict>>

Retry == /\ timer = "fired"
         /\ timer' = "off"
         /\ flushing' = IF flushing = "no" THEN "list" ELSE flushing
         /\ UNCHANGED <<alive, queueVars, diskVars, todo, delivered, retries, immediate,
                        serviceVars, troubles, derelict>>

Immediate == /\ immediate
             /\ immediate' = FALSE
             /\ Flush
             /\ UNCHANGED <<alive, queueVars, diskVars, todo, delivered, retries,
                            serviceVars, troubles, derelict>>

-----------------------------------------------------------------------------
(* The surroundings.                                                       *)

Age(e) == /\ e \in Perishable \cap spool
          /\ aged' = aged \cup {e}
          /\ UNCHANGED <<alive, queueVars, spool, expired, flushVars, wakeVars,
                         serviceVars, troubles, derelict>>

Down == /\ up /\ alive
        /\ up' = FALSE
        /\ Trouble
        /\ UNCHANGED <<alive, queueVars, diskVars, flushVars, wakeVars, received, derelict>>

Up == /\ ~up
      /\ up' = TRUE
      /\ UNCHANGED <<alive, queueVars, diskVars, flushVars, wakeVars, received,
                     troubles, derelict>>

Enqueue(e) == \/ Open(e) \/ Busy(e) \/ Steal(e) \/ Scan(e) \/ Count(e)
              \/ Link(e) \/ Clean(e) \/ Unlock(e) \/ CallFlush(e)

FlushOn == List \/ Pick \/ Send \/ Unlink \/ More

Next == \/ Start \/ Crash \/ Down \/ Up
        \/ \E e \in Events : Report(e) \/ Enqueue(e) \/ Age(e)
        \/ FlushOn
        \/ Schedule("full") \/ Schedule("part")
        \/ Fire \/ Retry \/ Immediate

(* The event loop comes to everything that is due, and the service comes   *)
(* back.  Nothing is assumed of the half second of a busy lock.            *)
Fairness == /\ \A e \in Events : WF_outboxVars(CallFlush(e))
            /\ WF_outboxVars(FlushOn)
            /\ WF_outboxVars(Schedule("full")) /\ WF_outboxVars(Schedule("part"))
            /\ WF_outboxVars(Fire) /\ WF_outboxVars(Retry) /\ WF_outboxVars(Immediate)
            /\ WF_outboxVars(Up)

Spec == Init /\ [][Next]_outboxVars /\ Fairness

-----------------------------------------------------------------------------
TypeOK ==
    /\ alive \in BOOLEAN
    /\ lock \in {"none", "owned", "dead"}
    /\ enqueue \in [Events -> Enqueuing \cup Ended \cup {"new"}]
    /\ seen \in [Events -> SUBSET Events]
    /\ spool \subseteq Events /\ aged \subseteq Events /\ expired \subseteq Events
    /\ flushing \in Flushing \cup {"no"}
    /\ todo \subseteq Events
    /\ delivered \in 0..Batch
    /\ retries \in [full : 0..MaxRetries, part : 0..MaxRetries]
    /\ immediate \in BOOLEAN
    /\ timer \in {"off", "armed", "fired"}
    /\ up \in BOOLEAN
    /\ received \subseteq Events
    /\ troubles \in 0..MaxTroubles
    /\ derelict \in BOOLEAN

(* Something will look at the directory again.                             *)
Attended == \/ flushing # "no"
            \/ retries # Idle
            \/ immediate
            \/ timer # "off"
            \/ \E e \in Events : At(e, "flush")

(* The queue keeps to its cap while no lock is left for stale.  An         *)
(* event whose enqueue returned is on disk until the service has it or its *)
(* retention is over.  While the process runs and one is on disk, a flush, *)
(* a timer or an immediate is on its way to it, though every flush clears  *)
(* the timer and one that finds another under way does no more.            *)
Accounted ==
    /\ TypeOK
    /\ ~derelict => Cardinality(spool) <= MaxEvents
    /\ \A e \in Events : At(e, "kept") => e \in spool \cup received \cup expired
    /\ alive /\ (\E e \in spool : At(e, "kept")) => Attended

(* An enqueue fails for want of room, because the lock stays taken or a    *)
(* call of the file system failed, and not because a flush of the same     *)
(* process removes what it delivered.                                      *)
FailsForCause == \A e \in Events : ~At(e, "vanished")

(* Refused events that are going to be met again.                          *)
Blocking == Refused \cap (spool \ aged)

(* Once the service answers for good, and the process lives on, an event   *)
(* that was kept leaves the disk, unless the order of delivery has before  *)
(* it one that the service always refuses: that one ends every batch until *)
(* its retention is over, and then the events behind it leave too.  (None  *)
(* comes back to the disk.)                                                *)
Drains == <>[](alive => \A e \in spool : At(e, "kept") => \E r \in Blocking : r <= e)
=============================================================================
