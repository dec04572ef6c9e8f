---------------------------- MODULE OutboxFlush ----------------------------
(***************************************************************************)
(* Delivery from the Hermes telemetry outbox by one plugin process:        *)
(* hook threads that enqueue and call flush_async, the flush thread, and   *)
(* the timer thread that retries, over a spool that other processes flush  *)
(* too and a service that may be down, refuse an event, or accept it and   *)
(* lose the answer.                                                        *)
(*                                                                         *)
(* A member of Threads is a chain of threads: each hands over in its last  *)
(* step, the hook to the flush thread it starts, that one to its timer or  *)
(* to the next flush thread, the timer to the flush thread it starts.      *)
(* enqueue is one step here; OutboxEnqueue takes it apart.  One that raises *)
(* can do no more than the purge of Expire.  How long a timer waits is     *)
(* left open, and with it the doubling and the reset of _retry_delay.      *)
(***************************************************************************)
EXTENDS Naturals, FiniteSets, FiniteSetsExt

CONSTANTS
    Threads,     \* chains of threads of the plugin process
    Events,      \* telemetry events: numbers, in the order of their digests
    Batch,       \* FLUSH_BATCH_SIZE
    Refused,     \* events the service answers with an error whenever sent
    Perishable,  \* events that may reach MAX_EVENT_AGE_SECONDS in the spool
    MaxTroubles, \* bound: outages, lost answers, failing starts and unlinks
    MaxCrashes,  \* bound: deaths of the plugin process
    NoTimer,     \* _retry_timer is None
    DeadTimer    \* _retry_timer is a timer whose start failed

ASSUME FlushAssumption == /\ Events \subseteq Nat
                          /\ Batch \in Nat \ {0}
                          /\ Refused \subseteq Events
                          /\ Perishable \subseteq Events
                          /\ MaxTroubles \in Nat
                          /\ MaxCrashes \in Nat
                          /\ NoTimer \notin Threads
                          /\ DeadTimer \notin Threads \cup {NoTimer}

VARIABLES
    pc,         \* where each chain of threads is
    todo,       \* files a flush thread listed and did not come to yet
    delivered,  \* events a flush thread has delivered
    flushLock,  \* whether _flush_lock is held
    retryTimer, \* _retry_timer
    spool,      \* events on disk
    accepted,   \* events handed to enqueue
    aged,       \* events older than the retention
    expired,    \* events purged for their age
    up,         \* whether the service answers
    running,    \* whether the plugin process is alive
    troubles,   \* outages, lost answers, failed starts and unlinks so far
    crashes,    \* deaths so far
    received,   \* history: events the service ingested
    repeated,   \* history: events it was sent again after that
    unsure,     \* history: events ingested whose sender may not know it
    stranded    \* history: a thread failed to start since a flush last began

threadVars == <<pc, todo, delivered, flushLock, retryTimer, stranded>>
diskVars == <<spool, accepted, aged, expired>>
serviceVars == <<up, troubles, received, repeated, unsure>>
processVars == <<running, crashes>>
vars == <<threadVars, diskVars, serviceVars, processVars>>

Flushing == {"cancel", "start", "list", "next", "send", "unlink", "release"}
Label == {"free", "call", "check", "schedule", "armed", "fired"} \cup Flushing

(* Types, and that what a chain remembers belongs to its flush.            *)
TypeOK ==
    /\ pc \in [Threads -> Label]
    /\ todo \in [Threads -> SUBSET Events]
    /\ delivered \in [Threads -> 0..Batch]
    /\ flushLock \in BOOLEAN
    /\ retryTimer \in Threads \cup {NoTimer, DeadTimer}
    /\ spool \subseteq accepted
    /\ accepted \subseteq Events
    /\ aged \subseteq Perishable
    /\ expired \subseteq aged
    /\ received \subseteq accepted
    /\ repeated \subseteq received
    /\ unsure \subseteq accepted
    /\ <<up, running, stranded>> \in BOOLEAN \X BOOLEAN \X BOOLEAN
    /\ troubles \in 0..MaxTroubles
    /\ crashes \in 0..MaxCrashes
    /\ \A t \in Threads : pc[t] \in {"send", "unlink"} => todo[t] # {}

Init ==
    /\ pc = [t \in Threads |-> "free"]
    /\ todo = [t \in Threads |-> {}]
    /\ delivered = [t \in Threads |-> 0]
    /\ flushLock = FALSE
    /\ retryTimer = NoTimer
    /\ spool = {} /\ accepted = {} /\ aged = {} /\ expired = {}
    /\ up = TRUE /\ running = TRUE
    /\ troubles = 0 /\ crashes = 0
    /\ received = {} /\ repeated = {} /\ unsure = {}
    /\ stranded = FALSE

At(t, l) == pc[t] = l
Goto(t, l) == pc' = [pc EXCEPT ![t] = l]
First(t) == Min(todo[t])
Trouble == troubles < MaxTroubles /\ troubles' = troubles + 1

-----------------------------------------------------------------------------
(* Hooks and flush_async.                                                  *)

(* _telemetry: enqueue purges what is past its retention and stores the    *)
(* event, and the hook goes on to flush_async.                             *)
Hook(t, e) ==
    /\ running /\ At(t, "free")
    /\ e \notin accepted
    /\ accepted' = accepted \cup {e}
    /\ spool' = (spool \ aged) \cup {e}
    /\ expired' = expired \cup (spool \cap aged)
    /\ Goto(t, "call")
    /\ UNCHANGED <<todo, delivered, flushLock, retryTimer, stranded,
                   aged, serviceVars, processVars>>

(* Bug: the flush lock is not looked at.                                   *)
TryLockShared(t) ==
    /\ At(t, "call")
    /\ flushLock' = TRUE /\ Goto(t, "cancel")
    /\ UNCHANGED <<todo, delivered, retryTimer, stranded,
                   diskVars, serviceVars, processVars>>

(* A call that finds another flush under way does nothing.                 *)
TryLock(t) ==
    /\ At(t, "call")
    /\ IF flushLock
       THEN Goto(t, "free") /\ UNCHANGED flushLock
       ELSE flushLock' = TRUE /\ Goto(t, "cancel")
    /\ UNCHANGED <<todo, delivered, retryTimer, stranded,
                   diskVars, serviceVars, processVars>>

(* cancel() stops a timer that still waits; one that fired goes on.        *)
CancelTimer(t) ==
    /\ At(t, "cancel")
    /\ retryTimer' = NoTimer
    /\ pc' = [s \in Threads |-> IF s = t THEN "start"
                                ELSE IF s = retryTimer /\ At(s, "armed")
                                THEN "free" ELSE pc[s]]
    /\ stranded' = FALSE
    /\ UNCHANGED <<todo, delivered, flushLock,
                   diskVars, serviceVars, processVars>>

Start(t) ==
    /\ At(t, "start")
    /\ Goto(t, "list")
    /\ UNCHANGED <<todo, delivered, flushLock, retryTimer, stranded,
                   diskVars, serviceVars, processVars>>

(* Bug: the lock is not released when the thread cannot be started.        *)
StartFailsLocked(t) ==
    /\ At(t, "start")
    /\ Trouble
    /\ Goto(t, "free")
    /\ stranded' = TRUE
    /\ UNCHANGED <<todo, delivered, flushLock, retryTimer,
                   diskVars, up, received, repeated, unsure, processVars>>

(* thread.start() raises: flush_async releases the lock and raises.        *)
StartFails(t) ==
    /\ At(t, "start")
    /\ Trouble
    /\ Goto(t, "free")
    /\ flushLock' = FALSE
    /\ stranded' = TRUE
    /\ UNCHANGED <<todo, delivered, retryTimer,
                   diskVars, up, received, repeated, unsure, processVars>>

-----------------------------------------------------------------------------
(* _flush_queued.                                                          *)

(* Bug: aged events are not purged.                                        *)
ListKeepingAged(t) ==
    /\ At(t, "list")
    /\ todo' = [todo EXCEPT ![t] = spool]
    /\ delivered' = [delivered EXCEPT ![t] = 0]
    /\ Goto(t, "next")
    /\ UNCHANGED <<flushLock, retryTimer, stranded,
                   diskVars, serviceVars, processVars>>

(* Purge what is past its retention, then list the files.                  *)
List(t) ==
    /\ At(t, "list")
    /\ spool' = spool \ aged
    /\ expired' = expired \cup (spool \cap aged)
    /\ todo' = [todo EXCEPT ![t] = spool \ aged]
    /\ delivered' = [delivered EXCEPT ![t] = 0]
    /\ Goto(t, "next")
    /\ UNCHANGED <<flushLock, retryTimer, stranded, accepted, aged,
                   serviceVars, processVars>>

(* The head of the loop, and the read of the file: one that another        *)
(* process removed raises and ends the loop like a failed send.            *)
NextFile(t) ==
    /\ At(t, "next")
    /\ Goto(t, IF todo[t] # {} /\ delivered[t] < Batch /\ First(t) \in spool
               THEN "send" ELSE "release")
    /\ UNCHANGED <<todo, delivered, flushLock, retryTimer, stranded,
                   diskVars, serviceVars, processVars>>

(* What the service keeps of an event that reaches it.                     *)
Ingest(e) == /\ received' = received \cup {e}
             /\ repeated' = repeated \cup (received \cap {e})

Send(t) ==
    /\ At(t, "send")
    /\ up /\ First(t) \notin Refused
    /\ Ingest(First(t))
    /\ Goto(t, "unlink")
    /\ UNCHANGED <<todo, delivered, flushLock, retryTimer, stranded,
                   diskVars, up, troubles, unsure, processVars>>

(* Bug: an event that could not be sent is unlinked too.                   *)
SendFailsDropping(t) ==
    /\ At(t, "send")
    /\ ~up \/ First(t) \in Refused
    /\ Goto(t, "unlink")
    /\ UNCHANGED <<todo, delivered, flushLock, retryTimer, stranded,
                   diskVars, serviceVars, processVars>>

(* Any exception of the sender ends the loop; the file stays.              *)
SendFails(t) ==
    /\ At(t, "send")
    /\ ~up \/ First(t) \in Refused
    /\ Goto(t, "release")
    /\ UNCHANGED <<todo, delivered, flushLock, retryTimer, stranded,
                   diskVars, serviceVars, processVars>>

(* The service ingests the event, the sender times out.                    *)
AnswerLost(t) ==
    /\ At(t, "send")
    /\ up /\ First(t) \notin Refused
    /\ Trouble
    /\ Ingest(First(t))
    /\ unsure' = unsure \cup {First(t)}
    /\ Goto(t, "release")
    /\ UNCHANGED <<todo, delivered, flushLock, retryTimer, stranded,
                   diskVars, up, processVars>>

Unlink(t) ==
    /\ At(t, "unlink")
    /\ spool' = spool \ {First(t)}
    /\ todo' = [todo EXCEPT ![t] = @ \ {First(t)}]
    /\ delivered' = [delivered EXCEPT ![t] = @ + 1]
    /\ Goto(t, "next")
    /\ UNCHANGED <<flushLock, retryTimer, stranded, accepted, aged, expired,
                   serviceVars, processVars>>

(* unlink raises: run() logs it, and the count of the loop is lost.        *)
UnlinkFails(t) ==
    /\ At(t, "unlink")
    /\ Trouble
    /\ unsure' = unsure \cup {First(t)}
    /\ delivered' = [delivered EXCEPT ![t] = 0]
    /\ Goto(t, "release")
    /\ UNCHANGED <<todo, flushLock, retryTimer, stranded,
                   diskVars, up, received, repeated, processVars>>

-----------------------------------------------------------------------------
(* The end of run(), _schedule_retry and the timer.                        *)

Release(t) ==
    /\ At(t, "release")
    /\ flushLock' = FALSE
    /\ Goto(t, "check")
    /\ UNCHANGED <<todo, delivered, retryTimer, stranded,
                   diskVars, serviceVars, processVars>>

(* Bug: the files are not listed again after the lock was released.        *)
CheckListed(t) ==
    /\ At(t, "check")
    /\ Goto(t, IF todo[t] = {} THEN "free"
               ELSE IF delivered[t] >= Batch THEN "call" ELSE "schedule")
    /\ todo' = [todo EXCEPT ![t] = {}]
    /\ delivered' = [delivered EXCEPT ![t] = 0]
    /\ UNCHANGED <<flushLock, retryTimer, stranded,
                   diskVars, serviceVars, processVars>>

(* The files are listed again: go on at once after a full batch, later     *)
(* after a failure, and not at all when there are none.                    *)
Check(t) ==
    /\ At(t, "check")
    /\ Goto(t, IF spool = {} THEN "free"
               ELSE IF delivered[t] >= Batch THEN "call" ELSE "schedule")
    /\ todo' = [todo EXCEPT ![t] = {}]
    /\ delivered' = [delivered EXCEPT ![t] = 0]
    /\ UNCHANGED <<flushLock, retryTimer, stranded,
                   diskVars, serviceVars, processVars>>

(* One timer is enough.                                                    *)
Schedule(t) ==
    /\ At(t, "schedule")
    /\ IF retryTimer = NoTimer
       THEN retryTimer' = t /\ Goto(t, "armed")
       ELSE UNCHANGED retryTimer /\ Goto(t, "free")
    /\ UNCHANGED <<todo, delivered, flushLock, stranded,
                   diskVars, serviceVars, processVars>>

(* timer.start() raises after _retry_timer was assigned.                   *)
ScheduleFails(t) ==
    /\ At(t, "schedule")
    /\ Trouble
    /\ retryTimer = NoTimer
    /\ retryTimer' = DeadTimer
    /\ Goto(t, "free")
    /\ stranded' = TRUE
    /\ UNCHANGED <<todo, delivered, flushLock,
                   diskVars, up, received, repeated, unsure, processVars>>

Fire(t) ==
    /\ At(t, "armed")
    /\ Goto(t, "fired")
    /\ UNCHANGED <<todo, delivered, flushLock, retryTimer, stranded,
                   diskVars, serviceVars, processVars>>

(* retry() forgets the registered timer, be it another one, and flushes.   *)
Retry(t) ==
    /\ At(t, "fired")
    /\ retryTimer' = NoTimer
    /\ Goto(t, "call")
    /\ UNCHANGED <<todo, delivered, flushLock, stranded,
                   diskVars, serviceVars, processVars>>

-----------------------------------------------------------------------------
(* The environment.                                                        *)

(* The purge of another process, or of an enqueue that then raises.        *)
Expire(e) ==
    /\ e \in spool \cap aged
    /\ spool' = spool \ {e}
    /\ expired' = expired \cup {e}
    /\ UNCHANGED <<threadVars, accepted, aged, serviceVars, processVars>>

(* Another process delivers an event and unlinks its file.                 *)
OtherFlusher(e) ==
    /\ up /\ e \in spool \ Refused
    /\ spool' = spool \ {e}
    /\ Ingest(e)
    /\ unsure' = unsure \cup {e}
    /\ UNCHANGED <<threadVars, accepted, aged, expired, up, troubles, processVars>>

Age(e) ==
    /\ e \in (spool \cap Perishable) \ aged
    /\ aged' = aged \cup {e}
    /\ UNCHANGED <<threadVars, spool, accepted, expired, serviceVars, processVars>>

GoDown ==
    /\ Trouble
    /\ up /\ up' = FALSE
    /\ UNCHANGED <<threadVars, diskVars, received, repeated, unsure, processVars>>

ComeUp ==
    /\ ~up /\ up' = TRUE
    /\ UNCHANGED <<threadVars, diskVars, troubles, received, repeated, unsure,
                   processVars>>

(* The plugin process dies: threads, locks and timers with it.             *)
Crash ==
    /\ running /\ crashes < MaxCrashes
    /\ running' = FALSE /\ crashes' = crashes + 1
    /\ unsure' = unsure \cup {First(t) : t \in {s \in Threads : At(s, "unlink")}}
    /\ pc' = [t \in Threads |-> "free"]
    /\ todo' = [t \in Threads |-> {}]
    /\ delivered' = [t \in Threads |-> 0]
    /\ flushLock' = FALSE /\ retryTimer' = NoTimer /\ stranded' = FALSE
    /\ UNCHANGED <<diskVars, up, troubles, received, repeated>>

(* The plugin is constructed again and flushes what it finds.              *)
Restart(t) ==
    /\ ~running /\ running' = TRUE
    /\ Goto(t, "call")
    /\ UNCHANGED <<todo, delivered, flushLock, retryTimer, stranded,
                   diskVars, serviceVars, crashes>>

Step(t) == \/ TryLock(t) \/ CancelTimer(t) \/ Start(t) \/ StartFails(t)
           \/ List(t) \/ NextFile(t)
           \/ Send(t) \/ SendFails(t) \/ AnswerLost(t)
           \/ Unlink(t) \/ UnlinkFails(t)
           \/ Release(t) \/ Check(t) \/ Schedule(t) \/ ScheduleFails(t)
           \/ Fire(t) \/ Retry(t)

Next == \/ \E t \in Threads, e \in Events : Hook(t, e)
        \/ \E t \in Threads : Step(t)
        \/ \E t \in Threads : Restart(t)
        \/ \E e \in Events : OtherFlusher(e) \/ Age(e) \/ Expire(e)
        \/ GoDown \/ ComeUp \/ Crash

Spec == Init /\ [][Next]_vars

(* Threads run and timers fire, an outage ends, a dead plugin is started   *)
(* again, and what is refused forever grows old.                           *)
FairSpec == /\ Spec
            /\ \A t \in Threads : WF_vars(Step(t))
            /\ WF_vars(ComeUp)
            /\ WF_vars(\E t \in Threads : Restart(t))
            /\ \A e \in Refused : WF_vars(Age(e))

-----------------------------------------------------------------------------
(* A file leaves the spool only once the service has its event or its      *)
(* retention is over, whatever fails, dies or competes (outbox.py:268-280, *)
(* README "Successful API ingestion removes an event").                    *)
NoneLost == accepted \subseteq spool \cup received \cup expired

(* Within a process each event is sent once: it reaches the service again  *)
(* only after a lost answer, a death or an error between send and unlink,  *)
(* or another process that sent it.                                        *)
SentOnce == repeated \subseteq unsure

(* _flush_lock is held exactly while one flush is under way, so no path    *)
(* leaves it locked (every later flush_async would return False) and none  *)
(* releases a lock that another flush holds.                               *)
LockHeldByFlush ==
    /\ TypeOK
    /\ Cardinality({t \in Threads : pc[t] \in Flushing}) = IF flushLock THEN 1 ELSE 0

(* No lost wake-up: while an event is queued, some thread or pending timer *)
(* will look at the queue again, unless the last one failed to start.  A   *)
(* flush_async that returned False relies on this (outbox.py:211-212), and *)
(* so does _schedule_retry that found a timer (248-249).                   *)
Attended == running /\ spool # {} /\ ~stranded => \E t \in Threads : ~At(t, "free")

(* A queued event is delivered without a restart or another event, behind  *)
(* an event the service refuses only after that one has expired.           *)
Drains == \A e \in Events : e \in spool ~> e \notin spool \/ stranded
=============================================================================
