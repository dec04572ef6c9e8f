------------------------- MODULE OutboxFlushProofs -------------------------
(***************************************************************************)
(* What holds of OutboxFlush for every number of threads and events, every *)
(* batch size, and any number of outages, lost answers, failed starts and  *)
(* unlinks, and deaths of the process.                                     *)
(*                                                                         *)
(* None of the properties is inductive.  One flush at a time (OneFlush) is *)
(* the ground of the others: the file that is being unlinked is one that   *)
(* was sent (Sending), so nothing is lost; what the service has and the    *)
(* spool still holds is either in the hands of that one flush or its       *)
(* answer went astray (Delivery), so nothing is sent twice without cause;  *)
(* and a thread that gives up finds another flushing, or a timer that has  *)
(* a thread (TimerLive), so somebody is left to attend to the queue.       *)
(***************************************************************************)
EXTENDS OutboxFlush, FiniteSetTheorems, TLAPS

(* At most one chain is flushing, and the lock says whether one is.        *)
OneFlush ==
    /\ \A s, t \in Threads : pc[s] \in Flushing /\ pc[t] \in Flushing => s = t
    /\ flushLock <=> \E t \in Threads : pc[t] \in Flushing

(* The file a flush has in hand: it was enqueued, there is room for it in  *)
(* the batch, it is sent again only if an earlier sender may not know that *)
(* the service has it, and it is unlinked only once it was sent.           *)
Sending == \A t \in Threads :
    /\ pc[t] \in {"send", "unlink"} => First(t) \in accepted /\ delivered[t] < Batch
    /\ pc[t] = "send" /\ First(t) \in received => First(t) \in unsure
    /\ pc[t] = "unlink" => First(t) \in received

(* Why an event that the service has can still be in the spool.            *)
Delivery == \A e \in received \cap spool :
    e \in unsure \/ \E t \in Threads : pc[t] = "unlink" /\ e = First(t)

(* A registered timer has a thread, or its start failed.                   *)
TimerLive ==
    /\ retryTimer = DeadTimer => stranded
    /\ retryTimer \in Threads => pc[retryTimer] \in {"armed", "fired"}

(* Nothing of the plugin process is left when it has died.                 *)
Down == ~running => /\ \A t \in Threads : pc[t] = "free"
                    /\ retryTimer = NoTimer
                    /\ ~flushLock

IInv == TypeOK /\ Down /\ OneFlush /\ Sending /\ Delivery /\ TimerLive
        /\ NoneLost /\ SentOnce /\ Attended

-----------------------------------------------------------------------------
(* A death loses track only of events that were enqueued.                  *)
LEMMA CrashUnsure ==
    ASSUME unsure \subseteq accepted, Sending, Crash
    PROVE  unsure' \subseteq accepted'
<1>1. unsure' = unsure \cup {First(t) : t \in {s \in Threads : pc[s] = "unlink"}}
  BY Zenon DEF Crash, At
<1>2. accepted' = accepted
  BY Zenon DEF Crash, diskVars
<1>3. \A t \in Threads : pc[t] = "unlink" => First(t) \in accepted
  BY DEF Sending
<1>4. {First(t) : t \in {s \in Threads : pc[s] = "unlink"}} \subseteq accepted
  BY <1>3, Zenon
<1>5. QED  BY <1>1, <1>2, <1>4, Zenon

(* Types.                                                                  *)
LEMMA TypeStep ==
    ASSUME TypeOK, Sending, [Next]_vars
    PROVE  TypeOK'
  <1> USE FlushAssumption DEF TypeOK, Sending, Goto, At, Label, Flushing,
        diskVars, serviceVars, processVars, threadVars
  <1>1. ASSUME NEW t \in Threads, NEW e \in Events, Hook(t, e) PROVE TypeOK'
    BY <1>1 DEF Hook
  <1>2. ASSUME NEW t \in Threads, TryLock(t) PROVE TypeOK'
    BY <1>2 DEF TryLock
  <1>3. ASSUME NEW t \in Threads, CancelTimer(t) PROVE TypeOK'
    BY <1>3 DEF CancelTimer
  <1>4. ASSUME NEW t \in Threads, Start(t) PROVE TypeOK'
    BY <1>4 DEF Start
  <1>5. ASSUME NEW t \in Threads, StartFails(t) PROVE TypeOK'
    <2>1. troubles' \in 0..MaxTroubles
      BY <1>5 DEF StartFails, Trouble
    <2>2. QED  BY <1>5, <2>1 DEF StartFails
  <1>6. ASSUME NEW t \in Threads, List(t) PROVE TypeOK'
    BY <1>6 DEF List
  <1>7. ASSUME NEW t \in Threads, NextFile(t) PROVE TypeOK'
    BY <1>7 DEF NextFile
  <1>8. ASSUME NEW t \in Threads, Send(t) PROVE TypeOK'
    BY <1>8 DEF Send, Ingest
  <1>9. ASSUME NEW t \in Threads, SendFails(t) PROVE TypeOK'
    BY <1>9 DEF SendFails
  <1>10. ASSUME NEW t \in Threads, AnswerLost(t) PROVE TypeOK'
    <2>1. troubles' \in 0..MaxTroubles
      BY <1>10 DEF AnswerLost, Trouble
    <2>2. QED  BY <1>10, <2>1 DEF AnswerLost, Ingest
  <1>11. ASSUME NEW t \in Threads, Unlink(t) PROVE TypeOK'
    <2>1. delivered[t] \in 0..Batch /\ delivered[t] + 1 \in 0..Batch
      BY <1>11 DEF Unlink
    <2>2. delivered' \in [Threads -> 0..Batch]
      BY <1>11, <2>1 DEF Unlink
    <2>3. QED  BY <1>11, <2>2 DEF Unlink
  <1>12. ASSUME NEW t \in Threads, UnlinkFails(t) PROVE TypeOK'
    <2>1. troubles' \in 0..MaxTroubles
      BY <1>12 DEF UnlinkFails, Trouble
    <2>2. delivered' \in [Threads -> 0..Batch]
      BY <1>12 DEF UnlinkFails
    <2>3. unsure' \subseteq accepted'
      BY <1>12 DEF UnlinkFails
    <2>4. QED  BY <1>12, <2>1, <2>2, <2>3 DEF UnlinkFails
  <1>13. ASSUME NEW t \in Threads, Release(t) PROVE TypeOK'
    BY <1>13 DEF Release
  <1>14. ASSUME NEW t \in Threads, Check(t) PROVE TypeOK'
    BY <1>14 DEF Check
  <1>15. ASSUME NEW t \in Threads, Schedule(t) PROVE TypeOK'
    BY <1>15 DEF Schedule
  <1>16. ASSUME NEW t \in Threads, ScheduleFails(t) PROVE TypeOK'
    <2>1. troubles' \in 0..MaxTroubles
      BY <1>16 DEF ScheduleFails, Trouble
    <2>2. QED  BY <1>16, <2>1 DEF ScheduleFails
  <1>17. ASSUME NEW t \in Threads, Fire(t) PROVE TypeOK'
    BY <1>17 DEF Fire
  <1>18. ASSUME NEW t \in Threads, Retry(t) PROVE TypeOK'
    BY <1>18 DEF Retry
  <1>19. ASSUME NEW t \in Threads, Restart(t) PROVE TypeOK'
    BY <1>19 DEF Restart
  <1>20. ASSUME NEW e \in Events, OtherFlusher(e) PROVE TypeOK'
    BY <1>20 DEF OtherFlusher, Ingest
  <1>21. ASSUME NEW e \in Events, Age(e) PROVE TypeOK'
    BY <1>21 DEF Age
  <1>22. ASSUME NEW e \in Events, Expire(e) PROVE TypeOK'
    BY <1>22 DEF Expire
  <1>23. CASE GoDown
    <2>1. troubles' \in 0..MaxTroubles
      BY <1>23 DEF GoDown, Trouble
    <2>2. QED  BY <1>23, <2>1 DEF GoDown
  <1>24. CASE ComeUp
    BY <1>24 DEF ComeUp
  <1>25. CASE Crash
    <2>1. crashes' \in 0..MaxCrashes
      BY <1>25 DEF Crash
    <2>2. delivered' \in [Threads -> 0..Batch]
      BY <1>25 DEF Crash
    <2>3. unsure' \subseteq accepted'
      BY <1>25, CrashUnsure
    <2>4. QED  BY <1>25, <2>1, <2>2, <2>3 DEF Crash
  <1>26. CASE UNCHANGED vars
    BY <1>26 DEF vars
  <1>27. QED
    BY <1>1, <1>2, <1>3, <1>4, <1>5, <1>6, <1>7, <1>8, <1>9,
       <1>10, <1>11, <1>12, <1>13, <1>14, <1>15, <1>16, <1>17, <1>18,
       <1>19, <1>20, <1>21, <1>22, <1>23, <1>24, <1>25, <1>26
    DEF Next, Step

(* A dead process.                                                         *)
LEMMA DownStep ==
    ASSUME TypeOK, Down, [Next]_vars
    PROVE  Down'
  <1> USE DEF TypeOK, Down, Goto, At, diskVars, serviceVars, processVars, threadVars
  <1>1. ASSUME NEW t \in Threads, NEW e \in Events, Hook(t, e) PROVE Down'
    BY <1>1 DEF Hook
  <1>2. ASSUME NEW t \in Threads, TryLock(t) PROVE Down'
    BY <1>2 DEF TryLock
  <1>3. ASSUME NEW t \in Threads, CancelTimer(t) PROVE Down'
    BY <1>3 DEF CancelTimer
  <1>4. ASSUME NEW t \in Threads, Start(t) PROVE Down'
    BY <1>4 DEF Start
  <1>5. ASSUME NEW t \in Threads, StartFails(t) PROVE Down'
    BY <1>5 DEF StartFails, Trouble
  <1>6. ASSUME NEW t \in Threads, List(t) PROVE Down'
    BY <1>6 DEF List
  <1>7. ASSUME NEW t \in Threads, NextFile(t) PROVE Down'
    BY <1>7 DEF NextFile
  <1>8. ASSUME NEW t \in Threads, Send(t) PROVE Down'
    BY <1>8 DEF Send, Ingest
  <1>9. ASSUME NEW t \in Threads, SendFails(t) PROVE Down'
    BY <1>9 DEF SendFails
  <1>10. ASSUME NEW t \in Threads, AnswerLost(t) PROVE Down'
    BY <1>10 DEF AnswerLost, Trouble, Ingest
  <1>11. ASSUME NEW t \in Threads, Unlink(t) PROVE Down'
    BY <1>11 DEF Unlink
  <1>12. ASSUME NEW t \in Threads, UnlinkFails(t) PROVE Down'
    BY <1>12 DEF UnlinkFails, Trouble
  <1>13. ASSUME NEW t \in Threads, Release(t) PROVE Down'
    BY <1>13 DEF Release
  <1>14. ASSUME NEW t \in Threads, Check(t) PROVE Down'
    BY <1>14 DEF Check
  <1>15. ASSUME NEW t \in Threads, Schedule(t) PROVE Down'
    BY <1>15 DEF Schedule
  <1>16. ASSUME NEW t \in Threads, ScheduleFails(t) PROVE Down'
    BY <1>16 DEF ScheduleFails, Trouble
  <1>17. ASSUME NEW t \in Threads, Fire(t) PROVE Down'
    BY <1>17 DEF Fire
  <1>18. ASSUME NEW t \in Threads, Retry(t) PROVE Down'
    BY <1>18 DEF Retry
  <1>19. ASSUME NEW t \in Threads, Restart(t) PROVE Down'
    BY <1>19 DEF Restart
  <1>20. ASSUME NEW e \in Events, OtherFlusher(e) PROVE Down'
    BY <1>20 DEF OtherFlusher, Ingest
  <1>21. ASSUME NEW e \in Events, Age(e) PROVE Down'
    BY <1>21 DEF Age
  <1>22. ASSUME NEW e \in Events, Expire(e) PROVE Down'
    BY <1>22 DEF Expire
  <1>23. CASE GoDown
    BY <1>23 DEF GoDown, Trouble
  <1>24. CASE ComeUp
    BY <1>24 DEF ComeUp
  <1>25. CASE Crash
    BY <1>25 DEF Crash
  <1>26. CASE UNCHANGED vars
    BY <1>26 DEF vars
  <1>27. QED
    BY <1>1, <1>2, <1>3, <1>4, <1>5, <1>6, <1>7, <1>8, <1>9,
       <1>10, <1>11, <1>12, <1>13, <1>14, <1>15, <1>16, <1>17, <1>18,
       <1>19, <1>20, <1>21, <1>22, <1>23, <1>24, <1>25, <1>26
    DEF Next, Step

(* One flush at a time.                                                    *)
LEMMA OneFlushStep ==
    ASSUME TypeOK, Down, OneFlush, [Next]_vars
    PROVE  OneFlush'
  <1> USE DEF TypeOK, Down, OneFlush, Goto, At, Flushing, diskVars, serviceVars, processVars, threadVars
  <1>1. ASSUME NEW t \in Threads, NEW e \in Events, Hook(t, e) PROVE OneFlush'
    BY <1>1 DEF Hook
  <1>2. ASSUME NEW t \in Threads, TryLock(t) PROVE OneFlush'
    BY <1>2 DEF TryLock
  <1>3. ASSUME NEW t \in Threads, CancelTimer(t) PROVE OneFlush'
    BY <1>3 DEF CancelTimer
  <1>4. ASSUME NEW t \in Threads, Start(t) PROVE OneFlush'
    BY <1>4 DEF Start
  <1>5. ASSUME NEW t \in Threads, StartFails(t) PROVE OneFlush'
    BY <1>5 DEF StartFails, Trouble
  <1>6. ASSUME NEW t \in Threads, List(t) PROVE OneFlush'
    BY <1>6 DEF List
  <1>7. ASSUME NEW t \in Threads, NextFile(t) PROVE OneFlush'
    BY <1>7 DEF NextFile
  <1>8. ASSUME NEW t \in Threads, Send(t) PROVE OneFlush'
    BY <1>8 DEF Send, Ingest
  <1>9. ASSUME NEW t \in Threads, SendFails(t) PROVE OneFlush'
    BY <1>9 DEF SendFails
  <1>10. ASSUME NEW t \in Threads, AnswerLost(t) PROVE OneFlush'
    BY <1>10 DEF AnswerLost, Trouble, Ingest
  <1>11. ASSUME NEW t \in Threads, Unlink(t) PROVE OneFlush'
    BY <1>11 DEF Unlink
  <1>12. ASSUME NEW t \in Threads, UnlinkFails(t) PROVE OneFlush'
    BY <1>12 DEF UnlinkFails, Trouble
  <1>13. ASSUME NEW t \in Threads, Release(t) PROVE OneFlush'
    BY <1>13 DEF Release
  <1>14. ASSUME NEW t \in Threads, Check(t) PROVE OneFlush'
    BY <1>14 DEF Check
  <1>15. ASSUME NEW t \in Threads, Schedule(t) PROVE OneFlush'
    BY <1>15 DEF Schedule
  <1>16. ASSUME NEW t \in Threads, ScheduleFails(t) PROVE OneFlush'
    BY <1>16 DEF ScheduleFails, Trouble
  <1>17. ASSUME NEW t \in Threads, Fire(t) PROVE OneFlush'
    BY <1>17 DEF Fire
  <1>18. ASSUME NEW t \in Threads, Retry(t) PROVE OneFlush'
    BY <1>18 DEF Retry
  <1>19. ASSUME NEW t \in Threads, Restart(t) PROVE OneFlush'
    BY <1>19 DEF Restart
  <1>20. ASSUME NEW e \in Events, OtherFlusher(e) PROVE OneFlush'
    BY <1>20 DEF OtherFlusher, Ingest
  <1>21. ASSUME NEW e \in Events, Age(e) PROVE OneFlush'
    BY <1>21 DEF Age
  <1>22. ASSUME NEW e \in Events, Expire(e) PROVE OneFlush'
    BY <1>22 DEF Expire
  <1>23. CASE GoDown
    BY <1>23 DEF GoDown, Trouble
  <1>24. CASE ComeUp
    BY <1>24 DEF ComeUp
  <1>25. CASE Crash
    BY <1>25 DEF Crash
  <1>26. CASE UNCHANGED vars
    BY <1>26 DEF vars
  <1>27. QED
    BY <1>1, <1>2, <1>3, <1>4, <1>5, <1>6, <1>7, <1>8, <1>9,
       <1>10, <1>11, <1>12, <1>13, <1>14, <1>15, <1>16, <1>17, <1>18,
       <1>19, <1>20, <1>21, <1>22, <1>23, <1>24, <1>25, <1>26
    DEF Next, Step

(* The file in hand.                                                       *)
LEMMA SendingStep ==
    ASSUME TypeOK, OneFlush, Sending, Delivery, [Next]_vars
    PROVE  Sending'
  <1> USE FlushAssumption DEF TypeOK, OneFlush, Sending, Delivery, Goto, At, First, Flushing,
        diskVars, serviceVars, processVars, threadVars
  <1>1. ASSUME NEW t \in Threads, NEW e \in Events, Hook(t, e) PROVE Sending'
    BY <1>1 DEF Hook
  <1>2. ASSUME NEW t \in Threads, TryLock(t) PROVE Sending'
    BY <1>2 DEF TryLock
  <1>3. ASSUME NEW t \in Threads, CancelTimer(t) PROVE Sending'
    BY <1>3 DEF CancelTimer
  <1>4. ASSUME NEW t \in Threads, Start(t) PROVE Sending'
    BY <1>4 DEF Start
  <1>5. ASSUME NEW t \in Threads, StartFails(t) PROVE Sending'
    BY <1>5 DEF StartFails, Trouble
  <1>6. ASSUME NEW t \in Threads, List(t) PROVE Sending'
    BY <1>6 DEF List
  <1>7. ASSUME NEW t \in Threads, NextFile(t) PROVE Sending'
    BY <1>7 DEF NextFile
  <1>8. ASSUME NEW t \in Threads, Send(t) PROVE Sending'
    BY <1>8 DEF Send, Ingest
  <1>9. ASSUME NEW t \in Threads, SendFails(t) PROVE Sending'
    BY <1>9 DEF SendFails
  <1>10. ASSUME NEW t \in Threads, AnswerLost(t) PROVE Sending'
    BY <1>10 DEF AnswerLost, Trouble, Ingest
  <1>11. ASSUME NEW t \in Threads, Unlink(t) PROVE Sending'
    BY <1>11 DEF Unlink
  <1>12. ASSUME NEW t \in Threads, UnlinkFails(t) PROVE Sending'
    BY <1>12 DEF UnlinkFails, Trouble
  <1>13. ASSUME NEW t \in Threads, Release(t) PROVE Sending'
    BY <1>13 DEF Release
  <1>14. ASSUME NEW t \in Threads, Check(t) PROVE Sending'
    BY <1>14 DEF Check
  <1>15. ASSUME NEW t \in Threads, Schedule(t) PROVE Sending'
    BY <1>15 DEF Schedule
  <1>16. ASSUME NEW t \in Threads, ScheduleFails(t) PROVE Sending'
    BY <1>16 DEF ScheduleFails, Trouble
  <1>17. ASSUME NEW t \in Threads, Fire(t) PROVE Sending'
    BY <1>17 DEF Fire
  <1>18. ASSUME NEW t \in Threads, Retry(t) PROVE Sending'
    BY <1>18 DEF Retry
  <1>19. ASSUME NEW t \in Threads, Restart(t) PROVE Sending'
    BY <1>19 DEF Restart
  <1>20. ASSUME NEW e \in Events, OtherFlusher(e) PROVE Sending'
    BY <1>20 DEF OtherFlusher, Ingest
  <1>21. ASSUME NEW e \in Events, Age(e) PROVE Sending'
    BY <1>21 DEF Age
  <1>22. ASSUME NEW e \in Events, Expire(e) PROVE Sending'
    BY <1>22 DEF Expire
  <1>23. CASE GoDown
    BY <1>23 DEF GoDown, Trouble
  <1>24. CASE ComeUp
    BY <1>24 DEF ComeUp
  <1>25. CASE Crash
    BY <1>25 DEF Crash
  <1>26. CASE UNCHANGED vars
    BY <1>26 DEF vars
  <1>27. QED
    BY <1>1, <1>2, <1>3, <1>4, <1>5, <1>6, <1>7, <1>8, <1>9,
       <1>10, <1>11, <1>12, <1>13, <1>14, <1>15, <1>16, <1>17, <1>18,
       <1>19, <1>20, <1>21, <1>22, <1>23, <1>24, <1>25, <1>26
    DEF Next, Step

(* Sent, and still in the spool.                                           *)
LEMMA DeliveryStep ==
    ASSUME TypeOK, Down, OneFlush, Sending, Delivery, [Next]_vars
    PROVE  Delivery'
  <1> USE DEF TypeOK, Down, OneFlush, Sending, Delivery, Goto, At, First, Flushing,
        diskVars, serviceVars, processVars, threadVars
  <1>1. ASSUME NEW t \in Threads, NEW e \in Events, Hook(t, e) PROVE Delivery'
    BY <1>1 DEF Hook
  <1>2. ASSUME NEW t \in Threads, TryLock(t) PROVE Delivery'
    BY <1>2 DEF TryLock
  <1>3. ASSUME NEW t \in Threads, CancelTimer(t) PROVE Delivery'
    BY <1>3 DEF CancelTimer
  <1>4. ASSUME NEW t \in Threads, Start(t) PROVE Delivery'
    BY <1>4 DEF Start
  <1>5. ASSUME NEW t \in Threads, StartFails(t) PROVE Delivery'
    BY <1>5 DEF StartFails, Trouble
  <1>6. ASSUME NEW t \in Threads, List(t) PROVE Delivery'
    BY <1>6 DEF List
  <1>7. ASSUME NEW t \in Threads, NextFile(t) PROVE Delivery'
    BY <1>7 DEF NextFile
  <1>8. ASSUME NEW t \in Threads, Send(t) PROVE Delivery'
    BY <1>8 DEF Send, Ingest
  <1>9. ASSUME NEW t \in Threads, SendFails(t) PROVE Delivery'
    BY <1>9 DEF SendFails
  <1>10. ASSUME NEW t \in Threads, AnswerLost(t) PROVE Delivery'
    BY <1>10 DEF AnswerLost, Trouble, Ingest
  <1>11. ASSUME NEW t \in Threads, Unlink(t) PROVE Delivery'
    BY <1>11 DEF Unlink
  <1>12. ASSUME NEW t \in Threads, UnlinkFails(t) PROVE Delivery'
    BY <1>12 DEF UnlinkFails, Trouble
  <1>13. ASSUME NEW t \in Threads, Release(t) PROVE Delivery'
    BY <1>13 DEF Release
  <1>14. ASSUME NEW t \in Threads, Check(t) PROVE Delivery'
    BY <1>14 DEF Check
  <1>15. ASSUME NEW t \in Threads, Schedule(t) PROVE Delivery'
    BY <1>15 DEF Schedule
  <1>16. ASSUME NEW t \in Threads, ScheduleFails(t) PROVE Delivery'
    BY <1>16 DEF ScheduleFails, Trouble
  <1>17. ASSUME NEW t \in Threads, Fire(t) PROVE Delivery'
    BY <1>17 DEF Fire
  <1>18. ASSUME NEW t \in Threads, Retry(t) PROVE Delivery'
    BY <1>18 DEF Retry
  <1>19. ASSUME NEW t \in Threads, Restart(t) PROVE Delivery'
    BY <1>19 DEF Restart
  <1>20. ASSUME NEW e \in Events, OtherFlusher(e) PROVE Delivery'
    BY <1>20 DEF OtherFlusher, Ingest
  <1>21. ASSUME NEW e \in Events, Age(e) PROVE Delivery'
    BY <1>21 DEF Age
  <1>22. ASSUME NEW e \in Events, Expire(e) PROVE Delivery'
    BY <1>22 DEF Expire
  <1>23. CASE GoDown
    BY <1>23 DEF GoDown, Trouble
  <1>24. CASE ComeUp
    BY <1>24 DEF ComeUp
  <1>25. CASE Crash
    BY <1>25 DEF Crash
  <1>26. CASE UNCHANGED vars
    BY <1>26 DEF vars
  <1>27. QED
    BY <1>1, <1>2, <1>3, <1>4, <1>5, <1>6, <1>7, <1>8, <1>9,
       <1>10, <1>11, <1>12, <1>13, <1>14, <1>15, <1>16, <1>17, <1>18,
       <1>19, <1>20, <1>21, <1>22, <1>23, <1>24, <1>25, <1>26
    DEF Next, Step

(* Registered timers.                                                      *)
LEMMA TimerStep ==
    ASSUME TypeOK, Down, TimerLive, [Next]_vars
    PROVE  TimerLive'
  <1> USE FlushAssumption DEF TypeOK, Down, TimerLive, Goto, At, diskVars, serviceVars, processVars, threadVars
  <1>1. ASSUME NEW t \in Threads, NEW e \in Events, Hook(t, e) PROVE TimerLive'
    BY <1>1 DEF Hook
  <1>2. ASSUME NEW t \in Threads, TryLock(t) PROVE TimerLive'
    BY <1>2 DEF TryLock
  <1>3. ASSUME NEW t \in Threads, CancelTimer(t) PROVE TimerLive'
    BY <1>3 DEF CancelTimer
  <1>4. ASSUME NEW t \in Threads, Start(t) PROVE TimerLive'
    BY <1>4 DEF Start
  <1>5. ASSUME NEW t \in Threads, StartFails(t) PROVE TimerLive'
    BY <1>5 DEF StartFails, Trouble
  <1>6. ASSUME NEW t \in Threads, List(t) PROVE TimerLive'
    BY <1>6 DEF List
  <1>7. ASSUME NEW t \in Threads, NextFile(t) PROVE TimerLive'
    BY <1>7 DEF NextFile
  <1>8. ASSUME NEW t \in Threads, Send(t) PROVE TimerLive'
    BY <1>8 DEF Send, Ingest
  <1>9. ASSUME NEW t \in Threads, SendFails(t) PROVE TimerLive'
    BY <1>9 DEF SendFails
  <1>10. ASSUME NEW t \in Threads, AnswerLost(t) PROVE TimerLive'
    BY <1>10 DEF AnswerLost, Trouble, Ingest
  <1>11. ASSUME NEW t \in Threads, Unlink(t) PROVE TimerLive'
    BY <1>11 DEF Unlink
  <1>12. ASSUME NEW t \in Threads, UnlinkFails(t) PROVE TimerLive'
    BY <1>12 DEF UnlinkFails, Trouble
  <1>13. ASSUME NEW t \in Threads, Release(t) PROVE TimerLive'
    BY <1>13 DEF Release
  <1>14. ASSUME NEW t \in Threads, Check(t) PROVE TimerLive'
    BY <1>14 DEF Check
  <1>15. ASSUME NEW t \in Threads, Schedule(t) PROVE TimerLive'
    BY <1>15 DEF Schedule
  <1>16. ASSUME NEW t \in Threads, ScheduleFails(t) PROVE TimerLive'
    BY <1>16 DEF ScheduleFails, Trouble
  <1>17. ASSUME NEW t \in Threads, Fire(t) PROVE TimerLive'
    BY <1>17 DEF Fire
  <1>18. ASSUME NEW t \in Threads, Retry(t) PROVE TimerLive'
    BY <1>18 DEF Retry
  <1>19. ASSUME NEW t \in Threads, Restart(t) PROVE TimerLive'
    BY <1>19 DEF Restart
  <1>20. ASSUME NEW e \in Events, OtherFlusher(e) PROVE TimerLive'
    BY <1>20 DEF OtherFlusher, Ingest
  <1>21. ASSUME NEW e \in Events, Age(e) PROVE TimerLive'
    BY <1>21 DEF Age
  <1>22. ASSUME NEW e \in Events, Expire(e) PROVE TimerLive'
    BY <1>22 DEF Expire
  <1>23. CASE GoDown
    BY <1>23 DEF GoDown, Trouble
  <1>24. CASE ComeUp
    BY <1>24 DEF ComeUp
  <1>25. CASE Crash
    BY <1>25 DEF Crash
  <1>26. CASE UNCHANGED vars
    BY <1>26 DEF vars
  <1>27. QED
    BY <1>1, <1>2, <1>3, <1>4, <1>5, <1>6, <1>7, <1>8, <1>9,
       <1>10, <1>11, <1>12, <1>13, <1>14, <1>15, <1>16, <1>17, <1>18,
       <1>19, <1>20, <1>21, <1>22, <1>23, <1>24, <1>25, <1>26
    DEF Next, Step

(* Events leave for a reason.                                              *)
LEMMA LossStep ==
    ASSUME TypeOK, Sending, NoneLost, [Next]_vars
    PROVE  NoneLost'
  <1> USE DEF TypeOK, Sending, NoneLost, Goto, At, diskVars, serviceVars, processVars, threadVars
  <1>1. ASSUME NEW t \in Threads, NEW e \in Events, Hook(t, e) PROVE NoneLost'
    BY <1>1 DEF Hook
  <1>2. ASSUME NEW t \in Threads, TryLock(t) PROVE NoneLost'
    BY <1>2 DEF TryLock
  <1>3. ASSUME NEW t \in Threads, CancelTimer(t) PROVE NoneLost'
    BY <1>3 DEF CancelTimer
  <1>4. ASSUME NEW t \in Threads, Start(t) PROVE NoneLost'
    BY <1>4 DEF Start
  <1>5. ASSUME NEW t \in Threads, StartFails(t) PROVE NoneLost'
    BY <1>5 DEF StartFails, Trouble
  <1>6. ASSUME NEW t \in Threads, List(t) PROVE NoneLost'
    BY <1>6 DEF List
  <1>7. ASSUME NEW t \in Threads, NextFile(t) PROVE NoneLost'
    BY <1>7 DEF NextFile
  <1>8. ASSUME NEW t \in Threads, Send(t) PROVE NoneLost'
    BY <1>8 DEF Send, Ingest
  <1>9. ASSUME NEW t \in Threads, SendFails(t) PROVE NoneLost'
    BY <1>9 DEF SendFails
  <1>10. ASSUME NEW t \in Threads, AnswerLost(t) PROVE NoneLost'
    BY <1>10 DEF AnswerLost, Trouble, Ingest
  <1>11. ASSUME NEW t \in Threads, Unlink(t) PROVE NoneLost'
    BY <1>11 DEF Unlink
  <1>12. ASSUME NEW t \in Threads, UnlinkFails(t) PROVE NoneLost'
    BY <1>12 DEF UnlinkFails, Trouble
  <1>13. ASSUME NEW t \in Threads, Release(t) PROVE NoneLost'
    BY <1>13 DEF Release
  <1>14. ASSUME NEW t \in Threads, Check(t) PROVE NoneLost'
    BY <1>14 DEF Check
  <1>15. ASSUME NEW t \in Threads, Schedule(t) PROVE NoneLost'
    BY <1>15 DEF Schedule
  <1>16. ASSUME NEW t \in Threads, ScheduleFails(t) PROVE NoneLost'
    BY <1>16 DEF ScheduleFails, Trouble
  <1>17. ASSUME NEW t \in Threads, Fire(t) PROVE NoneLost'
    BY <1>17 DEF Fire
  <1>18. ASSUME NEW t \in Threads, Retry(t) PROVE NoneLost'
    BY <1>18 DEF Retry
  <1>19. ASSUME NEW t \in Threads, Restart(t) PROVE NoneLost'
    BY <1>19 DEF Restart
  <1>20. ASSUME NEW e \in Events, OtherFlusher(e) PROVE NoneLost'
    BY <1>20 DEF OtherFlusher, Ingest
  <1>21. ASSUME NEW e \in Events, Age(e) PROVE NoneLost'
    BY <1>21 DEF Age
  <1>22. ASSUME NEW e \in Events, Expire(e) PROVE NoneLost'
    BY <1>22 DEF Expire
  <1>23. CASE GoDown
    BY <1>23 DEF GoDown, Trouble
  <1>24. CASE ComeUp
    BY <1>24 DEF ComeUp
  <1>25. CASE Crash
    BY <1>25 DEF Crash
  <1>26. CASE UNCHANGED vars
    BY <1>26 DEF vars
  <1>27. QED
    BY <1>1, <1>2, <1>3, <1>4, <1>5, <1>6, <1>7, <1>8, <1>9,
       <1>10, <1>11, <1>12, <1>13, <1>14, <1>15, <1>16, <1>17, <1>18,
       <1>19, <1>20, <1>21, <1>22, <1>23, <1>24, <1>25, <1>26
    DEF Next, Step

(* Events are repeated for a reason.                                       *)
LEMMA RepeatStep ==
    ASSUME TypeOK, OneFlush, Sending, Delivery, SentOnce, [Next]_vars
    PROVE  SentOnce'
  <1> USE DEF TypeOK, OneFlush, Sending, Delivery, SentOnce, Goto, At, Flushing,
        diskVars, serviceVars, processVars, threadVars
  <1>1. ASSUME NEW t \in Threads, NEW e \in Events, Hook(t, e) PROVE SentOnce'
    BY <1>1 DEF Hook
  <1>2. ASSUME NEW t \in Threads, TryLock(t) PROVE SentOnce'
    BY <1>2 DEF TryLock
  <1>3. ASSUME NEW t \in Threads, CancelTimer(t) PROVE SentOnce'
    BY <1>3 DEF CancelTimer
  <1>4. ASSUME NEW t \in Threads, Start(t) PROVE SentOnce'
    BY <1>4 DEF Start
  <1>5. ASSUME NEW t \in Threads, StartFails(t) PROVE SentOnce'
    BY <1>5 DEF StartFails, Trouble
  <1>6. ASSUME NEW t \in Threads, List(t) PROVE SentOnce'
    BY <1>6 DEF List
  <1>7. ASSUME NEW t \in Threads, NextFile(t) PROVE SentOnce'
    BY <1>7 DEF NextFile
  <1>8. ASSUME NEW t \in Threads, Send(t) PROVE SentOnce'
    BY <1>8 DEF Send, Ingest
  <1>9. ASSUME NEW t \in Threads, SendFails(t) PROVE SentOnce'
    BY <1>9 DEF SendFails
  <1>10. ASSUME NEW t \in Threads, AnswerLost(t) PROVE SentOnce'
    BY <1>10 DEF AnswerLost, Trouble, Ingest
  <1>11. ASSUME NEW t \in Threads, Unlink(t) PROVE SentOnce'
    BY <1>11 DEF Unlink
  <1>12. ASSUME NEW t \in Threads, UnlinkFails(t) PROVE SentOnce'
    BY <1>12 DEF UnlinkFails, Trouble
  <1>13. ASSUME NEW t \in Threads, Release(t) PROVE SentOnce'
    BY <1>13 DEF Release
  <1>14. ASSUME NEW t \in Threads, Check(t) PROVE SentOnce'
    BY <1>14 DEF Check
  <1>15. ASSUME NEW t \in Threads, Schedule(t) PROVE SentOnce'
    BY <1>15 DEF Schedule
  <1>16. ASSUME NEW t \in Threads, ScheduleFails(t) PROVE SentOnce'
    BY <1>16 DEF ScheduleFails, Trouble
  <1>17. ASSUME NEW t \in Threads, Fire(t) PROVE SentOnce'
    BY <1>17 DEF Fire
  <1>18. ASSUME NEW t \in Threads, Retry(t) PROVE SentOnce'
    BY <1>18 DEF Retry
  <1>19. ASSUME NEW t \in Threads, Restart(t) PROVE SentOnce'
    BY <1>19 DEF Restart
  <1>20. ASSUME NEW e \in Events, OtherFlusher(e) PROVE SentOnce'
    BY <1>20 DEF OtherFlusher, Ingest
  <1>21. ASSUME NEW e \in Events, Age(e) PROVE SentOnce'
    BY <1>21 DEF Age
  <1>22. ASSUME NEW e \in Events, Expire(e) PROVE SentOnce'
    BY <1>22 DEF Expire
  <1>23. CASE GoDown
    BY <1>23 DEF GoDown, Trouble
  <1>24. CASE ComeUp
    BY <1>24 DEF ComeUp
  <1>25. CASE Crash
    BY <1>25 DEF Crash
  <1>26. CASE UNCHANGED vars
    BY <1>26 DEF vars
  <1>27. QED
    BY <1>1, <1>2, <1>3, <1>4, <1>5, <1>6, <1>7, <1>8, <1>9,
       <1>10, <1>11, <1>12, <1>13, <1>14, <1>15, <1>16, <1>17, <1>18,
       <1>19, <1>20, <1>21, <1>22, <1>23, <1>24, <1>25, <1>26
    DEF Next, Step

(* Somebody is left.                                                       *)
LEMMA AttendedStep ==
    ASSUME TypeOK, OneFlush, TimerLive, Attended, [Next]_vars
    PROVE  Attended'
  <1> USE FlushAssumption DEF TypeOK, OneFlush, TimerLive, Attended, Goto, At, Flushing,
        diskVars, serviceVars, processVars, threadVars
  <1>1. ASSUME NEW t \in Threads, NEW e \in Events, Hook(t, e) PROVE Attended'
    BY <1>1 DEF Hook
  <1>2. ASSUME NEW t \in Threads, TryLock(t) PROVE Attended'
    BY <1>2 DEF TryLock
  <1>3. ASSUME NEW t \in Threads, CancelTimer(t) PROVE Attended'
    BY <1>3 DEF CancelTimer
  <1>4. ASSUME NEW t \in Threads, Start(t) PROVE Attended'
    BY <1>4 DEF Start
  <1>5. ASSUME NEW t \in Threads, StartFails(t) PROVE Attended'
    BY <1>5 DEF StartFails, Trouble
  <1>6. ASSUME NEW t \in Threads, List(t) PROVE Attended'
    BY <1>6 DEF List
  <1>7. ASSUME NEW t \in Threads, NextFile(t) PROVE Attended'
    BY <1>7 DEF NextFile
  <1>8. ASSUME NEW t \in Threads, Send(t) PROVE Attended'
    BY <1>8 DEF Send, Ingest
  <1>9. ASSUME NEW t \in Threads, SendFails(t) PROVE Attended'
    BY <1>9 DEF SendFails
  <1>10. ASSUME NEW t \in Threads, AnswerLost(t) PROVE Attended'
    BY <1>10 DEF AnswerLost, Trouble, Ingest
  <1>11. ASSUME NEW t \in Threads, Unlink(t) PROVE Attended'
    BY <1>11 DEF Unlink
  <1>12. ASSUME NEW t \in Threads, UnlinkFails(t) PROVE Attended'
    BY <1>12 DEF UnlinkFails, Trouble
  <1>13. ASSUME NEW t \in Threads, Release(t) PROVE Attended'
    BY <1>13 DEF Release
  <1>14. ASSUME NEW t \in Threads, Check(t) PROVE Attended'
    BY <1>14 DEF Check
  <1>15. ASSUME NEW t \in Threads, Schedule(t) PROVE Attended'
    BY <1>15 DEF Schedule
  <1>16. ASSUME NEW t \in Threads, ScheduleFails(t) PROVE Attended'
    BY <1>16 DEF ScheduleFails, Trouble
  <1>17. ASSUME NEW t \in Threads, Fire(t) PROVE Attended'
    BY <1>17 DEF Fire
  <1>18. ASSUME NEW t \in Threads, Retry(t) PROVE Attended'
    BY <1>18 DEF Retry
  <1>19. ASSUME NEW t \in Threads, Restart(t) PROVE Attended'
    BY <1>19 DEF Restart
  <1>20. ASSUME NEW e \in Events, OtherFlusher(e) PROVE Attended'
    BY <1>20 DEF OtherFlusher, Ingest
  <1>21. ASSUME NEW e \in Events, Age(e) PROVE Attended'
    BY <1>21 DEF Age
  <1>22. ASSUME NEW e \in Events, Expire(e) PROVE Attended'
    BY <1>22 DEF Expire
  <1>23. CASE GoDown
    BY <1>23 DEF GoDown, Trouble
  <1>24. CASE ComeUp
    BY <1>24 DEF ComeUp
  <1>25. CASE Crash
    BY <1>25 DEF Crash
  <1>26. CASE UNCHANGED vars
    BY <1>26 DEF vars
  <1>27. QED
    BY <1>1, <1>2, <1>3, <1>4, <1>5, <1>6, <1>7, <1>8, <1>9,
       <1>10, <1>11, <1>12, <1>13, <1>14, <1>15, <1>16, <1>17, <1>18,
       <1>19, <1>20, <1>21, <1>22, <1>23, <1>24, <1>25, <1>26
    DEF Next, Step

-----------------------------------------------------------------------------
LEMMA Inductive == Spec => []IInv
<1>1. Init => IInv
  <2> SUFFICES ASSUME Init PROVE IInv
    OBVIOUS
  <2>1. TypeOK
    <3>1. delivered \in [Threads -> 0..Batch] /\ troubles \in 0..MaxTroubles
          /\ crashes \in 0..MaxCrashes
      BY FlushAssumption DEF Init
    <3>2. pc \in [Threads -> Label] /\ todo \in [Threads -> SUBSET Events]
      BY DEF Init, Label
    <3>3. flushLock \in BOOLEAN /\ <<up, running, stranded>> \in BOOLEAN \X BOOLEAN \X BOOLEAN
      BY DEF Init
    <3>4. \A t \in Threads : pc[t] \in {"send", "unlink"} => todo[t] # {}
      BY DEF Init
    <3>5. retryTimer \in Threads \cup {NoTimer, DeadTimer}
      BY DEF Init
    <3>6. QED  BY <3>1, <3>2, <3>3, <3>4, <3>5 DEF Init, TypeOK
  <2>2. Down /\ OneFlush /\ Sending /\ Delivery
    BY DEF Init, Down, OneFlush, Sending, Delivery, Flushing
  <2>3. TimerLive /\ NoneLost /\ SentOnce /\ Attended
    BY FlushAssumption DEF Init, TimerLive, NoneLost, SentOnce, Attended
  <2>4. QED  BY <2>1, <2>2, <2>3 DEF IInv
<1>2. IInv /\ [Next]_vars => IInv'
  BY TypeStep, DownStep, OneFlushStep, SendingStep, DeliveryStep, TimerStep, LossStep,
     RepeatStep, AttendedStep
  DEF IInv
<1>3. QED
  BY <1>1, <1>2, PTL DEF Spec

(* Types of the flush model, for all threads and events.                   *)
THEOREM FlushTypeCorrect == Spec => []TypeOK
  BY Inductive, PTL DEF IInv

(* A file leaves the spool only once the service has its event or its      *)
(* retention is over (outbox.py:263-281).                                  *)
THEOREM NothingLost == Spec => []NoneLost
  BY Inductive, PTL DEF IInv

(* An event reaches the service again only after a lost answer, a death    *)
(* or an error between send and unlink, or another process                 *)
(* (outbox.py:274-280).                                                    *)
THEOREM SentAgainForCause == Spec => []SentOnce
  BY Inductive, PTL DEF IInv

(* _flush_lock is held exactly while one flush is under way                *)
(* (outbox.py:210-244).                                                    *)
THEOREM LockIsFlush == Spec => []LockHeldByFlush
<1> DEFINE F == {t \in Threads : pc[t] \in Flushing}
<1>1. ASSUME OneFlush PROVE Cardinality(F) = IF flushLock THEN 1 ELSE 0
  <2>1. CASE flushLock
    <3>1. PICK t \in Threads : pc[t] \in Flushing
      BY <1>1, <2>1 DEF OneFlush
    <3>2. F = {t}
      BY <1>1, <3>1 DEF OneFlush
    <3>3. QED  BY <2>1, <3>2, FS_Singleton
  <2>2. CASE ~flushLock
    <3>1. F = {}
      BY <1>1, <2>2 DEF OneFlush
    <3>2. QED  BY <2>2, <3>1, FS_EmptySet
  <2>3. QED  BY <2>1, <2>2
<1>2. IInv => LockHeldByFlush
  BY <1>1 DEF IInv, LockHeldByFlush
<1>3. QED
  BY <1>2, Inductive, PTL

(* While an event is queued, some thread or timer will look at the queue   *)
(* again, unless one failed to start (outbox.py:211-212, 228-236,          *)
(* 246-261).                                                               *)
THEOREM SomebodyAttends == Spec => []Attended
  BY Inductive, PTL DEF IInv
=============================================================================
