--------------------------- MODULE McpProxyProofs ---------------------------
(***************************************************************************)
(* What holds of the MCP proxy for every number of calls, every use of ids *)
(* by the host and the server, every cap and every policy service.         *)
(*                                                                         *)
(* The ground of the argument is Mapped: evaluating has exactly the calls  *)
(* between their acceptance and their end, each under its own id, and      *)
(* pending has calls that were forwarded, of which nothing is reported.    *)
(* Hence the id of a call that is forwarded is tracked already, and the    *)
(* cap cannot be exceeded there; a call at the server is the pending call  *)
(* of its id, unless the id is ambiguous (Sent), and so an answer is taken *)
(* for the call it is of.                                                  *)
(***************************************************************************)
EXTENDS McpProxy, FiniteSetTheorems, TLAPS

Live == {"policy", "permit", "judged", "done"}
Undecided == {"policy", "permit", "judged"}
Unreported(c) == \A s \in Statuses : <<c, s>> \notin reported

(* The two maps and the stages of the calls in them.                       *)
Mapped ==
    /\ \A i \in Ids : evaluating[i] # None =>
          CallId[evaluating[i]] = i /\ stage[evaluating[i]] \in Live
    /\ \A c \in Calls : stage[c] \in Live => evaluating[CallId[c]] = c
    /\ \A c \in Calls : stage[c] \in Undecided => pending[CallId[c]] = None
    /\ \A i \in Ids : pending[i] # None =>
          /\ CallId[pending[i]] = i /\ stage[pending[i]] \in {"done", "settled"}
          /\ forwarded[pending[i]] # None /\ Unreported(pending[i])

(* A call that is not decided yet has left no trace.                       *)
Fresh == \A c \in Calls : stage[c] \in {"new"} \cup Undecided =>
            /\ forwarded[c] = None /\ replies[c] = 0
            /\ c \notin inFlight /\ Unreported(c)

(* A call is at the server or its answer is on the way, once, and while it *)
(* is, the proxy keeps it under its id.                                    *)
Out(c) == c \in atServer \/ \E s \in {"success", "failure"} : <<c, s>> \in fromServer
Sent == /\ \A c \in Calls : Out(c) =>
              /\ forwarded[c] # None /\ replies[c] = 0
              /\ ~Ambiguous(CallId[c]) => pending[CallId[c]] = c
        /\ \A c \in atServer, s \in {"success", "failure"} : <<c, s>> \notin fromServer
        /\ \A c \in Calls : <<c, "success">> \in fromServer => <<c, "failure">> \notin fromServer

Room == IsFiniteSet(Tracked) /\ Cardinality(Tracked) <= MaxPending

(* Nothing comes from the server any more once the proxy closes.           *)
Closing == /\ server = "exited" => atServer = {}
           /\ proxy # "running" => /\ server = "exited" /\ fromServer = {}
                                   /\ \A c \in inFlight \ awaited : forwarded[c] = None
           /\ proxy = "exited" => awaited = {}

(* What was reported of a call is one thing.                               *)
Single == \A c \in Calls, s, t \in Statuses :
             <<c, s>> \in reported /\ <<c, t>> \in reported => s = t

(* Only what passed was forwarded.                                         *)
Passed == \A c \in Guarded : forwarded[c] # None => Passes(c)

Inv == /\ TypeOK /\ Mapped /\ Fresh /\ Sent /\ Room /\ Closing
       /\ Single /\ OutcomeTrue /\ Passed

(* ------------------------------ Beginnings ------------------------------ *)

LEMMA InitInv == ASSUME Init PROVE Inv
<1> USE ProxyAssumption
<1>1. TypeOK
  BY DEF Init, TypeOK, Stages
<1>2. Mapped /\ Fresh /\ Sent
  BY DEF Init, Mapped, Fresh, Sent, Out, Unreported, Live, Undecided
<1>3. Room
  <2>1. Tracked = {}
    BY DEF Init, Tracked
  <2> QED
    BY <2>1, FS_EmptySet DEF Room
<1>4. Closing /\ Single /\ OutcomeTrue /\ Passed
  BY DEF Init, Closing, Single, OutcomeTrue, Passed
<1> QED
  BY <1>1, <1>2, <1>3, <1>4 DEF Inv

(* ------------------------------- The steps ------------------------------ *)

LEMMA TypeKept ==
    ASSUME TypeOK, Fresh, Sent, [Next]_vars PROVE TypeOK'
<1> USE ProxyAssumption DEF policyVars, mapVars, pipeVars, reportVars, lifeVars
<1>1. ASSUME NEW c \in Calls, Reject(c) PROVE TypeOK'
  BY <1>1 DEF Reject, Goto, At, Reply, Listening, TypeOK, Stages, Statuses,
         Fresh
<1>2. ASSUME NEW c \in Calls, Accept(c) PROVE TypeOK'
  BY <1>2 DEF Accept, Goto, At, Write, Listening, Refusable, TypeOK, Stages,
         Statuses, Args
<1>3. ASSUME NEW c \in Calls, NEW a \in PolicySays[c], Judge(c, a) PROVE TypeOK'
  BY <1>3 DEF Judge, Goto, At, TypeOK, Stages, Statuses, Answers
<1>4. ASSUME NEW c \in Calls, NEW v \in {"valid", "invalid", "unreadable"}, Verify(c, v) PROVE TypeOK'
  BY <1>4 DEF Verify, Goto, At, TypeOK, Stages, Statuses
<1>5. ASSUME NEW c \in Calls, Drop(c) PROVE TypeOK'
  BY <1>5 DEF Drop, Goto, At, TypeOK, Stages, Statuses
<1>6. ASSUME NEW c \in Calls, Forward(c) PROVE TypeOK'
  BY <1>6 DEF Forward, Goto, At, Write, TypeOK, Stages, Statuses, Args,
         ClearedArgs
<1>7. ASSUME NEW c \in Calls, Refuse(c) PROVE TypeOK'
  BY <1>7 DEF Refuse, Goto, At, Reply, Track, TypeOK, Stages, Statuses,
         Fresh, Undecided
<1>8. ASSUME NEW c \in Calls, Settle(c) PROVE TypeOK'
  BY <1>8 DEF Settle, Goto, At, TypeOK, Stages, Statuses
<1>9. ASSUME NEW c \in Calls, TelemetrySettles(c) PROVE TypeOK'
  BY <1>9 DEF TelemetrySettles, TypeOK, Stages, Statuses
<1>10. ASSUME NEW c \in Calls, NEW s \in {"success", "failure"}, Relay(c, s) PROVE TypeOK'
  <2>1. replies[c] = 0
    BY <1>10 DEF Relay, Sent, Out
  <2>2. replies' \in [Calls -> 0..1]
    BY <1>10, <2>1 DEF Relay, Reply, TypeOK
  <2>3. pending' \in [Ids -> Calls \cup {None}]
    BY <1>10 DEF Relay, TakePending, TypeOK
  <2>4. reported' \subseteq Calls \X Statuses /\ inFlight' \subseteq Calls
    BY <1>10 DEF Relay, TakePending, Track, TypeOK, Statuses
  <2> QED
    BY <1>10, <2>2, <2>3, <2>4 DEF Relay, TypeOK
<1>11. ASSUME NEW c \in Calls, NEW s \in {"success", "failure"}, ServerAnswers(c, s) PROVE TypeOK'
  BY <1>11 DEF ServerAnswers, TypeOK, Stages, Statuses
<1>12. ASSUME NEW i \in Ids, Cancel(i) PROVE TypeOK'
  BY <1>12 DEF Cancel, Listening, TypeOK, Stages, Statuses
<1>13. ASSUME NEW i \in Ids, ServerRequest(i) PROVE TypeOK'
  BY <1>13 DEF ServerRequest, TakePending, Track, TypeOK, Stages, Statuses
<1>14. ASSUME NEW i \in Ids, Lapse(i) PROVE TypeOK'
  BY <1>14 DEF Lapse, TypeOK, Stages, Statuses
<1>15. ASSUME HostCloses PROVE TypeOK'
  BY <1>15 DEF HostCloses, Listening, TypeOK, Stages, Statuses
<1>16. ASSUME EndServer PROVE TypeOK'
  BY <1>16 DEF EndServer, TypeOK, Stages, Statuses
<1>17. ASSUME ServerExits PROVE TypeOK'
  BY <1>17 DEF ServerExits, TypeOK, Stages, Statuses
<1>18. ASSUME Close PROVE TypeOK'
  BY <1>18 DEF Close, TypeOK, Stages, Statuses
<1>19. ASSUME Exit PROVE TypeOK'
  BY <1>19 DEF Exit, TypeOK, Stages, Statuses
<1>20. CASE UNCHANGED <<aborted, answer, atServer, awaited, cancels, evaluating, forwarded, fromServer, hostOpen, inFlight, lapsed, pending, permit, proxy, replies, reported, server, stage>>
  BY <1>20 DEF TypeOK, Stages, Statuses
<1> QED
  BY <1>1, <1>2, <1>3, <1>4, <1>5, <1>6, <1>7, <1>8, <1>9, <1>10, <1>11, <1>12, <1>13, <1>14, <1>15, <1>16, <1>17, <1>18, <1>19, <1>20 DEF
         Next, Handle, vars

(* What was pending under an id has its outcome reported, and no other.    *)
LEMMA TakeKeeps ==
    ASSUME TypeOK, Mapped, NEW i \in Ids, NEW s \in {"success", "failure"},
           TakePending(i, s), UNCHANGED <<stage, evaluating, forwarded>>
    PROVE  /\ Mapped'
           /\ \A c \in Calls : stage[c] \notin {"done", "settled"} =>
                 /\ Unreported(c) => Unreported(c)'
                 /\ c \in inFlight' => c \in inFlight
<1> USE ProxyAssumption
<1>1. \A j \in Ids : pending'[j] = IF j = i THEN None ELSE pending[j]
  BY DEF TakePending, TypeOK
<1>2. CASE pending[i] = None
  BY <1>1, <1>2 DEF TakePending, Mapped, Unreported, Live, Undecided
<1>3. CASE pending[i] # None
  <2> DEFINE p == pending[i]
  <2>1. /\ p \in Calls /\ CallId[p] = i /\ stage[p] \in {"done", "settled"}
        /\ reported' = reported \cup {<<p, s>>} /\ inFlight' = inFlight \cup {p}
    BY <1>3 DEF TakePending, Track, Mapped, TypeOK
  <2> HIDE DEF p
  <2>2. ASSUME NEW c \in Calls, c # p
        PROVE  (Unreported(c) => Unreported(c)') /\ (c \in inFlight' => c \in inFlight)
    BY <2>1, <2>2 DEF Unreported
  <2>3. ASSUME NEW j \in Ids, pending'[j] # None PROVE j # i /\ pending[j] # p
    BY <1>1, <2>1, <2>3 DEF Mapped
  <2>4. ASSUME NEW j \in Ids, pending'[j] # None
        PROVE  /\ CallId[pending'[j]] = j /\ stage'[pending'[j]] \in {"done", "settled"}
               /\ forwarded'[pending'[j]] # None /\ Unreported(pending[j])'
    <3>1. PICK q \in Calls : pending'[j] = q /\ pending[j] = q /\ q # p
      BY <1>1, <2>3, <2>4 DEF TypeOK
    <3>2. Unreported(q) /\ CallId[q] = j /\ stage[q] \in {"done", "settled"} /\ forwarded[q] # None
      BY <2>4, <3>1 DEF Mapped
    <3>3. Unreported(q)'
      BY <2>2, <3>1, <3>2
    <3> QED
      BY <3>1, <3>2, <3>3 DEF Unreported
  <2>5. Mapped'
    BY <1>1, <2>4 DEF Mapped, Undecided
  <2> QED
    BY <2>1, <2>2, <2>5
<1> QED
  BY <1>2, <1>3

LEMMA MappedKept ==
    ASSUME TypeOK, Mapped, Fresh, [Next]_vars PROVE Mapped'
<1> USE ProxyAssumption, TypeOK DEF policyVars, mapVars, pipeVars, reportVars, lifeVars
<1>1. ASSUME NEW c \in Calls, Reject(c) PROVE Mapped'
  BY <1>1 DEF Reject, Goto, At, Reply, Listening, Mapped, Live, Undecided,
         Unreported
<1>2. ASSUME NEW c \in Calls, Accept(c) PROVE Mapped'
  BY <1>2 DEF Accept, Goto, At, Write, Listening, Refusable, Mapped, Live,
         Undecided, Unreported, Refusable, Tracked, Fresh, TypeOK
<1>3. ASSUME NEW c \in Calls, NEW a \in PolicySays[c], Judge(c, a) PROVE Mapped'
  BY <1>3 DEF Judge, Goto, At, Mapped, Live, Undecided, Unreported
<1>4. ASSUME NEW c \in Calls, NEW v \in {"valid", "invalid", "unreadable"}, Verify(c, v) PROVE Mapped'
  BY <1>4 DEF Verify, Goto, At, Mapped, Live, Undecided, Unreported
<1>5. ASSUME NEW c \in Calls, Drop(c) PROVE Mapped'
  BY <1>5 DEF Drop, Goto, At, Mapped, Live, Undecided, Unreported
<1>6. ASSUME NEW c \in Calls, Forward(c) PROVE Mapped'
  BY <1>6 DEF Forward, Goto, At, Write, Mapped, Live, Undecided, Unreported,
         Fresh, TypeOK, ClearedArgs, Args
<1>7. ASSUME NEW c \in Calls, Refuse(c) PROVE Mapped'
  BY <1>7 DEF Refuse, Goto, At, Reply, Track, Mapped, Live, Undecided,
         Unreported, Fresh, TypeOK
<1>8. ASSUME NEW c \in Calls, Settle(c) PROVE Mapped'
  BY <1>8 DEF Settle, Goto, At, Mapped, Live, Undecided, Unreported, TypeOK
<1>9. ASSUME NEW c \in Calls, NEW s \in {"success", "failure"}, Relay(c, s) PROVE Mapped'
  BY <1>9, TakeKeeps DEF Relay
<1>10. ASSUME NEW i \in Ids, ServerRequest(i) PROVE Mapped'
  BY <1>10, TakeKeeps DEF ServerRequest
<1>11. ASSUME NEW i \in Ids, Lapse(i) PROVE Mapped'
  BY <1>11 DEF Lapse, Mapped, Live, Undecided, Unreported
<1>12. CASE UNCHANGED <<evaluating, forwarded, pending, reported, stage>>
  BY <1>12 DEF Mapped, Live, Undecided, Unreported
<1> QED
  BY <1>1, <1>2, <1>3, <1>4, <1>5, <1>6, <1>7, <1>8, <1>9, <1>10, <1>11, <1>12 DEF
         Next, Handle, vars, TelemetrySettles, ServerAnswers, Cancel,
         HostCloses, EndServer, ServerExits, Close, Exit

LEMMA FreshKept ==
    ASSUME TypeOK, Mapped, Fresh, Sent, [Next]_vars PROVE Fresh'
<1> USE ProxyAssumption DEF policyVars, mapVars, pipeVars, reportVars, lifeVars
<1>1. ASSUME NEW c \in Calls, Reject(c) PROVE Fresh'
  BY <1>1 DEF Reject, Goto, At, Reply, Listening, Fresh, Undecided,
         Unreported, TypeOK
<1>2. ASSUME NEW c \in Calls, Accept(c) PROVE Fresh'
  BY <1>2 DEF Accept, Goto, At, Write, Listening, Refusable, Fresh,
         Undecided, Unreported, TypeOK
<1>3. ASSUME NEW c \in Calls, NEW a \in PolicySays[c], Judge(c, a) PROVE Fresh'
  BY <1>3 DEF Judge, Goto, At, Fresh, Undecided, Unreported
<1>4. ASSUME NEW c \in Calls, NEW v \in {"valid", "invalid", "unreadable"}, Verify(c, v) PROVE Fresh'
  BY <1>4 DEF Verify, Goto, At, Fresh, Undecided, Unreported
<1>5. ASSUME NEW c \in Calls, Drop(c) PROVE Fresh'
  BY <1>5 DEF Drop, Goto, At, Fresh, Undecided, Unreported
<1>6. ASSUME NEW c \in Calls, Forward(c) PROVE Fresh'
  BY <1>6 DEF Forward, Goto, At, Write, Fresh, Undecided, Unreported, TypeOK
<1>7. ASSUME NEW c \in Calls, Refuse(c) PROVE Fresh'
  BY <1>7 DEF Refuse, Goto, At, Reply, Track, Fresh, Undecided, Unreported,
         TypeOK, Statuses
<1>8. ASSUME NEW c \in Calls, Settle(c) PROVE Fresh'
  BY <1>8 DEF Settle, Goto, At, Fresh, Undecided, Unreported
<1>9. ASSUME NEW c \in Calls, TelemetrySettles(c) PROVE Fresh'
  BY <1>9 DEF TelemetrySettles, Fresh, Undecided, Unreported
<1>10. ASSUME NEW c \in Calls, NEW s \in {"success", "failure"}, Relay(c, s) PROVE Fresh'
  <2>1. \A d \in Calls : stage[d] \notin {"done", "settled"} =>
           (Unreported(d) => Unreported(d)') /\ (d \in inFlight' => d \in inFlight)
    BY <1>10, TakeKeeps DEF Relay
  <2>2. forwarded[c] # None
    BY <1>10 DEF Relay, Sent, Out
  <2>3. stage[c] \notin {"new"} \cup Undecided
    BY <2>2 DEF Fresh
  <2>4. \A d \in Calls \ {c} : replies'[d] = replies[d]
    BY <1>10 DEF Relay, Reply, TypeOK
  <2> QED
    BY <1>10, <2>1, <2>3, <2>4 DEF Relay, Fresh, Undecided
<1>11. ASSUME NEW i \in Ids, ServerRequest(i) PROVE Fresh'
  <2>1. \A d \in Calls : stage[d] \notin {"done", "settled"} =>
           (Unreported(d) => Unreported(d)') /\ (d \in inFlight' => d \in inFlight)
    BY <1>11, TakeKeeps DEF ServerRequest
  <2> QED
    BY <1>11, <2>1 DEF ServerRequest, Fresh, Undecided
<1>12. CASE UNCHANGED <<forwarded, inFlight, replies, reported, stage>>
  BY <1>12 DEF Fresh, Undecided, Unreported
<1> QED
  BY <1>1, <1>2, <1>3, <1>4, <1>5, <1>6, <1>7, <1>8, <1>9, <1>10, <1>11, <1>12 DEF
         Next, Handle, vars, ServerAnswers, Cancel, Lapse, HostCloses,
         EndServer, ServerExits, Close, Exit

LEMMA SentKept ==
    ASSUME TypeOK, Mapped, Fresh, Sent, [Next]_vars PROVE Sent'
<1> USE ProxyAssumption DEF policyVars, mapVars, pipeVars, reportVars, lifeVars
<1>1. ASSUME NEW c \in Calls, Reject(c) PROVE Sent'
  BY <1>1 DEF Reject, Goto, At, Reply, Listening, Sent, Out, Ambiguous,
         Mapped, TypeOK, Fresh, Undecided
<1>2. ASSUME NEW c \in Calls, Accept(c) PROVE Sent'
  <2>1. CASE c \in Guarded
    BY <1>2, <2>1 DEF Accept, Sent, Out, Ambiguous
  <2>2. CASE c \notin Guarded
    <3>1. /\ Write(c, "original") /\ UNCHANGED <<replies, pending, fromServer, lapsed>>
          /\ stage[c] = "new" /\ Ambiguous(CallId[c])' /\ replies[c] = 0 /\ forwarded[c] = None
      BY <1>2, <2>2 DEF Accept, At, Ambiguous, Fresh
    <3>2. forwarded'[c] = "original" /\ \A d \in Calls \ {c} : forwarded'[d] = forwarded[d]
      BY <3>1 DEF Write, TypeOK
    <3>3. ~Out(c) /\ \A d \in Calls \ {c} : Out(d)' => Out(d)
      BY <3>1 DEF Out, Sent, Write
    <3>4. \A d \in Calls : Ambiguous(CallId[d]) => Ambiguous(CallId[d])'
      BY <3>1 DEF Ambiguous
    <3> QED
      BY <3>1, <3>2, <3>3, <3>4 DEF Sent, Out, Write, Args
  <2> QED
    BY <2>1, <2>2
<1>3. ASSUME NEW c \in Calls, Forward(c) PROVE Sent'
  <2>1. /\ Write(c, ClearedArgs(c)) /\ stage[c] = "judged" /\ ClearedArgs(c) \in Args
        /\ pending' = [pending EXCEPT ![CallId[c]] = c] /\ UNCHANGED <<replies, fromServer, lapsed>>
    BY <1>3 DEF Forward, At, ClearedArgs, Args
  <2>2. pending[CallId[c]] = None /\ replies[c] = 0 /\ forwarded[c] = None
    BY <2>1 DEF Mapped, Fresh, Undecided
  <2>3. /\ forwarded'[c] # None /\ \A d \in Calls \ {c} : forwarded'[d] = forwarded[d]
        /\ pending'[CallId[c]] = c
    BY <2>1 DEF Write, TypeOK
  <2>4. ~Out(c) /\ \A d \in Calls \ {c} : Out(d)' => Out(d)
    BY <2>1, <2>2 DEF Out, Sent, Write
  <2>5. ASSUME NEW d \in Calls \ {c}, Out(d), ~Ambiguous(CallId[d])' PROVE pending'[CallId[d]] = d
    <3>1. pending[CallId[d]] = d
      BY <2>1, <2>5 DEF Sent, Ambiguous
    <3> QED
      BY <2>1, <2>2, <3>1 DEF TypeOK
  <2> QED
    BY <2>1, <2>2, <2>3, <2>4, <2>5 DEF Sent, Out, Write
<1>4. ASSUME NEW c \in Calls, Refuse(c) PROVE Sent'
  BY <1>4 DEF Refuse, Goto, At, Reply, Track, Sent, Out, Ambiguous, Mapped,
         TypeOK, Fresh, Undecided
<1>5. ASSUME NEW c \in Calls, NEW s \in {"success", "failure"}, Relay(c, s) PROVE Sent'
  <2>1. /\ <<c, s>> \in fromServer /\ fromServer' = fromServer \ {<<c, s>>} /\ Out(c)
        /\ UNCHANGED <<forwarded, atServer, lapsed>>
        /\ \A i \in Ids \ {CallId[c]} : pending'[i] = pending[i]
        /\ \A d \in Calls \ {c} : replies'[d] = replies[d]
    BY <1>5 DEF Relay, Reply, TakePending, TypeOK, Out
  <2>2. ~Out(c)' /\ \A d \in Calls : Out(d)' => Out(d)
    BY <2>1 DEF Out, Sent
  <2>3. ASSUME NEW d \in Calls \ {c}, Out(d), ~Ambiguous(CallId[d])' PROVE pending'[CallId[d]] = d
    <3>1. ~Ambiguous(CallId[d]) /\ pending[CallId[d]] = d
      BY <2>1, <2>3 DEF Sent, Ambiguous
    <3>2. CallId[d] # CallId[c]
      BY <2>1, <3>1 DEF Sent
    <3> QED
      BY <2>1, <3>1, <3>2
  <2> QED
    BY <2>1, <2>2, <2>3 DEF Sent
<1>6. ASSUME NEW c \in Calls, NEW s \in {"success", "failure"}, ServerAnswers(c, s) PROVE Sent'
  BY <1>6 DEF ServerAnswers, Sent, Out, Ambiguous, Mapped, TypeOK, Fresh,
         Undecided
<1>7. ASSUME NEW i \in Ids, ServerRequest(i) PROVE Sent'
  BY <1>7 DEF ServerRequest, TakePending, Track, Sent, Out, Ambiguous,
         Mapped, TypeOK, Fresh, Undecided
<1>8. ASSUME NEW i \in Ids, Lapse(i) PROVE Sent'
  BY <1>8 DEF Lapse, Sent, Out, Ambiguous, Mapped, TypeOK, Fresh, Undecided
<1>9. ASSUME ServerExits PROVE Sent'
  BY <1>9 DEF ServerExits, Sent, Out, Ambiguous, Mapped, TypeOK, Fresh,
         Undecided
<1>10. CASE UNCHANGED <<atServer, forwarded, fromServer, lapsed, pending, replies>>
  BY <1>10 DEF Sent, Out, Ambiguous
<1> QED
  BY <1>1, <1>2, <1>3, <1>4, <1>5, <1>6, <1>7, <1>8, <1>9, <1>10 DEF Next,
         Handle, vars, Judge, Verify, Drop, Settle, TelemetrySettles, Cancel,
         HostCloses, EndServer, Close, Exit

(* Ids that are no longer tracked leave the rest within the cap.           *)
LEMMA FewerTracked == ASSUME Room, Tracked' \subseteq Tracked PROVE Room'
<1>1. /\ IsFiniteSet(Tracked') /\ Cardinality(Tracked') <= Cardinality(Tracked)
      /\ Cardinality(Tracked) \in Nat /\ Cardinality(Tracked') \in Nat
  BY FS_Subset, FS_CardinalityType DEF Room
<1>2. MaxPending \in Nat
  BY ProxyAssumption
<1> HIDE DEF Tracked
<1> QED
  BY <1>1, <1>2 DEF Room

LEMMA RoomKept ==
    ASSUME TypeOK, Mapped, Room, [Next]_vars PROVE Room'
<1> USE ProxyAssumption DEF policyVars, mapVars, pipeVars, reportVars, lifeVars
<1>1. ASSUME NEW c \in Calls, Accept(c) PROVE Room'
  <2>1. /\ evaluating' = [evaluating EXCEPT ![CallId[c]] = c] /\ UNCHANGED pending
        /\ CallId[c] \notin Tracked /\ ~(Cardinality(Tracked) >= MaxPending)
    BY <1>1 DEF Accept, Refusable
  <2>2. Tracked' = Tracked \cup {CallId[c]}
    BY <2>1 DEF Tracked, TypeOK
  <2>3. /\ IsFiniteSet(Tracked') /\ Cardinality(Tracked') = Cardinality(Tracked) + 1
        /\ Cardinality(Tracked) \in Nat
    BY <2>1, <2>2, FS_AddElement, FS_CardinalityType DEF Room
  <2> QED
    BY <2>1, <2>3 DEF Room
<1>2. ASSUME NEW c \in Calls, Forward(c) PROVE Room'
  <2>1. Tracked' = Tracked
    BY <1>2 DEF Forward, At, Tracked, Mapped, Live, TypeOK
  <2> QED
    BY <2>1, FewerTracked
<1>3. ASSUME NEW c \in Calls, Settle(c) PROVE Room'
  <2>1. Tracked' \subseteq Tracked
    BY <1>3 DEF Settle, Tracked, TypeOK
  <2> QED
    BY <2>1, FewerTracked
<1>4. ASSUME NEW c \in Calls, NEW s \in {"success", "failure"}, Relay(c, s) PROVE Room'
  <2>1. Tracked' \subseteq Tracked
    BY <1>4 DEF Relay, TakePending, Tracked, TypeOK
  <2> QED
    BY <2>1, FewerTracked
<1>5. ASSUME NEW i \in Ids, ServerRequest(i) PROVE Room'
  <2>1. Tracked' \subseteq Tracked
    BY <1>5 DEF ServerRequest, TakePending, Tracked, TypeOK
  <2> QED
    BY <2>1, FewerTracked
<1>6. ASSUME NEW i \in Ids, Lapse(i) PROVE Room'
  <2>1. Tracked' \subseteq Tracked
    BY <1>6 DEF Lapse, Tracked, TypeOK
  <2> QED
    BY <2>1, FewerTracked
<1>7. CASE UNCHANGED <<evaluating, pending>>
  BY <1>7, FewerTracked DEF Tracked
<1> QED
  BY <1>1, <1>2, <1>3, <1>4, <1>5, <1>6, <1>7 DEF Next, Handle, vars, Reject,
         Judge, Verify, Drop, Refuse, TelemetrySettles, ServerAnswers,
         Cancel, HostCloses, EndServer, ServerExits, Close, Exit

LEMMA ClosingKept ==
    ASSUME TypeOK, Fresh, Closing, [Next]_vars PROVE Closing'
<1> USE ProxyAssumption DEF policyVars, mapVars, pipeVars, reportVars, lifeVars
<1>1. ASSUME NEW c \in Calls, Accept(c) PROVE Closing'
  BY <1>1 DEF Accept, Goto, At, Write, Listening, Refusable, Closing, Fresh,
         TypeOK
<1>2. ASSUME NEW c \in Calls, Forward(c) PROVE Closing'
  BY <1>2 DEF Forward, Goto, At, Write, Closing, TypeOK, Fresh, Undecided
<1>3. ASSUME NEW c \in Calls, Refuse(c) PROVE Closing'
  BY <1>3 DEF Refuse, Goto, At, Reply, Track, Closing, Fresh, Undecided
<1>4. ASSUME NEW c \in Calls, TelemetrySettles(c) PROVE Closing'
  BY <1>4 DEF TelemetrySettles, Closing
<1>5. ASSUME NEW c \in Calls, NEW s \in {"success", "failure"}, Relay(c, s) PROVE Closing'
  BY <1>5 DEF Relay, Reply, TakePending, Track, Closing
<1>6. ASSUME NEW c \in Calls, NEW s \in {"success", "failure"}, ServerAnswers(c, s) PROVE Closing'
  BY <1>6 DEF ServerAnswers, Closing
<1>7. ASSUME NEW i \in Ids, ServerRequest(i) PROVE Closing'
  BY <1>7 DEF ServerRequest, TakePending, Track, Closing
<1>8. ASSUME EndServer PROVE Closing'
  BY <1>8 DEF EndServer, Closing
<1>9. ASSUME ServerExits PROVE Closing'
  BY <1>9 DEF ServerExits, Closing
<1>10. ASSUME Close PROVE Closing'
  BY <1>10 DEF Close, Closing
<1>11. ASSUME Exit PROVE Closing'
  BY <1>11 DEF Exit, Closing
<1>12. CASE UNCHANGED <<atServer, awaited, forwarded, fromServer, inFlight, proxy, server>>
  BY <1>12 DEF Closing
<1> QED
  BY <1>1, <1>2, <1>3, <1>4, <1>5, <1>6, <1>7, <1>8, <1>9, <1>10, <1>11, <1>12 DEF
         Next, Handle, vars, Reject, Judge, Verify, Drop, Settle, Cancel,
         Lapse, HostCloses

LEMMA SingleKept ==
    ASSUME TypeOK, Mapped, Fresh, Single, [Next]_vars PROVE Single'
<1> USE ProxyAssumption DEF policyVars, mapVars, pipeVars, reportVars, lifeVars
<1>1. ASSUME NEW c \in Calls, Refuse(c) PROVE Single'
  BY <1>1 DEF Refuse, Goto, At, Reply, Track, Single, Fresh, Undecided,
         Unreported
<1>2. ASSUME NEW c \in Calls, NEW s \in {"success", "failure"}, Relay(c, s) PROVE Single'
  BY <1>2 DEF Relay, Reply, TakePending, Track, Single, Mapped, Unreported,
         TypeOK
<1>3. ASSUME NEW i \in Ids, ServerRequest(i) PROVE Single'
  BY <1>3 DEF ServerRequest, TakePending, Track, Single, Mapped, Unreported,
         TypeOK
<1>4. CASE UNCHANGED <<reported>>
  BY <1>4 DEF Single
<1> QED
  BY <1>1, <1>2, <1>3, <1>4 DEF Next, Handle, vars, Reject, Accept, Judge,
         Verify, Drop, Forward, Settle, TelemetrySettles, ServerAnswers,
         Cancel, Lapse, HostCloses, EndServer, ServerExits, Close, Exit

LEMMA OutcomeTrueKept ==
    ASSUME TypeOK, Mapped, Fresh, Sent, OutcomeTrue, [Next]_vars PROVE OutcomeTrue'
<1> USE ProxyAssumption DEF policyVars, mapVars, pipeVars, reportVars, lifeVars
<1>1. ASSUME NEW c \in Calls, Accept(c) PROVE OutcomeTrue'
  BY <1>1 DEF Accept, Goto, At, Write, Listening, Refusable, OutcomeTrue,
         Ambiguous, Fresh, TypeOK, Unreported
<1>2. ASSUME NEW c \in Calls, Forward(c) PROVE OutcomeTrue'
  BY <1>2 DEF Forward, Goto, At, Write, OutcomeTrue, Ambiguous, Fresh,
         Unreported, TypeOK, Undecided
<1>3. ASSUME NEW c \in Calls, Refuse(c) PROVE OutcomeTrue'
  BY <1>3 DEF Refuse, Goto, At, Reply, Track, OutcomeTrue, Ambiguous
<1>4. ASSUME NEW c \in Calls, NEW s \in {"success", "failure"}, Relay(c, s) PROVE OutcomeTrue'
  <2>1. /\ Out(c) /\ c \notin atServer /\ UNCHANGED <<forwarded, atServer, lapsed>>
        /\ TakePending(CallId[c], s)
    BY <1>4 DEF Relay, Out, Sent
  <2>2. CASE pending[CallId[c]] = None
    BY <2>1, <2>2 DEF TakePending, OutcomeTrue, Ambiguous
  <2>3. CASE pending[CallId[c]] # None
    <3>1. PICK p \in Calls : p = pending[CallId[c]] /\ CallId[p] = CallId[c]
      BY <2>3 DEF Mapped, TypeOK
    <3>2. reported' = reported \cup {<<p, s>>}
      BY <2>1, <2>3, <3>1 DEF TakePending, Track
    <3>3. (forwarded[p] # None /\ p \notin atServer) \/ Ambiguous(CallId[p])
      BY <2>1, <2>3, <3>1 DEF Sent
    <3> QED
      BY <2>1, <3>2, <3>3 DEF OutcomeTrue, Ambiguous
  <2> QED
    BY <2>2, <2>3
<1>5. ASSUME NEW c \in Calls, NEW s \in {"success", "failure"}, ServerAnswers(c, s) PROVE OutcomeTrue'
  BY <1>5 DEF ServerAnswers, OutcomeTrue, Ambiguous
<1>6. ASSUME NEW i \in Ids, ServerRequest(i) PROVE OutcomeTrue'
  BY <1>6 DEF ServerRequest, TakePending, Track, OutcomeTrue, Ambiguous,
         Mapped, TypeOK
<1>7. ASSUME NEW i \in Ids, Lapse(i) PROVE OutcomeTrue'
  BY <1>7 DEF Lapse, OutcomeTrue, Ambiguous
<1>8. ASSUME ServerExits PROVE OutcomeTrue'
  BY <1>8 DEF ServerExits, OutcomeTrue, Ambiguous
<1>9. CASE UNCHANGED <<atServer, forwarded, lapsed, reported>>
  BY <1>9 DEF OutcomeTrue, Ambiguous
<1> QED
  BY <1>1, <1>2, <1>3, <1>4, <1>5, <1>6, <1>7, <1>8, <1>9 DEF Next, Handle,
         vars, Reject, Judge, Verify, Drop, Settle, TelemetrySettles, Cancel,
         HostCloses, EndServer, Close, Exit

LEMMA PassedKept ==
    ASSUME TypeOK, Fresh, Passed, [Next]_vars PROVE Passed'
<1> USE ProxyAssumption DEF policyVars, mapVars, pipeVars, reportVars, lifeVars
<1>1. ASSUME NEW c \in Calls, Accept(c) PROVE Passed'
  BY <1>1 DEF Accept, Goto, At, Write, Listening, Refusable, Passed, Passes,
         Result, PermitResult, PolicyResult, TypeOK
<1>2. ASSUME NEW c \in Calls, NEW a \in PolicySays[c], Judge(c, a) PROVE Passed'
  BY <1>2 DEF Judge, Goto, At, Passed, Passes, Result, PermitResult,
         PolicyResult, TypeOK, Fresh, Undecided
<1>3. ASSUME NEW c \in Calls, NEW v \in {"valid", "invalid", "unreadable"}, Verify(c, v) PROVE Passed'
  BY <1>3 DEF Verify, Goto, At, Passed, Passes, Result, PermitResult,
         PolicyResult, TypeOK, Fresh, Undecided
<1>4. ASSUME NEW c \in Calls, Forward(c) PROVE Passed'
  BY <1>4 DEF Forward, Goto, At, Write, Passed, Passes, Result, PermitResult,
         PolicyResult, TypeOK
<1>5. CASE UNCHANGED <<answer, forwarded, permit>>
  BY <1>5 DEF Passed, Passes, Result, PermitResult, PolicyResult
<1> QED
  BY <1>1, <1>2, <1>3, <1>4, <1>5 DEF Next, Handle, vars, Reject, Drop,
         Refuse, Settle, TelemetrySettles, Relay, ServerAnswers, Cancel,
         ServerRequest, Lapse, HostCloses, EndServer, ServerExits, Close, Exit

LEMMA InvKept == ASSUME Inv, [Next]_vars PROVE Inv'
  BY TypeKept, MappedKept, FreshKept, SentKept, RoomKept, ClosingKept, SingleKept,
     OutcomeTrueKept, PassedKept DEF Inv

LEMMA AlwaysInv == Spec => []Inv
  BY InitInv, InvKept, PTL DEF Spec

(* ----------------------------- The theorems ----------------------------- *)

(* The proxy tracks MAX_PENDING_CALLS calls at most, and two unanswered    *)
(* calls at the server share an id only where the id is ambiguous (61-64). *)
THEOREM CallsAreBounded == Spec => []Bounded
<1>1. Inv => Bounded
  <2> SUFFICES ASSUME Inv PROVE Bounded
    OBVIOUS
  <2>1. ASSUME NEW c \in atServer, NEW d \in atServer, CallId[c] = CallId[d], c # d
        PROVE  Ambiguous(CallId[c])
    BY <2>1 DEF Inv, TypeOK, Sent, Out
  <2> QED
    BY <2>1 DEF Inv, Room, Bounded
<1> QED
  BY <1>1, AlwaysInv, PTL

(* An outcome of an execution is reported of a call only once the server   *)
(* answered that call, unless its id is ambiguous (174-187).               *)
THEOREM OutcomesAreTrue == Spec => []OutcomeTrue
<1>1. Inv => OutcomeTrue
  BY DEF Inv
<1> QED
  BY <1>1, AlwaysInv, PTL

(* One outcome is reported of a call: no execution next to a refusal, and  *)
(* none of two kinds (150-191).                                            *)
THEOREM OneOutcomePerCall == Spec => []OneOutcome
<1>1. Inv => OneOutcome
  <2> SUFFICES ASSUME Inv, NEW c \in Calls
               PROVE  Cardinality({s \in Statuses : <<c, s>> \in reported}) <= 1
    BY DEF OneOutcome
  <2> DEFINE S == {s \in Statuses : <<c, s>> \in reported}
  <2>1. S = {} \/ \E s : S = {s}
    <3>1. ASSUME NEW s \in S PROVE S = {s}
      BY <3>1 DEF Inv, Single
    <3> QED
      BY <3>1
  <2>2. Cardinality(S) \in {0, 1}
    BY <2>1, FS_EmptySet, FS_Singleton
  <2> QED
    BY <2>2
<1> QED
  BY <1>1, AlwaysInv, PTL

(* When the proxy exits, what it still owes telemetry is of calls that     *)
(* never reached the server: it has read all the server wrote and waited   *)
(* for the outcomes it knew of (203-218).                                  *)
THEOREM OutcomesAreSettled == Spec => []OutcomesSettled
<1>1. Inv => OutcomesSettled
  BY DEF Inv, Closing, OutcomesSettled
<1> QED
  BY <1>1, AlwaysInv, PTL

(* Without permits an unsupported or unreadable answer of the policy       *)
(* service blocks the call in any fail mode (587-601).  With permits it    *)
(* does not, which run mcp_malformed shows.                                *)
THEOREM MalformedIsBlocked == ASSUME ~UsePermits PROVE Spec => []MalformedBlocks
<1>1. Inv => MalformedBlocks
  BY ProxyAssumption DEF Inv, Passed, Passes, Result, PolicyResult, MalformedBlocks
<1> QED
  BY <1>1, AlwaysInv, PTL

(* The cancellation of a call at the server is written to the server,      *)
(* unless the id is ambiguous (43-48).                                     *)
THEOREM CancelIsForwarded == Spec => CancelReachesKnown
<1>1. ASSUME Inv, NEW i \in Ids, Cancel(i), Dispatched(i), ~Ambiguous(i) PROVE i \in cancels'
  <2>1. PICK c \in atServer : CallId[c] = i
    BY <1>1 DEF Dispatched
  <2>2. c \in Calls /\ pending[i] = c
    BY <1>1, <2>1 DEF Inv, TypeOK, Sent, Out
  <2> QED
    BY <1>1, <2>2, ProxyAssumption DEF Cancel
<1>2. Inv => \A i \in Ids : Cancel(i) /\ Dispatched(i) /\ ~Ambiguous(i) => i \in cancels'
  BY <1>1
<1> QED
  BY <1>2, AlwaysInv, PTL DEF CancelReachesKnown

(* ------------------------------- ToolGate ------------------------------- *)

(* All that the gate sees of a call.                                       *)
Still(d) == /\ stage'[d] = stage[d] /\ answer'[d] = answer[d] /\ permit'[d] = permit[d]
            /\ forwarded'[d] = forwarded[d] /\ (d \in aborted' <=> d \in aborted)

(* The steps of the gate, and the stutter, by what they do to one call.    *)
Moves(c) ==
    \/ /\ GateStatus(c) = "waiting" /\ GateStatus(c)' = "cleared"
       /\ GateArgs(c)' \in Args /\ forwarded'[c] = forwarded[c]
    \/ /\ GateStatus(c) \in {"waiting", "cleared"} /\ GateStatus(c)' = "refused"
       /\ forwarded'[c] = forwarded[c]
    \/ /\ GateStatus(c) = "cleared" /\ GateStatus(c)' = "ran"
       /\ GateArgs(c)' = GateArgs(c) /\ forwarded'[c] = GateArgs(c)
    \/ /\ GateStatus(c)' = GateStatus(c) /\ GateArgs(c)' = GateArgs(c)
       /\ forwarded'[c] = forwarded[c]

LEMMA StillSame ==
    ASSUME NEW d \in Calls, Still(d)
    PROVE  GateStatus(d)' = GateStatus(d) /\ GateArgs(d)' = GateArgs(d)
<1>1. Passes(d)' = Passes(d) /\ ClearedArgs(d)' = ClearedArgs(d)
  BY DEF Still, Passes, ClearedArgs, Result, PermitResult, PolicyResult
<1>2. GateStatus(d)' = GateStatus(d)
  BY <1>1 DEF Still, GateStatus, At
<1> QED
  BY <1>1, <1>2 DEF GateArgs

LEMMA GateStep ==
    ASSUME NEW c \in Calls, \A d \in Calls \ {c} : Still(d), c \in Guarded => Moves(c)
    PROVE  Gate!Next \/ UNCHANGED Gate!gateVars
<1> DEFINE St == [d \in Guarded |-> GateStatus(d)]
           Cl == [d \in Guarded |-> GateArgs(d)]
           Us == [d \in Guarded |-> forwarded[d]]
           st == GateStatus(c)'
           cl == GateArgs(c)'
           us == forwarded'[c]
<1>1. \A d \in Guarded \ {c} : /\ GateStatus(d)' = GateStatus(d) /\ GateArgs(d)' = GateArgs(d)
                               /\ forwarded'[d] = forwarded[d]
  BY StillSame, ProxyAssumption DEF Still
<1>2. CASE c \notin Guarded
  <2>1. St' = St /\ Cl' = Cl /\ Us' = Us
    BY <1>1, <1>2
  <2> QED
    BY <2>1 DEF Gate!gateVars
<1>3. CASE c \in Guarded
  <2>1. St' = [St EXCEPT ![c] = st] /\ Cl' = [Cl EXCEPT ![c] = cl] /\ Us' = [Us EXCEPT ![c] = us]
    BY <1>1, <1>3
  <2>2. St[c] = GateStatus(c) /\ Cl[c] = GateArgs(c) /\ Us[c] = forwarded[c]
    BY <1>3
  <2>3. [Cl EXCEPT ![c] = Cl[c]] = Cl /\ [Us EXCEPT ![c] = Us[c]] = Us /\ [St EXCEPT ![c] = St[c]] = St
    OBVIOUS
  <2>4. st = "refused" => cl = None
    BY DEF GateArgs
  <2> HIDE DEF st, cl, us
  <2>5. CASE St[c] = "waiting" /\ st = "cleared" /\ cl \in Args /\ us = Us[c]
    <3>1. Gate!Clear(c, cl)
      BY <2>1, <2>3, <2>5 DEF Gate!Clear
    <3> QED
      BY <1>3, <2>5, <3>1 DEF Gate!Next
  <2>6. CASE St[c] \in {"waiting", "cleared"} /\ st = "refused" /\ us = Us[c]
    <3>1. Gate!Refuse(c)
      BY <2>1, <2>3, <2>4, <2>6 DEF Gate!Refuse
    <3> QED
      BY <1>3, <3>1 DEF Gate!Next
  <2>7. CASE St[c] = "cleared" /\ st = "ran" /\ cl = Cl[c] /\ us = Cl[c]
    <3>1. Gate!Run(c)
      BY <2>1, <2>3, <2>7 DEF Gate!Run
    <3> QED
      BY <1>3, <3>1 DEF Gate!Next
  <2>8. CASE st = St[c] /\ cl = Cl[c] /\ us = Us[c]
    BY <2>1, <2>3, <2>8 DEF Gate!gateVars
  <2>9. \/ St[c] = "waiting" /\ st = "cleared" /\ cl \in Args /\ us = Us[c]
        \/ St[c] \in {"waiting", "cleared"} /\ st = "refused" /\ us = Us[c]
        \/ St[c] = "cleared" /\ st = "ran" /\ cl = Cl[c] /\ us = Cl[c]
        \/ st = St[c] /\ cl = Cl[c] /\ us = Us[c]
    BY <1>3, <2>2 DEF Moves, st, cl, us
  <2> QED
    BY <2>5, <2>6, <2>7, <2>8, <2>9
<1> QED
  BY <1>2, <1>3

(* A step that the gate does not see.                                      *)
LEMMA AllStill == ASSUME \A d \in Calls : Still(d) PROVE UNCHANGED Gate!gateVars
<1>1. \A d \in Guarded : /\ GateStatus(d)' = GateStatus(d) /\ GateArgs(d)' = GateArgs(d)
                         /\ forwarded'[d] = forwarded[d]
  BY StillSame, ProxyAssumption DEF Still
<1> QED
  BY <1>1 DEF Gate!gateVars

(* A call moves when the host or the service says something of it, and     *)
(* when it is forwarded or refused.                                        *)
LEMMA CallMoves ==
    ASSUME Inv, NEW c \in Calls,
           Reject(c) \/ Accept(c) \/ Drop(c) \/ Forward(c) \/ Refuse(c) \/ Settle(c)
    PROVE  (\A d \in Calls \ {c} : Still(d)) /\ (c \in Guarded => Moves(c))
<1> USE DEF Inv, TypeOK
<1>1. \A d \in Calls \ {c} : Still(d)
  BY DEF Still, Reject, Accept, Drop, Forward, Refuse, Settle, Goto, Write, policyVars, pipeVars
<1>2. /\ UNCHANGED <<answer, permit, aborted>>
      /\ Passes(c)' = Passes(c) /\ ClearedArgs(c)' = ClearedArgs(c)
  BY DEF Reject, Accept, Drop, Forward, Refuse, Settle, Passes, ClearedArgs, Result,
         PermitResult, PolicyResult, policyVars
<1>3. CASE Forward(c)
  <2>1. forwarded[c] = None /\ ClearedArgs(c) \in Args /\ None \notin Args
    BY <1>3, ProxyAssumption DEF Forward, At, Fresh, Undecided, ClearedArgs, Args
  <2>2. forwarded'[c] = ClearedArgs(c)
    BY <1>3 DEF Forward, Write
  <2>3. GateStatus(c) = "cleared" /\ GateStatus(c)' = "ran"
    BY <1>3, <2>1, <2>2 DEF Forward, At, GateStatus
  <2> QED
    BY <1>1, <1>2, <2>2, <2>3 DEF Moves, GateArgs
<1>4. CASE ~Forward(c) /\ c \in Guarded
  <2>1. forwarded'[c] = forwarded[c]
    BY <1>4 DEF Reject, Accept, Drop, Refuse, Settle, pipeVars
  <2>2. \/ stage[c] = "new" /\ stage'[c] = "settled"
        \/ stage[c] = "new" /\ stage'[c] = "policy"
        \/ stage[c] = "judged" /\ stage'[c] = "done" /\ (c \in aborted \/ ~Passes(c))
        \/ stage[c] = "done" /\ stage'[c] = "settled"
    BY <1>4 DEF Reject, Accept, Drop, Refuse, Settle, At, Goto
  <2>3. \/ GateStatus(c)' = GateStatus(c)
        \/ GateStatus(c) = "waiting" /\ GateStatus(c)' = "refused"
    <3>1. CASE stage[c] = "new"
      <4>1. GateStatus(c) = IF c \in aborted THEN "refused" ELSE "waiting"
        BY <3>1 DEF GateStatus, At, Fresh
      <4>2. stage'[c] = "settled" => GateStatus(c)' = "refused"
        BY <2>1, <3>1 DEF GateStatus, At, Fresh
      <4>3. stage'[c] = "policy" => GateStatus(c)' = IF c \in aborted THEN "refused" ELSE "waiting"
        BY <1>2, <2>1, <3>1 DEF GateStatus, At, Fresh
      <4> QED
        BY <2>2, <3>1, <4>1, <4>2, <4>3
    <3>2. CASE stage[c] = "judged"
      <4>1. GateStatus(c) = "refused"
        BY <2>2, <3>2 DEF GateStatus, At, Fresh, Undecided
      <4>2. GateStatus(c)' = "refused"
        BY <2>1, <2>2, <3>2 DEF GateStatus, At, Fresh, Undecided
      <4> QED
        BY <4>1, <4>2
    <3>3. CASE stage[c] = "done"
      <4>1. GateStatus(c) = IF forwarded[c] # None THEN "ran" ELSE "refused"
        BY <3>3 DEF GateStatus
      <4>2. GateStatus(c)' = IF forwarded[c] # None THEN "ran" ELSE "refused"
        BY <2>1, <2>2, <3>3 DEF GateStatus
      <4> QED
        BY <4>1, <4>2
    <3> QED
      BY <2>2, <3>1, <3>2, <3>3
  <2> QED
    BY <1>1, <1>2, <2>1, <2>3 DEF Moves, GateArgs
<1> QED
  BY <1>1, <1>3, <1>4

(* The service's answer clears the call or refuses it.                     *)
LEMMA JudgeMoves ==
    ASSUME Inv, NEW c \in Calls,
           \/ \E a \in PolicySays[c] : Judge(c, a)
           \/ \E v \in {"valid", "invalid", "unreadable"} : Verify(c, v)
    PROVE  (\A d \in Calls \ {c} : Still(d)) /\ Moves(c)
<1> USE DEF Inv, TypeOK
<1>1. \A d \in Calls \ {c} : Still(d)
  BY DEF Still, Judge, Verify, Goto, pipeVars
<1>2. /\ stage[c] \in {"policy", "permit"} /\ stage'[c] \in {"permit", "judged"}
      /\ UNCHANGED <<forwarded, aborted>> /\ forwarded[c] = None
  BY DEF Judge, Verify, Goto, At, Fresh, Undecided, pipeVars
<1>3. GateStatus(c) = IF c \in aborted THEN "refused" ELSE "waiting"
  BY <1>2 DEF GateStatus, At
<1>4. GateStatus(c)' \in IF c \in aborted THEN {"refused"} ELSE {"waiting", "cleared", "refused"}
  BY <1>2 DEF GateStatus, At
<1> QED
  BY <1>1, <1>2, <1>3, <1>4 DEF Moves, GateArgs, ClearedArgs, Args

(* The host withdraws the call that it started under the id.               *)
LEMMA CancelMoves ==
    ASSUME Inv, NEW i \in Ids, Cancel(i) PROVE Gate!Next \/ UNCHANGED Gate!gateVars
<1> USE DEF Inv, TypeOK
<1>1. UNCHANGED <<stage, answer, permit, forwarded>>
      /\ aborted' = aborted \cup ({evaluating[i]} \ {None})
  BY DEF Cancel
<1>2. CASE evaluating[i] = None
  <2>1. \A d \in Calls : Still(d)
    BY <1>1, <1>2 DEF Still
  <2> QED
    BY <2>1, AllStill
<1>3. CASE evaluating[i] # None
  <2>1. PICK c \in Calls : c = evaluating[i]
    BY <1>3
  <2>2. \A d \in Calls \ {c} : Still(d)
    BY <1>1, <2>1 DEF Still
  <2>3. Moves(c)
    <3>1. Passes(c)' = Passes(c) /\ ClearedArgs(c)' = ClearedArgs(c)
      BY <1>1 DEF Passes, ClearedArgs, Result, PermitResult, PolicyResult
    <3>2. \/ GateStatus(c)' = GateStatus(c)
          \/ GateStatus(c) \in {"waiting", "cleared"} /\ GateStatus(c)' = "refused"
      BY <1>1, <3>1 DEF GateStatus, At
    <3> QED
      BY <1>1, <3>1, <3>2 DEF Moves, GateArgs
  <2> QED
    BY <2>2, <2>3, GateStep
<1> QED
  BY <1>2, <1>3

LEMMA GateSteps == ASSUME Inv, [Next]_vars PROVE Gate!Next \/ UNCHANGED Gate!gateVars
<1>1. ASSUME NEW c \in Calls, Reject(c) \/ Accept(c) \/ Handle(c)
      PROVE  Gate!Next \/ UNCHANGED Gate!gateVars
  <2>1. (\A d \in Calls \ {c} : Still(d)) /\ (c \in Guarded => Moves(c))
    BY <1>1, CallMoves, JudgeMoves DEF Handle
  <2> QED
    BY <2>1, GateStep
<1>2. CASE UNCHANGED <<stage, answer, permit, forwarded, aborted>>
  BY <1>2, AllStill DEF Still
<1> QED
  BY <1>1, <1>2, CancelMoves
     DEF Next, vars, policyVars, pipeVars, Relay, ServerAnswers, ServerRequest, Lapse,
         TelemetrySettles, HostCloses, EndServer, ServerExits, Close, Exit

(* The proxy implements ToolGate for the calls it intercepts: a call is    *)
(* forwarded at most once, after the service or the outage policy cleared  *)
(* it, with the arguments it was cleared for, and not once the host        *)
(* withdrew it (93-172).                                                   *)
THEOREM ProxyImplementsGate == Spec => ImplementsGate
<1>1. Init => Gate!Init
  BY ProxyAssumption DEF Init, Gate!Init, GateStatus, GateArgs, At
<1>2. Inv /\ [Next]_vars => [Gate!Next]_Gate!gateVars
  BY GateSteps
<1> QED
  BY <1>1, <1>2, AlwaysInv, PTL DEF Spec, ImplementsGate, Gate!Spec
=============================================================================
