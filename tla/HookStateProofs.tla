--------------------------- MODULE HookStateProofs ---------------------------
(***************************************************************************)
(* The native hooks, for every set of calls, every cap and every behaviour *)
(* of the service: the cap of the Codex hook's directory, what the reports *)
(* say, and who takes a file of the directory away.  CapExact is inductive *)
(* as it stands: that one process at a time is inside the lock's section,  *)
(* and what it has read and pruned, are parts of it.  The reports need to  *)
(* know what a process still to report carries with it (Sound), and the    *)
(* files that what a process lists was once written (Born), and that who   *)
(* removes some has listed more than Cap (Backed).  Where two processes    *)
(* are inside, the cap gives way by a bound that is not inductive either:  *)
(* RoomLeft says how much the processes that have read the directory and   *)
(* not written their file yet leave of it together.                        *)
(***************************************************************************)
EXTENDS HookState, FiniteSetTheorems, TLAPS

Exact == OneInside /\ Pruned /\ Cardinality(saved) <= Cap

(* -------------------------------- Types -------------------------------- *)

LEMMA InitTyped == ASSUME HookAssumption, Init PROVE TypeOK
  BY DEF HookAssumption, Init, TypeOK, NoLock, Phases, Verdicts

(* Most steps move one process on and touch nothing else that is shared.   *)
LEMMA GoTyped ==
    ASSUME TypeOK, NEW c \in Calls, NEW p \in Phases, Go(c, p),
           UNCHANGED <<config, verdict, traced, files, outcomes, loose, faults>>
    PROVE  TypeOK'
  BY DEF TypeOK, Go, config, files

(* What follows a decision is the end of the hook, or a report of it.      *)
LEMMA SettleOutside ==
    ASSUME NEW d PROVE Settle(d) \in {"allowed", "asked", "denied", "report"}
  BY DEF Settle, Answer

LEMMA AfterSaveOutside ==
    ASSUME NEW c, NEW ok \in BOOLEAN
    PROVE  AfterSave(c, ok) \in {"allowed", "asked", "denied", "report"}
  BY SettleOutside DEF AfterSave

LEMMA SendTyped ==
    ASSUME TypeOK, NEW c \in Calls, NEW p \in Phases, NEW s \in Statuses,
           NEW known \in BOOLEAN, Send(c, Outcome(c, s, known), p)
    PROVE  TypeOK'
<1>1. Outcome(c, s, known) \in [call : Calls, status : Statuses, traced : BOOLEAN]
  BY DEF Outcome
<1>2. outcomes' \subseteq [call : Calls, status : Statuses, traced : BOOLEAN]
  BY <1>1 DEF Send, TypeOK
<1>3. pc' \in [Calls -> Phases]
  BY DEF Send, Go, TypeOK
<1> QED
  BY <1>2, <1>3 DEF Send, TypeOK, config, files

(* A decision, an outage and a malformed answer leave the process outside  *)
(* the section: it is still to take the lock, or it ends.                  *)
LEMMA EvaluateMoves ==
    ASSUME HookAssumption, TypeOK, NEW c \in Calls, Evaluate(c)
    PROVE  /\ \E p \in {"open", "allowed", "asked", "denied", "report"} : Go(c, p)
           /\ verdict' \in [Calls -> Verdicts \cup {"none"}]
           /\ traced' \in [Calls -> BOOLEAN]
           /\ At(c, "asking")
           /\ UNCHANGED <<config, files, outcomes, loose, faults>>
<1>1. PICK r \in Replies[c] :
         /\ verdict' = [verdict EXCEPT ![c] = r.verdict]
         /\ \/ r.verdict \in Decisions /\ Decide(c, r.verdict, r.traced)
            \/ r.verdict = "outage" /\ Outage(c)
            \/ r.verdict = "malformed" /\ Malformed(c)
  BY DEF Evaluate
<1>2. r.verdict \in Verdicts /\ r.traced \in BOOLEAN
  BY DEF HookAssumption
<1>3. verdict' \in [Calls -> Verdicts \cup {"none"}]
  BY <1>1, <1>2 DEF TypeOK
<1>4. CASE Decide(c, r.verdict, r.traced)
  <2>1. traced' \in [Calls -> BOOLEAN]
    BY <1>2, <1>4 DEF Decide, TypeOK
  <2>2. \E p \in {"open", "allowed", "asked", "denied", "report"} : Go(c, p)
    BY <1>4, SettleOutside DEF Decide
  <2> QED
    BY <1>3, <2>1, <2>2 DEF Evaluate
<1>5. CASE Outage(c) \/ Malformed(c)
  BY <1>3, <1>5 DEF Outage, Malformed, Evaluate, TypeOK
<1> QED
  BY <1>1, <1>4, <1>5

(* The order in which the files were written keeps natural numbers.        *)
LEMMA WriteTyped == ASSUME HookAssumption, TypeOK, NEW c \in Calls, Write(c) PROVE TypeOK'
<1>1. Cardinality(Calls) \in Nat
  BY FS_CardinalityType DEF HookAssumption
<1>2. born' \in [Calls -> Nat]
  BY <1>1 DEF Write, TypeOK
<1>3. pc' \in [Calls -> Phases]
  BY DEF Write, Go, TypeOK, Phases, Steps, PreSteps
<1> QED
  BY <1>2, <1>3 DEF Write, TypeOK, config

LEMMA FaultTyped ==
    ASSUME HookAssumption, TypeOK, NEW c, Fault(c) PROVE faults' \in 0..MaxFaults /\ faults' # 0
  BY DEF Fault, TypeOK, HookAssumption

(* What a prune chooses, and what it removes, are files it has listed.     *)
LEMMA ChooseMoves ==
    ASSUME TypeOK, NEW c \in Calls, NEW S \in SUBSET Calls, Choose(c, S)
    PROVE  /\ pc[c] = "evict" /\ pc' = [pc EXCEPT ![c] = "write"]
           /\ \E E \in Oldest(S, Excess(c)) : listed' = [listed EXCEPT ![c] = E]
           /\ \A E \in Oldest(S, Excess(c)) : E \in SUBSET S
           /\ listed' \in [Calls -> SUBSET Calls]
           /\ UNCHANGED <<config, verdict, traced, lock, saved, born, outcomes, loose>>
<1>1. \A E \in Oldest(S, Excess(c)) : E \in SUBSET S
  BY DEF Oldest
<1>2. PICK E \in Oldest(S, Excess(c)) : listed' = [listed EXCEPT ![c] = E]
  BY DEF Choose
<1>3. E \in SUBSET Calls
  BY <1>1
<1>4. listed' \in [Calls -> SUBSET Calls]
  BY <1>2, <1>3 DEF TypeOK
<1> QED
  BY <1>1, <1>2, <1>4 DEF Choose, At, Go

LEMMA EvictMoves ==
    ASSUME TypeOK, NEW c \in Calls, Evict(c) \/ StatFails(c)
    PROVE  /\ pc[c] = "evict" /\ pc' = [pc EXCEPT ![c] = "write"]
           /\ \E S \in SUBSET Candidates(c) :
                 /\ Evict(c) => S = Candidates(c)
                 /\ \E E \in Oldest(S, Excess(c)) : listed' = [listed EXCEPT ![c] = E]
                 /\ \A E \in Oldest(S, Excess(c)) : E \in SUBSET S
           /\ listed' \in [Calls -> SUBSET Calls]
           /\ UNCHANGED <<config, verdict, traced, lock, saved, born, outcomes, loose>>
<1>1. Candidates(c) \in SUBSET Calls
  BY DEF Candidates, TypeOK
<1>2. CASE Evict(c)
  BY <1>1, <1>2, ChooseMoves DEF Evict
<1>3. CASE StatFails(c) /\ ~Evict(c)
  <2>1. PICK e \in Candidates(c) : Choose(c, Candidates(c) \ {e})
    BY <1>3 DEF StatFails
  <2>2. Candidates(c) \ {e} \in SUBSET Calls /\ Candidates(c) \ {e} \in SUBSET Candidates(c)
    BY <1>1
  <2> QED
    BY <1>3, <2>1, <2>2, ChooseMoves
<1> QED
  BY <1>2, <1>3

LEMMA RemoveMoves ==
    ASSUME TypeOK, NEW c \in Calls, Remove(c) \/ RemoveFails(c)
    PROVE  /\ pc[c] = "write" /\ listed[c] # {}
           /\ \E E \in SUBSET listed[c] :
             /\ listed' = [listed EXCEPT ![c] = listed[c] \ E]
             /\ (saved' = saved \ E) \/ (saved' = saved)
             /\ Remove(c) => saved' = saved \ E
           /\ UNCHANGED <<config, pc, verdict, traced, lock, born, outcomes, loose>>
<1>1. CASE Remove(c)
  BY <1>1 DEF Remove, Dequeue, At
<1>2. CASE RemoveFails(c) /\ ~Remove(c)
  BY <1>2 DEF RemoveFails, Dequeue, At
<1> QED
  BY <1>1, <1>2

LEMMA SaveFailsMoves ==
    ASSUME NEW c \in Calls, SaveFails(c)
    PROVE  /\ \/ pc[c] = "open" /\ Go(c, AfterSave(c, FALSE))
              \/ pc[c] \in {"list", "write"} /\ Go(c, "abandon")
           /\ UNCHANGED <<config, verdict, traced, files, outcomes, loose, faults>>
  BY DEF SaveFails, At

(* A process that leaves with the lock removed or not.                     *)
LEMMA LeaveMoves ==
    ASSUME NEW c \in Calls, Unlock(c) \/ UnlockFails(c)
    PROVE  /\ pc[c] \in {"unlock", "abandon"}
           /\ \E ok \in BOOLEAN : Go(c, AfterSave(c, ok))
           /\ \E p \in {"allowed", "asked", "denied", "report"} : Go(c, p)
           /\ lock' = NoLock \/ lock' = lock
           /\ UNCHANGED <<config, verdict, traced, listed, saved, born, outcomes, loose>>
<1>1. At(c, "unlock") \in BOOLEAN
  BY DEF At
<1> QED
  BY <1>1, AfterSaveOutside DEF Unlock, UnlockFails, Leave

(* A killed process of the hook, with or without its report.               *)
LEMMA KillMoves ==
    ASSUME TypeOK, NEW c \in Calls, Kill(c)
    PROVE  /\ pc[c] \in Steps
           /\ \E p \in {"killed", "allowed", "done"} :
                 /\ Go(c, p)
                 /\ \/ pc[c] \in PreSteps /\ p # "done"
                    \/ pc[c] \in PostSteps /\ p = "done"
                 /\ loose' = loose \/ loose' = loose \cup {c}
                 /\ p = "allowed" => c \in loose'
           /\ \/ outcomes' = outcomes
              \/ pc[c] = "report" /\ outcomes' = outcomes \cup {Refusal(c)}
           /\ listed' = [listed EXCEPT ![c] = {}]
           /\ UNCHANGED <<config, verdict, traced, lock, saved, born>>
<1>1. CASE pc[c] \in PostSteps /\ Go(c, "done") /\ UNCHANGED loose
  BY <1>1 DEF Kill, At
<1>2. CASE pc[c] \in PreSteps /\ Go(c, "killed") /\ UNCHANGED loose
  BY <1>2 DEF Kill, At
<1>3. CASE pc[c] \in PreSteps /\ Go(c, "allowed") /\ loose' = loose \cup {c}
  BY <1>3 DEF Kill, At
<1> QED
  BY <1>1, <1>2, <1>3 DEF Kill

LEMMA RefusalTyped ==
    ASSUME TypeOK, NEW c \in Calls
    PROVE  Refusal(c) \in [call : Calls, status : Statuses, traced : BOOLEAN]
  BY DEF Refusal, Outcome, Statuses, TypeOK

LEMMA KillTyped == ASSUME HookAssumption, TypeOK, NEW c \in Calls, Kill(c) PROVE TypeOK'
<1>1. faults' \in 0..MaxFaults
  BY FaultTyped DEF Kill
<1>2. outcomes' \subseteq [call : Calls, status : Statuses, traced : BOOLEAN]
  BY KillMoves, RefusalTyped DEF TypeOK
<1>3. pc' \in [Calls -> Phases]
  BY KillMoves DEF Go, TypeOK, Phases, Steps
<1>4. loose' \subseteq Calls /\ listed' \in [Calls -> SUBSET Calls]
  BY KillMoves DEF TypeOK
<1> QED
  BY <1>1, <1>2, <1>3, <1>4, KillMoves DEF TypeOK, config

LEMMA NextTyped == ASSUME HookAssumption, TypeOK, [Next]_vars PROVE TypeOK'
<1> USE DEF Phases, Steps, PreSteps, PostSteps
<1>1. ASSUME NEW c \in Calls, Start(c) \/ Unreadable(c) \/ Stat(c) \/ Run(c) \/ UserRefuses(c)
      PROVE  TypeOK'
  <2>1. \E p \in Phases : Go(c, p)
    BY <1>1 DEF Start, Unreadable, Stat, Run, UserRefuses
  <2>2. UNCHANGED <<config, verdict, traced, files, outcomes, loose, faults>>
    BY <1>1 DEF Start, Unreadable, Stat, Run, UserRefuses
  <2> QED
    BY <2>1, <2>2, GoTyped
<1>2. ASSUME NEW c \in Calls, GiveUp(c) \/ SaveFails(c) PROVE TypeOK'
  <2>1. \E p \in Phases : Go(c, p)
    BY <1>2, SaveFailsMoves, AfterSaveOutside DEF GiveUp
  <2>2. UNCHANGED <<config, verdict, traced, files, outcomes, loose, faults>>
    BY <1>2, SaveFailsMoves DEF GiveUp
  <2> QED
    BY <2>1, <2>2, GoTyped
<1>3. ASSUME NEW c \in Calls, Evaluate(c) PROVE TypeOK'
  BY <1>3, EvaluateMoves DEF TypeOK, Go, config, files
<1>4. ASSUME NEW c \in Calls, Open(c) \/ Rm(c) PROVE TypeOK'
  <2>1. lock' \in [owner : Calls \cup {NoCall}, old : BOOLEAN]
    <3>1. lock' = [owner |-> c, old |-> FALSE] \/ lock' = NoLock \/ lock' = lock
      BY <1>4 DEF Open, Rm
    <3>2. lock \in [owner : Calls \cup {NoCall}, old : BOOLEAN]
      BY DEF TypeOK
    <3>3. [owner |-> c, old |-> FALSE] \in [owner : Calls \cup {NoCall}, old : BOOLEAN]
      OBVIOUS
    <3>4. NoLock \in [owner : Calls \cup {NoCall}, old : BOOLEAN]
      BY DEF NoLock
    <3> QED
      BY <3>1, <3>2, <3>3, <3>4
  <2>2. pc' \in [Calls -> Phases]
    BY <1>4 DEF Open, Rm, Go, TypeOK
  <2> QED
    BY <1>4, <2>1, <2>2 DEF Open, Rm, TypeOK, config
<1>5. ASSUME NEW c \in Calls, List(c) PROVE TypeOK'
  BY <1>5 DEF List, Go, TypeOK, config
<1>6. ASSUME NEW c \in Calls, Evict(c) \/ StatFails(c) \/ Remove(c) \/ RemoveFails(c)
      PROVE  TypeOK'
  <2>1. faults' \in 0..MaxFaults
    BY <1>6, FaultTyped DEF Evict, StatFails, Remove, RemoveFails, TypeOK
  <2>2. pc' \in [Calls -> Phases] /\ listed' \in [Calls -> SUBSET Calls] /\ saved' \subseteq Calls
    <3>1. CASE Evict(c) \/ StatFails(c)
      BY <3>1, EvictMoves DEF TypeOK
    <3>2. CASE Remove(c) \/ RemoveFails(c)
      <4>1. PICK E \in SUBSET listed[c] : /\ listed' = [listed EXCEPT ![c] = listed[c] \ E]
                                          /\ (saved' = saved \ E) \/ (saved' = saved)
        BY <3>2 DEF Remove, RemoveFails, Dequeue
      <4>2. pc' = pc
        BY <3>2, RemoveMoves
      <4> QED
        BY <4>1, <4>2 DEF TypeOK
    <3> QED
      BY <1>6, <3>1, <3>2
  <2>3. UNCHANGED <<config, verdict, traced, lock, born, outcomes, loose>>
    BY <1>6, EvictMoves, RemoveMoves
  <2> QED
    BY <2>1, <2>2, <2>3 DEF TypeOK, config
<1>7. ASSUME NEW c \in Calls, Write(c) PROVE TypeOK'
  BY <1>7, WriteTyped
<1>8. ASSUME NEW c \in Calls, Unlock(c) \/ UnlockFails(c) PROVE TypeOK'
  <2>1. pc' \in [Calls -> Phases]
    BY <1>8, LeaveMoves DEF Go, TypeOK
  <2>2. lock' \in [owner : Calls \cup {NoCall}, old : BOOLEAN]
    <3>1. [owner |-> NoCall, old |-> FALSE] \in [owner : Calls \cup {NoCall}, old : BOOLEAN]
      OBVIOUS
    <3>2. lock' = NoLock \/ lock' = lock
      BY <1>8, LeaveMoves
    <3> QED
      BY <3>1, <3>2 DEF NoLock, TypeOK
  <2>3. faults' \in 0..MaxFaults
    BY <1>8, FaultTyped DEF Unlock, UnlockFails, TypeOK
  <2> QED
    BY <1>8, <2>1, <2>2, <2>3, LeaveMoves DEF TypeOK, config
<1>9. ASSUME NEW c \in Calls, Report(c) PROVE TypeOK'
  BY <1>9, SendTyped DEF Report, Refusal, Answer, Statuses, TypeOK
<1>10. ASSUME NEW c \in Calls, Consume(c) PROVE TypeOK'
  BY <1>10 DEF Consume, Go, TypeOK, config
<1>11. ASSUME NEW c \in Calls, ReportRun(c) \/ Blind(c) PROVE TypeOK'
  BY <1>11, SendTyped DEF ReportRun, Blind, Statuses, TypeOK
<1>12. ASSUME NEW c \in Calls, Kill(c) PROVE TypeOK'
  BY <1>12, KillTyped
<1>13. CASE LockAges
  <2>1. lock' \in [owner : Calls \cup {NoCall}, old : BOOLEAN]
    BY <1>13 DEF LockAges, TypeOK
  <2>2. faults' \in 0..MaxFaults
    BY <1>13, FaultTyped DEF LockAges, TypeOK
  <2> QED
    BY <1>13, <2>1, <2>2 DEF LockAges, TypeOK, config
<1>14. CASE UNCHANGED vars
  BY <1>14 DEF vars, TypeOK, config, files
<1> QED
  BY <1>1, <1>2, <1>3, <1>4, <1>5, <1>6, <1>7, <1>8, <1>9, <1>10, <1>11, <1>12,
     <1>13, <1>14 DEF Next, Proceed, LockStep, Disturb

(* ------------------------------- The cap ------------------------------- *)

(* A process that is outside the section and stays there disturbs nothing. *)
LEMMA OutsideExact ==
    ASSUME TypeOK, Exact, NEW c \in Calls, NEW p, Go(c, p), UNCHANGED <<lock, listed, saved>>,
           pc[c] \notin Section, p \notin Section, p # "rm"
    PROVE  Exact'
  BY DEF Exact, OneInside, Pruned, At, Go, TypeOK, Section

(* The process inside goes on to a step that asks nothing of the directory. *)
LEMMA InsideExact ==
    ASSUME TypeOK, Exact, NEW c \in Calls, NEW p \in Section \ {"evict", "write"}, Go(c, p),
           UNCHANGED <<lock, listed, saved>>, pc[c] \in Section
    PROVE  Exact'
  BY DEF Exact, OneInside, Pruned, At, Go, TypeOK, Section

(* A free lock means that nobody is inside, and the one that creates it is *)
(* alone there.                                                            *)
LEMMA OpenExact ==
    ASSUME HookAssumption, TypeOK, Exact, NEW c \in Calls, Open(c) PROVE Exact'
<1>1. CASE lock.owner = NoCall
  <2>1. lock' = [owner |-> c, old |-> FALSE] /\ Go(c, "list")
    BY <1>1 DEF Open, NoLock
  <2>2. \A d \in Calls : pc[d] \notin Section
    BY <1>1 DEF Exact, OneInside, HookAssumption
  <2>3. OneInside'
    BY <2>1, <2>2 DEF Exact, OneInside, At, Go, TypeOK, Section
  <2>4. Pruned'
    BY <2>1 DEF Exact, Pruned, Open, At, Go, TypeOK
  <2> QED
    BY <2>3, <2>4 DEF Exact, Open
<1>2. CASE lock.owner # NoCall
  <2>1. Go(c, "stat") /\ UNCHANGED <<lock, listed, saved>> /\ pc[c] = "open"
    BY <1>2 DEF Open, At
  <2> QED
    BY <2>1, OutsideExact DEF Section
<1> QED
  BY <1>1, <1>2

LEMMA ListExact == ASSUME TypeOK, Exact, NEW c \in Calls, List(c) PROVE Exact'
<1>1. pc[c] = "list" /\ pc' = [pc EXCEPT ![c] = "evict"] /\ UNCHANGED <<lock, saved>>
  BY DEF List, At, Go
<1>2. listed' = [listed EXCEPT ![c] = saved]
  BY DEF List
<1>3. OneInside'
  BY <1>1 DEF Exact, OneInside, At, TypeOK, Section
<1>4. Pruned'
  BY <1>1, <1>2 DEF Exact, Pruned, At, TypeOK
<1> QED
  BY <1>1, <1>3, <1>4 DEF Exact

(* The listing covers what is there, so what is pruned leaves a place for  *)
(* the file that is to be written.                                         *)
LEMMA EvictLeavesRoom ==
    ASSUME HookAssumption, TypeOK, NEW c \in Calls, saved \subseteq listed[c],
           NEW E \in Oldest(Candidates(c), Excess(c))
    PROVE  Cardinality(saved \ (E \cup {c})) < Cap
<1> DEFINE S == saved \ {c}
           L == listed[c] \cup {c}
<1>1. IsFiniteSet(S) /\ IsFiniteSet(L) /\ IsFiniteSet(S \cup {c})
  BY FS_Subset DEF HookAssumption, TypeOK
<1>2. Candidates(c) = S /\ saved \ (E \cup {c}) = S \ E
  BY DEF Candidates
<1>3. E \subseteq S /\ Cardinality(E) = IF Excess(c) < Cardinality(S) THEN Excess(c)
                                         ELSE Cardinality(S)
  BY <1>2 DEF Oldest
<1>4. Cardinality(S \cup {c}) = Cardinality(S) + 1
  BY <1>1, FS_AddElement
<1>5. Cardinality(S) + 1 <= Cardinality(L)
  BY <1>1, <1>4, FS_Subset
<1>6. /\ Cardinality(S) \in Nat /\ Cardinality(L) \in Nat /\ Cap \in Nat /\ Cap > 0
      /\ Excess(c) = IF Cardinality(L) > Cap THEN Cardinality(L) - Cap ELSE 0
  BY <1>1, FS_CardinalityType DEF HookAssumption, Excess
<1>7. S \cap E = E
  BY <1>3
<1>8. Cardinality(S \ E) = Cardinality(S) - Cardinality(E)
  BY <1>1, <1>7, FS_Difference, ZenonT(30)
<1> HIDE DEF S, L
<1>9. Cardinality(S) - Cardinality(E) < Cap
  BY <1>3, <1>5, <1>6
<1> QED
  BY <1>2, <1>8, <1>9

LEMMA EvictExact ==
    ASSUME HookAssumption, TypeOK, Exact, NEW c \in Calls, Evict(c) PROVE Exact'
<1>1. pc[c] = "evict" /\ pc' = [pc EXCEPT ![c] = "write"] /\ UNCHANGED <<lock, saved>>
  BY EvictMoves
<1>2. PICK E \in Oldest(Candidates(c), Excess(c)) : listed' = [listed EXCEPT ![c] = E]
  BY DEF Evict, Choose
<1>3. Cardinality(saved \ (E \cup {c})) < Cap
  BY <1>1, EvictLeavesRoom DEF Exact, Pruned, At
<1>4. OneInside'
  BY <1>1 DEF Exact, OneInside, At, TypeOK, Section
<1>5. \A d \in Calls \ {c} : pc[d] \notin Section
  BY <1>1 DEF Exact, OneInside, Section
<1>6. Pruned'
  BY <1>1, <1>2, <1>3, <1>5 DEF Pruned, At, TypeOK, Section
<1> QED
  BY <1>1, <1>4, <1>6 DEF Exact

(* A removal does part of what is left to do.                              *)
LEMMA RemoveExact ==
    ASSUME HookAssumption, TypeOK, Exact, NEW c \in Calls, Remove(c) PROVE Exact'
<1>1. pc[c] = "write" /\ UNCHANGED <<pc, lock>>
  BY RemoveMoves
<1>2. PICK E \in SUBSET listed[c] : /\ listed' = [listed EXCEPT ![c] = listed[c] \ E]
                                    /\ saved' = saved \ E
  BY DEF Remove, Dequeue
<1>3. OneInside'
  BY <1>1 DEF Exact, OneInside, At
<1>4. \A d \in Calls \ {c} : pc[d] \notin Section
  BY <1>1 DEF Exact, OneInside, Section
<1>5. saved' \ (listed'[c] \cup {c}) = saved \ (listed[c] \cup {c})
  BY <1>2 DEF TypeOK
<1>6. Pruned'
  BY <1>1, <1>4, <1>5 DEF Exact, Pruned, At, Section
<1>7. IsFiniteSet(saved) /\ saved' \subseteq saved
  BY <1>2, FS_Subset DEF HookAssumption, TypeOK
<1>8. Cardinality(saved') <= Cap
  BY <1>7, FS_Subset, FS_CardinalityType, SMTT(20) DEF Exact, HookAssumption
<1> QED
  BY <1>3, <1>6, <1>8 DEF Exact

LEMMA WriteExact ==
    ASSUME HookAssumption, TypeOK, Exact, NEW c \in Calls, Write(c) PROVE Exact'
<1>1. /\ pc[c] = "write" /\ pc' = [pc EXCEPT ![c] = "unlock"] /\ saved' = saved \cup {c}
      /\ listed[c] = {} /\ UNCHANGED <<lock, listed>>
  BY DEF Write, At, Go
<1>2. OneInside'
  BY <1>1 DEF Exact, OneInside, At, TypeOK, Section
<1>3. \A d \in Calls \ {c} : pc[d] \notin Section
  BY <1>1 DEF Exact, OneInside, Section
<1>4. Pruned'
  BY <1>1, <1>3 DEF Pruned, At, TypeOK, Section
<1>5. IsFiniteSet(saved \ {c}) /\ c \notin saved \ {c} /\ saved' = (saved \ {c}) \cup {c}
  BY <1>1, FS_Subset DEF HookAssumption, TypeOK
<1>6. Cardinality(saved') = Cardinality(saved \ {c}) + 1
  BY <1>5, FS_AddElement
<1>7. Cardinality(saved \ {c}) < Cap
  <2>1. listed[c] \cup {c} = {c}
    BY <1>1
  <2> QED
    BY <1>1, <2>1 DEF Exact, Pruned, At
<1>8. Cardinality(saved') <= Cap
  BY <1>5, <1>6, <1>7, FS_CardinalityType DEF HookAssumption
<1> QED
  BY <1>2, <1>4, <1>8 DEF Exact

(* Who leaves takes away the lock it created: nobody else is inside.       *)
LEMMA UnlockExact ==
    ASSUME HookAssumption, TypeOK, Exact, NEW c \in Calls, Unlock(c) PROVE Exact'
<1>1. PICK p \in {"allowed", "asked", "denied", "report"} : Go(c, p)
  BY LeaveMoves
<1>2. pc[c] \in Section /\ lock' = [owner |-> NoCall, old |-> FALSE] /\ UNCHANGED <<listed, saved>>
  BY LeaveMoves DEF Unlock, NoLock, Section
<1>3. \A d \in Calls \ {c} : pc[d] \notin Section
  BY <1>2 DEF Exact, OneInside
<1>4. OneInside'
  BY <1>1, <1>2, <1>3 DEF Exact, OneInside, At, Go, TypeOK, Section
<1>5. Pruned'
  BY <1>1, <1>2 DEF Exact, Pruned, At, Go, TypeOK
<1> QED
  BY <1>2, <1>4, <1>5 DEF Exact

(* The process after a call takes a file away without the lock.            *)
LEMMA ConsumeExact ==
    ASSUME HookAssumption, TypeOK, Exact, NEW c \in Calls, Consume(c) PROVE Exact'
<1>1. /\ pc[c] = "consume" /\ saved' = saved \ {c} /\ UNCHANGED <<lock, listed>>
      /\ \E p \in {"send", "blind", "done"} : pc' = [pc EXCEPT ![c] = p]
  BY DEF Consume, At, Go
<1>2. \A S \in SUBSET saved : /\ Cardinality(S \ {c}) <= Cardinality(S)
                              /\ Cardinality(S) \in Nat /\ Cardinality(S \ {c}) \in Nat
  <2>1. ASSUME NEW S \in SUBSET saved
        PROVE  /\ Cardinality(S \ {c}) <= Cardinality(S)
               /\ Cardinality(S) \in Nat /\ Cardinality(S \ {c}) \in Nat
    <3>1. IsFiniteSet(S) /\ IsFiniteSet(S \ {c})
      BY FS_Subset DEF HookAssumption, TypeOK
    <3> QED
      BY <3>1, FS_Subset, FS_CardinalityType
  <2> QED
    BY <2>1
<1>3. OneInside'
  BY <1>1 DEF Exact, OneInside, At, TypeOK, Section
<1>4. ASSUME NEW d \in Calls, At(d, "write")'
      PROVE  Cardinality(saved' \ (listed'[d] \cup {d})) < Cap
  <2> DEFINE S == saved \ (listed[d] \cup {d})
  <2>1. At(d, "write") /\ saved' \ (listed'[d] \cup {d}) = S \ {c}
    BY <1>1, <1>4 DEF At, TypeOK
  <2>2. Cardinality(S) < Cap /\ S \in SUBSET saved
    BY <2>1 DEF Exact, Pruned
  <2> HIDE DEF S
  <2> QED
    BY <1>2, <2>1, <2>2 DEF HookAssumption
<1>5. Pruned'
  BY <1>1, <1>4 DEF Exact, Pruned, At, TypeOK
<1>6. Cardinality(saved') <= Cap
  BY <1>1, <1>2 DEF Exact, HookAssumption
<1> QED
  BY <1>3, <1>5, <1>6 DEF Exact

(* What the Codex hook does, while nobody was killed or stalled.           *)
LEMMA NextExact ==
    ASSUME HookAssumption, TypeOK, Exact, hook = "codex", [Next]_vars, faults = 0, faults' = 0
    PROVE  Exact'
<1>1. ASSUME NEW c \in Calls, Start(c) \/ Unreadable(c) \/ Run(c) \/ UserRefuses(c)
      PROVE  Exact'
  <2>1. \E p \in {"asking", "allowed", "denied", "consume", "done", "refused"} : Go(c, p)
    BY <1>1 DEF Start, Unreadable, Run, UserRefuses
  <2>2. pc[c] \notin Section /\ UNCHANGED <<lock, listed, saved>>
    BY <1>1 DEF Start, Unreadable, Run, UserRefuses, At, Section, files
  <2> QED
    BY <2>1, <2>2, OutsideExact DEF Section
<1>2. ASSUME NEW c \in Calls, Stat(c) PROVE Exact'
  <2>1. Stale = FALSE
    BY DEF Stale, Exact, OneInside
  <2>2. Go(c, "open") /\ pc[c] = "stat" /\ UNCHANGED <<lock, listed, saved>>
    BY <1>2, <2>1 DEF Stat, At, files
  <2> QED
    BY <2>2, OutsideExact DEF Section
<1>3. ASSUME NEW c \in Calls, Rm(c) PROVE Exact'
  BY <1>3 DEF Rm, Exact, OneInside
<1>4. ASSUME NEW c \in Calls, GiveUp(c) PROVE Exact'
  <2>1. PICK p \in {"allowed", "asked", "denied", "report"} : Go(c, p)
    BY <1>4, AfterSaveOutside DEF GiveUp
  <2>2. pc[c] = "open" /\ UNCHANGED <<lock, listed, saved>>
    BY <1>4 DEF GiveUp, At, files
  <2> QED
    BY <2>1, <2>2, OutsideExact DEF Section
<1>5. ASSUME NEW c \in Calls, Evaluate(c) PROVE Exact'
  <2>1. PICK p \in {"open", "allowed", "asked", "denied", "report"} : Go(c, p)
    BY <1>5, EvaluateMoves
  <2>2. pc[c] = "asking" /\ UNCHANGED <<lock, listed, saved>>
    BY <1>5, EvaluateMoves DEF At, files
  <2> QED
    BY <2>1, <2>2, OutsideExact DEF Section
<1>6. ASSUME NEW c \in Calls, SaveFails(c) PROVE Exact'
  <2>1. UNCHANGED <<lock, listed, saved>>
    BY <1>6, SaveFailsMoves DEF files
  <2>2. CASE pc[c] \in {"list", "write"} /\ Go(c, "abandon")
    BY <2>1, <2>2, InsideExact DEF Section
  <2>3. CASE pc[c] = "open" /\ Go(c, AfterSave(c, FALSE))
    BY <2>1, <2>3, AfterSaveOutside, OutsideExact DEF Section
  <2> QED
    BY <1>6, <2>2, <2>3, SaveFailsMoves
<1>7. ASSUME NEW c \in Calls, \/ Open(c) \/ List(c) \/ Evict(c) \/ Remove(c) \/ Write(c)
                               \/ Unlock(c) \/ Consume(c)
      PROVE  Exact'
  BY <1>7, OpenExact, ListExact, EvictExact, RemoveExact, WriteExact, UnlockExact, ConsumeExact
<1>8. ASSUME NEW c \in Calls, Report(c) \/ ReportRun(c) \/ Blind(c) PROVE Exact'
  <2>1. \E p \in {"allowed", "asked", "denied", "done"} : Go(c, p)
    BY <1>8 DEF Report, ReportRun, Blind, Send, Answer
  <2>2. pc[c] \notin Section /\ UNCHANGED <<lock, listed, saved>>
    BY <1>8 DEF Report, ReportRun, Blind, Send, At, Section, files
  <2> QED
    BY <2>1, <2>2, OutsideExact DEF Section
<1>9. ASSUME NEW c \in Calls, Disturb(c) PROVE FALSE
  BY <1>9, FaultTyped DEF Disturb, StatFails, RemoveFails, UnlockFails, Kill
<1>10. CASE LockAges
  BY <1>10, FaultTyped DEF LockAges, Exact, OneInside
<1>11. CASE UNCHANGED vars
  BY <1>11 DEF vars, files, Exact, OneInside, Pruned, At
<1> QED
  BY <1>1, <1>2, <1>3, <1>4, <1>5, <1>6, <1>7, <1>8, <1>9, <1>10, <1>11
     DEF Next, Proceed, LockStep

(* Neither the hook that is installed nor the faults are ever taken back.  *)
LEMMA NextQuiet ==
    ASSUME HookAssumption, TypeOK, [Next]_vars
    PROVE  hook' = hook /\ (faults' = 0 => faults = 0)
<1>1. hook' = hook /\ faults' \in {faults, faults + 1}
  <2>1. ASSUME NEW c \in Calls, \/ Evict(c) \/ StatFails(c) \/ Remove(c) \/ RemoveFails(c)
                                 \/ Unlock(c) \/ UnlockFails(c)
        PROVE  hook' = hook /\ faults' \in {faults, faults + 1}
    BY <2>1 DEF Evict, StatFails, Choose, Remove, RemoveFails, Dequeue, Unlock, UnlockFails,
                Leave, Fault, config
  <2>2. ASSUME NEW c \in Calls,
               \/ Start(c) \/ Unreadable(c) \/ Evaluate(c) \/ Open(c) \/ Stat(c) \/ Rm(c)
               \/ List(c) \/ Write(c) \/ SaveFails(c) \/ Report(c) \/ Consume(c)
               \/ ReportRun(c) \/ Blind(c) \/ GiveUp(c) \/ Run(c) \/ UserRefuses(c) \/ Kill(c)
        PROVE  hook' = hook /\ faults' \in {faults, faults + 1}
    BY <2>2 DEF Start, Unreadable, Evaluate, Open, Stat, Rm, List, Write, SaveFails, Report,
                Consume, ReportRun, Blind, Send, GiveUp, Run, UserRefuses, Kill, Fault, config
  <2>3. LockAges \/ UNCHANGED vars => hook' = hook /\ faults' \in {faults, faults + 1}
    BY DEF LockAges, Fault, vars, config
  <2> QED
    BY <2>1, <2>2, <2>3 DEF Next, Proceed, LockStep, Disturb
<1> QED
  BY <1>1 DEF TypeOK

LEMMA InitExact == ASSUME HookAssumption, Init PROVE Exact
<1>1. OneInside /\ Pruned
  BY DEF Init, OneInside, Pruned, NoLock, At, Section
<1>2. Cardinality(saved) = 0
  BY FS_EmptySet DEF Init
<1> QED
  BY <1>1, <1>2 DEF Exact, HookAssumption

(* The directory of the Codex hook holds Cap files at most, and one        *)
(* process at a time prunes and writes there, for as long as the host      *)
(* kills no process, none stalls while it holds the lock and no removal    *)
(* fails                                                                   *)
(* (aurel-codex-hook.mjs:204-279).                                         *)
THEOREM CapIsExact == ASSUME HookAssumption PROVE Spec => []CapExact
<1>1. Init => CapExact
  BY InitTyped, InitExact DEF CapExact, Exact
<1>2. CapExact /\ [Next]_vars => CapExact'
  <2> SUFFICES ASSUME CapExact, [Next]_vars PROVE CapExact'
    OBVIOUS
  <2>1. TypeOK'
    BY NextTyped DEF CapExact
  <2>2. ASSUME hook' = "codex", faults' = 0 PROVE Exact'
    BY <2>2, NextQuiet, NextExact DEF CapExact, Exact
  <2> QED
    BY <2>1, <2>2 DEF CapExact, Exact
<1> QED
  BY <1>1, <1>2, PTL DEF Spec

(* ------------------------------ The reports ---------------------------- *)

(* The steps of a process that is to write a file or has written it.       *)
Saving == {"open", "stat", "rm"} \cup Section

(* What is known of a call: nothing was reported of it before its first    *)
(* process reports or ends, that process carries a decision and reports    *)
(* none that allows, and under Codex only an allowed call leaves a file.   *)
Sound(c) ==
    /\ pc[c] \in PreSteps \cup {"idle"} => \A o \in outcomes : o.call # c
    /\ pc[c] \in PreSteps \ {"asking"} => verdict[c] \in Decisions
    /\ At(c, "report") => verdict[c] # "allow"
    /\ hook = "codex" => /\ pc[c] \in Saving \cup {"send"} => verdict[c] = "allow"
                         /\ c \in saved => verdict[c] = "allow"
                         /\ ~At(c, "blind")
                         /\ pc[c] \in {"idle", "asking"} => c \notin saved

(* What OutcomesTrue says of one report.                                   *)
Tells(o) ==
    /\ o.traced => traced[o.call]
    /\ o.status = "blocked" => /\ pc[o.call] \in {"denied", "killed"} \/ o.call \in loose
                               /\ verdict[o.call] \in Decisions \ {"allow"}
    /\ o.status = "approval_requested" => /\ hook = "claude"
                                          /\ pc[o.call] # "denied"
                                          /\ verdict[o.call] \in {"approval", "rewrite"}
    /\ o.status = "ran" => /\ pc[o.call] \in {"send", "blind", "done"}
                           /\ hook = "codex" => verdict[o.call] = "allow"

Faithful == (\A c \in Calls : Sound(c)) /\ (\A o \in outcomes : Tells(o))

(* A step of one call: of the others it at most takes files away.          *)
Only(c) == /\ hook' = hook
           /\ \A d \in Calls \ {c} : /\ pc'[d] = pc[d]
                                     /\ verdict'[d] = verdict[d]
                                     /\ traced'[d] = traced[d]
           /\ saved' \subseteq saved \cup {c}
           /\ loose \subseteq loose'
           /\ \A o \in outcomes' : o.call = c \/ o \in outcomes

LEMMA OthersFaithful ==
    ASSUME TypeOK, TypeOK', Faithful, NEW c \in Calls, Only(c), Sound(c)',
           \A o \in outcomes' : o.call = c => Tells(o)'
    PROVE  Faithful'
<1>1. ASSUME NEW d \in Calls, d # c PROVE Sound(d)'
  <2>1. Sound(d) /\ pc'[d] = pc[d] /\ verdict'[d] = verdict[d] /\ hook' = hook
    BY <1>1 DEF Faithful, Only
  <2>2. (d \in saved' => d \in saved) /\ \A o \in outcomes' : o.call = d => o \in outcomes
    BY <1>1 DEF Only
  <2> QED
    BY <2>1, <2>2 DEF Sound, At
<1>2. ASSUME NEW o \in outcomes', o.call # c PROVE Tells(o)'
  <2>1. o \in outcomes /\ o.call \in Calls \ {c}
    BY <1>2 DEF Only, TypeOK
  <2>2. Tells(o) /\ hook' = hook
    BY <2>1 DEF Faithful, Only
  <2>3. /\ pc'[o.call] = pc[o.call] /\ verdict'[o.call] = verdict[o.call]
        /\ traced'[o.call] = traced[o.call] /\ (o.call \in loose => o.call \in loose')
    BY <2>1 DEF Only
  <2> QED
    BY <2>2, <2>3 DEF Tells
<1> QED
  BY <1>1, <1>2 DEF Faithful

(* A step of a process that is still to report: there is no report of its  *)
(* call yet, and what is left to show is where it goes.                    *)
LEMMA EarlyFaithful ==
    ASSUME TypeOK, TypeOK', Faithful, NEW c \in Calls, Only(c), Sound(c)',
           pc[c] \in PreSteps \cup {"idle"}, outcomes' = outcomes
    PROVE  Faithful'
<1>1. \A o \in outcomes' : o.call # c
  BY DEF Faithful, Sound
<1> QED
  BY <1>1, OthersFaithful

(* A process that only moves on is a step of its call alone.               *)
LEMMA GoOnly ==
    ASSUME TypeOK, NEW c \in Calls, NEW p, Go(c, p), UNCHANGED <<hook, verdict, traced, outcomes, loose>>,
           saved' \subseteq saved \cup {c}
    PROVE  Only(c) /\ pc'[c] = p
  BY DEF TypeOK, Go, Only

LEMMA StartFaithful ==
    ASSUME TypeOK, TypeOK', Faithful, NEW c \in Calls, Start(c) \/ Unreadable(c)
    PROVE  Faithful'
<1>1. PICK p \in {"asking", "allowed", "denied"} : Go(c, p)
  BY DEF Start, Unreadable
<1>2. pc[c] = "idle" /\ UNCHANGED <<hook, verdict, traced, saved, outcomes, loose>>
  BY DEF Start, Unreadable, At, config, files
<1>3. Only(c) /\ pc'[c] = p
  BY <1>1, <1>2, GoOnly
<1>4. Sound(c)'
  BY <1>1, <1>2, <1>3 DEF Faithful, Sound, At, PreSteps, Saving, Section
<1> QED
  BY <1>2, <1>3, <1>4, EarlyFaithful

(* Codex's hook opens the lock for an allowed call only, and no hook goes  *)
(* on to report a call that it allows.                                     *)
LEMMA EvaluateFaithful ==
    ASSUME HookAssumption, TypeOK, TypeOK', Faithful, NEW c \in Calls, Evaluate(c)
    PROVE  Faithful'
<1>1. PICK p \in {"open", "allowed", "asked", "denied", "report"} : Go(c, p)
  BY EvaluateMoves
<1>2. pc[c] = "asking" /\ UNCHANGED <<hook, saved, outcomes, loose>>
  BY EvaluateMoves DEF At, config, files
<1>3. PICK r \in Replies[c] :
         /\ verdict' = [verdict EXCEPT ![c] = r.verdict]
         /\ \/ r.verdict \in Decisions /\ Decide(c, r.verdict, r.traced)
            \/ r.verdict = "outage" /\ Outage(c)
            \/ r.verdict = "malformed" /\ Malformed(c)
  BY DEF Evaluate
<1>4. pc'[c] = p /\ verdict'[c] = r.verdict
  BY <1>1, <1>3 DEF Go, TypeOK
<1>5. Only(c)
  BY <1>1, <1>2, <1>3 DEF Only, Go, TypeOK, Decide, Outage, Malformed
<1>6. p \in {"open", "report"} => r.verdict \in Decisions
  BY <1>1, <1>3, <1>4 DEF Outage, Malformed, Go, TypeOK
<1>7. p = "report" => r.verdict # "allow"
  BY <1>1, <1>3, <1>4, <1>6 DEF Decide, Settle, Answer, Outage, Malformed, Go, TypeOK
<1>8. p = "open" /\ hook = "codex" => r.verdict = "allow"
  BY <1>1, <1>3, <1>4, <1>6 DEF Decide, Settle, Answer, Remembered, Outage, Malformed, Go, TypeOK
<1>9. Sound(c)'
  BY <1>2, <1>4, <1>6, <1>7, <1>8 DEF Faithful, Sound, At, PreSteps, Saving, Section
<1> QED
  BY <1>2, <1>5, <1>9, EarlyFaithful DEF PreSteps

(* Inside the loop around the lock the process keeps what it knows.        *)
LEMMA LockFaithful ==
    ASSUME TypeOK, TypeOK', Faithful, NEW c \in Calls,
           \/ Open(c) \/ Stat(c) \/ Rm(c) \/ List(c) \/ Evict(c) \/ StatFails(c)
           \/ Remove(c) \/ RemoveFails(c) \/ Write(c)
    PROVE  Faithful'
<1>1. /\ \E p \in Saving : Go(c, p)
      /\ pc[c] \in Saving
      /\ UNCHANGED <<hook, verdict, traced, outcomes, loose>>
      /\ saved' \subseteq saved \cup {c}
  <2>1. CASE Open(c) \/ Stat(c) \/ Rm(c) \/ List(c) \/ Write(c)
    BY <2>1 DEF Open, Stat, Rm, List, Write, Saving, Section, At, config, files
  <2>2. CASE Evict(c) \/ StatFails(c)
    BY <2>2, EvictMoves DEF Saving, Section, Go, config
  <2>3. CASE Remove(c) \/ RemoveFails(c)
    <3>1. saved' \subseteq saved
      BY <2>3 DEF Remove, RemoveFails
    <3>2. pc[c] = "write" /\ pc' = [pc EXCEPT ![c] = pc[c]]
      BY <2>3, RemoveMoves DEF TypeOK
    <3>3. UNCHANGED <<hook, verdict, traced, outcomes, loose>>
      BY <2>3, RemoveMoves DEF config
    <3> QED
      BY <3>1, <3>2, <3>3 DEF Saving, Section, Go
  <2> QED
    BY <2>1, <2>2, <2>3
<1>2. PICK p \in Saving : Go(c, p)
  BY <1>1
<1>3. Only(c) /\ pc'[c] = p
  BY <1>1, <1>2, GoOnly
<1>4. Sound(c)'
  BY <1>1, <1>3 DEF Faithful, Sound, At, PreSteps, Saving, Section
<1> QED
  BY <1>1, <1>3, <1>4, EarlyFaithful DEF Saving, Section, PreSteps

LEMMA AfterSaveReports ==
    ASSUME NEW c, NEW ok \in BOOLEAN, AfterSave(c, ok) = "report"
    PROVE  verdict[c] # "allow"
  BY DEF AfterSave, Settle, Answer

(* The process leaves the loop, with its file written or not.              *)
LEMMA LeaveFaithful ==
    ASSUME TypeOK, TypeOK', Faithful, NEW c \in Calls,
           GiveUp(c) \/ SaveFails(c) \/ Unlock(c) \/ UnlockFails(c)
    PROVE  Faithful'
<1>1. CASE SaveFails(c) /\ Go(c, "abandon") /\ pc[c] \in {"list", "write"}
  <2>1. pc[c] \in Saving /\ UNCHANGED <<hook, verdict, traced, outcomes, saved, loose>>
    BY <1>1, SaveFailsMoves DEF Saving, Section, config, files
  <2>2. Only(c) /\ pc'[c] = "abandon"
    BY <1>1, <2>1, GoOnly
  <2>3. Sound(c)'
    BY <2>1, <2>2 DEF Faithful, Sound, At, PreSteps, Saving, Section
  <2> QED
    BY <2>1, <2>2, <2>3, EarlyFaithful DEF Saving, Section, PreSteps
<1>2. CASE \E ok \in BOOLEAN : Go(c, AfterSave(c, ok))
  <2>1. PICK ok \in BOOLEAN : Go(c, AfterSave(c, ok))
    BY <1>2
  <2>2. pc[c] \in Saving /\ UNCHANGED <<hook, verdict, traced, outcomes, saved, loose>>
    BY SaveFailsMoves, LeaveMoves DEF GiveUp, At, Saving, Section, config, files
  <2>3. Only(c) /\ pc'[c] = AfterSave(c, ok)
    BY <2>1, <2>2, GoOnly
  <2>4. pc'[c] \in {"allowed", "asked", "denied", "report"}
    BY <2>3, AfterSaveOutside
  <2>5. pc'[c] = "report" => verdict[c] # "allow"
    BY <2>3, AfterSaveReports
  <2>6. Sound(c)'
    BY <2>2, <2>4, <2>5 DEF Faithful, Sound, At, PreSteps, Saving, Section
  <2> QED
    BY <2>2, <2>3, <2>6, EarlyFaithful DEF Saving, Section, PreSteps
<1>3. GiveUp(c) => \E ok \in BOOLEAN : Go(c, AfterSave(c, ok))
  BY DEF GiveUp
<1> QED
  BY <1>1, <1>2, <1>3, SaveFailsMoves, LeaveMoves

(* A report is one of its call, and adds itself at most.                   *)
LEMMA SendOnly ==
    ASSUME TypeOK, NEW c \in Calls, NEW s, NEW known, NEW p,
           Send(c, Outcome(c, s, known), p)
    PROVE  /\ Only(c) /\ pc'[c] = p
           /\ UNCHANGED <<hook, verdict, traced, saved, loose>>
           /\ outcomes' \subseteq outcomes \cup {Outcome(c, s, known)}
  BY DEF Send, Outcome, Only, Go, TypeOK, config, files

(* What the report before a call says, if it arrives.                      *)
LEMMA RefusalTells ==
    ASSUME TypeOK, Faithful, NEW c \in Calls, At(c, "report")
    PROVE  /\ Answer(verdict[c]) \in {"asked", "denied"}
           /\ verdict[c] \in Decisions \ {"allow"}
           /\ \A o \in outcomes : o.call # c
           /\ hook = "codex" => c \notin saved
           /\ Refusal(c).call = c /\ Refusal(c).traced = traced[c]
           /\ \/ Refusal(c).status = "blocked" /\ Answer(verdict[c]) = "denied"
              \/ /\ Refusal(c).status = "approval_requested"
                 /\ Answer(verdict[c]) = "asked"
                 /\ hook = "claude" /\ verdict[c] \in {"approval", "rewrite"}
<1>1. /\ verdict[c] \in Decisions \ {"allow"} /\ \A o \in outcomes : o.call # c
      /\ hook = "codex" => (c \in saved => verdict[c] = "allow")
  BY DEF Faithful, Sound, At, PreSteps
<1>2. Answer(verdict[c]) \in {"asked", "denied"}
  BY <1>1 DEF Answer
<1>3. Answer(verdict[c]) = "asked" => hook = "claude" /\ verdict[c] \in {"approval", "rewrite"}
  BY <1>1 DEF Answer, Askable
<1> QED
  BY <1>1, <1>2, <1>3 DEF Refusal, Outcome

LEMMA ReportFaithful ==
    ASSUME TypeOK, TypeOK', Faithful, NEW c \in Calls, Report(c) PROVE Faithful'
<1> DEFINE answer == Answer(verdict[c])
           new == Refusal(c)
<1>1. Send(c, new, answer) /\ At(c, "report")
  BY DEF Report
<1>2. /\ Only(c) /\ pc'[c] = answer
      /\ UNCHANGED <<hook, verdict, traced, saved, loose>>
      /\ outcomes' \subseteq outcomes \cup {new}
  BY <1>1, SendOnly DEF Refusal
<1> HIDE DEF new, answer
<1>3. ASSUME NEW o \in outcomes', o.call = c PROVE Tells(o)'
  <2>1. o = new
    BY <1>1, <1>2, <1>3, RefusalTells
  <2> QED
    BY <2>1, <1>1, <1>2, RefusalTells DEF Tells, new, answer
<1>4. Sound(c)'
  BY <1>1, <1>2, RefusalTells DEF Sound, At, PreSteps, Saving, Section, answer
<1> QED
  BY <1>2, <1>3, <1>4, OthersFaithful

(* A call that runs, or that its user refuses, may have been reported as   *)
(* asked for, and as nothing else.                                         *)
LEMMA RunFaithful ==
    ASSUME TypeOK, TypeOK', Faithful, NEW c \in Calls, Run(c) \/ UserRefuses(c)
    PROVE  Faithful'
<1>1. PICK p \in {"consume", "done", "refused"} : Go(c, p)
  BY DEF Run, UserRefuses
<1>2. pc[c] \in {"allowed", "asked"} /\ UNCHANGED <<hook, verdict, traced, saved, outcomes, loose>>
  BY DEF Run, UserRefuses, At, config, files
<1>3. Only(c) /\ pc'[c] = p
  BY <1>1, <1>2, GoOnly
<1>4. Sound(c)'
  BY <1>2, <1>3 DEF Faithful, Sound, At, PreSteps, Saving, Section
<1>5. \A o \in outcomes' : o.call = c => Tells(o)'
  BY <1>2, <1>3 DEF Faithful, Tells
<1> QED
  BY <1>3, <1>4, <1>5, OthersFaithful

(* Under Codex the second process reports only a call whose file it found. *)
LEMMA ConsumeFaithful ==
    ASSUME TypeOK, TypeOK', Faithful, NEW c \in Calls, Consume(c) PROVE Faithful'
<1>1. PICK p \in {"send", "blind", "done"} :
         /\ Go(c, p)
         /\ p = "send" => c \in saved
         /\ p = "blind" => hook = "claude"
  BY DEF Consume
<1>2. /\ pc[c] = "consume" /\ saved' = saved \ {c}
      /\ UNCHANGED <<hook, verdict, traced, outcomes, loose>>
  BY DEF Consume, At, config
<1>3. Only(c) /\ pc'[c] = p
  BY <1>1, <1>2, GoOnly
<1>4. Sound(c)'
  BY <1>1, <1>2, <1>3 DEF Faithful, Sound, At, PreSteps, Saving, Section
<1>5. \A o \in outcomes' : o.call = c => Tells(o)'
  BY <1>2, <1>3 DEF Faithful, Tells
<1> QED
  BY <1>3, <1>4, <1>5, OthersFaithful

LEMMA AfterFaithful ==
    ASSUME TypeOK, TypeOK', Faithful, NEW c \in Calls, ReportRun(c) \/ Blind(c)
    PROVE  Faithful'
<1>1. PICK known \in BOOLEAN : Send(c, Outcome(c, "ran", known), "done") /\ (known => traced[c])
  BY DEF ReportRun, Blind, TypeOK
<1>2. /\ Only(c) /\ pc'[c] = "done"
      /\ UNCHANGED <<hook, verdict, traced, saved, loose>>
      /\ outcomes' \subseteq outcomes \cup {Outcome(c, "ran", known)}
  BY <1>1, SendOnly
<1>3. pc[c] = "send" \/ (pc[c] = "blind" /\ hook # "codex")
  BY DEF ReportRun, Blind, At, Faithful, Sound
<1>4. hook = "codex" => verdict[c] = "allow"
  BY <1>3 DEF Faithful, Sound
<1>5. Sound(c)'
  BY <1>2, <1>4 DEF Sound, At, PreSteps, Saving, Section
<1>6. ASSUME NEW o \in outcomes', o.call = c PROVE Tells(o)'
  <2>1. CASE o \in outcomes
    <3>1. Tells(o)
      BY <2>1 DEF Faithful
    <3> QED
      BY <3>1, <1>2, <1>3, <1>4, <1>6 DEF Tells
  <2>2. CASE o = Outcome(c, "ran", known)
    <3>1. o.call = c /\ o.status = "ran" /\ o.traced = known
      BY <2>2 DEF Outcome
    <3> QED
      BY <3>1, <1>1, <1>2, <1>4 DEF Tells
  <2> QED
    BY <2>1, <2>2, <1>2
<1> QED
  BY <1>2, <1>5, <1>6, OthersFaithful

(* A killed process may have made the report it was at.                    *)
LEMMA KillFaithful ==
    ASSUME TypeOK, TypeOK', Faithful, NEW c \in Calls, Kill(c) PROVE Faithful'
<1>1. PICK p \in {"killed", "allowed", "done"} :
         /\ Go(c, p)
         /\ \/ pc[c] \in PreSteps /\ p # "done"
            \/ pc[c] \in PostSteps /\ p = "done"
         /\ loose' = loose \/ loose' = loose \cup {c}
         /\ p = "allowed" => c \in loose'
  BY KillMoves
<1>2. /\ UNCHANGED <<hook, verdict, traced, saved>>
      /\ \/ outcomes' = outcomes
         \/ At(c, "report") /\ outcomes' = outcomes \cup {Refusal(c)}
  BY KillMoves DEF config, At
<1>3. Only(c) /\ pc'[c] = p
  <2>1. \A o \in outcomes' : o.call = c \/ o \in outcomes
    BY <1>2, RefusalTells
  <2> QED
    BY <1>1, <1>2, <2>1 DEF Only, Go, TypeOK
<1>4. Sound(c)'
  BY <1>1, <1>2, <1>3 DEF Faithful, Sound, At, PreSteps, Saving, Section
<1>5. ASSUME NEW o \in outcomes', o.call = c PROVE Tells(o)'
  <2>1. CASE o \in outcomes
    <3>1. pc[c] \in PostSteps /\ p = "done"
      BY <1>1, <1>5, <2>1 DEF Faithful, Sound
    <3>2. Tells(o)
      BY <2>1 DEF Faithful
    <3>3. loose \subseteq loose'
      BY <1>1
    <3> QED
      BY <1>2, <1>3, <1>5, <3>1, <3>2, <3>3 DEF Tells, PostSteps
  <2>2. CASE At(c, "report") /\ o = Refusal(c)
    <3>1. p \in {"killed", "allowed"} /\ (p = "allowed" => c \in loose')
      BY <1>1, <2>2 DEF At, PostSteps
    <3> QED
      BY <1>2, <1>3, <2>2, <3>1, RefusalTells DEF Tells
  <2> QED
    BY <1>2, <2>1, <2>2
<1> QED
  BY <1>3, <1>4, <1>5, OthersFaithful

LEMMA NextFaithful ==
    ASSUME HookAssumption, TypeOK, TypeOK', Faithful, [Next]_vars PROVE Faithful'
<1>1. ASSUME NEW c \in Calls,
             \/ Start(c) \/ Unreadable(c) \/ Proceed(c) \/ GiveUp(c)
             \/ Run(c) \/ UserRefuses(c) \/ Disturb(c)
      PROVE  Faithful'
  BY <1>1, StartFaithful, EvaluateFaithful, LockFaithful, LeaveFaithful, ReportFaithful,
     RunFaithful, ConsumeFaithful, AfterFaithful, KillFaithful DEF Proceed, LockStep, Disturb
<1>2. CASE LockAges
  <2>1. UNCHANGED <<hook, pc, verdict, traced, saved, outcomes, loose>>
    BY <1>2 DEF LockAges, config
  <2> QED
    BY <2>1 DEF Faithful, Sound, Tells, At
<1>3. CASE UNCHANGED vars
  <2>1. UNCHANGED <<hook, pc, verdict, traced, saved, outcomes, loose>>
    BY <1>3 DEF vars, config
  <2> QED
    BY <2>1 DEF Faithful, Sound, Tells, At
<1> QED
  BY <1>1, <1>2, <1>3 DEF Next

LEMMA InitFaithful == ASSUME Init PROVE Faithful
  BY DEF Init, Faithful, Sound, At, Saving, Section, PreSteps

(* A report says what became of the call, whatever the other processes do  *)
(* and whenever the host kills one: a call reported blocked never ran and  *)
(* is never going to, unless the host killed the hook over its report and  *)
(* went on without an answer; one reported to have run did, and under Codex only   *)
(* because the policy allowed it (aurel-hook.mjs:41-176,                   *)
(* aurel-codex-hook.mjs:15-112).                                           *)
THEOREM ReportsAreTrue == ASSUME HookAssumption PROVE Spec => []OutcomesTrue
<1>1. Init => TypeOK /\ Faithful
  BY InitTyped, InitFaithful
<1>2. TypeOK /\ Faithful /\ [Next]_vars => (TypeOK /\ Faithful)'
  BY NextTyped, NextFaithful
<1>3. TypeOK /\ Faithful => OutcomesTrue
  BY DEF Faithful, Tells, OutcomesTrue
<1> QED
  BY <1>1, <1>2, <1>3, PTL DEF Spec

(* ---------------------------- The files -------------------------------- *)

(* Whatever is in the directory, or was when a process listed it, has been *)
(* written.                                                                *)
Born == /\ \A c \in saved : born[c] > 0
        /\ \A c \in Calls : \A d \in listed[c] : born[d] > 0

LEMMA InitBorn == ASSUME Init PROVE Born
  BY DEF Init, Born

LEMMA WriteBorn ==
    ASSUME HookAssumption, TypeOK, NEW c \in Calls, Write(c)
    PROVE  \E n \in Nat \ {0} : born' = [born EXCEPT ![c] = n]
<1>1. PICK n \in 1..Cardinality(Calls) : born' = [born EXCEPT ![c] = n]
  BY DEF Write
<1>2. Cardinality(Calls) \in Nat
  BY FS_CardinalityType DEF HookAssumption
<1>3. n \in Nat \ {0}
  BY <1>2
<1> QED
  BY <1>1, <1>3

(* A file that was written stays written; what a process has still to      *)
(* remove it has chosen, and nothing is added to it.                       *)
Kept == /\ \A d \in Calls : born[d] > 0 => born'[d] > 0
        /\ \A d \in saved' : d \in saved \/ born'[d] > 0
        /\ \A e \in Calls : \A d \in listed'[e] : d \in listed[e] \/ d \in saved
        /\ \A e \in Calls :
              pc'[e] = "write" => \/ Evict(e) \/ StatFails(e)
                                  \/ pc[e] = "write" /\ listed'[e] \subseteq listed[e]

LEMMA MoveKept ==
    ASSUME TypeOK, NEW c \in Calls, NEW p, Go(c, p), p # "write",
           saved' \subseteq saved, born' = born,
           \A e \in Calls \ {c} : listed'[e] = listed[e],
           \A d \in listed'[c] : d \in listed[c] \/ d \in saved
    PROVE  Kept
<1>1. \A e \in Calls : pc'[e] = "write" => e # c /\ pc[e] = "write"
  BY DEF Go, TypeOK
<1>2. \A e \in Calls : \A d \in listed'[e] : d \in listed[e] \/ d \in saved
  OBVIOUS
<1> QED
  BY <1>1, <1>2 DEF Kept

LEMMA NextKept == ASSUME HookAssumption, TypeOK, [Next]_vars PROVE Kept
<1>1. ASSUME NEW c \in Calls, Write(c) PROVE Kept
  <2>1. PICK n \in Nat \ {0} : born' = [born EXCEPT ![c] = n]
    BY <1>1, WriteBorn
  <2>2. saved' = saved \cup {c} /\ listed' = listed /\ pc' = [pc EXCEPT ![c] = "unlock"]
    BY <1>1 DEF Write, Go
  <2> QED
    BY <2>1, <2>2 DEF Kept, TypeOK
<1>2. ASSUME NEW c \in Calls, List(c) PROVE Kept
  <2>1. Go(c, "evict") /\ saved' = saved /\ born' = born /\ listed' = [listed EXCEPT ![c] = saved]
    BY <1>2 DEF List
  <2> QED
    BY <2>1, MoveKept DEF TypeOK
<1>3. ASSUME NEW c \in Calls, Evict(c) \/ StatFails(c) PROVE Kept
  <2>1. PICK E \in SUBSET listed[c] : listed' = [listed EXCEPT ![c] = E]
    BY <1>3, EvictMoves DEF Candidates
  <2>2. pc' = [pc EXCEPT ![c] = "write"] /\ saved' = saved /\ born' = born
    BY <1>3, EvictMoves
  <2>3. \A e \in Calls : \A d \in listed'[e] : d \in listed[e]
    BY <2>1 DEF TypeOK
  <2>4. ASSUME NEW e \in Calls, pc'[e] = "write"
        PROVE  \/ Evict(e) \/ StatFails(e)
               \/ pc[e] = "write" /\ listed'[e] \subseteq listed[e]
    <3>1. CASE e = c
      BY <1>3, <3>1
    <3>2. CASE e # c
      BY <2>2, <2>3, <2>4, <3>2 DEF TypeOK
    <3> QED
      BY <3>1, <3>2
  <2> QED
    BY <2>2, <2>3, <2>4 DEF Kept
<1>4. ASSUME NEW c \in Calls, Remove(c) \/ RemoveFails(c) PROVE Kept
  <2>1. PICK E \in SUBSET listed[c] : listed' = [listed EXCEPT ![c] = listed[c] \ E]
    BY <1>4 DEF Remove, RemoveFails, Dequeue
  <2>2. pc' = pc /\ saved' \subseteq saved /\ born' = born
    BY <1>4, RemoveMoves DEF Remove, RemoveFails
  <2>3. \A e \in Calls : listed'[e] \subseteq listed[e]
    BY <2>1 DEF TypeOK
  <2> QED
    BY <2>2, <2>3 DEF Kept
<1>5. ASSUME NEW c \in Calls, NEW p, Go(c, p), p # "write", saved' \subseteq saved,
             UNCHANGED <<listed, born>>
      PROVE  Kept
  BY <1>5, MoveKept
<1>6. ASSUME NEW c \in Calls, \/ Start(c) \/ Unreadable(c) \/ Open(c) \/ Stat(c) \/ Rm(c)
                              \/ Run(c) \/ UserRefuses(c) \/ Consume(c)
      PROVE  Kept
  <2>1. \E p \in Phases \ {"write"} : Go(c, p)
    BY <1>6 DEF Start, Unreadable, Open, Stat, Rm, Run, UserRefuses, Consume, Phases, Steps,
                PreSteps, PostSteps
  <2>2. saved' \subseteq saved /\ UNCHANGED <<listed, born>>
    BY <1>6 DEF Start, Unreadable, Open, Stat, Rm, Run, UserRefuses, Consume, files
  <2> QED
    BY <2>1, <2>2, <1>5
<1>7. ASSUME NEW c \in Calls, \/ Evaluate(c) \/ GiveUp(c) \/ SaveFails(c) \/ Unlock(c)
                              \/ UnlockFails(c) \/ Report(c) \/ ReportRun(c) \/ Blind(c)
      PROVE  Kept
  <2>1. \E p \in Phases \ {"write"} : Go(c, p)
    <3>1. CASE Evaluate(c)
      BY <3>1, EvaluateMoves DEF Phases, Steps, PreSteps, PostSteps
    <3>2. CASE GiveUp(c) \/ SaveFails(c) \/ Unlock(c) \/ UnlockFails(c)
      BY <3>2, AfterSaveOutside, SaveFailsMoves, LeaveMoves DEF GiveUp, Phases, Steps, PreSteps
    <3>3. CASE Report(c) \/ ReportRun(c) \/ Blind(c)
      BY <3>3 DEF Report, ReportRun, Blind, Send, Answer, Phases
    <3> QED
      BY <1>7, <3>1, <3>2, <3>3
  <2>2. UNCHANGED <<saved, listed, born>>
    BY <1>7, EvaluateMoves, SaveFailsMoves, LeaveMoves
       DEF GiveUp, Report, ReportRun, Blind, Send, files
  <2> QED
    BY <2>1, <2>2, <1>5
<1>8. ASSUME NEW c \in Calls, Kill(c) PROVE Kept
  <2>1. \E p \in {"killed", "allowed", "done"} : Go(c, p)
    BY <1>8, KillMoves
  <2>2. saved' = saved /\ born' = born /\ listed' = [listed EXCEPT ![c] = {}]
    BY <1>8, KillMoves
  <2> QED
    BY <2>1, <2>2, MoveKept DEF TypeOK
<1>9. CASE LockAges \/ UNCHANGED vars
  BY <1>9 DEF LockAges, vars, Kept
<1> QED
  BY <1>1, <1>2, <1>3, <1>4, <1>6, <1>7, <1>8, <1>9 DEF Next, Proceed, LockStep, Disturb

LEMMA NextBorn == ASSUME HookAssumption, TypeOK, TypeOK', Born, [Next]_vars PROVE Born'
<1>1. Kept
  BY NextKept
<1>2. ASSUME NEW d \in saved' PROVE born'[d] > 0
  BY <1>1, <1>2 DEF Kept, Born, TypeOK
<1>3. ASSUME NEW e \in Calls, NEW d \in listed'[e] PROVE born'[d] > 0
  <2>1. d \in Calls /\ born[d] > 0
    BY <1>1, <1>3 DEF Kept, Born, TypeOK
  <2> QED
    BY <1>1, <2>1 DEF Kept
<1> QED
  BY <1>2, <1>3 DEF Born

(* Who has files to remove has listed more than Cap, its own counted.      *)
Backed == \A e \in Calls :
             At(e, "write") /\ listed[e] # {} =>
                /\ e \notin listed[e]
                /\ Cardinality({d \in Calls : born[d] > 0 \/ d = e}) > Cap

LEMMA EvictBacked ==
    ASSUME HookAssumption, TypeOK, Born, NEW e \in Calls, Evict(e) \/ StatFails(e),
           listed'[e] # {}
    PROVE  /\ e \notin listed'[e]
           /\ Cardinality({d \in Calls : born[d] > 0 \/ d = e}) > Cap
<1> DEFINE L == listed[e] \cup {e}
           T == {d \in Calls : born[d] > 0 \/ d = e}
<1>1. PICK S \in SUBSET Candidates(e) :
         \E E \in Oldest(S, Excess(e)) : listed' = [listed EXCEPT ![e] = E]
  BY EvictMoves
<1>2. PICK E \in Oldest(S, Excess(e)) : listed' = [listed EXCEPT ![e] = E]
  BY <1>1
<1>3. listed'[e] = E /\ E \subseteq S /\ E # {} /\ e \notin E
  BY <1>2 DEF Oldest, Candidates, TypeOK
<1>4. IsFiniteSet(L) /\ IsFiniteSet(S) /\ IsFiniteSet(E) /\ IsFiniteSet(T)
  BY <1>3, FS_Subset DEF HookAssumption, TypeOK, Candidates
<1>5. /\ Cardinality(L) \in Nat /\ Cardinality(S) \in Nat /\ Cardinality(E) \in Nat
      /\ Cardinality(T) \in Nat /\ Cap \in Nat /\ Cap > 0
  BY <1>4, FS_CardinalityType DEF HookAssumption
<1>6. Cardinality(E) > 0
  BY <1>3, <1>4, <1>5, FS_EmptySet
<1>7. Excess(e) > 0
  BY <1>2, <1>5, <1>6 DEF Oldest, Excess
<1>8. Cardinality(L) > Cap
  BY <1>5, <1>7 DEF Excess
<1>9. L \subseteq T
  BY DEF Born, TypeOK
<1>10. Cardinality(L) <= Cardinality(T)
  BY <1>4, <1>9, FS_Subset
<1> HIDE DEF L, T
<1>11. Cardinality(T) > Cap
  BY <1>5, <1>8, <1>10
<1> QED
  BY <1>3, <1>11 DEF T

LEMMA NextBacked ==
    ASSUME HookAssumption, TypeOK, TypeOK', Born, Backed, [Next]_vars PROVE Backed'
<1>1. Kept
  BY NextKept
<1>2. ASSUME NEW e \in Calls, At(e, "write")', listed'[e] # {}
      PROVE  /\ e \notin listed'[e]
             /\ Cardinality({d \in Calls : born[d] > 0 \/ d = e}) > Cap
  <2>1. CASE Evict(e) \/ StatFails(e)
    BY <1>2, <2>1, EvictBacked
  <2>2. CASE pc[e] = "write" /\ listed'[e] \subseteq listed[e]
    BY <1>2, <2>2 DEF Backed, At
  <2> QED
    BY <1>1, <1>2, <2>1, <2>2 DEF Kept, At
<1>3. ASSUME NEW e \in Calls, Cardinality({d \in Calls : born[d] > 0 \/ d = e}) > Cap
      PROVE  Cardinality({d \in Calls : born'[d] > 0 \/ d = e}) > Cap
  <2> DEFINE T == {d \in Calls : born[d] > 0 \/ d = e}
             U == {d \in Calls : born'[d] > 0 \/ d = e}
  <2>1. T \subseteq U
    BY <1>1 DEF Kept
  <2>2. IsFiniteSet(U) /\ IsFiniteSet(T) /\ Cap \in Nat
    BY FS_Subset DEF HookAssumption
  <2> HIDE DEF T, U
  <2>3. Cardinality(T) <= Cardinality(U) /\ Cardinality(T) \in Nat /\ Cardinality(U) \in Nat
    BY <2>1, <2>2, FS_Subset, FS_CardinalityType
  <2>4. Cardinality(T) > Cap
    BY <1>3 DEF T
  <2>5. Cardinality(U) > Cap
    BY <2>2, <2>3, <2>4
  <2> QED
    BY <2>5 DEF U
<1> QED
  BY <1>2, <1>3 DEF Backed

(* Who evicts a file of another call has listed Cap files besides it, its  *)
(* own counted.                                                            *)
LEMMA RemoveForRoom ==
    ASSUME HookAssumption, TypeOK, Born, Backed, NEW e \in Calls, Remove(e),
           NEW c \in saved \ saved'
    PROVE  Cardinality({d \in Calls \ {c} : born[d] > 0 \/ pc[d] \in Section}) >= Cap
<1> DEFINE L == {d \in Calls : born[d] > 0 \/ d = e}
           T == {d \in Calls \ {c} : born[d] > 0 \/ pc[d] \in Section}
<1>1. c \in listed[e] /\ pc[e] = "write"
  BY DEF Remove, Dequeue, At
<1>2. c # e /\ Cardinality(L) > Cap
  BY <1>1 DEF Backed, At
<1>3. c \in L /\ L \ {c} \subseteq T
  BY <1>1 DEF Born, TypeOK, Section
<1>4. IsFiniteSet(L) /\ IsFiniteSet(T) /\ Cap \in Nat
  BY FS_Subset DEF HookAssumption
<1> HIDE DEF L, T
<1>5. Cardinality(L \ {c}) = Cardinality(L) - 1 /\ Cardinality(L) \in Nat
  BY <1>3, <1>4, FS_RemoveElement, FS_CardinalityType
<1>6. Cardinality(L \ {c}) <= Cardinality(T) /\ Cardinality(T) \in Nat
  BY <1>3, <1>4, FS_Subset, FS_CardinalityType
<1>7. Cardinality(T) >= Cap
  BY <1>2, <1>4, <1>5, <1>6
<1> QED
  BY <1>7 DEF T

(* A call loses the file it left only to its own second process, or after  *)
(* Cap other calls had theirs written or were about to: concurrent prunes, *)
(* files that vanish between the listing and the removal, and a lock that  *)
(* two processes hold take nobody's file while there is room               *)
(* (aurel-hook.mjs:460-530, aurel-codex-hook.mjs:204-279).                 *)
THEOREM FilesAreLostForRoom == ASSUME HookAssumption PROVE Spec => LostForRoom
<1> DEFINE Taken == \A c \in saved \ saved' :
              \/ At(c, "consume")
              \/ Cardinality({d \in Calls \ {c} : born[d] > 0 \/ pc[d] \in Section}) >= Cap
<1>1. Init => TypeOK /\ Born /\ Backed
  BY InitTyped, InitBorn DEF Init, Backed, At
<1>2. TypeOK /\ Born /\ Backed /\ [Next]_vars => (TypeOK /\ Born /\ Backed)'
  BY NextTyped, NextBorn, NextBacked
<1>3. TypeOK /\ Born /\ Backed /\ [Next]_vars => [Taken]_vars
  <2> SUFFICES ASSUME TypeOK, Born, Backed, Next PROVE Taken
    OBVIOUS
  <2>1. ASSUME NEW c \in Calls, Remove(c) PROVE Taken
    BY <2>1, RemoveForRoom DEF TypeOK
  <2>2. ASSUME NEW c \in Calls, Consume(c) PROVE Taken
    BY <2>2 DEF Consume
  <2>3. ASSUME saved \subseteq saved' PROVE Taken
    BY <2>3
  <2>4. ASSUME NEW c \in Calls,
               \/ Start(c) \/ Unreadable(c) \/ Evaluate(c) \/ Open(c) \/ Stat(c) \/ Rm(c)
               \/ List(c) \/ Write(c) \/ SaveFails(c) \/ Report(c)
               \/ ReportRun(c) \/ Blind(c) \/ GiveUp(c) \/ Run(c) \/ UserRefuses(c)
        PROVE  saved \subseteq saved'
    BY <2>4 DEF Start, Unreadable, Evaluate, Open, Stat, Rm, List, Write, SaveFails, Report,
                ReportRun, Blind, Send, GiveUp, Run, UserRefuses, files
  <2>5. ASSUME NEW c \in Calls, \/ Evict(c) \/ Unlock(c) \/ Disturb(c)
        PROVE  saved \subseteq saved'
    BY <2>5 DEF Evict, Choose, Unlock, Leave, Disturb, StatFails, RemoveFails, UnlockFails, Kill
  <2>6. LockAges => saved \subseteq saved'
    BY DEF LockAges
  <2> HIDE DEF Taken
  <2> QED
    BY <2>1, <2>2, <2>3, <2>4, <2>5, <2>6 DEF Next, Proceed, LockStep
<1> QED
  BY <1>1, <1>2, <1>3, PTL DEF Spec, LostForRoom

(* --------------------------- The overrun ------------------------------- *)

(* The processes that have listed the directory and not written their file *)
(* yet, and that there are no more than K of them at a time.               *)
Pending == {c \in Calls : pc[c] \in {"evict", "write"}}
AtMost(K) == Cardinality(Pending) <= K

(* A prune that a failing call of the file system leaves short.            *)
FallsShort == \E c \in Calls : StatFails(c) \/ RemoveFails(c)

(* The most that a prune leaves of a set F of files of which it knows A,   *)
(* and what a process leaves besides its own file.                         *)
Load(F, A) == Cardinality(F \ A) + IF Cardinality(A) < Cap THEN Cardinality(A) ELSE Cap - 1
Others(c) == saved \ {c}
Leaves(c) == IF At(c, "evict") THEN Load(Others(c), Candidates(c))
             ELSE Cardinality(Others(c) \ listed[c])

(* However many of those that have listed write next, one of them leaves   *)
(* room for all of them.                                                   *)
RoomLeft(K) ==
    /\ Cardinality(saved) < Cap + K
    /\ \A S \in SUBSET Pending : S # {} => \E p \in S : Leaves(p) + Cardinality(S) < Cap + K

LEMMA LoadTyped ==
    ASSUME Cap \in Nat \ {0}, NEW F, IsFiniteSet(F), NEW A \in SUBSET F
    PROVE  /\ IsFiniteSet(A) /\ IsFiniteSet(F \ A)
           /\ Cardinality(F) \in Nat /\ Cardinality(A) \in Nat /\ Cardinality(F \ A) \in Nat
           /\ Cardinality(F \ A) = Cardinality(F) - Cardinality(A)
           /\ Load(F, A) \in Nat
           /\ Load(F, A) <= Cardinality(F)
<1>1. IsFiniteSet(A) /\ IsFiniteSet(F \ A)
  BY FS_Subset
<1>2. Cardinality(F) \in Nat /\ Cardinality(A) \in Nat /\ Cardinality(F \ A) \in Nat
  BY <1>1, FS_CardinalityType
<1>3. Cardinality(F \ A) = Cardinality(F) - Cardinality(A)
  <2>1. F \cap A = A
    OBVIOUS
  <2>2. Cardinality(F \ A) = Cardinality(F) - Cardinality(F \cap A)
    BY FS_Difference
  <2> QED
    BY <2>1, <2>2
<1> QED
  BY <1>1, <1>2, <1>3 DEF Load

(* A file that goes makes the load no greater,                             *)
LEMMA LoadDrop ==
    ASSUME Cap \in Nat \ {0}, NEW F, IsFiniteSet(F), NEW A \in SUBSET F, NEW X
    PROVE  Load(F \ X, A \ X) <= Load(F, A)
<1>1. IsFiniteSet(F \ X) /\ A \ X \in SUBSET (F \ X)
  BY FS_Subset
<1>2. (F \ X) \ (A \ X) = (F \ A) \ X /\ (F \ A) \ X \subseteq F \ A /\ A \ X \subseteq A
  OBVIOUS
<1>3. Cardinality((F \ X) \ (A \ X)) <= Cardinality(F \ A)
  BY <1>2, LoadTyped, FS_Subset
<1>4. Cardinality(A \ X) <= Cardinality(A)
  BY <1>2, LoadTyped, FS_Subset
<1>5. Cardinality((F \ X) \ (A \ X)) \in Nat /\ Cardinality(A \ X) \in Nat
  BY <1>1, LoadTyped
<1>6. Cardinality(F \ A) \in Nat /\ Cardinality(A) \in Nat
  BY LoadTyped
<1> QED
  BY <1>3, <1>4, <1>5, <1>6 DEF Load

(* one that comes adds at most itself,                                     *)
LEMMA LoadAdd ==
    ASSUME Cap \in Nat \ {0}, NEW F, IsFiniteSet(F), NEW A \in SUBSET F, NEW c
    PROVE  Load(F \cup {c}, A) <= Load(F, A) + 1
<1>1. (F \cup {c}) \ A \subseteq (F \ A) \cup {c}
  OBVIOUS
<1>2. /\ IsFiniteSet((F \ A) \cup {c})
      /\ Cardinality((F \ A) \cup {c}) <= Cardinality(F \ A) + 1
  <2>1. IsFiniteSet(F \ A) /\ Cardinality(F \ A) \in Nat
    BY LoadTyped
  <2>2. /\ IsFiniteSet((F \ A) \cup {c})
        /\ \/ Cardinality((F \ A) \cup {c}) = Cardinality(F \ A)
           \/ Cardinality((F \ A) \cup {c}) = Cardinality(F \ A) + 1
    BY <2>1, FS_AddElement, Zenon
  <2> QED
    BY <2>1, <2>2
<1>3. Cardinality((F \cup {c}) \ A) <= Cardinality((F \ A) \cup {c})
  BY <1>1, <1>2, FS_Subset
<1>4. Cardinality((F \cup {c}) \ A) \in Nat /\ Cardinality((F \ A) \cup {c}) \in Nat
  BY <1>1, <1>2, FS_Subset, FS_CardinalityType
<1>5. Cardinality(F \ A) \in Nat /\ Cardinality(A) \in Nat
  BY LoadTyped
<1> QED
  BY <1>2, <1>3, <1>4, <1>5 DEF Load

(* and one more that is known of makes it no greater either.               *)
LEMMA LoadLearn ==
    ASSUME Cap \in Nat \ {0}, NEW F, IsFiniteSet(F), NEW A \in SUBSET F, NEW c \in F
    PROVE  Load(F, A \cup {c}) <= Load(F, A)
<1>1. A \cup {c} \in SUBSET F
  OBVIOUS
<1>2. CASE c \in A
  <2>1. A \cup {c} = A
    BY <1>2
  <2>2. Load(F, A) \in Nat
    BY LoadTyped
  <2>3. Load(F, A \cup {c}) = Load(F, A)
    BY <2>1
  <2> QED
    BY <2>2, <2>3
<1>3. CASE c \notin A
  <2>1. Cardinality(A \cup {c}) = Cardinality(A) + 1
    BY <1>3, LoadTyped, FS_AddElement
  <2>2. Cardinality(F \ A) = Cardinality(F) - Cardinality(A)
    BY LoadTyped
  <2>3. Cardinality(F \ (A \cup {c})) = Cardinality(F) - Cardinality(A \cup {c})
    BY <1>1, LoadTyped
  <2>4. Cardinality(F) \in Nat /\ Cardinality(A) \in Nat
    BY LoadTyped
  <2> QED
    BY <2>1, <2>2, <2>3, <2>4 DEF Load
<1> QED
  BY <1>2, <1>3

LEMMA RestTyped ==
    ASSUME Cap \in Nat \ {0}, NEW F, IsFiniteSet(F), NEW L, NEW c
    PROVE  /\ Cardinality(F) \in Nat /\ IsFiniteSet(F \ {c})
           /\ Load(F \ {c}, (L \cap F) \ {c}) \in Nat
           /\ Load(F \ {c}, (L \cap F) \ {c}) <= Cardinality(F)
           /\ Cardinality((F \ {c}) \ L) \in Nat
           /\ Cardinality((F \ {c}) \ L) <= Cardinality(F)
<1>1. IsFiniteSet(F \ {c}) /\ (L \cap F) \ {c} \in SUBSET (F \ {c})
  BY FS_Subset
<1>2. /\ Cardinality(F) \in Nat /\ Cardinality(F \ {c}) \in Nat
      /\ Cardinality(F \ {c}) <= Cardinality(F)
  BY <1>1, FS_Subset, FS_CardinalityType
<1>3. /\ Load(F \ {c}, (L \cap F) \ {c}) \in Nat
      /\ Load(F \ {c}, (L \cap F) \ {c}) <= Cardinality(F \ {c})
  BY <1>1, LoadTyped
<1>4. /\ Cardinality((F \ {c}) \ L) \in Nat
      /\ Cardinality((F \ {c}) \ L) <= Cardinality(F \ {c})
  BY <1>1, FS_Subset, FS_CardinalityType
<1> QED
  BY <1>1, <1>2, <1>3, <1>4

LEMMA LeavesTyped ==
    ASSUME HookAssumption, TypeOK, NEW c \in Calls
    PROVE  /\ Cap \in Nat \ {0}
           /\ IsFiniteSet(saved) /\ Cardinality(saved) \in Nat
           /\ IsFiniteSet(Others(c)) /\ Candidates(c) \in SUBSET Others(c)
           /\ Leaves(c) \in Nat /\ Leaves(c) <= Cardinality(saved)
<1>1. IsFiniteSet(saved) /\ Cap \in Nat \ {0}
  BY FS_Subset DEF HookAssumption, TypeOK
<1>2. Candidates(c) \in SUBSET Others(c)
  BY DEF Candidates, Others
<1>3. /\ Cardinality(saved) \in Nat /\ IsFiniteSet(Others(c))
      /\ Load(Others(c), Candidates(c)) \in Nat
      /\ Load(Others(c), Candidates(c)) <= Cardinality(saved)
      /\ Cardinality(Others(c) \ listed[c]) \in Nat
      /\ Cardinality(Others(c) \ listed[c]) <= Cardinality(saved)
  BY <1>1, RestTyped DEF Others, Candidates
<1> QED
  BY <1>1, <1>2, <1>3 DEF Leaves

LEMMA LeavesNext ==
    ASSUME HookAssumption, TypeOK', NEW c \in Calls
    PROVE  /\ IsFiniteSet(Others(c)')
           /\ Leaves(c)' \in Nat /\ Leaves(c)' <= Cardinality(saved')
<1>1. IsFiniteSet(saved') /\ Cap \in Nat \ {0}
  BY FS_Subset DEF HookAssumption, TypeOK
<1>2. /\ IsFiniteSet(saved' \ {c})
      /\ Load(saved' \ {c}, (listed'[c] \cap saved') \ {c}) \in Nat
      /\ Load(saved' \ {c}, (listed'[c] \cap saved') \ {c}) <= Cardinality(saved')
      /\ Cardinality((saved' \ {c}) \ listed'[c]) \in Nat
      /\ Cardinality((saved' \ {c}) \ listed'[c]) <= Cardinality(saved')
  BY <1>1, RestTyped
<1>3. Leaves(c)' = IF pc'[c] = "evict" THEN Load(saved' \ {c}, (listed'[c] \cap saved') \ {c})
                   ELSE Cardinality((saved' \ {c}) \ listed'[c])
  BY DEF Leaves, At, Others, Candidates, Load
<1> QED
  BY <1>2, <1>3 DEF Others

LEMMA PendingTyped ==
    ASSUME HookAssumption
    PROVE  /\ Pending \in SUBSET Calls
           /\ \A S \in SUBSET Calls : IsFiniteSet(S) /\ Cardinality(S) \in Nat
  BY FS_Subset, FS_CardinalityType DEF HookAssumption, Pending

(* Nobody joins those that have listed, and each leaves no more than it    *)
(* did before.                                                             *)
LEMMA LowerRoom ==
    ASSUME HookAssumption, TypeOK, TypeOK', NEW K \in Nat \ {0}, RoomLeft(K),
           saved' \subseteq saved, Pending' \subseteq Pending,
           \A p \in Pending' : Leaves(p)' <= Leaves(p)
    PROVE  RoomLeft(K)'
<1>1. IsFiniteSet(saved) /\ Cap \in Nat
  BY FS_Subset DEF HookAssumption, TypeOK
<1>2. Cardinality(saved') <= Cardinality(saved) /\ Cardinality(saved') \in Nat
      /\ Cardinality(saved) \in Nat
  BY <1>1, FS_Subset, FS_CardinalityType
<1>3. Cardinality(saved') < Cap + K
  BY <1>1, <1>2 DEF RoomLeft
<1>4. ASSUME NEW S \in SUBSET Pending', S # {}
      PROVE  \E p \in S : Leaves(p)' + Cardinality(S) < Cap + K
  <2>1. S \in SUBSET Pending
    BY <1>4
  <2>2. PICK p \in S : Leaves(p) + Cardinality(S) < Cap + K
    BY <1>4, <2>1 DEF RoomLeft
  <2>3. p \in Calls /\ Cardinality(S) \in Nat
    BY <2>1, PendingTyped
  <2>4. Leaves(p) \in Nat /\ Leaves(p)' \in Nat
    BY <2>3, LeavesTyped, LeavesNext
  <2>5. Leaves(p)' <= Leaves(p)
    BY <1>4, <2>2
  <2>6. Leaves(p)' + Cardinality(S) < Cap + K
    BY <1>1, <2>2, <2>3, <2>4, <2>5
  <2> QED
    BY <2>6
<1> QED
  BY <1>3, <1>4 DEF RoomLeft

(* Files X go, for a prune or for the process after a call, and nobody     *)
(* lists the directory.                                                    *)
Shrinks(X) == /\ saved' = saved \ X
              /\ \A p \in Pending' :
                    /\ p \in Pending /\ pc'[p] = pc[p]
                    /\ \/ listed'[p] = listed[p]
                       \/ pc[p] = "write" /\ listed'[p] = listed[p] \ X

LEMMA ShrinkRoom ==
    ASSUME HookAssumption, TypeOK, TypeOK', NEW K \in Nat \ {0}, RoomLeft(K), NEW X, Shrinks(X)
    PROVE  RoomLeft(K)'
<1>1. saved' \subseteq saved /\ Pending' \subseteq Pending
  BY DEF Shrinks
<1>2. ASSUME NEW p \in Pending' PROVE Leaves(p)' <= Leaves(p)
  <2>1. /\ p \in Calls /\ pc'[p] = pc[p] /\ pc[p] \in {"evict", "write"}
        /\ Others(p)' = Others(p) \ X
    BY <1>2 DEF Shrinks, Pending, Others
  <2>2. /\ Cap \in Nat \ {0} /\ IsFiniteSet(Others(p))
        /\ Candidates(p) \in SUBSET Others(p)
    BY <2>1, LeavesTyped
  <2>3. CASE pc[p] = "evict"
    <3>1. Candidates(p)' = Candidates(p) \ X
      BY <1>2, <2>3 DEF Shrinks, Candidates
    <3>2. Load(Others(p) \ X, Candidates(p) \ X) <= Load(Others(p), Candidates(p))
      BY <2>2, LoadDrop
    <3>3. Leaves(p) = Load(Others(p), Candidates(p))
      BY <2>3 DEF Leaves, At
    <3>4. Leaves(p)' = Load(Others(p)', Candidates(p)')
      BY <2>1, <2>3 DEF Leaves, At, Load
    <3> QED
      BY <2>1, <3>1, <3>2, <3>3, <3>4
  <2>4. CASE pc[p] = "write"
    <3>1. Others(p)' \ listed'[p] \subseteq Others(p) \ listed[p]
      BY <1>2, <2>1 DEF Shrinks
    <3>2. IsFiniteSet(Others(p) \ listed[p])
      BY <2>2, FS_Subset
    <3>3. Cardinality(Others(p)' \ listed'[p]) <= Cardinality(Others(p) \ listed[p])
      BY <3>1, <3>2, FS_Subset
    <3> QED
      BY <2>1, <2>4, <3>3 DEF Leaves, At
  <2> QED
    BY <2>1, <2>3, <2>4
<1> QED
  BY <1>1, <1>2, LowerRoom

LEMMA MoveShrinks ==
    ASSUME TypeOK, NEW c \in Calls, NEW p, Go(c, p), p \notin {"evict", "write"},
           NEW X, saved' = saved \ X, \A d \in Calls \ {c} : listed'[d] = listed[d]
    PROVE  Shrinks(X)
  BY DEF Shrinks, Pending, Go, TypeOK

(* Every step but those that list, choose and write.                       *)
LEMMA OtherShrinks ==
    ASSUME HookAssumption, TypeOK, [Next]_vars, ~FallsShort
    PROVE  \/ \E c \in Calls : List(c) \/ Evict(c) \/ Write(c)
           \/ \E X : Shrinks(X)
<1> DEFINE Some == \E X : Shrinks(X)
           Plain == Phases \ {"evict", "write"}
<1>1. ASSUME NEW c \in Calls, NEW p \in Plain, Go(c, p), UNCHANGED <<saved, listed>> PROVE Some
  <2>1. saved' = saved \ {} /\ p \notin {"evict", "write"}
    BY <1>1
  <2>2. \A d \in Calls \ {c} : listed'[d] = listed[d]
    BY <1>1
  <2> QED
    BY <1>1, <2>1, <2>2, MoveShrinks
<1>2. ASSUME NEW c \in Calls, \/ Start(c) \/ Unreadable(c) \/ Open(c) \/ Stat(c) \/ Rm(c)
                              \/ Run(c) \/ UserRefuses(c)
      PROVE  Some
  <2>1. \E p \in Plain : Go(c, p)
    BY <1>2 DEF Start, Unreadable, Open, Stat, Rm, Run, UserRefuses, Phases, Steps, PreSteps,
                PostSteps
  <2>2. UNCHANGED <<saved, listed>>
    BY <1>2 DEF Start, Unreadable, Open, Stat, Rm, Run, UserRefuses, files
  <2> HIDE DEF Some, Plain
  <2> QED
    BY <1>1, <2>1, <2>2
<1>3. ASSUME NEW c \in Calls, \/ Evaluate(c) \/ GiveUp(c) \/ SaveFails(c) \/ Unlock(c)
                              \/ UnlockFails(c) \/ Report(c) \/ ReportRun(c) \/ Blind(c)
      PROVE  Some
  <2>1. \E p \in Plain : Go(c, p)
    <3>1. CASE Evaluate(c)
      BY <3>1, EvaluateMoves DEF Phases, Steps, PreSteps, PostSteps
    <3>2. CASE GiveUp(c) \/ SaveFails(c) \/ Unlock(c) \/ UnlockFails(c)
      BY <3>2, AfterSaveOutside, SaveFailsMoves, LeaveMoves DEF GiveUp, Phases, Steps, PreSteps
    <3>3. CASE Report(c) \/ ReportRun(c) \/ Blind(c)
      BY <3>3 DEF Report, ReportRun, Blind, Send, Answer, Phases
    <3> QED
      BY <1>3, <3>1, <3>2, <3>3
  <2>2. UNCHANGED <<saved, listed>>
    BY <1>3, EvaluateMoves, SaveFailsMoves, LeaveMoves
       DEF GiveUp, Report, ReportRun, Blind, Send, files
  <2> HIDE DEF Some, Plain
  <2> QED
    BY <1>1, <2>1, <2>2
<1>4. ASSUME NEW c \in Calls, Remove(c) PROVE Some
  <2>1. PICK E \in SUBSET listed[c] : /\ listed' = [listed EXCEPT ![c] = listed[c] \ E]
                                      /\ saved' = saved \ E
    BY <1>4 DEF Remove, Dequeue
  <2>2. pc' = pc /\ pc[c] = "write"
    BY <1>4, RemoveMoves
  <2>3. Shrinks(E)
    BY <2>1, <2>2 DEF Shrinks, Pending, TypeOK
  <2> QED
    BY <2>3
<1>5. ASSUME NEW c \in Calls, Consume(c) PROVE Some
  <2>1. PICK p \in {"send", "blind", "done"} : Go(c, p)
    BY <1>5 DEF Consume
  <2>2. saved' = saved \ {c} /\ listed' = listed
    BY <1>5 DEF Consume
  <2>3. Shrinks({c})
    BY <2>1, <2>2, MoveShrinks
  <2> QED
    BY <2>3
<1>6. ASSUME NEW c \in Calls, Kill(c) PROVE Some
  <2>1. PICK p \in {"killed", "allowed", "done"} : Go(c, p)
    BY <1>6, KillMoves
  <2>2. saved' = saved \ {} /\ listed' = [listed EXCEPT ![c] = {}]
    BY <1>6, KillMoves
  <2>3. \A d \in Calls \ {c} : listed'[d] = listed[d]
    BY <2>2 DEF TypeOK
  <2>4. Shrinks({})
    BY <2>1, <2>2, <2>3, MoveShrinks
  <2> QED
    BY <2>4
<1>7. ASSUME LockAges \/ UNCHANGED vars PROVE Some
  <2>1. Shrinks({})
    BY <1>7 DEF LockAges, vars, Shrinks, Pending
  <2> QED
    BY <2>1
<1> HIDE DEF Some, Plain
<1>8. \A c \in Calls : ~StatFails(c) /\ ~RemoveFails(c)
  BY DEF FallsShort
<1>9. ASSUME NEW c \in Calls, \/ Start(c) \/ Unreadable(c) \/ Proceed(c) \/ GiveUp(c)
                              \/ Run(c) \/ UserRefuses(c) \/ Disturb(c)
      PROVE  Some \/ List(c) \/ Evict(c) \/ Write(c)
  BY <1>2, <1>3, <1>4, <1>5, <1>6, <1>8, <1>9 DEF Proceed, LockStep, Disturb
<1>10. Some \/ \E c \in Calls : List(c) \/ Evict(c) \/ Write(c)
  BY <1>7, <1>9 DEF Next
<1> QED
  BY <1>10 DEF Some

LEMMA DisjointUnion ==
    ASSUME NEW S, NEW T, IsFiniteSet(S), IsFiniteSet(T), S \cap T = {}
    PROVE  Cardinality(S \cup T) = Cardinality(S) + Cardinality(T)
<1>1. Cardinality(S \cup T) = Cardinality(S) + Cardinality(T) - Cardinality(S \cap T)
  BY FS_Union
<1>2. Cardinality(S \cap T) = 0
  BY FS_EmptySet
<1>3. Cardinality(S) \in Nat /\ Cardinality(T) \in Nat
  BY FS_CardinalityType
<1> QED
  BY <1>1, <1>2, <1>3

(* Who lists knows of every file there is.                                 *)
LEMMA ListRoom ==
    ASSUME HookAssumption, TypeOK, TypeOK', NEW K \in Nat \ {0}, RoomLeft(K), AtMost(K)',
           NEW c \in Calls, List(c)
    PROVE  RoomLeft(K)'
<1>1. /\ pc[c] = "list" /\ pc' = [pc EXCEPT ![c] = "evict"]
      /\ listed' = [listed EXCEPT ![c] = saved] /\ saved' = saved
  BY DEF List, At, Go
<1>2. Pending' = Pending \cup {c}
  BY <1>1 DEF Pending, TypeOK
<1>3. \A p \in Pending : Leaves(p)' = Leaves(p)
  <2>1. ASSUME NEW p \in Pending PROVE Leaves(p)' = Leaves(p)
    <3>1. pc'[p] = pc[p] /\ listed'[p] = listed[p] /\ saved' = saved
      BY <1>1 DEF Pending, TypeOK
    <3> QED
      BY <3>1 DEF Leaves, At, Others, Candidates, Load
  <2> QED
    BY <2>1
<1>4. Leaves(c)' \in Nat /\ Leaves(c)' <= Cap - 1
  <2>1. (Others(c) = Candidates(c))' /\ At(c, "evict")'
    BY <1>1 DEF Others, Candidates, At, TypeOK
  <2>2. IsFiniteSet(Others(c)') /\ Cap \in Nat \ {0}
    BY LeavesNext DEF HookAssumption
  <2>3. Others(c)' \ Others(c)' = {} /\ Cardinality({}) = 0 /\ Cardinality(Others(c)') \in Nat
    BY <2>2, FS_EmptySet, FS_CardinalityType
  <2>4. ASSUME NEW F, F \ F = {}, Cardinality(F) \in Nat PROVE Load(F, F) \in 0..(Cap - 1)
    BY <2>2, <2>3, <2>4 DEF Load
  <2>5. Leaves(c)' = Load(Others(c)', Others(c)')
    BY <2>1 DEF Leaves, Load
  <2>6. Load(Others(c)', Others(c)') \in 0..(Cap - 1)
    BY <2>3, <2>4
  <2> QED
    BY <2>2, <2>5, <2>6
<1>5. ASSUME NEW S \in SUBSET Pending', S # {}
      PROVE  \E p \in S : Leaves(p)' + Cardinality(S) < Cap + K
  <2>1. CASE c \notin S
    <3>1. S \in SUBSET Pending
      BY <1>2, <2>1
    <3>2. PICK p \in S : Leaves(p) + Cardinality(S) < Cap + K
      BY <1>5, <3>1 DEF RoomLeft
    <3>3. Leaves(p)' = Leaves(p)
      BY <1>3, <3>1
    <3> QED
      BY <3>2, <3>3
  <2>2. CASE c \in S
    <3>1. Pending' \in SUBSET Calls /\ S \in SUBSET Calls
      BY <1>2, PendingTyped
    <3>2. /\ IsFiniteSet(Pending') /\ Cardinality(Pending') \in Nat
          /\ Cardinality(S) \in Nat /\ Cap \in Nat
      BY <3>1, PendingTyped DEF HookAssumption
    <3>3. Cardinality(S) <= Cardinality(Pending')
      BY <3>2, FS_Subset
    <3>4. Cardinality(Pending') <= K
      BY DEF AtMost
    <3>5. Leaves(c)' + Cardinality(S) < Cap + K
      BY <1>4, <3>2, <3>3, <3>4
    <3> QED
      BY <2>2, <3>5
  <2> QED
    BY <2>1, <2>2
<1>6. Cardinality(saved') < Cap + K
  BY <1>1 DEF RoomLeft
<1> QED
  BY <1>5, <1>6 DEF RoomLeft

(* What is chosen is of what is listed, down to a place for the file to    *)
(* come.                                                                   *)
LEMMA EvictLoad ==
    ASSUME HookAssumption, TypeOK, NEW c \in Calls,
           NEW E \in Oldest(Candidates(c), Excess(c))
    PROVE  Cardinality(Others(c) \ E) <= Load(Others(c), Candidates(c))
<1> DEFINE A == Candidates(c)
           F == Others(c)
           R == A \ E
<1>1. c \notin A
  BY DEF Candidates
<1>2. E \subseteq A /\ Cardinality(E) = IF Excess(c) < Cardinality(A) THEN Excess(c) ELSE Cardinality(A)
  BY DEF Oldest
<1>3. A \in SUBSET F /\ IsFiniteSet(F) /\ Cap \in Nat \ {0}
  BY LeavesTyped
<1>4. listed[c] \cup {c} \in SUBSET Calls /\ A \cup {c} \subseteq listed[c] \cup {c}
  BY DEF Candidates, TypeOK
<1> HIDE DEF A, F
<1>5. /\ IsFiniteSet(A) /\ IsFiniteSet(F \ A) /\ Cardinality(A) \in Nat
      /\ Cardinality(F \ A) \in Nat
  BY <1>3, LoadTyped
<1>6. Cardinality(R) = Cardinality(A) - Cardinality(E) /\ Cardinality(R) \in Nat /\ IsFiniteSet(R)
  BY <1>2, <1>3, <1>5, LoadTyped
<1>7. Excess(c) \in Nat /\ Cardinality(A) + 1 <= Cap + Excess(c)
  <2>1. IsFiniteSet(listed[c] \cup {c}) /\ Cardinality(listed[c] \cup {c}) \in Nat
    BY <1>4, PendingTyped
  <2>2. Cardinality(A \cup {c}) <= Cardinality(listed[c] \cup {c})
    BY <1>4, <2>1, FS_Subset
  <2>3. Cardinality(A \cup {c}) = Cardinality(A) + 1
    BY <1>1, <1>5, FS_AddElement
  <2> QED
    BY <1>3, <1>5, <2>1, <2>2, <2>3 DEF Excess
<1>8. Cardinality(R) <= IF Cardinality(A) < Cap THEN Cardinality(A) ELSE Cap - 1
  BY <1>2, <1>3, <1>5, <1>6, <1>7
<1>9. Cardinality(F \ E) = Cardinality(F \ A) + Cardinality(R)
  <2>1. F \ E = (F \ A) \cup R /\ (F \ A) \cap R = {}
    BY <1>2, <1>3
  <2>2. Cardinality((F \ A) \cup R) = Cardinality(F \ A) + Cardinality(R)
    BY <1>5, <1>6, <2>1, DisjointUnion
  <2> QED
    BY <2>1, <2>2
<1> HIDE DEF R
<1>10. Cardinality(F \ E) <= Load(F, A)
  BY <1>3, <1>5, <1>6, <1>8, <1>9 DEF Load
<1> QED
  BY <1>10 DEF A, F

LEMMA EvictRoom ==
    ASSUME HookAssumption, TypeOK, TypeOK', NEW K \in Nat \ {0}, RoomLeft(K),
           NEW c \in Calls, Evict(c)
    PROVE  RoomLeft(K)'
<1>1. pc[c] = "evict" /\ pc' = [pc EXCEPT ![c] = "write"] /\ saved' = saved
  BY EvictMoves
<1>2. PICK E \in Oldest(Candidates(c), Excess(c)) : listed' = [listed EXCEPT ![c] = E]
  BY DEF Evict, Choose
<1>3. Pending' = Pending
  BY <1>1 DEF Pending, TypeOK
<1>4. ASSUME NEW p \in Pending' PROVE Leaves(p)' <= Leaves(p)
  <2>1. p \in Calls
    BY <1>3, <1>4 DEF Pending
  <2>2. CASE p = c
    <3>1. ~At(c, "evict")' /\ At(c, "evict") /\ listed'[c] = E /\ Others(c)' = Others(c)
      BY <1>1, <1>2 DEF At, Others, TypeOK
    <3>2. Leaves(c)' = Cardinality(Others(c) \ E)
      BY <3>1 DEF Leaves
    <3>3. Leaves(c) = Load(Others(c), Candidates(c))
      BY <3>1 DEF Leaves
    <3> QED
      BY <2>2, <3>2, <3>3, EvictLoad
  <2>3. CASE p # c
    <3>1. pc'[p] = pc[p] /\ listed'[p] = listed[p]
      BY <1>1, <1>2, <2>1, <2>3 DEF TypeOK
    <3>2. Leaves(p)' = Leaves(p)
      BY <1>1, <3>1 DEF Leaves, At, Others, Candidates, Load
    <3>3. Leaves(p) \in Nat
      BY <2>1, LeavesTyped
    <3> QED
      BY <3>2, <3>3
  <2> QED
    BY <2>2, <2>3
<1> QED
  BY <1>1, <1>3, <1>4, LowerRoom

(* Who writes had left room for its file, and takes one place of those     *)
(* that the others have left.                                              *)
LEMMA WriteLeaves ==
    ASSUME HookAssumption, TypeOK, TypeOK', NEW c \in Calls, saved' = saved \cup {c},
           NEW p \in Calls \ {c}, pc'[p] = pc[p], listed'[p] = listed[p]
    PROVE  Leaves(p)' <= Leaves(p) + 1
<1> DEFINE F == Others(p)
           A == Candidates(p)
<1>1. /\ Cap \in Nat \ {0} /\ IsFiniteSet(F) /\ A \in SUBSET F
      /\ Leaves(p) \in Nat /\ Leaves(p)' \in Nat
  BY LeavesTyped, LeavesNext
<1>2. Others(p)' = F \cup {c}
  BY DEF Others
<1>3. Candidates(p)' = A \/ Candidates(p)' = A \cup {c}
  BY DEF Candidates
<1> HIDE DEF F, A
<1>4. CASE At(p, "evict")
  <2>1. Load(F \cup {c}, A) <= Load(F, A) + 1
    BY <1>1, LoadAdd
  <2>2. IsFiniteSet(F \cup {c}) /\ A \in SUBSET (F \cup {c}) /\ c \in F \cup {c}
    BY <1>1, FS_AddElement
  <2>3. Load(F \cup {c}, A \cup {c}) <= Load(F \cup {c}, A)
    BY <1>1, <2>2, LoadLearn
  <2>4. /\ Load(F \cup {c}, A) \in Nat /\ Load(F, A) \in Nat
        /\ Load(F \cup {c}, A \cup {c}) \in Nat
    BY <1>1, <2>2, LoadTyped
  <2>5. Leaves(p)' = Load(F \cup {c}, Candidates(p)') /\ Leaves(p) = Load(F, A)
    BY <1>2, <1>4 DEF Leaves, At, Load, F, A
  <2>6. CASE Candidates(p)' = A
    BY <2>1, <2>5, <2>6
  <2>7. CASE Candidates(p)' = A \cup {c}
    BY <2>1, <2>3, <2>4, <2>5, <2>7
  <2> QED
    BY <1>3, <2>6, <2>7
<1>5. CASE ~At(p, "evict")
  <2> DEFINE G == F \ listed[p]
             H == (F \cup {c}) \ listed[p]
  <2>1. Leaves(p)' = Cardinality(H) /\ Leaves(p) = Cardinality(G)
    BY <1>2, <1>5 DEF Leaves, At, F
  <2>2. H \subseteq G \cup {c} /\ IsFiniteSet(G)
    BY <1>1, FS_Subset
  <2> HIDE DEF G, H
  <2>3. IsFiniteSet(G \cup {c}) /\ Cardinality(G) \in Nat
    BY <2>2, FS_AddElement, FS_CardinalityType
  <2>4. Cardinality(G \cup {c}) <= Cardinality(G) + 1
    <3>1. \/ Cardinality(G \cup {c}) = Cardinality(G)
          \/ Cardinality(G \cup {c}) = Cardinality(G) + 1
      BY <2>2, FS_AddElement, Zenon
    <3> QED
      BY <2>3, <3>1
  <2>5. Cardinality(H) <= Cardinality(G \cup {c}) /\ Cardinality(H) \in Nat
        /\ Cardinality(G \cup {c}) \in Nat
    BY <2>2, <2>3, FS_Subset, FS_CardinalityType
  <2> QED
    BY <2>1, <2>3, <2>4, <2>5
<1> QED
  BY <1>4, <1>5

LEMMA WriteRoom ==
    ASSUME HookAssumption, TypeOK, TypeOK', NEW K \in Nat \ {0}, RoomLeft(K),
           NEW c \in Calls, Write(c)
    PROVE  RoomLeft(K)'
<1>1. /\ pc[c] = "write" /\ pc' = [pc EXCEPT ![c] = "unlock"]
      /\ saved' = saved \cup {c} /\ listed' = listed /\ listed[c] = {}
  BY DEF Write, At, Go
<1>2. Pending' = Pending \ {c} /\ c \in Pending
  BY <1>1 DEF Pending, TypeOK
<1>3. \A p \in Pending' : /\ p \in Calls /\ Leaves(p)' \in Nat /\ Leaves(p) \in Nat
                          /\ Leaves(p)' <= Leaves(p) + 1
                          /\ Leaves(p)' <= Cardinality(saved')
  <2>1. ASSUME NEW p \in Pending'
        PROVE  /\ p \in Calls /\ Leaves(p)' \in Nat /\ Leaves(p) \in Nat
               /\ Leaves(p)' <= Leaves(p) + 1
               /\ Leaves(p)' <= Cardinality(saved')
    <3>1. p \in Calls \ {c}
      BY <1>2, <2>1 DEF Pending
    <3>2. pc'[p] = pc[p] /\ listed'[p] = listed[p]
      BY <1>1, <3>1 DEF TypeOK
    <3>3. /\ Leaves(p) \in Nat /\ Leaves(p)' \in Nat
          /\ Leaves(p)' <= Cardinality(saved')
      BY <3>1, LeavesTyped, LeavesNext
    <3> QED
      BY <1>1, <3>1, <3>2, <3>3, WriteLeaves
  <2> QED
    BY <2>1
<1>4. /\ Cardinality(saved') = Leaves(c) + 1 /\ Cardinality(saved') \in Nat
      /\ Leaves(c) \in Nat /\ Cap \in Nat
  <2>1. Leaves(c) = Cardinality(Others(c))
    <3>1. Others(c) \ listed[c] = Others(c)
      BY <1>1
    <3> QED
      BY <1>1, <3>1 DEF Leaves, At
  <2>2. IsFiniteSet(Others(c)) /\ c \notin Others(c) /\ saved' = Others(c) \cup {c}
    BY <1>1, LeavesTyped DEF Others
  <2>3. Cardinality(saved') = Cardinality(Others(c)) + 1
    BY <2>2, FS_AddElement
  <2> QED
    BY <2>1, <2>2, <2>3, FS_CardinalityType DEF HookAssumption
<1>5. Cardinality(saved') < Cap + K
  <2>1. {c} \in SUBSET Pending /\ Cardinality({c}) = 1
    BY <1>2, FS_Singleton
  <2>2. Leaves(c) + 1 < Cap + K
    BY <2>1 DEF RoomLeft
  <2> QED
    BY <1>4, <2>2
<1>6. ASSUME NEW S \in SUBSET Pending', S # {}
      PROVE  \E p \in S : Leaves(p)' + Cardinality(S) < Cap + K
  <2>1. /\ S \cup {c} \in SUBSET Pending /\ c \notin S
        /\ IsFiniteSet(S) /\ Cardinality(S) \in Nat
    BY <1>2, PendingTyped
  <2>2. Cardinality(S \cup {c}) = Cardinality(S) + 1
    BY <2>1, FS_AddElement
  <2>3. PICK p \in S \cup {c} : Leaves(p) + Cardinality(S \cup {c}) < Cap + K
    BY <2>1 DEF RoomLeft
  <2>4. CASE p # c
    <3>1. p \in S /\ p \in Pending'
      BY <2>4
    <3>2. Leaves(p)' + Cardinality(S) < Cap + K
      BY <1>3, <1>4, <2>1, <2>2, <2>3, <3>1
    <3> QED
      BY <3>1, <3>2
  <2>5. CASE p = c
    <3>1. PICK q \in S : TRUE
      BY <1>6
    <3>2. Leaves(q)' \in Nat /\ Leaves(q)' <= Cardinality(saved')
      BY <1>3, <3>1
    <3>3. Leaves(q)' + Cardinality(S) < Cap + K
      BY <1>4, <2>1, <2>2, <2>3, <2>5, <3>2
    <3> QED
      BY <3>3
  <2> QED
    BY <2>4, <2>5
<1> QED
  BY <1>5, <1>6 DEF RoomLeft

(* The directory holds fewer than K files more than Cap for as long as at  *)
(* most K processes at a time have listed it and not written their file    *)
(* yet, and no failing call leaves a prune short, whichever hook it is,    *)
(* whoever is killed, and whatever lock is taken for a stale one or stays  *)
(* (aurel-hook.mjs:460-518, aurel-codex-hook.mjs:204-260).                 *)
THEOREM OverrunIsBounded ==
    ASSUME HookAssumption, NEW CONSTANT K \in Nat \ {0}
    PROVE  Spec /\ []AtMost(K) /\ [][~FallsShort]_vars => [](Cardinality(saved) <= Cap + K - 1)
<1>1. Init => TypeOK /\ RoomLeft(K)
  <2> SUFFICES ASSUME Init PROVE RoomLeft(K)
    BY InitTyped
  <2>1. saved = {} /\ Pending = {}
    BY DEF Init, Pending
  <2>2. Cardinality(saved) < Cap + K
    BY <2>1, FS_EmptySet DEF HookAssumption
  <2>3. \A S \in SUBSET Pending : S = {}
    BY <2>1
  <2> QED
    BY <2>2, <2>3 DEF RoomLeft
<1>2. TypeOK /\ RoomLeft(K) /\ AtMost(K)' /\ [Next]_vars /\ [~FallsShort]_vars
         => (TypeOK /\ RoomLeft(K))'
  <2> SUFFICES ASSUME TypeOK, RoomLeft(K), AtMost(K)', [Next]_vars, [~FallsShort]_vars
               PROVE  (TypeOK /\ RoomLeft(K))'
    OBVIOUS
  <2>1. TypeOK'
    BY NextTyped
  <2>2. ASSUME NEW X, Shrinks(X) PROVE RoomLeft(K)'
    BY <2>1, <2>2, ShrinkRoom
  <2>3. ASSUME NEW c \in Calls, List(c) \/ Evict(c) \/ Write(c) PROVE RoomLeft(K)'
    BY <2>1, <2>3, ListRoom, EvictRoom, WriteRoom
  <2>4. CASE ~FallsShort
    BY <2>1, <2>2, <2>3, <2>4, OtherShrinks
  <2>5. CASE UNCHANGED vars
    <3>1. Shrinks({})
      BY <2>5 DEF vars, Shrinks, Pending
    <3> QED
      BY <2>1, <2>2, <3>1
  <2> QED
    BY <2>1, <2>4, <2>5
<1>3. TypeOK /\ RoomLeft(K) => Cardinality(saved) <= Cap + K - 1
  <2> SUFFICES ASSUME TypeOK, RoomLeft(K) PROVE Cardinality(saved) <= Cap + K - 1
    OBVIOUS
  <2>1. Cardinality(saved) \in Nat /\ Cap \in Nat
    BY FS_Subset, FS_CardinalityType DEF HookAssumption, TypeOK
  <2> QED
    BY <2>1 DEF RoomLeft
<1> QED
  BY <1>1, <1>2, <1>3, PTL DEF Spec
=============================================================================
