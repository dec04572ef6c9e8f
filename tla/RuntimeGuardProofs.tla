------------------------- MODULE RuntimeGuardProofs -------------------------
(***************************************************************************)
(* What the TypeScript guard runs a tool for, and what it reports of it,   *)
(* for every set of calls, every model and every evaluator.                *)
(*                                                                         *)
(* Neither property is inductive.  Grounds ties the plan of a call to its  *)
(* stage and to what the evaluator answered, and an answer of the          *)
(* evaluator to what its model said.  The evaluator by itself, E, comes    *)
(* last: what its counter counts, whoever its clients are.                 *)
(***************************************************************************)
EXTENDS RuntimeGuard, FiniteSetTheorems, TLAPS

(* The model was sure to allow the call, and its tool is listed.           *)
Sure(c) == /\ c \in Listed /\ said[c].valid
           /\ said[c].choice = "allow" /\ said[c].sure /\ ~said[c].review

(* An answer is the last thing that happens to a request.                  *)
AnswersFit == \A c \in Calls : /\ answer[c] # "none" => request[c] = "ended"
                               /\ answer[c] = "allow" => Sure(c)

May(c) == \/ service = "hosted" /\ plan[c].by = "service"
          \/ service = "self" /\ answer[c] = "allow"
          \/ plan[c].by = "outage" /\ failOpen /\ c \notin Privileged

(* What a call has when it is at a stage.                                  *)
Staged(c) == /\ stage[c] \in {"new", "asking", "resolved"} => used[c] = NoArgs
             /\ stage[c] = "running" => used[c] # NoArgs
             /\ stage[c] = "asking" => judged[c] # NoArgs
             /\ stage[c] = "resolved" => plan[c].type # "none"
             /\ stage[c] = "resolved" /\ plan[c].type = "allow" => judged[c] # NoArgs
             /\ plan[c].type = "live" => c \notin intercepted
             /\ c \in intercepted /\ used[c] # NoArgs => used[c] = ClearedArgs(c)

Grounds(c) == /\ Staged(c)
              /\ c \in intercepted /\ stage[c] = "resolved" /\ plan[c].type \in Runnable => May(c)
              /\ c \in intercepted /\ used[c] # NoArgs => May(c)

ServerTyped == /\ request \in [Calls -> E!Phases]
               /\ said \in [Calls -> E!Answers]
               /\ answer \in [Calls -> {"none", "allow", "flag", "block"}]

Inv == /\ TypeOK /\ ServerTyped /\ AnswersFit
       /\ \A c \in Calls : Grounds(c)
       /\ OneOutcome

(* ------------------------------ Beginnings ------------------------------ *)

LEMMA InitInv == ASSUME RuntimeAssumption, Init PROVE Inv
<1>1. TypeOK
  BY DEF Init, TypeOK, RuntimeAssumption, NoPlan, Stages, Args, Plans
<1>2. ServerTyped
  BY DEF Init, ServerTyped, E!Init, E!Phases, E!Working, E!Answers, E!Silence
<1>3. AnswersFit
  BY DEF Init, AnswersFit, E!Init
<1>4. \A c \in Calls : Grounds(c)
  BY DEF Init, Grounds, Staged, ClearedArgs, NoPlan
<1>5. OneOutcome
  BY DEF Init, OneOutcome
<1> QED
  BY <1>1, <1>2, <1>3, <1>4, <1>5 DEF Inv

(* ----------------------------- The evaluator ---------------------------- *)

(* A request that asks for the first time has no answer yet.               *)
LEMMA AskFits ==
    ASSUME ServerTyped, AnswersFit, NEW c \in Calls, E!Ask(c) PROVE (ServerTyped /\ AnswersFit)'
  BY DEF ServerTyped, AnswersFit, Sure, E!Ask, E!Phases, E!Working

(* A request that ends with no allow, and had no answer before.            *)
LEMMA RespondFits ==
    ASSUME ServerTyped, AnswersFit, NEW c \in Calls, NEW d \in {"none", "block"},
           E!Respond(c, d), request[c] # "ended", UNCHANGED said
    PROVE  /\ (ServerTyped /\ AnswersFit)'
           /\ \A e \in Calls : answer[e] = "allow" => answer'[e] = "allow"
<1>1. PICK a \in {"none", "block"} : answer' = [answer EXCEPT ![c] = a]
  BY DEF E!Respond
<1>2. request' = [request EXCEPT ![c] = "ended"]
  BY DEF E!Respond
<1>3. ServerTyped'
  <2>1. request' \in [Calls -> E!Phases]
    BY <1>2 DEF ServerTyped, E!Phases
  <2>2. answer' \in [Calls -> {"none", "allow", "flag", "block"}]
    BY <1>1 DEF ServerTyped
  <2> QED
    BY <2>1, <2>2 DEF ServerTyped
<1>4. ASSUME NEW e \in Calls
      PROVE  /\ answer'[e] # "none" => request'[e] = "ended"
             /\ answer'[e] = "allow" => Sure(e)'
             /\ answer[e] = "allow" => answer'[e] = "allow"
  <2>1. CASE e = c
    <3>1. answer'[e] = a /\ request'[e] = "ended" /\ answer[e] # "allow"
      BY <1>1, <1>2, <2>1 DEF ServerTyped, AnswersFit
    <3> QED
      BY <3>1
  <2>2. CASE e # c
    <3>1. answer'[e] = answer[e] /\ request'[e] = request[e]
      BY <1>1, <1>2, <2>2 DEF ServerTyped
    <3> QED
      BY <3>1 DEF AnswersFit, Sure
  <2> QED
    BY <2>1, <2>2
<1> QED
  BY <1>3, <1>4 DEF AnswersFit

(* An allow is what is left of a model's answer that was sure and listed.  *)
LEMMA ServeFits ==
    ASSUME RuntimeAssumption, ServerTyped, AnswersFit, NEW c \in Calls, E!Serve(c)
    PROVE  /\ (ServerTyped /\ AnswersFit)'
           /\ \A d \in Calls : answer[d] = "allow" => answer'[d] = "allow"
<1> USE DEF ServerTyped, E!Phases, E!Working
<1>1. CASE E!Admit(c)
  <2>1. request[c] = "arrived" /\ UNCHANGED said
    BY <1>1 DEF E!Admit
  <2>2. CASE E!Respond(c, "block")
    BY <2>1, <2>2, RespondFits
  <2>3. CASE request' = [request EXCEPT ![c] = "body"] /\ UNCHANGED answer
    BY <2>1, <2>3 DEF AnswersFit, Sure
  <2> QED
    BY <1>1, <2>2, <2>3 DEF E!Admit
<1>2. CASE E!ReadBody(c)
  BY <1>2 DEF E!ReadBody, AnswersFit, Sure
<1>3. CASE E!BodyFails(c) \/ E!BodyLate(c) \/ E!ModelFails(c)
  <2>1. E!Respond(c, "block") \/ E!Respond(c, "none")
    BY <1>3 DEF E!BodyFails, E!BodyLate, E!ModelFails, E!Finish
  <2>2. request[c] # "ended" /\ UNCHANGED said
    BY <1>3 DEF E!BodyFails, E!BodyLate, E!ModelFails
  <2> QED
    BY <2>1, <2>2, RespondFits
<1>4. ASSUME NEW a \in Replies, E!ModelAnswers(c, a)
      PROVE  /\ (ServerTyped /\ AnswersFit)'
             /\ \A d \in Calls : answer[d] = "allow" => answer'[d] = "allow"
  <2>1. a \in E!Answers
    BY DEF RuntimeAssumption, E!EvaluatorAssumption
  <2>2. /\ request[c] = "model" /\ request' = [request EXCEPT ![c] = "ended"]
        /\ said' = [said EXCEPT ![c] = a]
        /\ answer' = [answer EXCEPT ![c] = E!Verdict(c, a)]
    BY <1>4 DEF E!ModelAnswers, E!Finish, E!Respond
  <2>3. E!Verdict(c, a) \in {"allow", "flag", "block"}
    BY <2>1 DEF E!Verdict, E!Answers
  <2>4. E!Verdict(c, a) = "allow" => /\ c \in Listed /\ a.valid /\ a.choice = "allow"
                                     /\ a.sure /\ ~a.review
    BY <2>1 DEF E!Verdict, E!Answers
  <2>5. ServerTyped'
    BY <2>1, <2>2, <2>3
  <2>6. AnswersFit'
    BY <2>2, <2>3, <2>4 DEF AnswersFit, Sure
  <2>7. answer[c] # "allow"
    BY <2>2 DEF AnswersFit
  <2>8. \A d \in Calls : answer[d] = "allow" => answer'[d] = "allow"
    BY <2>2, <2>7
  <2> QED
    BY <2>5, <2>6, <2>8
<1> QED
  BY <1>1, <1>2, <1>3, <1>4 DEF E!Serve

(* -------------------------------- A call -------------------------------- *)

(* A plan that is made for a call that was not run.                        *)
LEMMA ResolveInv ==
    ASSUME Inv, NEW c \in Calls, NEW t \in Plans \ {"none"},
           NEW by \in {"none", "guard", "service", "outage"}, Resolve(c, t, by),
           stage[c] \in {"new", "asking"},
           t = "allow" => stage[c] = "asking",
           t = "live" => c \notin intercepted,
           t \in Runnable /\ c \in intercepted =>
               \/ service = "hosted" /\ by = "service"
               \/ service = "self" /\ answer[c] = "allow"
               \/ by = "outage" /\ failOpen /\ c \notin Privileged,
           UNCHANGED <<config, live, judged, aborted, used, outcomes, request, said, answer>>
    PROVE  Inv'
<1> USE DEF Inv
<1>1. /\ stage' = [stage EXCEPT ![c] = "resolved"]
      /\ plan' = [plan EXCEPT ![c] = [type |-> t, by |-> by]]
  BY DEF Resolve
<1>2. TypeOK'
  <2>1. plan' \in [Calls -> [type : Plans, by : {"none", "guard", "service", "outage"}]]
    BY <1>1 DEF TypeOK
  <2>2. stage' \in [Calls -> Stages]
    BY <1>1 DEF TypeOK, Stages
  <2> QED
    BY <2>1, <2>2 DEF TypeOK, config
<1>3. ServerTyped' /\ AnswersFit'
  BY DEF ServerTyped, AnswersFit, Sure
<1>4. ASSUME NEW d \in Calls PROVE Grounds(d)'
  <2>1. CASE d = c
    <3>1. stage'[d] = "resolved" /\ plan'[d] = [type |-> t, by |-> by]
      BY <1>1, <2>1 DEF TypeOK
    <3> QED
      BY <2>1, <3>1 DEF Grounds, Staged, ClearedArgs, May, config
  <2>2. CASE d # c
    <3>1. stage'[d] = stage[d] /\ plan'[d] = plan[d]
      BY <1>1, <2>2 DEF TypeOK
    <3> QED
      BY <3>1 DEF Grounds, Staged, ClearedArgs, May, config
  <2> QED
    BY <2>1, <2>2
<1>5. OneOutcome'
  BY <1>1 DEF OneOutcome, TypeOK
<1> QED
  BY <1>2, <1>3, <1>4, <1>5

(* A call that is over, with a report or without.                          *)
LEMMA OverInv ==
    ASSUME Inv, NEW c \in Calls, stage[c] \in {"resolved", "running"},
           stage' = [stage EXCEPT ![c] = "over"],
           NEW s \in Statuses,
           \/ UNCHANGED outcomes
           \/ outcomes' = outcomes \cup {[call |-> c, status |-> s]},
           s \in {"blocked", "approval_requested"} <=> stage[c] = "resolved",
           UNCHANGED <<config, live, judged, plan, aborted, used, server>>
    PROVE  Inv'
<1> USE DEF Inv
<1>1. TypeOK'
  <2>1. outcomes' \subseteq [call : Calls, status : Statuses]
    BY DEF TypeOK
  <2>2. stage' \in [Calls -> Stages]
    BY DEF TypeOK, Stages
  <2> QED
    BY <2>1, <2>2 DEF TypeOK, config
<1>2. ServerTyped' /\ AnswersFit'
  BY DEF ServerTyped, AnswersFit, Sure, server
<1>3. \A d \in Calls : Grounds(d)'
  BY DEF Grounds, Staged, ClearedArgs, May, TypeOK, config, server
<1>4. \A o \in outcomes : o.call # c
  BY DEF OneOutcome
<1>5. used[c] = NoArgs <=> s \in {"blocked", "approval_requested"}
  BY DEF Grounds, Staged
<1>6. OneOutcome'
  <2>1. ASSUME NEW o \in outcomes'
        PROVE  /\ \A p \in outcomes' : p.call = o.call => p = o
               /\ stage'[o.call] = "over"
               /\ used'[o.call] = NoArgs <=> o.status \in {"blocked", "approval_requested"}
    <3>1. CASE o \in outcomes
      BY <1>4, <3>1 DEF OneOutcome, TypeOK
    <3>2. CASE o \notin outcomes
      BY <1>4, <1>5, <3>2 DEF OneOutcome, TypeOK
    <3> QED
      BY <3>1, <3>2
  <2> QED
    BY <2>1 DEF OneOutcome
<1> QED
  BY <1>1, <1>2, <1>3, <1>6

(* The service is asked about a snapshot of the arguments.                 *)
LEMMA AskInv == ASSUME Inv, NEW c \in Calls, Ask(c) PROVE Inv'
<1> USE DEF Inv
<1>1. /\ stage[c] = "new" /\ stage' = [stage EXCEPT ![c] = "asking"]
      /\ judged' = [judged EXCEPT ![c] = live[c]]
      /\ UNCHANGED <<config, live, plan, aborted, used, outcomes>>
  BY DEF Ask
<1>2. TypeOK'
  BY <1>1 DEF TypeOK, Stages, config
<1>3. (ServerTyped /\ AnswersFit)' /\ UNCHANGED answer
  <2>1. CASE service = "self"
    BY <2>1, AskFits DEF Ask, E!Ask
  <2>2. CASE service # "self"
    BY <2>2 DEF Ask, server, ServerTyped, AnswersFit, Sure
  <2> QED
    BY <2>1, <2>2
<1>4. ASSUME NEW d \in Calls PROVE Grounds(d)'
  <2>1. CASE d = c
    <3>1. stage'[d] = "asking" /\ judged'[d] # NoArgs /\ used'[d] = NoArgs
      BY <1>1, <2>1 DEF Grounds, Staged, ClearedArgs, TypeOK, Args, NoArgs
    <3> QED
      BY <1>1, <3>1 DEF Grounds, Staged, config
  <2>2. CASE d # c
    <3>1. stage'[d] = stage[d] /\ judged'[d] = judged[d]
      BY <1>1, <2>2 DEF TypeOK
    <3> QED
      BY <1>1, <1>3, <3>1 DEF Grounds, Staged, ClearedArgs, May, config
  <2> QED
    BY <2>1, <2>2
<1>5. OneOutcome'
  BY <1>1 DEF OneOutcome, TypeOK
<1> QED
  BY <1>2, <1>3, <1>4, <1>5

(* An answer, whatever it is, clears a call only as it says.               *)
LEMMA DecideInv == ASSUME RuntimeAssumption, Inv, NEW c \in Calls, Decide(c) PROVE Inv'
<1>1. PICK d \in Received(c) :
         Resolve(c, IF c \in aborted THEN "block" ELSE Mapped(d), "service")
  BY DEF Decide
<1>2. Mapped(d) \in {"allow", "approval", "rewrite", "block"}
  BY DEF Mapped, RuntimeAssumption
<1>3. service = "self" => d = answer[c] /\ answer[c] \in {"allow", "flag", "block"}
  BY DEF Received, Inv, ServerTyped
<1>4. Mapped(d) \in Runnable => \/ service = "hosted"
                                \/ service = "self" /\ answer[c] = "allow"
  <2>1. CASE service = "self"
    BY <1>3, <2>1 DEF Mapped, Runnable, RuntimeAssumption
  <2>2. CASE service # "self"
    BY <2>2 DEF Inv, TypeOK
  <2> QED
    BY <2>1, <2>2
<1> DEFINE t == IF c \in aborted THEN "block" ELSE Mapped(d)
<1>5. t \in Plans \ {"none", "live"} /\ (t \in Runnable => t = Mapped(d))
  BY <1>2 DEF Plans, Runnable
<1> HIDE DEF t
<1>6. Resolve(c, t, "service")
  BY <1>1 DEF t
<1> QED
  BY <1>4, <1>5, <1>6, ResolveInv DEF Decide, server

LEMMA OutageInv == ASSUME RuntimeAssumption, Inv, NEW c \in Calls, Outage(c) PROVE Inv'
<1>1. UNCHANGED <<request, said, answer>>
  BY DEF Outage, E!Close, server
<1>2. /\ Resolve(c, Fallback(c), "outage") /\ stage[c] = "asking"
      /\ UNCHANGED <<config, live, judged, aborted, used, outcomes>>
  BY DEF Outage
<1>3. Fallback(c) \in Plans \ {"none", "live"}
  BY DEF Fallback, Plans
<1>4. Fallback(c) \in Runnable => failOpen /\ c \notin Privileged
  BY DEF Fallback, Runnable, Inv, TypeOK
<1> QED
  BY <1>1, <1>2, <1>3, <1>4, ResolveInv

(* The tool gets arguments, and those of its plan.                         *)
LEMMA ExecuteInv == ASSUME Inv, NEW c \in Calls, Execute(c) PROVE Inv'
<1> USE DEF Inv
<1>1. /\ stage[c] = "resolved" /\ stage' = [stage EXCEPT ![c] = "running"]
      /\ plan[c].type \in Runnable
      /\ used' = [used EXCEPT ![c] = PlannedArgs(c)]
      /\ UNCHANGED <<config, live, judged, plan, aborted, outcomes, server>>
  BY DEF Execute
<1>2. PlannedArgs(c) \in Args
  BY <1>1 DEF PlannedArgs, Runnable, Grounds, Staged, TypeOK, Args, NoArgs
<1>3. TypeOK'
  <2>1. used' \in [Calls -> Args \cup {NoArgs}]
    BY <1>1, <1>2 DEF TypeOK
  <2>2. stage' \in [Calls -> Stages]
    BY <1>1 DEF TypeOK, Stages
  <2> QED
    BY <1>1, <2>1, <2>2 DEF TypeOK, config
<1>4. ServerTyped' /\ AnswersFit'
  BY <1>1 DEF ServerTyped, AnswersFit, Sure, server
<1>5. ASSUME NEW d \in Calls PROVE Grounds(d)'
  <2>1. May(d)' = May(d)
    BY <1>1 DEF May, config, server
  <2>2. CASE d = c
    <3>1. stage'[d] = "running" /\ used'[d] # NoArgs
      BY <1>1, <1>2, <2>2 DEF TypeOK, Args, NoArgs
    <3>2. d \in intercepted => May(d)
      BY <1>1, <2>2 DEF Grounds
    <3>3. plan[d].type = "live" => d \notin intercepted
      BY DEF Grounds, Staged
    <3>4. d \in intercepted => used'[d] = ClearedArgs(d)
      BY <1>1, <2>2, <3>3 DEF PlannedArgs, ClearedArgs, Runnable, TypeOK
    <3>5. ClearedArgs(d)' = ClearedArgs(d)
      BY <1>1 DEF ClearedArgs
    <3> QED
      BY <1>1, <2>1, <3>1, <3>2, <3>3, <3>4, <3>5 DEF Grounds, Staged, config
  <2>3. CASE d # c
    <3>1. stage'[d] = stage[d] /\ used'[d] = used[d]
      BY <1>1, <2>3 DEF TypeOK
    <3> QED
      BY <1>1, <2>1, <3>1 DEF Grounds, Staged, ClearedArgs, config
  <2> QED
    BY <2>2, <2>3
<1>6. \A o \in outcomes : o.call # c
  BY <1>1 DEF OneOutcome
<1>7. OneOutcome'
  BY <1>1, <1>6 DEF OneOutcome, TypeOK
<1> QED
  BY <1>3, <1>4, <1>5, <1>7

(* A refused call and a tool that returns have one report at most.         *)
LEMMA RefusalInv == ASSUME Inv, NEW c \in Calls, Refusal(c) PROVE Inv'
<1>1. plan[c].type \in {"block", "approval"}
  BY DEF Refusal, Inv, TypeOK, Plans, Runnable, Grounds, Staged
<1>2. Reported[plan[c].type] \in {"blocked", "approval_requested"}
  BY <1>1 DEF Reported
<1> QED
  BY <1>2, OverInv DEF Refusal, Report, Statuses

LEMMA ReturnInv == ASSUME Inv, NEW c \in Calls, Return(c) PROVE Inv'
<1>1. PICK s \in {"success", "failure"} :
         \/ UNCHANGED outcomes
         \/ outcomes' = outcomes \cup {[call |-> c, status |-> s]}
  BY DEF Return, Report
<1> QED
  BY <1>1, OverInv DEF Return, Statuses

LEMMA NextInv == ASSUME RuntimeAssumption, Inv, [Next]_vars PROVE Inv'
<1>1. ASSUME NEW c \in Calls, Abort(c) \/ Change(c) PROVE Inv'
  <2>1. UNCHANGED <<config, stage, judged, plan, used, outcomes, server>>
    BY <1>1 DEF Abort, Change
  <2>2. aborted' \subseteq Calls /\ live' \in [Calls -> Args]
    BY <1>1 DEF Abort, Change, Inv, TypeOK, Args
  <2>3. TypeOK'
    BY <2>1, <2>2 DEF Inv, TypeOK, config
  <2> QED
    BY <2>1, <2>3 DEF Inv, ServerTyped, AnswersFit, Sure, Grounds, Staged, ClearedArgs, May,
                      OneOutcome, config, server
<1>2. ASSUME NEW c \in Calls, PassThrough(c) PROVE Inv'
  BY <1>2, ResolveInv DEF PassThrough, Plans, server
<1>3. ASSUME NEW c \in Calls, Unfit(c) PROVE Inv'
  BY <1>3, ResolveInv DEF Unfit, Plans, Runnable, server
<1>4. ASSUME NEW c \in Calls, Withdraw(c) PROVE Inv'
  <2>1. "blocked" \in Statuses
    BY DEF Statuses
  <2> QED
    BY <1>4, <2>1, OverInv DEF Withdraw
<1>5. ASSUME NEW c \in Calls, Serve(c) PROVE Inv'
  <2>1. /\ (ServerTyped /\ AnswersFit)'
        /\ \A d \in Calls : answer[d] = "allow" => answer'[d] = "allow"
    BY <1>5, ServeFits DEF Serve, Inv
  <2>2. UNCHANGED guardVars
    BY <1>5 DEF Serve
  <2> QED
    BY <2>1, <2>2 DEF Inv, TypeOK, Grounds, Staged, ClearedArgs, May, OneOutcome, guardVars, config
<1>6. CASE UNCHANGED vars
  BY <1>6 DEF vars, guardVars, server, config, Inv, TypeOK, ServerTyped, AnswersFit, Sure,
              Grounds, Staged, ClearedArgs, May, OneOutcome
<1> QED
  BY <1>1, <1>2, <1>3, <1>4, <1>5, <1>6, AskInv, DecideInv, OutageInv, ExecuteInv,
     RefusalInv, ReturnInv DEF Next, Proceed, Refuse, Reject

LEMMA AlwaysInv == ASSUME RuntimeAssumption PROVE Spec => []Inv
<1>1. Init => Inv
  BY InitInv
<1>2. Inv /\ [Next]_vars => Inv'
  BY NextInv
<1> QED
  BY <1>1, <1>2, PTL DEF Spec

(* An intercepted tool runs because the hosted service decided so, the     *)
(* model was sure of a listed tool, or nothing was heard and the guard     *)
(* fails open for a call that is not privileged                            *)
(* (aurel-tool-guard.ts:73-160, server.mjs:37-55).                         *)
THEOREM RunsAreAuthorized == ASSUME RuntimeAssumption PROVE Spec => []Authorized
<1>1. Inv => Authorized
  <2>1. TypeOK => intercepted \subseteq Calls
    BY DEF TypeOK, RuntimeAssumption
  <2> QED
    BY <2>1 DEF Inv, Authorized, Grounds, May, AnswersFit, Sure
<1> QED
  BY <1>1, AlwaysInv, PTL

(* A call has one report at most, and it says whether the tool was run     *)
(* (aurel-tool-guard.ts:87-160).                                           *)
THEOREM OneReportPerCall == ASSUME RuntimeAssumption PROVE Spec => []OneOutcome
<1>1. Inv => OneOutcome
  BY DEF Inv
<1> QED
  BY <1>1, AlwaysInv, PTL

(* ------------------------------- ToolGate ------------------------------- *)

(* What a call is to the gate depends on nothing but the call.             *)
LEMMA OthersStay ==
    ASSUME NEW c \in Calls, UNCHANGED config,
           \A d \in Calls \ {c} : /\ stage'[d] = stage[d] /\ plan'[d] = plan[d]
                                  /\ judged'[d] = judged[d] /\ used'[d] = used[d]
                                  /\ d \in aborted' <=> d \in aborted
    PROVE  /\ GateStatus' = [GateStatus EXCEPT ![c] = GateStatus'[c]]
           /\ GateCleared' = [GateCleared EXCEPT ![c] = GateCleared'[c]]
           /\ GateUsed' = [GateUsed EXCEPT ![c] = GateUsed'[c]]
<1>1. \A d \in Calls \ {c} : GateStatus'[d] = GateStatus[d]
  BY DEF GateStatus, config
<1>2. GateStatus' = [GateStatus EXCEPT ![c] = GateStatus'[c]]
  <2>1. /\ GateStatus \in [Calls -> {"waiting", "cleared", "refused", "ran"}]
        /\ GateStatus' \in [Calls -> {"waiting", "cleared", "refused", "ran"}]
    BY DEF GateStatus
  <2> QED
    BY <1>1, <2>1
<1>3. \A d \in Calls \ {c} : GateCleared'[d] = GateCleared[d] /\ GateUsed'[d] = GateUsed[d]
  BY <1>1 DEF GateCleared, GateUsed, ClearedArgs
<1>4. GateCleared' = [GateCleared EXCEPT ![c] = GateCleared'[c]]
  BY <1>3 DEF GateCleared
<1>5. GateUsed' = [GateUsed EXCEPT ![c] = GateUsed'[c]]
  BY <1>3, ZenonT(30) DEF GateUsed
<1> QED
  BY <1>2, <1>4, <1>5

(* A step that leaves the gate's picture of the call alone is a stutter.   *)
LEMMA SameCall ==
    ASSUME NEW c \in Calls, UNCHANGED config,
           \A d \in Calls \ {c} : /\ stage'[d] = stage[d] /\ plan'[d] = plan[d]
                                  /\ judged'[d] = judged[d] /\ used'[d] = used[d]
                                  /\ d \in aborted' <=> d \in aborted,
           GateStatus'[c] = GateStatus[c], GateCleared'[c] = GateCleared[c],
           GateUsed'[c] = GateUsed[c]
    PROVE  UNCHANGED Gate!gateVars
<1>1. /\ GateStatus' = [GateStatus EXCEPT ![c] = GateStatus[c]]
      /\ GateCleared' = [GateCleared EXCEPT ![c] = GateCleared[c]]
      /\ GateUsed' = [GateUsed EXCEPT ![c] = GateUsed[c]]
  BY OthersStay
<1>2. /\ [GateStatus EXCEPT ![c] = GateStatus[c]] = GateStatus
      /\ [GateCleared EXCEPT ![c] = GateCleared[c]] = GateCleared
      /\ [GateUsed EXCEPT ![c] = GateUsed[c]] = GateUsed
  BY DEF GateStatus, GateCleared, GateUsed
<1> QED
  BY <1>1, <1>2 DEF Gate!gateVars

(* The three steps of the gate, told by what they do to one call.          *)
LEMMA GateStep ==
    ASSUME NEW c \in Calls, UNCHANGED config,
           \A d \in Calls \ {c} : /\ stage'[d] = stage[d] /\ plan'[d] = plan[d]
                                  /\ judged'[d] = judged[d] /\ used'[d] = used[d]
                                  /\ d \in aborted' <=> d \in aborted,
           \/ /\ GateStatus[c] = "waiting" /\ GateStatus'[c] = "cleared"
              /\ GateCleared'[c] \in Args
           \/ GateStatus[c] \in {"waiting", "cleared"} /\ GateStatus'[c] = "refused"
           \/ /\ GateStatus[c] = "cleared" /\ GateStatus'[c] = "ran"
              /\ GateCleared'[c] = GateCleared[c] /\ used'[c] = GateCleared[c]
    PROVE  Gate!Next
<1> DEFINE st == GateStatus'[c]
           cl == GateCleared'[c]
           us == GateUsed'[c]
<1>1. /\ GateStatus' = [GateStatus EXCEPT ![c] = st]
      /\ GateCleared' = [GateCleared EXCEPT ![c] = cl]
      /\ GateUsed' = [GateUsed EXCEPT ![c] = us]
  BY OthersStay
<1>2. /\ GateStatus[c] # "ran" => GateUsed[c] = NoArgs
      /\ st # "ran" => us = NoArgs
      /\ st = "ran" => us = used'[c]
      /\ st = "refused" => cl = NoArgs
  BY DEF GateUsed, GateCleared
<1>3. /\ [GateCleared EXCEPT ![c] = GateCleared[c]] = GateCleared
      /\ [GateUsed EXCEPT ![c] = GateUsed[c]] = GateUsed
  BY DEF GateCleared, GateUsed
<1> HIDE DEF st, cl, us
<1>4. CASE GateStatus[c] = "waiting" /\ st = "cleared" /\ cl \in Args
  <2>1. Gate!Clear(c, cl)
    BY <1>1, <1>2, <1>3, <1>4 DEF Gate!Clear
  <2> QED
    BY <1>4, <2>1 DEF Gate!Next
<1>5. CASE GateStatus[c] \in {"waiting", "cleared"} /\ st = "refused"
  <2>1. Gate!Refuse(c)
    BY <1>1, <1>2, <1>3, <1>5 DEF Gate!Refuse
  <2> QED
    BY <2>1 DEF Gate!Next
<1>6. CASE GateStatus[c] = "cleared" /\ st = "ran" /\ cl = GateCleared[c]
           /\ used'[c] = GateCleared[c]
  <2>1. Gate!Run(c)
    BY <1>1, <1>2, <1>3, <1>6 DEF Gate!Run
  <2> QED
    BY <2>1 DEF Gate!Next
<1> QED
  BY <1>4, <1>5, <1>6 DEF st, cl

(* Where a call stands at the gate, stage by stage.                        *)
LEMMA Standing ==
    ASSUME NEW c \in Calls, c \in intercepted, Grounds(c), TypeOK
    PROVE  /\ stage[c] \in {"new", "asking"} => GateStatus[c] = "waiting"
           /\ stage[c] = "resolved" =>
                 GateStatus[c] = IF plan[c].type \in Runnable /\ c \notin aborted
                                 THEN "cleared" ELSE "refused"
           /\ stage[c] = "over" /\ used[c] = NoArgs => GateStatus[c] = "refused"
           /\ used[c] # NoArgs => GateStatus[c] = "ran"
  BY DEF GateStatus, Grounds, Staged

(* A plan clears the call or refuses it.                                   *)
LEMMA ResolveStep ==
    ASSUME RuntimeAssumption, Inv, Inv', NEW c \in Calls, NEW t, NEW by, Resolve(c, t, by),
           stage[c] \in {"new", "asking"},
           UNCHANGED <<config, judged, aborted, used>>
    PROVE  Gate!Next \/ UNCHANGED Gate!gateVars
<1>1. /\ stage' = [stage EXCEPT ![c] = "resolved"]
      /\ plan' = [plan EXCEPT ![c] = [type |-> t, by |-> by]]
  BY DEF Resolve
<1>2. \A d \in Calls \ {c} : /\ stage'[d] = stage[d] /\ plan'[d] = plan[d]
                             /\ judged'[d] = judged[d] /\ used'[d] = used[d]
                             /\ d \in aborted' <=> d \in aborted
  BY <1>1 DEF Inv, TypeOK
<1>3. CASE c \in intercepted
  <2>1. GateStatus[c] = "waiting"
    BY <1>3, Standing DEF Inv
  <2>2. stage'[c] = "resolved" /\ c \in intercepted'
    BY <1>1, <1>3 DEF Inv, TypeOK, config
  <2>3. GateStatus'[c] \in {"cleared", "refused"}
    BY <2>2 DEF Inv, Grounds, Staged, GateStatus
  <2>4. ASSUME GateStatus'[c] = "cleared" PROVE GateCleared'[c] \in Args
    <3>1. plan'[c].type \in Runnable
      BY <2>2, <2>4 DEF GateStatus, Inv, Grounds, Staged
    <3>2. plan'[c].type \in {"allow", "rewrite"}
      BY <2>2, <3>1 DEF Inv, Grounds, Staged, Runnable
    <3>3. ClearedArgs(c)' \in Args
      BY <2>2, <3>2 DEF ClearedArgs, Inv, Grounds, Staged, TypeOK, Args
    <3> QED
      BY <2>4, <3>3 DEF GateCleared
  <2> QED
    BY <1>2, <2>1, <2>3, <2>4, GateStep
<1>4. CASE c \notin intercepted
  <2>1. GateStatus[c] = "waiting" /\ GateStatus'[c] = "waiting"
    BY <1>4 DEF GateStatus, config
  <2>2. GateCleared'[c] = GateCleared[c] /\ GateUsed'[c] = GateUsed[c]
    BY <2>1 DEF GateCleared, GateUsed
  <2> QED
    BY <1>2, <2>1, <2>2, SameCall
<1> QED
  BY <1>3, <1>4

(* A step that neither runs nor clears the call: what it is to the gate    *)
(* stays.                                                                  *)
LEMMA QuietStep ==
    ASSUME Inv, Inv', NEW c \in Calls,
           \/ UNCHANGED stage
           \/ stage[c] = "new" /\ stage' = [stage EXCEPT ![c] = "asking"]
           \/ stage[c] = "running" /\ stage' = [stage EXCEPT ![c] = "over"]
           \/ /\ stage[c] = "resolved" /\ stage' = [stage EXCEPT ![c] = "over"]
              /\ plan[c].type \notin Runnable \/ c \in aborted,
           \/ UNCHANGED judged
           \/ stage[c] = "new" /\ \E a \in Args : judged' = [judged EXCEPT ![c] = a],
           UNCHANGED <<config, plan, aborted, used>>
    PROVE  UNCHANGED Gate!gateVars
<1>1. \A d \in Calls \ {c} : /\ stage'[d] = stage[d] /\ plan'[d] = plan[d]
                             /\ judged'[d] = judged[d] /\ used'[d] = used[d]
                             /\ d \in aborted' <=> d \in aborted
  BY DEF Inv, TypeOK
<1>2. GateStatus'[c] = GateStatus[c]
  BY DEF GateStatus, config, Inv, TypeOK, Grounds, Staged
<1>3. GateStatus[c] \in {"cleared", "ran"} => judged'[c] = judged[c]
  BY DEF GateStatus, Inv, Grounds, Staged
<1>4. GateCleared'[c] = GateCleared[c] /\ GateUsed'[c] = GateUsed[c]
  BY <1>2, <1>3 DEF GateCleared, GateUsed, ClearedArgs
<1> QED
  BY <1>1, <1>2, <1>4, SameCall

(* The tool is run with what the call was cleared for.                     *)
LEMMA ExecuteStep ==
    ASSUME RuntimeAssumption, Inv, Inv', NEW c \in Calls, Execute(c)
    PROVE  Gate!Next \/ UNCHANGED Gate!gateVars
<1>1. /\ stage[c] = "resolved" /\ stage' = [stage EXCEPT ![c] = "running"]
      /\ plan[c].type \in Runnable /\ c \notin aborted
      /\ used' = [used EXCEPT ![c] = PlannedArgs(c)]
      /\ UNCHANGED <<config, live, judged, plan, aborted>>
  BY DEF Execute
<1>2. \A d \in Calls \ {c} : /\ stage'[d] = stage[d] /\ plan'[d] = plan[d]
                             /\ judged'[d] = judged[d] /\ used'[d] = used[d]
                             /\ d \in aborted' <=> d \in aborted
  BY <1>1 DEF Inv, TypeOK
<1>3. CASE c \in intercepted
  <2>1. GateStatus[c] = "cleared"
    BY <1>1, <1>3, Standing DEF Inv
  <2>2. stage'[c] = "running" /\ c \in intercepted' /\ used'[c] # NoArgs
    BY <1>1, <1>3 DEF Inv, TypeOK, config, Grounds, Staged
  <2>3. GateStatus'[c] = "ran"
    BY <2>2 DEF GateStatus
  <2>4. used'[c] = ClearedArgs(c)' /\ ClearedArgs(c)' = ClearedArgs(c)
    BY <1>1, <2>2 DEF Inv, Grounds, Staged, ClearedArgs
  <2>5. GateCleared[c] = ClearedArgs(c) /\ GateCleared'[c] = ClearedArgs(c)'
    BY <2>1, <2>3 DEF GateCleared
  <2> QED
    BY <1>1, <1>2, <2>1, <2>3, <2>4, <2>5, GateStep
<1>4. CASE c \notin intercepted
  <2>1. GateStatus[c] = "waiting" /\ GateStatus'[c] = "waiting"
    BY <1>1, <1>4 DEF GateStatus, config
  <2>2. GateCleared'[c] = GateCleared[c] /\ GateUsed'[c] = GateUsed[c]
    BY <2>1 DEF GateCleared, GateUsed
  <2> QED
    BY <1>1, <1>2, <2>1, <2>2, SameCall
<1> QED
  BY <1>3, <1>4

(* An abort withdraws what was cleared and not run.                        *)
LEMMA AbortStep ==
    ASSUME RuntimeAssumption, Inv, Inv', NEW c \in Calls, Abort(c)
    PROVE  Gate!Next \/ UNCHANGED Gate!gateVars
<1>1. aborted' = aborted \cup {c} /\ UNCHANGED <<config, stage, judged, plan, used>>
  BY DEF Abort
<1>2. \A d \in Calls \ {c} : /\ stage'[d] = stage[d] /\ plan'[d] = plan[d]
                             /\ judged'[d] = judged[d] /\ used'[d] = used[d]
                             /\ d \in aborted' <=> d \in aborted
  BY <1>1
<1>3. CASE GateStatus[c] = "cleared"
  <2>1. GateStatus'[c] = "refused"
    BY <1>1, <1>3 DEF GateStatus, config
  <2> QED
    BY <1>1, <1>2, <1>3, <2>1, GateStep
<1>4. CASE GateStatus[c] # "cleared"
  <2>1. GateStatus'[c] = GateStatus[c]
    BY <1>1, <1>4 DEF GateStatus, config
  <2>2. GateCleared'[c] = GateCleared[c] /\ GateUsed'[c] = GateUsed[c]
    BY <1>1, <2>1 DEF GateCleared, GateUsed, ClearedArgs
  <2> QED
    BY <1>1, <1>2, <2>1, <2>2, SameCall
<1> QED
  BY <1>3, <1>4

LEMMA GateSteps ==
    ASSUME RuntimeAssumption, Inv, Inv', [Next]_vars
    PROVE  Gate!Next \/ UNCHANGED Gate!gateVars
<1>1. ASSUME NEW c \in Calls, PassThrough(c) \/ Unfit(c) \/ Decide(c) \/ Outage(c)
      PROVE  Gate!Next \/ UNCHANGED Gate!gateVars
  <2>1. /\ stage[c] \in {"new", "asking"} /\ UNCHANGED <<config, judged, aborted, used>>
        /\ \E t, by : Resolve(c, t, by)
    BY <1>1 DEF PassThrough, Unfit, Decide, Outage
  <2> QED
    BY <2>1, ResolveStep
<1>2. ASSUME NEW c \in Calls, Ask(c) \/ Withdraw(c) \/ Refusal(c) \/ Return(c) \/ Change(c)
      PROVE  UNCHANGED Gate!gateVars
  <2>1. live[c] \in Args
    BY DEF Inv, TypeOK
  <2> QED
    BY <1>2, <2>1, QuietStep DEF Ask, Withdraw, Refusal, Return, Change
<1>3. ASSUME NEW c \in Calls, Serve(c) PROVE UNCHANGED Gate!gateVars
  BY <1>3, QuietStep DEF Serve, guardVars
<1>4. CASE UNCHANGED vars
  BY <1>4 DEF vars, guardVars, config, Gate!gateVars, GateStatus, GateCleared, GateUsed,
              ClearedArgs
<1> QED
  BY <1>1, <1>2, <1>3, <1>4, AbortStep, ExecuteStep
     DEF Next, Proceed, Refuse, Reject

(* For the calls it intercepts the guard implements ToolGate: the tool is  *)
(* run once at most, with the snapshot that was judged or the arguments    *)
(* the service wrote, whatever the caller did to its object meanwhile, and *)
(* not once the call was aborted (aurel-tool-guard.ts:73-160).             *)
THEOREM GuardImplementsGate == ASSUME RuntimeAssumption PROVE Spec => ImplementsGate
<1>1. Init => Gate!Init
  BY DEF Init, Gate!Init, GateStatus, GateCleared, GateUsed
<1>2. Inv /\ Inv' /\ [Next]_vars => [Gate!Next]_Gate!gateVars
  BY GateSteps
<1> QED
  BY <1>1, <1>2, AlwaysInv, PTL DEF Spec, ImplementsGate, Gate!Spec

(* ----------------------------- The evaluator ---------------------------- *)

(* What the self-hosted evaluator's counter counts, for every set of       *)
(* requests and every maxConcurrent, whoever its clients are.              *)

Busy == {c \in Calls : request[c] \in E!Working}

(* The evaluator's cardinalities are those of the facts about finite sets. *)
LEMMA SameFinite == \A S : /\ E!Cardinality(S) = Cardinality(S)
                           /\ E!IsFiniteSet(S) <=> IsFiniteSet(S)
  BY DEF E!Cardinality, E!IsFiniteSet, Cardinality, IsFiniteSet

(* A counter that follows a set of calls by one element.                   *)
LEMMA BusyFinite == ASSUME E!EvaluatorAssumption
                    PROVE  IsFiniteSet(Busy) /\ Cardinality(Busy) \in Nat
<1>1. IsFiniteSet(Calls)
  BY SameFinite DEF E!EvaluatorAssumption
<1> QED
  BY <1>1, FS_Subset, FS_CardinalityType DEF Busy

LEMMA InitSound == ASSUME E!EvaluatorAssumption, E!Init PROVE E!SlotsSound
<1>1. E!TypeOK
  BY DEF E!Init, E!TypeOK, E!Phases, E!Answers, E!Silence
<1>2. Busy = {}
  BY DEF E!Init, Busy, E!Working
<1>3. Cardinality(Busy) = 0
  BY <1>2, FS_EmptySet
<1> QED
  BY <1>1, <1>3, SameFinite DEF E!Init, E!SlotsSound, Busy, E!EvaluatorAssumption

(* A request that is refused or still arriving is not counted.             *)
LEMMA AskKeeps == ASSUME E!SlotsSound, NEW c \in Calls, E!Ask(c) PROVE E!SlotsSound'
<1>1. E!TypeOK'
  BY DEF E!Ask, E!SlotsSound, E!TypeOK, E!Phases, E!Working
<1>2. Busy' = Busy
  BY DEF E!Ask, E!SlotsSound, E!TypeOK, Busy, E!Working
<1> QED
  BY <1>1, <1>2 DEF E!Ask, E!SlotsSound, Busy

LEMMA CloseKeeps == ASSUME E!SlotsSound, NEW c \in Calls, E!Close(c) PROVE E!SlotsSound'
  BY DEF E!Close, E!SlotsSound, E!TypeOK

LEMMA AdmitKeeps ==
    ASSUME E!EvaluatorAssumption, E!SlotsSound, NEW c \in Calls, E!Admit(c) PROVE E!SlotsSound'
<1>1. CASE active >= MaxConcurrent
  <2>1. E!TypeOK'
    BY <1>1 DEF E!Admit, E!Respond, E!SlotsSound, E!TypeOK, E!Phases, E!Working
  <2>2. Busy' = Busy
    BY <1>1 DEF E!Admit, E!Respond, E!SlotsSound, E!TypeOK, Busy, E!Working
  <2> QED
    BY <1>1, <2>1, <2>2 DEF E!Admit, E!SlotsSound, Busy
<1>2. CASE ~(active >= MaxConcurrent)
  <2>0. active \in Int /\ MaxConcurrent \in Nat
    BY DEF E!SlotsSound, E!TypeOK, E!EvaluatorAssumption
  <2>a. /\ request' = [request EXCEPT ![c] = "body"]
        /\ active' = active + 1
        /\ UNCHANGED <<gone, said, answer>>
    BY <1>2 DEF E!Admit
  <2>1. E!TypeOK'
    <3>1. request' \in [Calls -> E!Phases]
      BY <2>a DEF E!SlotsSound, E!TypeOK, E!Phases, E!Working
    <3>2. active' \in Int
      BY <2>a, <2>0
    <3> QED
      BY <2>a, <3>1, <3>2 DEF E!SlotsSound, E!TypeOK
  <2>2. Busy' = Busy \cup {c} /\ c \notin Busy
    BY <1>2 DEF E!Admit, E!SlotsSound, E!TypeOK, Busy, E!Working, E!EvaluatorAssumption
  <2>3. Cardinality(Busy') = Cardinality(Busy) + 1
    BY <2>2, BusyFinite, FS_AddElement
  <2>4. active' = active + 1 /\ active + 1 <= MaxConcurrent
    BY <1>2, <2>0 DEF E!Admit
  <2> QED
    BY <2>1, <2>3, <2>4, SameFinite DEF E!SlotsSound, Busy
<1> QED
  BY <1>1, <1>2

LEMMA ReadBodyKeeps == ASSUME E!SlotsSound, NEW c \in Calls, E!ReadBody(c) PROVE E!SlotsSound'
<1>1. E!TypeOK'
  BY DEF E!ReadBody, E!SlotsSound, E!TypeOK, E!Phases, E!Working
<1>2. Busy' = Busy
  BY DEF E!ReadBody, E!SlotsSound, E!TypeOK, Busy, E!Working
<1> QED
  BY <1>1, <1>2 DEF E!ReadBody, E!SlotsSound, Busy

(* Every way out of the handler gives one place back.                      *)
LEMMA FinishKeeps ==
    ASSUME E!EvaluatorAssumption, E!SlotsSound, NEW c \in Calls, request[c] \in E!Working,
           NEW d \in {"none", "allow", "flag", "block"}, E!Finish(c, d), gone' = gone,
           said' \in [Calls -> E!Answers]
    PROVE  E!SlotsSound'
<1>1. E!TypeOK'
  <2>1. request' \in [Calls -> E!Phases]
    BY DEF E!Finish, E!Respond, E!SlotsSound, E!TypeOK, E!Phases
  <2>2. answer' \in [Calls -> {"none", "allow", "flag", "block"}]
    <3>1. (IF c \in gone THEN "none" ELSE d) \in {"none", "allow", "flag", "block"}
      OBVIOUS
    <3> QED
      BY <3>1 DEF E!Finish, E!Respond, E!SlotsSound, E!TypeOK
  <2>3. gone' \subseteq Calls /\ active' \in Int
    BY DEF E!Finish, E!SlotsSound, E!TypeOK
  <2> QED
    BY <2>1, <2>2, <2>3 DEF E!TypeOK
<1>2. Busy' = Busy \ {c} /\ c \in Busy
  BY DEF E!Finish, E!Respond, E!SlotsSound, E!TypeOK, Busy, E!Working
<1>3. Cardinality(Busy') = Cardinality(Busy) - 1
  BY <1>2, BusyFinite, FS_RemoveElement
<1>4. active' = active - 1
  BY DEF E!Finish
<1>5. active = Cardinality(Busy) /\ active <= MaxConcurrent
  BY SameFinite DEF E!SlotsSound, Busy
<1> QED
  <2>1. active' = Cardinality(Busy') /\ active' <= MaxConcurrent
    BY <1>3, <1>4, <1>5, BusyFinite DEF E!EvaluatorAssumption
  <2> QED
    BY <1>1, <2>1, SameFinite DEF E!SlotsSound, Busy

LEMMA NextKeeps ==
    ASSUME E!EvaluatorAssumption, E!SlotsSound, [E!Next]_(E!evaluatorVars) PROVE E!SlotsSound'
<1>1. ASSUME NEW c \in Calls, E!Ask(c) PROVE E!SlotsSound'
  BY <1>1, AskKeeps
<1>2. ASSUME NEW c \in Calls, E!Close(c) PROVE E!SlotsSound'
  BY <1>2, CloseKeeps
<1>3. ASSUME NEW c \in Calls, E!Admit(c) PROVE E!SlotsSound'
  BY <1>3, AdmitKeeps
<1>4. ASSUME NEW c \in Calls, E!ReadBody(c) PROVE E!SlotsSound'
  BY <1>4, ReadBodyKeeps
<1>5. ASSUME NEW c \in Calls, E!BodyFails(c) \/ E!BodyLate(c) \/ E!ModelFails(c)
      PROVE  E!SlotsSound'
  BY <1>5, FinishKeeps DEF E!BodyFails, E!BodyLate, E!ModelFails, E!Working, E!SlotsSound, E!TypeOK
<1>6. ASSUME NEW c \in Calls, NEW a \in Replies, E!ModelAnswers(c, a) PROVE E!SlotsSound'
  <2>1. a \in E!Answers
    BY DEF E!EvaluatorAssumption
  <2>2. E!Verdict(c, a) \in {"allow", "flag", "block"}
    BY <2>1 DEF E!Verdict, E!Answers
  <2>3. said' \in [Calls -> E!Answers]
    BY <1>6, <2>1 DEF E!ModelAnswers, E!SlotsSound, E!TypeOK
  <2> QED
    BY <1>6, <2>2, <2>3, FinishKeeps DEF E!ModelAnswers, E!Working
<1>7. CASE UNCHANGED E!evaluatorVars
  BY <1>7 DEF E!evaluatorVars, E!SlotsSound, E!TypeOK
<1> QED
  BY <1>1, <1>2, <1>3, <1>4, <1>5, <1>6, <1>7 DEF E!Next, E!Serve

(* The server works on maxConcurrent requests at most, and its counter     *)
(* returns what every request took, however the request ends               *)
(* (server.mjs:37-55).                                                     *)
THEOREM SlotsAreSound == ASSUME E!EvaluatorAssumption PROVE E!Spec => []E!SlotsSound
<1>1. E!Init => E!SlotsSound
  BY InitSound
<1>2. E!SlotsSound /\ [E!Next]_(E!evaluatorVars) => E!SlotsSound'
  BY NextKeeps
<1> QED
  BY <1>1, <1>2, PTL DEF E!Spec

(* A step of the guard is one of the evaluator's or leaves it alone.       *)
LEMMA EvaluatorSteps ==
    ASSUME [Next]_vars PROVE [E!Next]_(E!evaluatorVars)
<1>1. ASSUME NEW c \in Calls, E!Ask(c) \/ E!Close(c) \/ E!Serve(c) PROVE E!Next
  BY <1>1 DEF E!Next
<1>2. ASSUME UNCHANGED server PROVE UNCHANGED E!evaluatorVars
  BY <1>2 DEF server, E!evaluatorVars
<1> QED
  BY <1>1, <1>2 DEF Next, Proceed, Abort, Change, PassThrough, Unfit, Ask, Decide, Outage,
     Withdraw, Refuse, Reject, Refusal, Execute, Return, Serve, vars

(* The evaluator's counter counts the requests it works on, and never more *)
(* than maxConcurrent of them, with this guard as its client: a request is *)
(* closed when the guard times out or its caller aborts.                   *)
THEOREM SlotsStaySound == ASSUME RuntimeAssumption PROVE Spec => []SlotsSound
<1>1. Init => E!SlotsSound
  BY InitSound DEF Init, RuntimeAssumption
<1>2. E!SlotsSound /\ [Next]_vars => E!SlotsSound'
  BY EvaluatorSteps, NextKeeps DEF RuntimeAssumption
<1> QED
  BY <1>1, <1>2, PTL DEF Spec, SlotsSound
=============================================================================
