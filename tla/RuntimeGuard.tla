---------------------------- MODULE RuntimeGuard ----------------------------
(***************************************************************************)
(* The TypeScript guard (createAurelToolGuard) with its SDK client, as the *)
(* LangGraph and OpenAI Agents adapters use it: runProtected around a tool *)
(* that belongs to the caller, or preflight alone as an input guardrail.   *)
(* The policy service is a hosted one, which may decide anything, or the   *)
(* self-hosted evaluator, module Evaluator.                                *)
(*                                                                         *)
(* While the service is asked the caller may abort the call, and may       *)
(* change the object it passed as arguments.                               *)
(***************************************************************************)
EXTENDS Integers, FiniteSets

CONSTANTS
    Calls,          \* tool calls
    Selections,     \* the sets of calls that tools.include may select
    Privileged,     \* the calls an outage blocks in any fail mode
    RewriteAnswer,  \* approvalFallback: "approval" or "block"
    MaxConcurrent,  \* of the evaluator
    Listed,         \* of the evaluator
    Replies         \* of the evaluator's model

VARIABLES
    service,    \* "hosted" or "self"
    mode,       \* "wrapper" or "guardrail"
    failOpen,   \* failMode is open
    intercepted, \* the calls tools.include selects
    stage,      \* where each call is
    live,       \* the arguments as the caller has them now
    judged,     \* the snapshot of them the service is asked about
    plan,       \* the result of preflight, and what it rests on
    aborted,    \* the calls whose signal was aborted
    used,       \* the arguments the tool was run with
    outcomes,   \* the reports the hosted service has received
    request, gone, said, answer, active

E == INSTANCE Evaluator

config == <<service, mode, failOpen, intercepted>>
guardVars == <<config, stage, live, judged, plan, aborted, used, outcomes>>
server == <<request, gone, said, answer, active>>
vars == <<guardVars, server>>

NoArgs == "none"
Args == {"given", "changed", "rewritten"}
Stages == {"new", "asking", "resolved", "running", "over"}
Plans == {"none", "live", "allow", "rewrite", "block", "approval"}
Runnable == {"live", "allow", "rewrite"}
Statuses == {"blocked", "approval_requested", "success", "failure"}

RuntimeAssumption == /\ Selections \subseteq SUBSET Calls
                     /\ Privileged \subseteq Calls
                     /\ RewriteAnswer \in {"approval", "block"}
                     /\ E!EvaluatorAssumption

NoPlan == [type |-> "none", by |-> "none"]

Init == /\ service \in {"hosted", "self"}
        /\ mode \in {"wrapper", "guardrail"}
        /\ failOpen \in BOOLEAN
        /\ intercepted \in Selections
        /\ stage = [c \in Calls |-> "new"]
        /\ live = [c \in Calls |-> "given"]
        /\ judged = [c \in Calls |-> NoArgs]
        /\ plan = [c \in Calls |-> NoPlan]
        /\ aborted = {}
        /\ used = [c \in Calls |-> NoArgs]
        /\ outcomes = {}
        /\ E!Init

Resolve(c, type, by) == /\ stage' = [stage EXCEPT ![c] = "resolved"]
                        /\ plan' = [plan EXCEPT ![c] = [type |-> type, by |-> by]]

(* The caller's side.  Nothing is aborted or changed under a guardrail,    *)
(* which gets its arguments as a string.                                   *)
Abort(c) == /\ mode = "wrapper"
            /\ c \notin aborted
            /\ stage[c] # "over"
            /\ aborted' = aborted \cup {c}
            /\ UNCHANGED <<config, stage, live, judged, plan, used, outcomes, server>>

Change(c) == /\ mode = "wrapper"
             /\ stage[c] \in {"asking", "resolved"}
             /\ live' = [live EXCEPT ![c] = "changed"]
             /\ UNCHANGED <<config, stage, judged, plan, aborted, used, outcomes, server>>

-----------------------------------------------------------------------------
(* preflight.                                                              *)

PassThrough(c) == /\ stage[c] = "new"
                  /\ c \notin intercepted
                  /\ Resolve(c, "live", "none")
                  /\ UNCHANGED <<config, live, judged, aborted, used, outcomes, server>>

(* The arguments are no plain JSON, or the call was aborted already.       *)
Unfit(c) == /\ stage[c] = "new"
            /\ c \in intercepted
            /\ Resolve(c, "block", "guard")
            /\ UNCHANGED <<config, live, judged, aborted, used, outcomes, server>>

Ask(c) == /\ stage[c] = "new"
          /\ c \in intercepted \ aborted
          /\ stage' = [stage EXCEPT ![c] = "asking"]
          /\ judged' = [judged EXCEPT ![c] = live[c]]
          /\ IF service = "self" THEN E!Ask(c) ELSE UNCHANGED server
          /\ UNCHANGED <<config, live, plan, aborted, used, outcomes>>

(* mapDecision.  A guardrail cannot rewrite.                               *)
Mapped(d) == CASE d = "allow" -> "allow"
               [] d \in {"flag", "require_approval"} -> "approval"
               [] d = "rewrite" -> IF mode = "wrapper" THEN "rewrite" ELSE RewriteAnswer
               [] OTHER -> "block"

(* What a hosted service may decide.  A flag is a request for approval.    *)
Valid == {"allow", "block", "flag", "rewrite"}

(* What the client can receive: an answer that is no JSON, or no decision  *)
(* it accepts, blocks like a refusal.                                      *)
Received(c) == IF service = "hosted" THEN Valid \cup {"malformed"}
               ELSE {answer[c]} \ {"none"}

Decide(c) == /\ stage[c] = "asking"
             /\ \E d \in Received(c) :
                   Resolve(c, IF c \in aborted THEN "block" ELSE Mapped(d), "service")
             /\ UNCHANGED <<config, live, judged, aborted, used, outcomes, server>>

(* The service cannot be reached, refuses or is late, or the call was      *)
(* aborted.  The client closes the connection.                             *)
Fallback(c) == IF c \in aborted \/ ~failOpen \/ c \in Privileged THEN "block" ELSE "allow"

OutageRefused(c) == /\ stage[c] = "asking"
                    /\ service = "self"
                    /\ Resolve(c, Fallback(c), "outage")
                    /\ E!Close(c)
                    /\ UNCHANGED <<config, live, judged, aborted, used, outcomes>>

Outage(c) == /\ stage[c] = "asking"
             /\ Resolve(c, Fallback(c), "outage")
             /\ IF service = "self" THEN E!Close(c) ELSE UNCHANGED server
             /\ UNCHANGED <<config, live, judged, aborted, used, outcomes>>

-----------------------------------------------------------------------------
(* runProtected after preflight, or what the agent does with a guardrail.  *)

(* A report goes out with the signal of the call, so that an abort ends it *)
(* too.  The evaluator stores no reports.                                  *)
Report(c, status) ==
    \/ /\ service = "hosted" /\ c \notin aborted
       /\ outcomes' = outcomes \cup {[call |-> c, status |-> status]}
    \/ UNCHANGED outcomes

Reported == [block |-> "blocked", approval |-> "approval_requested"]

Withdraw(c) == /\ stage[c] = "resolved"
               /\ c \in aborted
               /\ stage' = [stage EXCEPT ![c] = "over"]
               /\ UNCHANGED <<config, live, judged, plan, aborted, used, outcomes, server>>

Refusal(c) == /\ stage[c] = "resolved"
              /\ plan[c].type \notin Runnable
              /\ stage' = [stage EXCEPT ![c] = "over"]
              /\ Report(c, Reported[plan[c].type])
              /\ UNCHANGED <<config, live, judged, plan, aborted, used, server>>

(* runProtected throws, and a guardrail rejects the content of the call.   *)
Refuse(c) == mode = "wrapper" /\ c \notin aborted /\ Refusal(c)
Reject(c) == mode = "guardrail" /\ Refusal(c)

PlannedArgsLive(c) == IF plan[c].type = "rewrite" THEN "rewritten" ELSE live[c]

PlannedArgs(c) == CASE plan[c].type = "live" -> live[c]
                    [] plan[c].type = "allow" -> judged[c]
                    [] plan[c].type = "rewrite" -> "rewritten"
                    [] OTHER -> NoArgs

Execute(c) == /\ stage[c] = "resolved"
              /\ c \notin aborted
              /\ plan[c].type \in Runnable
              /\ stage' = [stage EXCEPT ![c] = "running"]
              /\ used' = [used EXCEPT ![c] = PlannedArgs(c)]
              /\ UNCHANGED <<config, live, judged, plan, aborted, outcomes, server>>

ReturnAwaited(c) == /\ stage[c] = "running"
                    /\ \E status \in {"success", "failure"} :
                          /\ Report(c, status)
                          /\ stage' = [stage EXCEPT ![c] = IF status = "success"
                                                         THEN "running" ELSE "over"]
                    /\ UNCHANGED <<config, live, judged, plan, aborted, used, server>>

(* The tool returns or throws.  A call that was not intercepted and one    *)
(* behind a guardrail are not reported.                                    *)
Return(c) == /\ stage[c] = "running"
             /\ stage' = [stage EXCEPT ![c] = "over"]
             /\ IF mode = "wrapper" /\ plan[c].type # "live"
                THEN \E status \in {"success", "failure"} : Report(c, status)
                ELSE UNCHANGED outcomes
             /\ UNCHANGED <<config, live, judged, plan, aborted, used, server>>

Serve(c) == E!Serve(c) /\ UNCHANGED guardVars

Proceed(c) == Outage(c) \/ Withdraw(c) \/ Refuse(c) \/ Reject(c) \/ Execute(c)

Next == \E c \in Calls : \/ Abort(c) \/ Change(c) \/ PassThrough(c) \/ Unfit(c)
                         \/ Ask(c) \/ Decide(c) \/ Proceed(c) \/ Return(c) \/ Serve(c)

(* The guard goes on, its client's timeout expires, and every stage of the *)
(* evaluator has a deadline.  Nothing is assumed of the hosted service or  *)
(* of the tool.  A call takes a step of either kind a few times only, so   *)
(* that none can keep another from its own.                                *)
Fairness == WF_vars(\E c \in Calls : Proceed(c) \/ Serve(c))

Spec == Init /\ [][Next]_vars /\ Fairness

-----------------------------------------------------------------------------
TypeOK == /\ service \in {"hosted", "self"}
          /\ mode \in {"wrapper", "guardrail"}
          /\ failOpen \in BOOLEAN
          /\ intercepted \in Selections
          /\ stage \in [Calls -> Stages]
          /\ live \in [Calls -> Args]
          /\ judged \in [Calls -> Args \cup {NoArgs}]
          /\ plan \in [Calls -> [type : Plans, by : {"none", "guard", "service", "outage"}]]
          /\ aborted \subseteq Calls
          /\ used \in [Calls -> Args \cup {NoArgs}]
          /\ outcomes \subseteq [call : Calls, status : Statuses]

SlotsSound == E!SlotsSound

(* An intercepted tool runs on one of three grounds: the hosted service    *)
(* decided so; the model was sure to allow it and its tool is listed; or   *)
(* nothing was heard, the guard fails open and the call is not privileged. *)
(* An evaluator that is busy, cancelled or unsure is none of them, however *)
(* its answer and the client's timeout race.                               *)
Authorized ==
    /\ TypeOK
    /\ \A c \in intercepted : used[c] # NoArgs =>
          \/ service = "hosted" /\ plan[c].by = "service"
          \/ service = "self" /\ c \in Listed /\ said[c].valid
             /\ said[c].choice = "allow" /\ said[c].sure /\ ~said[c].review
          \/ plan[c].by = "outage" /\ failOpen /\ c \notin Privileged

(* A call has one outcome at most, and it says what became of the call.    *)
OneOutcome ==
    \A o \in outcomes :
        /\ \A p \in outcomes : p.call = o.call => p = o
        /\ stage[o.call] = "over"
        /\ used[o.call] = NoArgs <=> o.status \in {"blocked", "approval_requested"}

(* For the calls it intercepts the guard implements ToolGate: the tool is  *)
(* run with the snapshot the service judged, or the arguments the service  *)
(* wrote, whatever the caller did to its object; and not once aborted.     *)
GateStatus == [c \in Calls |->
                 IF c \notin intercepted THEN "waiting"
                 ELSE IF used[c] # NoArgs THEN "ran"
                 ELSE IF stage[c] \in {"new", "asking"} THEN "waiting"
                 ELSE IF stage[c] = "resolved" /\ plan[c].type \in Runnable /\ c \notin aborted
                 THEN "cleared" ELSE "refused"]

ClearedArgs(c) == IF plan[c].type = "rewrite" THEN "rewritten" ELSE judged[c]

GateCleared == [c \in Calls |-> IF GateStatus[c] \in {"cleared", "ran"}
                               THEN ClearedArgs(c) ELSE NoArgs]
GateUsed == [c \in Calls |-> IF GateStatus[c] = "ran" THEN used[c] ELSE NoArgs]

Gate == INSTANCE ToolGate
        WITH status <- GateStatus, cleared <- GateCleared, used <- GateUsed

ImplementsGate == Gate!Spec

(* A call that the guard is at runs or is refused in the end, though the   *)
(* service never answers; and the evaluator gives every place back.  (None *)
(* comes back to where it was.)                                            *)
Settles == <>[](\A c \in Calls : /\ stage[c] \notin {"asking", "resolved"}
                                 /\ request[c] \notin E!Working)
=============================================================================
