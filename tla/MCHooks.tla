------------------------------- MODULE MCHooks -------------------------------
(***************************************************************************)
(* The hooks of three hosts, on small instances: those of Claude Code and  *)
(* Codex, each a process that shares a directory with the others (module   *)
(* HookState), and those of OpenClaw, which are callbacks in its gateway   *)
(* (module OpenClawGuard).  The initial state chooses, and the other part  *)
(* never starts.                                                           *)
(***************************************************************************)
EXTENDS HookState, TLC

CONSTANTS c1, c2, c3

VARIABLES
    part,
    remote, durable, approvals, phase, decision, traceByCall, timers, reports, ran,
    runs, actions, old, reviewed

clawVars == <<remote, durable, approvals, phase, decision, traceByCall, timers,
              reports, ran, runs, actions, old, reviewed>>

(* A privileged call about which the service may say anything, one that    *)
(* may be blocked or get an unusable answer, and one that it allows.       *)
Reply(v, t) == [verdict |-> v, traced |-> t]
Answering == c1 :> {Reply("allow", TRUE), Reply("rewrite", TRUE),
                    Reply("approval", FALSE), Reply("outage", FALSE)}
          @@ c2 :> {Reply("allow", TRUE), Reply("block", FALSE),
                    Reply("malformed", FALSE)}
          @@ c3 :> {Reply("allow", TRUE)}

(* Two calls of one id and one session, and a third of another; room for   *)
(* one trace, one session and one action.                                  *)
Groups == c1 :> 1 @@ c2 :> 1 @@ c3 :> 2
Said == c1 :> {"allow", "local"}
     @@ c2 :> {"allow", "flag", "error"}
     @@ c3 :> {"allow", "limit", "block"}

Claw == INSTANCE OpenClawGuard
        WITH Calls <- {c1, c2, c3}, IdOf <- Groups, SessionOf <- Groups,
             Replies <- Said, MaxPending <- 1, MaxRuns <- 1, MaxActions <- 1

ASSUME HookAssumption /\ Claw!GuardAssumption

MCInit == /\ Init
          /\ Claw!Init
          /\ \/ part = "files" /\ ~remote /\ ~durable /\ ~approvals
             \/ part = "claw" /\ hook = "claude" /\ telemetry

MCNext == \/ part = "files" /\ Next /\ UNCHANGED <<part, clawVars>>
          \/ part = "claw" /\ Claw!Next /\ UNCHANGED <<part, vars>>

(* Processes that never start have nothing to do, so that their fairness   *)
(* asks for nothing; OpenClaw's hooks have none.                           *)
MCSpec == MCInit /\ [][MCNext]_<<part, vars, clawVars>> /\ Fairness

(* The properties of OpenClaw's hooks; the others are HookState's.         *)
ReportsTrue == Claw!ReportsTrue
LostForCause == Claw!LostForCause
=============================================================================
