------------------------------ MODULE MCRuntime ------------------------------
(***************************************************************************)
(* Two systems of promises and timers in one Node.js process, each on a    *)
(* small instance: the TypeScript guard in front of the hosted service or  *)
(* the self-hosted evaluator (module RuntimeGuard), and the durable queue  *)
(* of the OpenClaw plugin (module OpenClawOutbox).  The initial state      *)
(* chooses one, and the other never starts.                                *)
(***************************************************************************)
EXTENDS RuntimeGuard, TLC

CONSTANTS c1, c2

VARIABLES
    part,
    alive, lock, enqueue, seen, spool, aged, expired, flushing, todo, delivered,
    retries, immediate, timer, up, received, troubles, derelict

queueVars == <<alive, lock, enqueue, seen, spool, aged, expired, flushing, todo,
               delivered, retries, immediate, timer, up, received, troubles, derelict>>

(* A model that is sure of itself, unsure, or wrong.  Calls meet in the    *)
(* evaluator only, so that with the hosted service one of the two calls is *)
(* intercepted and the other is not.                                       *)
Model == {[valid |-> TRUE, choice |-> "allow", sure |-> TRUE, review |-> FALSE],
          [valid |-> TRUE, choice |-> "allow", sure |-> FALSE, review |-> FALSE],
          [valid |-> FALSE, choice |-> "block", sure |-> FALSE, review |-> FALSE]}
BothOrOne == {{c1, c2}, {c1}}

(* Three events, the second of which an earlier process left and the       *)
(* service refuses; room for two and one in a batch.                       *)
Queue == INSTANCE OpenClawOutbox
         WITH Events <- 1..3, Batch <- 1, MaxEvents <- 2, Perishable <- {1, 2},
              MaxRetries <- 2, MaxTroubles <- 1, Refused <- {2}, Left <- {2}

ASSUME RuntimeAssumption /\ Queue!OutboxAssumption

MCInit == /\ Init
          /\ Queue!Init
          /\ \/ part = "guard" /\ intercepted = IF service = "self" THEN {c1, c2} ELSE {c1}
             \/ part = "queue" /\ service = "hosted" /\ mode = "wrapper" /\ ~failOpen
                               /\ intercepted = {c1}

MCNext == \/ part = "guard" /\ Next /\ UNCHANGED <<part, queueVars>>
          \/ part = "queue" /\ Queue!Next /\ UNCHANGED <<part, vars>>

(* A part that never starts has nothing to do, so that its fairness asks   *)
(* for nothing.                                                            *)
MCSpec == MCInit /\ [][MCNext]_<<part, vars, queueVars>> /\ Fairness /\ Queue!Fairness

(* The properties of the queue; those of the guard are RuntimeGuard's.     *)
Accounted == Queue!Accounted
FailsForCause == Queue!FailsForCause
Drains == Queue!Drains
=============================================================================
