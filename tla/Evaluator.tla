------------------------------ MODULE Evaluator ------------------------------
(***************************************************************************)
(* The self-hosted evaluator (aurels-evaluator): an HTTP server that asks  *)
(* a model of the operator's about each action.  It works on MaxConcurrent *)
(* requests at most and refuses the others, and it gives the place of a    *)
(* request back when the answer is out, the body or the model fails or is  *)
(* late, or the client has gone.                                           *)
(***************************************************************************)
EXTENDS Integers, FiniteSets

CONSTANTS
    Calls,          \* actions to evaluate, each asked about once
    MaxConcurrent,  \* maxConcurrent
    Listed,         \* the calls whose tool is in allowTools
    Replies         \* what the model may answer

VARIABLES
    request,   \* where each request is
    gone,      \* the requests whose client has closed the connection
    said,      \* what the model answered about each
    answer,    \* the decision sent to the client
    active     \* requests being worked on

evaluatorVars == <<request, gone, said, answer, active>>

(* A model's answer: whether parseAnswer accepts it, what it chose, whether *)
(* its confidence suffices, and whether it asks for a review itself.       *)
Answers == [valid : BOOLEAN, choice : {"allow", "flag", "block"},
            sure : BOOLEAN, review : BOOLEAN]
Silence == [valid |-> FALSE, choice |-> "block", sure |-> FALSE, review |-> FALSE]

EvaluatorAssumption == /\ IsFiniteSet(Calls)
                       /\ MaxConcurrent \in Nat
                       /\ Listed \subseteq Calls
                       /\ Replies \subseteq Answers

Working == {"body", "model"}
Phases == Working \cup {"none", "arrived", "ended"}

Init == /\ request = [c \in Calls |-> "none"]
        /\ gone = {}
        /\ said = [c \in Calls |-> Silence]
        /\ answer = [c \in Calls |-> "none"]
        /\ active = 0

(* A client sends a request, or closes the connection of one.              *)
Ask(c) == /\ request[c] = "none"
          /\ request' = [request EXCEPT ![c] = "arrived"]
          /\ UNCHANGED <<gone, said, answer, active>>

Close(c) == /\ gone' = gone \cup {c}
            /\ UNCHANGED <<request, said, answer, active>>

(* An answer to a client that has gone is not written.                     *)
Respond(c, decision) ==
    /\ request' = [request EXCEPT ![c] = "ended"]
    /\ answer' = [answer EXCEPT ![c] = IF c \in gone THEN "none" ELSE decision]

AdmitMany(c) == /\ request[c] = "arrived"
                /\ IF active > MaxConcurrent
                   THEN Respond(c, "block") /\ UNCHANGED active
                   ELSE /\ request' = [request EXCEPT ![c] = "body"]
                        /\ active' = active + 1
                        /\ UNCHANGED answer
                /\ UNCHANGED <<gone, said>>

(* A server that is full refuses, with a decision and not with an error.   *)
Admit(c) == /\ request[c] = "arrived"
            /\ IF active >= MaxConcurrent
               THEN Respond(c, "block") /\ UNCHANGED active
               ELSE /\ request' = [request EXCEPT ![c] = "body"]
                    /\ active' = active + 1
                    /\ UNCHANGED answer
            /\ UNCHANGED <<gone, said>>

ReadBody(c) == /\ request[c] = "body"
               /\ request' = [request EXCEPT ![c] = "model"]
               /\ UNCHANGED <<gone, said, answer, active>>

(* What follows an answer, a failure and an early return alike.            *)
Finish(c, decision) == Respond(c, decision) /\ active' = active - 1

(* The body is too large, no JSON or no action.                            *)
BodyFails(c) == /\ request[c] = "body"
                /\ Finish(c, "block")
                /\ UNCHANGED <<gone, said>>

(* The model refuses, answers too much, or its time is over; or the client *)
(* has gone, which aborts what is under way.                               *)
ModelFails(c) == /\ request[c] = "model"
                 /\ Finish(c, "block")
                 /\ UNCHANGED <<gone, said>>

(* A body that is not there in ten seconds ends the connection.            *)
BodyLate(c) == /\ request[c] = "body"
               /\ Finish(c, "none")
               /\ UNCHANGED <<gone, said>>

(* An allow that is unsure, wants a review or is about a tool that is not  *)
(* listed becomes a flag.                                                  *)
VerdictUnlisted(c, a) == IF ~a.valid THEN "block"
                         ELSE IF a.choice = "allow" /\ (a.review \/ ~a.sure)
                         THEN "flag" ELSE a.choice

Verdict(c, a) == IF ~a.valid THEN "block"
                 ELSE IF a.choice = "allow" /\ (a.review \/ ~a.sure \/ c \notin Listed)
                 THEN "flag" ELSE a.choice

ModelAnswers(c, a) == /\ request[c] = "model"
                      /\ c \notin gone
                      /\ said' = [said EXCEPT ![c] = a]
                      /\ Finish(c, Verdict(c, a))
                      /\ UNCHANGED gone

Serve(c) == \/ Admit(c) \/ ReadBody(c) \/ BodyFails(c) \/ BodyLate(c)
            \/ ModelFails(c)
            \/ \E a \in Replies : ModelAnswers(c, a)

Next == \E c \in Calls : Ask(c) \/ Close(c) \/ Serve(c)

(* Every stage of a request has a deadline.                                *)
Fairness == \A c \in Calls : WF_evaluatorVars(Serve(c))

Spec == Init /\ [][Next]_evaluatorVars /\ Fairness

-----------------------------------------------------------------------------
TypeOK == /\ request \in [Calls -> Phases]
          /\ gone \subseteq Calls
          /\ said \in [Calls -> Answers]
          /\ answer \in [Calls -> {"none", "allow", "flag", "block"}]
          /\ active \in Int

(* The counter of the server counts the requests that are being worked on, *)
(* whatever ends them, and never more than maxConcurrent of them.          *)
SlotsSound == /\ TypeOK
              /\ active = Cardinality({c \in Calls : request[c] \in Working})
              /\ active <= MaxConcurrent
=============================================================================
