------------------------------ MODULE ToolGate ------------------------------
(***************************************************************************)
(* What every guard of this repository promises about a tool call, with    *)
(* nothing said about policies, permits or transports: the tool runs only  *)
(* after the call was cleared, with exactly the arguments it was cleared   *)
(* for, at most once, and never after the call was refused or withdrawn.   *)
(***************************************************************************)
CONSTANTS
    Calls,     \* tool calls
    Args,      \* arguments a tool can be run with
    NoArgs     \* not cleared, or not run

VARIABLES
    status,    \* status[c] \in {"waiting", "cleared", "refused", "ran"}
    cleared,   \* the arguments each call was cleared for
    used       \* the arguments the tool was run with

gateVars == <<status, cleared, used>>

Init == /\ status = [c \in Calls |-> "waiting"]
        /\ cleared = [c \in Calls |-> NoArgs]
        /\ used = [c \in Calls |-> NoArgs]

Clear(c, a) == /\ status[c] = "waiting"
               /\ status' = [status EXCEPT ![c] = "cleared"]
               /\ cleared' = [cleared EXCEPT ![c] = a]
               /\ UNCHANGED used

(* A refusal, or the withdrawal of a clearance that was not used yet.      *)
Refuse(c) == /\ status[c] \in {"waiting", "cleared"}
             /\ status' = [status EXCEPT ![c] = "refused"]
             /\ cleared' = [cleared EXCEPT ![c] = NoArgs]
             /\ UNCHANGED used

Run(c) == /\ status[c] = "cleared"
          /\ status' = [status EXCEPT ![c] = "ran"]
          /\ used' = [used EXCEPT ![c] = cleared[c]]
          /\ UNCHANGED cleared

Next == \E c \in Calls : \/ \E a \in Args : Clear(c, a)
                         \/ Refuse(c)
                         \/ Run(c)

Spec == Init /\ [][Next]_gateVars
=============================================================================
