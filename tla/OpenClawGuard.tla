---------------------------- MODULE OpenClawGuard ----------------------------
(***************************************************************************)
(* The guard of the OpenClaw plugin (security.js): the handlers of         *)
(* before_tool_call, after_tool_call and agent_end, the map from call ids  *)
(* to traces with a timer for each entry, and the recent actions of each   *)
(* session.  One step runs from one await to the next.  With the durable   *)
(* queue the handlers wait for an enqueue, module OpenClawOutbox, before   *)
(* they go on.                                                             *)
(*                                                                         *)
(* The host asks the user, runs the tool with the arguments it froze,      *)
(* and may not call after_tool_call.  It may give an id to a later call.   *)
(***************************************************************************)
EXTENDS Naturals, Sequences, FiniteSets, SequencesExt, Subsequences

CONSTANTS
    Calls,       \* tool calls
    NoCall,      \* no trace
    IdOf,        \* toolCallId of each; two may share one, one after the other
    SessionOf,   \* the session each belongs to
    Replies,     \* what the local rules or the policy may say of each
    MaxPending,  \* MAX_PENDING_TRACES, 1000
    MaxRuns,     \* MAX_RETROSPECTIVE_RUNS, 128
    MaxActions   \* MAX_RETROSPECTIVE_ACTIONS, 20

VARIABLES
    remote,      \* mode is remote and there is an API key; reports are sent
    durable,     \* telemetryDurable
    approvals,   \* requireApprovalSupported
    phase,       \* where each call is
    decision,    \* what was said of it
    traceByCall, \* the map of that name: the calls whose entries it has, in its order
    timers,      \* the calls whose entry has a timer
    reports,     \* what was handed to report
    ran,         \* the calls the host has run
    runs,        \* retrospectiveByRun: its sessions, in its order
    actions,     \* the actions of each
    old,         \* the sessions without an action for an hour
    reviewed     \* the actions given to the model

config == <<remote, durable, approvals>>
traceVars == <<traceByCall, timers>>
runVars == <<runs, actions, old, reviewed>>
guardVars == <<config, phase, decision, traceVars, reports, ran, runVars>>

Decisions == {"local", "allow", "flag", "block", "limit", "error"}
Phases == {"new", "evaluating", "reporting", "blocked", "asked", "running",
           "closing", "over"}
Sessions == {SessionOf[c] : c \in Calls}

GuardAssumption == /\ NoCall \notin Calls
                   /\ IsFiniteSet(Calls)
                   /\ DOMAIN IdOf = Calls
                   /\ DOMAIN SessionOf = Calls
                   /\ Replies \in [Calls -> SUBSET Decisions]
                   /\ MaxPending \in Nat \ {0}
                   /\ MaxRuns \in Nat \ {0}
                   /\ MaxActions \in Nat \ {0}

Init == /\ remote \in BOOLEAN
        /\ durable \in {FALSE, remote}
        /\ approvals \in BOOLEAN
        /\ phase = [c \in Calls |-> "new"]
        /\ decision = [c \in Calls |-> "none"]
        /\ traceByCall = <<>> /\ timers = {}
        /\ reports = {} /\ ran = {}
        /\ runs = <<>> /\ actions = [s \in Sessions |-> <<>>] /\ old = {}
        /\ reviewed = {}

At(c, p) == phase[c] = p
Goto(c, p) == phase' = [phase EXCEPT ![c] = p]
Says(c, d) == decision' = [decision EXCEPT ![c] = d]

Same(c) == {d \in Calls : IdOf[d] = IdOf[c]}
Held == Range(traceByCall)

(* traceByCall.get(IdOf[c])                                                *)
Trace(c) == IF Held \cap Same(c) = {} THEN NoCall
            ELSE CHOOSE d \in Held : d \in Same(c)

Forget(c) == traceByCall' = Keep(traceByCall, Calls \ Same(c))

(* sendReport: nothing in local mode.                                      *)
Report(c, status, trace) ==
    reports' = IF remote
               THEN reports \cup {[call |-> c, status |-> status, trace |-> trace]}
               ELSE reports

-----------------------------------------------------------------------------
(* before_tool_call.                                                       *)

(* The host uses an id again only when the call that had it is over; its   *)
(* after_tool_call may still be at work.                                   *)
Begin(c) == /\ At(c, "new")
            /\ \A d \in Same(c) : phase[d] \in {"new", "blocked", "closing", "over"}

Refuse(c, trace) == /\ Report(c, "blocked", trace)
                    /\ Goto(c, IF durable THEN "reporting" ELSE "blocked")

(* Bug: a flagged call is reported blocked before the user is asked.       *)
FlaggedTwice(c, trace) == IF approvals
                          THEN Goto(c, "asked") /\ Report(c, "blocked", trace)
                          ELSE Refuse(c, trace)

(* A host that cannot ask blocks.                                          *)
Flagged(c, trace) == IF approvals THEN Goto(c, "asked") /\ UNCHANGED reports
                     ELSE Refuse(c, trace)

(* The local rules block the call, or it is not for the policy to decide.  *)
Local(c) == /\ Begin(c)
            /\ \/ "local" \in Replies[c] /\ Says(c, "local") /\ Refuse(c, NoCall)
               \/ ~remote /\ Says(c, "none") /\ Flagged(c, NoCall)
            /\ UNCHANGED <<config, traceVars, ran, runVars>>

Ask(c) == /\ Begin(c)
          /\ remote
          /\ Goto(c, "evaluating")
          /\ UNCHANGED <<config, decision, traceVars, reports, ran, runVars>>

(* rememberTrace: an id that is there keeps its place, and otherwise the   *)
(* oldest makes room.                                                      *)
Remember(c) ==
    /\ traceByCall' = IF Held \cap Same(c) # {} THEN ReplaceAll(traceByCall, Trace(c), c)
                      ELSE IF Len(traceByCall) >= MaxPending
                      THEN Append(Tail(traceByCall), c)
                      ELSE Append(traceByCall, c)
    /\ timers' = timers \cup {c}

(* Only an allow is remembered.  The user is asked about it all the same.  *)
Allowed(c) == Says(c, "allow") /\ Remember(c) /\ Flagged(c, c)

Judged(c) == /\ UNCHANGED traceVars
             /\ \/ Says(c, "flag") /\ Flagged(c, c)
                \/ Says(c, "block") /\ Refuse(c, c)
                \/ Says(c, "limit") /\ Goto(c, "blocked") /\ UNCHANGED reports
                \/ Says(c, "error") /\ Flagged(c, NoCall)

Decide(c) == /\ At(c, "evaluating")
             /\ Allowed(c) \/ Judged(c)
             /\ decision'[c] \in Replies[c]
             /\ UNCHANGED <<config, ran, runVars>>

(* The event was enqueued, or could not be.                                *)
Saved(c) == /\ At(c, "reporting")
            /\ Goto(c, "blocked")
            /\ UNCHANGED <<config, decision, traceVars, reports, ran, runVars>>

(* The user answers, or the approval is cancelled or late.                 *)
AllowOnce(c) == /\ At(c, "asked")
                /\ Goto(c, "running")
                /\ ran' = ran \cup {c}
                /\ UNCHANGED <<config, decision, traceVars, reports, runVars>>

Decline(c) == /\ At(c, "asked")
              /\ Goto(c, "blocked")
              /\ Report(c, "blocked", IF decision[c] \in {"allow", "flag"} THEN c ELSE NoCall)
              /\ UNCHANGED <<config, decision, traceVars, ran, runVars>>

-----------------------------------------------------------------------------
(* after_tool_call, and the actions of a session.                          *)

(* rememberRetrospectiveAction.                                            *)
RememberAction(c) ==
    LET s == SessionOf[c]
        fresh == Keep(runs, Sessions \ old)
        room == IF Len(fresh) >= MaxRuns THEN Tail(fresh) ELSE fresh
        known == s \in Range(fresh)
        list == Append(IF known THEN actions[s] ELSE <<>>, c)
    IN  /\ runs' = IF known THEN fresh ELSE Append(room, s)
        /\ actions' = [r \in Sessions |->
                         IF r = s THEN IF Len(list) > MaxActions THEN Tail(list) ELSE list
                         ELSE IF r \in Range(runs') THEN actions[r] ELSE <<>>]
        /\ old' = {}
        /\ UNCHANGED reviewed

(* The end of the handler: whatever entry the id has now is removed.       *)
Finish(c) == Goto(c, "over") /\ Forget(c) /\ RememberAction(c)

(* The report carries the trace the id has when the handler is called.     *)
After(c) == /\ At(c, "running")
            /\ Report(c, "ran", Trace(c))
            /\ IF durable THEN Goto(c, "closing") /\ UNCHANGED <<traceByCall, runVars>>
               ELSE Finish(c)
            /\ UNCHANGED <<config, decision, timers, ran>>

Close(c) == /\ At(c, "closing")
            /\ Finish(c)
            /\ UNCHANGED <<config, decision, timers, reports, ran>>

(* The host does not call after_tool_call.                                 *)
Omit(c) == /\ At(c, "running")
           /\ Goto(c, "over")
           /\ UNCHANGED <<config, decision, traceVars, reports, ran, runVars>>

(* Bug: the timer of an entry removes whatever entry the id has now.       *)
TimerAny(c) == /\ c \in timers
               /\ timers' = timers \ {c}
               /\ Forget(c)
               /\ UNCHANGED <<config, phase, decision, reports, ran, runVars>>

(* Ten minutes after an entry was made it is removed, if it is still there. *)
Timer(c) == /\ c \in timers
            /\ timers' = timers \ {c}
            /\ traceByCall' = Keep(traceByCall, Calls \ {c})
            /\ UNCHANGED <<config, phase, decision, reports, ran, runVars>>

(* agent_end takes the session and gives its actions to the model.         *)
AgentEnd(s) == /\ runs' = Keep(runs, Sessions \ {s})
               /\ actions' = [actions EXCEPT ![s] = <<>>]
               /\ old' = old \ {s}
               /\ reviewed' = reviewed \cup Range(actions[s])
               /\ UNCHANGED <<config, phase, decision, traceVars, reports, ran>>

(* An hour passes.                                                         *)
Age(s) == /\ s \in Range(runs)
          /\ old' = old \cup {s}
          /\ UNCHANGED <<config, phase, decision, traceVars, reports, ran,
                         runs, actions, reviewed>>

Next == \/ \E c \in Calls : \/ Local(c) \/ Ask(c) \/ Decide(c) \/ Saved(c)
                            \/ AllowOnce(c) \/ Decline(c)
                            \/ After(c) \/ Close(c) \/ Omit(c) \/ Timer(c)
        \/ \E s \in Sessions : AgentEnd(s) \/ Age(s)

Spec == Init /\ [][Next]_guardVars

-----------------------------------------------------------------------------
TypeOK ==
    /\ <<remote, durable, approvals>> \in BOOLEAN \X BOOLEAN \X BOOLEAN
    /\ phase \in [Calls -> Phases]
    /\ decision \in [Calls -> Decisions \cup {"none"}]
    /\ traceByCall \in Seq(Calls) /\ timers \subseteq Calls
    /\ reports \subseteq [call : Calls, status : {"blocked", "ran"},
                          trace : Calls \cup {NoCall}]
    /\ ran \subseteq Calls
    /\ runs \in Seq(Sessions) /\ actions \in [Sessions -> Seq(Calls)]
    /\ old \subseteq Sessions /\ reviewed \subseteq Calls

(* A call has one report at most; one reported blocked never ran and is    *)
(* not going to, whoever asks, answers or waits in between; and a report   *)
(* carries the trace of its own call, or none.  The one exception is an id *)
(* that is used again: the policy allowed the earlier call, the user or    *)
(* the host let it go without after_tool_call, and the later call, which   *)
(* the policy did not allow, is reported with the trace left over.         *)
ReportsTrue ==
    /\ TypeOK
    /\ \A r \in reports :
          /\ \A q \in reports : q.call = r.call => q = r
          /\ IF r.status = "blocked"
             THEN r.call \notin ran /\ phase[r.call] \in {"reporting", "blocked"}
             ELSE r.call \in ran
          /\ \/ r.trace \in {NoCall, r.call}
             \/ /\ r.status = "ran" /\ r.trace \in Same(r.call)
                /\ decision[r.call] # "allow" /\ decision[r.trace] = "allow"

(* The maps keep to their caps, and what they hold is lost for a cause: a  *)
(* trace to its own timer, a call with its id, or the cap; an action to    *)
(* agent_end, an hour without another, or a cap.                           *)
LostForCause ==
    [][/\ Len(traceByCall') <= MaxPending /\ Len(runs') <= MaxRuns
       /\ \A c \in Held \ Range(traceByCall') :
             \/ c \in timers \ timers'
             \/ \E d \in Same(c) : phase[d] \in {"evaluating", "running", "closing"}
                                   /\ phase'[d] # phase[d]
             \/ /\ Len(traceByCall) = MaxPending /\ c = Head(traceByCall)
                /\ \E d \in Calls : At(d, "evaluating") /\ phase'[d] # phase[d]
       /\ \A s \in Sessions : \A c \in Range(actions[s]) \ Range(actions'[s]) :
             \/ c \in reviewed' \/ s \in old
             \/ /\ \/ Len(actions[s]) = MaxActions /\ c = Head(actions[s])
                   \/ Len(runs) = MaxRuns /\ s = Head(runs)
                /\ \E d \in Calls : phase[d] # "over" /\ phase'[d] = "over"]_guardVars
=============================================================================
