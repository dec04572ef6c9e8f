------------------------------ MODULE McpProxy ------------------------------
(***************************************************************************)
(* The stdio proxy that stands between an MCP host and an MCP server       *)
(* (aurel-mcp-proxy.mjs): it asks the policy service before it forwards a  *)
(* tools/call, correlates the server's answers with the calls it let pass, *)
(* forwards cancellations, reports outcomes and shuts down.                *)
(*                                                                         *)
(* An action is what runs between two awaits.  Frames that are not         *)
(* tools/call, cancellations or answers to a call pass through and are     *)
(* left out, except the server's own requests, whose ids may collide.      *)
(***************************************************************************)
EXTENDS Naturals, FiniteSets

CONSTANTS
    Calls,       \* tools/call requests the host may send
    Ids,         \* JSON-RPC request ids
    CallId,      \* the id of each call; the host may reuse one
    Guarded,     \* calls of tools that are intercepted (AUREL_TOOLS_INCLUDE)
    PolicySays,  \* the answers the policy service may give to each call
    Privileged,  \* calls that stay blocked in an outage of a fail-open proxy
    ServerIds,   \* ids the server uses for requests of its own
    MaxPending,  \* MAX_PENDING_CALLS
    FailOpen,    \* AUREL_FAIL_MODE = open
    UsePermits,  \* AURELS_MCP_EXECUTION_PERMITS
    None         \* no call, no answer, no arguments

Answers == {"allow", "rewrite", "approval", "block",
            "unsupported", "unreadable", "outage"}
Args == {"original", "rewritten"}

ASSUME ProxyAssumption == /\ CallId \in [Calls -> Ids]
                          /\ Guarded \subseteq Calls
                          /\ PolicySays \in [Calls -> SUBSET Answers]
                          /\ Privileged \subseteq Calls
                          /\ ServerIds \subseteq Ids
                          /\ MaxPending \in Nat \ {0}
                          /\ FailOpen \in BOOLEAN
                          /\ UsePermits \in BOOLEAN
                          /\ None \notin Calls \cup Answers \cup Args

VARIABLES
    stage,       \* where the handler of each call is
    answer,      \* what the policy service answered
    permit,      \* what the verification of the execution permit answered
    aborted,     \* calls whose AbortController was aborted
    evaluating,  \* the map of that name: id -> call
    pending,     \* the map of that name: id -> call
    forwarded,   \* the arguments a call was written to the server with
    atServer,    \* calls the server has not answered
    fromServer,  \* answers in the server's stdout: <<call, outcome>>
    replies,     \* how many answers the host got to each call
    cancels,     \* ids of cancellations written to the server
    reported,    \* outcomes handed to telemetry: <<call, status>>
    inFlight,    \* telemetryInFlight
    awaited,     \* the part of it that the exit waits for
    hostOpen,    \* the host's side of stdin is open
    server,      \* "open", "ended" (its stdin was closed), "exited"
    proxy,       \* "running", "closing" (awaiting inFlight), "exited"
    lapsed       \* history: calls whose correlation expired unanswered

policyVars == <<stage, answer, permit, aborted>>
mapVars == <<evaluating, pending>>
pipeVars == <<forwarded, atServer, fromServer, replies, cancels>>
reportVars == <<reported, inFlight, awaited>>
lifeVars == <<hostOpen, server, proxy>>
vars == <<policyVars, mapVars, pipeVars, reportVars, lifeVars, lapsed>>

Stages == {"new", "policy", "permit", "judged", "done", "settled"}
Statuses == {"success", "failure", "blocked", "approval_requested"}

TypeOK ==
    /\ stage \in [Calls -> Stages]
    /\ answer \in [Calls -> Answers \cup {None}]
    /\ permit \in [Calls -> {None, "valid", "invalid", "unreadable"}]
    /\ aborted \subseteq Calls
    /\ evaluating \in [Ids -> Calls \cup {None}]
    /\ pending \in [Ids -> Calls \cup {None}]
    /\ forwarded \in [Calls -> Args \cup {None}]
    /\ atServer \subseteq Calls
    /\ fromServer \subseteq Calls \X {"success", "failure"}
    /\ replies \in [Calls -> 0..1]
    /\ cancels \subseteq Ids
    /\ reported \subseteq Calls \X Statuses
    /\ awaited \subseteq Calls /\ inFlight \subseteq Calls
    /\ hostOpen \in BOOLEAN
    /\ server \in {"open", "ended", "exited"}
    /\ proxy \in {"running", "closing", "exited"}
    /\ lapsed \subseteq Calls

Init ==
    /\ stage = [c \in Calls |-> "new"]
    /\ answer = [c \in Calls |-> None]
    /\ permit = [c \in Calls |-> None]
    /\ aborted = {}
    /\ evaluating = [i \in Ids |-> None]
    /\ pending = [i \in Ids |-> None]
    /\ forwarded = [c \in Calls |-> None]
    /\ atServer = {} /\ fromServer = {}
    /\ replies = [c \in Calls |-> 0]
    /\ cancels = {}
    /\ reported = {} /\ inFlight = {} /\ awaited = {}
    /\ hostOpen = TRUE /\ server = "open" /\ proxy = "running"
    /\ lapsed = {}

At(c, s) == stage[c] = s
Goto(c, s) == stage' = [stage EXCEPT ![c] = s]
Reply(c) == replies' = [replies EXCEPT ![c] = @ + 1]
Tracked == {i \in Ids : evaluating[i] # None \/ pending[i] # None}

(* writeMcp(upstream.stdin): what is written to a dead server is lost.     *)
Write(c, args) ==
    /\ forwarded' = [forwarded EXCEPT ![c] = args]
    /\ atServer' = IF server = "exited" THEN atServer ELSE atServer \cup {c}

(* trackTelemetry(sendOutcome(...)).                                       *)
Track(c, status) == /\ reported' = reported \cup {<<c, status>>}
                    /\ inFlight' = inFlight \cup {c}

-----------------------------------------------------------------------------
(* Frames from the host.                                                   *)

Listening == proxy # "exited" /\ hostOpen

(* A malformed call, one whose id is in use, one too many, or one that is  *)
(* not intercepted and cannot be written to the server, for which the      *)
(* .catch of its evaluation answers.  (An intercepted call is taken to be  *)
(* writable: all else that can throw is inside a try of the evaluation.)   *)
Reject(c) ==
    /\ Listening /\ At(c, "new")
    /\ Goto(c, "settled")
    /\ Reply(c)
    /\ UNCHANGED <<answer, permit, aborted, mapVars, forwarded, atServer,
                   fromServer, cancels, reportVars, lifeVars, lapsed>>

Refusable(c) == CallId[c] \in Tracked \/ Cardinality(Tracked) >= MaxPending

(* Bug: calls that wait for the server's answer are not counted.           *)
AcceptUnbounded(c) ==
    /\ Listening /\ At(c, "new")
    /\ ~(CallId[c] \in Tracked)
    /\ Cardinality({i \in Ids : evaluating[i] # None}) < MaxPending
    /\ evaluating' = [evaluating EXCEPT ![CallId[c]] = c]
    /\ IF c \in Guarded
       THEN Goto(c, "policy") /\ UNCHANGED <<forwarded, atServer>>
       ELSE Goto(c, "done") /\ Write(c, "original")
    /\ UNCHANGED <<answer, permit, aborted, pending, fromServer, replies,
                   cancels, reportVars, lifeVars, lapsed>>

(* Bug: an id is only compared with those under evaluation.                *)
AcceptPendingId(c) ==
    /\ Listening /\ At(c, "new")
    /\ evaluating[CallId[c]] = None
    /\ Cardinality(Tracked) < MaxPending \/ CallId[c] \in Tracked
    /\ evaluating' = [evaluating EXCEPT ![CallId[c]] = c]
    /\ IF c \in Guarded
       THEN Goto(c, "policy") /\ UNCHANGED <<forwarded, atServer>>
       ELSE Goto(c, "done") /\ Write(c, "original")
    /\ UNCHANGED <<answer, permit, aborted, pending, fromServer, replies,
                   cancels, reportVars, lifeVars, lapsed>>

(* A call is accepted: handleHostMessage runs up to its first await, which *)
(* for a tool that is not intercepted is past the forwarding.              *)
Accept(c) ==
    /\ Listening /\ At(c, "new")
    /\ ~Refusable(c)
    /\ evaluating' = [evaluating EXCEPT ![CallId[c]] = c]
    /\ IF c \in Guarded
       THEN Goto(c, "policy") /\ UNCHANGED <<forwarded, atServer>>
       ELSE Goto(c, "done") /\ Write(c, "original")
    /\ UNCHANGED <<answer, permit, aborted, pending, fromServer, replies,
                   cancels, reportVars, lifeVars, lapsed>>

(* Bug: a cancellation is for calls under evaluation only.                 *)
CancelEvaluating(i) ==
    /\ Listening
    /\ aborted' = aborted \cup ({evaluating[i]} \ {None})
    /\ UNCHANGED <<stage, answer, permit, mapVars, pipeVars, reportVars,
                   lifeVars, lapsed>>

(* notifications/cancelled.                                                *)
Cancel(i) ==
    /\ Listening
    /\ aborted' = aborted \cup ({evaluating[i]} \ {None})
    /\ cancels' = IF pending[i] # None THEN cancels \cup {i} ELSE cancels
    /\ UNCHANGED <<stage, answer, permit, mapVars, forwarded, atServer,
                   fromServer, replies, reportVars, lifeVars, lapsed>>

-----------------------------------------------------------------------------
(* handleHostMessage of an intercepted call.                               *)

(* The policy service answers, or the request fails, times out or is       *)
(* aborted ("outage").  With permits an allowed call comes with one        *)
(* ("allow"), or is an answer of no use ("unsupported").                   *)
Judge(c, a) ==
    /\ proxy # "exited"
    /\ At(c, "policy")
    /\ answer' = [answer EXCEPT ![c] = a]
    /\ Goto(c, IF UsePermits /\ a = "allow" THEN "permit" ELSE "judged")
    /\ UNCHANGED <<permit, aborted, mapVars, pipeVars, reportVars, lifeVars, lapsed>>

Verify(c, v) ==
    /\ proxy # "exited"
    /\ At(c, "permit")
    /\ permit' = [permit EXCEPT ![c] = v]
    /\ Goto(c, "judged")
    /\ UNCHANGED <<answer, aborted, mapVars, pipeVars, reportVars, lifeVars, lapsed>>

(* What the try block of handleHostMessage yields: a decision, an          *)
(* ExactActionPayloadError ("exact"), or any other error ("plain").        *)
PermitResult(c) ==
    CASE answer[c] \in {"block", "approval"} -> answer[c]
      [] answer[c] = "allow" /\ permit[c] = "valid" -> "allow"
      [] answer[c] = "unreadable" \/ permit[c] = "unreadable" -> "exact"
      [] OTHER -> "plain"

(* Bug: only unreadable JSON counts as a violation of the protocol.        *)
PolicyResultLenient(c) ==
    CASE answer[c] = "unreadable" -> "exact"
      [] answer[c] \in {"outage", "unsupported"} -> "plain"
      [] OTHER -> answer[c]

PolicyResult(c) ==
    CASE answer[c] \in {"unsupported", "unreadable"} -> "exact"
      [] answer[c] = "outage" -> "plain"
      [] OTHER -> answer[c]

Result(c) == IF UsePermits THEN PermitResult(c) ELSE PolicyResult(c)

Passes(c) == \/ Result(c) \in {"allow", "rewrite"}
             \/ Result(c) = "plain" /\ FailOpen /\ c \notin Privileged

ClearedArgs(c) == IF Result(c) = "rewrite" THEN "rewritten" ELSE "original"

(* The host withdrew the call: no answer, no forwarding.                   *)
Drop(c) ==
    /\ proxy # "exited"
    /\ At(c, "judged") /\ c \in aborted
    /\ Goto(c, "done")
    /\ UNCHANGED <<answer, permit, aborted, mapVars, pipeVars, reportVars,
                   lifeVars, lapsed>>

(* Bug: the original message is forwarded in place of the rewritten one.   *)
ForwardOriginal(c) ==
    /\ proxy # "exited"
    /\ At(c, "judged") /\ c \notin aborted
    /\ Passes(c)
    /\ pending' = [pending EXCEPT ![CallId[c]] = c]
    /\ Write(c, "original")
    /\ Goto(c, "done")
    /\ UNCHANGED <<answer, permit, aborted, evaluating, fromServer, replies,
                   cancels, reportVars, lifeVars, lapsed>>

(* Bug: the handler goes on to the refusal after it has forwarded.         *)
ForwardUnreturned(c) ==
    /\ proxy # "exited"
    /\ At(c, "judged") /\ c \notin aborted
    /\ Passes(c)
    /\ pending' = [pending EXCEPT ![CallId[c]] = c]
    /\ Write(c, ClearedArgs(c))
    /\ Track(c, "blocked")
    /\ Goto(c, "done")
    /\ UNCHANGED <<answer, permit, aborted, evaluating, fromServer, replies,
                   cancels, awaited, lifeVars, lapsed>>

(* setPending, which replaces an older entry, and the forwarding.          *)
Forward(c) ==
    /\ proxy # "exited"
    /\ At(c, "judged") /\ c \notin aborted
    /\ Passes(c)
    /\ pending' = [pending EXCEPT ![CallId[c]] = c]
    /\ Write(c, ClearedArgs(c))
    /\ Goto(c, "done")
    /\ UNCHANGED <<answer, permit, aborted, evaluating, fromServer, replies,
                   cancels, reportVars, lifeVars, lapsed>>

(* Bug: a blocked call is reported and the host is left without an answer. *)
RefuseSilently(c) ==
    /\ proxy # "exited"
    /\ At(c, "judged") /\ c \notin aborted
    /\ ~Passes(c)
    /\ IF Result(c) \in {"exact", "plain"}
       THEN UNCHANGED <<reported, inFlight>> /\ Reply(c)
       ELSE /\ Track(c, IF Result(c) = "approval" THEN "approval_requested" ELSE "blocked")
            /\ UNCHANGED replies
    /\ Goto(c, "done")
    /\ UNCHANGED <<answer, permit, aborted, mapVars, forwarded, atServer,
                   fromServer, cancels, awaited, lifeVars, lapsed>>

(* An error goes to the host; a decision is reported too.                  *)
Refuse(c) ==
    /\ proxy # "exited"
    /\ At(c, "judged") /\ c \notin aborted
    /\ ~Passes(c)
    /\ IF Result(c) \in {"exact", "plain"}
       THEN UNCHANGED <<reported, inFlight>>
       ELSE Track(c, IF Result(c) = "approval" THEN "approval_requested" ELSE "blocked")
    /\ Reply(c)
    /\ Goto(c, "done")
    /\ UNCHANGED <<answer, permit, aborted, mapVars, forwarded, atServer,
                   fromServer, cancels, awaited, lifeVars, lapsed>>

(* .finally(() => evaluating.delete(id)).                                  *)
Settle(c) ==
    /\ proxy # "exited"
    /\ At(c, "done")
    /\ Goto(c, "settled")
    /\ evaluating' = [evaluating EXCEPT ![CallId[c]] = None]
    /\ UNCHANGED <<answer, permit, aborted, pending, pipeVars, reportVars,
                   lifeVars, lapsed>>

-----------------------------------------------------------------------------
(* Frames from the server, and telemetry.                                  *)

(* takePending(id), and the outcome of the call it finds.                  *)
TakePending(i, status) ==
    /\ pending' = [pending EXCEPT ![i] = None]
    /\ IF pending[i] = None
       THEN UNCHANGED <<reported, inFlight>>
       ELSE Track(pending[i], status)

(* An answer to c reaches the proxy and goes on to the host.               *)
Relay(c, status) ==
    /\ proxy # "exited"
    /\ <<c, status>> \in fromServer
    /\ fromServer' = fromServer \ {<<c, status>>}
    /\ TakePending(CallId[c], status)
    /\ Reply(c)
    /\ UNCHANGED <<policyVars, evaluating, forwarded, atServer, cancels,
                   awaited, lifeVars, lapsed>>

(* A request of the server's own takes whatever is pending under its id.   *)
ServerRequest(i) ==
    /\ proxy # "exited" /\ server # "exited"
    /\ i \in ServerIds /\ pending[i] # None
    /\ TakePending(i, "success")
    /\ UNCHANGED <<policyVars, evaluating, pipeVars, awaited, lifeVars, lapsed>>

(* PENDING_TTL_MS pass without an answer.                                  *)
Lapse(i) ==
    /\ proxy # "exited"
    /\ pending[i] # None
    /\ pending' = [pending EXCEPT ![i] = None]
    /\ lapsed' = lapsed \cup {pending[i]}
    /\ UNCHANGED <<policyVars, evaluating, pipeVars, reportVars, lifeVars>>

(* Bug: telemetry that fails during the shutdown is retried without end.   *)
TelemetryUnlimited(c) ==
    /\ proxy # "exited"
    /\ c \in inFlight
    /\ server # "exited"
    /\ inFlight' = inFlight \ {c}
    /\ awaited' = awaited \ {c}
    /\ UNCHANGED <<policyVars, mapVars, pipeVars, reported, lifeVars, lapsed>>

(* The last of the attempts of retryTelemetry has ended.                   *)
TelemetrySettles(c) ==
    /\ proxy # "exited"
    /\ c \in inFlight
    /\ inFlight' = inFlight \ {c}
    /\ awaited' = awaited \ {c}
    /\ UNCHANGED <<policyVars, mapVars, pipeVars, reported, lifeVars, lapsed>>

-----------------------------------------------------------------------------
(* The server and the shutdown.                                            *)

ServerAnswers(c, status) ==
    /\ server # "exited" /\ c \in atServer
    /\ atServer' = atServer \ {c}
    /\ fromServer' = fromServer \cup {<<c, status>>}
    /\ UNCHANGED <<policyVars, mapVars, forwarded, replies, cancels, reportVars,
                   lifeVars, lapsed>>

HostCloses ==
    /\ Listening
    /\ hostOpen' = FALSE
    /\ UNCHANGED <<policyVars, mapVars, pipeVars, reportVars, server, proxy, lapsed>>

(* Once stdin has ended and the evaluations it waits for are settled.      *)
EndServer ==
    /\ proxy # "exited"
    /\ ~hostOpen /\ server = "open"
    /\ \A i \in Ids : evaluating[i] = None
    /\ server' = "ended"
    /\ UNCHANGED <<policyVars, mapVars, pipeVars, reportVars, hostOpen, proxy, lapsed>>

(* The server exits by itself, at the end of its stdin, or killed by a     *)
(* signal or 3 s after the host closed.                                    *)
ServerExits ==
    /\ server # "exited"
    /\ server' = "exited"
    /\ atServer' = {}
    /\ UNCHANGED <<policyVars, mapVars, forwarded, fromServer, replies, cancels,
                   reportVars, hostOpen, proxy, lapsed>>

(* Bug: what the server wrote before it exited is not waited for.          *)
CloseEarly ==
    /\ proxy = "running" /\ server = "exited"
    /\ proxy' = "closing"
    /\ awaited' = inFlight
    /\ UNCHANGED <<policyVars, mapVars, pipeVars, reported, inFlight, hostOpen,
                   server, lapsed>>

(* upstream's close handler: the pump is done, the outcomes are awaited.   *)
Close ==
    /\ proxy = "running" /\ server = "exited"
    /\ fromServer = {}
    /\ proxy' = "closing"
    /\ awaited' = inFlight
    /\ UNCHANGED <<policyVars, mapVars, pipeVars, reported, inFlight, hostOpen,
                   server, lapsed>>

Exit ==
    /\ proxy = "closing" /\ awaited = {}
    /\ proxy' = "exited"
    /\ UNCHANGED <<policyVars, mapVars, pipeVars, reportVars, hostOpen, server, lapsed>>

Handle(c) == \/ \E a \in PolicySays[c] : Judge(c, a)
             \/ \E v \in {"valid", "invalid", "unreadable"} : Verify(c, v)
             \/ Drop(c) \/ Forward(c) \/ Refuse(c) \/ Settle(c)

Next ==
    \/ \E c \in Calls : Reject(c) \/ Accept(c) \/ Handle(c) \/ TelemetrySettles(c)
    \/ \E c \in Calls, s \in {"success", "failure"} : Relay(c, s) \/ ServerAnswers(c, s)
    \/ \E i \in Ids : Cancel(i) \/ ServerRequest(i) \/ Lapse(i)
    \/ HostCloses \/ EndServer \/ ServerExits \/ Close \/ Exit

Spec == Init /\ [][Next]_vars

(* Policy and telemetry requests end by their timeouts, what the server    *)
(* wrote is read, the proxy closes and exits, and a server whose host has  *)
(* gone is killed.  The server need not answer.                            *)
FairSpec ==
    /\ Spec
    /\ \A c \in Calls : /\ WF_vars(Handle(c))
                        /\ WF_vars(TelemetrySettles(c))
                        /\ WF_vars(\E s \in {"success", "failure"} : Relay(c, s))
    /\ WF_vars(Close) /\ WF_vars(Exit)
    /\ WF_vars(~hostOpen /\ ServerExits)

-----------------------------------------------------------------------------
(* An id the proxy cannot attribute: a request of the server's own may     *)
(* carry it, or a call that it forwarded without keeping track of it.      *)
Ambiguous(i) == \/ i \in ServerIds
                \/ \E c \in Calls : CallId[c] = i /\ c \in lapsed \cup (Calls \ Guarded)

(* README "bounds active policy checks and outstanding tool calls": calls  *)
(* the proxy tracks, evaluating or pending, stay within the cap although   *)
(* one leaves evaluating after it has entered pending; and two unanswered  *)
(* calls at the server never share an id, so that its answers can be told  *)
(* apart (61-64), unless the id is ambiguous.                              *)
Bounded ==
    /\ TypeOK
    /\ Cardinality(Tracked) <= MaxPending
    /\ \A c, d \in atServer : CallId[c] = CallId[d] /\ c # d => Ambiguous(CallId[c])

(* An outcome of an execution is reported of a call only after the server  *)
(* answered that call, unless its id is ambiguous.                         *)
OutcomeTrue ==
    \A c \in Calls : <<c, "success">> \in reported \/ <<c, "failure">> \in reported
        => \/ forwarded[c] # None /\ c \notin atServer
           \/ Ambiguous(CallId[c])

(* A call has one reported outcome: no answer and no refusal is reported   *)
(* twice, or a refusal next to an execution.                               *)
OneOutcome == \A c \in Calls : Cardinality({s \in Statuses : <<c, s>> \in reported}) <= 1

(* When the proxy exits, nothing it still owes telemetry is the outcome of *)
(* a call that the server answered (214-217).                              *)
OutcomesSettled ==
    proxy = "exited" => fromServer = {} /\ \A c \in inFlight : forwarded[c] = None

(* mcp/README.md:46, "cancellation after dispatch is forwarded upstream".  *)
Dispatched(i) == \E c \in atServer : CallId[c] = i
CancelReaches == [][\A i \in Ids : Cancel(i) /\ Dispatched(i) => i \in cancels']_vars

(* The same, unless the id is ambiguous.                                   *)
CancelReachesKnown ==
    [][\A i \in Ids : Cancel(i) /\ Dispatched(i) /\ ~Ambiguous(i) => i \in cancels']_vars

(* mcp/README.md:46, "Malformed policy decisions and unreadable policy     *)
(* JSON always block, including in outage fail-open mode".                 *)
MalformedBlocks ==
    \A c \in Guarded : answer[c] \in {"unsupported", "unreadable"} => forwarded[c] = None

(* Every call the proxy accepts is answered, withdrawn, or with a server   *)
(* that has it or has gone.                                                *)
Answered == \A c \in Calls :
    At(c, "policy") ~> \/ replies[c] > 0 \/ c \in aborted \/ forwarded[c] # None
                       \/ proxy = "exited"

(* A host that closes its side gets the proxy to exit.                     *)
Exits == ~hostOpen ~> proxy = "exited"

(* The gate: an intercepted call is forwarded at most once, only once the  *)
(* policy or the outage policy has cleared it, with the arguments it was   *)
(* cleared for, and not after it was withdrawn.                            *)
GateStatus(c) == IF forwarded[c] # None THEN "ran"
                 ELSE IF stage[c] \in {"done", "settled"} \/ c \in aborted THEN "refused"
                 ELSE IF At(c, "judged") THEN (IF Passes(c) THEN "cleared" ELSE "refused")
                 ELSE "waiting"
GateArgs(c) == IF GateStatus(c) \in {"cleared", "ran"} THEN ClearedArgs(c) ELSE None
Gate == INSTANCE ToolGate WITH
    Calls <- Guarded, NoArgs <- None,
    status <- [c \in Guarded |-> GateStatus(c)],
    cleared <- [c \in Guarded |-> GateArgs(c)],
    used <- [c \in Guarded |-> forwarded[c]]
ImplementsGate == Gate!Spec
=============================================================================
