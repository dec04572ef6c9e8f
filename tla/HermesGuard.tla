---------------------------- MODULE HermesGuard ----------------------------
(***************************************************************************)
(* AurelsHermesPlugin: from the first hook of a tool call to its reported  *)
(* outcome.  Calls arrive through Hermes' native pre and post hooks, which *)
(* may come without an id, or through run_protected; each runs on a thread *)
(* of its own, and what runs under the plugin's _lock is one step.  The    *)
(* plugin is enabled and has a key.  The outbox is left to OutboxEnqueue   *)
(* and OutboxFlush, the review of retrospective mode is left out.          *)
(***************************************************************************)
EXTENDS Naturals, FiniteSets, FiniteSetsExt, Sequences, Subsequences

CONSTANTS
    Calls,        \* tool calls
    Native,       \* those that come through the native hooks
    HostId,       \* the id the caller gives each call, or None
    Action,       \* fingerprint, task and session of each call
    Ids,          \* ids that callers give
    MaxPending,   \* MAX_RETROSPECTIVE_ACTIONS
    None

(* The action id: the caller's, or one that before_action generates.       *)
Key(c) == IF HostId[c] = None THEN c ELSE HostId[c]
Keys == {Key(c) : c \in Calls}

Stages == {"idle", "evaluating", "allowed", "refused", "running", "matched", "done"}
Arguments == {"given", "changed"}
Record == [key : Keys, old : BOOLEAN]
Outcome == [key : Keys \cup {"unknown"}, status : {"blocked", "ran"},
            trace : Calls \cup {None}]

(* None is none of the values it stands in for, and the ids that are       *)
(* generated (uuid4) are not those of a host.                              *)
ASSUME GuardAssumption ==
    /\ Native \subseteq Calls
    /\ HostId \in [Calls -> Ids \cup {None}]
    /\ MaxPending \in Nat \ {0}
    /\ None \notin Calls \cup Ids \cup {"unknown"} \cup Arguments \cup Outcome
    /\ Calls \cap Ids = {}

(* The post hook of a native call knows only the host's id.                *)
Anonymous(c) == c \in Native /\ HostId[c] = None

VARIABLES
    mode,      \* "remote", "local" or "retrospective"
    trusted,   \* AURELS_HERMES_TRUST_NATIVE_HOOK_ORDER
    stage,     \* where each call is
    live,      \* the arguments as their owner has them now
    judged,    \* the arguments as the plugin first saw them, for the policy
    used,      \* the arguments the tool was run with
    pending,   \* _pending: the call whose entry is under each key
    order,     \* _pending_order: keys, and whether the record has expired
    found,     \* the key the outcome of a call is going to be reported under
    outcome,   \* the outcome handed to telemetry
    missed     \* history: calls whose entry expired, was evicted or replaced

callVars == <<stage, live, judged, used>>
pendingVars == <<pending, order, missed>>
reportVars == <<found, outcome>>
vars == <<mode, trusted, callVars, pendingVars, reportVars>>

TypeOK ==
    /\ mode \in {"remote", "local", "retrospective"}
    /\ trusted \in BOOLEAN
    /\ stage \in [Calls -> Stages]
    /\ live \in [Calls -> Arguments]
    /\ judged \in [Calls -> Arguments \cup {None}]
    /\ used \in [Calls -> Arguments \cup {None}]
    /\ pending \in [Keys -> Calls \cup {None}]
    /\ order \in Seq(Record)
    /\ found \in [Calls -> Keys \cup {None, "unknown"}]
    /\ outcome \in [Calls -> Outcome \cup {None}]
    /\ missed \subseteq Calls
    /\ \A c \in Calls : found[c] # None <=> stage[c] = "matched"

Init ==
    /\ mode \in {"remote", "local", "retrospective"}
    /\ trusted \in BOOLEAN
    /\ stage = [c \in Calls |-> "idle"]
    /\ live = [c \in Calls |-> "given"]
    /\ judged = [c \in Calls |-> None]
    /\ used = [c \in Calls |-> None]
    /\ pending = [k \in Keys |-> None]
    /\ order = <<>>
    /\ found = [c \in Calls |-> None]
    /\ outcome = [c \in Calls |-> None]
    /\ missed = {}

At(c, s) == stage[c] = s
Goto(c, s) == stage' = [stage EXCEPT ![c] = s]
KeysIn(p) == {k \in Keys : p[k] # None}

(* _telemetry, which sends in remote mode only.                            *)
Report(c, key, status, trace) ==
    outcome' = IF mode = "remote"
               THEN [outcome EXCEPT ![c] = [key |-> key, status |-> status, trace |-> trace]]
               ELSE outcome

-----------------------------------------------------------------------------
(* The pending entries.                                                    *)

(* What is left of the entries once the first n records were dropped.      *)
Without(n) == [k \in Keys |->
    IF \E i \in 1..n : order[i].key = k THEN None ELSE pending[k]]

(* Bug: the map counts as full one entry too early.                        *)
PruneStopsSpare(n) ==
    \/ n = Len(order)
    \/ LET r == order[n + 1] IN
        /\ Without(n)[r.key] # None
        /\ ~r.old
        /\ Cardinality(KeysIn(Without(n))) + 1 < MaxPending

(* _prune_pending stops before a record that is in use, has not expired    *)
(* and leaves room.                                                        *)
PruneStops(n) ==
    \/ n = Len(order)
    \/ LET r == order[n + 1] IN
        /\ Without(n)[r.key] # None
        /\ ~r.old
        /\ Cardinality(KeysIn(Without(n))) < MaxPending

Pruned == Min({n \in 0..Len(order) : PruneStops(n)})
Kept == Without(Pruned)
KeptOrder == SubSeq(order, Pruned + 1, Len(order))
Evicted(kept) == {pending[k] : k \in KeysIn(pending) \ KeysIn(kept)}

(* An entry for c on top of what is left after dropping n records.         *)
Insert(c, n) ==
    /\ pending' = [Without(n) EXCEPT ![Key(c)] = c]
    /\ order' = Append(SubSeq(order, n + 1, Len(order)), [key |-> Key(c), old |-> FALSE])
    /\ missed' = missed \cup Evicted(Without(n)) \cup ({Without(n)[Key(c)]} \ {None})

(* Bug: only the records that have expired are pruned.                     *)
RememberFresh(c) ==
    Insert(c, Cardinality({i \in 1..Len(order) : \A j \in 1..i : order[j].old}))

(* _remember_pending: prune, and drop the oldest record if that left no    *)
(* room (it always does).                                                  *)
Remember(c) ==
    Insert(c, IF Cardinality(KeysIn(Kept)) >= MaxPending THEN Pruned + 1 ELSE Pruned)

Held(key) == IF key \in Keys THEN pending[key] ELSE None

(* _pop_pending: the entry and all its records.                            *)
Pop(key) ==
    /\ pending' = [k \in Keys |-> IF k = key THEN None ELSE pending[k]]
    /\ order' = IF Held(key) = None THEN order
                ELSE Subsequence(order, {i \in 1..Len(order) : order[i].key # key})
    /\ UNCHANGED missed

-----------------------------------------------------------------------------
(* before_action and its callers.                                          *)

Refuse(c) == Goto(c, "refused") /\ UNCHANGED found
RefuseReported(c) == Refuse(c) /\ Report(c, Key(c), "blocked", IF At(c, "idle") THEN None ELSE c)
RefuseSilently(c) == Refuse(c) /\ UNCHANGED outcome

(* before_action up to the request to the policy service.  run_protected   *)
(* takes a snapshot of the arguments first and refuses what it cannot copy,*)
(* in every mode and unreported.  The local rules may block any call, and  *)
(* in local mode what they leave open is refused unreported.               *)
Before(c) ==
    /\ At(c, "idle")
    /\ judged' = [judged EXCEPT ![c] = live[c]]
    /\ \/ /\ mode = "retrospective"
          /\ Remember(c)
          /\ Goto(c, "allowed")
          /\ UNCHANGED reportVars
       \/ /\ mode # "retrospective"
          /\ RefuseReported(c)
          /\ UNCHANGED pendingVars
       \/ /\ mode = "local" \/ c \notin Native
          /\ RefuseSilently(c)
          /\ UNCHANGED pendingVars
       \/ /\ mode = "remote"
          /\ Goto(c, "evaluating")
          /\ UNCHANGED <<pendingVars, reportVars>>
    /\ UNCHANGED <<mode, trusted, live, used>>

(* The policy service allows the call.                                     *)
Allow(c) ==
    /\ At(c, "evaluating")
    /\ Remember(c)
    /\ Goto(c, "allowed")
    /\ UNCHANGED <<mode, trusted, live, judged, used, reportVars>>

(* It blocks the call or flags it for approval; or it is limited, answers  *)
(* something malformed, or does not answer, which is not reported.         *)
Deny(c) ==
    /\ At(c, "evaluating")
    /\ RefuseReported(c) \/ RefuseSilently(c)
    /\ UNCHANGED <<mode, trusted, live, judged, used, pendingVars>>

(* The native hook withholds an allowed call whose arguments other hooks   *)
(* may still change.                                                       *)
MayRun(c) == c \in Native /\ mode = "remote" => trusted

Withhold(c) ==
    /\ At(c, "allowed") /\ ~MayRun(c)
    /\ Pop(Key(c))
    /\ Report(c, Key(c), "blocked", Held(Key(c)))
    /\ Goto(c, "refused")
    /\ UNCHANGED <<mode, trusted, live, judged, used, found>>

(* Bug: run_protected passes on the caller's own dictionary.               *)
RunLive(c) ==
    /\ At(c, "allowed") /\ MayRun(c)
    /\ used' = [used EXCEPT ![c] = live[c]]
    /\ Goto(c, "running")
    /\ UNCHANGED <<mode, trusted, live, judged, pendingVars, reportVars>>

(* The host runs the tool with its arguments, run_protected with the       *)
(* snapshot it evaluated.                                                  *)
Run(c) ==
    /\ At(c, "allowed") /\ MayRun(c)
    /\ used' = [used EXCEPT ![c] = IF c \in Native THEN live[c] ELSE judged[c]]
    /\ Goto(c, "running")
    /\ UNCHANGED <<mode, trusted, live, judged, pendingVars, reportVars>>

-----------------------------------------------------------------------------
(* after_action.                                                           *)

(* Bug: any pending entry will do.                                         *)
MatchAny(c) ==
    /\ Anonymous(c) /\ At(c, "running")
    /\ pending' = Kept /\ order' = KeptOrder /\ missed' = missed \cup Evicted(Kept)
    /\ LET hits == {i \in 1..Len(KeptOrder) : Kept[KeptOrder[i].key] # None}
       IN found' = [found EXCEPT ![c] =
                       IF hits = {} THEN "unknown" ELSE KeptOrder[Min(hits)].key]
    /\ Goto(c, "matched")
    /\ UNCHANGED <<mode, trusted, live, judged, used, outcome>>

(* _match_pending: without an id, the oldest entry for the same action.    *)
Match(c) ==
    /\ Anonymous(c) /\ At(c, "running")
    /\ pending' = Kept /\ order' = KeptOrder /\ missed' = missed \cup Evicted(Kept)
    /\ LET hits == {i \in 1..Len(KeptOrder) :
                      LET entry == Kept[KeptOrder[i].key]
                      IN entry # None /\ Action[entry] = Action[c]}
       IN found' = [found EXCEPT ![c] =
                       IF hits = {} THEN "unknown" ELSE KeptOrder[Min(hits)].key]
    /\ Goto(c, "matched")
    /\ UNCHANGED <<mode, trusted, live, judged, used, outcome>>

(* Bug: the trace is looked up after the entry was popped.                 *)
FinishUntraced(c) ==
    /\ At(c, IF Anonymous(c) THEN "matched" ELSE "running")
    /\ LET key == IF Anonymous(c) THEN found[c] ELSE Key(c) IN
        /\ Pop(key)
        /\ Report(c, key, "ran", None)
    /\ found' = [found EXCEPT ![c] = None]
    /\ Goto(c, "done")
    /\ UNCHANGED <<mode, trusted, live, judged, used>>

(* The entry is popped and the outcome, good or bad, is reported.          *)
Finish(c) ==
    /\ At(c, IF Anonymous(c) THEN "matched" ELSE "running")
    /\ LET key == IF Anonymous(c) THEN found[c] ELSE Key(c) IN
        /\ Pop(key)
        /\ Report(c, key, "ran", Held(key))
    /\ found' = [found EXCEPT ![c] = None]
    /\ Goto(c, "done")
    /\ UNCHANGED <<mode, trusted, live, judged, used>>

-----------------------------------------------------------------------------
(* The environment.                                                        *)

(* The caller of run_protected, or another hook, changes the arguments;    *)
(* who declares the hook order trusted asserts that no hook does.          *)
Change(c) ==
    /\ stage[c] \in {"evaluating", "allowed"}
    /\ c \in Native => ~trusted
    /\ live' = [live EXCEPT ![c] = "changed"]
    /\ UNCHANGED <<mode, trusted, stage, judged, used, pendingVars, reportVars>>

(* TRACE_TTL_SECONDS pass for the oldest record they have not passed for.  *)
Expire ==
    /\ \E i \in 1..Len(order) :
        /\ ~order[i].old
        /\ \A j \in 1..(i - 1) : order[j].old
        /\ order' = [order EXCEPT ![i].old = TRUE]
    /\ UNCHANGED <<mode, trusted, callVars, pending, missed, reportVars>>

Step(c) == \/ Before(c) \/ Allow(c) \/ Deny(c) \/ Withhold(c) \/ Run(c)
           \/ Match(c) \/ Finish(c)

Next == (\E c \in Calls : Step(c) \/ Change(c)) \/ Expire

Spec == Init /\ [][Next]_vars

-----------------------------------------------------------------------------
(* Missing callbacks and reused ids do not grow the entries beyond their   *)
(* cap (test_plugin.py:832), and every entry has a record, without which   *)
(* nothing would ever expire or evict it (README:99, "with a bounded TTL").*)
PendingBounded ==
    /\ TypeOK
    /\ Cardinality(KeysIn(pending)) <= MaxPending
    /\ \A k \in KeysIn(pending) : \E i \in 1..Len(order) : order[i].key = k

(* An outcome carries the trace of a decision about that very call, or,    *)
(* where the host gives no ids or reuses one, under the same id or under   *)
(* that of a decided call for the same action; where no entry matches, the *)
(* one looked up is that of a call whose host chose the id "unknown".      *)
TraceTrue == \A c \in Calls : outcome[c] # None =>
    LET t == outcome[c].trace IN
        \/ t \in {None, c}
        \/ Key(t) = Key(c)
        \/ Anonymous(c) /\ \E d \in Calls : /\ stage[d] \notin {"idle", "evaluating"}
                                            /\ Key(d) = Key(t)
                                            /\ Action[d] = Action[c]
        \/ Anonymous(c) /\ Key(t) = "unknown"

(* An outcome lacks its trace only if its entry, or the one it matched,    *)
(* expired or was evicted, if another outcome has taken the trace, or if   *)
(* two threads matched the same entry before either popped it.             *)
TraceKept == \A c \in Calls : outcome[c] # None /\ outcome[c].status # "blocked" =>
    \/ outcome[c].trace # None
    \/ \E d \in missed : d = c \/ Key(d) = outcome[c].key
    \/ \E d \in Calls \ {c} : /\ outcome[d] # None
                              /\ outcome[d].trace = c \/ outcome[d].key = outcome[c].key

(* An entry goes unused only when it has expired, when the map is full, or *)
(* when its id was reused (298, 331): a missing callback costs no other    *)
(* call its trace before that.                                             *)
FreshKept == [][\A c \in missed' \ missed :
    \/ Cardinality(KeysIn(pending)) >= MaxPending
    \/ \E i \in 1..Len(order) : order[i] = [key |-> Key(c), old |-> TRUE]
    \/ \E d \in Calls \ {c} : Key(d) = Key(c)]_vars

(* Two outcomes are not reported of one action (unless the caller reused   *)
(* its id), so that the entry of each completed call is removed.           *)
OutcomesDistinct == \A c, d \in Calls :
    /\ outcome[c] # None /\ outcome[d] # None /\ c # d
    /\ outcome[c].key = outcome[d].key /\ outcome[c].key # "unknown"
    => Key(c) = Key(d)

(* The gate, in the two modes that enforce: a tool runs with the arguments *)
(* the policy allowed, once, and not when the call was denied or withheld. *)
GateStatus(c) ==
    CASE mode = "retrospective" -> "waiting"
      [] mode # "retrospective" /\ stage[c] \in {"idle", "evaluating"} -> "waiting"
      [] mode # "retrospective" /\ At(c, "allowed") ->
            IF c \in Native /\ ~trusted THEN "waiting" ELSE "cleared"
      [] mode # "retrospective" /\ At(c, "refused") -> "refused"
      [] OTHER -> "ran"
GateArgs(c) == IF GateStatus(c) \in {"cleared", "ran"} THEN judged[c] ELSE None
GateUsed(c) == IF mode = "retrospective" THEN None ELSE used[c]
Gate == INSTANCE ToolGate WITH
    Args <- Arguments, NoArgs <- None,
    status <- [c \in Calls |-> GateStatus(c)],
    cleared <- [c \in Calls |-> GateArgs(c)],
    used <- [c \in Calls |-> GateUsed(c)]
ImplementsGate == Gate!Spec
=============================================================================
