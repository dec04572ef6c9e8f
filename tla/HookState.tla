------------------------------ MODULE HookState ------------------------------
(***************************************************************************)
(* The native hooks of Claude Code (aurel-hook.mjs) and Codex              *)
(* (aurel-codex-hook.mjs).  The host starts a process of the hook before   *)
(* and another after each tool call, and several calls may be under way.   *)
(* What the first process has to tell the second one it leaves in a file   *)
(* of a directory that every process shares: a process prunes the          *)
(* directory to Cap files and adds its own under a lock file, and the      *)
(* process after the call takes the file away without the lock.            *)
(*                                                                         *)
(* One step of this model is one call of the file system or of the         *)
(* service; the stats of a prune, which are started together, are one, and *)
(* so are the creation of the directory and that of the lock.  The host    *)
(* may kill a process at any of them.                                      *)
(***************************************************************************)
EXTENDS Naturals, FiniteSets

CONSTANTS
    Calls,          \* tool calls, each with an id of its own
    NoCall,         \* nobody
    Cap,            \* MAX_PENDING_CORRELATION_FILES, 1024
    Intercepted,    \* the calls AUREL_TOOLS_INCLUDE selects
    Privileged,     \* the calls that an outage blocks in any fail mode
    FailOpen,       \* AUREL_FAIL_MODE is open
    Replies,        \* what the service may answer about each call
    RewriteAnswer,  \* what Claude Code's hook makes of a rewrite: "ask" or "deny"
    Frail,          \* bound: the calls whose input, files, reports and processes may fail
    MaxFaults       \* bound: processes killed, holders that stall for 30 s, and
                    \* failing calls of the file system that are swallowed

VARIABLES
    hook,       \* which of the two hooks is installed
    telemetry,  \* AUREL_TELEMETRY_ENABLED
    pc,         \* the step of each call's process, or what became of the call
    verdict,    \* what the evaluation of the call came to
    traced,     \* whether the decision carried a trace id
    lock,       \* the lock file: who created it, and whether it is older than 30 s
    listed,     \* the directory as the process that prunes it read it, then
                \* the files it has still to remove
    saved,      \* the calls whose state file exists
    born,       \* the order in which the state files were written
    outcomes,   \* the reports the service has received
    loose,      \* the calls that ran although their hook was killed
    faults

vars == <<hook, telemetry, pc, verdict, traced, lock, listed, saved,
          born, outcomes, loose, faults>>

PreSteps == {"asking", "open", "stat", "rm", "list", "evict", "write",
             "unlock", "abandon", "report"}
Section == {"list", "evict", "write", "unlock", "abandon"}
PostSteps == {"consume", "send", "blind"}
Steps == PreSteps \cup PostSteps
Phases == Steps
            \cup {"idle", "killed", "allowed", "asked", "denied", "refused", "done"}
Decisions == {"allow", "block", "approval", "rewrite"}
Verdicts == Decisions \cup {"outage", "malformed"}
Statuses == {"blocked", "approval_requested", "ran"}

HookAssumption == /\ NoCall \notin Calls
                         /\ IsFiniteSet(Calls)
                         /\ Cap \in Nat \ {0}
                         /\ Intercepted \subseteq Calls
                         /\ Frail \subseteq Calls
                         /\ FailOpen \in BOOLEAN
                         /\ Replies \in [Calls -> SUBSET [verdict : Verdicts, traced : BOOLEAN]]
                         /\ RewriteAnswer \in {"ask", "deny"}
                         /\ MaxFaults \in Nat

NoLock == [owner |-> NoCall, old |-> FALSE]

Init == /\ hook \in {"claude", "codex"}
        /\ telemetry \in BOOLEAN
        /\ pc = [c \in Calls |-> "idle"]
        /\ verdict = [c \in Calls |-> "none"]
        /\ traced = [c \in Calls |-> FALSE]
        /\ lock = NoLock
        /\ listed = [c \in Calls |-> {}]
        /\ saved = {}
        /\ born = [c \in Calls |-> 0]
        /\ outcomes = {}
        /\ loose = {}
        /\ faults = 0

config == <<hook, telemetry>>
files == <<lock, listed, saved, born>>

At(c, p) == pc[c] = p
Go(c, p) == pc' = [pc EXCEPT ![c] = p]

(* Something goes wrong with the process of a call, within the bound.      *)
Fault(c) == c \in Frail /\ faults < MaxFaults /\ faults' = faults + 1

(* The host starts the hook for a call.  A tool that is not selected is    *)
(* let through.                                                            *)
Start(c) == /\ At(c, "idle")
            /\ Go(c, IF c \in Intercepted THEN "asking" ELSE "allowed")
            /\ UNCHANGED <<config, verdict, traced, files, outcomes, loose, faults>>

(* What the host wrote for the hook is too long or no JSON.               *)
Unreadable(c) == /\ At(c, "idle")
                 /\ c \in Frail
                 /\ Go(c, "denied")
                 /\ UNCHANGED <<config, verdict, traced, files, outcomes, loose, faults>>

(* What the hook answers for a decision.  Codex cannot ask.                *)
Askable == {"approval"} \cup IF RewriteAnswer = "ask" THEN {"rewrite"} ELSE {}

Answer(d) == IF d = "allow" THEN "allowed"
             ELSE IF hook = "claude" /\ d \in Askable THEN "asked"
             ELSE "denied"

(* What follows a decision that is not to be remembered, or has been.      *)
Settle(d) == IF d = "allow" \/ ~telemetry THEN Answer(d) ELSE "report"

(* Claude Code's hook remembers every traced decision, Codex's every one   *)
(* that allows.                                                            *)
Remembered(d, t) == /\ telemetry
                    /\ IF hook = "claude" THEN t ELSE d = "allow"

Decide(c, d, t) == /\ Go(c, IF Remembered(d, t) THEN "open" ELSE Settle(d))
                   /\ traced' = [traced EXCEPT ![c] = t]

(* The service cannot be reached, refuses or answers too late.             *)
Outage(c) == /\ Go(c, IF FailOpen /\ c \notin Privileged THEN "allowed" ELSE "denied")
             /\ UNCHANGED traced

(* An answer that is not a valid decision is no outage.                    *)
Malformed(c) == Go(c, "denied") /\ UNCHANGED traced

Evaluate(c) == /\ At(c, "asking")
               /\ \E r \in Replies[c] :
                     /\ verdict' = [verdict EXCEPT ![c] = r.verdict]
                     /\ \/ r.verdict \in Decisions /\ Decide(c, r.verdict, r.traced)
                        \/ r.verdict = "outage" /\ Outage(c)
                        \/ r.verdict = "malformed" /\ Malformed(c)
               /\ UNCHANGED <<config, files, outcomes, loose, faults>>

-----------------------------------------------------------------------------
(* withStateLock and what it protects.                                     *)

Open(c) == /\ At(c, "open")
           /\ IF lock.owner = NoCall
              THEN lock' = [owner |-> c, old |-> FALSE] /\ Go(c, "list")
              ELSE UNCHANGED lock /\ Go(c, "stat")
           /\ UNCHANGED <<config, verdict, traced, listed, saved, born,
                          outcomes, loose, faults>>

(* The state could not be written: Claude Code's hook goes on without it,  *)
(* Codex's denies the call.                                                *)
AfterSave(c, ok) == IF ok \/ hook = "claude" THEN Settle(verdict[c]) ELSE "denied"

GiveUpAcquired(c) == /\ At(c, "open")
                     /\ lock.owner = NoCall
                     /\ Go(c, AfterSave(c, FALSE))
                     /\ UNCHANGED <<config, verdict, traced, files, outcomes, loose, faults>>

GiveUp(c) == /\ At(c, "open")
             /\ lock.owner # NoCall
             /\ Go(c, AfterSave(c, FALSE))
             /\ UNCHANGED <<config, verdict, traced, files, outcomes, loose, faults>>

StaleMissing == lock.owner = NoCall \/ lock.old

(* A lock that is gone by the time it is looked at is taken for a stale    *)
(* one by Claude Code's hook.                                              *)
Stale == IF lock.owner = NoCall THEN hook = "claude" ELSE lock.old

Stat(c) == /\ At(c, "stat")
           /\ Go(c, IF Stale THEN "rm" ELSE "open")
           /\ UNCHANGED <<config, verdict, traced, files, outcomes, loose, faults>>

(* A removal that fails is passed over.                                    *)
Rm(c) == /\ At(c, "rm")
         /\ lock' = NoLock \/ (c \in Frail /\ UNCHANGED lock)
         /\ Go(c, "open")
         /\ UNCHANGED <<config, verdict, traced, listed, saved, born,
                        outcomes, loose, faults>>

List(c) == /\ At(c, "list")
           /\ listed' = [listed EXCEPT ![c] = saved]
           /\ Go(c, "evict")
           /\ UNCHANGED <<config, verdict, traced, lock, saved, born,
                          outcomes, loose, faults>>

ExcessFull(c) == LET n == Cardinality(listed[c] \cup {c})
                 IN  IF n >= Cap THEN n - Cap + 1 ELSE 0

Excess(c) == LET n == Cardinality(listed[c] \cup {c})
             IN  IF n > Cap THEN n - Cap ELSE 0

(* The k oldest of a set of files, or all of them.                         *)
Oldest(S, k) == {E \in SUBSET S :
                   /\ Cardinality(E) = IF k < Cardinality(S) THEN k ELSE Cardinality(S)
                   /\ \A d \in E, e \in S \ E : born[d] < born[e]}

(* The files that are looked at: one that has vanished by then is left     *)
(* out, and so is one that cannot be looked at.                            *)
Candidates(c) == (listed[c] \cap saved) \ {c}

Choose(c, S) == /\ At(c, "evict")
                /\ \E E \in Oldest(S, Excess(c)) : listed' = [listed EXCEPT ![c] = E]
                /\ Go(c, "write")
                /\ UNCHANGED <<config, verdict, traced, lock, saved, born, outcomes, loose>>

Evict(c) == Choose(c, Candidates(c)) /\ UNCHANGED faults

StatFails(c) == /\ Excess(c) > 0
                /\ \E e \in Candidates(c) : Choose(c, Candidates(c) \ {e})
                /\ Fault(c)

(* The files chosen are removed one after the other.                       *)
Dequeue(c, E) == /\ At(c, "write")
                 /\ listed[c] # {}
                 /\ E \in Oldest(listed[c], 1)
                 /\ listed' = [listed EXCEPT ![c] = @ \ E]
                 /\ UNCHANGED <<config, pc, verdict, traced, lock, born, outcomes, loose>>

Remove(c) == \E E \in SUBSET listed[c] : /\ Dequeue(c, E)
                                         /\ saved' = saved \ E
                                         /\ UNCHANGED faults

(* A removal that fails is passed over.                                    *)
RemoveFails(c) == \E E \in SUBSET listed[c] : Dequeue(c, E) /\ Fault(c) /\ UNCHANGED saved

Write(c) == /\ At(c, "write")
            /\ listed[c] = {}
            /\ saved' = saved \cup {c}
            /\ \E n \in 1..Cardinality(Calls) :
                  /\ \A d \in saved : born[d] < n
                  /\ n = 1 \/ \E d \in saved : born[d] = n - 1
                  /\ born' = [born EXCEPT ![c] = n]
            /\ Go(c, "unlock")
            /\ UNCHANGED <<config, verdict, traced, lock, listed, outcomes, loose, faults>>

(* The directory or the lock could not be created, the directory not be    *)
(* read or the file not be written.                                        *)
SaveFails(c) == /\ c \in Frail
                /\ \/ At(c, "open") /\ Go(c, AfterSave(c, FALSE))
                   \/ At(c, "list") /\ Go(c, "abandon")
                   \/ At(c, "write") /\ listed[c] = {} /\ Go(c, "abandon")
                /\ UNCHANGED <<config, verdict, traced, files, outcomes, loose, faults>>

Leave(c) == /\ pc[c] \in {"unlock", "abandon"}
            /\ Go(c, AfterSave(c, At(c, "unlock")))
            /\ UNCHANGED <<config, verdict, traced, listed, saved, born, outcomes, loose>>

(* The lock is removed by its path, whoever created the file there now.    *)
Unlock(c) == Leave(c) /\ lock' = NoLock /\ UNCHANGED faults

(* A removal that fails is passed over, and the lock stays until somebody  *)
(* takes it for stale.                                                     *)
UnlockFails(c) == Leave(c) /\ UNCHANGED lock /\ Fault(c)

(* Thirty seconds have passed since the lock was created.  A process holds *)
(* it that long only when it was killed, or stalls.                        *)
LockAges == /\ lock.owner # NoCall
            /\ ~lock.old
            /\ lock' = [lock EXCEPT !.old = TRUE]
            /\ IF pc[lock.owner] \in Section
               THEN Fault(lock.owner)
               ELSE UNCHANGED faults
            /\ UNCHANGED <<config, pc, verdict, traced, listed, saved, born, outcomes,
                          loose>>

-----------------------------------------------------------------------------
(* Reports.  Claude Code's hook makes three attempts, Codex's one; here    *)
(* they are one step, and one of them reaches the service or none does.    *)
Send(c, outcome, next) ==
    /\ \/ outcomes' = outcomes \cup {outcome}
       \/ c \in Frail /\ UNCHANGED outcomes
    /\ Go(c, next)
    /\ UNCHANGED <<config, verdict, traced, files, loose, faults>>

Outcome(c, status, known) == [call |-> c, status |-> status, traced |-> known]

ReportBlocked(c) == /\ At(c, "report")
                    /\ Send(c, Outcome(c, "blocked", traced[c]), Answer(verdict[c]))

Refusal(c) == Outcome(c, IF Answer(verdict[c]) = "asked" THEN "approval_requested"
                         ELSE "blocked", traced[c])

Report(c) == At(c, "report") /\ Send(c, Refusal(c), Answer(verdict[c]))

(* The call runs, and the host starts the hook again when it has.          *)
Run(c) == /\ pc[c] \in {"allowed", "asked"}
          /\ Go(c, IF telemetry THEN "consume" ELSE "done")
          /\ UNCHANGED <<config, verdict, traced, files, outcomes, loose, faults>>

UserRefuses(c) == /\ At(c, "asked")
                  /\ Go(c, "refused")
                  /\ UNCHANGED <<config, verdict, traced, files, outcomes, loose, faults>>

(* Claude Code's hook reports a call whose state it does not find without  *)
(* a trace id, Codex's does not report it.                                 *)
Consume(c) == /\ At(c, "consume")
              /\ saved' = saved \ {c}
              /\ Go(c, IF c \in saved THEN "send"
                       ELSE IF hook = "claude" THEN "blind" ELSE "done")
              /\ UNCHANGED <<config, verdict, traced, lock, listed, born,
                             outcomes, loose, faults>>

ReportRun(c) == At(c, "send") /\ Send(c, Outcome(c, "ran", traced[c]), "done")
Blind(c) == At(c, "blind") /\ Send(c, Outcome(c, "ran", FALSE), "done")

(* The host kills a process of the hook.  What it created stays, and the   *)
(* report it was at may have arrived.  Without an answer of the first      *)
(* process the host gives the call up, or lets it run.                     *)
Kill(c) == /\ pc[c] \in Steps
           /\ Fault(c)
           /\ \/ pc[c] \in PostSteps /\ Go(c, "done") /\ UNCHANGED loose
              \/ pc[c] \in PreSteps /\ Go(c, "killed") /\ UNCHANGED loose
              \/ pc[c] \in PreSteps /\ Go(c, "allowed") /\ loose' = loose \cup {c}
           /\ \/ UNCHANGED outcomes
              \/ At(c, "report") /\ outcomes' = outcomes \cup {Refusal(c)}
           /\ listed' = [listed EXCEPT ![c] = {}]
           /\ UNCHANGED <<config, verdict, traced, lock, saved, born>>

LockStep(c) == \/ Open(c) \/ Stat(c) \/ Rm(c) \/ List(c) \/ Evict(c) \/ Remove(c)
               \/ Write(c) \/ SaveFails(c) \/ Unlock(c)

(* What goes wrong with a process and is not seen at once.                 *)
Disturb(c) == StatFails(c) \/ RemoveFails(c) \/ UnlockFails(c) \/ Kill(c)

(* A process goes on with what it is at.                                   *)
Proceed(c) == Evaluate(c) \/ LockStep(c) \/ Report(c) \/ Consume(c)
              \/ ReportRun(c) \/ Blind(c)

Next == \/ \E c \in Calls : \/ Start(c) \/ Unreadable(c) \/ Proceed(c) \/ GiveUp(c)
                            \/ Run(c) \/ UserRefuses(c) \/ Disturb(c)
        \/ LockAges

(* Every request has a timeout, and the ten seconds a process waits for    *)
(* the lock end.                                                           *)
Fairness == \A c \in Calls : WF_vars(Proceed(c)) /\ SF_vars(GiveUp(c))

Spec == Init /\ [][Next]_vars /\ Fairness

-----------------------------------------------------------------------------
TypeOK == /\ hook \in {"claude", "codex"}
          /\ telemetry \in BOOLEAN
          /\ pc \in [Calls -> Phases]
          /\ verdict \in [Calls -> Verdicts \cup {"none"}]
          /\ traced \in [Calls -> BOOLEAN]
          /\ lock \in [owner : Calls \cup {NoCall}, old : BOOLEAN]
          /\ listed \in [Calls -> SUBSET Calls]
          /\ saved \subseteq Calls
          /\ born \in [Calls -> Nat]
          /\ outcomes \subseteq [call : Calls, status : Statuses, traced : BOOLEAN]
          /\ loose \subseteq Calls
          /\ faults \in 0..MaxFaults

(* One process at a time is in the section the lock file protects, and the *)
(* lock is its own.                                                        *)
OneInside == /\ ~lock.old
             /\ lock.owner # NoCall => pc[lock.owner] \in Section
             /\ \A c \in Calls : /\ ~At(c, "rm")
                                 /\ pc[c] \in Section => lock.owner = c

(* What that process knows of the directory, and that the removals left to *)
(* do make room for its file.                                              *)
Pruned == \A c \in Calls :
             /\ At(c, "evict") => saved \subseteq listed[c]
             /\ At(c, "write") => Cardinality(saved \ (listed[c] \cup {c})) < Cap

(* The hook's audit notes for Codex that its cap remains exact: while no   *)
(* process was killed or stalled and no removal failed, one at a time      *)
(* prunes and writes, it read at least what is there, and what is there    *)
(* never exceeds the cap.  The retry loop around the lock must not remove  *)
(* a lock it did not see.                                                  *)
CapExact == /\ TypeOK
            /\ hook = "codex" /\ faults = 0 =>
                  OneInside /\ Pruned /\ Cardinality(saved) <= Cap

(* The README of Claude Code's hook says the directory is capped.          *)
CapKept == faults = 0 => Cardinality(saved) <= Cap

(* A call loses the state it left only to its own second process, or after *)
(* Cap other calls had theirs written or were about to: concurrent prunes, *)
(* files that vanish between the listing and the removal, and a lock that  *)
(* two processes hold take nobody's state while there is room.             *)
LostForRoom ==
    [][\A c \in saved \ saved' :
          \/ At(c, "consume")
          \/ Cardinality({d \in Calls \ {c} : born[d] > 0 \/ pc[d] \in Section}) >= Cap]_vars

(* A report says what became of the call: a call reported blocked never    *)
(* ran and is never going to, unless the host killed the hook over its     *)
(* report and went on without an answer; one reported to have run did, and *)
(* under Codex only because the policy allowed it.                         *)
OutcomesTrue ==
    \A o \in outcomes :
        /\ o.traced => traced[o.call]
        /\ o.status = "blocked" => /\ \/ pc[o.call] \in {"denied", "killed"}
                                      \/ o.call \in loose
                                   /\ verdict[o.call] \in Decisions \ {"allow"}
        /\ o.status = "approval_requested" => /\ hook = "claude"
                                              /\ pc[o.call] # "denied"
                                              /\ verdict[o.call] \in {"approval", "rewrite"}
        /\ o.status = "ran" => /\ pc[o.call] \in {"send", "blind", "done"}
                               /\ hook = "codex" => verdict[o.call] = "allow"

(* Whatever other processes do with the lock and the files, in the end no  *)
(* process is left: each one has answered or ended, or the host killed it. *)
Answered == <>[](\A c \in Calls : pc[c] \notin Steps)
=============================================================================
