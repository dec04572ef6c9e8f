# Formal models of the Aurels plugins

TLA+ models of the parts of this repository that keep state under concurrency
or failure, the TLC configurations that check them on small instances, and
TLAPS proofs of the properties that matter most. Paths below are relative to
`src/`; *outbox.py*, *plugin.py* and *client.py* are in
`plugins/aurels-hermes/aurels_hermes/`, *aurel-mcp-proxy.mjs* is in
`plugins/aurels-integrations/integrations/mcp/src/`, *aurel-hook.mjs* and
*aurel-codex-hook.mjs* are the hooks of Claude Code and Codex, and *sdk* and
*aurel-tool-guard.ts* in `shared/`, of the same `integrations/`;
*telemetry-outbox.js* and *security.js* are in `plugins/aurels-openclaw/src/`,
*server.mjs* and *model.mjs* in `plugins/aurels-evaluator/src/`.

    tlasany M.tla                        # parse
    tlc -workers 2 -config X.cfg M.tla   # check (M is the MC module of X)
    tlapm XProofs.tla                    # prove

`PROJECT.json` lists components, runs, mutants (a plausible bug for every
property, which the property must catch), hazards, findings and theorems, and
maps every definition that models code to its lines.

## 1. Inventory

The product is a set of plugins for AI agents. Each stands between an agent
and its tools, asks a policy service (the Aurels API, or a self-hosted
evaluator) about every tool call, lets it run, rewrites it, withholds it or
sends it to a human, and afterwards reports the outcome as telemetry.

    agent -> [guard] -> tool            the call, with the arguments judged
               |  ^
     evaluate  |  | allow/flag/block/rewrite/...
               v  |
            policy service <---- telemetry outbox / hook state / retries

| Component | State | Operations | Interacts through | What is hard | What makes it correct |
|---|---|---|---|---|---|
| Hermes outbox (*outbox.py*) | spool directory, `.enqueue.lock`, staging files; per process `_lock`, `_flush_lock`, retry timer and delay | enqueue, flush_async, retry, purge | files shared by processes, threads, the policy service | stale locks of dead processes, threads handing over, crash between send and unlink, outages | the cap holds, no event is lost, sent again only for cause, somebody always comes back for a queued event |
| Hermes plugin (*plugin.py*) | `_pending`, `_pending_order`, retrospective maps | pre/post hooks, run_protected, finalize | callbacks of the host on several threads, the client, the outbox | hooks without ids, post hooks that never come, other hooks that change arguments | what runs was allowed and is what was judged; outcomes carry the trace of their own decision; state is bounded |
| Hermes client/config/redaction | none | one HTTP request; pure functions | | timeouts, rate limits | limits, no secret in telemetry |
| MCP proxy (*aurel-mcp-proxy.mjs*) | `evaluating`, `pending`, `telemetryInFlight` | accept, evaluate, permit, forward, relay, cancel, expire, shut down | JSON-RPC over two pipes, child process, policy service | reused ids, cancellation between awaits, outage policy, exit order | no answer is mixed up, a withdrawn call is not forwarded, bounds hold, everything is answered, the proxy exits |
| OpenClaw outbox (`plugins/aurels-openclaw/src/telemetry-outbox.js`) | as Hermes, with one promise for the flush under way | as Hermes | files, timers, event loop | as Hermes; three places that start the next flush | as Hermes |
| OpenClaw guard (`.../security.js`) | trace map, retrospective map | beforeToolCall, onResolution, afterToolCall, agentEnd | host callbacks | approval long after the decision, eviction and timers of the same key | frozen parameters, truthful traces, bounds |
| Claude Code and Codex hooks | one JSON file per call, a lock file | PreToolUse, PostToolUse | one process per hook, shared directory | lock recovery, eviction, lost post hooks | a running call's state survives, one outcome per call |
| Shared TypeScript guard, SDK, OpenAI Agents and LangGraph adapters | none beyond a call | preflight, runProtected, postflight | promises, abort signals | abort while evaluating, outage policy | as the gate below |
| CrewAI guard | none beyond a call | run_protected, approval callback | threads, awaitables | failures after the tool completed | as the gate below |
| Evaluator (`plugins/aurels-evaluator/src`) | `active` counter | admit, evaluate, time out, cancel; readiness check | HTTP, a model | every path must give the slot back | malformed or late is never allow |
| Ollama preset installer | none (remote) | pull, verify digest, create, verify | HTTP | the base tag moves between steps | the preset has the pinned weights |
| Legacy adapters, scripts, mock server | | | | | not modelled |

The hazards, each at its line and with the properties aimed at it, are in
`PROJECT.json`.

## 2. Plan

In order of importance; the first seven are done, the eighth is not begun.

1. **Outbox, writing**: `OutboxEnqueue`, with `DurableSpool` as what it
   promises, and `OutboxEnqueueProofs`.
2. **Outbox, delivering**: `OutboxFlush` and `OutboxFlushProofs`.
3. **The gate**: `ToolGate`, the promise all guards share, and `McpProxy`, the
   guard with most concurrency.
4. **Correlation**: `HermesGuard`.
5. **Hooks**: `HookState`, the state files and the two lock recoveries of the
   Claude Code and Codex hooks, and `HookStateProofs`.
6. **Request and answer**: `RuntimeGuard`, the TypeScript guard and its client,
   with `Evaluator`, the other side of the request, and the proofs of both.
7. **OpenClaw**: `OpenClawGuard` (traces, approvals, retrospective) and
   `OpenClawOutbox`, the event-loop variant of 1 and 2.
8. The CrewAI guard with its callbacks and threads, as a further implementation
   of `ToolGate`; Hermes' retrospective mode; the bounded local scan
   (*plugin.py* 405-436) as a pure algorithm against a definition of what it
   must find; the parser of the proxy; the installer.

Section 5 proves every safety property that a passing run checks, and, where a
run shows a promise of the documentation to fail, under which condition it holds.
Every module keeps recursion out and names the conjuncts of its invariants for
that.

Composition: `ToolGate` and `DurableSpool` are the interfaces. A guard hands
outcomes to an outbox through `enqueue` and does not look at the result, so
that guards and outboxes are checked apart: in the guards handing over an
outcome is one step, in `OutboxFlush` enqueueing is one step, and
`OutboxEnqueue` takes that step apart. `RuntimeGuard` composes the guard with
the evaluator it asks, `E == INSTANCE Evaluator`, so that the client's timeout,
an abort and the server's answer race in one state space.

## 3. Modules

A module named after another with `Proofs` at the end has its theorems;
`OpenClawProofs` has those of both OpenClaw modules and `RuntimeGuardProofs` also
the one of the evaluator.

### DurableSpool
The abstract spool: events on disk, events whose enqueue returned, events that
left. An event becomes durable when there is room, a caller is told that its
event is safe only if it is or was, and events only leave by being delivered
or expiring; earlier processes may have left some. Both outboxes implement it:
`OutboxEnqueue` with variables of the same names, `OpenClawOutbox` with *acked*
read as the enqueues that are `kept` and *gone* as what was received or expired
and is not on disk.

### OutboxEnqueue
*outbox.py* 91-204 and 286-298. `pc[p]` is the file-system call that process
`p` makes next, one action per call: open (`CreateLock`, `LockExists`), write of
the pid, the stale check (`Inspect` lstat, `ReadPid`, `ProbeOwner`, `Reinspect`,
`Reread`), `StealLock`, the retry until the deadline, then under the lock
purge, lookup, count, stage, link, unstage and `Release`. `lock` is the file
at the path: an inode number, a content and whether its modification time is
30 seconds past. Inode numbers are reused once no file and no open
descriptor has them. `fd[p]` is the descriptor a holder keeps, which need not
be the file at the path any longer. `orphaned` is a history variable: a lock
file was once in place that no living process answers for, because its owner
died, or could neither write its pid nor remove it.

Environment: processes die anywhere (`Crash`); any flusher removes events
(`Deliver`); the deadline, which a call looks at only where it pauses, passes
there; lock files age (`LockAges`). The unlinks may fail: `_unlink_queue_lock`
raises after its retries (155-167), on the release, on the path of a failed
write and when a stale lock is stolen, for the processes in `StuckLocks`; the
unlink of the staging file in the `finally` (123) for those in `StuckStaging`.
What stays behind then is part of the properties. A lock that a living process
could not unlink (`Left`) carries its pid, so no check calls it stale, and every
enqueue of every process is refused as busy until that process exits: nothing
is written twice, and nothing is written. A lock without a pid is taken for stale
after 30 seconds and counts as orphaned. A staging file stays for the purge by
age, and the call that left it raises, even where its event was linked.

Assumptions: a living process is not 30 seconds on its way from one pause to
the next (`LockAges` waits until every process is idle, dead or pausing;
otherwise the age rule alone breaks exclusion, and the code has no defence),
process ids are not reused (a restarted plugin is another member of `Procs`), and
an event that was delivered or expired is not enqueued again (each carries its
own time and action).

### OutboxFlush
*outbox.py* 210-298 and the caller in *plugin.py* 369-389. A member of `Threads` is
a chain of threads that hand over in their last step: a hook to the flush
thread it starts, the flush thread to the next one or to its timer, the timer
to the flush thread. The actions are the acquisition of the flush lock, the
cancellation of the timer, the start of the thread (which may fail), the
listing, each send with its three outcomes (delivered, refused or unreachable,
delivered with the answer lost), each unlink, the release and the look at the
queue after it, arming and firing of the timer. An unlink may fail, which ends
the flush and loses its count. Enqueueing and listing purge what is past its
retention; `Expire` is the same purge by another process. Events are numbers in the
order of their digests, which is the order of delivery. The process may crash
and restart, another process may deliver the same files, and an event the
service always refuses may expire. `troubles` and `crashes` bound outages, lost
answers, failed starts and unlinks, and deaths. How long a timer waits is left open, so the
doubling of the delay is not modelled. `stranded` is true from a failed thread
start until a flush begins: the code waits for the next event then.

### ToolGate
The promise of a guard: a call is cleared for certain arguments, refused, or
run, once, with the arguments it was cleared for; a clearance may be withdrawn
before the run, and a refusal is final.

### McpProxy
*aurel-mcp-proxy.mjs* 39-326 and 402-446. One action per stretch between two
awaits. `stage[c]` is where `handleHostMessage` of a call is; `evaluating` and
`pending` are the maps of that name; `forwarded` records the arguments a call
was written to the server with. The server answers in any order, or never,
and may send requests of its own whose ids collide with the host's. Shutdown:
`HostCloses`, `EndServer`, `ServerExits`, `Close` (which takes the snapshot of
the telemetry in flight) and `Exit`. The parser, back-pressure and frames that
pass through are left out. The `.catch` of an evaluation (71-73) is part of `Reject`:
all that can throw in `handleHostMessage` is inside its own try, but for writing
the message to the server, which for a tool that is not intercepted happens
before the first await, so that the call is answered as a rejected one is; an
intercepted message that was parsed is taken to be writable. Through `GateStatus` and `GateArgs` the state is read
as one of `ToolGate`: *cleared* from the policy's answer on, *refused* also when
aborted, *ran* when written.

### HermesGuard
*plugin.py* 79-228 and 283-393, for an enabled plugin with a key. A call goes
through idle, evaluating, allowed, running and, when its post hook carries no
id, matched, each on its own thread. `pending` maps keys to the call whose entry
it is (its trace is that call's decision), `order` is `_pending_order`, with
records of entries that were popped or replaced still in it as in the code.
The snapshot of run_protected may be refused (190-200), which ends the call in
`Before` without a report. `Pruned` says how many records `_prune_pending` drops by stating where it
stops, instead of repeating its loop. The mode and the trust in the hook order
are chosen initially, so that one run covers all of them. `Change` is another
hook or the caller of `run_protected` changing the arguments. The retrospective
review and the wording of results are left out. For an anonymous call the
task and session are part of `Action`. A host may give any id, `"unknown"` among
them, which after_action also looks up where nothing matched (221): the trace
of such a call is then found by an outcome that is not its own, and `TraceTrue`
names the case.

### Subsequences
What is left of an ordered map or a queue when some of its entries are taken
out, as `deque`, `OrderedDict` and JavaScript's `Map` leave it: `Subsequence` by
position (*plugin.py* 312-321), `Keep` by member (*security.js* 112-127, 236). Both
are closed definitions, which a prover can reason about, in place of a
recursive selection; `SubsequenceTheorems` has the facts about them.

### HookState
*aurel-hook.mjs* and *aurel-codex-hook.mjs*. `hook` says which of them is
installed: what differs is what is remembered (Claude Code's every traced
decision, Codex's every allowed call), what happens when the state cannot be
written (go on, deny), whether a user can be asked, what a call whose state is
gone reports, and what a lock that vanished between open and stat is taken for
(`Stale`). `pc[c]` is the next file-system call or request of call c's process:
`Open`, `Stat`, `Rm` and the `GiveUp` after ten seconds are `withStateLock`;
`List`, `Evict`, `Remove`, `Write` are the pruning and the write in it: the stats,
which are started together, are one step that chooses the files to go, and
each of these is removed by a step of its own; `Unlock` removes
the path, whoever's file it is; `Consume` is the second process, which takes the
file without the lock. `born` is the order of modification times. What the code
swallows is a step too: a file that cannot be looked at is no candidate
(`StatFails`), a removal that fails is passed over (`RemoveFails`, and in `Rm`), a
lock that cannot be removed stays until it is stale (`UnlockFails`). What it does
not swallow ends the save (`SaveFails`): the directory or the lock cannot be
created, the directory not read, the file not written. Environment:
the host kills a process anywhere (`Kill`) and then gives the call up or lets it
run without an answer (`loose`), a holder stalls for thirty seconds
(`LockAges`), the user refuses. `MaxFaults` bounds kills, stalls and swallowed
failures. The three attempts of a report are one step; creating the directory
and the lock are one.

### Evaluator
*server.mjs* 11-55 and *model.mjs* 26-84. A request is arrived, at its body, at
the model or ended; `active` is the counter of that name. `Close` is the
client's side of the connection; a closed connection makes `ModelFails`
possible and the answer disappear. `Verdict` is parseAnswer and the rules of
evaluateModel after it.

### RuntimeGuard
*aurel-tool-guard.ts* 73-325 and *sdk/index.ts*, in the two ways the adapters
use them: `wrapper` (LangGraph: preflight, the tool, postflight) and `guardrail`
(OpenAI Agents: preflight, and the agent goes on). `live` are the caller's
arguments, `judged` the snapshot the service is asked about, `plan` what
preflight resolved to and on whose word. `Outage` is the timeout, the refusal
and the abort of the request, which also closes the evaluator's connection.
`Abort` and `Change` are the caller's. The two adapters pass no signal; `Abort`
stands for direct callers of `runProtected`.

### OpenClawOutbox
*telemetry-outbox.js*. One process; a step is one stretch between awaits. An
enqueue goes through lock, scan, count, link, clean and unlock, and is `kept`,
`failed`, `lost` with the process, or `vanished`: failed because a file it
had listed was gone. Closing the lock's descriptor and unlinking the lock may fail
(`Unlock`, `Steal`, `Open`), and the lock stays; `derelict` is a history variable:
a lock was left that may be taken for stale. A flush lists, reads, sends and
unlinks. The service, up or down, refuses the events in `Refused` (they stand for
an unparsable file as well): the batch ends there (128-131), and the events
behind it, in the order of their digests, wait until it is purged for its age. What looks at the
queue again are the `retries` (the `#scheduleRetry` calls of finished flushes
that have not read the directory yet), `immediate` and `timer`.

### OpenClawGuard
*security.js* 90-300: `Local`, `Ask`, `Decide`, `AllowOnce`, `Decline` are
beforeToolCall and the resolution of its approval, `After` and `Close`
afterToolCall before and after its await, `Timer` the timer of a trace.
`traceByCall` is the map in insertion order, by the call whose entry it is;
`runs` and `actions` are the retrospective map. Ids may come back for a later
call, as the host may use them.

## 4. Runs

| Run | Instance | Shows |
|---|---|---|
| `enqueue` | 2 processes that may die, one of which may fail to unlink its lock and its staging file, 2 events, room for 1, 2 inodes, fair | lock and cap are right until a lock is orphaned; a lock or a staging file stays only where its own unlink failed, and the call that left its staging file raises; a pid verdict is never wrong; every enqueue ends; a dead owner's lock is recovered by the next call that finds it; `DurableSpool` is implemented until a lock is orphaned |
| `flush` | 2 chains, 3 events of which the second is always refused and may expire, batch of 1, 1 trouble, 1 crash, fair | nothing lost, nothing resent without cause, the flush lock matches a flush, somebody attends to the queue, the queue drains |
| `mcp` | 3 calls, 2 under one id (the service says anything of one, and allow, block or nothing of the other), 1 not intercepted, room for 1, fail-open | bounds, identity of answers, one true outcome each, cancellation, gate |
| `mcp_permits` | 2 calls with permits, a server that uses one of the ids, fair | everything is answered, the proxy exits, gate |
| `mcp_cancel` | as `mcp` | finding 1 |
| `mcp_malformed` | as `mcp_permits` | finding 2 |
| `hermes_guard` | 4 calls (2 interchangeable and anonymous for one action, 2 with ids), room for 3, all modes | bounded and purgeable correlation, truthful traces, gate |
| `hermes_race` | 2 anonymous calls, room for 3 entries | finding 3 |
| `hooks` | Claude Code and Codex: 3 calls, one of which may be killed, stall or meet failing calls of the file system, room for 2 files, either hook, fair; OpenClaw: 3 calls, 2 under one id, room for 1 trace, 1 session, 1 action | the Codex cap is exact, state is lost for room only, reports are true, every process ends; OpenClaw's reports are true and carry their own trace, and what its maps lose they lose for a cause |
| `hooks_cap` | as `hooks` | finding 4 |
| `runtime` | TypeScript guard: 2 calls, hosted service or evaluator with 1 place, fair; OpenClaw queue: 3 events, one of them left by an earlier process, the second always refused (and it and the first may expire), room for 2, batch of 1, 1 trouble, fair | the evaluator counts right, a tool runs on good grounds, once, as judged, everything settles; the queue keeps to its cap, loses nothing, is always attended to, and drains up to what is refused |
| `queue_vanish` | as `runtime` | finding 5 |

The two runs `hooks` and `runtime` each hold two systems that do not touch: the
initial state chooses one and the other never starts, so that the states add up
and do not multiply. `MCHooks` extends HookState and `MCRuntime` extends
RuntimeGuard, so that the properties they check are those the theorems state.
A module's type invariant is a conjunct of one of
its properties (`WithinCap`, `LockHeldByFlush`, `Bounded`, `PendingBounded`,
`CapExact`, `SlotsSound`, `Authorized`, `ReportsTrue`, `Accounted`).

**Why the bounds are enough.** A dead owner's lock involves the owner and a
contender, and so does one that a living owner could not unlink; a cap of one event makes two writers enough to exceed it, and two
inodes are enough for a file to be replaced under the same number. What needs a
third process, two contenders for one dead lock, is beyond `WithinCap`, which
claims nothing once a lock was orphaned: the second look before the unlink
narrows that window (`StaleVerdict` shows what it achieves) and, because the
unlink goes by path, does not close it.
In the flush, two chains suffice for one to hold the lock while the other
returns, hands over or fires a timer; three events with a refused one in the
middle have something delivered before it and something stuck behind it, and a
batch of one makes the batch limit bite. For the proxy, two calls under one id
and one beside them reach the cap of one and every confusion of ids. For the
guard, four keys and room for three evict, and leave records of entries that
were popped between those that are still there: with room for two, an earlier
form of `TraceKept` held that does not hold with room for three (an entry can be
popped by another call's match, and what was matched be evicted after that).
The two anonymous calls are interchangeable, which the run uses as a symmetry.
Ids that come back are not in the instance; the theorems of section 5 cover
them. For the hooks, a lock that is removed by mistake takes an owner, the
one that mistook it and a third, and three files exceed a cap of two. For the
evaluator, two requests meet at its one place. For OpenClaw, two calls under one
id replace each other's trace and the third evicts it; three events fill the
queue of two and leave a batch of one twice. What the bounds do not reach: two
crashes in the flush, two outages, two killed hooks, and caps larger than the
number of keys, where nothing is evicted.

`CHECK_DEADLOCK FALSE` stands in every configuration, because every one of
these systems really may stop: all processes dead, all events expired or
delivered, the proxy exited, all calls done.

**Fairness.** Weak fairness, with two exceptions, of: a process making its next call (the
operating system schedules it), and, the first exception, strong fairness of
its deadline (`DeadlinePasses`: a call that pauses again and again, between which
it makes other calls, finds the half second over at last: clocks run); each chain
of threads (threads run, timers fire), the end of an outage, the restart of a
dead plugin and the ageing of an event that is always refused (without these
three, nothing could promise delivery); the handlers of the proxy (requests
have timeouts: *aurel-mcp-proxy.mjs* 402-446, retries are finite: 313-326), its
reader, its close, and the kill of a server three seconds after its host went
(204). A server need not answer and a host need not close. For the hooks: a
process makes its next call, its requests have timeouts, and, as the second exception,
strong fairness of `GiveUp`: the ten seconds a process waits for the lock end
although the lock may be free in between (*aurel-hook.mjs* 476-498). For
`RuntimeGuard` one weak fairness of everything the guard and the evaluator can
do: a call takes finitely many such steps, so none can keep another from its
own; the caller, the tool and the hosted service may stop anywhere. For
`OpenClawOutbox` the event loop comes to what is due, and the service comes
back. `Drains` does not assume that a refused event ever expires: it says which
events wait behind one. `OpenClawGuard` has safety properties only and assumes nothing.

### Findings

1. **Cancellation of untracked calls** (`mcp_cancel`, *aurel-mcp-proxy.mjs*:46).
   A cancellation is forwarded only for ids in `pending`. Calls of tools that
   are not intercepted never are, and a call leaves the map when its
   correlation lapses. The MCP README says that cancellation after dispatch is
   forwarded.
2. **Malformed decisions with permits** (`mcp_malformed`,
   *aurel-mcp-proxy.mjs*:265). With execution permits an unsupported decision is
   an ordinary `Error`, taken for an outage, and a fail-open proxy forwards the
   call; the README says that malformed decisions always block.
3. **One entry matched twice** (`hermes_race`, *plugin.py*:220). Two identical
   anonymous calls that end together are both reported under one action id, that of
the older entry; the other entry stays until it expires. The run has room for
both entries and one more, so that no eviction is involved.
4. **A lock that was not seen** (`hooks_cap`, *aurel-hook.mjs*:486). Claude Code's
   hook removes the lock path when the stat after a failed open finds nothing,
   by which time another process may have created its own there. Two then prune
   and write at once and the directory exceeds the cap its README states. The
   Codex hook was repaired (`docs/PLUGIN-AUDIT-2026-09.md`:116), and `CapExact`
   shows that the repair holds.
5. **An enqueue that stumbles over a flush** (`queue_vanish`,
   *telemetry-outbox.js*:58). enqueue sizes each file it listed, while the flush of
   the same process, which takes no lock, unlinks what it delivered. The lstat
   of a file that is gone makes the enqueue fail and the event is lost, with
   room in the queue.

## 5. Proofs

`OutboxEnqueueProofs` proves, for all sets of processes, events and inodes,
finite or not, and every cap:

* `TypeCorrect`: `Spec => []TypeOK`;
* `LockIsHolders`: `[]LockMatchesHolder`, for any set of processes whose unlink of a
  lock may fail, and from it `Exclusion`: `[]MutualExclusion`;
* `CapKept`: `[]WithinCap`;
* `StagingCleaned`: `[]NoStagingLeak`, for any set of processes whose unlink of a
  staging file may fail;
* `VerdictSound`: `StaleVerdict`;
* `Refinement`: while no lock is orphaned, `Spec` implements `DurableSpool`, and
  `FaultFreeRefinement`: so it does without that condition where no process dies
  and no unlink of a lock fails, whatever else fails;
* `OverrunBounded`: whatever dies, if at most K processes at a time have counted
  and not linked, the queue holds at most K - 1 events more than its cap;
* `WideRefinement`: under the same condition, `Spec` implements `DurableSpool`
  with that wider cap;
* `AcknowledgedIsKept`: `[]Kept` of `DurableSpool`, whatever dies.

Neither exclusion nor the cap is inductive. The strengthening `IInv` says, as
long as no lock was orphaned, that open lock files have inode numbers of their
own (`DistinctInodes`), that the file at the path is a holder's, young and with
nothing in it but that holder's pid, or one that its living owner could not
unlink, with that owner's pid (`LockOwned`), that each holder's file is
there (`HolderInPlace`), and that therefore no check has concluded anything that
ends in a steal, and has seen an old file only where a living owner left one
(`ChecksHarmless`); without that proviso, that the
second look is only taken at the file of a dead process (`SeenDead`; death is
final). Exclusion follows in two lines: both holders' file is the one at the
path. `Room` carries what the count saw to the link: only the holder adds, so
there is still room. `VerdictSound` rests on `SeenDead` alone and so needs no
proviso. The refinement maps `spool`, `acked` and `gone` to themselves;
`Link` is `Store`, the `Release` of a successful call is `Acknowledge`,
`PurgeExpired` and `Deliver` are `Discard`, and everything else stutters.

What is left of the cap when processes die rests on `Overrun`: the events on disk
and the processes that have found room and not linked yet are together fewer
than the cap and K. A process that counts found room for all that is there
and joins at most K - 1 others, and a link moves one from the second to the first.
K = 1 is the cap itself. Beyond K the bound is as wide as the code allows:
with K processes past their count in a queue with one place left, all of them
link. The run `enqueue` checks the refinement with crashes for two processes; one
of them must die to orphan a lock, so that K is 1 there.

`OutboxFlushProofs` proves, for all sets of threads and events, every batch
size and any number of outages, failed starts, failed unlinks and deaths:

* `FlushTypeCorrect`: `Spec => []TypeOK`;
* `NothingLost`: `[]NoneLost`;
* `SentAgainForCause`: `[]SentOnce`;
* `LockIsFlush`: `[]LockHeldByFlush`;
* `SomebodyAttends`: `[]Attended`.

The ground of the argument is `OneFlush`: at most one chain is between taking
and releasing the flush lock, and the lock says whether one is. Hence the file
a flush has in hand stays what it was (`Sending`): before the send, if the
service already has it, some earlier sender may not know; before the unlink the
service has it, so nothing is lost. `Delivery` says why an event that the
service has can still be queued: its sender is about to unlink it, or may not
know. When a flush takes the next file no sender is about to unlink, so whatever
it repeats is unsure. `TimerLive` says that a registered timer has a thread or
never started: a chain that finds a timer registered may therefore leave the
queue to it, and one that finds the flush lock held may leave it to the flush,
which looks at the queue again after it releases the lock. `Down` says that a
death leaves nothing of this behind.

`HookStateProofs` proves, for every set of calls, every cap and every behaviour
of the service and the host:

* `CapIsExact`: `[]CapExact`;
* `ReportsAreTrue`: `[]OutcomesTrue`;
* `FilesAreLostForRoom`: `LostForRoom`;
* `OverrunIsBounded`: under either hook, if at most K processes at a time have
  listed the directory and not written their file, and no prune falls short
  because a file could not be looked at or removed, it holds at most K - 1 files
  more than the cap.

`CapExact` is inductive: while nobody was killed or stalled and no removal failed
under the Codex hook, the process in the section is the lock's owner and the lock is young
(`OneInside`), so no stat finds a stale one; its listing covers what is there,
because files are only added inside, and so what it still has to remove leaves a
place for its own (`Pruned`, from the cardinality of the listing).
`OutcomesTrue` needs to know of each call what its process carries with it
(`Sound`): no report before the first process reports or ends, a decision from
the moment there is one, never an allow where a refusal is reported, and under
Codex no file but of an allowed call. `LostForRoom` rests on `Backed`: what is or
was listed has been written, and a process that still has files to remove chose
them among more than the cap, so that many other calls had theirs written or are
about to; counting them is the proof.

For `OverrunIsBounded` it is not enough to count who is about to write, because
two processes that have listed the same files evict the same ones, and one that
has listed few may evict nothing. A removal that fails leaves more than that, and
the directory is then over the cap until a later prune. `RoomLeft` says of every group of processes that
have listed the directory that one of them knows enough of it: what it has not
listed, and what it leaves of what it has (`Leaves`, at most one less than the cap), have
room for the files of the whole group.
TLC found the bound to be tight, with four calls, caps of one and two and K = 2.

`McpProxyProofs` proves, for every set of calls and ids, every cap and any host,
server and policy service:

* `CallsAreBounded`: `[]Bounded`;
* `OutcomesAreTrue`: `[]OutcomeTrue`;
* `OneOutcomePerCall`: `[]OneOutcome`;
* `OutcomesAreSettled`: `[]OutcomesSettled`;
* `MalformedIsBlocked`: `[]MalformedBlocks`, where permits are not used (with
  them finding 2 refutes it);
* `CancelIsForwarded`: `CancelReachesKnown`;
* `ProxyImplementsGate`: `Spec => ImplementsGate`.

One invariant serves all of them. `Mapped` ties the two maps to the stages:
`evaluating` has exactly the calls between their acceptance and their end, each
under its own id, and `pending` has calls that were forwarded and of which
nothing is reported. So a call that moves from one map to the other was tracked
already and the cap (`Room`) has only to be checked on acceptance. `Sent` says
that a call the server has, or has answered, is the pending one of its id
unless the id is ambiguous, which is why an answer is taken for the call it is
of; `Fresh` that an undecided call has left nothing anywhere; `Single` that two
reports of a call are one; `Closing` that once the proxy closes nothing comes
from the server any more and what is in flight without being awaited was never
forwarded, from which `OutcomesSettled` follows at the exit; `Passed` that an
intercepted call at the server is one the policy or the outage rule let pass.

`HermesGuardProofs` proves, for every set of calls with and without ids, reused
or not, every cap and every interleaving of threads:

* `EntriesAreBounded`: `[]PendingBounded`;
* `TracesAreTrue`: `[]TraceTrue`;
* `TracesAreKept`: `[]TraceKept`;
* `EntriesAreKept`: `FreshKept`;
* `PluginImplementsGate`: `Spec => ImplementsGate`;
* `SingleMatchesAreDistinct`: `[]OutcomesDistinct`, which finding 3 refutes, where
  calls without an id share their action with no other (`Apart`) and no two threads
  are between looking up an entry and removing it (`Single`).

An entry is that of a decided call under its own key (`Owned`) and has a record
(`HasRecords`): `_prune_pending` stops at a record that is in use, so after it
either there is room or dropping one more record makes room, because that
record is an entry's (`Room`). What an anonymous call was matched with stays the
key of a decided call for its action although the lock is released in between
(`Matches`). For `TraceKept` the invariant follows an entry to where its trace
went: there, missed, or in another outcome, for the entry of a call (`OwnKept`)
and for the one it matched (`FoundKept`). The attempt to prove it is what showed
that `TraceKept` had lacked a disjunct. `Judged` is the ground of the refinement.
`SingleMatchesAreDistinct` follows a key: what a call has looked up is the key of an
allowed anonymous call and was reported for no other (`Finds`), and once it was
reported there is no entry under it, and never will be (`Spent`). TLC violates
`OutcomesDistinct` when either condition is dropped.

`OpenClawProofs` proves, for every set of calls, ids, sessions, replies and
events, every cap and batch and any number of troubles and deaths:

* `ClawReportsAreTrue`: `[]ReportsTrue` of `OpenClawGuard`;
* `ClawLosesForCause`: `LostForCause` of `OpenClawGuard`;
* `QueueIsAccounted`: `[]Accounted` of `OpenClawOutbox`;
* `QueueOverrunIsBounded` and `QueueImplementsSpool`: the bound and the refinement
  of `DurableSpool` as in `OutboxEnqueueProofs`, with the flushes, timers and deaths
  of the gateway; `LivingQueueImplementsSpool`: until a lock is left that may be taken
  for stale, by a death or by a failing unlink, the cap is that of the code;
* `SerialFailsForCause`: `[]FailsForCause`, which finding 5 refutes, where no flush
  purges or removes files while an enqueue looks at those it listed (`Serial`)
  and no lock is left for stale.

For the guard, every handler's step is first told by what it does to the
phases, decisions, reports and entries (`Turn`), and the invariant is then proved
once for all of them: one call of an id is busy at a time (`Solo`), a report is
made when its call leaves the open phases and so is the only one (`Reported`),
an id's entry is of an allowed call, alone, and while an allowed call waits or
runs no other call of its id has one (`Entries`). A trace that is not the call's
own was therefore left by an allowed call and is found by one that was not
(`Traced`). `Caps` has, beside the caps, that a session that is not in the map
has no actions; `LostForCause` then takes the cause from the step (`TraceCause`,
`ActionCause`). For the queue: every event that was linked is on disk, ingested or
expired (`Safe`); until a lock is left for stale the holder of the lock is alone, has
counted all that is on disk and links only where there is room (`Capped`); and
who stops looking at the queue leaves somebody else to (`Watched`), which is the
last conjunct of `Accounted` and inductive with the types. For the refinement every
step is told by what it does to the disk (`DiskStep`: an event that was never
there is stored, or some that were there leave) and to the calls that have
returned (`NextAcked`); `Unseen` says that an event is on disk, received or
expired only after its link, so that a retry or a late answer stores nothing
twice.

The theorems of OpenClaw state definitions that the runs `hooks` and `runtime`
check under the same names through an instance.

`SubsequenceTheorems` proves that `Subsequence` and `Keep` return the entries they
are asked for, no others, and the sequence itself when that is all of them. The
argument counts positions by induction; with `LeastNat` (a set of numbers has a
least one) an induction step is the refutation of a least counterexample, which
needs no theorem with an operator for a parameter.

`RuntimeGuardProofs` proves `SlotsAreSound`: `[]SlotsSound` of `Evaluator`, for every
set of requests. Every way out of the handler is one lemma (`FinishKeeps`),
which takes one request out of the set that the counter counts.
`SlotsStaySound` carries it over to the evaluator whose client is the TypeScript
guard: every step of theirs is a step of the evaluator or leaves it alone
(`EvaluatorSteps`).

It further proves, for every set of calls, model and evaluator:

* `RunsAreAuthorized`: `[]Authorized`;
* `OneReportPerCall`: `[]OneOutcome`;
* `GuardImplementsGate`: `Spec => ImplementsGate`.

Their common invariant `Inv` says what a call has at each stage (`Staged`), that
an answer is the last thing that happens to a request and an allow among them
is what a sure model said of a listed tool (`AnswersFit`), and that a runnable
plan and a run rest on a ground that lasts (`Grounds`): `plan` is not written
again, and an evaluator's allow stays. For the refinement every step is told by
what it does to one call (`GateStep`, `SameCall`): preflight's result is the
gate's `Clear` or `Refuse`, an abort of a cleared call its `Refuse`, `Execute`
its `Run`, and all else stutters, the caller's `Change` among it, because
`PlannedArgs` does not look at `live` for an intercepted call.

The proofs use the assumptions the modules name, which TLC evaluates in the runs
of each (as conjuncts of an ASSUME where the module is instantiated), and nothing
else. `ProxyAssumption` and `GuardAssumption` of `HermesGuard` say that `None` is no
call, no id and no argument, as `undefined` and `None` are not in the code; that
of `OpenClawGuard` says the same of `NoCall`, where the code has `null`.

**Where the claims of the findings hold.** Each finding is a promise of the
documentation that the code breaks, and its property is false. A theorem says
under which condition the promise is kept: `CancelIsForwarded` (1: a call that is
at the server, under an unambiguous id), `MalformedIsBlocked` (2: without permits),
`SingleMatchesAreDistinct` (3: one match at a time), `OverrunIsBounded` (4: with
K = 1, that is, one process at a time between listing and writing; and by how
much the cap is exceeded otherwise) and `SerialFailsForCause` (5: flush and enqueue
take turns). The conditions on the behaviour (`AtMost`, `Single`, `Serial`) are
what a repair would have to establish; that the code does not is what the runs of
the findings show.

Only model-checked: everything that needs fairness (`Terminates`, `Recovers`,
both `Drains`, `Answered` of the hooks and of the proxy, `Exits`, `Settles`), for
liveness and ENABLED are outside what the proof system handles. Also outside the
prover's reach are induction theorems with an operator as parameter, and recursive
operators; the models have none of these.

## 6. Not modelled, and why

* Pure functions of their input: configuration and URL parsing, redaction,
  exact JSON snapshots, payload limits, the wire format. The regular
  expressions of the local scan are data.
* The byte stream parser of the proxy: its output, frames in order, is the
  models' input.
* The byte caps of the outboxes next to their event caps: the same comparison,
  made at the same moment; and a second event with the digest of a queued one.
* What a report carries beside its status and trace, idempotency keys, and what
  the service does with a report it gets twice.
* The host's own timeouts for hooks and handlers, which the repository asks for
  and does not implement.
* The CrewAI guard, Hermes' retrospective maps and the Ollama installer: not begun
  (number 8 of the plan); nothing in the modelled parts depends on them.
* Windows' sharing errors on unlink, as far as a retry ends them: the same
  protocol. (An unlink that goes on failing is modelled.)
* In the outboxes' stale checks: errors of lstat and of reading the lock other
  than its absence. In the purges: a file that cannot be removed, which the next
  purge meets again. In the hooks: a part of a state file that a failing write
  leaves, which is no JSON for its second process; and the moments between the
  stats of one prune. In the proxy: a message that was parsed and is nested too
  deeply to be written again.
* Release scripts, legacy adapters, the mock server: no state of the product.
