# Tainer: a TLA+ development

Tainer (`src/`) is a Next.js application that manages Proxmox clusters: containers,
virtual machines, backups, alerts, an automatic load balancer and an assistant that can
call the same operations. Its own core logic is not in the pages but in the jobs that run
behind them in one Node process: loops on timers, operators' requests, JSON files, and
tasks that run on the cluster and are polled. Node runs one continuation at a time, so
nothing is preempted; but every `await` lets another tick, another request or the cluster
go on, and almost every function here reads a file, awaits, and writes.

This directory holds TLA+ modules for that logic, configurations that check them with TLC,
and theorems about them checked with TLAPS.

## 1. Inventory

| Component | State | Operations | Talks to |
|---|---|---|---|
| Load balancer observer (`lib/load-balancer/observer.ts`) | `tickInProgress`, a `SiteState` per site (pending migrations, breaker, last scores) in memory | `tick`, `tickSite`, `executeRebalancePlanStep`, `withTimeout`, start-up | Proxmox (lists, migrate, task status), plan store, settings, event log |
| Rebalance plan (`plan-store.ts`, `app/lb-actions.ts`) | `lb-plan.json`: one plan with its moves | compute, apply, cancel; `updateRebalancePlan` by the observer | optimizer, observer |
| Decision logic (`migration-trigger.ts`, `optimizer.ts`, `scorer.ts`, `guest-rules.ts`, `forecast.ts`) | none (pure), except EWMA and trend samples | which guest moves where, under budget, capacity, affinity, drain | observer |
| Node circuit breaker (`circuit-breaker.ts`) | failures and `openUntil` per node | record success and failure, availability, prune | observer |
| JSON stores (`store-utils.ts`) | a file per store, a read cache, in-flight reads, a promise queue per store | `mutateStore`, `readJsonFileCached`, atomic write | every other component |
| Backup engine (`backup-engine.ts`, `backup-run-log.ts`, `backup-policies.ts`) | active runs, the one backup in flight, guests being backed up (memory); run log and policies (files) | tick, manual run, retention | scheduler, Proxmox, Storage Box |
| Scheduler (`alert-scheduler.ts`) | the interval, last results | a tick: alerts, backups, snapshots, heartbeat, reconcile | the engines |
| Alert engine, runtime state (`alert-engine.ts`, `alert-runtime-state.ts`) | an entry per condition: active, notified when and how often | evaluate policies, fire, remind, resolve | Proxmox, webhooks |
| Heartbeat (`heartbeat-engine.ts`) | its own entries in a runtime store | evaluate, notify | webhooks |
| Storage Box (`storage-box.ts`) | transfer queue, manifest, retention remotely | offload, reconcile, browse | backup engine, SFTP |
| Copilot (`copilot/run.ts`, `store.ts`, `approval.ts`, `chat-store.ts`) | usage per user and day, chats, used approval nonces (memory) | a turn, tool calls, approvals | model providers, server actions |
| Proxmox client (`proxmox.ts`) | GET cache (10 s) and in-flight GETs, tickets, authentication breaker | every endpoint | the cluster |
| Sites (`site-store.ts`, `site-resolver.ts`, `site-context.ts`, `site-data.ts`) | registered sites; the site of the current request | resolve, run in a site's context, data path per site | every store |
| Authentication, permissions, groups, guest access, IPAM, images, CVE scanner, updates, state backup, pages | files, cookies | see `PROJECT.json` | external services |

**How they interact.** The observer and the operators' actions share `lb-plan.json` through
the mutation queue, and nothing else: a tick holds the plan it read across many awaits.
The scheduler's tick and a manual backup run share the engine's memory and the run log. All
of them see the cluster through cached lists and by polling tasks; the answer of a call can
be lost while its effect is not.

**What is hard.** Decisions taken on what was read several awaits before; two ticks at
once, because a timeout gives up waiting without cancelling, or because an interval does
not wait; memory (pending migrations, active runs) that a restart forgets and files that it
does not; a write that fails after the cluster has acted; caches whose life is as long as
the period of the loop that reads them; loops that must never stop for good.

**What makes each component correct.**

* *Load balancer*: never more migrations in flight than the limit; every running migration
  is counted; only applied plans are executed; what a plan reports of a move is what
  happened and stays so; a plan that ended stays ended; an applied plan ends; the observer
  goes on.
* *Stores*: no mutation undoes another; a failed one leaves no trace; none blocks the next;
  the cache follows the file.
* *Backups*: one at a time; a run ends complete, recorded with its outcomes, and in the end; a
  guest reported as backed up has an archive; a policy that is due runs.
* *Alerts, heartbeat*: a firing only for what lasted, and as often as the policy says; a
  recovery only of what was reported; entries that follow the world; what lasts is told, as
  far as a check reaches the policy at all (3.5).
* *Copilot*: the budget bounds use; what runs is charged; an approval is used once.
* *Decisions*: within the limit and not piled up on a node; anti-affinity kept; a node rests
  between two moves; a drain ends.

`PROJECT.json` lists every component with its status, and under `hazards` each of these
difficulties at the line where it bites.

## 2. Plan

| # | Module | What | State |
|---|---|---|---|
| 1 | `LoadBalancer` | observer, plan, operators, tasks | done: 5 runs |
| 2 | `JsonStore` | the queue, the cache, the file | done: 2 runs |
| 3 | `BackupEngine` | ticks, runs, retention, manual runs | done: 2 runs |
| 4 | `Placement` | the decisions over successive ticks: drains, overload, forecasts, affinity, cooldowns | done: 1 run |
| 5 | `AlertRuntime` | alert and heartbeat entries, overlapping checks, webhook failures | done: 1 run |
| 6 | `Copilot` | budget and approvals under parallel requests and restarts | done: 1 run |
| 7 | `RebalancePlan` | abstract life of one plan and of its moves, implemented by `LoadBalancer` without disturbances | done: `PlanRefines` in `lb_core` |
| 8 | `BackupEngine` | results in the run log, restarts | done, in `backup_runs` |
| 9 | `JsonStore_proofs`, `Placement_proofs`, `Copilot_proofs`, `AlertRuntime_proofs` | their types and safety, for all values of the constants | done: 3, 4, 4 and 4 theorems |
| 10 | `BackupEngine_proofs`, `BackupRecords_proofs` | types, archives and the slot; the records of the runs and their ends | done: 3 and 3 theorems |
| 11 | `LoadBalancer_proofs`, `LoadBalancerCalm_proofs` | what no disturbance breaks; the cap, the reports and the step simulation of `RebalancePlan` without them | done: 4 and 5 theorems |

A module for the circuit breaker was planned and is not worth one: a node whose breaker is
open has no score, but neither has a node without metrics, which is why it opened; so the
breaker changes no decision. `Placement` has the missing score.

Modules to be proved about have no RECURSIVE operator, bounds as constants with named
assumptions, and one action per operation.

## 3. Modules

### 3.1 LoadBalancer

One site's balancer. `pc[t]` is the await at which tick `t` stands, and the code between two
awaits is one action.

| Code | TLA+ |
|---|---|
| `tick` 621-697: the guard, settings, `getSiteState`, `finally` | `TickBegins`, `TickFindsDisabled`, `Leave`, `Released` |
| `withTimeout` 612 | `TickTimesOut`: `owner` is cleared, the tick itself goes on |
| `tickSite`: metrics and deployments | `MetricsFail`, `Fetch`, `FetchFails`; `Listed` is what the 10 s GET cache allows |
| `tickSite` 436-447: pending migrations | `PollPending`, `CountPending` |
| `executeRebalancePlanStep` 66-239 | `PlanRead`, `PlanPoll`, `PlanIdles`, `PlanSkips`, `PlanFires`, `PlanFireRefused`, `PlanSaves`, `PlanSaveFails`, `PlanCompletes` |
| `tickSite` 467-596: decisions | `Decide`, `Fire`, `FireRefused` |
| `tickSite` 598-610: pruning | `TickEnds` |
| `updateRebalancePlan` (by id, whatever the status) | `UpdateMove` |
| `computeRebalancePlanAction` | `ComputeReads`, `ComputeSaves` |
| `applyRebalancePlanAction` | `Apply` |
| `cancelRebalancePlanAction` | `CancelReads`, `CancelWrites` |
| settings, other pages | `Disable`, `Enable`, `PageLoads` |
| Proxmox | `Accepts`, `StartTask`, `TaskEnds`, `Drift` (external) |

State: `plan` is the file, `pending[gen]` the pending migrations of the current `SiteState`
(a disable or a restart creates the next one, and a tick still running keeps its own),
`copy[t]` the tick's copy of the plan, `cur[t]` the move it is about to save.

Left open, and so allowed to be anything: which guests the reactive balancer picks (within
what `evaluateMigrationDecisions` guarantees), which moves the optimizer prefers, whether a
target has capacity (`PlanSkips` may happen for any move), whether a call is refused.
`MaxConcurrent` does not change during a behaviour. The list of a tick is taken at one
moment. A migration the reactive balancer failed to start is, on a later tick, a new decision.

`Faults` names the disturbances an instance allows, each at most `MaxFaults` times in total:
timeout, restart, disable, cancel of a running plan, a plan applied while another request
is half done (two tabs), lost reply, a migration longer than an hour, exit status WARNINGS,
a guest moved by somebody else, a failed write.

### 3.2 JsonStore

One store: `Calls` are the calls of `mutateStore`, `Readers` read beside them. The file is
the set of mutations its content reflects. `kind` is how the store reads: `direct` from the
file, `cached` through `readJsonFileCached`, `closed` the same with `failClosed`. Reading is
two steps, opening and settling, since `rename` can fall between them; a read sees one
version of the file, because a write replaces it. `misread` records that an error was taken
for an empty store, which loses data by design of the fallback; `NoLostUpdate` is stated
without it.

### 3.3 BackupEngine

Files belong to a site context: an operator's request has its site's, the scheduler's tick
has none and falls back to the `PROXMOX_*` variables. So there are policies of the site and
policies of the environment context, a log for each, and one engine memory for both. A tick
goes `snapshot` (poll the one in flight) - `prune` - `update` - `clear` - `advance` - `trigger`
or `finalize` - `mark` - `delete` - `list` - `start` - `create`; a manual run `start` - `create`.

A record of the run log has whether its run ended and the results written to it
(`updateBackupRun`, `Logged`); the results of the run in memory are `active[p].completed`,
and the two differ: the result of a backup that did not start is pushed and not written, so
a run whose last start failed is recorded without it, and as a success if nothing else
failed. `Restart` empties the engine's memory and leaves the files, the policies that are due
and the tasks on the cluster; `before` remembers the last run of the process that died, whose
records no one ends any more and whose tasks no one polls. `None`, the absent policy, run or slot,
is assumed to be none of the values it stands in for.

The log can also be misread: `readStore` takes any error for an empty log
(`backup-run-log.ts:59`). `updateBackupRun` and `finalizeBackupRun` then find no run and return
without a word (`Misses`), so a result stays out of the record, or the record stays running
although the run is over; `createBackupRun` writes back a log with the new run only
(`ReadsLog`), which loses the record of every other run. `missed` has the runs whose record
lacks such news; a later write of the run's results mends it, since all of them are written
each time. The policies are read in the same way, and a tick that cannot read them finds none
due (`List`).

Offloading to the Storage Box
changes nothing here and is left out; so are a record's counts and times, a trigger whose
answer is lost, changes to the policies themselves, and `markPolicyRun` on a policy file that
it misread, which would write it back without policies (what a misread does to a mutation is
the subject of 3.2).

### 3.4 RebalancePlan

What a plan promises, in a page: a draft is applied, each queued move is started at most once
or given up, its report follows its migration, and the plan is completed at the end. There
are no ticks, files, polls or copies in it. `LoadBalancerRefinement` maps the detailed state
to it: the stored plan gives `status`, `guest` and `report`, the tasks of the cluster give
`run` (`RunOf`, with a value the abstract plan does not know for a move that ran twice).
`PlanRefines` is checked in `lb_core`, that is without disturbances, and proved (6); a cancel, or two ticks at
once after a timeout, does break it, since a move may then run after its plan ended or twice.

### 3.5 AlertRuntime

The alert engine (`alert-engine.ts`, `alert-runtime-state.ts`) and the heartbeat engine
(`heartbeat-engine.ts`) run the same kind of check on the same kind of entry, and differ
where it matters; `engine`, chosen in `Init`, says which one a behaviour is about.

An alert policy and its entries are files of a site context (`alert-policies.ts:240`,
`alert-runtime-state.ts:50`), and the pages write them in that of their site
(`alert-policy-actions.ts:123`). But everything that starts a check calls `runAlertCheck` in no
context: the scheduler (`alert-scheduler.ts:57`), the cron route (`api/alerts/check/route.ts:39`)
and the button that checks now (`alert-actions.ts:183`). `getActiveSiteConfig` then answers with
the `PROXMOX_*` variables' context or throws. So `home`, chosen in `Init`, says whose files keep
the policy of a behaviour, and `Reached` whether a check sees them: those of the environment
context if it is configured, and those of the heartbeat, which has one file for the program
and enters each site's context itself; never those of a site. Clearing all alerts runs in no
context either (`alert-actions.ts:218`). Clearing a single one runs in the site's, whose
entries no check ever writes: it finds nothing, and is no step.

| Code | TLA+ | Alert engine | Heartbeat |
|---|---|---|---|
| `getActiveSiteConfig` | `Reached` | of the environment context's policies | always |
| `shouldRunPolicy`, `shouldRunHeartbeat`, `force` | `Begin`, `BeginForced` | `lastCheckedAt` is written when the check is over, with the time it began | `lastHeartbeatCheckAt` is set when it begins, in memory |
| the fetches of a check | `Observe` | one thing after another; what Proxmox does not report is no condition | the same |
| `evaluateNotifications` | `Evaluate`, with `Seen`, `After`, `Fires`, `Resolves` | inside one mutation of the stored entries | on a copy read before |
| `dispatchWebhook` | `Send` | firings first, none repeated | the same |
| the end | `Finish` | `markPolicyChecked` | `writeRuntimeStore` of the copy |
| clearing | `Clear`; `HeartbeatClearReads`, `HeartbeatClearWrites` | one mutation of all entries | a read and a write |
| `setInterval`, settings, process | `Time`, `Switch`, `Restart` | | |

Time stamps are kept as ages, which stop at the last value any comparison can tell apart.
`streak` is not in the code: it is what the evaluations have really seen, against which the
messages are judged. `NoCopy` says that no clear is half done, and is assumed to be no table
of entries.

### 3.6 Copilot

One user with several requests: chat turns (`runCopilotTurn`) and approvals
(`/api/copilot/approve`, `executeApprovedTool`).

| Code | TLA+ |
|---|---|
| checks at the start, rate limit, what is left of the budget | `Start` |
| the four limits at the head of the loop | `Loop`, `AtLimit` |
| the model's answer, the slice of its calls that is kept | `ModelAnswers`, `ModelFails`, `Room` |
| the calls, the first gated one waits | `Call`, `Waits`, `Mint` |
| a closed stream, the `finally` block, `recordCopilotUsage` | `Disconnect`, `Record`, `Charge` |
| `verifyApprovalToken`, `consumeApprovalToken` | `Accept`, `Valid`, `Remembered` |
| `executeApprovedTool` | `Check`, `Run`, `ChargeApproved` |

`mode` is what the administrator's settings and the group's policy allow, and is read once by
a turn (`may`) and again by an approval. The reads of settings, usage and policy at the start
of a request are one step; so are the two readings of the clock in verifying and consuming a
token. `stamps` counts the turns of the last minute by their age; `Recent` is the set of them.
A call that names no tool, or with malformed arguments, is a read that
fails: counted and not run. An audit or usage write that fails is not modelled. Neither is the chat store, which
keeps what was said.

### 3.7 Placement

What `LoadBalancer` leaves open: which guest goes where, over successive ticks of one site.

| Code | TLA+ |
|---|---|
| `getDeploymentIndex`, GET cache of the length of the interval | `List` |
| `tickSite` before the evaluation | `Evaluate` |
| drain loop: largest guest first, `drainSpacingMs` | `DrainNode`, `DrainChoices`, `DrainTargets` |
| `evaluateNodeTrigger` and its hysteresis count | `Balance`, `Breaches`, `Judged` |
| overload loop | `OverloadNode`, `AutoChoices` |
| forecast loop | `PredictNode`, `Predictable` |
| `findValidTarget`, `selectNodeP2C`, `baseExclusions` | `Candidates`, `Drawn`, `Barred`, `AntiNodes` |
| `isAutoMovable`, `findAffinityPeerNode` | `AutoMovable`, `PeerNodes` |
| budget of an evaluation | `HasBudget` |
| loop over the decisions, end of a migration | `Fire`, `Land` |

`Cooldown` is `migrationCooldownSeconds`, 30 to 3600 s (`settings.ts:180-185`), `Spacing` the fixed
60 s of a drain (`migration-trigger.ts:23`), both in ticks; either may be the longer one, and the
two share one map and one count (`Left`).

Open is what a score is: the hot nodes are any set that nonnegative scores above the average
by the threshold allow (`MayBeHot`), the node drawn is any candidate. The
evaluation does not await, so nothing else moves while `Evaluating`. Not here: the moves of a
plan and lost replies (`LoadBalancer` has them), stopped guests, dry run, and
`excludedNodes`, which is maintenance without the drain.

## 4. Runs

| Run | Instance | Shows |
|---|---|---|
| `lb_core` | 2 guests, 2 nodes, 3 tasks, 1 tick, limit 1, 1 plan, no disturbance | `Cap`, `NoneForgotten`, `PlanTruthful`, `OutcomeFinal`, `PlanRefines` |
| `lb_faults` | 1 guest, 2 nodes, 2 tasks, 2 ticks, 2 plans, any one of the ten disturbances | `TypeOK`, `MovesHaveTasks`, `OnlyApplied`, `PlanNeverRevives` |
| `lb_live` | 1 guest, 2 nodes, 1 task, 2 ticks, one timeout, restart or lost reply | `ActivePlanSettles`, `TicksGoOn` |
| `lb_cap` | as `lb_core`, one cancel | violation of `Cap` |
| `lb_cancel` | as `lb_core`, one cancel | violation of `CancelDropsQueued` |
| `store_all` | 3 calls, 1 reader, 3 kinds of store, 1 error | `TypeOK`, `NoLostUpdate`, `FailedInvisible`, `EveryCallEnds`, `CacheConverges` |
| `store_stale` | 1 call, 1 reader, cached store | violation of `NeverStale` |
| `backup_runs` | 1 policy per context, 2 guests, 1 tick, 1 manual run, 1 fault of six, a failed read of the log or the policies among them | `TypeOK`, `OneBackupAtATime`, `SuccessHasArchive`, `ScheduledRunsRecorded`, `RecordsTell`, `RunsEndComplete`, `RunsEnd`, `DueRuns` |
| `backup_scheduled` | 1 site policy, no environment context | violation of `PoliciesRun` |
| `alert_checks` | both engines, every policy, of a site and of the configured environment context; 1 condition, 2 checks, 1 disturbance of six | `TypeOK`, `FiringsDue`, `ResolvedWasFiring`, `HeartbeatSpaced`, `EntryFollows`, `LastingTold`, `LastWord` |
| `copilot_budget` | 2 turns and 1 approval side by side, 1 token, budgets of 2, 1 disturbance of four | `TypeOK`, `ApprovedOnce`, `BudgetBounded`, `Counted` |
| `lb_placement` | 3 nodes, 3 guests, one anti-affinity and one affinity pair, one guest moved by hand only, limit 2, 1 disturbance of seven | `TypeOK`, `DecisionsBounded`, `AntiAffinityKept`, `Paced`, `DrainEnds` |

**Bounds.** Guests, nodes, tasks and ticks are symmetric in the safety runs. Two guests and
three tasks are the least at which the plan and the reactive balancer compete for a slot and
a move can be tried again; one tick is exact without timeouts and restarts, since
`tickInProgress` excludes a second. Two ticks with one disturbance are enough for a tick that
was given up to meet its successor; two plans, for a late save to meet a plan that is not
its own. Three calls give the queue a middle; one error lets each of them be the one that
fails. With two guests a run has one in flight, one waiting and one finished; `Retention` 1
is the smallest that keeps anything. With `MaxRuns` 1
the scheduler's policy comes due until the first run is created; the manual run and a
policy found due again after a fault add theirs. The scheduler's policy has both guests in
scope, the site's one or none. One condition is enough for the properties of `AlertRuntime`,
each of which is about one: conditions share nothing but the check that handles them, and two
checks are what an overlap needs. That the firings of a check leave before its recoveries
needs two conditions, and no behaviour of the instance shows it; nothing is stated of it. There
`Grace` 1, `Reminder` 2 and `Interval` 1 let a condition be too young, and a reminder be due
before and after the next check. A budget of two calls and two tokens
can be half used; two turns and an approval are three requests beside each other. Three
nodes leave a drained node two targets, of which one can be full or hold the other member of
the group; as nodes are otherwise alike and one disturbance happens, it is enough that one
named node is put into maintenance and another one fills up. There a drain is spaced more
closely than the automatic moves (`Spacing` 1, `Cooldown` 2); with the two exchanged, as with a
cooldown below a minute, the run passes as well, and the theorems (6) compare them in no way.

A behaviour of the balancer that has used up its task identifiers starts nothing more: ticks
go on (`FireRefused`), so no deadlock is excused; only the store and the backups, where the
calls run out, are checked without deadlock.

**Fairness.** `LoadBalancer!Fairness`: the interval begins ticks for ever (`setInterval`,
never cleared), a continuation that can run does run, Proxmox ends its tasks; a request made again and again (a list, a poll of a task)
succeeds in the end, which is the strong fairness there. No fairness on operators, on faults
or on which way a call goes. `JsonStore!FairSpec`: continuations run and time passes.
`BackupEngine!FairSpec`: the interval fires, continuations run, vzdump tasks end; nothing on
manual runs or on policies coming due. `AlertRuntime!Spec`: time passes, a check that is due
begins where it reaches the policy (of a site's policy none ever begins, and no fairness helps),
a check that began goes on (each request and webhook has a timeout), and so does a
clear; nothing on conditions, switches or faults. `Placement!Spec`: the interval goes on
calling `tick`, and a migration that began comes to its end (`[]<>(g \notin InFlight)`).
`Copilot` states none, and has no liveness to check: a turn may end when it likes.

**Variants.** An operator named `Def_Variant` is `Def` with a plausible mistake in it (a dropped
guard, a missing reset); nothing uses it. `PROJECT.json` pairs each property of a passing run with
the variant that violates it when it stands in for `Def`.

## 5. What the checks found

Four runs show the code and what is written about it disagree.

* `lb_cap`. `docs/load-balancer.md:38`: the number of in-flight migrations never exceeds the
  limit. A cancelled plan's migration is no longer counted (`observer.ts:87` looks at active
  plans only), so the next tick starts another.
* `lb_cancel`. `docs/load-balancer.md:79`: cancelling drops the queued moves. A tick that has read
  the plan (`observer.ts:86`) before the cancel fires its move after it (`observer.ts:166`).
* `store_stale`. `store-utils.ts:9`: writes invalidate the cache, so it cannot be stale. A read
  under way across a write puts the old content back into the cache (`store-utils.ts:100`). It
  heals when the entry expires (`CacheConverges`); a mutation through a cached store in
  between works on the old content, which is why `NoLostUpdate` is stated for direct stores.
* `backup_scheduled`. `backup-policies-list.tsx:289`: each policy runs independently via the
  scheduler. The tick has no site context (`alert-scheduler.ts:72`), so a site's policies are
  never found due. **The alert check has the same fault** (`alert-scheduler.ts:57`; 3.5): a policy
  made on a site's page is never evaluated, by the scheduler or by its button, and no alert of
  it is ever raised, while `alerts-settings-panel.tsx:235` says that the scheduler "ticks every 30
  seconds and evaluates each policy when its check interval is due". No run of its own shows
  it; in the model it is the guard `Reached`, and `EntryFollows` and `LastingTold`, which fail
  without that condition, are stated with it.

Under the disturbances, with the instance of `lb_core`, two ticks and any one of them, the four
properties of `lb_core` fare as follows (x: TLC finds a violation, ok: it finds none, -: not
searched to the end). The doc that promises the cap names no such exception, but none of
these is a new disagreement, so they are not kept as runs.

| Disturbance | `Cap` | `NoneForgotten` | `PlanTruthful` | `OutcomeFinal` |
|---|---|---|---|---|
| timeout | x | x | x | x |
| restart | x | x | x | - |
| disable | x | x | - | - |
| cancel | x | x | x | - |
| tabs | x | x | ok | ok |
| lost reply | x | x | x | ok |
| long migration | x | x | ok | ok |
| warnings | ok | ok | x | ok |
| drift | ok | ok | ok | ok |
| failed write | x | x | x | ok |

What holds under all ten is what `lb_faults` checks.

`BackupEngine` is checked with ticks that do not overlap. The interval does not prevent an
overlap (`alert-scheduler.ts:141`), and with two ticks at once `OneBackupAtATime`,
`RunsEndComplete` and `RunsEnd` fail; with two overlapping manual runs of a policy (fault
`race`) `RunsEndComplete` fails and `RunsEnd` holds. That a record has every result of its run
fails as described in 3.3, and that no result of a started backup is missing from an ended
record, or no record left running, fails under a read error of the log unless the runs in `missed`
are excepted. These instances are not kept as runs.

What follows was found with stronger forms of properties that are kept in the form
that holds.

* *Alerts.* The scheduler does not wait for a check, and the alert engine notes a check only
  after its webhooks, so checks overlap. The engine then still fires only what is due
  (`FiringsDue` needs no exception), but its messages may leave in another order than they
  were decided, and the last one about what is over may say that it fires: `LastWord` is
  stated without overlap. With `notifyOnce` a message whose webhook fails is never sent
  again, so `LastingTold` is stated for reminders.
* *Heartbeat.* Its second episode fires at the first observation, since the entry keeps
  `firstObservedAt` of the first one; two recoveries can be reported in a row, when the second
  episode is shorter than the reminder interval and so sends no firing, since the entry also
  keeps `lastNotifiedAt`; and overlapping checks send two firings at once. So
  `HeartbeatSpaced` is what is left of `FiringsDue`.
* *Copilot.* Requests beside each other each see the whole budget, so use is bounded by the
  budget times their number and not by the budget (`BudgetBounded`). A restart forgets which
  approvals were used, and within its lifetime one can be used again (`forgotten`). The tokens
  of a round that a closed stream interrupts are not charged; its calls are (`Counted`).
* *Placement.* The list an evaluation works on may be older than the last migration, so two
  members of an anti-affinity group can meet although one at a time is moved
  (`docs/load-balancer.md:102` has no exception): `AntiAffinityKept` speaks of guests the list
  is right about. A drain follows affinity first and does not look at anti-affinity there. A
  guest that Proxmox refuses to migrate, and is the largest on its node, keeps the others
  from leaving (`docs/load-balancer.md:82-90`): `DrainEnds` excludes it. The hysteresis count
  survives a time in maintenance (`docs/load-balancer.md:36` speaks of consecutive polls).
  These are limits of `lb_placement` and were seen in variants of its instance.

## 6. Theorems

Each is about the `Spec` of the module it extends, for all values of the constants that
satisfy the module's assumption: any finite set of guests, nodes and tasks, any ticks, checks,
requests, calls and readers, any limits and intervals.

| Module | Theorem | Under |
|---|---|---|
| `LoadBalancer_proofs` | `TypeCorrect`: `[]TypeOK` | any faults |
| | `AppliedOnly`: `[]OnlyApplied` | any faults |
| | `MovesBacked`: `[]MovesHaveTasks` | any faults |
| | `PlanStaysEnded`: `PlanNeverRevives` | any faults |
| `LoadBalancerCalm_proofs` | `CapHolds`: `[]Cap` | no faults but `warnings` and `drift` |
| | `NothingForgotten`: `[]NoneForgotten` | no faults but `warnings` and `drift` |
| | `OutcomeStays`: `OutcomeFinal` | no faults but `warnings` and `drift` |
| | `PlanTellsTruth`: `[]PlanTruthful` | no fault but `drift` |
| | `PlanIsCarriedOut`: `PlanRefines` | no fault but `drift` |
| `BackupEngine_proofs` | `TypeCorrect`: `[]TypeOK` | any faults, any overlap |
| | `SuccessesHaveArchives`: `[]SuccessHasArchive` | any faults, any overlap |
| | `OneBackup`: `[]OneBackupAtATime` | any faults; one tick at a time |
| `BackupRecords_proofs` | `RunsRecorded`: `[]ScheduledRunsRecorded` | any faults (the property excepts runs that a failed read touched); one tick at a time |
| | `RecordsTellOutcomes`: `[]RecordsTell` | the same |
| | `RunsEndWithResults`: `RunsEndComplete` | any fault but `race`; one tick at a time |
| `Placement_proofs` | `TypeCorrect`: `[]TypeOK` | any disturbances; any cooldown and spacing |
| | `DecisionsKeepBounds`: `[]DecisionsBounded` | the same |
| | `NodesRest`: `Paced` | the same |
| | `GroupsKeptApart`: `AntiAffinityKept` | the same |
| `Copilot_proofs` | `TypeCorrect`: `[]TypeOK` | any disturbances |
| | `ApprovalUsedOnce`: `[]ApprovedOnce` | any disturbances |
| | `RunsCounted`: `Counted` | any disturbances (the property excepts the death of the process) |
| | `BudgetHolds`: `[]BudgetBounded` | any disturbances |
| `AlertRuntime_proofs` | `TypeCorrect`: `[]TypeOK` | any disturbances |
| | `FiringsAreDue`: `FiringsDue` | any disturbances |
| | `ResolvedWasTold`: `ResolvedWasFiring` | any disturbances |
| | `RemindersAreSpaced`: `HeartbeatSpaced` | any disturbances (the property excepts them) |
| `JsonStore_proofs` | `TypeCorrect`: `[]TypeOK` | any errors |
| | `FailedLeaveNoTrace`: `[]FailedInvisible` | any errors, all kinds of store |
| | `UpdatesKept`: `[]NoLostUpdate` | any errors |

In the load balancer:

**Types.** `TypeOK` is not inductive alone. `GenBound` ties the number of `SiteState` objects to
the disturbances that can drop one, and `CurInPlan` says a tick about to save has a move to
save. `TypeInv` adds both.

**Plans.** `AppliedInv` adds that the plans a tick holds are ones that were applied, that
their ids are at most the number computed so far, and that a tick inside a step has one.
With the ids numbered, a late save by id reaches its own plan or none. `PlanStaysEnded`
follows from it action by action. `BackedInv` says every migrating or done move has its
task, in the file and in every tick's copy alike; tasks only ever go forward (`Later`), and
saving writes a move that is backed.

**The cap.** It rests on what a tick knows while it acts. `CapInv` adds to the types:
`OneTick` (only the tick that holds `tickInProgress` is under way), `RequestsWait` (a
request is half done only while no plan is active), `CopyCurrent` (the tick's copy is the stored plan,
but for the move it is about to save), `AllCounted` (every running migration is a pending
one or a migrating move, of the tick's copy while it steps and of the stored plan otherwise), and `CountsBound` (what the tick has
counted and what it may still start fit in the limit). The disturbances that break
the cap break one of these: a cancel or two tabs `RequestsWait`, a timeout, a restart or a
disable `OneTick`, a lost reply, a failed write or the one-hour prune `AllCounted`. A guest moved by
somebody else and a task that ends with warnings touch none of them, and the theorems allow
both. Cardinalities of unions are bounded with the library's theorems on finite sets.

**What the plan reports.** `ShapeInv` adds to `CapInv` and `AppliedInv` that a plan moves a guest
once (`PlanShape`) and that a tick that saves a move finds it queued in the store, and one that
completes a plan has no queued move left (`StepShape`). From it follows what each step does to
the stored plan, in one lemma per action (`PollFacts`, `StepFacts`, `SavedFacts`,
`CompleteFacts`): it changes at most one move, and only a queued or a migrating one. That is
`OutcomeFinal`. For the rest `TruthInv` compares the plan with the tasks of the cluster, move by
move (`TrueMove`: a queued or skipped move has no task of the plan, a migrating one has exactly
the task it names, a done or failed one had at most one, that ended so). The stored plan is not
always true: between the start of a migration and the save of the move (`PlanFires` to
`PlanSaves`) it says queued while a task runs. So the invariant is about the copy of the tick
that executes the plan, which knows first, and about the stored plan when no tick does
(`AllTrue`). Each further disturbance breaks a part of it: an end with warnings is reported as
failed although the guest has moved, a lost reply and a failed write leave a task that no move
names.

**The refinement.** `PlanIsCarriedOut` maps the steps under `TruthInv`: `PlanFires` and the start
it makes are `Start`; `PlanSaves` is `Announce`, or `GiveUp` of a move that was skipped or
refused; `PlanPoll` is `Conclude`, `PlanCompletes` is `Complete`, `Apply` is `Apply`;
`ComputeSaves` and the removal of a plan that is over are `Replace`; `TaskEnds` is `End` of the
move its task was started for, and a stutter if there is none; all other steps stutter. That a
move has one task at most (`RunOf` is never "twice") is again `TrueMove`.

**Decisions.** `TypeInv` adds to the types that the hot nodes of an evaluation are used in
its balance loop only. `BoundInv` holds the facts a decision rests on later: its source was
visited and the list had its guest there, so no later turn of a loop decides about that node
or guest again.
`RestInv` is about the cooldown: what is left of a node's rest is never more than what the
code counts down, and a node decided for has rested.

**Approvals and budget.** `CardsInv`: a card that was accepted is remembered until it expires,
unless a restart forgot it. `RequestsInv`: what a turn has used fits in the quota it read, it
ran no more than it counts, and an approval that ran is on its way to be charged. `BudgetInv`
adds up what all requests have charged and still hold, as one set of cells, so that the bound
is a fact about its cardinality. `LimitsInv` has what the types add to these: that a turn's calls
fit in its limit with those still to come, and that no minute starts more turns than the rate
allows.

**Alerts.** The engine goes by its entries, the properties speak of streaks. `Tells` links the
two: an entry is active as long as its streak lasts, is as old as it, and knows of its
messages and of no others. It is inductive because the engine changes its entries in one
mutation, whatever checks overlap. The heartbeat engine writes back what it read
and has no such invariant; the two theorems on firings and recoveries speak of the alert engine
only. For the heartbeat engine `SpacedInv` holds as long as no checks overlap and nothing is
cut short: the entry, or the copy of the check that sends, knows the last firing
(`KnowsFiring`), and knows none only if the reminder interval has passed since. With an overlap
the second check evaluates entries that do not know the first one's firing.

**Backups.** `TypeInv` says what an actor holds at each stage (`Fits`) and that an active run is not
of a dead process. `ArchiveInv` follows a success from the task to the report: a task that
ended well has left an archive, the tick that prunes has one to keep and keeps at least one.
Nothing in it needs the ticks to be apart. The slot does: `SlotInv` says that a backup that
runs is the one in the slot, that a tick that polls works on the slot, and that one that
starts a backup or ends a run has found it free; two ticks at once free it under each other.
`OneTick` is that assumption in the theorems: `Ticks` has at most one member, so no tick takes
longer than the interval, as in the run; manual runs go beside it.

**Records.** Three questions make up `RecordInv`. Whose is a run: the scheduler's log knows no
run of a site's policy, and no two policies share one (`RunsApart`). Who ends a record: a record
that is not ended has its active run, or the tick that just found it empty (`RecordsKept`). What
was told: every task of a run that is not the one in the slot has its result in memory and in
the log (`ResultsKept`), and a record that is ended has all of them (`RecordsClosed`). Between a
read of the log and its write all of this is about the tick's copy, so `TickInv` says for each
stage what the tick has in memory, in the log and in its copy; no one else writes that log
meanwhile, as manual runs have the site's. A failed read of the log takes a run out of all
statements about records by putting it into `missed`, which only a full write of its results
undoes; that what else the log still has is right, and nothing in memory is harmed, is part of
what is proved. (Of records that a misread erased the properties say nothing.) `EndInv` is about runs that leave the engine: a tick
that ends a run found a result for each of its guests, and the run is still the active one of
its policy. It needs `NoRace`: two manual runs of a policy at once replace each other's run
while a tick ends it.

**The store.** `Line` gives each call a place in the queue: the calls before place `h` are
over, a call that works stands at `h`, and each waits for the one before it. So one call works
at a time (`OneBusy`), and what it read is still the file when it writes (`CurrentCopy`).
`WrittenOnly` says that what is stored, cached or read shows written mutations only, for the
cached stores too.

**Only model-checked.** Liveness under fairness is out of the prover's reach:
`ActivePlanSettles`, `TicksGoOn`, `EveryCallEnds`, `CacheConverges`, `RunsEnd`, `DueRuns`,
`EntryFollows`, `LastingTold`, `LastWord`, `DrainEnds`. Every invariant and every action property
that a passing run checks is a theorem, under the conditions of the table.

## 7. Not modelled

Several sites at once (the observer serves them concurrently, with `Promise.all`, under one
flag, so a slow site delays the next tick of the others; their state is separate), EWMA and scores, host-load trend, event log and
SSE; the node circuit breaker (see the plan); lost trigger answers of the backup engine;
changes to alert and backup policies while they run; the transfer queue of the Storage Box and
the subscribers of live events, which are self-contained and come after the above; and the
components marked
`not_modelled` in `PROJECT.json`, each with its reason: pure I/O and protocol adapters
(authentication, SFTP, image downloads, providers of the assistant), pages, and the parts
of the plan above that are still to come.
