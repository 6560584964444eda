---------------------------- MODULE LoadBalancer ----------------------------
(***************************************************************************)
(* The load balancer of one site: the observer's ticks, the rebalance plan *)
(* kept in lb-plan.json, the operator's requests on that plan, and the     *)
(* migration tasks Proxmox runs for them.                                  *)
(*                                                                         *)
(* A tick is asynchronous: every await of tickSite and of                  *)
(* executeRebalancePlanStep is a point where the operator's actions,       *)
(* Proxmox, and another tick whose predecessor timed out can run.  pc[t]   *)
(* names the await tick t is at, and the code between two awaits is one    *)
(* action.  Which guests the reactive balancer picks is left open here, up *)
(* to what evaluateMigrationDecisions guarantees of its choice.            *)
(***************************************************************************)
EXTENDS Naturals, FiniteSets

CONSTANTS
  Guests,         \* the site's guests (vmid)
  Nodes,          \* the site's Proxmox nodes
  Tasks,          \* task identifiers Proxmox can hand out (UPIDs): a bound
  Ticks,          \* tick invocations that can be alive together: a bound
  NoNode, NoTask, NoTick,
  MaxConcurrent,  \* settings.maxConcurrentMigrations
  MaxPlans,       \* plans computed over a behaviour: a bound
  Faults,         \* the kinds of disturbance this instance allows
  MaxFaults       \* how many of them happen over a behaviour: a bound

ASSUME LBAssumption ==
  /\ IsFiniteSet(Tasks) /\ IsFiniteSet(Guests) /\ IsFiniteSet(Nodes)
  /\ Guests # {} /\ Nodes # {}
  /\ MaxConcurrent \in Nat \ {0}
  /\ MaxPlans \in Nat
  /\ MaxFaults \in Nat
  /\ NoNode \notin Nodes /\ NoTask \notin Tasks /\ NoTick \notin Ticks

FaultKind ==
  {"timeout",   \* a tick outlives tickTimeoutSeconds
   "restart",   \* the Tainer process dies and starts again
   "disable",   \* the operator switches the balancer of the site off
   "cancel",    \* the operator cancels a running plan
   "tabs",      \* a plan is applied while another request on it is half done
   "lostReply", \* Proxmox starts a task but the call errs (15 s socket timeout)
   "long",      \* a migration runs for more than an hour
   "warnings",  \* a migration ends with exit status WARNINGS
   "drift",     \* a guest is moved by somebody else (HA, an administrator)
   "write"}     \* a write of lb-plan.json fails

MoveStatus == {"queued", "migrating", "done", "failed", "skipped"}
Move == [guest : Guests, src : Nodes, dst : Nodes, st : MoveStatus,
         upid : Tasks \cup {NoTask}]
(* A plan moves a guest at most once. *)
Moves == UNION {[1..n -> Move] : n \in 0..Cardinality(Guests)}
PlanStatus == {"none", "draft", "active", "completed", "cancelled"}
Plan == [id : 0..MaxPlans, status : PlanStatus, moves : Moves]
NoPlan == [id |-> 0, status |-> "none", moves |-> << >>]
Decision == [guest : Guests, src : Nodes, dst : Nodes]
TaskRec == [st : {"free", "running", "ok", "warnings", "error"},
            guest : Guests, dst : Nodes, plan : 0..MaxPlans]
TickPc == {"idle", "fetch", "poll", "read", "pollmoves", "save", "complete",
           "decide", "fire", "end"}

VARIABLES
  \* Proxmox
  loc,        \* where each guest is
  task,       \* the migration tasks; field plan is the plan it was started for, or 0
  \* persisted by Tainer
  plan,       \* lb-plan.json
  enabled,    \* settings.enabled
  \* memory of the Tainer process
  owner,      \* tickInProgress, as the tick that holds it
  present,    \* whether observer.siteStates has an entry for the site
  gen,        \* SiteState objects created so far; the latest is number gen
  pending,    \* pendingMigrations of each SiteState, not yet known completed
  cached,     \* the guest list in the Proxmox GET cache
  request,    \* a compute or cancel request between its read and its write
  \* locals of tick t
  pc, site, seen, active, copy, cur, moving, decisions,
  \* bookkeeping of the model
  plans,      \* number of plans computed so far
  applied,    \* ids of the plans the operator applied
  faults      \* disturbances so far

proxmoxVars == <<loc, task>>
locals == <<pc, site, seen, active, copy, cur, moving, decisions>>
siteVars == <<present, gen, pending>>
vars == <<loc, task, plan, enabled, owner, present, gen, pending, cached, request,
          pc, site, seen, active, copy, cur, moving, decisions, plans, applied, faults>>

Gens == 0..(MaxFaults + 1)
Unknown == [g \in Guests |-> NoNode]
NoRequest == [kind |-> "idle", id |-> 0]
Request == [kind : {"idle", "compute", "cancel", "clear"}, id : 0..MaxPlans]

(* One disturbance of kind f happens in this step. *)
Disturb(f) == f \in Faults /\ faults < MaxFaults /\ faults' = faults + 1

Running == {k \in Tasks : task[k].st = "running"}
Finished_AnyAnswer(k) == task[k].st # "free"
Finished(k) == task[k].st \in {"ok", "warnings", "error"}

TypeOK ==
  /\ loc \in [Guests -> Nodes]
  /\ task \in [Tasks -> TaskRec]
  /\ plan \in Plan
  /\ enabled \in BOOLEAN
  /\ owner \in Ticks \cup {NoTick}
  /\ present \in BOOLEAN
  /\ gen \in Gens
  /\ pending \in [Gens -> SUBSET Tasks]
  /\ cached \in [Guests -> Nodes \cup {NoNode}]
  /\ request \in Request
  /\ pc \in [Ticks -> TickPc]
  /\ site \in [Ticks -> Gens]
  /\ seen \in [Ticks -> [Guests -> Nodes \cup {NoNode}]]
  /\ active \in [Ticks -> Nat]
  /\ copy \in [Ticks -> Plan]
  /\ cur \in [Ticks -> Nat]
  /\ moving \in [Ticks -> Nat]
  /\ decisions \in [Ticks -> SUBSET Decision]
  /\ plans \in 0..MaxPlans
  /\ applied \subseteq 0..MaxPlans
  /\ faults \in 0..MaxFaults

Init ==
  /\ loc \in [Guests -> Nodes]
  /\ task = [k \in Tasks |-> [st |-> "free", guest |-> CHOOSE g \in Guests : TRUE,
                              dst |-> CHOOSE n \in Nodes : TRUE, plan |-> 0]]
  /\ plan = NoPlan
  /\ enabled = TRUE
  /\ owner = NoTick
  /\ present = FALSE /\ gen = 0
  /\ pending = [s \in Gens |-> {}]
  /\ cached = Unknown
  /\ request = NoRequest
  /\ pc = [t \in Ticks |-> "idle"]
  /\ site = [t \in Ticks |-> 0]
  /\ seen = [t \in Ticks |-> Unknown]
  /\ active = [t \in Ticks |-> 0]
  /\ copy = [t \in Ticks |-> NoPlan]
  /\ cur = [t \in Ticks |-> 0]
  /\ moving = [t \in Ticks |-> 0]
  /\ decisions = [t \in Ticks |-> {}]
  /\ plans = 0 /\ applied = {} /\ faults = 0

-----------------------------------------------------------------------------
(* The plan's moves, as executeRebalancePlanStep reads them. *)

Migrating(ms) == {i \in DOMAIN ms : ms[i].st = "migrating"}
Queued_RetriesFailed(ms) == {i \in DOMAIN ms : ms[i].st \in {"queued", "failed"}}
Queued(ms) == {i \in DOMAIN ms : ms[i].st = "queued"}
NextQueued(ms) == {i \in Queued(ms) : \A j \in Queued(ms) : i <= j}
Unresolved(ms) == Queued(ms) \cup Migrating(ms) # {}

(* What a step writes of a move: its status, and the UPID with status migrating. *)
SavedMove_NoUpid(old, m) == [old EXCEPT !.st = m.st]
SavedMove(old, m) ==
  [old EXCEPT !.st = m.st, !.upid = IF m.st = "migrating" THEN m.upid ELSE @]

(* updateRebalancePlan: the stored plan is changed only if it is still the plan with
   this id, whatever its status is by now. *)
UpdateMove(id, i, m) ==
  plan' = IF plan.id = id THEN [plan EXCEPT !.moves[i] = SavedMove(@, m)] ELSE plan

(* migrateContainer / migrateVm: Proxmox accepts a migration of a guest that is on
   the node of the request and has no migration running. *)
Accepts(g, src) == loc[g] = src /\ \A k \in Running : task[k].guest # g

StartTask(k, g, dst, p) ==
  /\ task[k].st = "free"
  /\ task' = [task EXCEPT ![k] = [st |-> "running", guest |-> g, dst |-> dst, plan |-> p]]

-----------------------------------------------------------------------------
(* tick and tickSite *)

(* tick: the guard on tickInProgress, the settings, getSiteState. *)
TickBegins(t) ==
  /\ owner = NoTick /\ enabled /\ pc[t] = "idle"
  /\ owner' = t
  /\ present' = TRUE
  /\ gen' = IF present THEN gen ELSE gen + 1
  /\ site' = [site EXCEPT ![t] = gen']
  /\ pc' = [pc EXCEPT ![t] = "fetch"]
  /\ UNCHANGED <<proxmoxVars, plan, enabled, pending, cached, request,
                 seen, active, copy, cur, moving, decisions, plans, applied, faults>>

(* tick: the site is disabled, its SiteState is dropped. *)
TickFindsDisabled ==
  /\ owner = NoTick /\ ~enabled /\ present
  /\ present' = FALSE
  /\ UNCHANGED <<proxmoxVars, plan, enabled, owner, gen, pending, cached, request,
                 locals, plans, applied, faults>>

(* What getDeploymentIndex may return: what Proxmox answers, or what the GET cache holds
   within its TTL, which is as long as the tick interval. *)
Listed == {loc} \cup ({cached} \ {Unknown})

Fetch(t) ==
  /\ pc[t] = "fetch"
  /\ \/ /\ seen' = [seen EXCEPT ![t] = loc]
        /\ cached' = loc
     \/ /\ cached # Unknown
        /\ seen' = [seen EXCEPT ![t] = cached]
        /\ UNCHANGED cached
  /\ pc' = [pc EXCEPT ![t] = "poll"]
  /\ UNCHANGED <<proxmoxVars, plan, enabled, owner, siteVars, request,
                 site, active, copy, cur, moving, decisions, plans, applied, faults>>

(* getDeploymentIndex throws: deployments stays empty. *)
FetchFails(t) ==
  /\ pc[t] = "fetch"
  /\ seen' = [seen EXCEPT ![t] = Unknown]
  /\ pc' = [pc EXCEPT ![t] = "poll"]
  /\ UNCHANGED <<proxmoxVars, plan, enabled, owner, siteVars, cached, request,
                 site, active, copy, cur, moving, decisions, plans, applied, faults>>

(* Locals the rest of the tick does not read. *)
ForgetStep(t) ==
  /\ seen' = [seen EXCEPT ![t] = Unknown]
  /\ active' = [active EXCEPT ![t] = 0]
  /\ copy' = [copy EXCEPT ![t] = NoPlan]
  /\ cur' = [cur EXCEPT ![t] = 0]
  /\ moving' = [moving EXCEPT ![t] = 0]

(* The finally of tick: tickInProgress is released by the tick that holds it. *)
Released_Never(t) == owner
Released(t) == IF owner = t THEN NoTick ELSE owner

(* Release tickInProgress if tick t still holds it, and forget t's locals. *)
Leave(t) ==
  /\ owner' = Released(t)
  /\ pc' = [pc EXCEPT ![t] = "idle"]
  /\ site' = [site EXCEPT ![t] = 0]
  /\ decisions' = [decisions EXCEPT ![t] = {}]
  /\ ForgetStep(t)

(* getNodesWithPerNodeLatency throws: the tick ends with an error. *)
MetricsFail(t) ==
  /\ pc[t] = "fetch"
  /\ Leave(t)
  /\ UNCHANGED <<proxmoxVars, plan, enabled, siteVars, cached, request, plans, applied, faults>>

(* The loop over pendingMigrations: an answer that the task ended removes it from
   the active ones.  A failed poll, or one of a running task, changes nothing. *)
PollPending(t, k) ==
  /\ pc[t] = "poll"
  /\ k \in pending[site[t]] /\ Finished(k)
  /\ pending' = [pending EXCEPT ![site[t]] = @ \ {k}]
  /\ UNCHANGED <<proxmoxVars, plan, enabled, owner, present, gen, cached, request,
                 locals, plans, applied, faults>>

(* pendingActiveCount; without deployments neither the plan nor the decisions run. *)
CountPending(t) ==
  /\ pc[t] = "poll"
  /\ active' = [active EXCEPT ![t] = Cardinality(pending[site[t]])]
  /\ pc' = [pc EXCEPT ![t] = IF seen[t] = Unknown THEN "end" ELSE "read"]
  /\ UNCHANGED <<proxmoxVars, plan, enabled, owner, siteVars, cached, request,
                 site, seen, copy, cur, moving, decisions, plans, applied, faults>>

-----------------------------------------------------------------------------
(* executeRebalancePlanStep *)

(* Only an active plan is executed. *)
PlanRuns_AnyPlan(p) == p.status # "none"
PlanRuns(p) == p.status = "active"

PlanRead(t) ==
  /\ pc[t] = "read"
  /\ IF PlanRuns(plan)
       THEN /\ copy' = [copy EXCEPT ![t] = plan]
            /\ pc' = [pc EXCEPT ![t] = "pollmoves"]
       ELSE /\ pc' = [pc EXCEPT ![t] = "decide"]
            /\ UNCHANGED copy
  /\ UNCHANGED <<proxmoxVars, plan, enabled, owner, siteVars, cached, request,
                 site, seen, active, cur, moving, decisions, plans, applied, faults>>

(* A migrating move whose task ended: "done" only for exit status OK. *)
PolledMove_RawStatus(m) == [m EXCEPT !.st = task[m.upid].st]
PolledMove(m) == [m EXCEPT !.st = IF task[m.upid].st = "ok" THEN "done" ELSE "failed"]

PlanPoll(t, i) ==
  /\ pc[t] = "pollmoves"
  /\ i \in Migrating(copy[t].moves)
  /\ Finished(copy[t].moves[i].upid)
  /\ copy' = [copy EXCEPT ![t].moves[i] = PolledMove(@)]
  /\ \/ UpdateMove(copy[t].id, i, PolledMove(copy[t].moves[i])) /\ UNCHANGED faults
     \/ Disturb("write") /\ UNCHANGED plan
  /\ UNCHANGED <<proxmoxVars, enabled, owner, siteVars, cached, request,
                 pc, site, seen, active, cur, moving, decisions, plans, applied>>

HasSlot_OwnMovesOnly(t) == Cardinality(Migrating(copy[t].moves)) < MaxConcurrent
HasSlot(t) == active[t] + Cardinality(Migrating(copy[t].moves)) < MaxConcurrent

(* After the step: a plan whose moves are all resolved is completed. *)
AfterStep_NeverCompletes(ms) == "decide"
AfterStep_IgnoresMigrating(ms) == IF Queued(ms) # {} THEN "decide" ELSE "complete"
AfterStep(ms) == IF Unresolved(ms) THEN "decide" ELSE "complete"

(* No slot, or no queued move: nothing starts. *)
PlanIdles(t) ==
  /\ pc[t] = "pollmoves"
  /\ ~HasSlot(t) \/ Queued(copy[t].moves) = {}
  /\ moving' = [moving EXCEPT ![t] = Cardinality(Migrating(copy[t].moves))]
  /\ pc' = [pc EXCEPT ![t] = AfterStep(copy[t].moves)]
  /\ UNCHANGED <<proxmoxVars, plan, enabled, owner, siteVars, cached, request,
                 site, seen, active, copy, cur, decisions, plans, applied, faults>>

MayStep(t) == pc[t] = "pollmoves" /\ HasSlot(t) /\ Queued(copy[t].moves) # {}

(* What the step leaves in the tick: move i with its new status, to be saved. *)
StepMove(t, i, m, started) ==
  /\ copy' = [copy EXCEPT ![t].moves[i] = m]
  /\ cur' = [cur EXCEPT ![t] = i]
  /\ moving' = [moving EXCEPT ![t] =
                  Cardinality(Migrating(copy[t].moves)) + (IF started THEN 1 ELSE 0)]
  /\ pc' = [pc EXCEPT ![t] = "save"]
  /\ UNCHANGED <<loc, plan, enabled, owner, siteVars, cached, request,
                 site, seen, active, decisions, plans, applied>>

(* Re-validation: the guest as seen by this tick must be on the source node.  The
   target's capacity is not modelled: it may fail for any move. *)
Revalidated(t, m) == seen[t][m.guest] = m.src

PlanSkips(t) ==
  /\ MayStep(t)
  /\ \E i \in NextQueued(copy[t].moves) :
       StepMove(t, i, [copy[t].moves[i] EXCEPT !.st = "skipped"], FALSE)
  /\ UNCHANGED <<task, faults>>

PlanFires(t, k) ==
  /\ MayStep(t)
  /\ \E i \in NextQueued(copy[t].moves) : LET m == copy[t].moves[i] IN
       /\ Revalidated(t, m) /\ Accepts(m.guest, m.src)
       /\ StartTask(k, m.guest, m.dst, copy[t].id)
       /\ \/ /\ StepMove(t, i, [m EXCEPT !.st = "migrating", !.upid = k], TRUE)
             /\ UNCHANGED faults
          \/ /\ Disturb("lostReply")
             /\ StepMove(t, i, [m EXCEPT !.st = "failed"], FALSE)

(* The call errs and nothing was started. *)
PlanFireRefused(t) ==
  /\ MayStep(t)
  /\ \E i \in NextQueued(copy[t].moves) : LET m == copy[t].moves[i] IN
       Revalidated(t, m) /\ StepMove(t, i, [m EXCEPT !.st = "failed"], FALSE)
  /\ UNCHANGED <<task, faults>>

PlanSaves(t) ==
  /\ pc[t] = "save"
  /\ UpdateMove(copy[t].id, cur[t], copy[t].moves[cur[t]])
  /\ pc' = [pc EXCEPT ![t] = AfterStep(copy[t].moves)]
  /\ cur' = [cur EXCEPT ![t] = 0]
  /\ UNCHANGED <<proxmoxVars, enabled, owner, siteVars, cached, request,
                 site, seen, active, copy, moving, decisions, plans, applied, faults>>

(* The write fails.  Behind a call that was accepted the error lands in the catch of
   that call, which marks the move failed and writes again; any other failed write
   aborts the step, and the tick goes on with planMigratingCount = 0. *)
PlanSaveFails(t) ==
  /\ pc[t] \in {"save", "complete"}
  /\ Disturb("write")
  /\ IF pc[t] = "save" /\ copy[t].moves[cur[t]].st = "migrating"
       THEN /\ copy' = [copy EXCEPT ![t].moves[cur[t]] =
                                       [@ EXCEPT !.st = "failed", !.upid = NoTask]]
            /\ UNCHANGED <<pc, moving>>
       ELSE /\ pc' = [pc EXCEPT ![t] = "decide"]
            /\ moving' = [moving EXCEPT ![t] = 0]
            /\ UNCHANGED copy
  /\ UNCHANGED <<proxmoxVars, plan, enabled, owner, siteVars, cached, request,
                 site, seen, active, cur, decisions, plans, applied>>

(* Every move of the local copy is resolved: the stored plan becomes completed. *)
PlanCompletes(t) ==
  /\ pc[t] = "complete"
  /\ plan' = IF plan.id = copy[t].id THEN [plan EXCEPT !.status = "completed"] ELSE plan
  /\ pc' = [pc EXCEPT ![t] = "decide"]
  /\ UNCHANGED <<proxmoxVars, enabled, owner, siteVars, cached, request,
                 site, seen, active, copy, cur, moving, decisions, plans, applied, faults>>

-----------------------------------------------------------------------------
(* Reactive balancing *)

(* The decisions evaluateMigrationDecisions may return: at most budget of them, from
   distinct source nodes, each moving a guest away from where the tick saw it. *)
Budget(t) == IF active[t] + moving[t] < MaxConcurrent
               THEN MaxConcurrent - (active[t] + moving[t]) ELSE 0

Decisions(t) ==
  {D \in SUBSET {d \in Decision : seen[t][d.guest] = d.src /\ d.dst # d.src} :
     /\ Cardinality(D) <= Budget(t)
     /\ \A d, e \in D : d.src = e.src => d = e}

Decide(t) ==
  /\ pc[t] = "decide"
  /\ \E D \in Decisions(t) :
       /\ decisions' = [decisions EXCEPT ![t] = D]
       /\ pc' = [pc EXCEPT ![t] = IF D = {} THEN "end" ELSE "fire"]
  /\ ForgetStep(t)
  /\ UNCHANGED <<proxmoxVars, plan, enabled, owner, siteVars, cached, request,
                 site, plans, applied, faults>>

(* The loop over decisions goes on with the ones left. *)
NextDecision(t, d) ==
  /\ decisions' = [decisions EXCEPT ![t] = @ \ {d}]
  /\ pc' = [pc EXCEPT ![t] = IF decisions[t] = {d} THEN "end" ELSE "fire"]
  /\ UNCHANGED <<loc, plan, enabled, owner, present, gen, cached, request,
                 site, seen, active, copy, cur, moving, plans, applied>>

Fire(t, d, k) ==
  /\ pc[t] = "fire" /\ d \in decisions[t]
  /\ Accepts(d.guest, d.src)
  /\ StartTask(k, d.guest, d.dst, 0)
  /\ \/ pending' = [pending EXCEPT ![site[t]] = @ \cup {k}] /\ UNCHANGED faults
     \/ Disturb("lostReply") /\ UNCHANGED pending
  /\ NextDecision(t, d)

(* The call errs and nothing was started; with migrationDryRun no call is made. *)
FireRefused(t, d) ==
  /\ pc[t] = "fire" /\ d \in decisions[t]
  /\ NextDecision(t, d)
  /\ UNCHANGED <<task, pending, faults>>

(* The end of tickSite: entries triggered more than an hour ago are dropped, whether
   or not their task still runs. *)
TickEnds(t) ==
  /\ pc[t] = "end"
  /\ \/ UNCHANGED <<pending, faults>>
     \/ \E old \in SUBSET pending[site[t]] \ {{}} :
          /\ pending' = [pending EXCEPT ![site[t]] = @ \ old]
          /\ Disturb("long")
  /\ Leave(t)
  /\ UNCHANGED <<proxmoxVars, plan, enabled, present, gen, cached, request, plans, applied>>

(* withTimeout rejects: tick gives up waiting and clears tickInProgress, but nothing
   cancels the tickSite that still runs. *)
TickTimesOut ==
  /\ owner # NoTick
  /\ Disturb("timeout")
  /\ owner' = NoTick
  /\ UNCHANGED <<proxmoxVars, plan, enabled, siteVars, cached, request, locals, plans, applied>>

(* A restart loses everything but lb-plan.json and the settings. *)
Restart ==
  /\ Disturb("restart")
  /\ owner' = NoTick /\ present' = FALSE
  /\ cached' = Unknown /\ request' = NoRequest
  /\ pc' = [t \in Ticks |-> "idle"]
  /\ site' = [t \in Ticks |-> 0]
  /\ seen' = [t \in Ticks |-> Unknown]
  /\ active' = [t \in Ticks |-> 0]
  /\ copy' = [t \in Ticks |-> NoPlan]
  /\ cur' = [t \in Ticks |-> 0]
  /\ moving' = [t \in Ticks |-> 0]
  /\ decisions' = [t \in Ticks |-> {}]
  /\ UNCHANGED <<proxmoxVars, plan, enabled, gen, pending, plans, applied>>

-----------------------------------------------------------------------------
(* The operator's requests (lb-actions.ts) *)

(* computeRebalancePlanAction refuses while a plan is active ... *)
ComputeReads ==
  /\ request = NoRequest /\ plan.status # "active" /\ plans < MaxPlans
  /\ request' = [kind |-> "compute", id |-> 0]
  /\ UNCHANGED <<proxmoxVars, plan, enabled, owner, siteVars, cached,
                 locals, plans, applied, faults>>

(* ... and saves, awaits later, the optimizer's moves: distinct guests, each from where
   the deployment index has it.  The optimizer's preference among them is not modelled. *)
PlanMoves ==
  {ms \in UNION {[1..n -> [guest : Guests, src : Nodes, dst : Nodes, st : {"queued"},
                           upid : {NoTask}]] : n \in 1..Cardinality(Guests)} :
     /\ \E index \in Listed :
          \A i \in DOMAIN ms : ms[i].src = index[ms[i].guest] /\ ms[i].dst # ms[i].src
     /\ \A i, j \in DOMAIN ms : ms[i].guest = ms[j].guest => i = j}

ComputeSaves ==
  /\ request.kind = "compute"
  /\ \/ plan' = NoPlan /\ UNCHANGED plans
     \/ /\ plans < MaxPlans
        /\ plans' = plans + 1
        /\ \E ms \in PlanMoves :
             plan' = [id |-> plans + 1, status |-> "draft", moves |-> ms]
  /\ request' = NoRequest
  /\ UNCHANGED <<proxmoxVars, enabled, owner, siteVars, cached, locals, applied, faults>>

(* applyRebalancePlanAction: only a draft becomes active. *)
Applicable_AnyPlan(p) == p.status # "none"
Applicable(p) == p.status = "draft"

Apply ==
  /\ Applicable(plan)
  /\ \/ request = NoRequest /\ UNCHANGED faults
     \/ request # NoRequest /\ Disturb("tabs")
  /\ plan' = [plan EXCEPT !.status = "active"]
  /\ applied' = applied \cup {plan.id}
  /\ UNCHANGED <<proxmoxVars, enabled, owner, siteVars, cached, request, locals, plans>>

(* cancelRebalancePlanAction decides by what it reads ... *)
CancelReads ==
  /\ request = NoRequest /\ plan.status # "none"
  /\ \/ /\ plan.status = "active" /\ Disturb("cancel")
        /\ request' = [kind |-> "cancel", id |-> plan.id]
     \/ /\ plan.status # "active" /\ UNCHANGED faults
        /\ request' = [kind |-> "clear", id |-> plan.id]
  /\ UNCHANGED <<proxmoxVars, plan, enabled, owner, siteVars, cached,
                 locals, plans, applied>>

(* ... and drops the queued moves, or removes the plan, when its write runs. *)
Dropped(p) ==
  [p EXCEPT !.status = "cancelled",
            !.moves = [i \in DOMAIN p.moves |->
                         IF p.moves[i].st = "queued"
                           THEN [p.moves[i] EXCEPT !.st = "skipped"] ELSE p.moves[i]]]

CancelWrites ==
  /\ \/ /\ request.kind = "cancel"
        /\ plan' = IF plan.id = request.id THEN Dropped(plan) ELSE plan
     \/ /\ request.kind = "clear"
        /\ plan' = NoPlan
  /\ request' = NoRequest
  /\ UNCHANGED <<proxmoxVars, enabled, owner, siteVars, cached, locals, plans, applied, faults>>

(* A page that lists the deployments fills the GET cache. *)
PageLoads ==
  /\ cached # loc
  /\ cached' = loc
  /\ UNCHANGED <<proxmoxVars, plan, enabled, owner, siteVars, request,
                 locals, plans, applied, faults>>

Disable ==
  /\ enabled /\ Disturb("disable")
  /\ enabled' = FALSE
  /\ UNCHANGED <<proxmoxVars, plan, owner, siteVars, cached, request, locals, plans, applied>>

Enable ==
  /\ ~enabled
  /\ enabled' = TRUE
  /\ UNCHANGED <<proxmoxVars, plan, owner, siteVars, cached, request,
                 locals, plans, applied, faults>>

-----------------------------------------------------------------------------
(* Proxmox *)

TaskEnds(k) ==
  /\ task[k].st = "running"
  /\ \/ /\ task' = [task EXCEPT ![k].st = "ok"] /\ UNCHANGED faults
        /\ loc' = [loc EXCEPT ![task[k].guest] = task[k].dst]
     \/ /\ task' = [task EXCEPT ![k].st = "warnings"] /\ Disturb("warnings")
        /\ loc' = [loc EXCEPT ![task[k].guest] = task[k].dst]
     \/ /\ task' = [task EXCEPT ![k].st = "error"] /\ UNCHANGED <<loc, faults>>
  /\ UNCHANGED <<plan, enabled, owner, siteVars, cached, request, locals, plans, applied>>

Drift(g, n) ==
  /\ n # loc[g] /\ \A k \in Running : task[k].guest # g
  /\ Disturb("drift")
  /\ loc' = [loc EXCEPT ![g] = n]
  /\ UNCHANGED <<task, plan, enabled, owner, siteVars, cached, request, locals, plans, applied>>

-----------------------------------------------------------------------------
TickStep(t) ==
  \/ Fetch(t) \/ FetchFails(t) \/ MetricsFail(t)
  \/ \E k \in Tasks : PollPending(t, k)
  \/ CountPending(t)
  \/ PlanRead(t)
  \/ \E i \in DOMAIN copy[t].moves : PlanPoll(t, i)
  \/ PlanIdles(t) \/ PlanSkips(t) \/ PlanFireRefused(t)
  \/ \E k \in Tasks : PlanFires(t, k)
  \/ PlanSaves(t) \/ PlanSaveFails(t) \/ PlanCompletes(t)
  \/ Decide(t)
  \/ \E d \in decisions[t], k \in Tasks : Fire(t, d, k)
  \/ \E d \in decisions[t] : FireRefused(t, d)
  \/ TickEnds(t)

OperatorStep ==
  \/ ComputeReads \/ ComputeSaves \/ Apply \/ CancelReads \/ CancelWrites
  \/ PageLoads \/ Disable \/ Enable

ProxmoxStep ==
  \/ \E k \in Tasks : TaskEnds(k)
  \/ \E g \in Guests, n \in Nodes : Drift(g, n)

Next ==
  \/ \E t \in Ticks : TickBegins(t) \/ TickStep(t)
  \/ TickFindsDisabled \/ TickTimesOut \/ Restart
  \/ OperatorStep
  \/ ProxmoxStep

Spec == Init /\ [][Next]_vars
-----------------------------------------------------------------------------
(* Properties *)

(* The cluster-wide number of migrations the balancer has in flight, started by the
   plan or by a decision, never exceeds settings.maxConcurrentMigrations. *)
Cap == Cardinality(Running) <= MaxConcurrent

(* Between ticks every running migration is one the next tick will count: it is among
   the pending migrations of the site or a migrating move of the active plan. *)
PlanUpids == IF PlanRuns(plan) THEN {plan.moves[i].upid : i \in Migrating(plan.moves)}
                                ELSE {}
NoneForgotten ==
  (\A t \in Ticks : pc[t] = "idle") => Running \subseteq pending[gen] \cup PlanUpids

(* A move the plan reports as skipped or failed was not carried out for that plan:
   the operator who repeats it by hand repeats nothing. *)
PlanTruthful ==
  \A k \in Tasks : \A i \in DOMAIN plan.moves :
    /\ plan.moves[i].st \in {"skipped", "failed"}
    /\ task[k].plan = plan.id /\ task[k].guest = plan.moves[i].guest
    => task[k].st = "error"

(* A migrating move names the task that moves its guest to its target, and a done
   move had such a task end well, whatever was lost, repeated or delayed. *)
MovesHaveTasks ==
  \A i \in DOMAIN plan.moves : LET m == plan.moves[i] IN
    /\ m.st = "migrating" =>
         /\ m.upid \in Tasks /\ task[m.upid].st # "free"
         /\ task[m.upid].guest = m.guest /\ task[m.upid].dst = m.dst
         /\ task[m.upid].plan = plan.id
    /\ m.st = "done" =>
         \E k \in Tasks : task[k] = [st |-> "ok", guest |-> m.guest, dst |-> m.dst,
                                     plan |-> plan.id]

(* Nothing migrates for a plan until the operator applies that plan. *)
OnlyApplied == \A k \in Tasks : task[k].plan \in applied \cup {0}

(* No late write of a tick or of a request brings the stored plan back: a draft stays
   one or becomes active, and a plan that ended stays ended. *)
PlanNeverRevives ==
  [][plan'.id = plan.id =>
       /\ plan.status = "draft" => plan'.status \in {"draft", "active"}
       /\ plan.status \in {"completed", "cancelled"} =>
            plan'.status \in {"completed", "cancelled"}]_vars

(* The outcome of a move is final while ticks do not overlap. *)
OutcomeFinal ==
  [][plan'.id = plan.id =>
       \A i \in DOMAIN plan.moves :
         plan.moves[i].st \in {"done", "failed"} => plan'.moves[i].st = plan.moves[i].st]_vars

(* Cancelling drops the queued moves: no task is started for a cancelled plan. *)
CancelDropsQueued ==
  [][\A k \in Tasks :
       task[k].st = "free" /\ task'[k].st # "free" /\ plan.status = "cancelled"
         => task'[k].plan # plan.id]_vars

(* The scheduler runs the ticks, Proxmox ends its tasks, and no request fails for
   ever: a list is loaded and a task is polled again and again if it is asked for
   again and again. *)
Fairness ==
  /\ WF_vars(\E t \in Ticks : TickBegins(t))
  /\ \A t \in Ticks : WF_vars(TickStep(t))
  /\ SF_vars(\E t \in Ticks : Fetch(t))
  /\ SF_vars(\E t \in Ticks, k \in Tasks : PollPending(t, k))
  /\ SF_vars(\E t \in Ticks : \E i \in DOMAIN copy[t].moves : PlanPoll(t, i))
  /\ WF_vars(\E k \in Tasks : TaskEnds(k))

FairSpec == Spec /\ Fairness

(* An applied plan does not stay active for ever, through lost replies, timeouts and
   restarts: every move is resolved and the plan ends. *)
ActivePlanSettles == []<>(plan.status # "active")

(* tickInProgress is never stuck: the observer ticks again and again. *)
TicksGoOn == []<>(owner # NoTick) /\ []<>(owner = NoTick)
=============================================================================
