------------------------- MODULE BackupRecords_proofs -------------------------
(***************************************************************************)
(* What the records of the scheduler's log say of its runs, and how runs   *)
(* leave the engine, for any policies, guests, scopes, manual runs and     *)
(* faults, while one tick is under way at a time.                          *)
(*                                                                         *)
(* The invariant has a part on the state (RecordInv) and one on the tick   *)
(* (TickInv): at each stage the tick knows whose run it holds, and what of *)
(* it is in memory, in the log and in its copy of the log.                 *)
(***************************************************************************)
EXTENDS BackupEngine_proofs

(* The records of the scheduler's log *)

Env == log["env"]
InSlot(i) == inFlight # None /\ inFlight.task = i
Told(i, results) ==
  Ended(tasks[i].state) /\ [guest |-> tasks[i].guest, ok |-> tasks[i].state = "success"] \in results
AllTold(run, results) == \A i \in 1..Len(tasks) : tasks[i].run = run => Told(i, results)
ToldSoFar(run, results) ==
  \A i \in 1..Len(tasks) : tasks[i].run = run => InSlot(i) \/ Told(i, results)

(* Every guest of the run has a result, so it starts no backup any more. *)
AllDone(run) == \A g \in run.pending : \E i \in 1..Len(run.completed) : run.completed[i].guest = g

(* Whose a run is: the scheduler's log knows no run of the site's policies, and one of
   its own is the active run of its policy. *)
NotInEnv(run) == \A r \in Env : r.run # run
Foreign(run) == NotInEnv(run) /\ \A p \in EnvPolicies : active[p] # None => active[p].run # run
Owns(p, run) ==
  /\ p \in SitePolicies => Foreign(run)
  /\ p \in EnvPolicies => active[p] # None /\ active[p].run = run

RunsApart ==
  /\ \A p, q \in EnvPolicies :
       active[p] # None /\ active[q] # None /\ active[p].run = active[q].run => p = q
  /\ \A p \in SitePolicies : active[p] # None => Foreign(active[p].run)
  /\ inFlight # None => Owns(inFlight.policy, tasks[inFlight.task].run)
  /\ ~EnvConfigured => Env = {}

(* A record that is not ended has somebody to end it, if no error left it without news. *)
Unended(r) == ~r.ended /\ r.run > before /\ r.run \notin missed
Awaited(r) ==
  \/ \E p \in EnvPolicies : active[p] # None /\ active[p].run = r.run
  \/ \E t \in Ticks : pc[t] = "endEmpty" /\ loc[t].run = r.run
RecordsKept == \A r \in Env : Unended(r) => Awaited(r)

(* The results of the backups that ended are in memory; and in the log, if no error left
   the record without them. *)
ResultsKept ==
  /\ \A p \in EnvPolicies : active[p] # None => ToldSoFar(active[p].run, ResultsOf(active[p]))
  /\ \A r \in Env : r.run > before /\ r.run \notin missed => ToldSoFar(r.run, r.results)

(* A record that is ended is of a run that is over. *)
RecordsClosed ==
  \A r \in Env : r.ended =>
    /\ \A i \in 1..Len(tasks) :
         tasks[i].run = r.run => ~InSlot(i) /\ (r.run \in missed \/ Told(i, r.results))
    /\ \A p \in EnvPolicies : active[p] # None /\ active[p].run = r.run => AllDone(active[p])

RecordInv == RunsApart /\ RecordsKept /\ ResultsKept /\ RecordsClosed

(* A copy of the log in which the results of a run are new. *)
Rewrites(copy, c, run, results) ==
  \A s \in copy : \E r \in c :
    /\ s.run = r.run /\ (s.ended <=> r.ended)
    /\ s.results = IF r.run = run THEN results ELSE r.results

(* What a tick has to do with the records. *)
TickStarts(t) ==
  /\ pc[t] \in {"start", "create", "endEmpty"} =>
       loc[t].left \subseteq EnvPolicies /\ \A p \in loc[t].left : active[p] = None
  /\ pc[t] \in {"create", "endEmpty"} =>
       Context(t) = "env" /\ loc[t].policy \in EnvPolicies \ loc[t].left /\ active[loc[t].policy] = None
  /\ pc[t] = "create" => loc[t].copy \subseteq Env
  /\ pc[t] = "endEmpty" =>
       /\ \A i \in 1..Len(tasks) : tasks[i].run # loc[t].run
       /\ \A p \in EnvPolicies : active[p] # None => active[p].run # loc[t].run
TickEnds(t) ==
  /\ pc[t] \in Ending \cup {"trigger"} => Owns(loc[t].policy, loc[t].run)
  /\ pc[t] \in Ending /\ loc[t].policy \in EnvPolicies => AllDone(active[loc[t].policy])
  /\ pc[t] = "trigger" => \A r \in Env : r.run = loc[t].run => ~r.ended
  /\ pc[t] = "finalizeWrite" => Context(t) = "env" /\ loc[t].copy = Env
  /\ pc[t] \in {"mark", "delete"} => \A r \in Env : r.run = loc[t].run => r.ended \/ r.run \in missed
Reporting == {"prune", "update", "updateWrite"}
TickReports(t) ==
  /\ pc[t] \in Reporting => Owns(loc[t].policy, loc[t].run)
  /\ pc[t] \in Reporting /\ loc[t].policy \in EnvPolicies =>
       loc[t].run = tasks[loc[t].task].run /\ AllTold(loc[t].run, loc[t].results)
  /\ pc[t] = "prune" => tasks[loc[t].task].state = "success"
  /\ pc[t] \in {"update", "updateWrite", "clear"} /\ loc[t].policy \in EnvPolicies =>
       Told(loc[t].task, ResultsOf(active[loc[t].policy]))
  /\ pc[t] = "updateWrite" =>
       Context(t) = "env" /\ Rewrites(loc[t].copy, Env, loc[t].run, loc[t].results)
  /\ pc[t] = "clear" =>
       \A r \in Env : r.run = tasks[loc[t].task].run => r.run \in missed \/ Told(loc[t].task, r.results)
TickOf(t) == TickStarts(t) /\ TickEnds(t) /\ TickReports(t)
TickInv == \A t \in Ticks : TickOf(t)

-----------------------------------------------------------------------------
(* Results that are pushed *)

(* What a step may do to the runs: it adds results to them. *)
Grows ==
  \A p \in Policies :
    /\ active'[p] # None <=> active[p] # None
    /\ active[p] # None =>
         /\ active'[p].run = active[p].run
         /\ ResultsOf(active[p]) \subseteq ResultsOf(active'[p])
         /\ AllDone(active[p]) => AllDone(active'[p])

LEMMA PushGrows ==
  ASSUME TypeInv, NEW q, NEW run, NEW r \in Result, PushedTo(q, run, r)
  PROVE  /\ Grows
         /\ \A p \in Policies : active[p] # None /\ p = q /\ active[p].run = run => r \in ResultsOf(active'[p])
<1> SUFFICES ASSUME NEW p \in Policies
             PROVE  /\ active'[p] # None <=> active[p] # None
                    /\ active[p] # None =>
                         /\ active'[p].run = active[p].run
                         /\ ResultsOf(active[p]) \subseteq ResultsOf(active'[p])
                         /\ AllDone(active[p]) => AllDone(active'[p])
                         /\ p = q /\ active[p].run = run => r \in ResultsOf(active'[p])
  BY DEF Grows
<1>1. /\ active'[p] # None <=> active[p] # None
      /\ active[p] # None =>
           /\ active'[p].run = active[p].run /\ active'[p].pending = active[p].pending
           /\ active'[p].completed = IF p = q /\ active[p].run = run
                                      THEN Append(active[p].completed, r)
                                      ELSE active[p].completed
  BY DEF PushedTo
<1>2. CASE active[p] # None
  <2> DEFINE done == active[p].completed
             new == active'[p].completed
  <2>1. done \in Seq(Result)
    BY <1>2, RunTypes
  <2>2. new = IF p = q /\ active[p].run = run THEN Append(done, r) ELSE done
    BY <1>1, <1>2
  <2>3. /\ \A i \in 1..Len(done) : i \in 1..Len(new) /\ new[i] = done[i]
        /\ p = q /\ active[p].run = run => \E i \in 1..Len(new) : new[i] = r
    <3> HIDE DEF done, new
    <3>1. CASE p = q /\ active[p].run = run
      <4>1. new = Append(done, r) /\ Len(new) = Len(done) + 1 /\ new[Len(done) + 1] = r
        BY <2>1, <2>2, <3>1
      <4> QED
        BY <2>1, <4>1
    <3>2. CASE ~(p = q /\ active[p].run = run)
      BY <2>2, <3>2
    <3> QED
      BY <3>1, <3>2
  <2>4. ResultsOf(active[p]) \subseteq ResultsOf(active'[p])
    BY <2>3 DEF ResultsOf
  <2>5. p = q /\ active[p].run = run => r \in ResultsOf(active'[p])
    BY <2>3 DEF ResultsOf
  <2>6. AllDone(active[p]) => AllDone(active'[p])
    BY <1>1, <1>2, <2>3 DEF AllDone
  <2> QED
    BY <1>1, <1>2, <2>4, <2>5, <2>6
<1> QED
  BY <1>1, <1>2

LEMMA SameGrows == UNCHANGED active => Grows
BY DEF Grows

-----------------------------------------------------------------------------
(* The records, the runs and the slot *)

(* A tick that is about to end the record of an empty run stays where it is, or an error
   leaves the record as it is. *)
EmptyStays ==
  \A t \in Ticks : pc[t] = "endEmpty" =>
    (pc'[t] = "endEmpty" /\ loc'[t].run = loc[t].run) \/ loc[t].run \in missed'

LEMMA StepStays ==
  ASSUME NEW a \in Actors, Others(a), pc[a] # "endEmpty" PROVE EmptyStays
BY OtherStays DEF EmptyStays

LEMMA EnvInPolicies == EnvPolicies \subseteq Policies /\ SitePolicies \subseteq Policies
BY DEF Policies

(* What is told of a backup that does not change stays told. *)
LEMMA StillTold ==
  ASSUME NEW i, tasks'[i] = tasks[i], NEW results
  PROVE  Told(i, results)' <=> Told(i, results)
BY DEF Told, Ended

(* Nothing of it changes but the results in memory. *)
LEMMA RecordsStay ==
  ASSUME RecordInv, Grows, UNCHANGED <<inFlight, tasks, before>>, missed \subseteq missed', Env' = Env,
         EmptyStays
  PROVE  RecordInv'
<1>0. RunsApart /\ RecordsKept /\ ResultsKept /\ RecordsClosed
  BY DEF RecordInv
<1>1. \A p \in Policies : active'[p] # None <=> active[p] # None
  BY DEF Grows
<1>2. \A p \in Policies : active[p] # None => active'[p].run = active[p].run
  BY DEF Grows
<1>3. \A run : Foreign(run) => Foreign(run)'
  BY <1>1, <1>2, EnvInPolicies DEF Foreign, NotInEnv
<1>4. \A p, run : Owns(p, run) => Owns(p, run)'
  BY <1>1, <1>2, <1>3, EnvInPolicies DEF Owns
<1>5. RunsApart'
  <2>1. \A p, q \in EnvPolicies :
           active'[p] # None /\ active'[q] # None /\ active'[p].run = active'[q].run => p = q
    BY <1>0, <1>1, <1>2, EnvInPolicies DEF RunsApart
  <2>2. \A p \in SitePolicies : active'[p] # None => Foreign(active[p].run)'
    BY <1>0, <1>1, <1>2, <1>3, EnvInPolicies DEF RunsApart
  <2>3. inFlight' # None => Owns(inFlight.policy, tasks[inFlight.task].run)'
    BY <1>0, <1>4 DEF RunsApart
  <2>4. ~EnvConfigured => Env' = {}
    BY <1>0 DEF RunsApart
  <2> QED
    BY <2>1, <2>2, <2>3, <2>4 DEF RunsApart
<1>6. RecordsKept'
  BY <1>0, <1>1, <1>2, EnvInPolicies DEF RecordsKept, Unended, Awaited, EmptyStays
<1>7. \A i : InSlot(i)' <=> InSlot(i)
  BY DEF InSlot
<1>8. \A i, results : Told(i, results)' <=> Told(i, results)
  BY DEF Told
<1>9. ResultsKept'
  <2>1. ASSUME NEW p \in EnvPolicies, active'[p] # None
        PROVE  ToldSoFar(active[p].run, ResultsOf(active[p]))'
    <3>1. /\ ToldSoFar(active[p].run, ResultsOf(active[p])) /\ active'[p].run = active[p].run
          /\ ResultsOf(active[p]) \subseteq ResultsOf(active'[p])
      BY <1>0, <1>1, <2>1, EnvInPolicies DEF ResultsKept, Grows
    <3> QED
      BY <3>1 DEF ToldSoFar, InSlot, Told
  <2>2. ASSUME NEW r \in Env, r.run > before, r.run \notin missed' PROVE ToldSoFar(r.run, r.results)'
    BY <1>0, <2>2 DEF ResultsKept, ToldSoFar, InSlot, Told
  <2> QED
    BY <2>1, <2>2 DEF ResultsKept
<1>10. RecordsClosed'
  <2> SUFFICES ASSUME NEW r \in Env, r.ended
               PROVE  /\ \A i \in 1..Len(tasks) : tasks[i].run = r.run =>
                           ~InSlot(i)' /\ (r.run \in missed' \/ Told(i, r.results)')
                      /\ \A p \in EnvPolicies : active'[p] # None /\ active'[p].run = r.run =>
                           AllDone(active'[p])
    BY DEF RecordsClosed
  <2>1. \A i \in 1..Len(tasks) : tasks[i].run = r.run =>
          ~InSlot(i) /\ (r.run \in missed \/ Told(i, r.results))
    BY <1>0 DEF RecordsClosed
  <2>2. \A p \in EnvPolicies : active[p] # None /\ active[p].run = r.run => AllDone(active[p])
    BY <1>0 DEF RecordsClosed
  <2>3. \A p \in EnvPolicies : active[p] # None /\ AllDone(active[p]) => AllDone(active'[p])
    BY EnvInPolicies DEF Grows
  <2> QED
    BY <1>1, <1>2, <1>7, <1>8, <2>1, <2>2, <2>3, EnvInPolicies
<1> QED
  BY <1>5, <1>6, <1>9, <1>10 DEF RecordInv

(* A backup that ended gives its slot free: its result is known wherever its run is. *)
SlotTold ==
  /\ \A p \in EnvPolicies : active[p] # None /\ tasks[inFlight.task].run = active[p].run =>
       Told(inFlight.task, ResultsOf(active[p]))
  /\ \A r \in Env : r.run > before /\ r.run \notin missed /\ tasks[inFlight.task].run = r.run =>
       Told(inFlight.task, r.results)

LEMMA RecordsFreed ==
  ASSUME RecordInv, SlotTold, UNCHANGED <<active, tasks, before, missed>>, Env' = Env, EmptyStays,
         inFlight # None, inFlight' = None
  PROVE  RecordInv'
<1>0. RunsApart /\ RecordsKept /\ ResultsKept /\ RecordsClosed
  BY DEF RecordInv
<1>1. RunsApart'
  BY <1>0 DEF RunsApart, Foreign, NotInEnv
<1>2. RecordsKept'
  BY <1>0 DEF RecordsKept, Unended, Awaited, EmptyStays
<1>3. \A i, results : InSlot(i) \/ Told(i, results) => i = inFlight.task \/ Told(i, results)'
  BY StillTold DEF InSlot
<1>4. \A i, results : Told(i, results) => Told(i, results)'
  BY StillTold
<1>5. ResultsKept'
  <2>1. ASSUME NEW p \in EnvPolicies, active[p] # None
        PROVE  ToldSoFar(active[p].run, ResultsOf(active[p]))'
    <3>1. ToldSoFar(active[p].run, ResultsOf(active[p]))
      BY <1>0, <2>1 DEF ResultsKept
    <3>2. tasks[inFlight.task].run = active[p].run => Told(inFlight.task, ResultsOf(active[p]))
      BY <2>1 DEF SlotTold
    <3> QED
      BY <1>3, <1>4, <3>1, <3>2 DEF ToldSoFar
  <2>2. ASSUME NEW r \in Env, r.run > before, r.run \notin missed' PROVE ToldSoFar(r.run, r.results)'
    <3>1. ToldSoFar(r.run, r.results)
      BY <1>0, <2>2 DEF ResultsKept
    <3>2. tasks[inFlight.task].run = r.run => Told(inFlight.task, r.results)
      BY <2>2 DEF SlotTold
    <3> QED
      BY <1>3, <1>4, <3>1, <3>2 DEF ToldSoFar
  <2> QED
    BY <2>1, <2>2 DEF ResultsKept
<1>6. RecordsClosed'
  BY <1>0 DEF RecordsClosed, InSlot, Told
<1> QED
  BY <1>1, <1>2, <1>5, <1>6 DEF RecordInv

(* A backup starts: its run is not over. *)
LEMMA RecordsTrigger ==
  ASSUME RecordInv, TypeInv, NEW p, NEW run, Owns(p, run), \A r \in Env : r.run = run => ~r.ended,
         UNCHANGED <<active, before, missed>>, Env' = Env, EmptyStays, inFlight = None,
         inFlight' # None, inFlight'.policy = p, inFlight'.task = Len(tasks) + 1,
         Len(tasks') = Len(tasks) + 1, \A i \in 1..Len(tasks) : tasks'[i] = tasks[i],
         tasks'[Len(tasks) + 1].run = run
  PROVE  RecordInv'
<1>0. RunsApart /\ RecordsKept /\ ResultsKept /\ RecordsClosed
  BY DEF RecordInv
<1>01. Len(tasks) \in Nat
  BY DEF TypeInv, TypeOK
<1>n. PICK n : n = Len(tasks) + 1
  OBVIOUS
<1>02. n \in Nat /\ \A i \in 1..Len(tasks') : i = n \/ (i \in 1..Len(tasks) /\ i # n)
  BY <1>01, <1>n
<1>1. \A i \in 1..Len(tasks) : \A results : InSlot(i) \/ Told(i, results) => Told(i, results)'
  BY StillTold DEF InSlot
<1>2. InSlot(n)' /\ \A i \in 1..Len(tasks) : ~InSlot(i)'
  BY <1>02, <1>01, <1>n DEF InSlot
<1>3. RunsApart'
  <2>1. Owns(p, run)'
    BY DEF Owns, Foreign, NotInEnv
  <2>2. (inFlight # None => Owns(inFlight.policy, tasks[inFlight.task].run))'
    BY <2>1
  <2> QED
    BY <1>0, <2>2 DEF RunsApart, Foreign, NotInEnv
<1>4. RecordsKept'
  BY <1>0 DEF RecordsKept, Unended, Awaited, EmptyStays
<1>5. \A q, results : ToldSoFar(q, results) => ToldSoFar(q, results)'
  BY <1>02, <1>1, <1>2 DEF ToldSoFar
<1>6. ResultsKept'
  <2>1. ASSUME NEW q \in EnvPolicies, active[q] # None
        PROVE  ToldSoFar(active[q].run, ResultsOf(active[q]))'
    BY <1>0, <1>02, <1>1, <1>2, <2>1 DEF ResultsKept, ToldSoFar
  <2>2. ASSUME NEW r \in Env, r.run > before, r.run \notin missed' PROVE ToldSoFar(r.run, r.results)'
    BY <1>0, <1>5, <2>2 DEF ResultsKept
  <2> QED
    BY <2>1, <2>2 DEF ResultsKept
<1>7. RecordsClosed'
  <2> SUFFICES ASSUME NEW r \in Env, r.ended
               PROVE  \A i \in 1..Len(tasks') : tasks'[i].run = r.run =>
                        ~InSlot(i)' /\ (r.run \in missed' \/ Told(i, r.results)')
    BY <1>0 DEF RecordsClosed
  <2>1. r.run # run
    OBVIOUS
  <2> QED
    BY <1>0, <1>02, <1>1, <1>2, <1>n, <2>1 DEF RecordsClosed
<1> QED
  BY <1>3, <1>4, <1>6, <1>7 DEF RecordInv

(* A backup that runs has no result yet: its end takes nothing back. *)
LEMMA RecordsTaskEnds ==
  ASSUME RecordInv, NEW i \in 1..Len(tasks), tasks[i].state = "running",
         UNCHANGED <<active, inFlight, before, missed>>, Env' = Env, EmptyStays,
         Len(tasks') = Len(tasks), \A j \in 1..Len(tasks) : j # i => tasks'[j] = tasks[j],
         tasks'[i].run = tasks[i].run, inFlight # None => inFlight.task \in 1..Len(tasks)
  PROVE  RecordInv'
<1>0. RunsApart /\ RecordsKept /\ ResultsKept /\ RecordsClosed
  BY DEF RecordInv
<1>1. \A j \in 1..Len(tasks) : tasks'[j].run = tasks[j].run
  OBVIOUS
<1>2. \A j \in 1..Len(tasks) : \A results : Told(j, results) => Told(j, results)'
  BY DEF Told, Ended
<1>3. \A j : InSlot(j)' <=> InSlot(j)
  BY DEF InSlot
<1>4. RunsApart'
  BY <1>0, <1>1 DEF RunsApart, Owns, Foreign, NotInEnv
<1>5. RecordsKept'
  BY <1>0 DEF RecordsKept, Unended, Awaited, EmptyStays
<1>6. ResultsKept'
  <2>1. ASSUME NEW q \in EnvPolicies, active[q] # None
        PROVE  ToldSoFar(active[q].run, ResultsOf(active[q]))'
    BY <1>0, <1>1, <1>2, <1>3, <2>1 DEF ResultsKept, ToldSoFar
  <2>2. ASSUME NEW r \in Env, r.run > before, r.run \notin missed' PROVE ToldSoFar(r.run, r.results)'
    BY <1>0, <1>1, <1>2, <1>3, <2>2 DEF ResultsKept, ToldSoFar
  <2> QED
    BY <2>1, <2>2 DEF ResultsKept
<1>7. RecordsClosed'
  BY <1>0, <1>1, <1>2, <1>3 DEF RecordsClosed
<1> QED
  BY <1>4, <1>5, <1>6, <1>7 DEF RecordInv

(* The results of a run are written to the log. *)
LEMMA RecordsWritten ==
  ASSUME RecordInv, NEW run, NEW results, Rewrites(Env', Env, run, results),
         NotInEnv(run) \/ AllTold(run, results),
         \A r \in Env : r.run = run => Awaited(r),
         UNCHANGED <<active, inFlight, tasks, before>>, missed' = missed \ {run}, EmptyStays
  PROVE  RecordInv'
<1>0. RunsApart /\ RecordsKept /\ ResultsKept /\ RecordsClosed
  BY DEF RecordInv
<1>1. ASSUME NEW s \in Env'
      PROVE  \E r \in Env :
               /\ s.run = r.run /\ (s.ended <=> r.ended)
               /\ \/ r.run # run /\ s.results = r.results
                  \/ r.run = run /\ s.results = results /\ AllTold(run, results)
  BY <1>1 DEF Rewrites, NotInEnv
<1>2. \A q : Foreign(q) => Foreign(q)'
  BY <1>1 DEF Foreign, NotInEnv
<1>3. RunsApart'
  <2>1. \A p, q : Owns(p, q) => Owns(p, q)'
    BY <1>2 DEF Owns
  <2>2. (inFlight # None => Owns(inFlight.policy, tasks[inFlight.task].run))'
    BY <1>0, <2>1 DEF RunsApart
  <2>3. \A p \in SitePolicies : active[p] # None => Foreign(active[p].run)'
    BY <1>0, <1>2 DEF RunsApart
  <2>4. ~EnvConfigured => Env' = {}
    BY <1>0, <1>1 DEF RunsApart
  <2> QED
    BY <1>0, <2>2, <2>3, <2>4 DEF RunsApart
<1>4. RecordsKept'
  BY <1>0, <1>1 DEF RecordsKept, Unended, Awaited, EmptyStays
<1>5. ResultsKept'
  <2>1. ASSUME NEW q \in EnvPolicies, active[q] # None
        PROVE  ToldSoFar(active[q].run, ResultsOf(active[q]))'
    BY <1>0, <2>1 DEF ResultsKept, ToldSoFar, InSlot, Told
  <2>2. ASSUME NEW s \in Env', s.run > before, s.run \notin missed' PROVE ToldSoFar(s.run, s.results)'
    BY <1>0, <1>1, <2>2 DEF ResultsKept, ToldSoFar, AllTold, InSlot, Told
  <2> QED
    BY <2>1, <2>2 DEF ResultsKept
<1>6. RecordsClosed'
  <2> SUFFICES ASSUME NEW s \in Env', s.ended
               PROVE  /\ \A i \in 1..Len(tasks) : tasks[i].run = s.run =>
                           ~InSlot(i)' /\ (s.run \in missed' \/ Told(i, s.results)')
                      /\ \A p \in EnvPolicies : active[p] # None /\ active[p].run = s.run => AllDone(active[p])
    BY DEF RecordsClosed
  <2>1. PICK r \in Env :
               /\ s.run = r.run /\ (s.ended <=> r.ended)
               /\ \/ r.run # run /\ s.results = r.results
                  \/ r.run = run /\ s.results = results /\ AllTold(run, results)
    BY <1>1
  <2>2. \A i \in 1..Len(tasks) : tasks[i].run = s.run =>
          ~InSlot(i) /\ (s.run \in missed' \/ Told(i, s.results))
    BY <1>0, <2>1 DEF RecordsClosed, AllTold
  <2>3. \A i \in 1..Len(tasks) : (InSlot(i)' <=> InSlot(i)) /\ (Told(i, s.results)' <=> Told(i, s.results))
    BY DEF InSlot, Told
  <2> QED
    BY <1>0, <2>1, <2>2, <2>3 DEF RecordsClosed
<1> QED
  BY <1>3, <1>4, <1>5, <1>6 DEF RecordInv

LEMMA EndedRecords ==
  ASSUME NEW c, NEW run
  PROVE  /\ \A s \in EndedIn(c, run) : \E r \in c : s = IF r.run = run THEN [r EXCEPT !.ended = TRUE] ELSE r
         /\ \A r \in c : \E s \in EndedIn(c, run) : s = IF r.run = run THEN [r EXCEPT !.ended = TRUE] ELSE r
BY DEF EndedIn

LEMMA EndedRecord ==
  ASSUME TypeInv, NEW run, NEW s \in EndedIn(Env, run)
  PROVE  \E r \in Env : /\ s.run = r.run /\ s.results = r.results
                        /\ s.ended <=> (r.ended \/ r.run = run)
<1>1. PICK r \in Env : s = IF r.run = run THEN [r EXCEPT !.ended = TRUE] ELSE r
  BY EndedRecords
<1>2. r \in Record
  BY DEF Env, TypeInv, TypeOK
<1>3. r.run = run => s.run = r.run /\ s.results = r.results /\ s.ended
  BY <1>1, <1>2 DEF Record
<1> QED
  BY <1>1, <1>3

(* A run is over: its record is ended. *)
LEMMA RecordsEnded ==
  ASSUME RecordInv, TypeInv, NEW run, Env' = EndedIn(Env, run),
         UNCHANGED <<active, inFlight, tasks, before, missed>>,
         \A r \in Env : r.run = run =>
           \A i \in 1..Len(tasks) : tasks[i].run = run => ~InSlot(i) /\ (run \in missed \/ Told(i, r.results)),
         \A p \in EnvPolicies : active[p] # None /\ active[p].run = run => AllDone(active[p]),
         \A t \in Ticks : pc[t] = "endEmpty" =>
           (pc'[t] = "endEmpty" /\ loc'[t].run = loc[t].run) \/ loc[t].run \in missed' \cup {run}
  PROVE  RecordInv'
<1>0. RunsApart /\ RecordsKept /\ ResultsKept /\ RecordsClosed
  BY DEF RecordInv
<1>1. ASSUME NEW s \in Env'
      PROVE  \E r \in Env : /\ s.run = r.run /\ s.results = r.results
                            /\ s.ended <=> (r.ended \/ r.run = run)
  BY EndedRecord
<1>2. \A q : Foreign(q) => Foreign(q)'
  BY <1>1 DEF Foreign, NotInEnv
<1>3. RunsApart'
  <2>1. \A p, q : Owns(p, q) => Owns(p, q)'
    BY <1>2 DEF Owns
  <2>2. (inFlight # None => Owns(inFlight.policy, tasks[inFlight.task].run))'
    BY <1>0, <2>1 DEF RunsApart
  <2>3. \A p \in SitePolicies : active[p] # None => Foreign(active[p].run)'
    BY <1>0, <1>2 DEF RunsApart
  <2>4. ~EnvConfigured => Env' = {}
    BY <1>0, <1>1 DEF RunsApart
  <2> QED
    BY <1>0, <2>2, <2>3, <2>4 DEF RunsApart
<1>4. RecordsKept'
  BY <1>0, <1>1 DEF RecordsKept, Unended, Awaited
<1>5. \A i, results : (InSlot(i)' <=> InSlot(i)) /\ (Told(i, results)' <=> Told(i, results))
  BY StillTold DEF InSlot
<1>6. ResultsKept'
  <2>1. ASSUME NEW q \in EnvPolicies, active[q] # None
        PROVE  ToldSoFar(active[q].run, ResultsOf(active[q]))'
    BY <1>0, <1>5, <2>1 DEF ResultsKept, ToldSoFar
  <2>2. ASSUME NEW s \in Env', s.run > before, s.run \notin missed' PROVE ToldSoFar(s.run, s.results)'
    BY <1>0, <1>1, <1>5, <2>2 DEF ResultsKept, ToldSoFar
  <2> QED
    BY <2>1, <2>2 DEF ResultsKept
<1>7. RecordsClosed'
  <2> SUFFICES ASSUME NEW s \in Env', s.ended
               PROVE  /\ \A i \in 1..Len(tasks) : tasks[i].run = s.run =>
                           ~InSlot(i)' /\ (s.run \in missed' \/ Told(i, s.results)')
                      /\ \A p \in EnvPolicies : active[p] # None /\ active[p].run = s.run => AllDone(active[p])
    BY DEF RecordsClosed
  <2>1. PICK r \in Env : /\ s.run = r.run /\ s.results = r.results
                         /\ s.ended <=> (r.ended \/ r.run = run)
    BY <1>1
  <2> QED
    BY <1>0, <1>5, <2>1 DEF RecordsClosed
<1> QED
  BY <1>3, <1>4, <1>6, <1>7 DEF RecordInv

(* No run has the number of the next one. *)
LEMMA NextRun ==
  ASSUME TypeInv
  PROVE  /\ \A p \in Policies : active[p] # None => active[p].run # lastRun + 1
         /\ \A i \in 1..Len(tasks) : tasks[i].run # lastRun + 1
         /\ \A r \in Env : r.run \in 0..lastRun /\ r.run # lastRun + 1
         /\ lastRun \in Nat /\ before \in 0..lastRun
<1>1. lastRun \in Nat /\ before \in 0..lastRun
  BY DEF TypeInv, TypeOK, Runs
<1>2. \A p \in Policies : active[p] # None => active[p].run \in 0..lastRun
  BY RunTypes DEF Runs
<1>3. \A i \in 1..Len(tasks) : tasks[i].run \in 0..lastRun
  BY TaskTypes DEF Runs
<1>4. \A r \in Env : r.run \in 0..lastRun
  <2>1. \A r \in Env : r \in Record
    BY DEF Env, TypeInv, TypeOK
  <2> QED
    BY <2>1 DEF Record, Runs
<1> QED
  BY <1>1, <1>2, <1>3, <1>4

(* A run is created: of the scheduler, and in its log, or of an operator, and in the log of
   the site. *)
LEMMA RecordsCreate ==
  ASSUME RecordInv, TypeInv, NEW p \in Policies, UNCHANGED <<inFlight, tasks, before, missed>>,
         inFlight # None => inFlight.task \in 1..Len(tasks) /\ inFlight.policy \in Policies,
         \A r \in Env' \ Env : /\ p \in EnvPolicies /\ EnvConfigured /\ r.run = lastRun + 1 /\ ~r.ended
                               /\ Awaited(r)',
         p \in EnvPolicies => active[p] = None,
         \A q \in Policies : q # p => active'[q] = active[q],
         \/ active'[p] = active[p]
         \/ active'[p] # None /\ active'[p].run = lastRun + 1,
         EmptyStays
  PROVE  RecordInv'
<1>0. RunsApart /\ RecordsKept /\ ResultsKept /\ RecordsClosed
  BY DEF RecordInv
<1>01. EnvPolicies \subseteq Policies /\ SitePolicies \subseteq Policies /\ SitePolicies \cap EnvPolicies = {}
  BY EnvInPolicies, BackupAssumption
<1>1. \A i, results : (InSlot(i)' <=> InSlot(i)) /\ (Told(i, results)' <=> Told(i, results))
  BY StillTold DEF InSlot
<1>2. \A q \in EnvPolicies : active'[q] # None =>
        active'[q] = active[q] \/ (q = p /\ active'[q].run = lastRun + 1)
  BY <1>01
<1>21. \A q \in EnvPolicies : active[q] # None => active'[q] = active[q]
  BY <1>01
<1>3. \A run : Foreign(run) /\ run # lastRun + 1 => Foreign(run)'
  BY <1>2 DEF Foreign, NotInEnv
<1>4. \A n : p \in SitePolicies /\ n = lastRun + 1 => Foreign(n)'
  <2>1. p \in SitePolicies =>
          (\A r \in Env' : r \in Env) /\ \A q \in EnvPolicies : active'[q] = active[q]
    BY <1>01
  <2> QED
    BY <1>01, <2>1, NextRun DEF Foreign, NotInEnv
<1>5. RunsApart'
  <2>1. \A q, u \in EnvPolicies :
           active'[q] # None /\ active'[u] # None /\ active'[q].run = active'[u].run => q = u
    BY <1>0, <1>01, <1>2, NextRun DEF RunsApart
  <2>2. \A q \in SitePolicies : active'[q] # None => Foreign(active[q].run)'
    BY <1>0, <1>01, <1>3, <1>4, NextRun DEF RunsApart
  <2>3. (inFlight # None => Owns(inFlight.policy, tasks[inFlight.task].run))'
    BY <1>0, <1>01, <1>21, <1>3, NextRun DEF RunsApart, Owns
  <2>4. ~EnvConfigured => Env' = {}
    BY <1>0 DEF RunsApart
  <2> QED
    BY <2>1, <2>2, <2>3, <2>4 DEF RunsApart
<1>6. RecordsKept'
  <2>1. \A r \in Env : Awaited(r) /\ r.run \notin missed => Awaited(r)'
    BY <1>21 DEF Awaited, EmptyStays
  <2> QED
    BY <1>0, <2>1 DEF RecordsKept, Unended
<1>7. ResultsKept'
  <2>1. ASSUME NEW q \in EnvPolicies, active'[q] # None
        PROVE  ToldSoFar(active[q].run, ResultsOf(active[q]))'
    BY <1>0, <1>1, <1>2, <2>1, NextRun DEF ResultsKept, ToldSoFar
  <2>2. ASSUME NEW r \in Env', r.run > before, r.run \notin missed' PROVE ToldSoFar(r.run, r.results)'
    BY <1>0, <1>1, <2>2, NextRun DEF ResultsKept, ToldSoFar
  <2> QED
    BY <2>1, <2>2 DEF ResultsKept
<1>8. RecordsClosed'
  BY <1>0, <1>1, <1>2, NextRun DEF RecordsClosed
<1> QED
  BY <1>5, <1>6, <1>7, <1>8 DEF RecordInv

(* A run leaves the engine: its record is ended. *)
LEMMA RecordsDelete ==
  ASSUME RecordInv, TypeInv, NEW p \in Policies, UNCHANGED <<inFlight, tasks, before, missed>>, Env' = Env,
         EmptyStays, inFlight = None, active' = [active EXCEPT ![p] = None],
         p \in EnvPolicies /\ active[p] # None =>
           \A r \in Env : r.run = active[p].run => r.ended \/ r.run \in missed
  PROVE  RecordInv'
<1>0. RunsApart /\ RecordsKept /\ ResultsKept /\ RecordsClosed
  BY DEF RecordInv
<1>1. \A q \in Policies : active'[q] = IF q = p THEN None ELSE active[q]
  BY DEF TypeInv, TypeOK
<1>2. \A i, results : (InSlot(i)' <=> InSlot(i)) /\ (Told(i, results)' <=> Told(i, results))
  BY StillTold DEF InSlot
<1>3. \A run : Foreign(run) => Foreign(run)'
  BY <1>1, EnvInPolicies DEF Foreign, NotInEnv
<1>4. RunsApart'
  <2>1. \A q \in SitePolicies : active'[q] # None => Foreign(active[q].run)'
    BY <1>0, <1>1, <1>3, EnvInPolicies DEF RunsApart
  <2> QED
    BY <1>0, <1>1, <2>1, EnvInPolicies DEF RunsApart
<1>5. RecordsKept'
  BY <1>0, <1>1, EnvInPolicies DEF RecordsKept, Unended, Awaited, EmptyStays
<1>6. ResultsKept'
  <2>1. ASSUME NEW q \in EnvPolicies, active'[q] # None
        PROVE  ToldSoFar(active[q].run, ResultsOf(active[q]))'
    BY <1>0, <1>1, <1>2, <2>1, EnvInPolicies DEF ResultsKept, ToldSoFar
  <2>2. ASSUME NEW r \in Env, r.run > before, r.run \notin missed' PROVE ToldSoFar(r.run, r.results)'
    BY <1>0, <1>2, <2>2 DEF ResultsKept, ToldSoFar
  <2> QED
    BY <2>1, <2>2 DEF ResultsKept
<1>7. RecordsClosed'
  BY <1>0, <1>1, <1>2, EnvInPolicies DEF RecordsClosed
<1> QED
  BY <1>4, <1>5, <1>6, <1>7 DEF RecordInv

(* The process restarts, and no run of the log is of it any more. *)
LEMMA RecordsRestart == ASSUME RecordInv, TypeInv, Restart PROVE RecordInv'
<1>0. RunsApart /\ RecordsKept /\ ResultsKept /\ RecordsClosed
  BY DEF RecordInv
<1>1. /\ \A p \in Policies : active'[p] = None
      /\ inFlight' = None /\ before' = lastRun /\ UNCHANGED <<tasks, missed>> /\ Env' = Env
  BY DEF Restart, clusterVars, Env
<1>2. \A r \in Env : ~(r.run > before')
  BY <1>1, NextRun
<1>3. \A i, results : Told(i, results)' <=> Told(i, results)
  BY <1>1, StillTold
<1>4. RunsApart'
  BY <1>0, <1>1, EnvInPolicies DEF RunsApart
<1>5. RecordsKept' /\ ResultsKept'
  BY <1>1, <1>2, EnvInPolicies DEF RecordsKept, ResultsKept, Unended
<1>6. RecordsClosed'
  BY <1>0, <1>1, <1>3, EnvInPolicies DEF RecordsClosed, InSlot
<1> QED
  BY <1>4, <1>5, <1>6 DEF RecordInv

LEMMA InitRecords == Init => RecordInv /\ TickInv
BY EnvInPolicies DEF Init, RecordInv, RunsApart, RecordsKept, ResultsKept, RecordsClosed, Env, TickInv,
   TickOf, TickStarts, TickEnds, TickReports, Reporting, Ending, Polling, Actors

-----------------------------------------------------------------------------
(* The tick *)

LEMMA TickContext ==
  ASSUME NEW t \in Ticks
  PROVE  t \in Actors /\ t \notin Manuals /\ Context(t) = IF EnvConfigured THEN "env" ELSE "none"
BY BackupAssumption DEF Actors, Context

(* The steps of others, as far as the tick goes. *)
LEMMA TickStays ==
  ASSUME TickInv, \A p \in EnvPolicies : active'[p] = active[p], UNCHANGED tasks, Env' = Env,
         missed \subseteq missed',
         \A t \in Ticks : pc'[t] = pc[t] /\ loc'[t] = loc[t]
  PROVE  TickInv'
<1> SUFFICES ASSUME NEW t \in Ticks PROVE TickOf(t)'
  BY DEF TickInv
<1>0. TickStarts(t) /\ TickEnds(t) /\ TickReports(t) /\ pc'[t] = pc[t] /\ loc'[t] = loc[t]
  BY DEF TickInv, TickOf
<1>1. \A i, results : Told(i, results)' <=> Told(i, results)
  BY StillTold
<1>2. \A p, run : Owns(p, run)' <=> Owns(p, run)
  BY DEF Owns, Foreign, NotInEnv
<1>3. TickStarts(t)'
  BY <1>0 DEF TickStarts, Context
<1>4. TickEnds(t)'
  BY <1>0, <1>2 DEF TickEnds, Context
<1>5. TickReports(t)'
  BY <1>0, <1>1, <1>2 DEF TickReports, AllTold, Rewrites, Context
<1> QED
  BY <1>3, <1>4, <1>5 DEF TickOf

(* A tick that has nothing to do with the records. *)
LEMMA TickRests ==
  ASSUME NEW t, pc'[t] \in {"idle", "snapshot", "advance", "list", "done"} PROVE TickOf(t)'
BY DEF TickOf, TickStarts, TickEnds, TickReports, Reporting, Ending

LEMMA TickReporting ==
  ASSUME NEW t, pc'[t] \in Reporting \cup {"clear"}, TickReports(t)' PROVE TickOf(t)'
BY DEF TickOf, TickStarts, TickEnds, TickReports, Reporting, Ending
LEMMA TickEnding ==
  ASSUME NEW t, pc'[t] \in Ending \cup {"trigger"}, TickEnds(t)' PROVE TickOf(t)'
BY DEF TickOf, TickStarts, TickEnds, TickReports, Reporting, Ending
LEMMA TickStarting ==
  ASSUME NEW t, pc'[t] \in {"start", "create", "endEmpty"}, TickStarts(t)' PROVE TickOf(t)'
BY DEF TickOf, TickStarts, TickEnds, TickReports, Reporting, Ending

(* The scheduler's log has no record of the run, if updateBackupRun finds none. *)
LEMMA NoRecord ==
  ASSUME RecordInv, NEW t \in Ticks, NEW run, ~HasRecord(t, run) PROVE NotInEnv(run)
BY TickContext DEF HasRecord, NotInEnv, Env, RecordInv, RunsApart

(* The run of a policy is its own. *)
LEMMA OwnRun ==
  ASSUME RecordInv, NEW p \in Policies, active[p] # None PROVE Owns(p, active[p].run)
BY DEF RecordInv, RunsApart, Owns

LEMMA SnapshotRecords ==
  ASSUME RecordInv, TickInv, TypeInv, ArchiveInv, SlotInv, NEW t \in Ticks, Snapshot(t)
  PROVE  RecordInv' /\ TickOf(t)'
<1>p. PICK p, i : p = loc[t].policy /\ i = loc[t].task
  OBVIOUS
<1>1. /\ pc[t] = "snapshot" /\ Ended(tasks[i].state) /\ Others(t) /\ EmptyStays
      /\ UNCHANGED <<clusterVars, due, log, lastRun, before, missed, errors>> /\ Env' = Env
  BY <1>p, SnapshotDoes, StepStays, TickContext DEF Env
<1>2. /\ inFlight # None /\ inFlight.policy = p /\ inFlight.task = i /\ inFlight.guest = loc[t].guest
      /\ tasks[i].guest = loc[t].guest /\ p \in Policies /\ i \in 1..Len(tasks)
  BY <1>1, <1>p, PolledLocals DEF SlotInv, SlotOf, Holds, Polling, ArchiveInv, SlotTask
<1>3. Owns(p, tasks[i].run)
  BY <1>2 DEF RecordInv, RunsApart
<1>4. CASE active[p] = None
  <2>1. UNCHANGED active /\ pc'[t] = "advance" /\ inFlight' = None
    BY <1>4, <1>p, SnapshotDoes
  <2>2. p \in SitePolicies /\ Foreign(tasks[i].run)
    BY <1>2, <1>3, <1>4 DEF Owns, Policies
  <2>3. SlotTold
    BY <1>2, <2>2 DEF SlotTold, Foreign, NotInEnv
  <2> QED
    BY <1>1, <1>2, <2>1, <2>3, RecordsFreed, TickRests DEF clusterVars
<1>5. CASE active[p] # None
  <2>1. PICK r \in Result :
          /\ UNCHANGED <<inFlight, backingUp>>
          /\ loc'[t].policy = p /\ loc'[t].guest = loc[t].guest /\ loc'[t].task = i
          /\ loc'[t].run = active[p].run
          /\ r.guest = loc[t].guest /\ (r.ok <=> tasks[i].state = "success")
          /\ loc'[t].results = ResultsOf(active[p]) \cup {r}
          /\ \/ r.ok /\ pc'[t] = "prune" /\ UNCHANGED active
             \/ pc'[t] = "update" /\ PushedTo(p, active[p].run, r)
    BY <1>5, <1>p, SnapshotDoes
  <2>2. Grows /\ (pc'[t] = "update" => r \in ResultsOf(active'[p]))
    BY <1>2, <1>5, <2>1, PushGrows, SameGrows
  <2>3. RecordInv'
    BY <1>1, <2>1, <2>2, RecordsStay DEF clusterVars
  <2>4. \A results : r \in results => Told(i, results)
    BY <1>1, <1>2, <2>1 DEF Told, Result
  <2>5. PICK n : n = active[p].run
    OBVIOUS
  <2>6. active'[p] # None /\ active'[p].run = n /\ loc'[t].run = n
    BY <1>2, <1>5, <2>1, <2>2, <2>5 DEF Grows
  <2>7. Owns(p, n)'
    BY <1>2, <2>3, <2>6 DEF RecordInv, RunsApart, Owns
  <2>8. p \in EnvPolicies => tasks[i].run = n /\ AllTold(n, loc'[t].results)
    <3>1. p \in EnvPolicies => ToldSoFar(n, ResultsOf(active[p])) /\ tasks[i].run = n
      BY <1>3, <1>5, <2>5 DEF RecordInv, ResultsKept, Owns
    <3>2. \A j : Told(j, ResultsOf(active[p])) => Told(j, loc'[t].results)
      BY <2>1 DEF Told
    <3> QED
      BY <1>2, <2>1, <2>4, <3>1, <3>2 DEF ToldSoFar, AllTold, InSlot
  <2>9. tasks' = tasks
    BY <1>1 DEF clusterVars
  <2>10. \A j, results : Told(j, results)' <=> Told(j, results)
    BY <2>9, StillTold
  <2>11. (p \in EnvPolicies => loc[t].run = tasks[loc[t].task].run /\ AllTold(loc[t].run, loc[t].results))'
    BY <2>1, <2>6, <2>8, <2>9, <2>10 DEF AllTold
  <2>12. pc'[t] = "prune" => tasks'[i].state = "success"
    BY <2>1, <2>9
  <2>13. pc'[t] = "update" => Told(loc[t].task, ResultsOf(active[loc[t].policy]))'
    BY <2>1, <2>2, <2>4, <2>10
  <2>14. Owns(loc[t].policy, loc[t].run)'
    BY <2>1, <2>6, <2>7
  <2>15. TickReports(t)'
    BY <2>1, <2>11, <2>12, <2>13, <2>14 DEF TickReports, Reporting
  <2> QED
    BY <2>1, <2>3, <2>15, TickReporting DEF Reporting
<1> QED
  BY <1>4, <1>5

(* What a tick that reports a backup has. *)
LEMMA Reports ==
  ASSUME RecordInv, TickInv, TypeInv, ArchiveInv, SlotInv, NEW t \in Ticks, pc[t] \in Reporting \cup {"clear"}
  PROVE  \E p \in Policies, i \in 1..Len(tasks) :
           /\ p = loc[t].policy /\ i = loc[t].task /\ TickReports(t) /\ Ended(tasks[i].state)
           /\ inFlight # None /\ inFlight.policy = p /\ inFlight.task = i
           /\ tasks[i].guest = loc[t].guest /\ Owns(p, tasks[i].run)
           /\ pc[t] \in Reporting => Owns(p, loc[t].run)
           /\ p \in SitePolicies \/ p \in EnvPolicies
           /\ p \in EnvPolicies /\ pc[t] \in Reporting => loc[t].run = tasks[i].run
<1>1. pc[t] \in Polling \ {"snapshot"} /\ TickReports(t)
  BY DEF Reporting, Polling, TickInv, TickOf
<1>2. Holds(t) /\ Ended(tasks[loc[t].task].state)
  BY <1>1 DEF SlotInv, SlotOf
<1>3. loc[t].policy \in Policies /\ loc[t].task \in 1..Len(tasks)
  BY <1>1, PolledLocals
<1>4. tasks[loc[t].task].guest = loc[t].guest
  BY <1>2 DEF ArchiveInv, SlotTask, Holds
<1>5. Owns(loc[t].policy, tasks[loc[t].task].run)
  BY <1>2 DEF RecordInv, RunsApart, Holds
<1>6. pc[t] \in Reporting => Owns(loc[t].policy, loc[t].run)
  BY <1>1 DEF TickReports
<1>7. loc[t].policy \in EnvPolicies /\ pc[t] \in Reporting => loc[t].run = tasks[loc[t].task].run
  BY <1>1 DEF TickReports
<1> QED
  BY <1>1, <1>2, <1>3, <1>4, <1>5, <1>6, <1>7 DEF Holds, Policies

LEMMA PruneRecords ==
  ASSUME RecordInv, TickInv, TypeInv, ArchiveInv, SlotInv, NEW t \in Ticks, Prune(t)
  PROVE  RecordInv' /\ TickOf(t)'
<1>1. /\ pc[t] = "prune" /\ pc'[t] = "update" /\ loc' = loc /\ EmptyStays
      /\ UNCHANGED <<inFlight, tasks, before, missed>> /\ Env' = Env
  BY PruneDoes, StepStays, TickContext DEF Env
<1>2. pc[t] \in Reporting
  BY <1>1 DEF Reporting
<1>3. PICK p \in Policies, i \in 1..Len(tasks) :
        /\ p = loc[t].policy /\ i = loc[t].task /\ TickReports(t) /\ Ended(tasks[i].state)
        /\ tasks[i].guest = loc[t].guest /\ Owns(p, loc[t].run)
        /\ p \in EnvPolicies => loc[t].run = tasks[i].run
  BY <1>2, Reports
<1>4. PICK r \in Result : r.guest = loc[t].guest /\ r.ok /\ PushedTo(p, loc[t].run, r)
  BY <1>3, PruneDoes
<1>5. Grows /\ \A q \in Policies : active[q] # None /\ q = p /\ active[q].run = loc[t].run =>
                 r \in ResultsOf(active'[q])
  BY <1>4, PushGrows
<1>6. RecordInv'
  BY <1>1, <1>5, RecordsStay
<1>7. PICK n : n = loc[t].run
  OBVIOUS
<1>8. Owns(p, n)'
  BY <1>1, <1>3, <1>5, <1>7, EnvInPolicies DEF Owns, Foreign, NotInEnv, Grows
<1>9. \A j, results : Told(j, results)' <=> Told(j, results)
  BY <1>1, StillTold
<1>10. p \in EnvPolicies => AllTold(n, loc[t].results)'
  BY <1>1, <1>2, <1>3, <1>7, <1>9 DEF TickReports, AllTold
<1>11. Told(i, {r})
  BY <1>1, <1>3, <1>4 DEF Told, TickReports, Result
<1>12. \A results : r \in results => Told(i, results)
  BY <1>11 DEF Told
<1>13. p \in EnvPolicies => Told(i, ResultsOf(active[p]))'
  BY <1>3, <1>5, <1>9, <1>12 DEF Owns
<1>14. TickReports(t)'
  BY <1>1, <1>3, <1>7, <1>8, <1>10, <1>13 DEF TickReports, Reporting
<1> QED
  BY <1>1, <1>6, <1>14, TickReporting DEF Reporting

LEMMA LoggedRecord ==
  ASSUME TypeInv, NEW t \in Ticks, NEW s \in Logged(Env, loc[t])
  PROVE  \E r \in Env : /\ s.run = r.run /\ (s.ended <=> r.ended)
                        /\ s.results = IF r.run = loc[t].run THEN loc[t].results ELSE r.results
<1>1. PICK r \in Env : s = IF r.run = loc[t].run THEN [r EXCEPT !.results = loc[t].results] ELSE r
  BY DEF Logged
<1>2. r \in Record
  BY DEF Env, TypeInv, TypeOK
<1>3. r.run = loc[t].run => s.run = r.run /\ s.results = loc[t].results /\ s.ended = r.ended
  BY <1>1, <1>2 DEF Record
<1> QED
  BY <1>1, <1>3

LEMMA UpdateRecords ==
  ASSUME RecordInv, TickInv, TypeInv, ArchiveInv, SlotInv, NEW t \in Ticks, Update(t)
  PROVE  RecordInv' /\ TickOf(t)'
<1>1. /\ pc[t] = "update" /\ Keeps(t) /\ EmptyStays
      /\ UNCHANGED <<active, inFlight, tasks, before>> /\ missed \subseteq missed' /\ Env' = Env
      /\ \/ /\ HasRecord(t, loc[t].run) /\ pc'[t] = "updateWrite"
            /\ loc'[t].copy = Logged(log[Context(t)], loc[t])
         \/ ~HasRecord(t, loc[t].run) /\ pc'[t] = "clear"
         \/ pc'[t] = "clear" /\ loc[t].run \in missed'
  BY UpdateDoes, StepStays, TickContext DEF Env, engineVars, clusterVars
<1>2. pc[t] \in Reporting
  BY <1>1 DEF Reporting
<1>3. PICK p \in Policies, i \in 1..Len(tasks) :
        /\ p = loc[t].policy /\ i = loc[t].task /\ TickReports(t)
        /\ Owns(p, loc[t].run) /\ Owns(p, tasks[i].run)
        /\ p \in SitePolicies \/ p \in EnvPolicies
        /\ p \in EnvPolicies => loc[t].run = tasks[i].run
  BY <1>2, Reports
<1>4. RecordInv'
  BY <1>1, RecordsStay, SameGrows
<1>5. PICK n, results : n = loc[t].run /\ results = loc[t].results
  OBVIOUS
<1>6. /\ loc'[t].policy = p /\ loc'[t].task = i /\ loc'[t].run = n /\ loc'[t].results = results
  BY <1>1, <1>3, <1>5 DEF Keeps
<1>7. \A j, res : Told(j, res)' <=> Told(j, res)
  BY <1>1, StillTold
<1>8. Owns(p, n)'
  BY <1>1, <1>3, <1>5 DEF Owns, Foreign, NotInEnv
<1>9. p \in EnvPolicies => n = tasks[i].run /\ AllTold(n, results)' /\ Told(i, ResultsOf(active[p]))'
  BY <1>1, <1>2, <1>3, <1>5, <1>7 DEF TickReports, AllTold
<1>10. pc'[t] = "updateWrite" => Context(t)' = "env" /\ Rewrites(loc[t].copy, Env, loc[t].run, loc[t].results)'
  <2> SUFFICES ASSUME pc'[t] = "updateWrite"
               PROVE  Context(t) = "env" /\ Rewrites(loc[t].copy, Env, loc[t].run, loc[t].results)'
    BY DEF Context
  <2>1. Context(t) = "env" /\ loc'[t].copy = Logged(Env, loc[t])
    BY <1>1, TickContext DEF HasRecord, Env
  <2>2. \A s \in loc'[t].copy : \E r \in Env :
           /\ s.run = r.run /\ (s.ended <=> r.ended)
           /\ s.results = IF r.run = n THEN results ELSE r.results
    BY <2>1, <1>5, LoggedRecord
  <2> QED
    BY <1>1, <1>6, <2>1, <2>2 DEF Rewrites
<1>11. pc'[t] = "clear" => \A r \in Env : r.run # tasks[i].run \/ r.run \in missed'
  <2>1. pc'[t] = "clear" => NotInEnv(loc[t].run) \/ loc[t].run \in missed'
    BY <1>1, NoRecord
  <2> QED
    BY <1>3, <2>1 DEF Owns, Foreign, NotInEnv
<1>12. TickReports(t)'
  BY <1>1, <1>6, <1>8, <1>9, <1>10, <1>11 DEF TickReports, Reporting
<1> QED
  BY <1>1, <1>4, <1>12, TickReporting DEF Reporting

LEMMA UpdateWriteRecords ==
  ASSUME RecordInv, TickInv, TypeInv, ArchiveInv, SlotInv, NEW t \in Ticks, UpdateWrite(t)
  PROVE  RecordInv' /\ TickOf(t)'
<1>1. /\ pc[t] = "updateWrite" /\ EmptyStays /\ UNCHANGED <<active, inFlight, tasks, before>>
  BY UpdateWriteDoes, StepStays, TickContext DEF engineVars, clusterVars
<1>2. pc[t] \in Reporting
  BY <1>1 DEF Reporting
<1>3. PICK p \in Policies, i \in 1..Len(tasks) :
        /\ p = loc[t].policy /\ i = loc[t].task /\ TickReports(t)
        /\ inFlight.task = i /\ i \in 1..Len(tasks)
        /\ Owns(p, loc[t].run) /\ Owns(p, tasks[i].run)
        /\ p \in SitePolicies \/ p \in EnvPolicies
        /\ p \in EnvPolicies => loc[t].run = tasks[i].run
  BY <1>2, Reports
<1>4. CASE pc'[t] = "advance" /\ UNCHANGED <<log, missed>>
  <2>1. Env' = Env
    BY <1>4 DEF Env
  <2> QED
    BY <1>1, <1>4, <2>1, RecordsStay, SameGrows, TickRests
<1>5. CASE /\ log' = [log EXCEPT ![Context(t)] = loc[t].copy] /\ missed' = missed \ {loc[t].run}
           /\ pc'[t] = "clear" /\ loc' = loc
  <2>1. Context(t) = "env" /\ Rewrites(loc[t].copy, Env, loc[t].run, loc[t].results)
    BY <1>1, <1>3 DEF TickReports
  <2>2. Env' = loc[t].copy
    BY <1>5, <2>1 DEF Env, TypeInv, TypeOK
  <2>3. PICK n, results : n = loc[t].run /\ results = loc[t].results
    OBVIOUS
  <2>4. Rewrites(Env', Env, n, results)
    BY <2>1, <2>2, <2>3
  <2>5. p \in EnvPolicies => AllTold(n, results) /\ n = tasks[i].run
    BY <1>2, <1>3, <2>3 DEF TickReports
  <2>6. p \in SitePolicies => NotInEnv(n) /\ NotInEnv(tasks[i].run)
    BY <1>3, <2>3 DEF Owns, Foreign
  <2>9. \A r \in Env : r.run = n => Awaited(r)
    BY <1>3, <2>3, <2>6 DEF NotInEnv, Owns, Awaited
  <2>7. RecordInv'
    BY <1>1, <1>3, <1>5, <2>3, <2>4, <2>5, <2>6, <2>9, RecordsWritten
  <2>8. TickReports(t)'
    <3>1. \A j, res : Told(j, res)' <=> Told(j, res)
      BY <1>1, StillTold
    <3>2. p \in EnvPolicies => Told(i, ResultsOf(active[p]))'
      BY <1>1, <1>3, <3>1 DEF TickReports
    <3>3. \A r \in Env' : r.run = tasks[i].run => Told(i, r.results)
      BY <1>3, <2>4, <2>5, <2>6 DEF Rewrites, NotInEnv, AllTold
    <3> QED
      BY <1>1, <1>3, <1>5, <3>1, <3>2, <3>3 DEF TickReports, Reporting
  <2> QED
    BY <1>5, <2>7, <2>8, TickReporting
<1> QED
  BY <1>4, <1>5, UpdateWriteDoes

LEMMA ClearRecords ==
  ASSUME RecordInv, TickInv, TypeInv, ArchiveInv, SlotInv, NEW t \in Ticks, Clear(t)
  PROVE  RecordInv' /\ TickOf(t)'
<1>1. /\ pc[t] = "clear" /\ pc'[t] = "advance" /\ EmptyStays /\ inFlight' = None
      /\ UNCHANGED <<active, tasks, before, missed>> /\ Env' = Env
  BY ClearDoes, StepStays, TickContext DEF Env, clusterVars
<1>2. PICK p \in Policies, i \in 1..Len(tasks) :
        /\ p = loc[t].policy /\ i = loc[t].task /\ TickReports(t)
        /\ inFlight # None /\ inFlight.task = i /\ Owns(p, tasks[i].run)
        /\ p \in SitePolicies \/ p \in EnvPolicies
  BY <1>1, Reports
<1>3. ASSUME NEW q \in EnvPolicies, active[q] # None, tasks[i].run = active[q].run
      PROVE  Told(i, ResultsOf(active[q]))
  <2>1. p \in EnvPolicies /\ q = p
    BY <1>2, <1>3 DEF Owns, Foreign, RecordInv, RunsApart
  <2> QED
    BY <1>1, <1>2, <2>1 DEF TickReports
<1>4. \A r \in Env : r.run = tasks[i].run => r.run \in missed \/ Told(i, r.results)
  BY <1>1, <1>2 DEF TickReports
<1>5. SlotTold
  BY <1>2, <1>3, <1>4 DEF SlotTold
<1> QED
  BY <1>1, <1>2, <1>5, RecordsFreed, TickRests

(* The tick goes on to a run: one that is complete, or one with a guest to back up. *)
LEMMA LoopRecords ==
  ASSUME RecordInv', NEW t \in Ticks, NEW left \in SUBSET Policies, Looped(t, left), backingUp = {}
  PROVE  TickOf(t)'
<1>1. CASE pc'[t] = "list"
  BY <1>1, TickRests
<1>2. ASSUME NEW p \in left,
             active'[p] # None, loc'[t].policy = p, loc'[t].run = active'[p].run,
             \/ pc'[t] = "finalize" /\ Complete(active'[p])
             \/ pc'[t] = "trigger" /\ loc'[t].guest \in NextGuests(active'[p])
      PROVE  TickOf(t)'
  <2>1. PICK n : n = active'[p].run
    OBVIOUS
  <2>2. Owns(p, n)' /\ (p \in SitePolicies \/ p \in EnvPolicies)
    BY <1>2, <2>1 DEF RecordInv, RunsApart, Owns, Policies
  <2>3. pc'[t] = "finalize" => AllDone(active[p])'
    BY <1>2 DEF Complete, NextGuests, AllDone
  <2>4. pc'[t] = "trigger" => \A r \in Env' : r.run = n => ~r.ended
    <3> SUFFICES ASSUME pc'[t] = "trigger", NEW r \in Env', r.run = n, r.ended PROVE FALSE
      OBVIOUS
    <3>1. p \in EnvPolicies => AllDone(active[p])'
      BY <1>2, <2>1 DEF RecordInv, RecordsClosed
    <3>2. p \notin EnvPolicies
      BY <1>2, <3>1 DEF AllDone, NextGuests
    <3> QED
      BY <2>2, <3>2 DEF Owns, Foreign, NotInEnv
  <2>5. TickEnds(t)'
    BY <1>2, <2>1, <2>2, <2>3, <2>4 DEF TickEnds, Ending
  <2> QED
    BY <1>2, <2>5, TickEnding DEF Ending
<1> QED
  BY <1>1, <1>2 DEF Looped

LEMMA AdvanceRecords ==
  ASSUME RecordInv, TypeInv, SlotInv, NEW t \in Ticks, Advance(t)
  PROVE  RecordInv' /\ TickOf(t)'
<1>1. /\ pc[t] = "advance" /\ EmptyStays /\ UNCHANGED <<active, inFlight, backingUp, tasks, before, missed>>
      /\ Env' = Env
      /\ pc'[t] = "list" \/ (inFlight = None /\ Looped(t, ActivePolicies))
  BY AdvanceDoes, StepStays, TickContext DEF Env, engineVars, clusterVars
<1>2. RecordInv'
  BY <1>1, RecordsStay, SameGrows
<1>3. CASE pc'[t] = "list"
  BY <1>2, <1>3, TickRests
<1>4. CASE inFlight = None /\ Looped(t, ActivePolicies)
  <2>1. backingUp = {}
    BY <1>4 DEF SlotInv, SlotMarked
  <2>2. ActivePolicies \in SUBSET Policies
    BY DEF ActivePolicies
  <2> QED
    BY <1>2, <1>4, <2>1, <2>2, LoopRecords
<1> QED
  BY <1>1, <1>3, <1>4

LEMMA TriggerRecords ==
  ASSUME RecordInv, TickInv, TypeInv, SlotInv, NEW t \in Ticks, Trigger(t)
  PROVE  RecordInv' /\ TickOf(t)'
<1>1. PICK p, n : p = loc[t].policy /\ n = loc[t].run
  OBVIOUS
<1>2. /\ pc[t] = "trigger" /\ pc'[t] = "list" /\ EmptyStays
      /\ UNCHANGED <<active, before, missed>> /\ Env' = Env
      /\ Len(tasks') = Len(tasks) + 1 /\ \A i \in 1..Len(tasks) : tasks'[i] = tasks[i]
      /\ tasks'[Len(tasks) + 1].run = n
      /\ inFlight' # None /\ inFlight'.policy = p /\ inFlight'.task = Len(tasks) + 1
  BY <1>1, TriggerDoes, StepStays, TickContext DEF Env
<1>3. inFlight = None
  BY <1>2 DEF SlotInv, SlotOf
<1>4. Owns(p, n) /\ \A r \in Env : r.run = n => ~r.ended
  BY <1>1, <1>2 DEF TickInv, TickOf, TickEnds
<1> QED
  BY <1>2, <1>3, <1>4, RecordsTrigger, TickRests

LEMMA TriggerFailsRecords ==
  ASSUME RecordInv, TypeInv, NEW t \in Ticks, TriggerFails(t)
  PROVE  RecordInv' /\ TickOf(t)'
<1>1. /\ pc[t] = "trigger" /\ pc'[t] = "list" /\ EmptyStays
      /\ UNCHANGED <<inFlight, tasks, before, missed>> /\ Env' = Env
      /\ \E r \in Result : PushedTo(loc[t].policy, loc[t].run, r)
  BY TriggerFailsDoes, StepStays, TickContext DEF Env, clusterVars
<1>2. Grows
  BY <1>1, PushGrows
<1> QED
  BY <1>1, <1>2, RecordsStay, TickRests

(* What a tick that ends a run has. *)
LEMMA Ends ==
  ASSUME TickInv, TypeInv, SlotInv, NEW t \in Ticks, pc[t] \in Ending
  PROVE  /\ loc[t].policy \in Policies /\ inFlight = None /\ backingUp = {} /\ TickEnds(t)
         /\ Owns(loc[t].policy, loc[t].run)
         /\ loc[t].policy \in SitePolicies \/ loc[t].policy \in EnvPolicies
BY TickContext, TickLocals DEF Policies, SlotInv, SlotOf, SlotMarked, TickInv, TickOf, TickEnds

LEMMA FinalizeRecords ==
  ASSUME RecordInv, TickInv, TypeInv, SlotInv, NEW t \in Ticks, Finalize(t)
  PROVE  RecordInv' /\ TickOf(t)'
<1>1. /\ pc[t] = "finalize" /\ Keeps(t) /\ EmptyStays
      /\ UNCHANGED <<active, inFlight, tasks, before>> /\ missed \subseteq missed' /\ Env' = Env
      /\ \/ HasRecord(t, loc[t].run) /\ pc'[t] = "finalizeWrite" /\ loc'[t].copy = log[Context(t)]
         \/ ~HasRecord(t, loc[t].run) /\ pc'[t] = "mark"
         \/ pc'[t] = "mark" /\ loc[t].run \in missed'
  BY FinalizeDoes, StepStays, TickContext DEF Env, engineVars, clusterVars
<1>2. PICK p, n : p = loc[t].policy /\ n = loc[t].run
  OBVIOUS
<1>3. TickEnds(t) /\ Owns(p, n)
  BY <1>1, <1>2, Ends DEF Ending
<1>4. RecordInv'
  BY <1>1, RecordsStay, SameGrows
<1>5. Owns(p, n)'
  BY <1>1, <1>3 DEF Owns, Foreign, NotInEnv
<1>6. p \in EnvPolicies => AllDone(active[p])'
  BY <1>1, <1>2, <1>3 DEF TickEnds, Ending
<1>7. pc'[t] = "finalizeWrite" => (Context(t) = "env" /\ loc[t].copy = Env)'
  BY <1>1, TickContext DEF HasRecord, Env, Context
<1>8. pc'[t] = "mark" => \A r \in Env : r.run # n \/ r.run \in missed'
  BY <1>1, <1>2, NoRecord DEF NotInEnv
<1>9. TickEnds(t)'
  BY <1>1, <1>2, <1>5, <1>6, <1>7, <1>8 DEF TickEnds, Ending, Keeps
<1> QED
  BY <1>1, <1>4, <1>9, TickEnding DEF Ending

LEMMA FinalizeWriteRecords ==
  ASSUME RecordInv, TickInv, TypeInv, SlotInv, NEW t \in Ticks, FinalizeWrite(t)
  PROVE  RecordInv' /\ TickOf(t)'
<1>1. /\ pc[t] = "finalizeWrite" /\ EmptyStays /\ UNCHANGED <<active, inFlight, tasks, before, missed>>
  BY FinalizeWriteDoes, StepStays, TickContext DEF engineVars, clusterVars
<1>2. CASE pc'[t] = "idle" /\ UNCHANGED log
  <2>1. Env' = Env
    BY <1>2 DEF Env
  <2> QED
    BY <1>1, <1>2, <2>1, RecordsStay, SameGrows, TickRests
<1>3. CASE /\ log' = [log EXCEPT ![Context(t)] = EndedIn(loc[t].copy, loc[t].run)]
           /\ pc'[t] = "mark" /\ loc' = loc
  <2>1. PICK p \in Policies, n \in {loc[t].run} : p = loc[t].policy /\ n = loc[t].run
    BY <1>1, Ends DEF Ending
  <2>2. /\ TickEnds(t) /\ Owns(p, n) /\ inFlight = None
        /\ p \in SitePolicies \/ p \in EnvPolicies
    BY <1>1, <2>1, Ends DEF Ending
  <2>3. Env' = EndedIn(Env, n)
    BY <1>1, <1>3, <2>1, <2>2 DEF Env, TickEnds, TypeInv, TypeOK
  <2>4. p \in EnvPolicies => AllDone(active[p]) /\ active[p] # None /\ active[p].run = n
    BY <1>1, <2>1, <2>2 DEF TickEnds, Ending, Owns
  <2>5. p \in EnvPolicies => n > before
    BY <2>1, <2>4 DEF TypeInv, ActivePolicies
  <2>6. \A r \in Env : r.run = n =>
          \A i \in 1..Len(tasks) : tasks[i].run = n => ~InSlot(i) /\ (n \in missed \/ Told(i, r.results))
    <3>1. CASE p \in SitePolicies
      BY <2>2, <3>1 DEF Owns, Foreign, NotInEnv
    <3>2. CASE p \in EnvPolicies
      BY <2>2, <2>5, <3>2 DEF RecordInv, ResultsKept, ToldSoFar, InSlot
    <3> QED
      BY <2>2, <3>1, <3>2
  <2>7. \A q \in EnvPolicies : active[q] # None /\ active[q].run = n => AllDone(active[q])
    BY <2>2, <2>4 DEF Owns, Foreign, RecordInv, RunsApart
  <2>8. RecordInv'
    BY <1>1, <2>3, <2>6, <2>7, RecordsEnded DEF EmptyStays
  <2>9. \A s \in Env' : \E r \in Env : s.run = r.run /\ (s.run = n => s.ended)
    BY <2>3, EndedRecord
  <2>10. TickEnds(t)'
    <3>1. Owns(p, n)'
      BY <1>1, <2>2, <2>9 DEF Owns, Foreign, NotInEnv
    <3>2. p \in EnvPolicies => AllDone(active[p])'
      BY <1>1, <2>4
    <3> QED
      BY <1>3, <2>1, <2>9, <3>1, <3>2 DEF TickEnds, Ending
  <2> QED
    BY <1>3, <2>8, <2>10, TickEnding DEF Ending
<1> QED
  BY <1>2, <1>3, FinalizeWriteDoes

LEMMA MarkRecords ==
  ASSUME RecordInv, TickInv, TypeInv, SlotInv, NEW t \in Ticks, Mark(t)
  PROVE  RecordInv' /\ TickOf(t)'
<1>1. /\ pc[t] = "mark" /\ EmptyStays /\ UNCHANGED <<active, inFlight, tasks, before, missed>> /\ Env' = Env
      /\ (pc'[t] = "delete" /\ loc' = loc) \/ pc'[t] = "idle"
  BY MarkDoes, StepStays, TickContext DEF Env, engineVars, clusterVars
<1>2. RecordInv'
  BY <1>1, RecordsStay, SameGrows
<1>3. CASE pc'[t] = "idle"
  BY <1>2, <1>3, TickRests
<1>4. CASE pc'[t] = "delete" /\ loc' = loc
  <2>1. TickEnds(t)
    BY <1>1, Ends DEF Ending
  <2>2. TickEnds(t)'
    BY <1>1, <1>4, <2>1 DEF TickEnds, Ending, Owns, Foreign, NotInEnv
  <2> QED
    BY <1>2, <1>4, <2>2, TickEnding DEF Ending
<1> QED
  BY <1>1, <1>3, <1>4

LEMMA DeleteRecords ==
  ASSUME RecordInv, TickInv, TypeInv, SlotInv, NEW t \in Ticks, Delete(t)
  PROVE  RecordInv' /\ TickOf(t)'
<1>1. PICK p \in Policies : p = loc[t].policy
  BY DeleteDoes
<1>2. /\ pc[t] = "delete" /\ EmptyStays /\ UNCHANGED <<inFlight, backingUp, tasks, before, missed>> /\ Env' = Env
      /\ active' = [active EXCEPT ![p] = None] /\ loc[t].left \in SUBSET Policies
      /\ Looped(t, loc[t].left)
  BY <1>1, DeleteDoes, StepStays, TickContext DEF Env, clusterVars
<1>3. TickEnds(t) /\ Owns(p, loc[t].run) /\ inFlight = None /\ backingUp = {}
  BY <1>1, <1>2, Ends DEF Ending
<1>4. p \in EnvPolicies /\ active[p] # None =>
        \A r \in Env : r.run = active[p].run => r.ended \/ r.run \in missed
  BY <1>2, <1>3 DEF TickEnds, Owns
<1>5. RecordInv'
  BY <1>2, <1>3, <1>4, RecordsDelete
<1> QED
  BY <1>2, <1>3, <1>5, LoopRecords

LEMMA ListRecords ==
  ASSUME RecordInv, TypeInv, NEW t \in Ticks, List(t)
  PROVE  RecordInv' /\ TickOf(t)'
<1>1. /\ pc[t] = "list" /\ EmptyStays /\ UNCHANGED <<active, inFlight, tasks, before, missed>> /\ Env' = Env
      /\ pc'[t] = "idle" \/ (pc'[t] = "start" /\ loc'[t].left = DuePolicies(t))
  BY ListDoes, StepStays, TickContext DEF Env, engineVars, clusterVars
<1>2. RecordInv'
  BY <1>1, RecordsStay, SameGrows
<1>3. CASE pc'[t] = "start" /\ loc'[t].left = DuePolicies(t)
  <2>1. DuePolicies(t) \subseteq EnvPolicies /\ \A p \in DuePolicies(t) : active[p] = None
    BY TickContext DEF DuePolicies, PoliciesIn
  <2>2. TickStarts(t)'
    BY <1>1, <1>3, <2>1 DEF TickStarts
  <2> QED
    BY <1>2, <1>3, <2>2, TickStarting
<1> QED
  BY <1>1, <1>2, <1>3, TickRests

LEMMA StartRecords ==
  ASSUME RecordInv, TickInv, TypeInv, NEW t \in Ticks, Start(t)
  PROVE  RecordInv' /\ TickOf(t)'
<1>1. /\ pc[t] = "start" /\ EmptyStays /\ UNCHANGED <<active, inFlight, tasks, before, missed>> /\ Env' = Env
  BY StartDoes, StepStays, TickContext DEF Env, engineVars, clusterVars
<1>2. RecordInv'
  BY <1>1, RecordsStay, SameGrows
<1>3. CASE pc'[t] = "idle"
  BY <1>2, <1>3, TickRests
<1>4. ASSUME NEW p \in loc[t].left, Context(t) = "env", loc'[t].left = loc[t].left \ {p},
             \/ pc'[t] = "create" /\ loc'[t].policy = p /\ loc'[t].copy \in {log["env"], {}}
             \/ pc'[t] = "start"
      PROVE  TickOf(t)'
  <2>1. TickStarts(t)
    BY DEF TickInv, TickOf
  <2>2. TickStarts(t)'
    BY <1>1, <1>4, <2>1 DEF TickStarts, Env, Context
  <2> QED
    BY <1>4, <2>2, TickStarting
<1> QED
  BY <1>2, <1>3, <1>4, StartDoes

(* A run that a tick creates: it is active, or has no guests, and the tick ends it at once. *)
LEMMA CreateRecords ==
  ASSUME RecordInv, TickInv, TypeInv, NEW t \in Ticks, Create(t)
  PROVE  RecordInv' /\ TickOf(t)'
<1>1. PICK p \in Policies : p = loc[t].policy
  BY CreateDoes, TickContext
<1>2. PICK n : n = lastRun + 1
  OBVIOUS
<1>3. /\ pc[t] = "create" /\ EmptyStays /\ UNCHANGED <<inFlight, tasks, before, missed>>
      /\ log' = [log EXCEPT ![Context(t)] = loc[t].copy \cup {[run |-> n, ended |-> FALSE, results |-> {}]}]
  BY <1>2, CreateDoes, StepStays, TickContext DEF clusterVars
<1>4. /\ Context(t) = "env" /\ p \in EnvPolicies /\ p \notin loc[t].left /\ loc[t].left \subseteq EnvPolicies
      /\ active[p] = None /\ loc[t].copy \subseteq Env /\ \A q \in loc[t].left : active[q] = None
  BY <1>1, <1>3 DEF TickInv, TickOf, TickStarts
<1>5. \A q \in Policies : q # p => active'[q] = active[q]
  BY <1>1, CreateDoes, TickContext
<1>6. \/ /\ pc'[t] = "endEmpty" /\ loc'[t].run = n /\ loc'[t].policy = p
         /\ loc'[t].left = loc[t].left /\ UNCHANGED active
      \/ /\ pc'[t] = "start" /\ loc'[t].left = loc[t].left
         /\ active'[p] # None /\ active'[p].run = n
  BY <1>1, <1>2, CreateDoes, TickContext DEF Gone
<1> DEFINE new == [run |-> n, ended |-> FALSE, results |-> {}]
<1>7. new.run = n /\ ~new.ended
  OBVIOUS
<1> HIDE DEF new
<1>8. Env' = loc[t].copy \cup {new}
  BY <1>3, <1>4 DEF Env, TypeInv, TypeOK, new
<1>9. RecordInv'
  <2>1. EnvConfigured
    BY <1>4, TickContext
  <2>2. ASSUME NEW r \in Env' \ Env
        PROVE  p \in EnvPolicies /\ EnvConfigured /\ r.run = lastRun + 1 /\ ~r.ended /\ Awaited(r)'
    BY <1>2, <1>4, <1>6, <1>7, <1>8, <2>1 DEF Awaited
  <2>3. inFlight # None => inFlight.task \in 1..Len(tasks) /\ inFlight.policy \in Policies
    BY DEF TypeInv, TypeOK, Slot
  <2>4. active'[p] = active[p] \/ (active'[p] # None /\ active'[p].run = lastRun + 1)
    BY <1>2, <1>6
  <2> QED
    BY <1>3, <1>4, <1>5, <1>8, <2>2, <2>3, <2>4, RecordsCreate
<1>10. TickStarts(t)'
  <2>1. \A q \in loc[t].left : active'[q] = None
    BY <1>4, <1>5, EnvInPolicies
  <2>2. CASE pc'[t] = "start"
    BY <1>4, <1>6, <2>1, <2>2 DEF TickStarts
  <2>3. CASE pc'[t] = "endEmpty"
    BY <1>2, <1>3, <1>4, <1>6, <2>1, <2>3, NextRun, EnvInPolicies DEF TickStarts, Context
  <2> QED
    BY <1>6, <2>2, <2>3
<1> QED
  BY <1>6, <1>9, <1>10, TickStarting

LEMMA CreateFailsRecords ==
  ASSUME RecordInv, TickInv, TypeInv, NEW t \in Ticks, CreateFails(t)
  PROVE  RecordInv' /\ TickOf(t)'
<1>1. /\ pc[t] = "create" /\ EmptyStays /\ UNCHANGED <<active, inFlight, tasks, before, missed>> /\ Env' = Env
      /\ pc'[t] = "start" /\ loc'[t].left = loc[t].left
  BY CreateFailsDoes, StepStays, TickContext DEF Env, engineVars, clusterVars, Gone
<1>2. RecordInv'
  BY <1>1, RecordsStay, SameGrows
<1>3. TickStarts(t)'
  BY <1>1 DEF TickInv, TickOf, TickStarts
<1> QED
  BY <1>1, <1>2, <1>3, TickStarting

LEMMA EndEmptyRecords ==
  ASSUME RecordInv, TickInv, TypeInv, OneTick, NEW t \in Ticks, EndEmpty(t)
  PROVE  RecordInv' /\ TickOf(t)'
<1>1. PICK n : n = loc[t].run
  OBVIOUS
<1>2. /\ pc[t] = "endEmpty" /\ UNCHANGED <<active, inFlight, tasks, before>>
      /\ \/ log' = [log EXCEPT ![Context(t)] = EndedIn(@, n)] /\ UNCHANGED missed
         \/ missed' = missed \cup {n} /\ UNCHANGED log
      /\ pc'[t] = "start" /\ loc'[t].left = loc[t].left
  BY <1>1, EndEmptyDoes, TickContext DEF engineVars, clusterVars, Gone
<1>3. TickStarts(t)
  BY DEF TickInv, TickOf
<1>4. \A u \in Ticks : u = t /\ loc[u].run = n
  BY <1>1 DEF OneTick
<1>5. ASSUME log' = [log EXCEPT ![Context(t)] = EndedIn(@, n)], UNCHANGED missed PROVE RecordInv'
  <2>1. Env' = EndedIn(Env, n)
    BY <1>2, <1>3, <1>5 DEF Env, TickStarts, TypeInv, TypeOK
  <2>2. \A i \in 1..Len(tasks) : tasks[i].run # n
    BY <1>1, <1>2, <1>3 DEF TickStarts
  <2>3. \A p \in EnvPolicies : active[p] # None => active[p].run # n
    BY <1>1, <1>2, <1>3 DEF TickStarts
  <2> QED
    BY <1>2, <1>4, <1>5, <2>1, <2>2, <2>3, RecordsEnded
<1>6. ASSUME missed' = missed \cup {n}, UNCHANGED log PROVE RecordInv'
  <2>1. EmptyStays /\ missed \subseteq missed' /\ Env' = Env
    BY <1>4, <1>6 DEF EmptyStays, Env
  <2> QED
    BY <1>2, <2>1, RecordsStay, SameGrows
<1>7. TickStarts(t)'
  BY <1>2, <1>3 DEF TickStarts
<1> QED
  BY <1>2, <1>5, <1>6, <1>7, TickStarting

(* What an operator does leaves the scheduler's records alone. *)
LEMMA ManualRecords ==
  ASSUME RecordInv, TickInv, TypeInv, NEW m \in Manuals,
         Manual(m) \/ ManualStart(m) \/ Create(m) \/ CreateFails(m) \/ EndEmpty(m)
  PROVE  RecordInv' /\ TickInv'
<1>1. m \in Actors /\ m \notin Ticks /\ Context(m) = "site"
  BY BackupAssumption DEF Actors, Context
<1>2. Others(m) /\ UNCHANGED <<inFlight, tasks, before>> /\ missed \subseteq missed'
  BY <1>1, ManualDoes, ManualStartDoes, CreateDoes, CreateFailsDoes, EndEmptyDoes DEF engineVars, clusterVars
<1>3. \A t \in Ticks : pc'[t] = pc[t] /\ loc'[t] = loc[t]
  BY <1>1, <1>2, OtherStays
<1>4. EmptyStays
  BY <1>3 DEF EmptyStays
<1>5. CASE Manual(m) \/ ManualStart(m) \/ CreateFails(m)
  <2>1. UNCHANGED active /\ Env' = Env
    BY <1>1, <1>5, ManualDoes, ManualStartDoes, CreateFailsDoes DEF Env, engineVars
  <2> QED
    BY <1>2, <1>3, <1>4, <2>1, RecordsStay, SameGrows, TickStays
<1>6. CASE EndEmpty(m)
  <2>1. UNCHANGED active /\ Env' = Env
    BY <1>1, <1>6, EndEmptyDoes DEF Env, engineVars, TypeInv, TypeOK
  <2> QED
    BY <1>2, <1>3, <1>4, <2>1, RecordsStay, SameGrows, TickStays
<1>7. CASE Create(m)
  <2>1. PICK p \in Policies : p = loc[m].policy
    BY <1>1, <1>7, CreateDoes
  <2>2. /\ \A q \in Policies : q # p => active'[q] = active[q]
        /\ active'[p] = active[p] \/ (active'[p] # None /\ active'[p].run = lastRun + 1)
        /\ pc[m] = "create" /\ Env' = Env /\ UNCHANGED missed
    BY <1>1, <1>7, <2>1, CreateDoes DEF Env, TypeInv, TypeOK
  <2>3. p \in SitePolicies /\ p \notin EnvPolicies
    BY <1>1, <2>1, <2>2, BackupAssumption DEF TypeInv, LocalsOK, Fits
  <2>4. inFlight # None => inFlight.task \in 1..Len(tasks) /\ inFlight.policy \in Policies
    BY DEF TypeInv, TypeOK, Slot
  <2>5. \A r \in Env' \ Env : FALSE
    BY <2>2
  <2>6. RecordInv'
    BY <1>2, <1>4, <2>2, <2>3, <2>4, <2>5, RecordsCreate
  <2>7. \A q \in EnvPolicies : active'[q] = active[q]
    BY <2>2, <2>3, EnvInPolicies
  <2> QED
    BY <1>2, <1>3, <2>2, <2>6, <2>7, TickStays
<1> QED
  BY <1>5, <1>6, <1>7

LEMMA TaskEndsRecords ==
  ASSUME RecordInv, TickInv, TypeInv, NEW i \in 1..Len(tasks), TaskEnds(i)
  PROVE  RecordInv' /\ TickInv'
<1>1. /\ tasks[i].state = "running" /\ Len(tasks') = Len(tasks)
      /\ \A j \in 1..Len(tasks) : j # i => tasks'[j] = tasks[j]
      /\ tasks'[i].run = tasks[i].run
      /\ UNCHANGED <<active, inFlight, before, missed, pc, loc>> /\ Env' = Env
  BY TaskEnded DEF engineVars, Env
<1>2. inFlight # None => inFlight.task \in 1..Len(tasks)
  BY DEF TypeInv, TypeOK
<1>3. RecordInv'
  BY <1>1, <1>2, RecordsTaskEnds DEF EmptyStays
<1>4. \A j \in 1..Len(tasks) : \A results : Told(j, results) => Told(j, results)'
  BY <1>1, StillTold DEF Told, Ended
<1>5. \A j \in 1..Len(tasks) : tasks'[j].run = tasks[j].run
  BY <1>1
<1>6. \A p, run : Owns(p, run)' <=> Owns(p, run)
  BY <1>1 DEF Owns, Foreign, NotInEnv
<1>7. ASSUME NEW t \in Ticks PROVE TickOf(t)'
  <2>1. TickStarts(t) /\ TickEnds(t) /\ TickReports(t) /\ pc'[t] = pc[t] /\ loc'[t] = loc[t]
    BY <1>1 DEF TickInv, TickOf
  <2>2. pc[t] \in Reporting \cup {"clear"} => loc[t].task \in 1..Len(tasks)
    BY PolledLocals DEF Reporting, Polling
  <2>3. TickStarts(t)'
    BY <1>1, <1>5, <2>1 DEF TickStarts, Context
  <2>4. TickEnds(t)'
    BY <1>1, <1>6, <2>1 DEF TickEnds, Context
  <2>5. pc[t] \in Reporting /\ loc[t].policy \in EnvPolicies =>
          loc[t].run = tasks'[loc[t].task].run /\ AllTold(loc[t].run, loc[t].results)'
    BY <1>1, <1>4, <1>5, <2>1, <2>2 DEF TickReports, AllTold
  <2>6. pc[t] = "prune" => tasks'[loc[t].task].state = "success"
    BY <1>1, <2>1, <2>2 DEF TickReports, Reporting
  <2>7. pc[t] = "clear" =>
          \A r \in Env : r.run = tasks'[loc[t].task].run =>
            r.run \in missed \/ Told(loc[t].task, r.results)'
    BY <1>1, <1>4, <1>5, <2>1, <2>2 DEF TickReports
  <2>8. pc[t] \in {"update", "updateWrite", "clear"} /\ loc[t].policy \in EnvPolicies =>
          Told(loc[t].task, ResultsOf(active[loc[t].policy]))'
    BY <1>1, <1>4, <2>1, <2>2 DEF TickReports, Reporting
  <2>9. pc[t] = "updateWrite" =>
          Context(t) = "env" /\ Rewrites(loc[t].copy, Env, loc[t].run, loc[t].results)
    BY <2>1 DEF TickReports
  <2>10. TickReports(t)'
    BY <1>1, <1>6, <2>1, <2>5, <2>6, <2>7, <2>8, <2>9 DEF TickReports, Reporting, Context, Rewrites
  <2> QED
    BY <2>3, <2>4, <2>10 DEF TickOf
<1> QED
  BY <1>3, <1>7 DEF TickInv

LEMMA RecordStep ==
  ASSUME RecordInv, TickInv, TypeInv, ArchiveInv, SlotInv, OneTick, [Next]_vars
  PROVE  RecordInv' /\ TickInv'
<1>1. ASSUME NEW t \in Ticks, TickStart(t) \/ TickGoesOn(t) PROVE RecordInv' /\ TickInv'
  <2>1. RecordInv' /\ TickOf(t)'
    <3>1. CASE TickStart(t) \/ SnapshotIdle(t)
      <4>1. /\ pc'[t] \in {"snapshot", "advance"} /\ EmptyStays
            /\ UNCHANGED <<active, inFlight, tasks, before, missed>> /\ Env' = Env
        BY <3>1, TickStartDoes, SnapshotIdleDoes, StepStays, TickContext DEF Env, engineVars, clusterVars
      <4> QED
        BY <4>1, RecordsStay, SameGrows, TickRests
    <3>2. CASE Snapshot(t)
      BY <3>2, SnapshotRecords
    <3>3. CASE Prune(t)
      BY <3>3, PruneRecords
    <3>4. CASE Update(t)
      BY <3>4, UpdateRecords
    <3>5. CASE UpdateWrite(t)
      BY <3>5, UpdateWriteRecords
    <3>6. CASE Clear(t)
      BY <3>6, ClearRecords
    <3>7. CASE Advance(t)
      BY <3>7, AdvanceRecords
    <3>8. CASE Trigger(t) \/ TriggerFails(t)
      BY <3>8, TriggerRecords, TriggerFailsRecords
    <3>9. CASE Finalize(t) \/ FinalizeWrite(t)
      BY <3>9, FinalizeRecords, FinalizeWriteRecords
    <3>10. CASE Mark(t) \/ Delete(t)
      BY <3>10, MarkRecords, DeleteRecords
    <3>11. CASE List(t) \/ Start(t)
      BY <3>11, ListRecords, StartRecords
    <3>12. CASE Create(t) \/ CreateFails(t) \/ EndEmpty(t)
      BY <3>12, CreateRecords, CreateFailsRecords, EndEmptyRecords
    <3> QED
      BY <1>1, <3>1, <3>2, <3>3, <3>4, <3>5, <3>6, <3>7, <3>8, <3>9, <3>10, <3>11, <3>12
         DEF TickGoesOn
  <2>2. \A u \in Ticks : u = t
    BY DEF OneTick
  <2> QED
    BY <2>1, <2>2 DEF TickInv
<1>2. ASSUME NEW m \in Manuals, Manual(m) \/ ManualStart(m) \/ Create(m) \/ CreateFails(m) \/ EndEmpty(m)
      PROVE  RecordInv' /\ TickInv'
  BY <1>2, ManualRecords
<1>3. ASSUME NEW i \in 1..Len(tasks), TaskEnds(i) PROVE RecordInv' /\ TickInv'
  BY <1>3, TaskEndsRecords
<1>4. CASE (\E p \in Scheduled : ComesDue(p)) \/ UNCHANGED vars
  <2>1. UNCHANGED <<active, inFlight, tasks, before, missed, pc, loc>> /\ Env' = Env
    BY <1>4 DEF ComesDue, vars, engineVars, clusterVars, Env
  <2> QED
    BY <2>1, RecordsStay, SameGrows, TickStays DEF EmptyStays
<1>5. CASE Restart
  <2>1. \A t \in Ticks : pc'[t] \in {"done", "idle"}
    BY <1>5 DEF Restart, Actors
  <2> QED
    BY <1>5, <2>1, RecordsRestart, TickRests DEF TickInv
<1> QED
  BY <1>1, <1>2, <1>3, <1>4, <1>5 DEF Next

LEMMA Recorded == ASSUME OneTick PROVE Spec => [](RecordInv /\ TickInv)
<1>1. (RecordInv /\ TickInv) /\ TypeInv /\ ArchiveInv /\ SlotInv /\ [Next]_vars => (RecordInv /\ TickInv)'
  BY RecordStep
<1> QED
  BY <1>1, InitRecords, Typed, Archived, OneSlot, PTL DEF Spec

(* While the ticks do not overlap, a run of the scheduler that is over is not left in its
   log as running, unless the process that ran it is gone, a read of the log failed, or,
   for a run without guests, the write that ends it: finalizeBackupRun comes before
   activeRuns.delete, and a failed write leaves both for another tick, but readStore takes
   a log that it cannot read for an empty one. *)
THEOREM RunsRecorded == ASSUME OneTick PROVE Spec => []ScheduledRunsRecorded
<1>1. RecordInv /\ TypeInv => ScheduledRunsRecorded
  <2> SUFFICES ASSUME RecordInv, TypeInv, \A a \in Actors : pc[a] # "endEmpty",
                      NEW r \in log["env"], ~r.ended, ~(r.run <= before), r.run \notin missed
               PROVE  \E p \in EnvPolicies : active[p] # None /\ active[p].run = r.run
    BY DEF ScheduledRunsRecorded
  <2>1. r.run > before
    BY NextRun DEF Env
  <2>2. Awaited(r)
    BY <2>1 DEF RecordInv, RecordsKept, Unended, Env
  <2> QED
    BY <2>2, TickContext DEF Awaited
<1> QED
  BY <1>1, Recorded, Typed, PTL

(* While the ticks do not overlap, the record of a run that ended tells the outcome of every
   backup the run started, unless a read of the log failed since its results were last
   written: they are written before the slot is free, all of them each time, and the record
   is ended with the slot free. *)
THEOREM RecordsTellOutcomes == ASSUME OneTick PROVE Spec => []RecordsTell
<1>1. RecordInv => RecordsTell
  BY DEF RecordInv, RecordsClosed, RecordsTell, Env, Told
<1> QED
  BY <1>1, Recorded, PTL

-----------------------------------------------------------------------------
(* Runs that end *)

(* A tick that ends a run has found a result for each of its guests.  The run is the active
   one of its policy until the tick deletes it: a tick that starts runs starts none, an
   operator starts a run only for a policy that has none, and operators do so one by one. *)
NoRace == "race" \notin Faults
Busy(m) == pc[m] \notin {"idle", "done"}
EndsRun(t) == pc[t] \in Ending => active[loc[t].policy] # None /\ AllDone(active[loc[t].policy])
Waits(m) == pc[m] \in {"start", "create"} => loc[m].policy \in SitePolicies /\ active[loc[m].policy] = None
EndInv ==
  /\ \A t \in Ticks : EndsRun(t)
  /\ \A m \in Manuals : Waits(m)
  /\ \A m, n \in Manuals : Busy(m) /\ Busy(n) => m = n

LEMMA InitEnd == Init => EndInv
BY DEF Init, EndInv, EndsRun, Waits, Busy, Ending, Actors

(* A step of a tick, as far as operators go. *)
LEMMA ManualsStay ==
  ASSUME EndInv, NEW t \in Ticks, Others(t), \A p \in SitePolicies : active[p] = None => active'[p] = None,
         \A u \in Ticks : u = t, EndsRun(t)'
  PROVE  EndInv'
<1>1. ASSUME NEW m \in Manuals PROVE pc'[m] = pc[m] /\ loc'[m] = loc[m]
  BY BackupAssumption DEF Others, Actors
<1>2. \A u \in Ticks : EndsRun(u)'
  OBVIOUS
<1>3. \A m \in Manuals : Waits(m)'
  BY <1>1 DEF EndInv, Waits
<1>4. \A m, n \in Manuals : Busy(m)' /\ Busy(n)' => m = n
  BY <1>1 DEF EndInv, Busy
<1> QED
  BY <1>2, <1>3, <1>4 DEF EndInv

LEMMA LoopEnds ==
  ASSUME NEW t \in Ticks, NEW left, Looped(t, left), backingUp = {} PROVE EndsRun(t)'
<1>1. CASE pc'[t] \in {"list", "trigger"}
  BY <1>1 DEF EndsRun, Ending
<1>2. ASSUME NEW p \in left, active'[p] # None, loc'[t].policy = p, Complete(active'[p])
      PROVE  EndsRun(t)'
  <2>1. AllDone(active[p])'
    BY <1>2 DEF Complete, NextGuests, AllDone
  <2> QED
    BY <1>2, <2>1 DEF EndsRun
<1> QED
  BY <1>1, <1>2 DEF Looped

LEMMA TickEnd ==
  ASSUME EndInv, TickInv, TypeInv, SlotInv, OneTick, NEW t \in Ticks, TickStart(t) \/ TickGoesOn(t)
  PROVE  EndInv'
<1>0. \A u \in Ticks : u = t
  BY DEF OneTick
<1>1. CASE Advance(t)
  <2>1. /\ Others(t) /\ UNCHANGED active
        /\ pc'[t] = "list" \/ (inFlight = None /\ Looped(t, ActivePolicies))
    BY <1>1, AdvanceDoes DEF engineVars
  <2>2. inFlight = None => backingUp = {}
    BY DEF SlotInv, SlotMarked
  <2>3. EndsRun(t)'
    BY <2>1, <2>2, LoopEnds DEF EndsRun, Ending
  <2> QED
    BY <1>0, <2>1, <2>3, ManualsStay
<1>2. CASE Delete(t)
  <2>1. /\ pc[t] = "delete" /\ Others(t) /\ Looped(t, loc[t].left)
        /\ active' = [active EXCEPT ![loc[t].policy] = None]
    BY <1>2, DeleteDoes
  <2>2. backingUp = {}
    BY <2>1, Ends DEF Ending
  <2>3. \A p \in SitePolicies : active[p] = None => active'[p] = None
    BY <2>1, EnvInPolicies DEF TypeInv, TypeOK
  <2> QED
    BY <1>0, <2>1, <2>2, <2>3, LoopEnds, ManualsStay
<1>3. CASE Finalize(t) \/ FinalizeWrite(t) \/ Mark(t)
  <2>1. /\ pc[t] \in Ending /\ Others(t) /\ UNCHANGED active
        /\ pc'[t] \notin Ending \/ loc'[t].policy = loc[t].policy
    BY <1>3, FinalizeDoes, FinalizeWriteDoes, MarkDoes DEF engineVars, Ending, Keeps
  <2>2. EndsRun(t)'
    BY <2>1 DEF EndInv, EndsRun
  <2> QED
    BY <1>0, <2>1, <2>2, ManualsStay
<1>4. CASE Create(t)
  <2>1. /\ pc[t] = "create" /\ Others(t) /\ pc'[t] \in {"endEmpty", "start", "done"}
        /\ \A p \in Policies : p # loc[t].policy => active'[p] = active[p]
    BY <1>4, TickContext, CreateDoes DEF Gone
  <2>2. loc[t].policy \in EnvPolicies
    BY <2>1 DEF TickInv, TickOf, TickStarts
  <2>3. \A p \in SitePolicies : active'[p] = active[p]
    BY <2>1, <2>2, EnvInPolicies, BackupAssumption
  <2>4. EndsRun(t)'
    BY <2>1 DEF EndsRun, Ending
  <2> QED
    BY <1>0, <2>1, <2>3, <2>4, ManualsStay
<1>5. CASE Snapshot(t) \/ Prune(t) \/ TriggerFails(t)
  <2>1. Others(t) /\ pc'[t] \in {"advance", "prune", "update", "list"}
    BY <1>5, SnapshotDoes, PruneDoes, TriggerFailsDoes
  <2>2. UNCHANGED active \/ \E p, run, r : PushedTo(p, run, r)
    BY <1>5, SnapshotDoes, PruneDoes, TriggerFailsDoes
  <2>3. \A p \in SitePolicies : active[p] = None => active'[p] = None
    BY <2>2, EnvInPolicies DEF PushedTo
  <2>4. EndsRun(t)'
    BY <2>1 DEF EndsRun, Ending
  <2> QED
    BY <1>0, <2>1, <2>3, <2>4, ManualsStay
<1>6. CASE \/ TickStart(t) \/ SnapshotIdle(t) \/ Update(t) \/ UpdateWrite(t) \/ Clear(t) \/ Trigger(t)
           \/ List(t) \/ Start(t) \/ CreateFails(t) \/ EndEmpty(t)
  <2>1. Others(t) /\ UNCHANGED active /\ pc'[t] \notin Ending
    BY <1>6, TickContext, TickStartDoes, SnapshotIdleDoes, UpdateDoes, UpdateWriteDoes, ClearDoes,
       TriggerDoes, ListDoes, StartDoes, CreateFailsDoes, EndEmptyDoes DEF engineVars, Gone, Ending
  <2>2. EndsRun(t)'
    BY <2>1 DEF EndsRun
  <2> QED
    BY <1>0, <2>1, <2>2, ManualsStay
<1> QED
  BY <1>1, <1>2, <1>3, <1>4, <1>5, <1>6 DEF TickGoesOn

(* An operator starts a run while none of the others does: the policy still has none. *)
LEMMA ManualEnd ==
  ASSUME EndInv, TypeInv, NoRace, NEW m \in Manuals,
         Manual(m) \/ ManualStart(m) \/ Create(m) \/ CreateFails(m) \/ EndEmpty(m)
  PROVE  EndInv'
<1>1. m \in Actors /\ m \notin Ticks /\ Manuals \subseteq Actors
  BY BackupAssumption DEF Actors
<1>2. Others(m)
  BY <1>1, ManualDoes, ManualStartDoes, CreateDoes, CreateFailsDoes, EndEmptyDoes
<1>3. \A n \in Manuals : n # m => pc'[n] = pc[n] /\ loc'[n] = loc[n] /\ ~Busy(n)
  <2>1. \A n \in Manuals : n # m => pc'[n] = pc[n] /\ loc'[n] = loc[n]
    BY <1>1, <1>2 DEF Others
  <2>2. CASE Manual(m)
    BY <2>1, <2>2, ManualDoes DEF Busy, NoRace
  <2>3. CASE ManualStart(m) \/ Create(m) \/ CreateFails(m) \/ EndEmpty(m)
    <3>1. Busy(m)
      BY <1>1, <2>3, ManualStartDoes, CreateDoes, CreateFailsDoes, EndEmptyDoes DEF Busy
    <3> QED
      BY <2>1, <3>1 DEF EndInv
  <2> QED
    BY <2>2, <2>3
<1>4. \A n, o \in Manuals : Busy(n)' /\ Busy(o)' => n = o
  BY <1>3 DEF Busy
<1>5. /\ Waits(m)'
      /\ \A p \in Policies : active[p] # None => active'[p] = active[p]
  <2>1. CASE Manual(m)
    BY <2>1, ManualDoes DEF Waits, engineVars
  <2>2. CASE ManualStart(m)
    BY <2>2, ManualStartDoes DEF Waits, engineVars, EndInv, Keeps
  <2>3. CASE Create(m)
    <3>1. active[loc[m].policy] = None
      BY <1>1, <2>3, CreateDoes DEF EndInv, Waits
    <3>2. pc'[m] \notin {"start", "create"}
      BY <1>1, <2>3, CreateDoes DEF Gone
    <3>3. UNCHANGED active \/ \A p \in Policies : p # loc[m].policy => active'[p] = active[p]
      BY <1>1, <2>3, CreateDoes
    <3> QED
      BY <3>1, <3>2, <3>3 DEF Waits
  <2>4. CASE CreateFails(m) \/ EndEmpty(m)
    BY <1>1, <2>4, CreateFailsDoes, EndEmptyDoes DEF Waits, engineVars, Gone
  <2> QED
    BY <2>1, <2>2, <2>3, <2>4
<1>6. \A t \in Ticks : EndsRun(t)'
  <2> SUFFICES ASSUME NEW t \in Ticks PROVE EndsRun(t)'
    OBVIOUS
  <2>1. pc'[t] = pc[t] /\ loc'[t] = loc[t] /\ t \in Actors
    BY <1>1, <1>2, OtherStays, TickContext
  <2>2. pc[t] \in Ending => loc[t].policy \in Policies
    BY <2>1, TickLocals
  <2> QED
    BY <1>5, <2>1, <2>2 DEF EndInv, EndsRun, AllDone
<1>7. \A n \in Manuals : Waits(n)'
  BY <1>3, <1>5 DEF Waits, Busy
<1> QED
  BY <1>4, <1>6, <1>7 DEF EndInv

LEMMA EndStep ==
  ASSUME EndInv, TickInv, TypeInv, SlotInv, OneTick, NoRace, [Next]_vars PROVE EndInv'
<1>1. CASE \E t \in Ticks : TickStart(t) \/ TickGoesOn(t)
  BY <1>1, TickEnd
<1>2. CASE \E m \in Manuals : Manual(m) \/ ManualStart(m) \/ Create(m) \/ CreateFails(m) \/ EndEmpty(m)
  BY <1>2, ManualEnd
<1>3. CASE (\E i \in 1..Len(tasks) : TaskEnds(i)) \/ (\E p \in Scheduled : ComesDue(p)) \/ UNCHANGED vars
  <2>1. UNCHANGED <<active, pc, loc>>
    BY <1>3 DEF TaskEnds, ComesDue, vars, engineVars
  <2> QED
    BY <2>1 DEF EndInv, EndsRun, Waits, Busy, AllDone
<1>4. CASE Restart
  <2>1. \A a \in Actors : pc'[a] \in {"idle", "done"}
    BY <1>4 DEF Restart
  <2> QED
    BY <2>1 DEF EndInv, EndsRun, Waits, Busy, Ending, Actors
<1> QED
  BY <1>1, <1>2, <1>3, <1>4 DEF Next

(* What takes a run out of activeRuns: the end of the run, and a restart. *)
LEMMA StepEndsComplete ==
  ASSUME EndInv, TypeInv, [Next]_vars, NEW p \in Policies PROVE EndsComplete(p)
<1> SUFFICES ASSUME active[p] # None, active'[p] = None, before' = before PROVE AllDone(active[p])
  BY DEF EndsComplete, AllDone
<1>1. ASSUME NEW t \in Ticks, TickStart(t) \/ TickGoesOn(t) PROVE AllDone(active[p])
  <2>1. Delete(t)
    <3>1. /\ ~TickStart(t) /\ ~SnapshotIdle(t) /\ ~Update(t) /\ ~UpdateWrite(t) /\ ~Clear(t)
          /\ ~Advance(t) /\ ~Trigger(t) /\ ~Finalize(t) /\ ~FinalizeWrite(t) /\ ~Mark(t)
          /\ ~List(t) /\ ~Start(t) /\ ~CreateFails(t) /\ ~EndEmpty(t)
      BY TickContext, TickStartDoes, SnapshotIdleDoes, UpdateDoes, UpdateWriteDoes, ClearDoes, AdvanceDoes,
         TriggerDoes, FinalizeDoes, FinalizeWriteDoes, MarkDoes, ListDoes, StartDoes, CreateFailsDoes,
         EndEmptyDoes DEF engineVars
    <3>2. ~Snapshot(t) /\ ~Prune(t) /\ ~TriggerFails(t)
      <4>1. ~(\E q, run, r : PushedTo(q, run, r)) /\ active' # active
        BY DEF PushedTo
      <4> QED
        BY <4>1, SnapshotDoes, PruneDoes, TriggerFailsDoes
    <3>3. ~Create(t)
      BY TickContext, CreateDoes
    <3> QED
      BY <1>1, <3>1, <3>2, <3>3 DEF TickGoesOn
  <2>2. pc[t] = "delete" /\ loc[t].policy = p
    BY <2>1, DeleteDoes DEF TypeInv, TypeOK
  <2> QED
    BY <2>2 DEF EndInv, EndsRun, Ending
<1>2. ASSUME NEW m \in Manuals, Manual(m) \/ ManualStart(m) \/ Create(m) \/ CreateFails(m) \/ EndEmpty(m)
      PROVE  FALSE
  <2>1. m \in Actors
    BY DEF Actors
  <2> QED
    BY <1>2, <2>1, ManualDoes, ManualStartDoes, CreateDoes, CreateFailsDoes, EndEmptyDoes DEF engineVars
<1>3. ~(\E i \in 1..Len(tasks) : TaskEnds(i)) /\ ~(\E q \in Scheduled : ComesDue(q)) /\ ~UNCHANGED vars
  BY DEF TaskEnds, ComesDue, vars, engineVars
<1>4. ~Restart
  <2>1. active[p].run > before /\ active[p].run \in 0..lastRun /\ lastRun \in Nat /\ before \in 0..lastRun
    BY RunTypes DEF TypeInv, TypeOK, Runs, ActivePolicies
  <2> QED
    BY <2>1 DEF Restart
<1> QED
  BY <1>1, <1>2, <1>3, <1>4 DEF Next

(* While neither ticks nor manual starts overlap, a run leaves activeRuns only with a result
   for each of its guests, or with the process. *)
THEOREM RunsEndWithResults == ASSUME OneTick, NoRace PROVE Spec => RunsEndComplete
<1>1. EndInv /\ TickInv /\ TypeInv /\ SlotInv /\ [Next]_vars => EndInv'
  BY EndStep
<1>2. EndInv /\ TypeInv /\ [Next]_vars => [\A p \in Policies : EndsComplete(p)]_vars
  BY StepEndsComplete
<1>3. RecordInv /\ TickInv => TickInv
  OBVIOUS
<1> QED
  BY <1>1, <1>2, <1>3, InitEnd, Recorded, Typed, OneSlot, PTL DEF Spec, RunsEndComplete
=============================================================================
