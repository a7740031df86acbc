-------------------------- MODULE JobSchedulerProof --------------------------
(***************************************************************************)
(* Theorems about JobScheduler, for every jobnet and every bound: its      *)
(* types, that only a running jobnet activates its icons, that the summary *)
(* agrees with the main jobnet, and when a forced stop is final.           *)
(*                                                                         *)
(* The argument goes by table call.  A call of jalibs is well behaved      *)
(* (GoodCall) when it keeps the types, writes no jobnet row and makes      *)
(* icons ready in running jobnets only; calls compose.  A step of anyone   *)
(* but jajobnet is then one well-behaved call (GoodStep), and what is left *)
(* are the few steps of jajobnet that do write jobnet rows.                *)
(***************************************************************************)
EXTENDS JobScheduler, TLAPS

\* A table call leaves the rows of the jobnets and of the summary alone.
SameNets(d, e) ==
  /\ e.net_status = d.net_status
  /\ e.sum_status = d.sum_status

\* A table call makes icons ready in a running jobnet only.
ActivatesRunning(d, e) ==
  \A k \in Job : e.status[k] = "READY" =>
    d.status[k] = "READY" \/ d.net_status[NetOf[k]] \in {"RUN", "RUNERR"}

\* A well-behaved call takes the tables from d to e.
GoodCall(d, e) == e \in DB /\ SameNets(d, e) /\ ActivatesRunning(d, e)

\* Two well-behaved calls in one transaction are well behaved together.
LEMMA GoodCallTransitive ==
  ASSUME NEW d, NEW e, NEW f, GoodCall(d, e), GoodCall(e, f)
  PROVE  GoodCall(d, f)
  BY DEF GoodCall, SameNets, ActivatesRunning

\* ja_set_status_job with any status but READY is well behaved.
LEMMA SetStatus ==
  ASSUME NEW d \in DB, NEW j \in Job, NEW s \in JobStatus \ {"READY"}
  PROVE  GoodCall(d, ja_set_status_job(d, j, s))
  BY DEF ja_set_status_job, DB, GoodCall, SameNets, ActivatesRunning

\* ja_set_enderr is well behaved.
LEMMA SetEnderr ==
  ASSUME NEW d \in DB, NEW j \in Job
  PROVE  GoodCall(d, ja_set_enderr(d, j))
  BY DEF ja_set_enderr, ja_set_status_job, DB, JobStatus, GoodCall, SameNets, ActivatesRunning

\* The updates of ja_flow_set_status keep the tables' types, write no jobnet
\* row, and make no icon ready but the ones they enter.
LEMMA EnterAllTypes ==
  ASSUME NEW d \in DB, NEW E \in SUBSET Job,
         NEW s \in [Job -> JobStatus], NEW c \in [Job -> Nat]
  PROVE  /\ EnterAll(d, E, s, c) \in DB
         /\ SameNets(d, EnterAll(d, E, s, c))
         /\ \A k \in Job : EnterAll(d, E, s, c).status[k] = "READY"
                             => d.status[k] = "READY" \/ k \in E
  <1> DEFINE up(e) == CountUp(s[e], c[e])
             reset == UNION {Resets(e, up(e)) : e \in E}
             st == [j \in Job |-> IF j \in E THEN EnteredStatus(j, up(j))
                                  ELSE IF j \in reset THEN "BEGIN" ELSE d.status[j]]
             ec == [j \in Job |-> IF j \in E THEN up(j)
                                  ELSE IF j \in reset THEN 0 ELSE d.end_count[j]]
  <1>1. EnterAll(d, E, s, c) = [d EXCEPT !.status = st, !.end_count = ec]
    BY DEF EnterAll, DB
  <1>2. st \in [Job -> JobStatus]
    BY DEF EnteredStatus, JobStatus, DB
  <1>3. ec \in [Job -> Nat]
    BY DEF CountUp, DB
  <1>4. \A k \in Job : st[k] = "READY" => d.status[k] = "READY" \/ k \in E
    OBVIOUS
  <1> HIDE DEF st, ec
  <1> QED  BY <1>1, <1>2, <1>3, <1>4 DEF DB, SameNets

\* ja_flow stays inside the jobnet of the icon it starts from.
LEMMA TargetsInNet ==
  ASSUME NEW j \in Job, NEW type
  PROVE  /\ Targets(j, type) \subseteq Job
         /\ \A e \in Targets(j, type) : NetOf[e] = NetOf[j]
  BY NetShape DEF Targets, Follows, NetShape

\* ja_flow, past its check of the jobnet's status, is well behaved.
LEMMA FlowOutGood ==
  ASSUME NEW d \in DB, NEW j \in Job, NEW type, JobnetRunning(d, j)
  PROVE  GoodCall(d, FlowOut(d, j, type))
  <1> DEFINE E == {e \in Targets(j, type) : MayEnter(d, e, d.status[e])}
             entered == EnterAll(d, E, d.status, d.end_count)
  <1>1. E \in SUBSET Job /\ \A e \in E : d.net_status[NetOf[e]] \in {"RUN", "RUNERR"}
    BY TargetsInNet DEF JobnetRunning
  <1>2. d.status \in [Job -> JobStatus] /\ d.end_count \in [Job -> Nat]
    BY DEF DB
  <1> HIDE DEF E
  <1>3. GoodCall(d, entered)
    BY <1>1, <1>2, EnterAllTypes DEF GoodCall, ActivatesRunning
  <1>4. entered \in DB
    BY <1>3 DEF GoodCall
  <1> HIDE DEF entered
  <1>5. GoodCall(d, ja_set_enderr(entered, j))
    BY <1>3, <1>4, SetEnderr, GoodCallTransitive
  <1>6. FlowOut(d, j, type) = entered \/ FlowOut(d, j, type) = ja_set_enderr(entered, j)
    BY DEF FlowOut, ja_flow_set_status, E, entered
  <1> QED  BY <1>3, <1>5, <1>6

\* ja_flow is well behaved: the check of the jobnet's status is what keeps it
\* from making an icon ready in a jobnet that does not run.
LEMMA FlowGood ==
  ASSUME NEW d \in DB, NEW j \in Job, NEW type
  PROVE  GoodCall(d, ja_flow(d, j, type))
  <1>1. CASE ~HasFlow(j)
    BY <1>1, SetEnderr DEF ja_flow
  <1>2. CASE HasFlow(j) /\ ~JobnetRunning(d, j)
    BY <1>2, SetStatus DEF ja_flow, JobStatus
  <1>3. CASE HasFlow(j) /\ JobnetRunning(d, j)
    <2> DEFINE f == FlowOut(d, j, type)
    <2>1. GoodCall(d, f)
      BY <1>3, FlowOutGood
    <2>2. f \in DB
      BY <2>1 DEF GoodCall
    <2> HIDE DEF f
    <2>3. GoodCall(f, ja_set_status_job(f, j, "END"))
      BY <2>2, SetStatus DEF JobStatus
    <2>4. ja_flow(d, j, type) = ja_set_status_job(f, j, "END")
      BY <1>3 DEF ja_flow, ja_set_end, f
    <2> QED  BY <2>1, <2>3, <2>4, GoodCallTransitive
  <1> QED  BY <1>1, <1>2, <1>3

\* ja_set_runerr is well behaved, with and without the option to continue.
LEMMA RunerrGood ==
  ASSUME NEW d \in DB, NEW j \in Job
  PROVE  GoodCall(d, ja_set_runerr(d, j))
  <1>1. \E f : GoodCall(d, f) /\ ja_set_runerr(d, j) = ja_set_status_job(f, j, "RUNERR")
    <2>1. CASE ContinuesOn(j) /\ HasFlow(j) /\ JobnetRunning(d, j)
      BY <2>1, FlowOutGood DEF ja_set_runerr
    <2>2. CASE ~(ContinuesOn(j) /\ HasFlow(j) /\ JobnetRunning(d, j))
      <3>1. GoodCall(d, d)
        BY DEF GoodCall, SameNets, ActivatesRunning
      <3> QED  BY <2>2, <3>1, SetEnderr DEF ja_set_runerr
    <2> QED  BY <2>1, <2>2
  <1>2. PICK f : GoodCall(d, f) /\ ja_set_runerr(d, j) = ja_set_status_job(f, j, "RUNERR")
    BY <1>1
  <1>3. GoodCall(f, ja_set_status_job(f, j, "RUNERR"))
    BY <1>2, SetStatus DEF JobStatus, GoodCall
  <1> QED  BY <1>2, <1>3, GoodCallTransitive

\* An icon is set to RUN and then treated, in one transaction.
LEMMA RunThenGood ==
  ASSUME NEW d \in DB, NEW j \in Job
  PROVE  /\ GoodCall(d, ja_set_run(d, j))
         /\ \A type : GoodCall(d, ja_flow(ja_set_run(d, j), j, type))
         /\ GoodCall(d, ja_set_end(ja_set_run(d, j), j))
         /\ GoodCall(d, ja_set_runerr(ja_set_run(d, j), j))
  <1> DEFINE e == ja_set_run(d, j)
  <1>1. GoodCall(d, e)
    BY SetStatus DEF ja_set_run, JobStatus
  <1>2. e \in DB
    BY <1>1 DEF GoodCall
  <1> HIDE DEF e
  <1>3. GoodCall(e, ja_set_end(e, j))
    BY <1>2, SetStatus DEF ja_set_end, JobStatus
  <1>4. GoodCall(d, ja_set_end(e, j)) /\ GoodCall(d, ja_set_runerr(e, j))
    BY <1>1, <1>2, <1>3, RunerrGood, GoodCallTransitive
  <1>5. \A type : GoodCall(d, ja_flow(e, j, type))
    BY <1>1, <1>2, FlowGood, GoodCallTransitive
  <1> QED  BY <1>1, <1>4, <1>5 DEF e

\* The calls of jahost.c are well behaved.
LEMMA HostGood ==
  ASSUME NEW d \in DB, NEW j \in Job
  PROVE  GoodCall(d, ja_host_lock(d, j)) /\ GoodCall(d, ja_host_unlock(d, j))
  <1>1. HostsOf[j] \subseteq Host
    BY NetShape DEF NetShape
  <1> QED
    BY <1>1 DEF ja_host_lock, ja_host_unlock, DB, GoodCall, SameNets, ActivatesRunning

\* jatrap_jobresult is well behaved, for a good result and for a bad one.
LEMMA JobresultGood ==
  ASSUME NEW d \in DB, NEW j \in Job, NEW ok \in BOOLEAN
  PROVE  GoodCall(d, jatrap_jobresult(d, j, ok))
  <1>1. GoodCall(d, d)
    BY DEF GoodCall, SameNets, ActivatesRunning
  <1> DEFINE u == Unlocked(d, j)
  <1>2. GoodCall(d, u)
    BY <1>1, HostGood DEF Unlocked
  <1>3. u \in DB
    BY <1>2 DEF GoodCall
  <1>4. \/ jatrap_jobresult(d, j, ok) = d
        \/ jatrap_jobresult(d, j, ok) = ja_flow(u, j, "NORMAL")
        \/ jatrap_jobresult(d, j, ok) = ja_set_runerr(u, j)
    BY DEF jatrap_jobresult
  <1> HIDE DEF u
  <1>5. GoodCall(d, ja_flow(u, j, "NORMAL")) /\ GoodCall(d, ja_set_runerr(u, j))
    BY <1>2, <1>3, FlowGood, RunerrGood, GoodCallTransitive
  <1> QED  BY <1>1, <1>4, <1>5
-----------------------------------------------------------------------------
(* The steps of everyone but jajobnet.                                      *)

\* Nobody but jajobnet writes the main jobnet's row and its summary.
MainKept ==
  /\ db'.net_status[MainNet] = db.net_status[MainNet]
  /\ db'.sum_status = db.sum_status
  /\ UNCHANGED <<jajobnet, netq, renew, crashes>>

\* A step of anyone but jajobnet.
GoodStep == TypeOK' /\ MainKept /\ ActivationStep

\* A step whose effect on the tables is a well-behaved call activates icons of
\* running jobnets only.
LEMMA GoodCallActivates ==
  ASSUME GoodCall(db, db')
  PROVE  ActivationStep
  BY DEF GoodCall, SameNets, ActivatesRunning, ActivationStep, BecomesReady

\* A forked child is a child.
LEMMA ForkType ==
  ASSUME NEW j \in Job, NEW m \in {"RUN", "KILL", "ABORT"}
  PROVE  Fork(j, m) \in Child
  BY DEF Fork, Child

\* Every step of process_jarun keeps the types, leaves the main jobnet's row and
\* its summary alone, and activates icons of running jobnets only.
LEMMA JarunGood ==
  ASSUME TypeOK, JarunNext
  PROVE  GoodStep
  <1> USE DEF TypeOK, GoodStep, MainKept, jajobVars, jajobnetVars, bounds
  <1>1. CASE JarunSelect
    <2>1. jarunq' \subseteq JarunRow
      BY <1>1 DEF JarunSelect, JarunRow, DB
    <2>2. ActivationStep
      BY <1>1 DEF JarunSelect, ActivationStep, BecomesReady
    <2> QED  BY <1>1, <2>1, <2>2 DEF JarunSelect
  <1>2. ASSUME NEW r \in jarunq, Jarun(r), GoodCall(db, db'),
               children' \subseteq Child, faults' \in 0 .. MaxFaults
        PROVE  GoodStep
    BY <1>2, GoodCallActivates DEF Jarun, GoodCall, SameNets
  <1>3. ASSUME NEW r \in jarunq
        PROVE  r.job \in Job /\ db \in DB /\ GoodCall(db, db)
    BY DEF JarunRow, GoodCall, SameNets, ActivatesRunning
  <1>4. ASSUME NEW r \in jarunq, JarunPass(r)
        PROVE  GoodStep
    BY <1>2, <1>3, <1>4 DEF JarunPass
  <1>5. ASSUME NEW r \in jarunq, jarun_skip(r)
        PROVE  GoodStep
    BY <1>2, <1>3, <1>5, RunerrGood, FlowGood DEF jarun_skip
  <1>6. ASSUME NEW r \in jarunq, jarun_icon_common(r)
        PROVE  GoodStep
    BY <1>2, <1>3, <1>6, RunThenGood DEF jarun_icon_common, jarun_normal
  <1>7. ASSUME NEW r \in jarunq, jarun_icon_if(r)
        PROVE  GoodStep
    BY <1>2, <1>3, <1>7, RunThenGood DEF jarun_icon_if, jarun_normal
  <1>8. ASSUME NEW r \in jarunq, jarun_icon_end(r)
        PROVE  GoodStep
    BY <1>2, <1>3, <1>8, RunThenGood DEF jarun_icon_end, jarun_normal
  <1>9. ASSUME NEW r \in jarunq, jarun_icon_jobnet(r)
        PROVE  GoodStep
    <2> DEFINE e == ja_set_run(db, r.job)
               n == LinkNet[r.job]
    <2>1. n \in Net \ {MainNet}
      BY <1>3, <1>9, NetShape DEF jarun_icon_jobnet, NetShape, JobnetIcon
    <2>2. GoodCall(db, e) /\ e \in DB
      BY <1>3, RunThenGood DEF GoodCall
    <2>3. db' = ja_set_status_jobnet(e, n, "READY")
      BY <1>9 DEF jarun_icon_jobnet
    <2> HIDE DEF e, n
    <2>4. /\ db' \in DB /\ db'.status = e.status
          /\ db'.net_status = [e.net_status EXCEPT ![n] = "READY"]
          /\ db'.sum_status = e.sum_status
      BY <2>1, <2>2, <2>3 DEF ja_set_status_jobnet, DB, NetStatus
    <2>5. \A k \in Job : ~BecomesReady(k)
      BY <1>3, <2>4 DEF e, ja_set_run, ja_set_status_job, BecomesReady, DB
    <2>6. db'.net_status[MainNet] = db.net_status[MainNet] /\ db'.sum_status = db.sum_status
      BY <2>1, <2>2, <2>4, NetShape DEF GoodCall, SameNets, DB, NetShape
    <2> QED
      BY <1>9, <2>4, <2>5, <2>6 DEF jarun_icon_jobnet, jarun_normal, Jarun, ActivationStep
  <1>10. ASSUME NEW r \in jarunq, jarun_icon_extjob(r)
         PROVE  GoodStep
    <2>1. GoodCall(db, db')
      BY <1>3, <1>10, RunThenGood DEF jarun_icon_extjob
    <2> QED  BY <1>2, <1>10, <2>1 DEF jarun_icon_extjob, jarun_normal
  <1>11. ASSUME NEW r \in jarunq, jarun_icon_remote(r)
         PROVE  GoodStep
    <2>1. children' \subseteq Child
      BY <1>3, <1>11, ForkType DEF jarun_icon_remote
    <2> QED  BY <1>2, <1>3, <1>11, <2>1, RunThenGood DEF jarun_icon_remote, jarun_normal
  <1>14. ASSUME NEW r \in jarunq, jarun_icon_reboot(r)
         PROVE  GoodStep
    <2> DEFINE e == ja_set_run(db, r.job)
    <2>1. GoodCall(db, e) /\ e \in DB
      BY <1>3, RunThenGood DEF GoodCall
    <2>2. db' = ja_host_lock(e, r.job)
      BY <1>14 DEF jarun_icon_reboot
    <2> HIDE DEF e
    <2>3. GoodCall(db, db')
      BY <1>3, <2>1, <2>2, HostGood, GoodCallTransitive
    <2>4. children' \subseteq Child
      BY <1>3, <1>14, ForkType DEF jarun_icon_reboot
    <2> QED  BY <1>2, <1>14, <2>3, <2>4 DEF jarun_icon_reboot, jarun_normal
  <1>15. ASSUME NEW r \in jarunq, jarun_icon_release(r)
         PROVE  GoodStep
    <2> DEFINE e == ja_set_run(db, r.job)
               held == ReleaseOf[r.job]
               f == [e EXCEPT !.method_flag[held] = "NORMAL"]
    <2>1. GoodCall(db, e) /\ e \in DB
      BY <1>3, RunThenGood DEF GoodCall
    <2>2. held \in Job
      BY <1>3, <1>15, SchedulerShape DEF jarun_icon_release, ReleaseIcon, SchedulerShape
    <2>3. db' = ja_flow(f, r.job, "NORMAL") \/ db' = ja_set_runerr(e, r.job)
      BY <1>15 DEF jarun_icon_release
    <2> HIDE DEF e, held
    <2>4. GoodCall(e, f) /\ f \in DB
      BY <2>1, <2>2 DEF GoodCall, SameNets, ActivatesRunning, DB, Method
    <2> HIDE DEF f
    <2>5. GoodCall(db, db')
      <3>1. GoodCall(db, f)
        BY <2>1, <2>4, GoodCallTransitive
      <3>2. GoodCall(f, ja_flow(f, r.job, "NORMAL")) /\ GoodCall(e, ja_set_runerr(e, r.job))
        BY <1>3, <2>1, <2>4, FlowGood, RunerrGood
      <3> QED  BY <2>1, <2>3, <3>1, <3>2, GoodCallTransitive
    <2> QED  BY <1>2, <1>15, <2>5 DEF jarun_icon_release, jarun_normal
  <1>12. ASSUME NEW r \in jarunq, JarunHostLocked(r)
         PROVE  GoodStep
    <2>1. faults' \in 0 .. MaxFaults
      BY <1>12, SchedulerShape DEF JarunHostLocked, Fault, SchedulerShape
    <2> QED  BY <1>2, <1>3, <1>12, <2>1 DEF JarunHostLocked, jarun_normal
  <1>13. ASSUME NEW r \in jarunq, JarunIconFails(r)
         PROVE  GoodStep
    BY <1>2, <1>3, <1>13, RunThenGood DEF JarunIconFails, jarun_normal
  <1> QED
    BY <1>1, <1>4, <1>5, <1>6, <1>7, <1>8, <1>9, <1>10, <1>11, <1>12, <1>13,
       <1>14, <1>15
    DEF JarunNext

\* The same for the children, whose ja_flow is not one transaction: they may
\* activate an icon of a jobnet stopped meanwhile, in phase "flow".
LEMMA ChildGood ==
  ASSUME TypeOK, ChildNext
  PROVE  GoodStep
  <1> USE DEF TypeOK, GoodStep, MainKept, jarunVars, jajobVars, jajobnetVars
  <1>1. PICK c \in children :
          \/ ChildUnreached(c) \/ ChildDeliver(c) \/ ChildCopy(c)
          \/ ChildUnlock(c) \/ ChildRunerr(c) \/ ChildFlow(c) \/ ChildDone(c)
          \/ \E e \in c.todo : ChildRead(c, e)
          \/ \E g \in c.got : ChildWrite(c, g)
    BY DEF ChildNext
  <1>2. c \in Child /\ c.job \in Job /\ db \in DB /\ GoodCall(db, db)
    BY DEF Child, GoodCall, SameNets, ActivatesRunning
  <1>3. ASSUME ChildStep, GoodCall(db, db'), children' \subseteq Child,
               agent' \in [Job -> AgentState], faults' \in 0 .. MaxFaults
        PROVE  GoodStep
    BY <1>3, GoodCallActivates DEF ChildStep, GoodCall, SameNets
  <1>4. ASSUME NEW c2 \in Child, GoOn(c, c2)
        PROVE  children' \subseteq Child
    BY <1>4 DEF GoOn
  <1>5. ASSUME Exit(c)
        PROVE  children' \subseteq Child
    BY <1>5 DEF Exit
  <1>6. ASSUME Fault
        PROVE  faults' \in 0 .. MaxFaults
    BY <1>6, SchedulerShape DEF Fault, SchedulerShape
  <1>7. \A ph \in {"connect", "unreached", "ng", "unlocked", "copied", "flow"} :
          [c EXCEPT !.phase = ph] \in Child
    BY <1>2 DEF Child
  <1>8. CASE ChildUnreached(c)
    BY <1>2, <1>3, <1>4, <1>6, <1>7, <1>8 DEF ChildUnreached
  <1>9. CASE ChildDeliver(c)
    <2>1. agent' \in [Job -> AgentState]
      BY <1>2, <1>9 DEF ChildDeliver, AgentState
    <2>2. children' \subseteq Child /\ faults' \in 0 .. MaxFaults
      BY <1>4, <1>5, <1>6, <1>7, <1>9 DEF ChildDeliver
    <2> QED  BY <1>2, <1>3, <1>9, <2>1, <2>2 DEF ChildDeliver
  <1>10. CASE ChildCopy(c)
    BY <1>2, <1>3, <1>4, <1>7, <1>10 DEF ChildCopy
  <1>11. ASSUME NEW final \in {"END", "RUNERR"}, StartFlow(c, final)
         PROVE  children' \subseteq Child /\ GoodCall(db, db')
    <2>1. Targets(c.job, "NORMAL") \subseteq Job
      BY <1>2, TargetsInNet
    <2>2. [c EXCEPT !.phase = "flow", !.final = final,
                    !.todo = Targets(c.job, "NORMAL")] \in Child
      BY <1>2, <2>1 DEF Child
    <2> QED  BY <1>2, <1>4, <1>11, <2>2 DEF StartFlow
  <1>12. CASE ChildRunerr(c)
    <2>1. children' \subseteq Child /\ GoodCall(db, db')
      BY <1>2, <1>5, <1>11, <1>12, RunerrGood DEF ChildRunerr
    <2> QED  BY <1>3, <1>12, <2>1 DEF ChildRunerr
  <1>17. CASE ChildUnlock(c)
    BY <1>2, <1>3, <1>4, <1>7, <1>17, HostGood DEF ChildUnlock
  <1>13. CASE ChildFlow(c)
    <2>1. children' \subseteq Child /\ GoodCall(db, db')
      BY <1>2, <1>5, <1>11, <1>13, FlowGood DEF ChildFlow
    <2> QED  BY <1>3, <1>13, <2>1 DEF ChildFlow
  <1>14. CASE ChildDone(c)
    <2>1. c.final \in JobStatus \ {"READY"}
      BY <1>2 DEF Child, JobStatus
    <2> QED  BY <1>2, <1>3, <1>5, <1>14, <2>1, SetStatus DEF ChildDone
  <1>15. ASSUME NEW e \in c.todo, ChildRead(c, e)
         PROVE  GoodStep
    <2>1. e \in Job /\ db.status[e] \in JobStatus /\ db.end_count[e] \in Nat
      BY <1>2 DEF Child, DB
    <2>2. [c EXCEPT !.todo = @ \ {e},
             !.got = {[to |-> e, status |-> db.status[e],
                       end_count |-> db.end_count[e]]}] \in Child
      <3> DEFINE got == {[to |-> e, status |-> db.status[e],
                          end_count |-> db.end_count[e]]}
                 todo == c.todo \ {e}
      <3>1. got \subseteq [to : Job, status : JobStatus, end_count : Nat]
        BY <2>1
      <3>2. todo \subseteq Job
        BY <1>2 DEF Child
      <3> HIDE DEF got, todo
      <3>3. [c EXCEPT !.todo = todo, !.got = got] \in Child
        BY <1>2, <3>1, <3>2 DEF Child
      <3> QED  BY <3>3 DEF got, todo
    <2> QED  BY <1>2, <1>3, <1>4, <1>15, <2>2 DEF ChildRead
  <1>16. ASSUME NEW g \in c.got, ChildWrite(c, g)
         PROVE  GoodStep
    <2>1. g.to \in Job /\ g.status \in JobStatus /\ g.end_count \in Nat
      BY <1>2 DEF Child
    <2>2. [c EXCEPT !.got = {}] \in Child
      BY <1>2 DEF Child
    <2> DEFINE s == [db.status EXCEPT ![g.to] = g.status]
               n == [db.end_count EXCEPT ![g.to] = g.end_count]
    <2>3. s \in [Job -> JobStatus] /\ n \in [Job -> Nat]
      BY <1>2, <2>1 DEF DB
    <2>4. \/ db' = EnterAll(db, {g.to}, s, n)
          \/ db' = ja_set_enderr(db, c.job)
          \/ db' = db
      BY <1>16 DEF ChildWrite
    <2> HIDE DEF s, n
    <2>5. db' \in DB /\ SameNets(db, db')
      <3>1. CASE db' = EnterAll(db, {g.to}, s, n)
        <4>1. {g.to} \in SUBSET Job
          BY <2>1
        <4> QED  BY <1>2, <2>3, <3>1, <4>1, EnterAllTypes
      <3>2. CASE db' = ja_set_enderr(db, c.job)
        BY <1>2, <3>2, SetEnderr DEF GoodCall
      <3>3. CASE db' = db
        BY <1>2, <3>3 DEF GoodCall
      <3> QED  BY <2>4, <3>1, <3>2, <3>3
    <2>6. ActivationStep
      BY <1>16 DEF ChildWrite, ActivationStep
    <2> QED
      BY <1>4, <1>16, <2>2, <2>5, <2>6 DEF ChildWrite, ChildStep, SameNets
  <1> QED  BY <1>1, <1>8, <1>9, <1>10, <1>12, <1>13, <1>14, <1>15, <1>16, <1>17

\* The same for the agents and the trapper that takes their results.
LEMMA AgentGood ==
  ASSUME TypeOK, NEW j \in Job, AgentNext(j)
  PROVE  GoodStep
  <1> USE DEF TypeOK, GoodStep, MainKept, AgentStep, jarunVars, jajobVars, jajobnetVars
  <1>1. db \in DB /\ GoodCall(db, db)
    BY DEF GoodCall, SameNets, ActivatesRunning
  <1>2. agent' \in [Job -> AgentState]
    BY DEF AgentNext, AgentRun, AgentEnd, AgentSend, AgentGivesUp, AgentState
  <1>3. GoodCall(db, db')
    BY <1>1, JobresultGood DEF AgentNext, AgentRun, AgentEnd, AgentSend, AgentGivesUp
  <1>4. faults' \in 0 .. MaxFaults
    BY SchedulerShape
    DEF AgentNext, AgentRun, AgentEnd, AgentSend, AgentGivesUp, Fault, SchedulerShape
  <1>5. AgentStep
    BY DEF AgentNext, AgentRun, AgentEnd, AgentSend, AgentGivesUp
  <1> QED  BY <1>2, <1>3, <1>4, <1>5, GoodCallActivates DEF GoodCall, SameNets

\* The same for process_jajob.
LEMMA JajobGood ==
  ASSUME TypeOK, JajobNext
  PROVE  GoodStep
  <1> USE DEF TypeOK, GoodStep, MainKept, jarunVars, jajobnetVars, bounds
  <1>1. CASE JajobSelect
    <2>1. jajobq' \subseteq JajobRow
      BY <1>1 DEF JajobSelect, JajobRow, DB
    <2>2. ActivationStep
      BY <1>1 DEF JajobSelect, ActivationStep, BecomesReady
    <2> QED  BY <1>1, <2>1, <2>2 DEF JajobSelect
  <1>2. ASSUME NEW r \in jajobq, Jajob(r), GoodCall(db, db'),
               children' \subseteq Child, faults' \in 0 .. MaxFaults
        PROVE  GoodStep
    BY <1>2, GoodCallActivates DEF Jajob, GoodCall, SameNets
  <1>3. ASSUME NEW r \in jajobq
        PROVE  r.job \in Job /\ db \in DB /\ GoodCall(db, db)
    BY DEF JajobRow, GoodCall, SameNets, ActivatesRunning
  <1>4. ASSUME NEW r \in jajobq, NEW m \in {"KILL", "ABORT"}, Jajob(r), StopOrTimeout(r, m)
        PROVE  GoodStep
    <2>1. children' \subseteq Child
      BY <1>3, <1>4, ForkType DEF StopOrTimeout
    <2> DEFINE st == [db.status EXCEPT ![r.job] = IF r.method = "ABORT" THEN "ABORT" ELSE @]
    <2>2. GoodCall(db, db')
      <3>1. PICK late \in BOOLEAN :
              db' = [db EXCEPT
                !.status[r.job] = IF r.method = "ABORT" THEN "ABORT" ELSE @,
                !.timeout_flag[r.job] = @ \/ late]
        BY <1>4 DEF StopOrTimeout
      <3> DEFINE tf == [db.timeout_flag EXCEPT ![r.job] = @ \/ late]
      <3>2. db.timeout_flag \in [Job -> BOOLEAN] /\ db.status \in [Job -> JobStatus]
        BY <1>3 DEF DB
      <3>3. tf \in [Job -> BOOLEAN]
        BY <3>2
      <3>4. st \in [Job -> JobStatus] /\ \A k \in Job : st[k] = "READY" => db.status[k] = "READY"
        BY <1>3, <3>2 DEF JobStatus
      <3>5. db' = [db EXCEPT !.status = st, !.timeout_flag = tf]
        BY <3>1
      <3> HIDE DEF st, tf
      <3>6. db' \in DB /\ db'.status = st /\ SameNets(db, db')
        BY <1>3, <3>3, <3>4, <3>5 DEF DB, SameNets
      <3> QED  BY <3>4, <3>6 DEF GoodCall, ActivatesRunning
    <2> QED  BY <1>2, <1>4, <2>1, <2>2 DEF StopOrTimeout
  <1>9. ASSUME NEW r \in jajobq, jajob_icon_job(r) \/ jajob_icon_reboot(r)
        PROVE  GoodStep
    BY <1>4, <1>9 DEF jajob_icon_job, jajob_icon_reboot, AbortMethod
  <1>5. ASSUME NEW r \in jajobq, jajob_icon_fwait(r)
        PROVE  GoodStep
    <2>1. children' \subseteq Child
      BY <1>3, <1>5, ForkType DEF jajob_icon_fwait
    <2>2. GoodCall(db, db')
      BY <1>3, <1>5, SetStatus DEF jajob_icon_fwait, JobStatus
    <2>3. faults' \in 0 .. MaxFaults
      BY <1>5, SchedulerShape DEF jajob_icon_fwait, Fault, SchedulerShape
    <2> QED  BY <1>2, <1>5, <2>1, <2>2, <2>3 DEF jajob_icon_fwait
  <1>6. ASSUME NEW r \in jajobq, jajob_icon_extjob_kill(r)
        PROVE  GoodStep
    BY <1>2, <1>3, <1>6, RunerrGood DEF jajob_icon_extjob_kill
  <1>7. ASSUME NEW r \in jajobq, ExtjobWaits(r)
        PROVE  GoodStep
    BY <1>2, <1>3, <1>7 DEF ExtjobWaits
  <1>8. ASSUME NEW r \in jajobq, jajob_icon_extjob(r)
        PROVE  GoodStep
    BY <1>2, <1>3, <1>8, FlowGood, RunerrGood DEF jajob_icon_extjob
  <1> QED  BY <1>1, <1>5, <1>6, <1>7, <1>8, <1>9 DEF JajobNext

\* The same for the operator, who may activate any icon.
LEMMA OperatorGood ==
  ASSUME TypeOK, OperatorNext
  PROVE  GoodStep
  <1> USE DEF TypeOK, GoodStep, MainKept, Operator, jarunVars, jajobVars, jajobnetVars
  <1>1. \E operation \in Operation : Operator(operation)
    BY DEF OperatorNext, SetHold, SetUnHold, SetSkip, SetUnSkip, SetStop, SetReStart,
           StopRunningJobnet, jatrap_jobrelease, Operation
  <1>2. ops' \in 0 .. MaxOps /\ ops' # ops
    BY <1>1, SchedulerShape DEF SchedulerShape
  <1>3. ActivationStep
    BY <1>2 DEF ActivationStep
  <1>4. db' \in DB /\ SameNets(db, db')
    <2>1. CASE StopRunningJobnet
      BY <2>1 DEF StopRunningJobnet, DB, SameNets
    <2>2. ASSUME NEW j \in Job, NEW m \in Method, SetMethod(j, m) \/ SetReady(j, m)
          PROVE  db' \in DB /\ SameNets(db, db')
      <3>1. CASE SetMethod(j, m)
        BY <3>1 DEF SetMethod, DB, SameNets
      <3>2. CASE SetReady(j, m)
        <4> DEFINE mf == [db.method_flag EXCEPT ![j] = m]
                   st == [db.status EXCEPT ![j] = "READY"]
        <4>1. mf \in [Job -> Method] /\ st \in [Job -> JobStatus]
          BY DEF DB, JobStatus
        <4>2. db' = [db EXCEPT !.method_flag = mf, !.status = st]
          BY <3>2 DEF SetReady
        <4> HIDE DEF mf, st
        <4> QED  BY <4>1, <4>2 DEF DB, SameNets
      <3> QED  BY <2>2, <3>1, <3>2
    <2>3. ASSUME NEW j \in Job,
                 \/ SetHold(j) \/ SetUnHold(j) \/ SetSkip(j) \/ SetUnSkip(j)
                 \/ SetStop(j) \/ SetReStart(j) \/ jatrap_jobrelease(j)
          PROVE  \E m \in Method : SetMethod(j, m) \/ SetReady(j, m)
      BY <2>3 DEF SetHold, SetUnHold, SetSkip, SetUnSkip, SetStop, SetReStart,
                  jatrap_jobrelease, Method
    <2> QED  BY <2>1, <2>2, <2>3 DEF OperatorNext
  <1> QED  BY <1>1, <1>2, <1>3, <1>4 DEF SameNets
-----------------------------------------------------------------------------
(* The steps of jajobnet.                                                   *)

\* What jajobnet_summary_ready does to the tables.
LEMMA SummaryReady ==
  ASSUME NEW d \in DB, NEW e, e = jajobnet_summary_ready(d)
  PROVE  /\ e \in DB /\ e.status = d.status /\ e.sum_status = "RUN"
         /\ e.net_status = [d.net_status EXCEPT ![MainNet] = "READY"]
  BY NetShape DEF jajobnet_summary_ready, ja_set_status_jobnet, DB, NetStatus, NetShape

\* What jajobnet_kill does to the tables: no icon is left ready, every running
\* jobnet is in ENDERR, the summary is in ENDERR or as it was.
LEMMA Kill ==
  ASSUME NEW d \in DB, NEW locked, NEW e, e = jajobnet_kill(d, locked)
  PROVE  /\ e \in DB
         /\ \A k \in Job : e.status[k] # "READY"
         /\ \A n \in Net : e.net_status[n] = IF d.net_status[n] \in {"RUN", "RUNERR"}
                                             THEN "ENDERR" ELSE d.net_status[n]
         /\ e.sum_status \in {"ENDERR", d.sum_status}
  <1> DEFINE k == Killed(d)
             st == [j \in Job |-> IF j \in KilledJobs(d, locked) THEN "ABORT"
                                  ELSE IF j \in StoppedExtjobs(d) THEN "RUNERR"
                                  ELSE k.status[j]]
  <1>1. k \in DB /\ k.sum_status = d.sum_status
    BY DEF Killed, DB, JobStatus, NetStatus
  <1>2. \A n \in Net : k.net_status[n] = IF d.net_status[n] \in {"RUN", "RUNERR"}
                                         THEN "ENDERR" ELSE d.net_status[n]
    BY DEF Killed, DB
  <1>3. \A j \in Job : k.status[j] # "READY"
    BY DEF Killed, DB
  <1>4. \/ e = ja_set_jobstatus(k, "ENDERR", "ERROR")
        \/ e = [k EXCEPT !.status = st]
    BY DEF jajobnet_kill
  <1> HIDE DEF k
  <1>5. st \in [Job -> JobStatus] /\ \A j \in Job : st[j] # "READY"
    BY <1>1, <1>3 DEF DB, JobStatus
  <1> HIDE DEF st
  <1>6. CASE e = ja_set_jobstatus(k, "ENDERR", "ERROR")
    <2>1. "ENDERR" \in NetStatus /\ "ERROR" \in SummaryJobStatus
      BY DEF NetStatus, SummaryJobStatus
    <2>2. /\ e \in DB /\ e.status = k.status /\ e.net_status = k.net_status
          /\ e.sum_status = "ENDERR"
      BY <1>1, <1>6, <2>1 DEF ja_set_jobstatus, DB
    <2> QED  BY <1>2, <1>3, <2>2
  <1>7. CASE e = [k EXCEPT !.status = st]
    BY <1>1, <1>2, <1>5, <1>7 DEF DB
  <1> QED  BY <1>4, <1>6, <1>7

\* What jajobnet_run_sync does to the row of the jobnet itself.
LEMMA Sync ==
  ASSUME NEW d \in DB, NEW r \in NetRow, NEW e, e = SyncNet(d, r)
  PROVE  /\ e \in DB /\ e.status = d.status /\ e.sum_status = d.sum_status
         /\ e.net_status = [d.net_status EXCEPT ![r.net] = r.status]
  <1> DEFINE ns == [d.net_status EXCEPT ![r.net] = r.status]
             nt == [d.net_timeout EXCEPT ![r.net] = IF r.status = "RUN" THEN r.timeout ELSE @]
  <1>1. e = [d EXCEPT !.net_status = ns, !.net_timeout = nt]
    BY DEF SyncNet, ja_set_status_jobnet, DB
  <1>2. ns \in [Net -> NetStatus]
    BY DEF NetRow, DB
  <1>3. nt \in [Net -> BOOLEAN]
    <2>1. r.timeout \in BOOLEAN /\ r.net \in Net /\ d.net_timeout \in [Net -> BOOLEAN]
      BY DEF NetRow, DB
    <2> QED  BY <2>1
  <1> HIDE DEF ns, nt
  <1>4. e \in DB /\ e.status = d.status /\ e.sum_status = d.sum_status /\ e.net_status = ns
    BY <1>1, <1>2, <1>3 DEF DB
  <1> QED  BY <1>4 DEF ns

\* What jajobnet_run_sync does to the summary of the main jobnet.
LEMMA SyncSummaryType ==
  ASSUME NEW d \in DB, NEW r \in NetRow, NEW e, e = SyncSummary(d, r)
  PROVE  /\ e \in DB /\ e.status = d.status /\ e.net_status = d.net_status
         /\ e.sum_status = IF r.status = "END" THEN "END" ELSE "RUN"
  BY DEF SyncSummary, ja_set_jobstatus, DB, NetStatus, SummaryJobStatus

\* What jajobnet_run_sync does to the icon of a sub-jobnet is well behaved.
LEMMA SyncIconGood ==
  ASSUME NEW d \in DB, NEW r \in NetRow, r.net # MainNet
  PROVE  GoodCall(d, SyncIcon(d, r))
  <1> DEFINE i == IconOf(r.net)
  <1>1. i \in Job
    BY NetShape DEF IconOf, NetShape, NetRow, JobnetIcon
  <1> HIDE DEF i
  <1>2. CASE r.status = "RUN"
    <2>1. GoodCall(d, ja_set_run(d, i))
      BY <1>1, RunThenGood
    <2>2. r.timeout \in BOOLEAN
      BY DEF NetRow
    <2>3. ASSUME NEW f \in DB
          PROVE  GoodCall(f, [f EXCEPT !.timeout_flag[i] = r.timeout])
      BY <1>1, <2>2 DEF DB, GoodCall, SameNets, ActivatesRunning
    <2>4. SyncIcon(d, r) = [ja_set_run(d, i) EXCEPT !.timeout_flag[i] = r.timeout]
      BY <1>2 DEF SyncIcon, i
    <2> QED  BY <2>1, <2>3, <2>4, GoodCallTransitive DEF GoodCall
  <1>3. CASE r.status # "RUN"
    BY <1>1, <1>3, FlowGood, RunerrGood, SetEnderr DEF SyncIcon, i
  <1> QED  BY <1>2, <1>3

\* Every step of jajobnet keeps the types and activates icons of running jobnets
\* only; jajobnet_ready sets the jobnet to RUN in the same transaction.
LEMMA JajobnetGood ==
  ASSUME TypeOK, JajobnetNext
  PROVE  TypeOK' /\ ActivationStep
  <1> USE DEF TypeOK, JajobnetStep, jarunVars, jajobVars
  <1>1. CASE JajobnetSummary
    <2>1. children' \subseteq Child /\ faults' \in 0 .. MaxFaults
      <3>1. CASE UNCHANGED <<children, faults>>
        BY <3>1
      <3>2. ASSUME NEW locked,
                   children' = children \cup {Fork(j, "KILL") : j \in KilledJobs(db, locked)},
                   IF locked = LockedWaits THEN UNCHANGED faults ELSE Fault
            PROVE  children' \subseteq Child /\ faults' \in 0 .. MaxFaults
        BY <3>2, ForkType, SchedulerShape DEF KilledJobs, Running, Fault, SchedulerShape
      <3> QED  BY <1>1, <3>1, <3>2 DEF JajobnetSummary
    <2>2. db' \in DB /\ \A k \in Job : ~BecomesReady(k)
      <3>1. CASE db' = jajobnet_summary_ready(db)
        BY <3>1, SummaryReady DEF BecomesReady
      <3>2. ASSUME NEW locked, db' = jajobnet_kill(db, locked)
            PROVE  db' \in DB /\ \A k \in Job : ~BecomesReady(k)
        BY <3>2, Kill DEF BecomesReady
      <3>3. CASE db' = db
        BY <3>3 DEF BecomesReady
      <3> QED  BY <1>1, <3>1, <3>2, <3>3 DEF JajobnetSummary
    <2> QED  BY <1>1, <2>1, <2>2 DEF JajobnetSummary, ActivationStep
  <1>2. CASE JajobnetSelect
    <2>1. netq' \subseteq NetRow
      BY <1>2 DEF JajobnetSelect, NetRow, DB
    <2> QED  BY <1>2, <2>1 DEF JajobnetSelect, ActivationStep, BecomesReady
  <1>3. ASSUME NEW r \in netq, jajobnet_ready(r)
        PROVE  TypeOK' /\ ActivationStep
    <2>1. r.net \in Net
      BY DEF NetRow
    <2>2. CASE db' = ja_set_status_jobnet(db, r.net, "ENDERR")
      <3>1. db' \in DB /\ db'.status = db.status
        BY <2>1, <2>2 DEF ja_set_status_jobnet, DB, NetStatus
      <3> QED  BY <1>3, <3>1 DEF jajobnet_ready, ActivationStep, BecomesReady
    <2>3. CASE db' = [ja_set_status_jobnet(db, r.net, "RUN") EXCEPT
                        !.status = [j \in Job |-> IF j \in StartIcons(r.net)
                                                  THEN "READY" ELSE @[j]]]
      <3> DEFINE st == [j \in Job |-> IF j \in StartIcons(r.net)
                                      THEN "READY" ELSE db.status[j]]
                 ns == [db.net_status EXCEPT ![r.net] = "RUN"]
      <3>1. st \in [Job -> JobStatus] /\ ns \in [Net -> NetStatus]
        BY <2>1 DEF DB, JobStatus, NetStatus
      <3>2. db' = [db EXCEPT !.net_status = ns, !.status = st]
        BY <2>3 DEF ja_set_status_jobnet, DB
      <3>3. \A k \in Job : st[k] = "READY" =>
              db.status[k] = "READY" \/ ns[NetOf[k]] = "RUN"
        BY <2>1 DEF StartIcons, JobsOf, DB
      <3> HIDE DEF st, ns
      <3>4. db' \in DB /\ db'.status = st /\ db'.net_status = ns
        BY <3>1, <3>2 DEF DB
      <3> QED  BY <1>3, <3>3, <3>4 DEF jajobnet_ready, ActivationStep, BecomesReady
    <2> QED  BY <1>3, <2>2, <2>3 DEF jajobnet_ready
  <1>4. ASSUME NEW r \in netq, jajobnet_run(r)
        PROVE  TypeOK' /\ ActivationStep
    <2>1. renew' \subseteq NetRow
      <3> DEFINE s == RenewStatus(db, r.net, r.status)
                 o == RenewTimeout(db, r.net)
      <3>1. r.net \in Net /\ r.status \in NetStatus
        BY DEF NetRow
      <3>2. s \in NetStatus
        BY <3>1 DEF RenewStatus, NetStatus
      <3>3. o \in BOOLEAN
        BY DEF RenewTimeout
      <3>4. renew' \subseteq {[net |-> r.net, status |-> s, timeout |-> o]}
        BY <1>4 DEF jajobnet_run
      <3> HIDE DEF s, o
      <3> QED  BY <3>1, <3>2, <3>3, <3>4 DEF NetRow
    <2> QED  BY <1>4, <2>1 DEF jajobnet_run, ActivationStep, BecomesReady
  <1>5. ASSUME NEW r \in renew, jajobnet_run_sync(r)
        PROVE  TypeOK' /\ ActivationStep
    <2> DEFINE e == SyncNet(db, r)
    <2>1. e \in DB /\ e.status = db.status
      BY Sync
    <2>2. db' = IF r.net = MainNet THEN SyncSummary(e, r) ELSE SyncIcon(e, r)
      BY <1>5 DEF jajobnet_run_sync
    <2> HIDE DEF e
    <2>3. db' \in DB /\ \A k \in Job : db'.status[k] = "READY" =>
            db.status[k] = "READY" \/ db'.net_status[NetOf[k]] \in {"RUN", "RUNERR"}
      <3>1. CASE r.net = MainNet
        BY <2>1, <2>2, <3>1, SyncSummaryType
      <3>2. CASE r.net # MainNet
        BY <2>1, <2>2, <3>2, SyncIconGood DEF GoodCall, SameNets, ActivatesRunning
      <3> QED  BY <3>1, <3>2
    <2> QED  BY <1>5, <2>3 DEF jajobnet_run_sync, ActivationStep, BecomesReady
  <1> QED  BY <1>1, <1>2, <1>3, <1>4, <1>5 DEF JajobnetNext

\* A restart of the server keeps the types and activates nothing.
LEMMA RestartGood ==
  ASSUME TypeOK, ServerRestart
  PROVE  TypeOK' /\ ActivationStep
  BY SchedulerShape DEF TypeOK, ServerRestart, SchedulerShape, ActivationStep, BecomesReady

\* The tables jaboot hands over have their types.
LEMMA InitType == Init => TypeOK
  <1> SUFFICES ASSUME Init PROVE TypeOK
    OBVIOUS
  <1>1. db \in DB
    BY SchedulerShape
    DEF Init, InitDB, DB, JobStatus, NetStatus, Method, SummaryJobStatus, SchedulerShape
  <1> QED
    BY <1>1, SchedulerShape DEF Init, TypeOK, AgentState, SchedulerShape
-----------------------------------------------------------------------------
\* TypeOK is an invariant for every jobnet and every bound: no interleaving of
\* the server's processes, of stale rows, lost telegrams and restarts writes a
\* value into a column of the run tables that the column cannot hold.
THEOREM TypeCorrect == Spec => []TypeOK
  <1>1. TypeOK /\ [Next]_vars => TypeOK'
    <2>1. TypeOK /\ Next => TypeOK'
      BY JarunGood, ChildGood, AgentGood, JajobGood, JajobnetGood, OperatorGood, RestartGood
      DEF Next, GoodStep
    <2>2. TypeOK /\ UNCHANGED vars => TypeOK'
      BY DEF TypeOK, vars
    <2> QED  BY <2>1, <2>2
  <1> QED  BY <1>1, InitType, PTL DEF Spec

\* ActivationNeedsRunningNet holds for every jobnet and every bound: once a
\* jobnet is stopped, neither a stale row nor a late job result starts an icon
\* of it, except through a child that is in the middle of its own ja_flow.
THEOREM ActivationCorrect == Spec => ActivationNeedsRunningNet
  <1>1. TypeOK /\ [Next]_vars => [ActivationStep]_vars
    BY JarunGood, ChildGood, AgentGood, JajobGood, JajobnetGood, OperatorGood, RestartGood
    DEF Next, GoodStep
  <1> QED  BY <1>1, TypeCorrect, PTL DEF Spec, ActivationNeedsRunningNet
-----------------------------------------------------------------------------
\* The summary agrees with the main jobnet, by an invariant that also says
\* what jajobnet holds between a select and its update.
SummaryInv == TypeOK /\ SummaryAgrees /\ JajobnetRows

\* A step that leaves the main jobnet's row alone keeps the invariant.
LEMMA MainKeptInv ==
  ASSUME SummaryInv, MainKept
  PROVE  SummaryAgrees' /\ JajobnetRows'
  BY DEF SummaryInv, SummaryAgrees, JajobnetRows, MainKept

\* A restart keeps the invariant.
LEMMA RestartInv ==
  ASSUME SummaryInv, ServerRestart
  PROVE  SummaryAgrees' /\ JajobnetRows'
  <1>1. crashes' > 0
    BY DEF SummaryInv, TypeOK, ServerRestart
  <1> QED  BY <1>1 DEF SummaryInv, SummaryAgrees, JajobnetRows, ServerRestart

\* Every step of jajobnet keeps the invariant.
LEMMA JajobnetInv ==
  ASSUME SummaryInv, JajobnetNext
  PROVE  SummaryAgrees' /\ JajobnetRows'
  <1> USE NetShape DEF NetShape, JajobnetStep
  <1>0. /\ TypeOK /\ SummaryAgrees /\ JajobnetRows /\ db \in DB
        /\ netq \subseteq NetRow /\ renew \subseteq NetRow /\ crashes \in Nat
    BY DEF SummaryInv, TypeOK
  <1>1. CASE JajobnetSummary
    <2>1. /\ jajobnet' = "select" /\ netq' = {} /\ renew' = {} /\ crashes' = crashes
          /\ jajobnet = "loop" /\ netq = {}
      BY <1>1 DEF JajobnetSummary
    <2>2. JajobnetRows'
      BY <2>1 DEF JajobnetRows
    <2>3. SummaryAgrees'
      <3>1. CASE db' = jajobnet_summary_ready(db)
        <4>1. db'.sum_status = "RUN" /\ db'.net_status[MainNet] = "READY"
          <5>1. /\ db'.sum_status = "RUN"
                /\ db'.net_status = [db.net_status EXCEPT ![MainNet] = "READY"]
            BY <1>0, <3>1, SummaryReady
          <5>2. db.net_status \in [Net -> NetStatus] /\ MainNet \in Net
            BY <1>0 DEF DB
          <5> QED  BY <5>1, <5>2
        <4> QED  BY <4>1 DEF SummaryAgrees
      <3>2. ASSUME NEW locked, db.sum_status = "RUN", db' = jajobnet_kill(db, locked)
            PROVE  SummaryAgrees'
        <4>1. /\ db'.net_status[MainNet] = IF db.net_status[MainNet] \in {"RUN", "RUNERR"}
                                           THEN "ENDERR" ELSE db.net_status[MainNet]
              /\ db'.sum_status \in {"ENDERR", "RUN"}
          BY <1>0, <3>2, Kill
        <4>2. db.net_status[MainNet] = "READY" => crashes > 0
          BY <1>0, <2>1 DEF JajobnetRows
        <4> QED  BY <1>0, <2>1, <3>2, <4>1, <4>2 DEF SummaryAgrees
      <3>3. CASE db' = db
        BY <1>0, <2>1, <3>3 DEF SummaryAgrees
      <3> QED  BY <1>1, <3>1, <3>2, <3>3 DEF JajobnetSummary
    <2> QED  BY <2>2, <2>3
  <1>2. CASE JajobnetSelect
    <2>1. SummaryAgrees'
      BY <1>0, <1>2 DEF JajobnetSelect, SummaryAgrees
    <2>2. jajobnet' = "loop" /\ renew' = {} /\ db' = db
      BY <1>0, <1>2 DEF JajobnetSelect, JajobnetRows
    <2>3. \A r \in netq' : /\ r.net \in Net /\ r.status = db.net_status[r.net]
                           /\ r.timeout = db.net_timeout[r.net]
                           /\ r = [net |-> r.net, status |-> r.status, timeout |-> r.timeout]
                           /\ r.status \in {"READY", "RUN", "RUNERR"}
      BY <1>2 DEF JajobnetSelect
    <2>4. \A r, q \in netq' : r.net = q.net => r = q
      BY <2>3
    <2>5. db.net_status[MainNet] = "READY" => \E r \in netq' : r.net = MainNet
      <3>1. ASSUME db.net_status[MainNet] = "READY"
            PROVE  [net |-> MainNet, status |-> db.net_status[MainNet],
                    timeout |-> db.net_timeout[MainNet]] \in netq'
        BY <1>2, <3>1 DEF JajobnetSelect
      <3> QED  BY <3>1
    <2>6. JajobnetRows'
      BY <2>2, <2>3, <2>4, <2>5 DEF JajobnetRows
    <2> QED  BY <2>1, <2>6
  <1>3. ASSUME NEW r \in netq, jajobnet_ready(r)
        PROVE  SummaryAgrees' /\ JajobnetRows'
    <2>1. \E s \in {"RUN", "ENDERR"} :
            db'.net_status = [db.net_status EXCEPT ![r.net] = s]
      BY <1>0, <1>3 DEF jajobnet_ready, ja_set_status_jobnet, DB
    <2>2. /\ db'.sum_status = db.sum_status /\ crashes' = crashes
          /\ jajobnet' = jajobnet /\ netq' = netq \ {r} /\ renew = {} /\ renew' = {}
      BY <1>0, <1>3 DEF jajobnet_ready, ja_set_status_jobnet, DB
    <2>3. /\ r.net \in Net /\ db.net_status \in [Net -> NetStatus]
          /\ r.net = MainNet => db.net_status[MainNet] = "READY"
      BY <1>0, <1>3 DEF jajobnet_ready, JajobnetRows, NetRow, DB
    <2>4. IF r.net = MainNet THEN db'.net_status[MainNet] \in {"RUN", "ENDERR"}
                             ELSE db'.net_status[MainNet] = db.net_status[MainNet]
      BY <2>1, <2>3
    <2>5. \A q \in netq' : q.net # r.net
      BY <1>0, <2>2 DEF JajobnetRows
    <2>6. SummaryAgrees'
      BY <1>0, <2>2, <2>3, <2>4 DEF SummaryAgrees
    <2>7. JajobnetRows'
      BY <1>0, <2>2, <2>4, <2>5 DEF JajobnetRows
    <2> QED  BY <2>6, <2>7
  <1>4. ASSUME NEW r \in netq, jajobnet_run(r)
        PROVE  SummaryAgrees' /\ JajobnetRows'
    <2>1. SummaryAgrees'
      BY <1>0, <1>4 DEF jajobnet_run, SummaryAgrees
    <2>2. /\ db' = db /\ netq' = netq \ {r} /\ jajobnet' = jajobnet /\ crashes' = crashes
          /\ r.status \in {"RUN", "RUNERR"}
      BY <1>4 DEF jajobnet_run
    <2>3. RenewStatus(db, r.net, r.status) \in {"RUN", "RUNERR", "END", "ENDERR"}
      BY <2>2 DEF RenewStatus
    <2>4. \A n \in renew' : n.net = r.net /\ n.status \in {"RUN", "RUNERR", "END", "ENDERR"}
      BY <1>4, <2>3 DEF jajobnet_run
    <2>5. \A n, m \in renew' : n = m
      BY <1>4 DEF jajobnet_run
    <2>6. \A q \in netq' : q.net # r.net
      BY <1>0, <2>2 DEF JajobnetRows
    <2>7. jajobnet = "loop" /\ (r.net = MainNet => db.net_status[MainNet] = r.status)
      BY <1>0 DEF JajobnetRows, TypeOK
    <2>8. JajobnetRows'
      BY <1>0, <2>2, <2>4, <2>5, <2>6, <2>7 DEF JajobnetRows
    <2> QED  BY <2>1, <2>8
  <1>5. ASSUME NEW r \in renew, jajobnet_run_sync(r)
        PROVE  SummaryAgrees' /\ JajobnetRows'
    <2> DEFINE e == SyncNet(db, r)
    <2>1. r \in NetRow /\ r.net \in Net /\ db.net_status \in [Net -> NetStatus]
      BY <1>0 DEF NetRow, DB
    <2>2. /\ e \in DB /\ e.sum_status = db.sum_status
          /\ e.net_status = [db.net_status EXCEPT ![r.net] = r.status]
      BY <1>0, <2>1, Sync
    <2>3. /\ renew' = {} /\ netq' = netq /\ jajobnet' = jajobnet /\ crashes' = crashes
          /\ db' = IF r.net = MainNet THEN SyncSummary(e, r) ELSE SyncIcon(e, r)
      BY <1>5 DEF jajobnet_run_sync
    <2> HIDE DEF e
    <2>4. /\ r.status \in {"RUN", "RUNERR", "END", "ENDERR"}
          /\ \A q \in netq : q.net # r.net
      BY <1>0 DEF JajobnetRows
    <2>5. CASE r.net = MainNet
      <3>1. /\ db'.net_status[MainNet] = r.status
            /\ db'.sum_status = IF r.status = "END" THEN "END" ELSE "RUN"
        BY <2>1, <2>2, <2>3, <2>5, SyncSummaryType
      <3>2. SummaryAgrees'
        BY <2>4, <3>1 DEF SummaryAgrees
      <3>3. JajobnetRows'
        BY <1>0, <2>3, <2>4, <2>5, <3>1 DEF JajobnetRows
      <3> QED  BY <3>2, <3>3
    <2>6. CASE r.net # MainNet
      <3>1. GoodCall(e, db')
        BY <2>1, <2>2, <2>3, <2>6, SyncIconGood
      <3>2. /\ db'.net_status[MainNet] = db.net_status[MainNet]
            /\ db'.sum_status = db.sum_status
        BY <2>1, <2>2, <2>6, <3>1 DEF GoodCall, SameNets
      <3>3. SummaryAgrees'
        BY <1>0, <2>3, <3>2 DEF SummaryAgrees
      <3>4. JajobnetRows'
        BY <1>0, <2>3, <3>2 DEF JajobnetRows
      <3> QED  BY <3>3, <3>4
    <2> QED  BY <2>5, <2>6
  <1> QED  BY <1>1, <1>2, <1>3, <1>4, <1>5 DEF JajobnetNext

\* SummaryInv is inductive.
THEOREM SummaryInvariant == Spec => []SummaryInv
  <1>1. Init => SummaryInv
    <2>1. Init => SummaryAgrees /\ JajobnetRows
      BY NetShape DEF Init, InitDB, SummaryAgrees, JajobnetRows, NetShape
    <2> QED  BY <2>1, InitType DEF SummaryInv
  <1>2. SummaryInv /\ [Next]_vars => SummaryInv'
    <2>1. SummaryInv /\ Next => SummaryInv'
      BY JarunGood, ChildGood, AgentGood, JajobGood, OperatorGood, MainKeptInv,
         JajobnetGood, JajobnetInv, RestartGood, RestartInv
      DEF Next, GoodStep, SummaryInv
    <2>2. SummaryInv /\ UNCHANGED vars => SummaryInv'
      BY DEF SummaryInv, TypeOK, SummaryAgrees, JajobnetRows, vars
    <2> QED  BY <2>1, <2>2
  <1> QED  BY <1>1, <1>2, PTL DEF Spec

\* SummaryAgrees is an invariant for every jobnet and every bound: the summary
\* row never contradicts the row of the main jobnet it stands for.
THEOREM SummaryCorrect == Spec => []SummaryAgrees
  <1>1. SummaryInv => SummaryAgrees
    BY DEF SummaryInv
  <1> QED  BY <1>1, SummaryInvariant, PTL

\* JajobnetRows is an invariant for every jobnet and every bound: jajobnet may
\* sit on its rows for any time, the main jobnet's is still the table's.
THEOREM JajobnetRowsCorrect == Spec => []JajobnetRows
  <1>1. SummaryInv => JajobnetRows
    BY DEF SummaryInv
  <1> QED  BY <1>1, SummaryInvariant, PTL

-----------------------------------------------------------------------------
(* A forced stop is final, in a jobnet whose ja_flows are all transactions. *)

\* A jobnet without sub-jobnets (one that is READY starts after the stop) and
\* without the icons whose ja_flow a child carries out statement by statement.
PlainJobnet ==
  /\ JobnetIcon = {} /\ Continue = {}
  /\ \A j \in Job : JobType[j] # "FCOPY"

\* Once the summary says ENDERR the stop has been asked for, so the operator
\* reruns nothing, and nothing is left that could run.
Stopped ==
  db.sum_status = "ENDERR" =>
    db.abort_flag /\ \A j \in Job : db.status[j] \notin {"READY", "RUN"}

NoFlowChild == \A c \in children : c.phase \notin {"copied", "flow"}

\* The inductive invariant.  A restart of the server may bring the main jobnet to
\* RUN again after the stop.
StopInv ==
  /\ SummaryInv
  /\ PlainJobnet => NoFlowChild
  /\ PlainJobnet /\ crashes = 0 => Stopped

\* A table call that sets no icon to RUN.
NoRunCall(d, e) ==
  /\ e \in DB /\ e.abort_flag = d.abort_flag
  /\ \A k \in Job : e.status[k] = "RUN" => d.status[k] = "RUN"

\* Two such calls in one transaction are such a call.
LEMMA NoRunTransitive ==
  ASSUME NEW d, NEW e, NEW f, NoRunCall(d, e), NoRunCall(e, f)
  PROVE  NoRunCall(d, f)
  BY DEF NoRunCall

\* ja_set_status_job with another status.
LEMMA SetStatusNoRun ==
  ASSUME NEW d \in DB, NEW j \in Job, NEW s \in JobStatus \ {"RUN"}
  PROVE  NoRunCall(d, ja_set_status_job(d, j, s))
  BY DEF ja_set_status_job, DB, NoRunCall

\* ja_flow up to its last call: it makes icons ready, and runs none.
LEMMA FlowOutNoRun ==
  ASSUME NEW d \in DB, NEW j \in Job, NEW type
  PROVE  NoRunCall(d, FlowOut(d, j, type))
  <1> DEFINE E == {e \in Targets(j, type) : MayEnter(d, e, d.status[e])}
             up(e) == CountUp(d.status[e], d.end_count[e])
             reset == UNION {Resets(e, up(e)) : e \in E}
             st == [i \in Job |-> IF i \in E THEN EnteredStatus(i, up(i))
                                  ELSE IF i \in reset THEN "BEGIN" ELSE d.status[i]]
             ec == [i \in Job |-> IF i \in E THEN up(i)
                                  ELSE IF i \in reset THEN 0 ELSE d.end_count[i]]
             entered == EnterAll(d, E, d.status, d.end_count)
  <1>1. d.status \in [Job -> JobStatus] /\ d.end_count \in [Job -> Nat] /\ E \in SUBSET Job
    BY TargetsInNet DEF DB
  <1>2. FlowOut(d, j, type) = entered \/ FlowOut(d, j, type) = ja_set_enderr(entered, j)
    BY DEF FlowOut, ja_flow_set_status
  <1> HIDE DEF E
  <1>3. entered \in DB
    BY <1>1, EnterAllTypes
  <1>4. entered = [d EXCEPT !.status = st, !.end_count = ec]
    BY DEF EnterAll, DB
  <1>5. \A k \in Job : st[k] = "RUN" => d.status[k] = "RUN"
    BY DEF EnteredStatus
  <1> HIDE DEF st, ec
  <1>6. NoRunCall(d, entered)
    BY <1>3, <1>4, <1>5 DEF NoRunCall, DB
  <1> HIDE DEF entered
  <1>7. NoRunCall(entered, ja_set_enderr(entered, j))
    BY <1>3, SetStatusNoRun DEF ja_set_enderr, JobStatus
  <1> QED  BY <1>2, <1>6, <1>7, NoRunTransitive

\* ja_flow and ja_set_runerr.
LEMMA FlowNoRun ==
  ASSUME NEW d \in DB, NEW j \in Job
  PROVE  /\ \A type : NoRunCall(d, ja_flow(d, j, type))
         /\ NoRunCall(d, ja_set_runerr(d, j))
  <1>1. NoRunCall(d, d) /\ NoRunCall(d, ja_set_enderr(d, j))
    BY SetStatusNoRun DEF ja_set_enderr, JobStatus, NoRunCall
  <1>2. ASSUME NEW f, NoRunCall(d, f), NEW s \in {"END", "RUNERR", "ENDERR"}
        PROVE  NoRunCall(d, ja_set_status_job(f, j, s))
    <2>1. f \in DB /\ s \in JobStatus \ {"RUN"}
      BY <1>2 DEF NoRunCall, JobStatus
    <2> QED  BY <1>2, <2>1, SetStatusNoRun, NoRunTransitive
  <1>3. ASSUME NEW type
        PROVE  NoRunCall(d, ja_flow(d, j, type))
    BY <1>1, <1>2, FlowOutNoRun DEF ja_flow, ja_set_end, ja_set_enderr
  <1>4. NoRunCall(d, ja_set_runerr(d, j))
    BY <1>1, <1>2, FlowOutNoRun DEF ja_set_runerr
  <1> QED  BY <1>3, <1>4

\* In a plain jobnet no child comes to the statements of a ja_flow.
LEMMA NoFlowKept ==
  ASSUME StopInv, PlainJobnet, Next
  PROVE  NoFlowChild'
  <1>1. TypeOK /\ NoFlowChild
    BY DEF StopInv, SummaryInv
  <1>2. ASSUME \A c \in children' : c \in children \/ c.phase = "connect"
        PROVE  NoFlowChild'
    BY <1>1, <1>2 DEF NoFlowChild
  <1>3. \A j, m : Fork(j, m).phase = "connect"
    BY DEF Fork
  <1>4. CASE ChildNext
    <2>1. PICK c \in children :
            \/ ChildUnreached(c) \/ ChildDeliver(c) \/ ChildCopy(c)
            \/ ChildUnlock(c) \/ ChildRunerr(c) \/ ChildFlow(c) \/ ChildDone(c)
            \/ \E e \in c.todo : ChildRead(c, e)
            \/ \E g \in c.got : ChildWrite(c, g)
      BY <1>4 DEF ChildNext
    <2>2. c \in Child /\ c.job \in Job /\ c.phase \notin {"copied", "flow"}
      BY <1>1 DEF TypeOK, Child, NoFlowChild
    <2>3. ~ContinuesOn(c.job) /\ JobType[c.job] # "FCOPY"
      BY <2>2 DEF PlainJobnet, ContinuesOn
    <2>4. Exit(c) \/ \E ph \in {"unreached", "ng", "unlocked"} : GoOn(c, [c EXCEPT !.phase = ph])
      BY <2>1, <2>2, <2>3
      DEF ChildUnreached, ChildDeliver, ChildCopy, ChildUnlock, ChildRunerr, ChildFlow,
          ChildDone, ChildRead, ChildWrite
    <2>5. \A ph : [c EXCEPT !.phase = ph].phase = ph
      BY <2>2 DEF Child
    <2> QED  BY <1>1, <2>4, <2>5 DEF Exit, GoOn, NoFlowChild
  <1>5. CASE JarunNext
    <2>1. children' = children \/ \E r \in jarunq : children' = children \cup {Fork(r.job, "RUN")}
      BY <1>5
      DEF JarunNext, JarunSelect, JarunPass, jarun_skip, jarun_icon_common, jarun_icon_if,
          jarun_icon_end, jarun_icon_jobnet, jarun_icon_extjob, jarun_icon_remote,
          jarun_icon_reboot, jarun_icon_release, JarunHostLocked, JarunIconFails
    <2> QED  BY <1>2, <1>3, <2>1
  <1>6. CASE JajobNext
    <2>1. children' = children \/ \E r \in jajobq : \E m :
            children' = children \cup {Fork(r.job, m)}
      BY <1>6
      DEF JajobNext, JajobSelect, jajob_icon_job, jajob_icon_reboot, jajob_icon_fwait,
          jajob_icon_extjob_kill, ExtjobWaits, jajob_icon_extjob, StopOrTimeout
    <2> QED  BY <1>2, <1>3, <2>1
  <1>7. CASE JajobnetNext
    BY <1>2, <1>3, <1>7
    DEF JajobnetNext, JajobnetSummary, JajobnetSelect, jajobnet_ready, jajobnet_run,
        jajobnet_run_sync
  <1>8. ASSUME NEW j \in Job, AgentNext(j)
        PROVE  NoFlowChild'
    BY <1>2, <1>8 DEF AgentNext, AgentRun, AgentEnd, AgentSend, AgentGivesUp, AgentStep
  <1>9. CASE OperatorNext
    BY <1>2, <1>9
    DEF OperatorNext, SetHold, SetUnHold, SetSkip, SetUnSkip, SetStop, SetReStart,
        StopRunningJobnet, jatrap_jobrelease, Operator
  <1>10. CASE ServerRestart
    BY <1>2, <1>10 DEF ServerRestart
  <1> QED  BY <1>4, <1>5, <1>6, <1>7, <1>8, <1>9, <1>10 DEF Next

\* After the stop, a step of the server, of a child or of an agent changes the
\* table by a call that sets no icon to RUN: jarun finds nothing READY.
LEMMA StepNoRun ==
  ASSUME StopInv, PlainJobnet, crashes = 0, db.sum_status = "ENDERR",
         JarunNext \/ ChildNext \/ JajobNext \/ (\E j \in Job : AgentNext(j))
  PROVE  NoRunCall(db, db') /\ ops' = ops
  <1>1. /\ TypeOK /\ db \in DB /\ NoFlowChild
        /\ \A j \in Job : db.status[j] \notin {"READY", "RUN"}
    BY DEF StopInv, SummaryInv, TypeOK, Stopped
  <1>2. NoRunCall(db, db)
    BY <1>1 DEF NoRunCall
  <1>3. CASE JarunNext
    <2>1. \A r \in jarunq : ~StillReady(r)
      BY <1>1 DEF StillReady, TypeOK, JarunRow
    <2>2. db' = db /\ ops' = ops
      BY <1>3, <2>1
      DEF JarunNext, JarunSelect, JarunPass, jarun_skip, jarun_icon_common, jarun_icon_if,
          jarun_icon_end, jarun_icon_jobnet, jarun_icon_extjob, jarun_icon_remote,
          jarun_icon_reboot, jarun_icon_release, JarunHostLocked, JarunIconFails,
          jarun_normal, Jarun, bounds
    <2> QED  BY <1>2, <2>2
  <1>4. CASE ChildNext
    <2>1. PICK c \in children :
            \/ ChildUnreached(c) \/ ChildDeliver(c) \/ ChildCopy(c)
            \/ ChildUnlock(c) \/ ChildRunerr(c) \/ ChildFlow(c) \/ ChildDone(c)
            \/ \E e \in c.todo : ChildRead(c, e)
            \/ \E g \in c.got : ChildWrite(c, g)
      BY <1>4 DEF ChildNext
    <2>2. c.job \in Job /\ c.phase \notin {"copied", "flow"}
      BY <1>1 DEF TypeOK, Child, NoFlowChild
    <2>3. ~ContinuesOn(c.job)
      BY <2>2 DEF PlainJobnet, ContinuesOn
    <2>4. db' = db \/ db' = ja_host_unlock(db, c.job) \/ db' = ja_set_runerr(db, c.job)
      BY <2>1, <2>2, <2>3
      DEF ChildUnreached, ChildDeliver, ChildCopy, ChildUnlock, ChildRunerr, ChildFlow,
          ChildDone, ChildRead, ChildWrite
    <2>5. NoRunCall(db, ja_host_unlock(db, c.job))
      BY <1>1 DEF ja_host_unlock, DB, NoRunCall
    <2>6. ops' = ops
      BY <2>1 DEF ChildUnreached, ChildDeliver, ChildCopy, ChildUnlock, ChildRunerr, ChildFlow,
                  ChildDone, ChildRead, ChildWrite, ChildStep
    <2> QED  BY <1>1, <1>2, <2>2, <2>4, <2>5, <2>6, FlowNoRun
  <1>5. CASE JajobNext
    <2>1. ops' = ops
      BY <1>5 DEF JajobNext, JajobSelect, jajob_icon_job, jajob_icon_reboot, jajob_icon_fwait,
                  jajob_icon_extjob_kill, ExtjobWaits, jajob_icon_extjob, Jajob, bounds
    <2>2. CASE JajobSelect
      BY <1>2, <2>1, <2>2 DEF JajobSelect
    <2>4. \A r \in jajobq : r.job \in Job
      BY <1>1 DEF TypeOK, JajobRow
    <2>5. ASSUME NEW r \in jajobq, jajob_icon_job(r) \/ jajob_icon_reboot(r)
          PROVE  NoRunCall(db, db') /\ ops' = ops
      <3>1. PICK late \in BOOLEAN :
              db' = [db EXCEPT
                !.status[r.job] = IF r.method = "ABORT" THEN "ABORT" ELSE @,
                !.timeout_flag[r.job] = @ \/ late]
        BY <2>5 DEF jajob_icon_job, jajob_icon_reboot, StopOrTimeout
      <3>2. /\ db'.abort_flag = db.abort_flag
            /\ db'.status = [db.status EXCEPT ![r.job] = IF r.method = "ABORT" THEN "ABORT" ELSE @]
        BY <1>1, <3>1 DEF DB
      <3>3. db' \in DB
        BY <1>1, <1>5, JajobGood DEF GoodStep, TypeOK
      <3>4. \A k \in Job : db'.status[k] = "RUN" => db.status[k] = "RUN"
        BY <1>1, <2>4, <2>5, <3>2 DEF DB
      <3> QED  BY <2>1, <3>2, <3>3, <3>4 DEF NoRunCall
    <2>6. ASSUME NEW r \in jajobq, jajob_icon_fwait(r)
          PROVE  NoRunCall(db, db') /\ ops' = ops
      BY <1>1, <1>2, <2>1, <2>4, <2>6, SetStatusNoRun DEF jajob_icon_fwait, JobStatus
    <2>7. ASSUME NEW r \in jajobq,
                 jajob_icon_extjob_kill(r) \/ ExtjobWaits(r) \/ jajob_icon_extjob(r)
          PROVE  NoRunCall(db, db') /\ ops' = ops
      BY <1>1, <1>2, <2>1, <2>4, <2>7, FlowNoRun
      DEF jajob_icon_extjob_kill, ExtjobWaits, jajob_icon_extjob
    <2> QED  BY <1>5, <2>2, <2>5, <2>6, <2>7 DEF JajobNext
  <1>6. ASSUME NEW j \in Job, AgentNext(j)
        PROVE  NoRunCall(db, db') /\ ops' = ops
    <2>1. ops' = ops
      BY <1>6 DEF AgentNext, AgentRun, AgentEnd, AgentSend, AgentGivesUp, AgentStep
    <2> DEFINE u == Unlocked(db, j)
    <2>2. NoRunCall(db, u) /\ u \in DB
      BY <1>1, <1>2 DEF Unlocked, ja_host_unlock, DB, NoRunCall
    <2>3. db' = db \/ db' = ja_flow(u, j, "NORMAL") \/ db' = ja_set_runerr(u, j)
      BY <1>6 DEF AgentNext, AgentRun, AgentEnd, AgentSend, AgentGivesUp, jatrap_jobresult
    <2> HIDE DEF u
    <2>4. NoRunCall(u, ja_flow(u, j, "NORMAL")) /\ NoRunCall(u, ja_set_runerr(u, j))
      BY <2>2, FlowNoRun
    <2> QED  BY <1>2, <2>1, <2>2, <2>3, <2>4, NoRunTransitive
  <1> QED  BY <1>3, <1>4, <1>5, <1>6

\* A plain jobnet has the main jobnet only, and its rows agree with the summary.
LEMMA PlainNets ==
  ASSUME StopInv, PlainJobnet, crashes = 0, db.sum_status = "ENDERR"
  PROVE  Net = {MainNet} /\ db.net_status[MainNet] = "ENDERR" /\ renew = {}
  <1>1. Net = {MainNet}
    BY NetShape DEF NetShape, PlainJobnet
  <1>2. db.net_status[MainNet] = "ENDERR"
    BY DEF StopInv, SummaryInv, SummaryAgrees
  <1>3. \A r \in renew : r.net = MainNet
    BY <1>1 DEF StopInv, SummaryInv, TypeOK, NetRow
  <1> QED  BY <1>1, <1>2, <1>3 DEF StopInv, SummaryInv, JajobnetRows

\* A step of anyone but jajobnet leaves a stopped jobnet stopped: neither a stale
\* row nor a late result finds a running jobnet to make an icon ready in.
LEMMA StepStopped ==
  ASSUME StopInv, PlainJobnet, crashes = 0,
         \/ JarunNext \/ ChildNext \/ JajobNext \/ (\E j \in Job : AgentNext(j))
         \/ OperatorNext
  PROVE  Stopped'
  <1>1. GoodStep /\ TypeOK
    BY JarunGood, ChildGood, AgentGood, JajobGood, OperatorGood DEF StopInv, SummaryInv
  <1>2. CASE db.sum_status # "ENDERR"
    BY <1>1, <1>2 DEF GoodStep, MainKept, Stopped
  <1>3. CASE db.sum_status = "ENDERR"
    <2>1. db.abort_flag /\ \A j \in Job : db.status[j] \notin {"READY", "RUN"}
      BY <1>3 DEF StopInv, Stopped
    <2>2. CASE JarunNext \/ ChildNext \/ JajobNext \/ (\E j \in Job : AgentNext(j))
      <3>1. NoRunCall(db, db') /\ ops' = ops
        BY <1>3, <2>2, StepNoRun
      <3>2. \A c \in children : c.phase # "flow"
        BY DEF StopInv, NoFlowChild
      <3>3. \A j \in Job : db'.net_status[NetOf[j]] = "ENDERR"
        BY <1>1, <1>3, PlainNets, NetShape DEF NetShape, GoodStep, MainKept
      <3>4. \A j \in Job : ~BecomesReady(j)
        BY <1>1, <3>1, <3>2, <3>3 DEF GoodStep, ActivationStep
      <3> QED  BY <2>1, <3>1, <3>4 DEF NoRunCall, BecomesReady, Stopped
    <2>3. CASE OperatorNext
      <3>1. db' = db \/ \E j \in Job : \E m : SetMethod(j, m)
        BY <1>3, <2>1, <2>3
        DEF OperatorNext, SetHold, SetUnHold, SetSkip, SetUnSkip, SetStop, SetReStart,
            StopRunningJobnet, jatrap_jobrelease
      <3>2. db'.status = db.status /\ db'.abort_flag = db.abort_flag
        BY <1>1, <3>1 DEF SetMethod, TypeOK, DB
      <3> QED  BY <2>1, <3>2 DEF Stopped
    <2> QED  BY <2>2, <2>3
  <1> QED  BY <1>2, <1>3

\* jajobnet stops the jobnet when nothing runs any more, and starts nothing in a
\* jobnet that is stopped.
LEMMA JajobnetStopped ==
  ASSUME StopInv, PlainJobnet, crashes = 0, JajobnetNext
  PROVE  Stopped'
  <1>1. /\ TypeOK /\ db \in DB /\ SummaryAgrees /\ JajobnetRows
        /\ netq \subseteq NetRow /\ renew \subseteq NetRow
    BY DEF StopInv, SummaryInv, TypeOK
  <1>2. ASSUME db' = db
        PROVE  Stopped'
    BY <1>2 DEF StopInv, Stopped
  <1>3. CASE JajobnetSummary
    <2>1. ASSUME NEW locked, db.abort_flag, db' = jajobnet_kill(db, locked), db.sum_status = "RUN"
          PROVE  Stopped'
      <3>1. CASE Running(db) = {}
        <4> DEFINE k == Killed(db)
        <4>1. \A j \in Job : k.status[j] # "RUN"
          BY <3>1 DEF Running
        <4>2. \A j \in Job : k.status[j] # "READY"
          BY <1>1 DEF Killed, DB
        <4>3. k \in DB /\ k.abort_flag = db.abort_flag
          BY <1>1 DEF Killed, DB, JobStatus, NetStatus
        <4>4. db' = ja_set_jobstatus(k, "ENDERR", "ERROR")
          BY <2>1, <3>1 DEF jajobnet_kill
        <4> HIDE DEF k
        <4>5. db'.status = k.status /\ db'.abort_flag = k.abort_flag
          BY <4>3, <4>4 DEF ja_set_jobstatus, DB
        <4> QED  BY <2>1, <4>1, <4>2, <4>3, <4>5 DEF Stopped
      <3>2. CASE Running(db) # {}
        <4>1. PICK st : db' = [Killed(db) EXCEPT !.status = st]
          BY <2>1, <3>2 DEF jajobnet_kill
        <4>2. Killed(db).sum_status = "RUN" /\ Killed(db) \in DB
          BY <1>1, <2>1 DEF Killed, DB, JobStatus, NetStatus
        <4>3. db'.sum_status = "RUN"
          BY <4>1, <4>2 DEF DB
        <4> QED  BY <4>3 DEF Stopped
      <3> QED  BY <3>1, <3>2
    <2>2. CASE db' = jajobnet_summary_ready(db)
      <3>1. db'.sum_status = "RUN"
        BY <1>1, <2>2, SummaryReady
      <3> QED  BY <3>1 DEF Stopped
    <2> QED  BY <1>2, <1>3, <2>1, <2>2 DEF JajobnetSummary
  <1>4. CASE JajobnetSelect \/ \E r \in netq : jajobnet_run(r)
    BY <1>2, <1>4 DEF JajobnetSelect, jajobnet_run
  <1>5. ASSUME NEW r \in netq, jajobnet_ready(r)
        PROVE  Stopped'
    <2>1. db'.sum_status = db.sum_status
      BY <1>1, <1>5 DEF jajobnet_ready, ja_set_status_jobnet, DB
    <2>2. db.sum_status # "ENDERR"
      <3>1. r.status = "READY" /\ r.net \in Net /\ (r.net = MainNet => r.status = db.net_status[MainNet])
        BY <1>1, <1>5 DEF jajobnet_ready, JajobnetRows, NetRow
      <3> QED  BY <3>1, PlainNets
    <2> QED  BY <2>1, <2>2 DEF Stopped
  <1>6. ASSUME NEW r \in renew, jajobnet_run_sync(r)
        PROVE  Stopped'
    <2> DEFINE e == SyncNet(db, r)
    <2>1. e \in DB /\ r \in NetRow
      BY <1>1, Sync
    <2>2. r.net = MainNet
      BY <1>1, NetShape DEF NetShape, PlainJobnet, NetRow
    <2>3. db' = SyncSummary(e, r)
      BY <1>6, <2>2 DEF jajobnet_run_sync
    <2> HIDE DEF e
    <2>4. db'.sum_status \in {"END", "RUN"}
      BY <2>1, <2>3, SyncSummaryType
    <2> QED  BY <2>4 DEF Stopped
  <1> QED  BY <1>3, <1>4, <1>5, <1>6 DEF JajobnetNext

\* StopInv is inductive.
THEOREM StopInvariant == Spec => []StopInv
  <1>1. Init => NoFlowChild /\ Stopped
    BY DEF Init, InitDB, NoFlowChild, Stopped
  <1>2. SummaryInv' /\ StopInv /\ [Next]_vars => StopInv'
    <2> SUFFICES ASSUME SummaryInv', StopInv, [Next]_vars PROVE StopInv'
      OBVIOUS
    <2>1. CASE Next
      <3>1. PlainJobnet => NoFlowChild'
        BY <2>1, NoFlowKept
      <3>2. ASSUME PlainJobnet, crashes' = 0
            PROVE  Stopped'
        <4>1. crashes = 0 /\ ~ServerRestart
          <5>1. crashes \in Nat
            BY SchedulerShape DEF StopInv, SummaryInv, TypeOK, SchedulerShape
          <5>2. ~ServerRestart
            BY <3>2, <5>1 DEF ServerRestart
          <5>3. JajobnetNext => crashes' = crashes
            BY DEF JajobnetNext, JajobnetSummary, JajobnetSelect, jajobnet_ready, jajobnet_run,
                   jajobnet_run_sync, JajobnetStep
          <5>4. ~JajobnetNext => MainKept
            BY <2>1, <5>2, JarunGood, ChildGood, AgentGood, JajobGood, OperatorGood
            DEF Next, GoodStep, StopInv, SummaryInv
          <5> QED  BY <3>2, <5>2, <5>3, <5>4 DEF MainKept
        <4> QED  BY <2>1, <3>2, <4>1, StepStopped, JajobnetStopped DEF Next
      <3> QED  BY <3>1, <3>2 DEF StopInv
    <2>2. CASE UNCHANGED vars
      BY <2>2 DEF vars, StopInv, NoFlowChild, Stopped
    <2> QED  BY <2>1, <2>2
  <1> QED  BY <1>1, <1>2, SummaryInvariant, PTL DEF Spec, StopInv

\* StoppedJobnetIsQuiet is an invariant, for every bound, of every jobnet without
\* sub-jobnets whose ja_flows are all transactions, as long as the server is not
\* restarted: once jajobnet_kill has set the summary to ENDERR, neither a stale
\* row of jarun or jajob, nor a late job result, nor the operator makes an icon
\* ready or sets it to RUN.
THEOREM StoppedCorrect ==
  ASSUME PlainJobnet
  PROVE  Spec => [](crashes = 0 => StoppedJobnetIsQuiet)
  <1>1. StopInv => (crashes = 0 => StoppedJobnetIsQuiet)
    BY PlainJobnet DEF StopInv, Stopped, StoppedJobnetIsQuiet
  <1> QED  BY <1>1, StopInvariant, PTL
=============================================================================
