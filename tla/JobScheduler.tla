---------------------------- MODULE JobScheduler ----------------------------
(***************************************************************************)
(* The job server at work on one booted jobnet: the processes jarun, jajob *)
(* and jajobnet, the children jarun and jajob fork to reach an agent, the  *)
(* trapper that takes job results, the agents, and the operator of the     *)
(* Job Manager.  They share nothing but the run tables (db).               *)
(*                                                                         *)
(* A process of the server selects rows without a lock and works through   *)
(* them later, one transaction per row, so what it selected may be stale:  *)
(* jarunq, jajobq and netq hold the rows selected and not yet treated,     *)
(* renew the new status that jajobnet_run has computed and not yet         *)
(* written.  A child has no transaction: each of its statements is a step. *)
(***************************************************************************)
EXTENDS JaTables

CONSTANTS
  TestFlags,    \* kinds of run: test_flag the jobnet is loaded with
  InitMethod,   \* [Job -> Method]   method_flag the icon is loaded with
  StopCommand,  \* JOB icons that have a stop command (stop_flag = 1)
  CommandId,    \* [ExtjobIcon -> ExtCommand]   command_id
  ReleaseOf,    \* [ReleaseIcon -> Job]   release_job_id
  MayFail,      \* icons whose own work can fail
  MayTimeout,   \* JOB and REBOOT icons that can run for longer than their timeout
  Menu,         \* the actions the operator makes use of
  MaxOps,       \* bound: number of actions of the operator
  MaxFaults,    \* bound: lost connections, telegrams, hosts locked by others
  MaxCrashes    \* bound: restarts of the server

ExtjobIcon == {j \in Job : JobType[j] = "EXTJOB"}

\* A REL icon may also name an icon of another jobnet: it then acts on this
\* jobnet as a VALUE icon does.
ReleaseIcon == {j \in Job : JobType[j] = "REL"}

\* jacmdsleep and jacmdtime behave alike here.
ExtCommand == {"SLEEP", "WEEK", "ZBXSENDER"}

Operation == {"SetHold", "SetUnHold", "SetSkip", "SetUnSkip", "SetStop",
              "SetReStart", "StopRunningJobnet", "jobrelease"}

ASSUME SchedulerShape ==
  /\ TestFlags \subseteq BOOLEAN
  /\ InitMethod \in [Job -> {"NORMAL", "WAIT", "SKIP"}]
  /\ StopCommand \subseteq Job
  /\ CommandId \in [ExtjobIcon -> ExtCommand]
  /\ ReleaseOf \in [ReleaseIcon -> Job]
  /\ MayFail \subseteq Job
  /\ MayTimeout \subseteq Job
  /\ Menu \subseteq Operation
  /\ MaxOps \in Nat /\ MaxFaults \in Nat /\ MaxCrashes \in Nat

VARIABLES
  db,         \* the run tables
  jarunq,     \* jarun: READY rows selected, [job, method]
  jajobq,     \* jajob: RUN rows selected, [job, method, timeout]
  jajobnet,   \* jajobnet: "select" between its two selects, else "loop"
  netq,       \* jajobnet: rows selected, [net, status, timeout]
  renew,      \* jajobnet: the renewal computed by jajobnet_run, if any
  children,   \* forked processes
  agent,      \* what the agent of each icon holds for it
  ops, faults, crashes

jarunVars    == <<jarunq>>
jajobVars    == <<jajobq>>
jajobnetVars == <<jajobnet, netq, renew>>
bounds       == <<ops, faults, crashes>>
vars == <<db, jarunq, jajobq, jajobnet, netq, renew, children, agent,
          ops, faults, crashes>>

AgentState == {"idle", "begin", "run", "killed", "ok", "ng"}

\* A child of jarun_icon_job, ..._reboot, ..._fcopy or jarun_agent.  todo and got
\* are the icons its ja_flow has still to enter and the row it has read.
Child == [job    : Job,
          method : {"RUN", "KILL", "ABORT"},
          phase  : {"connect", "unreached", "ng", "unlocked", "copied", "flow"},
          final  : {"END", "RUNERR"},
          todo   : SUBSET Job,
          got    : SUBSET [to : Job, status : JobStatus, end_count : Nat]]

Fork(j, m) == [job |-> j, method |-> m, phase |-> "connect", final |-> "END",
               todo |-> {}, got |-> {}]

JarunRow == [job : Job, method : Method]
JajobRow == [job : Job, method : Method, timeout : BOOLEAN]
NetRow   == [net : Net, status : NetStatus, timeout : BOOLEAN]

TypeOK ==
  /\ db \in DB
  /\ jarunq \subseteq JarunRow
  /\ jajobq \subseteq JajobRow
  /\ jajobnet \in {"loop", "select"}
  /\ netq \subseteq NetRow
  /\ renew \subseteq NetRow
  /\ children \subseteq Child
  /\ agent \in [Job -> AgentState]
  /\ ops \in 0 .. MaxOps /\ faults \in 0 .. MaxFaults
  /\ crashes \in 0 .. MaxCrashes

\* What jaboot hands over: the summary READY, everything else as loaded.
InitDB(test) ==
  [status       |-> [j \in Job |-> "BEGIN"],
   test_flag    |-> test,
   end_count    |-> [j \in Job |-> 0],
   method_flag  |-> InitMethod,
   timeout_flag |-> [j \in Job |-> FALSE],
   net_status   |-> [n \in Net |-> "BEGIN"],
   net_timeout  |-> [n \in Net |-> FALSE],
   sum_status   |-> "READY",
   job_status   |-> "NORMAL",
   abort_flag   |-> FALSE,
   locked       |-> {}]

Init ==
  /\ \E test \in TestFlags : db = InitDB(test)
  /\ jarunq = {} /\ jajobq = {}
  /\ jajobnet = "loop" /\ netq = {} /\ renew = {}
  /\ children = {}
  /\ agent = [j \in Job |-> "idle"]
  /\ ops = 0 /\ faults = 0 /\ crashes = 0

\* A step of the environment that the bound MaxFaults limits.
Fault == faults < MaxFaults /\ faults' = faults + 1
-----------------------------------------------------------------------------
(* jarun: process_jarun *)

JarunSelect ==
  /\ jarunq = {}
  /\ jarunq' = {[job |-> j, method |-> db.method_flag[j]] :
                  j \in {k \in Job : db.status[k] = "READY"}}
  /\ jarunq' # {}
  /\ UNCHANGED <<db, jajobVars, jajobnetVars, children, agent, bounds>>

\* Treat row r.  The row is locked and must still be READY; its method is
\* the one that was selected.
Jarun(r) ==
  /\ r \in jarunq
  /\ jarunq' = jarunq \ {r}
  /\ UNCHANGED <<jajobVars, jajobnetVars, agent, ops, crashes>>

StillReady(r) == db.status[r.job] = "READY"

\* Not READY any more; on hold (rolled back); or ABORT, which is logged.
JarunPass(r) ==
  /\ Jarun(r)
  /\ ~StillReady(r) \/ r.method \in {"WAIT", "ABORT"}
  /\ UNCHANGED <<db, children, faults>>

Unskippable == {"START", "END", "M", "W", "IF", "IFEND", "L"}

jarun_skip(r) ==
  /\ Jarun(r) /\ StillReady(r) /\ r.method = "SKIP"
  /\ db' = IF JobType[r.job] \in Unskippable THEN ja_set_runerr(db, r.job)
                                             ELSE ja_flow(db, r.job, "NORMAL")
  /\ UNCHANGED <<children, faults>>

\* jarun_normal up to the switch over the icon types.
jarun_normal(r) ==
  Jarun(r) /\ StillReady(r) /\ r.method \in {"NORMAL", "RERUN"}

\* jarun_icon_common, and the icons that end in the server at once.
CommonIcon == {"START", "M", "W", "L", "IFEND"}
LocalIcon  == {"VALUE", "CALC", "INFO", "LINK", "TASK"}

jarun_icon_common(r) ==
  /\ jarun_normal(r)
  /\ JobType[r.job] \in CommonIcon \cup LocalIcon
  /\ db' = ja_flow(ja_set_run(db, r.job), r.job, "NORMAL")
  /\ UNCHANGED <<children, faults>>

jarun_icon_if(r) ==
  /\ jarun_normal(r) /\ JobType[r.job] = "IF"
  /\ \E type \in IF db.test_flag THEN {"NORMAL"} ELSE {"TRUE", "FALSE"} :
       db' = ja_flow(ja_set_run(db, r.job), r.job, type)
  /\ UNCHANGED <<children, faults>>

jarun_icon_end(r) ==
  /\ jarun_normal(r) /\ JobType[r.job] = "END"
  /\ db' = ja_set_end(ja_set_run(db, r.job), r.job)
  /\ UNCHANGED <<children, faults>>

jarun_icon_jobnet(r) ==
  /\ jarun_normal(r) /\ JobType[r.job] = "JOBNET"
  /\ db' = ja_set_status_jobnet(ja_set_run(db, r.job), LinkNet[r.job], "READY")
  /\ UNCHANGED <<children, faults>>

\* The sleep, time and zabbix_sender commands are left to jajob.
jarun_icon_extjob(r) ==
  /\ jarun_normal(r) /\ JobType[r.job] = "EXTJOB"
  /\ LET running == ja_set_run(db, r.job)
         atOnce  == \/ CommandId[r.job] = "WEEK"
                    \/ CommandId[r.job] = "SLEEP" /\ db.test_flag
     IN db' = IF atOnce THEN ja_flow(running, r.job, "NORMAL") ELSE running
  /\ UNCHANGED <<children, faults>>

\* jarun_icon_release: the icon it names must be on hold.
jarun_icon_release(r) ==
  /\ jarun_normal(r) /\ JobType[r.job] = "REL"
  /\ LET running == ja_set_run(db, r.job)
         held    == ReleaseOf[r.job]
     IN db' = IF db.method_flag[held] = "WAIT"
              THEN ja_flow([running EXCEPT !.method_flag[held] = "NORMAL"], r.job, "NORMAL")
              ELSE ja_set_runerr(running, r.job)
  /\ UNCHANGED <<children, faults>>

\* jarun_icon_job, jarun_icon_fwait and jarun_icon_fcopy fork a child.
RemoteIcon == {"JOB", "FWAIT", "FCOPY"}

jarun_icon_remote(r) ==
  /\ jarun_normal(r) /\ JobType[r.job] \in RemoteIcon
  /\ ~ja_host_lockinfo(db, r.job)
  /\ db' = ja_set_run(db, r.job)
  /\ children' = children \cup {Fork(r.job, "RUN")}
  /\ UNCHANGED faults

\* Seeded fault: the host of a REBOOT icon is locked whoever holds it.
jarun_icon_reboot_Shared(r) ==
  /\ jarun_normal(r) /\ JobType[r.job] = "REBOOT"
  /\ db' = ja_host_lock(ja_set_run(db, r.job), r.job)
  /\ children' = children \cup {Fork(r.job, "RUN")}
  /\ UNCHANGED faults

\* jarun_icon_reboot takes the lock in the transaction that starts the icon.
jarun_icon_reboot(r) ==
  /\ jarun_normal(r) /\ JobType[r.job] = "REBOOT"
  /\ ~ja_host_lockinfo(db, r.job)
  /\ db' = ja_host_lock(ja_set_run(db, r.job), r.job)
  /\ children' = children \cup {Fork(r.job, "RUN")}
  /\ UNCHANGED faults

\* The host is locked, by this jobnet or by another one: rolled back.
JarunHostLocked(r) ==
  /\ jarun_normal(r) /\ JobType[r.job] \in RemoteIcon \cup {"REBOOT"}
  /\ \/ ja_host_lockinfo(db, r.job) /\ UNCHANGED faults
     \/ Fault
  /\ UNCHANGED <<db, children>>

\* The icon fails before it starts: an undefined variable, a bad parameter.
JarunIconFails(r) ==
  /\ jarun_normal(r)
  /\ r.job \in MayFail /\ JobType[r.job] \notin CommonIcon \cup {"JOBNET"}
  /\ db' = ja_set_runerr(ja_set_run(db, r.job), r.job)
  /\ UNCHANGED <<children, faults>>

JarunNext ==
  \/ JarunSelect
  \/ \E r \in jarunq :
       \/ JarunPass(r) \/ jarun_skip(r) \/ jarun_icon_common(r)
       \/ jarun_icon_if(r) \/ jarun_icon_end(r) \/ jarun_icon_jobnet(r)
       \/ jarun_icon_extjob(r) \/ jarun_icon_remote(r)
       \/ jarun_icon_reboot(r) \/ jarun_icon_release(r)
       \/ JarunHostLocked(r) \/ JarunIconFails(r)
-----------------------------------------------------------------------------
(* The children *)

\* Child c leaves the set, or goes on as c2.
Exit(c)       == children' = children \ {c}
GoOn(c, c2)   == children' = (children \ {c}) \cup {c2}
ChildStep     == UNCHANGED <<jarunVars, jajobVars, jajobnetVars, ops, crashes>>

\* ja_connect fails.
ChildUnreached(c) ==
  /\ c.phase = "connect" /\ Fault
  /\ GoOn(c, [c EXCEPT !.phase = "unreached"])
  /\ ChildStep /\ UNCHANGED <<db, agent>>

\* Seeded fault: a result that is not yet reported is overwritten.
Accepts_Ended(c) ==
  \/ c.method = "RUN" /\ agent[c.job] \in {"idle", "ok", "ng"}
  \/ c.method = "KILL" /\ agent[c.job] \in {"run", "killed"}
  \/ c.method = "ABORT"

\* ja_jobdb_insert and ja_agent_kill: whether the agent does what it is asked.
\* A stop command is a job of its own (inner_job_id_fs_link).
Accepts(c) ==
  \/ c.method = "RUN" /\ agent[c.job] = "idle"
  \/ c.method = "KILL" /\ agent[c.job] \in {"run", "killed"}
  \/ c.method = "ABORT"

\* The telegram arrives and the answer does, or is lost.
ChildDeliver(c) ==
  /\ c.phase = "connect" /\ JobType[c.job] # "FCOPY"
  /\ agent' = IF ~Accepts(c) \/ c.method = "ABORT" THEN agent
              ELSE [agent EXCEPT ![c.job] =
                      IF c.method = "RUN" THEN "begin" ELSE "killed"]
  /\ \/ Accepts(c) /\ Exit(c) /\ UNCHANGED faults
     \/ ~Accepts(c) /\ GoOn(c, [c EXCEPT !.phase = "ng"]) /\ UNCHANGED faults
     \/ Accepts(c) /\ Fault /\ GoOn(c, [c EXCEPT !.phase = "ng"])
  /\ ChildStep /\ UNCHANGED db

\* jarun_icon_fcopy: the file is copied, or something fails on the way.
ChildCopy(c) ==
  /\ c.phase = "connect" /\ JobType[c.job] = "FCOPY"
  /\ \/ GoOn(c, [c EXCEPT !.phase = "copied"])
     \/ c.job \in MayFail /\ GoOn(c, [c EXCEPT !.phase = "ng"])
  /\ ChildStep /\ UNCHANGED <<db, agent, faults>>

\* ja_flow in a child reads the jobnet's status and then enters the icons
\* behind its own one by one.
StartFlow(c, final) ==
  /\ HasFlow(c.job) /\ JobnetRunning(db, c.job)
  /\ GoOn(c, [c EXCEPT !.phase = "flow", !.final = final,
                       !.todo = Targets(c.job, "NORMAL")])
  /\ UNCHANGED db

\* A failed start of a REBOOT icon gives the lock back first.
GivesBack(c) == JobType[c.job] = "REBOOT" /\ c.method = "RUN"

ChildUnlock(c) ==
  /\ c.phase \in {"unreached", "ng"} /\ GivesBack(c)
  /\ db' = ja_host_unlock(db, c.job)
  /\ GoOn(c, [c EXCEPT !.phase = "unlocked"])
  /\ ChildStep /\ UNCHANGED <<agent, faults>>

\* A failed kill of a REBOOT icon is not reported, and one of an FWAIT icon
\* only if the agent was not reached.
KillUnreported(c) ==
  /\ c.method = "KILL"
  /\ \/ JobType[c.job] = "REBOOT"
     \/ JobType[c.job] = "FWAIT" /\ c.phase = "ng"

\* The child reports the failure: ja_set_runerr without a transaction.
ChildRunerr(c) ==
  /\ c.phase \in {"unreached", "ng", "unlocked"}
  /\ GivesBack(c) => c.phase = "unlocked"
  /\ IF KillUnreported(c)
     THEN Exit(c) /\ UNCHANGED db
     ELSE \/ ContinuesOn(c.job) /\ StartFlow(c, "RUNERR")
          \/ /\ ~(ContinuesOn(c.job) /\ HasFlow(c.job) /\ JobnetRunning(db, c.job))
             /\ db' = ja_set_runerr(db, c.job) /\ Exit(c)
  /\ ChildStep /\ UNCHANGED <<agent, faults>>

\* The file is copied: ja_flow without a transaction.
ChildFlow(c) ==
  /\ c.phase = "copied"
  /\ \/ StartFlow(c, "END")
     \/ /\ ~(HasFlow(c.job) /\ JobnetRunning(db, c.job))
        /\ db' = ja_flow(db, c.job, "NORMAL") /\ Exit(c)
  /\ ChildStep /\ UNCHANGED <<agent, faults>>

\* ja_flow_set_status: the select; its lock ends with the statement.
ChildRead(c, e) ==
  /\ c.phase = "flow" /\ c.got = {} /\ e \in c.todo
  /\ GoOn(c, [c EXCEPT !.todo = @ \ {e},
                !.got = {[to |-> e, status |-> db.status[e],
                          end_count |-> db.end_count[e]]}])
  /\ ChildStep /\ UNCHANGED <<db, agent, faults>>

\* ja_flow_set_status: the updates, from the values that were read.
ChildWrite(c, g) ==
  /\ c.phase = "flow" /\ g \in c.got
  /\ db' = IF MayEnter(db, g.to, g.status)
           THEN EnterAll(db, {g.to}, [db.status EXCEPT ![g.to] = g.status],
                         [db.end_count EXCEPT ![g.to] = g.end_count])
           ELSE IF Refused(db, g.to, g.status) THEN ja_set_enderr(db, c.job)
           ELSE db
  /\ GoOn(c, [c EXCEPT !.got = {}])
  /\ ChildStep /\ UNCHANGED <<agent, faults>>

\* The last statement of ja_flow or of ja_set_runerr.
ChildDone(c) ==
  /\ c.phase = "flow" /\ c.todo = {} /\ c.got = {}
  /\ db' = ja_set_status_job(db, c.job, c.final)
  /\ Exit(c)
  /\ ChildStep /\ UNCHANGED <<agent, faults>>

ChildNext ==
  \E c \in children :
    \/ ChildUnreached(c) \/ ChildDeliver(c) \/ ChildCopy(c)
    \/ ChildUnlock(c) \/ ChildRunerr(c) \/ ChildFlow(c) \/ ChildDone(c)
    \/ \E e \in c.todo : ChildRead(c, e)
    \/ \E g \in c.got : ChildWrite(c, g)
-----------------------------------------------------------------------------
(* The agents, and the trapper that takes their results *)

AgentStep == UNCHANGED <<jarunVars, jajobVars, jajobnetVars, children, ops, crashes>>

\* ja_agent_run.
AgentRun(j) ==
  /\ agent[j] = "begin"
  /\ \E s \in {"run"} \cup IF j \in MayFail THEN {"ng"} ELSE {} :
       agent' = [agent EXCEPT ![j] = s]
  /\ AgentStep /\ UNCHANGED <<db, faults>>

\* ja_agent_end: the command has ended; "ok" when its exit code is good, which
\* it may be although the command was killed.
AgentEnd(j) ==
  /\ agent[j] \in {"run", "killed"}
  /\ \E s \in {"ok"} \cup (IF agent[j] = "killed" \/ j \in MayFail THEN {"ng"} ELSE {}) :
       agent' = [agent EXCEPT ![j] = s]
  /\ AgentStep /\ UNCHANGED <<db, faults>>

\* Seeded fault: the result of an icon that is being stopped is dropped.
jatrap_jobresult_RunOnly(d, j, ok) ==
  IF d.status[j] # "RUN" THEN d
  ELSE IF ok THEN ja_flow(d, j, "NORMAL") ELSE ja_set_runerr(d, j)

\* Seeded fault: only a good result gives the host back.
Unlocked_Ok(d, j) ==
  IF JobType[j] = "REBOOT" /\ agent[j] = "ok" THEN ja_host_unlock(d, j) ELSE d

\* The result of a REBOOT icon gives its host back.
Unlocked(d, j) == IF JobType[j] = "REBOOT" THEN ja_host_unlock(d, j) ELSE d

jatrap_jobresult(d, j, ok) ==
  IF d.status[j] \notin {"RUN", "ABORT"} THEN d
  ELSE IF ok /\ d.status[j] = "RUN" THEN ja_flow(Unlocked(d, j), j, "NORMAL")
  ELSE ja_set_runerr(Unlocked(d, j), j)

\* ja_agent_close: the agent forgets the job once the server has answered,
\* whatever the answer; when the answer is lost it sends the result again.
AgentSend(j) ==
  /\ agent[j] \in {"ok", "ng"}
  /\ db' = jatrap_jobresult(db, j, agent[j] = "ok")
  /\ \/ agent' = [agent EXCEPT ![j] = "idle"] /\ UNCHANGED faults
     \/ Fault /\ UNCHANGED agent
  /\ AgentStep

\* ja_agent_close after CONFIG_SEND_RETRY attempts.
AgentGivesUp(j) ==
  /\ agent[j] \in {"ok", "ng"} /\ Fault
  /\ agent' = [agent EXCEPT ![j] = "idle"]
  /\ AgentStep /\ UNCHANGED db

\* The icons an agent works for.
AgentIcon == {j \in Job : JobType[j] \in {"JOB", "FWAIT", "REBOOT"}}

AgentNext(j) == AgentRun(j) \/ AgentEnd(j) \/ AgentSend(j) \/ AgentGivesUp(j)
-----------------------------------------------------------------------------
(* jajob: process_jajob *)

JajobSelect ==
  /\ jajobq = {}
  /\ jajobq' = {[job |-> j, method |-> db.method_flag[j],
                 timeout |-> db.timeout_flag[j]] :
                  j \in {k \in Job : /\ db.status[k] = "RUN"
                                     /\ JobType[k] \in {"JOB", "EXTJOB", "FWAIT", "REBOOT"}}}
  /\ jajobq' # {}
  /\ UNCHANGED <<db, jarunVars, jajobnetVars, children, agent, bounds>>

\* Treat row r.  The row is locked, its status is not read again.
Jajob(r) ==
  /\ r \in jajobq
  /\ jajobq' = jajobq \ {r}
  /\ UNCHANGED <<jarunVars, jajobnetVars, agent, ops, crashes>>

\* jajob_icon_job_abort: kill the job, or run its stop command.
AbortMethod(j) == IF j \in StopCommand THEN "ABORT" ELSE "KILL"

\* Row r is stopped in the given way when its method says so, and found late.
StopOrTimeout(r, method) ==
  /\ \E late \in {FALSE} \cup IF r.job \in MayTimeout /\ ~r.timeout
                              THEN {TRUE} ELSE {} :
       db' = [db EXCEPT
                !.status[r.job] = IF r.method = "ABORT" THEN "ABORT" ELSE @,
                !.timeout_flag[r.job] = @ \/ late]
  /\ children' = children \cup IF r.method = "ABORT" THEN {Fork(r.job, method)} ELSE {}
  /\ UNCHANGED faults

\* jajob_icon_job_abort and jajob_icon_job_timeout.
jajob_icon_job(r) ==
  Jajob(r) /\ JobType[r.job] = "JOB" /\ StopOrTimeout(r, AbortMethod(r.job))

\* jarun_icon_reboot with JA_AGENT_METHOD_KILL and jajob_icon_reboot_timeout.
jajob_icon_reboot(r) ==
  Jajob(r) /\ JobType[r.job] = "REBOOT" /\ StopOrTimeout(r, "KILL")

jajob_icon_extjob_kill(r) ==
  /\ Jajob(r) /\ JobType[r.job] = "EXTJOB" /\ r.method = "ABORT"
  /\ db' = IF CommandId[r.job] = "WEEK" THEN db ELSE ja_set_runerr(db, r.job)
  /\ UNCHANGED <<children, faults>>

\* jajob_icon_extjob: the time has not come, or zabbix_sender still runs.
ExtjobWaits(r) ==
  /\ Jajob(r) /\ JobType[r.job] = "EXTJOB" /\ r.method # "ABORT"
  /\ UNCHANGED <<db, children, faults>>

\* jajob_icon_extjob: the time has come, or zabbix_sender has ended.
jajob_icon_extjob(r) ==
  /\ Jajob(r) /\ JobType[r.job] = "EXTJOB" /\ r.method # "ABORT"
  /\ CommandId[r.job] # "WEEK"
  /\ \/ db' = ja_flow(db, r.job, "NORMAL")
     \/ /\ CommandId[r.job] = "ZBXSENDER" /\ r.job \in MayFail
        /\ db' = ja_set_runerr(db, r.job)
  /\ UNCHANGED <<children, faults>>

\* jarun_icon_fwait with JA_AGENT_METHOD_KILL: nothing when the host is locked.
jajob_icon_fwait(r) ==
  /\ Jajob(r) /\ JobType[r.job] = "FWAIT"
  /\ \/ /\ r.method = "ABORT" /\ ~ja_host_lockinfo(db, r.job)
        /\ db' = ja_set_status_job(db, r.job, "ABORT")
        /\ children' = children \cup {Fork(r.job, "KILL")}
        /\ UNCHANGED faults
     \/ r.method = "ABORT" /\ Fault /\ UNCHANGED <<db, children>>
     \/ /\ r.method # "ABORT" \/ ja_host_lockinfo(db, r.job)
        /\ UNCHANGED <<db, children, faults>>

JajobNext ==
  \/ JajobSelect
  \/ \E r \in jajobq :
       \/ jajob_icon_job(r) \/ jajob_icon_reboot(r) \/ jajob_icon_fwait(r)
       \/ jajob_icon_extjob_kill(r) \/ ExtjobWaits(r) \/ jajob_icon_extjob(r)
-----------------------------------------------------------------------------
(* jajobnet: process_jajobnet_summary and process_jajobnet *)

JajobnetStep == UNCHANGED <<jarunVars, jajobVars, agent, ops, crashes>>

jajobnet_summary_ready(d) ==
  [ja_set_status_jobnet(d, MainNet, "READY") EXCEPT !.sum_status = "RUN"]

\* Seeded faults: the jobnets get the status of a stopped icon, or the icons
\* that are ready are forgotten.
KilledWithAbort(d) ==
  [d EXCEPT !.net_status = [n \in Net |-> IF @[n] \in {"RUN", "RUNERR"} THEN "ABORT"
                                          ELSE @[n]]]
KilledButReady(d) ==
  [d EXCEPT !.net_status = [n \in Net |-> IF @[n] \in {"RUN", "RUNERR"} THEN "ENDERR"
                                          ELSE @[n]]]

\* jajobnet_kill: what is ready goes back to BEGIN, jobnet icons and jobnets
\* end in error, and the icons that run are killed.
Killed(d) ==
  [d EXCEPT
     !.status = [j \in Job |->
        IF @[j] = "READY" THEN "BEGIN"
        ELSE IF JobType[j] = "JOBNET" /\ @[j] \in {"RUN", "RUNERR"} THEN "ENDERR"
        ELSE @[j]],
     !.net_status = [n \in Net |-> IF @[n] \in {"RUN", "RUNERR"} THEN "ENDERR"
                                   ELSE @[n]]]

Running(d) == {j \in Job : Killed(d).status[j] = "RUN"}

\* The running icons that are told to stop; locked are the FWAIT icons whose
\* host is locked.  A REBOOT icon is waited for.
KilledJobs(d, locked) ==
  {j \in Running(d) : JobType[j] = "JOB" \/ (JobType[j] = "FWAIT" /\ j \notin locked)}

StoppedExtjobs(d) ==
  {j \in Running(d) : JobType[j] = "EXTJOB" /\ CommandId[j] # "WEEK"}

\* Seeded fault: the summary is not told that everything has stopped.
jajobnet_kill_Silent(d, locked) ==
  [Killed(d) EXCEPT !.status = [j \in Job |-> IF j \in KilledJobs(d, locked) THEN "ABORT"
                                              ELSE @[j]]]

jajobnet_kill(d, locked) ==
  IF Running(d) = {} THEN ja_set_jobstatus(Killed(d), "ENDERR", "ERROR")
  ELSE [Killed(d) EXCEPT
          !.status = [j \in Job |-> IF j \in KilledJobs(d, locked) THEN "ABORT"
                                    ELSE IF j \in StoppedExtjobs(d) THEN "RUNERR"
                                    ELSE @[j]]]

LockedWaits ==
  {j \in Running(db) : JobType[j] = "FWAIT" /\ ja_host_lockinfo(db, j)}

JajobnetSummary ==
  /\ jajobnet = "loop" /\ netq = {} /\ renew = {}
  /\ jajobnet' = "select"
  /\ \/ /\ db.sum_status = "READY"
        /\ db' = jajobnet_summary_ready(db)
        /\ UNCHANGED <<children, faults>>
     \/ /\ db.sum_status = "RUN" /\ db.abort_flag
        /\ \E locked \in SUBSET {j \in Running(db) : JobType[j] = "FWAIT"} :
             /\ LockedWaits \subseteq locked
             /\ db' = jajobnet_kill(db, locked)
             /\ children' = children \cup {Fork(j, "KILL") : j \in KilledJobs(db, locked)}
             /\ IF locked = LockedWaits THEN UNCHANGED faults ELSE Fault
     \/ /\ db.sum_status # "READY" /\ ~(db.sum_status = "RUN" /\ db.abort_flag)
        /\ UNCHANGED <<db, children, faults>>
  /\ JajobnetStep /\ UNCHANGED <<netq, renew>>

JajobnetSelect ==
  /\ jajobnet = "select"
  /\ jajobnet' = "loop"
  /\ netq' = {[net |-> n, status |-> db.net_status[n],
               timeout |-> db.net_timeout[n]] :
                n \in {m \in Net : db.net_status[m] \in {"READY", "RUN", "RUNERR"}}}
  /\ JajobnetStep /\ UNCHANGED <<db, renew, children, faults>>

StartIcons(n) == {j \in JobsOf(n) : JobType[j] = "START"}
EndIcons(n)   == {j \in JobsOf(n) : JobType[j] = "END"}

\* Seeded fault: the start icon is made ready, the jobnet is not set to RUN.
jajobnet_ready_IconOnly(r) ==
  /\ r \in netq /\ r.status = "READY" /\ renew = {}
  /\ netq' = netq \ {r}
  /\ db' = [db EXCEPT !.status = [j \in Job |-> IF j \in StartIcons(r.net)
                                                THEN "READY" ELSE @[j]]]
  /\ JajobnetStep /\ UNCHANGED <<jajobnet, renew, children, faults>>

jajobnet_ready(r) ==
  /\ r \in netq /\ r.status = "READY" /\ renew = {}
  /\ netq' = netq \ {r}
  /\ IF Cardinality(StartIcons(r.net)) = 1
     THEN db' = [ja_set_status_jobnet(db, r.net, "RUN") EXCEPT
                   !.status = [j \in Job |-> IF j \in StartIcons(r.net)
                                             THEN "READY" ELSE @[j]]]
     ELSE db' = ja_set_status_jobnet(db, r.net, "ENDERR")
  /\ JajobnetStep /\ UNCHANGED <<jajobnet, renew, children, faults>>

\* Seeded fault: only a stopped icon counts as failed.
FailedByAbort(d, n) == {j \in JobsOf(n) : d.status[j] = "ABORT"}

\* The icons of jobnet n that jajobnet_run counts in runerr_cnt, and the end
\* icons it counts in end_icons_end.
Failed(d, n)    == {j \in JobsOf(n) : d.status[j] \in {"RUNERR", "ABORT"} /\ j \notin Continue}
Concluded(d, n) == {j \in JobsOf(n) : \/ d.status[j] = "END"
                                      \/ d.status[j] \in {"RUNERR", "ABORT"} /\ j \in Continue}
EndedEnds(d, n) == {j \in EndIcons(n) : d.status[j] = "END"}
Active(d, n)    == {j \in JobsOf(n) : d.status[j] \in {"READY", "RUN"}}

\* The jumps to "error".
BrokenNet(d, n) ==
  \/ \E j \in JobsOf(n) : d.status[j] = "ENDERR"
  \/ Cardinality(EndedEnds(d, n)) > 1 /\ ~d.test_flag
  \/ Cardinality(StartIcons(n)) # 1
  \/ EndIcons(n) = {}
  \/ ~d.test_flag /\ EndedEnds(d, n) # {} /\ Active(d, n) \cup Failed(d, n) # {}

\* Seeded fault: a jobnet is over as soon as its end icon is entered.
FinishedOnEntry(d, n) == \E j \in EndIcons(n) : d.status[j] # "BEGIN"

Finished(d, n) == IF d.test_flag THEN Concluded(d, n) = JobsOf(n) ELSE EndedEnds(d, n) # {}

RenewStatus(d, n, s) ==
  CASE BrokenNet(d, n) -> "ENDERR"
    [] ~BrokenNet(d, n) /\ Finished(d, n) -> "END"
    [] OTHER -> IF s = "RUN" /\ Failed(d, n) # {} THEN "RUNERR"
                ELSE IF s = "RUNERR" /\ Failed(d, n) = {} THEN "RUN" ELSE s

RenewTimeout(d, n) ==
  ~BrokenNet(d, n) /\ \E j \in JobsOf(n) : d.timeout_flag[j]

\* Seeded fault: the row is left in the queue and treated twice.
jajobnet_run_Twice(r) ==
  /\ r \in netq /\ r.status \in {"RUN", "RUNERR"} /\ renew = {}
  /\ renew' = {[net |-> r.net, status |-> RenewStatus(db, r.net, r.status),
                timeout |-> RenewTimeout(db, r.net)]} \ {r}
  /\ JajobnetStep /\ UNCHANGED <<db, jajobnet, netq, children, faults>>

\* jajobnet_run: a plain read of the icons of the jobnet.
jajobnet_run(r) ==
  /\ r \in netq /\ r.status \in {"RUN", "RUNERR"} /\ renew = {}
  /\ netq' = netq \ {r}
  /\ LET new == [net |-> r.net, status |-> RenewStatus(db, r.net, r.status),
                 timeout |-> RenewTimeout(db, r.net)]
     IN renew' = IF new = r THEN {} ELSE {new}
  /\ JajobnetStep /\ UNCHANGED <<db, jajobnet, children, faults>>

\* jajobnet_run_sync, on the jobnet's own row.
SyncNet(d, r) ==
  [ja_set_status_jobnet(d, r.net, r.status) EXCEPT
     !.net_timeout[r.net] = IF r.status = "RUN" THEN r.timeout ELSE @]

\* Seeded faults: an error ends the summary; a timeout is not passed on.
SyncSummaryFinal(d, r) == ja_set_jobstatus(d, r.status, "ERROR")
SyncSummaryOnTime(d, r) ==
  ja_set_jobstatus(d, IF r.status = "END" THEN "END" ELSE "RUN",
                   IF r.status \in {"RUNERR", "ENDERR"} THEN "ERROR" ELSE "NORMAL")

\* ... on the summary of the main jobnet ...
SyncSummary(d, r) ==
  ja_set_jobstatus(d, IF r.status = "END" THEN "END" ELSE "RUN",
                   IF r.status \in {"RUNERR", "ENDERR"} THEN "ERROR"
                   ELSE IF r.timeout THEN "TIMEOUT" ELSE "NORMAL")

\* ... and on the icon that runs a sub-jobnet.
SyncIcon(d, r) ==
  LET i == IconOf(r.net)
  IN CASE r.status = "RUN"    -> [ja_set_run(d, i) EXCEPT !.timeout_flag[i] = r.timeout]
       [] r.status = "END"    -> ja_flow(d, i, "NORMAL")
       [] r.status = "RUNERR" -> ja_set_runerr(d, i)
       [] OTHER               -> ja_set_enderr(d, i)

jajobnet_run_sync(r) ==
  /\ r \in renew
  /\ renew' = {}
  /\ db' = IF r.net = MainNet THEN SyncSummary(SyncNet(db, r), r)
                              ELSE SyncIcon(SyncNet(db, r), r)
  /\ JajobnetStep /\ UNCHANGED <<jajobnet, netq, children, faults>>

JajobnetNext ==
  \/ JajobnetSummary \/ JajobnetSelect
  \/ \E r \in netq : jajobnet_ready(r) \/ jajobnet_run(r)
  \/ \E r \in renew : jajobnet_run_sync(r)
-----------------------------------------------------------------------------
(* The operator: the context menu of a running jobnet in the Job Manager *)

Operator(operation) ==
  /\ operation \in Menu
  /\ ops < MaxOps /\ ops' = ops + 1
  /\ UNCHANGED <<jarunVars, jajobVars, jajobnetVars, children, agent, faults, crashes>>

SetMethod(j, m) == db' = [db EXCEPT !.method_flag[j] = m]
SetReady(j, m)  == db' = [db EXCEPT !.method_flag[j] = m, !.status[j] = "READY"]

\* isContinuousJOB
ContinuesAfterError(j) == db.status[j] = "RUNERR" /\ j \in Continue

SetHold(j) ==
  /\ JobType[j] # "START" /\ db.status[j] = "BEGIN"
  /\ db.method_flag[j] # "WAIT" /\ ~db.abort_flag
  /\ SetMethod(j, "WAIT") /\ Operator("SetHold")

SetUnHold(j) ==
  /\ db.method_flag[j] = "WAIT" /\ db.status[j] \in {"BEGIN", "READY"}
  /\ SetMethod(j, "NORMAL") /\ Operator("SetUnHold")

SetSkip(j) ==
  /\ JobType[j] \notin Unskippable /\ db.status[j] \in {"BEGIN", "READY", "RUNERR"}
  /\ db.method_flag[j] # "SKIP" /\ ~ContinuesAfterError(j) /\ ~db.abort_flag
  /\ IF db.status[j] = "RUNERR" THEN SetReady(j, "SKIP") ELSE SetMethod(j, "SKIP")
  /\ Operator("SetSkip")

\* The menu offers it for a READY icon too; the update is for BEGIN only.
SetUnSkip(j) ==
  /\ db.method_flag[j] = "SKIP" /\ db.status[j] = "BEGIN" /\ ~db.abort_flag
  /\ SetMethod(j, "NORMAL") /\ Operator("SetUnSkip")

SetStop(j) ==
  /\ JobType[j] \in {"JOB", "EXTJOB", "REBOOT", "FWAIT"} /\ db.status[j] = "RUN"
  /\ SetMethod(j, "ABORT") /\ Operator("SetStop")

SetReStart(j) ==
  /\ JobType[j] \in {"JOB", "EXTJOB", "FCOPY", "REBOOT", "REL", "FWAIT"}
  /\ db.status[j] = "RUNERR"
  /\ ~ContinuesAfterError(j) /\ ~db.abort_flag
  /\ SetReady(j, "RERUN") /\ Operator("SetReStart")

StopRunningJobnet ==
  /\ db.sum_status = "RUN" /\ ~db.abort_flag
  /\ db' = [db EXCEPT !.abort_flag = TRUE]
  /\ Operator("StopRunningJobnet")

\* The command jobarg_release: the trapper looks at the hold only.
jatrap_jobrelease(j) ==
  /\ db.sum_status = "RUN" /\ db.method_flag[j] = "WAIT"
  /\ SetMethod(j, "NORMAL") /\ Operator("jobrelease")

OperatorNext ==
  \/ StopRunningJobnet
  \/ \E j \in Job : \/ SetHold(j) \/ SetUnHold(j) \/ SetSkip(j) \/ SetUnSkip(j)
                    \/ SetStop(j) \/ SetReStart(j) \/ jatrap_jobrelease(j)

\* The server goes down and comes up: its processes and children are gone,
\* and nothing at start-up looks at the icons that were running.
ServerRestart ==
  /\ crashes < MaxCrashes /\ crashes' = crashes + 1
  /\ jarunq' = {} /\ jajobq' = {} /\ jajobnet' = "loop" /\ netq' = {} /\ renew' = {}
  /\ children' = {}
  /\ UNCHANGED <<db, agent, ops, faults>>
-----------------------------------------------------------------------------
Next ==
  \/ JarunNext \/ ChildNext \/ JajobNext \/ JajobnetNext
  \/ \E j \in Job : AgentNext(j)
  \/ OperatorNext \/ ServerRestart

Spec == Init /\ [][Next]_vars

\* The loops of the server and of the agents never stop for good, and a wait
\* of an EXTJOB icon is over some day.  Nothing is assumed of the operator, of
\* faults and of restarts.
Fairness ==
  /\ WF_vars(JarunNext) /\ WF_vars(JajobNext) /\ WF_vars(JajobnetNext)
  /\ WF_vars(ChildNext)
  /\ \A j \in AgentIcon : WF_vars(AgentNext(j))
  /\ SF_vars(\E r \in jajobq : jajob_icon_extjob(r))

FairSpec == Spec /\ Fairness
-----------------------------------------------------------------------------
(* Properties *)

\* The summary, which is all that jaboot and the list of the Job Manager look
\* at, agrees with the main jobnet's own row.  (A restart of the server can
\* leave the main jobnet READY when the forced stop is carried out.)
SummaryAgrees ==
  LET main == db.net_status[MainNet]
  IN \/ db.sum_status = "READY"  /\ main = "BEGIN"
     \/ db.sum_status = "RUN"    /\ main \in {"READY", "RUN", "RUNERR", "ENDERR"}
     \/ db.sum_status = "END"    /\ main = "END"
     \/ db.sum_status = "ENDERR" /\ main = "ENDERR"
     \/ db.sum_status = "ENDERR" /\ main \in {"READY", "RUN"} /\ crashes > 0

\* What jajobnet holds of a jobnet between its select and its update: one row
\* each, of which the main jobnet's is never stale, because jajobnet alone
\* writes that row.  Only a restart loses a jobnet that is to be started.
JajobnetRows ==
  LET main == db.net_status[MainNet]
  IN /\ jajobnet = "select" => netq = {} /\ renew = {}
     /\ \A r, q \in netq : r.net = q.net => r = q
     /\ \A r, q \in renew : r = q
     /\ \A r \in renew, q \in netq : r.net # q.net
     /\ \A r \in netq : r.net = MainNet => r.status = main
     /\ \A r \in netq : r.status \in {"READY", "RUN", "RUNERR"}
     /\ \A r \in renew : /\ r.status \in {"RUN", "RUNERR", "END", "ENDERR"}
                         /\ r.net = MainNet => main \in {"RUN", "RUNERR"}
     /\ main = "READY" /\ crashes = 0
          => jajobnet = "select" \/ \E r \in netq : r.net = MainNet

\* A parallel end icon (W) has counted exactly the branches that have ended,
\* so it becomes ready with the last one and never before.
Passed(j) == db.status[j] = "END" \/ (db.status[j] = "RUNERR" /\ j \in Continue)

JoinCountsBranches ==
  \A w \in Job : JobType[w] = "W" =>
    LET passed == {f \in Flow : f.to = w /\ Passed(f.from)}
    IN /\ db.end_count[w] = Cardinality(passed)
       /\ db.status[w] = "BEGIN" => db.end_count[w] < get_boot_count(w) \/ db.abort_flag
       /\ db.status[w] # "BEGIN" => db.end_count[w] = get_boot_count(w)

\* A parallel end icon does not wait for a branch that has ended.
JoinFires ==
  \A w \in Job : JobType[w] = "W" /\ db.status[w] = "BEGIN" =>
    \/ \E f \in Flow : f.to = w /\ ~Passed(f.from)
    \/ db.abort_flag

\* A jobnet that has ended holds no icon that is still to run, or runs, or
\* is being stopped.
EndedNetIsQuiet ==
  \A j \in Job : db.net_status[NetOf[j]] = "END"
                   => db.status[j] \notin {"READY", "RUN", "ABORT"}

\* A forced stop is final: once the summary says ENDERR, no icon of the
\* jobnet is ready or runs.
StoppedJobnetIsQuiet ==
  db.sum_status = "ENDERR" => \A j \in Job : db.status[j] \notin {"READY", "RUN"}

\* A sub-jobnet that is about to start holds nothing of an earlier round.
SubJobnetStartsClean ==
  \A j \in Job : db.net_status[NetOf[j]] = "READY"
                   => db.status[j] = "BEGIN" /\ db.end_count[j] = 0

\* A host is locked for the sake of a REBOOT icon that is under way.
Holders(h) == {j \in Job : /\ JobType[j] = "REBOOT" /\ h \in HostsOf[j]
                           /\ db.status[j] \in {"RUN", "ABORT"}}

LockHasHolder == \A h \in db.locked : Holders(h) # {}

\* No two REBOOT icons have the agent of one host reboot it at a time, unless
\* an answer was lost and a child gave the lock back for a reboot under way.
OneRebootPerHost ==
  \A h \in Host :
    LET rebooting == {j \in Job : /\ JobType[j] = "REBOOT" /\ h \in HostsOf[j]
                                  /\ agent[j] \in {"begin", "run"}}
    IN Cardinality(rebooting) > 1 => faults > 0

\* What the agents do for the icons is what AgentService promises, as the
\* detailed agent of AgentJobs does: the server cannot see the difference.
AgentPhase(s) == CASE s \in {"ok", "ng"}      -> "done"
                   [] s \in {"run", "killed"} -> "run"
                   [] OTHER                  -> s

Phases == [j \in Job |-> AgentPhase(agent[j])]

Service == INSTANCE AgentService WITH agent <- Phases

AgentImplementsService == Service!Spec

\* Only the operator, or a child of the server in the middle of its ja_flow,
\* makes an icon ready in a jobnet that is not running.
BecomesReady(j) == db.status[j] # "READY" /\ db'.status[j] = "READY"

ActivationStep ==
  \A j \in Job : BecomesReady(j) =>
    \/ db'.net_status[NetOf[j]] \in {"RUN", "RUNERR"}
    \/ ops' # ops
    \/ \E c \in children : c.phase = "flow"

ActivationNeedsRunningNet == [][ActivationStep]_vars

\* A failed icon, at any depth, shows in the summary until it is dealt with
\* or its jobnet comes to an end all the same (a stop that comes too late).
FailureIsReported ==
  \A j \in Job \ Continue :
    db.status[j] = "RUNERR" ~> \/ db.job_status = "ERROR" \/ db.status[j] # "RUNERR"
                              \/ db.net_status[NetOf[j]] = "END"

\* An icon that runs for too long shows in the summary.
TimeoutIsReported ==
  \A j \in MayTimeout \cup JobnetIcon :
    db.timeout_flag[j] /\ db.status[j] = "RUN" ~> db.job_status \in {"TIMEOUT", "ERROR"}

\* The jobnet comes to its end, unless it is stopped by force or an icon has
\* failed, and then the summary says so.
JobnetEnds == <>(db.sum_status = "END" \/ db.abort_flag \/ db.job_status = "ERROR")

\* A forced stop comes to its end.
ForcedStopEnds == db.abort_flag ~> db.sum_status \in {"END", "ENDERR"}

\* Neither the agent nor a child of the server has anything to do for icon j.
Unattended(j) == agent[j] = "idle" /\ \A c \in children : c.job # j

\* A stopped icon does not stay in ABORT, unless a restart of the server has
\* lost the child that was to tell the agent, or the stop came too late for a
\* REBOOT or FWAIT icon: nobody reports that the agent has nothing to kill.
AbortEnds ==
  \A j \in AgentIcon :
    db.status[j] = "ABORT" ~>
      \/ db.status[j] # "ABORT" \/ crashes > 0
      \/ JobType[j] # "JOB" /\ Unattended(j)

\* A locked host is given back, unless a restart of the server or an agent that
\* gave up has left nobody to do it.
Orphaned(h) == faults + crashes > 0 /\ \A j \in Holders(h) : Unattended(j)

LockIsGivenBack == \A h \in Host : h \in db.locked ~> h \notin db.locked \/ Orphaned(h)
=============================================================================
