------------------------------ MODULE JaTables ------------------------------
(***************************************************************************)
(* The run tables of one booted jobnet (ja_run_jobnet_summary_table,       *)
(* ja_run_jobnet_table, ja_run_job_table, ja_run_flow_table), the table of *)
(* locked hosts that all jobnets share (ja_host_lock_table), and the       *)
(* library calls of jalibs that rewrite them: ja_set_..., ja_flow and      *)
(* ja_flow_set_status.  A table state is one record db; every call is an   *)
(* operator from a table state to the table state it leaves, so a handler  *)
(* is a composition of calls.                                              *)
(*                                                                         *)
(* The static columns (job_type, inner_jobnet_id, continue_flag,           *)
(* boot_count, link_inner_jobnet_id and the flows) are written once by     *)
(* jaloader and are CONSTANTS here.  Job variables, log rows and           *)
(* timestamps carry no control and are left out.                           *)
(***************************************************************************)
EXTENDS Integers, FiniteSets

CONSTANTS
  Job,          \* inner_job_id of every icon of the booted jobnet
  Net,          \* inner_jobnet_id of the main jobnet and of its sub-jobnets
  MainNet,      \* the main jobnet: its inner_job_id column is 0
  JobType,      \* [Job -> IconType]        job_type
  NetOf,        \* [Job -> Net]             inner_jobnet_id
  LinkNet,      \* [JobnetIcon -> Net]      link_inner_jobnet_id
  Flow,         \* set of [from, to, type]  ja_run_flow_table
  Continue,     \* icons with continue_flag = 1
  Host,         \* the hosts that have an agent
  HostsOf       \* [Job -> SUBSET Host]     the hosts an icon works on

IconType ==
  {"START", "END", "IF", "IFEND", "M", "W", "L", "JOBNET", "JOB", "FWAIT",
   "FCOPY", "REBOOT", "EXTJOB", "VALUE", "CALC", "INFO", "LINK", "TASK", "REL"}

FlowType == {"NORMAL", "TRUE", "FALSE"}

JobnetIcon == {j \in Job : JobType[j] = "JOBNET"}

(* What jaloader guarantees of the rows it writes: a flow joins two icons *)
(* of one jobnet, and no other flow does (the primary key of              *)
(* ja_flow_control_table); a jobnet icon links a sub-jobnet that is       *)
(* neither its own jobnet nor the main one, and that no other icon links; *)
(* the editor offers the option to continue for JOB icons only, and a     *)
(* REBOOT icon has one host.                                              *)
ASSUME NetShape ==
  /\ MainNet \in Net
  /\ JobType \in [Job -> IconType]
  /\ NetOf \in [Job -> Net]
  /\ LinkNet \in [JobnetIcon -> Net \ {MainNet}]
  /\ \A j \in JobnetIcon : LinkNet[j] # NetOf[j]
  /\ \A j, k \in JobnetIcon : LinkNet[j] = LinkNet[k] => j = k
  /\ \A n \in Net \ {MainNet} : \E j \in JobnetIcon : LinkNet[j] = n
  /\ Flow \subseteq [from : Job, to : Job, type : FlowType]
  /\ \A f \in Flow : NetOf[f.from] = NetOf[f.to]
  /\ \A f, g \in Flow : f.from = g.from /\ f.to = g.to => f = g
  /\ Continue \subseteq {j \in Job : JobType[j] = "JOB"}
  /\ HostsOf \in [Job -> SUBSET Host]
  /\ \A j \in Job : JobType[j] = "REBOOT" => \E h \in Host : HostsOf[j] = {h}

JobStatus == {"BEGIN", "READY", "RUN", "END", "RUNERR", "ENDERR", "ABORT"}
NetStatus == {"BEGIN", "READY", "RUN", "END", "RUNERR", "ENDERR"}
Method    == {"NORMAL", "WAIT", "SKIP", "ABORT", "RERUN"}
SummaryJobStatus == {"NORMAL", "TIMEOUT", "ERROR"}

DB == [status       : [Job -> JobStatus],       \* ja_run_job_table
       test_flag    : BOOLEAN,                  \* the same in every row
       end_count    : [Job -> Nat],
       method_flag  : [Job -> Method],
       timeout_flag : [Job -> BOOLEAN],
       net_status   : [Net -> NetStatus],       \* ja_run_jobnet_table
       net_timeout  : [Net -> BOOLEAN],
       sum_status   : NetStatus,                \* ja_run_jobnet_summary_table
       job_status   : SummaryJobStatus,
       abort_flag   : BOOLEAN,
       locked       : SUBSET Host]              \* ja_host_lock_table

JobsOf(n) == {j \in Job : NetOf[j] = n}

\* The inner_job_id column of a sub-jobnet's row: the icon that runs it.
IconOf(n) == CHOOSE j \in JobnetIcon : LinkNet[j] = n

\* jaloader: the number of flows that enter the icon.
get_boot_count(j) == Cardinality({f \in Flow : f.to = j})
-----------------------------------------------------------------------------
(* jastatus.c *)

ja_set_status_job(d, j, s) == [d EXCEPT !.status[j] = s]

ja_set_status_jobnet(d, n, s) == [d EXCEPT !.net_status[n] = s]

\* summary status and job_status; the session rows it deletes at the end
\* of the jobnet belong to the agentless icons.
ja_set_jobstatus(d, s, js) == [d EXCEPT !.sum_status = s, !.job_status = js]

ja_set_run(d, j) == ja_set_status_job(d, j, "RUN")

ja_set_end(d, j) == ja_set_status_job(d, j, "END")

ja_set_enderr(d, j) == ja_set_status_job(d, j, "ENDERR")
-----------------------------------------------------------------------------
(* jahost.c: a REBOOT icon locks its host, and other icons wait for it *)

ja_host_lockinfo(d, j) == HostsOf[j] \cap d.locked # {}

ja_host_lock(d, j) == [d EXCEPT !.locked = @ \cup HostsOf[j]]

ja_host_unlock(d, j) == [d EXCEPT !.locked = @ \ HostsOf[j]]
-----------------------------------------------------------------------------
(* jaflow.c *)

\* The flows out of j that a flow of the given type follows.
Follows(j, type) ==
  {f \in Flow : /\ f.from = j
                /\ \/ f.type = type
                   \/ type = "NORMAL" /\ f.type \in {"TRUE", "FALSE"}}

Targets(j, type) == {f.to : f \in Follows(j, type)}

\* ja_flow_set_status, seen from a row of the entered icon e that was read
\* with status s: an icon that has ended is reset and entered again, except
\* an end icon; in a test run an icon is entered once only.
MayEnter(d, e, s) ==
  \/ s = "BEGIN"
  \/ s \in {"END", "RUNERR"} /\ ~d.test_flag /\ JobType[e] # "END"

\* The entry is an error of the icon the flow comes from.
Refused(d, e, s) == ~MayEnter(d, e, s) /\ ~d.test_flag

CountUp(s, c) == IF s = "BEGIN" THEN c + 1 ELSE 1

\* Seeded faults: the icon is ready one branch too early, or the end of a
\* branch waits for both sides.
EnteredStatusEarly(e, c) ==
  IF JobType[e] \in {"IFEND", "L"} \/ get_boot_count(e) <= c + 1
  THEN "READY" ELSE "BEGIN"
EnteredStatusJoins(e, c) ==
  IF JobType[e] = "L" \/ get_boot_count(e) <= c THEN "READY" ELSE "BEGIN"

EnteredStatus(e, c) ==
  IF JobType[e] \in {"IFEND", "L"} \/ get_boot_count(e) <= c
  THEN "READY" ELSE "BEGIN"

\* Seeded fault: the sub-jobnet is not reset.
ResetsNothing(e, c) == {}

\* A jobnet icon that becomes ready resets every icon of its sub-jobnet.
Resets(e, c) == IF JobType[e] = "JOBNET" /\ EnteredStatus(e, c) = "READY"
                THEN JobsOf(LinkNet[e]) ELSE {}

\* The two updates of ja_flow_set_status for the set E of icons, where s and
\* c are the status and end_count columns its select returned.
EnterAll(d, E, s, c) ==
  LET up(e)  == CountUp(s[e], c[e])
      reset  == UNION {Resets(e, up(e)) : e \in E}
  IN [d EXCEPT
        !.status    = [j \in Job |-> IF j \in E THEN EnteredStatus(j, up(j))
                                     ELSE IF j \in reset THEN "BEGIN" ELSE @[j]],
        !.end_count = [j \in Job |-> IF j \in E THEN up(j)
                                     ELSE IF j \in reset THEN 0 ELSE @[j]]]

\* ja_flow_set_status(j, e) for every e of E in one transaction.  An entry
\* that is refused puts the icon j itself to ENDERR.
ja_flow_set_status(d, j, E) ==
  LET entered == EnterAll(d, {e \in E : MayEnter(d, e, d.status[e])},
                          d.status, d.end_count)
  IN IF \E e \in E : Refused(d, e, d.status[e])
     THEN ja_set_enderr(entered, j) ELSE entered

JobnetRunning(d, j) == d.net_status[NetOf[j]] \in {"RUN", "RUNERR"}

HasFlow(j) == \E f \in Flow : f.from = j

\* ja_flow up to its last call: the icons behind j are entered.
FlowOut(d, j, type) == ja_flow_set_status(d, j, Targets(j, type))

\* ja_flow with msg_flag = 1: the icon has ended normally.  In a jobnet that
\* is stopped it ends in error and nothing is entered.
ja_flow(d, j, type) ==
  IF ~HasFlow(j) THEN ja_set_enderr(d, j)
  ELSE IF ~JobnetRunning(d, j) THEN ja_set_status_job(d, j, "RUNERR")
  ELSE ja_set_end(FlowOut(d, j, type), j)

\* ja_set_runerr goes on to the icons behind j (ja_flow, msg_flag = 0) when
\* the icon has the option to continue; either way j is left in RUNERR.
ContinuesOn(j) == j \in Continue /\ JobType[j] # "IF"

ja_set_runerr(d, j) ==
  IF ContinuesOn(j) /\ HasFlow(j) /\ JobnetRunning(d, j)
  THEN ja_set_status_job(FlowOut(d, j, "NORMAL"), j, "RUNERR")
  ELSE ja_set_status_job(IF ContinuesOn(j) /\ ~HasFlow(j)
                         THEN ja_set_enderr(d, j) ELSE d, j, "RUNERR")
=============================================================================
