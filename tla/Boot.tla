-------------------------------- MODULE Boot --------------------------------
(***************************************************************************)
(* From the schedule to a jobnet that runs and is forgotten again:         *)
(* jaloader registers the starts that are due soon (the rows of            *)
(* ja_run_jobnet_table and ja_run_jobnet_summary_table), jatrapper and the *)
(* Job Manager register requests, jaboot starts what is due and removes    *)
(* what ended long ago, and the operator stops, holds, releases, moves or  *)
(* starts a row.  All are processes of their own that share the tables;    *)
(* a transaction is one step, and jaboot and jaloader work through rows    *)
(* they have selected before.                                              *)
(*                                                                         *)
(* A Row stands for what has one identity: a planned start (jobnet,        *)
(* schedule and initial_scheduled_time) or one request.  Time is counted   *)
(* in minutes; 0 is no time.  What happens inside a jobnet is the subject  *)
(* of JobScheduler: here its start icon and whether the rest has begun.    *)
(***************************************************************************)
EXTENDS Integers, FiniteSets

CONSTANTS
  Row, Jobnet, ScheduleId,
  JobnetOf,        \* jobnet_id of a row
  RunType,         \* run_type of a row
  Schedule,        \* schedule_id of a planned start
  Time,            \* initial_scheduled_time of a row
  MultipleStartUp, \* multiple_start_up of a row
  Invalid,         \* rows whose jobnet or sub-jobnet has no valid definition
  Deterrence,      \* requests that ask for the check of a double registration
  LoadSpan,        \* JOBNET_LOAD_SPAN
  KeepSpan,        \* JOBNET_KEEP_SPAN
  StartTime,       \* the time at which the behaviour begins
  MaxTime,         \* bound: the time at which it ends
  MaxPass,         \* minutes that a pass of jaloader may take
  MaxOps           \* bound: operations of the operator, and restarts

PlannedRow   == {r \in Row : RunType[r] = "NORMAL"}
ImmediateRow == {r \in Row : RunType[r] = "IMMEDIATE"}
TimedRow     == {r \in Row : RunType[r] = "SCHEDULED"}

ASSUME BootShape ==
  /\ JobnetOf \in [Row -> Jobnet]
  /\ RunType \in [Row -> {"NORMAL", "IMMEDIATE", "SCHEDULED"}]
  /\ Schedule \in [PlannedRow -> ScheduleId]
  /\ Time \in [Row -> Nat] /\ \A r \in Row : Time[r] = 0 <=> r \in ImmediateRow
  /\ MultipleStartUp \in [Row -> {"YES", "SKIP", "DELAY"}]
  /\ Invalid \subseteq Row /\ Deterrence \subseteq TimedRow
  /\ LoadSpan \in Nat /\ KeepSpan \in Nat /\ MaxPass \in Nat
  /\ StartTime \in Nat /\ StartTime > KeepSpan /\ MaxTime \in Nat /\ StartTime <= MaxTime
  /\ MaxOps \in Nat

VARIABLES
  now,       \* the clock
  sum,       \* ja_run_jobnet_summary_table
  net,       \* ja_run_jobnet_table: status of the main jobnet
  start,     \* ja_run_job_table: status of its start icon
  work,      \* rows whose icons after the start icon have begun
  valid,     \* ja_schedule_control_table: schedules with valid_flag ON
  loader,    \* jaloader: the date of its pass and the rows left in it
  boot,      \* jaboot: what it does, its date and the rows left
  trap,      \* requests that jatrapper has checked and not registered yet
  delayed,   \* steps done of a delayed start
  regs,      \* how often a row has been registered
  starts,    \* how often jaboot has started it
  by,        \* what has made it active
  stopped,   \* rows stopped before their start
  raced,     \* rows stopped or held while jaboot had selected them
  overtaken, \* delayed starts that took back the READY of the start icon
  ops

tables == <<sum, net, start, work, valid>>
ghosts == <<regs, starts, by, stopped, raced, overtaken>>
vars   == <<now, sum, net, start, work, valid, loader, boot, trap, delayed, regs,
            starts, by, stopped, raced, overtaken, ops>>

SumStatus == {"NONE", "BEGIN", "READY", "RUN", "END", "ENDERR"}
NetState  == SumStatus \cup {"RUNERR"}
Summary   == [status : SumStatus, load : {"NORMAL", "DELAY", "SKIP", "ERROR"},
              pending : {"NONE", "ON", "OFF"}, abort : BOOLEAN,
              sched : Nat, end : Nat]
NoSummary == [status |-> "NONE", load |-> "NORMAL", pending |-> "NONE",
              abort |-> FALSE, sched |-> 0, end |-> 0]

\* A pass of jaloader or jaboot that is over forgets its date.
Rest(pass) == IF pass.todo = {} THEN [pass EXCEPT !.date = 0] ELSE pass

\* A row as a select of jaboot has copied it.
Selected(r) == [row |-> r, sum |-> sum[r]]

Active(r) == sum[r].status \in {"READY", "RUN"}

\* The rows respect the types of their tables.
TypeOK ==
  /\ now \in StartTime..MaxTime
  /\ sum \in [Row -> Summary]
  /\ net \in [Row -> NetState]
  /\ start \in [Row -> {"BEGIN", "READY", "END", "RUNERR"}]
  /\ work \in SUBSET Row /\ valid \in SUBSET ScheduleId
  /\ loader \in [date : Nat, todo : SUBSET PlannedRow]
  /\ boot \in [does : {"purge", "boot"}, date : Nat,
               todo : SUBSET [row : Row, sum : Summary]]
  /\ trap \in SUBSET TimedRow
  /\ delayed \in [Row -> 0..3]
  /\ regs \in [Row -> Nat] /\ starts \in [Row -> Nat]
  /\ by \in [Row -> {"none", "boot", "late", "operator"}]
  /\ stopped \in SUBSET Row /\ raced \in SUBSET Row /\ overtaken \in SUBSET Row
  /\ ops \in 0..MaxOps

Init ==
  /\ now = StartTime
  /\ sum = [r \in Row |-> NoSummary]
  /\ net = [r \in Row |-> "NONE"]
  /\ start = [r \in Row |-> "BEGIN"]
  /\ work = {} /\ valid = ScheduleId
  /\ loader = [date |-> 0, todo |-> {}]
  /\ boot = [does |-> "boot", date |-> 0, todo |-> {}]
  /\ trap = {}
  /\ delayed = [r \in Row |-> 0]
  /\ regs = [r \in Row |-> 0] /\ starts = [r \in Row |-> 0]
  /\ by = [r \in Row |-> "none"]
  /\ stopped = {} /\ raced = {} /\ overtaken = {}
  /\ ops = 0

\* The clock goes on at any moment, but a pass of jaloader takes at most
\* MaxPass minutes and a delayed start less than one.
Tick ==
  /\ now < MaxTime
  /\ loader.todo # {} => now - loader.date < MaxPass
  /\ \A r \in Row : delayed[r] = 0
  /\ now' = now + 1
  /\ UNCHANGED <<tables, loader, boot, trap, delayed, ghosts, ops>>
-----------------------------------------------------------------------------
(* Registration: jaloader, jatrapper and the Job Manager *)

Registration == UNCHANGED <<now, boot, delayed, starts, by, stopped, raced, overtaken, ops>>

\* jobnet_load_schedule with get_search_date: the starts from now on.
InWindow(r, date) == date <= Time[r] /\ Time[r] <= date + LoadSpan

jobnet_load_schedule ==
  /\ loader.todo = {}
  /\ loader' = [date |-> now,
                todo |-> {r \in PlannedRow : Schedule[r] \in valid /\ InWindow(r, now)}]
  /\ loader'.todo # {}
  /\ UNCHANGED <<tables, trap, regs>> /\ Registration

\* The new row of the tables, not started.
Registered(r) == [NoSummary EXCEPT !.status = "BEGIN", !.sched = Time[r]]

\* load_jobnet_definition: a row that is there already is passed over; an
\* invalid definition switches the schedule off.
load_jobnet_definition(r) ==
  /\ r \in loader.todo
  /\ loader' = Rest([loader EXCEPT !.todo = @ \ {r}])
  /\ \/ /\ net[r] # "NONE"
        /\ UNCHANGED <<tables, regs>>
     \/ /\ net[r] = "NONE" /\ r \in Invalid
        /\ valid' = valid \ {Schedule[r]}
        /\ UNCHANGED <<sum, net, start, work, regs>>
     \/ /\ net[r] = "NONE" /\ r \notin Invalid
        /\ net' = [net EXCEPT ![r] = "BEGIN"]
        /\ sum' = [sum EXCEPT ![r] = Registered(r)]
        /\ start' = [start EXCEPT ![r] = "BEGIN"]
        /\ regs' = [regs EXCEPT ![r] = @ + 1]
        /\ UNCHANGED <<work, valid>>
  /\ UNCHANGED trap /\ Registration

\* A request: only the row of the jobnet; jaloader adds the rest.
Insert(r) ==
  /\ net' = [net EXCEPT ![r] = "BEGIN"]
  /\ sum' = [sum EXCEPT ![r].sched = Time[r]]
  /\ regs' = [regs EXCEPT ![r] = 1]
  /\ UNCHANGED <<start, work, valid, loader>> /\ Registration

\* InsertRunJobnet of the Job Manager, and a request without a start time.
InsertRunJobnet(r) == r \in ImmediateRow /\ regs[r] = 0 /\ Insert(r) /\ UNCHANGED trap

DoubleRegistration(r) ==
  \E q \in TimedRow : net[q] # "NONE" /\ JobnetOf[q] = JobnetOf[r] /\ sum[q].sched = Time[r]

\* evaluate_jobnetrun: the checks ...
evaluate_jobnetrun(r) ==
  /\ r \in TimedRow \ trap /\ regs[r] = 0 /\ Time[r] > now
  /\ ~(r \in Deterrence /\ DoubleRegistration(r))
  /\ trap' = trap \cup {r}
  /\ UNCHANGED <<tables, loader, regs>> /\ Registration

\* ... and the insert, in the same transaction but without a lock on what
\* the checks have read.
register_db_table(r) == r \in trap /\ trap' = trap \ {r} /\ Insert(r)

jobnet_load_immediate(r) ==
  /\ loader.todo = {}
  /\ r \notin PlannedRow /\ net[r] = "BEGIN" /\ sum[r].status = "NONE"
  /\ IF r \in Invalid
     THEN /\ net' = [net EXCEPT ![r] = "ENDERR"]
          /\ sum' = [sum EXCEPT ![r].status = "ENDERR", ![r].load = "ERROR", ![r].end = now]
     ELSE /\ sum' = [sum EXCEPT ![r] = Registered(r)]
          /\ UNCHANGED net
  /\ UNCHANGED <<start, work, valid, loader, trap, regs>> /\ Registration

RegistrationNext ==
  \/ jobnet_load_schedule
  \/ \E r \in Row : \/ load_jobnet_definition(r) \/ jobnet_load_immediate(r)
                    \/ InsertRunJobnet(r) \/ evaluate_jobnetrun(r) \/ register_db_table(r)
-----------------------------------------------------------------------------
(* jaboot *)

Jaboot == UNCHANGED <<now, loader, trap, delayed, stopped, raced, overtaken, ops, regs>>

Done(s) == boot' = IF boot.does = "boot" THEN Rest([boot EXCEPT !.todo = @ \ {s}])
                                         ELSE [boot EXCEPT !.todo = @ \ {s}]

\* Seeded fault: a row is removed a minute too early.
Expired_Early(r) == sum[r].status \in {"END", "ENDERR"} /\ sum[r].end <= now - KeepSpan + 1

\* main_jaboot_loop takes the date and selects what jobnet_purge removes.
Expired(r) == sum[r].status \in {"END", "ENDERR"} /\ sum[r].end <= now - KeepSpan

JabootPurge ==
  /\ boot.does = "boot" /\ boot.todo = {}
  /\ boot' = [does |-> "purge", date |-> now,
              todo |-> {Selected(r) : r \in {q \in Row : Expired(q)}}]
  /\ UNCHANGED <<tables, starts, by>> /\ Jaboot

\* jobnet_purge with get_running_jobs.
jobnet_purge(s) ==
  /\ boot.does = "purge" /\ s \in boot.todo
  /\ Done(s)
  /\ IF s.sum.status = "ENDERR" /\ start[s.row] = "READY"
     THEN UNCHANGED <<sum, net, start, work>>
     ELSE /\ sum' = [sum EXCEPT ![s.row] = NoSummary]
          /\ net' = [net EXCEPT ![s.row] = "NONE"]
          /\ start' = [start EXCEPT ![s.row] = "BEGIN"]
          /\ work' = work \ {s.row}
  /\ UNCHANGED <<valid, starts, by>> /\ Jaboot

\* Seeded faults: a hold is ignored; a row that had to wait is not
\* looked at again.
Due_Held(r) == sum[r].status = "BEGIN" /\ sum[r].sched <= boot.date
Due_Once(r) == /\ sum[r].status = "BEGIN" /\ sum[r].pending # "ON"
               /\ sum[r].sched <= boot.date /\ sum[r].load # "DELAY"

\* jobnet_boot selects what is due and not held.
Due(r) == sum[r].status = "BEGIN" /\ sum[r].pending # "ON" /\ sum[r].sched <= boot.date

JabootSelect ==
  /\ boot.does = "purge" /\ boot.todo = {}
  /\ boot' = Rest([boot EXCEPT !.does = "boot",
                               !.todo = {Selected(r) : r \in {q \in Row : Due(q)}}])
  /\ UNCHANGED <<tables, starts, by>> /\ Jaboot

\* The next of the selected rows, in the order of their scheduled time.
NextRow(s) == /\ boot.does = "boot" /\ s \in boot.todo
              /\ \A q \in boot.todo : s.sum.sched <= q.sum.sched

\* The start is late: the check uses the values that were selected.
Late(s) == /\ s.row \notin ImmediateRow
           /\ s.sum.sched < boot.date
           /\ s.sum.load # "DELAY" /\ s.sum.pending = "NONE"

\* Seeded fault: a jobnet that is only READY does not count.
get_running_jobnet_Run(s) ==
  {q \in Row : JobnetOf[q] = JobnetOf[s.row] /\ sum[q].status = "RUN"}

get_running_jobnet(s) == {q \in Row : JobnetOf[q] = JobnetOf[s.row] /\ Active(q)}

\* What the row's multiple_start_up asks for.
Multiple(s) == IF get_running_jobnet(s) = {} THEN "YES" ELSE MultipleStartUp[s.row]

error_state_jobnet(s) ==
  /\ NextRow(s) /\ Late(s)
  /\ Done(s)
  /\ start' = [start EXCEPT ![s.row] = "RUNERR"]
  /\ net' = [net EXCEPT ![s.row] = "RUNERR"]
  /\ sum' = [sum EXCEPT ![s.row].status = "RUN", ![s.row].load = "DELAY"]
  /\ by' = [by EXCEPT ![s.row] = "late"]
  /\ UNCHANGED <<work, valid, starts>> /\ Jaboot

\* Seeded fault: the two columns of the summary are swapped.
skip_state_jobnet_Swapped(s) ==
  /\ NextRow(s) /\ ~Late(s) /\ Multiple(s) = "SKIP"
  /\ Done(s)
  /\ net' = [net EXCEPT ![s.row] = "END"]
  /\ sum' = [sum EXCEPT ![s.row].status = "SKIP", ![s.row].end = now]
  /\ UNCHANGED <<start, work, valid, starts, by>> /\ Jaboot

skip_state_jobnet(s) ==
  /\ NextRow(s) /\ ~Late(s) /\ Multiple(s) = "SKIP"
  /\ Done(s)
  /\ net' = [net EXCEPT ![s.row] = "END"]
  /\ sum' = [sum EXCEPT ![s.row].status = "END", ![s.row].load = "SKIP", ![s.row].end = now]
  /\ UNCHANGED <<start, work, valid, starts, by>> /\ Jaboot

delay_state_jobnet(s) ==
  /\ NextRow(s) /\ ~Late(s) /\ Multiple(s) = "DELAY"
  /\ Done(s)
  /\ sum' = [sum EXCEPT ![s.row].load = "DELAY"]
  /\ UNCHANGED <<net, start, work, valid, starts, by>> /\ Jaboot

start_jobnet(s) ==
  /\ NextRow(s) /\ ~Late(s) /\ Multiple(s) = "YES"
  /\ Done(s)
  /\ sum' = [sum EXCEPT ![s.row].status = "READY", ![s.row].load = "NORMAL"]
  /\ starts' = [starts EXCEPT ![s.row] = @ + 1]
  /\ by' = [by EXCEPT ![s.row] = "boot"]
  /\ UNCHANGED <<net, start, work, valid>> /\ Jaboot

\* A restart of the server: the rest of the pass is forgotten.
JabootRestart ==
  /\ boot.todo # {} /\ ops < MaxOps
  /\ boot' = [does |-> "boot", date |-> 0, todo |-> {}]
  /\ ops' = ops + 1
  /\ UNCHANGED <<now, tables, loader, trap, delayed, ghosts>>

JabootNext ==
  \/ JabootPurge \/ JabootSelect
  \/ \E s \in boot.todo : \/ jobnet_purge(s) \/ error_state_jobnet(s) \/ skip_state_jobnet(s)
                          \/ delay_state_jobnet(s) \/ start_jobnet(s)
-----------------------------------------------------------------------------
(* The jobnet itself, as far as its main row shows it *)

Jobnets == UNCHANGED <<now, valid, loader, boot, trap, delayed, ghosts, ops>>

jajobnet_summary_ready(r) ==
  /\ sum[r].status = "READY"
  /\ net' = [net EXCEPT ![r] = "READY"]
  /\ sum' = [sum EXCEPT ![r].status = "RUN", ![r].end = 0]
  /\ UNCHANGED <<start, work>> /\ Jobnets

\* Seeded fault: the start icon is forgotten.
jajobnet_ready_NoIcon(r) ==
  /\ net[r] = "READY"
  /\ net' = [net EXCEPT ![r] = "RUN"]
  /\ UNCHANGED <<sum, start, work>> /\ Jobnets

jajobnet_ready(r) ==
  /\ net[r] = "READY"
  /\ net' = [net EXCEPT ![r] = "RUN"]
  /\ start' = [start EXCEPT ![r] = "READY"]
  /\ UNCHANGED <<sum, work>> /\ Jobnets

\* jarun runs the start icon, and the flow goes on.
JarunStart(r) ==
  /\ start[r] = "READY" /\ net[r] = "RUN"
  /\ start' = [start EXCEPT ![r] = "END"]
  /\ work' = work \cup {r}
  /\ UNCHANGED <<sum, net>> /\ Jobnets

\* jajobnet_run: the last icon has ended, or one has failed.
JobnetEnds(r) ==
  /\ net[r] = "RUN" /\ r \in work
  /\ work' = work \ {r}
  /\ net' = [net EXCEPT ![r] = "END"]
  /\ sum' = [sum EXCEPT ![r].status = "END", ![r].end = now]
  /\ UNCHANGED start /\ Jobnets

JobnetFails(r) ==
  /\ net[r] = "RUN" /\ r \in work
  /\ work' = work \ {r}
  /\ net' = [net EXCEPT ![r] = "RUNERR"]
  /\ UNCHANGED <<sum, start>> /\ Jobnets

jajobnet_kill(r) ==
  /\ sum[r].status = "RUN" /\ sum[r].abort
  /\ net' = [net EXCEPT ![r] = IF @ \in {"RUN", "RUNERR"} THEN "ENDERR" ELSE @]
  /\ start' = [start EXCEPT ![r] = IF @ = "READY" THEN "BEGIN" ELSE @]
  /\ work' = work \ {r}
  /\ sum' = [sum EXCEPT ![r].status = "ENDERR", ![r].end = now]
  /\ Jobnets

JobnetNext(r) ==
  \/ jajobnet_summary_ready(r) \/ jajobnet_ready(r) \/ JarunStart(r)
  \/ JobnetEnds(r) \/ jajobnet_kill(r)
-----------------------------------------------------------------------------
(* The operator: the menu of the list of jobnets in the Job Manager *)

Operates == /\ ops < MaxOps /\ ops' = ops + 1
            /\ UNCHANGED <<now, valid, loader, boot, trap, work, regs, starts>>

\* The second half of an operation: it does not count against the bound.
GoesOn == UNCHANGED <<now, valid, loader, boot, trap, work, regs, starts, stopped, raced, ops>>

\* jaboot has a copy of the row.
Held(r) == boot.does = "boot" /\ \E s \in boot.todo : s.row = r

Race(r) == raced' = IF Held(r) THEN raced \cup {r} ELSE raced

StopRunningJobnet(r) ==
  /\ sum[r].status = "RUN" /\ ~sum[r].abort
  /\ sum' = [sum EXCEPT ![r].abort = TRUE]
  /\ Operates /\ UNCHANGED <<net, start, delayed, by, stopped, raced, overtaken>>

\* Only the summary: the row of the jobnet keeps the status BEGIN.
StopUnexecutedJobnet(r) ==
  /\ sum[r].status = "BEGIN"
  /\ sum' = [sum EXCEPT ![r].status = "ENDERR", ![r].end = now]
  /\ stopped' = stopped \cup {r}
  /\ Race(r)
  /\ Operates /\ UNCHANGED <<net, start, delayed, by, overtaken>>

SetReserveJobnet(r) ==
  /\ sum[r].status = "BEGIN" /\ sum[r].pending # "ON"
  /\ sum' = [sum EXCEPT ![r].pending = "ON"]
  /\ Race(r)
  /\ Operates /\ UNCHANGED <<net, start, delayed, by, stopped, overtaken>>

SetReleaseJobnet(r) ==
  /\ sum[r].status = "BEGIN" /\ sum[r].pending = "ON"
  /\ sum' = [sum EXCEPT ![r].pending = "OFF"]
  /\ GoesOn /\ UNCHANGED <<net, start, delayed, by, overtaken>>

SetScheduledTime(r, t) ==
  /\ sum[r].status = "BEGIN" /\ net[r] = "BEGIN"
  /\ sum' = [sum EXCEPT ![r].sched = t]
  /\ Operates /\ UNCHANGED <<net, start, delayed, by, stopped, raced, overtaken>>

\* A late start is started after all: the menu offers it for a row that the
\* list shows as late and running, ...
DelayedContextMenu(r) ==
  /\ delayed[r] = 0 /\ sum[r].status = "RUN" /\ sum[r].load = "DELAY"
  /\ delayed' = [delayed EXCEPT ![r] = 1]
  /\ Operates /\ UNCHANGED <<sum, net, start, by, stopped, raced, overtaken>>

\* ... and AllDelayedCommandBinding_Executed carries it out by three
\* transactions without a condition.
SetJaRunJobnetTableStatus(r) ==
  /\ delayed[r] = 1
  /\ net' = [net EXCEPT ![r] = "BEGIN"]
  /\ delayed' = [delayed EXCEPT ![r] = 2]
  /\ GoesOn /\ UNCHANGED <<sum, start, by, overtaken>>

SetJaRunJobnetSummaryTableStatus(r) ==
  /\ delayed[r] = 2
  /\ sum' = [sum EXCEPT ![r].status = "READY", ![r].load = "NORMAL"]
  /\ by' = [by EXCEPT ![r] = "operator"]
  /\ delayed' = [delayed EXCEPT ![r] = 3]
  /\ GoesOn /\ UNCHANGED <<net, start, overtaken>>

SetJaRunJobTableStatus(r) ==
  /\ delayed[r] = 3
  /\ start' = [start EXCEPT ![r] = "BEGIN"]
  /\ overtaken' = IF start[r] = "READY" THEN overtaken \cup {r} ELSE overtaken
  /\ delayed' = [delayed EXCEPT ![r] = 0]
  /\ GoesOn /\ UNCHANGED <<sum, net, by>>

DelayedStart(r) ==
  \/ SetJaRunJobnetTableStatus(r) \/ SetJaRunJobnetSummaryTableStatus(r)
  \/ SetJaRunJobTableStatus(r)

OperatorNext(r) ==
  \/ StopRunningJobnet(r) \/ StopUnexecutedJobnet(r)
  \/ SetReserveJobnet(r) \/ SetReleaseJobnet(r) \/ DelayedContextMenu(r)
  \/ \E t \in now..MaxTime : SetScheduledTime(r, t)
-----------------------------------------------------------------------------
Next ==
  \/ Tick \/ RegistrationNext \/ JabootNext \/ JabootRestart
  \/ \E r \in Row : JobnetNext(r) \/ JobnetFails(r) \/ OperatorNext(r) \/ DelayedStart(r)

Spec == Init /\ [][Next]_vars

\* jaboot and jajobnet run in endless loops, jobs come to an end, and the
\* Job Manager completes a delayed start.  Nothing forces a registration, an
\* operation, a failure or a tick.
Fairness ==
  /\ WF_vars(JabootNext)
  /\ \A r \in Row : WF_vars(JobnetNext(r)) /\ WF_vars(DelayedStart(r))

FairSpec == Spec /\ Fairness
-----------------------------------------------------------------------------
\* Two rows of a jobnet that do not allow multiple start-up are active at
\* the same time only when one of them came too late (error_state_jobnet
\* does not ask what is running) or was started by the operator.
OneAtATime ==
  \A r, q \in Row :
    r # q /\ JobnetOf[r] = JobnetOf[q] /\ Active(r) /\ Active(q)
      => \/ "YES" \in {MultipleStartUp[r], MultipleStartUp[q]}
         \/ {by[r], by[q]} \cap {"late", "operator"} # {}

\* A jobnet that was stopped before its start, or is held, does not become
\* active, unless jaboot had selected it when the operator acted.
OperatorIsObeyed ==
  \A r \in Row : Active(r) /\ (r \in stopped \/ sum[r].pending = "ON") => r \in raced

\* A planned start is registered once and started once, although its row is
\* removed KeepSpan after its end and looked up again while it is in the
\* window of jaloader.
PlannedOnce == \A r \in Row : regs[r] <= 1 /\ starts[r] <= 1

\* A start that waits for another jobnet of its name does not wait for ever,
\* unless it is held or what it waits for needs the operator.
Waits(r) ==
  /\ sum[r].status = "BEGIN" /\ sum[r].load = "DELAY"
  /\ sum[r].pending # "ON" /\ sum[r].sched <= now
  /\ ~\E q \in Row : JobnetOf[q] = JobnetOf[r] /\ Active(q) /\ (net[q] = "RUNERR" \/ q \in overtaken)

WaitingIsStarted == \A r \in Row : []<>~Waits(r)

\* A jobnet that jaboot or the operator has started gets past its start icon
\* or is stopped, unless the last transaction of a delayed start took the
\* READY of the start icon back.
StartedRuns ==
  \A r \in Row : sum[r].status = "READY"
                   ~> (r \in work \/ sum[r].status = "ENDERR" \/ r \in overtaken)
=============================================================================
