# Job Arranger: a TLA+ verification project

Job Arranger runs *jobnets*: graphs of icons (jobs, branches, joins, loops, file
waits, file copies, reboots, nested jobnets ...).  A server made of several processes
registers and starts jobnets by schedule and moves their icons through status tables in an
SQL database; agents on other hosts run the commands, session processes run commands on
hosts without an agent; an operator watches and interferes from the Job Manager.
The processes share nothing but tables, and most of what is hard about the
program is what they do to the same rows at the same time.

Contents: [inventory](#inventory) · [modules](#modules-and-the-code) ·
[runs](#runs) · [bounds](#bounds) · [fairness](#fairness) ·
[findings](#findings) · [proofs](#proofs) · [not modelled](#not-modelled) ·
[plan](#plan)

## Inventory

Paths are relative to `src/src/` unless they say otherwise.

| Component | State | Operations | Correct when | Module |
|---|---|---|---|---|
| Run tables and status library (`jalibs/jastatus.c`, `jaflow.c`) | `ja_run_jobnet_summary_table`, `ja_run_jobnet_table`, `ja_run_job_table`, `ja_run_flow_table` | `ja_set_run/end/runerr/enderr`, `ja_set_status_*`, `ja_set_jobstatus`, `ja_flow`, `ja_flow_set_status` | an icon is entered once per round, a join after all its branches, a sub-jobnet is reset before it is run again | `JaTables` |
| jarun (`jobarg_server/jarun`) | the READY rows of its select, forked children | start, skip, hold, rerun of every icon type | only icons of running jobnets start, a stale row does no harm | `JobScheduler`, `Sessions` |
| jajob (`jobarg_server/jajob`) | the RUN rows of its select | stop and timeout of jobs and reboots, end of EXTJOB waits, kill of file waits, abort of agentless icons | a stop reaches the job and ends, a timeout is noted | `JobScheduler`, `Sessions` |
| jajobnet (`jobarg_server/jajobnet`) | the jobnet rows of its select, a renewal between read and write | start of a jobnet, renewal of its status from its icons, propagation to the parent icon and the summary, forced stop | summary and main jobnet agree, an ended jobnet is quiet, failures show at the top, a forced stop is final and ends | `JobScheduler` |
| Trapper (`jobarg_server/jatrapper`) | – | job results, start of a jobnet, release of an icon | a result that is late or comes twice does no harm; a start is registered once | `JobScheduler`, `Boot` |
| Host lock (`jalibs/jahost.c`) | `ja_host_lock_table` | lock by REBOOT icons, return by results and children | a lock has an icon that holds it, and is given back | `JaTables`, `JobScheduler` |
| Agent (`jobarg_agent`, `jobarg_command`) | job list in memory, SQLite rows, request flag, result files, processes | accept, run, kill, end, reboot, send with retry, give up, reload | a request is seen, run once, answered with its own result, and closed | `AgentJobs`, `AgentService` |
| jaloader (`jobarg_server/jaloader`) | the starts of its pass, `valid_flag` of schedules | registration of planned starts and of requests | each start is registered once | `Boot` |
| jaboot (`jobarg_server/jaboot`) | the rows of its select, a date | start, late start, multiple-start options, purge | a jobnet starts once, alone where asked, and not against the operator | `Boot` |
| Agentless icons (`jaruniconless.c`, `jajobiconless.c`, `jobarg_session`) | `ja_session_table`, session processes | open, go on, close, forced stop | one process per session, a command is sent once, nothing is left behind | `Sessions` |
| Operator (`src/frontend/...`: `Designer/Container.xaml.cs`, `JobnetExecControl*.cs`, `dao/DB/DBUtil.cs`) | – | hold, release, skip, cancel skip, stop, rerun, forced stop; stop before the start, hold and move of a start, delayed start | each is carried out on what it was offered for | all |
| Notification, variables and conditions, calendars, monitoring, editors, telegrams, archives | – | – | see [not modelled](#not-modelled) | |

How they interact.  jaloader writes the rows of a jobnet some time before its start, jaboot sets
its summary READY at that time.  jajobnet sets it to RUN and its start icon READY.  jarun takes every
READY icon to RUN, and either ends it at once (through `ja_flow`, which counts up and possibly
readies the icons behind it), or forks a child that hands it to an agent, or starts a session
process.  The agent's listener writes the request into its SQLite table and raises a flag; its
executive runs the command and sends the result.  It comes back through the trapper, which calls
`ja_flow` or `ja_set_runerr`; a session process does that itself.  jajob supervises RUN icons.
jajobnet recomputes each jobnet's status from its icons and hands it to the parent icon or to the
summary.  The operator's menus write status, `method_flag`, `jobnet_abort_flag` and start times
straight into the same rows.  jaboot removes what ended long ago.

What is hard.  (1) Every server process selects rows *without* a lock, then treats them one
transaction each: the row may have changed, and only jarun looks again (and then uses the old
`method_flag`).  (2) The forked children run without a transaction, so the `for update` inside
`ja_flow_set_status` locks nothing.  (3) jajobnet computes a jobnet's new status from a plain
read and writes it later.  (4) Answers of agents get lost; results are sent again.  (5) A
restart of the server loses its children, one of the agent loses its list; the agent reloads its
table, the server does not look at what its children were doing.  (6) A forced stop has to find
everything that runs, is ready or is under way, sessions included.  (7) Rows are addressed by what
several parties share: the lock by its host, a session row by its session, a job of the agent by its
id over all its requests.  (8) The spans of jaloader and jaboot overlap: what was purged
may be registered again.  The list with lines is under `hazards` in `PROJECT.json`.

## Modules and the code

* **`JaTables`** – the tables of one booted jobnet as one record `db`, the library calls as
  operators from a table state to the next one, under their C names.  Columns that are written
  only by jaloader are constants; `NetShape` states what jaloader guarantees of them.  Left out
  as data: job variables, log rows, timestamps.
* **`JobScheduler`** – EXTENDS `JaTables`; the processes around the tables:
  * *jarun*: `JarunSelect` is `process_jarun`'s select, `jarunq` the rows still to be treated
    (any order), and one action per icon kind is the transaction of one row.
  * *children*: one record each; `connect` to the agent, `ChildDeliver` (answer lost or not),
    `ChildUnlock`, `ChildRunerr`; and, for file copies and the option to continue, `ja_flow` as the
    separate statements it consists of there (`StartFlow`, `ChildRead`, `ChildWrite`, `ChildDone`).
  * *agents and trapper*: `AgentRun`, `AgentEnd`, `AgentSend` (which includes the whole
    `jatrap_jobresult` transaction), `AgentGivesUp`, `jatrap_jobrelease`.
  * *jajob*: `JajobSelect` and one action per kind of row.
  * *jajobnet*: `JajobnetSummary` (start and forced stop), `JajobnetSelect`, `jajobnet_ready`,
    and the renewal in its two halves, `jajobnet_run` (read and compute) and
    `jajobnet_run_sync` (write, propagate).  The process is sequential: the two selects
    alternate and the queue is emptied in between.
  * *operator*: one action per menu entry, guarded by the conditions of the menu and of its SQL.
  * *`ServerRestart`*: queues and children are gone, tables and agents remain.

  A stop command is a job of its own at the agent, so it does not change what the agent holds for
  the icon.  Sleep and time commands behave alike.  An IF icon takes either side; the comparison
  is data.  Test runs (`test_flag`) are a value of the initial state.  A REL icon that names an icon
  of another jobnet does here what a VALUE icon does, a TASK icon too (the jobnet it starts is a row of
  `Boot`).  A host that another jobnet has locked is a fault that postpones an icon.
* **`AgentService`** – what an agent promises the server per job: one request at a time, run at most
  once, its result offered before the next request is accepted.
* **`AgentJobs`** – the agent.  `row` is the table `jobs`, `list` the executive's list, `files` the
  result files, `proc` the processes; ghosts count requests and forks.  The listener writes the row
  and the flag in two steps (`ja_agent_begin`, `ListenerFlag`).  If the flag cannot be made it reads the status of
  the row (`ListenerNoFlag`, a select) and closes a row that is still BEGIN (`ListenerTakesBack`, a transaction of its
  own, whose REPLACE does not ask what has become of the row): the executive, told by an earlier flag, may list,
  start, end and close the job in between.  `takeback` is the job between the two; the ghost `overtaken` is set when a
  row that was RUN or END is closed this way, until the executive writes its END or CLOSE.  The executive walks its list in any
  order, and the points where another process can see a half-done treatment (`forked`, `reboot`,
  `sent`) are steps of their own.  `AgentCrash` loses the list, `HostReboot` the processes too, after
  which a pid may be someone else's.  Timing that the code relies on and the model takes over: a child
  that cannot `exec` sleeps a second before it writes the row, which is longer than the executive needs
  to write the row of that child (`Forked`).  It then replaces the whole row with its own copy of the job
  (`ja_jobdb_update` is a REPLACE), whatever has become of the row since; if the agent stops meanwhile, the
  write may come at any time later.  Update statements of SQLite do not fail.  `ja_jobfile_chkend` takes a reboot
  for complete when its process is gone and its start file is not empty; the child writes that file once it is the
  command, so one that cannot `exec` leaves it empty.  Its case of pid 0 does not arise: the object of a job in RUN
  has the pid of its fork.
* **`Boot`** – registration (`jobnet_load_schedule`, `load_jobnet_definition`,
  `jobnet_load_immediate`, `evaluate_jobnetrun`, `register_db_table`, `InsertRunJobnet`), jaboot's
  pass (purge, select, one transaction per row), the jobnet as far as its main row and its start icon
  show it, and the list menu of the Job Manager.  Time is counted in minutes, as jaboot and
  jaloader compare it.  A pass of jaloader takes at most `MaxPass` minutes.
  A delayed start is the look at the listed row when the menu opens (`DelayedContextMenu`) and three transactions
  without a condition; from the menu to the last of them it takes less than a minute.
  Ghosts record how often a row was registered and started and by whom, and what the operator did while
  jaboot held a copy of the row.
* **`Sessions`** – the agentless icons of one jobnet: jarun's two transactions for an icon that opens a
  session and the start of the process between them, the session process from `main` over its loop to
  the last transaction, jajob's abort, jajobnet's stop and end, the operator.  What lies between the icons
  is the constant `Before`; RUNERR of the jobnet counts as RUN.  Session ids of one-time icons are unique
  (jaloader makes them).  A session process outlives a restart of the server; its pid is not reused.
  `ssh_connect` stands for the whole login and `ssh_exec` for the transmission of the command; between them and in
  them the process waits for its host without a limit (`AwaitsHost`).
* **`MCJobScheduler`**, **`MCAgentJobs`**, **`MCBoot`**, **`MCSessions`** – the instances for TLC.
* **`JobSchedulerProof`**, **`JobSchedulerLocks`**, **`JobSchedulerQuiet`**, **`JobSchedulerService`**,
  **`AgentJobsProof`**, **`AgentJobsService`**, **`BootProof`**, **`SessionsProof`** – the theorems, each
  about the module it is named after; `JobSchedulerLocks` has those about the host lock, `JobSchedulerQuiet`
  those about ended jobnets, restarted sub-jobnets and parallel end icons, the two `...Service` modules
  the refinements of `AgentService`.

Definitions marked *Seeded fault* are variants of the definition that follows them with one
plausible mistake each; the specification does not use them.  They are listed under `mutants`:
with the variant in place of the definition TLC finds the property violated.

## Runs

`cd tla; tlc -workers 2 -config ForkJoin.cfg MCJobScheduler` (modules in `PROJECT.json`)

| Run (cfg) | Instance | Question |
|---|---|---|
| fork_join (ForkJoin) | fork of two jobs, two operations | does the join count exactly the ended branches (`JoinCountsBranches`), are ended and stopped jobnets quiet (`EndedNetIsQuiet`, `StoppedJobnetIsQuiet`), does only a running jobnet start icons (`ActivationNeedsRunningNet`)? |
| fork_faults (ForkFaults) | fork, `a` with a stop command, `b` with the option to continue; a fault, a restart, an operation | do summary and main jobnet agree (`SummaryAgrees`), is what jajobnet holds never stale (`JajobnetRows`), do the agents keep their promise (`AgentImplementsService`, a refinement)? |
| loop_net (LoopNet) | loop around a sub-jobnet, ordinary and test run, a restart, fair | does each round start from a reset sub-jobnet (`SubJobnetStartsClean`), does a failure at depth show (`FailureIsReported`)? |
| hosts (Hosts) | two reboots of one host, a file wait and a file copy on it, EXTJOBs, a TASK icon on hold and the REL icon for it; a fault, an operation | does every lock have a holder (`LockHasHolder`), is a host rebooted by one icon at a time (`OneRebootPerHost`)? |
| live_ends (LiveEnds) | branch with a REBOOT icon inside a fork, fair | `JobnetEnds`, `TimeoutIsReported`, `ForcedStopEnds`, `AbortEnds`, `LockIsGivenBack` |
| agent (AgentJobs) | a job requested twice, whose first child cannot `exec`, and a reboot that waits; a fault, a stop | is a request run once (`RunsOncePerRequest`), answered with its own result (`ResultIsOfThisRequest`), seen (`RequestIsSeen`) and closed (`RequestIsClosed`); does a reboot hit no job (`RebootHitsNoJob`); does the agent implement `AgentService` (`ImplementsService`)? |
| boot (Boot) | a planned start and an immediate request of one jobnet, a planned start and a timed request without a valid definition; one operation or restart | `OneAtATime`, `OperatorIsObeyed`, `PlannedOnce`, and under fairness `WaitingIsStarted`, `StartedRuns` |
| sessions (Sessions) | CONNECT, two CONTINUE in parallel, CLOSE, a ONETIME icon; two operations, a fault, a restart | `CommandRunsOnce`, `ContinueIsConnected`, `RerunFindsNoRow`, `OrphanHasCause`, and under fairness `AbortEnds`, `StopEnds`, `SessionsAreClosed` |
| stop_misses_loop, copy_loses_count, stop_forgotten, less_stop_hangs | | see [findings](#findings) |

The deadlock check is on except in the two runs of `Sessions`, where the system really stops when the
jobnet is over; elsewhere a process polls for ever.

What the passing runs show.  Stale queues are harmless for the *start* of icons: whatever jarun,
jajob and the trapper hold, an icon of a jobnet that is not running is made ready by the operator
or by a child in mid-`ja_flow` only.  The join is exact as long as its branches end in
transactions.  A renewal of a jobnet that is overtaken by results or by the operator does not
end a jobnet with active icons, and the summary never contradicts the main jobnet.  The host lock is
never left by an icon that is done.  The agent mixes up no results without a crash, and loses a
request only where it was given up or taken back too late.  jaboot keeps two starts of one name apart; sessions are handed from icon to icon by one
process at a time.

The exceptions that properties name are real; each occurs, and the property shows that nothing else
does: a restart between `jajobnet_summary_ready` and `jajobnet_ready` before a forced stop
(`SummaryAgrees`); a late start, which is not checked against running jobnets, and a delayed start
(`OneAtATime`); an operation between select and update of jaboot (`OperatorIsObeyed`); the three
transactions of a delayed start overtaken by jajobnet (`StartedRuns`); a crash between fork and update
(`RunsOncePerRequest`, `ResultIsOfThisRequest`, `RebootHitsNoJob`); a given-up job still in the list
(`RequestIsSeen`, `RequestIsClosed`); a request that the listener takes back after its start (`overtaken` in
`RequestIsSeen`, `RebootHitsNoJob` and `ImplementsService`; TLC violates the first two without it); an alien pid
(`RequestIsClosed`); a host that never answers again in the login or in the transmission of a command
(`HostIsSilent` in `AbortEnds` and `StopEnds`); an abort before the session
process has entered its pid (`early` in `Sessions`); a dead session process (`died`); a lost answer
that gives a lock back too early (`OneRebootPerHost`).

Operations are left out of a run's menu where the code does not keep the property with them:
`SetStop` from fork_join and `SetSkip`, `SetStop` from loop_net (see *other observations*).

## Bounds

* `JobScheduler`: `MaxOps` 1–2: two actions are the least for the sequences that matter (hold then
  release, fail–rerun–stop).  `MaxFaults` 0–1, `MaxCrashes` 0–1: each fault makes one telegram, answer
  or host lock fail, so one suffices for "lost once, then late"; a second adds repetitions.
  Nets of 6 to 12 icons: two branches make every count of a join (0, 1, all), one nested jobnet
  every propagation step; the loop is not bounded, so any number of rounds is covered.
  `MayFail`, `MayTimeout`, `Menu` select *where* failures, timeouts and operations may happen.
* `AgentJobs`: two requests for a job are the least for a result that could answer the wrong one;
  `SendRetry` 1 makes a single lost connection a job that is given up.
* `Boot`: four rows; the window and the spans are scaled (`LoadSpan` 1, `KeepSpan` 3, four
  minutes of time), such that `KeepSpan > LoadSpan + MaxPass`, under which a purged planned start has left
  the window.  The delivered parameters have equal spans: that is the finding stop_forgotten.  A release
  of a hold does not count against `MaxOps`, so every hold can be undone.
  The rows `p1`, `p2`, `t2` of `MCBoot` (three starts of one jobnet, 320 000 states) keep the safety
  properties too.
* `Sessions`: two operations (stop and rerun); with three and no fault the properties hold too.

There is no state constraint.  The passing runs have between 30 000 and 700 000 distinct states, and
between them fire every action of the next-state relations.  No symmetry is declared: icons, jobs and
rows differ by their place.

## Fairness

* `JobScheduler`: weak fairness of `JarunNext`, `JajobNext`, `JajobnetNext` (server loops that
  poll for ever and are restarted by their parent), of `ChildNext` and of each icon's agent (loops
  that never block for ever on one job), and strong fairness of the end of an EXTJOB's wait: jajob
  looks at the icon again and again, and at some look the time has come (`jacmdsleep`,
  `jacmdtime` count down a finite time; `zabbix_sender` ends).  A job's command is assumed to end.
* `AgentJobs`: the executive goes on, the listener finishes what it began, an agent that is down is
  started again, a command ends.
* `Boot`: jaboot and jajobnet go on, jobs end, the Job Manager completes a delayed start it began.
  Nothing forces the clock, a registration, a failure or an operation.
* `Sessions`: jarun, jajob, jajobnet and each session process go on, except where the process waits for its
  host (`AwaitsHost`): the loops of the login and of the transmission (`jobarg_session.c:841-1017`, `1095-1153`) repeat
  on EAGAIN without a limit, with the alarm off (`827`), and look at the row only after the login (`1031`).  So `ssh_connect`,
  and `ssh_exec` of an icon with a command, are not fair.  A command on the host may run for ever too; while it
  does, `ssh_read` looks at the row every second in which its output runs dry, and that step is fair.
  `AbortEnds` and `StopEnds` say that a stop is carried out or the host is silent *for ever*
  (`[]HostIsSilent`): a host that answers late is no excuse.  The close of a channel has a limit (`CONFIG_TIMEOUT`).

Nothing is assumed of the operator, of faults and of restarts.

## Findings

Each is a run TLC must find violated; each quotes what the repository says.

* **stop_misses_loop** – a forced stop while a sub-jobnet is READY but not yet RUN.
  `jajobnet_kill` ends RUN and RUNERR jobnets only (`jajobnetkill.c:94`); with no icon in RUN it
  reports the stop, and the sub-jobnet starts afterwards.  `src/ChangeLog:116` records the loop
  that does not stop on a forced stop as fixed.
* **copy_loses_count** – two file copies that end together: both children read `end_count` 0
  and write 1 (`jaruniconfcopy.c:260` calls `ja_flow` outside a transaction); the parallel end
  icon waits for ever.  `src/ChangeLog:115` records the symptom as fixed.
* **stop_forgotten** – a jobnet that is stopped in the minute in which it was registered.  The stop
  enters the current time as end time (`DBUtil.cs:548`); with equal spans (both 60 as delivered,
  `src/database/data/JA_INSERT_TABLE.sql:65`) jaboot purges the row in the minute of its start, jaloader
  finds no row and registers the start again, jaboot starts it.
* **less_stop_hangs** – a forced stop while a session process is starting, with hosts that answer.  `jajobnet_kill` deletes the
  session rows first (`jajobnetkill.c:103`), so the abort of the icon finds nothing to do and the process
  exits without a result; the icon keeps RUN and the jobnet never becomes ENDERR.

Other observations, met while looking for properties that hold:

* A stop that is selected before the job's result arrives is carried out after it (`jajob.c:72`):
  END becomes ABORT, the kill is refused, the icon ends in RUNERR, possibly in a jobnet that has
  ended.  `FailureIsReported` therefore lets go when the jobnet ends.  For REBOOT and FWAIT icons the
  refused kill is not reported and the icon stays in ABORT, which `AbortEnds` lets go.
* A skip of a failed jobnet icon leaves its sub-jobnet in RUNERR.  In a loop the sub-jobnet's icons
  are reset but its row is not; the next renewal finds no failed icon, makes it RUN and its icon
  RUN with it, also in a main jobnet that has ended.
* When a flow is refused, `ja_flow_set_status` sets the icon to ENDERR and `ja_flow` then to END.
* `method_flag` ABORT outlives the run: in a loop the icon comes back READY with ABORT and
  jarun passes over it in every round.
* A timeout in a sub-jobnet that ends before the next renewal of the main jobnet does not reach
  the summary.
* A restart loses the child of a file copy: the icon stays RUN, the menu has no entry for it and
  a forced stop waits for it.  A restart that loses the child of a stop leaves the icon in ABORT,
  which is why `AbortEnds` excludes restarts; one that loses the child of a reboot leaves the host locked.
* An agent that gives up sending leaves the icon in RUN until it is stopped, and the host of a reboot
  locked.
* The answer to a reboot is lost, its bad result arrives, and the operator reruns the icon before the first
  child has come to its `ja_set_runerr` (`jaruniconreboot.c:185`): the child puts the rerun, which holds the
  lock, to RUNERR; the result of the rerun is not looked at and the host stays locked.  The run hosts has no
  rerun in its menu; the theorems about the lock allow reruns and exclude lost telegrams.
* Two branches meet in a loop icon in front of a jobnet icon.  The first starts the sub-jobnet, an EXTJOB icon of
  it fails and is rerun, and before jajobnet has taken the jobnet icon out of RUNERR the second branch enters it
  again and resets the sub-jobnet.  The wait of the EXTJOB icon is then ended from the row jajob selected before
  (`jajobiconextjob.c:268`): the icon is RUNERR in a sub-jobnet that is to start.
* The request flag of the agent cannot be made, and the listener reads BEGIN (`jaagent.c:258`).  An earlier flag lets the
  executive start the job and write RUN before the listener's update to CLOSE (`jaagent.c:261`).  The row of a
  running command is then closed: the server was refused and may ask again, a second request is accepted beside the
  first, the executive passes over it, and the end of the first command answers it; a waiting reboot counts no open job
  and goes ahead over the command.  One failed file operation is enough.
* A host that goes silent during the login of a session process keeps the icon in RUN, whatever the operator does:
  neither the stop of the icon nor that of the jobnet reaches the process, and the stopped jobnet does not end.
* A failed start of a session process leaves its row, and every rerun of the icon is refused.
* A child of the agent that cannot `exec` writes its row a second after the fork (`jaagent.c:608`).  If the
  agent was stopped and started in between, a command that an earlier stop left behind may meanwhile have
  written the result file of the newer request: the executive ends and closes the job, and the late write
  of the child makes the closed row END again, which the server sees as a second result.  The proof of
  `ImplementsService` found it; see [proofs](#proofs).

## Proofs

`cd tla; tlapm JobSchedulerProof.tla`, and likewise for the other seven proof modules (SMT, Zenon and
LS4; about a minute each).  Every theorem holds for all constants that satisfy the named assumption of the
module (`NetShape` and `SchedulerShape`, `AgentShape`, `BootShape`, `SessionsShape`): no bound is fixed, and
no set is assumed finite except the icons and flows of a jobnet in `JobSchedulerQuiet`.  Three theorems on
`Boot`, two on `AgentJobs` and five on `JobScheduler` have a hypothesis of their own, given below.

| Module | Theorems | Property |
|---|---|---|
| `JobSchedulerProof` | `TypeCorrect`, `ActivationCorrect`, `SummaryInvariant`, `SummaryCorrect`, `JajobnetRowsCorrect`, `StopInvariant`, `StoppedCorrect` | `TypeOK`, `ActivationNeedsRunningNet`, `SummaryInv`, `SummaryAgrees`, `JajobnetRows`, `StopInv`, `StoppedJobnetIsQuiet` |
| `JobSchedulerLocks` | `LockInvariant`, `OneRebootCorrect`, `LockHasHolderCorrect` | `LockInv`, `OneRebootPerHost`, `LockHasHolder` |
| `JobSchedulerQuiet` | `QuietInvariant`, `EndedQuietCorrect`, `StartsCleanCorrect`, `JoinCountsCorrect` | `QuietInv`, `EndedNetIsQuiet`, `SubJobnetStartsClean`, `JoinCountsBranches` |
| `JobSchedulerService` | `ServiceImplemented` | `AgentImplementsService` (refinement of `AgentService`) |
| `AgentJobsProof` | `TypeCorrect`, `AgentInvariant`, `RunsOnceCorrect`, `RequestIsSeenCorrect`, `ResultCorrect`, `RebootCorrect` | `TypeOK`, `AgentInv`, `RunsOncePerRequest`, `RequestIsSeen`, `ResultIsOfThisRequest`, `RebootHitsNoJob` |
| `AgentJobsService` | `ServiceInvariant`, `AgentImplements` | `ServiceInv`, `ImplementsService` (refinement of `AgentService`) |
| `BootProof` | `TypeCorrect`, `OneAtATimeCorrect`, `BootInvariant`, `PlannedOnceCorrect`, `OperatorIsObeyedCorrect` | `TypeOK`, `OneAtATime`, `BootInv`, `PlannedOnce`, `OperatorIsObeyed` |
| `SessionsProof` | `TypeCorrect`, `SessionInvariant`, `ConnectedCorrect`, `RunsOnceCorrect`, `RerunCorrect`, `OrphanCorrect` | `TypeOK`, `SessionInv`, `ContinueIsConnected`, `CommandRunsOnce`, `RerunFindsNoRow`, `OrphanHasCause` |

All of them have the same shape: lemmas that say what a step does to each variable (`...Sets`, which hide
the record updates), a lemma per action or group of actions that the inductive invariant survives, and the
property as a consequence of the invariant.  Each inductive invariant was checked with TLC first, on the
instance of the module's run and on a second one (more requests and stops of one job; three starts of one
jobnet; two CONNECT icons, a CONTINUE and a ONETIME icon that share a session; the nets of hosts and
fork_join with reruns, skips, stops and a restart; and, for `QuietInv`, the nets of fork_join and loop_net
with the option to continue, test runs and a restart, loop_net with a parallel sub-jobnet, and a straight
main jobnet around a parallel one).

**JobScheduler.**  The argument goes by table call.  `GoodCall(d, e)` says that a call keeps the types,
writes neither a jobnet row nor the summary, and makes icons ready in running jobnets only; it is
transitive, and one lemma per library call (`SetStatus`, `SetEnderr`, `EnterAllTypes`, `FlowGood`,
`RunerrGood`, `HostGood`, `JobresultGood`) establishes it.  `FlowGood` needs `NetShape`: flows stay inside a
jobnet, so the check of the *own* jobnet in `ja_flow` covers the icons that are entered.  Per process, a
lemma (`JarunGood`, `ChildGood`, `AgentGood`, `JajobGood`, `OperatorGood`, `JajobnetGood`, `RestartGood`)
lifts this to `GoodStep`: types, main jobnet and summary kept, `ActivationStep`.  Types and activation
follow at once.  `SummaryAgrees` is not inductive: `jajobnet_run_sync` writes a status it computed earlier.
`SummaryInv` adds `TypeOK` and `JajobnetRows`: between select and update jajobnet holds at most one
row per jobnet, the main jobnet's row in its queue is the current one, and a pending renewal of it finds
it still RUN or RUNERR; the forced stop, which also writes that row, can only happen with both empty.
The refinement maps the agent states to the phases of `AgentService`; only a delivered telegram and
the agent's own steps change them, every other step stutters.

*The forced stop.*  `StoppedCorrect` says of a `PlainJobnet` (no sub-jobnet, no file copy, no option to continue)
that a forced stop is final until the server is restarted.  Each exclusion is a known way out: a
sub-jobnet that is READY starts after the stop (stop_misses_loop), a child in the middle of its `ja_flow` has
checked the jobnet's status before the stop, and after a restart jajobnet may find the main jobnet still READY
when the summary is stopped already (`SummaryAgrees`).  `StopInv` adds to `SummaryInv` that a stop was asked
for, which keeps the operator from reruns, and that no child is in the middle of a `ja_flow`; that nothing
becomes ready then follows from `ActivationStep`, and that nothing becomes RUN from the calls (`NoRunCall`):
only jarun sets an icon to RUN, and it finds nothing READY.

*The host lock.*  The lock is a row of a table, the reboot a child of jarun first and then a job of the agent.
`LockInv` ties them together while no telegram is lost: a reboot that is `UnderWay` in either place holds
its host (`HoldsHost`), alone (`HoldsAlone`), and a child that starts one has not failed and will find the
agent idle (`StartsReach`).  The status of the icon does not occur in it, so resets, reruns, skips and stale
stops do no harm, and `OneRebootPerHost` follows for every jobnet.  Three steps matter: `jarun_icon_reboot` takes
the lock, `ChildDeliver` hands the reboot over, `AgentSend` gives the lock back and is the end of the
one reboot on that host; all others leave lock and reboots alone (`LockFrame`).  `LockHasHolder` does speak of the
status and needs `RebootsApart`: REBOOT icons are in the main jobnet (a sub-jobnet is reset as a whole while its
icons may run) and not behind a file copy or an icon with the option to continue (whose children write a
status they read earlier).  The jobnets of the runs satisfy it.

*Ended jobnets, restarted sub-jobnets, parallel ends.*  jajobnet reads the icons of a jobnet in one transaction and
writes its end in another, and meanwhile children, agents and the rows of jarun and jajob are at work.
`QuietInv` says what they cannot undo.  Of the tables (`TableInv`): the icons of an ended jobnet are `Settled`,
those of a jobnet that is to start are `Pristine`, the icon of a sub-jobnet under way shows it, a
jobnet icon that is ready has reset its sub-jobnet, and in a jobnet that has sub-jobnets at most one icon is under
way.  Of the processes: who works for an icon finds it RUN, unless its jobnet was stopped by force (`GivenUp`),
a child finds the agent idle, and a jobnet whose end is about to be written is settled already.  Jobnets that
have ended in error are left for good, and nothing is claimed of their icons.  The argument goes by call again:
`QuietCall(d, e, j)` is what a call for icon `j` may do, `FlowOutQuiet` is its hard case, and `CallStep`
lifts a call to a step of whoever makes it.  jajobnet writes jobnet rows and has lemmas of its own
(`NetWrite`, `SyncQuiet`, `KillQuiet`).

The three theorems hold while no telegram is lost (`faults = 0`), with any number of restarts of the server, and
under `QuietShape`.  Every part of it excludes a behaviour that breaks one of the properties: the stop of a
single icon is carried out from a stale row and sets an icon of an ended jobnet to ABORT; the skip of a failed jobnet
icon lets its sub-jobnet go on; after a lost answer a child reports the failure of an icon that has ended; a
child of a file copy enters the next icons one statement at a time; and a parallel branch enters a jobnet icon
in RUNERR again and resets the sub-jobnet under the hands of jajob, hence `SequentialParents`: jobnets *with*
sub-jobnets have no parallel branches (sub-jobnets, and jobnets without one, may).  The jobnets of fork_join and loop_net satisfy it.

`JoinCountsCorrect` also needs `JoinShape`: a branch ends once.  Then `BranchesCounted` is part of the invariant,
of every icon and not only of parallel ends: its counter is the number of flows into it whose source has ended, it has
left BEGIN exactly when that is all of them, and only a forced stop takes it back.  It follows that `ja_flow` never
finds the icon behind it already entered (`FlowCounts`): the icon would have counted a branch that has not
ended.  Loops and exclusive branches end a branch twice or never; and an icon with the option to continue that is
killed by a forced stop is in RUNERR, which passes for an end, without having been counted (TLC finds it
when the jobs of fork_join have the option).

**AgentJobs.**  None of the four properties is inductive, because the executive acts on its list and
listener and children on the table.  `AgentInv` says how the two relate: a job that runs in the list has
the row of the same pid and request, or one that its child has ended, unless the listener has closed that row after
the start (`ListAgrees`, with the ghost `overtaken`), one job is treated at a time and it is
where the executive says, and the listener is at one job too (`OneAtWork`), every fork beyond the requests is paid for by a stop of the agent or
still due to the request at hand (`ForksAreOwed`), and before the first stop every process belongs to
the request of its row, or of the object of an overtaken job, and every result file too (`FirstLife`).  No hypothesis
is needed.  The ghost is part of the statements of `RequestIsSeenCorrect` and `RebootCorrect`: they say that nothing
but the late take-back, a given-up job and a stop of the agent can do what they exclude.

The refinement of `AgentImplements` shows an overtaken job as done until its end is written: from the late take-back to
that write the agent may accept another request, and the service does not see it.  Every other job, and this one before
and after, keeps to `AgentService`.  The theorem has one hypothesis, `ChildrenAreSafe`: the agent never stops, or the requests of a job that
cannot be executed come first (`StaysExecutable`; a job whose user or command is repaired, as in the instance
of the run).  It is needed: with a request that cannot be executed after one that could, TLC finds the late
write described under *other observations*, and the refinement fails.  `ServiceInv` adds to `AgentInv` that a
begun job is begun in the table, that requests, rows and processes are numbered in order, and that the row
of a child that has yet to write is waiting for it (`ChildIsAwaited`).

**Boot.**  `OneAtATime` is inductive with the types: the check for other starts and the update of the row are
one transaction of jaboot.  `PlannedOnce` and `OperatorIsObeyed` hold under the hypothesis
`KeepSpan > LoadSpan + MaxPass`: a row that has ended is kept longer than jaloader looks ahead plus the
time of one pass.  `BootInv` relates the clock, the window of the pass under way, the registration counts and
the end times, so that a row that is purged is out of every window.  The hypothesis is a statement about the
settings, not about the code; the delivered ones (60 and 60) do not satisfy it, and the run
stop_forgotten shows what happens then.

**Sessions.**  The invariant is stated session by session: `Sound(s)` holds of every session whose row no
abort has deleted before the process had entered its pid.  It says that there is one process or one start
under way (`OneProcess`), that the row lasts as long as the jobnet (`RowUntilEnd`), that row, process and
icon agree (`RowIsServed`, `Connected`), that a command not yet sent is owed to a start (`SendsAreOwed`)
and, while no process of the session has died, that the row names the icon that runs (`RowTellsRun`).  Its
last conjunct is the one that takes thought: jajob aborts by session, so what it has selected must still be the
icon of the row whenever no process is left to serve the row; a restart of the server, which loses
the start of a process, empties that selection too.  `Untouched(s)` and `UntouchedKeeps` are the frame: a step
changes one session, and the others keep what they have.

Corrections of the models that the proofs led to: the late write of a child that could not `exec` replaces
the whole row and may come after the agent was started again (`ChildFails`); the type of a session process
says that it has a job exactly from the read of the row to its result.

Every invariant and every action property that a run checks is stated by a theorem, under the conditions above.
Only model-checked are: `StoppedJobnetIsQuiet` with file copies and `LockHasHolder` with a lost telegram, on the net
of hosts; and all liveness properties (`FailureIsReported`,
`JobnetEnds`, `TimeoutIsReported`, `ForcedStopEnds`, `AbortEnds`, `LockIsGivenBack`, `RequestIsClosed`,
`WaitingIsStarted`, `StartedRuns`, `StopEnds`, `SessionsAreClosed`): fairness and ENABLED are out of the
prover's reach.

## Not modelled

* Notification (`jamsgsnd`): one sender that works off a queue and counts attempts; nobody reads its state.
* Job variables, conditions, exit code and number ranges (`javalue.c`), calendars and dates
  (`jaschedule.c`, `get_calendar_detail`): string and date algorithms on the C library.  Their results
  (which side of a branch, whether a command failed, the times of the planned starts) are choices or
  constants of the models.
* The timeout warning of agentless icons (`jajob_icon_less_timeout`).
* The agent's backup file and its journal, failing SQLite updates, the Windows variants.
* Monitoring (`jobarg_monitor`, self monitoring) reads and prints; telegrams, TCP, archives are I/O (their
  failures are faults of the models); the Manager's editors work on definitions and not on runs.
* Several jobnets at once inside `JobScheduler`: they meet in the host lock (a fault there) and through
  REL and TASK icons only.
* Most of the C code under `src/src/libs` (database schema, regular expressions, caches, expressions of
  Zabbix) is the library of Zabbix the program is built on; hardly any of it is called by the job
  server, and none of it is part of the models.

## Plan

1. `JaTables`, `JobScheduler`, first theorems: **done**.
2. `AgentService`, `AgentJobs` and the two refinements; `Boot`; host lock, REBOOT, REL and TASK icons;
   `Sessions`: **done**.
3. Proofs for `AgentJobs`, `Boot` and `Sessions`, with the refinement of `AgentService`: **done**.
4. The host lock, the forced stop, ended jobnets, restarted sub-jobnets and parallel ends of `JobScheduler`:
   **done**.  Next the forced stop with file copies, whose children write a status they read earlier.
5. Pure algorithms (exit code and number ranges, calendar arithmetic) against reference definitions.
