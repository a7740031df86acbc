----------------------------- MODULE AgentJobs -----------------------------
(***************************************************************************)
(* One agent: the listener, which takes the requests of the server, and    *)
(* the executive, which runs them.  The two are processes of their own and *)
(* share the table jobs (SQLite; every transaction is one step), the file  *)
(* CONFIG_REQUEST_FLAG that tells the executive to look at the table, and  *)
(* the processes and result files of the jobs.  The executive keeps the    *)
(* jobs it works on in a list in memory, which a crash of the agent loses. *)
(*                                                                         *)
(* A process is numbered per job (no, its pid) and remembers the request   *)
(* it was started for (req); a result remembers which request's process    *)
(* has written it (0: the agent itself, for a job that failed).            *)
(***************************************************************************)
EXTENDS Integers, FiniteSets

CONSTANTS
  Job,          \* jobid
  RebootJob,    \* jobs of type REBOOT; the others are commands
  AbortJob,     \* stop commands: method ABORT, whose result is not sent
  RebootMode,   \* reboot_mode_flag: 0 now, 1 when no job is open
  RebootWaitTime, \* reboot_wait_time: 0 without a limit
  CannotExec,   \* requests <<job, req>> whose child cannot become the command
  MayFail,      \* jobs whose files or fork can fail
  SendRetry,    \* CONFIG_SEND_RETRY
  MaxRequests,  \* bound: requests accepted for a job
  MaxFaults,    \* bound: lost connections, failed file operations
  MaxCrashes    \* bound: stops of the agent or of its host

ASSUME AgentShape ==
  /\ RebootJob \subseteq Job /\ AbortJob \subseteq Job /\ MayFail \subseteq Job
  /\ CannotExec \subseteq Job \X Nat
  /\ RebootMode \in {0, 1} /\ RebootWaitTime \in Nat
  /\ SendRetry \in Nat /\ MaxRequests \in Nat
  /\ MaxFaults \in Nat /\ MaxCrashes \in Nat

VARIABLES
  row,          \* the table jobs; INIT: there is no row
  flag,         \* CONFIG_REQUEST_FLAG exists
  rflag,        \* jobs whose reboot flag file exists
  list,         \* the executive's list; NONE: the job is not in it
  exe,          \* the executive: where it is, the jobs left in this pass
  listener,     \* the jobs whose row is written and whose flag is not
  takeback,     \* the jobs whose row the listener is about to close again
  proc,         \* the processes of jobs that are alive
  alien,        \* pids of jobs that other processes have after a reboot
  files,        \* the result files
  up,           \* the agent runs
  reqs, forks,  \* requests accepted, and processes started, for each job
  missed,       \* requests that ja_job_object_list_add has passed over
  overtaken,    \* jobs whose row the listener has closed after their start,
                \* until the row is ended or closed with the object again
  faults, crashes

table  == <<row, flag, rflag>>
memory == <<list, exe, listener, takeback, missed, overtaken>>
host   == <<proc, alien, files>>
bounds == <<reqs, forks, faults, crashes>>
vars   == <<row, flag, rflag, list, exe, listener, takeback, missed, overtaken,
            proc, alien, files, up, reqs, forks, faults, crashes>>

RowStatus == {"INIT", "BEGIN", "RUN", "END", "CLOSE"}
Row    == [status : RowStatus, pid : Nat, req : Nat, result : Nat]
Object == [status : (RowStatus \ {"INIT"}) \cup {"NONE"}, pid : Nat, req : Nat,
           result : Nat, send_retry : Nat]
Process == [job : Job, no : Nat, req : Nat,
            exec   : BOOLEAN,     \* execl succeeds
            linked : BOOLEAN]     \* the files it holds open are the job's

NoRow    == [status |-> "INIT", pid |-> 0, req |-> 0, result |-> 0]
NoObject == [status |-> "NONE", pid |-> 0, req |-> 0, result |-> 0, send_retry |-> 0]

TypeOK ==
  /\ row \in [Job -> Row]
  /\ flag \in BOOLEAN /\ rflag \subseteq RebootJob
  /\ list \in [Job -> Object]
  /\ exe \in [at : {"idle", "add", "walk", "forked", "reboot", "sent"},
              todo : SUBSET Job, cur : SUBSET Job]
  /\ exe.cur \subseteq exe.todo
  /\ listener \subseteq Job /\ takeback \subseteq Job
  /\ missed \subseteq Job /\ overtaken \subseteq Job
  /\ proc \subseteq Process
  /\ alien \subseteq Job \X Nat
  /\ files \in [Job -> [exist : BOOLEAN, by : Nat]]
  /\ up \in BOOLEAN
  /\ reqs \in [Job -> 0 .. MaxRequests] /\ forks \in [Job -> Nat]
  /\ faults \in 0 .. MaxFaults /\ crashes \in 0 .. MaxCrashes

Resting == [at |-> "idle", todo |-> {}, cur |-> {}]

Init ==
  /\ row = [j \in Job |-> NoRow] /\ flag = FALSE /\ rflag = {}
  /\ list = [j \in Job |-> NoObject] /\ exe = Resting
  /\ listener = {} /\ takeback = {} /\ missed = {} /\ overtaken = {}
  /\ proc = {} /\ alien = {}
  /\ files = [j \in Job |-> [exist |-> FALSE, by |-> 0]]
  /\ up = TRUE
  /\ reqs = [j \in Job |-> 0] /\ forks = [j \in Job |-> 0]
  /\ faults = 0 /\ crashes = 0

Fault == faults < MaxFaults /\ faults' = faults + 1
-----------------------------------------------------------------------------
(* The processes: jobarg_command, and the child of ja_agent_run before it *)

Pid(p) == <<p.job, p.no>>

\* The executive is between the fork of job j and the write of its row.
Forked(j) == exe.at = "forked" /\ j \in exe.cur

\* A pid that kill(pid, 0) finds: the job's own process or an alien one.
Alive(j, pid) == <<j, pid>> \in alien \cup {Pid(p) : p \in proc}

\* jobarg_command has waited for the command and writes .end and .ret.
WritesResult(p) ==
  /\ p \in proc /\ p.exec
  /\ proc' = proc \ {p}
  /\ files' = IF p.linked THEN [files EXCEPT ![p.job].by = p.req] ELSE files

CommandEnds(p) ==
  /\ WritesResult(p)
  /\ UNCHANGED <<table, memory, alien, up, bounds>>

\* The process is gone without a result.
CommandLost(p) ==
  /\ p \in proc /\ p.exec /\ Fault
  /\ proc' = proc \ {p}
  /\ UNCHANGED <<table, memory, alien, files, up, reqs, forks, crashes>>

\* The child could not become the command: after a second it writes the row
\* from its own copy of the object.  That second is enough for the executive
\* to write the row of this child first, unless it is down; it may have gone
\* on to anything since.
ChildFails(p) ==
  /\ p \in proc /\ ~p.exec
  /\ ~(Forked(p.job) /\ list[p.job].pid = p.no)
  /\ proc' = proc \ {p}
  /\ row' = [row EXCEPT ![p.job] = [status |-> "END", pid |-> 0, req |-> p.req, result |-> 0]]
  /\ UNCHANGED <<flag, rflag, memory, alien, files, up, bounds>>

ProcessNext == \E p \in proc : CommandEnds(p) \/ CommandLost(p) \/ ChildFails(p)
-----------------------------------------------------------------------------
(* listener: process_listener, ja_agent_begin *)

Listening == up /\ listener = {} /\ takeback = {}

\* Seeded fault: a job that has ended is opened again.
ja_agent_begin_Reopens(j) ==
  /\ Listening /\ reqs[j] < MaxRequests /\ row[j].status # "RUN"
  /\ reqs' = [reqs EXCEPT ![j] = @ + 1]
  /\ row' = [row EXCEPT ![j] = [NoRow EXCEPT !.status = "BEGIN", !.req = reqs[j] + 1]]
  /\ listener' = {j}
  /\ UNCHANGED <<flag, rflag, list, exe, takeback, missed, overtaken, host, up, forks,
                 faults, crashes>>

\* A request to run job j.  The reboot flag file is made before the table is
\* asked; ja_jobdb_insert refuses a job that is open.
ja_agent_begin(j) ==
  /\ Listening /\ reqs[j] < MaxRequests
  /\ rflag' = rflag \cup ({j} \cap RebootJob)
  /\ IF row[j].status \in {"INIT", "CLOSE"}
     THEN /\ reqs' = [reqs EXCEPT ![j] = @ + 1]
          /\ row' = [row EXCEPT ![j] = [NoRow EXCEPT !.status = "BEGIN",
                                                     !.req = reqs[j] + 1]]
          /\ listener' = {j}
     ELSE UNCHANGED <<reqs, row, listener>>
  /\ UNCHANGED <<flag, list, exe, takeback, missed, overtaken, host, up, forks,
                 faults, crashes>>

\* The second half of ja_agent_begin: the executive is told, and the request
\* is answered.
ListenerFlag(j) ==
  /\ up /\ j \in listener
  /\ flag' = TRUE /\ listener' = {}
  /\ UNCHANGED <<row, rflag, list, exe, takeback, missed, overtaken, host, up, bounds>>

\* ... or the flag file cannot be made, and the status is read: a request that
\* has not been started is to be taken back.
ListenerNoFlag(j) ==
  /\ up /\ j \in listener /\ ~flag /\ Fault
  /\ listener' = {}
  /\ takeback' = IF row[j].status = "BEGIN" THEN {j} ELSE {}
  /\ UNCHANGED <<table, list, exe, missed, overtaken, host, up, reqs, forks, crashes>>

\* ja_jobdb_update of the listener's own object, a transaction of its own: the
\* row is replaced whatever the executive has made of it since the read.
ListenerTakesBack(j) ==
  /\ up /\ j \in takeback
  /\ takeback' = {}
  /\ row' = [row EXCEPT ![j] = [NoRow EXCEPT !.status = "CLOSE", !.req = reqs[j]]]
  /\ overtaken' = IF row[j].status \in {"RUN", "END"} THEN overtaken \cup {j} ELSE overtaken
  /\ UNCHANGED <<flag, rflag, list, exe, listener, missed, host, up, bounds>>

\* ja_kill kills what the process has started, which makes it write its
\* result; it does nothing to a pid that is gone, or that has not started the
\* command yet.
ja_agent_kill(j) ==
  /\ Listening /\ row[j].status = "RUN"
  /\ rflag' = rflag \ {j}
  /\ \/ UNCHANGED <<proc, files>>
     \/ \E p \in proc : Pid(p) = <<j, row[j].pid>> /\ WritesResult(p)
  /\ UNCHANGED <<row, flag, memory, alien, up, bounds>>

ListenerNext ==
  \E j \in Job : \/ ja_agent_begin(j) \/ ja_agent_kill(j)
                 \/ ListenerFlag(j) \/ ListenerNoFlag(j) \/ ListenerTakesBack(j)
-----------------------------------------------------------------------------
(* executive: ja_job_object_list_executive *)

Listed == {j \in Job : list[j].status # "NONE"}
At(at) == up /\ exe.at = at

\* ja_jobdb_update: the object of job j becomes o and its row is written.
ja_jobdb_update(j, o) ==
  /\ list' = [list EXCEPT ![j] = o]
  /\ row' = [row EXCEPT ![j] = [status |-> o.status, pid |-> o.pid, req |-> o.req,
                                result |-> o.result]]
  /\ overtaken' = IF o.status = "RUN" THEN overtaken ELSE overtaken \ {j}

\* The walk goes on with the next job, stays with this one, or stops within
\* the treatment of job j.
NextJob(j)  == exe' = [at |-> "walk", todo |-> exe.todo \ {j}, cur |-> {}]
SameJob     == exe' = [exe EXCEPT !.at = "walk", !.cur = {}]
Within(j, at) == exe' = [exe EXCEPT !.at = at, !.cur = {j}]

Begun(j) == [NoObject EXCEPT !.status = "BEGIN", !.req = row[j].req]

PassBegin ==
  /\ At("idle")
  /\ flag' = FALSE
  /\ exe' = IF flag THEN [Resting EXCEPT !.at = "add"]
                    ELSE [Resting EXCEPT !.at = "walk", !.todo = Listed]
  /\ UNCHANGED <<row, rflag, list, listener, takeback, missed, overtaken, host, up, bounds>>

\* Seeded fault: one job is taken for each flag.
ja_job_object_list_add_One ==
  /\ At("add")
  /\ \E j \in Job :
       /\ row[j].status = "BEGIN" /\ j \notin Listed
       /\ list' = [list EXCEPT ![j] = Begun(j)]
       /\ exe' = [Resting EXCEPT !.at = "walk", !.todo = Listed \cup {j}]
  /\ UNCHANGED <<table, listener, takeback, missed, overtaken, host, up, bounds>>

\* The rows with status BEGIN whose job is not in the list.
ja_job_object_list_add ==
  /\ At("add")
  /\ LET open == {j \in Job : row[j].status = "BEGIN"}
         new  == open \ Listed
     IN /\ list' = [j \in Job |-> IF j \in new THEN Begun(j) ELSE list[j]]
        /\ missed' = (missed \ new) \cup {j \in open : list[j].status = "CLOSE"}
        /\ exe' = [Resting EXCEPT !.at = "walk", !.todo = Listed \cup new]
  /\ UNCHANGED <<table, listener, takeback, overtaken, host, up, bounds>>

PassEnd ==
  /\ At("walk") /\ exe.todo = {}
  /\ exe' = Resting
  /\ UNCHANGED <<table, list, listener, takeback, missed, overtaken, host, up, bounds>>

\* The executive takes up job j, whose object has status s.
Walk(j, s) == At("walk") /\ j \in exe.todo /\ list[j].status = s

\* Seeded fault: result files that exist are used as they are.
ja_agent_run_OldFiles(j) ==
  /\ Walk(j, "BEGIN")
  /\ files' = [files EXCEPT ![j].exist = TRUE]
  /\ forks' = [forks EXCEPT ![j] = @ + 1]
  /\ proc' = proc \cup {[job |-> j, no |-> forks[j] + 1, req |-> list[j].req,
                         exec |-> <<j, list[j].req>> \notin CannotExec, linked |-> TRUE]}
  /\ list' = [list EXCEPT ![j].pid = forks[j] + 1]
  /\ Within(j, "forked")
  /\ UNCHANGED <<table, listener, takeback, missed, overtaken, alien, up, reqs, faults, crashes>>

\* ja_agent_run: the result files and the child.
ja_agent_run(j) ==
  /\ Walk(j, "BEGIN")
  /\ files' = [files EXCEPT ![j] = [exist |-> TRUE, by |-> 0]]
  /\ forks' = [forks EXCEPT ![j] = @ + 1]
  /\ proc' = proc \cup {[job |-> j, no |-> forks[j] + 1, req |-> list[j].req,
                         exec |-> <<j, list[j].req>> \notin CannotExec, linked |-> TRUE]}
  /\ list' = [list EXCEPT ![j].pid = forks[j] + 1]
  /\ Within(j, "forked")
  /\ UNCHANGED <<table, listener, takeback, missed, overtaken, alien, up, reqs, faults, crashes>>

\* Seeded fault: the row is written, the object in the list is not.
RunUpdate_RowOnly(j) ==
  /\ At("forked") /\ j \in exe.cur
  /\ row' = [row EXCEPT ![j].status = "RUN", ![j].pid = list[j].pid]
  /\ SameJob
  /\ UNCHANGED <<list, flag, rflag, listener, takeback, missed, overtaken, host, up, bounds>>

\* ja_agent_run: the parent writes the row.
RunUpdate(j) ==
  /\ At("forked") /\ j \in exe.cur
  /\ ja_jobdb_update(j, [list[j] EXCEPT !.status = "RUN"])
  /\ SameJob
  /\ UNCHANGED <<flag, rflag, listener, takeback, missed, host, up, bounds>>

\* ja_agent_run: the files or the child cannot be made.
RunFails(j) ==
  /\ Walk(j, "BEGIN") /\ j \in MayFail
  /\ ja_jobdb_update(j, [list[j] EXCEPT !.status = "END", !.result = 0])
  /\ NextJob(j)
  /\ UNCHANGED <<flag, rflag, listener, takeback, missed, host, up, bounds>>

\* ja_jobfile_chkend.  A reboot is complete when its process is gone and has
\* left a start file, which the child writes once it is the command.
ja_jobfile_chkend(j) ==
  CASE ~files[j].exist -> -1
    [] files[j].exist /\ files[j].by > 0 -> 1
    [] OTHER -> IF Alive(j, list[j].pid) THEN 0
                ELSE IF j \in RebootJob /\ <<j, list[j].req>> \notin CannotExec THEN 1 ELSE -1

\* Seeded fault: a process that is gone without a result is waited for.
EndChecked_Waits(j) ==
  \/ ja_jobfile_chkend(j) # 1 /\ NextJob(j) /\ UNCHANGED <<list, row, overtaken>>
  \/ /\ ja_jobfile_chkend(j) = 1
     /\ ja_jobdb_update(j, [list[j] EXCEPT !.status = "END", !.result = files[j].by])
     /\ SameJob

\* ja_agent_end, for a reboot after ja_reboot_chkend: the job is still
\* running, has left a result, or is gone without one.
EndChecked(j) ==
  LET chk  == ja_jobfile_chkend(j)
      done == IF j \in RebootJob /\ files[j].by = 0 THEN list[j].req ELSE files[j].by
  IN \/ chk = 0  /\ NextJob(j) /\ UNCHANGED <<list, row, overtaken>>
     \/ chk = 1  /\ ja_jobdb_update(j, [list[j] EXCEPT !.status = "END", !.result = done])
                 /\ SameJob
     \/ chk = -1 /\ ja_jobdb_update(j, [list[j] EXCEPT !.status = "END", !.result = 0])
                 /\ NextJob(j)

ja_agent_end(j) ==
  /\ Walk(j, "RUN") /\ j \notin rflag
  /\ EndChecked(j)
  /\ UNCHANGED <<flag, rflag, listener, takeback, missed, host, up, bounds>>

\* Seeded fault: only the jobs that are still to start are counted.
OpenJobs_Begin == {j \in Job \ RebootJob : row[j].status = "BEGIN"}

\* ja_jobdb_get_jobs
OpenJobs == {j \in Job \ RebootJob : row[j].status \notin {"INIT", "CLOSE"}}

\* ja_reboot_killall: the commands of all running jobs are killed, and their
\* processes write a result.
KillAll ==
  LET hit == {p \in proc : /\ p.exec /\ p.job \notin RebootJob
                          /\ row[p.job].status = "RUN" /\ row[p.job].pid = p.no}
  IN /\ proc' = proc \ hit
     /\ files' = [k \in Job |-> IF \E p \in hit : p.job = k /\ p.linked
                                THEN [files[k] EXCEPT !.by = row[k].req] ELSE files[k]]

\* ja_reboot_chkend: the other jobs are waited for, or killed; then the flag
\* file is removed, which lets the reboot command go on.
ja_reboot_chkend(j) ==
  /\ Walk(j, "RUN") /\ j \in rflag
  /\ \/ /\ OpenJobs # {} /\ RebootMode = 1
        /\ NextJob(j) /\ UNCHANGED <<rflag, proc, files>>
     \/ /\ OpenJobs = {} \/ RebootMode = 0 \/ RebootWaitTime > 0
        /\ rflag' = rflag \ {j} /\ Within(j, "reboot")
        /\ KillAll
  /\ UNCHANGED <<row, flag, list, listener, takeback, missed, overtaken, alien, up, bounds>>

\* ... and the executive waits until the process of the reboot is gone.
RebootWaits(j) ==
  /\ At("reboot") /\ j \in exe.cur /\ ~Alive(j, list[j].pid)
  /\ EndChecked(j)
  /\ UNCHANGED <<flag, rflag, listener, takeback, missed, host, up, bounds>>

\* ja_agent_send: the server answers.  The result of a stop command is not
\* sent.
ja_agent_send(j) ==
  /\ Walk(j, "END")
  /\ Within(j, "sent")
  /\ UNCHANGED <<table, list, listener, takeback, missed, overtaken, host, up, bounds>>

\* ja_agent_send fails, before or after the server has the result; after
\* CONFIG_SEND_RETRY attempts the job is closed, and stays in the list.
SendFails(j) ==
  /\ Walk(j, "END") /\ j \notin AbortJob /\ Fault
  /\ LET o == [list[j] EXCEPT !.send_retry = @ + 1]
     IN IF o.send_retry >= SendRetry THEN ja_jobdb_update(j, [o EXCEPT !.status = "CLOSE"])
        ELSE list' = [list EXCEPT ![j] = o] /\ UNCHANGED <<row, overtaken>>
  /\ NextJob(j)
  /\ UNCHANGED <<flag, rflag, listener, takeback, missed, host, up, reqs, forks, crashes>>

\* ja_agent_close after the answer.  The files of a job that has left a
\* result are removed: a process that still holds them writes to nobody.
ja_agent_close(j) ==
  /\ At("sent") /\ j \in exe.cur
  /\ ja_jobdb_update(j, [list[j] EXCEPT !.status = "CLOSE"])
  /\ IF list[j].result > 0
     THEN /\ files' = [files EXCEPT ![j] = [exist |-> FALSE, by |-> 0]]
          /\ proc' = {IF p.job = j THEN [p EXCEPT !.linked = FALSE] ELSE p : p \in proc}
     ELSE UNCHANGED <<files, proc>>
  /\ SameJob
  /\ UNCHANGED <<flag, rflag, listener, takeback, missed, alien, up, bounds>>

\* A closed object leaves the list.
ListRemove(j) ==
  /\ Walk(j, "CLOSE")
  /\ list' = [list EXCEPT ![j] = NoObject]
  /\ NextJob(j)
  /\ UNCHANGED <<table, listener, takeback, missed, overtaken, host, up, bounds>>

\* ja_dbmain_remove_oldjob, after the backup: closed rows that are old.
ja_dbmain_remove_oldjob(j) ==
  /\ At("idle") /\ row[j].status = "CLOSE"
  /\ row' = [row EXCEPT ![j] = NoRow]
  /\ UNCHANGED <<flag, rflag, memory, host, up, bounds>>

ExecutiveNext ==
  \/ PassBegin \/ ja_job_object_list_add \/ PassEnd
  \/ \E j \in Job :
       \/ ja_agent_run(j) \/ RunUpdate(j) \/ RunFails(j)
       \/ ja_agent_end(j) \/ ja_reboot_chkend(j) \/ RebootWaits(j)
       \/ ja_agent_send(j) \/ SendFails(j) \/ ja_agent_close(j) \/ ListRemove(j)
-----------------------------------------------------------------------------
(* The agent and its host go down and come up *)

Down == /\ up /\ crashes < MaxCrashes /\ crashes' = crashes + 1
        /\ up' = FALSE
        /\ list' = [j \in Job |-> NoObject] /\ exe' = Resting
        /\ listener' = {} /\ takeback' = {}

AgentCrash ==
  Down /\ UNCHANGED <<table, missed, overtaken, host, reqs, forks, faults>>

\* A pid of a job that was running may belong to anyone afterwards.
HostReboot ==
  /\ Down
  /\ proc' = {}
  /\ \/ UNCHANGED <<alien, faults>>
     \/ Fault /\ \E j \in Job : /\ row[j].status = "RUN"
                                /\ alien' = {<<j, row[j].pid>>}
  /\ UNCHANGED <<table, missed, overtaken, files, reqs, forks>>

\* Seeded fault: every job is put into the list.
AgentStart_All ==
  /\ ~up /\ up' = TRUE
  /\ list' = [j \in Job |-> [status |-> row[j].status, pid |-> row[j].pid, req |-> row[j].req,
                             result |-> row[j].result, send_retry |-> 0]]
  /\ UNCHANGED <<table, missed, overtaken, exe, listener, takeback, host, bounds>>

\* ja_job_object_list_new: all the rows that are not closed.  The start of
\* an agent takes longer than the second of a child that failed.
AgentStart ==
  /\ ~up /\ up' = TRUE
  /\ \A p \in proc : p.exec
  /\ list' = [j \in Job |->
                IF row[j].status \in {"INIT", "CLOSE"} THEN NoObject
                ELSE [status |-> row[j].status, pid |-> row[j].pid, req |-> row[j].req,
                      result |-> row[j].result, send_retry |-> 0]]
  /\ missed' = {}
  /\ UNCHANGED <<table, exe, listener, takeback, overtaken, host, bounds>>
-----------------------------------------------------------------------------
Next ==
  \/ ListenerNext \/ ExecutiveNext \/ ProcessNext
  \/ \E j \in Job : ja_dbmain_remove_oldjob(j)
  \/ AgentCrash \/ HostReboot \/ AgentStart

Spec == Init /\ [][Next]_vars

\* The executive and the listener never stop for good, an agent that is down
\* is started again, and a command comes to its end.
Fairness ==
  /\ WF_vars(ExecutiveNext) /\ WF_vars(AgentStart)
  /\ \A j \in Job : WF_vars(ListenerFlag(j)) /\ WF_vars(ListenerTakesBack(j))
  /\ \A j \in Job, n \in 1 .. (MaxRequests + MaxCrashes) :
       WF_vars(\E p \in proc : Pid(p) = <<j, n>> /\ (CommandEnds(p) \/ ChildFails(p)))

FairSpec == Spec /\ Fairness
-----------------------------------------------------------------------------
(* Properties *)

\* The agent does for each job what AgentService says.  A request that is
\* taken back still counts as accepted as long as it is in the list, or as a
\* child is about to write its row; one that is taken back after its start
\* (see overtaken) counts as done until its row is ended or closed: what the
\* listener accepts for the job in the meantime is not held to the promise.
Accepted(j) ==
  \/ row[j].status = "BEGIN" \/ list[j].status = "BEGIN"
  \/ row[j].status \in {"INIT", "CLOSE"} /\ \E p \in proc : p.job = j /\ ~p.exec

Phase(j) == IF j \in overtaken THEN "done"
            ELSE IF Accepted(j) THEN "begin"
            ELSE IF row[j].status = "RUN" THEN "run"
            ELSE IF row[j].status = "END" THEN "done" ELSE "idle"

Service == INSTANCE AgentService WITH agent <- [j \in Job |-> Phase(j)]

ImplementsService == Service!Spec

\* A command is started once per request; only a stop of the agent between
\* the fork and the write of the row makes it start again.
RunsOncePerRequest == \A j \in Job : forks[j] <= reqs[j] + crashes

\* The result the executive sends was written for the request it answers,
\* unless a stop of the agent has left a command without its row.
ResultIsOfThisRequest ==
  \A j \in Job : list[j].status = "END" =>
    list[j].result \in {0, list[j].req} \/ crashes > 0

\* A request in the table is known to the executive, or the flag tells it,
\* or the listener is about to.  It is passed over only when the job was
\* given up and is still in the list, or when it runs in the list although
\* the listener has closed its row.
RequestIsSeen ==
  \A j \in Job : up /\ row[j].status = "BEGIN" =>
    \/ flag \/ j \in listener \cup takeback \/ exe.at = "add" \/ list[j].status = "BEGIN"
    \/ j \in missed \/ (j \in overtaken /\ list[j].status \in {"RUN", "END"})

\* An accepted request is closed, unless a request was passed over (which a
\* reboot waits for as well), or a pid is taken for an alien process.
RequestIsClosed ==
  \A j \in Job : row[j].status = "BEGIN"
                   ~> row[j].status \in {"INIT", "CLOSE"} \/ missed # {} \/ alien # {}

\* When a reboot that waits for the open jobs goes ahead, no command of
\* another job is alive, and none is started until the host is down: only a
\* command whose row the listener has closed after its start, or that a stop
\* of the agent has left without its row, can be hit.
RebootHitsNoJob ==
  exe.at = "reboot" /\ RebootMode = 1 /\ RebootWaitTime = 0 =>
    \A p \in proc : p.job \in RebootJob \cup overtaken \/ crashes > 0
=============================================================================
