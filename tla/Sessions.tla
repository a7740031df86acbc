------------------------------ MODULE Sessions ------------------------------
(***************************************************************************)
(* The agentless icons of one running jobnet.  jarun writes a row of       *)
(* ja_session_table for the icon that opens a session and starts a process *)
(* jobarg_session, which logs in to the host, runs the icon's command and  *)
(* then waits in the row for the next icon of the session.  jajob asks it  *)
(* through the row to stop; jajobnet deletes the rows of a jobnet that is  *)
(* stopped or ends.  All of them are processes of their own; a transaction *)
(* is one step.                                                            *)
(*                                                                         *)
(* What lies between the agentless icons is left to JobScheduler: an icon  *)
(* becomes READY when the icons Before it have ended.                      *)
(***************************************************************************)
EXTENDS Integers, FiniteSets

CONSTANTS
  Icon, Session,
  SessionOf,   \* session_id of an icon; one of its own for ONETIME
  Flag,        \* session_flag
  Before,      \* the icons that must have ended before an icon is READY
  NoCommand,   \* icons without a command, or in test mode
  StopCode,    \* icons whose command may end with a stop code
  MaxOps,      \* bound: operations of the operator
  MaxFaults,   \* bound: failed starts and connections, dead processes
  MaxCrashes   \* bound: restarts of the server

ASSUME SessionsShape ==
  /\ SessionOf \in [Icon -> Session]
  /\ Flag \in [Icon -> {"ONETIME", "CONNECT", "CONTINUE", "CLOSE"}]
  /\ Before \in [Icon -> SUBSET Icon]
  /\ NoCommand \subseteq Icon /\ StopCode \subseteq Icon
  /\ MaxOps \in Nat /\ MaxFaults \in Nat /\ MaxCrashes \in Nat

VARIABLES
  status, method,  \* ja_run_job_table
  jobnet,          \* status of the jobnet and of its summary row, abort_flag
  row,             \* ja_session_table
  launch,          \* the icon whose process jarun is starting
  seen,            \* icons jajob has selected with the method ABORT
  procs, pids,     \* the processes jobarg_session, and how many there were
  runs, execs,     \* starts of an icon, and commands sent for it
  early,           \* sessions whose row an abort deleted before the process
                   \* had entered its pid
  died,            \* sessions whose process died, or could not be started
  ops, faults, crashes

icons  == <<status, method, jobnet>>
server == <<launch, seen>>
ghosts == <<runs, execs, early, died>>
bounds == <<ops, faults, crashes>>
vars   == <<status, method, jobnet, row, launch, seen, procs, pids, runs, execs,
            early, died, ops, faults, crashes>>

Opens(i) == Flag[i] \in {"ONETIME", "CONNECT"}

NoRow == [status |-> "NONE"]
Row   == [status : {"BEGIN", "END"}, icon : Icon, force : BOOLEAN, pid : Nat]
Process == [pid : Nat \ {0}, session : Session, open : BOOLEAN, ok : BOOLEAN,
            at : {"main", "loop", "connect", "exec", "read", "done"},
            job : SUBSET Icon]    \* inner_job_id, once it has been read

TypeOK ==
  /\ status \in [Icon -> {"BEGIN", "READY", "RUN", "END", "RUNERR"}]
  /\ method \in [Icon -> {"NORMAL", "ABORT", "RERUN", "SKIP"}]
  /\ jobnet \in [net : {"RUN", "END", "ENDERR"}, sum : {"RUN", "END", "ENDERR"},
                 abort : BOOLEAN]
  /\ row \in [Session -> Row \cup {NoRow}]
  /\ launch \subseteq Icon /\ seen \subseteq Icon
  /\ procs \subseteq Process /\ pids \in Nat
  /\ \A p \in procs : IF p.at \in {"main", "loop"} THEN p.job = {}
                        ELSE \E i \in Icon : p.job = {i}
  /\ runs \in [Icon -> Nat] /\ execs \in [Icon -> Nat]
  /\ early \subseteq Session /\ died \subseteq Session
  /\ ops \in 0..MaxOps /\ faults \in 0..MaxFaults /\ crashes \in 0..MaxCrashes

Init ==
  /\ status = [i \in Icon |-> IF Before[i] = {} THEN "READY" ELSE "BEGIN"]
  /\ method = [i \in Icon |-> "NORMAL"]
  /\ jobnet = [net |-> "RUN", sum |-> "RUN", abort |-> FALSE]
  /\ row = [s \in Session |-> NoRow]
  /\ launch = {} /\ seen = {} /\ procs = {} /\ pids = 0
  /\ runs = [i \in Icon |-> 0] /\ execs = [i \in Icon |-> 0]
  /\ early = {} /\ died = {}
  /\ ops = 0 /\ faults = 0 /\ crashes = 0

Fault == faults < MaxFaults /\ faults' = faults + 1

RowOf(i) == row[SessionOf[i]]
Deleted(S) == [s \in Session |-> IF s \in S THEN NoRow ELSE row[s]]

\* Seeded fault: the icon is given the status of a jobnet.
ja_set_runerr_Enderr(i) == status' = [status EXCEPT ![i] = "ENDERR"]

\* What ja_set_runerr and ja_flow do to the icons.
ja_set_runerr(i) == status' = [status EXCEPT ![i] = "RUNERR"]

ja_flow(i) ==
  IF jobnet.net # "RUN" THEN ja_set_runerr(i)
  ELSE LET ended == [status EXCEPT ![i] = "END"]
           Entered(k) == /\ i \in Before[k] /\ ended[k] = "BEGIN"
                         /\ \A b \in Before[k] : ended[b] = "END"
       IN  status' = [k \in Icon |-> IF Entered(k) THEN "READY" ELSE ended[k]]
-----------------------------------------------------------------------------
(* jarun *)

\* jarun works on one icon at a time; it takes the READY icon to RUN.
Starts(i, Method) ==
  /\ launch = {} /\ status[i] = "READY" /\ method[i] \in Method

\* An icon that opens a session: its row is committed, the process is still
\* to be started.
OpenSession(i) ==
  /\ Starts(i, {"NORMAL", "RERUN"}) /\ Opens(i)
  /\ runs' = [runs EXCEPT ![i] = @ + 1]
  /\ IF RowOf(i) # NoRow
     THEN ja_set_runerr(i) /\ UNCHANGED <<row, launch>>
     ELSE /\ status' = [status EXCEPT ![i] = "RUN"]
          /\ row' = [row EXCEPT ![SessionOf[i]] =
                       [status |-> "BEGIN", icon |-> i, force |-> FALSE, pid |-> 0]]
          /\ launch' = {i}
  /\ UNCHANGED <<method, jobnet, seen, procs, pids, execs, early, died, bounds>>

\* Seeded fault: a second icon takes over a session in use.
UseSession_Any(i) ==
  /\ Starts(i, {"NORMAL", "RERUN"}) /\ ~Opens(i)
  /\ runs' = [runs EXCEPT ![i] = @ + 1]
  /\ IF RowOf(i).status = "NONE"
     THEN ja_set_runerr(i) /\ UNCHANGED row
     ELSE /\ status' = [status EXCEPT ![i] = "RUN"]
          /\ row' = [row EXCEPT ![SessionOf[i]] =
                       [@ EXCEPT !.status = "BEGIN", !.icon = i, !.force = FALSE]]
  /\ UNCHANGED <<method, jobnet, server, procs, pids, execs, early, died, bounds>>

\* An icon that goes on in a session or closes it.
UseSession(i) ==
  /\ Starts(i, {"NORMAL", "RERUN"}) /\ ~Opens(i)
  /\ runs' = [runs EXCEPT ![i] = @ + 1]
  /\ IF RowOf(i).status # "END"
     THEN ja_set_runerr(i) /\ UNCHANGED row
     ELSE /\ status' = [status EXCEPT ![i] = "RUN"]
          /\ row' = [row EXCEPT ![SessionOf[i]] =
                       [@ EXCEPT !.status = "BEGIN", !.icon = i, !.force = FALSE]]
  /\ UNCHANGED <<method, jobnet, server, procs, pids, execs, early, died, bounds>>

\* system() starts jobarg_session in the background.
Launched(i) ==
  /\ i \in launch /\ launch' = {}
  /\ pids' = pids + 1
  /\ procs' = procs \cup {[pid |-> pids + 1, session |-> SessionOf[i], open |-> FALSE,
                           ok |-> FALSE, at |-> "main", job |-> {}]}
  /\ UNCHANGED <<icons, row, seen, ghosts, bounds>>

\* system() fails; the row stays.
LaunchFails(i) ==
  /\ i \in launch /\ launch' = {} /\ Fault
  /\ ja_set_runerr(i) /\ died' = died \cup {SessionOf[i]}
  /\ UNCHANGED <<method, jobnet, row, seen, procs, pids, runs, execs, early, ops, crashes>>

jarun_skip(i) ==
  /\ Starts(i, {"SKIP"})
  /\ ja_flow(i)
  /\ UNCHANGED <<method, jobnet, row, server, procs, pids, ghosts, bounds>>

JarunNext ==
  \E i \in Icon : \/ OpenSession(i) \/ UseSession(i) \/ Launched(i)
                  \/ LaunchFails(i) \/ jarun_skip(i)
-----------------------------------------------------------------------------
(* jajob *)

\* Only an icon with the method ABORT makes a difference.
JajobSelect ==
  /\ seen = {}
  /\ seen' = {i \in Icon : status[i] = "RUN" /\ method[i] = "ABORT"}
  /\ seen' # {}
  /\ UNCHANGED <<icons, row, launch, procs, pids, ghosts, bounds>>

ja_process_check(pid) == \E p \in procs : p.pid = pid

\* A process is on its way that has not entered its pid yet.
Starting(s) ==
  \/ \E i \in launch : SessionOf[i] = s
  \/ \E p \in procs : p.session = s /\ p.at = "main"

\* Seeded fault: a process that is gone is only asked to stop.
jajob_icon_less_abort_Asks(i) ==
  LET s == SessionOf[i] IN
  /\ i \in seen /\ seen' = seen \ {i}
  /\ row' = IF row[s] = NoRow THEN row ELSE [row EXCEPT ![s].force = TRUE]
  /\ UNCHANGED <<icons, launch, procs, pids, ghosts, bounds>>

\* The row that was read for the abort may be another icon's by now.
jajob_icon_less_abort(i) ==
  LET s == SessionOf[i] IN
  /\ i \in seen /\ seen' = seen \ {i}
  /\ CASE row[s] = NoRow -> UNCHANGED <<status, row, early>>
       [] row[s] # NoRow /\ ~ja_process_check(row[s].pid) ->
            /\ row' = Deleted({s}) /\ ja_set_runerr(i)
            /\ early' = IF Starting(s) THEN early \cup {s} ELSE early
       [] OTHER ->
            /\ row' = [row EXCEPT ![s].force = TRUE]
            /\ UNCHANGED <<status, early>>
  /\ UNCHANGED <<method, jobnet, launch, procs, pids, runs, execs, died, bounds>>

JajobNext == JajobSelect \/ \E i \in Icon : jajob_icon_less_abort(i)
-----------------------------------------------------------------------------
(* jobarg_session *)

Becomes(p, q) == procs' = (procs \ {p}) \cup {q}
Exits(p)      == procs' = procs \ {p}

\* Seeded fault: a deleted row is no reason to stop.
check_force_stop_Row(s) == row[s] # NoRow /\ row[s].force

\* The forced stop of a row, and the deleted row of a jobnet that is stopped.
check_force_stop(s) == row[s] # NoRow => row[s].force

\* The start of main: the process enters its pid.  Without a row it is not
\* wanted any more.
SessionMain(p) ==
  /\ p.at = "main"
  /\ IF row[p.session] = NoRow
     THEN Exits(p) /\ UNCHANGED row
     ELSE /\ row' = [row EXCEPT ![p.session].pid = p.pid]
          /\ Becomes(p, [p EXCEPT !.at = "loop"])
  /\ UNCHANGED <<icons, server, pids, ghosts, bounds>>

\* Seeded fault: the status of the row is not looked at.
ReadRow_Again(p) ==
  LET r == row[p.session] IN
  /\ p.at = "loop"
  /\ IF r = NoRow THEN Exits(p)
     ELSE LET at == CASE Opens(r.icon)             -> "connect"
                      [] Flag[r.icon] = "CONTINUE" -> "exec"
                      [] Flag[r.icon] = "CLOSE"    -> "done"
          IN Becomes(p, [p EXCEPT !.job = {r.icon}, !.at = at, !.ok = (at = "done")])
  /\ UNCHANGED <<icons, row, server, pids, ghosts, bounds>>

\* The start of process_session.
ReadRow(p) ==
  LET r == row[p.session] IN
  /\ p.at = "loop" /\ r.status # "END"
  /\ IF r = NoRow THEN Exits(p)
     ELSE LET at == CASE Opens(r.icon)             -> "connect"
                      [] Flag[r.icon] = "CONTINUE" -> "exec"
                      [] Flag[r.icon] = "CLOSE"    -> "done"
          IN Becomes(p, [p EXCEPT !.job = {r.icon}, !.at = at, !.ok = (at = "done")])
  /\ UNCHANGED <<icons, row, server, pids, ghosts, bounds>>

\* session_continue and session_close refuse a host that is disabled, and
\* ssh_connect may fail.
HostFails(p) ==
  /\ \/ p.at \in {"connect", "exec", "read"}
     \/ p.at = "done" /\ p.ok /\ \E i \in p.job : Flag[i] = "CLOSE"
  /\ Fault
  /\ Becomes(p, [p EXCEPT !.at = "done", !.ok = FALSE])
  /\ UNCHANGED <<icons, row, server, pids, ghosts, ops, crashes>>

ssh_connect(p) ==
  /\ p.at = "connect"
  /\ Becomes(p, IF check_force_stop(p.session)
                THEN [p EXCEPT !.at = "done", !.ok = FALSE]
                ELSE [p EXCEPT !.at = "exec", !.open = TRUE])
  /\ UNCHANGED <<icons, row, server, pids, ghosts, bounds>>

\* ssh_exec up to the transmission of the command.
ssh_exec(p) ==
  /\ p.at = "exec"
  /\ \E i \in p.job :
       IF i \in NoCommand
       THEN /\ Becomes(p, [p EXCEPT !.at = "done", !.ok = TRUE])
            /\ UNCHANGED execs
       ELSE /\ Becomes(p, [p EXCEPT !.at = "read"])
            /\ execs' = [execs EXCEPT ![i] = @ + 1]
  /\ UNCHANGED <<icons, row, server, pids, runs, early, died, bounds>>

\* ssh_read and ssh_read_stderr look at the row every second.
ssh_read(p) ==
  /\ p.at = "read" /\ check_force_stop(p.session)
  /\ Becomes(p, [p EXCEPT !.at = "done", !.ok = FALSE])
  /\ UNCHANGED <<icons, row, server, pids, ghosts, bounds>>

\* The command has ended; the rest of ssh_exec.
CommandEnds(p) ==
  /\ p.at = "read"
  /\ \E stop \in {FALSE} \cup {TRUE : i \in p.job \cap StopCode} :
       Becomes(p, [p EXCEPT !.at = "done", !.ok = ~stop /\ ~check_force_stop(p.session)])
  /\ UNCHANGED <<icons, row, server, pids, ghosts, bounds>>

\* Seeded fault: a connection that failed leaves its row.
Finished_Connect(i, ok) == Flag[i] = "ONETIME" \/ (Flag[i] = "CLOSE" /\ ok)

\* The session is over after this icon.
Finished(i, ok) ==
  \/ Flag[i] = "ONETIME"
  \/ Flag[i] = "CONNECT" /\ ~ok
  \/ Flag[i] = "CLOSE" /\ ok

\* The last transaction of process_session.  The row is addressed by its
\* session: it may be gone, or another icon's.
process_session(p) ==
  /\ p.at = "done"
  /\ \E i \in p.job :
       LET s == p.session
           ok == p.ok /\ (Finished(i, p.ok) \/ row[s] # NoRow)
       IN /\ IF Finished(i, p.ok) THEN row' = Deleted({s}) /\ Exits(p)
             ELSE IF row[s] # NoRow
             THEN /\ row' = [row EXCEPT ![s].status = "END"]
                  /\ Becomes(p, [p EXCEPT !.at = "loop", !.job = {}])
             ELSE UNCHANGED row /\ Exits(p)
          /\ IF ok THEN ja_flow(i) ELSE ja_set_runerr(i)
  /\ UNCHANGED <<method, jobnet, server, pids, ghosts, bounds>>

\* The process is killed, or its host goes down with it.
ProcessDies(p) ==
  /\ Fault /\ Exits(p)
  /\ died' = died \cup {p.session}
  /\ UNCHANGED <<icons, row, server, pids, runs, execs, early, ops, crashes>>

SessionStep(p) ==
  \/ SessionMain(p) \/ ReadRow(p) \/ ssh_connect(p) \/ ssh_exec(p) \/ ssh_read(p)
  \/ process_session(p)

SessionNext ==
  \E p \in procs : SessionStep(p) \/ CommandEnds(p) \/ HostFails(p) \/ ProcessDies(p)
-----------------------------------------------------------------------------
(* jajobnet *)

\* The rows are deleted first, so the abort of the icons that run finds
\* none.
jajobnet_kill ==
  /\ jobnet.sum = "RUN" /\ jobnet.abort
  /\ status' = [i \in Icon |-> IF status[i] = "READY" THEN "BEGIN" ELSE status[i]]
  /\ row' = Deleted(Session)
  /\ jobnet' = [jobnet EXCEPT !.net = "ENDERR",
                              !.sum = IF \E i \in Icon : status[i] = "RUN" THEN @ ELSE "ENDERR"]
  /\ UNCHANGED <<method, server, procs, pids, ghosts, bounds>>

\* Seeded fault: an open session outlives the jobnet.
JobnetEnds_Open ==
  /\ jobnet.sum = "RUN" /\ ~jobnet.abort /\ \A i \in Icon : status[i] = "END"
  /\ jobnet' = [jobnet EXCEPT !.net = "END", !.sum = "END"]
  /\ UNCHANGED <<status, method, row, server, procs, pids, ghosts, bounds>>

\* The jobnet has reached its end icon (ja_set_end_jobnet).
JobnetEnds ==
  /\ jobnet.sum = "RUN" /\ ~jobnet.abort /\ \A i \in Icon : status[i] = "END"
  /\ jobnet' = [jobnet EXCEPT !.net = "END", !.sum = "END"]
  /\ row' = Deleted(Session)
  /\ UNCHANGED <<status, method, server, procs, pids, ghosts, bounds>>

JajobnetNext == jajobnet_kill \/ JobnetEnds
-----------------------------------------------------------------------------
(* The operator, and the server *)

Operator ==
  /\ ops < MaxOps /\ ops' = ops + 1
  /\ UNCHANGED <<row, server, procs, pids, ghosts, faults, crashes>>

SetStop(i) ==
  /\ status[i] = "RUN" /\ method' = [method EXCEPT ![i] = "ABORT"]
  /\ Operator /\ UNCHANGED <<status, jobnet>>

SetReStart(i) ==
  /\ status[i] = "RUNERR" /\ ~jobnet.abort
  /\ method' = [method EXCEPT ![i] = "RERUN"]
  /\ status' = [status EXCEPT ![i] = "READY"]
  /\ Operator /\ UNCHANGED jobnet

SetSkip(i) ==
  /\ status[i] \in {"BEGIN", "READY", "RUNERR"} /\ method[i] # "SKIP" /\ ~jobnet.abort
  /\ method' = [method EXCEPT ![i] = "SKIP"]
  /\ status' = [status EXCEPT ![i] = IF @ = "RUNERR" THEN "READY" ELSE @]
  /\ Operator /\ UNCHANGED jobnet

StopRunningJobnet ==
  /\ jobnet.sum = "RUN" /\ ~jobnet.abort
  /\ jobnet' = [jobnet EXCEPT !.abort = TRUE]
  /\ Operator /\ UNCHANGED <<status, method>>

OperatorNext ==
  StopRunningJobnet \/ \E i \in Icon : SetStop(i) \/ SetReStart(i) \/ SetSkip(i)

\* jarun and jajob start anew; the processes jobarg_session go on.
ServerRestart ==
  /\ crashes < MaxCrashes /\ crashes' = crashes + 1
  /\ launch' = {} /\ seen' = {}
  /\ UNCHANGED <<icons, row, procs, pids, ghosts, ops, faults>>
-----------------------------------------------------------------------------
Next ==
  \/ JarunNext \/ JajobNext \/ SessionNext \/ JajobnetNext
  \/ OperatorNext \/ ServerRestart

Spec == Init /\ [][Next]_vars

\* The process waits for an answer of its host, in one of the loops of the
\* handshake, the login and the transmission: they have no limit (the alarm is
\* off) and do not look at the row.  Without a command nothing is sent.
AwaitsHost(p) ==
  p.at = "connect" \/ (p.at = "exec" /\ p.job \cap NoCommand = {})

\* jarun, jajob, jajobnet and every session process keep going, except that
\* the host need not answer.  A command on the host may run for ever, and the
\* operator need not do anything.
MaxPid == Cardinality(Icon) + MaxOps

Fairness ==
  /\ \A i \in Icon : /\ WF_vars(OpenSession(i)) /\ WF_vars(UseSession(i))
                     /\ WF_vars(Launched(i) \/ LaunchFails(i))
                     /\ WF_vars(jarun_skip(i)) /\ WF_vars(jajob_icon_less_abort(i))
  /\ WF_vars(JajobSelect) /\ WF_vars(JajobnetNext)
  /\ \A n \in 1..MaxPid :
       WF_vars(\E p \in procs : p.pid = n /\ ~AwaitsHost(p) /\ SessionStep(p))

FairSpec == Spec /\ Fairness
-----------------------------------------------------------------------------
(* Properties *)

\* An icon sends its command at most once for each time it is started
\* (process_session, ssh_exec), whatever processes share its session.  The
\* exception is real: an abort that finds no pid yet deletes the row of a
\* process that is starting, and a rerun gives that process a row again.
CommandRunsOnce ==
  \A i \in Icon : SessionOf[i] \in early \/ execs[i] <= runs[i]

\* A command of CONTINUE, and the end of a session, happen in a process that
\* has logged in: it is the one that served the CONNECT (jarun_icon_less
\* hands a session on only when the row says END).
ContinueIsConnected ==
  \A p \in procs : \A i \in p.job :
    ~Opens(i) => p.open \/ p.session \in early

\* An icon that failed does not leave a row of its session behind, which would
\* make every rerun fail as a double registration, unless its process could
\* not be started (LaunchFails) or died.
RerunFindsNoRow ==
  \A i \in Icon :
    Opens(i) /\ status[i] = "RUNERR" /\ RowOf(i) # NoRow /\ RowOf(i).icon = i
      => SessionOf[i] \in early \cup died

\* A RUN icon that nobody works on and nothing will end: neither the abort
\* of jajob nor a process finds its row.
Orphan(i) ==
  /\ status[i] = "RUN" /\ i \notin launch
  /\ RowOf(i) # NoRow => RowOf(i).icon # i \/ RowOf(i).status = "END"
  /\ \A p \in procs : i \notin p.job

\* An icon is orphaned only where the jobnet is stopped, a process died or an
\* abort came too early.
OrphanHasCause ==
  \A i \in Icon : Orphan(i) => jobnet.abort \/ SessionOf[i] \in early \cup died

\* The process of the icon waits for its host.
HostIsSilent(i) == \E p \in procs : i \in p.job /\ AwaitsHost(p)

\* An icon that is asked to stop leaves RUN, even when its command never ends,
\* its process is dead or was never started, unless it is orphaned or its host
\* never answers again.
AbortEnds ==
  \A i \in Icon : status[i] = "RUN" /\ method[i] = "ABORT"
                    ~> \/ status[i] # "RUN" \/ Orphan(i)
                       \/ []HostIsSilent(i)

\* A jobnet that is stopped ends, unless an icon of it is orphaned or waits for
\* a host that never answers again.
StopEnds == jobnet.abort ~> \/ jobnet.sum # "RUN" \/ \E i \in Icon : Orphan(i)
                            \/ \E i \in Icon : []HostIsSilent(i)

\* When the jobnet is over its session processes go, with the connections
\* they hold open (process_session finds no row).
SessionsAreClosed == jobnet.sum # "RUN" ~> procs = {} \/ early # {}

\* JAJOBNET000001: "jobnet was forced to stop"; where the hosts answer, it ends.
StoppedJobnetEnds ==
  jobnet.abort ~> jobnet.sum # "RUN" \/ \E i \in Icon : []HostIsSilent(i)
=============================================================================
