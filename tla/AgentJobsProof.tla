--------------------------- MODULE AgentJobsProof ---------------------------
(***************************************************************************)
(* Theorems about AgentJobs, for every set of jobs and every bound.        *)
(***************************************************************************)
EXTENDS AgentJobs, TLAPS

\* A step writes the row of job j and of no other, with these values.
RowSets(j, status, pid, req, result) ==
  /\ row' \in [Job -> Row]
  /\ \A k \in Job : k # j => row'[k] = row[k]
  /\ row'[j].status = status /\ row'[j].pid = pid
  /\ row'[j].req = req /\ row'[j].result = result

\* The same for the object in the executive's list.
ListSets(j, status, pid, req, result) ==
  /\ list' \in [Job -> Object]
  /\ \A k \in Job : k # j => list'[k] = list[k]
  /\ list'[j].status = status /\ list'[j].pid = pid
  /\ list'[j].req = req /\ list'[j].result = result

\* A row that is ended or closed with its object is not overtaken any more.
OvertakenSets(j, status) ==
  overtaken' = IF status = "RUN" THEN overtaken ELSE overtaken \ {j}

\* An update of the object with its row.
BothSet(j, status, result) ==
  /\ ListSets(j, status, list[j].pid, list[j].req, result)
  /\ RowSets(j, status, list[j].pid, list[j].req, result)
  /\ OvertakenSets(j, status)

\* ja_jobdb_update writes object and row.
LEMMA UpdateSets ==
  ASSUME TypeOK, NEW j \in Job, NEW o \in Object, o.status \in RowStatus,
         ja_jobdb_update(j, o)
  PROVE  /\ ListSets(j, o.status, o.pid, o.req, o.result)
         /\ RowSets(j, o.status, o.pid, o.req, o.result)
         /\ OvertakenSets(j, o.status)
  BY DEF ja_jobdb_update, ListSets, RowSets, OvertakenSets, TypeOK, Object, Row

\* The objects the executive writes.
LEMMA ObjectStatus ==
  ASSUME NEW x \in Object, NEW st \in RowStatus \ {"INIT"}
  PROVE  LET o == [x EXCEPT !.status = st]
         IN /\ o \in Object /\ o.status = st /\ o.pid = x.pid
            /\ o.req = x.req /\ o.result = x.result
  BY DEF Object

LEMMA ObjectRetry ==
  ASSUME NEW x \in Object
  PROVE  LET o == [x EXCEPT !.send_retry = @ + 1]
         IN /\ o \in Object /\ o.status = x.status /\ o.pid = x.pid
            /\ o.req = x.req /\ o.result = x.result
  BY DEF Object

\* What the steps of the executive do to object and row.
LEMMA RunUpdateSets ==
  ASSUME TypeOK, NEW j \in Job, RunUpdate(j)
  PROVE  BothSet(j, "RUN", list[j].result)
  <1> DEFINE o == [list[j] EXCEPT !.status = "RUN"]
  <1>1. list[j] \in Object /\ "RUN" \in RowStatus \ {"INIT"}
    BY DEF TypeOK, RowStatus
  <1>2. /\ o \in Object /\ o.status = "RUN" /\ o.pid = list[j].pid
        /\ o.req = list[j].req /\ o.result = list[j].result
    BY <1>1, ObjectStatus
  <1>3. ja_jobdb_update(j, o)
    BY DEF RunUpdate
  <1> HIDE DEF o
  <1> QED  BY <1>1, <1>2, <1>3, UpdateSets DEF BothSet

\* An object that ends with a result.
LEMMA EndSets ==
  ASSUME TypeOK, NEW j \in Job, NEW res \in Nat,
         ja_jobdb_update(j, [list[j] EXCEPT !.status = "END", !.result = res])
  PROVE  BothSet(j, "END", res)
  <1> DEFINE o == [list[j] EXCEPT !.status = "END", !.result = res]
  <1>1. list[j] \in Object /\ "END" \in RowStatus \ {"INIT"}
    BY DEF TypeOK, RowStatus
  <1>2. /\ o \in Object /\ o.status = "END" /\ o.pid = list[j].pid
        /\ o.req = list[j].req /\ o.result = res
    BY <1>1 DEF Object
  <1>3. ja_jobdb_update(j, o)
    OBVIOUS
  <1> HIDE DEF o
  <1> QED  BY <1>1, <1>2, <1>3, UpdateSets DEF BothSet

\* An object that is closed.
LEMMA CloseSets ==
  ASSUME TypeOK, NEW j \in Job, NEW x \in Object,
         x.pid = list[j].pid, x.req = list[j].req, x.result = list[j].result,
         ja_jobdb_update(j, [x EXCEPT !.status = "CLOSE"])
  PROVE  BothSet(j, "CLOSE", list[j].result)
  <1> DEFINE o == [x EXCEPT !.status = "CLOSE"]
  <1>1. "CLOSE" \in RowStatus \ {"INIT"}
    BY DEF RowStatus
  <1>2. /\ o \in Object /\ o.status = "CLOSE" /\ o.pid = list[j].pid
        /\ o.req = list[j].req /\ o.result = list[j].result
    BY <1>1, ObjectStatus
  <1>3. ja_jobdb_update(j, o)
    OBVIOUS
  <1> HIDE DEF o
  <1> QED  BY <1>1, <1>2, <1>3, UpdateSets DEF BothSet

\* SendFails tries again or closes the object.
LEMMA SendFailsSets ==
  ASSUME TypeOK, NEW j \in Job, SendFails(j)
  PROVE  \/ /\ UNCHANGED <<row, overtaken>>
            /\ ListSets(j, list[j].status, list[j].pid, list[j].req, list[j].result)
         \/ BothSet(j, "CLOSE", list[j].result)
  <1> DEFINE o == [list[j] EXCEPT !.send_retry = @ + 1]
  <1>1. /\ o \in Object /\ o.status = list[j].status /\ o.pid = list[j].pid
        /\ o.req = list[j].req /\ o.result = list[j].result
    BY ObjectRetry DEF TypeOK
  <1>2. \/ ja_jobdb_update(j, [o EXCEPT !.status = "CLOSE"])
        \/ list' = [list EXCEPT ![j] = o] /\ UNCHANGED <<row, overtaken>>
    BY DEF SendFails
  <1> HIDE DEF o
  <1>3. CASE list' = [list EXCEPT ![j] = o] /\ UNCHANGED <<row, overtaken>>
    BY <1>1, <1>3 DEF ListSets, TypeOK
  <1> QED  BY <1>1, <1>2, <1>3, CloseSets

\* EndChecked finds the job running, or ends it with a result that its files
\* tell, that the reboot job itself is, or that is none.
LEMMA EndCheckedSets ==
  ASSUME TypeOK, NEW j \in Job, EndChecked(j)
  PROVE  \/ /\ ja_jobfile_chkend(j) = 0 /\ NextJob(j) /\ UNCHANGED <<list, row, overtaken>>
         \/ /\ ja_jobfile_chkend(j) # 0 /\ (SameJob \/ NextJob(j))
            /\ \E res \in {0, files[j].by, list[j].req} : BothSet(j, "END", res)
  <1>1. 0 \in Nat /\ files[j].by \in Nat /\ list[j].req \in Nat
    BY DEF TypeOK, Object
  <1> DEFINE done == IF j \in RebootJob /\ files[j].by = 0 THEN list[j].req ELSE files[j].by
  <1>2. CASE /\ ja_jobfile_chkend(j) = 1 /\ SameJob
             /\ ja_jobdb_update(j, [list[j] EXCEPT !.status = "END", !.result = done])
    <2>1. done \in Nat /\ done \in {0, files[j].by, list[j].req}
      BY <1>1
    <2> HIDE DEF done
    <2>2. BothSet(j, "END", done)
      BY <1>2, <2>1, EndSets
    <2> QED  BY <1>2, <2>1, <2>2
  <1>3. CASE /\ ja_jobfile_chkend(j) = -1 /\ NextJob(j)
             /\ ja_jobdb_update(j, [list[j] EXCEPT !.status = "END", !.result = 0])
    <2>1. BothSet(j, "END", 0)
      BY <1>1, <1>3, EndSets
    <2> QED  BY <1>3, <2>1
  <1> QED  BY <1>2, <1>3 DEF EndChecked
-----------------------------------------------------------------------------
(* Types *)

\* The fields of a process.
LEMMA ProcessFields ==
  ASSUME TypeOK, NEW p \in proc
  PROVE  p.job \in Job /\ p.no \in Nat /\ p.req \in Nat /\ p.exec \in BOOLEAN
  BY DEF TypeOK, Process

\* A process that writes its result: it is gone, and the files are the ones of
\* a job still.
LEMMA WritesResultFiles ==
  ASSUME TypeOK, NEW p \in proc, WritesResult(p)
  PROVE  /\ p.exec /\ proc' = proc \ {p}
         /\ files' \in [Job -> [exist : BOOLEAN, by : Nat]]
         /\ \A k \in Job : k # p.job => files'[k] = files[k]
         /\ files'[p.job].exist = files[p.job].exist
         /\ files'[p.job].by \in {files[p.job].by, p.req}
  <1>1. p.job \in Job /\ p.req \in Nat
    BY ProcessFields
  <1> QED  BY <1>1 DEF WritesResult, TypeOK

\* ja_agent_close takes the files from the processes that hold them; else the
\* processes stay as they are.
LEMMA CloseProcesses ==
  ASSUME TypeOK, NEW j \in Job, ja_agent_close(j)
  PROVE  /\ proc' \subseteq Process
         /\ \A q \in proc' : \E p \in proc :
              q.job = p.job /\ q.no = p.no /\ q.req = p.req /\ q.exec = p.exec
         /\ \A p \in proc : p.job # j => p \in proc'
         /\ \A q \in proc' : q.job # j => q \in proc
  <1>1. CASE UNCHANGED proc
    BY <1>1 DEF TypeOK
  <1>2. CASE proc' = {IF p.job = j THEN [p EXCEPT !.linked = FALSE] ELSE p : p \in proc}
    <2> DEFINE After(p) == IF p.job = j THEN [p EXCEPT !.linked = FALSE] ELSE p
    <2>1. ASSUME NEW p \in proc
          PROVE  /\ After(p) \in Process /\ After(p).job = p.job /\ After(p).no = p.no
                 /\ After(p).req = p.req /\ After(p).exec = p.exec
                 /\ p.job # j => After(p) = p
      BY DEF TypeOK, Process
    <2>2. proc' = {After(p) : p \in proc}
      BY <1>2
    <2> HIDE DEF After
    <2> QED  BY <2>1, <2>2
  <1> QED  BY <1>1, <1>2 DEF ja_agent_close

\* ... and a result leaves with them.
LEMMA CloseFiles ==
  ASSUME TypeOK, NEW j \in Job, ja_agent_close(j)
  PROVE  /\ files' \in [Job -> [exist : BOOLEAN, by : Nat]]
         /\ \A k \in Job : k # j => files'[k] = files[k]
  <1>1. files' = files \/ files' = [files EXCEPT ![j] = [exist |-> FALSE, by |-> 0]]
    BY DEF ja_agent_close
  <1>2. [exist |-> FALSE, by |-> 0] \in [exist : BOOLEAN, by : Nat]
    OBVIOUS
  <1>3. files \in [Job -> [exist : BOOLEAN, by : Nat]]
    BY DEF TypeOK
  <1> QED  BY <1>1, <1>2, <1>3

\* The process that ja_agent_run starts.
NewProcess(j) == [job |-> j, no |-> forks[j] + 1, req |-> list[j].req,
                  exec |-> <<j, list[j].req>> \notin CannotExec, linked |-> TRUE]

LEMMA RunSets ==
  ASSUME TypeOK, NEW j \in Job, ja_agent_run(j)
  PROVE  /\ ListSets(j, list[j].status, forks[j] + 1, list[j].req, list[j].result)
         /\ NewProcess(j) \in Process /\ proc' = proc \cup {NewProcess(j)}
  <1>1. forks[j] \in Nat /\ list[j] \in Object
    BY DEF TypeOK
  <1>2. list[j].req \in Nat
    BY <1>1 DEF Object
  <1>3. NewProcess(j) \in Process
    BY <1>1, <1>2 DEF NewProcess, Process
  <1>4. proc' = proc \cup {NewProcess(j)} /\ list' = [list EXCEPT ![j].pid = forks[j] + 1]
    BY DEF ja_agent_run, NewProcess
  <1>5. ListSets(j, list[j].status, forks[j] + 1, list[j].req, list[j].result)
    BY <1>1, <1>4 DEF ListSets, TypeOK, Object
  <1> QED  BY <1>3, <1>4, <1>5

\* The rows that processes and listener write.
LEMMA ChildFailsSets ==
  ASSUME TypeOK, NEW p \in proc, ChildFails(p)
  PROVE  RowSets(p.job, "END", 0, p.req, 0)
  <1>1. p.job \in Job /\ p.req \in Nat
    BY ProcessFields
  <1>2. row' = [row EXCEPT ![p.job] = [status |-> "END", pid |-> 0, req |-> p.req, result |-> 0]]
    BY DEF ChildFails
  <1>3. row \in [Job -> Row] /\ "END" \in RowStatus
    BY DEF TypeOK, RowStatus
  <1> QED  BY <1>1, <1>2, <1>3 DEF RowSets, Row

LEMMA BeginSets ==
  ASSUME TypeOK, NEW j \in Job, ja_agent_begin(j), row[j].status \in {"INIT", "CLOSE"}
  PROVE  RowSets(j, "BEGIN", 0, reqs[j] + 1, 0)
  <1>1. row' = [row EXCEPT ![j] = [NoRow EXCEPT !.status = "BEGIN", !.req = reqs[j] + 1]]
    BY DEF ja_agent_begin
  <1>2. row \in [Job -> Row] /\ "BEGIN" \in RowStatus /\ reqs[j] \in Nat
    BY AgentShape DEF AgentShape, TypeOK, RowStatus
  <1>3. ASSUME NEW n \in Nat
        PROVE  LET new == [NoRow EXCEPT !.status = "BEGIN", !.req = n]
               IN  new \in Row /\ new.status = "BEGIN" /\ new.pid = 0 /\ new.req = n /\ new.result = 0
    BY DEF NoRow, Row, RowStatus
  <1> DEFINE n == reqs[j] + 1
             new == [NoRow EXCEPT !.status = "BEGIN", !.req = n]
  <1>4. n \in Nat
    BY <1>2
  <1> HIDE DEF n
  <1>5. new \in Row /\ new.status = "BEGIN" /\ new.pid = 0 /\ new.req = n /\ new.result = 0
    BY <1>3, <1>4
  <1>6. row' = [row EXCEPT ![j] = new]
    BY <1>1 DEF n
  <1> HIDE DEF new
  <1> QED  BY <1>2, <1>5, <1>6 DEF RowSets, n

LEMMA TakesBackSets ==
  ASSUME TypeOK, NEW j \in Job, ListenerTakesBack(j)
  PROVE  RowSets(j, "CLOSE", 0, reqs[j], 0)
  <1>1. row \in [Job -> Row] /\ "CLOSE" \in RowStatus /\ reqs[j] \in Nat
    BY AgentShape DEF AgentShape, TypeOK, RowStatus
  <1> DEFINE new == [NoRow EXCEPT !.status = "CLOSE", !.req = reqs[j]]
  <1>2. new \in Row /\ new.status = "CLOSE" /\ new.pid = 0 /\ new.req = reqs[j] /\ new.result = 0
    BY <1>1 DEF NoRow, Row
  <1>3. row' = [row EXCEPT ![j] = new]
    BY DEF ListenerTakesBack
  <1> HIDE DEF new
  <1> QED  BY <1>1, <1>2, <1>3 DEF RowSets

\* The objects of ja_job_object_list_add and of a start of the agent.
LEMMA BegunObject ==
  ASSUME TypeOK, NEW j \in Job
  PROVE  /\ Begun(j) \in Object /\ Begun(j).status = "BEGIN" /\ Begun(j).pid = 0
         /\ Begun(j).req = row[j].req
  BY DEF TypeOK, Row, Begun, NoObject, Object, RowStatus

LEMMA NoObjectType == NoObject \in Object /\ NoObject.status = "NONE" /\ NoObject.req = 0
  BY DEF NoObject, Object, RowStatus

LEMMA NoRowType == NoRow \in Row /\ NoRow.status = "INIT" /\ NoRow.req = 0 /\ NoRow.pid = 0
  BY DEF NoRow, Row, RowStatus

\* ja_job_object_list_new copies the rows that are open.
LEMMA StartSets ==
  ASSUME AgentStart, NEW j \in Job
  PROVE  IF row[j].status \in {"INIT", "CLOSE"}
         THEN list'[j].status = "NONE" /\ list'[j].req = 0
         ELSE /\ list'[j].status = row[j].status /\ list'[j].pid = row[j].pid
              /\ list'[j].req = row[j].req
  <1> DEFINE copy == [status |-> row[j].status, pid |-> row[j].pid, req |-> row[j].req,
                      result |-> row[j].result, send_retry |-> 0]
  <1>1. list'[j] = IF row[j].status \in {"INIT", "CLOSE"} THEN NoObject ELSE copy
    BY DEF AgentStart
  <1>2. copy.status = row[j].status /\ copy.pid = row[j].pid /\ copy.req = row[j].req
    OBVIOUS
  <1> HIDE DEF copy
  <1> QED  BY <1>1, <1>2, NoObjectType

\* Where the executive can be.
ExeType == [at : {"idle", "add", "walk", "forked", "reboot", "sent"},
            todo : SUBSET Job, cur : SUBSET Job]

LEMMA WalkTypes ==
  ASSUME TypeOK, NEW j \in Job
  PROVE  /\ NextJob(j) => /\ exe' \in ExeType /\ exe'.at = "walk"
                          /\ exe'.todo = exe.todo \ {j} /\ exe'.cur = {}
         /\ SameJob => /\ exe' \in ExeType /\ exe'.at = "walk"
                       /\ exe'.todo = exe.todo /\ exe'.cur = {}
         /\ \A at \in {"forked", "reboot", "sent"} : Within(j, at) =>
              exe' \in ExeType /\ exe'.at = at /\ exe'.todo = exe.todo /\ exe'.cur = {j}
  <1>1. exe \in ExeType
    BY DEF TypeOK, ExeType
  <1>2. NextJob(j) => /\ exe' \in ExeType /\ exe'.at = "walk"
                      /\ exe'.todo = exe.todo \ {j} /\ exe'.cur = {}
    BY <1>1 DEF ExeType, NextJob
  <1>3. SameJob => /\ exe' \in ExeType /\ exe'.at = "walk"
                   /\ exe'.todo = exe.todo /\ exe'.cur = {}
    BY <1>1 DEF ExeType, SameJob
  <1>4. ASSUME NEW at \in {"forked", "reboot", "sent"}, Within(j, at)
        PROVE  exe' \in ExeType /\ exe'.at = at /\ exe'.todo = exe.todo /\ exe'.cur = {j}
    BY <1>1, <1>4 DEF ExeType, Within
  <1> QED  BY <1>2, <1>3, <1>4

\* Processes and listener keep the types.
LEMMA OthersTypes ==
  ASSUME TypeOK, ProcessNext \/ ListenerNext
  PROVE  TypeOK'
  <1> USE AgentShape DEF AgentShape
  <1>1. ASSUME NEW p \in proc, CommandEnds(p)  PROVE TypeOK'
    BY <1>1, WritesResultFiles DEF CommandEnds, TypeOK, table, memory, bounds
  <1>2. ASSUME NEW p \in proc, CommandLost(p)  PROVE TypeOK'
    BY <1>2 DEF CommandLost, Fault, TypeOK, table, memory
  <1>3. ASSUME NEW p \in proc, ChildFails(p)  PROVE TypeOK'
    BY <1>3, ChildFailsSets DEF ChildFails, RowSets, TypeOK, memory, bounds
  <1>4. ASSUME NEW j \in Job, ja_agent_begin(j)  PROVE TypeOK'
    <2>1. row' \in [Job -> Row]
      BY <1>4, BeginSets DEF RowSets, ja_agent_begin, TypeOK
    <2> QED  BY <1>4, <2>1 DEF ja_agent_begin, TypeOK, host
  <1>5. ASSUME NEW j \in Job, ja_agent_kill(j)  PROVE TypeOK'
    <2>1. proc' \subseteq Process /\ files' \in [Job -> [exist : BOOLEAN, by : Nat]]
      BY <1>5, WritesResultFiles DEF ja_agent_kill, TypeOK
    <2> QED  BY <1>5, <2>1 DEF ja_agent_kill, TypeOK, memory, bounds
  <1>6. ASSUME NEW j \in Job, ListenerFlag(j)  PROVE TypeOK'
    BY <1>6 DEF ListenerFlag, TypeOK, host, bounds
  <1>7. ASSUME NEW j \in Job, ListenerNoFlag(j)  PROVE TypeOK'
    BY <1>7 DEF ListenerNoFlag, Fault, TypeOK, table, host
  <1>8. ASSUME NEW j \in Job, ListenerTakesBack(j)  PROVE TypeOK'
    <2>1. row' \in [Job -> Row]
      BY <1>8, TakesBackSets DEF RowSets
    <2> QED  BY <1>8, <2>1 DEF ListenerTakesBack, TypeOK, host, bounds
  <1> QED  BY <1>1, <1>2, <1>3, <1>4, <1>5, <1>6, <1>7, <1>8 DEF ProcessNext, ListenerNext

\* The files after ja_reboot_killall.
LEMMA KillAllFiles ==
  ASSUME TypeOK, KillAll
  PROVE  /\ proc' \subseteq proc
         /\ files' \in [Job -> [exist : BOOLEAN, by : Nat]]
         /\ \A k \in Job : files'[k].exist = files[k].exist
         /\ \A k \in Job : files'[k] # files[k] =>
              /\ files'[k].by = row[k].req /\ row[k].status = "RUN"
              /\ \E p \in proc \ proc' : p.job = k /\ p.exec
         /\ \A p \in proc \ proc' : p.exec
  <1> DEFINE hit == {p \in proc : /\ p.exec /\ p.job \notin RebootJob
                                  /\ row[p.job].status = "RUN" /\ row[p.job].pid = p.no}
  <1>1. /\ proc' = proc \ hit
        /\ files' = [k \in Job |-> IF \E p \in hit : p.job = k /\ p.linked
                                   THEN [files[k] EXCEPT !.by = row[k].req] ELSE files[k]]
    BY DEF KillAll
  <1>2. \A k \in Job : row[k].req \in Nat
    BY DEF TypeOK, Row
  <1>3. \A p \in hit : p \in proc /\ p.exec /\ row[p.job].status = "RUN"
    OBVIOUS
  <1> HIDE DEF hit
  <1>4. ASSUME NEW k \in Job
        PROVE  LET f == [files[k] EXCEPT !.by = row[k].req]
               IN f \in [exist : BOOLEAN, by : Nat] /\ f.exist = files[k].exist /\ f.by = row[k].req
    BY <1>2 DEF TypeOK
  <1>5. files' \in [Job -> [exist : BOOLEAN, by : Nat]]
    BY <1>1, <1>4 DEF TypeOK
  <1>6. \A k \in Job : files'[k].exist = files[k].exist
    BY <1>1, <1>4
  <1>7. ASSUME NEW k \in Job, files'[k] # files[k]
        PROVE  /\ files'[k].by = row[k].req /\ row[k].status = "RUN"
               /\ \E p \in proc \ proc' : p.job = k /\ p.exec
    <2>1. PICK p \in hit : p.job = k /\ p.linked
      BY <1>1, <1>7
    <2>2. files'[k] = [files[k] EXCEPT !.by = row[k].req]
      BY <1>1, <2>1
    <2> QED  BY <1>1, <1>3, <1>4, <2>1, <2>2
  <1> QED  BY <1>1, <1>3, <1>5, <1>6, <1>7

\* The executive keeps the types.
LEMMA ExecutiveTypes ==
  ASSUME TypeOK, ExecutiveNext
  PROVE  TypeOK'
  <1>0. Listed \subseteq Job /\ Resting \in ExeType
    BY DEF Listed, Resting, ExeType
  <1>1. CASE PassBegin
    <2>1. exe' \in ExeType /\ exe'.cur \subseteq exe'.todo
      BY <1>0, <1>1 DEF PassBegin, Resting, ExeType
    <2> QED  BY <1>1, <2>1 DEF PassBegin, TypeOK, ExeType, host, bounds
  <1>2. CASE ja_job_object_list_add
    <2> DEFINE new == {j \in Job : row[j].status = "BEGIN"} \ Listed
    <2>1. list' = [j \in Job |-> IF j \in new THEN Begun(j) ELSE list[j]]
      BY <1>2 DEF ja_job_object_list_add
    <2>2. list' \in [Job -> Object]
      BY <2>1, BegunObject DEF TypeOK
    <2>3. exe' = [Resting EXCEPT !.at = "walk", !.todo = Listed \cup new]
      BY <1>2 DEF ja_job_object_list_add
    <2>4. exe' \in ExeType /\ exe'.cur \subseteq exe'.todo
      BY <1>0, <2>3 DEF Resting, ExeType
    <2>5. missed' \subseteq Job
      BY <1>2 DEF ja_job_object_list_add, TypeOK
    <2> QED  BY <1>2, <2>2, <2>4, <2>5
             DEF ja_job_object_list_add, TypeOK, ExeType, table, host, bounds
  <1>3. CASE PassEnd
    BY <1>0, <1>3 DEF PassEnd, TypeOK, ExeType, Resting, table, host, bounds
  <1>4. ASSUME NEW j \in Job, ja_agent_run(j)  PROVE TypeOK'
    <2>1. exe' \in ExeType /\ exe'.cur \subseteq exe'.todo
      BY <1>4, WalkTypes DEF ja_agent_run, Walk
    <2>2. files' \in [Job -> [exist : BOOLEAN, by : Nat]] /\ forks' \in [Job -> Nat]
      BY <1>4 DEF ja_agent_run, TypeOK
    <2>3. list' \in [Job -> Object] /\ proc' \subseteq Process
      BY <1>4, RunSets DEF ListSets, TypeOK
    <2> QED  BY <1>4, <2>1, <2>2, <2>3 DEF ja_agent_run, TypeOK, ExeType, table
  <1>5. ASSUME NEW j \in Job, RunUpdate(j)  PROVE TypeOK'
    <2>1. exe' \in ExeType /\ exe'.cur \subseteq exe'.todo
      BY <1>5, WalkTypes DEF RunUpdate
    <2>2. list' \in [Job -> Object] /\ row' \in [Job -> Row] /\ overtaken' \subseteq Job
      BY <1>5, RunUpdateSets DEF BothSet, ListSets, RowSets, OvertakenSets, TypeOK
    <2> QED  BY <1>5, <2>1, <2>2 DEF RunUpdate, TypeOK, ExeType, host, bounds
  <1>6. ASSUME NEW j \in Job, RunFails(j)  PROVE TypeOK'
    <2>1. exe' \in ExeType /\ exe'.cur \subseteq exe'.todo
      BY <1>6, WalkTypes DEF RunFails
    <2>2. list' \in [Job -> Object] /\ row' \in [Job -> Row] /\ overtaken' \subseteq Job
      BY <1>6, EndSets DEF RunFails, BothSet, ListSets, RowSets, OvertakenSets, TypeOK
    <2> QED  BY <1>6, <2>1, <2>2 DEF RunFails, TypeOK, ExeType, host, bounds
  <1>7. ASSUME NEW j \in Job, ja_agent_end(j) \/ RebootWaits(j)  PROVE TypeOK'
    <2>1. exe' \in ExeType /\ exe'.cur \subseteq exe'.todo
      BY <1>7, EndCheckedSets, WalkTypes DEF ja_agent_end, RebootWaits
    <2>2. list' \in [Job -> Object] /\ row' \in [Job -> Row] /\ overtaken' \subseteq Job
      BY <1>7, EndCheckedSets
      DEF ja_agent_end, RebootWaits, BothSet, ListSets, RowSets, OvertakenSets, TypeOK
    <2> QED  BY <1>7, <2>1, <2>2 DEF ja_agent_end, RebootWaits, TypeOK, ExeType, host, bounds
  <1>8. ASSUME NEW j \in Job, ja_reboot_chkend(j)  PROVE TypeOK'
    <2>1. exe' \in ExeType /\ exe'.cur \subseteq exe'.todo
      BY <1>8, WalkTypes DEF ja_reboot_chkend, Walk
    <2>2. proc' \subseteq Process /\ files' \in [Job -> [exist : BOOLEAN, by : Nat]]
      BY <1>8, KillAllFiles DEF ja_reboot_chkend, TypeOK
    <2> QED  BY <1>8, <2>1, <2>2 DEF ja_reboot_chkend, TypeOK, ExeType, bounds
  <1>9. ASSUME NEW j \in Job, ja_agent_send(j)  PROVE TypeOK'
    <2>1. exe' \in ExeType /\ exe'.cur \subseteq exe'.todo
      BY <1>9, WalkTypes DEF ja_agent_send, Walk
    <2> QED  BY <1>9, <2>1 DEF ja_agent_send, TypeOK, ExeType, table, host, bounds
  <1>10. ASSUME NEW j \in Job, SendFails(j)  PROVE TypeOK'
    <2>1. exe' \in ExeType /\ exe'.cur \subseteq exe'.todo
      BY <1>10, WalkTypes DEF SendFails
    <2>2. list' \in [Job -> Object] /\ row' \in [Job -> Row] /\ overtaken' \subseteq Job
      BY <1>10, SendFailsSets DEF BothSet, ListSets, RowSets, OvertakenSets, TypeOK
    <2> QED  BY <1>10, <2>1, <2>2, AgentShape
             DEF AgentShape, SendFails, Fault, TypeOK, ExeType, host
  <1>11. ASSUME NEW j \in Job, ja_agent_close(j)  PROVE TypeOK'
    <2>1. exe' \in ExeType /\ exe'.cur \subseteq exe'.todo
      BY <1>11, WalkTypes DEF ja_agent_close
    <2>2. list' \in [Job -> Object] /\ row' \in [Job -> Row] /\ overtaken' \subseteq Job
      BY <1>11, CloseSets DEF ja_agent_close, BothSet, ListSets, RowSets, OvertakenSets, TypeOK
    <2>3. proc' \subseteq Process
      BY <1>11, CloseProcesses
    <2>4. files' \in [Job -> [exist : BOOLEAN, by : Nat]]
      BY <1>11, CloseFiles
    <2> QED  BY <1>11, <2>1, <2>2, <2>3, <2>4 DEF ja_agent_close, TypeOK, ExeType, bounds
  <1>12. ASSUME NEW j \in Job, ListRemove(j)  PROVE TypeOK'
    <2>1. exe' \in ExeType /\ exe'.cur \subseteq exe'.todo
      BY <1>12, WalkTypes DEF ListRemove
    <2> QED  BY <1>12, <2>1, NoObjectType DEF ListRemove, TypeOK, ExeType, table, host, bounds
  <1> QED  BY <1>1, <1>2, <1>3, <1>4, <1>5, <1>6, <1>7, <1>8, <1>9, <1>10, <1>11, <1>12
           DEF ExecutiveNext

\* Stops and starts keep the types.
LEMMA HostTypes ==
  ASSUME TypeOK, \/ AgentCrash \/ HostReboot \/ AgentStart
                 \/ \E j \in Job : ja_dbmain_remove_oldjob(j)
  PROVE  TypeOK'
  <1>0. Resting \in ExeType /\ Resting.cur \subseteq Resting.todo
    BY DEF Resting, ExeType
  <1>1. CASE Down
    <2>0. crashes' \in 0 .. MaxCrashes
      BY <1>1, AgentShape DEF AgentShape, Down, TypeOK
    <2>1. /\ list' \in [Job -> Object] /\ exe' \in ExeType /\ exe'.cur \subseteq exe'.todo
          /\ crashes' \in 0 .. MaxCrashes /\ up' \in BOOLEAN
          /\ listener' \subseteq Job /\ takeback' \subseteq Job
      BY <1>0, <1>1, <2>0, NoObjectType DEF Down
    <2>2. CASE AgentCrash
      BY <2>1, <2>2 DEF AgentCrash, TypeOK, ExeType, table, host
    <2>3. CASE HostReboot
      <3>1. alien' \subseteq Job \X Nat /\ faults' \in 0 .. MaxFaults
        BY <2>3, AgentShape DEF AgentShape, HostReboot, Fault, TypeOK, Row
      <3> QED  BY <2>1, <2>3, <3>1 DEF HostReboot, TypeOK, ExeType, table
    <2> QED  BY <1>1, <2>2, <2>3 DEF AgentStart, Down, ja_dbmain_remove_oldjob, At
  <1>2. CASE AgentStart
    <2>1. list' \in [Job -> Object]
      BY <1>2, NoObjectType DEF AgentStart, TypeOK, Row, Object, RowStatus
    <2> QED  BY <1>2, <2>1 DEF AgentStart, TypeOK, table, host, bounds
  <1>3. ASSUME NEW j \in Job, ja_dbmain_remove_oldjob(j)  PROVE TypeOK'
    BY <1>3, NoRowType DEF ja_dbmain_remove_oldjob, TypeOK, memory, host, bounds
  <1> QED  BY <1>1, <1>2, <1>3 DEF AgentCrash, HostReboot

\* Every step keeps the types.
LEMMA NextTypes == TypeOK /\ [Next]_vars => TypeOK'
  <1> SUFFICES ASSUME TypeOK, [Next]_vars  PROVE TypeOK'
    OBVIOUS
  <1>1. CASE UNCHANGED vars
    BY <1>1 DEF vars, TypeOK
  <1> QED  BY <1>1, OthersTypes, ExecutiveTypes, HostTypes DEF Next

LEMMA InitTypes == Init => TypeOK
  <1> SUFFICES ASSUME Init  PROVE TypeOK
    OBVIOUS
  <1>1. row \in [Job -> Row] /\ list \in [Job -> Object]
    BY NoRowType, NoObjectType DEF Init
  <1>2. exe \in ExeType /\ exe.cur \subseteq exe.todo
    BY DEF Init, Resting, ExeType
  <1>3. files \in [Job -> [exist : BOOLEAN, by : Nat]]
    BY DEF Init
  <1>4. /\ reqs \in [Job -> 0 .. MaxRequests] /\ forks \in [Job -> Nat]
        /\ faults \in 0 .. MaxFaults /\ crashes \in 0 .. MaxCrashes
    BY AgentShape DEF AgentShape, Init
  <1> QED  BY <1>1, <1>2, <1>3, <1>4 DEF Init, TypeOK, ExeType

\* Table, list and host keep their types in every behaviour.
THEOREM TypeCorrect == Spec => []TypeOK
  BY InitTypes, NextTypes, PTL DEF Spec
-----------------------------------------------------------------------------
(* One agent, its list and its table *)

\* What the executive has in its list agrees with the row, but for a row that
\* a child has ended, or that the listener has closed after the start.
ListAgrees ==
  \A j \in Job : j \notin overtaken =>
    /\ list[j].status = "RUN" =>
         \/ row[j].status = "END"
         \/ row[j].status = "RUN" /\ row[j].pid = list[j].pid /\ row[j].req = list[j].req
    /\ list[j].status = "END" => row[j].status = "END"

\* Executive and listener work on one job at a time, the executive at a place
\* that fits the status of the job; both rest while the agent is down.
OneAtWork ==
  /\ \A i, k \in exe.cur : i = k
  /\ \A i, k \in listener \cup takeback : i = k
  /\ \A j \in exe.cur : /\ exe.at = "forked" => list[j].status = "BEGIN"
                        /\ exe.at = "reboot" => list[j].status = "RUN"
                        /\ exe.at = "sent" => list[j].status = "END"
  /\ ~up => /\ exe.at = "idle" /\ listener = {} /\ takeback = {}
            /\ \A j \in Job : list[j].status = "NONE"

\* A request that is still to be run leaves room for its fork.
ForksAreOwed ==
  \A j \in Job :
    /\ forks[j] <= reqs[j] + crashes
    /\ (list[j].status = "BEGIN" \/ row[j].status = "BEGIN") /\ ~Forked(j)
         => forks[j] < reqs[j] + crashes

\* As long as the agent was never stopped, a process is the one its job's
\* object is about, its row says so unless the listener has closed it, and
\* nobody else writes its files.
FirstLife ==
  crashes = 0 =>
    /\ up
    /\ \A p, q \in proc : p.job = q.job => p = q
    /\ \A p \in proc :
         /\ list[p.job].pid = p.no /\ list[p.job].req = p.req
         /\ files[p.job].exist /\ files[p.job].by = 0
         /\ \/ Forked(p.job)
            \/ list[p.job].status = "RUN" /\ (row[p.job].status = "RUN" \/ p.job \in overtaken)
    /\ alien = {}
    /\ \A j \in Job :
         /\ list[j].status = "RUN" \/ Forked(j) => files[j].by \in {0, list[j].req}
         /\ list[j].status = "END" => list[j].result \in {0, list[j].req}
         /\ row[j].status \in {"RUN", "END"} => list[j].status \in {"RUN", "END"}
         /\ j \in overtaken => list[j].status \in {"RUN", "END"} /\ row[j].status # "RUN"
    /\ RebootHitsNoJob

AgentInv ==
  TypeOK /\ ListAgrees /\ OneAtWork /\ ForksAreOwed /\ RequestIsSeen /\ FirstLife

\* The numbers in a state that has its types.
LEMMA Numbers ==
  ASSUME TypeOK
  PROVE  /\ \A j \in Job : /\ row[j].req \in Nat /\ row[j].pid \in Nat /\ list[j].req \in Nat
                           /\ list[j].pid \in Nat /\ reqs[j] \in Nat /\ forks[j] \in Nat
                           /\ files[j].by \in Nat
         /\ crashes \in Nat
  BY AgentShape DEF AgentShape, TypeOK, Row, Object

\* Processes leave, with a result or without.
LEMMA ProcessesLeave ==
  ASSUME AgentInv, TypeOK', proc' \subseteq proc,
         UNCHANGED <<row, flag, list, exe, listener, takeback, missed, overtaken, alien, up,
                     reqs, forks, crashes>>,
         \A k \in Job : \/ files'[k] = files[k]
                        \/ /\ files'[k].exist = files[k].exist
                           /\ \E p \in proc \ proc' : /\ p.job = k
                                                      /\ files'[k].by \in {files[k].by, p.req}
  PROVE  AgentInv'
  <1>1. (ListAgrees /\ OneAtWork /\ ForksAreOwed /\ RequestIsSeen)'
    BY DEF AgentInv, ListAgrees, OneAtWork, ForksAreOwed, Forked, RequestIsSeen
  <1>2. FirstLife'
    <2> SUFFICES ASSUME crashes = 0  PROVE FirstLife'
      BY DEF FirstLife
    <2> USE DEF AgentInv, FirstLife
    <2>1. \A p \in proc' : files'[p.job] = files[p.job]
      BY ProcessFields
    <2>2. \A j \in Job : list'[j].status = "RUN" \/ Forked(j)' => files'[j].by \in {0, list'[j].req}
      BY ProcessFields DEF Forked
    <2>3. RebootHitsNoJob'
      BY DEF RebootHitsNoJob
    <2> QED  BY <2>1, <2>2, <2>3 DEF Forked
  <1> QED  BY <1>1, <1>2 DEF AgentInv

\* Processes and listener.
LEMMA ProcessesKeep ==
  ASSUME AgentInv, TypeOK', ProcessNext
  PROVE  AgentInv'
  <1>1. ASSUME NEW p \in proc, CommandEnds(p)  PROVE AgentInv'
    <2>1. TypeOK
      BY DEF AgentInv
    <2> QED  BY <1>1, <2>1, WritesResultFiles, ProcessesLeave
             DEF CommandEnds, table, memory, bounds
  <1>2. ASSUME NEW p \in proc, CommandLost(p)  PROVE AgentInv'
    BY <1>2, ProcessesLeave DEF CommandLost, table, memory
  <1>3. ASSUME NEW p \in proc, ChildFails(p)  PROVE AgentInv'
    <2>0. TypeOK /\ p.job \in Job
      BY ProcessFields DEF AgentInv
    <2>1. RowSets(p.job, "END", 0, p.req, 0)
      BY <1>3, <2>0, ChildFailsSets
    <2>2. /\ proc' = proc \ {p} /\ ~(Forked(p.job) /\ list[p.job].pid = p.no)
          /\ UNCHANGED <<flag, list, exe, listener, takeback, missed, overtaken, alien,
                         files, up, reqs, forks, crashes>>
      BY <1>3 DEF ChildFails, memory, bounds
    <2>3. ListAgrees' /\ OneAtWork'
      BY <2>0, <2>1, <2>2 DEF AgentInv, ListAgrees, OneAtWork, RowSets
    <2>4. ForksAreOwed' /\ RequestIsSeen'
      BY <2>0, <2>1, <2>2 DEF AgentInv, ForksAreOwed, RequestIsSeen, RowSets, Forked
    <2>5. FirstLife'
      <3> SUFFICES ASSUME crashes = 0  PROVE FirstLife'
        BY <2>2 DEF FirstLife
      <3>1. \A q \in proc' : q \in proc /\ q.job # p.job
        BY <2>2 DEF AgentInv, FirstLife
      <3>2. RebootHitsNoJob'
        BY <2>2 DEF AgentInv, FirstLife, RebootHitsNoJob
      <3> QED  BY <2>0, <2>1, <2>2, <3>1, <3>2, ProcessFields
               DEF AgentInv, FirstLife, Forked, RowSets
    <2> QED  BY <2>3, <2>4, <2>5 DEF AgentInv
  <1> QED  BY <1>1, <1>2, <1>3 DEF ProcessNext

LEMMA ListenerKeeps ==
  ASSUME AgentInv, TypeOK', ListenerNext
  PROVE  AgentInv'
  <1>0. TypeOK
    BY DEF AgentInv
  <1>1. ASSUME NEW j \in Job, ja_agent_begin(j)  PROVE AgentInv'
    <2>1. UNCHANGED <<flag, list, exe, takeback, missed, overtaken, proc, alien, files, up,
                      forks, crashes>>
      BY <1>1 DEF ja_agent_begin, host
    <2>2. CASE row[j].status \notin {"INIT", "CLOSE"}
      <3>1. UNCHANGED <<reqs, row, listener>>
        BY <1>1, <2>2 DEF ja_agent_begin
      <3> QED  BY <2>1, <3>1, ProcessesLeave
    <2>3. CASE row[j].status \in {"INIT", "CLOSE"}
      <3>1. RowSets(j, "BEGIN", 0, reqs[j] + 1, 0)
        BY <1>0, <1>1, <2>3, BeginSets
      <3>2. /\ up /\ listener = {} /\ takeback = {} /\ listener' = {j}
            /\ reqs'[j] = reqs[j] + 1 /\ \A k \in Job : k # j => reqs'[k] = reqs[k]
        BY <1>0, <1>1, <2>3 DEF ja_agent_begin, Listening, TypeOK
      <3>3. ListAgrees' /\ OneAtWork'
        BY <2>1, <2>3, <3>1, <3>2 DEF AgentInv, ListAgrees, OneAtWork, RowSets
      <3>4. ForksAreOwed'
        BY <1>0, <2>1, <3>1, <3>2, Numbers DEF AgentInv, ForksAreOwed, RowSets, Forked
      <3>5. RequestIsSeen'
        BY <2>1, <3>1, <3>2 DEF AgentInv, RequestIsSeen, RowSets
      <3>6. FirstLife'
        <4>1. RebootHitsNoJob => RebootHitsNoJob'
          BY <2>1 DEF RebootHitsNoJob
        <4> QED  BY <1>0, <2>1, <2>3, <3>1, <4>1, ProcessFields
                 DEF AgentInv, FirstLife, RowSets, Forked
      <3> QED  BY <3>3, <3>4, <3>5, <3>6 DEF AgentInv
    <2> QED  BY <2>2, <2>3
  <1>2. ASSUME NEW j \in Job, ja_agent_kill(j)  PROVE AgentInv'
    <2>1. UNCHANGED <<row, flag, list, exe, listener, takeback, missed, overtaken, alien, up,
                      reqs, forks, crashes>>
      BY <1>2 DEF ja_agent_kill, memory, bounds
    <2>2. CASE UNCHANGED <<proc, files>>
      BY <2>1, <2>2, ProcessesLeave
    <2>3. ASSUME NEW p \in proc, WritesResult(p)  PROVE AgentInv'
      BY <1>0, <2>1, <2>3, WritesResultFiles, ProcessesLeave
    <2> QED  BY <1>2, <2>2, <2>3 DEF ja_agent_kill
  <1>3. ASSUME NEW j \in Job, ListenerFlag(j)  PROVE AgentInv'
    <2>1. /\ up /\ flag' = TRUE /\ listener' = {}
          /\ UNCHANGED <<row, list, exe, takeback, missed, overtaken, proc, alien, files, up, reqs,
                         forks, crashes>>
      BY <1>3 DEF ListenerFlag, host, bounds
    <2>2. (ListAgrees /\ OneAtWork /\ ForksAreOwed /\ RequestIsSeen)'
      BY <2>1 DEF AgentInv, ListAgrees, OneAtWork, ForksAreOwed, Forked, RequestIsSeen
    <2>3. FirstLife'
      BY <2>1 DEF AgentInv, FirstLife, RebootHitsNoJob, Forked
    <2> QED  BY <2>2, <2>3 DEF AgentInv
  <1>4. ASSUME NEW j \in Job, ListenerNoFlag(j)  PROVE AgentInv'
    <2>1. /\ up /\ j \in listener /\ listener' = {}
          /\ takeback' = IF row[j].status = "BEGIN" THEN {j} ELSE {}
          /\ UNCHANGED <<row, flag, list, exe, missed, overtaken, proc, alien, files, up, reqs,
                         forks, crashes>>
      BY <1>4 DEF ListenerNoFlag, table, host
    <2>2. ListAgrees' /\ OneAtWork' /\ ForksAreOwed'
      BY <2>1 DEF AgentInv, ListAgrees, OneAtWork, ForksAreOwed, Forked
    <2>3. RequestIsSeen'
      BY <2>1 DEF AgentInv, OneAtWork, RequestIsSeen
    <2>4. FirstLife'
      BY <2>1 DEF AgentInv, FirstLife, RebootHitsNoJob, Forked
    <2> QED  BY <2>2, <2>3, <2>4 DEF AgentInv
  <1>5. ASSUME NEW j \in Job, ListenerTakesBack(j)  PROVE AgentInv'
    <2>1. /\ up /\ j \in takeback /\ takeback' = {}
          /\ overtaken' = IF row[j].status \in {"RUN", "END"} THEN overtaken \cup {j} ELSE overtaken
          /\ UNCHANGED <<flag, list, exe, listener, missed, proc, alien, files, up, reqs,
                         forks, crashes>>
      BY <1>5 DEF ListenerTakesBack, host, bounds
    <2>2. RowSets(j, "CLOSE", 0, reqs[j], 0)
      BY <1>0, <1>5, TakesBackSets
    <2>3. ListAgrees' /\ OneAtWork'
      BY <2>1, <2>2 DEF AgentInv, ListAgrees, OneAtWork, RowSets
    <2>4. ForksAreOwed'
      BY <2>1, <2>2 DEF AgentInv, ForksAreOwed, RowSets, Forked
    <2>5. RequestIsSeen'
      BY <2>1, <2>2 DEF AgentInv, OneAtWork, RequestIsSeen, RowSets
    <2>6. FirstLife'
      <3>1. RebootHitsNoJob => RebootHitsNoJob'
        BY <2>1 DEF RebootHitsNoJob
      <3> QED  BY <1>0, <2>1, <2>2, <3>1, ProcessFields DEF AgentInv, FirstLife, RowSets, Forked
    <2> QED  BY <2>3, <2>4, <2>5, <2>6 DEF AgentInv
  <1> QED  BY <1>1, <1>2, <1>3, <1>4, <1>5 DEF ListenerNext

\* Stops and starts.
LEMMA HostKeeps ==
  ASSUME AgentInv, TypeOK',
         \/ AgentCrash \/ HostReboot \/ AgentStart
         \/ \E j \in Job : ja_dbmain_remove_oldjob(j)
  PROVE  AgentInv'
  <1>0. TypeOK
    BY DEF AgentInv
  <1>1. CASE Down /\ UNCHANGED <<row, reqs, forks>>
    <2>1. /\ crashes' = crashes + 1 /\ up' = FALSE /\ listener' = {} /\ takeback' = {}
          /\ \A j \in Job : list'[j].status = "NONE"
      BY <1>1, NoObjectType DEF Down
    <2>2. exe'.at = "idle" /\ exe'.cur = {}
      BY <1>1 DEF Down, Resting
    <2>3. (ListAgrees /\ OneAtWork /\ RequestIsSeen)'
      BY <2>1, <2>2 DEF ListAgrees, OneAtWork, RequestIsSeen
    <2>4. ForksAreOwed'
      BY <1>0, <1>1, <2>1, Numbers DEF AgentInv, ForksAreOwed
    <2>5. FirstLife'
      BY <1>0, <2>1, Numbers DEF FirstLife
    <2> QED  BY <2>3, <2>4, <2>5 DEF AgentInv
  <1>2. CASE AgentStart
    <2>3. \A j \in Job :
            IF row[j].status \in {"INIT", "CLOSE"} THEN list'[j].status = "NONE"
            ELSE /\ list'[j].status = row[j].status /\ list'[j].pid = row[j].pid
                 /\ list'[j].req = row[j].req
      BY <1>2, StartSets
    <2>4. /\ ~up /\ up' = TRUE
          /\ UNCHANGED <<row, exe, listener, takeback, overtaken, reqs, forks, crashes>>
      BY <1>2 DEF AgentStart, table, bounds
    <2>5. (ListAgrees /\ OneAtWork /\ RequestIsSeen)'
      BY <2>3, <2>4 DEF AgentInv, ListAgrees, OneAtWork, RequestIsSeen
    <2>6. ForksAreOwed'
      BY <2>3, <2>4 DEF AgentInv, ForksAreOwed, Forked
    <2>7. FirstLife'
      BY <2>4 DEF AgentInv, FirstLife
    <2> QED  BY <2>5, <2>6, <2>7 DEF AgentInv
  <1>3. ASSUME NEW j \in Job, ja_dbmain_remove_oldjob(j)  PROVE AgentInv'
    <2>1. /\ row[j].status = "CLOSE" /\ row'[j].status = "INIT"
          /\ \A k \in Job : k # j => row'[k] = row[k]
          /\ exe.at = "idle"
          /\ UNCHANGED <<flag, list, exe, listener, takeback, missed, overtaken, proc, alien,
                         files, up, reqs, forks, crashes>>
      BY <1>0, <1>3, NoRowType DEF ja_dbmain_remove_oldjob, At, memory, host, bounds, TypeOK
    <2>2. ListAgrees' /\ OneAtWork' /\ RequestIsSeen'
      BY <2>1 DEF AgentInv, ListAgrees, OneAtWork, RequestIsSeen
    <2>3. ForksAreOwed'
      BY <2>1 DEF AgentInv, ForksAreOwed, Forked
    <2>4. FirstLife'
      BY <1>0, <2>1, ProcessFields DEF AgentInv, FirstLife, RebootHitsNoJob, Forked
    <2> QED  BY <2>2, <2>3, <2>4 DEF AgentInv
  <1> QED  BY <1>1, <1>2, <1>3 DEF AgentCrash, HostReboot, table

\* As long as the agent was never stopped, a job with a process is found
\* running.
LEMMA ProcessIsFound ==
  ASSUME AgentInv, crashes = 0, NEW p \in proc
  PROVE  ja_jobfile_chkend(p.job) = 0
  <1>1. files[p.job].exist /\ files[p.job].by = 0 /\ list[p.job].pid = p.no
    BY DEF AgentInv, FirstLife
  <1>2. Alive(p.job, list[p.job].pid)
    BY <1>1 DEF Alive, Pid
  <1> QED  BY <1>1, <1>2 DEF ja_jobfile_chkend

\* The executive, between two jobs or within the treatment of one, without a
\* write.
LEMMA MovesKeep ==
  ASSUME AgentInv, TypeOK', up, exe.at \notin {"forked", "add"},
         UNCHANGED <<row, list, listener, takeback, missed, overtaken, proc, alien, files,
                     up, reqs, forks, crashes>>,
         flag' = flag \/ exe'.at = "add", exe'.at # "reboot",
         \/ exe'.at \in {"idle", "add", "walk"} /\ exe'.cur = {}
         \/ /\ exe'.at = "sent" /\ \E j \in Job : exe'.cur = {j} /\ list[j].status = "END"
  PROVE  AgentInv'
  <1>1. (ListAgrees /\ OneAtWork /\ RequestIsSeen)'
    BY DEF AgentInv, ListAgrees, OneAtWork, RequestIsSeen
  <1>2. ForksAreOwed'
    BY DEF AgentInv, ForksAreOwed, Forked
  <1>3. FirstLife'
    BY DEF AgentInv, FirstLife, RebootHitsNoJob, Forked
  <1> QED  BY <1>1, <1>2, <1>3 DEF AgentInv

\* The executive has ended or closed a job that has no process, or whose
\* processes it need not know of.
LEMMA WritesKeep ==
  ASSUME AgentInv, TypeOK', NEW j \in Job, NEW st \in {"END", "CLOSE"}, NEW res,
         up, exe.at \notin {"forked", "add"},
         BothSet(j, st, res), exe'.at = "walk", exe'.cur = {},
         UNCHANGED <<flag, listener, takeback, missed, alien, up, reqs, forks, crashes>>,
         crashes = 0 => /\ \A p \in proc : p.job # j
                        /\ proc' = proc
                        /\ \A k \in Job : k # j => files'[k] = files[k]
                        /\ st = "END" => res \in {0, list[j].req}
  PROVE  AgentInv'
  <1>1. ListAgrees' /\ OneAtWork'
    BY DEF AgentInv, ListAgrees, OneAtWork, BothSet, ListSets, RowSets, OvertakenSets
  <1>2. RequestIsSeen'
    BY DEF AgentInv, RequestIsSeen, BothSet, ListSets, RowSets, OvertakenSets
  <1>3. ForksAreOwed'
    BY DEF AgentInv, ForksAreOwed, Forked, BothSet, ListSets, RowSets, OvertakenSets
  <1>4. FirstLife'
    <2> SUFFICES ASSUME crashes = 0  PROVE FirstLife'
      BY DEF FirstLife
    <2>1. \A p \in proc : p.job \in Job
      BY ProcessFields DEF AgentInv
    <2> QED  BY <2>1
             DEF AgentInv, FirstLife, RebootHitsNoJob, Forked, BothSet, ListSets, RowSets, OvertakenSets
  <1> QED  BY <1>1, <1>2, <1>3, <1>4 DEF AgentInv

LEMMA AddKeeps ==
  ASSUME AgentInv, TypeOK', ja_job_object_list_add
  PROVE  AgentInv'
  <1>0. TypeOK
    BY DEF AgentInv
  <1> DEFINE open == {j \in Job : row[j].status = "BEGIN"}
             new  == open \ Listed
  <1>1. list' = [j \in Job |-> IF j \in new THEN Begun(j) ELSE list[j]]
    BY DEF ja_job_object_list_add
  <1>2. \A j \in Job : IF j \in new THEN list'[j].status = "BEGIN" ELSE list'[j] = list[j]
    BY <1>0, <1>1, BegunObject
  <1>3. missed' = (missed \ new) \cup {j \in open : list[j].status = "CLOSE"}
    BY DEF ja_job_object_list_add
  <1>4. \A j \in new : list[j].status = "NONE" /\ row[j].status = "BEGIN"
    BY DEF Listed
  <1>5. \A j \in Job : row[j].status = "BEGIN" /\ j \notin new =>
          \/ list[j].status = "BEGIN" \/ j \in missed'
          \/ j \in overtaken /\ list[j].status \in {"RUN", "END"}
    <2> SUFFICES ASSUME NEW j \in Job, row[j].status = "BEGIN", j \notin new
                 PROVE  \/ list[j].status = "BEGIN" \/ j \in missed'
                        \/ j \in overtaken /\ list[j].status \in {"RUN", "END"}
      OBVIOUS
    <2>1. list[j].status \in {"BEGIN", "RUN", "END", "CLOSE"}
      BY <1>0 DEF Listed, TypeOK, Object, RowStatus
    <2> QED  BY <1>3, <2>1 DEF AgentInv, ListAgrees
  <1>6. exe'.at = "walk" /\ exe'.cur = {}
    BY DEF ja_job_object_list_add, Resting
  <1>7. /\ up /\ exe.at = "add"
        /\ UNCHANGED <<row, flag, listener, takeback, overtaken, proc, alien, files, up,
                       reqs, forks,
                       crashes>>
    BY DEF ja_job_object_list_add, At, table, host, bounds
  <1> HIDE DEF new
  <1>8. ListAgrees' /\ OneAtWork' /\ RequestIsSeen'
    BY <1>2, <1>5, <1>6, <1>7 DEF AgentInv, ListAgrees, OneAtWork, RequestIsSeen
  <1>9. ForksAreOwed'
    BY <1>2, <1>4, <1>6, <1>7 DEF AgentInv, ForksAreOwed, Forked
  <1>10. FirstLife'
    BY <1>0, <1>2, <1>4, <1>6, <1>7, ProcessFields DEF AgentInv, FirstLife, RebootHitsNoJob, Forked
  <1> QED  BY <1>8, <1>9, <1>10 DEF AgentInv

LEMMA RunKeeps ==
  ASSUME AgentInv, TypeOK', NEW j \in Job, ja_agent_run(j)
  PROVE  AgentInv'
  <1>0. TypeOK
    BY DEF AgentInv
  <1>1. /\ ListSets(j, "BEGIN", forks[j] + 1, list[j].req, list[j].result)
        /\ proc' = proc \cup {NewProcess(j)}
    BY <1>0, RunSets DEF ja_agent_run, Walk
  <1>2. exe'.at = "forked" /\ exe'.cur = {j}
    BY <1>0, WalkTypes DEF ja_agent_run
  <1>3. /\ up /\ exe.at = "walk" /\ list[j].status = "BEGIN"
        /\ UNCHANGED <<row, flag, listener, takeback, missed, overtaken, alien, up, reqs, crashes>>
    BY DEF ja_agent_run, Walk, At, table
  <1>4. /\ forks'[j] = forks[j] + 1 /\ \A k \in Job : k # j => forks'[k] = forks[k]
        /\ files'[j].exist /\ files'[j].by = 0 /\ \A k \in Job : k # j => files'[k] = files[k]
    BY <1>0 DEF ja_agent_run, TypeOK
  <1>5. ListAgrees' /\ OneAtWork' /\ RequestIsSeen'
    BY <1>1, <1>2, <1>3 DEF AgentInv, ListAgrees, OneAtWork, RequestIsSeen, ListSets
  <1>6. ForksAreOwed'
    BY <1>0, <1>1, <1>2, <1>3, <1>4, Numbers DEF AgentInv, ForksAreOwed, Forked, ListSets
  <1>7. FirstLife'
    <2> SUFFICES ASSUME crashes = 0  PROVE FirstLife'
      BY <1>3 DEF FirstLife
    <2>1. \A p \in proc : p.job \in Job /\ p.job # j
      BY <1>0, <1>3, ProcessFields DEF AgentInv, FirstLife, Forked
    <2>2. NewProcess(j).job = j /\ NewProcess(j).no = forks[j] + 1 /\ NewProcess(j).req = list[j].req
      BY DEF NewProcess
    <2> QED  BY <1>1, <1>2, <1>3, <1>4, <2>1, <2>2
             DEF AgentInv, FirstLife, RebootHitsNoJob, Forked, ListSets
  <1> QED  BY <1>5, <1>6, <1>7 DEF AgentInv

LEMMA RunUpdateKeeps ==
  ASSUME AgentInv, TypeOK', NEW j \in Job, RunUpdate(j)
  PROVE  AgentInv'
  <1>0. TypeOK
    BY DEF AgentInv
  <1>1. BothSet(j, "RUN", list[j].result)
    BY <1>0, RunUpdateSets
  <1>2. exe'.at = "walk" /\ exe'.cur = {}
    BY <1>0, WalkTypes DEF RunUpdate
  <1>3. /\ up /\ exe.at = "forked" /\ j \in exe.cur
        /\ UNCHANGED <<flag, listener, takeback, missed, proc, alien, files, up, reqs, forks,
                       crashes>>
    BY DEF RunUpdate, At, host, bounds
  <1>4. \A k \in Job : k # j => k \notin exe.cur
    BY <1>3 DEF AgentInv, OneAtWork
  <1>5. ListAgrees' /\ OneAtWork' /\ RequestIsSeen'
    BY <1>1, <1>2, <1>3
    DEF AgentInv, ListAgrees, OneAtWork, RequestIsSeen, BothSet, ListSets, RowSets, OvertakenSets
  <1>6. ForksAreOwed'
    BY <1>1, <1>2, <1>3, <1>4
    DEF AgentInv, ForksAreOwed, Forked, BothSet, ListSets, RowSets, OvertakenSets
  <1>7. FirstLife'
    <2> SUFFICES ASSUME crashes = 0  PROVE FirstLife'
      BY <1>3 DEF FirstLife
    <2>1. list[j].status = "BEGIN" /\ j \notin overtaken /\ overtaken' = overtaken
      BY <1>1, <1>3 DEF AgentInv, OneAtWork, FirstLife, BothSet, OvertakenSets
    <2>2. RebootHitsNoJob'
      BY <1>2 DEF RebootHitsNoJob
    <2> QED  BY <1>0, <1>1, <1>2, <1>3, <1>4, <2>1, <2>2, ProcessFields
             DEF AgentInv, FirstLife, Forked, BothSet, ListSets, RowSets
  <1> QED  BY <1>5, <1>6, <1>7 DEF AgentInv

LEMMA RebootKeeps ==
  ASSUME AgentInv, TypeOK', NEW j \in Job, ja_reboot_chkend(j)
  PROVE  AgentInv'
  <1>0. TypeOK
    BY DEF AgentInv
  <1>1. /\ up /\ exe.at = "walk" /\ list[j].status = "RUN"
        /\ UNCHANGED <<row, flag, list, listener, takeback, missed, overtaken, alien, up,
                       reqs, forks, crashes>>
    BY DEF ja_reboot_chkend, Walk, At, bounds
  <1>2. CASE NextJob(j) /\ UNCHANGED <<proc, files>>
    BY <1>0, <1>1, <1>2, WalkTypes, MovesKeep
  <1>3. CASE /\ OpenJobs = {} \/ RebootMode = 0 \/ RebootWaitTime > 0
             /\ Within(j, "reboot") /\ KillAll
    <2>1. exe'.at = "reboot" /\ exe'.cur = {j}
      BY <1>0, <1>3, WalkTypes
    <2>2. ListAgrees' /\ OneAtWork' /\ RequestIsSeen'
      BY <1>1, <2>1 DEF AgentInv, ListAgrees, OneAtWork, RequestIsSeen
    <2>3. ForksAreOwed'
      BY <1>1, <2>1 DEF AgentInv, ForksAreOwed, Forked
    <2>4. FirstLife'
      <3> SUFFICES ASSUME crashes = 0  PROVE FirstLife'
        BY <1>1 DEF FirstLife
      <3>1. /\ proc' \subseteq proc
            /\ \A k \in Job : files'[k].exist = files[k].exist
            /\ \A k \in Job : files'[k] # files[k] =>
                 /\ files'[k].by = row[k].req /\ row[k].status = "RUN"
                 /\ \E p \in proc \ proc' : p.job = k
        BY <1>0, <1>3, KillAllFiles
      <3>2. \A p \in proc : /\ p.job \in Job /\ list[p.job].status = "RUN"
                            /\ row[p.job].status = "RUN" \/ p.job \in overtaken
        BY <1>0, <1>1, ProcessFields DEF AgentInv, FirstLife, Forked
      <3>3. \A k \in Job : files'[k] # files[k] => files'[k].by = list[k].req
        BY <3>1, <3>2 DEF AgentInv, ListAgrees, FirstLife
      <3>4. \A p \in proc' : files'[p.job] = files[p.job]
        BY <3>1, <3>2 DEF AgentInv, FirstLife
      <3>5. RebootHitsNoJob'
        <4> SUFFICES ASSUME RebootMode = 1, RebootWaitTime = 0, NEW p \in proc'
                     PROVE  p.job \in RebootJob \cup overtaken
          BY <1>1 DEF RebootHitsNoJob
        <4>1. OpenJobs = {}
          BY <1>3
        <4> QED  BY <3>1, <3>2, <4>1 DEF OpenJobs
      <3> QED  BY <1>1, <2>1, <3>1, <3>2, <3>3, <3>4, <3>5 DEF AgentInv, FirstLife, Forked
    <2> QED  BY <2>2, <2>3, <2>4 DEF AgentInv
  <1> QED  BY <1>2, <1>3 DEF ja_reboot_chkend

LEMMA ExecutiveKeeps ==
  ASSUME AgentInv, TypeOK', ExecutiveNext
  PROVE  AgentInv'
  <1>0. TypeOK
    BY DEF AgentInv
  <1>1. CASE PassBegin
    <2>1. /\ up /\ exe.at = "idle" /\ flag' = FALSE
          /\ UNCHANGED <<row, list, listener, takeback, missed, overtaken, proc, alien,
                         files, up, reqs, forks, crashes>>
      BY <1>1 DEF PassBegin, At, host, bounds
    <2>2. exe'.at = (IF flag THEN "add" ELSE "walk") /\ exe'.cur = {}
      BY <1>1 DEF PassBegin, Resting
    <2>3. flag' = flag \/ exe'.at = "add"
      BY <1>0, <2>1, <2>2 DEF TypeOK
    <2> QED  BY <2>1, <2>2, <2>3, MovesKeep
  <1>2. CASE ja_job_object_list_add
    BY <1>2, AddKeeps
  <1>3. CASE PassEnd
    <2>1. exe'.at = "idle" /\ exe'.cur = {}
      BY <1>3 DEF PassEnd, Resting
    <2> QED  BY <1>3, <2>1, MovesKeep DEF PassEnd, At, table, host, bounds
  <1>4. ASSUME NEW j \in Job, ja_agent_run(j)  PROVE AgentInv'
    BY <1>4, RunKeeps
  <1>5. ASSUME NEW j \in Job, RunUpdate(j)  PROVE AgentInv'
    BY <1>5, RunUpdateKeeps
  <1>6. ASSUME NEW j \in Job, RunFails(j)  PROVE AgentInv'
    <2>1. /\ up /\ exe.at = "walk" /\ list[j].status = "BEGIN"
          /\ UNCHANGED <<flag, listener, takeback, missed, proc, alien, files, up, reqs,
                         forks, crashes>>
      BY <1>6 DEF RunFails, Walk, At, host, bounds
    <2>2. BothSet(j, "END", 0)
      BY <1>0, <1>6, EndSets DEF RunFails
    <2>3. exe'.at = "walk" /\ exe'.cur = {}
      BY <1>0, <1>6, WalkTypes DEF RunFails
    <2>4. crashes = 0 => \A p \in proc : p.job # j
      BY <2>1 DEF AgentInv, FirstLife, Forked
    <2> QED  BY <2>1, <2>2, <2>3, <2>4, WritesKeep
  <1>7. ASSUME NEW j \in Job, ja_agent_end(j) \/ RebootWaits(j)  PROVE AgentInv'
    <2>1. /\ up /\ exe.at \in {"walk", "reboot"} /\ list[j].status = "RUN" /\ EndChecked(j)
          /\ UNCHANGED <<flag, listener, takeback, missed, proc, alien, files, up, reqs,
                         forks, crashes>>
      BY <1>7 DEF AgentInv, OneAtWork, ja_agent_end, RebootWaits, Walk, At, host, bounds
    <2>2. (SameJob \/ NextJob(j)) => exe'.at = "walk" /\ exe'.cur = {}
      BY <1>0, WalkTypes
    <2>3. CASE NextJob(j) /\ UNCHANGED <<list, row, overtaken>>
      BY <2>1, <2>2, <2>3, MovesKeep
    <2>4. ASSUME ja_jobfile_chkend(j) # 0, SameJob \/ NextJob(j),
                 NEW res \in {0, files[j].by, list[j].req}, BothSet(j, "END", res)
          PROVE  AgentInv'
      <3>1. crashes = 0 => \A p \in proc : p.job # j
        BY <2>4, ProcessIsFound
      <3>2. crashes = 0 => res \in {0, list[j].req}
        BY <2>1 DEF AgentInv, FirstLife
      <3> QED  BY <2>1, <2>2, <2>4, <3>1, <3>2, WritesKeep
    <2> QED  BY <1>0, <2>1, <2>3, <2>4, EndCheckedSets
  <1>8. ASSUME NEW j \in Job, ja_reboot_chkend(j)  PROVE AgentInv'
    BY <1>8, RebootKeeps
  <1>9. ASSUME NEW j \in Job, ja_agent_send(j)  PROVE AgentInv'
    <2>1. exe'.at = "sent" /\ exe'.cur = {j}
      BY <1>0, <1>9, WalkTypes DEF ja_agent_send
    <2> QED  BY <1>9, <2>1, MovesKeep DEF ja_agent_send, Walk, At, table, host, bounds
  <1>10. ASSUME NEW j \in Job, SendFails(j)  PROVE AgentInv'
    <2>1. /\ up /\ exe.at = "walk" /\ list[j].status = "END"
          /\ UNCHANGED <<flag, listener, takeback, missed, proc, alien, files, up, reqs,
                         forks, crashes>>
      BY <1>10 DEF SendFails, Walk, At, host
    <2>2. exe'.at = "walk" /\ exe'.cur = {}
      BY <1>0, <1>10, WalkTypes DEF SendFails
    <2>3. crashes = 0 => \A p \in proc : p.job # j
      BY <2>1 DEF AgentInv, FirstLife, Forked
    <2>4. CASE BothSet(j, "CLOSE", list[j].result)
      BY <2>1, <2>2, <2>3, <2>4, WritesKeep
    <2>5. CASE UNCHANGED <<row, overtaken>> /\ ListSets(j, "END", list[j].pid, list[j].req,
                           list[j].result)
      <3>1. ListAgrees' /\ OneAtWork' /\ RequestIsSeen'
        BY <2>1, <2>2, <2>5 DEF AgentInv, ListAgrees, OneAtWork, RequestIsSeen, ListSets
      <3>2. ForksAreOwed'
        BY <2>1, <2>2, <2>5 DEF AgentInv, ForksAreOwed, Forked, ListSets
      <3>3. FirstLife'
        BY <1>0, <2>1, <2>2, <2>3, <2>5, ProcessFields
        DEF AgentInv, FirstLife, RebootHitsNoJob, Forked, ListSets
      <3> QED  BY <3>1, <3>2, <3>3 DEF AgentInv
    <2> QED  BY <1>0, <1>10, <2>1, <2>4, <2>5, SendFailsSets
  <1>11. ASSUME NEW j \in Job, ja_agent_close(j)  PROVE AgentInv'
    <2>1. /\ up /\ exe.at = "sent" /\ j \in exe.cur
          /\ UNCHANGED <<flag, listener, takeback, missed, alien, up, reqs, forks, crashes>>
      BY <1>11 DEF ja_agent_close, At, bounds
    <2>2. BothSet(j, "CLOSE", list[j].result)
      BY <1>0, <1>11, CloseSets DEF ja_agent_close, TypeOK
    <2>3. exe'.at = "walk" /\ exe'.cur = {}
      BY <1>0, <1>11, WalkTypes DEF ja_agent_close
    <2>4. crashes = 0 => \A p \in proc : p.job # j
      BY <2>1 DEF AgentInv, FirstLife, OneAtWork, Forked
    <2>5. crashes = 0 => proc' = proc
      BY <1>0, <1>11, <2>4, CloseProcesses
    <2>6. \A k \in Job : k # j => files'[k] = files[k]
      BY <1>0, <1>11, CloseFiles
    <2> QED  BY <2>1, <2>2, <2>3, <2>4, <2>5, <2>6, WritesKeep
  <1>12. ASSUME NEW j \in Job, ListRemove(j)  PROVE AgentInv'
    <2>1. /\ up /\ exe.at = "walk" /\ list[j].status = "CLOSE" /\ list'[j].status = "NONE"
          /\ \A k \in Job : k # j => list'[k] = list[k]
          /\ UNCHANGED <<row, flag, listener, takeback, missed, overtaken, proc, alien,
                         files, up, reqs, forks, crashes>>
      BY <1>0, <1>12, NoObjectType DEF ListRemove, Walk, At, TypeOK, table, host, bounds
    <2>2. exe'.at = "walk" /\ exe'.cur = {}
      BY <1>0, <1>12, WalkTypes DEF ListRemove
    <2>3. ListAgrees' /\ OneAtWork' /\ RequestIsSeen'
      BY <2>1, <2>2 DEF AgentInv, ListAgrees, OneAtWork, RequestIsSeen
    <2>4. ForksAreOwed'
      BY <2>1, <2>2 DEF AgentInv, ForksAreOwed, Forked
    <2>5. FirstLife'
      BY <1>0, <2>1, <2>2, ProcessFields DEF AgentInv, FirstLife, RebootHitsNoJob, Forked
    <2> QED  BY <2>3, <2>4, <2>5 DEF AgentInv
  <1> QED  BY <1>1, <1>2, <1>3, <1>4, <1>5, <1>6, <1>7, <1>8, <1>9, <1>10, <1>11, <1>12
           DEF ExecutiveNext

LEMMA InitAgent == Init => AgentInv
  <1> SUFFICES ASSUME Init  PROVE AgentInv
    OBVIOUS
  <1>1. TypeOK
    BY InitTypes
  <1>2. \A j \in Job : row[j].status = "INIT" /\ list[j].status = "NONE"
    BY NoRowType, NoObjectType DEF Init
  <1>3. exe.at = "idle" /\ exe.cur = {}
    BY DEF Init, Resting
  <1>4. ListAgrees /\ OneAtWork /\ RequestIsSeen
    BY <1>2, <1>3 DEF Init, ListAgrees, OneAtWork, RequestIsSeen
  <1>5. ForksAreOwed
    BY <1>2 DEF Init, ForksAreOwed
  <1>6. FirstLife
    BY <1>2, <1>3 DEF Init, FirstLife, RebootHitsNoJob, Forked
  <1> QED  BY <1>1, <1>4, <1>5, <1>6 DEF AgentInv

LEMMA NextAgent == AgentInv /\ [Next]_vars => AgentInv'
  <1> SUFFICES ASSUME AgentInv, [Next]_vars  PROVE AgentInv'
    OBVIOUS
  <1>1. TypeOK'
    BY NextTypes DEF AgentInv
  <1>2. CASE UNCHANGED vars
    BY <1>1, <1>2, ProcessesLeave DEF vars
  <1> QED  BY <1>1, <1>2, ProcessesKeep, ListenerKeeps, HostKeeps, ExecutiveKeeps DEF Next

\* List, table and processes of the agent agree in every behaviour, with any
\* number of faults and stops.
THEOREM AgentInvariant == Spec => []AgentInv
  BY InitAgent, NextAgent, PTL DEF Spec

\* A command is started once per request, and once more for each stop of the
\* agent at most.
THEOREM RunsOnceCorrect == Spec => []RunsOncePerRequest
  <1>1. AgentInv => RunsOncePerRequest
    BY DEF AgentInv, ForksAreOwed, RunsOncePerRequest
  <1> QED  BY <1>1, AgentInvariant, PTL

\* No request in the table is overlooked: the executive has it, the flag tells
\* it, the listener is about to, or the job is in the list still, given up or
\* overtaken by the listener.
THEOREM RequestIsSeenCorrect == Spec => []RequestIsSeen
  <1>1. AgentInv => RequestIsSeen
    BY DEF AgentInv
  <1> QED  BY <1>1, AgentInvariant, PTL

\* A result the executive has to send is of the request it answers.
THEOREM ResultCorrect == Spec => []ResultIsOfThisRequest
  <1>1. AgentInv => ResultIsOfThisRequest
    BY Numbers DEF AgentInv, FirstLife, ResultIsOfThisRequest
  <1> QED  BY <1>1, AgentInvariant, PTL

\* A reboot that waits for the open jobs hits none, but for a job whose row the
\* listener has closed after its start and for what a stop has orphaned.
THEOREM RebootCorrect == Spec => []RebootHitsNoJob
  <1>1. AgentInv => RebootHitsNoJob
    BY Numbers DEF AgentInv, FirstLife, RebootHitsNoJob
  <1> QED  BY <1>1, AgentInvariant, PTL
=============================================================================
