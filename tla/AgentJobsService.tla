-------------------------- MODULE AgentJobsService --------------------------
(***************************************************************************)
(* The detailed agent implements AgentService, for every set of jobs and   *)
(* every bound, when its commands stay executable or it is never stopped.  *)
(***************************************************************************)
EXTENDS AgentJobsProof

\* A request whose command cannot be executed follows only such requests: the
\* user of the job, once there, is not deleted.
StaysExecutable ==
  \A j \in Job : \A m, n \in Nat :
    <<j, n>> \in CannotExec /\ m < n => <<j, m>> \in CannotExec

ChildrenAreSafe == StaysExecutable \/ MaxCrashes = 0

\* The listener may still take back, or has taken back, a request that the
\* executive has in its list.
TakenBack(j) ==
  list[j].status = "BEGIN" /\ (row[j].status # "BEGIN" \/ j \in listener \cup takeback)

\* A request in the list has its row until it is run; at most one is taken
\* back while the executive has it.
BegunAgrees ==
  /\ \A j \in Job : list[j].status = "BEGIN" =>
       /\ row[j].status \in {"BEGIN", "CLOSE"}
       /\ exe.at \in {"idle", "add"} => row[j].status = "BEGIN" /\ j \notin listener \cup takeback
       /\ exe.at \notin {"idle", "add"} => j \in exe.todo
  /\ \A i, k \in Job : TakenBack(i) /\ TakenBack(k) => i = k

\* Requests are numbered in the order they are accepted in, and a process
\* belongs to a request that is not younger than the one in row and list.
RequestsInOrder ==
  /\ \A j \in Job :
       /\ row[j].req <= reqs[j] /\ list[j].req <= reqs[j]
       /\ list[j].status = "BEGIN" => list[j].req <= row[j].req
  /\ \A p \in proc :
       /\ p.req <= reqs[p.job]
       /\ p.exec <=> <<p.job, p.req>> \notin CannotExec
       /\ row[p.job].status # "INIT" => p.req <= row[p.job].req
       /\ list[p.job].status # "NONE" => p.req <= list[p.job].req

\* A child that could not become the command is waited for: the executive has
\* its pid, and no other process writes the files of its job.  Its row can have
\* been removed only after the listener has closed it.
ChildIsAwaited ==
  \A p \in proc : ~p.exec =>
    /\ row[p.job].status # "INIT" \/ p.job \in overtaken
    /\ \A q \in proc : q.job = p.job => q.req <= p.req
    /\ up => /\ list[p.job].pid = p.no /\ list[p.job].req = p.req
             /\ files[p.job].exist /\ files[p.job].by = 0
             /\ Forked(p.job) \/ list[p.job].status = "RUN"

ServiceInv == AgentInv /\ BegunAgrees /\ RequestsInOrder /\ ChildIsAwaited
-----------------------------------------------------------------------------
(* The invariant of the refinement *)

\* What a failed child is known by while the agent is up.
LEMMA AwaitedChild ==
  ASSUME ServiceInv, up, NEW p \in proc, ~p.exec
  PROVE  /\ p.job \in Job /\ list[p.job].pid = p.no /\ list[p.job].req = p.req
         /\ files[p.job].exist /\ files[p.job].by = 0
         /\ Forked(p.job) \/ list[p.job].status = "RUN"
         /\ Forked(p.job) => list[p.job].status = "BEGIN"
  BY ProcessFields DEF ServiceInv, AgentInv, OneAtWork, ChildIsAwaited, Forked

\* No command runs beside a failed child of its job.
LEMMA ChildIsAlone ==
  ASSUME ServiceInv, ChildrenAreSafe, up, NEW p \in proc, ~p.exec, NEW q \in proc, q.job = p.job
  PROVE  ~q.exec
  <1>0. TypeOK /\ p.job \in Job /\ p.req \in Nat /\ q.req \in Nat
    BY ProcessFields DEF ServiceInv, AgentInv
  <1>1. CASE MaxCrashes = 0
    <2>1. crashes = 0
      BY <1>0, <1>1 DEF TypeOK
    <2> QED  BY <2>1 DEF ServiceInv, AgentInv, FirstLife
  <1>2. CASE StaysExecutable
    <2>1. q.req <= p.req
      BY DEF ServiceInv, ChildIsAwaited
    <2>2. <<p.job, p.req>> \in CannotExec
      BY DEF ServiceInv, RequestsInOrder
    <2>3. <<q.job, q.req>> \in CannotExec
      BY <1>0, <1>2, <2>1, <2>2 DEF StaysExecutable
    <2> QED  BY <2>3 DEF ServiceInv, RequestsInOrder
  <1> QED  BY <1>1, <1>2 DEF ChildrenAreSafe

\* A failed child keeps its job from being found ended.
LEMMA ChildIsFound ==
  ASSUME ServiceInv, up, NEW p \in proc, ~p.exec
  PROVE  ja_jobfile_chkend(p.job) = 0
  <1>1. files[p.job].exist /\ files[p.job].by = 0 /\ list[p.job].pid = p.no
    BY AwaitedChild
  <1>2. Alive(p.job, list[p.job].pid)
    BY <1>1 DEF Alive, Pid
  <1> QED  BY <1>1, <1>2 DEF ja_jobfile_chkend

\* Commands leave; what they have written is of jobs without a failed child.
LEMMA CommandsLeave ==
  ASSUME ServiceInv, ChildrenAreSafe, AgentInv', proc' \subseteq proc,
         UNCHANGED <<row, list, exe, listener, takeback, overtaken, up, reqs>>,
         \A p \in proc \ proc' : p.exec,
         \A k \in Job : files'[k] # files[k] => \E p \in proc : p.job = k /\ p.exec
  PROVE  ServiceInv'
  <1>1. BegunAgrees' /\ RequestsInOrder'
    BY DEF ServiceInv, BegunAgrees, TakenBack, RequestsInOrder
  <1>2. up => \A p \in proc : ~p.exec => files'[p.job] = files[p.job]
    BY ChildIsAlone, AwaitedChild
  <1>3. ChildIsAwaited'
    BY <1>1, <1>2 DEF ServiceInv, ChildIsAwaited, Forked
  <1> QED  BY <1>1, <1>3 DEF ServiceInv

LEMMA ProcessesServe ==
  ASSUME ServiceInv, ChildrenAreSafe, AgentInv', ProcessNext
  PROVE  ServiceInv'
  <1>0. TypeOK
    BY DEF ServiceInv, AgentInv
  <1>1. ASSUME NEW p \in proc, CommandEnds(p)  PROVE ServiceInv'
    BY <1>0, <1>1, WritesResultFiles, CommandsLeave DEF CommandEnds, table, memory, bounds
  <1>2. ASSUME NEW p \in proc, CommandLost(p)  PROVE ServiceInv'
    BY <1>2, CommandsLeave DEF CommandLost, table, memory
  <1>3. ASSUME NEW p \in proc, ChildFails(p)  PROVE ServiceInv'
    <2>0. p.job \in Job /\ p.req \in Nat
      BY <1>0, ProcessFields
    <2>1. RowSets(p.job, "END", 0, p.req, 0)
      BY <1>0, <1>3, ChildFailsSets
    <2>2. /\ ~p.exec /\ proc' = proc \ {p} /\ ~(Forked(p.job) /\ list[p.job].pid = p.no)
          /\ UNCHANGED <<list, exe, listener, takeback, overtaken, files, up, reqs>>
      BY <1>3 DEF ChildFails, memory, bounds
    <2>3. list[p.job].status # "BEGIN"
      BY <2>0, <2>2, AwaitedChild DEF ServiceInv, AgentInv, OneAtWork
    <2>4. BegunAgrees'
      BY <2>0, <2>1, <2>2, <2>3 DEF ServiceInv, BegunAgrees, TakenBack, RowSets
    <2>5. RequestsInOrder'
      <3>1. \A q \in proc : q.job \in Job /\ (q.job = p.job => q.req <= p.req)
        BY <1>0, <2>2, ProcessFields DEF ServiceInv, ChildIsAwaited
      <3> QED  BY <2>0, <2>1, <2>2, <2>3, <3>1 DEF ServiceInv, RequestsInOrder, RowSets
    <2>6. ChildIsAwaited'
      BY <1>0, <2>0, <2>1, <2>2, ProcessFields DEF ServiceInv, ChildIsAwaited, Forked, RowSets
    <2> QED  BY <2>4, <2>5, <2>6 DEF ServiceInv
  <1> QED  BY <1>1, <1>2, <1>3 DEF ProcessNext

LEMMA ListenerServes ==
  ASSUME ServiceInv, ChildrenAreSafe, AgentInv', ListenerNext
  PROVE  ServiceInv'
  <1>0. TypeOK
    BY DEF ServiceInv, AgentInv
  <1>1. ASSUME NEW j \in Job, ja_agent_begin(j)  PROVE ServiceInv'
    <2>1. UNCHANGED <<list, exe, takeback, overtaken, proc, files, up>>
      BY <1>1 DEF ja_agent_begin, host
    <2>2. CASE row[j].status \notin {"INIT", "CLOSE"}
      <3>1. UNCHANGED <<reqs, row, listener>>
        BY <1>1, <2>2 DEF ja_agent_begin
      <3> QED  BY <2>1, <3>1, CommandsLeave
    <2>3. CASE row[j].status \in {"INIT", "CLOSE"}
      <3>1. RowSets(j, "BEGIN", 0, reqs[j] + 1, 0)
        BY <1>0, <1>1, <2>3, BeginSets
      <3>2. /\ listener = {} /\ takeback = {} /\ listener' = {j}
            /\ reqs'[j] = reqs[j] + 1 /\ \A k \in Job : k # j => reqs'[k] = reqs[k]
        BY <1>0, <1>1, <2>3 DEF ja_agent_begin, Listening, TypeOK
      <3>3. BegunAgrees'
        BY <2>1, <2>3, <3>1, <3>2 DEF ServiceInv, BegunAgrees, TakenBack, RowSets
      <3>4. RequestsInOrder'
        <4>1. \A k \in Job : reqs[k] <= reqs'[k]
          BY <1>0, <3>2, Numbers
        <4> QED  BY <1>0, <2>1, <3>1, <3>2, <4>1, Numbers, ProcessFields
                 DEF ServiceInv, RequestsInOrder, RowSets
      <3>5. ChildIsAwaited'
        BY <1>0, <2>1, <3>1, ProcessFields DEF ServiceInv, ChildIsAwaited, Forked, RowSets
      <3> QED  BY <3>3, <3>4, <3>5 DEF ServiceInv
    <2> QED  BY <2>2, <2>3
  <1>2. ASSUME NEW j \in Job, ja_agent_kill(j)  PROVE ServiceInv'
    <2>1. UNCHANGED <<row, list, exe, listener, takeback, overtaken, up, reqs>>
      BY <1>2 DEF ja_agent_kill, memory, bounds
    <2>2. CASE UNCHANGED <<proc, files>>
      BY <2>1, <2>2, CommandsLeave
    <2>3. ASSUME NEW p \in proc, WritesResult(p)  PROVE ServiceInv'
      BY <1>0, <2>1, <2>3, WritesResultFiles, CommandsLeave
    <2> QED  BY <1>2, <2>2, <2>3 DEF ja_agent_kill
  <1>3. ASSUME NEW j \in Job, ListenerFlag(j)  PROVE ServiceInv'
    <2>1. listener' = {} /\ UNCHANGED <<row, list, exe, takeback, overtaken, proc, files, up, reqs>>
      BY <1>3 DEF ListenerFlag, host, bounds
    <2> QED  BY <2>1 DEF ServiceInv, BegunAgrees, TakenBack, RequestsInOrder, ChildIsAwaited, Forked
  <1>4. ASSUME NEW j \in Job, ListenerNoFlag(j)  PROVE ServiceInv'
    <2>1. /\ j \in listener /\ listener' = {} /\ takeback' \subseteq {j}
          /\ takeback' = {} => row[j].status # "BEGIN"
          /\ UNCHANGED <<row, list, exe, overtaken, proc, files, up, reqs>>
      BY <1>4 DEF ListenerNoFlag, table, host
    <2>2. BegunAgrees'
      BY <2>1 DEF ServiceInv, BegunAgrees, TakenBack
    <2>3. RequestsInOrder' /\ ChildIsAwaited'
      BY <2>1 DEF ServiceInv, RequestsInOrder, ChildIsAwaited, Forked
    <2> QED  BY <2>2, <2>3 DEF ServiceInv
  <1>5. ASSUME NEW j \in Job, ListenerTakesBack(j)  PROVE ServiceInv'
    <2>1. /\ j \in takeback /\ takeback' = {} /\ overtaken \subseteq overtaken'
          /\ UNCHANGED <<list, exe, listener, proc, files, up, reqs>>
      BY <1>5 DEF ListenerTakesBack, host, bounds
    <2>2. RowSets(j, "CLOSE", 0, reqs[j], 0)
      BY <1>0, <1>5, TakesBackSets
    <2>3. BegunAgrees'
      BY <2>1, <2>2 DEF ServiceInv, BegunAgrees, TakenBack, RowSets
    <2>4. RequestsInOrder'
      BY <1>0, <2>1, <2>2, Numbers, ProcessFields DEF ServiceInv, RequestsInOrder, RowSets
    <2>5. ChildIsAwaited'
      BY <1>0, <2>1, <2>2, ProcessFields DEF ServiceInv, ChildIsAwaited, Forked, RowSets
    <2> QED  BY <2>3, <2>4, <2>5 DEF ServiceInv
  <1> QED  BY <1>1, <1>2, <1>3, <1>4, <1>5 DEF ListenerNext

LEMMA HostServes ==
  ASSUME ServiceInv, ChildrenAreSafe, AgentInv',
         \/ AgentCrash \/ HostReboot \/ AgentStart
         \/ \E j \in Job : ja_dbmain_remove_oldjob(j)
  PROVE  ServiceInv'
  <1>0. TypeOK
    BY DEF ServiceInv, AgentInv
  <1>1. CASE Down /\ UNCHANGED <<row, reqs, overtaken>> /\ proc' \subseteq proc
    <2>1. up' = FALSE /\ listener' = {} /\ takeback' = {} /\ list' = [j \in Job |-> NoObject]
      BY <1>1 DEF Down
    <2>2. \A j \in Job : list'[j].status = "NONE" /\ list'[j].req = 0
      BY <2>1, NoObjectType
    <2>3. BegunAgrees' /\ ChildIsAwaited'
      BY <1>1, <2>1, <2>2 DEF ServiceInv, BegunAgrees, TakenBack, ChildIsAwaited
    <2>4. RequestsInOrder'
      BY <1>0, <1>1, <2>2, Numbers, ProcessFields DEF ServiceInv, RequestsInOrder
    <2> QED  BY <2>3, <2>4 DEF ServiceInv
  <1>2. CASE AgentStart
    <2>1. /\ \A p \in proc : p.exec
          /\ ~up /\ UNCHANGED <<row, exe, listener, takeback, overtaken, proc, reqs>>
      BY <1>2 DEF AgentStart, table, host, bounds
    <2>2. \A j \in Job :
            IF row[j].status \in {"INIT", "CLOSE"}
            THEN list'[j].status = "NONE" /\ list'[j].req = 0
            ELSE list'[j].status = row[j].status /\ list'[j].req = row[j].req
      BY <1>2, StartSets
    <2>3. exe.at = "idle" /\ listener = {} /\ takeback = {}
      BY <2>1 DEF ServiceInv, AgentInv, OneAtWork
    <2>4. BegunAgrees' /\ ChildIsAwaited'
      BY <2>1, <2>2, <2>3 DEF BegunAgrees, TakenBack, ChildIsAwaited
    <2>5. RequestsInOrder'
      BY <1>0, <2>1, <2>2, Numbers, ProcessFields DEF ServiceInv, RequestsInOrder
    <2> QED  BY <2>4, <2>5 DEF ServiceInv
  <1>3. ASSUME NEW j \in Job, ja_dbmain_remove_oldjob(j)  PROVE ServiceInv'
    <2>1. /\ row[j].status = "CLOSE" /\ row'[j].status = "INIT" /\ row'[j].req = 0
          /\ \A k \in Job : k # j => row'[k] = row[k]
          /\ up /\ exe.at = "idle"
          /\ UNCHANGED <<list, exe, listener, takeback, overtaken, proc, files, up, reqs>>
      BY <1>0, <1>3, NoRowType DEF ja_dbmain_remove_oldjob, At, memory, host, bounds, TypeOK
    <2>2. list[j].status # "BEGIN" /\ (list[j].status # "RUN" \/ j \in overtaken)
      BY <2>1 DEF ServiceInv, AgentInv, ListAgrees, BegunAgrees
    <2>3. \A p \in proc : ~p.exec => p.job # j \/ j \in overtaken
      BY <2>1, <2>2, AwaitedChild DEF Forked
    <2>4. BegunAgrees' /\ ChildIsAwaited'
      BY <1>0, <2>1, <2>2, <2>3, ProcessFields
      DEF ServiceInv, BegunAgrees, TakenBack, ChildIsAwaited, Forked
    <2>5. RequestsInOrder'
      BY <1>0, <2>1, <2>2, Numbers, ProcessFields DEF ServiceInv, RequestsInOrder
    <2> QED  BY <2>4, <2>5 DEF ServiceInv
  <1> QED  BY <1>1, <1>2, <1>3 DEF AgentCrash, HostReboot, table, host

\* The executive moves on without a write; a job it leaves behind is not one
\* it has to start.
LEMMA MovesServe ==
  ASSUME ServiceInv, ChildrenAreSafe, AgentInv', exe.at # "forked",
         UNCHANGED <<row, list, listener, takeback, overtaken, proc, files, up, reqs>>,
         \/ exe.at = "idle" /\ exe'.at = "add"
         \/ exe.at = "idle" /\ exe'.at = "walk" /\ exe'.todo = Listed
         \/ exe.at = "walk" /\ exe'.at = "idle" /\ exe.todo = {}
         \/ /\ exe.at \notin {"idle", "add"} /\ exe'.at \notin {"idle", "add", "forked"}
            /\ \A k \in Job : list[k].status = "BEGIN" /\ k \in exe.todo => k \in exe'.todo
  PROVE  ServiceInv'
  <1>1. BegunAgrees'
    BY DEF ServiceInv, BegunAgrees, TakenBack, Listed
  <1>2. RequestsInOrder'
    BY DEF ServiceInv, RequestsInOrder
  <1>3. ChildIsAwaited'
    BY DEF ServiceInv, ChildIsAwaited, Forked
  <1> QED  BY <1>1, <1>2, <1>3 DEF ServiceInv

\* The executive ends or closes a job that has no failed child.
LEMMA WritesServe ==
  ASSUME ServiceInv, ChildrenAreSafe, AgentInv', NEW j \in Job, NEW st \in {"END", "CLOSE"}, NEW res,
         up, exe.at \notin {"idle", "add", "forked"}, list[j].status # "NONE",
         BothSet(j, st, res), exe'.at = "walk", exe.todo \subseteq exe'.todo \cup {j},
         UNCHANGED <<listener, takeback, up, reqs>>,
         \A q \in proc' : \E p \in proc : q.job = p.job /\ q.no = p.no /\ q.req = p.req /\ q.exec = p.exec,
         \A p \in proc : ~p.exec => p.job # j,
         \A k \in Job : k # j => files'[k] = files[k]
  PROVE  ServiceInv'
  <1>0. TypeOK
    BY DEF ServiceInv, AgentInv
  <1>1. BegunAgrees'
    BY DEF ServiceInv, BegunAgrees, TakenBack, BothSet, ListSets, RowSets, OvertakenSets
  <1>2. RequestsInOrder'
    BY <1>0, Numbers, ProcessFields
    DEF ServiceInv, RequestsInOrder, BothSet, ListSets, RowSets, OvertakenSets
  <1>3. ChildIsAwaited'
    <2> SUFFICES ASSUME NEW q \in proc', ~q.exec
                 PROVE  /\ row'[q.job].status # "INIT" \/ q.job \in overtaken'
                        /\ \A r \in proc' : r.job = q.job => r.req <= q.req
                        /\ list'[q.job].pid = q.no /\ list'[q.job].req = q.req
                        /\ files'[q.job].exist /\ files'[q.job].by = 0
                        /\ list'[q.job].status = "RUN"
      BY DEF ChildIsAwaited
    <2>1. PICK p \in proc : q.job = p.job /\ q.no = p.no /\ q.req = p.req /\ q.exec = p.exec
      OBVIOUS
    <2>2. /\ p.job \in Job /\ p.job # j /\ ~p.exec /\ ~Forked(p.job)
          /\ list'[p.job] = list[p.job] /\ row'[p.job] = row[p.job] /\ files'[p.job] = files[p.job]
          /\ p.job \in overtaken' <=> p.job \in overtaken
      BY <1>0, <2>1, ProcessFields DEF BothSet, ListSets, RowSets, OvertakenSets, Forked
    <2>3. \A r \in proc' : r.job = q.job => r.req <= q.req
      BY <2>1, <2>2 DEF ServiceInv, ChildIsAwaited
    <2> QED  BY <2>1, <2>2, <2>3 DEF ServiceInv, ChildIsAwaited
  <1> QED  BY <1>1, <1>2, <1>3 DEF ServiceInv

LEMMA AddServes ==
  ASSUME ServiceInv, AgentInv', ja_job_object_list_add
  PROVE  ServiceInv'
  <1>0. TypeOK
    BY DEF ServiceInv, AgentInv
  <1> DEFINE new == {j \in Job : row[j].status = "BEGIN"} \ Listed
  <1>1. list' = [j \in Job |-> IF j \in new THEN Begun(j) ELSE list[j]]
    BY DEF ja_job_object_list_add
  <1>2. \A j \in Job : IF j \in new THEN list'[j].status = "BEGIN" /\ list'[j].req = row[j].req
                       ELSE list'[j] = list[j]
    BY <1>0, <1>1, BegunObject
  <1>3. \A j \in Job : j \in new => list[j].status = "NONE" /\ row[j].status = "BEGIN"
    BY DEF Listed
  <1>4. exe'.at = "walk" /\ exe'.todo = Listed \cup new
    BY DEF ja_job_object_list_add, Resting
  <1>5. /\ up /\ exe.at = "add" /\ UNCHANGED <<row, listener, takeback, overtaken, proc,
                                               files, up, reqs>>
    BY DEF ja_job_object_list_add, At, table, host, bounds
  <1> HIDE DEF new
  <1>6. BegunAgrees'
    <2>1. \A j \in Job : list[j].status = "BEGIN" => j \in Listed
      BY DEF Listed
    <2>2. \A j \in Job : TakenBack(j)' => j \in listener \cup takeback
      BY <1>2, <1>3, <1>5 DEF ServiceInv, BegunAgrees, TakenBack
    <2> QED  BY <1>2, <1>3, <1>4, <1>5, <2>1, <2>2
             DEF ServiceInv, AgentInv, OneAtWork, BegunAgrees
  <1>7. RequestsInOrder'
    BY <1>0, <1>2, <1>3, <1>5, Numbers, ProcessFields DEF ServiceInv, RequestsInOrder
  <1>8. ChildIsAwaited'
    <2>1. \A p \in proc : ~p.exec => p.job \in Job /\ list[p.job].status = "RUN"
      BY <1>5, AwaitedChild DEF Forked
    <2>2. \A p \in proc : ~p.exec => list'[p.job] = list[p.job]
      BY <1>2, <1>3, <2>1
    <2> QED  BY <1>5, <2>1, <2>2 DEF ServiceInv, ChildIsAwaited
  <1> QED  BY <1>6, <1>7, <1>8 DEF ServiceInv

LEMMA RunServes ==
  ASSUME ServiceInv, AgentInv', NEW j \in Job, ja_agent_run(j)
  PROVE  ServiceInv'
  <1>0. TypeOK
    BY DEF ServiceInv, AgentInv
  <1>1. /\ ListSets(j, "BEGIN", forks[j] + 1, list[j].req, list[j].result)
        /\ proc' = proc \cup {NewProcess(j)}
    BY <1>0, RunSets DEF ja_agent_run, Walk
  <1>2. exe'.at = "forked" /\ exe'.cur = {j} /\ exe'.todo = exe.todo
    BY <1>0, WalkTypes DEF ja_agent_run
  <1>3. /\ up /\ exe.at = "walk" /\ list[j].status = "BEGIN"
        /\ UNCHANGED <<row, listener, takeback, overtaken, up, reqs>>
    BY DEF ja_agent_run, Walk, At, table
  <1>4. files'[j].exist /\ files'[j].by = 0 /\ \A k \in Job : k # j => files'[k] = files[k]
    BY <1>0 DEF ja_agent_run, TypeOK
  <1>5. /\ NewProcess(j).job = j /\ NewProcess(j).no = forks[j] + 1
        /\ NewProcess(j).req = list[j].req
        /\ NewProcess(j).exec <=> <<j, list[j].req>> \notin CannotExec
    BY DEF NewProcess
  <1>6. \A p \in proc : p.job \in Job /\ (~p.exec => p.job # j)
    BY <1>0, <1>3, AwaitedChild, ProcessFields DEF Forked
  <1>7. BegunAgrees'
    BY <1>1, <1>2, <1>3 DEF ServiceInv, BegunAgrees, TakenBack, ListSets
  <1>8. RequestsInOrder'
    <2>1. list[j].req <= list[j].req
      BY <1>0, Numbers
    <2>2. \A k \in Job : list'[k].status = list[k].status /\ list'[k].req = list[k].req
      BY <1>1, <1>3 DEF ListSets
    <2>3. /\ list[j].req <= reqs[j] /\ list[j].req <= row[j].req
      BY <1>3 DEF ServiceInv, RequestsInOrder
    <2> DEFINE new == NewProcess(j)
    <2>4. /\ new.req <= reqs'[new.job] /\ new.req <= row'[new.job].req
          /\ new.req <= list'[new.job].req /\ (new.exec <=> <<new.job, new.req>> \notin CannotExec)
      BY <1>3, <1>5, <2>1, <2>2, <2>3
    <2> HIDE DEF new
    <2> QED  BY <1>1, <1>3, <1>6, <2>2, <2>4 DEF ServiceInv, RequestsInOrder, new
  <1>9. ChildIsAwaited'
    <2>1. row[j].status # "INIT" /\ \A p \in proc : p.job = j => p.req <= list[j].req
      BY <1>3 DEF ServiceInv, BegunAgrees, RequestsInOrder
    <2>2. list[j].req <= list[j].req
      BY <1>0, Numbers
    <2>3. \A p \in proc : ~p.exec => /\ list'[p.job] = list[p.job] /\ files'[p.job] = files[p.job]
                                     /\ list[p.job].status = "RUN"
      BY <1>1, <1>3, <1>4, <1>6, AwaitedChild DEF Forked, ListSets
    <2> QED  BY <1>1, <1>2, <1>3, <1>4, <1>5, <1>6, <2>1, <2>2, <2>3
             DEF ServiceInv, ChildIsAwaited, Forked, ListSets
  <1> QED  BY <1>7, <1>8, <1>9 DEF ServiceInv

LEMMA RunUpdateServes ==
  ASSUME ServiceInv, AgentInv', NEW j \in Job, RunUpdate(j)
  PROVE  ServiceInv'
  <1>0. TypeOK
    BY DEF ServiceInv, AgentInv
  <1>1. BothSet(j, "RUN", list[j].result)
    BY <1>0, RunUpdateSets
  <1>2. exe'.at = "walk" /\ exe'.todo = exe.todo
    BY <1>0, WalkTypes DEF RunUpdate
  <1>3. /\ up /\ exe.at = "forked" /\ j \in exe.cur /\ list[j].status = "BEGIN"
        /\ UNCHANGED <<listener, takeback, proc, files, up, reqs>>
    BY DEF RunUpdate, At, host, bounds, ServiceInv, AgentInv, OneAtWork
  <1>4. \A k \in Job : k # j => ~Forked(k)
    BY <1>3 DEF ServiceInv, AgentInv, OneAtWork, Forked
  <1>5. BegunAgrees'
    BY <1>1, <1>2, <1>3
    DEF ServiceInv, BegunAgrees, TakenBack, BothSet, ListSets, RowSets, OvertakenSets
  <1>6. RequestsInOrder'
    BY <1>0, <1>1, <1>3, Numbers, ProcessFields
    DEF ServiceInv, RequestsInOrder, BothSet, ListSets, RowSets, OvertakenSets
  <1>7. ChildIsAwaited'
    BY <1>0, <1>1, <1>3, <1>4, ProcessFields
    DEF ServiceInv, ChildIsAwaited, BothSet, ListSets, RowSets, OvertakenSets
  <1> QED  BY <1>5, <1>6, <1>7 DEF ServiceInv

LEMMA ExecutiveServes ==
  ASSUME ServiceInv, ChildrenAreSafe, AgentInv', ExecutiveNext
  PROVE  ServiceInv'
  <1>0. TypeOK
    BY DEF ServiceInv, AgentInv
  <1>1. CASE PassBegin
    <2>1. exe'.at = "add" \/ (exe'.at = "walk" /\ exe'.todo = Listed)
      BY <1>1 DEF PassBegin, Resting
    <2> QED  BY <1>1, <2>1, MovesServe DEF PassBegin, At, host, bounds
  <1>2. CASE ja_job_object_list_add
    BY <1>2, AddServes
  <1>3. CASE PassEnd
    <2>1. exe'.at = "idle"
      BY <1>3 DEF PassEnd, Resting
    <2> QED  BY <1>3, <2>1, MovesServe DEF PassEnd, At, table, host, bounds
  <1>4. ASSUME NEW j \in Job, ja_agent_run(j)  PROVE ServiceInv'
    BY <1>4, RunServes
  <1>5. ASSUME NEW j \in Job, RunUpdate(j)  PROVE ServiceInv'
    BY <1>5, RunUpdateServes
  <1>6. ASSUME NEW j \in Job, RunFails(j)  PROVE ServiceInv'
    <2>1. /\ up /\ exe.at = "walk" /\ list[j].status = "BEGIN"
          /\ UNCHANGED <<listener, takeback, proc, files, up, reqs>>
      BY <1>6 DEF RunFails, Walk, At, host, bounds
    <2>2. BothSet(j, "END", 0)
      BY <1>0, <1>6, EndSets DEF RunFails
    <2>3. exe'.at = "walk" /\ exe'.todo = exe.todo \ {j}
      BY <1>0, <1>6, WalkTypes DEF RunFails
    <2>4. \A p \in proc : ~p.exec => p.job # j
      BY <2>1, AwaitedChild DEF Forked
    <2> QED  BY <2>1, <2>2, <2>3, <2>4, WritesServe
  <1>7. ASSUME NEW j \in Job, ja_agent_end(j) \/ RebootWaits(j)  PROVE ServiceInv'
    <2>1. /\ up /\ exe.at \in {"walk", "reboot"} /\ list[j].status = "RUN" /\ EndChecked(j)
          /\ UNCHANGED <<listener, takeback, proc, files, up, reqs>>
      BY <1>7 DEF ServiceInv, AgentInv, OneAtWork, ja_agent_end, RebootWaits, Walk, At, host, bounds
    <2>2. SameJob \/ NextJob(j) => exe'.at = "walk" /\ exe.todo \subseteq exe'.todo \cup {j}
      BY <1>0, WalkTypes
    <2>3. CASE NextJob(j) /\ UNCHANGED <<list, row, overtaken>>
      BY <2>1, <2>2, <2>3, MovesServe
    <2>4. ASSUME ja_jobfile_chkend(j) # 0, SameJob \/ NextJob(j),
                 NEW res \in {0, files[j].by, list[j].req}, BothSet(j, "END", res)
          PROVE  ServiceInv'
      <3>1. \A p \in proc : ~p.exec => p.job # j
        BY <2>1, <2>4, ChildIsFound
      <3> QED  BY <2>1, <2>2, <2>4, <3>1, WritesServe
    <2> QED  BY <1>0, <2>1, <2>3, <2>4, EndCheckedSets
  <1>8. ASSUME NEW j \in Job, ja_reboot_chkend(j)  PROVE ServiceInv'
    <2>1. /\ up /\ exe.at = "walk" /\ list[j].status = "RUN"
          /\ UNCHANGED <<row, list, listener, takeback, overtaken, up, reqs>>
      BY <1>8 DEF ja_reboot_chkend, Walk, At, bounds
    <2>2. CASE NextJob(j) /\ UNCHANGED <<proc, files>>
      <3>1. exe'.at = "walk" /\ exe'.todo = exe.todo \ {j}
        BY <1>0, <2>2, WalkTypes
      <3> QED  BY <2>1, <2>2, <3>1, MovesServe
    <2>3. CASE Within(j, "reboot") /\ KillAll
      <3>1. exe'.at = "reboot" /\ exe'.todo = exe.todo
        BY <1>0, <2>3, WalkTypes
      <3>2. /\ proc' \subseteq proc
            /\ \A k \in Job : files'[k] # files[k] => \E p \in proc : p.job = k /\ p.exec
        BY <1>0, <2>3, KillAllFiles
      <3>3. \A p \in proc : ~p.exec => /\ p.job \in Job /\ files'[p.job] = files[p.job]
                                       /\ list[p.job].status = "RUN"
        BY <2>1, <3>2, ChildIsAlone, AwaitedChild DEF Forked
      <3>4. BegunAgrees' /\ RequestsInOrder'
        BY <2>1, <3>1, <3>2 DEF ServiceInv, BegunAgrees, TakenBack, RequestsInOrder
      <3>5. ChildIsAwaited'
        BY <2>1, <3>2, <3>3 DEF ServiceInv, ChildIsAwaited
      <3> QED  BY <3>4, <3>5 DEF ServiceInv
    <2> QED  BY <1>8, <2>2, <2>3 DEF ja_reboot_chkend
  <1>9. ASSUME NEW j \in Job, ja_agent_send(j)  PROVE ServiceInv'
    <2>1. exe'.at = "sent" /\ exe'.todo = exe.todo
      BY <1>0, <1>9, WalkTypes DEF ja_agent_send
    <2> QED  BY <1>9, <2>1, MovesServe DEF ja_agent_send, Walk, At, table, host, bounds
  <1>10. ASSUME NEW j \in Job, SendFails(j)  PROVE ServiceInv'
    <2>1. /\ up /\ exe.at = "walk" /\ list[j].status = "END"
          /\ UNCHANGED <<listener, takeback, proc, files, up, reqs>>
      BY <1>10 DEF SendFails, Walk, At, host
    <2>2. exe'.at = "walk" /\ exe'.todo = exe.todo \ {j}
      BY <1>0, <1>10, WalkTypes DEF SendFails
    <2>3. \A p \in proc : p.job \in Job /\ (~p.exec => p.job # j)
      BY <1>0, <2>1, AwaitedChild, ProcessFields DEF Forked
    <2>4. CASE BothSet(j, "CLOSE", list[j].result)
      BY <2>1, <2>2, <2>3, <2>4, WritesServe
    <2>5. CASE UNCHANGED <<row, overtaken>> /\ ListSets(j, "END", list[j].pid, list[j].req,
                           list[j].result)
      <3>1. BegunAgrees' /\ RequestsInOrder'
        BY <2>1, <2>2, <2>3, <2>5 DEF ServiceInv, BegunAgrees, TakenBack, RequestsInOrder, ListSets
      <3>2. ChildIsAwaited'
        BY <2>1, <2>3, <2>5 DEF ServiceInv, ChildIsAwaited, Forked, ListSets
      <3> QED  BY <3>1, <3>2 DEF ServiceInv
    <2> QED  BY <1>0, <1>10, <2>1, <2>4, <2>5, SendFailsSets
  <1>11. ASSUME NEW j \in Job, ja_agent_close(j)  PROVE ServiceInv'
    <2>1. /\ up /\ exe.at = "sent" /\ list[j].status = "END"
          /\ UNCHANGED <<listener, takeback, up, reqs>>
      BY <1>11 DEF ja_agent_close, At, bounds, ServiceInv, AgentInv, OneAtWork
    <2>2. BothSet(j, "CLOSE", list[j].result)
      BY <1>0, <1>11, CloseSets DEF ja_agent_close, TypeOK
    <2>3. exe'.at = "walk" /\ exe'.todo = exe.todo
      BY <1>0, <1>11, WalkTypes DEF ja_agent_close
    <2>4. \A p \in proc : ~p.exec => p.job # j
      BY <2>1, AwaitedChild DEF Forked
    <2>5. \A q \in proc' : \E p \in proc : /\ q.job = p.job /\ q.no = p.no
                                           /\ q.req = p.req /\ q.exec = p.exec
      BY <1>0, <1>11, CloseProcesses
    <2>6. \A k \in Job : k # j => files'[k] = files[k]
      BY <1>0, <1>11, CloseFiles
    <2> QED  BY <2>1, <2>2, <2>3, <2>4, <2>5, <2>6, WritesServe
  <1>12. ASSUME NEW j \in Job, ListRemove(j)  PROVE ServiceInv'
    <2>1. /\ up /\ exe.at = "walk" /\ list[j].status = "CLOSE"
          /\ list'[j].status = "NONE" /\ list'[j].req = 0
          /\ \A k \in Job : k # j => list'[k] = list[k]
          /\ UNCHANGED <<row, listener, takeback, overtaken, proc, files, up, reqs>>
      BY <1>0, <1>12, NoObjectType DEF ListRemove, Walk, At, TypeOK, table, host, bounds
    <2>2. exe'.at = "walk" /\ exe'.todo = exe.todo \ {j}
      BY <1>0, <1>12, WalkTypes DEF ListRemove
    <2>3. \A p \in proc : p.job \in Job /\ (~p.exec => p.job # j)
      BY <1>0, <2>1, AwaitedChild, ProcessFields DEF Forked
    <2>4. BegunAgrees' /\ ChildIsAwaited'
      BY <2>1, <2>2, <2>3 DEF ServiceInv, BegunAgrees, TakenBack, ChildIsAwaited, Forked
    <2>5. RequestsInOrder'
      BY <1>0, <2>1, <2>3, Numbers DEF ServiceInv, RequestsInOrder
    <2> QED  BY <2>4, <2>5 DEF ServiceInv
  <1> QED  BY <1>1, <1>2, <1>3, <1>4, <1>5, <1>6, <1>7, <1>8, <1>9, <1>10, <1>11, <1>12
           DEF ExecutiveNext

\* A failed child is always waited for.
THEOREM ServiceInvariant ==
  ASSUME ChildrenAreSafe
  PROVE  Spec => []ServiceInv
  <1>1. Init => ServiceInv
    <2> SUFFICES ASSUME Init  PROVE ServiceInv
      OBVIOUS
    <2>1. AgentInv
      BY InitAgent
    <2>2. \A j \in Job : /\ row[j].status = "INIT" /\ list[j].status = "NONE"
                         /\ row[j].req = 0 /\ list[j].req = 0 /\ reqs[j] = 0
      BY NoRowType, NoObjectType DEF Init
    <2>3. BegunAgrees /\ RequestsInOrder /\ ChildIsAwaited
      BY <2>2 DEF Init, BegunAgrees, TakenBack, RequestsInOrder, ChildIsAwaited
    <2> QED  BY <2>1, <2>3 DEF ServiceInv
  <1>2. ServiceInv /\ [Next]_vars => ServiceInv'
    <2> SUFFICES ASSUME ServiceInv, [Next]_vars  PROVE ServiceInv'
      OBVIOUS
    <2>1. AgentInv'
      BY NextAgent DEF ServiceInv
    <2>2. CASE UNCHANGED vars
      BY <2>1, <2>2, CommandsLeave DEF vars
    <2> QED  BY <2>1, <2>2, ProcessesServe, ListenerServes, HostServes, ExecutiveServes DEF Next
  <1> QED  BY <1>1, <1>2, PTL DEF Spec
-----------------------------------------------------------------------------
(* The refinement *)

\* The phases of the jobs as AgentService has them.
Phases == [j \in Job |-> Phase(j)]

\* Job j has a child that is about to write its row.
HasChild(j) == \E p \in proc : p.job = j /\ ~p.exec

\* A phase depends on the status of row and object, on such a child and on
\* whether the row was closed after the start.
LEMMA PhaseValue ==
  ASSUME NEW j \in Job
  PROVE  Phase(j) = IF j \in overtaken THEN "done"
                    ELSE IF \/ row[j].status = "BEGIN" \/ list[j].status = "BEGIN"
                            \/ row[j].status \in {"INIT", "CLOSE"} /\ HasChild(j)
                    THEN "begin"
                    ELSE IF row[j].status = "RUN" THEN "run"
                    ELSE IF row[j].status = "END" THEN "done" ELSE "idle"
  BY DEF Phase, Accepted, HasChild

LEMMA PhaseValueAfter ==
  ASSUME NEW j \in Job
  PROVE  Phase(j)' = IF j \in overtaken' THEN "done"
                     ELSE IF \/ row'[j].status = "BEGIN" \/ list'[j].status = "BEGIN"
                             \/ row'[j].status \in {"INIT", "CLOSE"} /\ HasChild(j)'
                     THEN "begin"
                     ELSE IF row'[j].status = "RUN" THEN "run"
                     ELSE IF row'[j].status = "END" THEN "done" ELSE "idle"
  BY DEF Phase, Accepted, HasChild

LEMMA PhaseStays ==
  ASSUME NEW j \in Job, row'[j].status = row[j].status,
         list'[j].status = "BEGIN" <=> list[j].status = "BEGIN",
         HasChild(j)' <=> HasChild(j), j \in overtaken' <=> j \in overtaken
  PROVE  Phase(j)' = Phase(j)
  BY PhaseValue, PhaseValueAfter

\* A step that changes the phase of no job is a stutter, and one that changes
\* the phase of one job as AgentService allows is a step of it.
LEMMA AllStay ==
  ASSUME \A j \in Job : Phase(j)' = Phase(j)
  PROVE  Phases' = Phases
  BY DEF Phases

LEMMA OneMoves ==
  ASSUME NEW j \in Job, \A k \in Job : k # j => Phase(k)' = Phase(k),
         \/ Phase(j)' = Phase(j)
         \/ Phase(j) = "idle" /\ Phase(j)' = "begin"
         \/ Phase(j) = "begin" /\ Phase(j)' = "idle"
         \/ Phase(j) = "begin" /\ Phase(j)' = "run"
         \/ Phase(j) \in {"begin", "run"} /\ Phase(j)' = "done"
         \/ Phase(j) = "done" /\ Phase(j)' = "idle"
  PROVE  Service!Next \/ Phases' = Phases
  <1>1. Phases' = [Phases EXCEPT ![j] = Phase(j)'] /\ Phases[j] = Phase(j)
    BY DEF Phases
  <1>2. CASE Phase(j)' = Phase(j)
    BY <1>2, AllStay
  <1>3. CASE Phase(j) = "idle" /\ Phase(j)' = "begin"
    BY <1>1, <1>3 DEF Phases, Service!Next, Service!Accept, Service!Moves
  <1>4. CASE Phase(j) = "begin" /\ Phase(j)' = "idle"
    BY <1>1, <1>4 DEF Phases, Service!Next, Service!Withdraw, Service!Moves
  <1>5. CASE Phase(j) = "begin" /\ Phase(j)' = "run"
    BY <1>1, <1>5 DEF Phases, Service!Next, Service!Run, Service!Moves
  <1>6. CASE Phase(j) \in {"begin", "run"} /\ Phase(j)' = "done"
    BY <1>1, <1>6 DEF Phases, Service!Next, Service!Finish, Service!Moves
  <1>7. CASE Phase(j) = "done" /\ Phase(j)' = "idle"
    BY <1>1, <1>7 DEF Phases, Service!Next, Service!Close, Service!Moves
  <1> QED  BY <1>2, <1>3, <1>4, <1>5, <1>6, <1>7

\* Steps that change neither rows nor list nor the failed children.
LEMMA QuietStays ==
  ASSUME UNCHANGED <<row, list, overtaken>>, proc' \subseteq proc, \A p \in proc \ proc' : p.exec
  PROVE  Phases' = Phases
  <1>1. \A j \in Job : HasChild(j)' <=> HasChild(j)
    BY DEF HasChild
  <1> QED  BY <1>1, PhaseStays, AllStay

\* A failed child finishes its job.
LEMMA ProcessesImplement ==
  ASSUME ServiceInv, ProcessNext
  PROVE  Service!Next \/ Phases' = Phases
  <1>0. TypeOK
    BY DEF ServiceInv, AgentInv
  <1>1. ASSUME NEW p \in proc, CommandEnds(p)  PROVE Phases' = Phases
    BY <1>0, <1>1, WritesResultFiles, QuietStays DEF CommandEnds, table, memory
  <1>2. ASSUME NEW p \in proc, CommandLost(p)  PROVE Phases' = Phases
    BY <1>2, QuietStays DEF CommandLost, table, memory
  <1>3. ASSUME NEW p \in proc, ChildFails(p)  PROVE Service!Next \/ Phases' = Phases
    <2>0. p.job \in Job
      BY <1>0, ProcessFields
    <2>1. RowSets(p.job, "END", 0, p.req, 0)
      BY <1>0, <1>3, ChildFailsSets
    <2>2. /\ ~p.exec /\ proc' = proc \ {p} /\ ~(Forked(p.job) /\ list[p.job].pid = p.no)
          /\ UNCHANGED <<list, overtaken>>
      BY <1>3 DEF ChildFails, memory
    <2>3. list[p.job].status # "BEGIN"
      BY <2>0, <2>2, AwaitedChild DEF ServiceInv, AgentInv, OneAtWork
    <2>4. \A k \in Job : k # p.job => Phase(k)' = Phase(k)
      <3>1. \A k \in Job : k # p.job => (HasChild(k)' <=> HasChild(k))
        BY <2>2 DEF HasChild
      <3> QED  BY <2>0, <2>1, <2>2, <3>1, PhaseStays DEF RowSets
    <2>5. Phase(p.job)' = "done"
      BY <2>0, <2>1, <2>2, <2>3, PhaseValueAfter DEF RowSets
    <2>6. Phase(p.job) \in {"begin", "run", "done"}
      <3>1. HasChild(p.job)
        BY <2>2 DEF HasChild
      <3>2. row[p.job].status \in RowStatus
        BY <1>0, <2>0 DEF TypeOK, Row
      <3> QED  BY <2>0, <3>1, <3>2, PhaseValue DEF RowStatus
    <2> QED  BY <2>0, <2>4, <2>5, <2>6, OneMoves
  <1> QED  BY <1>1, <1>2, <1>3 DEF ProcessNext

\* The listener accepts a request, or withdraws it.
LEMMA ListenerImplements ==
  ASSUME ServiceInv, ListenerNext
  PROVE  Service!Next \/ Phases' = Phases
  <1>0. TypeOK
    BY DEF ServiceInv, AgentInv
  <1>1. ASSUME NEW j \in Job, ja_agent_begin(j)  PROVE Service!Next \/ Phases' = Phases
    <2>1. UNCHANGED <<list, overtaken, proc>>
      BY <1>1 DEF ja_agent_begin, host
    <2>2. CASE row[j].status \notin {"INIT", "CLOSE"}
      BY <1>1, <2>1, <2>2, QuietStays DEF ja_agent_begin
    <2>3. CASE row[j].status \in {"INIT", "CLOSE"}
      <3>1. RowSets(j, "BEGIN", 0, reqs[j] + 1, 0)
        BY <1>0, <1>1, <2>3, BeginSets
      <3>2. \A k \in Job : HasChild(k)' <=> HasChild(k)
        BY <2>1 DEF HasChild
      <3>3. \A k \in Job : k # j => Phase(k)' = Phase(k)
        BY <2>1, <3>1, <3>2, PhaseStays DEF RowSets
      <3>4. \/ Phase(j)' = "begin" /\ Phase(j) \in {"idle", "begin"}
            \/ Phase(j)' = Phase(j)
        BY <2>1, <2>3, <3>1, PhaseValue, PhaseValueAfter DEF RowSets
      <3> QED  BY <3>3, <3>4, OneMoves
    <2> QED  BY <2>2, <2>3
  <1>2. ASSUME NEW j \in Job, ja_agent_kill(j)  PROVE Phases' = Phases
    <2>1. UNCHANGED <<row, list, overtaken>>
      BY <1>2 DEF ja_agent_kill, memory
    <2>2. CASE UNCHANGED proc
      BY <2>1, <2>2, QuietStays
    <2>3. ASSUME NEW p \in proc, WritesResult(p)  PROVE Phases' = Phases
      BY <1>0, <2>1, <2>3, WritesResultFiles, QuietStays
    <2> QED  BY <1>2, <2>2, <2>3 DEF ja_agent_kill
  <1>3. ASSUME NEW j \in Job, ListenerFlag(j)  PROVE Phases' = Phases
    BY <1>3, QuietStays DEF ListenerFlag, host
  <1>4. ASSUME NEW j \in Job, ListenerNoFlag(j)  PROVE Phases' = Phases
    BY <1>4, QuietStays DEF ListenerNoFlag, table, host
  <1>5. ASSUME NEW j \in Job, ListenerTakesBack(j)  PROVE Service!Next \/ Phases' = Phases
    <2>1. /\ overtaken' = IF row[j].status \in {"RUN", "END"} THEN overtaken \cup {j} ELSE overtaken
          /\ UNCHANGED <<list, proc>>
      BY <1>5 DEF ListenerTakesBack, host
    <2>2. RowSets(j, "CLOSE", 0, reqs[j], 0)
      BY <1>0, <1>5, TakesBackSets
    <2>3. \A k \in Job : HasChild(k)' <=> HasChild(k)
      BY <2>1 DEF HasChild
    <2>4. \A k \in Job : k # j => Phase(k)' = Phase(k)
      BY <2>1, <2>2, <2>3, PhaseStays DEF RowSets
    <2>5. row[j].status \in RowStatus /\ row'[j].status = "CLOSE"
      BY <1>0, <2>2 DEF TypeOK, Row, RowSets
    <2>6. CASE j \in overtaken
      BY <2>1, <2>4, <2>6, PhaseValue, PhaseValueAfter, AllStay
    <2>7. CASE j \notin overtaken /\ row[j].status \in {"RUN", "END"}
      BY <2>1, <2>4, <2>7, PhaseValue, PhaseValueAfter, OneMoves
    <2>8. CASE j \notin overtaken /\ row[j].status = "BEGIN"
      BY <2>1, <2>4, <2>5, <2>8, PhaseValue, PhaseValueAfter, OneMoves
    <2>9. CASE j \notin overtaken /\ row[j].status \in {"INIT", "CLOSE"}
      BY <2>1, <2>3, <2>4, <2>5, <2>9, PhaseValue, PhaseValueAfter, AllStay
    <2> QED  BY <2>5, <2>6, <2>7, <2>8, <2>9 DEF RowStatus
  <1> QED  BY <1>1, <1>2, <1>3, <1>4, <1>5 DEF ListenerNext

\* A stop of the agent withdraws the one request that was taken back while the
\* executive had it; a start changes nothing.
LEMMA HostImplements ==
  ASSUME ServiceInv,
         \/ AgentCrash \/ HostReboot \/ AgentStart
         \/ \E j \in Job : ja_dbmain_remove_oldjob(j)
  PROVE  Service!Next \/ Phases' = Phases
  <1>0. TypeOK
    BY DEF ServiceInv, AgentInv
  <1>1. CASE Down /\ UNCHANGED <<row, overtaken>> /\ (UNCHANGED proc \/ proc' = {})
    <2>1. up /\ \A j \in Job : list'[j].status = "NONE"
      BY <1>1, NoObjectType DEF Down
    <2>2. \A k \in Job : HasChild(k) /\ row[k].status \in {"INIT", "CLOSE"}
                          => TakenBack(k) \/ k \in overtaken
      BY <2>1, AwaitedChild DEF HasChild, TakenBack, ServiceInv, AgentInv, ListAgrees
    <2>3. ASSUME NEW k \in Job, ~TakenBack(k)  PROVE Phase(k)' = Phase(k)
      <3>1. k \in overtaken \/ ~(HasChild(k) /\ row[k].status \in {"INIT", "CLOSE"})
        BY <2>2, <2>3
      <3>2. HasChild(k)' => HasChild(k)
        BY <1>1 DEF HasChild
      <3> QED  BY <1>1, <2>1, <2>3, <3>1, <3>2, PhaseValue, PhaseValueAfter DEF TakenBack
    <2>4. ASSUME NEW j \in Job, TakenBack(j)  PROVE Service!Next \/ Phases' = Phases
      <3>1. \A k \in Job : k # j => Phase(k)' = Phase(k)
        BY <2>3, <2>4 DEF ServiceInv, BegunAgrees
      <3>2. Phase(j) = IF j \in overtaken THEN "done" ELSE "begin"
        BY <2>4, PhaseValue DEF TakenBack
      <3>3. row[j].status \in {"BEGIN", "CLOSE"}
        BY <2>4 DEF TakenBack, ServiceInv, BegunAgrees
      <3>4. Phase(j)' \in IF j \in overtaken THEN {"done"} ELSE {"idle", "begin"}
        BY <1>1, <3>3, PhaseValueAfter
      <3> QED  BY <3>1, <3>2, <3>4, OneMoves
    <2> QED  BY <2>3, <2>4, AllStay
  <1>2. CASE AgentStart
    <2>1. ~up /\ UNCHANGED <<row, overtaken, proc>>
      BY <1>2 DEF AgentStart, table, host
    <2>2. \A j \in Job : /\ list[j].status = "NONE"
                         /\ list'[j].status = "BEGIN" => row[j].status = "BEGIN"
      BY <1>2, <2>1, StartSets DEF ServiceInv, AgentInv, OneAtWork
    <2>3. \A j \in Job : HasChild(j)' <=> HasChild(j)
      BY <2>1 DEF HasChild
    <2>4. \A j \in Job : Phase(j)' = Phase(j)
      BY <2>1, <2>2, <2>3, PhaseValue, PhaseValueAfter
    <2> QED  BY <2>4, AllStay
  <1>3. ASSUME NEW j \in Job, ja_dbmain_remove_oldjob(j)  PROVE Phases' = Phases
    <2>1. /\ row[j].status = "CLOSE" /\ row'[j].status = "INIT"
          /\ \A k \in Job : k # j => row'[k] = row[k]
          /\ UNCHANGED <<list, overtaken, proc>>
      BY <1>0, <1>3, NoRowType DEF ja_dbmain_remove_oldjob, memory, host, TypeOK
    <2>2. \A k \in Job : HasChild(k)' <=> HasChild(k)
      BY <2>1 DEF HasChild
    <2>3. \A k \in Job : Phase(k)' = Phase(k)
      BY <2>1, <2>2, PhaseValue, PhaseValueAfter
    <2> QED  BY <2>3, AllStay
  <1> QED  BY <1>1, <1>2, <1>3 DEF AgentCrash, HostReboot, table, host

\* A job that is ended or closed with its row moves, the others stay.
LEMMA WriteMoves ==
  ASSUME ServiceInv, NEW j \in Job, NEW st \in {"RUN", "END", "CLOSE"}, NEW res,
         BothSet(j, st, res), \A k \in Job : HasChild(k)' <=> HasChild(k)
  PROVE  /\ \A k \in Job : k # j => Phase(k)' = Phase(k)
         /\ st = "RUN" => Phase(j)' = IF j \in overtaken THEN "done" ELSE "run"
         /\ st = "END" => Phase(j)' = "done"
         /\ st = "CLOSE" /\ ~HasChild(j) => Phase(j)' = "idle"
  <1>1. \A k \in Job : k # j => Phase(k)' = Phase(k)
    BY PhaseStays DEF BothSet, ListSets, RowSets, OvertakenSets
  <1>2. /\ row'[j].status = st /\ list'[j].status = st
        /\ j \in overtaken' <=> st = "RUN" /\ j \in overtaken
    BY DEF BothSet, ListSets, RowSets, OvertakenSets
  <1> QED  BY <1>1, <1>2, PhaseValueAfter

\* The executive runs, finishes and closes.
LEMMA ExecutiveImplements ==
  ASSUME ServiceInv, ExecutiveNext
  PROVE  Service!Next \/ Phases' = Phases
  <1>0. TypeOK
    BY DEF ServiceInv, AgentInv
  <1>1. CASE PassBegin
    BY <1>1, QuietStays DEF PassBegin, host
  <1>2. CASE ja_job_object_list_add
    <2>1. UNCHANGED <<row, overtaken, proc>>
      BY <1>2 DEF ja_job_object_list_add, table, host
    <2>2. \A j \in Job : \/ list'[j] = list[j]
                         \/ row[j].status = "BEGIN" /\ list'[j].status = "BEGIN"
      BY <1>0, <1>2, BegunObject DEF ja_job_object_list_add
    <2>3. \A j \in Job : HasChild(j)' <=> HasChild(j)
      BY <2>1 DEF HasChild
    <2>4. \A j \in Job : Phase(j)' = Phase(j)
      BY <2>1, <2>2, <2>3, PhaseValue, PhaseValueAfter
    <2> QED  BY <2>4, AllStay
  <1>3. CASE PassEnd
    BY <1>3, QuietStays DEF PassEnd, table, host
  <1>4. ASSUME NEW j \in Job, ja_agent_run(j)  PROVE Phases' = Phases
    <2>1. /\ list[j].status = "BEGIN" /\ list'[j].status = "BEGIN"
          /\ UNCHANGED <<row, overtaken>>
          /\ \A k \in Job : k # j => list'[k] = list[k]
          /\ proc' = proc \cup {NewProcess(j)}
      BY <1>0, <1>4, RunSets DEF ja_agent_run, Walk, table, ListSets
    <2>2. \A k \in Job : k # j => (HasChild(k)' <=> HasChild(k))
      <3>1. NewProcess(j).job = j
        BY DEF NewProcess
      <3> QED  BY <2>1, <3>1 DEF HasChild
    <2>3. \A k \in Job : Phase(k)' = Phase(k)
      BY <2>1, <2>2, PhaseValue, PhaseValueAfter
    <2> QED  BY <2>3, AllStay
  <1>5. ASSUME NEW j \in Job, RunUpdate(j)  PROVE Service!Next \/ Phases' = Phases
    <2>1. BothSet(j, "RUN", list[j].result)
      BY <1>0, <1>5, RunUpdateSets
    <2>2. list[j].status = "BEGIN" /\ UNCHANGED proc
      BY <1>5 DEF RunUpdate, At, host, ServiceInv, AgentInv, OneAtWork
    <2>3. \A k \in Job : HasChild(k)' <=> HasChild(k)
      BY <2>2 DEF HasChild
    <2>4. Phase(j) = IF j \in overtaken THEN "done" ELSE "begin"
      BY <2>2, PhaseValue
    <2> QED  BY <2>1, <2>3, <2>4, WriteMoves, OneMoves
  <1>6. ASSUME NEW j \in Job, RunFails(j)  PROVE Service!Next \/ Phases' = Phases
    <2>1. BothSet(j, "END", 0)
      BY <1>0, <1>6, EndSets DEF RunFails
    <2>2. list[j].status = "BEGIN" /\ UNCHANGED proc
      BY <1>6 DEF RunFails, Walk, host
    <2>3. \A k \in Job : HasChild(k)' <=> HasChild(k)
      BY <2>2 DEF HasChild
    <2>4. Phase(j) = IF j \in overtaken THEN "done" ELSE "begin"
      BY <2>2, PhaseValue
    <2> QED  BY <2>1, <2>3, <2>4, WriteMoves, OneMoves
  <1>7. ASSUME NEW j \in Job, ja_agent_end(j) \/ RebootWaits(j)
        PROVE  Service!Next \/ Phases' = Phases
    <2>1. list[j].status = "RUN" /\ EndChecked(j) /\ UNCHANGED proc
      BY <1>7 DEF ServiceInv, AgentInv, OneAtWork, ja_agent_end, RebootWaits, Walk, At, host
    <2>2. CASE UNCHANGED <<list, row, overtaken>>
      BY <2>1, <2>2, QuietStays
    <2>3. ASSUME NEW res \in {0, files[j].by, list[j].req}, BothSet(j, "END", res)
          PROVE  Service!Next \/ Phases' = Phases
      <3>1. \A k \in Job : HasChild(k)' <=> HasChild(k)
        BY <2>1 DEF HasChild
      <3>2. row[j].status \in {"RUN", "END"} \/ j \in overtaken
        BY <2>1 DEF ServiceInv, AgentInv, ListAgrees
      <3>3. Phase(j) \in {"run", "done"}
        BY <2>1, <3>2, PhaseValue
      <3> QED  BY <2>3, <3>1, <3>3, WriteMoves, OneMoves
    <2> QED  BY <1>0, <2>1, <2>2, <2>3, EndCheckedSets
  <1>8. ASSUME NEW j \in Job, ja_reboot_chkend(j)  PROVE Phases' = Phases
    <2>1. UNCHANGED <<row, list, overtaken>> /\ (UNCHANGED proc \/ KillAll)
      BY <1>8 DEF ja_reboot_chkend
    <2> QED  BY <1>0, <2>1, KillAllFiles, QuietStays
  <1>9. ASSUME NEW j \in Job, ja_agent_send(j)  PROVE Phases' = Phases
    BY <1>9, QuietStays DEF ja_agent_send, table, host
  <1>10. ASSUME NEW j \in Job, list[j].status = "END", up, exe.at # "forked",
                BothSet(j, "CLOSE", list[j].result), \A k \in Job : HasChild(k)' <=> HasChild(k)
         PROVE  Service!Next \/ Phases' = Phases
    <2>1. ~HasChild(j)
      BY <1>10, AwaitedChild DEF HasChild, Forked
    <2>2. Phase(j) = "done"
      BY <1>10, PhaseValue DEF ServiceInv, AgentInv, ListAgrees
    <2> QED  BY <1>10, <2>1, <2>2, WriteMoves, OneMoves
  <1>11. ASSUME NEW j \in Job, SendFails(j)  PROVE Service!Next \/ Phases' = Phases
    <2>1. list[j].status = "END" /\ up /\ exe.at # "forked" /\ UNCHANGED proc
      BY <1>11 DEF SendFails, Walk, At, host
    <2>2. \A k \in Job : HasChild(k)' <=> HasChild(k)
      BY <2>1 DEF HasChild
    <2>3. CASE /\ UNCHANGED <<row, overtaken>>
               /\ ListSets(j, list[j].status, list[j].pid, list[j].req, list[j].result)
      <3>1. \A k \in Job : list'[k].status = list[k].status
        BY <2>3 DEF ListSets
      <3> QED  BY <2>2, <2>3, <3>1, PhaseStays, AllStay
    <2> QED  BY <1>0, <1>10, <1>11, <2>1, <2>2, <2>3, SendFailsSets
  <1>12. ASSUME NEW j \in Job, ja_agent_close(j)  PROVE Service!Next \/ Phases' = Phases
    <2>1. list[j].status = "END" /\ up /\ exe.at # "forked"
      BY <1>12 DEF ja_agent_close, At, ServiceInv, AgentInv, OneAtWork
    <2>2. BothSet(j, "CLOSE", list[j].result)
      BY <1>0, <1>12, CloseSets DEF ja_agent_close, TypeOK
    <2>3. \A p \in proc : ~p.exec => p.job # j
      BY <2>1, AwaitedChild DEF Forked
    <2>4. \A k \in Job : HasChild(k)' <=> HasChild(k)
      BY <1>0, <1>12, <2>3, CloseProcesses DEF HasChild
    <2> QED  BY <1>10, <2>1, <2>2, <2>4
  <1>13. ASSUME NEW j \in Job, ListRemove(j)  PROVE Phases' = Phases
    <2>1. /\ list[j].status = "CLOSE" /\ list'[j].status = "NONE"
          /\ \A k \in Job : k # j => list'[k] = list[k]
          /\ UNCHANGED <<row, overtaken, proc>>
      BY <1>0, <1>13, NoObjectType DEF ListRemove, Walk, TypeOK, table, host
    <2>2. \A k \in Job : HasChild(k)' <=> HasChild(k)
      BY <2>1 DEF HasChild
    <2> QED  BY <2>1, <2>2, PhaseStays, AllStay
  <1> QED  BY <1>1, <1>2, <1>3, <1>4, <1>5, <1>6, <1>7, <1>8, <1>9, <1>11, <1>12, <1>13
           DEF ExecutiveNext

\* The agent keeps the promise of AgentService: a request that is accepted is
\* run at most once, its result is offered after the run, and no other request
\* for the job is accepted before the result has been sent or given up.  Only a
\* job whose row the listener has closed after its start (overtaken) is let off:
\* it counts as done until the executive writes its end.
THEOREM AgentImplements ==
  ASSUME ChildrenAreSafe
  PROVE  Spec => ImplementsService
  <1>1. Init => Service!Init
    <2> SUFFICES ASSUME Init  PROVE Phases = [j \in Job |-> "idle"]
      BY DEF Service!Init, Phases
    <2>1. \A j \in Job : /\ row[j].status = "INIT" /\ list[j].status = "NONE"
                         /\ j \notin overtaken /\ ~HasChild(j)
      BY NoRowType, NoObjectType DEF Init, HasChild
    <2> QED  BY <2>1, PhaseValue DEF Phases
  <1>2. ServiceInv /\ [Next]_vars => [Service!Next]_Phases
    <2> SUFFICES ASSUME ServiceInv, [Next]_vars  PROVE Service!Next \/ Phases' = Phases
      OBVIOUS
    <2>1. CASE UNCHANGED vars
      BY <2>1, QuietStays DEF vars
    <2> QED  BY <2>1, ProcessesImplement, ListenerImplements, HostImplements, ExecutiveImplements
             DEF Next
  <1> QED  BY <1>1, <1>2, ServiceInvariant, PTL DEF Spec, ImplementsService, Service!Spec, Phases
=============================================================================
