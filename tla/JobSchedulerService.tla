------------------------ MODULE JobSchedulerService ------------------------
(***************************************************************************)
(* The agents that JobScheduler assumes keep the promise of AgentService,  *)
(* for every jobnet and every bound.                                       *)
(***************************************************************************)
EXTENDS JobSchedulerProof

\* A change of what the agent holds for icon j is a change of its phase.
LEMMA PhaseMoves ==
  ASSUME TypeOK, NEW j \in Job, NEW s \in AgentState,
         agent' = [agent EXCEPT ![j] = s]
  PROVE  Phases' = [Phases EXCEPT ![j] = AgentPhase(s)]
  BY DEF TypeOK, Phases

\* What the telegram of a child does to the agent, the promise allows.
LEMMA DeliverServes ==
  ASSUME TypeOK, NEW c \in children, ChildDeliver(c)
  PROVE  Service!Next \/ Phases' = Phases
  <1>1. c.job \in Job /\ c.method \in {"RUN", "KILL", "ABORT"}
    BY DEF TypeOK, Child
  <1>2. CASE agent' = agent
    BY <1>2 DEF Phases
  <1>3. CASE agent[c.job] = "idle" /\ agent' = [agent EXCEPT ![c.job] = "begin"]
    <2>1. Phases' = [Phases EXCEPT ![c.job] = AgentPhase("begin")]
      BY <1>1, <1>3, PhaseMoves DEF AgentState
    <2>2. Phases[c.job] = "idle" /\ AgentPhase("begin") = "begin"
      BY <1>1, <1>3 DEF Phases, AgentPhase
    <2> QED  BY <1>1, <2>1, <2>2 DEF Service!Next, Service!Accept, Service!Moves
  <1>4. CASE /\ agent[c.job] \in {"run", "killed"}
             /\ agent' = [agent EXCEPT ![c.job] = "killed"]
    <2>1. Phases' = [Phases EXCEPT ![c.job] = AgentPhase("killed")]
      BY <1>1, <1>4, PhaseMoves DEF AgentState
    <2>2. Phases[c.job] = "run" /\ AgentPhase("killed") = "run"
      BY <1>1, <1>4 DEF Phases, AgentPhase
    <2> QED  BY <1>1, <2>1, <2>2 DEF Phases
  <1> QED
    BY <1>1, <1>2, <1>3, <1>4 DEF ChildDeliver, Accepts

\* So it does with what the agent itself does.
LEMMA AgentServes ==
  ASSUME TypeOK, NEW j \in Job, AgentNext(j)
  PROVE  Service!Next \/ Phases' = Phases
  <1>1. CASE AgentRun(j)
    <2>1. CASE agent' = [agent EXCEPT ![j] = "run"]
      <3>1. Phases' = [Phases EXCEPT ![j] = "run"]
        BY <2>1, PhaseMoves DEF AgentState, AgentPhase
      <3>2. Phases[j] = "begin"
        BY <1>1 DEF AgentRun, Phases, AgentPhase
      <3> QED  BY <3>1, <3>2 DEF Service!Next, Service!Run, Service!Moves
    <2>2. CASE agent' = [agent EXCEPT ![j] = "ng"]
      <3>1. Phases' = [Phases EXCEPT ![j] = "done"]
        BY <2>2, PhaseMoves DEF AgentState, AgentPhase
      <3>2. Phases[j] = "begin"
        BY <1>1 DEF AgentRun, Phases, AgentPhase
      <3> QED  BY <3>1, <3>2 DEF Service!Next, Service!Finish, Service!Moves
    <2> QED  BY <1>1, <2>1, <2>2 DEF AgentRun
  <1>2. CASE AgentEnd(j)
    <2>1. PICK s \in {"ok", "ng"} : agent' = [agent EXCEPT ![j] = s]
      BY <1>2 DEF AgentEnd
    <2>2. Phases' = [Phases EXCEPT ![j] = "done"]
      <3>1. CASE s = "ok"
        BY <2>1, <3>1, PhaseMoves DEF AgentState, AgentPhase
      <3>2. CASE s = "ng"
        BY <2>1, <3>2, PhaseMoves DEF AgentState, AgentPhase
      <3> QED  BY <2>1, <3>1, <3>2
    <2>3. Phases[j] = "run"
      BY <1>2 DEF AgentEnd, Phases, AgentPhase
    <2> QED  BY <2>2, <2>3 DEF Service!Next, Service!Finish, Service!Moves
  <1>3. CASE AgentSend(j) \/ AgentGivesUp(j)
    <2>1. CASE agent' = agent
      BY <2>1 DEF Phases
    <2>2. CASE agent' = [agent EXCEPT ![j] = "idle"]
      <3>1. Phases' = [Phases EXCEPT ![j] = AgentPhase("idle")]
        BY <2>2, PhaseMoves DEF AgentState
      <3>2. Phases[j] = "done" /\ AgentPhase("idle") = "idle"
        BY <1>3 DEF AgentSend, AgentGivesUp, Phases, AgentPhase
      <3> QED  BY <3>1, <3>2 DEF Service!Next, Service!Close, Service!Moves
    <2> QED  BY <1>3, <2>1, <2>2 DEF AgentSend, AgentGivesUp
  <1> QED  BY <1>1, <1>2, <1>3 DEF AgentNext

\* Nothing else of the server touches the agents.
LEMMA ServerServes ==
  ASSUME Next, \A c \in children : ~ChildDeliver(c), \A j \in Job : ~AgentNext(j)
  PROVE  Phases' = Phases
  <1>1. JarunNext => agent' = agent
    BY DEF JarunNext, JarunSelect, JarunPass, jarun_skip, jarun_icon_common,
           jarun_icon_if, jarun_icon_end, jarun_icon_jobnet, jarun_icon_extjob,
           jarun_icon_remote, jarun_icon_reboot, jarun_icon_release,
           JarunHostLocked, JarunIconFails, jarun_normal, Jarun
  <1>2. ChildNext => agent' = agent
    BY DEF ChildNext, ChildUnreached, ChildCopy, ChildUnlock, ChildRunerr, ChildFlow, ChildDone,
           ChildRead, ChildWrite
  <1>3. JajobNext => agent' = agent
    BY DEF JajobNext, JajobSelect, jajob_icon_job, jajob_icon_reboot, jajob_icon_fwait,
           jajob_icon_extjob_kill, ExtjobWaits, jajob_icon_extjob, Jajob
  <1>4. JajobnetNext => agent' = agent
    BY DEF JajobnetNext, JajobnetSummary, JajobnetSelect, jajobnet_ready, jajobnet_run,
           jajobnet_run_sync, JajobnetStep
  <1>5. OperatorNext \/ ServerRestart => agent' = agent
    BY DEF OperatorNext, StopRunningJobnet, SetHold, SetUnHold, SetSkip, SetUnSkip,
           SetStop, SetReStart, jatrap_jobrelease, Operator, ServerRestart
  <1> QED  BY <1>1, <1>2, <1>3, <1>4, <1>5 DEF Next, Phases

\* The agents of JobScheduler implement AgentService, whatever is lost,
\* repeated or restarted: the server's view of an agent is what the detailed
\* agent of AgentJobs is checked to provide.
THEOREM ServiceImplemented == Spec => AgentImplementsService
  <1>1. Init => Service!Init
    BY DEF Init, Service!Init, Phases, AgentPhase
  <1>2. TypeOK /\ [Next]_vars => [Service!Next]_Phases
    <2>1. TypeOK /\ Next => Service!Next \/ Phases' = Phases
      BY DeliverServes, AgentServes, ServerServes
    <2>2. UNCHANGED vars => Phases' = Phases
      BY DEF vars, Phases
    <2> QED  BY <2>1, <2>2
  <1> QED
    BY <1>1, <1>2, TypeCorrect, PTL DEF Spec, AgentImplementsService, Service!Spec
=============================================================================
