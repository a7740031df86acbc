---------------------------- MODULE AgentService ----------------------------
(***************************************************************************)
(* What an agent promises the server for each job: a request that is       *)
(* accepted is run at most once, its result is offered after the run, and  *)
(* no other request for the job is accepted before the result has been     *)
(* sent or given up.  The agent of JobScheduler and the detailed agent of  *)
(* AgentJobs both implement it.                                            *)
(***************************************************************************)
CONSTANT Job

VARIABLE agent

AgentPhase == {"idle", "begin", "run", "done"}

TypeOK == agent \in [Job -> AgentPhase]

Init == agent = [j \in Job |-> "idle"]

\* Job j goes on from one of the phases of From to phase to.
Moves(j, From, to) == agent[j] \in From /\ agent' = [agent EXCEPT ![j] = to]

Accept(j) == Moves(j, {"idle"}, "begin")

\* The request cannot be kept after all, and the server is told so.
Withdraw(j) == Moves(j, {"begin"}, "idle")

Run(j) == Moves(j, {"begin"}, "run")

\* The command has ended, or could not be started.
Finish(j) == Moves(j, {"begin", "run"}, "done")

\* The server has answered, or the agent has given up.
Close(j) == Moves(j, {"done"}, "idle")

Next == \E j \in Job : Accept(j) \/ Withdraw(j) \/ Run(j) \/ Finish(j) \/ Close(j)

Spec == Init /\ [][Next]_agent
=============================================================================
