---------------------------- MODULE MCAgentJobs ----------------------------
(***************************************************************************)
(* Small agents on which TLC checks AgentJobs.                             *)
(***************************************************************************)
EXTENDS AgentJobs

\* The user of job a does not exist when it is run first.
FirstFails == {<<"a", 1>>}
=============================================================================
