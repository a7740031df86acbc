-------------------------- MODULE JobSchedulerLocks --------------------------
(***************************************************************************)
(* Theorems about the host lock of JobScheduler, for every jobnet and      *)
(* every bound: as long as no telegram is lost, no two REBOOT icons have   *)
(* the agent of one host reboot it at a time, and every locked host has a  *)
(* REBOOT icon that is under way.                                          *)
(*                                                                         *)
(* The lock and the reboot are kept in different places: the lock in a     *)
(* table of the server, the reboot in a child of jarun and then in the     *)
(* agent.  The invariant ties them together: a REBOOT icon whose start is  *)
(* on its way to the agent, or is with the agent, holds the lock of its    *)
(* host, whatever status the icon has meanwhile.                           *)
(***************************************************************************)
EXTENDS JobSchedulerProof, FiniteSetTheorems

RebootIcon == {j \in Job : JobType[j] = "REBOOT"}

\* The start of a REBOOT icon is on its way to the agent.
Starts(c, j) == c.job = j /\ c.method = "RUN"

\* The reboot is on its way to the agent, or the agent has it.
UnderWay(j) == agent[j] # "idle" \/ \E c \in children : Starts(c, j)

\* No child that starts a reboot has failed, and none finds the agent busy.
StartsReach ==
  \A j \in RebootIcon : \A c \in children :
    Starts(c, j) => c = Fork(j, "RUN") /\ agent[j] = "idle"

\* A reboot under way holds its host ...
HoldsHost == \A j \in RebootIcon : UnderWay(j) => HostsOf[j] \subseteq db.locked

\* ... and holds it alone.
HoldsAlone ==
  \A j, k \in RebootIcon :
    UnderWay(j) /\ UnderWay(k) /\ HostsOf[j] \cap HostsOf[k] # {} => j = k

\* The jobnet keeps its REBOOT icons out of reach of a stale entry: none is in
\* a sub-jobnet, which is reset as a whole, and none is behind an icon whose
\* ja_flow a child carries out without a transaction.
RebootsApart ==
  /\ \A j \in RebootIcon : NetOf[j] = MainNet
  /\ \A f \in Flow : f.to \in RebootIcon => f.from \notin Continue /\ JobType[f.from] # "FCOPY"

\* Then no child enters a REBOOT icon or carries out the ja_flow of one.
ChildApart(c) ==
  /\ c.job \in RebootIcon => c.method # "ABORT" /\ c.phase \notin {"copied", "flow"}
  /\ c.phase = "copied" => JobType[c.job] = "FCOPY"
  /\ c.todo \cap RebootIcon = {}
  /\ \A g \in c.got : g.to \notin RebootIcon

\* The inductive invariant.  Crashes of the server are allowed, a lost answer is
\* not: after it a child gives the lock back for a reboot that is under way.
LockInv ==
  /\ TypeOK
  /\ faults = 0 => StartsReach /\ HoldsHost /\ HoldsAlone
  /\ RebootsApart => \A c \in children : ChildApart(c)
  /\ RebootsApart /\ faults = 0 => LockHasHolder

-----------------------------------------------------------------------------
(* What the calls of jalibs do to the lock and to the REBOOT icons.         *)

InHand == {"RUN", "ABORT"}

\* A call for icon j leaves the lock alone, and every other REBOOT icon that is
\* under way stays so.
LockCall(d, e, j) ==
  /\ e \in DB /\ e.locked = d.locked
  /\ RebootsApart => \A k \in RebootIcon \ {j} : d.status[k] \in InHand => e.status[k] \in InHand

\* Two such calls in one transaction are such a call.
LEMMA LockCallTransitive ==
  ASSUME NEW d, NEW e, NEW f, NEW j, LockCall(d, e, j), LockCall(e, f, j)
  PROVE  LockCall(d, f, j)
  BY DEF LockCall

\* ja_set_status_job writes the status of its own icon only.
LEMMA SetStatusLock ==
  ASSUME NEW d \in DB, NEW j \in Job, NEW s \in JobStatus
  PROVE  LockCall(d, ja_set_status_job(d, j, s), j)
  BY DEF ja_set_status_job, DB, LockCall, RebootIcon

\* The updates of ja_flow_set_status reset no REBOOT icon but the ones they enter.
LEMMA EnterAllLock ==
  ASSUME NEW d \in DB, NEW E \in SUBSET Job, NEW j,
         NEW s \in [Job -> JobStatus], NEW c \in [Job -> Nat],
         RebootsApart => \A k \in E \cap RebootIcon : d.status[k] \notin InHand
  PROVE  LockCall(d, EnterAll(d, E, s, c), j)
  <1> DEFINE up(e) == CountUp(s[e], c[e])
             reset == UNION {Resets(e, up(e)) : e \in E}
             st == [i \in Job |-> IF i \in E THEN EnteredStatus(i, up(i))
                                  ELSE IF i \in reset THEN "BEGIN" ELSE d.status[i]]
             ec == [i \in Job |-> IF i \in E THEN up(i)
                                  ELSE IF i \in reset THEN 0 ELSE d.end_count[i]]
  <1>1. EnterAll(d, E, s, c) = [d EXCEPT !.status = st, !.end_count = ec]
    BY DEF EnterAll, DB
  <1>2. EnterAll(d, E, s, c) \in DB
    BY EnterAllTypes
  <1>3. ASSUME RebootsApart, NEW k \in RebootIcon
        PROVE  k \notin reset
    <2> SUFFICES ASSUME NEW e \in E, k \in Resets(e, up(e)) PROVE FALSE
      OBVIOUS
    <2>1. e \in JobnetIcon /\ NetOf[k] = LinkNet[e]
      BY DEF Resets, JobsOf, JobnetIcon
    <2>2. LinkNet[e] # MainNet /\ NetOf[k] = MainNet
      BY <1>3, <2>1, NetShape DEF NetShape, RebootsApart
    <2> QED  BY <2>1, <2>2
  <1>4. RebootsApart => \A k \in RebootIcon : d.status[k] \in InHand => st[k] = d.status[k]
    BY <1>3 DEF RebootIcon
  <1> HIDE DEF st, ec
  <1>5. [d EXCEPT !.status = st, !.end_count = ec].locked = d.locked
    BY DEF DB
  <1>6. [d EXCEPT !.status = st, !.end_count = ec].status = st
    BY DEF DB
  <1> QED  BY <1>1, <1>2, <1>4, <1>5, <1>6 DEF LockCall

\* ja_flow, up to its last call: it enters no icon that is under way.
LEMMA FlowOutLock ==
  ASSUME NEW d \in DB, NEW j \in Job, NEW type
  PROVE  LockCall(d, FlowOut(d, j, type), j)
  <1> DEFINE E == {e \in Targets(j, type) : MayEnter(d, e, d.status[e])}
             entered == EnterAll(d, E, d.status, d.end_count)
  <1>1. E \in SUBSET Job
    BY TargetsInNet
  <1>2. d.status \in [Job -> JobStatus] /\ d.end_count \in [Job -> Nat]
    BY DEF DB
  <1>3. \A k \in E \cap RebootIcon : d.status[k] \notin InHand
    BY DEF MayEnter, InHand
  <1> HIDE DEF E
  <1>4. LockCall(d, entered, j)
    BY <1>1, <1>2, <1>3, EnterAllLock
  <1>5. entered \in DB
    BY <1>4 DEF LockCall
  <1> HIDE DEF entered
  <1>6. LockCall(entered, ja_set_enderr(entered, j), j)
    BY <1>5, SetStatusLock DEF ja_set_enderr, JobStatus
  <1>7. FlowOut(d, j, type) = entered \/ FlowOut(d, j, type) = ja_set_enderr(entered, j)
    BY DEF FlowOut, ja_flow_set_status, E, entered
  <1> QED  BY <1>4, <1>6, <1>7, LockCallTransitive

\* ja_flow, in any of its three outcomes.
LEMMA FlowLock ==
  ASSUME NEW d \in DB, NEW j \in Job, NEW type
  PROVE  LockCall(d, ja_flow(d, j, type), j)
  <1> DEFINE f == FlowOut(d, j, type)
  <1>1. LockCall(d, f, j)
    BY FlowOutLock
  <1>2. f \in DB
    BY <1>1 DEF LockCall
  <1>3. ja_flow(d, j, type) = IF ~HasFlow(j) THEN ja_set_status_job(d, j, "ENDERR")
                              ELSE IF ~JobnetRunning(d, j) THEN ja_set_status_job(d, j, "RUNERR")
                              ELSE ja_set_status_job(f, j, "END")
    BY DEF ja_flow, ja_set_enderr, ja_set_end
  <1> HIDE DEF f
  <1>4. \A s \in JobStatus : /\ LockCall(d, ja_set_status_job(d, j, s), j)
                             /\ LockCall(f, ja_set_status_job(f, j, s), j)
    BY <1>2, SetStatusLock
  <1>5. {"END", "RUNERR", "ENDERR"} \subseteq JobStatus
    BY DEF JobStatus
  <1> QED  BY <1>1, <1>3, <1>4, <1>5, LockCallTransitive

\* ja_set_runerr, with and without the option to continue.
LEMMA RunerrLock ==
  ASSUME NEW d \in DB, NEW j \in Job
  PROVE  LockCall(d, ja_set_runerr(d, j), j)
  <1>1. /\ LockCall(d, d, j) /\ LockCall(d, FlowOut(d, j, "NORMAL"), j)
        /\ LockCall(d, ja_set_enderr(d, j), j)
    <2>1. LockCall(d, d, j)
      BY DEF LockCall
    <2>2. LockCall(d, ja_set_enderr(d, j), j)
      BY SetStatusLock DEF ja_set_enderr, JobStatus
    <2> QED  BY <2>1, <2>2, FlowOutLock
  <1>2. PICK f \in {d, FlowOut(d, j, "NORMAL"), ja_set_enderr(d, j)} :
          ja_set_runerr(d, j) = ja_set_status_job(f, j, "RUNERR")
    BY DEF ja_set_runerr
  <1>3. LockCall(d, f, j) /\ f \in DB
    BY <1>1, <1>2 DEF LockCall
  <1>4. LockCall(f, ja_set_status_job(f, j, "RUNERR"), j)
    BY <1>3, SetStatusLock DEF JobStatus
  <1> QED  BY <1>2, <1>3, <1>4, LockCallTransitive

\* An icon is set to RUN and then treated, in one transaction.
LEMMA RunThenLock ==
  ASSUME NEW d \in DB, NEW j \in Job
  PROVE  /\ LockCall(d, ja_set_run(d, j), j)
         /\ \A type : LockCall(d, ja_flow(ja_set_run(d, j), j, type), j)
         /\ LockCall(d, ja_set_end(ja_set_run(d, j), j), j)
         /\ LockCall(d, ja_set_runerr(ja_set_run(d, j), j), j)
  <1> DEFINE e == ja_set_run(d, j)
  <1>1. LockCall(d, e, j)
    BY SetStatusLock DEF ja_set_run, JobStatus
  <1>2. e \in DB
    BY <1>1 DEF LockCall
  <1> HIDE DEF e
  <1>3. LockCall(e, ja_set_end(e, j), j) /\ LockCall(e, ja_set_runerr(e, j), j)
    BY <1>2, SetStatusLock, RunerrLock DEF ja_set_end, JobStatus
  <1>4. \A type : LockCall(e, ja_flow(e, j, type), j)
    BY <1>2, FlowLock
  <1>5. \A type : LockCall(d, ja_flow(e, j, type), j)
    BY <1>1, <1>4, LockCallTransitive
  <1> QED  BY <1>1, <1>3, <1>5, LockCallTransitive DEF e

-----------------------------------------------------------------------------
(* The steps that neither take nor give back a lock.                        *)

\* Nothing becomes under way that was not, and no lock is taken or given back.
LockFrame ==
  faults' = 0 =>
    /\ faults = 0
    /\ db'.locked = db.locked
    /\ \A j \in RebootIcon : agent'[j] # "idle" => agent[j] # "idle"
    /\ \A c \in children' : c.job \in RebootIcon /\ c.method = "RUN" => c \in children

\* A REBOOT icon that runs or is being stopped goes on doing so.
StaysInHand == \A k \in RebootIcon : db.status[k] \in InHand => db'.status[k] \in InHand

ApartFrame ==
  RebootsApart => /\ \A c \in children' : ChildApart(c)
                  /\ faults' = 0 => StaysInHand

\* A step that neither takes nor gives back a lock keeps the invariant.
LEMMA FrameKeeps ==
  ASSUME LockInv, TypeOK', LockFrame, ApartFrame
  PROVE  LockInv'
  <1>1. ASSUME faults' = 0
        PROVE  (StartsReach /\ HoldsHost /\ HoldsAlone)'
    <2>1. StartsReach /\ HoldsHost /\ HoldsAlone
      BY <1>1 DEF LockInv, LockFrame
    <2>2. \A j \in RebootIcon : UnderWay(j)' => UnderWay(j)
      BY <1>1 DEF UnderWay, Starts, LockFrame
    <2>3. StartsReach'
      BY <1>1, <2>1 DEF StartsReach, Starts, Fork, LockFrame
    <2>4. HoldsHost'
      BY <1>1, <2>1, <2>2 DEF HoldsHost, LockFrame
    <2>5. HoldsAlone'
      BY <2>1, <2>2 DEF HoldsAlone
    <2> QED  BY <2>3, <2>4, <2>5
  <1>2. ASSUME RebootsApart, faults' = 0
        PROVE  LockHasHolder'
    <2>1. LockHasHolder /\ StaysInHand /\ db'.locked = db.locked
      BY <1>2 DEF LockInv, LockFrame, ApartFrame
    <2> SUFFICES ASSUME NEW h \in db.locked
                 PROVE  \E j \in Job : /\ JobType[j] = "REBOOT" /\ h \in HostsOf[j]
                                       /\ db'.status[j] \in {"RUN", "ABORT"}
      BY <2>1 DEF LockHasHolder, Holders
    <2> QED  BY <2>1 DEF LockHasHolder, Holders, StaysInHand, InHand, RebootIcon
  <1> QED  BY <1>1, <1>2 DEF LockInv, ApartFrame

\* A call for an icon of another type leaves every REBOOT icon as it is; so does
\* a call for one that was not under way.
LEMMA LockCallStays ==
  ASSUME NEW j \in Job, LockCall(db, db', j),
         j \in RebootIcon => db.status[j] \notin InHand \/ db'.status[j] \in InHand
  PROVE  db'.locked = db.locked /\ (RebootsApart => StaysInHand)
  BY DEF LockCall, StaysInHand

\* Forked children that start no reboot.
LEMMA ForkApart ==
  ASSUME NEW j \in Job, NEW m \in {"RUN", "KILL", "ABORT"},
         j \in RebootIcon => m # "ABORT"
  PROVE  ChildApart(Fork(j, m)) /\ Fork(j, m).job = j /\ Fork(j, m).method = m
  BY DEF ChildApart, Fork

\* process_jarun, but for the start of a REBOOT icon: it treats READY icons only.
LEMMA JarunLock ==
  ASSUME LockInv, JarunNext, \A r \in jarunq : ~jarun_icon_reboot(r)
  PROVE  LockFrame /\ ApartFrame
  <1>0. TypeOK /\ db \in DB /\ (RebootsApart => \A c \in children : ChildApart(c))
        /\ faults \in Nat
    BY SchedulerShape DEF LockInv, TypeOK, SchedulerShape
  <1>1. ASSUME db' = db, children' = children, agent' = agent, faults' = 0 => faults = 0
        PROVE  LockFrame /\ ApartFrame
    BY <1>0, <1>1 DEF LockFrame, ApartFrame, StaysInHand
  <1>2. CASE JarunSelect
    BY <1>1, <1>2 DEF JarunSelect, bounds
  <1>3. ASSUME NEW r \in jarunq
        PROVE  r.job \in Job
    BY <1>0 DEF TypeOK, JarunRow
  <1>4. ASSUME NEW r \in jarunq, Jarun(r), StillReady(r), LockCall(db, db', r.job),
               UNCHANGED <<children, faults>>
        PROVE  LockFrame /\ ApartFrame
    <2>1. db'.locked = db.locked /\ (RebootsApart => StaysInHand)
      BY <1>3, <1>4, LockCallStays DEF StillReady, InHand
    <2> QED  BY <1>0, <1>4, <2>1 DEF Jarun, LockFrame, ApartFrame
  <1>5. ASSUME NEW r \in jarunq, JarunPass(r) \/ JarunHostLocked(r)
        PROVE  LockFrame /\ ApartFrame
    <2>1. db' = db /\ children' = children /\ agent' = agent
      BY <1>5 DEF JarunPass, JarunHostLocked, jarun_normal, Jarun
    <2>2. faults' = 0 => faults = 0
      BY <1>0, <1>5 DEF JarunPass, JarunHostLocked, Fault
    <2> QED  BY <1>1, <2>1, <2>2
  <1>6. ASSUME NEW r \in jarunq, jarun_skip(r)
        PROVE  LockFrame /\ ApartFrame
    BY <1>0, <1>3, <1>4, <1>6, RunerrLock, FlowLock DEF jarun_skip
  <1>7. ASSUME NEW r \in jarunq, jarun_icon_common(r)
        PROVE  LockFrame /\ ApartFrame
    BY <1>0, <1>3, <1>4, <1>7, RunThenLock DEF jarun_icon_common, jarun_normal
  <1>8. ASSUME NEW r \in jarunq, jarun_icon_if(r)
        PROVE  LockFrame /\ ApartFrame
    BY <1>0, <1>3, <1>4, <1>8, RunThenLock DEF jarun_icon_if, jarun_normal
  <1>9. ASSUME NEW r \in jarunq, jarun_icon_end(r)
        PROVE  LockFrame /\ ApartFrame
    BY <1>0, <1>3, <1>4, <1>9, RunThenLock DEF jarun_icon_end, jarun_normal
  <1>10. ASSUME NEW r \in jarunq, jarun_icon_jobnet(r)
         PROVE  LockFrame /\ ApartFrame
    <2> DEFINE e == ja_set_run(db, r.job)
               n == LinkNet[r.job]
    <2>1. LockCall(db, e, r.job) /\ e \in DB
      BY <1>0, <1>3, RunThenLock DEF LockCall
    <2>2. n \in Net
      BY <1>3, <1>10, NetShape DEF jarun_icon_jobnet, NetShape, JobnetIcon
    <2>3. db' = ja_set_status_jobnet(e, n, "READY")
      BY <1>10 DEF jarun_icon_jobnet
    <2> HIDE DEF e, n
    <2>4. db' \in DB /\ db'.locked = e.locked /\ db'.status = e.status
      BY <2>1, <2>2, <2>3 DEF ja_set_status_jobnet, DB, NetStatus
    <2>5. LockCall(db, db', r.job)
      BY <2>1, <2>4 DEF LockCall
    <2> QED  BY <1>4, <1>10, <2>5 DEF jarun_icon_jobnet, jarun_normal
  <1>11. ASSUME NEW r \in jarunq, jarun_icon_extjob(r)
         PROVE  LockFrame /\ ApartFrame
    <2>1. LockCall(db, db', r.job)
      BY <1>0, <1>3, <1>11, RunThenLock DEF jarun_icon_extjob
    <2> QED  BY <1>4, <1>11, <2>1 DEF jarun_icon_extjob, jarun_normal
  <1>12. ASSUME NEW r \in jarunq, jarun_icon_release(r)
         PROVE  LockFrame /\ ApartFrame
    <2> DEFINE e == ja_set_run(db, r.job)
               held == ReleaseOf[r.job]
               f == [e EXCEPT !.method_flag[held] = "NORMAL"]
    <2>1. LockCall(db, e, r.job) /\ e \in DB
      BY <1>0, <1>3, RunThenLock DEF LockCall
    <2>2. db' = ja_flow(f, r.job, "NORMAL") \/ db' = ja_set_runerr(e, r.job)
      BY <1>12 DEF jarun_icon_release
    <2> HIDE DEF e, held
    <2>3. f \in DB /\ f.locked = e.locked /\ f.status = e.status
      BY <2>1 DEF DB, Method
    <2> HIDE DEF f
    <2>4. LockCall(e, f, r.job)
      BY <2>3 DEF LockCall
    <2>5. LockCall(f, ja_flow(f, r.job, "NORMAL"), r.job) /\ LockCall(e, ja_set_runerr(e, r.job), r.job)
      BY <1>3, <2>1, <2>3, FlowLock, RunerrLock
    <2>6. LockCall(db, db', r.job)
      BY <2>1, <2>2, <2>4, <2>5, LockCallTransitive
    <2> QED  BY <1>4, <1>12, <2>6 DEF jarun_icon_release, jarun_normal
  <1>13. ASSUME NEW r \in jarunq, JarunIconFails(r)
         PROVE  LockFrame /\ ApartFrame
    BY <1>0, <1>3, <1>4, <1>13, RunThenLock DEF JarunIconFails, jarun_normal
  <1>14. ASSUME NEW r \in jarunq, jarun_icon_remote(r)
         PROVE  LockFrame /\ ApartFrame
    <2>1. r.job \notin RebootIcon
      BY <1>14 DEF jarun_icon_remote, RemoteIcon, RebootIcon
    <2>2. LockCall(db, db', r.job)
      BY <1>0, <1>3, <1>14, RunThenLock DEF jarun_icon_remote
    <2>3. db'.locked = db.locked /\ (RebootsApart => StaysInHand)
      BY <1>3, <2>1, <2>2, LockCallStays
    <2>4. /\ children' = children \cup {Fork(r.job, "RUN")}
          /\ agent' = agent /\ faults' = faults
      BY <1>14 DEF jarun_icon_remote, jarun_normal, Jarun
    <2>5. ChildApart(Fork(r.job, "RUN")) /\ Fork(r.job, "RUN").job = r.job
      BY <1>3, ForkApart
    <2> QED  BY <1>0, <2>1, <2>3, <2>4, <2>5 DEF LockFrame, ApartFrame
  <1> QED
    BY <1>2, <1>5, <1>6, <1>7, <1>8, <1>9, <1>10, <1>11, <1>12, <1>13, <1>14 DEF JarunNext

\* process_jajob: it stops and times out icons by the status of an older select,
\* but a REBOOT icon it only puts to ABORT.
LEMMA JajobLock ==
  ASSUME LockInv, JajobNext
  PROVE  LockFrame /\ ApartFrame
  <1>0. TypeOK /\ db \in DB /\ (RebootsApart => \A c \in children : ChildApart(c))
        /\ faults \in Nat
    BY SchedulerShape DEF LockInv, TypeOK, SchedulerShape
  <1>1. ASSUME db' = db, children' = children, agent' = agent, faults' = 0 => faults = 0
        PROVE  LockFrame /\ ApartFrame
    BY <1>0, <1>1 DEF LockFrame, ApartFrame, StaysInHand
  <1>2. CASE JajobSelect
    BY <1>1, <1>2 DEF JajobSelect, bounds
  <1>3. ASSUME NEW r \in jajobq
        PROVE  r.job \in Job
    BY <1>0 DEF TypeOK, JajobRow
  <1>4. ASSUME NEW j \in Job, LockCall(db, db', j), agent' = agent, faults' = faults,
               j \in RebootIcon => db'.status[j] \in InHand \/ db.status[j] \notin InHand,
               NEW m \in {"KILL", "ABORT"}, j \in RebootIcon => m = "KILL",
               children' \subseteq children \cup {Fork(j, m)}
        PROVE  LockFrame /\ ApartFrame
    <2>1. db'.locked = db.locked /\ (RebootsApart => StaysInHand)
      BY <1>4, LockCallStays
    <2>2. ChildApart(Fork(j, m)) /\ Fork(j, m).method # "RUN"
      BY <1>4, ForkApart
    <2> QED  BY <1>0, <1>4, <2>1, <2>2 DEF LockFrame, ApartFrame
  <1>5. ASSUME NEW r \in jajobq, jajob_icon_job(r) \/ jajob_icon_reboot(r)
        PROVE  LockFrame /\ ApartFrame
    <2>1. PICK m \in {"KILL", "ABORT"} : StopOrTimeout(r, m) /\ (r.job \in RebootIcon => m = "KILL")
      BY <1>5 DEF jajob_icon_job, jajob_icon_reboot, AbortMethod, RebootIcon
    <2>2. agent' = agent /\ faults' = faults /\ children' \subseteq children \cup {Fork(r.job, m)}
      BY <1>5, <2>1 DEF jajob_icon_job, jajob_icon_reboot, Jajob, StopOrTimeout
    <2>3. db' \in DB
      BY <1>0, <1>5, JajobGood DEF JajobNext, GoodStep, TypeOK
    <2>4. PICK late \in BOOLEAN :
            db' = [db EXCEPT
                !.status[r.job] = IF r.method = "ABORT" THEN "ABORT" ELSE @,
                !.timeout_flag[r.job] = @ \/ late]
      BY <2>1 DEF StopOrTimeout
    <2>5. /\ db'.locked = db.locked
          /\ db'.status = [db.status EXCEPT ![r.job] = IF r.method = "ABORT" THEN "ABORT" ELSE @]
      BY <1>0, <2>4 DEF DB
    <2>6. \A k \in Job : db.status[k] \in InHand => db'.status[k] \in InHand
      BY <1>0, <1>3, <2>5 DEF DB, InHand
    <2>7. LockCall(db, db', r.job)
      BY <2>3, <2>5, <2>6 DEF LockCall, RebootIcon
    <2> QED  BY <1>3, <1>4, <2>1, <2>2, <2>6, <2>7
  <1>6. ASSUME NEW r \in jajobq, jajob_icon_fwait(r)
        PROVE  LockFrame /\ ApartFrame
    <2>1. CASE db' = db /\ children' = children
      BY <1>0, <1>1, <1>6, <2>1 DEF jajob_icon_fwait, Jajob, Fault
    <2>2. CASE /\ db' = ja_set_status_job(db, r.job, "ABORT")
               /\ children' = children \cup {Fork(r.job, "KILL")}
               /\ UNCHANGED faults
      <3>1. LockCall(db, db', r.job)
        BY <1>0, <1>3, <2>2, SetStatusLock DEF JobStatus
      <3>2. r.job \notin RebootIcon /\ agent' = agent
        BY <1>6 DEF jajob_icon_fwait, Jajob, RebootIcon
      <3> QED  BY <1>3, <1>4, <2>2, <3>1, <3>2
    <2> QED  BY <1>6, <2>1, <2>2 DEF jajob_icon_fwait
  <1>7. ASSUME NEW r \in jajobq,
               jajob_icon_extjob_kill(r) \/ ExtjobWaits(r) \/ jajob_icon_extjob(r)
        PROVE  LockFrame /\ ApartFrame
    <2>1. /\ r.job \notin RebootIcon /\ agent' = agent /\ faults' = faults
          /\ children' = children
      BY <1>7 DEF jajob_icon_extjob_kill, ExtjobWaits, jajob_icon_extjob, Jajob, RebootIcon
    <2>2. LockCall(db, db, r.job)
      BY <1>0 DEF LockCall
    <2>3. LockCall(db, db', r.job)
      BY <1>0, <1>3, <1>7, <2>2, RunerrLock, FlowLock
      DEF jajob_icon_extjob_kill, ExtjobWaits, jajob_icon_extjob
    <2> QED  BY <1>3, <1>4, <2>1, <2>3
  <1> QED  BY <1>2, <1>5, <1>6, <1>7 DEF JajobNext

\* jajobnet: a forced stop waits for the REBOOT icons, and jobnet rows and the
\* icons of sub-jobnets are not theirs.
LEMMA JajobnetLock ==
  ASSUME LockInv, JajobnetNext
  PROVE  LockFrame /\ ApartFrame
  <1>0. TypeOK /\ db \in DB /\ (RebootsApart => \A c \in children : ChildApart(c))
        /\ faults \in Nat
    BY SchedulerShape DEF LockInv, TypeOK, SchedulerShape
  <1>1. ASSUME JajobnetStep, children' = children, faults' = faults,
               db'.locked = db.locked, RebootsApart => StaysInHand
        PROVE  LockFrame /\ ApartFrame
    BY <1>0, <1>1 DEF JajobnetStep, LockFrame, ApartFrame
  <1>2. ASSUME db'.status = db.status
        PROVE  StaysInHand
    BY <1>2 DEF StaysInHand
  <1>3. CASE JajobnetSummary
    <2>1. CASE db' = jajobnet_summary_ready(db) /\ UNCHANGED <<children, faults>>
      <3>1. db'.status = db.status /\ db'.locked = db.locked
        BY <1>0, <2>1 DEF jajobnet_summary_ready, ja_set_status_jobnet, DB
      <3> QED  BY <1>1, <1>2, <1>3, <2>1, <3>1 DEF JajobnetSummary
    <2>2. ASSUME NEW locked, db' = jajobnet_kill(db, locked),
                 children' = children \cup {Fork(j, "KILL") : j \in KilledJobs(db, locked)},
                 IF locked = LockedWaits THEN UNCHANGED faults ELSE Fault
          PROVE  LockFrame /\ ApartFrame
      <3> DEFINE k == Killed(db)
                 st == [j \in Job |-> IF j \in KilledJobs(db, locked) THEN "ABORT"
                                      ELSE IF j \in StoppedExtjobs(db) THEN "RUNERR"
                                      ELSE k.status[j]]
      <3>1. k.locked = db.locked /\ k \in DB
        BY <1>0 DEF Killed, DB, JobStatus, NetStatus
      <3>2. \A j \in RebootIcon : db.status[j] \in InHand => k.status[j] = db.status[j]
        BY <1>0 DEF Killed, DB, RebootIcon, InHand
      <3>3. \A j \in RebootIcon : st[j] = k.status[j]
        BY DEF RebootIcon, KilledJobs, StoppedExtjobs
      <3>4. db' = ja_set_jobstatus(k, "ENDERR", "ERROR") \/ db' = [k EXCEPT !.status = st]
        BY <2>2 DEF jajobnet_kill
      <3> HIDE DEF k, st
      <3>5. db'.locked = k.locked /\ (db'.status = k.status \/ db'.status = st)
        BY <3>1, <3>4 DEF ja_set_jobstatus, DB
      <3>6. db'.locked = db.locked /\ StaysInHand
        BY <3>1, <3>2, <3>3, <3>5 DEF StaysInHand
      <3>7. \A c \in children' : c \in children \/ (ChildApart(c) /\ c.method # "RUN")
        <4>1. ASSUME NEW j \in KilledJobs(db, locked)
              PROVE  ChildApart(Fork(j, "KILL")) /\ Fork(j, "KILL").method # "RUN"
          BY ForkApart DEF KilledJobs, Running
        <4> QED  BY <2>2, <4>1
      <3>8. agent' = agent /\ (faults' = 0 => faults = 0)
        BY <1>0, <1>3, <2>2 DEF JajobnetSummary, JajobnetStep, Fault
      <3> QED  BY <1>0, <3>6, <3>7, <3>8 DEF LockFrame, ApartFrame
    <2>3. CASE UNCHANGED <<db, children, faults>>
      BY <1>1, <1>2, <1>3, <2>3 DEF JajobnetSummary
    <2> QED  BY <1>3, <2>1, <2>2, <2>3 DEF JajobnetSummary
  <1>4. CASE JajobnetSelect
    BY <1>1, <1>2, <1>4 DEF JajobnetSelect
  <1>5. ASSUME NEW r \in netq, jajobnet_run(r)
        PROVE  LockFrame /\ ApartFrame
    BY <1>1, <1>2, <1>5 DEF jajobnet_run
  <1>6. ASSUME NEW r \in netq, jajobnet_ready(r)
        PROVE  LockFrame /\ ApartFrame
    <2>1. db'.locked = db.locked /\ \A k \in RebootIcon : db'.status[k] = db.status[k]
      <3> DEFINE st == [j \in Job |-> IF j \in StartIcons(r.net)
                                      THEN "READY" ELSE db.status[j]]
      <3>1. ASSUME NEW s
            PROVE  LET e == ja_set_status_jobnet(db, r.net, s)
                   IN /\ e.locked = db.locked /\ e.status = db.status
                      /\ [e EXCEPT !.status = st].locked = db.locked
                      /\ [e EXCEPT !.status = st].status = st
        BY <1>0 DEF ja_set_status_jobnet, DB
      <3>2. \A k \in RebootIcon : st[k] = db.status[k]
        BY DEF RebootIcon, StartIcons
      <3>3. \/ db' = ja_set_status_jobnet(db, r.net, "ENDERR")
            \/ db' = [ja_set_status_jobnet(db, r.net, "RUN") EXCEPT !.status = st]
        BY <1>6, <3>1 DEF jajobnet_ready
      <3> HIDE DEF st
      <3> QED  BY <3>1, <3>2, <3>3
    <2>2. StaysInHand
      BY <2>1 DEF StaysInHand
    <2> QED  BY <1>1, <1>6, <2>1, <2>2 DEF jajobnet_ready
  <1>7. ASSUME NEW r \in renew, jajobnet_run_sync(r)
        PROVE  LockFrame /\ ApartFrame
    <2> DEFINE e == SyncNet(db, r)
    <2>1. r \in NetRow /\ r.net \in Net
      BY <1>0 DEF TypeOK, NetRow
    <2>2. e \in DB /\ e.status = db.status
      BY <1>0, <2>1, Sync
    <2>3. e.locked = db.locked
      BY <1>0 DEF SyncNet, ja_set_status_jobnet, DB
    <2>4. db' = IF r.net = MainNet THEN SyncSummary(e, r) ELSE SyncIcon(e, r)
      BY <1>7 DEF jajobnet_run_sync
    <2> HIDE DEF e
    <2>5. db'.locked = db.locked /\ (RebootsApart => StaysInHand)
      <3>1. CASE r.net = MainNet
        <4>1. db'.locked = e.locked /\ db'.status = e.status
          BY <2>2, <2>4, <3>1 DEF SyncSummary, ja_set_jobstatus, DB
        <4> QED  BY <1>2, <2>2, <2>3, <4>1
      <3>2. CASE r.net # MainNet
        <4> DEFINE i == IconOf(r.net)
        <4>1. i \in JobnetIcon
          BY <2>1, <3>2, NetShape DEF IconOf, NetShape
        <4>2. i \in Job /\ i \notin RebootIcon
          BY <4>1 DEF JobnetIcon, RebootIcon
        <4>3. \/ db' = [ja_set_run(e, i) EXCEPT !.timeout_flag[i] = r.timeout]
              \/ db' = ja_flow(e, i, "NORMAL")
              \/ db' = ja_set_runerr(e, i)
              \/ db' = ja_set_enderr(e, i)
          BY <2>4, <3>2 DEF SyncIcon
        <4> HIDE DEF i
        <4>4. LockCall(e, ja_set_run(e, i), i)
          BY <2>2, <4>2, RunThenLock
        <4>5. ASSUME NEW f \in DB
              PROVE  [f EXCEPT !.timeout_flag[i] = r.timeout].locked = f.locked /\
                     [f EXCEPT !.timeout_flag[i] = r.timeout].status = f.status
          BY DEF DB
        <4>6. LockCall(e, ja_set_enderr(e, i), i)
          BY <2>2, <4>2, SetStatusLock DEF ja_set_enderr, JobStatus
        <4>7. \E f \in DB : LockCall(e, f, i) /\ db'.locked = f.locked /\ db'.status = f.status
          BY <2>2, <4>2, <4>3, <4>4, <4>5, <4>6, FlowLock, RunerrLock DEF LockCall
        <4> QED  BY <2>2, <2>3, <4>2, <4>7 DEF LockCall, StaysInHand
      <3> QED  BY <3>1, <3>2
    <2> QED  BY <1>1, <1>7, <2>5 DEF jajobnet_run_sync
  <1> QED  BY <1>3, <1>4, <1>5, <1>6, <1>7 DEF JajobnetNext

\* The operator: nothing in the menu writes the status of an icon under way.
LEMMA OperatorLock ==
  ASSUME LockInv, OperatorNext
  PROVE  LockFrame /\ ApartFrame
  <1>0. TypeOK /\ db \in DB /\ (RebootsApart => \A c \in children : ChildApart(c))
    BY DEF LockInv, TypeOK
  <1>1. agent' = agent /\ children' = children /\ faults' = faults
    BY DEF OperatorNext, SetHold, SetUnHold, SetSkip, SetUnSkip, SetStop, SetReStart,
           StopRunningJobnet, jatrap_jobrelease, Operator
  <1>2. db'.locked = db.locked /\ StaysInHand
    <2>1. CASE StopRunningJobnet
      BY <1>0, <2>1 DEF StopRunningJobnet, DB, StaysInHand
    <2>2. ASSUME NEW j \in Job, NEW m,
                 SetMethod(j, m) \/ (SetReady(j, m) /\ db.status[j] = "RUNERR")
          PROVE  db'.locked = db.locked /\ StaysInHand
      <3>1. db'.locked = db.locked
        BY <1>0, <2>2 DEF SetMethod, SetReady, DB
      <3>2. db'.status = db.status \/ (db'.status = [db.status EXCEPT ![j] = "READY"]
                                        /\ db.status[j] = "RUNERR")
        BY <1>0, <2>2 DEF SetMethod, SetReady, DB
      <3>3. \A k \in Job : db.status[k] \in InHand => db'.status[k] = db.status[k]
        BY <1>0, <3>2 DEF DB, InHand
      <3> QED  BY <3>1, <3>3 DEF StaysInHand, RebootIcon
    <2>3. ASSUME NEW j \in Job,
                 \/ SetHold(j) \/ SetUnHold(j) \/ SetSkip(j) \/ SetUnSkip(j)
                 \/ SetStop(j) \/ SetReStart(j) \/ jatrap_jobrelease(j)
          PROVE  \E m : SetMethod(j, m) \/ (SetReady(j, m) /\ db.status[j] = "RUNERR")
      BY <2>3 DEF SetHold, SetUnHold, SetSkip, SetUnSkip, SetStop, SetReStart,
                  jatrap_jobrelease
    <2> QED  BY <2>1, <2>2, <2>3 DEF OperatorNext
  <1> QED  BY <1>0, <1>1, <1>2 DEF LockFrame, ApartFrame

\* A restart of the server loses the children and leaves table and agents alone.
LEMMA RestartLock ==
  ASSUME LockInv, ServerRestart
  PROVE  LockFrame /\ ApartFrame
  BY DEF ServerRestart, LockFrame, ApartFrame, StaysInHand

\* The children, but for the delivery of a telegram.  As long as nothing is lost
\* no start of a reboot fails, so none gives its lock back.
LEMMA ChildLock ==
  ASSUME LockInv, NEW c \in children,
         \/ ChildUnreached(c) \/ ChildCopy(c)
         \/ ChildUnlock(c) \/ ChildRunerr(c) \/ ChildFlow(c) \/ ChildDone(c)
         \/ \E e \in c.todo : ChildRead(c, e)
         \/ \E g \in c.got : ChildWrite(c, g)
  PROVE  LockFrame /\ ApartFrame
  <1>0. TypeOK /\ db \in DB /\ (RebootsApart => \A x \in children : ChildApart(x))
        /\ faults \in Nat /\ c \in Child /\ c.job \in Job
    BY SchedulerShape DEF LockInv, TypeOK, SchedulerShape, Child
  <1>1. faults = 0 /\ c.job \in RebootIcon /\ c.method = "RUN" => c.phase = "connect"
    BY DEF LockInv, StartsReach, Starts, Fork
  <1>2. RebootsApart => ChildApart(c)
    BY <1>0
  <1>3. ASSUME NEW c2, Exit(c) \/ GoOn(c, c2),
               c2.job = c.job, c2.method = c.method, RebootsApart => ChildApart(c2),
               c.job \in RebootIcon => c.phase # "connect",
               agent' = agent, faults' = faults,
               faults = 0 => db'.locked = db.locked /\ (RebootsApart => StaysInHand)
        PROVE  LockFrame /\ ApartFrame
    <2>1. \A x \in children' : x \in children \/ x = c2
      BY <1>3 DEF Exit, GoOn
    <2> QED  BY <1>0, <1>1, <1>3, <2>1 DEF LockFrame, ApartFrame
  <1>4. db' = db => db'.locked = db.locked /\ StaysInHand
    BY DEF StaysInHand
  <1>5. ASSUME LockCall(db, db', c.job), RebootsApart /\ faults = 0 => c.job \notin RebootIcon
        PROVE  faults = 0 => db'.locked = db.locked /\ (RebootsApart => StaysInHand)
    BY <1>5 DEF LockCall, StaysInHand
  <1>6. CASE ChildUnreached(c)
    <2> DEFINE c2 == [c EXCEPT !.phase = "unreached"]
    <2>1. faults' # 0 /\ GoOn(c, c2)
      BY <1>0, <1>6 DEF ChildUnreached, Fault
    <2>2. RebootsApart => ChildApart(c2)
      BY <1>0, <1>2 DEF ChildApart, Child
    <2> QED  BY <1>0, <2>1, <2>2 DEF GoOn, LockFrame, ApartFrame
  <1>7. CASE ChildCopy(c)
    <2>1. PICK ph \in {"copied", "ng"} : GoOn(c, [c EXCEPT !.phase = ph])
      BY <1>7 DEF ChildCopy
    <2> DEFINE c2 == [c EXCEPT !.phase = ph]
    <2>2. JobType[c.job] = "FCOPY" /\ db' = db /\ agent' = agent /\ faults' = faults
      BY <1>7 DEF ChildCopy
    <2>3. c2.job = c.job /\ c2.method = c.method /\ (RebootsApart => ChildApart(c2))
      BY <1>0, <1>2, <2>2 DEF ChildApart, Child, RebootIcon
    <2>4. c.job \notin RebootIcon
      BY <2>2 DEF RebootIcon
    <2> QED  BY <1>3, <1>4, <2>1, <2>2, <2>3, <2>4
  <1>8. CASE ChildUnlock(c)
    <2> DEFINE c2 == [c EXCEPT !.phase = "unlocked"]
    <2>1. faults # 0
      BY <1>0, <1>1, <1>8 DEF ChildUnlock, GivesBack, RebootIcon
    <2>2. GoOn(c, c2) /\ agent' = agent /\ faults' = faults /\ c.phase # "connect"
      BY <1>8 DEF ChildUnlock
    <2>3. c2.job = c.job /\ c2.method = c.method /\ (RebootsApart => ChildApart(c2))
      BY <1>0, <1>2 DEF ChildApart, Child
    <2> QED  BY <1>3, <2>1, <2>2, <2>3
  <1>9. ASSUME NEW final, StartFlow(c, final), agent' = agent, faults' = faults,
               c.phase # "connect",
               RebootsApart => c.job \in Continue \/ JobType[c.job] = "FCOPY"
        PROVE  LockFrame /\ ApartFrame
    <2> DEFINE c2 == [c EXCEPT !.phase = "flow", !.final = final,
                               !.todo = Targets(c.job, "NORMAL")]
    <2>1. c2.job = c.job /\ c2.method = c.method /\ c2.got = c.got /\ c2.phase = "flow"
          /\ c2.todo = Targets(c.job, "NORMAL")
      BY <1>0 DEF Child
    <2>2. RebootsApart => c.job \notin RebootIcon
      BY <1>9, NetShape DEF NetShape, RebootIcon
    <2>3. RebootsApart => Targets(c.job, "NORMAL") \cap RebootIcon = {}
      BY <1>9 DEF RebootsApart, Targets, Follows
    <2>4. RebootsApart => ChildApart(c2)
      BY <1>2, <2>1, <2>2, <2>3 DEF ChildApart
    <2>5. GoOn(c, c2) /\ db' = db
      BY <1>9 DEF StartFlow
    <2> HIDE DEF c2
    <2> QED  BY <1>3, <1>4, <1>9, <2>1, <2>4, <2>5
  <1>10. CASE ChildRunerr(c)
    <2>1. /\ c.phase \in {"unreached", "ng", "unlocked"} /\ agent' = agent /\ faults' = faults
          /\ c.phase # "connect"
      BY <1>10 DEF ChildRunerr
    <2>2. CASE ContinuesOn(c.job) /\ StartFlow(c, "RUNERR")
      BY <1>9, <2>1, <2>2 DEF ContinuesOn
    <2>3. CASE KillUnreported(c) /\ Exit(c) /\ UNCHANGED db
      BY <1>2, <1>3, <1>4, <2>1, <2>3
    <2>4. CASE ~KillUnreported(c) /\ db' = ja_set_runerr(db, c.job) /\ Exit(c)
      <3>1. RebootsApart /\ faults = 0 => c.job \notin RebootIcon
        <4>1. c.job \in RebootIcon => c.method # "KILL"
          BY <2>4 DEF KillUnreported, RebootIcon
        <4>2. c.method \in {"RUN", "KILL", "ABORT"}
          BY <1>0 DEF Child
        <4> QED  BY <1>1, <1>2, <2>1, <4>1, <4>2 DEF ChildApart
      <3>2. LockCall(db, db', c.job)
        BY <1>0, <2>4, RunerrLock
      <3> QED  BY <1>2, <1>3, <1>5, <2>1, <2>4, <3>1, <3>2
    <2> QED  BY <1>10, <2>2, <2>3, <2>4 DEF ChildRunerr
  <1>11. CASE ChildFlow(c)
    <2>1. /\ c.phase = "copied" /\ agent' = agent /\ faults' = faults
          /\ RebootsApart => JobType[c.job] = "FCOPY"
          /\ RebootsApart => c.job \notin RebootIcon
      BY <1>2, <1>11 DEF ChildFlow, ChildApart
    <2>2. CASE StartFlow(c, "END")
      BY <1>9, <2>1, <2>2
    <2>3. CASE db' = ja_flow(db, c.job, "NORMAL") /\ Exit(c)
      <3>1. LockCall(db, db', c.job)
        BY <1>0, <2>3, FlowLock
      <3> QED  BY <1>2, <1>3, <1>5, <2>1, <2>3, <3>1
    <2> QED  BY <1>11, <2>2, <2>3 DEF ChildFlow
  <1>12. CASE ChildDone(c)
    <2>1. c.phase = "flow" /\ agent' = agent /\ faults' = faults /\ Exit(c)
      BY <1>12 DEF ChildDone
    <2>2. c.final \in JobStatus
      BY <1>0 DEF Child, JobStatus
    <2>3. LockCall(db, db', c.job)
      BY <1>0, <1>12, <2>2, SetStatusLock DEF ChildDone
    <2>4. RebootsApart => c.job \notin RebootIcon
      BY <1>2, <2>1 DEF ChildApart
    <2> QED  BY <1>2, <1>3, <1>5, <2>1, <2>3, <2>4
  <1>13. ASSUME NEW e \in c.todo, ChildRead(c, e)
         PROVE  LockFrame /\ ApartFrame
    <2> DEFINE got == {[to |-> e, status |-> db.status[e], end_count |-> db.end_count[e]]}
               c2 == [c EXCEPT !.todo = @ \ {e}, !.got = got]
    <2>1. c.phase = "flow" /\ agent' = agent /\ faults' = faults /\ db' = db /\ GoOn(c, c2)
      BY <1>13 DEF ChildRead
    <2>2. \A g \in got : g.to = e
      OBVIOUS
    <2> HIDE DEF got
    <2>3. /\ c2.job = c.job /\ c2.method = c.method /\ c2.got = got /\ c2.phase = c.phase
          /\ c2.todo = c.todo \ {e}
      BY <1>0 DEF Child
    <2>4. RebootsApart => ChildApart(c2)
      BY <1>2, <2>2, <2>3 DEF ChildApart
    <2> HIDE DEF c2
    <2> QED  BY <1>3, <1>4, <2>1, <2>3, <2>4
  <1>14. ASSUME NEW g \in c.got, ChildWrite(c, g)
         PROVE  LockFrame /\ ApartFrame
    <2> DEFINE s == [db.status EXCEPT ![g.to] = g.status]
               n == [db.end_count EXCEPT ![g.to] = g.end_count]
               c2 == [c EXCEPT !.got = {}]
    <2>1. c.phase = "flow" /\ agent' = agent /\ faults' = faults /\ GoOn(c, c2)
      BY <1>14 DEF ChildWrite
    <2>2. /\ c2.job = c.job /\ c2.method = c.method /\ c2.got = {} /\ c2.phase = c.phase
          /\ c2.todo = c.todo
      BY <1>0 DEF Child
    <2>3. RebootsApart => ChildApart(c2) /\ c.job \notin RebootIcon /\ g.to \notin RebootIcon
      BY <1>2, <2>1, <2>2 DEF ChildApart
    <2>4. g.to \in Job /\ g.status \in JobStatus /\ g.end_count \in Nat
      BY <1>0 DEF Child
    <2>5. s \in [Job -> JobStatus] /\ n \in [Job -> Nat] /\ {g.to} \in SUBSET Job
      BY <1>0, <2>4 DEF DB
    <2>6. db' = EnterAll(db, {g.to}, s, n) \/ db' = ja_set_enderr(db, c.job) \/ db' = db
      BY <1>14 DEF ChildWrite
    <2> HIDE DEF s, n, c2
    <2>7. LockCall(db, EnterAll(db, {g.to}, s, n), c.job)
      BY <1>0, <2>3, <2>5, EnterAllLock
    <2>8. LockCall(db, ja_set_enderr(db, c.job), c.job) /\ LockCall(db, db, c.job)
      BY <1>0, SetStatusLock DEF ja_set_enderr, JobStatus, LockCall
    <2>9. LockCall(db, db', c.job)
      BY <2>6, <2>7, <2>8
    <2> QED  BY <1>3, <1>5, <2>1, <2>2, <2>3, <2>9
  <1> QED  BY <1>6, <1>7, <1>8, <1>10, <1>11, <1>12, <1>13, <1>14

\* The agents, but for the report of a result.
LEMMA AgentLock ==
  ASSUME LockInv, NEW j \in Job, AgentRun(j) \/ AgentEnd(j) \/ AgentGivesUp(j)
  PROVE  LockFrame /\ ApartFrame
  <1>1. faults \in Nat /\ agent \in [Job -> AgentState]
        /\ (RebootsApart => \A c \in children : ChildApart(c))
    BY SchedulerShape DEF LockInv, TypeOK, SchedulerShape
  <1>2. db' = db /\ children' = children
    BY DEF AgentRun, AgentEnd, AgentGivesUp, AgentStep
  <1>3. \A k \in Job : agent'[k] # "idle" => agent[k] # "idle"
    BY <1>1 DEF AgentRun, AgentEnd, AgentGivesUp
  <1>4. faults' = 0 => faults = 0
    BY <1>1 DEF AgentRun, AgentEnd, AgentGivesUp, Fault
  <1> QED  BY <1>1, <1>2, <1>3, <1>4 DEF LockFrame, ApartFrame, StaysInHand, RebootIcon
-----------------------------------------------------------------------------
(* The three steps of a reboot: it takes the lock, it goes over to the      *)
(* agent, its result gives the lock back.                                   *)

\* jarun_icon_reboot finds the host free, so nothing on it is under way.
LEMMA RebootTakesLock ==
  ASSUME LockInv, TypeOK', NEW r \in jarunq, jarun_icon_reboot(r)
  PROVE  LockInv'
  <1> DEFINE j == r.job
             e == ja_set_run(db, j)
             new == Fork(j, "RUN")
  <1>1. /\ j \in RebootIcon /\ HostsOf[j] \cap db.locked = {} /\ db.status[j] = "READY"
        /\ db' = ja_host_lock(e, j) /\ children' = children \cup {new}
        /\ agent' = agent /\ faults' = faults
    BY DEF jarun_icon_reboot, jarun_normal, Jarun, StillReady, ja_host_lockinfo, RebootIcon,
           LockInv, TypeOK, JarunRow
  <1>2. db \in DB /\ j \in Job /\ HostsOf[j] # {}
    BY <1>1, NetShape DEF LockInv, TypeOK, RebootIcon, NetShape
  <1>3. LockCall(db, e, j) /\ e.status[j] = "RUN"
    BY <1>2, RunThenLock DEF ja_set_run, ja_set_status_job, DB
  <1>4. db'.locked = db.locked \cup HostsOf[j] /\ db'.status = e.status
    BY <1>1, <1>3 DEF ja_host_lock, LockCall, DB
  <1>5. new.job = j /\ new.method = "RUN" /\ ChildApart(new)
    BY <1>2, ForkApart
  <1> HIDE DEF e, new
  <1>6. ASSUME faults' = 0
        PROVE  (StartsReach /\ HoldsHost /\ HoldsAlone)'
    <2>1. StartsReach /\ HoldsHost /\ HoldsAlone
      BY <1>1, <1>6 DEF LockInv
    <2>2. \A k \in RebootIcon : UnderWay(k) => HostsOf[k] \cap HostsOf[j] = {} /\ k # j
      BY <1>1, <1>2, <2>1 DEF HoldsHost
    <2>3. \A k \in RebootIcon : UnderWay(k)' => UnderWay(k) \/ k = j
      BY <1>1, <1>5 DEF UnderWay, Starts
    <2>4. StartsReach'
      <3> SUFFICES ASSUME NEW k \in RebootIcon, NEW c \in children', Starts(c, k)
                   PROVE  c = Fork(k, "RUN") /\ agent[k] = "idle"
        BY <1>1 DEF StartsReach, Starts, Fork
      <3>1. CASE c \in children
        BY <2>1, <3>1 DEF StartsReach
      <3>2. CASE c = new
        BY <1>1, <1>5, <2>2, <3>2 DEF Starts, UnderWay, new
      <3> QED  BY <1>1, <3>1, <3>2
    <2>5. HoldsHost'
      BY <1>4, <2>1, <2>3 DEF HoldsHost
    <2>6. HoldsAlone'
      BY <2>1, <2>2, <2>3 DEF HoldsAlone
    <2> QED  BY <2>4, <2>5, <2>6
  <1>7. ASSUME RebootsApart
        PROVE  \A c \in children' : ChildApart(c)
    BY <1>1, <1>5, <1>7 DEF LockInv
  <1>8. ASSUME RebootsApart, faults' = 0
        PROVE  LockHasHolder'
    <2>1. LockHasHolder
      BY <1>1, <1>8 DEF LockInv
    <2> SUFFICES ASSUME NEW h \in db'.locked
                 PROVE  \E k \in RebootIcon : h \in HostsOf[k] /\ db'.status[k] \in InHand
      BY DEF LockHasHolder, Holders, RebootIcon, InHand
    <2>2. CASE h \in HostsOf[j]
      BY <1>1, <1>3, <1>4, <2>2 DEF InHand
    <2>3. CASE h \in db.locked /\ h \notin HostsOf[j]
      <3>1. PICK k \in RebootIcon : h \in HostsOf[k] /\ db.status[k] \in InHand
        BY <2>1, <2>3 DEF LockHasHolder, Holders, RebootIcon, InHand
      <3> QED  BY <1>3, <1>4, <1>8, <2>3, <3>1 DEF LockCall
    <2> QED  BY <1>4, <2>2, <2>3
  <1> QED  BY <1>6, <1>7, <1>8 DEF LockInv

\* ChildDeliver hands the reboot over to the agent: it was under way and is.
LEMMA DeliverKeepsLock ==
  ASSUME LockInv, TypeOK', NEW c \in children, ChildDeliver(c)
  PROVE  LockInv'
  <1> DEFINE ng == [c EXCEPT !.phase = "ng"]
  <1>1. /\ db' = db /\ c.phase = "connect" /\ c \in Child /\ faults \in Nat
        /\ agent \in [Job -> AgentState] /\ c.job \in Job
        /\ c.method \in {"RUN", "KILL", "ABORT"}
    BY SchedulerShape DEF ChildDeliver, LockInv, TypeOK, Child, SchedulerShape
  <1>2. /\ ng.job = c.job /\ ng.method = c.method
        /\ RebootsApart => ChildApart(ng)
    BY <1>1 DEF LockInv, ChildApart, Child
  <1>3. \A x \in children' : (x \in children /\ x # c) \/ x = ng
    BY DEF ChildDeliver, Exit, GoOn
  <1>4. faults' = 0 => faults = 0 /\ (Exit(c) \/ ~Accepts(c))
    BY <1>1 DEF ChildDeliver, Fault
  <1>5. \A k \in Job : agent'[k] # "idle" => agent[k] # "idle" \/ (k = c.job /\ c.method = "RUN")
    BY <1>1 DEF ChildDeliver, Accepts
  <1>6. c.method = "KILL" => \A k \in Job : agent[k] = "idle" => agent'[k] = "idle"
    BY <1>1 DEF ChildDeliver, Accepts
  <1> HIDE DEF ng
  <1>7. ASSUME faults' = 0
        PROVE  (StartsReach /\ HoldsHost /\ HoldsAlone)'
    <2>1. StartsReach /\ HoldsHost /\ HoldsAlone
      BY <1>4, <1>7 DEF LockInv
    <2>2. \A k \in RebootIcon : UnderWay(k)' => UnderWay(k)
      <3> SUFFICES ASSUME NEW k \in RebootIcon, UnderWay(k)'
                   PROVE  UnderWay(k)
        OBVIOUS
      <3>1. CASE agent'[k] # "idle"
        BY <1>5, <3>1 DEF UnderWay, Starts, RebootIcon
      <3>2. CASE \E x \in children' : Starts(x, k)
        BY <1>2, <1>3, <3>2 DEF UnderWay, Starts
      <3> QED  BY <3>1, <3>2 DEF UnderWay
    <2>3. StartsReach'
      <3> SUFFICES ASSUME NEW k \in RebootIcon, NEW x \in children', Starts(x, k)
                   PROVE  x = Fork(k, "RUN") /\ agent'[k] = "idle"
        BY DEF StartsReach, Starts, Fork
      <3>1. k \in Job
        BY DEF RebootIcon
      <3>2. CASE x \in children /\ x # c
        <4>1. x = Fork(k, "RUN") /\ agent[k] = "idle"
          BY <2>1, <3>2 DEF StartsReach
        <4>2. c.job = k => c.method # "RUN"
          BY <2>1, <3>2, <4>1 DEF StartsReach, Starts
        <4> QED  BY <1>5, <3>1, <4>1, <4>2
      <3>3. CASE x = ng /\ x \notin children \ {c}
        <4>1. Starts(c, k)
          BY <1>2, <3>3 DEF Starts
        <4>2. Accepts(c)
          BY <2>1, <4>1 DEF StartsReach, Accepts, Starts
        <4>3. Exit(c)
          BY <1>4, <1>7, <4>2
        <4> QED  BY <3>3, <4>3 DEF Exit
      <3> QED  BY <1>3, <3>2, <3>3
    <2>4. HoldsHost'
      BY <1>1, <2>1, <2>2 DEF HoldsHost
    <2>5. HoldsAlone'
      BY <2>1, <2>2 DEF HoldsAlone
    <2> QED  BY <2>3, <2>4, <2>5
  <1>8. ASSUME RebootsApart
        PROVE  \A x \in children' : ChildApart(x)
    BY <1>2, <1>3, <1>8 DEF LockInv
  <1>9. ASSUME RebootsApart, faults' = 0
        PROVE  LockHasHolder'
    BY <1>1, <1>4, <1>9 DEF LockInv, LockHasHolder, Holders
  <1> QED  BY <1>7, <1>8, <1>9 DEF LockInv

\* AgentSend: the trapper gives the lock back for the one reboot on the host, and
\* the agent forgets it in the same exchange.
LEMMA ResultGivesBack ==
  ASSUME LockInv, TypeOK', NEW j \in Job, AgentSend(j)
  PROVE  LockInv'
  <1> DEFINE u == Unlocked(db, j)
  <1>1. /\ db \in DB /\ agent \in [Job -> AgentState] /\ faults \in Nat
        /\ agent[j] # "idle" /\ children' = children
        /\ db' = jatrap_jobresult(db, j, agent[j] = "ok")
    BY SchedulerShape DEF AgentSend, AgentStep, LockInv, TypeOK, SchedulerShape
  <1>2. faults' = 0 => faults = 0 /\ agent' = [agent EXCEPT ![j] = "idle"]
    BY <1>1 DEF AgentSend, Fault
  <1>3. /\ u \in DB /\ u.status = db.status
        /\ u.locked = IF j \in RebootIcon THEN db.locked \ HostsOf[j] ELSE db.locked
    BY <1>1 DEF Unlocked, ja_host_unlock, DB, RebootIcon
  <1>4. \/ db' = db /\ db.status[j] \notin InHand
        \/ db' = ja_flow(u, j, "NORMAL")
        \/ db' = ja_set_runerr(u, j)
    BY <1>1 DEF jatrap_jobresult, InHand
  <1> HIDE DEF u
  <1>5. (db' = db /\ db.status[j] \notin InHand) \/ LockCall(u, db', j)
    BY <1>3, <1>4, FlowLock, RunerrLock
  <1>6. /\ db.locked \ HostsOf[j] \subseteq db'.locked
        /\ j \notin RebootIcon => db'.locked = db.locked
    BY <1>3, <1>5 DEF LockCall
  <1>7. ASSUME faults' = 0
        PROVE  (StartsReach /\ HoldsHost /\ HoldsAlone)'
    <2>1. StartsReach /\ HoldsHost /\ HoldsAlone
      BY <1>2, <1>7 DEF LockInv
    <2>2. \A k \in RebootIcon : UnderWay(k)' => UnderWay(k) /\ k # j
      <3> SUFFICES ASSUME NEW k \in RebootIcon, UnderWay(k)'
                   PROVE  UnderWay(k) /\ k # j
        OBVIOUS
      <3>1. k \in Job /\ (k = j => agent'[k] = "idle") /\ (k # j => agent'[k] = agent[k])
        BY <1>1, <1>2, <1>7 DEF RebootIcon
      <3>2. k = j => ~\E c \in children : Starts(c, k)
        BY <1>1, <2>1 DEF StartsReach
      <3> QED  BY <1>1, <3>1, <3>2 DEF UnderWay, Starts
    <2>3. StartsReach'
      <3> SUFFICES ASSUME NEW k \in RebootIcon, NEW c \in children, Starts(c, k)
                   PROVE  c = Fork(k, "RUN") /\ agent'[k] = "idle"
        BY <1>1 DEF StartsReach, Starts, Fork
      <3> QED  BY <1>1, <1>2, <1>7, <2>1 DEF StartsReach, RebootIcon
    <2>4. ASSUME NEW k \in RebootIcon, UnderWay(k)'
          PROVE  HostsOf[k] \subseteq db'.locked
      <3>1. HostsOf[k] \subseteq db.locked /\ k # j /\ UnderWay(k)
        BY <2>1, <2>2, <2>4 DEF HoldsHost
      <3>2. j \in RebootIcon => HostsOf[k] \cap HostsOf[j] = {}
        BY <1>1, <2>1, <3>1 DEF HoldsAlone, UnderWay
      <3> QED  BY <1>6, <3>1, <3>2
    <2>5. HoldsHost'
      BY <2>4 DEF HoldsHost
    <2>6. HoldsAlone'
      BY <2>1, <2>2 DEF HoldsAlone
    <2> QED  BY <2>3, <2>5, <2>6
  <1>8. ASSUME RebootsApart, faults' = 0
        PROVE  LockHasHolder'
    <2>1. LockHasHolder
      BY <1>2, <1>8 DEF LockInv
    <2> SUFFICES ASSUME NEW h \in db'.locked
                 PROVE  \E k \in RebootIcon : h \in HostsOf[k] /\ db'.status[k] \in InHand
      BY DEF LockHasHolder, Holders, RebootIcon, InHand
    <2>2. h \in db.locked
      BY <1>3, <1>5 DEF LockCall
    <2>3. PICK k \in RebootIcon : h \in HostsOf[k] /\ db.status[k] \in InHand
      BY <2>1, <2>2 DEF LockHasHolder, Holders, RebootIcon, InHand
    <2>4. CASE db' = db
      BY <2>3, <2>4
    <2>5. CASE LockCall(u, db', j)
      <3>1. k # j
        BY <1>3, <2>3, <2>5 DEF LockCall
      <3> QED  BY <1>3, <1>8, <2>3, <2>5, <3>1 DEF LockCall
    <2> QED  BY <1>5, <2>4, <2>5
  <1> QED  BY <1>1, <1>7, <1>8 DEF LockInv

-----------------------------------------------------------------------------
\* LockInv is inductive: whatever the order of the server's processes, of the
\* agents, the operator and the restarts, the lock in ja_host_lock_table covers
\* every reboot between jarun_icon_reboot and the result in the trapper.
THEOREM LockInvariant == Spec => []LockInv
  <1>1. Init => LockInv
    <2> SUFFICES ASSUME Init PROVE LockInv
      OBVIOUS
    <2>1. /\ children = {} /\ db.locked = {} /\ \A j \in Job : agent[j] = "idle"
      BY DEF Init, InitDB
    <2>2. StartsReach /\ HoldsHost /\ HoldsAlone /\ LockHasHolder
      BY <2>1 DEF StartsReach, HoldsHost, HoldsAlone, UnderWay, LockHasHolder, RebootIcon
    <2> QED  BY <2>1, <2>2, InitType DEF LockInv
  <1>2. LockInv /\ [Next]_vars => LockInv'
    <2> SUFFICES ASSUME LockInv, [Next]_vars PROVE LockInv'
      OBVIOUS
    <2>1. TypeOK /\ (Next => TypeOK')
      BY JarunGood, ChildGood, AgentGood, JajobGood, JajobnetGood, OperatorGood, RestartGood
      DEF LockInv, Next, GoodStep
    <2>2. CASE JarunNext
      <3>1. ASSUME NEW r \in jarunq, jarun_icon_reboot(r)
            PROVE  LockInv'
        BY <2>1, <2>2, <3>1, RebootTakesLock DEF Next
      <3> QED  BY <2>1, <2>2, <3>1, JarunLock, FrameKeeps DEF Next
    <2>3. CASE ChildNext
      <3>1. PICK c \in children :
              \/ ChildUnreached(c) \/ ChildDeliver(c) \/ ChildCopy(c)
              \/ ChildUnlock(c) \/ ChildRunerr(c) \/ ChildFlow(c) \/ ChildDone(c)
              \/ \E e \in c.todo : ChildRead(c, e)
              \/ \E g \in c.got : ChildWrite(c, g)
        BY <2>3 DEF ChildNext
      <3>2. CASE ChildDeliver(c)
        BY <2>1, <2>3, <3>2, DeliverKeepsLock DEF Next
      <3>3. CASE ~ChildDeliver(c)
        <4>1. LockFrame /\ ApartFrame
          BY <3>1, <3>3, ChildLock
        <4> QED  BY <2>1, <2>3, <4>1, FrameKeeps DEF Next
      <3> QED  BY <3>2, <3>3
    <2>4. ASSUME NEW j \in Job, AgentNext(j)
          PROVE  LockInv'
      BY <2>1, <2>4, AgentLock, FrameKeeps, ResultGivesBack DEF Next, AgentNext
    <2>5. CASE JajobNext \/ JajobnetNext \/ OperatorNext \/ ServerRestart
      BY <2>1, <2>5, JajobLock, JajobnetLock, OperatorLock, RestartLock, FrameKeeps DEF Next
    <2>6. CASE UNCHANGED vars
      <3>1. TypeOK' /\ LockFrame /\ ApartFrame
        BY <2>1, <2>6
        DEF vars, TypeOK, LockFrame, ApartFrame, StaysInHand, LockInv
      <3> QED  BY <3>1, FrameKeeps
    <2> QED  BY <2>2, <2>3, <2>4, <2>5, <2>6 DEF Next
  <1> QED  BY <1>1, <1>2, PTL DEF Spec

\* OneRebootPerHost is an invariant for every jobnet and every bound: while no
\* telegram is lost, two REBOOT icons never have one host reboot at a time,
\* not even when they are rerun, stopped, skipped or reset, or the server
\* restarts, while the agent is at work.
THEOREM OneRebootCorrect == Spec => []OneRebootPerHost
  <1>1. LockInv => OneRebootPerHost
    <2> SUFFICES ASSUME LockInv, NEW h \in Host
                 PROVE  LET rebooting == {j \in Job : /\ JobType[j] = "REBOOT" /\ h \in HostsOf[j]
                                                      /\ agent[j] \in {"begin", "run"}}
                        IN Cardinality(rebooting) > 1 => faults > 0
      BY DEF OneRebootPerHost
    <2> DEFINE rebooting == {j \in Job : /\ JobType[j] = "REBOOT" /\ h \in HostsOf[j]
                                         /\ agent[j] \in {"begin", "run"}}
    <2>1. faults \in Nat
      BY SchedulerShape DEF LockInv, TypeOK, SchedulerShape
    <2>2. ASSUME faults = 0
          PROVE  \A j, k \in rebooting : j = k
      BY <2>2 DEF LockInv, HoldsAlone, UnderWay, RebootIcon
    <2> HIDE DEF rebooting
    <2>3. ASSUME \A j, k \in rebooting : j = k
          PROVE  Cardinality(rebooting) \in {0, 1}
      <3>1. CASE rebooting = {}
        BY <3>1, FS_EmptySet
      <3>2. ASSUME NEW j \in rebooting
            PROVE  Cardinality(rebooting) = 1
        <4>1. rebooting = {j}
          BY <2>3, <3>2
        <4> QED  BY <4>1, FS_Singleton
      <3> QED  BY <3>1, <3>2
    <2>4. Cardinality(rebooting) > 1 => faults > 0
      BY <2>1, <2>2, <2>3
    <2> QED  BY <2>4 DEF rebooting
  <1> QED  BY <1>1, LockInvariant, PTL

\* LockHasHolder is an invariant, for every bound, as long as no telegram is lost,
\* of every jobnet that keeps its REBOOT icons out of sub-jobnets and away from
\* the icons whose ja_flow a child carries out: a host in ja_host_lock_table
\* belongs to a REBOOT icon that runs or is being stopped, whose result gives
\* it back.
THEOREM LockHasHolderCorrect ==
  ASSUME RebootsApart
  PROVE  Spec => [](faults = 0 => LockHasHolder)
  <1>1. LockInv => (faults = 0 => LockHasHolder)
    BY RebootsApart DEF LockInv
  <1> QED  BY <1>1, LockInvariant, PTL
=============================================================================
