-------------------------- MODULE JobSchedulerQuiet --------------------------
(***************************************************************************)
(* Theorems about JobScheduler, for every bound: a jobnet that has ended   *)
(* is quiet, a sub-jobnet starts clean however often it is started, and a  *)
(* parallel end icon counts its branches.                                  *)
(*                                                                         *)
(* jajobnet reads the icons of a jobnet in one transaction and writes the  *)
(* jobnet's end in another, and an icon's start is with a child or an      *)
(* agent while the tables go on.  The invariant says what nobody undoes in *)
(* between: the icons of a jobnet whose end is written or about to be are  *)
(* settled, whatever a child, an agent or a row of jajob still works for   *)
(* is RUN, and the row of a jobnet under way is written by jajobnet alone. *)
(* A jobnet that has ended in error is left for good, and nothing is       *)
(* claimed of its icons.                                                   *)
(***************************************************************************)
EXTENDS JobSchedulerProof, FiniteSetTheorems

\* An icon that nothing will happen to unless it is entered again.
Settled(d, j) ==
  d.status[j] \in {"BEGIN", "END"} \/ (d.status[j] = "RUNERR" /\ j \in Continue)

\* An icon as it was loaded or reset.
Pristine(d, j) == d.status[j] = "BEGIN" /\ d.end_count[j] = 0

\* The jobnets that have a sub-jobnet.
HasSubNet(n) == \E i \in JobnetIcon : NetOf[i] = n

\* A jobnet with sub-jobnets has no parallel branches: an icon has one flow out
\* of it, and an IF icon one for each outcome.
SequentialParents ==
  \A f, g \in Flow : f.from = g.from /\ HasSubNet(NetOf[f.from])
    => f = g \/ (JobType[f.from] = "IF" /\ f.type # g.type)

\* The jobnets and menus the theorems are about.  A single icon is not stopped
\* (the stop reaches an icon that has ended), a jobnet icon that has failed is
\* not skipped (its sub-jobnet goes on), and no child carries out a ja_flow
\* statement by statement.
QuietShape ==
  /\ IsFiniteSet(Job)
  /\ \A j \in Job : JobType[j] # "FCOPY"
  /\ "SetStop" \notin Menu
  /\ JobnetIcon = {} \/ "SetSkip" \notin Menu
  /\ SequentialParents

\* The tables.  The icons of a jobnet that has ended are settled ...
EndedSettled(d) == \A j \in Job : d.net_status[NetOf[j]] = "END" => Settled(d, j)

\* ... those of a jobnet that is to start are as they were loaded ...
StartsPristine(d) ==
  \A j \in Job : d.net_status[NetOf[j]] \in {"BEGIN", "READY"} => Pristine(d, j)

\* ... the icon of a sub-jobnet under way, or ended in error, shows it ...
IconShowsNet(d) ==
  \A i \in JobnetIcon : d.net_status[LinkNet[i]] \notin {"BEGIN", "END"}
                          => d.status[i] \in {"RUN", "RUNERR", "ENDERR"}

\* ... a jobnet icon that is ready has reset its sub-jobnet ...
ReadyHasReset(d) ==
  \A i \in JobnetIcon : d.status[i] = "READY"
                          => \A k \in JobsOf(LinkNet[i]) : Pristine(d, k)

\* ... at most one icon is under way in a jobnet that has sub-jobnets ...
OneUnderWay(d) ==
  ~d.test_flag =>
    \A j, k \in Job : /\ NetOf[j] = NetOf[k] /\ HasSubNet(NetOf[j])
                      /\ d.net_status[NetOf[j]] # "ENDERR"
                      /\ ~Settled(d, j) /\ ~Settled(d, k)
                      => j = k

\* ... and only the icons of a jobnet that is stopped are told to stop.
AbortIsFinal(d) ==
  \A j \in Job : d.status[j] = "ABORT" => d.net_status[NetOf[j]] = "ENDERR"

\* The branches that lead to icon e, and those of them that have ended.
Into(e)    == {f \in Flow : f.to = e}
Came(d, e) == {f \in Into(e) : d.status[f.from] = "END"}

\* The jobnets in which a branch ends once: they have no branches that exclude
\* each other and no loops, no icon goes on after an error, nothing leads to a
\* start icon or away from an end icon, and something leads to a parallel end.
JoinShape ==
  /\ IsFiniteSet(Flow) /\ Continue = {}
  /\ \A j \in Job : JobType[j] \notin {"IF", "IFEND", "L"}
  /\ \A f \in Flow : JobType[f.from] # "END" /\ JobType[f.to] # "START"
  /\ \A j \in Job : JobType[j] = "W" => Into(j) # {}

\* There every icon has counted the branches that have ended; it has left BEGIN
\* when all of them have, and only a forced stop takes it back.
BranchesCounted(d) ==
  \A e \in Job :
    /\ d.end_count[e] = Cardinality(Came(d, e))
    /\ d.status[e] # "BEGIN" => Came(d, e) = Into(e)
    /\ d.status[e] = "BEGIN" /\ Into(e) # {} => Came(d, e) # Into(e) \/ d.abort_flag

TableInv(d) ==
  /\ EndedSettled(d) /\ StartsPristine(d) /\ IconShowsNet(d)
  /\ ReadyHasReset(d) /\ OneUnderWay(d) /\ AbortIsFinal(d)
  /\ JoinShape => BranchesCounted(d)

\* The jobnet of icon j has ended in error.
Broken(d, j) == d.net_status[NetOf[j]] = "ENDERR"

\* Icon j was running when its jobnet was stopped by force.
GivenUp(d, j) ==
  Broken(d, j) /\ d.abort_flag /\ d.status[j] \notin {"BEGIN", "READY", "END"}

\* No stop of a single icon is asked for or selected.
NoSingleStop ==
  /\ \A j \in Job : db.method_flag[j] # "ABORT"
  /\ \A r \in jajobq : r.method # "ABORT"

\* jajob: one row for each icon, and none of an EXTJOB icon that has ended.
JajobRows ==
  /\ \A r, q \in jajobq : r.job = q.job => r = q
  /\ \A r \in jajobq : JobType[r.job] = "EXTJOB"
                         => db.status[r.job] = "RUN" \/ GivenUp(db, r.job)

\* A child starts an icon that is RUN, alone, and finds the agent idle.
ChildrenReach ==
  \A c \in children :
    /\ c.job \in AgentIcon
    /\ c.phase \notin {"copied", "flow"}
    /\ \/ GivenUp(db, c.job)
       \/ /\ c = Fork(c.job, "RUN")
          /\ db.status[c.job] = "RUN" /\ agent[c.job] = "idle"

\* An agent works for icons that are RUN.
AgentsWork ==
  \A j \in Job : agent[j] # "idle"
    => j \in AgentIcon /\ (db.status[j] = "RUN" \/ GivenUp(db, j))

\* jajobnet: no row is stale, and an end is written when all is settled.
RowsFresh ==
  /\ \A r \in netq : r.status = db.net_status[r.net]
  /\ \A r \in renew :
       /\ db.net_status[r.net] \in {"RUN", "RUNERR"}
       /\ r.status = "END" => \A j \in JobsOf(r.net) : Settled(db, j)

QuietState ==
  /\ TableInv(db) /\ NoSingleStop /\ JajobRows
  /\ ChildrenReach /\ AgentsWork /\ RowsFresh

\* The inductive invariant.  Restarts of the server are allowed, a lost answer
\* is not: after it a child reports the failure of an icon that has ended.
QuietInv ==
  /\ SummaryInv
  /\ QuietShape /\ faults = 0 => QuietState

-----------------------------------------------------------------------------
(* What the calls of jalibs do to the tables.                               *)

\* Icon j is under way, or its jobnet is beyond repair and j has not ended: the
\* only icons calls are made for.
Due(d, j) == d.status[j] \notin {"BEGIN", "END"} /\ (~Settled(d, j) \/ Broken(d, j))

\* If j is a jobnet icon, its sub-jobnet is not under way.
SubIdle(d, j) == j \in JobnetIcon => d.net_status[LinkNet[j]] \in {"BEGIN", "END"}

\* A call for icon j writes no jobnet and asks for no stop, leaves every other icon
\* that runs or is in a broken jobnet alone, does nothing to another jobnet than to
\* reset icons of it, and keeps the invariant of the tables.
QuietCall(d, e, j) ==
  /\ e \in DB /\ e.net_status = d.net_status /\ e.test_flag = d.test_flag
  /\ \A k \in Job : e.method_flag[k] = "ABORT" => d.method_flag[k] = "ABORT"
  /\ \A k \in Job : k # j /\ d.status[k] \in {"RUN", "ENDERR", "ABORT"}
                      => e.status[k] = d.status[k]
  /\ \A k \in Job : NetOf[k] # NetOf[j] => e.status[k] \in {d.status[k], "BEGIN"}
  /\ \A k \in Job : k # j /\ Broken(d, k) => e.status[k] = d.status[k]
  /\ d.abort_flag => e.abort_flag
  /\ TableInv(e)

\* Two calls for one icon in one transaction are such a call.
LEMMA QuietCallTransitive ==
  ASSUME NEW d, NEW e, NEW f, NEW j, QuietCall(d, e, j), QuietCall(e, f, j)
  PROVE  QuietCall(d, f, j)
  BY DEF QuietCall, Broken

\* The branches stay counted when the same icons with a flow out of them have
\* ended, no counter is written, and only a start icon leaves BEGIN and only a
\* forced stop takes an icon back to it.
LEMMA CountsKept ==
  ASSUME NEW d, NEW e, BranchesCounted(d), d.abort_flag => e.abort_flag,
         Flow \subseteq [from : Job, to : Job, type : FlowType],
         \A f \in Flow : e.status[f.from] = "END" <=> d.status[f.from] = "END",
         \A k \in Job : /\ e.end_count[k] = d.end_count[k]
                        /\ e.status[k] = "BEGIN" => d.status[k] = "BEGIN" \/ e.abort_flag
                        /\ e.status[k] # "BEGIN" => d.status[k] # "BEGIN" \/ Into(k) = {}
  PROVE  BranchesCounted(e)
  <1> SUFFICES ASSUME NEW k \in Job
               PROVE  /\ e.end_count[k] = Cardinality(Came(e, k))
                      /\ e.status[k] # "BEGIN" => Came(e, k) = Into(k)
                      /\ e.status[k] = "BEGIN" /\ Into(k) # {}
                           => Came(e, k) # Into(k) \/ e.abort_flag
    BY DEF BranchesCounted
  <1>1. Came(e, k) = Came(d, k)
    BY DEF Came, Into
  <1>2. Came(d, k) \subseteq Into(k)
    BY DEF Came
  <1>3. /\ d.end_count[k] = Cardinality(Came(d, k))
        /\ d.status[k] # "BEGIN" => Came(d, k) = Into(k)
        /\ d.status[k] = "BEGIN" /\ Into(k) # {} => Came(d, k) # Into(k) \/ d.abort_flag
    BY DEF BranchesCounted
  <1> QED  BY <1>1, <1>2, <1>3

\* ja_set_status_job, for every status an icon is set to but READY and ABORT.
LEMMA SetQuiet ==
  ASSUME NEW d \in DB, NEW j \in Job, TableInv(d), Due(d, j),
         NEW s \in {"RUN", "END", "RUNERR", "ENDERR"},
         s = "END" => SubIdle(d, j) /\ (JoinShape => ~HasFlow(j))
  PROVE  /\ QuietCall(d, ja_set_status_job(d, j, s), j)
         /\ ja_set_status_job(d, j, s).status[j] = s
  <1> DEFINE e == ja_set_status_job(d, j, s)
  <1>1. /\ e \in DB /\ e.net_status = d.net_status /\ e.test_flag = d.test_flag
        /\ e.method_flag = d.method_flag /\ e.end_count = d.end_count
        /\ e.abort_flag = d.abort_flag
        /\ \A k \in Job : e.status[k] = IF k = j THEN s ELSE d.status[k]
    BY DEF ja_set_status_job, DB, JobStatus
  <1>2. \A k \in Job : k # j => /\ Settled(e, k) <=> Settled(d, k)
                                /\ Pristine(e, k) <=> Pristine(d, k)
    BY <1>1 DEF Settled, Pristine
  <1>3. NetOf \in [Job -> Net] /\ JobnetIcon \subseteq Job
    BY NetShape DEF NetShape, JobnetIcon
  <1>4. d.net_status[NetOf[j]] \notin {"BEGIN", "READY", "END"}
    BY DEF TableInv, EndedSettled, StartsPristine, Due, Broken, Settled, Pristine
  <1> HIDE DEF e
  <1>5. EndedSettled(e) /\ StartsPristine(e)
    BY <1>1, <1>2, <1>4 DEF TableInv, EndedSettled, StartsPristine
  <1>6. IconShowsNet(e)
    BY <1>1, <1>3 DEF TableInv, IconShowsNet, SubIdle
  <1>7. ReadyHasReset(e)
    <2> SUFFICES ASSUME NEW i \in JobnetIcon, e.status[i] = "READY", NEW k \in JobsOf(LinkNet[i])
                 PROVE  Pristine(e, k)
      BY DEF ReadyHasReset
    <2>1. d.status[i] = "READY" /\ Pristine(d, k) /\ k \in Job /\ NetOf[k] = LinkNet[i]
      BY <1>1, <1>3 DEF TableInv, ReadyHasReset, JobsOf
    <2>2. d.net_status[LinkNet[i]] \in {"BEGIN", "END"}
      BY <2>1 DEF TableInv, IconShowsNet
    <2> QED  BY <1>2, <1>4, <2>1, <2>2
  <1>8. OneUnderWay(e)
    <2>1. \A k \in Job : ~Settled(e, k) /\ d.net_status[NetOf[k]] # "ENDERR" => ~Settled(d, k)
      BY <1>2 DEF Due, Broken
    <2> QED  BY <1>1, <2>1 DEF TableInv, OneUnderWay
  <1>9. AbortIsFinal(e)
    BY <1>1 DEF TableInv, AbortIsFinal
  <1>10. JoinShape => BranchesCounted(e)
    <2> SUFFICES ASSUME JoinShape
                 PROVE  BranchesCounted(e)
      OBVIOUS
    <2>1. /\ Flow \subseteq [from : Job, to : Job, type : FlowType]
          /\ d.status[j] \notin {"BEGIN", "END"}
      BY NetShape DEF NetShape, Due
    <2>2. \A f \in Flow : e.status[f.from] = "END" <=> d.status[f.from] = "END"
      BY <1>1, <2>1 DEF HasFlow
    <2> QED  BY <1>1, <2>1, <2>2, CountsKept DEF TableInv
  <1> QED
    BY <1>1, <1>5, <1>6, <1>7, <1>8, <1>9, <1>10 DEF QuietCall, TableInv, e

\* The icons ja_flow enters, and the ones it resets.
Entered(d, j, type) == {e \in Targets(j, type) : MayEnter(d, e, d.status[e])}

ResetBy(d, j, type) ==
  UNION {Resets(e, CountUp(d.status[e], d.end_count[e])) : e \in Entered(d, j, type)}

\* What ja_flow does to the icons, up to its last call.
LEMMA FlowOutEffect ==
  ASSUME NEW d \in DB, NEW j \in Job, NEW type, JobnetRunning(d, j)
  PROVE  LET f == FlowOut(d, j, type)
             E == Entered(d, j, type)
             R == ResetBy(d, j, type)
         IN /\ f \in DB /\ f.net_status = d.net_status /\ f.test_flag = d.test_flag
            /\ f.method_flag = d.method_flag /\ f.abort_flag = d.abort_flag
            /\ \A k \in Job \ {j} :
                 f.status[k] = IF k \in E
                               THEN EnteredStatus(k, CountUp(d.status[k], d.end_count[k]))
                               ELSE IF k \in R THEN "BEGIN" ELSE d.status[k]
            /\ \A k \in Job :
                 f.end_count[k] = IF k \in E THEN CountUp(d.status[k], d.end_count[k])
                                  ELSE IF k \in R THEN 0 ELSE d.end_count[k]
  <1> DEFINE f == FlowOut(d, j, type)
             E == Entered(d, j, type)
             R == ResetBy(d, j, type)
             a == EnterAll(d, E, d.status, d.end_count)
             st == [k \in Job |-> IF k \in E
                                  THEN EnteredStatus(k, CountUp(d.status[k], d.end_count[k]))
                                  ELSE IF k \in R THEN "BEGIN" ELSE d.status[k]]
             ec == [k \in Job |-> IF k \in E THEN CountUp(d.status[k], d.end_count[k])
                                  ELSE IF k \in R THEN 0 ELSE d.end_count[k]]
  <1>1. f \in DB
    BY FlowOutGood DEF GoodCall
  <1>2. a = [d EXCEPT !.status = st, !.end_count = ec]
    BY DEF EnterAll, ResetBy, DB
  <1>3. f = a \/ f = [a EXCEPT !.status[j] = "ENDERR"]
    BY DEF FlowOut, ja_flow_set_status, ja_set_enderr, ja_set_status_job, Entered
  <1>4. st \in [Job -> JobStatus]
    BY DEF EnteredStatus, JobStatus, DB
  <1>5. /\ a.net_status = d.net_status /\ a.test_flag = d.test_flag
        /\ a.method_flag = d.method_flag /\ a.end_count = ec /\ a.status = st
        /\ a.abort_flag = d.abort_flag
    BY <1>2 DEF DB
  <1>6. /\ f.net_status = d.net_status /\ f.test_flag = d.test_flag
        /\ f.method_flag = d.method_flag /\ f.end_count = ec /\ f.abort_flag = d.abort_flag
        /\ \A k \in Job \ {j} : f.status[k] = st[k]
    <2> HIDE DEF st, ec, f
    <2>1. CASE f = a
      BY <1>5, <2>1
    <2>2. CASE f = [a EXCEPT !.status[j] = "ENDERR"]
      <3>1. a = [d EXCEPT !.status = st, !.end_count = ec]
        BY <1>2
      <3> HIDE DEF a
      <3> QED  BY <1>4, <1>5, <2>2, <3>1 DEF DB
    <2> QED  BY <1>3, <2>1, <2>2
  <1> QED  BY <1>1, <1>6

\* The type of flow an icon is left by: an IF icon by the outcome of its
\* condition, which in a test run is both.
LeavesBy(d, j, type) ==
  IF JobType[j] = "IF" /\ ~d.test_flag THEN type \in {"TRUE", "FALSE"} ELSE type = "NORMAL"

\* Two icons are never entered at once in a jobnet that has sub-jobnets.
LEMMA OneTarget ==
  ASSUME NEW d \in DB, NEW j \in Job, NEW type, LeavesBy(d, j, type), ~d.test_flag,
         SequentialParents, HasSubNet(NetOf[j]),
         NEW e \in Targets(j, type), NEW g \in Targets(j, type)
  PROVE  e = g
  BY DEF LeavesBy, SequentialParents, Targets, Follows

\* An icon ends and ja_flow enters the icons behind it: each of them counts one
\* branch more, the others count what they did, and a sub-jobnet that is reset
\* counts nothing.
LEMMA FlowCounts ==
  ASSUME JoinShape, NEW d \in DB, NEW e \in DB, NEW j \in Job, BranchesCounted(d),
         d.status[j] \notin {"BEGIN", "END"}, e.status[j] = "END", e.abort_flag = d.abort_flag,
         NEW E, NEW R, E = Entered(d, j, "NORMAL"),
         \A k \in R : k \in Job /\ k \notin E /\ k # j /\ NetOf[k] # NetOf[j],
         \A k \in R, l \in Job : NetOf[l] = NetOf[k] => l \in R,
         \A k \in Job \ {j} :
           e.status[k] = IF k \in E THEN EnteredStatus(k, CountUp(d.status[k], d.end_count[k]))
                         ELSE IF k \in R THEN "BEGIN" ELSE d.status[k],
         \A k \in Job :
           e.end_count[k] = IF k \in E THEN CountUp(d.status[k], d.end_count[k])
                            ELSE IF k \in R THEN 0 ELSE d.end_count[k]
  PROVE  BranchesCounted(e)
  <1>1. /\ Flow \subseteq [from : Job, to : Job, type : FlowType] /\ IsFiniteSet(Flow)
        /\ \A f \in Flow : NetOf[f.from] = NetOf[f.to]
        /\ \A f, g \in Flow : f.from = g.from /\ f.to = g.to => f = g
    BY NetShape DEF NetShape, JoinShape
  <1>2. ASSUME NEW f \in Flow, f.from = j
        PROVE  f.to \in E /\ f.to \in Job \ {j} /\ d.status[f.to] = "BEGIN"
    <2>1. f.to \in Targets(j, "NORMAL") /\ f.to \in Job
      BY <1>1, <1>2 DEF Targets, Follows, FlowType
    <2>2. f \in Into(f.to) /\ f \notin Came(d, f.to)
      BY <1>2 DEF Into, Came
    <2>3. d.status[f.to] = "BEGIN"
      BY <2>1, <2>2 DEF BranchesCounted
    <2> QED  BY <2>1, <2>3 DEF Entered, MayEnter
  <1>3. ASSUME NEW k \in E
        PROVE  \E f \in Flow : f.from = j /\ f.to = k
    BY <1>3 DEF Entered, Targets, Follows
  <1>4. E \subseteq Job /\ j \notin E /\ j \notin R /\ \A k \in E : d.status[k] = "BEGIN"
    BY <1>2, <1>3
  <1>5. ASSUME NEW k \in E
        PROVE  e.status[k] \in {"BEGIN", "READY"}
    BY <1>4, <1>5 DEF EnteredStatus
  <1>6. ASSUME NEW f \in Flow, f.from # j, f.to \notin R
        PROVE  e.status[f.from] = "END" <=> d.status[f.from] = "END"
    <2>1. f.from \in Job \ {j} /\ f.from \notin R
      BY <1>1, <1>6
    <2>2. CASE f.from \in E
      BY <1>4, <1>5, <2>2
    <2>3. CASE f.from \notin E
      BY <2>1, <2>3
    <2> QED  BY <2>2, <2>3
  <1>7. \A k : IsFiniteSet(Into(k)) /\ IsFiniteSet(Came(d, k)) /\ Came(d, k) \subseteq Into(k)
    <2>1. \A k : Into(k) \subseteq Flow /\ Came(d, k) \subseteq Flow /\ Came(d, k) \subseteq Into(k)
      BY DEF Into, Came
    <2> QED  BY <1>1, <2>1, FS_Subset
  <1> SUFFICES ASSUME NEW k \in Job
               PROVE  /\ e.end_count[k] = Cardinality(Came(e, k))
                      /\ e.status[k] # "BEGIN" => Came(e, k) = Into(k)
                      /\ e.status[k] = "BEGIN" /\ Into(k) # {}
                           => Came(e, k) # Into(k) \/ e.abort_flag
    BY DEF BranchesCounted
  <1>8. /\ d.end_count[k] = Cardinality(Came(d, k))
        /\ d.status[k] # "BEGIN" => Came(d, k) = Into(k)
        /\ d.status[k] = "BEGIN" /\ Into(k) # {} => Came(d, k) # Into(k) \/ d.abort_flag
    BY DEF BranchesCounted
  <1>9. CASE k \in E
    <2>1. PICK f \in Flow : f.from = j /\ f.to = k
      BY <1>3, <1>9
    <2>2. f \notin Came(d, k) /\ Came(e, k) = Came(d, k) \cup {f}
      <3>1. k \notin R
        BY <1>9
      <3>2. \A g \in Into(k) : g = f \/ (g \in Came(e, k) <=> g \in Came(d, k))
        BY <1>1, <1>6, <2>1, <3>1 DEF Into, Came
      <3>3. f \in Came(e, k) /\ f \notin Came(d, k)
        BY <2>1 DEF Into, Came
      <3>4. Came(e, k) \subseteq Into(k) /\ Came(d, k) \subseteq Into(k)
        BY DEF Came
      <3> QED  BY <3>2, <3>3, <3>4
    <2>3. /\ Cardinality(Came(e, k)) = Cardinality(Came(d, k)) + 1
          /\ IsFiniteSet(Came(e, k)) /\ Came(e, k) \subseteq Into(k)
      <3>1. Came(e, k) \subseteq Into(k)
        BY DEF Came
      <3> QED  BY <1>7, <2>2, <3>1, FS_AddElement
    <2>4. d.status[k] = "BEGIN" /\ e.end_count[k] = Cardinality(Came(e, k))
      BY <1>4, <1>8, <1>9, <2>3 DEF CountUp
    <2>5. /\ Cardinality(Into(k)) \in Nat /\ Cardinality(Came(e, k)) \in Nat
          /\ Cardinality(Came(e, k)) <= Cardinality(Into(k))
          /\ Cardinality(Came(e, k)) = Cardinality(Into(k)) => Came(e, k) = Into(k)
      BY <1>7, <2>3, FS_Subset, FS_CardinalityType
    <2>6. e.status[k] = IF Cardinality(Into(k)) <= Cardinality(Came(e, k)) THEN "READY" ELSE "BEGIN"
      <3>1. JobType[k] \notin {"IFEND", "L"} /\ get_boot_count(k) = Cardinality(Into(k))
        BY DEF JoinShape, get_boot_count, Into
      <3> QED  BY <1>4, <1>9, <2>4, <3>1 DEF EnteredStatus
    <2> QED  BY <2>4, <2>5, <2>6
  <1>10. CASE k \notin E /\ k \in R
    <2>1. \A f \in Into(k) : f.from \in R
      BY <1>1, <1>10 DEF Into
    <2>2. \A f \in Into(k) : e.status[f.from] = "BEGIN"
      BY <1>10, <2>1
    <2>3. Came(e, k) = {}
      BY <2>2 DEF Came
    <2>4. k # j /\ e.status[k] = "BEGIN" /\ e.end_count[k] = 0
      BY <1>10
    <2> QED  BY <2>3, <2>4, FS_EmptySet
  <1>11. CASE k \notin E /\ k \notin R
    <2>1. \A f \in Into(k) : f \in Flow /\ f.to = k /\ f.from # j
      BY <1>2, <1>11 DEF Into
    <2>2. Came(e, k) = Came(d, k)
      BY <1>6, <1>11, <2>1 DEF Came
    <2>3. e.end_count[k] = d.end_count[k] /\ (e.status[k] = "BEGIN" <=> d.status[k] = "BEGIN")
      BY <1>11
    <2> QED  BY <1>8, <2>2, <2>3
  <1> QED  BY <1>9, <1>10, <1>11

\* An icon that has run is left: ja_flow enters the icons behind it and sets it
\* to its last status.
LEMMA FlowOutQuiet ==
  ASSUME NEW d \in DB, NEW j \in Job, NEW type, SequentialParents, TableInv(d),
         JobnetRunning(d, j), Due(d, j), SubIdle(d, j), LeavesBy(d, j, type),
         NEW s \in {"END", "RUNERR"}, s = "RUNERR" => j \in Continue
  PROVE  /\ QuietCall(d, ja_set_status_job(FlowOut(d, j, type), j, s), j)
         /\ ja_set_status_job(FlowOut(d, j, type), j, s).status[j] = s
  <1> DEFINE f == FlowOut(d, j, type)
             E == Entered(d, j, type)
             R == ResetBy(d, j, type)
             e == ja_set_status_job(f, j, s)
             to(k) == EnteredStatus(k, CountUp(d.status[k], d.end_count[k]))
             ec(k) == IF k \in E THEN CountUp(d.status[k], d.end_count[k])
                      ELSE IF k \in R THEN 0 ELSE d.end_count[k]
  <1>1. /\ f \in DB /\ f.net_status = d.net_status /\ f.test_flag = d.test_flag
        /\ f.method_flag = d.method_flag /\ f.abort_flag = d.abort_flag
        /\ \A k \in Job \ {j} : f.status[k] = IF k \in E THEN to(k)
                                              ELSE IF k \in R THEN "BEGIN" ELSE d.status[k]
        /\ \A k \in Job : f.end_count[k] = ec(k)
    BY FlowOutEffect
  <1> HIDE DEF f
  <1>2. /\ e \in DB /\ e.net_status = d.net_status /\ e.test_flag = d.test_flag
        /\ e.method_flag = d.method_flag /\ e.status[j] = s /\ e.abort_flag = d.abort_flag
        /\ \A k \in Job \ {j} : e.status[k] = IF k \in E THEN to(k)
                                              ELSE IF k \in R THEN "BEGIN" ELSE d.status[k]
        /\ \A k \in Job : e.end_count[k] = ec(k)
    BY <1>1 DEF ja_set_status_job, DB, JobStatus
  <1>3. /\ NetOf \in [Job -> Net] /\ JobnetIcon \subseteq Job /\ Continue \cap JobnetIcon = {}
        /\ \A i \in JobnetIcon : LinkNet[i] # NetOf[i]
    BY NetShape DEF NetShape, JobnetIcon
  <1>4. /\ d.net_status[NetOf[j]] \in {"RUN", "RUNERR"} /\ ~Settled(d, j)
    BY DEF JobnetRunning, Due, Broken
  <1>5. \A k \in E : /\ k \in Job /\ NetOf[k] = NetOf[j] /\ k \in Targets(j, type)
                     /\ d.status[k] \in {"BEGIN", "END", "RUNERR"}
                     /\ d.status[k] # "BEGIN" => ~d.test_flag
                     /\ to(k) \in {"BEGIN", "READY"}
    BY TargetsInNet DEF Entered, MayEnter, EnteredStatus
  <1>6. \A k \in E : SubIdle(d, k)
    <2> SUFFICES ASSUME NEW k \in E, k \in JobnetIcon
                 PROVE  d.net_status[LinkNet[k]] \in {"BEGIN", "END"}
      BY DEF SubIdle
    <2>1. CASE d.status[k] \in {"BEGIN", "END"}
      BY <2>1 DEF TableInv, IconShowsNet
    <2>2. CASE d.status[k] = "RUNERR"
      <3>1. ~Settled(d, k) /\ ~d.test_flag /\ HasSubNet(NetOf[k])
        BY <1>3, <1>5, <2>2 DEF Settled, HasSubNet
      <3>2. k = j
        BY <1>4, <1>5, <3>1 DEF TableInv, OneUnderWay
      <3> QED  BY <3>2 DEF SubIdle
    <2> QED  BY <1>5, <2>1, <2>2
  <1>7. \A k \in R : \E i \in E \cap JobnetIcon : k \in JobsOf(LinkNet[i])
    BY <1>5 DEF ResetBy, Resets, JobnetIcon
  <1>8. \A k \in R : /\ k \in Job /\ k \notin E /\ k # j /\ Settled(d, k)
                     /\ d.net_status[NetOf[k]] \in {"BEGIN", "END"}
    BY <1>4, <1>5, <1>6, <1>7
    DEF JobsOf, SubIdle, TableInv, EndedSettled, StartsPristine, Pristine, Settled
  <1>9. \A i \in E \cap JobnetIcon : to(i) = "READY" => JobsOf(LinkNet[i]) \subseteq R
    BY DEF ResetBy, Resets, JobnetIcon
  <1>9a. \A k \in R, l \in Job : NetOf[l] = NetOf[k] => l \in R
    BY DEF ResetBy, Resets, JobsOf
  <1>9b. ASSUME JoinShape
         PROVE  BranchesCounted(e)
    <2>1. s = "END" /\ type = "NORMAL" /\ d.status[j] \notin {"BEGIN", "END"} /\ BranchesCounted(d)
      BY <1>9b DEF JoinShape, LeavesBy, Due, TableInv
    <2>2. \A k \in R : NetOf[k] # NetOf[j]
      BY <1>4, <1>8
    <2> HIDE DEF E, R, e
    <2> QED  BY <1>2, <1>8, <1>9a, <1>9b, <2>1, <2>2, FlowCounts DEF E
  <1> HIDE DEF E, R, e, to
  <1>10. \A k \in R : Pristine(e, k)
    BY <1>2, <1>8 DEF Pristine
  <1>11. \A k \in Job : k # j /\ k \notin E /\ k \notin R
           => /\ Pristine(d, k) => Pristine(e, k)
              /\ Settled(d, k) => Settled(e, k)
              /\ Settled(e, k) => Settled(d, k)
    BY <1>2 DEF Pristine, Settled
  <1>12. EndedSettled(e) /\ StartsPristine(e)
    <2>1. ASSUME NEW k \in Job, d.net_status[NetOf[k]] \in {"BEGIN", "READY", "END"}
          PROVE  k # j /\ k \notin E
      BY <1>4, <1>5, <2>1
    <2>2. \A k \in R : Settled(e, k)
      BY <1>10 DEF Pristine, Settled
    <2> QED  BY <1>2, <1>10, <1>11, <2>1, <2>2 DEF TableInv, EndedSettled, StartsPristine
  <1>13. IconShowsNet(e)
    <2> SUFFICES ASSUME NEW i \in JobnetIcon, d.net_status[LinkNet[i]] \notin {"BEGIN", "END"}
                 PROVE  e.status[i] \in {"RUN", "RUNERR", "ENDERR"}
      BY <1>2 DEF IconShowsNet
    <2>1. i \in Job /\ i # j /\ i \notin E
      BY <1>3, <1>6 DEF SubIdle
    <2>2. d.status[i] \in {"RUN", "RUNERR", "ENDERR"}
      BY DEF TableInv, IconShowsNet
    <2>3. i \notin R
      BY <1>3, <1>8, <2>2 DEF Settled
    <2> QED  BY <1>2, <2>1, <2>2, <2>3
  <1>14. ReadyHasReset(e)
    <2> SUFFICES ASSUME NEW i \in JobnetIcon, e.status[i] = "READY", NEW k \in JobsOf(LinkNet[i])
                 PROVE  Pristine(e, k)
      BY DEF ReadyHasReset
    <2>1. i \in Job /\ k \in Job /\ NetOf[k] = LinkNet[i] /\ i # j
      BY <1>2, <1>3 DEF JobsOf
    <2>2. CASE i \in E
      BY <1>2, <1>9, <1>10, <2>1, <2>2
    <2>3. CASE i \notin E
      <3>1. d.status[i] = "READY" /\ Pristine(d, k)
        BY <1>2, <2>1, <2>3 DEF TableInv, ReadyHasReset
      <3>2. d.net_status[NetOf[k]] \in {"BEGIN", "END"}
        BY <2>1, <3>1 DEF TableInv, IconShowsNet
      <3>3. k # j /\ k \notin E
        BY <1>4, <1>5, <3>2
      <3> QED  BY <1>10, <1>11, <2>1, <3>1, <3>3
    <2> QED  BY <2>2, <2>3
  <1>15. OneUnderWay(e)
    <2> SUFFICES ASSUME ~d.test_flag, NEW k \in Job, NEW l \in Job, NetOf[k] = NetOf[l],
                        HasSubNet(NetOf[k]), d.net_status[NetOf[k]] # "ENDERR",
                        ~Settled(e, k), ~Settled(e, l)
                 PROVE  k = l
      BY <1>2 DEF OneUnderWay
    <2>1. Settled(e, j)
      BY <1>2 DEF Settled
    <2>2. k # j /\ l # j /\ k \notin R /\ l \notin R
      BY <1>10, <2>1 DEF Pristine, Settled
    <2>3. CASE k \in E /\ l \in E
      BY <1>5, <2>3, OneTarget
    <2>4. ASSUME NEW m \in {k, l}, m \notin E
          PROVE  k = l
      <3>1. ~Settled(d, m) /\ m \in Job /\ m # j
        BY <1>11, <2>2, <2>4
      <3>2. NetOf[m] # NetOf[j]
        BY <1>4, <3>1 DEF TableInv, OneUnderWay
      <3>3. k \notin E /\ l \notin E
        BY <1>5, <3>2
      <3>4. ~Settled(d, k) /\ ~Settled(d, l)
        BY <1>11, <2>2, <3>3
      <3>5. k = l
        BY <3>4 DEF TableInv, OneUnderWay
      <3> QED  BY <3>5
    <2> QED  BY <2>3, <2>4
  <1>16. AbortIsFinal(e)
    BY <1>2, <1>5 DEF TableInv, AbortIsFinal
  <1>17. \A k \in Job : k # j /\ d.status[k] \in {"RUN", "ENDERR", "ABORT"}
                          => e.status[k] = d.status[k]
    BY <1>2, <1>5, <1>8 DEF Settled
  <1>18. \A k \in Job : NetOf[k] # NetOf[j] => e.status[k] \in {d.status[k], "BEGIN"}
    BY <1>2, <1>5
  <1>19. \A k \in Job : k # j /\ Broken(d, k) => e.status[k] = d.status[k]
    BY <1>2, <1>4, <1>5, <1>8 DEF Broken
  <1> QED
    BY <1>2, <1>9b, <1>12, <1>13, <1>14, <1>15, <1>16, <1>17, <1>18, <1>19
    DEF QuietCall, TableInv, e, f

\* ja_flow is quiet, and fails the icon in a broken jobnet.
LEMMA FlowQuiet ==
  ASSUME NEW d \in DB, NEW j \in Job, NEW type, SequentialParents, TableInv(d),
         Due(d, j), SubIdle(d, j), LeavesBy(d, j, type)
  PROVE  /\ QuietCall(d, ja_flow(d, j, type), j)
         /\ Broken(d, j) => ja_flow(d, j, type).status[j] \in {"RUNERR", "ENDERR"}
  <1>1. CASE ~HasFlow(j)
    BY <1>1, SetQuiet DEF ja_flow, ja_set_enderr
  <1>2. CASE HasFlow(j) /\ ~JobnetRunning(d, j)
    BY <1>2, SetQuiet DEF ja_flow
  <1>3. CASE HasFlow(j) /\ JobnetRunning(d, j)
    BY <1>3, FlowOutQuiet DEF ja_flow, ja_set_end, JobnetRunning, Broken
  <1> QED  BY <1>1, <1>2, <1>3

\* ja_set_runerr is quiet, with and without the option to continue.
LEMMA RunerrQuiet ==
  ASSUME NEW d \in DB, NEW j \in Job, SequentialParents, TableInv(d), Due(d, j)
  PROVE  QuietCall(d, ja_set_runerr(d, j), j) /\ ja_set_runerr(d, j).status[j] = "RUNERR"
  <1>1. CASE ContinuesOn(j) /\ HasFlow(j) /\ JobnetRunning(d, j)
    <2>1. j \in Continue /\ JobType[j] = "JOB"
      BY <1>1, NetShape DEF ContinuesOn, NetShape
    <2>2. SubIdle(d, j) /\ LeavesBy(d, j, "NORMAL")
      BY <2>1 DEF SubIdle, JobnetIcon, LeavesBy
    <2> QED  BY <1>1, <2>1, <2>2, FlowOutQuiet DEF ja_set_runerr
  <1>2. CASE ~(ContinuesOn(j) /\ HasFlow(j) /\ JobnetRunning(d, j))
    <2>1. CASE ContinuesOn(j) /\ ~HasFlow(j)
      <3> DEFINE u == ja_set_enderr(d, j)
      <3>1. QuietCall(d, u, j) /\ u.status[j] = "ENDERR"
        BY SetQuiet DEF ja_set_enderr
      <3>2. u \in DB /\ TableInv(u) /\ Due(u, j)
        BY <3>1 DEF QuietCall, Due, Settled
      <3>3. ja_set_runerr(d, j) = ja_set_status_job(u, j, "RUNERR")
        BY <1>2, <2>1 DEF ja_set_runerr
      <3> HIDE DEF u
      <3> QED  BY <3>1, <3>2, <3>3, SetQuiet, QuietCallTransitive
    <2>2. CASE ~(ContinuesOn(j) /\ ~HasFlow(j))
      BY <1>2, <2>2, SetQuiet DEF ja_set_runerr
    <2> QED  BY <2>1, <2>2
  <1> QED  BY <1>1, <1>2

\* An icon that is ready is started, and treated in the same transaction.
LEMMA RunThenQuiet ==
  ASSUME NEW d \in DB, NEW j \in Job, SequentialParents, TableInv(d), d.status[j] = "READY"
  PROVE  /\ QuietCall(d, ja_set_run(d, j), j) /\ ja_set_run(d, j).status[j] = "RUN"
         /\ j \notin JobnetIcon => QuietCall(d, ja_set_runerr(ja_set_run(d, j), j), j)
         /\ \A type : LeavesBy(d, j, type) /\ j \notin JobnetIcon
              => QuietCall(d, ja_flow(ja_set_run(d, j), j, type), j)
         /\ j \notin JobnetIcon /\ (JoinShape => ~HasFlow(j))
              => QuietCall(d, ja_set_end(ja_set_run(d, j), j), j)
  <1> DEFINE u == ja_set_run(d, j)
  <1>1. QuietCall(d, u, j) /\ u.status[j] = "RUN"
    BY SetQuiet DEF ja_set_run, Due, Settled
  <1>2. u \in DB /\ TableInv(u) /\ Due(u, j) /\ u.test_flag = d.test_flag
    BY <1>1 DEF QuietCall, Due, Settled
  <1> HIDE DEF u
  <1>3. j \notin JobnetIcon => SubIdle(u, j)
    BY DEF SubIdle
  <1>4. QuietCall(d, ja_set_runerr(u, j), j)
    BY <1>1, <1>2, RunerrQuiet, QuietCallTransitive
  <1>5. ASSUME NEW type, LeavesBy(d, j, type), j \notin JobnetIcon
        PROVE  QuietCall(d, ja_flow(u, j, type), j)
    BY <1>1, <1>2, <1>3, <1>5, FlowQuiet, QuietCallTransitive DEF LeavesBy
  <1>6. j \notin JobnetIcon /\ (JoinShape => ~HasFlow(j)) => QuietCall(d, ja_set_end(u, j), j)
    BY <1>1, <1>2, <1>3, SetQuiet, QuietCallTransitive DEF ja_set_end
  <1> QED  BY <1>1, <1>4, <1>5, <1>6 DEF u

\* A change of columns the invariant does not look at is quiet.
LEMMA SameQuiet ==
  ASSUME NEW d, NEW e \in DB, NEW j, TableInv(d),
         e.status = d.status, e.end_count = d.end_count, e.net_status = d.net_status,
         e.test_flag = d.test_flag, d.abort_flag => e.abort_flag
  PROVE  /\ TableInv(e)
         /\ (\A k \in Job : e.method_flag[k] = "ABORT" => d.method_flag[k] = "ABORT")
              => QuietCall(d, e, j)
  <1>1. \A k \in Job : (Settled(e, k) <=> Settled(d, k)) /\ (Pristine(e, k) <=> Pristine(d, k))
    BY DEF Settled, Pristine
  <1>2. JobnetIcon \subseteq Job /\ \A n : JobsOf(n) \subseteq Job
    BY DEF JobnetIcon, JobsOf
  <1>3. JoinShape => BranchesCounted(e)
    BY NetShape, CountsKept DEF NetShape, TableInv
  <1>4. TableInv(e)
    BY <1>1, <1>2, <1>3 DEF TableInv, EndedSettled, StartsPristine, IconShowsNet, ReadyHasReset,
                            OneUnderWay, AbortIsFinal
  <1> QED  BY <1>4 DEF QuietCall

\* An icon that has failed is made ready again.
LEMMA RestartQuiet ==
  ASSUME NEW d \in DB, NEW e \in DB, NEW j \in Job \ JobnetIcon, TableInv(d), ~Settled(d, j),
         e.status = [d.status EXCEPT ![j] = "READY"], e.end_count = d.end_count,
         e.net_status = d.net_status, e.test_flag = d.test_flag,
         \A k \in Job : e.method_flag[k] = "ABORT" => d.method_flag[k] = "ABORT",
         d.status[j] = "RUNERR", d.abort_flag => e.abort_flag
  PROVE  QuietCall(d, e, j)
  <1>1. \A k \in Job : e.status[k] = IF k = j THEN "READY" ELSE d.status[k]
    BY DEF DB
  <1>2. \A k \in Job : (Settled(e, k) <=> Settled(d, k)) /\ (Pristine(e, k) <=> Pristine(d, k))
    BY <1>1 DEF Settled, Pristine
  <1>3. JobnetIcon \subseteq Job /\ \A n : JobsOf(n) \subseteq Job
    BY DEF JobnetIcon, JobsOf
  <1>4. JoinShape => BranchesCounted(e)
    <2>1. Flow \subseteq [from : Job, to : Job, type : FlowType]
      BY NetShape DEF NetShape
    <2>2. \A f \in Flow : e.status[f.from] = "END" <=> d.status[f.from] = "END"
      BY <1>1, <2>1
    <2> QED  BY <1>1, <2>1, <2>2, CountsKept DEF TableInv
  <1>5. TableInv(e)
    BY <1>1, <1>2, <1>3, <1>4
    DEF TableInv, EndedSettled, StartsPristine, IconShowsNet, ReadyHasReset, OneUnderWay, AbortIsFinal
  <1> QED  BY <1>1, <1>5 DEF QuietCall
-----------------------------------------------------------------------------
(* The steps of everyone but jajobnet.                                      *)

\* A step that makes one call for icon j, and leaves at most what is due of j to
\* jajob, to children and to the agent.
LEMMA CallStep ==
  ASSUME TypeOK, QuietState, NEW j \in Job, Due(db, j), QuietCall(db, db', j),
         UNCHANGED <<netq, renew>>,
         jajobq' \subseteq jajobq,
         \A r \in jajobq' : r.job = j /\ JobType[j] = "EXTJOB"
                              => db'.status[j] = "RUN" \/ GivenUp(db', j),
         \A c \in children' : c \in children \/ c.job = j,
         \A c \in children' : c.job = j =>
           /\ j \in AgentIcon /\ c.phase \notin {"copied", "flow"}
           /\ \/ GivenUp(db', j)
              \/ c = Fork(j, "RUN") /\ db'.status[j] = "RUN" /\ agent'[j] = "idle",
         \A k \in Job \ {j} : agent'[k] = agent[k],
         agent'[j] # "idle" => j \in AgentIcon /\ (db'.status[j] = "RUN" \/ GivenUp(db', j))
  PROVE  QuietState'
  <1>1. \A k \in Job \ {j} : GivenUp(db, k) => GivenUp(db', k)
    BY DEF QuietCall, GivenUp, Broken
  <1>2. \A k \in Job \ {j} : db.status[k] = "RUN" => db'.status[k] = "RUN"
    BY DEF QuietCall
  <1>3. /\ \A r \in jajobq : r.job \in Job
        /\ \A c \in children : c.job \in Job
        /\ \A r \in renew : r.net \in Net
    BY DEF TypeOK, JajobRow, Child, NetRow
  <1>4. TableInv(db') /\ NoSingleStop'
    BY DEF QuietCall, QuietState, NoSingleStop
  <1>5. JajobRows'
    BY <1>1, <1>2, <1>3 DEF QuietState, JajobRows
  <1>6. ChildrenReach'
    <2> SUFFICES ASSUME NEW c \in children'
                 PROVE  /\ c.job \in AgentIcon
                        /\ c.phase \notin {"copied", "flow"}
                        /\ \/ GivenUp(db', c.job)
                           \/ /\ c = Fork(c.job, "RUN")
                              /\ db'.status[c.job] = "RUN" /\ agent'[c.job] = "idle"
      BY DEF ChildrenReach
    <2>1. CASE c.job = j
      BY <2>1
    <2>2. CASE c.job # j
      <3>1. c \in children /\ c.job \in Job \ {j}
        BY <1>3, <2>2
      <3>2. /\ c.job \in AgentIcon /\ c.phase \notin {"copied", "flow"}
            /\ \/ GivenUp(db, c.job)
               \/ c = Fork(c.job, "RUN") /\ db.status[c.job] = "RUN" /\ agent[c.job] = "idle"
        BY <3>1 DEF QuietState, ChildrenReach
      <3> QED  BY <1>1, <1>2, <3>1, <3>2
    <2> QED  BY <2>1, <2>2
  <1>7. AgentsWork'
    BY <1>1, <1>2 DEF QuietState, AgentsWork
  <1>8. RowsFresh'
    <2>1. db'.net_status = db.net_status
      BY DEF QuietCall
    <2>2. ASSUME NEW r \in renew, r.status = "END", NEW k \in JobsOf(r.net)
          PROVE  Settled(db', k)
      <3>1. k \in Job /\ NetOf[k] = r.net /\ Settled(db, k) /\ db.net_status[r.net] # "ENDERR"
        BY <2>2 DEF QuietState, RowsFresh, JobsOf
      <3>2. NetOf[j] # r.net
        BY <2>2 DEF QuietState, RowsFresh, JobsOf, Due, Broken
      <3>3. db'.status[k] \in {db.status[k], "BEGIN"}
        BY <3>1, <3>2 DEF QuietCall
      <3> QED  BY <3>1, <3>3 DEF Settled
    <2> QED  BY <2>1, <2>2 DEF QuietState, RowsFresh
  <1> QED  BY <1>4, <1>5, <1>6, <1>7, <1>8 DEF QuietState

\* A step that leaves the tables and everyone's work alone.
LEMMA IdleStep ==
  ASSUME QuietState, UNCHANGED <<db, jajobq, netq, renew, children, agent>>
  PROVE  QuietState'
  BY DEF QuietState, NoSingleStop, JajobRows, ChildrenReach, AgentsWork, RowsFresh

\* jarun treats an icon that is ready, for which nobody works yet.
LEMMA ReadyStep ==
  ASSUME TypeOK, QuietState, NEW j \in Job, db.status[j] = "READY", QuietCall(db, db', j),
         UNCHANGED <<jajobq, netq, renew, agent>>,
         \/ children' = children
         \/ /\ children' = children \cup {Fork(j, "RUN")}
            /\ j \in AgentIcon /\ db'.status[j] = "RUN"
  PROVE  QuietState'
  <1>1. Due(db, j)
    BY DEF Due, Settled
  <1>2. /\ agent[j] = "idle" /\ \A c \in children : c.job # j
        /\ \A r \in jajobq : r.job = j => JobType[j] # "EXTJOB"
    BY DEF QuietState, AgentsWork, ChildrenReach, JajobRows, GivenUp
  <1>3. Fork(j, "RUN").job = j /\ Fork(j, "RUN").phase = "connect"
    BY DEF Fork
  <1>4. \A c \in children' : \/ c \in children
                             \/ c = Fork(j, "RUN") /\ j \in AgentIcon /\ db'.status[j] = "RUN"
    OBVIOUS
  <1>5. \A c \in children' : c \in children \/ c.job = j
    BY <1>3, <1>4
  <1>6. \A c \in children' : c.job = j =>
           /\ j \in AgentIcon /\ c.phase \notin {"copied", "flow"}
           /\ c = Fork(j, "RUN") /\ db'.status[j] = "RUN" /\ agent'[j] = "idle"
    BY <1>2, <1>3, <1>4
  <1> QED  BY <1>1, <1>2, <1>5, <1>6, CallStep

\* jarun_icon_jobnet: the sub-jobnet was reset when its icon was made ready.
LEMMA JobnetIconQuiet ==
  ASSUME SummaryInv, QuietState, SequentialParents, NEW r \in jarunq, jarun_icon_jobnet(r)
  PROVE  QuietState'
  <1> DEFINE j == r.job
             n == LinkNet[j]
             u == ja_set_run(db, j)
  <1>1. /\ db \in DB /\ j \in Job /\ j \in JobnetIcon /\ db.status[j] = "READY" /\ TableInv(db)
        /\ db' = ja_set_status_jobnet(u, n, "READY")
        /\ UNCHANGED <<jajobq, netq, renew, children, agent>>
    BY DEF jarun_icon_jobnet, jarun_normal, Jarun, StillReady, SummaryInv, TypeOK, JarunRow, JobnetIcon,
           QuietState, jajobVars, jajobnetVars
  <1>2. n \in Net /\ n # NetOf[j] /\ NetOf \in [Job -> Net]
    BY <1>1, NetShape DEF NetShape
  <1>3. db.net_status[n] \in {"BEGIN", "END"} /\ \A k \in JobsOf(n) : Pristine(db, k)
    BY <1>1 DEF TableInv, IconShowsNet, ReadyHasReset
  <1>4. /\ db'.end_count = db.end_count /\ db'.method_flag = db.method_flag
        /\ db'.test_flag = db.test_flag /\ db'.abort_flag = db.abort_flag
        /\ \A k \in Job : db'.status[k] = IF k = j THEN "RUN" ELSE db.status[k]
        /\ \A m \in Net : db'.net_status[m] = IF m = n THEN "READY" ELSE db.net_status[m]
    BY <1>1, <1>2 DEF ja_set_run, ja_set_status_job, ja_set_status_jobnet, DB
  <1> HIDE DEF j, n
  <1>5. \A k \in Job : /\ Settled(db', k) <=> Settled(db, k)
                       /\ Pristine(db', k) <=> Pristine(db, k)
    BY <1>1, <1>4 DEF Settled, Pristine
  <1>6. \A k \in Job : GivenUp(db, k) => GivenUp(db', k)
    BY <1>2, <1>3, <1>4 DEF GivenUp, Broken
  <1>7. /\ \A k \in Job : db.status[k] = "RUN" => db'.status[k] = "RUN"
        /\ JobnetIcon \subseteq Job /\ \A m : JobsOf(m) \subseteq Job
        /\ \A i \in JobnetIcon : LinkNet[i] \in Net /\ (LinkNet[i] = n => i = j)
    BY <1>1, <1>4, NetShape DEF NetShape, JobnetIcon, JobsOf, j, n
  <1>8. EndedSettled(db') /\ AbortIsFinal(db')
    BY <1>1, <1>2, <1>3, <1>4, <1>5 DEF TableInv, EndedSettled, AbortIsFinal
  <1>9. StartsPristine(db')
    BY <1>1, <1>2, <1>3, <1>4, <1>5 DEF TableInv, StartsPristine, JobsOf
  <1>10. IconShowsNet(db')
    BY <1>1, <1>4, <1>7 DEF TableInv, IconShowsNet
  <1>11. ReadyHasReset(db')
    BY <1>1, <1>4, <1>5, <1>7 DEF TableInv, ReadyHasReset
  <1>12. OneUnderWay(db')
    <2>1. \A k \in JobsOf(n) : Settled(db', k)
      BY <1>3, <1>5, <1>7 DEF Pristine, Settled
    <2>2. \A k \in Job : ~Settled(db', k) => db'.net_status[NetOf[k]] = db.net_status[NetOf[k]]
      BY <1>2, <1>4, <2>1 DEF JobsOf
    <2> QED  BY <1>1, <1>4, <1>5, <2>2 DEF TableInv, OneUnderWay
  <1>13. NoSingleStop' /\ AgentsWork'
    BY <1>1, <1>4, <1>6, <1>7 DEF QuietState, NoSingleStop, AgentsWork
  <1>14. JajobRows' /\ ChildrenReach'
    <2>1. (\A q \in jajobq : q.job \in Job) /\ \A c \in children : c.job \in Job
      BY DEF SummaryInv, TypeOK, JajobRow, Child
    <2> QED  BY <1>1, <1>6, <1>7, <2>1 DEF QuietState, JajobRows, ChildrenReach
  <1>15. RowsFresh'
    <2>1. /\ \A q \in netq : q.net \in Net /\ q.net # n
          /\ \A q \in renew : q.net \in Net /\ q.net # n
      BY <1>3 DEF SummaryInv, JajobnetRows, TypeOK, NetRow, QuietState, RowsFresh
    <2> QED  BY <1>1, <1>4, <1>5, <1>7, <2>1 DEF QuietState, RowsFresh
  <1>16. JoinShape => BranchesCounted(db')
    <2>1. Flow \subseteq [from : Job, to : Job, type : FlowType]
      BY NetShape DEF NetShape
    <2>2. \A f \in Flow : db'.status[f.from] = "END" <=> db.status[f.from] = "END"
      BY <1>1, <1>4, <2>1
    <2> QED  BY <1>1, <1>4, <2>1, <2>2, CountsKept DEF TableInv
  <1> QED
    BY <1>8, <1>9, <1>10, <1>11, <1>12, <1>13, <1>14, <1>15, <1>16 DEF QuietState, TableInv

\* Every step of jarun keeps the invariant.
LEMMA JarunQuiet ==
  ASSUME SummaryInv, QuietShape, QuietState, JarunNext
  PROVE  QuietState'
  <1>1. TypeOK /\ db \in DB /\ SequentialParents /\ TableInv(db)
    BY DEF SummaryInv, TypeOK, QuietShape, QuietState
  <1>2. CASE JarunSelect
    BY <1>2, IdleStep DEF JarunSelect, jajobVars, jajobnetVars
  <1>3. ASSUME NEW r \in jarunq, JarunPass(r) \/ JarunHostLocked(r)
        PROVE  QuietState'
    BY <1>3, IdleStep DEF JarunPass, JarunHostLocked, jarun_normal, Jarun, jajobVars, jajobnetVars
  <1>4. ASSUME NEW r \in jarunq, jarun_icon_jobnet(r)
        PROVE  QuietState'
    BY <1>1, <1>4, JobnetIconQuiet
  <1>5. ASSUME NEW r \in jarunq, Jarun(r), StillReady(r), QuietCall(db, db', r.job),
               \/ children' = children
               \/ /\ children' = children \cup {Fork(r.job, "RUN")}
                  /\ r.job \in AgentIcon /\ db'.status[r.job] = "RUN"
        PROVE  QuietState'
    <2>1. r.job \in Job
      BY <1>1 DEF TypeOK, JarunRow
    <2>2. db.status[r.job] = "READY" /\ UNCHANGED <<jajobq, netq, renew, agent>>
      BY <1>5 DEF Jarun, StillReady, jajobVars, jajobnetVars
    <2> QED  BY <1>1, <1>5, <2>1, <2>2, ReadyStep
  <1>6. ASSUME NEW r \in jarunq, jarun_skip(r)
        PROVE  QuietState'
    <2>1. r.job \in Job /\ db.status[r.job] = "READY"
      BY <1>1, <1>6 DEF TypeOK, JarunRow, jarun_skip, StillReady
    <2>2. Due(db, r.job) /\ SubIdle(db, r.job)
      BY <1>1, <2>1 DEF Due, Settled, SubIdle, TableInv, IconShowsNet
    <2>3. JobType[r.job] \notin Unskippable => LeavesBy(db, r.job, "NORMAL")
      BY DEF Unskippable, LeavesBy
    <2>4. QuietCall(db, db', r.job)
      BY <1>1, <1>6, <2>1, <2>2, <2>3, RunerrQuiet, FlowQuiet DEF jarun_skip
    <2> QED  BY <1>5, <1>6, <2>4 DEF jarun_skip
  <1>7. ASSUME NEW r \in jarunq,
               \/ jarun_icon_common(r) \/ jarun_icon_if(r) \/ jarun_icon_end(r)
               \/ jarun_icon_extjob(r) \/ jarun_icon_release(r) \/ JarunIconFails(r)
        PROVE  QuietState'
    <2> DEFINE j == r.job
               u == ja_set_run(db, j)
    <2>1. /\ j \in Job /\ db.status[j] = "READY" /\ Jarun(r) /\ StillReady(r)
          /\ children' = children /\ JobType[j] # "JOBNET" /\ j \notin JobnetIcon
      BY <1>1, <1>7
      DEF TypeOK, JarunRow, jarun_normal, StillReady, jarun_icon_common, jarun_icon_if,
          jarun_icon_end, jarun_icon_extjob, jarun_icon_release, JarunIconFails, CommonIcon,
          LocalIcon, JobnetIcon
    <2>2. JobType[j] # "IF" => LeavesBy(db, j, "NORMAL")
      BY DEF LeavesBy
    <2>3. /\ QuietCall(db, u, j) /\ u.status[j] = "RUN" /\ QuietCall(db, ja_set_runerr(u, j), j)
          /\ \A type : LeavesBy(db, j, type) => QuietCall(db, ja_flow(u, j, type), j)
          /\ (JoinShape => ~HasFlow(j)) => QuietCall(db, ja_set_end(u, j), j)
      BY <1>1, <2>1, RunThenQuiet
    <2>4. QuietCall(db, db', j)
      <3> HIDE DEF j
      <3>1. CASE jarun_icon_common(r) \/ JarunIconFails(r)
        BY <2>2, <2>3, <3>1
        DEF jarun_icon_common, JarunIconFails, CommonIcon, LocalIcon, j
      <3>1a. CASE jarun_icon_end(r)
        <4>1. JobType[j] = "END" /\ db' = ja_set_end(u, j)
          BY <3>1a DEF jarun_icon_end, j
        <4> QED  BY <2>3, <4>1 DEF JoinShape, HasFlow
      <3>2. CASE jarun_icon_if(r)
        <4>1. PICK type \in IF db.test_flag THEN {"NORMAL"} ELSE {"TRUE", "FALSE"} :
                db' = ja_flow(u, j, type)
          BY <3>2 DEF jarun_icon_if, j
        <4>2. LeavesBy(db, j, type)
          BY <3>2, <4>1 DEF LeavesBy, jarun_icon_if, j
        <4> QED  BY <2>3, <4>1, <4>2
      <3>3. CASE jarun_icon_extjob(r)
        BY <2>2, <2>3, <3>3 DEF jarun_icon_extjob, j
      <3>4. CASE jarun_icon_release(r)
        <4> DEFINE h == ReleaseOf[j]
                   v == [u EXCEPT !.method_flag[h] = "NORMAL"]
        <4>1. db' = ja_flow(v, j, "NORMAL") \/ db' = ja_set_runerr(u, j)
          BY <3>4 DEF jarun_icon_release, j
        <4>2. LeavesBy(db, j, "NORMAL")
          BY <2>2, <3>4 DEF jarun_icon_release, j
        <4>3. u \in DB /\ TableInv(u) /\ u.test_flag = db.test_flag
          BY <2>3 DEF QuietCall
        <4> HIDE DEF u
        <4>4. /\ v \in DB /\ v.status = u.status /\ v.end_count = u.end_count
              /\ v.net_status = u.net_status /\ v.test_flag = u.test_flag
              /\ v.abort_flag = u.abort_flag
              /\ \A k \in Job : v.method_flag[k] = "ABORT" => u.method_flag[k] = "ABORT"
          BY <4>3 DEF DB, Method
        <4>5. QuietCall(u, v, j)
          BY <4>3, <4>4, SameQuiet
        <4>6. TableInv(v) /\ Due(v, j) /\ SubIdle(v, j) /\ LeavesBy(v, j, "NORMAL")
          BY <2>1, <2>3, <4>2, <4>3, <4>4, <4>5 DEF QuietCall, Due, Settled, SubIdle, LeavesBy
        <4>7. QuietCall(v, ja_flow(v, j, "NORMAL"), j)
          <5> HIDE DEF v
          <5> QED  BY <1>1, <2>1, <4>4, <4>6, FlowQuiet
        <4>8. QuietCall(db, ja_flow(v, j, "NORMAL"), j)
          <5> HIDE DEF v
          <5> QED  BY <2>3, <4>5, <4>7, QuietCallTransitive
        <4> QED  BY <2>3, <4>1, <4>8
      <3> QED  BY <1>7, <3>1, <3>1a, <3>2, <3>3, <3>4
    <2> QED  BY <1>5, <2>1, <2>4
  <1>8. ASSUME NEW r \in jarunq, jarun_icon_remote(r) \/ jarun_icon_reboot(r)
        PROVE  QuietState'
    <2> DEFINE j == r.job
               u == ja_set_run(db, j)
    <2>1. /\ j \in Job /\ db.status[j] = "READY" /\ Jarun(r) /\ StillReady(r)
          /\ children' = children \cup {Fork(j, "RUN")} /\ j \in AgentIcon
          /\ db' = u \/ db' = ja_host_lock(u, j)
      BY <1>1, <1>8
      DEF TypeOK, JarunRow, jarun_normal, StillReady, jarun_icon_remote, jarun_icon_reboot,
          RemoteIcon, AgentIcon, QuietShape
    <2>2. QuietCall(db, u, j) /\ u.status[j] = "RUN"
      BY <1>1, <2>1, RunThenQuiet
    <2> HIDE DEF u
    <2>3. QuietCall(u, ja_host_lock(u, j), j) /\ ja_host_lock(u, j).status[j] = "RUN"
      <3>1. u \in DB /\ TableInv(u)
        BY <2>2 DEF QuietCall
      <3>2. ja_host_lock(u, j) \in DB
        BY <2>1, <3>1, HostGood DEF GoodCall
      <3> QED  BY <2>2, <3>1, <3>2, SameQuiet DEF ja_host_lock, DB
    <2>4. QuietCall(db, db', j) /\ db'.status[j] = "RUN"
      BY <2>1, <2>2, <2>3, QuietCallTransitive
    <2> QED  BY <1>5, <2>1, <2>4
  <1> QED  BY <1>2, <1>3, <1>4, <1>6, <1>7, <1>8 DEF JarunNext

\* A child has something to do for its icon.
LEMMA ChildDue ==
  ASSUME SummaryInv, QuietState, NEW c \in children
  PROVE  /\ c.job \in Job /\ c.job \in AgentIcon /\ JobType[c.job] # "EXTJOB"
         /\ JobType[c.job] # "JOBNET" /\ Due(db, c.job) /\ c.phase \notin {"copied", "flow"}
         /\ GivenUp(db, c.job) \/ (c.phase = "connect" /\ c.method = "RUN" /\ c = Fork(c.job, "RUN")
                                    /\ db.status[c.job] = "RUN" /\ agent[c.job] = "idle")
  <1>1. c.job \in Job
    BY DEF SummaryInv, TypeOK, Child
  <1>2. \A j : Fork(j, "RUN").phase = "connect" /\ Fork(j, "RUN").method = "RUN"
    BY DEF Fork
  <1>3. /\ c.job \in AgentIcon /\ c.phase \notin {"copied", "flow"}
        /\ \/ GivenUp(db, c.job)
           \/ c = Fork(c.job, "RUN") /\ db.status[c.job] = "RUN" /\ agent[c.job] = "idle"
    BY DEF QuietState, ChildrenReach
  <1> QED  BY <1>1, <1>2, <1>3 DEF AgentIcon, Due, Settled, GivenUp

\* Every step of a child keeps the invariant, unless a telegram is lost: in a
\* jobnet that is not given up it finds the agent idle, and reports nothing.
LEMMA ChildQuiet ==
  ASSUME SummaryInv, QuietShape, QuietState, ChildNext, faults = 0, faults' = 0
  PROVE  QuietState'
  <1>1. TypeOK /\ db \in DB /\ SequentialParents /\ TableInv(db)
    BY DEF SummaryInv, TypeOK, QuietShape, QuietState
  <1>2. PICK c \in children :
            \/ ChildUnreached(c) \/ ChildDeliver(c) \/ ChildCopy(c)
            \/ ChildUnlock(c) \/ ChildRunerr(c) \/ ChildFlow(c) \/ ChildDone(c)
            \/ \E e \in c.todo : ChildRead(c, e)
            \/ \E g \in c.got : ChildWrite(c, g)
    BY DEF ChildNext
  <1> DEFINE j == c.job
  <1>3. /\ j \in Job /\ j \in AgentIcon /\ JobType[j] # "EXTJOB"
        /\ JobType[j] # "JOBNET" /\ Due(db, j) /\ c.phase \notin {"copied", "flow"}
        /\ GivenUp(db, j) \/ (c.phase = "connect" /\ c.method = "RUN" /\ c = Fork(j, "RUN")
                               /\ db.status[j] = "RUN" /\ agent[j] = "idle")
    BY ChildDue
  <1>4. ChildDeliver(c) \/ ChildUnlock(c) \/ ChildRunerr(c)
    <2>1. ~Fault
      BY DEF Fault
    <2> QED
      BY <1>2, <1>3, <2>1
      DEF ChildUnreached, ChildCopy, ChildFlow, ChildDone, ChildRead, ChildWrite, QuietShape
  <1>5. UNCHANGED <<jajobq, netq, renew>>
    BY <1>4 DEF ChildDeliver, ChildUnlock, ChildRunerr, ChildStep, jajobVars, jajobnetVars
  <1>6. QuietCall(db, db, j)
    BY <1>1, SameQuiet
  <1>7. \A ph : [c EXCEPT !.phase = ph].job = j /\ [c EXCEPT !.phase = ph].phase = ph
    BY <1>1 DEF TypeOK, Child
  <1>8. CASE ~GivenUp(db, j)
    <2>1. Accepts(c)
      BY <1>3, <1>8 DEF Accepts
    <2>2. ChildDeliver(c) /\ Exit(c)
      BY <1>3, <1>4, <1>8, <2>1 DEF ChildDeliver, ChildUnlock, ChildRunerr, Fault
    <2>3. agent' = [agent EXCEPT ![j] = "begin"] /\ db' = db
      BY <1>3, <1>8, <2>1, <2>2 DEF ChildDeliver
    <2>4. \A d \in children' : d \in children /\ d.job # j
      <3>1. \A d \in children : d.job = j => d = c
        BY <1>3, <1>8 DEF QuietState, ChildrenReach
      <3> QED  BY <2>2, <3>1 DEF Exit
    <2>5. \A k \in Job \ {j} : agent'[k] = agent[k]
      BY <1>1, <2>3 DEF TypeOK
    <2> QED  BY <1>1, <1>3, <1>5, <1>6, <1>8, <2>3, <2>4, <2>5, CallStep
  <1>9. CASE GivenUp(db, j)
    <2>1. QuietCall(db, db', j) /\ db'.status[j] \in {db.status[j], "RUNERR"}
      <3>1. CASE ChildDeliver(c)
        BY <1>6, <3>1 DEF ChildDeliver
      <3>2. CASE ChildUnlock(c)
        <4>1. ja_host_unlock(db, j) \in DB
          BY <1>1, <1>3, HostGood DEF GoodCall
        <4> QED  BY <1>1, <3>2, <4>1, SameQuiet DEF ChildUnlock, ja_host_unlock, DB
      <3>3. CASE ChildRunerr(c)
        <4>1. ~JobnetRunning(db, j)
          BY <1>9 DEF JobnetRunning, GivenUp, Broken
        <4>2. db' = db \/ db' = ja_set_runerr(db, j)
          BY <3>3, <4>1 DEF ChildRunerr, StartFlow
        <4> QED  BY <1>1, <1>3, <1>6, <4>2, RunerrQuiet
      <3> QED  BY <1>4, <3>1, <3>2, <3>3
    <2>2. \A d \in children' : d \in children \/ (d.job = j /\ d.phase \in {"ng", "unlocked"})
      <3>1. ~StartFlow(c, "RUNERR")
        BY <1>9 DEF StartFlow, JobnetRunning, GivenUp, Broken
      <3>2. Exit(c) \/ \E ph \in {"ng", "unlocked"} : GoOn(c, [c EXCEPT !.phase = ph])
        BY <1>4, <3>1 DEF ChildDeliver, ChildUnlock, ChildRunerr
      <3> QED  BY <1>7, <3>2 DEF Exit, GoOn
    <2>3. \A k \in Job \ {j} : agent'[k] = agent[k]
      BY <1>1, <1>3, <1>4 DEF TypeOK, ChildDeliver, ChildUnlock, ChildRunerr
    <2>4. \A d \in children : d.phase \notin {"copied", "flow"}
      BY DEF QuietState, ChildrenReach
    <2>5. GivenUp(db', j)
      BY <1>9, <2>1 DEF QuietCall, GivenUp, Broken
    <2> QED  BY <1>1, <1>3, <1>5, <2>1, <2>2, <2>3, <2>4, <2>5, CallStep
  <1> QED  BY <1>8, <1>9

\* Every step of an agent keeps the invariant: its result finds the icon RUN.
LEMMA AgentQuiet ==
  ASSUME SummaryInv, QuietShape, QuietState, NEW j \in Job, AgentNext(j), faults = 0, faults' = 0
  PROVE  QuietState'
  <1>1. TypeOK /\ db \in DB /\ SequentialParents /\ TableInv(db) /\ agent \in [Job -> AgentState]
    BY DEF SummaryInv, TypeOK, QuietShape, QuietState
  <1>2. /\ agent[j] # "idle" /\ UNCHANGED <<jajobq, netq, renew, children>>
        /\ \E s : agent' = [agent EXCEPT ![j] = s]
    BY <1>1 DEF AgentNext, AgentRun, AgentEnd, AgentSend, AgentGivesUp, AgentStep, jajobVars,
           jajobnetVars, Fault
  <1>3. /\ j \in AgentIcon /\ JobType[j] \notin {"EXTJOB", "JOBNET", "IF"} /\ Due(db, j)
        /\ db.status[j] = "RUN" \/ GivenUp(db, j)
    BY <1>2 DEF QuietState, AgentsWork, AgentIcon, Due, Settled, GivenUp
  <1>4. \A c \in children' : /\ c \in children /\ c.phase \notin {"copied", "flow"}
                             /\ c.job = j => GivenUp(db, j)
    BY <1>2 DEF QuietState, ChildrenReach
  <1>5. /\ QuietCall(db, db', j)
        /\ GivenUp(db, j) => db'.status[j] \in {db.status[j], "RUNERR", "ENDERR"}
    <2>1. CASE db' = db
      BY <1>1, <2>1, SameQuiet
    <2>2. CASE AgentSend(j)
      <3> DEFINE u == Unlocked(db, j)
      <3>1. u \in DB
        BY <1>1, HostGood DEF Unlocked, GoodCall
      <3>2. /\ u.status = db.status /\ u.end_count = db.end_count /\ u.net_status = db.net_status
            /\ u.test_flag = db.test_flag /\ u.method_flag = db.method_flag
            /\ u.abort_flag = db.abort_flag
        BY <1>1 DEF Unlocked, ja_host_unlock, DB
      <3>3. db' = db \/ db' = ja_flow(u, j, "NORMAL") \/ db' = ja_set_runerr(u, j)
        BY <2>2 DEF AgentSend, jatrap_jobresult
      <3> HIDE DEF u
      <3>4. QuietCall(db, u, j)
        BY <1>1, <3>1, <3>2, SameQuiet
      <3>5. TableInv(u) /\ Due(u, j) /\ SubIdle(u, j) /\ LeavesBy(u, j, "NORMAL")
        BY <1>3, <3>2, <3>4 DEF QuietCall, Due, Settled, Broken, SubIdle, JobnetIcon, LeavesBy
      <3>6. /\ QuietCall(u, ja_flow(u, j, "NORMAL"), j) /\ QuietCall(u, ja_set_runerr(u, j), j)
            /\ Broken(u, j) => ja_flow(u, j, "NORMAL").status[j] \in {"RUNERR", "ENDERR"}
            /\ ja_set_runerr(u, j).status[j] = "RUNERR"
        BY <1>1, <3>1, <3>5, FlowQuiet, RunerrQuiet
      <3>7. GivenUp(db, j) => Broken(u, j)
        BY <3>2 DEF GivenUp, Broken
      <3> QED  BY <2>1, <3>3, <3>4, <3>6, <3>7, QuietCallTransitive
    <2> QED  BY <2>1, <2>2 DEF AgentNext, AgentRun, AgentEnd, AgentGivesUp
  <1>5a. GivenUp(db, j) => GivenUp(db', j)
    BY <1>5 DEF QuietCall, GivenUp, Broken
  <1>6. agent'[j] # "idle" => db'.status[j] = "RUN" \/ GivenUp(db', j)
    <2>1. CASE AgentSend(j)
      BY <1>1, <2>1 DEF AgentSend, Fault
    <2>2. CASE ~AgentSend(j)
      BY <1>3, <1>5a, <2>2 DEF AgentNext, AgentRun, AgentEnd, AgentGivesUp
    <2> QED  BY <2>1, <2>2
  <1>7. \A k \in Job \ {j} : agent'[k] = agent[k]
    BY <1>1, <1>2
  <1> QED  BY <1>1, <1>2, <1>3, <1>4, <1>5, <1>5a, <1>6, <1>7, CallStep

\* Every step of jajob keeps the invariant: no stop is asked for, and the row of
\* an EXTJOB icon is the only one and is not stale.
LEMMA JajobQuiet ==
  ASSUME SummaryInv, QuietShape, QuietState, JajobNext
  PROVE  QuietState'
  <1>1. TypeOK /\ db \in DB /\ SequentialParents /\ TableInv(db) /\ NoSingleStop
    BY DEF SummaryInv, TypeOK, QuietShape, QuietState
  <1>2. CASE JajobSelect
    <2>1. /\ UNCHANGED <<db, netq, renew, children, agent>>
          /\ \A r \in jajobq' : r.method # "ABORT" /\ db.status[r.job] = "RUN"
          /\ \A r, q \in jajobq' : r.job = q.job => r = q
      BY <1>1, <1>2 DEF JajobSelect, jajobnetVars, NoSingleStop
    <2> QED
      BY <2>1 DEF QuietState, NoSingleStop, JajobRows, ChildrenReach, AgentsWork, RowsFresh
  <1>3. ASSUME NEW r \in jajobq,
               \/ jajob_icon_job(r) \/ jajob_icon_reboot(r) \/ jajob_icon_fwait(r)
               \/ jajob_icon_extjob_kill(r) \/ ExtjobWaits(r) \/ jajob_icon_extjob(r)
        PROVE  QuietState'
    <2> DEFINE j == r.job
    <2>1. /\ j \in Job /\ r.method # "ABORT" /\ jajobq' = jajobq \ {r}
          /\ UNCHANGED <<netq, renew, agent>>
      BY <1>1, <1>3
      DEF TypeOK, JajobRow, NoSingleStop, jajob_icon_job, jajob_icon_reboot, jajob_icon_fwait,
          jajob_icon_extjob_kill, ExtjobWaits, jajob_icon_extjob, Jajob, jajobnetVars
    <2>2. children' = children
      BY <1>3, <2>1
      DEF jajob_icon_job, jajob_icon_reboot, jajob_icon_fwait, jajob_icon_extjob_kill,
          ExtjobWaits, jajob_icon_extjob, StopOrTimeout
    <2>3. CASE jajob_icon_extjob(r)
      <3>1. /\ JobType[j] = "EXTJOB" /\ j \notin AgentIcon /\ j \notin JobnetIcon
            /\ db' = ja_flow(db, j, "NORMAL") \/ db' = ja_set_runerr(db, j)
        BY <2>3 DEF jajob_icon_extjob, AgentIcon, JobnetIcon
      <3>2. Due(db, j) /\ SubIdle(db, j) /\ LeavesBy(db, j, "NORMAL")
        BY <3>1 DEF QuietState, JajobRows, Due, Settled, SubIdle, LeavesBy, GivenUp
      <3>3. QuietCall(db, db', j)
        BY <1>1, <2>1, <3>1, <3>2, FlowQuiet, RunerrQuiet
      <3>4. \A q \in jajobq' : q.job # j
        BY <2>1 DEF QuietState, JajobRows
      <3>5. /\ agent[j] = "idle" /\ \A c \in children : c.job # j
        BY <2>1, <3>1 DEF QuietState, AgentsWork, ChildrenReach
      <3> QED  BY <1>1, <2>1, <2>2, <3>2, <3>3, <3>4, <3>5, CallStep
    <2>4. CASE ~jajob_icon_extjob(r)
      <3>1. db' \in DB
        BY <1>1, JajobGood DEF GoodStep, TypeOK
      <3>2. db' = db \/ \E late \in BOOLEAN :
              db' = [db EXCEPT !.status[j] = IF r.method = "ABORT" THEN "ABORT" ELSE @,
                               !.timeout_flag[j] = @ \/ late]
        BY <1>3, <2>1, <2>4
        DEF jajob_icon_job, jajob_icon_reboot, jajob_icon_fwait, jajob_icon_extjob_kill,
            ExtjobWaits, StopOrTimeout
      <3>3. /\ db'.status = db.status /\ db'.end_count = db.end_count
            /\ db'.net_status = db.net_status /\ db'.test_flag = db.test_flag
            /\ db'.method_flag = db.method_flag /\ db'.abort_flag = db.abort_flag
        <4>1. CASE db' = db
          BY <4>1
        <4>2. ASSUME NEW late \in BOOLEAN,
                     db' = [db EXCEPT !.status[j] = IF r.method = "ABORT" THEN "ABORT" ELSE @,
                                      !.timeout_flag[j] = @ \/ late]
              PROVE  /\ db'.status = db.status /\ db'.end_count = db.end_count
                     /\ db'.net_status = db.net_status /\ db'.test_flag = db.test_flag
                     /\ db'.method_flag = db.method_flag /\ db'.abort_flag = db.abort_flag
          <5>1. /\ db'.status = [db.status EXCEPT ![j] = IF r.method = "ABORT" THEN "ABORT" ELSE @]
                /\ db'.end_count = db.end_count
                /\ db'.net_status = db.net_status /\ db'.test_flag = db.test_flag
                /\ db'.method_flag = db.method_flag /\ db'.abort_flag = db.abort_flag
            BY <1>1, <4>2 DEF DB
          <5>2. db'.status = db.status
            BY <1>1, <2>1, <5>1 DEF DB
          <5> QED  BY <5>1, <5>2
        <4> QED  BY <3>2, <4>1, <4>2
      <3>4. TableInv(db')
        BY <1>1, <3>1, <3>3, SameQuiet
      <3>5. /\ \A k \in Job : GivenUp(db', k) <=> GivenUp(db, k)
            /\ \A k \in Job : Settled(db', k) <=> Settled(db, k)
            /\ \A q \in jajobq : q.job \in Job
            /\ \A c \in children : c.job \in Job
            /\ \A n : JobsOf(n) \subseteq Job
        BY <1>1, <3>3 DEF GivenUp, Broken, Settled, TypeOK, JajobRow, Child, JobsOf
      <3> QED
        BY <2>1, <2>2, <3>3, <3>4, <3>5
        DEF QuietState, NoSingleStop, JajobRows, ChildrenReach, AgentsWork, RowsFresh
    <2> QED  BY <2>3, <2>4
  <1> QED  BY <1>2, <1>3 DEF JajobNext

\* Every action of the operator keeps the invariant: what is restarted or
\* skipped has failed, so that its jobnet is neither over nor about to end.
LEMMA OperatorQuiet ==
  ASSUME SummaryInv, QuietShape, QuietState, OperatorNext
  PROVE  QuietState'
  <1>1. /\ TypeOK /\ db \in DB /\ SequentialParents /\ TableInv(db) /\ NoSingleStop
        /\ UNCHANGED <<jajobq, netq, renew, children, agent>> /\ db' \in DB
    <2>1. db' \in DB
      BY OperatorGood DEF GoodStep, TypeOK, SummaryInv
    <2> QED
      BY <2>1
      DEF SummaryInv, TypeOK, QuietShape, QuietState, OperatorNext, SetHold, SetUnHold, SetSkip,
          SetUnSkip, SetStop, SetReStart, StopRunningJobnet, jatrap_jobrelease, Operator,
          jajobVars, jajobnetVars
  <1>2. ASSUME db'.status = db.status, db'.end_count = db.end_count,
               db'.net_status = db.net_status, db'.test_flag = db.test_flag,
               db.abort_flag => db'.abort_flag,
               \A k \in Job : db'.method_flag[k] # "ABORT"
        PROVE  QuietState'
    <2>1. TableInv(db')
      BY <1>1, <1>2, SameQuiet
    <2>2. /\ \A k \in Job : GivenUp(db, k) => GivenUp(db', k)
          /\ \A k \in Job : Settled(db', k) <=> Settled(db, k)
          /\ \A q \in jajobq : q.job \in Job
          /\ \A c \in children : c.job \in Job
          /\ \A n : JobsOf(n) \subseteq Job
      BY <1>1, <1>2 DEF GivenUp, Broken, Settled, TypeOK, JajobRow, Child, JobsOf
    <2> QED
      BY <1>1, <1>2, <2>1, <2>2
      DEF QuietState, NoSingleStop, JajobRows, ChildrenReach, AgentsWork, RowsFresh
  <1>3. ASSUME NEW j \in Job, NEW m \in Method \ {"ABORT"}, SetMethod(j, m)
        PROVE  QuietState'
    <2>1. /\ db'.status = db.status /\ db'.end_count = db.end_count
          /\ db'.net_status = db.net_status /\ db'.test_flag = db.test_flag
          /\ db'.abort_flag = db.abort_flag
          /\ \A k \in Job : db'.method_flag[k] # "ABORT"
      BY <1>1, <1>3 DEF SetMethod, DB, NoSingleStop
    <2> QED  BY <1>2, <2>1
  <1>4. CASE StopRunningJobnet
    <2>1. /\ db'.status = db.status /\ db'.end_count = db.end_count
          /\ db'.net_status = db.net_status /\ db'.test_flag = db.test_flag
          /\ db'.method_flag = db.method_flag /\ db'.abort_flag
      BY <1>1, <1>4 DEF StopRunningJobnet, DB
    <2> QED  BY <1>1, <1>2, <2>1 DEF NoSingleStop
  <1>5. ASSUME NEW j \in Job \ JobnetIcon, NEW m \in Method \ {"ABORT"}, SetReady(j, m),
               db.status[j] = "RUNERR", ~ContinuesAfterError(j), ~db.abort_flag
        PROVE  QuietState'
    <2>1. ~Settled(db, j) /\ Due(db, j)
      BY <1>5 DEF Settled, ContinuesAfterError, Due
    <2>2. /\ db'.status = [db.status EXCEPT ![j] = "READY"] /\ db'.end_count = db.end_count
          /\ db'.net_status = db.net_status /\ db'.test_flag = db.test_flag
          /\ db'.method_flag = [db.method_flag EXCEPT ![j] = m]
      BY <1>1, <1>5 DEF SetReady, DB
    <2>3. \A k \in Job : db'.method_flag[k] = "ABORT" => db.method_flag[k] = "ABORT"
      BY <1>1, <2>2 DEF DB
    <2>4. QuietCall(db, db', j)
      BY <1>1, <1>5, <2>1, <2>2, <2>3, RestartQuiet
    <2>5. /\ agent[j] = "idle" /\ \A c \in children : c.job # j
          /\ \A r \in jajobq : r.job = j => JobType[j] # "EXTJOB"
      BY <1>5 DEF QuietState, AgentsWork, ChildrenReach, JajobRows, GivenUp
    <2> QED  BY <1>1, <2>1, <2>4, <2>5, CallStep
  <1>6. ASSUME NEW j \in Job, SetHold(j) \/ SetUnHold(j) \/ SetUnSkip(j) \/ jatrap_jobrelease(j)
        PROVE  QuietState'
    BY <1>3, <1>6 DEF SetHold, SetUnHold, SetUnSkip, jatrap_jobrelease, Method
  <1>7. ASSUME NEW j \in Job, SetSkip(j)
        PROVE  QuietState'
    <2>1. j \notin JobnetIcon
      BY <1>7 DEF QuietShape, SetSkip, Operator
    <2> QED  BY <1>3, <1>5, <1>7, <2>1 DEF SetSkip, Method
  <1>8. ASSUME NEW j \in Job, SetReStart(j)
        PROVE  QuietState'
    <2>1. j \notin JobnetIcon
      BY <1>8 DEF SetReStart, JobnetIcon
    <2> QED  BY <1>5, <1>8, <2>1 DEF SetReStart, Method
  <1>9. \A j \in Job : ~SetStop(j)
    BY DEF QuietShape, SetStop, Operator
  <1> QED  BY <1>4, <1>6, <1>7, <1>8, <1>9 DEF OperatorNext

-----------------------------------------------------------------------------
(* The steps of jajobnet.                                                   *)

\* jajobnet writes the status of a jobnet that has not ended in error.
LEMMA NetWrite ==
  ASSUME NEW d \in DB, NEW e \in DB, NEW n \in Net, TableInv(d),
         d.net_status[n] # "ENDERR", e.status = d.status, e.end_count = d.end_count,
         e.test_flag = d.test_flag, d.abort_flag => e.abort_flag,
         \A m \in Net \ {n} : e.net_status[m] = d.net_status[m],
         e.net_status[n] = "END" => \A j \in JobsOf(n) : Settled(d, j),
         e.net_status[n] \in {"BEGIN", "READY"} => \A j \in JobsOf(n) : Pristine(d, j),
         n = MainNet \/ e.net_status[n] = "END" \/ d.net_status[n] \notin {"BEGIN", "END"}
  PROVE  /\ TableInv(e)
         /\ \A k \in Job : GivenUp(d, k) => GivenUp(e, k)
  <1>1. /\ NetOf \in [Job -> Net] /\ JobnetIcon \subseteq Job /\ \A m : JobsOf(m) \subseteq Job
        /\ \A i \in JobnetIcon : LinkNet[i] \in Net \ {MainNet}
    BY NetShape DEF NetShape, JobnetIcon, JobsOf
  <1>2. \A k \in Job : (Settled(e, k) <=> Settled(d, k)) /\ (Pristine(e, k) <=> Pristine(d, k))
    BY DEF Settled, Pristine
  <1>3. \A k \in Job : NetOf[k] = n <=> k \in JobsOf(n)
    BY DEF JobsOf
  <1>4. EndedSettled(e) /\ StartsPristine(e)
    BY <1>1, <1>2, <1>3 DEF TableInv, EndedSettled, StartsPristine
  <1>5. IconShowsNet(e)
    BY <1>1 DEF TableInv, IconShowsNet
  <1>6. ReadyHasReset(e) /\ AbortIsFinal(e)
    BY <1>1, <1>2, <1>3 DEF TableInv, ReadyHasReset, AbortIsFinal
  <1>7. OneUnderWay(e)
    <2>1. \A k \in Job : e.net_status[NetOf[k]] # "ENDERR" => d.net_status[NetOf[k]] # "ENDERR"
      BY <1>1
    <2> QED  BY <1>2, <2>1 DEF TableInv, OneUnderWay
  <1>8. \A k \in Job : GivenUp(d, k) => GivenUp(e, k)
    BY <1>1 DEF GivenUp, Broken
  <1>9. JoinShape => BranchesCounted(e)
    BY NetShape, CountsKept DEF NetShape, TableInv
  <1> QED  BY <1>4, <1>5, <1>6, <1>7, <1>8, <1>9 DEF TableInv

\* Everyone's work stays as it was when the icons someone works for stay RUN.
LEMMA WorkKept ==
  ASSUME TypeOK, QuietState, UNCHANGED <<jajobq, children, agent>>,
         \A k \in Job : JobType[k] = "EXTJOB" \/ k \in AgentIcon =>
           /\ GivenUp(db, k) => GivenUp(db', k)
           /\ db.status[k] = "RUN" => db'.status[k] = "RUN",
         \A k \in Job : db'.method_flag[k] = "ABORT" => db.method_flag[k] = "ABORT",
         TableInv(db'), RowsFresh'
  PROVE  QuietState'
  <1>1. (\A r \in jajobq : r.job \in Job) /\ \A c \in children : c.job \in Job
    BY DEF TypeOK, JajobRow, Child
  <1> QED
    BY <1>1 DEF QuietState, NoSingleStop, JajobRows, ChildrenReach, AgentsWork

\* jajobnet_ready: the jobnet is RUN and its start icon, alone, is ready.
LEMMA NetReadyQuiet ==
  ASSUME SummaryInv, QuietShape, QuietState, NEW r \in netq, jajobnet_ready(r)
  PROVE  QuietState'
  <1> DEFINE n == r.net
             u == ja_set_status_jobnet(db, n, "RUN")
             w == ja_set_status_jobnet(db, n, "ENDERR")
  <1>1. /\ TypeOK /\ db \in DB /\ TableInv(db) /\ r.status = "READY" /\ n \in Net
        /\ netq' = netq \ {r} /\ renew = {} /\ renew' = {}
        /\ UNCHANGED <<jajobq, children, agent>>
    BY DEF SummaryInv, TypeOK, NetRow, QuietState, jajobnet_ready, JajobnetStep, jajobVars
  <1>2. db.net_status[n] = "READY" /\ \A k \in JobsOf(n) : Pristine(db, k)
    BY <1>1 DEF QuietState, RowsFresh, TableInv, StartsPristine, JobsOf
  <1>3. \A q \in netq' : q.net \in Net \ {n}
    BY <1>1 DEF SummaryInv, JajobnetRows, TypeOK, NetRow
  <1>4. CASE Cardinality(StartIcons(n)) = 1
    <2>1. PICK x : StartIcons(n) = {x}
      <3>1. IsFiniteSet(StartIcons(n))
        BY FS_Subset DEF QuietShape, StartIcons, JobsOf
      <3> QED  BY <1>4, <3>1, FS_Singleton
    <2>2. x \in JobsOf(n) /\ JobType[x] = "START" /\ x \in Job /\ NetOf[x] = n
      BY <2>1 DEF StartIcons, JobsOf
    <2>3. /\ db' = [u EXCEPT !.status = [j \in Job |-> IF j \in StartIcons(n) THEN "READY" ELSE @[j]]]
      BY <1>4 DEF jajobnet_ready
    <2>4. u \in DB /\ u.status = db.status
      BY <1>1 DEF ja_set_status_jobnet, DB, NetStatus
    <2>5. /\ db'.status = [j \in Job |-> IF j \in StartIcons(n) THEN "READY" ELSE db.status[j]]
          /\ db'.end_count = db.end_count /\ db'.test_flag = db.test_flag
          /\ db'.method_flag = db.method_flag /\ db'.abort_flag = db.abort_flag
          /\ db'.net_status = [db.net_status EXCEPT ![n] = "RUN"]
      BY <1>1, <2>3, <2>4 DEF ja_set_status_jobnet, DB
    <2>6. /\ \A k \in Job : db'.status[k] = IF k = x THEN "READY" ELSE db.status[k]
          /\ \A m \in Net : db'.net_status[m] = IF m = n THEN "RUN" ELSE db.net_status[m]
      BY <1>1, <2>1, <2>5 DEF DB
    <2>7. /\ NetOf \in [Job -> Net] /\ JobnetIcon \subseteq Job
          /\ \A i \in JobnetIcon : LinkNet[i] \in Net /\ i # x
      BY <2>2, NetShape DEF NetShape, JobnetIcon
    <2> HIDE DEF n
    <2>8. /\ \A k \in Job : k # x => (Settled(db', k) <=> Settled(db, k))
          /\ \A k \in Job : k # x => (Pristine(db', k) <=> Pristine(db, k))
      BY <2>5, <2>6 DEF Settled, Pristine
    <2>9. EndedSettled(db') /\ StartsPristine(db')
      BY <1>1, <2>2, <2>6, <2>7, <2>8 DEF TableInv, EndedSettled, StartsPristine
    <2>10. IconShowsNet(db')
      BY <1>1, <1>2, <2>6, <2>7 DEF TableInv, IconShowsNet
    <2>11. ReadyHasReset(db')
      <3> SUFFICES ASSUME NEW i \in JobnetIcon, db'.status[i] = "READY", NEW k \in JobsOf(LinkNet[i])
                   PROVE  Pristine(db', k)
        BY DEF ReadyHasReset
      <3>1. i \in Job /\ i # x /\ k \in Job /\ NetOf[k] = LinkNet[i] /\ db.status[i] = "READY"
        BY <2>6, <2>7 DEF JobsOf
      <3>2. db.net_status[LinkNet[i]] \in {"BEGIN", "END"} /\ Pristine(db, k)
        BY <1>1, <3>1 DEF TableInv, IconShowsNet, ReadyHasReset
      <3>3. k # x
        BY <1>2, <2>2, <3>1, <3>2
      <3> QED  BY <2>8, <3>1, <3>2, <3>3
    <2>12. OneUnderWay(db')
      <3>1. \A k \in Job : NetOf[k] = n /\ k # x => Settled(db', k)
        BY <1>2, <2>8 DEF JobsOf, Pristine, Settled
      <3>2. \A k \in Job : NetOf[k] # n
              => k # x /\ db'.net_status[NetOf[k]] = db.net_status[NetOf[k]]
        BY <2>2, <2>6, <2>7
      <3> QED  BY <1>1, <2>5, <2>8, <3>1, <3>2 DEF TableInv, OneUnderWay
    <2>13. AbortIsFinal(db')
      BY <1>1, <1>2, <2>6, <2>7 DEF TableInv, AbortIsFinal
    <2>14. \A k \in Job : GivenUp(db, k) => GivenUp(db', k)
      BY <1>2, <2>2, <2>5, <2>6, <2>7 DEF GivenUp, Broken
    <2>14a. JoinShape => BranchesCounted(db')
      <3>1. Flow \subseteq [from : Job, to : Job, type : FlowType]
        BY NetShape DEF NetShape
      <3>2. db.status[x] = "BEGIN" /\ (JoinShape => Into(x) = {})
        BY <1>2, <2>2 DEF Pristine, JoinShape, Into
      <3>3. \A f \in Flow : db'.status[f.from] = "END" <=> db.status[f.from] = "END"
        BY <2>6, <3>1, <3>2
      <3> QED  BY <1>1, <2>5, <2>6, <3>1, <3>2, <3>3, CountsKept DEF TableInv
    <2>15. \A k \in Job : db.status[k] = "RUN" => db'.status[k] = "RUN"
      BY <1>2, <2>2, <2>6 DEF Pristine
    <2>16. RowsFresh'
      BY <1>1, <1>3, <2>6 DEF QuietState, RowsFresh
    <2> QED
      BY <1>1, <2>5, <2>9, <2>10, <2>11, <2>12, <2>13, <2>14, <2>15, <2>16, <2>14a, WorkKept
      DEF TableInv
  <1>5. CASE Cardinality(StartIcons(n)) # 1
    <2>1. db' = w
      BY <1>5 DEF jajobnet_ready
    <2>2. /\ db' \in DB /\ db'.status = db.status /\ db'.end_count = db.end_count
          /\ db'.test_flag = db.test_flag /\ db'.method_flag = db.method_flag
          /\ db'.abort_flag = db.abort_flag /\ db'.net_status[n] = "ENDERR"
          /\ \A m \in Net \ {n} : db'.net_status[m] = db.net_status[m]
      BY <1>1, <2>1 DEF ja_set_status_jobnet, DB, NetStatus
    <2>3. TableInv(db') /\ \A k \in Job : GivenUp(db, k) => GivenUp(db', k)
      BY <1>1, <1>2, <2>2, NetWrite
    <2>4. RowsFresh'
      BY <1>1, <1>3, <2>2 DEF QuietState, RowsFresh
    <2> QED  BY <1>1, <2>2, <2>3, <2>4, WorkKept
  <1> QED  BY <1>4, <1>5

\* jajobnet_run finds a jobnet over when all its icons are settled.
LEMMA NetRunQuiet ==
  ASSUME SummaryInv, QuietState, NEW r \in netq, jajobnet_run(r)
  PROVE  QuietState'
  <1>1. /\ TypeOK /\ db \in DB /\ TableInv(db) /\ RowsFresh /\ r.status \in {"RUN", "RUNERR"}
        /\ r.net \in Net /\ netq' = netq \ {r} /\ UNCHANGED <<db, jajobq, children, agent>>
    BY DEF SummaryInv, TypeOK, NetRow, QuietState, jajobnet_run, JajobnetStep, jajobVars
  <1>2. db.net_status[r.net] \in {"RUN", "RUNERR"}
    BY <1>1 DEF RowsFresh
  <1>3. \A q \in renew' : q.net = r.net /\ q.status = RenewStatus(db, r.net, r.status)
    BY DEF jajobnet_run
  <1>4. ASSUME RenewStatus(db, r.net, r.status) = "END", NEW j \in JobsOf(r.net)
        PROVE  Settled(db, j)
    <2>1. ~BrokenNet(db, r.net) /\ Finished(db, r.net)
      BY <1>1, <1>4 DEF RenewStatus
    <2>2. j \in Job /\ NetOf[j] = r.net /\ db.status[j] \in JobStatus
      BY <1>1, <1>4 DEF JobsOf, DB
    <2>3. db.status[j] # "ABORT"
      BY <1>1, <1>2, <2>2 DEF TableInv, AbortIsFinal
    <2>4. CASE db.test_flag
      <3>1. j \in Concluded(db, r.net)
        BY <1>4, <2>1, <2>4 DEF Finished
      <3> QED  BY <2>3, <3>1 DEF Concluded, Settled
    <2>5. CASE ~db.test_flag
      <3>1. EndedEnds(db, r.net) # {}
        BY <2>1, <2>5 DEF Finished
      <3>2. j \notin Active(db, r.net) /\ j \notin Failed(db, r.net) /\ db.status[j] # "ENDERR"
        BY <1>4, <2>1, <2>5, <3>1 DEF BrokenNet
      <3> QED  BY <1>4, <2>2, <2>3, <3>2 DEF Active, Failed, Settled, JobStatus
    <2> QED  BY <2>4, <2>5
  <1>5. RowsFresh'
    BY <1>1, <1>2, <1>3, <1>4 DEF RowsFresh
  <1> QED  BY <1>1, <1>5, WorkKept

\* jajobnet_run_sync: the end of a jobnet is written when its icons are settled,
\* and the icon of a sub-jobnet follows in the same transaction.
LEMMA SyncQuiet ==
  ASSUME SummaryInv, QuietShape, QuietState, NEW r \in renew, jajobnet_run_sync(r)
  PROVE  QuietState'
  <1> DEFINE u == SyncNet(db, r)
  <1>1. /\ TypeOK /\ db \in DB /\ TableInv(db) /\ SequentialParents /\ r \in NetRow /\ r.net \in Net
        /\ netq' = netq /\ renew' = {} /\ UNCHANGED <<jajobq, children, agent>>
        /\ r.status \in {"RUN", "RUNERR", "END", "ENDERR"}
        /\ db.net_status[r.net] \in {"RUN", "RUNERR"}
    BY DEF SummaryInv, TypeOK, JajobnetRows, NetRow, QuietShape, QuietState, RowsFresh,
           jajobnet_run_sync, JajobnetStep, jajobVars
  <1>2. u \in DB /\ u.status = db.status /\ u.net_status = [db.net_status EXCEPT ![r.net] = r.status]
    BY <1>1, Sync
  <1>3. /\ u.end_count = db.end_count /\ u.test_flag = db.test_flag
        /\ u.method_flag = db.method_flag /\ u.abort_flag = db.abort_flag
    BY <1>1 DEF SyncNet, ja_set_status_jobnet, DB
  <1> HIDE DEF u
  <1>4. /\ u.net_status[r.net] = r.status
        /\ \A m \in Net \ {r.net} : u.net_status[m] = db.net_status[m]
    BY <1>1, <1>2 DEF DB
  <1>5. r.status = "END" => \A j \in JobsOf(r.net) : Settled(db, j)
    BY DEF QuietState, RowsFresh
  <1>6. TableInv(u) /\ \A k \in Job : GivenUp(db, k) => GivenUp(u, k)
    BY <1>1, <1>2, <1>3, <1>4, <1>5, NetWrite
  <1>7. \A q \in netq : q.net \in Net \ {r.net}
    BY DEF SummaryInv, JajobnetRows, TypeOK, NetRow
  <1>8. CASE r.net = MainNet
    <2>1. db' = SyncSummary(u, r)
      BY <1>8 DEF jajobnet_run_sync, u
    <2>2. /\ db' \in DB /\ db'.status = u.status /\ db'.net_status = u.net_status
          /\ db'.end_count = u.end_count /\ db'.test_flag = u.test_flag
          /\ db'.method_flag = u.method_flag /\ db'.abort_flag = u.abort_flag
      BY <1>1, <1>2, <2>1, SyncSummaryType DEF SyncSummary, ja_set_jobstatus, DB
    <2>3. TableInv(db')
      BY <1>6, <2>2, SameQuiet
    <2>4. RowsFresh'
      BY <1>1, <1>4, <1>7, <2>2 DEF QuietState, RowsFresh
    <2>5. \A k \in Job : GivenUp(db, k) => GivenUp(db', k)
      BY <1>6, <2>2 DEF GivenUp, Broken
    <2> QED  BY <1>1, <1>2, <1>3, <2>2, <2>3, <2>4, <2>5, WorkKept
  <1>9. CASE r.net # MainNet
    <2> DEFINE i == IconOf(r.net)
    <2>1. db' = SyncIcon(u, r)
      BY <1>9 DEF jajobnet_run_sync, u
    <2>2. /\ i \in JobnetIcon /\ LinkNet[i] = r.net /\ i \in Job
          /\ JobType[i] = "JOBNET" /\ i \notin Continue
      BY <1>1, <1>9, NetShape DEF IconOf, NetShape, JobnetIcon
    <2>3. Due(u, i) /\ LeavesBy(u, i, "NORMAL") /\ (r.status = "END" => SubIdle(u, i))
      BY <1>1, <1>2, <1>4, <2>2 DEF TableInv, IconShowsNet, Due, Settled, LeavesBy, SubIdle
    <2>4. QuietCall(u, db', i)
      <3>0. \/ /\ r.status = "RUN" /\ db' = [ja_set_run(u, i) EXCEPT !.timeout_flag[i] = r.timeout]
            \/ r.status = "END" /\ db' = ja_flow(u, i, "NORMAL")
            \/ db' = ja_set_runerr(u, i) \/ db' = ja_set_enderr(u, i)
        BY <1>1, <2>1 DEF SyncIcon
      <3> HIDE DEF i
      <3>1. CASE r.status = "RUN" /\ db' = [ja_set_run(u, i) EXCEPT !.timeout_flag[i] = r.timeout]
        <4> DEFINE v == ja_set_run(u, i)
        <4>1. QuietCall(u, v, i)
          BY <1>2, <1>6, <2>2, <2>3, SetQuiet DEF ja_set_run
        <4>2. v \in DB /\ TableInv(v) /\ r.timeout \in BOOLEAN
          BY <1>1, <4>1 DEF QuietCall, NetRow
        <4> HIDE DEF v
        <4>3. db' = [v EXCEPT !.timeout_flag[i] = r.timeout]
          BY <3>1 DEF v
        <4>4. /\ db' \in DB /\ db'.status = v.status /\ db'.end_count = v.end_count
              /\ db'.net_status = v.net_status /\ db'.test_flag = v.test_flag
              /\ db'.method_flag = v.method_flag /\ db'.abort_flag = v.abort_flag
          BY <2>2, <4>2, <4>3 DEF DB
        <4>5. QuietCall(v, db', i)
          BY <4>2, <4>4, SameQuiet
        <4> QED  BY <4>1, <4>5, QuietCallTransitive
      <3>2. CASE r.status = "END" /\ db' = ja_flow(u, i, "NORMAL")
        BY <1>1, <1>2, <1>6, <2>2, <2>3, <3>2, FlowQuiet
      <3>3. CASE db' = ja_set_runerr(u, i)
        BY <1>1, <1>2, <1>6, <2>2, <2>3, <3>3, RunerrQuiet
      <3>4. CASE db' = ja_set_enderr(u, i)
        BY <1>2, <1>6, <2>2, <2>3, <3>4, SetQuiet DEF ja_set_enderr
      <3> QED  BY <3>0, <3>1, <3>2, <3>3, <3>4
    <2> HIDE DEF i
    <2>5. /\ db'.net_status = u.net_status /\ TableInv(db')
          /\ \A k \in Job : db'.method_flag[k] = "ABORT" => db.method_flag[k] = "ABORT"
          /\ \A k \in Job : k # i /\ db.status[k] = "RUN" => db'.status[k] = "RUN"
      BY <1>2, <1>3, <2>4 DEF QuietCall
    <2>6. \A k \in Job : JobType[k] = "EXTJOB" \/ k \in AgentIcon => k # i
      BY <2>2 DEF AgentIcon
    <2>7. RowsFresh'
      BY <1>1, <1>4, <1>7, <2>5 DEF QuietState, RowsFresh
    <2>8. \A k \in Job : k # i /\ GivenUp(db, k) => GivenUp(db', k)
      BY <1>6, <2>4 DEF QuietCall, GivenUp, Broken
    <2> QED  BY <1>1, <2>5, <2>6, <2>7, <2>8, WorkKept
  <1> QED  BY <1>8, <1>9

\* What jajobnet_kill does to the icons.
LEMMA KillEffect ==
  ASSUME NEW d \in DB, NEW locked, NEW e, e = jajobnet_kill(d, locked)
  PROVE  /\ e.end_count = d.end_count /\ e.test_flag = d.test_flag
         /\ e.method_flag = d.method_flag /\ e.abort_flag = d.abort_flag
         /\ \A j \in Job :
              /\ d.status[j] \in {"BEGIN", "END"} => e.status[j] = d.status[j]
              /\ d.status[j] \notin {"BEGIN", "READY", "END"}
                   => e.status[j] \notin {"BEGIN", "READY", "END"}
              /\ d.status[j] = "READY" => e.status[j] = "BEGIN"
              /\ d.status[j] = "RUNERR" /\ JobType[j] # "JOBNET" => e.status[j] = "RUNERR"
              /\ d.status[j] \in {"RUN", "RUNERR", "ENDERR"} /\ JobType[j] = "JOBNET"
                   => e.status[j] = "ENDERR"
              /\ e.status[j] = "ABORT" => d.status[j] \in {"RUN", "ABORT"}
  <1> DEFINE k == Killed(d)
             st == [j \in Job |-> IF j \in KilledJobs(d, locked) THEN "ABORT"
                                  ELSE IF j \in StoppedExtjobs(d) THEN "RUNERR"
                                  ELSE k.status[j]]
  <1>1. /\ k \in DB /\ k.end_count = d.end_count /\ k.test_flag = d.test_flag
        /\ k.method_flag = d.method_flag /\ k.abort_flag = d.abort_flag
    BY DEF Killed, DB, JobStatus, NetStatus
  <1>2. \A j \in Job : k.status[j] = IF d.status[j] = "READY" THEN "BEGIN"
                         ELSE IF JobType[j] = "JOBNET" /\ d.status[j] \in {"RUN", "RUNERR"}
                              THEN "ENDERR" ELSE d.status[j]
    BY DEF Killed, DB
  <1>3. \A j \in Job : j \in KilledJobs(d, locked) \/ j \in StoppedExtjobs(d)
                         => k.status[j] = "RUN" /\ JobType[j] # "JOBNET"
    BY DEF KilledJobs, StoppedExtjobs, Running
  <1>4. \/ e = ja_set_jobstatus(k, "ENDERR", "ERROR")
        \/ e = [k EXCEPT !.status = st]
    BY DEF jajobnet_kill
  <1> HIDE DEF k
  <1>5. \A j \in Job : st[j] = k.status[j] \/ (k.status[j] = "RUN" /\ JobType[j] # "JOBNET"
                                                 /\ st[j] \in {"ABORT", "RUNERR"})
    BY <1>3
  <1> HIDE DEF st
  <1>6. /\ e.end_count = k.end_count /\ e.test_flag = k.test_flag
        /\ e.method_flag = k.method_flag /\ e.abort_flag = k.abort_flag
        /\ e.status = k.status \/ e.status = st
    BY <1>1, <1>4 DEF ja_set_jobstatus, DB
  <1>7. \A j \in Job : e.status[j] = k.status[j] \/ (k.status[j] = "RUN" /\ JobType[j] # "JOBNET"
                                                       /\ e.status[j] \in {"ABORT", "RUNERR"})
    BY <1>5, <1>6
  <1> QED  BY <1>1, <1>2, <1>6, <1>7

\* A forced stop: the jobnets under way are in ENDERR, and in the others nothing
\* was running.
LEMMA KillQuiet ==
  ASSUME SummaryInv, QuietState, db.abort_flag, NEW locked, db' = jajobnet_kill(db, locked),
         children' = children \cup {Fork(j, "KILL") : j \in KilledJobs(db, locked)},
         UNCHANGED <<jajobq, agent>>, netq' = {}, renew' = {}
  PROVE  QuietState'
  <1>1. TypeOK /\ db \in DB /\ TableInv(db)
    BY DEF SummaryInv, TypeOK, QuietState
  <1>2. /\ db' \in DB
        /\ \A k \in Job : db'.status[k] # "READY"
        /\ \A n \in Net : db'.net_status[n] = IF db.net_status[n] \in {"RUN", "RUNERR"}
                                              THEN "ENDERR" ELSE db.net_status[n]
    BY <1>1, Kill
  <1>3. /\ db'.end_count = db.end_count /\ db'.test_flag = db.test_flag
        /\ db'.method_flag = db.method_flag /\ db'.abort_flag
        /\ \A j \in Job :
              /\ db.status[j] \in {"BEGIN", "END"} => db'.status[j] = db.status[j]
              /\ db.status[j] \notin {"BEGIN", "READY", "END"}
                   => db'.status[j] \notin {"BEGIN", "READY", "END"}
              /\ db.status[j] = "READY" => db'.status[j] = "BEGIN"
              /\ db.status[j] = "RUNERR" /\ JobType[j] # "JOBNET" => db'.status[j] = "RUNERR"
              /\ db.status[j] \in {"RUN", "RUNERR", "ENDERR"} /\ JobType[j] = "JOBNET"
                   => db'.status[j] = "ENDERR"
              /\ db'.status[j] = "ABORT" => db.status[j] \in {"RUN", "ABORT"}
    BY <1>1, KillEffect
  <1>4. /\ NetOf \in [Job -> Net] /\ JobnetIcon \subseteq Job /\ \A n : JobsOf(n) \subseteq Job
        /\ \A i \in JobnetIcon : LinkNet[i] \in Net /\ JobType[i] = "JOBNET"
        /\ \A j \in Continue : JobType[j] # "JOBNET"
    BY NetShape DEF NetShape, JobnetIcon, JobsOf
  <1>5. db.net_status \in [Net -> NetStatus]
    BY <1>1 DEF DB
  <1>6. ASSUME NEW j \in Job, ~Broken(db', j)
        PROVE  /\ db.net_status[NetOf[j]] \in {"BEGIN", "READY", "END"}
               /\ Settled(db, j) /\ Settled(db', j) /\ db'.status[j] = db.status[j]
    <2>1. db.net_status[NetOf[j]] \in {"BEGIN", "READY", "END"}
      BY <1>2, <1>4, <1>5, <1>6 DEF Broken, NetStatus
    <2>2. Settled(db, j)
      BY <1>1, <2>1 DEF TableInv, EndedSettled, StartsPristine, Pristine, Settled
    <2> QED  BY <1>3, <1>4, <2>1, <2>2 DEF Settled
  <1>7. EndedSettled(db') /\ StartsPristine(db')
    BY <1>1, <1>2, <1>3, <1>4, <1>6 DEF TableInv, EndedSettled, StartsPristine, Pristine, Broken
  <1>8. IconShowsNet(db')
    BY <1>1, <1>2, <1>3, <1>4 DEF TableInv, IconShowsNet
  <1>9. ReadyHasReset(db') /\ OneUnderWay(db')
    BY <1>2, <1>4, <1>6 DEF ReadyHasReset, OneUnderWay, Broken
  <1>10. AbortIsFinal(db')
    BY <1>6 DEF AbortIsFinal, Broken, Settled
  <1>11. /\ \A r \in jajobq : r.job \in Job
         /\ \A c \in children : c.job \in Job
         /\ \A k \in Job : GivenUp(db, k) => GivenUp(db', k)
    BY <1>1, <1>2, <1>3, <1>4 DEF TypeOK, JajobRow, Child, GivenUp, Broken
  <1>12. \A k \in Job : db.status[k] = "RUN" => GivenUp(db', k)
    BY <1>3, <1>6 DEF Settled, GivenUp
  <1>13. NoSingleStop' /\ JajobRows' /\ AgentsWork'
    BY <1>3, <1>11, <1>12 DEF QuietState, NoSingleStop, JajobRows, AgentsWork
  <1>14. ChildrenReach'
    <2>1. \A c \in children : /\ c.job \in AgentIcon /\ c.phase \notin {"copied", "flow"}
                              /\ GivenUp(db', c.job)
      BY <1>11, <1>12 DEF QuietState, ChildrenReach
    <2>2. ASSUME NEW j \in KilledJobs(db, locked)
          PROVE  /\ Fork(j, "KILL").job = j /\ Fork(j, "KILL").phase = "connect"
                 /\ j \in AgentIcon /\ GivenUp(db', j)
      <3>1. j \in Job /\ Killed(db).status[j] = "RUN" /\ j \in AgentIcon
        BY <2>2 DEF KilledJobs, Running, AgentIcon
      <3>2. db.status[j] = "RUN"
        BY <1>1, <3>1 DEF Killed, DB
      <3> QED  BY <1>12, <3>1, <3>2 DEF Fork
    <2> QED  BY <2>1, <2>2 DEF ChildrenReach
  <1>15. RowsFresh'
    BY DEF RowsFresh
  <1>16. JoinShape => BranchesCounted(db')
    <2>1. Flow \subseteq [from : Job, to : Job, type : FlowType]
      BY NetShape DEF NetShape
    <2>2. \A f \in Flow : db'.status[f.from] = "END" <=> db.status[f.from] = "END"
      BY <1>3, <2>1
    <2> QED  BY <1>1, <1>3, <2>1, <2>2, CountsKept DEF TableInv
  <1> QED
    BY <1>7, <1>8, <1>9, <1>10, <1>13, <1>14, <1>15, <1>16 DEF QuietState, TableInv

\* Every step of jajobnet keeps the invariant.
LEMMA JajobnetQuiet ==
  ASSUME SummaryInv, QuietShape, QuietState, JajobnetNext
  PROVE  QuietState'
  <1>1. TypeOK /\ db \in DB /\ TableInv(db)
    BY DEF SummaryInv, TypeOK, QuietState
  <1>2. CASE JajobnetSummary
    <2>1. netq = {} /\ renew = {} /\ netq' = {} /\ renew' = {} /\ UNCHANGED <<jajobq, agent>>
      BY <1>2 DEF JajobnetSummary, JajobnetStep, jajobVars
    <2>2. CASE db' = db /\ children' = children
      BY <2>1, <2>2, IdleStep
    <2>3. CASE db.sum_status = "READY" /\ db' = jajobnet_summary_ready(db) /\ children' = children
      <3>1. db.net_status[MainNet] = "BEGIN" /\ MainNet \in Net
        BY <2>3, NetShape DEF NetShape, SummaryInv, SummaryAgrees
      <3>2. /\ db' \in DB /\ db'.status = db.status
            /\ db'.net_status = [db.net_status EXCEPT ![MainNet] = "READY"]
        BY <1>1, <2>3, SummaryReady
      <3>3. /\ db'.end_count = db.end_count /\ db'.test_flag = db.test_flag
            /\ db'.method_flag = db.method_flag /\ db'.abort_flag = db.abort_flag
        BY <1>1, <2>3 DEF jajobnet_summary_ready, ja_set_status_jobnet, DB
      <3>4. /\ db'.net_status[MainNet] = "READY"
            /\ \A m \in Net \ {MainNet} : db'.net_status[m] = db.net_status[m]
        BY <1>1, <3>1, <3>2 DEF DB
      <3>5. \A j \in JobsOf(MainNet) : Pristine(db, j)
        BY <1>1, <3>1 DEF TableInv, StartsPristine, JobsOf
      <3>6. TableInv(db') /\ \A k \in Job : GivenUp(db, k) => GivenUp(db', k)
        BY <1>1, <3>1, <3>2, <3>3, <3>4, <3>5, NetWrite
      <3>7. RowsFresh'
        BY <2>1 DEF RowsFresh
      <3> QED  BY <1>1, <2>1, <2>3, <3>2, <3>3, <3>6, <3>7, WorkKept
    <2>4. ASSUME db.abort_flag, NEW locked, db' = jajobnet_kill(db, locked),
                 children' = children \cup {Fork(j, "KILL") : j \in KilledJobs(db, locked)}
          PROVE  QuietState'
      BY <2>1, <2>4, KillQuiet
    <2> QED  BY <1>2, <2>2, <2>3, <2>4 DEF JajobnetSummary
  <1>3. CASE JajobnetSelect
    <2>1. /\ UNCHANGED <<db, jajobq, renew, children, agent>>
          /\ \A r \in netq' : r.status = db.net_status[r.net]
      BY <1>3 DEF JajobnetSelect, JajobnetStep, jajobVars
    <2> QED
      BY <2>1 DEF QuietState, NoSingleStop, JajobRows, ChildrenReach, AgentsWork, RowsFresh
  <1> QED  BY <1>2, <1>3, NetReadyQuiet, NetRunQuiet, SyncQuiet DEF JajobnetNext

\* QuietInv holds initially.
LEMMA InitQuiet == Init => (QuietShape => QuietState)
  <1> SUFFICES ASSUME Init, QuietShape
               PROVE  QuietState
    OBVIOUS
  <1>1. PICK test \in TestFlags : db = InitDB(test)
    BY DEF Init
  <1>2. /\ \A j \in Job : db.status[j] = "BEGIN" /\ db.end_count[j] = 0
        /\ \A n \in Net : db.net_status[n] = "BEGIN"
        /\ \A j \in Job : db.method_flag[j] = InitMethod[j]
    BY <1>1 DEF InitDB
  <1>3. \A j \in Job : InitMethod[j] # "ABORT"
    BY SchedulerShape DEF SchedulerShape
  <1>4. /\ NetOf \in [Job -> Net] /\ JobnetIcon \subseteq Job /\ \A n : JobsOf(n) \subseteq Job
        /\ \A i \in JobnetIcon : LinkNet[i] \in Net
    BY NetShape DEF NetShape, JobnetIcon, JobsOf
  <1>4a. BranchesCounted(db)
    <2>1. \A k \in Job : Came(db, k) = {}
      BY <1>2, NetShape DEF NetShape, Came, Into
    <2> QED  BY <1>2, <2>1, FS_EmptySet DEF BranchesCounted
  <1>5. TableInv(db)
    BY <1>2, <1>4, <1>4a DEF TableInv, EndedSettled, StartsPristine, IconShowsNet, ReadyHasReset,
                            OneUnderWay, AbortIsFinal, Settled, Pristine
  <1> QED
    BY <1>2, <1>3, <1>5
    DEF Init, QuietState, NoSingleStop, JajobRows, ChildrenReach, AgentsWork, RowsFresh

\* The bounded counter of faults never goes down.
LEMMA FaultsGrow ==
  ASSUME TypeOK, [Next]_vars, faults' = 0
  PROVE  faults = 0
  <1>1. faults \in Nat
    BY SchedulerShape DEF TypeOK, SchedulerShape
  <1>2. faults' = faults \/ faults' = faults + 1
    BY DEF Next, JarunNext, JarunSelect, JarunPass, jarun_skip, jarun_icon_common, jarun_icon_if,
           jarun_icon_end, jarun_icon_jobnet, jarun_icon_extjob, jarun_icon_remote,
           jarun_icon_reboot, jarun_icon_release, JarunHostLocked, JarunIconFails, bounds,
           ChildNext, ChildUnreached, ChildDeliver, ChildCopy, ChildUnlock, ChildRunerr, ChildFlow,
           ChildDone, ChildRead, ChildWrite, Fault, JajobNext, JajobSelect, jajob_icon_job,
           jajob_icon_reboot, jajob_icon_fwait, jajob_icon_extjob_kill, ExtjobWaits,
           jajob_icon_extjob, StopOrTimeout, JajobnetNext, JajobnetSummary, JajobnetSelect,
           jajobnet_ready, jajobnet_run, jajobnet_run_sync, AgentNext, AgentRun, AgentEnd,
           AgentSend, AgentGivesUp, OperatorNext, SetHold, SetUnHold, SetSkip, SetUnSkip,
           SetStop, SetReStart, StopRunningJobnet, jatrap_jobrelease, Operator, ServerRestart, vars
  <1> QED  BY <1>1, <1>2

\* QuietInv is inductive.
THEOREM QuietInvariant == Spec => []QuietInv
  <1>1. Init => (QuietShape => QuietState)
    BY InitQuiet
  <1>2. SummaryInv /\ SummaryInv' /\ QuietInv /\ [Next]_vars => QuietInv'
    <2> SUFFICES ASSUME SummaryInv, SummaryInv', QuietInv, [Next]_vars, QuietShape, faults' = 0
                 PROVE  QuietState'
      BY DEF QuietInv
    <2>1. faults = 0 /\ QuietState
      BY FaultsGrow DEF QuietInv, SummaryInv
    <2>2. CASE Next
      <3>1. CASE ServerRestart
        <4>1. /\ UNCHANGED <<db, agent>> /\ jajobq' = {} /\ netq' = {} /\ renew' = {}
              /\ children' = {}
          BY <3>1 DEF ServerRestart
        <4> QED
          BY <2>1, <4>1
          DEF QuietState, NoSingleStop, JajobRows, ChildrenReach, AgentsWork, RowsFresh
      <3> QED
        BY <2>1, <2>2, <3>1, JarunQuiet, ChildQuiet, AgentQuiet, JajobQuiet, OperatorQuiet,
           JajobnetQuiet
        DEF Next
    <2>3. CASE UNCHANGED vars
      BY <2>1, <2>3, IdleStep DEF vars
    <2> QED  BY <2>2, <2>3
  <1> QED  BY <1>1, <1>2, SummaryInvariant, PTL DEF Spec, QuietInv

\* EndedNetIsQuiet is an invariant, for every bound and however often the server
\* is restarted, of every jobnet of QuietShape as long as no telegram is lost: once
\* jajobnet has read that a jobnet is over, no stale row of jarun or jajob, late
\* result, restart of an icon or forced stop makes an icon of it ready or sets it
\* to RUN or ABORT, before the end is written or after it.
THEOREM EndedQuietCorrect ==
  ASSUME QuietShape
  PROVE  Spec => [](faults = 0 => EndedNetIsQuiet)
  <1>1. QuietInv => (faults = 0 => EndedNetIsQuiet)
    BY QuietShape DEF QuietInv, QuietState, TableInv, EndedSettled, Settled, EndedNetIsQuiet
  <1> QED  BY <1>1, QuietInvariant, PTL

\* SubJobnetStartsClean is an invariant under the same conditions: however often a
\* loop comes back to a jobnet icon, its sub-jobnet starts with every icon in BEGIN
\* and no branch counted, and nothing of the earlier round is left to change that.
THEOREM StartsCleanCorrect ==
  ASSUME QuietShape
  PROVE  Spec => [](faults = 0 => SubJobnetStartsClean)
  <1>1. QuietInv => (faults = 0 => SubJobnetStartsClean)
    BY QuietShape DEF QuietInv, QuietState, TableInv, StartsPristine, Pristine, SubJobnetStartsClean
  <1> QED  BY <1>1, QuietInvariant, PTL

\* JoinCountsBranches is an invariant, for every bound, of every jobnet of JoinShape
\* under the same conditions: each branch that leads to a parallel end icon is
\* counted once, whichever process ends it and however the ends of the branches are
\* interleaved with restarts of the server, of icons and a forced stop, so that the
\* icon becomes ready with the last branch, not before, and is not entered again.
THEOREM JoinCountsCorrect ==
  ASSUME QuietShape, JoinShape
  PROVE  Spec => [](faults = 0 => JoinCountsBranches)
  <1>1. QuietInv => (faults = 0 => JoinCountsBranches)
    <2> SUFFICES ASSUME QuietInv, faults = 0, NEW w \in Job, JobType[w] = "W"
                 PROVE  LET passed == {f \in Flow : f.to = w /\ Passed(f.from)}
                        IN /\ db.end_count[w] = Cardinality(passed)
                           /\ db.status[w] = "BEGIN"
                                => db.end_count[w] < get_boot_count(w) \/ db.abort_flag
                           /\ db.status[w] # "BEGIN" => db.end_count[w] = get_boot_count(w)
      BY DEF JoinCountsBranches
    <2>1. BranchesCounted(db)
      BY QuietShape, JoinShape DEF QuietInv, QuietState, TableInv
    <2>2. /\ db.end_count[w] = Cardinality(Came(db, w))
          /\ db.status[w] # "BEGIN" => Came(db, w) = Into(w)
          /\ db.status[w] = "BEGIN" => Came(db, w) # Into(w) \/ db.abort_flag
      BY <2>1, JoinShape DEF BranchesCounted, JoinShape
    <2>3. {f \in Flow : f.to = w /\ Passed(f.from)} = Came(db, w)
      BY JoinShape DEF JoinShape, Passed, Came, Into
    <2>4. get_boot_count(w) = Cardinality(Into(w))
      BY DEF get_boot_count, Into
    <2>5. IsFiniteSet(Into(w)) /\ Came(db, w) \subseteq Into(w)
      <3>1. Into(w) \subseteq Flow /\ Came(db, w) \subseteq Into(w)
        BY DEF Into, Came
      <3> QED  BY <3>1, JoinShape, FS_Subset DEF JoinShape
    <2>6. /\ Cardinality(Came(db, w)) \in Nat /\ Cardinality(Into(w)) \in Nat
          /\ Cardinality(Came(db, w)) <= Cardinality(Into(w))
          /\ Cardinality(Came(db, w)) = Cardinality(Into(w)) => Came(db, w) = Into(w)
      BY <2>5, FS_Subset, FS_CardinalityType
    <2> QED  BY <2>2, <2>3, <2>4, <2>6
  <1> QED  BY <1>1, QuietInvariant, PTL
=============================================================================
