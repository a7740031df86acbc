------------------------------ MODULE BootProof ------------------------------
(***************************************************************************)
(* Theorems about Boot, for every set of rows, every setting and every     *)
(* bound.                                                                  *)
(***************************************************************************)
EXTENDS Boot, TLAPS

\* The times of the rows and the clock are numbers.
LEMMA Times ==
  /\ \A r \in Row : Time[r] \in Nat
  /\ TypeOK => now \in Nat
  BY BootShape DEF BootShape, TypeOK

\* A step writes the summary of row r and of no other, and leaves status, load
\* status, pending flag, scheduled time and end time with these values.
SumSets(r, status, load, pending, sched, end) ==
  /\ sum' \in [Row -> Summary]
  /\ \A q \in Row : q # r => sum'[q] = sum[q]
  /\ sum'[r].status = status /\ sum'[r].load = load /\ sum'[r].pending = pending
  /\ sum'[r].sched = sched /\ sum'[r].end = end

\* The updates of the summary that the steps are made of.
LEMMA SetStatusEnd ==
  ASSUME sum \in [Row -> Summary], NEW r \in Row, NEW st \in SumStatus, NEW n \in Nat,
         sum' = [sum EXCEPT ![r].status = st, ![r].end = n]
  PROVE  SumSets(r, st, sum[r].load, sum[r].pending, sum[r].sched, n)
  BY DEF Summary, SumSets

LEMMA SetStatusLoad ==
  ASSUME sum \in [Row -> Summary], NEW r \in Row, NEW st \in SumStatus,
         NEW ld \in {"NORMAL", "DELAY", "SKIP", "ERROR"},
         sum' = [sum EXCEPT ![r].status = st, ![r].load = ld]
  PROVE  SumSets(r, st, ld, sum[r].pending, sum[r].sched, sum[r].end)
  BY DEF Summary, SumSets

LEMMA SetStatusLoadEnd ==
  ASSUME sum \in [Row -> Summary], NEW r \in Row, NEW st \in SumStatus, NEW n \in Nat,
         NEW ld \in {"NORMAL", "DELAY", "SKIP", "ERROR"},
         sum' = [sum EXCEPT ![r].status = st, ![r].load = ld, ![r].end = n]
  PROVE  SumSets(r, st, ld, sum[r].pending, sum[r].sched, n)
  BY DEF Summary, SumSets

LEMMA SetLoad ==
  ASSUME sum \in [Row -> Summary], NEW r \in Row,
         NEW ld \in {"NORMAL", "DELAY", "SKIP", "ERROR"},
         sum' = [sum EXCEPT ![r].load = ld]
  PROVE  SumSets(r, sum[r].status, ld, sum[r].pending, sum[r].sched, sum[r].end)
  BY DEF Summary, SumSets

LEMMA SetPending ==
  ASSUME sum \in [Row -> Summary], NEW r \in Row, NEW pe \in {"NONE", "ON", "OFF"},
         sum' = [sum EXCEPT ![r].pending = pe]
  PROVE  SumSets(r, sum[r].status, sum[r].load, pe, sum[r].sched, sum[r].end)
  BY DEF Summary, SumSets

LEMMA SetSched ==
  ASSUME sum \in [Row -> Summary], NEW r \in Row, NEW t \in Nat,
         sum' = [sum EXCEPT ![r].sched = t]
  PROVE  SumSets(r, sum[r].status, sum[r].load, sum[r].pending, t, sum[r].end)
  BY DEF Summary, SumSets

LEMMA SetAbort ==
  ASSUME sum \in [Row -> Summary], NEW r \in Row,
         sum' = [sum EXCEPT ![r].abort = TRUE]
  PROVE  SumSets(r, sum[r].status, sum[r].load, sum[r].pending, sum[r].sched, sum[r].end)
  BY DEF Summary, SumSets

LEMMA SetRegistered ==
  ASSUME sum \in [Row -> Summary], NEW r \in Row, sum' = [sum EXCEPT ![r] = Registered(r)]
  PROVE  SumSets(r, "BEGIN", "NORMAL", "NONE", Time[r], 0)
  BY Times DEF Registered, NoSummary, Summary, SumStatus, SumSets

LEMMA SetNone ==
  ASSUME sum \in [Row -> Summary], NEW r \in Row, sum' = [sum EXCEPT ![r] = NoSummary]
  PROVE  SumSets(r, "NONE", "NORMAL", "NONE", 0, 0)
  BY DEF NoSummary, Summary, SumStatus, SumSets

\* What jaboot has selected are rows; taking one out of the pass keeps the type.
BootPass == [does : {"purge", "boot"}, date : Nat, todo : SUBSET [row : Row, sum : Summary]]

LEMMA PassTypes ==
  ASSUME TypeOK, NEW s \in boot.todo
  PROVE  s.row \in Row /\ s.sum \in Summary
  BY DEF TypeOK

LEMMA DoneTypes ==
  ASSUME TypeOK, NEW s \in boot.todo, Done(s)
  PROVE  /\ boot' \in BootPass
         /\ boot'.does = boot.does /\ boot'.todo = boot.todo \ {s}
  BY DEF TypeOK, Done, Rest, BootPass

\* What the steps do to the summary.
LEMMA RegistrationSum ==
  ASSUME TypeOK, NEW r \in Row
  PROVE  /\ load_jobnet_definition(r) /\ net[r] = "NONE" /\ r \notin Invalid
              => SumSets(r, "BEGIN", "NORMAL", "NONE", Time[r], 0)
         /\ Insert(r) => SumSets(r, sum[r].status, sum[r].load, sum[r].pending, Time[r], sum[r].end)
         /\ jobnet_load_immediate(r) /\ r \in Invalid
              => SumSets(r, "ENDERR", "ERROR", sum[r].pending, sum[r].sched, now)
         /\ jobnet_load_immediate(r) /\ r \notin Invalid
              => SumSets(r, "BEGIN", "NORMAL", "NONE", Time[r], 0)
  <1> USE Times DEF TypeOK
  <1>0. "ENDERR" \in SumStatus
    BY DEF SumStatus
  <1>1. load_jobnet_definition(r) /\ net[r] = "NONE" /\ r \notin Invalid
          => SumSets(r, "BEGIN", "NORMAL", "NONE", Time[r], 0)
    BY SetRegistered DEF load_jobnet_definition
  <1>2. Insert(r) => SumSets(r, sum[r].status, sum[r].load, sum[r].pending, Time[r], sum[r].end)
    BY SetSched DEF Insert
  <1>3. jobnet_load_immediate(r) /\ r \in Invalid
          => SumSets(r, "ENDERR", "ERROR", sum[r].pending, sum[r].sched, now)
    BY <1>0, SetStatusLoadEnd DEF jobnet_load_immediate
  <1>4. jobnet_load_immediate(r) /\ r \notin Invalid
          => SumSets(r, "BEGIN", "NORMAL", "NONE", Time[r], 0)
    BY SetRegistered DEF jobnet_load_immediate
  <1> QED  BY <1>1, <1>2, <1>3, <1>4

LEMMA JabootSum ==
  ASSUME TypeOK, NEW s \in boot.todo, NEW r \in Row, r = s.row
  PROVE  /\ jobnet_purge(s) => UNCHANGED sum \/ SumSets(r, "NONE", "NORMAL", "NONE", 0, 0)
         /\ error_state_jobnet(s)
              => SumSets(r, "RUN", "DELAY", sum[r].pending, sum[r].sched, sum[r].end)
         /\ skip_state_jobnet(s)
              => SumSets(r, "END", "SKIP", sum[r].pending, sum[r].sched, now)
         /\ delay_state_jobnet(s)
              => SumSets(r, sum[r].status, "DELAY", sum[r].pending, sum[r].sched, sum[r].end)
         /\ start_jobnet(s)
              => SumSets(r, "READY", "NORMAL", sum[r].pending, sum[r].sched, sum[r].end)
  <1> USE Times DEF TypeOK
  <1>0. {"RUN", "END", "READY"} \subseteq SumStatus
    BY DEF SumStatus
  <1>1. jobnet_purge(s) => UNCHANGED sum \/ SumSets(r, "NONE", "NORMAL", "NONE", 0, 0)
    BY SetNone DEF jobnet_purge
  <1>2. error_state_jobnet(s)
          => SumSets(r, "RUN", "DELAY", sum[r].pending, sum[r].sched, sum[r].end)
    BY <1>0, SetStatusLoad DEF error_state_jobnet
  <1>3. skip_state_jobnet(s) => SumSets(r, "END", "SKIP", sum[r].pending, sum[r].sched, now)
    BY <1>0, SetStatusLoadEnd DEF skip_state_jobnet
  <1>4. delay_state_jobnet(s)
          => SumSets(r, sum[r].status, "DELAY", sum[r].pending, sum[r].sched, sum[r].end)
    BY SetLoad DEF delay_state_jobnet
  <1>5. start_jobnet(s)
          => SumSets(r, "READY", "NORMAL", sum[r].pending, sum[r].sched, sum[r].end)
    BY <1>0, SetStatusLoad DEF start_jobnet
  <1> QED  BY <1>1, <1>2, <1>3, <1>4, <1>5

LEMMA JobnetSum ==
  ASSUME TypeOK, NEW r \in Row
  PROVE  /\ jajobnet_summary_ready(r)
              => SumSets(r, "RUN", sum[r].load, sum[r].pending, sum[r].sched, 0)
         /\ JobnetEnds(r) => SumSets(r, "END", sum[r].load, sum[r].pending, sum[r].sched, now)
         /\ jajobnet_kill(r)
              => SumSets(r, "ENDERR", sum[r].load, sum[r].pending, sum[r].sched, now)
  <1>0. {"RUN", "END", "ENDERR"} \subseteq SumStatus /\ now \in Nat
    BY Times DEF SumStatus
  <1>1. jajobnet_summary_ready(r)
          => SumSets(r, "RUN", sum[r].load, sum[r].pending, sum[r].sched, 0)
    BY <1>0, SetStatusEnd DEF jajobnet_summary_ready, TypeOK
  <1>2. JobnetEnds(r) => SumSets(r, "END", sum[r].load, sum[r].pending, sum[r].sched, now)
    BY <1>0, SetStatusEnd DEF JobnetEnds, TypeOK
  <1>3. jajobnet_kill(r) => SumSets(r, "ENDERR", sum[r].load, sum[r].pending, sum[r].sched, now)
    BY <1>0, SetStatusEnd DEF jajobnet_kill, TypeOK
  <1> QED  BY <1>1, <1>2, <1>3

LEMMA OperatorSum ==
  ASSUME TypeOK, NEW r \in Row
  PROVE  /\ StopRunningJobnet(r)
              => SumSets(r, sum[r].status, sum[r].load, sum[r].pending, sum[r].sched, sum[r].end)
         /\ StopUnexecutedJobnet(r)
              => SumSets(r, "ENDERR", sum[r].load, sum[r].pending, sum[r].sched, now)
         /\ SetReserveJobnet(r)
              => SumSets(r, sum[r].status, sum[r].load, "ON", sum[r].sched, sum[r].end)
         /\ SetReleaseJobnet(r)
              => SumSets(r, sum[r].status, sum[r].load, "OFF", sum[r].sched, sum[r].end)
         /\ \A t \in Nat : SetScheduledTime(r, t)
              => SumSets(r, sum[r].status, sum[r].load, sum[r].pending, t, sum[r].end)
         /\ SetJaRunJobnetSummaryTableStatus(r)
              => SumSets(r, "READY", "NORMAL", sum[r].pending, sum[r].sched, sum[r].end)
  <1>0. {"READY", "ENDERR"} \subseteq SumStatus /\ now \in Nat
    BY Times DEF SumStatus
  <1>1. StopRunningJobnet(r)
          => SumSets(r, sum[r].status, sum[r].load, sum[r].pending, sum[r].sched, sum[r].end)
    BY SetAbort DEF StopRunningJobnet, TypeOK
  <1>2. StopUnexecutedJobnet(r)
          => SumSets(r, "ENDERR", sum[r].load, sum[r].pending, sum[r].sched, now)
    BY <1>0, SetStatusEnd DEF StopUnexecutedJobnet, TypeOK
  <1>3. SetReserveJobnet(r)
          => SumSets(r, sum[r].status, sum[r].load, "ON", sum[r].sched, sum[r].end)
    BY SetPending DEF SetReserveJobnet, TypeOK
  <1>4. SetReleaseJobnet(r)
          => SumSets(r, sum[r].status, sum[r].load, "OFF", sum[r].sched, sum[r].end)
    BY SetPending DEF SetReleaseJobnet, TypeOK
  <1>5. \A t \in Nat : SetScheduledTime(r, t)
          => SumSets(r, sum[r].status, sum[r].load, sum[r].pending, t, sum[r].end)
    BY SetSched DEF SetScheduledTime, TypeOK
  <1>6. SetJaRunJobnetSummaryTableStatus(r)
          => SumSets(r, "READY", "NORMAL", sum[r].pending, sum[r].sched, sum[r].end)
    BY <1>0, SetStatusLoad DEF SetJaRunJobnetSummaryTableStatus, TypeOK
  <1> QED  BY <1>1, <1>2, <1>3, <1>4, <1>5, <1>6

\* Tick and the registrations keep the types.
LEMMA RegistrationTypes ==
  ASSUME TypeOK, Tick \/ RegistrationNext
  PROVE  TypeOK'
  <1>1. CASE Tick
    BY <1>1, BootShape DEF BootShape, Tick, TypeOK, tables, ghosts
  <1>2. CASE jobnet_load_schedule
    BY <1>2, Times DEF jobnet_load_schedule, Registration, TypeOK, tables
  <1>3. ASSUME NEW r \in Row, load_jobnet_definition(r)  PROVE TypeOK'
    <2>1. Registered(r) \in Summary
      BY Times DEF Registered, NoSummary, Summary, SumStatus
    <2>2. sum' \in [Row -> Summary]
      BY <1>3, RegistrationSum DEF SumSets, load_jobnet_definition, tables, TypeOK
    <2>3. loader' \in [date : Nat, todo : SUBSET PlannedRow]
      BY <1>3 DEF load_jobnet_definition, Rest, TypeOK
    <2>4. regs' \in [Row -> Nat] /\ net' \in [Row -> NetState]
          /\ start' \in [Row -> {"BEGIN", "READY", "END", "RUNERR"}]
      BY <1>3 DEF load_jobnet_definition, TypeOK, tables, NetState, SumStatus
    <2> QED  BY <1>3, <2>2, <2>3, <2>4 DEF load_jobnet_definition, Registration, TypeOK, tables
  <1>4. ASSUME NEW r \in Row, jobnet_load_immediate(r)  PROVE TypeOK'
    <2>1. Registered(r) \in Summary
      BY Times DEF Registered, NoSummary, Summary, SumStatus
    <2>2. sum' \in [Row -> Summary]
      BY <1>4, RegistrationSum DEF SumSets
    <2>3. net' \in [Row -> NetState]
      BY <1>4 DEF jobnet_load_immediate, TypeOK, NetState, SumStatus
    <2> QED  BY <1>4, <2>2, <2>3 DEF jobnet_load_immediate, Registration, TypeOK
  <1>5. ASSUME NEW r \in Row, Insert(r), trap' \in SUBSET TimedRow  PROVE TypeOK'
    <2>1. sum' \in [Row -> Summary]
      BY <1>5, RegistrationSum DEF SumSets
    <2>2. net' \in [Row -> NetState] /\ regs' \in [Row -> Nat]
      BY <1>5 DEF Insert, TypeOK, NetState, SumStatus
    <2> QED  BY <1>5, <2>1, <2>2 DEF Insert, Registration, TypeOK
  <1>6. ASSUME NEW r \in Row, InsertRunJobnet(r) \/ register_db_table(r)  PROVE TypeOK'
    BY <1>5, <1>6 DEF InsertRunJobnet, register_db_table, TypeOK
  <1>7. ASSUME NEW r \in Row, evaluate_jobnetrun(r)  PROVE TypeOK'
    BY <1>7 DEF evaluate_jobnetrun, Registration, TypeOK, tables
  <1> QED  BY <1>1, <1>2, <1>3, <1>4, <1>6, <1>7 DEF RegistrationNext

\* The steps of jaboot keep the types.
LEMMA JabootTypes ==
  ASSUME TypeOK, JabootNext \/ JabootRestart
  PROVE  TypeOK'
  <1>1. CASE JabootPurge
    <2>1. boot' \in BootPass
      BY <1>1, Times DEF JabootPurge, Selected, BootPass, TypeOK
    <2> QED  BY <1>1, <2>1 DEF JabootPurge, Jaboot, TypeOK, tables, BootPass
  <1>2. CASE JabootSelect
    <2> DEFINE due == {Selected(r) : r \in {q \in Row : Due(q)}}
    <2>1. boot' \in BootPass
      <3>1. due \in SUBSET [row : Row, sum : Summary]
        BY DEF Selected, TypeOK
      <3>2. boot' = Rest([boot EXCEPT !.does = "boot", !.todo = due])
        BY <1>2 DEF JabootSelect
      <3> HIDE DEF due
      <3> QED  BY <3>1, <3>2 DEF Rest, BootPass, TypeOK
    <2> QED  BY <1>2, <2>1 DEF JabootSelect, Jaboot, TypeOK, tables, BootPass
  <1>3. CASE JabootRestart
    BY <1>3, BootShape DEF BootShape, JabootRestart, TypeOK, tables, ghosts
  <1>4. ASSUME NEW s \in boot.todo, jobnet_purge(s)  PROVE TypeOK'
    <2>1. NoSummary \in Summary
      BY DEF NoSummary, Summary, SumStatus
    <2>2. sum' \in [Row -> Summary]
      BY <1>4, PassTypes, JabootSum DEF SumSets, TypeOK
    <2>3. /\ net' \in [Row -> NetState] /\ work' \in SUBSET Row
          /\ start' \in [Row -> {"BEGIN", "READY", "END", "RUNERR"}]
      BY <1>4, PassTypes DEF jobnet_purge, TypeOK, NetState, SumStatus
    <2> QED  BY <1>4, <2>2, <2>3, DoneTypes DEF jobnet_purge, Jaboot, TypeOK, BootPass
  <1>5. ASSUME NEW s \in boot.todo, error_state_jobnet(s)  PROVE TypeOK'
    <2>1. sum' \in [Row -> Summary]
      BY <1>5, PassTypes, JabootSum DEF SumSets, TypeOK
    <2>2. /\ net' \in [Row -> NetState]
          /\ start' \in [Row -> {"BEGIN", "READY", "END", "RUNERR"}]
          /\ by' \in [Row -> {"none", "boot", "late", "operator"}]
      BY <1>5, PassTypes DEF error_state_jobnet, TypeOK, NetState
    <2> QED  BY <1>5, <2>1, <2>2, DoneTypes DEF error_state_jobnet, Jaboot, TypeOK, BootPass
  <1>6. ASSUME NEW s \in boot.todo, skip_state_jobnet(s)  PROVE TypeOK'
    <2>1. sum' \in [Row -> Summary]
      BY <1>6, PassTypes, JabootSum DEF SumSets, TypeOK
    <2>2. net' \in [Row -> NetState]
      BY <1>6, PassTypes DEF skip_state_jobnet, TypeOK, NetState, SumStatus
    <2> QED  BY <1>6, <2>1, <2>2, DoneTypes DEF skip_state_jobnet, Jaboot, TypeOK, BootPass
  <1>7. ASSUME NEW s \in boot.todo, delay_state_jobnet(s)  PROVE TypeOK'
    <2>1. sum' \in [Row -> Summary]
      BY <1>7, PassTypes, JabootSum DEF SumSets, TypeOK
    <2> QED  BY <1>7, <2>1, DoneTypes DEF delay_state_jobnet, Jaboot, TypeOK, BootPass
  <1>8. ASSUME NEW s \in boot.todo, start_jobnet(s)  PROVE TypeOK'
    <2>1. sum' \in [Row -> Summary]
      BY <1>8, PassTypes, JabootSum DEF SumSets, TypeOK
    <2>2. /\ starts' \in [Row -> Nat]
          /\ by' \in [Row -> {"none", "boot", "late", "operator"}]
      BY <1>8, PassTypes DEF start_jobnet, TypeOK
    <2> QED  BY <1>8, <2>1, <2>2, DoneTypes DEF start_jobnet, Jaboot, TypeOK, BootPass
  <1> QED  BY <1>1, <1>2, <1>3, <1>4, <1>5, <1>6, <1>7, <1>8 DEF JabootNext

\* The steps of a jobnet keep the types.
LEMMA JobnetTypes ==
  ASSUME TypeOK, NEW r \in Row, JobnetNext(r) \/ JobnetFails(r)
  PROVE  TypeOK'
  <1>1. CASE jajobnet_summary_ready(r)
    <2>1. sum' \in [Row -> Summary]
      BY <1>1, JobnetSum DEF SumSets
    <2>2. net' \in [Row -> NetState]
      BY <1>1 DEF jajobnet_summary_ready, TypeOK, NetState, SumStatus
    <2> QED  BY <1>1, <2>1, <2>2 DEF jajobnet_summary_ready, Jobnets, TypeOK, ghosts
  <1>2. CASE jajobnet_ready(r)
    BY <1>2 DEF jajobnet_ready, Jobnets, TypeOK, NetState, SumStatus, ghosts
  <1>3. CASE JarunStart(r)
    BY <1>3 DEF JarunStart, Jobnets, TypeOK, ghosts
  <1>4. CASE JobnetEnds(r)
    <2>1. sum' \in [Row -> Summary]
      BY <1>4, JobnetSum DEF SumSets
    <2>2. net' \in [Row -> NetState]
      BY <1>4 DEF JobnetEnds, TypeOK, NetState, SumStatus
    <2> QED  BY <1>4, <2>1, <2>2 DEF JobnetEnds, Jobnets, TypeOK, ghosts
  <1>5. CASE JobnetFails(r)
    BY <1>5 DEF JobnetFails, Jobnets, TypeOK, NetState, ghosts
  <1>6. CASE jajobnet_kill(r)
    <2>1. sum' \in [Row -> Summary]
      BY <1>6, JobnetSum DEF SumSets
    <2>2. /\ net' \in [Row -> NetState]
          /\ start' \in [Row -> {"BEGIN", "READY", "END", "RUNERR"}]
      BY <1>6 DEF jajobnet_kill, TypeOK, NetState, SumStatus
    <2> QED  BY <1>6, <2>1, <2>2 DEF jajobnet_kill, Jobnets, TypeOK, ghosts
  <1> QED  BY <1>1, <1>2, <1>3, <1>4, <1>5, <1>6 DEF JobnetNext

\* The steps of the operator keep the types.
LEMMA OperatorTypes ==
  ASSUME TypeOK, NEW r \in Row, OperatorNext(r) \/ DelayedStart(r)
  PROVE  TypeOK'
  <1>0. MaxOps \in Nat /\ StartTime \in Nat /\ MaxTime \in Nat
    BY BootShape DEF BootShape
  <1>1. CASE StopRunningJobnet(r)
    <2>1. sum' \in [Row -> Summary]
      BY <1>1, OperatorSum DEF SumSets
    <2> QED  BY <1>0, <1>1, <2>1 DEF StopRunningJobnet, Operates, TypeOK
  <1>2. CASE StopUnexecutedJobnet(r)
    <2>1. sum' \in [Row -> Summary]
      BY <1>2, OperatorSum DEF SumSets
    <2> QED  BY <1>0, <1>2, <2>1 DEF StopUnexecutedJobnet, Operates, Race, TypeOK
  <1>3. CASE SetReserveJobnet(r)
    <2>1. sum' \in [Row -> Summary]
      BY <1>3, OperatorSum DEF SumSets
    <2> QED  BY <1>0, <1>3, <2>1 DEF SetReserveJobnet, Operates, Race, TypeOK
  <1>4. CASE SetReleaseJobnet(r)
    <2>1. sum' \in [Row -> Summary]
      BY <1>4, OperatorSum DEF SumSets
    <2> QED  BY <1>4, <2>1 DEF SetReleaseJobnet, GoesOn, TypeOK
  <1>5. ASSUME NEW t \in now..MaxTime, SetScheduledTime(r, t)  PROVE TypeOK'
    <2>1. t \in Nat
      BY <1>0, Times
    <2>2. sum' \in [Row -> Summary]
      BY <1>5, <2>1, OperatorSum DEF SumSets
    <2> QED  BY <1>0, <1>5, <2>2 DEF SetScheduledTime, Operates, TypeOK
  <1>6. CASE SetJaRunJobnetTableStatus(r)
    BY <1>6 DEF SetJaRunJobnetTableStatus, GoesOn, TypeOK, NetState, SumStatus
  <1>7. CASE SetJaRunJobnetSummaryTableStatus(r)
    <2>1. sum' \in [Row -> Summary]
      BY <1>7, OperatorSum DEF SumSets
    <2> QED  BY <1>7, <2>1 DEF SetJaRunJobnetSummaryTableStatus, GoesOn, TypeOK
  <1>8. CASE SetJaRunJobTableStatus(r)
    BY <1>8 DEF SetJaRunJobTableStatus, GoesOn, TypeOK
  <1>9. CASE DelayedContextMenu(r)
    BY <1>0, <1>9 DEF DelayedContextMenu, Operates, TypeOK
  <1> QED  BY <1>1, <1>2, <1>3, <1>4, <1>5, <1>6, <1>7, <1>8, <1>9 DEF OperatorNext, DelayedStart

\* The tables keep their types in every behaviour.
THEOREM TypeCorrect == Spec => []TypeOK
  <1>1. Init => TypeOK
    BY BootShape DEF BootShape, Init, TypeOK, NoSummary, Summary, SumStatus, NetState
  <1>2. TypeOK /\ [Next]_vars => TypeOK'
    <2> SUFFICES ASSUME TypeOK, [Next]_vars  PROVE TypeOK'
      OBVIOUS
    <2>1. CASE UNCHANGED vars
      BY <2>1 DEF vars, TypeOK
    <2> QED  BY <2>1, RegistrationTypes, JabootTypes, JobnetTypes, OperatorTypes DEF Next
  <1> QED  BY <1>1, <1>2, PTL DEF Spec
-----------------------------------------------------------------------------
(* One jobnet at a time *)

\* Rows of a jobnet do not overlap: what makes a row active is start_jobnet,
\* which finds no other one active or may start in parallel, a late start, or
\* the operator.  The check and the update are one transaction, so the
\* invariant is inductive.
THEOREM OneAtATimeCorrect == Spec => []OneAtATime
  <1>1. Init => OneAtATime
    BY DEF Init, OneAtATime, Active, NoSummary
  <1>2. TypeOK /\ OneAtATime /\ [Next]_vars => OneAtATime'
    <2> SUFFICES ASSUME TypeOK, OneAtATime, [Next]_vars  PROVE OneAtATime'
      OBVIOUS
    <2>1. ASSUME NEW r \in Row, NEW st, NEW ld, NEW pe, NEW sc, NEW en,
                 SumSets(r, st, ld, pe, sc, en), UNCHANGED by,
                 st \in {"READY", "RUN"} => Active(r)
          PROVE  OneAtATime'
      BY <2>1 DEF OneAtATime, Active, SumSets
    <2>2. ASSUME UNCHANGED <<sum, by>>  PROVE OneAtATime'
      BY <2>2 DEF OneAtATime, Active
    <2>3. CASE Tick \/ RegistrationNext
      <3>1. ASSUME NEW r \in Row, load_jobnet_definition(r)  PROVE OneAtATime'
        BY <3>1, <2>1, <2>2, RegistrationSum DEF load_jobnet_definition, Registration, tables
      <3>2. ASSUME NEW r \in Row, jobnet_load_immediate(r)  PROVE OneAtATime'
        BY <3>2, <2>1, RegistrationSum DEF jobnet_load_immediate, Registration
      <3>3. ASSUME NEW r \in Row, Insert(r)  PROVE OneAtATime'
        BY <3>3, <2>1, RegistrationSum DEF Insert, Registration, Active
      <3> QED
        BY <2>2, <2>3, <3>1, <3>2, <3>3
        DEF RegistrationNext, Tick, jobnet_load_schedule, evaluate_jobnetrun, InsertRunJobnet,
            register_db_table, Registration, tables, ghosts
    <2>4. CASE JabootNext \/ JabootRestart
      <3>1. ASSUME NEW s \in boot.todo, jobnet_purge(s)  PROVE OneAtATime'
        BY <3>1, <2>1, <2>2, JabootSum, PassTypes DEF jobnet_purge
      <3>2. ASSUME NEW s \in boot.todo, error_state_jobnet(s)  PROVE OneAtATime'
        <4>1. SumSets(s.row, "RUN", "DELAY", sum[s.row].pending, sum[s.row].sched, sum[s.row].end)
          BY <3>2, JabootSum, PassTypes
        <4>2. by' = [by EXCEPT ![s.row] = "late"]
          BY <3>2 DEF error_state_jobnet
        <4> QED  BY <4>1, <4>2, PassTypes DEF OneAtATime, Active, SumSets, TypeOK
      <3>3. ASSUME NEW s \in boot.todo, skip_state_jobnet(s)  PROVE OneAtATime'
        BY <3>3, <2>1, JabootSum, PassTypes DEF skip_state_jobnet
      <3>4. ASSUME NEW s \in boot.todo, delay_state_jobnet(s)  PROVE OneAtATime'
        BY <3>4, <2>1, JabootSum, PassTypes DEF delay_state_jobnet, Active
      <3>5. ASSUME NEW s \in boot.todo, start_jobnet(s)  PROVE OneAtATime'
        <4>1. SumSets(s.row, "READY", "NORMAL", sum[s.row].pending, sum[s.row].sched, sum[s.row].end)
          BY <3>5, JabootSum, PassTypes
        <4>2. by' = [by EXCEPT ![s.row] = "boot"]
          BY <3>5 DEF start_jobnet
        <4>3. \/ \A q \in Row : JobnetOf[q] = JobnetOf[s.row] => ~Active(q)
              \/ MultipleStartUp[s.row] = "YES"
          BY <3>5 DEF start_jobnet, Multiple, get_running_jobnet
        <4> QED  BY <4>1, <4>2, <4>3, PassTypes DEF OneAtATime, Active, SumSets, TypeOK
      <3> QED
        BY <2>2, <2>4, <3>1, <3>2, <3>3, <3>4, <3>5
        DEF JabootNext, JabootRestart, JabootPurge, JabootSelect, tables, ghosts
    <2>5. ASSUME NEW r \in Row, JobnetNext(r) \/ JobnetFails(r)  PROVE OneAtATime'
      <3> USE JobnetSum DEF Jobnets, ghosts
      <3>1. CASE jajobnet_summary_ready(r)
        BY <3>1, <2>1 DEF jajobnet_summary_ready, Active
      <3>2. CASE JobnetEnds(r)
        BY <3>2, <2>1 DEF JobnetEnds
      <3>3. CASE jajobnet_kill(r)
        BY <3>3, <2>1 DEF jajobnet_kill
      <3> QED
        BY <2>2, <2>5, <3>1, <3>2, <3>3
        DEF JobnetNext, JobnetFails, jajobnet_ready, JarunStart
    <2>6. ASSUME NEW r \in Row, OperatorNext(r) \/ DelayedStart(r)  PROVE OneAtATime'
      <3>1. CASE SetJaRunJobnetSummaryTableStatus(r)
        <4>1. SumSets(r, "READY", "NORMAL", sum[r].pending, sum[r].sched, sum[r].end)
          BY <3>1, OperatorSum
        <4>2. by' = [by EXCEPT ![r] = "operator"]
          BY <3>1 DEF SetJaRunJobnetSummaryTableStatus
        <4> QED  BY <4>1, <4>2 DEF OneAtATime, Active, SumSets, TypeOK
      <3>2. CASE StopRunningJobnet(r) \/ StopUnexecutedJobnet(r)
        BY <3>2, <2>1, OperatorSum DEF StopRunningJobnet, StopUnexecutedJobnet, Active
      <3>3. CASE SetReserveJobnet(r) \/ SetReleaseJobnet(r)
        BY <3>3, <2>1, OperatorSum DEF SetReserveJobnet, SetReleaseJobnet, Active
      <3>4. ASSUME NEW t \in now..MaxTime, SetScheduledTime(r, t)  PROVE OneAtATime'
        <4>1. t \in Nat
          BY BootShape, Times DEF BootShape
        <4> QED  BY <3>4, <4>1, <2>1, OperatorSum DEF SetScheduledTime, Active
      <3> QED
        BY <2>2, <2>6, <3>1, <3>2, <3>3, <3>4
        DEF OperatorNext, DelayedStart, DelayedContextMenu, SetJaRunJobnetTableStatus,
            SetJaRunJobTableStatus
    <2>7. CASE UNCHANGED vars
      BY <2>2, <2>7 DEF vars
    <2> QED  BY <2>3, <2>4, <2>5, <2>6, <2>7 DEF Next
  <1> QED  BY <1>1, <1>2, TypeCorrect, PTL DEF Spec
-----------------------------------------------------------------------------
(* Rows live once, and the operator is obeyed *)

\* The row has a result, and an end time.
Ended(r) == sum[r].status \in {"END", "ENDERR"}

\* The row is registered and jaboot has still to decide about it.
NotStarted(r) == \/ sum[r].status = "BEGIN"
                 \/ sum[r].status = "NONE" /\ net[r] # "NONE"

\* The operator has stopped the row before its start, or holds it.
Touched(r) == r \in stopped \/ sum[r].pending = "ON"

\* The life of a row: it is registered once and started once, nobody writes to
\* a row that is not there, and one that waits for its start has not been
\* stopped.
RowsLiveOnce ==
  \A r \in Row :
    /\ regs[r] <= 1 /\ starts[r] <= 1
    /\ regs[r] = 0 => net[r] = "NONE" /\ starts[r] = 0 /\ r \notin stopped
    /\ net[r] = "NONE" => sum[r].status = "NONE" /\ delayed[r] = 0
    /\ r \in trap => regs[r] = 0
    /\ NotStarted(r) => starts[r] = 0 /\ r \notin stopped

\* A row that the operator has touched becomes active through a race only.
\* The delayed start, which writes without a condition, works on a row that
\* is active or has just ended.
TouchedRows ==
  \A r \in Row :
    /\ delayed[r] > 0 => Active(r) \/ (Ended(r) /\ sum[r].end = now)
    /\ Touched(r) /\ (Active(r) \/ delayed[r] > 0) => r \in raced

\* The window of jaloader: a planned row is not registered before it opens,
\* and is removed only after every pass that can find it is over.
WindowIsPast ==
  \A r \in PlannedRow :
    /\ net[r] # "NONE" => Time[r] <= now + LoadSpan
    /\ Ended(r) => Time[r] <= sum[r].end + LoadSpan
    /\ net[r] = "NONE" /\ regs[r] > 0 => now > Time[r] + MaxPass
    /\ r \in loader.todo => /\ InWindow(r, loader.date)
                            /\ loader.date <= now /\ now <= loader.date + MaxPass

\* What jaboot holds: a copy per row, of rows that are there; to be started, of
\* rows that were not started and that the operator has not touched before;
\* to be removed, of rows that ended KeepSpan ago.
PassIsCurrent ==
  /\ \A s, q \in boot.todo : s.row = q.row => s = q
  /\ \A s \in boot.todo :
       /\ net[s.row] # "NONE"
       /\ boot.does = "boot" =>
            starts[s.row] = 0 /\ (Touched(s.row) => s.row \in raced)
       /\ boot.does = "purge" =>
            /\ Ended(s.row) /\ delayed[s.row] = 0
            /\ s.sum.end + KeepSpan <= now
            /\ s.row \in PlannedRow => Time[s.row] <= s.sum.end + LoadSpan

BootInv == TypeOK /\ RowsLiveOnce /\ TouchedRows /\ WindowIsPast /\ PassIsCurrent

\* Before the first registration there is nothing to show.
LEMMA BootInvInit == Init => BootInv
  <1> SUFFICES ASSUME Init  PROVE BootInv
    OBVIOUS
  <1>1. TypeOK
    BY BootShape DEF BootShape, Init, TypeOK, NoSummary, Summary, SumStatus, NetState
  <1>2. RowsLiveOnce /\ TouchedRows
    BY DEF Init, RowsLiveOnce, TouchedRows, NotStarted, Touched, Active, NoSummary
  <1>3. WindowIsPast /\ PassIsCurrent
    BY DEF Init, WindowIsPast, PassIsCurrent, PlannedRow, Ended, NoSummary
  <1> QED  BY <1>1, <1>2, <1>3 DEF BootInv

\* A step that works on row r alone: the other rows, the clock and jaloader stay
\* as they are, and jaboot may finish copies but takes no new ones.
OnlyRow(r) ==
  /\ UNCHANGED <<now, loader, regs, trap>>
  /\ boot'.does = boot.does /\ boot'.todo \subseteq boot.todo
  /\ raced \subseteq raced' /\ stopped' \subseteq stopped \cup {r}
  /\ \A q \in Row : q # r => /\ sum'[q] = sum[q] /\ net'[q] = net[q]
                             /\ delayed'[q] = delayed[q] /\ starts'[q] = starts[q]

\* What such a step may do to its row: it stays registered; it is not made
\* to wait for a start again; it ends now, if it ends; and what jaboot and a
\* delayed start rely on is kept.
RowMoves(r) ==
  /\ net[r] # "NONE" /\ net'[r] # "NONE"
  /\ starts'[r] <= 1
  /\ NotStarted(r)' => NotStarted(r) /\ starts'[r] = starts[r] /\ r \notin stopped'
  /\ delayed'[r] > 0 => Active(r)' \/ (Ended(r)' /\ sum'[r].end = now)
  /\ Touched(r)' /\ (Active(r)' \/ delayed'[r] > 0) => r \in raced'
  /\ Ended(r)' => sum'[r].end = now \/ (Ended(r) /\ sum'[r].end = sum[r].end)
  /\ Ended(r) /\ delayed[r] = 0 /\ boot.does = "purge" => Ended(r)' /\ delayed'[r] = 0
  /\ boot.does = "boot" /\ (\E s \in boot'.todo : s.row = r) =>
       starts'[r] = starts[r] /\ (Touched(r)' => Touched(r) \/ r \in raced')

\* Such a step keeps the invariant.
LEMMA RowStep ==
  ASSUME BootInv, TypeOK', NEW r \in Row, OnlyRow(r), RowMoves(r)
  PROVE  BootInv'
  <1>1. RowsLiveOnce'
    BY DEF BootInv, RowsLiveOnce, OnlyRow, RowMoves, NotStarted, TypeOK
  <1>2. TouchedRows'
    BY DEF BootInv, TouchedRows, OnlyRow, RowMoves, Touched, Active, Ended
  <1>3. WindowIsPast'
    BY DEF BootInv, WindowIsPast, OnlyRow, RowMoves, Ended, PlannedRow, InWindow
  <1>4. PassIsCurrent'
    BY PassTypes DEF BootInv, PassIsCurrent, OnlyRow, RowMoves, Touched, Ended, TypeOK
  <1> QED  BY <1>1, <1>2, <1>3, <1>4 DEF BootInv

\* The steps of a jobnet keep the invariant.
LEMMA JobnetInv ==
  ASSUME BootInv, NEW r \in Row, JobnetNext(r) \/ JobnetFails(r)
  PROVE  BootInv'
  <1>0. TypeOK /\ TypeOK'
    BY JobnetTypes DEF BootInv
  <1>a. sum[r].status # "NONE" => net[r] # "NONE"
    BY DEF BootInv, RowsLiveOnce
  <1>1. CASE jajobnet_summary_ready(r)
    <2>1. SumSets(r, "RUN", sum[r].load, sum[r].pending, sum[r].sched, 0)
      BY <1>0, <1>1, JobnetSum
    <2>2. OnlyRow(r)
      BY <1>0, <1>1, <2>1 DEF jajobnet_summary_ready, Jobnets, OnlyRow, SumSets, TypeOK, ghosts
    <2>3. RowMoves(r)
      BY <1>0, <1>1, <1>a, <2>1
      DEF jajobnet_summary_ready, Jobnets, RowMoves, SumSets, TypeOK, ghosts,
          BootInv, RowsLiveOnce, TouchedRows, NotStarted, Touched, Active, Ended
    <2> QED  BY <1>0, <2>2, <2>3, RowStep
  <1>2. CASE jajobnet_ready(r) \/ JarunStart(r) \/ JobnetFails(r)
    <2>1. OnlyRow(r)
      BY <1>0, <1>2
      DEF jajobnet_ready, JarunStart, JobnetFails, Jobnets, OnlyRow, TypeOK, ghosts
    <2>2. net[r] # "NONE" /\ net'[r] # "NONE"
      BY <1>0, <1>2 DEF jajobnet_ready, JarunStart, JobnetFails, TypeOK
    <2>3. UNCHANGED <<sum, now, boot, starts, delayed, stopped, raced>>
      BY <1>2 DEF jajobnet_ready, JarunStart, JobnetFails, Jobnets, ghosts
    <2>4. RowMoves(r)
      BY <1>0, <2>2, <2>3
      DEF RowMoves, TypeOK, BootInv, RowsLiveOnce, TouchedRows, NotStarted, Touched, Active, Ended
    <2> QED  BY <1>0, <2>1, <2>4, RowStep
  <1>3. CASE JobnetEnds(r) \/ jajobnet_kill(r)
    <2>1. PICK st \in {"END", "ENDERR"} :
            SumSets(r, st, sum[r].load, sum[r].pending, sum[r].sched, now)
      BY <1>0, <1>3, JobnetSum
    <2>2. OnlyRow(r)
      BY <1>0, <1>3, <2>1 DEF JobnetEnds, jajobnet_kill, Jobnets, OnlyRow, SumSets, TypeOK, ghosts
    <2>3. net[r] # "NONE" /\ net'[r] # "NONE"
      BY <1>0, <1>3, <1>a DEF JobnetEnds, jajobnet_kill, TypeOK
    <2>4. UNCHANGED <<now, boot, starts, delayed, stopped, raced>>
      BY <1>3 DEF JobnetEnds, jajobnet_kill, Jobnets, ghosts
    <2>5. RowMoves(r)
      BY <1>0, <2>1, <2>3, <2>4
      DEF RowMoves, SumSets, TypeOK, BootInv, RowsLiveOnce, TouchedRows, NotStarted, Touched, Active, Ended
    <2> QED  BY <1>0, <2>2, <2>5, RowStep
  <1> QED  BY <1>1, <1>2, <1>3 DEF JobnetNext

\* The steps of the operator keep the invariant.
LEMMA OperatorInv ==
  ASSUME BootInv, NEW r \in Row, OperatorNext(r) \/ DelayedStart(r)
  PROVE  BootInv'
  <1>0. TypeOK /\ TypeOK'
    BY OperatorTypes DEF BootInv
  <1>a. sum[r].status # "NONE" \/ delayed[r] > 0 => net[r] # "NONE"
    BY <1>0 DEF BootInv, RowsLiveOnce, TypeOK
  <1>b. sum[r].status = "BEGIN" => delayed[r] = 0
    BY <1>0 DEF BootInv, TouchedRows, Active, Ended, TypeOK
  <1> USE DEF Operates, GoesOn
  <1>1. CASE StopRunningJobnet(r)
    <2>1. SumSets(r, sum[r].status, sum[r].load, sum[r].pending, sum[r].sched, sum[r].end)
      BY <1>0, <1>1, OperatorSum
    <2>2. OnlyRow(r)
      BY <1>0, <1>1, <2>1 DEF StopRunningJobnet, OnlyRow, SumSets, TypeOK
    <2>3. RowMoves(r)
      BY <1>0, <1>1, <1>a, <2>1
      DEF StopRunningJobnet, RowMoves, SumSets, TypeOK, BootInv, RowsLiveOnce, TouchedRows,
          NotStarted, Touched, Active, Ended
    <2> QED  BY <1>0, <2>2, <2>3, RowStep
  <1>2. CASE StopUnexecutedJobnet(r)
    <2>1. SumSets(r, "ENDERR", sum[r].load, sum[r].pending, sum[r].sched, now)
      BY <1>0, <1>2, OperatorSum
    <2>2. OnlyRow(r)
      BY <1>0, <1>2, <2>1 DEF StopUnexecutedJobnet, Race, OnlyRow, SumSets, TypeOK
    <2>3. RowMoves(r)
      BY <1>0, <1>2, <1>a, <1>b, <2>1
      DEF StopUnexecutedJobnet, Race, Held, RowMoves, SumSets, TypeOK, BootInv, RowsLiveOnce,
          NotStarted, Touched, Active, Ended
    <2> QED  BY <1>0, <2>2, <2>3, RowStep
  <1>3. CASE SetReserveJobnet(r)
    <2>1. SumSets(r, sum[r].status, sum[r].load, "ON", sum[r].sched, sum[r].end)
      BY <1>0, <1>3, OperatorSum
    <2>2. OnlyRow(r)
      BY <1>0, <1>3, <2>1 DEF SetReserveJobnet, Race, OnlyRow, SumSets, TypeOK
    <2>3. RowMoves(r)
      BY <1>0, <1>3, <1>a, <1>b, <2>1
      DEF SetReserveJobnet, Race, Held, RowMoves, SumSets, TypeOK, BootInv, RowsLiveOnce,
          NotStarted, Touched, Active, Ended
    <2> QED  BY <1>0, <2>2, <2>3, RowStep
  <1>4. CASE SetReleaseJobnet(r)
    <2>1. SumSets(r, sum[r].status, sum[r].load, "OFF", sum[r].sched, sum[r].end)
      BY <1>0, <1>4, OperatorSum
    <2>2. OnlyRow(r)
      BY <1>0, <1>4, <2>1 DEF SetReleaseJobnet, OnlyRow, SumSets, TypeOK
    <2>3. RowMoves(r)
      BY <1>0, <1>4, <1>a, <1>b, <2>1
      DEF SetReleaseJobnet, RowMoves, SumSets, TypeOK, BootInv, RowsLiveOnce,
          NotStarted, Touched, Active, Ended
    <2> QED  BY <1>0, <2>2, <2>3, RowStep
  <1>5. ASSUME NEW t \in now..MaxTime, SetScheduledTime(r, t)  PROVE BootInv'
    <2>1. SumSets(r, sum[r].status, sum[r].load, sum[r].pending, t, sum[r].end)
      <3>1. t \in Nat
        BY <1>0, BootShape, Times DEF BootShape
      <3> QED  BY <1>0, <1>5, <3>1, OperatorSum
    <2>2. OnlyRow(r)
      BY <1>0, <1>5, <2>1 DEF SetScheduledTime, OnlyRow, SumSets, TypeOK
    <2>3. RowMoves(r)
      BY <1>0, <1>5, <1>a, <1>b, <2>1
      DEF SetScheduledTime, RowMoves, SumSets, TypeOK, BootInv, RowsLiveOnce,
          NotStarted, Touched, Active, Ended
    <2> QED  BY <1>0, <2>2, <2>3, RowStep
  <1>6. CASE SetJaRunJobnetTableStatus(r)
    <2>1. OnlyRow(r)
      BY <1>0, <1>6 DEF SetJaRunJobnetTableStatus, OnlyRow, TypeOK
    <2>2. RowMoves(r)
      BY <1>0, <1>6, <1>a
      DEF SetJaRunJobnetTableStatus, RowMoves, TypeOK, BootInv, RowsLiveOnce, TouchedRows,
          NotStarted, Touched, Active, Ended
    <2> QED  BY <1>0, <2>1, <2>2, RowStep
  <1>7. CASE SetJaRunJobnetSummaryTableStatus(r)
    <2>1. SumSets(r, "READY", "NORMAL", sum[r].pending, sum[r].sched, sum[r].end)
      BY <1>0, <1>7, OperatorSum
    <2>2. OnlyRow(r)
      BY <1>0, <1>7, <2>1 DEF SetJaRunJobnetSummaryTableStatus, OnlyRow, SumSets, TypeOK
    <2>3. RowMoves(r)
      BY <1>0, <1>7, <1>a, <2>1
      DEF SetJaRunJobnetSummaryTableStatus, RowMoves, SumSets, TypeOK, BootInv, RowsLiveOnce,
          TouchedRows, NotStarted, Touched, Active, Ended
    <2> QED  BY <1>0, <2>2, <2>3, RowStep
  <1>8. CASE SetJaRunJobTableStatus(r)
    <2>1. OnlyRow(r)
      BY <1>0, <1>8 DEF SetJaRunJobTableStatus, OnlyRow, TypeOK
    <2>2. RowMoves(r)
      BY <1>0, <1>8, <1>a
      DEF SetJaRunJobTableStatus, RowMoves, TypeOK, BootInv, RowsLiveOnce, TouchedRows,
          NotStarted, Touched, Active, Ended
    <2> QED  BY <1>0, <2>1, <2>2, RowStep
  <1>9. CASE DelayedContextMenu(r)
    <2>1. OnlyRow(r)
      BY <1>0, <1>9 DEF DelayedContextMenu, OnlyRow, TypeOK
    <2>2. RowMoves(r)
      BY <1>0, <1>9, <1>a
      DEF DelayedContextMenu, RowMoves, TypeOK, BootInv, RowsLiveOnce, TouchedRows,
          NotStarted, Touched, Active, Ended
    <2> QED  BY <1>0, <2>1, <2>2, RowStep
  <1> QED  BY <1>1, <1>2, <1>3, <1>4, <1>5, <1>6, <1>7, <1>8, <1>9 DEF OperatorNext, DelayedStart

\* What jaboot does with a row it has selected to be started keeps the
\* invariant.
LEMMA StartInv ==
  ASSUME BootInv, NEW s \in boot.todo,
         error_state_jobnet(s) \/ skip_state_jobnet(s) \/ delay_state_jobnet(s) \/ start_jobnet(s)
  PROVE  BootInv'
  <1> DEFINE r == s.row
  <1>0. TypeOK /\ TypeOK' /\ r \in Row
    BY JabootTypes, PassTypes DEF BootInv, JabootNext
  <1>1. /\ boot.does = "boot" /\ boot'.does = "boot" /\ boot'.todo = boot.todo \ {s}
        /\ ~\E q \in boot'.todo : q.row = r
        /\ UNCHANGED <<now, loader, trap, delayed, stopped, raced, regs>>
    <2>1. Done(s) /\ NextRow(s) /\ Jaboot
      BY DEF error_state_jobnet, skip_state_jobnet, delay_state_jobnet, start_jobnet
    <2>2. boot.does = "boot" /\ boot'.does = "boot" /\ boot'.todo = boot.todo \ {s}
      BY <1>0, <2>1, DoneTypes DEF NextRow
    <2>3. ~\E q \in boot'.todo : q.row = r
      BY <2>2 DEF BootInv, PassIsCurrent
    <2> QED  BY <2>1, <2>2, <2>3 DEF Jaboot
  <1>2. net[r] # "NONE" /\ starts[r] = 0 /\ (Touched(r) => r \in raced)
    BY <1>1 DEF BootInv, PassIsCurrent
  <1> HIDE DEF r
  <1>3. CASE error_state_jobnet(s)
    <2>1. SumSets(r, "RUN", "DELAY", sum[r].pending, sum[r].sched, sum[r].end)
      BY <1>0, <1>3, JabootSum DEF r
    <2>2. UNCHANGED starts /\ net' = [net EXCEPT ![r] = "RUNERR"]
      BY <1>3 DEF error_state_jobnet, r
    <2>3. OnlyRow(r)
      BY <1>0, <1>1, <2>1, <2>2 DEF OnlyRow, SumSets, TypeOK
    <2>4. RowMoves(r)
      BY <1>0, <1>1, <1>2, <2>1, <2>2
      DEF RowMoves, SumSets, TypeOK, NotStarted, Touched, Active, Ended
    <2> QED  BY <1>0, <2>3, <2>4, RowStep
  <1>4. CASE skip_state_jobnet(s)
    <2>1. SumSets(r, "END", "SKIP", sum[r].pending, sum[r].sched, now)
      BY <1>0, <1>4, JabootSum DEF r
    <2>2. UNCHANGED starts /\ net' = [net EXCEPT ![r] = "END"]
      BY <1>4 DEF skip_state_jobnet, r
    <2>3. OnlyRow(r)
      BY <1>0, <1>1, <2>1, <2>2 DEF OnlyRow, SumSets, TypeOK
    <2>4. RowMoves(r)
      BY <1>0, <1>1, <1>2, <2>1, <2>2
      DEF RowMoves, SumSets, TypeOK, NotStarted, Touched, Active, Ended
    <2> QED  BY <1>0, <2>3, <2>4, RowStep
  <1>5. CASE delay_state_jobnet(s)
    <2>1. SumSets(r, sum[r].status, "DELAY", sum[r].pending, sum[r].sched, sum[r].end)
      BY <1>0, <1>5, JabootSum DEF r
    <2>2. UNCHANGED <<starts, net>>
      BY <1>5 DEF delay_state_jobnet
    <2>3. OnlyRow(r)
      BY <1>0, <1>1, <2>1, <2>2 DEF OnlyRow, SumSets, TypeOK
    <2>4. RowMoves(r)
      BY <1>0, <1>1, <1>2, <2>1, <2>2
      DEF RowMoves, SumSets, TypeOK, BootInv, RowsLiveOnce, TouchedRows, NotStarted, Touched,
          Active, Ended
    <2> QED  BY <1>0, <2>3, <2>4, RowStep
  <1>6. CASE start_jobnet(s)
    <2>1. SumSets(r, "READY", "NORMAL", sum[r].pending, sum[r].sched, sum[r].end)
      BY <1>0, <1>6, JabootSum DEF r
    <2>2. UNCHANGED net /\ starts' = [starts EXCEPT ![r] = @ + 1]
      BY <1>6 DEF start_jobnet, r
    <2>3. OnlyRow(r)
      BY <1>0, <1>1, <2>1, <2>2 DEF OnlyRow, SumSets, TypeOK
    <2>4. RowMoves(r)
      BY <1>0, <1>1, <1>2, <2>1, <2>2
      DEF RowMoves, SumSets, TypeOK, NotStarted, Touched, Active, Ended
    <2> QED  BY <1>0, <2>3, <2>4, RowStep
  <1> QED  BY <1>3, <1>4, <1>5, <1>6

\* A pass of jaboot begins, goes on to the starts, or is forgotten; a row that
\* ended long ago is removed.  With KeepSpan > 0 no delayed start works on it,
\* and with KeepSpan > LoadSpan + MaxPass no pass of jaloader finds it again.
LEMMA JabootInv ==
  ASSUME KeepSpan > LoadSpan + MaxPass, BootInv, JabootNext \/ JabootRestart
  PROVE  BootInv'
  <1>0. TypeOK /\ TypeOK'
    BY JabootTypes DEF BootInv
  <1>a. KeepSpan \in Nat /\ LoadSpan \in Nat /\ MaxPass \in Nat /\ now \in Nat
        /\ \A r \in Row : Time[r] \in Nat
    BY <1>0, BootShape, Times DEF BootShape
  <1>1. ASSUME UNCHANGED <<now, tables, loader, trap, delayed, regs, starts, stopped, raced>>,
               PassIsCurrent'
        PROVE  BootInv'
    <2>1. RowsLiveOnce' /\ TouchedRows'
      BY <1>1 DEF tables, BootInv, RowsLiveOnce, TouchedRows, NotStarted, Touched, Active, Ended
    <2>2. WindowIsPast'
      BY <1>1 DEF tables, BootInv, WindowIsPast, Ended, InWindow
    <2> QED  BY <1>0, <1>1, <2>1, <2>2 DEF BootInv
  <1>2. CASE JabootRestart
    <2>1. PassIsCurrent'
      BY <1>2 DEF JabootRestart, PassIsCurrent
    <2> QED  BY <1>1, <1>2, <2>1 DEF JabootRestart, ghosts
  <1>3. CASE JabootPurge
    <2>0. UNCHANGED <<now, tables, loader, trap, delayed, regs, starts, stopped, raced>>
      BY <1>3 DEF JabootPurge, Jaboot
    <2>1. boot'.does = "purge" /\ boot'.todo = {Selected(r) : r \in {q \in Row : Expired(q)}}
      BY <1>3 DEF JabootPurge
    <2>2. \A s \in boot'.todo : s.row \in Row /\ Expired(s.row) /\ s = Selected(s.row)
      BY <2>1 DEF Selected
    <2>3. ASSUME NEW r \in Row, Expired(r)
          PROVE  /\ Ended(r) /\ delayed[r] = 0 /\ net[r] # "NONE"
                 /\ sum[r].end + KeepSpan <= now
                 /\ r \in PlannedRow => Time[r] <= sum[r].end + LoadSpan
      <3>1. sum[r].end \in Nat
        BY <1>0 DEF TypeOK, Summary
      <3>2. Ended(r) /\ sum[r].end + KeepSpan <= now
        BY <1>a, <2>3, <3>1 DEF Expired, Ended
      <3>3. delayed[r] = 0
        BY <1>0, <1>a, <3>1, <3>2 DEF BootInv, TouchedRows, Active, Ended, TypeOK
      <3> QED  BY <3>2, <3>3 DEF BootInv, RowsLiveOnce, WindowIsPast, Ended
    <2>4. PassIsCurrent'
      BY <2>0, <2>1, <2>2, <2>3 DEF PassIsCurrent, Selected, Ended, tables
    <2> QED  BY <1>1, <2>0, <2>4
  <1>4. CASE JabootSelect
    <2>0. UNCHANGED <<now, tables, loader, trap, delayed, regs, starts, stopped, raced>>
      BY <1>4 DEF JabootSelect, Jaboot
    <2> DEFINE due == {Selected(r) : r \in {q \in Row : Due(q)}}
    <2>1. boot'.does = "boot" /\ boot'.todo = due
      <3>1. boot' = Rest([boot EXCEPT !.does = "boot", !.todo = due])
        BY <1>4 DEF JabootSelect
      <3> HIDE DEF due
      <3> QED  BY <1>0, <3>1 DEF Rest, TypeOK
    <2>2. \A s \in boot'.todo : s.row \in Row /\ Due(s.row) /\ s = Selected(s.row)
      BY <2>1 DEF Selected
    <2>3. ASSUME NEW r \in Row, Due(r)
          PROVE  net[r] # "NONE" /\ starts[r] = 0 /\ ~Touched(r)
      BY <2>3 DEF Due, BootInv, RowsLiveOnce, NotStarted, Touched
    <2>4. PassIsCurrent'
      BY <2>0, <2>1, <2>2, <2>3 DEF PassIsCurrent, Selected, Touched, tables
    <2> QED  BY <1>1, <2>0, <2>4
  <1>5. ASSUME NEW s \in boot.todo, jobnet_purge(s)  PROVE BootInv'
    <2> DEFINE r == s.row
    <2>1. r \in Row /\ boot.does = "purge" /\ boot'.does = "purge" /\ boot'.todo = boot.todo \ {s}
      BY <1>0, <1>5, PassTypes, DoneTypes DEF jobnet_purge
    <2>2. /\ \A q \in boot'.todo : q.row # r
          /\ s.sum.end + KeepSpan <= now
          /\ r \in PlannedRow => Time[r] <= s.sum.end + LoadSpan
          /\ Ended(r) /\ delayed[r] = 0
      BY <2>1 DEF BootInv, PassIsCurrent
    <2>3. UNCHANGED <<now, loader, trap, delayed, stopped, raced, regs, starts>>
      BY <1>5 DEF jobnet_purge, Jaboot
    <2>4. CASE UNCHANGED <<sum, net>>
      <3>1. RowsLiveOnce' /\ TouchedRows'
        BY <2>3, <2>4 DEF BootInv, RowsLiveOnce, TouchedRows, NotStarted, Touched, Active, Ended
      <3>2. WindowIsPast'
        BY <2>3, <2>4 DEF BootInv, WindowIsPast, Ended, InWindow
      <3>3. PassIsCurrent'
        BY <2>1, <2>3, <2>4 DEF BootInv, PassIsCurrent, Ended
      <3> QED  BY <1>0, <3>1, <3>2, <3>3 DEF BootInv
    <2>5. CASE net' = [net EXCEPT ![r] = "NONE"] /\ SumSets(r, "NONE", "NORMAL", "NONE", 0, 0)
      <3>1. RowsLiveOnce' /\ TouchedRows'
        BY <1>0, <2>1, <2>2, <2>3, <2>5
        DEF BootInv, RowsLiveOnce, TouchedRows, NotStarted, Touched, Active, Ended, SumSets, TypeOK
      <3>2. r \in PlannedRow => now > Time[r] + MaxPass
        <4>1. s.sum.end \in Nat
          BY <1>0, PassTypes DEF Summary
        <4> QED  BY <1>a, <2>1, <2>2, <4>1
      <3>3. WindowIsPast'
        BY <1>0, <2>1, <2>3, <2>5, <3>2
        DEF BootInv, WindowIsPast, Ended, InWindow, PlannedRow, SumSets, TypeOK
      <3>4. PassIsCurrent'
        BY <1>0, <2>1, <2>2, <2>3, <2>5, PassTypes
        DEF BootInv, PassIsCurrent, Ended, SumSets, TypeOK
      <3> QED  BY <1>0, <3>1, <3>3, <3>4 DEF BootInv
    <2> QED  BY <1>0, <1>5, <2>1, <2>4, <2>5, SetNone DEF jobnet_purge, TypeOK
  <1> QED  BY <1>2, <1>3, <1>4, <1>5, StartInv DEF JabootNext

\* The clock, jaloader and the requests keep the invariant.  A row that is still
\* in a pass of jaloader has not been removed since the pass began.
LEMMA RegistrationInv ==
  ASSUME BootInv, Tick \/ RegistrationNext
  PROVE  BootInv'
  <1>0. TypeOK /\ TypeOK'
    BY RegistrationTypes DEF BootInv
  <1>a. LoadSpan \in Nat /\ MaxPass \in Nat /\ KeepSpan \in Nat /\ now \in Nat
        /\ (\A r \in Row : Time[r] \in Nat) /\ loader.date \in Nat
    BY <1>0, BootShape, Times DEF BootShape, TypeOK
  <1>1. CASE Tick
    <2>1. UNCHANGED <<tables, loader, boot, trap, delayed, ghosts>> /\ now' = now + 1
          /\ \A r \in Row : delayed[r] = 0
      BY <1>1 DEF Tick
    <2>2. RowsLiveOnce' /\ TouchedRows'
      BY <2>1 DEF tables, ghosts, BootInv, RowsLiveOnce, TouchedRows, NotStarted, Touched, Active
    <2>3. WindowIsPast'
      <3>1. \A r \in Row : sum[r].end \in Nat
        BY <1>0 DEF TypeOK, Summary
      <3> QED  BY <1>1, <1>a, <2>1, <3>1
               DEF Tick, tables, ghosts, BootInv, WindowIsPast, Ended, InWindow, PlannedRow
    <2>4. PassIsCurrent'
      <3>1. \A s \in boot.todo : s.sum.end \in Nat
        BY <1>0, PassTypes DEF Summary
      <3> QED  BY <1>a, <2>1, <3>1
               DEF tables, ghosts, BootInv, PassIsCurrent, Touched, Ended
    <2> QED  BY <1>0, <2>2, <2>3, <2>4 DEF BootInv
  <1>2. CASE jobnet_load_schedule
    <2>1. UNCHANGED <<now, tables, boot, trap, delayed, regs, starts, stopped, raced>>
      BY <1>2 DEF jobnet_load_schedule, Registration
    <2>2. loader'.date = now /\ \A r \in loader'.todo : InWindow(r, now)
      BY <1>2 DEF jobnet_load_schedule
    <2>3. RowsLiveOnce' /\ TouchedRows' /\ PassIsCurrent'
      BY <2>1 DEF tables, BootInv, RowsLiveOnce, TouchedRows, PassIsCurrent, NotStarted, Touched,
                  Active, Ended
    <2>4. WindowIsPast'
      BY <1>a, <2>1, <2>2 DEF tables, BootInv, WindowIsPast, Ended, InWindow
    <2> QED  BY <1>0, <2>3, <2>4 DEF BootInv
  <1>3. ASSUME NEW r \in Row, evaluate_jobnetrun(r)  PROVE BootInv'
    <2>1. UNCHANGED <<now, tables, loader, boot, delayed, regs, starts, stopped, raced>>
      BY <1>3 DEF evaluate_jobnetrun, Registration
    <2>2. RowsLiveOnce' /\ TouchedRows' /\ PassIsCurrent'
      BY <1>3, <2>1 DEF evaluate_jobnetrun, tables, BootInv, RowsLiveOnce, TouchedRows,
                        PassIsCurrent, NotStarted, Touched, Active, Ended
    <2>3. WindowIsPast'
      BY <2>1 DEF tables, BootInv, WindowIsPast, Ended, InWindow
    <2> QED  BY <1>0, <2>2, <2>3 DEF BootInv
  <1>4. ASSUME NEW r \in Row, jobnet_load_immediate(r)  PROVE BootInv'
    <2>1. UNCHANGED <<now, loader, boot, trap, delayed, regs, starts, stopped, raced>>
      BY <1>4 DEF jobnet_load_immediate, Registration
    <2>2. net[r] = "BEGIN" /\ sum[r].status = "NONE" /\ net'[r] # "NONE"
          /\ \A q \in Row : q # r => net'[q] = net[q]
      BY <1>0, <1>4 DEF jobnet_load_immediate, TypeOK
    <2>3. starts[r] = 0 /\ r \notin stopped /\ delayed[r] = 0
      BY <1>0, <2>2 DEF BootInv, RowsLiveOnce, TouchedRows, NotStarted, Active, Ended, TypeOK
    <2>4. CASE SumSets(r, "ENDERR", "ERROR", sum[r].pending, sum[r].sched, now)
      <3>1. OnlyRow(r)
        BY <2>1, <2>2, <2>4 DEF OnlyRow, SumSets
      <3>2. RowMoves(r)
        BY <2>1, <2>2, <2>3, <2>4
        DEF RowMoves, SumSets, NotStarted, Touched, Active, Ended
      <3> QED  BY <1>0, <3>1, <3>2, RowStep
    <2>5. CASE SumSets(r, "BEGIN", "NORMAL", "NONE", Time[r], 0)
      <3>1. OnlyRow(r)
        BY <2>1, <2>2, <2>5 DEF OnlyRow, SumSets
      <3>2. RowMoves(r)
        BY <2>1, <2>2, <2>3, <2>5
        DEF RowMoves, SumSets, NotStarted, Touched, Active, Ended
      <3> QED  BY <1>0, <3>1, <3>2, RowStep
    <2> QED  BY <1>0, <1>4, <2>4, <2>5, RegistrationSum
  \* A new row: it was never registered before.
  <1>5. ASSUME NEW r \in Row, net[r] = "NONE", regs[r] = 0,
               regs' = [regs EXCEPT ![r] = 1], net' = [net EXCEPT ![r] = "BEGIN"],
               sum'[r].status \in {"NONE", "BEGIN"},
               \A q \in Row : q # r => sum'[q] = sum[q],
               UNCHANGED <<now, boot, delayed, starts, stopped, raced>>,
               r \notin trap', trap' \subseteq trap,
               loader'.todo \subseteq loader.todo,
               loader'.todo # {} => loader'.date = loader.date,
               r \in PlannedRow => Time[r] <= now + LoadSpan
        PROVE  BootInv'
    <2>1. starts[r] = 0 /\ r \notin stopped /\ delayed[r] = 0
      BY <1>5 DEF BootInv, RowsLiveOnce
    <2>2. \A s \in boot.todo : s.row \in Row /\ s.row # r
      BY <1>0, <1>5, PassTypes DEF BootInv, PassIsCurrent
    <2>3. RowsLiveOnce'
      BY <1>0, <1>5, <2>1 DEF BootInv, RowsLiveOnce, NotStarted, TypeOK
    <2>4. TouchedRows'
      BY <1>0, <1>5, <2>1 DEF BootInv, TouchedRows, Touched, Active, Ended, TypeOK
    <2>5. WindowIsPast'
      BY <1>0, <1>5 DEF BootInv, WindowIsPast, Ended, InWindow, PlannedRow, TypeOK
    <2>6. PassIsCurrent'
      BY <1>0, <1>5, <2>2 DEF BootInv, PassIsCurrent, Touched, Ended, TypeOK
    <2> QED  BY <1>0, <2>3, <2>4, <2>5, <2>6 DEF BootInv
  <1>6. ASSUME NEW r \in Row, InsertRunJobnet(r) \/ register_db_table(r)  PROVE BootInv'
    <2>1. Insert(r) /\ regs[r] = 0 /\ r \notin PlannedRow
      BY <1>0, <1>6
      DEF InsertRunJobnet, register_db_table, BootInv, RowsLiveOnce, TypeOK, PlannedRow, TimedRow,
          ImmediateRow
    <2>2. net[r] = "NONE" /\ sum[r].status = "NONE"
      BY <2>1 DEF BootInv, RowsLiveOnce
    <2>3. SumSets(r, sum[r].status, sum[r].load, sum[r].pending, Time[r], sum[r].end)
      BY <1>0, <2>1, RegistrationSum
    <2>4. trap' \subseteq trap /\ r \notin trap'
      BY <1>0, <1>6
      DEF InsertRunJobnet, register_db_table, TypeOK, TimedRow, ImmediateRow
    <2> QED  BY <1>5, <2>1, <2>2, <2>3, <2>4 DEF Insert, Registration, SumSets
  <1>7. ASSUME NEW r \in Row, load_jobnet_definition(r)  PROVE BootInv'
    <2>1. /\ r \in loader.todo /\ r \in PlannedRow
          /\ loader'.todo \subseteq loader.todo
          /\ loader'.todo # {} => loader'.date = loader.date
      BY <1>0, <1>7 DEF load_jobnet_definition, Rest, TypeOK
    <2>2. UNCHANGED <<now, boot, trap, delayed, starts, stopped, raced>>
      BY <1>7 DEF load_jobnet_definition, Registration
    <2>3. CASE UNCHANGED <<sum, net, regs>>
      <3>1. RowsLiveOnce' /\ TouchedRows' /\ PassIsCurrent'
        BY <2>2, <2>3 DEF BootInv, RowsLiveOnce, TouchedRows, PassIsCurrent, NotStarted, Touched,
                          Active, Ended
      <3>2. WindowIsPast'
        BY <2>1, <2>2, <2>3 DEF BootInv, WindowIsPast, Ended, InWindow
      <3> QED  BY <1>0, <3>1, <3>2 DEF BootInv
    <2>4. CASE net[r] = "NONE" /\ r \notin Invalid
      <3>1. regs[r] = 0
        <4>1. InWindow(r, loader.date) /\ now <= loader.date + MaxPass
          BY <2>1 DEF BootInv, WindowIsPast
        <4>2. ~(now > Time[r] + MaxPass)
          BY <1>a, <4>1 DEF InWindow
        <4> QED  BY <1>0, <2>1, <2>4, <4>2 DEF BootInv, WindowIsPast, TypeOK
      <3>2. Time[r] <= now + LoadSpan
        BY <1>a, <2>1 DEF BootInv, WindowIsPast, InWindow
      <3>3. SumSets(r, "BEGIN", "NORMAL", "NONE", Time[r], 0)
        BY <1>0, <1>7, <2>4, RegistrationSum
      <3>4. regs' = [regs EXCEPT ![r] = 1] /\ net' = [net EXCEPT ![r] = "BEGIN"]
        BY <1>0, <1>7, <2>4, <3>1 DEF load_jobnet_definition, TypeOK
      <3>5. r \notin trap
        BY <1>0, <2>1 DEF TypeOK, PlannedRow, TimedRow
      <3> QED  BY <1>5, <2>1, <2>2, <2>4, <3>1, <3>2, <3>3, <3>4, <3>5 DEF SumSets
    <2> QED  BY <1>7, <2>3, <2>4 DEF load_jobnet_definition, tables
  <1> QED  BY <1>1, <1>2, <1>3, <1>4, <1>6, <1>7 DEF RegistrationNext

\* The invariant that the next two theorems rest on.  The hypothesis is about
\* the settings: a row must be kept (JOBNET_KEEP_SPAN) longer than jaloader looks
\* ahead (JOBNET_LOAD_SPAN) and may take for a pass.
THEOREM BootInvariant ==
  ASSUME KeepSpan > LoadSpan + MaxPass
  PROVE  Spec => []BootInv
  <1>1. BootInv /\ [Next]_vars => BootInv'
    <2> SUFFICES ASSUME BootInv, [Next]_vars  PROVE BootInv'
      OBVIOUS
    <2>1. CASE UNCHANGED vars
      BY <2>1 DEF vars, BootInv, TypeOK, RowsLiveOnce, TouchedRows, WindowIsPast, PassIsCurrent,
                  NotStarted, Touched, Active, Ended, InWindow
    <2> QED  BY <2>1, RegistrationInv, JabootInv, JobnetInv, OperatorInv DEF Next
  <1> QED  BY <1>1, BootInvInit, PTL DEF Spec

\* A planned start is registered once and started once, a request too: with
\* these settings its row is removed only when jaloader cannot meet it again.
THEOREM PlannedOnceCorrect ==
  ASSUME KeepSpan > LoadSpan + MaxPass
  PROVE  Spec => []PlannedOnce
  <1>1. BootInv => PlannedOnce
    BY DEF BootInv, RowsLiveOnce, PlannedOnce
  <1> QED  BY <1>1, BootInvariant, PTL

\* A jobnet that the operator stopped before its start, or holds, becomes active
\* only when jaboot had selected it before: the race between the select of
\* jobnet_boot and its updates is the only one.
THEOREM OperatorIsObeyedCorrect ==
  ASSUME KeepSpan > LoadSpan + MaxPass
  PROVE  Spec => []OperatorIsObeyed
  <1>1. BootInv => OperatorIsObeyed
    BY DEF BootInv, TouchedRows, Touched, OperatorIsObeyed
  <1> QED  BY <1>1, BootInvariant, PTL
=============================================================================
