--------------------------- MODULE SessionsProof ---------------------------
(***************************************************************************)
(* Theorems about Sessions, for every set of icons and sessions and every  *)
(* bound.                                                                  *)
(***************************************************************************)
EXTENDS Sessions, TLAPS

RowType == Row \cup {NoRow}
StatusType == {"BEGIN", "READY", "RUN", "END", "RUNERR"}

\* A step writes the row of session s and of no other, with these values.
RowSets(s, st, icon, pid) ==
  /\ row' \in [Session -> RowType]
  /\ \A t \in Session : t # s => row'[t] = row[t]
  /\ row'[s] # NoRow
  /\ row'[s].status = st /\ row'[s].icon = icon /\ row'[s].pid = pid

\* A step deletes the rows of the sessions S.
RowsGone(S) ==
  /\ row' \in [Session -> RowType]
  /\ \A t \in Session : row'[t] = IF t \in S THEN NoRow ELSE row[t]

\* Process p goes on as q.
Turns(p, q) ==
  /\ q \in Process /\ q.pid = p.pid /\ q.session = p.session
  /\ procs' = (procs \ {p}) \cup {q}

\* The icons after ja_set_runerr and ja_flow.
StatusSets(i, st) ==
  /\ status' \in [Icon -> StatusType]
  /\ status'[i] = st
  /\ \A k \in Icon : k # i => \/ status'[k] = status[k]
                             \/ /\ status[k] = "BEGIN" /\ status'[k] = "READY"
                                /\ jobnet.net = "RUN"

LEMMA RowCases ==
  ASSUME TypeOK, NEW s \in Session, row[s] # NoRow
  PROVE  /\ row[s] \in Row /\ row[s].status \in {"BEGIN", "END"}
         /\ row[s].icon \in Icon /\ row[s].pid \in Nat
  BY DEF TypeOK, Row

LEMMA RowIsSomething ==
  ASSUME NEW r \in Row
  PROVE  r # NoRow /\ r \in RowType
  BY DEF Row, NoRow, RowType

LEMMA RowWrite ==
  ASSUME TypeOK, NEW s \in Session, NEW r \in Row, row' = [row EXCEPT ![s] = r]
  PROVE  RowSets(s, r.status, r.icon, r.pid)
  <1>1. r # NoRow /\ r \in RowType
    BY RowIsSomething
  <1>2. row \in [Session -> RowType]
    BY DEF TypeOK, RowType
  <1> QED  BY <1>1, <1>2 DEF RowSets

LEMMA RowsDeleted ==
  ASSUME TypeOK, NEW S \in SUBSET Session, row' = Deleted(S)
  PROVE  RowsGone(S)
  BY DEF TypeOK, Deleted, RowsGone, RowType

LEMMA IconFacts ==
  ASSUME NEW i \in Icon
  PROVE  /\ SessionOf[i] \in Session
         /\ Flag[i] \in {"ONETIME", "CONNECT", "CONTINUE", "CLOSE"}
  BY SessionsShape DEF SessionsShape

LEMMA ProcessFields ==
  ASSUME TypeOK, NEW p \in procs
  PROVE  /\ p \in Process /\ p.session \in Session /\ p.pid \in Nat /\ p.pid # 0
         /\ p.job \subseteq Icon
         /\ p.at \in {"main", "loop"} => p.job = {}
         /\ p.at \notin {"main", "loop"} => \E i \in Icon : p.job = {i}
         /\ p.at \in {"main", "loop", "connect", "exec", "read", "done"}
         /\ p.open \in BOOLEAN /\ p.ok \in BOOLEAN
  BY DEF TypeOK, Process

LEMMA RunerrSets ==
  ASSUME TypeOK, NEW i \in Icon, ja_set_runerr(i)
  PROVE  StatusSets(i, "RUNERR") /\ \A k \in Icon : k # i => status'[k] = status[k]
  BY DEF TypeOK, ja_set_runerr, StatusSets, StatusType

LEMMA FlowSets ==
  ASSUME TypeOK, NEW i \in Icon, ja_flow(i)
  PROVE  StatusSets(i, IF jobnet.net = "RUN" THEN "END" ELSE "RUNERR")
  <1>1. CASE jobnet.net # "RUN"
    BY <1>1, RunerrSets DEF ja_flow
  <1>2. CASE jobnet.net = "RUN"
    <2> DEFINE ended == [status EXCEPT ![i] = "END"]
               Entered(k) == /\ i \in Before[k] /\ ended[k] = "BEGIN"
                             /\ \A b \in Before[k] : ended[b] = "END"
    <2>1. status' = [k \in Icon |-> IF Entered(k) THEN "READY" ELSE ended[k]]
      BY <1>2 DEF ja_flow
    <2>2. \A k \in Icon : Entered(k) => ended[k] = "BEGIN"
      OBVIOUS
    <2>3. /\ ended \in [Icon -> StatusType] /\ ended[i] = "END"
          /\ \A k \in Icon : k # i => ended[k] = status[k]
      BY DEF TypeOK, StatusType
    <2> HIDE DEF ended, Entered
    <2> QED  BY <1>2, <2>1, <2>2, <2>3 DEF StatusSets, StatusType
  <1> QED  BY <1>1, <1>2
-----------------------------------------------------------------------------
(* What the steps do *)

LEMMA OpenSets ==
  ASSUME TypeOK, NEW i \in Icon, OpenSession(i)
  PROVE  /\ status[i] = "READY" /\ Opens(i) /\ launch = {}
         /\ runs' \in [Icon -> Nat] /\ runs'[i] = runs[i] + 1
         /\ \A k \in Icon : k # i => runs'[k] = runs[k]
         /\ \A k \in Icon : k # i => status'[k] = status[k]
         /\ \/ StatusSets(i, "RUNERR") /\ UNCHANGED <<row, launch>>
            \/ /\ row[SessionOf[i]] = NoRow /\ launch' = {i}
               /\ StatusSets(i, "RUN") /\ RowSets(SessionOf[i], "BEGIN", i, 0)
  <1>1. /\ status[i] = "READY" /\ Opens(i) /\ launch = {}
        /\ runs' \in [Icon -> Nat] /\ runs'[i] = runs[i] + 1
        /\ \A k \in Icon : k # i => runs'[k] = runs[k]
    BY DEF OpenSession, Starts, TypeOK
  <1>2. CASE RowOf(i) # NoRow
    <2>1. ja_set_runerr(i) /\ UNCHANGED <<row, launch>>
      BY <1>2 DEF OpenSession
    <2> QED  BY <1>1, <2>1, RunerrSets
  <1>3. CASE RowOf(i) = NoRow
    <2> DEFINE r == [status |-> "BEGIN", icon |-> i, force |-> FALSE, pid |-> 0]
    <2>1. /\ status' = [status EXCEPT ![i] = "RUN"] /\ launch' = {i}
          /\ row' = [row EXCEPT ![SessionOf[i]] = r]
      BY <1>3 DEF OpenSession
    <2>2. r \in Row /\ r.status = "BEGIN" /\ r.icon = i /\ r.pid = 0
      BY DEF Row
    <2>3. StatusSets(i, "RUN") /\ \A k \in Icon : k # i => status'[k] = status[k]
      BY <2>1 DEF TypeOK, StatusSets, StatusType
    <2> HIDE DEF r
    <2>4. RowSets(SessionOf[i], "BEGIN", i, 0)
      BY <2>1, <2>2, RowWrite, IconFacts
    <2> QED  BY <1>1, <1>3, <2>1, <2>3, <2>4 DEF RowOf
  <1> QED  BY <1>2, <1>3

LEMMA UseSets ==
  ASSUME TypeOK, NEW i \in Icon, UseSession(i)
  PROVE  /\ status[i] = "READY" /\ ~Opens(i)
         /\ runs' \in [Icon -> Nat] /\ runs'[i] = runs[i] + 1
         /\ \A k \in Icon : k # i => runs'[k] = runs[k]
         /\ \A k \in Icon : k # i => status'[k] = status[k]
         /\ \/ StatusSets(i, "RUNERR") /\ UNCHANGED row
            \/ /\ row[SessionOf[i]] # NoRow /\ row[SessionOf[i]].status = "END"
               /\ StatusSets(i, "RUN")
               /\ RowSets(SessionOf[i], "BEGIN", i, row[SessionOf[i]].pid)
  <1>1. /\ status[i] = "READY" /\ ~Opens(i)
        /\ runs' \in [Icon -> Nat] /\ runs'[i] = runs[i] + 1
        /\ \A k \in Icon : k # i => runs'[k] = runs[k]
    BY DEF UseSession, Starts, TypeOK
  <1>2. CASE RowOf(i).status # "END"
    <2>1. ja_set_runerr(i) /\ UNCHANGED row
      BY <1>2 DEF UseSession
    <2> QED  BY <1>1, <2>1, RunerrSets
  <1>3. CASE RowOf(i).status = "END"
    <2> DEFINE s == SessionOf[i]
               r == [row[s] EXCEPT !.status = "BEGIN", !.icon = i, !.force = FALSE]
    <2>1. status' = [status EXCEPT ![i] = "RUN"] /\ row' = [row EXCEPT ![s] = r]
      BY <1>3 DEF UseSession
    <2>2. row[s] # NoRow
      BY <1>3 DEF RowOf, NoRow
    <2>3. row[s] \in Row
      BY <2>2, RowCases, IconFacts
    <2>4. r \in Row /\ r.status = "BEGIN" /\ r.icon = i /\ r.pid = row[s].pid
      BY <2>3 DEF Row
    <2>5. StatusSets(i, "RUN") /\ \A k \in Icon : k # i => status'[k] = status[k]
      BY <2>1 DEF TypeOK, StatusSets, StatusType
    <2> HIDE DEF r
    <2>6. RowSets(s, "BEGIN", i, row[s].pid)
      BY <2>1, <2>4, RowWrite, IconFacts
    <2> QED  BY <1>1, <1>3, <2>2, <2>5, <2>6 DEF RowOf
  <1> QED  BY <1>2, <1>3

\* The process that jarun starts.
NewProcess(i) == [pid |-> pids + 1, session |-> SessionOf[i], open |-> FALSE,
                  ok |-> FALSE, at |-> "main", job |-> {}]

LEMMA LaunchSets ==
  ASSUME TypeOK, NEW i \in Icon, Launched(i)
  PROVE  /\ procs' = procs \cup {NewProcess(i)} /\ NewProcess(i) \in Process
         /\ NewProcess(i).session = SessionOf[i] /\ NewProcess(i).at = "main"
         /\ NewProcess(i).job = {}
  <1>1. pids + 1 \in Nat \ {0} /\ SessionOf[i] \in Session
    BY IconFacts DEF TypeOK
  <1> QED  BY <1>1 DEF Launched, NewProcess, Process

LEMMA MainSets ==
  ASSUME TypeOK, NEW p \in procs, SessionMain(p)
  PROVE  /\ p.at = "main"
         /\ \/ row[p.session] = NoRow /\ procs' = procs \ {p} /\ UNCHANGED row
            \/ /\ row[p.session] # NoRow
               /\ RowSets(p.session, row[p.session].status, row[p.session].icon, p.pid)
               /\ \E q \in Process : Turns(p, q) /\ q.at = "loop" /\ q.job = {}
  <1> DEFINE s == p.session
             r == [row[s] EXCEPT !.pid = p.pid]
             q == [p EXCEPT !.at = "loop"]
  <1>1. p \in Process /\ s \in Session /\ p.pid \in Nat
    BY ProcessFields
  <1>2. p.at = "main" /\ p.job = {}
    BY ProcessFields DEF SessionMain
  <1>3. CASE row[s] = NoRow
    BY <1>2, <1>3 DEF SessionMain, Exits
  <1>4. CASE row[s] # NoRow
    <2>1. row' = [row EXCEPT ![s] = r] /\ procs' = (procs \ {p}) \cup {q}
      BY <1>1, <1>4 DEF SessionMain, Becomes, TypeOK
    <2>2. r \in Row /\ r.status = row[s].status /\ r.icon = row[s].icon /\ r.pid = p.pid
      BY <1>1, <1>4, RowCases DEF Row
    <2>3. /\ q \in Process /\ q.pid = p.pid /\ q.session = s /\ q.at = "loop" /\ q.job = p.job
      BY <1>1 DEF Process
    <2> HIDE DEF r, q
    <2>4. RowSets(s, row[s].status, row[s].icon, p.pid)
      BY <1>1, <2>1, <2>2, RowWrite
    <2> QED  BY <1>2, <1>4, <2>1, <2>3, <2>4 DEF Turns
  <1> QED  BY <1>3, <1>4

LEMMA ReadSets ==
  ASSUME TypeOK, NEW p \in procs, ReadRow(p)
  PROVE  /\ p.at = "loop" /\ UNCHANGED row
         /\ \/ row[p.session] = NoRow /\ procs' = procs \ {p}
            \/ /\ row[p.session] # NoRow /\ row[p.session].status = "BEGIN"
               /\ \E q \in Process :
                    /\ Turns(p, q) /\ q.job = {row[p.session].icon} /\ q.open = p.open
                    /\ q.at \in {"connect", "exec", "done"}
                    /\ q.at = "connect" <=> Opens(row[p.session].icon)
  <1> DEFINE s == p.session
             r == row[s]
             at == CASE Opens(r.icon)             -> "connect"
                     [] Flag[r.icon] = "CONTINUE" -> "exec"
                     [] Flag[r.icon] = "CLOSE"    -> "done"
             q == [p EXCEPT !.job = {r.icon}, !.at = at, !.ok = (at = "done")]
  <1>1. p \in Process /\ s \in Session
    BY ProcessFields
  <1>2. p.at = "loop" /\ r.status # "END" /\ UNCHANGED row
    BY DEF ReadRow
  <1>3. CASE row[s] = NoRow
    BY <1>2, <1>3 DEF ReadRow, Exits
  <1>4. CASE row[s] # NoRow
    <2>1. procs' = (procs \ {p}) \cup {q}
      BY <1>4 DEF ReadRow, Becomes
    <2>2. r.icon \in Icon /\ r.status = "BEGIN"
      BY <1>1, <1>2, <1>4, RowCases
    <2>3. at \in {"connect", "exec", "done"} /\ (at = "connect" <=> Opens(r.icon))
      BY <2>2, IconFacts DEF Opens
    <2> HIDE DEF at
    <2>4. /\ q \in Process /\ q.pid = p.pid /\ q.session = s /\ q.at = at
          /\ q.job = {r.icon} /\ q.open = p.open
      BY <1>1, <2>2, <2>3 DEF Process
    <2> HIDE DEF q
    <2> QED  BY <1>2, <1>4, <2>1, <2>2, <2>3, <2>4 DEF Turns
  <1> QED  BY <1>3, <1>4

\* The steps between the read of the row and the result: connection, command
\* and the failures of both.
JobStep(p) == HostFails(p) \/ ssh_connect(p) \/ ssh_exec(p) \/ ssh_read(p) \/ CommandEnds(p)

LEMMA JobStepSets ==
  ASSUME TypeOK, NEW p \in procs, JobStep(p)
  PROVE  /\ p.at \in {"connect", "exec", "read", "done"}
         /\ UNCHANGED <<status, method, jobnet, row, launch, seen, pids, runs, early, died>>
         /\ \E q \in Process :
              /\ Turns(p, q) /\ q.job = p.job /\ (p.open => q.open)
              /\ q.at \in {"exec", "read", "done"}
              /\ q.at \in {"exec", "read"} => q.open \/ p.at \in {"exec", "read"}
              /\ q.at = "done" /\ q.ok => p.at \in {"exec", "read"}
              /\ q.at = "exec" => p.at = "connect"
              /\ \/ execs' = execs
                 \/ /\ p.at = "exec" /\ q.at = "read" /\ execs' \in [Icon -> Nat]
                    /\ \A k \in p.job : execs'[k] = execs[k] + 1
                    /\ \A k \in Icon \ p.job : execs'[k] = execs[k]
  <1>0. p \in Process /\ p.ok \in BOOLEAN /\ p.open \in BOOLEAN
    BY ProcessFields
  <1> DEFINE Done(ok) == [p EXCEPT !.at = "done", !.ok = ok]
  <1>1. ASSUME NEW ok \in BOOLEAN
        PROVE  /\ Done(ok) \in Process /\ Done(ok).pid = p.pid /\ Done(ok).session = p.session
               /\ Done(ok).job = p.job /\ Done(ok).open = p.open
               /\ Done(ok).at = "done" /\ Done(ok).ok = ok
    BY <1>0 DEF Process
  <1> HIDE DEF Done
  <1>2. CASE HostFails(p)
    <2>1. /\ procs' = (procs \ {p}) \cup {Done(FALSE)} /\ execs' = execs
          /\ p.at \in {"connect", "exec", "read", "done"}
          /\ UNCHANGED <<status, method, jobnet, row, launch, seen, pids, runs, early, died>>
      BY <1>2 DEF HostFails, Becomes, icons, server, ghosts, Done
    <2> QED  BY <1>1, <2>1 DEF Turns
  <1>3. CASE ssh_connect(p)
    <2> DEFINE q == [p EXCEPT !.at = "exec", !.open = TRUE]
    <2>1. /\ procs' = (procs \ {p}) \cup {IF check_force_stop(p.session) THEN Done(FALSE) ELSE q}
          /\ execs' = execs /\ p.at = "connect"
          /\ UNCHANGED <<status, method, jobnet, row, launch, seen, pids, runs, early, died>>
      BY <1>3 DEF ssh_connect, Becomes, icons, server, ghosts, Done
    <2>2. /\ q \in Process /\ q.pid = p.pid /\ q.session = p.session /\ q.job = p.job
          /\ q.at = "exec" /\ q.open
      BY <1>0 DEF Process
    <2> HIDE DEF q
    <2>3. CASE check_force_stop(p.session)
      BY <1>1, <2>1, <2>3 DEF Turns
    <2>4. CASE ~check_force_stop(p.session)
      BY <2>1, <2>2, <2>4 DEF Turns
    <2> QED  BY <2>3, <2>4
  <1>4. CASE ssh_exec(p)
    <2>0. /\ p.at = "exec"
          /\ UNCHANGED <<status, method, jobnet, row, launch, seen, pids, runs, early, died>>
      BY <1>4 DEF ssh_exec, icons, server
    <2>1. PICK i \in p.job :
            \/ procs' = (procs \ {p}) \cup {Done(TRUE)} /\ execs' = execs
            \/ /\ procs' = (procs \ {p}) \cup {[p EXCEPT !.at = "read"]}
               /\ execs' = [execs EXCEPT ![i] = @ + 1]
      BY <1>4 DEF ssh_exec, Becomes, Done
    <2>2. p.job = {i} /\ i \in Icon
      BY <2>0, ProcessFields
    <2>3. CASE procs' = (procs \ {p}) \cup {Done(TRUE)} /\ execs' = execs
      BY <1>1, <2>0, <2>3 DEF Turns
    <2>4. CASE /\ procs' = (procs \ {p}) \cup {[p EXCEPT !.at = "read"]}
               /\ execs' = [execs EXCEPT ![i] = @ + 1]
      <3> DEFINE q == [p EXCEPT !.at = "read"]
      <3>1. /\ q \in Process /\ q.pid = p.pid /\ q.session = p.session /\ q.job = p.job
            /\ q.at = "read" /\ q.open = p.open
        BY <1>0 DEF Process
      <3>2. /\ execs' \in [Icon -> Nat]
            /\ \A k \in p.job : execs'[k] = execs[k] + 1
            /\ \A k \in Icon \ p.job : execs'[k] = execs[k]
        BY <2>2, <2>4 DEF TypeOK
      <3>3. procs' = (procs \ {p}) \cup {q}
        BY <2>4
      <3> HIDE DEF q
      <3> QED  BY <2>0, <3>1, <3>2, <3>3 DEF Turns
    <2> QED  BY <2>1, <2>3, <2>4
  <1>5. CASE ssh_read(p)
    <2>1. /\ procs' = (procs \ {p}) \cup {Done(FALSE)} /\ execs' = execs /\ p.at = "read"
          /\ UNCHANGED <<status, method, jobnet, row, launch, seen, pids, runs, early, died>>
      BY <1>5 DEF ssh_read, Becomes, icons, server, ghosts, Done
    <2> QED  BY <1>1, <2>1 DEF Turns
  <1>6. CASE CommandEnds(p)
    <2>1. /\ execs' = execs /\ p.at = "read"
          /\ UNCHANGED <<status, method, jobnet, row, launch, seen, pids, runs, early, died>>
      BY <1>6 DEF CommandEnds, icons, server, ghosts
    <2>2. PICK stop : procs' = (procs \ {p})
                        \cup {Done(~stop /\ ~check_force_stop(p.session))}
      BY <1>6 DEF CommandEnds, Becomes, Done
    <2>3. (~stop /\ ~check_force_stop(p.session)) \in BOOLEAN
      OBVIOUS
    <2> QED  BY <1>1, <2>1, <2>2, <2>3 DEF Turns
  <1> QED  BY <1>2, <1>3, <1>4, <1>5, <1>6 DEF JobStep

\* The result of icon i, whose job p has.
LEMMA ResultSets ==
  ASSUME TypeOK, NEW p \in procs, process_session(p)
  PROVE  \E i \in Icon :
           /\ p.at = "done" /\ p.job = {i}
           /\ \/ /\ RowsGone({p.session}) /\ procs' = procs \ {p}
              \/ /\ row[p.session] = NoRow /\ UNCHANGED row /\ procs' = procs \ {p}
              \/ /\ row[p.session] # NoRow
                 /\ RowSets(p.session, "END", row[p.session].icon, row[p.session].pid)
                 /\ \E q \in Process : Turns(p, q) /\ q.at = "loop" /\ q.job = {} /\ q.open = p.open
                 /\ Flag[i] = "CONNECT" => p.ok
                 /\ Flag[i] # "ONETIME"
                 /\ p.ok => StatusSets(i, IF jobnet.net = "RUN" THEN "END" ELSE "RUNERR")
           /\ \/ StatusSets(i, "RUNERR")
              \/ StatusSets(i, IF jobnet.net = "RUN" THEN "END" ELSE "RUNERR")
  <1>1. p \in Process /\ p.session \in Session /\ p.at = "done"
    BY ProcessFields DEF process_session
  <1> DEFINE s == p.session
             Ok(i) == p.ok /\ (Finished(i, p.ok) \/ row[s] # NoRow)
             q == [p EXCEPT !.at = "loop", !.job = {}]
  <1>2. PICK i \in p.job :
          /\ IF Finished(i, p.ok) THEN row' = Deleted({s}) /\ Exits(p)
             ELSE IF row[s] # NoRow
             THEN row' = [row EXCEPT ![s].status = "END"] /\ Becomes(p, q)
             ELSE UNCHANGED row /\ Exits(p)
          /\ IF Ok(i) THEN ja_flow(i) ELSE ja_set_runerr(i)
    BY DEF process_session
  <1>3. i \in Icon /\ p.job = {i}
    BY <1>1, ProcessFields
  <1>4. q \in Process /\ q.pid = p.pid /\ q.session = s /\ q.at = "loop" /\ q.job = {} /\ q.open = p.open
    BY <1>1 DEF Process
  <1>5. /\ Ok(i) => StatusSets(i, IF jobnet.net = "RUN" THEN "END" ELSE "RUNERR")
        /\ ~Ok(i) => StatusSets(i, "RUNERR")
    BY <1>2, <1>3, FlowSets, RunerrSets
  <1>6. CASE Finished(i, p.ok)
    <2>1. RowsGone({s}) /\ procs' = procs \ {p}
      BY <1>1, <1>2, <1>6, RowsDeleted DEF Exits
    <2> HIDE DEF Ok
    <2> QED  BY <1>1, <1>3, <1>5, <2>1
  <1>7. CASE ~Finished(i, p.ok) /\ row[s] = NoRow
    <2>1. UNCHANGED row /\ procs' = procs \ {p}
      BY <1>2, <1>7 DEF Exits
    <2> HIDE DEF Ok
    <2> QED  BY <1>1, <1>3, <1>5, <1>7, <2>1
  <1>8. CASE ~Finished(i, p.ok) /\ row[s] # NoRow
    <2> DEFINE r == [row[s] EXCEPT !.status = "END"]
    <2>1. row' = [row EXCEPT ![s] = r] /\ procs' = (procs \ {p}) \cup {q}
      BY <1>1, <1>2, <1>8 DEF Becomes, TypeOK
    <2>2. r \in Row /\ r.status = "END" /\ r.icon = row[s].icon /\ r.pid = row[s].pid
      BY <1>1, <1>8, RowCases DEF Row
    <2> HIDE DEF r, q
    <2>3. RowSets(s, "END", row[s].icon, row[s].pid)
      BY <1>1, <2>1, <2>2, RowWrite
    <2>4. (Flag[i] = "CONNECT" => p.ok) /\ Flag[i] # "ONETIME" /\ (p.ok => Ok(i))
      BY <1>8 DEF Finished
    <2> HIDE DEF Ok
    <2> QED  BY <1>1, <1>3, <1>4, <1>5, <1>8, <2>1, <2>3, <2>4 DEF Turns
  <1> QED  BY <1>6, <1>7, <1>8

LEMMA AbortSets ==
  ASSUME TypeOK, NEW i \in Icon, jajob_icon_less_abort(i)
  PROVE  LET s == SessionOf[i] IN
         /\ i \in seen /\ seen' = seen \ {i} /\ s \in Session
         /\ \/ UNCHANGED <<status, row, early>>
            \/ /\ row[s] # NoRow /\ ~ja_process_check(row[s].pid)
               /\ RowsGone({s}) /\ StatusSets(i, "RUNERR")
               /\ \A k \in Icon : k # i => status'[k] = status[k]
               /\ early' = IF Starting(s) THEN early \cup {s} ELSE early
            \/ /\ row[s] # NoRow
               /\ RowSets(s, row[s].status, row[s].icon, row[s].pid)
               /\ UNCHANGED <<status, early>>
  <1> DEFINE s == SessionOf[i]
  <1>0. s \in Session
    BY IconFacts
  <1>1. i \in seen /\ seen' = seen \ {i}
    BY DEF jajob_icon_less_abort
  <1>2. CASE row[s] = NoRow
    BY <1>0, <1>1, <1>2 DEF jajob_icon_less_abort
  <1>3. CASE row[s] # NoRow /\ ~ja_process_check(row[s].pid)
    <2>1. /\ row' = Deleted({s}) /\ ja_set_runerr(i)
          /\ early' = IF Starting(s) THEN early \cup {s} ELSE early
      BY <1>3 DEF jajob_icon_less_abort
    <2>2. RowsGone({s})
      BY <1>0, <2>1, RowsDeleted
    <2> QED  BY <1>0, <1>1, <1>3, <2>1, <2>2, RunerrSets
  <1>4. CASE row[s] # NoRow /\ ja_process_check(row[s].pid)
    <2> DEFINE r == [row[s] EXCEPT !.force = TRUE]
    <2>1. row' = [row EXCEPT ![s] = r] /\ UNCHANGED <<status, early>>
      BY <1>0, <1>4 DEF jajob_icon_less_abort, TypeOK
    <2>2. r \in Row /\ r.status = row[s].status /\ r.icon = row[s].icon /\ r.pid = row[s].pid
      BY <1>0, <1>4, RowCases DEF Row
    <2> HIDE DEF r
    <2>3. RowSets(s, row[s].status, row[s].icon, row[s].pid)
      BY <1>0, <2>1, <2>2, RowWrite
    <2> QED  BY <1>0, <1>1, <1>4, <2>1, <2>3
  <1> QED  BY <1>2, <1>3, <1>4

-----------------------------------------------------------------------------
(* Types *)

\* The processes after a turn keep their types.
LEMMA TurnTypes ==
  ASSUME TypeOK, NEW p \in procs, NEW q, Turns(p, q),
         IF q.at \in {"main", "loop"} THEN q.job = {} ELSE \E i \in Icon : q.job = {i}
  PROVE  /\ procs' \subseteq Process
         /\ \A x \in procs' : IF x.at \in {"main", "loop"} THEN x.job = {}
                              ELSE \E i \in Icon : x.job = {i}
  BY DEF Turns, TypeOK

LEMMA ExitTypes ==
  ASSUME TypeOK, NEW p, procs' = procs \ {p}
  PROVE  /\ procs' \subseteq Process
         /\ \A x \in procs' : IF x.at \in {"main", "loop"} THEN x.job = {}
                              ELSE \E i \in Icon : x.job = {i}
  BY DEF TypeOK

\* jarun and jajob keep the types.
LEMMA ServerTypes ==
  ASSUME TypeOK, JarunNext \/ JajobNext
  PROVE  TypeOK'
  <1> USE SessionsShape DEF SessionsShape
  <1>1. ASSUME NEW i \in Icon, OpenSession(i)  PROVE TypeOK'
    <2>1. /\ status' \in [Icon -> StatusType] /\ row' \in [Session -> RowType]
          /\ runs' \in [Icon -> Nat] /\ launch' \subseteq Icon
      BY <1>1, OpenSets DEF StatusSets, RowSets, TypeOK, RowType
    <2> QED  BY <1>1, <2>1 DEF OpenSession, TypeOK, StatusType, RowType, bounds
  <1>2. ASSUME NEW i \in Icon, UseSession(i)  PROVE TypeOK'
    <2>1. /\ status' \in [Icon -> StatusType] /\ row' \in [Session -> RowType]
          /\ runs' \in [Icon -> Nat]
      BY <1>2, UseSets DEF StatusSets, RowSets, TypeOK, RowType
    <2> QED  BY <1>2, <2>1 DEF UseSession, TypeOK, StatusType, RowType, server, bounds
  <1>3. ASSUME NEW i \in Icon, Launched(i)  PROVE TypeOK'
    <2>1. /\ procs' \subseteq Process
          /\ \A x \in procs' : IF x.at \in {"main", "loop"} THEN x.job = {}
                               ELSE \E k \in Icon : x.job = {k}
      BY <1>3, LaunchSets DEF TypeOK
    <2> QED  BY <1>3, <2>1 DEF Launched, TypeOK, icons, ghosts, bounds
  <1>4. ASSUME NEW i \in Icon, LaunchFails(i)  PROVE TypeOK'
    <2>1. status' \in [Icon -> StatusType] /\ SessionOf[i] \in Session
      BY <1>4, RunerrSets, IconFacts DEF LaunchFails, StatusSets
    <2> QED  BY <1>4, <2>1 DEF LaunchFails, Fault, TypeOK, StatusType
  <1>5. ASSUME NEW i \in Icon, jarun_skip(i)  PROVE TypeOK'
    <2>1. status' \in [Icon -> StatusType]
      BY <1>5, FlowSets DEF jarun_skip, StatusSets
    <2> QED  BY <1>5, <2>1 DEF jarun_skip, TypeOK, StatusType, server, ghosts, bounds
  <1>6. CASE JajobSelect
    BY <1>6 DEF JajobSelect, TypeOK, icons, ghosts, bounds
  <1>7. ASSUME NEW i \in Icon, jajob_icon_less_abort(i)  PROVE TypeOK'
    <2>1. /\ status' \in [Icon -> StatusType] /\ row' \in [Session -> RowType]
          /\ seen' \subseteq Icon /\ early' \subseteq Session
      BY <1>7, AbortSets DEF StatusSets, RowSets, RowsGone, TypeOK, RowType, StatusType
    <2> QED  BY <1>7, <2>1 DEF jajob_icon_less_abort, TypeOK, StatusType, RowType, bounds
  <1> QED  BY <1>1, <1>2, <1>3, <1>4, <1>5, <1>6, <1>7 DEF JarunNext, JajobNext

\* The session processes keep the types.
LEMMA SessionTypes ==
  ASSUME TypeOK, SessionNext
  PROVE  TypeOK'
  <1> DEFINE Procs == /\ procs' \subseteq Process
                      /\ \A x \in procs' : IF x.at \in {"main", "loop"} THEN x.job = {}
                                           ELSE \E i \in Icon : x.job = {i}
  <1>1. ASSUME NEW p \in procs, SessionMain(p)  PROVE TypeOK'
    <2>1. Procs
      BY <1>1, MainSets, TurnTypes, ExitTypes
    <2>2. row' \in [Session -> RowType]
      BY <1>1, MainSets DEF RowSets, TypeOK, RowType
    <2> QED  BY <1>1, <2>1, <2>2 DEF SessionMain, TypeOK, RowType, icons, server, ghosts, bounds
  <1>2. ASSUME NEW p \in procs, ReadRow(p)  PROVE TypeOK'
    <2>1. CASE procs' = procs \ {p}
      BY <1>2, <2>1, ExitTypes DEF ReadRow, TypeOK, icons, server, ghosts, bounds
    <2>2. CASE procs' # procs \ {p}
      <3>1. PICK q \in Process : /\ Turns(p, q) /\ q.job = {row[p.session].icon}
                                 /\ q.at \in {"connect", "exec", "done"}
        BY <1>2, <2>2, ReadSets
      <3>2. row[p.session].icon \in Icon
        BY <1>2, <2>2, ReadSets, RowCases, ProcessFields
      <3>3. Procs
        BY <3>1, <3>2, TurnTypes
      <3> QED  BY <1>2, <3>3 DEF ReadRow, TypeOK, icons, server, ghosts, bounds
    <2> QED  BY <2>1, <2>2
  <1>3. ASSUME NEW p \in procs, JobStep(p)  PROVE TypeOK'
    <2>1. PICK q \in Process : /\ Turns(p, q) /\ q.job = p.job
                               /\ q.at \in {"exec", "read", "done"}
      BY <1>3, JobStepSets
    <2>2. p.at \notin {"main", "loop"}
      BY <1>3, JobStepSets
    <2>3. Procs
      BY <2>1, <2>2, ProcessFields, TurnTypes
    <2>4. /\ UNCHANGED <<status, method, jobnet, row, launch, seen, pids, runs, early, died>>
          /\ execs' \in [Icon -> Nat]
      BY <1>3, JobStepSets DEF TypeOK
    <2>5. ops' \in 0..MaxOps /\ faults' \in 0..MaxFaults /\ crashes' \in 0..MaxCrashes
      <3>1. CASE HostFails(p)
        BY <3>1, SessionsShape DEF HostFails, Fault, TypeOK, SessionsShape
      <3>2. CASE UNCHANGED bounds
        BY <3>2 DEF bounds, TypeOK
      <3>3. HostFails(p) \/ UNCHANGED bounds
        BY <1>3 DEF JobStep, ssh_connect, ssh_exec, ssh_read, CommandEnds
      <3> QED  BY <3>1, <3>2, <3>3
    <2> QED  BY <2>3, <2>4, <2>5 DEF TypeOK
  <1>4. ASSUME NEW p \in procs, process_session(p)  PROVE TypeOK'
    <2>1. Procs /\ row' \in [Session -> RowType] /\ status' \in [Icon -> StatusType]
      <3>1. row' \in [Session -> RowType] /\ status' \in [Icon -> StatusType]
        BY <1>4, ResultSets DEF RowSets, RowsGone, StatusSets, TypeOK, RowType
      <3>2. Procs
        BY <1>4, ResultSets, TurnTypes, ExitTypes
      <3> QED  BY <3>1, <3>2
    <2> QED  BY <1>4, <2>1 DEF process_session, TypeOK, RowType, StatusType, server, ghosts, bounds
  <1>5. ASSUME NEW p \in procs, ProcessDies(p)  PROVE TypeOK'
    <2>1. Procs
      BY <1>5, ExitTypes DEF ProcessDies, Exits
    <2>2. p.session \in Session
      BY ProcessFields
    <2> QED  BY <1>5, <2>1, <2>2, SessionsShape
             DEF SessionsShape, ProcessDies, Fault, TypeOK, icons, server
  <1> QED  BY <1>1, <1>2, <1>3, <1>4, <1>5 DEF SessionNext, SessionStep, JobStep

\* jajobnet, operator and server.
LEMMA RestTypes ==
  ASSUME TypeOK, JajobnetNext \/ OperatorNext \/ ServerRestart
  PROVE  TypeOK'
  <1> USE SessionsShape DEF SessionsShape
  <1>1. CASE jajobnet_kill
    <2>1. row' \in [Session -> RowType]
      BY <1>1, RowsDeleted DEF jajobnet_kill, RowsGone
    <2>2. status' \in [Icon -> StatusType]
      BY <1>1 DEF jajobnet_kill, TypeOK, StatusType
    <2>3. jobnet' \in [net : {"RUN", "END", "ENDERR"}, sum : {"RUN", "END", "ENDERR"},
                       abort : BOOLEAN]
      BY <1>1 DEF jajobnet_kill, TypeOK
    <2> QED  BY <1>1, <2>1, <2>2, <2>3
             DEF jajobnet_kill, TypeOK, RowType, StatusType, server, ghosts, bounds
  <1>2. CASE JobnetEnds
    <2>1. row' \in [Session -> RowType]
      BY <1>2, RowsDeleted DEF JobnetEnds, RowsGone
    <2>2. jobnet' \in [net : {"RUN", "END", "ENDERR"}, sum : {"RUN", "END", "ENDERR"},
                       abort : BOOLEAN]
      BY <1>2 DEF JobnetEnds, TypeOK
    <2> QED  BY <1>2, <2>1, <2>2 DEF JobnetEnds, TypeOK, RowType, server, ghosts, bounds
  <1>3. CASE StopRunningJobnet
    <2>1. jobnet' \in [net : {"RUN", "END", "ENDERR"}, sum : {"RUN", "END", "ENDERR"},
                       abort : BOOLEAN]
      BY <1>3 DEF StopRunningJobnet, TypeOK
    <2> QED  BY <1>3, <2>1 DEF StopRunningJobnet, Operator, TypeOK, server, ghosts
  <1>4. ASSUME NEW i \in Icon, SetStop(i)  PROVE TypeOK'
    BY <1>4 DEF SetStop, Operator, TypeOK, server, ghosts
  <1>5. ASSUME NEW i \in Icon, SetReStart(i)  PROVE TypeOK'
    BY <1>5 DEF SetReStart, Operator, TypeOK, server, ghosts
  <1>6. ASSUME NEW i \in Icon, SetSkip(i)  PROVE TypeOK'
    BY <1>6 DEF SetSkip, Operator, TypeOK, server, ghosts
  <1>7. CASE ServerRestart
    BY <1>7 DEF ServerRestart, TypeOK, icons, ghosts
  <1> QED  BY <1>1, <1>2, <1>3, <1>4, <1>5, <1>6, <1>7 DEF JajobnetNext, OperatorNext

LEMMA InitTypes == Init => TypeOK
  <1> SUFFICES ASSUME Init  PROVE TypeOK
    OBVIOUS
  <1>1. jobnet \in [net : {"RUN", "END", "ENDERR"}, sum : {"RUN", "END", "ENDERR"},
                    abort : BOOLEAN]
    BY DEF Init
  <1> QED  BY <1>1, SessionsShape DEF SessionsShape, Init, TypeOK

LEMMA NextTypes == TypeOK /\ [Next]_vars => TypeOK'
  <1> SUFFICES ASSUME TypeOK, [Next]_vars  PROVE TypeOK'
    OBVIOUS
  <1>1. CASE UNCHANGED vars
    BY <1>1 DEF vars, TypeOK
  <1> QED  BY <1>1, ServerTypes, SessionTypes, RestTypes DEF Next

\* Rows, processes and counters keep their types in every behaviour.
THEOREM TypeCorrect == Spec => []TypeOK
  BY InitTypes, NextTypes, PTL DEF Spec

-----------------------------------------------------------------------------
(* The inductive invariant: one session at a time *)

\* The session of a row and of a process is the one of its icon; jarun starts
\* one process at a time.
IconsOfSession ==
  /\ \A s \in Session : row[s] # NoRow => SessionOf[row[s].icon] = s
  /\ \A p \in procs : \A i \in p.job : SessionOf[i] = p.session
  /\ \A i, k \in launch : i = k

\* Nothing is READY, and nothing becomes READY, in a jobnet that is stopped.
StoppedIsQuiet ==
  jobnet.net = "ENDERR" => jobnet.abort /\ \A i \in Icon : status[i] # "READY"

\* A session has one process at most, which jarun is starting or which lives.
OneProcess(s) ==
  /\ \A p, q \in procs : p.session = s /\ q.session = s => p = q
  /\ \A i \in launch : SessionOf[i] = s => \A p \in procs : p.session # s

\* A session loses its row under its process only when the jobnet is over, and
\* then it is not opened again.
RowUntilEnd(s) ==
  /\ row[s] = NoRow /\ jobnet.net = "RUN"
       => (\A p \in procs : p.session # s) /\ (\A i \in launch : SessionOf[i] # s)
  /\ jobnet.net # "RUN" => row[s] = NoRow
  /\ jobnet.net = "END" => \A i \in Icon : SessionOf[i] = s => status[i] = "END"

\* Row r and process p of a session agree.
Serves(p, r) ==
  /\ p.at = "main" => r.status = "BEGIN" /\ Opens(r.icon)
  /\ p.at # "main" => r.pid = p.pid
  /\ p.at = "loop" => p.open \/ (r.status = "BEGIN" /\ Opens(r.icon))
  /\ \A i \in p.job : r.icon = i /\ r.status = "BEGIN"

\* Row, process and the status of the icon agree.
RowIsServed(s) ==
  /\ row[s] # NoRow => \A p \in procs : p.session = s => Serves(p, row[s])
  /\ \A i \in launch : SessionOf[i] = s =>
       /\ status[i] = "RUN" /\ Opens(i)
       /\ row[s] # NoRow => row[s].icon = i /\ row[s].status = "BEGIN"
  /\ \A p \in procs : p.session = s =>
       /\ \A i \in p.job : status[i] = "RUN"
       /\ row[s] # NoRow /\ row[s].status = "BEGIN" => status[row[s].icon] = "RUN"

\* A process that works on a command, or on an icon that opens no session, has
\* logged in.
Connected(s) ==
  \A p \in procs : p.session = s =>
    /\ p.at \in {"exec", "read"} \/ (p.at = "done" /\ p.ok) => p.open
    /\ \A i \in p.job : ~Opens(i) => p.open

\* A start of an icon whose command is still to be sent.
SendsAreOwed(s) ==
  \A i \in Icon : SessionOf[i] = s =>
    /\ execs[i] <= runs[i]
    /\ i \in launch => execs[i] < runs[i]
    /\ \A p \in procs : p.session = s =>
         /\ p.at \in {"main", "loop"} /\ row[s] # NoRow =>
              (row[s].status = "BEGIN" /\ row[s].icon = i => execs[i] < runs[i])
         /\ p.at \in {"connect", "exec"} /\ i \in p.job => execs[i] < runs[i]

\* The row tells which icon runs; a row that waits for the next icon has its
\* process; and a row whose process a restart of the server has lost is the
\* one of the icon that jajob has selected.
RowTellsRun(s) ==
  /\ row[s] # NoRow =>
       /\ row[s].status = "BEGIN" => status[row[s].icon] = "RUN"
       /\ row[s].status = "END" => \E p \in procs : p.session = s
       /\ row[s].status = "END" /\ Opens(row[s].icon) => status[row[s].icon] = "END"
  /\ jobnet.net = "RUN" => \A i \in Icon : SessionOf[i] = s /\ status[i] = "RUN" =>
       row[s] # NoRow /\ row[s].icon = i /\ row[s].status = "BEGIN"
  /\ row[s] # NoRow /\ (\A p \in procs : p.session # s) /\ (\A i \in launch : SessionOf[i] # s)
       => \A i \in seen : SessionOf[i] = s => row[s].icon = i

\* What holds of a session whose row no abort has deleted too early; the row
\* is reliable as long as no process of the session has died.
Sound(s) ==
  /\ OneProcess(s) /\ RowUntilEnd(s) /\ RowIsServed(s) /\ Connected(s) /\ SendsAreOwed(s)
  /\ s \notin died => RowTellsRun(s)

SessionInv ==
  /\ TypeOK /\ IconsOfSession /\ StoppedIsQuiet
  /\ \A s \in Session : s \notin early => Sound(s)

\* A step leaves session s alone: no icon of it starts to run or stops
\* running, and no process of it moves.
Untouched(s) ==
  /\ \/ row'[s] = row[s]
     \/ /\ row[s] # NoRow /\ row'[s] # NoRow
        /\ row'[s].status = row[s].status /\ row'[s].icon = row[s].icon
        /\ row'[s].pid = row[s].pid
  /\ \A p \in procs' : p.session = s => p \in procs
  /\ \A p \in procs : p.session = s => p \in procs'
  /\ \A i \in launch' : SessionOf[i] = s => i \in launch
  /\ \A i \in launch : SessionOf[i] = s => i \in launch' \/ seen' = {}
  /\ \A i \in seen' : SessionOf[i] = s => i \in seen \/ status[i] = "RUN"
  /\ \A i \in Icon : SessionOf[i] = s =>
       /\ execs'[i] = execs[i] /\ runs[i] <= runs'[i]
       /\ status'[i] = status[i] \/ (status[i] \notin {"RUN", "END"} /\ status'[i] # "RUN")
  /\ jobnet'.net = jobnet.net
  /\ early \subseteq early' /\ died \subseteq died'

LEMMA UntouchedKeeps ==
  ASSUME SessionInv, TypeOK', NEW s \in Session, s \notin early', Untouched(s)
  PROVE  Sound(s)'
  <1>1. Sound(s) /\ TypeOK
    BY DEF SessionInv, Untouched
  <1>2. /\ \A i \in Icon : SessionOf[i] = s =>
             /\ runs[i] \in Nat /\ runs'[i] \in Nat /\ execs[i] \in Nat /\ execs'[i] \in Nat
        /\ launch \subseteq Icon /\ seen \subseteq Icon
        /\ launch' \subseteq Icon /\ seen' \subseteq Icon
        /\ \A p \in procs : p.job \subseteq Icon
        /\ row[s] # NoRow => row[s].icon \in Icon
    <2>1. row[s] # NoRow => row[s].icon \in Icon
      BY <1>1, RowCases
    <2>2. \A p \in procs : p.job \subseteq Icon
      BY <1>1, ProcessFields
    <2> QED  BY <1>1, <2>1, <2>2 DEF TypeOK
  <1>3. /\ \A i \in Icon : SessionOf[i] = s /\ status[i] \in {"RUN", "END"} => status'[i] = status[i]
        /\ \A i \in Icon : SessionOf[i] = s /\ status'[i] = "RUN" => status[i] = "RUN"
        /\ row'[s] = NoRow <=> row[s] = NoRow
        /\ row[s] # NoRow => /\ row'[s].status = row[s].status /\ row'[s].icon = row[s].icon
                             /\ row'[s].pid = row[s].pid
        /\ SessionOf[row[s].icon] = s \/ row[s] = NoRow
        /\ \A p \in procs : \A i \in p.job : SessionOf[i] = p.session
    BY DEF Untouched, SessionInv, IconsOfSession
  <1>4. OneProcess(s)'
    BY <1>1 DEF Sound, OneProcess, Untouched
  <1>5. RowUntilEnd(s)'
    BY <1>1, <1>3 DEF Sound, RowUntilEnd, Untouched
  <1>6. RowIsServed(s)'
    BY <1>1, <1>2, <1>3 DEF Sound, RowIsServed, Serves, Untouched
  <1>7. Connected(s)'
    BY <1>1 DEF Sound, Connected, Untouched
  <1>8. SendsAreOwed(s)'
    BY <1>1, <1>2, <1>3 DEF Sound, SendsAreOwed, Untouched
  <1>9. ASSUME s \notin died'  PROVE RowTellsRun(s)'
    <2>1. RowTellsRun(s)
      BY <1>1, <1>9 DEF Sound, Untouched
    <2>2. row'[s] # NoRow =>
            /\ row'[s].status = "BEGIN" => status'[row'[s].icon] = "RUN"
            /\ row'[s].status = "END" => \E p \in procs' : p.session = s
            /\ row'[s].status = "END" /\ Opens(row'[s].icon) => status'[row'[s].icon] = "END"
      BY <1>2, <1>3, <2>1 DEF RowTellsRun, Untouched
    <2>3. jobnet'.net = "RUN" => \A i \in Icon : SessionOf[i] = s /\ status'[i] = "RUN" =>
            row'[s] # NoRow /\ row'[s].icon = i /\ row'[s].status = "BEGIN"
      BY <1>3, <2>1 DEF RowTellsRun, Untouched
    <2>4. ASSUME row'[s] # NoRow, \A p \in procs' : p.session # s,
                 \A i \in launch' : SessionOf[i] # s, NEW i \in seen', SessionOf[i] = s
          PROVE  row'[s].icon = i
      <3>1. CASE i \in seen
        BY <1>3, <2>1, <2>4, <3>1 DEF RowTellsRun, Untouched
      <3>2. CASE status[i] = "RUN"
        <4>1. jobnet.net = "RUN"
          BY <1>1, <1>3, <2>4 DEF Sound, RowUntilEnd
        <4> QED  BY <1>2, <1>3, <2>1, <2>4, <3>2, <4>1 DEF RowTellsRun
      <3> QED  BY <2>4, <3>1, <3>2 DEF Untouched
    <2> QED  BY <2>2, <2>3, <2>4 DEF RowTellsRun
  <1> QED  BY <1>4, <1>5, <1>6, <1>7, <1>8, <1>9 DEF Sound

\* After the step, session s has no process and none is being started.
Vacant(s) ==
  (\A p \in procs' : p.session # s) /\ (\A i \in launch' : SessionOf[i] # s)

LEMMA VacantKeeps ==
  ASSUME SessionInv, TypeOK', NEW s \in Session, s \notin early, Vacant(s),
         jobnet'.net # "RUN" => row'[s] = NoRow,
         jobnet'.net = "END" => \A i \in Icon : SessionOf[i] = s => status'[i] = "END",
         UNCHANGED <<runs, execs>>,
         s \notin died' => RowTellsRun(s)'
  PROVE  Sound(s)'
  <1>1. Sound(s)
    BY DEF SessionInv
  <1>2. \A i \in launch' : i \in Icon
    BY DEF TypeOK
  <1>3. SendsAreOwed(s)'
    BY <1>1, <1>2 DEF Sound, SendsAreOwed, Vacant
  <1> QED  BY <1>1, <1>2, <1>3 DEF Sound, OneProcess, RowUntilEnd, RowIsServed, Connected, Vacant

-----------------------------------------------------------------------------
(* Steps that leave every session alone *)

\* What such a step must show; rows, processes and starts stay as they are.
StatusStep ==
  /\ UNCHANGED <<row, launch, procs, execs, early, died>>
  /\ jobnet'.net = jobnet.net /\ (jobnet.abort => jobnet'.abort)
  /\ \A i \in Icon :
       /\ runs[i] <= runs'[i]
       /\ status'[i] = status[i] \/ (status[i] \notin {"RUN", "END"} /\ status'[i] # "RUN")
       /\ jobnet.net = "ENDERR" /\ status'[i] = "READY" => status[i] = "READY"
  /\ \A i \in seen' : i \in seen \/ status[i] = "RUN"

LEMMA StatusStepKeeps ==
  ASSUME SessionInv, TypeOK', StatusStep
  PROVE  SessionInv'
  <1>1. IconsOfSession'
    BY DEF SessionInv, IconsOfSession, StatusStep
  <1>2. StoppedIsQuiet'
    BY DEF SessionInv, StoppedIsQuiet, StatusStep
  <1>3. ASSUME NEW s \in Session, s \notin early'  PROVE Sound(s)'
    <2>1. Untouched(s)
      BY DEF StatusStep, Untouched
    <2> QED  BY <1>3, <2>1, UntouchedKeeps
  <1> QED  BY <1>1, <1>2, <1>3 DEF SessionInv

LEMMA RefusalKeeps ==
  ASSUME SessionInv, TypeOK', NEW i \in Icon, StatusSets(i, "RUNERR"),
         OpenSession(i) \/ UseSession(i), UNCHANGED <<row, launch>>
  PROVE  SessionInv'
  <1>1. TypeOK
    BY DEF SessionInv
  <1>2. /\ UNCHANGED <<jobnet, seen, procs, execs, early, died>>
        /\ status[i] = "READY"
        /\ \A k \in Icon : k # i => status'[k] = status[k] /\ runs'[k] = runs[k]
        /\ runs'[i] = runs[i] + 1
    BY <1>1, OpenSets, UseSets DEF OpenSession, UseSession, server
  <1>3. \A k \in Icon : runs[k] <= runs'[k]
    BY <1>1, <1>2 DEF TypeOK
  <1>4. status'[i] = "RUNERR"
    BY DEF StatusSets
  <1>5. StatusStep
    BY <1>2, <1>3, <1>4 DEF StatusStep
  <1> QED  BY <1>5, StatusStepKeeps

LEMMA SkipKeeps ==
  ASSUME SessionInv, TypeOK', NEW i \in Icon, jarun_skip(i)
  PROVE  SessionInv'
  <1>1. TypeOK
    BY DEF SessionInv
  <1>2. /\ UNCHANGED <<jobnet, row, launch, seen, procs, runs, execs, early, died>>
        /\ status[i] = "READY" /\ ja_flow(i)
    BY DEF jarun_skip, Starts, server, ghosts
  <1>3. StatusSets(i, IF jobnet.net = "RUN" THEN "END" ELSE "RUNERR")
    BY <1>1, <1>2, FlowSets
  <1>4. \A k \in Icon : runs[k] <= runs'[k]
    BY <1>1, <1>2 DEF TypeOK
  <1>5. StatusStep
    BY <1>2, <1>3, <1>4 DEF StatusStep, StatusSets
  <1> QED  BY <1>5, StatusStepKeeps

LEMMA SelectKeeps ==
  ASSUME SessionInv, TypeOK', JajobSelect
  PROVE  SessionInv'
  <1>1. TypeOK
    BY DEF SessionInv
  <1>2. \A k \in Icon : runs[k] <= runs'[k]
    BY <1>1 DEF TypeOK, JajobSelect, ghosts
  <1>3. StatusStep
    BY <1>2 DEF StatusStep, JajobSelect, icons, ghosts
  <1> QED  BY <1>3, StatusStepKeeps

LEMMA OperatorKeeps ==
  ASSUME SessionInv, TypeOK', OperatorNext
  PROVE  SessionInv'
  <1>1. TypeOK
    BY DEF SessionInv
  <1>2. /\ UNCHANGED <<row, launch, seen, procs, runs, execs, early, died>>
        /\ jobnet'.net = jobnet.net /\ (jobnet.abort => jobnet'.abort)
    BY <1>1
    DEF OperatorNext, Operator, SetStop, SetReStart, SetSkip, StopRunningJobnet, server,
        ghosts, TypeOK
  <1>3. ASSUME NEW i \in Icon
        PROVE  /\ status'[i] = status[i] \/ (status[i] \notin {"RUN", "END"} /\ status'[i] # "RUN")
               /\ jobnet.net = "ENDERR" /\ status'[i] = "READY" => status[i] = "READY"
    <2>1. jobnet.net = "ENDERR" => jobnet.abort
      BY DEF SessionInv, StoppedIsQuiet
    <2>2. CASE StopRunningJobnet
      BY <2>2 DEF StopRunningJobnet
    <2>3. ASSUME NEW k \in Icon, SetStop(k)  PROVE status' = status
      BY <2>3 DEF SetStop
    <2>4. ASSUME NEW k \in Icon, SetReStart(k)
          PROVE  /\ status[k] = "RUNERR" /\ jobnet.net # "ENDERR"
                 /\ status' = [status EXCEPT ![k] = "READY"]
      BY <2>1, <2>4 DEF SetReStart
    <2>5. ASSUME NEW k \in Icon, SetSkip(k)
          PROVE  /\ status[k] \in {"BEGIN", "READY", "RUNERR"} /\ jobnet.net # "ENDERR"
                 /\ status' = [status EXCEPT ![k] = IF @ = "RUNERR" THEN "READY" ELSE @]
      BY <2>1, <2>5 DEF SetSkip
    <2>6. ASSUME NEW k \in Icon, SetReStart(k)
          PROVE  /\ status'[i] = status[i] \/ (status[i] \notin {"RUN", "END"} /\ status'[i] # "RUN")
                 /\ jobnet.net # "ENDERR"
      BY <1>1, <2>4, <2>6 DEF TypeOK
    <2>7. ASSUME NEW k \in Icon, SetSkip(k)
          PROVE  /\ status'[i] = status[i] \/ (status[i] \notin {"RUN", "END"} /\ status'[i] # "RUN")
                 /\ jobnet.net # "ENDERR"
      BY <1>1, <2>5, <2>7 DEF TypeOK
    <2> QED  BY <2>2, <2>3, <2>6, <2>7 DEF OperatorNext
  <1>4. \A k \in Icon : runs[k] <= runs'[k]
    BY <1>1, <1>2 DEF TypeOK
  <1>5. StatusStep
    BY <1>2, <1>3, <1>4 DEF StatusStep
  <1> QED  BY <1>5, StatusStepKeeps

LEMMA RestartKeeps ==
  ASSUME SessionInv, TypeOK', ServerRestart
  PROVE  SessionInv'
  <1>1. TypeOK
    BY DEF SessionInv
  <1>2. /\ UNCHANGED <<status, jobnet, row, procs, runs, execs, early, died>>
        /\ launch' = {} /\ seen' = {}
    BY DEF ServerRestart, icons, ghosts
  <1>3. IconsOfSession' /\ StoppedIsQuiet'
    BY <1>2 DEF SessionInv, IconsOfSession, StoppedIsQuiet
  <1>4. \A k \in Icon : runs[k] <= runs'[k]
    BY <1>1, <1>2 DEF TypeOK
  <1>5. ASSUME NEW s \in Session, s \notin early'  PROVE Sound(s)'
    <2>1. Untouched(s)
      BY <1>2, <1>4 DEF Untouched
    <2> QED  BY <1>5, <2>1, UntouchedKeeps
  <1> QED  BY <1>3, <1>5 DEF SessionInv
-----------------------------------------------------------------------------
(* The end of the jobnet *)

LEMMA EndKeeps ==
  ASSUME SessionInv, TypeOK', JajobnetNext
  PROVE  SessionInv'
  <1>1. TypeOK
    BY DEF SessionInv
  <1>2. UNCHANGED <<launch, seen, procs, runs, execs, early, died>>
    BY DEF JajobnetNext, jajobnet_kill, JobnetEnds, server, ghosts
  <1>3. \A s \in Session : row'[s] = NoRow
    BY <1>1, RowsDeleted DEF JajobnetNext, jajobnet_kill, JobnetEnds, RowsGone
  <1>4. /\ \A i \in Icon : status[i] = "RUN" => status'[i] = "RUN"
        /\ jobnet'.net \in {"END", "ENDERR"}
        /\ jobnet'.net = "END" => \A i \in Icon : status'[i] = "END"
        /\ jobnet'.net = "ENDERR" => jobnet'.abort /\ \A i \in Icon : status'[i] # "READY"
    <2>1. CASE jajobnet_kill
      BY <1>1, <2>1 DEF jajobnet_kill, TypeOK
    <2>2. CASE JobnetEnds
      BY <1>1, <2>2 DEF JobnetEnds, TypeOK
    <2> QED  BY <2>1, <2>2 DEF JajobnetNext
  <1>5. IconsOfSession' /\ StoppedIsQuiet'
    BY <1>2, <1>3, <1>4 DEF SessionInv, IconsOfSession, StoppedIsQuiet
  <1>6. ASSUME NEW s \in Session, s \notin early'  PROVE Sound(s)'
    <2>1. Sound(s) /\ launch \subseteq Icon /\ \A p \in procs : p.job \subseteq Icon
      BY <1>1, <1>2, <1>6, ProcessFields DEF SessionInv, TypeOK
    <2>2. OneProcess(s)' /\ Connected(s)'
      BY <1>2, <2>1 DEF Sound, OneProcess, Connected
    <2>3. RowUntilEnd(s)' /\ RowTellsRun(s)'
      BY <1>3, <1>4 DEF RowUntilEnd, RowTellsRun
    <2>4. RowIsServed(s)'
      BY <1>2, <1>3, <1>4, <2>1 DEF Sound, RowIsServed
    <2>5. SendsAreOwed(s)'
      BY <1>2, <1>3, <2>1 DEF Sound, SendsAreOwed
    <2> QED  BY <2>2, <2>3, <2>4, <2>5 DEF Sound
  <1> QED  BY <1>5, <1>6 DEF SessionInv

-----------------------------------------------------------------------------
(* jarun opens, hands on and starts *)

\* An icon that is taken from READY to RUN, and the sessions it is not in.
LEMMA OtherSessions ==
  ASSUME SessionInv, TypeOK', NEW i \in Icon, NEW s \in Session, s \notin early', s # SessionOf[i],
         OpenSession(i) \/ UseSession(i), row'[s] = row[s],
         \A k \in launch' : k = i \/ k \in launch, launch \subseteq launch'
  PROVE  Sound(s)'
  <1>1. TypeOK
    BY DEF SessionInv
  <1>2. /\ UNCHANGED <<jobnet, seen, procs, execs, early, died>>
        /\ \A k \in Icon : k # i => status'[k] = status[k] /\ runs'[k] = runs[k]
    BY <1>1, OpenSets, UseSets DEF OpenSession, UseSession, server
  <1>3. \A k \in Icon : k # i => runs[k] <= runs'[k]
    BY <1>1, <1>2 DEF TypeOK
  <1>4. Untouched(s)
    BY <1>2, <1>3 DEF Untouched
  <1> QED  BY <1>4, UntouchedKeeps

LEMMA OpenKeeps ==
  ASSUME SessionInv, TypeOK', NEW i \in Icon, OpenSession(i)
  PROVE  SessionInv'
  <1> DEFINE s == SessionOf[i]
  <1>1. TypeOK /\ s \in Session
    BY IconFacts DEF SessionInv
  <1>2. CASE StatusSets(i, "RUNERR") /\ UNCHANGED <<row, launch>>
    BY <1>2, RefusalKeeps
  <1>3. CASE /\ row[s] = NoRow /\ launch' = {i}
             /\ StatusSets(i, "RUN") /\ RowSets(s, "BEGIN", i, 0)
    <2>1. /\ status[i] = "READY" /\ Opens(i) /\ launch = {} /\ runs'[i] = runs[i] + 1
          /\ \A k \in Icon : k # i => status'[k] = status[k] /\ runs'[k] = runs[k]
          /\ status'[i] = "RUN"
      BY <1>1, <1>3, OpenSets DEF StatusSets
    <2>2. UNCHANGED <<jobnet, seen, procs, execs, early, died>>
      BY DEF OpenSession
    <2>3. IconsOfSession'
      BY <1>3, <2>2 DEF SessionInv, IconsOfSession, RowSets
    <2>4. StoppedIsQuiet'
      BY <2>1, <2>2 DEF SessionInv, StoppedIsQuiet
    <2>5. ASSUME NEW t \in Session, t \notin early', t # s  PROVE Sound(t)'
      BY <1>3, <2>1, <2>5, OtherSessions DEF RowSets
    <2>6. ASSUME s \notin early'  PROVE Sound(s)'
      <3>1. Sound(s)
        BY <1>1, <2>2, <2>6 DEF SessionInv
      <3>2. jobnet.net = "RUN"
        <4>1. jobnet.net # "ENDERR"
          BY <2>1 DEF SessionInv, StoppedIsQuiet
        <4>2. jobnet.net # "END"
          BY <2>1, <3>1 DEF Sound, RowUntilEnd
        <4> QED  BY <1>1, <4>1, <4>2 DEF TypeOK
      <3>3. \A p \in procs' : p.session # s
        BY <1>3, <2>2, <3>1, <3>2 DEF Sound, RowUntilEnd
      <3>4. /\ row'[s] # NoRow /\ row'[s].status = "BEGIN" /\ row'[s].icon = i
        BY <1>3 DEF RowSets
      <3>5. OneProcess(s)' /\ Connected(s)' /\ RowUntilEnd(s)' /\ RowIsServed(s)'
        BY <1>3, <2>1, <2>2, <3>2, <3>3, <3>4
        DEF OneProcess, Connected, RowUntilEnd, RowIsServed
      <3>6. SendsAreOwed(s)'
        <4>1. \A k \in Icon : /\ runs[k] \in Nat /\ execs[k] \in Nat
                              /\ SessionOf[k] = s => execs[k] <= runs[k]
          BY <1>1, <3>1 DEF TypeOK, Sound, SendsAreOwed
        <4> QED  BY <1>3, <2>1, <2>2, <3>3, <4>1 DEF SendsAreOwed
      <3>7. ASSUME s \notin died'  PROVE RowTellsRun(s)'
        <4>1. RowTellsRun(s)
          BY <2>2, <3>1, <3>7 DEF Sound
        <4>2. \A k \in Icon : SessionOf[k] = s /\ status'[k] = "RUN" => k = i
          BY <1>3, <2>1, <3>2, <4>1 DEF RowTellsRun
        <4> QED  BY <1>3, <2>1, <3>4, <4>2 DEF RowTellsRun
      <3> QED  BY <3>5, <3>6, <3>7 DEF Sound
    <2> QED  BY <2>3, <2>4, <2>5, <2>6 DEF SessionInv
  <1> QED  BY <1>1, <1>2, <1>3, OpenSets

LEMMA UseKeeps ==
  ASSUME SessionInv, TypeOK', NEW i \in Icon, UseSession(i)
  PROVE  SessionInv'
  <1> DEFINE s == SessionOf[i]
  <1>1. TypeOK /\ s \in Session
    BY IconFacts DEF SessionInv
  <1>2. UNCHANGED <<jobnet, launch, seen, procs, execs, early, died>>
    BY DEF UseSession, server
  <1>3. CASE StatusSets(i, "RUNERR") /\ UNCHANGED row
    BY <1>2, <1>3, RefusalKeeps
  <1>4. CASE /\ row[s] # NoRow /\ row[s].status = "END"
             /\ StatusSets(i, "RUN") /\ RowSets(s, "BEGIN", i, row[s].pid)
    <2>1. /\ status[i] = "READY" /\ ~Opens(i) /\ runs'[i] = runs[i] + 1
          /\ \A k \in Icon : k # i => status'[k] = status[k] /\ runs'[k] = runs[k]
          /\ status'[i] = "RUN"
      BY <1>1, <1>4, UseSets DEF StatusSets
    <2>2. launch = {}
      BY DEF UseSession, Starts
    <2>3. IconsOfSession'
      BY <1>2, <1>4 DEF SessionInv, IconsOfSession, RowSets
    <2>4. StoppedIsQuiet'
      BY <1>2, <2>1 DEF SessionInv, StoppedIsQuiet
    <2>5. ASSUME NEW t \in Session, t \notin early', t # s  PROVE Sound(t)'
      BY <1>2, <1>4, <2>5, OtherSessions DEF RowSets
    <2>6. ASSUME s \notin early'  PROVE Sound(s)'
      <3>1. Sound(s) /\ jobnet.net = "RUN"
        BY <1>1, <1>2, <1>4, <2>6 DEF SessionInv, Sound, RowUntilEnd
      <3>2. /\ row'[s] # NoRow /\ row'[s].status = "BEGIN" /\ row'[s].icon = i
            /\ row'[s].pid = row[s].pid
        BY <1>4 DEF RowSets
      <3>3. ASSUME NEW p \in procs, p.session = s
            PROVE  p.at = "loop" /\ p.job = {} /\ p.open /\ row[s].pid = p.pid
        <4>1. Serves(p, row[s])
          BY <1>4, <3>1, <3>3 DEF Sound, RowIsServed
        <4>2. p.job = {}
          BY <1>4, <4>1 DEF Serves
        <4>3. p.at = "loop"
          BY <1>1, <1>4, <4>1, <4>2, ProcessFields DEF Serves
        <4> QED  BY <1>4, <4>1, <4>2, <4>3 DEF Serves
      <3>4. OneProcess(s)' /\ Connected(s)' /\ RowUntilEnd(s)'
        BY <1>2, <2>2, <3>1, <3>2, <3>3 DEF Sound, OneProcess, Connected, RowUntilEnd
      <3>5. RowIsServed(s)'
        BY <1>2, <2>1, <2>2, <3>2, <3>3 DEF RowIsServed, Serves
      <3>6. SendsAreOwed(s)'
        <4>1. \A k \in Icon : /\ runs[k] \in Nat /\ execs[k] \in Nat
                              /\ SessionOf[k] = s => execs[k] <= runs[k]
          BY <1>1, <3>1 DEF TypeOK, Sound, SendsAreOwed
        <4> QED  BY <1>2, <2>1, <2>2, <3>2, <3>3, <4>1 DEF SendsAreOwed
      <3>7. ASSUME s \notin died'  PROVE RowTellsRun(s)'
        <4>1. RowTellsRun(s)
          BY <1>2, <3>1, <3>7 DEF Sound
        <4>2. \A k \in Icon : SessionOf[k] = s /\ status'[k] = "RUN" => k = i
          BY <1>4, <2>1, <3>1, <4>1 DEF RowTellsRun
        <4>3. \E p \in procs' : p.session = s
          BY <1>2, <1>4, <4>1 DEF RowTellsRun
        <4> QED  BY <2>1, <3>2, <4>2, <4>3 DEF RowTellsRun
      <3> QED  BY <3>4, <3>5, <3>6, <3>7 DEF Sound
    <2> QED  BY <2>3, <2>4, <2>5, <2>6 DEF SessionInv
  <1> QED  BY <1>1, <1>3, <1>4, UseSets

LEMMA LaunchKeeps ==
  ASSUME SessionInv, TypeOK', NEW i \in Icon, Launched(i)
  PROVE  SessionInv'
  <1> DEFINE s == SessionOf[i]
             q == NewProcess(i)
  <1>1. TypeOK /\ s \in Session /\ seen \subseteq Icon
    BY IconFacts DEF SessionInv, TypeOK
  <1>2. /\ UNCHANGED <<status, jobnet, row, seen, runs, execs, early, died>>
        /\ i \in launch /\ launch' = {}
    BY DEF Launched, icons, ghosts
  <1>3. /\ procs' = procs \cup {q} /\ q.session = s /\ q.at = "main" /\ q.job = {}
    BY <1>1, LaunchSets
  <1> HIDE DEF q
  <1>4. \A k \in launch : k = i
    BY <1>2 DEF SessionInv, IconsOfSession
  <1>5. IconsOfSession' /\ StoppedIsQuiet'
    BY <1>2, <1>3 DEF SessionInv, IconsOfSession, StoppedIsQuiet
  <1>6. ASSUME NEW t \in Session, t \notin early', t # s  PROVE Sound(t)'
    <2>1. \A k \in Icon : runs[k] <= runs'[k]
      BY <1>1, <1>2 DEF TypeOK
    <2>2. Untouched(t)
      BY <1>2, <1>3, <1>4, <1>6, <2>1 DEF Untouched
    <2> QED  BY <1>6, <2>2, UntouchedKeeps
  <1>7. ASSUME s \notin early'  PROVE Sound(s)'
    <2>1. Sound(s)
      BY <1>1, <1>2, <1>7 DEF SessionInv
    <2>2. \A p \in procs' : p.session = s => p = q
      BY <1>2, <1>3, <2>1 DEF Sound, OneProcess
    <2>3. row[s] # NoRow => row[s].icon = i /\ row[s].status = "BEGIN"
      BY <1>2, <2>1 DEF Sound, RowIsServed
    <2>4. Opens(i) /\ status[i] = "RUN" /\ execs[i] < runs[i]
      BY <1>2, <2>1 DEF Sound, RowIsServed, SendsAreOwed
    <2>5. row[s] = NoRow => jobnet.net # "RUN"
      BY <1>2, <2>1 DEF Sound, RowUntilEnd
    <2>6. OneProcess(s)' /\ Connected(s)'
      BY <1>2, <1>3, <2>2 DEF OneProcess, Connected
    <2>7. RowUntilEnd(s)'
      BY <1>2, <2>1, <2>5 DEF Sound, RowUntilEnd
    <2>8. RowIsServed(s)'
      BY <1>2, <1>3, <2>2, <2>3, <2>4 DEF RowIsServed, Serves
    <2>9. SendsAreOwed(s)'
      BY <1>2, <1>3, <2>1, <2>2, <2>3, <2>4 DEF Sound, SendsAreOwed
    <2>10. ASSUME s \notin died'  PROVE RowTellsRun(s)'
      BY <1>2, <1>3, <2>1, <2>10 DEF Sound, RowTellsRun
    <2> QED  BY <2>6, <2>7, <2>8, <2>9, <2>10 DEF Sound
  <1> QED  BY <1>5, <1>6, <1>7 DEF SessionInv

LEMMA LaunchFailsKeeps ==
  ASSUME SessionInv, TypeOK', NEW i \in Icon, LaunchFails(i)
  PROVE  SessionInv'
  <1> DEFINE s == SessionOf[i]
  <1>1. TypeOK /\ s \in Session
    BY IconFacts DEF SessionInv
  <1>2. /\ UNCHANGED <<jobnet, row, seen, procs, runs, execs, early>>
        /\ i \in launch /\ launch' = {} /\ died' = died \cup {s}
    BY DEF LaunchFails
  <1>3. status'[i] = "RUNERR" /\ \A k \in Icon : k # i => status'[k] = status[k]
    BY <1>1, RunerrSets DEF LaunchFails, StatusSets
  <1>4. \A k \in launch : k = i
    BY <1>2 DEF SessionInv, IconsOfSession
  <1>5. IconsOfSession' /\ StoppedIsQuiet'
    BY <1>2, <1>3 DEF SessionInv, IconsOfSession, StoppedIsQuiet
  <1>6. ASSUME NEW t \in Session, t \notin early', t # s  PROVE Sound(t)'
    <2>1. \A k \in Icon : runs[k] <= runs'[k]
      BY <1>1, <1>2 DEF TypeOK
    <2>2. Untouched(t)
      BY <1>2, <1>3, <1>4, <1>6, <2>1 DEF Untouched
    <2> QED  BY <1>6, <2>2, UntouchedKeeps
  <1>7. ASSUME s \notin early'  PROVE Sound(s)'
    <2>1. Sound(s)
      BY <1>1, <1>2, <1>7 DEF SessionInv
    <2>2. Vacant(s)
      BY <1>2, <2>1 DEF Sound, OneProcess, Vacant
    <2>3. jobnet.net # "END" /\ (jobnet.net # "RUN" => row[s] = NoRow)
      BY <1>2, <2>1 DEF Sound, RowIsServed, RowUntilEnd
    <2> QED  BY <1>1, <1>2, <1>7, <2>2, <2>3, VacantKeeps
  <1> QED  BY <1>5, <1>6, <1>7 DEF SessionInv

-----------------------------------------------------------------------------
(* jajob asks a session to stop *)

LEMMA AbortKeeps ==
  ASSUME SessionInv, TypeOK', NEW i \in Icon, jajob_icon_less_abort(i)
  PROVE  SessionInv'
  <1> DEFINE s == SessionOf[i]
  <1>1. TypeOK /\ s \in Session /\ \A k \in Icon : runs[k] <= runs[k]
    BY IconFacts DEF SessionInv, TypeOK
  <1>2. /\ UNCHANGED <<jobnet, launch, procs, runs, execs, died>>
        /\ i \in seen /\ seen' = seen \ {i}
    BY DEF jajob_icon_less_abort
  <1>3. CASE UNCHANGED <<status, row, early>>
    <2>1. StatusStep
      BY <1>1, <1>2, <1>3 DEF StatusStep
    <2> QED  BY <2>1, StatusStepKeeps
  <1>4. CASE /\ row[s] # NoRow /\ RowSets(s, row[s].status, row[s].icon, row[s].pid)
             /\ UNCHANGED <<status, early>>
    <2>1. IconsOfSession' /\ StoppedIsQuiet'
      BY <1>2, <1>4 DEF SessionInv, IconsOfSession, StoppedIsQuiet, RowSets
    <2>2. ASSUME NEW t \in Session, t \notin early'  PROVE Sound(t)'
      <3>1. Untouched(t)
        BY <1>1, <1>2, <1>4 DEF Untouched, RowSets
      <3> QED  BY <2>2, <3>1, UntouchedKeeps
    <2> QED  BY <2>1, <2>2 DEF SessionInv
  <1>5. CASE /\ row[s] # NoRow /\ ~ja_process_check(row[s].pid)
             /\ RowsGone({s}) /\ StatusSets(i, "RUNERR")
             /\ \A k \in Icon : k # i => status'[k] = status[k]
             /\ early' = IF Starting(s) THEN early \cup {s} ELSE early
    <2>1. /\ row'[s] = NoRow /\ \A t \in Session : t # s => row'[t] = row[t]
          /\ status'[i] = "RUNERR"
      BY <1>1, <1>5 DEF RowsGone, StatusSets
    <2>2. IconsOfSession' /\ StoppedIsQuiet'
      BY <1>2, <1>5, <2>1 DEF SessionInv, IconsOfSession, StoppedIsQuiet
    <2>3. ASSUME NEW t \in Session, t \notin early', t # s  PROVE Sound(t)'
      <3>1. Untouched(t)
        BY <1>1, <1>2, <1>5, <2>1, <2>3 DEF Untouched
      <3> QED  BY <2>3, <3>1, UntouchedKeeps
    <2>4. ASSUME s \notin early'  PROVE Sound(s)'
      <3>1. ~Starting(s) /\ s \notin early
        BY <1>5, <2>4
      <3>2. Sound(s)
        BY <1>1, <3>1 DEF SessionInv
      <3>3. ASSUME NEW p \in procs, p.session = s  PROVE FALSE
        <4>1. p.at # "main"
          BY <3>1, <3>3 DEF Starting
        <4>2. row[s].pid = p.pid
          BY <1>5, <3>2, <3>3, <4>1 DEF Sound, RowIsServed, Serves
        <4> QED  BY <1>5, <3>3, <4>2 DEF ja_process_check
      <3>4. \A k \in launch : SessionOf[k] # s
        BY <3>1 DEF Starting
      <3>5. Vacant(s)
        BY <1>2, <3>3, <3>4 DEF Vacant
      <3>6. jobnet.net = "RUN"
        BY <1>5, <3>2 DEF Sound, RowUntilEnd
      <3>7. ASSUME s \notin died'  PROVE RowTellsRun(s)'
        <4>1. RowTellsRun(s)
          BY <1>2, <3>2, <3>7 DEF Sound
        <4>2. row[s].icon = i
          BY <1>2, <1>5, <3>3, <3>4, <4>1 DEF RowTellsRun
        <4>3. \A k \in Icon : SessionOf[k] = s /\ status'[k] = "RUN" => FALSE
          BY <1>5, <2>1, <3>6, <4>1, <4>2 DEF RowTellsRun
        <4> QED  BY <2>1, <4>3 DEF RowTellsRun
      <3> QED  BY <1>1, <1>2, <2>1, <3>1, <3>5, <3>6, <3>7, VacantKeeps
    <2> QED  BY <2>2, <2>3, <2>4 DEF SessionInv
  <1> QED  BY <1>1, <1>3, <1>4, <1>5, AbortSets
-----------------------------------------------------------------------------
(* The session processes *)

\* A step of process p touches no other session.
LEMMA OwnSession ==
  ASSUME SessionInv, TypeOK', NEW p \in procs, NEW s \in Session, s \notin early', s # p.session,
         \A t \in Session : t # p.session => row'[t] = row[t],
         \A x \in procs : x = p \/ x \in procs',
         \A x \in procs' : x \in procs \/ x.session = p.session,
         \A i \in Icon : SessionOf[i] # p.session =>
           /\ execs'[i] = execs[i]
           /\ status'[i] = status[i] \/ (status[i] = "BEGIN" /\ status'[i] = "READY"),
         UNCHANGED <<jobnet, launch, seen, runs, early>>, died \subseteq died'
  PROVE  Sound(s)'
  <1>1. \A k \in Icon : runs[k] <= runs'[k]
    BY DEF SessionInv, TypeOK
  <1>2. Untouched(s)
    BY <1>1 DEF Untouched
  <1> QED  BY <1>2, UntouchedKeeps

\* The processes and icons of a session whose process goes on.
LEMMA TurnFacts ==
  ASSUME SessionInv, NEW p \in procs, NEW q, Turns(p, q), p.session \notin early,
         UNCHANGED launch
  PROVE  /\ OneProcess(p.session)' /\ q \in procs'
         /\ \A x \in procs' : x.session = p.session => x = q
         /\ \A i \in launch : SessionOf[i] # p.session
  <1>1. OneProcess(p.session)
    BY ProcessFields DEF SessionInv, Sound
  <1> QED  BY <1>1 DEF OneProcess, Turns

LEMMA MainKeeps ==
  ASSUME SessionInv, TypeOK', NEW p \in procs, SessionMain(p)
  PROVE  SessionInv'
  <1> DEFINE s == p.session
  <1>1. TypeOK /\ s \in Session
    BY ProcessFields DEF SessionInv
  <1>2. UNCHANGED <<status, jobnet, launch, seen, runs, execs, early, died>>
    BY DEF SessionMain, icons, server, ghosts
  <1>3. CASE row[s] = NoRow /\ procs' = procs \ {p} /\ UNCHANGED row
    <2>1. IconsOfSession' /\ StoppedIsQuiet'
      BY <1>2, <1>3 DEF SessionInv, IconsOfSession, StoppedIsQuiet
    <2>2. ASSUME NEW t \in Session, t \notin early', t # s  PROVE Sound(t)'
      BY <1>2, <1>3, <2>2, OwnSession
    <2>3. ASSUME s \notin early'  PROVE Sound(s)'
      <3>1. Sound(s) /\ s \notin early
        BY <1>1, <1>2, <2>3 DEF SessionInv
      <3>2. Vacant(s)
        BY <1>2, <1>3, <3>1 DEF Sound, OneProcess, Vacant
      <3>3. ASSUME s \notin died'  PROVE RowTellsRun(s)'
        BY <1>2, <1>3, <3>1, <3>3 DEF Sound, RowTellsRun
      <3>4. jobnet'.net = "END" => \A i \in Icon : SessionOf[i] = s => status'[i] = "END"
        BY <1>2, <3>1 DEF Sound, RowUntilEnd
      <3> QED  BY <1>1, <1>2, <1>3, <3>1, <3>2, <3>3, <3>4, VacantKeeps
    <2> QED  BY <2>1, <2>2, <2>3 DEF SessionInv
  <1>4. CASE /\ row[s] # NoRow
             /\ RowSets(s, row[s].status, row[s].icon, p.pid)
             /\ \E q \in Process : Turns(p, q) /\ q.at = "loop" /\ q.job = {}
    <2>1. PICK q \in Process : Turns(p, q) /\ q.at = "loop" /\ q.job = {}
      BY <1>4
    <2>2. p.at = "main"
      BY DEF SessionMain
    <2>3. IconsOfSession' /\ StoppedIsQuiet'
      BY <1>2, <1>4, <2>1 DEF SessionInv, IconsOfSession, StoppedIsQuiet, RowSets, Turns
    <2>4. ASSUME NEW t \in Session, t \notin early', t # s  PROVE Sound(t)'
      BY <1>2, <1>4, <2>1, <2>4, OwnSession DEF RowSets, Turns
    <2>5. ASSUME s \notin early'  PROVE Sound(s)'
      <3>1. Sound(s) /\ s \notin early
        BY <1>1, <1>2, <2>5 DEF SessionInv
      <3>2. /\ OneProcess(s)' /\ q \in procs' /\ \A x \in procs' : x.session = s => x = q
            /\ \A i \in launch : SessionOf[i] # s
        BY <1>2, <2>1, <3>1, TurnFacts
      <3>3. /\ row'[s] # NoRow /\ row'[s].status = row[s].status /\ row'[s].icon = row[s].icon
            /\ row'[s].pid = q.pid /\ q.session = s
        BY <1>4, <2>1 DEF RowSets, Turns
      <3>4. row[s].status = "BEGIN" /\ Opens(row[s].icon)
        BY <1>4, <2>2, <3>1 DEF Sound, RowIsServed, Serves
      <3>5. RowUntilEnd(s)' /\ Connected(s)'
        BY <1>2, <1>4, <2>1, <3>1, <3>2, <3>3 DEF Sound, RowUntilEnd, Connected
      <3>6. RowIsServed(s)'
        <4>1. status[row[s].icon] = "RUN"
          BY <1>4, <3>1, <3>4 DEF Sound, RowIsServed
        <4> QED  BY <1>2, <2>1, <3>2, <3>3, <3>4, <4>1 DEF RowIsServed, Serves
      <3>7. SendsAreOwed(s)'
        BY <1>2, <1>4, <2>1, <2>2, <3>1, <3>2, <3>3 DEF Sound, SendsAreOwed
      <3>8. ASSUME s \notin died'  PROVE RowTellsRun(s)'
        BY <1>2, <1>4, <3>1, <3>2, <3>3, <3>4, <3>8 DEF Sound, RowTellsRun
      <3> QED  BY <3>2, <3>5, <3>6, <3>7, <3>8 DEF Sound
    <2> QED  BY <2>3, <2>4, <2>5 DEF SessionInv
  <1> QED  BY <1>1, <1>3, <1>4, MainSets

LEMMA ReadKeeps ==
  ASSUME SessionInv, TypeOK', NEW p \in procs, ReadRow(p)
  PROVE  SessionInv'
  <1> DEFINE s == p.session
             r == row[s]
  <1>1. TypeOK /\ s \in Session
    BY ProcessFields DEF SessionInv
  <1>2. UNCHANGED <<status, jobnet, row, launch, seen, runs, execs, early, died>>
    BY DEF ReadRow, icons, server, ghosts
  <1>3. CASE r = NoRow /\ procs' = procs \ {p}
    <2>1. IconsOfSession' /\ StoppedIsQuiet'
      BY <1>2, <1>3 DEF SessionInv, IconsOfSession, StoppedIsQuiet
    <2>2. ASSUME NEW t \in Session, t \notin early', t # s  PROVE Sound(t)'
      BY <1>2, <1>3, <2>2, OwnSession
    <2>3. ASSUME s \notin early'  PROVE Sound(s)'
      <3>1. Sound(s) /\ s \notin early
        BY <1>1, <1>2, <2>3 DEF SessionInv
      <3>2. Vacant(s)
        BY <1>2, <1>3, <3>1 DEF Sound, OneProcess, Vacant
      <3>3. ASSUME s \notin died'  PROVE RowTellsRun(s)'
        BY <1>2, <1>3, <3>1, <3>3 DEF Sound, RowTellsRun
      <3>4. jobnet'.net = "END" => \A i \in Icon : SessionOf[i] = s => status'[i] = "END"
        BY <1>2, <3>1 DEF Sound, RowUntilEnd
      <3> QED  BY <1>1, <1>2, <1>3, <3>1, <3>2, <3>3, <3>4, VacantKeeps
    <2> QED  BY <2>1, <2>2, <2>3 DEF SessionInv
  <1>4. CASE /\ r # NoRow /\ r.status = "BEGIN"
             /\ \E q \in Process :
                  /\ Turns(p, q) /\ q.job = {r.icon} /\ q.open = p.open
                  /\ q.at \in {"connect", "exec", "done"}
                  /\ q.at = "connect" <=> Opens(r.icon)
    <2>1. PICK q \in Process :
                  /\ Turns(p, q) /\ q.job = {r.icon} /\ q.open = p.open
                  /\ q.at \in {"connect", "exec", "done"}
                  /\ q.at = "connect" <=> Opens(r.icon)
      BY <1>4
    <2>2. p.at = "loop" /\ r.icon \in Icon /\ q.session = s /\ q.pid = p.pid
      BY <1>1, <1>4, <2>1, RowCases DEF ReadRow, Turns
    <2>3. SessionOf[r.icon] = s
      BY <1>1, <1>4 DEF SessionInv, IconsOfSession
    <2>4. IconsOfSession' /\ StoppedIsQuiet'
      BY <1>2, <2>1, <2>2, <2>3 DEF SessionInv, IconsOfSession, StoppedIsQuiet, Turns
    <2>5. ASSUME NEW t \in Session, t \notin early', t # s  PROVE Sound(t)'
      BY <1>2, <2>1, <2>5, OwnSession DEF Turns
    <2>6. ASSUME s \notin early'  PROVE Sound(s)'
      <3>1. Sound(s) /\ s \notin early
        BY <1>1, <1>2, <2>6 DEF SessionInv
      <3>2. /\ OneProcess(s)' /\ q \in procs' /\ \A x \in procs' : x.session = s => x = q
            /\ \A i \in launch : SessionOf[i] # s
        BY <1>2, <2>1, <3>1, TurnFacts
      <3>3. /\ r.pid = p.pid /\ (Opens(r.icon) \/ q.open)
        BY <1>4, <2>1, <2>2, <3>1 DEF Sound, RowIsServed, Serves
      <3>4. RowUntilEnd(s)' /\ Connected(s)'
        BY <1>2, <1>4, <2>1, <2>2, <3>1, <3>2, <3>3 DEF Sound, RowUntilEnd, Connected
      <3>5. status[r.icon] = "RUN"
        BY <1>4, <3>1 DEF Sound, RowIsServed
      <3>6. RowIsServed(s)'
        BY <1>2, <1>4, <2>1, <2>2, <3>2, <3>3, <3>5 DEF RowIsServed, Serves
      <3>7. SendsAreOwed(s)'
        BY <1>2, <1>4, <2>1, <2>2, <3>1, <3>2 DEF Sound, SendsAreOwed
      <3>8. ASSUME s \notin died'  PROVE RowTellsRun(s)'
        BY <1>2, <1>4, <2>2, <3>1, <3>2, <3>8 DEF Sound, RowTellsRun
      <3> QED  BY <3>2, <3>4, <3>6, <3>7, <3>8 DEF Sound
    <2> QED  BY <2>4, <2>5, <2>6 DEF SessionInv
  <1> QED  BY <1>1, <1>3, <1>4, ReadSets

LEMMA JobStepKeeps ==
  ASSUME SessionInv, TypeOK', NEW p \in procs, JobStep(p)
  PROVE  SessionInv'
  <1> DEFINE s == p.session
  <1>1. TypeOK /\ s \in Session /\ p.job \subseteq Icon
    BY ProcessFields DEF SessionInv
  <1>2. /\ UNCHANGED <<status, jobnet, row, launch, seen, runs, early, died>>
        /\ p.at \in {"connect", "exec", "read", "done"}
    BY <1>1, JobStepSets
  <1>3. PICK q \in Process :
          /\ Turns(p, q) /\ q.job = p.job /\ (p.open => q.open)
          /\ q.at \in {"exec", "read", "done"}
          /\ q.at \in {"exec", "read"} => q.open \/ p.at \in {"exec", "read"}
          /\ q.at = "done" /\ q.ok => p.at \in {"exec", "read"}
          /\ q.at = "exec" => p.at = "connect"
          /\ \/ execs' = execs
             \/ /\ p.at = "exec" /\ q.at = "read" /\ execs' \in [Icon -> Nat]
                /\ \A k \in p.job : execs'[k] = execs[k] + 1
                /\ \A k \in Icon \ p.job : execs'[k] = execs[k]
    BY <1>1, JobStepSets
  <1>4. \A i \in p.job : SessionOf[i] = s
    BY DEF SessionInv, IconsOfSession
  <1>5. q.session = s /\ q.pid = p.pid /\ procs' = (procs \ {p}) \cup {q}
    BY <1>3 DEF Turns
  <1>6. IconsOfSession' /\ StoppedIsQuiet'
    BY <1>2, <1>3, <1>4, <1>5 DEF SessionInv, IconsOfSession, StoppedIsQuiet
  <1>7. ASSUME NEW t \in Session, t \notin early', t # s  PROVE Sound(t)'
    <2>1. \A i \in Icon : SessionOf[i] # s => execs'[i] = execs[i]
      BY <1>3, <1>4
    <2> QED  BY <1>2, <1>5, <1>7, <2>1, OwnSession
  <1>8. ASSUME s \notin early'  PROVE Sound(s)'
    <2>1. Sound(s) /\ s \notin early
      BY <1>1, <1>2, <1>8 DEF SessionInv
    <2>2. /\ OneProcess(s)' /\ q \in procs' /\ \A x \in procs' : x.session = s => x = q
          /\ \A i \in launch : SessionOf[i] # s
      BY <1>2, <1>3, <2>1, TurnFacts
    <2>3. RowUntilEnd(s)'
      BY <1>2, <2>1, <2>2 DEF Sound, RowUntilEnd
    <2>4. q.at # "main" /\ q.at # "loop" /\ p.at # "main"
      BY <1>2, <1>3
    <2>5. RowIsServed(s)'
      BY <1>2, <1>3, <1>5, <2>1, <2>2, <2>4 DEF Sound, RowIsServed, Serves
    <2>6. Connected(s)'
      <3>1. p.at \in {"exec", "read"} => p.open
        BY <2>1 DEF Sound, Connected
      <3>2. \A i \in p.job : ~Opens(i) => p.open
        BY <2>1 DEF Sound, Connected
      <3> QED  BY <1>3, <2>2, <3>1, <3>2 DEF Connected
    <2>7. SendsAreOwed(s)'
      <3>1. /\ \A i \in Icon : SessionOf[i] = s => execs[i] <= runs[i]
            /\ \A i \in p.job : p.at \in {"connect", "exec"} => execs[i] < runs[i]
        BY <1>1, <1>4, <2>1 DEF Sound, SendsAreOwed
      <3>2. \A i \in Icon : runs[i] \in Nat /\ execs[i] \in Nat
        BY <1>1 DEF TypeOK
      <3>3. CASE execs' = execs
        BY <1>2, <1>3, <2>2, <2>4, <3>1, <3>3 DEF SendsAreOwed
      <3>4. CASE /\ p.at = "exec" /\ q.at = "read"
                 /\ \A k \in p.job : execs'[k] = execs[k] + 1
                 /\ \A k \in Icon \ p.job : execs'[k] = execs[k]
        <4>1. \A i \in Icon : SessionOf[i] = s => execs'[i] <= runs[i]
          BY <3>1, <3>2, <3>4
        <4> QED  BY <1>2, <2>2, <3>4, <4>1 DEF SendsAreOwed
      <3> QED  BY <1>3, <3>3, <3>4
    <2>8. ASSUME s \notin died'  PROVE RowTellsRun(s)'
      BY <1>2, <1>5, <2>1, <2>2, <2>8 DEF Sound, RowTellsRun
    <2> QED  BY <2>2, <2>3, <2>5, <2>6, <2>7, <2>8 DEF Sound
  <1> QED  BY <1>6, <1>7, <1>8 DEF SessionInv

LEMMA DiesKeeps ==
  ASSUME SessionInv, TypeOK', NEW p \in procs, ProcessDies(p)
  PROVE  SessionInv'
  <1> DEFINE s == p.session
  <1>1. TypeOK /\ s \in Session
    BY ProcessFields DEF SessionInv
  <1>2. /\ UNCHANGED <<status, jobnet, row, launch, seen, runs, execs, early>>
        /\ procs' = procs \ {p} /\ died' = died \cup {s}
    BY DEF ProcessDies, Exits, icons, server
  <1>3. IconsOfSession' /\ StoppedIsQuiet'
    BY <1>2 DEF SessionInv, IconsOfSession, StoppedIsQuiet
  <1>4. ASSUME NEW t \in Session, t \notin early', t # s  PROVE Sound(t)'
    BY <1>2, <1>4, OwnSession
  <1>5. ASSUME s \notin early'  PROVE Sound(s)'
    <2>1. Sound(s) /\ s \notin early
      BY <1>1, <1>2, <1>5 DEF SessionInv
    <2>2. Vacant(s)
      BY <1>2, <2>1 DEF Sound, OneProcess, Vacant
    <2>3. /\ jobnet'.net # "RUN" => row'[s] = NoRow
          /\ jobnet'.net = "END" => \A i \in Icon : SessionOf[i] = s => status'[i] = "END"
      BY <1>2, <2>1 DEF Sound, RowUntilEnd
    <2> QED  BY <1>1, <1>2, <2>1, <2>2, <2>3, VacantKeeps
  <1> QED  BY <1>3, <1>4, <1>5 DEF SessionInv

LEMMA ResultKeeps ==
  ASSUME SessionInv, TypeOK', NEW p \in procs, process_session(p)
  PROVE  SessionInv'
  <1> DEFINE s == p.session
             Result == IF jobnet.net = "RUN" THEN "END" ELSE "RUNERR"
             Gone == RowsGone({s}) /\ procs' = procs \ {p}
             NotWanted == row[s] = NoRow /\ UNCHANGED row /\ procs' = procs \ {p}
             Waits(i) == /\ row[s] # NoRow /\ RowSets(s, "END", row[s].icon, row[s].pid)
                         /\ \E q \in Process :
                              Turns(p, q) /\ q.at = "loop" /\ q.job = {} /\ q.open = p.open
                         /\ Flag[i] = "CONNECT" => p.ok
                         /\ Flag[i] # "ONETIME"
                         /\ p.ok => StatusSets(i, Result)
  <1>1. TypeOK /\ s \in Session
    BY ProcessFields DEF SessionInv
  <1>2. UNCHANGED <<jobnet, launch, seen, runs, execs, early, died>>
    BY DEF process_session, server, ghosts
  <1>3. PICK i \in Icon :
          /\ p.at = "done" /\ p.job = {i} /\ (Gone \/ NotWanted \/ Waits(i))
          /\ StatusSets(i, "RUNERR") \/ StatusSets(i, Result)
    BY <1>1, ResultSets
  <1>4. /\ status'[i] \in {"END", "RUNERR"}
        /\ jobnet.net # "RUN" => status'[i] = "RUNERR"
        /\ \A k \in Icon : k # i =>
             \/ status'[k] = status[k]
             \/ status[k] = "BEGIN" /\ status'[k] = "READY" /\ jobnet.net = "RUN"
    BY <1>3 DEF StatusSets
  <1>5. SessionOf[i] = s
    BY <1>3 DEF SessionInv, IconsOfSession
  <1>6. /\ \A t \in Session : t # s => row'[t] = row[t]
        /\ row'[s] # NoRow => row[s] # NoRow /\ row'[s].icon = row[s].icon
        /\ \A x \in procs : x = p \/ x \in procs'
        /\ \A x \in procs' : x \in procs \/ (x.session = s /\ x.job = {})
    <2>1. CASE Gone
      BY <1>1, <2>1 DEF RowsGone
    <2>2. CASE NotWanted
      BY <2>2
    <2>3. CASE Waits(i)
      BY <2>3 DEF RowSets, Turns
    <2> HIDE DEF Gone, NotWanted, Waits
    <2> QED  BY <1>3, <2>1, <2>2, <2>3
  <1> HIDE DEF Gone, NotWanted, Waits
  <1>7. IconsOfSession'
    BY <1>1, <1>2, <1>6 DEF SessionInv, IconsOfSession
  <1>8. StoppedIsQuiet'
    BY <1>2, <1>4 DEF SessionInv, StoppedIsQuiet
  <1>9. ASSUME NEW t \in Session, t \notin early', t # s  PROVE Sound(t)'
    <2>1. \A k \in Icon : SessionOf[k] # s =>
            /\ execs'[k] = execs[k]
            /\ status'[k] = status[k] \/ (status[k] = "BEGIN" /\ status'[k] = "READY")
      BY <1>2, <1>4, <1>5
    <2> QED  BY <1>2, <1>6, <1>9, <2>1, OwnSession
  <1>10. ASSUME s \notin early'  PROVE Sound(s)'
    <2>1. Sound(s) /\ s \notin early
      BY <1>1, <1>2, <1>10 DEF SessionInv
    <2>2. status[i] = "RUN" /\ (row[s] # NoRow => row[s].icon = i)
      BY <1>3, <2>1 DEF Sound, RowIsServed, Serves
    <2>3. jobnet.net # "END"
      BY <1>5, <2>1, <2>2 DEF Sound, RowUntilEnd
    <2>4. ASSUME s \notin died', jobnet.net = "RUN", NEW k \in Icon, SessionOf[k] = s
          PROVE  status'[k] # "RUN"
      <3>1. status[k] = "RUN" => k = i
        BY <1>2, <2>1, <2>2, <2>4 DEF Sound, RowTellsRun
      <3> QED  BY <1>4, <3>1
    <2>5. CASE Gone
      <3>1. row'[s] = NoRow /\ procs' = procs \ {p}
        BY <1>1, <2>5 DEF Gone, RowsGone
      <3>2. Vacant(s)
        BY <1>2, <2>1, <3>1 DEF Sound, OneProcess, Vacant
      <3>3. ASSUME s \notin died'  PROVE RowTellsRun(s)'
        BY <1>2, <2>4, <3>1, <3>3 DEF RowTellsRun
      <3> QED  BY <1>1, <1>2, <2>1, <2>3, <3>1, <3>2, <3>3, VacantKeeps
    <2>6. CASE NotWanted
      <3>1. row'[s] = NoRow /\ procs' = procs \ {p}
        BY <2>6 DEF NotWanted
      <3>2. Vacant(s)
        BY <1>2, <2>1, <3>1 DEF Sound, OneProcess, Vacant
      <3>3. ASSUME s \notin died'  PROVE RowTellsRun(s)'
        BY <1>2, <2>4, <3>1, <3>3 DEF RowTellsRun
      <3> QED  BY <1>1, <1>2, <2>1, <2>3, <3>1, <3>2, <3>3, VacantKeeps
    <2>7. CASE Waits(i)
      <3>1. PICK q \in Process : Turns(p, q) /\ q.at = "loop" /\ q.job = {} /\ q.open = p.open
        BY <2>7 DEF Waits
      <3>2. /\ OneProcess(s)' /\ q \in procs' /\ \A x \in procs' : x.session = s => x = q
            /\ \A k \in launch : SessionOf[k] # s
        BY <1>2, <2>1, <3>1, TurnFacts
      <3>3. /\ row[s] # NoRow /\ row[s].icon = i /\ row'[s] # NoRow /\ row'[s].status = "END"
            /\ row'[s].icon = i /\ row'[s].pid = row[s].pid
            /\ q.pid = p.pid /\ q.session = s
        BY <2>2, <2>7, <3>1 DEF Waits, RowSets, Turns
      <3>4. row[s].pid = p.pid
        BY <1>3, <2>1, <3>3 DEF Sound, RowIsServed, Serves
      <3>5. jobnet.net = "RUN"
        BY <2>1, <3>3 DEF Sound, RowUntilEnd
      <3>6. q.open
        <4>1. Opens(i) => p.ok
          BY <2>7 DEF Waits, Opens
        <4> QED  BY <1>3, <2>1, <3>1, <4>1 DEF Sound, Connected
      <3>7. Opens(i) => status'[i] = "END"
        <4>1. Opens(i) => StatusSets(i, Result)
          BY <2>7 DEF Waits, Opens
        <4> QED  BY <3>5, <4>1 DEF StatusSets
      <3>8. RowUntilEnd(s)' /\ Connected(s)'
        BY <1>2, <3>1, <3>2, <3>3, <3>5 DEF RowUntilEnd, Connected
      <3>9. RowIsServed(s)'
        BY <1>2, <3>1, <3>2, <3>3, <3>4, <3>6 DEF RowIsServed, Serves
      <3>10. SendsAreOwed(s)'
        BY <1>2, <2>1, <3>1, <3>2, <3>3 DEF Sound, SendsAreOwed
      <3>11. ASSUME s \notin died'  PROVE RowTellsRun(s)'
        BY <2>4, <3>2, <3>3, <3>5, <3>7, <3>11, <1>2 DEF RowTellsRun
      <3> QED  BY <3>2, <3>8, <3>9, <3>10, <3>11 DEF Sound
    <2> QED  BY <1>3, <2>5, <2>6, <2>7
  <1> QED  BY <1>7, <1>8, <1>9, <1>10 DEF SessionInv
-----------------------------------------------------------------------------
(* Theorems *)

LEMMA InitInv == Init => SessionInv
  <1> SUFFICES ASSUME Init  PROVE SessionInv
    OBVIOUS
  <1>1. TypeOK
    BY InitTypes
  <1>2. IconsOfSession /\ StoppedIsQuiet
    BY DEF Init, IconsOfSession, StoppedIsQuiet
  <1>3. ASSUME NEW s \in Session  PROVE Sound(s)
    <2>1. \A i \in Icon : status[i] # "RUN"
      BY DEF Init
    <2> QED  BY <2>1
             DEF Init, Sound, OneProcess, RowUntilEnd, RowIsServed, Connected, SendsAreOwed,
                 RowTellsRun
  <1> QED  BY <1>1, <1>2, <1>3 DEF SessionInv

LEMMA NextInv == SessionInv /\ [Next]_vars => SessionInv'
  <1> SUFFICES ASSUME SessionInv, [Next]_vars  PROVE SessionInv'
    OBVIOUS
  <1>1. TypeOK'
    BY NextTypes DEF SessionInv
  <1>2. CASE UNCHANGED vars
    <2>1. \A k \in Icon : runs[k] <= runs[k]
      BY DEF SessionInv, TypeOK
    <2>2. StatusStep
      BY <1>2, <2>1 DEF vars, StatusStep
    <2> QED  BY <1>1, <2>2, StatusStepKeeps
  <1>3. CASE JarunNext
    BY <1>1, <1>3, OpenKeeps, UseKeeps, LaunchKeeps, LaunchFailsKeeps, SkipKeeps DEF JarunNext
  <1>4. CASE JajobNext
    BY <1>1, <1>4, SelectKeeps, AbortKeeps DEF JajobNext
  <1>5. CASE SessionNext
    <2>1. PICK p \in procs : SessionMain(p) \/ ReadRow(p) \/ JobStep(p) \/ process_session(p)
                               \/ ProcessDies(p)
      BY <1>5 DEF SessionNext, SessionStep, JobStep
    <2> QED  BY <1>1, <2>1, MainKeeps, ReadKeeps, JobStepKeeps, ResultKeeps, DiesKeeps
  <1> QED  BY <1>1, <1>2, <1>3, <1>4, <1>5, EndKeeps, OperatorKeeps, RestartKeeps DEF Next

\* Every session whose row no abort deletes before its process has entered the
\* pid is Sound: one process, a row that lasts as long as the jobnet and that
\* row, process and icon agree on (jarun_icon_less, jajob_icon_less_abort,
\* jobarg_session, jajobnet).
THEOREM SessionInvariant == Spec => []SessionInv
  BY InitInv, NextInv, PTL DEF Spec

\* CONTINUE and CLOSE happen in a process that has logged in.
THEOREM ConnectedCorrect == Spec => []ContinueIsConnected
  <1>1. SessionInv => ContinueIsConnected
    BY ProcessFields DEF SessionInv, Sound, Connected, ContinueIsConnected
  <1> QED  BY <1>1, SessionInvariant, PTL

\* An icon sends its command at most once for each start.
THEOREM RunsOnceCorrect == Spec => []CommandRunsOnce
  <1>1. SessionInv => CommandRunsOnce
    BY IconFacts DEF SessionInv, Sound, SendsAreOwed, CommandRunsOnce
  <1> QED  BY <1>1, SessionInvariant, PTL

\* An icon that failed leaves no row that would make its rerun fail.
THEOREM RerunCorrect == Spec => []RerunFindsNoRow
  <1>1. SessionInv => RerunFindsNoRow
    <2> SUFFICES ASSUME SessionInv, NEW i \in Icon, status[i] = "RUNERR", Opens(i),
                        RowOf(i) # NoRow, RowOf(i).icon = i, SessionOf[i] \notin early \cup died
                 PROVE  FALSE
      BY DEF RerunFindsNoRow
    <2>1. SessionOf[i] \in Session /\ TypeOK
      BY IconFacts DEF SessionInv
    <2>2. RowTellsRun(SessionOf[i])
      BY <2>1 DEF SessionInv, Sound
    <2>3. row[SessionOf[i]].status \in {"BEGIN", "END"}
      BY <2>1, RowCases DEF RowOf
    <2> QED  BY <2>2, <2>3 DEF RowTellsRun, RowOf
  <1> QED  BY <1>1, SessionInvariant, PTL

\* An icon is orphaned only where the jobnet is stopped, a process died or an
\* abort came too early.
THEOREM OrphanCorrect == Spec => []OrphanHasCause
  <1>1. SessionInv => OrphanHasCause
    <2> SUFFICES ASSUME SessionInv, NEW i \in Icon, Orphan(i), ~jobnet.abort,
                        SessionOf[i] \notin early \cup died
                 PROVE  FALSE
      BY DEF OrphanHasCause
    <2>1. SessionOf[i] \in Session
      BY IconFacts
    <2>2. RowTellsRun(SessionOf[i]) /\ RowUntilEnd(SessionOf[i])
      BY <2>1 DEF SessionInv, Sound
    <2>3. jobnet.net = "RUN"
      <3>1. jobnet.net # "ENDERR"
        BY DEF SessionInv, StoppedIsQuiet
      <3>2. jobnet.net # "END"
        BY <2>2 DEF RowUntilEnd, Orphan
      <3> QED  BY <3>1, <3>2 DEF SessionInv, TypeOK
    <2> QED  BY <2>2, <2>3 DEF RowTellsRun, Orphan, RowOf
  <1> QED  BY <1>1, SessionInvariant, PTL
=============================================================================
