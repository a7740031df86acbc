--------------------------- MODULE MCJobScheduler ---------------------------
(***************************************************************************)
(* Small jobnets on which TLC checks JobScheduler.                         *)
(***************************************************************************)
EXTENDS JobScheduler

NoJobnetIcons == [j \in {} |-> "main"]
NoExtjobs     == [j \in {} |-> "SLEEP"]
NoReleases    == [j \in {} |-> "start"]
NoHosts       == [j \in Job |-> {}]
F(a, b)       == [from |-> a, to |-> b, type |-> "NORMAL"]
T(a, b)       == [from |-> a, to |-> b, type |-> "TRUE"]
N(a, b)       == [from |-> a, to |-> b, type |-> "FALSE"]
AllNormal(J)  == [j \in J |-> "NORMAL"]
OneNet(J)     == [j \in J |-> "main"]

(* Fork and join: start -> fork -> {a, b} -> join -> end *)
ForkJob     == {"start", "fork", "a", "b", "join", "end"}
ForkTypes(a, b) ==
  [start |-> "START", fork |-> "M", a |-> a, b |-> b, join |-> "W", end |-> "END"]
ForkJobs    == ForkTypes("JOB", "JOB")
ForkNetOf   == OneNet(ForkJob)
ForkMethod  == AllNormal(ForkJob)
ForkFlow    == {F("start", "fork"), F("fork", "a"), F("fork", "b"),
                F("a", "join"), F("b", "join"), F("join", "end")}

ForkCopies  == ForkTypes("FCOPY", "FCOPY")

(* A loop around a sub-jobnet:                                             *)
(*    start -> loop -> sub -> if, TRUE -> end, FALSE -> loop               *)
(*    sub:  substart -> x -> subend                                        *)
LoopJob    == {"start", "loop", "sub", "if", "end", "substart", "x", "subend"}
LoopTypes  == [start |-> "START", loop |-> "L", sub |-> "JOBNET", if |-> "IF",
               end |-> "END", substart |-> "START", x |-> "JOB", subend |-> "END"]
LoopNetOf  == [j \in LoopJob |-> IF j \in {"substart", "x", "subend"}
                                 THEN "inner" ELSE "main"]
LoopLink   == [sub |-> "inner"]
LoopMethod == AllNormal(LoopJob)
LoopFlow   == {F("start", "loop"), F("loop", "sub"), F("sub", "if"),
               T("if", "end"), N("if", "loop"),
               F("substart", "x"), F("x", "subend")}

(* Two reboots of one host, and the other icons that wait for it:          *)
(*    start -> week -> send -> rel -> copy -> fork, join -> task -> end    *)
(*    fork -> boot -> fwait -> join,  fork -> boot2 -> join                *)
(* task is on hold until rel releases it.                                  *)
HostJob     == {"start", "week", "send", "fork", "boot", "rel", "fwait", "boot2", "copy",
                "task", "join", "end"}
HostTypes   == [start |-> "START", week |-> "EXTJOB", send |-> "EXTJOB", fork |-> "M", boot |-> "REBOOT",
                rel |-> "REL", fwait |-> "FWAIT", boot2 |-> "REBOOT", copy |-> "FCOPY",
                task |-> "TASK", join |-> "W", end |-> "END"]
HostNetOf   == OneNet(HostJob)
HostMethod  == [AllNormal(HostJob) EXCEPT !["task"] = "WAIT"]
HostFlow    == {F("start", "week"), F("week", "send"), F("send", "rel"), F("rel", "copy"),
                F("copy", "fork"), F("fork", "boot"), F("boot", "fwait"),
                F("fwait", "join"), F("fork", "boot2"), F("boot2", "join"),
                F("join", "task"), F("task", "end")}
HostCommand == [week |-> "WEEK", send |-> "ZBXSENDER"]
HostRelease == [rel |-> "task"]
HostHosts   == [j \in HostJob |-> IF j \in {"boot", "boot2", "fwait", "copy"}
                                  THEN {"h"} ELSE {}]

(* A branch inside a fork:                                                 *)
(*    start -> fork -> a -> join -> end                                    *)
(*             fork -> if, TRUE -> b, FALSE -> c, both -> ifend -> join    *)
(* The REBOOT icon c and the job a work on the same host.                  *)
BranchJob    == {"start", "fork", "a", "if", "b", "c", "ifend", "join", "end"}
BranchTypes  == [start |-> "START", fork |-> "M", a |-> "JOB", if |-> "IF",
                 b |-> "EXTJOB", c |-> "REBOOT", ifend |-> "IFEND", join |-> "W",
                 end |-> "END"]
BranchNetOf  == OneNet(BranchJob)
BranchMethod == AllNormal(BranchJob)
BranchFlow   == {F("start", "fork"), F("fork", "a"), F("fork", "if"),
                 T("if", "b"), N("if", "c"), F("b", "ifend"), F("c", "ifend"),
                 F("a", "join"), F("ifend", "join"), F("join", "end")}
BranchCommand == [b |-> "SLEEP"]
BranchHosts   == [j \in BranchJob |-> IF j \in {"a", "c"} THEN {"h"} ELSE {}]
=============================================================================
