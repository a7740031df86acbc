------------------------------- MODULE MCBoot -------------------------------
(* Rows for Boot: planned starts p1 and p2 of one schedule, requests t1 and  *)
(* t2 for a time, the request x to start at once, all of one jobnet; bad and *)
(* badx have no valid definition.                                            *)
EXTENDS Boot

MCJobnetOf == [r \in Row |-> IF r \in {"bad", "badx"} THEN "b" ELSE "a"]
MCRunType  == [r \in Row |-> CASE r \in {"t1", "t2"} -> "SCHEDULED"
                               [] r \in {"x", "badx"} -> "IMMEDIATE"
                               [] OTHER -> "NORMAL"]
MCSchedule == [r \in PlannedRow |-> IF r = "bad" THEN "v" ELSE "u"]
MCTime     == [r \in Row |-> CASE r \in {"x", "badx"} -> 0
                               [] r \in {"p1", "bad"} -> StartTime + LoadSpan
                               [] OTHER -> StartTime + LoadSpan + 1]
MCMultiple == [r \in Row |-> IF r = "x" THEN "SKIP" ELSE "DELAY"]
=============================================================================
