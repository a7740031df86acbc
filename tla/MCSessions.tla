---------------------------- MODULE MCSessions ----------------------------
(***************************************************************************)
(* A small jobnet of agentless icons, on which TLC checks Sessions: con    *)
(* opens the session s, left and right go on in it side by side, end       *)
(* closes it, and one then has a session of its own.                       *)
(***************************************************************************)
EXTENDS Sessions

LessIcons   == {"con", "left", "right", "end", "one"}
LessFlag    == [con |-> "CONNECT", left |-> "CONTINUE", right |-> "CONTINUE",
                end |-> "CLOSE", one |-> "ONETIME"]
LessBefore  == [con |-> {}, left |-> {"con"}, right |-> {"con"},
                end |-> {"left", "right"}, one |-> {"end"}]
LessSession == [i \in LessIcons |-> IF i = "one" THEN "t" ELSE "s"]
=============================================================================
