--------------------------- MODULE MCJobScheduler ---------------------------
(* Small job tables for TLC: times are in half minutes, intervals shortened. *)
EXTENDS JobScheduler, TLC

CONSTANTS trading, news, factors, briefing

Kinds == [j \in Job |-> CASE j = trading -> "aligned" [] j = news -> "offset"
                          [] j = factors -> "elapsed" [] OTHER -> "daily"]
Intervals == [j \in Job |-> CASE j = trading -> 5 [] j = news -> 4
                              [] j = factors -> 3 [] OTHER -> 1]
Offsets == [j \in Job |-> IF j = news THEN 1 ELSE 0]
Times == [j \in Job |-> IF j = briefing THEN {3} ELSE {}]
=============================================================================
