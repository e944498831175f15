------------------------------- MODULE MCLimits --------------------------------
(***************************************************************************)
(* Instances of what bounds a search: the clock and the nodes of a game,   *)
(* and the statistics.                                                     *)
(***************************************************************************)
EXTENDS Integers, Sequences, FiniteSets, TLC

VARIABLES job, out

-------------------------------------------------------------------------------
(* Searches with a clock, with one of the opponent's only, by time, by     *)
(* nodes, and pondering; time is milliseconds or nodes.                    *)
NoGo == [time |-> 0, opponent |-> 0, inc |-> 0, movestogo |-> 0, movetime |-> 0, nodes |-> 0, ponder |-> FALSE]
Clocks == INSTANCE Clock WITH
    Gos <- {[NoGo EXCEPT !.time = 4, !.opponent = 4, !.inc = 1], [NoGo EXCEPT !.time = 4, !.movestogo = 2],
            [NoGo EXCEPT !.time = 1], [NoGo EXCEPT !.opponent = 4], [NoGo EXCEPT !.movetime = 3],
            [NoGo EXCEPT !.nodes = 3], [NoGo EXCEPT !.time = 3, !.opponent = 6, !.ponder = TRUE]},
    Options <- {[npmsec |-> 0, overhead |-> 0], [npmsec |-> 2, overhead |-> 1]},
    Check <- 2, Ratio <- 2, Second <- 4, Adjusts <- {200}, Huge <- 99, MaxNodes <- 14, MaxGoes <- 2

-------------------------------------------------------------------------------
(* Every function of the statistics, at the ends of its ranges.            *)
Quiet(m, c1, c2) == [capture |-> FALSE, main |-> m, cont1 |-> c1, cont2 |-> c2]
Capture(v, h) == [capture |-> TRUE, value |-> v, history |-> h]
Befores ==
    {Quiet(m, c1, c2) : m \in {-7183, 0, 7183}, c1 \in {-30000, -10000, 30000}, c2 \in {-30000, 0, 30000}}
    \cup {Capture(v, h) : v \in {208, 2538}, h \in {-10692, 10692}}
Conts == {[known |-> k, positive |-> p, inCheck |-> c] : k \in {1..6, {2, 6}}, p \in {{}, {1}, 1..6}, c \in BOOLEAN}
Depths == {1, 2, 7, 8, 30, 245}
Calls(S, conts) == {u @@ c : u \in S, c \in conts}
TheUpdates ==
    Calls({[of |-> "allStats", depth |-> d, isTT |-> t, before |-> b, quiets |-> n[1], captures |-> n[2], pv |-> FALSE,
            bestQuiet |-> q, early |-> TRUE] : d \in Depths, t \in BOOLEAN, b \in Befores, n \in {<<0, 0>>, <<1, 32>>, <<32, 31>>},
                q \in BOOLEAN}, {[known |-> 1..6, positive |-> 1..6, inCheck |-> FALSE]})
    \cup Calls({[of |-> "allStats", depth |-> 9, isTT |-> TRUE, before |-> b, quiets |-> 3, captures |-> 0, pv |-> TRUE,
                 bestQuiet |-> TRUE, early |-> FALSE] : b \in Befores}, Conts)
    \cup Calls({[of |-> "failLow", depth |-> d, before |-> b, late |-> l, worse |-> w, worseBefore |-> l] :
                    d \in Depths, b \in Befores, l \in BOOLEAN, w \in BOOLEAN}, Conts)
    \cup Calls({[of |-> "cutoff", depth |-> d] : d \in Depths} \cup {[of |-> "research"]}, Conts)
    \cup {[of |-> "evalDiff", evals |-> e] : e \in {-60000, -189, 0, 194, 60000}}
    \cup {[of |-> "refuted", depth |-> d] : d \in Depths}
    \cup {[of |-> "corrected", depth |-> d, error |-> e, rate |-> r] :
              d \in Depths, e \in {-63000, -20, 0, 1, 63000}, r \in {12, 18}}
Statistics == INSTANCE Histories WITH
    Updates <- TheUpdates,
    Races <- {[of |-> t, bonuses |-> <<<<a, b>>, <<c, -a>>>>] :
                 t \in {"cont", "pawn", "correction"}, a \in {-31978, 80}, b \in {-3000, 31978}, c \in {-120000, 6}},
    Tables <- {[unit |-> u, threads |-> t] : u \in {2, 3}, t \in 1..16}
================================================================================
