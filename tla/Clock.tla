--------------------------------- MODULE Clock ---------------------------------
(***************************************************************************)
(* TimeManagement (timeman.cpp) and SearchManager::check_time (search.cpp) *)
(* over the searches of a game: what one search leaves to the next, time   *)
(* counted in milliseconds or in nodes.  A visit is a node of the main     *)
(* thread.  The formulas of init are kept where they bound a result; what  *)
(* they give below that bound is left open.                                *)
(***************************************************************************)
EXTENDS Integers, TLC

CONSTANTS Gos,      \* [time, opponent, inc, movestogo, movetime, nodes, ponder]
          Options,  \* [npmsec, overhead]
          Check,    \* visits between two looks at the clock (512)
          Ratio,    \* or nodes / 1024
          Second,   \* milliseconds of a second (1000)
          Adjusts,  \* values of originalTimeAdjust from a long time, in percent
          Huge,     \* what a conversion of infinity may give
          MaxNodes, MaxGoes \* bounds of a search and of a game

VARIABLES job, out

Least(a, b) == IF a < b THEN a ELSE b
Most(a, b) == IF a > b THEN a ELSE b
NotYet == -1

(* credit: the nodes that a game's searches were granted, with what may    *)
(* pass between two looks at the clock, less what they used; granted: they *)
(* have been granted the first clock.                                      *)
Cleared == [available |-> NotYet, adjust |-> NotYet, callsCnt |-> 0, credit |-> 0, granted |-> FALSE]
(* own: the maximum is of this search; overdue: the visits since a limit   *)
(* was reached; looked: check_time has been past its count.                *)
Idle == [useNodes |-> FALSE, own |-> FALSE, undefined |-> FALSE, ms |-> 0, nodes |-> 0,
         ponder |-> FALSE, pondered |-> FALSE, stopOnPonderhit |-> FALSE, stop |-> "no",
         overdue |-> 0, looked |-> FALSE, busy |-> FALSE]
NoLimits == [time |-> 0, opponent |-> 0, inc |-> 0, movetime |-> 0, nodes |-> 0, npmsec |-> 0]
ClockInit ==
    /\ job = [limits |-> NoLimits, maximum |-> 0, goes |-> 0] @@ Cleared @@ Idle
    /\ out = 0

-------------------------------------------------------------------------------
(* init, for a side with a clock.  A scale is capped by a share of the     *)
(* time: 0.194 times originalTimeAdjust, or 0.88 with moves to go.         *)
Available(g, o) == IF job.available = NotYet THEN o.npmsec * g.time ELSE job.available
Time(g, o) == IF o.npmsec = 0 THEN g.time ELSE Available(g, o)
TimeLeft(g, o) ==
    LET rate == Most(1, o.npmsec)
        scaled == Time(g, o) \div rate
        mtg == IF scaled < Second THEN (scaled * 50) \div Second
               ELSE IF g.movestogo = 0 THEN 50 ELSE Least(g.movestogo, 50)
    IN  Most(1, Time(g, o) + rate * (g.inc * (mtg - 1) - o.overhead * (2 + mtg)))

(* log10 of a short time makes the adjustment negative, and then it is     *)
(* computed again by the next search.                                      *)
Adjusted(g, o) ==
    IF g.movestogo # 0 \/ job.adjust >= 0 THEN {job.adjust}
    ELSE IF TimeLeft(g, o) <= 18 THEN {NotYet} ELSE Adjusts
(* log10(0) is minus infinity; times a negative adjustment, infinity.      *)
Drained(g, o) == g.movestogo = 0 /\ Time(g, o) < Most(1, o.npmsec)
Optima(g, o, adjust) ==
    LET cap == IF g.movestogo # 0 THEN (88 * Time(g, o)) \div 100
               ELSE IF adjust < 0 \/ Drained(g, o) THEN 1 ELSE (194 * Time(g, o) * adjust) \div 100000
    IN  IF Drained(g, o) /\ adjust < 0 THEN {-Huge, Huge} ELSE 1..Most(1, cap)
Maxima(g, o, optimum) ==
    LET overhead == Most(1, o.npmsec) * o.overhead
    IN  {optimum, Most(optimum, Least((81 * Time(g, o)) \div 100 - overhead, 7 * optimum))}

Started(g, o) ==
    [job EXCEPT !.limits = [time |-> g.time, opponent |-> g.opponent, inc |-> g.inc, movetime |-> g.movetime,
                            nodes |-> g.nodes, npmsec |-> 0],
                !.useNodes = o.npmsec # 0, !.ponder = g.ponder, !.pondered = g.ponder, !.goes = @ + 1, !.busy = TRUE]
Planned(j, g, o, adjust, maximum) ==
    [j EXCEPT !.available = IF o.npmsec = 0 THEN @ ELSE Available(g, o),
              !.limits.time = Time(g, o), !.limits.inc = g.inc * Most(1, o.npmsec), !.limits.npmsec = o.npmsec,
              !.credit = IF o.npmsec # 0 /\ ~job.granted THEN Available(g, o) ELSE @,
              !.granted = @ \/ o.npmsec # 0,
              !.adjust = adjust, !.maximum = maximum, !.own = TRUE,
              !.undefined = Drained(g, o) /\ adjust < 0]
Go(g, o) ==
    /\ ~job.busy /\ job.goes < MaxGoes
    /\ IF g.time = 0 THEN job' = Started(g, o)
       ELSE \E adjust \in Adjusted(g, o) : \E optimum \in Optima(g, o, adjust) :
                \E maximum \in Maxima(g, o, optimum) :
                    job' = Planned(Started(g, o), g, o, adjust, maximum)
    /\ UNCHANGED out

-------------------------------------------------------------------------------
(* check_time *)
Managed(l) == l.time # 0 \/ l.opponent # 0
Elapsed(j) == IF j.useNodes THEN j.nodes ELSE j.ms
OffClock(j) == Elapsed(j) > j.maximum
Due(j) ==
    /\ ~j.ponder
    /\ \/ Managed(j.limits) /\ (OffClock(j) \/ j.stopOnPonderhit)
       \/ j.limits.movetime # 0 /\ Elapsed(j) >= j.limits.movetime
       \/ j.limits.nodes # 0 /\ j.nodes >= j.limits.nodes
IntervalOf(l) == IF l.nodes # 0 THEN Least(Check, l.nodes \div Ratio) ELSE Check
Looked(j) ==
    IF j.callsCnt > 1 THEN [j EXCEPT !.callsCnt = @ - 1, !.overdue = IF Due(j) THEN @ + 1 ELSE 0]
    ELSE [j EXCEPT !.callsCnt = IntervalOf(j.limits), !.looked = TRUE, !.overdue = 0,
                   !.stop = IF Due(j) /\ @ = "no" THEN "clock" ELSE @]

(* The main thread enters a node; others may have entered one too.  Only   *)
(* what the limits of the search can see is counted.                       *)
Visit ==
    /\ job.busy /\ job.stop = "no" /\ job.nodes < MaxNodes /\ job.ms < MaxNodes
    /\ \E n \in IF job.useNodes \/ job.limits.nodes # 0 THEN {1, 2} ELSE {0},
          dt \in IF job.useNodes THEN {0} ELSE {0, 2} :
        job' = Looked([job EXCEPT !.nodes = @ + n, !.ms = @ + dt])
    /\ UNCHANGED out
(* A probe of the tablebases takes long: the clock is looked at next.      *)
Probed == job.busy /\ job.callsCnt > 0 /\ job' = [job EXCEPT !.callsCnt = 0] /\ UNCHANGED out

(* iterative_deepening after an iteration, with any score and total time.  *)
SoftStop ==
    /\ job.busy /\ job.stop = "no" /\ Managed(job.limits) /\ ~job.stopOnPonderhit
    /\ job' = IF job.ponder THEN [job EXCEPT !.stopOnPonderhit = TRUE] ELSE [job EXCEPT !.stop = "enough"]
    /\ UNCHANGED out
(* A score below the window: the time is needed after all. *)
FailLow ==
    /\ job.busy /\ job.stop = "no" /\ job.stopOnPonderhit
    /\ job' = [job EXCEPT !.stopOnPonderhit = FALSE]
    /\ UNCHANGED out
Ponderhit == job.busy /\ job.ponder /\ job' = [job EXCEPT !.ponder = FALSE] /\ UNCHANGED out
GuiStop == job.busy /\ job.stop = "no" /\ job' = [job EXCEPT !.stop = "gui"] /\ UNCHANGED out

(* start_searching after the search; advance_nodes_time.                   *)
Overshoot == 2 * Check + 1
Paying == Managed(job.limits) /\ ~job.pondered /\ ~job.undefined
(* A mutant of Left: what is left may be -1, which means a new game.       *)
LeftUnbounded == job.available - (job.nodes - job.limits.inc)
Left == Most(0, job.available - (job.nodes - job.limits.inc))
Answer ==
    /\ job.busy /\ (job.stop # "no" \/ ~job.ponder)
    /\ job' = LET ended == [Idle @@ job EXCEPT !.limits = NoLimits] IN
              IF job.limits.npmsec = 0 THEN ended
              ELSE [ended EXCEPT !.available = Left,
                                 !.credit = @ + job.limits.inc + Overshoot - IF Paying THEN job.nodes ELSE 0]
    /\ UNCHANGED out
(* ThreadPool::clear, for a new game. *)
Clear == ~job.busy /\ job.goes > 0 /\ job' = Cleared @@ job /\ UNCHANGED out

ClockNext ==
    \/ Visit \/ Probed \/ SoftStop \/ FailLow \/ Ponderhit \/ GuiStop \/ Answer \/ Clear
    \/ \E g \in Gos, o \in Options : Go(g, o)

-------------------------------------------------------------------------------
(* A limit that is reached is noticed within the visits between two looks; *)
(* the first look may be late by what the search before has left over.     *)
Noticed == job.overdue < Most(1, IF job.looked THEN IntervalOf(job.limits) ELSE Check)

(* A search of a side with a clock plans with its own clock, and not with  *)
(* more than is on it.                                                     *)
PlansWithinClock ==
    job.busy /\ job.limits.time # 0 =>
        /\ job.own
        /\ job.undefined \/ job.maximum \in 1..Most(1, (88 * job.limits.time) \div 100)

(* No search is stopped early by itself, but for one with a clock of the   *)
(* other side only: it goes by the maximum of a search before.             *)
StoppedByLimit ==
    job.stop = "clock" =>
        \/ job.limits.nodes # 0 /\ job.nodes >= job.limits.nodes
        \/ job.limits.movetime # 0 /\ Elapsed(job) >= job.limits.movetime
        \/ Managed(job.limits) /\ (job.own \/ job.stopOnPonderhit)
        \/ job.limits.time = 0 /\ job.limits.opponent # 0

(* With nodes for time, the searches of a game use what they were granted, *)
(* and each of them what passes between two looks.                         *)
WithinBudget == job.credit >= 0

ClockSound == Noticed /\ PlansWithinClock /\ StoppedByLimit /\ WithinBudget
================================================================================
