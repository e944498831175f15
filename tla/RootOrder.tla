------------------------------- MODULE RootOrder -------------------------------
(***************************************************************************)
(* Worker::iterative_deepening: the order, scores and lines of the root    *)
(* moves over iterations, PV lines and aspiration windows, with a stop at  *)
(* any move of a root search.  The tree below a root move is its contract, *)
(* which TreeSearch checks: a loss that is told as an upper bound, or a    *)
(* win as a lower bound, is one.  After the search the threads vote for    *)
(* the line to play.                                                       *)
(***************************************************************************)
EXTENDS Integers, Sequences, FiniteSets, SequencesExt

CONSTANTS
    Problems,       \* [truth, tb, multiPV, mate, book]: what the root moves are
                    \* worth, and the entries of the experience book to apply
    Values,         \* the scores a search may return
    Mate,           \* VALUE_MATE
    Decisive,       \* the least score that is a win, and a mate
    MaxDepth        \* of the iterations looked at

VARIABLES
    problem, rms, rootDepth, pvIdx, pvFirst, pvLast,
    window,         \* [alpha, beta, delta] of the line and [at, raised, value] of its search
    last,           \* lastBestMovePV and lastBestMoveScore
    stop,
    best,           \* the mates of the completed iterations
    step            \* what iterative_deepening is about to do

vars == <<problem, rms, rootDepth, pvIdx, pvFirst, pvLast, window, last, stop, best, step>>

Infinite == Mate + 1
Abs(v) == IF v < 0 THEN -v ELSE v
Big(a, b) == IF a > b THEN a ELSE b
Small(a, b) == IF a < b THEN a ELSE b
IsLoss(v) == v <= -Decisive
IsMateOrMated(v) == Abs(v) >= Decisive
IsBound(r) == r.low \/ r.up
ExactLoss(r) == r.score # -Infinite /\ IsLoss(r.score) /\ ~IsBound(r)

(* operator< and stable_sort over rms[a..b]; a line is its first move and  *)
(* the score it was found with.                                            *)
Before(x, y) == x.score > y.score \/ (x.score = y.score /\ x.prev > y.prev)
StableSort(rs, a, b) ==
    LET rank(i) == a + Cardinality({j \in a..b :
                       Before(rs[j], rs[i]) \/ (~Before(rs[i], rs[j]) /\ j < i)})
    IN [k \in DOMAIN rs |-> IF k \in a..b THEN rs[CHOOSE i \in a..b : rank(i) = k] ELSE rs[k]]
MoveToFront(rs, m) ==
    LET i == CHOOSE k \in DOMAIN rs : rs[k].pv.move = m IN <<rs[i]>> \o Remove(rs, rs[i])
Moves == DOMAIN problem.truth
MultiPV == Small(problem.multiPV, Len(rms))

(* Experience::on_new_position: the best entry's move goes to the front,   *)
(* wherever the tables ranked it, and entries give their moves a score     *)
(* that no search has found.                                               *)
Remembered(r) ==
    LET es == {i \in DOMAIN problem.book : problem.book[i].move = r.pv.move} IN
    IF es = {} THEN r
    ELSE LET e == problem.book[CHOOSE i \in es : TRUE].score IN [r EXCEPT !.score = e, !.prev = e, !.avg = e]
OnNewPosition(rs) ==
    IF problem.book = << >> THEN rs
    ELSE LET rotated == MoveToFront(rs, problem.book[1].move) IN [i \in DOMAIN rs |-> Remembered(rotated[i])]

Closed == [alpha |-> 0, beta |-> 0, delta |-> 0, at |-> 1, raised |-> 0, value |-> 0]
Init ==
    /\ problem \in Problems
    /\ rms = OnNewPosition([m \in DOMAIN problem.truth |->
                 [score |-> -Infinite, prev |-> -Infinite, uci |-> -Infinite, avg |-> 0,
                  low |-> FALSE, up |-> FALSE, prevExact |-> FALSE, tb |-> problem.tb[m],
                  pv |-> [move |-> m, of |-> -Infinite], prevPV |-> [move |-> m, of |-> -Infinite]]])
    /\ rootDepth = 0 /\ pvIdx = 1 /\ pvFirst = 1 /\ pvLast = 1
    /\ window = Closed
    /\ last = [move |-> 0, of |-> -Infinite] /\ stop = FALSE /\ best = {} /\ step = "iterate"

Search(alpha, beta, delta) ==
    [alpha |-> alpha, beta |-> beta, delta |-> delta, at |-> pvIdx, raised |-> alpha, value |-> -Infinite]

(* A new iteration keeps the scores and lines of the one before.           *)
Iterate ==
    /\ step = "iterate" /\ rootDepth < MaxDepth /\ ~stop
    /\ rootDepth' = rootDepth + 1
    /\ rms' = [i \in DOMAIN rms |->
                  [rms[i] EXCEPT !.prev = rms[i].score, !.prevPV = rms[i].pv, !.prevExact = i <= MultiPV]]
    /\ pvIdx' = 1 /\ pvFirst' = 1 /\ pvLast' = 1 /\ step' = "line"
    /\ UNCHANGED <<problem, window, last, stop, best>>

(* Lines are searched within the moves of one tablebase rank.  pvLast is   *)
(* the end of the group, one past its last move.                           *)
OpenLine ==
    /\ step = "line"
    /\ LET next == pvIdx = pvLast
           others == {k \in pvLast + 1..Len(rms) : rms[k].tb # rms[pvIdx].tb}
           delta == 2 + Abs(rms[pvIdx].avg) \div 4
           avg == rms[pvIdx].avg
           alpha == Big(avg - delta, -Infinite)
       IN /\ pvFirst' = IF next THEN pvLast ELSE pvFirst
          /\ pvLast' = IF ~next THEN pvLast
                       ELSE IF others = {} THEN Len(rms) + 1
                       ELSE CHOOSE k \in others : \A j \in others : k <= j
          /\ window' = Search(alpha, Small(avg + delta, Infinite), delta)
    /\ step' = "search"
    /\ UNCHANGED <<problem, rms, rootDepth, pvIdx, last, stop, best>>

-------------------------------------------------------------------------------
(* search<Root>: every move of the group gets a score until a score        *)
(* reaches beta or the search is stopped.                                  *)
Honest(v, move, alpha, beta) ==
    /\ IsLoss(v) /\ v < beta => problem.truth[move] = "loss"
    /\ v >= Decisive /\ v > alpha => problem.truth[move] = "win"
RootMoveUpdate(r, v, first, alpha, beta) ==
    IF ~first /\ v <= alpha THEN [r EXCEPT !.score = -Infinite]
    ELSE [r EXCEPT !.score = v, !.low = v >= beta, !.up = v < beta /\ v <= alpha,
                   !.uci = IF v >= beta THEN beta ELSE IF v <= alpha THEN alpha ELSE v,
                   !.pv = [move |-> @.move, of |-> v], !.avg = v]

SearchMove ==
    /\ step = "search" /\ ~stop /\ window.at < pvLast /\ window.value < window.beta
    /\ \E v \in Values :
        LET r == rms[window.at]
            first == window.at = pvIdx IN
        /\ Honest(v, r.pv.move, window.raised, window.beta)
        /\ rms' = [rms EXCEPT ![window.at] = RootMoveUpdate(r, v, first, window.raised, window.beta)]
        /\ window' = [window EXCEPT !.at = @ + 1, !.value = Big(@, v), !.raised = Big(@, v)]
    /\ UNCHANGED <<problem, rootDepth, pvIdx, pvFirst, pvLast, last, stop, best, step>>

(* ProbCut at the root returns above beta and leaves the root moves alone. *)
RootProbCut ==
    /\ step = "search" /\ ~stop /\ rootDepth >= 2 /\ window.at = pvIdx /\ Abs(window.beta) < Decisive - 1
    /\ window' = [window EXCEPT !.value = window.beta + 1]
    /\ UNCHANGED <<problem, rms, rootDepth, pvIdx, pvFirst, pvLast, last, stop, best, step>>

SortSearched ==
    /\ step = "search"
    /\ stop \/ window.at = pvLast \/ window.value >= window.beta
    /\ rms' = StableSort(rms, pvIdx, pvLast - 1) /\ step' = "judge"
    /\ UNCHANGED <<problem, rootDepth, pvIdx, pvFirst, pvLast, window, last, stop, best>>

(* A score outside the window is searched again with a wider one.          *)
Judge ==
    /\ step = "judge"
    /\ LET w == window
           wider == w.delta + (47 * w.delta) \div 128 + 1
           inside == stop \/ (w.value > w.alpha /\ w.value < w.beta) IN
       IF inside THEN step' = "close" /\ window' = Closed
       ELSE /\ step' = "search"
            /\ window' = IF w.value <= w.alpha
                         THEN Search(Big(w.value - w.delta, -Infinite), w.alpha, wider)
                         ELSE Search(Big(w.beta - w.delta, w.alpha), Small(w.value + w.delta, Infinite), wider)
    /\ UNCHANGED <<problem, rms, rootDepth, pvIdx, pvFirst, pvLast, last, stop, best>>

-------------------------------------------------------------------------------
(* A line that was cut by stop does not overtake a proven loss, nor keeps  *)
(* an exact loss: it gets its score of the iteration before, or a bound.   *)
Exact(r) == [r EXCEPT !.low = FALSE, !.up = FALSE]
(* A mutant of Guarded: the old score comes back without its line.         *)
GuardedScore ==
    LET r == rms[pvIdx]
        above == rms[pvIdx - 1] IN
    IF ~((IsLoss(above.score) /\ Before(r, above)) \/ ExactLoss(r)) THEN r
    ELSE IF r.prev # -Infinite /\ r.prevExact /\ r.prev <= above.score
    THEN Exact([r EXCEPT !.score = r.prev, !.uci = r.prev])
    ELSE [r EXCEPT !.up = TRUE]
Guarded ==
    LET r == rms[pvIdx]
        above == rms[pvIdx - 1] IN
    IF ~((IsLoss(above.score) /\ Before(r, above)) \/ ExactLoss(r)) THEN r
    ELSE IF r.prev # -Infinite /\ r.prevExact /\ r.prev <= above.score
    THEN Exact([r EXCEPT !.score = r.prev, !.uci = r.prev, !.prev = -Infinite, !.pv = r.prevPV])
    ELSE IF IsLoss(above.score)
    THEN [r EXCEPT !.score = above.score, !.uci = above.score, !.prev = -Infinite, !.up = TRUE, !.low = FALSE]
    ELSE [r EXCEPT !.up = FALSE, !.low = TRUE]
CloseLine ==
    /\ step = "close"
    /\ LET rs == IF ~(stop /\ pvIdx > 1) THEN rms
                 ELSE [i \in DOMAIN rms |->
                          IF i = pvIdx THEN Guarded
                          ELSE IF i \in pvIdx + 1..MultiPV /\ ExactLoss(rms[i])
                               THEN [rms[i] EXCEPT !.low = TRUE] ELSE rms[i]]
       IN rms' = StableSort(rs, pvFirst, pvIdx)
    /\ step' = "next"
    /\ UNCHANGED <<problem, rootDepth, pvIdx, pvFirst, pvLast, window, last, stop, best>>

NextLine ==
    /\ step = "next"
    /\ IF stop THEN step' = "end" /\ UNCHANGED pvIdx
       ELSE pvIdx' = pvIdx + 1 /\ step' = IF pvIdx = MultiPV THEN "end" ELSE "line"
    /\ UNCHANGED <<problem, rms, rootDepth, pvFirst, pvLast, window, last, stop, best>>

(* A mate that was found before is not forgotten, and a loss from a search *)
(* that was cut is not trusted.                                            *)
EndIteration ==
    /\ step = "end"
    /\ LET top == rms[1]
           forgotten == last.of # -Infinite /\ IsMateOrMated(last.of)
                        /\ (Abs(top.score) < Abs(last.of) \/ IsBound(top))
           aborted == stop /\ pvIdx = 1 /\ ExactLoss(top)
       IN /\ last' = IF stop \/ forgotten THEN last ELSE [move |-> top.pv.move, of |-> top.score]
          /\ rms' = IF ~(aborted \/ (top.score # -Infinite /\ forgotten)) THEN rms
                    ELSE IF last'.move # 0
                    THEN [MoveToFront(rms, last'.move) EXCEPT
                             ![1] = Exact([@ EXCEPT !.score = last'.of, !.uci = last'.of, !.pv = last'])]
                    ELSE IF aborted THEN [rms EXCEPT ![1].low = TRUE] ELSE rms
          /\ best' = IF ~stop /\ IsMateOrMated(rms'[1].score) THEN best \cup {Abs(rms'[1].score)} ELSE best
          /\ stop' = (stop \/ (problem.mate /\ IsMateOrMated(rms'[1].score)))
    /\ step' = "iterate"
    /\ UNCHANGED <<problem, rootDepth, pvIdx, pvFirst, pvLast, window>>

Stop == ~stop /\ step # "done" /\ stop' = TRUE
        /\ UNCHANGED <<problem, rms, rootDepth, pvIdx, pvFirst, pvLast, window, last, best, step>>
Done == step = "iterate" /\ (stop \/ rootDepth = MaxDepth) /\ step' = "done"
        /\ UNCHANGED <<problem, rms, rootDepth, pvIdx, pvFirst, pvLast, window, last, stop, best>>

Next == Iterate \/ OpenLine \/ SearchMove \/ RootProbCut \/ SortSearched \/ Judge
        \/ CloseLine \/ NextLine \/ EndIteration \/ Stop \/ Done
Spec == Init /\ [][Next]_vars

-------------------------------------------------------------------------------
Answer == step = "done" /\ rootDepth > 0

(* output_pv: line k as it is shown.  A line that was not reached is told  *)
(* with what the iteration before had, and the tables' scores are exact.   *)
Shown(k) ==
    LET r == rms[k]
        old == r.score = -Infinite
        v == IF old THEN r.prev ELSE r.uci
        tb == (\E m \in Moves : problem.tb[m] # 0) /\ ~(v # -Infinite /\ IsMateOrMated(v))
    IN [hidden |-> rootDepth = 1 /\ old /\ k > 1,
        score |-> IF v = -Infinite THEN 0 ELSE v,
        pv |-> IF old THEN r.prevPV ELSE r.pv,
        exact |-> old \/ tb \/ ~IsBound(r), tb |-> tb]
Told == {k \in 1..MultiPV : ~Shown(k).hidden /\ ~Shown(k).tb /\ Shown(k).exact}

(* A loss that is told without a bound mark is proven: the move loses, and *)
(* on the first line so does every move of its rank.                       *)
LossProven ==
    Answer => \A k \in Told :
        IsLoss(Shown(k).score) =>
            /\ problem.truth[Shown(k).pv.move] = "loss"
            /\ k = 1 => \A j \in DOMAIN rms :
                   rms[j].tb = rms[k].tb => problem.truth[rms[j].pv.move] = "loss"
(* No mate of a completed iteration is lost or gets longer.                *)
MateKept == Answer => \A m \in best : Abs(rms[1].score) >= m
(* A mate is told with the line it was found with.                         *)
LineOfScore == Answer => \A k \in Told : IsMateOrMated(Shown(k).score) => Shown(k).pv.of = Shown(k).score
(* Ranks stay in the order the search found them: the best in front, but   *)
(* for a move of the experience book.                                      *)
RankOrder ==
    LET tb == problem.tb
        first == IF problem.book = << >> THEN << >> ELSE <<tb[problem.book[1].move]>>
        ranks == [i \in DOMAIN rms |-> rms[i].tb] IN
    step # "search" =>
        /\ first # << >> => ranks[1] = first[1]
        /\ \A i \in Len(first) + 1..Len(rms) - 1 : ranks[i] >= ranks[i + 1]
(* What is told of the root moves, however the search was stopped.         *)
RootSound == LossProven /\ MateKept /\ LineOfScore /\ RankOrder
================================================================================
