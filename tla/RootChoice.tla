------------------------------ MODULE RootChoice ------------------------------
(***************************************************************************)
(* What is answered when every thread has its root moves in order: the     *)
(* thread that ThreadPool::get_best_thread elects, and the move a          *)
(* handicapped program plays instead, Skill::pick_best.                    *)
(***************************************************************************)
EXTENDS Integers, Sequences, FiniteSets, SequencesExt

CONSTANTS
    Elections,      \* sequences of [move, score, bound, len]: the first root move of each thread
    Handicaps       \* [level, scores]: of the lines of multiPV

VARIABLES
    job,            \* an election, a handicap
    out             \* the thread or the line that was chosen, 0 before

choiceVars == <<job, out>>

Infinite == 32001
PawnValue == 208
IsWin(v) == v >= 31507
IsLoss(v) == v <= -31507
Abs(v) == IF v < 0 THEN -v ELSE v
Least(S) == CHOOSE x \in S : \A y \in S : x <= y
Most(S) == CHOOSE x \in S : \A y \in S : x >= y

-------------------------------------------------------------------------------
Decisive(t) == t.score # -Infinite /\ (IsWin(t.score) \/ IsLoss(t.score)) /\ ~t.bound
Votes(ths, move) ==
    LET low == Least({ths[i].score : i \in DOMAIN ths}) IN
    FoldLeft(LAMBDA sum, t : IF t.move = move THEN sum + t.score - low + 14 ELSE sum, 0, ths)
Replaces(ths, best, new) ==
    LET v == Votes(ths, best.move)
        w == Votes(ths, new.move)
    IN IF Decisive(best) THEN Decisive(new) /\ Abs(new.score) > Abs(best.score)
       ELSE Decisive(new) \/ (~IsLoss(new.score) /\ (w > v \/ (w = v /\ new.len > best.len)))
BestThread(ths) ==
    FoldLeft(LAMBDA b, i : IF Replaces(ths, ths[b], ths[i]) THEN i ELSE b, 1, [i \in DOMAIN ths |-> i])

Elect == job.kind = "election" /\ out = 0 /\ out' = BestThread(job.threads) /\ UNCHANGED job

(* A weak level draws from a wide range; a later line wins a tie.          *)
PickBest(level, scores, draw) ==
    LET top == Most({scores[i] : i \in DOMAIN scores})
        range == Least({top - Least({scores[i] : i \in DOMAIN scores}), PawnValue})
        weakness == 120 - 2 * level
        pushed(i) == scores[i] + (weakness * (top - scores[i]) + range * draw[i]) \div 128
    IN FoldLeft(LAMBDA b, i : IF pushed(i) >= pushed(b) THEN i ELSE b, 1, [i \in DOMAIN scores |-> i])
Handicap ==
    /\ job.kind = "handicap" /\ out = 0
    /\ \E draw \in [DOMAIN job.scores -> {0, 119 - 2 * job.level}] : out' = PickBest(job.level, job.scores, draw)
    /\ UNCHANGED job

ChoiceInit ==
    /\ out = 0
    /\ \/ \E t \in Elections : job = [kind |-> "election", threads |-> t]
       \/ \E h \in Handicaps : job = [kind |-> "handicap", level |-> h.level, scores |-> h.scores]
ChoiceNext == Elect \/ Handicap

-------------------------------------------------------------------------------
(* A mate that a thread has proven is played, the shortest of them;        *)
(* otherwise no thread that does not lose has more votes than the chosen.  *)
MateIsElected ==
    job.kind = "election" /\ out # 0 =>
        LET proven == {i \in DOMAIN job.threads : Decisive(job.threads[i])}
            chosen == job.threads[out] IN
        IF proven # {}
        THEN out \in proven /\ \A i \in proven : Abs(job.threads[i].score) <= Abs(chosen.score)
        ELSE \A i \in DOMAIN job.threads :
                IsLoss(job.threads[i].score)
                \/ Votes(job.threads, job.threads[i].move) <= Votes(job.threads, chosen.move)
(* The handicap gives away material, never the game: a move that loses by  *)
(* force is not played while another line of multiPV does not.             *)
HandicapKeepsGame ==
    job.kind = "handicap" /\ out # 0 =>
        (IsLoss(job.scores[out]) => \A i \in DOMAIN job.scores : IsLoss(job.scores[i]))
ChoiceSound == MateIsElected /\ HandicapKeepsGame
================================================================================
