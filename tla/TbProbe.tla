-------------------------------- MODULE TbProbe --------------------------------
(***************************************************************************)
(* What the Syzygy tables are asked and what is made of the answers: the   *)
(* probes, the ranking of the root moves and the extension of a principal  *)
(* variation (tbprobe.cpp, syzygy_extend_pv).  An endgame is a finite      *)
(* graph.  Its tables are what their generator makes of it, a component    *)
(* outside the code: where a capture already tells the result they hold    *)
(* anything that does not exceed it, en passant does not exist in them,    *)
(* and the distance to zeroing is stored for one side to move, in plies or *)
(* in moves, without the winning zeroing moves.                            *)
(***************************************************************************)
EXTENDS Integers, Sequences, FiniteSets, SequencesExt

CONSTANTS
    Endings,        \* a sequence of endings: position -> [moves, check, stm, bare]; a move is [to, kind]
    TableSets,      \* [junk, plies, side, symmetric, wdl, dtz]: the tables, and whose files exist
    Roots,          \* [at, cnt50, rep, rule50, rankDTZ, time, pv]: root positions to rank and extend
    Fifty           \* the plies of the 50 moves, 100 in the code

VARIABLES job, out
Nothing == [none |-> 0]

MAX_DTZ == 262144
PawnValue == 208
TbWin == 31753
Abs(v) == IF v < 0 THEN -v ELSE v
Sign(v) == IF v > 0 THEN 1 ELSE IF v < 0 THEN -1 ELSE 0
One(b) == IF b THEN 1 ELSE 0
Best(S) == CHOOSE x \in S : \A y \in S : x >= y
Least(S) == CHOOSE x \in S : \A y \in S : x <= y
Small(a, b) == IF a < b THEN a ELSE b
Big(a, b) == IF a > b THEN a ELSE b
Quot(a, b) == IF a >= 0 THEN a \div b ELSE -((-a) \div b)

-------------------------------------------------------------------------------
(* The truth, by retrograde analysis: -1, 0 or 1 for the side to move with *)
(* r plies of the 50 moves used, or, at the last index, without that rule. *)
Zeroing(m) == m.kind # "quiet"
Captures(m) == m.kind \in {"capture", "ep"}
Ever == Fifty + 1
After(m, r) == IF r = Ever THEN r ELSE IF Zeroing(m) THEN 0 ELSE r + 1
Outcome(g, truth, p, r, moves) ==
    IF g[p].moves = << >> THEN (IF g[p].check THEN -1 ELSE 0)
    ELSE IF r = Fifty THEN 0
    ELSE Best({-2} \cup {-truth[moves[m].to][After(moves[m], r)] : m \in DOMAIN moves})
RECURSIVE Solve(_, _)
Solve(g, truth) ==
    LET next == [p \in DOMAIN g |-> [r \in 0..Ever |-> Outcome(g, truth, p, r, g[p].moves)]]
    IN IF next = truth THEN truth ELSE Solve(g, next)
Truth(g) == Solve(g, [p \in DOMAIN g |-> [r \in 0..Ever |-> 0]])

(* WDLLoss to WDLWin: 1 and -1 are what the 50 moves turn into a draw.     *)
Five(held, free) == IF held # 0 THEN 2 * held ELSE free
Wdl(truth) == [p \in DOMAIN truth |-> Five(truth[p][0], truth[p][Ever])]

(* The distance to zeroing as probe_dtz tells it, without its sign.        *)
Far == 60
Mates(g, m) == g[m.to].moves = << >> /\ g[m.to].check
RECURSIVE Measure(_, _, _)
Measure(g, w, far) ==
    LET zero(x) == IF Abs(x) = 2 THEN 1 ELSE Fifty + 1
        via(m) == IF Zeroing(m) THEN zero(w[m.to]) ELSE IF Mates(g, m) THEN 1 ELSE Small(1 + far[m.to], Far)
        all(p) == {via(g[p].moves[m]) : m \in DOMAIN g[p].moves}
        keeps(p) == {via(g[p].moves[m]) : m \in {k \in DOMAIN g[p].moves : w[g[p].moves[k].to] < 0}}
        next == [p \in DOMAIN g |->
                    IF w[p] = 0 THEN 0 ELSE IF all(p) = {} THEN 1
                    ELSE IF w[p] > 0 THEN Least(keeps(p)) ELSE Best(all(p))]
    IN IF next = far THEN far ELSE Measure(g, w, next)
Distance(g, w) == Measure(g, w, [p \in DOMAIN g |-> Far])

-------------------------------------------------------------------------------
(* The files.                                                              *)
Game == Endings[job.ending]
At(p) == Game[p]
Real(p) == SelectSeq(At(p).moves, LAMBDA m : m.kind # "ep")
WithoutEp(p) ==
    IF Len(Real(p)) = Len(At(p).moves) THEN job.result[p]
    ELSE Five(Outcome(Game, job.truth, p, 0, Real(p)), Outcome(Game, job.truth, p, Ever, Real(p)))
StoredWdl(p) ==
    LET w == WithoutEp(p)
        caught == {-job.result[m.to] : m \in {k \in Range(Real(p)) : k.kind = "capture"}} IN
    IF \E c \in caught : c >= w THEN Small(job.junk, w) ELSE w
StoredDtz(p) ==
    LET w == job.result[p]
        zeroed == \E m \in Range(At(p).moves) : Zeroing(m) /\ -job.result[m.to] >= w
        plies == job.distance[p] - 1 - Fifty * One(Abs(w) = 1) IN
    IF w = 0 \/ (w > 0 /\ zeroed) THEN 5 ELSE IF job.plies /\ Abs(w) = 2 THEN plies ELSE plies \div 2

-------------------------------------------------------------------------------
(* probe_table for each kind of file: [v, st], what it gives and the state *)
(* that it leaves.                                                         *)
Ok(v) == [v |-> v, st |-> "ok"]
Fail == [v |-> 0, st |-> "fail"]
ProbeTableWdl(p) ==
    IF At(p).bare THEN Ok(0) ELSE IF p \notin job.wdl THEN Fail ELSE Ok(StoredWdl(p))
CheckDtzStm(p) == At(p).stm = job.side \/ job.symmetric
MapScore(p, wdl) ==
    LET v == StoredDtz(p) IN
    1 + (IF Abs(wdl) = 2 /\ job.plies THEN v ELSE 2 * v)
ProbeTableDtz(p, wdl) ==
    IF At(p).bare THEN Ok(0) ELSE IF p \notin job.dtz THEN Fail
    ELSE IF ~CheckDtzStm(p) THEN [v |-> 0, st |-> "change_stm"]
    ELSE Ok(MapScore(p, wdl))

(* A mutant of Settled: the result of the captures is not compared.        *)
SettledByTable(best, table, moreMoves) == table
Settled(best, table, moreMoves) ==
    IF table.st = "fail" THEN Fail
    ELSE IF best >= table.v
         THEN [v |-> best, st |-> IF best > 0 \/ ~moreMoves THEN "zeroing" ELSE "ok"]
         ELSE Ok(table.v)
(* search<CheckZeroingMoves>: captures first, they may be worth more than  *)
(* what the table tells, and may be all there is.                          *)
Tried(p, pawns) == SelectSeq(At(p).moves, LAMBDA m : Captures(m) \/ (pawns /\ m.kind = "pawn"))
Better(seen, r) ==
    IF r.st = "fail" THEN [over |-> TRUE, r |-> Fail, best |-> 0]
    ELSE IF r.v = -2 THEN [over |-> TRUE, r |-> [v |-> 2, st |-> "zeroing"], best |-> 2]
    ELSE [seen EXCEPT !.best = Big(@, -r.v)]
Concluded(p, seen, all) ==
    IF seen.over THEN seen.r
    ELSE Settled(seen.best, IF all THEN Ok(seen.best) ELSE ProbeTableWdl(p), ~all)
RECURSIVE Search(_, _)
Search(p, pawns) ==
    Concluded(p,
        FoldLeft(LAMBDA seen, m : IF seen.over THEN seen ELSE Better(seen, Search(m.to, FALSE)),
                 [over |-> FALSE, r |-> Fail, best |-> -2], Tried(p, pawns)),
        Len(Tried(p, pawns)) = Len(At(p).moves) /\ At(p).moves # << >>)
ProbeWdl(p) == Search(p, FALSE)

DtzBeforeZeroing(w) == CASE w = 0 -> 0 [] Abs(w) = 2 -> w \div 2 [] OTHER -> w * (Fifty + 1)

(* probe_dtz: with the table of the other side every move is tried; the    *)
(* least distance that keeps the result is taken.                          *)
Via(m, c) ==
    IF Zeroing(m) THEN [c EXCEPT !.v = -DtzBeforeZeroing(c.v)] ELSE [c EXCEPT !.v = -c.v]
Further(m, d) == IF Zeroing(m) THEN d ELSE d + Sign(d)
LeastOf(S) == Ok(IF S = {} THEN -1 ELSE Least(S))
ByMoves(p, wdl, tried) ==
    IF \E m \in DOMAIN tried : tried[m].st = "fail" THEN Fail
    ELSE LeastOf({1 : m \in {k \in DOMAIN tried : tried[k].v = 1 /\ Mates(Game, At(p).moves[k])}}
                 \cup {d \in {Further(At(p).moves[m], tried[m].v) : m \in DOMAIN tried} : Sign(d) = Sign(wdl)})
RECURSIVE ProbeDtz(_)
DtzBySearch(p, s, t) ==
    IF s.st = "fail" \/ s.v = 0 THEN [s EXCEPT !.v = 0]
    ELSE IF s.st = "zeroing" THEN Ok(DtzBeforeZeroing(s.v))
    ELSE IF t.st = "fail" THEN t
    ELSE IF t.st = "ok" THEN Ok((t.v + Fifty * One(Abs(s.v) = 1)) * Sign(s.v))
    ELSE ByMoves(p, s.v, [m \in DOMAIN At(p).moves |->
             Via(At(p).moves[m], IF Zeroing(At(p).moves[m]) THEN Search(At(p).moves[m].to, FALSE)
                                 ELSE ProbeDtz(At(p).moves[m].to))])
ProbeDtz(p) == LET s == Search(p, TRUE) IN DtzBySearch(p, s, ProbeTableDtz(p, s.v))

-------------------------------------------------------------------------------
(* Ranks, from what the probes have told of the positions.                 *)
Draws50(p, r) == r >= Fifty /\ ~(At(p).moves = << >> /\ At(p).check)
RootDtz(m, cnt50) ==
    IF Zeroing(m) THEN LET w == job.seen[m.to].wdl IN [w EXCEPT !.v = DtzBeforeZeroing(-w.v)]
    ELSE IF job.rule50 /\ Draws50(m.to, After(m, cnt50)) THEN Ok(0)
    ELSE LET d == job.seen[m.to].dtz IN
         [d EXCEPT !.v = IF Mates(Game, m) /\ -d.v = 1 THEN 1 ELSE -d.v + Sign(-d.v)]
RankOf(dtz, cnt50, rep, rankDTZ) ==
    IF dtz > 0
    THEN IF dtz + cnt50 <= Fifty - 1 /\ ~rep THEN MAX_DTZ - dtz * One(rankDTZ) ELSE MAX_DTZ \div 2 - (dtz + cnt50)
    ELSE IF dtz < 0
    THEN IF -dtz * 2 + cnt50 < Fifty THEN -MAX_DTZ - dtz * One(rankDTZ) ELSE -(MAX_DTZ \div 2) + (cnt50 - dtz)
    ELSE 0
ScoreOf(r) ==
    LET bound == IF job.rule50 THEN MAX_DTZ \div 2 - Fifty ELSE 1
        close == MAX_DTZ \div 2 - 2 * Fifty IN
    IF r >= bound THEN TbWin ELSE IF r > 0 THEN Quot(Big(3, r - close) * PawnValue, 2 * Fifty)
    ELSE IF r = 0 THEN 0 ELSE IF r > -bound THEN Quot(Small(-3, r + close) * PawnValue, 2 * Fifty) ELSE -TbWin

Ranked(move, rank, score) == [move |-> move, rank |-> rank, score |-> score]
RootProbe(p, cnt50, rep, rankDTZ, late) ==
    LET d == [m \in DOMAIN At(p).moves |-> RootDtz(At(p).moves[m], cnt50)] IN
    IF late \/ \E m \in DOMAIN d : d[m].st = "fail" THEN << >>
    ELSE [m \in DOMAIN d |-> LET r == RankOf(d[m].v, cnt50, rep, rankDTZ) IN Ranked(m, r, ScoreOf(r))]
WdlToRank(w) == CASE w = 0 -> 0 [] w = 1 -> MAX_DTZ - Fifty - 1 [] w = -1 -> Fifty + 1 - MAX_DTZ
                  [] w = 2 -> MAX_DTZ [] w = -2 -> -MAX_DTZ
WdlToValue(w) == CASE Abs(w) = 2 -> TbWin * (w \div 2) [] OTHER -> 2 * w
RootProbeWdl(p, cnt50) ==
    LET w == [m \in DOMAIN At(p).moves |->
                 IF Draws50(At(p).moves[m].to, After(At(p).moves[m], cnt50)) THEN Ok(0)
                 ELSE job.seen[At(p).moves[m].to].wdl] IN
    IF \E m \in DOMAIN w : w[m].st = "fail" THEN << >>
    ELSE [m \in DOMAIN w |->
             Ranked(m, WdlToRank(-w[m].v), WdlToValue(IF job.rule50 THEN -w[m].v ELSE -2 * Sign(w[m].v)))]

ByRank(moves) == SortSeq(moves, LAMBDA a, b : a.rank > b.rank)
(* rank_root_moves; late is time_abort, which stays true.                  *)
Answer(p, first, ranked, exact) ==
    IF At(p).moves = << >> \/ ranked = << >>
    THEN [inTB |-> FALSE, exact |-> exact, probing |-> TRUE, moves |-> [i \in DOMAIN first |-> Ranked(first[i], 0, 0)]]
    ELSE LET moves == ByRank([i \in DOMAIN first |-> ranked[first[i]]]) IN
         [inTB |-> TRUE, exact |-> exact, probing |-> ~exact /\ moves[1].score > 0, moves |-> moves]
ByDtzOrWdl(p, cnt50, late, first, dtz) ==
    Answer(p, first, IF dtz = << >> /\ ~late THEN RootProbeWdl(p, cnt50) ELSE dtz, dtz # << >>)
RankRootMoves(p, cnt50, rep, rankDTZ, late, first) ==
    ByDtzOrWdl(p, cnt50, late, first, RootProbe(p, cnt50, rep, rankDTZ, late))
AsGenerated(p) == [m \in DOMAIN At(p).moves |-> m]

-------------------------------------------------------------------------------
(* syzygy_extend_pv.  The line so far is a sequence of moves, their        *)
(* positions and the plies of the 50 moves; time is what is left before    *)
(* time_abort.                                                             *)
Line(p, cnt50) == [pv |-> << >>, at |-> <<p>>, r50 |-> <<cnt50>>]
End(l) == Last(l.at)
Play(l, m) ==
    LET mv == At(End(l)).moves[m] IN
    [pv |-> Append(l.pv, m), at |-> Append(l.at, mv.to), r50 |-> Append(l.r50, After(mv, Last(l.r50)))]
Before(l, i) == l.at[i] = End(l) /\ \A j \in i + 1..Len(l.at) : l.r50[j] > 0
Times(l) == Cardinality({i \in 1..Len(l.at) - 1 : Before(l, i)})
IsRepetition(l, ply) == Times(l) >= 2 \/ \E i \in 1..Len(l.at) - 1 : Before(l, i) /\ Len(l.at) - i < ply
IsDraw(l, ply) == Draws50(End(l), Last(l.r50)) \/ IsRepetition(l, ply)

(* Moves of equal rank are told apart by what they leave the opponent.     *)
Mobility(p, m) ==
    FoldLeft(LAMBDA sum, o : sum - (IF Captures(o) THEN 100 ELSE 1), 0, At(At(p).moves[m].to).moves)
ByMobility(p) == SortSeq(AsGenerated(p), LAMBDA a, b : Mobility(p, a) > Mobility(p, b))

-------------------------------------------------------------------------------
Probe ==
    /\ job.seen = << >> /\ UNCHANGED out
    /\ job' = [job EXCEPT !.seen = [p \in DOMAIN Game |-> [wdl |-> ProbeWdl(p), dtz |-> ProbeDtz(p)]]]
Rank ==
    /\ out = Nothing /\ job.seen # << >> /\ UNCHANGED job
    /\ out' = RankRootMoves(job.at, job.cnt50, job.rep, job.rankDTZ, job.time = 0, AsGenerated(job.at))
(* output_pv extends the line of a decisive score that is not a mate: the  *)
(* root move is played without a question.                                 *)
Show ==
    /\ "moves" \in DOMAIN out /\ job.pv # << >>
    /\ \E rm \in Range(out.moves) :
        /\ rm.move = Head(job.pv) /\ Abs(rm.score) = TbWin
        /\ out' = [l |-> Play(Line(job.at, job.cnt50), rm.move), rest |-> Tail(job.pv), time |-> job.time,
                   v |-> rm.score, kept |-> 0, step |-> "walk"]
    /\ UNCHANGED job
StopWalk(l, time) == [out EXCEPT !.l = l, !.rest = << >>, !.time = time, !.kept = Len(l.pv), !.step = "extend"]
Walked(c, next, left) ==
    IF \E rm \in Range(c.moves) : rm.move = Head(out.rest) /\ rm.rank # c.moves[1].rank THEN StopWalk(out.l, left)
    ELSE IF c.inTB /\ ((job.rule50 /\ IsDraw(next, Len(next.pv))) \/ IsRepetition(next, Len(next.pv)))
    THEN StopWalk(out.l, left)
    ELSE IF c.inTB /\ left = 0 THEN StopWalk(next, left)
    ELSE [out EXCEPT !.l = next, !.rest = Tail(@), !.time = left]
Walk ==
    /\ "l" \in DOMAIN out /\ out.step = "walk" /\ UNCHANGED job
    /\ IF out.rest = << >> THEN out' = StopWalk(out.l, out.time)
       ELSE LET p == End(out.l) IN
            out' = Walked(RankRootMoves(p, Last(out.l.r50), FALSE, FALSE, out.time = 0, AsGenerated(p)),
                          Play(out.l, Head(out.rest)), Big(out.time - 1, 0))
Shown == [out EXCEPT !.step = "shown", !.v = IF IsDraw(out.l, 0) THEN 0 ELSE @]
Extended(c) ==
    IF ~c.inTB \/ c.probing THEN Shown
    ELSE [out EXCEPT !.l = Play(@, c.moves[1].move), !.time = @ - 1]
Extend ==
    /\ "l" \in DOMAIN out /\ out.step = "extend" /\ UNCHANGED job
    /\ LET p == End(out.l) IN
       IF (job.rule50 /\ IsDraw(out.l, 0)) \/ out.time = 0 \/ At(p).moves = << >> THEN out' = Shown
       ELSE out' = Extended(RankRootMoves(p, Last(out.l.r50), FALSE, TRUE, out.time = 1, ByMobility(p)))
RECURSIVE Playable(_, _, _)
Playable(g, p, pv) ==
    pv # << >> => Head(pv) \in DOMAIN g[p].moves /\ Playable(g, g[p].moves[Head(pv)].to, Tail(pv))
ProbeInit ==
    /\ out = Nothing
    /\ \E e \in DOMAIN Endings : \E truth \in {Truth(Endings[e])} : \E result \in {Wdl(truth)} :
       \E distance \in {Distance(Endings[e], result)} : \E t \in TableSets, r \in Roots :
        /\ r.at \in DOMAIN Endings[e] /\ Endings[e][r.at].moves # << >> /\ Playable(Endings[e], r.at, r.pv)
        /\ job = [ending |-> e, truth |-> truth, result |-> result, distance |-> distance, junk |-> t.junk, plies |-> t.plies, side |-> t.side, symmetric |-> t.symmetric,
                  wdl |-> DOMAIN Endings[e] \ t.noWdl, dtz |-> DOMAIN Endings[e] \ t.noDtz,
                  at |-> r.at, cnt50 |-> r.cnt50, rep |-> r.rep, rule50 |-> r.rule50,
                  rankDTZ |-> r.rankDTZ, time |-> r.time, pv |-> r.pv, seen |-> << >>]
ProbeNext == Probe \/ Rank \/ Show \/ Walk \/ Extend

-------------------------------------------------------------------------------
(* Every probe that succeeds tells the truth; the distance may be one ply  *)
(* too short when it is stored in moves, as it always is beyond 50 moves.  *)
ProbesTell ==
    \A p \in DOMAIN job.seen :
        LET w == job.seen[p].wdl
            d == job.seen[p].dtz
            result == job.result[p] IN
        /\ w.st # "fail" => w.v = result
        /\ d.st # "fail" =>
               Sign(result) * d.v \in {job.distance[p], job.distance[p] - One(~job.plies \/ Abs(result) = 1)}

Held(p, r) == job.truth[p][IF job.rule50 THEN Small(r, Fifty) ELSE Ever]
Keeps(m) == -Held(At(job.at).moves[m].to, After(At(job.at).moves[m], job.cnt50))
(* A move that is ranked as a certain win wins within the 50 moves, and    *)
(* with distances in plies the first move keeps the result of the root.    *)
RanksKeep ==
    "moves" \in DOMAIN out /\ out.inTB =>
        /\ out.exact => \A i \in DOMAIN out.moves :
               out.moves[i].rank > MAX_DTZ \div 2 => Keeps(out.moves[i].move) = 1
        /\ out.exact /\ job.plies /\ ~job.rep => Keeps(out.moves[1].move) = Held(job.at, job.cnt50)
        /\ \A i \in 1..Len(out.moves) - 1 : out.moves[i].rank >= out.moves[i + 1].rank

(* The extended line is a game from the root: it keeps what could be       *)
(* verified of the line of the search, and ends in a draw exactly when the *)
(* score has become one.                                                   *)
PvExtended ==
    "l" \in DOMAIN out /\ out.step = "shown" =>
        /\ SubSeq(out.l.pv, 1, out.kept) = SubSeq(job.pv, 1, out.kept)
        /\ (out.v = 0) = IsDraw(out.l, 0)
        /\ job.time > 9 /\ job.plies /\ out.v # 0 =>
               At(End(out.l)).moves = << >> \/ \E p \in DOMAIN Game : p \notin job.dtz \cap job.wdl
TablesSound == ProbesTell /\ RanksKeep /\ PvExtended
================================================================================
