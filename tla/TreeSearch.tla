------------------------------ MODULE TreeSearch ------------------------------
(***************************************************************************)
(* Worker::search and Worker::qsearch: the alpha-beta search of a game     *)
(* tree with its prunings, one frame per call.  The calls of a node share  *)
(* the position, which every move and null move of the search changes and  *)
(* has to restore, and the hash table, whose entries come from other paths *)
(* to the same position.  The game is a finite graph; a threshold on an    *)
(* evaluation, a history or a depth that only decides how good a pruning   *)
(* is likely to be is left open, every other guard is the code's.  Scores  *)
(* keep their order, with a small MAX_PLY and VALUE_MATE.                  *)
(***************************************************************************)
EXTENDS Integers, Sequences, FiniteSets, SequencesExt

CONSTANTS
    Games,          \* a sequence of games: position -> [moves, check, eval, pass, pieces, wdl]
    Setups,         \* the searches to look at: [game, prunings, calls]
    MaxPly,         \* MAX_PLY
    Mate,           \* VALUE_MATE
    Fifty,          \* the plies without progress that draw, 100 in the code
    Margin          \* of ProbCut, of the small ProbCut and of a singular move

VARIABLES
    game,           \* the game that is searched
    prunings,       \* the heuristics that may apply
    calls,          \* the calls of iterative_deepening that are left: [alpha, beta, depth]
    frames,         \* the calls in progress, the innermost last
    line,           \* the position: what was played since the root
    table,          \* position -> what the hash table keeps of it
    ret,            \* what the last call has returned, NoReturn once taken
    rootMoves,      \* move of the root -> [score, pv]
    stop,           \* threads.stop
    aborted,        \* a call has been cut short by stop
    nmpMinPly

vars == <<game, prunings, calls, frames, line, table, ret, rootMoves, stop, aborted, nmpMinPly>>

Infinite == Mate + 1
None == Mate + 2
TB == Mate - MaxPly - 1
IsWin(v) == v # None /\ v >= TB - MaxPly
IsLoss(v) == v <= MaxPly - TB
IsDecisive(v) == IsWin(v) \/ IsLoss(v)
IsMate(v) == v # None /\ v >= Mate - MaxPly
IsMated(v) == v <= MaxPly - Mate
MateIn(ply) == Mate - ply
MatedIn(ply) == ply - Mate
Big(a, b) == IF a > b THEN a ELSE b
Small(a, b) == IF a < b THEN a ELSE b
(* C++ division rounds towards zero.                                       *)
Quot(a, b) == IF a >= 0 THEN a \div b ELSE -((-a) \div b)
(* value_draw alternates with the node count.                              *)
DrawScores == {-1, 1}

ToTT(v, ply) == IF IsWin(v) THEN v + ply ELSE IF IsLoss(v) THEN v - ply ELSE v
FromTT(v, ply, r50) ==
    CASE v = None -> None
      [] IsWin(v) ->
            IF (IsMate(v) /\ Mate - v > Fifty - r50) \/ TB - v > Fifty - r50
            THEN TB - MaxPly - 1 ELSE v - ply
      [] IsLoss(v) ->
            IF (IsMated(v) /\ Mate + v > Fifty - r50) \/ TB + v > Fifty - r50
            THEN MaxPly + 1 - TB ELSE v + ply
      [] OTHER -> v

-------------------------------------------------------------------------------
(* The position: the last of line; line[1] is the root.                    *)
NullMove == 100
At == Last(line)
Pos == Games[game][At.pos]
Ply == Len(line) - 1
InCheck == Pos.check
DoMove(m) ==
    LET mv == Pos.moves[m] IN
    line' = Append(line, [pos |-> mv.to, r50 |-> IF mv.cap THEN 0 ELSE At.r50 + 1, move |-> m])
DoNullMove == line' = Append(line, [pos |-> Pos.pass, r50 |-> At.r50 + 1, move |-> NullMove])
UndoMove == line' = Front(line)

(* Only moves that can be taken back lie between line[i] and the position. *)
Reversible(i) == \A j \in i + 1..Len(line) : line[j].r50 > 0 /\ line[j].move # NullMove
IsRepetition == \E i \in 2..Len(line) - 1 : line[i].pos = At.pos /\ Reversible(i)
IsDraw == (At.r50 >= Fifty /\ (~InCheck \/ Pos.moves # << >>)) \/ IsRepetition
UpcomingRepetition ==
    \E i \in 2..Len(line) - 3, m \in DOMAIN Pos.moves :
        Reversible(i) /\ ~Pos.moves[m].cap /\ Pos.moves[m].to = line[i].pos

-------------------------------------------------------------------------------
(* Calls.  A frame keeps the arguments, the window it was called with and  *)
(* the locals; childPv is what (ss + 1)->pv points to, the local pv of the *)
(* frame or nothing; red is (ss - 1)->reduction.  The calls that look at a *)
(* node again share its Stack entry, and so its ttPv.                      *)
f == Last(frames)
PvNode == f.type \in {"root", "pv", "qpv"}
Quiescent == f.type \in {"qpv", "qnon"}
NoPv == <<0>>
NoEntry == [value |-> None, bound |-> "none", depth |-> -3, move |-> 0, pv |-> FALSE]
NoReturn == [v |-> None]

Frame(type, alpha, beta, depth, cut, ply, ex) ==
    [type |-> IF depth > 0 THEN type ELSE IF type = "pv" THEN "qpv" ELSE "qnon",
     pc |-> "enter", ply |-> ply, a0 |-> alpha, b0 |-> beta, alpha |-> alpha, beta |-> beta,
     depth |-> Small(depth, MaxPly - 1), cut |-> cut, ex |-> ex, best |-> -Infinite, max |-> Infinite,
     bestMove |-> 0, mc |-> 0, todo |-> << >>, mv |-> 0, tte |-> NoEntry, eval |-> None,
     val |-> None, nd |-> 0, d |-> 0, red |-> 0, ttPv |-> FALSE, childPv |-> NoPv]
Again(alpha, beta, depth, cut, ex) ==
    [Frame("non", alpha, beta, depth, cut, f.ply, ex) EXCEPT !.ttPv = f.ttPv]

Become(g) == frames' = Append(Front(frames), g)
CallFrom(g, child) == frames' = Front(frames) \o <<g, child>> /\ ret' = NoReturn
Goto(g) == Become(g) /\ ret' = NoReturn
ReturnFrom(g, v) ==
    /\ frames' = Front(frames)
    /\ ret' = [v |-> v, frame |-> g]
Return(v) == ReturnFrom(f, v)
Returned(pc) == frames # << >> /\ f.pc = pc /\ ret # NoReturn
Running(pc) == frames # << >> /\ f.pc = pc /\ ret = NoReturn
Same == UNCHANGED <<game, prunings, calls>>
Still == Same /\ UNCHANGED <<rootMoves, stop, nmpMinPly>>
Save(e) == table' = [table EXCEPT ![At.pos] = e]
Entry(v, bound, depth, move, pv) ==
    [value |-> ToTT(v, Ply), bound |-> bound, depth |-> depth, move |-> move, pv |-> pv]

Lower(b) == b \in {"lower", "exact"}
Upper(b) == b \in {"upper", "exact"}
(* What an entry's score says of beta lets it end the node, or stand for   *)
(* the evaluation.                                                         *)
Tells(e, beta) == e.value # None /\ (IF e.value >= beta THEN Lower(e.bound) ELSE Upper(e.bound))
Better(e, eval) == e.value # None /\ (IF e.value > eval THEN Lower(e.bound) ELSE Upper(e.bound))
Read(e) == [e EXCEPT !.value = FromTT(e.value, Ply, At.r50)]
Hit(e) == e.depth > NoEntry.depth

(* The moves as the picker offers them: the table's first.                 *)
Picked(first, wanted(_)) ==
    LET all == [i \in DOMAIN Pos.moves |-> i] IN
    SelectSeq(IF first = 0 THEN all ELSE <<first>> \o SelectSeq(all, LAMBDA m : m # first), wanted)
IsCapture(m) == Pos.moves[m].cap
GivesCheck(m) == Games[game][Pos.moves[m].to].check

-------------------------------------------------------------------------------
(* Steps 1 to 3.                                                           *)
Enter ==
    /\ Running("enter") /\ ~Quiescent
    /\ \E draw \in DrawScores :
        LET root == f.type = "root"
            near == ~root /\ f.alpha < 0 /\ UpcomingRepetition
            a == IF near THEN draw ELSE f.alpha
            a3 == IF root THEN a ELSE Big(MatedIn(Ply), a)
            b3 == IF root THEN f.beta ELSE Small(MateIn(Ply + 1), f.beta)
            over == near /\ a >= f.beta
            leaf == ~root /\ (stop \/ IsDraw \/ Ply >= MaxPly)
        IN
        \/ over /\ Return(a) /\ UNCHANGED aborted
        \/ /\ ~over /\ leaf
           /\ Return(IF Ply >= MaxPly /\ ~InCheck THEN Pos.eval ELSE draw)
           /\ aborted' = (aborted \/ stop)
        \/ ~over /\ ~leaf /\ a3 >= b3 /\ Return(a3) /\ UNCHANGED aborted
        \/ ~over /\ ~leaf /\ a3 < b3 /\ UNCHANGED aborted
           /\ Goto([f EXCEPT !.pc = "probe", !.alpha = a3, !.beta = b3])
    /\ Still /\ UNCHANGED <<line, table>>

TbApplies == "tb" \in prunings /\ f.type # "root" /\ f.ex = 0 /\ At.r50 = 0 /\ Pos.wdl # None
Onward(g) == [g EXCEPT !.pc = IF InCheck THEN "loop" ELSE "prune"]

(* A reduced move that looks better, or worse, than it did before is       *)
(* searched a ply deeper, or less deep.                                    *)
Hindsight(depth, red) ==
    LET deeper == {depth} \cup (IF red >= 3 THEN {depth + 1} ELSE {})
    IN deeper \cup (IF red >= 2 THEN {d - 1 : d \in deeper \ {1}} ELSE {})

(* Steps 4 and 5.  A cutoff by the table is first compared with what the   *)
(* table says after the move, and not trusted close to the 50 move draw.   *)
Probe ==
    /\ Running("probe")
    /\ \E depth \in Hindsight(f.depth, f.red) :
       LET e == [Read(table[At.pos]) EXCEPT !.move = IF f.type = "root" THEN rootMoves[1].pv[1] ELSE @]
           eval == IF ~InCheck /\ f.ex = 0 /\ Better(e, Pos.eval) THEN e.value ELSE Pos.eval
           next == table[Pos.moves[e.move].to].value
           cutoff ==
               /\ ~PvNode /\ f.ex = 0 /\ Tells(e, f.beta)
               /\ e.depth > depth - (IF e.value <= f.beta THEN 1 ELSE 0)
               /\ f.cut = (e.value >= f.beta) \/ depth > 1
               /\ At.r50 < Fifty - 1
               /\ depth >= 2 /\ e.move # 0 /\ ~IsDecisive(e.value) =>
                      next = None \/ (e.value >= f.beta) = (-next >= f.beta)
           g == [f EXCEPT !.tte = e, !.eval = eval, !.depth = depth, !.red = 0,
                          !.ttPv = IF f.ex # 0 THEN @ ELSE PvNode \/ (Hit(e) /\ e.pv)]
       IN
       /\ IF ~InCheck /\ f.ex = 0 /\ ~Hit(e) THEN Save(Entry(None, "none", -2, 0, g.ttPv)) ELSE UNCHANGED table
       /\ IF cutoff THEN ReturnFrom(g, e.value)
          ELSE IF TbApplies THEN Goto([g EXCEPT !.pc = "tb"]) ELSE Goto(Onward(g))
    /\ Still /\ UNCHANGED <<line, aborted>>

(* Step 6.                                                                 *)
TablebaseProbe ==
    /\ Running("tb")
    /\ LET w == Pos.wdl
           v == IF w < -1 THEN Ply - TB ELSE IF w > 1 THEN TB - Ply ELSE 2 * w
           b == IF w < -1 THEN "upper" ELSE IF w > 1 THEN "lower" ELSE "exact"
       IN IF b = "exact" \/ (IF b = "lower" THEN v >= f.beta ELSE v <= f.alpha)
          THEN Save(Entry(v, b, Small(MaxPly - 1, f.depth + 6), 0, f.ttPv)) /\ Return(v)
          ELSE /\ UNCHANGED table
               /\ Goto(Onward(IF ~PvNode THEN f
                              ELSE IF b = "lower"
                                   THEN [f EXCEPT !.best = v, !.alpha = Big(@, v)]
                                   ELSE [f EXCEPT !.max = v]))
    /\ Still /\ UNCHANGED <<line, aborted>>

-------------------------------------------------------------------------------
(* Steps 7 to 10: a node that is not in check may be left early.           *)
Razor ==
    /\ Running("prune") /\ "razor" \in prunings /\ ~PvNode /\ f.eval < f.alpha
    /\ Goto([f EXCEPT !.type = "qnon", !.pc = "enter"])
    /\ Still /\ UNCHANGED <<line, table, aborted>>

Futility ==
    /\ Running("prune") /\ "futility" \in prunings
    /\ ~f.ttPv /\ f.eval >= f.beta /\ ~IsLoss(f.beta) /\ ~IsWin(f.eval)
    /\ f.tte.move # 0 => IsCapture(f.tte.move)
    /\ Return(Quot(661 * f.beta + 363 * f.eval, 1024))
    /\ Still /\ UNCHANGED <<line, table, aborted>>

(* A mutant of NullSearch: the other side may pass in turn.                *)
NullSearchAgain ==
    /\ Running("prune") /\ "null" \in prunings
    /\ f.cut /\ f.ex = 0 /\ Pos.pieces /\ Ply >= nmpMinPly /\ f.beta >= -Margin
    /\ DoNullMove
    /\ CallFrom([f EXCEPT !.pc = "null", !.d = 2], Frame("non", -f.beta, 1 - f.beta, 2, TRUE, Ply + 1, 0))
    /\ Still /\ UNCHANGED <<table, aborted>>
NullSearch ==
    /\ Running("prune") /\ "null" \in prunings
    /\ f.cut /\ f.ex = 0 /\ Pos.pieces /\ Ply >= nmpMinPly /\ f.beta >= -Margin
    /\ DoNullMove
    /\ \E d \in {0, f.depth - 2} :
        CallFrom([f EXCEPT !.pc = "null", !.d = d],
                 Frame("non", -f.beta, 1 - f.beta, d, FALSE, Ply + 1, 0))
    /\ Still /\ UNCHANGED <<table, aborted>>

(* An unproven mate is not returned; at a high depth the node is searched  *)
(* again without null moves above nmpMinPly.                               *)
NullBack ==
    /\ Returned("null") /\ UndoMove
    /\ LET v == -ret.v
           held == v >= f.beta /\ ~IsWin(v)
       IN \/ ~held /\ Goto([f EXCEPT !.pc = "reduce"]) /\ UNCHANGED nmpMinPly
          \/ held /\ Return(v) /\ UNCHANGED nmpMinPly
          \/ /\ held /\ nmpMinPly = 0 /\ "verify" \in prunings
             /\ nmpMinPly' = f.ply + Quot(3 * f.d, 4)
             /\ CallFrom([f EXCEPT !.pc = "verify", !.val = v],
                         Again(f.beta - 1, f.beta, f.d, FALSE, 0))
    /\ Same /\ UNCHANGED <<table, rootMoves, stop, aborted>>

VerifyBack ==
    /\ Returned("verify") /\ nmpMinPly' = 0
    /\ LET g == [f EXCEPT !.ttPv = ret.frame.ttPv] IN
       IF ret.v >= f.beta THEN ReturnFrom(g, f.val) ELSE Goto([g EXCEPT !.pc = "reduce"])
    /\ Same /\ UNCHANGED <<line, table, rootMoves, stop, aborted>>

ProbCutBeta == f.beta + Margin
(* Without a move from the table the node may be searched less deep.       *)
Reduce ==
    /\ \/ Running("reduce")
       \/ Running("prune")
    /\ \E less \in IF "iir" \in prunings /\ (PvNode \/ f.cut) /\ f.depth > 1 /\ f.tte.move = 0
                   THEN {0, 1} ELSE {0} :
        LET try == "probcut" \in prunings /\ ~IsDecisive(f.beta)
                   /\ (f.tte.value # None => f.tte.value >= ProbCutBeta) IN
        Goto([f EXCEPT !.depth = @ - less, !.pc = IF try THEN "probcut" ELSE "loop",
                       !.todo = Picked(f.tte.move, IsCapture)])
    /\ Still /\ UNCHANGED <<line, table, aborted>>

-------------------------------------------------------------------------------
(* Step 11.  A capture is tried above beta, first quiescently; the bound   *)
(* it proves is saved whether or not the search was stopped meanwhile.     *)
ProbCutMove ==
    /\ Running("probcut") /\ f.todo # << >>
    /\ LET m == Head(f.todo)
           g == [f EXCEPT !.todo = Tail(@), !.mv = m] IN
       \/ Goto(g) /\ UNCHANGED line
       \/ /\ m # f.ex /\ DoMove(m)
          /\ CallFrom([g EXCEPT !.pc = "probq"],
                      Frame("non", -ProbCutBeta, 1 - ProbCutBeta, 0, FALSE, Ply + 1, 0))
    /\ Still /\ UNCHANGED <<table, aborted>>

ProbCutEnd(v) ==
    /\ UndoMove
    /\ IF v >= ProbCutBeta
       THEN /\ table' = [table EXCEPT ![line[Len(line) - 1].pos] =
                            [value |-> ToTT(v, f.ply), bound |-> "lower",
                             depth |-> Big(f.depth - 3, 0) + 1, move |-> f.mv, pv |-> f.ttPv]]
            /\ IF IsDecisive(v) THEN Goto([f EXCEPT !.pc = "probcut"])
               ELSE Return(v - (ProbCutBeta - f.beta))
       ELSE Goto([f EXCEPT !.pc = "probcut"]) /\ UNCHANGED table

ProbCutBack ==
    /\ Returned("probq")
    /\ LET v == -ret.v IN
       IF v >= ProbCutBeta /\ f.depth > 3
       THEN /\ CallFrom([f EXCEPT !.pc = "probs"],
                        Frame("non", -ProbCutBeta, 1 - ProbCutBeta, f.depth - 3, ~f.cut, Ply, 0))
            /\ UNCHANGED <<line, table>>
       ELSE ProbCutEnd(v)
    /\ Still /\ UNCHANGED aborted

ProbCutDeepBack == Returned("probs") /\ ProbCutEnd(-ret.v) /\ Still /\ UNCHANGED aborted

ProbCutOver ==
    /\ Running("probcut") /\ f.todo = << >>
    /\ Goto([f EXCEPT !.pc = "loop"])
    /\ Still /\ UNCHANGED <<line, table, aborted>>

(* Step 12, and the picker for step 13.                                    *)
SmallProbCut ==
    /\ Running("loop")
    /\ LET e == f.tte
           above == f.beta + 2 * Margin IN
       IF /\ Lower(e.bound) /\ e.depth >= f.depth - 4 /\ e.value # None /\ e.value >= above
          /\ ~IsDecisive(f.beta) /\ ~IsDecisive(e.value)
       THEN Return(above)
       ELSE Goto([f EXCEPT !.pc = "moves", !.val = f.best, !.todo = Picked(e.move, LAMBDA m : TRUE)])
    /\ Still /\ UNCHANGED <<line, table, aborted>>

-------------------------------------------------------------------------------
(* Steps 13 to 16: the next move is skipped, pruned, examined for being    *)
(* singular, or made.                                                      *)
PvCall(g, ply) ==
    LET keen == g.mv = g.tte.move /\ (g.tte.depth > 1 \/ (IsDecisive(g.tte.value) /\ g.tte.depth > 0)) IN
    CallFrom([g EXCEPT !.pc = "pv", !.childPv = << >>],
             Frame("pv", -g.beta, -g.alpha, IF keen THEN Big(g.nd, 1) ELSE g.nd, FALSE, ply, 0))
Scout(g, depth, cut, ply) == Frame("non", -(g.alpha + 1), -g.alpha, depth, cut, ply, 0)
One(b) == IF b THEN 1 ELSE 0
Make(g, nd) ==
    /\ DoMove(g.mv)
    /\ IF g.depth >= 2 /\ g.mc > 1
       THEN \E r \in IF "lmr" \in prunings THEN -2..Big(0, nd - 1) ELSE {0} :
                LET d == Big(1, nd - r) + One(PvNode) IN
                CallFrom([g EXCEPT !.pc = "lmr", !.nd = nd, !.d = d],
                         [Scout(g, d, TRUE, g.ply + 1) EXCEPT !.red = nd - d])
       ELSE IF ~PvNode \/ g.mc > 1
            THEN \E less \in IF "lmr" \in prunings THEN 0..IF nd > 2 THEN 2 ELSE 1 ELSE {0} :
                     CallFrom([g EXCEPT !.pc = "full", !.nd = nd], Scout(g, nd - less, ~g.cut, g.ply + 1))
            ELSE PvCall([g EXCEPT !.nd = nd], g.ply + 1)

Next13 == [f EXCEPT !.todo = Tail(@), !.mv = Head(f.todo), !.mc = @ + 1,
                    !.childPv = IF PvNode THEN NoPv ELSE @]
OnMove == Running("moves") /\ f.todo # << >> /\ Head(f.todo) # f.ex

SkipExcluded ==
    /\ Running("moves") /\ f.todo # << >> /\ Head(f.todo) = f.ex
    /\ Goto([f EXCEPT !.todo = Tail(@)])
    /\ Still /\ UNCHANGED <<line, table, aborted>>

(* A mutant of PruneMove: also while every move so far loses.              *)
PruneLosing ==
    /\ OnMove /\ "shallow" \in prunings /\ f.type # "root" /\ Pos.pieces /\ f.mc > 0
    /\ Goto(Next13)
    /\ Still /\ UNCHANGED <<line, table, aborted>>

(* Step 14.  Futility may raise the best score to the evaluation.          *)
PruneMove ==
    /\ OnMove /\ "shallow" \in prunings
    /\ f.type # "root" /\ Pos.pieces /\ ~IsLoss(f.best)
    /\ LET quiet == ~IsCapture(Head(f.todo)) /\ ~GivesCheck(Head(f.todo))
           raise == quiet /\ ~InCheck /\ f.best <= Pos.eval /\ Pos.eval <= f.alpha
                    /\ ~IsDecisive(f.best) /\ ~IsWin(Pos.eval)
       IN Goto([Next13 EXCEPT !.best = IF raise THEN Pos.eval ELSE @])
    /\ Still /\ UNCHANGED <<line, table, aborted>>

SingularBeta == f.tte.value - Margin
MayBeSingular(m) ==
    /\ "singular" \in prunings /\ f.type # "root" /\ f.ex = 0 /\ f.depth >= 3 + One(f.ttPv)
    /\ m = f.tte.move /\ f.tte.value # None /\ ~IsDecisive(f.tte.value)
    /\ Lower(f.tte.bound) /\ f.tte.depth >= f.depth - 3

SingularSearch ==
    /\ OnMove /\ MayBeSingular(Head(f.todo))
    /\ CallFrom([Next13 EXCEPT !.pc = "singular"],
                Again(SingularBeta - 1, SingularBeta, Quot(f.depth - 1, 2), f.cut, Head(f.todo)))
    /\ Still /\ UNCHANGED <<line, table, aborted>>

SingularBack ==
    /\ Returned("singular")
    /\ LET v == ret.v
           g == [f EXCEPT !.ttPv = ret.frame.ttPv] IN
       \/ v < SingularBeta /\ \E more \in 0..2 : Make([g EXCEPT !.depth = @ + 1], f.depth + more)
       \/ v >= SingularBeta /\ v >= f.beta /\ ~IsDecisive(v) /\ ReturnFrom(g, v) /\ UNCHANGED line
       \/ /\ v >= SingularBeta /\ (v < f.beta \/ IsDecisive(v))
          /\ Make(g, f.depth - 1 - 3 * One(f.tte.value >= f.beta \/ f.cut))
    /\ Still /\ UNCHANGED <<table, aborted>>

MakeMove ==
    /\ OnMove /\ ~MayBeSingular(Head(f.todo))
    /\ Make(Next13, f.depth - 1)
    /\ Still /\ UNCHANGED <<table, aborted>>

(* Steps 19 and 20.  What was found after a stop cannot be trusted.        *)
Ranked(rms) ==
    LET rank(i) == Cardinality({j \in DOMAIN rms :
                       rms[j].score > rms[i].score \/ (rms[j].score = rms[i].score /\ j <= i)})
    IN [k \in DOMAIN rms |-> rms[CHOOSE i \in DOMAIN rms : rank(i) = k]]
RootUpdate(v) ==
    rootMoves' = [i \in DOMAIN rootMoves |->
        IF rootMoves[i].pv[1] # f.mv THEN rootMoves[i]
        ELSE IF f.mc = 1 \/ v > f.alpha
             THEN [score |-> v, pv |-> <<f.mv>> \o f.childPv,
                   bound |-> IF v >= f.beta THEN "lower" ELSE IF v <= f.alpha THEN "upper" ELSE "exact"]
             ELSE [rootMoves[i] EXCEPT !.score = -Infinite]]

(* PVMoves::update: the move, then what the child has left.                *)
PvUpdate(g, move) ==
    LET pv == <<move>> \o (IF g.childPv = NoPv THEN << >> ELSE g.childPv)
        n == Len(frames) IN
    frames' = [frames EXCEPT ![n] = g, ![n - 1].childPv = pv]

(* A mutant of Update: the root takes a score that a stop has spoilt.      *)
UpdateAfterStop(v) ==
    /\ UndoMove /\ aborted' = (aborted \/ stop) /\ ret' = NoReturn
    /\ IF f.type = "root" THEN RootUpdate(v) ELSE UNCHANGED rootMoves
    /\ Become([f EXCEPT !.pc = "moves", !.best = Big(@, v)])
    /\ Same /\ UNCHANGED <<table, stop, nmpMinPly>>
Update(v) ==
    /\ UndoMove
    /\ \/ stop /\ aborted' = TRUE /\ Return(0) /\ UNCHANGED rootMoves
       \/ /\ ~stop /\ UNCHANGED aborted
          /\ IF f.type = "root" THEN RootUpdate(v) ELSE UNCHANGED rootMoves
          /\ \E inc \in IF v = f.best /\ ~IsWin(Big(v, -v) + 1) THEN {0, 1} ELSE {0} :
                LET raises == v + inc > f.best /\ v + inc > f.alpha
                    g == IF ~raises
                         THEN [f EXCEPT !.pc = "moves", !.best = Big(@, v), !.val = v]
                         ELSE [f EXCEPT !.pc = "moves", !.best = v, !.val = v, !.bestMove = f.mv,
                                        !.alpha = IF v >= f.beta THEN @ ELSE v,
                                        !.todo = IF v >= f.beta THEN << >> ELSE @,
                                        !.depth = IF v < f.beta /\ @ > 3 /\ ~IsDecisive(v) THEN @ - 3 ELSE @]
                IN /\ ret' = NoReturn
                   /\ IF raises /\ f.type = "pv" THEN PvUpdate(g, f.mv) ELSE Become(g)
    /\ Same /\ UNCHANGED <<table, stop, nmpMinPly>>

(* Steps 17 and 18: a null window first, and the window itself on a PV     *)
(* node's first move and whenever the null window fails high.              *)
AfterScout(g, v) ==
    IF PvNode /\ (f.mc = 1 \/ v > f.alpha)
    THEN PvCall(g, Ply) /\ Still /\ UNCHANGED <<line, table, aborted>>
    ELSE Update(v)

LmrBack ==
    /\ Returned("lmr")
    /\ LET v == -ret.v
           nd == f.nd + One(f.d < f.nd /\ v > f.best + Margin) - One(v < f.best + Margin)
       IN IF v > f.alpha /\ nd > f.d
          THEN /\ CallFrom([f EXCEPT !.pc = "full", !.nd = nd], Scout(f, nd, ~f.cut, Ply))
               /\ Still /\ UNCHANGED <<line, table, aborted>>
          ELSE AfterScout([f EXCEPT !.nd = IF v > f.alpha THEN nd ELSE @], v)

FullBack == Returned("full") /\ AfterScout(f, -ret.v)
PvBack == Returned("pv") /\ Update(-ret.v)

(* Step 21 and what is left in the table.                                  *)
Finish ==
    /\ Running("moves") /\ f.todo = << >>
    /\ LET b == f.best
           soft == IF b >= f.beta /\ ~IsDecisive(b) /\ ~IsDecisive(f.alpha)
                   THEN Quot(b * f.depth + f.beta, f.depth + 1) ELSE b
           v == IF f.mc > 0 THEN soft
                ELSE IF f.ex # 0 THEN f.alpha ELSE IF InCheck THEN MatedIn(Ply) ELSE 0
           out == IF PvNode THEN Small(v, f.max) ELSE v
           before == SelectSeq(frames, LAMBDA g : g.ply = f.ply - 1)
           ttPv == f.ttPv \/ (out <= f.alpha /\ before # << >> /\ Last(before).ttPv)
       IN /\ ReturnFrom([f EXCEPT !.ttPv = ttPv], out)
          /\ IF f.ex # 0 THEN UNCHANGED table
             ELSE Save(Entry(out, IF out >= f.beta THEN "lower"
                                  ELSE IF PvNode /\ f.bestMove # 0 THEN "exact" ELSE "upper",
                             IF f.mc > 0 THEN f.depth ELSE Small(MaxPly - 1, f.depth + 6), f.bestMove, ttPv))
    /\ Still /\ UNCHANGED <<line, aborted>>

-------------------------------------------------------------------------------
(* qsearch: captures, or every evasion in check, until the position is     *)
(* quiet.  It does not look at stop.                                       *)
ClearPv(g) ==
    LET n == Len(frames) IN
    IF PvNode THEN frames' = [frames EXCEPT ![n] = g, ![n - 1].childPv = << >>] ELSE Become(g)
ReturnClear(v) ==
    /\ frames' = IF PvNode THEN [Front(frames) EXCEPT ![Len(frames) - 1].childPv = << >>] ELSE Front(frames)
    /\ ret' = [v |-> v, frame |-> f]

QEnter ==
    /\ Running("enter") /\ Quiescent
    /\ \E draw \in DrawScores :
        LET near == f.alpha < 0 /\ UpcomingRepetition
            a == IF near THEN draw ELSE f.alpha
            e == Read(table[At.pos])
            cutoff == ~PvNode /\ e.depth >= 0 /\ Tells(e, f.beta)
            g == [f EXCEPT !.alpha = a, !.tte = e, !.pc = "stand"]
        IN
        \/ near /\ a >= f.beta /\ Return(a)
        \/ /\ near => a < f.beta
           /\ IsDraw \/ Ply >= MaxPly
           /\ ReturnClear(IF Ply >= MaxPly /\ ~InCheck THEN Pos.eval ELSE 0)
        \/ /\ near => a < f.beta
           /\ ~IsDraw /\ Ply < MaxPly
           /\ IF cutoff THEN ReturnClear(e.value) ELSE ClearPv(g) /\ ret' = NoReturn
    /\ Still /\ UNCHANGED <<line, table, aborted>>

(* Step 4: the side to move may stand pat when it is not in check.         *)
StandPat ==
    /\ Running("stand")
    /\ LET e == f.tte
           stand == IF ~IsDecisive(e.value) /\ Better(e, Pos.eval) THEN e.value ELSE Pos.eval
       IN IF InCheck
          THEN Goto([f EXCEPT !.pc = "qmoves", !.todo = Picked(e.move, LAMBDA m : TRUE)]) /\ UNCHANGED table
          ELSE IF stand >= f.beta
          THEN /\ Return(IF IsDecisive(stand) THEN stand ELSE Quot(441 * stand + 583 * f.beta, 1024))
               /\ IF Hit(e) THEN UNCHANGED table ELSE Save(Entry(None, "lower", -2, 0, FALSE))
          ELSE /\ Goto([f EXCEPT !.pc = "qmoves", !.best = stand, !.alpha = Big(@, stand),
                                 !.todo = Picked(e.move, IsCapture)])
               /\ UNCHANGED table
    /\ Still /\ UNCHANGED <<line, aborted>>

QNext == [f EXCEPT !.todo = Tail(@), !.mv = Head(f.todo), !.mc = @ + 1]

(* Step 6: with a score that does not lose, other evasions are not         *)
(* searched, nor captures that cannot reach alpha.                         *)
QPrune ==
    /\ Running("qmoves") /\ f.todo # << >> /\ ~IsLoss(f.best)
    /\ ~IsCapture(Head(f.todo)) \/ "futility" \in prunings
    /\ LET low == IsCapture(Head(f.todo)) /\ ~GivesCheck(Head(f.todo)) /\ ~InCheck
       IN Goto([QNext EXCEPT !.best = IF low THEN Big(@, Small(f.alpha, Pos.eval + Margin)) ELSE @])
    /\ Still /\ UNCHANGED <<line, table, aborted>>

QMove ==
    /\ Running("qmoves") /\ f.todo # << >>
    /\ IsLoss(f.best) \/ IsCapture(Head(f.todo))
    /\ DoMove(Head(f.todo))
    /\ CallFrom([QNext EXCEPT !.pc = "qback"],
                Frame(IF PvNode THEN "pv" ELSE "non", -f.beta, -f.alpha, 0, FALSE, f.ply + 1, 0))
    /\ Still /\ UNCHANGED <<table, aborted>>

QBack ==
    /\ Returned("qback") /\ UndoMove /\ ret' = NoReturn
    /\ LET v == -ret.v
           raises == v > f.best /\ v > f.alpha
           g == IF ~raises THEN [f EXCEPT !.pc = "qmoves", !.best = Big(@, v)]
                ELSE [f EXCEPT !.pc = "qmoves", !.best = v, !.bestMove = f.mv,
                               !.alpha = IF v < f.beta THEN v ELSE @,
                               !.todo = IF v < f.beta THEN @ ELSE << >>]
       IN IF raises /\ PvNode THEN PvUpdate(g, f.mv) ELSE Become(g)
    /\ Still /\ UNCHANGED <<table, aborted>>

QFinish ==
    /\ Running("qmoves") /\ f.todo = << >>
    /\ IF f.mc = 0 /\ InCheck THEN Return(MatedIn(Ply)) /\ UNCHANGED table
       ELSE \E stale \in {FALSE, f.mc = 0 /\ ~Pos.pieces /\ Pos.moves = << >>} :
            LET b == IF stale THEN 0 ELSE f.best
                v == IF ~IsDecisive(b) /\ b > f.beta THEN Quot(462 * b + 562 * f.beta, 1024) ELSE b
            IN /\ Return(v)
               /\ Save(Entry(v, IF v >= f.beta THEN "lower" ELSE "upper", 0, f.bestMove, Hit(f.tte) /\ f.tte.pv))
    /\ Still /\ UNCHANGED <<line, aborted>>

-------------------------------------------------------------------------------
(* The calls of iterative_deepening, on a table that stays, and a stop     *)
(* from outside at any time.                                               *)
RootCall ==
    /\ frames = << >> /\ calls # << >> /\ ~stop
    /\ calls' = Tail(calls) /\ ret' = NoReturn
    /\ frames' = <<Frame("root", Head(calls).alpha, Head(calls).beta, Head(calls).depth, FALSE, 0, 0)>>
    /\ rootMoves' = Ranked(rootMoves)
    /\ UNCHANGED <<game, prunings, line, table, stop, aborted, nmpMinPly>>
(* A best move without an answer gets the table's move as one.             *)
ExtractPonder ==
    /\ frames = << >> /\ (calls = << >> \/ stop)
    /\ LET rms == Ranked(rootMoves)
           next == Games[game][1].moves[rms[1].pv[1]].to
           m == table[next].move
       IN /\ Len(rms[1].pv) = 1 /\ Hit(table[next]) /\ m \in DOMAIN Games[game][next].moves
          /\ rootMoves' = [rms EXCEPT ![1].pv = Append(@, m)]
    /\ UNCHANGED <<game, prunings, calls, frames, line, table, ret, stop, aborted, nmpMinPly>>
Stop ==
    /\ "stop" \in prunings /\ frames # << >> /\ ~stop
    /\ stop' = TRUE
    /\ UNCHANGED <<game, prunings, calls, frames, line, table, ret, rootMoves, aborted, nmpMinPly>>

Init ==
    /\ \E s \in Setups : game = s.game /\ prunings = s.prunings /\ calls = s.calls
    /\ frames = << >> /\ ret = NoReturn
    /\ line = <<[pos |-> 1, r50 |-> 0, move |-> 0]>>
    /\ table = [p \in DOMAIN Games[game] |-> NoEntry]
    /\ rootMoves = [m \in DOMAIN Games[game][1].moves |-> [score |-> -Infinite, pv |-> <<m>>, bound |-> "exact"]]
    /\ stop = FALSE /\ aborted = FALSE /\ nmpMinPly = 0
Next ==
    \/ Enter \/ Probe \/ TablebaseProbe \/ Razor \/ Futility \/ NullSearch \/ NullBack \/ VerifyBack \/ Reduce
    \/ ProbCutMove \/ ProbCutBack \/ ProbCutDeepBack \/ ProbCutOver \/ SmallProbCut
    \/ SkipExcluded \/ PruneMove \/ SingularSearch \/ SingularBack \/ MakeMove
    \/ LmrBack \/ FullBack \/ PvBack \/ Finish
    \/ QEnter \/ StandPat \/ QPrune \/ QMove \/ QBack \/ QFinish \/ RootCall \/ ExtractPonder \/ Stop
Spec == Init /\ [][Next]_vars

-------------------------------------------------------------------------------
(* What the game allows: [n][p][r] tells whether the side to move at p,    *)
(* with r plies of the 50 moves used, can mate within n plies or cannot    *)
(* avoid being mated within n plies.                                       *)
Horizon == 2 * MaxPly + Fifty
Outcome(g, p, r, reached(_, _)) ==
    LET moves == g[p].moves
        after(m) == reached(moves[m].to, IF moves[m].cap THEN 0 ELSE r + 1)
    IN IF moves = << >> THEN (IF g[p].check THEN "lost" ELSE "open")
       ELSE IF r >= Fifty THEN "open"
       ELSE IF \E m \in DOMAIN moves : after(m) = "lost" THEN "won"
       ELSE IF \A m \in DOMAIN moves : after(m) = "won" THEN "lost" ELSE "open"
Oracle ==
    [i \in DOMAIN Games |->
        LET reach[n \in 0..Horizon] ==
            [p \in DOMAIN Games[i] |-> [r \in 0..Fifty |->
                Outcome(Games[i], p, r, LAMBDA q, s : IF n = 0 THEN "open" ELSE reach[n - 1][q][s])]]
        IN reach]
Within(n) == IF n < 0 THEN -1 ELSE Small(n, Horizon)
Wins(n, p, r) == n >= 0 /\ Oracle[game][Within(n)][p][r] = "won"
Loses(n, p, r) == n >= 0 /\ Oracle[game][Within(n)][p][r] = "lost"

-------------------------------------------------------------------------------
(* The assertions of search and qsearch: a window is never empty, and a    *)
(* null window outside the principal variation; the position is back at    *)
(* the node whenever the node goes on; no null move follows a null move.   *)
Windows ==
    \A i \in DOMAIN frames :
        LET g == frames[i] IN
        /\ -Infinite <= g.alpha /\ g.alpha < g.beta /\ g.beta <= Infinite
        /\ g.type \in {"non", "qnon"} => g.alpha = g.beta - 1 \/ g.todo = << >>
        /\ g.ply <= MaxPly
        /\ g.pc \in {"enter", "probe"} => g.depth < MaxPly
Balanced ==
    frames # << >> =>
        Ply = f.ply + One(ret # NoReturn /\ f.pc \in {"null", "probq", "probs", "lmr", "full", "pv", "qback"})
Nulls == \A i \in 1..Len(line) - 1 : line[i].move = NullMove => line[i + 1].move # NullMove
SearchAsserts == Windows /\ Balanced /\ Nulls

(* A decisive score is a proof, whatever was pruned on the way: a win that *)
(* is returned as a lower bound is forced within the plies it tells, a     *)
(* loss as an upper bound likewise, and so is what the table gives back at *)
(* any count of the 50 moves.                                              *)
WinHolds(v, ply, p, r) == IF IsMate(v) THEN Wins(Mate - v - ply, p, r) ELSE Wins(Horizon, p, 0)
LossHolds(v, ply, p, r) == IF IsMated(v) THEN Loses(Mate + v - ply, p, r) ELSE Loses(Horizon, p, 0)
ReturnSound ==
    ret # NoReturn =>
        LET g == ret.frame
            p == line[g.ply + 1] IN
        /\ IsWin(ret.v) /\ ret.v > g.a0 => WinHolds(ret.v, g.ply, p.pos, p.r50)
        /\ IsLoss(ret.v) /\ ret.v < g.b0 /\ g.ex = 0 => LossHolds(ret.v, g.ply, p.pos, p.r50)
TableSound ==
    \A p \in DOMAIN table, r \in 0..Fifty :
        LET e == table[p]
            v == FromTT(e.value, 0, r) IN
        /\ Lower(e.bound) /\ IsWin(v) => WinHolds(v, 0, p, r)
        /\ Upper(e.bound) /\ IsLoss(v) => LossHolds(v, 0, p, r)
DecisiveSound == ReturnSound /\ TableSound

(* The principal variation of every root move can be played.               *)
PvLegal ==
    \A i \in DOMAIN rootMoves :
        LET pv == rootMoves[i].pv
            at[k \in 0..Len(pv)] == IF k = 0 THEN 1
                ELSE IF at[k - 1] # 0 /\ pv[k] \in DOMAIN Games[game][at[k - 1]].moves
                     THEN Games[game][at[k - 1]].moves[pv[k]].to ELSE 0
        IN at[Len(pv)] # 0

(* Once a call has been cut short by stop, no root move changes.           *)
NothingAfterStop == [][aborted => UNCHANGED rootMoves \/ frames = << >>]_vars
================================================================================
