--------------------------- MODULE AccumulatorStack ---------------------------
(***************************************************************************)
(* The accumulators of the network's first layer (nnue_accumulator.cpp).   *)
(* Per perspective an accumulator is the sum of the weights of the active  *)
(* features.  A worker keeps one per move of the line it searches and      *)
(* brings the last one up to date only when it evaluates: from an earlier  *)
(* one of the line, from the cache entry of the king's square, or, after   *)
(* a short king move, from both.  A sum is the number of times each        *)
(* feature is in it; additions of weights commute and wrap, so the SIMD    *)
(* tiles that compute them change nothing.                                 *)
(***************************************************************************)
EXTENDS Integers, Sequences, FiniteSets

CONSTANTS Lines,      \* [root, moves]: boards and the moves a search makes on them
          HybridSize, \* MIN_PC_COUNT_HYBRID, 15
          MaxSize,    \* accumulators of the stack
          MaxSteps    \* bounds a behaviour

VARIABLE worker  \* what a search thread keeps of them

White == 0
Black == 1
Colors == {White, Black}
NoSquare == 64

-------------------------------------------------------------------------------
(* Features.  A board maps occupied squares to pieces; the king's file     *)
(* chooses the mirror image, its square the bucket.                        *)
Turned(c, ksq, s) ==
    LET file == IF ksq % 8 < 4 THEN 7 - (s % 8) ELSE s % 8
        rank == IF c = Black THEN 7 - (s \div 8) ELSE s \div 8
    IN  8 * rank + file
Seen(c, pc) == IF pc.type = "K" THEN "K" ELSE <<pc.color = c, pc.type>>

PieceFeature(net, c, ksq, s, pc) == [net |-> net, at |-> Turned(c, ksq, s), as |-> Seen(c, pc), king |-> Turned(c, ksq, ksq)]
ThreatFeature(net, c, ksq, t) ==
    [net |-> net, at |-> Turned(c, ksq, t.from), as |-> Seen(c, t.pc), on |-> Turned(c, ksq, t.to), threatened |-> Seen(c, t.attacked)]

King(c) == [color |-> c, type |-> "K"]
KingSquare(b, c) == CHOOSE s \in DOMAIN b : b[s] = King(c)
PiecesAt(net, c, ksq, b, squares) == {PieceFeature(net, c, ksq, s, b[s]) : s \in squares}

(* What Position keeps of threats; here a piece threatens the next one on  *)
(* its rank.  append_active_indices reads it off a board, do_move records  *)
(* how it changes.                                                         *)
Threats(b) ==
    {[from |-> x[1], pc |-> b[x[1]], to |-> x[2], attacked |-> b[x[2]]] : x \in
        {x \in (DOMAIN b) \X (DOMAIN b) :
            /\ x[1] # x[2] /\ x[1] \div 8 = x[2] \div 8
            /\ b[x[1]].type # "K" /\ b[x[2]].type # "K"
            /\ \A u \in DOMAIN b : ~(x[1] < u /\ u < x[2]) /\ ~(x[2] < u /\ u < x[1])}}
ThreatsAt(net, c, ksq, ts) == {ThreatFeature(net, c, ksq, t) : t \in ts}

(* append_changed_indices *)
Removed(net, c, ksq, d) ==
    {PieceFeature(net, c, ksq, d.from, d.pc)}
    \cup IF d.removeSq # NoSquare THEN {PieceFeature(net, c, ksq, d.removeSq, d.removePc)} ELSE {}
Added(net, c, ksq, d) ==
    (IF d.to # NoSquare THEN {PieceFeature(net, c, ksq, d.to, d.pc)} ELSE {})
    \cup IF d.addSq # NoSquare THEN {PieceFeature(net, c, ksq, d.addSq, d.addPc)} ELSE {}
RequiresRefresh(d, c) == d.pc = King(c)

-------------------------------------------------------------------------------
(* Sums of weights. *)
Times(acc, f) == IF f \in DOMAIN acc THEN acc[f] ELSE 0
Sparse(acc) == [f \in {g \in DOMAIN acc : acc[g] # 0} |-> acc[f]]
One(b) == IF b THEN 1 ELSE 0
Apply(acc, added, removed) ==
    Sparse([f \in DOMAIN acc \cup added \cup removed |-> Times(acc, f) + One(f \in added) - One(f \in removed)])
Combine(acc, plus, minus) ==
    Sparse([f \in DOMAIN acc \cup DOMAIN plus \cup DOMAIN minus |-> Times(acc, f) + Times(plus, f) - Times(minus, f)])

Biases(net) == [f \in {[net |-> net, bias |-> TRUE]} |-> 1]
SumOfPieces(net, c, ksq, b) == Apply(Biases(net), PiecesAt(net, c, ksq, b, DOMAIN b), {})
FromScratch(net, c, b) ==
    LET ksq == KingSquare(b, c)
    IN  Apply(SumOfPieces(net, c, ksq, b), ThreatsAt(net, c, ksq, Threats(b)), {})

-------------------------------------------------------------------------------
(* The pieces of a stack: what the move before it changed, and the sums.   *)
NoPiece == [color |-> White, type |-> "none"]
NoDirty == [pc |-> NoPiece, from |-> 0, to |-> 0, removeSq |-> 0, removePc |-> NoPiece, addSq |-> 0, addPc |-> NoPiece]
NoBoard == [s \in {} |-> NoPiece]
Blank == [dirty |-> NoDirty, gone |-> {}, new |-> {}, computed |-> {}, acc |-> [c \in Colors |-> << >>]]

Board(st) == st.boards[Len(st.boards)]
Size(st) == Len(st.boards)

(* find_last_usable_accumulator: the last one that is computed, or that a  *)
(* king move made incomparable with those before; index 1 is the first.    *)
LastUsable(st, c) ==
    LET usable == {i \in 2..Size(st) : c \in st.stack[i].computed \/ RequiresRefresh(st.stack[i].dirty, c)}
    IN  IF usable = {} THEN 1 ELSE CHOOSE i \in usable : \A j \in usable : j <= i

SetAcc(st, i, c, acc) == [st EXCEPT !.stack[i].acc[c] = acc, !.stack[i].computed = @ \cup {c}]

(* update_accumulator_incremental, one neighbour to the other; the change  *)
(* belongs to the later of the two.                                        *)
Stepped(st, c, ksq, from, to) ==
    LET d == st.stack[IF from < to THEN to ELSE from]
        plus == Added(st.net, c, ksq, d.dirty) \cup ThreatsAt(st.net, c, ksq, d.new)
        minus == Removed(st.net, c, ksq, d.dirty) \cup ThreatsAt(st.net, c, ksq, d.gone)
        acc == st.stack[from].acc[c]
    IN  SetAcc(st, to, c, IF from < to THEN Apply(acc, plus, minus) ELSE Apply(acc, minus, plus))
Forward(st, c, begin) ==
    LET ksq == KingSquare(Board(st), c)
        upTo[i \in begin .. Size(st)] == IF i = begin THEN st ELSE Stepped(upTo[i - 1], c, ksq, i - 1, i)
    IN  upTo[Size(st)]
Backward(st, c, end) ==
    LET ksq == KingSquare(Board(st), c)
        downTo[i \in end .. Size(st)] == IF i = Size(st) THEN st ELSE Stepped(downTo[i + 1], c, ksq, i + 1, i)
    IN  downTo[end]

(* get_changed_pieces and what the caches make of it. *)
ChangedPieces(old, new) == {s \in DOMAIN old \cup DOMAIN new : ~(s \in DOMAIN old \cap DOMAIN new /\ old[s] = new[s])}
Brought(net, c, ksq, entry, b) ==
    LET changed == ChangedPieces(entry.pieces, b)
    IN  [pieces |-> b,
         acc |-> Apply(entry.acc, PiecesAt(net, c, ksq, b, changed \cap DOMAIN b),
                       PiecesAt(net, c, ksq, entry.pieces, changed \cap DOMAIN entry.pieces))]

Entry(st, ksq, c) ==
    IF <<ksq, c>> \in DOMAIN st.cache THEN st.cache[<<ksq, c>>] ELSE [pieces |-> NoBoard, acc |-> Biases(st.net)]
SetEntry(st, ksq, c, e) ==
    [st EXCEPT !.cache = [k \in DOMAIN @ \cup {<<ksq, c>>} |-> IF k = <<ksq, c>> THEN e ELSE @[k]]]

(* update_accumulator_refresh_cache *)
RefreshCache(st, c) ==
    LET b == Board(st)
        ksq == KingSquare(b, c)
        e == Brought(st.net, c, ksq, Entry(st, ksq, c), b)
    IN  SetAcc(SetEntry(st, ksq, c, e), Size(st), c, Apply(e.acc, ThreatsAt(st.net, c, ksq, Threats(b)), {}))

(* update_accumulator_hybrid: the sum before the king's move, less its     *)
(* pieces seen from the old square, plus the pieces seen from the new one. *)
Hybrid(st, c) ==
    LET d == st.stack[Size(st)]
        b == Board(st)
        old == d.dirty.from
        new == d.dirty.to
        previous ==
            [s \in (DOMAIN b \ (IF d.dirty.removeSq # NoSquare THEN {} ELSE {new})) \cup {old} |->
                IF s = old THEN d.dirty.pc ELSE IF s = new THEN d.dirty.removePc ELSE b[s]]
        oldEntry == Entry(st, old, c)
        changed == ChangedPieces(oldEntry.pieces, previous)
        e == Brought(st.net, c, new, Entry(st, new, c), b)
        kept == Combine(e.acc, st.stack[Size(st) - 1].acc[c], oldEntry.acc)
    IN  SetAcc(SetEntry(st, new, c, e), Size(st), c,
               Apply(Apply(kept, PiecesAt(st.net, c, old, oldEntry.pieces, changed \cap DOMAIN oldEntry.pieces),
                           PiecesAt(st.net, c, old, previous, changed \cap DOMAIN previous)),
                     ThreatsAt(st.net, c, new, d.new), ThreatsAt(st.net, c, new, d.gone)))

(* A mutant: a king move across the board's middle counts as short too. *)
ShortKingMoveAnywhere(st, c) ==
    LET d == st.stack[Size(st)].dirty
    IN  /\ RequiresRefresh(d, c)
        /\ c \in st.stack[Size(st) - 1].computed
        /\ Cardinality(DOMAIN Board(st)) >= HybridSize
        /\ d.addSq = NoSquare

(* evaluate_side *)
ShortKingMove(st, c) ==
    LET d == st.stack[Size(st)].dirty
    IN  /\ RequiresRefresh(d, c)
        /\ c \in st.stack[Size(st) - 1].computed
        /\ Cardinality(DOMAIN Board(st)) >= HybridSize
        /\ (d.from % 8 < 4) = (d.to % 8 < 4)
        /\ d.addSq = NoSquare
EvaluateSide(st, c) ==
    LET last == LastUsable(st, c)
    IN  IF c \in st.stack[last].computed THEN Forward(st, c, last)
        ELSE IF ShortKingMove(st, c) THEN Hybrid(st, c)
        ELSE Backward(RefreshCache(st, c), c, last)

(* evaluate; going forward for both sides at once (forward_update_incremental_both) adds the same   *)
(* features to the same accumulators.                                      *)
Evaluated(st) == EvaluateSide(EvaluateSide(st, White), Black)

-------------------------------------------------------------------------------
(* The moves of a line (Position::do_move fills in what they changed).     *)
Applied(b, d) ==
    LET left == DOMAIN b \ {d.from, d.removeSq}
        put == {d.to, d.addSq} \ {NoSquare}
    IN  [s \in left \cup put |-> IF s = d.to THEN d.pc ELSE IF s = d.addSq THEN d.addPc ELSE b[s]]
Fits(b, d) ==
    /\ d.from \in DOMAIN b /\ b[d.from] = d.pc
    /\ d.removeSq # NoSquare => d.removeSq \in DOMAIN b /\ b[d.removeSq] = d.removePc
    /\ ({d.to, d.addSq} \ {NoSquare}) \cap (DOMAIN b \ {d.from, d.removeSq}) = {}

(* What a line is made of: boards with one king a side, and moves as       *)
(* Position::do_move reports them.  Nobody takes a king or promotes to     *)
(* one; a king moves from one square to another and takes what stands      *)
(* there, unless it castles.                                               *)
Squares == 0 .. 63
BoardSound(b) ==
    /\ b = [s \in DOMAIN b |-> b[s]] /\ DOMAIN b \subseteq Squares
    /\ \A c \in Colors : \E s \in DOMAIN b : \A t \in DOMAIN b : b[t] = King(c) <=> t = s
MoveSound(d) ==
    /\ d.from \in Squares /\ {d.to, d.removeSq, d.addSq} \subseteq Squares \cup {NoSquare}
    /\ d.from # d.removeSq /\ (d.to = d.addSq => d.to = NoSquare)
    /\ \A c \in Colors :
        /\ d.removeSq # NoSquare => d.removePc # King(c)
        /\ d.addSq # NoSquare => d.addPc # King(c)
        /\ d.pc = King(c) =>
            /\ d.to # NoSquare
            /\ d.addSq = NoSquare => d.to # d.from /\ d.removeSq \in {NoSquare, d.to}
Parameters ==
    /\ MaxSize \in Nat \ {0}
    /\ \A l \in Lines : BoardSound(l.root) /\ \A d \in l.moves : MoveSound(d)
ASSUME LinesAssumption == Parameters

AccInit ==
    worker \in {[line |-> l, boards |-> << >>, stack |-> [i \in 1..MaxSize |-> Blank], cache |-> << >>,
                 net |-> 0, searching |-> FALSE, evaluated |-> FALSE, steps |-> 0] : l \in Lines}

Goes(st, evaluated) == worker' = [st EXCEPT !.steps = worker.steps + 1, !.evaluated = evaluated]

(* start_searching of a worker: reset(). *)
StartSearching ==
    /\ ~worker.searching
    /\ Goes([worker EXCEPT !.searching = TRUE, !.boards = <<worker.line.root>>,
                           !.stack[1] = [Blank EXCEPT !.acc = worker.stack[1].acc]], FALSE)
StopSearching == worker.searching /\ Size(worker) = 1 /\ Goes([worker EXCEPT !.searching = FALSE], FALSE)

(* Worker::clear: on ucinewgame, and when another network has been loaded. *)
Clear(net) == ~worker.searching /\ Goes([worker EXCEPT !.net = net, !.cache = << >>], FALSE)

(* Worker::do_move: push(), and the position records what it changes.      *)
Push(d) ==
    LET b == Board(worker)
        next == Applied(b, d)
    IN  /\ worker.searching /\ Size(worker) < MaxSize
        /\ d.pc.color = Size(worker) % 2 /\ Fits(b, d)
        /\ Goes([worker EXCEPT !.boards = Append(@, next),
                               !.stack[Size(worker) + 1] =
                                   [@ EXCEPT !.dirty = d, !.computed = {},
                                             !.new = Threats(next) \ Threats(b), !.gone = Threats(b) \ Threats(next)]],
                FALSE)
Pop == worker.searching /\ Size(worker) > 1 /\ Goes([worker EXCEPT !.boards = SubSeq(@, 1, Size(worker) - 1)], FALSE)
Evaluate == worker.searching /\ ~worker.evaluated /\ Goes(Evaluated(worker), TRUE)

AccNext ==
    /\ worker.steps < MaxSteps
    /\ \/ StartSearching
       \/ StopSearching
       \/ \E net \in {worker.net, 1} : Clear(net)
       \/ \E d \in worker.line.moves : Push(d)
       \/ Pop
       \/ Evaluate
AccSpec == AccInit /\ [][AccNext]_worker

-------------------------------------------------------------------------------
(* Whatever mixture of neighbours, caches and both an accumulator came     *)
(* from, it is the sum over the features of its own position; every cache  *)
(* entry is the sum over the pieces it remembers; and evaluate leaves both *)
(* perspectives of the last one up to date.                                *)
AccumulatorsExact ==
    /\ worker.searching =>
        \A i \in 1..Size(worker) : \A c \in worker.stack[i].computed :
            worker.stack[i].acc[c] = FromScratch(worker.net, c, worker.boards[i])
    /\ \A k \in DOMAIN worker.cache :
        worker.cache[k].acc = SumOfPieces(worker.net, k[2], k[1], worker.cache[k].pieces)
    /\ worker.evaluated => worker.stack[Size(worker)].computed = Colors
===============================================================================
