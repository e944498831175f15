--------------------------- MODULE MCSearchControl ---------------------------
(***************************************************************************)
(* The go commands of the SearchControl runs.                              *)
(***************************************************************************)
EXTENDS SearchControl

(* A go on a position with legal moves and no book. *)
Plain == [NoGo EXCEPT !.legal = TRUE]

Infinite   == [Plain EXCEPT !.infinite = TRUE]
Clock      == [Plain EXCEPT !.timed = TRUE]
ClockPonder == [Clock EXCEPT !.ponder = TRUE]
MoveTime   == [Plain EXCEPT !.capped = TRUE]
Depth1     == [Plain EXCEPT !.depth = 1]
Mate       == [Plain EXCEPT !.mate = TRUE]
NoMoves    == [Clock EXCEPT !.legal = FALSE]
FromBook   == [Clock EXCEPT !.book = TRUE]
BookInfinite == [Infinite EXCEPT !.book = TRUE]
MctsInfinite == [Infinite EXCEPT !.mcts = TRUE]
MctsTime     == [MoveTime EXCEPT !.mcts = TRUE]

AllGoes     == {Infinite, ClockPonder, MoveTime, Depth1, Mate, NoMoves,
                FromBook, MctsInfinite}
PoolGoes    == {Infinite, Clock, NoMoves, FromBook, MctsInfinite, MctsTime}
BookGoes    == {BookInfinite}
ClockGoes   == {Clock}
MctsGoes    == {MctsTime}
=============================================================================
