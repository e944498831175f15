------------------------------ MODULE MCGameTree ------------------------------
(***************************************************************************)
(* The scenes of the GameTree run: root positions in which the hard cases  *)
(* of the rules are one or two moves away.  A piece is placed by file and  *)
(* rank, both from 1.                                                      *)
(***************************************************************************)
EXTENDS GameTree

Sq(f, r) == 8 * (r - 1) + f - 1
Board(placed) ==
    [s \in {Sq(t[2], t[3]) : t \in placed} |->
        (CHOOSE t \in placed : Sq(t[2], t[3]) = s)[1]]
W(pt, f, r) == <<make_piece(WHITE, pt), f, r>>
B(pt, f, r) == <<make_piece(BLACK, pt), f, r>>

Fen(turn, placed) ==
    [board |-> Board(placed), turn |-> turn, castling |-> {}, ep |-> SQ_NONE,
     rule50 |-> 0, fullmove |-> 1, chess960 |-> FALSE]
Fen960(turn, placed, tokens) ==
    [Fen(turn, placed) EXCEPT !.castling = tokens, !.chess960 = TRUE]
Wide(fen, plies) == [fen |-> fen, plies |-> plies, arena |-> Square, nulls |-> FALSE]
Narrow(fen, plies, arena, nulls) ==
    [fen |-> fen, plies |-> plies, arena |-> arena, nulls |-> nulls]

(* All castlings, some of them through attacked squares. *)
Castling ==
    [Fen(WHITE, {W(KING, 5, 1), W(ROOK, 1, 1), W(ROOK, 8, 1), B(KING, 5, 8), B(ROOK, 1, 8),
                 B(ROOK, 8, 8), B(PAWN, 7, 3), W(PAWN, 2, 6)})
     EXCEPT !.castling = {<<WHITE, "K">>, <<WHITE, "Q">>, <<BLACK, "K">>, <<BLACK, "Q">>}]
(* The castling rook shields its king; king and rook change places; a     *)
(* token names no rook.                                                    *)
Shielded == Fen960(WHITE, {W(KING, 3, 1), W(ROOK, 2, 1), B(QUEEN, 1, 1), B(KING, 8, 8)},
                   {<<WHITE, "file", 1>>})
Swapped == Fen960(WHITE, {W(KING, 6, 1), W(ROOK, 7, 1), W(ROOK, 1, 1), B(KING, 5, 8), B(ROOK, 8, 8)},
                  {<<WHITE, "file", 6>>, <<WHITE, "Q">>, <<BLACK, "K">>, <<BLACK, "Q">>})

(* The pushed pawn may be taken: by nobody, since both pawns shield the   *)
(* king; by one pawn of two; along a pin; not after a discovered check;    *)
(* to end a check; and give one through the pawn taken.                    *)
EpShields == Fen(BLACK, {W(KING, 1, 5), W(PAWN, 2, 5), B(PAWN, 3, 7), B(ROOK, 8, 5), B(KING, 8, 8)})
EpPinned == Fen(BLACK, {W(KING, 4, 1), W(PAWN, 2, 5), W(PAWN, 4, 5), B(PAWN, 3, 7), B(ROOK, 4, 8),
                        B(KING, 8, 8)})
EpAlongPin == Fen(BLACK, {W(KING, 1, 4), W(PAWN, 2, 5), B(PAWN, 3, 7), B(BISHOP, 5, 8), B(KING, 8, 1)})
EpDiscovers == Fen(BLACK, {W(KING, 6, 4), W(PAWN, 2, 5), B(PAWN, 3, 7), B(QUEEN, 2, 8), B(KING, 8, 8)})
EpOnFile == Fen(BLACK, {W(KING, 3, 3), W(PAWN, 4, 5), B(PAWN, 3, 7), B(ROOK, 3, 8), B(KING, 8, 8)})
EpEvades == Fen(BLACK, {W(KING, 4, 4), W(PAWN, 2, 5), B(PAWN, 3, 7), B(KING, 8, 7), B(ROOK, 5, 7)})
EpUncovers == Fen(BLACK, {W(KING, 5, 1), W(PAWN, 2, 5), W(BISHOP, 5, 3), B(PAWN, 3, 7), B(KING, 1, 7)})
(* An en passant square in the FEN, legal or not. *)
EpGiven == [Fen(WHITE, {W(KING, 5, 1), W(PAWN, 5, 5), B(PAWN, 4, 5), B(KING, 5, 8), B(KNIGHT, 2, 8)})
            EXCEPT !.ep = Sq(4, 6)]
EpRefused == [Fen(WHITE, {W(KING, 1, 5), W(PAWN, 3, 5), B(PAWN, 4, 5), B(ROOK, 8, 5), B(KING, 5, 8)})
              EXCEPT !.ep = Sq(4, 6)]

(* Promotions that capture, check and take away a castling right. *)
Promotions ==
    [Fen(WHITE, {W(KING, 5, 1), W(ROOK, 8, 1), W(PAWN, 2, 7), B(KNIGHT, 1, 8), B(ROOK, 3, 8),
                 B(KING, 7, 8), B(PAWN, 7, 2)}) EXCEPT !.castling = {<<WHITE, "K">>}]
(* Checks discovered and double, and their evasions. *)
DoubleCheck == Fen(WHITE, {W(KING, 8, 1), W(ROOK, 5, 1), W(KNIGHT, 5, 4), W(BISHOP, 2, 5),
                          B(KING, 5, 8), B(QUEEN, 4, 8), B(KNIGHT, 3, 6), B(PAWN, 6, 7)})
(* Batteries of every kind aim at d5, and a defender of it is pinned.     *)
Battery == Fen(WHITE, {W(KING, 7, 1), W(QUEEN, 4, 1), W(ROOK, 4, 2), W(PAWN, 3, 4), W(BISHOP, 7, 2),
                       W(QUEEN, 8, 1), W(KNIGHT, 6, 4), W(ROOK, 1, 8), B(KING, 7, 8), B(PAWN, 4, 5),
                       B(PAWN, 5, 6), B(BISHOP, 2, 7), B(QUEEN, 1, 6), B(KNIGHT, 6, 8), B(ROOK, 4, 8),
                       B(KNIGHT, 3, 7), B(BISHOP, 7, 7)})

(* Pieces that go back and forth: with null moves; over a castling right  *)
(* or an en passant square that is lost; past a piece in the way.          *)
Knights == Fen(WHITE, {W(KING, 5, 1), W(KNIGHT, 2, 1), B(KING, 5, 8), B(KNIGHT, 2, 8)})
KnightSquares == {Sq(2, 1), Sq(3, 3), Sq(2, 8), Sq(3, 6)}
RookAndRight == [Fen(WHITE, {W(KING, 5, 1), W(ROOK, 8, 1), B(KING, 5, 8), B(KNIGHT, 2, 8)})
                 EXCEPT !.castling = {<<WHITE, "K">>}]
Late(fen, n) == [fen EXCEPT !.rule50 = n]
InTheWay == Fen(BLACK, {W(KING, 8, 1), W(ROOK, 1, 3), B(KNIGHT, 1, 2), B(KING, 8, 8)})

(* A well-known crowded position. *)
Kiwipete ==
    [Fen(WHITE, {W(KING, 5, 1), W(ROOK, 1, 1), W(ROOK, 8, 1), W(PAWN, 1, 2), W(PAWN, 2, 2),
                 W(PAWN, 3, 2), W(BISHOP, 4, 2), W(BISHOP, 5, 2), W(PAWN, 6, 2), W(PAWN, 7, 2),
                 W(PAWN, 8, 2), W(KNIGHT, 3, 3), W(QUEEN, 6, 3), W(PAWN, 5, 4), W(PAWN, 4, 5),
                 W(KNIGHT, 5, 5), B(KING, 5, 8), B(ROOK, 1, 8), B(ROOK, 8, 8), B(PAWN, 1, 7),
                 B(PAWN, 3, 7), B(PAWN, 4, 7), B(QUEEN, 5, 7), B(PAWN, 6, 7), B(BISHOP, 7, 7),
                 B(BISHOP, 1, 6), B(KNIGHT, 2, 6), B(PAWN, 5, 6), B(KNIGHT, 6, 6), B(PAWN, 7, 6),
                 B(PAWN, 2, 4), B(PAWN, 8, 3)})
     EXCEPT !.castling = {<<WHITE, "K">>, <<WHITE, "Q">>, <<BLACK, "K">>, <<BLACK, "Q">>}]

TheScenes ==
    {Wide(Castling, 2), Wide(Shielded, 3), Wide(Swapped, 2), Wide(EpShields, 2), Wide(EpPinned, 2),
     Wide(EpAlongPin, 2), Wide(EpDiscovers, 2), Wide(EpOnFile, 2), Wide(EpEvades, 2), Wide(EpUncovers, 2),
     Wide(EpRefused, 2), Wide(Promotions, 2), Wide(DoubleCheck, 2), Wide(Battery, 1), Wide(Kiwipete, 1),
     Narrow(Late(Knights, 12), 6, KnightSquares, FALSE), Narrow(Knights, 8, KnightSquares, TRUE),
     Narrow(RookAndRight, 8, {Sq(7, 1), Sq(8, 1), Sq(2, 8), Sq(3, 6)}, FALSE),
     Narrow(EpGiven, 8, {Sq(5, 1), Sq(5, 2), Sq(2, 8), Sq(3, 6)}, FALSE),
     Narrow(Late(InTheWay, 18), 6, {Sq(1, 1), Sq(1, 2), Sq(1, 3), Sq(2, 4)}, FALSE)}
================================================================================
