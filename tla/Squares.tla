------------------------------- MODULE Squares -------------------------------
(***************************************************************************)
(* The geometry of the board: squares, pieces and what a piece attacks     *)
(* (types.h, bitboard.h, attacks.h, attacks.cpp).                          *)
(*                                                                         *)
(* Squares, colors, piece types and pieces are the numbers they are in the *)
(* code.  A Bitboard is the set of the squares whose bit is set, so that   *)
(* |, & and ~ are union, intersection and complement.  The three           *)
(* implementations of sliding attacks (magics, hyperbola quintessence, the *)
(* vector one) are tables of sliding_attack, which is what is modelled.    *)
(***************************************************************************)
EXTENDS Integers, Sequences, FiniteSets

Square == 0..63
SQ_NONE == 64

WHITE == 0
BLACK == 1
Color == {WHITE, BLACK}
Them(c) == 1 - c                  \* operator~(Color)

PAWN == 1
KNIGHT == 2
BISHOP == 3
ROOK == 4
QUEEN == 5
KING == 6
PieceType == PAWN..KING

NO_PIECE == 0
make_piece(c, pt) == 8 * c + pt
type_of(pc) == pc % 8
color_of(pc) == pc \div 8
Piece == {make_piece(c, pt) : c \in Color, pt \in PieceType}

(***************************************************************************)
(* A castling right is a bit; a set of rights is a set of bits.            *)
(***************************************************************************)
KING_SIDE == {1, 4}                \* WHITE_OO, BLACK_OO
QUEEN_SIDE == {2, 8}               \* WHITE_OOO, BLACK_OOO
ANY_CASTLING == KING_SIDE \cup QUEEN_SIDE
CastlingOf(c) == IF c = WHITE THEN {1, 2} ELSE {4, 8}
CastlingColor(cr) == IF cr \in {1, 2} THEN WHITE ELSE BLACK

file_of(s) == s % 8
rank_of(s) == s \div 8
make_square(f, r) == 8 * r + f
relative_rank(c, s) == IF c = WHITE THEN rank_of(s) ELSE 7 - rank_of(s)
relative_square(c, s) == make_square(file_of(s), relative_rank(c, s))
KingTarget(cr) == relative_square(CastlingColor(cr), IF cr \in KING_SIDE THEN 6 ELSE 2)
RookTarget(cr) == relative_square(CastlingColor(cr), IF cr \in KING_SIDE THEN 5 ELSE 3)
pawn_push(c) == IF c = WHITE THEN 8 ELSE -8

RookDirections == {8, -8, 1, -1}
BishopDirections == {9, -7, -9, 7}
KnightSteps == {-17, -15, -10, -6, 6, 10, 15, 17}
KingSteps == RookDirections \cup BishopDirections
PawnSteps(c) == IF c = WHITE THEN {7, 9} ELSE {-7, -9}

Abs(n) == IF n < 0 THEN -n ELSE n

(***************************************************************************)
(* The square one step away, as a set that is empty at the edge.           *)
(***************************************************************************)
safe_destination(s, step) ==
    {t \in {s + step} \cap Square : Abs(file_of(s) - file_of(t)) <= 2}

(***************************************************************************)
(* How many steps can be taken from s in direction d: 1 to those that the  *)
(* edge allows.                                                            *)
(***************************************************************************)
Reach == [d \in KingSteps |-> [s \in Square |->
    {i \in 1..7 : \A j \in 0..(i - 1) : safe_destination(s + j * d, d) # {}}]]

(***************************************************************************)
(* A slider sees every square of a ray up to the first occupied one, that  *)
(* one included.                                                           *)
(***************************************************************************)
Seen(d, s, occupied) ==
    {s + i * d : i \in {i \in Reach[d][s] : \A j \in 1..(i - 1) : s + j * d \notin occupied}}
SlideDirections(pt) == CASE pt = ROOK -> RookDirections
                         [] pt = BISHOP -> BishopDirections
                         [] OTHER -> KingSteps
sliding_attack(pt, s, occupied) ==
    UNION {Seen(d, s, occupied) : d \in SlideDirections(pt)}

(***************************************************************************)
(* Attacks on an empty board, and with occupied squares.  A pawn attacks   *)
(* by its color and a queen as a bishop and a rook.                        *)
(***************************************************************************)
StepAttacks(steps, s) == UNION {safe_destination(s, step) : step \in steps}
PawnAttacks == [c \in Color |-> [s \in Square |-> StepAttacks(PawnSteps(c), s)]]
PseudoAttacks ==
    [pt \in {KNIGHT, BISHOP, ROOK, QUEEN, KING} |->
        [s \in Square |-> CASE pt = KNIGHT -> StepAttacks(KnightSteps, s)
                            [] pt = KING -> StepAttacks(KingSteps, s)
                            [] OTHER -> sliding_attack(pt, s, {})]]
attacks_bb(pt, s, occupied) ==
    IF pt \in {KNIGHT, KING} THEN PseudoAttacks[pt][s] ELSE sliding_attack(pt, s, occupied)

(***************************************************************************)
(* LineBB, BetweenBB and RayPassBB as init fills them.  The squares of a   *)
(* line run to both edges; those between s1 and s2 leave s1 out and keep   *)
(* s2, aligned or not; a ray passes from s1 through s2, which it keeps.    *)
(***************************************************************************)
AlignedAs(s1, s2) == {pt \in {BISHOP, ROOK} : s2 \in PseudoAttacks[pt][s1]}
LineBB == [s1 \in Square |-> [s2 \in Square |->
    UNION {(PseudoAttacks[pt][s1] \cap PseudoAttacks[pt][s2]) \cup {s1, s2} :
               pt \in AlignedAs(s1, s2)}]]
BetweenBB == [s1 \in Square |-> [s2 \in Square |->
    {s2} \cup UNION {sliding_attack(pt, s1, {s2}) \cap sliding_attack(pt, s2, {s1}) :
                         pt \in AlignedAs(s1, s2)}]]
RayPassBB == [s1 \in Square |-> [s2 \in Square |->
    UNION {PseudoAttacks[pt][s1] \cap (sliding_attack(pt, s2, {s1}) \cup {s2}) :
               pt \in AlignedAs(s1, s2)}]]

more_than_one(b) == Cardinality(b) > 1
Lsb(b) == CHOOSE s \in b : \A t \in b : s <= t
================================================================================
