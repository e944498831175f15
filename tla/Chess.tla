-------------------------------- MODULE Chess --------------------------------
(***************************************************************************)
(* What a Position promises: the rules of chess, stated without bitboards, *)
(* keys, pins or increments.  A game is a sequence of situations, the last *)
(* of which is on the board; a player may play a legal move, a search may  *)
(* also pass (a null move) and take back.                                  *)
(*                                                                         *)
(* A situation holds the pieces (a function on the occupied squares), the  *)
(* side to move, the castling rights that are left and the en passant      *)
(* square, which counts only if a pawn may legally capture there: two      *)
(* situations are the same position under the rules of repetition exactly  *)
(* if they are equal.  homes says from where each right castles.           *)
(***************************************************************************)
EXTENDS Squares, SequencesExt

VARIABLES games, homes

(***************************************************************************)
(* The piece on s hits t.                                                  *)
(***************************************************************************)
Sign(n) == IF n < 0 THEN -1 ELSE IF n > 0 THEN 1 ELSE 0
Files(s, t) == file_of(t) - file_of(s)
Ranks(s, t) == rank_of(t) - rank_of(s)
Straight(s, t) == Files(s, t) = 0 \/ Ranks(s, t) = 0
Diagonal(s, t) == Abs(Files(s, t)) = Abs(Ranks(s, t))
Distance(s, t) ==
    IF Abs(Files(s, t)) < Abs(Ranks(s, t)) THEN Abs(Ranks(s, t)) ELSE Abs(Files(s, t))
Clear(board, s, t) ==
    \A i \in 1..(Distance(s, t) - 1) :
        s + i * (Sign(Files(s, t)) + 8 * Sign(Ranks(s, t))) \notin DOMAIN board

Hits(board, s, t) ==
    LET pt == type_of(board[s]) IN
    /\ s # t
    /\ \/ /\ pt = PAWN
          /\ Abs(Files(s, t)) = 1
          /\ Ranks(s, t) = IF color_of(board[s]) = WHITE THEN 1 ELSE -1
       \/ pt = KNIGHT /\ {Abs(Files(s, t)), Abs(Ranks(s, t))} = {1, 2}
       \/ pt = KING /\ Distance(s, t) = 1
       \/ pt \in {ROOK, QUEEN} /\ Straight(s, t) /\ Clear(board, s, t)
       \/ pt \in {BISHOP, QUEEN} /\ Diagonal(s, t) /\ Clear(board, s, t)

Of(board, c) == {s \in DOMAIN board : color_of(board[s]) = c}
Attackers(board, t, c) == {s \in Of(board, c) : Hits(board, s, t)}
KingOf(board, c) == CHOOSE s \in DOMAIN board : board[s] = make_piece(c, KING)
InCheck(board, c) == Attackers(board, KingOf(board, c), Them(c)) # {}

(***************************************************************************)
(* The moves of the side to move, its own king's safety apart.  Castling   *)
(* is written as the king taking its own rook, as in the code.             *)
(***************************************************************************)
Step(from, to) == [from |-> from, to |-> to, type |-> "normal", promo |-> 0]
PawnMoves(from, to) ==
    IF rank_of(to) \in {0, 7}
    THEN {[Step(from, to) EXCEPT !.type = "promotion", !.promo = pt] : pt \in KNIGHT..QUEEN}
    ELSE {Step(from, to)}

Pushes(g, s) ==
    LET up == pawn_push(g.turn) IN
    {t \in {s + up, s + 2 * up} :
        /\ s + up \notin DOMAIN g.board
        /\ t = s + 2 * up => relative_rank(g.turn, s) = 1 /\ t \notin DOMAIN g.board}

MovesFrom(g, s) ==
    LET foes == {t \in Of(g.board, Them(g.turn)) : Hits(g.board, s, t)} IN
    IF type_of(g.board[s]) = PAWN
    THEN (UNION {PawnMoves(s, t) : t \in Pushes(g, s) \cup foes})
         \cup {[Step(s, t) EXCEPT !.type = "enpassant"] :
                   t \in {t \in {g.ep} \ {SQ_NONE} : Hits(g.board, s, t)}}
    ELSE {Step(s, t) : t \in {t \in Square \ Of(g.board, g.turn) : Hits(g.board, s, t)}}

Span(s, t) == IF s < t THEN s..t ELSE t..s
MayCastle(g, cr) ==
    LET king == homes[cr].king  rook == homes[cr].rook IN
    /\ (Span(king, KingTarget(cr)) \cup Span(rook, RookTarget(cr))) \cap DOMAIN g.board
           \subseteq {king, rook}
    /\ \A s \in Span(king, KingTarget(cr)) : Attackers(g.board, s, Them(g.turn)) = {}
Castlings(g) ==
    {[Step(homes[cr].king, homes[cr].rook) EXCEPT !.type = "castling"] :
         cr \in {cr \in g.rights \cap CastlingOf(g.turn) : MayCastle(g, cr)}}

Moves(g) == (UNION {MovesFrom(g, s) : s \in Of(g.board, g.turn)}) \cup Castlings(g)

(***************************************************************************)
(* The pieces after a move, and the situation after it.                    *)
(***************************************************************************)
Without(board, gone) == [s \in DOMAIN board \ gone |-> board[s]]
Put(board, s, pc) == [t \in DOMAIN board \cup {s} |-> IF t = s THEN pc ELSE board[t]]
Castled(g, m) ==
    LET cr == CHOOSE r \in g.rights : homes[r] = [king |-> m.from, rook |-> m.to] IN
    Put(Put(Without(g.board, {m.from, m.to}), KingTarget(cr), make_piece(g.turn, KING)),
        RookTarget(cr), make_piece(g.turn, ROOK))
Played(g, m) ==
    LET arrived == IF m.type = "promotion" THEN make_piece(g.turn, m.promo)
                                           ELSE g.board[m.from] IN
    CASE m.type = "castling" -> Castled(g, m)
      [] m.type = "enpassant" ->
            Put(Without(g.board, {m.from, m.to - pawn_push(g.turn)}), m.to, arrived)
      [] m.type \in {"normal", "promotion"} -> Put(Without(g.board, {m.from}), m.to, arrived)

Safe(g, m) == ~InCheck(Played(g, m), g.turn)
LegalMoves(g) == {m \in Moves(g) : Safe(g, m)}

(* The square behind a pawn that has just moved two squares. *)
Passed(g, m) ==
    IF type_of(g.board[m.from]) = PAWN /\ Abs(Ranks(m.from, m.to)) = 2
    THEN (m.from + m.to) \div 2 ELSE SQ_NONE

Takeable(h) ==
    \E s \in Attackers(h.board, h.ep, h.turn) :
        /\ type_of(h.board[s]) = PAWN
        /\ Safe(h, [Step(s, h.ep) EXCEPT !.type = "enpassant"])

Settled(h) == IF h.ep # SQ_NONE /\ ~Takeable(h) THEN [h EXCEPT !.ep = SQ_NONE] ELSE h
After(g, m) ==
    Settled([board |-> Played(g, m), turn |-> Them(g.turn), ep |-> Passed(g, m),
             rights |-> {cr \in g.rights :
                            {m.from, m.to} \cap {homes[cr].king, homes[cr].rook} = {}}])

(***************************************************************************)
(* The game.                                                               *)
(***************************************************************************)
Now == Last(games)

Init ==
    /\ Len(games) = 1
    /\ ~InCheck(Now.board, Them(Now.turn))
    /\ Now.rights \subseteq DOMAIN homes
    /\ \A cr \in Now.rights :
          LET c == CastlingColor(cr) IN
          /\ homes[cr].king \in DOMAIN Now.board
          /\ homes[cr].rook \in DOMAIN Now.board
          /\ Now.board[homes[cr].king] = make_piece(c, KING)
          /\ Now.board[homes[cr].rook] = make_piece(c, ROOK)

Play ==
    \E m \in Moves(Now) : games' = Append(games, After(Now, m)) /\ Safe(Now, m)
Pass ==
    /\ ~InCheck(Now.board, Now.turn)
    /\ games' = Append(games, [Now EXCEPT !.turn = Them(@), !.ep = SQ_NONE])
TakeBack ==
    /\ Len(games) > 1
    /\ games' = Front(games)

Next == (Play \/ Pass \/ TakeBack) /\ UNCHANGED homes
Spec == Init /\ [][Next]_<<games, homes>>
================================================================================
