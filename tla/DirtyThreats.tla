----------------------------- MODULE DirtyThreats -----------------------------
(***************************************************************************)
(* What a move changes for the networks: do_move hands them the pieces and *)
(* the threats that come and go (DirtyPiece and DirtyThreats), and they    *)
(* update their sums instead of computing them anew.                       *)
(*                                                                         *)
(* A threat is a piece, its square, the piece it attacks and the square of *)
(* that one.  Indices of features and weights are left out: they are       *)
(* functions of a threat.                                                  *)
(***************************************************************************)
EXTENDS Position

PieceAttacks(pc, s, occupied) ==
    IF type_of(pc) = PAWN THEN PawnAttacks[color_of(pc)][s]
                          ELSE attacks_bb(type_of(pc), s, occupied)

(***************************************************************************)
(* All the threats of a board, computed from scratch.                      *)
(***************************************************************************)
ActiveTargets(pt) == CASE pt = PAWN -> {KNIGHT, ROOK}
                       [] pt \in {KNIGHT, QUEEN} -> PAWN..QUEEN
                       [] pt \in {BISHOP, ROOK} -> PAWN..ROOK
append_active_indices(b) ==
    UNION {{<<b[s], s, b[t], t>> :
               t \in PieceAttacks(b[s], s, pieces(b)) \cap OfTypes(b, ActiveTargets(type_of(b[s])))} :
           s \in OfTypes(b, PAWN..QUEEN)}

(***************************************************************************)
(* The threats that come (put) or go with a piece pc on s: its own, those  *)
(* against it, and, the other way round, those of the sliders it blocks,   *)
(* unless the slider's ray contains all of noRaysContaining.               *)
(***************************************************************************)
Threatened(pt) == CASE pt = PAWN -> {KNIGHT, ROOK}
                    [] pt \in {BISHOP, ROOK} -> {PAWN, KNIGHT, BISHOP, ROOK}
                    [] OTHER -> PAWN..QUEEN
(* Mutant: the two pieces change places. *)
can_slider_threat_swapped(pc, slider) == type_of(slider) # QUEEN \/ type_of(pc) = QUEEN
can_slider_threat(pc, slider) == type_of(pc) # QUEEN \/ type_of(slider) = QUEEN

SlidersOnto(b, s) ==
    (sliding_attack(ROOK, s, pieces(b)) \cap OfTypes(b, {ROOK, QUEEN}))
    \cup (sliding_attack(BISHOP, s, pieces(b)) \cap OfTypes(b, {BISHOP, QUEEN}))
Incoming(b, pc, s) ==
    {x \in SlidersOnto(b, s) : can_slider_threat(pc, b[x])}
    \cup (PseudoAttacks[KNIGHT][s] \cap OfTypes(b, {KNIGHT}))
    \cup (IF type_of(pc) \in {KNIGHT, ROOK}
          THEN (PawnAttacks[WHITE][s] \cap Exactly(b, BLACK, {PAWN}))
               \cup (PawnAttacks[BLACK][s] \cap Exactly(b, WHITE, {PAWN}))
          ELSE {})
Discovered(b, s, x, noRaysContaining) ==
    LET ray == RayPassBB[x][s] IN
    IF noRaysContaining \subseteq ray THEN {}
    ELSE {t \in ray \cap sliding_attack(QUEEN, s, pieces(b)) \cap OfTypes(b, PAWN..QUEEN) :
             can_slider_threat(b[t], b[x])}

DirtyThreat(add, pc, s, threatened, t) == [add |-> add, threat |-> <<pc, s, threatened, t>>]
update_piece_threats(b, pc, putPiece, s, noRaysContaining, computeRay) ==
    (IF computeRay
     THEN UNION {{DirtyThreat(~putPiece, b[x], x, b[t], t) : t \in Discovered(b, s, x, noRaysContaining)} :
                    x \in SlidersOnto(b, s)}
     ELSE {})
    \cup (IF type_of(pc) = KING THEN {}
          ELSE {DirtyThreat(putPiece, pc, s, b[t], t) :
                   t \in PieceAttacks(pc, s, pieces(b)) \cap OfTypes(b, Threatened(type_of(pc)))}
               \cup {DirtyThreat(putPiece, b[x], x, pc, s) : x \in Incoming(b, pc, s)})

(***************************************************************************)
(* The board the threats are computed on is the one before a piece leaves  *)
(* and after it arrives; in a swap the square is empty in between.         *)
(***************************************************************************)
OpThreats(b, op) ==
    LET after == Apply(b, op)  fromTo == {op.s, op.t} IN
    CASE op.kind = "remove" -> <<update_piece_threats(b, b[op.s], FALSE, op.s, Square, TRUE)>>
      [] op.kind = "put" -> <<update_piece_threats(after, op.pc, TRUE, op.s, Square, TRUE)>>
      [] op.kind = "swap" ->
            <<update_piece_threats(Without(b, op.s), b[op.s], FALSE, op.s, Square, FALSE),
              update_piece_threats(after, op.pc, TRUE, op.s, Square, FALSE)>>
      [] op.kind = "move" ->
            <<update_piece_threats(b, b[op.s], FALSE, op.s, fromTo, TRUE),
              update_piece_threats(after, b[op.s], TRUE, op.t, fromTo, TRUE)>>

(* The list of a move, one set for each call. *)
DirtyThreatList(p, m) ==
    LET ops == Operations(p, m)
        board(i) == Carry(p.board, SubSeq(ops, 1, i - 1)) IN
    FlattenSeq([i \in DOMAIN ops |-> OpThreats(board(i), ops[i])])

(***************************************************************************)
(* The pieces that come and go, as the networks read DirtyPiece.           *)
(***************************************************************************)
DirtyPiece(p, m) ==
    LET us == p.sideToMove  pc == p.board[m.from]  rook == make_piece(us, ROOK)
        captured == Captured(p, m) IN
    [pc |-> pc, from |-> m.from,
     to |-> IF m.type = "promotion" THEN SQ_NONE ELSE Arrival(us, m),
     remove_sq |-> CASE m.type = "castling" -> m.to
                     [] m.type # "castling" /\ captured = NO_PIECE -> SQ_NONE
                     [] OTHER -> CaptureSquare(us, m),
     remove_pc |-> IF m.type = "castling" THEN rook ELSE captured,
     add_sq |-> CASE m.type = "castling" -> RookTarget(CastlingRight(us, m))
                  [] m.type = "promotion" -> m.to
                  [] OTHER -> SQ_NONE,
     add_pc |-> CASE m.type = "castling" -> rook
                  [] m.type = "promotion" -> make_piece(us, m.promo)
                  [] OTHER -> NO_PIECE]
PiecesRemoved(dp) ==
    <<{<<dp.pc, dp.from>>}, IF dp.remove_sq = SQ_NONE THEN {} ELSE {<<dp.remove_pc, dp.remove_sq>>}>>
PiecesAdded(dp) ==
    <<IF dp.to = SQ_NONE THEN {} ELSE {<<dp.pc, dp.to>>},
      IF dp.add_sq = SQ_NONE THEN {} ELSE {<<dp.add_pc, dp.add_sq>>}>>
================================================================================
