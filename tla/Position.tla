------------------------------- MODULE Position -------------------------------
(***************************************************************************)
(* The position a thread searches: Position and its stack of StateInfo     *)
(* (position.cpp, position.h).  A search makes moves, makes null moves and *)
(* takes them back; keys, checkers and repetition info are maintained      *)
(* incrementally while it does.                                            *)
(*                                                                         *)
(*   - board is the array of pieces, restricted to the occupied squares.   *)
(*     The bitboards and piece counts that repeat it are computed from it. *)
(*   - A Key is the set of the Zobrist numbers whose exclusive or it is,   *)
(*     and ^ is the symmetric difference ++: two keys are equal exactly if *)
(*     their numbers are, collisions aside.                                *)
(*   - castling says from where each right castles: castlingRookSquare,    *)
(*     castlingRightsMask and castlingPath in one.                         *)
(*   - states is the list of StateInfo, st the last of them.               *)
(*                                                                         *)
(* Every operator works on a position p, a record, so that a step can be   *)
(* compared with the steps not taken.                                      *)
(***************************************************************************)
EXTENDS Squares, SequencesExt

(***************************************************************************)
(* Looking at the board.                                                   *)
(***************************************************************************)
pieces(b) == DOMAIN b
piece_on(b, s) == IF s \in DOMAIN b THEN b[s] ELSE NO_PIECE
OfColor(b, c) == {s \in DOMAIN b : color_of(b[s]) = c}
OfTypes(b, pts) == {s \in DOMAIN b : type_of(b[s]) \in pts}
Exactly(b, c, pts) == {s \in DOMAIN b : color_of(b[s]) = c /\ type_of(b[s]) \in pts}
pieceCount(b, pc) == Cardinality({s \in DOMAIN b : b[s] = pc})
square(b, c) == CHOOSE s \in DOMAIN b : b[s] = make_piece(c, KING)


attackers_to(b, s, occupied) ==
    (sliding_attack(ROOK, s, occupied) \cap OfTypes(b, {ROOK, QUEEN}))
    \cup (sliding_attack(BISHOP, s, occupied) \cap OfTypes(b, {BISHOP, QUEEN}))
    \cup (PawnAttacks[BLACK][s] \cap Exactly(b, WHITE, {PAWN}))
    \cup (PawnAttacks[WHITE][s] \cap Exactly(b, BLACK, {PAWN}))
    \cup (PseudoAttacks[KNIGHT][s] \cap OfTypes(b, {KNIGHT}))
    \cup (PseudoAttacks[KING][s] \cap OfTypes(b, {KING}))

attackers_to_exist(b, s, occupied, c) ==
    \/ sliding_attack(ROOK, s, occupied) \cap Exactly(b, c, {ROOK, QUEEN}) # {}
    \/ sliding_attack(BISHOP, s, occupied) \cap Exactly(b, c, {BISHOP, QUEEN}) # {}
    \/ PawnAttacks[Them(c)][s] \cap Exactly(b, c, {PAWN}) # {}
    \/ PseudoAttacks[KNIGHT][s] \cap Exactly(b, c, {KNIGHT}) # {}
    \/ PseudoAttacks[KING][s] \cap Exactly(b, c, {KING}) # {}

(***************************************************************************)
(* Zobrist keys, added modulo 2.  A pawn on its last rank has the number   *)
(* zero.                                                                   *)
(***************************************************************************)
x ++ y == (x \ y) \cup (y \ x)

psq(pc, s) ==
    IF type_of(pc) = PAWN /\ relative_rank(color_of(pc), s) = 7 THEN {} ELSE {<<pc, s>>}
enpassant(f) == {<<16, f>>}
BitOf(crs, cr) == IF cr \in crs THEN cr ELSE 0
castlingKey(crs) ==
    {<<17, BitOf(crs, 1) + BitOf(crs, 2) + BitOf(crs, 4) + BitOf(crs, 8)>>}
side == {<<18, 0>>}
When(b, k) == IF b THEN k ELSE {}
EpKey(ep) == When(ep # SQ_NONE, enpassant(file_of(ep)))
noPawns == {<<19, 0>>}
make_key(n) == {<<20, n>>}

KeyOf(b, squares) == {<<b[s], s>> : s \in squares}
compute_material_key(b) ==
    UNION {{<<pc, 8 + n>> : n \in 0..(pieceCount(b, pc) - 1)} : pc \in Piece}

PieceValue(pc) ==
    CASE type_of(pc) = PAWN -> 208 [] type_of(pc) = KNIGHT -> 781 [] type_of(pc) = BISHOP -> 825
      [] type_of(pc) = ROOK -> 1276 [] type_of(pc) = QUEEN -> 2538 [] OTHER -> 0

(***************************************************************************)
(* Pins and the squares from which a piece would check.                    *)
(***************************************************************************)
Snipers(b, c) ==
    LET ksq == square(b, c) IN
    (PseudoAttacks[ROOK][ksq] \cap Exactly(b, Them(c), {QUEEN, ROOK}))
    \cup (PseudoAttacks[BISHOP][ksq] \cap Exactly(b, Them(c), {QUEEN, BISHOP}))

(* For each sniper the only piece between it and the king, if it is one. *)
Blocked(b, c) ==
    LET snipers == Snipers(b, c) IN
    [s \in snipers |->
        LET between == BetweenBB[square(b, c)][s] \cap (pieces(b) \ snipers) IN
        IF more_than_one(between) THEN {} ELSE between]

blockersForKing(b) == [c \in Color |-> UNION {Blocked(b, c)[s] : s \in Snipers(b, c)}]
pinners(b) ==
    [c \in Color |-> {s \in Snipers(b, Them(c)) : Blocked(b, Them(c))[s] \cap OfColor(b, Them(c)) # {}}]
checkSquares(b, stm) ==
    LET ksq == square(b, Them(stm))
        rook == sliding_attack(ROOK, ksq, pieces(b))
        bishop == sliding_attack(BISHOP, ksq, pieces(b)) IN
    <<PawnAttacks[Them(stm)][ksq], PseudoAttacks[KNIGHT][ksq], bishop, rook, bishop \cup rook, {}>>

(***************************************************************************)
(* Setting up a position.  fen.castling is the set of the castling tokens: *)
(* a color with "K", "Q" or the file of the rook.                          *)
(***************************************************************************)
Corner(c, token) == relative_square(c, IF token = "K" THEN 7 ELSE 0)
Inward(c, token, i) == Corner(c, token) + i * (IF token = "K" THEN -1 ELSE 1)
Found(S) == IF S = {} THEN SQ_NONE ELSE Lsb(S)

(* "K" and "Q": the first rook on the way from the corner to the king. *)
OutermostRook(b, c, token) ==
    LET places(pc, n) == {i \in 0..n : piece_on(b, Inward(c, token, i)) = pc}
        kings == places(make_piece(c, KING), 6) IN
    IF kings = {} \/ places(make_piece(c, ROOK), Min(kings)) = {} THEN SQ_NONE
    ELSE Inward(c, token, Min(places(make_piece(c, ROOK), Min(kings))))
NamedRook(b, c, f) ==
    LET rsq == relative_square(c, f) IN
    IF /\ piece_on(b, rsq) = make_piece(c, ROOK)
       /\ \E g \in 1..6 : piece_on(b, relative_square(c, g)) = make_piece(c, KING)
    THEN rsq ELSE SQ_NONE
RookOf(b, token) ==
    IF token[2] \in {"K", "Q"} THEN OutermostRook(b, token[1], token[2])
                               ELSE NamedRook(b, token[1], token[3])

RightOf(b, c, rfrom) ==
    CHOOSE cr \in CastlingOf(c) : cr \in KING_SIDE <=> square(b, c) < rfrom
set_castling_right(b, c, rfrom) ==
    LET cr == RightOf(b, c, rfrom)
        kfrom == square(b, c) IN
    [king |-> kfrom, rook |-> rfrom,
     path |-> (BetweenBB[rfrom][RookTarget(cr)] \cup BetweenBB[kfrom][KingTarget(cr)]) \ {kfrom, rfrom}]
Castlings(fen) ==
    LET b == fen.board
        rooks == {<<t[1], RookOf(b, t)>> : t \in {t \in fen.castling : RookOf(b, t) # SQ_NONE}} IN
    [cr \in {RightOf(b, r[1], r[2]) : r \in rooks} |->
        LET r == CHOOSE r \in rooks : RightOf(b, r[1], r[2]) = cr IN
        set_castling_right(b, r[1], r[2])]

(***************************************************************************)
(* The en passant square of a FEN counts if a pawn may make the capture.   *)
(***************************************************************************)
EpSquareOf(fen) ==
    LET b == fen.board  us == fen.turn  them == Them(us)  ep == fen.ep
        pawns == PawnAttacks[them][ep] \cap Exactly(b, us, {PAWN})
        target == Exactly(b, them, {PAWN}) \cap {ep + pawn_push(them)}
        occ == (pieces(b) ++ target) ++ {ep}
        possible == /\ pawns # {} /\ target # {}
                    /\ pieces(b) \cap {ep, ep + pawn_push(us)} = {}
        legal == \E s \in pawns :
                    (attackers_to(b, square(b, us), occ ++ {s}) \cap OfColor(b, them)) \ target = {} IN
    IF ep # SQ_NONE /\ possible /\ legal THEN ep ELSE SQ_NONE

(* What set accepts. *)
TooMany(b, c) ==
    LET extra(pt, n) == LET k == pieceCount(b, make_piece(c, pt)) - n IN IF k < 0 THEN 0 ELSE k
        pawns == pieceCount(b, make_piece(c, PAWN)) IN
    \/ pawns > 8
    \/ extra(KNIGHT, 2) + extra(BISHOP, 2) + extra(ROOK, 2) + extra(QUEEN, 1) > 8 - pawns
Accepted(fen) ==
    LET b == fen.board IN
    /\ Cardinality(pieces(b)) <= 32
    /\ \A s \in OfTypes(b, {PAWN}) : rank_of(s) \in 1..6
    /\ \A c \in Color : pieceCount(b, make_piece(c, KING)) = 1 /\ ~TooMany(b, c)
    /\ fen.ep # SQ_NONE => relative_rank(fen.turn, fen.ep) = 5
    /\ 0 <= fen.rule50 /\ fen.rule50 <= 32767 /\ 0 <= fen.fullmove /\ fen.fullmove <= 100000
    /\ ~attackers_to_exist(b, square(b, Them(fen.turn)), pieces(b), fen.turn)

(* What the reader of a FEN makes of it, castling rights for standard      *)
(* chess being those of standard chess.                                    *)
Readable(fen) ==
    /\ fen.board \in [DOMAIN fen.board -> Piece] /\ DOMAIN fen.board \subseteq Square
    /\ fen.turn \in Color /\ fen.ep \in Square \cup {SQ_NONE}
    /\ \A t \in fen.castling :
          t[1] \in Color /\ (t[2] \in {"K", "Q"} \/ (t[2] = "file" /\ t[3] \in 0..7))
    /\ ~fen.chess960 =>
          \A cr \in DOMAIN Castlings(fen) :
              /\ file_of(Castlings(fen)[cr].king) = 4
              /\ file_of(Castlings(fen)[cr].rook) = IF cr \in KING_SIDE THEN 7 ELSE 0

(***************************************************************************)
(* A StateInfo computed from scratch.                                      *)
(***************************************************************************)
NonPawns(b, c) == {s \in OfColor(b, c) : type_of(b[s]) # PAWN}
Material(b, c) ==
    LET worth(pt) == PieceValue(pt) * pieceCount(b, make_piece(c, pt)) IN
    worth(KNIGHT) + worth(BISHOP) + worth(ROOK) + worth(QUEEN)

set_state(b, stm, rights, ep, rule50) ==
    [materialKey |-> compute_material_key(b),
     pawnKey |-> noPawns ++ KeyOf(b, OfTypes(b, {PAWN})),
     minorPieceKey |-> KeyOf(b, OfTypes(b, {KNIGHT, BISHOP})),
     nonPawnKey |-> [c \in Color |-> KeyOf(b, NonPawns(b, c))],
     nonPawnMaterial |-> [c \in Color |-> Material(b, c)],
     castlingRights |-> rights, rule50 |-> rule50, pliesFromNull |-> 0, epSquare |-> ep,
     key |-> KeyOf(b, pieces(b)) ++ EpKey(ep) ++ When(stm = BLACK, side) ++ castlingKey(rights),
     checkersBB |-> attackers_to(b, square(b, stm), pieces(b)) \cap OfColor(b, Them(stm)),
     blockersForKing |-> blockersForKing(b), pinners |-> pinners(b), checkSquares |-> checkSquares(b, stm),
     capturedPiece |-> NO_PIECE, repetition |-> 0]

set(fen) ==
    LET castling == Castlings(fen)
        start == 2 * (fen.fullmove - 1) IN
    [board |-> fen.board, sideToMove |-> fen.turn, castling |-> castling,
     gamePly |-> (IF start < 0 THEN 0 ELSE start) + fen.turn, chess960 |-> fen.chess960,
     states |-> <<set_state(fen.board, fen.turn, DOMAIN castling, EpSquareOf(fen), fen.rule50)>>]

St(p) == Last(p.states)
Ago(p, i) == p.states[Len(p.states) - i]         \* st->previous, i times
(* The rights lost when s is left or taken. *)
castlingRightsMask(p, s) ==
    {cr \in DOMAIN p.castling : s \in {p.castling[cr].king, p.castling[cr].rook}}
can_castle(p, cr) == cr \in St(p).castlingRights
castling_impeded(p, cr) == pieces(p.board) \cap p.castling[cr].path # {}

(***************************************************************************)
(* The key a search looks up: the count of the fifty-move rule is in it.   *)
(***************************************************************************)
adjust_key50(k, rule50) == IF rule50 < 14 THEN k ELSE k ++ make_key((rule50 - 14) \div 8)
key(p) == adjust_key50(St(p).key, St(p).rule50)

(***************************************************************************)
(* A move is carried out on the board in at most four operations.          *)
(***************************************************************************)
Op(kind, pc, s, t) == [kind |-> kind, pc |-> pc, s |-> s, t |-> t]
remove_piece(s) == Op("remove", NO_PIECE, s, s)
put_piece(pc, s) == Op("put", pc, s, s)
swap_piece(s, pc) == Op("swap", pc, s, s)
move_piece(s, t) == Op("move", NO_PIECE, s, t)

Without(b, s) == [t \in DOMAIN b \ {s} |-> b[t]]
With(b, s, pc) == [t \in DOMAIN b \cup {s} |-> IF t = s THEN pc ELSE b[t]]
Apply(b, op) ==
    CASE op.kind = "remove" -> Without(b, op.s)
      [] op.kind = "move" -> With(Without(b, op.s), op.t, b[op.s])
      [] OTHER -> With(b, op.s, op.pc)
Carry(b, ops) ==
    LET after[i \in 0..Len(ops)] == IF i = 0 THEN b ELSE Apply(after[i - 1], ops[i]) IN
    after[Len(ops)]

(* Castling: the king takes its own rook, and both go to their targets. *)
CastlingSide(m) == IF m.to > m.from THEN KING_SIDE ELSE QUEEN_SIDE
CastlingRight(us, m) == CHOOSE cr \in CastlingOf(us) : cr \in CastlingSide(m)
Arrival(us, m) == IF m.type = "castling" THEN KingTarget(CastlingRight(us, m)) ELSE m.to

do_castling(us, m) ==
    LET cr == CastlingRight(us, m) IN
    <<remove_piece(m.from), remove_piece(m.to),
      put_piece(make_piece(us, KING), KingTarget(cr)),
      put_piece(make_piece(us, ROOK), RookTarget(cr))>>
undo_castling(us, m) ==
    LET cr == CastlingRight(us, m) IN
    <<remove_piece(KingTarget(cr)), remove_piece(RookTarget(cr)),
      put_piece(make_piece(us, KING), m.from), put_piece(make_piece(us, ROOK), m.to)>>

CaptureSquare(us, m) == IF m.type = "enpassant" THEN m.to - pawn_push(us) ELSE m.to
Captured(p, m) ==
    CASE m.type = "castling" -> NO_PIECE
      [] m.type = "enpassant" -> make_piece(Them(p.sideToMove), PAWN)
      [] OTHER -> piece_on(p.board, m.to)

Operations(p, m) ==
    LET us == p.sideToMove
        toPc == IF m.type = "promotion" THEN make_piece(us, m.promo) ELSE p.board[m.from] IN
    CASE m.type = "castling" -> do_castling(us, m)
      [] m.type = "enpassant" ->
            <<remove_piece(CaptureSquare(us, m)), move_piece(m.from, m.to)>>
      [] m.type \in {"normal", "promotion"} /\ Captured(p, m) # NO_PIECE ->
            <<remove_piece(m.from), swap_piece(m.to, toPc)>>
      [] m.type = "promotion" /\ Captured(p, m) = NO_PIECE ->
            <<remove_piece(m.from), put_piece(toPc, m.to)>>
      [] OTHER -> <<move_piece(m.from, m.to)>>

(***************************************************************************)
(* The en passant square after a double push: only if the pawn discovers   *)
(* no check and some enemy pawn beside it can move there.  Mutant: any     *)
(* enemy pawn beside it.                                                   *)
(***************************************************************************)
EpAfterAnyPawn(p, m) ==
    LET us == p.sideToMove  ep == m.to - pawn_push(us) IN
    IF /\ type_of(p.board[m.from]) = PAWN
       /\ Abs(m.to - m.from) = 16
       /\ PawnAttacks[us][ep] \cap Exactly(p.board, Them(us), {PAWN}) # {}
    THEN ep ELSE SQ_NONE
EpAfter(p, m) ==
    LET us == p.sideToMove  them == Them(us)
        ep == m.to - pawn_push(us)
        ksq == square(p.board, them)
        blockers == St(p).blockersForKing[them]
        pawns == PawnAttacks[us][ep] \cap Exactly(p.board, them, {PAWN})
        noDiscovery == m.from \notin blockers \/ file_of(m.from) = file_of(ksq)
        able == {s \in pawns : s \notin blockers \/ s \in LineBB[ep][ksq]} IN
    IF /\ type_of(p.board[m.from]) = PAWN
       /\ Abs(m.to - m.from) = 16
       /\ noDiscovery /\ able # {}
    THEN ep ELSE SQ_NONE

(***************************************************************************)
(* The distance to the last occurrence of the position, negative if that   *)
(* one was a repetition itself.  Mutant: never negative.                   *)
(***************************************************************************)
Smaller(a, b) == IF a < b THEN a ELSE b
Before(p, i) == p.states[Len(p.states) + 1 - i]
Recurrences(p, new) ==
    {i \in 4..Smaller(new.rule50, new.pliesFromNull) : i % 2 = 0 /\ Before(p, i).key = new.key}
RepetitionUnsigned(p, new) ==
    IF Recurrences(p, new) = {} THEN 0 ELSE Min(Recurrences(p, new))
Repetition(p, new) ==
    LET same == Recurrences(p, new) IN
    IF same = {} THEN 0
    ELSE IF Before(p, Min(same)).repetition # 0 THEN -Min(same) ELSE Min(same)

(***************************************************************************)
(* Making a move.  The keys are updated with the pieces as they stand when *)
(* the code updates them: a pawn captured en passant has been removed, any *)
(* other captured piece has not.                                           *)
(***************************************************************************)
Promotes(m) == m.type = "promotion"
MovedKey(p, m) ==
    LET pc == p.board[m.from] IN psq(pc, m.from) ++ psq(pc, Arrival(p.sideToMove, m))
RookKey(p, m) ==
    LET us == p.sideToMove  rook == make_piece(us, ROOK) IN
    When(m.type = "castling", psq(rook, m.to) ++ psq(rook, RookTarget(CastlingRight(us, m))))
CapturedKey(p, m) ==
    When(Captured(p, m) # NO_PIECE, psq(Captured(p, m), CaptureSquare(p.sideToMove, m)))
PromotedKey(p, m) == When(Promotes(m), psq(make_piece(p.sideToMove, m.promo), m.to))

MaterialKeyAfter(p, m) ==
    LET us == p.sideToMove  pc == p.board[m.from]  captured == Captured(p, m)
        inPassing == m.type = "enpassant"
        during == IF inPassing THEN Without(p.board, CaptureSquare(us, m)) ELSE p.board
        count(piece) == pieceCount(during, piece) IN
    St(p).materialKey
        ++ When(captured # NO_PIECE, psq(captured, 8 + count(captured) - IF inPassing THEN 0 ELSE 1))
        ++ When(Promotes(m), psq(make_piece(us, m.promo), 8 + count(make_piece(us, m.promo)))
                             ++ psq(pc, 8 + count(pc) - 1))
PawnKeyAfter(p, m) ==
    St(p).pawnKey ++ When(type_of(Captured(p, m)) = PAWN, CapturedKey(p, m))
                  ++ When(type_of(p.board[m.from]) = PAWN, MovedKey(p, m))
MinorKeyAfter(p, m) ==
    St(p).minorPieceKey ++ When(type_of(Captured(p, m)) \in {KNIGHT, BISHOP}, CapturedKey(p, m))
                        ++ When(m.promo \in {KNIGHT, BISHOP}, PromotedKey(p, m))
                        ++ When(type_of(p.board[m.from]) \in {KNIGHT, BISHOP}, MovedKey(p, m))
NonPawnKeyAfter(p, m) ==
    [c \in Color |->
        St(p).nonPawnKey[c]
            ++ IF c = p.sideToMove
               THEN RookKey(p, m) ++ PromotedKey(p, m) ++ When(type_of(p.board[m.from]) # PAWN, MovedKey(p, m))
               ELSE When(type_of(Captured(p, m)) # PAWN, CapturedKey(p, m))]
MaterialAfter(p, m) ==
    [c \in Color |->
        St(p).nonPawnMaterial[c]
            + IF c = p.sideToMove
              THEN (IF Promotes(m) THEN PieceValue(make_piece(c, m.promo)) ELSE 0)
              ELSE (IF type_of(Captured(p, m)) \in KNIGHT..QUEEN THEN -PieceValue(Captured(p, m)) ELSE 0)]
RightsAfter(p, m) ==
    St(p).castlingRights
        \ (castlingRightsMask(p, m.from) \cup castlingRightsMask(p, Arrival(p.sideToMove, m)))
KeyAfter(p, m) ==
    St(p).key ++ side ++ RookKey(p, m) ++ CapturedKey(p, m) ++ MovedKey(p, m) ++ PromotedKey(p, m)
        ++ EpKey(St(p).epSquare) ++ castlingKey(St(p).castlingRights)
        ++ castlingKey(RightsAfter(p, m)) ++ EpKey(EpAfter(p, m))

do_move(p, m, givesCheck) ==
    LET us == p.sideToMove  them == Them(us)
        b == Carry(p.board, Operations(p, m))
        new == [materialKey |-> MaterialKeyAfter(p, m), pawnKey |-> PawnKeyAfter(p, m),
                minorPieceKey |-> MinorKeyAfter(p, m), nonPawnKey |-> NonPawnKeyAfter(p, m),
                nonPawnMaterial |-> MaterialAfter(p, m), castlingRights |-> RightsAfter(p, m),
                rule50 |-> IF Captured(p, m) # NO_PIECE \/ type_of(p.board[m.from]) = PAWN THEN 0
                           ELSE St(p).rule50 + 1,
                pliesFromNull |-> St(p).pliesFromNull + 1,
                epSquare |-> EpAfter(p, m), key |-> KeyAfter(p, m),
                checkersBB |-> When(givesCheck, attackers_to(b, square(b, them), pieces(b)) \cap OfColor(b, us)),
                blockersForKing |-> blockersForKing(b), pinners |-> pinners(b),
                checkSquares |-> checkSquares(b, them),
                capturedPiece |-> Captured(p, m), repetition |-> 0] IN
    [p EXCEPT !.board = b, !.sideToMove = them, !.gamePly = @ + 1,
              !.states = Append(@, [new EXCEPT !.repetition = Repetition(p, new)])]

(***************************************************************************)
(* Unmaking a move: the board is put back, the state is the previous one.  *)
(***************************************************************************)
undo_move(p, m) ==
    LET us == Them(p.sideToMove)
        captured == St(p).capturedPiece
        back == IF m.type = "promotion" THEN <<swap_piece(m.to, make_piece(us, PAWN))>> ELSE << >>
        restored == IF captured = NO_PIECE THEN << >>
                    ELSE <<put_piece(captured, CaptureSquare(us, m))>> IN
    [p EXCEPT !.board = Carry(p.board,
                           IF m.type = "castling" THEN undo_castling(us, m)
                           ELSE back \o <<move_piece(m.to, m.from)>> \o restored),
              !.sideToMove = us, !.gamePly = @ - 1, !.states = Front(@)]

(***************************************************************************)
(* A null move turns the board over to the other side.                     *)
(***************************************************************************)
do_null_move(p) ==
    LET them == Them(p.sideToMove)
        new == [St(p) EXCEPT !.key = @ ++ side ++ EpKey(St(p).epSquare), !.epSquare = SQ_NONE,
                             !.pliesFromNull = 0, !.capturedPiece = NO_PIECE, !.repetition = 0,
                             !.blockersForKing = blockersForKing(p.board), !.pinners = pinners(p.board),
                             !.checkSquares = checkSquares(p.board, them)] IN
    [p EXCEPT !.sideToMove = them, !.states = Append(@, new)]
(* Mutant: the state stays the last one. *)
undo_null_move_board(p) == [p EXCEPT !.sideToMove = Them(@)]
undo_null_move(p) == [p EXCEPT !.sideToMove = Them(@), !.states = Front(@)]
================================================================================
