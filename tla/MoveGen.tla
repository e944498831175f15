------------------------------- MODULE MoveGen -------------------------------
(***************************************************************************)
(* Which moves there are (movegen.cpp) and what a position says of a move  *)
(* before it is made (legal, pseudo_legal, gives_check) and of its history *)
(* (is_repetition, upcoming_repetition) in position.cpp.                   *)
(*                                                                         *)
(* A list of moves is a set: the order in which moves are generated is     *)
(* left to the move picker.  The sets of squares p holds are those of its  *)
(* last StateInfo, up to date or not.                                      *)
(***************************************************************************)
EXTENDS Position

Normal(from, to) == [from |-> from, to |-> to, type |-> "normal", promo |-> 0]
Promotion(from, to, pt) == [from |-> from, to |-> to, type |-> "promotion", promo |-> pt]
EnPassant(from, to) == [from |-> from, to |-> to, type |-> "enpassant", promo |-> 0]
Castle(from, to) == [from |-> from, to |-> to, type |-> "castling", promo |-> 0]

checkers(p) == St(p).checkersBB
Mine(p) == OfColor(p.board, p.sideToMove)
Theirs(p) == OfColor(p.board, Them(p.sideToMove))
Empty(p) == Square \ pieces(p.board)
MyKing(p) == square(p.board, p.sideToMove)
TheirKing(p) == square(p.board, Them(p.sideToMove))

(***************************************************************************)
(* The squares other than the king's a kind of move may go to.             *)
(***************************************************************************)
Target(p, kind) ==
    CASE kind = "evasions" -> BetweenBB[MyKing(p)][Lsb(checkers(p))]
      [] kind = "non_evasions" -> Square \ Mine(p)
      [] kind = "captures" -> Theirs(p)
      [] kind = "quiets" -> Empty(p)

(* Which promotions belong to a kind, by whether they capture. *)
PromotionPieces(kind, captures) ==
    CASE kind \in {"evasions", "non_evasions"} -> KNIGHT..QUEEN
      [] kind = "captures" -> {QUEEN} \cup (IF captures THEN KNIGHT..ROOK ELSE {})
      [] kind = "quiets" -> IF captures THEN {} ELSE KNIGHT..ROOK

generate_pawn_moves(p, kind, target) ==
    LET us == p.sideToMove  up == pawn_push(us)  ep == St(p).epSquare
        pawns == Exactly(p.board, us, {PAWN})
        on7 == {s \in pawns : relative_rank(us, s) = 6}
        not7 == pawns \ on7
        free == IF kind = "evasions" THEN Empty(p) \cap target ELSE Empty(p)
        enemies == IF kind = "evasions" THEN checkers(p) ELSE Theirs(p)
        single == {s \in not7 : s + up \in free}
        double == {s \in not7 : /\ s + up \in Empty(p) /\ relative_rank(us, s + up) = 2
                                /\ s + 2 * up \in free}
        promotions(s, to, captures) ==
            {Promotion(s, to, pt) : pt \in PromotionPieces(kind, captures)} IN
    (IF kind = "captures" THEN {}
     ELSE {Normal(s, s + up) : s \in single} \cup {Normal(s, s + 2 * up) : s \in double})
    \cup (UNION {promotions(s, s + up, FALSE) : s \in {s \in on7 : s + up \in free}})
    \cup (UNION {UNION {promotions(s, to, TRUE) : to \in PawnAttacks[us][s] \cap enemies} : s \in on7})
    \cup (IF kind = "quiets" THEN {}
          ELSE UNION {{Normal(s, to) : to \in PawnAttacks[us][s] \cap enemies} : s \in not7})
    \cup (IF \/ kind = "quiets" \/ ep = SQ_NONE
             \/ kind = "evasions" /\ ep + up \in target
          THEN {} ELSE {EnPassant(s, ep) : s \in not7 \cap PawnAttacks[Them(us)][ep]})

generate_moves(p, target) ==
    UNION {{Normal(s, to) : to \in attacks_bb(type_of(p.board[s]), s, pieces(p.board)) \cap target} :
               s \in Exactly(p.board, p.sideToMove, KNIGHT..QUEEN)}

CastlingMoves(p) ==
    {Castle(MyKing(p), p.castling[cr].rook) :
        cr \in {cr \in CastlingOf(p.sideToMove) : can_castle(p, cr) /\ ~castling_impeded(p, cr)}}

generate(p, kind) ==
    LET ksq == MyKing(p)
        kingTarget == IF kind = "evasions" THEN Square \ Mine(p) ELSE Target(p, kind) IN
    (IF kind = "evasions" /\ more_than_one(checkers(p)) THEN {}
     ELSE generate_pawn_moves(p, kind, Target(p, kind)) \cup generate_moves(p, Target(p, kind)))
    \cup {Normal(ksq, to) : to \in PseudoAttacks[KING][ksq] \cap kingTarget}
    \cup (IF kind \in {"quiets", "non_evasions"} THEN CastlingMoves(p) ELSE {})

AllMoves(p) == generate(p, IF checkers(p) # {} THEN "evasions" ELSE "non_evasions")

(***************************************************************************)
(* Whether a pseudo-legal move leaves the king safe.                       *)
(***************************************************************************)
Path(s, t) == IF s < t THEN s..t ELSE t..s
legal(p, m) ==
    LET us == p.sideToMove
        attacked(s, occupied) == attackers_to_exist(p.board, s, occupied, Them(us))
        blockers == St(p).blockersForKing[us] IN
    CASE m.type = "castling" ->
            /\ \A s \in Path(m.from, Arrival(us, m)) \ {m.from} : ~attacked(s, pieces(p.board))
            /\ p.chess960 => m.to \notin blockers
      [] m.type # "castling" /\ type_of(p.board[m.from]) = KING ->
            ~attacked(m.to, pieces(p.board) \ {m.from})
      [] OTHER -> m.from \notin blockers \/ MyKing(p) \in LineBB[m.from][m.to]

(* generate<LEGAL> asks legal only of the moves that may be illegal.      *)
(* Mutant: pinned pieces are not among them.                               *)
SuspectUnpinned(p, m) == m.from = MyKing(p) \/ m.type = "enpassant"
Suspect(p, m) ==
    \/ m.from \in St(p).blockersForKing[p.sideToMove] \cap Mine(p)
    \/ m.from = MyKing(p)
    \/ m.type = "enpassant"
LegalList(p) == {m \in AllMoves(p) : Suspect(p, m) => legal(p, m)}

(***************************************************************************)
(* Whether a move from the hash table, any move, is one of AllMoves.       *)
(***************************************************************************)
PawnMayGo(p, from, to) ==
    LET us == p.sideToMove  up == pawn_push(us) IN
    /\ rank_of(to) \notin {0, 7}
    /\ \/ to \in PawnAttacks[us][from] \cap Theirs(p)
       \/ to = from + up /\ to \in Empty(p)
       \/ /\ to = from + 2 * up /\ relative_rank(us, from) = 1
          /\ to \in Empty(p) /\ to - up \in Empty(p)

pseudo_legal(p, m) ==
    IF m.type # "normal" THEN m \in AllMoves(p)
    ELSE /\ m.from \in Mine(p)
         /\ m.to \notin Mine(p)
         /\ LET pt == type_of(p.board[m.from]) IN
            /\ IF pt = PAWN THEN PawnMayGo(p, m.from, m.to)
                            ELSE m.to \in attacks_bb(pt, m.from, pieces(p.board))
            /\ checkers(p) # {} /\ pt # KING =>
                  /\ ~more_than_one(checkers(p))
                  /\ m.to \in BetweenBB[MyKing(p)][Lsb(checkers(p))]

(***************************************************************************)
(* Whether a move gives check, by what was computed for the position.      *)
(* Mutant: no check is discovered through a pawn captured en passant.      *)
(***************************************************************************)
ThroughCapturedNever(p, m) == FALSE
ThroughCaptured(p, m) ==
    LET us == p.sideToMove  b == p.board  ksq == TheirKing(p)
        left == (pieces(b) \ {m.from, CaptureSquare(us, m)}) \cup {m.to} IN
    \/ sliding_attack(ROOK, ksq, left) \cap Exactly(b, us, {QUEEN, ROOK}) # {}
    \/ sliding_attack(BISHOP, ksq, left) \cap Exactly(b, us, {QUEEN, BISHOP}) # {}
gives_check(p, m) ==
    LET us == p.sideToMove  b == p.board  ksq == TheirKing(p)
        pt == type_of(b[m.from]) IN
    \/ m.to \in St(p).checkSquares[pt]
    \/ IF m.from \in St(p).blockersForKing[Them(us)]
       THEN ksq \notin LineBB[m.from][m.to] \/ m.type = "castling"
       ELSE \/ m.type = "promotion" /\ ksq \in attacks_bb(m.promo, m.to, pieces(b) \ {m.from})
            \/ m.type = "enpassant" /\ ThroughCaptured(p, m)
            \/ /\ m.type = "castling"
               /\ RookTarget(CastlingRight(us, m)) \in St(p).checkSquares[ROOK]

(***************************************************************************)
(* Repetitions: of the position itself, and anywhere since the last        *)
(* capture, pawn move or null move.                                        *)
(***************************************************************************)
is_repetition(p, ply) == St(p).repetition # 0 /\ St(p).repetition < ply

Horizon(p) == Smaller(St(p).rule50, St(p).pliesFromNull)
has_repeated(p) ==
    \E i \in 0..(Horizon(p) - 4) : Ago(p, i).repetition # 0

(***************************************************************************)
(* The key a move leads to, guessed before it is made.                     *)
(***************************************************************************)
prefetch_key(p, m) ==
    LET b == p.board  pc == b[m.from]  captured == piece_on(b, m.to)
        k == St(p).key ++ side ++ psq(pc, m.to) ++ psq(pc, m.from)
             ++ (IF captured = NO_PIECE THEN {} ELSE psq(captured, m.to)) IN
    IF captured # NO_PIECE \/ type_of(pc) = PAWN THEN k ELSE adjust_key50(k, St(p).rule50 + 1)

(***************************************************************************)
(* The cuckoo tables hold the keys of the reversible moves, that is of two *)
(* squares a piece that is no pawn can go between.                         *)
(***************************************************************************)
Reversible(moveKey) ==
    {<<w[1][2], w[2][2]>> : w \in
        {w \in moveKey \X moveKey :
            /\ w[1][1] = w[2][1] /\ w[1][1] \in Piece /\ type_of(w[1][1]) # PAWN
            /\ w[1][2] < w[2][2]
            /\ w[2][2] \in PseudoAttacks[type_of(w[1][1])][w[1][2]]
            /\ moveKey = {w[1], w[2]} ++ side}}

Unobstructed(p, sq) == (BetweenBB[sq[1]][sq[2]] \ {sq[2]}) \cap pieces(p.board) = {}

upcoming_repetition(p, ply) ==
    LET end == Horizon(p)
        k(i) == Ago(p, i).key
        other[i \in 1..end] ==
            IF i = 1 THEN k(0) ++ k(1) ++ side
            ELSE IF i % 2 = 0 THEN {}
            ELSE other[i - 2] ++ k(i - 1) ++ k(i) ++ side IN
    \E i \in {i \in 3..end : i % 2 = 1} :
        /\ other[i] = {}
        /\ \E sq \in Reversible(k(0) ++ k(i)) : Unobstructed(p, sq)
        /\ ply > i \/ Ago(p, i).repetition # 0
================================================================================
