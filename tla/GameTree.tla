------------------------------- MODULE GameTree -------------------------------
(***************************************************************************)
(* A search walks the game tree: from a root position it makes moves and   *)
(* null moves and unmakes them, in the order of a stack.  All of it works  *)
(* on one Position object; what a node sees is what do_move and undo_move  *)
(* have left there.                                                        *)
(*                                                                         *)
(* A scene is a FEN with bounds for TLC: how deep the walk goes, to which  *)
(* squares moves may go, and whether null moves are made.                  *)
(***************************************************************************)
EXTENDS Exchange, DirtyThreats

CONSTANT Scenes
ASSUME ScenesAssumption == \A s \in Scenes : Accepted(s.fen) => Readable(s.fen)

VARIABLES
    pos,     \* the Position
    path,    \* the moves from the root to this node
    trail,   \* history: the situation before each of them
    scene    \* the FEN the root was set up from, and the bounds
vars == <<pos, path, trail, scene>>

Situation(p) ==
    [board |-> p.board, turn |-> p.sideToMove,
     rights |-> St(p).castlingRights, ep |-> St(p).epSquare]

NullMove == [from |-> SQ_NONE, to |-> SQ_NONE, type |-> "null", promo |-> 0]

Init ==
    /\ scene \in {s \in Scenes : Accepted(s.fen)}
    /\ pos = set(scene.fen)
    /\ path = << >> /\ trail = << >>

(***************************************************************************)
(* Only legal moves are made, and gives_check goes with them.              *)
(***************************************************************************)
DoMove(m) ==
    /\ Len(path) < scene.plies /\ m.to \in scene.arena
    /\ pos' = do_move(pos, m, gives_check(pos, m))
    /\ path' = Append(path, m) /\ trail' = Append(trail, Situation(pos))
    /\ UNCHANGED scene

(* A search makes no null move in check, with king and pawns only, nor     *)
(* two in a row.                                                           *)
DoNullMove ==
    /\ Len(path) < scene.plies /\ scene.nulls
    /\ checkers(pos) = {} /\ St(pos).nonPawnMaterial[pos.sideToMove] > 0
    /\ path # << >> => Last(path) # NullMove
    /\ pos' = do_null_move(pos)
    /\ path' = Append(path, NullMove) /\ trail' = Append(trail, Situation(pos))
    /\ UNCHANGED scene

Undone(p, m) == IF m = NullMove THEN undo_null_move(p) ELSE undo_move(p, m)
UndoMove ==
    /\ path # << >>
    /\ pos' = Undone(pos, Last(path))
    /\ path' = Front(path) /\ trail' = Front(trail)
    /\ UNCHANGED scene

Next == (\E m \in LegalList(pos) : DoMove(m)) \/ DoNullMove \/ UndoMove
Spec == Init /\ [][Next]_vars

-------------------------------------------------------------------------------
(***************************************************************************)
(* The game as the rules of chess see it.                                  *)
(***************************************************************************)
Game == Append(trail, Situation(pos))
Homes == [cr \in DOMAIN pos.castling |->
             [king |-> pos.castling[cr].king, rook |-> pos.castling[cr].rook]]

Rules == INSTANCE Chess WITH games <- Game, homes <- Homes

(***************************************************************************)
(* The shape of the state.                                                 *)
(***************************************************************************)
TypeOK ==
    /\ DOMAIN pos.board \subseteq Square /\ \A s \in DOMAIN pos.board : pos.board[s] \in Piece
    /\ pos.sideToMove \in Color
    /\ Len(pos.states) = Len(path) + 1
    /\ \A i \in DOMAIN pos.states : pos.states[i].epSquare \in Square \cup {SQ_NONE}

(***************************************************************************)
(* Making and unmaking moves plays chess: every step of the search is a    *)
(* legal move, a pass or a move taken back, and pieces, castling rights    *)
(* and en passant squares are those of the rules.                          *)
(***************************************************************************)
ImplementsChess == Rules!Spec

(***************************************************************************)
(* A move of the hash table, which another position may have left there,   *)
(* passes pseudo_legal and legal exactly if it is legal here.              *)
(***************************************************************************)
HashMoves == {Normal(s, t) : s \in pieces(pos.board), t \in Square}
HashMoveSafe ==
    {m \in HashMoves : m.from # m.to /\ pseudo_legal(pos, m) /\ legal(pos, m)}
        = {m \in Rules!LegalMoves(Situation(pos)) : m.type = "normal"}

(***************************************************************************)
(* The generated legal moves are all the legal moves, and the stages of    *)
(* the move picker neither miss a move nor offer it twice.                 *)
(***************************************************************************)
capture_stage(m) ==
    \/ m.type \in {"normal", "promotion"} /\ m.to \in pieces(pos.board)
    \/ m.promo = QUEEN \/ m.type = "enpassant"
MovesComplete ==
    /\ LegalList(pos) = Rules!LegalMoves(Situation(pos))
    /\ checkers(pos) = {} =>
         LET all == generate(pos, "non_evasions") IN
         /\ generate(pos, "captures") = {m \in all : capture_stage(m)}
         /\ generate(pos, "quiets") = {m \in all : ~capture_stage(m)}

(* The moves of a position: those that are generated, and those of a hash  *)
(* table that are let through.                                             *)
MovesExact == MovesComplete /\ HashMoveSafe

(***************************************************************************)
(* What do_move keeps up to date is what set_state computes from the       *)
(* board: keys and material, updated by each kind of move; the checkers,   *)
(* looked up only if gives_check said so; and the pins.  A move that       *)
(* changes neither castling rights nor en passant squares, and is no       *)
(* castling or promotion, leads to the key that was prefetched.            *)
(***************************************************************************)
Fresh == set_state(pos.board, pos.sideToMove, St(pos).castlingRights, St(pos).epSquare,
                   St(pos).rule50)
Kept == {"key", "pawnKey", "minorPieceKey", "nonPawnKey", "materialKey", "nonPawnMaterial",
         "checkersBB", "blockersForKing", "pinners", "checkSquares"}
After(m) == do_move(pos, m, gives_check(pos, m))
Prefetched(m) ==
    LET q == After(m) IN
    (/\ m.type = "normal"
     /\ St(pos).epSquare = SQ_NONE /\ St(q).epSquare = SQ_NONE
     /\ St(q).castlingRights = St(pos).castlingRights)
        => prefetch_key(pos, m) = key(q)
StateAgrees ==
    /\ \A k \in Kept : St(pos)[k] = Fresh[k]
    /\ \A m \in LegalList(pos) : Prefetched(m)

(***************************************************************************)
(* repetition is the distance to the last time the same position stood on  *)
(* the board since a null move, negative from the third time on.           *)
(***************************************************************************)
SameBefore ==
    LET game == Game
        n == Len(path) IN
    {i \in 1..n : /\ game[n + 1 - i] = game[n + 1]
                  /\ \A j \in (n + 1 - i)..n : path[j] # NullMove}
Irreversible(j) ==
    LET before == Game[j].board  after == Game[j + 1].board IN
    \/ path[j] = NullMove
    \/ Cardinality(DOMAIN before) # Cardinality(DOMAIN after)
    \/ OfTypes(before, {PAWN}) # OfTypes(after, {PAWN})
SomeRepeated ==
    LET irreversible == {j \in DOMAIN path : Irreversible(j)}
        first == IF irreversible = {} THEN 1 ELSE Max(irreversible) + 1 IN
    \E i \in first..Len(path) : \E k \in (i + 1)..Len(Game) : Game[i] = Game[k]
RepetitionExact ==
    /\ St(pos).repetition =
         (IF SameBefore = {} THEN 0
          ELSE IF Cardinality(SameBefore) = 1 THEN Min(SameBefore) ELSE -Min(SameBefore))
    /\ has_repeated(pos) <=> SomeRepeated

(***************************************************************************)
(* upcoming_repetition is true exactly if a legal move leads to a position *)
(* is_repetition calls a draw.                                             *)
(***************************************************************************)
UpcomingExact ==
    Len(path) < 3
    \/ LET next == {After(m) : m \in LegalList(pos)} IN
       \A ply \in 0..(Len(path) + 1) :
           upcoming_repetition(pos, ply) <=> \E q \in next : is_repetition(q, ply + 1)

(* Repetitions that have happened, and those one move away.                *)
RepetitionsExact == RepetitionExact /\ UpcomingExact

(***************************************************************************)
(* The pieces and the threats that do_move reports as come and gone turn   *)
(* those of the board before into those of the board after, each counted   *)
(* once, whatever the order in which they are reported.                    *)
(***************************************************************************)
AddUp(before, after, removed, added) ==
    LET times(x, calls) == Cardinality({i \in DOMAIN calls : x \in calls[i]})
        once(x, S) == IF x \in S THEN 1 ELSE 0
        touched == UNION (Range(removed) \cup Range(added)) IN
    \A x \in before \cup after \cup touched :
        once(x, before) + times(x, added) - times(x, removed) = once(x, after)
Made(m) == Carry(pos.board, Operations(pos, m))
DirtyExact ==
    \A m \in LegalList(pos) :
        LET dp == DirtyPiece(pos, m)  placed(b) == {<<b[s], s>> : s \in DOMAIN b}
            list == DirtyThreatList(pos, m)
            which(add) == [i \in DOMAIN list |-> {d.threat : d \in {d \in list[i] : d.add = add}}] IN
        /\ AddUp(placed(pos.board), placed(Made(m)), PiecesRemoved(dp), PiecesAdded(dp))
        /\ AddUp(append_active_indices(pos.board), append_active_indices(Made(m)),
                 which(FALSE), which(TRUE))

(***************************************************************************)
(* see_ge answers whether the series of captures is worth the threshold,   *)
(* for moves that leave the king in check as well.                         *)
(***************************************************************************)
ExchangeExact ==
    \A m \in AllMoves(pos) :
        LET worth == IF m.type = "normal" THEN Worth(pos, m) ELSE 0 IN
        \A threshold \in {worth - 1, worth, worth + 1, -75, 0, 1} :
            see_ge(pos, m, threshold) <=> worth >= threshold

(* What do_move tells of attacks to the network, and what see_ge makes of  *)
(* them.                                                                   *)
AttacksExact == DirtyExact /\ ExchangeExact
================================================================================
