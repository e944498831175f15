------------------------------- MODULE Exchange -------------------------------
(***************************************************************************)
(* The static exchange evaluation (Position::see_ge): whether a series of  *)
(* captures on one square gains at least a threshold.                      *)
(***************************************************************************)
EXTENDS MoveGen

(***************************************************************************)
(* The least valuable piece of stm that may take on the square, or none:   *)
(* pinned pieces stay as long as one of the pinners is there, and the king *)
(* comes last.                                                             *)
(***************************************************************************)
Willing(p, stm, attackers, occupied) ==
    LET all == attackers \cap OfColor(p.board, stm) IN
    IF St(p).pinners[Them(stm)] \cap occupied # {} THEN all \ St(p).blockersForKing[stm] ELSE all
Cheapest(b, S) ==
    LET pt == Min({type_of(b[s]) : s \in S}) IN Lsb({s \in S : type_of(b[s]) = pt})

(***************************************************************************)
(* What stands behind the piece that has taken joins the attackers.        *)
(***************************************************************************)
XRays(b, to, pt, occupied) ==
    (IF pt \in {PAWN, BISHOP, QUEEN}
     THEN sliding_attack(BISHOP, to, occupied) \cap OfTypes(b, {BISHOP, QUEEN}) ELSE {})
    \cup (IF pt \in {ROOK, QUEEN}
          THEN sliding_attack(ROOK, to, occupied) \cap OfTypes(b, {ROOK, QUEEN}) ELSE {})

(***************************************************************************)
(* One turn of the loop.  swap is what the side that took last stands to   *)
(* lose if the piece it took with is taken, less what it needs; res is the *)
(* answer if nobody takes any more.                                        *)
(***************************************************************************)
Turn(p, to, x) ==
    LET b == p.board
        stm == Them(x.stm)
        attackers == x.attackers \cap x.occupied
        willing == Willing(p, stm, attackers, x.occupied)
        s == Cheapest(b, willing)
        pt == type_of(b[s])
        res == 1 - x.res
        swap == PieceValue(b[s]) - x.swap
        occupied == x.occupied \ {s} IN
    IF x.over THEN x
    ELSE IF willing = {} THEN [x EXCEPT !.over = TRUE]
    ELSE IF pt = KING
    THEN [x EXCEPT !.over = TRUE, !.res = IF attackers \ OfColor(b, stm) # {} THEN 1 - res ELSE res]
    ELSE IF pt # QUEEN /\ swap < res THEN [x EXCEPT !.over = TRUE, !.res = res]
    ELSE [over |-> FALSE, stm |-> stm, res |-> res, swap |-> swap, occupied |-> occupied,
          attackers |-> attackers \cup XRays(b, to, pt, occupied)]

Turns(p) == [i \in 1..Cardinality(pieces(p.board)) |-> i]    \* more than it can take
see_ge(p, m, threshold) ==
    LET b == p.board  to == m.to
        gain == PieceValue(piece_on(b, to)) - threshold
        risk == PieceValue(b[m.from]) - gain
        occupied == (pieces(b) ++ {m.from}) ++ {to}
        start == [over |-> FALSE, stm |-> p.sideToMove, res |-> 1, swap |-> risk,
                  occupied |-> occupied, attackers |-> attackers_to(b, to, occupied)] IN
    CASE m.type # "normal" -> 0 >= threshold
      [] m.type = "normal" /\ gain < 0 -> FALSE
      [] m.type = "normal" /\ gain >= 0 /\ risk <= 0 -> TRUE
      [] OTHER -> FoldLeft(LAMBDA x, i : Turn(p, to, x), start, Turns(p)).res = 1

(***************************************************************************)
(* The reference: who takes next is a series of pieces, and each side may  *)
(* stop before its turn.  Exchanged is that series, Worth what it is worth *)
(* to the side that begins it.                                             *)
(***************************************************************************)
NextTaker(p, to, taken) ==
    LET b == p.board
        us == IF Len(taken) % 2 = 0 THEN p.sideToMove ELSE Them(p.sideToMove)
        occupied == pieces(b) \ ({to} \cup {taken[i] : i \in DOMAIN taken})
        attackers == attackers_to(b, to, occupied) \cap occupied
        willing == Willing(p, us, attackers, occupied) IN
    IF willing = {} THEN {}
    ELSE LET s == Cheapest(b, willing) IN
         IF type_of(b[s]) = KING /\ attackers \cap OfColor(b, Them(us)) # {} THEN {} ELSE {s}
Exchanged(p, m) ==
    FoldLeft(LAMBDA taken, i : IF Len(taken) < i THEN taken
                               ELSE LET next == NextTaker(p, m.to, taken) IN
                                    IF next = {} THEN taken ELSE Append(taken, Lsb(next)),
             <<m.from>>, Turns(p))
Worth(p, m) ==
    LET taken == Exchanged(p, m)
        on(i) == PieceValue(IF i = 1 THEN piece_on(p.board, m.to) ELSE p.board[taken[i - 1]]) IN
    FoldRight(LAMBDA i, later : on(i) - (IF later > 0 THEN later ELSE 0),
              [i \in DOMAIN taken |-> i], 0)
================================================================================
