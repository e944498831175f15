----------------------------- MODULE GameTreeProofs -----------------------------
(***************************************************************************)
(* The position at every node of the walk, proved for every scene and      *)
(* every walk: the board is a board, what do_move keeps up to date is what *)
(* set_state computes from the board, and a move taken back leaves the     *)
(* situation before it.                                                    *)
(*                                                                         *)
(* The inductive invariant says more than that.  What do_move does to keys *)
(* and pins is right for legal moves in sound positions only: each side    *)
(* has one king, the side that is not to move is not in check, castling    *)
(* rights have their kings and rooks at home, and no capture in passing    *)
(* that the pins allow exposes the king.  For undo_move the invariant      *)
(* keeps, for every step of the walk, that its operations undone on the    *)
(* later board give the earlier one.                                       *)
(***************************************************************************)
EXTENDS GameTree, Induction, FiniteSetTheorems, TLAPS

-------------------------------------------------------------------------------
(***************************************************************************)
(* The geometry of the board.                                              *)
(***************************************************************************)
(* Files and ranks, and the square n steps away in direction d.            *)
F(s) == file_of(s)
R(s) == rank_of(s)

(* t is n steps from s in direction d. *)
Toward(s, d, n, t) ==
  /\ n \in 1 .. 7
  /\ \/ d = 1 /\ F(t) = F(s) + n /\ R(t) = R(s)
     \/ d = -1 /\ F(t) = F(s) - n /\ R(t) = R(s)
     \/ d = 8 /\ F(t) = F(s) /\ R(t) = R(s) + n
     \/ d = -8 /\ F(t) = F(s) /\ R(t) = R(s) - n
     \/ d = 9 /\ F(t) = F(s) + n /\ R(t) = R(s) + n
     \/ d = -9 /\ F(t) = F(s) - n /\ R(t) = R(s) - n
     \/ d = 7 /\ F(t) = F(s) - n /\ R(t) = R(s) + n
     \/ d = -7 /\ F(t) = F(s) + n /\ R(t) = R(s) - n

(* A square is given by its file and its rank.                             *)
LEMMA Coordinates ==
  ASSUME NEW s \in Square
  PROVE  F(s) \in 0 .. 7 /\ R(s) \in 0 .. 7 /\ s = 8 * R(s) + F(s) /\ s \in Int
BY DEF F, R, file_of, rank_of, Square

(* Every file and rank in range name a square.                             *)
LEMMA SquareAt ==
  ASSUME NEW f \in 0 .. 7, NEW r \in 0 .. 7
  PROVE  8 * r + f \in Square /\ F(8 * r + f) = f /\ R(8 * r + f) = r
BY DEF F, R, file_of, rank_of, Square

(* Two squares of the same file and rank are one.                          *)
LEMMA Same ==
  ASSUME NEW s \in Square, NEW t \in Square, F(s) = F(t), R(s) = R(t)
  PROVE  s = t
BY Coordinates

(* safe_destination lets a king step pass exactly if it stays on the       *)
(* board.                                                                  *)
LEMMA OneStep ==
  ASSUME NEW s \in Square, NEW d \in KingSteps
  PROVE  /\ safe_destination(s, d) # {} <=> \E t \in Square : Toward(s, d, 1, t)
         /\ \A t \in Square : Toward(s, d, 1, t) => t = s + d
         /\ \A t \in Square : t \in safe_destination(s, d) <=> Toward(s, d, 1, t)
<1>1. \A t \in Square : Toward(s, d, 1, t) => t = s + d /\ Abs(file_of(s) - file_of(t)) <= 2
  <2>. SUFFICES ASSUME NEW t \in Square, Toward(s, d, 1, t) PROVE t = s + d /\ Abs(F(s) - F(t)) <= 2
    BY DEF F
  <2>. QED
    BY Coordinates DEF Toward, Abs
<1>2. \A t \in Square : t = s + d /\ Abs(file_of(s) - file_of(t)) <= 2 => Toward(s, d, 1, t)
  <2>. SUFFICES ASSUME NEW t \in Square, t = s + d, Abs(F(s) - F(t)) <= 2 PROVE Toward(s, d, 1, t)
    BY DEF F
  <2>. QED
    BY Coordinates DEF Toward, Abs, KingSteps, RookDirections, BishopDirections
<1>3. safe_destination(s, d) = {t \in Square : t = s + d /\ Abs(file_of(s) - file_of(t)) <= 2}
  BY DEF safe_destination
<1>. HIDE DEF Toward, Square
<1>4. \A t \in Square : t \in safe_destination(s, d) <=> Toward(s, d, 1, t)
  BY <1>1, <1>2, <1>3
<1>5. safe_destination(s, d) # {} <=> \E t \in Square : Toward(s, d, 1, t)
  <2>1. safe_destination(s, d) \subseteq Square
    BY <1>3
  <2>. QED
    BY <2>1, <1>4
<1>. QED
  BY <1>1, <1>4, <1>5

(* A step goes on where the last one ended. *)
LEMMA StepOn ==
  ASSUME NEW s \in Square, NEW d \in KingSteps, NEW n \in 1 .. 6, NEW t \in Square, NEW u \in Square,
         Toward(s, d, n, t)
  PROVE  Toward(t, d, 1, u) <=> Toward(s, d, n + 1, u)
<1>1. /\ F(s) \in Int /\ R(s) \in Int /\ F(t) \in Int /\ R(t) \in Int /\ F(u) \in Int /\ R(u) \in Int
  BY Coordinates
<1>. QED
  BY <1>1 DEF Toward, KingSteps, RookDirections, BishopDirections

(* On the way to a square of the board every square is on the board.       *)
LEMMA StepBefore ==
  ASSUME NEW s \in Square, NEW d \in KingSteps, NEW n \in 1 .. 7, NEW t \in Square, Toward(s, d, n, t),
         NEW j \in 1 .. n
  PROVE  \E u \in Square : Toward(s, d, j, u)
<1>1. /\ F(s) \in 0 .. 7 /\ R(s) \in 0 .. 7 /\ F(t) \in 0 .. 7 /\ R(t) \in 0 .. 7
  BY Coordinates
<1>2. \E f \in 0 .. 7, r \in 0 .. 7 :
         \/ d = 1 /\ f = F(s) + j /\ r = R(s)
         \/ d = -1 /\ f = F(s) - j /\ r = R(s)
         \/ d = 8 /\ f = F(s) /\ r = R(s) + j
         \/ d = -8 /\ f = F(s) /\ r = R(s) - j
         \/ d = 9 /\ f = F(s) + j /\ r = R(s) + j
         \/ d = -9 /\ f = F(s) - j /\ r = R(s) - j
         \/ d = 7 /\ f = F(s) - j /\ r = R(s) + j
         \/ d = -7 /\ f = F(s) + j /\ r = R(s) - j
  <2>1. j \in Int /\ n \in Int /\ j >= 1 /\ j <= n
    OBVIOUS
  <2>. QED
    BY <1>1, <2>1 DEF Toward
<1>3. j \in 1 .. 7
  OBVIOUS
<1>. QED
  BY <1>2, <1>3, SquareAt DEF Toward

(* n steps in direction d add n times d, as the squares are numbered.      *)
LEMMA Lands ==
  ASSUME NEW s \in Square, NEW d \in KingSteps, NEW n \in 1 .. 7, NEW t \in Square, Toward(s, d, n, t)
  PROVE  t = s + n * d
<1>1. /\ F(s) \in Int /\ R(s) \in Int /\ F(t) \in Int /\ R(t) \in Int
      /\ s = 8 * R(s) + F(s) /\ t = 8 * R(t) + F(t)
  BY Coordinates
<1>2. n \in Int
  OBVIOUS
<1>. QED
  BY <1>1, <1>2 DEF Toward

(* The steps the edge allows. *)
LEMMA ReachIs ==
  ASSUME NEW s \in Square, NEW d \in KingSteps, NEW n \in 1 .. 7
  PROVE  n \in Reach[d][s] <=> \E t \in Square : Toward(s, d, n, t)
<1>1. n \in Reach[d][s] <=> \A j \in 0 .. (n - 1) : safe_destination(s + j * d, d) # {}
  BY DEF Reach
<1>2. ASSUME NEW t \in Square, Toward(s, d, n, t), NEW j \in 0 .. (n - 1)
      PROVE  safe_destination(s + j * d, d) # {}
  <2>1. CASE j = 0
    <3>1. s + j * d = s
      BY <2>1, Coordinates DEF KingSteps, RookDirections, BishopDirections
    <3>2. \E u \in Square : Toward(s, d, 1, u)
      BY <1>2, StepBefore
    <3>. QED
      BY <3>1, <3>2, OneStep
  <2>2. CASE j # 0
    <3>1. j \in 1 .. n /\ j + 1 \in 1 .. n /\ j \in 1 .. 6 /\ j \in 1 .. 7
      BY <2>2
    <3>2. PICK u \in Square : Toward(s, d, j, u)
      BY <1>2, <3>1, StepBefore
    <3>3. PICK v \in Square : Toward(s, d, j + 1, v)
      BY <1>2, <3>1, StepBefore
    <3>4. Toward(u, d, 1, v) /\ u = s + j * d
      BY <3>1, <3>2, <3>3, StepOn, Lands
    <3>. QED
      BY <3>4, OneStep
  <2>. QED
    BY <2>1, <2>2
<1>3. ASSUME \A j \in 0 .. (n - 1) : safe_destination(s + j * d, d) # {}
      PROVE  \E t \in Square : Toward(s, d, n, t)
  <2>. DEFINE S == {j \in 1 .. n : \E t \in Square : Toward(s, d, j, t)}
  <2>1. 1 \in S
    <3>1. s + 0 * d = s
      BY Coordinates DEF KingSteps, RookDirections, BishopDirections
    <3>2. safe_destination(s, d) # {}
      BY <1>3, <3>1
    <3>. QED
      BY <3>2, OneStep
  <2>2. ASSUME NEW j \in 1 .. (n - 1), j \in S PROVE j + 1 \in S
    <3>1. PICK t \in Square : Toward(s, d, j, t)
      BY <2>2
    <3>2. t = s + j * d /\ j \in 1 .. 6 /\ j \in 0 .. (n - 1) /\ j + 1 \in 1 .. n
      BY <3>1, Lands
    <3>3. PICK u \in Square : Toward(t, d, 1, u)
      BY <1>3, <3>2, OneStep
    <3>4. Toward(s, d, j + 1, u)
      BY <3>1, <3>2, <3>3, StepOn
    <3>. QED
      BY <3>2, <3>4
  <2>3. 1 .. n \subseteq S
    BY <2>1, <2>2, UpFrom
  <2>4. n \in S
    BY <2>3
  <2>. QED
    BY <2>4
<1>. QED
  BY <1>1, <1>2, <1>3

(* x lies between s and t, on a line with them; what a slider needs.       *)
Inside(s, t, x) ==
  \E d \in KingSteps, n \in 1 .. 7, j \in 1 .. 7 : j < n /\ Toward(s, d, n, t) /\ Toward(s, d, j, x)
Aligned(pt, s, t) == \E d \in SlideDirections(pt), n \in 1 .. 7 : Toward(s, d, n, t)
Clear(s, t, occupied) == \A x \in Square : Inside(s, t, x) => x \notin occupied
OnLine(s, t, z) ==
  \E d \in KingSteps, n \in 1 .. 7 :
    /\ Toward(s, d, n, t)
    /\ z = s \/ \E j \in 1 .. 7 : Toward(s, d, j, z) \/ Toward(s, -d, j, z)

(* The directions of the sliding pieces, each with its opposite.           *)
LEMMA Directions ==
  /\ KingSteps = {1, -1, 8, -8, 9, -9, 7, -7}
  /\ \A pt : SlideDirections(pt) \subseteq KingSteps
  /\ \A pt : \A d \in SlideDirections(pt) : -d \in SlideDirections(pt)
  /\ \A d \in KingSteps : -d \in KingSteps
  /\ SlideDirections(ROOK) = {1, -1, 8, -8}
  /\ SlideDirections(BISHOP) = {9, -9, 7, -7}
  /\ SlideDirections(QUEEN) = KingSteps
<1>1. \A pt : SlideDirections(pt) = IF pt = ROOK THEN RookDirections
                                    ELSE IF pt = BISHOP THEN BishopDirections ELSE KingSteps
  BY DEF SlideDirections, ROOK, BISHOP
<1>2. RookDirections = {1, -1, 8, -8} /\ BishopDirections = {9, -9, 7, -7}
  BY DEF RookDirections, BishopDirections
<1>3. KingSteps = {1, -1, 8, -8, 9, -9, 7, -7}
  BY <1>2 DEF KingSteps
<1>4. \A d \in KingSteps : -d \in KingSteps
  BY <1>3
<1>5. ASSUME NEW pt PROVE SlideDirections(pt) \subseteq KingSteps
                          /\ \A d \in SlideDirections(pt) : -d \in SlideDirections(pt)
  <2>1. RookDirections \subseteq KingSteps /\ BishopDirections \subseteq KingSteps
    BY DEF KingSteps
  <2>2. (\A d \in RookDirections : -d \in RookDirections) /\ (\A d \in BishopDirections : -d \in BishopDirections)
    <3>1. \A d \in {1, -1, 8, -8} : -d \in {1, -1, 8, -8}
      OBVIOUS
    <3>2. \A d \in {9, -9, 7, -7} : -d \in {9, -9, 7, -7}
      OBVIOUS
    <3>. QED
      BY <1>2, <3>1, <3>2
  <2>3. SlideDirections(pt) \in {RookDirections, BishopDirections, KingSteps}
    BY <1>1
  <2>. QED
    BY <2>1, <2>2, <2>3, <1>4
<1>6. SlideDirections(ROOK) = RookDirections /\ SlideDirections(BISHOP) = BishopDirections
      /\ SlideDirections(QUEEN) = KingSteps
  BY <1>1 DEF ROOK, BISHOP, QUEEN
<1>. QED
  BY <1>2, <1>3, <1>4, <1>5, <1>6

(* One direction and one distance lead from a square to another.           *)
LEMMA OneWay ==
  ASSUME NEW s \in Square, NEW t \in Square, NEW d \in KingSteps, NEW e \in KingSteps,
         NEW n, NEW j, Toward(s, d, n, t), Toward(s, e, j, t)
  PROVE  d = e /\ n = j
<1>1. /\ F(s) \in Int /\ R(s) \in Int /\ F(t) \in Int /\ R(t) \in Int
  BY Coordinates
<1>2. n \in 1 .. 7 /\ j \in 1 .. 7
  BY DEF Toward
<1>. QED
  BY <1>1, <1>2 DEF Toward

(* n steps in a direction lead to one place.                               *)
LEMMA OnePlace ==
  ASSUME NEW s \in Square, NEW t \in Square, NEW u \in Square, NEW d \in KingSteps,
         NEW n, Toward(s, d, n, t), Toward(s, d, n, u)
  PROVE  t = u
<1>1. F(t) = F(u) /\ R(t) = R(u)
  BY DEF Toward
<1>. QED
  BY <1>1, Same

(* No way leads back to where it started.                                  *)
LEMMA NotHere ==
  ASSUME NEW s \in Square, NEW d, NEW n
  PROVE  ~Toward(s, d, n, s)
<1>1. F(s) \in Int /\ R(s) \in Int
  BY Coordinates
<1>. QED
  BY <1>1 DEF Toward

(* The way back goes in the opposite direction.                            *)
LEMMA Reversed ==
  ASSUME NEW s \in Square, NEW t \in Square, NEW d \in KingSteps, NEW n, Toward(s, d, n, t)
  PROVE  Toward(t, -d, n, s)
<1>1. /\ F(s) \in Int /\ R(s) \in Int /\ F(t) \in Int /\ R(t) \in Int
  BY Coordinates
<1>2. n \in 1 .. 7
  BY DEF Toward
<1>. QED
  BY <1>1, <1>2 DEF Toward

(* x is as far behind t as the rest of the way.                            *)
LEMMA Rest ==
  ASSUME NEW s \in Square, NEW t \in Square, NEW x \in Square, NEW d \in KingSteps, NEW n, NEW j,
         Toward(s, d, n, t), Toward(s, d, j, x), j < n
  PROVE  Toward(x, d, n - j, t) /\ Toward(t, -d, n - j, x)
<1>1. /\ F(s) \in Int /\ R(s) \in Int /\ F(t) \in Int /\ R(t) \in Int /\ F(x) \in Int /\ R(x) \in Int
  BY Coordinates
<1>2. n \in 1 .. 7 /\ j \in 1 .. 7
  BY DEF Toward
<1>3. Toward(x, d, n - j, t)
  BY <1>1, <1>2 DEF Toward
<1>. QED
  BY <1>3, Reversed

(* Between s and t is between t and s.                                     *)
LEMMA InsideSym ==
  ASSUME NEW s \in Square, NEW t \in Square, NEW x \in Square
  PROVE  Inside(s, t, x) <=> Inside(t, s, x)
<1>1. ASSUME NEW a \in Square, NEW b \in Square, Inside(a, b, x) PROVE Inside(b, a, x)
  <2>1. PICK d \in KingSteps, n \in 1 .. 7, j \in 1 .. 7 : j < n /\ Toward(a, d, n, b) /\ Toward(a, d, j, x)
    BY <1>1 DEF Inside
  <2>2. Toward(b, -d, n, a) /\ Toward(b, -d, n - j, x) /\ -d \in KingSteps
    BY <2>1, Rest, Reversed, Directions
  <2>3. n - j \in 1 .. 7 /\ n - j < n
    BY <2>1
  <2>. QED
    BY <2>2, <2>3 DEF Inside
<1>. QED
  BY <1>1

(* Being on a line of a sliding piece is symmetric.                        *)
LEMMA AlignedSym ==
  ASSUME NEW s \in Square, NEW t \in Square, NEW pt
  PROVE  Aligned(pt, s, t) <=> Aligned(pt, t, s)
<1>1. ASSUME NEW a \in Square, NEW b \in Square, Aligned(pt, a, b) PROVE Aligned(pt, b, a)
  <2>1. PICK d \in SlideDirections(pt), n \in 1 .. 7 : Toward(a, d, n, b)
    BY <1>1 DEF Aligned
  <2>2. Toward(b, -d, n, a) /\ -d \in SlideDirections(pt)
    BY <2>1, Reversed, Directions
  <2>. QED
    BY <2>2 DEF Aligned
<1>. QED
  BY <1>1

(* The squares between s and t are those passed on the way from s to t.    *)
LEMMA InsideWay ==
  ASSUME NEW s \in Square, NEW t \in Square, NEW x \in Square, NEW d \in KingSteps, NEW n, Toward(s, d, n, t)
  PROVE  Inside(s, t, x) <=> \E j \in 1 .. 7 : j < n /\ Toward(s, d, j, x)
<1>1. n \in 1 .. 7
  BY DEF Toward
<1>. QED
  BY <1>1, OneWay DEF Inside

(* sliding_attack finds the squares on a line with s with nothing in       *)
(* between.                                                                *)
LEMMA SlidingIs ==
  ASSUME NEW pt, NEW s \in Square, NEW occupied, NEW t
  PROVE  t \in sliding_attack(pt, s, occupied) <=> t \in Square /\ Aligned(pt, s, t) /\ Clear(s, t, occupied)
<1>1. t \in sliding_attack(pt, s, occupied)
        <=> \E d \in SlideDirections(pt) : \E n \in Reach[d][s] :
              t = s + n * d /\ \A j \in 1 .. (n - 1) : s + j * d \notin occupied
  BY DEF sliding_attack, Seen
<1>2. \A d \in KingSteps : Reach[d][s] \subseteq 1 .. 7
  BY DEF Reach
<1>3. ASSUME NEW d \in KingSteps, NEW n \in 1 .. 7, NEW u \in Square, Toward(s, d, n, u)
      PROVE  (\A j \in 1 .. (n - 1) : s + j * d \notin occupied) <=> Clear(s, u, occupied)
  <2>1. \A x \in Square : Inside(s, u, x) <=> \E j \in 1 .. (n - 1) : Toward(s, d, j, x)
    <3>1. \A j \in Int : (j \in 1 .. 7 /\ j < n) <=> j \in 1 .. (n - 1)
      OBVIOUS
    <3>. QED
      BY <1>3, <3>1, InsideWay
  <2>2. ASSUME NEW j \in 1 .. (n - 1) PROVE s + j * d \in Square /\ Toward(s, d, j, s + j * d)
    <3>1. j \in 1 .. n /\ j \in 1 .. 7
      OBVIOUS
    <3>2. PICK x \in Square : Toward(s, d, j, x)
      BY <1>3, <3>1, StepBefore
    <3>. QED
      BY <3>1, <3>2, Lands
  <2>3. ASSUME NEW j \in 1 .. (n - 1), NEW x \in Square, Toward(s, d, j, x) PROVE x = s + j * d
    BY <2>3, <2>2, OnePlace
  <2>. QED
    BY <2>1, <2>2, <2>3 DEF Clear
<1>4. ASSUME NEW d \in SlideDirections(pt), NEW n \in Reach[d][s], t = s + n * d,
             \A j \in 1 .. (n - 1) : s + j * d \notin occupied
      PROVE  t \in Square /\ Aligned(pt, s, t) /\ Clear(s, t, occupied)
  <2>1. d \in KingSteps /\ n \in 1 .. 7
    BY <1>2, Directions
  <2>2. PICK u \in Square : Toward(s, d, n, u)
    BY <2>1, ReachIs
  <2>3. u = t
    BY <1>4, <2>1, <2>2, Lands
  <2>. QED
    BY <1>3, <1>4, <2>1, <2>2, <2>3 DEF Aligned
<1>5. ASSUME t \in Square, Aligned(pt, s, t), Clear(s, t, occupied)
      PROVE  \E d \in SlideDirections(pt) : \E n \in Reach[d][s] :
               t = s + n * d /\ \A j \in 1 .. (n - 1) : s + j * d \notin occupied
  <2>1. PICK d \in SlideDirections(pt), n \in 1 .. 7 : Toward(s, d, n, t)
    BY <1>5 DEF Aligned
  <2>2. d \in KingSteps
    BY Directions
  <2>3. n \in Reach[d][s] /\ t = s + n * d
    BY <1>5, <2>1, <2>2, ReachIs, Lands
  <2>. QED
    BY <1>3, <1>5, <2>1, <2>2, <2>3
<1>. QED
  BY <1>1, <1>4, <1>5

(* Of three squares on lines of a rook, or of a bishop, two of the lines   *)
(* are the same.                                                           *)
LEMMA SameLine ==
  ASSUME NEW s \in Square, NEW t \in Square, NEW z \in Square,
         NEW pt \in {ROOK, BISHOP}, NEW d \in SlideDirections(pt), NEW e \in SlideDirections(pt),
         NEW f \in SlideDirections(pt), NEW n, NEW a, NEW b,
         Toward(s, d, n, t), Toward(s, e, a, z), Toward(t, f, b, z)
  PROVE  e = d \/ e = -d
<1>1. /\ F(s) \in Int /\ R(s) \in Int /\ F(t) \in Int /\ R(t) \in Int /\ F(z) \in Int /\ R(z) \in Int
  BY Coordinates
<1>2. n \in 1 .. 7 /\ a \in 1 .. 7 /\ b \in 1 .. 7
  BY DEF Toward
<1>3. CASE pt = ROOK
  <2>1. d \in {1, -1, 8, -8} /\ e \in {1, -1, 8, -8} /\ f \in {1, -1, 8, -8}
    BY <1>3, Directions
  <2>. QED
    BY <1>1, <1>2, <2>1 DEF Toward
<1>4. CASE pt = BISHOP
  <2>1. d \in {9, -9, 7, -7} /\ e \in {9, -9, 7, -7} /\ f \in {9, -9, 7, -7}
    BY <1>4, Directions
  <2>. QED
    BY <1>1, <1>2, <2>1 DEF Toward
<1>. QED
  BY <1>3, <1>4

(* Every line is a line of rooks or of bishops. *)
LEMMA SomeLine ==
  ASSUME NEW d \in KingSteps
  PROVE  \E pt \in {ROOK, BISHOP} : d \in SlideDirections(pt)
BY Directions

(* PseudoAttacks of a sliding piece: the squares on a line with s.         *)
LEMMA PseudoIs ==
  ASSUME NEW pt \in {BISHOP, ROOK, QUEEN}, NEW s \in Square, NEW t
  PROVE  t \in PseudoAttacks[pt][s] <=> t \in Square /\ Aligned(pt, s, t)
<1>1. PseudoAttacks[pt][s] = sliding_attack(pt, s, {})
  BY DEF PseudoAttacks, KNIGHT, BISHOP, ROOK, QUEEN, KING
<1>2. Clear(s, t, {})
  BY DEF Clear
<1>. QED
  BY <1>1, <1>2, SlidingIs

(* BetweenBB holds the squares between s and t, and t.                     *)
LEMMA BetweenIs ==
  ASSUME NEW s \in Square, NEW t \in Square, NEW x
  PROVE  x \in BetweenBB[s][t] <=> x = t \/ (x \in Square /\ Inside(s, t, x))
<1>1. x \in BetweenBB[s][t]
        <=> x = t \/ \E pt \in {ROOK, BISHOP} :
              /\ t \in PseudoAttacks[pt][s]
              /\ x \in sliding_attack(pt, s, {t}) /\ x \in sliding_attack(pt, t, {s})
  BY DEF BetweenBB, AlignedAs
<1>2. ASSUME NEW pt \in {ROOK, BISHOP}, t \in PseudoAttacks[pt][s],
             x \in sliding_attack(pt, s, {t}), x \in sliding_attack(pt, t, {s})
      PROVE  x \in Square /\ Inside(s, t, x)
  <2>1. x \in Square /\ Aligned(pt, s, t) /\ Aligned(pt, s, x) /\ Aligned(pt, t, x)
        /\ ~Inside(s, x, t) /\ ~Inside(t, x, s)
    <3>1. pt \in {BISHOP, ROOK, QUEEN}
      OBVIOUS
    <3>2. x \in Square /\ Aligned(pt, s, x) /\ Aligned(pt, t, x) /\ Clear(s, x, {t}) /\ Clear(t, x, {s})
      BY <1>2, SlidingIs
    <3>3. Aligned(pt, s, t)
      BY <1>2, <3>1, PseudoIs
    <3>. QED
      BY <3>2, <3>3 DEF Clear
  <2>2. PICK d \in SlideDirections(pt), n \in 1 .. 7 : Toward(s, d, n, t)
    BY <2>1 DEF Aligned
  <2>3. PICK e \in SlideDirections(pt), a \in 1 .. 7 : Toward(s, e, a, x)
    BY <2>1 DEF Aligned
  <2>4. PICK f \in SlideDirections(pt), b \in 1 .. 7 : Toward(t, f, b, x)
    BY <2>1 DEF Aligned
  <2>5. d \in KingSteps /\ e \in KingSteps /\ f \in KingSteps /\ -d \in KingSteps
    BY Directions
  <2>6. e = d \/ e = -d
    BY <2>1, <2>2, <2>3, <2>4, SameLine
  <2>7. CASE e = d
    <3>1. a # n
      BY <2>1, <2>2, <2>3, <2>4, <2>5, <2>7, OnePlace, NotHere
    <3>2. ~(n < a)
      BY <2>1, <2>2, <2>3, <2>5, <2>7 DEF Inside
    <3>3. a < n
      BY <3>1, <3>2
    <3>. QED
      BY <2>1, <2>2, <2>3, <2>5, <2>7, <3>3 DEF Inside
  <2>8. CASE e = -d
    <3>1. Toward(t, -d, n, s)
      BY <2>2, <2>5, Reversed
    <3>2. Toward(t, -d, n + a, x)
      <4>1. /\ F(s) \in 0 .. 7 /\ R(s) \in 0 .. 7 /\ F(t) \in 0 .. 7 /\ R(t) \in 0 .. 7 /\ F(x) \in 0 .. 7 /\ R(x) \in 0 .. 7
        BY <2>1, Coordinates
      <4>2. Toward(s, d, n, t) /\ Toward(s, -d, a, x)
        BY <2>2, <2>3, <2>8
      <4>3. n + a \in 1 .. 7
        <5>1. d \in {1, -1, 8, -8, 9, -9, 7, -7}
          BY <2>5, Directions
        <5>2. CASE d = 1
          BY <4>1, <4>2, <5>2 DEF Toward
        <5>3. CASE d = -1
          BY <4>1, <4>2, <5>3 DEF Toward
        <5>4. CASE d = 8
          BY <4>1, <4>2, <5>4 DEF Toward
        <5>5. CASE d = -8
          BY <4>1, <4>2, <5>5 DEF Toward
        <5>6. CASE d = 9
          BY <4>1, <4>2, <5>6 DEF Toward
        <5>7. CASE d = -9
          BY <4>1, <4>2, <5>7 DEF Toward
        <5>8. CASE d = 7
          BY <4>1, <4>2, <5>8 DEF Toward
        <5>9. CASE d = -7
          BY <4>1, <4>2, <5>9 DEF Toward
        <5>. QED
          BY <5>1, <5>2, <5>3, <5>4, <5>5, <5>6, <5>7, <5>8, <5>9
      <4>. QED
        BY <4>1, <4>2, <4>3, <2>5, Directions DEF Toward
    <3>3. n + a \in 1 .. 7 /\ n < n + a
      BY <3>2 DEF Toward
    <3>4. Inside(t, x, s)
      BY <2>5, <3>1, <3>2, <3>3 DEF Inside
    <3>. QED
      BY <2>1, <3>4
  <2>. QED
    BY <2>6, <2>7, <2>8
<1>3. ASSUME x \in Square, Inside(s, t, x)
      PROVE  \E pt \in {ROOK, BISHOP} :
              /\ t \in PseudoAttacks[pt][s]
              /\ x \in sliding_attack(pt, s, {t}) /\ x \in sliding_attack(pt, t, {s})
  <2>1. PICK d \in KingSteps, n \in 1 .. 7, j \in 1 .. 7 : j < n /\ Toward(s, d, n, t) /\ Toward(s, d, j, x)
    BY <1>3 DEF Inside
  <2>2. PICK pt \in {ROOK, BISHOP} : d \in SlideDirections(pt)
    BY SomeLine
  <2>3. Toward(t, -d, n, s) /\ Toward(t, -d, n - j, x) /\ n - j \in 1 .. 7 /\ n - j < n
    BY <1>3, <2>1, Reversed, Rest
  <2>4. Aligned(pt, s, t) /\ Aligned(pt, s, x) /\ Aligned(pt, t, x)
    BY <2>1, <2>2, <2>3, Directions DEF Aligned
  <2>5. ~Inside(s, x, t)
    BY <1>3, <2>1, InsideWay, OneWay
  <2>6. ~Inside(t, x, s)
    BY <1>3, <2>3, InsideWay, OneWay, Directions
  <2>7. x \in sliding_attack(pt, s, {t}) /\ x \in sliding_attack(pt, t, {s}) /\ t \in PseudoAttacks[pt][s]
    BY <1>3, <2>4, <2>5, <2>6, SlidingIs, PseudoIs DEF Clear
  <2>. QED
    BY <2>7
<1>. QED
  BY <1>1, <1>2, <1>3

(* LineBB holds only squares of the line through s and t.                  *)
LEMMA LineIs ==
  ASSUME NEW s \in Square, NEW t \in Square, NEW z \in LineBB[s][t]
  PROVE  z \in Square /\ OnLine(s, t, z)
<1>1. PICK pt \in {ROOK, BISHOP} :
        t \in PseudoAttacks[pt][s] /\ z \in (PseudoAttacks[pt][s] \cap PseudoAttacks[pt][t]) \cup {s, t}
  BY DEF LineBB, AlignedAs
<1>2. PICK d \in SlideDirections(pt), n \in 1 .. 7 : Toward(s, d, n, t)
  BY <1>1, PseudoIs DEF Aligned
<1>3. d \in KingSteps
  BY Directions
<1>4. CASE z = s
  BY <1>2, <1>3, <1>4 DEF OnLine
<1>5. CASE z = t
  BY <1>2, <1>3, <1>5 DEF OnLine
<1>6. CASE z \in PseudoAttacks[pt][s] /\ z \in PseudoAttacks[pt][t]
  <2>1. z \in Square /\ Aligned(pt, s, z) /\ Aligned(pt, t, z)
    BY <1>6, PseudoIs
  <2>2. PICK e \in SlideDirections(pt), a \in 1 .. 7 : Toward(s, e, a, z)
    BY <2>1 DEF Aligned
  <2>3. PICK f \in SlideDirections(pt), b \in 1 .. 7 : Toward(t, f, b, z)
    BY <2>1 DEF Aligned
  <2>4. e = d \/ e = -d
    BY <1>2, <2>1, <2>2, <2>3, SameLine
  <2>. QED
    BY <1>2, <1>3, <2>1, <2>2, <2>4 DEF OnLine
<1>. QED
  BY <1>1, <1>4, <1>5, <1>6

------------------------------------------------------------------------------
(* The attacks of those that do not slide.                                 *)

Near(s, t) == F(t) - F(s) \in -1 .. 1 /\ R(t) - R(s) \in -1 .. 1 /\ s # t
Jumps(s, t) ==
  \/ F(t) - F(s) \in {-1, 1} /\ R(t) - R(s) \in {-2, 2}
  \/ F(t) - F(s) \in {-2, 2} /\ R(t) - R(s) \in {-1, 1}
Strikes(c, s, t) == F(t) - F(s) \in {-1, 1} /\ R(t) - R(s) = IF c = WHITE THEN 1 ELSE -1

(* PseudoAttacks of a king.                                                *)
LEMMA KingIs ==
  ASSUME NEW s \in Square, NEW t
  PROVE  t \in PseudoAttacks[KING][s] <=> t \in Square /\ Near(s, t)
<1>1. t \in PseudoAttacks[KING][s] <=> \E d \in KingSteps : t \in safe_destination(s, d)
  BY DEF PseudoAttacks, StepAttacks, KNIGHT, BISHOP, ROOK, QUEEN, KING
<1>2. \A d : safe_destination(s, d) \subseteq Square
  BY DEF safe_destination
<1>3. t \in PseudoAttacks[KING][s] <=> t \in Square /\ \E d \in KingSteps : Toward(s, d, 1, t)
  BY <1>1, <1>2, OneStep
<1>4. ASSUME t \in Square PROVE (\E d \in KingSteps : Toward(s, d, 1, t)) <=> Near(s, t)
  <2>1. /\ F(s) \in Int /\ R(s) \in Int /\ F(t) \in Int /\ R(t) \in Int
    BY <1>4, Coordinates
  <2>2. ASSUME NEW d \in KingSteps, Toward(s, d, 1, t) PROVE Near(s, t)
    <3>1. s # t
      BY <2>2, NotHere
    <3>. QED
      BY <2>1, <2>2, <3>1 DEF Near, Toward
  <2>3. ASSUME Near(s, t) PROVE \E d \in KingSteps : Toward(s, d, 1, t)
    <3>1. F(s) # F(t) \/ R(s) # R(t)
      BY <1>4, <2>3, Same DEF Near
    <3>. QED
      BY <2>1, <2>3, <3>1, Directions DEF Near, Toward
  <2>. QED
    BY <2>2, <2>3
<1>. QED
  BY <1>3, <1>4

(* PseudoAttacks of a knight.                                              *)
LEMMA KnightIs ==
  ASSUME NEW s \in Square, NEW t
  PROVE  t \in PseudoAttacks[KNIGHT][s] <=> t \in Square /\ Jumps(s, t)
<1>1. t \in PseudoAttacks[KNIGHT][s] <=> \E d \in KnightSteps : t \in safe_destination(s, d)
  BY DEF PseudoAttacks, StepAttacks, KNIGHT, BISHOP, ROOK, QUEEN, KING
<1>2. \A d : t \in safe_destination(s, d) <=> t \in Square /\ t = s + d /\ Abs(F(s) - F(t)) <= 2
  BY DEF safe_destination, F
<1>3. ASSUME t \in Square
      PROVE  (\E d \in KnightSteps : t = s + d /\ Abs(F(s) - F(t)) <= 2) <=> Jumps(s, t)
  <2>1. /\ F(s) \in 0 .. 7 /\ R(s) \in 0 .. 7 /\ F(t) \in 0 .. 7 /\ R(t) \in 0 .. 7
        /\ s = 8 * R(s) + F(s) /\ t = 8 * R(t) + F(t)
    BY <1>3, Coordinates
  <2>. QED
    BY <2>1 DEF Jumps, KnightSteps, Abs
<1>. QED
  BY <1>1, <1>2, <1>3

(* PawnAttacks.                                                            *)
LEMMA PawnIs ==
  ASSUME NEW c \in Color, NEW s \in Square, NEW t
  PROVE  t \in PawnAttacks[c][s] <=> t \in Square /\ Strikes(c, s, t)
<1>1. t \in PawnAttacks[c][s] <=> \E d \in PawnSteps(c) : t \in safe_destination(s, d)
  BY DEF PawnAttacks, StepAttacks
<1>2. \A d : t \in safe_destination(s, d) <=> t \in Square /\ t = s + d /\ Abs(F(s) - F(t)) <= 2
  BY DEF safe_destination, F
<1>3. ASSUME t \in Square
      PROVE  (\E d \in PawnSteps(c) : t = s + d /\ Abs(F(s) - F(t)) <= 2) <=> Strikes(c, s, t)
  <2>1. /\ F(s) \in 0 .. 7 /\ R(s) \in 0 .. 7 /\ F(t) \in 0 .. 7 /\ R(t) \in 0 .. 7
        /\ s = 8 * R(s) + F(s) /\ t = 8 * R(t) + F(t)
    BY <1>3, Coordinates
  <2>2. \A a, b \in 0 .. 7 : Abs(a - b) <= 2 <=> a - b \in -2 .. 2
    BY DEF Abs
  <2>3. Abs(F(s) - F(t)) <= 2 <=> F(s) - F(t) \in -2 .. 2
    BY <2>1, <2>2
  <2>4. CASE c = WHITE
    <3>1. PawnSteps(c) = {7, 9}
      BY <2>4 DEF PawnSteps
    <3>. QED
      BY <2>1, <2>3, <2>4, <3>1 DEF Strikes
  <2>5. CASE c # WHITE
    <3>1. PawnSteps(c) = {-7, -9}
      BY <2>5 DEF PawnSteps
    <3>. QED
      BY <2>1, <2>3, <2>5, <3>1 DEF Strikes
  <2>. QED
    BY <2>4, <2>5
<1>. QED
  BY <1>1, <1>2, <1>3

(* Kings and knights attack each other mutually, pawns those of the other  *)
(* color.                                                                  *)
LEMMA StepsSym ==
  ASSUME NEW s \in Square, NEW t \in Square
  PROVE  /\ Near(s, t) <=> Near(t, s)
         /\ Jumps(s, t) <=> Jumps(t, s)
         /\ \A c \in Color : Strikes(c, s, t) <=> Strikes(Them(c), t, s)
<1>1. /\ F(s) \in Int /\ R(s) \in Int /\ F(t) \in Int /\ R(t) \in Int
  BY Coordinates
<1>. QED
  BY <1>1 DEF Near, Jumps, Strikes, Color, Them, WHITE, BLACK

-------------------------------------------------------------------------------
(***************************************************************************)
(* Boards, their operations, keys and counts.                              *)
(***************************************************************************)
(* A piece is its color and its type, packed and unpacked.                 *)
LEMMA Pieces ==
  /\ \A c \in Color, pt \in PieceType :
        /\ make_piece(c, pt) \in Piece /\ type_of(make_piece(c, pt)) = pt /\ color_of(make_piece(c, pt)) = c
  /\ \A pc \in Piece : /\ type_of(pc) \in PieceType /\ color_of(pc) \in Color /\ pc # NO_PIECE
                       /\ pc = make_piece(color_of(pc), type_of(pc)) /\ pc \in 1 .. 15
  /\ PieceType = 1 .. 6 /\ Color = {0, 1} /\ type_of(NO_PIECE) = 0
  /\ \A c \in Color : Them(c) \in Color /\ Them(Them(c)) = c /\ Them(c) # c
<1>1. \A c \in {0, 1}, pt \in 1 .. 6 : (8 * c + pt) % 8 = pt /\ (8 * c + pt) \div 8 = c
  OBVIOUS
<1>2. PieceType = 1 .. 6 /\ Color = {0, 1}
  BY DEF PieceType, Color, WHITE, BLACK, PAWN, KING
<1>3. \A c \in Color, pt \in PieceType :
        /\ make_piece(c, pt) \in Piece /\ type_of(make_piece(c, pt)) = pt /\ color_of(make_piece(c, pt)) = c
  BY <1>1, <1>2 DEF make_piece, type_of, color_of, Piece
<1>4. ASSUME NEW pc \in Piece
      PROVE  /\ type_of(pc) \in PieceType /\ color_of(pc) \in Color /\ pc # NO_PIECE
             /\ pc = make_piece(color_of(pc), type_of(pc)) /\ pc \in 1 .. 15
  <2>1. PICK c \in Color, pt \in PieceType : pc = make_piece(c, pt)
    BY DEF Piece
  <2>2. pc = 8 * c + pt /\ c \in {0, 1} /\ pt \in 1 .. 6
    BY <2>1, <1>2 DEF make_piece
  <2>3. type_of(pc) = pt /\ color_of(pc) = c
    BY <2>1, <1>3
  <2>4. pc \in 1 .. 15 /\ pc # NO_PIECE
    BY <2>2 DEF NO_PIECE
  <2>. QED
    BY <2>1, <2>3, <2>4
<1>5. type_of(NO_PIECE) = 0
  BY DEF type_of, NO_PIECE
<1>6. \A c \in Color : Them(c) \in Color /\ Them(Them(c)) = c /\ Them(c) # c
  BY <1>2 DEF Them
<1>. QED
  BY <1>2, <1>3, <1>4, <1>5, <1>6

(* The pieces on squares. *)
IsBoard(b) ==
  /\ DOMAIN b \subseteq Square
  /\ b = [s \in DOMAIN b |-> b[s]]
  /\ \A s \in DOMAIN b : b[s] \in Piece
PawnsPlaced(b) == \A s \in DOMAIN b : type_of(b[s]) = PAWN => R(s) \in 1 .. 6
KingAt(b, c, k) ==
  /\ k \in DOMAIN b /\ b[k] = make_piece(c, KING)
  /\ \A s \in DOMAIN b : b[s] = make_piece(c, KING) => s = k

(* square finds the king.                                                  *)
LEMMA KingSquare ==
  ASSUME NEW b, NEW c, NEW k, KingAt(b, c, k)
  PROVE  square(b, c) = k
<1>1. \A s : s \in DOMAIN b /\ b[s] = make_piece(c, KING) <=> s = k
  BY DEF KingAt
<1>. QED
  BY <1>1 DEF square

(* What put_piece and remove_piece do.                                     *)
PutOn(d, b, s, pc) ==
  /\ IsBoard(d) /\ DOMAIN d = DOMAIN b \cup {s} /\ d[s] = pc
  /\ \A t \in DOMAIN b : t # s => d[t] = b[t]
TakenOff(d, b, s) ==
  /\ IsBoard(d) /\ DOMAIN d = DOMAIN b \ {s} /\ \A t \in DOMAIN b \ {s} : d[t] = b[t]
  /\ s \notin DOMAIN b => d = b

(* remove_piece takes one piece off and leaves the others.                 *)
LEMMA Removed ==
  ASSUME NEW b, IsBoard(b), NEW s
  PROVE  TakenOff(Without(b, s), b, s)
<1>1. DOMAIN Without(b, s) = DOMAIN b \ {s} /\ \A t \in DOMAIN b \ {s} : Without(b, s)[t] = b[t]
  BY DEF Without
<1>2. IsBoard(Without(b, s))
  <2>1. Without(b, s) = [t \in DOMAIN Without(b, s) |-> Without(b, s)[t]]
    BY DEF Without
  <2>. QED
    BY <1>1, <2>1 DEF IsBoard
<1>3. ASSUME s \notin DOMAIN b PROVE Without(b, s) = b
  <2>1. DOMAIN b \ {s} = DOMAIN b
    BY <1>3
  <2>2. Without(b, s) = [t \in DOMAIN b |-> b[t]]
    BY <2>1 DEF Without
  <2>. QED
    BY <2>2 DEF IsBoard
<1>. QED
  BY <1>1, <1>2, <1>3 DEF TakenOff

(* put_piece puts one piece on and leaves the others.                      *)
LEMMA Put ==
  ASSUME NEW b, IsBoard(b), NEW s \in Square, NEW pc \in Piece
  PROVE  PutOn(With(b, s, pc), b, s, pc)
<1>1. /\ DOMAIN With(b, s, pc) = DOMAIN b \cup {s}
      /\ With(b, s, pc)[s] = pc /\ \A t \in DOMAIN b : t # s => With(b, s, pc)[t] = b[t]
  BY DEF With
<1>2. With(b, s, pc) = [t \in DOMAIN With(b, s, pc) |-> With(b, s, pc)[t]]
  BY DEF With
<1>. QED
  BY <1>1, <1>2 DEF IsBoard, PutOn

(* Boards with the same pieces on the same squares are one.                *)
LEMMA SameBoard ==
  ASSUME NEW b, NEW d, IsBoard(b), IsBoard(d), DOMAIN b = DOMAIN d, \A s \in DOMAIN b : b[s] = d[s]
  PROVE  b = d
<1>1. b = [s \in DOMAIN b |-> b[s]] /\ d = [s \in DOMAIN d |-> d[s]]
  BY DEF IsBoard
<1>2. [s \in DOMAIN b |-> b[s]] = [s \in DOMAIN d |-> d[s]]
  OBVIOUS
<1>. QED
  BY <1>1, <1>2

------------------------------------------------------------------------------
(* Operations one after the other. *)

Carried(f, b, ops, n) == f = [i \in 0 .. n |-> IF i = 0 THEN b ELSE Apply(f[i - 1], ops[i])]
Runs(h, b, ops, n) ==
  Carry(b, ops) = h[n] /\ h[0] = b /\ \A i \in 1 .. n : h[i] = Apply(h[i - 1], ops[i])

(* Carry goes through the boards between the operations.                   *)
LEMMA CarryIs ==
  ASSUME NEW b, NEW ops, NEW n \in Nat, Len(ops) = n, NEW f, Carried(f, b, ops, n)
  PROVE  \E h : Runs(h, b, ops, n)
<1>. DEFINE Is(g) == g = [i \in 0 .. Len(ops) |-> IF i = 0 THEN b ELSE Apply(g[i - 1], ops[i])]
            h == CHOOSE g : Is(g)
<1>1. Is(f)
  BY DEF Carried
<1>2. Carry(b, ops) = h[n]
  BY DEF Carry
<1>3. Is(h)
  BY <1>1
<1>. HIDE DEF h
<1>4. h[0] = b /\ \A i \in 1 .. n : h[i] = Apply(h[i - 1], ops[i])
  <2>1. 0 \in 0 .. n /\ \A i \in 1 .. n : i \in 0 .. n /\ i # 0
    OBVIOUS
  <2>. QED
    BY <1>3, <2>1
<1>. QED
  BY <1>2, <1>4 DEF Runs

(* Carry of one operation.                                                 *)
LEMMA CarryOne ==
  ASSUME NEW b, NEW o1
  PROVE  Carry(b, <<o1>>) = Apply(b, o1)
<1>. DEFINE f == [i \in 0 .. 1 |-> IF i = 0 THEN b ELSE Apply(b, o1)]
            ops == <<o1>>
<1>1. Carried(f, b, ops, 1)
  BY DEF Carried
<1>2. Len(ops) = 1 /\ 1 \in Nat
  OBVIOUS
<1>. HIDE DEF f, ops
<1>3. PICK h : Runs(h, b, ops, 1)
  BY <1>1, <1>2, CarryIs
<1>4. h[1] = Apply(h[0], o1)
  BY <1>3 DEF ops, Runs
<1>. QED
  BY <1>3, <1>4 DEF ops, Runs

(* Carry of two operations.                                                *)
LEMMA CarryTwo ==
  ASSUME NEW b, NEW o1, NEW o2
  PROVE  Carry(b, <<o1, o2>>) = Apply(Apply(b, o1), o2)
<1>. DEFINE f == [i \in 0 .. 2 |-> IF i = 0 THEN b ELSE IF i = 1 THEN Apply(b, o1) ELSE Apply(Apply(b, o1), o2)]
            ops == <<o1, o2>>
<1>1. Carried(f, b, ops, 2)
  BY DEF Carried
<1>2. Len(ops) = 2 /\ 2 \in Nat
  OBVIOUS
<1>. HIDE DEF f, ops
<1>3. PICK h : Runs(h, b, ops, 2)
  BY <1>1, <1>2, CarryIs
<1>4. h[1] = Apply(h[0], o1) /\ h[2] = Apply(h[1], o2)
  BY <1>3 DEF ops, Runs
<1>. QED
  BY <1>3, <1>4 DEF ops, Runs

(* Carry of three operations.                                              *)
LEMMA CarryThree ==
  ASSUME NEW b, NEW o1, NEW o2, NEW o3
  PROVE  Carry(b, <<o1, o2, o3>>) = Apply(Apply(Apply(b, o1), o2), o3)
<1>. DEFINE f == [i \in 0 .. 3 |-> IF i = 0 THEN b ELSE IF i = 1 THEN Apply(b, o1)
                                 ELSE IF i = 2 THEN Apply(Apply(b, o1), o2)
                                 ELSE Apply(Apply(Apply(b, o1), o2), o3)]
            ops == <<o1, o2, o3>>
<1>1. Carried(f, b, ops, 3)
  BY DEF Carried
<1>2. Len(ops) = 3 /\ 3 \in Nat
  OBVIOUS
<1>. HIDE DEF f, ops
<1>3. PICK h : Runs(h, b, ops, 3)
  BY <1>1, <1>2, CarryIs
<1>4. h[1] = Apply(h[0], o1) /\ h[2] = Apply(h[1], o2) /\ h[3] = Apply(h[2], o3)
  BY <1>3 DEF ops, Runs
<1>. QED
  BY <1>3, <1>4 DEF ops, Runs

(* Carry of four operations.                                               *)
LEMMA CarryFour ==
  ASSUME NEW b, NEW o1, NEW o2, NEW o3, NEW o4
  PROVE  Carry(b, <<o1, o2, o3, o4>>) = Apply(Apply(Apply(Apply(b, o1), o2), o3), o4)
<1>. DEFINE f == [i \in 0 .. 4 |-> IF i = 0 THEN b ELSE IF i = 1 THEN Apply(b, o1)
                                 ELSE IF i = 2 THEN Apply(Apply(b, o1), o2)
                                 ELSE IF i = 3 THEN Apply(Apply(Apply(b, o1), o2), o3)
                                 ELSE Apply(Apply(Apply(Apply(b, o1), o2), o3), o4)]
            ops == <<o1, o2, o3, o4>>
<1>1. Carried(f, b, ops, 4)
  BY DEF Carried
<1>2. Len(ops) = 4 /\ 4 \in Nat
  OBVIOUS
<1>. HIDE DEF f, ops
<1>3. PICK h : Runs(h, b, ops, 4)
  BY <1>1, <1>2, CarryIs
<1>4. h[1] = Apply(h[0], o1) /\ h[2] = Apply(h[1], o2) /\ h[3] = Apply(h[2], o3) /\ h[4] = Apply(h[3], o4)
  BY <1>3 DEF ops, Runs
<1>. QED
  BY <1>3, <1>4 DEF ops, Runs

------------------------------------------------------------------------------
(* Keys and counts as pieces go and come. *)

QKey(b, Q) == KeyOf(b, {s \in DOMAIN b : b[s] \in Q})
Holds(b, pc) == {s \in DOMAIN b : b[s] = pc}

(* A term is in the combination of two keys if it is in exactly one.       *)
LEMMA Xor ==
  ASSUME NEW x, NEW y, NEW e
  PROVE  e \in (x ++ y) <=> ~(e \in x <=> e \in y)
BY DEF ++

(* The terms of a key over a set of pieces.                                *)
LEMMA InKey ==
  ASSUME NEW b, NEW Q, NEW e
  PROVE  e \in QKey(b, Q) <=> \E s \in DOMAIN b : b[s] \in Q /\ e = <<b[s], s>>
BY DEF QKey, KeyOf

(* Removing a piece changes a key by its term.                             *)
LEMMA KeyRemoved ==
  ASSUME NEW b, IsBoard(b), NEW s \in DOMAIN b, NEW Q
  PROVE  QKey(Without(b, s), Q) = QKey(b, Q) ++ When(b[s] \in Q, {<<b[s], s>>})
<1>. DEFINE d == Without(b, s)
<1>1. DOMAIN d = DOMAIN b \ {s} /\ \A t \in DOMAIN b \ {s} : d[t] = b[t]
  BY Removed DEF TakenOff
<1>. HIDE DEF d
<1>2. ASSUME NEW e PROVE e \in QKey(d, Q) <=> e \in QKey(b, Q) /\ e # <<b[s], s>>
  <2>1. e \in QKey(d, Q) <=> \E t \in DOMAIN b \ {s} : b[t] \in Q /\ e = <<b[t], t>>
    BY <1>1, InKey
  <2>2. e \in QKey(b, Q) <=> \E t \in DOMAIN b : b[t] \in Q /\ e = <<b[t], t>>
    BY InKey
  <2>. QED
    BY <2>1, <2>2
<1>3. <<b[s], s>> \in QKey(b, Q) <=> b[s] \in Q
  BY InKey
<1>4. ASSUME NEW e PROVE e \in QKey(d, Q) <=> e \in (QKey(b, Q) ++ When(b[s] \in Q, {<<b[s], s>>}))
  BY <1>2, <1>3, Xor DEF When
<1>. QED
  BY <1>4 DEF d

(* Putting a piece changes a key by its term.                              *)
LEMMA KeyPut ==
  ASSUME NEW b, IsBoard(b), NEW s \in Square \ DOMAIN b, NEW pc \in Piece, NEW Q
  PROVE  QKey(With(b, s, pc), Q) = QKey(b, Q) ++ When(pc \in Q, {<<pc, s>>})
<1>. DEFINE d == With(b, s, pc)
<1>1. DOMAIN d = DOMAIN b \cup {s} /\ d[s] = pc /\ \A t \in DOMAIN b : d[t] = b[t]
  <2>1. s \in Square /\ \A t \in DOMAIN b : t # s
    OBVIOUS
  <2>2. /\ IsBoard(With(b, s, pc)) /\ DOMAIN With(b, s, pc) = DOMAIN b \cup {s} /\ With(b, s, pc)[s] = pc
        /\ \A t \in DOMAIN b : t # s => With(b, s, pc)[t] = b[t]
    BY <2>1, Put DEF PutOn
  <2>. QED
    BY <2>1, <2>2
<1>. HIDE DEF d
<1>2. ASSUME NEW e PROVE e \in QKey(d, Q) <=> e \in QKey(b, Q) \/ (pc \in Q /\ e = <<pc, s>>)
  <2>1. e \in QKey(d, Q) <=> \E t \in DOMAIN d : d[t] \in Q /\ e = <<d[t], t>>
    BY InKey
  <2>2. e \in QKey(b, Q) <=> \E t \in DOMAIN b : b[t] \in Q /\ e = <<b[t], t>>
    BY InKey
  <2>. QED
    BY <1>1, <2>1, <2>2
<1>3. <<pc, s>> \notin QKey(b, Q)
  BY InKey
<1>4. ASSUME NEW e PROVE e \in QKey(d, Q) <=> e \in (QKey(b, Q) ++ When(pc \in Q, {<<pc, s>>}))
  BY <1>2, <1>3, Xor DEF When
<1>. QED
  BY <1>4 DEF d

(* A set of squares is finite.                                             *)
LEMMA Finite ==
  ASSUME NEW S, S \subseteq Square
  PROVE  IsFiniteSet(S)
<1>1. IsFiniteSet(Square)
  <2>1. 0 \in Int /\ 63 \in Int
    OBVIOUS
  <2>2. IsFiniteSet(0 .. 63)
    BY <2>1, FS_Interval
  <2>. QED
    BY <2>2 DEF Square
<1>. QED
  BY <1>1, FS_Subset

(* pieceCount counts the squares that hold the piece.                      *)
LEMMA CountType ==
  ASSUME NEW b, IsBoard(b), NEW pc
  PROVE  pieceCount(b, pc) \in Nat /\ pieceCount(b, pc) = Cardinality(Holds(b, pc)) /\ IsFiniteSet(Holds(b, pc))
<1>1. Holds(b, pc) \subseteq Square
  BY DEF Holds, IsBoard
<1>2. IsFiniteSet(Holds(b, pc))
  BY <1>1, Finite
<1>. QED
  BY <1>2, FS_CardinalityType DEF pieceCount, Holds

(* Removing a piece lowers its count by one.                               *)
LEMMA CountRemoved ==
  ASSUME NEW b, IsBoard(b), NEW s \in DOMAIN b, NEW pc
  PROVE  pieceCount(Without(b, s), pc) = pieceCount(b, pc) - (IF b[s] = pc THEN 1 ELSE 0)
<1>1. IsBoard(Without(b, s)) /\ DOMAIN Without(b, s) = DOMAIN b \ {s}
      /\ \A t \in DOMAIN b \ {s} : Without(b, s)[t] = b[t]
  BY Removed DEF TakenOff
<1>2. Holds(Without(b, s), pc) = Holds(b, pc) \ {s}
  BY <1>1 DEF Holds
<1>3. Cardinality(Holds(b, pc) \ {s}) = IF s \in Holds(b, pc) THEN Cardinality(Holds(b, pc)) - 1 ELSE Cardinality(Holds(b, pc))
  <2>1. IsFiniteSet(Holds(b, pc))
    BY CountType
  <2>. QED
    BY <2>1, FS_RemoveElement
<1>4. s \in Holds(b, pc) <=> b[s] = pc
  BY DEF Holds
<1>5. pieceCount(b, pc) \in Nat /\ pieceCount(b, pc) = Cardinality(Holds(b, pc))
  BY CountType
<1>6. pieceCount(Without(b, s), pc) = Cardinality(Holds(Without(b, s), pc))
  BY <1>1, CountType
<1>. QED
  BY <1>2, <1>3, <1>4, <1>5, <1>6

(* Putting a piece raises its count by one.                                *)
LEMMA CountPut ==
  ASSUME NEW b, IsBoard(b), NEW s \in Square \ DOMAIN b, NEW q \in Piece, NEW pc
  PROVE  pieceCount(With(b, s, q), pc) = pieceCount(b, pc) + (IF q = pc THEN 1 ELSE 0)
<1>1. IsBoard(With(b, s, q)) /\ DOMAIN With(b, s, q) = DOMAIN b \cup {s} /\ With(b, s, q)[s] = q
      /\ \A t \in DOMAIN b : With(b, s, q)[t] = b[t]
  <2>1. s \in Square /\ \A t \in DOMAIN b : t # s
    OBVIOUS
  <2>. QED
    BY <2>1, Put DEF PutOn
<1>2. Holds(With(b, s, q), pc) = IF q = pc THEN Holds(b, pc) \cup {s} ELSE Holds(b, pc)
  BY <1>1 DEF Holds
<1>3. Cardinality(Holds(b, pc) \cup {s}) = IF s \in Holds(b, pc) THEN Cardinality(Holds(b, pc)) ELSE Cardinality(Holds(b, pc)) + 1
  <2>1. IsFiniteSet(Holds(b, pc))
    BY CountType
  <2>. QED
    BY <2>1, FS_AddElement
<1>4. s \notin Holds(b, pc)
  BY DEF Holds
<1>5. pieceCount(b, pc) \in Nat /\ pieceCount(b, pc) = Cardinality(Holds(b, pc))
  BY CountType
<1>6. pieceCount(With(b, s, q), pc) = Cardinality(Holds(With(b, s, q), pc))
  BY <1>1, CountType
<1>. QED
  BY <1>2, <1>3, <1>4, <1>5, <1>6

------------------------------------------------------------------------------
(* The board after a move that is no castling, and after castling.         *)

Moved(b, from, cap, to, q) == With(Without(Without(b, from), cap), to, q)
Castled(b, from, rfrom, kto, rto, k, r) ==
  With(With(Without(Without(b, from), rfrom), kto, k), rto, r)

(* When such a move can be carried out.                                    *)
CanMove(b, from, cap, to, q) ==
  /\ IsBoard(b) /\ from \in DOMAIN b /\ cap \in Square /\ to \in Square /\ q \in Piece
  /\ cap # from /\ to # from /\ (to \in DOMAIN b => to = cap)

CanCastle(b, from, rfrom, kto, rto, k, r) ==
  /\ IsBoard(b) /\ from \in DOMAIN b /\ rfrom \in DOMAIN b /\ from # rfrom
  /\ kto \in Square /\ rto \in Square /\ kto # rto
  /\ DOMAIN b \cap {kto, rto} \subseteq {from, rfrom} /\ k \in Piece /\ r \in Piece

CastlesTo(b, from, rfrom, kto, rto, k, r) ==
  CanCastle(b, from, rfrom, kto, rto, k, r) /\ b[from] = k /\ b[rfrom] = r

(* What the board is then.                                                 *)
IsMoved(nb, b, from, cap, to, q) ==
  /\ IsBoard(nb) /\ DOMAIN nb = (DOMAIN b \ {from, cap}) \cup {to} /\ nb[to] = q
  /\ \A s \in DOMAIN b \ {from, cap, to} : nb[s] = b[s]
IsCastled(nb, b, from, rfrom, kto, rto, k, r) ==
  /\ IsBoard(nb) /\ DOMAIN nb = (DOMAIN b \ {from, rfrom}) \cup {kto, rto} /\ nb[kto] = k /\ nb[rto] = r
  /\ \A s \in DOMAIN b \ {from, rfrom} : s \notin {kto, rto} /\ nb[s] = b[s]

(* The board after a move that takes the piece on cap, if there is one.    *)
LEMMA MovedBoard ==
  ASSUME NEW b, NEW from, NEW cap, NEW to, NEW q, CanMove(b, from, cap, to, q)
  PROVE  IsMoved(Moved(b, from, cap, to, q), b, from, cap, to, q)
<1>. DEFINE c == Without(b, from)
            d == Without(c, cap)
            nb == With(d, to, q)
<1>1. IsBoard(c) /\ DOMAIN c = DOMAIN b \ {from} /\ \A s \in DOMAIN b \ {from} : c[s] = b[s]
  BY Removed DEF CanMove, TakenOff
<1>. HIDE DEF c
<1>2. IsBoard(d) /\ DOMAIN d = DOMAIN c \ {cap} /\ \A s \in DOMAIN c \ {cap} : d[s] = c[s]
  BY <1>1, Removed DEF TakenOff
<1>. HIDE DEF d
<1>3. to \in Square /\ q \in Piece
  BY DEF CanMove
<1>4. /\ IsBoard(nb) /\ DOMAIN nb = DOMAIN d \cup {to}
      /\ nb[to] = q /\ \A s \in DOMAIN d : s # to => nb[s] = d[s]
  <2>1. PutOn(nb, d, to, q)
    BY <1>2, <1>3, Put
  <2>. QED
    BY <2>1 DEF PutOn
<1>. HIDE DEF nb
<1>5. IsBoard(nb) /\ DOMAIN nb = (DOMAIN b \ {from, cap}) \cup {to} /\ nb[to] = q
      /\ \A s \in DOMAIN b \ {from, cap, to} : nb[s] = b[s]
  BY <1>1, <1>2, <1>4
<1>. QED
  BY <1>5 DEF nb, d, c, Moved, IsMoved

(* How the keys change.                                                    *)
KeysMoved(nb, b, from, cap, to, q) ==
  \A Q \in SUBSET Piece :
    QKey(nb, Q)
      = ((QKey(b, Q) ++ When(b[from] \in Q, {<<b[from], from>>}))
          ++ When(piece_on(b, cap) \in Q, {<<piece_on(b, cap), cap>>})) ++ When(q \in Q, {<<q, to>>})

(* What such a move does to a key over a set of pieces.                    *)
LEMMA MovedKeys ==
  ASSUME NEW b, NEW from, NEW cap, NEW to, NEW q, CanMove(b, from, cap, to, q)
  PROVE  KeysMoved(Moved(b, from, cap, to, q), b, from, cap, to, q)
<1>. SUFFICES ASSUME NEW Q \in SUBSET Piece
     PROVE  QKey(Moved(b, from, cap, to, q), Q)
           = ((QKey(b, Q) ++ When(b[from] \in Q, {<<b[from], from>>}))
               ++ When(piece_on(b, cap) \in Q, {<<piece_on(b, cap), cap>>})) ++ When(q \in Q, {<<q, to>>})
  BY DEF KeysMoved
<1>. DEFINE c == Without(b, from)
            d == Without(c, cap)
<1>1. IsBoard(c) /\ DOMAIN c = DOMAIN b \ {from} /\ \A s \in DOMAIN b \ {from} : c[s] = b[s]
  BY Removed DEF CanMove, TakenOff
<1>2. QKey(c, Q) = QKey(b, Q) ++ When(b[from] \in Q, {<<b[from], from>>})
  BY KeyRemoved DEF CanMove
<1>. HIDE DEF c
<1>3. IsBoard(d) /\ DOMAIN d = DOMAIN c \ {cap} /\ (cap \notin DOMAIN c => d = c)
  BY <1>1, Removed DEF TakenOff
<1>4. QKey(d, Q) = QKey(c, Q) ++ When(piece_on(b, cap) \in Q, {<<piece_on(b, cap), cap>>})
  <2>1. CASE cap \in DOMAIN b
    <3>1. cap \in DOMAIN c /\ c[cap] = b[cap] /\ piece_on(b, cap) = b[cap]
      BY <1>1, <2>1 DEF CanMove, piece_on
    <3>. QED
      BY <1>1, <3>1, KeyRemoved
  <2>2. CASE cap \notin DOMAIN b
    <3>1. cap \notin DOMAIN c /\ d = c
      BY <1>1, <1>3, <2>2
    <3>2. piece_on(b, cap) \notin Q
      BY <2>2, Pieces DEF piece_on
    <3>3. When(piece_on(b, cap) \in Q, {<<piece_on(b, cap), cap>>}) = {}
      BY <3>2 DEF When
    <3>4. QKey(c, Q) ++ {} = QKey(c, Q)
      BY DEF ++
    <3>. QED
      BY <3>1, <3>3, <3>4
  <2>. QED
    BY <2>1, <2>2
<1>. HIDE DEF d
<1>5. to \in Square \ DOMAIN d /\ q \in Piece
  BY <1>1, <1>3 DEF CanMove
<1>6. QKey(With(d, to, q), Q) = QKey(d, Q) ++ When(q \in Q, {<<q, to>>})
  BY <1>3, <1>5, KeyPut
<1>. QED
  BY <1>2, <1>4, <1>6 DEF d, c, Moved

(* What such a move does to the counts.                                    *)
LEMMA MovedCounts ==
  ASSUME NEW b, NEW from, NEW cap, NEW to, NEW q, CanMove(b, from, cap, to, q), NEW pc \in Piece
  PROVE  pieceCount(Moved(b, from, cap, to, q), pc)
           = pieceCount(b, pc) - (IF b[from] = pc THEN 1 ELSE 0) - (IF piece_on(b, cap) = pc THEN 1 ELSE 0)
               + (IF q = pc THEN 1 ELSE 0)
<1>. DEFINE c == Without(b, from)
            d == Without(c, cap)
<1>1. IsBoard(c) /\ DOMAIN c = DOMAIN b \ {from} /\ \A s \in DOMAIN b \ {from} : c[s] = b[s]
  BY Removed DEF CanMove, TakenOff
<1>2. pieceCount(c, pc) = pieceCount(b, pc) - (IF b[from] = pc THEN 1 ELSE 0)
  BY CountRemoved DEF CanMove
<1>. HIDE DEF c
<1>3. IsBoard(d) /\ DOMAIN d = DOMAIN c \ {cap} /\ (cap \notin DOMAIN c => d = c)
  BY <1>1, Removed DEF TakenOff
<1>4. pieceCount(d, pc) = pieceCount(c, pc) - (IF piece_on(b, cap) = pc THEN 1 ELSE 0)
  <2>1. CASE cap \in DOMAIN b
    <3>1. cap \in DOMAIN c /\ c[cap] = b[cap] /\ piece_on(b, cap) = b[cap]
      BY <1>1, <2>1 DEF CanMove, piece_on
    <3>. QED
      BY <1>1, <3>1, CountRemoved
  <2>2. CASE cap \notin DOMAIN b
    <3>1. cap \notin DOMAIN c /\ d = c
      BY <1>1, <1>3, <2>2
    <3>2. piece_on(b, cap) # pc
      BY <2>2, Pieces DEF piece_on
    <3>3. pieceCount(c, pc) \in Nat
      BY <1>1, CountType
    <3>. QED
      BY <3>1, <3>2, <3>3
  <2>. QED
    BY <2>1, <2>2
<1>. HIDE DEF d
<1>5. to \in Square \ DOMAIN d /\ q \in Piece
  BY <1>1, <1>3 DEF CanMove
<1>6. pieceCount(With(d, to, q), pc) = pieceCount(d, pc) + (IF q = pc THEN 1 ELSE 0)
  BY <1>3, <1>5, CountPut
<1>. QED
  BY <1>2, <1>4, <1>6 DEF d, c, Moved

(* The board after castling.                                               *)
LEMMA CastledBoard ==
  ASSUME NEW b, NEW from, NEW rfrom, NEW kto, NEW rto, NEW k, NEW r, CanCastle(b, from, rfrom, kto, rto, k, r)
  PROVE  IsCastled(Castled(b, from, rfrom, kto, rto, k, r), b, from, rfrom, kto, rto, k, r)
<1>. DEFINE c == Without(b, from)
            d == Without(c, rfrom)
            e == With(d, kto, k)
            nb == With(e, rto, r)
<1>1. IsBoard(c) /\ DOMAIN c = DOMAIN b \ {from} /\ \A s \in DOMAIN b \ {from} : c[s] = b[s]
  BY Removed DEF CanCastle, TakenOff
<1>. HIDE DEF c
<1>2. IsBoard(d) /\ DOMAIN d = DOMAIN c \ {rfrom} /\ \A s \in DOMAIN c \ {rfrom} : d[s] = c[s]
  BY <1>1, Removed DEF TakenOff
<1>. HIDE DEF d
<1>3. kto \in Square /\ k \in Piece /\ rto \in Square /\ r \in Piece
  BY DEF CanCastle
<1>4. /\ IsBoard(e) /\ DOMAIN e = DOMAIN d \cup {kto}
      /\ e[kto] = k /\ \A s \in DOMAIN d : s # kto => e[s] = d[s]
  <2>1. PutOn(e, d, kto, k)
    BY <1>2, <1>3, Put
  <2>. QED
    BY <2>1 DEF PutOn
<1>. HIDE DEF e
<1>5. /\ IsBoard(nb) /\ DOMAIN nb = DOMAIN e \cup {rto}
      /\ nb[rto] = r /\ \A s \in DOMAIN e : s # rto => nb[s] = e[s]
  <2>1. PutOn(nb, e, rto, r)
    BY <1>3, <1>4, Put
  <2>. QED
    BY <2>1 DEF PutOn
<1>. HIDE DEF nb
<1>6. kto # rto /\ DOMAIN b \cap {kto, rto} \subseteq {from, rfrom}
  BY DEF CanCastle
<1>7. IsBoard(nb) /\ DOMAIN nb = (DOMAIN b \ {from, rfrom}) \cup {kto, rto} /\ nb[kto] = k /\ nb[rto] = r
  BY <1>1, <1>2, <1>4, <1>5, <1>6
<1>8. \A s \in DOMAIN b \ {from, rfrom} : s \notin {kto, rto} /\ nb[s] = b[s]
  BY <1>1, <1>2, <1>4, <1>5, <1>6
<1>. QED
  BY <1>7, <1>8 DEF nb, e, d, c, Castled, IsCastled

(* What castling does to a key over a set of pieces.                       *)
LEMMA CastledKeys ==
  ASSUME NEW b, NEW from, NEW rfrom, NEW kto, NEW rto, NEW k, NEW r, CastlesTo(b, from, rfrom, kto, rto, k, r), NEW Q
  PROVE  QKey(Castled(b, from, rfrom, kto, rto, k, r), Q)
           = (((QKey(b, Q) ++ When(k \in Q, {<<k, from>>})) ++ When(r \in Q, {<<r, rfrom>>}))
                ++ When(k \in Q, {<<k, kto>>})) ++ When(r \in Q, {<<r, rto>>})
<1>. DEFINE c == Without(b, from)
            d == Without(c, rfrom)
            e == With(d, kto, k)
<1>0. /\ IsBoard(b) /\ from \in DOMAIN b /\ rfrom \in DOMAIN b /\ from # rfrom
      /\ kto \in Square /\ rto \in Square /\ kto # rto
      /\ DOMAIN b \cap {kto, rto} \subseteq {from, rfrom} /\ k \in Piece /\ r \in Piece
      /\ b[from] = k /\ b[rfrom] = r
  BY DEF CastlesTo, CanCastle
<1>1. IsBoard(c) /\ DOMAIN c = DOMAIN b \ {from} /\ \A s \in DOMAIN b \ {from} : c[s] = b[s]
  BY <1>0, Removed DEF TakenOff
<1>2. QKey(c, Q) = QKey(b, Q) ++ When(k \in Q, {<<k, from>>})
  BY <1>0, KeyRemoved
<1>. HIDE DEF c
<1>3. rfrom \in DOMAIN c /\ c[rfrom] = r
  BY <1>0, <1>1
<1>4. QKey(d, Q) = QKey(c, Q) ++ When(r \in Q, {<<r, rfrom>>})
  BY <1>1, <1>3, KeyRemoved
<1>5. IsBoard(d) /\ DOMAIN d = DOMAIN c \ {rfrom}
  BY <1>1, Removed DEF TakenOff
<1>. HIDE DEF d
<1>6. kto \in Square \ DOMAIN d
  BY <1>0, <1>1, <1>5
<1>7. QKey(e, Q) = QKey(d, Q) ++ When(k \in Q, {<<k, kto>>})
  BY <1>0, <1>5, <1>6, KeyPut
<1>8. IsBoard(e) /\ DOMAIN e = DOMAIN d \cup {kto}
  <2>1. PutOn(e, d, kto, k)
    BY <1>0, <1>5, Put
  <2>. QED
    BY <2>1 DEF PutOn
<1>. HIDE DEF e
<1>9. rto \in Square \ DOMAIN e
  BY <1>0, <1>1, <1>5, <1>8
<1>10. QKey(With(e, rto, r), Q) = QKey(e, Q) ++ When(r \in Q, {<<r, rto>>})
  BY <1>0, <1>8, <1>9, KeyPut
<1>. QED
  BY <1>2, <1>4, <1>7, <1>10 DEF e, d, c, Castled

(* Castling leaves the counts.                                             *)
LEMMA CastledCounts ==
  ASSUME NEW b, NEW from, NEW rfrom, NEW kto, NEW rto, NEW k, NEW r, CastlesTo(b, from, rfrom, kto, rto, k, r), NEW pc \in Piece
  PROVE  pieceCount(Castled(b, from, rfrom, kto, rto, k, r), pc) = pieceCount(b, pc)
<1>. DEFINE c == Without(b, from)
            d == Without(c, rfrom)
            e == With(d, kto, k)
<1>0. /\ IsBoard(b) /\ from \in DOMAIN b /\ rfrom \in DOMAIN b /\ from # rfrom
      /\ kto \in Square /\ rto \in Square /\ kto # rto
      /\ DOMAIN b \cap {kto, rto} \subseteq {from, rfrom} /\ k \in Piece /\ r \in Piece
      /\ b[from] = k /\ b[rfrom] = r
  BY DEF CastlesTo, CanCastle
<1>1. IsBoard(c) /\ DOMAIN c = DOMAIN b \ {from} /\ \A s \in DOMAIN b \ {from} : c[s] = b[s]
  BY <1>0, Removed DEF TakenOff
<1>2. pieceCount(c, pc) = pieceCount(b, pc) - (IF k = pc THEN 1 ELSE 0)
  BY <1>0, CountRemoved
<1>. HIDE DEF c
<1>3. rfrom \in DOMAIN c /\ c[rfrom] = r
  BY <1>0, <1>1
<1>4. pieceCount(d, pc) = pieceCount(c, pc) - (IF r = pc THEN 1 ELSE 0)
  BY <1>1, <1>3, CountRemoved
<1>5. IsBoard(d) /\ DOMAIN d = DOMAIN c \ {rfrom}
  BY <1>1, Removed DEF TakenOff
<1>. HIDE DEF d
<1>6. kto \in Square \ DOMAIN d
  BY <1>0, <1>1, <1>5
<1>7. pieceCount(e, pc) = pieceCount(d, pc) + (IF k = pc THEN 1 ELSE 0)
  BY <1>0, <1>5, <1>6, CountPut
<1>8. IsBoard(e) /\ DOMAIN e = DOMAIN d \cup {kto}
  <2>1. PutOn(e, d, kto, k)
    BY <1>0, <1>5, Put
  <2>. QED
    BY <2>1 DEF PutOn
<1>. HIDE DEF e
<1>9. rto \in Square \ DOMAIN e
  BY <1>0, <1>1, <1>5, <1>8
<1>10. pieceCount(With(e, rto, r), pc) = pieceCount(e, pc) + (IF r = pc THEN 1 ELSE 0)
  BY <1>0, <1>8, <1>9, CountPut
<1>11. pieceCount(b, pc) \in Nat
  BY <1>0, CountType
<1>12. pieceCount(With(e, rto, r), pc) = pieceCount(b, pc)
  BY <1>2, <1>4, <1>7, <1>10, <1>11
<1>. QED
  BY <1>12 DEF e, d, c, Castled

-------------------------------------------------------------------------------
(***************************************************************************)
(* What do_move and undo_move do to the board.                             *)
(***************************************************************************)
(* The piece that arrives, and the moves do_move can carry out.            *)
Arrived(b, us, m) == IF m.type = "promotion" THEN make_piece(us, m.promo) ELSE b[m.from]

(* A move that is no castling can be carried out. *)
Playable(b, us, m) ==
  /\ us \in Color
  /\ m.type \in {"normal", "promotion", "enpassant"}
  /\ CanMove(b, m.from, CaptureSquare(us, m), m.to, Arrived(b, us, m))
  /\ m.type = "promotion" => b[m.from] = make_piece(us, PAWN)
  /\ m.type = "enpassant" =>
       /\ CaptureSquare(us, m) \in DOMAIN b /\ b[CaptureSquare(us, m)] = make_piece(Them(us), PAWN)
       /\ m.to \notin DOMAIN b
  /\ m.type # "enpassant" => CaptureSquare(us, m) = m.to

(* The operation remove_piece.                                             *)
LEMMA ApplyRemove ==
  ASSUME NEW b, NEW s
  PROVE  Apply(b, remove_piece(s)) = Without(b, s)
BY DEF Apply, remove_piece, Op

(* The operation put_piece.                                                *)
LEMMA ApplyPut ==
  ASSUME NEW b, NEW s, NEW pc
  PROVE  Apply(b, put_piece(pc, s)) = With(b, s, pc)
BY DEF Apply, put_piece, Op

(* The operation swap_piece.                                               *)
LEMMA ApplySwap ==
  ASSUME NEW b, NEW s, NEW pc
  PROVE  Apply(b, swap_piece(s, pc)) = With(b, s, pc)
BY DEF Apply, swap_piece, Op

(* The operation move_piece.                                               *)
LEMMA ApplyMove ==
  ASSUME NEW b, NEW s, NEW t
  PROVE  Apply(b, move_piece(s, t)) = With(Without(b, s), t, b[s])
BY DEF Apply, move_piece, Op

(* The square a piece goes to need not be empty. *)
LEMMA PutOver ==
  ASSUME NEW b, IsBoard(b), NEW s \in Square, NEW pc \in Piece
  PROVE  With(Without(b, s), s, pc) = With(b, s, pc)
<1>1. IsBoard(Without(b, s)) /\ DOMAIN Without(b, s) = DOMAIN b \ {s}
      /\ \A t \in DOMAIN b \ {s} : Without(b, s)[t] = b[t]
  BY Removed DEF TakenOff
<1>. DEFINE c == Without(b, s)
            d == With(c, s, pc)
            e == With(b, s, pc)
<1>2. IsBoard(e) /\ DOMAIN e = DOMAIN b \cup {s} /\ e[s] = pc /\ \A t \in DOMAIN b : t # s => e[t] = b[t]
  BY Put DEF PutOn
<1>. HIDE DEF c
<1>3. IsBoard(d) /\ DOMAIN d = DOMAIN c \cup {s} /\ d[s] = pc /\ \A t \in DOMAIN c : t # s => d[t] = c[t]
  BY <1>1, Put DEF c, PutOn
<1>. HIDE DEF d, e
<1>4. DOMAIN d = DOMAIN e /\ \A t \in DOMAIN d : d[t] = e[t]
  BY <1>1, <1>2, <1>3 DEF c
<1>5. d = e
  BY <1>2, <1>3, <1>4, SameBoard
<1>. QED
  BY <1>5 DEF d, e, c

(* Two pieces may be removed in either order.                              *)
LEMMA WithoutTwo ==
  ASSUME NEW b, IsBoard(b), NEW s, NEW t
  PROVE  Without(Without(b, s), t) = Without(Without(b, t), s)
<1>. DEFINE c == Without(b, s)
            d == Without(b, t)
            x == Without(c, t)
            y == Without(d, s)
<1>1. IsBoard(c) /\ DOMAIN c = DOMAIN b \ {s} /\ \A u \in DOMAIN b \ {s} : c[u] = b[u]
  BY Removed DEF TakenOff
<1>2. IsBoard(d) /\ DOMAIN d = DOMAIN b \ {t} /\ \A u \in DOMAIN b \ {t} : d[u] = b[u]
  BY Removed DEF TakenOff
<1>. HIDE DEF c, d
<1>3. IsBoard(x) /\ DOMAIN x = DOMAIN c \ {t} /\ \A u \in DOMAIN c \ {t} : x[u] = c[u]
  BY <1>1, Removed DEF TakenOff
<1>4. IsBoard(y) /\ DOMAIN y = DOMAIN d \ {s} /\ \A u \in DOMAIN d \ {s} : y[u] = d[u]
  BY <1>2, Removed DEF TakenOff
<1>. HIDE DEF x, y
<1>5. DOMAIN x = DOMAIN y /\ \A u \in DOMAIN x : x[u] = y[u]
  BY <1>1, <1>2, <1>3, <1>4
<1>6. x = y
  BY <1>3, <1>4, <1>5, SameBoard
<1>. QED
  BY <1>6 DEF x, y, c, d

(* The operations of do_move for a move other than castling.               *)
LEMMA MoveCarried ==
  ASSUME NEW p, NEW m, Playable(p.board, p.sideToMove, m)
  PROVE  LET us == p.sideToMove IN
         /\ Captured(p, m) = piece_on(p.board, CaptureSquare(us, m))
         /\ Carry(p.board, Operations(p, m))
              = Moved(p.board, m.from, CaptureSquare(us, m), m.to, Arrived(p.board, us, m))
<1>. DEFINE us == p.sideToMove
            b == p.board
            cap == CaptureSquare(us, m)
            toPc == Arrived(b, us, m)
            c == Without(b, m.from)
<1>1. /\ IsBoard(b) /\ m.from \in DOMAIN b /\ cap \in Square /\ m.to \in Square /\ toPc \in Piece
      /\ cap # m.from /\ m.to # m.from /\ (m.to \in DOMAIN b => m.to = cap) /\ us \in Color
  BY DEF Playable, CanMove
<1>2. IsBoard(c) /\ DOMAIN c = DOMAIN b \ {m.from}
  BY <1>1, Removed DEF TakenOff
<1>3. CASE m.type = "enpassant"
  <2>1. cap \in DOMAIN b /\ b[cap] = make_piece(Them(us), PAWN) /\ toPc = b[m.from]
    BY <1>3 DEF Playable, Arrived
  <2>2. Captured(p, m) = piece_on(b, cap)
    BY <1>3, <2>1 DEF Captured, piece_on
  <2>3. Operations(p, m) = <<remove_piece(cap), move_piece(m.from, m.to)>>
    BY <1>3 DEF Operations
  <2>4. Carry(b, Operations(p, m)) = With(Without(Without(b, cap), m.from), m.to, Without(b, cap)[m.from])
    BY <2>3, CarryTwo, ApplyRemove, ApplyMove
  <2>5. Without(b, cap)[m.from] = b[m.from]
    <3>1. IsBoard(Without(b, cap)) /\ \A t \in DOMAIN b \ {cap} : Without(b, cap)[t] = b[t]
      BY <1>1, Removed DEF TakenOff
    <3>. QED
      BY <1>1, <3>1
  <2>6. Without(Without(b, cap), m.from) = Without(Without(b, m.from), cap)
    BY <1>1, WithoutTwo
  <2>. QED
    BY <2>1, <2>2, <2>4, <2>5, <2>6 DEF Moved
<1>4. CASE m.type \in {"normal", "promotion"}
  <2>1. cap = m.to
    BY <1>4 DEF Playable
  <2>2. Captured(p, m) = piece_on(b, cap)
    BY <1>4, <2>1 DEF Captured
  <2>3. With(Without(c, m.to), m.to, toPc) = With(c, m.to, toPc)
    BY <1>1, <1>2, PutOver
  <2>4. Carry(b, Operations(p, m)) = With(c, m.to, toPc)
    <3>1. CASE Captured(p, m) # NO_PIECE
      <4>1. Operations(p, m) = <<remove_piece(m.from), swap_piece(m.to, toPc)>>
        BY <1>4, <3>1 DEF Operations, Arrived
      <4>. QED
        BY <4>1, CarryTwo, ApplyRemove, ApplySwap
    <3>2. CASE Captured(p, m) = NO_PIECE /\ m.type = "promotion"
      <4>1. Operations(p, m) = <<remove_piece(m.from), put_piece(toPc, m.to)>>
        BY <1>4, <3>2 DEF Operations, Arrived
      <4>. QED
        BY <4>1, CarryTwo, ApplyRemove, ApplyPut
    <3>3. CASE Captured(p, m) = NO_PIECE /\ m.type = "normal"
      <4>1. Operations(p, m) = <<move_piece(m.from, m.to)>> /\ toPc = b[m.from]
        BY <1>4, <3>3 DEF Operations, Arrived
      <4>. QED
        BY <4>1, CarryOne, ApplyMove
    <3>. QED
      BY <1>4, <3>1, <3>2, <3>3
  <2>. QED
    BY <2>1, <2>2, <2>3, <2>4 DEF Moved
<1>. QED
  BY <1>3, <1>4 DEF Playable

(* Castling can be carried out. *)
Castles(b, us, m) ==
  LET cr == CastlingRight(us, m) IN
  /\ us \in Color /\ m.type = "castling"
  /\ CanCastle(b, m.from, m.to, KingTarget(cr), RookTarget(cr), make_piece(us, KING), make_piece(us, ROOK))
  /\ b[m.from] = make_piece(us, KING) /\ b[m.to] = make_piece(us, ROOK)

(* The operations of do_castling.                                          *)
LEMMA CastleCarried ==
  ASSUME NEW p, NEW m, Castles(p.board, p.sideToMove, m)
  PROVE  LET us == p.sideToMove  cr == CastlingRight(us, m) IN
         /\ Captured(p, m) = NO_PIECE
         /\ Carry(p.board, Operations(p, m))
              = Castled(p.board, m.from, m.to, KingTarget(cr), RookTarget(cr), make_piece(us, KING), make_piece(us, ROOK))
<1>. DEFINE us == p.sideToMove
            cr == CastlingRight(us, m)
<1>1. m.type = "castling"
  BY DEF Castles
<1>2. Captured(p, m) = NO_PIECE
  BY <1>1 DEF Captured
<1>3. Operations(p, m) = <<remove_piece(m.from), remove_piece(m.to),
      put_piece(make_piece(us, KING), KingTarget(cr)),
      put_piece(make_piece(us, ROOK), RookTarget(cr))>>
  BY <1>1 DEF Operations, do_castling
<1>. QED
  BY <1>2, <1>3, CarryFour, ApplyRemove, ApplyPut DEF Castled

------------------------------------------------------------------------------
(* Taking back. *)

UndoOps(us, m, captured) ==
  LET back == IF m.type = "promotion" THEN <<swap_piece(m.to, make_piece(us, PAWN))>> ELSE << >>
      restored == IF captured = NO_PIECE THEN << >>
                  ELSE <<put_piece(captured, CaptureSquare(us, m))>> IN
  IF m.type = "castling" THEN undo_castling(us, m)
  ELSE back \o <<move_piece(m.to, m.from)>> \o restored

(* The board is put back: the piece, if it has promoted, becomes a pawn    *)
(* again, goes back, and what was captured returns.                        *)
Returned(nb, from, to, pc, cap, captured) ==
  LET nd == With(Without(nb, to), from, pc) IN
  IF captured = NO_PIECE THEN nd ELSE With(nd, cap, captured)

Left(nb, b, from, cap, to) ==
  /\ IsBoard(nb) /\ DOMAIN nb = (DOMAIN b \ {from, cap}) \cup {to}
  /\ \A s \in DOMAIN b \ {from, cap, to} : nb[s] = b[s]

(* Moving back and putting back what was taken gives the board before.     *)
LEMMA ReturnedBoard ==
  ASSUME NEW b, NEW from, NEW cap, NEW to, NEW q, CanMove(b, from, cap, to, q), NEW nb, Left(nb, b, from, cap, to)
  PROVE  Returned(nb, from, to, b[from], cap, piece_on(b, cap)) = b
<1>0. /\ IsBoard(nb) /\ DOMAIN nb = (DOMAIN b \ {from, cap}) \cup {to}
      /\ \A s \in DOMAIN b \ {from, cap, to} : nb[s] = b[s]
  BY DEF Left
<1>1. /\ IsBoard(b) /\ from \in DOMAIN b /\ cap \in Square /\ to \in Square
      /\ cap # from /\ to # from /\ (to \in DOMAIN b => to = cap)
  BY DEF CanMove
<1>2. b[from] \in Piece /\ from \in Square
  BY <1>1 DEF IsBoard
<1>. DEFINE pc == b[from]
            nc == Without(nb, to)
            nd == With(nc, from, pc)
            captured == piece_on(b, cap)
            ne == With(nd, cap, captured)
<1>3. IsBoard(nc) /\ DOMAIN nc = DOMAIN nb \ {to} /\ \A s \in DOMAIN nb \ {to} : nc[s] = nb[s]
  BY <1>0, Removed DEF TakenOff
<1>. HIDE DEF nc
<1>4. pc \in Piece
  BY <1>2
<1>. HIDE DEF pc
<1>5. IsBoard(nd) /\ DOMAIN nd = DOMAIN nc \cup {from} /\ nd[from] = pc
      /\ \A s \in DOMAIN nc : s # from => nd[s] = nc[s]
  BY <1>2, <1>3, <1>4, Put DEF PutOn
<1>. HIDE DEF nd
<1>6. CASE cap \notin DOMAIN b
  <2>1. DOMAIN nd = DOMAIN b /\ \A s \in DOMAIN nd : nd[s] = b[s]
    BY <1>0, <1>1, <1>3, <1>5, <1>6 DEF pc
  <2>2. nd = b
    BY <1>1, <1>5, <2>1, SameBoard
  <2>3. captured = NO_PIECE
    BY <1>6 DEF piece_on
  <2>. QED
    BY <2>2, <2>3 DEF Returned, nd, nc, pc
<1>7. CASE cap \in DOMAIN b
  <2>1. captured = b[cap] /\ captured \in Piece /\ captured # NO_PIECE
    BY <1>1, <1>7, Pieces DEF piece_on, IsBoard
  <2>. HIDE DEF captured
  <2>2. IsBoard(ne) /\ DOMAIN ne = DOMAIN nd \cup {cap} /\ ne[cap] = captured
        /\ \A s \in DOMAIN nd : s # cap => ne[s] = nd[s]
    BY <1>1, <1>5, <2>1, Put DEF PutOn
  <2>. HIDE DEF ne
  <2>3. DOMAIN ne = DOMAIN b /\ \A s \in DOMAIN ne : ne[s] = b[s]
    BY <1>0, <1>1, <1>3, <1>5, <1>7, <2>1, <2>2 DEF pc
  <2>4. ne = b
    BY <1>1, <2>2, <2>3, SameBoard
  <2>. QED
    BY <2>1, <2>4 DEF Returned, ne, nd, nc, pc, captured
<1>. QED
  BY <1>6, <1>7

(* Joining sequences of at most one element.                               *)
LEMMA Joined ==
  ASSUME NEW o1, NEW o2, NEW o3
  PROVE  /\ << >> \o <<o2>> \o << >> = <<o2>>
         /\ <<o1>> \o <<o2>> \o << >> = <<o1, o2>>
         /\ << >> \o <<o2>> \o <<o3>> = <<o2, o3>>
         /\ <<o1>> \o <<o2>> \o <<o3>> = <<o1, o2, o3>>
<1>1. << >> \o <<o2>> = <<o2>> /\ <<o2>> \o << >> = <<o2>>
  OBVIOUS
<1>2. \A a, c : <<a>> \o <<c>> = <<a, c>>
  <2>. TAKE a, c
  <2>. DEFINE x == <<a>> \o <<c>>
              S == {a, c}
  <2>1. <<a>> \in Seq(S) /\ <<c>> \in Seq(S)
    OBVIOUS
  <2>2. x \in Seq(S) /\ Len(x) = 2 /\ x[1] = a /\ x[2] = c
    BY <2>1
  <2>. HIDE DEF x
  <2>3. x = <<a, c>>
    BY <2>2
  <2>. QED
    BY <2>3 DEF x
<1>3. <<o1, o2>> \o << >> = <<o1, o2>>
  OBVIOUS
<1>4. <<o1, o2>> \o <<o3>> = <<o1, o2, o3>>
  <2>. DEFINE x == <<o1, o2>> \o <<o3>>
              S == {o1, o2, o3}
  <2>1. <<o1, o2>> \in Seq(S) /\ <<o3>> \in Seq(S)
    OBVIOUS
  <2>2. x \in Seq(S) /\ Len(x) = 3 /\ x[1] = o1 /\ x[2] = o2 /\ x[3] = o3
    BY <2>1
  <2>. HIDE DEF x
  <2>3. x = <<o1, o2, o3>>
    BY <2>2
  <2>. QED
    BY <2>3 DEF x
<1>. QED
  BY <1>1, <1>2, <1>3, <1>4

(* The operations of undo_move take back a move other than castling.       *)
LEMMA MoveTakenBack ==
  ASSUME NEW b, NEW us, NEW m, Playable(b, us, m)
  PROVE  Carry(Moved(b, m.from, CaptureSquare(us, m), m.to, Arrived(b, us, m)),
               UndoOps(us, m, piece_on(b, CaptureSquare(us, m)))) = b
<1>. DEFINE cap == CaptureSquare(us, m)
            toPc == Arrived(b, us, m)
            captured == piece_on(b, cap)
            nb == Moved(b, m.from, cap, m.to, toPc)
            pc == b[m.from]
            nc == With(nb, m.to, pc)
            o1 == swap_piece(m.to, make_piece(us, PAWN))
            o2 == move_piece(m.to, m.from)
            o3 == put_piece(captured, cap)
<1>1. /\ CanMove(b, m.from, cap, m.to, toPc)
      /\ m.type \in {"normal", "promotion", "enpassant"}
      /\ m.type = "promotion" => pc = make_piece(us, PAWN)
      /\ m.type # "promotion" => toPc = pc
  BY DEF Playable, Arrived
<1>2. m.to \in Square /\ pc \in Piece
  BY <1>1 DEF CanMove, IsBoard
<1>. HIDE DEF toPc, cap
<1>3. /\ IsBoard(nb) /\ DOMAIN nb = (DOMAIN b \ {m.from, cap}) \cup {m.to} /\ nb[m.to] = toPc
      /\ \A s \in DOMAIN b \ {m.from, cap, m.to} : nb[s] = b[s]
  <2>1. IsMoved(nb, b, m.from, cap, m.to, toPc)
    BY <1>1, MovedBoard
  <2>. HIDE DEF nb
  <2>. QED
    BY <2>1 DEF IsMoved
<1>. HIDE DEF nb
<1>4. UndoOps(us, m, captured)
          = (IF m.type = "promotion" THEN <<o1>> ELSE << >>) \o <<o2>>
              \o (IF captured = NO_PIECE THEN << >> ELSE <<o3>>)
  BY <1>1 DEF UndoOps, cap
<1>5. Returned(nb, m.from, m.to, pc, cap, captured) = b
  <2>1. Left(nb, b, m.from, cap, m.to)
    BY <1>3 DEF Left
  <2>. QED
    BY <1>1, <2>1, ReturnedBoard
<1>. HIDE DEF captured, pc
<1>6. Apply(nb, o2) = With(Without(nb, m.to), m.from, nb[m.to])
  BY ApplyMove
<1>7. Apply(nb, o1) = With(nb, m.to, make_piece(us, PAWN))
  BY ApplySwap
<1>8. \A c : Apply(c, o3) = With(c, cap, captured)
  BY ApplyPut
<1>. HIDE DEF o1, o2, o3
<1>9. CASE m.type = "promotion"
  <2>1. Apply(nb, o1) = nc
    BY <1>1, <1>7, <1>9
  <2>2. IsBoard(nc) /\ DOMAIN nc = DOMAIN nb \cup {m.to} /\ nc[m.to] = pc
        /\ \A s \in DOMAIN nb : s # m.to => nc[s] = nb[s]
    BY <1>2, <1>3, Put DEF PutOn
  <2>. HIDE DEF nc
  <2>3. Apply(nc, o2) = With(Without(nc, m.to), m.from, pc)
    BY <2>2, ApplyMove DEF o2
  <2>4. DOMAIN nc = (DOMAIN b \ {m.from, cap}) \cup {m.to} /\ \A s \in DOMAIN b \ {m.from, cap, m.to} : nc[s] = b[s]
    BY <1>3, <2>2
  <2>5. Returned(nc, m.from, m.to, pc, cap, captured) = b
    <3>1. Left(nc, b, m.from, cap, m.to)
      BY <2>2, <2>4 DEF Left
    <3>. QED
      BY <1>1, <3>1, ReturnedBoard DEF pc, captured
  <2>6. CASE captured = NO_PIECE
    <3>1. UndoOps(us, m, captured) = <<o1, o2>>
      <4>1. UndoOps(us, m, captured) = <<o1>> \o <<o2>> \o << >>
        BY <1>4, <1>9, <2>6
      <4>. QED
        BY <4>1, Joined
    <3>2. Carry(nb, <<o1, o2>>) = Apply(nc, o2)
      BY <2>1, CarryTwo
    <3>. QED
      BY <2>3, <2>5, <2>6, <3>1, <3>2 DEF Returned, nb, captured, cap, toPc
  <2>7. CASE captured # NO_PIECE
    <3>1. UndoOps(us, m, captured) = <<o1, o2, o3>>
      <4>1. UndoOps(us, m, captured) = <<o1>> \o <<o2>> \o <<o3>>
        BY <1>4, <1>9, <2>7
      <4>. QED
        <5>1. <<o1>> \o <<o2>> \o <<o3>> = <<o1, o2, o3>>
          BY Joined
        <5>. QED
          BY <4>1, <5>1
    <3>2. Carry(nb, <<o1, o2, o3>>) = Apply(Apply(nc, o2), o3)
      BY <2>1, CarryThree
    <3>. QED
      BY <1>8, <2>3, <2>5, <2>7, <3>1, <3>2 DEF Returned, nb, captured, cap, toPc
  <2>. QED
    BY <2>6, <2>7
<1>10. CASE m.type # "promotion"
  <2>1. nb[m.to] = pc
    BY <1>1, <1>3, <1>10
  <2>6. CASE captured = NO_PIECE
    <3>1. UndoOps(us, m, captured) = <<o2>>
      <4>1. UndoOps(us, m, captured) = << >> \o <<o2>> \o << >>
        BY <1>4, <1>10, <2>6
      <4>. QED
        BY <4>1, Joined
    <3>2. Carry(nb, <<o2>>) = Apply(nb, o2)
      BY CarryOne
    <3>. QED
      BY <1>5, <1>6, <2>1, <2>6, <3>1, <3>2 DEF Returned, nb, captured, cap, toPc
  <2>7. CASE captured # NO_PIECE
    <3>1. UndoOps(us, m, captured) = <<o2, o3>>
      <4>1. UndoOps(us, m, captured) = << >> \o <<o2>> \o <<o3>>
        BY <1>4, <1>10, <2>7
      <4>. QED
        BY <4>1, Joined
    <3>2. Carry(nb, <<o2, o3>>) = Apply(Apply(nb, o2), o3)
      BY CarryTwo
    <3>. QED
      BY <1>5, <1>6, <1>8, <2>1, <2>7, <3>1, <3>2 DEF Returned, nb, captured, cap, toPc
  <2>. QED
    BY <2>6, <2>7
<1>. QED
  BY <1>9, <1>10

(* The operations of undo_move take back castling.                         *)
LEMMA CastleTakenBack ==
  ASSUME NEW b, NEW us, NEW m, Castles(b, us, m), NEW captured
  PROVE  LET cr == CastlingRight(us, m) IN
         Carry(Castled(b, m.from, m.to, KingTarget(cr), RookTarget(cr), make_piece(us, KING), make_piece(us, ROOK)),
               UndoOps(us, m, captured)) = b
<1>. DEFINE cr == CastlingRight(us, m)
            k == make_piece(us, KING)
            r == make_piece(us, ROOK)
            kto == KingTarget(cr)
            rto == RookTarget(cr)
            nb == Castled(b, m.from, m.to, kto, rto, k, r)
            nc == Without(nb, kto)
            nd == Without(nc, rto)
            ne == With(nd, m.from, k)
            nf == With(ne, m.to, r)
<1>1. CanCastle(b, m.from, m.to, kto, rto, k, r) /\ b[m.from] = k /\ b[m.to] = r /\ m.type = "castling"
  BY DEF Castles
<1>2. IsCastled(nb, b, m.from, m.to, kto, rto, k, r)
  BY <1>1, CastledBoard
<1>3. Carry(nb, UndoOps(us, m, captured)) = nf
  <2>1. UndoOps(us, m, captured) = <<remove_piece(kto), remove_piece(rto), put_piece(k, m.from), put_piece(r, m.to)>>
    BY <1>1 DEF UndoOps, undo_castling
  <2>. QED
    BY <2>1, CarryFour, ApplyRemove, ApplyPut
<1>. HIDE DEF nb, k, r, kto, rto
<1>4. /\ IsBoard(b) /\ m.from \in DOMAIN b /\ m.to \in DOMAIN b /\ m.from # m.to
      /\ kto \in Square /\ rto \in Square /\ kto # rto
      /\ DOMAIN b \cap {kto, rto} \subseteq {m.from, m.to} /\ k \in Piece /\ r \in Piece
      /\ m.from \in Square /\ m.to \in Square
  BY <1>1 DEF CanCastle, IsBoard
<1>5. /\ IsBoard(nb) /\ DOMAIN nb = (DOMAIN b \ {m.from, m.to}) \cup {kto, rto}
      /\ \A s \in DOMAIN b \ {m.from, m.to} : s \notin {kto, rto} /\ nb[s] = b[s]
  BY <1>2 DEF IsCastled
<1>6. TakenOff(nc, nb, kto)
  BY <1>5, Removed
<1>. HIDE DEF nc
<1>7. TakenOff(nd, nc, rto)
  BY <1>6, Removed DEF TakenOff
<1>. HIDE DEF nd
<1>8. PutOn(ne, nd, m.from, k)
  BY <1>4, <1>7, Put DEF TakenOff
<1>. HIDE DEF ne
<1>9. PutOn(nf, ne, m.to, r)
  <2>1. IsBoard(ne)
    BY <1>8 DEF PutOn
  <2>. QED
    BY <1>4, <2>1, Put
<1>. HIDE DEF nf
<1>10. DOMAIN nd = DOMAIN b \ {m.from, m.to} /\ \A s \in DOMAIN nd : nd[s] = b[s]
  BY <1>5, <1>6, <1>7 DEF TakenOff
<1>11. DOMAIN ne = DOMAIN b \ {m.to} /\ \A s \in DOMAIN ne : ne[s] = b[s]
  BY <1>1, <1>4, <1>8, <1>10 DEF PutOn
<1>12. IsBoard(nf) /\ DOMAIN nf = DOMAIN b /\ \A s \in DOMAIN nf : nf[s] = b[s]
  BY <1>1, <1>4, <1>9, <1>11 DEF PutOn
<1>13. nf = b
  BY <1>4, <1>12, SameBoard
<1>. QED
  BY <1>3, <1>13 DEF nb, k, r, kto, rto

-------------------------------------------------------------------------------
(***************************************************************************)
(* The keys do_move keeps up to date.                                      *)
(***************************************************************************)
(* The kinds of pieces a key is about. *)
OfKind(types) == {pc \in Piece : type_of(pc) \in types}
OfSide(c) == {pc \in Piece : color_of(pc) = c /\ type_of(pc) # PAWN}

(* The keys set_state computes, as keys over sets of pieces.               *)
LEMMA KeysOfBoard ==
  ASSUME NEW b, IsBoard(b)
  PROVE  /\ KeyOf(b, pieces(b)) = QKey(b, Piece)
         /\ \A types : KeyOf(b, OfTypes(b, types)) = QKey(b, OfKind(types))
         /\ \A c : KeyOf(b, NonPawns(b, c)) = QKey(b, OfSide(c))
<1>1. \A s \in DOMAIN b : b[s] \in Piece
  BY DEF IsBoard
<1>2. pieces(b) = {s \in DOMAIN b : b[s] \in Piece}
  BY <1>1 DEF pieces
<1>3. \A types : OfTypes(b, types) = {s \in DOMAIN b : b[s] \in OfKind(types)}
  BY <1>1 DEF OfTypes, OfKind
<1>4. \A c : NonPawns(b, c) = {s \in DOMAIN b : b[s] \in OfSide(c)}
  BY <1>1 DEF NonPawns, OfColor, OfSide
<1>. QED
  BY <1>2, <1>3, <1>4 DEF QKey

(* A pawn on its way has a number. *)
LEMMA PsqIs ==
  ASSUME NEW pc \in Piece, NEW s \in Square, type_of(pc) = PAWN => R(s) \in 1 .. 6
  PROVE  psq(pc, s) = {<<pc, s>>}
<1>1. type_of(pc) = PAWN => relative_rank(color_of(pc), s) # 7
  <2>1. R(s) \in Int
    BY Coordinates
  <2>. QED
    BY <2>1 DEF relative_rank, R
<1>. QED
  BY <1>1 DEF psq

(* What is known of a move that is no castling: whose pieces move and are  *)
(* captured, and where pawns go.                                           *)
Proper(b, us, m) ==
  /\ Playable(b, us, m) /\ PawnsPlaced(b)
  /\ color_of(b[m.from]) = us
  /\ piece_on(b, CaptureSquare(us, m)) # NO_PIECE =>
       /\ color_of(piece_on(b, CaptureSquare(us, m))) = Them(us)
       /\ type_of(piece_on(b, CaptureSquare(us, m))) # KING
  /\ IF m.type = "promotion"
     THEN m.promo \in KNIGHT .. QUEEN /\ relative_rank(us, m.to) = 7
     ELSE m.promo = 0 /\ (type_of(b[m.from]) = PAWN => R(m.to) \in 1 .. 6)

(* The terms do_move adds to the keys, for a move other than castling.     *)
LEMMA MoveKeys ==
  ASSUME NEW p, NEW m, Proper(p.board, p.sideToMove, m)
  PROVE  LET us == p.sideToMove  b == p.board  cap == CaptureSquare(us, m)  q == Arrived(b, us, m) IN
         /\ RookKey(p, m) = {}
         /\ CapturedKey(p, m) = When(piece_on(b, cap) \in Piece, {<<piece_on(b, cap), cap>>})
         /\ m.type # "promotion" => MovedKey(p, m) = {<<q, m.from>>} ++ {<<q, m.to>>}
                                    /\ PromotedKey(p, m) = {} /\ q = b[m.from]
         /\ m.type = "promotion" => MovedKey(p, m) = {<<b[m.from], m.from>>} /\ PromotedKey(p, m) = {<<q, m.to>>}
                                    /\ b[m.from] = make_piece(us, PAWN) /\ q = make_piece(us, m.promo)
                                    /\ m.promo \in KNIGHT .. QUEEN
         /\ b[m.from] \in Piece /\ q \in Piece /\ color_of(b[m.from]) = us /\ color_of(q) = us /\ us \in Color
<1>. DEFINE us == p.sideToMove
            b == p.board
            cap == CaptureSquare(us, m)
            q == Arrived(b, us, m)
            pc == b[m.from]
<1>1. /\ IsBoard(b) /\ m.from \in DOMAIN b /\ cap \in Square /\ m.to \in Square /\ q \in Piece
      /\ us \in Color /\ PawnsPlaced(b) /\ color_of(pc) = us
      /\ m.type \in {"normal", "promotion", "enpassant"}
  BY DEF Proper, Playable, CanMove
<1>2. pc \in Piece /\ m.from \in Square
  BY <1>1 DEF IsBoard
<1>3. RookKey(p, m) = {}
  BY <1>1 DEF RookKey, When
<1>4. CapturedKey(p, m) = When(piece_on(b, cap) \in Piece, {<<piece_on(b, cap), cap>>})
  <2>1. Captured(p, m) = piece_on(b, cap)
    BY MoveCarried DEF Proper
  <2>2. CASE cap \in DOMAIN b
    <3>1. piece_on(b, cap) = b[cap] /\ b[cap] \in Piece /\ b[cap] # NO_PIECE
      BY <1>1, <2>2, Pieces DEF piece_on, IsBoard
    <3>2. psq(b[cap], cap) = {<<b[cap], cap>>}
      BY <1>1, <2>2, <3>1, PsqIs DEF PawnsPlaced
    <3>. QED
      BY <2>1, <3>1, <3>2 DEF CapturedKey
  <2>3. CASE cap \notin DOMAIN b
    <3>1. piece_on(b, cap) = NO_PIECE /\ NO_PIECE \notin Piece
      BY <2>3, Pieces DEF piece_on
    <3>. QED
      BY <2>1, <3>1 DEF CapturedKey, When
  <2>. QED
    BY <2>2, <2>3
<1>5. psq(pc, m.from) = {<<pc, m.from>>}
  BY <1>1, <1>2, PsqIs DEF PawnsPlaced
<1>6. Arrival(us, m) = m.to
  BY <1>1 DEF Arrival
<1>7. MovedKey(p, m) = {<<pc, m.from>>} ++ psq(pc, m.to)
  BY <1>5, <1>6 DEF MovedKey
<1>8. CASE m.type # "promotion"
  <2>1. q = pc /\ psq(pc, m.to) = {<<pc, m.to>>}
    BY <1>1, <1>2, <1>8, PsqIs DEF Arrived, Proper
  <2>2. PromotedKey(p, m) = {}
    BY <1>8 DEF PromotedKey, Promotes, When
  <2>. QED
    BY <1>1, <1>2, <1>3, <1>4, <1>7, <1>8, <2>1, <2>2
<1>9. CASE m.type = "promotion"
  <2>1. pc = make_piece(us, PAWN) /\ q = make_piece(us, m.promo) /\ m.promo \in KNIGHT .. QUEEN /\ relative_rank(us, m.to) = 7
    BY <1>9 DEF Proper, Playable, Arrived
  <2>2. type_of(pc) = PAWN /\ color_of(pc) = us
    BY <1>1, <2>1, Pieces DEF PAWN
  <2>3. psq(pc, m.to) = {}
    BY <2>1, <2>2 DEF psq
  <2>4. MovedKey(p, m) = {<<pc, m.from>>}
    BY <1>7, <2>3 DEF ++
  <2>5. m.promo \in PieceType /\ m.promo # PAWN
    BY <2>1, Pieces DEF KNIGHT, QUEEN, PAWN
  <2>6. type_of(q) # PAWN /\ color_of(q) = us
    BY <1>1, <2>1, <2>5, Pieces
  <2>7. PromotedKey(p, m) = {<<q, m.to>>}
    <3>1. psq(q, m.to) = {<<q, m.to>>}
      BY <1>1, <2>6, PsqIs
    <3>. QED
      BY <1>9, <2>1, <3>1 DEF PromotedKey, Promotes, When
  <2>. QED
    BY <1>1, <1>2, <1>3, <1>4, <1>9, <2>1, <2>4, <2>6, <2>7
<1>. QED
  BY <1>8, <1>9

(* The terms of a key that counts on a condition.                          *)
LEMMA InWhen ==
  ASSUME NEW c \in BOOLEAN, NEW x, NEW e
  PROVE  e \in When(c, x) <=> c /\ e \in x
BY DEF When

(* The keys after a move, from those before and the terms of do_move.      *)
KeysGo(p, m, nb) ==
  LET us == p.sideToMove
      b == p.board
      captured == Captured(p, m) IN
  /\ QKey(nb, Piece) = (((QKey(b, Piece) ++ RookKey(p, m)) ++ CapturedKey(p, m)) ++ MovedKey(p, m)) ++ PromotedKey(p, m)
  /\ QKey(nb, OfKind({PAWN}))
       = (QKey(b, OfKind({PAWN})) ++ When(type_of(captured) = PAWN, CapturedKey(p, m)))
            ++ When(type_of(b[m.from]) = PAWN, MovedKey(p, m))
  /\ QKey(nb, OfKind({KNIGHT, BISHOP}))
       = ((QKey(b, OfKind({KNIGHT, BISHOP})) ++ When(type_of(captured) \in {KNIGHT, BISHOP}, CapturedKey(p, m)))
            ++ When(m.promo \in {KNIGHT, BISHOP}, PromotedKey(p, m)))
            ++ When(type_of(b[m.from]) \in {KNIGHT, BISHOP}, MovedKey(p, m))
  /\ \A c \in Color :
       QKey(nb, OfSide(c))
         = QKey(b, OfSide(c))
             ++ IF c = us
                THEN (RookKey(p, m) ++ PromotedKey(p, m)) ++ When(type_of(b[m.from]) # PAWN, MovedKey(p, m))
                ELSE When(type_of(captured) # PAWN, CapturedKey(p, m))

(* After a move other than castling do_move has the keys of the new board. *)
LEMMA KeysKept ==
  ASSUME NEW p, NEW m, Proper(p.board, p.sideToMove, m)
  PROVE  KeysGo(p, m, Moved(p.board, m.from, CaptureSquare(p.sideToMove, m), m.to, Arrived(p.board, p.sideToMove, m)))
<1>. DEFINE us == p.sideToMove
            b == p.board
            cap == CaptureSquare(us, m)
            q == Arrived(b, us, m)
            pc == b[m.from]
            nb == Moved(b, m.from, cap, m.to, q)
            x == piece_on(b, cap)
            A == {<<pc, m.from>>}
            C == {<<x, cap>>}
            T == {<<q, m.to>>}
<1>1. CanMove(b, m.from, cap, m.to, q) /\ us \in Color
  BY DEF Proper, Playable
<1>2. Captured(p, m) = x
  BY MoveCarried DEF Proper
<1>3. /\ RookKey(p, m) = {}
      /\ CapturedKey(p, m) = When(x \in Piece, C)
      /\ m.type # "promotion" => MovedKey(p, m) = A ++ T /\ PromotedKey(p, m) = {} /\ q = pc
      /\ m.type = "promotion" => MovedKey(p, m) = A /\ PromotedKey(p, m) = T
                                    /\ pc = make_piece(us, PAWN) /\ q = make_piece(us, m.promo)
                                    /\ m.promo \in KNIGHT .. QUEEN
      /\ pc \in Piece /\ q \in Piece /\ color_of(pc) = us /\ color_of(q) = us
  BY MoveKeys
<1>4. x \in Piece => color_of(x) = Them(us) /\ Them(us) # us
  BY <1>1, Pieces DEF Proper
<1>5. x \notin Piece => x = NO_PIECE /\ type_of(x) = 0
  <2>1. cap \in DOMAIN b => b[cap] \in Piece
    BY <1>1 DEF CanMove, IsBoard
  <2>. QED
    BY <2>1, Pieces DEF piece_on
<1>6. m.type = "promotion" => type_of(pc) = PAWN /\ type_of(q) = m.promo /\ m.promo \in KNIGHT .. QUEEN
  <2>1. PAWN \in PieceType /\ KNIGHT .. QUEEN \subseteq PieceType
    BY Pieces DEF PAWN, KNIGHT, QUEEN
  <2>. QED
    BY <1>1, <1>3, <2>1, Pieces
<1>7. m.type # "promotion" => m.promo = 0
  BY DEF Proper
<1>8. ASSUME NEW Q, Q \subseteq Piece
      PROVE  QKey(nb, Q) = ((QKey(b, Q) ++ When(pc \in Q, A)) ++ When(x \in Q, C)) ++ When(q \in Q, T)
  <2>1. KeysMoved(nb, b, m.from, cap, m.to, q)
    BY <1>1, MovedKeys
  <2>. QED
    BY <1>8, <2>1 DEF KeysMoved
<1>. HIDE DEF nb, A, C, T, x, pc, q, cap
<1>9. QKey(nb, Piece) = (((QKey(b, Piece) ++ RookKey(p, m)) ++ CapturedKey(p, m)) ++ MovedKey(p, m)) ++ PromotedKey(p, m)
  <2>1. QKey(nb, Piece) = ((QKey(b, Piece) ++ When(pc \in Piece, A)) ++ When(x \in Piece, C)) ++ When(q \in Piece, T)
    BY <1>8
  <2>2. ASSUME NEW e PROVE e \in QKey(nb, Piece) <=>
           e \in ((((QKey(b, Piece) ++ RookKey(p, m)) ++ CapturedKey(p, m)) ++ MovedKey(p, m)) ++ PromotedKey(p, m))
    BY <1>3, <2>1 DEF ++, When
  <2>. QED
    BY <2>2
<1>10. QKey(nb, OfKind({PAWN}))
              = (QKey(b, OfKind({PAWN})) ++ When(type_of(x) = PAWN, CapturedKey(p, m)))
                   ++ When(type_of(pc) = PAWN, MovedKey(p, m))
  <2>. DEFINE Q == OfKind({PAWN})
  <2>0. \A y : y \in Q <=> y \in Piece /\ type_of(y) = PAWN
    BY DEF OfKind
  <2>. HIDE DEF Q
  <2>1. QKey(nb, Q) = ((QKey(b, Q) ++ When(pc \in Q, A)) ++ When(x \in Q, C)) ++ When(q \in Q, T)
    BY <1>8, <2>0
  <2>2. /\ pc \in Q <=> type_of(pc) = PAWN
        /\ x \in Q <=> x \in Piece /\ type_of(x) = PAWN
        /\ q \in Q <=> m.type # "promotion" /\ type_of(pc) = PAWN
    BY <1>3, <1>6, <2>0 DEF KNIGHT, QUEEN, PAWN
  <2>3. ASSUME NEW e PROVE e \in QKey(nb, Q) <=>
           e \in ((QKey(b, Q) ++ When(type_of(x) = PAWN, CapturedKey(p, m))) ++ When(type_of(pc) = PAWN, MovedKey(p, m)))
    BY <1>3, <1>6, <2>1, <2>2 DEF ++, When
  <2>. QED
    BY <2>3 DEF Q
<1>11. QKey(nb, OfKind({KNIGHT, BISHOP}))
              = ((QKey(b, OfKind({KNIGHT, BISHOP})) ++ When(type_of(x) \in {KNIGHT, BISHOP}, CapturedKey(p, m)))
                   ++ When(m.promo \in {KNIGHT, BISHOP}, PromotedKey(p, m)))
                   ++ When(type_of(pc) \in {KNIGHT, BISHOP}, MovedKey(p, m))
  <2>. DEFINE N == {KNIGHT, BISHOP}
              Q == OfKind(N)
  <2>0. \A y : y \in Q <=> y \in Piece /\ type_of(y) \in N
    BY DEF OfKind
  <2>1. PAWN \notin N /\ 0 \notin N
    BY DEF KNIGHT, BISHOP, PAWN
  <2>. HIDE DEF Q, N
  <2>2. QKey(nb, Q) = ((QKey(b, Q) ++ When(pc \in Q, A)) ++ When(x \in Q, C)) ++ When(q \in Q, T)
    BY <1>8, <2>0
  <2>3. /\ pc \in Q <=> type_of(pc) \in N
        /\ x \in Q <=> x \in Piece /\ type_of(x) \in N
        /\ m.type = "promotion" => (q \in Q <=> m.promo \in N) /\ pc \notin Q
        /\ m.type # "promotion" => (q \in Q <=> type_of(pc) \in N) /\ m.promo \notin N
    BY <1>3, <1>6, <1>7, <2>0, <2>1
  <2>4. ASSUME NEW e PROVE e \in QKey(nb, Q) <=>
           e \in (((QKey(b, Q) ++ When(type_of(x) \in N, CapturedKey(p, m))) ++ When(m.promo \in N, PromotedKey(p, m)))
                    ++ When(type_of(pc) \in N, MovedKey(p, m)))
    BY <1>3, <2>2, <2>3 DEF ++, When
  <2>. QED
    BY <2>4 DEF Q, N
<1>12. ASSUME NEW c \in Color
       PROVE  QKey(nb, OfSide(c))
                = QKey(b, OfSide(c))
                    ++ IF c = us
                       THEN (RookKey(p, m) ++ PromotedKey(p, m)) ++ When(type_of(pc) # PAWN, MovedKey(p, m))
                       ELSE When(type_of(x) # PAWN, CapturedKey(p, m))
  <2>. DEFINE Q == OfSide(c)
  <2>0. \A y : y \in Q <=> y \in Piece /\ color_of(y) = c /\ type_of(y) # PAWN
    BY DEF OfSide
  <2>. HIDE DEF Q
  <2>1. QKey(nb, Q) = ((QKey(b, Q) ++ When(pc \in Q, A)) ++ When(x \in Q, C)) ++ When(q \in Q, T)
    BY <1>8, <2>0
  <2>2. CASE c = us
    <3>1. /\ pc \in Q <=> type_of(pc) # PAWN
          /\ x \notin Q
          /\ m.type = "promotion" => q \in Q
          /\ m.type # "promotion" => (q \in Q <=> type_of(pc) # PAWN)
      BY <1>3, <1>4, <1>6, <2>0, <2>2 DEF KNIGHT, QUEEN, PAWN
    <3>2. ASSUME NEW e PROVE e \in QKey(nb, Q) <=>
             e \in (QKey(b, Q) ++ ((RookKey(p, m) ++ PromotedKey(p, m)) ++ When(type_of(pc) # PAWN, MovedKey(p, m))))
      BY <1>3, <1>6, <2>1, <3>1 DEF ++, When
    <3>. QED
      BY <2>2, <3>2 DEF Q
  <2>3. CASE c # us
    <3>1. /\ pc \notin Q /\ q \notin Q
          /\ x \in Q <=> x \in Piece /\ type_of(x) # PAWN
      BY <1>1, <1>3, <1>4, <2>0, <2>3, Pieces
    <3>2. ASSUME NEW e PROVE e \in QKey(nb, Q) <=>
             e \in (QKey(b, Q) ++ When(type_of(x) # PAWN, CapturedKey(p, m)))
      BY <1>3, <2>1, <3>1 DEF ++, When
    <3>. QED
      BY <2>3, <3>2 DEF Q
  <2>. QED
    BY <2>2, <2>3
<1>. QED
  BY <1>2, <1>9, <1>10, <1>11, <1>12 DEF KeysGo, nb, x, pc, q, cap

(* The terms of the material key: as many of each piece as there are.      *)
LEMMA InMaterial ==
  ASSUME NEW b, IsBoard(b)
  PROVE  /\ \A y \in Piece, k \in Int : <<y, k>> \in compute_material_key(b) <=> 8 <= k /\ k < 8 + pieceCount(b, y)
         /\ \A e \in compute_material_key(b) : \E y \in Piece, k \in Int : e = <<y, k>>
<1>1. \A y : pieceCount(b, y) \in Nat
  BY CountType
<1>2. \A e : e \in compute_material_key(b)
        <=> \E y \in Piece : \E n \in 0 .. (pieceCount(b, y) - 1) : e = <<y, 8 + n>>
  BY DEF compute_material_key
<1>3. ASSUME NEW y \in Piece, NEW k \in Int
      PROVE  <<y, k>> \in compute_material_key(b) <=> 8 <= k /\ k < 8 + pieceCount(b, y)
  <2>1. ASSUME <<y, k>> \in compute_material_key(b) PROVE 8 <= k /\ k < 8 + pieceCount(b, y)
    <3>1. PICK z \in Piece : \E n \in 0 .. (pieceCount(b, z) - 1) : <<y, k>> = <<z, 8 + n>>
      BY <1>2, <2>1
    <3>2. PICK n \in 0 .. (pieceCount(b, z) - 1) : z = y /\ k = 8 + n
      BY <3>1
    <3>. QED
      BY <1>1, <3>2
  <2>2. ASSUME 8 <= k, k < 8 + pieceCount(b, y) PROVE <<y, k>> \in compute_material_key(b)
    <3>1. k - 8 \in 0 .. (pieceCount(b, y) - 1) /\ k = 8 + (k - 8)
      BY <1>1, <2>2
    <3>. QED
      BY <1>2, <3>1
  <2>. QED
    BY <2>1, <2>2
<1>4. ASSUME NEW e \in compute_material_key(b) PROVE \E y \in Piece, k \in Int : e = <<y, k>>
  <2>1. PICK y \in Piece : \E n \in 0 .. (pieceCount(b, y) - 1) : e = <<y, 8 + n>>
    BY <1>2
  <2>2. PICK n \in 0 .. (pieceCount(b, y) - 1) : e = <<y, 8 + n>>
    BY <2>1
  <2>3. 8 + n \in Int
    BY <1>1
  <2>. QED
    BY <2>2, <2>3
<1>. QED
  BY <1>3, <1>4

(* A piece that stands on the board is counted.                            *)
LEMMA CountAtLeast ==
  ASSUME NEW b, IsBoard(b), NEW s \in DOMAIN b
  PROVE  pieceCount(b, b[s]) >= 1
<1>1. s \in Holds(b, b[s])
  BY DEF Holds
<1>2. IsFiniteSet(Holds(b, b[s])) /\ pieceCount(b, b[s]) = Cardinality(Holds(b, b[s])) /\ pieceCount(b, b[s]) \in Nat
  BY CountType
<1>3. Cardinality(Holds(b, b[s])) # 0
  BY <1>1, <1>2, FS_EmptySet
<1>. QED
  BY <1>2, <1>3

(* There is no room for more than 48 pawns of a color.                     *)
LEMMA CountAtMost ==
  ASSUME NEW b, IsBoard(b), PawnsPlaced(b), NEW pc, type_of(pc) = PAWN
  PROVE  pieceCount(b, pc) <= 48
<1>1. Holds(b, pc) \subseteq 8 .. 55
  <2>. SUFFICES ASSUME NEW s \in DOMAIN b, b[s] = pc PROVE s \in 8 .. 55
    BY DEF Holds
  <2>1. s \in Square /\ R(s) \in 1 .. 6
    BY DEF PawnsPlaced, IsBoard
  <2>. QED
    BY <2>1, Coordinates
<1>2. 8 \in Int /\ 55 \in Int
  OBVIOUS
<1>3. IsFiniteSet(8 .. 55) /\ Cardinality(8 .. 55) = 48
  <2>1. /\ IsFiniteSet(8 .. 55)
        /\ Cardinality(8 .. 55) = IF 8 > 55 THEN 0 ELSE 55 - 8 + 1
    BY <1>2, FS_Interval, Zenon
  <2>. QED
    BY <2>1
<1>4. Cardinality(Holds(b, pc)) <= 48
  BY <1>1, <1>3, FS_Subset
<1>. QED
  BY <1>4, CountType

(* The number of a piece in the material key. *)
LEMMA PsqCount ==
  ASSUME NEW pc \in Piece, NEW n \in Nat, type_of(pc) = PAWN => n < 48
  PROVE  psq(pc, 8 + n) = {<<pc, 8 + n>>}
<1>1. color_of(pc) \in {0, 1}
  BY Pieces
<1>2. type_of(pc) = PAWN => (8 + n) \div 8 \in 1 .. 6
  OBVIOUS
<1>3. type_of(pc) = PAWN => relative_rank(color_of(pc), 8 + n) # 7
  BY <1>1, <1>2 DEF relative_rank, rank_of
<1>. QED
  BY <1>3 DEF psq

(* After a move other than castling do_move has the new material key.      *)
LEMMA MaterialKept ==
  ASSUME NEW p, NEW m, Proper(p.board, p.sideToMove, m),
         St(p).materialKey = compute_material_key(p.board)
  PROVE  MaterialKeyAfter(p, m)
           = compute_material_key(Moved(p.board, m.from, CaptureSquare(p.sideToMove, m), m.to,
                                        Arrived(p.board, p.sideToMove, m)))
<1>. DEFINE us == p.sideToMove
            b == p.board
            cap == CaptureSquare(us, m)
            q == Arrived(b, us, m)
            pc == b[m.from]
            nb == Moved(b, m.from, cap, m.to, q)
            x == piece_on(b, cap)
            old == compute_material_key(b)
            count(y) == pieceCount(b, y)
<1>1. CanMove(b, m.from, cap, m.to, q) /\ us \in Color /\ IsBoard(b) /\ PawnsPlaced(b) /\ m.from \in DOMAIN b
      /\ m.type \in {"normal", "promotion", "enpassant"}
  BY DEF Proper, Playable, CanMove
<1>2. Captured(p, m) = x
  BY MoveCarried DEF Proper
<1>3. /\ m.type # "promotion" => q = pc
      /\ m.type = "promotion" => pc = make_piece(us, PAWN) /\ q = make_piece(us, m.promo)
                                    /\ m.promo \in KNIGHT .. QUEEN
      /\ pc \in Piece /\ q \in Piece /\ color_of(pc) = us /\ color_of(q) = us
  BY MoveKeys
<1>4. x \in Piece => color_of(x) # us
  BY <1>1, Pieces DEF Proper
<1>5. (x \in Piece <=> x # NO_PIECE) /\ (x # NO_PIECE => cap \in DOMAIN b /\ x = b[cap])
  <2>1. cap \in DOMAIN b => b[cap] \in Piece
    BY <1>1 DEF CanMove, IsBoard
  <2>. QED
    BY <2>1, Pieces DEF piece_on
<1>6. m.type = "promotion" => type_of(pc) = PAWN /\ type_of(q) # PAWN /\ pc # q
  <2>1. PAWN \in PieceType /\ KNIGHT .. QUEEN \subseteq PieceType /\ PAWN \notin KNIGHT .. QUEEN
    BY Pieces DEF PAWN, KNIGHT, QUEEN
  <2>. QED
    BY <1>1, <1>3, <2>1, Pieces
<1>7. IsBoard(nb)
  <2>1. IsMoved(nb, b, m.from, cap, m.to, q)
    BY <1>1, MovedBoard
  <2>. QED
    BY <2>1 DEF IsMoved
<1>8. \A y \in Piece : pieceCount(nb, y)
           = count(y) - (IF pc = y THEN 1 ELSE 0) - (IF x = y THEN 1 ELSE 0) + (IF q = y THEN 1 ELSE 0)
  BY <1>1, MovedCounts
<1>9. \A y : count(y) \in Nat
  BY <1>1, CountType
<1>10. /\ count(pc) >= 1 /\ (x # NO_PIECE => count(x) >= 1)
       /\ \A y : type_of(y) = PAWN => count(y) <= 48
  BY <1>1, <1>5, CountAtLeast, CountAtMost
<1>11. MaterialKeyAfter(p, m)
         = (old ++ When(x # NO_PIECE, {<<x, 8 + count(x) - 1>>}))
             ++ When(m.type = "promotion", {<<q, 8 + count(q)>>} ++ {<<pc, 8 + count(pc) - 1>>})
  <2>1. x # NO_PIECE => psq(x, 8 + (count(x) - 1)) = {<<x, 8 + (count(x) - 1)>>}
    BY <1>5, <1>9, <1>10, PsqCount
  <2>2. m.type = "promotion" => psq(q, 8 + count(q)) = {<<q, 8 + count(q)>>}
    BY <1>3, <1>6, <1>9, PsqCount
  <2>3. m.type = "promotion" => psq(pc, 8 + (count(pc) - 1)) = {<<pc, 8 + (count(pc) - 1)>>}
    BY <1>3, <1>6, <1>9, <1>10, PsqCount
  <2>4. count(pc) \in Int /\ count(x) \in Int
    BY <1>9
  <2>5. 8 + (count(pc) - 1) = 8 + count(pc) - 1 /\ 8 + (count(x) - 1) = 8 + count(x) - 1
    BY <2>4
  <2>6. CASE m.type = "enpassant"
    <3>1. cap \in DOMAIN b /\ x # NO_PIECE
      <4>1. cap \in DOMAIN b /\ b[cap] \in Piece
        BY <1>1, <2>6 DEF Proper, Playable, IsBoard
      <4>. QED
        BY <4>1, Pieces DEF piece_on
    <3>2. pieceCount(Without(b, cap), x) = count(x) - 1
      BY <1>1, <1>5, <3>1, CountRemoved
    <3>3. MaterialKeyAfter(p, m) = (old ++ When(x # NO_PIECE, psq(x, 8 + (count(x) - 1) - 0))) ++ When(FALSE, {})
      BY <1>2, <2>6, <3>2 DEF MaterialKeyAfter, Promotes, When
    <3>4. 8 + (count(x) - 1) - 0 = 8 + (count(x) - 1)
      BY <2>4
    <3>. QED
      BY <2>1, <2>5, <2>6, <3>1, <3>3, <3>4 DEF When
  <2>7. CASE m.type # "enpassant"
    <3>1. MaterialKeyAfter(p, m)
            = (old ++ When(x # NO_PIECE, psq(x, 8 + count(x) - 1)))
               ++ When(m.type = "promotion", psq(q, 8 + count(q)) ++ psq(pc, 8 + count(pc) - 1))
      BY <1>2, <1>3, <2>7 DEF MaterialKeyAfter, Promotes, When
    <3>. QED
      BY <2>1, <2>2, <2>3, <2>5, <3>1 DEF When
  <2>. QED
    BY <2>6, <2>7
<1>. DEFINE new == compute_material_key(nb)
<1>12. /\ \A y \in Piece, k \in Int : <<y, k>> \in old <=> 8 <= k /\ k < 8 + count(y)
       /\ \A e \in old : \E y \in Piece, k \in Int : e = <<y, k>>
       /\ \A y \in Piece, k \in Int : <<y, k>> \in new <=> 8 <= k /\ k < 8 + pieceCount(nb, y)
       /\ \A e \in new : \E y \in Piece, k \in Int : e = <<y, k>>
  BY <1>1, <1>7, InMaterial
<1>. DEFINE rhs == (old ++ When(x # NO_PIECE, {<<x, 8 + count(x) - 1>>}))
             ++ When(m.type = "promotion", {<<q, 8 + count(q)>>} ++ {<<pc, 8 + count(pc) - 1>>})
<1>13. \A e \in rhs : \E y \in Piece, k \in Int : e = <<y, k>>
  <2>2. count(x) \in Int /\ count(q) \in Int /\ count(pc) \in Int
    BY <1>9
  <2>3. 8 + count(x) - 1 \in Int /\ 8 + count(q) \in Int /\ 8 + count(pc) - 1 \in Int
    BY <2>2
  <2>. HIDE DEF x, q, pc, old, count
  <2>1. \A e \in rhs : \/ e \in old
                       \/ (x # NO_PIECE /\ e = <<x, 8 + count(x) - 1>>)
                       \/ e = <<q, 8 + count(q)>>
                       \/ e = <<pc, 8 + count(pc) - 1>>
    BY DEF ++, When
  <2>4. x # NO_PIECE => x \in Piece
    BY <1>5
  <2>. HIDE DEF rhs
  <2>5. SUFFICES ASSUME NEW e \in rhs PROVE \E y \in Piece, k \in Int : e = <<y, k>>
    OBVIOUS
  <2>. QED
    BY <1>3, <1>12, <2>1, <2>3, <2>4
<1>14. ASSUME NEW y \in Piece, NEW k \in Int PROVE <<y, k>> \in rhs <=> <<y, k>> \in new
  <2>1. count(y) \in Nat /\ count(x) \in Nat /\ count(q) \in Nat /\ count(pc) \in Nat
    BY <1>9
  <2>2. <<y, k>> \in new
          <=> 8 <= k /\ k < 8 + (count(y) - (IF pc = y THEN 1 ELSE 0) - (IF x = y THEN 1 ELSE 0) + (IF q = y THEN 1 ELSE 0))
    BY <1>8, <1>12
  <2>3. <<y, k>> \in old <=> 8 <= k /\ k < 8 + count(y)
    BY <1>12
  <2>. HIDE DEF x, q, pc, new, old, count
  <2>4. CASE m.type # "promotion"
    <3>1. <<y, k>> \in rhs <=> ~(<<y, k>> \in old <=> x # NO_PIECE /\ y = x /\ k = 8 + count(x) - 1)
      BY <2>4 DEF ++, When
    <3>2. CASE x = y
      <4>1. x # NO_PIECE /\ count(x) >= 1
        BY <1>5, <1>10, <3>2 DEF count, x
      <4>. QED
        BY <1>3, <2>1, <2>2, <2>3, <2>4, <3>1, <3>2, <4>1
    <3>3. CASE x # y
      BY <1>3, <2>1, <2>2, <2>3, <2>4, <3>1, <3>3
    <3>. QED
      BY <3>2, <3>3
  <2>5. CASE m.type = "promotion"
    <3>0. x \in Piece => x # pc /\ x # q
      BY <1>3, <1>4
    <3>1. <<y, k>> \in rhs
            <=> ~(~(<<y, k>> \in old <=> x # NO_PIECE /\ y = x /\ k = 8 + count(x) - 1)
                    <=> ~(y = q /\ k = 8 + count(q) <=> y = pc /\ k = 8 + count(pc) - 1))
      BY <2>5 DEF ++, When
    <3>2. pc # q /\ count(pc) >= 1
      BY <1>6, <1>10, <2>5 DEF pc, q, count
    <3>3. CASE x = y
      <4>1. x # NO_PIECE /\ count(x) >= 1 /\ x # pc /\ x # q
        BY <1>5, <1>10, <3>0, <3>3 DEF count, x, pc, q
      <4>. QED
        BY <2>1, <2>2, <2>3, <3>1, <3>3, <4>1
    <3>4. CASE x # y
      BY <2>1, <2>2, <2>3, <3>1, <3>2, <3>4
    <3>. QED
      BY <3>3, <3>4
  <2>. QED
    BY <2>4, <2>5
<1>15. rhs = new
  <2>. HIDE DEF rhs, new
  <2>. QED
    BY <1>12, <1>13, <1>14 DEF new
<1>. QED
  BY <1>11, <1>15

-------------------------------------------------------------------------------
(***************************************************************************)
(* Attacks, and what holds at every node.                                  *)
(***************************************************************************)
(* The piece on x hits t.                                                  *)
Hits(b, occ, x, t) ==
  /\ x \in DOMAIN b
  /\ \/ type_of(b[x]) = PAWN /\ Strikes(color_of(b[x]), x, t)
     \/ type_of(b[x]) = KNIGHT /\ Jumps(x, t)
     \/ type_of(b[x]) = KING /\ Near(x, t)
     \/ type_of(b[x]) \in {BISHOP, ROOK, QUEEN} /\ Aligned(type_of(b[x]), x, t) /\ Clear(x, t, occ)
Attacked(b, occ, c, t) == \E x \in DOMAIN b : color_of(b[x]) = c /\ Hits(b, occ, x, t)

(* A queen goes like a rook and like a bishop.                             *)
LEMMA QueenAligned ==
  ASSUME NEW s, NEW t
  PROVE  Aligned(QUEEN, s, t) <=> Aligned(ROOK, s, t) \/ Aligned(BISHOP, s, t)
<1>1. SlideDirections(QUEEN) = SlideDirections(ROOK) \cup SlideDirections(BISHOP)
  BY Directions
<1>. QED
  BY <1>1 DEF Aligned

(* Nothing between s and t, nothing between t and s.                       *)
LEMMA ClearSym ==
  ASSUME NEW s \in Square, NEW t \in Square, NEW occ
  PROVE  Clear(s, t, occ) <=> Clear(t, s, occ)
BY InsideSym DEF Clear

(* A slider that sees t is seen from t.                                    *)
LEMMA SliderSeen ==
  ASSUME NEW t \in Square, NEW x \in Square, NEW occ, NEW pt
  PROVE  x \in sliding_attack(pt, t, occ) <=> Aligned(pt, x, t) /\ Clear(x, t, occ)
<1>1. x \in sliding_attack(pt, t, occ) <=> Aligned(pt, t, x) /\ Clear(t, x, occ)
  BY SlidingIs
<1>. QED
  BY <1>1, AlignedSym, ClearSym

(* The attack sets from the attacked square, told from the attacker.       *)
LEMMA SeenFrom ==
  ASSUME NEW b, IsBoard(b), NEW t \in Square, NEW occ, NEW x \in DOMAIN b
  PROVE  /\ x \in sliding_attack(ROOK, t, occ) <=> Aligned(ROOK, x, t) /\ Clear(x, t, occ)
         /\ x \in sliding_attack(BISHOP, t, occ) <=> Aligned(BISHOP, x, t) /\ Clear(x, t, occ)
         /\ \A c \in Color : x \in PawnAttacks[Them(c)][t] <=> Strikes(c, x, t)
         /\ x \in PseudoAttacks[KNIGHT][t] <=> Jumps(x, t)
         /\ x \in PseudoAttacks[KING][t] <=> Near(x, t)
<1>1. x \in Square
  BY DEF IsBoard
<1>2. /\ x \in sliding_attack(ROOK, t, occ) <=> Aligned(ROOK, x, t) /\ Clear(x, t, occ)
      /\ x \in sliding_attack(BISHOP, t, occ) <=> Aligned(BISHOP, x, t) /\ Clear(x, t, occ)
  BY <1>1, SliderSeen
<1>3. ASSUME NEW c \in Color PROVE x \in PawnAttacks[Them(c)][t] <=> Strikes(c, x, t)
  <2>1. Them(c) \in Color /\ Them(Them(c)) = c
    BY Pieces
  <2>2. x \in PawnAttacks[Them(c)][t] <=> Strikes(Them(c), t, x)
    BY <1>1, <2>1, PawnIs
  <2>. QED
    BY <1>1, <2>1, <2>2, StepsSym
<1>4. x \in PseudoAttacks[KNIGHT][t] <=> Jumps(x, t)
  BY <1>1, KnightIs, StepsSym
<1>5. x \in PseudoAttacks[KING][t] <=> Near(x, t)
  BY <1>1, KingIs, StepsSym
<1>. QED
  BY <1>2, <1>3, <1>4, <1>5

(* The numbers of the piece types and colors.                              *)
LEMMA TypesDiffer ==
  /\ PAWN = 1 /\ KNIGHT = 2 /\ BISHOP = 3 /\ ROOK = 4 /\ QUEEN = 5 /\ KING = 6 /\ NO_PIECE = 0
  /\ WHITE = 0 /\ BLACK = 1
BY DEF PAWN, KNIGHT, BISHOP, ROOK, QUEEN, KING, NO_PIECE, WHITE, BLACK

(* attackers_to finds exactly the pieces that hit the square.              *)
LEMMA AttackersIs ==
  ASSUME NEW b, IsBoard(b), NEW t \in Square, NEW occ, NEW x
  PROVE  x \in attackers_to(b, t, occ) <=> Hits(b, occ, x, t)
<1>1. CASE x \notin DOMAIN b
  BY <1>1 DEF attackers_to, OfTypes, Exactly, Hits
<1>2. CASE x \in DOMAIN b
  <2>1. type_of(b[x]) \in PieceType /\ color_of(b[x]) \in Color
    BY <1>2, Pieces DEF IsBoard
  <2>. DEFINE pt == type_of(b[x])
              c == color_of(b[x])
  <2>. HIDE DEF pt, c
  <2>2. x \in attackers_to(b, t, occ)
          <=> \/ x \in sliding_attack(ROOK, t, occ) /\ pt \in {ROOK, QUEEN}
              \/ x \in sliding_attack(BISHOP, t, occ) /\ pt \in {BISHOP, QUEEN}
              \/ x \in PawnAttacks[BLACK][t] /\ c = WHITE /\ pt = PAWN
              \/ x \in PawnAttacks[WHITE][t] /\ c = BLACK /\ pt = PAWN
              \/ x \in PseudoAttacks[KNIGHT][t] /\ pt = KNIGHT
              \/ x \in PseudoAttacks[KING][t] /\ pt = KING
    BY <1>2 DEF attackers_to, OfTypes, Exactly, pt, c
  <2>3. WHITE \in Color /\ BLACK \in Color /\ Them(WHITE) = BLACK /\ Them(BLACK) = WHITE
    BY DEF Color, Them, WHITE, BLACK
  <2>4. x \in attackers_to(b, t, occ)
          <=> \/ (Aligned(ROOK, x, t) /\ Clear(x, t, occ)) /\ pt \in {ROOK, QUEEN}
              \/ (Aligned(BISHOP, x, t) /\ Clear(x, t, occ)) /\ pt \in {BISHOP, QUEEN}
              \/ Strikes(WHITE, x, t) /\ c = WHITE /\ pt = PAWN
              \/ Strikes(BLACK, x, t) /\ c = BLACK /\ pt = PAWN
              \/ Jumps(x, t) /\ pt = KNIGHT
              \/ Near(x, t) /\ pt = KING
    BY <1>2, <2>2, <2>3, SeenFrom
  <2>5. c \in {WHITE, BLACK}
    BY <2>1 DEF c, Color
  <2>6. Hits(b, occ, x, t)
          <=> \/ pt = PAWN /\ Strikes(c, x, t)
              \/ pt = KNIGHT /\ Jumps(x, t)
              \/ pt = KING /\ Near(x, t)
              \/ pt \in {BISHOP, ROOK, QUEEN} /\ Aligned(pt, x, t) /\ Clear(x, t, occ)
    BY <1>2 DEF Hits, pt, c
  <2>. QED
    BY <2>4, <2>5, <2>6, QueenAligned, TypesDiffer
<1>. QED
  BY <1>1, <1>2

(* attackers_to_exist: some piece of the color hits the square.            *)
LEMMA AttackedIs ==
  ASSUME NEW b, IsBoard(b), NEW t \in Square, NEW occ, NEW c \in Color
  PROVE  attackers_to_exist(b, t, occ, c) <=> Attacked(b, occ, c, t)
<1>1. attackers_to_exist(b, t, occ, c)
        <=> \E x \in DOMAIN b : /\ color_of(b[x]) = c
                                /\ \/ x \in sliding_attack(ROOK, t, occ) /\ type_of(b[x]) \in {ROOK, QUEEN}
                                   \/ x \in sliding_attack(BISHOP, t, occ) /\ type_of(b[x]) \in {BISHOP, QUEEN}
                                   \/ x \in PawnAttacks[Them(c)][t] /\ type_of(b[x]) = PAWN
                                   \/ x \in PseudoAttacks[KNIGHT][t] /\ type_of(b[x]) = KNIGHT
                                   \/ x \in PseudoAttacks[KING][t] /\ type_of(b[x]) = KING
  BY DEF attackers_to_exist, Exactly
<1>2. ASSUME NEW x \in DOMAIN b, color_of(b[x]) = c
      PROVE  Hits(b, occ, x, t)
               <=> \/ x \in sliding_attack(ROOK, t, occ) /\ type_of(b[x]) \in {ROOK, QUEEN}
                   \/ x \in sliding_attack(BISHOP, t, occ) /\ type_of(b[x]) \in {BISHOP, QUEEN}
                   \/ x \in PawnAttacks[Them(c)][t] /\ type_of(b[x]) = PAWN
                   \/ x \in PseudoAttacks[KNIGHT][t] /\ type_of(b[x]) = KNIGHT
                   \/ x \in PseudoAttacks[KING][t] /\ type_of(b[x]) = KING
  <2>. DEFINE pt == type_of(b[x])
  <2>. HIDE DEF pt
  <2>6. Hits(b, occ, x, t)
          <=> \/ pt = PAWN /\ Strikes(c, x, t)
              \/ pt = KNIGHT /\ Jumps(x, t)
              \/ pt = KING /\ Near(x, t)
              \/ pt \in {BISHOP, ROOK, QUEEN} /\ Aligned(pt, x, t) /\ Clear(x, t, occ)
    BY <1>2 DEF Hits, pt
  <2>. QED
    BY <2>6, SeenFrom, QueenAligned, TypesDiffer DEF pt
<1>. QED
  BY <1>1, <1>2 DEF Attacked

(* Going on in the same direction.                                         *)
LEMMA Farther ==
  ASSUME NEW s \in Square, NEW t \in Square, NEW x \in Square, NEW d \in KingSteps, NEW n, NEW j,
         Toward(s, d, n, t), Toward(t, d, j, x), n + j \in 1 .. 7
  PROVE  Toward(s, d, n + j, x)
<1>1. /\ F(s) \in Int /\ R(s) \in Int /\ F(t) \in Int /\ R(t) \in Int /\ F(x) \in Int /\ R(x) \in Int
  BY Coordinates
<1>2. n \in 1 .. 7 /\ j \in 1 .. 7
  BY DEF Toward
<1>. QED
  BY <1>1, <1>2 DEF Toward

(* f stands between x and k and goes to t on the line of f and k, leaping  *)
(* over neither: t is between x and k as well.                             *)
LEMMA StaysInside ==
  ASSUME NEW x \in Square, NEW k \in Square, NEW f \in Square, NEW t \in Square,
         Inside(x, k, f), OnLine(f, t, k), t # x, t # k, ~Inside(f, t, k), ~Inside(f, t, x)
  PROVE  Inside(x, k, t)
<1>1. PICK d \in KingSteps, n \in 1 .. 7, j \in 1 .. 7 : j < n /\ Toward(x, d, n, k) /\ Toward(x, d, j, f)
  BY DEF Inside
<1>2. Toward(f, d, n - j, k) /\ Toward(f, -d, j, x) /\ -d \in KingSteps /\ n - j \in 1 .. 7
  BY <1>1, Rest, Reversed, Directions
<1>3. k # f
  BY <1>2, NotHere
<1>4. PICK e \in KingSteps, m \in 1 .. 7 :
        /\ Toward(f, e, m, t)
        /\ k = f \/ \E i \in 1 .. 7 : Toward(f, e, i, k) \/ Toward(f, -e, i, k)
  BY DEF OnLine
<1>5. PICK i \in 1 .. 7 : Toward(f, e, i, k) \/ Toward(f, -e, i, k)
  BY <1>3, <1>4
<1>6. e = d \/ e = -d
  <2>1. -e \in KingSteps /\ e \in Int
    BY Directions
  <2>2. e = d \/ -e = d
    BY <1>2, <1>5, <2>1, OneWay
  <2>. QED
    BY <2>1, <2>2
<1>7. CASE e = d
  <2>1. m # n - j
    BY <1>2, <1>4, <1>7, OnePlace
  <2>2. ~(n - j < m)
    BY <1>2, <1>4, <1>7 DEF Inside
  <2>3. m < n - j /\ j + m \in 1 .. 7 /\ j + m < n
    BY <2>1, <2>2
  <2>4. Toward(x, d, j + m, t)
    BY <1>1, <1>4, <1>7, <2>3, Farther
  <2>. QED
    BY <1>1, <2>3, <2>4 DEF Inside
<1>8. CASE e = -d
  <2>1. m # j
    BY <1>2, <1>4, <1>8, OnePlace
  <2>2. ~(j < m)
    BY <1>2, <1>4, <1>8 DEF Inside
  <2>3. m < j /\ j - m \in 1 .. 7 /\ j - m < n
    BY <1>1, <2>1, <2>2
  <2>5. Toward(t, e, j - m, x)
    BY <1>2, <1>4, <1>8, <2>3, Rest
  <2>6. -e = d
    BY <1>8, Directions
  <2>7. Toward(x, d, j - m, t)
    BY <2>5, <2>6, Reversed
  <2>. QED
    BY <1>1, <2>3, <2>7 DEF Inside
<1>. QED
  BY <1>6, <1>7, <1>8

(* Nothing lies between neighbours, or on the way of a knight.             *)
LEMMA NothingInside ==
  ASSUME NEW s \in Square, NEW t \in Square, NEW z \in Square
  PROVE  /\ Near(s, t) => ~Inside(s, t, z)
         /\ Jumps(s, t) => ~Inside(s, t, z) /\ ~OnLine(s, t, z)
         /\ \A c : Strikes(c, s, t) => ~Inside(s, t, z)
<1>1. /\ F(s) \in Int /\ R(s) \in Int /\ F(t) \in Int /\ R(t) \in Int
  BY Coordinates
<1>2. ASSUME NEW d \in KingSteps, NEW n \in 1 .. 7, Toward(s, d, n, t)
      PROVE  (Near(s, t) => n = 1) /\ ~Jumps(s, t) /\ \A c : Strikes(c, s, t) => n = 1
  BY <1>1, <1>2 DEF Toward, Near, Jumps, Strikes
<1>. QED
  BY <1>2 DEF Inside, OnLine

(* What holds of the position on the board at every node of the walk.     *)
KingsStand(b) == \A c \in Color : KingAt(b, c, square(b, c))
CastlingsSound(cas, c960) ==
  /\ DOMAIN cas \subseteq {1, 2, 4, 8}
  /\ \A cr \in DOMAIN cas :
       LET k == cas[cr].king  r == cas[cr].rook IN
       /\ k \in Square /\ r \in Square /\ k # r
       /\ R(k) = R(KingTarget(cr)) /\ R(r) = R(KingTarget(cr))
       /\ cr \in KING_SIDE <=> k < r
       /\ cas[cr].path = (BetweenBB[r][RookTarget(cr)] \cup BetweenBB[k][KingTarget(cr)]) \ {k, r}
       /\ ~c960 => F(k) = 4 /\ F(r) = IF cr \in KING_SIDE THEN 7 ELSE 0
RightsSound(b, cas, rights) ==
  /\ rights \subseteq DOMAIN cas
  /\ \A cr \in rights : /\ cas[cr].king \in DOMAIN b /\ b[cas[cr].king] = make_piece(CastlingColor(cr), KING)
                        /\ cas[cr].rook \in DOMAIN b /\ b[cas[cr].rook] = make_piece(CastlingColor(cr), ROOK)
(* A pawn that may take in passing does not expose its king.               *)
EpSafe(b, us, ep, blockers) ==
  \A f \in DOMAIN b :
    /\ b[f] = make_piece(us, PAWN) /\ Strikes(us, f, ep)
    /\ f \notin blockers \/ square(b, us) \in LineBB[f][ep]
    => \A x \in DOMAIN b :
         color_of(b[x]) = Them(us) /\ x # ep - pawn_push(us)
           => ~Hits(b, (DOMAIN b \ {f, ep - pawn_push(us)}) \cup {ep}, x, square(b, us))
EpSound(b, us, ep, blockers) ==
  \/ ep = SQ_NONE
  \/ /\ ep \in Square /\ relative_rank(us, ep) = 5 /\ ep \notin DOMAIN b
     /\ ep - pawn_push(us) \in DOMAIN b /\ b[ep - pawn_push(us)] = make_piece(Them(us), PAWN)
     /\ EpSafe(b, us, ep, blockers)
KeysAgree(b, us, st) ==
  /\ st.materialKey = compute_material_key(b)
  /\ st.pawnKey = noPawns ++ KeyOf(b, OfTypes(b, {PAWN}))
  /\ st.minorPieceKey = KeyOf(b, OfTypes(b, {KNIGHT, BISHOP}))
  /\ st.nonPawnKey = [c \in Color |-> KeyOf(b, NonPawns(b, c))]
  /\ st.nonPawnMaterial = [c \in Color |-> Material(b, c)]
  /\ st.key = KeyOf(b, pieces(b)) ++ EpKey(st.epSquare) ++ When(us = BLACK, side) ++ castlingKey(st.castlingRights)
ChecksAgree(b, us, st) ==
  /\ st.checkersBB = attackers_to(b, square(b, us), pieces(b)) \cap OfColor(b, Them(us))
  /\ st.blockersForKing = blockersForKing(b)
  /\ st.pinners = pinners(b)
  /\ st.checkSquares = checkSquares(b, us)
StateFields ==
  {"materialKey", "pawnKey", "minorPieceKey", "nonPawnKey", "nonPawnMaterial", "castlingRights", "rule50",
   "pliesFromNull", "epSquare", "key", "checkersBB", "blockersForKing", "pinners", "checkSquares",
   "capturedPiece", "repetition"}
IsState(st) == st = [k \in StateFields |-> st[k]]
Level(b, us, st, cas, c960) ==
  /\ IsBoard(b) /\ PawnsPlaced(b) /\ KingsStand(b) /\ us \in Color
  /\ IsState(st) /\ KeysAgree(b, us, st) /\ ChecksAgree(b, us, st)
  /\ CastlingsSound(cas, c960) /\ RightsSound(b, cas, st.castlingRights)
  /\ EpSound(b, us, st.epSquare, blockersForKing(b)[us])
  /\ ~Attacked(b, DOMAIN b, us, square(b, Them(us)))

-------------------------------------------------------------------------------
(***************************************************************************)
(* Which moves are generated.                                              *)
(***************************************************************************)
(* The position on the board is level with its state.                      *)
Sound(p) == Level(p.board, p.sideToMove, St(p), p.castling, p.chess960)

(* The kinds of moves that are generated.                                  *)
Mover(b, us, m) ==
  /\ m.from \in DOMAIN b /\ color_of(b[m.from]) = us /\ m.to \in Square
  /\ m.to \in DOMAIN b => color_of(b[m.to]) = Them(us)
PieceGoes(b, us, m) ==
  /\ Mover(b, us, m) /\ m.type = "normal" /\ m.promo = 0
  /\ type_of(b[m.from]) \in KNIGHT .. KING /\ Hits(b, DOMAIN b, m.from, m.to)
Ahead(us, s, t, n) == F(t) = F(s) /\ R(t) = R(s) + IF us = WHITE THEN n ELSE -n
PawnWay(b, us, s, t) ==
  \/ Ahead(us, s, t, 1) /\ t \notin DOMAIN b
  \/ Ahead(us, s, t, 2) /\ relative_rank(us, s) = 1 /\ s + pawn_push(us) \notin DOMAIN b /\ t \notin DOMAIN b
  \/ Strikes(us, s, t) /\ t \in DOMAIN b
PawnGoes(b, us, m) ==
  /\ Mover(b, us, m) /\ b[m.from] = make_piece(us, PAWN) /\ PawnWay(b, us, m.from, m.to)
  /\ IF relative_rank(us, m.from) = 6 THEN m.type = "promotion" /\ m.promo \in KNIGHT .. QUEEN
                                      ELSE m.type = "normal" /\ m.promo = 0
Passing(b, us, ep, m) ==
  /\ m.type = "enpassant" /\ m.promo = 0 /\ m.from \in DOMAIN b /\ b[m.from] = make_piece(us, PAWN)
  /\ m.to = ep /\ ep # SQ_NONE /\ Strikes(us, m.from, ep)
CastlesWith(p, m, cr) ==
  /\ cr \in CastlingOf(p.sideToMove) /\ cr \in St(p).castlingRights
  /\ DOMAIN p.board \cap p.castling[cr].path = {}
  /\ m = Castle(MyKing(p), p.castling[cr].rook) /\ checkers(p) = {}

(* What the rest needs of a sound position.                                *)
LEMMA SoundFacts ==
  ASSUME NEW p, Sound(p)
  PROVE  /\ IsBoard(p.board) /\ PawnsPlaced(p.board) /\ p.sideToMove \in Color /\ Them(p.sideToMove) \in Color
         /\ MyKing(p) \in Square /\ TheirKing(p) \in Square
         /\ KingAt(p.board, p.sideToMove, MyKing(p)) /\ KingAt(p.board, Them(p.sideToMove), TheirKing(p))
         /\ \A x : x \in checkers(p) <=> /\ x \in DOMAIN p.board /\ color_of(p.board[x]) = Them(p.sideToMove)
                                         /\ Hits(p.board, DOMAIN p.board, x, MyKing(p))
         /\ St(p).blockersForKing = blockersForKing(p.board)
         /\ St(p).checkSquares = checkSquares(p.board, p.sideToMove)
<1>1. /\ IsBoard(p.board) /\ PawnsPlaced(p.board) /\ p.sideToMove \in Color /\ KingsStand(p.board)
      /\ ChecksAgree(p.board, p.sideToMove, St(p))
  BY DEF Sound, Level
<1>2. Them(p.sideToMove) \in Color
  BY <1>1, Pieces
<1>3. KingAt(p.board, p.sideToMove, MyKing(p)) /\ KingAt(p.board, Them(p.sideToMove), TheirKing(p))
  BY <1>1, <1>2 DEF KingsStand, MyKing, TheirKing
<1>4. MyKing(p) \in Square /\ TheirKing(p) \in Square
  BY <1>1, <1>3 DEF KingAt, IsBoard
<1>5. checkers(p) = attackers_to(p.board, MyKing(p), DOMAIN p.board) \cap OfColor(p.board, Them(p.sideToMove))
  BY <1>1 DEF ChecksAgree, checkers, MyKing, pieces
<1>6. \A x : x \in attackers_to(p.board, MyKing(p), DOMAIN p.board) <=> Hits(p.board, DOMAIN p.board, x, MyKing(p))
  BY <1>1, <1>4, AttackersIs
<1>7. ASSUME NEW x
      PROVE  x \in checkers(p) <=> /\ x \in DOMAIN p.board /\ color_of(p.board[x]) = Them(p.sideToMove)
                                   /\ Hits(p.board, DOMAIN p.board, x, MyKing(p))
  BY <1>5, <1>6 DEF OfColor
<1>8. /\ St(p).blockersForKing = blockersForKing(p.board)
      /\ St(p).checkSquares = checkSquares(p.board, p.sideToMove)
  BY <1>1 DEF ChecksAgree
<1>. QED
  BY <1>1, <1>2, <1>3, <1>4, <1>7, <1>8

(* Nothing stands between a piece and what it hits. *)
LEMMA HitsOpen ==
  ASSUME NEW b, IsBoard(b), NEW occ, NEW x \in DOMAIN b, NEW t \in Square, Hits(b, occ, x, t), NEW z \in Square,
         Inside(x, t, z)
  PROVE  z \notin occ /\ type_of(b[x]) \in {BISHOP, ROOK, QUEEN}
<1>1. x \in Square
  BY DEF IsBoard
<1>2. ~Near(x, t) /\ ~Jumps(x, t) /\ \A c : ~Strikes(c, x, t)
  BY <1>1, NothingInside
<1>. QED
  BY <1>2 DEF Hits, Clear

(* A single checker, and the squares an evasion may go to.                 *)
LEMMA OneChecker ==
  ASSUME NEW p, Sound(p), checkers(p) # {}, ~more_than_one(checkers(p))
  PROVE  \E x : /\ checkers(p) = {x} /\ Lsb(checkers(p)) = x
                /\ \A t \in BetweenBB[MyKing(p)][x] :
                     /\ t \in Square /\ (t = x \/ Inside(MyKing(p), x, t))
                     /\ t \in DOMAIN p.board => t = x
<1>1. checkers(p) \subseteq Square
  BY SoundFacts DEF IsBoard
<1>2. IsFiniteSet(checkers(p)) /\ Cardinality(checkers(p)) \in Nat /\ Cardinality(checkers(p)) # 0
  BY <1>1, Finite, FS_CardinalityType, FS_EmptySet
<1>3. Cardinality(checkers(p)) = 1
  BY <1>2 DEF more_than_one
<1>4. PICK x : checkers(p) = {x}
  BY <1>2, <1>3, FS_Singleton
<1>5. x \in Square /\ x \in DOMAIN p.board /\ Hits(p.board, DOMAIN p.board, x, MyKing(p))
  BY <1>1, <1>4, SoundFacts
<1>6. Lsb(checkers(p)) = x
  <2>1. x \in Int
    BY <1>5, Coordinates
  <2>. QED
    BY <1>4, <2>1 DEF Lsb
<1>7. ASSUME NEW t \in BetweenBB[MyKing(p)][x]
      PROVE  /\ t \in Square /\ (t = x \/ Inside(MyKing(p), x, t))
             /\ t \in DOMAIN p.board => t = x
  <2>1. MyKing(p) \in Square /\ IsBoard(p.board)
    BY SoundFacts
  <2>2. t = x \/ (t \in Square /\ Inside(MyKing(p), x, t))
    BY <1>5, <2>1, BetweenIs
  <2>3. t # x => Inside(x, MyKing(p), t)
    BY <1>5, <2>1, <2>2, InsideSym
  <2>4. t # x => t \notin DOMAIN p.board
    BY <1>5, <2>1, <2>2, <2>3, HitsOpen
  <2>. QED
    BY <1>5, <2>2, <2>4
<1>. QED
  BY <1>4, <1>6, <1>7

(* The squares one and two steps before a pawn.                            *)
LEMMA Forward ==
  ASSUME NEW us \in Color, NEW s \in Square
  PROVE  /\ s + pawn_push(us) \in Square => Ahead(us, s, s + pawn_push(us), 1)
         /\ s + 2 * pawn_push(us) \in Square => Ahead(us, s, s + 2 * pawn_push(us), 2)
         /\ \A t \in Square, n \in Int : Ahead(us, s, t, n) => t = s + n * pawn_push(us)
<1>1. us = WHITE \/ us = BLACK
  BY DEF Color
<1>2. F(s) \in 0 .. 7 /\ R(s) \in 0 .. 7 /\ s = 8 * R(s) + F(s) /\ s \in Int
  BY Coordinates
<1>. DEFINE q == IF us = WHITE THEN 1 ELSE -1
<1>3. q \in {1, -1} /\ pawn_push(us) = 8 * q
  BY <1>1 DEF pawn_push, WHITE, BLACK
<1>4. \A n \in Int : \A t : Ahead(us, s, t, n) <=> F(t) = F(s) /\ R(t) = R(s) + q * n
  <2>. SUFFICES ASSUME NEW n \in Int PROVE (IF us = WHITE THEN n ELSE -n) = q * n
    BY DEF Ahead
  <2>. QED
    BY <1>1 DEF WHITE, BLACK
<1>. HIDE DEF q
<1>5. ASSUME s + pawn_push(us) \in Square PROVE Ahead(us, s, s + pawn_push(us), 1)
  <2>. DEFINE t == s + pawn_push(us)
  <2>1. F(t) \in 0 .. 7 /\ R(t) \in 0 .. 7 /\ t = 8 * R(t) + F(t)
    BY <1>5, Coordinates
  <2>2. t = s + 8 * q
    BY <1>3
  <2>. HIDE DEF t
  <2>3. F(t) = F(s) /\ R(t) = R(s) + q * 1
    BY <1>2, <1>3, <2>1, <2>2
  <2>. QED
    BY <1>4, <2>3 DEF t
<1>6. ASSUME s + 2 * pawn_push(us) \in Square PROVE Ahead(us, s, s + 2 * pawn_push(us), 2)
  <2>. DEFINE t == s + 2 * pawn_push(us)
  <2>1. F(t) \in 0 .. 7 /\ R(t) \in 0 .. 7 /\ t = 8 * R(t) + F(t)
    BY <1>6, Coordinates
  <2>2. t = s + 16 * q
    BY <1>3
  <2>. HIDE DEF t
  <2>3. F(t) = F(s) /\ R(t) = R(s) + q * 2
    BY <1>2, <1>3, <2>1, <2>2
  <2>. QED
    BY <1>4, <2>3 DEF t
<1>7. ASSUME NEW t \in Square, NEW n \in Int, Ahead(us, s, t, n) PROVE t = s + n * pawn_push(us)
  <2>1. F(t) = F(s) /\ R(t) = R(s) + q * n /\ t = 8 * R(t) + F(t)
    BY <1>4, <1>7, Coordinates
  <2>. QED
    BY <1>2, <1>3, <2>1
<1>. QED
  BY <1>5, <1>6, <1>7

(* A move to t takes every piece that gives check, or comes between.       *)
Answers(p, t) == \A x \in checkers(p) : t = x \/ Inside(MyKing(p), x, t)
(* The kinds of pawn moves that are generated.                             *)
OwnPawn(p, s) == s \in DOMAIN p.board /\ s \in Square /\ p.board[s] = make_piece(p.sideToMove, PAWN)
                 /\ color_of(p.board[s]) = p.sideToMove
Rank7(p, s) == relative_rank(p.sideToMove, s) = 6
(* The six ways a pawn moves. *)
PawnMoveOf(p, kind, free, enemies, m, s) ==
  LET us == p.sideToMove  up == pawn_push(us)  ep == St(p).epSquare IN
  \/ m = Normal(s, s + up) /\ ~Rank7(p, s) /\ s + up \in free
  \/ m = Normal(s, s + 2 * up) /\ ~Rank7(p, s) /\ s + up \in Empty(p) /\ relative_rank(us, s + up) = 2 /\ s + 2 * up \in free
  \/ \E pt \in KNIGHT .. QUEEN : m = Promotion(s, s + up, pt) /\ Rank7(p, s) /\ s + up \in free
  \/ \E pt \in KNIGHT .. QUEEN, t \in PawnAttacks[us][s] \cap enemies : m = Promotion(s, t, pt) /\ Rank7(p, s)
  \/ \E t \in PawnAttacks[us][s] \cap enemies : m = Normal(s, t) /\ ~Rank7(p, s)
  \/ ep # SQ_NONE /\ m = EnPassant(s, ep) /\ ~Rank7(p, s) /\ s \in PawnAttacks[Them(us)][ep]

(* The moves generate_pawn_moves makes, one kind after the other.          *)
LEMMA PawnMoveKinds ==
  ASSUME NEW p, Sound(p), NEW kind \in {"evasions", "non_evasions"}, NEW target,
         NEW m \in generate_pawn_moves(p, kind, target)
  PROVE  \E s : OwnPawn(p, s)
           /\ PawnMoveOf(p, kind, IF kind = "evasions" THEN Empty(p) \cap target ELSE Empty(p),
                         IF kind = "evasions" THEN checkers(p) ELSE Theirs(p), m, s)
<1>. DEFINE us == p.sideToMove
            up == pawn_push(us)
            ep == St(p).epSquare
            pawns == Exactly(p.board, us, {PAWN})
            on7 == {s \in pawns : relative_rank(us, s) = 6}
            not7 == pawns \ on7
            free == IF kind = "evasions" THEN Empty(p) \cap target ELSE Empty(p)
            enemies == IF kind = "evasions" THEN checkers(p) ELSE Theirs(p)
<1>1. ASSUME NEW s \in pawns PROVE OwnPawn(p, s)
  <2>1. s \in DOMAIN p.board /\ color_of(p.board[s]) = us /\ type_of(p.board[s]) = PAWN
    BY DEF Exactly
  <2>2. p.board[s] \in Piece /\ s \in Square
    BY <2>1, SoundFacts DEF IsBoard
  <2>. QED
    BY <2>1, <2>2, Pieces DEF OwnPawn
<1>2. \A s : s \in on7 <=> s \in pawns /\ Rank7(p, s)
  BY DEF Rank7
<1>3. \A s : s \in not7 <=> s \in pawns /\ ~Rank7(p, s)
  BY <1>2
<1>4. \A c : PromotionPieces(kind, c) = KNIGHT .. QUEEN
  BY DEF PromotionPieces
<1>5. kind # "captures" /\ kind # "quiets"
  OBVIOUS
<1>. DEFINE A == {Normal(s, s + up) : s \in {s \in not7 : s + up \in free}}
            B == {Normal(s, s + 2 * up) : s \in {s \in not7 : /\ s + up \in Empty(p) /\ relative_rank(us, s + up) = 2
                                                           /\ s + 2 * up \in free}}
            C == UNION {{Promotion(s, s + up, pt) : pt \in PromotionPieces(kind, FALSE)} :
                          s \in {s \in on7 : s + up \in free}}
            D == UNION {UNION {{Promotion(s, to, pt) : pt \in PromotionPieces(kind, TRUE)} :
                          to \in PawnAttacks[us][s] \cap enemies} : s \in on7}
            E == UNION {{Normal(s, to) : to \in PawnAttacks[us][s] \cap enemies} : s \in not7}
            G == IF \/ kind = "quiets" \/ ep = SQ_NONE
                    \/ kind = "evasions" /\ ep + up \in target
                 THEN {} ELSE {EnPassant(s, ep) : s \in not7 \cap PawnAttacks[Them(us)][ep]}
<1>6. m \in (IF kind = "captures" THEN {} ELSE A \cup B) \cup C \cup D \cup (IF kind = "quiets" THEN {} ELSE E) \cup G
  <2>1. generate_pawn_moves(p, kind, target)
          = (IF kind = "captures" THEN {} ELSE A \cup B) \cup C \cup D \cup (IF kind = "quiets" THEN {} ELSE E) \cup G
    BY Zenon DEF generate_pawn_moves
  <2>. QED
    BY <2>1, Zenon
<1>8. G \subseteq {EnPassant(s, ep) : s \in not7 \cap PawnAttacks[Them(us)][ep]} /\ (G # {} => ep # SQ_NONE)
  OBVIOUS
<1>. HIDE DEF A, B, C, D, E, G
<1>9. m \in A \/ m \in B \/ m \in C \/ m \in D \/ m \in E \/ m \in G
  BY <1>5, <1>6
<1>. HIDE DEF us, up, ep, on7, not7, free, enemies, pawns
<1>10. CASE m \in A
  <2>1. PICK s \in not7 : s + up \in free /\ m = Normal(s, s + up)
    BY <1>10 DEF A
  <2>2. s \in pawns /\ ~Rank7(p, s)
    BY <1>3
  <2>3. PawnMoveOf(p, kind, free, enemies, m, s)
    BY <2>1, <2>2 DEF PawnMoveOf, up, us
  <2>. QED
    BY <1>1, <2>2, <2>3 DEF free, enemies
<1>11. CASE m \in B
  <2>1. PICK s \in not7 : /\ s + up \in Empty(p) /\ relative_rank(us, s + up) = 2
                          /\ s + 2 * up \in free /\ m = Normal(s, s + 2 * up)
    BY <1>11 DEF B
  <2>2. s \in pawns /\ ~Rank7(p, s)
    BY <1>3
  <2>3. PawnMoveOf(p, kind, free, enemies, m, s)
    BY <2>1, <2>2 DEF PawnMoveOf, up, us
  <2>. QED
    BY <1>1, <2>2, <2>3 DEF free, enemies
<1>12. CASE m \in C
  <2>1. PICK s \in on7 : s + up \in free /\ \E pt \in KNIGHT .. QUEEN : m = Promotion(s, s + up, pt)
    BY <1>4, <1>12 DEF C
  <2>2. s \in pawns /\ Rank7(p, s)
    BY <1>2
  <2>3. PawnMoveOf(p, kind, free, enemies, m, s)
    BY <2>1, <2>2 DEF PawnMoveOf, up, us
  <2>. QED
    BY <1>1, <2>2, <2>3 DEF free, enemies
<1>13. CASE m \in D
  <2>0. PICK s \in on7 : m \in UNION {{Promotion(s, to, pt) : pt \in PromotionPieces(kind, TRUE)} :
                                        to \in PawnAttacks[us][s] \cap enemies}
    BY <1>13 DEF D
  <2>1. \E pt \in KNIGHT .. QUEEN, t \in PawnAttacks[us][s] \cap enemies : m = Promotion(s, t, pt)
    BY <1>4, <2>0
  <2>2. s \in pawns /\ Rank7(p, s)
    BY <1>2
  <2>3. PawnMoveOf(p, kind, free, enemies, m, s)
    BY <2>1, <2>2 DEF PawnMoveOf, up, us
  <2>. QED
    BY <1>1, <2>2, <2>3 DEF free, enemies
<1>14. CASE m \in E
  <2>1. PICK s \in not7 : \E t \in PawnAttacks[us][s] \cap enemies : m = Normal(s, t)
    BY <1>14 DEF E
  <2>2. s \in pawns /\ ~Rank7(p, s)
    BY <1>3
  <2>3. PawnMoveOf(p, kind, free, enemies, m, s)
    BY <2>1, <2>2 DEF PawnMoveOf, up, us
  <2>. QED
    BY <1>1, <2>2, <2>3 DEF free, enemies
<1>15. CASE m \in G
  <2>1. PICK s \in not7 : s \in PawnAttacks[Them(us)][ep] /\ m = EnPassant(s, ep) /\ ep # SQ_NONE
    BY <1>8, <1>15
  <2>2. s \in pawns /\ ~Rank7(p, s)
    BY <1>3
  <2>3. PawnMoveOf(p, kind, free, enemies, m, s)
    BY <2>1, <2>2 DEF PawnMoveOf, up, us, ep
  <2>. QED
    BY <1>1, <2>2, <2>3 DEF free, enemies
<1>. QED
  BY <1>9, <1>10, <1>11, <1>12, <1>13, <1>14, <1>15

(* Generated pawn moves go as pawns go, and answer a check if asked to.    *)
LEMMA PawnGeneration ==
  ASSUME NEW p, Sound(p), NEW kind \in {"evasions", "non_evasions"}, NEW target,
         kind = "evasions" => /\ \A t \in target : Answers(p, t)
                              /\ \A x \in checkers(p) : Answers(p, x),
         NEW m \in generate_pawn_moves(p, kind, target)
  PROVE  \/ PawnGoes(p.board, p.sideToMove, m) /\ (kind = "evasions" => Answers(p, m.to))
         \/ Passing(p.board, p.sideToMove, St(p).epSquare, m)
<1>. DEFINE b == p.board
            us == p.sideToMove
            up == pawn_push(us)
            ep == St(p).epSquare
            free == IF kind = "evasions" THEN Empty(p) \cap target ELSE Empty(p)
            enemies == IF kind = "evasions" THEN checkers(p) ELSE Theirs(p)
<1>1. PICK s : OwnPawn(p, s) /\ PawnMoveOf(p, kind, free, enemies, m, s)
  BY PawnMoveKinds
<1>2. /\ \A t \in free : t \in Square /\ t \notin DOMAIN b /\ (kind = "evasions" => Answers(p, t))
      /\ \A t \in Empty(p) : t \in Square /\ t \notin DOMAIN b
  BY DEF Empty, pieces
<1>3. \A t \in enemies : t \in Square /\ t \in DOMAIN b /\ color_of(b[t]) = Them(us) /\ (kind = "evasions" => Answers(p, t))
  BY SoundFacts DEF Theirs, OfColor, IsBoard
<1>4. us \in Color /\ Them(us) \in Color /\ s \in Square /\ s \in DOMAIN b /\ b[s] = make_piece(us, PAWN) /\ color_of(b[s]) = us
  BY <1>1, SoundFacts DEF OwnPawn
<1>5. \A t \in PawnAttacks[us][s] : t \in Square /\ Strikes(us, s, t)
  BY <1>4, PawnIs
<1>6. \/ m = Normal(s, s + up) /\ ~Rank7(p, s) /\ s + up \in free
      \/ m = Normal(s, s + 2 * up) /\ ~Rank7(p, s) /\ s + up \in Empty(p) /\ relative_rank(us, s + up) = 2 /\ s + 2 * up \in free
      \/ \E pt \in KNIGHT .. QUEEN : m = Promotion(s, s + up, pt) /\ Rank7(p, s) /\ s + up \in free
      \/ \E pt \in KNIGHT .. QUEEN, t \in PawnAttacks[us][s] \cap enemies : m = Promotion(s, t, pt) /\ Rank7(p, s)
      \/ \E t \in PawnAttacks[us][s] \cap enemies : m = Normal(s, t) /\ ~Rank7(p, s)
      \/ ep # SQ_NONE /\ m = EnPassant(s, ep) /\ ~Rank7(p, s) /\ s \in PawnAttacks[Them(us)][ep]
  BY <1>1 DEF PawnMoveOf
<1>7. Rank7(p, s) <=> relative_rank(us, s) = 6
  BY DEF Rank7
<1>. HIDE DEF b, us, up, ep, free, enemies
<1>8. ASSUME NEW t \in Square, t \in DOMAIN b => color_of(b[t]) = Them(us), PawnWay(b, us, s, t),
             kind = "evasions" => Answers(p, t),
             \/ m = Normal(s, t) /\ ~Rank7(p, s)
             \/ \E pt \in KNIGHT .. QUEEN : m = Promotion(s, t, pt) /\ Rank7(p, s)
      PROVE  PawnGoes(b, us, m) /\ (kind = "evasions" => Answers(p, m.to))
  <2>1. m.from = s /\ m.to = t
    BY <1>8 DEF Normal, Promotion
  <2>2. IF relative_rank(us, s) = 6 THEN m.type = "promotion" /\ m.promo \in KNIGHT .. QUEEN
                                    ELSE m.type = "normal" /\ m.promo = 0
    BY <1>7, <1>8 DEF Normal, Promotion
  <2>. QED
    BY <1>4, <1>8, <2>1, <2>2 DEF PawnGoes, Mover
<1>9. CASE s + up \in free /\ ((m = Normal(s, s + up) /\ ~Rank7(p, s)) \/ \E pt \in KNIGHT .. QUEEN : m = Promotion(s, s + up, pt) /\ Rank7(p, s))
  <2>1. Ahead(us, s, s + up, 1) /\ s + up \in Square /\ s + up \notin DOMAIN b /\ (kind = "evasions" => Answers(p, s + up))
    BY <1>2, <1>4, <1>9, Forward DEF up
  <2>. QED
    BY <1>8, <1>9, <2>1 DEF PawnWay, b, us
<1>10. CASE m = Normal(s, s + 2 * up) /\ ~Rank7(p, s) /\ s + up \in Empty(p) /\ relative_rank(us, s + up) = 2 /\ s + 2 * up \in free
  <2>1. Ahead(us, s, s + 2 * up, 2) /\ s + 2 * up \in Square /\ s + 2 * up \notin DOMAIN b /\ s + up \notin DOMAIN b
        /\ (kind = "evasions" => Answers(p, s + 2 * up))
    BY <1>2, <1>4, <1>10, Forward DEF up
  <2>2. relative_rank(us, s) = 1
    <3>1. Ahead(us, s, s + up, 1) /\ s + up \in Square
      BY <1>2, <1>4, <1>10, Forward DEF up
    <3>2. R(s + up) = R(s) + (IF us = WHITE THEN 1 ELSE -1) /\ R(s) \in Int /\ R(s + up) \in Int
      BY <1>4, <3>1, Coordinates DEF Ahead
    <3>. QED
      BY <1>10, <3>2 DEF relative_rank, R
  <2>. QED
    BY <1>8, <1>10, <2>1, <2>2 DEF PawnWay, b, us, up
<1>11. CASE \E t \in PawnAttacks[us][s] \cap enemies : (m = Normal(s, t) /\ ~Rank7(p, s)) \/ \E pt \in KNIGHT .. QUEEN : m = Promotion(s, t, pt) /\ Rank7(p, s)
  <2>1. PICK t \in PawnAttacks[us][s] \cap enemies : (m = Normal(s, t) /\ ~Rank7(p, s)) \/ \E pt \in KNIGHT .. QUEEN : m = Promotion(s, t, pt) /\ Rank7(p, s)
    BY <1>11
  <2>2. t \in Square /\ Strikes(us, s, t) /\ t \in DOMAIN b /\ color_of(b[t]) = Them(us) /\ (kind = "evasions" => Answers(p, t))
    BY <1>3, <1>5
  <2>. QED
    BY <1>8, <2>1, <2>2 DEF PawnWay, b, us
<1>12. CASE ep # SQ_NONE /\ m = EnPassant(s, ep) /\ ~Rank7(p, s) /\ s \in PawnAttacks[Them(us)][ep]
  <2>1. ep \in Square
    BY <1>12 DEF Sound, Level, EpSound, ep
  <2>2. Strikes(us, s, ep)
    BY <1>4, <1>12, <2>1, PawnIs, StepsSym, Pieces
  <2>. QED
    BY <1>4, <1>12, <2>2 DEF Passing, EnPassant, b, us, ep
<1>. QED
  BY <1>6, <1>9, <1>10, <1>11, <1>12 DEF b, us

(* A piece that is not ours is theirs.                                     *)
LEMMA OtherSide ==
  ASSUME NEW b, IsBoard(b), NEW us \in Color, NEW t \in DOMAIN b, color_of(b[t]) # us
  PROVE  color_of(b[t]) = Them(us)
<1>1. color_of(b[t]) \in Color
  BY Pieces DEF IsBoard
<1>. QED
  BY <1>1 DEF Color, Them, WHITE, BLACK

(* Generated piece moves go as the pieces go.                              *)
LEMMA PieceGeneration ==
  ASSUME NEW p, Sound(p), NEW target, NEW m \in generate_moves(p, target),
         \A t \in target : t \in Square /\ (t \in DOMAIN p.board => color_of(p.board[t]) = Them(p.sideToMove))
  PROVE  PieceGoes(p.board, p.sideToMove, m) /\ m.to \in target
<1>. DEFINE b == p.board
            us == p.sideToMove
<1>1. PICK s \in Exactly(b, us, KNIGHT .. QUEEN) :
        \E t \in attacks_bb(type_of(b[s]), s, pieces(b)) \cap target : m = Normal(s, t)
  BY DEF generate_moves
<1>2. PICK t \in attacks_bb(type_of(b[s]), s, pieces(b)) \cap target : m = Normal(s, t)
  BY <1>1
<1>3. s \in DOMAIN b /\ color_of(b[s]) = us /\ type_of(b[s]) \in KNIGHT .. QUEEN
  BY <1>1 DEF Exactly
<1>4. s \in Square /\ t \in Square /\ t \in target
  BY <1>2, <1>3, SoundFacts DEF IsBoard
<1>5. Hits(b, DOMAIN b, s, t)
  <2>1. CASE type_of(b[s]) = KNIGHT
    <3>1. t \in PseudoAttacks[KNIGHT][s]
      BY <1>2, <2>1 DEF attacks_bb
    <3>. QED
      BY <1>3, <1>4, <2>1, <3>1, KnightIs DEF Hits
  <2>2. CASE type_of(b[s]) # KNIGHT
    <3>1. type_of(b[s]) \in {BISHOP, ROOK, QUEEN} /\ type_of(b[s]) \notin {KNIGHT, KING}
      BY <1>3, <2>2, TypesDiffer
    <3>2. t \in sliding_attack(type_of(b[s]), s, DOMAIN b)
      BY <1>2, <3>1 DEF attacks_bb, pieces
    <3>3. Aligned(type_of(b[s]), s, t) /\ Clear(s, t, DOMAIN b)
      BY <1>4, <3>2, SlidingIs
    <3>. QED
      BY <1>3, <3>1, <3>3 DEF Hits
  <2>. QED
    BY <2>1, <2>2
<1>6. m.from = s /\ m.to = t /\ m.type = "normal" /\ m.promo = 0
  BY <1>2 DEF Normal
<1>7. type_of(b[s]) \in KNIGHT .. KING
  BY <1>3, TypesDiffer
<1>. QED
  BY <1>3, <1>4, <1>5, <1>6, <1>7 DEF PieceGoes, Mover

(* Generated king moves go as the king goes.                               *)
LEMMA KingGeneration ==
  ASSUME NEW p, Sound(p), NEW t \in PseudoAttacks[KING][MyKing(p)] \cap (Square \ Mine(p))
  PROVE  PieceGoes(p.board, p.sideToMove, Normal(MyKing(p), t))
<1>. DEFINE b == p.board
            us == p.sideToMove
            k == MyKing(p)
            m == Normal(k, t)
<1>1. k \in Square /\ k \in DOMAIN b /\ b[k] = make_piece(us, KING) /\ us \in Color /\ IsBoard(b)
  BY SoundFacts DEF KingAt
<1>2. type_of(b[k]) = KING /\ color_of(b[k]) = us
  BY <1>1, Pieces, TypesDiffer
<1>3. Near(k, t) /\ t \in Square
  BY <1>1, KingIs
<1>4. t \in DOMAIN b => color_of(b[t]) = Them(us)
  BY <1>1, OtherSide DEF Mine, OfColor
<1>5. m.from = k /\ m.to = t /\ m.type = "normal" /\ m.promo = 0
  BY DEF Normal
<1>6. Hits(b, DOMAIN b, k, t) /\ type_of(b[k]) \in KNIGHT .. KING
  BY <1>1, <1>2, <1>3, TypesDiffer DEF Hits
<1>. HIDE DEF m, k, b, us
<1>7. Mover(b, us, m)
  BY <1>1, <1>2, <1>3, <1>4, <1>5 DEF Mover
<1>8. PieceGoes(b, us, m)
  BY <1>5, <1>6, <1>7 DEF PieceGoes
<1>. QED
  BY <1>8 DEF m, k, b, us

(* Every generated move is one of a piece, of a pawn, in passing or        *)
(* castling.                                                               *)
LEMMA Generated ==
  ASSUME NEW p, Sound(p), NEW m \in AllMoves(p)
  PROVE  \/ PieceGoes(p.board, p.sideToMove, m) /\ (checkers(p) # {} /\ m.from # MyKing(p) => Answers(p, m.to))
         \/ PawnGoes(p.board, p.sideToMove, m) /\ (checkers(p) # {} => Answers(p, m.to))
         \/ Passing(p.board, p.sideToMove, St(p).epSquare, m)
         \/ \E cr : CastlesWith(p, m, cr)
<1>. DEFINE b == p.board
            us == p.sideToMove
            kind == IF checkers(p) # {} THEN "evasions" ELSE "non_evasions"
            target == Target(p, kind)
            kingTarget == IF kind = "evasions" THEN Square \ Mine(p) ELSE Target(p, kind)
<1>0. Target(p, "non_evasions") = Square \ Mine(p)
  BY DEF Target
<1>1. kingTarget = Square \ Mine(p) /\ kind \in {"evasions", "non_evasions"} /\ (kind = "evasions" <=> checkers(p) # {})
  BY <1>0
<1>2. m \in (IF kind = "evasions" /\ more_than_one(checkers(p)) THEN {}
             ELSE generate_pawn_moves(p, kind, target) \cup generate_moves(p, target))
            \cup {Normal(MyKing(p), to) : to \in PseudoAttacks[KING][MyKing(p)] \cap kingTarget}
            \cup (IF kind \in {"quiets", "non_evasions"} THEN CastlingMoves(p) ELSE {})
  BY DEF AllMoves, generate
<1>. HIDE DEF kind, target, kingTarget
<1>3. \/ /\ ~(kind = "evasions" /\ more_than_one(checkers(p)))
         /\ m \in generate_pawn_moves(p, kind, target) \/ m \in generate_moves(p, target)
      \/ \E to \in PseudoAttacks[KING][MyKing(p)] \cap (Square \ Mine(p)) : m = Normal(MyKing(p), to)
      \/ kind = "non_evasions" /\ m \in CastlingMoves(p)
  BY <1>1, <1>2
<1>4. \A t \in Square \ Mine(p) : t \in DOMAIN b => color_of(b[t]) = Them(us)
  BY SoundFacts, OtherSide DEF Mine, OfColor
<1>5. ASSUME ~(kind = "evasions" /\ more_than_one(checkers(p)))
      PROVE  /\ \A t \in target : t \in Square /\ (t \in DOMAIN b => color_of(b[t]) = Them(us))
             /\ kind = "evasions" => /\ \A t \in target : Answers(p, t)
                                     /\ \A x \in checkers(p) : Answers(p, x)
  <2>1. CASE kind = "evasions"
    <3>1. PICK x : /\ checkers(p) = {x} /\ Lsb(checkers(p)) = x
                   /\ \A t \in BetweenBB[MyKing(p)][x] :
                        /\ t \in Square /\ (t = x \/ Inside(MyKing(p), x, t))
                        /\ t \in DOMAIN p.board => t = x
      BY <1>1, <1>5, <2>1, OneChecker
    <3>2. target = BetweenBB[MyKing(p)][x]
      BY <2>1, <3>1 DEF target, Target
    <3>3. color_of(b[x]) = Them(us)
      BY <3>1, SoundFacts
    <3>. QED
      BY <3>1, <3>2, <3>3 DEF Answers
  <2>2. CASE kind # "evasions"
    <3>1. target = Square \ Mine(p)
      BY <1>0, <1>1, <2>2 DEF target
    <3>. QED
      BY <1>4, <2>2, <3>1
  <2>. QED
    BY <2>1, <2>2
<1>6. CASE ~(kind = "evasions" /\ more_than_one(checkers(p))) /\ m \in generate_pawn_moves(p, kind, target)
  BY <1>1, <1>5, <1>6, PawnGeneration
<1>7. CASE ~(kind = "evasions" /\ more_than_one(checkers(p))) /\ m \in generate_moves(p, target)
  BY <1>1, <1>5, <1>7, PieceGeneration
<1>8. CASE \E to \in PseudoAttacks[KING][MyKing(p)] \cap (Square \ Mine(p)) : m = Normal(MyKing(p), to)
  <2>1. m.from = MyKing(p)
    BY <1>8 DEF Normal
  <2>. QED
    BY <1>8, <2>1, KingGeneration
<1>9. CASE kind = "non_evasions" /\ m \in CastlingMoves(p)
  <2>1. PICK cr \in CastlingOf(us) : can_castle(p, cr) /\ ~castling_impeded(p, cr) /\ m = Castle(MyKing(p), p.castling[cr].rook)
    BY <1>9 DEF CastlingMoves
  <2>. QED
    BY <1>1, <1>9, <2>1 DEF CastlesWith, can_castle, castling_impeded, pieces
<1>. QED
  BY <1>3, <1>6, <1>7, <1>8, <1>9

-------------------------------------------------------------------------------
(***************************************************************************)
(* Generated moves are such as do_move expects.                            *)
(***************************************************************************)
(* A pawn hits the same squares whatever stands between.                   *)
LEMMA HitsElse ==
  ASSUME NEW b, IsBoard(b), NEW s \in DOMAIN b, NEW t \in Square, NEW c \in Color, b[s] = make_piece(c, PAWN)
  PROVE  \A occ : Hits(b, occ, s, t) <=> Strikes(c, s, t)
<1>1. type_of(b[s]) = PAWN /\ color_of(b[s]) = c
  BY Pieces, TypesDiffer
<1>. QED
  BY <1>1, TypesDiffer DEF Hits

(* A generated move takes no king.                                         *)
LEMMA NoKingTaken ==
  ASSUME NEW p, Sound(p), NEW m, PieceGoes(p.board, p.sideToMove, m) \/ PawnGoes(p.board, p.sideToMove, m)
  PROVE  /\ m.to # TheirKing(p) /\ m.to # m.from /\ m.to # MyKing(p)
         /\ m.to \in DOMAIN p.board => type_of(p.board[m.to]) # KING
<1>. DEFINE b == p.board
            us == p.sideToMove
            them == Them(us)
<1>1. us \in Color /\ them \in Color /\ us # them /\ IsBoard(b)
  BY SoundFacts, Pieces
<1>2. Mover(b, us, m)
  BY DEF PieceGoes, PawnGoes
<1>3. m.from \in DOMAIN b /\ m.from \in Square /\ color_of(b[m.from]) = us /\ m.to \in Square /\ (m.to \in DOMAIN b => color_of(b[m.to]) = them)
  BY <1>1, <1>2 DEF Mover, IsBoard
<1>4. m.to \in DOMAIN b => Hits(b, DOMAIN b, m.from, m.to)
  <2>1. CASE PieceGoes(b, us, m)
    BY <2>1 DEF PieceGoes
  <2>2. CASE PawnGoes(b, us, m)
    <3>1. m.to \in DOMAIN b => Strikes(us, m.from, m.to) /\ b[m.from] = make_piece(us, PAWN)
      BY <2>2 DEF PawnGoes, PawnWay
    <3>. QED
      BY <1>1, <1>3, <3>1, HitsElse
  <2>. QED
    BY <2>1, <2>2
<1>5. KingAt(b, us, MyKing(p)) /\ KingAt(b, them, TheirKing(p))
  BY SoundFacts
<1>6. ~Attacked(b, DOMAIN b, us, TheirKing(p))
  BY DEF Sound, Level, TheirKing
<1>7. m.to # TheirKing(p)
  BY <1>3, <1>4, <1>5, <1>6 DEF KingAt, Attacked
<1>8. m.to # MyKing(p)
  BY <1>1, <1>3, <1>5, Pieces, TypesDiffer DEF KingAt
<1>9. m.to \in DOMAIN b => type_of(b[m.to]) # KING
  <2>. SUFFICES ASSUME m.to \in DOMAIN b, type_of(b[m.to]) = KING PROVE FALSE
    OBVIOUS
  <2>1. b[m.to] \in Piece
    BY <1>1 DEF IsBoard
  <2>2. b[m.to] = make_piece(them, KING)
    BY <1>3, <2>1, Pieces
  <2>. QED
    BY <1>5, <1>7, <2>2 DEF KingAt
<1>. QED
  BY <1>1, <1>3, <1>7, <1>8, <1>9

(* The rank a pawn comes to. *)
LEMMA PawnRanks ==
  ASSUME NEW b, IsBoard(b), PawnsPlaced(b), NEW us \in Color, NEW m, PawnGoes(b, us, m)
  PROVE  /\ R(m.from) \in 1 .. 6
         /\ m.type = "promotion" => relative_rank(us, m.to) = 7 /\ relative_rank(us, m.from) = 6
         /\ m.type # "promotion" => R(m.to) \in 1 .. 6
<1>1. m.from \in DOMAIN b /\ m.from \in Square /\ m.to \in Square /\ b[m.from] = make_piece(us, PAWN)
      /\ PawnWay(b, us, m.from, m.to)
      /\ IF relative_rank(us, m.from) = 6 THEN m.type = "promotion" ELSE m.type = "normal"
  BY DEF PawnGoes, Mover, IsBoard
<1>2. type_of(b[m.from]) = PAWN
  BY <1>1, Pieces, TypesDiffer
<1>3. R(m.from) \in 1 .. 6
  BY <1>1, <1>2 DEF PawnsPlaced
<1>4. R(m.to) \in 0 .. 7
  BY <1>1, Coordinates
<1>. DEFINE q == IF us = WHITE THEN 1 ELSE -1
<1>5. us \in {0, 1} /\ WHITE = 0
  BY DEF Color, WHITE, BLACK
<1>6. \/ R(m.to) = R(m.from) + q
      \/ R(m.to) = R(m.from) + 2 * q /\ relative_rank(us, m.from) = 1
  BY <1>1, <1>3, <1>4, <1>5 DEF PawnWay, Ahead, Strikes
<1>7. \A s : relative_rank(us, s) = IF us = WHITE THEN R(s) ELSE 7 - R(s)
  BY DEF relative_rank, R
<1>. QED
  BY <1>1, <1>3, <1>4, <1>5, <1>6, <1>7

(* Moves of pieces and pawns are such as do_move expects.                  *)
LEMMA GoesProper ==
  ASSUME NEW p, Sound(p), NEW m, PieceGoes(p.board, p.sideToMove, m) \/ PawnGoes(p.board, p.sideToMove, m)
  PROVE  Proper(p.board, p.sideToMove, m) /\ m.type # "enpassant" /\ CaptureSquare(p.sideToMove, m) = m.to
<1>. DEFINE b == p.board
            us == p.sideToMove
            q == Arrived(b, us, m)
<1>1. us \in Color /\ IsBoard(b) /\ PawnsPlaced(b)
  BY SoundFacts
<1>2. Mover(b, us, m)
  BY DEF PieceGoes, PawnGoes
<1>3. /\ m.from \in DOMAIN b /\ color_of(b[m.from]) = us /\ m.to \in Square
      /\ m.to \in DOMAIN b => color_of(b[m.to]) = Them(us) /\ type_of(b[m.to]) # KING
      /\ m.to # m.from /\ b[m.from] \in Piece
  BY <1>1, <1>2, NoKingTaken DEF Mover, IsBoard
<1>4. m.type \in {"normal", "promotion"} /\ (m.type = "promotion" => b[m.from] = make_piece(us, PAWN) /\ m.promo \in KNIGHT .. QUEEN)
      /\ (m.type # "promotion" => m.promo = 0)
  BY DEF PieceGoes, PawnGoes
<1>5. CaptureSquare(us, m) = m.to
  BY <1>4 DEF CaptureSquare
<1>6. q \in Piece
  <2>1. m.promo \in KNIGHT .. QUEEN => m.promo \in PieceType
    BY TypesDiffer DEF PieceType
  <2>. QED
    BY <1>1, <1>3, <1>4, <2>1, Pieces DEF Arrived
<1>7. Playable(b, us, m)
  BY <1>1, <1>3, <1>4, <1>5, <1>6 DEF Playable, CanMove
<1>8. m.type = "promotion" => relative_rank(us, m.to) = 7
  BY <1>1, PawnRanks DEF PieceGoes
<1>9. m.type # "promotion" /\ type_of(b[m.from]) = PAWN => R(m.to) \in 1 .. 6
  <2>1. PieceGoes(b, us, m) => type_of(b[m.from]) # PAWN
    BY TypesDiffer DEF PieceGoes
  <2>. QED
    BY <1>1, <2>1, PawnRanks
<1>10. piece_on(b, CaptureSquare(us, m)) # NO_PIECE =>
         /\ color_of(piece_on(b, CaptureSquare(us, m))) = Them(us)
         /\ type_of(piece_on(b, CaptureSquare(us, m))) # KING
  BY <1>3, <1>5 DEF piece_on
<1>. QED
  BY <1>1, <1>3, <1>4, <1>5, <1>7, <1>8, <1>9, <1>10 DEF Proper

(* So is a capture in passing.                                             *)
LEMMA PassingProper ==
  ASSUME NEW p, Sound(p), NEW m, Passing(p.board, p.sideToMove, St(p).epSquare, m)
  PROVE  /\ Proper(p.board, p.sideToMove, m)
         /\ m.to \in Square /\ m.to \notin DOMAIN p.board /\ relative_rank(p.sideToMove, m.to) = 5
         /\ CaptureSquare(p.sideToMove, m) = m.to - pawn_push(p.sideToMove)
         /\ m.to - pawn_push(p.sideToMove) \in DOMAIN p.board
         /\ p.board[m.to - pawn_push(p.sideToMove)] = make_piece(Them(p.sideToMove), PAWN)
<1>. DEFINE b == p.board
            us == p.sideToMove
            ep == St(p).epSquare
            cap == ep - pawn_push(us)
<1>1. us \in Color /\ Them(us) \in Color /\ us # Them(us) /\ IsBoard(b) /\ PawnsPlaced(b)
  BY SoundFacts, Pieces
<1>2. m.type = "enpassant" /\ m.promo = 0 /\ m.from \in DOMAIN b /\ b[m.from] = make_piece(us, PAWN)
      /\ m.to = ep /\ ep # SQ_NONE
  BY DEF Passing
<1>3. ep \in Square /\ relative_rank(us, ep) = 5 /\ ep \notin DOMAIN b /\ cap \in DOMAIN b
      /\ b[cap] = make_piece(Them(us), PAWN)
  BY <1>2 DEF Sound, Level, EpSound
<1>4. CaptureSquare(us, m) = cap
  BY <1>2 DEF CaptureSquare
<1>5. /\ type_of(b[m.from]) = PAWN /\ color_of(b[m.from]) = us /\ b[m.from] \in Piece
      /\ type_of(b[cap]) = PAWN /\ color_of(b[cap]) = Them(us)
  BY <1>1, <1>2, <1>3, Pieces, TypesDiffer
<1>6. cap # m.from /\ ep # m.from /\ cap \in Square
  BY <1>1, <1>2, <1>3, <1>5 DEF IsBoard
<1>. HIDE DEF b, us, ep, cap
<1>7. Arrived(b, us, m) = b[m.from]
  BY <1>2 DEF Arrived
<1>8. CanMove(b, m.from, CaptureSquare(us, m), m.to, Arrived(b, us, m))
  BY <1>1, <1>2, <1>3, <1>4, <1>5, <1>6, <1>7 DEF CanMove
<1>9. Playable(b, us, m)
  BY <1>1, <1>2, <1>3, <1>4, <1>8 DEF Playable
<1>10. R(m.to) \in 1 .. 6
  BY <1>2, <1>3, Coordinates DEF relative_rank, R
<1>11. piece_on(b, CaptureSquare(us, m)) = b[cap]
  BY <1>3, <1>4 DEF piece_on
<1>12. Proper(b, us, m)
  BY <1>1, <1>2, <1>5, <1>9, <1>10, <1>11, TypesDiffer DEF Proper
<1>. QED
  BY <1>2, <1>3, <1>4, <1>12 DEF b, us, ep, cap

(* The castling rights of a color, and where king and rook go.             *)
LEMMA CastlingSides ==
  ASSUME NEW us \in Color, NEW cr \in CastlingOf(us)
  PROVE  /\ CastlingColor(cr) = us /\ cr \in {1, 2, 4, 8}
         /\ \A m : (cr \in KING_SIDE <=> m.to > m.from) => CastlingRight(us, m) = cr
         /\ KingTarget(cr) \in Square /\ RookTarget(cr) \in Square
         /\ F(KingTarget(cr)) = (IF cr \in KING_SIDE THEN 6 ELSE 2) /\ F(RookTarget(cr)) = IF cr \in KING_SIDE THEN 5 ELSE 3
         /\ R(KingTarget(cr)) = (IF us = WHITE THEN 0 ELSE 7) /\ R(RookTarget(cr)) = R(KingTarget(cr))
<1>1. (us = WHITE /\ cr \in {1, 2}) \/ (us = BLACK /\ cr \in {4, 8})
  BY DEF CastlingOf, Color, WHITE, BLACK
<1>2. CastlingColor(cr) = us /\ cr \in {1, 2, 4, 8}
  BY <1>1 DEF CastlingColor
<1>3. ASSUME NEW m, cr \in KING_SIDE <=> m.to > m.from PROVE CastlingRight(us, m) = cr
  <2>1. \A c \in CastlingOf(us) : c \in CastlingSide(m) <=> c = cr
    BY <1>1, <1>3 DEF CastlingOf, CastlingSide, KING_SIDE, QUEEN_SIDE, WHITE, BLACK
  <2>. QED
    BY <2>1 DEF CastlingRight
<1>4. \A f \in 0 .. 7 : relative_square(us, f) = 8 * (IF us = WHITE THEN 0 ELSE 7) + f
  BY DEF relative_square, make_square, file_of, rank_of, relative_rank
<1>5. /\ KingTarget(cr) = 8 * (IF us = WHITE THEN 0 ELSE 7) + (IF cr \in KING_SIDE THEN 6 ELSE 2)
      /\ RookTarget(cr) = 8 * (IF us = WHITE THEN 0 ELSE 7) + (IF cr \in KING_SIDE THEN 5 ELSE 3)
  BY <1>2, <1>4 DEF KingTarget, RookTarget
<1>6. (IF us = WHITE THEN 0 ELSE 7) \in 0 .. 7 /\ (IF cr \in KING_SIDE THEN 6 ELSE 2) \in 0 .. 7
      /\ (IF cr \in KING_SIDE THEN 5 ELSE 3) \in 0 .. 7
  OBVIOUS
<1>7. /\ KingTarget(cr) \in Square /\ RookTarget(cr) \in Square
      /\ F(KingTarget(cr)) = (IF cr \in KING_SIDE THEN 6 ELSE 2) /\ F(RookTarget(cr)) = IF cr \in KING_SIDE THEN 5 ELSE 3
      /\ R(KingTarget(cr)) = (IF us = WHITE THEN 0 ELSE 7) /\ R(RookTarget(cr)) = IF us = WHITE THEN 0 ELSE 7
  BY <1>5, <1>6, SquareAt
<1>. QED
  BY <1>2, <1>3, <1>7

(* The king and the rook of a castling move, and the squares between.      *)
Between2(x, a, b) == (a < x /\ x <= b) \/ (b <= x /\ x < a)
OnRank(us, s) == s \in Square /\ R(s) = IF us = WHITE THEN 0 ELSE 7
CastlingPlaces(b, us, m, kto, rto, c960) ==
  /\ OnRank(us, m.from) /\ OnRank(us, m.to) /\ OnRank(us, kto) /\ OnRank(us, rto)
  /\ m.from \in DOMAIN b /\ m.to \in DOMAIN b /\ m.from # m.to
  /\ IF F(m.from) < F(m.to) THEN F(kto) = 6 /\ F(rto) = 5 ELSE F(kto) = 2 /\ F(rto) = 3
  /\ ~c960 => F(m.from) = 4 /\ F(m.to) = IF F(m.from) < F(m.to) THEN 7 ELSE 0
  /\ \A z \in DOMAIN b :
       OnRank(us, z) /\ z # m.from /\ z # m.to
         => ~Between2(F(z), F(m.to), F(rto)) /\ ~Between2(F(z), F(m.from), F(kto))

(* Squares of one rank are in the order of their files.                    *)
LEMMA InsideRank ==
  ASSUME NEW s \in Square, NEW t \in Square, NEW z \in Square, R(s) = R(t)
  PROVE  Inside(s, t, z) <=> R(z) = R(s) /\ ((F(s) < F(z) /\ F(z) < F(t)) \/ (F(t) < F(z) /\ F(z) < F(s)))
<1>1. /\ F(s) \in 0 .. 7 /\ R(s) \in 0 .. 7 /\ F(t) \in 0 .. 7 /\ R(t) \in 0 .. 7 /\ F(z) \in 0 .. 7 /\ R(z) \in 0 .. 7
  BY Coordinates
<1>2. ASSUME NEW d \in KingSteps, NEW n \in 1 .. 7, NEW j \in 1 .. 7, j < n, Toward(s, d, n, t), Toward(s, d, j, z)
      PROVE  R(z) = R(s) /\ ((F(s) < F(z) /\ F(z) < F(t)) \/ (F(t) < F(z) /\ F(z) < F(s)))
  BY <1>1, <1>2 DEF Toward
<1>3. ASSUME R(z) = R(s), F(s) < F(z), F(z) < F(t) PROVE Inside(s, t, z)
  <2>1. Toward(s, 1, F(t) - F(s), t) /\ Toward(s, 1, F(z) - F(s), z) /\ 1 \in KingSteps
    BY <1>1, <1>3, Directions DEF Toward
  <2>2. F(t) - F(s) \in 1 .. 7 /\ F(z) - F(s) \in 1 .. 7 /\ F(z) - F(s) < F(t) - F(s)
    BY <1>1, <1>3
  <2>. QED
    BY <2>1, <2>2 DEF Inside
<1>4. ASSUME R(z) = R(s), F(t) < F(z), F(z) < F(s) PROVE Inside(s, t, z)
  <2>1. Toward(s, -1, F(s) - F(t), t) /\ Toward(s, -1, F(s) - F(z), z) /\ -1 \in KingSteps
    BY <1>1, <1>4, Directions DEF Toward
  <2>2. F(s) - F(t) \in 1 .. 7 /\ F(s) - F(z) \in 1 .. 7 /\ F(s) - F(z) < F(s) - F(t)
    BY <1>1, <1>4
  <2>. QED
    BY <2>1, <2>2 DEF Inside
<1>. QED
  BY <1>2, <1>3, <1>4 DEF Inside

(* So is castling.                                                         *)
LEMMA CastlingProper ==
  ASSUME NEW p, Sound(p), NEW m, NEW cr, CastlesWith(p, m, cr)
  PROVE  /\ Castles(p.board, p.sideToMove, m) /\ CastlingRight(p.sideToMove, m) = cr
         /\ m.type = "castling" /\ m.from = MyKing(p) /\ checkers(p) = {}
         /\ CastlingPlaces(p.board, p.sideToMove, m, KingTarget(cr), RookTarget(cr), p.chess960)
<1>. DEFINE b == p.board
            us == p.sideToMove
            cas == p.castling
            k == cas[cr].king
            r == cas[cr].rook
            kto == KingTarget(cr)
            rto == RookTarget(cr)
            way == cas[cr].path
<1>1. us \in Color /\ IsBoard(b) /\ KingAt(b, us, MyKing(p))
  BY SoundFacts
<1>2. cr \in CastlingOf(us) /\ cr \in St(p).castlingRights /\ DOMAIN b \cap way = {}
      /\ m = Castle(MyKing(p), r) /\ checkers(p) = {}
  BY DEF CastlesWith
<1>3. /\ CastlingColor(cr) = us /\ cr \in {1, 2, 4, 8}
      /\ (cr \in KING_SIDE <=> m.to > m.from) => CastlingRight(us, m) = cr
      /\ kto \in Square /\ rto \in Square
      /\ F(kto) = (IF cr \in KING_SIDE THEN 6 ELSE 2) /\ F(rto) = IF cr \in KING_SIDE THEN 5 ELSE 3
      /\ R(kto) = (IF us = WHITE THEN 0 ELSE 7) /\ R(rto) = R(kto)
  BY <1>1, <1>2, CastlingSides
<1>4. CastlingsSound(cas, p.chess960) /\ RightsSound(b, cas, St(p).castlingRights)
  BY DEF Sound, Level
<1>5. cr \in DOMAIN cas /\ k \in DOMAIN b /\ b[k] = make_piece(us, KING) /\ r \in DOMAIN b /\ b[r] = make_piece(us, ROOK)
  BY <1>2, <1>3, <1>4 DEF RightsSound
<1>6. /\ k \in Square /\ r \in Square /\ k # r
      /\ R(k) = R(kto) /\ R(r) = R(kto)
      /\ cr \in KING_SIDE <=> k < r
      /\ way = (BetweenBB[r][rto] \cup BetweenBB[k][kto]) \ {k, r}
      /\ ~p.chess960 => F(k) = 4 /\ F(r) = IF cr \in KING_SIDE THEN 7 ELSE 0
  BY <1>4, <1>5 DEF CastlingsSound
<1>7. k = MyKing(p)
  BY <1>1, <1>5 DEF KingAt
<1>8. m.from = k /\ m.to = r /\ m.type = "castling"
  BY <1>2, <1>7 DEF Castle
<1>. HIDE DEF b, us, cas, k, r, kto, rto, way
<1>9. k < r <=> F(k) < F(r)
  BY <1>6, Coordinates
<1>10. \A x, y \in Int : x < y <=> y > x
  OBVIOUS
<1>11. k \in Int /\ r \in Int
  BY <1>6, Coordinates
<1>12. CastlingRight(us, m) = cr
  BY <1>3, <1>6, <1>8, <1>10, <1>11
<1>13. ASSUME NEW z \in DOMAIN b, z # k, z # r
       PROVE  /\ z \notin BetweenBB[r][rto] /\ z \notin BetweenBB[k][kto] /\ z # kto /\ z # rto
              /\ ~Inside(r, rto, z) /\ ~Inside(k, kto, z)
  <2>1. z \in Square
    BY <1>1 DEF IsBoard, b
  <2>2. z \notin BetweenBB[r][rto] /\ z \notin BetweenBB[k][kto]
    BY <1>2, <1>6, <1>13
  <2>. QED
    BY <1>3, <1>6, <2>1, <2>2, BetweenIs
<1>14. kto # rto
  BY <1>3
<1>15. DOMAIN b \cap {kto, rto} \subseteq {k, r}
  BY <1>13
<1>16. make_piece(us, KING) \in Piece /\ make_piece(us, ROOK) \in Piece
  BY <1>1, Pieces, TypesDiffer DEF PieceType, us
<1>17. CanCastle(b, k, r, kto, rto, make_piece(us, KING), make_piece(us, ROOK))
  BY <1>1, <1>3, <1>5, <1>6, <1>14, <1>15, <1>16 DEF CanCastle, b, us
<1>18. Castles(b, us, m)
  BY <1>1, <1>5, <1>8, <1>12, <1>17 DEF Castles, b, us, kto, rto
<1>19. ASSUME NEW z \in DOMAIN b, OnRank(us, z), z # k, z # r
       PROVE  ~Between2(F(z), F(r), F(rto)) /\ ~Between2(F(z), F(k), F(kto))
  <2>1. z \in Square /\ R(z) = R(kto)
    BY <1>3, <1>19 DEF OnRank
  <2>2. F(z) # F(kto) /\ F(z) # F(rto)
    BY <1>3, <1>13, <1>19, <2>1, Same
  <2>3. ~((F(r) < F(z) /\ F(z) < F(rto)) \/ (F(rto) < F(z) /\ F(z) < F(r)))
    BY <1>3, <1>6, <1>13, <1>19, <2>1, InsideRank
  <2>4. ~((F(k) < F(z) /\ F(z) < F(kto)) \/ (F(kto) < F(z) /\ F(z) < F(k)))
    BY <1>3, <1>6, <1>13, <1>19, <2>1, InsideRank
  <2>5. F(z) \in Int /\ F(r) \in Int /\ F(k) \in Int /\ F(kto) \in Int /\ F(rto) \in Int
    BY <1>3, <1>6, <2>1, Coordinates
  <2>. QED
    BY <2>2, <2>3, <2>4, <2>5 DEF Between2
<1>20. OnRank(us, k) /\ OnRank(us, r) /\ OnRank(us, kto) /\ OnRank(us, rto)
  BY <1>3, <1>6 DEF OnRank
<1>21. CastlingPlaces(b, us, m, kto, rto, p.chess960)
  BY <1>3, <1>5, <1>6, <1>8, <1>9, <1>19, <1>20 DEF CastlingPlaces
<1>. QED
  BY <1>2, <1>7, <1>8, <1>12, <1>18, <1>21 DEF b, us, kto, rto

-------------------------------------------------------------------------------
(***************************************************************************)
(* A legal move leaves no king in check.                                   *)
(***************************************************************************)
(* A pawn goes along its file.                                             *)
LEMMA AheadToward ==
  ASSUME NEW us \in Color, NEW s \in Square, NEW t \in Square, NEW n \in 1 .. 7, Ahead(us, s, t, n)
  PROVE  Toward(s, pawn_push(us), n, t) /\ pawn_push(us) \in KingSteps
BY Directions DEF Ahead, Toward, pawn_push, Color, WHITE, BLACK

(* No move leaps over a piece, a knight's apart, which has nothing on its  *)
(* way.                                                                    *)
LEMMA GoesOpen ==
  ASSUME NEW b, IsBoard(b), NEW us \in Color, NEW m, PieceGoes(b, us, m) \/ PawnGoes(b, us, m), NEW z \in DOMAIN b
  PROVE  ~Inside(m.from, m.to, z)
<1>1. m.from \in DOMAIN b /\ m.from \in Square /\ m.to \in Square /\ z \in Square
  BY DEF PieceGoes, PawnGoes, Mover, IsBoard
<1>2. CASE PieceGoes(b, us, m)
  BY <1>1, <1>2, HitsOpen DEF PieceGoes
<1>3. CASE PawnGoes(b, us, m)
  <2>. DEFINE s == m.from
              t == m.to
              up == pawn_push(us)
  <2>1. \/ Ahead(us, s, t, 1)
        \/ Ahead(us, s, t, 2) /\ s + up \notin DOMAIN b
        \/ Strikes(us, s, t)
    BY <1>3 DEF PawnGoes, PawnWay
  <2>2. CASE Strikes(us, s, t)
    BY <1>1, <2>2, NothingInside
  <2>3. ASSUME NEW n \in 1 .. 2, Ahead(us, s, t, n), Inside(s, t, z) PROVE n = 2 /\ z = s + up
    <3>1. Toward(s, up, n, t) /\ up \in KingSteps
      BY <1>1, <2>3, AheadToward
    <3>2. PICK j \in 1 .. 7 : j < n /\ Toward(s, up, j, z)
      BY <1>1, <2>3, <3>1, InsideWay
    <3>3. n = 2 /\ j = 1
      BY <3>2
    <3>4. z = s + 1 * up
      BY <1>1, <3>1, <3>2, <3>3, Lands
    <3>5. up \in Int
      BY DEF pawn_push
    <3>. QED
      BY <3>3, <3>4, <3>5
  <2>. QED
    BY <2>1, <2>2, <2>3
<1>. QED
  BY <1>2, <1>3

(* A piece that hits with fewer pieces in the way is a slider.             *)
LEMMA Uncovered ==
  ASSUME NEW b, NEW occ, NEW old, NEW x \in DOMAIN b, NEW t, Hits(b, occ, x, t), ~Hits(b, old, x, t)
  PROVE  /\ type_of(b[x]) \in {BISHOP, ROOK, QUEEN} /\ Aligned(type_of(b[x]), x, t) /\ Clear(x, t, occ)
         /\ \E z \in Square : Inside(x, t, z) /\ z \in old /\ z \notin occ
<1>1. /\ type_of(b[x]) \in {BISHOP, ROOK, QUEEN} /\ Aligned(type_of(b[x]), x, t) /\ Clear(x, t, occ)
      /\ ~Clear(x, t, old)
  BY DEF Hits
<1>. QED
  BY <1>1 DEF Clear

(* Snipers are the sliding pieces on a line with the king.                 *)
LEMMA SniperIs ==
  ASSUME NEW b, IsBoard(b), NEW c \in Color, square(b, c) \in Square, NEW x
  PROVE  x \in Snipers(b, c) <=> /\ x \in DOMAIN b /\ color_of(b[x]) = Them(c)
                                 /\ type_of(b[x]) \in {BISHOP, ROOK, QUEEN}
                                 /\ Aligned(type_of(b[x]), x, square(b, c))
<1>. DEFINE k == square(b, c)
<1>1. x \in Snipers(b, c) <=> /\ x \in DOMAIN b /\ color_of(b[x]) = Them(c)
                              /\ \/ x \in PseudoAttacks[ROOK][k] /\ type_of(b[x]) \in {QUEEN, ROOK}
                                 \/ x \in PseudoAttacks[BISHOP][k] /\ type_of(b[x]) \in {QUEEN, BISHOP}
  BY DEF Snipers, Exactly
<1>2. x \in DOMAIN b => x \in Square
  BY DEF IsBoard
<1>3. x \in Square => /\ x \in PseudoAttacks[ROOK][k] <=> Aligned(ROOK, x, k)
                      /\ x \in PseudoAttacks[BISHOP][k] <=> Aligned(BISHOP, x, k)
  BY PseudoIs, AlignedSym
<1>. HIDE DEF k
<1>. QED
  BY <1>1, <1>2, <1>3, QueenAligned, TypesDiffer DEF k

(* A piece that stands alone before the king is in blockersForKing.        *)
LEMMA OnlyBlocker ==
  ASSUME NEW b, IsBoard(b), NEW c \in Color, square(b, c) \in Square, NEW x \in Snipers(b, c),
         NEW f \in DOMAIN b, Inside(x, square(b, c), f), f \notin Snipers(b, c),
         \A z \in DOMAIN b : Inside(x, square(b, c), z) => z = f
  PROVE  f \in blockersForKing(b)[c]
<1>. DEFINE k == square(b, c)
            snipers == Snipers(b, c)
            between == BetweenBB[k][x] \cap (pieces(b) \ snipers)
<1>1. x \in DOMAIN b /\ x \in Square /\ f \in Square
  BY SniperIs DEF IsBoard
<1>2. \A z : z \in between <=> z \in DOMAIN b /\ z \notin snipers /\ (z = x \/ (z \in Square /\ Inside(k, x, z)))
  BY <1>1, BetweenIs DEF pieces
<1>3. \A z \in Square : Inside(k, x, z) <=> Inside(x, k, z)
  BY <1>1, InsideSym
<1>4. between = {f}
  BY <1>1, <1>2, <1>3
<1>5. ~more_than_one(between)
  <2>1. Cardinality({f}) = 1
    BY FS_Singleton
  <2>. QED
    BY <1>4, <2>1 DEF more_than_one
<1>6. Blocked(b, c) = [s \in snipers |->
        IF more_than_one(BetweenBB[k][s] \cap (pieces(b) \ snipers)) THEN {} ELSE BetweenBB[k][s] \cap (pieces(b) \ snipers)]
  BY DEF Blocked
<1>7. Blocked(b, c)[x] = between
  BY <1>5, <1>6
<1>8. blockersForKing(b)[c] = UNION {Blocked(b, c)[s] : s \in Snipers(b, c)}
  BY DEF blockersForKing
<1>. QED
  BY <1>4, <1>7, <1>8

(* A piece in blockersForKing stands between the king and a sniper.        *)
LEMMA BlockerMeans ==
  ASSUME NEW b, IsBoard(b), NEW c \in Color, square(b, c) \in Square, NEW f \in blockersForKing(b)[c]
  PROVE  f \in DOMAIN b /\ f \in Square /\ \E y \in Snipers(b, c) : Inside(y, square(b, c), f)
<1>. DEFINE k == square(b, c)
            snipers == Snipers(b, c)
<1>1. blockersForKing(b)[c] = UNION {Blocked(b, c)[s] : s \in snipers}
  BY DEF blockersForKing
<1>2. PICK y \in snipers : f \in Blocked(b, c)[y]
  BY <1>1
<1>3. Blocked(b, c) = [s \in snipers |->
        IF more_than_one(BetweenBB[k][s] \cap (pieces(b) \ snipers)) THEN {} ELSE BetweenBB[k][s] \cap (pieces(b) \ snipers)]
  BY DEF Blocked
<1>4. f \in BetweenBB[k][y] \cap (pieces(b) \ snipers)
  BY <1>2, <1>3
<1>5. f \in DOMAIN b /\ f # y /\ y \in Square /\ f \in Square
  BY <1>2, <1>4, SniperIs DEF pieces, IsBoard
<1>6. Inside(k, y, f)
  BY <1>4, <1>5, BetweenIs
<1>. QED
  BY <1>2, <1>5, <1>6, InsideSym

(* The board after a move that is no castling, and where the kings are.    *)
After1(p, m) == Moved(p.board, m.from, CaptureSquare(p.sideToMove, m), m.to, Arrived(p.board, p.sideToMove, m))
(* The board after a move other than castling.                             *)
LEMMA BoardAfter ==
  ASSUME NEW p, Sound(p), NEW m, Proper(p.board, p.sideToMove, m)
  PROVE  LET b == p.board  us == p.sideToMove  cap == CaptureSquare(us, m)  nb == After1(p, m) IN
         /\ Carry(p.board, Operations(p, m)) = nb /\ Captured(p, m) = piece_on(b, cap)
         /\ IsBoard(nb) /\ PawnsPlaced(nb) /\ DOMAIN nb = (DOMAIN b \ {m.from, cap}) \cup {m.to}
         /\ \A s \in DOMAIN b \ {m.from, cap, m.to} : nb[s] = b[s]
         /\ \A x \in DOMAIN nb : color_of(nb[x]) # us => x # m.to
         /\ \A x \in DOMAIN nb : x # m.to => x \in DOMAIN b /\ x # m.from /\ x # cap /\ nb[x] = b[x]
         /\ nb[m.to] = Arrived(b, us, m) /\ color_of(nb[m.to]) = us
         /\ KingAt(nb, us, IF m.from = MyKing(p) THEN m.to ELSE MyKing(p))
         /\ KingAt(nb, Them(us), TheirKing(p))
<1>. DEFINE b == p.board
            us == p.sideToMove
            them == Them(us)
            cap == CaptureSquare(us, m)
            q == Arrived(b, us, m)
            nb == After1(p, m)
            k == MyKing(p)
            kk == TheirKing(p)
<1>1. us \in Color /\ them \in Color /\ us # them /\ IsBoard(b) /\ KingAt(b, us, k) /\ KingAt(b, them, kk) /\ PawnsPlaced(b)
  BY SoundFacts, Pieces
<1>2. Playable(b, us, m)
  BY DEF Proper
<1>3. CanMove(b, m.from, cap, m.to, q)
  BY <1>2 DEF Playable
<1>4. IsMoved(nb, b, m.from, cap, m.to, q)
  BY <1>3, MovedBoard DEF After1
<1>5. Carry(p.board, Operations(p, m)) = nb /\ Captured(p, m) = piece_on(b, cap)
  BY <1>2, MoveCarried DEF After1
<1>6. /\ q \in Piece /\ color_of(b[m.from]) = us
      /\ m.from \in DOMAIN b /\ m.to \in Square /\ cap # m.from /\ m.to # m.from
      /\ m.to \in DOMAIN b => m.to = cap
      /\ q = IF m.type = "promotion" THEN make_piece(us, m.promo) ELSE b[m.from]
      /\ m.type = "promotion" => b[m.from] = make_piece(us, PAWN) /\ m.promo \in KNIGHT .. QUEEN
      /\ m.type # "promotion" => (type_of(b[m.from]) = PAWN => R(m.to) \in 1 .. 6)
      /\ cap \in DOMAIN b => color_of(b[cap]) = them /\ type_of(b[cap]) # KING
  <2>1. cap \in DOMAIN b => piece_on(b, cap) = b[cap] /\ b[cap] # NO_PIECE
    BY <1>1, Pieces DEF piece_on, IsBoard
  <2>. QED
    BY <1>3, <2>1 DEF CanMove, Proper, Arrived, Playable
<1>. HIDE DEF b, us, them, cap, q, nb, k, kk
<1>7. /\ IsBoard(nb) /\ DOMAIN nb = (DOMAIN b \ {m.from, cap}) \cup {m.to} /\ nb[m.to] = q
      /\ \A s \in DOMAIN b \ {m.from, cap, m.to} : nb[s] = b[s]
  BY <1>4 DEF IsMoved
<1>8. \A x \in DOMAIN nb : x # m.to => x \in DOMAIN b /\ x # m.from /\ x # cap /\ nb[x] = b[x]
  BY <1>7
<1>9. /\ m.type = "promotion" => type_of(q) = m.promo /\ type_of(q) # KING /\ type_of(q) # PAWN /\ color_of(q) = us
      /\ m.type # "promotion" => q = b[m.from]
      /\ color_of(q) = us
  <2>1. m.promo \in KNIGHT .. QUEEN => m.promo \in PieceType /\ m.promo # KING /\ m.promo # PAWN
    BY TypesDiffer DEF PieceType
  <2>. QED
    BY <1>1, <1>6, <2>1, Pieces
<1>10. PawnsPlaced(nb)
  <2>. SUFFICES ASSUME NEW s \in DOMAIN nb, type_of(nb[s]) = PAWN PROVE R(s) \in 1 .. 6
    BY DEF PawnsPlaced
  <2>1. CASE s = m.to
    BY <1>6, <1>7, <1>9, <2>1
  <2>2. CASE s # m.to
    BY <1>1, <1>8, <2>2 DEF PawnsPlaced
  <2>. QED
    BY <2>1, <2>2
<1>11. /\ type_of(make_piece(us, KING)) = KING /\ color_of(make_piece(us, KING)) = us
       /\ type_of(make_piece(them, KING)) = KING /\ color_of(make_piece(them, KING)) = them
       /\ type_of(make_piece(us, PAWN)) # KING
  BY <1>1, Pieces, TypesDiffer DEF PieceType
<1>12. KingAt(nb, them, kk)
  <2>1. kk \in DOMAIN b /\ b[kk] = make_piece(them, KING) /\ \A s \in DOMAIN b : b[s] = make_piece(them, KING) => s = kk
    BY <1>1 DEF KingAt
  <2>2. kk # m.from /\ kk # cap /\ kk # m.to
    BY <1>1, <1>6, <1>11, <2>1
  <2>3. kk \in DOMAIN nb /\ nb[kk] = make_piece(them, KING)
    BY <1>7, <2>1, <2>2
  <2>4. ASSUME NEW s \in DOMAIN nb, nb[s] = make_piece(them, KING) PROVE s = kk
    BY <1>1, <1>7, <1>8, <1>9, <1>11, <2>1, <2>4
  <2>. QED
    BY <2>3, <2>4 DEF KingAt
<1>13. KingAt(nb, us, IF m.from = k THEN m.to ELSE k)
  <2>1. k \in DOMAIN b /\ b[k] = make_piece(us, KING) /\ \A s \in DOMAIN b : b[s] = make_piece(us, KING) => s = k
    BY <1>1 DEF KingAt
  <2>2. k # cap /\ k # m.to
    BY <1>1, <1>6, <1>11, <2>1
  <2>3. CASE m.from = k
    <3>1. nb[m.to] = make_piece(us, KING) /\ m.to \in DOMAIN nb
      BY <1>6, <1>7, <1>9, <1>11, <2>1, <2>3
    <3>2. ASSUME NEW s \in DOMAIN nb, nb[s] = make_piece(us, KING) PROVE s = m.to
      BY <1>8, <2>1, <2>3, <3>2
    <3>. QED
      BY <2>3, <3>1, <3>2 DEF KingAt
  <2>4. CASE m.from # k
    <3>1. k \in DOMAIN nb /\ nb[k] = make_piece(us, KING)
      BY <1>7, <2>1, <2>2, <2>4
    <3>2. q # make_piece(us, KING)
      BY <1>6, <1>9, <1>11, <2>1, <2>4
    <3>3. ASSUME NEW s \in DOMAIN nb, nb[s] = make_piece(us, KING) PROVE s = k
      BY <1>7, <1>8, <2>1, <3>2, <3>3
    <3>. QED
      BY <2>4, <3>1, <3>3 DEF KingAt
  <2>. QED
    BY <2>3, <2>4
<1>14. color_of(nb[m.to]) = us
  BY <1>7, <1>9
<1>. QED
  BY <1>5, <1>7, <1>8, <1>10, <1>12, <1>13, <1>14 DEF b, us, them, cap, q, nb, k, kk

(* What changes there, as far as attacks are concerned.                    *)
Stands(nb, b, us, from, cap, to) ==
  /\ IsBoard(nb) /\ DOMAIN nb = (DOMAIN b \ {from, cap}) \cup {to}
  /\ \A x \in DOMAIN nb : color_of(nb[x]) # us => x # to
  /\ \A x \in DOMAIN nb : x # to => x \in DOMAIN b /\ x # from /\ x # cap /\ nb[x] = b[x]
  /\ color_of(nb[to]) = us /\ to \in DOMAIN nb
(* What of it the questions of check need.                                 *)
LEMMA StandsAfter ==
  ASSUME NEW p, Sound(p), NEW m, Proper(p.board, p.sideToMove, m)
  PROVE  Stands(After1(p, m), p.board, p.sideToMove, m.from, CaptureSquare(p.sideToMove, m), m.to)
<1>. DEFINE b == p.board
            us == p.sideToMove
            cap == CaptureSquare(us, m)
            nb == After1(p, m)
            from == m.from
            to == m.to
<1>1. /\ IsBoard(nb) /\ DOMAIN nb = (DOMAIN b \ {from, cap}) \cup {to}
      /\ \A x \in DOMAIN nb : color_of(nb[x]) # us => x # to
      /\ \A x \in DOMAIN nb : x # to => x \in DOMAIN b /\ x # from /\ x # cap /\ nb[x] = b[x]
      /\ color_of(nb[to]) = us
  BY BoardAfter
<1>. HIDE DEF b, us, cap, nb, from, to
<1>2. Stands(nb, b, us, from, cap, to)
  BY <1>1 DEF Stands
<1>. QED
  BY <1>2 DEF b, us, cap, nb, from, to

(* A piece that has not moved hits what it hit, if as much is free.        *)
LEMMA HitsOld ==
  ASSUME NEW b, NEW nb, NEW x, x \in DOMAIN b, x \in DOMAIN nb, nb[x] = b[x], NEW occ, NEW t
  PROVE  Hits(nb, occ, x, t) <=> Hits(b, occ, x, t)
BY DEF Hits

(* With fewer pieces in between a piece hits as much or more.              *)
LEMMA HitsFewer ==
  ASSUME NEW b, NEW x, NEW t, NEW occ, NEW less, less \subseteq occ, Hits(b, occ, x, t)
  PROVE  Hits(b, less, x, t)
<1>1. Clear(x, t, occ) => Clear(x, t, less)
  BY DEF Clear
<1>. QED
  BY <1>1 DEF Hits

(* A king steps only where nothing hits it.                                *)
LEMMA KingMoveSafe ==
  ASSUME NEW p, Sound(p), NEW m, PieceGoes(p.board, p.sideToMove, m), m.from = MyKing(p), legal(p, m)
  PROVE  ~Attacked(After1(p, m), DOMAIN After1(p, m), Them(p.sideToMove), m.to)
<1>. DEFINE b == p.board
            us == p.sideToMove
            them == Them(us)
            nb == After1(p, m)
<1>1. us \in Color /\ them \in Color /\ us # them /\ IsBoard(b) /\ KingAt(b, us, m.from)
  BY SoundFacts, Pieces
<1>2. Proper(b, us, m) /\ CaptureSquare(us, m) = m.to
  BY GoesProper
<1>3. m.to \in Square /\ m.type = "normal" /\ m.from \in DOMAIN b
  BY DEF PieceGoes, Mover
<1>4. type_of(b[m.from]) = KING
  BY <1>1, Pieces, TypesDiffer DEF KingAt
<1>5. ~attackers_to_exist(b, m.to, DOMAIN b \ {m.from}, them)
  BY <1>3, <1>4 DEF legal, pieces
<1>6. ~Attacked(b, DOMAIN b \ {m.from}, them, m.to)
  BY <1>1, <1>3, <1>5, AttackedIs
<1>7. /\ DOMAIN nb = (DOMAIN b \ {m.from, m.to}) \cup {m.to}
      /\ \A x \in DOMAIN nb : color_of(nb[x]) # us => x # m.to
      /\ \A x \in DOMAIN nb : x # m.to => x \in DOMAIN b /\ x # m.from /\ nb[x] = b[x]
  <2>1. Stands(nb, b, us, m.from, m.to, m.to)
    BY <1>2, StandsAfter
  <2>. HIDE DEF nb, b, us
  <2>. QED
    BY <2>1 DEF Stands
<1>. SUFFICES ASSUME NEW x \in DOMAIN nb, color_of(nb[x]) = them, Hits(nb, DOMAIN nb, x, m.to) PROVE FALSE
  BY DEF Attacked
<1>. HIDE DEF nb, b
<1>8. x # m.to /\ x \in DOMAIN b /\ nb[x] = b[x]
  BY <1>1, <1>7
<1>9. Hits(b, DOMAIN nb, x, m.to)
  BY <1>8, HitsOld
<1>10. DOMAIN b \ {m.from} \subseteq DOMAIN nb
  BY <1>7
<1>11. Hits(b, DOMAIN b \ {m.from}, x, m.to)
  BY <1>9, <1>10, HitsFewer
<1>. QED
  BY <1>6, <1>8, <1>11 DEF Attacked

(* Another piece moves: a check is answered, and a pinned piece stays in   *)
(* the line of the pin.                                                    *)
LEMMA OtherMoveSafe ==
  ASSUME NEW p, Sound(p), NEW m, PieceGoes(p.board, p.sideToMove, m) \/ PawnGoes(p.board, p.sideToMove, m),
         m.from # MyKing(p), checkers(p) # {} => Answers(p, m.to), Suspect(p, m) => legal(p, m)
  PROVE  ~Attacked(After1(p, m), DOMAIN After1(p, m), Them(p.sideToMove), MyKing(p))
<1>. DEFINE b == p.board
            us == p.sideToMove
            them == Them(us)
            nb == After1(p, m)
            k == MyKing(p)
            f == m.from
            t == m.to
<1>1. us \in Color /\ them \in Color /\ us # them /\ IsBoard(b) /\ KingAt(b, us, k) /\ k \in Square /\ k = square(b, us)
  BY SoundFacts, Pieces DEF MyKing
<1>2. Proper(b, us, m) /\ CaptureSquare(us, m) = t /\ m.type # "enpassant" /\ t # k
  BY GoesProper, NoKingTaken
<1>3. t \in Square /\ f \in DOMAIN b /\ f \in Square /\ color_of(b[f]) = us /\ m.type # "castling"
  BY <1>1 DEF PieceGoes, PawnGoes, Mover, IsBoard
<1>4. type_of(b[f]) # KING
  <2>1. b[f] \in Piece
    BY <1>1, <1>3 DEF IsBoard
  <2>2. type_of(b[f]) = KING => b[f] = make_piece(us, KING)
    BY <1>3, <2>1, Pieces
  <2>. QED
    BY <1>1, <1>3, <2>2 DEF KingAt
<1>5. /\ DOMAIN nb = (DOMAIN b \ {f, t}) \cup {t}
      /\ \A x \in DOMAIN nb : color_of(nb[x]) # us => x # t
      /\ \A x \in DOMAIN nb : x # t => x \in DOMAIN b /\ x # f /\ nb[x] = b[x]
  <2>1. Stands(nb, b, us, f, t, t)
    BY <1>2, StandsAfter
  <2>. HIDE DEF nb, b, us, f, t
  <2>. QED
    BY <2>1 DEF Stands
<1>6. legal(p, m) => f \notin blockersForKing(b)[us] \/ k \in LineBB[f][t]
  BY <1>3, <1>4, SoundFacts DEF legal
<1>7. f \in blockersForKing(b)[us] => Suspect(p, m)
  <2>1. f \in Mine(p)
    BY <1>3 DEF Mine, OfColor
  <2>. QED
    BY <2>1, SoundFacts DEF Suspect
<1>. SUFFICES ASSUME NEW x \in DOMAIN nb, color_of(nb[x]) = them, Hits(nb, DOMAIN nb, x, k) PROVE FALSE
  BY DEF Attacked
<1>8. \A z \in DOMAIN b : ~Inside(f, t, z)
  BY <1>1, GoesOpen
<1>9. \A y : y \in checkers(p) <=> y \in DOMAIN b /\ color_of(b[y]) = them /\ Hits(b, DOMAIN b, y, k)
  BY SoundFacts
<1>. HIDE DEF nb, b, us, them, k, f, t
<1>10. x # t /\ x \in DOMAIN b /\ x # f /\ nb[x] = b[x] /\ x \in Square
  BY <1>1, <1>5 DEF IsBoard
<1>11. Hits(b, DOMAIN nb, x, k) /\ color_of(b[x]) = them
  BY <1>10, HitsOld
<1>12. \A z \in Square : Inside(x, k, z) => z \notin DOMAIN nb
  BY <1>1, <1>10, <1>11, HitsOpen
<1>13. ~Inside(x, k, t)
  BY <1>3, <1>5, <1>12
<1>14. CASE Hits(b, DOMAIN b, x, k)
  <2>1. x \in checkers(p)
    BY <1>9, <1>10, <1>11, <1>14
  <2>2. Inside(k, x, t)
    BY <1>10, <2>1 DEF Answers, k, t
  <2>. QED
    BY <1>1, <1>3, <1>10, <1>13, <2>2, InsideSym
<1>15. CASE ~Hits(b, DOMAIN b, x, k)
  <2>1. /\ type_of(b[x]) \in {BISHOP, ROOK, QUEEN} /\ Aligned(type_of(b[x]), x, k)
        /\ \E z \in Square : Inside(x, k, z) /\ z \in DOMAIN b /\ z \notin DOMAIN nb
    BY <1>10, <1>11, <1>15, Uncovered
  <2>2. \A z \in DOMAIN b : z \notin DOMAIN nb => z = f
    BY <1>5
  <2>3. Inside(x, k, f)
    BY <2>1, <2>2
  <2>4. \A z \in DOMAIN b : Inside(x, k, z) => z = f
    BY <1>1, <1>12, <2>2 DEF IsBoard
  <2>5. x \in Snipers(b, us)
    BY <1>1, <1>10, <1>11, <2>1, SniperIs DEF them
  <2>6. f \notin Snipers(b, us)
    BY <1>1, <1>3, SniperIs DEF them
  <2>7. f \in blockersForKing(b)[us]
    BY <1>1, <1>3, <2>3, <2>4, <2>5, <2>6, OnlyBlocker
  <2>8. k \in LineBB[f][t]
    BY <1>6, <1>7, <2>7
  <2>9. OnLine(f, t, k)
    BY <1>3, <2>8, LineIs
  <2>10. ~Inside(f, t, k) /\ ~Inside(f, t, x)
    BY <1>1, <1>8, <1>10 DEF KingAt
  <2>11. Inside(x, k, t)
    BY <1>1, <1>2, <1>3, <1>10, <2>3, <2>9, <2>10, StaysInside
  <2>. QED
    BY <1>13, <2>11
<1>. QED
  BY <1>14, <1>15

(* A capture in passing is legal by what was found out when the en passant *)
(* square was set.                                                         *)
LEMMA PassingSafe ==
  ASSUME NEW p, Sound(p), NEW m, Passing(p.board, p.sideToMove, St(p).epSquare, m), legal(p, m)
  PROVE  ~Attacked(After1(p, m), DOMAIN After1(p, m), Them(p.sideToMove), MyKing(p))
<1>. DEFINE b == p.board
            us == p.sideToMove
            them == Them(us)
            nb == After1(p, m)
            k == MyKing(p)
            f == m.from
            ep == m.to
            cap == ep - pawn_push(us)
<1>1. us \in Color /\ them \in Color /\ us # them /\ IsBoard(b) /\ k = square(b, us)
  BY SoundFacts, Pieces DEF MyKing
<1>2. Proper(b, us, m) /\ CaptureSquare(us, m) = cap
  BY PassingProper
<1>3. m.type = "enpassant" /\ f \in DOMAIN b /\ b[f] = make_piece(us, PAWN) /\ ep = St(p).epSquare /\ ep # SQ_NONE
      /\ Strikes(us, f, ep)
  BY DEF Passing
<1>4. type_of(b[f]) # KING
  BY <1>1, <1>3, Pieces, TypesDiffer DEF PieceType
<1>5. f \notin blockersForKing(b)[us] \/ k \in LineBB[f][ep]
  BY <1>3, <1>4, SoundFacts DEF legal
<1>6. EpSafe(b, us, ep, blockersForKing(b)[us])
  BY <1>3 DEF Sound, Level, EpSound
<1>7. \A x \in DOMAIN b : color_of(b[x]) = them /\ x # cap => ~Hits(b, (DOMAIN b \ {f, cap}) \cup {ep}, x, k)
  BY <1>1, <1>3, <1>5, <1>6 DEF EpSafe
<1>8. /\ DOMAIN nb = (DOMAIN b \ {f, cap}) \cup {ep}
      /\ \A x \in DOMAIN nb : color_of(nb[x]) # us => x # ep
      /\ \A x \in DOMAIN nb : x # ep => x \in DOMAIN b /\ x # f /\ x # cap /\ nb[x] = b[x]
  <2>1. Stands(nb, b, us, f, cap, ep)
    BY <1>2, StandsAfter
  <2>. HIDE DEF nb, b, us, f, cap, ep
  <2>. QED
    BY <2>1 DEF Stands
<1>. SUFFICES ASSUME NEW x \in DOMAIN nb, color_of(nb[x]) = them, Hits(nb, DOMAIN nb, x, k) PROVE FALSE
  BY DEF Attacked
<1>. HIDE DEF nb, b, us, them, k, f, ep, cap
<1>9. x # ep /\ x \in DOMAIN b /\ x # cap /\ nb[x] = b[x]
  BY <1>1, <1>8
<1>10. Hits(b, DOMAIN nb, x, k)
  BY <1>9, HitsOld
<1>. QED
  BY <1>7, <1>8, <1>9, <1>10

-------------------------------------------------------------------------------
(***************************************************************************)
(* Castling leaves no king in check, and gives_check sees through it.      *)
(***************************************************************************)
(* A line of which a square inside is at the edge, or at the height of an  *)
(* end, is a rank.                                                         *)
LEMMA RankLine ==
  ASSUME NEW x \in Square, NEW t \in Square, NEW z \in Square, Inside(x, t, z), R(z) \in {0, 7} \/ R(z) = R(t)
  PROVE  R(x) = R(z) /\ R(t) = R(z)
<1>1. PICK d \in KingSteps, n \in 1 .. 7, j \in 1 .. 7 : j < n /\ Toward(x, d, n, t) /\ Toward(x, d, j, z)
  BY DEF Inside
<1>2. /\ R(x) \in 0 .. 7 /\ R(t) \in 0 .. 7 /\ R(z) \in 0 .. 7
      /\ F(x) \in 0 .. 7 /\ F(t) \in 0 .. 7 /\ F(z) \in 0 .. 7
  BY Coordinates
<1>3. \/ R(t) = R(x) /\ R(z) = R(x)
      \/ R(t) = R(x) + n /\ R(z) = R(x) + j
      \/ R(t) = R(x) - n /\ R(z) = R(x) - j
  BY <1>1 DEF Toward
<1>. QED
  BY <1>1, <1>2, <1>3

(* Along a rank a piece sees either all of it or nothing.                  *)
LEMMA RankAligned ==
  ASSUME NEW pt, NEW x \in Square, NEW t \in Square, NEW y \in Square, R(x) = R(t), R(y) = R(x), y # x, Aligned(pt, x, t)
  PROVE  Aligned(pt, x, y)
<1>1. PICK d \in SlideDirections(pt), n \in 1 .. 7 : Toward(x, d, n, t)
  BY DEF Aligned
<1>2. F(x) \in 0 .. 7 /\ R(x) \in 0 .. 7 /\ F(y) \in 0 .. 7 /\ R(y) \in 0 .. 7
  BY Coordinates
<1>3. d = 1 \/ d = -1
  <2>1. R(t) # R(x) + n /\ R(t) # R(x) - n
    BY <1>2
  <2>. QED
    BY <1>1, <2>1 DEF Toward
<1>4. 1 \in SlideDirections(pt) /\ -1 \in SlideDirections(pt)
  <2>1. -d \in SlideDirections(pt)
    BY <1>1, Directions
  <2>2. CASE d = 1
    BY <1>1, <2>1, <2>2
  <2>3. CASE d = -1
    <3>1. -d = 1
      BY <2>3, Directions
    <3>. QED
      BY <1>1, <2>1, <2>3, <3>1
  <2>. QED
    BY <1>3, <2>2, <2>3
<1>5. F(x) # F(y)
  BY Same
<1>6. CASE F(x) < F(y)
  <2>1. Toward(x, 1, F(y) - F(x), y) /\ F(y) - F(x) \in 1 .. 7
    BY <1>2, <1>6 DEF Toward
  <2>. QED
    BY <1>4, <2>1 DEF Aligned
<1>7. CASE F(y) < F(x)
  <2>1. Toward(x, -1, F(x) - F(y), y) /\ F(x) - F(y) \in 1 .. 7
    BY <1>2, <1>7 DEF Toward
  <2>. QED
    BY <1>4, <2>1 DEF Aligned
<1>. QED
  BY <1>2, <1>5, <1>6, <1>7

(* The board after castling.                                               *)
KTo(p, m) == KingTarget(CastlingRight(p.sideToMove, m))
RTo(p, m) == RookTarget(CastlingRight(p.sideToMove, m))
After2(p, m) ==
  Castled(p.board, m.from, m.to, KTo(p, m), RTo(p, m),
          make_piece(p.sideToMove, KING), make_piece(p.sideToMove, ROOK))
(* What changes there.                                                     *)
StandsCastled(nb, b, us, from, rfrom, kto, rto) ==
  /\ IsBoard(nb) /\ DOMAIN nb = (DOMAIN b \ {from, rfrom}) \cup {kto, rto}
  /\ nb[kto] = make_piece(us, KING) /\ nb[rto] = make_piece(us, ROOK) /\ kto # rto
  /\ color_of(nb[kto]) = us /\ color_of(nb[rto]) = us
  /\ \A x \in DOMAIN nb : x \notin {kto, rto} => x \in DOMAIN b /\ x \notin {from, rfrom} /\ nb[x] = b[x]
  /\ \A x \in DOMAIN b : x \notin {from, rfrom} => x \in DOMAIN nb /\ x \notin {kto, rto} /\ nb[x] = b[x]
(* The board after castling.                                               *)
LEMMA CastledAfter ==
  ASSUME NEW p, Sound(p), NEW m, Castles(p.board, p.sideToMove, m)
  PROVE  /\ Carry(p.board, Operations(p, m)) = After2(p, m) /\ Captured(p, m) = NO_PIECE
         /\ StandsCastled(After2(p, m), p.board, p.sideToMove, m.from, m.to, KTo(p, m), RTo(p, m))
         /\ KingAt(After2(p, m), p.sideToMove, KTo(p, m))
         /\ KingAt(After2(p, m), Them(p.sideToMove), TheirKing(p))
         /\ PawnsPlaced(After2(p, m))
<1>. DEFINE b == p.board
            us == p.sideToMove
            them == Them(us)
            nb == After2(p, m)
            f == m.from
            r == m.to
            kto == KTo(p, m)
            rto == RTo(p, m)
            kp == make_piece(us, KING)
            rp == make_piece(us, ROOK)
            kk == TheirKing(p)
<1>1. us \in Color /\ them \in Color /\ us # them /\ IsBoard(b) /\ KingAt(b, them, kk) /\ KingAt(b, us, MyKing(p)) /\ PawnsPlaced(b)
  BY SoundFacts, Pieces
<1>2. CanCastle(b, f, r, kto, rto, kp, rp) /\ b[f] = kp /\ b[r] = rp
  BY DEF Castles, KTo, RTo
<1>3. Carry(b, Operations(p, m)) = nb /\ Captured(p, m) = NO_PIECE
  BY CastleCarried DEF After2, KTo, RTo
<1>4. IsCastled(nb, b, f, r, kto, rto, kp, rp)
  BY <1>2, CastledBoard DEF After2
<1>5. /\ kp \in Piece /\ rp \in Piece /\ color_of(kp) = us /\ color_of(rp) = us /\ type_of(kp) = KING /\ type_of(rp) = ROOK
      /\ color_of(make_piece(them, KING)) = them /\ type_of(make_piece(them, KING)) = KING
  BY <1>1, Pieces, TypesDiffer DEF PieceType
<1>. HIDE DEF b, us, them, nb, f, r, kto, rto, kp, rp, kk
<1>6. /\ IsBoard(nb) /\ DOMAIN nb = (DOMAIN b \ {f, r}) \cup {kto, rto} /\ nb[kto] = kp /\ nb[rto] = rp /\ kto # rto
      /\ \A s \in DOMAIN b \ {f, r} : s \notin {kto, rto} /\ nb[s] = b[s]
  BY <1>2, <1>4 DEF IsCastled, CanCastle
<1>7. StandsCastled(nb, b, us, f, r, kto, rto)
  BY <1>5, <1>6 DEF StandsCastled, kp, rp
<1>8. f \in DOMAIN b /\ r \in DOMAIN b
  BY <1>2 DEF CanCastle
<1>9. KingAt(nb, us, kto)
  <2>1. f = MyKing(p) /\ \A s \in DOMAIN b : b[s] = kp => s = f
    BY <1>1, <1>2, <1>8 DEF KingAt, kp
  <2>2. kp # rp
    BY <1>5, TypesDiffer
  <2>3. ASSUME NEW s \in DOMAIN nb, nb[s] = kp PROVE s = kto
    BY <1>6, <2>1, <2>2, <2>3
  <2>. QED
    BY <1>6, <2>3 DEF KingAt, kp
<1>10. KingAt(nb, them, kk)
  <2>. DEFINE tk == make_piece(them, KING)
  <2>. HIDE DEF tk
  <2>1. kk \in DOMAIN b /\ b[kk] = tk /\ \A s \in DOMAIN b : b[s] = tk => s = kk
    BY <1>1 DEF KingAt, tk
  <2>2. tk # kp /\ tk # rp
    BY <1>1, <1>5 DEF tk
  <2>3. kk # f /\ kk # r
    BY <1>2, <2>1, <2>2
  <2>4. ASSUME NEW s \in DOMAIN nb, nb[s] = tk PROVE s = kk
    BY <1>6, <2>1, <2>2, <2>4
  <2>. QED
    BY <1>6, <2>1, <2>3, <2>4 DEF KingAt, tk
<1>11. PawnsPlaced(nb)
  <2>. SUFFICES ASSUME NEW s \in DOMAIN nb, type_of(nb[s]) = PAWN PROVE R(s) \in 1 .. 6
    BY DEF PawnsPlaced
  <2>1. s # kto /\ s # rto
    BY <1>5, <1>6, TypesDiffer
  <2>. QED
    BY <1>1, <1>6, <2>1 DEF PawnsPlaced
<1>. QED
  BY <1>3, <1>7, <1>9, <1>10, <1>11 DEF b, us, them, nb, f, r, kto, rto, kp, rp, kk

(* The files of a castling move.                                           *)
CastlingFiles(ff, fr, fk, fq, c960) ==
  /\ ff \in 0 .. 7 /\ fr \in 0 .. 7 /\ ff # fr
  /\ IF ff < fr THEN fk = 6 /\ fq = 5 ELSE fk = 2 /\ fq = 3
  /\ ~c960 => ff = 4 /\ fr = IF ff < fr THEN 7 ELSE 0
(* Castling is a matter of one rank: the files of its squares.             *)
LEMMA FilesOf ==
  ASSUME NEW b, IsBoard(b), NEW us \in Color, NEW m, NEW kto, NEW rto, NEW c960, CastlingPlaces(b, us, m, kto, rto, c960)
  PROVE  /\ CastlingFiles(F(m.from), F(m.to), F(kto), F(rto), c960)
         /\ \A z \in DOMAIN b :
              R(z) = R(m.from) /\ z # m.from /\ z # m.to
                => /\ z \in Square /\ F(z) \in 0 .. 7 /\ F(z) # F(m.from) /\ F(z) # F(m.to)
                   /\ ~Between2(F(z), F(m.to), F(rto)) /\ ~Between2(F(z), F(m.from), F(kto))
         /\ m.from \in Square /\ m.to \in Square /\ kto \in Square /\ rto \in Square
         /\ m.from \in DOMAIN b /\ m.to \in DOMAIN b
         /\ R(m.from) \in {0, 7} /\ R(m.to) = R(m.from) /\ R(kto) = R(m.from) /\ R(rto) = R(m.from)
<1>1. m.from \in Square /\ m.to \in Square /\ kto \in Square /\ rto \in Square /\ m.from # m.to
      /\ m.from \in DOMAIN b /\ m.to \in DOMAIN b
      /\ R(m.from) \in {0, 7} /\ R(m.to) = R(m.from) /\ R(kto) = R(m.from) /\ R(rto) = R(m.from)
      /\ R(m.from) = IF us = WHITE THEN 0 ELSE 7
  BY DEF CastlingPlaces, OnRank
<1>2. F(m.from) \in 0 .. 7 /\ F(m.to) \in 0 .. 7 /\ F(m.from) # F(m.to)
  BY <1>1, Coordinates, Same
<1>3. CastlingFiles(F(m.from), F(m.to), F(kto), F(rto), c960)
  BY <1>2 DEF CastlingPlaces, CastlingFiles
<1>4. ASSUME NEW z \in DOMAIN b, R(z) = R(m.from), z # m.from, z # m.to
      PROVE  /\ z \in Square /\ F(z) \in 0 .. 7 /\ F(z) # F(m.from) /\ F(z) # F(m.to)
             /\ ~Between2(F(z), F(m.to), F(rto)) /\ ~Between2(F(z), F(m.from), F(kto))
  <2>1. z \in Square
    BY DEF IsBoard
  <2>2. OnRank(us, z)
    BY <1>1, <1>4, <2>1 DEF OnRank
  <2>3. ~Between2(F(z), F(m.to), F(rto)) /\ ~Between2(F(z), F(m.from), F(kto))
    BY <1>4, <2>2 DEF CastlingPlaces
  <2>. QED
    BY <1>1, <1>4, <2>1, <2>3, Coordinates, Same
<1>. QED
  BY <1>1, <1>3, <1>4

(* No piece hits a king that has castled.                                  *)
LEMMA CastlingSafe ==
  ASSUME NEW p, Sound(p), NEW m, NEW cr, CastlesWith(p, m, cr), legal(p, m)
  PROVE  ~Attacked(After2(p, m), DOMAIN After2(p, m), Them(p.sideToMove), KTo(p, m))
<1>. DEFINE b == p.board
            us == p.sideToMove
            them == Them(us)
            nb == After2(p, m)
            f == m.from
            r == m.to
            kto == KTo(p, m)
            rto == RTo(p, m)
            c960 == p.chess960
<1>1. us \in Color /\ them \in Color /\ us # them /\ IsBoard(b) /\ f = square(b, us) /\ f = MyKing(p)
  BY SoundFacts, Pieces, CastlingProper DEF MyKing
<1>2. /\ Castles(b, us, m) /\ CastlingRight(us, m) = cr /\ m.type = "castling" /\ checkers(p) = {}
      /\ CastlingPlaces(b, us, m, kto, rto, c960)
  BY CastlingProper DEF KTo, RTo
<1>3. StandsCastled(nb, b, us, f, r, kto, rto)
  BY <1>2, CastledAfter
<1>4. /\ \A s \in Path(f, kto) \ {f} : ~attackers_to_exist(b, s, DOMAIN b, them)
      /\ c960 => r \notin blockersForKing(b)[us]
  BY <1>2, SoundFacts DEF legal, Arrival, KTo, pieces
<1>5. \A y : y \in checkers(p) <=> y \in DOMAIN b /\ color_of(b[y]) = them /\ Hits(b, DOMAIN b, y, f)
  BY <1>1, SoundFacts
<1>6. b[r] = make_piece(us, ROOK)
  BY <1>2 DEF Castles
<1>. SUFFICES ASSUME NEW x \in DOMAIN nb, color_of(nb[x]) = them, Hits(nb, DOMAIN nb, x, kto) PROVE FALSE
  BY DEF Attacked
<1>. HIDE DEF b, us, them, nb, f, r, kto, rto, c960
<1>7. /\ CastlingFiles(F(f), F(r), F(kto), F(rto), c960)
      /\ \A z \in DOMAIN b :
           R(z) = R(f) /\ z # f /\ z # r
             => /\ z \in Square /\ F(z) \in 0 .. 7 /\ F(z) # F(f) /\ F(z) # F(r)
                /\ ~Between2(F(z), F(r), F(rto)) /\ ~Between2(F(z), F(f), F(kto))
      /\ f \in Square /\ r \in Square /\ kto \in Square /\ rto \in Square
      /\ f \in DOMAIN b /\ r \in DOMAIN b
      /\ R(f) \in {0, 7} /\ R(r) = R(f) /\ R(kto) = R(f) /\ R(rto) = R(f)
  <2>. USE DEF f, r
  <2>. QED
    BY <1>1, <1>2, FilesOf
<1>8. x \notin {kto, rto} /\ x \in DOMAIN b /\ x \notin {f, r} /\ nb[x] = b[x] /\ x \in Square
  BY <1>1, <1>3 DEF StandsCastled, IsBoard
<1>9. Hits(b, DOMAIN nb, x, kto)
  BY <1>8, HitsOld
<1>10. ~Hits(b, DOMAIN b, x, kto)
  <2>1. CASE kto = f
    BY <1>2, <1>5, <1>8, <2>1
  <2>2. CASE kto # f
    <3>1. kto \in Int /\ f \in Int
      BY <1>7, Coordinates
    <3>2. kto \in Path(f, kto)
      BY <3>1 DEF Path
    <3>3. ~attackers_to_exist(b, kto, DOMAIN b, them)
      BY <1>4, <2>2, <3>2
    <3>. QED
      BY <1>1, <1>7, <1>8, <3>3, AttackedIs DEF Attacked
  <2>. QED
    BY <2>1, <2>2
<1>11. /\ type_of(b[x]) \in {BISHOP, ROOK, QUEEN} /\ Aligned(type_of(b[x]), x, kto) /\ Clear(x, kto, DOMAIN nb)
       /\ \E z \in Square : Inside(x, kto, z) /\ z \in DOMAIN b /\ z \notin DOMAIN nb
  BY <1>8, <1>9, <1>10, Uncovered
<1>12. PICK z \in Square : Inside(x, kto, z) /\ z \in DOMAIN b /\ z \notin DOMAIN nb
  BY <1>11
<1>13. z = f \/ z = r
  BY <1>3, <1>12 DEF StandsCastled
<1>14. R(x) = R(f) /\ R(z) = R(f)
  BY <1>7, <1>8, <1>12, <1>13, RankLine
<1>15. (F(x) < F(z) /\ F(z) < F(kto)) \/ (F(kto) < F(z) /\ F(z) < F(x))
  BY <1>7, <1>8, <1>12, <1>14, InsideRank
<1>16. ~Inside(x, kto, rto) /\ rto # x /\ F(rto) # F(x)
  <2>1. rto \in DOMAIN nb
    BY <1>3 DEF StandsCastled
  <2>. QED
    BY <1>7, <1>8, <1>11, <1>14, <2>1, Same DEF Clear
<1>17. ~((F(x) < F(rto) /\ F(rto) < F(kto)) \/ (F(kto) < F(rto) /\ F(rto) < F(x)))
  BY <1>7, <1>8, <1>14, <1>16, InsideRank
<1>18. /\ F(x) \in 0 .. 7 /\ F(x) # F(f) /\ F(x) # F(r)
       /\ ~Between2(F(x), F(r), F(rto)) /\ ~Between2(F(x), F(f), F(kto))
  BY <1>7, <1>8, <1>14
<1>19. z = r /\ F(r) = 1 /\ F(x) = 0 /\ F(f) > 1 /\ F(kto) = 2 /\ F(rto) = 3
  BY <1>7, <1>13, <1>15, <1>16, <1>17, <1>18 DEF CastlingFiles
<1>20. c960
  BY <1>7, <1>19 DEF CastlingFiles
<1>21. Inside(x, f, r)
  BY <1>7, <1>8, <1>14, <1>19, InsideRank
<1>22. Aligned(type_of(b[x]), x, f)
  BY <1>7, <1>8, <1>11, <1>14, RankAligned
<1>23. color_of(b[x]) = them
  BY <1>8
<1>24. x \in Snipers(b, us)
  BY <1>1, <1>7, <1>8, <1>11, <1>22, <1>23, SniperIs DEF them
<1>25. ASSUME NEW y \in DOMAIN b, Inside(x, f, y) PROVE y = r
  <2>1. y \in Square
    BY <1>1 DEF IsBoard
  <2>2. R(y) = R(f) /\ ((F(x) < F(y) /\ F(y) < F(f)) \/ (F(f) < F(y) /\ F(y) < F(x)))
    BY <1>7, <1>8, <1>14, <1>25, <2>1, InsideRank
  <2>3. F(y) \in 0 .. 7 /\ F(f) \in 0 .. 7
    BY <1>7, <2>1, Coordinates
  <2>4. F(y) # F(f) /\ F(y) \in 1 .. 6
    BY <1>19, <2>2, <2>3
  <2>5. y # f
    BY <2>4
  <2>. SUFFICES ASSUME y # r PROVE FALSE
    OBVIOUS
  <2>6. F(y) # F(r) /\ ~Between2(F(y), F(f), F(kto))
    BY <1>7, <2>2, <2>5
  <2>. QED
    BY <1>19, <2>2, <2>3, <2>6 DEF Between2
<1>26. r \notin Snipers(b, us)
  <2>1. color_of(b[r]) = us
    BY <1>1, <1>6, Pieces, TypesDiffer DEF PieceType
  <2>2. square(b, us) \in Square
    BY <1>1, <1>7
  <2>3. r \in Snipers(b, us) => color_of(b[r]) = Them(us)
    BY <1>1, <2>2, SniperIs
  <2>. QED
    BY <1>1, <2>1, <2>3 DEF them
<1>27. r \in blockersForKing(b)[us]
  BY <1>1, <1>7, <1>21, <1>24, <1>25, <1>26, OnlyBlocker
<1>. QED
  BY <1>4, <1>20, <1>27

(* checkSquares: the squares from which a piece would give check.          *)
LEMMA CheckSquares ==
  ASSUME NEW p, Sound(p)
  PROVE  LET kk == TheirKing(p)  us == p.sideToMove  b == p.board IN
         /\ \A s \in Square : s \in St(p).checkSquares[PAWN] <=> Strikes(us, s, kk)
         /\ \A s \in Square : s \in St(p).checkSquares[KNIGHT] <=> Jumps(s, kk)
         /\ \A s \in Square : \A pt \in {BISHOP, ROOK, QUEEN} :
              s \in St(p).checkSquares[pt] <=> Aligned(pt, s, kk) /\ Clear(s, kk, DOMAIN b)
         /\ St(p).checkSquares[KING] = {}
<1>. DEFINE kk == TheirKing(p)
            us == p.sideToMove
            b == p.board
            cs == St(p).checkSquares
            rook == sliding_attack(ROOK, kk, DOMAIN b)
            bishop == sliding_attack(BISHOP, kk, DOMAIN b)
<1>1. us \in Color /\ Them(us) \in Color /\ Them(Them(us)) = us /\ kk \in Square /\ cs = checkSquares(b, us)
  BY SoundFacts, Pieces
<1>2. cs = <<PawnAttacks[Them(us)][kk], PseudoAttacks[KNIGHT][kk], bishop, rook, bishop \cup rook, {}>>
  BY <1>1 DEF checkSquares, TheirKing, pieces
<1>3. /\ cs[PAWN] = PawnAttacks[Them(us)][kk] /\ cs[KNIGHT] = PseudoAttacks[KNIGHT][kk]
      /\ cs[BISHOP] = bishop /\ cs[ROOK] = rook /\ cs[QUEEN] = bishop \cup rook /\ cs[KING] = {}
  BY <1>2, TypesDiffer
<1>. HIDE DEF kk, us, b, cs, rook, bishop
<1>4. ASSUME NEW s \in Square
      PROVE  /\ s \in cs[PAWN] <=> Strikes(us, s, kk)
             /\ s \in cs[KNIGHT] <=> Jumps(s, kk)
  <2>1. s \in cs[PAWN] <=> Strikes(Them(us), kk, s)
    BY <1>1, <1>3, PawnIs
  <2>2. s \in cs[KNIGHT] <=> Jumps(kk, s)
    BY <1>1, <1>3, KnightIs
  <2>. QED
    BY <1>1, <2>1, <2>2, StepsSym
<1>5. ASSUME NEW s \in Square
      PROVE  /\ s \in rook <=> Aligned(ROOK, s, kk) /\ Clear(s, kk, DOMAIN b)
             /\ s \in bishop <=> Aligned(BISHOP, s, kk) /\ Clear(s, kk, DOMAIN b)
  BY <1>1, SliderSeen DEF rook, bishop
<1>6. ASSUME NEW s \in Square, NEW pt \in {BISHOP, ROOK, QUEEN}
      PROVE  s \in cs[pt] <=> Aligned(pt, s, kk) /\ Clear(s, kk, DOMAIN b)
  BY <1>3, <1>5, QueenAligned
<1>. QED
  BY <1>3, <1>4, <1>6 DEF kk, us, b, cs

(* A check that castling gives is seen.                                    *)
LEMMA CastlingChecks ==
  ASSUME NEW p, Sound(p), NEW m, NEW cr, CastlesWith(p, m, cr), legal(p, m),
         Attacked(After2(p, m), DOMAIN After2(p, m), p.sideToMove, TheirKing(p))
  PROVE  gives_check(p, m)
<1>. DEFINE b == p.board
            us == p.sideToMove
            them == Them(us)
            nb == After2(p, m)
            f == m.from
            r == m.to
            kto == KTo(p, m)
            rto == RTo(p, m)
            kk == TheirKing(p)
            c960 == p.chess960
<1>1. /\ us \in Color /\ them \in Color /\ us # them /\ Them(them) = us /\ IsBoard(b) /\ f = MyKing(p)
      /\ kk = square(b, them) /\ KingAt(b, them, kk) /\ kk \in Square
  BY SoundFacts, Pieces, CastlingProper DEF TheirKing
<1>2. /\ Castles(b, us, m) /\ CastlingRight(us, m) = cr /\ m.type = "castling" /\ checkers(p) = {}
      /\ CastlingPlaces(b, us, m, kto, rto, c960)
  BY CastlingProper DEF KTo, RTo
<1>3. StandsCastled(nb, b, us, f, r, kto, rto) /\ KingAt(nb, them, kk)
  BY <1>2, CastledAfter
<1>4. \A s \in Path(f, kto) \ {f} : ~attackers_to_exist(b, s, DOMAIN b, them)
  BY <1>2, SoundFacts DEF legal, Arrival, KTo, pieces
<1>5. \A y : y \in checkers(p) <=> y \in DOMAIN b /\ color_of(b[y]) = them /\ Hits(b, DOMAIN b, y, f)
  BY <1>1, SoundFacts
<1>6. b[r] = make_piece(us, ROOK) /\ b[f] = make_piece(us, KING)
  BY <1>2 DEF Castles
<1>7. f \in blockersForKing(b)[them] \/ rto \in St(p).checkSquares[ROOK] => gives_check(p, m)
  BY <1>2, SoundFacts DEF gives_check, RTo
<1>8. ~Attacked(b, DOMAIN b, us, kk)
  BY <1>1 DEF Sound, Level
<1>9. rto \in Square => (rto \in St(p).checkSquares[ROOK] <=> Aligned(ROOK, rto, kk) /\ Clear(rto, kk, DOMAIN b))
  BY CheckSquares
<1>10. PICK x \in DOMAIN nb : color_of(nb[x]) = us /\ Hits(nb, DOMAIN nb, x, kk)
  BY DEF Attacked
<1>. SUFFICES ASSUME f \notin blockersForKing(b)[them], rto \notin St(p).checkSquares[ROOK] PROVE FALSE
  BY <1>7
<1>. HIDE DEF b, us, them, nb, f, r, kto, rto, kk, c960
<1>21. f \in Square /\ r \in Square /\ kto \in Square /\ rto \in Square /\ f \in DOMAIN b /\ r \in DOMAIN b
       /\ R(f) \in {0, 7} /\ R(r) = R(f) /\ R(kto) = R(f) /\ R(rto) = R(f)
  <2>. USE DEF f, r
  <2>. QED
    BY <1>1, <1>2, FilesOf
<1>11. /\ CastlingFiles(F(f), F(r), F(kto), F(rto), c960)
       /\ \A z \in DOMAIN b :
            R(z) = R(f) /\ z # f /\ z # r
              => /\ z \in Square /\ F(z) \in 0 .. 7 /\ F(z) # F(f) /\ F(z) # F(r)
                 /\ ~Between2(F(z), F(r), F(rto)) /\ ~Between2(F(z), F(f), F(kto))
  <2>. USE DEF f, r
  <2>. QED
    BY <1>1, <1>2, FilesOf
<1>12. /\ type_of(b[r]) = ROOK /\ color_of(b[r]) = us /\ type_of(b[f]) = KING /\ color_of(b[f]) = us
       /\ type_of(nb[kto]) = KING /\ type_of(nb[rto]) = ROOK
       /\ type_of(b[kk]) = KING /\ color_of(b[kk]) = them /\ kk \in DOMAIN b
       /\ kk \in DOMAIN nb /\ kto \in DOMAIN nb /\ rto \in DOMAIN nb /\ nb[kk] = b[kk]
  BY <1>1, <1>3, <1>6, Pieces, TypesDiffer DEF PieceType, StandsCastled, KingAt
<1>13. kk # f /\ kk # r /\ kk # kto /\ kk # rto
  BY <1>1, <1>3, <1>12 DEF StandsCastled
<1>14. ASSUME NEW s \in Square, Near(s, kk) PROVE attackers_to_exist(b, s, DOMAIN b, them) /\ Hits(b, DOMAIN b, kk, s)
  <2>1. Near(kk, s)
    BY <1>1, <1>14, StepsSym
  <2>2. Hits(b, DOMAIN b, kk, s)
    BY <1>12, <2>1 DEF Hits
  <2>3. Attacked(b, DOMAIN b, them, s)
    BY <1>12, <2>2 DEF Attacked
  <2>. QED
    BY <1>1, <2>2, <2>3, AttackedIs
<1>15. ~Near(f, kk)
  BY <1>2, <1>5, <1>21, <1>12, <1>14
<1>16. ~Near(kto, kk)
  <2>1. kto = f => ~Near(kto, kk)
    BY <1>15
  <2>2. kto \in Int /\ f \in Int
    BY <1>21, Coordinates
  <2>3. kto \in Path(f, kto)
    BY <2>2 DEF Path
  <2>4. kto # f => ~attackers_to_exist(b, kto, DOMAIN b, them)
    BY <1>4, <2>3
  <2>. QED
    BY <1>21, <1>14, <2>1, <2>4
<1>17. x # kto
  BY <1>10, <1>12, <1>16, TypesDiffer DEF Hits
<1>18. R(kk) = R(f) => /\ F(kk) \in 0 .. 7 /\ F(kk) # F(f) /\ F(kk) # F(r)
                       /\ ~Between2(F(kk), F(r), F(rto)) /\ ~Between2(F(kk), F(f), F(kto))
                       /\ F(kk) - F(f) \notin {-1, 1} /\ F(kk) # F(kto) /\ F(kk) # F(rto)
  <2>1. R(kk) = R(f) => F(kk) # F(kto) /\ F(kk) # F(rto)
    BY <1>1, <1>21, <1>13, Same
  <2>2. R(kk) = R(f) /\ F(kk) - F(f) \in {-1, 1} => Near(f, kk)
    <3>1. R(kk) = R(f) => R(kk) - R(f) = 0
      BY <1>1, <1>21, Coordinates
    <3>. QED
      BY <1>13, <3>1 DEF Near
  <2>. QED
    BY <1>11, <1>12, <1>13, <1>15, <2>1, <2>2
<1>19. CASE x = rto
  <2>1. Aligned(ROOK, rto, kk) /\ Clear(rto, kk, DOMAIN nb)
    BY <1>10, <1>12, <1>19, TypesDiffer DEF Hits
  <2>2. ~Clear(rto, kk, DOMAIN b)
    BY <1>9, <1>21, <2>1
  <2>3. PICK z \in Square : Inside(rto, kk, z) /\ z \in DOMAIN b
    BY <2>2 DEF Clear
  <2>4. z \notin DOMAIN nb
    BY <2>1, <2>3 DEF Clear
  <2>5. z = f \/ z = r
    BY <1>3, <2>3, <2>4 DEF StandsCastled
  <2>6. R(kk) = R(f)
    BY <1>1, <1>21, <2>3, <2>5, RankLine
  <2>7. (F(rto) < F(z) /\ F(z) < F(kk)) \/ (F(kk) < F(z) /\ F(z) < F(rto))
    BY <1>1, <1>21, <2>3, <2>5, <2>6, InsideRank
  <2>8. ~((F(rto) < F(kto) /\ F(kto) < F(kk)) \/ (F(kk) < F(kto) /\ F(kto) < F(rto)))
    BY <1>1, <1>21, <1>12, <2>1, <2>6, InsideRank DEF Clear
  <2>9. (F(r) < F(f) /\ F(f) < F(kk) /\ F(rto) < F(f)) \/ (F(kk) < F(f) /\ F(f) < F(r) /\ F(f) < F(rto))
    BY <1>11, <1>18, <2>5, <2>6, <2>7, <2>8 DEF CastlingFiles, Between2
  <2>10. Inside(r, kk, f)
    BY <1>1, <1>21, <2>6, <2>9, InsideRank
  <2>11. Aligned(ROOK, r, kk)
    <3>1. Aligned(ROOK, kk, rto)
      BY <1>1, <1>21, <2>1, AlignedSym
    <3>2. Aligned(ROOK, kk, r)
      BY <1>1, <1>21, <1>13, <2>6, <3>1, RankAligned
    <3>. QED
      BY <1>1, <1>21, <3>2, AlignedSym
  <2>12. square(b, them) \in Square
    BY <1>1
  <2>13. r \in Snipers(b, them)
    BY <1>1, <1>21, <1>12, <2>11, <2>12, SniperIs
  <2>14. f \notin Snipers(b, them)
    BY <1>1, <1>12, <2>12, SniperIs, TypesDiffer
  <2>15. ASSUME NEW y \in DOMAIN b, Inside(r, kk, y) PROVE y = f
    <3>1. y \in Square
      BY <1>1 DEF IsBoard
    <3>2. R(y) = R(f) /\ ((F(r) < F(y) /\ F(y) < F(kk)) \/ (F(kk) < F(y) /\ F(y) < F(r)))
      BY <1>1, <1>21, <2>6, <2>15, <3>1, InsideRank
    <3>3. F(y) \in 0 .. 7
      BY <3>1, Coordinates
    <3>. SUFFICES ASSUME y # f PROVE FALSE
      OBVIOUS
    <3>4. y # r
      BY <1>21, <3>2, Coordinates
    <3>5. y \in DOMAIN nb
      BY <1>3, <3>4 DEF StandsCastled
    <3>6. ~((F(rto) < F(y) /\ F(y) < F(kk)) \/ (F(kk) < F(y) /\ F(y) < F(rto)))
      BY <1>1, <1>21, <2>1, <2>6, <3>1, <3>2, <3>5, InsideRank DEF Clear
    <3>7. F(y) # F(f) /\ ~Between2(F(y), F(r), F(rto)) /\ ~Between2(F(y), F(f), F(kto))
      BY <1>11, <3>2, <3>4
    <3>8. y # rto /\ F(y) # F(rto)
      <4>1. y # rto
        BY <1>3, <3>4 DEF StandsCastled
      <4>. QED
        BY <1>21, <3>1, <3>2, <4>1, Same
    <3>. QED
      BY <1>11, <1>18, <2>6, <2>9, <3>2, <3>3, <3>6, <3>7, <3>8 DEF CastlingFiles, Between2
  <2>16. f \in blockersForKing(b)[them]
    BY <1>1, <1>21, <2>10, <2>12, <2>13, <2>14, <2>15, OnlyBlocker
  <2>. QED
    BY <2>16
<1>20. CASE x # rto
  <2>1. x \in DOMAIN b /\ x \notin {f, r} /\ nb[x] = b[x] /\ x \in Square
    BY <1>1, <1>3, <1>17, <1>20 DEF StandsCastled, IsBoard
  <2>2. Hits(b, DOMAIN nb, x, kk) /\ ~Hits(b, DOMAIN b, x, kk)
    BY <1>8, <1>10, <2>1, HitsOld DEF Attacked
  <2>3. /\ Clear(x, kk, DOMAIN nb)
        /\ \E z \in Square : Inside(x, kk, z) /\ z \in DOMAIN b /\ z \notin DOMAIN nb
    BY <2>1, <2>2, Uncovered
  <2>4. PICK z \in Square : Inside(x, kk, z) /\ z \in DOMAIN b /\ z \notin DOMAIN nb
    BY <2>3
  <2>5. z = f \/ z = r
    BY <1>3, <2>4 DEF StandsCastled
  <2>6. R(kk) = R(f) /\ R(x) = R(f)
    BY <1>1, <1>21, <2>1, <2>4, <2>5, RankLine
  <2>7. (F(x) < F(z) /\ F(z) < F(kk)) \/ (F(kk) < F(z) /\ F(z) < F(x))
    BY <1>1, <1>21, <2>1, <2>4, <2>5, <2>6, InsideRank
  <2>8. /\ ~((F(x) < F(kto) /\ F(kto) < F(kk)) \/ (F(kk) < F(kto) /\ F(kto) < F(x)))
        /\ ~((F(x) < F(rto) /\ F(rto) < F(kk)) \/ (F(kk) < F(rto) /\ F(rto) < F(x)))
    BY <1>1, <1>21, <1>12, <2>1, <2>3, <2>6, InsideRank DEF Clear
  <2>9. /\ F(x) \in 0 .. 7 /\ F(x) # F(f) /\ F(x) # F(r)
        /\ ~Between2(F(x), F(r), F(rto)) /\ ~Between2(F(x), F(f), F(kto))
    BY <1>11, <2>1, <2>6
  <2>10. F(x) # F(kto) /\ F(x) # F(rto)
    BY <1>21, <1>17, <1>20, <2>1, <2>6, Same
  <2>. QED
    BY <1>11, <1>18, <2>5, <2>6, <2>7, <2>8, <2>9, <2>10 DEF CastlingFiles, Between2
<1>. QED
  BY <1>19, <1>20

-------------------------------------------------------------------------------
(***************************************************************************)
(* gives_check sees every check.                                           *)
(***************************************************************************)
(* From a square on the way on, the way is the same.                       *)
LEMMA WayOn ==
  ASSUME NEW x \in Square, NEW k \in Square, NEW f \in Square, Inside(x, k, f)
  PROVE  /\ \A z \in Square : Inside(f, k, z) => Inside(x, k, z)
         /\ \A pt : Aligned(pt, x, k) => Aligned(pt, f, k)
         /\ ~Inside(f, k, f)
<1>1. PICK d \in KingSteps, n \in 1 .. 7, j \in 1 .. 7 : j < n /\ Toward(x, d, n, k) /\ Toward(x, d, j, f)
  BY DEF Inside
<1>2. Toward(f, d, n - j, k) /\ n - j \in 1 .. 7
  <2>1. n - j \in 1 .. 7
    BY <1>1
  <2>. QED
    BY <1>1, <2>1, Rest
<1>3. ASSUME NEW z \in Square, Inside(f, k, z) PROVE Inside(x, k, z)
  <2>1. PICK i \in 1 .. 7 : i < n - j /\ Toward(f, d, i, z)
    BY <1>2, <1>3, InsideWay
  <2>2. j + i \in 1 .. 7 /\ j + i < n
    BY <1>1, <2>1
  <2>3. Toward(x, d, j + i, z)
    BY <1>1, <2>1, <2>2, Farther
  <2>. QED
    BY <1>1, <2>2, <2>3 DEF Inside
<1>4. ASSUME NEW pt, Aligned(pt, x, k) PROVE Aligned(pt, f, k)
  <2>1. PICK e \in SlideDirections(pt), i \in 1 .. 7 : Toward(x, e, i, k)
    BY <1>4 DEF Aligned
  <2>2. e \in KingSteps
    BY <2>1, Directions
  <2>3. e = d
    BY <1>1, <2>1, <2>2, OneWay
  <2>. QED
    BY <1>2, <2>1, <2>3 DEF Aligned
<1>5. ~Inside(f, k, f)
  BY NotHere DEF Inside
<1>. QED
  BY <1>3, <1>4, <1>5

(* A check that another move gives is seen.                                *)
LEMMA MoveChecks ==
  ASSUME NEW p, Sound(p), NEW m, PieceGoes(p.board, p.sideToMove, m) \/ PawnGoes(p.board, p.sideToMove, m),
         Suspect(p, m) => legal(p, m),
         Attacked(After1(p, m), DOMAIN After1(p, m), p.sideToMove, TheirKing(p))
  PROVE  gives_check(p, m)
<1>. DEFINE b == p.board
            us == p.sideToMove
            them == Them(us)
            nb == After1(p, m)
            f == m.from
            t == m.to
            kk == TheirKing(p)
            pt == type_of(b[f])
            q == Arrived(b, us, m)
            cs == St(p).checkSquares
            pinned == blockersForKing(b)[them]
<1>1. /\ us \in Color /\ them \in Color /\ us # them /\ Them(them) = us /\ IsBoard(b)
      /\ kk = square(b, them) /\ KingAt(b, them, kk) /\ kk \in Square
  BY SoundFacts, Pieces DEF TheirKing
<1>2. Proper(b, us, m) /\ CaptureSquare(us, m) = t /\ m.type # "enpassant" /\ t # kk /\ t # f
  BY GoesProper, NoKingTaken
<1>3. t \in Square /\ f \in DOMAIN b /\ f \in Square /\ color_of(b[f]) = us /\ m.type \in {"normal", "promotion"} /\ b[f] \in Piece
      /\ (t \in DOMAIN b => color_of(b[t]) = them)
  BY <1>1 DEF PieceGoes, PawnGoes, Mover, IsBoard
<1>4. Stands(nb, b, us, f, t, t) /\ KingAt(nb, them, kk) /\ nb[t] = q
  <2>1. Stands(nb, b, us, f, t, t)
    BY <1>2, StandsAfter
  <2>. QED
    BY <1>2, <2>1, BoardAfter
<1>5. \A z \in DOMAIN b : ~Inside(f, t, z)
  BY <1>1, GoesOpen
<1>6. ~Attacked(b, DOMAIN b, us, kk)
  BY <1>1 DEF Sound, Level
<1>7. /\ t \in cs[pt] => gives_check(p, m)
      /\ f \in pinned /\ kk \notin LineBB[f][t] => gives_check(p, m)
      /\ f \notin pinned /\ m.type = "promotion" /\ kk \in attacks_bb(m.promo, t, DOMAIN b \ {f}) => gives_check(p, m)
  BY SoundFacts DEF gives_check, pieces
<1>8. /\ t \in cs[PAWN] <=> Strikes(us, t, kk)
      /\ t \in cs[KNIGHT] <=> Jumps(t, kk)
      /\ pt \in {BISHOP, ROOK, QUEEN} => (t \in cs[pt] <=> Aligned(pt, t, kk) /\ Clear(t, kk, DOMAIN b))
  BY <1>3, CheckSquares
<1>9. pt = KING => m.type = "normal" /\ ~Attacked(b, DOMAIN b \ {f}, them, t)
  <2>. SUFFICES ASSUME pt = KING PROVE m.type = "normal" /\ ~Attacked(b, DOMAIN b \ {f}, them, t)
    OBVIOUS
  <2>1. b[f] = make_piece(us, KING)
    BY <1>3, Pieces
  <2>2. f = MyKing(p)
    BY <1>3, <2>1, SoundFacts DEF KingAt
  <2>3. legal(p, m)
    BY <2>2 DEF Suspect
  <2>4. ~attackers_to_exist(b, t, DOMAIN b \ {f}, them)
    BY <1>3, <2>3 DEF legal, pieces
  <2>5. make_piece(us, PAWN) # make_piece(us, KING)
    BY <1>1, Pieces, TypesDiffer DEF PieceType
  <2>6. m.type = "normal"
    BY <2>1, <2>5 DEF PieceGoes, PawnGoes
  <2>. QED
    BY <1>1, <1>3, <2>4, <2>6, AttackedIs
<1>10. /\ m.type = "normal" => q = b[f]
       /\ m.type = "promotion" =>
            /\ pt = PAWN /\ q = make_piece(us, m.promo) /\ m.promo \in KNIGHT .. QUEEN /\ PawnGoes(b, us, m)
            /\ relative_rank(us, f) = 6 /\ relative_rank(us, t) = 7
  <2>1. m.type = "promotion" => PawnGoes(b, us, m)
    BY DEF PieceGoes
  <2>2. PawnGoes(b, us, m) => b[f] = make_piece(us, PAWN) /\ (m.type = "promotion" => m.promo \in KNIGHT .. QUEEN)
    BY DEF PawnGoes
  <2>3. type_of(make_piece(us, PAWN)) = PAWN
    BY <1>1, Pieces, TypesDiffer DEF PieceType
  <2>4. PawnGoes(b, us, m) /\ m.type = "promotion" => relative_rank(us, f) = 6 /\ relative_rank(us, t) = 7
    BY <1>1, PawnRanks, SoundFacts
  <2>. QED
    BY <2>1, <2>2, <2>3, <2>4 DEF Arrived
<1>11. PICK x \in DOMAIN nb : color_of(nb[x]) = us /\ Hits(nb, DOMAIN nb, x, kk)
  BY DEF Attacked
<1>12. m.promo \in KNIGHT .. QUEEN => type_of(make_piece(us, m.promo)) = m.promo
  BY <1>1, Pieces, TypesDiffer DEF PieceType
<1>13. kk \in DOMAIN b /\ type_of(b[kk]) = KING /\ color_of(b[kk]) = them /\ kk # f
  BY <1>1, <1>3, Pieces, TypesDiffer DEF KingAt, PieceType
<1>. HIDE DEF b, us, them, nb, f, t, kk, pt, q, cs, pinned
<1>14. /\ DOMAIN nb = (DOMAIN b \ {f, t}) \cup {t}
       /\ \A y \in DOMAIN nb : y # t => y \in DOMAIN b /\ y # f /\ nb[y] = b[y]
  BY <1>4 DEF Stands
<1>15. CASE x = t
  <2>1. /\ type_of(q) = PAWN => Strikes(color_of(q), t, kk)
        /\ type_of(q) = KNIGHT => Jumps(t, kk)
        /\ type_of(q) = KING => Near(t, kk)
        /\ type_of(q) \in {BISHOP, ROOK, QUEEN} => Aligned(type_of(q), t, kk) /\ Clear(t, kk, DOMAIN nb)
    BY <1>4, <1>11, <1>15, TypesDiffer DEF Hits
  <2>2. CASE m.type = "normal"
    <3>1. q = b[f] /\ type_of(q) = pt /\ color_of(q) = us /\ pt \in 1 .. 6
      BY <1>3, <1>10, <2>2, Pieces DEF pt
    <3>2. CASE pt = PAWN \/ pt = KNIGHT
      BY <1>7, <1>8, <2>1, <3>1, <3>2
    <3>3. CASE pt = KING
      <4>1. Near(kk, t)
        BY <1>1, <1>3, <2>1, <3>1, <3>3, StepsSym
      <4>2. Hits(b, DOMAIN b \ {f}, kk, t)
        BY <1>13, <4>1 DEF Hits
      <4>. QED
        BY <1>9, <1>13, <3>3, <4>2 DEF Attacked
    <3>4. CASE pt \in {BISHOP, ROOK, QUEEN}
      <4>1. Aligned(pt, t, kk) /\ Clear(t, kk, DOMAIN nb)
        BY <2>1, <3>1, <3>4
      <4>2. CASE Clear(t, kk, DOMAIN b)
        BY <1>7, <1>8, <3>4, <4>1, <4>2
      <4>3. CASE ~Clear(t, kk, DOMAIN b)
        <5>1. PICK z \in Square : Inside(t, kk, z) /\ z \in DOMAIN b
          BY <4>3 DEF Clear
        <5>2. z = f
          BY <1>14, <4>1, <5>1 DEF Clear
        <5>3. Inside(t, kk, f)
          BY <5>1, <5>2
        <5>4. Aligned(pt, f, kk) /\ ~Inside(f, kk, f) /\ \A y \in Square : Inside(f, kk, y) => Inside(t, kk, y)
          BY <1>1, <1>3, <4>1, <5>3, WayOn
        <5>5. \A y \in Square : Inside(f, kk, y) => y \notin DOMAIN b
          BY <1>14, <4>1, <5>4 DEF Clear
        <5>6. Hits(b, DOMAIN b, f, kk)
          BY <1>3, <3>4, <5>4, <5>5 DEF Hits, Clear, pt
        <5>. QED
          BY <1>3, <1>6, <5>6 DEF Attacked
      <4>. QED
        BY <4>2, <4>3
    <3>5. pt \in {PAWN, KNIGHT, KING, BISHOP, ROOK, QUEEN}
      BY <3>1, TypesDiffer
    <3>. QED
      BY <3>2, <3>3, <3>4, <3>5
  <2>3. CASE m.type = "promotion"
    <3>1. type_of(q) = m.promo /\ m.promo \in KNIGHT .. QUEEN /\ PawnGoes(b, us, m)
      BY <1>10, <1>12, <2>3
    <3>2. CASE f \notin pinned
      <4>1. CASE m.promo = KNIGHT
        <5>1. kk \in PseudoAttacks[KNIGHT][t]
          BY <1>1, <1>3, <2>1, <3>1, <4>1, KnightIs
        <5>. QED
          BY <1>7, <2>3, <3>2, <4>1, <5>1 DEF attacks_bb
      <4>2. CASE m.promo # KNIGHT
        <5>1. m.promo \in {BISHOP, ROOK, QUEEN} /\ m.promo \notin {KNIGHT, KING}
          BY <3>1, <4>2, TypesDiffer
        <5>2. Aligned(m.promo, t, kk) /\ Clear(t, kk, DOMAIN nb)
          BY <2>1, <3>1, <5>1
        <5>3. Clear(t, kk, DOMAIN b \ {f})
          BY <1>14, <5>2 DEF Clear
        <5>4. kk \in sliding_attack(m.promo, t, DOMAIN b \ {f})
          BY <1>1, <1>3, <5>2, <5>3, SlidingIs
        <5>. QED
          BY <1>7, <2>3, <3>2, <5>1, <5>4 DEF attacks_bb
      <4>. QED
        BY <4>1, <4>2
    <3>3. CASE f \in pinned
      <4>. SUFFICES ASSUME kk \in LineBB[f][t] PROVE FALSE
        BY <1>7, <3>3
      <4>1. square(b, them) \in Square
        BY <1>1
      <4>2. PICK y \in Snipers(b, them) : Inside(y, kk, f)
        BY <1>1, <3>3, <4>1, BlockerMeans DEF pinned
      <4>3. y \in DOMAIN b /\ color_of(b[y]) = us /\ y \in Square
        BY <1>1, <4>1, SniperIs DEF IsBoard
      <4>4. OnLine(f, t, kk)
        BY <1>3, LineIs
      <4>5. t # y
        BY <1>1, <1>3, <4>3
      <4>6. ~Inside(f, t, kk) /\ ~Inside(f, t, y)
        BY <1>5, <1>13, <4>3
      <4>7. Inside(y, kk, t)
        BY <1>1, <1>2, <1>3, <4>2, <4>3, <4>4, <4>5, <4>6, StaysInside
      <4>8. R(t) \in {0, 7} /\ R(f) # R(t)
        BY <1>1, <1>3, <1>10, <2>3, Coordinates DEF relative_rank, R
      <4>9. R(y) = R(t) /\ R(kk) = R(t)
        BY <1>1, <1>3, <4>3, <4>7, <4>8, RankLine
      <4>10. R(f) = R(y)
        BY <1>1, <1>3, <4>2, <4>3, <4>9, InsideRank
      <4>. QED
        BY <4>8, <4>9, <4>10
    <3>. QED
      BY <3>2, <3>3
  <2>. QED
    BY <1>3, <2>2, <2>3
<1>16. CASE x # t
  <2>1. x \in DOMAIN b /\ x # f /\ nb[x] = b[x] /\ x \in Square /\ color_of(b[x]) = us
    BY <1>1, <1>11, <1>14, <1>16 DEF IsBoard
  <2>2. Hits(b, DOMAIN nb, x, kk) /\ ~Hits(b, DOMAIN b, x, kk)
    BY <1>6, <1>11, <2>1, HitsOld DEF Attacked
  <2>3. /\ type_of(b[x]) \in {BISHOP, ROOK, QUEEN} /\ Aligned(type_of(b[x]), x, kk) /\ Clear(x, kk, DOMAIN nb)
        /\ \E z \in Square : Inside(x, kk, z) /\ z \in DOMAIN b /\ z \notin DOMAIN nb
    BY <2>1, <2>2, Uncovered
  <2>4. Inside(x, kk, f)
    BY <1>14, <2>3
  <2>5. \A z \in DOMAIN b : Inside(x, kk, z) => z = f
    BY <1>1, <1>14, <2>3 DEF IsBoard, Clear
  <2>6. square(b, them) \in Square
    BY <1>1
  <2>7. x \in Snipers(b, them)
    BY <1>1, <2>1, <2>3, <2>6, SniperIs
  <2>8. f \notin Snipers(b, them)
    <3>. SUFFICES ASSUME f \in Snipers(b, them) PROVE FALSE
      OBVIOUS
    <3>1. pt \in {BISHOP, ROOK, QUEEN} /\ Aligned(pt, f, kk)
      BY <1>1, <2>6, SniperIs DEF pt
    <3>2. ~Inside(f, kk, f) /\ \A y \in Square : Inside(f, kk, y) => Inside(x, kk, y)
      BY <1>1, <1>3, <2>1, <2>4, WayOn
    <3>3. \A y \in Square : Inside(f, kk, y) => y \notin DOMAIN b
      BY <2>5, <3>2
    <3>4. Hits(b, DOMAIN b, f, kk)
      BY <1>3, <3>1, <3>3 DEF Hits, Clear, pt
    <3>. QED
      BY <1>3, <1>6, <3>4 DEF Attacked
  <2>9. f \in pinned
    BY <1>1, <1>3, <2>4, <2>5, <2>6, <2>7, <2>8, OnlyBlocker DEF pinned
  <2>. SUFFICES ASSUME kk \in LineBB[f][t] PROVE FALSE
    BY <1>7, <2>9
  <2>10. OnLine(f, t, kk)
    BY <1>3, LineIs
  <2>11. ~Inside(f, t, kk) /\ ~Inside(f, t, x)
    BY <1>5, <1>13, <2>1
  <2>12. Inside(x, kk, t)
    BY <1>1, <1>2, <1>3, <1>16, <2>1, <2>4, <2>10, <2>11, StaysInside
  <2>. QED
    BY <1>3, <1>14, <2>3, <2>12 DEF Clear
<1>. QED
  BY <1>15, <1>16

(* The captured pawn beside f is on no line with a king on the way of f.   *)
LEMMA BesideTheLine ==
  ASSUME NEW us \in Color, NEW f \in Square, NEW t \in Square, NEW k \in Square, NEW c \in Square, NEW x \in Square,
         Strikes(us, f, t), F(c) = F(t), R(c) = R(f), OnLine(f, t, k), k # f, k # t
  PROVE  ~Inside(x, k, c)
<1>1. PICK d \in KingSteps, n \in 1 .. 7 : Toward(f, d, n, t) /\ \E j \in 1 .. 7 : Toward(f, d, j, k) \/ Toward(f, -d, j, k)
  BY DEF OnLine
<1>2. PICK j \in 1 .. 7 : Toward(f, d, j, k) \/ Toward(f, -d, j, k)
  BY <1>1
<1>3. /\ F(f) \in 0 .. 7 /\ R(f) \in 0 .. 7 /\ F(t) \in 0 .. 7 /\ R(t) \in 0 .. 7 /\ F(k) \in 0 .. 7 /\ R(k) \in 0 .. 7
      /\ F(c) \in 0 .. 7 /\ R(c) \in 0 .. 7 /\ F(x) \in 0 .. 7 /\ R(x) \in 0 .. 7
  BY Coordinates
<1>4. PICK a, e \in {-1, 1} : F(t) = F(f) + a /\ R(t) = R(f) + e
  BY <1>3 DEF Strikes
<1>12. (a = 1 \/ a = -1) /\ (e = 1 \/ e = -1)
  BY <1>4
<1>5. \/ d = 9 /\ n = 1 /\ a = 1 /\ e = 1
      \/ d = -9 /\ n = 1 /\ a = -1 /\ e = -1
      \/ d = 7 /\ n = 1 /\ a = -1 /\ e = 1
      \/ d = -7 /\ n = 1 /\ a = 1 /\ e = -1
  <2>1. (a = 1 /\ F(t) = F(f) + 1) \/ (a = -1 /\ F(t) = F(f) - 1)
    BY <1>3, <1>4, <1>12
  <2>2. (e = 1 /\ R(t) = R(f) + 1) \/ (e = -1 /\ R(t) = R(f) - 1)
    BY <1>3, <1>4, <1>12
  <2>3. F(t) # F(f) /\ R(t) # R(f)
    BY <1>3, <2>1, <2>2
  <2>4. \/ d = 9 /\ F(t) = F(f) + n /\ R(t) = R(f) + n
        \/ d = -9 /\ F(t) = F(f) - n /\ R(t) = R(f) - n
        \/ d = 7 /\ F(t) = F(f) - n /\ R(t) = R(f) + n
        \/ d = -7 /\ F(t) = F(f) + n /\ R(t) = R(f) - n
    BY <1>1, <2>3 DEF Toward
  <2>5. n \in 1 .. 7
    BY <1>1
  <2>. HIDE <1>1, <1>4
  <2>. QED
    BY <1>3, <2>1, <2>2, <2>4, <2>5
<1>6. PICK i \in -7 .. 7 : F(k) = F(f) + a * i /\ R(k) = R(f) + e * i
  <2>1. CASE Toward(f, d, j, k)
    <3>1. F(k) = F(f) + a * j /\ R(k) = R(f) + e * j
      <4>4. /\ a = 1 => a * j = j
            /\ a = -1 => a * j = -j
            /\ e = 1 => e * j = j
            /\ e = -1 => e * j = -j
        OBVIOUS
      <4>7. \/ F(k) = F(f) + j /\ R(k) = R(f) + j /\ a = 1 /\ e = 1
            \/ F(k) = F(f) - j /\ R(k) = R(f) - j /\ a = -1 /\ e = -1
            \/ F(k) = F(f) - j /\ R(k) = R(f) + j /\ a = -1 /\ e = 1
            \/ F(k) = F(f) + j /\ R(k) = R(f) - j /\ a = 1 /\ e = -1
        BY <1>5, <2>1 DEF Toward
      <4>. QED
        BY <1>3, <4>4, <4>7
    <3>. QED
      BY <3>1
  <2>2. CASE Toward(f, -d, j, k)
    <3>1. F(k) = F(f) + a * (-j) /\ R(k) = R(f) + e * (-j)
      <4>2. /\ d = 9 => -d = -9
            /\ d = -9 => -d = 9
            /\ d = 7 => -d = -7
            /\ d = -7 => -d = 7
        OBVIOUS
      <4>3. \/ -d = -9 /\ a = 1 /\ e = 1
            \/ -d = 9 /\ a = -1 /\ e = -1
            \/ -d = -7 /\ a = -1 /\ e = 1
            \/ -d = 7 /\ a = 1 /\ e = -1
        BY <1>5, <4>2
      <4>4. /\ a = 1 => a * (-j) = -j
            /\ a = -1 => a * (-j) = j
            /\ e = 1 => e * (-j) = -j
            /\ e = -1 => e * (-j) = j
        OBVIOUS
      <4>. DEFINE d2 == -d
      <4>. HIDE DEF d2
      <4>5. Toward(f, d2, j, k)
        BY <2>2 DEF d2
      <4>6. \/ d2 = -9 /\ a = 1 /\ e = 1
            \/ d2 = 9 /\ a = -1 /\ e = -1
            \/ d2 = -7 /\ a = -1 /\ e = 1
            \/ d2 = 7 /\ a = 1 /\ e = -1
        BY <4>3 DEF d2
      <4>7. \/ F(k) = F(f) - j /\ R(k) = R(f) - j /\ a = 1 /\ e = 1
            \/ F(k) = F(f) + j /\ R(k) = R(f) + j /\ a = -1 /\ e = -1
            \/ F(k) = F(f) + j /\ R(k) = R(f) - j /\ a = -1 /\ e = 1
            \/ F(k) = F(f) - j /\ R(k) = R(f) + j /\ a = 1 /\ e = -1
        BY <4>5, <4>6 DEF Toward
      <4>. QED
        BY <1>3, <4>4, <4>7
    <3>2. -j \in -7 .. 7
      OBVIOUS
    <3>. QED
      BY <3>1, <3>2
  <2>. QED
    BY <1>2, <2>1, <2>2
<1>7. i # 0 /\ i # 1
  <2>1. i = 0 => F(k) = F(f) /\ R(k) = R(f)
    BY <1>3, <1>6
  <2>2. i = 1 => F(k) = F(t) /\ R(k) = R(t)
    BY <1>3, <1>4, <1>6
  <2>. QED
    BY <2>1, <2>2, Same
<1>8. /\ F(k) - F(c) = a * i - a /\ R(k) - R(c) = e * i
  BY <1>3, <1>4, <1>6
<1>. SUFFICES ASSUME Inside(x, k, c) PROVE FALSE
  OBVIOUS
<1>9. PICK g \in KingSteps, v \in 1 .. 7, w \in 1 .. 7 : w < v /\ Toward(x, g, v, k) /\ Toward(x, g, w, c)
  BY DEF Inside
<1>10. Toward(c, g, v - w, k)
  BY <1>9, Rest
<1>. DEFINE dx == F(k) - F(c)
            dy == R(k) - R(c)
<1>11. dx = 0 \/ dy = 0 \/ dx = dy \/ dx = -dy
  BY <1>3, <1>9, <1>10 DEF Toward
<1>. HIDE DEF dx, dy
<1>13. dx = a * i - a /\ dy = e * i /\ dx \in Int /\ dy \in Int
  <2>1. dx \in Int /\ dy \in Int
    BY <1>3 DEF dx, dy
  <2>. QED
    BY <1>8, <2>1 DEF dx, dy
<1>. QED
  BY <1>7, <1>11, <1>12, <1>13

(* A check that a capture in passing gives is seen.                        *)
LEMMA PassingChecks ==
  ASSUME NEW p, Sound(p), NEW m, Passing(p.board, p.sideToMove, St(p).epSquare, m),
         Attacked(After1(p, m), DOMAIN After1(p, m), p.sideToMove, TheirKing(p))
  PROVE  gives_check(p, m)
<1>. DEFINE b == p.board
            us == p.sideToMove
            them == Them(us)
            nb == After1(p, m)
            f == m.from
            t == m.to
            cap == t - pawn_push(us)
            kk == TheirKing(p)
            pt == type_of(b[f])
            cs == St(p).checkSquares
            pinned == blockersForKing(b)[them]
<1>1. /\ us \in Color /\ them \in Color /\ us # them /\ Them(them) = us /\ IsBoard(b)
      /\ kk = square(b, them) /\ KingAt(b, them, kk) /\ kk \in Square
  BY SoundFacts, Pieces DEF TheirKing
<1>2. /\ Proper(b, us, m) /\ CaptureSquare(us, m) = cap /\ t \in Square /\ t \notin DOMAIN b
      /\ cap \in DOMAIN b /\ b[cap] = make_piece(them, PAWN)
  BY PassingProper
<1>3. m.type = "enpassant" /\ f \in DOMAIN b /\ b[f] = make_piece(us, PAWN) /\ Strikes(us, f, t) /\ f \in Square
  BY <1>1 DEF Passing, IsBoard
<1>4. Stands(nb, b, us, f, cap, t) /\ nb[t] = b[f]
  <2>1. Stands(nb, b, us, f, cap, t)
    BY <1>2, StandsAfter
  <2>2. nb[t] = Arrived(b, us, m)
    BY <1>2, BoardAfter
  <2>. QED
    BY <1>3, <2>1, <2>2 DEF Arrived
<1>5. /\ color_of(b[f]) = us /\ type_of(b[f]) = PAWN /\ color_of(b[cap]) = them
      /\ kk \in DOMAIN b /\ type_of(b[kk]) = KING /\ kk # f
  BY <1>1, <1>2, <1>3, Pieces, TypesDiffer DEF KingAt, PieceType
<1>6. ~Attacked(b, DOMAIN b, us, kk)
  BY <1>1 DEF Sound, Level
<1>7. /\ t \in cs[pt] => gives_check(p, m)
      /\ f \in pinned /\ kk \notin LineBB[f][t] => gives_check(p, m)
      /\ f \notin pinned /\ ThroughCaptured(p, m) => gives_check(p, m)
  BY <1>3, SoundFacts DEF gives_check, pieces
<1>8. t \in cs[PAWN] <=> Strikes(us, t, kk)
  BY <1>2, CheckSquares
<1>. DEFINE left == (DOMAIN b \ {f, cap}) \cup {t}
<1>9. /\ sliding_attack(ROOK, kk, left) \cap Exactly(b, us, {QUEEN, ROOK}) # {} => ThroughCaptured(p, m)
      /\ sliding_attack(BISHOP, kk, left) \cap Exactly(b, us, {QUEEN, BISHOP}) # {} => ThroughCaptured(p, m)
  BY <1>2 DEF ThroughCaptured, pieces
<1>10. F(cap) = F(t) /\ R(cap) = R(f) /\ cap \in Square
  <2>1. cap \in Square /\ cap + pawn_push(us) = t
    <3>1. t \in Int /\ pawn_push(us) \in Int
      BY <1>2, Coordinates DEF pawn_push
    <3>. QED
      BY <1>1, <1>2, <3>1 DEF IsBoard
  <2>2. Ahead(us, cap, t, 1)
    BY <1>1, <1>2, <2>1, Forward
  <2>3. F(f) \in Int /\ R(f) \in Int /\ F(t) \in Int /\ R(t) \in Int /\ F(cap) \in Int /\ R(cap) \in Int
    BY <1>2, <1>3, <2>1, Coordinates
  <2>. QED
    BY <1>3, <2>1, <2>2, <2>3 DEF Ahead, Strikes
<1>11. PICK x \in DOMAIN nb : color_of(nb[x]) = us /\ Hits(nb, DOMAIN nb, x, kk)
  BY DEF Attacked
<1>. HIDE DEF b, us, them, nb, f, t, kk, pt, cs, pinned, cap, left
<1>12. /\ DOMAIN nb = left
       /\ \A y \in DOMAIN nb : y # t => y \in DOMAIN b /\ y # f /\ y # cap /\ nb[y] = b[y]
  BY <1>4 DEF Stands, left
<1>13. kk # t
  BY <1>2, <1>5
<1>14. CASE x = t
  <2>1. Strikes(us, t, kk)
    BY <1>4, <1>5, <1>11, <1>14, TypesDiffer DEF Hits
  <2>. QED
    BY <1>5, <1>7, <1>8, <2>1 DEF pt
<1>15. CASE x # t
  <2>1. x \in DOMAIN b /\ x # f /\ nb[x] = b[x] /\ x \in Square /\ color_of(b[x]) = us
    BY <1>1, <1>11, <1>12, <1>15 DEF IsBoard
  <2>2. Hits(b, left, x, kk) /\ ~Hits(b, DOMAIN b, x, kk)
    BY <1>6, <1>11, <1>12, <2>1, HitsOld DEF Attacked
  <2>3. /\ type_of(b[x]) \in {BISHOP, ROOK, QUEEN} /\ Aligned(type_of(b[x]), x, kk) /\ Clear(x, kk, left)
        /\ \E z \in Square : Inside(x, kk, z) /\ z \in DOMAIN b /\ z \notin left
    BY <2>1, <2>2, Uncovered
  <2>4. CASE f \notin pinned
    <3>1. /\ x \in sliding_attack(ROOK, kk, left) <=> Aligned(ROOK, x, kk) /\ Clear(x, kk, left)
          /\ x \in sliding_attack(BISHOP, kk, left) <=> Aligned(BISHOP, x, kk) /\ Clear(x, kk, left)
      BY <1>1, <2>1, SliderSeen
    <3>2. \A pts : x \in Exactly(b, us, pts) <=> type_of(b[x]) \in pts
      BY <2>1 DEF Exactly
    <3>3. \/ type_of(b[x]) \in {QUEEN, ROOK} /\ Aligned(ROOK, x, kk)
          \/ type_of(b[x]) \in {QUEEN, BISHOP} /\ Aligned(BISHOP, x, kk)
      BY <2>3, QueenAligned
    <3>. QED
      BY <1>7, <1>9, <2>3, <2>4, <3>1, <3>2, <3>3
  <2>5. CASE f \in pinned
    <3>. SUFFICES ASSUME kk \in LineBB[f][t] PROVE FALSE
      BY <1>7, <2>5
    <3>1. OnLine(f, t, kk)
      BY <1>2, <1>3, LineIs
    <3>2. ~Inside(f, t, kk) /\ ~Inside(f, t, x)
      BY <1>1, <1>2, <1>3, <2>1, NothingInside
    <3>3. ~Inside(x, kk, t)
      BY <1>2, <2>3 DEF Clear, left
    <3>4. ~Inside(x, kk, f)
      BY <1>1, <1>2, <1>3, <1>13, <1>15, <2>1, <3>1, <3>2, <3>3, StaysInside
    <3>5. Inside(x, kk, cap)
      BY <2>3, <3>4 DEF left
    <3>. QED
      BY <1>1, <1>2, <1>3, <1>5, <1>10, <1>13, <2>1, <3>1, <3>5, BesideTheLine
  <2>. QED
    BY <2>4, <2>5
<1>. QED
  BY <1>14, <1>15

-------------------------------------------------------------------------------
(***************************************************************************)
(* The keys after a move are those of the board.                           *)
(***************************************************************************)
(* The terms do_move combines, in the order in which set_state does.       *)
LEMMA XorSum ==
  ASSUME NEW K, NEW E, NEW W, NEW C, NEW s, NEW r, NEW c, NEW m, NEW q, NEW C1, NEW E1, NEW W1, W ++ s = W1
  PROVE  K ++ E ++ W ++ C ++ s ++ r ++ c ++ m ++ q ++ E ++ C ++ C1 ++ E1
           = ((((K ++ r) ++ c) ++ m) ++ q) ++ E1 ++ W1 ++ C1
<1>. DEFINE V == W ++ s
            a1 == K ++ E
            a2 == a1 ++ W
            a3 == a2 ++ C
            a4 == a3 ++ s
            a5 == a4 ++ r
            a6 == a5 ++ c
            a7 == a6 ++ m
            a8 == a7 ++ q
            a9 == a8 ++ E
            a10 == a9 ++ C
            a11 == a10 ++ C1
            a12 == a11 ++ E1
            b1 == K ++ r
            b2 == b1 ++ c
            b3 == b2 ++ m
            b4 == b3 ++ q
            b5 == b4 ++ E1
            b6 == b5 ++ V
            b7 == b6 ++ C1
<1>. SUFFICES ASSUME NEW e PROVE e \in a12 <=> e \in b7
  OBVIOUS
<1>1. e \in V <=> ~(e \in W <=> e \in s)
  BY Xor
<1>2. e \in a1 <=> ~(e \in K <=> e \in E)
  BY Xor
<1>3. e \in a2 <=> ~(e \in a1 <=> e \in W)
  BY Xor
<1>4. e \in a3 <=> ~(e \in a2 <=> e \in C)
  BY Xor
<1>5. e \in a4 <=> ~(e \in a3 <=> e \in s)
  BY Xor
<1>6. e \in a5 <=> ~(e \in a4 <=> e \in r)
  BY Xor
<1>7. e \in a6 <=> ~(e \in a5 <=> e \in c)
  BY Xor
<1>8. e \in a7 <=> ~(e \in a6 <=> e \in m)
  BY Xor
<1>9. e \in a8 <=> ~(e \in a7 <=> e \in q)
  BY Xor
<1>10. e \in a9 <=> ~(e \in a8 <=> e \in E)
  BY Xor
<1>11. e \in a10 <=> ~(e \in a9 <=> e \in C)
  BY Xor
<1>12. e \in a11 <=> ~(e \in a10 <=> e \in C1)
  BY Xor
<1>13. e \in a12 <=> ~(e \in a11 <=> e \in E1)
  BY Xor
<1>14. e \in b1 <=> ~(e \in K <=> e \in r)
  BY Xor
<1>15. e \in b2 <=> ~(e \in b1 <=> e \in c)
  BY Xor
<1>16. e \in b3 <=> ~(e \in b2 <=> e \in m)
  BY Xor
<1>17. e \in b4 <=> ~(e \in b3 <=> e \in q)
  BY Xor
<1>18. e \in b5 <=> ~(e \in b4 <=> e \in E1)
  BY Xor
<1>19. e \in b6 <=> ~(e \in b5 <=> e \in V)
  BY Xor
<1>20. e \in b7 <=> ~(e \in b6 <=> e \in C1)
  BY Xor
<1>. HIDE DEF V, a1, a2, a3, a4, a5, a6, a7, a8, a9, a10, a11, a12, b1, b2, b3, b4, b5, b6, b7
<1>. QED
  BY <1>1, <1>2, <1>3, <1>4, <1>5, <1>6, <1>7, <1>8, <1>9, <1>10, <1>11, <1>12, <1>13, <1>14, <1>15, <1>16, <1>17, <1>18, <1>19, <1>20

(* A key combined with nothing, and with itself.                           *)
LEMMA XorNothing ==
  ASSUME NEW x
  PROVE  x ++ {} = x /\ {} ++ x = x /\ x ++ x = {}
BY DEF ++

(* The side to move changes.                                               *)
LEMMA SideTurns ==
  ASSUME NEW us \in Color
  PROVE  When(us = BLACK, side) ++ side = When(Them(us) = BLACK, side)
<1>1. (us = BLACK /\ Them(us) # BLACK) \/ (us # BLACK /\ Them(us) = BLACK)
  BY DEF Color, Them, WHITE, BLACK
<1>. QED
  BY <1>1, XorNothing DEF When

(* The values of the pieces.                                               *)
LEMMA ValueOf ==
  /\ PieceValue(PAWN) = 208 /\ PieceValue(KNIGHT) = 781 /\ PieceValue(BISHOP) = 825 /\ PieceValue(ROOK) = 1276
  /\ PieceValue(QUEEN) = 2538
  /\ \A c \in Color, pt \in PieceType : PieceValue(make_piece(c, pt)) = PieceValue(pt)
  /\ \A pc \in Piece : PieceValue(pc) = PieceValue(type_of(pc))
<1>1. \A pt \in PieceType : type_of(pt) = pt
  BY DEF PieceType, type_of, PAWN, KING
<1>2. \A a, c : type_of(a) = type_of(c) => PieceValue(a) = PieceValue(c)
  BY DEF PieceValue
<1>3. \A c \in Color, pt \in PieceType : type_of(make_piece(c, pt)) = pt
  BY Pieces
<1>4. {PAWN, KNIGHT, BISHOP, ROOK, QUEEN} \subseteq PieceType
  BY TypesDiffer DEF PieceType
<1>5. /\ PieceValue(PAWN) = 208 /\ PieceValue(KNIGHT) = 781 /\ PieceValue(BISHOP) = 825 /\ PieceValue(ROOK) = 1276
      /\ PieceValue(QUEEN) = 2538
  BY <1>1, <1>4, TypesDiffer DEF PieceValue
<1>6. \A c \in Color, pt \in PieceType : PieceValue(make_piece(c, pt)) = PieceValue(pt)
  BY <1>1, <1>2, <1>3
<1>7. \A pc \in Piece : PieceValue(pc) = PieceValue(type_of(pc))
  BY <1>1, <1>2, Pieces
<1>. QED
  BY <1>5, <1>6, <1>7

(* The material of a side.                                                 *)
LEMMA MaterialIs ==
  ASSUME NEW b, NEW c
  PROVE  Material(b, c) = 781 * pieceCount(b, make_piece(c, KNIGHT)) + 825 * pieceCount(b, make_piece(c, BISHOP))
                            + 1276 * pieceCount(b, make_piece(c, ROOK)) + 2538 * pieceCount(b, make_piece(c, QUEEN))
BY ValueOf DEF Material

(* The key of castling rights, en passant and the side to move.            *)
LEMMA KeyTotal ==
  ASSUME NEW p, Sound(p), NEW m, NEW nb, IsBoard(nb),
         QKey(nb, Piece)
           = (((QKey(p.board, Piece) ++ RookKey(p, m)) ++ CapturedKey(p, m)) ++ MovedKey(p, m)) ++ PromotedKey(p, m)
  PROVE  KeyAfter(p, m) = KeyOf(nb, pieces(nb)) ++ EpKey(EpAfter(p, m)) ++ When(Them(p.sideToMove) = BLACK, side)
                            ++ castlingKey(RightsAfter(p, m))
<1>. DEFINE K == QKey(p.board, Piece)
            E == EpKey(St(p).epSquare)
            W == When(p.sideToMove = BLACK, side)
            C == castlingKey(St(p).castlingRights)
            C1 == castlingKey(RightsAfter(p, m))
            E1 == EpKey(EpAfter(p, m))
            W1 == When(Them(p.sideToMove) = BLACK, side)
            r == RookKey(p, m)
            c == CapturedKey(p, m)
            v == MovedKey(p, m)
            q == PromotedKey(p, m)
<1>1. IsBoard(p.board) /\ p.sideToMove \in Color /\ KeysAgree(p.board, p.sideToMove, St(p))
  BY DEF Sound, Level
<1>2. St(p).key = KeyOf(p.board, pieces(p.board)) ++ E ++ W ++ C
  BY <1>1 DEF KeysAgree
<1>3. KeyOf(p.board, pieces(p.board)) = K /\ KeyOf(nb, pieces(nb)) = QKey(nb, Piece)
  BY <1>1, KeysOfBoard
<1>4. W ++ side = W1
  BY <1>1, SideTurns
<1>5. KeyAfter(p, m) = St(p).key ++ side ++ r ++ c ++ v ++ q ++ E ++ C ++ C1 ++ E1
  BY DEF KeyAfter
<1>6. QKey(nb, Piece) = (((K ++ r) ++ c) ++ v) ++ q
  OBVIOUS
<1>. HIDE DEF K, E, W, C, C1, E1, W1, r, c, v, q
<1>7. KeyAfter(p, m) = K ++ E ++ W ++ C ++ side ++ r ++ c ++ v ++ q ++ E ++ C ++ C1 ++ E1
  BY <1>2, <1>3, <1>5
<1>8. KeyAfter(p, m) = ((((K ++ r) ++ c) ++ v) ++ q) ++ E1 ++ W1 ++ C1
  BY <1>4, <1>7, XorSum
<1>9. KeyAfter(p, m) = KeyOf(nb, pieces(nb)) ++ E1 ++ W1 ++ C1
  BY <1>3, <1>6, <1>8
<1>. QED
  BY <1>9 DEF E1, W1, C1

(* What do_move makes of keys and material is what the new board has.      *)
KeysFollow(p, m, nb) ==
  /\ MaterialKeyAfter(p, m) = compute_material_key(nb)
  /\ PawnKeyAfter(p, m) = noPawns ++ KeyOf(nb, OfTypes(nb, {PAWN}))
  /\ MinorKeyAfter(p, m) = KeyOf(nb, OfTypes(nb, {KNIGHT, BISHOP}))
  /\ NonPawnKeyAfter(p, m) = [c \in Color |-> KeyOf(nb, NonPawns(nb, c))]
  /\ MaterialAfter(p, m) = [c \in Color |-> Material(nb, c)]
  /\ KeyAfter(p, m) = KeyOf(nb, pieces(nb)) ++ EpKey(EpAfter(p, m)) ++ When(Them(p.sideToMove) = BLACK, side)
                        ++ castlingKey(RightsAfter(p, m))

(* nonPawnMaterial after a move other than castling.                       *)
LEMMA MaterialFollows ==
  ASSUME NEW p, Sound(p), NEW m, Proper(p.board, p.sideToMove, m)
  PROVE  MaterialAfter(p, m) = [c \in Color |-> Material(After1(p, m), c)]
<1>. DEFINE b == p.board
            us == p.sideToMove
            them == Them(us)
            nb == After1(p, m)
            cap == CaptureSquare(us, m)
            q == Arrived(b, us, m)
            pc == b[m.from]
            captured == Captured(p, m)
<1>1. us \in Color /\ them \in Color /\ us # them /\ IsBoard(b) /\ \A c \in Color : c = us \/ c = them
  BY SoundFacts, Pieces DEF Color, WHITE, BLACK
<1>2. KeysAgree(b, us, St(p))
  BY DEF Sound, Level
<1>3. Playable(b, us, m) /\ CanMove(b, m.from, cap, m.to, q)
  BY DEF Proper, Playable
<1>4. captured = piece_on(b, cap)
  BY <1>3, MoveCarried
<1>5. \A x \in Piece : pieceCount(nb, x) = pieceCount(b, x) - (IF pc = x THEN 1 ELSE 0)
                         - (IF captured = x THEN 1 ELSE 0) + (IF q = x THEN 1 ELSE 0)
  BY <1>3, <1>4, MovedCounts DEF After1
<1>6. /\ captured = NO_PIECE \/ (captured \in Piece /\ color_of(captured) = them)
      /\ pc \in Piece /\ color_of(pc) = us
      /\ m.type = "promotion" => pc = make_piece(us, PAWN) /\ q = make_piece(us, m.promo) /\ m.promo \in KNIGHT .. QUEEN
      /\ m.type # "promotion" => q = pc
  <2>1. captured = NO_PIECE \/ captured \in Piece
    BY <1>1, <1>4 DEF piece_on, IsBoard
  <2>. QED
    BY <1>1, <1>3, <1>4, <2>1 DEF Proper, Playable, CanMove, Arrived, IsBoard
<1>7. \A c \in Color : St(p).nonPawnMaterial[c] = Material(b, c)
  BY <1>2 DEF KeysAgree
<1>8. \A c \in Color : /\ make_piece(c, KNIGHT) \in Piece /\ make_piece(c, BISHOP) \in Piece
                       /\ make_piece(c, ROOK) \in Piece /\ make_piece(c, QUEEN) \in Piece /\ make_piece(c, PAWN) \in Piece
  BY Pieces, TypesDiffer
<1>9. \A x \in Piece : pieceCount(b, x) \in Int
  BY <1>1, CountType
<1>. DEFINE delta(c) == IF c = us THEN (IF Promotes(m) THEN PieceValue(make_piece(c, m.promo)) ELSE 0)
                        ELSE (IF type_of(captured) \in KNIGHT..QUEEN THEN -PieceValue(captured) ELSE 0)
<1>10. MaterialAfter(p, m) = [c \in Color |-> St(p).nonPawnMaterial[c] + delta(c)]
  BY DEF MaterialAfter
<1>11. Promotes(m) <=> m.type = "promotion"
  BY DEF Promotes
<1>. HIDE DEF b, us, them, nb, cap, q, pc, captured
<1>12. Material(b, us) + delta(us) = Material(nb, us)
  <2>. DEFINE n(x) == pieceCount(b, x)
              N == make_piece(us, KNIGHT)
              B == make_piece(us, BISHOP)
              T == make_piece(us, ROOK)
              Q == make_piece(us, QUEEN)
              P == make_piece(us, PAWN)
  <2>1. /\ N \in Piece /\ B \in Piece /\ T \in Piece /\ Q \in Piece
        /\ color_of(N) = us /\ color_of(B) = us /\ color_of(T) = us /\ color_of(Q) = us
        /\ type_of(N) = KNIGHT /\ type_of(B) = BISHOP /\ type_of(T) = ROOK /\ type_of(Q) = QUEEN /\ type_of(P) = PAWN
    BY <1>1, Pieces, TypesDiffer
  <2>2. captured # N /\ captured # B /\ captured # T /\ captured # Q
    BY <1>1, <1>6, <2>1, Pieces
  <2>3. Material(b, us) = 781 * n(N) + 825 * n(B) + 1276 * n(T) + 2538 * n(Q)
    BY MaterialIs
  <2>4. Material(nb, us) = 781 * pieceCount(nb, N) + 825 * pieceCount(nb, B) + 1276 * pieceCount(nb, T) + 2538 * pieceCount(nb, Q)
    BY MaterialIs
  <2>5. n(N) \in Int /\ n(B) \in Int /\ n(T) \in Int /\ n(Q) \in Int
    BY <1>9, <2>1
  <2>6. CASE m.type # "promotion"
    <3>1. pieceCount(nb, N) = n(N) /\ pieceCount(nb, B) = n(B) /\ pieceCount(nb, T) = n(T) /\ pieceCount(nb, Q) = n(Q)
      BY <1>5, <1>6, <2>1, <2>2, <2>5, <2>6
    <3>2. delta(us) = 0
      BY <1>11, <2>6
    <3>. HIDE DEF delta, n
    <3>. QED
      BY <2>3, <2>4, <2>5, <3>1, <3>2
  <2>7. CASE m.type = "promotion"
    <3>1. pc # N /\ pc # B /\ pc # T /\ pc # Q
      BY <1>6, <2>1, <2>7, TypesDiffer
    <3>2. /\ pieceCount(nb, N) = n(N) + (IF q = N THEN 1 ELSE 0) /\ pieceCount(nb, B) = n(B) + (IF q = B THEN 1 ELSE 0)
          /\ pieceCount(nb, T) = n(T) + (IF q = T THEN 1 ELSE 0) /\ pieceCount(nb, Q) = n(Q) + (IF q = Q THEN 1 ELSE 0)
      BY <1>5, <2>1, <2>2, <2>5, <3>1
    <3>3. \/ q = N /\ q # B /\ q # T /\ q # Q /\ m.promo = KNIGHT
          \/ q = B /\ q # N /\ q # T /\ q # Q /\ m.promo = BISHOP
          \/ q = T /\ q # N /\ q # B /\ q # Q /\ m.promo = ROOK
          \/ q = Q /\ q # N /\ q # B /\ q # T /\ m.promo = QUEEN
      <4>1. m.promo = KNIGHT \/ m.promo = BISHOP \/ m.promo = ROOK \/ m.promo = QUEEN
        BY <1>6, <2>7, TypesDiffer
      <4>2. N # B /\ N # T /\ N # Q /\ B # T /\ B # Q /\ T # Q
        BY <2>1, TypesDiffer
      <4>3. q = make_piece(us, m.promo)
        BY <1>6, <2>7
      <4>. QED
        BY <4>1, <4>2, <4>3
    <3>4. delta(us) = PieceValue(m.promo)
      <4>1. m.promo \in PieceType
        BY <1>6, <2>7, TypesDiffer DEF PieceType
      <4>. QED
        BY <1>1, <1>11, <2>7, <4>1, ValueOf
    <3>5. delta(us) = IF m.promo = KNIGHT THEN 781 ELSE IF m.promo = BISHOP THEN 825 ELSE IF m.promo = ROOK THEN 1276 ELSE 2538
      BY <3>3, <3>4, ValueOf, TypesDiffer
    <3>. HIDE DEF delta, n, N, B, T, Q, P
    <3>. QED
      BY <2>3, <2>4, <2>5, <3>2, <3>3, <3>5, TypesDiffer
  <2>. QED
    BY <2>6, <2>7
<1>13. Material(b, them) + delta(them) = Material(nb, them)
  <2>. DEFINE n(x) == pieceCount(b, x)
              N == make_piece(them, KNIGHT)
              B == make_piece(them, BISHOP)
              T == make_piece(them, ROOK)
              Q == make_piece(them, QUEEN)
  <2>1. /\ N \in Piece /\ B \in Piece /\ T \in Piece /\ Q \in Piece
        /\ color_of(N) = them /\ color_of(B) = them /\ color_of(T) = them /\ color_of(Q) = them
        /\ type_of(N) = KNIGHT /\ type_of(B) = BISHOP /\ type_of(T) = ROOK /\ type_of(Q) = QUEEN
    BY <1>1, Pieces, TypesDiffer
  <2>2. color_of(q) = us
    <3>1. m.promo \in KNIGHT .. QUEEN => m.promo \in PieceType
      BY TypesDiffer DEF PieceType
    <3>. QED
      BY <1>1, <1>6, <3>1, Pieces
  <2>3. Material(b, them) = 781 * n(N) + 825 * n(B) + 1276 * n(T) + 2538 * n(Q)
    BY MaterialIs
  <2>4. Material(nb, them) = 781 * pieceCount(nb, N) + 825 * pieceCount(nb, B) + 1276 * pieceCount(nb, T) + 2538 * pieceCount(nb, Q)
    BY MaterialIs
  <2>5. n(N) \in Int /\ n(B) \in Int /\ n(T) \in Int /\ n(Q) \in Int
    BY <1>9, <2>1
  <2>6. /\ pieceCount(nb, N) = n(N) - (IF captured = N THEN 1 ELSE 0) /\ pieceCount(nb, B) = n(B) - (IF captured = B THEN 1 ELSE 0)
        /\ pieceCount(nb, T) = n(T) - (IF captured = T THEN 1 ELSE 0) /\ pieceCount(nb, Q) = n(Q) - (IF captured = Q THEN 1 ELSE 0)
    <3>1. pc # N /\ pc # B /\ pc # T /\ pc # Q /\ q # N /\ q # B /\ q # T /\ q # Q
      BY <1>1, <1>6, <2>1, <2>2
    <3>. QED
      BY <1>5, <2>1, <2>5, <3>1
  <2>7. N # B /\ N # T /\ N # Q /\ B # T /\ B # Q /\ T # Q
    BY <2>1, TypesDiffer
  <2>8. CASE type_of(captured) \in KNIGHT .. QUEEN
    <3>1. captured \in Piece /\ captured = make_piece(them, type_of(captured))
      <4>1. captured \in Piece
        BY <1>6, <2>8, Pieces, TypesDiffer
      <4>. QED
        BY <1>6, <4>1, Pieces
    <3>2. type_of(captured) = KNIGHT \/ type_of(captured) = BISHOP \/ type_of(captured) = ROOK \/ type_of(captured) = QUEEN
      BY <2>8, TypesDiffer
    <3>3. \/ captured = N /\ delta(them) = -781
          \/ captured = B /\ delta(them) = -825
          \/ captured = T /\ delta(them) = -1276
          \/ captured = Q /\ delta(them) = -2538
      <4>1. delta(them) = -PieceValue(type_of(captured))
        BY <1>1, <2>8, <3>1, ValueOf
      <4>. QED
        BY <3>1, <3>2, <4>1, ValueOf
    <3>. HIDE DEF delta, n, N, B, T, Q
    <3>. QED
      BY <2>3, <2>4, <2>5, <2>6, <2>7, <3>3
  <2>9. CASE type_of(captured) \notin KNIGHT .. QUEEN
    <3>1. captured # N /\ captured # B /\ captured # T /\ captured # Q
      BY <2>1, <2>9, TypesDiffer
    <3>2. delta(them) = 0
      BY <1>1, <2>9
    <3>. HIDE DEF delta, n, N, B, T, Q
    <3>. QED
      BY <2>3, <2>4, <2>5, <2>6, <3>1, <3>2
  <2>. QED
    BY <2>8, <2>9
<1>. HIDE DEF delta
<1>14. \A c \in Color : St(p).nonPawnMaterial[c] + delta(c) = Material(nb, c)
  BY <1>1, <1>7, <1>12, <1>13
<1>15. MaterialAfter(p, m) = [c \in Color |-> Material(nb, c)]
  BY <1>10, <1>14
<1>. QED
  BY <1>15 DEF nb

(* All keys after a move other than castling.                              *)
LEMMA MoveKeysFollow ==
  ASSUME NEW p, Sound(p), NEW m, Proper(p.board, p.sideToMove, m)
  PROVE  KeysFollow(p, m, After1(p, m))
<1>. DEFINE b == p.board
            us == p.sideToMove
            nb == After1(p, m)
            captured == Captured(p, m)
<1>1. us \in Color /\ IsBoard(b) /\ KeysAgree(b, us, St(p))
  BY SoundFacts DEF Sound, Level
<1>2. IsBoard(nb)
  BY BoardAfter
<1>3. MaterialKeyAfter(p, m) = compute_material_key(nb)
  BY <1>1, MaterialKept DEF KeysAgree, After1
<1>4. /\ QKey(nb, Piece) = (((QKey(b, Piece) ++ RookKey(p, m)) ++ CapturedKey(p, m)) ++ MovedKey(p, m)) ++ PromotedKey(p, m)
      /\ QKey(nb, OfKind({PAWN}))
           = (QKey(b, OfKind({PAWN})) ++ When(type_of(captured) = PAWN, CapturedKey(p, m)))
                ++ When(type_of(b[m.from]) = PAWN, MovedKey(p, m))
      /\ QKey(nb, OfKind({KNIGHT, BISHOP}))
           = ((QKey(b, OfKind({KNIGHT, BISHOP})) ++ When(type_of(captured) \in {KNIGHT, BISHOP}, CapturedKey(p, m)))
                ++ When(m.promo \in {KNIGHT, BISHOP}, PromotedKey(p, m)))
                ++ When(type_of(b[m.from]) \in {KNIGHT, BISHOP}, MovedKey(p, m))
      /\ \A c \in Color :
           QKey(nb, OfSide(c))
             = QKey(b, OfSide(c))
                 ++ IF c = us
                    THEN (RookKey(p, m) ++ PromotedKey(p, m)) ++ When(type_of(b[m.from]) # PAWN, MovedKey(p, m))
                    ELSE When(type_of(captured) # PAWN, CapturedKey(p, m))
  <2>1. KeysGo(p, m, nb)
    BY KeysKept DEF After1
  <2>. HIDE DEF nb
  <2>. QED
    BY <2>1 DEF KeysGo
<1>5. /\ \A types : KeyOf(b, OfTypes(b, types)) = QKey(b, OfKind(types))
      /\ \A c : KeyOf(b, NonPawns(b, c)) = QKey(b, OfSide(c))
      /\ \A types : KeyOf(nb, OfTypes(nb, types)) = QKey(nb, OfKind(types))
      /\ \A c : KeyOf(nb, NonPawns(nb, c)) = QKey(nb, OfSide(c))
  BY <1>1, <1>2, KeysOfBoard
<1>6. /\ St(p).pawnKey = noPawns ++ QKey(b, OfKind({PAWN}))
      /\ St(p).minorPieceKey = QKey(b, OfKind({KNIGHT, BISHOP}))
      /\ \A c \in Color : St(p).nonPawnKey[c] = QKey(b, OfSide(c))
  BY <1>1, <1>5 DEF KeysAgree
<1>7. PawnKeyAfter(p, m) = noPawns ++ KeyOf(nb, OfTypes(nb, {PAWN}))
  <2>. DEFINE A == QKey(b, OfKind({PAWN}))
              x == When(type_of(captured) = PAWN, CapturedKey(p, m))
              y == When(type_of(b[m.from]) = PAWN, MovedKey(p, m))
  <2>1. PawnKeyAfter(p, m) = ((noPawns ++ A) ++ x) ++ y
    BY <1>6 DEF PawnKeyAfter
  <2>2. KeyOf(nb, OfTypes(nb, {PAWN})) = (A ++ x) ++ y
    BY <1>4, <1>5
  <2>. HIDE DEF A, x, y
  <2>3. ((noPawns ++ A) ++ x) ++ y = noPawns ++ ((A ++ x) ++ y)
    <3>. SUFFICES ASSUME NEW e PROVE e \in ((noPawns ++ A) ++ x) ++ y <=> e \in noPawns ++ ((A ++ x) ++ y)
      OBVIOUS
    <3>. QED
      BY DEF ++
  <2>. QED
    BY <2>1, <2>2, <2>3
<1>8. MinorKeyAfter(p, m) = KeyOf(nb, OfTypes(nb, {KNIGHT, BISHOP}))
  BY <1>4, <1>5, <1>6 DEF MinorKeyAfter
<1>9. NonPawnKeyAfter(p, m) = [c \in Color |-> KeyOf(nb, NonPawns(nb, c))]
  <2>. DEFINE d(c) == IF c = us THEN RookKey(p, m) ++ PromotedKey(p, m) ++ When(type_of(b[m.from]) # PAWN, MovedKey(p, m))
                      ELSE When(type_of(captured) # PAWN, CapturedKey(p, m))
  <2>1. NonPawnKeyAfter(p, m) = [c \in Color |-> St(p).nonPawnKey[c] ++ d(c)]
    BY DEF NonPawnKeyAfter
  <2>2. \A c \in Color : KeyOf(nb, NonPawns(nb, c)) = QKey(b, OfSide(c)) ++ d(c)
    BY <1>4, <1>5
  <2>. HIDE DEF d
  <2>3. \A c \in Color : St(p).nonPawnKey[c] ++ d(c) = KeyOf(nb, NonPawns(nb, c))
    BY <1>6, <2>2
  <2>. HIDE DEF nb
  <2>. QED
    BY <2>1, <2>3
<1>10. MaterialAfter(p, m) = [c \in Color |-> Material(nb, c)]
  BY MaterialFollows
<1>11. KeyAfter(p, m) = KeyOf(nb, pieces(nb)) ++ EpKey(EpAfter(p, m)) ++ When(Them(us) = BLACK, side)
                          ++ castlingKey(RightsAfter(p, m))
  BY <1>2, <1>4, KeyTotal
<1>. QED
  BY <1>3, <1>7, <1>8, <1>9, <1>10, <1>11 DEF KeysFollow

(* All keys after castling.                                                *)
LEMMA CastleKeysFollow ==
  ASSUME NEW p, Sound(p), NEW m, Castles(p.board, p.sideToMove, m), m.promo = 0
  PROVE  KeysFollow(p, m, After2(p, m))
<1>. DEFINE b == p.board
            us == p.sideToMove
            nb == After2(p, m)
            f == m.from
            r == m.to
            kto == KTo(p, m)
            rto == RTo(p, m)
            kp == make_piece(us, KING)
            rp == make_piece(us, ROOK)
<1>1. us \in Color /\ IsBoard(b) /\ KeysAgree(b, us, St(p))
  BY SoundFacts DEF Sound, Level
<1>2. /\ CanCastle(b, f, r, kto, rto, kp, rp) /\ b[f] = kp /\ b[r] = rp
      /\ m.type = "castling" /\ m.promo = 0 /\ Captured(p, m) = NO_PIECE /\ IsBoard(nb)
      /\ nb = Castled(b, f, r, kto, rto, kp, rp)
  BY CastledAfter DEF Castles, KTo, RTo, StandsCastled, After2
<1>3. \A Q : QKey(nb, Q) = (((QKey(b, Q) ++ When(kp \in Q, {<<kp, f>>})) ++ When(rp \in Q, {<<rp, r>>}))
                              ++ When(kp \in Q, {<<kp, kto>>})) ++ When(rp \in Q, {<<rp, rto>>})
  <2>1. \A Q : QKey(Castled(b, f, r, kto, rto, kp, rp), Q)
                 = (((QKey(b, Q) ++ When(kp \in Q, {<<kp, f>>})) ++ When(rp \in Q, {<<rp, r>>}))
                      ++ When(kp \in Q, {<<kp, kto>>})) ++ When(rp \in Q, {<<rp, rto>>})
    <3>. SUFFICES ASSUME NEW Q PROVE QKey(Castled(b, f, r, kto, rto, kp, rp), Q)
                 = (((QKey(b, Q) ++ When(kp \in Q, {<<kp, f>>})) ++ When(rp \in Q, {<<rp, r>>}))
                      ++ When(kp \in Q, {<<kp, kto>>})) ++ When(rp \in Q, {<<rp, rto>>})
      OBVIOUS
    <3>1. CastlesTo(b, f, r, kto, rto, kp, rp)
      BY <1>2 DEF CastlesTo
    <3>. HIDE DEF b, f, r, kto, rto, kp, rp
    <3>. QED
      BY <3>1, CastledKeys
  <2>. QED
    BY <2>1 DEF After2
<1>4. \A x \in Piece : pieceCount(nb, x) = pieceCount(b, x)
  <2>1. \A x \in Piece : pieceCount(Castled(b, f, r, kto, rto, kp, rp), x) = pieceCount(b, x)
    <3>1. CastlesTo(b, f, r, kto, rto, kp, rp)
      BY <1>2 DEF CastlesTo
    <3>. HIDE DEF b, f, r, kto, rto, kp, rp
    <3>. QED
      BY <3>1, CastledCounts
  <2>. QED
    BY <2>1 DEF After2
<1>5. /\ kp \in Piece /\ rp \in Piece /\ type_of(kp) = KING /\ type_of(rp) = ROOK /\ color_of(kp) = us /\ color_of(rp) = us
  BY <1>1, Pieces, TypesDiffer DEF PieceType
<1>6. f \in Square /\ r \in Square /\ kto \in Square /\ rto \in Square
  BY <1>1, <1>2 DEF CanCastle, IsBoard
<1>7. psq(kp, f) = {<<kp, f>>} /\ psq(kp, kto) = {<<kp, kto>>} /\ psq(rp, r) = {<<rp, r>>} /\ psq(rp, rto) = {<<rp, rto>>}
  BY <1>5, <1>6, PsqIs, TypesDiffer
<1>8. /\ MovedKey(p, m) = {<<kp, f>>} ++ {<<kp, kto>>}
      /\ RookKey(p, m) = {<<rp, r>>} ++ {<<rp, rto>>}
      /\ CapturedKey(p, m) = {} /\ PromotedKey(p, m) = {}
  BY <1>2, <1>7 DEF MovedKey, RookKey, CapturedKey, PromotedKey, Promotes, Arrival, KTo, RTo, When
<1>9. type_of(NO_PIECE) = 0 /\ NO_PIECE = 0
  BY Pieces, TypesDiffer
<1>10. \A types : KeyOf(nb, OfTypes(nb, types)) = QKey(nb, OfKind(types)) /\ KeyOf(b, OfTypes(b, types)) = QKey(b, OfKind(types))
  BY <1>1, <1>2, KeysOfBoard
<1>11. \A c : KeyOf(b, NonPawns(b, c)) = QKey(b, OfSide(c)) /\ KeyOf(nb, NonPawns(nb, c)) = QKey(nb, OfSide(c))
  BY <1>1, <1>2, KeysOfBoard
<1>12. \A Q : kp \notin Q /\ rp \notin Q => QKey(nb, Q) = QKey(b, Q)
  BY <1>3, XorNothing DEF When
<1>13. \A Q : kp \in Q /\ rp \in Q => QKey(nb, Q) = QKey(b, Q) ++ (RookKey(p, m) ++ MovedKey(p, m))
  <2>. SUFFICES ASSUME NEW Q, kp \in Q, rp \in Q PROVE QKey(nb, Q) = QKey(b, Q) ++ (RookKey(p, m) ++ MovedKey(p, m))
    OBVIOUS
  <2>. DEFINE A == QKey(b, Q)
              x == {<<kp, f>>}
              y == {<<rp, r>>}
              u == {<<kp, kto>>}
              v == {<<rp, rto>>}
  <2>1. QKey(nb, Q) = (((A ++ x) ++ y) ++ u) ++ v
    BY <1>3 DEF When
  <2>2. RookKey(p, m) ++ MovedKey(p, m) = (y ++ v) ++ (x ++ u)
    BY <1>8
  <2>. HIDE DEF A, x, y, u, v
  <2>3. (((A ++ x) ++ y) ++ u) ++ v = A ++ ((y ++ v) ++ (x ++ u))
    <3>. SUFFICES ASSUME NEW e PROVE e \in (((A ++ x) ++ y) ++ u) ++ v <=> e \in A ++ ((y ++ v) ++ (x ++ u))
      OBVIOUS
    <3>. QED
      BY DEF ++
  <2>. QED
    BY <2>1, <2>2, <2>3 DEF A
<1>14. kp \notin OfKind({PAWN}) /\ rp \notin OfKind({PAWN}) /\ kp \notin OfKind({KNIGHT, BISHOP}) /\ rp \notin OfKind({KNIGHT, BISHOP})
  BY <1>5, TypesDiffer DEF OfKind
<1>15. \A c : (c = us => kp \in OfSide(c) /\ rp \in OfSide(c)) /\ (c # us => kp \notin OfSide(c) /\ rp \notin OfSide(c))
  BY <1>5, TypesDiffer DEF OfSide
<1>16. PawnKeyAfter(p, m) = St(p).pawnKey /\ MinorKeyAfter(p, m) = St(p).minorPieceKey
  BY <1>2, <1>5, <1>8, <1>9, XorNothing, TypesDiffer DEF PawnKeyAfter, MinorKeyAfter, When
<1>17. PawnKeyAfter(p, m) = noPawns ++ KeyOf(nb, OfTypes(nb, {PAWN}))
  BY <1>1, <1>10, <1>12, <1>14, <1>16 DEF KeysAgree
<1>18. MinorKeyAfter(p, m) = KeyOf(nb, OfTypes(nb, {KNIGHT, BISHOP}))
  BY <1>1, <1>10, <1>12, <1>14, <1>16 DEF KeysAgree
<1>19. \A c \in Color : St(p).nonPawnKey[c] = QKey(b, OfSide(c)) /\ St(p).nonPawnMaterial[c] = Material(b, c)
  BY <1>1, <1>11 DEF KeysAgree
<1>20. NonPawnKeyAfter(p, m) = [c \in Color |-> KeyOf(nb, NonPawns(nb, c))]
  <2>. DEFINE d(c) == IF c = us THEN RookKey(p, m) ++ PromotedKey(p, m) ++ When(type_of(b[m.from]) # PAWN, MovedKey(p, m))
                      ELSE When(type_of(Captured(p, m)) # PAWN, CapturedKey(p, m))
  <2>1. NonPawnKeyAfter(p, m) = [c \in Color |-> St(p).nonPawnKey[c] ++ d(c)]
    BY DEF NonPawnKeyAfter
  <2>2. d(us) = RookKey(p, m) ++ MovedKey(p, m)
    BY <1>2, <1>5, <1>8, XorNothing, TypesDiffer DEF When
  <2>3. \A c \in Color : c # us => d(c) = {}
    BY <1>8 DEF When
  <2>. HIDE DEF d
  <2>4. ASSUME NEW c \in Color PROVE St(p).nonPawnKey[c] ++ d(c) = KeyOf(nb, NonPawns(nb, c))
    <3>1. CASE c = us
      BY <1>11, <1>13, <1>15, <1>19, <2>2, <3>1
    <3>2. CASE c # us
      <4>1. QKey(nb, OfSide(c)) = QKey(b, OfSide(c))
        BY <1>12, <1>15, <3>2
      <4>2. d(c) = {} /\ St(p).nonPawnKey[c] = QKey(b, OfSide(c))
        BY <1>19, <2>3, <3>2
      <4>3. KeyOf(nb, NonPawns(nb, c)) = QKey(nb, OfSide(c))
        BY <1>11
      <4>. HIDE DEF nb, b
      <4>. QED
        BY <4>1, <4>2, <4>3, XorNothing
    <3>. QED
      BY <3>1, <3>2
  <2>. HIDE DEF nb
  <2>. QED
    BY <2>1, <2>4
<1>21. \A c \in Color : Material(nb, c) = Material(b, c)
  <2>1. \A c \in Color : /\ make_piece(c, KNIGHT) \in Piece /\ make_piece(c, BISHOP) \in Piece
                         /\ make_piece(c, ROOK) \in Piece /\ make_piece(c, QUEEN) \in Piece
    BY Pieces, TypesDiffer
  <2>. QED
    BY <1>4, <2>1, MaterialIs
<1>22. MaterialAfter(p, m) = [c \in Color |-> Material(nb, c)]
  <2>. DEFINE d(c) == IF c = us THEN (IF Promotes(m) THEN PieceValue(make_piece(c, m.promo)) ELSE 0)
                      ELSE (IF type_of(Captured(p, m)) \in KNIGHT..QUEEN THEN -PieceValue(Captured(p, m)) ELSE 0)
  <2>1. MaterialAfter(p, m) = [c \in Color |-> St(p).nonPawnMaterial[c] + d(c)]
    BY DEF MaterialAfter
  <2>2. \A c \in Color : d(c) = 0
    BY <1>2, <1>9, TypesDiffer DEF Promotes
  <2>. HIDE DEF d
  <2>3. \A c \in Color : Material(b, c) \in Int
    <3>1. \A x : pieceCount(b, x) \in Int
      BY <1>1, CountType
    <3>. QED
      BY <3>1, MaterialIs
  <2>4. \A c \in Color : St(p).nonPawnMaterial[c] + d(c) = Material(nb, c)
    BY <1>19, <1>21, <2>2, <2>3
  <2>. HIDE DEF nb
  <2>. QED
    BY <2>1, <2>4
<1>23. MaterialKeyAfter(p, m) = compute_material_key(nb)
  <2>1. MaterialKeyAfter(p, m) = St(p).materialKey
    BY <1>2, XorNothing DEF MaterialKeyAfter, Promotes, When
  <2>2. compute_material_key(nb) = compute_material_key(b)
    BY <1>4 DEF compute_material_key
  <2>. QED
    BY <1>1, <2>1, <2>2 DEF KeysAgree
<1>24. QKey(nb, Piece) = (((QKey(b, Piece) ++ RookKey(p, m)) ++ CapturedKey(p, m)) ++ MovedKey(p, m)) ++ PromotedKey(p, m)
  <2>. DEFINE A == QKey(b, Piece)
              x == RookKey(p, m)
              y == MovedKey(p, m)
  <2>1. QKey(nb, Piece) = A ++ (x ++ y)
    BY <1>5, <1>13
  <2>2. (((A ++ x) ++ CapturedKey(p, m)) ++ y) ++ PromotedKey(p, m) = (A ++ x) ++ y
    BY <1>8, XorNothing
  <2>. HIDE DEF A, x, y
  <2>3. A ++ (x ++ y) = (A ++ x) ++ y
    BY DEF ++
  <2>. QED
    BY <2>1, <2>2, <2>3 DEF A, x, y
<1>25. KeyAfter(p, m) = KeyOf(nb, pieces(nb)) ++ EpKey(EpAfter(p, m)) ++ When(Them(us) = BLACK, side)
                          ++ castlingKey(RightsAfter(p, m))
  BY <1>2, <1>24, KeyTotal
<1>. QED
  BY <1>17, <1>18, <1>20, <1>22, <1>23, <1>25 DEF KeysFollow

-------------------------------------------------------------------------------
(***************************************************************************)
(* The en passant square after a double push.                              *)
(***************************************************************************)
(* Two squares seen from a third along the same line.                      *)
LEMMA SameWay ==
  ASSUME NEW x \in Square, NEW k \in Square, NEW z \in Square, NEW w \in Square, Inside(x, k, z), Inside(x, k, w)
  PROVE  \E d \in KingSteps, n \in 1 .. 7, i \in 1 .. 7, j \in 1 .. 7 :
           Toward(x, d, n, k) /\ Toward(x, d, i, z) /\ Toward(x, d, j, w) /\ i < n /\ j < n
<1>1. PICK d \in KingSteps, n \in 1 .. 7, i \in 1 .. 7 : i < n /\ Toward(x, d, n, k) /\ Toward(x, d, i, z)
  BY DEF Inside
<1>2. PICK j \in 1 .. 7 : j < n /\ Toward(x, d, j, w)
  BY <1>1, InsideWay
<1>. QED
  BY <1>1, <1>2

(* Three squares in a row are not one and two steps apart the other way.   *)
LEMMA NotOneAndTwo ==
  ASSUME NEW x \in Square, NEW k \in Square, NEW z \in Square, NEW w \in Square, Inside(x, k, z), Inside(x, k, w),
         F(w) - F(z) \in {-1, 1}, R(w) - R(z) \in {-2, 2}
  PROVE  FALSE
<1>1. PICK d \in KingSteps, n \in 1 .. 7, i \in 1 .. 7, j \in 1 .. 7 :
           Toward(x, d, n, k) /\ Toward(x, d, i, z) /\ Toward(x, d, j, w) /\ i < n /\ j < n
  BY SameWay
<1>2. F(x) \in Int /\ R(x) \in Int /\ F(z) \in Int /\ R(z) \in Int /\ F(w) \in Int /\ R(w) \in Int
  BY Coordinates
<1>3. i \in Int /\ j \in Int
  OBVIOUS
<1>4. /\ F(z) = F(x) \/ R(z) = R(x) \/ F(z) - F(x) = R(z) - R(x) \/ F(z) - F(x) = R(x) - R(z)
      /\ F(z) = F(x) => F(w) = F(x)
      /\ R(z) = R(x) => R(w) = R(x)
      /\ F(z) - F(x) = R(z) - R(x) => F(w) - F(x) = R(w) - R(x)
      /\ F(z) - F(x) = R(x) - R(z) => F(w) - F(x) = R(x) - R(w)
  BY <1>1, <1>2, <1>3 DEF Toward
<1>. QED
  BY <1>2, <1>4

(* On a rank the neighbour of a square in between is in between, or an     *)
(* end.                                                                    *)
LEMMA RankNeighbour ==
  ASSUME NEW x \in Square, NEW k \in Square, NEW f \in Square, NEW c \in Square, NEW s \in Square,
         Inside(x, k, f), Inside(x, k, c), R(f) = R(c), R(s) = R(c), F(f) # F(c),
         F(c) - F(f) = F(s) - F(c), F(c) - F(f) \in {-1, 1}, s # x, s # k
  PROVE  Inside(x, k, s)
<1>1. PICK d \in KingSteps, n \in 1 .. 7, i \in 1 .. 7, j \in 1 .. 7 :
           Toward(x, d, n, k) /\ Toward(x, d, i, f) /\ Toward(x, d, j, c) /\ i < n /\ j < n
  BY SameWay
<1>2. /\ F(x) \in Int /\ R(x) \in Int /\ F(f) \in Int /\ R(f) \in Int /\ F(c) \in Int /\ R(c) \in Int
      /\ F(k) \in Int /\ R(k) \in Int /\ F(s) \in Int /\ R(s) \in Int
  BY Coordinates
<1>3. i \in Int /\ j \in Int /\ n \in Int
  OBVIOUS
<1>4. d \in {1, -1}
  BY <1>1, <1>2, <1>3 DEF Toward
<1>5. R(x) = R(c) /\ R(k) = R(c)
  BY <1>1, <1>2, <1>3, <1>4 DEF Toward
<1>6. /\ (F(x) < F(f) /\ F(f) < F(k)) \/ (F(k) < F(f) /\ F(f) < F(x))
      /\ (F(x) < F(c) /\ F(c) < F(k)) \/ (F(k) < F(c) /\ F(c) < F(x))
  BY <1>5, InsideRank
<1>7. F(s) # F(x) /\ F(s) # F(k)
  BY <1>5, Same
<1>8. (F(x) < F(s) /\ F(s) < F(k)) \/ (F(k) < F(s) /\ F(s) < F(x))
  BY <1>2, <1>6, <1>7
<1>. QED
  BY <1>5, <1>8, InsideRank

(* So on a file.                                                           *)
LEMMA FileNeighbour ==
  ASSUME NEW x \in Square, NEW k \in Square, NEW f \in Square, NEW e \in Square,
         Inside(x, k, f), F(f) = F(k), F(e) = F(f), R(e) - R(f) \in {-1, 1}, e # x, e # k
  PROVE  Inside(x, k, e)
<1>1. PICK d \in KingSteps, n \in 1 .. 7, i \in 1 .. 7 : i < n /\ Toward(x, d, n, k) /\ Toward(x, d, i, f)
  BY DEF Inside
<1>2. /\ F(x) \in Int /\ R(x) \in Int /\ F(f) \in Int /\ R(f) \in Int /\ F(e) \in Int /\ R(e) \in Int
      /\ F(k) \in Int /\ R(k) \in Int
  BY Coordinates
<1>3. i \in 1 .. 7 /\ n \in 1 .. 7 /\ i < n
  BY <1>1
<1>4. d \in {8, -8}
  BY <1>1, <1>2, <1>3 DEF Toward
<1>5. F(x) = F(k)
  BY <1>1, <1>2, <1>3, <1>4 DEF Toward
<1>6. R(e) # R(x) /\ R(e) # R(k)
  BY <1>5, Same
<1>7. CASE d = 8
  <2>. DEFINE j == R(e) - R(x)
  <2>1. R(f) = R(x) + i /\ R(k) = R(x) + n
    BY <1>1, <1>2, <1>3, <1>7 DEF Toward
  <2>2. j \in 1 .. 7 /\ j < n
    BY <1>2, <1>3, <1>6, <2>1
  <2>3. Toward(x, 8, j, e)
    BY <1>2, <1>5, <2>2 DEF Toward
  <2>. QED
    BY <1>1, <1>7, <2>2, <2>3 DEF Inside
<1>8. CASE d = -8
  <2>. DEFINE j == R(x) - R(e)
  <2>1. R(f) = R(x) - i /\ R(k) = R(x) - n
    BY <1>1, <1>2, <1>3, <1>8 DEF Toward
  <2>2. j \in 1 .. 7 /\ j < n
    BY <1>2, <1>3, <1>6, <2>1
  <2>3. Toward(x, -8, j, e)
    BY <1>2, <1>5, <2>2 DEF Toward
  <2>. QED
    BY <1>1, <1>8, <2>2, <2>3 DEF Inside
<1>. QED
  BY <1>4, <1>7, <1>8

(* The two pawns that may take in passing stand beside the pawn they take. *)
LEMMA Beside ==
  ASSUME NEW us \in Color, NEW ep \in Square, NEW c \in Square, c = ep - pawn_push(us)
  PROVE  /\ F(c) = F(ep) /\ R(ep) = R(c) + IF us = WHITE THEN 1 ELSE -1
         /\ \A f \in Square : Strikes(us, f, ep) => R(f) = R(c) /\ F(c) - F(f) \in {-1, 1}
         /\ \A f \in Square, s \in Square :
              Strikes(us, f, ep) /\ Strikes(us, s, ep) /\ f # s
                => R(f) = R(c) /\ R(s) = R(c) /\ F(c) - F(f) = F(s) - F(c) /\ F(c) - F(f) \in {-1, 1}
<1>1. F(c) = F(ep) /\ R(ep) = R(c) + IF us = WHITE THEN 1 ELSE -1
  <2>1. us \in {0, 1} /\ WHITE = 0
    BY TypesDiffer, Pieces
  <2>2. c = ep - IF us = WHITE THEN 8 ELSE -8
    BY DEF pawn_push
  <2>3. F(c) \in 0 .. 7 /\ R(c) \in 0 .. 7 /\ c = 8 * R(c) + F(c) /\ F(ep) \in 0 .. 7 /\ R(ep) \in 0 .. 7 /\ ep = 8 * R(ep) + F(ep)
    BY Coordinates
  <2>4. CASE us = 0
    <3>1. c = ep - 8
      BY <2>1, <2>2, <2>4
    <3>2. F(c) = F(ep) /\ R(ep) = R(c) + 1
      BY <2>3, <3>1
    <3>. QED
      BY <2>1, <2>4, <3>2
  <2>5. CASE us = 1
    <3>1. c = ep - (-8)
      BY <2>1, <2>2, <2>5
    <3>2. F(c) = F(ep) /\ R(ep) = R(c) + (-1)
      BY <2>3, <3>1
    <3>. QED
      BY <2>1, <2>5, <3>2
  <2>. QED
    BY <2>1, <2>4, <2>5
<1>2. ASSUME NEW f \in Square, Strikes(us, f, ep) PROVE R(f) = R(c) /\ F(c) - F(f) \in {-1, 1}
  <2>1. F(f) \in Int /\ R(f) \in Int /\ F(c) \in Int /\ R(c) \in Int /\ F(ep) \in Int
    BY Coordinates
  <2>. QED
    BY <1>1, <1>2, <2>1 DEF Strikes
<1>3. ASSUME NEW f \in Square, NEW s \in Square, Strikes(us, f, ep), Strikes(us, s, ep), f # s
      PROVE  R(f) = R(c) /\ R(s) = R(c) /\ F(c) - F(f) = F(s) - F(c) /\ F(c) - F(f) \in {-1, 1}
  <2>1. R(f) = R(c) /\ F(c) - F(f) \in {-1, 1} /\ R(s) = R(c) /\ F(c) - F(s) \in {-1, 1}
    BY <1>2, <1>3
  <2>2. F(f) # F(s)
    BY <1>3, <2>1, Same
  <2>3. F(f) \in Int /\ F(s) \in Int /\ F(c) \in Int
    BY Coordinates
  <2>. QED
    BY <2>1, <2>2, <2>3
<1>. QED
  BY <1>1, <1>2, <1>3

(* A pawn that may take in passing, and what it opens.                     *)
EpTaker(b, us, f, ep, cap) ==
  /\ f \in DOMAIN b /\ b[f] = make_piece(us, PAWN) /\ Strikes(us, f, ep)
  /\ ep \in Square /\ ep \notin DOMAIN b /\ cap \in DOMAIN b /\ cap = ep - pawn_push(us)
  /\ f \notin blockersForKing(b)[us] \/ square(b, us) \in LineBB[f][ep]
Eyes(b, occ, c, x, k) ==
  /\ x \in DOMAIN b /\ color_of(b[x]) = c /\ type_of(b[x]) \in {BISHOP, ROOK, QUEEN}
  /\ Aligned(type_of(b[x]), x, k) /\ Clear(x, k, occ)

(* A pawn no line is opened by may take in passing.                        *)
LEMMA EpPinHolds ==
  ASSUME NEW b, IsBoard(b), NEW us \in Color, NEW k, k = square(b, us), KingAt(b, us, k),
         NEW f, NEW ep, NEW cap, EpTaker(b, us, f, ep, cap),
         NEW x, Eyes(b, (DOMAIN b \ {f, cap}) \cup {ep}, Them(us), x, k), Inside(x, k, f), ~Inside(x, k, cap)
  PROVE  FALSE
<1>1. /\ f \in DOMAIN b /\ b[f] = make_piece(us, PAWN) /\ Strikes(us, f, ep) /\ ep \in Square /\ ep \notin DOMAIN b
      /\ f \notin blockersForKing(b)[us] \/ k \in LineBB[f][ep]
  BY DEF EpTaker
<1>2. x \in DOMAIN b /\ color_of(b[x]) = Them(us) /\ type_of(b[x]) \in {BISHOP, ROOK, QUEEN}
      /\ Aligned(type_of(b[x]), x, k) /\ Clear(x, k, (DOMAIN b \ {f, cap}) \cup {ep})
  BY DEF Eyes
<1>3. k \in DOMAIN b /\ f \in Square /\ x \in Square /\ k \in Square
  BY <1>1, <1>2 DEF KingAt, IsBoard
<1>4. x \in Snipers(b, us)
  <2>1. square(b, us) \in Square
    BY <1>3
  <2>. QED
    BY <1>2, <2>1, SniperIs
<1>5. color_of(b[f]) = us
  <2>1. PAWN \in PieceType
    BY TypesDiffer, Pieces
  <2>. QED
    BY <1>1, <2>1, Pieces
<1>6. f \notin Snipers(b, us)
  <2>1. square(b, us) \in Square
    BY <1>3
  <2>2. us # Them(us)
    BY Pieces
  <2>. QED
    BY <1>5, <2>1, <2>2, SniperIs
<1>7. \A z \in DOMAIN b : Inside(x, k, z) => z = f
  <2>1. \A z \in Square : Inside(x, k, z) => z \notin (DOMAIN b \ {f, cap}) \cup {ep}
    BY <1>2 DEF Clear
  <2>2. DOMAIN b \subseteq Square
    BY DEF IsBoard
  <2>. QED
    BY <2>1, <2>2
<1>8. f \in blockersForKing(b)[us]
  <2>1. square(b, us) \in Square
    BY <1>3
  <2>. QED
    BY <1>1, <1>4, <1>6, <1>7, <2>1, OnlyBlocker
<1>9. OnLine(f, ep, k)
  <2>1. k \in LineBB[f][ep]
    BY <1>1, <1>8
  <2>. QED
    BY <1>1, <1>3, <2>1, LineIs
<1>10. ep # x /\ ep # k
  BY <1>1, <1>2, <1>3
<1>11. ~Inside(f, ep, k) /\ ~Inside(f, ep, x)
  BY <1>1, <1>3, NothingInside
<1>12. Inside(x, k, ep)
  BY <1>1, <1>3, <1>9, <1>10, <1>11, StaysInside
<1>. QED
  BY <1>1, <1>2, <1>12 DEF Clear

(* On a rank or off it.                                                    *)
LEMMA RankOfBoth ==
  ASSUME NEW x \in Square, NEW k \in Square, NEW f \in Square, NEW c \in Square,
         Inside(x, k, f), Inside(x, k, c), R(f) = R(c), F(f) # F(c)
  PROVE  R(x) = R(c) /\ R(k) = R(c)
<1>1. PICK d \in KingSteps, n \in 1 .. 7, i \in 1 .. 7, j \in 1 .. 7 :
           Toward(x, d, n, k) /\ Toward(x, d, i, f) /\ Toward(x, d, j, c) /\ i < n /\ j < n
  BY SameWay
<1>2. /\ F(x) \in Int /\ R(x) \in Int /\ F(f) \in Int /\ R(f) \in Int /\ F(c) \in Int /\ R(c) \in Int
      /\ F(k) \in Int /\ R(k) \in Int
  BY Coordinates
<1>3. i \in Int /\ j \in Int /\ n \in Int
  OBVIOUS
<1>4. d \in {1, -1}
  BY <1>1, <1>2, <1>3 DEF Toward
<1>. QED
  BY <1>1, <1>2, <1>3, <1>4 DEF Toward

(* A pawn that strikes leaves its file, rank and the line to where it came *)
(* from.                                                                   *)
LEMMA NotAlong ==
  ASSUME NEW e \in Square, NEW k \in Square, NEW f \in Square, R(f) - R(e) \in {-1, 1}, F(f) - F(e) \in {-1, 1},
         R(k) = R(f), k # f
  PROVE  ~OnLine(e, k, f)
<1>. SUFFICES ASSUME OnLine(e, k, f) PROVE FALSE
  OBVIOUS
<1>1. PICK d \in KingSteps, n \in 1 .. 7 : Toward(e, d, n, k) /\ (f = e \/ \E j \in 1 .. 7 : Toward(e, d, j, f) \/ Toward(e, -d, j, f))
  BY DEF OnLine
<1>2. /\ F(e) \in Int /\ R(e) \in Int /\ F(f) \in Int /\ R(f) \in Int /\ F(k) \in Int /\ R(k) \in Int
  BY Coordinates
<1>3. f # e
  BY <1>2
<1>4. PICK j \in 1 .. 7 : Toward(e, d, j, f) \/ Toward(e, -d, j, f)
  BY <1>1, <1>3
<1>5. F(k) # F(f)
  BY Same
<1>6. j \in Int /\ n \in Int /\ n \in 1 .. 7
  OBVIOUS
<1>7. CASE Toward(e, d, j, f)
  BY <1>1, <1>2, <1>5, <1>6, <1>7 DEF Toward
<1>8. CASE Toward(e, -d, j, f)
  BY <1>1, <1>2, <1>5, <1>6, <1>8 DEF Toward
<1>. QED
  BY <1>4, <1>7, <1>8

(* The colors and the directions of their pawns.                           *)
LEMMA Opposite ==
  ASSUME NEW us \in Color
  PROVE  /\ Them(us) \in Color /\ Them(Them(us)) = us /\ us # Them(us)
         /\ pawn_push(Them(us)) = -pawn_push(us) /\ pawn_push(us) \in {8, -8}
         /\ \A s \in Square : relative_rank(Them(us), s) = 7 - relative_rank(us, s)
<1>1. us \in {0, 1} /\ WHITE = 0
  BY TypesDiffer, Pieces
<1>2. Them(us) = 1 - us
  BY DEF Them
<1>3. \A s \in Square : R(s) \in Int
  BY Coordinates
<1>4. \A s \in Square : R(s) = rank_of(s)
  BY DEF R
<1>. QED
  BY <1>1, <1>2, <1>3, <1>4, Pieces DEF pawn_push, relative_rank

DoublePush(b, us, m) ==
  /\ m.from \in DOMAIN b /\ m.from \in Square /\ m.to \in Square /\ m.to \notin DOMAIN b
  /\ m.to - pawn_push(us) \in Square /\ m.to - pawn_push(us) \notin DOMAIN b
  /\ relative_rank(Them(us), m.to - pawn_push(us)) = 5
  /\ Ahead(us, m.from, m.to - pawn_push(us), 1) /\ Ahead(us, m.from, m.to, 2) /\ m.type = "normal" /\ b[m.from] = make_piece(us, PAWN)

(* A pawn move over two ranks is a double push.                            *)
LEMMA PushIs ==
  ASSUME NEW b, IsBoard(b), NEW us \in Color, NEW m, PawnGoes(b, us, m), Abs(m.to - m.from) = 16
  PROVE  DoublePush(b, us, m)
<1>1. /\ m.from \in DOMAIN b /\ m.from \in Square /\ m.to \in Square /\ b[m.from] = make_piece(us, PAWN)
      /\ PawnWay(b, us, m.from, m.to)
  BY DEF PawnGoes, Mover, IsBoard
<1>2. us \in {0, 1} /\ WHITE = 0
  BY TypesDiffer, Pieces
<1>3. /\ F(m.from) \in 0 .. 7 /\ R(m.from) \in 0 .. 7 /\ m.from = 8 * R(m.from) + F(m.from)
      /\ F(m.to) \in 0 .. 7 /\ R(m.to) \in 0 .. 7 /\ m.to = 8 * R(m.to) + F(m.to)
  BY <1>1, Coordinates
<1>4. ~Ahead(us, m.from, m.to, 1) /\ ~Strikes(us, m.from, m.to)
  BY <1>2, <1>3 DEF Ahead, Strikes, Abs
<1>5. /\ Ahead(us, m.from, m.to, 2) /\ relative_rank(us, m.from) = 1 /\ m.from + pawn_push(us) \notin DOMAIN b
      /\ m.to \notin DOMAIN b
  BY <1>1, <1>4 DEF PawnWay
<1>6. m.to = m.from + 2 * pawn_push(us)
  BY <1>1, <1>5, Forward
<1>7. pawn_push(us) \in Int /\ pawn_push(us) \in {8, -8}
  BY Opposite
<1>8. m.to - pawn_push(us) = m.from + pawn_push(us)
  BY <1>3, <1>6, <1>7
<1>9. R(m.from) = IF us = WHITE THEN 1 ELSE 6
  BY <1>2, <1>3, <1>5 DEF relative_rank, R
<1>10. m.from + pawn_push(us) \in Square
  BY <1>2, <1>3, <1>9 DEF pawn_push, Square
<1>11. Ahead(us, m.from, m.from + pawn_push(us), 1)
  BY <1>1, <1>10, Forward
<1>12. relative_rank(Them(us), m.from + pawn_push(us)) = 5
  <2>1. R(m.from + pawn_push(us)) = R(m.from) + IF us = WHITE THEN 1 ELSE -1
    BY <1>11 DEF Ahead
  <2>2. Them(us) = 1 - us
    BY DEF Them
  <2>. QED
    BY <1>2, <1>9, <2>1, <2>2 DEF relative_rank, R
<1>13. m.type = "normal"
  BY <1>5 DEF PawnGoes
<1>. QED
  BY <1>1, <1>5, <1>8, <1>10, <1>11, <1>12, <1>13 DEF DoublePush

(* A pawn that alone stands before the king is in blockersForKing.         *)
LEMMA OnlyShield ==
  ASSUME NEW b, IsBoard(b), NEW us \in Color, NEW k, k = square(b, us), KingAt(b, us, k), NEW x,
         x \in DOMAIN b, color_of(b[x]) = Them(us), type_of(b[x]) \in {BISHOP, ROOK, QUEEN}, Aligned(type_of(b[x]), x, k),
         NEW f \in DOMAIN b, Inside(x, k, f), type_of(b[f]) = PAWN,
         \A z \in DOMAIN b : Inside(x, k, z) => z = f
  PROVE  f \in blockersForKing(b)[us]
<1>1. square(b, us) \in Square
  BY DEF KingAt, IsBoard
<1>2. x \in Snipers(b, us)
  BY <1>1, SniperIs
<1>3. f \notin Snipers(b, us)
  BY <1>1, SniperIs, TypesDiffer
<1>4. Inside(x, square(b, us), f)
  OBVIOUS
<1>5. \A z \in DOMAIN b : Inside(x, square(b, us), z) => z = f
  OBVIOUS
<1>. QED
  BY <1>1, <1>2, <1>3, <1>4, <1>5, OnlyBlocker

(* do_move has set an en passant square.                                   *)
EpPushed(p, m) == EpAfter(p, m) # SQ_NONE
(* When do_move sets an en passant square.                                 *)
LEMMA PushFacts ==
  ASSUME NEW p, Sound(p), NEW m, PawnGoes(p.board, p.sideToMove, m), EpPushed(p, m)
  PROVE  LET us == p.sideToMove  them == Them(us)  b == p.board  ep == m.to - pawn_push(us)  k == TheirKing(p) IN
         /\ EpAfter(p, m) = ep /\ DoublePush(b, us, m)
         /\ m.from \in blockersForKing(b)[them] => F(m.from) = F(k)
         /\ \E s \in DOMAIN b : /\ b[s] = make_piece(them, PAWN) /\ Strikes(them, s, ep)
                                /\ s \in blockersForKing(b)[them] => OnLine(ep, k, s)
<1>. DEFINE us == p.sideToMove
            them == Them(us)
            b == p.board
            ep == m.to - pawn_push(us)
            k == TheirKing(p)
<1>1. /\ IsBoard(b) /\ us \in Color /\ them \in Color /\ k \in Square /\ St(p).blockersForKing = blockersForKing(b)
  BY SoundFacts
<1>2. /\ EpAfter(p, m) = ep /\ Abs(m.to - m.from) = 16
      /\ m.from \notin blockersForKing(b)[them] \/ file_of(m.from) = file_of(k)
      /\ {s \in PawnAttacks[us][ep] \cap Exactly(b, them, {PAWN}) :
            s \notin blockersForKing(b)[them] \/ s \in LineBB[ep][k]} # {}
  BY <1>1 DEF EpPushed, EpAfter, TheirKing
<1>3. DoublePush(b, us, m)
  BY <1>1, <1>2, PushIs
<1>4. ep \in Square
  BY <1>3 DEF DoublePush
<1>5. PICK s : /\ s \in PawnAttacks[us][ep] /\ s \in DOMAIN b /\ color_of(b[s]) = them /\ type_of(b[s]) = PAWN
               /\ s \notin blockersForKing(b)[them] \/ s \in LineBB[ep][k]
  BY <1>2 DEF Exactly
<1>6. s \in Square /\ b[s] \in Piece
  BY <1>1, <1>5 DEF IsBoard
<1>7. b[s] = make_piece(them, PAWN)
  BY <1>5, <1>6, Pieces
<1>8. Strikes(them, s, ep)
  <2>1. Strikes(us, ep, s)
    BY <1>1, <1>4, <1>5, PawnIs
  <2>. QED
    BY <1>1, <1>4, <1>6, <2>1, StepsSym
<1>9. s \in blockersForKing(b)[them] => OnLine(ep, k, s)
  <2>1. s \in LineBB[ep][k] => OnLine(ep, k, s)
    BY <1>1, <1>4, LineIs
  <2>. QED
    BY <1>5, <2>1
<1>. QED
  BY <1>2, <1>3, <1>5, <1>7, <1>8, <1>9 DEF F

(* The board after a pawn has gone two squares. *)
PushedBoard(p, m, nb) ==
  LET us == p.sideToMove  them == Them(us)  b == p.board  ep == m.to - pawn_push(us)  k == TheirKing(p) IN
  /\ IsBoard(nb) /\ DOMAIN nb = (DOMAIN b \ {m.from}) \cup {m.to} /\ nb[m.to] = make_piece(us, PAWN)
  /\ \A x \in DOMAIN nb : x # m.to => x \in DOMAIN b /\ x # m.from /\ nb[x] = b[x]
  /\ KingAt(nb, them, k) /\ k = square(nb, them) /\ k \in DOMAIN nb
  /\ ep - pawn_push(them) = m.to /\ ep \in Square /\ ep \notin DOMAIN nb /\ ep # m.to /\ relative_rank(them, ep) = 5
(* The board a double push leaves.                                         *)
LEMMA PushBoard ==
  ASSUME NEW p, Sound(p), NEW m, PawnGoes(p.board, p.sideToMove, m), DoublePush(p.board, p.sideToMove, m)
  PROVE  PushedBoard(p, m, After1(p, m))
<1>. DEFINE us == p.sideToMove
            them == Them(us)
            b == p.board
            nb == After1(p, m)
            c == m.to
            g == m.from
            ep == m.to - pawn_push(us)
            k == TheirKing(p)
<1>1. /\ IsBoard(b) /\ us \in Color /\ them \in Color /\ k \in Square /\ KingAt(b, them, k)
      /\ Them(them) = us /\ us # them
  BY SoundFacts, Opposite
<1>4. /\ g \in DOMAIN b /\ g \in Square /\ c \in Square /\ c \notin DOMAIN b /\ ep \in Square /\ ep \notin DOMAIN b
      /\ relative_rank(them, ep) = 5 /\ Ahead(us, g, ep, 1) /\ Ahead(us, g, c, 2) /\ m.type = "normal"
      /\ b[g] = make_piece(us, PAWN)
  BY DEF DoublePush
<1>5. Proper(b, us, m) /\ CaptureSquare(us, m) = c
  BY GoesProper
<1>6. /\ IsBoard(nb) /\ DOMAIN nb = (DOMAIN b \ {g, c}) \cup {c} /\ nb[c] = Arrived(b, us, m)
      /\ color_of(nb[c]) = us /\ KingAt(nb, them, k)
  <2>1. Stands(nb, b, us, g, c, c)
    BY <1>5, StandsAfter
  <2>2. nb[c] = Arrived(b, us, m) /\ KingAt(nb, them, k)
    BY <1>5, BoardAfter
  <2>. HIDE DEF nb
  <2>. QED
    BY <2>1, <2>2 DEF Stands
<1>7. \A x \in DOMAIN nb : x # c => x \in DOMAIN b /\ x # g /\ nb[x] = b[x]
  <2>1. Stands(nb, b, us, g, c, c)
    BY <1>5, StandsAfter
  <2>. HIDE DEF nb
  <2>. QED
    BY <2>1 DEF Stands
<1>8. nb[c] = make_piece(us, PAWN)
  BY <1>4, <1>6 DEF Arrived
<1>9. k = square(nb, them) /\ k = square(b, them) /\ k \in DOMAIN b /\ k \in DOMAIN nb
  BY <1>1, <1>6, KingSquare DEF KingAt
<1>10. ep - pawn_push(them) = c
  <2>1. pawn_push(us) \in Int /\ pawn_push(them) = -pawn_push(us) /\ c \in Int
    BY <1>1, <1>4, Opposite DEF Square
  <2>. QED
    BY <2>1
<1>11. ep \notin DOMAIN nb /\ ep # c
  <2>1. F(g) \in Int /\ R(g) \in Int /\ R(c) \in Int /\ R(ep) \in Int
    BY <1>4, Coordinates
  <2>2. R(ep) # R(c)
    BY <1>4, <2>1 DEF Ahead
  <2>. QED
    BY <1>4, <1>6, <2>2
<1>12. DOMAIN nb = (DOMAIN b \ {g}) \cup {c}
  BY <1>4, <1>6
<1>13. PushedBoard(p, m, nb)
  <2>. HIDE DEF nb
  <2>. QED
    BY <1>4, <1>6, <1>7, <1>8, <1>9, <1>10, <1>11, <1>12 DEF PushedBoard
<1>. QED
  BY <1>13 DEF nb

(* f alone shields the king from x. *)
Bared(b, f, c, ep, x, k) ==
  /\ Inside(x, k, f) /\ ~Inside(x, k, c) /\ ~Inside(x, k, ep)
  /\ \A z \in DOMAIN b : Inside(x, k, z) => z = f
(* What would open a line to the king after a capture in passing stood     *)
(* there before the push.                                                  *)
LEMMA PushBares ==
  ASSUME NEW p, Sound(p), NEW m, PawnGoes(p.board, p.sideToMove, m), EpPushed(p, m),
         NEW nb, nb = After1(p, m), NEW ep, ep = m.to - pawn_push(p.sideToMove),
         NEW f \in DOMAIN nb, nb[f] = make_piece(Them(p.sideToMove), PAWN), Strikes(Them(p.sideToMove), f, ep),
         NEW x \in DOMAIN nb, color_of(nb[x]) = p.sideToMove, x # m.to,
         Hits(nb, (DOMAIN nb \ {f, m.to}) \cup {ep}, x, TheirKing(p))
  PROVE  /\ Bared(p.board, f, m.to, ep, x, TheirKing(p)) /\ f \in DOMAIN p.board /\ p.board[f] = make_piece(Them(p.sideToMove), PAWN)
         /\ Eyes(p.board, (DOMAIN nb \ {f, m.to}) \cup {ep}, p.sideToMove, x, TheirKing(p)) /\ p.board[x] = nb[x]
<1>. DEFINE us == p.sideToMove
            them == Them(us)
            b == p.board
            c == m.to
            g == m.from
            k == TheirKing(p)
<1>1. /\ IsBoard(b) /\ us \in Color /\ them \in Color /\ k \in Square /\ KingAt(b, them, k)
      /\ Them(them) = us /\ us # them
  BY SoundFacts, Opposite
<1>2. EpAfter(p, m) = ep /\ DoublePush(b, us, m) /\ (g \in blockersForKing(b)[them] => F(g) = F(k))
  BY PushFacts
<1>3. PICK s \in DOMAIN b : /\ b[s] = make_piece(them, PAWN) /\ Strikes(them, s, ep)
                            /\ s \in blockersForKing(b)[them] => OnLine(ep, k, s)
  BY PushFacts
<1>4. /\ g \in DOMAIN b /\ g \in Square /\ c \in Square /\ c \notin DOMAIN b /\ ep \in Square /\ ep \notin DOMAIN b
      /\ Ahead(us, g, ep, 1) /\ Ahead(us, g, c, 2) /\ b[g] = make_piece(us, PAWN)
  BY <1>2 DEF DoublePush
<1>5. PushedBoard(p, m, nb)
  BY <1>2, PushBoard
<1>6. IsBoard(nb) /\ DOMAIN nb = (DOMAIN b \ {g}) \cup {c} /\ nb[c] = make_piece(us, PAWN)
  BY <1>5 DEF PushedBoard
<1>7. \A z \in DOMAIN nb : z # c => z \in DOMAIN b /\ z # g /\ nb[z] = b[z]
  BY <1>5 DEF PushedBoard
<1>9. k = square(b, them) /\ k \in DOMAIN b
  BY <1>1, KingSquare DEF KingAt
<1>10. ep - pawn_push(them) = c
  BY <1>5 DEF PushedBoard
<1>12. type_of(make_piece(us, PAWN)) = PAWN /\ type_of(make_piece(them, PAWN)) = PAWN /\ color_of(make_piece(them, PAWN)) = them
       /\ color_of(make_piece(us, PAWN)) = us
  BY <1>1, Pieces, TypesDiffer
<1>13. ~Attacked(b, DOMAIN b, us, k)
  BY <1>9 DEF Sound, Level
<1>14. DOMAIN b \subseteq Square
  BY <1>1 DEF IsBoard
<1>15. /\ f \in DOMAIN nb /\ nb[f] = make_piece(them, PAWN) /\ Strikes(them, f, ep)
       /\ x \in DOMAIN nb /\ color_of(nb[x]) = us /\ x # c /\ Hits(nb, (DOMAIN nb \ {f, c}) \cup {ep}, x, k)
  OBVIOUS
<1>. HIDE DEF c, g, k, b, us, them
<1>. DEFINE O == (DOMAIN nb \ {f, c}) \cup {ep}
<1>21. x \in DOMAIN b /\ nb[x] = b[x] /\ x # g /\ color_of(b[x]) = us
  BY <1>7, <1>15
<1>22. f # c
  BY <1>1, <1>6, <1>12, <1>15
<1>23. f \in DOMAIN b /\ b[f] = make_piece(them, PAWN) /\ f # g
  BY <1>7, <1>15, <1>22
<1>24. f \in Square /\ x \in Square /\ k \in Square /\ g \in Square /\ ep \in Square /\ c \in Square
  BY <1>1, <1>4, <1>14, <1>21, <1>23
<1>25. ~Hits(b, DOMAIN b, x, k)
  BY <1>13, <1>21 DEF Attacked
<1>26. Hits(b, O, x, k)
  BY <1>15, <1>21, HitsOld
<1>27. /\ type_of(b[x]) \in {BISHOP, ROOK, QUEEN} /\ Aligned(type_of(b[x]), x, k) /\ Clear(x, k, O)
      /\ \E z \in Square : Inside(x, k, z) /\ z \in DOMAIN b /\ z \notin O
  <2>. HIDE DEF O
  <2>. QED
    BY <1>21, <1>25, <1>26, Uncovered
<1>28. \A z \in Square : Inside(x, k, z) => z \notin O
  BY <1>27 DEF Clear
<1>29. \A z \in DOMAIN b : z \notin O => z = g \/ z = f
  BY <1>4, <1>6
<1>30. \A z \in DOMAIN b : Inside(x, k, z) => z = g \/ z = f
  BY <1>14, <1>28, <1>29
<1>31. Inside(x, k, g) \/ Inside(x, k, f)
  BY <1>27, <1>29
<1>32. ~Inside(x, k, ep)
  BY <1>24, <1>28
<1>33. ep # x /\ ep # k
  BY <1>4, <1>9, <1>21
<1>34. /\ F(c) = F(ep) /\ R(f) = R(c) /\ F(c) - F(f) \in {-1, 1} /\ F(g) = F(ep) /\ F(c) = F(g)
       /\ R(ep) - R(g) \in {-1, 1} /\ R(c) - R(g) \in {-2, 2} /\ R(f) - R(ep) \in {-1, 1} /\ R(f) - R(g) \in {-2, 2}
  <2>1. /\ F(g) \in Int /\ R(g) \in Int /\ R(c) \in Int /\ R(ep) \in Int /\ F(c) \in Int /\ F(ep) \in Int
        /\ F(f) \in Int /\ R(f) \in Int
    BY <1>24, Coordinates
  <2>2. F(c) = F(ep) /\ R(f) = R(c) /\ F(c) - F(f) \in {-1, 1}
    BY <1>1, <1>10, <1>15, <1>24, Beside
  <2>3. F(ep) = F(g) /\ F(c) = F(g) /\ R(ep) - R(g) \in {-1, 1} /\ R(c) - R(g) \in {-2, 2} /\ R(c) - R(ep) \in {-1, 1}
    BY <1>4, <2>1 DEF Ahead
  <2>. QED
    BY <2>1, <2>2, <2>3
<1>35. F(f) \in Int /\ F(g) \in Int /\ F(c) \in Int /\ F(ep) \in Int
  BY <1>24, Coordinates
<1>36. CASE Inside(x, k, g)
  <2>1. ~Inside(x, k, f)
    <3>1. F(f) - F(g) \in {-1, 1}
      BY <1>34, <1>35
    <3>. QED
      BY <1>24, <1>34, <1>36, <3>1, NotOneAndTwo
  <2>2. \A z \in DOMAIN b : Inside(x, k, z) => z = g
    BY <1>30, <2>1
  <2>3. g \in blockersForKing(b)[them]
    BY <1>1, <1>4, <1>9, <1>12, <1>21, <1>27, <1>36, <2>2, OnlyShield
  <2>4. F(g) = F(k)
    BY <1>2, <2>3
  <2>5. Inside(x, k, ep)
    BY <1>24, <1>33, <1>34, <1>36, <2>4, FileNeighbour
  <2>. QED
    BY <1>32, <2>5
<1>38. CASE ~Inside(x, k, g) /\ Inside(x, k, c)
  <2>1. Inside(x, k, f)
    BY <1>31, <1>38
  <2>2. s \in Square /\ s # g /\ s # c
    BY <1>1, <1>3, <1>4, <1>12, <1>14
  <2>3. CASE s # f
    <3>1. s \in O
      BY <1>6, <1>3, <2>2, <2>3
    <3>2. s # x /\ s # k
      <4>1. s # x
        BY <1>1, <1>3, <1>12, <1>21
      <4>2. type_of(b[k]) = KING
        BY <1>1, Pieces, TypesDiffer DEF KingAt
      <4>. QED
        BY <1>3, <1>12, <4>1, <4>2, TypesDiffer
    <3>3. R(f) = R(c) /\ R(s) = R(c) /\ F(c) - F(f) = F(s) - F(c) /\ F(c) - F(f) \in {-1, 1}
      BY <1>1, <1>3, <1>10, <1>15, <1>24, <2>2, <2>3, Beside
    <3>4. F(f) # F(c)
      BY <1>35, <3>3
    <3>5. Inside(x, k, s)
      BY <1>24, <1>38, <2>1, <2>2, <3>2, <3>3, <3>4, RankNeighbour
    <3>. QED
      BY <1>28, <2>2, <3>1, <3>5
  <2>4. CASE s = f
    <3>1. \A z \in DOMAIN b : Inside(x, k, z) => z = f
      BY <1>30, <1>38
    <3>2. f \in blockersForKing(b)[them]
      BY <1>1, <1>9, <1>12, <1>21, <1>23, <1>27, <2>1, <3>1, OnlyShield
    <3>3. OnLine(ep, k, f)
      BY <1>3, <2>4, <3>2
    <3>4. F(f) # F(c)
      BY <1>34, <1>35
    <3>5. R(k) = R(f)
      BY <1>24, <1>34, <1>38, <2>1, <3>4, RankOfBoth
    <3>6. k # f
      <4>1. type_of(b[k]) = KING
        BY <1>1, Pieces, TypesDiffer DEF KingAt
      <4>. QED
        BY <1>12, <1>23, <4>1, TypesDiffer
    <3>7. F(f) - F(ep) \in {-1, 1}
      BY <1>34, <1>35
    <3>. QED
      BY <1>24, <1>34, <3>3, <3>5, <3>6, <3>7, NotAlong
  <2>. QED
    BY <2>3, <2>4
<1>39. CASE ~Inside(x, k, g) /\ ~Inside(x, k, c)
  <2>1. Inside(x, k, f) /\ \A z \in DOMAIN b : Inside(x, k, z) => z = f
    BY <1>30, <1>31, <1>39
  <2>2. Bared(b, f, c, ep, x, k)
    BY <1>32, <1>39, <2>1 DEF Bared
  <2>3. Eyes(b, O, us, x, k)
    BY <1>21, <1>27 DEF Eyes
  <2>. QED
    BY <1>21, <1>23, <2>2, <2>3 DEF b, c, us, them, k
<1>. QED
  BY <1>36, <1>38, <1>39

(* The en passant square do_move sets is sound.                            *)
LEMMA PushSafe ==
  ASSUME NEW p, Sound(p), NEW m, PawnGoes(p.board, p.sideToMove, m), EpPushed(p, m)
  PROVE  EpSound(After1(p, m), Them(p.sideToMove), EpAfter(p, m), blockersForKing(After1(p, m))[Them(p.sideToMove)])
<1>. DEFINE us == p.sideToMove
            them == Them(us)
            b == p.board
            nb == After1(p, m)
            c == m.to
            g == m.from
            ep == m.to - pawn_push(us)
            k == TheirKing(p)
<1>1. /\ IsBoard(b) /\ us \in Color /\ them \in Color /\ k \in Square /\ KingAt(b, them, k)
      /\ Them(them) = us /\ us # them
  BY SoundFacts, Opposite
<1>2. EpAfter(p, m) = ep /\ DoublePush(b, us, m)
  BY PushFacts
<1>3. PushedBoard(p, m, nb)
  BY <1>2, PushBoard
<1>. HIDE DEF nb
<1>4. /\ IsBoard(nb) /\ nb[c] = make_piece(us, PAWN) /\ c \in DOMAIN nb /\ KingAt(nb, them, k) /\ k = square(nb, them)
      /\ ep - pawn_push(them) = c /\ ep \in Square /\ ep \notin DOMAIN nb /\ relative_rank(them, ep) = 5
  BY <1>3 DEF PushedBoard
<1>5. ASSUME NEW f \in DOMAIN nb, nb[f] = make_piece(them, PAWN), Strikes(them, f, ep),
             f \notin blockersForKing(nb)[them] \/ square(nb, them) \in LineBB[f][ep],
             NEW x \in DOMAIN nb, color_of(nb[x]) = us, x # c,
             Hits(nb, (DOMAIN nb \ {f, c}) \cup {ep}, x, k)
      PROVE  FALSE
  <2>1. /\ Bared(b, f, c, ep, x, k) /\ b[x] = nb[x]
        /\ Eyes(b, (DOMAIN nb \ {f, c}) \cup {ep}, us, x, k)
    <3>1. nb = After1(p, m)
      BY DEF nb
    <3>. HIDE DEF ep
    <3>2. ep = m.to - pawn_push(p.sideToMove)
      BY DEF ep
    <3>. QED
      BY <1>5, <3>1, <3>2, PushBares
  <2>2. Inside(x, k, f) /\ ~Inside(x, k, c)
    BY <2>1 DEF Bared
  <2>. HIDE DEF ep
  <2>3. EpTaker(nb, them, f, ep, c)
    BY <1>4, <1>5 DEF EpTaker
  <2>4. Eyes(nb, (DOMAIN nb \ {f, c}) \cup {ep}, Them(them), x, k)
    BY <1>1, <1>5, <2>1 DEF Eyes
  <2>. QED
    BY <1>1, <1>4, <2>2, <2>3, <2>4, EpPinHolds
<1>. HIDE DEF ep, c, g, k, b, us, them
<1>16. EpSafe(nb, them, ep, blockersForKing(nb)[them])
  <2>. SUFFICES ASSUME NEW f \in DOMAIN nb, nb[f] = make_piece(them, PAWN), Strikes(them, f, ep),
                       f \notin blockersForKing(nb)[them] \/ square(nb, them) \in LineBB[f][ep],
                       NEW x \in DOMAIN nb, color_of(nb[x]) = us, x # c
                PROVE  ~Hits(nb, (DOMAIN nb \ {f, c}) \cup {ep}, x, k)
    BY <1>1, <1>4 DEF EpSafe
  <2>. QED
    BY <1>5
<1>17. c \in DOMAIN nb /\ nb[c] = make_piece(Them(them), PAWN)
  BY <1>1, <1>4
<1>18. EpSound(nb, them, ep, blockersForKing(nb)[them])
  BY <1>4, <1>16, <1>17 DEF EpSound
<1>. QED
  BY <1>2, <1>18 DEF nb, them, us

-------------------------------------------------------------------------------
(***************************************************************************)
(* What a legal move leaves.                                               *)
(***************************************************************************)
(* The legal moves, by what was checked of them.                           *)
Plays(p, m) ==
  \/ PieceGoes(p.board, p.sideToMove, m) /\ m.from = MyKing(p) /\ legal(p, m)
  \/ /\ PieceGoes(p.board, p.sideToMove, m) \/ PawnGoes(p.board, p.sideToMove, m)
     /\ m.from # MyKing(p) /\ (checkers(p) # {} => Answers(p, m.to)) /\ (Suspect(p, m) => legal(p, m))
  \/ Passing(p.board, p.sideToMove, St(p).epSquare, m) /\ legal(p, m)
  \/ (\E cr : CastlesWith(p, m, cr)) /\ legal(p, m)

(* What MoveList<LEGAL> leaves of the generated moves.                     *)
LEMMA LegalPlays ==
  ASSUME NEW p, Sound(p), NEW m \in LegalList(p)
  PROVE  Plays(p, m)
<1>1. m \in AllMoves(p) /\ (Suspect(p, m) => legal(p, m))
  BY DEF LegalList
<1>2. m.from = MyKing(p) => Suspect(p, m)
  BY DEF Suspect
<1>3. m.type = "enpassant" => Suspect(p, m)
  BY DEF Suspect
<1>4. CASE PieceGoes(p.board, p.sideToMove, m) /\ (checkers(p) # {} /\ m.from # MyKing(p) => Answers(p, m.to))
  BY <1>1, <1>2, <1>4 DEF Plays
<1>5. CASE PawnGoes(p.board, p.sideToMove, m) /\ (checkers(p) # {} => Answers(p, m.to))
  <2>1. KingAt(p.board, p.sideToMove, MyKing(p)) /\ p.sideToMove \in Color
    BY SoundFacts
  <2>2. p.board[m.from] = make_piece(p.sideToMove, PAWN)
    BY <1>5 DEF PawnGoes
  <2>3. m.from # MyKing(p)
    BY <2>1, <2>2, Pieces, TypesDiffer DEF KingAt
  <2>. QED
    BY <1>1, <1>5, <2>3 DEF Plays
<1>6. CASE Passing(p.board, p.sideToMove, St(p).epSquare, m)
  <2>1. m.type = "enpassant"
    BY <1>6 DEF Passing
  <2>. QED
    BY <1>1, <1>3, <1>6, <2>1 DEF Plays
<1>7. CASE \E cr : CastlesWith(p, m, cr)
  <2>1. m.from = MyKing(p)
    BY <1>7, CastlingProper
  <2>. QED
    BY <1>1, <1>2, <1>7, <2>1 DEF Plays
<1>. QED
  BY <1>1, <1>4, <1>5, <1>6, <1>7, Generated

(* What a legal move leaves: a sound board, sound rights, and a way back.  *)
BoardGood(p, m, nb) ==
  LET us == p.sideToMove  them == Them(us) IN
  /\ Carry(p.board, Operations(p, m)) = nb /\ IsBoard(nb) /\ PawnsPlaced(nb) /\ KingsStand(nb)
  /\ square(nb, them) = TheirKing(p) /\ KeysFollow(p, m, nb)
  /\ ~Attacked(nb, DOMAIN nb, them, square(nb, us))
  /\ Attacked(nb, DOMAIN nb, us, TheirKing(p)) => gives_check(p, m)
  /\ RightsSound(nb, p.castling, RightsAfter(p, m))
  /\ EpSound(nb, them, EpAfter(p, m), blockersForKing(nb)[them])
  /\ Carry(nb, UndoOps(us, m, Captured(p, m))) = p.board
  /\ m.type # "null"

(* Both kings stand where they are looked for.                             *)
LEMMA BothKings ==
  ASSUME NEW b, NEW us \in Color, NEW k, NEW kk, KingAt(b, us, k), KingAt(b, Them(us), kk)
  PROVE  KingsStand(b) /\ square(b, us) = k /\ square(b, Them(us)) = kk
<1>1. square(b, us) = k /\ square(b, Them(us)) = kk
  BY KingSquare
<1>2. \A c \in Color : c = us \/ c = Them(us)
  BY Pieces DEF Them
<1>. QED
  BY <1>1, <1>2 DEF KingsStand

(* Castling rights after a move other than castling: kings and rooks at    *)
(* home.                                                                   *)
LEMMA RightsKept ==
  ASSUME NEW p, Sound(p), NEW m, Proper(p.board, p.sideToMove, m)
  PROVE  RightsSound(After1(p, m), p.castling, RightsAfter(p, m))
<1>. DEFINE us == p.sideToMove
            b == p.board
            nb == After1(p, m)
            cas == p.castling
            cap == CaptureSquare(us, m)
<1>1. RightsSound(b, cas, St(p).castlingRights) /\ us \in Color /\ IsBoard(b)
  BY SoundFacts DEF Sound, Level
<1>2. m.type # "castling" /\ (m.type = "enpassant" => cap \in DOMAIN b /\ b[cap] = make_piece(Them(us), PAWN))
      /\ (m.type # "enpassant" => cap = m.to)
  BY DEF Proper, Playable
<1>3. Arrival(us, m) = m.to
  BY <1>2 DEF Arrival
<1>4. ASSUME NEW cr \in RightsAfter(p, m)
      PROVE  /\ cr \in St(p).castlingRights /\ cr \in DOMAIN cas
             /\ cas[cr].king # m.from /\ cas[cr].king # m.to /\ cas[cr].rook # m.from /\ cas[cr].rook # m.to
  <2>1. cr \in St(p).castlingRights /\ cr \in DOMAIN cas
    BY <1>1 DEF RightsAfter, RightsSound
  <2>2. cr \notin castlingRightsMask(p, m.from) /\ cr \notin castlingRightsMask(p, m.to)
    BY <1>3 DEF RightsAfter
  <2>. QED
    BY <2>1, <2>2 DEF castlingRightsMask
<1>5. ASSUME NEW s \in DOMAIN b, s # m.from, s # m.to, s # cap PROVE s \in DOMAIN nb /\ nb[s] = b[s]
  <2>1. \A x \in DOMAIN b \ {m.from, cap, m.to} : nb[x] = b[x]
    BY BoardAfter
  <2>2. DOMAIN nb = (DOMAIN b \ {m.from, cap}) \cup {m.to}
    BY BoardAfter
  <2>. HIDE DEF nb, cap
  <2>. QED
    BY <1>5, <2>1, <2>2
<1>6. ASSUME NEW cr \in RightsAfter(p, m)
      PROVE  /\ cas[cr].king \in DOMAIN nb /\ nb[cas[cr].king] = make_piece(CastlingColor(cr), KING)
             /\ cas[cr].rook \in DOMAIN nb /\ nb[cas[cr].rook] = make_piece(CastlingColor(cr), ROOK)
  <2>1. /\ cas[cr].king \in DOMAIN b /\ b[cas[cr].king] = make_piece(CastlingColor(cr), KING)
        /\ cas[cr].rook \in DOMAIN b /\ b[cas[cr].rook] = make_piece(CastlingColor(cr), ROOK)
    BY <1>1, <1>4 DEF RightsSound
  <2>2. cas[cr].king # m.from /\ cas[cr].king # m.to /\ cas[cr].rook # m.from /\ cas[cr].rook # m.to
    BY <1>4
  <2>3. CastlingColor(cr) \in Color
    BY TypesDiffer DEF CastlingColor, Color
  <2>4. \A c \in Color : make_piece(c, KING) # make_piece(Them(us), PAWN) /\ make_piece(c, ROOK) # make_piece(Them(us), PAWN)
    BY <1>1, Pieces, TypesDiffer
  <2>5. cas[cr].king # cap /\ cas[cr].rook # cap
    BY <1>2, <2>1, <2>2, <2>3, <2>4
  <2>. HIDE DEF nb, cap, b, cas
  <2>. QED
    BY <1>5, <2>1, <2>2, <2>5
<1>. QED
  BY <1>4, <1>6 DEF RightsSound

(* So after castling.                                                      *)
LEMMA RightsKeptCastling ==
  ASSUME NEW p, Sound(p), NEW m, Castles(p.board, p.sideToMove, m), m.from = MyKing(p)
  PROVE  RightsSound(After2(p, m), p.castling, RightsAfter(p, m))
<1>. DEFINE us == p.sideToMove
            b == p.board
            nb == After2(p, m)
            cas == p.castling
<1>1. RightsSound(b, cas, St(p).castlingRights) /\ us \in Color /\ IsBoard(b) /\ KingAt(b, us, m.from)
  BY SoundFacts DEF Sound, Level
<1>2. b[m.from] = make_piece(us, KING) /\ b[m.to] = make_piece(us, ROOK)
  BY DEF Castles
<1>3. ASSUME NEW cr \in RightsAfter(p, m)
      PROVE  cr \in St(p).castlingRights /\ cr \in DOMAIN cas /\ cas[cr].king # m.from
  <2>1. cr \in St(p).castlingRights /\ cr \in DOMAIN cas
    BY <1>1 DEF RightsAfter, RightsSound
  <2>2. cr \notin castlingRightsMask(p, m.from)
    BY DEF RightsAfter
  <2>. QED
    BY <2>1, <2>2 DEF castlingRightsMask
<1>4. ASSUME NEW s \in DOMAIN b, s # m.from, s # m.to PROVE s \in DOMAIN nb /\ nb[s] = b[s]
  <2>1. StandsCastled(nb, b, us, m.from, m.to, KTo(p, m), RTo(p, m))
    BY CastledAfter
  <2>. HIDE DEF nb
  <2>. QED
    BY <1>4, <2>1 DEF StandsCastled
<1>5. ASSUME NEW cr \in RightsAfter(p, m)
      PROVE  /\ cas[cr].king \in DOMAIN nb /\ nb[cas[cr].king] = make_piece(CastlingColor(cr), KING)
             /\ cas[cr].rook \in DOMAIN nb /\ nb[cas[cr].rook] = make_piece(CastlingColor(cr), ROOK)
  <2>1. /\ cas[cr].king \in DOMAIN b /\ b[cas[cr].king] = make_piece(CastlingColor(cr), KING)
        /\ cas[cr].rook \in DOMAIN b /\ b[cas[cr].rook] = make_piece(CastlingColor(cr), ROOK)
    BY <1>1, <1>3 DEF RightsSound
  <2>2. cas[cr].king # m.from
    BY <1>3
  <2>3. CastlingColor(cr) \in Color
    BY TypesDiffer DEF CastlingColor, Color
  <2>4. CastlingColor(cr) # us
    BY <1>1, <2>1, <2>2 DEF KingAt
  <2>5. \A c \in Color : /\ color_of(make_piece(c, KING)) = c /\ color_of(make_piece(c, ROOK)) = c
                         /\ type_of(make_piece(c, KING)) = KING /\ type_of(make_piece(c, ROOK)) = ROOK
    BY Pieces, TypesDiffer
  <2>6. cas[cr].rook # m.from /\ cas[cr].king # m.to /\ cas[cr].rook # m.to
    BY <1>1, <1>2, <2>1, <2>3, <2>4, <2>5
  <2>. HIDE DEF nb, b, cas
  <2>. QED
    BY <1>4, <2>1, <2>2, <2>6
<1>. QED
  BY <1>3, <1>5 DEF RightsSound

(* Moves other than double pushes leave no en passant square.              *)
LEMMA NoEp ==
  ASSUME NEW p, NEW m, NEW nb, NEW us, NEW bl, type_of(p.board[m.from]) # PAWN \/ Abs(m.to - m.from) # 16
  PROVE  EpSound(nb, us, EpAfter(p, m), bl) /\ EpAfter(p, m) = SQ_NONE
<1>1. EpAfter(p, m) = SQ_NONE
  BY DEF EpAfter
<1>. QED
  BY <1>1 DEF EpSound

(* undo_move takes back a move other than castling.                        *)
LEMMA TakenBack1 ==
  ASSUME NEW p, Sound(p), NEW m, Proper(p.board, p.sideToMove, m)
  PROVE  Carry(After1(p, m), UndoOps(p.sideToMove, m, Captured(p, m))) = p.board
<1>1. Captured(p, m) = piece_on(p.board, CaptureSquare(p.sideToMove, m))
  BY BoardAfter
<1>2. Playable(p.board, p.sideToMove, m)
  BY DEF Proper
<1>. QED
  BY <1>1, <1>2, MoveTakenBack DEF After1

(* undo_move takes back castling.                                          *)
LEMMA TakenBack2 ==
  ASSUME NEW p, Sound(p), NEW m, Castles(p.board, p.sideToMove, m)
  PROVE  Carry(After2(p, m), UndoOps(p.sideToMove, m, Captured(p, m))) = p.board
BY CastleTakenBack DEF After2, KTo, RTo

(* What do_move leaves, for a move other than castling.                    *)
LEMMA GoodMove ==
  ASSUME NEW p, Sound(p), NEW m, Proper(p.board, p.sideToMove, m), NEW k,
         k = IF m.from = MyKing(p) THEN m.to ELSE MyKing(p),
         ~Attacked(After1(p, m), DOMAIN After1(p, m), Them(p.sideToMove), k),
         Attacked(After1(p, m), DOMAIN After1(p, m), p.sideToMove, TheirKing(p)) => gives_check(p, m),
         EpSound(After1(p, m), Them(p.sideToMove), EpAfter(p, m), blockersForKing(After1(p, m))[Them(p.sideToMove)])
  PROVE  BoardGood(p, m, After1(p, m))
<1>. DEFINE us == p.sideToMove
            them == Them(us)
            nb == After1(p, m)
<1>1. us \in Color
  BY SoundFacts
<1>2. Carry(p.board, Operations(p, m)) = nb /\ IsBoard(nb) /\ PawnsPlaced(nb) /\ KingAt(nb, us, k) /\ KingAt(nb, them, TheirKing(p))
  BY BoardAfter
<1>3. KeysFollow(p, m, nb)
  BY MoveKeysFollow
<1>4. RightsSound(nb, p.castling, RightsAfter(p, m))
  BY RightsKept
<1>5. Carry(nb, UndoOps(us, m, Captured(p, m))) = p.board
  BY TakenBack1
<1>6. m.type # "null"
  BY DEF Proper, Playable
<1>. HIDE DEF nb
<1>7. KingsStand(nb) /\ square(nb, us) = k /\ square(nb, them) = TheirKing(p)
  BY <1>1, <1>2, BothKings
<1>. QED
  BY <1>2, <1>3, <1>4, <1>5, <1>6, <1>7 DEF BoardGood, nb

(* What do_move leaves.                                                    *)
LEMMA PlaysGood ==
  ASSUME NEW p, Sound(p), NEW m, Plays(p, m)
  PROVE  IF m.type = "castling" THEN BoardGood(p, m, After2(p, m)) ELSE BoardGood(p, m, After1(p, m))
<1>. DEFINE us == p.sideToMove
            them == Them(us)
            b == p.board
            nb == After1(p, m)
            Goes == PieceGoes(b, us, m) \/ PawnGoes(b, us, m)
<1>1. us \in Color /\ IsBoard(b) /\ KingAt(b, us, MyKing(p)) /\ KingAt(b, them, TheirKing(p))
  BY SoundFacts
<1>2. ASSUME Goes PROVE EpSound(nb, them, EpAfter(p, m), blockersForKing(nb)[them])
  <2>1. CASE PieceGoes(b, us, m)
    <3>1. type_of(b[m.from]) # PAWN
      BY <2>1, TypesDiffer DEF PieceGoes
    <3>. QED
      BY <3>1, NoEp
  <2>2. CASE PawnGoes(b, us, m) /\ EpPushed(p, m)
    BY <2>2, PushSafe
  <2>3. CASE ~EpPushed(p, m)
    BY <2>3 DEF EpPushed, EpSound
  <2>. QED
    BY <1>2, <2>1, <2>2, <2>3
<1>3. ASSUME Goes, m.from # MyKing(p), checkers(p) # {} => Answers(p, m.to), Suspect(p, m) => legal(p, m)
      PROVE  m.type # "castling" /\ BoardGood(p, m, nb)
  <2>1. Proper(b, us, m)
    BY <1>3, GoesProper
  <2>2. ~Attacked(nb, DOMAIN nb, them, MyKing(p))
    BY <1>3, OtherMoveSafe
  <2>3. Attacked(nb, DOMAIN nb, us, TheirKing(p)) => gives_check(p, m)
    BY <1>3, MoveChecks
  <2>4. m.type # "castling"
    BY <2>1 DEF Proper, Playable
  <2>. QED
    BY <1>2, <1>3, <2>1, <2>2, <2>3, <2>4, GoodMove
<1>4. ASSUME PieceGoes(b, us, m), m.from = MyKing(p), legal(p, m)
      PROVE  m.type # "castling" /\ BoardGood(p, m, nb)
  <2>1. Proper(b, us, m)
    BY <1>4, GoesProper
  <2>2. ~Attacked(nb, DOMAIN nb, them, m.to)
    BY <1>4, KingMoveSafe
  <2>3. Attacked(nb, DOMAIN nb, us, TheirKing(p)) => gives_check(p, m)
    BY <1>4, MoveChecks
  <2>4. m.type # "castling"
    BY <2>1 DEF Proper, Playable
  <2>. QED
    BY <1>2, <1>4, <2>1, <2>2, <2>3, <2>4, GoodMove
<1>5. ASSUME Passing(b, us, St(p).epSquare, m), legal(p, m)
      PROVE  m.type # "castling" /\ BoardGood(p, m, nb)
  <2>1. Proper(b, us, m)
    BY <1>5, PassingProper
  <2>2. m.from # MyKing(p)
    <3>1. b[m.from] = make_piece(us, PAWN)
      BY <1>5 DEF Passing
    <3>. QED
      BY <1>1, <3>1, Pieces, TypesDiffer DEF KingAt
  <2>3. ~Attacked(nb, DOMAIN nb, them, MyKing(p))
    BY <1>5, PassingSafe
  <2>4. Attacked(nb, DOMAIN nb, us, TheirKing(p)) => gives_check(p, m)
    BY <1>5, PassingChecks
  <2>5. Abs(m.to - m.from) # 16
    <3>1. m.to \in Square /\ m.from \in Square /\ Strikes(us, m.from, m.to)
      BY <1>1, <1>5, PassingProper DEF Passing, IsBoard
    <3>2. /\ F(m.from) \in 0 .. 7 /\ R(m.from) \in 0 .. 7 /\ m.from = 8 * R(m.from) + F(m.from)
          /\ F(m.to) \in 0 .. 7 /\ R(m.to) \in 0 .. 7 /\ m.to = 8 * R(m.to) + F(m.to)
      BY <3>1, Coordinates
    <3>. QED
      BY <3>1, <3>2 DEF Strikes, Abs
  <2>6. EpSound(nb, them, EpAfter(p, m), blockersForKing(nb)[them])
    BY <2>5, NoEp
  <2>7. m.type # "castling"
    BY <1>5 DEF Passing
  <2>. QED
    BY <2>1, <2>2, <2>3, <2>4, <2>6, <2>7, GoodMove
<1>6. ASSUME NEW cr, CastlesWith(p, m, cr), legal(p, m)
      PROVE  m.type = "castling" /\ BoardGood(p, m, After2(p, m))
  <2>. DEFINE nd == After2(p, m)
  <2>1. Castles(b, us, m) /\ m.from = MyKing(p) /\ m.type = "castling"
    BY <1>6, CastlingProper
  <2>2. /\ Carry(b, Operations(p, m)) = nd /\ KingAt(nd, us, KTo(p, m)) /\ KingAt(nd, them, TheirKing(p)) /\ PawnsPlaced(nd)
        /\ StandsCastled(nd, b, us, m.from, m.to, KTo(p, m), RTo(p, m))
    BY <2>1, CastledAfter
  <2>3. IsBoard(nd)
    BY <2>2 DEF StandsCastled
  <2>4. ~Attacked(nd, DOMAIN nd, them, KTo(p, m))
    BY <1>6, CastlingSafe
  <2>5. Attacked(nd, DOMAIN nd, us, TheirKing(p)) => gives_check(p, m)
    BY <1>6, CastlingChecks
  <2>6. m.promo = 0
    BY <1>6 DEF CastlesWith, Castle
  <2>7. KeysFollow(p, m, nd)
    BY <2>1, <2>6, CastleKeysFollow
  <2>8. RightsSound(nd, p.castling, RightsAfter(p, m))
    BY <2>1, RightsKeptCastling
  <2>9. EpSound(nd, them, EpAfter(p, m), blockersForKing(nd)[them])
    <3>1. type_of(b[m.from]) # PAWN
      BY <1>1, <2>1, Pieces, TypesDiffer DEF Castles
    <3>. QED
      BY <3>1, NoEp
  <2>10. Carry(nd, UndoOps(us, m, Captured(p, m))) = b
    BY <2>1, TakenBack2
  <2>. HIDE DEF nd
  <2>11. KingsStand(nd) /\ square(nd, us) = KTo(p, m) /\ square(nd, them) = TheirKing(p)
    BY <1>1, <2>2, BothKings
  <2>. QED
    BY <2>1, <2>2, <2>3, <2>4, <2>5, <2>7, <2>8, <2>9, <2>10, <2>11 DEF BoardGood, nd
<1>. QED
  BY <1>3, <1>4, <1>5, <1>6 DEF Plays

-------------------------------------------------------------------------------
(***************************************************************************)
(* do_move and do_null_move lead to sound positions.                       *)
(***************************************************************************)
(* Positions and sequences, as the prover needs them.                      *)
PositionFields == {"board", "sideToMove", "castling", "gamePly", "chess960", "states"}
IsPosition(p) == p = [k \in PositionFields |-> p[k]]
IsSeq(s, n) == n \in Nat /\ s \in Seq({s[i] : i \in 1 .. n}) /\ Len(s) = n

Appends(t, s, n, e) ==
  IsSeq(t, n + 1) /\ Last(t) = e /\ t[n + 1] = e /\ \A i \in 1 .. n : t[i] = s[i]
Drops(t, s, n) ==
  IsSeq(t, n) /\ Last(s) = s[n + 1] /\ \A i \in 1 .. n : t[i] = s[i]

(* A sequence with one more element.                                       *)
LEMMA Appended ==
  ASSUME NEW s, NEW n, IsSeq(s, n), NEW e
  PROVE  Appends(Append(s, e), s, n, e)
<1>. DEFINE T == {s[i] : i \in 1 .. n} \cup {e}
            a == Append(s, e)
<1>1. s \in Seq(T) /\ Len(s) = n /\ n \in Nat /\ e \in T
  BY DEF IsSeq
<1>2. a \in Seq(T) /\ Len(a) = n + 1 /\ a[n + 1] = e /\ \A i \in 1 .. n : a[i] = s[i]
  BY <1>1
<1>3. a \in Seq({a[i] : i \in 1 .. (n + 1)})
  <2>. HIDE DEF a, T
  <2>1. a \in [1 .. (n + 1) -> T]
    BY <1>1, <1>2
  <2>2. a \in [1 .. (n + 1) -> {a[i] : i \in 1 .. (n + 1)}]
    BY <2>1
  <2>. QED
    BY <1>1, <2>2
<1>4. Last(a) = e
  BY <1>2 DEF Last
<1>. QED
  BY <1>1, <1>2, <1>3, <1>4 DEF IsSeq, Appends

(* A sequence with one element less.                                       *)
LEMMA Fronted ==
  ASSUME NEW s, NEW n \in Nat, IsSeq(s, n + 1)
  PROVE  Drops(Front(s), s, n)
<1>. DEFINE T == {s[i] : i \in 1 .. (n + 1)}
            a == Front(s)
<1>1. s \in Seq(T) /\ Len(s) = n + 1
  BY DEF IsSeq
<1>2. a \in Seq(T) /\ Len(a) = n /\ \A i \in 1 .. n : a[i] = s[i]
  BY <1>1 DEF Front
<1>3. a \in Seq({a[i] : i \in 1 .. n})
  <2>1. a \in [1 .. n -> T]
    BY <1>1, <1>2
  <2>. HIDE DEF a, T
  <2>2. a \in [1 .. n -> {a[i] : i \in 1 .. n}]
    BY <2>1
  <2>. QED
    BY <2>2
<1>4. Last(s) = s[n + 1]
  BY <1>1 DEF Last
<1>. QED
  BY <1>2, <1>3, <1>4 DEF IsSeq, Drops

(* The StateInfo after do_move.                                            *)
MoveState(p, m, nb, gc, st) ==
  LET us == p.sideToMove  them == Them(us) IN
  /\ IsState(st)
  /\ st.materialKey = MaterialKeyAfter(p, m) /\ st.pawnKey = PawnKeyAfter(p, m)
  /\ st.minorPieceKey = MinorKeyAfter(p, m) /\ st.nonPawnKey = NonPawnKeyAfter(p, m)
  /\ st.nonPawnMaterial = MaterialAfter(p, m) /\ st.castlingRights = RightsAfter(p, m)
  /\ st.epSquare = EpAfter(p, m) /\ st.key = KeyAfter(p, m)
  /\ st.checkersBB = When(gc, attackers_to(nb, square(nb, them), pieces(nb)) \cap OfColor(nb, us))
  /\ st.blockersForKing = blockersForKing(nb) /\ st.pinners = pinners(nb) /\ st.checkSquares = checkSquares(nb, them)
  /\ st.capturedPiece = Captured(p, m)
  /\ st.rule50 = IF Captured(p, m) # NO_PIECE \/ type_of(p.board[m.from]) = PAWN THEN 0 ELSE St(p).rule50 + 1

(* The position after do_move, field by field.                             *)
LEMMA DoMoveIs ==
  ASSUME NEW p, IsPosition(p), NEW n, IsSeq(p.states, n), NEW m, NEW gc
  PROVE  LET q == do_move(p, m, gc)  nb == Carry(p.board, Operations(p, m)) IN
         /\ IsPosition(q) /\ q.board = nb /\ q.sideToMove = Them(p.sideToMove)
         /\ q.castling = p.castling /\ q.chess960 = p.chess960
         /\ IsSeq(q.states, n + 1) /\ \A i \in 1 .. n : q.states[i] = p.states[i]
         /\ q.states[n + 1] = St(q) /\ MoveState(p, m, nb, gc, St(q))
<1>. DEFINE us == p.sideToMove
            them == Them(us)
            b == Carry(p.board, Operations(p, m))
            new ==
               [materialKey |-> MaterialKeyAfter(p, m), pawnKey |-> PawnKeyAfter(p, m),
                minorPieceKey |-> MinorKeyAfter(p, m), nonPawnKey |-> NonPawnKeyAfter(p, m),
                nonPawnMaterial |-> MaterialAfter(p, m), castlingRights |-> RightsAfter(p, m),
                rule50 |-> IF Captured(p, m) # NO_PIECE \/ type_of(p.board[m.from]) = PAWN THEN 0
                           ELSE St(p).rule50 + 1,
                pliesFromNull |-> St(p).pliesFromNull + 1,
                epSquare |-> EpAfter(p, m), key |-> KeyAfter(p, m),
                checkersBB |-> When(gc, attackers_to(b, square(b, them), pieces(b)) \cap OfColor(b, us)),
                blockersForKing |-> blockersForKing(b), pinners |-> pinners(b),
                checkSquares |-> checkSquares(b, them),
                capturedPiece |-> Captured(p, m), repetition |-> 0]
            st == [new EXCEPT !.repetition = Repetition(p, new)]
            q == do_move(p, m, gc)
<1>1. q = [p EXCEPT !.board = b, !.sideToMove = them, !.gamePly = @ + 1, !.states = Append(@, st)]
  BY DEF do_move
<1>2. MoveState(p, m, b, gc, st)
  <2>. DEFINE r == Repetition(p, new)
  <2>1. st = [new EXCEPT !.repetition = r]
    OBVIOUS
  <2>. HIDE DEF r, b
  <2>2. IsState(st)
    BY <2>1 DEF IsState, StateFields
  <2>3. /\ st.materialKey = MaterialKeyAfter(p, m) /\ st.pawnKey = PawnKeyAfter(p, m)
        /\ st.minorPieceKey = MinorKeyAfter(p, m) /\ st.nonPawnKey = NonPawnKeyAfter(p, m)
        /\ st.nonPawnMaterial = MaterialAfter(p, m) /\ st.castlingRights = RightsAfter(p, m)
        /\ st.epSquare = EpAfter(p, m) /\ st.key = KeyAfter(p, m)
        /\ st.checkersBB = When(gc, attackers_to(b, square(b, them), pieces(b)) \cap OfColor(b, us))
        /\ st.blockersForKing = blockersForKing(b) /\ st.pinners = pinners(b) /\ st.checkSquares = checkSquares(b, them)
        /\ st.capturedPiece = Captured(p, m)
    BY <2>1
  <2>4. st.rule50 = IF Captured(p, m) # NO_PIECE \/ type_of(p.board[m.from]) = PAWN THEN 0 ELSE St(p).rule50 + 1
    BY <2>1
  <2>. QED
    BY <2>2, <2>3, <2>4 DEF MoveState
<1>. HIDE DEF st, b, them, q
<1>3. DOMAIN p = PositionFields
  BY DEF IsPosition
<1>4. /\ IsPosition(q) /\ q.board = b /\ q.sideToMove = them /\ q.castling = p.castling /\ q.chess960 = p.chess960
      /\ q.states = Append(p.states, st)
  BY <1>1, <1>3 DEF IsPosition, PositionFields
<1>5. Appends(q.states, p.states, n, st)
  BY <1>4, Appended
<1>6. /\ IsSeq(q.states, n + 1) /\ Last(q.states) = st /\ q.states[n + 1] = st
      /\ \A i \in 1 .. n : q.states[i] = p.states[i]
  BY <1>5 DEF Appends
<1>7. St(q) = st
  BY <1>6 DEF St
<1>. QED
  BY <1>2, <1>4, <1>6, <1>7 DEF q, b, them

(* The new state agrees with the new board.                                *)
LEMMA MoveLevel ==
  ASSUME NEW p, Sound(p), NEW m, NEW nb, BoardGood(p, m, nb), NEW st, MoveState(p, m, nb, gives_check(p, m), st)
  PROVE  Level(nb, Them(p.sideToMove), st, p.castling, p.chess960)
<1>. DEFINE us == p.sideToMove
            them == Them(us)
            kk == TheirKing(p)
<1>1. us \in Color /\ them \in Color /\ Them(them) = us /\ kk \in Square /\ IsBoard(p.board) /\ CastlingsSound(p.castling, p.chess960)
  BY SoundFacts, Opposite DEF Sound, Level
<1>2. IsBoard(nb) /\ PawnsPlaced(nb) /\ KingsStand(nb) /\ square(nb, them) = kk /\ KeysFollow(p, m, nb)
  BY DEF BoardGood
<1>3. ~Attacked(nb, DOMAIN nb, them, square(nb, us)) /\ (Attacked(nb, DOMAIN nb, us, kk) => gives_check(p, m))
  BY DEF BoardGood
<1>4. RightsSound(nb, p.castling, st.castlingRights) /\ EpSound(nb, them, st.epSquare, blockersForKing(nb)[them])
  BY DEF BoardGood, MoveState
<1>5. KeysAgree(nb, them, st)
  BY <1>2 DEF KeysFollow, MoveState, KeysAgree
<1>6. st.checkersBB = attackers_to(nb, kk, pieces(nb)) \cap OfColor(nb, us)
  <2>1. st.checkersBB = When(gives_check(p, m), attackers_to(nb, kk, pieces(nb)) \cap OfColor(nb, us))
    BY <1>2 DEF MoveState
  <2>2. CASE gives_check(p, m)
    BY <2>1, <2>2 DEF When
  <2>3. CASE ~gives_check(p, m)
    <3>1. ~Attacked(nb, DOMAIN nb, us, kk)
      BY <1>3, <2>3
    <3>2. ASSUME NEW x, x \in attackers_to(nb, kk, pieces(nb)), x \in OfColor(nb, us) PROVE FALSE
      <4>1. Hits(nb, DOMAIN nb, x, kk)
        BY <1>1, <1>2, <3>2, AttackersIs DEF pieces
      <4>. QED
        BY <3>1, <3>2, <4>1 DEF Attacked, OfColor
    <3>. QED
      BY <2>1, <2>3, <3>2 DEF When
  <2>. QED
    BY <2>2, <2>3
<1>7. ChecksAgree(nb, them, st)
  BY <1>1, <1>2, <1>6 DEF ChecksAgree, MoveState
<1>8. IsState(st)
  BY DEF MoveState
<1>. QED
  BY <1>1, <1>2, <1>3, <1>4, <1>5, <1>7, <1>8 DEF Level

(* A legal move leads from a sound position to a sound one, and can be     *)
(* undone.                                                                 *)
LEMMA AfterDoMove ==
  ASSUME NEW p, IsPosition(p), NEW n, IsSeq(p.states, n), Sound(p), NEW m \in LegalList(p)
  PROVE  LET q == do_move(p, m, gives_check(p, m)) IN
         /\ IsPosition(q) /\ Sound(q) /\ q.castling = p.castling /\ q.chess960 = p.chess960
         /\ q.sideToMove = Them(p.sideToMove) /\ q.states[n + 1] = St(q)
         /\ IsSeq(q.states, n + 1) /\ \A i \in 1 .. n : q.states[i] = p.states[i]
         /\ Carry(q.board, UndoOps(p.sideToMove, m, St(q).capturedPiece)) = p.board
         /\ m.type # "null"
<1>. DEFINE gc == gives_check(p, m)
            q == do_move(p, m, gc)
            nb == Carry(p.board, Operations(p, m))
<1>1. BoardGood(p, m, nb)
  <2>1. IF m.type = "castling" THEN BoardGood(p, m, After2(p, m)) ELSE BoardGood(p, m, After1(p, m))
    BY LegalPlays, PlaysGood
  <2>2. PICK d : BoardGood(p, m, d)
    BY <2>1
  <2>3. d = nb
    BY <2>2 DEF BoardGood
  <2>. QED
    BY <2>2, <2>3
<1>2. /\ IsPosition(q) /\ q.board = nb /\ q.sideToMove = Them(p.sideToMove)
      /\ q.castling = p.castling /\ q.chess960 = p.chess960
      /\ IsSeq(q.states, n + 1) /\ \A i \in 1 .. n : q.states[i] = p.states[i]
      /\ q.states[n + 1] = St(q) /\ MoveState(p, m, nb, gc, St(q))
  BY DoMoveIs
<1>. HIDE DEF q, nb
<1>3. Level(nb, Them(p.sideToMove), St(q), p.castling, p.chess960)
  BY <1>1, <1>2, MoveLevel DEF gc
<1>4. Sound(q)
  BY <1>2, <1>3 DEF Sound
<1>5. Carry(q.board, UndoOps(p.sideToMove, m, St(q).capturedPiece)) = p.board /\ m.type # "null"
  BY <1>1, <1>2 DEF BoardGood, MoveState
<1>. QED
  BY <1>2, <1>4, <1>5 DEF q, gc

(* The StateInfo after do_null_move.                                       *)
NullState(p, b, st) ==
  LET them == Them(p.sideToMove) IN
  /\ IsState(st)
  /\ st.materialKey = St(p).materialKey /\ st.pawnKey = St(p).pawnKey /\ st.minorPieceKey = St(p).minorPieceKey
  /\ st.nonPawnKey = St(p).nonPawnKey /\ st.nonPawnMaterial = St(p).nonPawnMaterial
  /\ st.castlingRights = St(p).castlingRights /\ st.epSquare = SQ_NONE
  /\ st.key = St(p).key ++ side ++ EpKey(St(p).epSquare) /\ st.checkersBB = St(p).checkersBB
  /\ st.blockersForKing = blockersForKing(b) /\ st.pinners = pinners(b) /\ st.checkSquares = checkSquares(b, them)

(* The position after do_null_move, field by field.                        *)
LEMMA DoNullMoveIs ==
  ASSUME NEW p, IsPosition(p), NEW n, IsSeq(p.states, n), IsState(St(p))
  PROVE  LET q == do_null_move(p) IN
         /\ IsPosition(q) /\ q.board = p.board /\ q.sideToMove = Them(p.sideToMove)
         /\ q.castling = p.castling /\ q.chess960 = p.chess960
         /\ IsSeq(q.states, n + 1) /\ \A i \in 1 .. n : q.states[i] = p.states[i]
         /\ q.states[n + 1] = St(q) /\ NullState(p, p.board, St(q))
<1>. DEFINE them == Them(p.sideToMove)
            q == do_null_move(p)
            old == St(p)
            st == [old EXCEPT !.key = @ ++ side ++ EpKey(old.epSquare), !.epSquare = SQ_NONE,
                              !.pliesFromNull = 0, !.capturedPiece = NO_PIECE, !.repetition = 0,
                              !.blockersForKing = blockersForKing(p.board), !.pinners = pinners(p.board),
                              !.checkSquares = checkSquares(p.board, them)]
<1>1. q = [p EXCEPT !.sideToMove = them, !.states = Append(@, st)]
  BY DEF do_null_move
<1>2. NullState(p, p.board, st)
  <2>. HIDE DEF old
  <2>1. DOMAIN old = StateFields
    BY DEF IsState, old
  <2>2. IsState(st)
    BY <2>1 DEF IsState, StateFields
  <2>3. /\ st.materialKey = old.materialKey /\ st.pawnKey = old.pawnKey /\ st.minorPieceKey = old.minorPieceKey
        /\ st.nonPawnKey = old.nonPawnKey /\ st.nonPawnMaterial = old.nonPawnMaterial
        /\ st.castlingRights = old.castlingRights /\ st.checkersBB = old.checkersBB
    BY <2>1 DEF StateFields
  <2>4. /\ st.epSquare = SQ_NONE /\ st.key = old.key ++ side ++ EpKey(old.epSquare)
        /\ st.blockersForKing = blockersForKing(p.board) /\ st.pinners = pinners(p.board)
        /\ st.checkSquares = checkSquares(p.board, them)
    BY <2>1 DEF StateFields
  <2>. HIDE DEF st
  <2>. QED
    BY <2>2, <2>3, <2>4 DEF NullState, old, them
<1>. HIDE DEF st, them, q
<1>3. DOMAIN p = PositionFields
  BY DEF IsPosition
<1>4. /\ IsPosition(q) /\ q.board = p.board /\ q.sideToMove = them /\ q.castling = p.castling /\ q.chess960 = p.chess960
      /\ q.states = Append(p.states, st)
  BY <1>1, <1>3 DEF IsPosition, PositionFields
<1>5. Appends(q.states, p.states, n, st)
  BY <1>4, Appended
<1>6. /\ IsSeq(q.states, n + 1) /\ Last(q.states) = st /\ q.states[n + 1] = st
      /\ \A i \in 1 .. n : q.states[i] = p.states[i]
  BY <1>5 DEF Appends
<1>7. St(q) = st
  BY <1>6 DEF St
<1>. QED
  BY <1>2, <1>4, <1>6, <1>7 DEF q, them

(* Passing leads from a sound position without check to a sound one.       *)
LEMMA NullLevel ==
  ASSUME NEW p, Sound(p), checkers(p) = {}, NEW st, NullState(p, p.board, st)
  PROVE  Level(p.board, Them(p.sideToMove), st, p.castling, p.chess960)
<1>. DEFINE us == p.sideToMove
            them == Them(us)
            b == p.board
<1>1. /\ us \in Color /\ them \in Color /\ Them(them) = us /\ IsBoard(b)
      /\ MyKing(p) \in Square /\ TheirKing(p) \in Square
      /\ \A x : x \in checkers(p) <=> /\ x \in DOMAIN b /\ color_of(b[x]) = them /\ Hits(b, DOMAIN b, x, MyKing(p))
  BY SoundFacts, Opposite
<1>2. /\ PawnsPlaced(b) /\ KingsStand(b) /\ KeysAgree(b, us, St(p)) /\ CastlingsSound(p.castling, p.chess960)
      /\ RightsSound(b, p.castling, St(p).castlingRights) /\ ~Attacked(b, DOMAIN b, us, TheirKing(p))
  BY DEF Sound, Level, TheirKing
<1>3. IsState(st) /\ RightsSound(b, p.castling, st.castlingRights) /\ EpSound(b, them, st.epSquare, blockersForKing(b)[them])
  BY <1>2 DEF NullState, EpSound
<1>4. ~Attacked(b, DOMAIN b, them, square(b, us))
  <2>1. \A x \in DOMAIN b : color_of(b[x]) = them => ~Hits(b, DOMAIN b, x, MyKing(p))
    BY <1>1
  <2>. QED
    BY <2>1 DEF Attacked, MyKing
<1>5. attackers_to(b, square(b, them), pieces(b)) \cap OfColor(b, us) = {}
  <2>. SUFFICES ASSUME NEW x, x \in attackers_to(b, TheirKing(p), pieces(b)), x \in OfColor(b, us) PROVE FALSE
    BY DEF TheirKing
  <2>1. Hits(b, DOMAIN b, x, TheirKing(p))
    BY <1>1, AttackersIs DEF pieces
  <2>. QED
    BY <1>2, <2>1 DEF Attacked, OfColor
<1>6. ChecksAgree(b, them, st)
  BY <1>1, <1>5 DEF ChecksAgree, NullState, checkers
<1>7. st.key = KeyOf(b, pieces(b)) ++ EpKey(st.epSquare) ++ When(them = BLACK, side) ++ castlingKey(st.castlingRights)
  <2>. DEFINE K == KeyOf(b, pieces(b))
              E == EpKey(St(p).epSquare)
              W == When(us = BLACK, side)
              C == castlingKey(St(p).castlingRights)
              V == When(them = BLACK, side)
  <2>1. st.key = (K ++ E ++ W ++ C) ++ side ++ E
    BY <1>2 DEF NullState, KeysAgree
  <2>2. EpKey(st.epSquare) = {} /\ castlingKey(st.castlingRights) = C
    BY DEF NullState, EpKey, When
  <2>3. W ++ side = V
    BY <1>1, SideTurns
  <2>4. (K ++ E ++ W ++ C) ++ side ++ E = K ++ {} ++ (W ++ side) ++ C
    <3>. DEFINE s == side
    <3>. HIDE DEF K, E, W, C, s
    <3>1. ASSUME NEW e PROVE e \in (K ++ E ++ W ++ C) ++ s ++ E <=> e \in K ++ {} ++ (W ++ s) ++ C
      <4>1. \A x, y : e \in x ++ y <=> ~(e \in x <=> e \in y)
        BY Xor
      <4>. QED
        BY <4>1
    <3>. QED
      BY <3>1 DEF s
  <2>. HIDE DEF K, E, W, C, V
  <2>. QED
    BY <2>1, <2>2, <2>3, <2>4 DEF K, C, V
<1>8. KeysAgree(b, them, st)
  BY <1>2, <1>7 DEF KeysAgree, NullState
<1>. QED
  BY <1>1, <1>2, <1>3, <1>4, <1>6, <1>8 DEF Level

-------------------------------------------------------------------------------
(***************************************************************************)
(* undo_move leads back.                                                   *)
(***************************************************************************)
(* The position after undo_move.                                           *)
TakenBackTo(q, p, n, b) ==
  /\ IsPosition(q) /\ q.board = b /\ q.sideToMove = Them(p.sideToMove)
  /\ q.castling = p.castling /\ q.chess960 = p.chess960
  /\ Drops(q.states, p.states, n)

(* The position after undo_move, field by field.                           *)
LEMMA UndoMoveIs ==
  ASSUME NEW p, IsPosition(p), NEW n \in Nat, IsSeq(p.states, n + 1), NEW m
  PROVE  TakenBackTo(undo_move(p, m), p, n, Carry(p.board, UndoOps(Them(p.sideToMove), m, St(p).capturedPiece)))
<1>. DEFINE us == Them(p.sideToMove)
            b == Carry(p.board, UndoOps(us, m, St(p).capturedPiece))
            q == undo_move(p, m)
<1>1. q = [p EXCEPT !.board = b, !.sideToMove = us, !.gamePly = @ - 1, !.states = Front(@)]
  BY DEF undo_move, UndoOps
<1>. HIDE DEF us, b, q
<1>2. DOMAIN p = PositionFields
  BY DEF IsPosition
<1>3. /\ IsPosition(q) /\ q.board = b /\ q.sideToMove = us /\ q.castling = p.castling /\ q.chess960 = p.chess960
      /\ q.states = Front(p.states)
  BY <1>1, <1>2 DEF IsPosition, PositionFields
<1>4. Drops(q.states, p.states, n)
  BY <1>3, Fronted
<1>. QED
  BY <1>3, <1>4 DEF TakenBackTo, q, b, us

(* The position after undo_null_move, field by field.                      *)
LEMMA UndoNullMoveIs ==
  ASSUME NEW p, IsPosition(p), NEW n \in Nat, IsSeq(p.states, n + 1)
  PROVE  TakenBackTo(undo_null_move(p), p, n, p.board)
<1>. DEFINE us == Them(p.sideToMove)
            q == undo_null_move(p)
<1>1. q = [p EXCEPT !.sideToMove = us, !.states = Front(@)]
  BY DEF undo_null_move
<1>. HIDE DEF us, q
<1>2. DOMAIN p = PositionFields
  BY DEF IsPosition
<1>3. /\ IsPosition(q) /\ q.board = p.board /\ q.sideToMove = us /\ q.castling = p.castling /\ q.chess960 = p.chess960
      /\ q.states = Front(p.states)
  BY <1>1, <1>2 DEF IsPosition, PositionFields
<1>4. Drops(q.states, p.states, n)
  BY <1>3, Fronted
<1>. QED
  BY <1>3, <1>4 DEF TakenBackTo, q, us

(* prefetch_key foresees the key after a move that changes no rights.      *)
LEMMA KeyPrefetched ==
  ASSUME NEW p, IsPosition(p), NEW n, IsSeq(p.states, n), NEW m, NEW gc, m.type = "normal",
         St(p).epSquare = SQ_NONE, NEW q, q = do_move(p, m, gc), St(q).epSquare = SQ_NONE,
         St(q).castlingRights = St(p).castlingRights
  PROVE  prefetch_key(p, m) = key(q)
<1>. DEFINE us == p.sideToMove
            b == p.board
            pc == b[m.from]
            captured == piece_on(b, m.to)
            K == St(p).key
            C == castlingKey(St(p).castlingRights)
            x == psq(pc, m.to)
            y == psq(pc, m.from)
            z == When(captured # NO_PIECE, psq(captured, m.to))
            k == K ++ side ++ x ++ y ++ (IF captured = NO_PIECE THEN {} ELSE psq(captured, m.to))
<1>1. MoveState(p, m, Carry(b, Operations(p, m)), gc, St(q))
  BY DoMoveIs
<1>2. /\ Captured(p, m) = captured /\ CaptureSquare(us, m) = m.to /\ Arrival(us, m) = m.to
      /\ RookKey(p, m) = {} /\ PromotedKey(p, m) = {} /\ MovedKey(p, m) = y ++ x /\ CapturedKey(p, m) = z
  BY DEF Captured, CaptureSquare, Arrival, RookKey, PromotedKey, Promotes, MovedKey, CapturedKey, When
<1>3. St(q).key = KeyAfter(p, m) /\ EpAfter(p, m) = SQ_NONE /\ RightsAfter(p, m) = St(p).castlingRights
      /\ St(q).rule50 = IF captured # NO_PIECE \/ type_of(pc) = PAWN THEN 0 ELSE St(p).rule50 + 1
  BY <1>1, <1>2 DEF MoveState
<1>4. EpKey(SQ_NONE) = {}
  BY DEF EpKey, When
<1>5. KeyAfter(p, m) = K ++ side ++ {} ++ z ++ (y ++ x) ++ {} ++ {} ++ C ++ C ++ {}
  BY <1>2, <1>3, <1>4 DEF KeyAfter
<1>6. k = K ++ side ++ x ++ y ++ z
  BY DEF When
<1>7. K ++ side ++ {} ++ z ++ (y ++ x) ++ {} ++ {} ++ C ++ C ++ {} = K ++ side ++ x ++ y ++ z
  <2>. DEFINE s == side
              o == {}
  <2>1. \A e : e \notin o
    OBVIOUS
  <2>. HIDE DEF K, s, o, x, y, z, C
  <2>2. ASSUME NEW e PROVE e \in K ++ s ++ o ++ z ++ (y ++ x) ++ o ++ o ++ C ++ C ++ o <=> e \in K ++ s ++ x ++ y ++ z
    <3>1. \A u, v : e \in u ++ v <=> ~(e \in u <=> e \in v)
      BY Xor
    <3>. QED
      BY <2>1, <3>1
  <2>3. K ++ s ++ o ++ z ++ (y ++ x) ++ o ++ o ++ C ++ C ++ o = K ++ s ++ x ++ y ++ z
    BY <2>2
  <2>. QED
    BY <2>3 DEF s, o
<1>8. St(q).key = k
  <2>. HIDE DEF k, x, y, z, K, C
  <2>. QED
    BY <1>3, <1>5, <1>6, <1>7
<1>9. prefetch_key(p, m) = IF captured # NO_PIECE \/ type_of(pc) = PAWN THEN k ELSE adjust_key50(k, St(p).rule50 + 1)
  BY DEF prefetch_key
<1>10. key(q) = adjust_key50(k, St(q).rule50)
  BY <1>8 DEF key
<1>. HIDE DEF k, captured, pc
<1>11. CASE captured # NO_PIECE \/ type_of(pc) = PAWN
  <2>1. St(q).rule50 = 0
    BY <1>3, <1>11
  <2>2. adjust_key50(k, 0) = k
    BY DEF adjust_key50
  <2>. QED
    BY <1>9, <1>10, <1>11, <2>1, <2>2
<1>12. CASE ~(captured # NO_PIECE \/ type_of(pc) = PAWN)
  BY <1>3, <1>9, <1>10, <1>12
<1>. QED
  BY <1>11, <1>12

-------------------------------------------------------------------------------
(***************************************************************************)
(* A position set up from a FEN is sound.                                  *)
(***************************************************************************)
(* The least of a set of numbers is one of them.                           *)
LEMMA MinIn ==
  ASSUME NEW S, S \subseteq Nat, S # {}
  PROVE  Min(S) \in S
BY NatMin DEF Min

(* Where castling takes place.                                             *)
HomeRank(c) == IF c = WHITE THEN 0 ELSE 7

(* relative_square on the home rank.                                       *)
LEMMA HomeSquare ==
  ASSUME NEW c \in Color, NEW f \in 0 .. 7
  PROVE  relative_square(c, f) = 8 * HomeRank(c) + f /\ HomeRank(c) \in 0 .. 7
<1>1. f % 8 = f /\ f \div 8 = 0
  OBVIOUS
<1>2. c \in {0, 1} /\ WHITE = 0
  BY TypesDiffer, Pieces
<1>. QED
  BY <1>1, <1>2 DEF relative_square, make_square, relative_rank, file_of, rank_of, HomeRank

(* The way from the corner stays on the home rank.                         *)
LEMMA InwardIs ==
  ASSUME NEW c \in Color, NEW token \in {"K", "Q"}, NEW i \in 0 .. 6
  PROVE  Inward(c, token, i) \in Square /\ R(Inward(c, token, i)) = HomeRank(c)
<1>. DEFINE h == HomeRank(c)
<1>1. h \in 0 .. 7 /\ relative_square(c, 7) = 8 * h + 7 /\ relative_square(c, 0) = 8 * h + 0
  BY HomeSquare
<1>. HIDE DEF h
<1>2. CASE token = "K"
  <2>1. Inward(c, token, i) = 8 * h + (7 - i)
    BY <1>1, <1>2 DEF Inward, Corner
  <2>2. 7 - i \in 0 .. 7
    OBVIOUS
  <2>. QED
    BY <1>1, <2>1, <2>2, SquareAt DEF h
<1>3. CASE token = "Q"
  <2>1. Inward(c, token, i) = 8 * h + i
    BY <1>1, <1>3 DEF Inward, Corner
  <2>2. i \in 0 .. 7
    OBVIOUS
  <2>. QED
    BY <1>1, <2>1, <2>2, SquareAt DEF h
<1>. QED
  BY <1>2, <1>3

(* A rook and the king at home.                                            *)
HomeRook(b, c, rf) ==
  /\ rf \in DOMAIN b /\ rf \in Square /\ b[rf] = make_piece(c, ROOK) /\ R(rf) = HomeRank(c)
  /\ R(square(b, c)) = HomeRank(c) /\ square(b, c) \in DOMAIN b /\ b[square(b, c)] = make_piece(c, KING)
  /\ square(b, c) \in Square

(* The rook of a castling token stands on the rank of its king.            *)
LEMMA RookFound ==
  ASSUME NEW b, IsBoard(b), KingsStand(b), NEW t, t[1] \in Color,
         t[2] \in {"K", "Q"} \/ (t[2] = "file" /\ t[3] \in 0 .. 7), RookOf(b, t) # SQ_NONE
  PROVE  HomeRook(b, t[1], RookOf(b, t))
<1>. DEFINE c == t[1]
            rf == RookOf(b, t)
            k == square(b, c)
            kp == make_piece(c, KING)
            rp == make_piece(c, ROOK)
<1>1. KingAt(b, c, k) /\ DOMAIN b \subseteq Square
  BY DEF KingsStand, IsBoard
<1>2. kp # NO_PIECE /\ rp # NO_PIECE
  BY Pieces, TypesDiffer
<1>3. \A s : piece_on(b, s) = kp => s = k
  BY <1>1, <1>2 DEF piece_on, KingAt
<1>4. \A s : piece_on(b, s) = rp => s \in DOMAIN b /\ b[s] = rp
  BY <1>2 DEF piece_on
<1>. HIDE DEF kp, rp, k
<1>5. CASE t[2] \in {"K", "Q"}
  <2>. DEFINE token == t[2]
              kings == {i \in 0 .. 6 : piece_on(b, Inward(c, token, i)) = kp}
              n == Min(kings)
              rooks == {i \in 0 .. n : piece_on(b, Inward(c, token, i)) = rp}
              j == Min(rooks)
  <2>1. rf = IF kings = {} \/ rooks = {} THEN SQ_NONE ELSE Inward(c, token, j)
    BY <1>5 DEF RookOf, OutermostRook, kp, rp
  <2>2. kings # {} /\ rooks # {} /\ rf = Inward(c, token, j)
    BY <2>1
  <2>3. n \in kings
    BY <2>2, MinIn
  <2>. HIDE DEF n
  <2>4. n \in 0 .. 6 /\ Inward(c, token, n) = k
    BY <1>3, <2>3
  <2>5. j \in rooks
    <3>1. rooks \subseteq Nat
      OBVIOUS
    <3>. HIDE DEF rooks
    <3>. QED
      BY <2>2, <3>1, MinIn
  <2>. HIDE DEF j
  <2>6. j \in 0 .. 6 /\ piece_on(b, Inward(c, token, j)) = rp
    BY <2>4, <2>5
  <2>7. rf \in Square /\ R(rf) = HomeRank(c) /\ k \in Square /\ R(k) = HomeRank(c)
    BY <1>5, <2>2, <2>4, <2>6, InwardIs
  <2>8. rf \in DOMAIN b /\ b[rf] = rp
    BY <1>4, <2>2, <2>6
  <2>. QED
    BY <1>1, <2>7, <2>8 DEF HomeRook, KingAt, k, rp
<1>6. CASE t[2] = "file" /\ t[3] \in 0 .. 7
  <2>1. rf = NamedRook(b, c, t[3])
    BY <1>6 DEF RookOf
  <2>2. /\ rf = relative_square(c, t[3]) /\ piece_on(b, rf) = rp
        /\ \E g \in 1 .. 6 : piece_on(b, relative_square(c, g)) = kp
    BY <2>1 DEF NamedRook, kp, rp
  <2>3. PICK g \in 1 .. 6 : piece_on(b, relative_square(c, g)) = kp
    BY <2>2
  <2>4. k = relative_square(c, g)
    BY <1>3, <2>3
  <2>5. rf = 8 * HomeRank(c) + t[3] /\ k = 8 * HomeRank(c) + g /\ HomeRank(c) \in 0 .. 7
    BY <1>6, <2>2, <2>4, HomeSquare
  <2>6. rf \in Square /\ R(rf) = HomeRank(c)
    BY <1>6, <2>5, SquareAt
  <2>7. k \in Square /\ R(k) = HomeRank(c)
    BY <2>5, SquareAt
  <2>8. rf \in DOMAIN b /\ b[rf] = rp
    BY <1>4, <2>2
  <2>. QED
    BY <1>1, <2>6, <2>7, <2>8 DEF HomeRook, KingAt, k, rp
<1>. QED
  BY <1>5, <1>6

(* The right of a king and a rook: on the side the rook is on.             *)
LEMMA RightIs ==
  ASSUME NEW b, NEW c \in Color, NEW rf
  PROVE  /\ RightOf(b, c, rf) \in CastlingOf(c)
         /\ RightOf(b, c, rf) \in KING_SIDE <=> square(b, c) < rf
<1>1. \E cr \in CastlingOf(c) : cr \in KING_SIDE <=> square(b, c) < rf
  <2>1. c \in {0, 1} /\ WHITE = 0
    BY TypesDiffer, Pieces
  <2>2. CastlingOf(c) = {1, 2} \/ CastlingOf(c) = {4, 8}
    BY <2>1 DEF CastlingOf
  <2>3. KING_SIDE = {1, 4}
    BY DEF KING_SIDE
  <2>4. \A v \in BOOLEAN : \E cr \in CastlingOf(c) : cr \in KING_SIDE <=> v
    BY <2>2, <2>3
  <2>5. (square(b, c) < rf) \in BOOLEAN
    OBVIOUS
  <2>. QED
    BY <2>4, <2>5
<1>. DEFINE P(cr) == cr \in KING_SIDE <=> square(b, c) < rf
<1>2. RightOf(b, c, rf) = CHOOSE cr \in CastlingOf(c) : P(cr)
  BY DEF RightOf
<1>3. \E cr \in CastlingOf(c) : P(cr)
  BY <1>1
<1>. HIDE DEF P
<1>4. RightOf(b, c, rf) \in CastlingOf(c) /\ P(RightOf(b, c, rf))
  BY <1>2, <1>3
<1>. QED
  BY <1>4 DEF P

CastlingIs(e, b, cr, c, rf) ==
  /\ e.king = square(b, c) /\ e.rook = rf
  /\ e.path = (BetweenBB[rf][RookTarget(cr)] \cup BetweenBB[square(b, c)][KingTarget(cr)]) \ {square(b, c), rf}
  /\ cr = RightOf(b, c, rf) /\ c \in Color /\ HomeRook(b, c, rf)

(* Every castling right set_castling_right sets up has its king and rook.  *)
LEMMA CastlingsIs ==
  ASSUME NEW fen, Readable(fen), KingsStand(fen.board), NEW cr \in DOMAIN Castlings(fen)
  PROVE  \E c, rf : CastlingIs(Castlings(fen)[cr], fen.board, cr, c, rf)
<1>. DEFINE b == fen.board
            rooks == {<<t[1], RookOf(b, t)>> : t \in {t \in fen.castling : RookOf(b, t) # SQ_NONE}}
            D == {RightOf(b, r[1], r[2]) : r \in rooks}
            pick(x) == CHOOSE r \in rooks : RightOf(b, r[1], r[2]) = x
<1>1. Castlings(fen) = [x \in D |-> set_castling_right(b, pick(x)[1], pick(x)[2])]
  BY DEF Castlings
<1>2. cr \in D /\ Castlings(fen)[cr] = set_castling_right(b, pick(cr)[1], pick(cr)[2])
  <2>. HIDE DEF D, pick
  <2>. QED
    BY <1>1
<1>. DEFINE r == pick(cr)
<1>3. r \in rooks /\ RightOf(b, r[1], r[2]) = cr
  BY <1>2
<1>. HIDE DEF r
<1>4. PICK t \in fen.castling : RookOf(b, t) # SQ_NONE /\ r = <<t[1], RookOf(b, t)>>
  BY <1>3
<1>5. r[1] = t[1] /\ r[2] = RookOf(b, t)
  BY <1>4
<1>6. t[1] \in Color /\ (t[2] \in {"K", "Q"} \/ (t[2] = "file" /\ t[3] \in 0 .. 7))
  BY DEF Readable
<1>7. IsBoard(b)
  BY DEF Readable, IsBoard
<1>8. HomeRook(b, t[1], RookOf(b, t))
  <2>. HIDE DEF b
  <2>. QED
    BY <1>4, <1>6, <1>7, RookFound DEF b
<1>9. Castlings(fen)[cr] = set_castling_right(b, t[1], RookOf(b, t)) /\ cr = RightOf(b, t[1], RookOf(b, t))
  BY <1>2, <1>3, <1>5 DEF r
<1>. DEFINE rf == RookOf(b, t)
            c == t[1]
<1>. HIDE DEF rf, c
<1>10. CastlingIs(set_castling_right(b, c, rf), b, cr, c, rf)
  <2>1. cr = RightOf(b, c, rf) /\ c \in Color /\ HomeRook(b, c, rf)
    BY <1>6, <1>8, <1>9 DEF rf, c
  <2>. QED
    BY <2>1 DEF CastlingIs, set_castling_right
<1>. QED
  BY <1>9, <1>10 DEF rf, c

(* The castling rights of a FEN are sound.                                 *)
LEMMA CastlingsStand ==
  ASSUME NEW fen, Readable(fen), KingsStand(fen.board)
  PROVE  /\ CastlingsSound(Castlings(fen), fen.chess960)
         /\ RightsSound(fen.board, Castlings(fen), DOMAIN Castlings(fen))
<1>. DEFINE b == fen.board
            cas == Castlings(fen)
<1>1. ASSUME NEW cr \in DOMAIN cas
      PROVE  LET k == cas[cr].king  r == cas[cr].rook IN
             /\ cr \in {1, 2, 4, 8} /\ k \in Square /\ r \in Square /\ k # r
             /\ R(k) = R(KingTarget(cr)) /\ R(r) = R(KingTarget(cr))
             /\ cr \in KING_SIDE <=> k < r
             /\ cas[cr].path = (BetweenBB[r][RookTarget(cr)] \cup BetweenBB[k][KingTarget(cr)]) \ {k, r}
             /\ k \in DOMAIN b /\ b[k] = make_piece(CastlingColor(cr), KING)
             /\ r \in DOMAIN b /\ b[r] = make_piece(CastlingColor(cr), ROOK)
  <2>1. PICK c, rf : CastlingIs(cas[cr], b, cr, c, rf)
    BY CastlingsIs
  <2>2. /\ cas[cr].king = square(b, c) /\ cas[cr].rook = rf /\ cr = RightOf(b, c, rf) /\ c \in Color /\ HomeRook(b, c, rf)
        /\ cas[cr].path = (BetweenBB[rf][RookTarget(cr)] \cup BetweenBB[square(b, c)][KingTarget(cr)]) \ {square(b, c), rf}
    BY <2>1 DEF CastlingIs
  <2>3. cr \in CastlingOf(c) /\ (cr \in KING_SIDE <=> square(b, c) < rf)
    BY <2>2, RightIs
  <2>4. CastlingColor(cr) = c /\ cr \in {1, 2, 4, 8} /\ R(KingTarget(cr)) = HomeRank(c)
    BY <2>2, <2>3, CastlingSides DEF HomeRank
  <2>5. /\ rf \in DOMAIN b /\ rf \in Square /\ b[rf] = make_piece(c, ROOK) /\ R(rf) = HomeRank(c)
        /\ R(square(b, c)) = HomeRank(c) /\ square(b, c) \in DOMAIN b /\ b[square(b, c)] = make_piece(c, KING)
        /\ square(b, c) \in Square
    BY <2>2 DEF HomeRook
  <2>6. square(b, c) # rf
    BY <2>2, <2>5, Pieces, TypesDiffer
  <2>. HIDE DEF cas, b
  <2>. QED
    BY <2>2, <2>3, <2>4, <2>5, <2>6
<1>2. ASSUME NEW cr \in DOMAIN cas, ~fen.chess960
      PROVE  F(cas[cr].king) = 4 /\ F(cas[cr].rook) = IF cr \in KING_SIDE THEN 7 ELSE 0
  BY <1>2 DEF Readable, F
<1>. HIDE DEF cas, b
<1>3. CastlingsSound(cas, fen.chess960)
  BY <1>1, <1>2 DEF CastlingsSound
<1>4. RightsSound(b, cas, DOMAIN cas)
  BY <1>1 DEF RightsSound
<1>. QED
  BY <1>3, <1>4 DEF cas, b

(* What set refuses.                                                       *)
LEMMA AcceptedFacts ==
  ASSUME NEW fen, Accepted(fen)
  PROVE  /\ \A s \in OfTypes(fen.board, {PAWN}) : rank_of(s) \in 1 .. 6
         /\ \A c \in Color : pieceCount(fen.board, make_piece(c, KING)) = 1
         /\ fen.ep # SQ_NONE => relative_rank(fen.turn, fen.ep) = 5
         /\ ~attackers_to_exist(fen.board, square(fen.board, Them(fen.turn)), pieces(fen.board), fen.turn)
<1>1. \A s \in OfTypes(fen.board, {PAWN}) : rank_of(s) \in 1 .. 6
  BY DEF Accepted
<1>2. \A c \in Color : pieceCount(fen.board, make_piece(c, KING)) = 1
  BY DEF Accepted
<1>3. fen.ep # SQ_NONE => relative_rank(fen.turn, fen.ep) = 5
  BY DEF Accepted
<1>4. ~attackers_to_exist(fen.board, square(fen.board, Them(fen.turn)), pieces(fen.board), fen.turn)
  BY DEF Accepted
<1>. QED
  BY <1>1, <1>2, <1>3, <1>4

(* The pieces of an accepted FEN.                                          *)
LEMMA KingsAccepted ==
  ASSUME NEW fen, Readable(fen), Accepted(fen)
  PROVE  IsBoard(fen.board) /\ PawnsPlaced(fen.board) /\ KingsStand(fen.board)
<1>. DEFINE b == fen.board
<1>1. IsBoard(b)
  BY DEF Readable, IsBoard
<1>2. PawnsPlaced(b)
  <2>1. \A s \in OfTypes(b, {PAWN}) : rank_of(s) \in 1 .. 6
    BY AcceptedFacts
  <2>. QED
    BY <2>1 DEF PawnsPlaced, OfTypes, R
<1>3. ASSUME NEW c \in Color PROVE KingAt(b, c, square(b, c))
  <2>1. pieceCount(b, make_piece(c, KING)) = 1
    BY AcceptedFacts
  <2>2. Cardinality(Holds(b, make_piece(c, KING))) = 1 /\ IsFiniteSet(Holds(b, make_piece(c, KING)))
    BY <1>1, <2>1, CountType
  <2>3. PICK x : Holds(b, make_piece(c, KING)) = {x}
    BY <2>2, FS_Singleton
  <2>4. KingAt(b, c, x)
    BY <2>3 DEF KingAt, Holds
  <2>. QED
    BY <2>4, KingSquare
<1>. QED
  BY <1>1, <1>2, <1>3 DEF KingsStand

(* If one pawn may take in passing, so may the one on the other side,      *)
(* unless pinned.                                                          *)
LEMMA EpNeighbourSafe ==
  ASSUME NEW b, IsBoard(b), NEW us \in Color, NEW k, k = square(b, us), KingAt(b, us, k),
         NEW ep, NEW c, NEW f, EpTaker(b, us, f, ep, c), color_of(b[c]) = Them(us),
         NEW s \in DOMAIN b, b[s] = make_piece(us, PAWN), Strikes(us, s, ep),
         NEW x \in DOMAIN b, color_of(b[x]) = Them(us), x # c,
         ~Hits(b, (DOMAIN b \ {s, c}) \cup {ep}, x, k)
  PROVE  ~Hits(b, (DOMAIN b \ {f, c}) \cup {ep}, x, k)
<1>. DEFINE O == (DOMAIN b \ {f, c}) \cup {ep}
            Q == (DOMAIN b \ {s, c}) \cup {ep}
<1>. SUFFICES ASSUME Hits(b, O, x, k) PROVE FALSE
  OBVIOUS
<1>1. /\ f \in DOMAIN b /\ b[f] = make_piece(us, PAWN) /\ Strikes(us, f, ep)
      /\ ep \in Square /\ ep \notin DOMAIN b /\ c \in DOMAIN b /\ c = ep - pawn_push(us)
  BY DEF EpTaker
<1>2. f \in Square /\ s \in Square /\ c \in Square /\ x \in Square /\ k \in Square /\ k \in DOMAIN b
  BY <1>1 DEF IsBoard, KingAt
<1>3. /\ type_of(b[x]) \in {BISHOP, ROOK, QUEEN} /\ Aligned(type_of(b[x]), x, k) /\ Clear(x, k, O)
      /\ \E z \in Square : Inside(x, k, z) /\ z \in Q /\ z \notin O
  <2>. HIDE DEF O, Q
  <2>1. ~Hits(b, Q, x, k)
    BY DEF Q
  <2>. QED
    BY <2>1, Uncovered
<1>4. s # f /\ Inside(x, k, f)
  BY <1>3
<1>5. \A z \in Square : Inside(x, k, z) => z \notin O
  BY <1>3 DEF Clear
<1>6. us # Them(us) /\ color_of(make_piece(us, PAWN)) = us /\ type_of(make_piece(us, PAWN)) = PAWN
  BY Opposite, Pieces, TypesDiffer
<1>7. CASE Inside(x, k, c)
  <2>1. R(f) = R(c) /\ R(s) = R(c) /\ F(c) - F(f) = F(s) - F(c) /\ F(c) - F(f) \in {-1, 1}
    BY <1>1, <1>2, <1>4, Beside
  <2>2. F(c) \in Int /\ F(f) \in Int
    BY <1>2, Coordinates
  <2>3. F(f) # F(c)
    BY <2>1, <2>2
  <2>4. s # x /\ s # c
    BY <1>6
  <2>5. s # k
    BY <1>6, Pieces, TypesDiffer DEF KingAt
  <2>6. Inside(x, k, s)
    BY <1>2, <1>4, <1>7, <2>1, <2>3, <2>4, <2>5, RankNeighbour
  <2>7. s \in O
    BY <1>4, <2>4
  <2>. QED
    BY <1>2, <1>5, <2>6, <2>7
<1>8. CASE ~Inside(x, k, c)
  <2>1. Eyes(b, (DOMAIN b \ {f, c}) \cup {ep}, Them(us), x, k)
    BY <1>3 DEF Eyes
  <2>2. IsBoard(b) /\ us \in Color /\ k = square(b, us) /\ KingAt(b, us, k) /\ Inside(x, k, f) /\ EpTaker(b, us, f, ep, c)
    BY <1>4
  <2>. HIDE DEF O, Q
  <2>. QED
    BY <1>8, <2>1, <2>2, EpPinHolds
<1>. QED
  BY <1>7, <1>8

(* The occupancy after a capture in passing.                               *)
LEMMA TakenThrough ==
  ASSUME NEW D, NEW s, NEW c, NEW ep, s \in D, c \in D, ep \notin D, s # c
  PROVE  ((D ++ {c}) ++ {ep}) ++ {s} = (D \ {s, c}) \cup {ep}
<1>1. ASSUME NEW e PROVE e \in ((D ++ {c}) ++ {ep}) ++ {s} <=> e \in (D \ {s, c}) \cup {ep}
  <2>1. \A u, v : e \in u ++ v <=> ~(e \in u <=> e \in v)
    BY Xor
  <2>. QED
    BY <2>1
<1>. QED
  BY <1>1

(* The en passant square that set keeps is sound.                          *)
LEMMA EpGivenSound ==
  ASSUME NEW fen, Readable(fen), Accepted(fen), KingsStand(fen.board)
  PROVE  EpSound(fen.board, fen.turn, EpSquareOf(fen), blockersForKing(fen.board)[fen.turn])
<1>. DEFINE b == fen.board
            us == fen.turn
            them == Them(us)
            ep == fen.ep
            c == ep - pawn_push(us)
            k == square(b, us)
<1>. SUFFICES ASSUME EpSquareOf(fen) # SQ_NONE PROVE EpSound(b, us, EpSquareOf(fen), blockersForKing(b)[us])
  BY DEF EpSound
<1>1. us \in Color /\ them \in Color /\ Them(them) = us /\ ep \in Square \cup {SQ_NONE} /\ IsBoard(b) /\ KingAt(b, us, k)
  BY Opposite DEF Readable, IsBoard, KingsStand
<1>. DEFINE pawns == PawnAttacks[them][ep] \cap Exactly(b, us, {PAWN})
            target == Exactly(b, them, {PAWN}) \cap {ep + pawn_push(them)}
            occ == (pieces(b) ++ target) ++ {ep}
<1>2. /\ EpSquareOf(fen) = ep /\ ep # SQ_NONE /\ target # {} /\ pieces(b) \cap {ep, ep + pawn_push(us)} = {}
      /\ \E s \in pawns : (attackers_to(b, k, occ ++ {s}) \cap OfColor(b, them)) \ target = {}
  BY DEF EpSquareOf
<1>3. ep \in Square /\ relative_rank(us, ep) = 5 /\ ep \notin DOMAIN b
  <2>1. relative_rank(us, ep) = 5
    BY <1>2, AcceptedFacts
  <2>2. ep \in Square
    BY <1>1, <1>2
  <2>3. ep \notin pieces(b)
    BY <1>2
  <2>. QED
    BY <2>1, <2>2, <2>3 DEF pieces
<1>4. c = ep + pawn_push(them)
  <2>1. pawn_push(them) = -pawn_push(us) /\ pawn_push(us) \in Int /\ ep \in Int
    BY <1>1, <1>3, Opposite DEF Square
  <2>. QED
    BY <2>1
<1>5. target = {c} /\ c \in DOMAIN b /\ color_of(b[c]) = them /\ type_of(b[c]) = PAWN
  BY <1>2, <1>4 DEF Exactly
<1>6. b[c] = make_piece(them, PAWN) /\ c \in Square /\ k \in Square
  <2>1. b[c] \in Piece /\ c \in Square
    BY <1>1, <1>5 DEF IsBoard
  <2>2. k \in Square
    BY <1>1 DEF IsBoard, KingAt
  <2>. QED
    BY <1>5, <2>1, <2>2, Pieces
<1>7. PICK s \in pawns : (attackers_to(b, k, occ ++ {s}) \cap OfColor(b, them)) \ target = {}
  BY <1>2
<1>8. s \in DOMAIN b /\ color_of(b[s]) = us /\ type_of(b[s]) = PAWN /\ s \in PawnAttacks[them][ep]
  BY DEF Exactly
<1>9. s \in Square /\ b[s] = make_piece(us, PAWN) /\ Strikes(us, s, ep)
  <2>1. s \in Square /\ b[s] \in Piece
    BY <1>1, <1>8 DEF IsBoard
  <2>2. Strikes(them, ep, s)
    BY <1>1, <1>3, <1>8, PawnIs
  <2>3. Strikes(us, s, ep)
    BY <1>1, <1>3, <2>1, <2>2, StepsSym
  <2>. QED
    BY <1>8, <2>1, <2>3, Pieces
<1>10. occ ++ {s} = (DOMAIN b \ {s, c}) \cup {ep}
  <2>1. s # c
    BY <1>5, <1>8, <1>1, Opposite
  <2>2. pieces(b) = DOMAIN b
    BY DEF pieces
  <2>3. occ = (pieces(b) ++ target) ++ {ep}
    OBVIOUS
  <2>4. target = {c}
    BY <1>5
  <2>5. ep \notin DOMAIN b /\ s \in DOMAIN b /\ c \in DOMAIN b
    BY <1>3, <1>5, <1>8
  <2>. HIDE DEF occ, pawns, target, c, ep, k, b
  <2>6. (((DOMAIN b) ++ {c}) ++ {ep}) ++ {s} = (DOMAIN b \ {s, c}) \cup {ep}
    BY <2>1, <2>5, TakenThrough
  <2>. QED
    BY <2>2, <2>3, <2>4, <2>6
<1>. HIDE DEF occ, pawns, target, c, ep, k
<1>11. ASSUME NEW x \in DOMAIN b, color_of(b[x]) = them, x # c PROVE ~Hits(b, (DOMAIN b \ {s, c}) \cup {ep}, x, k)
  <2>1. x \notin attackers_to(b, k, (DOMAIN b \ {s, c}) \cup {ep})
    BY <1>5, <1>7, <1>10, <1>11 DEF OfColor
  <2>. QED
    BY <1>1, <1>6, <2>1, AttackersIs
<1>12. ASSUME NEW f \in DOMAIN b, b[f] = make_piece(us, PAWN), Strikes(us, f, ep),
              f \notin blockersForKing(b)[us] \/ square(b, us) \in LineBB[f][ep],
              NEW x \in DOMAIN b, color_of(b[x]) = them, x # c
       PROVE  ~Hits(b, (DOMAIN b \ {f, c}) \cup {ep}, x, k)
  <2>1. EpTaker(b, us, f, ep, c)
    BY <1>3, <1>5, <1>12 DEF EpTaker, c
  <2>2. ~Hits(b, (DOMAIN b \ {s, c}) \cup {ep}, x, k)
    BY <1>11, <1>12
  <2>3. k = square(b, us) /\ color_of(b[c]) = Them(us) /\ IsBoard(b) /\ us \in Color /\ KingAt(b, us, k)
    BY <1>1, <1>5 DEF k
  <2>. QED
    BY <1>8, <1>9, <1>12, <2>1, <2>2, <2>3, EpNeighbourSafe
<1>13. EpSafe(b, us, ep, blockersForKing(b)[us])
  BY <1>12 DEF EpSafe, k, c
<1>. QED
  BY <1>2, <1>3, <1>5, <1>6, <1>13 DEF EpSound, c

(* A position that was set up is sound.                                    *)
LEMMA SetSound ==
  ASSUME NEW fen, Readable(fen), Accepted(fen)
  PROVE  /\ IsPosition(set(fen)) /\ IsSeq(set(fen).states, 1) /\ set(fen).states[1] = St(set(fen)) /\ Sound(set(fen))
<1>. DEFINE b == fen.board
            us == fen.turn
            ep == EpSquareOf(fen)
            cas == Castlings(fen)
            rights == DOMAIN cas
            st == set_state(b, us, rights, ep, fen.rule50)
            ply == (IF 2 * (fen.fullmove - 1) < 0 THEN 0 ELSE 2 * (fen.fullmove - 1)) + us
            q == set(fen)
<1>1. q = [board |-> b, sideToMove |-> us, castling |-> cas, gamePly |-> ply, chess960 |-> fen.chess960, states |-> <<st>>]
  BY DEF set
<1>2. IsState(st) /\ KeysAgree(b, us, st) /\ ChecksAgree(b, us, st) /\ st.castlingRights = rights /\ st.epSquare = ep
  <2>. HIDE DEF b, us, ep, cas
  <2>1. IsState(st)
    BY DEF set_state, IsState, StateFields
  <2>2. KeysAgree(b, us, st)
    BY DEF set_state, KeysAgree
  <2>3. ChecksAgree(b, us, st)
    BY DEF set_state, ChecksAgree
  <2>4. st.castlingRights = rights /\ st.epSquare = ep
    BY DEF set_state
  <2>. QED
    BY <2>1, <2>2, <2>3, <2>4
<1>3. IsBoard(b) /\ PawnsPlaced(b) /\ KingsStand(b)
  BY KingsAccepted
<1>4. CastlingsSound(cas, fen.chess960) /\ RightsSound(b, cas, rights)
  BY <1>3, CastlingsStand
<1>5. EpSound(b, us, ep, blockersForKing(b)[us])
  BY <1>3, EpGivenSound
<1>6. us \in Color
  BY DEF Readable
<1>7. ~Attacked(b, DOMAIN b, us, square(b, Them(us)))
  <2>1. ~attackers_to_exist(b, square(b, Them(us)), pieces(b), us)
    BY AcceptedFacts
  <2>2. Them(us) \in Color /\ square(b, Them(us)) \in Square
    BY <1>3, <1>6, Opposite DEF KingsStand, KingAt, IsBoard
  <2>. QED
    BY <1>3, <1>6, <2>1, <2>2, AttackedIs DEF pieces
<1>. HIDE DEF b, us, ep, cas, st, ply, q
<1>8. /\ IsPosition(q) /\ q.board = b /\ q.sideToMove = us /\ q.castling = cas /\ q.chess960 = fen.chess960
      /\ q.states = <<st>>
  BY <1>1 DEF IsPosition, PositionFields
<1>9. IsSeq(<<st>>, 1) /\ Last(<<st>>) = st /\ <<st>>[1] = st
  <2>1. Len(<<st>>) = 1 /\ <<st>>[1] = st /\ <<st>> \in Seq({st})
    OBVIOUS
  <2>2. {<<st>>[i] : i \in 1 .. 1} = {st}
    BY <2>1
  <2>. QED
    BY <2>1, <2>2 DEF IsSeq, Last
<1>10. St(q) = st
  BY <1>8, <1>9 DEF St
<1>11. Level(b, us, st, cas, fen.chess960)
  BY <1>2, <1>3, <1>4, <1>5, <1>6, <1>7 DEF Level, rights
<1>12. Sound(q)
  BY <1>8, <1>10, <1>11 DEF Sound
<1>. QED
  BY <1>8, <1>9, <1>10, <1>12 DEF q

-------------------------------------------------------------------------------
(***************************************************************************)
(* The walk.                                                               *)
(***************************************************************************)
(* The situation a StateInfo belongs to.                                   *)
At(sit, st, cas, c960) ==
  /\ Level(sit.board, sit.turn, st, cas, c960)
  /\ sit = [board |-> sit.board, turn |-> sit.turn, rights |-> st.castlingRights, ep |-> st.epSquare]
(* m led from one situation to the next, and undo_move can take it back.   *)
Link(before, m, after, captured) ==
  /\ after.turn = Them(before.turn)
  /\ IF m = NullMove THEN after.board = before.board
     ELSE Carry(after.board, UndoOps(before.turn, m, captured)) = before.board
AtEach(p, tr, n) == \A i \in 1 .. n : At(tr[i], p.states[i], p.castling, p.chess960)
LinkEach(p, pa, tr, n) ==
  \A i \in 1 .. n - 1 : Link(tr[i], pa[i], tr[i + 1], p.states[i + 1].capturedPiece)
LinkLast(p, pa, tr, n) == n > 0 => Link(tr[n], pa[n], Situation(p), St(p).capturedPiece)
Rooted(p, n) ==
  /\ n \in Nat /\ IsPosition(p) /\ Sound(p) /\ IsSeq(p.states, n + 1) /\ p.states[n + 1] = St(p)
Walked(p, pa, tr, n) ==
  /\ Rooted(p, n) /\ IsSeq(pa, n) /\ IsSeq(tr, n)
  /\ AtEach(p, tr, n) /\ LinkEach(p, pa, tr, n) /\ LinkLast(p, pa, tr, n)

(* The situation of a position belongs to its state.                       *)
LEMMA SituationAt ==
  ASSUME NEW p, Sound(p)
  PROVE  At(Situation(p), St(p), p.castling, p.chess960)
<1>1. Situation(p) = [board |-> p.board, turn |-> p.sideToMove, rights |-> St(p).castlingRights, ep |-> St(p).epSquare]
  BY DEF Situation
<1>. QED
  BY <1>1 DEF Sound, At

(* A walk goes one step on.                                                *)
LEMMA Extended ==
  ASSUME NEW p, NEW pa, NEW tr, NEW n, Walked(p, pa, tr, n), NEW m, NEW q,
         IsPosition(q), Sound(q), q.castling = p.castling, q.chess960 = p.chess960,
         q.states[n + 2] = St(q), IsSeq(q.states, n + 2), \A i \in 1 .. n + 1 : q.states[i] = p.states[i],
         Link(Situation(p), m, Situation(q), St(q).capturedPiece)
  PROVE  Walked(q, Append(pa, m), Append(tr, Situation(p)), n + 1)
<1>. DEFINE pb == Append(pa, m)
            tb == Append(tr, Situation(p))
<1>1. n \in Nat /\ Sound(p) /\ IsSeq(pa, n) /\ IsSeq(tr, n) /\ p.states[n + 1] = St(p)
  BY DEF Walked, Rooted
<1>2. Appends(pb, pa, n, m) /\ Appends(tb, tr, n, Situation(p))
  BY <1>1, Appended
<1>3. /\ IsSeq(pb, n + 1) /\ IsSeq(tb, n + 1) /\ pb[n + 1] = m /\ tb[n + 1] = Situation(p)
      /\ \A i \in 1 .. n : pb[i] = pa[i] /\ tb[i] = tr[i]
  BY <1>2 DEF Appends
<1>. HIDE DEF pb, tb
<1>4. n + 1 \in Nat /\ n + 2 = (n + 1) + 1
  BY <1>1
<1>5. Rooted(q, n + 1)
  BY <1>4 DEF Rooted
<1>6. AtEach(q, tb, n + 1)
  <2>1. ASSUME NEW i \in 1 .. n + 1 PROVE At(tb[i], q.states[i], q.castling, q.chess960)
    <3>1. q.states[i] = p.states[i]
      OBVIOUS
    <3>2. CASE i = n + 1
      BY <1>1, <1>3, <3>1, <3>2, SituationAt
    <3>3. CASE i # n + 1
      <4>1. i \in 1 .. n
        BY <1>1, <3>3
      <4>2. At(tr[i], p.states[i], p.castling, p.chess960)
        BY <4>1 DEF Walked, AtEach
      <4>. QED
        BY <1>3, <3>1, <4>1, <4>2
    <3>. QED
      BY <3>2, <3>3
  <2>. QED
    BY <2>1 DEF AtEach
<1>7. LinkEach(q, pb, tb, n + 1)
  <2>1. ASSUME NEW i \in 1 .. (n + 1) - 1 PROVE Link(tb[i], pb[i], tb[i + 1], q.states[i + 1].capturedPiece)
    <3>1. i \in 1 .. n /\ i + 1 \in 1 .. n + 1
      BY <1>1
    <3>2. q.states[i + 1] = p.states[i + 1] /\ tb[i] = tr[i] /\ pb[i] = pa[i]
      BY <1>3, <3>1
    <3>3. CASE i = n
      <4>1. Link(tr[n], pa[n], Situation(p), St(p).capturedPiece)
        BY <1>1, <3>1, <3>3 DEF Walked, LinkLast
      <4>. QED
        BY <1>1, <1>3, <3>2, <3>3, <4>1
    <3>4. CASE i # n
      <4>1. i \in 1 .. n - 1 /\ i + 1 \in 1 .. n
        BY <1>1, <3>1, <3>4
      <4>2. Link(tr[i], pa[i], tr[i + 1], p.states[i + 1].capturedPiece)
        BY <4>1 DEF Walked, LinkEach
      <4>. QED
        BY <1>3, <3>2, <4>1, <4>2
    <3>. QED
      BY <3>3, <3>4
  <2>. QED
    BY <2>1 DEF LinkEach
<1>8. LinkLast(q, pb, tb, n + 1)
  BY <1>3 DEF LinkLast
<1>. QED
  BY <1>3, <1>5, <1>6, <1>7, <1>8 DEF Walked, pb, tb

(* Making the moves the walk makes.                                        *)
LEMMA WalksOn ==
  ASSUME NEW p, NEW pa, NEW tr, NEW n, Walked(p, pa, tr, n), NEW m \in LegalList(p)
  PROVE  Walked(do_move(p, m, gives_check(p, m)), Append(pa, m), Append(tr, Situation(p)), n + 1)
<1>. DEFINE q == do_move(p, m, gives_check(p, m))
<1>1. n \in Nat /\ IsPosition(p) /\ IsSeq(p.states, n + 1) /\ Sound(p)
  BY DEF Walked, Rooted
<1>2. /\ IsPosition(q) /\ Sound(q) /\ q.castling = p.castling /\ q.chess960 = p.chess960
      /\ q.sideToMove = Them(p.sideToMove) /\ q.states[(n + 1) + 1] = St(q)
      /\ IsSeq(q.states, (n + 1) + 1) /\ \A i \in 1 .. n + 1 : q.states[i] = p.states[i]
      /\ Carry(q.board, UndoOps(p.sideToMove, m, St(q).capturedPiece)) = p.board
      /\ m.type # "null"
  BY <1>1, AfterDoMove
<1>. HIDE DEF q
<1>3. m # NullMove
  BY <1>2 DEF NullMove
<1>4. Link(Situation(p), m, Situation(q), St(q).capturedPiece)
  BY <1>2, <1>3 DEF Link, Situation
<1>5. (n + 1) + 1 = n + 2
  BY <1>1
<1>6. q.states[n + 2] = St(q) /\ IsSeq(q.states, n + 2)
  BY <1>2, <1>5
<1>7. \A i \in 1 .. n + 1 : q.states[i] = p.states[i]
  BY <1>2
<1>8. IsPosition(q) /\ Sound(q) /\ q.castling = p.castling /\ q.chess960 = p.chess960
  BY <1>2
<1>. QED
  BY <1>4, <1>6, <1>7, <1>8, Extended DEF q

(* Making the null moves the walk makes.                                   *)
LEMMA WalksOnNull ==
  ASSUME NEW p, NEW pa, NEW tr, NEW n, Walked(p, pa, tr, n), checkers(p) = {}
  PROVE  Walked(do_null_move(p), Append(pa, NullMove), Append(tr, Situation(p)), n + 1)
<1>. DEFINE q == do_null_move(p)
<1>1. n \in Nat /\ IsPosition(p) /\ IsSeq(p.states, n + 1) /\ Sound(p)
  BY DEF Walked, Rooted
<1>2. IsState(St(p))
  BY <1>1 DEF Sound, Level
<1>3. /\ IsPosition(q) /\ q.board = p.board /\ q.sideToMove = Them(p.sideToMove)
      /\ q.castling = p.castling /\ q.chess960 = p.chess960
      /\ IsSeq(q.states, (n + 1) + 1) /\ \A i \in 1 .. n + 1 : q.states[i] = p.states[i]
      /\ q.states[(n + 1) + 1] = St(q) /\ NullState(p, p.board, St(q))
  BY <1>1, <1>2, DoNullMoveIs
<1>. HIDE DEF q
<1>4. Level(p.board, Them(p.sideToMove), St(q), p.castling, p.chess960)
  BY <1>1, <1>3, NullLevel
<1>5. Sound(q)
  BY <1>3, <1>4 DEF Sound
<1>6. Link(Situation(p), NullMove, Situation(q), St(q).capturedPiece)
  BY <1>3 DEF Link, Situation
<1>7. (n + 1) + 1 = n + 2
  BY <1>1
<1>8. q.states[n + 2] = St(q) /\ IsSeq(q.states, n + 2)
  BY <1>3, <1>7
<1>9. \A i \in 1 .. n + 1 : q.states[i] = p.states[i]
  BY <1>3
<1>10. IsPosition(q) /\ q.castling = p.castling /\ q.chess960 = p.chess960
  BY <1>3
<1>. QED
  BY <1>5, <1>6, <1>8, <1>9, <1>10, Extended DEF q

(* Taking the last move back leads to the situation before it.             *)
LEMMA WalksBack ==
  ASSUME NEW p, NEW pa, NEW tr, NEW n \in Nat, Walked(p, pa, tr, n + 1)
  PROVE  LET q == Undone(p, Last(pa)) IN
         Walked(q, Front(pa), Front(tr), n) /\ Situation(q) = Last(tr)
<1>. DEFINE m == Last(pa)
            q == Undone(p, m)
            pb == Front(pa)
            tb == Front(tr)
            s == tr[n + 1]
<1>1. /\ IsPosition(p) /\ Sound(p) /\ IsSeq(p.states, (n + 1) + 1) /\ IsSeq(pa, n + 1) /\ IsSeq(tr, n + 1)
      /\ AtEach(p, tr, n + 1) /\ LinkEach(p, pa, tr, n + 1) /\ LinkLast(p, pa, tr, n + 1)
  BY DEF Walked, Rooted
<1>2. Drops(pb, pa, n) /\ Drops(tb, tr, n)
  BY <1>1, Fronted
<1>3. /\ IsSeq(pb, n) /\ IsSeq(tb, n) /\ m = pa[n + 1] /\ Last(tr) = s
      /\ \A i \in 1 .. n : pb[i] = pa[i] /\ tb[i] = tr[i]
  BY <1>2 DEF Drops
<1>4. At(s, p.states[n + 1], p.castling, p.chess960)
  BY <1>1 DEF AtEach
<1>5. Link(s, m, Situation(p), St(p).capturedPiece)
  BY <1>1, <1>3 DEF LinkLast
<1>6. p.sideToMove = Them(s.turn) /\ Them(p.sideToMove) = s.turn
  <2>1. s.turn \in Color
    BY <1>4 DEF At, Level
  <2>2. p.sideToMove = Them(s.turn)
    BY <1>5 DEF Link, Situation
  <2>. QED
    BY <2>1, <2>2, Opposite
<1>7. TakenBackTo(q, p, n + 1, s.board)
  <2>1. CASE m = NullMove
    <3>1. p.board = s.board
      BY <1>5, <2>1 DEF Link, Situation
    <3>2. TakenBackTo(undo_null_move(p), p, n + 1, p.board)
      BY <1>1, UndoNullMoveIs
    <3>. QED
      BY <2>1, <3>1, <3>2 DEF Undone
  <2>2. CASE m # NullMove
    <3>1. Carry(p.board, UndoOps(Them(p.sideToMove), m, St(p).capturedPiece)) = s.board
      BY <1>5, <1>6, <2>2 DEF Link, Situation
    <3>2. TakenBackTo(undo_move(p, m), p, n + 1, Carry(p.board, UndoOps(Them(p.sideToMove), m, St(p).capturedPiece)))
      BY <1>1, UndoMoveIs
    <3>. QED
      BY <2>2, <3>1, <3>2 DEF Undone
  <2>. QED
    BY <2>1, <2>2
<1>. HIDE DEF m, q, pb, tb, s
<1>8. /\ IsPosition(q) /\ q.board = s.board /\ q.sideToMove = s.turn
      /\ q.castling = p.castling /\ q.chess960 = p.chess960 /\ IsSeq(q.states, n + 1)
  BY <1>6, <1>7 DEF TakenBackTo, Drops
<1>9. \A i \in 1 .. n + 1 : q.states[i] = p.states[i]
  BY <1>7 DEF TakenBackTo, Drops
<1>10. q.states[n + 1] = St(q) /\ St(q) = p.states[n + 1]
  <2>1. Last(q.states) = q.states[n + 1]
    BY <1>8 DEF IsSeq, Last
  <2>. QED
    BY <1>9, <2>1 DEF St
<1>11. Sound(q)
  BY <1>4, <1>8, <1>10 DEF At, Sound
<1>12. Situation(q) = s
  BY <1>4, <1>8, <1>10 DEF At, Situation
<1>13. Rooted(q, n)
  BY <1>8, <1>10, <1>11 DEF Rooted
<1>14. AtEach(q, tb, n)
  <2>1. ASSUME NEW i \in 1 .. n PROVE At(tb[i], q.states[i], q.castling, q.chess960)
    <3>1. i \in 1 .. n + 1
      OBVIOUS
    <3>2. At(tr[i], p.states[i], p.castling, p.chess960)
      BY <1>1, <3>1 DEF AtEach
    <3>. QED
      BY <1>3, <1>8, <1>9, <3>1, <3>2
  <2>. QED
    BY <2>1 DEF AtEach
<1>15. ASSUME NEW i \in 1 .. n PROVE Link(tr[i], pa[i], tr[i + 1], p.states[i + 1].capturedPiece)
  <2>1. i \in 1 .. (n + 1) - 1
    OBVIOUS
  <2>. QED
    BY <1>1, <2>1 DEF LinkEach
<1>16. LinkEach(q, pb, tb, n)
  <2>1. ASSUME NEW i \in 1 .. n - 1 PROVE Link(tb[i], pb[i], tb[i + 1], q.states[i + 1].capturedPiece)
    <3>1. i \in 1 .. n /\ i + 1 \in 1 .. n /\ i + 1 \in 1 .. n + 1
      OBVIOUS
    <3>. QED
      BY <1>3, <1>9, <1>15, <3>1
  <2>. QED
    BY <2>1 DEF LinkEach
<1>17. LinkLast(q, pb, tb, n)
  <2>. SUFFICES ASSUME n > 0 PROVE Link(tb[n], pb[n], Situation(q), St(q).capturedPiece)
    BY DEF LinkLast
  <2>1. n \in 1 .. n
    OBVIOUS
  <2>2. Link(tr[n], pa[n], tr[n + 1], p.states[n + 1].capturedPiece)
    BY <1>15, <2>1
  <2>. QED
    BY <1>3, <1>10, <1>12, <2>1, <2>2 DEF s
<1>18. Walked(q, pb, tb, n)
  BY <1>3, <1>13, <1>14, <1>16, <1>17 DEF Walked
<1>. QED
  BY <1>3, <1>12, <1>18 DEF q, m, pb, tb

-------------------------------------------------------------------------------
(***************************************************************************)
(* The theorems.                                                           *)
(***************************************************************************)
(* The inductive invariant: the walk from the root to this node.           *)
IInv == Walked(pos, path, trail, Len(path))

(* The empty walk.                                                         *)
LEMMA Rootless == IsSeq(<< >>, 0)
<1>1. Len(<< >>) = 0 /\ << >> \in Seq({<< >>[i] : i \in 1 .. 0})
  OBVIOUS
<1>. QED
  BY <1>1 DEF IsSeq

(* The walk begins in a sound position, whatever FEN it starts from.       *)
LEMMA Begins ==
  Init => IInv
<1>. SUFFICES ASSUME Init PROVE IInv
  OBVIOUS
<1>1. Accepted(scene.fen) /\ pos = set(scene.fen) /\ path = << >> /\ trail = << >> /\ scene \in Scenes
  BY DEF Init
<1>2. Readable(scene.fen)
  BY <1>1, ScenesAssumption
<1>3. /\ IsPosition(pos) /\ IsSeq(pos.states, 1) /\ pos.states[1] = St(pos) /\ Sound(pos)
  BY <1>1, <1>2, SetSound
<1>4. Rooted(pos, 0)
  BY <1>3 DEF Rooted
<1>5. Len(path) = 0 /\ IsSeq(path, 0) /\ IsSeq(trail, 0)
  BY <1>1, Rootless
<1>6. AtEach(pos, trail, 0) /\ LinkEach(pos, path, trail, 0) /\ LinkLast(pos, path, trail, 0)
  BY DEF AtEach, LinkEach, LinkLast
<1>. QED
  BY <1>4, <1>5, <1>6 DEF IInv, Walked

(* A walk is as long as its path.                                          *)
LEMMA PathLength ==
  ASSUME NEW p, NEW pa, NEW tr, NEW n, Walked(p, pa, tr, n)
  PROVE  Len(pa) = n /\ n \in Nat
BY DEF Walked, IsSeq

(* Taking a move back.                                                     *)
LEMMA OneBack ==
  ASSUME IInv, UndoMove
  PROVE  IInv' /\ Situation(pos)' = Last(trail)
<1>. DEFINE n == Len(path)
<1>1. path # << >> /\ pos' = Undone(pos, Last(path)) /\ path' = Front(path) /\ trail' = Front(trail)
  BY DEF UndoMove
<1>2. n \in Nat /\ IsSeq(path, n) /\ Walked(pos, path, trail, n)
  BY DEF IInv, Walked, IsSeq
<1>3. n # 0
  BY <1>1, <1>2 DEF IsSeq
<1>4. n - 1 \in Nat /\ (n - 1) + 1 = n
  BY <1>2, <1>3
<1>5. Walked(pos, path, trail, (n - 1) + 1)
  BY <1>2, <1>4
<1>6. Walked(pos', path', trail', n - 1) /\ Situation(pos') = Last(trail)
  BY <1>1, <1>4, <1>5, WalksBack
<1>7. Len(path') = n - 1
  BY <1>6, PathLength
<1>. QED
  BY <1>6, <1>7 DEF IInv, Situation, St

(* Every step preserves the inductive invariant.                           *)
LEMMA Goes ==
  IInv /\ [Next]_vars => IInv'
<1>. SUFFICES ASSUME IInv, [Next]_vars PROVE IInv'
  OBVIOUS
<1>1. Walked(pos, path, trail, Len(path))
  BY DEF IInv
<1>2. ASSUME NEW m \in LegalList(pos), DoMove(m) PROVE IInv'
  <2>1. Walked(pos', path', trail', Len(path) + 1)
    BY <1>1, <1>2, WalksOn DEF DoMove
  <2>2. Len(path') = Len(path) + 1
    BY <2>1, PathLength
  <2>. QED
    BY <2>1, <2>2 DEF IInv
<1>3. CASE DoNullMove
  <2>1. Walked(pos', path', trail', Len(path) + 1)
    BY <1>1, <1>3, WalksOnNull DEF DoNullMove
  <2>2. Len(path') = Len(path) + 1
    BY <2>1, PathLength
  <2>. QED
    BY <2>1, <2>2 DEF IInv
<1>4. CASE UndoMove
  BY <1>4, OneBack
<1>5. CASE UNCHANGED vars
  BY <1>1, <1>5 DEF IInv, vars
<1>. QED
  BY <1>2, <1>3, <1>4, <1>5 DEF Next

(* The inductive invariant holds at every node of the walk.                *)
LEMMA Invariance == Spec => []IInv
<1>. QED
  BY Begins, Goes, PTL DEF Spec

(* What the invariant says of the position on the board.                   *)
LEMMA StandsThere ==
  ASSUME IInv
  PROVE  /\ Sound(pos) /\ IsPosition(pos) /\ IsSeq(pos.states, Len(path) + 1) /\ Len(path) \in Nat
         /\ pos.states[Len(path) + 1] = St(pos) /\ AtEach(pos, trail, Len(path))
BY DEF IInv, Walked, Rooted

(* The inductive invariant implies the type invariant.                     *)
LEMMA Typed == IInv => TypeOK
<1>. SUFFICES ASSUME IInv PROVE TypeOK
  OBVIOUS
<1>. DEFINE n == Len(path)
            states == pos.states
<1>1. Sound(pos) /\ n \in Nat /\ IsSeq(states, n + 1) /\ states[n + 1] = St(pos) /\ AtEach(pos, trail, n)
  BY StandsThere
<1>2. IsBoard(pos.board) /\ pos.sideToMove \in Color
  BY <1>1 DEF Sound, Level
<1>3. Len(states) = n + 1 /\ DOMAIN states = 1 .. n + 1
  BY <1>1 DEF IsSeq
<1>4. ASSUME NEW b, NEW us, NEW st, NEW cas, NEW c960, Level(b, us, st, cas, c960)
      PROVE  st.epSquare \in Square \cup {SQ_NONE}
  BY <1>4 DEF Level, EpSound
<1>5. ASSUME NEW i \in 1 .. n + 1 PROVE states[i].epSquare \in Square \cup {SQ_NONE}
  <2>1. CASE i = n + 1
    BY <1>1, <1>4, <2>1 DEF Sound
  <2>2. CASE i # n + 1
    <3>1. i \in 1 .. n
      BY <1>1, <2>2
    <3>2. At(trail[i], states[i], pos.castling, pos.chess960)
      BY <1>1, <3>1 DEF AtEach
    <3>. QED
      BY <1>4, <3>2 DEF At
  <2>. QED
    BY <2>1, <2>2
<1>. HIDE DEF states
<1>6. \A i \in DOMAIN states : states[i].epSquare \in Square \cup {SQ_NONE}
  BY <1>3, <1>5
<1>. QED
  BY <1>2, <1>3, <1>6 DEF TypeOK, IsBoard, states

(* At every node of every walk, whatever the scenes: the board holds       *)
(* pieces on squares, there is one state for the root and one for each     *)
(* move made, and every en passant square is a square or none (set,        *)
(* do_move, do_null_move and the functions that undo them).                *)
THEOREM TypeCorrect == Spec => []TypeOK
<1>. QED
  BY Invariance, Typed, PTL

(* The inductive invariant implies that kept and computed state agree.     *)
LEMMA Agrees == IInv => StateAgrees
<1>. SUFFICES ASSUME IInv PROVE StateAgrees
  OBVIOUS
<1>1. Sound(pos) /\ IsPosition(pos) /\ IsSeq(pos.states, Len(path) + 1)
  BY StandsThere
<1>. DEFINE b == pos.board
            us == pos.sideToMove
            st == St(pos)
<1>2. KeysAgree(b, us, st) /\ ChecksAgree(b, us, st)
  BY <1>1 DEF Sound, Level
<1>3. \A k \in Kept : st[k] = Fresh[k]
  <2>. HIDE DEF b, us, st
  <2>1. Fresh = set_state(b, us, st.castlingRights, st.epSquare, st.rule50)
    BY DEF Fresh, b, us, st
  <2>2. /\ st.materialKey = Fresh.materialKey /\ st.pawnKey = Fresh.pawnKey
        /\ st.minorPieceKey = Fresh.minorPieceKey /\ st.nonPawnKey = Fresh.nonPawnKey
        /\ st.nonPawnMaterial = Fresh.nonPawnMaterial /\ st.key = Fresh.key
    BY <1>2, <2>1 DEF KeysAgree, set_state
  <2>3. /\ st.checkersBB = Fresh.checkersBB /\ st.blockersForKing = Fresh.blockersForKing
        /\ st.pinners = Fresh.pinners /\ st.checkSquares = Fresh.checkSquares
    BY <1>2, <2>1 DEF ChecksAgree, set_state
  <2>. QED
    BY <2>2, <2>3 DEF Kept
<1>4. ASSUME NEW m \in LegalList(pos) PROVE Prefetched(m)
  <2>. DEFINE q == After(m)
  <2>1. q = do_move(pos, m, gives_check(pos, m))
    BY DEF After
  <2>. HIDE DEF q
  <2>2. ASSUME m.type = "normal", st.epSquare = SQ_NONE, St(q).epSquare = SQ_NONE,
               St(q).castlingRights = st.castlingRights
        PROVE  prefetch_key(pos, m) = key(q)
    BY <1>1, <2>1, <2>2, KeyPrefetched
  <2>. QED
    BY <2>2 DEF Prefetched, q
<1>. QED
  BY <1>3, <1>4 DEF StateAgrees

(* What do_move and do_null_move keep up to date, keys, material,          *)
(* checkers, pins and check squares, is at every node what set_state       *)
(* computes from the board; and prefetch_key foresees the key of every     *)
(* legal move it is meant for.                                             *)
THEOREM StateStaysTrue == Spec => []StateAgrees
<1>. QED
  BY Invariance, Agrees, PTL

(* Taking a move back leaves the situation before it.                      *)
TakesBack == [][UndoMove => Situation(pos)' = Last(trail)]_vars

(* undo_move and undo_null_move leave the board, the side to move, the     *)
(* castling rights and the en passant square that were there before the    *)
(* move.                                                                   *)
THEOREM MovesAreTakenBack == Spec => TakesBack
<1>1. IInv /\ [Next]_vars => [UndoMove => Situation(pos)' = Last(trail)]_vars
  BY OneBack
<1>. QED
  BY <1>1, Invariance, PTL DEF Spec, TakesBack
=================================================================================
