----------------------------- MODULE ChessProofs -----------------------------
(***************************************************************************)
(* GameTree implements Chess: for every scene and every walk, making and   *)
(* unmaking moves plays chess by its rules.                                *)
(*                                                                         *)
(* The rules know no bitboards: a piece hits a square if the files and     *)
(* ranks between them fit and nothing is in between.  In this order: the   *)
(* tables say the same; so do the moves that are generated; what legal     *)
(* lets through is safe by the rules; the board, the castling rights and   *)
(* the en passant square after do_move are those of the rules, for which   *)
(* blockers and pins tell exactly when that square counts; and each step   *)
(* of the walk is a step of the rules.                                     *)
(*                                                                         *)
(* The way back shows that no move is missed: one that is safe by the      *)
(* rules answers every check and leaves no pinned piece's line, so it is   *)
(* generated and legal lets it through; the same holds of moves from the   *)
(* hash table.                                                             *)
(***************************************************************************)
EXTENDS GameTreeProofs

-------------------------------------------------------------------------------
(***************************************************************************)
(* The rules of Chess: attacks.                                            *)
(***************************************************************************)
(* The rules and the code name squares, pieces, ranks and castling squares *)
(* alike.                                                                  *)
LEMMA RulesSpeak ==
  /\ \A s : Rules!file_of(s) = F(s) /\ Rules!rank_of(s) = R(s)
  /\ \A pc : Rules!type_of(pc) = type_of(pc) /\ Rules!color_of(pc) = color_of(pc)
  /\ \A c, pt : Rules!make_piece(c, pt) = make_piece(c, pt)
  /\ \A c : Rules!Them(c) = Them(c) /\ Rules!pawn_push(c) = pawn_push(c) /\ Rules!CastlingOf(c) = CastlingOf(c)
  /\ \A c, s : Rules!relative_rank(c, s) = relative_rank(c, s)
  /\ \A cr : Rules!KingTarget(cr) = KingTarget(cr) /\ Rules!RookTarget(cr) = RookTarget(cr)
             /\ Rules!CastlingColor(cr) = CastlingColor(cr)
  /\ \A n : Rules!Abs(n) = IF n < 0 THEN -n ELSE n
  /\ Rules!Square = Square /\ Rules!SQ_NONE = SQ_NONE /\ Rules!WHITE = WHITE
  /\ Rules!PAWN = PAWN /\ Rules!KNIGHT = KNIGHT /\ Rules!BISHOP = BISHOP /\ Rules!ROOK = ROOK
  /\ Rules!QUEEN = QUEEN /\ Rules!KING = KING
<1>1. \A s : Rules!file_of(s) = F(s) /\ Rules!rank_of(s) = R(s)
  BY DEF Rules!file_of, Rules!rank_of, F, R, file_of, rank_of
<1>2. \A pc : Rules!type_of(pc) = type_of(pc) /\ Rules!color_of(pc) = color_of(pc)
  BY DEF Rules!type_of, Rules!color_of, type_of, color_of
<1>3. \A c, pt : Rules!make_piece(c, pt) = make_piece(c, pt)
  BY DEF Rules!make_piece, make_piece
<1>4. \A c : Rules!Them(c) = Them(c) /\ Rules!pawn_push(c) = pawn_push(c) /\ Rules!CastlingOf(c) = CastlingOf(c)
  BY DEF Rules!Them, Rules!pawn_push, Rules!CastlingOf, Rules!WHITE, Them, pawn_push, CastlingOf, WHITE
<1>5. \A c, s : Rules!relative_rank(c, s) = relative_rank(c, s)
  BY DEF Rules!relative_rank, Rules!rank_of, Rules!WHITE, relative_rank, rank_of, WHITE
<1>6. \A cr : Rules!CastlingColor(cr) = CastlingColor(cr)
  BY DEF Rules!CastlingColor, Rules!WHITE, Rules!BLACK, CastlingColor, WHITE, BLACK
<1>7. \A c, s : Rules!relative_square(c, s) = relative_square(c, s)
  <2>1. \A f, r : Rules!make_square(f, r) = make_square(f, r)
    BY DEF Rules!make_square, make_square
  <2>. QED
    BY <1>1, <1>5, <2>1 DEF Rules!relative_square, relative_square, F
<1>8. \A cr : Rules!KingTarget(cr) = KingTarget(cr) /\ Rules!RookTarget(cr) = RookTarget(cr)
  BY <1>6, <1>7 DEF Rules!KingTarget, Rules!RookTarget, Rules!KING_SIDE, KingTarget, RookTarget, KING_SIDE
<1>9. \A n : Rules!Abs(n) = IF n < 0 THEN -n ELSE n
  BY DEF Rules!Abs
<1>10. /\ Rules!Square = Square /\ Rules!SQ_NONE = SQ_NONE /\ Rules!WHITE = WHITE
       /\ Rules!PAWN = PAWN /\ Rules!KNIGHT = KNIGHT /\ Rules!BISHOP = BISHOP /\ Rules!ROOK = ROOK
       /\ Rules!QUEEN = QUEEN /\ Rules!KING = KING
  BY DEF Rules!Square, Rules!SQ_NONE, Rules!WHITE, Rules!PAWN, Rules!KNIGHT, Rules!BISHOP, Rules!ROOK, Rules!QUEEN,
         Rules!KING, Square, SQ_NONE, WHITE, PAWN, KNIGHT, BISHOP, ROOK, QUEEN, KING
<1>. QED
  BY <1>1, <1>2, <1>3, <1>4, <1>5, <1>6, <1>8, <1>9, <1>10

(* The files and ranks from s to t; how many they are.                     *)
Apart(s, t, df, dr) == df = F(t) - F(s) /\ dr = R(t) - R(s) /\ df \in -7 .. 7 /\ dr \in -7 .. 7
Size(n) == IF n < 0 THEN -n ELSE n
(* Two squares are at most seven files and seven ranks apart.              *)
LEMMA ApartIs ==
  ASSUME NEW s \in Square, NEW t \in Square
  PROVE  \E df, dr : Apart(s, t, df, dr)
<1>1. F(s) \in 0 .. 7 /\ R(s) \in 0 .. 7 /\ F(t) \in 0 .. 7 /\ R(t) \in 0 .. 7
  BY Coordinates
<1>2. F(t) - F(s) \in -7 .. 7 /\ R(t) - R(s) \in -7 .. 7
  BY <1>1
<1>. QED
  BY <1>2 DEF Apart

(* The measures of the rules, by files and ranks.                          *)
LEMMA RulesApart ==
  ASSUME NEW s, NEW t, NEW df, NEW dr, Apart(s, t, df, dr)
  PROVE  /\ Rules!Files(s, t) = df /\ Rules!Ranks(s, t) = dr
         /\ Rules!Abs(Rules!Files(s, t)) = Size(df) /\ Rules!Abs(Rules!Ranks(s, t)) = Size(dr)
         /\ Rules!Straight(s, t) <=> df = 0 \/ dr = 0
         /\ Rules!Diagonal(s, t) <=> Size(df) = Size(dr)
         /\ Rules!Distance(s, t) = IF Size(df) < Size(dr) THEN Size(dr) ELSE Size(df)
         /\ Rules!Sign(Rules!Files(s, t)) = (IF df < 0 THEN -1 ELSE IF df > 0 THEN 1 ELSE 0)
         /\ Rules!Sign(Rules!Ranks(s, t)) = (IF dr < 0 THEN -1 ELSE IF dr > 0 THEN 1 ELSE 0)
<1>1. Rules!Files(s, t) = df /\ Rules!Ranks(s, t) = dr
  BY RulesSpeak DEF Rules!Files, Rules!Ranks, Apart
<1>2. Rules!Abs(Rules!Files(s, t)) = Size(df) /\ Rules!Abs(Rules!Ranks(s, t)) = Size(dr)
  BY <1>1, RulesSpeak DEF Size
<1>3. /\ Rules!Straight(s, t) <=> df = 0 \/ dr = 0
      /\ Rules!Diagonal(s, t) <=> Size(df) = Size(dr)
      /\ Rules!Distance(s, t) = IF Size(df) < Size(dr) THEN Size(dr) ELSE Size(df)
  BY <1>1, <1>2 DEF Rules!Straight, Rules!Diagonal, Rules!Distance
<1>4. /\ Rules!Sign(Rules!Files(s, t)) = (IF df < 0 THEN -1 ELSE IF df > 0 THEN 1 ELSE 0)
      /\ Rules!Sign(Rules!Ranks(s, t)) = (IF dr < 0 THEN -1 ELSE IF dr > 0 THEN 1 ELSE 0)
  BY <1>1 DEF Rules!Sign
<1>. QED
  BY <1>1, <1>2, <1>3, <1>4

(* n steps in direction d, by files and ranks.                             *)
Stretch(d, n, df, dr) ==
  /\ n \in 1 .. 7
  /\ \/ d = 1 /\ df = n /\ dr = 0
     \/ d = -1 /\ df = -n /\ dr = 0
     \/ d = 8 /\ df = 0 /\ dr = n
     \/ d = -8 /\ df = 0 /\ dr = -n
     \/ d = 9 /\ df = n /\ dr = n
     \/ d = -9 /\ df = -n /\ dr = -n
     \/ d = 7 /\ df = -n /\ dr = n
     \/ d = -7 /\ df = n /\ dr = -n
(* Being n steps away in a direction, by files and ranks.                  *)
LEMMA TowardApart ==
  ASSUME NEW s \in Square, NEW t \in Square, NEW df, NEW dr, Apart(s, t, df, dr)
  PROVE  /\ \A d, n : Toward(s, d, n, t)
              => /\ n \in 1 .. 7 /\ n = IF Size(df) < Size(dr) THEN Size(dr) ELSE Size(df)
                 /\ d = (IF df < 0 THEN -1 ELSE IF df > 0 THEN 1 ELSE 0)
                          + 8 * (IF dr < 0 THEN -1 ELSE IF dr > 0 THEN 1 ELSE 0)
         /\ (\E d \in {1, -1, 8, -8}, n \in 1 .. 7 : Toward(s, d, n, t)) <=> s # t /\ (df = 0 \/ dr = 0)
         /\ (\E d \in {9, -9, 7, -7}, n \in 1 .. 7 : Toward(s, d, n, t)) <=> s # t /\ Size(df) = Size(dr)
<1>1. /\ F(s) \in 0 .. 7 /\ R(s) \in 0 .. 7 /\ F(t) \in 0 .. 7 /\ R(t) \in 0 .. 7
      /\ df = F(t) - F(s) /\ dr = R(t) - R(s)
  BY Coordinates DEF Apart
<1>2. s = t <=> df = 0 /\ dr = 0
  BY <1>1, Same
<1>6. ASSUME NEW d, NEW n, Toward(s, d, n, t)
      PROVE  Stretch(d, n, df, dr)
  <2>1. F(t) = F(s) + df /\ R(t) = R(s) + dr /\ F(s) \in Int /\ R(s) \in Int /\ df \in Int /\ dr \in Int
    BY <1>1
  <2>2. n \in 1 .. 7
    BY <1>6 DEF Toward
  <2>3. n \in Int
    BY <2>2
  <2>. QED
    BY <1>6, <2>1, <2>2, <2>3 DEF Toward, Stretch
<1>7. df \in Int /\ dr \in Int
  BY <1>1
<1>3. ASSUME NEW d, NEW n, Toward(s, d, n, t)
      PROVE  /\ n \in 1 .. 7 /\ n = IF Size(df) < Size(dr) THEN Size(dr) ELSE Size(df)
             /\ d = (IF df < 0 THEN -1 ELSE IF df > 0 THEN 1 ELSE 0)
                      + 8 * (IF dr < 0 THEN -1 ELSE IF dr > 0 THEN 1 ELSE 0)
  BY <1>3, <1>6, <1>7 DEF Stretch, Size
<1>4. (\E d \in {1, -1, 8, -8}, n \in 1 .. 7 : Toward(s, d, n, t)) <=> s # t /\ (df = 0 \/ dr = 0)
  <2>1. ASSUME NEW d \in {1, -1, 8, -8}, NEW n, Toward(s, d, n, t)
        PROVE  s # t /\ (df = 0 \/ dr = 0)
    BY <1>2, <1>6, <1>7, <2>1 DEF Stretch
  <2>2. ASSUME s # t, df = 0 \/ dr = 0
        PROVE  \E d \in {1, -1, 8, -8}, n \in 1 .. 7 : Toward(s, d, n, t)
    <3>1. CASE df = 0 /\ dr > 0
      <4>1. Toward(s, 8, dr, t) /\ dr \in 1 .. 7
        BY <1>1, <3>1 DEF Toward
      <4>. QED
        BY <4>1
    <3>2. CASE df = 0 /\ dr < 0
      <4>1. Toward(s, -8, -dr, t) /\ -dr \in 1 .. 7
        BY <1>1, <3>2 DEF Toward
      <4>. QED
        BY <4>1
    <3>3. CASE dr = 0 /\ df > 0
      <4>1. Toward(s, 1, df, t) /\ df \in 1 .. 7
        BY <1>1, <3>3 DEF Toward
      <4>. QED
        BY <4>1
    <3>4. CASE dr = 0 /\ df < 0
      <4>1. Toward(s, -1, -df, t) /\ -df \in 1 .. 7
        BY <1>1, <3>4 DEF Toward
      <4>. QED
        BY <4>1
    <3>. QED
      BY <1>1, <1>2, <2>2, <3>1, <3>2, <3>3, <3>4
  <2>. QED
    BY <2>1, <2>2
<1>5. (\E d \in {9, -9, 7, -7}, n \in 1 .. 7 : Toward(s, d, n, t)) <=> s # t /\ Size(df) = Size(dr)
  <2>1. ASSUME NEW d \in {9, -9, 7, -7}, NEW n, Toward(s, d, n, t)
        PROVE  s # t /\ Size(df) = Size(dr)
    BY <1>2, <1>6, <1>7, <2>1 DEF Stretch, Size
  <2>2. ASSUME s # t, Size(df) = Size(dr)
        PROVE  \E d \in {9, -9, 7, -7}, n \in 1 .. 7 : Toward(s, d, n, t)
    <3>1. CASE df > 0 /\ dr > 0
      <4>1. Toward(s, 9, dr, t) /\ dr \in 1 .. 7
        BY <1>1, <2>2, <3>1 DEF Toward, Size
      <4>. QED
        BY <4>1
    <3>2. CASE df < 0 /\ dr < 0
      <4>1. Toward(s, -9, -dr, t) /\ -dr \in 1 .. 7
        BY <1>1, <2>2, <3>2 DEF Toward, Size
      <4>. QED
        BY <4>1
    <3>3. CASE df < 0 /\ dr > 0
      <4>1. Toward(s, 7, dr, t) /\ dr \in 1 .. 7
        BY <1>1, <2>2, <3>3 DEF Toward, Size
      <4>. QED
        BY <4>1
    <3>4. CASE df > 0 /\ dr < 0
      <4>1. Toward(s, -7, -dr, t) /\ -dr \in 1 .. 7
        BY <1>1, <2>2, <3>4 DEF Toward, Size
      <4>. QED
        BY <4>1
    <3>5. df # 0 /\ dr # 0
      BY <1>1, <1>2, <2>2 DEF Size
    <3>. QED
      BY <1>1, <3>1, <3>2, <3>3, <3>4, <3>5
  <2>. QED
    BY <2>1, <2>2
<1>. QED
  BY <1>3, <1>4, <1>5

(* A way is clear by the rules if nothing is between.                      *)
LEMMA RulesClear ==
  ASSUME NEW b, NEW s \in Square, NEW t \in Square, NEW d \in KingSteps, NEW n, Toward(s, d, n, t)
  PROVE  Rules!Clear(b, s, t) <=> Clear(s, t, DOMAIN b)
<1>1. n \in 1 .. 7
  BY DEF Toward
<1>2. PICK df, dr : Apart(s, t, df, dr)
  BY ApartIs
<1>3. /\ n = (IF Size(df) < Size(dr) THEN Size(dr) ELSE Size(df))
      /\ d = (IF df < 0 THEN -1 ELSE IF df > 0 THEN 1 ELSE 0) + 8 * (IF dr < 0 THEN -1 ELSE IF dr > 0 THEN 1 ELSE 0)
  BY <1>2, TowardApart
<1>4. /\ Rules!Distance(s, t) = (IF Size(df) < Size(dr) THEN Size(dr) ELSE Size(df))
      /\ Rules!Sign(Rules!Files(s, t)) = (IF df < 0 THEN -1 ELSE IF df > 0 THEN 1 ELSE 0)
      /\ Rules!Sign(Rules!Ranks(s, t)) = (IF dr < 0 THEN -1 ELSE IF dr > 0 THEN 1 ELSE 0)
  BY <1>2, RulesApart
<1>5. Rules!Distance(s, t) = n /\ d = Rules!Sign(Rules!Files(s, t)) + 8 * Rules!Sign(Rules!Ranks(s, t))
  BY <1>3, <1>4
<1>6. Rules!Clear(b, s, t) <=> \A i \in 1 .. n - 1 : s + i * d \notin DOMAIN b
  BY <1>5 DEF Rules!Clear
<1>7. \A i \in 1 .. n - 1 : i \in 1 .. 7 /\ i \in 1 .. n /\ i < n
  BY <1>1
<1>8. \A i \in 1 .. n - 1 : s + i * d \in Square /\ Toward(s, d, i, s + i * d)
  <2>. TAKE i \in 1 .. n - 1
  <2>1. PICK u \in Square : Toward(s, d, i, u)
    BY <1>1, <1>7, StepBefore
  <2>2. u = s + i * d
    BY <1>7, <2>1, Lands
  <2>. QED
    BY <2>1, <2>2
<1>9. \A x \in Square : Inside(s, t, x) <=> \E j \in 1 .. 7 : j < n /\ Toward(s, d, j, x)
  BY InsideWay
<1>10. \A x \in Square : \A j \in 1 .. 7 : Toward(s, d, j, x) => x = s + j * d
  BY Lands
<1>11. \A j \in 1 .. 7 : j < n => j \in 1 .. n - 1
  BY <1>1
<1>12. ASSUME Clear(s, t, DOMAIN b), NEW i \in 1 .. n - 1
       PROVE  s + i * d \notin DOMAIN b
  <2>1. Inside(s, t, s + i * d)
    BY <1>7, <1>8, <1>9
  <2>. QED
    BY <1>8, <1>12, <2>1 DEF Clear
<1>13. ASSUME \A i \in 1 .. n - 1 : s + i * d \notin DOMAIN b, NEW x \in Square, Inside(s, t, x)
       PROVE  x \notin DOMAIN b
  <2>1. PICK j \in 1 .. 7 : j < n /\ Toward(s, d, j, x)
    BY <1>9, <1>13
  <2>2. x = s + j * d /\ j \in 1 .. n - 1
    BY <1>10, <1>11, <2>1
  <2>. QED
    BY <1>13, <2>2
<1>. QED
  BY <1>6, <1>12, <1>13 DEF Clear

(* A piece hits by the rules what it attacks by the tables.                *)
LEMMA RulesHits ==
  ASSUME NEW b, IsBoard(b), NEW s \in DOMAIN b, NEW t \in Square
  PROVE  Rules!Hits(b, s, t) <=> Hits(b, DOMAIN b, s, t)
<1>1. s \in Square /\ b[s] \in Piece
  BY DEF IsBoard
<1>2. PICK df, dr : Apart(s, t, df, dr)
  BY <1>1, ApartIs
<1>3. /\ df = F(t) - F(s) /\ dr = R(t) - R(s) /\ df \in Int /\ dr \in Int
  BY <1>2 DEF Apart
<1>4. /\ Rules!Files(s, t) = df /\ Rules!Ranks(s, t) = dr
      /\ Rules!Abs(Rules!Files(s, t)) = Size(df) /\ Rules!Abs(Rules!Ranks(s, t)) = Size(dr)
      /\ Rules!Straight(s, t) <=> df = 0 \/ dr = 0
      /\ Rules!Diagonal(s, t) <=> Size(df) = Size(dr)
      /\ Rules!Distance(s, t) = IF Size(df) < Size(dr) THEN Size(dr) ELSE Size(df)
  BY <1>2, RulesApart
<1>5. s # t <=> ~(df = 0 /\ dr = 0)
  <2>1. F(s) \in Int /\ R(s) \in Int /\ F(t) \in Int /\ R(t) \in Int
    BY <1>1, Coordinates
  <2>2. F(s) = F(t) /\ R(s) = R(t) => s = t
    BY <1>1, Same
  <2>. QED
    BY <1>3, <2>1, <2>2
<1>6. Size(df) \in Nat /\ Size(dr) \in Nat
  BY <1>3 DEF Size
<1>7. Strikes(color_of(b[s]), s, t)
        <=> s # t /\ Size(df) = 1 /\ dr = IF color_of(b[s]) = WHITE THEN 1 ELSE -1
  BY <1>3, <1>5 DEF Strikes, Size
<1>8. Jumps(s, t) <=> s # t /\ {Size(df), Size(dr)} = {1, 2}
  <2>1. {Size(df), Size(dr)} = {1, 2} <=> (Size(df) = 1 /\ Size(dr) = 2) \/ (Size(df) = 2 /\ Size(dr) = 1)
    BY <1>6
  <2>2. \A n \in Int : (Size(n) = 1 <=> n \in {-1, 1}) /\ (Size(n) = 2 <=> n \in {-2, 2})
    BY DEF Size
  <2>. QED
    BY <1>3, <1>5, <2>1, <2>2 DEF Jumps
<1>9. Near(s, t) <=> s # t /\ (IF Size(df) < Size(dr) THEN Size(dr) ELSE Size(df)) = 1
  BY <1>3, <1>5 DEF Near, Size
<1>10. /\ Aligned(ROOK, s, t) <=> s # t /\ (df = 0 \/ dr = 0)
       /\ Aligned(BISHOP, s, t) <=> s # t /\ Size(df) = Size(dr)
  BY <1>1, <1>2, TowardApart, Directions DEF Aligned
<1>11. Aligned(QUEEN, s, t) <=> Aligned(ROOK, s, t) \/ Aligned(BISHOP, s, t)
  BY QueenAligned
<1>12. \A pt : Aligned(pt, s, t) => (Rules!Clear(b, s, t) <=> Clear(s, t, DOMAIN b))
  <2>. SUFFICES ASSUME NEW pt, Aligned(pt, s, t)
                PROVE  Rules!Clear(b, s, t) <=> Clear(s, t, DOMAIN b)
    OBVIOUS
  <2>1. PICK d \in KingSteps, n \in 1 .. 7 : Toward(s, d, n, t)
    BY Directions DEF Aligned
  <2>. QED
    BY <1>1, <2>1, RulesClear
<1>13. /\ Rules!type_of(b[s]) = type_of(b[s]) /\ Rules!color_of(b[s]) = color_of(b[s]) /\ Rules!WHITE = WHITE
       /\ Rules!PAWN = PAWN /\ Rules!KNIGHT = KNIGHT /\ Rules!BISHOP = BISHOP /\ Rules!ROOK = ROOK
       /\ Rules!QUEEN = QUEEN /\ Rules!KING = KING
  BY RulesSpeak
<1>. DEFINE pt == type_of(b[s])
<1>14. Rules!Hits(b, s, t)
         <=> /\ s # t
             /\ \/ pt = PAWN /\ Size(df) = 1 /\ dr = IF color_of(b[s]) = WHITE THEN 1 ELSE -1
                \/ pt = KNIGHT /\ {Size(df), Size(dr)} = {1, 2}
                \/ pt = KING /\ (IF Size(df) < Size(dr) THEN Size(dr) ELSE Size(df)) = 1
                \/ pt \in {ROOK, QUEEN} /\ (df = 0 \/ dr = 0) /\ Rules!Clear(b, s, t)
                \/ pt \in {BISHOP, QUEEN} /\ Size(df) = Size(dr) /\ Rules!Clear(b, s, t)
  BY <1>4, <1>13 DEF Rules!Hits
<1>15. Hits(b, DOMAIN b, s, t)
         <=> \/ pt = PAWN /\ Strikes(color_of(b[s]), s, t)
             \/ pt = KNIGHT /\ Jumps(s, t)
             \/ pt = KING /\ Near(s, t)
             \/ pt \in {BISHOP, ROOK, QUEEN} /\ Aligned(pt, s, t) /\ Clear(s, t, DOMAIN b)
  BY DEF Hits
<1>. HIDE DEF pt
<1>16. pt \in {BISHOP, ROOK, QUEEN} /\ Aligned(pt, s, t) /\ Clear(s, t, DOMAIN b)
         <=> \/ pt \in {ROOK, QUEEN} /\ Aligned(ROOK, s, t) /\ Rules!Clear(b, s, t)
             \/ pt \in {BISHOP, QUEEN} /\ Aligned(BISHOP, s, t) /\ Rules!Clear(b, s, t)
  BY <1>11, <1>12, TypesDiffer
<1>. QED
  BY <1>7, <1>8, <1>9, <1>10, <1>14, <1>15, <1>16

-------------------------------------------------------------------------------
(***************************************************************************)
(* The rules: checks, and the kinds of moves.                              *)
(***************************************************************************)
(* So do all that attack a square.                                         *)
LEMMA RulesAttackers ==
  ASSUME NEW b, IsBoard(b), NEW t \in Square, NEW c
  PROVE  /\ \A x : x \in Rules!Attackers(b, t, c) <=> x \in DOMAIN b /\ color_of(b[x]) = c /\ Hits(b, DOMAIN b, x, t)
         /\ Rules!Attackers(b, t, c) # {} <=> Attacked(b, DOMAIN b, c, t)
<1>1. \A x : x \in Rules!Attackers(b, t, c) <=> x \in DOMAIN b /\ color_of(b[x]) = c /\ Rules!Hits(b, x, t)
  BY RulesSpeak DEF Rules!Attackers, Rules!Of
<1>2. \A x \in DOMAIN b : Rules!Hits(b, x, t) <=> Hits(b, DOMAIN b, x, t)
  BY RulesHits
<1>. QED
  BY <1>1, <1>2 DEF Attacked

(* In check by the rules: the king is attacked.                            *)
LEMMA RulesCheck ==
  ASSUME NEW b, IsBoard(b), NEW c, NEW k, KingAt(b, c, k)
  PROVE  Rules!KingOf(b, c) = k /\ (Rules!InCheck(b, c) <=> Attacked(b, DOMAIN b, Them(c), k))
<1>1. Rules!KingOf(b, c) = k
  <2>1. square(b, c) = k
    BY KingSquare
  <2>2. Rules!make_piece(c, Rules!KING) = make_piece(c, KING)
    BY RulesSpeak
  <2>. QED
    BY <2>1, <2>2 DEF Rules!KingOf, square
<1>2. k \in Square
  BY DEF KingAt, IsBoard
<1>3. Rules!Them(c) = Them(c)
  BY RulesSpeak
<1>. QED
  BY <1>1, <1>2, <1>3, RulesAttackers DEF Rules!InCheck

(* A move has a start, an end, a type and a promotion.                     *)
IsMove(m) == m = [from |-> m.from, to |-> m.to, type |-> m.type, promo |-> m.promo]
(* The constructors of moves make moves.                                   *)
LEMMA MoveKinds ==
  /\ \A s, t : IsMove(Normal(s, t)) /\ IsMove(EnPassant(s, t)) /\ IsMove(Castle(s, t))
  /\ \A s, t, pt : IsMove(Promotion(s, t, pt))
  BY DEF IsMove, Normal, EnPassant, Castle, Promotion

(* A move is made by the constructor of its type.                          *)
LEMMA MoveBuilt ==
  ASSUME NEW m, IsMove(m)
  PROVE  /\ m.type = "normal" /\ m.promo = 0 => m = Normal(m.from, m.to)
         /\ m.type = "enpassant" /\ m.promo = 0 => m = EnPassant(m.from, m.to)
         /\ m.type = "promotion" => m = Promotion(m.from, m.to, m.promo)
         /\ m.type = "castling" /\ m.promo = 0 => m = Castle(m.from, m.to)
  BY DEF IsMove, Normal, EnPassant, Castle, Promotion

(* The generators make moves.                                              *)
LEMMA AllAreMoves ==
  ASSUME NEW p, Sound(p), NEW m \in AllMoves(p)
  PROVE  IsMove(m)
<1>. DEFINE kind == IF checkers(p) # {} THEN "evasions" ELSE "non_evasions"
            target == Target(p, kind)
            kingTarget == IF kind = "evasions" THEN Square \ Mine(p) ELSE Target(p, kind)
<1>1. kind \in {"evasions", "non_evasions"}
  OBVIOUS
<1>2. m \in (IF kind = "evasions" /\ more_than_one(checkers(p)) THEN {}
             ELSE generate_pawn_moves(p, kind, target) \cup generate_moves(p, target))
            \cup {Normal(MyKing(p), to) : to \in PseudoAttacks[KING][MyKing(p)] \cap kingTarget}
            \cup (IF kind \in {"quiets", "non_evasions"} THEN CastlingMoves(p) ELSE {})
  BY DEF AllMoves, generate
<1>. HIDE DEF kind, target, kingTarget
<1>3. CASE m \in generate_pawn_moves(p, kind, target)
  <2>1. PICK s : PawnMoveOf(p, kind, IF kind = "evasions" THEN Empty(p) \cap target ELSE Empty(p),
                            IF kind = "evasions" THEN checkers(p) ELSE Theirs(p), m, s)
    BY <1>1, <1>3, PawnMoveKinds
  <2>. QED
    BY <2>1, MoveKinds DEF PawnMoveOf
<1>4. CASE m \in generate_moves(p, target)
  <2>1. PICK s \in Exactly(p.board, p.sideToMove, KNIGHT .. QUEEN) :
          m \in {Normal(s, to) : to \in attacks_bb(type_of(p.board[s]), s, pieces(p.board)) \cap target}
    BY <1>4 DEF generate_moves
  <2>. QED
    BY <2>1, MoveKinds
<1>5. CASE \E to \in PseudoAttacks[KING][MyKing(p)] \cap kingTarget : m = Normal(MyKing(p), to)
  BY <1>5, MoveKinds
<1>6. CASE m \in CastlingMoves(p)
  <2>1. PICK cr \in CastlingOf(p.sideToMove) : m = Castle(MyKing(p), p.castling[cr].rook)
    BY <1>6 DEF CastlingMoves
  <2>. QED
    BY <2>1, MoveKinds
<1>. QED
  BY <1>2, <1>3, <1>4, <1>5, <1>6

(* The moves of the rules, by the same constructors.                       *)
LEMMA RulesMoveKinds ==
  /\ \A s, t : /\ Rules!Step(s, t) = Normal(s, t)
               /\ [Rules!Step(s, t) EXCEPT !.type = "enpassant"] = EnPassant(s, t)
               /\ [Rules!Step(s, t) EXCEPT !.type = "castling"] = Castle(s, t)
  /\ \A s, t, pt : [Rules!Step(s, t) EXCEPT !.type = "promotion", !.promo = pt] = Promotion(s, t, pt)
<1>1. \A s, t : Rules!Step(s, t) = Normal(s, t)
  BY DEF Rules!Step, Normal
<1>2. ASSUME NEW s, NEW t, NEW pt
      PROVE  [Rules!Step(s, t) EXCEPT !.type = "promotion", !.promo = pt] = Promotion(s, t, pt)
  <2>1. Rules!Step(s, t) = [from |-> s, to |-> t, type |-> "normal", promo |-> 0]
    BY DEF Rules!Step
  <2>. DEFINE e == [Rules!Step(s, t) EXCEPT !.type = "promotion", !.promo = pt]
  <2>2. e = [k \in {"from", "to", "type", "promo"} |-> e[k]]
    BY <2>1
  <2>3. e.from = s /\ e.to = t /\ e.type = "promotion" /\ e.promo = pt
    BY <2>1
  <2>. HIDE DEF e
  <2>4. e = Promotion(s, t, pt)
    BY <2>2, <2>3 DEF Promotion
  <2>. QED
    BY <2>4 DEF e
<1>3. ASSUME NEW s, NEW t
      PROVE  /\ [Rules!Step(s, t) EXCEPT !.type = "enpassant"] = EnPassant(s, t)
             /\ [Rules!Step(s, t) EXCEPT !.type = "castling"] = Castle(s, t)
  <2>1. Rules!Step(s, t) = [from |-> s, to |-> t, type |-> "normal", promo |-> 0]
    BY DEF Rules!Step
  <2>. QED
    BY <2>1 DEF EnPassant, Castle
<1>. QED
  BY <1>1, <1>2, <1>3

(* How a pawn moves by the rules.                                          *)
RulesPawn(g, m, s) ==
  \/ \E t : /\ t \in Rules!Pushes(g, s) \/ (t \in Rules!Of(g.board, Rules!Them(g.turn)) /\ Rules!Hits(g.board, s, t))
            /\ IF R(t) \in {0, 7} THEN \E pt \in KNIGHT .. QUEEN : m = Promotion(s, t, pt) ELSE m = Normal(s, t)
  \/ g.ep # SQ_NONE /\ Rules!Hits(g.board, s, g.ep) /\ m = EnPassant(s, g.ep)
(* The moves of a pawn by the rules.                                       *)
LEMMA RulesPawnMoves ==
  ASSUME NEW g, NEW s, NEW m, type_of(g.board[s]) = PAWN
  PROVE  m \in Rules!MovesFrom(g, s) <=> RulesPawn(g, m, s)
<1>1. \A from, to : Rules!PawnMoves(from, to)
          = IF R(to) \in {0, 7} THEN {Promotion(from, to, pt) : pt \in KNIGHT .. QUEEN} ELSE {Normal(from, to)}
  <2>1. \A from, to : Rules!PawnMoves(from, to)
          = IF R(to) \in {0, 7}
            THEN {[Rules!Step(from, to) EXCEPT !.type = "promotion", !.promo = pt] : pt \in KNIGHT .. QUEEN}
            ELSE {Rules!Step(from, to)}
    BY RulesSpeak DEF Rules!PawnMoves
  <2>. QED
    BY <2>1, RulesMoveKinds
<1>. DEFINE foes == {t \in Rules!Of(g.board, Rules!Them(g.turn)) : Rules!Hits(g.board, s, t)}
            passed == {t \in {g.ep} \ {Rules!SQ_NONE} : Rules!Hits(g.board, s, t)}
<1>2. Rules!MovesFrom(g, s)
        = (UNION {Rules!PawnMoves(s, t) : t \in Rules!Pushes(g, s) \cup foes})
          \cup {[Rules!Step(s, t) EXCEPT !.type = "enpassant"] : t \in passed}
  BY RulesSpeak DEF Rules!MovesFrom
<1>3. \A t : [Rules!Step(s, t) EXCEPT !.type = "enpassant"] = EnPassant(s, t)
  BY RulesMoveKinds
<1>4. \A t : t \in passed <=> t = g.ep /\ g.ep # SQ_NONE /\ Rules!Hits(g.board, s, g.ep)
  BY RulesSpeak
<1>5. \A t : t \in foes <=> t \in Rules!Of(g.board, Rules!Them(g.turn)) /\ Rules!Hits(g.board, s, t)
  OBVIOUS
<1>. HIDE DEF foes, passed
<1>8. {[Rules!Step(s, t) EXCEPT !.type = "enpassant"] : t \in passed} = {EnPassant(s, t) : t \in passed}
  BY <1>3
<1>9. m \in UNION {Rules!PawnMoves(s, t) : t \in Rules!Pushes(g, s) \cup foes}
        <=> \E t \in Rules!Pushes(g, s) \cup foes : m \in Rules!PawnMoves(s, t)
  OBVIOUS
<1>6. m \in Rules!MovesFrom(g, s)
        <=> \/ \E t \in Rules!Pushes(g, s) \cup foes : m \in Rules!PawnMoves(s, t)
            \/ \E t \in passed : m = EnPassant(s, t)
  BY <1>2, <1>8, <1>9
<1>7. \A t : m \in Rules!PawnMoves(s, t)
        <=> IF R(t) \in {0, 7} THEN \E pt \in KNIGHT .. QUEEN : m = Promotion(s, t, pt) ELSE m = Normal(s, t)
  BY <1>1
<1>. QED
  BY <1>4, <1>5, <1>6, <1>7 DEF RulesPawn

(* The moves of another piece by the rules.                                *)
LEMMA RulesPieceMoves ==
  ASSUME NEW g, NEW s, NEW m, type_of(g.board[s]) # PAWN
  PROVE  m \in Rules!MovesFrom(g, s)
           <=> \E t \in Square : /\ t \notin Rules!Of(g.board, g.turn) /\ Rules!Hits(g.board, s, t)
                                 /\ m = Normal(s, t)
<1>1. Rules!MovesFrom(g, s)
        = {Rules!Step(s, t) : t \in {t \in Rules!Square \ Rules!Of(g.board, g.turn) : Rules!Hits(g.board, s, t)}}
  BY RulesSpeak DEF Rules!MovesFrom
<1>2. \A t : Rules!Step(s, t) = Normal(s, t)
  BY RulesMoveKinds
<1>3. Rules!Square = Square
  BY RulesSpeak
<1>. QED
  BY <1>1, <1>2, <1>3

(* The pushes of a pawn by the rules.                                      *)
LEMMA RulesPushes ==
  ASSUME NEW b, IsBoard(b), NEW us \in Color, NEW s \in Square, R(s) \in 1 .. 6, NEW g, g.board = b, g.turn = us, NEW t
  PROVE  t \in Rules!Pushes(g, s)
           <=> /\ t \in Square
               /\ \/ Ahead(us, s, t, 1) /\ t \notin DOMAIN b
                  \/ Ahead(us, s, t, 2) /\ relative_rank(us, s) = 1 /\ s + pawn_push(us) \notin DOMAIN b /\ t \notin DOMAIN b
<1>. DEFINE up == pawn_push(us)
<1>1. t \in Rules!Pushes(g, s)
        <=> /\ t = s + up \/ t = s + 2 * up
            /\ s + up \notin DOMAIN b
            /\ t = s + 2 * up => relative_rank(us, s) = 1 /\ t \notin DOMAIN b
  BY RulesSpeak DEF Rules!Pushes
<1>2. /\ s + up \in Square => Ahead(us, s, s + up, 1)
      /\ s + 2 * up \in Square => Ahead(us, s, s + 2 * up, 2)
      /\ \A x \in Square, n \in Int : Ahead(us, s, x, n) => x = s + n * up
  BY Forward
<1>3. s + up \in Square /\ s + up # s + 2 * up /\ (relative_rank(us, s) = 1 => s + 2 * up \in Square)
  <2>1. s = 8 * R(s) + F(s) /\ F(s) \in 0 .. 7 /\ R(s) \in Int
    BY Coordinates
  <2>2. us = 0 \/ us = 1
    BY Pieces
  <2>3. up = (IF us = 0 THEN 8 ELSE -8) /\ relative_rank(us, s) = IF us = 0 THEN R(s) ELSE 7 - R(s)
    BY DEF pawn_push, relative_rank, R, WHITE
  <2>. QED
    BY <2>1, <2>2, <2>3 DEF Square
<1>4. \A x \in Square : (Ahead(us, s, x, 1) => x = s + up) /\ (Ahead(us, s, x, 2) => x = s + 2 * up)
  <2>1. up \in Int /\ s \in Int
    BY DEF pawn_push, Square
  <2>2. 1 * up = up
    BY <2>1
  <2>. HIDE DEF up
  <2>3. 1 \in Int /\ 2 \in Int
    OBVIOUS
  <2>. QED
    BY <1>2, <2>2, <2>3
<1>. HIDE DEF up
<1>5. ASSUME t \in Rules!Pushes(g, s)
      PROVE  /\ t \in Square
             /\ \/ Ahead(us, s, t, 1) /\ t \notin DOMAIN b
                \/ Ahead(us, s, t, 2) /\ relative_rank(us, s) = 1 /\ s + up \notin DOMAIN b /\ t \notin DOMAIN b
  BY <1>1, <1>2, <1>3, <1>5
<1>6. ASSUME t \in Square,
             \/ Ahead(us, s, t, 1) /\ t \notin DOMAIN b
             \/ Ahead(us, s, t, 2) /\ relative_rank(us, s) = 1 /\ s + up \notin DOMAIN b /\ t \notin DOMAIN b
      PROVE  t \in Rules!Pushes(g, s)
  <2>1. CASE Ahead(us, s, t, 1) /\ t \notin DOMAIN b
    <3>1. t = s + up
      BY <1>4, <1>6, <2>1
    <3>. QED
      BY <1>1, <1>3, <2>1, <3>1
  <2>2. CASE Ahead(us, s, t, 2) /\ relative_rank(us, s) = 1 /\ s + up \notin DOMAIN b /\ t \notin DOMAIN b
    <3>1. t = s + 2 * up
      BY <1>4, <1>6, <2>2
    <3>. QED
      BY <1>1, <2>2, <3>1
  <2>. QED
    BY <1>6, <2>1, <2>2
<1>. QED
  BY <1>5, <1>6 DEF up

-------------------------------------------------------------------------------
(***************************************************************************)
(* The rules: how pieces and pawns go.                                     *)
(***************************************************************************)
(* The parts of the situation of a position.                               *)
LEMMA Situated ==
  ASSUME NEW p
  PROVE  /\ Situation(p).board = p.board /\ Situation(p).turn = p.sideToMove
         /\ Situation(p).rights = St(p).castlingRights /\ Situation(p).ep = St(p).epSquare
  BY DEF Situation

(* A piece is a pawn or another piece.                                     *)
LEMMA OwnPawns ==
  ASSUME NEW b, IsBoard(b), NEW us \in Color, NEW s \in DOMAIN b
  PROVE  /\ b[s] = make_piece(us, PAWN) <=> color_of(b[s]) = us /\ type_of(b[s]) = PAWN
         /\ type_of(b[s]) # PAWN <=> type_of(b[s]) \in KNIGHT .. KING
<1>1. b[s] \in Piece
  BY DEF IsBoard
<1>2. type_of(b[s]) \in PieceType
  BY <1>1, Pieces
<1>3. type_of(b[s]) # PAWN <=> type_of(b[s]) \in KNIGHT .. KING
  BY <1>2, Pieces, TypesDiffer
<1>4. b[s] = make_piece(us, PAWN) <=> color_of(b[s]) = us /\ type_of(b[s]) = PAWN
  BY <1>1, Pieces, TypesDiffer
<1>. QED
  BY <1>3, <1>4

(* Pieces go by the rules as they are generated to go.                     *)
LEMMA RulesPieceGoes ==
  ASSUME NEW p, Sound(p), NEW s \in DOMAIN p.board, color_of(p.board[s]) = p.sideToMove, type_of(p.board[s]) # PAWN, NEW m
  PROVE  m \in Rules!MovesFrom(Situation(p), s) <=> m.from = s /\ IsMove(m) /\ PieceGoes(p.board, p.sideToMove, m)
<1>. DEFINE b == p.board
            us == p.sideToMove
            g == Situation(p)
<1>1. IsBoard(b) /\ us \in Color /\ Them(us) \in Color /\ g.board = b /\ g.turn = us
  BY SoundFacts, Situated
<1>2. us # Them(us)
  BY <1>1, Opposite
<1>3. \A t : t \in Rules!Of(b, us) <=> t \in DOMAIN b /\ color_of(b[t]) = us
  BY RulesSpeak DEF Rules!Of
<1>4. \A t \in DOMAIN b : color_of(b[t]) # us <=> color_of(b[t]) = Them(us)
  BY <1>1, <1>2, OtherSide
<1>5. \A t \in Square : Rules!Hits(b, s, t) <=> Hits(b, DOMAIN b, s, t)
  BY <1>1, RulesHits
<1>6. type_of(b[s]) \in KNIGHT .. KING
  BY <1>1, OwnPawns
<1>7. m \in Rules!MovesFrom(g, s)
        <=> \E t \in Square : t \notin Rules!Of(b, us) /\ Rules!Hits(b, s, t) /\ m = Normal(s, t)
  <2>1. type_of(g.board[s]) # PAWN
    BY <1>1
  <2>. HIDE DEF g
  <2>. QED
    BY <1>1, <2>1, RulesPieceMoves
<1>. HIDE DEF g
<1>8. ASSUME m \in Rules!MovesFrom(g, s)
      PROVE  m.from = s /\ IsMove(m) /\ PieceGoes(b, us, m)
  <2>1. PICK t \in Square : t \notin Rules!Of(b, us) /\ Rules!Hits(b, s, t) /\ m = Normal(s, t)
    BY <1>7, <1>8
  <2>2. m.from = s /\ m.to = t /\ m.type = "normal" /\ m.promo = 0
    BY <2>1 DEF Normal
  <2>3. IsMove(m)
    BY <2>1, MoveKinds
  <2>4. (t \in DOMAIN b => color_of(b[t]) = Them(us)) /\ Hits(b, DOMAIN b, s, t)
    BY <1>3, <1>4, <1>5, <2>1
  <2>. QED
    BY <1>6, <2>2, <2>3, <2>4 DEF PieceGoes, Mover
<1>9. ASSUME m.from = s, IsMove(m), PieceGoes(b, us, m)
      PROVE  m \in Rules!MovesFrom(g, s)
  <2>1. /\ m.to \in Square /\ m.type = "normal" /\ m.promo = 0 /\ Hits(b, DOMAIN b, s, m.to)
        /\ m.to \in DOMAIN b => color_of(b[m.to]) = Them(us)
    BY <1>9 DEF PieceGoes, Mover
  <2>2. m = Normal(s, m.to)
    BY <1>9, <2>1, MoveBuilt
  <2>3. m.to \notin Rules!Of(b, us) /\ Rules!Hits(b, s, m.to)
    BY <1>2, <1>3, <1>5, <2>1
  <2>. QED
    BY <1>7, <2>1, <2>2, <2>3
<1>. QED
  BY <1>8, <1>9 DEF g

(* A pawn reaches the last rank exactly from the one before.               *)
LEMMA LastRank ==
  ASSUME NEW us \in Color, NEW s \in Square, R(s) \in 1 .. 6, NEW t \in Square,
         Ahead(us, s, t, 1) \/ (Ahead(us, s, t, 2) /\ relative_rank(us, s) = 1) \/ Strikes(us, s, t)
  PROVE  R(t) \in {0, 7} <=> relative_rank(us, s) = 6
<1>1. us = 0 \/ us = 1
  BY Pieces
<1>2. R(t) \in Int /\ R(s) \in Int
  BY Coordinates
<1>3. relative_rank(us, s) = IF us = 0 THEN R(s) ELSE 7 - R(s)
  BY DEF relative_rank, R, WHITE
<1>. QED
  BY <1>1, <1>2, <1>3 DEF Ahead, Strikes, WHITE

(* Pawns go, and take in passing, by the rules as they are generated to.   *)
LEMMA RulesPawnGoes ==
  ASSUME NEW p, Sound(p), NEW s \in DOMAIN p.board, color_of(p.board[s]) = p.sideToMove, type_of(p.board[s]) = PAWN, NEW m
  PROVE  m \in Rules!MovesFrom(Situation(p), s)
           <=> /\ m.from = s /\ IsMove(m)
               /\ PawnGoes(p.board, p.sideToMove, m) \/ Passing(p.board, p.sideToMove, St(p).epSquare, m)
<1>. DEFINE b == p.board
            us == p.sideToMove
            ep == St(p).epSquare
            g == Situation(p)
<1>1. IsBoard(b) /\ us \in Color /\ Them(us) \in Color /\ PawnsPlaced(b) /\ g.board = b /\ g.turn = us /\ g.ep = ep
  BY SoundFacts, Situated
<1>2. us # Them(us)
  BY <1>1, Opposite
<1>3. \A t : t \in Rules!Of(b, Rules!Them(us)) <=> t \in DOMAIN b /\ color_of(b[t]) = Them(us)
  BY RulesSpeak DEF Rules!Of
<1>4. s \in Square /\ R(s) \in 1 .. 6 /\ b[s] = make_piece(us, PAWN)
  BY <1>1, OwnPawns DEF PawnsPlaced, IsBoard
<1>5. \A t \in Square : Rules!Hits(b, s, t) <=> Strikes(us, s, t)
  <2>1. \A t \in Square : Rules!Hits(b, s, t) <=> Hits(b, DOMAIN b, s, t)
    BY <1>1, RulesHits
  <2>2. \A t \in Square : Hits(b, DOMAIN b, s, t) <=> Strikes(us, s, t)
    BY <1>1, <1>4, HitsElse
  <2>. QED
    BY <2>1, <2>2
<1>6. m \in Rules!MovesFrom(g, s) <=> RulesPawn(g, m, s)
  <2>1. type_of(g.board[s]) = PAWN
    BY <1>1
  <2>. HIDE DEF g
  <2>. QED
    BY <2>1, RulesPawnMoves
<1>. HIDE DEF g, ep
<1>7. ep # SQ_NONE => ep \in Square
  BY DEF Sound, Level, EpSound, ep
<1>8. DOMAIN b \subseteq Square
  BY <1>1 DEF IsBoard
<1>9. \A t : t \in Rules!Pushes(g, s)
           <=> /\ t \in Square
               /\ \/ Ahead(us, s, t, 1) /\ t \notin DOMAIN b
                  \/ Ahead(us, s, t, 2) /\ relative_rank(us, s) = 1 /\ s + pawn_push(us) \notin DOMAIN b /\ t \notin DOMAIN b
  BY <1>1, <1>4, RulesPushes
<1>10. \A t \in Square : \/ t \in Rules!Pushes(g, s)
                         \/ t \in Rules!Of(b, Rules!Them(us)) /\ Rules!Hits(b, s, t)
          <=> PawnWay(b, us, s, t) /\ (t \in DOMAIN b => color_of(b[t]) = Them(us))
  BY <1>3, <1>5, <1>9 DEF PawnWay
<1>11. \A t \in Square : PawnWay(b, us, s, t) => (R(t) \in {0, 7} <=> relative_rank(us, s) = 6)
  BY <1>1, <1>4, LastRank DEF PawnWay
<1>12. ASSUME m \in Rules!MovesFrom(g, s)
       PROVE  /\ m.from = s /\ IsMove(m)
              /\ PawnGoes(b, us, m) \/ Passing(b, us, ep, m)
  <2>0. RulesPawn(g, m, s)
    BY <1>6, <1>12
  <2>1. CASE \E t : /\ t \in Rules!Pushes(g, s) \/ (t \in Rules!Of(b, Rules!Them(us)) /\ Rules!Hits(b, s, t))
                    /\ IF R(t) \in {0, 7} THEN \E pt \in KNIGHT .. QUEEN : m = Promotion(s, t, pt) ELSE m = Normal(s, t)
    <3>1. PICK t : /\ t \in Rules!Pushes(g, s) \/ (t \in Rules!Of(b, Rules!Them(us)) /\ Rules!Hits(b, s, t))
                   /\ IF R(t) \in {0, 7} THEN \E pt \in KNIGHT .. QUEEN : m = Promotion(s, t, pt) ELSE m = Normal(s, t)
      BY <2>1
    <3>2. t \in Square
      BY <1>3, <1>8, <1>9, <3>1
    <3>3. PawnWay(b, us, s, t) /\ (t \in DOMAIN b => color_of(b[t]) = Them(us))
      BY <1>10, <3>1, <3>2
    <3>4. R(t) \in {0, 7} <=> relative_rank(us, s) = 6
      BY <1>11, <3>2, <3>3
    <3>5. IF relative_rank(us, s) = 6 THEN \E pt \in KNIGHT .. QUEEN : m = Promotion(s, t, pt) ELSE m = Normal(s, t)
      BY <3>1, <3>4
    <3>6. /\ m.from = s /\ m.to = t
          /\ IF relative_rank(us, s) = 6 THEN m.type = "promotion" /\ m.promo \in KNIGHT .. QUEEN
                                         ELSE m.type = "normal" /\ m.promo = 0
      BY <3>5 DEF Promotion, Normal
    <3>7. IsMove(m)
      BY <3>5, MoveKinds
    <3>. QED
      BY <1>4, <3>2, <3>3, <3>6, <3>7 DEF PawnGoes, Mover
  <2>2. CASE ep # SQ_NONE /\ Rules!Hits(b, s, ep) /\ m = EnPassant(s, ep)
    <3>1. m.from = s /\ m.to = ep /\ m.type = "enpassant" /\ m.promo = 0
      BY <2>2 DEF EnPassant
    <3>2. IsMove(m)
      BY <2>2, MoveKinds
    <3>3. Strikes(us, s, ep)
      BY <1>5, <1>7, <2>2
    <3>. QED
      BY <1>4, <2>2, <3>1, <3>2, <3>3 DEF Passing
  <2>. QED
    BY <1>1, <2>0, <2>1, <2>2 DEF RulesPawn
<1>13. ASSUME m.from = s, IsMove(m), PawnGoes(b, us, m) \/ Passing(b, us, ep, m)
       PROVE  RulesPawn(g, m, s)
  <2>1. CASE PawnGoes(b, us, m)
    <3>1. /\ m.to \in Square /\ PawnWay(b, us, s, m.to) /\ (m.to \in DOMAIN b => color_of(b[m.to]) = Them(us))
          /\ IF relative_rank(us, s) = 6 THEN m.type = "promotion" /\ m.promo \in KNIGHT .. QUEEN
                                         ELSE m.type = "normal" /\ m.promo = 0
      BY <1>13, <2>1 DEF PawnGoes, Mover
    <3>2. m.to \in Rules!Pushes(g, s) \/ (m.to \in Rules!Of(b, Rules!Them(us)) /\ Rules!Hits(b, s, m.to))
      BY <1>10, <3>1
    <3>3. R(m.to) \in {0, 7} <=> relative_rank(us, s) = 6
      BY <1>11, <3>1
    <3>4. /\ m.type = "normal" /\ m.promo = 0 => m = Normal(s, m.to)
          /\ m.type = "promotion" => m = Promotion(s, m.to, m.promo)
      BY <1>13, MoveBuilt
    <3>5. IF R(m.to) \in {0, 7} THEN \E pt \in KNIGHT .. QUEEN : m = Promotion(s, m.to, pt) ELSE m = Normal(s, m.to)
      BY <3>1, <3>3, <3>4
    <3>. QED
      BY <1>1, <3>2, <3>5 DEF RulesPawn
  <2>2. CASE Passing(b, us, ep, m)
    <3>1. m.type = "enpassant" /\ m.promo = 0 /\ m.to = ep /\ ep # SQ_NONE /\ Strikes(us, s, ep)
      BY <1>13, <2>2 DEF Passing
    <3>2. m = EnPassant(s, ep)
      BY <1>13, <3>1, MoveBuilt
    <3>3. Rules!Hits(b, s, ep)
      BY <1>5, <1>7, <3>1
    <3>. QED
      BY <1>1, <3>1, <3>2, <3>3 DEF RulesPawn
  <2>. QED
    BY <1>13, <2>1, <2>2
<1>. QED
  BY <1>6, <1>12, <1>13 DEF g, ep

-------------------------------------------------------------------------------
(***************************************************************************)
(* The rules: castling, and all moves together.                            *)
(***************************************************************************)
(* The squares a castling king passes.                                     *)
LEMMA SpanIs ==
  ASSUME NEW s \in Square, NEW t \in Square, R(s) = R(t), NEW x
  PROVE  /\ x \in Path(s, t) <=> x = s \/ x \in BetweenBB[s][t]
         /\ x \in Path(s, t) => x \in Square
<1>1. /\ F(s) \in 0 .. 7 /\ R(s) \in 0 .. 7 /\ s = 8 * R(s) + F(s) /\ s \in Int
      /\ F(t) \in 0 .. 7 /\ R(t) \in 0 .. 7 /\ t = 8 * R(t) + F(t) /\ t \in Int
  BY Coordinates
<1>2. x \in BetweenBB[s][t] <=> x = t \/ (x \in Square /\ Inside(s, t, x))
  BY BetweenIs
<1>3. x \in Path(s, t) <=> x \in Int /\ ((s <= x /\ x <= t) \/ (t <= x /\ x <= s))
  BY <1>1 DEF Path
<1>4. CASE x \in Square
  <2>1. F(x) \in 0 .. 7 /\ R(x) \in 0 .. 7 /\ x = 8 * R(x) + F(x) /\ x \in Int
    BY <1>4, Coordinates
  <2>2. Inside(s, t, x) <=> R(x) = R(s) /\ ((F(s) < F(x) /\ F(x) < F(t)) \/ (F(t) < F(x) /\ F(x) < F(s)))
    BY <1>4, InsideRank
  <2>3. (s <= x /\ x <= t) \/ (t <= x /\ x <= s)
          <=> R(x) = R(s) /\ ((F(s) <= F(x) /\ F(x) <= F(t)) \/ (F(t) <= F(x) /\ F(x) <= F(s)))
    BY <1>1, <2>1
  <2>4. (x = s <=> R(x) = R(s) /\ F(x) = F(s)) /\ (x = t <=> R(x) = R(s) /\ F(x) = F(t))
    BY <1>1, <2>1
  <2>. QED
    BY <1>1, <1>2, <1>3, <1>4, <2>1, <2>2, <2>3, <2>4
<1>5. CASE x \notin Square
  <2>1. x \notin Path(s, t)
    BY <1>1, <1>3, <1>5 DEF Square
  <2>2. x # s /\ x # t
    BY <1>5
  <2>. QED
    BY <1>2, <1>5, <2>1, <2>2
<1>. QED
  BY <1>4, <1>5

(* The mover still has this right; it is free to use it now.               *)
HomeRight(p, cr) == cr \in CastlingOf(p.sideToMove) /\ cr \in St(p).castlingRights
CastlesFreely(p, cr) ==
  /\ HomeRight(p, cr) /\ DOMAIN p.board \cap p.castling[cr].path = {}
  /\ \A s \in Path(MyKing(p), KingTarget(cr)) : ~Attacked(p.board, DOMAIN p.board, Them(p.sideToMove), s)

(* A right that is left has its king and rook at home, and its path        *)
(* between them.                                                           *)
LEMMA RightHome ==
  ASSUME NEW p, Sound(p), NEW cr, HomeRight(p, cr)
  PROVE  /\ cr \in DOMAIN p.castling /\ p.castling[cr].king = MyKing(p) /\ p.castling[cr].rook \in DOMAIN p.board
         /\ p.castling[cr].rook \in Square /\ MyKing(p) \in Square /\ MyKing(p) # p.castling[cr].rook
         /\ p.board[p.castling[cr].rook] = make_piece(p.sideToMove, ROOK)
         /\ R(MyKing(p)) = R(KingTarget(cr)) /\ R(p.castling[cr].rook) = R(KingTarget(cr))
         /\ KingTarget(cr) \in Square /\ RookTarget(cr) \in Square /\ R(RookTarget(cr)) = R(KingTarget(cr))
         /\ cr \in KING_SIDE <=> MyKing(p) < p.castling[cr].rook
         /\ p.castling[cr].path = (BetweenBB[p.castling[cr].rook][RookTarget(cr)] \cup BetweenBB[MyKing(p)][KingTarget(cr)])
                                   \ {MyKing(p), p.castling[cr].rook}
<1>. DEFINE b == p.board
            us == p.sideToMove
            cas == p.castling
            rights == St(p).castlingRights
<1>1. us \in Color /\ KingAt(b, us, MyKing(p)) /\ MyKing(p) \in Square
  BY SoundFacts
<1>2. CastlingsSound(cas, p.chess960) /\ RightsSound(b, cas, rights)
  BY DEF Sound, Level
<1>3. cr \in CastlingOf(us) /\ cr \in rights
  BY DEF HomeRight
<1>4. /\ CastlingColor(cr) = us /\ KingTarget(cr) \in Square /\ RookTarget(cr) \in Square /\ R(RookTarget(cr)) = R(KingTarget(cr))
  BY <1>1, <1>3, CastlingSides
<1>. HIDE DEF b, us, cas, rights
<1>5. cr \in DOMAIN cas
  BY <1>2, <1>3 DEF RightsSound
<1>6. /\ cas[cr].king \in DOMAIN b /\ b[cas[cr].king] = make_piece(us, KING)
      /\ cas[cr].rook \in DOMAIN b /\ b[cas[cr].rook] = make_piece(us, ROOK)
  BY <1>2, <1>3, <1>4 DEF RightsSound
<1>7. cas[cr].king = MyKing(p)
  BY <1>1, <1>6 DEF KingAt, b, us
<1>8. /\ cas[cr].rook \in Square /\ cas[cr].king # cas[cr].rook
      /\ R(cas[cr].king) = R(KingTarget(cr)) /\ R(cas[cr].rook) = R(KingTarget(cr))
      /\ cr \in KING_SIDE <=> cas[cr].king < cas[cr].rook
      /\ cas[cr].path = (BetweenBB[cas[cr].rook][RookTarget(cr)] \cup BetweenBB[cas[cr].king][KingTarget(cr)])
                          \ {cas[cr].king, cas[cr].rook}
  BY <1>2, <1>5 DEF CastlingsSound
<1>. QED
  BY <1>1, <1>4, <1>5, <1>6, <1>7, <1>8 DEF b, us, cas

(* A side may castle by the rules if the path is free and not attacked.    *)
LEMMA RulesMayCastle ==
  ASSUME NEW p, Sound(p), p.castling = pos.castling, NEW cr, HomeRight(p, cr)
  PROVE  /\ Rules!MayCastle(Situation(p), cr) <=> CastlesFreely(p, cr)
         /\ Homes[cr] = [king |-> MyKing(p), rook |-> p.castling[cr].rook]
<1>. DEFINE b == p.board
            us == p.sideToMove
            k == MyKing(p)
            r == p.castling[cr].rook
            kt == KingTarget(cr)
            rt == RookTarget(cr)
            g == Situation(p)
<1>1. IsBoard(b) /\ us \in Color /\ Them(us) \in Color
  BY SoundFacts
<1>2. /\ cr \in DOMAIN p.castling /\ p.castling[cr].king = k
      /\ k \in Square /\ r \in Square /\ kt \in Square /\ rt \in Square /\ R(k) = R(kt) /\ R(r) = R(rt)
      /\ p.castling[cr].path = (BetweenBB[r][rt] \cup BetweenBB[k][kt]) \ {k, r}
  BY RightHome
<1>3. Homes[cr] = [king |-> k, rook |-> r]
  BY <1>2 DEF Homes
<1>4. g.board = b /\ g.turn = us
  BY Situated
<1>5. \A s, t : Rules!Span(s, t) = Path(s, t)
  BY DEF Rules!Span, Path
<1>6. Homes[cr].king = k /\ Homes[cr].rook = r
  BY <1>3
<1>. HIDE DEF b, us, k, r, kt, rt, g
<1>7. Rules!MayCastle(g, cr)
        <=> /\ (Path(k, kt) \cup Path(r, rt)) \cap DOMAIN b \subseteq {k, r}
            /\ \A s \in Path(k, kt) : Rules!Attackers(b, s, Them(us)) = {}
  <2>1. Rules!KingTarget(cr) = kt /\ Rules!RookTarget(cr) = rt /\ Rules!Them(us) = Them(us)
    BY RulesSpeak DEF kt, rt
  <2>. QED
    BY <1>4, <1>5, <1>6, <2>1 DEF Rules!MayCastle
<1>8. \A x : x \in Path(k, kt) <=> x = k \/ x \in BetweenBB[k][kt]
  BY <1>2, SpanIs
<1>9. \A x : x \in Path(r, rt) <=> x = r \/ x \in BetweenBB[r][rt]
  BY <1>2, SpanIs
<1>10. (Path(k, kt) \cup Path(r, rt)) \cap DOMAIN b \subseteq {k, r}
         <=> DOMAIN b \cap ((BetweenBB[r][rt] \cup BetweenBB[k][kt]) \ {k, r}) = {}
  BY <1>8, <1>9
<1>11. \A s \in Path(k, kt) : Rules!Attackers(b, s, Them(us)) = {} <=> ~Attacked(b, DOMAIN b, Them(us), s)
  <2>. TAKE s \in Path(k, kt)
  <2>1. s \in Square
    BY <1>2, SpanIs
  <2>. QED
    BY <1>1, <2>1, RulesAttackers
<1>12. CastlesFreely(p, cr)
         <=> /\ DOMAIN b \cap p.castling[cr].path = {}
             /\ \A s \in Path(k, kt) : ~Attacked(b, DOMAIN b, Them(us), s)
  BY DEF CastlesFreely, b, us, k, kt
<1>13. DOMAIN b \cap p.castling[cr].path = {} <=> DOMAIN b \cap ((BetweenBB[r][rt] \cup BetweenBB[k][kt]) \ {k, r}) = {}
  BY <1>2
<1>14. Rules!MayCastle(g, cr) <=> CastlesFreely(p, cr)
  BY <1>7, <1>10, <1>11, <1>12, <1>13
<1>. QED
  BY <1>3, <1>14 DEF g, k, r

(* Castling moves by the rules.                                            *)
LEMMA RulesCastlings ==
  ASSUME NEW p, Sound(p), p.castling = pos.castling, NEW m
  PROVE  m \in Rules!Castlings(Situation(p))
           <=> \E cr : CastlesFreely(p, cr) /\ m = Castle(MyKing(p), p.castling[cr].rook)
<1>. DEFINE g == Situation(p)
            us == p.sideToMove
<1>1. g.rights = St(p).castlingRights /\ g.turn = us
  BY Situated
<1>2. \A s, t : [Rules!Step(s, t) EXCEPT !.type = "castling"] = Castle(s, t)
  BY RulesMoveKinds
<1>3. Rules!CastlingOf(us) = CastlingOf(us)
  BY RulesSpeak
<1>. HIDE DEF g
<1>4. Rules!Castlings(g)
        = {[Rules!Step(Homes[cr].king, Homes[cr].rook) EXCEPT !.type = "castling"] :
             cr \in {cr \in St(p).castlingRights \cap CastlingOf(us) : Rules!MayCastle(g, cr)}}
  BY <1>1, <1>3 DEF Rules!Castlings
<1>5. {[Rules!Step(Homes[cr].king, Homes[cr].rook) EXCEPT !.type = "castling"] :
             cr \in {cr \in St(p).castlingRights \cap CastlingOf(us) : Rules!MayCastle(g, cr)}}
        = {Castle(Homes[cr].king, Homes[cr].rook) :
             cr \in {cr \in St(p).castlingRights \cap CastlingOf(us) : Rules!MayCastle(g, cr)}}
  BY <1>2
<1>6. \A cr : HomeRight(p, cr) => /\ Rules!MayCastle(g, cr) <=> CastlesFreely(p, cr)
                                  /\ Homes[cr].king = MyKing(p) /\ Homes[cr].rook = p.castling[cr].rook
  <2>. SUFFICES ASSUME NEW cr, HomeRight(p, cr)
                PROVE  /\ Rules!MayCastle(g, cr) <=> CastlesFreely(p, cr)
                       /\ Homes[cr].king = MyKing(p) /\ Homes[cr].rook = p.castling[cr].rook
    OBVIOUS
  <2>1. Rules!MayCastle(g, cr) <=> CastlesFreely(p, cr)
    BY RulesMayCastle DEF g
  <2>2. Homes[cr] = [king |-> MyKing(p), rook |-> p.castling[cr].rook]
    BY RulesMayCastle
  <2>. QED
    BY <2>1, <2>2
<1>7. \A cr : cr \in St(p).castlingRights \cap CastlingOf(us) <=> HomeRight(p, cr)
  BY DEF HomeRight
<1>8. \A cr : CastlesFreely(p, cr) => HomeRight(p, cr)
  BY DEF CastlesFreely
<1>9. m \in Rules!Castlings(g)
        <=> \E cr : HomeRight(p, cr) /\ Rules!MayCastle(g, cr) /\ m = Castle(Homes[cr].king, Homes[cr].rook)
  BY <1>4, <1>5, <1>7
<1>. QED
  BY <1>6, <1>8, <1>9 DEF g

(* All moves by the rules, before the safety of the king.                  *)
LEMMA RulesMoves ==
  ASSUME NEW p, Sound(p), p.castling = pos.castling, NEW m
  PROVE  m \in Rules!Moves(Situation(p))
           <=> \/ /\ IsMove(m)
                  /\ \/ PieceGoes(p.board, p.sideToMove, m)
                     \/ PawnGoes(p.board, p.sideToMove, m)
                     \/ Passing(p.board, p.sideToMove, St(p).epSquare, m)
               \/ \E cr : CastlesFreely(p, cr) /\ m = Castle(MyKing(p), p.castling[cr].rook)
<1>. DEFINE g == Situation(p)
            b == p.board
            us == p.sideToMove
            ep == St(p).epSquare
<1>1. IsBoard(b) /\ us \in Color
  BY SoundFacts
<1>2. \A s : s \in Rules!Of(g.board, g.turn) <=> s \in DOMAIN b /\ color_of(b[s]) = us
  BY Situated, RulesSpeak DEF Rules!Of
<1>3. m \in Rules!Moves(g)
        <=> \/ \E s : s \in DOMAIN b /\ color_of(b[s]) = us /\ m \in Rules!MovesFrom(g, s)
            \/ m \in Rules!Castlings(g)
  <2>. HIDE DEF g
  <2>. QED
    BY <1>2 DEF Rules!Moves
<1>4. ASSUME NEW s \in DOMAIN b, color_of(b[s]) = us
      PROVE  m \in Rules!MovesFrom(g, s)
               <=> m.from = s /\ IsMove(m) /\ (PieceGoes(b, us, m) \/ PawnGoes(b, us, m) \/ Passing(b, us, ep, m))
  <2>1. CASE type_of(b[s]) = PAWN
    <3>1. m \in Rules!MovesFrom(g, s) <=> m.from = s /\ IsMove(m) /\ (PawnGoes(b, us, m) \/ Passing(b, us, ep, m))
      BY <1>4, <2>1, RulesPawnGoes
    <3>2. ~(m.from = s /\ PieceGoes(b, us, m))
      BY <2>1, TypesDiffer DEF PieceGoes
    <3>. QED
      BY <3>1, <3>2
  <2>2. CASE type_of(b[s]) # PAWN
    <3>1. m \in Rules!MovesFrom(g, s) <=> m.from = s /\ IsMove(m) /\ PieceGoes(b, us, m)
      BY <1>4, <2>2, RulesPieceGoes
    <3>2. b[s] # make_piece(us, PAWN)
      BY <1>1, <2>2, OwnPawns
    <3>3. ~(m.from = s /\ (PawnGoes(b, us, m) \/ Passing(b, us, ep, m)))
      BY <3>2 DEF PawnGoes, Passing
    <3>. QED
      BY <3>1, <3>3
  <2>. QED
    BY <2>1, <2>2
<1>5. PieceGoes(b, us, m) \/ PawnGoes(b, us, m) \/ Passing(b, us, ep, m)
        => m.from \in DOMAIN b /\ color_of(b[m.from]) = us
  BY <1>1, Pieces, TypesDiffer DEF PieceGoes, PawnGoes, Passing, Mover
<1>6. m \in Rules!Castlings(g) <=> \E cr : CastlesFreely(p, cr) /\ m = Castle(MyKing(p), p.castling[cr].rook)
  BY RulesCastlings
<1>. HIDE DEF g, b, us, ep
<1>7. (\E s : s \in DOMAIN b /\ color_of(b[s]) = us /\ m \in Rules!MovesFrom(g, s))
        <=> IsMove(m) /\ (PieceGoes(b, us, m) \/ PawnGoes(b, us, m) \/ Passing(b, us, ep, m))
  BY <1>4, <1>5
<1>. QED
  BY <1>3, <1>6, <1>7 DEF g, b, us, ep

-------------------------------------------------------------------------------
(***************************************************************************)
(* Legal moves are moves of the rules, and leave the board of the rules.   *)
(***************************************************************************)
(* A castling move that is legal passes no attacked square.                *)
LEMMA LegalCastles ==
  ASSUME NEW p, Sound(p), NEW m, NEW cr, CastlesWith(p, m, cr), legal(p, m)
  PROVE  CastlesFreely(p, cr)
<1>. DEFINE b == p.board
            us == p.sideToMove
            k == MyKing(p)
<1>1. IsBoard(b) /\ us \in Color /\ Them(us) \in Color /\ k \in Square
  BY SoundFacts
<1>2. HomeRight(p, cr) /\ DOMAIN b \cap p.castling[cr].path = {} /\ checkers(p) = {}
  BY DEF CastlesWith, HomeRight
<1>3. CastlingRight(us, m) = cr /\ m.type = "castling" /\ m.from = k
  BY CastlingProper
<1>4. KingTarget(cr) \in Square /\ R(k) = R(KingTarget(cr))
  BY <1>2, RightHome
<1>5. Arrival(us, m) = KingTarget(cr)
  BY <1>3 DEF Arrival
<1>6. \A s \in Path(k, KingTarget(cr)) \ {k} : ~attackers_to_exist(b, s, pieces(b), Them(us))
  BY <1>3, <1>5 DEF legal
<1>7. \A s \in Path(k, KingTarget(cr)) : s \in Square
  BY <1>1, <1>4, SpanIs
<1>8. ~Attacked(b, DOMAIN b, Them(us), k)
  BY <1>2, SoundFacts DEF Attacked
<1>9. \A s \in Path(k, KingTarget(cr)) : ~Attacked(b, DOMAIN b, Them(us), s)
  <2>. TAKE s \in Path(k, KingTarget(cr))
  <2>1. CASE s = k
    BY <1>8, <2>1
  <2>2. CASE s # k
    <3>1. s \in Square /\ ~attackers_to_exist(b, s, pieces(b), Them(us))
      BY <1>6, <1>7, <2>2
    <3>. QED
      BY <1>1, <3>1, AttackedIs DEF pieces
  <2>. QED
    BY <2>1, <2>2
<1>. QED
  BY <1>2, <1>9 DEF CastlesFreely

(* A legal move of the code is a move of the rules.                        *)
LEMMA LegalIsMove ==
  ASSUME NEW p, Sound(p), p.castling = pos.castling, NEW m \in LegalList(p)
  PROVE  m \in Rules!Moves(Situation(p)) /\ IsMove(m) /\ Plays(p, m)
<1>1. IsMove(m)
  BY AllAreMoves DEF LegalList
<1>2. Plays(p, m)
  BY LegalPlays
<1>3. m \in Rules!Moves(Situation(p))
  <2>1. CASE PieceGoes(p.board, p.sideToMove, m) \/ PawnGoes(p.board, p.sideToMove, m)
             \/ Passing(p.board, p.sideToMove, St(p).epSquare, m)
    BY <1>1, <2>1, RulesMoves
  <2>2. CASE (\E cr : CastlesWith(p, m, cr)) /\ legal(p, m)
    <3>1. PICK cr : CastlesWith(p, m, cr)
      BY <2>2
    <3>2. CastlesFreely(p, cr)
      BY <2>2, <3>1, LegalCastles
    <3>3. m = Castle(MyKing(p), p.castling[cr].rook)
      BY <3>1 DEF CastlesWith
    <3>. QED
      BY <3>2, <3>3, RulesMoves
  <2>. QED
    BY <1>2, <2>1, <2>2 DEF Plays
<1>. QED
  BY <1>1, <1>2, <1>3

(* Functions, as the prover needs them.                                    *)
IsFun(f) == f = [t \in DOMAIN f |-> f[t]]
(* Functions with the same values are one.                                 *)
LEMMA SameFun ==
  ASSUME NEW f, NEW h, IsFun(f), IsFun(h), DOMAIN f = DOMAIN h, \A t \in DOMAIN f : f[t] = h[t]
  PROVE  f = h
  BY DEF IsFun

(* A piece is put on a square.                                             *)
IsPut(f, b, to, q) ==
  /\ IsFun(f) /\ DOMAIN f = DOMAIN b \cup {to} /\ f[to] = q
  /\ \A t \in DOMAIN b : t # to => f[t] = b[t]
(* A piece put on a square, by the rules.                                  *)
LEMMA PutIs ==
  ASSUME NEW b, NEW to, NEW q
  PROVE  IsPut(Rules!Put(b, to, q), b, to, q)
  BY DEF Rules!Put, IsPut, IsFun

(* Pieces taken off, by the rules.                                         *)
LEMMA WithoutIs ==
  ASSUME NEW b, NEW gone
  PROVE  /\ DOMAIN Rules!Without(b, gone) = DOMAIN b \ gone
         /\ \A t \in DOMAIN b \ gone : Rules!Without(b, gone)[t] = b[t]
  BY DEF Rules!Without

(* A board with some squares emptied and one piece put. *)
LEMMA StandsIs ==
  ASSUME NEW nb, NEW b, NEW from, NEW cap, NEW to, NEW q, IsMoved(nb, b, from, cap, to, q),
         NEW gone, DOMAIN b \ gone \subseteq (DOMAIN b \ {from, cap}) \cup {to}, gone \subseteq {from, cap}
  PROVE  Rules!Put(Rules!Without(b, gone), to, q) = nb
<1>. DEFINE w == Rules!Without(b, gone)
            f == Rules!Put(w, to, q)
<1>1. /\ IsFun(nb) /\ nb[to] = q /\ DOMAIN nb = (DOMAIN b \ {from, cap}) \cup {to}
      /\ \A s \in DOMAIN b \ {from, cap, to} : nb[s] = b[s]
  BY DEF IsBoard, IsFun, IsMoved
<1>2. DOMAIN w = DOMAIN b \ gone /\ \A t \in DOMAIN b \ gone : w[t] = b[t]
  BY WithoutIs
<1>3. IsPut(f, w, to, q)
  BY PutIs
<1>. HIDE DEF f, w
<1>4. IsFun(f) /\ DOMAIN f = (DOMAIN b \ gone) \cup {to} /\ f[to] = q /\ \A t \in DOMAIN b \ gone : t # to => f[t] = b[t]
  BY <1>2, <1>3 DEF IsPut
<1>5. DOMAIN f = DOMAIN nb
  BY <1>1, <1>4
<1>6. \A t \in DOMAIN f : f[t] = nb[t]
  BY <1>1, <1>4, <1>5
<1>7. f = nb
  BY <1>1, <1>4, <1>5, <1>6, SameFun
<1>. QED
  BY <1>7 DEF f, w

(* So it is for a move other than castling.                                *)
LEMMA RulesPlayed ==
  ASSUME NEW p, Sound(p), NEW m, Proper(p.board, p.sideToMove, m)
  PROVE  Rules!Played(Situation(p), m) = After1(p, m)
<1>. DEFINE b == p.board
            us == p.sideToMove
            g == Situation(p)
            cap == CaptureSquare(us, m)
            nb == After1(p, m)
            q == Arrived(b, us, m)
<1>1. IsMoved(nb, b, m.from, cap, m.to, q)
  BY BoardAfter DEF IsMoved
<1>2. g.board = b /\ g.turn = us
  BY Situated
<1>3. m.type \in {"normal", "promotion", "enpassant"}
  BY DEF Proper, Playable
<1>4. Rules!make_piece(us, m.promo) = make_piece(us, m.promo) /\ Rules!pawn_push(us) = pawn_push(us)
  BY RulesSpeak
<1>. HIDE DEF g, nb
<1>5. Rules!Played(g, m)
        = IF m.type = "enpassant" THEN Rules!Put(Rules!Without(b, {m.from, m.to - pawn_push(us)}), m.to, q)
          ELSE Rules!Put(Rules!Without(b, {m.from}), m.to, q)
  <2>1. m.type = "castling" <=> FALSE
    BY <1>3
  <2>2. CASE m.type = "enpassant"
    BY <1>2, <1>4, <2>1, <2>2 DEF Rules!Played, Arrived
  <2>3. CASE m.type # "enpassant"
    BY <1>2, <1>3, <1>4, <2>1, <2>3 DEF Rules!Played, Arrived
  <2>. QED
    BY <2>2, <2>3
<1>. HIDE DEF q, us, b
<1>6. CASE m.type = "enpassant"
  <2>1. cap = m.to - pawn_push(us)
    BY <1>6 DEF CaptureSquare
  <2>2. Rules!Put(Rules!Without(b, {m.from, cap}), m.to, q) = nb
    BY <1>1, StandsIs
  <2>. QED
    BY <1>5, <1>6, <2>1, <2>2 DEF nb, g
<1>7. CASE m.type # "enpassant"
  <2>1. cap = m.to
    BY <1>7 DEF CaptureSquare
  <2>2. Rules!Put(Rules!Without(b, {m.from}), m.to, q) = nb
    <3>. HIDE DEF cap
    <3>1. DOMAIN b \ {m.from} \subseteq (DOMAIN b \ {m.from, cap}) \cup {m.to} /\ {m.from} \subseteq {m.from, cap}
      BY <2>1
    <3>. QED
      BY <1>1, <3>1, StandsIs
  <2>. QED
    BY <1>5, <1>7, <2>2 DEF nb, g
<1>. QED
  BY <1>6, <1>7

(* So it is for castling.                                                  *)
LEMMA RulesCastled ==
  ASSUME NEW p, Sound(p), p.castling = pos.castling, NEW m, NEW cr, CastlesWith(p, m, cr)
  PROVE  Rules!Played(Situation(p), m) = After2(p, m)
<1>. DEFINE b == p.board
            us == p.sideToMove
            g == Situation(p)
            nb == After2(p, m)
            k == make_piece(us, KING)
            r == make_piece(us, ROOK)
            kt == KingTarget(cr)
            rt == RookTarget(cr)
<1>1. Castles(b, us, m) /\ CastlingRight(us, m) = cr /\ m.type = "castling" /\ m.from = MyKing(p)
  BY CastlingProper
<1>2. StandsCastled(nb, b, us, m.from, m.to, kt, rt)
  BY <1>1, CastledAfter DEF KTo, RTo
<1>3. g.board = b /\ g.turn = us /\ g.rights = St(p).castlingRights
  BY Situated
<1>4. cr \in St(p).castlingRights /\ HomeRight(p, cr) /\ m.to = p.castling[cr].rook
  BY DEF CastlesWith, HomeRight, Castle
<1>5. CastlingsSound(p.castling, p.chess960) /\ RightsSound(b, p.castling, St(p).castlingRights) /\ us \in Color
  BY DEF Sound, Level
<1>6. Homes[cr] = [king |-> m.from, rook |-> m.to]
  BY <1>1, <1>4, RulesMayCastle
<1>7. ASSUME NEW x \in St(p).castlingRights, Homes[x] = [king |-> m.from, rook |-> m.to]
      PROVE  x = cr
  <2>1. x \in DOMAIN p.castling /\ p.castling[x].king \in DOMAIN b /\ b[p.castling[x].king] = make_piece(CastlingColor(x), KING)
    BY <1>5 DEF RightsSound
  <2>2. Homes[x] = [king |-> p.castling[x].king, rook |-> p.castling[x].rook]
    BY <2>1 DEF Homes
  <2>3. p.castling[x].king = m.from /\ p.castling[x].rook = m.to
    BY <1>7, <2>2
  <2>4. /\ x \in {1, 2, 4, 8}
        /\ x \in KING_SIDE <=> m.from < m.to
    BY <1>5, <2>1, <2>3 DEF CastlingsSound
  <2>5. cr \in KING_SIDE <=> m.from < m.to
    BY <1>1, <1>4, RightHome
  <2>6. make_piece(CastlingColor(x), KING) = make_piece(us, KING)
    BY <1>1, <2>1, <2>3 DEF Castles
  <2>7. CastlingColor(x) = us
    <3>1. CastlingColor(x) \in Color
      BY DEF CastlingColor, Color
    <3>. QED
      BY <1>5, <2>6, <3>1, Pieces, TypesDiffer
  <2>8. cr \in CastlingOf(us)
    BY <1>4 DEF HomeRight
  <2>. QED
    BY <1>5, <2>4, <2>5, <2>7, <2>8 DEF CastlingColor, CastlingOf, KING_SIDE, WHITE, BLACK, Color
<1>8. (CHOOSE x \in St(p).castlingRights : Homes[x] = [king |-> m.from, rook |-> m.to]) = cr
  BY <1>4, <1>6, <1>7
<1>9. /\ Rules!make_piece(us, Rules!KING) = k /\ Rules!make_piece(us, Rules!ROOK) = r
      /\ Rules!KingTarget(cr) = kt /\ Rules!RookTarget(cr) = rt
  BY RulesSpeak
<1>. HIDE DEF g, nb, kt, rt, k, r
<1>10. Rules!Castled(g, m) = Rules!Put(Rules!Put(Rules!Without(b, {m.from, m.to}), kt, k), rt, r)
  BY <1>3, <1>8, <1>9 DEF Rules!Castled
<1>11. Rules!Played(g, m) = Rules!Castled(g, m)
  BY <1>1 DEF Rules!Played
<1>. HIDE DEF b, us
<1>. DEFINE v == Rules!Without(b, {m.from, m.to})
            w == Rules!Put(v, kt, k)
            f == Rules!Put(w, rt, r)
<1>12. DOMAIN v = DOMAIN b \ {m.from, m.to} /\ \A t \in DOMAIN b \ {m.from, m.to} : v[t] = b[t]
  BY WithoutIs
<1>13. IsPut(w, v, kt, k) /\ IsPut(f, w, rt, r)
  BY PutIs
<1>. HIDE DEF f, w, v
<1>14. DOMAIN w = (DOMAIN b \ {m.from, m.to}) \cup {kt} /\ w[kt] = k /\ \A t \in DOMAIN b \ {m.from, m.to} : t # kt => w[t] = b[t]
  BY <1>12, <1>13 DEF IsPut
<1>15. /\ IsBoard(nb) /\ DOMAIN nb = (DOMAIN b \ {m.from, m.to}) \cup {kt, rt}
       /\ nb[kt] = k /\ nb[rt] = r /\ kt # rt
       /\ \A x \in DOMAIN b : x \notin {m.from, m.to} => x \notin {kt, rt} /\ nb[x] = b[x]
  BY <1>2 DEF StandsCastled, k, r
<1>16. IsFun(nb) /\ IsFun(f)
  BY <1>13, <1>15 DEF IsBoard, IsFun, IsPut
<1>17. DOMAIN f = DOMAIN nb
  BY <1>13, <1>14, <1>15 DEF IsPut
<1>18. \A t \in DOMAIN w : t # rt => f[t] = w[t]
  BY <1>13 DEF IsPut
<1>19. f[rt] = r
  BY <1>13 DEF IsPut
<1>20. \A t \in DOMAIN f : f[t] = nb[t]
  BY <1>14, <1>15, <1>17, <1>18, <1>19
<1>21. f = nb
  BY <1>16, <1>17, <1>20, SameFun
<1>. QED
  BY <1>10, <1>11, <1>21 DEF nb, g, f, w, v

-------------------------------------------------------------------------------
(***************************************************************************)
(* Blockers, and the lines behind them.                                    *)
(***************************************************************************)
(* A number of steps is least in a set.                                    *)
LEMMA Least ==
  ASSUME NEW S, S \subseteq 1 .. 7, S # {}
  PROVE  \E j \in S : \A i \in S : j <= i
<1>1. CASE 1 \in S
  BY <1>1
<1>2. CASE 1 \notin S /\ 2 \in S
  BY <1>2
<1>3. CASE 1 \notin S /\ 2 \notin S /\ 3 \in S
  BY <1>3
<1>4. CASE 1 \notin S /\ 2 \notin S /\ 3 \notin S /\ 4 \in S
  BY <1>4
<1>5. CASE 1 \notin S /\ 2 \notin S /\ 3 \notin S /\ 4 \notin S /\ 5 \in S
  BY <1>5
<1>6. CASE 1 \notin S /\ 2 \notin S /\ 3 \notin S /\ 4 \notin S /\ 5 \notin S /\ 6 \in S
  BY <1>6
<1>7. CASE 1 \notin S /\ 2 \notin S /\ 3 \notin S /\ 4 \notin S /\ 5 \notin S /\ 6 \notin S
  <2>1. \A i \in S : i = 7
    <3>. TAKE i \in S
    <3>1. i # 1 /\ i # 2 /\ i # 3 /\ i # 4 /\ i # 5 /\ i # 6
      BY <1>7
    <3>2. i \in 1 .. 7
      OBVIOUS
    <3>. QED
      BY <3>1, <3>2
  <2>2. 7 \in S
    BY <2>1
  <2>3. \A i \in S : 7 <= i
    BY <2>1
  <2>. QED
    BY <2>2, <2>3
<1>. QED
  BY <1>1, <1>2, <1>3, <1>4, <1>5, <1>6, <1>7

(* A set that does not hold more than one square holds one.                *)
LEMMA OnlyOne ==
  ASSUME NEW S, S \subseteq Square, ~more_than_one(S), NEW x \in S, NEW y \in S
  PROVE  x = y
<1>1. IsFiniteSet(S) /\ Cardinality(S) \in Nat /\ Cardinality(S) # 0
  BY Finite, FS_CardinalityType, FS_EmptySet
<1>2. Cardinality(S) = 1
  BY <1>1 DEF more_than_one
<1>3. PICK z : S = {z}
  BY <1>1, <1>2, FS_Singleton
<1>. QED
  BY <1>3

(* A blocker is alone between a sniper and the king, other snipers apart.  *)
LEMMA BlockerAlone ==
  ASSUME NEW b, IsBoard(b), NEW c \in Color, square(b, c) \in Square, NEW f \in blockersForKing(b)[c]
  PROVE  /\ f \in DOMAIN b /\ f \in Square /\ f \notin Snipers(b, c)
         /\ \E y \in Snipers(b, c) :
              /\ y \in Square /\ Inside(square(b, c), y, f)
              /\ \A z \in DOMAIN b : Inside(square(b, c), y, z) => z = f \/ z \in Snipers(b, c)
<1>. DEFINE k == square(b, c)
            snipers == Snipers(b, c)
<1>1. blockersForKing(b)[c] = UNION {Blocked(b, c)[s] : s \in snipers}
  BY DEF blockersForKing
<1>2. PICK y \in snipers : f \in Blocked(b, c)[y]
  BY <1>1
<1>3. Blocked(b, c) = [s \in snipers |->
        IF more_than_one(BetweenBB[k][s] \cap (pieces(b) \ snipers)) THEN {} ELSE BetweenBB[k][s] \cap (pieces(b) \ snipers)]
  BY DEF Blocked
<1>. DEFINE between == BetweenBB[k][y] \cap (pieces(b) \ snipers)
<1>4. f \in between /\ ~more_than_one(between)
  BY <1>2, <1>3
<1>5. DOMAIN b \subseteq Square /\ y \in Square
  BY SniperIs DEF IsBoard
<1>6. between \subseteq Square
  BY <1>5 DEF pieces
<1>7. f \in DOMAIN b /\ f # y /\ f \in Square /\ f \notin snipers
  BY <1>2, <1>4, <1>5 DEF pieces
<1>8. Inside(k, y, f)
  BY <1>4, <1>5, <1>7, BetweenIs
<1>9. \A z \in DOMAIN b : Inside(k, y, z) /\ z \notin snipers => z \in between
  BY <1>5, BetweenIs DEF pieces
<1>. HIDE DEF between, snipers
<1>10. \A z \in DOMAIN b : Inside(k, y, z) /\ z \notin snipers => z = f
  BY <1>4, <1>6, <1>9, OnlyOne
<1>. QED
  BY <1>2, <1>5, <1>7, <1>8, <1>10 DEF snipers

(* x eyes the king from behind f, and nothing else is between them. *)
ShieldedBy(b, c, f, x) ==
  /\ x \in Snipers(b, c) /\ x \in Square /\ Inside(x, square(b, c), f)
  /\ \A z \in DOMAIN b : Inside(x, square(b, c), z) => z = f
(* Of the snipers behind a blocker one is next to it, if the king is not   *)
(* in check.                                                               *)
LEMMA Shielded ==
  ASSUME NEW b, IsBoard(b), NEW c \in Color, square(b, c) \in Square, NEW f \in blockersForKing(b)[c],
         ~Attacked(b, DOMAIN b, Them(c), square(b, c))
  PROVE  \E x : ShieldedBy(b, c, f, x)
<1>. DEFINE k == square(b, c)
<1>1. f \in DOMAIN b /\ f \in Square /\ f \notin Snipers(b, c)
  BY BlockerAlone
<1>2. PICK y \in Snipers(b, c) : /\ y \in Square /\ Inside(k, y, f)
                                 /\ \A z \in DOMAIN b : Inside(k, y, z) => z = f \/ z \in Snipers(b, c)
  BY BlockerAlone
<1>3. PICK d \in KingSteps, n \in 1 .. 7, i \in 1 .. 7 : i < n /\ Toward(k, d, n, y) /\ Toward(k, d, i, f)
  BY <1>2 DEF Inside
<1>. DEFINE S == {j \in 1 .. 7 : j <= n /\ \E z \in Snipers(b, c) : Toward(k, d, j, z)}
<1>4. n \in S
  BY <1>2, <1>3
<1>5. PICK j \in S : \A l \in S : j <= l
  BY <1>4, Least
<1>6. PICK x \in Snipers(b, c) : Toward(k, d, j, x)
  BY <1>5
<1>7. /\ x \in DOMAIN b /\ color_of(b[x]) = Them(c) /\ type_of(b[x]) \in {BISHOP, ROOK, QUEEN}
      /\ Aligned(type_of(b[x]), x, k) /\ x \in Square
  BY <1>6, SniperIs DEF IsBoard
<1>8. k \in Square /\ j \in 1 .. 7 /\ j <= n
  BY <1>5
<1>9. DOMAIN b \subseteq Square
  BY DEF IsBoard
<1>10. ASSUME NEW z \in DOMAIN b, Inside(k, x, z)
       PROVE  z = f /\ i < j
  <2>1. PICK l \in 1 .. 7 : l < j /\ Toward(k, d, l, z)
    BY <1>6, <1>7, <1>8, <1>9, <1>10, InsideWay
  <2>2. l < n
    BY <1>8, <2>1
  <2>3. Inside(k, y, z)
    BY <1>2, <1>3, <1>8, <1>9, <2>1, <2>2, InsideWay
  <2>4. z \notin Snipers(b, c)
    <3>. SUFFICES ASSUME z \in Snipers(b, c) PROVE FALSE
      OBVIOUS
    <3>1. l \in S
      BY <2>1, <2>2
    <3>2. j <= l
      BY <1>5, <3>1
    <3>. QED
      BY <1>8, <2>1, <3>2
  <2>5. z = f
    BY <1>2, <2>3, <2>4
  <2>6. l = i
    BY <1>1, <1>3, <1>8, <2>1, <2>5, OneWay
  <2>. QED
    BY <2>1, <2>5, <2>6
<1>11. \A z \in Square : Inside(x, k, z) <=> Inside(k, x, z)
  BY <1>7, <1>8, InsideSym
<1>12. \E z \in DOMAIN b : Inside(k, x, z)
  <2>. SUFFICES ASSUME \A z \in DOMAIN b : ~Inside(k, x, z) PROVE FALSE
    OBVIOUS
  <2>1. Clear(x, k, DOMAIN b)
    BY <1>11 DEF Clear
  <2>2. Hits(b, DOMAIN b, x, k)
    BY <1>7, <2>1 DEF Hits
  <2>. QED
    BY <1>7, <2>2 DEF Attacked
<1>13. Inside(k, x, f)
  BY <1>10, <1>12
<1>. QED
  BY <1>1, <1>6, <1>7, <1>9, <1>10, <1>11, <1>13 DEF ShieldedBy

(* Two squares on the way to the king are on one line with it.             *)
LEMMA LineHas ==
  ASSUME NEW x \in Square, NEW k \in Square, NEW s \in Square, NEW e \in Square,
         Inside(x, k, s), Inside(x, k, e), s # e
  PROVE  s \in LineBB[e][k]
<1>1. PICK d \in KingSteps, n \in 1 .. 7, i \in 1 .. 7, j \in 1 .. 7 :
           Toward(x, d, n, k) /\ Toward(x, d, i, s) /\ Toward(x, d, j, e) /\ i < n /\ j < n
  BY SameWay
<1>2. PICK pt \in {ROOK, BISHOP} : d \in SlideDirections(pt)
  BY SomeLine
<1>3. -d \in SlideDirections(pt) /\ d \in KingSteps
  BY <1>2, Directions
<1>4. Toward(e, d, n - j, k)
  BY <1>1, Rest
<1>5. Toward(k, -d, n - i, s)
  BY <1>1, Rest
<1>6. i # j
  BY <1>1, OnePlace
<1>7. Aligned(pt, e, s)
  <2>1. CASE i < j
    <3>1. Toward(e, -d, j - i, s)
      BY <1>1, <2>1, Rest
    <3>2. j - i \in 1 .. 7
      BY <2>1
    <3>. QED
      BY <1>3, <3>1, <3>2 DEF Aligned
  <2>2. CASE j < i
    <3>1. Toward(e, d, i - j, s)
      BY <1>1, <2>2, Rest
    <3>2. i - j \in 1 .. 7
      BY <2>2
    <3>. QED
      BY <1>2, <3>1, <3>2 DEF Aligned
  <2>. QED
    BY <1>6, <2>1, <2>2
<1>8. Aligned(pt, e, k) /\ Aligned(pt, k, s)
  <2>1. n - i \in 1 .. 7 /\ n - j \in 1 .. 7
    BY <1>1
  <2>. QED
    BY <1>2, <1>3, <1>4, <1>5, <2>1 DEF Aligned
<1>9. k \in PseudoAttacks[pt][e] /\ s \in PseudoAttacks[pt][e] /\ s \in PseudoAttacks[pt][k]
  BY <1>7, <1>8, PseudoIs
<1>10. pt \in AlignedAs(e, k)
  BY <1>9 DEF AlignedAs
<1>. QED
  BY <1>9, <1>10 DEF LineBB

(* Two of one file on the way to the king are on its file.                 *)
LEMMA OneFile ==
  ASSUME NEW x \in Square, NEW k \in Square, NEW f \in Square, NEW e \in Square,
         Inside(x, k, f), Inside(x, k, e), f # e, F(f) = F(e)
  PROVE  F(f) = F(k)
<1>1. PICK d \in KingSteps, n \in 1 .. 7, i \in 1 .. 7, j \in 1 .. 7 :
           Toward(x, d, n, k) /\ Toward(x, d, i, f) /\ Toward(x, d, j, e) /\ i < n /\ j < n
  BY SameWay
<1>2. /\ F(x) \in Int /\ R(x) \in Int /\ F(f) \in Int /\ R(f) \in Int /\ F(e) \in Int /\ R(e) \in Int
      /\ F(k) \in Int /\ R(k) \in Int
  BY Coordinates
<1>3. i \in Int /\ j \in Int /\ n \in Int
  OBVIOUS
<1>4. i # j
  BY <1>1, OnePlace
<1>5. d \in {8, -8}
  BY <1>1, <1>2, <1>3, <1>4 DEF Toward
<1>. QED
  BY <1>1, <1>2, <1>3, <1>5 DEF Toward

(* A pawn, the square it takes and the king on a line: any two give it.    *)
LEMMA LineTurns ==
  ASSUME NEW e \in Square, NEW k \in Square, NEW s \in Square, OnLine(e, k, s), NEW c, Strikes(c, s, e), s # k
  PROVE  OnLine(s, e, k)
<1>1. PICK d \in KingSteps, n \in 1 .. 7 : Toward(e, d, n, k) /\ (s = e \/ \E j \in 1 .. 7 : Toward(e, d, j, s) \/ Toward(e, -d, j, s))
  BY DEF OnLine
<1>2. F(e) \in Int /\ R(e) \in Int /\ F(s) \in Int /\ R(s) \in Int /\ F(k) \in 0 .. 7 /\ R(k) \in 0 .. 7
  BY Coordinates
<1>3. s # e
  BY <1>2 DEF Strikes
<1>4. PICK j \in 1 .. 7 : Toward(e, d, j, s) \/ Toward(e, -d, j, s)
  BY <1>1, <1>3
<1>5. j = 1
  BY <1>2, <1>4 DEF Toward, Strikes
<1>6. -d \in KingSteps /\ -(-d) = d /\ d \in Int
  BY Directions
<1>7. CASE Toward(e, d, j, s)
  <2>1. n # 1
    BY <1>1, <1>5, <1>7, OnePlace
  <2>2. 1 < n
    BY <2>1
  <2>3. Toward(s, d, n - 1, k)
    BY <1>1, <1>5, <1>7, <2>2, Rest
  <2>4. Toward(s, -d, 1, e)
    BY <1>5, <1>7, Reversed
  <2>5. n - 1 \in 1 .. 7
    BY <2>2
  <2>6. Toward(s, -(-d), n - 1, k)
    BY <1>6, <2>3
  <2>. QED
    BY <1>6, <2>4, <2>5, <2>6 DEF OnLine
<1>8. CASE Toward(e, -d, j, s)
  <2>1. Toward(s, d, 1, e)
    BY <1>5, <1>6, <1>8, Reversed
  <2>2. n + 1 \in 1 .. 7
    <3>1. F(s) \in 0 .. 7 /\ R(s) \in 0 .. 7 /\ n \in 1 .. 7
      BY Coordinates
    <3>. QED
      BY <1>1, <1>2, <1>5, <1>8, <3>1 DEF Toward
  <2>3. Toward(s, d, 1 + n, k)
    BY <1>1, <2>1, <2>2, Farther
  <2>. QED
    BY <2>1, <2>2, <2>3 DEF OnLine
<1>. QED
  BY <1>4, <1>7, <1>8

-------------------------------------------------------------------------------
(***************************************************************************)
(* The en passant square: when a capture is safe.                          *)
(***************************************************************************)
(* s takes the pawn on c in passing, and no piece of the other side then   *)
(* hits the king.                                                          *)
TakesSafely(nb, them, s, c, ep, k) ==
  /\ s \in DOMAIN nb /\ nb[s] = make_piece(them, PAWN) /\ Strikes(them, s, ep)
  /\ \A x \in DOMAIN nb :
       color_of(nb[x]) = Them(them) /\ x # c => ~Hits(nb, (DOMAIN nb \ {s, c}) \cup {ep}, x, k)
(* A pawn of the side that is not to move has just passed ep.              *)
JustPassed(nb, them, c, ep, k) ==
  /\ IsBoard(nb) /\ them \in Color /\ KingAt(nb, them, k)
  /\ ep \in Square /\ ep \notin DOMAIN nb /\ c \in DOMAIN nb /\ nb[c] = make_piece(Them(them), PAWN)
  /\ c = ep - pawn_push(them)

(* A capture in passing is safe by the rules if no other piece then hits   *)
(* the king.                                                               *)
LEMMA RulesTakes ==
  ASSUME NEW h, NEW nb, NEW them, NEW c, NEW ep, NEW k, JustPassed(nb, them, c, ep, k),
         h.board = nb, h.turn = them, NEW s \in DOMAIN nb, nb[s] = make_piece(them, PAWN), Strikes(them, s, ep)
  PROVE  Rules!Safe(h, EnPassant(s, ep)) <=> TakesSafely(nb, them, s, c, ep, k)
<1>. DEFINE q == make_piece(them, PAWN)
            tb == Moved(nb, s, c, ep, q)
            m == EnPassant(s, ep)
<1>1. /\ IsBoard(nb) /\ them \in Color /\ KingAt(nb, them, k) /\ k \in Square /\ k \in DOMAIN nb
      /\ ep \in Square /\ ep \notin DOMAIN nb /\ c \in DOMAIN nb /\ nb[c] = make_piece(Them(them), PAWN)
      /\ c = ep - pawn_push(them)
  BY DEF JustPassed, KingAt, IsBoard
<1>2. /\ q \in Piece /\ color_of(q) = them /\ type_of(q) = PAWN /\ color_of(nb[c]) = Them(them) /\ Them(them) # them
      /\ Them(Them(them)) = them /\ type_of(nb[c]) = PAWN /\ type_of(nb[k]) = KING
  <2>1. PAWN \in PieceType /\ KING \in PieceType
    BY Pieces, TypesDiffer
  <2>. QED
    BY <1>1, <2>1, Pieces DEF KingAt
<1>3. s # c /\ c \in Square /\ s # k /\ c # k /\ ep # k
  BY <1>1, <1>2, TypesDiffer DEF IsBoard
<1>4. CanMove(nb, s, c, ep, q)
  BY <1>1, <1>2, <1>3 DEF CanMove
<1>5. IsMoved(tb, nb, s, c, ep, q)
  BY <1>4, MovedBoard
<1>6. Rules!Played(h, m) = tb
  <2>1. m.type = "enpassant" /\ m.from = s /\ m.to = ep
    BY DEF EnPassant
  <2>2. Rules!pawn_push(them) = pawn_push(them)
    BY RulesSpeak
  <2>. HIDE DEF tb, m
  <2>3. Rules!Played(h, m) = Rules!Put(Rules!Without(nb, {s, c}), ep, q)
    BY <1>1, <2>1, <2>2 DEF Rules!Played
  <2>. HIDE DEF q
  <2>. QED
    BY <1>5, <2>3, StandsIs
<1>. HIDE DEF tb, q
<1>7. IsBoard(tb) /\ DOMAIN tb = (DOMAIN nb \ {s, c}) \cup {ep} /\ tb[ep] = q
  BY <1>5 DEF IsMoved
<1>8. \A x \in DOMAIN tb : x # ep => x \in DOMAIN nb /\ x # s /\ x # c /\ tb[x] = nb[x]
  BY <1>5 DEF IsMoved
<1>9. KingAt(tb, them, k)
  <2>1. k \in DOMAIN tb /\ tb[k] = make_piece(them, KING)
    BY <1>1, <1>3, <1>7, <1>8 DEF KingAt
  <2>2. ASSUME NEW x \in DOMAIN tb, tb[x] = make_piece(them, KING) PROVE x = k
    <3>1. x # ep
      <4>1. type_of(make_piece(them, KING)) = KING
        BY <1>1, <1>2 DEF KingAt
      <4>. QED
        BY <1>2, <1>7, <2>2, <4>1, TypesDiffer
    <3>. QED
      BY <1>1, <1>8, <2>2, <3>1 DEF KingAt
  <2>. QED
    BY <2>1, <2>2 DEF KingAt
<1>10. Rules!InCheck(tb, them) <=> Attacked(tb, DOMAIN tb, Them(them), k)
  BY <1>7, <1>9, RulesCheck
<1>. DEFINE O == (DOMAIN nb \ {s, c}) \cup {ep}
<1>11. Attacked(tb, DOMAIN tb, Them(them), k)
         <=> \E x \in DOMAIN nb : color_of(nb[x]) = Them(them) /\ x # c /\ Hits(nb, O, x, k)
  <2>1. ASSUME NEW x \in DOMAIN tb, color_of(tb[x]) = Them(them), Hits(tb, DOMAIN tb, x, k)
        PROVE  \E y \in DOMAIN nb : color_of(nb[y]) = Them(them) /\ y # c /\ Hits(nb, O, y, k)
    <3>1. x # ep
      BY <1>2, <1>7, <2>1
    <3>2. x \in DOMAIN nb /\ x # c /\ tb[x] = nb[x]
      BY <1>8, <3>1
    <3>3. Hits(nb, O, x, k)
      BY <1>7, <2>1, <3>2, HitsOld
    <3>. QED
      BY <2>1, <3>2, <3>3
  <2>2. ASSUME NEW x \in DOMAIN nb, color_of(nb[x]) = Them(them), x # c, Hits(nb, O, x, k)
        PROVE  \E y \in DOMAIN tb : color_of(tb[y]) = Them(them) /\ Hits(tb, DOMAIN tb, y, k)
    <3>1. x # s
      BY <1>2, <2>2 DEF q
    <3>2. x \in DOMAIN tb /\ x # ep
      BY <1>1, <1>7, <2>2, <3>1
    <3>3. tb[x] = nb[x]
      BY <1>8, <3>2
    <3>4. Hits(tb, DOMAIN tb, x, k)
      BY <1>7, <2>2, <3>2, <3>3, HitsOld
    <3>. QED
      BY <2>2, <3>2, <3>3, <3>4
  <2>. QED
    BY <2>1, <2>2 DEF Attacked
<1>12. Rules!Safe(h, m) <=> ~Rules!InCheck(tb, them)
  <2>. HIDE DEF m
  <2>. QED
    BY <1>6 DEF Rules!Safe
<1>. QED
  BY <1>10, <1>11, <1>12 DEF TakesSafely

(* The pawn that was passed is takeable by the rules if a capture is safe. *)
LEMMA RulesTakeable ==
  ASSUME NEW h, NEW nb, NEW them, NEW c, NEW ep, NEW k, JustPassed(nb, them, c, ep, k),
         h.board = nb, h.turn = them, h.ep = ep
  PROVE  Rules!Takeable(h) <=> \E s : TakesSafely(nb, them, s, c, ep, k)
<1>1. IsBoard(nb) /\ them \in Color /\ ep \in Square
  BY DEF JustPassed
<1>2. \A x : x \in Rules!Attackers(nb, ep, them) <=> x \in DOMAIN nb /\ color_of(nb[x]) = them /\ Hits(nb, DOMAIN nb, x, ep)
  BY <1>1, RulesAttackers
<1>3. \A s : [Rules!Step(s, ep) EXCEPT !.type = "enpassant"] = EnPassant(s, ep)
  BY RulesMoveKinds
<1>4. \A pc : Rules!type_of(pc) = type_of(pc) /\ Rules!PAWN = PAWN
  BY RulesSpeak
<1>5. Rules!Takeable(h)
        <=> \E s \in Rules!Attackers(nb, ep, them) : type_of(nb[s]) = PAWN /\ Rules!Safe(h, EnPassant(s, ep))
  BY <1>3, <1>4 DEF Rules!Takeable
<1>6. \A s \in DOMAIN nb : /\ nb[s] = make_piece(them, PAWN) <=> color_of(nb[s]) = them /\ type_of(nb[s]) = PAWN
                           /\ nb[s] = make_piece(them, PAWN) => (Hits(nb, DOMAIN nb, s, ep) <=> Strikes(them, s, ep))
  BY <1>1, OwnPawns, HitsElse
<1>7. ASSUME NEW s \in Rules!Attackers(nb, ep, them), type_of(nb[s]) = PAWN, Rules!Safe(h, EnPassant(s, ep))
      PROVE  TakesSafely(nb, them, s, c, ep, k)
  <2>1. s \in DOMAIN nb /\ color_of(nb[s]) = them /\ Hits(nb, DOMAIN nb, s, ep)
    BY <1>2
  <2>2. nb[s] = make_piece(them, PAWN) /\ Strikes(them, s, ep)
    BY <1>6, <1>7, <2>1
  <2>. QED
    BY <1>7, <2>1, <2>2, RulesTakes
<1>8. ASSUME NEW s, TakesSafely(nb, them, s, c, ep, k)
      PROVE  s \in Rules!Attackers(nb, ep, them) /\ type_of(nb[s]) = PAWN /\ Rules!Safe(h, EnPassant(s, ep))
  <2>1. s \in DOMAIN nb /\ nb[s] = make_piece(them, PAWN) /\ Strikes(them, s, ep)
    BY <1>8 DEF TakesSafely
  <2>2. color_of(nb[s]) = them /\ type_of(nb[s]) = PAWN /\ Hits(nb, DOMAIN nb, s, ep)
    BY <1>6, <2>1
  <2>3. Rules!Safe(h, EnPassant(s, ep))
    BY <1>8, <2>1, RulesTakes
  <2>. QED
    BY <1>2, <2>1, <2>2, <2>3
<1>. QED
  BY <1>5, <1>7, <1>8

(* A double push leaves a pawn just passed.                                *)
LEMMA PushPasses ==
  ASSUME NEW p, Sound(p), NEW m, PushedBoard(p, m, After1(p, m)), m.to \in Square
  PROVE  JustPassed(After1(p, m), Them(p.sideToMove), m.to, m.to - pawn_push(p.sideToMove), TheirKing(p))
<1>. DEFINE nb == After1(p, m)
            us == p.sideToMove
            ep == m.to - pawn_push(us)
<1>1. us \in Color /\ Them(us) \in Color /\ Them(Them(us)) = us
  BY SoundFacts, Opposite
<1>. HIDE DEF nb
<1>2. /\ IsBoard(nb) /\ DOMAIN nb = (DOMAIN p.board \ {m.from}) \cup {m.to} /\ nb[m.to] = make_piece(us, PAWN)
      /\ KingAt(nb, Them(us), TheirKing(p)) /\ ep - pawn_push(Them(us)) = m.to /\ ep \in Square /\ ep \notin DOMAIN nb
  BY DEF PushedBoard, nb
<1>. HIDE DEF us, ep
<1>3. JustPassed(nb, Them(us), m.to, ep, TheirKing(p))
  BY <1>1, <1>2 DEF JustPassed
<1>. QED
  BY <1>3 DEF nb, us, ep

(* If do_move sets an en passant square, a capture there is safe.          *)
LEMMA PushTakeable ==
  ASSUME NEW p, Sound(p), NEW m, PawnGoes(p.board, p.sideToMove, m), EpPushed(p, m)
  PROVE  \E s : TakesSafely(After1(p, m), Them(p.sideToMove), s, m.to, m.to - pawn_push(p.sideToMove), TheirKing(p))
<1>. DEFINE us == p.sideToMove
            them == Them(us)
            b == p.board
            nb == After1(p, m)
            c == m.to
            g == m.from
            ep == m.to - pawn_push(us)
            k == TheirKing(p)
<1>1. /\ IsBoard(b) /\ us \in Color /\ them \in Color /\ k \in Square /\ KingAt(b, them, k)
      /\ Them(them) = us /\ us # them
  BY SoundFacts, Opposite
<1>2. DoublePush(b, us, m)
  BY PushFacts
<1>3. PICK s \in DOMAIN b : /\ b[s] = make_piece(them, PAWN) /\ Strikes(them, s, ep)
                            /\ s \in blockersForKing(b)[them] => OnLine(ep, k, s)
  BY PushFacts
<1>4. PushedBoard(p, m, nb)
  BY <1>2, PushBoard
<1>5. /\ IsBoard(nb) /\ DOMAIN nb = (DOMAIN b \ {g}) \cup {c} /\ ep \in Square /\ ep \notin DOMAIN nb
      /\ \A x \in DOMAIN nb : x # c => x \in DOMAIN b /\ x # g /\ nb[x] = b[x]
      /\ k \in DOMAIN nb
  BY <1>4 DEF PushedBoard
<1>6. g \in DOMAIN b /\ b[g] = make_piece(us, PAWN) /\ c \notin DOMAIN b
  BY <1>2 DEF DoublePush
<1>7. /\ color_of(make_piece(us, PAWN)) = us /\ color_of(make_piece(them, PAWN)) = them
      /\ type_of(make_piece(them, PAWN)) = PAWN /\ type_of(b[k]) = KING
  BY <1>1, Pieces, TypesDiffer DEF KingAt
<1>8. s \in DOMAIN nb /\ s # c /\ nb[s] = b[s] /\ s \in Square /\ s # k
  BY <1>1, <1>3, <1>5, <1>6, <1>7, TypesDiffer DEF IsBoard
<1>9. k = square(b, them)
  BY <1>1, KingSquare
<1>10. ep \notin DOMAIN b
  BY <1>2 DEF DoublePush
<1>11. ASSUME NEW x \in DOMAIN nb, color_of(nb[x]) = us, x # c,
              Hits(nb, (DOMAIN nb \ {s, c}) \cup {ep}, x, k)
       PROVE  FALSE
  <2>1. /\ Bared(b, s, c, ep, x, k) /\ b[x] = nb[x]
        /\ Eyes(b, (DOMAIN nb \ {s, c}) \cup {ep}, us, x, k)
    <3>. HIDE DEF ep, nb
    <3>1. nb = After1(p, m) /\ ep = m.to - pawn_push(p.sideToMove)
      BY DEF nb, ep
    <3>2. s \in DOMAIN nb /\ nb[s] = make_piece(Them(p.sideToMove), PAWN) /\ Strikes(Them(p.sideToMove), s, ep)
      BY <1>3, <1>8
    <3>. QED
      BY <1>11, <3>1, <3>2, PushBares
  <2>. HIDE DEF nb, ep, k, them, us, c, g, b
  <2>2. /\ Inside(x, k, s) /\ ~Inside(x, k, ep) /\ \A z \in DOMAIN b : Inside(x, k, z) => z = s
    BY <2>1 DEF Bared
  <2>3. x \in DOMAIN b /\ color_of(b[x]) = us /\ type_of(b[x]) \in {BISHOP, ROOK, QUEEN} /\ Aligned(type_of(b[x]), x, k)
    BY <2>1 DEF Eyes
  <2>4. x \in Square
    BY <1>1, <2>3 DEF IsBoard
  <2>5. s \in blockersForKing(b)[them]
    BY <1>1, <1>3, <1>7, <1>9, <2>2, <2>3, OnlyShield
  <2>6. OnLine(ep, k, s)
    BY <1>3, <2>5
  <2>7. OnLine(s, ep, k)
    BY <1>1, <1>3, <1>5, <1>8, <2>6, LineTurns
  <2>8. ep # x /\ ep # k
    BY <1>5, <1>10, <2>3
  <2>9. ~Inside(s, ep, k) /\ ~Inside(s, ep, x)
    BY <1>1, <1>3, <1>5, <1>8, <2>4, NothingInside
  <2>10. Inside(x, k, ep)
    BY <1>1, <1>5, <1>8, <2>2, <2>4, <2>7, <2>8, <2>9, StaysInside
  <2>. QED
    BY <2>2, <2>10
<1>. HIDE DEF nb, ep, k
<1>12. TakesSafely(nb, them, s, c, ep, k)
  BY <1>1, <1>3, <1>8, <1>11 DEF TakesSafely
<1>. QED
  BY <1>12 DEF nb, ep, k

-------------------------------------------------------------------------------
(***************************************************************************)
(* The en passant square: when no capture is.                              *)
(***************************************************************************)
(* A sniper hits the king once its blocker has gone and nothing stands     *)
(* between.                                                                *)
LEMMA Unshielded ==
  ASSUME NEW b, IsBoard(b), NEW us \in Color, NEW k, k = square(b, us), k \in Square, NEW f, NEW x, ShieldedBy(b, us, f, x),
         NEW occ, NEW e, \A z \in occ : z = e \/ (z \in DOMAIN b /\ z # f), Inside(x, k, e) => e \notin occ
  PROVE  x \in DOMAIN b /\ x \in Square /\ color_of(b[x]) = Them(us) /\ type_of(b[x]) \in {BISHOP, ROOK, QUEEN} /\ Hits(b, occ, x, k)
<1>1. /\ x \in Snipers(b, us) /\ x \in Square /\ Inside(x, k, f)
      /\ \A z \in DOMAIN b : Inside(x, k, z) => z = f
  BY DEF ShieldedBy
<1>2. /\ x \in DOMAIN b /\ color_of(b[x]) = Them(us) /\ type_of(b[x]) \in {BISHOP, ROOK, QUEEN}
      /\ Aligned(type_of(b[x]), x, k)
  BY <1>1, SniperIs
<1>3. Clear(x, k, occ)
  BY <1>1 DEF Clear
<1>. QED
  BY <1>1, <1>2, <1>3 DEF Hits

(* If do_move sets none although a pawn stands there: the pawn pushed, or  *)
(* the one that takes, was pinned.                                         *)
LEMMA EpFails ==
  ASSUME NEW p, Sound(p), NEW m, DoublePush(p.board, p.sideToMove, m), ~EpPushed(p, m),
         NEW s \in DOMAIN p.board, p.board[s] = make_piece(Them(p.sideToMove), PAWN),
         Strikes(Them(p.sideToMove), s, m.to - pawn_push(p.sideToMove))
  PROVE  LET them == Them(p.sideToMove)  b == p.board  k == TheirKing(p)  ep == m.to - pawn_push(p.sideToMove) IN
         \/ m.from \in blockersForKing(b)[them] /\ F(m.from) # F(k)
         \/ s \in blockersForKing(b)[them] /\ s \notin LineBB[ep][k]
<1>. DEFINE us == p.sideToMove
            them == Them(us)
            b == p.board
            ep == m.to - pawn_push(us)
            k == TheirKing(p)
<1>1. /\ IsBoard(b) /\ us \in Color /\ them \in Color /\ k \in Square /\ St(p).blockersForKing = blockersForKing(b)
      /\ Them(them) = us
  BY SoundFacts, Opposite
<1>2. /\ m.from \in Square /\ m.to \in Square /\ ep \in Square /\ Ahead(us, m.from, m.to, 2) /\ b[m.from] = make_piece(us, PAWN)
  BY DEF DoublePush
<1>3. ep # SQ_NONE
  BY <1>2 DEF Square, SQ_NONE
<1>4. Abs(m.to - m.from) = 16
  <2>1. m.to = m.from + 2 * pawn_push(us)
    BY <1>1, <1>2, Forward
  <2>2. pawn_push(us) \in {8, -8} /\ m.from \in Int
    BY <1>1, <1>2, Opposite, Coordinates
  <2>. QED
    BY <2>1, <2>2 DEF Abs
<1>5. type_of(b[m.from]) = PAWN
  BY <1>1, <1>2, Pieces, TypesDiffer
<1>6. s \in Square /\ type_of(b[s]) = PAWN /\ color_of(b[s]) = them
  BY <1>1, Pieces, TypesDiffer DEF IsBoard
<1>7. s \in PawnAttacks[us][ep]
  <2>1. Strikes(us, ep, s)
    BY <1>1, <1>2, <1>6, StepsSym
  <2>. QED
    BY <1>1, <1>2, <1>6, <2>1, PawnIs
<1>8. s \in PawnAttacks[us][ep] \cap Exactly(b, them, {PAWN})
  BY <1>6, <1>7 DEF Exactly
<1>9. square(b, them) = k
  BY DEF TheirKing
<1>10. ~(/\ m.from \notin blockersForKing(b)[them] \/ file_of(m.from) = file_of(k)
         /\ {z \in PawnAttacks[us][ep] \cap Exactly(b, them, {PAWN}) :
               z \notin blockersForKing(b)[them] \/ z \in LineBB[ep][k]} # {})
  <2>. SUFFICES ASSUME m.from \notin blockersForKing(b)[them] \/ file_of(m.from) = file_of(k),
                       {z \in PawnAttacks[us][ep] \cap Exactly(b, them, {PAWN}) :
                          z \notin blockersForKing(b)[them] \/ z \in LineBB[ep][k]} # {}
                PROVE  FALSE
    OBVIOUS
  <2>1. EpAfter(p, m) = ep
    BY <1>1, <1>4, <1>5, <1>9 DEF EpAfter
  <2>. QED
    BY <1>3, <2>1 DEF EpPushed
<1>11. s \notin blockersForKing(b)[them] \/ s \in LineBB[ep][k]
         => {z \in PawnAttacks[us][ep] \cap Exactly(b, them, {PAWN}) :
               z \notin blockersForKing(b)[them] \/ z \in LineBB[ep][k]} # {}
  BY <1>8
<1>. QED
  BY <1>10, <1>11 DEF F

(* In that case no capture is safe.                                        *)
LEMMA PushNotTakeable ==
  ASSUME NEW p, Sound(p), NEW m, PawnGoes(p.board, p.sideToMove, m), DoublePush(p.board, p.sideToMove, m), ~EpPushed(p, m),
         NEW s, TakesSafely(After1(p, m), Them(p.sideToMove), s, m.to, m.to - pawn_push(p.sideToMove), TheirKing(p))
  PROVE  FALSE
<1>. DEFINE us == p.sideToMove
            them == Them(us)
            b == p.board
            nb == After1(p, m)
            c == m.to
            g == m.from
            ep == m.to - pawn_push(us)
            k == TheirKing(p)
            O == (DOMAIN nb \ {s, c}) \cup {ep}
<1>1. /\ IsBoard(b) /\ us \in Color /\ them \in Color /\ k \in Square /\ KingAt(b, them, k)
      /\ Them(them) = us /\ us # them
  BY SoundFacts, Opposite
<1>2. PushedBoard(p, m, nb)
  BY PushBoard
<1>3. /\ IsBoard(nb) /\ DOMAIN nb = (DOMAIN b \ {g}) \cup {c} /\ nb[c] = make_piece(us, PAWN)
      /\ \A x \in DOMAIN nb : x # c => x \in DOMAIN b /\ x # g /\ nb[x] = b[x]
  BY <1>2 DEF PushedBoard
<1>4. /\ g \in DOMAIN b /\ g \in Square /\ c \in Square /\ c \notin DOMAIN b /\ ep \in Square /\ ep \notin DOMAIN b
      /\ Ahead(us, g, ep, 1) /\ b[g] = make_piece(us, PAWN)
  BY DEF DoublePush
<1>5. /\ s \in DOMAIN nb /\ nb[s] = make_piece(them, PAWN) /\ Strikes(them, s, ep)
      /\ \A x \in DOMAIN nb : color_of(nb[x]) = us /\ x # c => ~Hits(nb, O, x, k)
  BY <1>1 DEF TakesSafely
<1>6. /\ color_of(make_piece(us, PAWN)) = us /\ color_of(make_piece(them, PAWN)) = them
      /\ type_of(make_piece(us, PAWN)) = PAWN
  BY <1>1, Pieces, TypesDiffer
<1>7. s # c /\ s \in DOMAIN b /\ b[s] = make_piece(them, PAWN) /\ s \in Square /\ s # g
  <2>1. s # c
    BY <1>1, <1>3, <1>5, <1>6
  <2>2. s \in DOMAIN b /\ nb[s] = b[s] /\ s # g
    BY <1>3, <1>5, <2>1
  <2>. QED
    BY <1>1, <1>5, <2>1, <2>2 DEF IsBoard
<1>8. k = square(b, them)
  BY <1>1, KingSquare
<1>9. ~Attacked(b, DOMAIN b, us, square(b, them))
  BY DEF Sound, Level
<1>10. \/ g \in blockersForKing(b)[them] /\ F(g) # F(k)
       \/ s \in blockersForKing(b)[them] /\ s \notin LineBB[ep][k]
  BY <1>5, <1>7, EpFails
<1>. HIDE DEF nb, ep, k, us, them, b, c, g
<1>11. F(ep) = F(g) /\ ep # g
  BY <1>4 DEF Ahead
<1>12. \A z \in O : z = ep \/ (z \in DOMAIN b /\ z # g /\ z # s)
  BY <1>3
<1>13. s # ep
  BY <1>4, <1>7
<1>14. ASSUME NEW f \in {g, s}, f \in blockersForKing(b)[them],
              \A x \in Square : Inside(x, k, f) => ~Inside(x, k, ep)
       PROVE  FALSE
  <2>1. PICK x : ShieldedBy(b, them, f, x)
    BY <1>1, <1>8, <1>9, <1>14, Shielded
  <2>2. x \in Square /\ Inside(x, k, f)
    BY <1>8, <2>1 DEF ShieldedBy
  <2>3. ~Inside(x, k, ep)
    BY <1>14, <2>2
  <2>4. \A z \in O : z = ep \/ (z \in DOMAIN b /\ z # f)
    BY <1>12
  <2>. HIDE DEF O
  <2>5. /\ x \in DOMAIN b /\ color_of(b[x]) = us /\ type_of(b[x]) \in {BISHOP, ROOK, QUEEN} /\ Hits(b, O, x, k)
    BY <1>1, <1>8, <2>1, <2>3, <2>4, Unshielded
  <2>6. x # g
    BY <1>4, <1>6, <2>5, TypesDiffer
  <2>7. x # c
    BY <1>4, <2>5
  <2>8. x \in DOMAIN nb /\ nb[x] = b[x]
    BY <1>3, <2>5, <2>6, <2>7
  <2>9. Hits(nb, O, x, k)
    BY <2>5, <2>8, HitsOld
  <2>. QED
    BY <1>5, <2>5, <2>7, <2>8, <2>9
<1>15. CASE g \in blockersForKing(b)[them] /\ F(g) # F(k)
  <2>1. \A x \in Square : Inside(x, k, g) => ~Inside(x, k, ep)
    BY <1>1, <1>4, <1>11, <1>15, OneFile
  <2>. QED
    BY <1>14, <1>15, <2>1
<1>16. CASE s \in blockersForKing(b)[them] /\ s \notin LineBB[ep][k]
  <2>1. \A x \in Square : Inside(x, k, s) => ~Inside(x, k, ep)
    BY <1>1, <1>4, <1>7, <1>13, <1>16, LineHas
  <2>. QED
    BY <1>14, <1>16, <2>1
<1>. QED
  BY <1>10, <1>15, <1>16

-------------------------------------------------------------------------------
(***************************************************************************)
(* The en passant square and the castling rights after a move.             *)
(***************************************************************************)
(* A double push passes the square behind the pawn.                        *)
LEMMA PassedPush ==
  ASSUME NEW p, Sound(p), NEW m, PawnGoes(p.board, p.sideToMove, m), DoublePush(p.board, p.sideToMove, m)
  PROVE  Rules!Passed(Situation(p), m) = m.to - pawn_push(p.sideToMove)
<1>. DEFINE us == p.sideToMove
            b == p.board
            g == Situation(p)
            ep == m.to - pawn_push(us)
<1>1. IsBoard(b) /\ us \in Color
  BY SoundFacts
<1>2. /\ m.from \in Square /\ m.to \in Square /\ ep \in Square /\ Ahead(us, m.from, ep, 1) /\ Ahead(us, m.from, m.to, 2)
      /\ b[m.from] = make_piece(us, PAWN)
  BY DEF DoublePush
<1>3. g.board = b
  BY Situated
<1>4. type_of(b[m.from]) = PAWN
  BY <1>1, <1>2, Pieces, TypesDiffer
<1>5. Rules!Abs(Rules!Ranks(m.from, m.to)) = 2
  <2>1. PICK df, dr : Apart(m.from, m.to, df, dr)
    BY <1>2, ApartIs
  <2>2. R(m.from) \in Int /\ R(m.to) \in Int
    BY <1>2, Coordinates
  <2>3. dr \in {2, -2}
    BY <1>2, <2>1, <2>2 DEF Apart, Ahead
  <2>4. Size(dr) = 2
    BY <2>3 DEF Size
  <2>. QED
    BY <2>1, <2>4, RulesApart
<1>6. (m.from + m.to) \div 2 = ep
  <2>1. m.to = m.from + 2 * pawn_push(us)
    BY <1>1, <1>2, Forward
  <2>2. pawn_push(us) \in {8, -8} /\ m.from \in Int /\ m.from >= 0
    BY <1>1, <1>2, Opposite, Coordinates DEF Square
  <2>3. ep = m.from + pawn_push(us)
    BY <2>1, <2>2
  <2>4. m.from + m.to = 2 * ep /\ ep \in Int
    BY <2>1, <2>2, <2>3
  <2>. HIDE DEF ep
  <2>. QED
    BY <2>4
<1>7. Rules!type_of(b[m.from]) = type_of(b[m.from]) /\ Rules!PAWN = PAWN
  BY RulesSpeak
<1>. HIDE DEF g, ep
<1>. QED
  BY <1>3, <1>4, <1>5, <1>6, <1>7 DEF Rules!Passed, g, ep

(* Other moves pass no square, and do_move sets none.                      *)
LEMMA PassedNot ==
  ASSUME NEW p, Sound(p), NEW m, Plays(p, m), ~(PawnGoes(p.board, p.sideToMove, m) /\ Abs(m.to - m.from) = 16)
  PROVE  Rules!Passed(Situation(p), m) = SQ_NONE /\ EpAfter(p, m) = SQ_NONE
<1>. DEFINE us == p.sideToMove
            b == p.board
            g == Situation(p)
<1>1. IsBoard(b) /\ us \in Color /\ PAWN \in PieceType /\ KING \in PieceType
  BY SoundFacts, Pieces, TypesDiffer
<1>2. g.board = b /\ Rules!type_of(b[m.from]) = type_of(b[m.from]) /\ Rules!PAWN = PAWN /\ Rules!SQ_NONE = SQ_NONE
  BY Situated, RulesSpeak
<1>3. \/ type_of(b[m.from]) # PAWN
      \/ /\ m.from \in Square /\ m.to \in Square
         /\ (Ahead(us, m.from, m.to, 1) \/ Strikes(us, m.from, m.to))
      \/ PawnGoes(b, us, m) /\ Ahead(us, m.from, m.to, 2) /\ m.from \in Square /\ m.to \in Square
  <2>1. CASE PieceGoes(b, us, m)
    BY <2>1, TypesDiffer DEF PieceGoes
  <2>2. CASE PawnGoes(b, us, m)
    BY <1>1, <2>2 DEF PawnGoes, Mover, PawnWay, IsBoard
  <2>3. CASE Passing(b, us, St(p).epSquare, m)
    <3>1. m.to \in Square
      BY <2>3, PassingProper
    <3>. QED
      BY <1>1, <2>3, <3>1 DEF Passing, IsBoard
  <2>4. CASE \E cr : CastlesWith(p, m, cr)
    <3>1. Castles(b, us, m)
      BY <2>4, CastlingProper
    <3>2. b[m.from] = make_piece(us, KING)
      BY <3>1 DEF Castles
    <3>. QED
      BY <1>1, <3>2, Pieces, TypesDiffer
  <2>. QED
    BY <2>1, <2>2, <2>3, <2>4 DEF Plays
<1>4. \/ type_of(b[m.from]) # PAWN
      \/ Rules!Abs(Rules!Ranks(m.from, m.to)) # 2 /\ Abs(m.to - m.from) # 16
  <2>1. ASSUME m.from \in Square, m.to \in Square, Ahead(us, m.from, m.to, 1) \/ Strikes(us, m.from, m.to)
        PROVE  Rules!Abs(Rules!Ranks(m.from, m.to)) # 2 /\ Abs(m.to - m.from) # 16
    <3>1. PICK df, dr : Apart(m.from, m.to, df, dr)
      BY <2>1, ApartIs
    <3>2. F(m.from) \in Int /\ F(m.to) \in Int /\ R(m.from) \in Int /\ R(m.to) \in Int
          /\ m.from = 8 * R(m.from) + F(m.from) /\ m.to = 8 * R(m.to) + F(m.to)
      BY <2>1, Coordinates
    <3>3. R(m.to) - R(m.from) \in {1, -1} /\ F(m.to) - F(m.from) \in {0, 1, -1}
      BY <2>1, <3>2 DEF Ahead, Strikes
    <3>4. dr \in {1, -1}
      BY <3>1, <3>3 DEF Apart
    <3>5. Size(dr) # 2
      BY <3>4 DEF Size
    <3>6. m.to - m.from = 8 * (R(m.to) - R(m.from)) + (F(m.to) - F(m.from))
      BY <3>2
    <3>7. m.to - m.from \in -9 .. 9
      BY <3>3, <3>6
    <3>8. Abs(m.to - m.from) # 16
      BY <3>7 DEF Abs
    <3>. QED
      BY <3>1, <3>5, <3>8, RulesApart
  <2>2. ASSUME PawnGoes(b, us, m), Ahead(us, m.from, m.to, 2), m.from \in Square, m.to \in Square
        PROVE  FALSE
    <3>1. m.to = m.from + 2 * pawn_push(us)
      BY <1>1, <2>2, Forward
    <3>2. pawn_push(us) \in {8, -8} /\ m.from \in Int
      BY <1>1, <2>2, Opposite, Coordinates
    <3>3. Abs(m.to - m.from) = 16
      BY <3>1, <3>2 DEF Abs
    <3>. QED
      BY <2>2, <3>3
  <2>. QED
    BY <1>3, <2>1, <2>2
<1>5. EpAfter(p, m) = SQ_NONE
  <2>1. type_of(b[m.from]) # PAWN \/ Abs(m.to - m.from) # 16
    BY <1>4
  <2>. QED
    BY <2>1, NoEp
<1>. HIDE DEF g
<1>6. Rules!Passed(g, m) = SQ_NONE
  BY <1>2, <1>4 DEF Rules!Passed
<1>. QED
  BY <1>5, <1>6 DEF g

(* The en passant square counts by the rules if a capture is legal.        *)
LEMMA RulesSettled ==
  ASSUME NEW h, NEW e, h = [board |-> h.board, turn |-> h.turn, ep |-> h.ep, rights |-> h.rights],
         e = IF h.ep # SQ_NONE /\ Rules!Takeable(h) THEN h.ep ELSE SQ_NONE
  PROVE  Rules!Settled(h) = [board |-> h.board, turn |-> h.turn, rights |-> h.rights, ep |-> e]
<1>1. Rules!SQ_NONE = SQ_NONE
  BY RulesSpeak
<1>2. Rules!Settled(h) = IF h.ep # SQ_NONE /\ ~Rules!Takeable(h) THEN [h EXCEPT !.ep = SQ_NONE] ELSE h
  BY <1>1 DEF Rules!Settled
<1>3. CASE h.ep # SQ_NONE /\ ~Rules!Takeable(h)
  <2>1. Rules!Settled(h) = [h EXCEPT !.ep = SQ_NONE]
    BY <1>2, <1>3
  <2>2. e = SQ_NONE
    BY <1>3
  <2>3. [h EXCEPT !.ep = SQ_NONE] = [board |-> h.board, turn |-> h.turn, rights |-> h.rights, ep |-> SQ_NONE]
    OBVIOUS
  <2>. QED
    BY <2>1, <2>2, <2>3
<1>4. CASE ~(h.ep # SQ_NONE /\ ~Rules!Takeable(h))
  <2>1. Rules!Settled(h) = h /\ e = h.ep
    BY <1>2, <1>4
  <2>. QED
    BY <2>1
<1>. QED
  BY <1>3, <1>4

(* The castling rights after a move, by the rules, are those of            *)
(* castlingRightsMask.                                                     *)
LEMMA RulesRights ==
  ASSUME NEW p, Sound(p), p.castling = pos.castling, NEW m, Plays(p, m)
  PROVE  {cr \in St(p).castlingRights : {m.from, m.to} \cap {Homes[cr].king, Homes[cr].rook} = {}} = RightsAfter(p, m)
<1>. DEFINE rights == St(p).castlingRights
            us == p.sideToMove
<1>1. CastlingsSound(p.castling, p.chess960) /\ RightsSound(p.board, p.castling, rights) /\ us \in Color /\ IsBoard(p.board)
  BY DEF Sound, Level
<1>2. \A x \in rights : x \in DOMAIN p.castling
  BY <1>1 DEF RightsSound
<1>3. \A x \in rights : Homes[x].king = p.castling[x].king /\ Homes[x].rook = p.castling[x].rook
  BY <1>2 DEF Homes
<1>4. \A x \in rights : \A s : x \in castlingRightsMask(p, s) <=> s = p.castling[x].king \/ s = p.castling[x].rook
  BY <1>2 DEF castlingRightsMask
<1>. DEFINE a == Arrival(us, m)
<1>5. \A x : x \in RightsAfter(p, m)
             <=> x \in rights /\ x \notin castlingRightsMask(p, m.from) /\ x \notin castlingRightsMask(p, a)
  BY DEF RightsAfter
<1>6. ASSUME NEW x \in rights
      PROVE  (m.to = p.castling[x].king \/ m.to = p.castling[x].rook \/ m.from = p.castling[x].king \/ m.from = p.castling[x].rook)
             <=> (a = p.castling[x].king \/ a = p.castling[x].rook \/ m.from = p.castling[x].king \/ m.from = p.castling[x].rook)
  <2>1. CASE m.type # "castling"
    BY <2>1 DEF Arrival
  <2>2. CASE m.type = "castling"
    <3>1. PICK cr : CastlesWith(p, m, cr)
      <4>1. ~PieceGoes(p.board, us, m)
        BY <2>2 DEF PieceGoes
      <4>2. ~PawnGoes(p.board, us, m)
        BY <2>2 DEF PawnGoes
      <4>3. ~Passing(p.board, us, St(p).epSquare, m)
        BY <2>2 DEF Passing
      <4>. QED
        BY <4>1, <4>2, <4>3 DEF Plays
    <3>2. CastlingRight(us, m) = cr /\ m.from = MyKing(p)
      BY <3>1, CastlingProper
    <3>3. HomeRight(p, cr) /\ m.to = p.castling[cr].rook
      BY <3>1 DEF CastlesWith, HomeRight, Castle
    <3>4. /\ R(MyKing(p)) = R(KingTarget(cr)) /\ R(p.castling[cr].rook) = R(KingTarget(cr))
      BY <3>3, RightHome
    <3>5. a = KingTarget(cr)
      BY <2>2, <3>2 DEF Arrival
    <3>6. x \in DOMAIN p.castling /\ x \in {1, 2, 4, 8} /\ cr \in {1, 2, 4, 8} /\ cr \in CastlingOf(us)
      BY <1>1, <1>2, <3>3 DEF CastlingsSound, HomeRight, CastlingOf
    <3>7. CASE x \in CastlingOf(us)
      <4>1. HomeRight(p, x)
        BY <3>7 DEF HomeRight
      <4>2. p.castling[x].king = m.from
        BY <3>2, <4>1, RightHome
      <4>. QED
        BY <4>2
    <3>8. CASE x \notin CastlingOf(us)
      <4>1. Them(us) \in Color /\ x \in CastlingOf(Them(us)) /\ us \in {0, 1} /\ Them(us) = 1 - us /\ WHITE = 0
        BY <1>1, <3>6, <3>8, Pieces, TypesDiffer DEF CastlingOf, Them
      <4>2. R(KingTarget(x)) = (IF Them(us) = WHITE THEN 0 ELSE 7) /\ R(KingTarget(cr)) = (IF us = WHITE THEN 0 ELSE 7)
        BY <1>1, <3>6, <4>1, CastlingSides
      <4>3. R(KingTarget(x)) # R(KingTarget(cr))
        BY <4>1, <4>2
      <4>4. R(p.castling[x].king) = R(KingTarget(x)) /\ R(p.castling[x].rook) = R(KingTarget(x))
        BY <1>1, <3>6 DEF CastlingsSound
      <4>5. R(m.from) = R(KingTarget(cr)) /\ R(m.to) = R(KingTarget(cr)) /\ R(a) = R(KingTarget(cr))
        BY <3>2, <3>3, <3>4, <3>5
      <4>. HIDE DEF a
      <4>. QED
        BY <4>3, <4>4, <4>5
    <3>. QED
      BY <3>7, <3>8
  <2>. QED
    BY <2>1, <2>2
<1>. HIDE DEF a, rights
<1>7. ASSUME NEW x \in rights
      PROVE  {m.from, m.to} \cap {Homes[x].king, Homes[x].rook} = {} <=> x \in RightsAfter(p, m)
  <2>. DEFINE kk == p.castling[x].king
              rr == p.castling[x].rook
  <2>1. Homes[x].king = kk /\ Homes[x].rook = rr
    BY <1>3
  <2>2. x \in RightsAfter(p, m) <=> ~(m.from = kk \/ m.from = rr) /\ ~(a = kk \/ a = rr)
    BY <1>4, <1>5
  <2>3. (m.to = kk \/ m.to = rr \/ m.from = kk \/ m.from = rr) <=> (a = kk \/ a = rr \/ m.from = kk \/ m.from = rr)
    BY <1>6
  <2>. HIDE DEF kk, rr
  <2>4. {m.from, m.to} \cap {kk, rr} = {} <=> ~(m.to = kk \/ m.to = rr \/ m.from = kk \/ m.from = rr)
    OBVIOUS
  <2>5. {m.from, m.to} \cap {Homes[x].king, Homes[x].rook} = {} <=> {m.from, m.to} \cap {kk, rr} = {}
    BY <2>1
  <2>. QED
    BY <2>2, <2>3, <2>4, <2>5
<1>8. \A x : x \in RightsAfter(p, m) => x \in rights
  BY <1>5
<1>. QED
  BY <1>7, <1>8 DEF rights

-------------------------------------------------------------------------------
(***************************************************************************)
(* A move by the rules.                                                    *)
(***************************************************************************)
(* The board after a legal move is that of the rules, and sound.           *)
LEMMA RulesBoard ==
  ASSUME NEW p, Sound(p), p.castling = pos.castling, NEW m, Plays(p, m), NEW nb, nb = Carry(p.board, Operations(p, m))
  PROVE  /\ Rules!Played(Situation(p), m) = nb /\ BoardGood(p, m, nb)
         /\ PawnGoes(p.board, p.sideToMove, m) => nb = After1(p, m)
<1>1. ASSUME Proper(p.board, p.sideToMove, m), m.type # "castling"
      PROVE  Rules!Played(Situation(p), m) = nb /\ BoardGood(p, m, nb) /\ nb = After1(p, m)
  <2>1. BoardGood(p, m, After1(p, m))
    BY <1>1, PlaysGood
  <2>2. nb = After1(p, m)
    BY <2>1 DEF BoardGood
  <2>. QED
    BY <1>1, <2>1, <2>2, RulesPlayed
<1>2. CASE PieceGoes(p.board, p.sideToMove, m) \/ PawnGoes(p.board, p.sideToMove, m)
  <2>1. Proper(p.board, p.sideToMove, m)
    BY <1>2, GoesProper
  <2>2. m.type # "castling"
    BY <1>2 DEF PieceGoes, PawnGoes
  <2>. QED
    BY <1>1, <2>1, <2>2
<1>3. CASE Passing(p.board, p.sideToMove, St(p).epSquare, m)
  <2>1. Proper(p.board, p.sideToMove, m)
    BY <1>3, PassingProper
  <2>2. m.type # "castling"
    BY <1>3 DEF Passing
  <2>. QED
    BY <1>1, <2>1, <2>2
<1>4. CASE \E cr : CastlesWith(p, m, cr)
  <2>1. PICK cr : CastlesWith(p, m, cr)
    BY <1>4
  <2>2. m.type = "castling"
    BY <2>1, CastlingProper
  <2>3. BoardGood(p, m, After2(p, m))
    BY <2>2, PlaysGood
  <2>4. nb = After2(p, m)
    BY <2>3 DEF BoardGood
  <2>5. ~PawnGoes(p.board, p.sideToMove, m)
    BY <2>2 DEF PawnGoes
  <2>. QED
    BY <2>1, <2>3, <2>4, <2>5, RulesCastled
<1>. QED
  BY <1>2, <1>3, <1>4 DEF Plays

(* The en passant square of do_move counts by the rules, and none is       *)
(* missed.                                                                 *)
LEMMA RulesEp ==
  ASSUME NEW p, Sound(p), p.castling = pos.castling, NEW m, Plays(p, m), NEW nb, nb = Carry(p.board, Operations(p, m)),
         NEW h, h.board = nb, h.turn = Them(p.sideToMove), h.ep = Rules!Passed(Situation(p), m)
  PROVE  EpAfter(p, m) = IF h.ep # SQ_NONE /\ Rules!Takeable(h) THEN h.ep ELSE SQ_NONE
<1>. DEFINE us == p.sideToMove
            ep == m.to - pawn_push(us)
<1>1. CASE PawnGoes(p.board, us, m) /\ Abs(m.to - m.from) = 16
  <2>1. IsBoard(p.board) /\ us \in Color
    BY SoundFacts
  <2>2. DoublePush(p.board, us, m)
    BY <1>1, <2>1, PushIs
  <2>3. h.ep = ep
    BY <1>1, <2>2, PassedPush
  <2>4. ep \in Square /\ m.to \in Square
    BY <2>2 DEF DoublePush
  <2>5. ep # SQ_NONE
    BY <2>4 DEF Square, SQ_NONE
  <2>6. PushedBoard(p, m, After1(p, m))
    BY <1>1, <2>2, PushBoard
  <2>7. JustPassed(After1(p, m), Them(us), m.to, ep, TheirKing(p))
    BY <2>4, <2>6, PushPasses
  <2>8. nb = After1(p, m)
    BY <1>1, RulesBoard
  <2>. HIDE DEF ep
  <2>9. Rules!Takeable(h) <=> \E s : TakesSafely(nb, Them(us), s, m.to, ep, TheirKing(p))
    BY <2>3, <2>7, <2>8, RulesTakeable
  <2>10. CASE EpPushed(p, m)
    <3>1. EpAfter(p, m) = ep
      BY <1>1, <2>10, PushFacts DEF ep
    <3>2. Rules!Takeable(h)
      BY <1>1, <2>8, <2>9, <2>10, PushTakeable DEF ep
    <3>. QED
      BY <2>3, <2>5, <3>1, <3>2
  <2>11. CASE ~EpPushed(p, m)
    <3>1. EpAfter(p, m) = SQ_NONE
      BY <2>11 DEF EpPushed
    <3>2. ~Rules!Takeable(h)
      BY <1>1, <2>2, <2>8, <2>9, <2>11, PushNotTakeable DEF ep
    <3>. QED
      BY <3>1, <3>2
  <2>. QED
    BY <2>10, <2>11
<1>2. CASE ~(PawnGoes(p.board, us, m) /\ Abs(m.to - m.from) = 16)
  BY <1>2, PassedNot
<1>. QED
  BY <1>1, <1>2

(* A legal move leaves the king safe by the rules.                         *)
LEMMA RulesSafe ==
  ASSUME NEW p, Sound(p), p.castling = pos.castling, NEW m, Plays(p, m)
  PROVE  Rules!Safe(Situation(p), m)
<1>. DEFINE us == p.sideToMove
            nb == Carry(p.board, Operations(p, m))
            g == Situation(p)
<1>1. Rules!Played(g, m) = nb /\ BoardGood(p, m, nb)
  BY RulesBoard
<1>2. g.turn = us
  BY Situated
<1>3. us \in Color
  BY SoundFacts
<1>. HIDE DEF nb, g
<1>4. IsBoard(nb) /\ KingAt(nb, us, square(nb, us)) /\ ~Attacked(nb, DOMAIN nb, Them(us), square(nb, us))
  BY <1>1, <1>3 DEF BoardGood, KingsStand
<1>5. ~Rules!InCheck(nb, us)
  BY <1>4, RulesCheck
<1>. QED
  BY <1>1, <1>2, <1>5 DEF Rules!Safe, g

(* The board, castling rights and en passant square that do_move leaves.   *)
LEMMA MoveMade ==
  ASSUME NEW p, IsPosition(p), NEW n, IsSeq(p.states, n), NEW m, NEW gc, NEW q, q = do_move(p, m, gc)
  PROVE  /\ q.board = Carry(p.board, Operations(p, m)) /\ q.sideToMove = Them(p.sideToMove)
         /\ St(q).castlingRights = RightsAfter(p, m) /\ St(q).epSquare = EpAfter(p, m)
<1>. DEFINE nb == Carry(p.board, Operations(p, m))
<1>1. q.board = nb /\ q.sideToMove = Them(p.sideToMove) /\ MoveState(p, m, nb, gc, St(q))
  BY DoMoveIs
<1>. HIDE DEF nb
<1>2. St(q).castlingRights = RightsAfter(p, m) /\ St(q).epSquare = EpAfter(p, m)
  BY <1>1 DEF MoveState
<1>. QED
  BY <1>1, <1>2 DEF nb

(* do_move leads to the situation of the rules.                            *)
LEMMA RulesAfter ==
  ASSUME NEW p, Sound(p), IsPosition(p), NEW n, IsSeq(p.states, n), p.castling = pos.castling, NEW m, Plays(p, m)
  PROVE  Rules!After(Situation(p), m) = Situation(do_move(p, m, gives_check(p, m)))
<1>. DEFINE us == p.sideToMove
            nb == Carry(p.board, Operations(p, m))
            g == Situation(p)
            rights == {cr \in St(p).castlingRights : {m.from, m.to} \cap {Homes[cr].king, Homes[cr].rook} = {}}
            h == [board |-> nb, turn |-> Them(us), ep |-> Rules!Passed(g, m), rights |-> rights]
            gc == gives_check(p, m)
            q == do_move(p, m, gc)
<1>1. Rules!Played(g, m) = nb
  BY RulesBoard
<1>2. g.turn = us /\ g.rights = St(p).castlingRights /\ Rules!Them(us) = Them(us)
  BY Situated, RulesSpeak
<1>3. Rules!After(g, m) = Rules!Settled(h)
  <2>. HIDE DEF nb, g
  <2>. QED
    BY <1>1, <1>2 DEF Rules!After
<1>4. rights = RightsAfter(p, m)
  BY RulesRights
<1>5. EpAfter(p, m) = IF h.ep # SQ_NONE /\ Rules!Takeable(h) THEN h.ep ELSE SQ_NONE
  <2>1. h.board = nb /\ h.turn = Them(us) /\ h.ep = Rules!Passed(g, m)
    OBVIOUS
  <2>. HIDE DEF h
  <2>. QED
    BY <2>1, RulesEp
<1>6. /\ q.board = nb /\ q.sideToMove = Them(us)
      /\ St(q).castlingRights = RightsAfter(p, m) /\ St(q).epSquare = EpAfter(p, m)
  <2>1. q = do_move(p, m, gc)
    OBVIOUS
  <2>2. nb = Carry(p.board, Operations(p, m))
    OBVIOUS
  <2>. HIDE DEF q, nb, h, g, gc, rights
  <2>. QED
    BY <2>1, <2>2, MoveMade
<1>7. /\ h = [board |-> h.board, turn |-> h.turn, ep |-> h.ep, rights |-> h.rights]
      /\ h.board = nb /\ h.turn = Them(us) /\ h.rights = rights
  OBVIOUS
<1>. HIDE DEF h, nb, g, gc, q, rights
<1>8. Rules!Settled(h) = [board |-> h.board, turn |-> h.turn, rights |-> h.rights, ep |-> EpAfter(p, m)]
  BY <1>5, <1>7, RulesSettled
<1>9. Situation(q) = [board |-> nb, turn |-> Them(us), rights |-> RightsAfter(p, m), ep |-> EpAfter(p, m)]
  BY <1>6 DEF Situation
<1>. QED
  BY <1>3, <1>4, <1>7, <1>8, <1>9 DEF g, q, gc

-------------------------------------------------------------------------------
(***************************************************************************)
(* The search plays chess.                                                 *)
(***************************************************************************)
(* Sequences with the same elements are one.                               *)
LEMMA SameSeq ==
  ASSUME NEW s, NEW t, NEW n, IsSeq(s, n), IsSeq(t, n), \A i \in 1 .. n : s[i] = t[i]
  PROVE  s = t
<1>1. /\ s \in Seq({s[i] : i \in 1 .. n}) /\ Len(s) = n /\ t \in Seq({t[i] : i \in 1 .. n}) /\ Len(t) = n /\ n \in Nat
  BY DEF IsSeq
<1>2. {s[i] : i \in 1 .. n} = {t[i] : i \in 1 .. n}
  OBVIOUS
<1>. DEFINE T == {s[i] : i \in 1 .. n}
<1>3. s \in Seq(T) /\ t \in Seq(T)
  BY <1>1, <1>2
<1>. HIDE DEF T
<1>. QED
  BY <1>1, <1>3

(* What was appended can be taken off.                                     *)
LEMMA FrontBack ==
  ASSUME NEW s, NEW n \in Nat, IsSeq(s, n), NEW e
  PROVE  Front(Append(s, e)) = s
<1>. DEFINE a == Append(s, e)
<1>1. IsSeq(a, n + 1) /\ \A i \in 1 .. n : a[i] = s[i]
  <2>1. Appends(a, s, n, e)
    BY Appended
  <2>. HIDE DEF a
  <2>. QED
    BY <2>1 DEF Appends
<1>2. Drops(Front(a), a, n)
  BY <1>1, Fronted
<1>. HIDE DEF a
<1>3. IsSeq(Front(a), n) /\ \A i \in 1 .. n : Front(a)[i] = s[i]
  BY <1>1, <1>2 DEF Drops
<1>4. Front(a) = s
  BY <1>3, SameSeq
<1>. QED
  BY <1>4 DEF a

(* What was taken off can be appended.                                     *)
LEMMA BackOn ==
  ASSUME NEW s, NEW n \in Nat, IsSeq(s, n + 1)
  PROVE  Append(Front(s), Last(s)) = s
<1>. DEFINE f == Front(s)
            a == Append(f, Last(s))
<1>1. Drops(f, s, n)
  BY Fronted
<1>. HIDE DEF f
<1>2. IsSeq(f, n) /\ Last(s) = s[n + 1] /\ \A i \in 1 .. n : f[i] = s[i]
  BY <1>1 DEF Drops
<1>3. IsSeq(a, n + 1) /\ a[n + 1] = Last(s) /\ \A i \in 1 .. n : a[i] = f[i]
  <2>1. Appends(a, f, n, Last(s))
    BY <1>2, Appended
  <2>. HIDE DEF a
  <2>. QED
    BY <2>1 DEF Appends
<1>. HIDE DEF a
<1>4. \A i \in 1 .. n + 1 : a[i] = s[i]
  BY <1>2, <1>3
<1>5. a = s
  BY <1>3, <1>4, SameSeq
<1>. QED
  BY <1>5 DEF a, f

(* The rules and the code take sequences apart alike.                      *)
LEMMA RulesList ==
  \A s : Rules!Last(s) = Last(s) /\ Rules!Front(s) = Front(s)
BY DEF Rules!Last, Last, Rules!Front, Front

(* The game is the trail with the position on the board at its end.        *)
LEMMA Playing ==
  ASSUME IInv
  PROVE  /\ Rules!Now = Situation(pos) /\ IsSeq(Game, Len(path) + 1) /\ Len(Game) = Len(path) + 1
         /\ IsSeq(trail, Len(path)) /\ Len(path) \in Nat /\ Rules!Front(Game) = trail
<1>1. IsSeq(trail, Len(path)) /\ Len(path) \in Nat
  BY DEF IInv, Walked, Rooted
<1>2. Appends(Game, trail, Len(path), Situation(pos))
  BY <1>1, Appended DEF Game
<1>3. IsSeq(Game, Len(path) + 1) /\ Last(Game) = Situation(pos) /\ Len(Game) = Len(path) + 1
  BY <1>2 DEF Appends, IsSeq
<1>4. Rules!Now = Situation(pos)
  BY <1>3, RulesList DEF Rules!Now
<1>5. Rules!Front(Game) = trail
  BY <1>1, FrontBack, RulesList DEF Game
<1>. QED
  BY <1>1, <1>3, <1>4, <1>5

(* A scene begins a game.                                                  *)
LEMMA RulesBegin ==
  Init => Rules!Init
<1>. SUFFICES ASSUME Init PROVE Rules!Init
  OBVIOUS
<1>1. IInv
  BY Begins
<1>2. path = << >>
  BY DEF Init
<1>3. Len(Game) = 1 /\ Rules!Now = Situation(pos)
  <2>1. Len(path) = 0
    BY <1>2
  <2>. QED
    BY <1>1, <2>1, Playing
<1>4. Sound(pos)
  BY <1>1, StandsThere
<1>. DEFINE b == pos.board
            us == pos.sideToMove
            them == Them(us)
            rights == St(pos).castlingRights
<1>5. /\ Rules!Now.board = b /\ Rules!Now.turn = us /\ Rules!Now.rights = rights
  BY <1>3, Situated
<1>6. ~Rules!InCheck(b, them)
  <2>1. IsBoard(b) /\ them \in Color /\ KingAt(b, them, square(b, them)) /\ ~Attacked(b, DOMAIN b, us, square(b, them))
        /\ Them(them) = us
    BY <1>4, Opposite DEF Sound, Level, KingsStand
  <2>. HIDE DEF b, us, them
  <2>. QED
    BY <2>1, RulesCheck
<1>7. Rules!Them(us) = them
  BY RulesSpeak
<1>8. RightsSound(b, pos.castling, rights)
  BY <1>4 DEF Sound, Level
<1>. HIDE DEF b, us, them, rights
<1>9. DOMAIN Homes = DOMAIN pos.castling /\ \A cr \in DOMAIN pos.castling : Homes[cr].king = pos.castling[cr].king /\ Homes[cr].rook = pos.castling[cr].rook
  BY DEF Homes
<1>10. rights \subseteq DOMAIN Homes
  BY <1>8, <1>9 DEF RightsSound
<1>11. ASSUME NEW cr \in rights
       PROVE  /\ Homes[cr].king \in DOMAIN b /\ Homes[cr].rook \in DOMAIN b
              /\ b[Homes[cr].king] = Rules!make_piece(Rules!CastlingColor(cr), Rules!KING)
              /\ b[Homes[cr].rook] = Rules!make_piece(Rules!CastlingColor(cr), Rules!ROOK)
  <2>1. cr \in DOMAIN pos.castling
    BY <1>9, <1>10
  <2>2. Homes[cr].king = pos.castling[cr].king /\ Homes[cr].rook = pos.castling[cr].rook
    BY <1>9, <2>1
  <2>3. /\ pos.castling[cr].king \in DOMAIN b /\ b[pos.castling[cr].king] = make_piece(CastlingColor(cr), KING)
        /\ pos.castling[cr].rook \in DOMAIN b /\ b[pos.castling[cr].rook] = make_piece(CastlingColor(cr), ROOK)
    BY <1>8 DEF RightsSound
  <2>4. /\ Rules!make_piece(Rules!CastlingColor(cr), Rules!KING) = make_piece(CastlingColor(cr), KING)
        /\ Rules!make_piece(Rules!CastlingColor(cr), Rules!ROOK) = make_piece(CastlingColor(cr), ROOK)
    BY RulesSpeak
  <2>. QED
    BY <2>2, <2>3, <2>4
<1>. QED
  BY <1>3, <1>5, <1>6, <1>7, <1>10, <1>11 DEF Rules!Init

(* A situation with another turn and en passant square.                    *)
PassTo(g, u, v) == [g EXCEPT !.turn = u, !.ep = v]
(* A situation with another turn and en passant square.                    *)
LEMMA PassRecord ==
  ASSUME NEW b, NEW t, NEW r, NEW x, NEW u, NEW v
  PROVE  PassTo([board |-> b, turn |-> t, rights |-> r, ep |-> x], u, v)
           = [board |-> b, turn |-> u, rights |-> r, ep |-> v]
<1>. DEFINE old == [board |-> b, turn |-> t, rights |-> r, ep |-> x]
            new == [board |-> b, turn |-> u, rights |-> r, ep |-> v]
            e == [old EXCEPT !.turn = u, !.ep = v]
<1>1. DOMAIN old = {"board", "turn", "rights", "ep"} /\ DOMAIN new = {"board", "turn", "rights", "ep"}
  OBVIOUS
<1>2. /\ old.board = b /\ old.rights = r
      /\ new.board = b /\ new.turn = u /\ new.rights = r /\ new.ep = v
  OBVIOUS
<1>3. IsFun(new)
  BY DEF IsFun
<1>. HIDE DEF old, new
<1>4. DOMAIN e = {"board", "turn", "rights", "ep"} /\ IsFun(e)
  BY <1>1 DEF IsFun
<1>5. e.board = b /\ e.turn = u /\ e.rights = r /\ e.ep = v
  BY <1>1, <1>2
<1>. HIDE DEF e
<1>6. \A f \in DOMAIN e : e[f] = new[f]
  BY <1>2, <1>4, <1>5
<1>7. e = new
  BY <1>1, <1>3, <1>4, <1>6, SameFun
<1>. QED
  BY <1>7 DEF e, old, new, PassTo

(* do_null_move passes by the rules, and is made out of check only.        *)
LEMMA RulesPass ==
  ASSUME NEW p, Sound(p), IsPosition(p), NEW n, IsSeq(p.states, n), checkers(p) = {}
  PROVE  /\ ~Rules!InCheck(Situation(p).board, Situation(p).turn)
         /\ [Situation(p) EXCEPT !.turn = Rules!Them(@), !.ep = Rules!SQ_NONE] = Situation(do_null_move(p))
<1>. DEFINE us == p.sideToMove
            b == p.board
            g == Situation(p)
            q == do_null_move(p)
            e == [g EXCEPT !.turn = Rules!Them(@), !.ep = Rules!SQ_NONE]
<1>1. /\ IsBoard(b) /\ us \in Color /\ KingAt(b, us, MyKing(p))
      /\ \A x : x \in checkers(p) <=> /\ x \in DOMAIN b /\ color_of(b[x]) = Them(us)
                                      /\ Hits(b, DOMAIN b, x, MyKing(p))
  BY SoundFacts
<1>2. ~Rules!InCheck(b, us)
  <2>1. ~Attacked(b, DOMAIN b, Them(us), MyKing(p))
    BY <1>1 DEF Attacked
  <2>. QED
    BY <1>1, <2>1, RulesCheck
<1>3. g.board = b /\ g.turn = us /\ g.rights = St(p).castlingRights
  BY Situated
<1>4. IsState(St(p))
  BY DEF Sound, Level
<1>5. /\ q.board = b /\ q.sideToMove = Them(us) /\ St(q).castlingRights = St(p).castlingRights /\ St(q).epSquare = SQ_NONE
  <2>1. q.board = b /\ q.sideToMove = Them(us) /\ NullState(p, b, St(q))
    BY <1>4, DoNullMoveIs
  <2>. HIDE DEF q
  <2>. QED
    BY <2>1 DEF NullState
<1>6. Rules!Them(us) = Them(us) /\ Rules!SQ_NONE = SQ_NONE
  BY RulesSpeak
<1>7. g = [board |-> g.board, turn |-> g.turn, rights |-> g.rights, ep |-> g.ep]
  BY DEF Situation
<1>. HIDE DEF q, g, us, b
<1>8. e = [board |-> b, turn |-> Them(us), rights |-> St(p).castlingRights, ep |-> SQ_NONE]
  <2>. DEFINE old == [board |-> g.board, turn |-> g.turn, rights |-> g.rights, ep |-> g.ep]
  <2>1. e = PassTo(old, Rules!Them(g.turn), SQ_NONE)
    BY <1>6, <1>7 DEF PassTo
  <2>2. PassTo(old, Rules!Them(g.turn), SQ_NONE)
          = [board |-> g.board, turn |-> Rules!Them(g.turn), rights |-> g.rights, ep |-> SQ_NONE]
    BY PassRecord
  <2>. HIDE DEF e, old
  <2>. QED
    BY <1>3, <1>6, <2>1, <2>2
<1>9. Situation(q) = [board |-> b, turn |-> Them(us), rights |-> St(p).castlingRights, ep |-> SQ_NONE]
  BY <1>5 DEF Situation
<1>. QED
  BY <1>2, <1>3, <1>8, <1>9 DEF g, q

(* Every step of the search is a step of the rules, or changes nothing     *)
(* there.                                                                  *)
LEMMA RulesStep ==
  IInv /\ [Next]_vars => [Rules!Next]_<<Game, Homes>>
<1>. SUFFICES ASSUME IInv, [Next]_vars PROVE [Rules!Next]_<<Game, Homes>>
  OBVIOUS
<1>1. Sound(pos) /\ IsPosition(pos) /\ IsSeq(pos.states, Len(path) + 1) /\ Len(path) \in Nat
  BY StandsThere
<1>2. /\ Rules!Now = Situation(pos) /\ Len(Game) = Len(path) + 1
      /\ IsSeq(trail, Len(path)) /\ Rules!Front(Game) = trail
  BY Playing
<1>3. Situation(pos)' = Situation(pos') /\ Game' = Append(trail', Situation(pos'))
  BY DEF Situation, Game, St
<1>4. pos'.castling = pos.castling => Homes' = Homes
  BY DEF Homes
<1>5. ASSUME NEW m \in LegalList(pos), DoMove(m) PROVE Rules!Next
  <2>1. m \in Rules!Moves(Situation(pos)) /\ Plays(pos, m)
    BY <1>1, LegalIsMove
  <2>2. Rules!After(Situation(pos), m) = Situation(pos')
    BY <1>1, <1>5, <2>1, RulesAfter DEF DoMove
  <2>3. Rules!Safe(Situation(pos), m)
    BY <1>1, <2>1, RulesSafe
  <2>4. Game' = Append(Game, Situation(pos'))
    BY <1>3, <1>5 DEF DoMove, Game
  <2>5. pos'.castling = pos.castling
    BY <1>1, <1>5, AfterDoMove DEF DoMove
  <2>6. Rules!Play
    BY <1>2, <2>1, <2>2, <2>3, <2>4 DEF Rules!Play
  <2>. QED
    BY <1>4, <2>5, <2>6 DEF Rules!Next
<1>6. CASE DoNullMove
  <2>1. checkers(pos) = {} /\ pos' = do_null_move(pos) /\ trail' = Append(trail, Situation(pos))
    BY <1>6 DEF DoNullMove
  <2>2. /\ ~Rules!InCheck(Situation(pos).board, Situation(pos).turn)
        /\ [Situation(pos) EXCEPT !.turn = Rules!Them(@), !.ep = Rules!SQ_NONE] = Situation(pos')
    BY <1>1, <2>1, RulesPass
  <2>3. Game' = Append(Game, Situation(pos'))
    BY <1>3, <2>1 DEF Game
  <2>4. Rules!Pass
    BY <1>2, <2>2, <2>3 DEF Rules!Pass
  <2>5. pos'.castling = pos.castling
    <3>1. IsState(St(pos))
      BY <1>1 DEF Sound, Level
    <3>. QED
      BY <1>1, <2>1, <3>1, DoNullMoveIs
  <2>. QED
    BY <1>4, <2>4, <2>5 DEF Rules!Next
<1>7. CASE UndoMove
  <2>1. Situation(pos') = Last(trail) /\ path # << >> /\ trail' = Front(trail) /\ pos' = Undone(pos, Last(path))
    BY <1>3, <1>7, OneBack DEF UndoMove
  <2>2. IsSeq(path, Len(path))
    BY DEF IInv, Walked
  <2>3. Len(path) # 0
    BY <2>1, <2>2 DEF IsSeq
  <2>4. Len(path) - 1 \in Nat /\ Len(path) = (Len(path) - 1) + 1
    BY <1>1, <2>3
  <2>5. Append(Front(trail), Last(trail)) = trail
    BY <1>2, <2>4, BackOn
  <2>6. Game' = Rules!Front(Game)
    BY <1>2, <1>3, <2>1, <2>5
  <2>7. Len(Game) > 1
    BY <1>1, <1>2, <2>3
  <2>8. Rules!TakeBack
    BY <2>6, <2>7 DEF Rules!TakeBack
  <2>9. pos'.castling = pos.castling
    <3>1. IsSeq(pos.states, ((Len(path) - 1) + 1) + 1)
      BY <1>1, <2>4
    <3>2. TakenBackTo(undo_null_move(pos), pos, (Len(path) - 1) + 1, pos.board)
      BY <1>1, <2>4, UndoNullMoveIs
    <3>3. ASSUME NEW m PROVE undo_move(pos, m).castling = pos.castling
      BY <1>1, UndoMoveIs DEF TakenBackTo
    <3>4. undo_null_move(pos).castling = pos.castling
      BY <3>2 DEF TakenBackTo
    <3>. QED
      BY <2>1, <3>3, <3>4 DEF Undone
  <2>. QED
    BY <1>4, <2>8, <2>9 DEF Rules!Next
<1>8. CASE UNCHANGED vars
  BY <1>8 DEF vars, Game, Homes, Situation, St
<1>. QED
  BY <1>5, <1>6, <1>7, <1>8 DEF Next

(* Making and unmaking moves plays chess, for every scene and every walk:  *)
(* each do_move of a legal move is a move of the rules and leaves the      *)
(* board, the castling rights and the en passant square of the rules, each *)
(* do_null_move is a pass out of check, and each undo takes back the last  *)
(* move or pass.                                                           *)
THEOREM Refinement == Spec => ImplementsChess
<1>. QED
  BY RulesBegin, RulesStep, Invariance, PTL DEF Spec, ImplementsChess, Rules!Spec

-------------------------------------------------------------------------------
(***************************************************************************)
(* What a safe move says of the pieces behind.                             *)
(***************************************************************************)
(* The ends are not between.                                               *)
LEMMA NotInside ==
  ASSUME NEW x \in Square, NEW t \in Square
  PROVE  ~Inside(x, t, x) /\ ~Inside(x, t, t)
<1>1. \A d, n : ~Toward(x, d, n, x)
  BY NotHere
<1>2. ASSUME Inside(x, t, t) PROVE FALSE
  <2>1. PICK d \in KingSteps, n \in 1 .. 7, j \in 1 .. 7 : j < n /\ Toward(x, d, n, t) /\ Toward(x, d, j, t)
    BY <1>2 DEF Inside
  <2>2. n = j
    BY <2>1, OneWay
  <2>. QED
    BY <2>1, <2>2
<1>. QED
  BY <1>1, <1>2 DEF Inside

(* No piece hits its own square.                                           *)
LEMMA HitsOther ==
  ASSUME NEW b, IsBoard(b), NEW occ, NEW x \in DOMAIN b, NEW t \in Square, Hits(b, occ, x, t)
  PROVE  x # t
<1>1. x \in Square
  BY DEF IsBoard
<1>2. F(x) \in Int /\ R(x) \in Int
  BY <1>1, Coordinates
<1>3. ~Jumps(x, x) /\ ~Near(x, x) /\ \A c : ~Strikes(c, x, x)
  BY <1>2 DEF Jumps, Near, Strikes
<1>4. \A pt : ~Aligned(pt, x, x)
  BY <1>1, NotHere DEF Aligned
<1>. QED
  BY <1>3, <1>4 DEF Hits

(* What is between decides whether a piece still hits.                     *)
LEMMA HitsSame ==
  ASSUME NEW b, IsBoard(b), NEW occ, NEW x \in DOMAIN b, NEW t \in Square, Hits(b, occ, x, t),
         NEW other, \A z \in Square : Inside(x, t, z) /\ z \in other => z \in occ
  PROVE  Hits(b, other, x, t)
  BY DEF Hits, Clear

(* Two squares on one ray of the king are on a line with it.               *)
LEMMA RayLine ==
  ASSUME NEW k \in Square, NEW f \in Square, NEW t \in Square, NEW d \in KingSteps,
         NEW i \in 1 .. 7, NEW j \in 1 .. 7, Toward(k, d, i, f), Toward(k, d, j, t), f # t
  PROVE  k \in LineBB[f][t]
<1>1. PICK pt \in {ROOK, BISHOP} : d \in SlideDirections(pt)
  BY SomeLine
<1>2. -d \in SlideDirections(pt) /\ -d \in KingSteps
  BY <1>1, Directions
<1>3. Toward(f, -d, i, k) /\ Toward(t, -d, j, k)
  BY Reversed
<1>4. i # j
  BY OnePlace
<1>5. Aligned(pt, f, t)
  <2>1. CASE i < j
    <3>1. Toward(f, d, j - i, t)
      BY <2>1, Rest
    <3>2. j - i \in 1 .. 7
      BY <2>1
    <3>. QED
      BY <1>1, <3>1, <3>2 DEF Aligned
  <2>2. CASE j < i
    <3>1. Toward(f, -d, i - j, t)
      BY <2>2, Rest
    <3>2. i - j \in 1 .. 7
      BY <2>2
    <3>. QED
      BY <1>2, <3>1, <3>2 DEF Aligned
  <2>. QED
    BY <1>4, <2>1, <2>2
<1>6. Aligned(pt, f, k) /\ Aligned(pt, t, k)
  BY <1>2, <1>3 DEF Aligned
<1>7. k \in PseudoAttacks[pt][f] /\ k \in PseudoAttacks[pt][t] /\ t \in PseudoAttacks[pt][f]
  BY <1>5, <1>6, PseudoIs
<1>8. pt \in AlignedAs(f, t)
  BY <1>7 DEF AlignedAs
<1>. QED
  BY <1>7, <1>8 DEF LineBB

(* So are two squares on the way from a piece to the king.                 *)
LEMMA InsideLine ==
  ASSUME NEW x \in Square, NEW k \in Square, NEW f \in Square, NEW t \in Square,
         Inside(x, k, f), t = x \/ Inside(x, k, t), f # t
  PROVE  k \in LineBB[f][t]
<1>1. Inside(k, x, f) /\ (t = x \/ Inside(k, x, t))
  BY InsideSym
<1>2. PICK d \in KingSteps, n \in 1 .. 7, i \in 1 .. 7 : i < n /\ Toward(k, d, n, x) /\ Toward(k, d, i, f)
  BY <1>1 DEF Inside
<1>3. \E j \in 1 .. 7 : Toward(k, d, j, t)
  <2>1. CASE t = x
    BY <1>2, <2>1
  <2>2. CASE Inside(k, x, t)
    BY <1>2, <2>2, InsideWay
  <2>. QED
    BY <1>1, <2>1, <2>2
<1>. QED
  BY <1>2, <1>3, RayLine

(* Behind a blocker is a sniper that it alone holds off, or one that gives *)
(* check already.                                                          *)
LEMMA Behind ==
  ASSUME NEW b, IsBoard(b), NEW c \in Color, square(b, c) \in Square, NEW f \in blockersForKing(b)[c]
  PROVE  \/ \E x : ShieldedBy(b, c, f, x)
         \/ \E x \in Snipers(b, c) : Hits(b, DOMAIN b, x, square(b, c)) /\ Inside(f, square(b, c), x)
<1>. DEFINE k == square(b, c)
<1>1. f \in DOMAIN b /\ f \in Square /\ f \notin Snipers(b, c)
  BY BlockerAlone
<1>2. PICK y \in Snipers(b, c) : /\ y \in Square /\ Inside(k, y, f)
                                 /\ \A z \in DOMAIN b : Inside(k, y, z) => z = f \/ z \in Snipers(b, c)
  BY BlockerAlone
<1>3. PICK d \in KingSteps, n \in 1 .. 7, i \in 1 .. 7 : i < n /\ Toward(k, d, n, y) /\ Toward(k, d, i, f)
  BY <1>2 DEF Inside
<1>. DEFINE S == {j \in 1 .. 7 : j <= n /\ \E z \in Snipers(b, c) : Toward(k, d, j, z)}
<1>4. n \in S
  BY <1>2, <1>3
<1>5. PICK j \in S : \A l \in S : j <= l
  BY <1>4, Least
<1>6. PICK x \in Snipers(b, c) : Toward(k, d, j, x)
  BY <1>5
<1>7. /\ x \in DOMAIN b /\ color_of(b[x]) = Them(c) /\ type_of(b[x]) \in {BISHOP, ROOK, QUEEN}
      /\ Aligned(type_of(b[x]), x, k) /\ x \in Square
  BY <1>6, SniperIs DEF IsBoard
<1>8. k \in Square /\ j \in 1 .. 7 /\ j <= n
  BY <1>5
<1>9. DOMAIN b \subseteq Square
  BY DEF IsBoard
<1>10. ASSUME NEW z \in DOMAIN b, Inside(k, x, z)
       PROVE  z = f /\ i < j
  <2>1. PICK l \in 1 .. 7 : l < j /\ Toward(k, d, l, z)
    BY <1>6, <1>7, <1>8, <1>9, <1>10, InsideWay
  <2>2. l < n
    BY <1>8, <2>1
  <2>3. Inside(k, y, z)
    BY <1>2, <1>3, <1>8, <1>9, <2>1, <2>2, InsideWay
  <2>4. z \notin Snipers(b, c)
    <3>. SUFFICES ASSUME z \in Snipers(b, c) PROVE FALSE
      OBVIOUS
    <3>1. l \in S
      BY <2>1, <2>2
    <3>2. j <= l
      BY <1>5, <3>1
    <3>. QED
      BY <1>8, <2>1, <3>2
  <2>5. z = f
    BY <1>2, <2>3, <2>4
  <2>6. l = i
    BY <1>1, <1>3, <1>8, <2>1, <2>5, OneWay
  <2>. QED
    BY <2>1, <2>5, <2>6
<1>11. \A z \in Square : Inside(x, k, z) <=> Inside(k, x, z)
  BY <1>7, <1>8, InsideSym
<1>12. CASE \E z \in DOMAIN b : Inside(k, x, z)
  <2>1. Inside(k, x, f)
    BY <1>10, <1>12
  <2>. QED
    BY <1>1, <1>6, <1>7, <1>9, <1>10, <1>11, <2>1 DEF ShieldedBy
<1>13. CASE \A z \in DOMAIN b : ~Inside(k, x, z)
  <2>1. Clear(x, k, DOMAIN b)
    BY <1>11, <1>13 DEF Clear
  <2>2. Hits(b, DOMAIN b, x, k)
    BY <1>7, <2>1 DEF Hits
  <2>3. ~Inside(k, x, f) /\ f # x
    BY <1>1, <1>6, <1>13
  <2>4. j < i
    <3>1. i # j
      BY <1>1, <1>3, <1>6, <1>7, <1>8, <2>3, OnePlace
    <3>2. ~(i < j)
      BY <1>1, <1>3, <1>6, <1>7, <1>8, <2>3, InsideWay
    <3>. QED
      BY <1>8, <3>1, <3>2
  <2>5. Inside(k, f, x)
    BY <1>1, <1>3, <1>6, <1>7, <1>8, <2>4, InsideWay
  <2>6. Inside(f, k, x)
    BY <1>1, <1>7, <1>8, <2>5, InsideSym
  <2>. QED
    BY <1>6, <2>2, <2>6
<1>. QED
  BY <1>12, <1>13

(* A move is safe by the rules if nothing hits the king on the board after *)
(* it.                                                                     *)
LEMMA SafeMeans ==
  ASSUME NEW p, Sound(p), NEW m, Proper(p.board, p.sideToMove, m),
         NEW k, k = IF m.from = MyKing(p) THEN m.to ELSE MyKing(p)
  PROVE  Rules!Safe(Situation(p), m)
           <=> ~Attacked(After1(p, m), DOMAIN After1(p, m), Them(p.sideToMove), k)
<1>. DEFINE us == p.sideToMove
            nb == After1(p, m)
            g == Situation(p)
<1>1. Rules!Played(g, m) = nb
  BY RulesPlayed
<1>2. g.turn = us
  BY Situated
<1>3. IsBoard(nb) /\ KingAt(nb, us, k)
  BY BoardAfter
<1>. HIDE DEF nb, g
<1>4. Rules!InCheck(nb, us) <=> Attacked(nb, DOMAIN nb, Them(us), k)
  BY <1>3, RulesCheck
<1>. QED
  BY <1>1, <1>2, <1>4 DEF Rules!Safe, g, nb

(* After a safe move no piece that was not taken hits the king past the    *)
(* squares that changed.                                                   *)
LEMMA StillHits ==
  ASSUME NEW p, Sound(p), NEW m, Proper(p.board, p.sideToMove, m), NEW k \in Square,
         ~Attacked(After1(p, m), DOMAIN After1(p, m), Them(p.sideToMove), k),
         NEW x \in DOMAIN p.board, color_of(p.board[x]) = Them(p.sideToMove),
         x # CaptureSquare(p.sideToMove, m), x # m.to
  PROVE  ~Hits(p.board, (DOMAIN p.board \ {m.from, CaptureSquare(p.sideToMove, m)}) \cup {m.to}, x, k)
<1>. DEFINE b == p.board
            us == p.sideToMove
            nb == After1(p, m)
            cap == CaptureSquare(us, m)
            occ == (DOMAIN b \ {m.from, cap}) \cup {m.to}
<1>1. us \in Color /\ Them(us) # us
  BY SoundFacts, Pieces
<1>2. color_of(b[m.from]) = us
  BY DEF Proper
<1>3. DOMAIN nb = occ /\ \A s \in DOMAIN b \ {m.from, cap, m.to} : nb[s] = b[s]
  BY BoardAfter
<1>4. x # m.from
  BY <1>1, <1>2
<1>. HIDE DEF nb, cap
<1>5. x \in DOMAIN nb /\ nb[x] = b[x]
  BY <1>3, <1>4 DEF cap
<1>6. Hits(b, occ, x, k) => Hits(nb, occ, x, k)
  BY <1>5, HitsOld
<1>7. ~Attacked(nb, DOMAIN nb, Them(us), k)
  BY DEF nb
<1>. QED
  BY <1>3, <1>5, <1>6, <1>7 DEF Attacked, cap

-------------------------------------------------------------------------------
(***************************************************************************)
(* Safe moves answer checks and respect pins.                              *)
(***************************************************************************)
(* legal lets the king go where it is safe.                                *)
LEMMA SafeKing ==
  ASSUME NEW p, Sound(p), NEW m, PieceGoes(p.board, p.sideToMove, m), m.from = MyKing(p),
         ~Attacked(After1(p, m), DOMAIN After1(p, m), Them(p.sideToMove), m.to)
  PROVE  legal(p, m)
<1>. DEFINE b == p.board
            us == p.sideToMove
            them == Them(us)
            f == m.from
            t == m.to
<1>1. us \in Color /\ them \in Color /\ us # them /\ IsBoard(b) /\ KingAt(b, us, f)
  BY SoundFacts, Pieces
<1>2. Proper(b, us, m) /\ CaptureSquare(us, m) = t
  BY GoesProper
<1>3. t \in Square /\ m.type = "normal" /\ f \in DOMAIN b
  BY DEF PieceGoes, Mover
<1>4. type_of(b[f]) = KING
  BY <1>1, Pieces, TypesDiffer DEF KingAt
<1>5. ASSUME NEW x \in DOMAIN b, color_of(b[x]) = them, Hits(b, DOMAIN b \ {f}, x, t) PROVE FALSE
  <2>1. x # t /\ x \in Square
    BY <1>1, <1>3, <1>5, HitsOther DEF IsBoard
  <2>2. ~Hits(b, (DOMAIN b \ {f, t}) \cup {t}, x, t)
    BY <1>2, <1>3, <1>5, <2>1, StillHits
  <2>3. ~Inside(x, t, t)
    BY <1>3, <2>1, NotInside
  <2>. HIDE DEF b, f, t, them
  <2>4. \A z \in Square : Inside(x, t, z) /\ z \in (DOMAIN b \ {f, t}) \cup {t} => z \in DOMAIN b \ {f}
    BY <2>3
  <2>. QED
    BY <1>1, <1>3, <1>5, <2>2, <2>4, HitsSame
<1>6. ~attackers_to_exist(b, t, DOMAIN b \ {f}, them)
  BY <1>1, <1>3, <1>5, AttackedIs DEF Attacked
<1>. QED
  BY <1>3, <1>4, <1>6 DEF legal, pieces

(* A square between a piece and the king is on a line with them.           *)
LEMMA LineInside ==
  ASSUME NEW f \in Square, NEW k \in Square, NEW t \in Square, Inside(f, k, t)
  PROVE  k \in LineBB[f][t]
<1>1. Inside(k, f, t)
  BY InsideSym
<1>2. PICK d \in KingSteps, n \in 1 .. 7, i \in 1 .. 7 : i < n /\ Toward(k, d, n, f) /\ Toward(k, d, i, t)
  BY <1>1 DEF Inside
<1>3. f # t
  BY <1>2, OneWay
<1>. QED
  BY <1>2, <1>3, RayLine

(* A safe move of another piece answers every check, and legal lets it     *)
(* through.                                                                *)
LEMMA SafeAnswers ==
  ASSUME NEW p, Sound(p), NEW m, PieceGoes(p.board, p.sideToMove, m) \/ PawnGoes(p.board, p.sideToMove, m),
         m.from # MyKing(p),
         ~Attacked(After1(p, m), DOMAIN After1(p, m), Them(p.sideToMove), MyKing(p))
  PROVE  Answers(p, m.to) /\ legal(p, m)
<1>. DEFINE b == p.board
            us == p.sideToMove
            them == Them(us)
            k == MyKing(p)
            f == m.from
            t == m.to
            occ == (DOMAIN b \ {f, t}) \cup {t}
<1>1. us \in Color /\ them \in Color /\ us # them /\ IsBoard(b) /\ KingAt(b, us, k) /\ k \in Square /\ k = square(b, us)
  BY SoundFacts, Pieces DEF MyKing
<1>2. Proper(b, us, m) /\ CaptureSquare(us, m) = t /\ m.type # "enpassant" /\ t # k /\ t # f
  BY GoesProper, NoKingTaken
<1>3. t \in Square /\ f \in DOMAIN b /\ f \in Square /\ color_of(b[f]) = us /\ m.type # "castling"
  BY <1>1 DEF PieceGoes, PawnGoes, Mover, IsBoard
<1>4. type_of(b[f]) # KING
  <2>1. b[f] \in Piece
    BY <1>1, <1>3 DEF IsBoard
  <2>2. type_of(b[f]) = KING => b[f] = make_piece(us, KING)
    BY <1>3, <2>1, Pieces
  <2>. QED
    BY <1>1, <1>3, <2>2 DEF KingAt
<1>5. ASSUME NEW x \in DOMAIN b, color_of(b[x]) = them, x # t PROVE ~Hits(b, occ, x, k)
  BY <1>1, <1>2, <1>5, StillHits
<1>6. legal(p, m) <=> f \notin blockersForKing(b)[us] \/ k \in LineBB[f][t]
  BY <1>3, <1>4, SoundFacts DEF legal
<1>7. \A x : x \in checkers(p) <=> x \in DOMAIN b /\ color_of(b[x]) = them /\ Hits(b, DOMAIN b, x, k)
  BY SoundFacts
<1>8. DOMAIN b \subseteq Square
  BY <1>1 DEF IsBoard
<1>9. \A x \in Square : Inside(x, k, t) => Inside(k, x, t)
  BY <1>1, <1>3, InsideSym
<1>. HIDE DEF b, us, them, k, f, t, occ
<1>10. ASSUME NEW x \in DOMAIN b, color_of(b[x]) = them, Hits(b, DOMAIN b, x, k)
       PROVE  t = x \/ Inside(x, k, t)
  <2>. SUFFICES ASSUME t # x, ~Inside(x, k, t) PROVE FALSE
    OBVIOUS
  <2>1. \A z \in Square : Inside(x, k, z) /\ z \in occ => z \in DOMAIN b
    BY DEF occ
  <2>2. Hits(b, occ, x, k)
    BY <1>1, <1>10, <2>1, HitsSame
  <2>. QED
    BY <1>5, <1>10, <2>2
<1>11. Answers(p, t)
  BY <1>7, <1>8, <1>9, <1>10 DEF Answers, k
<1>12. ASSUME f \in blockersForKing(b)[us] PROVE k \in LineBB[f][t]
  <2>1. CASE \E x : ShieldedBy(b, us, f, x)
    <3>1. PICK x : ShieldedBy(b, us, f, x)
      BY <2>1
    <3>2. Inside(x, k, f) /\ x \in Square
      BY <1>1, <3>1 DEF ShieldedBy
    <3>. SUFFICES ASSUME t # x, ~Inside(x, k, t) PROVE FALSE
      BY <1>1, <1>2, <1>3, <3>2, InsideLine DEF f, t
    <3>3. \A z \in occ : z = t \/ (z \in DOMAIN b /\ z # f)
      BY DEF occ
    <3>4. x \in DOMAIN b /\ color_of(b[x]) = them /\ Hits(b, occ, x, k)
      BY <1>1, <3>1, <3>3, Unshielded DEF them
    <3>. QED
      BY <1>5, <3>4
  <2>2. CASE \E x \in Snipers(b, us) : Hits(b, DOMAIN b, x, k) /\ Inside(f, k, x)
    <3>1. PICK x \in Snipers(b, us) : Hits(b, DOMAIN b, x, k) /\ Inside(f, k, x)
      BY <2>2
    <3>2. x \in DOMAIN b /\ color_of(b[x]) = them /\ x \in Square
      BY <1>1, <1>8, <3>1, SniperIs DEF them
    <3>3. t = x \/ Inside(x, k, t)
      BY <1>10, <3>1, <3>2
    <3>4. Inside(f, k, t)
      BY <1>1, <1>3, <3>1, <3>2, <3>3, WayOn
    <3>. QED
      BY <1>1, <1>2, <1>3, <3>4, LineInside DEF t, f
  <2>. QED
    BY <1>1, <1>12, <2>1, <2>2, Behind
<1>. QED
  BY <1>6, <1>11, <1>12 DEF t

-------------------------------------------------------------------------------
(***************************************************************************)
(* Safe captures in passing.                                               *)
(***************************************************************************)
(* A safe capture in passing is let through, and answers every check by    *)
(* taking the pawn or stepping between.                                    *)
LEMMA SafePassing ==
  ASSUME NEW p, Sound(p), NEW m, Passing(p.board, p.sideToMove, St(p).epSquare, m),
         ~Attacked(After1(p, m), DOMAIN After1(p, m), Them(p.sideToMove), MyKing(p))
  PROVE  /\ legal(p, m)
         /\ \A x \in checkers(p) : x = m.to - pawn_push(p.sideToMove) \/ Inside(x, MyKing(p), m.to)
<1>. DEFINE b == p.board
            us == p.sideToMove
            them == Them(us)
            k == MyKing(p)
            f == m.from
            t == m.to
            c == t - pawn_push(us)
            occ == (DOMAIN b \ {f, c}) \cup {t}
<1>1. us \in Color /\ them \in Color /\ us # them /\ IsBoard(b) /\ KingAt(b, us, k) /\ k \in Square /\ k = square(b, us)
  BY SoundFacts, Pieces DEF MyKing
<1>2. /\ Proper(b, us, m) /\ CaptureSquare(us, m) = c /\ t \in Square /\ t \notin DOMAIN b
      /\ c \in DOMAIN b /\ b[c] = make_piece(them, PAWN)
  BY PassingProper
<1>3. m.type = "enpassant" /\ f \in DOMAIN b /\ b[f] = make_piece(us, PAWN)
  BY DEF Passing
<1>4. type_of(b[f]) # KING /\ type_of(b[c]) \notin {BISHOP, ROOK, QUEEN}
  BY <1>1, <1>2, <1>3, Pieces, TypesDiffer DEF PieceType
<1>5. ASSUME NEW x \in DOMAIN b, color_of(b[x]) = them, x # c PROVE ~Hits(b, occ, x, k)
  BY <1>1, <1>2, <1>5, StillHits
<1>6. legal(p, m) <=> f \notin blockersForKing(b)[us] \/ k \in LineBB[f][t]
  BY <1>3, <1>4, SoundFacts DEF legal
<1>7. \A x : x \in checkers(p) <=> x \in DOMAIN b /\ color_of(b[x]) = them /\ Hits(b, DOMAIN b, x, k)
  BY SoundFacts
<1>8. DOMAIN b \subseteq Square
  BY <1>1 DEF IsBoard
<1>. HIDE DEF b, us, them, k, f, t, occ, c
<1>10. ASSUME NEW x \in DOMAIN b, color_of(b[x]) = them, Hits(b, DOMAIN b, x, k), x # c
       PROVE  Inside(x, k, t)
  <2>. SUFFICES ASSUME ~Inside(x, k, t) PROVE FALSE
    OBVIOUS
  <2>1. \A z \in Square : Inside(x, k, z) /\ z \in occ => z \in DOMAIN b
    BY DEF occ
  <2>2. Hits(b, occ, x, k)
    BY <1>1, <1>10, <2>1, HitsSame
  <2>. QED
    BY <1>5, <1>10, <2>2
<1>11. \A x \in checkers(p) : x = c \/ Inside(x, k, t)
  BY <1>7, <1>10
<1>12. ASSUME f \in blockersForKing(b)[us] PROVE k \in LineBB[f][t]
  <2>0. f \in Square /\ f # t
    BY <1>2, <1>3, <1>8
  <2>1. CASE \E x : ShieldedBy(b, us, f, x)
    <3>1. PICK x : ShieldedBy(b, us, f, x)
      BY <2>1
    <3>2. Inside(x, k, f) /\ x \in Square
      BY <1>1, <3>1 DEF ShieldedBy
    <3>. SUFFICES ASSUME ~Inside(x, k, t) PROVE FALSE
      BY <1>1, <1>2, <2>0, <3>2, InsideLine
    <3>3. \A z \in occ : z = t \/ (z \in DOMAIN b /\ z # f)
      BY DEF occ
    <3>4. x \in DOMAIN b /\ color_of(b[x]) = them /\ Hits(b, occ, x, k) /\ type_of(b[x]) \in {BISHOP, ROOK, QUEEN}
      BY <1>1, <3>1, <3>3, Unshielded DEF them
    <3>. QED
      BY <1>4, <1>5, <3>4
  <2>2. CASE \E x \in Snipers(b, us) : Hits(b, DOMAIN b, x, k) /\ Inside(f, k, x)
    <3>1. PICK x \in Snipers(b, us) : Hits(b, DOMAIN b, x, k) /\ Inside(f, k, x)
      BY <2>2
    <3>2. x \in DOMAIN b /\ color_of(b[x]) = them /\ x \in Square /\ type_of(b[x]) \in {BISHOP, ROOK, QUEEN}
      BY <1>1, <1>8, <3>1, SniperIs DEF them
    <3>3. Inside(x, k, t)
      BY <1>4, <1>10, <3>1, <3>2
    <3>4. Inside(f, k, t)
      BY <1>1, <1>2, <2>0, <3>1, <3>2, <3>3, WayOn
    <3>. QED
      BY <1>1, <1>2, <2>0, <3>4, LineInside
  <2>. QED
    BY <1>1, <1>12, <2>1, <2>2, Behind
<1>. QED
  BY <1>6, <1>11, <1>12 DEF t, c, us, k

(* One square does not answer two checks.                                  *)
LEMMA OneBlocked ==
  ASSUME NEW p, Sound(p), NEW x \in checkers(p), NEW y \in checkers(p), NEW t \in Square,
         t = x \/ Inside(x, MyKing(p), t), t = y \/ Inside(y, MyKing(p), t)
  PROVE  x = y
<1>. DEFINE b == p.board
            k == MyKing(p)
<1>1. IsBoard(b) /\ k \in Square /\ \A z \in checkers(p) : z \in DOMAIN b /\ Hits(b, DOMAIN b, z, k)
  BY SoundFacts
<1>2. x \in Square /\ y \in Square /\ x \in DOMAIN b /\ y \in DOMAIN b
  BY <1>1 DEF IsBoard
<1>3. t = x \/ Inside(x, k, t)
  OBVIOUS
<1>4. t = y \/ Inside(y, k, t)
  OBVIOUS
<1>. HIDE DEF b, k
<1>5. \A z \in DOMAIN b : ~Inside(x, k, z) /\ ~Inside(y, k, z)
  BY <1>1, HitsOpen DEF IsBoard
<1>. SUFFICES ASSUME x # y PROVE FALSE
  OBVIOUS
<1>6. Inside(x, k, t) /\ Inside(y, k, t)
  BY <1>2, <1>3, <1>4, <1>5
<1>7. Inside(k, x, t) /\ Inside(k, y, t)
  BY <1>1, <1>2, <1>6, InsideSym
<1>8. PICK d \in KingSteps, n \in 1 .. 7, i \in 1 .. 7 : i < n /\ Toward(k, d, n, x) /\ Toward(k, d, i, t)
  BY <1>7 DEF Inside
<1>9. PICK e \in KingSteps, l \in 1 .. 7, j \in 1 .. 7 : j < l /\ Toward(k, e, l, y) /\ Toward(k, e, j, t)
  BY <1>7 DEF Inside
<1>10. d = e
  BY <1>1, <1>8, <1>9, OneWay
<1>11. n # l
  BY <1>1, <1>2, <1>8, <1>9, <1>10, OnePlace
<1>12. CASE n < l
  <2>1. Inside(k, y, x)
    BY <1>1, <1>2, <1>8, <1>9, <1>10, <1>12, InsideWay
  <2>. QED
    BY <1>1, <1>2, <1>5, <2>1, InsideSym
<1>13. CASE l < n
  <2>1. Inside(k, x, y)
    BY <1>1, <1>2, <1>8, <1>9, <1>10, <1>13, InsideWay
  <2>. QED
    BY <1>1, <1>2, <1>5, <2>1, InsideSym
<1>. QED
  BY <1>11, <1>12, <1>13

(* A square behind a pawn that gives check is on no line with the king.    *)
LEMMA CapturedApart ==
  ASSUME NEW us \in Color, NEW c \in Square, NEW t \in Square, NEW k \in Square, NEW x \in Square,
         Ahead(us, c, t, 1), Strikes(Them(us), c, k)
  PROVE  ~Inside(x, k, t)
<1>1. F(c) \in Int /\ R(c) \in Int /\ F(t) \in Int /\ R(t) \in Int /\ F(k) \in Int /\ R(k) \in Int
  BY Coordinates
<1>2. F(t) - F(k) \in {-1, 1} /\ R(t) - R(k) \in {-2, 2}
  BY <1>1 DEF Ahead, Strikes, Them, Color, WHITE, BLACK
<1>. SUFFICES ASSUME Inside(x, k, t) PROVE FALSE
  OBVIOUS
<1>3. Inside(k, x, t)
  BY InsideSym
<1>4. PICK d \in KingSteps, i \in 1 .. 7 : Toward(k, d, i, t)
  BY <1>3 DEF Inside
<1>5. i \in Int
  OBVIOUS
<1>. QED
  BY <1>1, <1>2, <1>4, <1>5 DEF Toward

(* A line along a file that passes the square behind a pawn passes the     *)
(* pawn.                                                                   *)
LEMMA FileThrough ==
  ASSUME NEW x \in Square, NEW k \in Square, NEW t \in Square, NEW e \in Square, NEW c \in Square,
         Inside(x, k, t), e = x \/ Inside(x, k, e), F(e) = F(t), F(c) = F(t),
         R(e) - R(t) = R(t) - R(c), R(t) - R(c) \in {1, -1}, c # k, c # x
  PROVE  Inside(x, k, c)
<1>1. PICK d \in KingSteps, n \in 1 .. 7, i \in 1 .. 7 : i < n /\ Toward(x, d, n, k) /\ Toward(x, d, i, t)
  BY DEF Inside
<1>2. F(e) \in Int /\ R(e) \in Int /\ F(t) \in Int /\ R(t) \in Int /\ F(c) \in Int /\ R(c) \in Int
      /\ F(x) \in Int /\ R(x) \in Int /\ F(k) \in Int /\ R(k) \in Int
  BY Coordinates
<1>3. e # t
  BY <1>2
<1>4. e = x \/ \E j \in 1 .. 7 : j < n /\ Toward(x, d, j, e)
  BY <1>1, InsideWay
<1>5. d \in {8, -8}
  <2>1. CASE e = x
    BY <1>1, <1>2, <2>1 DEF Toward
  <2>2. CASE \E j \in 1 .. 7 : j < n /\ Toward(x, d, j, e)
    <3>1. PICK j \in 1 .. 7 : j < n /\ Toward(x, d, j, e)
      BY <2>2
    <3>2. j # i
      BY <1>1, <1>3, <3>1, OnePlace
    <3>3. i \in Int /\ j \in Int
      OBVIOUS
    <3>. QED
      BY <1>1, <1>2, <3>1, <3>2, <3>3 DEF Toward
  <2>. QED
    BY <1>4, <2>1, <2>2
<1>6. ~(F(c) = F(x) /\ R(c) = R(x)) /\ ~(F(c) = F(k) /\ R(c) = R(k))
  BY Same
<1>. DEFINE u == IF d = 8 THEN R(c) - R(x) ELSE R(x) - R(c)
<1>7. u = i + 1 \/ u = i - 1
  BY <1>1, <1>2, <1>5 DEF Toward
<1>8. n = (IF d = 8 THEN R(k) - R(x) ELSE R(x) - R(k)) /\ F(k) = F(x) /\ F(c) = F(x)
  BY <1>1, <1>2, <1>5 DEF Toward
<1>9. u # 0 /\ u # n
  BY <1>2, <1>5, <1>6, <1>8
<1>10. u \in 1 .. 7 /\ u < n
  BY <1>1, <1>7, <1>9
<1>11. Toward(x, d, u, c)
  BY <1>2, <1>5, <1>8, <1>10 DEF Toward
<1>. HIDE DEF u
<1>. QED
  BY <1>1, <1>10, <1>11, InsideWay

-------------------------------------------------------------------------------
(***************************************************************************)
(* Captures in passing are among the evasions.                             *)
(***************************************************************************)
(* more_than_one tells apart one check from several.                       *)
LEMMA OneCheck ==
  ASSUME NEW p, Sound(p), checkers(p) # {}, \A x \in checkers(p), y \in checkers(p) : x = y
  PROVE  ~more_than_one(checkers(p)) /\ \E x : checkers(p) = {x} /\ Lsb(checkers(p)) = x
<1>1. PICK x : x \in checkers(p)
  OBVIOUS
<1>2. checkers(p) = {x}
  BY <1>1
<1>3. x \in Square
  BY <1>1, SoundFacts DEF IsBoard
<1>4. x \in Int
  BY <1>3, Coordinates
<1>5. Lsb({x}) = x
  BY <1>4 DEF Lsb
<1>6. Cardinality({x}) = 1
  BY FS_Singleton
<1>. QED
  BY <1>2, <1>5, <1>6 DEF more_than_one

(* generate<EVASIONS> does not leave out a safe capture in passing.        *)
LEMMA PassingEvades ==
  ASSUME NEW p, Sound(p), NEW m, Passing(p.board, p.sideToMove, St(p).epSquare, m), checkers(p) # {},
         ~Attacked(After1(p, m), DOMAIN After1(p, m), Them(p.sideToMove), MyKing(p))
  PROVE  /\ ~more_than_one(checkers(p))
         /\ m.to + pawn_push(p.sideToMove) \notin BetweenBB[MyKing(p)][Lsb(checkers(p))]
<1>. DEFINE b == p.board
            us == p.sideToMove
            them == Them(us)
            k == MyKing(p)
            t == m.to
            c == t - pawn_push(us)
            e == t + pawn_push(us)
<1>1. us \in Color /\ them \in Color /\ us # them /\ IsBoard(b) /\ KingAt(b, us, k) /\ k \in Square
  BY SoundFacts, Pieces
<1>2. t \in Square /\ t \notin DOMAIN b /\ c \in DOMAIN b /\ b[c] = make_piece(them, PAWN)
  BY PassingProper
<1>3. \A x \in checkers(p) : x = c \/ Inside(x, k, t)
  BY SafePassing
<1>4. \A x : x \in checkers(p) <=> x \in DOMAIN b /\ color_of(b[x]) = them /\ Hits(b, DOMAIN b, x, k)
  BY SoundFacts
<1>5. c \in Square /\ DOMAIN b \subseteq Square
  BY <1>1, <1>2 DEF IsBoard
<1>6. pawn_push(us) \in {8, -8} /\ t \in Int
  BY <1>2, Coordinates DEF pawn_push
<1>7. c + pawn_push(us) = t
  BY <1>6
<1>8. Ahead(us, c, t, 1) /\ (e \in Square => Ahead(us, t, e, 1)) /\ e # c
  BY <1>1, <1>2, <1>5, <1>6, <1>7, Forward
<1>9. c # k
  BY <1>1, <1>2, Pieces, TypesDiffer DEF KingAt, PieceType
<1>10. \A x \in checkers(p) : x = c => Strikes(them, c, k)
  BY <1>1, <1>2, <1>4, HitsElse
<1>11. \A x \in checkers(p), y \in checkers(p) : x # c /\ y # c => x = y
  <2>. TAKE x \in checkers(p), y \in checkers(p)
  <2>. HAVE x # c /\ y # c
  <2>1. Inside(x, MyKing(p), t) /\ Inside(y, MyKing(p), t)
    BY <1>3
  <2>. QED
    BY <1>2, <2>1, OneBlocked
<1>. HIDE DEF b, us, them, k, t, c, e
<1>12. \A x \in checkers(p), y \in checkers(p) : x = y
  <2>1. \A x \in checkers(p), y \in checkers(p) : x = c /\ y # c => FALSE
    BY <1>1, <1>2, <1>3, <1>4, <1>5, <1>8, <1>10, CapturedApart DEF them
  <2>. QED
    BY <1>11, <2>1
<1>13. PICK x : checkers(p) = {x} /\ Lsb(checkers(p)) = x
  BY <1>12, OneCheck
<1>14. x \in DOMAIN b /\ x \in Square /\ Hits(b, DOMAIN b, x, k)
  BY <1>4, <1>5, <1>13
<1>15. ASSUME e \in BetweenBB[k][x] PROVE FALSE
  <2>1. e = x \/ (e \in Square /\ Inside(k, x, e))
    BY <1>1, <1>14, <1>15, BetweenIs
  <2>2. e \in Square /\ (e = x \/ Inside(x, k, e))
    BY <1>1, <1>14, <2>1, InsideSym
  <2>3. CASE x = c
    BY <1>1, <1>5, <1>8, <1>10, <1>13, <2>2, <2>3, NothingInside
  <2>4. CASE x # c
    <3>1. Inside(x, k, t)
      BY <1>3, <1>13, <2>4
    <3>2. F(e) = F(t) /\ F(c) = F(t) /\ R(e) - R(t) = R(t) - R(c) /\ R(t) - R(c) \in {1, -1}
      <4>1. F(e) \in Int /\ R(e) \in Int /\ F(t) \in Int /\ R(t) \in Int /\ F(c) \in Int /\ R(c) \in Int
        BY <1>2, <1>5, <2>2, Coordinates
      <4>. QED
        BY <1>8, <2>2, <4>1 DEF Ahead
    <3>3. Inside(x, k, c)
      BY <1>1, <1>2, <1>5, <1>9, <1>14, <2>2, <2>4, <3>1, <3>2, FileThrough
    <3>. QED
      BY <1>1, <1>2, <1>5, <1>14, <3>3, HitsOpen
  <2>. QED
    BY <2>3, <2>4
<1>. QED
  BY <1>12, <1>13, <1>15, OneCheck DEF e, k, t, us

(* generate_pawn_moves makes each of its kinds of moves.                   *)
LEMMA PawnMade ==
  ASSUME NEW p, Sound(p), NEW kind \in {"evasions", "non_evasions"}, NEW target, NEW m, NEW s, OwnPawn(p, s),
         PawnMoveOf(p, kind, IF kind = "evasions" THEN Empty(p) \cap target ELSE Empty(p),
                    IF kind = "evasions" THEN checkers(p) ELSE Theirs(p), m, s),
         m.type = "enpassant" => ~(kind = "evasions" /\ St(p).epSquare + pawn_push(p.sideToMove) \in target)
  PROVE  m \in generate_pawn_moves(p, kind, target)
<1>. DEFINE us == p.sideToMove
            up == pawn_push(us)
            ep == St(p).epSquare
            pawns == Exactly(p.board, us, {PAWN})
            on7 == {q \in pawns : relative_rank(us, q) = 6}
            not7 == pawns \ on7
            free == IF kind = "evasions" THEN Empty(p) \cap target ELSE Empty(p)
            enemies == IF kind = "evasions" THEN checkers(p) ELSE Theirs(p)
<1>1. s \in pawns
  BY SoundFacts, Pieces, TypesDiffer DEF OwnPawn, Exactly, PieceType
<1>2. (s \in on7 <=> Rank7(p, s)) /\ (s \in not7 <=> ~Rank7(p, s))
  BY <1>1 DEF Rank7
<1>4. \A c : PromotionPieces(kind, c) = KNIGHT .. QUEEN
  BY DEF PromotionPieces
<1>5. kind # "captures" /\ kind # "quiets"
  OBVIOUS
<1>. DEFINE A == {Normal(q, q + up) : q \in {q \in not7 : q + up \in free}}
            B == {Normal(q, q + 2 * up) : q \in {q \in not7 : /\ q + up \in Empty(p) /\ relative_rank(us, q + up) = 2
                                                           /\ q + 2 * up \in free}}
            C == UNION {{Promotion(q, q + up, pt) : pt \in PromotionPieces(kind, FALSE)} :
                          q \in {q \in on7 : q + up \in free}}
            D == UNION {UNION {{Promotion(q, to, pt) : pt \in PromotionPieces(kind, TRUE)} :
                          to \in PawnAttacks[us][q] \cap enemies} : q \in on7}
            E == UNION {{Normal(q, to) : to \in PawnAttacks[us][q] \cap enemies} : q \in not7}
            H == kind = "quiets" \/ ep = SQ_NONE \/ (kind = "evasions" /\ ep + up \in target)
            G == {EnPassant(q, ep) : q \in not7 \cap PawnAttacks[Them(us)][ep]}
<1>6. generate_pawn_moves(p, kind, target)
        = (IF kind = "captures" THEN {} ELSE A \cup B) \cup C \cup D \cup (IF kind = "quiets" THEN {} ELSE E)
            \cup (IF H THEN {} ELSE G)
  BY Zenon DEF generate_pawn_moves
<1>7. /\ \/ m = Normal(s, s + up) /\ ~Rank7(p, s) /\ s + up \in free
         \/ m = Normal(s, s + 2 * up) /\ ~Rank7(p, s) /\ s + up \in Empty(p) /\ relative_rank(us, s + up) = 2 /\ s + 2 * up \in free
         \/ \E pt \in KNIGHT .. QUEEN : m = Promotion(s, s + up, pt) /\ Rank7(p, s) /\ s + up \in free
         \/ \E pt \in KNIGHT .. QUEEN, t \in PawnAttacks[us][s] \cap enemies : m = Promotion(s, t, pt) /\ Rank7(p, s)
         \/ \E t \in PawnAttacks[us][s] \cap enemies : m = Normal(s, t) /\ ~Rank7(p, s)
         \/ ep # SQ_NONE /\ m = EnPassant(s, ep) /\ ~Rank7(p, s) /\ s \in PawnAttacks[Them(us)][ep]
  BY DEF PawnMoveOf
<1>8. m = EnPassant(s, ep) /\ ep # SQ_NONE => ~H
  BY <1>5 DEF EnPassant
<1>. HIDE DEF us, up, ep, on7, not7, free, enemies, pawns, H
<1>9. CASE m = Normal(s, s + up) /\ ~Rank7(p, s) /\ s + up \in free
  <2>1. m \in A
    BY <1>2, <1>9
  <2>. HIDE DEF A, B, C, D, E, G
  <2>. QED
    BY <1>5, <1>6, <2>1
<1>10. CASE m = Normal(s, s + 2 * up) /\ ~Rank7(p, s) /\ s + up \in Empty(p) /\ relative_rank(us, s + up) = 2 /\ s + 2 * up \in free
  <2>1. m \in B
    BY <1>2, <1>10
  <2>. HIDE DEF A, B, C, D, E, G
  <2>. QED
    BY <1>5, <1>6, <2>1
<1>11. CASE \E pt \in KNIGHT .. QUEEN : m = Promotion(s, s + up, pt) /\ Rank7(p, s) /\ s + up \in free
  <2>1. m \in C
    <3>1. PICK pt \in KNIGHT .. QUEEN : m = Promotion(s, s + up, pt)
      BY <1>11
    <3>2. m \in {Promotion(s, s + up, q) : q \in PromotionPieces(kind, FALSE)}
      BY <1>4, <3>1
    <3>3. s \in {q \in on7 : q + up \in free}
      BY <1>2, <1>11
    <3>4. {Promotion(s, s + up, q) : q \in PromotionPieces(kind, FALSE)}
            \in {{Promotion(q, q + up, pp) : pp \in PromotionPieces(kind, FALSE)} : q \in {q \in on7 : q + up \in free}}
      BY <3>3
    <3>. QED
      BY <3>2, <3>4
  <2>. HIDE DEF A, B, C, D, E, G
  <2>. QED
    BY <1>6, <2>1
<1>12. CASE \E pt \in KNIGHT .. QUEEN, t \in PawnAttacks[us][s] \cap enemies : m = Promotion(s, t, pt) /\ Rank7(p, s)
  <2>1. m \in D
    <3>1. PICK pt \in KNIGHT .. QUEEN, t \in PawnAttacks[us][s] \cap enemies : m = Promotion(s, t, pt)
      BY <1>12
    <3>2. m \in {Promotion(s, t, q) : q \in PromotionPieces(kind, TRUE)}
      BY <1>4, <3>1
    <3>3. m \in UNION {{Promotion(s, to, q) : q \in PromotionPieces(kind, TRUE)} : to \in PawnAttacks[us][s] \cap enemies}
      BY <3>2
    <3>4. s \in on7
      BY <1>2, <1>12
    <3>5. UNION {{Promotion(s, to, q) : q \in PromotionPieces(kind, TRUE)} : to \in PawnAttacks[us][s] \cap enemies}
            \in {UNION {{Promotion(q, to, pp) : pp \in PromotionPieces(kind, TRUE)} : to \in PawnAttacks[us][q] \cap enemies} :
                    q \in on7}
      BY <3>4
    <3>. QED
      BY <3>3, <3>5
  <2>. HIDE DEF A, B, C, D, E, G
  <2>. QED
    BY <1>6, <2>1
<1>13. CASE \E t \in PawnAttacks[us][s] \cap enemies : m = Normal(s, t) /\ ~Rank7(p, s)
  <2>1. m \in E
    BY <1>2, <1>13
  <2>. HIDE DEF A, B, C, D, E, G
  <2>. QED
    BY <1>5, <1>6, <2>1
<1>14. CASE ep # SQ_NONE /\ m = EnPassant(s, ep) /\ ~Rank7(p, s) /\ s \in PawnAttacks[Them(us)][ep]
  <2>1. m \in G /\ ~H
    BY <1>2, <1>8, <1>14
  <2>. HIDE DEF A, B, C, D, E, G
  <2>. QED
    BY <1>6, <2>1
<1>. QED
  BY <1>7, <1>9, <1>10, <1>11, <1>12, <1>13, <1>14

-------------------------------------------------------------------------------
(***************************************************************************)
(* No move is missed by the generators.                                    *)
(***************************************************************************)
(* The square in front of a pawn at home.                                  *)
LEMMA OneOn ==
  ASSUME NEW us \in Color, NEW s \in Square, relative_rank(us, s) = 1
  PROVE  s + pawn_push(us) \in Square /\ relative_rank(us, s + pawn_push(us)) = 2
<1>1. F(s) \in 0 .. 7 /\ R(s) \in 0 .. 7 /\ s = 8 * R(s) + F(s)
  BY Coordinates
<1>2. CASE us = WHITE
  <2>1. R(s) = 1 /\ pawn_push(us) = 8
    BY <1>2 DEF relative_rank, R, pawn_push
  <2>2. s + 8 = 8 * 2 + F(s) /\ s + pawn_push(us) = s + 8
    BY <1>1, <2>1
  <2>3. s + 8 \in Square /\ R(s + 8) = 2
    BY <1>1, <2>2, SquareAt
  <2>. QED
    BY <1>2, <2>1, <2>2, <2>3 DEF relative_rank, R
<1>3. CASE us # WHITE
  <2>1. R(s) = 6 /\ pawn_push(us) = -8
    BY <1>1, <1>3 DEF relative_rank, R, pawn_push
  <2>2. s + (-8) = 8 * 5 + F(s)
    BY <1>1, <2>1
  <2>3. s + (-8) \in Square /\ R(s + (-8)) = 5
    BY <1>1, <2>2, SquareAt
  <2>. QED
    BY <1>3, <2>1, <2>3 DEF relative_rank, R
<1>. QED
  BY <1>2, <1>3

(* generate_pawn_moves misses no push and no capture,                      *)
LEMMA PawnGenerated ==
  ASSUME NEW p, Sound(p), NEW kind \in {"evasions", "non_evasions"}, NEW target, NEW m, IsMove(m),
         PawnGoes(p.board, p.sideToMove, m),
         kind = "evasions" => m.to \in target /\ (m.to \in DOMAIN p.board => m.to \in checkers(p))
  PROVE  m \in generate_pawn_moves(p, kind, target)
<1>. DEFINE b == p.board
            us == p.sideToMove
            up == pawn_push(us)
            s == m.from
            t == m.to
            free == IF kind = "evasions" THEN Empty(p) \cap target ELSE Empty(p)
            enemies == IF kind = "evasions" THEN checkers(p) ELSE Theirs(p)
<1>1. us \in Color /\ IsBoard(b) /\ s \in DOMAIN b /\ s \in Square /\ t \in Square
      /\ b[s] = make_piece(us, PAWN) /\ color_of(b[s]) = us /\ (t \in DOMAIN b => color_of(b[t]) = Them(us))
  BY SoundFacts DEF PawnGoes, Mover, IsBoard
<1>2. OwnPawn(p, s)
  BY <1>1 DEF OwnPawn
<1>3. t \notin DOMAIN b => t \in Empty(p) /\ t \in free
  BY <1>1 DEF Empty, pieces
<1>4. t \in DOMAIN b => t \in enemies
  BY <1>1 DEF Theirs, OfColor
<1>5. PawnWay(b, us, s, t)
  BY DEF PawnGoes
<1>6. IF Rank7(p, s) THEN \E pt \in KNIGHT .. QUEEN : m = Promotion(s, t, pt) ELSE m = Normal(s, t)
  BY MoveBuilt DEF PawnGoes, Rank7
<1>7. \A n \in Int : Ahead(us, s, t, n) => t = s + n * up
  BY <1>1, Forward
<1>8. up \in Int /\ s \in Int
  BY <1>1, Coordinates DEF pawn_push
<1>9. Rank7(p, s) <=> relative_rank(us, s) = 6
  BY DEF Rank7
<1>10. m.type # "enpassant"
  BY DEF PawnGoes
<1>11. Strikes(us, s, t) => t \in PawnAttacks[us][s]
  BY <1>1, PawnIs
<1>12. relative_rank(us, s) = 1 => s + up \in Square /\ relative_rank(us, s + up) = 2
  BY <1>1, OneOn
<1>13. \A z \in Square : z \notin DOMAIN b => z \in Empty(p)
  BY DEF Empty, pieces
<1>. HIDE DEF b, us, s, t, free, enemies
<1>14. CASE Ahead(us, s, t, 1) /\ t \notin DOMAIN b
  <2>1. t = s + up
    BY <1>7, <1>8, <1>14
  <2>2. s + up \in free
    BY <1>3, <1>14, <2>1
  <2>3. \/ m = Normal(s, s + up) /\ ~Rank7(p, s) /\ s + up \in free
        \/ \E pt \in KNIGHT .. QUEEN : m = Promotion(s, s + up, pt) /\ Rank7(p, s) /\ s + up \in free
    BY <1>6, <2>1, <2>2
  <2>4. PawnMoveOf(p, kind, free, enemies, m, s)
    BY <2>3 DEF PawnMoveOf, us
  <2>. QED
    BY <1>2, <1>10, <2>4, PawnMade DEF free, enemies
<1>15. CASE Ahead(us, s, t, 2) /\ relative_rank(us, s) = 1 /\ s + pawn_push(us) \notin DOMAIN b /\ t \notin DOMAIN b
  <2>1. t = s + 2 * up
    BY <1>7, <1>8, <1>15
  <2>2. s + 2 * up \in free
    BY <1>3, <1>15, <2>1
  <2>3. s + up \in Empty(p) /\ relative_rank(us, s + up) = 2
    BY <1>12, <1>13, <1>15
  <2>4. ~Rank7(p, s)
    BY <1>9, <1>15
  <2>5. m = Normal(s, s + 2 * up)
    BY <1>6, <2>1, <2>4
  <2>6. PawnMoveOf(p, kind, free, enemies, m, s)
    BY <2>2, <2>3, <2>4, <2>5 DEF PawnMoveOf, us
  <2>. QED
    BY <1>2, <1>10, <2>6, PawnMade DEF free, enemies
<1>16. CASE Strikes(us, s, t) /\ t \in DOMAIN b
  <2>1. t \in PawnAttacks[us][s] \cap enemies
    BY <1>4, <1>11, <1>16
  <2>2. PawnMoveOf(p, kind, free, enemies, m, s)
    BY <1>6, <2>1 DEF PawnMoveOf, us
  <2>. QED
    BY <1>2, <1>10, <2>2, PawnMade DEF free, enemies
<1>. QED
  BY <1>5, <1>14, <1>15, <1>16 DEF PawnWay, b, us

(* and no capture in passing;                                              *)
LEMMA PassingGenerated ==
  ASSUME NEW p, Sound(p), NEW kind \in {"evasions", "non_evasions"}, NEW target, NEW m, IsMove(m),
         Passing(p.board, p.sideToMove, St(p).epSquare, m),
         kind = "evasions" => m.to + pawn_push(p.sideToMove) \notin target
  PROVE  m \in generate_pawn_moves(p, kind, target)
<1>. DEFINE b == p.board
            us == p.sideToMove
            s == m.from
            ep == St(p).epSquare
            free == IF kind = "evasions" THEN Empty(p) \cap target ELSE Empty(p)
            enemies == IF kind = "evasions" THEN checkers(p) ELSE Theirs(p)
<1>1. /\ us \in Color /\ IsBoard(b) /\ s \in DOMAIN b /\ s \in Square /\ b[s] = make_piece(us, PAWN)
      /\ Strikes(us, s, ep) /\ m.to = ep /\ ep # SQ_NONE /\ m.type = "enpassant" /\ m.promo = 0
  BY SoundFacts DEF Passing, IsBoard
<1>2. color_of(b[s]) = us
  BY <1>1, Pieces, TypesDiffer DEF PieceType
<1>3. OwnPawn(p, s)
  BY <1>1, <1>2 DEF OwnPawn
<1>4. m = EnPassant(s, ep)
  BY <1>1, MoveBuilt
<1>5. ep \in Square /\ relative_rank(us, ep) = 5
  BY <1>1, PassingProper
<1>6. s \in PawnAttacks[Them(us)][ep]
  BY <1>1, <1>5, PawnIs, StepsSym, Pieces
<1>7. ~Rank7(p, s)
  <2>1. R(s) \in Int /\ R(ep) \in Int
    BY <1>1, <1>5, Coordinates
  <2>2. R(ep) - R(s) = (IF us = WHITE THEN 1 ELSE -1)
    BY <1>1 DEF Strikes
  <2>3. relative_rank(us, s) # 6
    BY <1>5, <2>1, <2>2 DEF relative_rank, R
  <2>. QED
    BY <2>3 DEF Rank7
<1>8. PawnMoveOf(p, kind, free, enemies, m, s)
  BY <1>1, <1>4, <1>6, <1>7 DEF PawnMoveOf
<1>. QED
  BY <1>1, <1>3, <1>8, PawnMade

(* generate_moves misses no move of a piece.                               *)
LEMMA PieceGenerated ==
  ASSUME NEW p, Sound(p), NEW target, NEW m, IsMove(m), PieceGoes(p.board, p.sideToMove, m),
         m.from # MyKing(p), m.to \in target
  PROVE  m \in generate_moves(p, target)
<1>. DEFINE b == p.board
            us == p.sideToMove
            s == m.from
            t == m.to
<1>1. us \in Color /\ IsBoard(b) /\ KingAt(b, us, MyKing(p))
  BY SoundFacts
<1>2. /\ s \in DOMAIN b /\ color_of(b[s]) = us /\ t \in Square /\ s \in Square
      /\ type_of(b[s]) \in KNIGHT .. KING /\ Hits(b, DOMAIN b, s, t)
  BY <1>1 DEF PieceGoes, Mover, IsBoard
<1>3. type_of(b[s]) # KING
  <2>1. b[s] \in Piece
    BY <1>1, <1>2 DEF IsBoard
  <2>2. type_of(b[s]) = KING => b[s] = make_piece(us, KING)
    BY <1>2, <2>1, Pieces
  <2>. QED
    BY <1>1, <1>2, <2>2 DEF KingAt
<1>4. m = Normal(s, t)
  BY MoveBuilt DEF PieceGoes
<1>5. type_of(b[s]) \in KNIGHT .. QUEEN
  BY <1>2, <1>3, TypesDiffer
<1>6. t \in attacks_bb(type_of(b[s]), s, pieces(b))
  <2>1. CASE type_of(b[s]) = KNIGHT
    BY <1>2, <2>1, KnightIs, TypesDiffer DEF Hits, attacks_bb
  <2>2. CASE type_of(b[s]) # KNIGHT
    <3>1. type_of(b[s]) \in {BISHOP, ROOK, QUEEN} /\ type_of(b[s]) \notin {KNIGHT, KING, PAWN}
      BY <1>5, <2>2, TypesDiffer
    <3>2. Aligned(type_of(b[s]), s, t) /\ Clear(s, t, DOMAIN b)
      BY <1>2, <3>1 DEF Hits
    <3>3. t \in sliding_attack(type_of(b[s]), s, DOMAIN b)
      BY <1>2, <3>2, SlidingIs
    <3>. QED
      BY <3>1, <3>3 DEF attacks_bb, pieces
  <2>. QED
    BY <2>1, <2>2
<1>7. s \in Exactly(b, us, KNIGHT .. QUEEN)
  BY <1>2, <1>5 DEF Exactly
<1>8. m \in {Normal(s, to) : to \in attacks_bb(type_of(b[s]), s, pieces(b)) \cap target}
  BY <1>4, <1>6
<1>9. {Normal(s, to) : to \in attacks_bb(type_of(b[s]), s, pieces(b)) \cap target}
        \in {{Normal(q, to) : to \in attacks_bb(type_of(b[q]), q, pieces(b)) \cap target} : q \in Exactly(b, us, KNIGHT .. QUEEN)}
  BY <1>7
<1>10. m \in UNION {{Normal(q, to) : to \in attacks_bb(type_of(b[q]), q, pieces(b)) \cap target} : q \in Exactly(b, us, KNIGHT .. QUEEN)}
  BY <1>8, <1>9
<1>. QED
  BY <1>10 DEF generate_moves

-------------------------------------------------------------------------------
(***************************************************************************)
(* All moves, and castling.                                                *)
(***************************************************************************)
(* A move that answers every check ends on a target of generate<EVASIONS>. *)
LEMMA AnswerTarget ==
  ASSUME NEW p, Sound(p), checkers(p) # {}, NEW t \in Square, Answers(p, t)
  PROVE  /\ ~more_than_one(checkers(p))
         /\ t \in BetweenBB[MyKing(p)][Lsb(checkers(p))]
         /\ t \in DOMAIN p.board => t \in checkers(p)
<1>. DEFINE b == p.board
            k == MyKing(p)
<1>1. k \in Square /\ \A x \in checkers(p) : x \in DOMAIN b /\ x \in Square
  BY SoundFacts DEF IsBoard
<1>2. \A x \in checkers(p) : t = x \/ Inside(x, k, t)
  BY <1>1, InsideSym DEF Answers
<1>3. \A x \in checkers(p), y \in checkers(p) : x = y
  <2>. TAKE x \in checkers(p), y \in checkers(p)
  <2>1. (t = x \/ Inside(x, MyKing(p), t)) /\ (t = y \/ Inside(y, MyKing(p), t))
    BY <1>2
  <2>. QED
    BY <2>1, OneBlocked
<1>4. ~more_than_one(checkers(p))
  BY <1>3, OneCheck
<1>5. PICK x : /\ checkers(p) = {x} /\ Lsb(checkers(p)) = x
               /\ \A z \in BetweenBB[k][x] : z \in DOMAIN b => z = x
  BY <1>4, OneChecker
<1>6. t \in BetweenBB[k][x]
  <2>1. t = x \/ Inside(k, x, t)
    BY <1>5 DEF Answers
  <2>. QED
    BY <1>1, <1>5, <2>1, BetweenIs
<1>. QED
  BY <1>4, <1>5, <1>6

(* The moves generated, by what generates them.                            *)
LEMMA AllMovesIs ==
  ASSUME NEW p, NEW m, NEW kind, kind = IF checkers(p) # {} THEN "evasions" ELSE "non_evasions"
  PROVE  m \in AllMoves(p)
           <=> \/ /\ ~(checkers(p) # {} /\ more_than_one(checkers(p)))
                  /\ m \in generate_pawn_moves(p, kind, Target(p, kind)) \/ m \in generate_moves(p, Target(p, kind))
               \/ \E to \in PseudoAttacks[KING][MyKing(p)] \cap (Square \ Mine(p)) : m = Normal(MyKing(p), to)
               \/ checkers(p) = {} /\ m \in CastlingMoves(p)
<1>. DEFINE kingTarget == IF kind = "evasions" THEN Square \ Mine(p) ELSE Target(p, kind)
<1>1. kingTarget = Square \ Mine(p) /\ (kind = "evasions" <=> checkers(p) # {}) /\ (kind \in {"quiets", "non_evasions"} <=> checkers(p) = {})
  BY DEF Target
<1>2. AllMoves(p) =
             (IF kind = "evasions" /\ more_than_one(checkers(p)) THEN {}
              ELSE generate_pawn_moves(p, kind, Target(p, kind)) \cup generate_moves(p, Target(p, kind)))
            \cup {Normal(MyKing(p), to) : to \in PseudoAttacks[KING][MyKing(p)] \cap kingTarget}
            \cup (IF kind \in {"quiets", "non_evasions"} THEN CastlingMoves(p) ELSE {})
  BY DEF AllMoves, generate
<1>. HIDE DEF kingTarget
<1>. QED
  BY <1>1, <1>2

(* Every move that goes as its piece goes, and answers the checks, is      *)
(* generated.                                                              *)
LEMMA AllHas ==
  ASSUME NEW p, Sound(p), NEW m, IsMove(m),
         \/ PieceGoes(p.board, p.sideToMove, m) /\ m.from = MyKing(p)
         \/ /\ PieceGoes(p.board, p.sideToMove, m) \/ PawnGoes(p.board, p.sideToMove, m)
            /\ m.from # MyKing(p) /\ (checkers(p) # {} => Answers(p, m.to))
         \/ /\ Passing(p.board, p.sideToMove, St(p).epSquare, m)
            /\ checkers(p) # {} => /\ ~more_than_one(checkers(p))
                                   /\ m.to + pawn_push(p.sideToMove) \notin BetweenBB[MyKing(p)][Lsb(checkers(p))]
         \/ \E cr : CastlesWith(p, m, cr)
  PROVE  m \in AllMoves(p)
<1>. DEFINE b == p.board
            us == p.sideToMove
            kind == IF checkers(p) # {} THEN "evasions" ELSE "non_evasions"
            target == Target(p, kind)
<1>1. us \in Color /\ IsBoard(b) /\ MyKing(p) \in Square /\ Them(us) # us
  BY SoundFacts, Pieces
<1>2. checkers(p) # {} => target = BetweenBB[MyKing(p)][Lsb(checkers(p))]
  BY DEF Target
<1>3. checkers(p) = {} => target = Square \ Mine(p)
  BY DEF Target
<1>4. kind \in {"evasions", "non_evasions"} /\ (kind = "evasions" <=> checkers(p) # {})
  OBVIOUS
<1>5. /\ (~(checkers(p) # {} /\ more_than_one(checkers(p)))
            /\ (m \in generate_pawn_moves(p, kind, target) \/ m \in generate_moves(p, target)))
           => m \in AllMoves(p)
      /\ (\E to \in PseudoAttacks[KING][MyKing(p)] \cap (Square \ Mine(p)) : m = Normal(MyKing(p), to)) => m \in AllMoves(p)
      /\ checkers(p) = {} /\ m \in CastlingMoves(p) => m \in AllMoves(p)
  BY AllMovesIs
<1>. HIDE DEF kind, target
<1>6. CASE PieceGoes(b, us, m) /\ m.from = MyKing(p)
  <2>1. m = Normal(MyKing(p), m.to) /\ m.to \in Square /\ Hits(b, DOMAIN b, MyKing(p), m.to)
    BY <1>6, MoveBuilt DEF PieceGoes, Mover
  <2>2. type_of(b[MyKing(p)]) = KING
    BY SoundFacts, Pieces, TypesDiffer DEF KingAt, PieceType
  <2>3. m.to \in PseudoAttacks[KING][MyKing(p)]
    BY <1>1, <2>1, <2>2, KingIs, TypesDiffer DEF Hits
  <2>4. m.to \notin Mine(p)
    BY <1>1, <1>6 DEF PieceGoes, Mover, Mine, OfColor
  <2>. QED
    BY <1>5, <2>1, <2>3, <2>4
<1>7. CASE /\ PieceGoes(b, us, m) \/ PawnGoes(b, us, m)
           /\ m.from # MyKing(p) /\ (checkers(p) # {} => Answers(p, m.to))
  <2>1. m.to \in Square /\ (m.to \in DOMAIN b => color_of(b[m.to]) = Them(us))
    BY <1>7 DEF PieceGoes, PawnGoes, Mover
  <2>2. m.to \notin Mine(p)
    BY <1>1, <2>1 DEF Mine, OfColor
  <2>3. /\ ~(checkers(p) # {} /\ more_than_one(checkers(p))) /\ m.to \in target
        /\ kind = "evasions" => (m.to \in DOMAIN b => m.to \in checkers(p))
    <3>1. CASE checkers(p) = {}
      BY <1>3, <1>4, <2>1, <2>2, <3>1
    <3>2. CASE checkers(p) # {}
      BY <1>2, <1>4, <1>7, <2>1, <3>2, AnswerTarget
    <3>. QED
      BY <3>1, <3>2
  <2>4. m \in generate_pawn_moves(p, kind, target) \/ m \in generate_moves(p, target)
    BY <1>4, <1>7, <2>3, PieceGenerated, PawnGenerated
  <2>. QED
    BY <1>5, <2>3, <2>4
<1>8. CASE /\ Passing(b, us, St(p).epSquare, m)
           /\ checkers(p) # {} => /\ ~more_than_one(checkers(p))
                                  /\ m.to + pawn_push(us) \notin BetweenBB[MyKing(p)][Lsb(checkers(p))]
  <2>1. m \in generate_pawn_moves(p, kind, target)
    BY <1>2, <1>4, <1>8, PassingGenerated
  <2>. QED
    BY <1>5, <1>8, <2>1
<1>9. CASE \E cr : CastlesWith(p, m, cr)
  <2>1. PICK cr : CastlesWith(p, m, cr)
    BY <1>9
  <2>2. /\ cr \in CastlingOf(us) /\ can_castle(p, cr) /\ ~castling_impeded(p, cr)
        /\ m = Castle(MyKing(p), p.castling[cr].rook) /\ checkers(p) = {}
    BY <2>1 DEF CastlesWith, can_castle, castling_impeded, pieces
  <2>3. m \in CastlingMoves(p)
    BY <2>2 DEF CastlingMoves
  <2>. QED
    BY <1>5, <2>2, <2>3
<1>. QED
  BY <1>6, <1>7, <1>8, <1>9

(* In Chess960 a rook that hides the king's arrival from an attacker on    *)
(* its rank hides the king too.                                            *)
LEMMA PinnedRook ==
  ASSUME NEW ff \in 0 .. 7, NEW fr \in 0 .. 7, NEW fk, NEW fq, NEW c960, CastlingFiles(ff, fr, fk, fq, c960),
         NEW x \in 0 .. 7, (x < fr /\ fr < ff) \/ (ff < fr /\ fr < x),
         ~Between2(x, fr, fq), ~Between2(x, ff, fk)
  PROVE  /\ x # fk
         /\ \A z \in 0 .. 7 : (x < z /\ z < fk) \/ (fk < z /\ z < x)
              => /\ z # fq /\ z # ff /\ z # fk
                 /\ z = fr \/ (x < z /\ z < ff) \/ (ff < z /\ z < x)
<1>1. CASE ff < fr
  <2>1. fk = 6 /\ fq = 5 /\ x = 7
    BY <1>1 DEF CastlingFiles, Between2
  <2>. QED
    BY <1>1, <2>1
<1>2. CASE fr < ff
  <2>1. fk = 2 /\ fq = 3 /\ x < 2
    BY <1>2 DEF CastlingFiles, Between2
  <2>2. fr # 0
    BY <1>2
  <2>. QED
    BY <1>2, <2>1, <2>2
<1>. QED
  BY <1>1, <1>2 DEF CastlingFiles

(* Castling that is safe by the rules is let through by legal.             *)
LEMMA SafeCastling ==
  ASSUME NEW p, Sound(p), p.castling = pos.castling, NEW cr, CastlesFreely(p, cr),
         NEW m, m = Castle(MyKing(p), p.castling[cr].rook), Rules!Safe(Situation(p), m)
  PROVE  CastlesWith(p, m, cr) /\ legal(p, m)
<1>. DEFINE b == p.board
            us == p.sideToMove
            them == Them(us)
            nb == After2(p, m)
            f == m.from
            r == m.to
            kto == KTo(p, m)
            rto == RTo(p, m)
            c960 == p.chess960
            g == Situation(p)
<1>1. us \in Color /\ them \in Color /\ us # them /\ IsBoard(b) /\ MyKing(p) = square(b, us) /\ MyKing(p) \in Square
  BY SoundFacts, Pieces DEF MyKing
<1>2. HomeRight(p, cr) /\ DOMAIN b \cap p.castling[cr].path = {}
      /\ \A s \in Path(MyKing(p), KingTarget(cr)) : ~Attacked(b, DOMAIN b, them, s)
  BY DEF CastlesFreely
<1>3. KingTarget(cr) \in Square /\ R(MyKing(p)) = R(KingTarget(cr))
  BY <1>2, RightHome
<1>4. \A s \in Path(MyKing(p), KingTarget(cr)) : s \in Square
  BY <1>1, <1>3, SpanIs
<1>5. ~Attacked(b, DOMAIN b, them, MyKing(p))
  <2>1. MyKing(p) \in Path(MyKing(p), KingTarget(cr))
    BY <1>1, <1>3, SpanIs
  <2>. QED
    BY <1>2, <2>1
<1>6. checkers(p) = {}
  BY <1>5, SoundFacts DEF Attacked
<1>7. CastlesWith(p, m, cr)
  BY <1>2, <1>6 DEF CastlesWith, HomeRight
<1>8. /\ Castles(b, us, m) /\ CastlingRight(us, m) = cr /\ m.type = "castling" /\ f = MyKing(p)
      /\ CastlingPlaces(b, us, m, kto, rto, c960)
  BY <1>7, CastlingProper DEF KTo, RTo
<1>9. StandsCastled(nb, b, us, f, r, kto, rto) /\ KingAt(nb, us, kto) /\ IsBoard(nb)
  <2>1. StandsCastled(nb, b, us, f, r, kto, rto) /\ KingAt(nb, us, kto)
    BY <1>8, CastledAfter
  <2>. HIDE DEF nb, b, us, f, r, kto, rto
  <2>. QED
    BY <2>1 DEF StandsCastled
<1>10. ~Attacked(nb, DOMAIN nb, them, kto)
  <2>1. Rules!Played(g, m) = nb
    BY <1>7, RulesCastled
  <2>2. g.turn = us
    BY Situated
  <2>. HIDE DEF nb, g
  <2>3. Rules!InCheck(nb, us) <=> Attacked(nb, DOMAIN nb, Them(us), kto)
    BY <1>9, RulesCheck
  <2>. QED
    BY <2>1, <2>2, <2>3 DEF Rules!Safe, g
<1>11. Arrival(us, m) = KingTarget(cr)
  BY <1>8 DEF Arrival
<1>12. \A s \in Path(f, Arrival(us, m)) \ {f} : ~attackers_to_exist(b, s, DOMAIN b, them)
  BY <1>1, <1>2, <1>4, <1>8, <1>11, AttackedIs
<1>13. legal(p, m) <=> (c960 => r \notin blockersForKing(b)[us])
  BY <1>8, <1>12, SoundFacts DEF legal, pieces
<1>14. b[r] = make_piece(us, ROOK)
  BY <1>8 DEF Castles
<1>15. /\ CastlingFiles(F(f), F(r), F(kto), F(rto), c960)
       /\ \A z \in DOMAIN b :
            R(z) = R(f) /\ z # f /\ z # r
              => /\ z \in Square /\ F(z) \in 0 .. 7 /\ F(z) # F(f) /\ F(z) # F(r)
                 /\ ~Between2(F(z), F(r), F(rto)) /\ ~Between2(F(z), F(f), F(kto))
       /\ f \in Square /\ r \in Square /\ kto \in Square /\ rto \in Square
       /\ f \in DOMAIN b /\ r \in DOMAIN b
       /\ R(f) \in {0, 7} /\ R(r) = R(f) /\ R(kto) = R(f) /\ R(rto) = R(f)
  BY <1>1, <1>8, FilesOf
<1>16. \A x : ShieldedBy(b, us, r, x) => x \in Snipers(b, us) /\ x \in Square /\ Inside(x, f, r)
                                        /\ \A z \in DOMAIN b : Inside(x, f, z) => z = r
  BY <1>1, <1>8 DEF ShieldedBy
<1>17. f = square(b, us)
  BY <1>1, <1>8
<1>. HIDE DEF b, us, them, nb, f, r, kto, rto, c960, g
<1>18. ASSUME r \in blockersForKing(b)[us] PROVE FALSE
  <2>1. PICK x : ShieldedBy(b, us, r, x)
    BY <1>1, <1>5, <1>18, Shielded DEF them
  <2>2. /\ x \in Snipers(b, us) /\ x \in Square /\ Inside(x, f, r)
        /\ \A z \in DOMAIN b : Inside(x, f, z) => z = r
    BY <1>16, <2>1
  <2>3. /\ x \in DOMAIN b /\ color_of(b[x]) = them /\ type_of(b[x]) \in {BISHOP, ROOK, QUEEN}
        /\ Aligned(type_of(b[x]), x, f)
    BY <1>1, <1>17, <2>2, SniperIs DEF them
  <2>4. R(x) = R(f)
    BY <1>15, <2>2, RankLine
  <2>5. (F(x) < F(r) /\ F(r) < F(f)) \/ (F(f) < F(r) /\ F(r) < F(x))
    BY <1>15, <2>2, <2>4, InsideRank
  <2>6. F(x) \in 0 .. 7 /\ F(f) \in 0 .. 7 /\ F(r) \in 0 .. 7
    BY <1>15, <2>2, Coordinates
  <2>7. x # f /\ x # r
    BY <2>5, <2>6
  <2>8. ~Between2(F(x), F(r), F(rto)) /\ ~Between2(F(x), F(f), F(kto))
    BY <1>15, <2>3, <2>4, <2>7
  <2>9. /\ F(x) # F(kto)
        /\ \A z \in 0 .. 7 : (F(x) < z /\ z < F(kto)) \/ (F(kto) < z /\ z < F(x))
              => /\ z # F(rto) /\ z # F(f) /\ z # F(kto)
                 /\ z = F(r) \/ (F(x) < z /\ z < F(f)) \/ (F(f) < z /\ z < F(x))
    BY <1>15, <2>5, <2>6, <2>8, PinnedRook
  <2>10. Aligned(type_of(b[x]), x, kto)
    BY <1>15, <2>2, <2>3, <2>4, <2>9, RankAligned
  <2>11. ASSUME NEW z \in Square, Inside(x, kto, z), z \in DOMAIN nb PROVE FALSE
    <3>1. R(z) = R(f) /\ ((F(x) < F(z) /\ F(z) < F(kto)) \/ (F(kto) < F(z) /\ F(z) < F(x)))
      BY <1>15, <2>2, <2>4, <2>11, InsideRank
    <3>2. F(z) \in 0 .. 7
      BY Coordinates
    <3>3. F(z) # F(rto) /\ F(z) # F(kto)
          /\ (F(z) = F(r) \/ (F(x) < F(z) /\ F(z) < F(f)) \/ (F(f) < F(z) /\ F(z) < F(x)))
      BY <2>9, <3>1, <3>2
    <3>4. z \in DOMAIN b /\ z # r
      BY <1>9, <2>11, <3>3 DEF StandsCastled
    <3>5. F(z) # F(r)
      BY <1>15, <3>1, <3>4, Same
    <3>6. Inside(x, f, z)
      BY <1>15, <2>2, <2>4, <3>1, <3>3, <3>5, InsideRank
    <3>. QED
      BY <2>2, <3>4, <3>6
  <2>12. Hits(b, DOMAIN nb, x, kto)
    BY <2>3, <2>10, <2>11 DEF Hits, Clear
  <2>13. x \in DOMAIN nb /\ nb[x] = b[x]
    BY <1>9, <2>3, <2>7 DEF StandsCastled
  <2>14. Hits(nb, DOMAIN nb, x, kto)
    BY <2>3, <2>12, <2>13, HitsOld
  <2>. QED
    BY <1>10, <2>3, <2>13, <2>14 DEF Attacked
<1>. QED
  BY <1>7, <1>13, <1>18

-------------------------------------------------------------------------------
(***************************************************************************)
(* The legal moves are those of the rules.                                 *)
(***************************************************************************)
(* A legal move by the rules is in the list of legal moves.                *)
LEMMA RulesLegal ==
  ASSUME NEW p, Sound(p), p.castling = pos.castling, NEW m, m \in Rules!Moves(Situation(p)), Rules!Safe(Situation(p), m)
  PROVE  m \in LegalList(p)
<1>. DEFINE b == p.board
            us == p.sideToMove
            k == MyKing(p)
            nb == After1(p, m)
<1>1. \/ /\ IsMove(m)
         /\ \/ PieceGoes(b, us, m)
            \/ PawnGoes(b, us, m)
            \/ Passing(b, us, St(p).epSquare, m)
      \/ \E cr : CastlesFreely(p, cr) /\ m = Castle(MyKing(p), p.castling[cr].rook)
  BY RulesMoves
<1>2. KingAt(b, us, k) /\ us \in Color
  BY SoundFacts
<1>3. PawnGoes(b, us, m) => m.from # k
  BY <1>2, Pieces, TypesDiffer DEF PawnGoes, KingAt, PieceType
<1>4. Passing(b, us, St(p).epSquare, m) => m.from # k
  BY <1>2, Pieces, TypesDiffer DEF Passing, KingAt, PieceType
<1>5. PieceGoes(b, us, m) \/ PawnGoes(b, us, m) => Proper(b, us, m)
  BY GoesProper
<1>6. Passing(b, us, St(p).epSquare, m) => Proper(b, us, m)
  BY PassingProper
<1>7. /\ Proper(b, us, m) /\ m.from = k => ~Attacked(nb, DOMAIN nb, Them(us), m.to)
      /\ Proper(b, us, m) /\ m.from # k => ~Attacked(nb, DOMAIN nb, Them(us), k)
  BY SafeMeans
<1>8. m \in LegalList(p) <=> m \in AllMoves(p) /\ (Suspect(p, m) => legal(p, m))
  BY DEF LegalList
<1>9. CASE IsMove(m) /\ PieceGoes(b, us, m) /\ m.from = k
  <2>1. legal(p, m)
    BY <1>5, <1>7, <1>9, SafeKing
  <2>2. m \in AllMoves(p)
    BY <1>9, AllHas
  <2>. QED
    BY <1>8, <2>1, <2>2
<1>10. CASE IsMove(m) /\ (PieceGoes(b, us, m) \/ PawnGoes(b, us, m)) /\ m.from # k
  <2>1. Answers(p, m.to) /\ legal(p, m)
    BY <1>5, <1>7, <1>10, SafeAnswers
  <2>2. m \in AllMoves(p)
    BY <1>10, <2>1, AllHas
  <2>. QED
    BY <1>8, <2>1, <2>2
<1>11. CASE IsMove(m) /\ Passing(b, us, St(p).epSquare, m)
  <2>1. ~Attacked(nb, DOMAIN nb, Them(us), k)
    BY <1>4, <1>6, <1>7, <1>11
  <2>2. legal(p, m)
    BY <1>11, <2>1, SafePassing
  <2>3. checkers(p) # {} => /\ ~more_than_one(checkers(p))
                            /\ m.to + pawn_push(us) \notin BetweenBB[k][Lsb(checkers(p))]
    BY <1>11, <2>1, PassingEvades
  <2>4. m \in AllMoves(p)
    BY <1>11, <2>3, AllHas
  <2>. QED
    BY <1>8, <2>2, <2>4
<1>12. CASE \E cr : CastlesFreely(p, cr) /\ m = Castle(MyKing(p), p.castling[cr].rook)
  <2>1. PICK cr : CastlesFreely(p, cr) /\ m = Castle(MyKing(p), p.castling[cr].rook)
    BY <1>12
  <2>2. CastlesWith(p, m, cr) /\ legal(p, m)
    BY <2>1, SafeCastling
  <2>3. IsMove(m)
    BY <2>1, MoveKinds
  <2>4. m \in AllMoves(p)
    BY <2>2, <2>3, AllHas
  <2>. QED
    BY <1>8, <2>2, <2>4
<1>. QED
  BY <1>1, <1>3, <1>9, <1>10, <1>11, <1>12

(* The legal moves generated are the legal moves by the rules.             *)
LEMMA ListExact ==
  ASSUME NEW p, Sound(p), p.castling = pos.castling
  PROVE  LegalList(p) = Rules!LegalMoves(Situation(p))
<1>1. ASSUME NEW m \in LegalList(p) PROVE m \in Rules!LegalMoves(Situation(p))
  BY LegalIsMove, RulesSafe DEF Rules!LegalMoves
<1>2. ASSUME NEW m \in Rules!LegalMoves(Situation(p)) PROVE m \in LegalList(p)
  BY RulesLegal DEF Rules!LegalMoves
<1>. QED
  BY <1>1, <1>2

-------------------------------------------------------------------------------
(***************************************************************************)
(* Moves from the hash table.                                              *)
(***************************************************************************)
(* pseudo_legal lets a pawn go as pawns go, but not to the last rank.      *)
LEMMA PawnMayIs ==
  ASSUME NEW p, Sound(p), NEW s \in DOMAIN p.board, p.board[s] = make_piece(p.sideToMove, PAWN),
         NEW t \in Square, t \notin Mine(p)
  PROVE  PawnMayGo(p, s, t) <=> relative_rank(p.sideToMove, s) # 6 /\ PawnWay(p.board, p.sideToMove, s, t)
<1>. DEFINE b == p.board
            us == p.sideToMove
            up == pawn_push(us)
<1>1. us \in Color /\ IsBoard(b) /\ PawnsPlaced(b) /\ s \in Square /\ Them(us) # us
  BY SoundFacts, Pieces DEF IsBoard
<1>2. R(s) \in 1 .. 6
  <2>1. type_of(b[s]) = PAWN
    BY <1>1, Pieces, TypesDiffer DEF PieceType
  <2>. QED
    BY <1>1, <2>1 DEF PawnsPlaced
<1>3. t \in DOMAIN b => color_of(b[t]) = Them(us)
  BY <1>1, OtherSide DEF Mine, OfColor
<1>4. /\ \A z : (z \in Empty(p) <=> (z \in Square /\ z \notin DOMAIN b))
      /\ (t \in Theirs(p) <=> t \in DOMAIN b)
  BY <1>3 DEF Empty, pieces, Theirs, OfColor
<1>5. t \in PawnAttacks[us][s] <=> Strikes(us, s, t)
  BY <1>1, PawnIs
<1>6. up \in Int /\ s \in Int /\ t \in Int
  BY <1>1, Coordinates DEF pawn_push
<1>7. /\ (t = s + up <=> Ahead(us, s, t, 1))
      /\ (t = s + 2 * up <=> Ahead(us, s, t, 2))
  <2>1. (s + up \in Square => Ahead(us, s, s + up, 1)) /\ (s + 2 * up \in Square => Ahead(us, s, s + 2 * up, 2))
        /\ \A n \in Int : Ahead(us, s, t, n) => t = s + n * up
    BY <1>1, Forward
  <2>. HIDE DEF up
  <2>2. (Ahead(us, s, t, 1) => t = s + 1 * up) /\ (Ahead(us, s, t, 2) => t = s + 2 * up)
    BY <2>1
  <2>3. 1 * up = up
    BY <1>6
  <2>. QED
    BY <2>1, <2>2, <2>3
<1>8. t = s + 2 * up => t - up = s + up
  BY <1>6
<1>9. relative_rank(us, s) = 1 => s + up \in Square
  BY <1>1, OneOn
<1>10. Ahead(us, s, t, 1) \/ (Ahead(us, s, t, 2) /\ relative_rank(us, s) = 1) \/ Strikes(us, s, t)
         => (R(t) \in {0, 7} <=> relative_rank(us, s) = 6)
  BY <1>1, <1>2, LastRank
<1>11. PawnMayGo(p, s, t)
         <=> /\ R(t) \notin {0, 7}
             /\ \/ t \in PawnAttacks[us][s] /\ t \in Theirs(p)
                \/ t = s + up /\ t \in Empty(p)
                \/ /\ t = s + 2 * up /\ relative_rank(us, s) = 1
                   /\ t \in Empty(p) /\ t - up \in Empty(p)
  BY DEF PawnMayGo, R
<1>12. PawnWay(b, us, s, t)
         <=> \/ Ahead(us, s, t, 1) /\ t \notin DOMAIN b
             \/ Ahead(us, s, t, 2) /\ relative_rank(us, s) = 1 /\ s + up \notin DOMAIN b /\ t \notin DOMAIN b
             \/ Strikes(us, s, t) /\ t \in DOMAIN b
  BY DEF PawnWay
<1>. HIDE DEF b, us, up
<1>. QED
  BY <1>4, <1>5, <1>7, <1>8, <1>9, <1>10, <1>11, <1>12 DEF b, us

(* attacks_bb of a piece on the board.                                     *)
LEMMA SeesIs ==
  ASSUME NEW p, Sound(p), NEW s \in DOMAIN p.board, type_of(p.board[s]) # PAWN, NEW t \in Square
  PROVE  t \in attacks_bb(type_of(p.board[s]), s, pieces(p.board)) <=> Hits(p.board, DOMAIN p.board, s, t)
<1>. DEFINE b == p.board
<1>1. s \in Square /\ b[s] \in Piece
  BY SoundFacts DEF IsBoard
<1>2. type_of(b[s]) \in {KNIGHT, BISHOP, ROOK, QUEEN, KING}
  BY <1>1, Pieces, TypesDiffer
<1>3. CASE type_of(b[s]) = KNIGHT
  BY <1>1, <1>3, KnightIs, TypesDiffer DEF Hits, attacks_bb
<1>4. CASE type_of(b[s]) = KING
  BY <1>1, <1>4, KingIs, TypesDiffer DEF Hits, attacks_bb
<1>5. CASE type_of(b[s]) \in {BISHOP, ROOK, QUEEN}
  <2>1. type_of(b[s]) \notin {KNIGHT, KING, PAWN}
    BY <1>5, TypesDiffer
  <2>2. Hits(b, DOMAIN b, s, t) <=> Aligned(type_of(b[s]), s, t) /\ Clear(s, t, DOMAIN b)
    BY <1>5, <2>1 DEF Hits
  <2>3. attacks_bb(type_of(b[s]), s, pieces(b)) = sliding_attack(type_of(b[s]), s, DOMAIN b)
    BY <2>1 DEF attacks_bb, pieces
  <2>4. t \in sliding_attack(type_of(b[s]), s, DOMAIN b) <=> Aligned(type_of(b[s]), s, t) /\ Clear(s, t, DOMAIN b)
    BY <1>1, SlidingIs
  <2>. QED
    BY <2>2, <2>3, <2>4
<1>. QED
  BY <1>2, <1>3, <1>4, <1>5

(* pseudo_legal lets through the normal moves that go as their piece goes  *)
(* and answer the checks.                                                  *)
LEMMA PseudoLegalIs ==
  ASSUME NEW p, Sound(p), NEW m, IsMove(m), m.type = "normal", m.promo = 0, m.from \in DOMAIN p.board, m.to \in Square
  PROVE  pseudo_legal(p, m)
           <=> /\ PieceGoes(p.board, p.sideToMove, m) \/ PawnGoes(p.board, p.sideToMove, m)
               /\ checkers(p) # {} /\ m.from # MyKing(p) => Answers(p, m.to)
<1>. DEFINE b == p.board
            us == p.sideToMove
            s == m.from
            t == m.to
            k == MyKing(p)
<1>1. us \in Color /\ IsBoard(b) /\ s \in Square /\ Them(us) # us /\ KingAt(b, us, k) /\ k \in Square /\ b[s] \in Piece
  BY SoundFacts, Pieces DEF IsBoard
<1>2. pseudo_legal(p, m)
        <=> /\ s \in Mine(p) /\ t \notin Mine(p)
            /\ IF type_of(b[s]) = PAWN THEN PawnMayGo(p, s, t) ELSE t \in attacks_bb(type_of(b[s]), s, pieces(b))
            /\ checkers(p) # {} /\ type_of(b[s]) # KING
                 => ~more_than_one(checkers(p)) /\ t \in BetweenBB[k][Lsb(checkers(p))]
  BY DEF pseudo_legal
<1>3. /\ (s \in Mine(p) <=> color_of(b[s]) = us)
      /\ (t \notin Mine(p) <=> (t \in DOMAIN b => color_of(b[t]) = Them(us)))
  BY <1>1, OtherSide DEF Mine, OfColor
<1>4. color_of(b[s]) = us => /\ (type_of(b[s]) = PAWN <=> b[s] = make_piece(us, PAWN))
                             /\ (type_of(b[s]) # PAWN <=> type_of(b[s]) \in KNIGHT .. KING)
                             /\ (type_of(b[s]) = KING <=> s = k)
  <2>. SUFFICES ASSUME color_of(b[s]) = us
                PROVE  /\ (type_of(b[s]) = PAWN <=> b[s] = make_piece(us, PAWN))
                       /\ (type_of(b[s]) # PAWN <=> type_of(b[s]) \in KNIGHT .. KING)
                       /\ (type_of(b[s]) = KING <=> s = k)
    OBVIOUS
  <2>1. (type_of(b[s]) = PAWN <=> b[s] = make_piece(us, PAWN)) /\ (type_of(b[s]) # PAWN <=> type_of(b[s]) \in KNIGHT .. KING)
    BY <1>1, OwnPawns
  <2>2. type_of(b[s]) = KING => b[s] = make_piece(us, KING)
    BY <1>1, Pieces
  <2>3. s = k => type_of(b[s]) = KING
    BY <1>1, Pieces, TypesDiffer DEF KingAt, PieceType
  <2>. QED
    BY <1>1, <2>1, <2>2, <2>3 DEF KingAt
<1>5. b[s] = make_piece(us, PAWN) /\ t \notin Mine(p)
        => (PawnMayGo(p, s, t) <=> relative_rank(us, s) # 6 /\ PawnWay(b, us, s, t))
  BY PawnMayIs
<1>6. type_of(b[s]) # PAWN => (t \in attacks_bb(type_of(b[s]), s, pieces(b)) <=> Hits(b, DOMAIN b, s, t))
  BY SeesIs
<1>7. PieceGoes(b, us, m)
        <=> /\ color_of(b[s]) = us /\ (t \in DOMAIN b => color_of(b[t]) = Them(us))
            /\ type_of(b[s]) \in KNIGHT .. KING /\ Hits(b, DOMAIN b, s, t)
  BY DEF PieceGoes, Mover
<1>8. PawnGoes(b, us, m)
        <=> /\ color_of(b[s]) = us /\ (t \in DOMAIN b => color_of(b[t]) = Them(us))
            /\ b[s] = make_piece(us, PAWN) /\ PawnWay(b, us, s, t) /\ relative_rank(us, s) # 6
  BY DEF PawnGoes, Mover
<1>9. checkers(p) # {}
        => (~more_than_one(checkers(p)) /\ t \in BetweenBB[k][Lsb(checkers(p))] <=> Answers(p, t))
  <2>. SUFFICES ASSUME checkers(p) # {}
                PROVE  ~more_than_one(checkers(p)) /\ t \in BetweenBB[k][Lsb(checkers(p))] <=> Answers(p, t)
    OBVIOUS
  <2>1. ASSUME Answers(p, t) PROVE ~more_than_one(checkers(p)) /\ t \in BetweenBB[k][Lsb(checkers(p))]
    BY <2>1, AnswerTarget
  <2>2. ASSUME ~more_than_one(checkers(p)), t \in BetweenBB[k][Lsb(checkers(p))] PROVE Answers(p, t)
    <3>1. PICK x : /\ checkers(p) = {x} /\ Lsb(checkers(p)) = x
                   /\ \A z \in BetweenBB[MyKing(p)][x] : z = x \/ Inside(MyKing(p), x, z)
      BY <2>2, OneChecker
    <3>. QED
      BY <2>2, <3>1 DEF Answers
  <2>. QED
    BY <2>1, <2>2
<1>. HIDE DEF b, us, s, t, k
<1>10. pseudo_legal(p, m)
         <=> /\ color_of(b[s]) = us /\ (t \in DOMAIN b => color_of(b[t]) = Them(us))
             /\ IF b[s] = make_piece(us, PAWN) THEN relative_rank(us, s) # 6 /\ PawnWay(b, us, s, t)
                ELSE type_of(b[s]) \in KNIGHT .. KING /\ Hits(b, DOMAIN b, s, t)
             /\ checkers(p) # {} /\ s # k => Answers(p, t)
  BY <1>2, <1>3, <1>4, <1>5, <1>6, <1>9
<1>11. PieceGoes(b, us, m) => b[s] # make_piece(us, PAWN)
  BY <1>4, <1>7
<1>. QED
  BY <1>7, <1>8, <1>10, <1>11 DEF b, us, s, t, k

(* generate<LEGAL> asks legal only where it might say no.                  *)
LEMMA LegalAll ==
  ASSUME NEW p, Sound(p), NEW m \in LegalList(p), m.type = "normal", m.from \in Mine(p)
  PROVE  legal(p, m)
<1>1. Suspect(p, m) => legal(p, m)
  BY DEF LegalList
<1>2. CASE ~Suspect(p, m)
  <2>1. m.from # MyKing(p) /\ m.from \notin St(p).blockersForKing[p.sideToMove]
    BY <1>2 DEF Suspect
  <2>2. m.from \in DOMAIN p.board /\ color_of(p.board[m.from]) = p.sideToMove
    BY DEF Mine, OfColor
  <2>3. type_of(p.board[m.from]) # KING
    <3>1. p.board[m.from] \in Piece /\ KingAt(p.board, p.sideToMove, MyKing(p))
      BY <2>2, SoundFacts DEF IsBoard
    <3>2. type_of(p.board[m.from]) = KING => p.board[m.from] = make_piece(p.sideToMove, KING)
      BY <2>2, <3>1, Pieces
    <3>. QED
      BY <2>1, <2>2, <3>1, <3>2 DEF KingAt
  <2>. QED
    BY <2>1, <2>3 DEF legal
<1>. QED
  BY <1>1, <1>2

(* A normal move from anywhere passes pseudo_legal and legal exactly if it *)
(* is a legal move by the rules.                                           *)
LEMMA HashMove ==
  ASSUME NEW p, Sound(p), p.castling = pos.castling, NEW m
  PROVE  /\ (\E s \in pieces(p.board), t \in Square : m = Normal(s, t)) /\ m.from # m.to /\ pseudo_legal(p, m) /\ legal(p, m)
           <=> m \in Rules!LegalMoves(Situation(p)) /\ m.type = "normal"
<1>. DEFINE b == p.board
            us == p.sideToMove
<1>1. m \in Rules!LegalMoves(Situation(p)) <=> m \in LegalList(p)
  BY ListExact
<1>2. ASSUME NEW s \in pieces(b), NEW t \in Square, m = Normal(s, t), pseudo_legal(p, m), legal(p, m)
      PROVE  m \in LegalList(p) /\ m.type = "normal"
  <2>1. /\ IsMove(m) /\ m.type = "normal" /\ m.promo = 0 /\ m.from \in DOMAIN b /\ m.to \in Square
    BY <1>2, MoveKinds DEF Normal, pieces
  <2>2. /\ PieceGoes(b, us, m) \/ PawnGoes(b, us, m)
        /\ checkers(p) # {} /\ m.from # MyKing(p) => Answers(p, m.to)
    BY <1>2, <2>1, PseudoLegalIs
  <2>3. PawnGoes(b, us, m) => m.from # MyKing(p)
    <3>1. KingAt(b, us, MyKing(p)) /\ us \in Color
      BY SoundFacts
    <3>. QED
      BY <3>1, Pieces, TypesDiffer DEF PawnGoes, KingAt, PieceType
  <2>4. m \in AllMoves(p)
    BY <2>1, <2>2, <2>3, AllHas
  <2>. QED
    BY <1>2, <2>1, <2>4 DEF LegalList
<1>3. ASSUME m \in LegalList(p), m.type = "normal"
      PROVE  (\E s \in pieces(b), t \in Square : m = Normal(s, t)) /\ m.from # m.to /\ pseudo_legal(p, m) /\ legal(p, m)
  <2>1. m \in AllMoves(p)
    BY <1>3 DEF LegalList
  <2>2. IsMove(m)
    BY <2>1, AllAreMoves
  <2>3. /\ PieceGoes(b, us, m) \/ PawnGoes(b, us, m)
        /\ checkers(p) # {} /\ m.from # MyKing(p) => Answers(p, m.to)
    <3>1. ~Passing(b, us, St(p).epSquare, m) /\ \A cr : ~CastlesWith(p, m, cr)
      BY <1>3 DEF Passing, CastlesWith, Castle
    <3>. QED
      BY <2>1, <3>1, Generated
  <2>4. m.promo = 0 /\ m.from \in DOMAIN b /\ m.to \in Square /\ color_of(b[m.from]) = us
    BY <1>3, <2>3 DEF PieceGoes, PawnGoes, Mover
  <2>5. m = Normal(m.from, m.to)
    BY <1>3, <2>2, <2>4, MoveBuilt
  <2>6. m.from # m.to
    BY <2>3, NoKingTaken
  <2>7. pseudo_legal(p, m)
    BY <1>3, <2>2, <2>3, <2>4, PseudoLegalIs
  <2>8. legal(p, m)
    BY <1>3, <2>4, LegalAll DEF Mine, OfColor
  <2>. QED
    BY <2>4, <2>5, <2>6, <2>7, <2>8 DEF pieces
<1>. QED
  BY <1>1, <1>2, <1>3

-------------------------------------------------------------------------------
(***************************************************************************)
(* The stages of the move picker: pawns.                                   *)
(***************************************************************************)
(* m is a move of the pawn on s of this kind.                              *)
PawnStage(p, kind, m, s) ==
  LET us == p.sideToMove  up == pawn_push(us)  ep == St(p).epSquare IN
  \/ kind # "captures" /\ m = Normal(s, s + up) /\ ~Rank7(p, s) /\ s + up \in Empty(p)
  \/ /\ kind # "captures" /\ m = Normal(s, s + 2 * up) /\ ~Rank7(p, s)
     /\ s + up \in Empty(p) /\ relative_rank(us, s + up) = 2 /\ s + 2 * up \in Empty(p)
  \/ \E pt \in PromotionPieces(kind, FALSE) : m = Promotion(s, s + up, pt) /\ Rank7(p, s) /\ s + up \in Empty(p)
  \/ \E pt \in PromotionPieces(kind, TRUE), t \in PawnAttacks[us][s] \cap Theirs(p) : m = Promotion(s, t, pt) /\ Rank7(p, s)
  \/ kind # "quiets" /\ \E t \in PawnAttacks[us][s] \cap Theirs(p) : m = Normal(s, t) /\ ~Rank7(p, s)
  \/ kind # "quiets" /\ ep # SQ_NONE /\ m = EnPassant(s, ep) /\ ~Rank7(p, s) /\ s \in PawnAttacks[Them(us)][ep]

(* The pawns of the side to move.                                          *)
Pawns(p) == Exactly(p.board, p.sideToMove, {PAWN})

(* The pawn moves generate_pawn_moves makes of a kind.                     *)
LEMMA StagePawns ==
  ASSUME NEW p, NEW kind, kind # "evasions", NEW target, NEW m
  PROVE  m \in generate_pawn_moves(p, kind, target) <=> \E s \in Pawns(p) : PawnStage(p, kind, m, s)
<1>. DEFINE us == p.sideToMove
            up == pawn_push(us)
            ep == St(p).epSquare
            pawns == Exactly(p.board, us, {PAWN})
            on7 == {q \in pawns : relative_rank(us, q) = 6}
            not7 == pawns \ on7
            free == IF kind = "evasions" THEN Empty(p) \cap target ELSE Empty(p)
            enemies == IF kind = "evasions" THEN checkers(p) ELSE Theirs(p)
            A == {Normal(q, q + up) : q \in {q \in not7 : q + up \in free}}
            B == {Normal(q, q + 2 * up) : q \in {q \in not7 : /\ q + up \in Empty(p) /\ relative_rank(us, q + up) = 2
                                                           /\ q + 2 * up \in free}}
            C == UNION {{Promotion(q, q + up, pt) : pt \in PromotionPieces(kind, FALSE)} :
                          q \in {q \in on7 : q + up \in free}}
            D == UNION {UNION {{Promotion(q, to, pt) : pt \in PromotionPieces(kind, TRUE)} :
                          to \in PawnAttacks[us][q] \cap enemies} : q \in on7}
            E == UNION {{Normal(q, to) : to \in PawnAttacks[us][q] \cap enemies} : q \in not7}
            H == kind = "quiets" \/ ep = SQ_NONE \/ (kind = "evasions" /\ ep + up \in target)
            G == {EnPassant(q, ep) : q \in not7 \cap PawnAttacks[Them(us)][ep]}
<1>1. generate_pawn_moves(p, kind, target)
        = (IF kind = "captures" THEN {} ELSE A \cup B) \cup C \cup D \cup (IF kind = "quiets" THEN {} ELSE E)
            \cup (IF H THEN {} ELSE G)
  BY Zenon DEF generate_pawn_moves
<1>2. free = Empty(p) /\ enemies = Theirs(p) /\ pawns = Pawns(p) /\ (H <=> kind = "quiets" \/ ep = SQ_NONE)
  BY DEF Pawns
<1>3. \A q : (q \in on7 <=> q \in pawns /\ Rank7(p, q)) /\ (q \in not7 <=> q \in pawns /\ ~Rank7(p, q))
  BY DEF Rank7
<1>. HIDE DEF us, up, ep, on7, not7, free, enemies, pawns, H
<1>4. m \in A <=> \E s \in pawns : m = Normal(s, s + up) /\ ~Rank7(p, s) /\ s + up \in free
  BY <1>3
<1>5. m \in B <=> \E s \in pawns : /\ m = Normal(s, s + 2 * up) /\ ~Rank7(p, s)
                                   /\ s + up \in Empty(p) /\ relative_rank(us, s + up) = 2 /\ s + 2 * up \in free
  BY <1>3
<1>6. m \in C <=> \E s \in pawns : \E pt \in PromotionPieces(kind, FALSE) :
                     m = Promotion(s, s + up, pt) /\ Rank7(p, s) /\ s + up \in free
  <2>. DEFINE X(q) == {Promotion(q, q + up, pt) : pt \in PromotionPieces(kind, FALSE)}
  <2>1. m \in C <=> \E q \in {q \in on7 : q + up \in free} : m \in X(q)
    <3>. HIDE DEF X
    <3>1. C = UNION {X(q) : q \in {q \in on7 : q + up \in free}}
      BY DEF X
    <3>. HIDE DEF C
    <3>. QED
      BY <3>1
  <2>. HIDE DEF C
  <2>2. \A q : m \in X(q) <=> \E pt \in PromotionPieces(kind, FALSE) : m = Promotion(q, q + up, pt)
    OBVIOUS
  <2>. HIDE DEF X
  <2>. QED
    BY <1>3, <2>1, <2>2
<1>7. m \in D <=> \E s \in pawns : \E pt \in PromotionPieces(kind, TRUE), t \in PawnAttacks[us][s] \cap enemies :
                     m = Promotion(s, t, pt) /\ Rank7(p, s)
  <2>. DEFINE Y(q, to) == {Promotion(q, to, pt) : pt \in PromotionPieces(kind, TRUE)}
              X(q) == UNION {Y(q, to) : to \in PawnAttacks[us][q] \cap enemies}
  <2>1. \A q, to : m \in Y(q, to) <=> \E pt \in PromotionPieces(kind, TRUE) : m = Promotion(q, to, pt)
    OBVIOUS
  <2>2. D = UNION {X(q) : q \in on7}
    OBVIOUS
  <2>. HIDE DEF D, Y
  <2>3. \A q : m \in X(q) <=> \E to \in PawnAttacks[us][q] \cap enemies : m \in Y(q, to)
    OBVIOUS
  <2>. HIDE DEF X
  <2>4. m \in D <=> \E q \in on7 : m \in X(q)
    BY <2>2
  <2>5. m \in D <=> \E q \in pawns : Rank7(p, q) /\ m \in X(q)
    BY <1>3, <2>4
  <2>6. \A q : m \in X(q) <=> \E pt \in PromotionPieces(kind, TRUE), t \in PawnAttacks[us][q] \cap enemies : m = Promotion(q, t, pt)
    BY Zenon, <2>1, <2>3
  <2>. QED
    BY Zenon, <2>5, <2>6
<1>8. m \in E <=> \E s \in pawns : \E t \in PawnAttacks[us][s] \cap enemies : m = Normal(s, t) /\ ~Rank7(p, s)
  BY <1>3
<1>9. m \in G <=> \E s \in pawns : m = EnPassant(s, ep) /\ ~Rank7(p, s) /\ s \in PawnAttacks[Them(us)][ep]
  BY <1>3
<1>. HIDE DEF A, B, C, D, E, G
<1>10. m \in generate_pawn_moves(p, kind, target)
         <=> \/ kind # "captures" /\ (m \in A \/ m \in B)
             \/ m \in C
             \/ m \in D
             \/ kind # "quiets" /\ m \in E
             \/ ~H /\ m \in G
  BY <1>1
<1>11. \A s : PawnStage(p, kind, m, s)
         <=> \/ kind # "captures" /\ m = Normal(s, s + up) /\ ~Rank7(p, s) /\ s + up \in free
             \/ kind # "captures" /\ m = Normal(s, s + 2 * up) /\ ~Rank7(p, s)
                  /\ s + up \in Empty(p) /\ relative_rank(us, s + up) = 2 /\ s + 2 * up \in free
             \/ \E pt \in PromotionPieces(kind, FALSE) : m = Promotion(s, s + up, pt) /\ Rank7(p, s) /\ s + up \in free
             \/ \E pt \in PromotionPieces(kind, TRUE), t \in PawnAttacks[us][s] \cap enemies : m = Promotion(s, t, pt) /\ Rank7(p, s)
             \/ kind # "quiets" /\ \E t \in PawnAttacks[us][s] \cap enemies : m = Normal(s, t) /\ ~Rank7(p, s)
             \/ ~H /\ m = EnPassant(s, ep) /\ ~Rank7(p, s) /\ s \in PawnAttacks[Them(us)][ep]
  BY <1>2 DEF PawnStage, us, up, ep
<1>12. (\E s \in pawns : PawnStage(p, kind, m, s))
         <=> \/ kind # "captures" /\ (m \in A \/ m \in B)
             \/ m \in C
             \/ m \in D
             \/ kind # "quiets" /\ m \in E
             \/ ~H /\ m \in G
  BY <1>4, <1>5, <1>6, <1>7, <1>8, <1>9, <1>11
<1>. QED
  BY <1>2, <1>10, <1>12

(* The promotions of each kind.                                            *)
LEMMA PromotionStages ==
  ASSUME NEW pt
  PROVE  /\ (pt \in PromotionPieces("non_evasions", TRUE) <=> (pt \in KNIGHT .. ROOK \/ pt = QUEEN))
         /\ (pt \in PromotionPieces("non_evasions", FALSE) <=> (pt \in KNIGHT .. ROOK \/ pt = QUEEN))
         /\ (pt \in PromotionPieces("captures", TRUE) <=> (pt \in KNIGHT .. ROOK \/ pt = QUEEN))
         /\ (pt \in PromotionPieces("captures", FALSE) <=> pt = QUEEN)
         /\ pt \notin PromotionPieces("quiets", TRUE)
         /\ (pt \in PromotionPieces("quiets", FALSE) <=> pt \in KNIGHT .. ROOK)
<1>1. pt \in KNIGHT .. QUEEN <=> (pt \in KNIGHT .. ROOK \/ pt = QUEEN)
  BY TypesDiffer
<1>. QED
  BY <1>1 DEF PromotionPieces

(* capture_stage, for each type of move.                                   *)
LEMMA StageMarks ==
  /\ \A s, t : (capture_stage(Normal(s, t)) <=> t \in pieces(pos.board))
  /\ \A s, t, pt : (capture_stage(Promotion(s, t, pt)) <=> (t \in pieces(pos.board) \/ pt = QUEEN))
  /\ \A s, t : capture_stage(EnPassant(s, t))
  /\ \A s, t : ~capture_stage(Castle(s, t))
<1>1. QUEEN # 0
  BY TypesDiffer
<1>. QED
  BY <1>1 DEF capture_stage, Normal, Promotion, EnPassant, Castle

(* Pawn moves are made as captures if capture_stage says so, otherwise as  *)
(* quiet moves.                                                            *)
LEMMA PawnStages ==
  ASSUME NEW m, NEW s
  PROVE  /\ (PawnStage(pos, "captures", m, s) <=> (PawnStage(pos, "non_evasions", m, s) /\ capture_stage(m)))
         /\ (PawnStage(pos, "quiets", m, s) <=> (PawnStage(pos, "non_evasions", m, s) /\ ~capture_stage(m)))
<1>. DEFINE us == pos.sideToMove
            up == pawn_push(us)
            ep == St(pos).epSquare
            full == pieces(pos.board)
            a == m = Normal(s, s + up) /\ ~Rank7(pos, s) /\ s + up \in Empty(pos)
            b == /\ m = Normal(s, s + 2 * up) /\ ~Rank7(pos, s)
                 /\ s + up \in Empty(pos) /\ relative_rank(us, s + up) = 2 /\ s + 2 * up \in Empty(pos)
            c(pt) == m = Promotion(s, s + up, pt) /\ Rank7(pos, s) /\ s + up \in Empty(pos)
            d(pt) == \E t \in PawnAttacks[us][s] \cap Theirs(pos) : m = Promotion(s, t, pt) /\ Rank7(pos, s)
            e == \E t \in PawnAttacks[us][s] \cap Theirs(pos) : m = Normal(s, t) /\ ~Rank7(pos, s)
            g == ep # SQ_NONE /\ m = EnPassant(s, ep) /\ ~Rank7(pos, s) /\ s \in PawnAttacks[Them(us)][ep]
<1>1. \A kind : PawnStage(pos, kind, m, s)
        <=> \/ kind # "captures" /\ (a \/ b)
            \/ \E pt \in PromotionPieces(kind, FALSE) : c(pt)
            \/ \E pt \in PromotionPieces(kind, TRUE) : d(pt)
            \/ kind # "quiets" /\ (e \/ g)
  BY DEF PawnStage
<1>2. \A z : (z \in Empty(pos) => z \notin full) /\ (z \in Theirs(pos) => z \in full)
  BY DEF Empty, Theirs, OfColor, pieces
<1>3. /\ a => ~capture_stage(m)
      /\ b => ~capture_stage(m)
      /\ \A pt : c(pt) => (capture_stage(m) <=> pt = QUEEN)
      /\ \A pt : d(pt) => capture_stage(m)
      /\ e => capture_stage(m)
      /\ g => capture_stage(m)
  BY <1>2, StageMarks
<1>. HIDE DEF a, b, c, d, e, g
<1>4. PawnStage(pos, "captures", m, s) <=> c(QUEEN) \/ (\E pt \in KNIGHT .. ROOK : d(pt)) \/ d(QUEEN) \/ e \/ g
  <2>1. PawnStage(pos, "captures", m, s)
          <=> \/ \E pt \in PromotionPieces("captures", FALSE) : c(pt)
              \/ \E pt \in PromotionPieces("captures", TRUE) : d(pt)
              \/ e \/ g
    BY <1>1
  <2>2. (\E pt \in PromotionPieces("captures", FALSE) : c(pt)) <=> c(QUEEN)
    BY PromotionStages
  <2>3. (\E pt \in PromotionPieces("captures", TRUE) : d(pt)) <=> (\E pt \in KNIGHT .. ROOK : d(pt)) \/ d(QUEEN)
    BY PromotionStages
  <2>. QED
    BY <2>1, <2>2, <2>3
<1>5. PawnStage(pos, "quiets", m, s) <=> a \/ b \/ \E pt \in KNIGHT .. ROOK : c(pt)
  BY <1>1, PromotionStages
<1>6. PawnStage(pos, "non_evasions", m, s)
        <=> \/ a \/ b \/ (\E pt \in KNIGHT .. ROOK : c(pt)) \/ c(QUEEN)
            \/ (\E pt \in KNIGHT .. ROOK : d(pt)) \/ d(QUEEN) \/ e \/ g
  BY <1>1, PromotionStages
<1>7. \A pt \in KNIGHT .. ROOK : pt # QUEEN
  BY TypesDiffer
<1>. QED
  BY <1>3, <1>4, <1>5, <1>6, <1>7

-------------------------------------------------------------------------------
(***************************************************************************)
(* The stages of the move picker: all moves.                               *)
(***************************************************************************)
(* m is a move of a piece, or the king, to t.                              *)
PieceStage(p, m, t) ==
  \/ /\ t \in PseudoAttacks[KING][MyKing(p)] /\ m = Normal(MyKing(p), t)
  \/ \E s \in Exactly(p.board, p.sideToMove, KNIGHT .. QUEEN) :
        t \in attacks_bb(type_of(p.board[s]), s, pieces(p.board)) /\ m = Normal(s, t)

(* The moves of a kind, by what generates them.                            *)
LEMMA StageIs ==
  ASSUME NEW p, NEW kind, kind \in {"captures", "quiets", "non_evasions"}, NEW m
  PROVE  m \in generate(p, kind)
           <=> \/ \E s \in Pawns(p) : PawnStage(p, kind, m, s)
               \/ \E t \in Target(p, kind) : PieceStage(p, m, t)
               \/ kind # "captures" /\ m \in CastlingMoves(p)
<1>. DEFINE target == Target(p, kind)
            kingTarget == IF kind = "evasions" THEN Square \ Mine(p) ELSE target
            X(s) == {Normal(s, to) : to \in attacks_bb(type_of(p.board[s]), s, pieces(p.board)) \cap target}
            movers == Exactly(p.board, p.sideToMove, KNIGHT .. QUEEN)
<1>1. generate(p, kind) =
             (IF kind = "evasions" /\ more_than_one(checkers(p)) THEN {}
              ELSE generate_pawn_moves(p, kind, target) \cup generate_moves(p, target))
            \cup {Normal(MyKing(p), to) : to \in PseudoAttacks[KING][MyKing(p)] \cap kingTarget}
            \cup (IF kind \in {"quiets", "non_evasions"} THEN CastlingMoves(p) ELSE {})
  BY DEF generate
<1>2. generate_moves(p, target) = UNION {X(s) : s \in movers}
  BY DEF generate_moves
<1>3. \A s : m \in X(s) <=> \E t \in target : t \in attacks_bb(type_of(p.board[s]), s, pieces(p.board)) /\ m = Normal(s, t)
  OBVIOUS
<1>4. kingTarget = target /\ kind # "evasions" /\ (kind \in {"quiets", "non_evasions"} <=> kind # "captures")
  OBVIOUS
<1>. HIDE DEF X, movers, target, kingTarget
<1>5. m \in generate_moves(p, target) <=> \E s \in movers : m \in X(s)
  BY <1>2
<1>6. m \in generate_pawn_moves(p, kind, target) <=> \E s \in Pawns(p) : PawnStage(p, kind, m, s)
  BY <1>4, StagePawns
<1>7. m \in generate(p, kind)
         <=> \/ m \in generate_pawn_moves(p, kind, target)
             \/ m \in generate_moves(p, target)
             \/ \E t \in target : t \in PseudoAttacks[KING][MyKing(p)] /\ m = Normal(MyKing(p), t)
             \/ kind # "captures" /\ m \in CastlingMoves(p)
  BY <1>1, <1>4
<1>8. (\E t \in target : PieceStage(p, m, t))
         <=> \/ \E t \in target : t \in PseudoAttacks[KING][MyKing(p)] /\ m = Normal(MyKing(p), t)
             \/ \E s \in movers : m \in X(s)
  BY <1>3 DEF PieceStage, movers
<1>. QED
  BY <1>5, <1>6, <1>7, <1>8 DEF target

(* The targets of captures are occupied, those of quiet moves empty.       *)
LEMMA StageTargets ==
  ASSUME Sound(pos), NEW t
  PROVE  /\ (t \in Target(pos, "captures") <=> (t \in Target(pos, "non_evasions") /\ t \in pieces(pos.board)))
         /\ (t \in Target(pos, "quiets") <=> (t \in Target(pos, "non_evasions") /\ t \notin pieces(pos.board)))
<1>1. /\ Target(pos, "captures") = Theirs(pos) /\ Target(pos, "quiets") = Empty(pos)
      /\ Target(pos, "non_evasions") = Square \ Mine(pos)
  BY DEF Target
<1>2. DOMAIN pos.board \subseteq Square /\ Them(pos.sideToMove) # pos.sideToMove
  BY SoundFacts, Pieces DEF IsBoard
<1>3. t \in DOMAIN pos.board => (color_of(pos.board[t]) = pos.sideToMove \/ color_of(pos.board[t]) = Them(pos.sideToMove))
  BY SoundFacts, OtherSide
<1>. QED
  BY <1>1, <1>2, <1>3 DEF Theirs, Mine, Empty, OfColor, pieces

(* A move of a piece is a capture if its target is occupied.               *)
LEMMA StepMarks ==
  ASSUME NEW m, NEW t, PieceStage(pos, m, t)
  PROVE  capture_stage(m) <=> t \in pieces(pos.board)
<1>. QED
  BY StageMarks DEF PieceStage

(* Castling is no capture.                                                 *)
LEMMA CastleMarks ==
  ASSUME NEW m \in CastlingMoves(pos)
  PROVE  ~capture_stage(m)
<1>. QED
  BY StageMarks DEF CastlingMoves

(* Captures and quiet moves divide the moves generated out of check.       *)
LEMMA StagesSplit ==
  ASSUME Sound(pos)
  PROVE  /\ generate(pos, "captures") = {m \in generate(pos, "non_evasions") : capture_stage(m)}
         /\ generate(pos, "quiets") = {m \in generate(pos, "non_evasions") : ~capture_stage(m)}
<1>1. ASSUME NEW m
      PROVE  /\ (m \in generate(pos, "captures") <=> (m \in generate(pos, "non_evasions") /\ capture_stage(m)))
             /\ (m \in generate(pos, "quiets") <=> (m \in generate(pos, "non_evasions") /\ ~capture_stage(m)))
  <2>. DEFINE P(kind) == \E s \in Pawns(pos) : PawnStage(pos, kind, m, s)
              S(kind) == \E t \in Target(pos, kind) : PieceStage(pos, m, t)
              C == m \in CastlingMoves(pos)
  <2>1. /\ (m \in generate(pos, "captures") <=> (P("captures") \/ S("captures")))
        /\ (m \in generate(pos, "quiets") <=> (P("quiets") \/ S("quiets") \/ C))
        /\ (m \in generate(pos, "non_evasions") <=> (P("non_evasions") \/ S("non_evasions") \/ C))
    BY StageIs
  <2>2. /\ (P("captures") <=> (P("non_evasions") /\ capture_stage(m)))
        /\ (P("quiets") <=> (P("non_evasions") /\ ~capture_stage(m)))
    BY PawnStages
  <2>3. /\ (S("captures") <=> (S("non_evasions") /\ capture_stage(m)))
        /\ (S("quiets") <=> (S("non_evasions") /\ ~capture_stage(m)))
    BY StageTargets, StepMarks
  <2>4. C => ~capture_stage(m)
    BY CastleMarks
  <2>. HIDE DEF P, S, C
  <2>. QED
    BY <2>1, <2>2, <2>3, <2>4
<1>. QED
  BY <1>1

(* The inductive invariant implies that the moves are exact.               *)
LEMMA Exact == IInv => MovesExact
<1>. SUFFICES ASSUME IInv PROVE MovesExact
  OBVIOUS
<1>1. Sound(pos)
  BY StandsThere
<1>2. MovesComplete
  BY <1>1, ListExact, StagesSplit DEF MovesComplete
<1>3. ASSUME NEW m
      PROVE  m \in HashMoves <=> \E s \in pieces(pos.board), t \in Square : m = Normal(s, t)
  BY DEF HashMoves
<1>4. ASSUME NEW m
      PROVE  m \in HashMoves /\ m.from # m.to /\ pseudo_legal(pos, m) /\ legal(pos, m)
               <=> m \in Rules!LegalMoves(Situation(pos)) /\ m.type = "normal"
  BY <1>1, <1>3, HashMove
<1>5. HashMoveSafe
  BY <1>4 DEF HashMoveSafe
<1>. QED
  BY <1>2, <1>5 DEF MovesExact

(* At every node of every walk, whatever the scenes: generate<LEGAL> makes *)
(* the legal moves and no others; out of check generate<CAPTURES> and      *)
(* generate<QUIETS> divide what generate<NON_EVASIONS> makes as            *)
(* capture_stage does; and a normal move of the hash table, which may come *)
(* from any position, passes pseudo_legal and legal exactly if it is legal *)
(* here.                                                                   *)
THEOREM MovesAreExact == Spec => []MovesExact
<1>. QED
  BY Invariance, Exact, PTL
=================================================================================
