-------------------------------- MODULE TbIndex --------------------------------
(***************************************************************************)
(* The index of a position in its Syzygy table: the tables that            *)
(* Tablebases::init computes, the groups of set_groups and the encoding of *)
(* do_probe_table (tbprobe.cpp).  A table is the sequence of its pieces,   *)
(* a placement the sequence of their squares; equal pieces are adjacent.   *)
(***************************************************************************)
EXTENDS Integers, Sequences, FiniteSets, SequencesExt

CONSTANTS
    Tables,         \* [pieces, pawns, unique, order]: pieces, pawns of either side, hasUniquePieces, order
    Placements      \* [table, where]: for each piece, the squares to try

VARIABLES job, out
Nothing == [none |-> 0]

Rank(s) == s \div 8
File(s) == s % 8
FlipFile(s) == 8 * Rank(s) + 7 - File(s)
FlipRank(s) == 8 * (7 - Rank(s)) + File(s)
FlipDiagonal(s) == 8 * File(s) + Rank(s)
Off(s) == Rank(s) - File(s)                      \* off_A1H8
Count(S) == Cardinality(S)
One(b) == IF b THEN 1 ELSE 0

RECURSIVE Binomial(_, _)
Binomial(k, n) == IF k = 0 THEN 1 ELSE (Binomial(k - 1, n) * (n - k + 1)) \div k

Below == {s \in 0..63 : Off(s) < 0}
MapB1H1H7 == [s \in 0..63 |-> IF s \in Below THEN Count({t \in Below : t < s}) ELSE 0]
Triangle == {s \in 0..27 : File(s) <= 3 /\ Off(s) <= 0}
MapA1D1D4 ==
    [s \in Triangle |->
        IF Off(s) < 0 THEN Count({t \in Triangle : Off(t) < 0 /\ t < s})
        ELSE 6 + Count({t \in Triangle : Off(t) = 0 /\ t < s})]
Adjacent(s, t) == Rank(s) - Rank(t) \in -1..1 /\ File(s) - File(t) \in -1..1

KingPairs ==
    {p \in Triangle \X (0..63) : ~Adjacent(p[1], p[2]) /\ ~(Off(p[1]) = 0 /\ Off(p[2]) > 0)}
KingCode(p) == (IF Off(p[1]) = 0 /\ Off(p[2]) = 0 THEN 1024 ELSE 0) + 64 * MapA1D1D4[p[1]] + p[2]
MapKK(p) == IF p \in KingPairs THEN Count({q \in KingPairs : KingCode(q) < KingCode(p)}) ELSE 0

(* A pawn nearer the edge or on a lower rank leaves more squares.          *)
MapPawns ==
    [s \in 8..55 |-> LET f == IF File(s) <= 3 THEN File(s) ELSE 7 - File(s)
                     IN 47 - 2 * (6 * f + Rank(s) - 1) - One(File(s) > 3)]
RECURSIVE LeadPawnIdx(_, _)
LeadPawnIdx(pawns, s) ==
    IF Rank(s) = 1 THEN 0 ELSE LeadPawnIdx(pawns, s - 8) + Binomial(pawns - 1, MapPawns[s - 8])
LeadPawnsSize(pawns, f) == LeadPawnIdx(pawns, 48 + f) + Binomial(pawns - 1, MapPawns[48 + f])

-------------------------------------------------------------------------------
(* set_groups: groups as [from, len] in the sequence of pieces, and the    *)
(* order in which they are encoded.                                        *)
HasPawns(t) == t.pawns[1] > 0
BothPawns(t) == HasPawns(t) /\ t.pawns[2] > 0
Starts(t) ==
    {i \in DOMAIN t.pieces :
        i = 1 \/ (t.pieces[i] # t.pieces[i - 1] /\ (HasPawns(t) \/ i > (IF t.unique THEN 3 ELSE 2)))}
Groups(t) ==
    LET starts == SetToSortSeq(Starts(t), <)
    IN [g \in DOMAIN starts |->
           [from |-> starts[g],
            len |-> (IF g = Len(starts) THEN Len(t.pieces) + 1 ELSE starts[g + 1]) - starts[g]]]
Grouped(t) ==
    [pieces |-> t.pieces, pawns |-> t.pawns, unique |-> t.unique, order |-> t.order, groups |-> Groups(t)]
(* The leading group comes order[1]th, pawns of the other side order[2]th, *)
(* the others in their turn.                                               *)
Order(t) ==
    LET n == Len(t.groups)
        fixed == IF BothPawns(t) THEN 2 ELSE 1
        rest == [g \in 1..n - fixed |-> g + fixed]
        at(k) == SubSeq(rest, 1, k)
        with(seq, k, g) == IF k >= Len(seq) THEN Append(seq, g) ELSE SubSeq(seq, 1, k) \o <<g>> \o SubSeq(seq, k + 1, Len(seq))
    IN IF fixed = 1 THEN with(rest, t.order[1], 1)
       ELSE IF t.order[1] < t.order[2] THEN with(with(rest, t.order[1], 1), t.order[2], 2)
       ELSE with(with(rest, t.order[2], 2), t.order[1], 1)
Size(t, f, g) ==
    LET pp == BothPawns(t)
        free == 64 - FoldLeft(LAMBDA n, h : n + t.groups[h].len, 0,
                              SelectSeq([h \in DOMAIN t.groups |-> h], LAMBDA h : h < g))
    IN IF g = 1
       THEN IF HasPawns(t) THEN LeadPawnsSize(t.groups[1].len, f) ELSE IF t.unique THEN 31332 ELSE 462
       ELSE IF g = 2 /\ pp THEN Binomial(t.groups[2].len, 48 - t.groups[1].len)
       ELSE Binomial(t.groups[g].len, free)
(* groupIdx: the product of the sizes of the groups encoded before; the    *)
(* last entry is the size of the table.                                    *)
GroupIdx(t, f, order) ==
    [g \in 1..Len(order) + 1 |->
        FoldLeft(LAMBDA n, h : n * Size(t, f, h), 1,
                 IF g > Len(order) THEN order ELSE SubSeq(order, 1, (CHOOSE i \in DOMAIN order : order[i] = g) - 1))]

-------------------------------------------------------------------------------
(* do_probe_table: the board is turned until the leading piece is in its   *)
(* corner.  The stronger side has been made white by then.                 *)
Turned(sq, flip(_)) == [i \in DOMAIN sq |-> flip(sq[i])]
Before(a, b) == MapPawns[a] < MapPawns[b]
LeadFirst(t, sq) ==
    IF ~HasPawns(t) THEN sq
    ELSE LET n == t.groups[1].len
             pawns == {sq[i] : i \in 1..n}
             lead == CHOOSE p \in pawns : \A q \in pawns : ~Before(p, q)
         IN <<lead>> \o SetToSortSeq(pawns \ {lead}, Before) \o SubSeq(sq, n + 1, Len(sq))
(* A mutant of BelowDiagonal: only the first piece is looked at.           *)
BelowDiagonalFirst(t, sq) == IF Off(sq[1]) > 0 THEN Turned(sq, FlipDiagonal) ELSE sq
BelowDiagonal(t, sq) ==
    LET off == {i \in 1..t.groups[1].len : Off(sq[i]) # 0}
        first == CHOOSE i \in off : \A j \in off : i <= j
    IN IF off # {} /\ Off(sq[first]) > 0 THEN Turned(sq, FlipDiagonal) ELSE sq
Oriented(t, sq) ==
    LET led == LeadFirst(t, sq)
        left == IF File(led[1]) > 3 THEN Turned(led, FlipFile) ELSE led
        low == IF Rank(left[1]) > 3 THEN Turned(left, FlipRank) ELSE left
    IN IF HasPawns(t) THEN LeadFirst(t, left) ELSE BelowDiagonal(t, low)

LeadingIdx(t, sq) ==
    LET n == t.groups[1].len
        adjust1 == One(sq[2] > sq[1])
        adjust2 == One(sq[3] > sq[1]) + One(sq[3] > sq[2])
    IN IF HasPawns(t)
       THEN LeadPawnIdx(n, sq[1]) + FoldLeft(LAMBDA x, i : x + Binomial(i, MapPawns[sq[i + 1]]), 0, [i \in 1..n - 1 |-> i])
       ELSE IF ~t.unique THEN MapKK(<<sq[1], sq[2]>>)
       ELSE IF Off(sq[1]) # 0 THEN (MapA1D1D4[sq[1]] * 63 + (sq[2] - adjust1)) * 62 + sq[3] - adjust2
       ELSE IF Off(sq[2]) # 0
       THEN (6 * 63 + Rank(sq[1]) * 28 + MapB1H1H7[sq[2]]) * 62 + sq[3] - adjust2
       ELSE IF Off(sq[3]) # 0
       THEN 6 * 63 * 62 + 4 * 28 * 62 + Rank(sq[1]) * 7 * 28 + (Rank(sq[2]) - adjust1) * 28 + MapB1H1H7[sq[3]]
       ELSE 6 * 63 * 62 + 4 * 28 * 62 + 4 * 7 * 28 + Rank(sq[1]) * 7 * 6
            + (Rank(sq[2]) - adjust1) * 6 + (Rank(sq[3]) - adjust2)
(* The pieces of another group, among the squares the groups before leave. *)
GroupCode(t, sq, g) ==
    LET group == t.groups[g]
        sorted == SetToSortSeq({sq[i] : i \in group.from..group.from + group.len - 1}, <)
        free(s) == s - Count({i \in 1..group.from - 1 : sq[i] < s}) - 8 * One(g = 2 /\ BothPawns(t))
    IN FoldLeft(LAMBDA n, i : n + Binomial(i, free(sorted[i])), 0, [i \in DOMAIN sorted |-> i])
EdgeDistance(sq) == IF File(sq) > 3 THEN 7 - File(sq) ELSE File(sq)
TbFile(t, sq) == IF HasPawns(t) THEN EdgeDistance(sq[1]) ELSE 0
Index(t, sq) ==
    LET o == Oriented(t, sq)
        f == TbFile(t, o)
    IN [file |-> f,
        idx |-> FoldLeft(LAMBDA n, g : n + job.idx[f][g] * (IF g = 1 THEN LeadingIdx(t, o) ELSE GroupCode(t, o, g)),
                         0, [g \in DOMAIN t.groups |-> g])]

-------------------------------------------------------------------------------
(* All placements of a job, each with its index and with what is the same  *)
(* placement up to the symmetries of the board.                            *)
Legal(t, sq) ==
    /\ \A i, j \in DOMAIN sq : i < j => sq[i] # sq[j] /\ (t.pieces[i] = t.pieces[j] => sq[i] < sq[j])
    /\ \A i, j \in DOMAIN sq : t.pieces[i] = "K" /\ t.pieces[j] = "k" => ~Adjacent(sq[i], sq[j])
(* A number for a placement, whatever the order of equal pieces.           *)
Code(t, sq) ==
    LET sorted == SetToSortSeq({64 * (CHOOSE k \in DOMAIN sq : t.pieces[k] = t.pieces[i]) + sq[i] : i \in DOMAIN sq}, <)
    IN FoldLeft(LAMBDA n, x : 64 * n + (x % 64), 0, sorted)
Same(t, sq) ==
    LET f == Turned(sq, FlipFile)
        r == {Turned(sq, FlipRank), Turned(f, FlipRank)}
        all == {sq, f} \cup (IF HasPawns(t) THEN {} ELSE r \cup {Turned(s, FlipDiagonal) : s \in r \cup {sq, f}})
        codes == {Code(t, s) : s \in all}
    IN CHOOSE c \in codes : \A d \in codes : c <= d
Trials(where) ==
    LET n == Len(where) IN
    IF n = 3 THEN {<<a, b, c>> : a \in where[1], b \in where[2], c \in where[3]}
    ELSE {<<a, b, c, d>> : a \in where[1], b \in where[2], c \in where[3], d \in where[4]}
Encode ==
    /\ out = Nothing /\ UNCHANGED job
    /\ out' = [codes |-> {<<Same(job.table, sq), Index(job.table, sq)>> :
                             sq \in {s \in Trials(job.where) : Legal(job.table, s)}}]
IndexInit ==
    /\ out = Nothing
    /\ \E p \in Placements : \E t \in {Grouped(Tables[p.table])} : \E o \in {Order(t)} :
          job = [table |-> t, where |-> p.where, idx |-> [f \in 0..3 |-> GroupIdx(t, f, o)]]
IndexNext == Encode

(* Different positions have different indices, all of them in the table,   *)
(* and the symmetries of the board do not change the index of three pieces.*)
IndexExact ==
    "codes" \in DOMAIN out =>
        LET t == job.table
            indices == {c[2] : c \in out.codes} IN
        /\ \A i \in indices : 0 <= i.idx /\ i.idx < Last(job.idx[i.file])
        /\ Cardinality(indices) = Cardinality(out.codes)
        /\ Len(t.pieces) = 3 => Cardinality({c[1] : c \in out.codes}) = Cardinality(out.codes)
================================================================================
