------------------------------- MODULE MCTables --------------------------------
(***************************************************************************)
(* Instances of the tablebases: two endings to probe, five materials whose *)
(* indices are compared, and files in the format of the tables.            *)
(***************************************************************************)
EXTENDS Integers, Sequences, FiniteSets, TLC

VARIABLES job, out

-------------------------------------------------------------------------------
(* Two endings.  In the first a side may shuffle, push a pawn into a       *)
(* quicker line or be mated at a distance of several moves; in the second  *)
(* the only moves may be captures or en passant.                           *)
At(stm, moves) == [stm |-> stm, moves |-> moves, check |-> FALSE, bare |-> FALSE]
Mated(stm) == [At(stm, << >>) EXCEPT !.check = TRUE]
Bare(stm) == [At(stm, << >>) EXCEPT !.bare = TRUE]
Quiet(to) == [to |-> to, kind |-> "quiet"]
Shuffle ==
    << At(1, <<Quiet(6), Quiet(2)>>), At(0, <<Quiet(5), Quiet(7)>>),
       At(1, <<Quiet(10), Quiet(2), [to |-> 13, kind |-> "pawn"]>>), At(0, <<Quiet(5)>>),
       At(1, <<Quiet(6)>>), At(0, <<Quiet(3), Quiet(9)>>), At(1, <<Quiet(11), Quiet(8)>>),
       At(0, <<Quiet(7), Quiet(12), Quiet(3)>>), At(1, <<Quiet(8)>>), At(0, <<Quiet(7), Quiet(9)>>),
       Mated(0), Mated(1), Bare(0) >>
Forced ==
    << At(0, <<Quiet(2)>>), At(1, <<Quiet(3)>>), At(0, <<Quiet(4), [to |-> 10, kind |-> "pawn"]>>),
       At(1, <<Quiet(5)>>), At(0, <<Quiet(6)>>), At(1, <<Quiet(7)>>),
       At(0, <<[to |-> 8, kind |-> "capture"]>>), Mated(1), Bare(0), Bare(1),
       At(0, <<[to |-> 8, kind |-> "ep"]>>), At(1, <<Quiet(11), [to |-> 9, kind |-> "ep"]>>),
       At(0, <<Quiet(12), Quiet(2)>>) >>

Set(junk, plies, side, symmetric, noWdl, noDtz) ==
    [junk |-> junk, plies |-> plies, side |-> side, symmetric |-> symmetric, noWdl |-> noWdl, noDtz |-> noDtz]
TheTableSets ==
    {Set(-2, p, s, FALSE, {}, {}) : p \in BOOLEAN, s \in 0..1}
    \cup {Set(2, TRUE, 0, TRUE, {}, {}), Set(0, TRUE, 1, FALSE, {}, {7}), Set(0, TRUE, 1, FALSE, {8}, {8})}
TheRoots ==
    {[at |-> p, cnt50 |-> c, rep |-> FALSE, rule50 |-> r, rankDTZ |-> d, time |-> 12, pv |-> <<1>>] :
        p \in 1..12, c \in {0, 2, 4}, r \in BOOLEAN, d \in BOOLEAN}
    \cup {[at |-> p, cnt50 |-> 2, rep |-> t = 0, rule50 |-> TRUE, rankDTZ |-> FALSE, time |-> t, pv |-> <<1, 1, 1>>] :
             p \in 1..12, t \in {0, 2, 12}}
Probe == INSTANCE TbProbe WITH
    Endings <- <<Shuffle, Forced>>, TableSets <- TheTableSets, Roots <- TheRoots, Fifty <- 5

-------------------------------------------------------------------------------
(* King and rook against king, two rooks and the same with the pieces in   *)
(* the other order, a rook against a knight, and pawns of one side and of  *)
(* both.                                                                   *)
Table(pieces, pawns, unique, order) ==
    [pieces |-> pieces, pawns |-> pawns, unique |-> unique, order |-> order]
TheIndexTables ==
    << Table(<<"K", "R", "k">>, <<0, 0>>, TRUE, <<0, 15>>),
       Table(<<"K", "k", "R", "R">>, <<0, 0>>, FALSE, <<1, 15>>),
       Table(<<"K", "R", "k", "n">>, <<0, 0>>, TRUE, <<0, 15>>),
       Table(<<"P", "P", "K", "k">>, <<2, 0>>, FALSE, <<0, 15>>),
       Table(<<"P", "p", "K", "k">>, <<1, 1>>, FALSE, <<1, 0>>) >>
Where(table, where) == [table |-> table, where |-> where]
ThePlacements ==
    {Where(1, <<0..63, {9, 36}, {45}>>), Where(1, <<{0, 28, 35}, 0..63, {45}>>),
     Where(2, <<{0, 44}, {2, 18}, {9, 54}, 0..63>>),
     Where(3, <<{36}, {9, 18, 45}, {63, 16}, {10, 54}>>),
     Where(4, <<8..55, {8, 25, 33}, {2}, {63}>>), Where(5, <<{47, 29}, 8..55, {2}, {3, 50}>>)}
Index == INSTANCE TbIndex WITH Tables <- TheIndexTables, Placements <- ThePlacements

-------------------------------------------------------------------------------
(* Canonical codes of three shapes, messages of two or three blocks, one   *)
(* table that holds a single value, and materials that collide in a hash   *)
(* table of four buckets.                                                  *)
Leaf(v) == [left |-> v, right |-> 4095]
Pair(a, b) == [left |-> a, right |-> b]
Symbols(n, f) == [s \in 0..n |-> f[s + 1]]
TheCodes ==
    << [minLen |-> 1, lowest |-> <<3, 2, 0>>, tree |-> Symbols(3, <<Leaf("a"), Leaf("b"), Pair(0, 1), Pair(2, 2)>>)],
       [minLen |-> 2, lowest |-> <<2, 0>>, tree |-> Symbols(4, <<Leaf("a"), Leaf("b"), Pair(0, 1), Leaf("c"), Pair(2, 3)>>)],
       [minLen |-> 1, lowest |-> <<4, 4, 0>>,
        tree |-> Symbols(4, <<Leaf("a"), Leaf("b"), Pair(0, 1), Pair(2, 0), Leaf("c")>>)] >>
UpToThree(S) == UNION {[1..n -> S] : n \in 1..3}
TheMessages ==
    {[book |-> 1, blocks |-> <<x, y>>, span |-> s, single |-> "no"] :
        x \in UpToThree(0..3), y \in {<<3>>, <<1, 0, 2, 3>>, <<0, 0, 0, 1, 1>>}, s \in {2, 4}}
    \cup {[book |-> b, blocks |-> <<<<2, 3, 1>>, x, <<4>>>>, span |-> s, single |-> "no"] :
             x \in UpToThree({0, 2, 4}), s \in {4, 8}, b \in 2..3}
    \cup {[book |-> 1, blocks |-> <<<<3>>>>, span |-> 4, single |-> "a"]}
Keys == {[key |-> 1, key2 |-> 5], [key |-> 2, key2 |-> 3], [key |-> 4, key2 |-> 6], [key |-> 9, key2 |-> 9],
         [key |-> 7, key2 |-> 8], [key |-> 10, key2 |-> 12]}
TheFilings ==
    {f \in UNION {[1..n -> Keys] : n \in 1..3} : \A i, j \in DOMAIN f : i # j => f[i] # f[j]}
File == INSTANCE TbFile WITH
    Books <- TheCodes, Messages <- TheMessages, Filings <- TheFilings,
    Mappers <- [exists : BOOLEAN, intact : BOOLEAN], Probers <- 1..3, Size <- 4
================================================================================
