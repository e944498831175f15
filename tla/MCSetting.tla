------------------------------- MODULE MCSetting -------------------------------
(***************************************************************************)
(* Instances of what surrounds the search: machines and NUMA policies,     *)
(* lines for the accumulators of the network, opening books and games for  *)
(* the Monte Carlo search.                                                 *)
(***************************************************************************)
EXTENDS Integers, Sequences, FiniteSets, TLC

VARIABLES job, out

-------------------------------------------------------------------------------
(* Machines of eight processors: three nodes of which one is empty, caches *)
(* within and across nodes, a process that may not use them all, a system  *)
(* that tells nothing.                                                     *)
Cpus(a, b) == [first |-> a, last |-> b]
Host(affinity, online, lists, l3) ==
    [threads |-> 8, affinity |-> affinity, online |-> online, lists |-> lists, l3 |-> l3]
ThreeNodes == (0 :> <<Cpus(0, 3)>>) @@ (1 :> << >>) @@ (2 :> <<Cpus(4, 5), Cpus(6, 6), Cpus(7, 7)>>)
Caches == [c \in 0..7 |-> IF c < 2 THEN <<Cpus(0, 1)>> ELSE IF c < 4 THEN <<Cpus(2, 3)>> ELSE <<Cpus(4, 7)>>]
Pairs == [c \in 0..7 |-> <<Cpus(2 * (c \div 2), 2 * (c \div 2) + 1)>>]
Untold == [c \in {} |-> << >>]
TheHosts ==
    {Host(a, <<Cpus(0, 2)>>, ThreeNodes, l) :
        a \in {0..7, {1, 2, 5}, {4, 6}}, l \in {Caches, Pairs, [c \in 0..5 |-> Pairs[c]], Untold}}
    \cup {Host({0, 5, 6}, << >>, Untold, l) : l \in {Pairs, Untold}}
    \cup {Host(0..7, <<Cpus(0, 1)>>, (0 :> <<Cpus(0, 3)>>), Caches)}
(* "0-1:5-1:2-6,9-90" and the like. *)
TheStrings ==
    [two |-> <<<<Cpus(0, 1)>>, <<Cpus(5, 1)>>, <<Cpus(2, 6), Cpus(9, 90)>>>>,
     three |-> <<<<Cpus(3, 3)>>, <<Cpus(0, 1)>>, <<Cpus(4, 7)>>>>,
     twice |-> <<<<Cpus(0, 1)>>, <<Cpus(1, 2)>>>>, empty |-> <<<<Cpus(1, 0)>>>>]
TheSystems ==
    {[cpus |-> 0..5, node |-> [c \in 0..5 |-> n[c + 1]], real |-> r, api |-> api, set |-> set, primary |-> p, fails |-> f] :
        n \in {<<0, 0, 0, 0, 0, 0>>, <<0, 0, 0, 2, 2, 2>>, <<1, 0, 1, 0, 1, 0>>},
        r \in {0..5, {0, 1}, {0, 1, 2}, {3}, {0, 4, 5}}, api \in BOOLEAN, set \in {"old", "new"}, p \in 0..2, f \in BOOLEAN}
Numa == INSTANCE NumaConfig WITH
    Hosts <- TheHosts, Systems <- TheSystems, Strings <- TheStrings,
    Policies <- {"auto", "system", "hardware", "none"} \cup DOMAIN TheStrings,
    Group <- 2, MaxIndices <- 16, MaxThreads <- 5

-------------------------------------------------------------------------------
(* Kings that cross the middle of the board, castling, captures of a       *)
(* mirrored rook, an en passant capture and a promotion, to be played,     *)
(* taken back and evaluated in any order.                                  *)
Piece(color, type) == [color |-> color, type |-> type]
White(type) == Piece(0, type)
Black(type) == Piece(1, type)
Move(pc, from, to) ==
    [pc |-> pc, from |-> from, to |-> to, removeSq |-> 64, removePc |-> pc, addSq |-> 64, addPc |-> pc]
Taking(d, sq, pc) == [d EXCEPT !.removeSq = sq, !.removePc = pc]
Adding(d, sq, pc) == [d EXCEPT !.addSq = sq, !.addPc = pc]
RookBoard ==
    (4 :> White("K")) @@ (7 :> White("R")) @@ (0 :> White("N")) @@ (60 :> Black("K"))
    @@ (57 :> Black("R")) @@ (63 :> Black("N"))
RookMoves ==
    {Move(White("K"), 4, 3), Move(White("K"), 4, 5), Move(White("K"), 5, 4), Move(White("K"), 3, 4),
     Move(White("K"), 5, 6), Adding(Taking(Move(White("K"), 4, 6), 7, White("R")), 5, White("R")),
     Taking(Move(White("R"), 7, 63), 63, Black("N")),
     Move(Black("K"), 60, 59), Move(Black("K"), 59, 60), Move(Black("K"), 60, 61), Move(Black("K"), 61, 60),
     Move(Black("R"), 57, 56), Taking(Move(Black("R"), 57, 1), 1, White("N"))}
PawnBoard ==
    (6 :> White("K")) @@ (36 :> White("P")) @@ (8 :> Black("P")) @@ (51 :> Black("P"))
    @@ (62 :> Black("K")) @@ (60 :> Black("R"))
PawnMoves ==
    {Move(White("K"), 6, 5), Move(White("K"), 6, 7), Move(White("K"), 7, 6), Move(White("K"), 5, 6),
     Move(White("P"), 36, 44), Taking(Move(White("P"), 36, 43), 35, Black("P")),
     Move(Black("P"), 51, 35), Taking(Move(Black("P"), 51, 44), 44, White("P")),
     Adding(Move(Black("P"), 8, 64), 0, Black("Q")), Move(Black("K"), 62, 63), Move(Black("K"), 63, 62)}
TheLines == {[root |-> RookBoard, moves |-> RookMoves], [root |-> PawnBoard, moves |-> PawnMoves]}

-------------------------------------------------------------------------------
(* Three positions and books over them.  796, 731 and 82 are the codes of  *)
(* e2e4, d2d4 and b1c3, 49415 castles, 31800 and 19512 promote.            *)
Request(board, legal, draws) ==
    [board |-> board, rights |-> 0, epFile |-> 4, canTake |-> FALSE, white |-> TRUE, ply |-> 6,
     legal |-> legal, draws |-> draws]
Openings == {796, 731, 82, 49415}
TheAsked == <<Request(1, Openings, {82}), Request(2, Openings \cup {31800, 19512}, {731}), Request(3, {796}, {796})>>
Entry(board, move, weight) == [key |-> 288 * board + 1, move |-> move, weight |-> weight]
Runs(a, b, c) ==
    [i \in 1..(a + b + c) |->
        IF i <= a THEN Entry(1, <<796, 263, 731, 82>>[1 + (i % 4)], (3 * i) % 7)
        ELSE IF i <= a + b THEN Entry(2, <<731, 796, 82>>[1 + (i % 3)], i % 4) ELSE Entry(3, 796, 5)]
TheBooks ==
    {Runs(a, b, c) : a \in {0, 3, 11}, b \in {1, 9}, c \in {0, 12}}
    \cup {<<Entry(1, 82, 9), Entry(1, 731, 1)>>, <<Entry(1, 82, 1), Entry(1, 731, 0), Entry(1, 796, 4)>>,
          <<Entry(1, 82, 0), Entry(1, 731, 0)>>, <<Entry(2, 19512, 9), Entry(2, 796, 3)>>, <<Entry(2, 19512, 9)>>,
          <<Entry(2, 731, 4), Entry(2, 19512, 1)>>, <<Entry(2, 3128, 1)>>}
Setting(file, active, best, depth) ==
    [file |-> file, active |-> active, bestOnly |-> best, maxDepth |-> depth, width |-> 1]
Book == INSTANCE PolyBook WITH
    Contents <- {("a" :> b) @@ ("b" :> <<Entry(1, 796, 1)>>) : b \in TheBooks},
    Settings <- {Setting("a", TRUE, FALSE, 255), Setting("a", TRUE, TRUE, 255), Setting("b", FALSE, TRUE, 255),
                 Setting("c", TRUE, FALSE, 5), Setting("b", TRUE, FALSE, 1)},
    Asked <- {TheAsked[i] : i \in 1..3},
    Generations <- {[path |-> "c", at |-> TheAsked[1], moves |-> <<731, 49415>>],
                    [path |-> "c", at |-> TheAsked[2], moves |-> <<31800>>],
                    [path |-> "b", at |-> TheAsked[1], moves |-> <<731>>]},
    MaxSteps <- 3

-------------------------------------------------------------------------------
(* A game with a mate at two plies and a cycle, and one that ends in       *)
(* stalemate.                                                              *)
Spot(moves, check, material) == [moves |-> moves, check |-> check, material |-> material]
Trial(game, rootMoves, depth, simulations) ==
    [game |-> game, rootMoves |-> rootMoves, depth |-> depth, simulations |-> simulations]
Mcts == INSTANCE MctsTree WITH
    Games <- << <<Spot({2, 3}, FALSE, 1), Spot({4, 5}, FALSE, 0), Spot({5}, TRUE, -2), Spot({2}, FALSE, 3),
                  Spot({}, TRUE, 0)>>,
                <<Spot({2}, FALSE, 1), Spot({1, 3}, FALSE, 0), Spot({}, FALSE, -2)>> >>,
    Trials <- {Trial(1, <<2, 3>>, 3, 4), Trial(1, <<3>>, 2, 0), Trial(2, <<2>>, 2, 5), Trial(2, <<2>>, 6, 3)},
    Mated <- -9, MaxIterations <- 5

-------------------------------------------------------------------------------
(* One option of each type; values at the ends of a range and beyond, with *)
(* a sign, with something after the number.  Networks that are whole, cut  *)
(* in a section, or of another architecture in the end.                    *)
Text(text, folded, n, whole) == [text |-> text, folded |-> folded, n |-> n, whole |-> whole]
Word(text, folded) == Text(text, folded, -99999, FALSE)
Option(type, default, choices) == [type |-> type, default |-> default, min |-> 1, max |-> 32, choices |-> choices]
TheRegistry ==
    [threads |-> Option("spin", Text("1", "1", 1, TRUE), {}), ponder |-> Option("check", Word("false", "false"), {}),
     strategy |-> Option("combo", Word("AlphaBeta", "alphabeta"), {"alphabeta", "mcts"}),
     sync |-> Option("button", Word("", ""), {}), logfile |-> Option("string", Word("", ""), {})]
TheTexts ==
    {Text("+32", "+32", 32, TRUE), Text("33", "33", 33, TRUE), Text("0", "0", 0, TRUE), Text("2x", "2x", 2, FALSE),
     Word("", ""), Word("TRUE", "true"), Word("true", "true"), Word("Mcts", "mcts"), Word("<empty>", "<empty>")}
Net(sections) == [head |-> TRUE, sections |-> sections, tail |-> FALSE]
TheDisk ==
    (<<"exe", "d">> :> Net(<<"d1", "d2", "d3">>)) @@ (<<"cwd", "a">> :> Net(<<"a1", "a2", "a3">>))
    @@ (<<"cwd", "b">> :> Net(<<"b1", "cut">>)) @@ (<<"bin", "c">> :> Net(<<"c1", "c2", "c3">>))
    @@ (<<"cwd", "c">> :> Net(<<"x1", "x2", "wrong">>))
Stub == [TheDisk EXCEPT ![<<"exe", "d">>].head = FALSE]
Choices == INSTANCE Options WITH
    Registry <- TheRegistry, Names <- {[folded |-> n] : n \in DOMAIN TheRegistry \cup {"minimum thinking time"}},
    Texts <- TheTexts, Paths <- {"", "a", "b", "c", "e"}, Default <- "d",
    Disks <- {TheDisk, Stub, (<<"bin", "d">> :> Net(<<"d1", "d2", "d3">>)) @@ Stub,
              (<<"cwd", "a">> :> [Net(<<"a1", "a2", "a3">>) EXCEPT !.tail = TRUE]) @@ TheDisk},
    Sections <- 3, MaxSteps <- 3
================================================================================
