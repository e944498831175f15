------------------------------ MODULE MovePicker ------------------------------
(***************************************************************************)
(* A node of the search asks its MovePicker for one move after another     *)
(* (movepick.cpp).  Good and bad captures and quiet moves share one array, *)
(* five pointers run over it, and between two calls the search may decide  *)
(* that it wants no more quiet moves.                                      *)
(*                                                                         *)
(* A position is what the picker sees of it: the captures and the quiet    *)
(* moves that can be generated, their scores, and see_ge for each capture. *)
(* Pointers are indices, an end is one past the last element.              *)
(***************************************************************************)
EXTENDS Integers, Sequences, FiniteSets, SequencesExt

CONSTANTS
    Captures, Quiets,       \* the moves of CAPTURES and of QUIETS, disjoint
    NoMove, Alien,          \* Move::none(); a move that is not pseudo-legal
    CaptureValues, QuietValues, Depths      \* integers, the values of 32 bits

NoLimit == -2147483647 - 1  \* no value is below
ASSUME PickerAssumption ==
    /\ IsFiniteSet(Captures) /\ IsFiniteSet(Quiets) /\ Captures \cap Quiets = {}
    /\ {NoMove, Alien} \cap (Captures \cup Quiets) = {}
    /\ \A v \in CaptureValues \cup QuietValues : v \in Int /\ v >= NoLimit
    /\ Depths \subseteq Int

VARIABLES
    kind,               \* which constructor, and whether in check
    ttMove, depth,
    value, good,        \* what score computes; see_ge of the captures
    stage, moves,
    cur, endCur, endBadCaptures, endCaptures, endGenerated,
    skipQuiets,
    caller,             \* the search: "busy", "waits" in next_move, "done"
    returned            \* history: the moves returned so far

position == <<kind, ttMove, depth, value, good>>
pointers == <<cur, endCur, endBadCaptures, endCaptures, endGenerated>>
pickVars == <<position, stage, moves, pointers, skipQuiets, caller, returned>>

Moves == Captures \cup Quiets
Stages == <<"MAIN_TT", "CAPTURE_INIT", "GOOD_CAPTURE", "QUIET_INIT", "GOOD_QUIET",
            "BAD_CAPTURE", "BAD_QUIET",
            "EVASION_TT", "EVASION_INIT", "EVASION",
            "PROBCUT_TT", "PROBCUT_INIT", "PROBCUT",
            "QSEARCH_TT", "QCAPTURE_INIT", "QCAPTURE">>
At(names) == Stages[stage] \in names
FirstStage(k) == CASE k = "main" -> 1 [] k = "evasion" -> 8 [] k = "probcut" -> 11
                   [] k = "qsearch" -> 14
goodQuietThreshold == -14000
Unset == 0              \* a pointer that has not been assigned

(* The hash move comes first if it is a move here; ProbCut wants captures. *)
PseudoLegal(k, m) == m \in Captures \/ (m \in Quiets /\ k # "probcut")

PickInit ==
    /\ kind \in {"main", "evasion", "probcut", "qsearch"}
    /\ ttMove \in Moves \cup {NoMove, Alien}
    /\ depth \in (IF kind = "main" THEN Depths ELSE {0})
    /\ value \in [Moves -> CaptureValues \cup QuietValues]
    /\ \A m \in Moves : value[m] \in (IF m \in Captures THEN CaptureValues ELSE QuietValues)
    /\ good \in [Captures -> BOOLEAN]
    /\ stage = FirstStage(kind) + (IF PseudoLegal(kind, ttMove) THEN 0 ELSE 1)
    /\ moves = << >> /\ cur = Unset /\ endCur = Unset /\ endBadCaptures = Unset
    /\ endCaptures = Unset /\ endGenerated = Unset
    /\ skipQuiets = FALSE /\ caller = "busy" /\ returned = << >>

(***************************************************************************)
(* The array.  Moves from limit on are sorted in front of the others,      *)
(* which stay where they are or change places; the first one is always     *)
(* among the sorted.                                                       *)
(***************************************************************************)
score(S) == LET list == SetToSeq(S) IN [i \in DOMAIN list |-> [move |-> list[i], value |-> value[list[i]]]]

(* The sorted part is list[1..n], and list[p] is inserted.  Mutant: the    *)
(* move it displaces is lost.                                              *)
InsertedOver(list, n, p) ==
    LET q == Cardinality({i \in 1..n : list[i].value >= list[p].value}) IN
    [i \in DOMAIN list |-> IF i = q + 1 THEN list[p] ELSE IF i \in (q + 2)..(n + 1) THEN list[i - 1] ELSE list[i]]
Inserted(list, n, p) ==
    LET q == Cardinality({i \in 1..n : list[i].value >= list[p].value}) IN
    [i \in DOMAIN list |->
        IF i = q + 1 THEN list[p]
        ELSE IF i \in (q + 2)..(n + 1) THEN list[i - 1]
        ELSE IF i = p THEN list[n + 1]
        ELSE list[i]]
partial_insertion_sort(list, limit) ==
    LET after[p \in 0..Len(list)] ==
            IF p <= 1 THEN [list |-> list, n |-> 1]
            ELSE LET s == after[p - 1] IN
                 IF s.list[p].value < limit THEN s ELSE [list |-> Inserted(s.list, s.n, p), n |-> s.n + 1]
    IN  after[Len(list)].list
Sorted(S) == partial_insertion_sort(score(S), NoLimit)
QuietLimit == -3560 * depth

-------------------------------------------------------------------------------
(***************************************************************************)
(* The search: next_move, or no more quiet moves.                          *)
(***************************************************************************)
Ask ==
    /\ caller = "busy" /\ caller' = "waits"
    /\ UNCHANGED <<position, stage, moves, pointers, skipQuiets, returned>>
skip_quiet_moves ==
    /\ caller = "busy" /\ returned # << >> /\ kind \in {"main", "evasion"}
    /\ skipQuiets' = TRUE
    /\ UNCHANGED <<position, stage, moves, pointers, caller, returned>>

Returns(m) ==
    /\ caller' = "busy" /\ returned' = Append(returned, m)
    /\ UNCHANGED <<position, skipQuiets>>
Continues == UNCHANGED <<position, skipQuiets, caller, returned>>

(***************************************************************************)
(* next_move, one case or one turn of a loop at a time.                    *)
(***************************************************************************)
TTStage ==
    /\ caller = "waits" /\ At({"MAIN_TT", "EVASION_TT", "QSEARCH_TT", "PROBCUT_TT"})
    /\ stage' = stage + 1 /\ Returns(ttMove)
    /\ UNCHANGED <<moves, pointers>>

CaptureInit ==
    /\ caller = "waits" /\ At({"CAPTURE_INIT", "PROBCUT_INIT", "QCAPTURE_INIT"})
    /\ moves' = Sorted(Captures)
    /\ cur' = 1 /\ endBadCaptures' = 1
    /\ endCur' = Len(moves') + 1 /\ endCaptures' = endCur'
    /\ stage' = stage + 1 /\ Continues /\ UNCHANGED endGenerated

EvasionInit ==
    /\ caller = "waits" /\ At({"EVASION_INIT"})
    /\ moves' = Sorted(Moves)
    /\ cur' = 1 /\ endCur' = Len(moves') + 1 /\ endGenerated' = endCur'
    /\ stage' = stage + 1 /\ Continues /\ UNCHANGED <<endBadCaptures, endCaptures>>

QuietInit ==
    /\ caller = "waits" /\ At({"QUIET_INIT"})
    /\ IF skipQuiets THEN UNCHANGED <<moves, endCur, endGenerated>>
       ELSE /\ moves' = SubSeq(moves, 1, cur - 1) \o partial_insertion_sort(score(Quiets), QuietLimit)
            /\ endCur' = cur + Cardinality(Quiets) /\ endGenerated' = endCur'
    /\ stage' = stage + 1 /\ Continues /\ UNCHANGED <<cur, endBadCaptures, endCaptures>>

(* A stage that selects from the array, and what it wants.  Mutant: it does*)
(* not matter that quiet moves are skipped.                                *)
SelectsAnyway == At({"GOOD_CAPTURE", "BAD_CAPTURE", "EVASION", "QCAPTURE", "PROBCUT", "GOOD_QUIET", "BAD_QUIET"})
Selects ==
    \/ At({"GOOD_CAPTURE", "BAD_CAPTURE", "EVASION", "QCAPTURE", "PROBCUT"})
    \/ At({"GOOD_QUIET", "BAD_QUIET"}) /\ ~skipQuiets
Wanted(x) ==
    CASE At({"GOOD_CAPTURE", "PROBCUT"}) -> good[x.move]
      [] At({"GOOD_QUIET"}) -> x.value > goodQuietThreshold
      [] At({"BAD_QUIET"}) -> x.value <= goodQuietThreshold
      [] OTHER -> TRUE
Left == Selects /\ cur < endCur

(* Mutant: the hash move comes again. *)
NotYet(x) == TRUE
Fresh(x) == x.move # ttMove

Select ==
    /\ caller = "waits" /\ Left /\ Fresh(moves[cur]) /\ Wanted(moves[cur])
    /\ cur' = cur + 1 /\ Returns(moves[cur].move)
    /\ UNCHANGED <<stage, moves, endCur, endBadCaptures, endCaptures, endGenerated>>
(* A capture that loses material changes places with the first one that    *)
(* has been dealt with.                                                    *)
SetAside ==
    /\ caller = "waits" /\ Left /\ At({"GOOD_CAPTURE"})
    /\ Fresh(moves[cur]) /\ ~Wanted(moves[cur])
    /\ moves' = [moves EXCEPT ![endBadCaptures] = moves[cur], ![cur] = moves[endBadCaptures]]
    /\ endBadCaptures' = endBadCaptures + 1 /\ cur' = cur + 1
    /\ Continues /\ UNCHANGED <<stage, endCur, endCaptures, endGenerated>>
Pass ==
    /\ caller = "waits" /\ Left
    /\ ~Fresh(moves[cur]) \/ (~Wanted(moves[cur]) /\ ~At({"GOOD_CAPTURE"}))
    /\ cur' = cur + 1
    /\ Continues /\ UNCHANGED <<stage, moves, endCur, endBadCaptures, endCaptures, endGenerated>>

(* The stage is over. *)
CapturesOver ==
    /\ caller = "waits" /\ ~Left /\ At({"GOOD_CAPTURE"})
    /\ stage' = stage + 1 /\ Continues /\ UNCHANGED <<moves, pointers>>
GoodQuietsOver ==
    /\ caller = "waits" /\ ~Left /\ At({"GOOD_QUIET"})
    /\ cur' = 1 /\ endCur' = endBadCaptures
    /\ stage' = stage + 1 /\ Continues
    /\ UNCHANGED <<moves, endBadCaptures, endCaptures, endGenerated>>
BadCapturesOver ==
    /\ caller = "waits" /\ ~Left /\ At({"BAD_CAPTURE"})
    /\ cur' = endCaptures /\ endCur' = endGenerated
    /\ stage' = stage + 1 /\ Continues
    /\ UNCHANGED <<moves, endBadCaptures, endCaptures, endGenerated>>
(* Move::none(): the node has seen them all. *)
AllOver ==
    /\ caller = "waits" /\ ~Left /\ At({"BAD_QUIET", "EVASION", "QCAPTURE", "PROBCUT"})
    /\ caller' = "done"
    /\ UNCHANGED <<position, stage, moves, pointers, skipQuiets, returned>>

next_move ==
    \/ TTStage \/ CaptureInit \/ EvasionInit \/ QuietInit \/ Select \/ SetAside \/ Pass
    \/ CapturesOver \/ GoodQuietsOver \/ BadCapturesOver \/ AllOver
PickNext == Ask \/ skip_quiet_moves \/ next_move
PickSpec == PickInit /\ [][PickNext]_pickVars

-------------------------------------------------------------------------------
(***************************************************************************)
(* What may be read: a stage that selects runs over elements that have     *)
(* been written, and the bad captures stay clear of the quiet moves.       *)
(* endGenerated is never assigned if quiet moves are skipped early enough, *)
(* and is not looked at then.                                              *)
(***************************************************************************)
PointersSet ==
    /\ stage \in DOMAIN Stages /\ Len(moves) <= Cardinality(Moves)
    /\ caller = "waits" /\ Selects =>
         cur # Unset /\ endCur # Unset /\ cur <= endCur /\ endCur <= Len(moves) + 1
    /\ endBadCaptures # Unset => endBadCaptures <= endCaptures

(***************************************************************************)
(* No move comes twice or out of nowhere, and when next_move has nothing   *)
(* more to offer, every move has come that was not meant to be skipped:    *)
(* whatever the hash move, and whenever skip_quiet_moves was called.       *)
(***************************************************************************)
Offered ==
    CASE kind \in {"main", "evasion"} -> Moves
      [] kind = "qsearch" -> Captures \cup (Moves \cap {ttMove})
      [] kind = "probcut" -> {m \in Captures : good[m] \/ m = ttMove}
Skipped == IF kind = "main" /\ skipQuiets THEN Quiets ELSE {}
PicksEachOnce ==
    /\ IsInjective(returned) /\ ToSet(returned) \subseteq Offered
    /\ caller = "done" => Offered \ Skipped \subseteq ToSet(returned)

(***************************************************************************)
(* Moves come in the order of their stages, and in each stage by their     *)
(* values: good captures, good quiet moves, bad captures, bad quiet moves, *)
(* the quiet ones sorted only from the limit of the depth on.              *)
(***************************************************************************)
StageOf(m) ==
    IF m = ttMove THEN 0
    ELSE IF kind # "main" THEN 1
    ELSE IF m \in Captures THEN (IF good[m] THEN 1 ELSE 3)
    ELSE IF value[m] > goodQuietThreshold THEN 2 ELSE 4
InOrder(a, b) ==
    /\ StageOf(a) <= StageOf(b)
    /\ StageOf(a) = StageOf(b) /\ (StageOf(b) \in {2, 4} => value[b] >= QuietLimit)
         => value[a] >= value[b]
ReturnedInOrder ==
    \A j \in DOMAIN returned : \A i \in 1..(j - 1) : InOrder(returned[i], returned[j])

(* The picker as a whole. *)
PicksInOrder == PointersSet /\ PicksEachOnce /\ ReturnedInOrder
================================================================================
