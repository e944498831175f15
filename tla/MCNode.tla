-------------------------------- MODULE MCNode --------------------------------
(***************************************************************************)
(* What a node of the search works with, one part at a time: its move      *)
(* picker, and its entry of the hash table, once in a cluster of two       *)
(* entries that one node after the other uses and once in an entry that    *)
(* two nodes use at the same time.                                         *)
(***************************************************************************)
EXTENDS MovePicker, TranspositionTable, TLC

CONSTANTS p0, p1, m

(* A quiet move at the threshold and one above; the depths, in the cfg,    *)
(* have a limit that leaves both below, sorts one of them, and sorts both. *)
QuietValueSet == {-14000, -10000}

(* p0 has the tag of an empty entry.                                       *)
TheTag == (p0 :> 0) @@ (p1 :> 1)
Result(mv, b, d, x) == [move |-> mv, pv |-> 0, bound |-> b, depth |-> d, decisive |-> x]
(* What is stored before the node is searched, an exact result, a mate.    *)
TheResults == {Result(None, "none", -2, FALSE), Result(m, "exact", 2, FALSE), Result(m, "lower", 5, TRUE)}

RaceResults == {r \in TheResults : r.bound # "exact"}

VARIABLE part

Race == INSTANCE TranspositionTable WITH ClusterSize <- 1, Results <- RaceResults

ASSUME TableAssumption == Parameters /\ Race!Parameters

(* A part that is not looked at stands still. *)
NoPicker ==
    /\ kind = "main" /\ ttMove = NoMove /\ depth = 0 /\ value = << >> /\ good = << >>
    /\ stage = 2 /\ moves = << >> /\ cur = 0 /\ endCur = 0 /\ endBadCaptures = 0
    /\ endCaptures = 0 /\ endGenerated = 0 /\ skipQuiets = FALSE /\ caller = "busy" /\ returned = << >>
NoTable == TTInit

InTurn == Cardinality({t \in Thread : th'[t].at # "away"}) <= 1

Init ==
    \/ part = "picker" /\ PickInit /\ NoTable
    \/ part = "cluster" /\ TTInit /\ NoPicker
    \/ part = "race" /\ Race!TTInit /\ NoPicker
Next ==
    /\ UNCHANGED part
    /\ \/ part = "picker" /\ PickNext /\ UNCHANGED ttVars
       \/ part = "cluster" /\ TTNext /\ InTurn /\ UNCHANGED pickVars
       \/ part = "race" /\ Race!TTNext /\ UNCHANGED pickVars
Spec == Init /\ [][Next]_<<part, pickVars, ttVars>>
Threads == Permutations(Thread)
===============================================================================
