-------------------------- MODULE TranspositionTable --------------------------
(***************************************************************************)
(* One cluster of the hash table (tt.cpp), probed and written by several   *)
(* threads without locks.  An entry is a handful of relaxed atomics: each  *)
(* store is a step of its own, and the stores of one call may take effect  *)
(* in any order.  A node keeps the entry that its probe has found and      *)
(* writes to it later, whatever has become of it.  The nodes of the search *)
(* are what is concurrent here: "thread" stands for one of them, whether   *)
(* the others are other threads or descendants on the same one.            *)
(*                                                                         *)
(* A position is a key.  Tag is its low 16 bits, all that an entry keeps   *)
(* of it; clusters do not interact.  A stored value is the number of its   *)
(* save in the log, a history variable; the evaluation is left out, it     *)
(* goes with the value.                                                    *)
(***************************************************************************)
EXTENDS Integers, Sequences, FiniteSets, SequencesExt, FiniteSetsExt

CONSTANTS
    Thread, Keys,
    Tag,                        \* a number for each key
    ClusterSize,                \* 3 in the code
    Generations,                \* 2^GENERATION_BITS
    None,                       \* Move::none()
    Results,                    \* what a node may save: move, pv, bound, depth, decisive
    MaxSaves                    \* a bound for TLC

(* What the sizes have to be for the table to make sense; a node's depth   *)
(* is above DEPTH_NONE (save asserts it).                                  *)
DEPTH_NONE == -3
Parameters ==
    /\ Keys # {} /\ ClusterSize \in Nat \ {0} /\ Generations \in Nat \ {0}
    /\ \A r \in Results : r.depth \in Int /\ r.depth > DEPTH_NONE

VARIABLES
    entry, generation8,
    th,             \* what each thread is at
    log,            \* history: the saves so far
    raced           \* history: entries that two threads wrote to at a time
ttVars == <<entry, generation8, th, log, raced>>

Slots == 1..ClusterSize
Zero == [key16 |-> 0, depth8 |-> 0, genBound8 |-> [gen |-> 0, bound |-> "none", pv |-> 0],
         move16 |-> None, value16 |-> 0]
Fields == DOMAIN Zero

(* What a thread is at: "away" from this cluster, in the "scan" of probe,  *)
(* about to "read" an entry, at its "node" with the writer, or in a "save".*)
Away == [at |-> "away", key |-> CHOOSE k \in Keys : TRUE, slot |-> 1, hit |-> FALSE, raced |-> FALSE,
         save |-> 0, todo |-> {}, stores |-> Zero]
TTInit ==
    /\ entry = [i \in Slots |-> Zero] /\ generation8 = 0
    /\ th = [t \in Thread |-> Away]
    /\ log = << >> /\ raced = {}

relative_age(e) == (generation8 - e.genBound8.gen + Generations) % Generations

(***************************************************************************)
(* probe: the first entry with these 16 bits of key, or the one to replace.*)
(***************************************************************************)
Saving(i) == {u \in Thread : th[u].at = "save" /\ th[u].slot = i}

Probe(t, k) ==
    /\ th[t].at = "away"
    /\ th' = [th EXCEPT ![t] = [Away EXCEPT !.at = "scan", !.key = k]]
    /\ UNCHANGED <<entry, generation8, log, raced>>

Matches(t) == entry[th[t].slot].key16 = Tag[th[t].key]
Match(t) ==
    /\ th[t].at = "scan" /\ Matches(t)
    /\ th' = [th EXCEPT ![t].at = "read", ![t].raced = Saving(th[t].slot) # {}]
    /\ UNCHANGED <<entry, generation8, log, raced>>

Worth(e) == e.depth8 - 8 * relative_age(e)
Replaceable(i) == \A j \in Slots : Worth(entry[i]) <= Worth(entry[j])
NoMatch(t) ==
    /\ th[t].at = "scan" /\ ~Matches(t)
    /\ IF th[t].slot < ClusterSize THEN th' = [th EXCEPT ![t].slot = @ + 1]
       ELSE th' = [th EXCEPT ![t].at = "node", ![t].slot = Min({i \in Slots : Replaceable(i)})]
    /\ UNCHANGED <<entry, generation8, log, raced>>

(* is_occupied, and the copy.  A copy that overlaps stores of another      *)
(* thread may be anything between the old entry and the new one.           *)
Read(t) ==
    /\ th[t].at = "read"
    /\ th' = [th EXCEPT ![t].at = "node", ![t].hit = entry[th[t].slot].depth8 # 0, ![t].raced = FALSE]
    /\ UNCHANGED <<entry, generation8, log, raced>>

(***************************************************************************)
(* The node: it is done, penalizes its entry, or saves its result.         *)
(***************************************************************************)
Leave(t) ==
    /\ th[t].at = "node"
    /\ th' = [th EXCEPT ![t] = Away]
    /\ UNCHANGED <<entry, generation8, log, raced>>

(* Who stores into entry i disturbs everybody who reads or writes it.      *)
Disturbed(t, threads) ==
    [u \in Thread |-> IF u # t /\ threads[u].at = "read" /\ threads[u].slot = threads[t].slot
                      THEN [threads[u] EXCEPT !.raced = TRUE] ELSE threads[u]]
Pending(t, stores, todo) ==
    [th EXCEPT ![t].at = IF todo = {} THEN "node" ELSE "save", ![t].todo = todo,
               ![t].stores = IF todo = {} THEN Zero ELSE stores]

(* Mutant: without the guard against zero. *)
LessWraps(n, d) == (n - d + 256) % 256
Less(n, d) == IF n > d THEN n - d ELSE 0
penalize(t) ==
    /\ th[t].at = "node" /\ th[t].hit
    /\ th' = Pending(t, [Zero EXCEPT !.depth8 = Less(entry[th[t].slot].depth8, 1)], {"depth8"})
    /\ UNCHANGED <<entry, generation8, log, raced>>

Write(t, r) ==
    /\ th[t].at = "node" /\ Len(log) < MaxSaves
    /\ log' = Append(log, [key |-> th[t].key, move |-> r.move, pv |-> r.pv, bound |-> r.bound,
                           depth |-> r.depth, decisive |-> r.decisive])
    /\ th' = [Pending(t, Zero, {"decide"}) EXCEPT ![t].save = Len(log) + 1]
    /\ UNCHANGED <<entry, generation8, raced>>

(* save looks at the entry and decides what to store.  Mutant: the old     *)
(* move stays though the entry is another position's.                      *)
NewMoveKept(s, e) == s.move # None
NewMove(s, e) == s.move # None \/ Tag[s.key] # e.key16
Overwrites(s, e) ==
    \/ s.bound = "exact" \/ Tag[s.key] # e.key16
    \/ s.depth - DEPTH_NONE + 2 * s.pv > e.depth8 - 4 \/ relative_age(e) # 0
Ages(e) ==
    /\ e.depth8 + DEPTH_NONE >= 5 /\ e.genBound8.bound # "exact"
    /\ e.value16 # 0 /\ log[e.value16].decisive
Decide(t) ==
    /\ th[t].at = "save" /\ "decide" \in th[t].todo
    /\ LET s == log[th[t].save]  e == entry[th[t].slot]
           move == IF NewMove(s, e) THEN {"move16"} ELSE {} IN
       th' = IF Overwrites(s, e)
             THEN Pending(t, [key16 |-> Tag[s.key], depth8 |-> s.depth - DEPTH_NONE,
                              genBound8 |-> [gen |-> generation8, bound |-> s.bound, pv |-> s.pv],
                              move16 |-> s.move, value16 |-> th[t].save],
                          (Fields \ {"move16"}) \cup move)
             ELSE IF Ages(e)
             THEN Pending(t, [Zero EXCEPT !.depth8 = Less(e.depth8, 1), !.move16 = s.move],
                          {"depth8"} \cup move)
             ELSE Pending(t, [Zero EXCEPT !.move16 = s.move], move)
    /\ UNCHANGED <<entry, generation8, log, raced>>

(* The search goes on at the node afterwards, and may save once more. *)
Store(t, f) ==
    /\ th[t].at = "save" /\ f \in th[t].todo \ {"decide"}
    /\ entry' = [entry EXCEPT ![th[t].slot][f] = th[t].stores[f]]
    /\ th' = LET rest == Pending(t, th[t].stores, th[t].todo \ {f})
             IN Disturbed(t, rest)
    /\ raced' = raced \cup (IF Saving(th[t].slot) = {t} THEN {} ELSE {th[t].slot})
    /\ UNCHANGED <<generation8, log>>

(***************************************************************************)
(* Between two searches.                                                   *)
(***************************************************************************)
Quiet == \A t \in Thread : th[t].at = "away"
new_search ==
    /\ Quiet /\ generation8' = (generation8 + 1) % Generations
    /\ UNCHANGED <<entry, th, log, raced>>
clear ==
    /\ Quiet /\ entry' = [i \in Slots |-> Zero] /\ generation8' = 0 /\ raced' = {}
    /\ UNCHANGED <<th, log>>

TTNext ==
    \/ \E t \in Thread :
         \/ \E k \in Keys : Probe(t, k)
         \/ Match(t) \/ NoMatch(t) \/ Read(t)
         \/ Leave(t) \/ penalize(t) \/ Decide(t)
         \/ (\E f \in Fields : Store(t, f)) \/ (\E r \in Results : Write(t, r))
    \/ new_search \/ clear
TTSpec == TTInit /\ [][TTNext]_ttVars

-------------------------------------------------------------------------------
(***************************************************************************)
(* Types.  A depth is never more than was saved, whatever aging, penalties *)
(* and races have made of it: depth8 does not wrap below zero.             *)
(***************************************************************************)
TypeOK ==
    /\ generation8 \in 0..(Generations - 1)
    /\ \A i \in DOMAIN entry :
         /\ entry[i].key16 \in {Tag[k] : k \in Keys} \cup {0}
         /\ entry[i].value16 \in 0..Len(log)
         /\ entry[i].depth8 \in Nat
         /\ entry[i].depth8 # 0 => \E n \in DOMAIN log : entry[i].depth8 <= log[n].depth - DEPTH_NONE

(***************************************************************************)
(* What a hit tells: where no two threads are at the entry at a time, the  *)
(* value, the bound and the key are those of one save of this key, or of   *)
(* one with the same 16 bits; its depth is at most that of the save, and   *)
(* the move belongs to a save of such a key as well (tt.h promises that    *)
(* only races and collisions make data inconsistent).                      *)
(***************************************************************************)
Alike(n, t) == Tag[log[n].key] = Tag[th[t].key]
Consistent(d, t) ==
    /\ d.value16 # 0 /\ Alike(d.value16, t)
    /\ d.genBound8.bound = log[d.value16].bound
    /\ d.depth8 <= log[d.value16].depth - DEPTH_NONE
    /\ d.move16 # None => \E n \in DOMAIN log : Alike(n, t) /\ log[n].move = d.move16
HitsAreSaved ==
    \A t \in Thread :
        LET i == th[t].slot IN
        th[t].at = "read" /\ entry[i].depth8 # 0 /\ ~th[t].raced /\ Saving(i) = {} /\ i \notin raced
            => Consistent(entry[i], t)
================================================================================
