------------------------------ MODULE NodeProofs ------------------------------
(***************************************************************************)
(* Safety of what a node of the search works with.                         *)
(*                                                                         *)
(* Its entry of the hash table, for any number of nodes, keys, slots of a  *)
(* cluster and results: a hit is one save where no two nodes were at the   *)
(* entry at a time.                                                        *)
(*                                                                         *)
(* Its move picker, for any moves with any scores, for any hash move, and  *)
(* whenever the search gives up the quiet moves: every move that is not    *)
(* skipped is offered, once and in order.  After the hash table comes what *)
(* scoring and sorting make of a set of moves, then what the array holds   *)
(* at each stage.                                                          *)
(***************************************************************************)
EXTENDS MovePicker, TranspositionTable, Induction, FiniteSetTheorems

------------------------------------------------------------------------------
(* The hash table.                                                         *)

(* What an entry, a save and a node are made of. *)
Pick(f) == {r[f] : r \in Results}
SavedMoves == Pick("move") \cup {None}
Bounds == Pick("bound") \cup {"none"}
Pvs == Pick("pv") \cup {0}
Tags == {Tag[k] : k \in Keys} \cup {0}
Entries == [key16 : Tags, depth8 : Nat,
            genBound8 : [gen : 0..(Generations - 1), bound : Bounds, pv : Pvs],
            move16 : SavedMoves, value16 : Nat]
Saves == [key : Keys, move : SavedMoves, pv : Pvs, bound : Bounds,
            depth : Pick("depth"), decisive : Pick("decisive")]
Places == {"away", "scan", "read", "node", "save"}
Nodes == [at : Places, key : Keys, slot : Slots, hit : BOOLEAN, raced : BOOLEAN,
            save : Nat, todo : SUBSET (Fields \cup {"decide"}), stores : Entries]

Types ==
  /\ entry \in [Slots -> Entries] /\ generation8 \in 0..(Generations - 1)
  /\ th \in [Thread -> Nodes] /\ log \in Seq(Saves) /\ raced \subseteq Slots

(* Who saves has something to do: to decide, or to store; who does not     *)
(* save has nothing.                                                       *)
WorkInv ==
  \A t \in Thread :
    /\ th[t].at = "save" <=> th[t].todo # {}
    /\ "decide" \in th[t].todo => th[t].todo = {"decide"}
       /\ th[t].save \in DOMAIN log

(* An entry, or what is about to be stored in one, was saved or is older   *)
(* than a save, but never deeper than one.                                 *)
NotDeeper(e) == e.depth8 = 0
\/ \E n \in DOMAIN log : e.depth8 <= log[n].depth - DEPTH_NONE
Saved(e) == e.value16 \in 0..Len(log) /\ NotDeeper(e)
SavedInv == /\ \A i \in Slots : Saved(entry[i])
            /\ \A t \in Thread : Saved(th[t].stores)

(* The entry is one save, aged, with the move of another of a like key.    *)
Whole(e) ==
  /\ e.move16 # None => \E n \in DOMAIN log : Tag[log[n].key] = e.key16
     /\ log[n].move = e.move16
  /\ e.depth8 # 0 =>
       /\ e.value16 \in DOMAIN log /\ Tag[log[e.value16].key] = e.key16
       /\ e.genBound8.bound = log[e.value16].bound
       /\ e.depth8 <= log[e.value16].depth - DEPTH_NONE

(* Those with stores under way at an entry, and what it will be when the   *)
(* last store is done.                                                     *)
Writes(t, i) == th[t].at = "save" /\ th[t].slot = i /\ "decide" \notin th[t].todo
Then(t, e, f) == IF f \in th[t].todo THEN th[t].stores[f] ELSE e[f]
Result(t, e) == [key16 |-> Then(t, e, "key16"), depth8 |-> Then(t, e, "depth8"),
                 genBound8 |-> Then(t, e, "genBound8"), move16 |-> Then(t, e, "move16"),
                 value16 |-> Then(t, e, "value16")]
WholeInv ==
  \A i \in Slots \ raced :
    /\ (\A t \in Thread : ~Writes(t, i)) => Whole(entry[i])
    /\ \A t \in Thread : Writes(t, i) /\ (\A u \in Thread \ {t} : ~Writes(u, i))
         => Whole(Result(t, entry[i]))

(* Nobody has stored to an entry since its key was found to match, or the  *)
(* reader is known to be disturbed.                                        *)
ReadInv ==
  \A t \in Thread : th[t].at = "read" /\ ~th[t].raced
    => entry[th[t].slot].key16 = Tag[th[t].key]

TableInv == Types /\ WorkInv /\ SavedInv /\ WholeInv /\ ReadInv
-----------------------------------------------------------------------------
LEMMA FieldNames ==
  Fields = {"key16", "depth8", "genBound8", "move16", "value16"}
BY DEF Fields, Zero

LEMMA ZeroType ==
  ASSUME Parameters
  PROVE  Zero \in Entries /\ Away \in Nodes /\ Away.key \in Keys
<1>1. 0 \in 0..(Generations - 1) /\ 1 \in Slots
  BY DEF Parameters, Slots
<1>2. Zero \in Entries
  BY <1>1 DEF Zero, Entries, Tags, SavedMoves, Bounds, Pvs
<1>3. (CHOOSE k \in Keys : TRUE) \in Keys
  BY DEF Parameters
<1>. QED
  BY <1>1, <1>2, <1>3 DEF Away, Nodes, Places

(* The slot that probe replaces exists. *)
LEMMA AgeRange ==
  ASSUME Parameters, Types, NEW i \in Slots
  PROVE  relative_age(entry[i]) \in 0..(Generations - 1)
<1>1. generation8 \in Int /\ entry[i].genBound8.gen \in Int
  BY DEF Types, Entries
<1>2. (generation8 - entry[i].genBound8.gen + Generations) \in Int
      /\ Generations \in Nat \ {0}
  BY <1>1 DEF Parameters
<1>. QED
  BY <1>2 DEF relative_age

LEMMA ReplacedSlot ==
  ASSUME Parameters, Types
  PROVE  Min({i \in Slots : Replaceable(i)}) \in Slots
<1>. DEFINE Shifted(i) == Worth(entry[i]) + 8 * Generations
            T == {Shifted(i) : i \in Slots}
<1>1. ASSUME NEW i \in Slots PROVE Worth(entry[i]) \in Int /\ Shifted(i) \in Nat
  <2>1. entry[i].depth8 \in Nat
    BY DEF Types, Entries
  <2>. QED
    BY <2>1, AgeRange DEF Worth, Parameters
<1>2. T \subseteq Nat /\ T # {}
  <2>1. 1 \in Slots
    BY DEF Parameters, Slots
  <2>. QED
    BY <1>1, <2>1
<1>3. PICK n \in T : \A y \in T : n <= y
  <2>. HIDE DEF T
  <2>. QED
    BY <1>2, NatMin
<1>4. PICK i \in Slots : n = Shifted(i)
  BY <1>3
<1>5. \A j \in Slots : Shifted(i) <= Shifted(j)
  BY <1>3, <1>4
<1>6. Replaceable(i)
  BY <1>1, <1>5 DEF Replaceable, Parameters
<1>7. DEFINE R == {j \in Slots : Replaceable(j)}
<1>8. \E x \in R : \A y \in R : x <= y
  <2>1. R \subseteq Nat /\ R # {}
    BY <1>6 DEF Slots
  <2>. QED
    BY <2>1, NatMin
<1>. QED
  BY <1>8 DEF Min
-----------------------------------------------------------------------------
(* Pending puts a node to work, or back to its node, and changes no other. *)
LEMMA PendingFacts ==
  ASSUME Parameters, Types, NEW t \in Thread, NEW stores \in Entries,
         NEW todo \in SUBSET (Fields \cup {"decide"})
  PROVE  LET p == Pending(t, stores, todo) IN
         /\ p \in [Thread -> Nodes]
         /\ \A u \in Thread \ {t} : p[u] = th[u]
         /\ p[t].at = (IF todo = {} THEN "node" ELSE "save") /\ p[t].todo = todo
         /\ p[t].stores = (IF todo = {} THEN Zero ELSE stores)
         /\ p[t].slot = th[t].slot /\ p[t].key = th[t].key
            /\ p[t].save = th[t].save
         /\ p[t].raced = th[t].raced
<1>. DEFINE p == Pending(t, stores, todo)
<1>1. th \in [Thread -> Nodes] /\ Zero \in Entries
  BY ZeroType DEF Types
<1>. DEFINE n == [th[t] EXCEPT !.at = IF todo = {} THEN "node" ELSE "save", !.todo = todo,
                              !.stores = IF todo = {} THEN Zero ELSE stores]
<1>2. n \in Nodes /\ n.at = (IF todo = {} THEN "node" ELSE "save")
      /\ n.todo = todo
      /\ n.stores = (IF todo = {} THEN Zero ELSE stores) /\ n.slot = th[t].slot
      /\ n.key = th[t].key /\ n.save = th[t].save /\ n.raced = th[t].raced
  BY <1>1 DEF Nodes, Places
<1>3. p = [th EXCEPT ![t] = n]
  BY <1>1 DEF Pending, Nodes
<1>. HIDE DEF n, p
<1>4. p \in [Thread -> Nodes] /\ p[t] = n /\ \A u \in Thread \ {t} : p[u] = th[u]
  BY <1>1, <1>2, <1>3
<1>. QED
  BY <1>2, <1>4 DEF p

(* What a node may save, or store, has the right type. *)
LEMMA SaveType ==
  ASSUME NEW r \in Results, NEW k \in Keys
  PROVE  [key |-> k, move |-> r.move, pv |-> r.pv, bound |-> r.bound,
          depth |-> r.depth, decisive |-> r.decisive] \in Saves
BY DEF Saves, Pick, SavedMoves, Pvs, Bounds

LEMMA LessType ==
  ASSUME NEW n \in Nat
  PROVE  Less(n, 1) \in Nat /\ Less(n, 1) <= n /\ (n = 0 => Less(n, 1) = 0)
BY DEF Less

(* What Decide makes of a node. *)
Decided(t) ==
  LET s == log[th[t].save]  e == entry[th[t].slot]
      move == IF NewMove(s, e) THEN {"move16"} ELSE {} IN
  \E stores \in Entries, todo \in SUBSET Fields :
    /\ th' = Pending(t, stores, todo)
    /\ Saved(stores)
    /\ \/ /\ stores = [key16 |-> Tag[s.key], depth8 |-> s.depth - DEPTH_NONE,
                       genBound8 |-> [gen |-> generation8, bound |-> s.bound, pv |-> s.pv],
                       move16 |-> s.move, value16 |-> th[t].save]
          /\ todo = (Fields \ {"move16"}) \cup move
       \/ /\ Tag[s.key] = e.key16
          /\ "depth8" \in todo => stores.depth8 = Less(e.depth8, 1)
          /\ stores.move16 = s.move /\ todo \subseteq {"depth8", "move16"}

LEMMA DecideFacts ==
  ASSUME Parameters, Types, WorkInv, SavedInv, NEW t \in Thread, Decide(t)
  PROVE  Decided(t)
<1>. DEFINE s == log[th[t].save]
            e == entry[th[t].slot]
            move == IF NewMove(s, e) THEN {"move16"} ELSE {}
            whole == [key16 |-> Tag[s.key], depth8 |-> s.depth - DEPTH_NONE,
                      genBound8 |-> [gen |-> generation8, bound |-> s.bound, pv |-> s.pv],
                      move16 |-> s.move, value16 |-> th[t].save]
            older == [Zero EXCEPT !.depth8 = Less(e.depth8, 1), !.move16 = s.move]
            moved == [Zero EXCEPT !.move16 = s.move]
<1>1. /\ th[t].slot \in Slots /\ e \in Entries /\ th[t].save \in DOMAIN log
      /\ DOMAIN log = 1..Len(log) /\ Len(log) \in Nat /\ s \in Saves /\ Saved(e)
  BY DEF Types, Nodes, WorkInv, Decide, SavedInv
<1>2. s.depth \in Int /\ s.depth - DEPTH_NONE \in Nat
  BY <1>1 DEF Saves, Pick, Parameters, DEPTH_NONE
<1>3. s.key \in Keys /\ s.move \in SavedMoves /\ s.bound \in Bounds /\ s.pv \in Pvs
  BY <1>1 DEF Saves, SavedMoves, Bounds, Pvs
<1>4. whole \in Entries /\ Saved(whole)
  <2>1. Tag[s.key] \in Tags /\ generation8 \in 0..(Generations - 1)
        /\ th[t].save \in Nat
    BY <1>1, <1>3 DEF Tags, Types
  <2>2. whole \in Entries
    BY <1>2, <1>3, <2>1 DEF Entries
  <2>3. Saved(whole)
    BY <1>1, <1>2 DEF Saved, NotDeeper
  <2>. QED
    BY <2>2, <2>3
<1>5. Less(e.depth8, 1) \in Nat /\ Less(e.depth8, 1) <= e.depth8
      /\ e.depth8 \in Nat
      /\ (e.depth8 = 0 => Less(e.depth8, 1) = 0)
  BY <1>1, LessType DEF Entries
<1>6. older \in Entries /\ older.depth8 = Less(e.depth8, 1)
      /\ older.move16 = s.move /\ Saved(older)
  <2>1. older \in Entries /\ older.depth8 = Less(e.depth8, 1)
        /\ older.value16 = 0 /\ older.move16 = s.move
    BY <1>3, <1>5, ZeroType DEF Entries, Zero
  <2>2. \A n \in DOMAIN log : log[n].depth \in Int
    <3>1. \A n \in DOMAIN log : log[n] \in Saves
      BY DEF Types
    <3>. QED
      BY <3>1 DEF Saves, Pick, Parameters
  <2>. QED
    BY <1>1, <1>5, <2>1, <2>2 DEF Saved, NotDeeper, DEPTH_NONE
<1>7. moved \in Entries /\ moved.depth8 = 0 /\ moved.move16 = s.move
      /\ Saved(moved)
  <2>1. moved \in Entries /\ moved.depth8 = 0 /\ moved.value16 = 0
        /\ moved.move16 = s.move
    BY <1>3, ZeroType DEF Entries, Zero
  <2>. QED
    BY <1>1, <2>1 DEF Saved, NotDeeper
<1>8. \/ Overwrites(s, e)
         /\ th' = Pending(t, whole, (Fields \ {"move16"}) \cup move)
      \/ ~Overwrites(s, e) /\ th' = Pending(t, older, {"depth8"} \cup move)
      \/ ~Overwrites(s, e) /\ th' = Pending(t, moved, move)
  BY DEF Decide
<1>9. ~Overwrites(s, e) => Tag[s.key] = e.key16
  BY DEF Overwrites
<1>10. move \subseteq {"move16"} /\ {"depth8", "move16"} \subseteq Fields
  BY FieldNames
<1>11. CASE Overwrites(s, e)
            /\ th' = Pending(t, whole, (Fields \ {"move16"}) \cup move)
  <2>. HIDE DEF move
  <2>. QED
    BY <1>4, <1>10, <1>11 DEF Decided, move
<1>12. CASE ~Overwrites(s, e) /\ th' = Pending(t, older, {"depth8"} \cup move)
  <2>1. {"depth8"} \cup move \subseteq {"depth8", "move16"} /\ {"depth8"}
        \cup move \subseteq Fields
    BY <1>10
  <2>. HIDE DEF older, move
  <2>. QED
    BY <1>6, <1>9, <1>12, <2>1 DEF Decided
<1>13. CASE ~Overwrites(s, e) /\ th' = Pending(t, moved, move)
  <2>1. "depth8" \notin move /\ move \subseteq {"depth8", "move16"}
        /\ move \subseteq Fields
    BY <1>10
  <2>. HIDE DEF moved, move
  <2>. QED
    BY <1>7, <1>9, <1>13, <2>1 DEF Decided
<1>. QED
  BY <1>8, <1>11, <1>12, <1>13

(* What penalize makes of a node. *)
LEMMA PenalizeFacts ==
  ASSUME Parameters, Types, SavedInv, NEW t \in Thread, penalize(t)
  PROVE  \E stores \in Entries :
           /\ th' = Pending(t, stores, {"depth8"})
           /\ stores.depth8 = Less(entry[th[t].slot].depth8, 1) /\ Saved(stores)
<1>. DEFINE e == entry[th[t].slot]
            older == [Zero EXCEPT !.depth8 = Less(e.depth8, 1)]
<1>1. e \in Entries /\ Saved(e) /\ Len(log) \in Nat
      /\ \A n \in DOMAIN log : log[n] \in Saves
  BY DEF Types, Nodes, SavedInv
<1>2. Less(e.depth8, 1) \in Nat /\ Less(e.depth8, 1) <= e.depth8
      /\ e.depth8 \in Nat
      /\ (e.depth8 = 0 => Less(e.depth8, 1) = 0)
  BY <1>1, LessType DEF Entries
<1>3. older \in Entries /\ older.depth8 = Less(e.depth8, 1) /\ older.value16 = 0
  BY <1>2, ZeroType DEF Entries, Zero
<1>4. \A n \in DOMAIN log : log[n].depth \in Int
  BY <1>1 DEF Saves, Pick, Parameters
<1>5. Saved(older)
  BY <1>1, <1>2, <1>3, <1>4 DEF Saved, NotDeeper, DEPTH_NONE
<1>6. th' = Pending(t, older, {"depth8"})
  BY DEF penalize
<1>. HIDE DEF older
<1>. QED
  BY <1>3, <1>5, <1>6

(* What Write makes of a node and of the log. *)
LEMMA WriteFacts ==
  ASSUME Parameters, Types, NEW t \in Thread, NEW r \in Results, Write(t, r)
  PROVE  /\ th' \in [Thread -> Nodes] /\ \A u \in Thread \ {t} : th'[u] = th[u]
         /\ th'[t].at = "save" /\ th'[t].todo = {"decide"}
            /\ th'[t].save = Len(log)'
         /\ th'[t].stores = Zero
         /\ log' \in Seq(Saves) /\ Len(log') = Len(log) + 1
            /\ DOMAIN log' = 1..(Len(log) + 1)
         /\ \A n \in DOMAIN log : n \in DOMAIN log' /\ log'[n] = log[n]
<1>. DEFINE p == Pending(t, Zero, {"decide"})
            new == [key |-> th[t].key, move |-> r.move, pv |-> r.pv, bound |-> r.bound,
                    depth |-> r.depth, decisive |-> r.decisive]
<1>1. p \in [Thread -> Nodes] /\ (\A u \in Thread \ {t} : p[u] = th[u])
      /\ p[t].at = "save" /\ p[t].todo = {"decide"} /\ p[t].stores = Zero
  BY PendingFacts, ZeroType
<1>2. th' = [p EXCEPT ![t].save = Len(log) + 1] /\ log' = Append(log, new)
  BY DEF Write
<1>3. Len(log) + 1 \in Nat /\ log \in Seq(Saves) /\ Len(log) \in Nat
  BY DEF Types
<1>4. new \in Saves
  <2>1. th[t].key \in Keys
    BY DEF Types, Nodes
  <2>. QED
    BY <2>1, SaveType
<1>. HIDE DEF new, p
<1>5. /\ th' \in [Thread -> Nodes] /\ \A u \in Thread \ {t} : th'[u] = th[u]
      /\ th'[t].at = "save" /\ th'[t].todo = {"decide"}
         /\ th'[t].save = Len(log) + 1
      /\ th'[t].stores = Zero
  <2>. DEFINE m == [p[t] EXCEPT !.save = Len(log) + 1]
  <2>1. p[t] \in Nodes
    BY <1>1
  <2>2. m \in Nodes /\ m.at = p[t].at /\ m.todo = p[t].todo /\ m.stores = p[t].stores
        /\ m.save = Len(log) + 1
    BY <1>3, <2>1 DEF Nodes
  <2>3. th' = [p EXCEPT ![t] = m]
    BY <1>2
  <2>. HIDE DEF m, Nodes
  <2>. QED
    BY <1>1, <2>2, <2>3
<1>6. /\ log' \in Seq(Saves) /\ Len(log') = Len(log) + 1
      /\ \A n \in DOMAIN log : n \in DOMAIN log' /\ log'[n] = log[n]
  BY <1>2, <1>3, <1>4
<1>. QED
  BY <1>3, <1>5, <1>6

(* What Store makes of the nodes and of the entry. *)
LEMMA StoreFacts ==
  ASSUME Parameters, Types, NEW t \in Thread, NEW f \in Fields, Store(t, f)
  PROVE  /\ th' \in [Thread -> Nodes] /\ entry' \in [Slots -> Entries]
         /\ \A u \in Thread \ {t} :
              /\ th'[u].at = th[u].at /\ th'[u].slot = th[u].slot
                 /\ th'[u].key = th[u].key
              /\ th'[u].todo = th[u].todo /\ th'[u].save = th[u].save
                 /\ th'[u].stores = th[u].stores
              /\ th[u].raced => th'[u].raced
              /\ th[u].at = "read" /\ th[u].slot = th[t].slot => th'[u].raced
         /\ th'[t].at = (IF th[t].todo \ {f} = {} THEN "node" ELSE "save")
         /\ th'[t].todo = th[t].todo \ {f} /\ th'[t].slot = th[t].slot
            /\ th'[t].save = th[t].save
         /\ th'[t].stores = (IF th[t].todo \ {f} = {} THEN Zero ELSE th[t].stores)
         /\ \A i \in Slots \ {th[t].slot} : entry'[i] = entry[i]
         /\ \A g \in Fields : entry'[th[t].slot][g]
              = IF g = f THEN th[t].stores[f] ELSE entry[th[t].slot][g]
<1>. DEFINE p == Pending(t, th[t].stores, th[t].todo \ {f})
<1>1. th[t] \in Nodes /\ th[t].stores \in Entries /\ th[t].slot \in Slots
      /\ th[t].todo \ {f} \in SUBSET (Fields \cup {"decide"})
         /\ entry \in [Slots -> Entries]
  BY DEF Types, Nodes
<1>2. /\ p \in [Thread -> Nodes] /\ \A u \in Thread \ {t} : p[u] = th[u]
      /\ p[t].at = (IF th[t].todo \ {f} = {} THEN "node" ELSE "save")
      /\ p[t].todo = th[t].todo \ {f}
      /\ p[t].stores = (IF th[t].todo \ {f} = {} THEN Zero ELSE th[t].stores)
      /\ p[t].slot = th[t].slot /\ p[t].save = th[t].save
  BY <1>1, PendingFacts
<1>3. th' = Disturbed(t, p)
  BY DEF Store
<1>. HIDE DEF p
<1>4. th'[t] = p[t] /\ th' \in [Thread -> Nodes]
  <2>1. ASSUME NEW n \in Nodes PROVE [n EXCEPT !.raced = TRUE] \in Nodes
    BY <2>1 DEF Nodes
  <2>2. \A u \in Thread : p[u] \in Nodes
    BY <1>2
  <2>. HIDE DEF Nodes
  <2>3. \A u \in Thread : (IF u # t /\ p[u].at = "read" /\ p[u].slot = p[t].slot
                           THEN [p[u] EXCEPT !.raced = TRUE] ELSE p[u]) \in Nodes
    BY <2>1, <2>2
  <2>. QED
    BY <1>3, <2>3 DEF Disturbed
<1>5. ASSUME NEW u \in Thread \ {t}
      PROVE  /\ th'[u].at = th[u].at /\ th'[u].slot = th[u].slot
                /\ th'[u].key = th[u].key
             /\ th'[u].todo = th[u].todo /\ th'[u].save = th[u].save
                /\ th'[u].stores = th[u].stores
             /\ th[u].raced => th'[u].raced
             /\ th[u].at = "read" /\ th[u].slot = th[t].slot => th'[u].raced
  <2>1. th'[u] = IF th[u].at = "read" /\ th[u].slot = th[t].slot
                 THEN [th[u] EXCEPT !.raced = TRUE] ELSE th[u]
    BY <1>2, <1>3 DEF Disturbed
  <2>2. th[u] \in Nodes
    BY DEF Types
  <2>. QED
    BY <2>1, <2>2 DEF Nodes
<1>6. entry' = [entry EXCEPT ![th[t].slot][f] = th[t].stores[f]]
  BY DEF Store
<1>7. /\ entry' \in [Slots -> Entries]
      /\ \A i \in Slots \ {th[t].slot} : entry'[i] = entry[i]
      /\ \A g \in Fields : entry'[th[t].slot][g]
              = IF g = f THEN th[t].stores[f] ELSE entry[th[t].slot][g]
  <2>1. CASE f = "key16"     BY <1>1, <1>6, <2>1, FieldNames DEF Entries
  <2>2. CASE f = "depth8"    BY <1>1, <1>6, <2>2, FieldNames DEF Entries
  <2>3. CASE f = "genBound8" BY <1>1, <1>6, <2>3, FieldNames DEF Entries
  <2>4. CASE f = "move16"    BY <1>1, <1>6, <2>4, FieldNames DEF Entries
  <2>5. CASE f = "value16"   BY <1>1, <1>6, <2>5, FieldNames DEF Entries
  <2>. QED
    BY <2>1, <2>2, <2>3, <2>4, <2>5, FieldNames
<1>. QED
  BY <1>2, <1>4, <1>5, <1>7

(* What the other actions make of a node. *)
Moving(t) == (\E k \in Keys : Probe(t, k)) \/ Match(t) \/ NoMatch(t) \/ Read(t)
\/ Leave(t)

LEMMA MoveFacts ==
  ASSUME Parameters, Types, WorkInv, NEW t \in Thread, Moving(t)
  PROVE  /\ th' \in [Thread -> Nodes] /\ \A u \in Thread \ {t} : th'[u] = th[u]
         /\ th[t].at # "save" /\ th'[t].at # "save" /\ th'[t].todo = {}
         /\ th'[t].stores = Zero \/ th'[t].stores = th[t].stores
         /\ th'[t].at = "read" => th'[t].raced
            \/ entry[th'[t].slot].key16 = Tag[th'[t].key]
         /\ UNCHANGED <<entry, generation8, log, raced>>
<1>1. /\ th \in [Thread -> Nodes] /\ th[t] \in Nodes
         /\ (th[t].at # "save" => th[t].todo = {})
      /\ Away \in Nodes /\ Zero \in Entries
  BY ZeroType DEF Types, WorkInv
<1>2. Away.at = "away" /\ Away.todo = {} /\ Away.stores = Zero
  BY DEF Away
<1>3. ASSUME NEW k \in Keys, Probe(t, k)
      PROVE th[t].at = "away" /\ th' = [th EXCEPT ![t] = [Away EXCEPT !.at = "scan", !.key = k]]
  BY <1>3 DEF Probe
<1>4. ASSUME NEW k \in Keys
      PROVE  /\ [Away EXCEPT !.at = "scan", !.key = k] \in Nodes
             /\ [Away EXCEPT !.at = "scan", !.key = k].at = "scan"
             /\ [Away EXCEPT !.at = "scan", !.key = k].todo = {}
             /\ [Away EXCEPT !.at = "scan", !.key = k].stores = Zero
  BY <1>1, <1>2 DEF Nodes, Places
<1>5. CASE \E k \in Keys : Probe(t, k)
  <2>1. PICK k \in Keys : Probe(t, k)
    BY <1>5
  <2>. DEFINE n == [Away EXCEPT !.at = "scan", !.key = k]
  <2>2. n \in Nodes /\ n.at = "scan" /\ n.todo = {} /\ n.stores = Zero
        /\ th' = [th EXCEPT ![t] = n]
        /\ th[t].at = "away"
    BY <1>3, <1>4, <2>1
  <2>3. UNCHANGED <<entry, generation8, log, raced>>
    BY <2>1 DEF Probe
  <2>. HIDE DEF n
  <2>. QED
    BY <1>1, <2>2, <2>3
<1>6. CASE Match(t)
  <2>1. /\ th' = [th EXCEPT ![t] = [th[t] EXCEPT !.at = "read", !.raced = Saving(th[t].slot) # {}]]
        /\ th[t].at = "scan" /\ Matches(t)
           /\ UNCHANGED <<entry, generation8, log, raced>>
    BY <1>1, <1>6 DEF Match, Nodes
  <2>. QED
    BY <1>1, <2>1 DEF Nodes, Places, Matches
<1>7. CASE NoMatch(t)
  <2>1. /\ th[t].at = "scan" /\ UNCHANGED <<entry, generation8, log, raced>>
        /\ \/ th[t].slot < ClusterSize
              /\ th' = [th EXCEPT ![t] = [th[t] EXCEPT !.slot = @ + 1]]
           \/ th' = [th EXCEPT ![t] = [th[t] EXCEPT !.at = "node",
                                               !.slot = Min({i \in Slots : Replaceable(i)})]]
    BY <1>1, <1>7 DEF NoMatch, Nodes
  <2>2. Min({i \in Slots : Replaceable(i)}) \in Slots
    BY ReplacedSlot
  <2>3. th[t].slot < ClusterSize => th[t].slot + 1 \in Slots
    BY <1>1 DEF Nodes, Slots, Parameters
  <2>4. ASSUME NEW n \in Nodes, n.at \in {"scan", "node"}, n.todo = {}, n.stores = th[t].stores,
               th' = [th EXCEPT ![t] = n]
        PROVE  /\ th' \in [Thread -> Nodes]
                  /\ \A u \in Thread \ {t} : th'[u] = th[u]
               /\ th'[t].at # "save" /\ th'[t].at # "read" /\ th'[t].todo = {}
               /\ th'[t].stores = th[t].stores
    BY <1>1, <2>4
  <2>5. CASE th[t].slot < ClusterSize
             /\ th' = [th EXCEPT ![t] = [th[t] EXCEPT !.slot = @ + 1]]
    <3>. DEFINE n == [th[t] EXCEPT !.slot = @ + 1]
    <3>1. n \in Nodes /\ n.at = "scan" /\ n.todo = {} /\ n.stores = th[t].stores
      BY <1>1, <2>1, <2>3, <2>5 DEF Nodes
    <3>2. th' = [th EXCEPT ![t] = n]
      BY <2>5
    <3>. HIDE DEF n
    <3>. QED
      BY <2>1, <2>4, <3>1, <3>2
  <2>6. CASE th' = [th EXCEPT ![t] = [th[t] EXCEPT !.at = "node",
                                               !.slot = Min({i \in Slots : Replaceable(i)})]]
    <3>. DEFINE m == Min({i \in Slots : Replaceable(i)})
                n == [th[t] EXCEPT !.at = "node", !.slot = m]
    <3>2. th' = [th EXCEPT ![t] = n] /\ m \in Slots
      BY <2>2, <2>6
    <3>. HIDE DEF m
    <3>1. n \in Nodes /\ n.at = "node" /\ n.todo = {} /\ n.stores = th[t].stores
      BY <1>1, <2>1, <3>2 DEF Nodes, Places
    <3>. HIDE DEF n
    <3>. QED
      BY <2>1, <2>4, <3>1, <3>2
  <2>. QED
    BY <2>1, <2>5, <2>6
<1>8. CASE Read(t)
  <2>. DEFINE h == entry[th[t].slot].depth8 # 0
              a == [th[t] EXCEPT !.at = "node"]
              b == [a EXCEPT !.hit = h]
              n == [b EXCEPT !.raced = FALSE]
  <2>1. /\ th' = [th EXCEPT ![t] = n]
        /\ th[t].at = "read" /\ UNCHANGED <<entry, generation8, log, raced>>
    <3>1. th' = [th EXCEPT ![t].at = "node", ![t].hit = h, ![t].raced = FALSE]
      BY <1>8 DEF Read
    <3>. HIDE DEF h
    <3>. QED
      BY <1>1, <1>8, <3>1 DEF Read
  <2>2. h \in BOOLEAN /\ "node" \in Places
    BY DEF Places
  <2>. HIDE DEF h
  <2>3. a \in Nodes /\ a.at = "node" /\ a.todo = th[t].todo /\ a.stores = th[t].stores
    BY <1>1, <2>2 DEF Nodes
  <2>. HIDE DEF a
  <2>4. b \in Nodes /\ b.at = a.at /\ b.todo = a.todo /\ b.stores = a.stores
    BY <2>2, <2>3 DEF Nodes
  <2>. HIDE DEF b
  <2>5. n \in Nodes /\ n.at = b.at /\ n.todo = b.todo /\ n.stores = b.stores
    BY <2>4 DEF Nodes
  <2>. HIDE DEF n, Nodes
  <2>. QED
    BY <1>1, <2>1, <2>3, <2>4, <2>5
<1>9. CASE Leave(t)
  BY <1>1, <1>2, <1>9 DEF Leave
<1>. QED
  BY <1>5, <1>6, <1>7, <1>8, <1>9 DEF Moving

-----------------------------------------------------------------------------
(* Every step preserves the types. *)
LEMMA StepTypes ==
  ASSUME Parameters, Types, WorkInv, SavedInv, [TTNext]_ttVars
  PROVE  Types'
<1>1. ASSUME NEW t \in Thread, Moving(t) PROVE Types'
  BY <1>1, MoveFacts DEF Types
<1>2. ASSUME NEW t \in Thread, penalize(t) PROVE Types'
  <2>1. UNCHANGED <<entry, generation8, log, raced>> /\ "depth8" \in Fields
    BY <1>2, FieldNames DEF penalize
  <2>2. th' \in [Thread -> Nodes]
    BY <1>2, <2>1, PenalizeFacts, PendingFacts
  <2>. QED
    BY <2>1, <2>2 DEF Types
<1>3. ASSUME NEW t \in Thread, Decide(t) PROVE Types'
  <2>1. UNCHANGED <<entry, generation8, log, raced>>
    BY <1>3 DEF Decide
  <2>2. th' \in [Thread -> Nodes]
    BY <1>3, DecideFacts, PendingFacts DEF Decided
  <2>. QED
    BY <2>1, <2>2 DEF Types
<1>4. ASSUME NEW t \in Thread, NEW f \in Fields, Store(t, f) PROVE Types'
  <2>1. UNCHANGED <<generation8, log>> /\ raced' \subseteq Slots
    BY <1>4 DEF Store, Types, Nodes
  <2>. QED
    BY <1>4, <2>1, StoreFacts DEF Types
<1>5. ASSUME NEW t \in Thread, NEW r \in Results, Write(t, r) PROVE Types'
  <2>1. UNCHANGED <<entry, generation8, raced>>
    BY <1>5 DEF Write
  <2>. QED
    BY <1>5, <2>1, WriteFacts DEF Types
<1>6. CASE new_search
  <2>1. (generation8 + 1) % Generations \in 0..(Generations - 1)
    BY DEF Types, Parameters
  <2>. QED
    BY <1>6, <2>1 DEF new_search, Types
<1>7. CASE clear
  <2>1. 0 \in 0..(Generations - 1)
    BY DEF Parameters
  <2>. QED
    BY <1>7, <2>1, ZeroType DEF clear, Types
<1>8. CASE UNCHANGED ttVars
  BY <1>8 DEF ttVars, Types
<1>. QED
  BY <1>1, <1>2, <1>3, <1>4, <1>5, <1>6, <1>7, <1>8 DEF TTNext, Moving

(* Who saves has something to do. *)
LEMMA StepWork ==
  ASSUME Parameters, Types, WorkInv, SavedInv, [TTNext]_ttVars
  PROVE  WorkInv'
<1>. DEFINE OK(u) == /\ th'[u].at = "save" <=> th'[u].todo # {}
                     /\ "decide" \in th'[u].todo => th'[u].todo = {"decide"}
                        /\ th'[u].save \in DOMAIN log'
<1>0. SUFFICES ASSUME NEW u \in Thread PROVE OK(u)
  BY DEF WorkInv
<1>a. (th[u].at = "save" <=> th[u].todo # {})
      /\ ("decide" \in th[u].todo => th[u].todo = {"decide"}
         /\ th[u].save \in DOMAIN log)
  BY DEF WorkInv
<1>b. "decide" \notin Fields
  BY FieldNames
<1>1. ASSUME NEW t \in Thread, Moving(t) PROVE OK(u)
  BY <1>1, <1>a, MoveFacts
<1>2. ASSUME NEW t \in Thread, penalize(t) PROVE OK(u)
  <2>1. UNCHANGED log /\ "depth8" \in Fields
    BY <1>2, FieldNames DEF penalize
  <2>. QED
    BY <1>2, <1>a, <1>b, <2>1, PenalizeFacts, PendingFacts
<1>3. ASSUME NEW t \in Thread, Decide(t) PROVE OK(u)
  <2>1. UNCHANGED log
    BY <1>3 DEF Decide
  <2>2. PICK stores \in Entries, todo \in SUBSET Fields : th' = Pending(t, stores, todo)
    BY <1>3, DecideFacts DEF Decided
  <2>. QED
    BY <1>a, <1>b, <2>1, <2>2, PendingFacts
<1>4. ASSUME NEW t \in Thread, NEW f \in Fields, Store(t, f) PROVE OK(u)
  <2>1. UNCHANGED log
    BY <1>4 DEF Store
  <2>2. f \in th[t].todo /\ "decide" \notin th[t].todo
    BY <1>4, <1>b DEF Store, WorkInv
  <2>. QED
    BY <1>4, <1>a, <1>b, <2>1, <2>2, StoreFacts
<1>5. ASSUME NEW t \in Thread, NEW r \in Results, Write(t, r) PROVE OK(u)
  <2>1. Len(log') \in DOMAIN log'
    BY <1>5, WriteFacts DEF Types
  <2>. QED
    BY <1>5, <1>a, <1>b, <2>1, WriteFacts
<1>6. CASE new_search \/ clear \/ UNCHANGED ttVars
  BY <1>6, <1>a DEF new_search, clear, ttVars
<1>. QED
  BY <1>1, <1>2, <1>3, <1>4, <1>5, <1>6 DEF TTNext, Moving
(* What was saved stays so: the log only grows. *)
LogGrows ==
  /\ Len(log) \in Nat /\ Len(log') \in Nat /\ Len(log) <= Len(log')
  /\ \A n \in DOMAIN log : n \in DOMAIN log' /\ log'[n] = log[n]

LEMMA LogStep ==
  ASSUME Parameters, Types, [TTNext]_ttVars
  PROVE  LogGrows
<1>0. log \in Seq(Saves) /\ Len(log) \in Nat
  BY DEF Types
<1>1. CASE UNCHANGED log
  BY <1>0, <1>1 DEF LogGrows
<1>2. ASSUME NEW t \in Thread, NEW r \in Results, Write(t, r) PROVE LogGrows
  BY <1>0, <1>2, WriteFacts DEF LogGrows
<1>. QED
  BY <1>1, <1>2 DEF TTNext, Probe, Match, NoMatch, Read, Leave, penalize, Decide, Store,
                    new_search, clear, ttVars

LEMMA SavedKept ==
  ASSUME Types, LogGrows, NEW e \in Entries, Saved(e)
  PROVE  e.value16 \in 0..Len(log')
         /\ (e.depth8 = 0
            \/ \E n \in DOMAIN log' : e.depth8 <= log'[n].depth - DEPTH_NONE)
BY DEF Saved, NotDeeper, LogGrows

(* Entries and stores are never deeper than what was saved. *)
LEMMA StepSaved ==
  ASSUME Parameters, Types, WorkInv, SavedInv, [TTNext]_ttVars
  PROVE  SavedInv'
<1>. DEFINE OK(e) == e.value16 \in 0..Len(log')
               /\ (e.depth8 = 0
                  \/ \E n \in DOMAIN log' : e.depth8 <= log'[n].depth - DEPTH_NONE)
<1>0. SUFFICES (\A i \in Slots : OK(entry'[i]))
               /\ (\A u \in Thread : OK(th'[u].stores))
  BY DEF SavedInv, Saved, NotDeeper
<1>a. LogGrows
  BY LogStep
<1>b. ASSUME NEW e \in Entries, Saved(e) PROVE OK(e)
  BY <1>a, <1>b, SavedKept
<1>c. \A i \in Slots : entry[i] \in Entries /\ OK(entry[i]) /\ Saved(entry[i])
  BY <1>b DEF SavedInv, Types
<1>d. \A u \in Thread : th[u].stores \in Entries /\ OK(th[u].stores)
      /\ Saved(th[u].stores)
  BY <1>b DEF SavedInv, Types, Nodes
<1>e. OK(Zero) /\ Zero \in Entries
  BY <1>a, ZeroType DEF Zero, LogGrows
<1>. HIDE DEF OK
<1>1. ASSUME NEW t \in Thread, Moving(t)
      PROVE  (\A i \in Slots : OK(entry'[i]))
             /\ (\A u \in Thread : OK(th'[u].stores))
  BY <1>1, <1>c, <1>d, <1>e, MoveFacts
<1>2. ASSUME NEW t \in Thread, penalize(t)
      PROVE  (\A i \in Slots : OK(entry'[i]))
             /\ (\A u \in Thread : OK(th'[u].stores))
  <2>1. UNCHANGED entry /\ {"depth8"} \in SUBSET (Fields \cup {"decide"})
    BY <1>2, FieldNames DEF penalize
  <2>2. PICK stores \in Entries : th' = Pending(t, stores, {"depth8"})
        /\ Saved(stores)
    BY <1>2, PenalizeFacts
  <2>3. OK(stores)
    BY <1>b, <2>2
  <2>4. th'[t].stores = stores /\ \A u \in Thread \ {t} : th'[u] = th[u]
    BY <2>1, <2>2, PendingFacts
  <2>. QED
    BY <1>c, <1>d, <2>1, <2>3, <2>4
<1>3. ASSUME NEW t \in Thread, Decide(t)
      PROVE  (\A i \in Slots : OK(entry'[i]))
             /\ (\A u \in Thread : OK(th'[u].stores))
  <2>1. UNCHANGED entry
    BY <1>3 DEF Decide
  <2>2. PICK stores \in Entries, todo \in SUBSET Fields :
          th' = Pending(t, stores, todo) /\ Saved(stores)
    BY <1>3, DecideFacts DEF Decided
  <2>3. OK(stores)
    BY <1>b, <2>2
  <2>4. (th'[t].stores = stores \/ th'[t].stores = Zero)
        /\ \A u \in Thread \ {t} : th'[u] = th[u]
    BY <2>2, PendingFacts
  <2>. QED
    BY <1>c, <1>d, <1>e, <2>1, <2>3, <2>4
<1>4. ASSUME NEW t \in Thread, NEW f \in Fields, Store(t, f)
      PROVE  (\A i \in Slots : OK(entry'[i]))
             /\ (\A u \in Thread : OK(th'[u].stores))
  <2>1. \A u \in Thread : th'[u].stores = th[u].stores \/ th'[u].stores = Zero
    BY <1>4, StoreFacts
  <2>2. ASSUME NEW i \in Slots PROVE OK(entry'[i])
    <3>1. CASE i # th[t].slot
      BY <1>4, <1>c, <3>1, StoreFacts
    <3>2. CASE i = th[t].slot
      <4>1. OK(entry[i]) /\ OK(th[t].stores)
        BY <1>c, <1>d
      <4>2. entry'[i].value16 \in {entry[i].value16, th[t].stores.value16}
            /\ entry'[i].depth8 \in {entry[i].depth8, th[t].stores.depth8}
        BY <1>4, <3>2, StoreFacts, FieldNames
      <4>. QED
        BY <4>1, <4>2 DEF OK
    <3>. QED
      BY <3>1, <3>2
  <2>. QED
    BY <1>d, <1>e, <2>1, <2>2
<1>5. ASSUME NEW t \in Thread, NEW r \in Results, Write(t, r)
      PROVE  (\A i \in Slots : OK(entry'[i]))
             /\ (\A u \in Thread : OK(th'[u].stores))
  <2>1. UNCHANGED entry
    BY <1>5 DEF Write
  <2>. QED
    BY <1>5, <1>c, <1>d, <1>e, <2>1, WriteFacts
<1>6. CASE new_search \/ clear \/ UNCHANGED ttVars
  BY <1>6, <1>c, <1>d, <1>e DEF new_search, clear, ttVars
<1>. QED
  BY <1>1, <1>2, <1>3, <1>4, <1>5, <1>6 DEF TTNext, Moving

(* Who has stored into a slot has disturbed its readers. *)
LEMMA StepRead ==
  ASSUME Parameters, Types, WorkInv, SavedInv, ReadInv, [TTNext]_ttVars
  PROVE  ReadInv'
<1>. DEFINE OK(u) == th'[u].at = "read" /\ ~th'[u].raced
                       => entry'[th'[u].slot].key16 = Tag[th'[u].key]
<1>0. SUFFICES ASSUME NEW u \in Thread PROVE OK(u)
  BY DEF ReadInv
<1>a. th[u].at = "read" /\ ~th[u].raced
      => entry[th[u].slot].key16 = Tag[th[u].key]
  BY DEF ReadInv
<1>1. ASSUME NEW t \in Thread, Moving(t) PROVE OK(u)
  BY <1>1, <1>a, MoveFacts
<1>2. ASSUME NEW t \in Thread, penalize(t) PROVE OK(u)
  <2>1. UNCHANGED entry /\ {"depth8"} \in SUBSET (Fields \cup {"decide"})
    BY <1>2, FieldNames DEF penalize
  <2>2. th'[t].at # "read" /\ \A v \in Thread \ {t} : th'[v] = th[v]
    BY <1>2, <2>1, PenalizeFacts, PendingFacts
  <2>. QED
    BY <1>a, <2>1, <2>2
<1>3. ASSUME NEW t \in Thread, Decide(t) PROVE OK(u)
  <2>1. UNCHANGED entry
    BY <1>3 DEF Decide
  <2>2. PICK stores \in Entries, todo \in SUBSET Fields : th' = Pending(t, stores, todo)
    BY <1>3, DecideFacts DEF Decided
  <2>3. th'[t].at # "read" /\ \A v \in Thread \ {t} : th'[v] = th[v]
    BY <2>2, PendingFacts
  <2>. QED
    BY <1>a, <2>1, <2>3
<1>4. ASSUME NEW t \in Thread, NEW f \in Fields, Store(t, f) PROVE OK(u)
  <2>0. th[u].slot \in Slots
    BY DEF Types, Nodes
  <2>1. CASE u = t
    BY <1>4, <2>1, StoreFacts
  <2>2. CASE u # t /\ th[u].slot = th[t].slot
    BY <1>4, <2>2, StoreFacts
  <2>3. CASE u # t /\ th[u].slot # th[t].slot
    BY <1>4, <1>a, <2>0, <2>3, StoreFacts
  <2>. QED
    BY <2>1, <2>2, <2>3
<1>5. ASSUME NEW t \in Thread, NEW r \in Results, Write(t, r) PROVE OK(u)
  <2>1. UNCHANGED entry
    BY <1>5 DEF Write
  <2>. QED
    BY <1>5, <1>a, <2>1, WriteFacts
<1>6. CASE new_search \/ clear \/ UNCHANGED ttVars
  BY <1>6, <1>a DEF new_search, clear, ttVars, Quiet
<1>. QED
  BY <1>1, <1>2, <1>3, <1>4, <1>5, <1>6 DEF TTNext, Moving
-----------------------------------------------------------------------------
(* An entry that is whole stays so while the log grows. *)
WholeNow(e) ==
  /\ e.move16 # None => \E n \in DOMAIN log' : Tag[log'[n].key] = e.key16
     /\ log'[n].move = e.move16
  /\ e.depth8 # 0 =>
       /\ e.value16 \in DOMAIN log' /\ Tag[log'[e.value16].key] = e.key16
       /\ e.genBound8.bound = log'[e.value16].bound
       /\ e.depth8 <= log'[e.value16].depth - DEPTH_NONE

LEMMA WholeKept ==
  ASSUME LogGrows, NEW e, Whole(e)
  PROVE  WholeNow(e)
BY DEF Whole, WholeNow, LogGrows

(* Only the fields count. *)
LEMMA WholeFields ==
  ASSUME NEW d, NEW e, \A f \in Fields : d[f] = e[f], WholeNow(e)
  PROVE  WholeNow(d)
<1>1. d["key16"] = e["key16"] /\ d["depth8"] = e["depth8"]
      /\ d["genBound8"] = e["genBound8"]
      /\ d["move16"] = e["move16"] /\ d["value16"] = e["value16"]
  BY FieldNames
<1>. QED
  BY <1>1 DEF WholeNow

LEMMA ResultFields ==
  ASSUME NEW t \in Thread, NEW e, NEW f \in Fields
  PROVE  Result(t, e)[f] = Then(t, e, f)
<1>1. CASE f = "key16"     BY <1>1 DEF Result
<1>2. CASE f = "depth8"    BY <1>2 DEF Result
<1>3. CASE f = "genBound8" BY <1>3 DEF Result
<1>4. CASE f = "move16"    BY <1>4 DEF Result
<1>5. CASE f = "value16"   BY <1>5 DEF Result
<1>. QED
  BY <1>1, <1>2, <1>3, <1>4, <1>5, FieldNames

(* What WholeInv says of a slot, now and after the step. *)
WholeAt(i) ==
  /\ (\A t \in Thread : ~Writes(t, i)) => Whole(entry[i])
  /\ \A t \in Thread : Writes(t, i) /\ (\A u \in Thread \ {t} : ~Writes(u, i))
       => Whole(Result(t, entry[i]))
WritesNow(t, i) == th'[t].at = "save" /\ th'[t].slot = i
/\ "decide" \notin th'[t].todo
ResultNow(t, i) == [f \in Fields |-> IF f \in th'[t].todo THEN th'[t].stores[f] ELSE entry'[i][f]]
WholeAtNow(i) ==
  /\ (\A t \in Thread : ~WritesNow(t, i)) => WholeNow(entry'[i])
  /\ \A t \in Thread : WritesNow(t, i)
     /\ (\A u \in Thread \ {t} : ~WritesNow(u, i))
       => WholeNow(ResultNow(t, i))

LEMMA WholeAtPrimed ==
  ASSUME NEW i \in Slots, WholeAtNow(i)
  PROVE  WholeAt(i)'
<1>1. ASSUME NEW t \in Thread PROVE Writes(t, i)' <=> WritesNow(t, i)
  BY DEF Writes, WritesNow
<1>2. ASSUME NEW t \in Thread, WholeNow(ResultNow(t, i))
      PROVE Whole(Result(t, entry[i]))'
  <2>1. Fields = {"key16", "depth8", "genBound8", "move16", "value16"}
    BY FieldNames
  <2>2. ResultNow(t, i).key16 = Then(t, entry[i], "key16")'
        /\ ResultNow(t, i).depth8 = Then(t, entry[i], "depth8")'
        /\ ResultNow(t, i).genBound8 = Then(t, entry[i], "genBound8")'
        /\ ResultNow(t, i).move16 = Then(t, entry[i], "move16")'
        /\ ResultNow(t, i).value16 = Then(t, entry[i], "value16")'
    BY <2>1 DEF ResultNow, Then
  <2>. HIDE DEF ResultNow
  <2>. QED
    BY <1>2, <2>2 DEF WholeNow, Whole, Result
<1>3. WholeNow(entry'[i]) <=> Whole(entry[i])'
  BY DEF WholeNow, Whole
<1>. QED
  BY <1>1, <1>2, <1>3 DEF WholeAt, WholeAtNow

(* Where nothing was stored and nobody began or ended to write, nothing    *)
(* is different.                                                           *)
LEMMA WholeSame ==
  ASSUME LogGrows, NEW i \in Slots, WholeAt(i), entry'[i] = entry[i],
         \A u \in Thread : \/ ~Writes(u, i) /\ ~WritesNow(u, i)
                           \/ /\ Writes(u, i) <=> WritesNow(u, i)
                              /\ th'[u].todo = th[u].todo
                                 /\ th'[u].stores = th[u].stores
  PROVE  WholeAtNow(i)
<1>1. \A u \in Thread : Writes(u, i) <=> WritesNow(u, i)
  OBVIOUS
<1>2. ASSUME \A t \in Thread : ~WritesNow(t, i) PROVE WholeNow(entry'[i])
  BY <1>1, <1>2, WholeKept DEF WholeAt
<1>3. ASSUME NEW t \in Thread, WritesNow(t, i), \A u \in Thread \ {t} : ~WritesNow(u, i)
      PROVE  WholeNow(ResultNow(t, i))
  <2>1. Whole(Result(t, entry[i]))
    BY <1>1, <1>3 DEF WholeAt
  <2>2. WholeNow(Result(t, entry[i]))
    BY <2>1, WholeKept
  <2>3. th'[t].todo = th[t].todo /\ th'[t].stores = th[t].stores
    BY <1>3
  <2>4. \A f \in Fields : ResultNow(t, i)[f] = Result(t, entry[i])[f]
    BY <2>3, ResultFields DEF ResultNow, Then
  <2>. QED
    BY <2>2, <2>4, WholeFields
<1>. QED
  BY <1>2, <1>3 DEF WholeAtNow

(* A node that has found nobody writing to its entry makes it whole again, *)
(* once all its stores are done.                                           *)
LEMMA WholeDecided ==
  ASSUME Parameters, Types, WorkInv, SavedInv, LogGrows, NEW t \in Thread, Decide(t) \/ penalize(t),
         Whole(entry[th[t].slot])
  PROVE  WholeNow(ResultNow(t, th[t].slot))
<1>. DEFINE e == entry[th[t].slot]
            d == ResultNow(t, th[t].slot)
<1>0. SUFFICES WholeNow(d)
  OBVIOUS
<1>1. UNCHANGED <<entry, log>> /\ e \in Entries
      /\ \A n \in DOMAIN log : log[n] \in Saves
  BY DEF Decide, penalize, Types, Nodes
<1>2. /\ d.key16 = (IF "key16" \in th'[t].todo THEN th'[t].stores.key16 ELSE e.key16)
      /\ d.depth8 = (IF "depth8" \in th'[t].todo THEN th'[t].stores.depth8 ELSE e.depth8)
      /\ d.genBound8 = (IF "genBound8" \in th'[t].todo THEN th'[t].stores.genBound8 ELSE e.genBound8)
      /\ d.move16 = (IF "move16" \in th'[t].todo THEN th'[t].stores.move16 ELSE e.move16)
      /\ d.value16 = (IF "value16" \in th'[t].todo THEN th'[t].stores.value16 ELSE e.value16)
  BY <1>1, FieldNames DEF ResultNow
<1>3. /\ e.move16 # None => \E n \in DOMAIN log : Tag[log[n].key] = e.key16
         /\ log[n].move = e.move16
      /\ e.depth8 # 0 =>
           /\ e.value16 \in DOMAIN log /\ Tag[log[e.value16].key] = e.key16
           /\ e.genBound8.bound = log[e.value16].bound
           /\ e.depth8 <= log[e.value16].depth - DEPTH_NONE
  BY DEF Whole
<1>4. e.depth8 \in Nat /\ Less(e.depth8, 1) \in Nat
      /\ Less(e.depth8, 1) <= e.depth8
      /\ (e.depth8 = 0 => Less(e.depth8, 1) = 0)
  BY <1>1, LessType DEF Entries
<1>. DEFINE Deep(n) == n # 0 =>
               /\ e.value16 \in DOMAIN log /\ Tag[log[e.value16].key] = e.key16
               /\ e.genBound8.bound = log[e.value16].bound
               /\ n <= log[e.value16].depth - DEPTH_NONE
<1>5. Deep(Less(e.depth8, 1)) /\ Deep(e.depth8)
  <2>1. \A n \in DOMAIN log : log[n].depth \in Int
    BY <1>1 DEF Saves, Pick, Parameters
  <2>2. \A n \in Nat, x, y \in Int : n <= x /\ x <= y - DEPTH_NONE => n <= y - DEPTH_NONE
    BY DEF DEPTH_NONE
  <2>3. ASSUME NEW n \in Nat, n <= e.depth8, n # 0 => e.depth8 # 0 PROVE Deep(n)
    <3>. HIDE DEF e
    <3>. QED
      BY <1>3, <1>4, <2>1, <2>2, <2>3
  <2>. HIDE DEF e, Deep
  <2>4. Deep(Less(e.depth8, 1))
    BY <1>4, <2>3
  <2>5. Deep(e.depth8)
    BY <1>4, <2>3
  <2>. QED
    BY <2>4, <2>5
<1>6. ASSUME d.key16 = e.key16, d.genBound8 = e.genBound8, d.value16 = e.value16,
             d.depth8 = e.depth8 \/ d.depth8 = Less(e.depth8, 1),
             d.move16 # None => \E n \in DOMAIN log : Tag[log[n].key] = e.key16
             /\ log[n].move = d.move16
      PROVE  WholeNow(d)
  <2>1. Deep(d.depth8)
    BY <1>5, <1>6
  <2>2. log' = log
    BY <1>1
  <2>. HIDE DEF d, e
  <2>. QED
    BY <1>6, <2>1, <2>2 DEF WholeNow
<1>7. CASE penalize(t)
  <2>1. {"depth8"} \in SUBSET (Fields \cup {"decide"})
    BY FieldNames
  <2>2. th'[t].todo = {"depth8"} /\ th'[t].stores.depth8 = Less(e.depth8, 1)
    BY <1>7, <2>1, PenalizeFacts, PendingFacts
  <2>3. d.key16 = e.key16 /\ d.genBound8 = e.genBound8 /\ d.value16 = e.value16
        /\ d.depth8 = Less(e.depth8, 1) /\ d.move16 = e.move16
    BY <1>2, <2>2
  <2>4. d.move16 # None => \E n \in DOMAIN log : Tag[log[n].key] = e.key16
        /\ log[n].move = d.move16
    <3>. HIDE DEF d, e
    <3>. QED
      BY <1>3, <2>3
  <2>. HIDE DEF d, e
  <2>. QED
    BY <1>6, <2>3, <2>4, Zenon
<1>8. CASE Decide(t)
  <2>. DEFINE s == log[th[t].save]
              move == IF NewMove(s, e) THEN {"move16"} ELSE {}
              whole == [key16 |-> Tag[s.key], depth8 |-> s.depth - DEPTH_NONE,
                        genBound8 |-> [gen |-> generation8, bound |-> s.bound, pv |-> s.pv],
                        move16 |-> s.move, value16 |-> th[t].save]
  <2>1. PICK stores \in Entries, todo \in SUBSET Fields :
          /\ th' = Pending(t, stores, todo)
          /\ \/ stores = whole /\ todo = (Fields \ {"move16"}) \cup move
             \/ /\ Tag[s.key] = e.key16
                /\ "depth8" \in todo => stores.depth8 = Less(e.depth8, 1)
                /\ stores.move16 = s.move /\ todo \subseteq {"depth8", "move16"}
    BY <1>8, DecideFacts DEF Decided
  <2>2. th'[t].todo = todo /\ (todo # {} => th'[t].stores = stores)
    BY <2>1, PendingFacts
  <2>3. th[t].save \in DOMAIN log
    BY <1>8 DEF Decide, WorkInv
  <2>4. "move16" \notin move => Tag[s.key] = e.key16
    BY DEF NewMove
  <2>5. CASE stores = whole /\ todo = (Fields \ {"move16"}) \cup move
    <3>1. /\ d.key16 = Tag[s.key] /\ d.depth8 = s.depth - DEPTH_NONE
             /\ d.genBound8.bound = s.bound
          /\ d.value16 = th[t].save
          /\ d.move16 = IF "move16" \in move THEN s.move ELSE e.move16
      <4>1. {"key16", "depth8", "genBound8", "value16"} \subseteq todo
            /\ ("move16" \in todo <=> "move16" \in move)
        BY <2>5, FieldNames
      <4>. HIDE DEF d, e, move, s
      <4>. QED
        BY <1>2, <2>2, <2>5, <4>1
    <3>2. s.depth - DEPTH_NONE <= s.depth - DEPTH_NONE /\ s = log[th[t].save]
      BY <1>1, <2>3 DEF Saves, Pick, Parameters, DEPTH_NONE
    <3>3. d.move16 # None =>
            \E n \in DOMAIN log : Tag[log[n].key] = d.key16
            /\ log[n].move = d.move16
      <4>1. CASE "move16" \in move
        BY <2>3, <3>1, <4>1
      <4>2. CASE "move16" \notin move
        BY <1>3, <2>4, <3>1, <4>2
      <4>. QED
        BY <4>1, <4>2
    <3>4. log' = log /\ d.value16 \in DOMAIN log
          /\ Tag[log[d.value16].key] = d.key16
          /\ d.genBound8.bound = log[d.value16].bound
          /\ d.depth8 <= log[d.value16].depth - DEPTH_NONE
      <4>. HIDE DEF d
      <4>. QED
        BY <1>1, <2>3, <3>1, <3>2
    <3>. HIDE DEF d
    <3>. QED
      BY <3>3, <3>4 DEF WholeNow
  <2>6. CASE /\ Tag[s.key] = e.key16
             /\ "depth8" \in todo => stores.depth8 = Less(e.depth8, 1)
             /\ stores.move16 = s.move /\ todo \subseteq {"depth8", "move16"}
    <3>1. /\ d.key16 = e.key16 /\ d.genBound8 = e.genBound8
             /\ d.value16 = e.value16
          /\ d.depth8 = e.depth8 \/ d.depth8 = Less(e.depth8, 1)
          /\ d.move16 = e.move16 \/ d.move16 = s.move
      <4>1. "key16" \notin todo /\ "genBound8" \notin todo
            /\ "value16" \notin todo
        BY <2>6
      <4>. HIDE DEF d, e, s
      <4>. QED
        BY <1>2, <2>2, <2>6, <4>1
    <3>2. d.move16 # None => \E n \in DOMAIN log : Tag[log[n].key] = e.key16
          /\ log[n].move = d.move16
      <4>. HIDE DEF d, e
      <4>. QED
        BY <1>3, <2>3, <2>6, <3>1
    <3>. HIDE DEF d, e
    <3>. QED
      BY <1>6, <3>1, <3>2, Zenon
  <2>. QED
    BY <2>1, <2>5, <2>6
<1>. QED
  BY <1>7, <1>8

(* The last of a node's stores leaves its entry as it was to be; the ones  *)
(* before it change nothing of that.                                       *)
LEMMA WholeStored ==
  ASSUME Parameters, Types, WorkInv, LogGrows, NEW t \in Thread, NEW f \in Fields, Store(t, f),
         \A u \in Thread \ {t} : ~Writes(u, th[t].slot), WholeAt(th[t].slot)
  PROVE  WholeAtNow(th[t].slot)
<1>. DEFINE i == th[t].slot
<1>1. f \in th[t].todo /\ "decide" \notin th[t].todo /\ th[t].at = "save"
  BY FieldNames DEF Store, WorkInv
<1>2. Writes(t, i)
  BY <1>1 DEF Writes
<1>3. WholeNow(Result(t, entry[i]))
  BY <1>2, WholeKept DEF WholeAt
<1>4. \A u \in Thread \ {t} : ~WritesNow(u, i)
  BY StoreFacts DEF Writes, WritesNow
<1>5. \A g \in Fields : entry'[i][g] = IF g = f THEN th[t].stores[f] ELSE entry[i][g]
  BY StoreFacts
<1>6. ASSUME ~WritesNow(t, i) PROVE WholeNow(entry'[i])
  <2>1. th[t].todo = {f}
    BY <1>1, <1>6, StoreFacts DEF WritesNow
  <2>2. \A g \in Fields : entry'[i][g] = Result(t, entry[i])[g]
    BY <1>5, <2>1, ResultFields DEF Then
  <2>. QED
    BY <1>3, <2>2, WholeFields
<1>7. ASSUME WritesNow(t, i) PROVE WholeNow(ResultNow(t, i))
  <2>1. th'[t].todo = th[t].todo \ {f} /\ th'[t].stores = th[t].stores
    BY <1>7, StoreFacts DEF WritesNow
  <2>2. \A g \in Fields : ResultNow(t, i)[g] = Result(t, entry[i])[g]
    <3>1. \A g \in Fields :
            ResultNow(t, i)[g] = IF g \in th'[t].todo THEN th'[t].stores[g] ELSE entry'[i][g]
      BY DEF ResultNow
    <3>. QED
      BY <1>1, <1>5, <2>1, <3>1, ResultFields DEF Then
  <2>. QED
    BY <1>3, <2>2, WholeFields
<1>. QED
  BY <1>2, <1>4, <1>6, <1>7 DEF WholeAtNow

LEMMA StepWhole ==
  ASSUME Parameters, Types, WorkInv, SavedInv, WholeInv, [TTNext]_ttVars
  PROVE  WholeInv'
<1>0. SUFFICES ASSUME NEW i \in Slots, i \notin raced' PROVE WholeAtNow(i)
  BY WholeAtPrimed DEF WholeInv, WholeAt
<1>a. LogGrows
  BY LogStep
<1>b. i \notin raced => WholeAt(i)
  BY DEF WholeInv, WholeAt
<1>1. ASSUME NEW t \in Thread, Moving(t) PROVE WholeAtNow(i)
  <2>1. UNCHANGED <<entry, raced>> /\ ~Writes(t, i) /\ ~WritesNow(t, i)
        /\ \A u \in Thread \ {t} : th'[u] = th[u]
    BY <1>1, MoveFacts DEF Writes, WritesNow
  <2>2. \A u \in Thread \ {t} : Writes(u, i) <=> WritesNow(u, i)
    BY <2>1 DEF Writes, WritesNow
  <2>. QED
    BY <1>0, <1>a, <1>b, <2>1, <2>2, WholeSame
<1>2. ASSUME NEW t \in Thread, Decide(t) \/ penalize(t) PROVE WholeAtNow(i)
  <2>1. UNCHANGED <<entry, raced>> /\ i \notin raced
    BY <1>0, <1>2 DEF Decide, penalize
  <2>2. /\ \A u \in Thread \ {t} : th'[u] = th[u]
           /\ (Writes(u, i) <=> WritesNow(u, i))
        /\ th'[t].slot = th[t].slot
    <3>1. {"depth8"} \in SUBSET (Fields \cup {"decide"})
      BY FieldNames
    <3>2. (\A u \in Thread \ {t} : th'[u] = th[u]) /\ th'[t].slot = th[t].slot
      <4>1. CASE penalize(t)
        BY <3>1, <4>1, PenalizeFacts, PendingFacts
      <4>2. CASE Decide(t)
        BY <4>2, DecideFacts, PendingFacts DEF Decided
      <4>. QED
        BY <1>2, <4>1, <4>2
    <3>. QED
      BY <3>2 DEF Writes, WritesNow
  <2>3. ~Writes(t, i)
    BY <1>2 DEF Decide, penalize, Writes
  <2>4. CASE ~WritesNow(t, i)
    BY <1>a, <1>b, <2>1, <2>2, <2>3, <2>4, WholeSame
  <2>5. CASE WritesNow(t, i)
    <3>1. i = th[t].slot
      BY <2>2, <2>5 DEF WritesNow
    <3>2. ASSUME \A u \in Thread \ {t} : ~WritesNow(u, i)
          PROVE WholeNow(ResultNow(t, i))
      <4>1. Whole(entry[i])
        BY <1>b, <2>1, <2>2, <2>3, <3>2 DEF WholeAt
      <4>. QED
        BY <1>2, <1>a, <3>1, <4>1, WholeDecided
    <3>. QED
      BY <2>5, <3>2 DEF WholeAtNow
  <2>. QED
    BY <2>4, <2>5
<1>3. ASSUME NEW t \in Thread, NEW f \in Fields, Store(t, f) PROVE WholeAtNow(i)
  <2>1. raced' = raced
        \cup (IF Saving(th[t].slot) = {t} THEN {} ELSE {th[t].slot})
    BY <1>3 DEF Store
  <2>2. CASE i = th[t].slot
    <3>1. Saving(i) = {t} /\ i \notin raced
      BY <1>0, <2>1, <2>2
    <3>2. \A u \in Thread \ {t} : ~Writes(u, i)
      BY <3>1 DEF Saving, Writes
    <3>. QED
      BY <1>3, <1>a, <1>b, <2>2, <3>1, <3>2, WholeStored
  <2>3. CASE i # th[t].slot
    <3>1. i \notin raced /\ entry'[i] = entry[i] /\ ~Writes(t, i)
          /\ ~WritesNow(t, i)
      BY <1>0, <1>3, <2>1, <2>3, StoreFacts DEF Writes, WritesNow
    <3>2. \A u \in Thread \ {t} : /\ Writes(u, i) <=> WritesNow(u, i)
                                  /\ th'[u].todo = th[u].todo
                                     /\ th'[u].stores = th[u].stores
      BY <1>3, StoreFacts DEF Writes, WritesNow
    <3>. QED
      BY <1>a, <1>b, <3>1, <3>2, WholeSame
  <2>. QED
    BY <2>2, <2>3
<1>4. ASSUME NEW t \in Thread, NEW r \in Results, Write(t, r) PROVE WholeAtNow(i)
  <2>1. UNCHANGED <<entry, raced>> /\ ~Writes(t, i)
    BY <1>4 DEF Write, Writes
  <2>2. (\A u \in Thread \ {t} : th'[u] = th[u]) /\ ~WritesNow(t, i)
    BY <1>4, WriteFacts DEF WritesNow
  <2>3. \A u \in Thread \ {t} : Writes(u, i) <=> WritesNow(u, i)
    BY <2>2 DEF Writes, WritesNow
  <2>. QED
    BY <1>0, <1>a, <1>b, <2>1, <2>2, <2>3, WholeSame
<1>5. CASE new_search \/ UNCHANGED ttVars
  <2>1. UNCHANGED <<entry, raced, th>>
    BY <1>5 DEF new_search, ttVars
  <2>2. \A u \in Thread : Writes(u, i) <=> WritesNow(u, i)
    BY <2>1 DEF Writes, WritesNow
  <2>. QED
    BY <1>0, <1>a, <1>b, <2>1, <2>2, WholeSame
<1>6. CASE clear
  <2>1. entry'[i] = Zero /\ \A u \in Thread : ~WritesNow(u, i)
    BY <1>6 DEF clear, Quiet, WritesNow
  <2>2. WholeNow(Zero)
    BY DEF WholeNow, Zero
  <2>. QED
    BY <2>1, <2>2 DEF WholeAtNow
<1>. QED
  BY <1>1, <1>2, <1>3, <1>4, <1>5, <1>6 DEF TTNext, Moving
-----------------------------------------------------------------------------
(* The invariant holds of a table just allocated, and every step keeps it. *)
THEOREM Invariance ==
  ASSUME Parameters
  PROVE  TTSpec => []TableInv
<1>1. TTInit => TableInv
  <2>. SUFFICES ASSUME TTInit PROVE TableInv
    OBVIOUS
  <2>1. Zero \in Entries /\ Away \in Nodes /\ 0 \in 0..(Generations - 1)
    BY ZeroType DEF Parameters
  <2>2. Types
    BY <2>1 DEF TTInit, Types
  <2>3. \A t \in Thread : th[t].at = "away" /\ th[t].todo = {}
        /\ th[t].stores = Zero
    BY DEF TTInit, Away
  <2>4. Saved(Zero) /\ Whole(Zero)
    BY DEF Saved, NotDeeper, Whole, Zero, TTInit
  <2>. QED
    BY <2>2, <2>3, <2>4 DEF TTInit, TableInv, WorkInv, SavedInv, WholeInv, ReadInv, Writes
<1>2. TableInv /\ [TTNext]_ttVars => TableInv'
  BY StepTypes, StepWork, StepSaved, StepRead, StepWhole DEF TableInv
<1>. QED
  BY <1>1, <1>2, PTL DEF TTSpec

(* Whatever races there are, an entry's value is that of some save and its *)
(* depth is never below zero nor above all depths that were saved          *)
(* (TTWriter, TTEntry::save, tt.cpp).                                      *)
THEOREM TypeCorrect ==
  ASSUME Parameters
  PROVE  TTSpec => []TypeOK
<1>1. TableInv => TypeOK
  <2>. SUFFICES ASSUME TableInv PROVE TypeOK
    OBVIOUS
  <2>1. Types /\ SavedInv
    BY DEF TableInv
  <2>2. \A i \in Slots : entry[i] \in Entries /\ Saved(entry[i])
    BY <2>1 DEF Types, SavedInv
  <2>. QED
    BY <2>1, <2>2 DEF TypeOK, Types, Entries, Tags, Saved, NotDeeper
<1>. QED
  BY <1>1, Invariance, PTL

(* What a hit reports where no two threads were at the entry at a time is  *)
(* one save of the key asked for, or of one with the same 16 bits; the     *)
(* depth is at most that of the save (TranspositionTable::probe).          *)
THEOREM HitsSaved ==
  ASSUME Parameters
  PROVE  TTSpec => []HitsAreSaved
<1>1. TableInv => HitsAreSaved
  <2>. SUFFICES ASSUME TableInv, NEW t \in Thread, th[t].at = "read", entry[th[t].slot].depth8 # 0,
                       ~th[t].raced, Saving(th[t].slot) = {}, th[t].slot \notin raced
                PROVE  Consistent(entry[th[t].slot], t)
    BY DEF HitsAreSaved
  <2>. DEFINE i == th[t].slot
  <2>1. i \in Slots /\ DOMAIN log = 1..Len(log) /\ Len(log) \in Nat
    BY DEF TableInv, Types, Nodes
  <2>2. entry[i].key16 = Tag[th[t].key]
    BY DEF TableInv, ReadInv
  <2>3. \A u \in Thread : ~Writes(u, i)
    BY DEF Writes, Saving
  <2>4. Whole(entry[i])
    BY <2>1, <2>3 DEF TableInv, WholeInv
  <2>5. entry[i].depth8 # 0
    OBVIOUS
  <2>. HIDE DEF i
  <2>6. Consistent(entry[i], t)
    <3>1. /\ entry[i].move16 # None =>
               \E n \in DOMAIN log : Tag[log[n].key] = entry[i].key16
               /\ log[n].move = entry[i].move16
          /\ entry[i].value16 \in DOMAIN log
             /\ Tag[log[entry[i].value16].key] = entry[i].key16
          /\ entry[i].genBound8.bound = log[entry[i].value16].bound
          /\ entry[i].depth8 <= log[entry[i].value16].depth - DEPTH_NONE
      BY <2>4, <2>5 DEF Whole
    <3>2. entry[i].value16 # 0
      BY <2>1, <3>1
    <3>. QED
      BY <2>2, <3>1, <3>2 DEF Consistent, Alike
  <2>. QED
    BY <2>6 DEF i
<1>. QED
  BY <1>1, Invariance, PTL

------------------------------------------------------------------------------
(* The move picker.                                                        *)

Element == [move : Moves, value : Int]

(* list holds the moves of S at a..b, each of them once, with its value.   *)
Holds(list, a, b, S) ==
  /\ \A i \in a .. b : list[i].move \in S /\ list[i].value = value[list[i].move]
  /\ \A i, j \in a .. b : list[i].move = list[j].move => i = j
  /\ \A m \in S : \E i \in a .. b : list[i].move = m
ListOf(list, S) == list \in Seq(Element) /\ Holds(list, 1, Len(list), S)

(* A value from limit on has no smaller one before it.                     *)
Descending(list, a, b, limit) ==
  \A i, j \in a .. b : i < j /\ list[j].value >= limit => list[i].value >= list[j].value

Values == value \in [Moves -> Int] /\ \A m \in Moves : value[m] >= NoLimit

------------------------------------------------------------------------------
(* Lists of moves.                                                         *)

LEMMA FiniteMoves ==
  ASSUME NEW S \in SUBSET Moves
  PROVE  IsFiniteSet(S) /\ Cardinality(S) \in Nat /\ Cardinality(S) <= Cardinality(Moves)
         /\ Cardinality(Moves) \in Nat
<1>1. IsFiniteSet(Moves)
  BY PickerAssumption, FS_Union DEF Moves
<1>. QED
  BY <1>1, FS_Subset, FS_CardinalityType

LEMMA Interval ==
  ASSUME NEW n \in Nat
  PROVE  IsFiniteSet(1 .. n) /\ Cardinality(1 .. n) = n
BY FS_Interval

(* score writes each move once.                                            *)
LEMMA ScoreFacts ==
  ASSUME Values, NEW S \in SUBSET Moves
  PROVE  ListOf(score(S), S) /\ Len(score(S)) = Cardinality(S) /\ score(S) \in Seq(Element)
<1>. DEFINE n == Cardinality(S)
            list == SetToSeq(S)
<1>1. n \in Nat /\ IsFiniteSet(S)
  BY FiniteMoves
<1>2. PICK f : f \in Bijection(1 .. n, S)
  BY <1>1, FS_CardinalityType DEF ExistsBijection
<1>3. f \in [1 .. n -> S] /\ IsInjective(f)
  BY <1>2 DEF Bijection, Injection, IsInjective
<1>4. list \in [1 .. n -> S] /\ IsInjective(list)
  BY <1>3 DEF SetToSeq
<1>5. list \in Surjection(1 .. n, S)
  <2>1. list \in Injection(1 .. n, S)
    BY <1>4 DEF Injection, IsInjective
  <2>2. IsFiniteSet(1 .. n) /\ Cardinality(1 .. n) = n
    BY <1>1, FS_Interval
  <2>. HIDE DEF list
  <2>. QED
    BY <1>1, <2>1, <2>2, FS_Injection
<1>. HIDE DEF list
<1>6. score(S) = [i \in 1 .. n |-> [move |-> list[i], value |-> value[list[i]]]]
  BY <1>4 DEF score, list
<1>7. \A i \in 1 .. n : list[i] \in S /\ list[i] \in Moves
  BY <1>4
<1>8. score(S) \in [1 .. n -> Element]
  BY <1>6, <1>7 DEF Element, Values
<1>9. Len(score(S)) = n /\ score(S) \in Seq(Element)
  BY <1>1, <1>8
<1>10. \A i \in 1 .. n : score(S)[i].move = list[i] /\ score(S)[i].value = value[list[i]]
  BY <1>6
<1>11. Holds(score(S), 1, n, S)
  <2>1. \A i, j \in 1 .. n : list[i] = list[j] => i = j
    BY <1>4 DEF IsInjective
  <2>2. \A m \in S : \E i \in 1 .. n : list[i] = m
    BY <1>5 DEF Surjection
  <2>. HIDE DEF n
  <2>. QED
    BY <1>7, <1>10, <2>1, <2>2 DEF Holds
<1>. QED
  BY <1>9, <1>11 DEF ListOf

(* Where a new value belongs in a sorted list.                             *)
LEMMA Place ==
  ASSUME NEW list \in Seq(Element), NEW n \in 1 .. Len(list), Descending(list, 1, n, NoLimit),
         \A i \in 1 .. n : list[i].value >= NoLimit, NEW x \in Int
  PROVE  LET q == Cardinality({i \in 1 .. n : list[i].value >= x}) IN
         /\ q \in 0 .. n
         /\ \A i \in 1 .. q : list[i].value >= x
         /\ \A i \in (q + 1) .. n : list[i].value < x
<1>. DEFINE P == {i \in 1 .. n : list[i].value >= x}
<1>0. \A i \in 1 .. n : list[i].value \in Int
  <2>1. \A i \in 1 .. n : list[i] \in Element
    OBVIOUS
  <2>. QED
    BY <2>1 DEF Element
<1>1. \A i, j \in 1 .. n : i < j => list[i].value >= list[j].value
  BY <1>0 DEF Descending
<1>2. CASE P = {}
  <2>1. Cardinality(P) = 0
    BY <1>2, FS_EmptySet
  <2>2. \A i \in (0 + 1) .. n : list[i].value < x
    BY <1>0, <1>2
  <2>3. 0 \in 0 .. n /\ \A i \in 1 .. 0 : list[i].value >= x
    OBVIOUS
  <2>. HIDE DEF P
  <2>4. LET q == Cardinality(P) IN
        /\ q \in 0 .. n
        /\ \A i \in 1 .. q : list[i].value >= x
        /\ \A i \in (q + 1) .. n : list[i].value < x
    BY <2>1, <2>2, <2>3
  <2>. QED
    BY <2>4 DEF P
<1>3. CASE P # {}
  <2>. DEFINE T == {n - i : i \in P}
  <2>1. T \subseteq Nat /\ T # {}
    BY <1>3
  <2>2. PICK t \in T : \A u \in T : t <= u
    <3>. HIDE DEF T
    <3>. QED
      BY <2>1, NatMin
  <2>3. PICK k \in P : t = n - k
    OBVIOUS
  <2>4. \A i \in P : i <= k
    <3>1. \A i \in P : n - k <= n - i
      BY <2>2, <2>3
    <3>. QED
      BY <3>1
  <2>5. P = 1 .. k
    <3>1. \A i \in 1 .. k : i \in P
      BY <1>0, <1>1
    <3>2. \A i \in P : i \in 1 .. k
      BY <2>4
    <3>. QED
      BY <3>1, <3>2
  <2>6. k \in 1 .. n /\ Cardinality(1 .. k) = k
    BY FS_Interval
  <2>7. \A i \in (k + 1) .. n : i \in 1 .. n /\ ~(i \in 1 .. k)
    BY <2>6
  <2>8. \A i \in 1 .. n : i \in P <=> list[i].value >= x
    OBVIOUS
  <2>9. ASSUME NEW i \in (k + 1) .. n PROVE list[i].value < x
    <3>1. i \in 1 .. n /\ ~(i \in P)
      BY <2>5, <2>7
    <3>2. list[i].value \in Int /\ ~(list[i].value >= x)
      BY <1>0, <2>8, <3>1
    <3>. QED
      BY <3>2
  <2>10. \A i \in 1 .. k : list[i].value >= x
    BY <2>5
  <2>11. Cardinality(P) = k /\ k \in 0 .. n
    <3>1. k \in 0 .. n
      BY <2>6
    <3>. HIDE DEF P
    <3>. QED
      BY <2>5, <2>6, <3>1
  <2>. HIDE DEF P
  <2>. QED
    BY <2>9, <2>10, <2>11 DEF P
<1>. QED
  BY <1>2, <1>3

(* A list whose moves are put in another order.                            *)
Permutes(from, n) ==
  /\ from \in [1 .. n -> 1 .. n]
  /\ \A i, j \in 1 .. n : from[i] = from[j] => i = j
  /\ \A j \in 1 .. n : \E i \in 1 .. n : from[i] = j

LEMMA Rearranged ==
  ASSUME NEW S \in SUBSET Moves, NEW list, ListOf(list, S), NEW new, NEW from,
         Permutes(from, Len(list)), new = [i \in 1 .. Len(list) |-> list[from[i]]]
  PROVE  ListOf(new, S) /\ Len(new) = Len(list)
<1>. DEFINE L == Len(list)
<1>1. L \in Nat /\ list \in [1 .. L -> Element]
  BY DEF ListOf
<1>2. new \in [1 .. L -> Element]
  BY <1>1 DEF Permutes
<1>3. new \in Seq(Element) /\ Len(new) = L
  BY <1>1, <1>2
<1>4. \A i \in 1 .. L : from[i] \in 1 .. L /\ new[i] = list[from[i]]
  BY DEF Permutes
<1>5. Holds(new, 1, L, S)
  <2>1. Holds(list, 1, L, S)
    BY DEF ListOf
  <2>2. \A i \in 1 .. L : new[i].move \in S /\ new[i].value = value[new[i].move]
    BY <1>4, <2>1 DEF Holds
  <2>3. ASSUME NEW i \in 1 .. L, NEW j \in 1 .. L, new[i].move = new[j].move PROVE i = j
    <3>1. \A a, b \in 1 .. L : list[a].move = list[b].move => a = b
      BY <2>1 DEF Holds
    <3>2. list[from[i]].move = list[from[j]].move
      BY <1>4, <2>3
    <3>3. from[i] = from[j]
      BY <1>4, <3>1, <3>2
    <3>. QED
      BY <3>3 DEF Permutes
  <2>4. ASSUME NEW m \in S PROVE \E i \in 1 .. L : new[i].move = m
    <3>1. PICK j \in 1 .. L : list[j].move = m
      BY <2>1 DEF Holds
    <3>2. PICK i \in 1 .. L : from[i] = j
      BY DEF Permutes
    <3>. QED
      BY <1>4, <3>1, <3>2
  <2>. QED
    BY <2>2, <2>3, <2>4 DEF Holds
<1>. QED
  BY <1>3, <1>5 DEF ListOf

(* One more move is inserted: the sorted part grows, and the move that was *)
(* behind it goes to where the new one was.                                *)
LEMMA InsertedFacts ==
  ASSUME Values, NEW S \in SUBSET Moves, NEW list, ListOf(list, S), NEW limit \in Int,
         NEW n \in 1 .. Len(list), NEW p \in 1 .. Len(list), n < p,
         Descending(list, 1, n, NoLimit), \A i \in (n + 1) .. (p - 1) : list[i].value < limit
  PROVE  LET new == Inserted(list, n, p) IN
         /\ ListOf(new, S) /\ Len(new) = Len(list)
         /\ Descending(new, 1, n + 1, NoLimit)
         /\ \A i \in (n + 2) .. p : new[i].value < limit
<1>. DEFINE L == Len(list)
            q == Cardinality({i \in 1 .. n : list[i].value >= list[p].value})
            from == [i \in 1 .. L |-> IF i = q + 1 THEN p
                                      ELSE IF i \in (q + 2) .. (n + 1) THEN i - 1
                                      ELSE IF i = p THEN n + 1 ELSE i]
            new == Inserted(list, n, p)
<1>1. L \in Nat /\ list \in Seq(Element) /\ DOMAIN list = 1 .. L
  BY DEF ListOf
<1>2. \A i \in 1 .. L : list[i].value \in Int /\ list[i].value >= NoLimit
  <2>1. \A i \in 1 .. L : list[i] \in Element /\ list[i].move \in S /\ list[i].value = value[list[i].move]
    BY <1>1 DEF ListOf, Holds
  <2>. QED
    BY <2>1 DEF Values, Element
<1>3. /\ q \in 0 .. n
      /\ \A i \in 1 .. q : list[i].value >= list[p].value
      /\ \A i \in (q + 1) .. n : list[i].value < list[p].value
  <2>1. \A i \in 1 .. n : list[i].value >= NoLimit
    BY <1>1, <1>2
  <2>2. list[p].value \in Int
    BY <1>2
  <2>. QED
    BY <1>1, <2>1, <2>2, Place
<1>. HIDE DEF q
<1>4. new = [i \in 1 .. L |-> list[from[i]]]
  <2>1. \A i \in 1 .. L : new[i] = list[from[i]]
    BY <1>1 DEF Inserted, q
  <2>2. new = [i \in 1 .. L |-> new[i]]
    BY <1>1 DEF Inserted
  <2>. HIDE DEF from, new
  <2>. QED
    BY <2>1, <2>2
<1>5. from \in [1 .. L -> 1 .. L]
  BY <1>1, <1>3
<1>6. ASSUME NEW i \in 1 .. L, NEW j \in 1 .. L, from[i] = from[j] PROVE i = j
  BY <1>1, <1>3, <1>6
<1>7. ASSUME NEW j \in 1 .. L PROVE \E i \in 1 .. L : from[i] = j
  <2>. DEFINE to == IF j = p THEN q + 1 ELSE IF j \in (q + 1) .. n THEN j + 1
                    ELSE IF j = n + 1 THEN p ELSE j
  <2>1. to \in 1 .. L /\ from[to] = j
    BY <1>1, <1>3
  <2>. QED
    BY <2>1
<1>8. ListOf(new, S) /\ Len(new) = L
  <2>. HIDE DEF new, from
  <2>1. \A i, j \in 1 .. L : from[i] = from[j] => i = j
    BY <1>6
  <2>2. Permutes(from, L)
    BY <1>5, <1>7, <2>1 DEF Permutes
  <2>. QED
    BY <1>4, <2>2, Rearranged
<1>9. \A i \in 1 .. L : new[i] = list[from[i]]
  <2>. HIDE DEF new, from
  <2>. QED
    BY <1>4
<1>10. Descending(new, 1, n + 1, NoLimit)
  <2>. SUFFICES ASSUME NEW i \in 1 .. (n + 1), NEW j \in 1 .. (n + 1), i < j
                PROVE  new[i].value >= new[j].value
    BY DEF Descending
  <2>1. i \in 1 .. L /\ j \in 1 .. L
    BY <1>1
  <2>2. new[i] = list[from[i]] /\ new[j] = list[from[j]]
    BY <1>9, <2>1
  <2>3. \A a, b \in 1 .. n : a < b => list[a].value >= list[b].value
    BY <1>2 DEF Descending
  <2>4. CASE j = q + 1
    <3>1. i \in 1 .. q /\ from[i] = i /\ from[j] = p
      BY <1>1, <1>3, <2>1, <2>4
    <3>. HIDE DEF from, new
    <3>. QED
      BY <1>3, <2>2, <3>1
  <2>5. CASE i = q + 1
    <3>1. j \in (q + 2) .. (n + 1) /\ from[j] = j - 1 /\ from[i] = p /\ j - 1 \in (q + 1) .. n
      BY <1>1, <1>3, <2>1, <2>5
    <3>2. list[j - 1].value < list[p].value /\ list[j - 1].value \in Int /\ list[p].value \in Int
      BY <1>1, <1>2, <1>3, <3>1
    <3>. HIDE DEF from, new
    <3>. QED
      BY <2>2, <3>1, <3>2
  <2>6. CASE i # q + 1 /\ j # q + 1
    <3>1. from[i] \in 1 .. n /\ from[j] \in 1 .. n /\ from[i] < from[j]
      BY <1>1, <1>3, <2>1, <2>6
    <3>. HIDE DEF from, new
    <3>. QED
      BY <2>2, <2>3, <3>1
  <2>. QED
    BY <2>4, <2>5, <2>6
<1>11. ASSUME NEW i \in (n + 2) .. p PROVE new[i].value < limit
  <2>1. i \in 1 .. L /\ from[i] \in (n + 1) .. (p - 1)
    BY <1>1, <1>3
  <2>. HIDE DEF from, new
  <2>. QED
    BY <1>9, <2>1
<1>. QED
  BY <1>8, <1>10, <1>11

(* The loop of partial_insertion_sort: a list and how much of it is sorted.*)
Loops(n) == [list : [1 .. n -> Element], n : Nat]
Turn(s, p, limit) ==
  IF s.list[p].value < limit THEN s ELSE [list |-> Inserted(s.list, s.n, p), n |-> s.n + 1]

LEMMA TurnType ==
  ASSUME NEW L \in Nat, NEW s \in Loops(L), NEW p \in 1 .. L, s.n \in 1 .. (p - 1), NEW limit \in Int
  PROVE  Turn(s, p, limit) \in Loops(L) /\ Turn(s, p, limit).n <= s.n + 1
<1>. DEFINE list == s.list
            n == s.n
            q == Cardinality({i \in 1 .. n : list[i].value >= list[p].value})
<1>1. list \in [1 .. L -> Element] /\ n \in 1 .. (p - 1) /\ DOMAIN list = 1 .. L
  BY DEF Loops
<1>2. q \in 0 .. n
  <2>0. n \in Nat
    BY <1>1
  <2>1. IsFiniteSet(1 .. n) /\ Cardinality(1 .. n) = n
    <3>. HIDE DEF n
    <3>. QED
      BY <2>0, Interval
  <2>2. {i \in 1 .. n : list[i].value >= list[p].value} \in SUBSET (1 .. n)
    OBVIOUS
  <2>. HIDE DEF list, n
  <2>3. IsFiniteSet({i \in 1 .. n : list[i].value >= list[p].value}) /\ q <= n
    BY <2>1, <2>2, FS_Subset
  <2>4. q \in Nat
    <3>. HIDE DEF q
    <3>. QED
      BY <2>3, FS_CardinalityType DEF q
  <2>. QED
    BY <1>1, <2>3, <2>4
<1>. HIDE DEF q
<1>3. Inserted(list, n, p) \in [1 .. L -> Element]
  <2>1. Inserted(list, n, p) =
          [i \in 1 .. L |-> IF i = q + 1 THEN list[p]
                            ELSE IF i \in (q + 2) .. (n + 1) THEN list[i - 1]
                            ELSE IF i = p THEN list[n + 1] ELSE list[i]]
    BY <1>1 DEF Inserted, q
  <2>2. \A i \in (q + 2) .. (n + 1) : i - 1 \in 1 .. L
    BY <1>1, <1>2
  <2>3. n + 1 \in 1 .. L
    BY <1>1
  <2>. HIDE DEF list, n
  <2>. QED
    BY <1>1, <2>1, <2>2, <2>3
<1>. QED
  BY <1>1, <1>3 DEF Loops, Turn

(* Sorting is this loop. *)
LEMMA SortRec ==
  ASSUME NEW list \in Seq(Element), NEW limit \in Int
  PROVE  \E after :
           /\ partial_insertion_sort(list, limit) = after[Len(list)].list
           /\ after[0] = [list |-> list, n |-> 1]
           /\ Len(list) > 0 => after[1] = [list |-> list, n |-> 1]
           /\ \A p \in 2 .. Len(list) : after[p] = Turn(after[p - 1], p, limit)
<1>. DEFINE L == Len(list)
            base == [list |-> list, n |-> 1]
            Def(f) == f = [p \in 0 .. L |-> IF p <= 1 THEN [list |-> list, n |-> 1]
                                            ELSE LET s == f[p - 1] IN
                                                 IF s.list[p].value < limit THEN s
                                                 ELSE [list |-> Inserted(s.list, s.n, p), n |-> s.n + 1]]
            after == CHOOSE f : Def(f)
            step == [p \in 1 .. L |-> [s \in Loops(L) |->
                       IF s.n \in 1 .. (p - 1) THEN Turn(s, p, limit) ELSE s]]
<1>1. L \in Nat /\ base \in Loops(L) /\ list \in [1 .. L -> Element]
  BY DEF Loops
<1>2. step \in Steps(L, Loops(L))
  <2>1. ASSUME NEW p \in 1 .. L, NEW s \in Loops(L)
        PROVE  (IF s.n \in 1 .. (p - 1) THEN Turn(s, p, limit) ELSE s) \in Loops(L)
    BY <1>1, TurnType
  <2>. HIDE DEF L
  <2>. QED
    BY <2>1 DEF Steps
<1>3. PICK f : Recursive(f, L, Loops(L), base, step)
  <2>. HIDE DEF step, L, base
  <2>. QED
    BY <1>1, <1>2, RecExists
<1>4. /\ f \in [0 .. L -> Loops(L)] /\ f[0] = base
      /\ \A p \in 1 .. L : f[p] = step[p][f[p - 1]]
  BY <1>3 DEF Recursive
<1>5. \A p \in 1 .. L : f[p] = IF f[p - 1].n \in 1 .. (p - 1) THEN Turn(f[p - 1], p, limit) ELSE f[p - 1]
  <2>1. \A p \in 1 .. L : p - 1 \in 0 .. L
    BY <1>1
  <2>2. \A p \in 1 .. L, s \in Loops(L) :
           step[p][s] = IF s.n \in 1 .. (p - 1) THEN Turn(s, p, limit) ELSE s
    OBVIOUS
  <2>. HIDE DEF step, L
  <2>. QED
    BY <1>4, <2>1, <2>2
<1>. HIDE DEF step
<1>6. L > 0 => f[1] = base
  BY <1>1, <1>4, <1>5
<1>7. 1 .. L \subseteq {p \in 1 .. L : f[p].n \in 1 .. p}
  <2>. DEFINE T == {p \in 1 .. L : f[p].n \in 1 .. p}
  <2>1. CASE L = 0
    BY <2>1
  <2>2. CASE L > 0
    <3>1. 1 \in T
      BY <1>1, <1>6, <2>2
    <3>2. ASSUME NEW p \in 1 .. (L - 1), p \in T PROVE p + 1 \in T
      <4>1. p + 1 \in 1 .. L /\ (p + 1) - 1 = p /\ f[p] \in Loops(L) /\ f[p].n \in 1 .. p
        BY <1>1, <1>4, <3>2
      <4>2. f[p + 1] = Turn(f[p], p + 1, limit)
        BY <1>5, <4>1
      <4>3. f[p + 1] \in Loops(L) /\ f[p + 1].n <= f[p].n + 1 /\ f[p + 1].n >= f[p].n
        <5>1. f[p + 1] \in Loops(L) /\ f[p + 1].n <= f[p].n + 1
          BY <1>1, <4>1, <4>2, TurnType
        <5>2. f[p].n \in Nat
          BY <4>1 DEF Loops
        <5>3. f[p + 1].n \in {f[p].n, f[p].n + 1}
          BY <4>1, <4>2 DEF Turn, Loops
        <5>. QED
          BY <5>1, <5>2, <5>3
      <4>4. f[p + 1].n \in Nat
        BY <4>3 DEF Loops
      <4>. QED
        BY <4>1, <4>3, <4>4
    <3>3. 1 .. L \subseteq T
      <4>1. \A p \in 1 .. (L - 1) : p \in T => p + 1 \in T
        BY <3>2
      <4>2. 1 \in Int /\ L \in Int
        BY <1>1
      <4>. HIDE DEF T, L
      <4>. QED
        BY <3>1, <4>1, <4>2, UpFrom
    <3>. QED
      BY <3>3
  <2>. QED
    BY <1>1, <2>1, <2>2
<1>8. \A p \in 2 .. L : f[p] = Turn(f[p - 1], p, limit)
  <2>. SUFFICES ASSUME NEW p \in 2 .. L PROVE f[p] = Turn(f[p - 1], p, limit)
    OBVIOUS
  <2>1. p \in 1 .. L /\ p - 1 \in 1 .. L
    BY <1>1
  <2>. QED
    BY <1>5, <1>7, <2>1
<1>9. Def(f)
  <2>1. \A p \in 0 .. L : f[p] = IF p <= 1 THEN base ELSE Turn(f[p - 1], p, limit)
    BY <1>1, <1>4, <1>6, <1>8
  <2>2. f = [p \in 0 .. L |-> f[p]]
    BY <1>4
  <2>. HIDE DEF L
  <2>. QED
    BY <2>1, <2>2 DEF Turn
<1>10. Def(after)
  <2>. HIDE DEF Def
  <2>. QED
    BY <1>9
<1>. HIDE DEF after
<1>11. \A p \in 0 .. L : after[p] = IF p <= 1 THEN base ELSE Turn(after[p - 1], p, limit)
  BY <1>10 DEF Turn
<1>12. partial_insertion_sort(list, limit) = after[L].list
  BY DEF partial_insertion_sort, after
<1>. QED
  <2>. HIDE DEF Def, base
  <2>1. after[0] = base /\ (L > 0 => after[1] = base)
    BY <1>1, <1>11
  <2>2. \A p \in 2 .. L : after[p] = Turn(after[p - 1], p, limit)
    BY <1>1, <1>11
  <2>. QED
    BY <1>12, <2>1, <2>2 DEF base

(* Sorting keeps the moves, and nothing from limit on has less before it.  *)
LEMMA SortFacts ==
  ASSUME Values, NEW S \in SUBSET Moves, NEW list, ListOf(list, S), NEW limit \in Int
  PROVE  LET new == partial_insertion_sort(list, limit) IN
         ListOf(new, S) /\ Len(new) = Len(list) /\ Descending(new, 1, Len(list), limit)
<1>. DEFINE L == Len(list)
            new == partial_insertion_sort(list, limit)
<1>1. L \in Nat /\ list \in Seq(Element)
  BY DEF ListOf
<1>2. PICK after :
        /\ new = after[L].list
        /\ after[0] = [list |-> list, n |-> 1]
        /\ L > 0 => after[1] = [list |-> list, n |-> 1]
        /\ \A p \in 2 .. L : after[p] = Turn(after[p - 1], p, limit)
  BY <1>1, SortRec
<1>. HIDE DEF new
<1>. DEFINE Good(s, p) ==
              /\ ListOf(s.list, S) /\ Len(s.list) = L /\ s.n \in 1 .. p
              /\ Descending(s.list, 1, s.n, NoLimit)
              /\ \A i \in (s.n + 1) .. p : s.list[i].value < limit
<1>3. CASE L = 0
  <2>1. new = list
    BY <1>2, <1>3
  <2>2. Descending(new, 1, L, limit)
    BY <1>3 DEF Descending
  <2>. HIDE DEF L
  <2>. QED
    BY <2>1, <2>2 DEF new, L
<1>4. CASE L > 0
  <2>. DEFINE T == {p \in 1 .. L : Good(after[p], p)}
  <2>1. 1 \in T
    <3>1. after[1].list = list /\ after[1].n = 1
      BY <1>2, <1>4
    <3>. QED
      BY <1>1, <1>4, <3>1 DEF Descending
  <2>2. ASSUME NEW p \in 1 .. (L - 1), p \in T PROVE p + 1 \in T
    <3>. DEFINE s == after[p]
                u == after[p + 1]
    <3>1. p + 1 \in 2 .. L /\ (p + 1) - 1 = p /\ p + 1 \in 1 .. L
      BY <1>1
    <3>2. u = Turn(s, p + 1, limit)
      BY <1>2, <3>1
    <3>3. Good(s, p)
      BY <2>2
    <3>. HIDE DEF s, u
    <3>4. s.list \in Seq(Element) /\ s.n \in 1 .. p /\ Len(s.list) = L
      BY <3>3 DEF ListOf
    <3>5. CASE s.list[p + 1].value < limit
      <4>1. u = s
        BY <3>2, <3>5 DEF Turn
      <4>2. \A i \in (s.n + 1) .. (p + 1) : s.list[i].value < limit
        BY <1>1, <3>3, <3>4, <3>5
      <4>3. s.n \in 1 .. (p + 1)
        BY <3>4
      <4>4. Good(u, p + 1)
        BY <3>3, <4>1, <4>2, <4>3
      <4>. QED
        BY <3>1, <4>4 DEF u
    <3>6. CASE ~(s.list[p + 1].value < limit)
      <4>1. u.list = Inserted(s.list, s.n, p + 1) /\ u.n = s.n + 1
        BY <3>2, <3>6 DEF Turn
      <4>2. s.n \in 1 .. Len(s.list) /\ p + 1 \in 1 .. Len(s.list) /\ s.n < p + 1
        BY <1>1, <3>1, <3>4
      <4>3. \A i \in (s.n + 1) .. ((p + 1) - 1) : s.list[i].value < limit
        BY <3>1, <3>3
      <4>4. /\ ListOf(u.list, S) /\ Len(u.list) = L
            /\ Descending(u.list, 1, s.n + 1, NoLimit)
            /\ \A i \in (s.n + 2) .. (p + 1) : u.list[i].value < limit
        <5>1. ListOf(s.list, S) /\ Descending(s.list, 1, s.n, NoLimit)
          BY <3>3
        <5>. DEFINE list1 == s.list
                    n1 == s.n
                    p1 == p + 1
        <5>3. /\ n1 \in 1 .. Len(list1) /\ p1 \in 1 .. Len(list1) /\ n1 < p1
              /\ \A i \in (n1 + 1) .. (p1 - 1) : list1[i].value < limit
              /\ ListOf(list1, S) /\ Descending(list1, 1, n1, NoLimit)
          BY <4>2, <4>3, <5>1
        <5>. HIDE DEF list1, n1, p1
        <5>4. LET new1 == Inserted(list1, n1, p1) IN
              /\ ListOf(new1, S) /\ Len(new1) = Len(list1)
              /\ Descending(new1, 1, n1 + 1, NoLimit)
              /\ \A i \in (n1 + 2) .. p1 : new1[i].value < limit
          BY <5>3, InsertedFacts
        <5>. QED
          BY <3>4, <4>1, <5>4 DEF list1, n1, p1
      <4>5. u.n \in 1 .. (p + 1) /\ u.n + 1 = s.n + 2
        BY <3>4, <4>1
      <4>6. Good(u, p + 1)
        BY <4>1, <4>4, <4>5
      <4>. QED
        BY <3>1, <4>6 DEF u
    <3>. QED
      BY <3>5, <3>6
  <2>3. 1 .. L \subseteq T
    <3>1. \A p \in 1 .. (L - 1) : p \in T => p + 1 \in T
      BY <2>2
    <3>2. 1 \in Int /\ L \in Int
      BY <1>1
    <3>. HIDE DEF T, L
    <3>. QED
      BY <2>1, <3>1, <3>2, UpFrom
  <2>4. Good(after[L], L)
    BY <1>1, <1>4, <2>3
  <2>. DEFINE n == after[L].n
  <2>5. ListOf(new, S) /\ Len(new) = L /\ n \in 1 .. L /\ Descending(new, 1, n, NoLimit)
        /\ \A i \in (n + 1) .. L : new[i].value < limit
    BY <1>2, <2>4
  <2>. HIDE DEF n, L
  <2>6. \A i \in 1 .. L : new[i].value \in Int /\ new[i].value >= NoLimit
    <3>1. \A i \in 1 .. L : new[i].move \in S /\ new[i].value = value[new[i].move]
      BY <2>5 DEF ListOf, Holds
    <3>. QED
      BY <3>1 DEF Values
  <2>7. Descending(new, 1, L, limit)
    <3>1. \A j \in 1 .. L : new[j].value >= limit => j \in 1 .. n
      BY <1>1, <2>5, <2>6
    <3>2. \A i, j \in 1 .. n : i < j => new[i].value >= new[j].value
      BY <2>5, <2>6, <1>1 DEF Descending
    <3>3. \A i \in 1 .. L, j \in 1 .. n : i < j => i \in 1 .. n
      BY <1>1, <2>5
    <3>. QED
      BY <3>1, <3>2, <3>3 DEF Descending
  <2>. QED
    BY <2>5, <2>7 DEF L, new
<1>. QED
  BY <1>1, <1>3, <1>4

(* What the picker makes of its moves. *)
LEMMA SortedFacts ==
  ASSUME Values, NEW S \in SUBSET Moves
  PROVE  ListOf(Sorted(S), S) /\ Len(Sorted(S)) = Cardinality(S)
         /\ Descending(Sorted(S), 1, Cardinality(S), NoLimit)
<1>1. NoLimit \in Int
  BY DEF NoLimit
<1>2. ListOf(score(S), S) /\ Len(score(S)) = Cardinality(S)
  BY ScoreFacts
<1>. QED
  BY <1>1, <1>2, SortFacts DEF Sorted

LEMMA QuietFacts ==
  ASSUME Values, depth \in Int
  PROVE  LET list == partial_insertion_sort(score(Quiets), QuietLimit) IN
         ListOf(list, Quiets) /\ Len(list) = Cardinality(Quiets)
         /\ Descending(list, 1, Cardinality(Quiets), QuietLimit)
<1>1. QuietLimit \in Int
  BY DEF QuietLimit
<1>2. Quiets \in SUBSET Moves
  BY DEF Moves
<1>3. ListOf(score(Quiets), Quiets) /\ Len(score(Quiets)) = Cardinality(Quiets)
  BY <1>2, ScoreFacts
<1>. QED
  BY <1>1, <1>2, <1>3, SortFacts

------------------------------------------------------------------------------
(* The inductive invariant: what has come and what the array holds, stage  *)
(* by stage.                                                               *)

Passed(a, m) == \E i \in a .. (cur - 1) : moves[i].move = m
Came(m) == m \in ToSet(returned)

PickTypes ==
  /\ stage \in 1 .. 16
  /\ kind = (IF stage <= 7 THEN "main" ELSE IF stage <= 10 THEN "evasion"
             ELSE IF stage <= 13 THEN "probcut" ELSE "qsearch")
  /\ depth \in Int /\ Values /\ good \in [Captures -> BOOLEAN]
  /\ skipQuiets \in BOOLEAN /\ (skipQuiets => stage \in 1 .. 10)
  /\ caller \in {"busy", "waits", "done"}
  /\ returned \in Seq(Moves)
  /\ moves \in Seq(Element)

(* The hash move comes first or not at all. *)
HashMoveFirst ==
  /\ stage \in {1, 8, 11, 14} => PseudoLegal(kind, ttMove)
  /\ Came(ttMove) <=> PseudoLegal(kind, ttMove) /\ stage \notin {1, 8, 11, 14}
  /\ stage \in {1, 2, 8, 9, 11, 12, 14, 15} =>
       moves = << >> /\ endBadCaptures = Unset /\ \A m \in Moves : Came(m) => m = ttMove

(* One sorted list: of captures, or of all evasions. *)
OneList ==
  LET S == IF stage = 10 THEN Moves ELSE Captures IN
  /\ ListOf(moves, S) /\ Len(moves) = Cardinality(S) /\ Descending(moves, 1, Len(moves), NoLimit)
  /\ endCur = Len(moves) + 1 /\ cur \in 1 .. endCur
  /\ endBadCaptures # Unset => endBadCaptures = 1 /\ endCaptures = endCur
  /\ \A m \in Moves : m # ttMove => (Came(m) <=> Passed(1, m) /\ (stage = 13 => good[m]))

(* The captures are looked at: the bad ones go to the front and the others *)
(* have come, and none that is behind is above one in front of it.         *)
Looking ==
  /\ ListOf(moves, Captures) /\ Len(moves) = Cardinality(Captures)
  /\ endCaptures = Len(moves) + 1 /\ endCur = endCaptures
  /\ cur \in 1 .. endCur /\ endBadCaptures \in 1 .. cur
  /\ \A i \in 1 .. (endBadCaptures - 1) : moves[i].move # ttMove /\ ~good[moves[i].move]
  /\ \A i \in endBadCaptures .. (cur - 1) : moves[i].move # ttMove => good[moves[i].move]
  /\ \A i, j \in 1 .. Len(moves) : i < j /\ (j < endBadCaptures \/ j >= cur) =>
       moves[i].value >= moves[j].value
  /\ \A m \in Moves : m # ttMove => (Came(m) <=> Passed(endBadCaptures, m))

(* The captures have been looked at. *)
CapturesSplit ==
  /\ endCaptures = Cardinality(Captures) + 1 /\ Len(moves) >= endCaptures - 1
  /\ endBadCaptures \in 1 .. endCaptures
  /\ Holds(moves, 1, endCaptures - 1, Captures)
  /\ \A i \in 1 .. (endBadCaptures - 1) : moves[i].move # ttMove /\ ~good[moves[i].move]
  /\ \A i \in endBadCaptures .. (endCaptures - 1) : moves[i].move # ttMove => good[moves[i].move]
  /\ Descending(moves, 1, endBadCaptures - 1, NoLimit)

(* The quiet moves are behind the captures, or are all skipped. *)
QuietsBehind ==
  \/ skipQuiets /\ Len(moves) = endCaptures - 1
  \/ /\ Len(moves) = Cardinality(Moves) /\ endGenerated = Len(moves) + 1
     /\ Holds(moves, endCaptures, Len(moves), Quiets)
     /\ Descending(moves, endCaptures, Len(moves), QuietLimit)

GoodQuiet(m) == m \in Quiets /\ value[m] > goodQuietThreshold

(* What has come, but for the hash move. *)
AfterCaptures ==
  /\ cur = endCaptures /\ endCur = cur /\ Len(moves) = endCaptures - 1
  /\ \A m \in Moves : m # ttMove => (Came(m) <=> m \in Captures /\ good[m])
InGoodQuiets ==
  /\ endCur = Len(moves) + 1 /\ cur \in endCaptures .. endCur
  /\ \A m \in Captures : m # ttMove => (Came(m) <=> good[m])
  /\ \A m \in Quiets : m # ttMove => (Came(m) <=> GoodQuiet(m) /\ Passed(endCaptures, m))
InBadCaptures ==
  /\ endCur = endBadCaptures /\ cur \in 1 .. endCur
  /\ \A m \in Captures : m # ttMove => (Came(m) <=> good[m] \/ Passed(1, m))
  /\ \A m \in Quiets : m # ttMove => (Came(m) => GoodQuiet(m)) /\ (GoodQuiet(m) => skipQuiets \/ Came(m))
InBadQuiets ==
  /\ endCur = endGenerated /\ cur \in Int /\ cur >= endCaptures
  /\ skipQuiets \/ cur <= endCur
  /\ \A m \in Captures : m # ttMove => Came(m)
  /\ \A m \in Quiets : m # ttMove =>
       IF GoodQuiet(m) THEN skipQuiets \/ Came(m) ELSE Came(m) <=> Passed(endCaptures, m)

Stagewise ==
  /\ stage \in {10, 13, 16} => OneList
  /\ stage = 3 => Looking
  /\ stage \in 4 .. 7 => CapturesSplit
  /\ stage \in 5 .. 7 => QuietsBehind
  /\ stage = 4 => AfterCaptures
  /\ stage = 5 => InGoodQuiets
  /\ stage = 6 => InBadCaptures
  /\ stage = 7 => InBadQuiets

Finished ==
  caller = "done" => \/ stage \in {10, 13, 16} /\ cur = endCur
                     \/ stage = 7 /\ (skipQuiets \/ cur = endCur)

PickInv ==
  /\ PickTypes /\ HashMoveFirst /\ Stagewise /\ Finished
  /\ IsInjective(returned) /\ ReturnedInOrder

------------------------------------------------------------------------------
(* The stages by their numbers.                                            *)
LEMMA StageNames ==
  ASSUME stage \in 1 .. 16
  PROVE  /\ At({"MAIN_TT", "EVASION_TT", "QSEARCH_TT", "PROBCUT_TT"}) <=> stage \in {1, 8, 11, 14}
         /\ At({"CAPTURE_INIT", "PROBCUT_INIT", "QCAPTURE_INIT"}) <=> stage \in {2, 12, 15}
         /\ At({"EVASION_INIT"}) <=> stage = 9
         /\ At({"QUIET_INIT"}) <=> stage = 4
         /\ At({"GOOD_CAPTURE"}) <=> stage = 3
         /\ At({"GOOD_QUIET"}) <=> stage = 5
         /\ At({"BAD_CAPTURE"}) <=> stage = 6
         /\ At({"BAD_QUIET"}) <=> stage = 7
         /\ At({"GOOD_QUIET", "BAD_QUIET"}) <=> stage \in {5, 7}
         /\ At({"GOOD_CAPTURE", "PROBCUT"}) <=> stage \in {3, 13}
         /\ At({"GOOD_CAPTURE", "BAD_CAPTURE", "EVASION", "QCAPTURE", "PROBCUT"}) <=>
              stage \in {3, 6, 10, 13, 16}
         /\ At({"BAD_QUIET", "EVASION", "QCAPTURE", "PROBCUT"}) <=> stage \in {7, 10, 13, 16}
<1>1. /\ Stages[1] = "MAIN_TT" /\ Stages[2] = "CAPTURE_INIT" /\ Stages[3] = "GOOD_CAPTURE"
      /\ Stages[4] = "QUIET_INIT" /\ Stages[5] = "GOOD_QUIET" /\ Stages[6] = "BAD_CAPTURE"
      /\ Stages[7] = "BAD_QUIET" /\ Stages[8] = "EVASION_TT" /\ Stages[9] = "EVASION_INIT"
      /\ Stages[10] = "EVASION" /\ Stages[11] = "PROBCUT_TT" /\ Stages[12] = "PROBCUT_INIT"
      /\ Stages[13] = "PROBCUT" /\ Stages[14] = "QSEARCH_TT" /\ Stages[15] = "QCAPTURE_INIT"
      /\ Stages[16] = "QCAPTURE"
  BY DEF Stages
<1>2. \/ stage = 1 \/ stage = 2 \/ stage = 3 \/ stage = 4 \/ stage = 5 \/ stage = 6 \/ stage = 7
      \/ stage = 8 \/ stage = 9 \/ stage = 10 \/ stage = 11 \/ stage = 12 \/ stage = 13
      \/ stage = 14 \/ stage = 15 \/ stage = 16
  OBVIOUS
<1>. QED
  BY <1>1, <1>2 DEF At

LEMMA SelectsWhen ==
  ASSUME stage \in 1 .. 16
  PROVE  /\ Selects <=> stage \in {3, 6, 10, 13, 16} \/ (stage \in {5, 7} /\ ~skipQuiets)
         /\ \A x : /\ stage \in {3, 13} => (Wanted(x) <=> good[x.move])
                   /\ stage = 5 => (Wanted(x) <=> x.value > goodQuietThreshold)
                   /\ stage = 7 => (Wanted(x) <=> x.value <= goodQuietThreshold)
                   /\ stage \in {6, 10, 16} => Wanted(x)
<1>1. Selects <=> stage \in {3, 6, 10, 13, 16} \/ (stage \in {5, 7} /\ ~skipQuiets)
  BY StageNames DEF Selects
<1>2. ASSUME NEW x
      PROVE  /\ stage \in {3, 13} => (Wanted(x) <=> good[x.move])
             /\ stage = 5 => (Wanted(x) <=> x.value > goodQuietThreshold)
             /\ stage = 7 => (Wanted(x) <=> x.value <= goodQuietThreshold)
             /\ stage \in {6, 10, 16} => Wanted(x)
  <2>1. stage \in {3, 13} => (Wanted(x) <=> good[x.move])
    BY StageNames DEF Wanted
  <2>2. stage = 5 => (Wanted(x) <=> x.value > goodQuietThreshold)
    BY StageNames DEF Wanted
  <2>3. stage = 7 => (Wanted(x) <=> x.value <= goodQuietThreshold)
    BY StageNames DEF Wanted
  <2>4. stage \in {6, 10, 16} => Wanted(x)
    BY StageNames DEF Wanted
  <2>. QED
    BY <2>1, <2>2, <2>3, <2>4
<1>. QED
  BY <1>1, <1>2

(* A move is returned that has not been, and that may follow what has.     *)
LEMMA Appends ==
  ASSUME returned \in Seq(Moves), IsInjective(returned), ReturnedInOrder,
         NEW m \in Moves, Returns(m), ~Came(m), \A a \in Moves : Came(a) => InOrder(a, m)
  PROVE  /\ returned' \in Seq(Moves) /\ IsInjective(returned') /\ ReturnedInOrder'
         /\ \A a : Came(a)' <=> a = m \/ Came(a)
<1>. DEFINE n == Len(returned)
<1>1. /\ n \in Nat /\ returned' = Append(returned, m) /\ returned' \in Seq(Moves)
      /\ Len(returned') = n + 1 /\ DOMAIN returned' = 1 .. (n + 1) /\ DOMAIN returned = 1 .. n
  BY DEF Returns
<1>2. returned'[n + 1] = m /\ \A i \in 1 .. n : returned'[i] = returned[i]
  BY <1>1
<1>3. ToSet(returned) = {returned[i] : i \in 1 .. n} /\ ToSet(returned') = {returned'[i] : i \in 1 .. (n + 1)}
  BY <1>1 DEF ToSet
<1>. HIDE DEF n
<1>4. \A i \in 1 .. n : Came(returned[i]) /\ returned[i] \in Moves
  BY <1>1, <1>3 DEF Came
<1>5. \A a : Came(a)' <=> a = m \/ Came(a)
  <2>1. \A a : Came(a) <=> \E i \in 1 .. n : returned[i] = a
    BY <1>3 DEF Came
  <2>2. \A a : Came(a)' <=> \E i \in 1 .. (n + 1) : returned'[i] = a
    BY <1>3 DEF Came
  <2>3. \A i : i \in 1 .. (n + 1) <=> i \in 1 .. n \/ i = n + 1
    BY <1>1
  <2>. QED
    BY <1>2, <2>1, <2>2, <2>3
<1>6. IsInjective(returned')
  <2>. SUFFICES ASSUME NEW i \in 1 .. (n + 1), NEW j \in 1 .. (n + 1), returned'[i] = returned'[j]
                PROVE  i = j
    BY <1>1 DEF IsInjective
  <2>1. \A x, y \in 1 .. n : returned[x] = returned[y] => x = y
    BY <1>1 DEF IsInjective
  <2>2. \A x \in 1 .. n : returned[x] # m
    BY <1>4
  <2>3. \A x \in 1 .. (n + 1) : x \in 1 .. n \/ x = n + 1
    BY <1>1
  <2>. QED
    BY <1>2, <2>1, <2>2, <2>3
<1>7. \A a, b : InOrder(a, b)' <=> InOrder(a, b)
  BY DEF Returns, position, InOrder, StageOf, QuietLimit
<1>8. ReturnedInOrder'
  <2>. SUFFICES ASSUME NEW j \in 1 .. (n + 1), NEW i \in 1 .. (j - 1)
                PROVE  InOrder(returned'[i], returned'[j])
    BY <1>1, <1>7 DEF ReturnedInOrder
  <2>1. CASE j = n + 1
    <3>1. i \in 1 .. n /\ returned'[i] = returned[i] /\ returned'[j] = m
      BY <1>1, <1>2, <2>1
    <3>. QED
      BY <1>4, <3>1
  <2>2. CASE j # n + 1
    <3>1. i \in 1 .. n /\ j \in 1 .. n
      BY <1>1, <2>2
    <3>2. InOrder(returned[i], returned[j])
      BY <1>1, <3>1 DEF ReturnedInOrder
    <3>. QED
      BY <1>2, <3>1, <3>2
  <2>. QED
    BY <2>1, <2>2
<1>. QED
  BY <1>1, <1>5, <1>6, <1>8

------------------------------------------------------------------------------
(* The invariant holds at first, and each step keeps it.                   *)
LEMMA Keeps ==
  ASSUME UNCHANGED <<position, returned>>
  PROVE  /\ \A a : Came(a)' <=> Came(a)
         /\ IsInjective(returned)' <=> IsInjective(returned)
         /\ ReturnedInOrder' <=> ReturnedInOrder
<1>1. \A a : Came(a)' <=> Came(a)
  BY DEF Came
<1>2. \A a, b : InOrder(a, b)' <=> InOrder(a, b)
  BY DEF position, InOrder, StageOf, QuietLimit
<1>. QED
  BY <1>1, <1>2 DEF ReturnedInOrder

LEMMA InitHolds ==
  ASSUME PickInit
  PROVE  PickInv
<1>1. PickTypes
  <2>1. depth \in Int
    BY PickerAssumption DEF PickInit
  <2>2. Values
    BY PickerAssumption DEF PickInit, Values
  <2>3. stage \in 1 .. 16 /\ kind = (IF stage <= 7 THEN "main" ELSE IF stage <= 10 THEN "evasion"
                                     ELSE IF stage <= 13 THEN "probcut" ELSE "qsearch")
    BY DEF PickInit, FirstStage
  <2>4. /\ good \in [Captures -> BOOLEAN] /\ skipQuiets = FALSE /\ caller = "busy"
        /\ returned = << >> /\ moves = << >>
    BY DEF PickInit
  <2>5. << >> \in Seq(Moves) /\ << >> \in Seq(Element)
    OBVIOUS
  <2>. QED
    BY <2>1, <2>2, <2>3, <2>4, <2>5 DEF PickTypes
<1>2. returned = << >> /\ moves = << >> /\ caller = "busy" /\ \A a : ~Came(a)
  BY DEF PickInit, Came, ToSet
<1>3. stage \in {1, 2, 8, 9, 11, 12, 14, 15} /\ (stage \in {1, 8, 11, 14} <=> PseudoLegal(kind, ttMove))
  BY DEF PickInit, FirstStage
<1>4. HashMoveFirst
  BY <1>2, <1>3 DEF HashMoveFirst, PickInit
<1>5. Stagewise /\ Finished
  BY <1>2, <1>3 DEF Stagewise, Finished
<1>6. IsInjective(returned) /\ ReturnedInOrder
  BY <1>2 DEF IsInjective, ReturnedInOrder
<1>. QED
  BY <1>1, <1>4, <1>5, <1>6 DEF PickInv

LEMMA SameArray ==
  ASSUME UNCHANGED <<position, stage, moves, pointers, skipQuiets, returned>>
  PROVE  (HashMoveFirst' <=> HashMoveFirst) /\ (Stagewise' <=> Stagewise)
<1>1. \A a, m : Passed(a, m)' <=> Passed(a, m)
  BY DEF pointers, Passed
<1>2. \A a : Came(a)' <=> Came(a)
  BY Keeps
<1>3. HashMoveFirst' <=> HashMoveFirst
  BY <1>2 DEF position, pointers, HashMoveFirst
<1>4. \A list, a, b, S : Holds(list, a, b, S)' <=> Holds(list, a, b, S)
  BY DEF position, Holds
<1>5. \A m : GoodQuiet(m)' <=> GoodQuiet(m)
  BY DEF position, GoodQuiet
<1>6. OneList' <=> OneList
  BY <1>1, <1>2, <1>4 DEF position, pointers, OneList, ListOf, Descending
<1>7. Looking' <=> Looking
  BY <1>1, <1>2, <1>4 DEF position, pointers, Looking, ListOf
<1>8. (CapturesSplit' <=> CapturesSplit) /\ (QuietsBehind' <=> QuietsBehind)
  BY <1>4 DEF position, pointers, CapturesSplit, QuietsBehind, Descending, QuietLimit
<1>9. (AfterCaptures' <=> AfterCaptures) /\ (InGoodQuiets' <=> InGoodQuiets)
  BY <1>1, <1>2, <1>5 DEF position, pointers, AfterCaptures, InGoodQuiets
<1>10. (InBadCaptures' <=> InBadCaptures) /\ (InBadQuiets' <=> InBadQuiets)
  BY <1>1, <1>2, <1>5 DEF position, pointers, InBadCaptures, InBadQuiets
<1>. QED
  BY <1>3, <1>6, <1>7, <1>8, <1>9, <1>10 DEF Stagewise

LEMMA AskHolds ==
  ASSUME PickInv, Ask \/ UNCHANGED pickVars
  PROVE  PickInv'
<1>1. UNCHANGED <<position, stage, moves, pointers, skipQuiets, returned>>
      /\ (caller' = "waits" \/ caller' = caller)
  BY DEF Ask, pickVars
<1>2. PickTypes'
  BY <1>1 DEF PickInv, PickTypes, Values, position
<1>3. Finished'
  BY <1>1 DEF PickInv, Finished, pointers
<1>. QED
  BY <1>1, <1>2, <1>3, Keeps, SameArray DEF PickInv

LEMMA SkipHolds ==
  ASSUME PickInv, skip_quiet_moves
  PROVE  PickInv'
<1>1. /\ UNCHANGED <<position, stage, moves, pointers, caller, returned>>
      /\ skipQuiets' = TRUE /\ caller = "busy" /\ kind \in {"main", "evasion"}
  BY DEF skip_quiet_moves
<1>2. PickTypes'
  BY <1>1 DEF PickInv, PickTypes, Values, position
<1>3. Finished'
  BY <1>1 DEF Finished
<1>4. \A a, m : Passed(a, m)' <=> Passed(a, m)
  BY <1>1 DEF pointers, Passed
<1>5. \A a : Came(a)' <=> Came(a)
  BY <1>1, Keeps
<1>6. HashMoveFirst'
  BY <1>1, <1>5 DEF PickInv, position, pointers, HashMoveFirst
<1>7. \A list, a, b, S : Holds(list, a, b, S)' <=> Holds(list, a, b, S)
  BY <1>1 DEF position, Holds
<1>8. \A m : GoodQuiet(m)' <=> GoodQuiet(m)
  BY <1>1 DEF position, GoodQuiet
<1>9. OneList => OneList'
  BY <1>1, <1>4, <1>5, <1>7 DEF position, pointers, OneList, ListOf, Descending
<1>10. Looking => Looking'
  BY <1>1, <1>4, <1>5, <1>7 DEF position, pointers, Looking, ListOf
<1>11. (CapturesSplit => CapturesSplit') /\ (QuietsBehind => QuietsBehind')
  BY <1>1, <1>7 DEF position, pointers, CapturesSplit, QuietsBehind, Descending, QuietLimit
<1>12. (AfterCaptures => AfterCaptures') /\ (InGoodQuiets => InGoodQuiets')
  BY <1>1, <1>4, <1>5, <1>8 DEF position, pointers, AfterCaptures, InGoodQuiets
<1>13. (InBadCaptures => InBadCaptures') /\ (InBadQuiets => InBadQuiets')
  BY <1>1, <1>4, <1>5, <1>8 DEF position, pointers, InBadCaptures, InBadQuiets
<1>14. Stagewise'
  BY <1>1, <1>9, <1>10, <1>11, <1>12, <1>13 DEF PickInv, Stagewise
<1>. QED
  BY <1>1, <1>2, <1>3, <1>6, <1>14, Keeps DEF PickInv

(* The hash move comes. *)
LEMMA TTHolds ==
  ASSUME PickInv, TTStage
  PROVE  PickInv'
<1>1. stage \in {1, 8, 11, 14} /\ stage' = stage + 1 /\ Returns(ttMove) /\ UNCHANGED <<moves, pointers>>
  BY StageNames DEF PickInv, PickTypes, TTStage
<1>2. PseudoLegal(kind, ttMove) /\ ~Came(ttMove) /\ moves = << >> /\ endBadCaptures = Unset
      /\ \A a \in Moves : ~Came(a)
  BY <1>1 DEF PickInv, HashMoveFirst
<1>3. ttMove \in Moves
  BY <1>2 DEF PseudoLegal, Moves
<1>4. /\ returned' \in Seq(Moves) /\ IsInjective(returned') /\ ReturnedInOrder'
      /\ \A a : Came(a)' <=> a = ttMove \/ Came(a)
  BY <1>1, <1>2, <1>3, Appends DEF PickInv, PickTypes
<1>5. UNCHANGED <<position, skipQuiets>> /\ caller' = "busy"
  BY <1>1 DEF Returns
<1>6. PickTypes'
  BY <1>1, <1>4, <1>5 DEF PickInv, PickTypes, Values, position
<1>7. HashMoveFirst'
  BY <1>1, <1>2, <1>4, <1>5 DEF HashMoveFirst, position, pointers, PseudoLegal
<1>8. Stagewise' /\ Finished'
  BY <1>1, <1>5 DEF Stagewise, Finished
<1>. QED
  BY <1>4, <1>6, <1>7, <1>8 DEF PickInv

(* The captures are scored and sorted. *)
LEMMA CaptureInitHolds ==
  ASSUME PickInv, CaptureInit
  PROVE  PickInv'
<1>1. /\ stage \in {2, 12, 15} /\ stage' = stage + 1 /\ caller = "waits"
      /\ moves' = Sorted(Captures) /\ cur' = 1 /\ endBadCaptures' = 1
      /\ endCur' = Len(moves') + 1 /\ endCaptures' = endCur'
      /\ UNCHANGED <<position, skipQuiets, caller, returned>>
  BY StageNames DEF PickInv, PickTypes, CaptureInit, Continues
<1>2. Captures \in SUBSET Moves
  BY DEF Moves
<1>. DEFINE list == Sorted(Captures)
<1>3. ListOf(list, Captures) /\ Len(list) = Cardinality(Captures)
      /\ Descending(list, 1, Cardinality(Captures), NoLimit)
  BY <1>2, SortedFacts DEF PickInv, PickTypes
<1>. HIDE DEF list
<1>4. list \in Seq(Element) /\ Len(list) \in Nat
  BY <1>3 DEF ListOf
<1>5. UNCHANGED value /\ UNCHANGED good /\ UNCHANGED kind /\ UNCHANGED ttMove /\ UNCHANGED depth
  BY <1>1 DEF position
<1>6. ListOf(moves, Captures)'
  BY <1>1, <1>3, <1>5 DEF list, ListOf, Holds
<1>7. \A a : Came(a)' <=> Came(a)
  BY <1>1, Keeps
<1>8. \A m \in Moves : m # ttMove => ~Came(m)
  BY <1>1 DEF PickInv, HashMoveFirst
<1>9. \A m : ~Passed(1, m)'
  BY <1>1 DEF Passed
<1>10. PickTypes'
  BY <1>1, <1>4, <1>5 DEF PickInv, PickTypes, Values, list
<1>11. HashMoveFirst'
  BY <1>1, <1>5, <1>7 DEF PickInv, HashMoveFirst, PseudoLegal
<1>12. CASE stage = 2
  <2>1. \A i, j \in 1 .. Len(list) : i < j => list[i].value >= list[j].value
    <3>1. \A j \in 1 .. Len(list) : list[j].value \in Int /\ list[j].value >= NoLimit
      BY <1>2, <1>3, <1>4 DEF ListOf, Holds, PickInv, PickTypes, Values
    <3>. QED
      BY <1>3, <3>1 DEF Descending
  <2>2. Looking'
    BY <1>1, <1>3, <1>4, <1>5, <1>6, <1>7, <1>8, <1>9, <2>1 DEF Looking, list
  <2>3. Stagewise' /\ Finished'
    BY <1>1, <1>12, <2>2 DEF Stagewise, Finished
  <2>. QED
    BY <1>1, <1>10, <1>11, <2>3, Keeps DEF PickInv
<1>13. CASE stage \in {12, 15}
  <2>1. OneList'
    BY <1>1, <1>3, <1>4, <1>5, <1>6, <1>7, <1>8, <1>9, <1>13 DEF OneList, list, Descending
  <2>2. Stagewise' /\ Finished'
    BY <1>1, <1>13, <2>1 DEF Stagewise, Finished
  <2>. QED
    BY <1>1, <1>10, <1>11, <2>2, Keeps DEF PickInv
<1>. QED
  BY <1>1, <1>12, <1>13

(* The evasions are. *)
LEMMA EvasionInitHolds ==
  ASSUME PickInv, EvasionInit
  PROVE  PickInv'
<1>1. /\ stage = 9 /\ stage' = 10 /\ caller = "waits"
      /\ moves' = Sorted(Moves) /\ cur' = 1 /\ endCur' = Len(moves') + 1
      /\ UNCHANGED <<position, skipQuiets, caller, returned, endBadCaptures, endCaptures>>
  BY StageNames DEF PickInv, PickTypes, EvasionInit, Continues
<1>. DEFINE list == Sorted(Moves)
<1>3. ListOf(list, Moves) /\ Len(list) = Cardinality(Moves)
      /\ Descending(list, 1, Cardinality(Moves), NoLimit)
  BY SortedFacts DEF PickInv, PickTypes
<1>. HIDE DEF list
<1>4. list \in Seq(Element) /\ Len(list) \in Nat
  BY <1>3 DEF ListOf
<1>5. UNCHANGED value /\ UNCHANGED good /\ UNCHANGED kind /\ UNCHANGED ttMove /\ UNCHANGED depth
  BY <1>1 DEF position
<1>6. ListOf(moves, Moves)'
  BY <1>1, <1>3, <1>5 DEF list, ListOf, Holds
<1>7. \A a : Came(a)' <=> Came(a)
  BY <1>1, Keeps
<1>8. endBadCaptures = Unset /\ \A m \in Moves : m # ttMove => ~Came(m)
  BY <1>1 DEF PickInv, HashMoveFirst
<1>9. \A m : ~Passed(1, m)'
  BY <1>1 DEF Passed
<1>10. PickTypes'
  BY <1>1, <1>4, <1>5 DEF PickInv, PickTypes, Values, list
<1>11. HashMoveFirst'
  BY <1>1, <1>5, <1>7 DEF PickInv, HashMoveFirst, PseudoLegal
<1>12. OneList'
  BY <1>1, <1>3, <1>4, <1>5, <1>6, <1>7, <1>8, <1>9 DEF OneList, list, Descending
<1>13. Stagewise' /\ Finished'
  BY <1>1, <1>12 DEF Stagewise, Finished
<1>. QED
  BY <1>1, <1>10, <1>11, <1>13, Keeps DEF PickInv

LEMMA CountMoves ==
  /\ Cardinality(Captures) \in Nat /\ Cardinality(Quiets) \in Nat
  /\ Cardinality(Moves) = Cardinality(Captures) + Cardinality(Quiets)
<1>1. IsFiniteSet(Captures) /\ IsFiniteSet(Quiets) /\ Captures \cap Quiets = {}
  BY PickerAssumption
<1>2. Cardinality(Captures) \in Nat /\ Cardinality(Quiets) \in Nat
  BY <1>1, FS_CardinalityType
<1>3. Cardinality(Captures \cup Quiets) =
        Cardinality(Captures) + Cardinality(Quiets) - Cardinality(Captures \cap Quiets)
  BY <1>1, FS_Union
<1>4. Cardinality(Captures \cap Quiets) = 0
  BY <1>1, FS_EmptySet
<1>. QED
  BY <1>2, <1>3, <1>4 DEF Moves

(* The quiet moves go behind the captures, unless they are skipped. *)
LEMMA QuietInitHolds ==
  ASSUME PickInv, QuietInit
  PROVE  PickInv'
<1>. DEFINE L == Len(moves)
            Q == Cardinality(Quiets)
            list == partial_insertion_sort(score(Quiets), QuietLimit)
<1>1. /\ stage = 4 /\ stage' = 5 /\ caller = "waits"
      /\ UNCHANGED <<position, skipQuiets, caller, returned, cur, endBadCaptures, endCaptures>>
      /\ skipQuiets => UNCHANGED <<moves, endCur, endGenerated>>
      /\ ~skipQuiets => /\ moves' = SubSeq(moves, 1, cur - 1) \o list
                        /\ endCur' = cur + Q /\ endGenerated' = endCur'
  <2>1. stage = 4 /\ skipQuiets \in BOOLEAN
    BY StageNames DEF PickInv, PickTypes, QuietInit
  <2>. HIDE DEF list, Q
  <2>2. /\ stage' = stage + 1 /\ caller = "waits"
        /\ UNCHANGED <<position, skipQuiets, caller, returned, cur, endBadCaptures, endCaptures>>
    BY DEF QuietInit, Continues
  <2>3. skipQuiets => UNCHANGED <<moves, endCur, endGenerated>>
    BY DEF QuietInit
  <2>4. ~skipQuiets => moves' = SubSeq(moves, 1, cur - 1) \o list
    BY DEF QuietInit, list
  <2>5. ~skipQuiets => endCur' = cur + Q /\ endGenerated' = endCur'
    BY DEF QuietInit, Q
  <2>6. stage' = 5
    BY <2>1, <2>2
  <2>. QED
    BY <2>1, <2>2, <2>3, <2>4, <2>5, <2>6, Zenon
<1>2. PickTypes /\ CapturesSplit /\ AfterCaptures /\ HashMoveFirst
  BY <1>1 DEF PickInv, Stagewise
<1>3. /\ ListOf(list, Quiets) /\ Len(list) = Q /\ Descending(list, 1, Q, QuietLimit)
      /\ Q \in Nat /\ Cardinality(Captures) \in Nat
      /\ Cardinality(Moves) = Cardinality(Captures) + Q
  BY <1>2, QuietFacts, CountMoves DEF PickTypes
<1>. HIDE DEF list, Q
<1>4. list \in Seq(Element) /\ Len(list) = Q
  BY <1>3 DEF ListOf
<1>5. UNCHANGED value /\ UNCHANGED good /\ UNCHANGED kind /\ UNCHANGED ttMove /\ UNCHANGED depth
  BY <1>1 DEF position
<1>6. L = Cardinality(Captures) /\ endCaptures = L + 1 /\ cur = L + 1 /\ moves \in Seq(Element)
  BY <1>2, <1>3 DEF CapturesSplit, AfterCaptures, PickTypes
<1>7. \A a : Came(a)' <=> Came(a)
  BY <1>1, Keeps
<1>8. HashMoveFirst'
  BY <1>1, <1>2, <1>5, <1>7 DEF HashMoveFirst, PseudoLegal
<1>9. \A m : ~Passed(endCaptures, m)'
  BY <1>1, <1>6 DEF Passed
<1>10. /\ \A m \in Captures : m # ttMove => (Came(m)' <=> good'[m])
       /\ \A m \in Quiets : m # ttMove => (Came(m)' <=> GoodQuiet(m)' /\ Passed(endCaptures, m)')
  <2>1. \A m \in Quiets : m \notin Captures /\ m \in Moves
    BY PickerAssumption DEF Moves
  <2>. QED
    BY <1>2, <1>5, <1>7, <1>9, <2>1 DEF AfterCaptures, Moves
<1>11. moves' \in Seq(Element) => PickTypes'
  BY <1>1, <1>2, <1>5 DEF PickTypes, Values
<1>12. Finished'
  BY <1>1 DEF Finished
<1>13. CASE skipQuiets
  <2>1. UNCHANGED <<moves, endCur, endGenerated>>
    BY <1>1, <1>13
  <2>2. CapturesSplit'
    BY <1>1, <1>2, <1>5, <2>1 DEF CapturesSplit, Holds, Descending
  <2>3. QuietsBehind'
    BY <1>1, <1>6, <1>13, <2>1 DEF QuietsBehind
  <2>4. InGoodQuiets'
    <3>1. endCur' = Len(moves') + 1 /\ cur' \in endCaptures' .. endCur'
      <4>1. endCur = cur /\ L \in Nat
        BY <1>2, <1>6 DEF AfterCaptures
      <4>2. endCur' = L + 1 /\ cur' = L + 1 /\ endCaptures' = L + 1 /\ Len(moves') = L
        BY <1>1, <1>6, <2>1, <4>1
      <4>. QED
        BY <4>1, <4>2
    <3>. QED
      BY <1>1, <1>5, <1>10, <3>1 DEF InGoodQuiets
  <2>5. Stagewise'
    BY <1>1, <2>2, <2>3, <2>4 DEF Stagewise
  <2>. QED
    BY <1>1, <1>6, <1>8, <1>11, <1>12, <2>1, <2>5, Keeps DEF PickInv
<1>14. CASE ~skipQuiets
  <2>1. moves' = moves \o list /\ endCur' = L + 1 + Q /\ endGenerated' = endCur'
    <3>1. SubSeq(moves, 1, L) = moves
      BY <1>6
    <3>2. cur - 1 = L
      BY <1>6
    <3>. QED
      BY <1>1, <1>6, <1>14, <3>1, <3>2
  <2>2. moves' \in Seq(Element) /\ Len(moves') = L + Q
    <3>1. moves \in Seq(Element) /\ list \in Seq(Element)
      BY <1>4, <1>6
    <3>2. moves \o list \in Seq(Element) /\ Len(moves \o list) = Len(moves) + Len(list)
      BY <3>1
    <3>. QED
      BY <1>4, <2>1, <3>2
  <2>3. /\ L \in Nat
        /\ \A i \in 1 .. L : moves'[i] = moves[i]
        /\ \A i \in (L + 1) .. (L + Q) : moves'[i] = list[i - L] /\ i - L \in 1 .. Q
    <3>1. L \in Nat /\ Q \in Nat
      BY <1>3, <1>6
    <3>2. moves \in Seq(Element) /\ Len(moves) = L /\ list \in Seq(Element) /\ Len(list) = Q
      BY <1>4, <1>6
    <3>3. \A i \in 1 .. L : (moves \o list)[i] = moves[i]
      BY <3>1, <3>2
    <3>4. \A i \in (L + 1) .. (L + Q) : (moves \o list)[i] = list[i - L] /\ i - L \in 1 .. Q
      BY <3>1, <3>2
    <3>. QED
      BY <2>1, <3>1, <3>3, <3>4
  <2>. HIDE DEF L
  <2>4. CapturesSplit'
    <3>1. Holds(moves, 1, endCaptures - 1, Captures)'
      <4>1. Holds(moves, 1, L, Captures)
        BY <1>2, <1>6, <2>3 DEF CapturesSplit
      <4>2. endCaptures' - 1 = L
        BY <1>1, <1>6, <2>3
      <4>. QED
        BY <1>5, <2>3, <4>1, <4>2 DEF Holds
    <3>2. \A i \in 1 .. L : moves'[i] = moves[i]
      BY <2>3
    <3>3. endBadCaptures \in 1 .. (L + 1)
      BY <1>2, <1>6 DEF CapturesSplit
    <3>4. Descending(moves, 1, endBadCaptures - 1, NoLimit)'
      BY <1>1, <1>2, <2>3, <3>3 DEF CapturesSplit, Descending
    <3>5. \A i \in 1 .. (endBadCaptures - 1) : moves'[i].move # ttMove /\ ~good[moves'[i].move]
      <4>1. \A i \in 1 .. (endBadCaptures - 1) : moves[i].move # ttMove /\ ~good[moves[i].move]
        BY <1>2 DEF CapturesSplit
      <4>2. \A i \in 1 .. (endBadCaptures - 1) : i \in 1 .. L
        BY <2>3, <3>3
      <4>. QED
        BY <3>2, <4>1, <4>2
    <3>6. \A i \in endBadCaptures .. L : moves'[i].move # ttMove => good[moves'[i].move]
      <4>1. \A i \in endBadCaptures .. L : moves[i].move # ttMove => good[moves[i].move]
        BY <1>2, <1>6, <2>3 DEF CapturesSplit
      <4>2. \A i \in endBadCaptures .. L : i \in 1 .. L
        BY <2>3, <3>3
      <4>. QED
        BY <2>3, <4>1, <4>2
    <3>. QED
      <4>1. endCaptures' = Cardinality(Captures) + 1 /\ Len(moves') >= endCaptures' - 1
            /\ endCaptures' - 1 = L /\ endBadCaptures' = endBadCaptures
        BY <1>1, <1>3, <1>6, <2>2, <2>3
      <4>. QED
        BY <1>1, <1>5, <1>6, <3>1, <3>3, <3>4, <3>5, <3>6, <4>1 DEF CapturesSplit
  <2>5. QuietsBehind'
    <3>1. Holds(list, 1, Q, Quiets)
      BY <1>3 DEF ListOf
    <3>2. Holds(moves, endCaptures, Len(moves), Quiets)'
      <4>1. \A i \in 1 .. Q : i + L \in (L + 1) .. (L + Q) /\ moves'[i + L] = list[i]
        BY <1>3, <2>3
      <4>2. \A m \in Quiets : \E i \in (L + 1) .. (L + Q) : moves'[i].move = m
        BY <3>1, <4>1 DEF Holds
      <4>3. \A i \in (L + 1) .. (L + Q) : moves'[i].move \in Quiets /\ moves'[i].value = value[moves'[i].move]
        BY <2>3, <3>1 DEF Holds
      <4>4. \A i, j \in (L + 1) .. (L + Q) : moves'[i].move = moves'[j].move => i = j
        <5>1. \A i, j \in 1 .. Q : list[i].move = list[j].move => i = j
          BY <3>1 DEF Holds
        <5>2. \A i, j \in (L + 1) .. (L + Q) : i - L = j - L => i = j
          BY <2>3
        <5>. QED
          BY <2>3, <5>1, <5>2
      <4>. QED
        BY <1>1, <1>5, <1>6, <2>2, <4>2, <4>3, <4>4 DEF Holds
    <3>3. Descending(moves, endCaptures, Len(moves), QuietLimit)'
      <4>1. \A i, j \in 1 .. Q : i < j /\ list[j].value >= QuietLimit => list[i].value >= list[j].value
        BY <1>3 DEF Descending
      <4>2. \A i, j \in (L + 1) .. (L + Q) : i < j => i - L < j - L
        BY <1>3, <2>3
      <4>3. \A i, j \in (L + 1) .. (L + Q) : i < j /\ moves'[j].value >= QuietLimit
                                         => moves'[i].value >= moves'[j].value
        BY <2>3, <4>1, <4>2
      <4>4. QuietLimit' = QuietLimit
        BY <1>5 DEF QuietLimit
      <4>. QED
        BY <1>1, <1>6, <2>2, <4>3, <4>4 DEF Descending
    <3>. QED
      BY <1>3, <1>6, <2>1, <2>2, <3>2, <3>3 DEF QuietsBehind
  <2>6. InGoodQuiets'
    <3>1. endCur' = Len(moves') + 1 /\ cur' \in endCaptures' .. endCur'
      <4>1. endCur' = L + 1 + Q /\ Len(moves') = L + Q /\ cur' = L + 1 /\ endCaptures' = L + 1
        BY <1>1, <1>6, <2>1, <2>2
      <4>2. L \in Nat /\ Q \in Nat
        BY <1>3, <2>3
      <4>3. endCur' = Len(moves') + 1
        BY <4>1, <4>2
      <4>4. cur' \in endCaptures' .. endCur'
        BY <4>1, <4>2
      <4>. QED
        BY <4>3, <4>4
    <3>. QED
      BY <1>1, <1>5, <1>10, <3>1 DEF InGoodQuiets
  <2>7. Stagewise'
    BY <1>1, <2>4, <2>5, <2>6 DEF Stagewise
  <2>. QED
    BY <1>1, <1>8, <1>11, <1>12, <2>2, <2>7, Keeps DEF PickInv
<1>. QED
  BY <1>13, <1>14

(* The captures have all been looked at. *)
LEMMA CapturesOverHolds ==
  ASSUME PickInv, CapturesOver
  PROVE  PickInv'
<1>1. /\ stage = 3 /\ stage' = 4 /\ caller = "waits" /\ ~Left
      /\ UNCHANGED <<position, skipQuiets, caller, returned, moves, pointers>>
  <2>1. stage = 3 /\ stage' = stage + 1
    BY StageNames DEF PickInv, PickTypes, CapturesOver
  <2>. QED
    BY <2>1 DEF CapturesOver, Continues
<1>2. PickTypes /\ Looking /\ HashMoveFirst
  BY <1>1 DEF PickInv, Stagewise
<1>3. UNCHANGED <<value, good, kind, ttMove, depth, cur, endCur, endBadCaptures, endCaptures, endGenerated>>
  BY <1>1 DEF position, pointers
<1>. DEFINE L == Len(moves)
            e == endBadCaptures
<1>4. /\ moves \in Seq(Element) /\ L \in Nat /\ Holds(moves, 1, L, Captures)
      /\ cur = L + 1 /\ endCur = L + 1 /\ endCaptures = L + 1 /\ e \in 1 .. (L + 1)
  <2>1. cur >= endCur
    <3>1. ~(cur < endCur)
      BY <1>1, <1>2, SelectsWhen DEF PickTypes, Left
    <3>2. cur \in Int /\ endCur \in Int
      BY <1>2 DEF Looking, PickTypes
    <3>. QED
      BY <3>1, <3>2
  <2>. QED
    BY <1>2, <2>1 DEF Looking, ListOf, PickTypes
<1>5. \A a : Came(a)' <=> Came(a)
  BY <1>1, Keeps
<1>6. CapturesSplit'
  <2>1. Holds(moves, 1, endCaptures - 1, Captures)'
    BY <1>1, <1>3, <1>4 DEF Holds
  <2>2. Descending(moves, 1, endBadCaptures - 1, NoLimit)'
    BY <1>1, <1>2, <1>3, <1>4 DEF Looking, Descending
  <2>3. \A i \in e .. (endCaptures - 1) : moves[i].move # ttMove => good[moves[i].move]
    BY <1>2, <1>4 DEF Looking
  <2>4. \A i \in 1 .. (e - 1) : moves[i].move # ttMove /\ ~good[moves[i].move]
    BY <1>2 DEF Looking
  <2>5. endCaptures = Cardinality(Captures) + 1 /\ L >= endCaptures - 1 /\ e \in 1 .. endCaptures
    BY <1>2, <1>4 DEF Looking
  <2>. QED
    BY <1>1, <1>3, <2>1, <2>2, <2>3, <2>4, <2>5 DEF CapturesSplit
<1>7. AfterCaptures'
  <2>1. ASSUME NEW m \in Moves, m # ttMove PROVE Came(m) <=> m \in Captures /\ good[m]
    <3>1. Came(m) <=> Passed(e, m)
      BY <1>2, <2>1 DEF Looking
    <3>2. Passed(e, m) => m \in Captures /\ good[m]
      <4>1. \A i \in e .. L : moves[i].move \in Captures /\ (moves[i].move # ttMove => good[moves[i].move])
        BY <1>2, <1>4 DEF Looking, Holds
      <4>. QED
        BY <1>4, <2>1, <4>1 DEF Passed
    <3>3. m \in Captures /\ good[m] => Passed(e, m)
      <4>1. m \in Captures => \E i \in 1 .. L : moves[i].move = m
        BY <1>4 DEF Holds
      <4>2. \A i \in 1 .. L : i \in e .. (cur - 1) \/ ~good[moves[i].move]
        BY <1>2, <1>4 DEF Looking
      <4>. QED
        BY <4>1, <4>2 DEF Passed
    <3>. QED
      BY <3>1, <3>2, <3>3
  <2>2. cur' = endCaptures' /\ endCur' = cur' /\ Len(moves') = endCaptures' - 1
    BY <1>1, <1>3, <1>4
  <2>. QED
    BY <1>3, <1>5, <2>1, <2>2 DEF AfterCaptures
<1>8. PickTypes'
  BY <1>1, <1>2, <1>3 DEF PickTypes, Values
<1>9. HashMoveFirst'
  BY <1>1, <1>2, <1>3, <1>5 DEF HashMoveFirst, PseudoLegal
<1>10. Stagewise' /\ Finished'
  BY <1>1, <1>6, <1>7 DEF Stagewise, Finished
<1>. QED
  BY <1>1, <1>8, <1>9, <1>10, Keeps DEF PickInv

(* The captures and the quiet moves do not change between the other stages.*)
LEMMA SameCaptures ==
  ASSUME CapturesSplit, UNCHANGED <<position, moves, endBadCaptures, endCaptures>>
  PROVE  CapturesSplit'
<1>1. UNCHANGED <<value, good, ttMove>>
  BY DEF position
<1>2. Holds(moves, 1, endCaptures - 1, Captures)' /\ Descending(moves, 1, endBadCaptures - 1, NoLimit)'
  BY <1>1 DEF CapturesSplit, Holds, Descending
<1>. QED
  BY <1>1, <1>2 DEF CapturesSplit

LEMMA SameQuiets ==
  ASSUME QuietsBehind, UNCHANGED <<position, moves, endGenerated, endCaptures, skipQuiets>>
  PROVE  QuietsBehind'
<1>1. UNCHANGED <<value, depth>>
  BY DEF position
<1>2. Holds(moves, endCaptures, Len(moves), Quiets)' <=> Holds(moves, endCaptures, Len(moves), Quiets)
  BY <1>1 DEF Holds
<1>3. Descending(moves, endCaptures, Len(moves), QuietLimit)'
        <=> Descending(moves, endCaptures, Len(moves), QuietLimit)
  BY <1>1 DEF Descending, QuietLimit
<1>. QED
  BY <1>2, <1>3 DEF QuietsBehind

(* The good quiet moves have come, or are skipped. *)
LEMMA GoodQuietsOverHolds ==
  ASSUME PickInv, GoodQuietsOver
  PROVE  PickInv'
<1>1. /\ stage = 5 /\ stage' = 6 /\ caller = "waits" /\ ~Left
      /\ UNCHANGED <<position, skipQuiets, caller, returned, moves, endBadCaptures, endCaptures, endGenerated>>
      /\ cur' = 1 /\ endCur' = endBadCaptures
  <2>1. stage = 5 /\ stage' = stage + 1
    BY StageNames DEF PickInv, PickTypes, GoodQuietsOver
  <2>. QED
    BY <2>1 DEF GoodQuietsOver, Continues
<1>2. PickTypes /\ CapturesSplit /\ QuietsBehind /\ InGoodQuiets /\ HashMoveFirst
  BY <1>1 DEF PickInv, Stagewise
<1>3. UNCHANGED <<value, good, kind, ttMove, depth>>
  BY <1>1 DEF position
<1>4. \A a : Came(a)' <=> Came(a)
  BY <1>1, Keeps
<1>5. CapturesSplit' /\ QuietsBehind'
  BY <1>1, <1>2, SameCaptures, SameQuiets
<1>6. InBadCaptures'
  <2>1. \A m : ~Passed(1, m)'
    BY <1>1 DEF Passed
  <2>2. \A m \in Quiets : GoodQuiet(m)' <=> GoodQuiet(m)
    BY <1>3 DEF GoodQuiet
  <2>3. ASSUME NEW m \in Quiets, m # ttMove, GoodQuiet(m), ~skipQuiets PROVE Came(m)
    <3>1. ~(cur < endCur)
      BY <1>1, <1>2, <2>3, SelectsWhen DEF PickTypes, Left
    <3>2. Len(moves) \in Nat /\ endCaptures \in Int
      BY <1>2, CountMoves DEF PickTypes, CapturesSplit
    <3>3. endCur = Len(moves) + 1 /\ cur \in endCaptures .. endCur
      BY <1>2 DEF InGoodQuiets
    <3>4. cur - 1 = Len(moves)
      BY <3>1, <3>2, <3>3
    <3>5. Holds(moves, endCaptures, Len(moves), Quiets)
      BY <1>2, <2>3 DEF QuietsBehind
    <3>6. Passed(endCaptures, m)
      BY <3>4, <3>5 DEF Holds, Passed
    <3>. QED
      BY <1>2, <2>3, <3>6 DEF InGoodQuiets
  <2>4. \A m \in Captures : m # ttMove => (Came(m) <=> good[m])
    BY <1>2 DEF InGoodQuiets
  <2>5. \A m \in Quiets : m # ttMove => (Came(m) => GoodQuiet(m))
    BY <1>2 DEF InGoodQuiets
  <2>6. endCur' = endBadCaptures' /\ cur' \in 1 .. endCur'
    BY <1>1, <1>2, CountMoves DEF CapturesSplit
  <2>. QED
    BY <1>1, <1>3, <1>4, <2>1, <2>2, <2>3, <2>4, <2>5, <2>6 DEF InBadCaptures
<1>7. PickTypes'
  BY <1>1, <1>2, <1>3 DEF PickTypes, Values
<1>8. HashMoveFirst'
  BY <1>1, <1>2, <1>3, <1>4 DEF HashMoveFirst, PseudoLegal
<1>9. Stagewise' /\ Finished'
  BY <1>1, <1>5, <1>6 DEF Stagewise, Finished
<1>. QED
  BY <1>1, <1>7, <1>8, <1>9, Keeps DEF PickInv

(* The bad captures have come. *)
LEMMA BadCapturesOverHolds ==
  ASSUME PickInv, BadCapturesOver
  PROVE  PickInv'
<1>1. /\ stage = 6 /\ stage' = 7 /\ caller = "waits" /\ ~Left
      /\ UNCHANGED <<position, skipQuiets, caller, returned, moves, endBadCaptures, endCaptures, endGenerated>>
      /\ cur' = endCaptures /\ endCur' = endGenerated
  <2>1. stage = 6 /\ stage' = stage + 1
    BY StageNames DEF PickInv, PickTypes, BadCapturesOver
  <2>. QED
    BY <2>1 DEF BadCapturesOver, Continues
<1>2. PickTypes /\ CapturesSplit /\ QuietsBehind /\ InBadCaptures /\ HashMoveFirst
  BY <1>1 DEF PickInv, Stagewise
<1>3. UNCHANGED <<value, good, kind, ttMove, depth>>
  BY <1>1 DEF position
<1>4. \A a : Came(a)' <=> Came(a)
  BY <1>1, Keeps
<1>5. CapturesSplit' /\ QuietsBehind'
  BY <1>1, <1>2, SameCaptures, SameQuiets
<1>6. /\ endCaptures \in Nat /\ endBadCaptures \in 1 .. endCaptures /\ Len(moves) \in Nat
      /\ Len(moves) >= endCaptures - 1
  BY <1>2, CountMoves DEF PickTypes, CapturesSplit
<1>7. cur = endBadCaptures
  <2>1. ~(cur < endCur)
    BY <1>1, <1>2, SelectsWhen DEF PickTypes, Left
  <2>2. endCur = endBadCaptures /\ cur \in 1 .. endCur
    BY <1>2 DEF InBadCaptures
  <2>. QED
    BY <1>6, <2>1, <2>2
<1>8. InBadQuiets'
  <2>1. \A m : ~Passed(endCaptures, m)'
    BY <1>1, <1>6 DEF Passed
  <2>2. \A m \in Quiets : GoodQuiet(m)' <=> GoodQuiet(m)
    BY <1>3 DEF GoodQuiet
  <2>3. ASSUME NEW m \in Captures, m # ttMove PROVE Came(m)
    <3>1. CASE good[m]
      BY <1>2, <2>3, <3>1 DEF InBadCaptures
    <3>2. CASE ~good[m]
      <4>1. PICK i \in 1 .. (endCaptures - 1) : moves[i].move = m
        BY <1>2 DEF CapturesSplit, Holds
      <4>2. ~(i \in endBadCaptures .. (endCaptures - 1))
        BY <1>2, <2>3, <3>2, <4>1 DEF CapturesSplit
      <4>3. i \in 1 .. (cur - 1)
        BY <1>6, <1>7, <4>1, <4>2
      <4>4. Passed(1, m)
        BY <4>1, <4>3 DEF Passed
      <4>. QED
        BY <1>2, <2>3, <4>4 DEF InBadCaptures
    <3>. QED
      BY <3>1, <3>2
  <2>4. \A m \in Quiets : m # ttMove => (Came(m) => GoodQuiet(m)) /\ (GoodQuiet(m) => skipQuiets \/ Came(m))
    BY <1>2 DEF InBadCaptures
  <2>5. endCur' = endGenerated' /\ cur' \in Int /\ cur' >= endCaptures' /\ (skipQuiets' \/ cur' <= endCur')
    <3>1. skipQuiets \/ endGenerated = Len(moves) + 1
      BY <1>2 DEF QuietsBehind
    <3>. QED
      BY <1>1, <1>6, <3>1
  <2>. QED
    BY <1>1, <1>3, <1>4, <2>1, <2>2, <2>3, <2>4, <2>5 DEF InBadQuiets
<1>9. PickTypes'
  BY <1>1, <1>2, <1>3 DEF PickTypes, Values
<1>10. HashMoveFirst'
  BY <1>1, <1>2, <1>3, <1>4 DEF HashMoveFirst, PseudoLegal
<1>11. Stagewise' /\ Finished'
  BY <1>1, <1>5, <1>8 DEF Stagewise, Finished
<1>. QED
  BY <1>1, <1>9, <1>10, <1>11, Keeps DEF PickInv

(* There is nothing left. *)
LEMMA AllOverHolds ==
  ASSUME PickInv, AllOver
  PROVE  PickInv'
<1>1. /\ stage \in {7, 10, 13, 16} /\ ~Left /\ caller' = "done"
      /\ UNCHANGED <<position, stage, moves, pointers, skipQuiets, returned>>
  <2>1. stage \in {7, 10, 13, 16}
    BY StageNames DEF PickInv, PickTypes, AllOver
  <2>. QED
    BY <2>1 DEF AllOver
<1>2. PickTypes'
  BY <1>1 DEF PickInv, PickTypes, Values, position
<1>3. stage \in {10, 13, 16} => cur = endCur
  <2>. SUFFICES ASSUME stage \in {10, 13, 16} PROVE cur = endCur
    OBVIOUS
  <2>1. ~(cur < endCur)
    BY <1>1, SelectsWhen DEF PickInv, PickTypes, Left
  <2>2. OneList /\ Len(moves) \in Nat
    BY DEF PickInv, Stagewise, PickTypes
  <2>3. cur \in 1 .. endCur /\ endCur = Len(moves) + 1
    BY <2>2 DEF OneList
  <2>. QED
    BY <2>1, <2>2, <2>3
<1>4. stage = 7 => skipQuiets \/ cur = endCur
  <2>. SUFFICES ASSUME stage = 7, ~skipQuiets PROVE cur = endCur
    OBVIOUS
  <2>1. ~(cur < endCur)
    BY <1>1, SelectsWhen DEF PickInv, PickTypes, Left
  <2>2. InBadQuiets /\ QuietsBehind /\ CapturesSplit /\ Len(moves) \in Nat
    BY DEF PickInv, Stagewise, PickTypes
  <2>3. endCur = Len(moves) + 1 /\ cur \in Int /\ cur >= endCaptures /\ cur <= endCur /\ endCaptures \in Nat
    BY <2>2, CountMoves DEF InBadQuiets, QuietsBehind, CapturesSplit
  <2>. QED
    BY <2>1, <2>2, <2>3
<1>5. Finished'
  BY <1>1, <1>3, <1>4 DEF Finished, pointers
<1>. QED
  BY <1>1, <1>2, <1>5, Keeps, SameArray DEF PickInv

(* The next element of the array, which comes if it is fresh and wanted.   *)
Advances ==
  /\ Left /\ cur' = cur + 1
  /\ UNCHANGED <<position, stage, moves, endCur, endBadCaptures, endCaptures, endGenerated, skipQuiets>>
  /\ \A a : Came(a)' <=> Came(a) \/ (a = moves[cur].move /\ a # ttMove /\ Wanted(moves[cur]))

LEMMA PassedNext ==
  ASSUME cur \in Int, Advances, NEW a \in Int, a <= cur, NEW x
  PROVE  Passed(a, x)' <=> Passed(a, x) \/ x = moves[cur].move
<1>1. cur' = cur + 1 /\ moves' = moves
  BY DEF Advances
<1>2. \A i : i \in a .. (cur' - 1) <=> i \in a .. (cur - 1) \/ i = cur
  BY <1>1
<1>. QED
  BY <1>1, <1>2 DEF Passed

(* What the element is, and that it has not come yet. *)
LEMMA OneListElement ==
  ASSUME PickTypes, HashMoveFirst, stage \in {10, 13, 16}, OneList, Left
  PROVE  LET m == moves[cur].move IN
         /\ cur \in 1 .. Len(moves) /\ Len(moves) \in Nat /\ moves[cur] \in Element
         /\ m \in Moves /\ (stage # 10 => m \in Captures) /\ value[m] = moves[cur].value
         /\ m # ttMove => ~Came(m)
         /\ \A a \in Moves : Came(a) => a = ttMove \/ value[a] >= value[m]
<1>. DEFINE S == IF stage = 10 THEN Moves ELSE Captures
            L == Len(moves)
            m == moves[cur].move
<1>1. /\ moves \in Seq(Element) /\ L \in Nat /\ Holds(moves, 1, L, S) /\ S \in SUBSET Moves
      /\ Descending(moves, 1, L, NoLimit) /\ endCur = L + 1 /\ cur \in 1 .. endCur /\ cur < endCur
  BY DEF OneList, ListOf, Left, Moves
<1>2. cur \in 1 .. L
  BY <1>1
<1>3. \A i \in 1 .. L : moves[i].move \in S /\ moves[i].value = value[moves[i].move] /\ moves[i] \in Element
  BY <1>1 DEF Holds
<1>4. \A i, j \in 1 .. L : moves[i].move = moves[j].move => i = j
  BY <1>1 DEF Holds
<1>5. \A a \in Moves : a # ttMove /\ Came(a) => \E i \in 1 .. (cur - 1) : moves[i].move = a
  BY DEF OneList, Passed
<1>6. \A i \in 1 .. (cur - 1) : i \in 1 .. L /\ i < cur
  BY <1>1
<1>7. m \in Moves /\ (stage # 10 => m \in Captures) /\ value[m] = moves[cur].value
  BY <1>1, <1>2, <1>3
<1>8. ASSUME m # ttMove, Came(m) PROVE FALSE
  <2>1. PICK i \in 1 .. (cur - 1) : moves[i].move = m
    BY <1>5, <1>7, <1>8
  <2>. QED
    BY <1>2, <1>4, <1>6, <2>1
<1>9. ASSUME NEW a \in Moves, Came(a), a # ttMove PROVE value[a] >= value[m]
  <2>1. PICK i \in 1 .. (cur - 1) : moves[i].move = a
    BY <1>5, <1>9
  <2>2. i \in 1 .. L /\ i < cur /\ moves[i].value = value[a]
    BY <1>3, <1>6, <2>1
  <2>3. moves[cur].value >= NoLimit
    BY <1>7 DEF PickTypes, Values
  <2>. QED
    BY <1>1, <1>2, <1>7, <2>2, <2>3 DEF Descending
<1>. QED
  BY <1>1, <1>2, <1>3, <1>7, <1>8, <1>9

LEMMA LookingElement ==
  ASSUME PickTypes, HashMoveFirst, stage = 3, Looking, Left
  PROVE  LET m == moves[cur].move IN
         /\ cur \in 1 .. Len(moves) /\ Len(moves) \in Nat /\ moves[cur] \in Element
         /\ m \in Captures /\ value[m] = moves[cur].value
         /\ m # ttMove => ~Came(m)
         /\ \A a \in Moves : Came(a) => a = ttMove \/ (a \in Captures /\ good[a] /\ value[a] >= value[m])
<1>. DEFINE L == Len(moves)
            m == moves[cur].move
            e == endBadCaptures
<1>1. /\ moves \in Seq(Element) /\ L \in Nat /\ Holds(moves, 1, L, Captures)
      /\ endCur = L + 1 /\ cur \in 1 .. endCur /\ cur < endCur /\ e \in 1 .. cur
  BY DEF Looking, ListOf, Left
<1>2. cur \in 1 .. L
  BY <1>1
<1>3. \A i \in 1 .. L : /\ moves[i].move \in Captures /\ moves[i].value = value[moves[i].move]
                        /\ moves[i] \in Element
  BY <1>1 DEF Holds
<1>4. \A i, j \in 1 .. L : moves[i].move = moves[j].move => i = j
  BY <1>1 DEF Holds
<1>5. \A a \in Moves : a # ttMove /\ Came(a) => \E i \in e .. (cur - 1) : moves[i].move = a
  BY DEF Looking, Passed
<1>6. \A i \in e .. (cur - 1) : i \in 1 .. L /\ i < cur
  BY <1>1
<1>7. m \in Captures /\ m \in Moves /\ value[m] = moves[cur].value
  BY <1>2, <1>3 DEF Moves
<1>8. ASSUME m # ttMove, Came(m) PROVE FALSE
  <2>1. PICK i \in e .. (cur - 1) : moves[i].move = m
    BY <1>5, <1>7, <1>8
  <2>. QED
    BY <1>2, <1>4, <1>6, <2>1
<1>9. ASSUME NEW a \in Moves, Came(a), a # ttMove PROVE a \in Captures /\ good[a] /\ value[a] >= value[m]
  <2>1. PICK i \in e .. (cur - 1) : moves[i].move = a
    BY <1>5, <1>9
  <2>2. i \in 1 .. L /\ i < cur /\ moves[i].value = value[a] /\ a \in Captures
    BY <1>3, <1>6, <2>1
  <2>3. good[a]
    BY <1>9, <2>1 DEF Looking
  <2>4. moves[i].value >= moves[cur].value
    BY <1>1, <1>2, <2>2 DEF Looking
  <2>. QED
    BY <1>7, <2>2, <2>3, <2>4
<1>. QED
  BY <1>1, <1>2, <1>3, <1>7, <1>8, <1>9

LEMMA BadCapturesElement ==
  ASSUME PickTypes, HashMoveFirst, stage = 6, CapturesSplit, InBadCaptures, Left
  PROVE  LET m == moves[cur].move IN
         /\ cur \in 1 .. Len(moves) /\ Len(moves) \in Nat /\ moves[cur] \in Element
         /\ m \in Captures /\ ~good[m] /\ value[m] = moves[cur].value
         /\ m # ttMove => ~Came(m)
         /\ \A a \in Captures : Came(a) => a = ttMove \/ good[a] \/ value[a] >= value[m]
<1>. DEFINE L == Len(moves)
            m == moves[cur].move
            e == endBadCaptures
            c == endCaptures
<1>1. /\ moves \in Seq(Element) /\ L \in Nat /\ Holds(moves, 1, c - 1, Captures)
      /\ c \in Nat /\ L >= c - 1 /\ e \in 1 .. c /\ endCur = e /\ cur \in 1 .. e /\ cur < e
  BY CountMoves DEF PickTypes, CapturesSplit, InBadCaptures, Left
<1>2. cur \in 1 .. (e - 1) /\ cur \in 1 .. (c - 1) /\ cur \in 1 .. L
  BY <1>1
<1>3. \A i \in 1 .. (c - 1) : moves[i].move \in Captures /\ moves[i].value = value[moves[i].move]
  BY <1>1 DEF Holds
<1>4. \A i, j \in 1 .. (c - 1) : moves[i].move = moves[j].move => i = j
  BY <1>1 DEF Holds
<1>5. \A a \in Captures : a # ttMove /\ Came(a) => good[a] \/ \E i \in 1 .. (cur - 1) : moves[i].move = a
  BY DEF InBadCaptures, Passed
<1>6. \A i \in 1 .. (cur - 1) : i \in 1 .. (c - 1) /\ i \in 1 .. (e - 1) /\ i < cur
  BY <1>1
<1>7. m \in Captures /\ value[m] = moves[cur].value /\ ~good[m]
  BY <1>2, <1>3 DEF CapturesSplit
<1>8. ASSUME m # ttMove, Came(m) PROVE FALSE
  <2>1. PICK i \in 1 .. (cur - 1) : moves[i].move = m
    BY <1>5, <1>7, <1>8
  <2>. QED
    BY <1>2, <1>4, <1>6, <2>1
<1>9. ASSUME NEW a \in Captures, Came(a), a # ttMove, ~good[a] PROVE value[a] >= value[m]
  <2>1. PICK i \in 1 .. (cur - 1) : moves[i].move = a
    BY <1>5, <1>9
  <2>2. i \in 1 .. (e - 1) /\ i < cur /\ moves[i].value = value[a]
    BY <1>3, <1>6, <2>1
  <2>3. moves[cur].value >= NoLimit
    BY <1>7 DEF PickTypes, Values, Moves
  <2>. QED
    BY <1>1, <1>2, <1>7, <2>2, <2>3 DEF CapturesSplit, Descending
<1>10. moves[cur] \in Element
  BY <1>1, <1>2
<1>. QED
  BY <1>1, <1>2, <1>7, <1>8, <1>9, <1>10

LEMMA QuietElement ==
  ASSUME PickTypes, HashMoveFirst, stage \in {5, 7}, CapturesSplit, QuietsBehind,
         endCur = (IF stage = 5 THEN Len(moves) + 1 ELSE endGenerated),
         cur \in Int, cur >= endCaptures, Left
  PROVE  LET m == moves[cur].move IN
         /\ cur \in 1 .. Len(moves) /\ Len(moves) \in Nat /\ moves[cur] \in Element
         /\ m \in Quiets /\ value[m] = moves[cur].value
         /\ ~Passed(endCaptures, m) /\ endCaptures <= cur /\ endCaptures \in Nat
         /\ \A a \in Quiets : Passed(endCaptures, a) /\ value[m] >= QuietLimit => value[a] >= value[m]
<1>. DEFINE L == Len(moves)
            m == moves[cur].move
            c == endCaptures
<1>1. ~skipQuiets /\ cur < endCur
  BY SelectsWhen DEF PickTypes, Left
<1>2. /\ moves \in Seq(Element) /\ L \in Nat /\ Holds(moves, c, L, Quiets)
      /\ Descending(moves, c, L, QuietLimit) /\ endCur = L + 1 /\ c \in Nat /\ c >= 1
  BY <1>1, CountMoves DEF PickTypes, CapturesSplit, QuietsBehind
<1>3. cur \in c .. L /\ cur \in 1 .. L
  BY <1>1, <1>2
<1>4. \A i \in c .. L : moves[i].move \in Quiets /\ moves[i].value = value[moves[i].move]
  BY <1>2 DEF Holds
<1>5. \A i, j \in c .. L : moves[i].move = moves[j].move => i = j
  BY <1>2 DEF Holds
<1>6. \A i \in c .. (cur - 1) : i \in c .. L /\ i < cur
  BY <1>2, <1>3
<1>7. m \in Quiets /\ value[m] = moves[cur].value /\ moves[cur] \in Element
  BY <1>2, <1>3, <1>4
<1>8. ~Passed(c, m)
  BY <1>3, <1>5, <1>6 DEF Passed
<1>9. ASSUME NEW a \in Quiets, Passed(c, a), value[m] >= QuietLimit PROVE value[a] >= value[m]
  <2>1. PICK i \in c .. (cur - 1) : moves[i].move = a
    BY <1>9 DEF Passed
  <2>2. i \in c .. L /\ i < cur /\ moves[i].value = value[a]
    BY <1>4, <1>6, <2>1
  <2>. QED
    BY <1>2, <1>3, <1>7, <1>9, <2>2 DEF Descending
<1>. QED
  BY <1>2, <1>3, <1>7, <1>8, <1>9

(* Each stage goes on. *)
LEMMA AdvancesSame ==
  ASSUME Advances
  PROVE  /\ UNCHANGED <<value, good, kind, ttMove, depth>>
         /\ \A m : GoodQuiet(m)' <=> GoodQuiet(m)
         /\ \A list, a, b, S : Holds(list, a, b, S)' <=> Holds(list, a, b, S)
<1>1. UNCHANGED <<value, good, kind, ttMove, depth>>
  BY DEF Advances, position
<1>. QED
  BY <1>1 DEF GoodQuiet, Holds

LEMMA OneListAdvances ==
  ASSUME PickTypes, HashMoveFirst, stage \in {10, 13, 16}, OneList, Advances
  PROVE  OneList'
<1>. DEFINE S == IF stage = 10 THEN Moves ELSE Captures
            x == moves[cur]
<1>1. /\ cur \in 1 .. Len(moves) /\ Len(moves) \in Nat
      /\ x.move \in Moves /\ (stage # 10 => x.move \in Captures)
  BY OneListElement DEF Advances
<1>2. UNCHANGED <<value, good, ttMove, moves, endCur, stage, endBadCaptures, endCaptures>> /\ cur' = cur + 1
  BY AdvancesSame DEF Advances
<1>3. ListOf(moves, S)'
  BY <1>2, AdvancesSame DEF OneList, ListOf
<1>4. Descending(moves, 1, Len(moves), NoLimit)'
  BY <1>2 DEF OneList, Descending
<1>5. endCur' = Len(moves') + 1 /\ cur' \in 1 .. endCur'
  BY <1>1, <1>2 DEF OneList
<1>6. Wanted(x) <=> (stage = 13 => good[x.move])
  BY <1>1, SelectsWhen DEF PickTypes
<1>7. ASSUME NEW m \in Moves, m # ttMove
      PROVE  Came(m)' <=> Passed(1, m)' /\ (stage = 13 => good[m])
  <2>1. Passed(1, m)' <=> Passed(1, m) \/ m = x.move
    BY <1>1, PassedNext
  <2>2. Came(m)' <=> Came(m) \/ (m = x.move /\ Wanted(x))
    BY <1>7 DEF Advances
  <2>3. Came(m) <=> Passed(1, m) /\ (stage = 13 => good[m])
    BY <1>7 DEF OneList
  <2>. HIDE DEF x
  <2>. QED
    BY <1>6, <2>1, <2>2, <2>3
<1>. QED
  BY <1>2, <1>3, <1>4, <1>5, <1>7 DEF OneList

LEMMA LookingAdvances ==
  ASSUME PickTypes, HashMoveFirst, stage = 3, Looking, Advances,
         moves[cur].move # ttMove => Wanted(moves[cur])
  PROVE  Looking'
<1>. DEFINE x == moves[cur]
            e == endBadCaptures
<1>1. cur \in 1 .. Len(moves) /\ Len(moves) \in Nat /\ x.move \in Captures /\ e \in 1 .. cur
  BY LookingElement DEF Advances, Looking
<1>2. UNCHANGED <<value, good, ttMove, moves, endCur, stage, endBadCaptures, endCaptures>> /\ cur' = cur + 1
  BY AdvancesSame DEF Advances
<1>3. ListOf(moves, Captures)'
  BY <1>2, AdvancesSame DEF Looking, ListOf
<1>4. cur' \in 1 .. endCur' /\ e \in 1 .. cur'
  BY <1>1, <1>2 DEF Looking
<1>5. x.move # ttMove => good[x.move]
  BY <1>1, SelectsWhen DEF PickTypes
<1>6. ASSUME NEW m \in Moves, m # ttMove PROVE Came(m)' <=> Passed(e, m)'
  <2>1. Passed(e, m)' <=> Passed(e, m) \/ m = x.move
    BY <1>1, <1>2, PassedNext DEF Passed
  <2>2. Came(m)' <=> Came(m) \/ m = x.move
    BY <1>6 DEF Advances
  <2>3. Came(m) <=> Passed(e, m)
    BY <1>6 DEF Looking
  <2>. QED
    BY <2>1, <2>2, <2>3
<1>7. \A i \in e .. (cur' - 1) : moves[i].move # ttMove => good[moves[i].move]
  <2>1. \A i \in e .. (cur' - 1) : i \in e .. (cur - 1) \/ i = cur
    BY <1>1, <1>2
  <2>. QED
    BY <1>5, <2>1 DEF Looking
<1>8. \A i, j \in 1 .. Len(moves) : i < j /\ (j < e \/ j >= cur') => moves[i].value >= moves[j].value
  <2>1. \A j \in 1 .. Len(moves) : j >= cur' => j >= cur
    BY <1>1, <1>2
  <2>. QED
    BY <2>1 DEF Looking
<1>. QED
  BY <1>2, <1>3, <1>4, <1>6, <1>7, <1>8 DEF Looking

LEMMA GoodQuietsAdvance ==
  ASSUME PickTypes, HashMoveFirst, stage = 5, CapturesSplit, QuietsBehind, InGoodQuiets, Advances
  PROVE  InGoodQuiets'
<1>. DEFINE x == moves[cur]
            c == endCaptures
<1>0. cur \in Int /\ cur >= c /\ endCur = Len(moves) + 1 /\ cur < endCur
  <2>1. c \in Nat /\ Len(moves) \in Nat
    BY CountMoves DEF PickTypes, CapturesSplit
  <2>. QED
    BY <2>1 DEF InGoodQuiets, Advances, Left
<1>1. /\ cur \in 1 .. Len(moves) /\ Len(moves) \in Nat /\ x.move \in Quiets
      /\ value[x.move] = x.value /\ c \in Nat /\ c <= cur
  BY <1>0, QuietElement DEF Advances
<1>2. UNCHANGED <<value, good, ttMove, moves, endCur, stage, endBadCaptures, endCaptures>> /\ cur' = cur + 1
  BY AdvancesSame DEF Advances
<1>3. endCur' = Len(moves') + 1 /\ cur' \in endCaptures' .. endCur'
  BY <1>0, <1>1, <1>2
<1>4. Wanted(x) <=> GoodQuiet(x.move)
  BY <1>1, SelectsWhen DEF PickTypes, GoodQuiet
<1>5. \A m \in Captures : m # x.move
  BY <1>1, PickerAssumption
<1>6. ASSUME NEW m \in Quiets, m # ttMove
      PROVE  Came(m)' <=> GoodQuiet(m) /\ Passed(c, m)'
  <2>1. Passed(c, m)' <=> Passed(c, m) \/ m = x.move
    BY <1>1, <1>2, PassedNext DEF Passed
  <2>2. Came(m)' <=> Came(m) \/ (m = x.move /\ Wanted(x))
    BY <1>6 DEF Advances
  <2>3. Came(m) <=> GoodQuiet(m) /\ Passed(c, m)
    BY <1>6 DEF InGoodQuiets
  <2>. HIDE DEF x
  <2>. QED
    BY <1>4, <2>1, <2>2, <2>3
<1>7. \A m \in Captures : m # ttMove => (Came(m)' <=> good[m])
  BY <1>5 DEF Advances, InGoodQuiets
<1>. QED
  BY <1>2, <1>3, <1>6, <1>7, AdvancesSame DEF InGoodQuiets

LEMMA BadCapturesAdvance ==
  ASSUME PickTypes, HashMoveFirst, stage = 6, CapturesSplit, InBadCaptures, Advances
  PROVE  InBadCaptures'
<1>. DEFINE x == moves[cur]
<1>1. cur \in 1 .. Len(moves) /\ Len(moves) \in Nat /\ x.move \in Captures /\ ~good[x.move]
  BY BadCapturesElement DEF Advances
<1>2. UNCHANGED <<value, good, ttMove, moves, endCur, stage, endBadCaptures, endCaptures, skipQuiets>>
      /\ cur' = cur + 1
  BY AdvancesSame DEF Advances
<1>3. endCur' = endBadCaptures' /\ cur' \in 1 .. endCur'
  <2>1. endBadCaptures \in Int /\ cur < endBadCaptures /\ endCur = endBadCaptures
    BY CountMoves DEF CapturesSplit, InBadCaptures, Advances, Left
  <2>. QED
    BY <1>1, <1>2, <2>1
<1>4. Wanted(x)
  BY SelectsWhen DEF PickTypes
<1>5. \A m \in Quiets : m # x.move
  BY <1>1, PickerAssumption
<1>6. ASSUME NEW m \in Captures, m # ttMove
      PROVE  Came(m)' <=> good[m] \/ Passed(1, m)'
  <2>1. Passed(1, m)' <=> Passed(1, m) \/ m = x.move
    BY <1>1, PassedNext
  <2>2. Came(m)' <=> Came(m) \/ m = x.move
    BY <1>4, <1>6 DEF Advances
  <2>3. Came(m) <=> good[m] \/ Passed(1, m)
    BY <1>6 DEF InBadCaptures
  <2>. QED
    BY <2>1, <2>2, <2>3
<1>7. \A m \in Quiets : m # ttMove => (Came(m)' <=> Came(m))
  BY <1>5 DEF Advances
<1>. QED
  BY <1>2, <1>3, <1>6, <1>7, AdvancesSame DEF InBadCaptures

LEMMA BadQuietsAdvance ==
  ASSUME PickTypes, HashMoveFirst, stage = 7, CapturesSplit, QuietsBehind, InBadQuiets, Advances
  PROVE  InBadQuiets'
<1>. DEFINE x == moves[cur]
            c == endCaptures
<1>0. cur \in Int /\ cur >= c /\ endCur = endGenerated /\ cur < endCur
  BY DEF InBadQuiets, Advances, Left
<1>1. /\ cur \in 1 .. Len(moves) /\ Len(moves) \in Nat /\ x.move \in Quiets
      /\ value[x.move] = x.value /\ c \in Nat /\ c <= cur
  BY <1>0, QuietElement DEF Advances
<1>2. UNCHANGED <<value, good, ttMove, moves, endCur, stage, endBadCaptures, endCaptures,
                  endGenerated, skipQuiets>> /\ cur' = cur + 1
  BY AdvancesSame DEF Advances
<1>3. endCur' = endGenerated' /\ cur' \in Int /\ cur' >= endCaptures' /\ (skipQuiets' \/ cur' <= endCur')
  <2>1. ~skipQuiets
    BY SelectsWhen DEF PickTypes, Advances, Left
  <2>2. endCur = Len(moves) + 1
    BY <1>0, <2>1 DEF QuietsBehind
  <2>. QED
    BY <1>0, <1>1, <1>2, <2>2
<1>4. Wanted(x) <=> ~GoodQuiet(x.move)
  <2>1. value[x.move] \in Int /\ goodQuietThreshold \in Int
    BY <1>1 DEF PickTypes, Values, Moves, goodQuietThreshold
  <2>2. Wanted(x) <=> x.value <= goodQuietThreshold
    BY SelectsWhen DEF PickTypes
  <2>. QED
    BY <1>1, <2>1, <2>2 DEF GoodQuiet
<1>5. \A m \in Captures : m # x.move
  BY <1>1, PickerAssumption
<1>6. ASSUME NEW m \in Quiets, m # ttMove
      PROVE  IF GoodQuiet(m) THEN skipQuiets \/ Came(m)' ELSE Came(m)' <=> Passed(c, m)'
  <2>1. Passed(c, m)' <=> Passed(c, m) \/ m = x.move
    BY <1>1, <1>2, PassedNext DEF Passed
  <2>2. Came(m)' <=> Came(m) \/ (m = x.move /\ Wanted(x))
    BY <1>6 DEF Advances
  <2>3. IF GoodQuiet(m) THEN skipQuiets \/ Came(m) ELSE Came(m) <=> Passed(c, m)
    BY <1>6 DEF InBadQuiets
  <2>. HIDE DEF x
  <2>. QED
    BY <1>4, <2>1, <2>2, <2>3
<1>7. \A m \in Captures : m # ttMove => Came(m)'
  BY DEF Advances, InBadQuiets
<1>. QED
  BY <1>2, <1>3, <1>6, <1>7, AdvancesSame DEF InBadQuiets

LEMMA AdvancesHold ==
  ASSUME PickInv, Advances, caller' \in {"busy", "waits"},
         returned' \in Seq(Moves), IsInjective(returned'), ReturnedInOrder',
         stage = 3 /\ moves[cur].move # ttMove => Wanted(moves[cur])
  PROVE  PickInv'
<1>1. UNCHANGED <<value, good, kind, ttMove, depth, stage, moves, skipQuiets>>
  BY AdvancesSame DEF Advances
<1>2. stage \in {3, 5, 6, 7, 10, 13, 16}
  BY SelectsWhen DEF PickInv, PickTypes, Advances, Left
<1>3. PickTypes'
  BY <1>1 DEF PickInv, PickTypes, Values
<1>4. HashMoveFirst'
  <2>1. Came(ttMove)' <=> Came(ttMove)
    <3>1. Came(ttMove') <=> Came(ttMove)
      BY <1>1
    <3>2. \A a : a = ttMove => (Came(a)' <=> Came(a))
      BY DEF Advances
    <3>3. \A a : Came(a)' <=> a \in ToSet(returned')
      BY DEF Came
    <3>. QED
      BY <1>1, <3>1, <3>2, <3>3 DEF Came
  <2>. QED
    BY <1>1, <1>2, <2>1 DEF PickInv, HashMoveFirst, PseudoLegal
<1>5. stage \in 4 .. 7 => CapturesSplit'
  BY SameCaptures DEF PickInv, Stagewise, Advances
<1>6. stage \in 5 .. 7 => QuietsBehind'
  BY SameQuiets DEF PickInv, Stagewise, Advances
<1>7. stage \in {10, 13, 16} => OneList'
  BY OneListAdvances DEF PickInv, Stagewise
<1>8. stage = 3 => Looking'
  BY LookingAdvances DEF PickInv, Stagewise
<1>9. stage = 5 => InGoodQuiets'
  BY GoodQuietsAdvance DEF PickInv, Stagewise
<1>10. stage = 6 => InBadCaptures'
  BY BadCapturesAdvance DEF PickInv, Stagewise
<1>11. stage = 7 => InBadQuiets'
  BY BadQuietsAdvance DEF PickInv, Stagewise
<1>12. Stagewise'
  BY <1>1, <1>2, <1>5, <1>6, <1>7, <1>8, <1>9, <1>10, <1>11 DEF Stagewise
<1>13. Finished'
  BY DEF Finished
<1>. QED
  BY <1>3, <1>4, <1>12, <1>13 DEF PickInv

(* An element that is not returned. *)
LEMMA PassHolds ==
  ASSUME PickInv, Pass
  PROVE  PickInv'
<1>1. /\ Left /\ cur' = cur + 1 /\ caller' = caller /\ caller = "waits"
      /\ UNCHANGED <<position, stage, moves, endCur, endBadCaptures, endCaptures, endGenerated,
                     skipQuiets, returned>>
  BY DEF Pass, Continues
<1>2. moves[cur].move = ttMove \/ (~Wanted(moves[cur]) /\ stage # 3)
  BY StageNames DEF PickInv, PickTypes, Pass, Fresh
<1>3. Advances
  BY <1>1, <1>2, Keeps DEF Advances
<1>4. stage = 3 /\ moves[cur].move # ttMove => Wanted(moves[cur])
  BY <1>2
<1>5. returned' \in Seq(Moves) /\ IsInjective(returned') /\ ReturnedInOrder'
  BY <1>1, Keeps DEF PickInv, PickTypes
<1>. QED
  BY <1>1, <1>3, <1>4, <1>5, AdvancesHold

(* What comes may follow all that has come. *)
LEMMA MayFollow ==
  ASSUME PickInv, Left, moves[cur].move # ttMove, Wanted(moves[cur])
  PROVE  LET m == moves[cur].move IN
         m \in Moves /\ ~Came(m) /\ \A a \in Moves : Came(a) => InOrder(a, m)
<1>. DEFINE x == moves[cur]
            m == x.move
<1>1. PickTypes /\ HashMoveFirst /\ Stagewise
  BY DEF PickInv
<1>2. stage \in {3, 5, 6, 7, 10, 13, 16}
  BY <1>1, SelectsWhen DEF PickTypes, Left
<1>3. stage \in 3 .. 7 => kind = "main"
  BY <1>1 DEF PickTypes
<1>4. kind = "main" => \A a : a # ttMove =>
        StageOf(a) = IF a \in Captures THEN (IF good[a] THEN 1 ELSE 3)
                     ELSE IF value[a] > goodQuietThreshold THEN 2 ELSE 4
  BY DEF StageOf
<1>5. kind # "main" => \A a : a # ttMove => StageOf(a) = 1
  BY DEF StageOf
<1>6. InOrder(ttMove, m)
  <2>0. StageOf(ttMove) = 0
    BY DEF StageOf
  <2>1. StageOf(ttMove) = 0 /\ StageOf(m) \in {1, 2, 3, 4}
    BY <1>4, <1>5, <2>0
  <2>. QED
    BY <2>1 DEF InOrder
<1>7. CASE stage \in {10, 13, 16}
  <2>1. /\ m \in Moves /\ ~Came(m)
        /\ \A a \in Moves : Came(a) => a = ttMove \/ value[a] >= value[m]
    BY <1>1, <1>7, OneListElement DEF Stagewise
  <2>2. \A a : a # ttMove => StageOf(a) = 1
    BY <1>1, <1>7, <1>5 DEF PickTypes
  <2>3. \A a \in Moves : a # ttMove /\ value[a] >= value[m] => InOrder(a, m)
    BY <2>2 DEF InOrder
  <2>. QED
    BY <1>6, <2>1, <2>3
<1>8. CASE stage = 3
  <2>1. /\ m \in Captures /\ m \in Moves /\ ~Came(m) /\ good[m]
        /\ \A a \in Moves : Came(a) => a = ttMove \/ (a \in Captures /\ good[a] /\ value[a] >= value[m])
    BY <1>1, <1>8, LookingElement, SelectsWhen DEF Stagewise, PickTypes, Moves
  <2>2. \A a \in Captures : a # ttMove /\ good[a] => StageOf(a) = 1
    BY <1>3, <1>4, <1>8
  <2>3. \A a \in Captures : a # ttMove /\ good[a] /\ value[a] >= value[m] => InOrder(a, m)
    BY <2>1, <2>2 DEF InOrder
  <2>. QED
    BY <1>6, <2>1, <2>3
<1>9. CASE stage = 6
  <2>1. /\ m \in Captures /\ m \in Moves /\ ~Came(m) /\ ~good[m]
        /\ \A a \in Captures : Came(a) => a = ttMove \/ good[a] \/ value[a] >= value[m]
    BY <1>1, <1>9, BadCapturesElement DEF Stagewise, Moves
  <2>2. StageOf(m) = 3 /\ \A a \in Captures : a # ttMove => (StageOf(a) = IF good[a] THEN 1 ELSE 3)
    BY <1>3, <1>4, <1>9, <2>1
  <2>3. \A a \in Quiets : a # ttMove /\ Came(a) => StageOf(a) = 2
    <3>1. \A a \in Quiets : a # ttMove /\ Came(a) => value[a] > goodQuietThreshold
      BY <1>1, <1>9 DEF Stagewise, InBadCaptures, GoodQuiet
    <3>. QED
      BY <1>3, <1>4, <1>9, <3>1, PickerAssumption
  <2>4. \A a \in Captures : a # ttMove /\ Came(a) => InOrder(a, m)
    BY <2>1, <2>2 DEF InOrder
  <2>5. \A a \in Quiets : a # ttMove /\ Came(a) => InOrder(a, m)
    BY <2>2, <2>3 DEF InOrder
  <2>. QED
    BY <1>6, <2>1, <2>4, <2>5 DEF Moves
<1>10. ASSUME stage \in {5, 7}, endCur = (IF stage = 5 THEN Len(moves) + 1 ELSE endGenerated),
             cur \in Int, cur >= endCaptures
      PROVE  /\ m \in Quiets /\ m \in Moves /\ m \notin Captures /\ value[m] = x.value
             /\ ~Passed(endCaptures, m)
             /\ \A a \in Quiets : Passed(endCaptures, a) /\ value[m] >= QuietLimit => value[a] >= value[m]
  <2>1. CapturesSplit /\ QuietsBehind
    BY <1>1, <1>10 DEF Stagewise
  <2>. QED
    BY <1>1, <1>10, <2>1, QuietElement, PickerAssumption DEF Moves
<1>11. CASE stage = 5
  <2>0. InGoodQuiets /\ CapturesSplit
    BY <1>1, <1>11 DEF Stagewise
  <2>1. cur \in Int /\ cur >= endCaptures /\ endCur = Len(moves) + 1
    BY <1>1, <2>0, CountMoves DEF InGoodQuiets, CapturesSplit, PickTypes
  <2>2. /\ m \in Quiets /\ m \in Moves /\ m \notin Captures /\ value[m] = x.value
        /\ ~Passed(endCaptures, m)
        /\ \A a \in Quiets : Passed(endCaptures, a) /\ value[m] >= QuietLimit => value[a] >= value[m]
    BY <1>10, <1>11, <2>1
  <2>3. ~Came(m)
    BY <2>0, <2>2 DEF InGoodQuiets
  <2>4. value[m] > goodQuietThreshold
    BY <1>1, <1>11, <2>2, SelectsWhen DEF PickTypes
  <2>5. StageOf(m) = 2
    BY <1>3, <1>4, <1>11, <2>2, <2>4
  <2>6. ASSUME NEW a \in Captures, a # ttMove, Came(a) PROVE InOrder(a, m)
    <3>1. StageOf(a) = 1
      BY <1>3, <1>4, <1>11, <2>0, <2>6 DEF InGoodQuiets
    <3>. QED
      BY <2>5, <3>1 DEF InOrder
  <2>7. ASSUME NEW a \in Quiets, a # ttMove, Came(a) PROVE InOrder(a, m)
    <3>1. GoodQuiet(a) /\ Passed(endCaptures, a) /\ a \notin Captures
      BY <2>0, <2>7, PickerAssumption DEF InGoodQuiets
    <3>2. StageOf(a) = 2
      BY <1>3, <1>4, <1>11, <2>7, <3>1 DEF GoodQuiet
    <3>. QED
      BY <2>2, <2>5, <3>1, <3>2 DEF InOrder
  <2>. QED
    BY <1>6, <2>2, <2>3, <2>6, <2>7 DEF Moves
<1>12. CASE stage = 7
  <2>0. InBadQuiets
    BY <1>1, <1>12 DEF Stagewise
  <2>1. cur \in Int /\ cur >= endCaptures /\ endCur = endGenerated
    BY <2>0 DEF InBadQuiets
  <2>2. /\ m \in Quiets /\ m \in Moves /\ m \notin Captures /\ value[m] = x.value
        /\ ~Passed(endCaptures, m)
        /\ \A a \in Quiets : Passed(endCaptures, a) /\ value[m] >= QuietLimit => value[a] >= value[m]
    BY <1>10, <1>12, <2>1
  <2>3. ~(value[m] > goodQuietThreshold)
    <3>1. x.value <= goodQuietThreshold
      BY <1>1, <1>12, SelectsWhen DEF PickTypes
    <3>2. value[m] \in Int /\ goodQuietThreshold \in Int
      BY <1>1, <2>2 DEF PickTypes, Values, goodQuietThreshold
    <3>. QED
      BY <2>2, <3>1, <3>2
  <2>4. ~Came(m)
    BY <2>0, <2>2, <2>3 DEF InBadQuiets, GoodQuiet
  <2>5. StageOf(m) = 4
    BY <1>3, <1>4, <1>12, <2>2, <2>3
  <2>6. ASSUME NEW a \in Captures, a # ttMove, Came(a) PROVE InOrder(a, m)
    <3>1. StageOf(a) \in {1, 3}
      BY <1>3, <1>4, <1>12, <2>6
    <3>. QED
      BY <2>5, <3>1 DEF InOrder
  <2>7. ASSUME NEW a \in Quiets, a # ttMove, Came(a) PROVE InOrder(a, m)
    <3>0. a \notin Captures
      BY PickerAssumption
    <3>1. CASE GoodQuiet(a)
      <4>1. StageOf(a) = 2
        BY <1>3, <1>4, <1>12, <2>7, <3>0, <3>1 DEF GoodQuiet
      <4>. QED
        BY <2>5, <4>1 DEF InOrder
    <3>2. CASE ~GoodQuiet(a)
      <4>1. StageOf(a) = 4
        BY <1>3, <1>4, <1>12, <2>7, <3>0, <3>2 DEF GoodQuiet
      <4>2. Passed(endCaptures, a)
        BY <2>0, <2>7, <3>2 DEF InBadQuiets
      <4>. QED
        BY <2>2, <2>5, <4>1, <4>2 DEF InOrder
    <3>. QED
      BY <3>1, <3>2
  <2>. QED
    BY <1>6, <2>2, <2>4, <2>6, <2>7 DEF Moves
<1>. QED
  BY <1>2, <1>7, <1>8, <1>9, <1>11, <1>12

(* An element that is. *)
LEMMA SelectHolds ==
  ASSUME PickInv, Select
  PROVE  PickInv'
<1>1. /\ Left /\ cur' = cur + 1 /\ Returns(moves[cur].move)
      /\ moves[cur].move # ttMove /\ Wanted(moves[cur])
      /\ UNCHANGED <<stage, moves, endCur, endBadCaptures, endCaptures, endGenerated>>
  BY DEF Select, Fresh
<1>2. UNCHANGED <<position, skipQuiets>> /\ caller' = "busy"
  BY <1>1 DEF Returns
<1>. DEFINE m == moves[cur].move
<1>3. m \in Moves /\ ~Came(m) /\ \A a \in Moves : Came(a) => InOrder(a, m)
  BY <1>1, MayFollow
<1>4. /\ returned' \in Seq(Moves) /\ IsInjective(returned') /\ ReturnedInOrder'
      /\ \A a : Came(a)' <=> a = m \/ Came(a)
  BY <1>1, <1>3, Appends DEF PickInv, PickTypes
<1>5. Advances
  BY <1>1, <1>2, <1>4 DEF Advances
<1>. QED
  BY <1>1, <1>2, <1>4, <1>5, AdvancesHold

(* A bad capture changes places with the first one that is not bad. *)
LEMMA SetAsideHolds ==
  ASSUME PickInv, SetAside
  PROVE  PickInv'
<1>. DEFINE L == Len(moves)
            e == endBadCaptures
            x == moves[cur]
            from == [i \in 1 .. L |-> IF i = e THEN cur ELSE IF i = cur THEN e ELSE i]
<1>1. /\ stage = 3 /\ Left /\ cur' = cur + 1 /\ endBadCaptures' = e + 1 /\ caller = "waits"
      /\ x.move # ttMove /\ ~Wanted(x)
      /\ moves' = [moves EXCEPT ![e] = moves[cur], ![cur] = moves[e]]
      /\ UNCHANGED <<position, skipQuiets, caller, returned, stage, endCur, endCaptures, endGenerated>>
  <2>1. stage = 3
    BY StageNames DEF PickInv, PickTypes, SetAside
  <2>. QED
    BY <2>1 DEF SetAside, Continues, Fresh
<1>2. PickTypes /\ Looking /\ HashMoveFirst
  BY <1>1 DEF PickInv, Stagewise
<1>3. UNCHANGED <<value, good, kind, ttMove, depth>>
  BY <1>1 DEF position
<1>4. /\ L \in Nat /\ cur \in 1 .. L /\ e \in 1 .. cur /\ e \in 1 .. L
      /\ x.move \in Captures /\ moves \in Seq(Element) /\ moves \in [1 .. L -> Element]
  <2>1. cur \in 1 .. L /\ L \in Nat /\ x.move \in Captures
    BY <1>1, <1>2, LookingElement
  <2>2. e \in 1 .. cur
    BY <1>2 DEF Looking
  <2>3. moves \in Seq(Element)
    BY <1>2 DEF PickTypes
  <2>. QED
    BY <2>1, <2>2, <2>3
<1>5. ~good[x.move]
  BY <1>1, <1>2, SelectsWhen DEF PickTypes
<1>6. /\ moves'[e] = moves[cur] /\ moves'[cur] = moves[e]
      /\ \A i \in 1 .. L : i # e /\ i # cur => moves'[i] = moves[i]
      /\ \A i \in 1 .. L : moves'[i] = moves[from[i]]
      /\ moves' = [i \in 1 .. L |-> moves[from[i]]]
  <2>1. DOMAIN moves = 1 .. L
    BY <1>4
  <2>2. moves' = [i \in 1 .. L |-> IF i = cur THEN moves[e] ELSE IF i = e THEN moves[cur] ELSE moves[i]]
    BY <1>1, <2>1
  <2>3. \A i \in 1 .. L : moves'[i] = moves[from[i]]
    BY <1>4, <2>2
  <2>4. moves' = [i \in 1 .. L |-> moves'[i]]
    BY <2>2
  <2>5. moves' = [i \in 1 .. L |-> moves[from[i]]]
    <3>. HIDE DEF from
    <3>. QED
      BY <2>3, <2>4
  <2>. QED
    BY <1>4, <2>2, <2>3, <2>5
<1>7. Permutes(from, L)
  <2>1. from \in [1 .. L -> 1 .. L]
    BY <1>4
  <2>2. \A i, j \in 1 .. L : from[i] = from[j] => i = j
    BY <1>4
  <2>3. \A j \in 1 .. L : \E i \in 1 .. L : from[i] = j
    <3>. SUFFICES ASSUME NEW j \in 1 .. L PROVE \E i \in 1 .. L : from[i] = j
      OBVIOUS
    <3>1. from[j] \in 1 .. L /\ from[from[j]] = j
      BY <1>4
    <3>. QED
      BY <3>1
  <2>. QED
    BY <2>1, <2>2, <2>3 DEF Permutes
<1>8. ListOf(moves', Captures) /\ Len(moves') = L
  <2>1. Captures \in SUBSET Moves /\ ListOf(moves, Captures)
    BY <1>2 DEF Moves, Looking
  <2>. HIDE DEF from
  <2>. QED
    BY <1>6, <1>7, <2>1, Rearranged
<1>9. ListOf(moves, Captures)' /\ moves' \in Seq(Element)
  BY <1>3, <1>8 DEF ListOf, Holds
<1>. HIDE DEF from
<1>10. \A i, j \in 1 .. L : i < j /\ (j < e \/ j >= cur) => moves[i].value >= moves[j].value
  BY <1>2 DEF Looking
<1>11. \A i \in 1 .. L : moves[i].value \in Int
  <2>1. \A i \in 1 .. L : moves[i] \in Element
    BY <1>4
  <2>. QED
    BY <2>1 DEF Element
<1>12. \A a : Came(a)' <=> Came(a)
  BY <1>1, Keeps
<1>13. ASSUME NEW i \in 1 .. L, NEW j \in 1 .. L, i < j, j < e + 1 \/ j >= cur + 1
       PROVE  moves'[i].value >= moves'[j].value
  <2>1. CASE j < e
    <3>1. moves'[i] = moves[i] /\ moves'[j] = moves[j]
      BY <1>4, <1>6, <1>13, <2>1
    <3>. QED
      BY <1>10, <1>13, <2>1, <3>1
  <2>2. CASE j = e
    <3>1. moves'[i] = moves[i] /\ moves'[j] = moves[cur] /\ i < cur
      BY <1>4, <1>6, <1>13, <2>2
    <3>. QED
      BY <1>4, <1>10, <3>1
  <2>3. CASE j >= cur + 1
    <3>1. moves'[j] = moves[j] /\ j >= cur
      BY <1>4, <1>6, <1>13, <2>3
    <3>2. CASE i = e
      <4>1. moves'[i] = moves[cur] /\ cur < j
        BY <1>4, <1>6, <2>3, <3>2
      <4>. QED
        BY <1>4, <1>10, <1>13, <3>1, <4>1
    <3>3. CASE i = cur
      <4>1. moves'[i] = moves[e] /\ e < j
        BY <1>4, <1>6, <2>3, <3>3
      <4>. QED
        BY <1>4, <1>10, <1>13, <3>1, <4>1
    <3>4. CASE i # e /\ i # cur
      BY <1>6, <1>10, <1>13, <3>1, <3>4
    <3>. QED
      BY <3>2, <3>3, <3>4
  <2>. QED
    BY <1>4, <1>13, <2>1, <2>2, <2>3
<1>14. ASSUME NEW i \in 1 .. e PROVE moves'[i].move # ttMove /\ ~good[moves'[i].move]
  <2>1. CASE i = e
    BY <1>1, <1>5, <1>6, <2>1
  <2>2. CASE i # e
    <3>1. i \in 1 .. (e - 1) /\ moves'[i] = moves[i]
      BY <1>4, <1>6, <2>2
    <3>. QED
      BY <1>2, <3>1 DEF Looking
  <2>. QED
    BY <2>1, <2>2
<1>15. ASSUME NEW i \in (e + 1) .. cur, moves'[i].move # ttMove PROVE good[moves'[i].move]
  <2>1. CASE i = cur
    <3>1. e \in e .. (cur - 1) /\ moves'[i] = moves[e]
      BY <1>4, <1>6, <1>15, <2>1
    <3>. QED
      BY <1>2, <1>15, <3>1 DEF Looking
  <2>2. CASE i # cur
    <3>1. i \in e .. (cur - 1) /\ moves'[i] = moves[i]
      BY <1>4, <1>6, <2>2
    <3>. QED
      BY <1>2, <1>15, <3>1 DEF Looking
  <2>. QED
    BY <2>1, <2>2
<1>16. ASSUME NEW m \in Moves, m # ttMove PROVE Came(m) <=> Passed(endBadCaptures, m)'
  <2>1. Came(m) <=> \E i \in e .. (cur - 1) : moves[i].move = m
    BY <1>2, <1>16 DEF Looking, Passed
  <2>2. Passed(endBadCaptures, m)' <=> \E i \in (e + 1) .. cur : moves'[i].move = m
    <3>1. cur' - 1 = cur /\ endBadCaptures' = e + 1
      BY <1>1, <1>4
    <3>. QED
      BY <3>1 DEF Passed
  <2>3. ASSUME NEW i \in e .. (cur - 1), moves[i].move = m PROVE \E j \in (e + 1) .. cur : moves'[j].move = m
    <3>1. CASE i = e
      <4>1. cur \in (e + 1) .. cur /\ moves'[cur] = moves[i]
        BY <1>4, <1>6, <2>3, <3>1
      <4>. QED
        BY <2>3, <4>1
    <3>2. CASE i # e
      <4>1. i \in (e + 1) .. cur /\ moves'[i] = moves[i]
        BY <1>4, <1>6, <3>2
      <4>. QED
        BY <2>3, <4>1
    <3>. QED
      BY <3>1, <3>2
  <2>4. ASSUME NEW j \in (e + 1) .. cur, moves'[j].move = m PROVE \E i \in e .. (cur - 1) : moves[i].move = m
    <3>1. CASE j = cur
      <4>1. e \in e .. (cur - 1) /\ moves'[j] = moves[e]
        BY <1>4, <1>6, <2>4, <3>1
      <4>. QED
        BY <2>4, <4>1
    <3>2. CASE j # cur
      <4>1. j \in e .. (cur - 1) /\ moves'[j] = moves[j]
        BY <1>4, <1>6, <3>2
      <4>. QED
        BY <2>4, <4>1
    <3>. QED
      BY <3>1, <3>2
  <2>. QED
    BY <2>1, <2>2, <2>3, <2>4
<1>17. Looking'
  <2>1. /\ endCaptures' = Len(moves') + 1 /\ endCur' = endCaptures'
        /\ Len(moves') = Cardinality(Captures)
        /\ cur' \in 1 .. endCur' /\ endBadCaptures' \in 1 .. cur'
    <3>1. endCaptures = L + 1 /\ endCur = L + 1 /\ L = Cardinality(Captures)
      BY <1>2 DEF Looking
    <3>2. cur + 1 \in 1 .. (L + 1) /\ e + 1 \in 1 .. (cur + 1)
      BY <1>4
    <3>. HIDE DEF L, e
    <3>. QED
      BY <1>1, <1>8, <3>1, <3>2
  <2>2. \A i \in 1 .. (endBadCaptures' - 1) : moves'[i].move # ttMove' /\ ~good'[moves'[i].move]
    BY <1>1, <1>3, <1>4, <1>14
  <2>3. \A i \in endBadCaptures' .. (cur' - 1) : moves'[i].move # ttMove' => good'[moves'[i].move]
    BY <1>1, <1>3, <1>4, <1>15
  <2>4. \A i, j \in 1 .. Len(moves') : i < j /\ (j < endBadCaptures' \/ j >= cur') =>
          moves'[i].value >= moves'[j].value
    BY <1>1, <1>8, <1>13
  <2>5. \A m \in Moves : m # ttMove' => (Came(m)' <=> Passed(endBadCaptures, m)')
    BY <1>1, <1>3, <1>12, <1>16
  <2>. QED
    BY <1>9, <2>1, <2>2, <2>3, <2>4, <2>5 DEF Looking
<1>18. PickTypes'
  BY <1>1, <1>2, <1>3, <1>9 DEF PickTypes, Values
<1>19. HashMoveFirst'
  BY <1>1, <1>2, <1>3, <1>12 DEF HashMoveFirst, PseudoLegal
<1>20. Stagewise' /\ Finished'
  BY <1>1, <1>17 DEF Stagewise, Finished
<1>. QED
  BY <1>1, <1>18, <1>19, <1>20, Keeps DEF PickInv

------------------------------------------------------------------------------
(* What the invariant says of the moves that come. *)
LEMMA NextHolds ==
  ASSUME PickInv, [PickNext]_pickVars
  PROVE  PickInv'
<1>1. CASE Ask \/ UNCHANGED pickVars
  BY <1>1, AskHolds
<1>2. CASE skip_quiet_moves
  BY <1>2, SkipHolds
<1>3. CASE TTStage
  BY <1>3, TTHolds
<1>4. CASE CaptureInit
  BY <1>4, CaptureInitHolds
<1>5. CASE EvasionInit
  BY <1>5, EvasionInitHolds
<1>6. CASE QuietInit
  BY <1>6, QuietInitHolds
<1>7. CASE Select
  BY <1>7, SelectHolds
<1>8. CASE SetAside
  BY <1>8, SetAsideHolds
<1>9. CASE Pass
  BY <1>9, PassHolds
<1>10. CASE CapturesOver
  BY <1>10, CapturesOverHolds
<1>11. CASE GoodQuietsOver
  BY <1>11, GoodQuietsOverHolds
<1>12. CASE BadCapturesOver
  BY <1>12, BadCapturesOverHolds
<1>13. CASE AllOver
  BY <1>13, AllOverHolds
<1>. QED
  BY <1>1, <1>2, <1>3, <1>4, <1>5, <1>6, <1>7, <1>8, <1>9, <1>10, <1>11, <1>12, <1>13
     DEF PickNext, next_move

LEMMA PointersFollow ==
  ASSUME PickInv
  PROVE  PointersSet
<1>1. PickTypes /\ HashMoveFirst /\ Stagewise
  BY DEF PickInv
<1>2. stage \in DOMAIN Stages
  BY <1>1 DEF PickTypes, Stages
<1>3. /\ Cardinality(Captures) \in Nat /\ Cardinality(Moves) \in Nat
      /\ Cardinality(Captures) <= Cardinality(Moves) /\ Len(moves) \in Nat
  BY <1>1, CountMoves DEF PickTypes
<1>4. stage \in {1, 2, 8, 9, 11, 12, 14, 15} => Len(moves) = 0 /\ endBadCaptures = Unset /\ ~Selects
  BY <1>1, SelectsWhen DEF PickTypes, HashMoveFirst
<1>5. stage \in {10, 13, 16} => /\ Len(moves) <= Cardinality(Moves)
                                /\ endBadCaptures # Unset => endBadCaptures <= endCaptures
                                /\ cur \in 1 .. endCur /\ endCur = Len(moves) + 1
  <2>. SUFFICES ASSUME stage \in {10, 13, 16}
                PROVE  /\ Len(moves) <= Cardinality(Moves)
                       /\ endBadCaptures # Unset => endBadCaptures <= endCaptures
                       /\ cur \in 1 .. endCur /\ endCur = Len(moves) + 1
    OBVIOUS
  <2>1. OneList
    BY <1>1 DEF Stagewise
  <2>2. cur \in 1 .. endCur /\ endCur = Len(moves) + 1
    BY <2>1 DEF OneList
  <2>3. endBadCaptures # Unset => endBadCaptures = 1 /\ endCaptures = endCur
    BY <2>1 DEF OneList
  <2>4. Len(moves) \in {Cardinality(Moves), Cardinality(Captures)}
    BY <2>1 DEF OneList
  <2>. QED
    BY <1>3, <2>2, <2>3, <2>4
<1>6. stage = 3 => /\ Len(moves) <= Cardinality(Moves) /\ endBadCaptures <= endCaptures
                   /\ cur \in 1 .. endCur /\ endCur = Len(moves) + 1
  <2>1. stage = 3 => Looking
    BY <1>1 DEF Stagewise
  <2>. QED
    BY <1>3, <2>1 DEF Looking
<1>7. stage \in 4 .. 7 => endCaptures = Cardinality(Captures) + 1 /\ endBadCaptures \in 1 .. endCaptures
                          /\ Len(moves) >= endCaptures - 1
  BY <1>1 DEF Stagewise, CapturesSplit
<1>8. stage \in 4 .. 7 => Len(moves) <= Cardinality(Moves)
  <2>1. stage = 4 => Len(moves) = endCaptures - 1
    BY <1>1 DEF Stagewise, AfterCaptures
  <2>2. stage \in 5 .. 7 => Len(moves) = endCaptures - 1 \/ Len(moves) = Cardinality(Moves)
    BY <1>1 DEF Stagewise, QuietsBehind
  <2>. QED
    BY <1>3, <1>7, <2>1, <2>2
<1>9. ASSUME stage \in 4 .. 7, Selects
      PROVE  cur \in Int /\ cur >= 1 /\ cur <= endCur /\ endCur \in Int /\ endCur <= Len(moves) + 1
  <2>1. stage = 6 \/ (stage \in {5, 7} /\ ~skipQuiets)
    BY <1>1, <1>9, SelectsWhen DEF PickTypes
  <2>2. CASE stage = 6
    <3>1. endCur = endBadCaptures /\ cur \in 1 .. endCur
      BY <1>1, <2>2 DEF Stagewise, InBadCaptures
    <3>. QED
      BY <1>3, <1>7, <1>9, <3>1
  <2>3. CASE stage = 5
    <3>1. endCur = Len(moves) + 1 /\ cur \in endCaptures .. endCur
      BY <1>1, <2>3 DEF Stagewise, InGoodQuiets
    <3>. QED
      BY <1>3, <1>7, <1>9, <3>1
  <2>4. CASE stage = 7 /\ ~skipQuiets
    <3>1. endCur = endGenerated /\ cur \in Int /\ cur >= endCaptures /\ cur <= endCur
      BY <1>1, <2>4 DEF Stagewise, InBadQuiets
    <3>2. endGenerated = Len(moves) + 1
      BY <1>1, <2>4 DEF Stagewise, QuietsBehind
    <3>. QED
      BY <1>3, <1>7, <1>9, <3>1, <3>2
  <2>. QED
    BY <2>1, <2>2, <2>3, <2>4
<1>10. \/ stage \in {1, 2, 8, 9, 11, 12, 14, 15} \/ stage \in {10, 13, 16}
       \/ stage = 3 \/ stage \in 4 .. 7
  BY <1>1 DEF PickTypes
<1>11. Len(moves) <= Cardinality(Moves)
  BY <1>3, <1>4, <1>5, <1>6, <1>8, <1>10
<1>12. endBadCaptures # Unset => endBadCaptures <= endCaptures
  BY <1>3, <1>4, <1>5, <1>6, <1>7, <1>10
<1>13. Selects => cur # Unset /\ endCur # Unset /\ cur <= endCur /\ endCur <= Len(moves) + 1
  <2>. SUFFICES ASSUME Selects
                PROVE  cur # Unset /\ endCur # Unset /\ cur <= endCur /\ endCur <= Len(moves) + 1
    OBVIOUS
  <2>1. CASE stage \in {10, 13, 16} \/ stage = 3
    <3>1. cur \in 1 .. endCur /\ endCur = Len(moves) + 1
      BY <1>5, <1>6, <2>1
    <3>. QED
      BY <1>3, <3>1 DEF Unset
  <2>2. CASE stage \in 4 .. 7
    <3>1. cur \in Int /\ cur >= 1 /\ cur <= endCur /\ endCur \in Int /\ endCur <= Len(moves) + 1
      BY <1>9, <2>2
    <3>. QED
      BY <3>1 DEF Unset
  <2>. QED
    BY <1>4, <1>10, <2>1, <2>2
<1>. QED
  BY <1>2, <1>11, <1>12, <1>13 DEF PointersSet

LEMMA OnceFollows ==
  ASSUME PickInv
  PROVE  PicksEachOnce
<1>1. PickTypes /\ HashMoveFirst /\ Stagewise /\ Finished
  BY DEF PickInv
<1>2. Offered = IF stage <= 10 THEN Moves
                ELSE IF stage <= 13 THEN {m \in Captures : good[m] \/ m = ttMove}
                ELSE Captures \cup (Moves \cap {ttMove})
  BY <1>1 DEF PickTypes, Offered
<1>3. \A m : Came(m) => m \in Moves
  <2>1. \A i \in DOMAIN returned : returned[i] \in Moves
    BY <1>1 DEF PickTypes
  <2>. QED
    BY <2>1 DEF Came, ToSet
<1>4. stage \in {10, 13, 16} =>
        /\ \A m \in Moves : m # ttMove => (Came(m) <=> Passed(1, m) /\ (stage = 13 => good[m]))
        /\ Holds(moves, 1, Len(moves), IF stage = 10 THEN Moves ELSE Captures)
        /\ endCur = Len(moves) + 1 /\ cur \in 1 .. endCur /\ Len(moves) \in Nat
  BY <1>1 DEF PickTypes, Stagewise, OneList, ListOf
<1>5. ASSUME NEW m, Came(m) PROVE m \in Offered
  <2>1. m \in Moves
    BY <1>3, <1>5
  <2>2. CASE stage <= 10
    BY <1>2, <2>1, <2>2
  <2>3. CASE stage > 10 /\ m = ttMove
    <3>1. PseudoLegal(kind, ttMove) /\ (stage <= 13 => kind = "probcut")
      BY <1>1, <1>5, <2>3 DEF HashMoveFirst, PickTypes
    <3>. QED
      BY <1>1, <1>2, <2>1, <2>3, <3>1 DEF PseudoLegal, PickTypes
  <2>4. CASE stage > 10 /\ m # ttMove
    <3>1. stage \in {13, 16}
      BY <1>1, <1>5, <2>1, <2>4 DEF HashMoveFirst, PickTypes
    <3>2. Passed(1, m) /\ (stage = 13 => good[m])
      BY <1>4, <1>5, <2>1, <2>4, <3>1
    <3>3. m \in Captures
      <4>1. PICK i \in 1 .. (cur - 1) : moves[i].move = m
        BY <3>2 DEF Passed
      <4>2. i \in 1 .. Len(moves)
        BY <1>4, <3>1
      <4>. QED
        BY <1>4, <3>1, <4>1, <4>2 DEF Holds
    <3>. QED
      BY <1>2, <3>1, <3>2, <3>3
  <2>. QED
    BY <1>1, <2>2, <2>3, <2>4 DEF PickTypes
<1>6. ASSUME caller = "done", NEW m \in Offered, m \notin Skipped PROVE Came(m)
  <2>1. \/ stage \in {10, 13, 16} /\ cur = endCur
        \/ stage = 7 /\ (skipQuiets \/ cur = endCur)
    BY <1>1, <1>6 DEF Finished
  <2>2. m \in Moves
    BY <1>2, <1>6 DEF Moves
  <2>3. CASE m = ttMove
    <3>1. PseudoLegal(kind, ttMove)
      BY <1>1, <1>2, <1>6, <2>1, <2>2, <2>3 DEF PickTypes, PseudoLegal, Moves
    <3>. QED
      BY <1>1, <2>1, <2>3, <3>1 DEF HashMoveFirst
  <2>4. CASE stage \in {10, 13, 16} /\ m # ttMove
    <3>1. m \in (IF stage = 10 THEN Moves ELSE Captures) /\ (stage = 13 => good[m])
      BY <1>2, <1>6, <2>2, <2>4
    <3>2. cur - 1 = Len(moves)
      BY <1>4, <2>1, <2>4
    <3>3. Passed(1, m)
      BY <1>4, <2>4, <3>1, <3>2 DEF Holds, Passed
    <3>. QED
      BY <1>4, <2>2, <2>4, <3>1, <3>3
  <2>5. CASE stage = 7 /\ m # ttMove
    <3>1. InBadQuiets /\ QuietsBehind /\ CapturesSplit
      BY <1>1, <2>5 DEF Stagewise
    <3>2. CASE m \in Captures
      BY <2>5, <3>1, <3>2 DEF InBadQuiets
    <3>3. CASE m \in Quiets
      <4>1. kind = "main" /\ ~skipQuiets
        BY <1>1, <1>6, <2>5, <3>3 DEF PickTypes, Skipped
      <4>2. cur - 1 = Len(moves) /\ Holds(moves, endCaptures, Len(moves), Quiets)
        BY <1>1, <2>1, <2>5, <3>1, <4>1 DEF InBadQuiets, QuietsBehind, PickTypes
      <4>3. Passed(endCaptures, m)
        BY <3>3, <4>2 DEF Holds, Passed
      <4>. QED
        BY <2>5, <3>1, <3>3, <4>1, <4>3 DEF InBadQuiets
    <3>. QED
      BY <2>2, <3>2, <3>3 DEF Moves
  <2>. QED
    BY <2>1, <2>3, <2>4, <2>5
<1>7. IsInjective(returned)
  BY DEF PickInv
<1>. QED
  BY <1>5, <1>6, <1>7 DEF PicksEachOnce, Came

(* At each stage the array holds the moves it is meant to hold, in order,  *)
(* and what has come is what the stages before have offered.               *)
THEOREM StagesHold == PickSpec => []PickInv
<1>1. PickInit => PickInv
  BY InitHolds
<1>2. PickInv /\ [PickNext]_pickVars => PickInv'
  BY NextHolds
<1>. QED
  BY <1>1, <1>2, PTL DEF PickSpec

(* next_move never reads what has not been written, never offers a move    *)
(* twice or one that cannot be played, offers all that are not skipped     *)
(* before Move::none(), and in the order of their stages and values.       *)
THEOREM PickerInOrder == PickSpec => []PicksInOrder
<1>1. PickInv => PicksInOrder
  BY PointersFollow, OnceFollows DEF PickInv, PicksInOrder
<1>. QED
  BY <1>1, StagesHold, PTL
==============================================================================
