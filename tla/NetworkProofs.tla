----------------------------- MODULE NetworkProofs -----------------------------
(***************************************************************************)
(* The network, shared by processes and evaluated by their workers.        *)
(*                                                                         *)
(* Of SharedNetwork, for any set of processes, any number of instances per *)
(* process and any number of calls: IInv joins what holds of the lock, of  *)
(* images, sockets and their order, and with it no search reads an image   *)
(* that is not complete, and no socket in use is removed.                  *)
(*                                                                         *)
(* Of AccumulatorStack, for any lines of sound boards and moves, any depth *)
(* and any length of a behaviour, in this order: sums of features; the     *)
(* features of two boards; what a move changes; the cache and the king's   *)
(* short move; the accumulators of a line brought up to date forward and   *)
(* backward; what an evaluation leaves; and, from these, the invariant     *)
(* AccInv and the theorem that every sum is the sum over its own position. *)
(***************************************************************************)
EXTENDS SharedNetwork, AccumulatorStack, Induction

------------------------------------------------------------------------------
(***************************************************************************)
(* Processes that share the network.                                       *)
(***************************************************************************)
(* Only the holder of the lock is inside the locked part of open. *)
LockInv == \A p \in Proc : pc[p] \in Locked <=> lock = p

(* What a process holds on to, and in which order its instances go. *)
KindInv ==
  \A p \in Proc :
    /\ \A s \in Slots :
         /\ served[p][s] # 0 => kind[p][s] = "shared"
         /\ kind[p][s] = "shared" => served[p][s] # 0
         /\ Settled(p) /\ kind[p][s] = "shared" => mem[p][s] = served[p][s]
         /\ pc[p] \in {"unmap", "unlink", "join"} /\ s < cur[p]
              => kind[p][s] = "none"
         /\ pc[p] = "down" => kind[p][s] = "none"
    /\ pc[p] \in Locked \cup {"lock", "discard"} => kind[p][cur[p]] = "none"
    /\ pc[p] = "discard" => failed
    /\ pc[p] = "bind" => mem[p][cur[p]] = fd[p]
    /\ pc[p] \in {"fill", "map", "bind"} => fd[p] # 0
    /\ fd[p] # 0 => pc[p] \in {"receive", "fill", "map", "bind"}

(* Every image that is served, or read by a search, is complete. *)
FullInv ==
  \A p \in Proc :
    /\ \A s \in Slots :
         /\ served[p][s] # 0 => filled[served[p][s]] = "full"
         /\ kind[p][s] = "shared" /\ mem[p][s] # 0 => filled[mem[p][s]] = "full"
    /\ pc[p] \in {"receive", "map", "bind"} /\ fd[p] # 0 => filled[fd[p]] = "full"

(* A socket taken for dead is dead, and stays so under the lock. *)
DeadInv == \A p \in Proc : pc[p] = "dead" => ~Listening(peer[p])

(* i is the only image offered or used. *)
Agree(i) ==
  \A q \in Proc :
    /\ Listening(q) => served[q][path[q]] = i
    /\ Settled(q) => \A s \in Slots : kind[q][s] = "shared" => served[q][s] = i

(* The opening process p misses no peer that listens, and the image it     *)
(* gets is the one that is offered and used by all the others.             *)
HolderInv(p) ==
  /\ pc[p] \in {"peers", "dead", "receive"} =>
       \A q \in Proc : Listening(q) =>
         \/ q \in peers[p]
         \/ pc[p] = "receive" /\ peer[p] = q /\ link[p] = path[q]
  /\ pc[p] = "receive" /\ served[peer[p]][link[p]] # 0
       => Agree(served[peer[p]][link[p]])
  /\ fd[p] # 0 => Agree(fd[p])

AgreeInv ==
  ~late /\ ~failed => \A q \in Proc : Listening(q) => Agree(served[q][path[q]])

LockHolderInv == ~late /\ ~failed => \A p \in Proc : HolderInv(p)

ImageInv == Reachable /\ AgreeInv /\ LockHolderInv

IInv == TypeOK /\ LockInv /\ KindInv /\ FullInv /\ DeadInv /\ ImageInv
-----------------------------------------------------------------------------
LEMMA InitOK == Init => IInv
<1> SUFFICES ASSUME Init PROVE IInv
  OBVIOUS
<1> USE SharedAssumption DEF Init, Slots, Images, NoFile, Locked
<1>1. TypeOK
  <2>1. 0 \in Slots /\ images \in 0 .. MaxOpens /\ opens \in 0 .. MaxOpens
    OBVIOUS
  <2>2. kind \in [Proc -> [Slots -> {"none", "shared", "local"}]]
    OBVIOUS
  <2>3. /\ mem \in [Proc -> [Slots -> Images \cup {0}]]
        /\ served \in [Proc -> [Slots -> Images \cup {0}]]
    OBVIOUS
  <2>4. /\ cur \in [Proc -> Slots] /\ path \in [Proc -> Slots \cup {NoFile}]
        /\ peers \in [Proc -> SUBSET Proc] /\ peer \in [Proc -> Proc]
        /\ link \in [Proc -> Slots] /\ fd \in [Proc -> Images \cup {0}]
    BY <2>1
  <2>5. filled \in [Images -> {"raw", "half", "full"}]
    OBVIOUS
  <2> QED
    BY <2>1, <2>2, <2>3, <2>4, <2>5 DEF TypeOK
<1>2. LockInv
  BY DEF LockInv
<1>3. KindInv /\ FullInv
  BY DEF KindInv, FullInv
<1>4. \A q \in Proc : ~Listening(q)
  BY DEF Listening
<1>5. DeadInv /\ ImageInv
  BY <1>4 DEF DeadInv, ImageInv, Reachable, AgreeInv, LockHolderInv, HolderInv
<1> QED
  BY <1>1, <1>2, <1>3, <1>5 DEF IInv

LEMMA TypeStep ==
  ASSUME TypeOK, [Next]_vars PROVE TypeOK'
<1> USE SharedAssumption DEF TypeOK, Slots, Images, NoFile, Locked, Goto, opening, shared, history
<1>1. ASSUME NEW p \in Proc, GetLock(p) PROVE TypeOK'
  BY <1>1 DEF GetLock
<1>2. ASSUME NEW p \in Proc, Connect(p) PROVE TypeOK'
  <2>1. PICK q \in peers[p] : peers' = [peers EXCEPT ![p] = @ \ {q}] /\ Listening(q)
         /\ peer' = [peer EXCEPT ![p] = q] /\ link' = [link EXCEPT ![p] = path[q]]
    BY <1>2 DEF Connect
  <2>2. peers' \in [Proc -> SUBSET Proc]
    BY <2>1
  <2>3. path[q] \in Slots
    BY <2>1 DEF Listening
  <2> QED
    BY <1>2, <2>1, <2>2, <2>3 DEF Connect
<1>3. ASSUME NEW p \in Proc, Refused(p) PROVE TypeOK'
  <2>1. PICK q \in peers[p] : peers' = [peers EXCEPT ![p] = @ \ {q}] /\ peer' = [peer EXCEPT ![p] = q]
    BY <1>3 DEF Refused
  <2>2. peers' \in [Proc -> SUBSET Proc]
    BY <2>1
  <2> QED
    BY <1>3, <2>1, <2>2 DEF Refused
<1>4. ASSUME NEW p \in Proc, Remove(p) PROVE TypeOK'
  BY <1>4 DEF Remove
<1>5. ASSUME NEW p \in Proc, Receive(p) PROVE TypeOK'
  BY <1>5 DEF Receive
<1>6. ASSUME NEW p \in Proc, HungUp(p) PROVE TypeOK'
  BY <1>6 DEF HungUp
<1>7. ASSUME NEW p \in Proc, TimeOut(p) PROVE TypeOK'
  BY <1>7 DEF TimeOut
<1>8. ASSUME NEW p \in Proc, PassOver(p) PROVE TypeOK'
  <2>1. PICK q \in peers[p] : peers' = [peers EXCEPT ![p] = @ \ {q}]
    BY <1>8 DEF PassOver
  <2>2. peers' \in [Proc -> SUBSET Proc]
    BY <2>1
  <2> QED
    BY <1>8, <2>1, <2>2 DEF PassOver
<1>9. ASSUME NEW p \in Proc, Create(p) PROVE TypeOK'
  BY <1>9 DEF Create
<1>10. ASSUME NEW p \in Proc, Fill(p) PROVE TypeOK'
  BY <1>10 DEF Fill
<1>11. ASSUME NEW p \in Proc, Map(p) PROVE TypeOK'
  BY <1>11 DEF Map
<1>12. ASSUME NEW p \in Proc, Bind(p) PROVE TypeOK'
  BY <1>12 DEF Bind, Return
<1>13. ASSUME NEW p \in Proc, Discard(p) PROVE TypeOK'
  BY <1>13 DEF Discard, Return
<1>14. ASSUME NEW p \in Proc, FailOpen(p) PROVE TypeOK'
  BY <1>14 DEF FailOpen, LockWithout
<1>15. ASSUME NEW p \in Proc, Unmap(p) PROVE TypeOK'
  BY <1>15 DEF Unmap
<1>16. ASSUME NEW p \in Proc, Unlink(p) PROVE TypeOK'
  BY <1>16 DEF Unlink
<1>17. ASSUME NEW p \in Proc, JoinServer(p) PROVE TypeOK'
  BY <1>17 DEF JoinServer, Joined
<1>18. ASSUME NEW p \in Proc, JoinLast(p) PROVE TypeOK'
  <2>1. 0 \in Slots
    OBVIOUS
  <2>2. served' \in [Proc -> [Slots -> Images \cup {0}]]
    BY <1>18 DEF JoinLast, Joined
  <2>3. kind' \in [Proc -> [Slots -> {"none", "shared", "local"}]]
    BY <1>18 DEF JoinLast, Joined
  <2>4. cur' \in [Proc -> Slots]
    BY <1>18, <2>1 DEF JoinLast, Return
  <2> QED
    BY <1>18, <2>1, <2>2, <2>3, <2>4 DEF JoinLast, Return
<1>19. ASSUME NEW p \in Proc, BeginOpen(p) PROVE TypeOK'
  BY <1>19 DEF BeginOpen
<1>20. ASSUME NEW p \in Proc, BeginClear(p) PROVE TypeOK'
  BY <1>20 DEF BeginClear
<1>21. ASSUME NEW p \in Proc, AtExit(p) PROVE TypeOK'
  BY <1>21 DEF AtExit
<1>22. ASSUME NEW p \in Proc, Start(p) PROVE TypeOK'
  BY <1>22 DEF Start
<1>23. ASSUME NEW p \in Proc, Die(p) PROVE TypeOK'
  BY <1>23 DEF Die, LockWithout
<1>24. ASSUME NEW p \in Proc, NEW q \in Proc, NEW s \in Slots, Serve(q, s, p) PROVE TypeOK'
  BY <1>24 DEF Serve
<1>25. CASE UNCHANGED vars
  BY <1>25 DEF vars
<1> HIDE DEF TypeOK, Slots, Images, NoFile, Locked, Goto, opening, shared, history
<1> QED
  BY <1>1, <1>2, <1>3, <1>4, <1>5, <1>6, <1>7, <1>8, <1>9, <1>10, <1>11, <1>12, <1>13, <1>14, <1>15, <1>16, <1>17, <1>18, <1>19, <1>20, <1>21, <1>22, <1>23, <1>24, <1>25 DEF Next, OpenStep, CloseStep

(* The lock excludes. *)
LEMMA LockStep ==
  ASSUME TypeOK, LockInv, [Next]_vars PROVE LockInv'
<1> USE SharedAssumption DEF TypeOK, Slots, Images, NoFile, Locked, Goto, opening, shared, history, LockInv, Return
<1>1. ASSUME NEW p \in Proc, GetLock(p) PROVE LockInv'
  BY <1>1 DEF GetLock
<1>2. ASSUME NEW p \in Proc, Connect(p) PROVE LockInv'
  BY <1>2 DEF Connect
<1>3. ASSUME NEW p \in Proc, Refused(p) PROVE LockInv'
  BY <1>3 DEF Refused
<1>4. ASSUME NEW p \in Proc, Remove(p) PROVE LockInv'
  BY <1>4 DEF Remove
<1>5. ASSUME NEW p \in Proc, Receive(p) PROVE LockInv'
  BY <1>5 DEF Receive
<1>6. ASSUME NEW p \in Proc, HungUp(p) PROVE LockInv'
  BY <1>6 DEF HungUp
<1>7. ASSUME NEW p \in Proc, TimeOut(p) PROVE LockInv'
  BY <1>7 DEF TimeOut
<1>8. ASSUME NEW p \in Proc, PassOver(p) PROVE LockInv'
  BY <1>8 DEF PassOver
<1>9. ASSUME NEW p \in Proc, Create(p) PROVE LockInv'
  BY <1>9 DEF Create
<1>10. ASSUME NEW p \in Proc, Fill(p) PROVE LockInv'
  BY <1>10 DEF Fill
<1>11. ASSUME NEW p \in Proc, Map(p) PROVE LockInv'
  BY <1>11 DEF Map
<1>12. ASSUME NEW p \in Proc, Bind(p) PROVE LockInv'
  BY <1>12 DEF Bind, Return
<1>13. ASSUME NEW p \in Proc, Discard(p) PROVE LockInv'
  BY <1>13 DEF Discard, Return
<1>14. ASSUME NEW p \in Proc, FailOpen(p) PROVE LockInv'
  BY <1>14 DEF FailOpen, LockWithout
<1>15. ASSUME NEW p \in Proc, Unmap(p) PROVE LockInv'
  BY <1>15 DEF Unmap
<1>16. ASSUME NEW p \in Proc, Unlink(p) PROVE LockInv'
  BY <1>16 DEF Unlink
<1>17. ASSUME NEW p \in Proc, JoinServer(p) PROVE LockInv'
  BY <1>17 DEF JoinServer, Joined
<1>18. ASSUME NEW p \in Proc, JoinLast(p) PROVE LockInv'
  BY <1>18 DEF JoinLast, Joined, Return
<1>19. ASSUME NEW p \in Proc, BeginOpen(p) PROVE LockInv'
  BY <1>19 DEF BeginOpen
<1>20. ASSUME NEW p \in Proc, BeginClear(p) PROVE LockInv'
  BY <1>20 DEF BeginClear
<1>21. ASSUME NEW p \in Proc, AtExit(p) PROVE LockInv'
  BY <1>21 DEF AtExit
<1>22. ASSUME NEW p \in Proc, Start(p) PROVE LockInv'
  BY <1>22 DEF Start
<1>23. ASSUME NEW p \in Proc, Die(p) PROVE LockInv'
  BY <1>23 DEF Die, LockWithout
<1>24. ASSUME NEW p \in Proc, NEW q \in Proc, NEW s \in Slots, Serve(q, s, p) PROVE LockInv'
  BY <1>24 DEF Serve
<1>25. CASE UNCHANGED vars
  BY <1>25 DEF vars
<1> HIDE DEF TypeOK, Slots, Images, NoFile, Locked, Goto, opening, shared, history, LockInv, Return
<1> QED
  BY <1>1, <1>2, <1>3, <1>4, <1>5, <1>6, <1>7, <1>8, <1>9, <1>10, <1>11, <1>12, <1>13, <1>14, <1>15, <1>16, <1>17, <1>18, <1>19, <1>20, <1>21, <1>22, <1>23, <1>24, <1>25 DEF Next, OpenStep, CloseStep

LEMMA FullStep ==
  ASSUME TypeOK, LockInv, KindInv, FullInv, [Next]_vars PROVE FullInv'
<1> USE SharedAssumption DEF TypeOK, Slots, Images, NoFile, Locked, Goto, opening, shared, history, FullInv, KindInv
<1>1. ASSUME NEW p \in Proc, GetLock(p) PROVE FullInv'
  BY <1>1 DEF GetLock
<1>2. ASSUME NEW p \in Proc, Connect(p) PROVE FullInv'
  BY <1>2 DEF Connect
<1>3. ASSUME NEW p \in Proc, Refused(p) PROVE FullInv'
  BY <1>3 DEF Refused
<1>4. ASSUME NEW p \in Proc, Remove(p) PROVE FullInv'
  BY <1>4 DEF Remove
<1>5. ASSUME NEW p \in Proc, Receive(p) PROVE FullInv'
  BY <1>5 DEF Receive
<1>6. ASSUME NEW p \in Proc, HungUp(p) PROVE FullInv'
  BY <1>6 DEF HungUp
<1>7. ASSUME NEW p \in Proc, TimeOut(p) PROVE FullInv'
  BY <1>7 DEF TimeOut
<1>8. ASSUME NEW p \in Proc, PassOver(p) PROVE FullInv'
  BY <1>8 DEF PassOver
<1>9. ASSUME NEW p \in Proc, Create(p) PROVE FullInv'
  BY <1>9 DEF Create
<1>10. ASSUME NEW p \in Proc, Fill(p) PROVE FullInv'
  BY <1>10 DEF Fill
<1>11. ASSUME NEW p \in Proc, Map(p) PROVE FullInv'
  BY <1>11 DEF Map
<1>12. ASSUME NEW p \in Proc, Bind(p) PROVE FullInv'
  BY <1>12 DEF Bind, Return
<1>13. ASSUME NEW p \in Proc, Discard(p) PROVE FullInv'
  BY <1>13 DEF Discard, Return
<1>14. ASSUME NEW p \in Proc, FailOpen(p) PROVE FullInv'
  BY <1>14 DEF FailOpen, LockWithout
<1>15. ASSUME NEW p \in Proc, Unmap(p) PROVE FullInv'
  BY <1>15 DEF Unmap
<1>16. ASSUME NEW p \in Proc, Unlink(p) PROVE FullInv'
  BY <1>16 DEF Unlink
<1>17. ASSUME NEW p \in Proc, JoinServer(p) PROVE FullInv'
  BY <1>17 DEF JoinServer, Joined
<1>18. ASSUME NEW p \in Proc, JoinLast(p) PROVE FullInv'
  BY SMTT(30), <1>18 DEF JoinLast, Joined, Return
<1>19. ASSUME NEW p \in Proc, BeginOpen(p) PROVE FullInv'
  BY <1>19 DEF BeginOpen
<1>20. ASSUME NEW p \in Proc, BeginClear(p) PROVE FullInv'
  BY <1>20 DEF BeginClear
<1>21. ASSUME NEW p \in Proc, AtExit(p) PROVE FullInv'
  BY <1>21 DEF AtExit
<1>22. ASSUME NEW p \in Proc, Start(p) PROVE FullInv'
  BY <1>22 DEF Start
<1>23. ASSUME NEW p \in Proc, Die(p) PROVE FullInv'
  BY <1>23 DEF Die, LockWithout
<1>24. ASSUME NEW p \in Proc, NEW q \in Proc, NEW s \in Slots, Serve(q, s, p) PROVE FullInv'
  BY <1>24 DEF Serve
<1>25. CASE UNCHANGED vars
  BY <1>25 DEF vars
<1> HIDE DEF TypeOK, Slots, Images, NoFile, Locked, Goto, opening, shared, history, FullInv, KindInv
<1> QED
  BY <1>1, <1>2, <1>3, <1>4, <1>5, <1>6, <1>7, <1>8, <1>9, <1>10, <1>11, <1>12, <1>13, <1>14, <1>15, <1>16, <1>17, <1>18, <1>19, <1>20, <1>21, <1>22, <1>23, <1>24, <1>25 DEF Next, OpenStep, CloseStep

LEMMA KindStep ==
  ASSUME TypeOK, LockInv, KindInv, [Next]_vars PROVE KindInv'
<1> USE SharedAssumption DEF TypeOK, Slots, Images, NoFile, Locked, Goto, opening, shared, history, KindInv, LockInv, Settled
<1>1. ASSUME NEW p \in Proc, GetLock(p) PROVE KindInv'
  BY <1>1 DEF GetLock
<1>2. ASSUME NEW p \in Proc, Connect(p) PROVE KindInv'
  BY <1>2 DEF Connect
<1>3. ASSUME NEW p \in Proc, Refused(p) PROVE KindInv'
  BY <1>3 DEF Refused
<1>4. ASSUME NEW p \in Proc, Remove(p) PROVE KindInv'
  BY <1>4 DEF Remove
<1>5. ASSUME NEW p \in Proc, Receive(p) PROVE KindInv'
  BY <1>5 DEF Receive
<1>6. ASSUME NEW p \in Proc, HungUp(p) PROVE KindInv'
  BY <1>6 DEF HungUp
<1>7. ASSUME NEW p \in Proc, TimeOut(p) PROVE KindInv'
  BY <1>7 DEF TimeOut
<1>8. ASSUME NEW p \in Proc, PassOver(p) PROVE KindInv'
  BY <1>8 DEF PassOver
<1>9. ASSUME NEW p \in Proc, Create(p) PROVE KindInv'
  BY <1>9 DEF Create
<1>10. ASSUME NEW p \in Proc, Fill(p) PROVE KindInv'
  BY <1>10 DEF Fill
<1>11. ASSUME NEW p \in Proc, Map(p) PROVE KindInv'
  BY <1>11 DEF Map
<1>12. ASSUME NEW p \in Proc, Bind(p) PROVE KindInv'
  BY <1>12 DEF Bind, Return
<1>13. ASSUME NEW p \in Proc, Discard(p) PROVE KindInv'
  BY <1>13 DEF Discard, Return
<1>14. ASSUME NEW p \in Proc, FailOpen(p) PROVE KindInv'
  BY <1>14 DEF FailOpen, LockWithout
<1>15. ASSUME NEW p \in Proc, Unmap(p) PROVE KindInv'
  BY <1>15 DEF Unmap
<1>16. ASSUME NEW p \in Proc, Unlink(p) PROVE KindInv'
  BY <1>16 DEF Unlink
<1>17. ASSUME NEW p \in Proc, JoinServer(p) PROVE KindInv'
  BY <1>17 DEF JoinServer, Joined
<1>18. ASSUME NEW p \in Proc, JoinLast(p) PROVE KindInv'
  BY <1>18 DEF JoinLast, Joined, Return
<1>19. ASSUME NEW p \in Proc, BeginOpen(p) PROVE KindInv'
  BY <1>19 DEF BeginOpen
<1>20. ASSUME NEW p \in Proc, BeginClear(p) PROVE KindInv'
  BY <1>20 DEF BeginClear
<1>21. ASSUME NEW p \in Proc, AtExit(p) PROVE KindInv'
  BY <1>21 DEF AtExit
<1>22. ASSUME NEW p \in Proc, Start(p) PROVE KindInv'
  BY <1>22 DEF Start
<1>23. ASSUME NEW p \in Proc, Die(p) PROVE KindInv'
  BY <1>23 DEF Die, LockWithout
<1>24. ASSUME NEW p \in Proc, NEW q \in Proc, NEW s \in Slots, Serve(q, s, p) PROVE KindInv'
  BY <1>24 DEF Serve
<1>25. CASE UNCHANGED vars
  BY <1>25 DEF vars
<1> HIDE DEF TypeOK, Slots, Images, NoFile, Locked, Goto, opening, shared, history, KindInv, LockInv, Settled
<1> QED
  BY <1>1, <1>2, <1>3, <1>4, <1>5, <1>6, <1>7, <1>8, <1>9, <1>10, <1>11, <1>12, <1>13, <1>14, <1>15, <1>16, <1>17, <1>18, <1>19, <1>20, <1>21, <1>22, <1>23, <1>24, <1>25 DEF Next, OpenStep, CloseStep

LEMMA DeadStep ==
  ASSUME TypeOK, LockInv, KindInv, DeadInv, [Next]_vars PROVE DeadInv'
<1> USE SharedAssumption DEF TypeOK, Slots, Images, NoFile, Locked, Goto, opening, shared, history, DeadInv, LockInv, Listening, KindInv
<1>1. ASSUME NEW p \in Proc, GetLock(p) PROVE DeadInv'
  BY <1>1 DEF GetLock
<1>2. ASSUME NEW p \in Proc, Connect(p) PROVE DeadInv'
  BY <1>2 DEF Connect
<1>3. ASSUME NEW p \in Proc, Refused(p) PROVE DeadInv'
  BY <1>3 DEF Refused
<1>4. ASSUME NEW p \in Proc, Remove(p) PROVE DeadInv'
  BY <1>4 DEF Remove
<1>5. ASSUME NEW p \in Proc, Receive(p) PROVE DeadInv'
  BY <1>5 DEF Receive
<1>6. ASSUME NEW p \in Proc, HungUp(p) PROVE DeadInv'
  BY <1>6 DEF HungUp
<1>7. ASSUME NEW p \in Proc, TimeOut(p) PROVE DeadInv'
  BY <1>7 DEF TimeOut
<1>8. ASSUME NEW p \in Proc, PassOver(p) PROVE DeadInv'
  BY <1>8 DEF PassOver
<1>9. ASSUME NEW p \in Proc, Create(p) PROVE DeadInv'
  BY <1>9 DEF Create
<1>10. ASSUME NEW p \in Proc, Fill(p) PROVE DeadInv'
  BY <1>10 DEF Fill
<1>11. ASSUME NEW p \in Proc, Map(p) PROVE DeadInv'
  BY <1>11 DEF Map
<1>12. ASSUME NEW p \in Proc, Bind(p) PROVE DeadInv'
  BY <1>12 DEF Bind, Return
<1>13. ASSUME NEW p \in Proc, Discard(p) PROVE DeadInv'
  BY <1>13 DEF Discard, Return
<1>14. ASSUME NEW p \in Proc, FailOpen(p) PROVE DeadInv'
  BY <1>14 DEF FailOpen, LockWithout
<1>15. ASSUME NEW p \in Proc, Unmap(p) PROVE DeadInv'
  BY <1>15 DEF Unmap
<1>16. ASSUME NEW p \in Proc, Unlink(p) PROVE DeadInv'
  BY <1>16 DEF Unlink
<1>17. ASSUME NEW p \in Proc, JoinServer(p) PROVE DeadInv'
  BY <1>17 DEF JoinServer, Joined
<1>18. ASSUME NEW p \in Proc, JoinLast(p) PROVE DeadInv'
  BY <1>18 DEF JoinLast, Joined, Return
<1>19. ASSUME NEW p \in Proc, BeginOpen(p) PROVE DeadInv'
  BY <1>19 DEF BeginOpen
<1>20. ASSUME NEW p \in Proc, BeginClear(p) PROVE DeadInv'
  BY <1>20 DEF BeginClear
<1>21. ASSUME NEW p \in Proc, AtExit(p) PROVE DeadInv'
  BY <1>21 DEF AtExit
<1>22. ASSUME NEW p \in Proc, Start(p) PROVE DeadInv'
  BY <1>22 DEF Start
<1>23. ASSUME NEW p \in Proc, Die(p) PROVE DeadInv'
  BY <1>23 DEF Die, LockWithout
<1>24. ASSUME NEW p \in Proc, NEW q \in Proc, NEW s \in Slots, Serve(q, s, p) PROVE DeadInv'
  BY <1>24 DEF Serve
<1>25. CASE UNCHANGED vars
  BY <1>25 DEF vars
<1> HIDE DEF TypeOK, Slots, Images, NoFile, Locked, Goto, opening, shared, history, DeadInv, LockInv, Listening, KindInv
<1> QED
  BY <1>1, <1>2, <1>3, <1>4, <1>5, <1>6, <1>7, <1>8, <1>9, <1>10, <1>11, <1>12, <1>13, <1>14, <1>15, <1>16, <1>17, <1>18, <1>19, <1>20, <1>21, <1>22, <1>23, <1>24, <1>25 DEF Next, OpenStep, CloseStep

LEMMA ReachStep ==
  ASSUME TypeOK, LockInv, KindInv, DeadInv, Reachable, [Next]_vars PROVE Reachable'
<1> USE SharedAssumption DEF TypeOK, Slots, Images, NoFile, Locked, Goto, opening, shared, history, Reachable, DeadInv, LockInv, Listening, KindInv, Settled
<1>1. ASSUME NEW p \in Proc, GetLock(p) PROVE Reachable'
  BY <1>1 DEF GetLock
<1>2. ASSUME NEW p \in Proc, Connect(p) PROVE Reachable'
  BY SMTT(30), <1>2 DEF Connect
<1>3. ASSUME NEW p \in Proc, Refused(p) PROVE Reachable'
  BY SMTT(30), <1>3 DEF Refused
<1>4. ASSUME NEW p \in Proc, Remove(p) PROVE Reachable'
  BY <1>4 DEF Remove
<1>5. ASSUME NEW p \in Proc, Receive(p) PROVE Reachable'
  BY <1>5 DEF Receive
<1>6. ASSUME NEW p \in Proc, HungUp(p) PROVE Reachable'
  BY <1>6 DEF HungUp
<1>7. ASSUME NEW p \in Proc, TimeOut(p) PROVE Reachable'
  BY <1>7 DEF TimeOut
<1>8. ASSUME NEW p \in Proc, PassOver(p) PROVE Reachable'
  BY <1>8 DEF PassOver
<1>9. ASSUME NEW p \in Proc, Create(p) PROVE Reachable'
  BY <1>9 DEF Create
<1>10. ASSUME NEW p \in Proc, Fill(p) PROVE Reachable'
  BY <1>10 DEF Fill
<1>11. ASSUME NEW p \in Proc, Map(p) PROVE Reachable'
  BY <1>11 DEF Map
<1>12. ASSUME NEW p \in Proc, Bind(p) PROVE Reachable'
  BY <1>12 DEF Bind, Return
<1>13. ASSUME NEW p \in Proc, Discard(p) PROVE Reachable'
  BY <1>13 DEF Discard, Return
<1>14. ASSUME NEW p \in Proc, FailOpen(p) PROVE Reachable'
  BY <1>14 DEF FailOpen, LockWithout
<1>15. ASSUME NEW p \in Proc, Unmap(p) PROVE Reachable'
  BY <1>15 DEF Unmap
<1>16. ASSUME NEW p \in Proc, Unlink(p) PROVE Reachable'
  BY <1>16 DEF Unlink
<1>17. ASSUME NEW p \in Proc, JoinServer(p) PROVE Reachable'
  BY <1>17 DEF JoinServer, Joined
<1>18. ASSUME NEW p \in Proc, JoinLast(p) PROVE Reachable'
  BY SMTT(30), <1>18 DEF JoinLast, Joined, Return
<1>19. ASSUME NEW p \in Proc, BeginOpen(p) PROVE Reachable'
  BY <1>19 DEF BeginOpen
<1>20. ASSUME NEW p \in Proc, BeginClear(p) PROVE Reachable'
  BY <1>20 DEF BeginClear
<1>21. ASSUME NEW p \in Proc, AtExit(p) PROVE Reachable'
  BY <1>21 DEF AtExit
<1>22. ASSUME NEW p \in Proc, Start(p) PROVE Reachable'
  BY <1>22 DEF Start
<1>23. ASSUME NEW p \in Proc, Die(p) PROVE Reachable'
  BY <1>23 DEF Die, LockWithout
<1>24. ASSUME NEW p \in Proc, NEW q \in Proc, NEW s \in Slots, Serve(q, s, p) PROVE Reachable'
  BY <1>24 DEF Serve
<1>25. CASE UNCHANGED vars
  BY <1>25 DEF vars
<1> HIDE DEF TypeOK, Slots, Images, NoFile, Locked, Goto, opening, shared, history, Reachable, DeadInv, LockInv, Listening, KindInv, Settled
<1> QED
  BY <1>1, <1>2, <1>3, <1>4, <1>5, <1>6, <1>7, <1>8, <1>9, <1>10, <1>11, <1>12, <1>13, <1>14, <1>15, <1>16, <1>17, <1>18, <1>19, <1>20, <1>21, <1>22, <1>23, <1>24, <1>25 DEF Next, OpenStep, CloseStep

(* A step that only takes away: images that are offered or used after it   *)
(* were so before, and what another process is doing goes on.              *)
Fewer ==
  /\ \A q \in Proc : Listening(q)' =>
       Listening(q) /\ path'[q] = path[q] /\ served'[q][path[q]] = served[q][path[q]]
  /\ \A q \in Proc, s \in Slots : Settled(q)' /\ kind'[q][s] = "shared" =>
       Settled(q) /\ kind[q][s] = "shared" /\ served'[q][s] = served[q][s]
  /\ (late => late') /\ (failed => failed')

(* ... nor more opens under way. *)
Shrinks ==
  /\ Fewer
  /\ \A q \in Proc, s \in Slots : served'[q][s] # 0 => served'[q][s] = served[q][s]
  /\ \A r \in Proc : pc'[r] \in Locked =>
       pc'[r] = pc[r] /\ peers'[r] = peers[r] /\ peer'[r] = peer[r] /\ link'[r] = link[r]
  /\ \A r \in Proc : fd'[r] # 0 => fd'[r] = fd[r]

LEMMA FewerAgree == ASSUME TypeOK, TypeOK', AgreeInv, Fewer PROVE AgreeInv'
<1> SUFFICES ASSUME ~late, ~failed, NEW q \in Proc, Listening(q)'
             PROVE  Agree(served[q][path[q]])'
  BY DEF AgreeInv, Fewer, TypeOK
<1>1. Agree(served[q][path[q]]) /\ served'[q][path'[q]] = served[q][path[q]]
  BY DEF AgreeInv, Fewer
<1> QED
  BY <1>1 DEF Agree, Fewer

LEMMA ShrinkHolder == ASSUME TypeOK, TypeOK', LockHolderInv, Shrinks PROVE LockHolderInv'
<1> USE DEF TypeOK, Locked
<1> SUFFICES ASSUME ~late, ~failed, NEW r \in Proc PROVE HolderInv(r)'
  BY DEF LockHolderInv, Shrinks, Fewer, TypeOK
<1>1. HolderInv(r)
  BY DEF LockHolderInv
<1>2. \A i \in Images \cup {0} : Agree(i) => Agree(i)'
  BY DEF Shrinks, Fewer, Agree, Listening, Settled
<1>3. (pc[r] \in {"peers", "dead", "receive"} =>
        \A q \in Proc : Listening(q) =>
          \/ q \in peers[r]
          \/ pc[r] = "receive" /\ peer[r] = q /\ link[r] = path[q])'
  BY <1>1 DEF Shrinks, Fewer, HolderInv
<1>4. (pc[r] = "receive" /\ served[peer[r]][link[r]] # 0
        => Agree(served[peer[r]][link[r]]))'
  <2> SUFFICES ASSUME (pc[r] = "receive" /\ served[peer[r]][link[r]] # 0)'
               PROVE  Agree(served[peer[r]][link[r]])'
    OBVIOUS
  <2>1. /\ served'[peer'[r]][link'[r]] = served[peer[r]][link[r]]
        /\ pc[r] = "receive" /\ served[peer[r]][link[r]] # 0
    BY DEF Shrinks, Fewer
  <2>2. Agree(served[peer[r]][link[r]])
    BY <1>1, <2>1 DEF HolderInv
  <2> QED
    BY <2>1, <2>2 DEF Shrinks, Fewer, Agree, Listening, Settled
<1>5. (fd[r] # 0 => Agree(fd[r]))'
  BY <1>1 DEF Shrinks, Fewer, HolderInv, Agree, Listening, Settled
<1> QED
  BY <1>3, <1>4, <1>5 DEF HolderInv

LEMMA CloseShrinks ==
  ASSUME TypeOK, KindInv, NEW p \in Proc,
         Unlink(p) \/ JoinServer(p) \/ JoinLast(p) \/ AtExit(p) \/ Die(p)
  PROVE  Shrinks
<1> USE SharedAssumption DEF TypeOK, Slots, Images, NoFile, Locked, Goto, opening, shared, history, KindInv, Shrinks, Fewer, Listening, Settled
<1>1. CASE Unlink(p)
  BY <1>1 DEF Unlink
<1>2. CASE JoinServer(p)
  BY <1>2 DEF JoinServer, Joined
<1>3. CASE JoinLast(p)
  <2>1. \A s \in Slots : s # cur[p] => kind[p][s] = "none" /\ served[p][s] = 0
    <3> SUFFICES ASSUME NEW s \in Slots, s # cur[p]
                 PROVE  kind[p][s] = "none" /\ served[p][s] = 0
      OBVIOUS
    <3>1. s < cur[p]
      BY <1>3 DEF JoinLast
    <3> QED
      BY <1>3, <3>1 DEF JoinLast
  <2>2. \A s \in Slots : kind'[p][s] = "none" /\ served'[p][s] = 0
    BY <1>3, <2>1 DEF JoinLast, Joined
  <2>3. \A q \in Proc, s \in Slots : q # p =>
          kind'[q][s] = kind[q][s] /\ served'[q][s] = served[q][s]
    BY <1>3 DEF JoinLast, Joined
  <2>4. \A q \in Proc : q # p => pc'[q] = pc[q] /\ peers'[q] = peers[q]
          /\ peer'[q] = peer[q] /\ link'[q] = link[q] /\ fd'[q] = fd[q]
    BY <1>3 DEF JoinLast, Return
  <2>5. pc'[p] = "idle" /\ fd'[p] = 0 /\ path' = path /\ UNCHANGED <<late, failed>>
    BY <1>3 DEF JoinLast, Return
  <2>6. \A q \in Proc : path[q] \in Slots \cup {NoFile}
    OBVIOUS
  <2> HIDE DEF TypeOK, KindInv, Slots, Locked
  <2>7. \A q \in Proc : Listening(q)' =>
          Listening(q) /\ path'[q] = path[q] /\ served'[q][path[q]] = served[q][path[q]]
    BY <2>2, <2>3, <2>5, <2>6 DEF Listening
  <2>8. \A q \in Proc, s \in Slots : Settled(q)' /\ kind'[q][s] = "shared" =>
          Settled(q) /\ kind[q][s] = "shared" /\ served'[q][s] = served[q][s]
    BY <2>2, <2>3, <2>4 DEF Settled
  <2>9. \A q \in Proc, s \in Slots : served'[q][s] # 0 => served'[q][s] = served[q][s]
    BY <2>2, <2>3
  <2>10. \A r \in Proc : pc'[r] \in Locked =>
          pc'[r] = pc[r] /\ peers'[r] = peers[r] /\ peer'[r] = peer[r] /\ link'[r] = link[r]
    BY <2>4, <2>5 DEF Locked
  <2>11. \A r \in Proc : fd'[r] # 0 => fd'[r] = fd[r]
    BY <2>4, <2>5
  <2> QED
    BY <2>5, <2>7, <2>8, <2>9, <2>10, <2>11 DEF Shrinks, Fewer
<1>4. CASE AtExit(p)
  BY <1>4 DEF AtExit
<1>5. CASE Die(p)
  BY <1>5 DEF Die
<1> QED
  BY <1>1, <1>2, <1>3, <1>4, <1>5

LEMMA FewerStep ==
  ASSUME TypeOK, KindInv, [Next]_vars,
         \A p \in Proc : ~Bind(p) /\ ~Discard(p)
  PROVE  Fewer
<1> USE DEF TypeOK, Goto, opening, shared, history, Fewer, Listening, Settled, Locked
<1>1. ASSUME NEW p \in Proc, GetLock(p) PROVE Fewer
  BY <1>1 DEF GetLock
<1>2. ASSUME NEW p \in Proc, Connect(p) PROVE Fewer
  BY <1>2 DEF Connect
<1>3. ASSUME NEW p \in Proc, Refused(p) PROVE Fewer
  BY <1>3 DEF Refused
<1>4. ASSUME NEW p \in Proc, Remove(p) PROVE Fewer
  BY <1>4 DEF Remove
<1>5. ASSUME NEW p \in Proc, Receive(p) PROVE Fewer
  BY <1>5 DEF Receive
<1>6. ASSUME NEW p \in Proc, HungUp(p) PROVE Fewer
  BY <1>6 DEF HungUp
<1>7. ASSUME NEW p \in Proc, TimeOut(p) PROVE Fewer
  BY <1>7 DEF TimeOut
<1>8. ASSUME NEW p \in Proc, PassOver(p) PROVE Fewer
  BY <1>8 DEF PassOver
<1>9. ASSUME NEW p \in Proc, Create(p) PROVE Fewer
  BY <1>9 DEF Create
<1>10. ASSUME NEW p \in Proc, Fill(p) PROVE Fewer
  BY <1>10 DEF Fill
<1>11. ASSUME NEW p \in Proc, Map(p) PROVE Fewer
  BY <1>11 DEF Map
<1>12. ASSUME NEW p \in Proc, FailOpen(p) PROVE Fewer
  BY <1>12 DEF FailOpen
<1>13. ASSUME NEW p \in Proc, Unmap(p) PROVE Fewer
  BY <1>13 DEF Unmap
<1>14. ASSUME NEW p \in Proc, BeginOpen(p) PROVE Fewer
  BY <1>14 DEF BeginOpen
<1>15. ASSUME NEW p \in Proc, BeginClear(p) PROVE Fewer
  BY <1>15 DEF BeginClear
<1>16. ASSUME NEW p \in Proc, Start(p) PROVE Fewer
  BY <1>16 DEF Start
<1>17. ASSUME NEW p \in Proc, NEW q \in Proc, NEW s \in Slots, Serve(q, s, p) PROVE Fewer
  BY <1>17 DEF Serve
<1>18. CASE UNCHANGED vars
  BY <1>18 DEF vars
<1>19. ASSUME NEW p \in Proc,
       Unlink(p) \/ JoinServer(p) \/ JoinLast(p) \/ AtExit(p) \/ Die(p)
       PROVE Fewer
  <2>1. Shrinks
    BY <1>19, CloseShrinks
  <2> QED
    BY <2>1 DEF Shrinks
<1> HIDE DEF TypeOK, Fewer
<1> QED
  BY <1>1, <1>2, <1>3, <1>4, <1>5, <1>6, <1>7, <1>8, <1>9, <1>10, <1>11, <1>12, <1>13, <1>14, <1>15, <1>16, <1>17, <1>18, <1>19 DEF Next, OpenStep, CloseStep

LEMMA AgreeStep ==
  ASSUME TypeOK, LockInv, KindInv, ImageInv, [Next]_vars PROVE AgreeInv'
<1>1. ASSUME NEW p \in Proc, Bind(p) PROVE AgreeInv'
  <2> USE DEF TypeOK, Goto, history, Bind, Return
  <2> SUFFICES ASSUME ~late, ~failed
               PROVE  (\A q \in Proc : Listening(q) => Agree(served[q][path[q]]))'
    BY <1>1 DEF AgreeInv
  <2>1. Agree(fd[p])
    <3>1. fd[p] # 0
      BY <1>1 DEF KindInv
    <3> QED
      BY <3>1 DEF ImageInv, LockHolderInv, HolderInv
  <2>2. \A q \in Proc : Listening(q)' => served'[q][path'[q]] = fd[p]
    BY <1>1, <2>1 DEF Listening, Agree
  <2>3. \A q \in Proc, s \in Slots :
          Settled(q)' /\ kind'[q][s] = "shared" => served'[q][s] = fd[p]
    BY <1>1, <2>1 DEF Settled, Agree
  <2> QED
    BY <2>2, <2>3 DEF Agree
<1>2. ASSUME NEW p \in Proc, Discard(p) PROVE AgreeInv'
  BY <1>2 DEF Discard, Return, KindInv, AgreeInv, history
<1>3. CASE \A p \in Proc : ~Bind(p) /\ ~Discard(p)
  BY <1>3, FewerStep, FewerAgree, TypeStep DEF ImageInv
<1> QED
  BY <1>1, <1>2, <1>3

LEMMA HolderStep ==
  ASSUME TypeOK, LockInv, KindInv, DeadInv, ImageInv, [Next]_vars PROVE LockHolderInv'
<1> USE SharedAssumption DEF TypeOK, Slots, Images, NoFile, Locked, Goto, opening, shared, history, ImageInv, AgreeInv, LockHolderInv, DeadInv, LockInv, Listening, KindInv, Settled, HolderInv, Agree, Reachable
<1>1. ASSUME NEW p \in Proc, GetLock(p) PROVE LockHolderInv'
  BY <1>1 DEF GetLock
<1>2. ASSUME NEW p \in Proc, Connect(p) PROVE LockHolderInv'
  BY SMTT(30), <1>2 DEF Connect
<1>3. ASSUME NEW p \in Proc, Refused(p) PROVE LockHolderInv'
  BY <1>3 DEF Refused
<1>4. ASSUME NEW p \in Proc, Remove(p) PROVE LockHolderInv'
  BY <1>4 DEF Remove
<1>5. ASSUME NEW p \in Proc, Receive(p) PROVE LockHolderInv'
  BY <1>5 DEF Receive
<1>6. ASSUME NEW p \in Proc, HungUp(p) PROVE LockHolderInv'
  BY <1>6 DEF HungUp
<1>7. ASSUME NEW p \in Proc, TimeOut(p) PROVE LockHolderInv'
  BY <1>7 DEF TimeOut
<1>8. ASSUME NEW p \in Proc, PassOver(p) PROVE LockHolderInv'
  BY <1>8 DEF PassOver
<1>9. ASSUME NEW p \in Proc, Create(p) PROVE LockHolderInv'
  BY <1>9 DEF Create
<1>10. ASSUME NEW p \in Proc, Fill(p) PROVE LockHolderInv'
  BY <1>10 DEF Fill
<1>11. ASSUME NEW p \in Proc, Map(p) PROVE LockHolderInv'
  BY <1>11 DEF Map
<1>12. ASSUME NEW p \in Proc, Bind(p) PROVE LockHolderInv'
  BY <1>12 DEF Bind, Return
<1>13. ASSUME NEW p \in Proc, Discard(p) PROVE LockHolderInv'
  BY <1>13 DEF Discard, Return
<1>14. ASSUME NEW p \in Proc, FailOpen(p) PROVE LockHolderInv'
  BY <1>14 DEF FailOpen, LockWithout
<1>15. ASSUME NEW p \in Proc, Unmap(p) PROVE LockHolderInv'
  BY <1>15 DEF Unmap
<1>16. ASSUME NEW p \in Proc, Unlink(p) PROVE LockHolderInv'
  BY <1>16, CloseShrinks, ShrinkHolder, TypeStep DEF ImageInv
<1>17. ASSUME NEW p \in Proc, JoinServer(p) PROVE LockHolderInv'
  BY <1>17, CloseShrinks, ShrinkHolder, TypeStep DEF ImageInv
<1>18. ASSUME NEW p \in Proc, JoinLast(p) PROVE LockHolderInv'
  BY <1>18, CloseShrinks, ShrinkHolder, TypeStep DEF ImageInv
<1>19. ASSUME NEW p \in Proc, BeginOpen(p) PROVE LockHolderInv'
  BY SMTT(30), <1>19 DEF BeginOpen
<1>20. ASSUME NEW p \in Proc, BeginClear(p) PROVE LockHolderInv'
  BY <1>20 DEF BeginClear
<1>21. ASSUME NEW p \in Proc, AtExit(p) PROVE LockHolderInv'
  BY <1>21, CloseShrinks, ShrinkHolder, TypeStep DEF ImageInv
<1>22. ASSUME NEW p \in Proc, Start(p) PROVE LockHolderInv'
  BY SMTT(30), <1>22 DEF Start
<1>23. ASSUME NEW p \in Proc, Die(p) PROVE LockHolderInv'
  BY <1>23, CloseShrinks, ShrinkHolder, TypeStep DEF ImageInv
<1>24. ASSUME NEW p \in Proc, NEW q \in Proc, NEW s \in Slots, Serve(q, s, p) PROVE LockHolderInv'
  BY <1>24 DEF Serve
<1>25. CASE UNCHANGED vars
  BY <1>25 DEF vars
<1> HIDE DEF TypeOK, ImageInv, AgreeInv, LockHolderInv, DeadInv, LockInv, KindInv, HolderInv, Reachable
<1> QED
  BY <1>1, <1>2, <1>3, <1>4, <1>5, <1>6, <1>7, <1>8, <1>9, <1>10, <1>11, <1>12, <1>13, <1>14, <1>15, <1>16, <1>17, <1>18, <1>19, <1>20, <1>21, <1>22, <1>23, <1>24, <1>25 DEF Next, OpenStep, CloseStep

LEMMA Step == IInv /\ [Next]_vars => IInv'
<1> SUFFICES ASSUME IInv, [Next]_vars PROVE IInv'
  OBVIOUS
<1>1. TypeOK /\ LockInv /\ KindInv /\ FullInv /\ DeadInv /\ ImageInv
  BY DEF IInv
<1>2. TypeOK' /\ LockInv' /\ KindInv'
  BY <1>1, TypeStep, LockStep, KindStep
<1>3. FullInv' /\ DeadInv'
  BY <1>1, FullStep, DeadStep
<1>4. Reachable' /\ AgreeInv' /\ LockHolderInv'
  <2>1. Reachable
    BY <1>1 DEF ImageInv
  <2> QED
    BY <1>1, <2>1, ReachStep, AgreeStep, HolderStep
<1> QED
  BY <1>2, <1>3, <1>4 DEF IInv, ImageInv
-----------------------------------------------------------------------------
(* The inductive invariant of opening, closing, exiting and being killed. *)
THEOREM Invariance == Spec => []IInv
  BY InitOK, Step, PTL DEF Spec

(* Every variable of open and of the destructors keeps its type. *)
THEOREM TypeCorrect == Spec => []TypeOK
<1>1. IInv => TypeOK
  BY DEF IInv
<1> QED
  BY <1>1, Invariance, PTL

(* A network a search can read is complete, whoever was killed: the peers  *)
(* that fill an image hold the lock, and serve it only when it is full.    *)
THEOREM CompleteNetwork == Spec => []ReadsComplete
<1>1. IInv => ReadsComplete
  BY DEF IInv, FullInv, ReadsComplete
<1> QED
  BY <1>1, Invariance, PTL

(* A process that uses the shared image listens at its socket path, though *)
(* its instances replace each other there.                                 *)
THEOREM StaysReachable == Spec => []Reachable
<1>1. IInv => Reachable
  BY DEF IInv, ImageInv
<1> QED
  BY <1>1, Invariance, PTL

LEMMA ImplyOneImage == IInv => OneImage
<1> SUFFICES ASSUME IInv, ~late, ~failed,
                    NEW p \in Proc, NEW q \in Proc, NEW s \in Slots, NEW r \in Slots,
                    Settled(p), Settled(q), kind[p][s] = "shared", kind[q][r] = "shared"
             PROVE  mem[p][s] = mem[q][r]
  BY DEF OneImage
<1>1. mem[p][s] = served[p][s] /\ mem[q][r] = served[q][r]
  BY DEF IInv, KindInv
<1>2. Listening(p)
  BY DEF IInv, ImageInv, Reachable
<1>3. Agree(served[p][path[p]])
  BY <1>2 DEF IInv, ImageInv, AgreeInv
<1>4. served[p][s] = served[p][path[p]] /\ served[q][r] = served[p][path[p]]
  BY <1>3 DEF Agree
<1> QED
  BY <1>1, <1>4

(* While no peer is late and no call fails, all processes use one image:   *)
(* whoever opens finds every listening peer, and these agree.              *)
THEOREM SharesOneImage == Spec => []OneImage
  BY ImplyOneImage, Invariance, PTL

LEMMA RemoveOnlyDead ==
  ASSUME IInv, [Next]_vars, NEW q \in Proc, path'[q] # path[q], pc'[q] = pc[q]
  PROVE  ~Listening(q)
<1> USE DEF IInv, TypeOK
<1>1. PICK p \in Proc : \/ Remove(p) \/ Bind(p) \/ Discard(p) \/ Unlink(p) \/ AtExit(p)
  BY DEF Next, OpenStep, CloseStep, vars, GetLock, Connect, Refused, Receive, HungUp,
         TimeOut, PassOver, Create, Fill, Map, FailOpen, Unmap, JoinServer, JoinLast,
         BeginOpen, BeginClear, Start, Die, Serve, opening, shared, history, Joined, Return
<1>2. CASE Remove(p)
  <2>1. pc[p] = "dead" /\ q = peer[p]
    BY <1>2 DEF Remove
  <2> QED
    BY <2>1 DEF DeadInv
<1>3. CASE Bind(p) \/ Discard(p) \/ Unlink(p) \/ AtExit(p)
  BY <1>3 DEF Bind, Discard, Unlink, AtExit, Goto, Return
<1> QED
  BY <1>1, <1>2, <1>3

(* A process removes the socket file of another one only when nobody       *)
(* listens behind it: try_receive_memfd found it dead, and under the lock  *)
(* it stays dead.                                                          *)
THEOREM RemovesOnlyDead == Spec => OnlyDeadRemoved
<1>1. IInv /\ [Next]_vars =>
        [\A q \in Proc : path'[q] # path[q] /\ pc'[q] = pc[q] => ~Listening(q)]_vars
  BY RemoveOnlyDead
<1> QED
  BY <1>1, Invariance, PTL DEF Spec, OnlyDeadRemoved

------------------------------------------------------------------------------
(***************************************************************************)
(* The accumulators of a worker.                                           *)
(***************************************************************************)
(* A sum that is kept has no entry that is zero. *)
IsSum(a) == a = [f \in DOMAIN a |-> a[f]] /\ \A f \in DOMAIN a : a[f] \in Int
/\ a[f] # 0

(* A membership counts once. *)
LEMMA OneInt == \A b : One(b) \in {0, 1}
BY DEF One

(* How often a feature is in a sum is a number. *)
LEMMA TimesInt ==
  ASSUME NEW a, IsSum(a)
  PROVE  \A f : Times(a, f) \in Int
BY DEF IsSum, Times

(* Leaving out the zeros changes no count. *)
LEMMA SparseFacts ==
  ASSUME NEW D, NEW g, g = [f \in D |-> g[f]], \A f \in D : g[f] \in Int
  PROVE  /\ IsSum(Sparse(g))
         /\ \A f : Times(Sparse(g), f) = IF f \in D THEN g[f] ELSE 0
<1>1. DOMAIN g = D
  OBVIOUS
<1>. DEFINE S == Sparse(g)
<1>2. DOMAIN S = {f \in D : g[f] # 0} /\ \A f \in DOMAIN S : S[f] = g[f]
  BY <1>1 DEF Sparse
<1>3. S = [f \in DOMAIN S |-> S[f]]
  BY DEF Sparse
<1>. HIDE DEF S
<1>4. IsSum(S)
  BY <1>2, <1>3 DEF IsSum
<1>5. \A f : Times(S, f) = IF f \in D THEN g[f] ELSE 0
  BY <1>2 DEF Times
<1>. QED
  BY <1>4, <1>5 DEF S

(* Apply adds one for each added feature and takes one for each removed. *)
LEMMA ApplyFacts ==
  ASSUME NEW a, IsSum(a), NEW A, NEW R
  PROVE  /\ IsSum(Apply(a, A, R))
         /\ \A f : Times(Apply(a, A, R), f) = Times(a, f) + One(f \in A) - One(f \in R)
<1>. DEFINE D == DOMAIN a \cup A \cup R
            n(f) == Times(a, f) + One(f \in A) - One(f \in R)
            g == [f \in D |-> n(f)]
<1>1. \A f : n(f) \in Int /\ (f \notin D => n(f) = 0)
  <2>. TAKE f
  <2>1. Times(a, f) \in Int /\ One(f \in A) \in {0, 1} /\ One(f \in R) \in {0, 1}
    BY TimesInt, OneInt
  <2>2. ASSUME f \notin D
        PROVE Times(a, f) = 0 /\ One(f \in A) = 0 /\ One(f \in R) = 0
    BY <2>2 DEF Times, One
  <2>. QED
    BY <2>1, <2>2
<1>2. Apply(a, A, R) = Sparse(g)
  BY DEF Apply
<1>3. g = [f \in D |-> g[f]] /\ \A f \in D : g[f] = n(f)
  OBVIOUS
<1>. HIDE DEF g, n, D
<1>4. IsSum(Sparse(g)) /\ \A f : Times(Sparse(g), f) = IF f \in D THEN g[f] ELSE 0
  BY <1>1, <1>3, SparseFacts
<1>5. \A f : Times(Sparse(g), f) = n(f)
  BY <1>1, <1>3, <1>4
<1>. QED
  BY <1>2, <1>4, <1>5 DEF n

(* Combine adds one sum and subtracts another, feature by feature. *)
LEMMA CombineFacts ==
  ASSUME NEW a, IsSum(a), NEW p, IsSum(p), NEW m, IsSum(m)
  PROVE  /\ IsSum(Combine(a, p, m))
         /\ \A f : Times(Combine(a, p, m), f) = Times(a, f) + Times(p, f) - Times(m, f)
<1>. DEFINE D == DOMAIN a \cup DOMAIN p \cup DOMAIN m
            n(f) == Times(a, f) + Times(p, f) - Times(m, f)
            g == [f \in D |-> n(f)]
<1>1. \A f : n(f) \in Int /\ (f \notin D => n(f) = 0)
  <2>. TAKE f
  <2>1. Times(a, f) \in Int /\ Times(p, f) \in Int /\ Times(m, f) \in Int
    BY TimesInt
  <2>2. ASSUME f \notin D
        PROVE Times(a, f) = 0 /\ Times(p, f) = 0 /\ Times(m, f) = 0
    BY <2>2 DEF Times
  <2>. QED
    BY <2>1, <2>2
<1>2. Combine(a, p, m) = Sparse(g)
  BY DEF Combine
<1>3. g = [f \in D |-> g[f]] /\ \A f \in D : g[f] = n(f)
  OBVIOUS
<1>. HIDE DEF g, n, D
<1>4. IsSum(Sparse(g)) /\ \A f : Times(Sparse(g), f) = IF f \in D THEN g[f] ELSE 0
  BY <1>1, <1>3, SparseFacts
<1>5. \A f : Times(Sparse(g), f) = n(f)
  BY <1>1, <1>3, <1>4
<1>. QED
  BY <1>2, <1>4, <1>5 DEF n

(* Two sums with the same counts are the same. *)
LEMMA SameSum ==
  ASSUME NEW a, IsSum(a), NEW b, IsSum(b), \A f : Times(a, f) = Times(b, f)
  PROVE  a = b
<1>1. \A f : f \in DOMAIN a <=> f \in DOMAIN b
  BY DEF Times, IsSum
<1>2. DOMAIN a = DOMAIN b
  BY <1>1
<1>3. \A f \in DOMAIN a : a[f] = b[f]
  BY <1>2 DEF Times
<1>. QED
  BY <1>2, <1>3 DEF IsSum

(* The biases are a sum. *)
LEMMA BiasesFacts ==
  ASSUME NEW net
  PROVE  IsSum(Biases(net))
<1>. DEFINE B == Biases(net)
<1>1. B = [f \in DOMAIN B |-> B[f]] /\ \A f \in DOMAIN B : B[f] = 1
  BY DEF Biases
<1>. HIDE DEF B
<1>2. IsSum(B)
  BY <1>1 DEF IsSum
<1>. QED
  BY <1>2 DEF B

(* What is counted once, and what an exchange of elements changes.         *)
LEMMA Exchange ==
  ASSUME NEW P, NEW Q, NEW A, NEW R, R \subseteq P, A \cap (P \ R) = {}, Q = (P \ R) \cup A
  PROVE  \A f : One(f \in Q) = One(f \in P) + One(f \in A) - One(f \in R)
<1>. TAKE f
<1>1. CASE f \in A
  BY <1>1 DEF One
<1>2. CASE f \notin A
  BY <1>2 DEF One
<1>. QED
  BY <1>1, <1>2
(* Counting the features of two sets that share none. *)
LEMMA Union ==
  ASSUME NEW P, NEW Q, P \cap Q = {}
  PROVE  \A f : One(f \in P \cup Q) = One(f \in P) + One(f \in Q)
BY DEF One

(* The sums of a board. *)
LEMMA PiecesSum ==
  ASSUME NEW net, NEW c, NEW ksq, NEW b
  PROVE  /\ IsSum(SumOfPieces(net, c, ksq, b))
         /\ \A f : Times(SumOfPieces(net, c, ksq, b), f)
                     = Times(Biases(net), f) + One(f \in PiecesAt(net, c, ksq, b, DOMAIN b))
<1>1. IsSum(Biases(net)) /\ \A f : One(f \in {}) = 0
  BY BiasesFacts DEF One
<1>. DEFINE P == PiecesAt(net, c, ksq, b, DOMAIN b)
<1>. HIDE DEF P
<1>2. /\ IsSum(Apply(Biases(net), P, {}))
      /\ \A f : Times(Apply(Biases(net), P, {}), f) = Times(Biases(net), f) + One(f \in P) - One(f \in {})
  BY <1>1, ApplyFacts
<1>3. \A f : Times(Biases(net), f) \in Int /\ One(f \in P) \in {0, 1}
  BY <1>1, TimesInt, OneInt
<1>4. \A f : Times(Apply(Biases(net), P, {}), f) = Times(Biases(net), f) + One(f \in P)
  BY <1>1, <1>2, <1>3
<1>5. SumOfPieces(net, c, ksq, b) = Apply(Biases(net), P, {})
  BY DEF SumOfPieces, P
<1>. QED
  BY <1>2, <1>4, <1>5 DEF P

(* ... and of a board with its threats. *)
LEMMA ScratchSum ==
  ASSUME NEW net, NEW c, NEW b
  PROVE  /\ IsSum(FromScratch(net, c, b))
         /\ \A f : Times(FromScratch(net, c, b), f)
                     = Times(Biases(net), f)
                       + One(f \in PiecesAt(net, c, KingSquare(b, c), b, DOMAIN b))
                       + One(f \in ThreatsAt(net, c, KingSquare(b, c), Threats(b)))
<1>. DEFINE ksq == KingSquare(b, c)
            S == SumOfPieces(net, c, ksq, b)
            P == PiecesAt(net, c, ksq, b, DOMAIN b)
            T == ThreatsAt(net, c, ksq, Threats(b))
<1>1. IsSum(S) /\ \A f : Times(S, f) = Times(Biases(net), f) + One(f \in P)
  BY PiecesSum
<1>2. FromScratch(net, c, b) = Apply(S, T, {})
  BY DEF FromScratch
<1>3. IsSum(Biases(net)) /\ \A f : One(f \in {}) = 0
  BY BiasesFacts DEF One
<1>. HIDE DEF S, P, T
<1>4. \A f : Times(Biases(net), f) \in Int /\ One(f \in P) \in {0, 1}
      /\ One(f \in T) \in {0, 1}
  BY <1>3, TimesInt, OneInt
<1>5. /\ IsSum(Apply(S, T, {}))
      /\ \A f : Times(Apply(S, T, {}), f) = Times(S, f) + One(f \in T) - One(f \in {})
  BY <1>1, ApplyFacts
<1>6. \A f : Times(Apply(S, T, {}), f) = Times(Biases(net), f) + One(f \in P) + One(f \in T)
  BY <1>1, <1>3, <1>4, <1>5
<1>. QED
  BY <1>2, <1>5, <1>6 DEF P, T

-------------------------------------------------------------------------------
IsBoard(b) == b = [s \in DOMAIN b |-> b[s]] /\ DOMAIN b \subseteq Squares

(* Two squares never look the same. *)
LEMMA TurnedApart ==
  ASSUME NEW c, NEW k, NEW s \in Squares, NEW t \in Squares, Turned(c, k, s) = Turned(c, k, t)
  PROVE  s = t
<1>1. ASSUME NEW x \in Squares
      PROVE  x \in Int /\ x % 8 \in 0 .. 7 /\ x \div 8 \in 0 .. 7
             /\ x = (8 * (x \div 8)) + (x % 8)
  BY <1>1 DEF Squares
<1>. DEFINE F(x) == IF k % 8 < 4 THEN 7 - (x % 8) ELSE x % 8
            R(x) == IF c = Black THEN 7 - (x \div 8) ELSE x \div 8
<1>2. \A x \in Squares : Turned(c, k, x) = (8 * R(x)) + F(x)
  BY DEF Turned
<1>3. \A x \in Squares : R(x) \in 0 .. 7 /\ F(x) \in 0 .. 7
  <2>. TAKE x \in Squares
  <2>. DEFINE f == x % 8
              r == x \div 8
  <2>1. f \in 0 .. 7 /\ r \in 0 .. 7
    BY <1>1
  <2>2. F(x) = (IF k % 8 < 4 THEN 7 - f ELSE f)
        /\ R(x) = IF c = Black THEN 7 - r ELSE r
    OBVIOUS
  <2>. HIDE DEF F, R, f, r
  <2>. QED
    BY <2>1, <2>2
<1>4. (8 * R(s)) + F(s) = (8 * R(t)) + F(t)
  BY <1>2
<1>5. R(s) = R(t) /\ F(s) = F(t)
  <2>. HIDE DEF F, R
  <2>. QED
    BY <1>3, <1>4
<1>6. s \div 8 = t \div 8 /\ s % 8 = t % 8
  BY <1>1, <1>5
<1>. QED
  BY <1>1, <1>6

(* Pieces on two squares are two features. *)
LEMMA PieceApart ==
  ASSUME NEW net, NEW c, NEW k, NEW s \in Squares, NEW t \in Squares, NEW p, NEW q,
         PieceFeature(net, c, k, s, p) = PieceFeature(net, c, k, t, q)
  PROVE  s = t
<1>1. Turned(c, k, s) = Turned(c, k, t)
  <2>1. PieceFeature(net, c, k, s, p).at = PieceFeature(net, c, k, t, q).at
    OBVIOUS
  <2>. QED
    BY <2>1 DEF PieceFeature
<1>. QED
  BY <1>1, TurnedApart

(* Threats between different squares are different features. *)
LEMMA ThreatApart ==
  ASSUME NEW net, NEW c, NEW k, NEW t, NEW u,
         {t.from, t.to, u.from, u.to} \subseteq Squares,
         ThreatFeature(net, c, k, t) = ThreatFeature(net, c, k, u)
  PROVE  t.from = u.from /\ t.to = u.to
<1>1. Turned(c, k, t.from) = Turned(c, k, u.from)
      /\ Turned(c, k, t.to) = Turned(c, k, u.to)
  <2>1. /\ ThreatFeature(net, c, k, t).at = ThreatFeature(net, c, k, u).at
        /\ ThreatFeature(net, c, k, t).on = ThreatFeature(net, c, k, u).on
    OBVIOUS
  <2>. QED
    BY <2>1 DEF ThreatFeature
<1>. QED
  BY <1>1, TurnedApart

(* A piece is not a threat. *)
LEMMA KindsApart ==
  ASSUME NEW net, NEW c, NEW k, NEW s, NEW p, NEW t
  PROVE  PieceFeature(net, c, k, s, p) # ThreatFeature(net, c, k, t)
<1>1. "on" \notin DOMAIN PieceFeature(net, c, k, s, p)
  BY DEF PieceFeature
<1>2. "on" \in DOMAIN ThreatFeature(net, c, k, t)
  BY DEF ThreatFeature
<1>. QED
  BY <1>1, <1>2

(* Pieces leave some squares and others are put on free ones.              *)
LEMMA PiecesExchanged ==
  ASSUME NEW net, NEW c, NEW k, NEW a, IsBoard(a), NEW b, IsBoard(b),
         NEW gone, gone \subseteq DOMAIN a, NEW put, put \cap (DOMAIN a \ gone) = {},
         DOMAIN b = (DOMAIN a \ gone)
         \cup put, \A s \in DOMAIN a \ gone : b[s] = a[s]
  PROVE  \A f : One(f \in PiecesAt(net, c, k, b, DOMAIN b))
                  = One(f \in PiecesAt(net, c, k, a, DOMAIN a))
                    + One(f \in PiecesAt(net, c, k, b, put)) - One(f \in PiecesAt(net, c, k, a, gone))
<1>. DEFINE F(s, p) == PieceFeature(net, c, k, s, p)
            P == {F(s, a[s]) : s \in DOMAIN a}
            Q == {F(s, b[s]) : s \in DOMAIN b}
            R == {F(s, a[s]) : s \in gone}
            A == {F(s, b[s]) : s \in put}
<1>1. \A s, t \in Squares : \A p, q : F(s, p) = F(t, q) => s = t
  BY PieceApart
<1>2. DOMAIN a \subseteq Squares /\ DOMAIN b \subseteq Squares
      /\ put \subseteq Squares
  BY DEF IsBoard
<1>3. /\ PiecesAt(net, c, k, b, DOMAIN b) = Q
         /\ PiecesAt(net, c, k, a, DOMAIN a) = P
      /\ PiecesAt(net, c, k, b, put) = A /\ PiecesAt(net, c, k, a, gone) = R
  BY DEF PiecesAt
<1>. HIDE DEF F
<1>4. R \subseteq P
  OBVIOUS
<1>5. A \cap (P \ R) = {}
  <2>. SUFFICES ASSUME NEW s \in put, NEW t \in DOMAIN a, F(s, b[s]) = F(t, a[t]), t \notin gone
                PROVE  FALSE
    OBVIOUS
  <2>. QED
    BY <1>1, <1>2
<1>6. Q = (P \ R) \cup A
  <2>1. \A s \in DOMAIN a \ gone : F(s, b[s]) = F(s, a[s]) /\ F(s, a[s]) \notin R
    BY <1>1, <1>2
  <2>2. Q \subseteq (P \ R) \cup A
    BY <2>1
  <2>3. (P \ R) \cup A \subseteq Q
    BY <2>1
  <2>. QED
    BY <2>2, <2>3
<1>7. \A f : One(f \in Q) = One(f \in P) + One(f \in A) - One(f \in R)
  <2>. HIDE DEF P, Q, A, R
  <2>. QED
    BY <1>4, <1>5, <1>6, Exchange
<1>. QED
  BY <1>3, <1>7

(* A threat is from a piece of the board to a piece of it. *)
LEMMA ThreatOf ==
  ASSUME NEW b, NEW t \in Threats(b)
  PROVE  /\ t.from \in DOMAIN b /\ t.to \in DOMAIN b
         /\ t = [from |-> t.from, pc |-> b[t.from], to |-> t.to, attacked |-> b[t.to]]
<1>1. PICK x \in (DOMAIN b) \X (DOMAIN b) :
        t = [from |-> x[1], pc |-> b[x[1]], to |-> x[2], attacked |-> b[x[2]]]
  BY DEF Threats
<1>. QED
  BY <1>1

(* What do_move records of the threats takes the old ones to the new.      *)
LEMMA ThreatsExchanged ==
  ASSUME NEW net, NEW c, NEW k, NEW a, IsBoard(a), NEW b, IsBoard(b)
  PROVE  \A f : One(f \in ThreatsAt(net, c, k, Threats(b)))
                  = One(f \in ThreatsAt(net, c, k, Threats(a)))
                    + One(f \in ThreatsAt(net, c, k, Threats(b) \ Threats(a)))
                    - One(f \in ThreatsAt(net, c, k, Threats(a) \ Threats(b)))
<1>. DEFINE F(t) == ThreatFeature(net, c, k, t)
            S == Threats(a)
            T == Threats(b)
            P == {F(t) : t \in S}
            Q == {F(t) : t \in T}
            R == {F(t) : t \in S \ T}
            A == {F(t) : t \in T \ S}
<1>1. \A s, t \in S : F(s) = F(t) => s = t
  <2>. SUFFICES ASSUME NEW s \in S, NEW t \in S, F(s) = F(t) PROVE s = t
    OBVIOUS
  <2>1. /\ s.from \in DOMAIN a /\ s.to \in DOMAIN a /\ t.from \in DOMAIN a
           /\ t.to \in DOMAIN a
        /\ s = [from |-> s.from, pc |-> a[s.from], to |-> s.to, attacked |-> a[s.to]]
        /\ t = [from |-> t.from, pc |-> a[t.from], to |-> t.to, attacked |-> a[t.to]]
    BY ThreatOf
  <2>2. s.from = t.from /\ s.to = t.to
    BY <2>1, ThreatApart DEF IsBoard
  <2>. QED
    BY <2>1, <2>2
<1>2. \A s, t \in T : F(s) = F(t) => s = t
  <2>. SUFFICES ASSUME NEW s \in T, NEW t \in T, F(s) = F(t) PROVE s = t
    OBVIOUS
  <2>1. /\ s.from \in DOMAIN b /\ s.to \in DOMAIN b /\ t.from \in DOMAIN b
           /\ t.to \in DOMAIN b
        /\ s = [from |-> s.from, pc |-> b[s.from], to |-> s.to, attacked |-> b[s.to]]
        /\ t = [from |-> t.from, pc |-> b[t.from], to |-> t.to, attacked |-> b[t.to]]
    BY ThreatOf
  <2>2. s.from = t.from /\ s.to = t.to
    BY <2>1, ThreatApart DEF IsBoard
  <2>. QED
    BY <2>1, <2>2
<1>3. /\ ThreatsAt(net, c, k, T) = Q /\ ThreatsAt(net, c, k, S) = P
      /\ ThreatsAt(net, c, k, T \ S) = A /\ ThreatsAt(net, c, k, S \ T) = R
  BY DEF ThreatsAt
<1>. HIDE DEF F, S, T
<1>4. R \subseteq P
  OBVIOUS
<1>5. A \cap (P \ R) = {}
  <2>. SUFFICES ASSUME NEW s \in T \ S, NEW t \in S, F(s) = F(t), t \in T
                PROVE  FALSE
    OBVIOUS
  <2>. QED
    BY <1>2
<1>6. Q = (P \ R) \cup A
  <2>1. \A t \in S \cap T : F(t) \notin R
    BY <1>1
  <2>2. Q \subseteq (P \ R) \cup A
    BY <2>1
  <2>3. (P \ R) \cup A \subseteq Q
    OBVIOUS
  <2>. QED
    BY <2>2, <2>3
<1>7. \A f : One(f \in Q) = One(f \in P) + One(f \in A) - One(f \in R)
  <2>. HIDE DEF P, Q, A, R
  <2>. QED
    BY <1>4, <1>5, <1>6, Exchange
<1>. QED
  BY <1>3, <1>7 DEF S, T

-------------------------------------------------------------------------------
(* A sound board has one king of a side, and KingSquare finds it. *)
LEMMA KingFacts ==
  ASSUME NEW b, BoardSound(b), NEW c \in Colors
  PROVE  /\ KingSquare(b, c) \in DOMAIN b /\ b[KingSquare(b, c)] = King(c)
         /\ KingSquare(b, c) \in Squares
         /\ \A t \in DOMAIN b : b[t] = King(c) => t = KingSquare(b, c)
<1>1. PICK s \in DOMAIN b : \A t \in DOMAIN b : b[t] = King(c) <=> t = s
  BY DEF BoardSound
<1>2. KingSquare(b, c) \in DOMAIN b /\ b[KingSquare(b, c)] = King(c)
  BY <1>1 DEF KingSquare
<1>. QED
  BY <1>1, <1>2 DEF BoardSound

(* Where a king stands is the king's square. *)
LEMMA IsKingSquare ==
  ASSUME NEW b, BoardSound(b), NEW c \in Colors, NEW s \in DOMAIN b, b[s] = King(c)
  PROVE  KingSquare(b, c) = s
BY KingFacts

Gone(d) == {d.from, d.removeSq} \ {NoSquare}
Put(d) == {d.to, d.addSq} \ {NoSquare}

(* What Applied makes of the squares of a board. *)
LEMMA AppliedSquares ==
  ASSUME NEW b, BoardSound(b), NEW d, MoveSound(d), Fits(b, d)
  PROVE  /\ IsBoard(b) /\ IsBoard(Applied(b, d))
         /\ Gone(d) \subseteq DOMAIN b /\ Put(d) \cap (DOMAIN b \ Gone(d)) = {}
         /\ DOMAIN Applied(b, d) = (DOMAIN b \ Gone(d)) \cup Put(d)
         /\ \A s \in DOMAIN b \ Gone(d) : Applied(b, d)[s] = b[s]
         /\ d.to # NoSquare => Applied(b, d)[d.to] = d.pc
         /\ d.addSq # NoSquare => Applied(b, d)[d.addSq] = d.addPc
         /\ b[d.from] = d.pc
            /\ (d.removeSq # NoSquare => b[d.removeSq] = d.removePc)
<1>0. IsBoard(b) /\ DOMAIN b \subseteq Squares /\ NoSquare \notin Squares
  BY DEF BoardSound, IsBoard, Squares, NoSquare
<1>1. /\ d.from \in DOMAIN b /\ b[d.from] = d.pc
      /\ d.removeSq # NoSquare => d.removeSq \in DOMAIN b
         /\ b[d.removeSq] = d.removePc
      /\ Put(d) \cap (DOMAIN b \ {d.from, d.removeSq}) = {}
  BY DEF Fits, Put
<1>2. /\ Put(d) \subseteq Squares /\ (d.to = d.addSq => d.to = NoSquare)
  BY DEF MoveSound, Put
<1>3. DOMAIN b \ {d.from, d.removeSq} = DOMAIN b \ Gone(d)
      /\ Gone(d) \subseteq DOMAIN b
  BY <1>0, <1>1 DEF Gone
<1>. DEFINE b2 == Applied(b, d)
            dom == (DOMAIN b \ Gone(d)) \cup Put(d)
<1>4. b2 = [s \in dom |-> IF s = d.to THEN d.pc ELSE IF s = d.addSq THEN d.addPc ELSE b[s]]
  BY <1>3 DEF Applied, Put
<1>. HIDE DEF b2
<1>5. DOMAIN b2 = dom /\ b2 = [s \in DOMAIN b2 |-> b2[s]]
      /\ \A s \in dom : b2[s] = IF s = d.to THEN d.pc ELSE IF s = d.addSq THEN d.addPc ELSE b[s]
  BY <1>4
<1>6. dom \subseteq Squares
  BY <1>0, <1>2
<1>7. \A s \in DOMAIN b \ Gone(d) : s # d.to /\ s # d.addSq
  BY <1>0, <1>1, <1>3 DEF Put
<1>8. (d.to # NoSquare => d.to \in dom) /\ (d.addSq # NoSquare => d.addSq \in dom)
  BY DEF Put
<1>9. IsBoard(b2)
  BY <1>5, <1>6 DEF IsBoard
<1>10. \A s \in DOMAIN b \ Gone(d) : b2[s] = b[s]
  BY <1>5, <1>7
<1>11. /\ d.to # NoSquare => b2[d.to] = d.pc
       /\ d.addSq # NoSquare => b2[d.addSq] = d.addPc
  BY <1>2, <1>5, <1>8
<1>. QED
  BY <1>0, <1>1, <1>3, <1>5, <1>9, <1>10, <1>11 DEF b2

(* A move leaves one king a side, and moves a king only if it is a king's. *)
LEMMA AppliedKings ==
  ASSUME NEW b, BoardSound(b), NEW d, MoveSound(d), Fits(b, d)
  PROVE  /\ BoardSound(Applied(b, d))
         /\ \A c \in Colors :
              IF RequiresRefresh(d, c)
              THEN KingSquare(b, c) = d.from
              /\ KingSquare(Applied(b, d), c) = d.to
              ELSE KingSquare(Applied(b, d), c) = KingSquare(b, c)
<1>. DEFINE b2 == Applied(b, d)
            left == DOMAIN b \ Gone(d)
<1>1. /\ IsBoard(b) /\ IsBoard(b2)
      /\ Gone(d) \subseteq DOMAIN b /\ Put(d) \cap left = {}
      /\ DOMAIN b2 = left \cup Put(d)
      /\ \A s \in left : b2[s] = b[s]
      /\ d.to # NoSquare => b2[d.to] = d.pc
      /\ d.addSq # NoSquare => b2[d.addSq] = d.addPc
      /\ b[d.from] = d.pc /\ (d.removeSq # NoSquare => b[d.removeSq] = d.removePc)
  BY AppliedSquares
<1>2. /\ d.from # NoSquare /\ d.from \in DOMAIN b
      /\ d.to # NoSquare => d.to \in DOMAIN b2
      /\ d.addSq # NoSquare => d.addSq \in DOMAIN b2
      /\ \A t \in DOMAIN b2 : t \in left \/ (t = d.to /\ t # NoSquare)
         \/ (t = d.addSq /\ t # NoSquare)
      /\ \A t \in DOMAIN b : t \in left \/ t = d.from
         \/ (t = d.removeSq /\ t # NoSquare)
  BY <1>1 DEF MoveSound, Gone, Put, Squares, NoSquare
<1>. HIDE DEF b2
<1>3. ASSUME NEW c \in Colors
      PROVE  /\ \E s \in DOMAIN b2 : \A t \in DOMAIN b2 : b2[t] = King(c)
                <=> t = s
             /\ IF d.pc = King(c) THEN KingSquare(b, c) = d.from
                /\ b2[d.to] = King(c) /\ d.to \in DOMAIN b2
                ELSE b2[KingSquare(b, c)] = King(c)
                /\ KingSquare(b, c) \in DOMAIN b2
  <2>. DEFINE k == KingSquare(b, c)
  <2>1. /\ k \in DOMAIN b /\ b[k] = King(c)
        /\ \A t \in DOMAIN b : b[t] = King(c) => t = k
    BY KingFacts
  <2>2. /\ d.removeSq # NoSquare => d.removePc # King(c)
        /\ d.addSq # NoSquare => d.addPc # King(c)
        /\ d.pc = King(c) => d.to # NoSquare
    BY DEF MoveSound
  <2>. HIDE DEF k
  <2>3. CASE d.pc = King(c)
    <3>1. k = d.from
      BY <1>1, <1>2, <2>1, <2>3
    <3>2. b2[d.to] = King(c) /\ d.to \in DOMAIN b2
      BY <1>1, <1>2, <2>2, <2>3
    <3>3. \A t \in left : b2[t] # King(c)
      BY <1>1, <1>2, <2>1, <3>1 DEF Gone
    <3>4. \A t \in DOMAIN b2 : b2[t] = King(c) <=> t = d.to
      BY <1>1, <1>2, <2>2, <3>2, <3>3
    <3>. QED
      BY <2>3, <3>1, <3>2, <3>4 DEF k
  <2>4. CASE d.pc # King(c)
    <3>1. k \in left
      BY <1>1, <1>2, <2>1, <2>2, <2>4
    <3>2. b2[k] = King(c) /\ k \in DOMAIN b2
      BY <1>1, <2>1, <3>1
    <3>3. \A t \in DOMAIN b2 : b2[t] = King(c) <=> t = k
      BY <1>1, <1>2, <2>1, <2>2, <2>4, <3>2
    <3>. QED
      BY <2>4, <3>2, <3>3 DEF k
  <2>. QED
    BY <2>3, <2>4
<1>4. BoardSound(b2)
  BY <1>1, <1>3 DEF BoardSound, IsBoard
<1>5. ASSUME NEW c \in Colors
      PROVE  IF RequiresRefresh(d, c)
              THEN KingSquare(b, c) = d.from /\ KingSquare(b2, c) = d.to
              ELSE KingSquare(b2, c) = KingSquare(b, c)
  <2>1. IF d.pc = King(c) THEN KingSquare(b, c) = d.from /\ b2[d.to] = King(c)
        /\ d.to \in DOMAIN b2
                ELSE b2[KingSquare(b, c)] = King(c)
                /\ KingSquare(b, c) \in DOMAIN b2
    BY <1>3
  <2>2. \A t \in DOMAIN b2 : b2[t] = King(c) => t = KingSquare(b2, c)
    BY <1>4, KingFacts
  <2>. QED
    BY <2>1, <2>2 DEF RequiresRefresh
<1>. QED
  BY <1>4, <1>5 DEF b2

(* What a move records takes the sum of the board before it to that of     *)
(* the board after it, and back.                                           *)
Plus(net, c, k, e) == Added(net, c, k, e.dirty) \cup ThreatsAt(net, c, k, e.new)
Minus(net, c, k, e) == Removed(net, c, k, e.dirty)
\cup ThreatsAt(net, c, k, e.gone)
Between(a, b, e) ==
  /\ BoardSound(a) /\ MoveSound(e.dirty) /\ Fits(a, e.dirty)
     /\ b = Applied(a, e.dirty)
  /\ e.new = Threats(b) \ Threats(a) /\ e.gone = Threats(a) \ Threats(b)

(* append_changed_indices lists the pieces that a move puts and those it   *)
(* takes away.                                                             *)
LEMMA DirtyPieces ==
  ASSUME NEW net, NEW c, NEW k, NEW b, BoardSound(b), NEW d, MoveSound(d), Fits(b, d)
  PROVE  /\ Added(net, c, k, d) = PiecesAt(net, c, k, Applied(b, d), Put(d))
         /\ Removed(net, c, k, d) = PiecesAt(net, c, k, b, Gone(d))
<1>. DEFINE b2 == Applied(b, d)
            F(s, p) == PieceFeature(net, c, k, s, p)
<1>1. /\ d.to # NoSquare => b2[d.to] = d.pc
      /\ d.addSq # NoSquare => b2[d.addSq] = d.addPc
      /\ b[d.from] = d.pc /\ (d.removeSq # NoSquare => b[d.removeSq] = d.removePc)
  BY AppliedSquares
<1>2. d.from # NoSquare
  BY DEF MoveSound, Squares, NoSquare
<1>3. /\ Added(net, c, k, d) = (IF d.to # NoSquare THEN {F(d.to, d.pc)} ELSE {})
                                \cup IF d.addSq # NoSquare THEN {F(d.addSq, d.addPc)} ELSE {}
      /\ Removed(net, c, k, d) = {F(d.from, d.pc)}
                                \cup IF d.removeSq # NoSquare THEN {F(d.removeSq, d.removePc)} ELSE {}
      /\ PiecesAt(net, c, k, b2, Put(d)) = {F(s, b2[s]) : s \in Put(d)}
      /\ PiecesAt(net, c, k, b, Gone(d)) = {F(s, b[s]) : s \in Gone(d)}
  BY DEF Added, Removed, PiecesAt
<1>. HIDE DEF F, b2
<1>4. {F(s, b2[s]) : s \in Put(d)} = (IF d.to # NoSquare THEN {F(d.to, d.pc)} ELSE {})
                                \cup IF d.addSq # NoSquare THEN {F(d.addSq, d.addPc)} ELSE {}
  <2>1. CASE d.to = NoSquare
    BY <1>1, <2>1 DEF Put
  <2>2. CASE d.to # NoSquare
    BY <1>1, <2>2 DEF Put
  <2>. QED
    BY <2>1, <2>2
<1>5. {F(s, b[s]) : s \in Gone(d)} = {F(d.from, d.pc)}
                                \cup IF d.removeSq # NoSquare THEN {F(d.removeSq, d.removePc)} ELSE {}
  BY <1>1, <1>2 DEF Gone
<1>. QED
  BY <1>3, <1>4, <1>5 DEF b2

(* update_accumulator_incremental is exact in either direction: what the   *)
(* move changed, applied to the sum of the board before it, makes the sum of *)
(* the board after it, and the other way round.                            *)
LEMMA ScratchStep ==
  ASSUME NEW net, NEW c \in Colors, NEW a, NEW b, NEW e, Between(a, b, e), ~RequiresRefresh(e.dirty, c)
  PROVE  /\ FromScratch(net, c, b)
              = Apply(FromScratch(net, c, a), Plus(net, c, KingSquare(b, c), e), Minus(net, c, KingSquare(b, c), e))
         /\ FromScratch(net, c, a)
              = Apply(FromScratch(net, c, b), Minus(net, c, KingSquare(b, c), e), Plus(net, c, KingSquare(b, c), e))
<1>. DEFINE d == e.dirty
            k == KingSquare(b, c)
            A == FromScratch(net, c, a)
            B == FromScratch(net, c, b)
            pa == PiecesAt(net, c, k, a, DOMAIN a)
            pb == PiecesAt(net, c, k, b, DOMAIN b)
            ta == ThreatsAt(net, c, k, Threats(a))
            tb == ThreatsAt(net, c, k, Threats(b))
            put == PiecesAt(net, c, k, b, Put(d))
            gone == PiecesAt(net, c, k, a, Gone(d))
            tput == ThreatsAt(net, c, k, e.new)
            tgone == ThreatsAt(net, c, k, e.gone)
            P == Plus(net, c, k, e)
            M == Minus(net, c, k, e)
<1>1. /\ BoardSound(a) /\ MoveSound(d) /\ Fits(a, d) /\ b = Applied(a, d)
      /\ e.new = Threats(b) \ Threats(a) /\ e.gone = Threats(a) \ Threats(b)
  BY DEF Between
<1>2. KingSquare(a, c) = k
  BY <1>1, AppliedKings
<1>3. /\ IsBoard(a) /\ IsBoard(b) /\ Gone(d) \subseteq DOMAIN a
         /\ Put(d) \cap (DOMAIN a \ Gone(d)) = {}
      /\ DOMAIN b = (DOMAIN a \ Gone(d)) \cup Put(d)
      /\ \A s \in DOMAIN a \ Gone(d) : b[s] = a[s]
  <2>. HIDE DEF d
  <2>. QED
    BY <1>1, AppliedSquares
<1>4. \A f : One(f \in pb) = One(f \in pa) + One(f \in put) - One(f \in gone)
  <2>. HIDE DEF d, k
  <2>. QED
    BY <1>3, PiecesExchanged
<1>5. \A f : One(f \in tb) = One(f \in ta) + One(f \in tput) - One(f \in tgone)
  <2>. HIDE DEF k
  <2>. QED
    BY <1>1, <1>3, ThreatsExchanged
<1>6. /\ \A f : Times(A, f) = Times(Biases(net), f) + One(f \in pa) + One(f \in ta)
      /\ \A f : Times(B, f) = Times(Biases(net), f) + One(f \in pb) + One(f \in tb)
      /\ IsSum(A) /\ IsSum(B)
  BY <1>2, ScratchSum
<1>7. P = put \cup tput /\ M = gone \cup tgone
  <2>. HIDE DEF d
  <2>1. Added(net, c, k, d) = put /\ Removed(net, c, k, d) = gone
    BY <1>1, DirtyPieces
  <2>. QED
    BY <2>1 DEF Plus, Minus, d
<1>8. put \cap tput = {} /\ gone \cap tgone = {}
  <2>. HIDE DEF d, k
  <2>. QED
    BY KindsApart DEF PiecesAt, ThreatsAt
<1>. HIDE DEF put, tput, gone, tgone, P, M
<1>9. /\ \A f : One(f \in P) = One(f \in put) + One(f \in tput)
      /\ \A f : One(f \in M) = One(f \in gone) + One(f \in tgone)
  BY <1>7, <1>8, Union
<1>. HIDE DEF A, B, pa, pb, ta, tb
<1>10. \A f : /\ Times(A, f) \in Int /\ Times(B, f) \in Int
       /\ Times(Biases(net), f) \in Int
              /\ One(f \in pa) \in {0, 1} /\ One(f \in ta) \in {0, 1}
                 /\ One(f \in pb) \in {0, 1}
              /\ One(f \in tb) \in {0, 1} /\ One(f \in put) \in {0, 1}
                 /\ One(f \in tput) \in {0, 1}
              /\ One(f \in gone) \in {0, 1} /\ One(f \in tgone) \in {0, 1}
  BY <1>6, TimesInt, OneInt, BiasesFacts
<1>11. \A f : Times(B, f) = Times(A, f) + One(f \in P) - One(f \in M)
  BY <1>4, <1>5, <1>6, <1>9, <1>10
<1>12. \A f : Times(A, f) = Times(B, f) + One(f \in M) - One(f \in P)
  <2>1. \A f : One(f \in P) \in {0, 1} /\ One(f \in M) \in {0, 1}
    BY OneInt
  <2>. QED
    BY <1>10, <1>11, <2>1
<1>13. /\ IsSum(Apply(A, P, M))
          /\ \A f : Times(Apply(A, P, M), f) = Times(A, f) + One(f \in P) - One(f \in M)
  BY <1>6, ApplyFacts
<1>14. /\ IsSum(Apply(B, M, P))
          /\ \A f : Times(Apply(B, M, P), f) = Times(B, f) + One(f \in M) - One(f \in P)
  BY <1>6, ApplyFacts
<1>15. B = Apply(A, P, M)
  BY <1>6, <1>11, <1>13, SameSum
<1>16. A = Apply(B, M, P)
  BY <1>6, <1>12, <1>14, SameSum
<1>. QED
  BY <1>15, <1>16 DEF A, B, P, M

-------------------------------------------------------------------------------
(* get_changed_pieces is what two boards differ in. *)
LEMMA ChangedExchange ==
  ASSUME NEW net, NEW c, NEW k, NEW a, IsBoard(a), NEW b, IsBoard(b)
  PROVE  LET changed == ChangedPieces(a, b) IN
         \A f : One(f \in PiecesAt(net, c, k, b, DOMAIN b))
                  = One(f \in PiecesAt(net, c, k, a, DOMAIN a))
                    + One(f \in PiecesAt(net, c, k, b, changed \cap DOMAIN b))
                    - One(f \in PiecesAt(net, c, k, a, changed \cap DOMAIN a))
<1>. DEFINE changed == ChangedPieces(a, b)
            gone == changed \cap DOMAIN a
            put == changed \cap DOMAIN b
<1>1. \A s \in DOMAIN a \cup DOMAIN b : s \notin changed
      <=> s \in DOMAIN a \cap DOMAIN b /\ a[s] = b[s]
  BY DEF ChangedPieces
<1>. HIDE DEF changed
<1>2. /\ gone \subseteq DOMAIN a /\ put \cap (DOMAIN a \ gone) = {}
      /\ DOMAIN b = (DOMAIN a \ gone) \cup put
         /\ \A s \in DOMAIN a \ gone : b[s] = a[s]
  BY <1>1
<1>. HIDE DEF gone, put
<1>3. \A f : One(f \in PiecesAt(net, c, k, b, DOMAIN b))
                  = One(f \in PiecesAt(net, c, k, a, DOMAIN a))
                    + One(f \in PiecesAt(net, c, k, b, put)) - One(f \in PiecesAt(net, c, k, a, gone))
  BY <1>2, PiecesExchanged
<1>. QED
  BY <1>3 DEF changed, gone, put

(* A cache entry is brought to another board. *)
LEMMA BroughtSum ==
  ASSUME NEW net, NEW c, NEW k, NEW e, IsBoard(e.pieces), e.acc = SumOfPieces(net, c, k, e.pieces),
         NEW b, IsBoard(b)
  PROVE  Brought(net, c, k, e, b) = [pieces |-> b, acc |-> SumOfPieces(net, c, k, b)]
<1>. DEFINE a == e.pieces
            changed == ChangedPieces(a, b)
            put == PiecesAt(net, c, k, b, changed \cap DOMAIN b)
            gone == PiecesAt(net, c, k, a, changed \cap DOMAIN a)
            pa == PiecesAt(net, c, k, a, DOMAIN a)
            pb == PiecesAt(net, c, k, b, DOMAIN b)
            A == SumOfPieces(net, c, k, a)
            B == SumOfPieces(net, c, k, b)
<1>1. \A f : One(f \in pb) = One(f \in pa) + One(f \in put) - One(f \in gone)
  BY ChangedExchange
<1>2. /\ IsSum(A) /\ \A f : Times(A, f) = Times(Biases(net), f) + One(f \in pa)
      /\ IsSum(B) /\ \A f : Times(B, f) = Times(Biases(net), f) + One(f \in pb)
  BY PiecesSum
<1>3. Brought(net, c, k, e, b) = [pieces |-> b, acc |-> Apply(A, put, gone)]
  BY DEF Brought
<1>. HIDE DEF a, changed, put, gone, pa, pb, A, B
<1>4. IsSum(Apply(A, put, gone))
      /\ \A f : Times(Apply(A, put, gone), f) = Times(A, f) + One(f \in put) - One(f \in gone)
  BY <1>2, ApplyFacts
<1>5. \A f : /\ Times(Biases(net), f) \in Int /\ One(f \in pa) \in {0, 1}
      /\ One(f \in pb) \in {0, 1}
             /\ One(f \in put) \in {0, 1} /\ One(f \in gone) \in {0, 1}
  BY TimesInt, OneInt, BiasesFacts
<1>6. \A f : Times(Apply(A, put, gone), f) = Times(B, f)
  BY <1>1, <1>2, <1>4, <1>5
<1>7. Apply(A, put, gone) = B
  BY <1>2, <1>4, <1>6, SameSum
<1>. QED
  BY <1>3, <1>7 DEF B

(* No pieces leave the biases. *)
LEMMA EmptySum ==
  ASSUME NEW net, NEW c, NEW k
  PROVE  Biases(net) = SumOfPieces(net, c, k, NoBoard) /\ IsBoard(NoBoard)
<1>1. IsBoard(NoBoard) /\ DOMAIN NoBoard = {}
  BY DEF NoBoard, IsBoard
<1>2. PiecesAt(net, c, k, NoBoard, DOMAIN NoBoard) = {}
  BY <1>1 DEF PiecesAt
<1>. DEFINE S == SumOfPieces(net, c, k, NoBoard)
<1>3. IsSum(S) /\ \A f : Times(S, f) = Times(Biases(net), f) + One(f \in {})
  BY <1>2, PiecesSum
<1>4. IsSum(Biases(net)) /\ \A f : One(f \in {}) = 0
  BY BiasesFacts DEF One
<1>. HIDE DEF S
<1>5. \A f : Times(Biases(net), f) = Times(S, f)
  BY <1>3, <1>4, TimesInt
<1>6. Biases(net) = S
  BY <1>3, <1>4, <1>5, SameSum
<1>. QED
  BY <1>1, <1>6 DEF S

(* Threats look the same from two squares on the same half of the board.   *)
LEMMA SameHalf ==
  ASSUME NEW net, NEW c, NEW k, NEW l, (k % 8 < 4) = (l % 8 < 4), NEW S
  PROVE  ThreatsAt(net, c, k, S) = ThreatsAt(net, c, l, S)
<1>1. \A s : Turned(c, k, s) = Turned(c, l, s)
  BY DEF Turned
<1>2. \A t : ThreatFeature(net, c, k, t) = ThreatFeature(net, c, l, t)
  BY <1>1 DEF ThreatFeature
<1>. QED
  BY <1>2 DEF ThreatsAt

(* What update_accumulator_hybrid makes of the board after a king's move   *)
(* is the board before it.                                                 *)
Before(b, d) ==
  [s \in (DOMAIN b \ (IF d.removeSq # NoSquare THEN {} ELSE {d.to}))
  \cup {d.from} |->
      IF s = d.from THEN d.pc ELSE IF s = d.to THEN d.removePc ELSE b[s]]

(* The board that update_accumulator_hybrid makes up is the one before the *)
(* king's move.                                                            *)
LEMMA BeforeIs ==
  ASSUME NEW c \in Colors, NEW a, BoardSound(a), NEW d, MoveSound(d), Fits(a, d),
         RequiresRefresh(d, c), d.addSq = NoSquare
  PROVE  Before(Applied(a, d), d) = a
<1>. DEFINE b == Applied(a, d)
            left == DOMAIN a \ Gone(d)
<1>1. /\ IsBoard(a) /\ IsBoard(b)
      /\ Gone(d) \subseteq DOMAIN a /\ Put(d) \cap left = {}
      /\ DOMAIN b = left \cup Put(d)
      /\ \A s \in left : b[s] = a[s]
      /\ a[d.from] = d.pc /\ (d.removeSq # NoSquare => a[d.removeSq] = d.removePc)
  BY AppliedSquares
<1>2. /\ d.from \in Squares /\ d.to # NoSquare /\ d.to # d.from
      /\ d.removeSq \in {NoSquare, d.to} /\ NoSquare \notin Squares
  BY DEF MoveSound, RequiresRefresh, Squares, NoSquare
<1>3. Put(d) = {d.to} /\ Gone(d) = {d.from}
      \cup (IF d.removeSq # NoSquare THEN {d.to} ELSE {})
  BY <1>2 DEF Put, Gone
<1>. DEFINE dom == (DOMAIN b \ (IF d.removeSq # NoSquare THEN {} ELSE {d.to}))
     \cup {d.from}
<1>. HIDE DEF b
<1>4. dom = DOMAIN a
  <2>1. CASE d.removeSq # NoSquare
    BY <1>1, <1>3, <2>1
  <2>2. CASE d.removeSq = NoSquare
    BY <1>1, <1>2, <1>3, <2>2
  <2>. QED
    BY <2>1, <2>2
<1>5. \A s \in dom : (IF s = d.from THEN d.pc ELSE IF s = d.to THEN d.removePc ELSE b[s]) = a[s]
  <2>. TAKE s \in dom
  <2>1. CASE s = d.from
    BY <1>1, <2>1
  <2>2. CASE s # d.from /\ s = d.to
    BY <1>1, <1>2, <1>3, <1>4, <2>2
  <2>3. CASE s # d.from /\ s # d.to
    <3>1. s \in left
      BY <1>3, <1>4, <2>3
    <3>. QED
      BY <1>1, <2>3, <3>1
  <2>. QED
    BY <2>1, <2>2, <2>3
<1>6. Before(b, d) = [s \in dom |-> IF s = d.from THEN d.pc ELSE IF s = d.to THEN d.removePc ELSE b[s]]
  BY DEF Before
<1>. HIDE DEF dom
<1>7. Before(b, d) = [s \in DOMAIN a |-> a[s]]
  BY <1>4, <1>5, <1>6
<1>. QED
  BY <1>1, <1>7 DEF b, IsBoard

(* The hybrid sum. *)
HybridAcc(net, c, a, b, e, o) ==
  LET old == e.dirty.from
      new == e.dirty.to
      changed == ChangedPieces(o, a)
      kept == Combine(SumOfPieces(net, c, new, b), FromScratch(net, c, a), SumOfPieces(net, c, old, o))
  IN  Apply(Apply(kept, PiecesAt(net, c, old, o, changed \cap DOMAIN o),
                        PiecesAt(net, c, old, a, changed \cap DOMAIN a)),
            ThreatsAt(net, c, new, e.new), ThreatsAt(net, c, new, e.gone))

(* update_accumulator_hybrid is exact. *)
LEMMA HybridSum ==
  ASSUME NEW net, NEW c \in Colors, NEW a, NEW b, NEW e, Between(a, b, e), RequiresRefresh(e.dirty, c),
         e.dirty.addSq = NoSquare, (e.dirty.from % 8 < 4) = (e.dirty.to % 8 < 4),
         NEW o, IsBoard(o)
  PROVE  HybridAcc(net, c, a, b, e, o) = FromScratch(net, c, b)
<1>. DEFINE old == e.dirty.from
            new == e.dirty.to
            changed == ChangedPieces(o, a)
            E == SumOfPieces(net, c, new, b)
            A == FromScratch(net, c, a)
            B == FromScratch(net, c, b)
            O == SumOfPieces(net, c, old, o)
            gone == PiecesAt(net, c, old, o, changed \cap DOMAIN o)
            put == PiecesAt(net, c, old, a, changed \cap DOMAIN a)
            po == PiecesAt(net, c, old, o, DOMAIN o)
            pa == PiecesAt(net, c, old, a, DOMAIN a)
            pb == PiecesAt(net, c, new, b, DOMAIN b)
            ta == ThreatsAt(net, c, old, Threats(a))
            tb == ThreatsAt(net, c, new, Threats(b))
            tput == ThreatsAt(net, c, new, e.new)
            tgone == ThreatsAt(net, c, new, e.gone)
            bias(f) == Times(Biases(net), f)
<1>1. /\ BoardSound(a) /\ MoveSound(e.dirty) /\ Fits(a, e.dirty)
         /\ b = Applied(a, e.dirty)
      /\ e.new = Threats(b) \ Threats(a) /\ e.gone = Threats(a) \ Threats(b)
  BY DEF Between
<1>2. KingSquare(a, c) = old /\ KingSquare(b, c) = new
  BY <1>1, AppliedKings
<1>3. IsBoard(a) /\ IsBoard(b)
  BY <1>1, AppliedSquares
<1>4. \A f : One(f \in pa) = One(f \in po) + One(f \in put) - One(f \in gone)
  <2>. HIDE DEF old
  <2>. QED
    BY <1>3, ChangedExchange
<1>5. \A f : One(f \in tb) = One(f \in ta) + One(f \in tput) - One(f \in tgone)
  <2>1. ta = ThreatsAt(net, c, new, Threats(a))
    BY SameHalf
  <2>2. \A f : One(f \in tb) = One(f \in ThreatsAt(net, c, new, Threats(a))) + One(f \in tput) - One(f \in tgone)
    <3>. HIDE DEF new
    <3>. QED
      BY <1>1, <1>3, ThreatsExchanged
  <2>. QED
    BY <2>1, <2>2
<1>6. /\ \A f : Times(A, f) = bias(f) + One(f \in pa) + One(f \in ta)
      /\ \A f : Times(B, f) = bias(f) + One(f \in pb) + One(f \in tb)
      /\ IsSum(A) /\ IsSum(B)
  BY <1>2, ScratchSum
<1>7. /\ \A f : Times(E, f) = bias(f) + One(f \in pb)
      /\ \A f : Times(O, f) = bias(f) + One(f \in po)
      /\ IsSum(E) /\ IsSum(O)
  BY PiecesSum
<1>. HIDE DEF gone, put, po, pa, pb, ta, tb, tput, tgone, A, B, E, O
<1>8. \A f : /\ bias(f) \in Int
             /\ One(f \in pa) \in {0, 1} /\ One(f \in ta) \in {0, 1}
                /\ One(f \in pb) \in {0, 1}
             /\ One(f \in tb) \in {0, 1} /\ One(f \in put) \in {0, 1}
                /\ One(f \in tput) \in {0, 1}
             /\ One(f \in gone) \in {0, 1} /\ One(f \in tgone) \in {0, 1}
                /\ One(f \in po) \in {0, 1}
  BY TimesInt, OneInt, BiasesFacts
<1>. HIDE DEF bias
<1>. DEFINE K == Combine(E, A, O)
            L == Apply(K, gone, put)
            R == Apply(L, tput, tgone)
<1>9. IsSum(K) /\ \A f : Times(K, f) = Times(E, f) + Times(A, f) - Times(O, f)
  BY <1>6, <1>7, CombineFacts
<1>. HIDE DEF K
<1>10. IsSum(L) /\ \A f : Times(L, f) = Times(K, f) + One(f \in gone) - One(f \in put)
  BY <1>9, ApplyFacts
<1>. HIDE DEF L
<1>11. IsSum(R) /\ \A f : Times(R, f) = Times(L, f) + One(f \in tput) - One(f \in tgone)
  BY <1>10, ApplyFacts
<1>. HIDE DEF R
<1>12. \A f : Times(K, f) = bias(f) + One(f \in pb) + One(f \in pa) + One(f \in ta) - One(f \in po)
  BY <1>6, <1>7, <1>8, <1>9
<1>13. \A f : Times(L, f) = bias(f) + One(f \in pb) + One(f \in ta)
  BY <1>4, <1>8, <1>10, <1>12
<1>14. \A f : Times(R, f) = Times(B, f)
  BY <1>5, <1>6, <1>8, <1>11, <1>13
<1>15. R = B
  BY <1>6, <1>11, <1>14, SameSum
<1>. QED
  BY <1>15 DEF R, L, K, A, B, E, O, gone, put, tput, tgone, HybridAcc

-------------------------------------------------------------------------------
(* What a worker's record is made of. *)
Element(e) ==
  /\ e = [dirty |-> e.dirty, gone |-> e.gone, new |-> e.new, computed |-> e.computed,
          acc |-> [c \in Colors |-> e.acc[c]]]
  /\ e.computed \subseteq Colors
WithStack(st, stack) ==
  [line |-> st.line, boards |-> st.boards, stack |-> stack, cache |-> st.cache, net |-> st.net,
   searching |-> st.searching, evaluated |-> st.evaluated, steps |-> st.steps]
Depths == 1 .. MaxSize
Shape(st) ==
  /\ st = WithStack(st, [i \in Depths |-> st.stack[i]])
  /\ \A i \in Depths : Element(st.stack[i])

Marked(e, c, acc) ==
  [dirty |-> e.dirty, gone |-> e.gone, new |-> e.new, computed |-> e.computed
  \cup {c},
   acc |-> [k \in Colors |-> IF k = c THEN acc ELSE e.acc[k]]]

(* An accumulator is one still when it has been computed. *)
LEMMA MarkedElement ==
  ASSUME NEW e, Element(e), NEW c \in Colors, NEW acc
  PROVE  Element(Marked(e, c, acc))
BY DEF Element, Marked

(* What SetAcc changes. *)
LEMMA SetAccIs ==
  ASSUME NEW st, Shape(st), NEW i \in Depths, NEW c \in Colors, NEW acc
  PROVE  SetAcc(st, i, c, acc)
           = WithStack(st, [j \in Depths |-> IF j = i THEN Marked(st.stack[i], c, acc) ELSE st.stack[j]])
<1>. DEFINE e == st.stack[i]
            f == [e EXCEPT !.acc[c] = acc]
            g == [f EXCEPT !.computed = @ \cup {c}]
            s == [st EXCEPT !.stack[i].acc[c] = acc]
<1>1. st = WithStack(st, st.stack) /\ st.stack = [j \in Depths |-> st.stack[j]]
      /\ Element(e)
  BY DEF Shape, WithStack
<1>2. e = [dirty |-> e.dirty, gone |-> e.gone, new |-> e.new, computed |-> e.computed, acc |-> e.acc]
      /\ e.acc = [k \in Colors |-> e.acc[k]]
  BY <1>1 DEF Element
<1>3. g = Marked(e, c, acc)
  <2>. HIDE DEF e
  <2>1. f = [dirty |-> e.dirty, gone |-> e.gone, new |-> e.new, computed |-> e.computed,
             acc |-> [k \in Colors |-> IF k = c THEN acc ELSE e.acc[k]]]
    BY <1>2
  <2>. HIDE DEF f
  <2>2. g = [dirty |-> e.dirty, gone |-> e.gone, new |-> e.new, computed |-> e.computed \cup {c},
             acc |-> [k \in Colors |-> IF k = c THEN acc ELSE e.acc[k]]]
    BY <2>1
  <2>. QED
    BY <2>2 DEF Marked
<1>4. s = WithStack(st, [j \in Depths |-> IF j = i THEN f ELSE st.stack[j]])
  <2>1. s = [st EXCEPT !.stack = [@ EXCEPT ![i] = f]]
    OBVIOUS
  <2>2. [st.stack EXCEPT ![i] = f] = [j \in Depths |-> IF j = i THEN f ELSE st.stack[j]]
    <3>. HIDE DEF f
    <3>. QED
      BY <1>1
  <2>. HIDE DEF f, s
  <2>. QED
    BY <1>1, <2>1, <2>2 DEF WithStack
<1>5. SetAcc(st, i, c, acc) = [s EXCEPT !.stack[i].computed = @ \cup {c}]
  BY DEF SetAcc
<1>6. /\ s.stack = [j \in Depths |-> IF j = i THEN f ELSE st.stack[j]]
      /\ s = WithStack(s, s.stack) /\ \A x : WithStack(s, x) = WithStack(st, x)
  <2>. HIDE DEF s, f
  <2>. QED
    BY <1>4 DEF WithStack
<1>7. [s EXCEPT !.stack[i].computed = @
      \cup {c}] = [s EXCEPT !.stack = [@ EXCEPT ![i] = g]]
  <2>1. s.stack[i] = f
    <3>. HIDE DEF s, f
    <3>. QED
      BY <1>6
  <2>. HIDE DEF s, f
  <2>. QED
    BY <1>6, <2>1
<1>8. [s.stack EXCEPT ![i] = g] = [j \in Depths |-> IF j = i THEN g ELSE st.stack[j]]
  <2>. HIDE DEF s, f, g
  <2>. QED
    BY <1>6
<1>9. [s EXCEPT !.stack = [@ EXCEPT ![i] = g]] = WithStack(st, [j \in Depths |-> IF j = i THEN g ELSE st.stack[j]])
  <2>. HIDE DEF s, f, g
  <2>. QED
    BY <1>6, <1>8 DEF WithStack
<1>. QED
  BY <1>3, <1>5, <1>7, <1>9

(* A line in the middle of a search: sound boards, each the one before it  *)
(* with what the stack says has changed.                                   *)
SoundLine(st) ==
  /\ Size(st) \in Depths
  /\ \A i \in 1 .. Size(st) : BoardSound(st.boards[i])
  /\ st.stack[1].dirty = NoDirty
  /\ \A i \in 2 .. Size(st) : Between(st.boards[i - 1], st.boards[i], st.stack[i])
Exact(st) ==
  \A i \in 1 .. Size(st) : \A c \in st.stack[i].computed :
    st.stack[i].acc[c] = FromScratch(st.net, c, st.boards[i])
CacheExact(st) ==
  /\ DOMAIN st.cache \subseteq Squares \X Colors
  /\ \A k \in DOMAIN st.cache :
       /\ IsBoard(st.cache[k].pieces)
       /\ st.cache[k].acc = SumOfPieces(st.net, k[2], k[1], st.cache[k].pieces)
Ready(st) == Shape(st) /\ SoundLine(st) /\ Exact(st) /\ CacheExact(st)

(* A worker after accumulators, and nothing else, have been brought up to  *)
(* date.                                                                   *)
Grown(st, t) ==
  /\ t.line = st.line /\ t.boards = st.boards /\ t.net = st.net
     /\ t.searching = st.searching
  /\ t.evaluated = st.evaluated /\ t.steps = st.steps
  /\ \A i \in Depths :
       /\ t.stack[i].dirty = st.stack[i].dirty
       /\ t.stack[i].new = st.stack[i].new /\ t.stack[i].gone = st.stack[i].gone
       /\ st.stack[i].computed \subseteq t.stack[i].computed

(* The last accumulator is one of the stack's, of the last board. *)
LEMMA SizeFacts ==
  ASSUME NEW st, SoundLine(st)
  PROVE  /\ Size(st) \in Int /\ Size(st) \in Depths
            /\ 1 .. Size(st) \subseteq Depths
         /\ Size(st) \in 1 .. Size(st) /\ Board(st) = st.boards[Size(st)]
<1>1. MaxSize \in Nat
  BY LinesAssumption DEF Parameters
<1>2. Size(st) \in Depths
  BY DEF SoundLine
<1>3. Board(st) = st.boards[Size(st)]
  BY DEF Board, Size
<1>. QED
  BY <1>1, <1>2, <1>3 DEF Depths

Filled(st, c, lo, hi) ==
  WithStack(st, [j \in Depths |-> IF lo <= j /\ j <= hi
                                 THEN Marked(st.stack[j], c, FromScratch(st.net, c, st.boards[j]))
                                 ELSE st.stack[j]])

(* Whatever part of the line is filled with the sums of its boards, the    *)
(* worker stays sound.                                                     *)
LEMMA FilledFacts ==
  ASSUME NEW st, Ready(st), NEW c \in Colors, NEW lo \in Int, NEW hi \in Int, 1 <= lo, hi <= Size(st)
  PROVE  /\ Ready(Filled(st, c, lo, hi)) /\ Grown(st, Filled(st, c, lo, hi))
         /\ Filled(st, c, lo, hi).cache = st.cache
         /\ \A j \in Depths : Filled(st, c, lo, hi).stack[j]
                               = IF lo <= j /\ j <= hi
                                 THEN Marked(st.stack[j], c, FromScratch(st.net, c, st.boards[j]))
                                 ELSE st.stack[j]
         /\ \A j \in lo .. hi : c \in Filled(st, c, lo, hi).stack[j].computed
<1>. DEFINE t == Filled(st, c, lo, hi)
            M(j) == Marked(st.stack[j], c, FromScratch(st.net, c, st.boards[j]))
<1>1. /\ t = WithStack(st, t.stack) /\ t.stack = [j \in Depths |-> t.stack[j]]
      /\ \A j \in Depths : t.stack[j] = IF lo <= j
         /\ j <= hi THEN M(j) ELSE st.stack[j]
  BY DEF Filled, WithStack
<1>2. /\ t.line = st.line /\ t.boards = st.boards /\ t.net = st.net
         /\ t.searching = st.searching
      /\ t.evaluated = st.evaluated /\ t.steps = st.steps /\ t.cache = st.cache
      /\ \A x : WithStack(t, x) = WithStack(st, x)
  BY DEF Filled, WithStack
<1>3. Shape(st) /\ SoundLine(st) /\ Exact(st) /\ CacheExact(st)
      /\ \A j \in Depths : Element(st.stack[j])
  BY DEF Ready, Shape
<1>. HIDE DEF t
<1>4. \A j \in Depths : /\ Element(M(j))
                       /\ M(j).dirty = st.stack[j].dirty
                          /\ M(j).new = st.stack[j].new
                       /\ M(j).gone = st.stack[j].gone
                       /\ M(j).computed = st.stack[j].computed \cup {c}
                       /\ M(j).acc[c] = FromScratch(st.net, c, st.boards[j])
                       /\ \A k \in Colors : k # c
                          => M(j).acc[k] = st.stack[j].acc[k]
  <2>. TAKE j \in Depths
  <2>1. Element(M(j))
    BY <1>3, MarkedElement
  <2>. QED
    BY <2>1 DEF Marked
<1>. HIDE DEF M
<1>5. Shape(t)
  BY <1>1, <1>2, <1>3, <1>4 DEF Shape
<1>6. /\ Size(st) \in Int /\ 1 .. Size(st) \subseteq Depths /\ Size(t) = Size(st)
         /\ Size(st) \in Depths
      /\ lo .. hi \subseteq 1 .. Size(st) /\ Depths \subseteq Int /\ 1 \in Depths
  <2>1. Size(st) \in Int /\ 1 .. Size(st) \subseteq Depths /\ Size(st) \in Depths
    BY <1>3, SizeFacts
  <2>2. Depths \subseteq Int /\ 1 \in Depths
    BY LinesAssumption DEF Depths, Parameters
  <2>. QED
    BY <1>2, <2>1, <2>2 DEF Size
<1>7. \A j \in Depths : /\ t.stack[j].dirty = st.stack[j].dirty
                       /\ t.stack[j].new = st.stack[j].new
                          /\ t.stack[j].gone = st.stack[j].gone
                       /\ st.stack[j].computed \subseteq t.stack[j].computed
  BY <1>1, <1>4
<1>8. Grown(st, t)
  BY <1>2, <1>7 DEF Grown
<1>9. SoundLine(t)
  <2>1. \A i \in 2 .. Size(st) : i \in Depths
    BY <1>6
  <2>2. \A i \in 2 .. Size(st) : Between(t.boards[i - 1], t.boards[i], t.stack[i])
    BY <1>2, <1>3, <1>7, <2>1 DEF SoundLine, Between
  <2>. QED
    BY <1>2, <1>3, <1>6, <1>7, <2>2 DEF SoundLine
<1>10. Exact(t)
  <2>. SUFFICES ASSUME NEW i \in 1 .. Size(st), NEW k \in t.stack[i].computed
                PROVE  t.stack[i].acc[k] = FromScratch(st.net, k, st.boards[i])
    BY <1>2, <1>6 DEF Exact
  <2>1. i \in Depths
    BY <1>6
  <2>2. CASE lo <= i /\ i <= hi
    <3>1. t.stack[i] = M(i)
      BY <1>1, <2>1, <2>2
    <3>2. k = c \/ k \in st.stack[i].computed
      BY <1>4, <2>1, <3>1
    <3>3. k \in Colors
      BY <1>3, <2>1, <3>2 DEF Element
    <3>4. k # c => t.stack[i].acc[k] = st.stack[i].acc[k]
      BY <1>4, <2>1, <3>1, <3>3
    <3>5. k = c => t.stack[i].acc[k] = FromScratch(st.net, k, st.boards[i])
      BY <1>4, <2>1, <3>1
    <3>6. k # c => st.stack[i].acc[k] = FromScratch(st.net, k, st.boards[i])
      BY <1>3, <3>2 DEF Exact
    <3>. QED
      BY <3>4, <3>5, <3>6
  <2>3. CASE ~(lo <= i /\ i <= hi)
    <3>1. t.stack[i] = st.stack[i]
      BY <1>1, <2>1, <2>3
    <3>. QED
      BY <1>3, <3>1 DEF Exact
  <2>. QED
    BY <2>2, <2>3
<1>11. CacheExact(t)
  BY <1>2, <1>3 DEF CacheExact
<1>12. ASSUME NEW j \in lo .. hi PROVE c \in t.stack[j].computed
  <2>1. lo <= j /\ j <= hi
    OBVIOUS
  <2>2. j \in Depths
    BY <1>6
  <2>. QED
    BY <1>1, <1>4, <2>1, <2>2
<1>13. \A j \in Depths : t.stack[j] = IF lo <= j /\ j <= hi
                                 THEN Marked(st.stack[j], c, FromScratch(st.net, c, st.boards[j]))
                                 ELSE st.stack[j]
  BY <1>1 DEF M
<1>. QED
  BY <1>2, <1>5, <1>8, <1>9, <1>10, <1>11, <1>12, <1>13 DEF Ready, t

(* Filling one more, at either end. *)
LEMMA FillOne ==
  ASSUME NEW st, Ready(st), NEW c \in Colors, NEW lo \in Int, NEW hi \in Int, 1 <= lo, hi <= Size(st),
         NEW i \in 1 .. Size(st), i \notin lo .. hi, NEW lo2 \in Int, NEW hi2 \in Int,
         \A j \in Depths : (lo2 <= j /\ j <= hi2) <=> (lo <= j /\ j <= hi) \/ j = i
  PROVE  SetAcc(Filled(st, c, lo, hi), i, c, FromScratch(st.net, c, st.boards[i])) = Filled(st, c, lo2, hi2)
<1>. DEFINE t == Filled(st, c, lo, hi)
            M(j) == Marked(st.stack[j], c, FromScratch(st.net, c, st.boards[j]))
            acc == FromScratch(st.net, c, st.boards[i])
<1>1. /\ Shape(t)
      /\ \A j \in Depths : t.stack[j] = IF lo <= j
         /\ j <= hi THEN M(j) ELSE st.stack[j]
  BY FilledFacts DEF Ready
<1>2. i \in Depths /\ i \in Int /\ Depths \subseteq Int
  BY SizeFacts, LinesAssumption DEF Ready, Depths, Parameters
<1>3. SetAcc(t, i, c, acc)
        = WithStack(t, [j \in Depths |-> IF j = i THEN Marked(t.stack[i], c, acc) ELSE t.stack[j]])
  <2>. HIDE DEF t, acc
  <2>. QED
    BY <1>1, <1>2, SetAccIs
<1>4. \A x : WithStack(t, x) = WithStack(st, x)
  BY DEF Filled, WithStack
<1>. HIDE DEF t
<1>5. t.stack[i] = st.stack[i]
  BY <1>1, <1>2
<1>6. \A j \in Depths : (IF j = i THEN Marked(t.stack[i], c, acc) ELSE t.stack[j])
                         = IF lo2 <= j /\ j <= hi2 THEN M(j) ELSE st.stack[j]
  <2>. HIDE DEF acc
  <2>. TAKE j \in Depths
  <2>1. CASE j = i
    BY <1>2, <1>5, <2>1 DEF acc
  <2>2. CASE j # i
    <3>. HIDE DEF M
    <3>. QED
      BY <1>1, <2>2
  <2>. QED
    BY <2>1, <2>2
<1>7. [j \in Depths |-> IF j = i THEN Marked(t.stack[i], c, acc) ELSE t.stack[j]]
        = [j \in Depths |-> IF lo2 <= j /\ j <= hi2 THEN M(j) ELSE st.stack[j]]
  <2>. HIDE DEF acc, M
  <2>. QED
    BY <1>6
<1>8. SetAcc(t, i, c, acc) = WithStack(st, [j \in Depths |-> IF lo2 <= j
      /\ j <= hi2 THEN M(j) ELSE st.stack[j]])
  <2>. HIDE DEF acc, M
  <2>. QED
    BY <1>3, <1>4, <1>7
<1>. QED
  BY <1>8 DEF Filled, t

(* Filling nothing. *)
LEMMA FillNone ==
  ASSUME NEW st, Shape(st), NEW c \in Colors, NEW lo \in Int, NEW hi \in Int, hi < lo
  PROVE  Filled(st, c, lo, hi) = st
<1>1. \A j \in Depths : ~(lo <= j /\ j <= hi)
  BY LinesAssumption DEF Depths, Parameters
<1>2. [j \in Depths |-> IF lo <= j /\ j <= hi
                       THEN Marked(st.stack[j], c, FromScratch(st.net, c, st.boards[j]))
                       ELSE st.stack[j]] = [j \in Depths |-> st.stack[j]]
  BY <1>1
<1>. QED
  BY <1>2 DEF Filled, Shape

-------------------------------------------------------------------------------
(* The king does not move between an accumulator and a later one, unless a *)
(* refresh is required in between.                                         *)
LEMMA KingAlong ==
  ASSUME NEW st, SoundLine(st), NEW c \in Colors, NEW lo \in 1 .. Size(st),
         \A j \in (lo + 1) .. Size(st) : ~RequiresRefresh(st.stack[j].dirty, c)
  PROVE  \A j \in lo .. Size(st) : KingSquare(st.boards[j], c) = KingSquare(Board(st), c)
<1>. DEFINE n == Size(st)
            k == KingSquare(Board(st), c)
            S == {j \in Int : KingSquare(st.boards[j], c) = k}
<1>1. n \in Int /\ n \in S /\ lo \in Int
  BY SizeFacts
<1>2. ASSUME NEW j \in (lo + 1) .. n, j \in S PROVE j - 1 \in S
  <2>1. j \in 2 .. n /\ j - 1 \in Int
    BY <1>1
  <2>2. Between(st.boards[j - 1], st.boards[j], st.stack[j])
    BY <2>1 DEF SoundLine
  <2>3. KingSquare(st.boards[j], c) = KingSquare(st.boards[j - 1], c)
    BY <2>2, AppliedKings DEF Between
  <2>. QED
    BY <1>2, <2>1, <2>3
<1>3. lo .. n \subseteq S
  <2>. HIDE DEF S, n
  <2>. QED
    BY <1>1, <1>2, DownFrom
<1>. QED
  BY <1>3

(* One accumulator from its neighbour, in either direction. *)
LEMMA SteppedIs ==
  ASSUME NEW st, Ready(st), NEW c \in Colors, NEW i \in 2 .. Size(st),
         ~RequiresRefresh(st.stack[i].dirty, c)
  PROVE  LET k == KingSquare(st.boards[i], c) IN
         /\ c \in st.stack[i - 1].computed =>
              Stepped(st, c, k, i - 1, i) = SetAcc(st, i, c, FromScratch(st.net, c, st.boards[i]))
         /\ c \in st.stack[i].computed =>
              Stepped(st, c, k, i, i - 1) = SetAcc(st, i - 1, c, FromScratch(st.net, c, st.boards[i - 1]))
<1>. DEFINE k == KingSquare(st.boards[i], c)
            e == st.stack[i]
            P == Plus(st.net, c, k, e)
            M == Minus(st.net, c, k, e)
            A == FromScratch(st.net, c, st.boards[i - 1])
            B == FromScratch(st.net, c, st.boards[i])
<1>1. Between(st.boards[i - 1], st.boards[i], e)
  BY DEF Ready, SoundLine
<1>2. B = Apply(A, P, M) /\ A = Apply(B, M, P)
  <2>. HIDE DEF e
  <2>. QED
    BY <1>1, ScratchStep DEF e
<1>3. i \in Int /\ i - 1 < i /\ ~(i < i - 1)
  OBVIOUS
<1>4. Stepped(st, c, k, i - 1, i) = SetAcc(st, i, c, Apply(st.stack[i - 1].acc[c], P, M))
  BY <1>3 DEF Stepped, Plus, Minus
<1>5. Stepped(st, c, k, i, i - 1) = SetAcc(st, i - 1, c, Apply(st.stack[i].acc[c], M, P))
  BY <1>3 DEF Stepped, Plus, Minus
<1>6. c \in st.stack[i - 1].computed => st.stack[i - 1].acc[c] = A
  <2>1. i - 1 \in 1 .. Size(st)
    BY SizeFacts DEF Ready
  <2>. QED
    BY <2>1 DEF Ready, Exact
<1>7. c \in st.stack[i].computed => st.stack[i].acc[c] = B
  <2>1. i \in 1 .. Size(st)
    BY SizeFacts DEF Ready
  <2>. QED
    BY <2>1 DEF Ready, Exact
<1>. HIDE DEF P, M, A, B
<1>8. c \in st.stack[i - 1].computed
      => Stepped(st, c, k, i - 1, i) = SetAcc(st, i, c, B)
  BY <1>2, <1>4, <1>6
<1>9. c \in st.stack[i].computed
      => Stepped(st, c, k, i, i - 1) = SetAcc(st, i - 1, c, A)
  BY <1>2, <1>5, <1>7
<1>. QED
  BY <1>8, <1>9 DEF A, B

(* Going forward brings all accumulators up to the last one up to date.    *)
LEMMA ForwardIs ==
  ASSUME NEW st, Ready(st), NEW c \in Colors, NEW lo \in 1 .. Size(st), c \in st.stack[lo].computed,
         \A j \in (lo + 1) .. Size(st) : ~RequiresRefresh(st.stack[j].dirty, c)
  PROVE  Forward(st, c, lo) = Filled(st, c, lo + 1, Size(st))
<1>. DEFINE n == Size(st)
            k == KingSquare(Board(st), c)
            G(i) == Filled(st, c, lo + 1, i)
            Next1(f, i) == IF i = lo THEN st ELSE Stepped(f[i - 1], c, k, i - 1, i)
            g == [i \in lo .. n |-> G(i)]
            Rec(f) == f = [i \in lo .. n |-> Next1(f, i)]
<1>1. /\ n \in Int /\ lo \in Int /\ n \in lo .. n /\ lo \in lo .. n /\ 1 <= lo
         /\ lo <= n
      /\ Shape(st) /\ SoundLine(st) /\ 1 .. n \subseteq Depths
  BY SizeFacts DEF Ready
<1>2. G(lo) = st
  BY <1>1, FillNone
<1>3. ASSUME NEW i \in (lo + 1) .. n
      PROVE G(i) = Stepped(G(i - 1), c, k, i - 1, i)
  <2>. DEFINE t == G(i - 1)
  <2>1. /\ i \in Int /\ i - 1 \in Int /\ 1 <= lo + 1 /\ i - 1 <= n
           /\ i \in 2 .. n /\ i \in 1 .. n /\ i - 1 \in 1 .. n
        /\ i \notin (lo + 1) .. (i - 1) /\ i \in lo .. n
    BY <1>1
  <2>2. /\ Ready(t) /\ Grown(st, t)
        /\ \A j \in (lo + 1) .. (i - 1) : c \in t.stack[j].computed
    <3>. HIDE DEF n
    <3>. QED
      BY <1>1, <2>1, FilledFacts DEF n
  <2>3. c \in t.stack[i - 1].computed
    <3>1. CASE i - 1 = lo
      <4>1. st.stack[lo].computed \subseteq t.stack[lo].computed
        BY <1>1, <2>2 DEF Grown
      <4>. QED
        BY <3>1, <4>1
    <3>2. CASE i - 1 # lo
      <4>1. i - 1 \in (lo + 1) .. (i - 1)
        BY <1>1, <3>2
      <4>. QED
        BY <2>2, <4>1
    <3>. QED
      BY <3>1, <3>2
  <2>4. /\ Size(t) = n /\ t.boards = st.boards /\ t.net = st.net
        /\ t.stack[i].dirty = st.stack[i].dirty
    BY <1>1, <2>1, <2>2 DEF Grown, Size
  <2>5. k = KingSquare(t.boards[i], c)
    BY <1>1, <2>1, <2>4, KingAlong
  <2>6. ~RequiresRefresh(t.stack[i].dirty, c)
    BY <2>4
  <2>. HIDE DEF k, t, n
  <2>7. Stepped(t, c, k, i - 1, i) = SetAcc(t, i, c, FromScratch(t.net, c, t.boards[i]))
    BY <2>1, <2>2, <2>3, <2>4, <2>5, <2>6, SteppedIs
  <2>8. \A j \in Depths : ((lo + 1) <= j /\ j <= i)
        <=> ((lo + 1) <= j /\ j <= i - 1) \/ j = i
    <3>1. Depths \subseteq Int
      BY LinesAssumption DEF Depths, Parameters
    <3>2. lo \in Int /\ i \in Int /\ lo + 1 <= i
      BY <1>1, <2>1
    <3>3. \A j \in Int : ((lo + 1) <= j /\ j <= i)
          <=> ((lo + 1) <= j /\ j <= i - 1) \/ j = i
      BY ONLY <3>2
    <3>. QED
      BY <3>1, <3>3
  <2>9. SetAcc(t, i, c, FromScratch(st.net, c, st.boards[i])) = G(i)
    <3>1. lo + 1 \in Int /\ i \in 1 .. Size(st) /\ i - 1 <= Size(st)
      BY <1>1, <2>1 DEF n
    <3>2. t = Filled(st, c, lo + 1, i - 1)
      BY DEF t
    <3>3. i \notin (lo + 1) .. (i - 1) /\ 1 <= lo + 1 /\ i - 1 \in Int
      BY <1>1, <2>1
    <3>. DEFINE l == lo + 1
    <3>4. l \in Int /\ \A j \in Depths : (l <= j /\ j <= i)
          <=> (l <= j /\ j <= i - 1) \/ j = i
      BY <2>8, <3>1
    <3>5. i \notin l .. (i - 1) /\ 1 <= l
      BY <3>3
    <3>. HIDE DEF l
    <3>6. SetAcc(Filled(st, c, l, i - 1), i, c, FromScratch(st.net, c, st.boards[i])) = Filled(st, c, l, i)
      BY <2>1, <3>1, <3>3, <3>4, <3>5, FillOne
    <3>. QED
      BY <3>2, <3>6 DEF l
  <2>. QED
    BY <2>4, <2>7, <2>9 DEF t
<1>4. Rec(g)
  <2>. HIDE DEF G, k, n
  <2>1. \A i \in lo .. n : i # lo => i \in (lo + 1) .. n /\ i - 1 \in lo .. n
    BY <1>1
  <2>2. ASSUME NEW i \in lo .. n PROVE g[i] = Next1(g, i)
    <3>1. CASE i = lo
      BY <1>1, <1>2, <3>1
    <3>2. CASE i # lo
      <4>1. i \in (lo + 1) .. n /\ i - 1 \in lo .. n
        BY <2>1, <3>2
      <4>2. g[i] = G(i) /\ g[i - 1] = G(i - 1)
        BY <4>1
      <4>. QED
        BY <1>3, <3>2, <4>1, <4>2
    <3>. QED
      BY <3>1, <3>2
  <2>3. g = [i \in lo .. n |-> g[i]]
    OBVIOUS
  <2>. HIDE DEF g
  <2>. QED
    BY <2>2, <2>3
<1>. DEFINE upTo == CHOOSE f : Rec(f)
<1>5. Rec(upTo)
  <2>. HIDE DEF Rec
  <2>. QED
    BY <1>4
<1>6. Forward(st, c, lo) = upTo[n]
  BY DEF Forward
<1>. HIDE DEF upTo
<1>7. upTo[n] = G(n)
  <2>. DEFINE S == {i \in lo .. n : upTo[i] = G(i)}
  <2>1. \A i \in lo .. n : upTo[i] = IF i = lo THEN st ELSE Stepped(upTo[i - 1], c, k, i - 1, i)
    <3>. HIDE DEF k, n
    <3>. QED
      BY <1>5
  <2>. HIDE DEF G, k, n
  <2>2. lo \in S
    BY <1>1, <1>2, <2>1
  <2>3. ASSUME NEW i \in lo .. (n - 1), i \in S PROVE i + 1 \in S
    <3>1. i + 1 \in (lo + 1) .. n /\ i + 1 \in lo .. n /\ (i + 1) - 1 = i
          /\ i + 1 # lo
      BY <1>1
    <3>2. G(i + 1) = Stepped(G(i), c, k, i, i + 1)
      BY <1>3, <3>1
    <3>3. upTo[i + 1] = Stepped(upTo[i], c, k, i, i + 1)
      BY <2>1, <3>1
    <3>. QED
      BY <2>3, <3>1, <3>2, <3>3
  <2>4. lo .. n \subseteq S
    <3>. HIDE DEF S
    <3>. QED
      BY <1>1, <2>2, <2>3, UpFrom
  <2>. QED
    BY <1>1, <2>4
<1>. QED
  BY <1>6, <1>7

(* Going backward from the last accumulator brings those before it up to   *)
(* date, the first of them being the one that was asked for.               *)
LEMMA BackwardIs ==
  ASSUME NEW st, Ready(st), NEW c \in Colors, NEW lo \in 1 .. Size(st), c \in st.stack[Size(st)].computed,
         \A j \in (lo + 1) .. Size(st) : ~RequiresRefresh(st.stack[j].dirty, c)
  PROVE  Backward(st, c, lo) = Filled(st, c, lo, Size(st) - 1)
<1>. DEFINE n == Size(st)
            k == KingSquare(Board(st), c)
            G(i) == Filled(st, c, i, n - 1)
            Next1(f, i) == IF i = n THEN st ELSE Stepped(f[i + 1], c, k, i + 1, i)
            g == [i \in lo .. n |-> G(i)]
            Rec(f) == f = [i \in lo .. n |-> Next1(f, i)]
<1>1. /\ n \in Int /\ lo \in Int /\ n \in lo .. n /\ lo \in lo .. n /\ 1 <= lo
         /\ lo <= n
      /\ Shape(st) /\ SoundLine(st) /\ 1 .. n \subseteq Depths
  BY SizeFacts DEF Ready
<1>2. G(n) = st
  <2>1. n - 1 \in Int /\ n - 1 < n
    BY <1>1
  <2>. HIDE DEF n
  <2>. QED
    BY <1>1, <2>1, FillNone
<1>3. ASSUME NEW i \in lo .. (n - 1)
      PROVE G(i) = Stepped(G(i + 1), c, k, i + 1, i)
  <2>. DEFINE t == G(i + 1)
              m == i + 1
  <2>1. /\ i \in Int /\ m \in Int /\ 1 <= m /\ n - 1 \in Int /\ n - 1 <= n
           /\ m \in 2 .. n /\ m \in 1 .. n
        /\ i \in 1 .. n /\ i \notin m .. (n - 1) /\ m \in lo .. n /\ m - 1 = i
           /\ m \in (lo + 1) .. n
    BY <1>1
  <2>2. /\ Ready(t) /\ Grown(st, t)
        /\ \A j \in m .. (n - 1) : c \in t.stack[j].computed
    <3>. HIDE DEF n
    <3>. QED
      BY <1>1, <2>1, FilledFacts DEF n
  <2>3. c \in t.stack[m].computed
    <3>1. CASE m = n
      <4>1. st.stack[n].computed \subseteq t.stack[n].computed
        BY <1>1, <2>1, <2>2, <3>1 DEF Grown
      <4>. QED
        BY <3>1, <4>1
    <3>2. CASE m # n
      <4>1. m \in m .. (n - 1)
        BY <1>1, <2>1, <3>2
      <4>. QED
        BY <2>2, <4>1
    <3>. QED
      BY <3>1, <3>2
  <2>4. /\ Size(t) = n /\ t.boards = st.boards /\ t.net = st.net
        /\ t.stack[m].dirty = st.stack[m].dirty
    BY <1>1, <2>1, <2>2 DEF Grown, Size
  <2>5. k = KingSquare(t.boards[m], c)
    BY <1>1, <2>1, <2>4, KingAlong
  <2>6. ~RequiresRefresh(t.stack[m].dirty, c)
    BY <2>1, <2>4
  <2>. HIDE DEF k, t, n, m
  <2>7. Stepped(t, c, k, m, i) = SetAcc(t, i, c, FromScratch(t.net, c, t.boards[i]))
    BY <2>1, <2>2, <2>3, <2>4, <2>5, <2>6, SteppedIs
  <2>8. \A j \in Depths : (i <= j /\ j <= n - 1) <=> (m <= j /\ j <= n - 1)
        \/ j = i
    <3>1. Depths \subseteq Int
      BY LinesAssumption DEF Depths, Parameters
    <3>2. n \in Int /\ i \in Int /\ i <= n - 1 /\ m = i + 1
      BY <1>1, <2>1 DEF m
    <3>3. \A j \in Int : (i <= j /\ j <= n - 1) <=> (m <= j /\ j <= n - 1)
          \/ j = i
      BY ONLY <3>2
    <3>. QED
      BY <3>1, <3>3
  <2>9. SetAcc(t, i, c, FromScratch(st.net, c, st.boards[i])) = G(i)
    <3>1. i \in 1 .. Size(st) /\ n - 1 <= Size(st)
      BY <1>1, <2>1 DEF n
    <3>2. t = Filled(st, c, m, n - 1)
      BY DEF t, m
    <3>. QED
      BY <1>1, <2>1, <2>8, <3>1, <3>2, FillOne
  <2>. QED
    BY <2>4, <2>7, <2>9 DEF t, m
<1>4. Rec(g)
  <2>. HIDE DEF G, k, n
  <2>1. \A i \in lo .. n : i # n => i \in lo .. (n - 1) /\ i + 1 \in lo .. n
    BY <1>1
  <2>2. ASSUME NEW i \in lo .. n PROVE g[i] = Next1(g, i)
    <3>1. CASE i = n
      BY <1>1, <1>2, <3>1
    <3>2. CASE i # n
      <4>1. i \in lo .. (n - 1) /\ i + 1 \in lo .. n
        BY <2>1, <3>2
      <4>2. g[i] = G(i) /\ g[i + 1] = G(i + 1)
        BY <4>1
      <4>. QED
        BY <1>3, <3>2, <4>1, <4>2
    <3>. QED
      BY <3>1, <3>2
  <2>3. g = [i \in lo .. n |-> g[i]]
    OBVIOUS
  <2>. HIDE DEF g
  <2>. QED
    BY <2>2, <2>3
<1>. DEFINE downTo == CHOOSE f : Rec(f)
<1>5. Rec(downTo)
  <2>. HIDE DEF Rec
  <2>. QED
    BY <1>4
<1>6. Backward(st, c, lo) = downTo[lo]
  BY DEF Backward
<1>. HIDE DEF downTo
<1>7. downTo[lo] = G(lo)
  <2>. DEFINE S == {i \in lo .. n : downTo[i] = G(i)}
  <2>1. \A i \in lo .. n : downTo[i] = IF i = n THEN st ELSE Stepped(downTo[i + 1], c, k, i + 1, i)
    <3>. HIDE DEF k, n
    <3>. QED
      BY <1>5
  <2>. HIDE DEF G, k, n
  <2>2. n \in S
    BY <1>1, <1>2, <2>1
  <2>3. ASSUME NEW i \in (lo + 1) .. n, i \in S PROVE i - 1 \in S
    <3>1. i - 1 \in lo .. (n - 1) /\ i - 1 \in lo .. n /\ (i - 1) + 1 = i
          /\ i - 1 # n
      BY <1>1
    <3>2. G(i - 1) = Stepped(G(i), c, k, i, i - 1)
      BY <1>3, <3>1
    <3>3. downTo[i - 1] = Stepped(downTo[i], c, k, i, i - 1)
      BY <2>1, <3>1
    <3>. QED
      BY <2>3, <3>1, <3>2, <3>3
  <2>4. lo .. n \subseteq S
    <3>. HIDE DEF S
    <3>. QED
      BY <1>1, <2>2, <2>3, DownFrom
  <2>. QED
    BY <1>1, <2>4
<1>. QED
  BY <1>6, <1>7

-------------------------------------------------------------------------------
(* The accumulator an evaluation starts from, and what lies after it.      *)
LEMMA LastUsableFacts ==
  ASSUME NEW st, SoundLine(st), NEW c \in Colors
  PROVE  LET last == LastUsable(st, c) IN
         /\ last \in 1 .. Size(st)
         /\ \A j \in (last + 1) .. Size(st) : ~RequiresRefresh(st.stack[j].dirty, c)
<1>. DEFINE n == Size(st)
            Usable(i) == c \in st.stack[i].computed
            \/ RequiresRefresh(st.stack[i].dirty, c)
            usable == {i \in 2 .. n : Usable(i)}
            last == LastUsable(st, c)
<1>1. n \in Int /\ n \in 1 .. n
  BY SizeFacts
<1>. HIDE DEF n
<1>2. last = IF usable = {} THEN 1 ELSE CHOOSE i \in usable : \A j \in usable : j <= i
  BY DEF LastUsable, n
<1>3. \A j \in (last + 1) .. n : RequiresRefresh(st.stack[j].dirty, c)
      => Usable(j)
  OBVIOUS
<1>. HIDE DEF last, Usable
<1>4. CASE usable = {}
  <2>1. last = 1
    BY <1>2, <1>4
  <2>2. \A j \in 2 .. n : ~Usable(j)
    BY <1>4
  <2>. QED
    BY <1>1, <1>3, <2>1, <2>2 DEF last, n
<1>5. CASE usable # {}
  <2>. DEFINE T == {n - i : i \in usable}
  <2>1. T \subseteq Nat /\ T # {}
    BY <1>1, <1>5
  <2>2. PICK x \in T : \A y \in T : x <= y
    <3>. HIDE DEF T
    <3>. QED
      BY <2>1, NatMin
  <2>3. PICK i \in usable : x = n - i
    BY <2>2
  <2>4. ASSUME NEW j \in usable PROVE j <= i
    <3>1. n - i <= n - j
      BY <2>2, <2>3
    <3>. QED
      BY <1>1, <2>3, <3>1
  <2>. HIDE DEF usable
  <2>5. last \in usable /\ \A j \in usable : j <= last
    BY <1>2, <1>5, <2>4
  <2>6. last \in 2 .. n
    BY <2>5 DEF usable
  <2>7. \A j \in (last + 1) .. n : j \in 2 .. n /\ ~(j <= last)
    BY <1>1, <2>6
  <2>8. \A j \in (last + 1) .. n : ~Usable(j)
    BY <2>5, <2>7 DEF usable
  <2>9. last \in 1 .. n
    BY <2>6
  <2>. QED
    BY <1>3, <2>8, <2>9 DEF last, n
<1>. QED
  BY <1>4, <1>5

(* Two updates are one. *)
LEMMA GrownTwice ==
  ASSUME NEW r, NEW s, NEW t, Grown(r, s), Grown(s, t)
  PROVE  Grown(r, t)
<1>1. \A i \in Depths : r.stack[i].computed \subseteq t.stack[i].computed
  BY DEF Grown
<1>. QED
  BY <1>1 DEF Grown

(* A cache entry is the sum of its pieces, one not made yet of none. *)
LEMMA EntryFacts ==
  ASSUME NEW st, CacheExact(st), NEW c \in Colors, NEW k
  PROVE  /\ IsBoard(Entry(st, k, c).pieces)
         /\ Entry(st, k, c).acc = SumOfPieces(st.net, c, k, Entry(st, k, c).pieces)
<1>1. CASE <<k, c>> \in DOMAIN st.cache
  <2>1. Entry(st, k, c) = st.cache[<<k, c>>]
    BY <1>1 DEF Entry
  <2>. QED
    BY <1>1, <2>1 DEF CacheExact
<1>2. CASE <<k, c>> \notin DOMAIN st.cache
  <2>1. Entry(st, k, c).pieces = NoBoard /\ Entry(st, k, c).acc = Biases(st.net)
    BY <1>2 DEF Entry
  <2>. QED
    BY <2>1, EmptySum
<1>. QED
  BY <1>1, <1>2

(* A cache entry that is the sum of its pieces is put in. *)
LEMMA SetEntryFacts ==
  ASSUME NEW st, Ready(st), NEW c \in Colors, NEW k \in Squares,
         NEW e, IsBoard(e.pieces), e.acc = SumOfPieces(st.net, c, k, e.pieces)
  PROVE  LET t == SetEntry(st, k, c, e) IN Ready(t) /\ Grown(st, t)
         /\ t.stack = st.stack
<1>. DEFINE t == SetEntry(st, k, c, e)
            D == DOMAIN st.cache \cup {<<k, c>>}
            f == [i \in D |-> IF i = <<k, c>> THEN e ELSE st.cache[i]]
<1>1. st = WithStack(st, st.stack)
  BY DEF Ready, Shape, WithStack
<1>2. t = [st EXCEPT !.cache = f]
  BY DEF SetEntry
<1>. HIDE DEF t, f
<1>3. /\ t.line = st.line /\ t.boards = st.boards /\ t.net = st.net
         /\ t.searching = st.searching
      /\ t.evaluated = st.evaluated /\ t.steps = st.steps /\ t.stack = st.stack
         /\ t.cache = f
      /\ t = WithStack(t, t.stack)
  BY <1>1, <1>2 DEF WithStack
<1>4. Shape(t) /\ Grown(st, t)
  <2>1. st.stack = [i \in Depths |-> st.stack[i]]
        /\ \A i \in Depths : Element(st.stack[i])
    BY DEF Ready, Shape, WithStack
  <2>2. Shape(t)
    BY <1>3, <2>1 DEF Shape
  <2>. QED
    BY <1>3, <2>2 DEF Grown
<1>5. SoundLine(t) /\ Exact(t)
  BY <1>3 DEF Ready, SoundLine, Exact, Size
<1>6. CacheExact(t)
  <2>1. DOMAIN f = D /\ D \subseteq Squares \X Colors
    BY DEF f, Ready, CacheExact
  <2>2. ASSUME NEW i \in D
        PROVE  IsBoard(f[i].pieces)
               /\ f[i].acc = SumOfPieces(st.net, i[2], i[1], f[i].pieces)
    <3>1. CASE i = <<k, c>>
      BY <3>1 DEF f
    <3>2. CASE i # <<k, c>>
      <4>1. i \in DOMAIN st.cache /\ f[i] = st.cache[i]
        BY <3>2 DEF f
      <4>. QED
        BY <4>1 DEF Ready, CacheExact
    <3>. QED
      BY <3>1, <3>2
  <2>. HIDE DEF D
  <2>. QED
    BY <1>3, <2>1, <2>2 DEF CacheExact
<1>. QED
  BY <1>3, <1>4, <1>5, <1>6 DEF Ready, t

(* The sum of its board makes the last accumulator computed. *)
LEMMA SetLast ==
  ASSUME NEW st, Ready(st), NEW c \in Colors, NEW acc, acc = FromScratch(st.net, c, Board(st))
  PROVE  LET t == SetAcc(st, Size(st), c, acc) IN
         Ready(t) /\ Grown(st, t) /\ c \in t.stack[Size(st)].computed
<1>. DEFINE n == Size(st)
            t == Filled(st, c, n, n)
<1>1. n \in Int /\ n \in 1 .. n /\ Board(st) = st.boards[n] /\ Shape(st)
      /\ n + 1 \in Int
  BY SizeFacts DEF Ready
<1>2. 1 <= n /\ 1 <= n + 1 /\ n < n + 1 /\ n \notin (n + 1) .. n /\ n \in n .. n
  BY <1>1
<1>3. \A j \in Depths : (n <= j /\ j <= n) <=> ((n + 1) <= j /\ j <= n) \/ j = n
  <2>1. Depths \subseteq Int
    BY LinesAssumption DEF Depths, Parameters
  <2>2. n \in Int
    BY <1>1
  <2>3. \A j \in Int : (n <= j /\ j <= n) <=> ((n + 1) <= j /\ j <= n) \/ j = n
    BY ONLY <2>2
  <2>. QED
    BY <2>1, <2>3
<1>4. Filled(st, c, n + 1, n) = st
  <2>. HIDE DEF n
  <2>. QED
    BY <1>1, <1>2, FillNone
<1>5. n <= Size(st) /\ n \in 1 .. Size(st)
  BY <1>1
<1>. HIDE DEF n
<1>6. SetAcc(st, n, c, FromScratch(st.net, c, st.boards[n])) = t
  BY <1>1, <1>2, <1>3, <1>4, <1>5, FillOne
<1>7. Ready(t) /\ Grown(st, t) /\ c \in t.stack[n].computed
  BY <1>1, <1>2, <1>5, FilledFacts
<1>. QED
  BY <1>1, <1>6, <1>7 DEF n

(* From the cache. *)
LEMMA RefreshCacheFacts ==
  ASSUME NEW st, Ready(st), NEW c \in Colors
  PROVE  LET t == RefreshCache(st, c) IN
         Ready(t) /\ Grown(st, t) /\ c \in t.stack[Size(st)].computed
<1>. DEFINE b == Board(st)
            k == KingSquare(b, c)
            old == Entry(st, k, c)
            e == Brought(st.net, c, k, old, b)
            s == SetEntry(st, k, c, e)
            acc == Apply(e.acc, ThreatsAt(st.net, c, k, Threats(b)), {})
<1>1. BoardSound(b) /\ IsBoard(b) /\ k \in Squares
  <2>1. BoardSound(b)
    BY SizeFacts DEF Ready, SoundLine
  <2>2. IsBoard(b)
    BY <2>1 DEF BoardSound, IsBoard
  <2>. HIDE DEF b
  <2>. QED
    BY <2>1, <2>2, KingFacts
<1>. HIDE DEF b
<1>2. IsBoard(old.pieces) /\ old.acc = SumOfPieces(st.net, c, k, old.pieces)
  <2>. HIDE DEF k
  <2>. QED
    BY EntryFacts DEF Ready
<1>3. e = [pieces |-> b, acc |-> SumOfPieces(st.net, c, k, b)]
  <2>. HIDE DEF k, old
  <2>. QED
    BY <1>1, <1>2, BroughtSum
<1>4. acc = FromScratch(st.net, c, b)
  BY <1>3 DEF FromScratch
<1>. HIDE DEF e
<1>5. Ready(s) /\ Grown(st, s) /\ s.stack = st.stack
  <2>. HIDE DEF k
  <2>. QED
    BY <1>1, <1>3, SetEntryFacts
<1>. HIDE DEF s
<1>6. Size(s) = Size(st) /\ Board(s) = b /\ s.net = st.net
  BY <1>5 DEF Grown, Size, Board, b
<1>. HIDE DEF acc
<1>7. RefreshCache(st, c) = SetAcc(s, Size(s), c, acc)
  BY <1>6 DEF RefreshCache, b, s, e, acc
<1>8. LET t == SetAcc(s, Size(s), c, acc) IN Ready(t) /\ Grown(s, t)
      /\ c \in t.stack[Size(s)].computed
  BY <1>4, <1>5, <1>6, SetLast
<1>. QED
  BY <1>5, <1>6, <1>7, <1>8, GrownTwice

(* After a short king move: from the sum before it and from both entries.  *)
LEMMA HybridFacts ==
  ASSUME NEW st, Ready(st), NEW c \in Colors, ShortKingMove(st, c)
  PROVE  LET t == Hybrid(st, c) IN
         Ready(t) /\ Grown(st, t) /\ c \in t.stack[Size(st)].computed
<1>. DEFINE n == Size(st)
            d == st.stack[n]
            b == Board(st)
            a == st.boards[n - 1]
            old == d.dirty.from
            new == d.dirty.to
            oldEntry == Entry(st, old, c)
            o == oldEntry.pieces
            changed == ChangedPieces(o, a)
            e == Brought(st.net, c, new, Entry(st, new, c), b)
            kept == Combine(e.acc, st.stack[n - 1].acc[c], oldEntry.acc)
            s == SetEntry(st, new, c, e)
            acc == Apply(Apply(kept, PiecesAt(st.net, c, old, o, changed \cap DOMAIN o),
                                     PiecesAt(st.net, c, old, a, changed \cap DOMAIN a)),
                         ThreatsAt(st.net, c, new, d.new), ThreatsAt(st.net, c, new, d.gone))
<1>1. /\ RequiresRefresh(d.dirty, c) /\ c \in st.stack[n - 1].computed
      /\ (old % 8 < 4) = (new % 8 < 4) /\ d.dirty.addSq = NoSquare
  BY DEF ShortKingMove
<1>2. n \in 2 .. n /\ n - 1 \in 1 .. n /\ b = st.boards[n]
  <2>1. n \in 1 .. n /\ n \in Int /\ b = st.boards[n]
    BY SizeFacts DEF Ready
  <2>2. ~RequiresRefresh(NoDirty, c)
    BY DEF RequiresRefresh, NoDirty, NoPiece, King
  <2>3. st.stack[1].dirty = NoDirty
    BY DEF Ready, SoundLine
  <2>4. n # 1
    BY <1>1, <2>2, <2>3
  <2>. HIDE DEF n
  <2>. QED
    BY <2>1, <2>4
<1>3. Between(a, b, d)
  BY <1>2 DEF Ready, SoundLine
<1>4. /\ Before(b, d.dirty) = a /\ IsBoard(a) /\ IsBoard(b) /\ BoardSound(b)
         /\ KingSquare(b, c) = new /\ new \in Squares
  <2>. HIDE DEF a, b, d
  <2>1. BoardSound(a) /\ MoveSound(d.dirty) /\ Fits(a, d.dirty)
        /\ b = Applied(a, d.dirty)
    BY <1>3 DEF Between
  <2>2. Before(b, d.dirty) = a
    BY <1>1, <2>1, BeforeIs
  <2>3. IsBoard(a) /\ IsBoard(b)
    BY <2>1, AppliedSquares
  <2>4. BoardSound(b) /\ KingSquare(b, c) = new
    BY <1>1, <2>1, AppliedKings
  <2>5. new \in Squares
    BY <2>4, KingFacts
  <2>. QED
    BY <2>2, <2>3, <2>4, <2>5
<1>5. IsBoard(o) /\ oldEntry.acc = SumOfPieces(st.net, c, old, o)
  <2>. HIDE DEF old
  <2>. QED
    BY EntryFacts DEF Ready
<1>6. e = [pieces |-> b, acc |-> SumOfPieces(st.net, c, new, b)]
  <2>1. /\ IsBoard(Entry(st, new, c).pieces)
        /\ Entry(st, new, c).acc = SumOfPieces(st.net, c, new, Entry(st, new, c).pieces)
    <3>. HIDE DEF new
    <3>. QED
      BY EntryFacts DEF Ready
  <2>. HIDE DEF b, new
  <2>. QED
    BY <1>4, <2>1, BroughtSum
<1>7. st.stack[n - 1].acc[c] = FromScratch(st.net, c, a)
  BY <1>1, <1>2 DEF Ready, Exact
<1>8. kept = Combine(SumOfPieces(st.net, c, new, b), FromScratch(st.net, c, a), SumOfPieces(st.net, c, old, o))
  <2>1. e.acc = SumOfPieces(st.net, c, new, b)
    BY <1>6
  <2>. HIDE DEF e, a, oldEntry, old, new, n, b
  <2>. QED
    BY <1>5, <1>7, <2>1
<1>9. acc = FromScratch(st.net, c, b)
  <2>1. acc = HybridAcc(st.net, c, a, b, d, o)
    <3>. HIDE DEF kept, a, b, o, d
    <3>. QED
      BY <1>8 DEF HybridAcc
  <2>. HIDE DEF a, b, o, d, acc
  <2>. QED
    BY <1>1, <1>3, <1>5, <2>1, HybridSum
<1>10. Hybrid(st, c) = SetAcc(s, n, c, acc)
  <2>1. Before(b, d.dirty) = a
    BY <1>4
  <2>. DEFINE p == Before(b, d.dirty)
              ch == ChangedPieces(o, p)
  <2>2. Hybrid(st, c) = SetAcc(s, n, c, Apply(Apply(kept, PiecesAt(st.net, c, old, o, ch \cap DOMAIN o),
                                     PiecesAt(st.net, c, old, p, ch \cap DOMAIN p)),
                         ThreatsAt(st.net, c, new, d.new), ThreatsAt(st.net, c, new, d.gone)))
    BY DEF Hybrid, Before
  <2>. HIDE DEF kept, p, a, b, d, o, s, n, old, new
  <2>. QED
    BY <2>1, <2>2 DEF p
<1>. HIDE DEF acc
<1>11. Ready(s) /\ Grown(st, s) /\ s.stack = st.stack
  <2>. HIDE DEF new, e
  <2>. QED
    BY <1>4, <1>6, SetEntryFacts
<1>. HIDE DEF s
<1>12. Size(s) = n /\ Board(s) = b /\ s.net = st.net
  BY <1>11 DEF Grown, Size, Board
<1>13. LET t == SetAcc(s, Size(s), c, acc) IN Ready(t) /\ Grown(s, t)
       /\ c \in t.stack[Size(s)].computed
  <2>. HIDE DEF n, b
  <2>. QED
    BY <1>9, <1>11, <1>12, SetLast
<1>. QED
  BY <1>10, <1>11, <1>12, <1>13, GrownTwice

(* One side, and both. *)
LEMMA EvaluateSideFacts ==
  ASSUME NEW st, Ready(st), NEW c \in Colors
  PROVE  LET t == EvaluateSide(st, c) IN
         Ready(t) /\ Grown(st, t) /\ c \in t.stack[Size(st)].computed
<1>. DEFINE n == Size(st)
            last == LastUsable(st, c)
            t == EvaluateSide(st, c)
            r == RefreshCache(st, c)
<1>1. /\ n \in Int /\ n \in Depths /\ last \in 1 .. n
      /\ \A j \in (last + 1) .. n : ~RequiresRefresh(st.stack[j].dirty, c)
  <2>1. n \in Int /\ n \in Depths
    BY SizeFacts DEF Ready
  <2>. QED
    BY <2>1, LastUsableFacts DEF Ready
<1>2. t = IF c \in st.stack[last].computed THEN Forward(st, c, last)
          ELSE IF ShortKingMove(st, c) THEN Hybrid(st, c)
          ELSE Backward(r, c, last)
  BY DEF EvaluateSide
<1>. HIDE DEF last, t
<1>3. CASE c \in st.stack[last].computed
  <2>1. t = Filled(st, c, last + 1, n)
    BY <1>1, <1>2, <1>3, ForwardIs
  <2>2. last + 1 \in Int /\ 1 <= last + 1 /\ n <= n
    BY <1>1
  <2>3. Ready(t) /\ Grown(st, t)
        /\ \A j \in (last + 1) .. n : c \in t.stack[j].computed
    BY <1>1, <2>1, <2>2, FilledFacts
  <2>4. c \in t.stack[n].computed
    <3>1. CASE last = n
      BY <1>1, <1>3, <2>3, <3>1 DEF Grown
    <3>2. CASE last # n
      <4>1. n \in (last + 1) .. n
        BY <1>1, <3>2
      <4>. QED
        BY <2>3, <4>1
    <3>. QED
      BY <3>1, <3>2
  <2>. QED
    BY <2>3, <2>4 DEF t
<1>4. CASE c \notin st.stack[last].computed /\ ShortKingMove(st, c)
  BY <1>2, <1>4, HybridFacts DEF t
<1>5. CASE c \notin st.stack[last].computed /\ ~ShortKingMove(st, c)
  <2>1. Ready(r) /\ Grown(st, r) /\ c \in r.stack[n].computed
    BY RefreshCacheFacts
  <2>. HIDE DEF r
  <2>2. Size(r) = n
    BY <2>1 DEF Grown, Size
  <2>3. \A j \in (last + 1) .. n : j \in Depths
    <3>1. MaxSize \in Int /\ n \in 1 .. MaxSize /\ last \in 1 .. n
      BY <1>1, LinesAssumption DEF Depths, Parameters
    <3>2. \A j \in (last + 1) .. n : j \in 1 .. MaxSize
      BY ONLY <3>1
    <3>. QED
      BY <3>2 DEF Depths
  <2>4. \A j \in (last + 1) .. n : ~RequiresRefresh(r.stack[j].dirty, c)
    BY <1>1, <2>1, <2>3 DEF Grown
  <2>. HIDE DEF n
  <2>5. t = Filled(r, c, last, n - 1)
    BY <1>1, <1>2, <1>5, <2>1, <2>2, <2>4, BackwardIs
  <2>6. n - 1 \in Int /\ last \in Int /\ 1 <= last /\ n - 1 <= n
    BY <1>1
  <2>7. Ready(t) /\ Grown(r, t)
    BY <2>1, <2>2, <2>5, <2>6, FilledFacts
  <2>8. c \in t.stack[n].computed
    BY <1>1, <2>1, <2>7 DEF Grown
  <2>. QED
    BY <2>1, <2>7, <2>8, GrownTwice DEF t, n
<1>. QED
  BY <1>3, <1>4, <1>5

(* evaluate: both sides of the last accumulator, whatever was computed. *)
LEMMA EvaluatedFacts ==
  ASSUME NEW st, Ready(st)
  PROVE  LET t == Evaluated(st) IN
         Ready(t) /\ Grown(st, t) /\ t.stack[Size(st)].computed = Colors
<1>. DEFINE s == EvaluateSide(st, White)
            t == EvaluateSide(s, Black)
            n == Size(st)
<1>1. Ready(s) /\ Grown(st, s) /\ White \in s.stack[n].computed
  BY EvaluateSideFacts DEF Colors
<1>. HIDE DEF s
<1>2. Size(s) = n /\ n \in Depths
  BY <1>1, SizeFacts DEF Grown, Size, Ready
<1>3. Ready(t) /\ Grown(s, t) /\ Black \in t.stack[n].computed
  BY <1>1, <1>2, EvaluateSideFacts DEF Colors
<1>. HIDE DEF t
<1>4. White \in t.stack[n].computed
  BY <1>1, <1>2, <1>3 DEF Grown
<1>5. t.stack[n].computed = Colors
  <2>1. t.stack[n].computed \subseteq Colors
    BY <1>2, <1>3 DEF Ready, Shape, Element
  <2>. QED
    BY <1>3, <1>4, <2>1 DEF Colors
<1>6. Evaluated(st) = t
  BY DEF Evaluated, s, t
<1>. QED
  BY <1>1, <1>3, <1>5, <1>6, GrownTwice

-------------------------------------------------------------------------------
(* A step sets its worker, but for what bounds the behaviour.              *)
Same(s, t) ==
  /\ t.line = s.line /\ t.boards = s.boards /\ t.stack = s.stack
     /\ t.cache = s.cache
  /\ t.net = s.net /\ t.searching = s.searching
  /\ t = WithStack(t, t.stack)

(* All that is stated of a worker is stated of these fields. *)
LEMMA SameReady ==
  ASSUME NEW s, NEW t, Same(s, t)
  PROVE  /\ Shape(s) => Shape(t)
         /\ CacheExact(s) => CacheExact(t)
         /\ Ready(s) => Ready(t)
         /\ Size(t) = Size(s)
<1>1. Shape(s) => Shape(t)
  <2>1. Shape(s) => s.stack = [i \in Depths |-> s.stack[i]]
    BY DEF Shape, WithStack
  <2>. QED
    BY <2>1 DEF Same, Shape
<1>2. CacheExact(s) => CacheExact(t)
  BY DEF Same, CacheExact
<1>3. Size(t) = Size(s)
  BY DEF Same, Size
<1>4. SoundLine(s) => SoundLine(t)
  BY <1>3 DEF Same, SoundLine
<1>5. Exact(s) => Exact(t)
  BY <1>3 DEF Same, Exact
<1>. QED
  BY <1>1, <1>2, <1>3, <1>4, <1>5 DEF Ready

(* A step sets these fields. *)
LEMMA GoesFacts ==
  ASSUME NEW st, st = WithStack(st, st.stack), NEW ev, Goes(st, ev)
  PROVE  Same(st, worker') /\ worker'.evaluated = ev
<1>. DEFINE k == worker.steps + 1
            u == [st EXCEPT !.steps = k]
<1>1. u = [line |-> st.line, boards |-> st.boards, stack |-> st.stack, cache |-> st.cache, net |-> st.net,
           searching |-> st.searching, evaluated |-> st.evaluated, steps |-> k]
  <2>. HIDE DEF k
  <2>. QED
    BY DEF WithStack
<1>2. worker' = [u EXCEPT !.evaluated = ev]
  BY DEF Goes
<1>. HIDE DEF u, k
<1>3. worker' = [line |-> st.line, boards |-> st.boards, stack |-> st.stack, cache |-> st.cache, net |-> st.net,
                 searching |-> st.searching, evaluated |-> ev, steps |-> k]
  BY <1>1, <1>2
<1>. QED
  BY <1>3 DEF Same, WithStack

(* What holds between calls: a search thread that searches has a sound     *)
(* line, all of whose computed accumulators are exact; the cache, which    *)
(* outlives searches, is exact throughout; and an evaluated worker         *)
(* searches and has both sides of its last accumulator.                    *)
AccInv ==
  /\ Shape(worker)
  /\ worker.line \in Lines
  /\ CacheExact(worker)
  /\ worker.searching => Ready(worker) /\ \E S : worker.boards \in Seq(S)
  /\ worker.evaluated => worker.searching
     /\ worker.stack[Size(worker)].computed = Colors

(* A worker starts idle, with an empty cache. *)
LEMMA AccInitInv == AccInit => AccInv
<1>. SUFFICES ASSUME AccInit PROVE AccInv
  OBVIOUS
<1>1. PICK l \in Lines :
        worker = [line |-> l, boards |-> << >>, stack |-> [i \in 1 .. MaxSize |-> Blank], cache |-> << >>,
                  net |-> 0, searching |-> FALSE, evaluated |-> FALSE, steps |-> 0]
  BY DEF AccInit
<1>2. Element(Blank)
  BY DEF Element, Blank
<1>3. Shape(worker)
  <2>1. worker.stack = [i \in Depths |-> Blank]
    BY <1>1 DEF Depths
  <2>2. worker = WithStack(worker, worker.stack)
    BY <1>1 DEF WithStack
  <2>3. worker.stack = [i \in Depths |-> worker.stack[i]]
    BY <2>1
  <2>. QED
    BY <1>2, <2>1, <2>2, <2>3 DEF Shape
<1>4. CacheExact(worker)
  <2>1. DOMAIN worker.cache = {}
    BY <1>1
  <2>. QED
    BY <2>1 DEF CacheExact
<1>5. worker.line \in Lines /\ ~worker.searching /\ ~worker.evaluated
  BY <1>1
<1>. QED
  BY <1>3, <1>4, <1>5 DEF AccInv

(* start_searching resets the first accumulator. *)
LEMMA StartSearchingStep == AccInv /\ StartSearching => AccInv'
<1>. SUFFICES ASSUME AccInv, StartSearching PROVE AccInv'
  OBVIOUS
<1>. DEFINE root == worker.line.root
            e == [Blank EXCEPT !.acc = worker.stack[1].acc]
            yes == TRUE
            s == [worker EXCEPT !.searching = yes]
            t == [s EXCEPT !.boards = <<root>>]
            u == [t EXCEPT !.stack[1] = e]
<1>1. Shape(worker) /\ worker = WithStack(worker, worker.stack)
      /\ worker.stack = [j \in Depths |-> worker.stack[j]]
      /\ 1 \in Depths /\ \A j \in Depths : Element(worker.stack[j])
  BY LinesAssumption DEF AccInv, Shape, WithStack, Depths, Parameters
<1>2. Element(e) /\ e.dirty = NoDirty /\ e.computed = {}
  <2>1. Element(worker.stack[1])
    BY <1>1
  <2>. DEFINE acc == worker.stack[1].acc
              none == [c \in Colors |-> << >>]
  <2>2. acc = [c \in Colors |-> acc[c]]
    BY <2>1 DEF Element
  <2>. HIDE DEF acc, none
  <2>3. Blank = [dirty |-> NoDirty, gone |-> {}, new |-> {}, computed |-> {}, acc |-> none]
    BY DEF Blank, none
  <2>4. e = [dirty |-> NoDirty, gone |-> {}, new |-> {}, computed |-> {}, acc |-> acc]
    BY <2>3 DEF acc
  <2>. HIDE DEF e
  <2>. QED
    BY <2>2, <2>4 DEF Element
<1>. HIDE DEF e, root, yes
<1>3. s = [line |-> worker.line, boards |-> worker.boards, stack |-> worker.stack, cache |-> worker.cache,
           net |-> worker.net, searching |-> yes, evaluated |-> worker.evaluated, steps |-> worker.steps]
  BY <1>1 DEF WithStack
<1>. HIDE DEF s
<1>4. t = [line |-> worker.line, boards |-> <<root>>, stack |-> worker.stack, cache |-> worker.cache,
           net |-> worker.net, searching |-> yes, evaluated |-> worker.evaluated, steps |-> worker.steps]
  BY <1>3
<1>. HIDE DEF t
<1>5. u = [line |-> worker.line, boards |-> <<root>>, stack |-> [worker.stack EXCEPT ![1] = e], cache |-> worker.cache,
           net |-> worker.net, searching |-> yes, evaluated |-> worker.evaluated, steps |-> worker.steps]
  BY <1>4
<1>6. Goes(u, FALSE)
  BY DEF StartSearching, e, root, s, t, yes
<1>. HIDE DEF u
<1>. DEFINE stack == [j \in Depths |-> IF j = 1 THEN e ELSE worker.stack[j]]
<1>7. [worker.stack EXCEPT ![1] = e] = stack
  BY <1>1
<1>. HIDE DEF stack
<1>8. /\ u.line = worker.line /\ u.boards = <<root>> /\ u.stack = stack
         /\ u.cache = worker.cache
      /\ u.net = worker.net /\ u.searching /\ u = WithStack(u, u.stack)
  BY <1>5, <1>7 DEF WithStack, yes
<1>9. Shape(u) /\ u.stack[1] = e
  <2>1. stack = [j \in Depths |-> stack[j]] /\ stack[1] = e
        /\ \A j \in Depths : Element(stack[j])
    BY <1>1, <1>2 DEF stack
  <2>. QED
    BY <1>8, <2>1 DEF Shape
<1>10. CacheExact(u)
  BY <1>8 DEF AccInv, CacheExact
<1>11. Size(u) = 1 /\ u.boards[1] = root /\ u.boards \in Seq({root})
  BY <1>8 DEF Size
<1>12. SoundLine(u)
  <2>1. BoardSound(root)
    BY LinesAssumption DEF Parameters, AccInv, root
  <2>2. \A i \in 1 .. 1 : i = 1
    OBVIOUS
  <2>3. 2 .. 1 = {}
    OBVIOUS
  <2>. QED
    BY <1>1, <1>2, <1>9, <1>11, <2>1, <2>2, <2>3 DEF SoundLine
<1>13. Exact(u)
  <2>1. \A i \in 1 .. 1 : i = 1
    OBVIOUS
  <2>. QED
    BY <1>2, <1>9, <1>11, <2>1 DEF Exact
<1>14. Same(u, worker') /\ worker'.evaluated = FALSE
  BY <1>6, <1>8, GoesFacts
<1>15. Ready(u)
  BY <1>9, <1>10, <1>12, <1>13 DEF Ready
<1>16. Shape(worker') /\ CacheExact(worker') /\ Ready(worker')
  BY <1>9, <1>10, <1>14, <1>15, SameReady
<1>17. worker'.line \in Lines /\ worker'.boards \in Seq({root})
  BY <1>8, <1>11, <1>14 DEF Same, AccInv
<1>. QED
  BY <1>14, <1>16, <1>17 DEF AccInv

(* The end of a search. *)
LEMMA StopSearchingStep == AccInv /\ StopSearching => AccInv'
<1>. SUFFICES ASSUME AccInv, StopSearching PROVE AccInv'
  OBVIOUS
<1>. DEFINE no == FALSE
            u == [worker EXCEPT !.searching = no]
<1>1. Shape(worker) /\ worker = WithStack(worker, worker.stack)
      /\ worker.stack = [j \in Depths |-> worker.stack[j]]
  BY DEF AccInv, Shape, WithStack
<1>2. Goes(u, FALSE)
  BY DEF StopSearching
<1>. HIDE DEF no
<1>3. u = [line |-> worker.line, boards |-> worker.boards, stack |-> worker.stack, cache |-> worker.cache,
           net |-> worker.net, searching |-> no, evaluated |-> worker.evaluated, steps |-> worker.steps]
  BY <1>1 DEF WithStack
<1>. HIDE DEF u
<1>4. /\ u.line = worker.line /\ u.stack = worker.stack /\ u.cache = worker.cache
      /\ u.net = worker.net /\ ~u.searching /\ u = WithStack(u, u.stack)
  BY <1>3 DEF WithStack, no
<1>5. Shape(u) /\ CacheExact(u)
  BY <1>1, <1>4 DEF AccInv, Shape, CacheExact
<1>6. Same(u, worker') /\ worker'.evaluated = FALSE
  BY <1>2, <1>4, GoesFacts
<1>7. Shape(worker') /\ CacheExact(worker')
  BY <1>5, <1>6, SameReady
<1>. QED
  BY <1>4, <1>6, <1>7 DEF Same, AccInv

(* clear empties the cache, so no entry of another network is left. *)
LEMMA ClearStep == ASSUME NEW net PROVE AccInv /\ Clear(net) => AccInv'
<1>. SUFFICES ASSUME AccInv, Clear(net) PROVE AccInv'
  OBVIOUS
<1>. DEFINE s == [worker EXCEPT !.net = net]
            u == [s EXCEPT !.cache = << >>]
<1>1. Shape(worker) /\ worker = WithStack(worker, worker.stack)
      /\ worker.stack = [j \in Depths |-> worker.stack[j]]
  BY DEF AccInv, Shape, WithStack
<1>2. s = [line |-> worker.line, boards |-> worker.boards, stack |-> worker.stack, cache |-> worker.cache,
           net |-> net, searching |-> worker.searching, evaluated |-> worker.evaluated, steps |-> worker.steps]
  BY <1>1 DEF WithStack
<1>3. Goes(u, FALSE) /\ ~worker.searching
  BY DEF Clear
<1>. HIDE DEF s
<1>4. u = [line |-> worker.line, boards |-> worker.boards, stack |-> worker.stack, cache |-> << >>, net |-> net,
           searching |-> worker.searching, evaluated |-> worker.evaluated, steps |-> worker.steps]
  BY <1>2
<1>. HIDE DEF u
<1>5. /\ u.line = worker.line /\ u.stack = worker.stack /\ DOMAIN u.cache = {}
      /\ ~u.searching /\ u = WithStack(u, u.stack)
  BY <1>3, <1>4 DEF WithStack
<1>6. Shape(u) /\ CacheExact(u)
  BY <1>1, <1>5 DEF AccInv, Shape, CacheExact
<1>7. Same(u, worker') /\ worker'.evaluated = FALSE
  BY <1>3, <1>5, GoesFacts
<1>8. Shape(worker') /\ CacheExact(worker')
  BY <1>6, <1>7, SameReady
<1>. QED
  BY <1>5, <1>7, <1>8 DEF Same, AccInv

(* do_move: the accumulator of the move is not computed, and records how its *)
(* board differs from the one before.                                      *)
LEMMA PushStep == ASSUME NEW d \in worker.line.moves PROVE AccInv /\ Push(d)
=> AccInv'
<1>. SUFFICES ASSUME AccInv, Push(d) PROVE AccInv'
  OBVIOUS
<1>. DEFINE n == Size(worker)
            m == n + 1
            b == Board(worker)
            next == Applied(b, d)
            boards == Append(worker.boards, next)
            new == Threats(next) \ Threats(b)
            gone == Threats(b) \ Threats(next)
            none == {}
            e0 == worker.stack[m]
            e1 == [e0 EXCEPT !.dirty = d]
            e2 == [e1 EXCEPT !.computed = none]
            e3 == [e2 EXCEPT !.new = new]
            e4 == [e3 EXCEPT !.gone = gone]
            s == [worker EXCEPT !.boards = boards]
            u == [s EXCEPT !.stack[m] = e4]
<1>0. worker = WithStack(worker, worker.stack)
  BY DEF AccInv, Shape, WithStack
<1>1. /\ Shape(worker) /\ worker.stack = [j \in Depths |-> worker.stack[j]]
      /\ \A j \in Depths : Element(worker.stack[j])
      /\ SoundLine(worker) /\ Exact(worker) /\ CacheExact(worker)
         /\ \E S : worker.boards \in Seq(S)
      /\ worker.searching /\ worker.line \in Lines
  BY DEF AccInv, Push, Ready, Shape, WithStack
<1>2. n < MaxSize /\ Fits(b, d) /\ Goes(u, FALSE)
  BY DEF Push
<1>3. /\ n \in Int /\ n \in Depths /\ 1 .. n \subseteq Depths /\ n \in 1 .. n
         /\ b = worker.boards[n]
      /\ BoardSound(b) /\ 1 <= n
  <2>1. /\ n \in Int /\ n \in Depths /\ 1 .. n \subseteq Depths /\ n \in 1 .. n
           /\ b = worker.boards[n]
    BY <1>1, SizeFacts
  <2>. HIDE DEF n, b
  <2>2. BoardSound(b)
    BY <1>1, <2>1 DEF SoundLine, n
  <2>. QED
    BY <2>1, <2>2
<1>4. m \in Depths /\ m \in Int /\ n = m - 1 /\ m # 1
  <2>. HIDE DEF n
  <2>. QED
    BY <1>2, <1>3, LinesAssumption DEF Depths, Parameters
<1>5. MoveSound(d)
  BY <1>1, LinesAssumption DEF Parameters
<1>6. Element(e4) /\ e4.dirty = d /\ e4.new = new /\ e4.gone = gone
      /\ e4.computed = {}
  <2>. HIDE DEF m, n
  <2>0. Element(e0)
    BY <1>1, <1>4
  <2>. HIDE DEF e0, none, new, gone
  <2>1. e0 = [dirty |-> e0.dirty, gone |-> e0.gone, new |-> e0.new, computed |-> e0.computed, acc |-> e0.acc]
        /\ e0.acc = [c \in Colors |-> e0.acc[c]]
    BY <2>0 DEF Element
  <2>2. e1 = [dirty |-> d, gone |-> e0.gone, new |-> e0.new, computed |-> e0.computed, acc |-> e0.acc]
    BY <2>1
  <2>. HIDE DEF e1
  <2>3. e2 = [dirty |-> d, gone |-> e0.gone, new |-> e0.new, computed |-> none, acc |-> e0.acc]
    BY <2>2
  <2>. HIDE DEF e2
  <2>4. e3 = [dirty |-> d, gone |-> e0.gone, new |-> new, computed |-> none, acc |-> e0.acc]
    BY <2>3
  <2>. HIDE DEF e3
  <2>5. e4 = [dirty |-> d, gone |-> gone, new |-> new, computed |-> none, acc |-> e0.acc]
    BY <2>4
  <2>. HIDE DEF e4
  <2>. QED
    BY <2>1, <2>5 DEF Element, none
<1>. HIDE DEF e4, next, m, new, gone
<1>7. /\ Len(boards) = m /\ boards[m] = next
         /\ \A i \in 1 .. n : boards[i] = worker.boards[i]
      /\ \E S : boards \in Seq(S)
  <2>1. PICK S : worker.boards \in Seq(S)
    BY <1>1
  <2>2. worker.boards \in Seq(S \cup {next})
    BY <2>1
  <2>3. boards \in Seq(S \cup {next})
    BY <2>2
  <2>4. Len(boards) = m /\ boards[m] = next
        /\ \A i \in 1 .. n : boards[i] = worker.boards[i]
    BY <2>2 DEF m, Size
  <2>. QED
    BY <2>3, <2>4
<1>. HIDE DEF boards
<1>8. s = [line |-> worker.line, boards |-> boards, stack |-> worker.stack, cache |-> worker.cache,
           net |-> worker.net, searching |-> worker.searching, evaluated |-> worker.evaluated, steps |-> worker.steps]
  BY <1>0 DEF WithStack
<1>. HIDE DEF s
<1>9. u = [line |-> worker.line, boards |-> boards, stack |-> [worker.stack EXCEPT ![m] = e4], cache |-> worker.cache,
           net |-> worker.net, searching |-> worker.searching, evaluated |-> worker.evaluated, steps |-> worker.steps]
  BY <1>8
<1>. HIDE DEF u
<1>. DEFINE stack == [j \in Depths |-> IF j = m THEN e4 ELSE worker.stack[j]]
<1>10. [worker.stack EXCEPT ![m] = e4] = stack
  BY <1>1
<1>. HIDE DEF stack
<1>11. /\ u.line = worker.line /\ u.boards = boards /\ u.stack = stack
          /\ u.cache = worker.cache
       /\ u.net = worker.net /\ u.searching = worker.searching
          /\ u = WithStack(u, u.stack)
  BY <1>9, <1>10 DEF WithStack
<1>12. /\ Shape(u) /\ u.stack[m] = e4 /\ Size(u) = m
       /\ \A j \in Depths : j # m => u.stack[j] = worker.stack[j]
  <2>1. stack = [j \in Depths |-> stack[j]] /\ stack[m] = e4
        /\ \A j \in Depths : Element(stack[j])
    BY <1>1, <1>4, <1>6 DEF stack
  <2>2. \A j \in Depths : j # m => stack[j] = worker.stack[j]
    BY DEF stack
  <2>. QED
    BY <1>7, <1>11, <2>1, <2>2 DEF Shape, Size
<1>13. CacheExact(u)
  BY <1>1, <1>11 DEF CacheExact
<1>. HIDE DEF n
<1>14. \A i \in 1 .. m : i = m \/ (i \in 1 .. n /\ i # m /\ i \in Depths)
  <2>1. \A i \in 1 .. m : i = m \/ (i \in 1 .. n /\ i # m)
    BY ONLY <1>3, <1>4
  <2>. QED
    BY <1>3, <2>1
<1>15. SoundLine(u)
  <2>1. BoardSound(next)
    <3>. HIDE DEF b
    <3>. QED
      BY <1>2, <1>3, <1>5, AppliedKings DEF next
  <2>2. \A i \in 1 .. m : BoardSound(u.boards[i])
    BY <1>1, <1>7, <1>11, <1>14, <2>1 DEF SoundLine, n
  <2>3. 1 \in Depths /\ u.stack[1].dirty = NoDirty
    BY <1>1, <1>4, <1>12, LinesAssumption DEF SoundLine, Depths, Parameters
  <2>4. ASSUME NEW i \in 2 .. m
        PROVE Between(u.boards[i - 1], u.boards[i], u.stack[i])
    <3>1. CASE i = m
      <4>1. u.boards[i - 1] = b /\ u.boards[i] = next /\ u.stack[i] = e4
        BY <1>3, <1>4, <1>7, <1>11, <1>12, <3>1
      <4>. HIDE DEF b
      <4>. QED
        BY <1>2, <1>3, <1>5, <1>6, <4>1 DEF Between, next, new, gone
    <3>2. CASE i # m
      <4>1. i \in 2 .. n /\ i - 1 \in 1 .. n /\ i \in 1 .. n
        BY <1>3, <1>4, <3>2
      <4>2. u.boards[i - 1] = worker.boards[i - 1]
            /\ u.boards[i] = worker.boards[i] /\ u.stack[i] = worker.stack[i]
        BY <1>3, <1>7, <1>11, <1>12, <3>2, <4>1
      <4>. QED
        BY <1>1, <4>1, <4>2 DEF SoundLine, n
    <3>. QED
      BY <3>1, <3>2
  <2>. QED
    BY <1>4, <1>12, <2>2, <2>3, <2>4 DEF SoundLine
<1>16. Exact(u)
  <2>. SUFFICES ASSUME NEW i \in 1 .. m, NEW c \in u.stack[i].computed
                PROVE  u.stack[i].acc[c] = FromScratch(u.net, c, u.boards[i])
    BY <1>12 DEF Exact
  <2>1. i \in 1 .. n /\ i # m /\ i \in Depths
    BY <1>6, <1>12, <1>14
  <2>2. u.stack[i] = worker.stack[i] /\ u.boards[i] = worker.boards[i]
    BY <1>7, <1>11, <1>12, <2>1
  <2>3. c \in worker.stack[i].computed /\ u.net = worker.net
    BY <1>11, <2>2
  <2>4. worker.stack[i].acc[c] = FromScratch(worker.net, c, worker.boards[i])
    BY <1>1, <2>1, <2>3 DEF Exact, n
  <2>. QED
    BY <2>2, <2>3, <2>4
<1>17. Same(u, worker') /\ worker'.evaluated = FALSE
  BY <1>2, <1>11, GoesFacts
<1>18. Ready(u)
  BY <1>12, <1>13, <1>15, <1>16 DEF Ready
<1>19. Shape(worker') /\ CacheExact(worker') /\ Ready(worker')
  BY <1>12, <1>13, <1>17, <1>18, SameReady
<1>20. worker'.line \in Lines /\ \E S : worker'.boards \in Seq(S)
  BY <1>1, <1>7, <1>11, <1>17 DEF Same
<1>. QED
  BY <1>17, <1>19, <1>20 DEF AccInv

(* undo_move: the line is shorter by one. *)
LEMMA PopStep == AccInv /\ Pop => AccInv'
<1>. SUFFICES ASSUME AccInv, Pop PROVE AccInv'
  OBVIOUS
<1>. DEFINE n == Size(worker)
            m == n - 1
            boards == SubSeq(worker.boards, 1, m)
            u == [worker EXCEPT !.boards = boards]
<1>0. worker = WithStack(worker, worker.stack)
  BY DEF AccInv, Shape, WithStack
<1>1. /\ Shape(worker) /\ SoundLine(worker) /\ Exact(worker)
         /\ CacheExact(worker) /\ \E S : worker.boards \in Seq(S)
      /\ worker.searching /\ worker.line \in Lines
  BY DEF AccInv, Pop, Ready, Shape, WithStack
<1>2. n > 1 /\ Goes(u, FALSE)
  BY DEF Pop
<1>3. n \in Int /\ n \in Depths
  BY <1>1, SizeFacts
<1>4. m \in Depths /\ m \in 1 .. n
  <2>. HIDE DEF n
  <2>. QED
    BY <1>2, <1>3, LinesAssumption DEF Depths, Parameters
<1>5. 1 .. m \subseteq 1 .. n /\ 2 .. m \subseteq 2 .. n
      /\ \A i \in 2 .. m : i - 1 \in 1 .. m /\ i \in 1 .. m
  <2>. HIDE DEF n
  <2>. QED
    BY <1>2, <1>3
<1>6. Len(boards) = m /\ (\A i \in 1 .. m : boards[i] = worker.boards[i])
      /\ \E S : boards \in Seq(S)
  <2>1. PICK S : worker.boards \in Seq(S)
    BY <1>1
  <2>2. n = Len(worker.boards) /\ n \in Nat
    BY <2>1 DEF Size
  <2>. HIDE DEF n
  <2>3. m \in Nat /\ m <= n
    BY <1>2, <1>3, <2>2
  <2>. HIDE DEF m
  <2>4. boards = [i \in 1 .. m |-> worker.boards[i]]
    BY <2>3
  <2>5. \A i \in 1 .. m : worker.boards[i] \in S
    BY <1>5, <2>1, <2>2
  <2>. HIDE DEF boards
  <2>6. boards \in Seq(S) /\ Len(boards) = m
    BY <2>3, <2>4, <2>5
  <2>. QED
    BY <2>4, <2>6
<1>. HIDE DEF boards
<1>7. u = [line |-> worker.line, boards |-> boards, stack |-> worker.stack, cache |-> worker.cache,
           net |-> worker.net, searching |-> worker.searching, evaluated |-> worker.evaluated, steps |-> worker.steps]
  BY <1>0 DEF WithStack
<1>. HIDE DEF u
<1>8. /\ u.line = worker.line /\ u.boards = boards /\ u.stack = worker.stack
         /\ u.cache = worker.cache
      /\ u.net = worker.net /\ u.searching = worker.searching
         /\ u = WithStack(u, u.stack)
  BY <1>7 DEF WithStack
<1>9. Shape(u) /\ CacheExact(u) /\ Size(u) = m
  <2>1. worker.stack = [j \in Depths |-> worker.stack[j]]
        /\ \A j \in Depths : Element(worker.stack[j])
    BY <1>1 DEF Shape, WithStack
  <2>2. Shape(u)
    BY <1>8, <2>1 DEF Shape
  <2>3. CacheExact(u)
    BY <1>1, <1>8 DEF CacheExact
  <2>. QED
    BY <1>6, <1>8, <2>2, <2>3 DEF Size
<1>10. SoundLine(u)
  <2>. HIDE DEF m
  <2>1. \A i \in 1 .. m : BoardSound(u.boards[i])
    BY <1>1, <1>5, <1>6, <1>8 DEF SoundLine
  <2>2. u.stack[1].dirty = NoDirty
    BY <1>1, <1>8 DEF SoundLine
  <2>3. ASSUME NEW i \in 2 .. m
        PROVE Between(u.boards[i - 1], u.boards[i], u.stack[i])
    <3>1. i \in 2 .. n /\ u.boards[i - 1] = worker.boards[i - 1]
          /\ u.boards[i] = worker.boards[i]
      BY <1>5, <1>6, <1>8
    <3>. QED
      BY <1>1, <1>8, <3>1 DEF SoundLine
  <2>. QED
    BY <1>4, <1>9, <2>1, <2>2, <2>3 DEF SoundLine
<1>11. Exact(u)
  <2>. HIDE DEF m
  <2>. SUFFICES ASSUME NEW i \in 1 .. m, NEW c \in u.stack[i].computed
                PROVE  u.stack[i].acc[c] = FromScratch(u.net, c, u.boards[i])
    BY <1>9 DEF Exact
  <2>. QED
    BY <1>1, <1>5, <1>6, <1>8 DEF Exact
<1>12. Same(u, worker') /\ worker'.evaluated = FALSE
  BY <1>2, <1>8, GoesFacts
<1>13. Ready(u)
  BY <1>9, <1>10, <1>11 DEF Ready
<1>14. Shape(worker') /\ CacheExact(worker') /\ Ready(worker')
  BY <1>9, <1>12, <1>13, SameReady
<1>15. worker'.line \in Lines /\ \E S : worker'.boards \in Seq(S)
  BY <1>1, <1>6, <1>8, <1>12 DEF Same
<1>. QED
  BY <1>12, <1>14, <1>15 DEF AccInv

(* evaluate. *)
LEMMA EvaluateStep == AccInv /\ Evaluate => AccInv'
<1>. SUFFICES ASSUME AccInv, Evaluate PROVE AccInv'
  OBVIOUS
<1>. DEFINE u == Evaluated(worker)
<1>1. Ready(worker) /\ worker.searching /\ worker.line \in Lines
      /\ \E S : worker.boards \in Seq(S)
  BY DEF AccInv, Evaluate
<1>2. Goes(u, TRUE)
  BY DEF Evaluate
<1>3. Ready(u) /\ Grown(worker, u) /\ u.stack[Size(worker)].computed = Colors
  BY <1>1, EvaluatedFacts
<1>. HIDE DEF u
<1>4. u = WithStack(u, u.stack)
  BY <1>3 DEF Ready, Shape, WithStack
<1>5. Same(u, worker') /\ worker'.evaluated = TRUE
  BY <1>2, <1>4, GoesFacts
<1>6. Ready(worker')
  BY <1>3, <1>5, SameReady
<1>7. /\ worker'.line \in Lines /\ worker'.boards = worker.boards
         /\ worker'.searching = worker.searching
      /\ worker'.stack = u.stack
  BY <1>1, <1>3, <1>5 DEF Same, Grown
<1>8. worker'.stack[Size(worker')].computed = Colors
  BY <1>3, <1>7 DEF Size
<1>. QED
  BY <1>1, <1>6, <1>7, <1>8 DEF AccInv, Ready

(* Every step. *)
LEMMA AccNextInv == AccInv /\ [AccNext]_worker => AccInv'
<1>. SUFFICES ASSUME AccInv, [AccNext]_worker PROVE AccInv'
  OBVIOUS
<1>1. CASE StartSearching
  BY <1>1, StartSearchingStep
<1>2. CASE StopSearching
  BY <1>2, StopSearchingStep
<1>3. ASSUME NEW net \in {worker.net, 1}, Clear(net) PROVE AccInv'
  BY <1>3, ClearStep
<1>4. ASSUME NEW d \in worker.line.moves, Push(d) PROVE AccInv'
  BY <1>4, PushStep
<1>5. CASE Pop
  BY <1>5, PopStep
<1>6. CASE Evaluate
  BY <1>6, EvaluateStep
<1>7. CASE UNCHANGED worker
  BY <1>7 DEF AccInv
<1>. QED
  BY <1>1, <1>2, <1>3, <1>4, <1>5, <1>6, <1>7 DEF AccNext

(* The invariant holds of every reachable worker. *)
THEOREM AccInvariance == AccSpec => []AccInv
<1>. QED
  BY AccInitInv, AccNextInv, PTL DEF AccSpec

(* AccumulatorsExact: whatever mixture of neighbours, caches and both an   *)
(* accumulator came from, it is the sum over the features of its own       *)
(* position; every cache entry is the sum over the pieces it remembers; and *)
(* evaluate leaves both sides of the last one up to date.                  *)
THEOREM Exactness == AccSpec => []AccumulatorsExact
<1>1. AccInv => AccumulatorsExact
  BY DEF AccInv, AccumulatorsExact, Ready, Exact, CacheExact
<1>. QED
  BY <1>1, AccInvariance, PTL
=================================================================================
