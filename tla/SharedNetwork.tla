---------------------------- MODULE SharedNetwork ----------------------------
(***************************************************************************)
(* How engine processes of one user share one copy of a network:           *)
(* SharedMemory (shm_unix.h), SystemWideSharedConstant (shm.h) and the     *)
(* instances of LazyNumaReplicatedSystemWide (numa.h), for one content,    *)
(* one executable and one discriminator, that is, for one shared_dir_.     *)
(*                                                                         *)
(* A process has an instance per NUMA index of its configuration.  Several *)
(* indices may have the same discriminator (L3 domains of one NUMA node),  *)
(* and so the same directory and, since its name is the process id, the    *)
(* same socket path.                                                       *)
(*                                                                         *)
(* A process opens and destroys one instance at a time: the mutex of       *)
(* ensure_present, and the UCI thread that replaces a network only while   *)
(* no thread searches (QuietReconfiguration of SearchControl).             *)
(***************************************************************************)
EXTENDS Naturals

CONSTANTS Proc,       \* process ids; an id may be used again
          NumSlots,   \* NUMA indices with one discriminator
          MaxOpens    \* bound: calls of open

ASSUME SharedAssumption == /\ NumSlots \in Nat \ {0}
                           /\ MaxOpens \in Nat
                           /\ 0 \notin Proc

VARIABLES pc,     \* where each process is in open, the destructors or exit
          cur,    \* ... the instance it is at
          kind,   \* each instance: "none", "shared", or "local" (the fallback)
          mem,    \* ... mapped_ptr_, as the image mapped, or 0
          served, \* ... the memfd its server thread hands out, or 0
          path,   \* the instance whose socket each process's .sock file is,
                  \* which nobody may listen to any more, or NoFile
          lock,   \* who holds the flock on init_lock, or 0
          peers,  \* the .sock files an opening process has yet to try
          peer,   \* the one it is trying
          link,   \* the instance of `peer` it is connected to
          fd,     \* the memfd it has received or created, or 0
          filled, \* what is in each memfd: "raw", "half", "full"
          images, \* memfds created so far
          opens,  \* calls of open so far
          late,   \* a peer was too slow, or not asked, once
          failed  \* an open failed once

opening == <<peers, peer, link, fd>>
shared  == <<lock, filled, images>>
history == <<opens, late, failed>>
vars == <<pc, cur, kind, mem, served, path, lock, peers, peer, link, fd,
          filled, images, opens, late, failed>>

Slots  == 0 .. NumSlots - 1
Images == 1 .. MaxOpens
NoFile == NumSlots

(* Places in open() that hold the init lock. *)
Locked == {"peers", "dead", "receive", "fill", "map", "bind"}

Init ==
  /\ pc = [p \in Proc |-> "down"] /\ cur = [p \in Proc |-> 0]
  /\ kind = [p \in Proc |-> [s \in Slots |-> "none"]]
  /\ mem = [p \in Proc |-> [s \in Slots |-> 0]]
  /\ served = [p \in Proc |-> [s \in Slots |-> 0]]
  /\ path = [p \in Proc |-> NoFile]
  /\ lock = 0
  /\ peers = [p \in Proc |-> {}] /\ peer = [p \in Proc |-> p]
  /\ link = [p \in Proc |-> 0] /\ fd = [p \in Proc |-> 0]
  /\ filled = [n \in Images |-> "raw"] /\ images = 0
  /\ opens = 0 /\ late = FALSE /\ failed = FALSE

Goto(p, place) == pc' = [pc EXCEPT ![p] = place]

(* The end of a call: its locals are gone. *)
Return(p) ==
  /\ Goto(p, "idle")
  /\ cur' = [cur EXCEPT ![p] = 0] /\ peers' = [peers EXCEPT ![p] = {}]
  /\ peer' = [peer EXCEPT ![p] = p] /\ link' = [link EXCEPT ![p] = 0]
  /\ fd' = [fd EXCEPT ![p] = 0]
-----------------------------------------------------------------------------
(* open(), called for the instance at index 0 by prepare_replicate_from    *)
(* and for the others by ensure_present.                                   *)

BeginOpen(p) ==
  /\ pc[p] = "idle" /\ opens < MaxOpens
  /\ opens' = opens + 1
  /\ \E s \in Slots :
       /\ kind[p][s] = "none" /\ (s # 0 => kind[p][0] # "none")
       /\ cur' = [cur EXCEPT ![p] = s]
  /\ Goto(p, "lock")
  /\ UNCHANGED <<kind, mem, served, path, opening, shared, late, failed>>

(* Mutant: the lock does not exclude. *)
GetLockAnyway(p) ==
  /\ pc[p] = "lock"
  /\ lock' = p
  /\ peers' = [peers EXCEPT ![p] = {q \in Proc : path[q] # NoFile}]
  /\ Goto(p, "peers")
  /\ UNCHANGED <<cur, kind, mem, served, path, peer, link, fd, filled, images, history>>

(* flock, and the list of peers in the directory. *)
GetLock(p) ==
  /\ pc[p] = "lock" /\ lock = 0
  /\ lock' = p
  /\ peers' = [peers EXCEPT ![p] = {q \in Proc : path[q] # NoFile}]
  /\ Goto(p, "peers")
  /\ UNCHANGED <<cur, kind, mem, served, path, peer, link, fd, filled, images, history>>

Listening(q) == path[q] # NoFile /\ served[q][path[q]] # 0

(* try_receive_memfd: connect to a peer. *)
Connect(p) ==
  /\ pc[p] = "peers"
  /\ \E q \in peers[p] :
       /\ Listening(q)
       /\ peers' = [peers EXCEPT ![p] = @ \ {q}]
       /\ peer' = [peer EXCEPT ![p] = q]
       /\ link' = [link EXCEPT ![p] = path[q]]
  /\ Goto(p, "receive")
  /\ UNCHANGED <<cur, kind, mem, served, path, fd, shared, history>>

(* ... which is refused: ECONNREFUSED, ENOENT. *)
Refused(p) ==
  /\ pc[p] = "peers"
  /\ \E q \in peers[p] :
       /\ ~Listening(q)
       /\ peers' = [peers EXCEPT ![p] = @ \ {q}]
       /\ peer' = [peer EXCEPT ![p] = q]
  /\ Goto(p, "dead")
  /\ UNCHANGED <<cur, kind, mem, served, path, link, fd, shared, history>>

(* Clean up after the dead peer. *)
Remove(p) ==
  /\ pc[p] = "dead"
  /\ path' = [path EXCEPT ![peer[p]] = NoFile]
  /\ Goto(p, "peers")
  /\ UNCHANGED <<cur, kind, mem, served, opening, shared, history>>

(* recvmsg: the descriptor. *)
Receive(p) ==
  /\ pc[p] = "receive" /\ fd[p] # 0
  /\ Goto(p, "map")
  /\ UNCHANGED <<cur, kind, mem, served, path, opening, shared, history>>

(* ... or a hangup, when the server is gone. *)
HungUp(p) ==
  /\ pc[p] = "receive" /\ fd[p] = 0 /\ served[peer[p]][link[p]] = 0
  /\ Goto(p, "peers")
  /\ UNCHANGED <<cur, kind, mem, served, path, opening, shared, history>>

(* Mutant: a peer that is late is taken for dead. *)
TimeOutAsDead(p) ==
  /\ pc[p] = "receive" /\ fd[p] = 0 /\ served[peer[p]][link[p]] # 0
  /\ Goto(p, "dead")
  /\ late' = TRUE
  /\ UNCHANGED <<cur, kind, mem, served, path, opening, shared, opens, failed>>

(* SO_RCVTIMEO: a second has passed since the connection. *)
TimeOut(p) ==
  /\ pc[p] = "receive" /\ fd[p] = 0 /\ served[peer[p]][link[p]] # 0
  /\ Goto(p, "peers")
  /\ late' = TRUE
  /\ UNCHANGED <<cur, kind, mem, served, path, opening, shared, opens, failed>>

(* A peer is not even connected to: no socket, or its backlog is full. *)
PassOver(p) ==
  /\ pc[p] = "peers"
  /\ \E q \in peers[p] : peers' = [peers EXCEPT ![p] = @ \ {q}]
  /\ late' = TRUE
  /\ UNCHANGED <<pc, cur, kind, mem, served, path, peer, link, fd, shared, opens, failed>>

(* No peer, or none that answers: memfd_create and ftruncate. *)
Create(p) ==
  /\ pc[p] = "peers" /\ peers[p] = {} /\ images < MaxOpens
  /\ images' = images + 1
  /\ fd' = [fd EXCEPT ![p] = images + 1]
  /\ Goto(p, "fill")
  /\ UNCHANGED <<cur, kind, mem, served, path, lock, peers, peer, link, filled, history>>

(* Mutant: the image is served before it is written to the end. *)
FillHalf(p) ==
  /\ pc[p] = "fill"
  /\ mem' = [mem EXCEPT ![p][cur[p]] = fd[p]]
  /\ filled' = [filled EXCEPT ![fd[p]] = "half"]
  /\ Goto(p, "bind")
  /\ UNCHANGED <<cur, kind, served, path, lock, opening, images, history>>

(* *mapped_mem = initial_value, which is long: another process might look  *)
(* at the memory in the middle of it.                                      *)
Fill(p) ==
  /\ pc[p] = "fill"
  /\ mem' = [mem EXCEPT ![p][cur[p]] = fd[p]]
  /\ filled' = [filled EXCEPT ![fd[p]] = IF @ = "raw" THEN "half" ELSE "full"]
  /\ Goto(p, IF filled[fd[p]] = "raw" THEN "fill" ELSE "bind")
  /\ UNCHANGED <<cur, kind, served, path, lock, opening, images, history>>

(* A process that received the memfd maps it as it is. *)
Map(p) ==
  /\ pc[p] = "map"
  /\ mem' = [mem EXCEPT ![p][cur[p]] = fd[p]]
  /\ Goto(p, "bind")
  /\ UNCHANGED <<cur, kind, served, path, opening, shared, history>>

(* unlink, bind and listen, the server thread, and the end of the scope of *)
(* the lock: is_valid() holds and the constant uses the shared image.      *)
Bind(p) ==
  /\ pc[p] = "bind"
  /\ path' = [path EXCEPT ![p] = cur[p]]
  /\ served' = [served EXCEPT ![p][cur[p]] = fd[p]]
  /\ kind' = [kind EXCEPT ![p][cur[p]] = "shared"]
  /\ lock' = 0
  /\ Return(p)
  /\ UNCHANGED <<mem, filled, images, history>>

(* The lock when p lets go of what it has.  Mutant: a lock file stays. *)
LockStays(p) == IF pc[p] \in Locked THEN p ELSE lock
LockWithout(p) == IF lock = p THEN 0 ELSE lock

(* Any system call of open may fail: it returns false, which ends the      *)
(* scope of the lock.                                                      *)
FailOpen(p) ==
  /\ \/ pc[p] \in {"lock", "map", "bind"}
     \/ pc[p] = "peers" /\ peers[p] = {}
     \/ pc[p] = "fill" /\ filled[fd[p]] = "raw"
  /\ lock' = LockWithout(p)
  /\ fd' = [fd EXCEPT ![p] = 0]
  /\ failed' = TRUE
  /\ Goto(p, "discard")
  /\ UNCHANGED <<cur, kind, mem, served, path, peers, peer, link, filled,
                 images, opens, late>>

(* The destructor of what could not be opened, and the fallback: a copy of *)
(* the process's own.  The socket path is removed whoever it leads to.     *)
Discard(p) ==
  /\ pc[p] = "discard"
  /\ mem' = [mem EXCEPT ![p][cur[p]] = 0]
  /\ path' = [path EXCEPT ![p] = NoFile]
  /\ kind' = [kind EXCEPT ![p][cur[p]] = "local"]
  /\ Return(p)
  /\ UNCHANGED <<served, shared, history>>
-----------------------------------------------------------------------------
(* The server thread of instance s of q answers process p. *)
Serve(q, s, p) ==
  /\ served[q][s] # 0
  /\ pc[p] = "receive" /\ peer[p] = q /\ link[p] = s /\ fd[p] = 0
  /\ fd' = [fd EXCEPT ![p] = served[q][s]]
  /\ UNCHANGED <<pc, cur, kind, mem, served, path, peers, peer, link, shared, history>>
-----------------------------------------------------------------------------
(* instances.clear(): destructors in the order of the vector.              *)

BeginClear(p) ==
  /\ pc[p] = "idle" /\ kind[p][0] # "none"
  /\ cur' = [cur EXCEPT ![p] = 0]
  /\ Goto(p, "unmap")
  /\ UNCHANGED <<kind, mem, served, path, opening, shared, history>>

(* unmap_region. *)
Unmap(p) ==
  /\ pc[p] = "unmap"
  /\ mem' = [mem EXCEPT ![p][cur[p]] = 0]
  /\ Goto(p, "unlink")
  /\ UNCHANGED <<cur, kind, served, path, opening, shared, history>>

(* unlink, unless the instance is a fallback or was never opened. *)
Unlink(p) ==
  /\ pc[p] = "unlink"
  /\ path' = [path EXCEPT ![p] = IF kind[p][cur[p]] = "shared" THEN NoFile ELSE @]
  /\ Goto(p, "join")
  /\ UNCHANGED <<cur, kind, mem, served, opening, shared, history>>

Joined(p) ==
  /\ served' = [served EXCEPT ![p][cur[p]] = 0]
  /\ kind' = [kind EXCEPT ![p][cur[p]] = "none"]

(* Mutant: one step beyond the end of the vector. *)
JoinServerAndOn(p) ==
  /\ pc[p] = "join"
  /\ Joined(p)
  /\ cur' = [cur EXCEPT ![p] = @ + 1]
  /\ Goto(p, "unmap")
  /\ UNCHANGED <<mem, path, opening, shared, history>>

(* shutdown_.reset() and join(), then the next element. *)
JoinServer(p) ==
  /\ pc[p] = "join" /\ cur[p] + 1 \in Slots
  /\ Joined(p)
  /\ cur' = [cur EXCEPT ![p] = @ + 1]
  /\ Goto(p, "unmap")
  /\ UNCHANGED <<mem, path, opening, shared, history>>

(* ... or, after the last one, the end of clear. *)
JoinLast(p) ==
  /\ pc[p] = "join" /\ cur[p] + 1 \notin Slots
  /\ Joined(p)
  /\ Return(p)
  /\ UNCHANGED <<mem, path, shared, history>>

(* std::exit: cleanup_at_exit closes the registered instances but unmaps   *)
(* nothing, since threads may still search; the servers may serve on.      *)
AtExit(p) ==
  /\ pc[p] = "idle"
  /\ path' = [path EXCEPT ![p] =
                IF \E s \in Slots : kind[p][s] = "shared" THEN NoFile ELSE @]
  /\ Goto(p, "exit")
  /\ UNCHANGED <<cur, kind, mem, served, opening, shared, history>>
-----------------------------------------------------------------------------
(* The operating system: processes start, and end, orderly or killed at    *)
(* any point; what they held is closed, and a socket file is left behind.  *)

Start(p) ==
  /\ pc[p] = "down"
  /\ Goto(p, "idle")
  /\ UNCHANGED <<cur, kind, mem, served, path, opening, shared, history>>

Die(p) ==
  /\ pc[p] # "down"
  /\ Goto(p, "down")
  /\ cur' = [cur EXCEPT ![p] = 0]
  /\ kind' = [kind EXCEPT ![p] = [s \in Slots |-> "none"]]
  /\ mem' = [mem EXCEPT ![p] = [s \in Slots |-> 0]]
  /\ served' = [served EXCEPT ![p] = [s \in Slots |-> 0]]
  /\ lock' = LockWithout(p)
  /\ peers' = [peers EXCEPT ![p] = {}] /\ peer' = [peer EXCEPT ![p] = p]
  /\ link' = [link EXCEPT ![p] = 0] /\ fd' = [fd EXCEPT ![p] = 0]
  /\ UNCHANGED <<path, filled, images, history>>

OpenStep(p) == \/ GetLock(p) \/ Connect(p) \/ Refused(p) \/ Remove(p)
               \/ Receive(p) \/ HungUp(p) \/ TimeOut(p) \/ PassOver(p)
               \/ Create(p) \/ Fill(p) \/ Map(p) \/ Bind(p) \/ Discard(p)

CloseStep(p) == Unmap(p) \/ Unlink(p) \/ JoinServer(p) \/ JoinLast(p)

Next == \E p \in Proc :
          \/ OpenStep(p) \/ FailOpen(p) \/ CloseStep(p)
          \/ BeginOpen(p) \/ BeginClear(p) \/ AtExit(p) \/ Start(p) \/ Die(p)
          \/ \E q \in Proc, s \in Slots : Serve(q, s, p)

(* The scheduler runs every process that is inside open or a destructor. *)
Spec == /\ Init /\ [][Next]_vars
        /\ \A p \in Proc : WF_vars(OpenStep(p)) /\ WF_vars(CloseStep(p))
-----------------------------------------------------------------------------
TypeOK ==
  /\ pc \in [Proc -> Locked \cup {"down", "idle", "lock", "discard", "unmap",
                                 "unlink", "join", "exit"}]
  /\ cur \in [Proc -> Slots]
  /\ kind \in [Proc -> [Slots -> {"none", "shared", "local"}]]
  /\ mem \in [Proc -> [Slots -> Images \cup {0}]]
  /\ served \in [Proc -> [Slots -> Images \cup {0}]]
  /\ path \in [Proc -> Slots \cup {NoFile}]
  /\ lock \in Proc \cup {0}
  /\ peers \in [Proc -> SUBSET Proc] /\ peer \in [Proc -> Proc]
  /\ link \in [Proc -> Slots] /\ fd \in [Proc -> Images \cup {0}]
  /\ filled \in [Images -> {"raw", "half", "full"}]
  /\ images \in 0 .. MaxOpens /\ opens \in 0 .. MaxOpens
  /\ late \in BOOLEAN /\ failed \in BOOLEAN

(* A network that a search can read is a complete one, whoever wrote it    *)
(* and whenever writers and peers were killed.                             *)
ReadsComplete ==
  \A p \in Proc, s \in Slots :
    kind[p][s] = "shared" /\ mem[p][s] # 0 => filled[mem[p][s]] = "full"

(* The purpose of it all: processes that have the network share one image, *)
(* provided that no peer was too slow and no system call failed.           *)
Settled(p) == pc[p] \notin {"unmap", "unlink", "join", "exit"}

OneImage ==
  ~late /\ ~failed =>
    \A p, q \in Proc : \A s, r \in Slots :
      Settled(p) /\ Settled(q) /\ kind[p][s] = "shared" /\ kind[q][r] = "shared"
        => mem[p][s] = mem[q][r]

(* A process that uses the shared image can be asked for it, although its  *)
(* instances take the one socket path from each other.                     *)
Reachable ==
  ~failed =>
    \A p \in Proc :
      Settled(p) /\ (\E s \in Slots : kind[p][s] = "shared") => Listening(p)

(* A process removes a socket file other than its own only when nobody     *)
(* listens behind it.                                                      *)
OnlyDeadRemoved ==
  [][\A q \in Proc :
       path'[q] # path[q] /\ pc'[q] = pc[q] => ~Listening(q)]_vars

(* open() comes to an end, even if whoever holds the lock is killed.       *)
OpenReturns == \A p \in Proc : pc[p] = "lock" ~> pc[p] \in {"idle", "down"}
=============================================================================
