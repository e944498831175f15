------------------------------ MODULE NumaConfig ------------------------------
(***************************************************************************)
(* How the processors are grouped into nodes, how threads are spread over  *)
(* and bound to them, and what is replicated where (numa.h,                *)
(* ThreadPool::set, Engine::set_numa_config_from_option).  CPU lists are   *)
(* sequences of ranges, as indices_from_shortened_string reads them.       *)
(***************************************************************************)
EXTENDS Integers, Sequences, FiniteSets, SequencesExt

CONSTANTS
    Hosts,          \* [threads, affinity, online, lists, l3]: what a Linux system tells
    Systems,        \* [cpus, node, real, api, set, primary, fails]: a Windows system, its CPUs and those allowed
    Strings,        \* NumaPolicy values that name the nodes
    Policies,       \* the NumaPolicy values of a session
    Group,          \* processors of a Windows group, 64 in the code
    MaxIndices,     \* the longest range that is read
    MaxThreads      \* bound: threads of the pool

VARIABLES job, out
Nothing == [none |-> 0]
Least(S) == CHOOSE x \in S : \A y \in S : x <= y
Highest(S) == CHOOSE x \in S : \A y \in S : x >= y
InOrder(S) == [i \in 1..Cardinality(S) |-> CHOOSE x \in S : Cardinality({y \in S : y < x}) = i - 1]

-------------------------------------------------------------------------------
(* A configuration: nodes in order (node 0 is the first), the node of every*)
(* CPU as it was added, and whether the user chose the CPUs.               *)
Empty == [nodes |-> << >>, nodeByCpu |-> << >>, custom |-> FALSE]
AddToNode(cfg, n, cpus) ==
    LET new == cpus \ DOMAIN cfg.nodeByCpu
        len == IF new = {} THEN Len(cfg.nodes) ELSE Highest({n + 1, Len(cfg.nodes)})
        old(k) == IF k \in DOMAIN cfg.nodes THEN cfg.nodes[k] ELSE {}
    IN [nodes |-> [k \in 1..len |-> IF k = n + 1 THEN old(k) \cup new ELSE old(k)],
        nodeByCpu |-> [c \in DOMAIN cfg.nodeByCpu \cup new |-> IF c \in new THEN n ELSE cfg.nodeByCpu[c]],
        custom |-> cfg.custom]
AddNodes(parts) == FoldLeft(LAMBDA cfg, n : AddToNode(cfg, n - 1, parts[n]), Empty, [n \in DOMAIN parts |-> n])
RemoveEmptyNumaNodes(cfg) == [cfg EXCEPT !.nodes = SelectSeq(@, LAMBDA s : s # {})]
DefaultConfig(threads) == AddToNode(Empty, 0, 0..threads - 1)

(* A range is [first, last]; one that cannot be read, or that ends before  *)
(* it begins, is skipped.                                                  *)
Indices(ranges) ==
    FlattenSeq([i \in DOMAIN ranges |->
        LET r == ranges[i] IN
        IF r.last < r.first \/ r.last - r.first >= MaxIndices THEN << >>
        ELSE [k \in 1..r.last - r.first + 1 |-> r.first + k - 1]])
Listed(ranges) == Range(Indices(ranges))
(* from_string: a CPU that is named twice spoils the whole, which is then  *)
(* no configuration (Empty).                                               *)
FromString(s) ==
    LET lists == SelectSeq([i \in DOMAIN s |-> Indices(s[i])], LAMBDA l : l # << >>)
        all == FlattenSeq(lists)
    IN IF lists = << >> \/ Cardinality(Range(all)) # Len(all) THEN Empty
       ELSE [AddNodes([n \in DOMAIN lists |-> Range(lists[n])]) EXCEPT !.custom = TRUE]
NodeString(cfg) ==
    [n \in DOMAIN cfg.nodes |->
        LET cpus == cfg.nodes[n]
            starts == {c \in cpus : c - 1 \notin cpus}
            lastOf(c) == Least({d \in cpus : d >= c /\ d + 1 \notin cpus})
        IN [i \in DOMAIN InOrder(starts) |-> [first |-> InOrder(starts)[i], last |-> lastOf(InOrder(starts)[i])]]]

-------------------------------------------------------------------------------
(* from_system_numa on Linux, with its fallback to one node.               *)
FromSystemNuma(host, allowed) ==
    LET ids == Indices(host.online)
        fallback == host.online = << >> \/ \E i \in DOMAIN ids : ids[i] \notin DOMAIN host.lists
    IN IF fallback THEN AddToNode(Empty, 0, (0..host.threads - 1) \cap allowed)
       ELSE FoldLeft(LAMBDA cfg, n : AddToNode(cfg, n, Listed(host.lists[n]) \cap allowed), Empty, ids)

(* The L3 domains in the order of their first CPU; a CPU without one is    *)
(* left out, and a CPU that the nodes do not have ends the program.        *)
Domains(host, allowed, system) ==
    FoldLeft(LAMBDA acc, next :
        IF next \in acc.seen \/ next \notin DOMAIN host.l3 THEN acc
        ELSE LET shared == Indices(host.l3[next])
                 cpus == Range(shared) \cap allowed
                 last == SelectSeq(shared, LAMBDA c : c \in allowed) IN
             [seen |-> acc.seen \cup Range(shared),
              list |-> IF cpus = {} THEN acc.list
                       ELSE Append(acc.list, [cpus |-> cpus, node |-> system.nodeByCpu[last[Len(last)]]])],
        [seen |-> {}, list |-> << >>], InOrder(DOMAIN system.nodeByCpu)).list
(* from_l3_info: neighbours are merged while they fit.  A scan goes on     *)
(* behind a merged pair.                                                   *)
RECURSIVE Scan(_, _, _)
Scan(ds, j, size) ==
    IF j + 1 > Len(ds) THEN ds
    ELSE IF Cardinality(ds[j]) + Cardinality(ds[j + 1]) <= size
    THEN Scan(SubSeq(ds, 1, j - 1) \o <<ds[j] \cup ds[j + 1]>> \o SubSeq(ds, j + 2, Len(ds)), j + 1, size)
    ELSE Scan(ds, j + 1, size)
RECURSIVE Merge(_, _)
Merge(ds, size) == IF Scan(ds, 1, size) = ds THEN ds ELSE Merge(Scan(ds, 1, size), size)
FromL3Info(list, size) ==
    LET nodes == InOrder({list[i].node : i \in DOMAIN list})
        of(n) == SelectSeq(list, LAMBDA d : d.node = n)
        merged == FlattenSeq([k \in DOMAIN nodes |-> Merge([i \in DOMAIN of(nodes[k]) |-> of(nodes[k])[i].cpus], size)])
    IN AddNodes(merged)

(* from_system; size is 0 for the L3 policy, -1 for the system's nodes.    *)
Known(host) == 0..15
FromSystem(host, respect, size) ==
    LET allowed == IF respect THEN host.affinity ELSE Known(host)
        numa == [RemoveEmptyNumaNodes(FromSystemNuma(host, allowed)) EXCEPT !.custom = ~respect]
        domains == IF size < 0 THEN << >> ELSE Domains(host, allowed, numa)
    IN IF domains = << >> THEN numa
       ELSE [RemoveEmptyNumaNodes(FromL3Info(domains, size)) EXCEPT !.custom = ~respect]

-------------------------------------------------------------------------------
(* Windows: what get_process_affinity makes of the answers of the two      *)
(* interfaces, and the split of the nodes at the borders of the groups.    *)
GroupOf(c) == c \div Group
InGroup(w, g) == {c \in w.cpus : GroupOf(c) = g}
(* At most one set, none for "all the CPUs".                               *)
NewApi(w) == IF w.api /\ w.set = "new" THEN {w.real} ELSE {}
OldApi(w) ==
    LET groups == {GroupOf(c) : c \in w.real}
        first == InGroup(w, w.primary)
        limited == w.real \cap first # first \/ {GroupOf(c) : c \in w.cpus} # {w.primary}
        all == UNION {InGroup(w, g) : g \in groups} IN
    IF w.fails \/ w.real \cap first = {} THEN {}
    ELSE IF Cardinality(groups) = 1 THEN IF limited THEN {w.real} ELSE {}
    ELSE IF w.api /\ w.real # all THEN {w.real} ELSE {}
Allowed(w) == {c \in w.cpus : \A s \in OldApi(w) \cup NewApi(w) : c \in s}
SplitAtGroups(cfg) ==
    LET parts(cpus) == LET gs == InOrder({GroupOf(c) : c \in cpus}) IN
                       [i \in DOMAIN gs |-> {c \in cpus : GroupOf(c) = gs[i]}]
        all == FlattenSeq([n \in DOMAIN cfg.nodes |-> parts(cfg.nodes[n])])
    IN AddNodes(all)
WindowsConfig(w) ==
    LET numa == FoldLeft(LAMBDA cfg, c : AddToNode(cfg, w.node[c], {c}), Empty, InOrder(Allowed(w))) IN
    RemoveEmptyNumaNodes(SplitAtGroups(numa))
(* The CPUs of a thread after bind_current_thread_to_numa_node; the old    *)
(* interface only reaches the group of the first one.                      *)
BoundTo(cfg, n, oldApi) ==
    LET cpus == cfg.nodes[n + 1] IN
    IF oldApi THEN {c \in cpus : GroupOf(c) = GroupOf(Least(cpus))} ELSE cpus

-------------------------------------------------------------------------------
(* Threads.  A node is small with at most 0.6 of the CPUs of the largest.  *)
SuggestsBindingThreads(cfg, threads) ==
    LET size(n) == Cardinality(cfg.nodes[n])
        largest == Highest({0} \cup {size(n) : n \in DOMAIN cfg.nodes})
        big == Cardinality({n \in DOMAIN cfg.nodes : 10 * size(n) > 6 * largest})
    IN cfg.custom \/ (threads > 1 /\ Len(cfg.nodes) > 1 /\ (threads > largest \div 2 \/ threads >= 4 * big))
(* A mutant of Fill: the thread that is to come is not counted.            *)
FillNow(occupied, size) == [num |-> occupied, den |-> size]
Fill(occupied, size) == [num |-> occupied + 1, den |-> size]
Less(a, b) == a.num * b.den < b.num * a.den
DistributeThreads(cfg, threads) ==
    LET nodes == DOMAIN cfg.nodes
        fill(ns, n) == Fill(Cardinality({i \in DOMAIN ns : ns[i] = n - 1}), Cardinality(cfg.nodes[n]))
        best(ns) == CHOOSE n \in nodes :
                        /\ \A m \in nodes : ~Less(fill(ns, m), fill(ns, n))
                        /\ \A m \in 1..n - 1 : Less(fill(ns, n), fill(ns, m))
    IN FoldLeft(LAMBDA ns, t : Append(ns, best(ns) - 1), << >>, [t \in 1..threads |-> t])
(* ThreadPool::set: the node of every thread, << >> when none is bound.    *)
Bindings(cfg, policy, threads) ==
    IF policy = "none" \/ (policy = "auto" /\ ~SuggestsBindingThreads(cfg, threads)) THEN << >>
    ELSE DistributeThreads(cfg, threads)
(* What a worker knows of its node: its number there and how many there are.*)
Places(bound, threads) ==
    LET node(t) == IF bound = << >> THEN 0 ELSE bound[t] IN
    [t \in 1..threads |->
        [node |-> node(t), idx |-> Cardinality({s \in 1..t - 1 : node(s) = node(t)}),
         total |-> Cardinality({s \in 1..threads : node(s) = node(t)})]]

-------------------------------------------------------------------------------
(* The network, replicated: one image per node, 0 where it is not there    *)
(* yet.  out holds it, the configuration, the policy and the threads.      *)
Replicated(cfg) == cfg.custom \/ Len(cfg.nodes) > 1
(* prepare_replicate_from: the first node has it, the others wait.         *)
Prepared(cfg, image) ==
    IF Replicated(cfg) THEN [n \in DOMAIN cfg.nodes |-> IF n = 1 THEN image ELSE 0] ELSE <<image>>
EnsurePresent(instances, n) == IF instances[n + 1] # 0 THEN instances ELSE [instances EXCEPT ![n + 1] = instances[1]]
Ensured(instances, threads) == FoldLeft(LAMBDA acc, t : EnsurePresent(acc, threads[t].node), instances, [t \in DOMAIN threads |-> t])

Settled(cfg, policy, instances, threads) ==
    LET places == Places(Bindings(cfg, policy, threads), threads) IN
    [cfg |-> cfg, policy |-> policy, threads |-> places, instances |-> Ensured(instances, places), image |-> instances[1]]
ConfigOf(policy) ==
    CASE policy \in {"auto", "system"} -> FromSystem(job.host, TRUE, job.size)
      [] policy = "hardware" -> FromSystem(job.host, FALSE, job.size)
      [] policy = "none" -> DefaultConfig(job.host.threads)
      [] OTHER -> FromString(Strings[policy])
Session == job.kind = "session" /\ UNCHANGED job
(* A value that names no nodes leaves everything as it was, but is the     *)
(* value of the option from then on.                                       *)
SetNumaConfigFromOption ==
    /\ Session
    /\ \E policy \in Policies : \E cfg \in {ConfigOf(policy)} :
          out' = IF cfg = Empty THEN [out EXCEPT !.policy = policy]
                 ELSE Settled(cfg, policy, Prepared(cfg, out.image), Len(out.threads))
ResizeThreads ==
    Session /\ \E n \in 1..MaxThreads : out' = Settled(out.cfg, out.policy, out.instances, n)
LoadNetwork ==
    /\ Session /\ out.image < 2
    /\ out' = [out EXCEPT !.image = @ + 1, !.instances = Ensured(Prepared(out.cfg, out.image + 1), out.threads)]

Configure ==
    /\ job.kind = "host" /\ out = Nothing /\ UNCHANGED job
    /\ out' = [cfg |-> FromSystem(job.host, job.respect, job.size)]
ConfigureWindows == job.kind = "windows" /\ out = Nothing /\ UNCHANGED job /\ out' = [cfg |-> WindowsConfig(job.w)]
NumaInit ==
    \/ \E h \in Hosts, r \in BOOLEAN, s \in {0 - 1, 0, 2, 4} : job = [kind |-> "host", host |-> h, respect |-> r, size |-> s] /\ out = Nothing
    \/ \E w \in Systems : job = [kind |-> "windows", w |-> w] /\ out = Nothing
    \/ \E h \in Hosts : \E cfg \in {FromSystem(h, TRUE, 2)} :
          /\ job = [kind |-> "session", host |-> h, size |-> 2]
          /\ out = Settled(cfg, "auto", Prepared(cfg, 1), 1)
NumaNext == Configure \/ ConfigureWindows \/ SetNumaConfigFromOption \/ ResizeThreads \/ LoadNetwork

-------------------------------------------------------------------------------
Cpus(cfg) == UNION {cfg.nodes[n] : n \in DOMAIN cfg.nodes}
Partition(cfg) ==
    /\ cfg.nodes # << >> /\ \A n \in DOMAIN cfg.nodes : cfg.nodes[n] # {}
    /\ \A m, n \in DOMAIN cfg.nodes : m # n => cfg.nodes[m] \cap cfg.nodes[n] = {}
(* The nodes of a system share out the allowed CPUs that it tells of, none *)
(* reaches over two nodes of the system or breaks an L3 domain, and their  *)
(* string says all of it.                                                  *)
SystemKept ==
    job.kind = "host" /\ out # Nothing =>
        LET cfg == out.cfg
            system == FromSystem(job.host, job.respect, 0 - 1)
            l3 == DOMAIN job.host.l3 \cap Cpus(system) IN
        /\ Partition(cfg) /\ Partition(system)
        /\ Cpus(cfg) = IF job.size < 0 \/ l3 = {} THEN Cpus(system) ELSE l3
        /\ job.respect => Cpus(cfg) \subseteq job.host.affinity
        /\ \A n \in DOMAIN cfg.nodes : \E m \in DOMAIN system.nodes : cfg.nodes[n] \subseteq system.nodes[m]
        /\ \A n \in DOMAIN cfg.nodes : \A c \in cfg.nodes[n] \cap DOMAIN job.host.l3 :
               LET domain == Listed(job.host.l3[c]) \cap Cpus(cfg) IN
               /\ domain \subseteq cfg.nodes[n]
               /\ job.size >= 0 => Cardinality(cfg.nodes[n]) <= job.size \/ cfg.nodes[n] = domain
        /\ FromString(NodeString(cfg)).nodes = cfg.nodes
(* On Windows no CPU that the process may use is lost, and a thread gets   *)
(* all of its node whichever interface binds it.                           *)
WindowsKept ==
    job.kind = "windows" /\ out # Nothing =>
        /\ Partition(out.cfg) /\ job.w.real \subseteq Cpus(out.cfg)
        /\ \A n \in DOMAIN out.cfg.nodes, old \in BOOLEAN : BoundTo(out.cfg, n - 1, old) = out.cfg.nodes[n]
(* Between two commands every thread finds the present network on its node *)
(* of the present configuration, no two threads share a place, and the     *)
(* nodes are filled alike.                                                 *)
ReplicasCurrent ==
    job.kind = "session" =>
        LET th == out.threads
            size(n) == Cardinality(out.cfg.nodes[n])
            used(n) == Cardinality({t \in DOMAIN th : th[t].node = n - 1}) IN
        /\ \A t \in DOMAIN th :
              /\ th[t].node < Len(out.instances) /\ th[t].idx < th[t].total
              /\ out.instances[th[t].node + 1] = out.image
              /\ \A s \in DOMAIN th : s # t => <<th[s].node, th[s].idx>> # <<th[t].node, th[t].idx>>
        /\ (Len(out.instances) > 1 => Len(out.instances) = Len(out.cfg.nodes))
        /\ out.policy \in {"system", "hardware"} \cup {p \in DOMAIN Strings : FromString(Strings[p]) # Empty} =>
              \A m, n \in DOMAIN out.cfg.nodes : used(m) > 0 => used(m) * size(n) <= (used(n) + 1) * size(m)
NumaSound == SystemKept /\ WindowsKept /\ ReplicasCurrent
===============================================================================
