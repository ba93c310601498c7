----------------------------- MODULE GPULocality -----------------------------
(***************************************************************************)
(* gpuloc.h: which cores and which EFA devices are near to which GPU.  The *)
(* constructor of Hwloc walks the hardware tree and keeps, per package, a  *)
(* Numanode; GetAffinity groups the PCI devices by host bridge and orders  *)
(* the GPUs as NVML does; the printing programs (gpuloc, nvml) then print  *)
(* the lists, and the Peer of affinity and batch takes its core and its    *)
(* NIC from them by local rank.                                            *)
(*                                                                         *)
(* Everything is a synchronous call of one process.  What varies is the    *)
(* machine, the calls that fail and the order of the unordered containers, *)
(* which are keyed by address.                                             *)
(***************************************************************************)
EXTENDS Naturals, Sequences, FiniteSets, Functions

CONSTANTS Objs,      \* the hwloc objects but PUs; cores are in logical order,
                     \* siblings in the order of their list; a "group" is any
                     \* object Traverse passes through on its way to cores
          Machines,  \* the machines the program may run on
          Programs   \* the programs that run

Kinds == {"machine", "group", "package", "numa", "core", "hostbridge",
          "pcibridge", "gpu", "pci", "osdev"}

(* A machine: the tree (`kind', `up', and `path', an object with all above *)
(* it), the objects whose word at attr->osdev.type reads OPENFABRICS, the  *)
(* bus slot and function of PCI devices, the OS number of each core's PU,  *)
(* and what libfabric, NVML and CUDA list.                                 *)
Machine == [kind : [Objs -> Kinds], up : [Objs -> Objs \cup {0}],
            path : [Objs -> SUBSET Objs], reads : SUBSET Objs,
            slot : [Objs -> Nat], func : [Objs -> Nat], pu : [Objs -> Nat],
            fi : SUBSET Objs, nvml : Seq(Nat), cuda : Seq(Objs)]

KidsIn(m, o) == {c \in Objs : m.up[c] = o}

(* What hwloc ensures: a tree with one root, packages below nothing but    *)
(* groups, PCI devices below exactly one host bridge, one device per slot  *)
(* and function; NVML lists none twice.                                    *)
WellFormed(m) ==
  /\ \E r \in Objs : /\ m.kind[r] = "machine"
                     /\ \A o \in Objs : (o = r <=> m.up[o] = 0) /\ r \in m.path[o]
  /\ \A o \in Objs : /\ m.kind[o] = "machine" => m.up[o] = 0
                     /\ m.up[o] # o
                     /\ m.path[o] = {o} \cup IF m.up[o] = 0 THEN {} ELSE m.path[m.up[o]]
  /\ \A o \in Objs : \A a \in m.path[o] :
       /\ m.path[a] \subseteq m.path[o]
       /\ o # a => o \notin m.path[a] /\ \E c \in KidsIn(m, a) : c \in m.path[o]
  /\ \A o \in Objs : m.kind[o] = "package" =>
       \A a \in m.path[o] \ {o} : m.kind[a] \in {"machine", "group"}
  /\ \A o \in Objs : m.kind[o] \in {"gpu", "pci"} =>
       \E b \in m.path[o] : m.kind[b] = "hostbridge"
  /\ \A o \in Objs : \A a, b \in m.path[o] :
       m.kind[a] = "hostbridge" /\ m.kind[b] = "hostbridge" => a = b
  /\ \A o \in Objs : \A a \in m.path[o] :
       m.kind[a] = "hostbridge" => m.kind[o] \notin {"package", "numa", "core"}
  /\ \A x, y \in {o \in Objs : m.kind[o] \in {"gpu", "pci"}} :
       m.slot[x] = m.slot[y] /\ m.func[x] = m.func[y] => x = y
  /\ IsInjective(m.nvml)

ASSUME LocalityAssumption ==
  /\ Objs \subseteq Nat \ {0}
  /\ IsFiniteSet(Objs)
  /\ Machines \subseteq Machine
  /\ \A m \in Machines : WellFormed(m)
  /\ Programs \subseteq {"gpuloc", "nvml", "affinity"}

VARIABLES machine, program,  \* what runs where
          local,       \* MPI: processes on this node, and the rank among them
          phase,       \* the part of the program that runs, or how it ended
          stack,       \* the calls of Traverse that have not returned
          numanodes,   \* Hwloc::numanodes_
          node,        \* GetAffinity: the Numanode it is at,
          bridges,     \* and the host bridges of it that remain
          gpuloc,      \* the entries of the map from a GPU to its GPUAffinity
          index,       \* the NVML index
          affinity,    \* GPUloc::affinity_
          peer         \* what Peer took

localityVars == <<machine, program, local, phase, stack, numanodes, node,
                  bridges, gpuloc, index, affinity, peer>>

Phases == {"start", "traverse", "discover", "group", "count", "match",
           "report", "peer", "pin", "done", "thrown", "undefined"}

NoPeer == [gpu |-> 0, core |-> 0, nic |-> 0, device |-> 0]

LocalityInit == /\ machine \in Machines
                /\ program \in Programs
                /\ local \in {l \in [size : {1, 2}, rank : {0, 1}] : l.rank < l.size}
                /\ program # "affinity" => local.size = 1
                /\ phase = "start"
                /\ stack = <<>>
                /\ numanodes = <<>>
                /\ node = 0
                /\ bridges = {}
                /\ gpuloc = {}
                /\ index = 1
                /\ affinity = <<>>
                /\ peer = NoPeer

-----------------------------------------------------------------------------
(* The tree.                                                               *)
Kind(k) == {o \in Objs : machine.kind[o] = k}
IsPCI(o) == machine.kind[o] \in {"gpu", "pci"}

IsHostBridgeAny(o) ==  \* defect: the upstream side is not looked at
  machine.kind[o] \in {"hostbridge", "pcibridge"}
IsHostBridge(o) == machine.kind[o] = "hostbridge"

(* NVIDIA, display controller.                                             *)
IsGPU(o) == machine.kind[o] = "gpu"

(* The object itself, whatever it is, or something below it reads as an    *)
(* OPENFABRICS device.                                                     *)
IsOSDevType(o) == \E d \in machine.reads : o \in machine.path[d]

IsEFA(o) == machine.kind[o] = "pci" /\ IsOSDevType(o)

(* Children are visited list by list: memory, normal, I/O.                 *)
ListIOFirst(o) ==  \* defect: the I/O children come before the packages
  CASE machine.kind[o] = "numa" -> 1
    [] machine.kind[o] \in {"group", "package", "core"} -> 3
    [] OTHER -> 2
List(o) == CASE machine.kind[o] = "numa" -> 1
             [] machine.kind[o] \in {"group", "package", "core"} -> 2
             [] OTHER -> 3

Before(x, y) == \/ List(x) < List(y)
                \/ List(x) = List(y) /\ x < y

Frame(o, b) == [obj |-> o, bridge |-> IF IsHostBridge(o) THEN o ELSE b,
                left |-> KidsIn(machine, o)]

-----------------------------------------------------------------------------
(* main asserts one process per node; hwloc loads the tree, or an          *)
(* exception ends the program.                                             *)
Admitted == program = "affinity" => local.size = 1

Load == /\ phase = "start"
        /\ IF Admitted
           THEN \/ /\ phase' = "traverse"
                   /\ stack' = <<Frame(CHOOSE r \in Objs : machine.up[r] = 0, 0)>>
                \/ phase' = "thrown" /\ UNCHANGED stack
           ELSE phase' = "thrown" /\ UNCHANGED stack
        /\ UNCHANGED <<machine, program, local, numanodes, node, bridges,
                       gpuloc, index, affinity, peer>>

(* Traverse uses numanodes.back() for all but a package.                   *)
Last == Len(numanodes)

RecordFront(o, b) ==  \* defect: a NUMA node goes to the first package
  CASE machine.kind[o] = "package" ->
         Append(numanodes, [numanode |-> 0, cores |-> {}, pci |-> {}])
    [] machine.kind[o] = "numa" -> [numanodes EXCEPT ![1].numanode = o]
    [] machine.kind[o] = "core" -> [numanodes EXCEPT ![Last].cores = @ \cup {o}]
    [] IsPCI(o) -> [numanodes EXCEPT ![Last].pci = @ \cup {<<b, o>>}]
    [] OTHER -> numanodes

Record(o, b) ==
  CASE machine.kind[o] = "package" ->
         Append(numanodes, [numanode |-> 0, cores |-> {}, pci |-> {}])
    [] machine.kind[o] = "numa" -> [numanodes EXCEPT ![Last].numanode = o]
    [] machine.kind[o] = "core" -> [numanodes EXCEPT ![Last].cores = @ \cup {o}]
    [] IsPCI(o) -> [numanodes EXCEPT ![Last].pci = @ \cup {<<b, o>>}]
    [] OTHER -> numanodes

UsesBack(o) == machine.kind[o] \in {"numa", "core", "hostbridge", "gpu", "pci"}

(* The call for the next child of the innermost call.  back() of an empty  *)
(* vector is undefined behaviour.                                          *)
Visit(c) ==
  LET top == stack[Len(stack)]
  IN /\ phase = "traverse"
     /\ stack # <<>>
     /\ c \in top.left
     /\ \A d \in top.left \ {c} : Before(c, d)
     /\ IF UsesBack(c) /\ numanodes = <<>>
        THEN phase' = "undefined" /\ UNCHANGED <<stack, numanodes>>
        ELSE /\ numanodes' = Record(c, top.bridge)
             /\ stack' = Append([stack EXCEPT ![Len(stack)].left = @ \ {c}],
                                Frame(c, top.bridge))
             /\ UNCHANGED phase
     /\ UNCHANGED <<machine, program, local, node, bridges, gpuloc, index,
                    affinity, peer>>

(* A call returns; the outermost one ends the traversal.                   *)
Leave == /\ phase = "traverse"
         /\ stack # <<>>
         /\ stack[Len(stack)].left = {}
         /\ stack' = SubSeq(stack, 1, Len(stack) - 1)
         /\ phase' = IF Len(stack) = 1 THEN "discover" ELSE phase
         /\ UNCHANGED <<machine, program, local, numanodes, node, bridges,
                        gpuloc, index, affinity, peer>>

-----------------------------------------------------------------------------
(* EFA::Get asserts that fi_getinfo lists a device (affinity), and nvmlInit*)
(* may fail (nvml and affinity).                                           *)
Discover == /\ phase = "discover"
            /\ \/ /\ program = "affinity" => machine.fi # {}
                  /\ phase' = "group"
               \/ program # "gpuloc" /\ phase' = "thrown"
            /\ UNCHANGED <<machine, program, local, stack, numanodes, node,
                           bridges, gpuloc, index, affinity, peer>>

Orders(S) == {s \in [1 .. Cardinality(S) -> S] : Range(s) = S}

(* GetAffinity, the next Numanode.                                         *)
NextNode ==
  /\ phase = "group"
  /\ bridges = {}
  /\ IF node < Len(numanodes)
     THEN /\ node' = node + 1
          /\ bridges' = {d[1] : d \in numanodes[node + 1].pci}
          /\ UNCHANGED phase
     ELSE /\ phase' = IF program = "gpuloc" THEN "report" ELSE "count"
          /\ UNCHANGED <<node, bridges>>
  /\ UNCHANGED <<machine, program, local, stack, numanodes, gpuloc, index,
                 affinity, peer>>

Devices(b) == {d \in Objs : <<b, d>> \in numanodes[node].pci}

(* One host bridge of it: its GPUs get the cores of the Numanode and the   *)
(* EFA devices of the bridge; GetFiInfo throws for a device that           *)
(* fi_getinfo has not listed.                                              *)
GroupBridge(b) ==
  LET efas == {d \in Devices(b) : IsEFA(d)}
  IN /\ phase = "group"
     /\ b \in bridges
     /\ IF program = "affinity" /\ ~(efas \subseteq machine.fi)
        THEN phase' = "thrown" /\ UNCHANGED <<bridges, gpuloc>>
        ELSE /\ \E order \in Orders(efas) :
                  gpuloc' = gpuloc \cup
                    {[gpu |-> g, numanode |-> numanodes[node].numanode,
                      cores |-> numanodes[node].cores, efas |-> order]
                     : g \in {d \in Devices(b) : IsGPU(d)}}
             /\ bridges' = bridges \ {b}
             /\ UNCHANGED phase
     /\ UNCHANGED <<machine, program, local, stack, numanodes, node, index,
                    affinity, peer>>

-----------------------------------------------------------------------------
(* The order of NVML.  nvmlDeviceGetCount must give the number of GPUs in  *)
(* the tree; the calls of NVML may fail.                                   *)
CountGPUs == /\ phase = "count"
             /\ \/ /\ Len(machine.nvml) = Cardinality(gpuloc)
                   /\ phase' = "match"
                \/ phase' = "thrown"
             /\ UNCHANGED <<machine, program, local, stack, numanodes, node,
                            bridges, gpuloc, index, affinity, peer>>

MatchesAnyFunc(i) ==  \* defect: the function is not compared
  {a \in gpuloc : machine.slot[a.gpu] = machine.nvml[i]}
Matches(i) == {a \in gpuloc : /\ machine.slot[a.gpu] = machine.nvml[i]
                              /\ machine.func[a.gpu] = 0}

MatchGPU == /\ phase = "match"
            /\ index <= Len(machine.nvml)
            /\ \/ /\ \E order \in Orders(Matches(index)) :
                       affinity' = affinity \o order
                  /\ index' = index + 1
                  /\ UNCHANGED phase
               \/ phase' = "thrown" /\ UNCHANGED <<index, affinity>>
            /\ UNCHANGED <<machine, program, local, stack, numanodes, node,
                           bridges, gpuloc, peer>>

AllMatched == Len(affinity) = Cardinality(gpuloc)

EndMatch == /\ phase = "match"
            /\ index > Len(machine.nvml)
            /\ phase' = IF ~AllMatched THEN "thrown"
                        ELSE IF program = "nvml" THEN "report" ELSE "peer"
            /\ UNCHANGED <<machine, program, local, stack, numanodes, node,
                           bridges, gpuloc, index, affinity, peer>>

-----------------------------------------------------------------------------
(* operator<< reads the NUMA node and the first and last core of each GPU. *)
Report == /\ phase = "report"
          /\ phase' = IF \E a \in gpuloc : a.numanode = 0 \/ a.cores = {}
                      THEN "undefined" ELSE "done"
          /\ UNCHANGED <<machine, program, local, stack, numanodes, node,
                         bridges, gpuloc, index, affinity, peer>>

(* Peer: affinity[local_rank], cores[local_rank] and efas[local_rank], none*)
(* of them checked; the cores are sorted by logical index.  Then           *)
(* cudaSetDevice(local_rank).                                              *)
Own == affinity[local.rank + 1]

FirstNic == CHOOSE e \in machine.fi : TRUE  \* defect: as dmabuf does
OwnNic == Own.efas[local.rank + 1]

(* CUDA keeps its first device when the index is refused; nobody looks.    *)
CurrentDevice(i) == CASE i < Len(machine.cuda) -> machine.cuda[i + 1]
                      [] machine.cuda = <<>> -> 0
                      [] OTHER -> machine.cuda[1]

Choose == /\ phase = "peer"
          /\ IF /\ local.rank < Len(affinity)
                /\ local.rank < Cardinality(Own.cores)
                /\ local.rank < Len(Own.efas)
             THEN /\ \E core \in Own.cores :
                       /\ Cardinality({c \in Own.cores : c < core}) = local.rank
                       /\ peer' = [gpu |-> Own.gpu, core |-> core, nic |-> OwnNic,
                                   device |-> CurrentDevice(local.rank)]
                  /\ phase' = "pin"
             ELSE phase' = "undefined" /\ UNCHANGED peer
          /\ UNCHANGED <<machine, program, local, stack, numanodes, node,
                         bridges, gpuloc, index, affinity>>

(* Taskset::Set with the logical index of the core; sched_setaffinity may  *)
(* refuse.                                                                 *)
Pin == /\ phase = "pin"
       /\ phase' \in {"done", "thrown"}
       /\ UNCHANGED <<machine, program, local, stack, numanodes, node, bridges,
                      gpuloc, index, affinity, peer>>

LogicalIndex(c) == Cardinality({d \in Kind("core") : d < c})

(* The core the process is bound to: the one whose PU has that OS number.  *)
Bound == {c \in Kind("core") : machine.pu[c] = LogicalIndex(peer.core)}

LocalityNext == \/ Load
                \/ \E c \in Objs : Visit(c)
                \/ Leave
                \/ Discover
                \/ NextNode
                \/ \E b \in Objs : GroupBridge(b)
                \/ CountGPUs
                \/ MatchGPU
                \/ EndMatch
                \/ Report
                \/ Choose
                \/ Pin
                \/ phase \in {"done", "thrown", "undefined"} /\ UNCHANGED localityVars

LocalitySpec == LocalityInit /\ [][LocalityNext]_localityVars

-----------------------------------------------------------------------------
Entry == [gpu : Objs, numanode : Objs \cup {0}, cores : SUBSET Objs, efas : Seq(Objs)]

(* Every variable has its type.                                            *)
LocalityTypeOK ==
  /\ machine \in Machine
  /\ program \in Programs
  /\ local \in [size : {1, 2}, rank : {0, 1}]
  /\ phase \in Phases
  /\ stack \in Seq([obj : Objs, bridge : Objs \cup {0}, left : SUBSET Objs])
  /\ numanodes \in Seq([numanode : Objs \cup {0}, cores : SUBSET Objs,
                         pci : SUBSET (Objs \X Objs)])
  /\ node \in 0 .. Len(numanodes)
  /\ bridges \subseteq Kind("hostbridge")
  /\ gpuloc \in SUBSET Entry
  /\ index \in Nat \ {0}
  /\ affinity \in Seq(Entry)
  /\ peer \in [gpu : Objs \cup {0}, core : Objs \cup {0}, nic : Objs \cup {0},
               device : Objs \cup {0}]

(* What an object lies below, read off the tree and not off the walk.      *)
Below(o, k) == {a \in machine.path[o] : machine.kind[a] = k}

(* "EFA devices on the same PCI bridge": a GPU's list holds every EFA      *)
(* device that shares its host bridge, and no other, however the walk and  *)
(* the maps were ordered.                                                  *)
SameHostBridge ==
  \A a \in gpuloc :
    Range(a.efas) = {e \in Objs : /\ IsEFA(e)
                                  /\ Below(e, "hostbridge") = Below(a.gpu, "hostbridge")}

(* All objects of a kind lie in packages.                                  *)
InPackages(k) == \A o \in Kind(k) : Below(o, "package") # {}

(* What the grouping by package gives: if every core is in a package, the  *)
(* cores of a GPU's list are all those of one package, the GPU's own when  *)
(* its host bridge lies in one, and the NUMA node beside them is one of    *)
(* that package when it lies in any.  In a package with two NUMA nodes the *)
(* list thus holds the cores of both, beside the node visited last.        *)
CoresOfPackage ==
  InPackages("core") =>
    \A a \in gpuloc : \E p \in Kind("package") :
      /\ a.cores = {c \in Kind("core") : p \in machine.path[c]}
      /\ Below(a.gpu, "package") \in {{}, {p}}
      /\ a.numanode # 0 => Below(a.numanode, "package") \in {{}, {p}}

(* "CPU cores in the same NUMA node" (GPUAffinity): the cores beside a     *)
(* NUMA node are those below the object its memory is attached to.         *)
SameNumaNode ==
  \A a \in gpuloc :
    a.numanode # 0 =>
      a.cores = {c \in Kind("core") : machine.up[a.numanode] \in machine.path[c]}

(* When the lists are ready, every GPU of the tree is at one place of      *)
(* affinity_, the one NVML has it at: GetGPUAffinity()[i] is device i.     *)
ByNvmlIndex ==
  phase \in {"peer", "pin"} =>
    /\ Len(affinity) = Len(machine.nvml)
    /\ \A i \in 1 .. Len(affinity) : machine.slot[affinity[i].gpu] = machine.nvml[i]
    /\ \A g \in Kind("gpu") : \E i \in 1 .. Len(affinity) :
         /\ affinity[i].gpu = g
         /\ \A j \in 1 .. Len(affinity) : affinity[j].gpu = g => i = j

(* What a Peer ends with is near together: the NIC it opens and the GPU    *)
(* share a host bridge; its CUDA memory is on that GPU if CUDA numbers     *)
(* devices as NVML does; and it is bound to a core of the GPU's package if *)
(* every core is in one and the OS numbers PUs as hwloc numbers cores      *)
(* (Taskset::Set gets a logical_index).                                    *)
PeerNear ==
  /\ peer.nic \in machine.fi
  /\ Below(peer.nic, "hostbridge") = Below(peer.gpu, "hostbridge")
  /\ [i \in DOMAIN machine.cuda |-> machine.slot[machine.cuda[i]]] = machine.nvml
       => machine.slot[peer.device] = machine.slot[peer.gpu]
  /\ InPackages("core") /\ (\A c \in Kind("core") : machine.pu[c] = LogicalIndex(c))
       => \E c \in Bound : Below(peer.gpu, "package") \in {{}, Below(c, "package")}

PeerIsNear == phase = "done" /\ program = "affinity" => PeerNear

(* The only machines on which a program reads what is not there: a NUMA    *)
(* node, a core or a group apart from the packages, or none of them; a     *)
(* package without memory or without cores, for the printing programs; no  *)
(* GPU, or no EFA device on the host bridge of the first one, for a Peer.  *)
Placed == /\ Kind("package") # {}
          /\ InPackages("numa") /\ InPackages("core")
          /\ \A g \in Kind("group") : \E p \in Kind("package") :
               p \in machine.path[g] \/ g \in machine.path[p]

Equipped ==
  CASE program = "affinity" ->
         \E g \in Kind("gpu") :
           /\ machine.nvml # <<>> /\ machine.slot[g] = machine.nvml[1]
           /\ \E e \in Objs : IsEFA(e) /\ Below(e, "hostbridge") = Below(g, "hostbridge")
    [] OTHER -> \A p \in Kind("package") : \E n \in Kind("numa") : p \in machine.path[n]

CoresEverywhere == \A p \in Kind("package") : \E c \in Kind("core") : p \in machine.path[c]

DefinedOn == Placed /\ Equipped /\ CoresEverywhere => phase # "undefined"
=============================================================================
