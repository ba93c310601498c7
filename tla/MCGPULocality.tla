---------------------------- MODULE MCGPULocality ----------------------------
EXTENDS GPULocality

(* 1 is the machine, 2 and 3 are packages; 12 and 13 are GPUs, 14 and 15   *)
(* network adapters with an OS device each; 18 is a group above package 3, *)
(* or one of the caches of package 2.                                      *)
MCObjs == 1 .. 18

MCKind == [o \in MCObjs |-> CASE o = 1 -> "machine"
                              [] o \in {2, 3} -> "package"
                              [] o \in {4, 5} -> "numa"
                              [] o \in {6, 7, 8} -> "core"
                              [] o \in {9, 10} -> "hostbridge"
                              [] o = 11 -> "pcibridge"
                              [] o \in {12, 13} -> "gpu"
                              [] o \in {14, 15} -> "pci"
                              [] o = 18 -> "group"
                              [] OTHER -> "osdev"]

(* Where the NUMA nodes, a core, the host bridges and the devices hang.    *)
Trees == {[o \in MCObjs |-> CASE o = 1 -> 0
                              [] o = 2 -> 1
                              [] o = 3 -> IF s = 1 THEN 18 ELSE 1
                              [] o = 4 -> n1
                              [] o = 5 -> n2
                              [] o = 6 -> 2
                              [] o = 7 -> IF s = 1 THEN 2 ELSE 18
                              [] o = 8 -> c
                              [] o = 9 -> b1
                              [] o = 10 -> b2
                              [] o = 11 -> 9
                              [] o = 12 -> 11
                              [] o = 13 -> g
                              [] o = 14 -> e1
                              [] o = 15 -> e2
                              [] o = 16 -> 14
                              [] o = 17 -> 15
                              [] o = 18 -> s] :
          n1 \in {1, 2}, n2 \in {2, 3, 18}, c \in {2, 3}, b1 \in {1, 2}, b2 \in {2, 3, 18},
          s \in {1, 2}, g \in {9, 10}, e1 \in {9, 10, 11}, e2 \in {9, 10}}

PathsOf(up) ==
  LET above(S) == S \cup ({up[o] : o \in S} \ {0})
  IN [o \in MCObjs |-> above(above(above(above(above({o})))))]

(* What does not depend on the tree: OS devices, the function of the       *)
(* second GPU, the numbering of PUs, and the lists of the libraries.       *)
Rest(reads, func, pus, fi, nvml, cuda) ==
  [reads |-> reads, fi |-> fi, nvml |-> nvml, cuda |-> cuda,
   slot |-> [o \in MCObjs |-> IF o = 13 /\ func = 1 THEN 12 ELSE o],
   func |-> [o \in MCObjs |-> IF o = 13 THEN func ELSE 0],
   pu |-> [o \in MCObjs |-> IF o \in 6 .. 8 THEN pus[o - 5] ELSE 0]]

Usual == Rest({16, 17}, 0, <<0, 1, 2>>, {14, 15}, <<12, 13>>, <<12, 13>>)

Unusual ==
  {Rest(reads, func, <<0, 1, 2>>, fi, nvml, <<12, 13>>) :
     reads \in {{16, 17}, {16}, {15, 16}}, func \in {0, 1}, fi \in {{14, 15}, {14}, {}},
     nvml \in {<<12, 13>>, <<13, 12>>, <<12>>, <<12, 14>>}}
  \cup {Rest({16, 17}, 0, pus, {14, 15}, nvml, cuda) :
     pus \in {<<0, 1, 2>>, <<2, 1, 0>>}, nvml \in {<<12, 13>>, <<13, 12>>},
     cuda \in {<<12, 13>>, <<13, 12>>, <<12>>}}

On(up, rest) == [kind |-> MCKind, up |-> up, path |-> PathsOf(up),
                 reads |-> rest.reads, slot |-> rest.slot, func |-> rest.func,
                 pu |-> rest.pu, fi |-> rest.fi, nvml |-> rest.nvml,
                 cuda |-> rest.cuda]

(* Two packages with a NUMA node and a host bridge each, and the devices   *)
(* below both.                                                             *)
UsualTree(up) == /\ up[4] = 2 /\ up[5] = 3 /\ up[8] = 3
                 /\ up[18] = 2 /\ up[9] = 2 /\ up[10] = 3
                 /\ up[13] = up[15] /\ up[14] = 11

(* One package of two groups (3 is one here), each with its own NUMA node, *)
(* cores and host bridge.                                                  *)
TwoNodesUp == [o \in MCObjs |-> CASE o = 1 -> 0
                                 [] o = 2 -> 1
                                 [] o \in {3, 18} -> 2
                                 [] o \in {4, 6, 8, 9} -> 3
                                 [] o \in {5, 7, 10} -> 18
                                 [] o \in {11, 14} -> 9
                                 [] o = 12 -> 11
                                 [] o \in {13, 15} -> 10
                                 [] OTHER -> o - 2]

MCTwoNodes == {[On(TwoNodesUp, Usual) EXCEPT !.kind[3] = "group"]}

MCMachines == {On(up, Usual) : up \in Trees}
              \cup {On(up, rest) : up \in {t \in Trees : UsualTree(t)}, rest \in Unusual}
              \cup MCTwoNodes
=============================================================================
