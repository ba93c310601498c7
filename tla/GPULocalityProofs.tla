--------------------------- MODULE GPULocalityProofs ---------------------------
(***************************************************************************)
(* On every machine hwloc can describe, in whatever order the unordered    *)
(* containers are walked: the EFA devices of a GPU are exactly those on    *)
(* its host bridge, its cores those of one package, the lists are in the   *)
(* order of NVML, a Peer ends with devices that are near together, and     *)
(* nothing is read that is not there but on the machines DefinedOn names.  *)
(***************************************************************************)
EXTENDS GPULocality, QueueLemmas, FiniteSetTheorems

(* The objects above o, with o.                                            *)
P(o) == machine.path[o]

(* The walk: some frame still has to visit an object at or above o, and    *)
(* that frame lies in b.                                                   *)
Pending(o) == \E k \in 1 .. Len(stack) : \E x \in stack[k].left : x \in P(o)
PendingIn(b, o) == \E k \in 1 .. Len(stack) :
                     b \in P(stack[k].obj) /\ \E x \in stack[k].left : x \in P(o)

Has(i, b, o) == <<b, o>> \in numanodes[i].pci

Inside(b) == {o \in Objs : IsPCI(o) /\ b \in P(o)}

(* The stack is a path down the tree, and what a frame has left are        *)
(* children of its object that are not on the path.                        *)
StackInv ==
  /\ \A k \in 1 .. Len(stack) :
       /\ stack[k].left \subseteq KidsIn(machine, stack[k].obj)
       /\ \A b \in P(stack[k].obj) : IsHostBridge(b) => stack[k].bridge = b
       /\ stack[k].left \cap P(stack[Len(stack)].obj) = {}
  /\ \A j, k \in 1 .. Len(stack) :
       j < k => stack[j].obj \in P(stack[k].obj) /\ stack[j].obj # stack[k].obj

(* A device is recorded with its host bridge ...                           *)
PairInv ==
  \A i \in 1 .. Len(numanodes) : \A b, o \in Objs :
    Has(i, b, o) => IsPCI(o) /\ IsHostBridge(b) /\ b \in P(o)

(* ... in one Numanode, once ...                                           *)
OnceInv ==
  \A i \in 1 .. Len(numanodes) : \A b, o \in Objs :
    Has(i, b, o) => /\ ~Pending(o)
                    /\ \A j \in 1 .. Len(numanodes) : \A c \in Objs : Has(j, c, o) => j = i

(* ... the one that has all devices of the host bridge, when the walk has  *)
(* left it.                                                                *)
ActiveInv ==
  \A k \in 1 .. Len(stack) : \A b \in P(stack[k].obj) :
    IsHostBridge(b) => /\ numanodes # <<>>
                       /\ \A o \in Inside(b) : Has(Len(numanodes), b, o) \/ PendingIn(b, o)

ClosedInv ==
  \A i \in 1 .. Len(numanodes) : \A b, o \in Objs :
    Has(i, b, o) => \/ \A e \in Inside(b) : Has(i, b, e)
                    \/ /\ i = Len(numanodes)
                       /\ \E k \in 1 .. Len(stack) : b \in P(stack[k].obj)

(* No device is missed.                                                    *)
SeenInv ==
  phase \notin {"start", "thrown", "undefined"} =>
    \A o \in Objs : IsPCI(o) =>
      Pending(o) \/ \E i \in 1 .. Len(numanodes) : \E b \in Objs : Has(i, b, o)

Walked == {"discover", "group", "count", "match", "report", "peer", "pin", "done"}

WalkInv == /\ machine \in Machines
           /\ StackInv
           /\ PairInv
           /\ OnceInv
           /\ ActiveInv
           /\ ClosedInv
           /\ SeenInv
           /\ phase \in Walked \cup {"start"} => stack = <<>>
           /\ phase = "start" => numanodes = <<>>

-----------------------------------------------------------------------------
(* The tree.                                                               *)
LEMMA MachineFacts ==
  ASSUME machine \in Machines
  PROVE  /\ machine \in Machine
         /\ WellFormed(machine)
BY LocalityAssumption

(* What hwloc's tree gives for the path above an object.                 *)
LEMMA PathFacts ==
  ASSUME machine \in Machines
  PROVE  /\ \A o \in Objs : P(o) \subseteq Objs /\ o \in P(o)
         /\ \A o \in Objs : \A a \in P(o) :
              /\ P(a) \subseteq P(o)
              /\ o # a => o \notin P(a) /\ \E c \in KidsIn(machine, a) : c \in P(o)
         /\ \A o \in Objs : \A c \in KidsIn(machine, o) :
              c \in Objs /\ c # o /\ P(c) = {c} \cup P(o)
         /\ \A o \in Objs : IsPCI(o) => \E b \in P(o) : IsHostBridge(b) /\ b # o
         /\ \A o \in Objs : \A a, b \in P(o) : IsHostBridge(a) /\ IsHostBridge(b) => a = b
<1> USE MachineFacts DEF P
<1>1. \A o \in Objs : P(o) \subseteq Objs /\ o \in P(o)
  BY DEF WellFormed, Machine
<1>2. \A o \in Objs : \A a \in P(o) :
        /\ P(a) \subseteq P(o)
        /\ o # a => o \notin P(a) /\ \E c \in KidsIn(machine, a) : c \in P(o)
  BY DEF WellFormed
<1>3. ASSUME NEW o \in Objs, NEW c \in KidsIn(machine, o)
      PROVE  c \in Objs /\ c # o /\ P(c) = {c} \cup P(o)
  <2>1. c \in Objs /\ machine.up[c] = o /\ o # 0
    BY LocalityAssumption DEF KidsIn
  <2> QED BY <2>1 DEF WellFormed
<1>4. ASSUME NEW o \in Objs, IsPCI(o) PROVE \E b \in P(o) : IsHostBridge(b) /\ b # o
  BY <1>4 DEF WellFormed, IsPCI, IsHostBridge
<1>5. \A o \in Objs : \A a, b \in P(o) : IsHostBridge(a) /\ IsHostBridge(b) => a = b
  BY DEF WellFormed, IsHostBridge
<1> QED BY <1>1, <1>2, <1>3, <1>4, <1>5

(* A package does not lie on a host bridge.                                *)
LEMMA PackageFacts ==
  ASSUME machine \in Machines, NEW o \in Objs, machine.kind[o] = "package", NEW b \in P(o)
  PROVE  ~IsHostBridge(b)
BY MachineFacts DEF P, WellFormed, IsHostBridge

-----------------------------------------------------------------------------
(* The call for the root.                                                  *)
LEMMA LoadWalk ==
  ASSUME LocalityTypeOK, WalkInv, Load
  PROVE  WalkInv' /\ stack' \in Seq([obj : Objs, bridge : Objs \cup {0}, left : SUBSET Objs])
<1> DEFINE r == CHOOSE r \in Objs : machine.up[r] = 0
<1>1. /\ phase = "start" /\ numanodes = <<>> /\ stack = <<>>
      /\ UNCHANGED <<machine, numanodes>>
      /\ \/ phase' = "traverse" /\ stack' = <<Frame(r, 0)>>
         \/ phase' = "thrown" /\ stack' = <<>>
  BY DEF Load, WalkInv
<1>2. CASE phase' = "thrown" /\ stack' = <<>>
  BY <1>1, <1>2 DEF WalkInv, StackInv, PairInv, OnceInv, ActiveInv, ClosedInv, SeenInv, Walked
<1>3. CASE phase' = "traverse" /\ stack' = <<Frame(r, 0)>>
  <2>1. /\ r \in Objs /\ machine.kind[r] = "machine" /\ machine.up[r] = 0
        /\ \A o \in Objs : r \in P(o)
    <3>1. \E x \in Objs : machine.up[x] = 0
      BY MachineFacts DEF WalkInv, WellFormed
    <3>2. r \in Objs /\ machine.up[r] = 0
      BY <3>1
    <3> HIDE DEF r
    <3> QED BY <3>2, MachineFacts DEF WalkInv, WellFormed, P
  <2> DEFINE f == Frame(r, 0)
  <2>2. /\ f = [obj |-> r, bridge |-> 0, left |-> KidsIn(machine, r)]
        /\ P(r) = {r}
    BY <2>1, MachineFacts DEF Frame, IsHostBridge, WalkInv, WellFormed, P
  <2>3. stack' = <<f>>
    BY <1>3
  <2> HIDE DEF r, f
  <2>4. f \in [obj : Objs, bridge : Objs \cup {0}, left : SUBSET Objs]
    BY <2>1, <2>2 DEF KidsIn
  <2>5. /\ Len(stack') = 1 /\ stack'[1] = f
        /\ stack' \in Seq([obj : Objs, bridge : Objs \cup {0}, left : SUBSET Objs])
    BY <2>3, <2>4
  <2>6. StackInv'
    <3>1. KidsIn(machine, r) \cap P(r) = {}
      BY <2>1, <2>2, PathFacts DEF WalkInv
    <3> QED BY <1>1, <2>1, <2>2, <2>5, <3>1 DEF StackInv, P, IsHostBridge
  <2>7. SeenInv'
    <3> SUFFICES ASSUME NEW o \in Objs, IsPCI(o) PROVE Pending(o)'
      BY <1>1 DEF SeenInv, IsPCI
    <3>1. o # r
      BY <2>1 DEF IsPCI
    <3>2. \E c \in KidsIn(machine, r) : c \in P(o)
      BY <2>1, <3>1, PathFacts DEF WalkInv
    <3> QED BY <1>1, <2>2, <2>5, <3>2 DEF Pending, P
  <2>8. ActiveInv'
    BY <1>1, <2>1, <2>2, <2>5 DEF ActiveInv, P, IsHostBridge
  <2>9. PairInv' /\ OnceInv' /\ ClosedInv'
    BY <1>1 DEF PairInv, OnceInv, ClosedInv
  <2> QED BY <1>1, <1>3, <2>5, <2>6, <2>7, <2>8, <2>9 DEF WalkInv, Walked
<1>4. <<>> \in Seq([obj : Objs, bridge : Objs \cup {0}, left : SUBSET Objs])
  OBVIOUS
<1> QED BY <1>1, <1>2, <1>3, <1>4

-----------------------------------------------------------------------------
(* What a call of Traverse records of its object.                          *)
Node == [numanode : Objs \cup {0}, cores : SUBSET Objs, pci : SUBSET (Objs \X Objs)]

(* What a call of Traverse adds to the Numanodes: at most one pair.      *)
LEMMA RecordFacts ==
  ASSUME LocalityTypeOK, NEW c \in Objs, NEW b \in Objs \cup {0},
         IsPCI(c) => b \in Objs,
         UsesBack(c) => numanodes # <<>>,
         numanodes' = Record(c, b)
  PROVE  /\ numanodes' \in Seq(Node)
         /\ Len(numanodes) \in Nat
         /\ Len(numanodes') = IF machine.kind[c] = "package" THEN Len(numanodes) + 1
                                                             ELSE Len(numanodes)
         /\ \A i \in 1 .. Len(numanodes) : \A x, o \in Objs :
              Has(i, x, o)' <=> \/ Has(i, x, o)
                                \/ IsPCI(c) /\ i = Len(numanodes) /\ x = b /\ o = c
         /\ machine.kind[c] = "package" =>
              \A i \in {Len(numanodes) + 1} : \A x, o \in Objs : ~Has(i, x, o)'
<1> DEFINE L == Len(numanodes)
<1>1. /\ numanodes \in Seq(Node) /\ L \in Nat
      /\ numanodes # <<>> => L \in 1 .. L /\ numanodes[L] \in Node
  <2>1. numanodes \in Seq(Node)
    BY DEF LocalityTypeOK, Node
  <2>2. L \in Nat /\ (numanodes # <<>> => L # 0)
    BY <2>1, LenProperties, EmptySeq
  <2> QED BY <2>1, <2>2, QueueMember
<1>2. CASE machine.kind[c] = "package"
  <2> DEFINE e == [numanode |-> 0, cores |-> {}, pci |-> {}]
  <2>1. numanodes' = Append(numanodes, e) /\ e \in Node
    BY <1>2 DEF Record, IsPCI, Node
  <2>2. e.pci = {}
    OBVIOUS
  <2> HIDE DEF e
  <2>3. /\ numanodes' \in Seq(Node) /\ Len(numanodes') = L + 1
        /\ numanodes'[L + 1] = e
        /\ \A i \in 1 .. L : numanodes'[i] = numanodes[i]
    BY <1>1, <2>1
  <2> QED BY <1>1, <1>2, <2>2, <2>3 DEF Has, IsPCI
<1>3. CASE machine.kind[c] \in {"numa", "core"}
  <2>1. numanodes # <<>>
    BY <1>3 DEF UsesBack
  <2>2. /\ numanodes' \in Seq(Node) /\ Len(numanodes') = L
        /\ \A i \in 1 .. L : numanodes'[i].pci = numanodes[i].pci
    <3>1. CASE machine.kind[c] = "numa"
      <4>1. numanodes' = [numanodes EXCEPT ![L].numanode = c]
        BY <3>1 DEF Record, Last, IsPCI
      <4>2. [numanodes[L] EXCEPT !.numanode = c] \in Node
        BY <1>1, <2>1 DEF Node
      <4> QED BY <1>1, <2>1, <4>1, <4>2
    <3>2. CASE machine.kind[c] = "core"
      <4>1. numanodes' = [numanodes EXCEPT ![L].cores = @ \cup {c}]
        BY <3>2 DEF Record, Last, IsPCI
      <4>2. [numanodes[L] EXCEPT !.cores = @ \cup {c}] \in Node
        BY <1>1, <2>1 DEF Node
      <4> QED BY <1>1, <2>1, <4>1, <4>2
    <3> QED BY <1>3, <3>1, <3>2
  <2> QED BY <1>1, <1>3, <2>2 DEF Has, IsPCI
<1>4. CASE IsPCI(c)
  <2>1. /\ numanodes # <<>> /\ b \in Objs
        /\ machine.kind[c] \notin {"package", "numa", "core"}
    BY <1>4 DEF UsesBack, IsPCI
  <2>2. numanodes' = [numanodes EXCEPT ![L].pci = @ \cup {<<b, c>>}]
    BY <1>4, <2>1 DEF Record, Last, IsPCI
  <2>3. [numanodes[L] EXCEPT !.pci = @ \cup {<<b, c>>}] \in Node
    BY <1>1, <2>1 DEF Node
  <2>4. /\ numanodes' \in Seq(Node) /\ Len(numanodes') = L
        /\ numanodes'[L].pci = numanodes[L].pci \cup {<<b, c>>}
        /\ \A i \in 1 .. L : i # L => numanodes'[i].pci = numanodes[i].pci
    BY <1>1, <2>1, <2>2, <2>3
  <2> QED BY <1>1, <1>4, <2>1, <2>4 DEF Has
<1>5. CASE machine.kind[c] \notin {"package", "numa", "core"} /\ ~IsPCI(c)
  <2>1. numanodes' = numanodes
    BY <1>5 DEF Record, IsPCI
  <2> QED BY <1>1, <1>5, <2>1 DEF Has
<1> QED BY <1>2, <1>3, <1>4, <1>5

(* What a call does to the stack: the object leaves what is left of its    *)
(* parent's frame, the only frame that has it, and gets one of its own.    *)
LEMMA VisitStack ==
  ASSUME LocalityTypeOK, WalkInv, NEW c \in Objs, Visit(c), phase' # "undefined"
  PROVE  LET n == Len(stack)
         IN /\ n \in Nat /\ n >= 1 /\ c \in stack[n].left
            /\ stack' \in Seq([obj : Objs, bridge : Objs \cup {0}, left : SUBSET Objs])
            /\ Len(stack') = n + 1
            /\ P(c) = {c} \cup P(stack[n].obj) /\ c \notin P(stack[n].obj)
            /\ \A k \in 1 .. n : /\ stack'[k].obj = stack[k].obj
                                 /\ stack[k].obj \in Objs
                                 /\ stack'[k].bridge = stack[k].bridge
                                 /\ stack'[k].left = stack[k].left \ {c}
                                 /\ P(stack[k].obj) \subseteq P(stack[n].obj)
            /\ stack'[n + 1].obj = c
            /\ stack'[n + 1].bridge = (IF IsHostBridge(c) THEN c ELSE stack[n].bridge)
            /\ stack'[n + 1].left = KidsIn(machine, c)
            /\ stack[n].bridge \in Objs \cup {0}
            /\ numanodes' = Record(c, stack[n].bridge)
            /\ UsesBack(c) => numanodes # <<>>
            /\ UNCHANGED <<machine, phase>> /\ phase = "traverse"
<1> DEFINE n == Len(stack)
           R == [obj : Objs, bridge : Objs \cup {0}, left : SUBSET Objs]
           cut == [stack EXCEPT ![n].left = @ \ {c}]
           f == Frame(c, stack[n].bridge)
<1>1. /\ stack \in Seq(R) /\ n \in Nat /\ stack # <<>> /\ n >= 1 /\ n \in 1 .. n
  <2>1. stack \in Seq(R) /\ n \in Nat /\ stack # <<>>
    BY LenProperties DEF LocalityTypeOK, Visit
  <2>2. n # 0
    BY <2>1, EmptySeq
  <2> QED BY <2>1, <2>2
<1> HIDE DEF R
<1>2. /\ c \in stack[n].left
      /\ stack' = Append(cut, f)
      /\ numanodes' = Record(c, stack[n].bridge)
      /\ UsesBack(c) => numanodes # <<>>
      /\ UNCHANGED <<machine, phase>> /\ phase = "traverse"
  BY DEF Visit
<1>3. \A k \in 1 .. n : /\ stack[k] \in R
                         /\ stack[k].obj \in Objs /\ stack[k].bridge \in Objs \cup {0}
                         /\ stack[k].left \in SUBSET Objs
                         /\ stack[k] = [obj |-> stack[k].obj, bridge |-> stack[k].bridge,
                                       left |-> stack[k].left]
  <2>1. \A k \in 1 .. n : stack[k] \in R
    BY <1>1, QueueMember
  <2> QED BY <2>1 DEF R
<1>4. f \in R /\ f.obj = c /\ f.left = KidsIn(machine, c)
      /\ f.bridge = IF IsHostBridge(c) THEN c ELSE stack[n].bridge
  BY <1>1, <1>3 DEF Frame, KidsIn, R
<1> HIDE DEF f
<1>5. /\ cut \in Seq(R) /\ Len(cut) = n
      /\ \A k \in 1 .. n : /\ cut[k].obj = stack[k].obj
                           /\ cut[k].bridge = stack[k].bridge
                           /\ cut[k].left = IF k = n THEN stack[k].left \ {c} ELSE stack[k].left
  <2> DEFINE g == [stack[n] EXCEPT !.left = @ \ {c}]
  <2>1. /\ g \in R /\ g.obj = stack[n].obj /\ g.bridge = stack[n].bridge
        /\ g.left = stack[n].left \ {c}
    BY <1>1, <1>3 DEF R
  <2>2. cut = [stack EXCEPT ![n] = g]
    BY <1>1, <1>3
  <2> HIDE DEF g, cut
  <2>3. cut \in Seq(R) /\ Len(cut) = n /\ cut[n] = g /\ \A k \in 1 .. n : k # n => cut[k] = stack[k]
    BY <1>1, <2>1, <2>2
  <2> QED BY <2>1, <2>3
<1> HIDE DEF cut
<1>6. /\ stack' \in Seq(R) /\ Len(stack') = n + 1 /\ stack'[n + 1] = f
      /\ \A k \in 1 .. n : stack'[k] = cut[k]
  BY <1>2, <1>4, <1>5, <1>1
<1>7. c \in KidsIn(machine, stack[n].obj) /\ c \notin P(stack[n].obj)
  BY <1>1, <1>2 DEF WalkInv, StackInv
<1>8. P(c) = {c} \cup P(stack[n].obj)
  BY <1>1, <1>3, <1>7, PathFacts DEF WalkInv
<1>9. ASSUME NEW k \in 1 .. n, k # n
      PROVE  c \notin stack[k].left /\ stack[k].obj \in P(stack[n].obj)
  <2>1. stack[k].obj \in P(stack[n].obj) /\ stack[k].obj # stack[n].obj
    BY <1>1, <1>9 DEF WalkInv, StackInv
  <2>2. c \in stack[k].left => machine.up[c] = stack[k].obj
    BY <1>1 DEF WalkInv, StackInv, KidsIn
  <2> QED BY <1>7, <2>1, <2>2 DEF KidsIn
<1>10. ASSUME NEW k \in 1 .. n PROVE P(stack[k].obj) \subseteq P(stack[n].obj)
  <2>1. k = n \/ stack[k].obj \in P(stack[n].obj)
    BY <1>9
  <2>2. stack[n].obj \in Objs
    BY <1>1, <1>3
  <2>3. \A a \in P(stack[n].obj) : P(a) \subseteq P(stack[n].obj)
    BY <2>2, PathFacts DEF WalkInv
  <2> QED BY <2>1, <2>3
<1>11. \A k \in 1 .. n : stack'[k].left = stack[k].left \ {c}
  BY <1>5, <1>6, <1>9
<1>12. /\ Len(stack') = n + 1
       /\ stack' \in Seq([obj : Objs, bridge : Objs \cup {0}, left : SUBSET Objs])
       /\ stack[n].bridge \in Objs \cup {0}
  BY <1>1, <1>3, <1>6 DEF R
<1> HIDE DEF n
<1> QED BY <1>1, <1>2, <1>3, <1>4, <1>5, <1>6, <1>7, <1>8, <1>10, <1>11, <1>12 DEF n

(* The object is no longer pending; for all others nothing changes, but    *)
(* that the frame they wait for may be the new one.                        *)
LEMMA VisitPending ==
  ASSUME LocalityTypeOK, WalkInv, NEW c \in Objs, Visit(c), phase' # "undefined"
  PROVE  /\ \A o \in Objs : o # c => /\ Pending(o)' <=> Pending(o)
                                    /\ \A b \in Objs : PendingIn(b, o) => PendingIn(b, o)'
         /\ Pending(c) /\ ~Pending(c)'
<1> DEFINE n == Len(stack)
           b0 == stack[n].bridge
<1>1. /\ n \in Nat /\ n >= 1 /\ c \in stack[n].left
      /\ stack' \in Seq([obj : Objs, bridge : Objs \cup {0}, left : SUBSET Objs])
      /\ Len(stack') = n + 1
      /\ P(c) = {c} \cup P(stack[n].obj) /\ c \notin P(stack[n].obj)
      /\ \A k \in 1 .. n : /\ stack'[k].obj = stack[k].obj
                           /\ stack[k].obj \in Objs
                           /\ stack'[k].bridge = stack[k].bridge
                           /\ stack'[k].left = stack[k].left \ {c}
                           /\ P(stack[k].obj) \subseteq P(stack[n].obj)
      /\ stack'[n + 1].obj = c
      /\ stack'[n + 1].bridge = (IF IsHostBridge(c) THEN c ELSE b0)
      /\ stack'[n + 1].left = KidsIn(machine, c)
      /\ b0 \in Objs \cup {0}
      /\ numanodes' = Record(c, b0)
      /\ UsesBack(c) => numanodes # <<>>
      /\ UNCHANGED <<machine, phase>> /\ phase = "traverse"
  BY VisitStack
<1> HIDE DEF n, b0
<1>2. machine \in Machines
  BY DEF WalkInv
<1>3. /\ c \in Objs /\ \A x \in KidsIn(machine, c) : /\ x \in Objs /\ x # c
                                                     /\ P(x) = {x} \cup P(c)
      /\ \A b \in P(c) : IsHostBridge(b) => b = c \/ b = b0
  <2>1. \A b \in P(stack[n].obj) : IsHostBridge(b) => b = b0
    BY <1>1 DEF WalkInv, StackInv, b0, n
  <2> QED BY <1>1, <1>2, <2>1, PathFacts
<1>4. n \in 1 .. n /\ \A k \in 1 .. n + 1 : k = n + 1 \/ k \in 1 .. n
  BY <1>1
<1>5. ASSUME NEW o \in Objs, o # c
      PROVE  /\ Pending(o)' <=> Pending(o)
             /\ \A b \in Objs : PendingIn(b, o) => PendingIn(b, o)'
  <2>1. c \in P(o) => \E y \in KidsIn(machine, c) : y \in P(o)
    BY <1>2, <1>5, PathFacts
  <2>2. ASSUME NEW k \in 1 .. n, NEW x \in stack[k].left, x \in P(o)
        PROVE  \/ x \in stack'[k].left
               \/ k = n /\ \E y \in stack'[n + 1].left : y \in P(o)
    <3>1. CASE x # c
      BY <3>1, <1>1
    <3>2. CASE x = c
      <4>1. k = n
        <5>1. /\ x \in KidsIn(machine, stack[k].obj) /\ c \in KidsIn(machine, stack[n].obj)
              /\ \A j \in 1 .. n : j # n => stack[j].obj # stack[n].obj
          BY <1>1 DEF WalkInv, StackInv, n
        <5> QED BY <3>2, <5>1 DEF KidsIn
      <4> QED BY <3>2, <4>1, <2>1, <2>2, <1>1
    <3> QED BY <3>1, <3>2
  <2>3. ASSUME Pending(o) PROVE Pending(o)'
    <3>1. PICK k \in 1 .. n : \E x \in stack[k].left : x \in P(o)
      BY <2>3 DEF Pending, n
    <3>2. \E j \in 1 .. n + 1 : \E y \in stack'[j].left : y \in P(o)
      BY <1>1, <2>2, <3>1
    <3> QED BY <3>2, <1>1 DEF Pending, P
  <2>4. ASSUME Pending(o)' PROVE Pending(o)
    <3>1. PICK k \in 1 .. n + 1 : \E x \in stack'[k].left : x \in P(o)
      BY <2>4, <1>1 DEF Pending, P
    <3>2. CASE k \in 1 .. n
      BY <3>1, <3>2, <1>1 DEF Pending, n
    <3>3. CASE k = n + 1
      <4>1. c \in P(o)
        BY <3>1, <3>3, <1>1, <1>2, <1>3, PathFacts
      <4> QED BY <4>1, <1>1 DEF Pending, n
    <3> QED BY <3>1, <3>2, <3>3, <1>4
  <2>5. ASSUME NEW b \in Objs, PendingIn(b, o) PROVE PendingIn(b, o)'
    <3>1. PICK k \in 1 .. n : b \in P(stack[k].obj) /\ \E x \in stack[k].left : x \in P(o)
      BY <2>5 DEF PendingIn, n
    <3>2. PICK x \in stack[k].left : x \in P(o)
      BY <3>1
    <3>3. CASE x \in stack'[k].left
      BY <3>1, <3>2, <3>3, <1>1 DEF PendingIn, P
    <3>4. CASE k = n /\ \E y \in stack'[n + 1].left : y \in P(o)
      <4>1. b \in P(stack'[n + 1].obj)
        BY <3>1, <3>4, <1>1
      <4> QED BY <4>1, <3>4, <1>1 DEF PendingIn, P
    <3> QED BY <2>2, <3>2, <3>3, <3>4
  <2> QED BY <2>3, <2>4, <2>5
<1>6. Pending(c) /\ ~Pending(c)'
  <2>1. Pending(c)
    BY <1>1 DEF Pending, n
  <2>2. ASSUME NEW k \in 1 .. n + 1, NEW x \in stack'[k].left, x \in P(c) PROVE FALSE
    <3>1. CASE k \in 1 .. n
      <4>1. x \in stack[k].left /\ x # c
        BY <2>2, <3>1, <1>1
      <4>2. x \notin P(stack[n].obj)
        BY <4>1, <3>1, <1>1 DEF WalkInv, StackInv, n
      <4> QED BY <4>1, <4>2, <2>2, <1>1
    <3>2. CASE k = n + 1
      <4>1. x \in Objs /\ x # c /\ c \in P(x)
        BY <2>2, <3>2, <1>1, <1>2, <1>3, PathFacts
      <4> QED BY <4>1, <2>2, <1>2, PathFacts
    <3> QED BY <3>1, <3>2, <1>4
  <2> QED BY <2>1, <2>2, <1>1 DEF Pending, P
<1> QED BY <1>5, <1>6

(* The call for a child keeps the invariant of the walk.                   *)
LEMMA VisitWalk ==
  ASSUME LocalityTypeOK, WalkInv, NEW c \in Objs, Visit(c), phase' # "undefined"
  PROVE  /\ WalkInv'
         /\ stack' \in Seq([obj : Objs, bridge : Objs \cup {0}, left : SUBSET Objs])
         /\ numanodes' \in Seq(Node)
         /\ Len(numanodes) <= Len(numanodes')
<1> DEFINE n == Len(stack)
           b0 == stack[n].bridge
           L == Len(numanodes)
<1>1. /\ n \in Nat /\ n >= 1 /\ c \in stack[n].left
      /\ stack' \in Seq([obj : Objs, bridge : Objs \cup {0}, left : SUBSET Objs])
      /\ Len(stack') = n + 1
      /\ P(c) = {c} \cup P(stack[n].obj) /\ c \notin P(stack[n].obj)
      /\ \A k \in 1 .. n : /\ stack'[k].obj = stack[k].obj
                           /\ stack[k].obj \in Objs
                           /\ stack'[k].bridge = stack[k].bridge
                           /\ stack'[k].left = stack[k].left \ {c}
                           /\ P(stack[k].obj) \subseteq P(stack[n].obj)
      /\ stack'[n + 1].obj = c
      /\ stack'[n + 1].bridge = (IF IsHostBridge(c) THEN c ELSE b0)
      /\ stack'[n + 1].left = KidsIn(machine, c)
      /\ b0 \in Objs \cup {0}
      /\ numanodes' = Record(c, b0)
      /\ UsesBack(c) => numanodes # <<>>
      /\ UNCHANGED <<machine, phase>> /\ phase = "traverse"
  BY VisitStack
<1> HIDE DEF n, b0
<1>2. machine \in Machines
  BY DEF WalkInv
<1>3. /\ c \in Objs /\ \A x \in KidsIn(machine, c) : /\ x \in Objs /\ x # c
                                                     /\ P(x) = {x} \cup P(c)
      /\ \A b \in P(c) : IsHostBridge(b) => b = c \/ b = b0
  <2>1. \A b \in P(stack[n].obj) : IsHostBridge(b) => b = b0
    BY <1>1 DEF WalkInv, StackInv, b0, n
  <2> QED BY <1>1, <1>2, <2>1, PathFacts
<1>4. n \in 1 .. n /\ \A k \in 1 .. n + 1 : k = n + 1 \/ k \in 1 .. n
  BY <1>1
<1>5. IsPCI(c) => b0 \in P(c) /\ b0 \in Objs /\ IsHostBridge(b0)
  <2> SUFFICES ASSUME IsPCI(c) PROVE b0 \in P(c) /\ b0 \in Objs /\ IsHostBridge(b0)
    OBVIOUS
  <2>1. PICK b \in P(c) : IsHostBridge(b) /\ b # c
    BY <1>2, PathFacts
  <2> QED BY <1>2, <1>3, <2>1, PathFacts
<1>6. /\ numanodes' \in Seq(Node) /\ L \in Nat
      /\ Len(numanodes') = IF machine.kind[c] = "package" THEN L + 1 ELSE L
      /\ \A i \in 1 .. L : \A x, o \in Objs :
           Has(i, x, o)' <=> Has(i, x, o) \/ (IsPCI(c) /\ i = L /\ x = b0 /\ o = c)
      /\ machine.kind[c] = "package" => \A i \in {L + 1} : \A x, o \in Objs : ~Has(i, x, o)'
  BY <1>1, <1>5, RecordFacts
<1> HIDE DEF L
<1>7. \A i \in 1 .. Len(numanodes') : \A x, o \in Objs :
        Has(i, x, o)' => i \in 1 .. L /\ (Has(i, x, o) \/ (IsPCI(c) /\ i = L /\ x = b0 /\ o = c))
  BY <1>6
<1>8. \A o \in Objs : o # c => /\ Pending(o)' <=> Pending(o)
                               /\ \A b \in Objs : PendingIn(b, o) => PendingIn(b, o)'
  BY VisitPending
<1>9. Pending(c) /\ ~Pending(c)'
  BY VisitPending
<1>10. StackInv'
  <2>1. ASSUME NEW k \in 1 .. n + 1
        PROVE  /\ stack'[k].left \subseteq KidsIn(machine, stack'[k].obj)
               /\ \A b \in P(stack'[k].obj) : IsHostBridge(b) => stack'[k].bridge = b
               /\ stack'[k].left \cap P(c) = {}
    <3>1. stack'[k].left \cap P(c) = {}
      <4>1. \A x \in stack'[k].left : x \notin P(c)
        BY <1>1, <1>9 DEF Pending, P
      <4> QED BY <4>1
    <3>2. CASE k \in 1 .. n
      BY <3>1, <3>2, <1>1 DEF WalkInv, StackInv, n
    <3>3. CASE k = n + 1
      <4>1. \A b \in P(c) : IsHostBridge(b) => stack'[n + 1].bridge = b
        <5> SUFFICES ASSUME NEW b \in P(c), IsHostBridge(b)
                     PROVE  (IF IsHostBridge(c) THEN c ELSE b0) = b
          BY <1>1
        <5>1. IsHostBridge(c) => b = c
          BY <1>2, <1>3, PathFacts
        <5>2. b = c => IsHostBridge(c)
          BY DEF IsHostBridge
        <5> QED BY <5>1, <5>2, <1>3
      <4> QED BY <3>1, <3>3, <4>1, <1>1
    <3> QED BY <3>2, <3>3, <1>4
  <2>2. ASSUME NEW j \in 1 .. n + 1, NEW k \in 1 .. n + 1, j < k
        PROVE  stack'[j].obj \in P(stack'[k].obj) /\ stack'[j].obj # stack'[k].obj
    <3>1. j \in 1 .. n
      BY <2>2, <1>1
    <3>2. CASE k \in 1 .. n
      BY <2>2, <3>1, <3>2, <1>1 DEF WalkInv, StackInv, n
    <3>3. CASE k = n + 1
      <4>1. stack[j].obj \in P(stack[j].obj)
        BY <3>1, <1>1, <1>2, PathFacts
      <4>2. stack[j].obj \in P(stack[n].obj)
        BY <4>1, <3>1, <1>1
      <4> QED BY <4>2, <3>1, <3>3, <1>1
    <3> QED BY <3>2, <3>3, <1>4
  <2> QED BY <2>1, <2>2, <1>1 DEF StackInv, P, IsHostBridge, KidsIn
<1>11. PairInv'
  BY <1>1, <1>5, <1>7 DEF WalkInv, PairInv, P, IsPCI, IsHostBridge, L
<1>12. OnceInv'
  <2> SUFFICES ASSUME NEW i \in 1 .. Len(numanodes'), NEW b \in Objs, NEW o \in Objs,
                      Has(i, b, o)'
               PROVE  /\ ~Pending(o)'
                      /\ \A j \in 1 .. Len(numanodes') : \A x \in Objs : Has(j, x, o)' => j = i
    BY DEF OnceInv
  <2>1. CASE o # c
    <3>1. i \in 1 .. L /\ Has(i, b, o)
      BY <2>1, <1>7
    <3>2. ~Pending(o) /\ \A j \in 1 .. L : \A x \in Objs : Has(j, x, o) => j = i
      BY <3>1 DEF WalkInv, OnceInv, L
    <3> QED BY <2>1, <3>2, <1>7, <1>8
  <2>2. CASE o = c
    <3>1. \A j \in 1 .. L : \A x \in Objs : ~Has(j, x, c)
      BY <1>9 DEF WalkInv, OnceInv, L
    <3> QED BY <2>2, <3>1, <1>7, <1>9
  <2> QED BY <2>1, <2>2
<1>13. ASSUME machine.kind[c] = "package", NEW k \in 1 .. n, NEW b \in P(stack[k].obj)
       PROVE  ~IsHostBridge(b)
  BY <1>13, <1>1, <1>2, PackageFacts
<1>14. ActiveInv'
  <2> SUFFICES ASSUME NEW k \in 1 .. n + 1, NEW b \in P(stack'[k].obj), IsHostBridge(b)
               PROVE  /\ numanodes' # <<>>
                      /\ \A o \in Inside(b) : \/ <<b, o>> \in numanodes'[Len(numanodes')].pci
                                              \/ PendingIn(b, o)'
    BY <1>1 DEF ActiveInv, P, IsHostBridge, Inside, IsPCI, Has, PendingIn
  <2>1. b \in Objs
    BY <1>1, <1>2, <1>4, PathFacts
  <2>2. CASE \E j \in 1 .. n : b \in P(stack[j].obj)
    <3>1. machine.kind[c] # "package" /\ numanodes # <<>> /\ Len(numanodes') = L /\ L \in 1 .. L
          /\ \A o \in Inside(b) : Has(L, b, o) \/ PendingIn(b, o)
      <4>1. machine.kind[c] # "package"
        BY <2>2, <1>13
      <4>2. numanodes # <<>> /\ \A o \in Inside(b) : Has(L, b, o) \/ PendingIn(b, o)
        BY <2>2 DEF WalkInv, ActiveInv, n, L
      <4>3. L # 0
        BY <4>2, EmptySeq DEF LocalityTypeOK, L
      <4> QED BY <4>1, <4>2, <4>3, <1>6
    <3>2. numanodes' # <<>>
      BY <3>1, <1>6, EmptySeq
    <3>3. ASSUME NEW o \in Inside(b)
          PROVE  <<b, o>> \in numanodes'[L].pci \/ PendingIn(b, o)'
      <4>1. o \in Objs /\ IsPCI(o) /\ b \in P(o)
        BY DEF Inside
      <4>2. CASE o = c
        <5>1. b = b0
          BY <4>1, <4>2, <1>3 DEF IsPCI, IsHostBridge
        <5> QED BY <4>1, <4>2, <5>1, <3>1, <2>1, <1>6 DEF Has
      <4>3. CASE o # c
        BY <4>1, <4>3, <3>1, <2>1, <1>6, <1>8 DEF Has
      <4> QED BY <4>2, <4>3
    <3> QED BY <3>1, <3>2, <3>3
  <2>3. CASE ~\E j \in 1 .. n : b \in P(stack[j].obj)
    <3>1. b = c
      BY <2>3, <1>1, <1>4
    <3>2. numanodes' # <<>>
      <4>1. numanodes # <<>> /\ machine.kind[c] # "package"
        BY <3>1, <1>1 DEF UsesBack, IsHostBridge
      <4>2. Len(numanodes') # 0
        BY <4>1, <1>6, EmptySeq DEF LocalityTypeOK, L
      <4> QED BY <4>2, <1>6, EmptySeq
    <3>3. ASSUME NEW o \in Inside(b) PROVE PendingIn(b, o)'
      <4>1. o \in Objs /\ b \in P(o) /\ o # c
        BY <3>1 DEF Inside, IsPCI, IsHostBridge
      <4>2. \E y \in KidsIn(machine, c) : y \in P(o)
        BY <3>1, <4>1, <1>2, PathFacts
      <4>3. b \in P(c)
        BY <3>1, <1>1
      <4>4. n + 1 \in 1 .. n + 1
        BY <1>1
      <4> QED BY <4>2, <4>3, <4>4, <1>1 DEF PendingIn, P
    <3> QED BY <3>2, <3>3
  <2> QED BY <2>2, <2>3
<1>15. ClosedInv'
  <2> SUFFICES ASSUME NEW i \in 1 .. Len(numanodes'), NEW b \in Objs, NEW o \in Objs,
                      Has(i, b, o)'
               PROVE  \/ \A e \in Inside(b) : Has(i, b, e)'
                      \/ /\ i = Len(numanodes')
                         /\ \E k \in 1 .. n + 1 : b \in P(stack'[k].obj)
    BY <1>1 DEF ClosedInv, P, Inside, IsPCI, Has
  <2>1. i \in 1 .. L /\ (Has(i, b, o) \/ (IsPCI(c) /\ i = L /\ b = b0 /\ o = c))
    BY <1>7
  <2>2. CASE Has(i, b, o) /\ \A e \in Inside(b) : Has(i, b, e)
    <3>1. \A e \in Inside(b) : e \in Objs
      BY DEF Inside
    <3> QED BY <2>1, <2>2, <3>1, <1>6
  <2>3. CASE Has(i, b, o) /\ i = L /\ \E k \in 1 .. n : b \in P(stack[k].obj)
    <3>1. IsHostBridge(b)
      BY <2>1, <2>3 DEF WalkInv, PairInv, L
    <3>2. machine.kind[c] # "package"
      BY <2>3, <3>1, <1>13
    <3> QED BY <2>3, <3>2, <1>1, <1>6
  <2>4. CASE IsPCI(c) /\ i = L /\ b = b0 /\ o = c
    <3>1. b \in P(stack[n].obj)
      BY <2>4, <1>1, <1>5 DEF IsPCI, IsHostBridge
    <3>2. machine.kind[c] # "package"
      BY <2>4 DEF IsPCI
    <3> QED BY <2>4, <3>1, <3>2, <1>1, <1>6
  <2> QED BY <2>1, <2>2, <2>3, <2>4 DEF WalkInv, ClosedInv, n, L
<1>16. SeenInv'
  <2> SUFFICES ASSUME NEW o \in Objs, IsPCI(o)
               PROVE  Pending(o)' \/ \E i \in 1 .. Len(numanodes') : \E b \in Objs : Has(i, b, o)'
    BY <1>1 DEF SeenInv, IsPCI
  <2>1. CASE o = c
    <3>1. machine.kind[c] # "package" /\ numanodes # <<>>
      BY <2>1, <1>1 DEF IsPCI, UsesBack
    <3>2. L # 0
      BY <3>1, EmptySeq DEF LocalityTypeOK, L
    <3>3. L \in 1 .. L /\ Len(numanodes') = L
      BY <3>1, <3>2, <1>6
    <3> QED BY <2>1, <3>3, <1>5, <1>6
  <2>2. CASE o # c
    <3>1. Pending(o) \/ \E i \in 1 .. L : \E b \in Objs : Has(i, b, o)
      BY <1>1 DEF WalkInv, SeenInv, L
    <3>2. \A i \in 1 .. L : i \in 1 .. Len(numanodes')
      BY <1>6
    <3> QED BY <2>2, <3>1, <3>2, <1>6, <1>8
  <2> QED BY <2>1, <2>2
<1>17. L <= Len(numanodes')
  BY <1>6
<1> QED BY <1>1, <1>2, <1>6, <1>10, <1>11, <1>12, <1>14, <1>15, <1>16, <1>17 DEF WalkInv, Walked, L

(* A call returns: its frame had nothing left.                             *)
LEMMA LeaveStack ==
  ASSUME LocalityTypeOK, WalkInv, Leave
  PROVE  LET n == Len(stack)
         IN /\ n \in Nat /\ n >= 1 /\ n \in 1 .. n
            /\ stack[n].left = {}
            /\ phase = "traverse" /\ phase' = IF n = 1 THEN "discover" ELSE phase
            /\ UNCHANGED <<machine, numanodes>>
            /\ machine \in Machines
            /\ \A k \in 1 .. n : stack[k].obj \in Objs
            /\ stack' \in Seq([obj : Objs, bridge : Objs \cup {0}, left : SUBSET Objs])
            /\ Len(stack') = n - 1
            /\ \A k \in 1 .. n - 1 : k \in 1 .. n /\ stack'[k] = stack[k]
            /\ \A k \in 1 .. n : k = n \/ k \in 1 .. n - 1
            /\ \A o \in Objs : Pending(o)' <=> Pending(o)
            /\ \A b, o \in Objs : PendingIn(b, o) => PendingIn(b, o)'
<1> DEFINE n == Len(stack)
           R == [obj : Objs, bridge : Objs \cup {0}, left : SUBSET Objs]
<1>1. /\ stack \in Seq(R) /\ n \in Nat /\ n >= 1 /\ n \in 1 .. n
      /\ stack[n].left = {}
      /\ stack' = SubSeq(stack, 1, n - 1)
      /\ phase = "traverse" /\ phase' = IF n = 1 THEN "discover" ELSE phase
      /\ UNCHANGED <<machine, numanodes>>
      /\ machine \in Machines
  <2>1. stack \in Seq(R) /\ n \in Nat /\ stack # <<>>
    BY LenProperties DEF LocalityTypeOK, Leave
  <2>2. n # 0
    BY <2>1, EmptySeq
  <2> QED BY <2>1, <2>2 DEF Leave, WalkInv
<1>2. \A k \in 1 .. n : stack[k] \in R /\ stack[k].obj \in Objs
  <2>1. \A k \in 1 .. n : stack[k] \in R
    BY <1>1, QueueMember
  <2> QED BY <2>1
<1> HIDE DEF R
<1>3. /\ stack' \in Seq(R) /\ Len(stack') = n - 1
      /\ \A k \in 1 .. n - 1 : k \in 1 .. n /\ stack'[k] = stack[k]
      /\ \A k \in 1 .. n : k = n \/ k \in 1 .. n - 1
  <2>1. n - 1 \in Nat /\ \A k \in 1 .. n - 1 : k \in 1 .. n /\ k + 1 - 1 = k
    BY <1>1
  <2>2. \A k \in 1 .. n - 1 : stack[k] \in R
    BY <1>2, <2>1
  <2>3. /\ stack' \in Seq(R) /\ Len(stack') = n - 1
        /\ \A k \in 1 .. n - 1 : stack'[k] = stack[k]
    <3> DEFINE m == n - 1
               t == SubSeq(stack, 1, m)
    <3>1. 1 \in Int /\ m \in Int /\ m >= 0 /\ t = stack'
      BY <1>1
    <3>2. \A i \in 1 .. m : stack[i] \in R
      BY <2>2
    <3> HIDE DEF m, t
    <3>3. /\ t \in Seq(R) /\ Len(t) = (IF 1 <= m THEN m - 1 + 1 ELSE 0)
          /\ \A i \in 1 .. m - 1 + 1 : t[i] = stack[1 + i - 1]
      BY <3>1, <3>2, SubSeqProperties DEF t
    <3>4. Len(t) = m /\ \A i \in 1 .. m : t[i] = stack[i]
      BY <3>1, <3>3
    <3> QED BY <3>1, <3>3, <3>4 DEF m
  <2> QED BY <1>1, <2>1, <2>3
<1>4. \A o \in Objs : Pending(o)' <=> Pending(o)
  BY <1>1, <1>3 DEF Pending, P
<1>5. \A b, o \in Objs : PendingIn(b, o) => PendingIn(b, o)'
  BY <1>1, <1>3 DEF PendingIn, P
<1> QED BY <1>1, <1>2, <1>3, <1>4, <1>5 DEF R

(* A call returns: when the last frame below a host bridge goes, its       *)
(* Numanode has all its devices.                                           *)
LEMMA LeaveWalk ==
  ASSUME LocalityTypeOK, WalkInv, Leave
  PROVE  WalkInv' /\ stack' \in Seq([obj : Objs, bridge : Objs \cup {0}, left : SUBSET Objs])
<1> DEFINE n == Len(stack)
           R == [obj : Objs, bridge : Objs \cup {0}, left : SUBSET Objs]
<1>1. /\ n \in Nat /\ n >= 1 /\ n \in 1 .. n
      /\ stack[n].left = {}
      /\ phase = "traverse" /\ phase' = IF n = 1 THEN "discover" ELSE phase
      /\ UNCHANGED <<machine, numanodes>>
      /\ machine \in Machines
  BY LeaveStack
<1>2. \A k \in 1 .. n : stack[k].obj \in Objs
  BY LeaveStack
<1>3. /\ stack' \in Seq(R) /\ Len(stack') = n - 1
      /\ \A k \in 1 .. n - 1 : k \in 1 .. n /\ stack'[k] = stack[k]
      /\ \A k \in 1 .. n : k = n \/ k \in 1 .. n - 1
  BY LeaveStack
<1> HIDE DEF R
<1>4. n = 1 => stack' = <<>>
  BY <1>1, <1>3, EmptySeq
<1>5. \A o \in Objs : Pending(o)' <=> Pending(o)
  BY LeaveStack
<1>6. \A b, o \in Objs : PendingIn(b, o) => PendingIn(b, o)'
  BY LeaveStack
<1>7. StackInv'
  <2>1. ASSUME NEW k \in 1 .. n - 1
        PROVE  stack'[k].left \cap P(stack'[n - 1].obj) = {}
    <3>1. /\ n - 1 \in 1 .. n - 1 /\ n - 1 < n
          /\ stack'[k] = stack[k] /\ stack'[n - 1] = stack[n - 1]
      BY <1>1, <1>3
    <3>2. stack[n - 1].obj \in P(stack[n].obj)
      BY <1>1, <1>3, <3>1 DEF WalkInv, StackInv, n
    <3>3. P(stack[n - 1].obj) \subseteq P(stack[n].obj)
      BY <1>1, <1>2, <3>2, PathFacts
    <3>4. stack[k].left \cap P(stack[n].obj) = {}
      BY <1>3 DEF WalkInv, StackInv, n
    <3> QED BY <3>1, <3>3, <3>4
  <2> QED BY <1>1, <1>3, <2>1 DEF WalkInv, StackInv, P, IsHostBridge, KidsIn, n
<1>8. PairInv'
  BY <1>1 DEF WalkInv, PairInv, Has, P, IsPCI, IsHostBridge
<1>9. OnceInv'
  BY <1>1, <1>5 DEF WalkInv, OnceInv, Has
<1>10. ActiveInv'
  <2> SUFFICES ASSUME NEW k \in 1 .. n - 1, NEW b \in P(stack[k].obj), IsHostBridge(b)
               PROVE  /\ numanodes # <<>>
                      /\ \A o \in Inside(b) : Has(Len(numanodes), b, o) \/ PendingIn(b, o)'
    <3>1. \A b : /\ IsHostBridge(b)' = IsHostBridge(b)
                 /\ Inside(b)' = Inside(b) /\ P(b)' = P(b)
      BY <1>1 DEF P, IsHostBridge, Inside, IsPCI
    <3> QED BY <1>1, <1>3, <3>1 DEF ActiveInv, Has
  <2>1. b \in Objs /\ \A o \in Inside(b) : o \in Objs
    BY <1>1, <1>2, <1>3, PathFacts DEF Inside
  <2>2. /\ numanodes # <<>>
        /\ \A o \in Inside(b) : Has(Len(numanodes), b, o) \/ PendingIn(b, o)
    BY <1>3 DEF WalkInv, ActiveInv, n
  <2> QED BY <2>1, <2>2, <1>6
<1>11. ClosedInv'
  <2> SUFFICES ASSUME NEW i \in 1 .. Len(numanodes), NEW b \in Objs, NEW o \in Objs,
                      Has(i, b, o), i = Len(numanodes), b \in P(stack[n].obj),
                      \A k \in 1 .. n - 1 : b \notin P(stack[k].obj)
               PROVE  \A e \in Inside(b) : Has(i, b, e)
    <3>1. ASSUME NEW i \in 1 .. Len(numanodes), NEW b \in Objs, NEW o \in Objs, Has(i, b, o)
          PROVE  \/ \A e \in Inside(b) : Has(i, b, e)
                 \/ /\ i = Len(numanodes)
                    /\ \E k \in 1 .. n - 1 : b \in P(stack[k].obj)
      <4>1. \/ \A e \in Inside(b) : Has(i, b, e)
            \/ i = Len(numanodes) /\ \E k \in 1 .. n : b \in P(stack[k].obj)
        BY <3>1 DEF WalkInv, ClosedInv, n
      <4> QED BY <4>1, <3>1, <1>3
    <3>2. \A b : Inside(b)' = Inside(b) /\ P(b)' = P(b)
      BY <1>1 DEF P, Inside, IsPCI
    <3> QED BY <3>1, <3>2, <1>1, <1>3 DEF ClosedInv, Has
  <2>1. IsHostBridge(b)
    BY DEF WalkInv, PairInv
  <2> SUFFICES ASSUME NEW e \in Inside(b), ~Has(i, b, e) PROVE FALSE
    OBVIOUS
  <2>2. PendingIn(b, e)
    BY <1>1, <2>1 DEF WalkInv, ActiveInv, n
  <2>3. PICK k \in 1 .. n : b \in P(stack[k].obj) /\ \E x \in stack[k].left : x \in P(e)
    BY <2>2 DEF PendingIn, n
  <2> QED BY <2>3, <1>1, <1>3
<1>12. SeenInv'
  <2> SUFFICES ASSUME NEW o \in Objs, IsPCI(o)
               PROVE  Pending(o)' \/ \E i \in 1 .. Len(numanodes) : \E b \in Objs : Has(i, b, o)
    BY <1>1 DEF SeenInv, IsPCI, Has
  <2> QED BY <1>1, <1>5 DEF WalkInv, SeenInv
<1> QED BY <1>1, <1>3, <1>4, <1>7, <1>8, <1>9, <1>10, <1>11, <1>12 DEF WalkInv, Walked, R

(* A read of back() of an empty vector ends the walk.                      *)
LEMMA UndefinedWalk ==
  ASSUME LocalityTypeOK, WalkInv, NEW c \in Objs, Visit(c), phase' = "undefined"
  PROVE  WalkInv' /\ UNCHANGED <<stack, numanodes>>
<1>1. UNCHANGED <<machine, stack, numanodes>>
  <2>1. phase = "traverse"
    BY DEF Visit
  <2> QED BY <2>1 DEF Visit
<1> QED BY <1>1 DEF WalkInv, StackInv, PairInv, OnceInv, ActiveInv, ClosedInv, SeenInv,
                    Walked, P, Pending, PendingIn, Has, Inside, IsPCI, IsHostBridge, KidsIn

(* Nothing after it touches what the walk has left.                        *)
LEMMA AfterWalk ==
  ASSUME WalkInv, phase \in Walked \cup {"thrown", "undefined"}, phase' \in Walked \cup {"thrown", "undefined"},
         phase \in {"thrown", "undefined"} => phase' = phase,
         UNCHANGED <<machine, stack, numanodes>>
  PROVE  WalkInv'
<1>1. /\ StackInv' /\ PairInv' /\ OnceInv' /\ ActiveInv' /\ ClosedInv'
      /\ phase \notin {"thrown", "undefined"} => SeenInv'
  BY DEF WalkInv, Walked, StackInv, PairInv, OnceInv, ActiveInv, ClosedInv, SeenInv,
         P, Pending, PendingIn, Has, Inside, IsPCI, IsHostBridge, KidsIn
<1>2. phase \in {"thrown", "undefined"} => SeenInv'
  BY DEF SeenInv
<1>3. phase' \in Walked \cup {"start"} => stack' = <<>> /\ phase' # "start"
  BY DEF WalkInv, Walked
<1>4. phase' # "start" /\ (machine \in Machines)'
  BY DEF WalkInv, Walked
<1> QED BY <1>1, <1>2, <1>3, <1>4 DEF WalkInv

-----------------------------------------------------------------------------
(* The groups: an entry is of a GPU on a host bridge that is done, and has *)
(* the EFA devices of that bridge and the cores of its Numanode ...        *)
EFAsOn(b) == {e \in Objs : IsEFA(e) /\ b \in P(e)}

Lists(a, i, b) == /\ Has(i, b, a.gpu)
                  /\ Range(a.efas) = EFAsOn(b)
                  /\ a.numanode = numanodes[i].numanode
                  /\ a.cores = numanodes[i].cores

EntryInv ==
  \A a \in gpuloc :
    /\ IsGPU(a.gpu)
    /\ \E i \in 1 .. node : \E b \in Objs : Lists(a, i, b) /\ (i = node => b \notin bridges)

(* ... a GPU has one ...                                                   *)
OneEntryInv == \A a, c \in gpuloc : a.gpu = c.gpu => a = c

(* ... and only those that are still to come have none.                    *)
GroupedInv ==
  \A i \in 1 .. node : \A b, g \in Objs :
    Has(i, b, g) /\ IsGPU(g) => \/ i = node /\ b \in bridges
                                \/ \E a \in gpuloc : a.gpu = g

Grouped == {"count", "match", "report", "peer", "pin"}

GroupInv == /\ EntryInv
            /\ OneEntryInv
            /\ GroupedInv
            /\ \A b \in bridges : /\ node \in 1 .. Len(numanodes)
                                  /\ \E d \in Objs : Has(node, b, d)
            /\ phase \in {"start", "traverse", "discover"} =>
                 node = 0 /\ bridges = {} /\ gpuloc = {}
            /\ phase \in Grouped => node = Len(numanodes) /\ bridges = {}

LocalityInv == LocalityTypeOK /\ WalkInv /\ GroupInv

(* No step changes what lies where.                                      *)
LEMMA SameTree ==
  ASSUME UNCHANGED machine
  PROVE  \A o : IsGPU(o)' = IsGPU(o) /\ P(o)' = P(o) /\ EFAsOn(o)' = EFAsOn(o)
BY DEF IsGPU, P, EFAsOn, IsEFA, IsOSDevType

LEMMA SameLists ==
  ASSUME UNCHANGED <<machine, numanodes>>
  PROVE  \A a, i, b : Lists(a, i, b)' = Lists(a, i, b)
BY SameTree DEF Lists, Has

(* The fields of a Numanode.                                             *)
LEMMA NumanodeType ==
  ASSUME LocalityTypeOK
  PROVE  /\ numanodes \in Seq(Node) /\ Len(numanodes) \in Nat
         /\ \A i \in 1 .. Len(numanodes) :
              /\ numanodes[i].numanode \in Objs \cup {0}
              /\ numanodes[i].cores \subseteq Objs
              /\ numanodes[i].pci \subseteq Objs \X Objs
<1>1. numanodes \in Seq(Node)
  BY DEF LocalityTypeOK, Node
<1>2. Len(numanodes) \in Nat /\ \A i \in 1 .. Len(numanodes) : numanodes[i] \in Node
  BY <1>1, QueueMember
<1> QED BY <1>1, <1>2 DEF Node

(* A finite set put in some order.                                         *)
LEMMA OrderFacts ==
  ASSUME NEW T, NEW S, S \subseteq T, IsFiniteSet(S), NEW order \in Orders(S)
  PROVE  /\ order \in Seq(T) /\ Range(order) = S
         /\ Len(order) = Cardinality(S) /\ Cardinality(S) \in Nat
<1>1. Cardinality(S) \in Nat
  BY FS_CardinalityType
<1> DEFINE n == Cardinality(S)
<1>2. n \in Nat /\ order \in [1 .. n -> S] /\ Range(order) = S
  BY <1>1 DEF Orders
<1> HIDE DEF n
<1> QED BY <1>2 DEF n

(* The Numanode that is at hand.                                           *)
LEMMA NextNodeGroups ==
  ASSUME LocalityInv, NextNode
  PROVE  GroupInv' /\ LocalityTypeOK'
<1> USE DEF LocalityInv
<1>1. /\ node \in 0 .. Len(numanodes) /\ Len(numanodes) \in Nat /\ node \in Nat
      /\ phase = "group" /\ bridges = {}
      /\ UNCHANGED <<machine, program, local, stack, numanodes, gpuloc, index, affinity, peer>>
  BY NumanodeType DEF NextNode, LocalityTypeOK
<1>2. CASE node < Len(numanodes)
  <2>1. /\ node' = node + 1 /\ phase' = phase
        /\ bridges' = {d[1] : d \in numanodes[node + 1].pci}
        /\ node + 1 \in 1 .. Len(numanodes)
    BY <1>1, <1>2 DEF NextNode
  <2>2. \A b \in bridges' : b \in Objs /\ \E d \in Objs : Has(node + 1, b, d)
    <3> SUFFICES ASSUME NEW p \in numanodes[node + 1].pci
                 PROVE  p[1] \in Objs /\ \E d \in Objs : Has(node + 1, p[1], d)
      BY <2>1
    <3>1. p \in Objs \X Objs
      BY <2>1, NumanodeType
    <3>2. p = <<p[1], p[2]>> /\ p[1] \in Objs /\ p[2] \in Objs
      BY <3>1
    <3> QED BY <3>2 DEF Has
  <2>3. \A b, g \in Objs : Has(node + 1, b, g) => b \in bridges'
    <3> SUFFICES ASSUME NEW b \in Objs, NEW g \in Objs, <<b, g>> \in numanodes[node + 1].pci
                 PROVE  b \in {d[1] : d \in numanodes[node + 1].pci}
      BY <2>1 DEF Has
    <3>1. b = <<b, g>>[1]
      OBVIOUS
    <3> QED BY <3>1
  <2>4. \A b \in bridges' : IsHostBridge(b)
    BY <2>1, <2>2 DEF WalkInv, PairInv
  <2>5. EntryInv'
    <3> SUFFICES ASSUME NEW a \in gpuloc
                 PROVE  /\ IsGPU(a.gpu)
                        /\ \E i \in 1 .. node + 1 : \E b \in Objs :
                             Lists(a, i, b) /\ (i = node + 1 => b \notin bridges')
      BY <1>1, <2>1, SameTree, SameLists DEF EntryInv
    <3>1. PICK i \in 1 .. node, b \in Objs : Lists(a, i, b)
      BY DEF GroupInv, EntryInv
    <3>2. i \in 1 .. node + 1 /\ i # node + 1
      BY <1>1
    <3> QED BY <3>1, <3>2 DEF GroupInv, EntryInv
  <2>6. GroupedInv'
    <3> SUFFICES ASSUME NEW i \in 1 .. node + 1, NEW b \in Objs, NEW g \in Objs,
                        Has(i, b, g), IsGPU(g)
                 PROVE  (i = node + 1 /\ b \in bridges') \/ \E a \in gpuloc : a.gpu = g
      BY <1>1, <2>1 DEF GroupedInv, Has, IsGPU
    <3>1. CASE i = node + 1
      BY <2>3, <3>1
    <3>2. CASE i \in 1 .. node
      BY <1>1, <3>2 DEF GroupInv, GroupedInv
    <3> QED BY <1>1, <3>1, <3>2
  <2>7. OneEntryInv'
    BY <1>1 DEF GroupInv, OneEntryInv
  <2>8. GroupInv'
    BY <1>1, <2>1, <2>2, <2>5, <2>6, <2>7 DEF GroupInv, Has, Grouped
  <2>9. LocalityTypeOK'
    BY <1>1, <2>1, <2>2, <2>4 DEF LocalityTypeOK, Kind, IsHostBridge
  <2> QED BY <2>8, <2>9
<1>3. CASE ~(node < Len(numanodes))
  <2>1. /\ node = Len(numanodes) /\ UNCHANGED <<node, bridges>>
        /\ phase' = IF program = "gpuloc" THEN "report" ELSE "count"
    BY <1>1, <1>3 DEF NextNode
  <2>2. EntryInv' /\ GroupedInv' /\ OneEntryInv'
    BY <1>1, <2>1, SameTree, SameLists DEF GroupInv, EntryInv, GroupedInv, OneEntryInv, Has
  <2>3. LocalityTypeOK'
    BY <1>1, <2>1 DEF LocalityTypeOK, Phases, Kind
  <2> QED BY <1>1, <2>1, <2>2, <2>3 DEF GroupInv
<1> QED BY <1>2, <1>3

(* What the walk recorded on a host bridge is all that lies on it.         *)
LEMMA DevicesAreInside ==
  ASSUME LocalityInv, phase = "group", NEW b \in bridges
  PROVE  /\ node \in 1 .. Len(numanodes) /\ b \in Objs /\ IsHostBridge(b)
         /\ Devices(b) = Inside(b)
         /\ \A d \in Devices(b) : d \in Objs /\ Has(node, b, d)
<1> USE DEF LocalityInv
<1>1. node \in 1 .. Len(numanodes) /\ b \in Objs /\ IsHostBridge(b)
  BY DEF GroupInv, LocalityTypeOK, Kind, IsHostBridge
<1>2. PICK d \in Objs : Has(node, b, d)
  BY DEF GroupInv
<1>3. Len(stack) = 0
  BY DEF WalkInv, Walked
<1>4. \A e \in Inside(b) : Has(node, b, e) /\ e \in Objs
  BY <1>1, <1>2, <1>3 DEF WalkInv, ClosedInv, Inside
<1>5. \A e \in Objs : Has(node, b, e) => e \in Inside(b)
  BY <1>1 DEF WalkInv, PairInv, Inside
<1> QED BY <1>1, <1>4, <1>5 DEF Devices, Has

(* One host bridge.                                                        *)
LEMMA BridgeGroups ==
  ASSUME LocalityInv, NEW b \in Objs, GroupBridge(b)
  PROVE  GroupInv' /\ LocalityTypeOK'
<1> USE DEF LocalityInv
<1> DEFINE efas == {d \in Devices(b) : IsEFA(d)}
           new(order) == {[gpu |-> g, numanode |-> numanodes[node].numanode,
                           cores |-> numanodes[node].cores, efas |-> order]
                          : g \in {d \in Devices(b) : IsGPU(d)}}
<1>1. /\ phase = "group" /\ b \in bridges
      /\ UNCHANGED <<machine, program, local, stack, numanodes, node, index, affinity, peer>>
      /\ \/ phase' = "thrown" /\ UNCHANGED <<bridges, gpuloc>>
         \/ /\ \E order \in Orders(efas) : gpuloc' = gpuloc \cup new(order)
            /\ bridges' = bridges \ {b}
            /\ phase' = phase
  BY DEF GroupBridge
<1>2. /\ node \in 1 .. Len(numanodes) /\ IsHostBridge(b)
      /\ Devices(b) = Inside(b) /\ \A d \in Devices(b) : d \in Objs /\ Has(node, b, d)
  BY <1>1, DevicesAreInside
<1>3. CASE phase' = "thrown" /\ UNCHANGED <<bridges, gpuloc>>
  <2>1. EntryInv' /\ GroupedInv' /\ OneEntryInv'
    BY <1>1, <1>3, SameTree, SameLists DEF GroupInv, EntryInv, GroupedInv, OneEntryInv, Has
  <2>2. GroupInv'
    BY <1>1, <1>3, <2>1 DEF GroupInv, Grouped, Has
  <2> QED BY <1>1, <1>3, <2>2 DEF LocalityTypeOK, Phases, Kind
<1>4. ASSUME NEW order \in Orders(efas), gpuloc' = gpuloc \cup new(order),
             bridges' = bridges \ {b}, phase' = phase
      PROVE  GroupInv' /\ LocalityTypeOK'
  <2>1. efas = EFAsOn(b)
    BY <1>2 DEF Inside, IsEFA, IsPCI, EFAsOn
  <2>2. order \in Seq(Objs) /\ Range(order) = efas
    <3>1. IsFiniteSet(efas) /\ efas \subseteq Objs
      BY <2>1, LocalityAssumption, FS_Subset DEF EFAsOn
    <3> HIDE DEF efas
    <3> QED BY <3>1, OrderFacts
  <2> HIDE DEF efas
  <2>3. \A a \in new(order) :
          /\ a.gpu \in Objs /\ IsGPU(a.gpu) /\ Has(node, b, a.gpu) /\ a.efas = order
          /\ a = [gpu |-> a.gpu, numanode |-> numanodes[node].numanode,
                  cores |-> numanodes[node].cores, efas |-> order]
    BY <1>2
  <2>4. \A g \in Objs : Has(node, b, g) /\ IsGPU(g) => \E a \in new(order) : a.gpu = g
    <3> SUFFICES ASSUME NEW g \in Objs, Has(node, b, g), IsGPU(g)
                 PROVE  \E a \in new(order) : a.gpu = g
      OBVIOUS
    <3>1. g \in {d \in Devices(b) : IsGPU(d)}
      BY DEF Devices, Has
    <3>2. [gpu |-> g, numanode |-> numanodes[node].numanode,
           cores |-> numanodes[node].cores, efas |-> order] \in new(order)
      BY <3>1
    <3> HIDE DEF new
    <3> QED BY <3>2
  <2>5. new(order) \subseteq Entry
    <3>1. /\ numanodes[node].numanode \in Objs \cup {0}
          /\ numanodes[node].cores \subseteq Objs
      BY <1>2, NumanodeType
    <3> QED BY <1>2, <2>2, <3>1 DEF Entry
  <2> HIDE DEF new
  <2>6. EntryInv'
    <3> SUFFICES ASSUME NEW a \in gpuloc'
                 PROVE  /\ IsGPU(a.gpu)
                        /\ \E i \in 1 .. node : \E c \in Objs :
                             Lists(a, i, c) /\ (i = node => c \notin bridges')
      BY <1>1, SameTree, SameLists DEF EntryInv
    <3>1. CASE a \in gpuloc
      BY <1>4, <3>1 DEF GroupInv, EntryInv
    <3>2. CASE a \in new(order)
      <4>1. node \in 1 .. node
        BY <1>2, NumanodeType
      <4>2. Lists(a, node, b) /\ b \notin bridges'
        BY <1>4, <2>1, <2>2, <2>3, <3>2 DEF Lists
      <4> QED BY <2>3, <3>2, <4>1, <4>2
    <3> QED BY <1>4, <3>1, <3>2
  <2>7. OneEntryInv'
    <3>1. ASSUME NEW a \in gpuloc, NEW c \in new(order), a.gpu = c.gpu PROVE FALSE
      <4>1. PICK i \in 1 .. node, x \in Objs : Has(i, x, a.gpu) /\ (i = node => x \notin bridges)
        BY DEF GroupInv, EntryInv, Lists
      <4>2. Has(node, b, a.gpu) /\ a.gpu \in Objs
        BY <2>3, <3>1
      <4>3. i \in 1 .. Len(numanodes)
        BY <1>2, NumanodeType
      <4>4. i = node
        BY <1>2, <4>1, <4>2, <4>3 DEF WalkInv, OnceInv
      <4>5. x = b
        <5>1. IsHostBridge(x) /\ x \in P(a.gpu) /\ b \in P(a.gpu)
          BY <1>2, <4>1, <4>2, <4>3 DEF WalkInv, PairInv
        <5> QED BY <5>1, <1>2, <4>2, PathFacts DEF WalkInv
      <4> QED BY <1>1, <4>1, <4>4, <4>5
    <3>2. \A a, c \in new(order) : a.gpu = c.gpu => a = c
      BY <2>3
    <3> QED BY <1>4, <3>1, <3>2 DEF GroupInv, OneEntryInv
  <2>8. GroupedInv'
    <3> SUFFICES ASSUME NEW i \in 1 .. node, NEW c \in Objs, NEW g \in Objs,
                        Has(i, c, g), IsGPU(g)
                 PROVE  (i = node /\ c \in bridges') \/ \E a \in gpuloc' : a.gpu = g
      BY <1>1 DEF GroupedInv, Has, IsGPU
    <3>1. CASE i = node /\ c = b
      BY <1>4, <2>4, <3>1
    <3>2. CASE ~(i = node /\ c = b)
      BY <1>4, <3>2 DEF GroupInv, GroupedInv
    <3> QED BY <3>1, <3>2
  <2>9. GroupInv'
    BY <1>1, <1>4, <2>6, <2>7, <2>8 DEF GroupInv, Has, Grouped
  <2>10. LocalityTypeOK'
    BY <1>1, <1>4, <2>5 DEF LocalityTypeOK, Kind
  <2> QED BY <2>9, <2>10
<1> QED BY <1>1, <1>3, <1>4

-----------------------------------------------------------------------------
(* Steps that do not group anything.                                       *)
LEMMA EarlyGroups ==
  ASSUME GroupInv, phase \in {"start", "traverse", "discover"},
         UNCHANGED <<node, bridges, gpuloc>>, phase' \notin Grouped
  PROVE  GroupInv'
<1>1. node = 0 /\ bridges = {} /\ gpuloc = {}
  BY DEF GroupInv
<1> QED BY <1>1 DEF GroupInv, EntryInv, OneEntryInv, GroupedInv

(* Steps after the grouping keep what it has built.                      *)
LEMMA LateGroups ==
  ASSUME GroupInv, UNCHANGED <<machine, numanodes, node, bridges, gpuloc>>,
         phase' \in Grouped => phase \in Grouped,
         phase' \in {"start", "traverse", "discover"} => phase' = phase
  PROVE  GroupInv'
<1>1. EntryInv' /\ GroupedInv' /\ OneEntryInv'
  BY SameTree, SameLists DEF GroupInv, EntryInv, GroupedInv, OneEntryInv, Has
<1> QED BY <1>1 DEF GroupInv, Has, Grouped

(* There are no more entries than objects.                                 *)
LEMMA EntriesFinite ==
  ASSUME LocalityInv
  PROVE  IsFiniteSet(gpuloc) /\ Cardinality(gpuloc) \in Nat
<1> DEFINE f == [a \in gpuloc |-> a.gpu]
<1>1. \A a \in gpuloc : a.gpu \in Objs
  BY DEF LocalityInv, LocalityTypeOK, Entry
<1>2. f \in Injection(gpuloc, Objs)
  BY <1>1 DEF LocalityInv, GroupInv, OneEntryInv, Injection, IsInjective
<1> HIDE DEF f
<1> QED BY <1>2, LocalityAssumption, FS_Injection, FS_CardinalityType

(* What NVML calls device i has at most one entry.                         *)
LEMMA OneMatch ==
  ASSUME LocalityInv, NEW i, NEW order \in Orders(Matches(i))
  PROVE  /\ order \in Seq(gpuloc) /\ Len(order) \in {0, 1}
         /\ Len(order) = 1 => /\ order[1] \in gpuloc
                              /\ machine.slot[order[1].gpu] = machine.nvml[i]
<1> DEFINE S == Matches(i)
<1>1. S \subseteq gpuloc /\ IsFiniteSet(S)
  BY EntriesFinite, FS_Subset DEF Matches
<1>2. ASSUME NEW a \in S, NEW c \in S PROVE a = c
  <2>1. /\ a \in gpuloc /\ c \in gpuloc
        /\ machine.slot[a.gpu] = machine.slot[c.gpu]
        /\ machine.func[a.gpu] = machine.func[c.gpu]
    BY <1>2 DEF Matches
  <2>2. /\ a.gpu \in Objs /\ machine.kind[a.gpu] = "gpu"
        /\ c.gpu \in Objs /\ machine.kind[c.gpu] = "gpu"
    BY <2>1 DEF LocalityInv, LocalityTypeOK, Entry, GroupInv, EntryInv, IsGPU
  <2>3. a.gpu = c.gpu
    BY <2>1, <2>2, MachineFacts DEF WellFormed, LocalityInv, WalkInv
  <2> QED BY <2>1, <2>3 DEF LocalityInv, GroupInv, OneEntryInv
<1>3. Cardinality(S) \in {0, 1}
  <2>1. S = {} \/ \E a : S = {a}
    BY <1>2
  <2> QED BY <2>1, FS_EmptySet, FS_Singleton
<1>4. /\ order \in Seq(gpuloc) /\ Range(order) = S /\ Len(order) = Cardinality(S)
  <2> HIDE DEF S
  <2> QED BY <1>1, OrderFacts DEF S
<1>5. Len(order) = 1 => order[1] \in S
  BY <1>4, QueueMember
<1> QED BY <1>1, <1>3, <1>4, <1>5 DEF Matches

(* Device after device: as long as every device had an entry, the list is  *)
(* in the order of NVML.                                                   *)
InOrder == \A i \in 1 .. Len(affinity) :
             affinity[i] \in gpuloc /\ machine.slot[affinity[i].gpu] = machine.nvml[i]

Matching == {"match", "peer", "pin"}

MatchInv ==
  /\ phase \in {"start", "traverse", "discover", "group", "count"} =>
       index = 1 /\ affinity = <<>>
  /\ phase \in Matching => /\ Len(machine.nvml) = Cardinality(gpuloc)
                           /\ index <= Len(machine.nvml) + 1
                           /\ Len(affinity) < index
                           /\ Len(affinity) = index - 1 => InOrder
  /\ phase \in {"peer", "pin"} => /\ index = Len(machine.nvml) + 1
                                  /\ Len(affinity) = Cardinality(gpuloc)

(* Arithmetic of the two counters of the matching.                       *)
LEMMA OneMore ==
  \A l, i \in Nat : \A d \in {0, 1} :
    l < i => /\ l + d < i + 1
             /\ l + d = (i + 1) - 1 => l = i - 1 /\ d = 1
OBVIOUS

(* A step of the matching adds at most one entry, at NVML's index.       *)
LEMMA MatchStep ==
  ASSUME LocalityInv, MatchInv, MatchGPU
  PROVE  MatchInv' /\ LocalityTypeOK'
<1>1. /\ phase = "match" /\ index <= Len(machine.nvml)
      /\ UNCHANGED <<machine, program, local, stack, numanodes, node, bridges, gpuloc, peer>>
      /\ \/ /\ \E order \in Orders(Matches(index)) : affinity' = affinity \o order
            /\ index' = index + 1 /\ phase' = phase
         \/ phase' = "thrown" /\ UNCHANGED <<index, affinity>>
  BY DEF MatchGPU
<1>2. CASE phase' = "thrown" /\ UNCHANGED <<index, affinity>>
  <2>1. MatchInv'
    BY <1>2 DEF MatchInv, Matching
  <2>2. LocalityTypeOK'
    BY <1>1, <1>2 DEF LocalityInv, LocalityTypeOK, Phases, Kind
  <2> QED BY <2>1, <2>2
<1>3. ASSUME NEW order \in Orders(Matches(index)), affinity' = affinity \o order,
             index' = index + 1, phase' = phase
      PROVE  MatchInv' /\ LocalityTypeOK'
  <2>1. /\ order \in Seq(gpuloc) /\ Len(order) \in {0, 1}
        /\ Len(order) = 1 => /\ order[1] \in gpuloc
                             /\ machine.slot[order[1].gpu] = machine.nvml[index]
    BY OneMatch
  <2>2. /\ affinity \in Seq(Entry) /\ Len(affinity) \in Nat /\ index \in Nat \ {0}
        /\ gpuloc \subseteq Entry /\ Len(machine.nvml) \in Nat
    BY LenProperties, MachineFacts DEF LocalityInv, LocalityTypeOK, WalkInv, Machine
  <2>3. order \in Seq(Entry)
    <3>1. \A k \in 1 .. Len(order) : order[k] \in Entry
      BY <2>1, <2>2, QueueMember
    <3> QED BY <2>1, <3>1
  <2>4. affinity' \in Seq(Entry) /\ Len(affinity') = Len(affinity) + Len(order)
    BY <1>3, <2>2, <2>3
  <2>9. /\ Len(affinity) < index
        /\ Len(affinity) = index - 1 => InOrder
    BY <1>1 DEF MatchInv, Matching
  <2>10. /\ Len(affinity') < index'
         /\ Len(affinity') = index' - 1 => Len(affinity) = index - 1 /\ Len(order) = 1
    <3>1. Len(order) \in {0, 1} /\ Len(affinity) \in Nat /\ index \in Nat
      BY <2>1, <2>2
    <3>2. index' = index + 1 /\ Len(affinity') = Len(affinity) + Len(order)
      BY <1>3, <2>4
    <3>3. Len(affinity) < index
      BY <2>9
    <3>4. /\ Len(affinity) + Len(order) < index + 1
          /\ Len(affinity) + Len(order) = (index + 1) - 1
               => Len(affinity) = index - 1 /\ Len(order) = 1
      BY <3>1, <3>3, OneMore
    <3> QED BY <3>2, <3>4
  <2>5. ASSUME Len(affinity') = index' - 1 PROVE InOrder'
    <3>1. Len(affinity) = index - 1 /\ Len(order) = 1 /\ InOrder
      BY <2>5, <2>9, <2>10
    <3>2. affinity'[index] = order[1] /\ \A k \in 1 .. Len(affinity) : affinity'[k] = affinity[k]
      <4>1. index = Len(affinity) + 1 /\ index \in 1 .. Len(affinity) + Len(order)
        BY <2>2, <3>1
      <4>2. \A k \in 1 .. Len(affinity) + Len(order) : (affinity \o order)[k] =
              IF k <= Len(affinity) THEN affinity[k] ELSE order[k - Len(affinity)]
        BY <2>2, <2>3, ConcatProperties
      <4>3. Len(affinity) \in Nat /\ Len(order) \in Nat
        BY <2>2, <3>1
      <4>4. index > Len(affinity) /\ index - Len(affinity) = 1
        BY <4>1, <4>3
      <4>5. (affinity \o order)[index] = order[1]
        BY <4>1, <4>2, <4>3, <4>4
      <4>6. \A k \in 1 .. Len(affinity) : (affinity \o order)[k] = affinity[k]
        BY <4>2, <4>3
      <4>7. affinity' = affinity \o order
        BY <2>1, <2>2, <1>3
      <4> QED BY <4>5, <4>6, <4>7
    <3>3. \A k \in 1 .. Len(affinity') : k = index \/ k \in 1 .. Len(affinity)
      BY <2>2, <2>4, <3>1
    <3> QED BY <1>1, <2>1, <3>1, <3>2, <3>3 DEF InOrder
  <2>6. index' <= Len(machine.nvml) + 1 /\ Len(affinity') < index'
    <3>1. index + 1 <= Len(machine.nvml) + 1
      BY <1>1, <2>2
    <3> QED BY <1>3, <2>10, <3>1
  <2>7. MatchInv'
    BY <1>1, <1>3, <2>5, <2>6 DEF MatchInv, Matching
  <2>8. LocalityTypeOK'
    BY <1>1, <1>3, <2>2, <2>4 DEF LocalityInv, LocalityTypeOK, Kind
  <2> QED BY <2>7, <2>8
<1> QED BY <1>1, <1>2, <1>3

(* What a Peer takes from the lists is there, once the three indices are.  *)
LEMMA ChooseType ==
  ASSUME LocalityInv, Choose
  PROVE  LocalityTypeOK'
<1> USE DEF LocalityInv
<1>1. UNCHANGED <<machine, program, local, stack, numanodes, node, bridges, gpuloc, index, affinity>>
  BY DEF Choose
<1>2. CASE phase' = "undefined" /\ UNCHANGED peer
  BY <1>1, <1>2 DEF LocalityTypeOK, Phases, Kind
<1>3. CASE /\ phase' = "pin"
           /\ local.rank < Len(affinity)
           /\ local.rank < Len(Own.efas)
           /\ \E core \in Own.cores :
                peer' = [gpu |-> Own.gpu, core |-> core, nic |-> OwnNic,
                         device |-> CurrentDevice(local.rank)]
  <2>1. local.rank \in {0, 1}
    BY DEF LocalityTypeOK
  <2>2. Own \in Entry
    <3>1. affinity \in Seq(Entry) /\ Len(affinity) \in Nat
      BY LenProperties DEF LocalityTypeOK
    <3>2. local.rank + 1 \in 1 .. Len(affinity)
      BY <1>3, <2>1, <3>1
    <3> QED BY <3>1, <3>2, QueueMember DEF Own
  <2>3. OwnNic \in Objs
    <3>1. Own.efas \in Seq(Objs) /\ Len(Own.efas) \in Nat
      BY <2>2, LenProperties DEF Entry
    <3>2. local.rank + 1 \in 1 .. Len(Own.efas)
      BY <1>3, <2>1, <3>1
    <3> HIDE DEF LocalityInv
    <3> QED BY <3>1, <3>2, QueueMember DEF OwnNic
  <2>4. CurrentDevice(local.rank) \in Objs \cup {0}
    <3>1. machine.cuda \in Seq(Objs) /\ Len(machine.cuda) \in Nat
      BY LenProperties, MachineFacts DEF WalkInv, Machine
    <3>2. machine.cuda # <<>> => 1 \in 1 .. Len(machine.cuda)
      BY <3>1, EmptySeq
    <3>3. local.rank < Len(machine.cuda) => local.rank + 1 \in 1 .. Len(machine.cuda)
      BY <2>1, <3>1
    <3>4. \A i \in 1 .. Len(machine.cuda) : machine.cuda[i] \in Objs
      BY <3>1, QueueMember
    <3> QED BY <3>2, <3>3, <3>4 DEF CurrentDevice
  <2>5. Own.gpu \in Objs /\ Own.cores \subseteq Objs
    BY <2>2 DEF Entry
  <2>6. peer' \in [gpu : Objs \cup {0}, core : Objs \cup {0}, nic : Objs \cup {0},
                   device : Objs \cup {0}]
    BY <1>3, <2>3, <2>4, <2>5
  <2> QED BY <1>1, <1>3, <2>6 DEF LocalityTypeOK, Phases, Kind
<1> QED BY <1>2, <1>3 DEF Choose

-----------------------------------------------------------------------------
FullInv == LocalityInv /\ MatchInv

(* The invariant holds at first ...                                      *)
LEMMA LocalityInitInv == LocalityInit => FullInv
<1> SUFFICES ASSUME LocalityInit PROVE FullInv
  OBVIOUS
<1> USE DEF LocalityInit
<1>1. /\ Len(stack) = 0 /\ Len(numanodes) = 0
      /\ stack \in Seq([obj : Objs, bridge : Objs \cup {0}, left : SUBSET Objs])
      /\ numanodes \in Seq(Node)
  OBVIOUS
<1>2. LocalityTypeOK
  <2>1. affinity \in Seq(Entry) /\ machine \in Machine
    BY LocalityAssumption
  <2> QED BY <1>1, <2>1 DEF LocalityTypeOK, Phases, Node, NoPeer
<1>3. WalkInv
  BY <1>1 DEF WalkInv, StackInv, PairInv, OnceInv, ActiveInv, ClosedInv, SeenInv
<1>4. GroupInv
  BY DEF GroupInv, EntryInv, OneEntryInv, GroupedInv, Grouped
<1>5. MatchInv
  BY DEF MatchInv, Matching
<1> QED BY <1>2, <1>3, <1>4, <1>5 DEF FullInv, LocalityInv

(* ... and every step keeps it.                                          *)
LEMMA LocalityStepInv == FullInv /\ [LocalityNext]_localityVars => FullInv'
<1> SUFFICES ASSUME FullInv, [LocalityNext]_localityVars PROVE FullInv'
  OBVIOUS
<1> USE DEF FullInv, LocalityInv
<1>1. CASE Load
  <2>1. WalkInv' /\ stack' \in Seq([obj : Objs, bridge : Objs \cup {0}, left : SUBSET Objs])
    BY <1>1, LoadWalk
  <2>2. /\ phase = "start" /\ phase' \in {"traverse", "thrown"}
        /\ UNCHANGED <<machine, program, local, numanodes, node, bridges,
                       gpuloc, index, affinity, peer>>
    BY <1>1 DEF Load
  <2>3. LocalityTypeOK'
    BY <2>1, <2>2 DEF LocalityTypeOK, Phases, Kind
  <2>4. GroupInv'
    BY <2>2, EarlyGroups DEF Grouped
  <2>5. MatchInv'
    BY <2>2 DEF MatchInv, Matching
  <2> QED BY <2>1, <2>3, <2>4, <2>5
<1>2. ASSUME NEW c \in Objs, Visit(c) PROVE FullInv'
  <2>1. /\ phase = "traverse" /\ phase' \in {"traverse", "undefined"}
        /\ UNCHANGED <<machine, program, local, node, bridges, gpuloc, index, affinity, peer>>
    BY <1>2 DEF Visit
  <2>2. /\ WalkInv'
        /\ stack' \in Seq([obj : Objs, bridge : Objs \cup {0}, left : SUBSET Objs])
        /\ numanodes' \in Seq(Node) /\ node \in 0 .. Len(numanodes')
    <3>1. CASE phase' = "undefined"
      BY <1>2, <3>1, UndefinedWalk, NumanodeType DEF LocalityTypeOK
    <3>2. CASE phase' # "undefined"
      <4>1. node \in 0 .. Len(numanodes)
        BY DEF LocalityTypeOK
      <4>2. /\ WalkInv' /\ numanodes' \in Seq(Node) /\ Len(numanodes) <= Len(numanodes')
            /\ stack' \in Seq([obj : Objs, bridge : Objs \cup {0}, left : SUBSET Objs])
        BY <1>2, <3>2, VisitWalk
      <4>3. Len(numanodes') \in Nat /\ Len(numanodes) \in Nat
        BY <4>2, LenProperties, NumanodeType
      <4> QED BY <4>1, <4>2, <4>3
    <3> QED BY <3>1, <3>2
  <2>3. LocalityTypeOK'
    BY <2>1, <2>2 DEF LocalityTypeOK, Phases, Kind, Node
  <2>4. GroupInv'
    BY <2>1, EarlyGroups DEF Grouped
  <2>5. MatchInv'
    BY <2>1 DEF MatchInv, Matching
  <2> QED BY <2>2, <2>3, <2>4, <2>5
<1>3. CASE Leave
  <2>1. WalkInv' /\ stack' \in Seq([obj : Objs, bridge : Objs \cup {0}, left : SUBSET Objs])
    BY <1>3, LeaveWalk
  <2>2. /\ phase = "traverse" /\ phase' \in {"traverse", "discover"}
        /\ UNCHANGED <<machine, program, local, numanodes, node, bridges,
                       gpuloc, index, affinity, peer>>
    BY <1>3 DEF Leave
  <2>3. LocalityTypeOK'
    BY <2>1, <2>2 DEF LocalityTypeOK, Phases, Kind
  <2>4. GroupInv'
    BY <2>2, EarlyGroups DEF Grouped
  <2>5. MatchInv'
    BY <2>2 DEF MatchInv, Matching
  <2> QED BY <2>1, <2>3, <2>4, <2>5
<1>4. CASE Discover
  <2>1. /\ phase = "discover" /\ phase' \in {"group", "thrown"}
        /\ UNCHANGED <<machine, program, local, stack, numanodes, node, bridges,
                       gpuloc, index, affinity, peer>>
    BY <1>4 DEF Discover
  <2>2. WalkInv'
    BY <2>1, AfterWalk DEF Walked
  <2>3. GroupInv'
    BY <2>1, EarlyGroups DEF Grouped
  <2>4. LocalityTypeOK' /\ MatchInv'
    BY <2>1 DEF LocalityTypeOK, Phases, Kind, MatchInv, Matching
  <2> QED BY <2>2, <2>3, <2>4
<1>5. CASE NextNode
  <2>1. /\ phase = "group" /\ phase' \in {"group", "report", "count"}
        /\ UNCHANGED <<machine, stack, numanodes, index, affinity>>
    BY <1>5 DEF NextNode
  <2>2. WalkInv'
    BY <2>1, AfterWalk DEF Walked
  <2>3. MatchInv'
    BY <2>1 DEF MatchInv, Matching
  <2> QED BY <1>5, <2>2, <2>3, NextNodeGroups
<1>6. ASSUME NEW b \in Objs, GroupBridge(b) PROVE FullInv'
  <2>1. /\ phase = "group" /\ phase' \in {"group", "thrown"}
        /\ UNCHANGED <<machine, stack, numanodes, index, affinity>>
    BY <1>6 DEF GroupBridge
  <2>2. WalkInv'
    BY <2>1, AfterWalk DEF Walked
  <2>3. MatchInv'
    BY <2>1 DEF MatchInv, Matching
  <2> QED BY <1>6, <2>2, <2>3, BridgeGroups
<1>7. CASE CountGPUs
  <2>1. /\ phase = "count"
        /\ \/ phase' = "match" /\ Len(machine.nvml) = Cardinality(gpuloc)
           \/ phase' = "thrown"
        /\ UNCHANGED <<machine, program, local, stack, numanodes, node, bridges,
                       gpuloc, index, affinity, peer>>
    BY <1>7 DEF CountGPUs
  <2>2. WalkInv'
    BY <2>1, AfterWalk DEF Walked
  <2>3. GroupInv'
    BY <2>1, LateGroups DEF Grouped
  <2>4. LocalityTypeOK'
    BY <2>1 DEF LocalityTypeOK, Phases, Kind
  <2>5. MatchInv'
    <3>1. index = 1 /\ affinity = <<>> /\ Len(affinity) = 0 /\ Len(machine.nvml) \in Nat
      BY <2>1, LenProperties, MachineFacts DEF MatchInv, WalkInv, Machine
    <3>2. index <= Len(machine.nvml) + 1 /\ Len(affinity) < index /\ InOrder
      BY <3>1 DEF InOrder
    <3> QED BY <2>1, <3>2 DEF MatchInv, Matching, InOrder
  <2> QED BY <2>2, <2>3, <2>4, <2>5
<1>8. CASE MatchGPU
  <2>1. /\ phase = "match" /\ phase' \in {"match", "thrown"}
        /\ UNCHANGED <<machine, stack, numanodes, node, bridges, gpuloc>>
    BY <1>8 DEF MatchGPU
  <2>2. WalkInv'
    BY <2>1, AfterWalk DEF Walked
  <2>3. GroupInv'
    BY <2>1, LateGroups DEF Grouped
  <2> QED BY <1>8, <2>2, <2>3, MatchStep
<1>9. CASE EndMatch
  <2>1. /\ phase = "match" /\ phase' \in {"thrown", "report", "peer"}
        /\ phase' = "peer" => Len(affinity) = Cardinality(gpuloc)
        /\ index > Len(machine.nvml)
        /\ UNCHANGED <<machine, program, local, stack, numanodes, node, bridges,
                       gpuloc, index, affinity, peer>>
    BY <1>9 DEF EndMatch, AllMatched
  <2>2. WalkInv'
    BY <2>1, AfterWalk DEF Walked
  <2>3. GroupInv'
    BY <2>1, LateGroups DEF Grouped
  <2>4. LocalityTypeOK'
    BY <2>1 DEF LocalityTypeOK, Phases, Kind
  <2>5. index = Len(machine.nvml) + 1
    <3>1. Len(machine.nvml) \in Nat /\ index \in Nat
      BY LenProperties, MachineFacts DEF WalkInv, Machine, LocalityTypeOK
    <3>2. index <= Len(machine.nvml) + 1
      BY <2>1 DEF MatchInv, Matching
    <3> QED BY <2>1, <3>1, <3>2
  <2>6. MatchInv'
    BY <2>1, <2>5 DEF MatchInv, Matching, InOrder
  <2> QED BY <2>2, <2>3, <2>4, <2>6
<1>10. CASE Report
  <2>1. /\ phase = "report" /\ phase' \in {"done", "undefined"}
        /\ UNCHANGED <<machine, program, local, stack, numanodes, node, bridges,
                       gpuloc, index, affinity, peer>>
    BY <1>10 DEF Report
  <2>2. WalkInv' /\ GroupInv'
    BY <2>1, AfterWalk, LateGroups DEF Walked, Grouped
  <2>3. LocalityTypeOK' /\ MatchInv'
    BY <2>1 DEF LocalityTypeOK, Phases, Kind, MatchInv, Matching
  <2> QED BY <2>2, <2>3
<1>11. CASE Choose
  <2>1. /\ phase = "peer" /\ phase' \in {"pin", "undefined"}
        /\ UNCHANGED <<machine, program, local, stack, numanodes, node, bridges,
                       gpuloc, index, affinity>>
    BY <1>11 DEF Choose
  <2>2. WalkInv' /\ GroupInv'
    BY <2>1, AfterWalk, LateGroups DEF Walked, Grouped
  <2>3. MatchInv'
    BY <2>1 DEF MatchInv, Matching, InOrder
  <2> QED BY <1>11, <2>2, <2>3, ChooseType
<1>12. CASE Pin
  <2>1. /\ phase = "pin" /\ phase' \in {"done", "thrown"}
        /\ UNCHANGED <<machine, program, local, stack, numanodes, node, bridges,
                       gpuloc, index, affinity, peer>>
    BY <1>12 DEF Pin
  <2>2. WalkInv' /\ GroupInv'
    BY <2>1, AfterWalk, LateGroups DEF Walked, Grouped
  <2>3. LocalityTypeOK' /\ MatchInv'
    BY <2>1 DEF LocalityTypeOK, Phases, Kind, MatchInv, Matching
  <2> QED BY <2>2, <2>3
<1>13. CASE UNCHANGED localityVars
  <2>1. /\ UNCHANGED <<machine, program, local, phase, stack, numanodes>>
        /\ UNCHANGED <<node, bridges, gpuloc, index, affinity, peer>>
    BY <1>13 DEF localityVars
  <2>2. WalkInv'
    <3>1. StackInv' /\ PairInv' /\ OnceInv'
      BY <2>1 DEF WalkInv, StackInv, PairInv, OnceInv, P, Pending, Has, IsPCI,
                  IsHostBridge, KidsIn
    <3>2. ActiveInv' /\ ClosedInv'
      BY <2>1 DEF WalkInv, ActiveInv, ClosedInv, P, PendingIn, Has, Inside, IsPCI, IsHostBridge
    <3>3. SeenInv'
      BY <2>1 DEF WalkInv, SeenInv, P, Pending, Has, IsPCI
    <3> QED BY <2>1, <3>1, <3>2, <3>3 DEF WalkInv
  <2>3. GroupInv'
    BY <2>1, LateGroups
  <2>4. LocalityTypeOK' /\ MatchInv'
    BY <2>1 DEF LocalityTypeOK, Kind, MatchInv, InOrder
  <2> QED BY <2>2, <2>3, <2>4
<1> QED BY <1>1, <1>2, <1>3, <1>4, <1>5, <1>6, <1>7, <1>8, <1>9, <1>10, <1>11, <1>12, <1>13
        DEF LocalityNext

LEMMA FullInvHolds == LocalitySpec => []FullInv
BY LocalityInitInv, LocalityStepInv, PTL DEF LocalitySpec

(* Every variable keeps its type.                                          *)
THEOREM LocalityTyped == LocalitySpec => []LocalityTypeOK
<1>1. FullInv => LocalityTypeOK
  BY DEF FullInv, LocalityInv
<1> QED BY <1>1, FullInvHolds, PTL

-----------------------------------------------------------------------------
(* An entry's bridge is its GPU's, the only one above it.                *)
LEMMA EntriesShareBridge == FullInv => SameHostBridge
<1> SUFFICES ASSUME FullInv, NEW a \in gpuloc
             PROVE  Range(a.efas) = {e \in Objs : /\ IsEFA(e)
                                                  /\ Below(e, "hostbridge") = Below(a.gpu, "hostbridge")}
  BY DEF SameHostBridge
<1> USE DEF FullInv, LocalityInv
<1>1. PICK i \in 1 .. node, b \in Objs : Has(i, b, a.gpu) /\ Range(a.efas) = EFAsOn(b)
  BY DEF GroupInv, EntryInv, Lists
<1>2. a.gpu \in Objs /\ i \in 1 .. Len(numanodes)
  BY NumanodeType DEF LocalityTypeOK, Entry
<1>3. IsHostBridge(b) /\ b \in P(a.gpu)
  BY <1>1, <1>2 DEF WalkInv, PairInv
<1>4. \A e \in Objs : b \in P(e) => Below(e, "hostbridge") = {b}
  BY <1>3, PathFacts DEF Below, P, IsHostBridge, WalkInv
<1>5. \A e \in Objs : b \in Below(e, "hostbridge") => b \in P(e)
  BY DEF Below, P
<1> QED BY <1>1, <1>2, <1>3, <1>4, <1>5 DEF EFAsOn

(* The EFA devices listed for a GPU are exactly those on its host bridge,  *)
(* on every machine and in every order of the containers.                  *)
THEOREM BridgeShared == LocalitySpec => []SameHostBridge
BY FullInvHolds, EntriesShareBridge, PTL

(* As many entries as indices, at most one for each: exactly one.        *)
LEMMA ListsInNvmlOrder == FullInv => ByNvmlIndex
<1> SUFFICES ASSUME FullInv, phase \in {"peer", "pin"}
             PROVE  /\ Len(affinity) = Len(machine.nvml)
                    /\ \A i \in 1 .. Len(affinity) :
                         machine.slot[affinity[i].gpu] = machine.nvml[i]
                    /\ \A g \in Kind("gpu") : \E i \in 1 .. Len(affinity) :
                         /\ affinity[i].gpu = g
                         /\ \A j \in 1 .. Len(affinity) : affinity[j].gpu = g => i = j
  BY DEF ByNvmlIndex
<1> USE DEF FullInv, LocalityInv
<1> DEFINE n == Len(affinity)
<1>1. /\ n = Len(machine.nvml) /\ n = Cardinality(gpuloc) /\ n \in Nat /\ InOrder
      /\ affinity \in Seq(Entry) /\ DOMAIN affinity = 1 .. n
      /\ machine.nvml \in Seq(Nat) /\ DOMAIN machine.nvml = 1 .. n
  <2>1. /\ affinity \in Seq(Entry) /\ n \in Nat /\ DOMAIN affinity = 1 .. n
        /\ machine.nvml \in Seq(Nat) /\ DOMAIN machine.nvml = 1 .. Len(machine.nvml)
    BY LenProperties, MachineFacts DEF LocalityTypeOK, WalkInv, Machine
  <2>2. /\ Len(machine.nvml) = Cardinality(gpuloc) /\ n = Cardinality(gpuloc)
        /\ index = Len(machine.nvml) + 1 /\ (n = index - 1 => InOrder)
    BY DEF MatchInv, Matching
  <2>3. n = index - 1
    BY <2>1, <2>2
  <2> QED BY <2>1, <2>2, <2>3
<1> HIDE DEF n
<1>2. \A i \in 1 .. n : affinity[i] \in gpuloc /\ machine.slot[affinity[i].gpu] = machine.nvml[i]
  BY <1>1 DEF InOrder, n
<1>3. \A i, j \in 1 .. n : machine.nvml[i] = machine.nvml[j] => i = j
  BY <1>1, MachineFacts DEF WellFormed, IsInjective, WalkInv
<1>4. \A a \in gpuloc : \E i \in 1 .. n : affinity[i] = a
  <2>1. affinity \in [1 .. n -> gpuloc]
    BY <1>1, <1>2
  <2>2. affinity \in Injection(1 .. n, gpuloc)
    <3>1. \A i, j \in 1 .. n : affinity[i] = affinity[j] => i = j
      BY <1>2, <1>3
    <3> QED BY <1>1, <2>1, <3>1 DEF Injection, IsInjective
  <2>3. Cardinality(1 .. n) = n
    BY <1>1, FS_Interval
  <2>4. affinity \in Surjection(1 .. n, gpuloc)
    BY <1>1, <2>2, <2>3, EntriesFinite, FS_Injection
  <2> QED BY <2>4 DEF Surjection
<1>5. ASSUME NEW g \in Kind("gpu") PROVE \E a \in gpuloc : a.gpu = g
  <2>1. g \in Objs /\ IsGPU(g) /\ IsPCI(g)
    BY DEF Kind, IsGPU, IsPCI
  <2>2. Len(stack) = 0 /\ node = Len(numanodes) /\ bridges = {}
    BY DEF WalkInv, Walked, GroupInv, Grouped
  <2>3. \E i \in 1 .. Len(numanodes) : \E b \in Objs : Has(i, b, g)
    BY <2>1, <2>2 DEF WalkInv, SeenInv, Pending
  <2> QED BY <2>1, <2>2, <2>3 DEF GroupInv, GroupedInv
<1>6. ASSUME NEW g \in Kind("gpu")
      PROVE  \E i \in 1 .. n : /\ affinity[i].gpu = g
                               /\ \A j \in 1 .. n : affinity[j].gpu = g => i = j
  <2>1. PICK i \in 1 .. n : affinity[i].gpu = g
    BY <1>4, <1>5
  <2> QED BY <2>1, <1>2, <1>3
<1> QED BY <1>1, <1>2, <1>6 DEF n

(* GetGPUAffinity()[i] is NVML's device i, and every GPU is in the list.   *)
THEOREM InNvmlOrder == LocalitySpec => []ByNvmlIndex
BY FullInvHolds, ListsInNvmlOrder, PTL

-----------------------------------------------------------------------------
(* Where the cores and the NUMA nodes go.  o lies in no package but p.     *)
IsPackage(o) == machine.kind[o] = "package"

Only(o, p) == \A q \in P(o) : IsPackage(q) => q = p

(* Numanode i is that of package p.  While the walk is below p it is the   *)
(* last one ...                                                            *)
OnPath(i, p) ==
  \A k \in 1 .. Len(stack) : \A q \in P(stack[k].obj) :
    IsPackage(q) => (q = p <=> i = Len(numanodes))

(* ... what is recorded in it lies in no other package ...                 *)
Recorded(i, p) ==
  /\ \A c \in numanodes[i].cores : machine.kind[c] = "core" /\ Only(c, p)
  /\ numanodes[i].numanode # 0 => /\ machine.kind[numanodes[i].numanode] = "numa"
                                  /\ Only(numanodes[i].numanode, p)
  /\ \A b, o \in Objs : Has(i, b, o) => Only(o, p)

(* ... and nothing below p is missed.                                      *)
Complete(i, p) ==
  \A o \in Objs : p \in P(o) =>
    /\ machine.kind[o] = "core" => o \in numanodes[i].cores \/ PendingIn(p, o)
    /\ machine.kind[o] = "numa" => numanodes[i].numanode # 0 \/ PendingIn(p, o)

Packed(i, p) == /\ IsPackage(p) /\ ~Pending(p)
                /\ OnPath(i, p) /\ Recorded(i, p) /\ Complete(i, p)

PackInv ==
  /\ \A i \in 1 .. Len(numanodes) : \E p \in Objs : Packed(i, p)
  /\ \A k \in 1 .. Len(stack) : \A q \in P(stack[k].obj) : IsPackage(q) => numanodes # <<>>

(* Until the first package the walk is above one that is still to come.    *)
FirstInv ==
  Placed /\ numanodes = <<>> /\ stack # <<>> =>
    \E x \in stack[Len(stack)].left : \E p \in Kind("package") : x \in P(p)

(* Nothing but groups is above a package, and the root above all.          *)
LEMMA AbovePackages ==
  ASSUME machine \in Machines, NEW p \in Objs, IsPackage(p)
  PROVE  /\ \A q \in P(p) : IsPackage(q) => q = p
         /\ \A x \in P(p) : machine.up[x] # 0 => x = p \/ machine.kind[x] = "group"
<1>1. \A a \in P(p) \ {p} : machine.kind[a] \in {"machine", "group"}
  BY MachineFacts DEF P, WellFormed, IsPackage
<1>2. \A o \in Objs : machine.kind[o] = "machine" => machine.up[o] = 0
  BY MachineFacts DEF WellFormed
<1>3. P(p) \subseteq Objs
  BY PathFacts
<1> QED BY <1>1, <1>2, <1>3 DEF IsPackage

(* What a call of Traverse records but PCI devices.                        *)
LEMMA RecordNormal ==
  ASSUME LocalityTypeOK, NEW c \in Objs, NEW b \in Objs \cup {0},
         UsesBack(c) => numanodes # <<>>,
         numanodes' = Record(c, b)
  PROVE  /\ \A i \in 1 .. Len(numanodes) :
              /\ numanodes'[i].cores = IF machine.kind[c] = "core" /\ i = Len(numanodes)
                                       THEN numanodes[i].cores \cup {c} ELSE numanodes[i].cores
              /\ numanodes'[i].numanode = IF machine.kind[c] = "numa" /\ i = Len(numanodes)
                                          THEN c ELSE numanodes[i].numanode
         /\ IsPackage(c) => /\ numanodes'[Len(numanodes) + 1].cores = {}
                            /\ numanodes'[Len(numanodes) + 1].numanode = 0
<1> DEFINE L == Len(numanodes)
<1>1. /\ numanodes \in Seq(Node) /\ L \in Nat
      /\ numanodes # <<>> => L \in 1 .. L
      /\ \A i \in 1 .. L : numanodes[i] \in Node
  <2>1. numanodes \in Seq(Node)
    BY DEF LocalityTypeOK, Node
  <2>2. L \in Nat /\ (numanodes # <<>> => L # 0)
    BY <2>1, LenProperties, EmptySeq
  <2> QED BY <2>1, <2>2, QueueMember
<1>2. CASE machine.kind[c] = "package"
  <2> DEFINE e == [numanode |-> 0, cores |-> {}, pci |-> {}]
  <2>1. e \in Node /\ e.cores = {} /\ e.numanode = 0
    BY DEF Node
  <2>2. numanodes' = Append(numanodes, e)
    BY <1>2 DEF Record, Last, IsPCI
  <2> HIDE DEF e
  <2>3. numanodes'[L + 1] = e /\ \A i \in 1 .. L : numanodes'[i] = numanodes[i]
    BY <1>1, <2>1, <2>2
  <2> QED BY <1>2, <2>1, <2>3
<1>3. CASE machine.kind[c] # "package" /\ ~UsesBack(c)
  BY <1>3 DEF Record, Last, UsesBack, IsPCI, IsPackage
<1>4. CASE machine.kind[c] # "package" /\ UsesBack(c)
  <2>1. L \in 1 .. L /\ numanodes[L] \in Node
    BY <1>1, <1>4
  <2>2. CASE machine.kind[c] = "numa"
    <3>1. numanodes' = [numanodes EXCEPT ![L].numanode = c]
      BY <2>2 DEF Record, Last, IsPCI
    <3> QED BY <1>1, <2>1, <2>2, <3>1 DEF Node, IsPackage
  <2>3. CASE machine.kind[c] = "core"
    <3>1. numanodes' = [numanodes EXCEPT ![L].cores = @ \cup {c}]
      BY <2>3 DEF Record, Last, IsPCI
    <3>2. /\ numanodes'[L].cores = numanodes[L].cores \cup {c}
          /\ numanodes'[L].numanode = numanodes[L].numanode
          /\ \A i \in 1 .. L : i # L => numanodes'[i] = numanodes[i]
      BY <1>1, <2>1, <3>1 DEF Node
    <3> QED BY <2>3, <3>2 DEF IsPackage
  <2>4. CASE IsPCI(c)
    <3>1. numanodes' = [numanodes EXCEPT ![L].pci = @ \cup {<<b, c>>}]
      BY <2>4 DEF Record, Last, IsPCI
    <3> QED BY <1>1, <2>1, <2>4, <3>1 DEF Node, IsPCI, IsPackage
  <2>5. CASE machine.kind[c] = "hostbridge"
    <3>1. numanodes' = numanodes
      BY <2>5 DEF Record, Last, IsPCI
    <3> QED BY <2>5, <3>1 DEF IsPackage
  <2> QED BY <1>4, <2>2, <2>3, <2>4, <2>5 DEF UsesBack, IsPCI
<1> QED BY <1>2, <1>3, <1>4

(* No step changes what lies where in the packages.                        *)
LEMMA SamePackages ==
  ASSUME UNCHANGED machine
  PROVE  /\ \A o : IsPackage(o)' = IsPackage(o) /\ P(o)' = P(o)
         /\ \A o, p : Only(o, p)' = Only(o, p)
BY DEF IsPackage, P, Only

(* A call for an object that is not a package ...                          *)
LEMMA VisitInPackage ==
  ASSUME LocalityTypeOK, WalkInv, PackInv, NEW c \in Objs, Visit(c), phase' # "undefined",
         ~IsPackage(c), NEW i \in 1 .. Len(numanodes), NEW p \in Objs, Packed(i, p)
  PROVE  Packed(i, p)'
<1> DEFINE n == Len(stack)
           L == Len(numanodes)
           b0 == stack[n].bridge
<1>1. /\ n \in Nat /\ n >= 1 /\ n \in 1 .. n
      /\ Len(stack') = n + 1
      /\ P(c) = {c} \cup P(stack[n].obj)
      /\ \A k \in 1 .. n : stack'[k].obj = stack[k].obj
      /\ stack'[n + 1].obj = c
      /\ b0 \in Objs \cup {0}
      /\ numanodes' = Record(c, b0)
      /\ UsesBack(c) => numanodes # <<>>
      /\ UNCHANGED <<machine, phase>>
      /\ machine \in Machines
  BY VisitStack DEF WalkInv
<1>2. /\ c # p /\ c # 0
      /\ \A q \in P(c) : IsPackage(q) => q \in P(stack[n].obj)
  BY <1>1, LocalityAssumption DEF Packed
<1>3. \A o \in Objs : o # c => /\ Pending(o)' <=> Pending(o)
                               /\ \A b \in Objs : PendingIn(b, o) => PendingIn(b, o)'
  BY VisitPending
<1>4. /\ L \in Nat /\ Len(numanodes') = L
      /\ \A x, o \in Objs : Has(i, x, o)' => Has(i, x, o) \/ (i = L /\ o = c)
  <2>1. IsPCI(c) => b0 \in Objs
    <3> SUFFICES ASSUME IsPCI(c) PROVE b0 \in Objs
      OBVIOUS
    <3>1. PICK b \in P(c) : IsHostBridge(b) /\ b # c
      BY <1>1, PathFacts
    <3>2. b \in P(stack[n].obj)
      BY <1>1, <3>1
    <3>3. stack[n].bridge = b
      BY <1>1, <3>1, <3>2 DEF WalkInv, StackInv
    <3>4. b \in Objs
      BY <1>1, <3>1, PathFacts
    <3> QED BY <3>3, <3>4
  <2> HIDE DEF b0
  <2> QED BY <1>1, <2>1, RecordFacts DEF IsPackage
<1>5. /\ numanodes'[i].cores = IF machine.kind[c] = "core" /\ i = L
                               THEN numanodes[i].cores \cup {c} ELSE numanodes[i].cores
      /\ numanodes'[i].numanode = IF machine.kind[c] = "numa" /\ i = L
                                  THEN c ELSE numanodes[i].numanode
  <2> HIDE DEF b0
  <2> QED BY <1>1, RecordNormal
<1> HIDE DEF b0
<1>6. \A q \in P(c) : IsPackage(q) => (q = p <=> i = L)
  <2>1. \A q \in P(stack[n].obj) : IsPackage(q) => (q = p <=> i = L)
    BY <1>1 DEF Packed, OnPath
  <2> QED BY <1>2, <2>1
<1> HIDE DEF n, L
<1>7. IsPackage(p)' /\ ~Pending(p)'
  BY <1>1, <1>2, <1>3, SamePackages DEF Packed
<1>8. OnPath(i, p)'
  <2>1. \A k \in 1 .. n : \A q \in P(stack[k].obj) : IsPackage(q) => (q = p <=> i = L)
    BY DEF Packed, OnPath, n, L
  <2>2. \A k \in 1 .. n + 1 : k = n + 1 \/ k \in 1 .. n
    BY <1>1
  <2>3. \A k \in 1 .. n + 1 : \A q \in P(stack'[k].obj) : IsPackage(q) => (q = p <=> i = L)
    BY <1>1, <1>6, <2>1, <2>2
  <2> QED BY <1>1, <1>4, <2>3, SamePackages DEF OnPath, L
<1>9. i = L => Only(c, p)
  BY <1>6 DEF Only
<1>10. Recorded(i, p)'
  <2>1. \A x \in numanodes'[i].cores : machine.kind[x] = "core" /\ Only(x, p)
    BY <1>5, <1>9 DEF Packed, Recorded
  <2>2. numanodes'[i].numanode # 0 => /\ machine.kind[numanodes'[i].numanode] = "numa"
                                      /\ Only(numanodes'[i].numanode, p)
    BY <1>5, <1>9 DEF Packed, Recorded
  <2>3. \A b, o \in Objs : Has(i, b, o)' => Only(o, p)
    BY <1>4, <1>9 DEF Packed, Recorded
  <2> QED BY <1>1, <2>1, <2>2, <2>3, SamePackages DEF Recorded
<1>11. Complete(i, p)'
  <2> SUFFICES ASSUME NEW o \in Objs, p \in P(o)
               PROVE  /\ machine.kind[o] = "core" => o \in numanodes'[i].cores \/ PendingIn(p, o)'
                      /\ machine.kind[o] = "numa" => \/ numanodes'[i].numanode # 0
                                                     \/ PendingIn(p, o)'
    BY <1>1, SamePackages DEF Complete
  <2>1. CASE o = c
    <3>1. i = L
      BY <2>1, <1>6 DEF Packed
    <3> QED BY <2>1, <3>1, <1>2, <1>5
  <2>2. CASE o # c
    <3>1. /\ machine.kind[o] = "core" => o \in numanodes[i].cores \/ PendingIn(p, o)
          /\ machine.kind[o] = "numa" => numanodes[i].numanode # 0 \/ PendingIn(p, o)
      BY DEF Packed, Complete
    <3> QED BY <2>2, <3>1, <1>2, <1>3, <1>5
  <2> QED BY <2>1, <2>2
<1> QED BY <1>7, <1>8, <1>10, <1>11 DEF Packed

(* ... and one for a package, which begins the Numanode of its own.        *)
LEMMA VisitPackage ==
  ASSUME LocalityTypeOK, WalkInv, PackInv, NEW c \in Objs, Visit(c), phase' # "undefined",
         IsPackage(c)
  PROVE  \A i \in 1 .. Len(numanodes') : \E p \in Objs : Packed(i, p)'
<1> DEFINE n == Len(stack)
<1>0. Len(numanodes) \in Nat
  BY NumanodeType
<1> PICK L \in Nat : L = Len(numanodes)
  BY <1>0
<1>1. /\ n \in Nat /\ n >= 1 /\ n \in 1 .. n
      /\ Len(stack') = n + 1
      /\ P(c) = {c} \cup P(stack[n].obj) /\ c \notin P(stack[n].obj)
      /\ \A k \in 1 .. n : /\ stack'[k].obj = stack[k].obj
                           /\ P(stack[k].obj) \subseteq P(stack[n].obj)
      /\ stack'[n + 1].obj = c
      /\ stack'[n + 1].left = KidsIn(machine, c)
      /\ stack[n].bridge \in Objs \cup {0}
      /\ numanodes' = Record(c, stack[n].bridge)
      /\ UsesBack(c) => numanodes # <<>>
      /\ UNCHANGED <<machine, phase>>
      /\ machine \in Machines
  BY VisitStack DEF WalkInv
<1>2. /\ \A q \in P(c) : IsPackage(q) => q = c
      /\ \A k \in 1 .. n : \A q \in P(stack[k].obj) : ~IsPackage(q)
  BY <1>1, AbovePackages
<1>3. /\ \A o \in Objs : o # c => /\ Pending(o)' <=> Pending(o)
                                  /\ \A b \in Objs : PendingIn(b, o) => PendingIn(b, o)'
      /\ Pending(c) /\ ~Pending(c)'
  BY VisitPending
<1>4. /\ L \in Nat /\ Len(numanodes') = L + 1
      /\ \A i \in 1 .. L : \A x, o \in Objs : Has(i, x, o)' => Has(i, x, o)
      /\ \A i \in {L + 1} : \A x, o \in Objs : ~Has(i, x, o)'
  <2>1. ~IsPCI(c)
    BY DEF IsPackage, IsPCI
  <2> QED BY <1>1, <2>1, RecordFacts DEF IsPackage
<1>5. /\ \A i \in 1 .. L : /\ numanodes'[i].cores = numanodes[i].cores
                           /\ numanodes'[i].numanode = numanodes[i].numanode
      /\ numanodes'[L + 1].cores = {} /\ numanodes'[L + 1].numanode = 0
  BY <1>1, RecordNormal DEF IsPackage
<1>6. \A k \in 1 .. n + 1 : \A q \in P(stack'[k].obj) : IsPackage(q) => q = c
  <2>1. \A k \in 1 .. n + 1 : k = n + 1 \/ k \in 1 .. n
    BY <1>1
  <2> QED BY <1>1, <1>2, <2>1
<1> HIDE DEF n
<1>7. ASSUME NEW i \in 1 .. L PROVE \E p \in Objs : Packed(i, p)'
  <2>1. PICK p \in Objs : Packed(i, p)
    BY DEF PackInv
  <2>2. p # c /\ IsPackage(p)' /\ ~Pending(p)' /\ i # L + 1
    BY <1>1, <1>3, <1>4, <2>1, SamePackages DEF Packed
  <2>3. OnPath(i, p)'
    BY <1>1, <1>4, <1>6, <2>2, SamePackages DEF OnPath
  <2>4. Recorded(i, p)'
    BY <1>1, <1>4, <1>5, <2>1, SamePackages DEF Packed, Recorded
  <2>5. Complete(i, p)'
    <3> SUFFICES ASSUME NEW o \in Objs, p \in P(o)
                 PROVE  /\ machine.kind[o] = "core" => o \in numanodes'[i].cores \/ PendingIn(p, o)'
                        /\ machine.kind[o] = "numa" => \/ numanodes'[i].numanode # 0
                                                       \/ PendingIn(p, o)'
      BY <1>1, SamePackages DEF Complete
    <3>1. /\ machine.kind[o] = "core" => o \in numanodes[i].cores \/ PendingIn(p, o)
          /\ machine.kind[o] = "numa" => numanodes[i].numanode # 0 \/ PendingIn(p, o)
      BY <2>1 DEF Packed, Complete
    <3>2. machine.kind[o] \in {"core", "numa"} => o # c
      BY DEF IsPackage
    <3> QED BY <3>1, <3>2, <1>3, <1>5
  <2> QED BY <2>2, <2>3, <2>4, <2>5 DEF Packed
<1>8. ASSUME NEW i \in {L + 1} PROVE Packed(i, c)'
  <2>1. IsPackage(c)' /\ ~Pending(c)'
    BY <1>1, <1>3, SamePackages
  <2>2. OnPath(i, c)'
    BY <1>1, <1>4, <1>6, SamePackages DEF OnPath
  <2>3. Recorded(i, c)'
    BY <1>4, <1>5 DEF Recorded
  <2>4. Complete(i, c)'
    <3> SUFFICES ASSUME NEW o \in Objs, c \in P(o), machine.kind[o] \in {"core", "numa"}
                 PROVE  PendingIn(c, o)'
      BY <1>1, SamePackages DEF Complete
    <3>1. o # c
      BY DEF IsPackage
    <3>2. \E y \in KidsIn(machine, c) : y \in P(o)
      BY <1>1, <3>1, PathFacts
    <3>3. c \in P(c) /\ n + 1 \in 1 .. n + 1
      BY <1>1
    <3> QED BY <1>1, <3>2, <3>3, SamePackages DEF PendingIn
  <2> QED BY <2>1, <2>2, <2>3, <2>4 DEF Packed
<1>9. \A i \in 1 .. L + 1 : i \in 1 .. L \/ i = L + 1
  BY <1>4
<1> QED BY <1>4, <1>7, <1>8, <1>9

(* The call keeps the numbering, and begins no Numanode too late.          *)
LEMMA VisitPacks ==
  ASSUME LocalityTypeOK, WalkInv, PackInv, NEW c \in Objs, Visit(c), phase' # "undefined"
  PROVE  PackInv'
<1> DEFINE n == Len(stack)
<1>1. /\ n \in Nat /\ n >= 1 /\ n \in 1 .. n
      /\ Len(stack') = n + 1
      /\ P(c) = {c} \cup P(stack[n].obj)
      /\ \A k \in 1 .. n : stack'[k].obj = stack[k].obj
      /\ stack'[n + 1].obj = c
      /\ UNCHANGED machine
  BY VisitStack
<1>2. /\ Len(numanodes) \in Nat /\ numanodes' \in Seq(Node)
      /\ Len(numanodes') = IF IsPackage(c) THEN Len(numanodes) + 1 ELSE Len(numanodes)
  <2>1. IsPCI(c) => stack[n].bridge \in Objs
    <3> SUFFICES ASSUME IsPCI(c) PROVE stack[n].bridge \in Objs
      OBVIOUS
    <3>1. machine \in Machines
      BY DEF WalkInv
    <3>2. PICK b \in P(c) : IsHostBridge(b) /\ b # c
      BY <3>1, PathFacts
    <3>3. b \in P(stack[n].obj) /\ b \in Objs
      BY <1>1, <3>1, <3>2, PathFacts
    <3> QED BY <1>1, <3>2, <3>3 DEF WalkInv, StackInv
  <2>2. /\ stack[n].bridge \in Objs \cup {0}
        /\ numanodes' = Record(c, stack[n].bridge)
        /\ UsesBack(c) => numanodes # <<>>
    BY VisitStack
  <2> QED BY <2>1, <2>2, RecordFacts DEF IsPackage
<1>3. \A i \in 1 .. Len(numanodes') : \E p \in Objs : Packed(i, p)'
  <2>1. CASE IsPackage(c)
    BY <2>1, VisitPackage
  <2>2. CASE ~IsPackage(c)
    <3> SUFFICES ASSUME NEW i \in 1 .. Len(numanodes) PROVE \E p \in Objs : Packed(i, p)'
      BY <1>2, <2>2
    <3>1. PICK p \in Objs : Packed(i, p)
      BY DEF PackInv
    <3> QED BY <2>2, <3>1, VisitInPackage
  <2> QED BY <2>1, <2>2
<1>4. ASSUME NEW k \in 1 .. n + 1, NEW q \in P(stack'[k].obj), IsPackage(q)
      PROVE  numanodes' # <<>>
  <2>1. CASE q = c
    BY <1>2, <1>4, <2>1, EmptySeq
  <2>2. CASE q # c
    <3>1. \E j \in 1 .. n : q \in P(stack[j].obj)
      <4>1. k \in 1 .. n \/ k = n + 1
        BY <1>1
      <4> QED BY <1>1, <1>4, <2>2, <4>1
    <3>2. numanodes # <<>>
      BY <1>4, <3>1 DEF PackInv, n
    <3>3. Len(numanodes) # 0
      BY <3>2, EmptySeq DEF LocalityTypeOK
    <3> QED BY <1>2, <3>3, EmptySeq
  <2> QED BY <2>1, <2>2
<1> HIDE DEF n
<1> QED BY <1>1, <1>3, <1>4, SamePackages DEF PackInv

(* A frame that goes has nothing left, so nothing is missed.               *)
LEMMA LeavePacks ==
  ASSUME LocalityTypeOK, WalkInv, PackInv, Leave
  PROVE  PackInv'
<1> DEFINE n == Len(stack)
<1>1. /\ n \in Nat
      /\ UNCHANGED <<machine, numanodes>>
      /\ Len(stack') = n - 1
      /\ \A k \in 1 .. n - 1 : k \in 1 .. n /\ stack'[k] = stack[k]
      /\ \A o \in Objs : Pending(o)' <=> Pending(o)
      /\ \A b, o \in Objs : PendingIn(b, o) => PendingIn(b, o)'
  BY LeaveStack
<1>2. ASSUME NEW i \in 1 .. Len(numanodes) PROVE \E p \in Objs : Packed(i, p)'
  <2>1. PICK p \in Objs : Packed(i, p)
    BY DEF PackInv
  <2>2. IsPackage(p)' /\ ~Pending(p)' /\ Recorded(i, p)'
    BY <1>1, <2>1, SamePackages DEF Packed, Recorded, Has
  <2>3. OnPath(i, p)'
    BY <1>1, <2>1, SamePackages DEF Packed, OnPath
  <2>4. Complete(i, p)'
    BY <1>1, <2>1, SamePackages DEF Packed, Complete
  <2> QED BY <2>2, <2>3, <2>4 DEF Packed
<1>3. \A k \in 1 .. n - 1 : \A q \in P(stack'[k].obj) : IsPackage(q) => numanodes # <<>>
  BY <1>1 DEF PackInv
<1> HIDE DEF n
<1> QED BY <1>1, <1>2, <1>3, SamePackages DEF PackInv

(* All other steps leave the Numanodes and the stack alone, or the stack   *)
(* is that of the first call.                                              *)
LEMMA OtherPacks ==
  ASSUME PackInv, UNCHANGED <<machine, numanodes>>, stack' = stack \/ numanodes = <<>>,
         \A k \in 1 .. Len(stack') : \A q \in P(stack'[k].obj) : IsPackage(q) => numanodes # <<>>
  PROVE  PackInv'
<1>1. ASSUME NEW i \in 1 .. Len(numanodes) PROVE \E p \in Objs : Packed(i, p)'
  <2>1. stack' = stack
    BY <1>1
  <2>2. PICK p \in Objs : Packed(i, p)
    BY DEF PackInv
  <2>3. Packed(i, p)'
    BY <2>1, <2>2, SamePackages DEF Packed, OnPath, Recorded, Complete, Pending, PendingIn, Has
  <2> QED BY <2>3
<1> QED BY <1>1, SamePackages DEF PackInv

(* What Placed says is about the machine alone.                            *)
LEMMA SamePlaces ==
  ASSUME UNCHANGED machine
  PROVE  /\ Placed' = Placed /\ Kind("package")' = Kind("package")
         /\ \A o : P(o)' = P(o)
BY DEF Placed, InPackages, Below, Kind, P

(* The object of the first call from a frame, while no package was begun:  *)
(* its list is the list of normal children, and it is not a core.          *)
LEMMA FirstObject ==
  ASSUME LocalityTypeOK, WalkInv, PackInv, FirstInv, NEW c \in Objs, Visit(c),
         Placed, numanodes = <<>>
  PROVE  machine.kind[c] \in {"package", "group"}
<1> DEFINE n == Len(stack)
<1>1. /\ n \in 1 .. n /\ stack # <<>> /\ stack[n].obj \in Objs
      /\ c \in stack[n].left /\ \A d \in stack[n].left : d # c => Before(c, d)
      /\ machine \in Machines
  <2> DEFINE R == [obj : Objs, bridge : Objs \cup {0}, left : SUBSET Objs]
  <2>1. stack # <<>> /\ n \in Nat /\ stack \in Seq(R)
    BY LenProperties DEF LocalityTypeOK, Visit
  <2>2. n \in 1 .. n
    BY <2>1, EmptySeq
  <2>3. \A k \in 1 .. n : stack[k] \in R
    <3> HIDE DEF R
    <3> QED BY <2>1, QueueMember
  <2>4. stack[n].obj \in Objs
    BY <2>2, <2>3
  <2> HIDE DEF R
  <2> QED BY <2>1, <2>2, <2>4 DEF Visit, WalkInv
<1>2. stack[n].left \subseteq KidsIn(machine, stack[n].obj)
  BY <1>1 DEF WalkInv, StackInv
<1>3. PICK x \in stack[n].left : \E p \in Kind("package") : x \in P(p)
  BY <1>1 DEF FirstInv, n
<1> HIDE DEF n
<1>4. machine.kind[x] \in {"package", "group"}
  <2>1. PICK p \in Kind("package") : x \in P(p)
    BY <1>3
  <2>2. p \in Objs /\ IsPackage(p)
    BY DEF Kind, IsPackage
  <2>3. machine.up[x] # 0
    BY <1>1, <1>2, <1>3, LocalityAssumption DEF KidsIn
  <2>4. x = p \/ machine.kind[x] = "group"
    BY <1>1, <2>1, <2>2, <2>3, AbovePackages
  <2> QED BY <2>2, <2>4 DEF IsPackage
<1>5. List(x) = 2
  BY <1>4 DEF List
<1>6. List(c) # 3
  BY <1>1, <1>3, <1>5 DEF Before
<1>7. machine.kind[c] \in {"numa", "core", "package", "group"}
  BY <1>6 DEF List
<1>8. ASSUME machine.kind[c] \in {"numa", "core"} PROVE FALSE
  <2>1. Below(c, "package") # {}
    BY <1>8 DEF Placed, InPackages, Kind
  <2>2. PICK q \in P(c) : IsPackage(q)
    BY <2>1 DEF Below, P, IsPackage
  <2>3. q # c /\ P(c) = {c} \cup P(stack[n].obj)
    BY <1>1, <1>2, <1>8, <2>2, PathFacts DEF IsPackage
  <2>4. q \in P(stack[n].obj)
    BY <2>3
  <2> QED BY <1>1, <2>2, <2>4 DEF PackInv, n
<1> QED BY <1>7, <1>8

(* So nothing is read from the empty vector, and the package is reached.   *)
LEMMA VisitFirst ==
  ASSUME LocalityTypeOK, WalkInv, PackInv, FirstInv, NEW c \in Objs, Visit(c)
  PROVE  /\ FirstInv'
         /\ Placed => phase' # "undefined"
<1>1. UNCHANGED machine /\ phase = "traverse" /\ machine \in Machines
  BY DEF Visit, WalkInv
<1>2. Placed => phase' # "undefined"
  <2>1. Placed /\ numanodes = <<>> => ~UsesBack(c)
    BY FirstObject DEF UsesBack
  <2> QED BY <1>1, <2>1 DEF Visit
<1>3. ASSUME Placed, numanodes' = <<>>, phase' # "undefined"
      PROVE  \E x \in stack'[Len(stack')].left : \E p \in Kind("package") : x \in P(p)
  <2> DEFINE n == Len(stack)
  <2>1. /\ n \in Nat /\ n >= 1 /\ n \in 1 .. n /\ Len(stack') = n + 1
        /\ stack'[n + 1].left = KidsIn(machine, c)
        /\ P(c) = {c} \cup P(stack[n].obj)
        /\ stack[n].bridge \in Objs \cup {0}
        /\ numanodes' = Record(c, stack[n].bridge)
        /\ UsesBack(c) => numanodes # <<>>
    BY <1>3, VisitStack
  <2>2. /\ Len(numanodes) \in Nat /\ Len(numanodes') = 0
        /\ IsPackage(c) => Len(numanodes') = Len(numanodes) + 1
        /\ numanodes = <<>>
    <3>1. IsPackage(c) => numanodes' = Append(numanodes, [numanode |-> 0, cores |-> {}, pci |-> {}])
      BY <2>1 DEF Record, IsPackage, Last, IsPCI
    <3>2. IsPackage(c) => Len(numanodes') = Len(numanodes) + 1
      BY <3>1, NumanodeType
    <3>3. ~IsPackage(c) => Len(numanodes') = Len(numanodes)
      BY <2>1, NumanodeType DEF Record, IsPackage
    <3>4. Len(numanodes') = 0
      BY <1>3
    <3>5. Len(numanodes) = 0 => numanodes = <<>>
      BY NumanodeType, EmptySeq
    <3>6. Len(numanodes) \in Nat
      BY NumanodeType
    <3> QED BY <3>2, <3>3, <3>4, <3>5, <3>6
  <2>3. machine.kind[c] = "group"
    BY <1>3, <2>2, FirstObject DEF IsPackage
  <2>4. PICK p \in Kind("package") : p \in P(c) \/ c \in P(p)
    BY <1>3, <2>3 DEF Placed, Kind, P
  <2>5. p \in Objs /\ IsPackage(p) /\ p # c
    BY <2>3 DEF Kind, IsPackage
  <2>6. p \notin P(stack[n].obj)
    BY <2>1, <2>2, <2>5 DEF PackInv, n
  <2>7. c \in P(p)
    BY <2>1, <2>4, <2>5, <2>6
  <2>8. \E x \in KidsIn(machine, c) : x \in P(p)
    BY <1>1, <2>5, <2>7, PathFacts
  <2> QED BY <2>1, <2>8
<1>4. CASE phase' = "undefined"
  <2>1. UNCHANGED <<stack, numanodes>>
    BY <1>4, UndefinedWalk
  <2> QED BY <1>1, <1>2, <2>1, SamePlaces DEF FirstInv
<1> QED BY <1>1, <1>2, <1>3, <1>4, SamePlaces DEF FirstInv

LEMMA LeaveFirst ==
  ASSUME LocalityTypeOK, WalkInv, FirstInv, Leave
  PROVE  FirstInv'
<1>1. /\ UNCHANGED <<machine, numanodes>>
      /\ stack # <<>> /\ stack[Len(stack)].left = {}
  BY DEF Leave
<1> QED BY <1>1, SamePlaces DEF FirstInv

(* The first call is above every package.                                  *)
LEMMA LoadPacks ==
  ASSUME LocalityTypeOK, WalkInv, PackInv, FirstInv, Load
  PROVE  PackInv' /\ FirstInv'
<1> DEFINE r == CHOOSE r \in Objs : machine.up[r] = 0
<1>1. /\ numanodes = <<>> /\ stack = <<>> /\ machine \in Machines
      /\ UNCHANGED <<machine, numanodes>>
      /\ stack' = <<Frame(r, 0)>> \/ stack' = <<>>
  BY DEF Load, WalkInv
<1>2. CASE stack' = <<>>
  <2>1. stack' = stack /\ Len(stack') = 0
    BY <1>1, <1>2
  <2>2. PackInv'
    BY <1>1, <2>1, OtherPacks
  <2> QED BY <1>1, <1>2, <2>2 DEF FirstInv
<1>3. CASE stack' = <<Frame(r, 0)>>
  <2>1. PICK r0 \in Objs : /\ machine.kind[r0] = "machine"
                           /\ \A o \in Objs : (o = r0 <=> machine.up[o] = 0) /\ r0 \in P(o)
    BY <1>1, MachineFacts DEF WellFormed, P
  <2>2. r = r0
    BY <2>1
  <2> HIDE DEF r
  <2>3. /\ Len(stack') = 1 /\ stack'[1].obj = r /\ stack'[1].left = KidsIn(machine, r)
    BY <1>3 DEF Frame
  <2>4. \A q \in P(r) : ~IsPackage(q)
    <3>1. P(r) = {r}
      BY <1>1, <2>1, <2>2, MachineFacts DEF WellFormed, P
    <3> QED BY <2>1, <2>2, <3>1 DEF IsPackage
  <2>5. PackInv'
    BY <1>1, <2>3, <2>4, OtherPacks
  <2>6. Placed => \E x \in KidsIn(machine, r) : \E p \in Kind("package") : x \in P(p)
    <3> SUFFICES ASSUME Placed
                 PROVE  \E x \in KidsIn(machine, r) : \E p \in Kind("package") : x \in P(p)
      OBVIOUS
    <3>1. PICK p \in Kind("package") : TRUE
      BY DEF Placed
    <3>2. p \in Objs /\ r \in P(p) /\ p # r
      BY <2>1, <2>2 DEF Kind
    <3> QED BY <1>1, <3>1, <3>2, PathFacts
  <2> QED BY <1>1, <2>3, <2>5, <2>6, SamePlaces DEF FirstInv
<1> QED BY <1>1, <1>2, <1>3

-----------------------------------------------------------------------------
(* Which program runs, what it was admitted with, and when there are lists.*)
UseInv ==
  /\ local.rank < local.size
  /\ program = "affinity" /\ phase \notin {"start", "thrown"} => local.size = 1
  /\ program = "affinity" => \A a \in gpuloc : Range(a.efas) \subseteq machine.fi
  /\ phase \in {"count", "match"} => program # "gpuloc"
  /\ phase = "report" => program # "affinity"
  /\ phase = "peer" => program = "affinity"
  /\ gpuloc # {} => stack = <<>>

(* Nothing before the grouping makes lists.                                *)
LEMMA NoLists ==
  ASSUME FullInv, phase \in {"start", "traverse", "discover"}
  PROVE  gpuloc = {}
BY DEF FullInv, LocalityInv, GroupInv

LEMMA BridgeUses ==
  ASSUME FullInv, UseInv, NEW b \in Objs, GroupBridge(b)
  PROVE  UseInv'
<1> DEFINE efas == {d \in Devices(b) : IsEFA(d)}
           new(order) == {[gpu |-> g, numanode |-> numanodes[node].numanode,
                           cores |-> numanodes[node].cores, efas |-> order]
                          : g \in {d \in Devices(b) : IsGPU(d)}}
<1>1. /\ phase = "group" /\ phase' \in {"group", "thrown"} /\ stack = <<>>
      /\ UNCHANGED <<machine, program, local, stack>>
      /\ \/ gpuloc' = gpuloc
         \/ /\ program = "affinity" => efas \subseteq machine.fi
            /\ \E order \in Orders(efas) : gpuloc' = gpuloc \cup new(order)
  BY DEF GroupBridge, FullInv, LocalityInv, WalkInv, Walked
<1>2. ASSUME program = "affinity", NEW a \in gpuloc' PROVE Range(a.efas) \subseteq machine.fi
  <2>1. CASE a \in gpuloc
    BY <1>2, <2>1 DEF UseInv
  <2>2. CASE a \notin gpuloc
    <3>1. PICK order \in Orders(efas) : a \in new(order)
      BY <1>1, <1>2, <2>2
    <3>2. a.efas = order /\ efas \subseteq machine.fi
      BY <1>1, <1>2, <2>2, <3>1
    <3> HIDE DEF efas
    <3>3. Range(order) = efas
      BY DEF Orders
    <3> QED BY <3>2, <3>3
  <2> QED BY <2>1, <2>2
<1> HIDE DEF efas, new
<1> QED BY <1>1, <1>2 DEF UseInv

LEMMA UseInitInv == LocalityInit => UseInv
BY DEF LocalityInit, UseInv

LEMMA UseStepInv == FullInv /\ UseInv /\ [LocalityNext]_localityVars => UseInv'
<1> SUFFICES ASSUME FullInv, UseInv, [LocalityNext]_localityVars PROVE UseInv'
  OBVIOUS
<1>1. CASE Load
  <2>1. /\ phase = "start" /\ UNCHANGED <<machine, program, local, gpuloc>>
        /\ phase' = "thrown" \/ (phase' = "traverse" /\ Admitted)
    BY <1>1 DEF Load
  <2> QED BY <2>1, NoLists DEF UseInv, Admitted
<1>2. ASSUME NEW c \in Objs, Visit(c) PROVE UseInv'
  <2>1. /\ phase = "traverse" /\ UNCHANGED <<machine, program, local, gpuloc>>
        /\ phase' \in {"traverse", "undefined"}
    BY <1>2 DEF Visit
  <2> QED BY <2>1, NoLists DEF UseInv
<1>3. CASE Leave
  <2>1. /\ phase = "traverse" /\ UNCHANGED <<machine, program, local, gpuloc>>
        /\ phase' \in {"traverse", "discover"}
    BY <1>3 DEF Leave
  <2> QED BY <2>1, NoLists DEF UseInv
<1>4. ASSUME NEW b \in Objs, GroupBridge(b) PROVE UseInv'
  BY <1>4, BridgeUses
<1>5. CASE Discover \/ NextNode \/ CountGPUs \/ MatchGPU \/ EndMatch \/ Report \/ Choose \/ Pin
  <2>1. /\ UNCHANGED <<machine, program, local, stack, gpuloc>>
        /\ phase \notin {"start", "thrown"}
    BY <1>5 DEF Discover, NextNode, CountGPUs, MatchGPU, EndMatch, Report, Choose, Pin
  <2>2. phase' \in {"count", "match"} => program # "gpuloc"
    BY <1>5 DEF Discover, NextNode, CountGPUs, MatchGPU, EndMatch, Report, Choose, Pin, UseInv
  <2>3. phase' = "report" => program # "affinity"
    BY <1>5 DEF Discover, NextNode, CountGPUs, MatchGPU, EndMatch, Report, Choose, Pin, UseInv
  <2>4. phase' = "peer" => program = "affinity"
    <3>1. program \in {"gpuloc", "nvml", "affinity"}
      BY LocalityAssumption DEF FullInv, LocalityInv, WalkInv, LocalityTypeOK
    <3>2. phase' = "peer" => EndMatch
      BY <1>5 DEF Discover, NextNode, CountGPUs, MatchGPU, Report, Choose, Pin
    <3>3. ASSUME EndMatch, phase' = "peer" PROVE program # "gpuloc" /\ program # "nvml"
      BY <3>3 DEF EndMatch, UseInv
    <3> QED BY <3>1, <3>2, <3>3
  <2> QED BY <2>1, <2>2, <2>3, <2>4 DEF UseInv
<1>6. CASE UNCHANGED localityVars
  BY <1>6 DEF localityVars, UseInv
<1> QED BY <1>1, <1>2, <1>3, <1>4, <1>5, <1>6 DEF LocalityNext

(* The numbering holds at first, and every step keeps it.                  *)
PlaceInv == PackInv /\ FirstInv

LEMMA PlaceInitInv == LocalityInit => PlaceInv
<1> SUFFICES ASSUME LocalityInit PROVE PlaceInv
  OBVIOUS
<1>1. Len(stack) = 0 /\ Len(numanodes) = 0 /\ stack = <<>>
  BY DEF LocalityInit
<1> QED BY <1>1 DEF PlaceInv, PackInv, FirstInv

LEMMA PlaceStepInv == FullInv /\ PlaceInv /\ [LocalityNext]_localityVars => PlaceInv'
<1> SUFFICES ASSUME FullInv, PlaceInv, [LocalityNext]_localityVars PROVE PlaceInv'
  OBVIOUS
<1> USE DEF FullInv, LocalityInv, PlaceInv
<1>1. CASE Load
  BY <1>1, LoadPacks
<1>2. ASSUME NEW c \in Objs, Visit(c) PROVE PlaceInv'
  <2>1. CASE phase' # "undefined"
    BY <1>2, <2>1, VisitPacks, VisitFirst
  <2>2. CASE phase' = "undefined"
    <3>1. UNCHANGED <<stack, numanodes>>
      BY <1>2, <2>2, UndefinedWalk
    <3>2. UNCHANGED machine
      BY <1>2 DEF Visit
    <3>3. PackInv'
      BY <3>1, <3>2, OtherPacks DEF PackInv
    <3> QED BY <1>2, <3>3, VisitFirst
  <2> QED BY <2>1, <2>2
<1>3. CASE Leave
  BY <1>3, LeavePacks, LeaveFirst
<1>4. ASSUME UNCHANGED <<machine, stack, numanodes>> PROVE PlaceInv'
  <2>1. PackInv'
    BY <1>4, OtherPacks DEF PackInv
  <2>2. FirstInv'
    BY <1>4, SamePlaces DEF FirstInv
  <2> QED BY <2>1, <2>2
<1>5. ASSUME NEW b \in Objs, GroupBridge(b) PROVE PlaceInv'
  BY <1>4, <1>5 DEF GroupBridge
<1>6. CASE Discover \/ NextNode \/ CountGPUs \/ MatchGPU \/ EndMatch \/ Report \/ Choose \/ Pin
  <2>1. UNCHANGED <<machine, stack, numanodes>>
    BY <1>6 DEF Discover, NextNode, CountGPUs, MatchGPU, EndMatch, Report, Choose, Pin
  <2> QED BY <1>4, <2>1
<1>7. CASE UNCHANGED localityVars
  BY <1>4, <1>7 DEF localityVars
<1> QED BY <1>1, <1>2, <1>3, <1>5, <1>6, <1>7 DEF LocalityNext

SafeInv == FullInv /\ UseInv /\ PlaceInv

LEMMA SafeInvHolds == LocalitySpec => []SafeInv
<1>1. LocalityInit => UseInv /\ PlaceInv
  BY UseInitInv, PlaceInitInv
<1>2. FullInv /\ UseInv /\ PlaceInv /\ [LocalityNext]_localityVars => UseInv' /\ PlaceInv'
  BY UseStepInv, PlaceStepInv
<1> QED BY <1>1, <1>2, FullInvHolds, PTL DEF LocalitySpec, SafeInv

-----------------------------------------------------------------------------
(* An entry has the cores of one package, which is its GPU's if that is in *)
(* any; and a NUMA node of it, if there is one.                            *)
LEMMA EntryPackage ==
  ASSUME SafeInv, NEW a \in gpuloc
  PROVE  \E p \in Objs :
           /\ IsPackage(p) /\ Only(a.gpu, p)
           /\ \A c \in a.cores : c \in Kind("core") /\ Only(c, p)
           /\ \A c \in Kind("core") : p \in P(c) => c \in a.cores
           /\ a.numanode # 0 => a.numanode \in Kind("numa") /\ Only(a.numanode, p)
           /\ \A n \in Kind("numa") : p \in P(n) => a.numanode # 0
<1> USE DEF SafeInv, FullInv, LocalityInv
<1>1. PICK i \in 1 .. node, b \in Objs : Lists(a, i, b)
  BY DEF GroupInv, EntryInv
<1>2. a.gpu \in Objs /\ i \in 1 .. Len(numanodes)
  BY NumanodeType DEF LocalityTypeOK, Entry
<1>3. numanodes[i].cores \subseteq Objs /\ numanodes[i].numanode \in Objs \cup {0}
  BY <1>2, NumanodeType
<1>4. PICK p \in Objs : Packed(i, p)
  BY <1>2 DEF PlaceInv, PackInv
<1>5. \A o \in Objs : ~PendingIn(p, o)
  <2>1. Len(stack) = 0
    BY DEF UseInv
  <2> QED BY <2>1 DEF PendingIn
<1>6. a.cores = numanodes[i].cores /\ a.numanode = numanodes[i].numanode /\ Has(i, b, a.gpu)
  BY <1>1 DEF Lists
<1>7. IsPackage(p) /\ Only(a.gpu, p)
  BY <1>2, <1>4, <1>6 DEF Packed, Recorded
<1>8. \A c \in a.cores : c \in Kind("core") /\ Only(c, p)
  BY <1>3, <1>4, <1>6 DEF Packed, Recorded, Kind
<1>9. a.numanode # 0 => a.numanode \in Kind("numa") /\ Only(a.numanode, p)
  BY <1>3, <1>4, <1>6 DEF Packed, Recorded, Kind
<1>10. \A c \in Kind("core") : p \in P(c) => c \in a.cores
  BY <1>4, <1>5, <1>6 DEF Packed, Complete, Kind
<1>11. \A n \in Kind("numa") : p \in P(n) => a.numanode # 0
  BY <1>4, <1>5, <1>6 DEF Packed, Complete, Kind
<1> QED BY <1>7, <1>8, <1>9, <1>10, <1>11

(* What lies in packages, and only in one, lies in that one.               *)
LEMMA InOne ==
  ASSUME NEW o, NEW p, Only(o, p), Below(o, "package") # {}
  PROVE  p \in P(o) /\ Below(o, "package") = {p}
BY DEF Only, Below, IsPackage, P

LEMMA CoresAreLocal == SafeInv => CoresOfPackage
<1> SUFFICES ASSUME SafeInv, InPackages("core"), NEW a \in gpuloc
             PROVE  \E p \in Kind("package") :
                      /\ a.cores = {c \in Kind("core") : p \in P(c)}
                      /\ Below(a.gpu, "package") \in {{}, {p}}
                      /\ a.numanode # 0 => Below(a.numanode, "package") \in {{}, {p}}
  BY DEF CoresOfPackage, P
<1>1. PICK p \in Objs :
        /\ IsPackage(p) /\ Only(a.gpu, p)
        /\ \A c \in a.cores : c \in Kind("core") /\ Only(c, p)
        /\ \A c \in Kind("core") : p \in P(c) => c \in a.cores
        /\ a.numanode # 0 => a.numanode \in Kind("numa") /\ Only(a.numanode, p)
        /\ \A n \in Kind("numa") : p \in P(n) => a.numanode # 0
  BY EntryPackage
<1>2. p \in Kind("package")
  BY <1>1 DEF Kind, IsPackage
<1>3. a.cores = {c \in Kind("core") : p \in P(c)}
  <2>1. \A c \in a.cores : p \in P(c)
    BY <1>1, InOne DEF InPackages
  <2> QED BY <1>1, <2>1
<1>4. Below(a.gpu, "package") \in {{}, {p}}
  BY <1>1, InOne
<1>5. a.numanode # 0 => Below(a.numanode, "package") \in {{}, {p}}
  BY <1>1, InOne
<1> QED BY <1>2, <1>3, <1>4, <1>5

(* The cores listed for a GPU are those of one package, the GPU's, and its *)
(* NUMA node is one of that package.                                       *)
THEOREM CoresInPackage == LocalitySpec => []CoresOfPackage
BY SafeInvHolds, CoresAreLocal, PTL

-----------------------------------------------------------------------------
(* What a Peer chooses: the first entry, for the rank is 0.                *)
LEMMA FirstEntry ==
  ASSUME SafeInv, phase = "peer", program = "affinity"
  PROVE  /\ local.rank = 0
         /\ Len(affinity) \in Nat /\ Len(affinity) = Len(machine.nvml)
         /\ 0 < Len(affinity) => /\ Own = affinity[1] /\ Own \in gpuloc /\ Own \in Entry
                                 /\ machine.slot[Own.gpu] = machine.nvml[1]
<1> USE DEF SafeInv, FullInv, LocalityInv
<1>1. local.rank = 0
  <2>1. local.rank < 1 /\ local.rank \in {0, 1}
    BY DEF UseInv, LocalityTypeOK
  <2> QED BY <2>1
<1>2. /\ Len(affinity) \in Nat /\ Len(machine.nvml) \in Nat
      /\ Len(machine.nvml) = Cardinality(gpuloc) /\ Len(affinity) = Cardinality(gpuloc)
      /\ index = Len(machine.nvml) + 1 /\ (Len(affinity) = index - 1 => InOrder)
  <2>1. Len(affinity) \in Nat /\ Len(machine.nvml) \in Nat
    BY LenProperties, MachineFacts DEF LocalityTypeOK, WalkInv, Machine
  <2> QED BY <2>1 DEF MatchInv, Matching
<1>3. InOrder
  BY <1>2
<1>4. Own = affinity[1]
  BY <1>1 DEF Own
<1>5. 0 < Len(affinity) => 1 \in 1 .. Len(affinity)
  BY <1>2
<1>6. 0 < Len(affinity) => affinity[1] \in gpuloc /\ machine.slot[affinity[1].gpu] = machine.nvml[1]
  BY <1>3, <1>5 DEF InOrder
<1>7. gpuloc \subseteq Entry
  BY DEF LocalityTypeOK
<1> QED BY <1>1, <1>2, <1>4, <1>6, <1>7

(* Its NIC is on the bridge of its GPU, its core in the package.           *)
NearInv == phase \in {"pin", "done"} /\ program = "affinity" => PeerNear

LEMMA ChooseNear ==
  ASSUME SafeInv, Choose, program = "affinity", phase' = "pin"
  PROVE  PeerNear'
<1> DEFINE a == Own
<1>1. /\ phase = "peer" /\ UNCHANGED machine
      /\ local.rank < Len(affinity) /\ local.rank < Len(a.efas)
      /\ \E core \in a.cores : peer' = [gpu |-> a.gpu, core |-> core, nic |-> OwnNic,
                                        device |-> CurrentDevice(local.rank)]
  BY DEF Choose
<1>2. /\ local.rank = 0 /\ a \in gpuloc /\ a \in Entry
      /\ Len(affinity) \in Nat /\ 0 < Len(affinity)
      /\ Len(affinity) = Len(machine.nvml)
      /\ machine.slot[a.gpu] = machine.nvml[1]
  BY <1>1, FirstEntry
<1> HIDE DEF a
<1>3. PICK c \in a.cores : peer' = [gpu |-> a.gpu, core |-> c, nic |-> OwnNic,
                                    device |-> CurrentDevice(0)]
  BY <1>1, <1>2
<1>4. OwnNic \in Range(a.efas)
  <2>1. a.efas \in Seq(Objs) /\ 0 < Len(a.efas) /\ DOMAIN a.efas = 1 .. Len(a.efas)
        /\ Len(a.efas) \in Nat
    BY <1>1, <1>2, LenProperties DEF Entry
  <2>2. OwnNic = a.efas[1] /\ 1 \in DOMAIN a.efas
    BY <1>2, <2>1 DEF OwnNic, a
  <2> QED BY <2>2 DEF Range
<1>5. /\ OwnNic \in machine.fi
      /\ Below(OwnNic, "hostbridge") = Below(a.gpu, "hostbridge")
  BY <1>2, <1>4, EntriesShareBridge DEF SafeInv, UseInv, SameHostBridge
<1>6. ASSUME [i \in DOMAIN machine.cuda |-> machine.slot[machine.cuda[i]]] = machine.nvml
      PROVE  machine.slot[CurrentDevice(0)] = machine.slot[a.gpu]
  <2>1. /\ machine.cuda \in Seq(Objs) /\ Len(machine.cuda) \in Nat
        /\ DOMAIN machine.cuda = 1 .. Len(machine.cuda)
        /\ DOMAIN machine.nvml = 1 .. Len(machine.nvml)
    BY LenProperties, MachineFacts DEF SafeInv, FullInv, LocalityInv, WalkInv, Machine
  <2>2. 1 \in DOMAIN machine.nvml
    BY <1>2, <2>1
  <2>3. 1 \in DOMAIN machine.cuda /\ machine.slot[machine.cuda[1]] = machine.nvml[1]
    BY <1>6, <2>2
  <2>4. CurrentDevice(0) = machine.cuda[1]
    <3>1. 0 < Len(machine.cuda)
      BY <2>1, <2>3
    <3> QED BY <3>1 DEF CurrentDevice
  <2> QED BY <1>2, <2>3, <2>4
<1>7. ASSUME InPackages("core"), \A x \in Kind("core") : machine.pu[x] = LogicalIndex(x)
      PROVE  /\ c \in {x \in Kind("core") : machine.pu[x] = LogicalIndex(c)}
             /\ Below(a.gpu, "package") \in {{}, Below(c, "package")}
  <2>1. PICK p \in Objs : /\ Only(a.gpu, p)
                          /\ \A x \in a.cores : x \in Kind("core") /\ Only(x, p)
    BY <1>2, EntryPackage
  <2>2. c \in Kind("core") /\ Below(c, "package") = {p}
    BY <1>7, <2>1, InOne DEF InPackages
  <2>3. Below(a.gpu, "package") \in {{}, {p}}
    BY <2>1, InOne
  <2> QED BY <1>7, <2>2, <2>3
<1>8. /\ peer'.nic = OwnNic /\ peer'.gpu = a.gpu /\ peer'.core = c
      /\ peer'.device = CurrentDevice(0)
  BY <1>3
<1>9. (InPackages("core") /\ \A x \in Kind("core") : machine.pu[x] = LogicalIndex(x))'
        => (\E x \in Bound : Below(peer.gpu, "package") \in {{}, Below(x, "package")})'
  BY <1>1, <1>7, <1>8 DEF InPackages, Kind, LogicalIndex, Bound, Below
<1>10. /\ peer'.nic \in machine'.fi
       /\ Below(peer.nic, "hostbridge")' = Below(peer.gpu, "hostbridge")'
  BY <1>1, <1>5, <1>8 DEF Below
<1> QED BY <1>1, <1>6, <1>8, <1>9, <1>10 DEF PeerNear

LEMMA NearStepInv == SafeInv /\ NearInv /\ [LocalityNext]_localityVars => NearInv'
<1> SUFFICES ASSUME SafeInv, NearInv, [LocalityNext]_localityVars,
                    phase' \in {"pin", "done"}, program' = "affinity"
             PROVE  PeerNear'
  BY DEF NearInv
<1>1. CASE Choose
  <2>1. phase' = "pin" /\ program = "affinity"
    BY <1>1 DEF Choose
  <2> QED BY <1>1, <2>1, ChooseNear
<1>2. ASSUME UNCHANGED <<machine, program, peer>>, phase \in {"pin", "done"} PROVE PeerNear'
  <2>1. PeerNear
    BY <1>2 DEF NearInv
  <2> QED BY <1>2, <2>1 DEF PeerNear, InPackages, Kind, LogicalIndex, Bound, Below
<1>3. CASE Pin \/ UNCHANGED localityVars
  <2>1. UNCHANGED <<machine, program, peer>> /\ phase \in {"pin", "done"}
    BY <1>3 DEF Pin, localityVars
  <2> QED BY <1>2, <2>1
<1>4. CASE Report
  <2>1. program = "affinity" /\ phase = "report"
    BY <1>4 DEF Report
  <2> QED BY <2>1 DEF SafeInv, UseInv
<1>5. CASE Load \/ Leave \/ Discover \/ NextNode \/ CountGPUs \/ MatchGPU \/ EndMatch
  BY <1>5 DEF Load, Leave, Discover, NextNode, CountGPUs, MatchGPU, EndMatch
<1>6. ASSUME NEW c \in Objs, Visit(c) PROVE FALSE
  <2>1. phase' \in {"traverse", "undefined"}
    BY <1>6 DEF Visit
  <2> QED BY <2>1
<1>7. ASSUME NEW b \in Objs, GroupBridge(b) PROVE FALSE
  <2>1. phase' \in {"group", "thrown"}
    BY <1>7 DEF GroupBridge
  <2> QED BY <2>1
<1> QED BY <1>1, <1>3, <1>4, <1>5, <1>6, <1>7 DEF LocalityNext

(* A Peer ends with a NIC on its GPU's host bridge, and, if CUDA and the   *)
(* OS number as NVML and hwloc do, with memory on that GPU and a core of   *)
(* its package.                                                            *)
THEOREM NicAndCoreNear == LocalitySpec => []PeerIsNear
<1>1. LocalityInit => NearInv
  BY DEF LocalityInit, NearInv
<1>2. NearInv => PeerIsNear
  BY DEF NearInv, PeerIsNear
<1> QED BY <1>1, <1>2, NearStepInv, SafeInvHolds, PTL DEF LocalitySpec

-----------------------------------------------------------------------------
(* What DefinedOn asks of machine and program does not change.             *)
LEMMA SameConditions ==
  ASSUME UNCHANGED <<machine, program>>
  PROVE  (Placed /\ Equipped /\ CoresEverywhere)' <=> (Placed /\ Equipped /\ CoresEverywhere)
BY DEF Placed, Equipped, CoresEverywhere, InPackages, Kind, Below, IsEFA, IsOSDevType

LEMMA ReportDefined ==
  ASSUME SafeInv, Report, Equipped, CoresEverywhere
  PROVE  phase' # "undefined"
<1>1. phase = "report" /\ program # "affinity"
  BY DEF Report, SafeInv, UseInv
<1>2. ASSUME NEW a \in gpuloc PROVE a.numanode # 0 /\ a.cores # {}
  <2>1. PICK p \in Objs : /\ IsPackage(p)
                          /\ \A c \in Kind("core") : p \in P(c) => c \in a.cores
                          /\ \A n \in Kind("numa") : p \in P(n) => a.numanode # 0
    BY EntryPackage
  <2>2. p \in Kind("package")
    BY <2>1 DEF Kind, IsPackage
  <2>3. \E c \in Kind("core") : p \in P(c)
    BY <2>2 DEF CoresEverywhere, P
  <2>4. \E n \in Kind("numa") : p \in P(n)
    BY <1>1, <2>2 DEF Equipped, P
  <2> QED BY <2>1, <2>3, <2>4
<1> QED BY <1>2 DEF Report

LEMMA ChooseDefined ==
  ASSUME SafeInv, Choose, program = "affinity", Equipped, CoresEverywhere
  PROVE  phase' # "undefined"
<1>1. phase = "peer"
  BY DEF Choose
<1>2. PICK g \in Kind("gpu") :
        /\ machine.nvml # <<>> /\ machine.slot[g] = machine.nvml[1]
        /\ \E e \in Objs : IsEFA(e) /\ Below(e, "hostbridge") = Below(g, "hostbridge")
  BY DEF Equipped
<1>3. 0 < Len(affinity) /\ local.rank = 0
  <2>1. /\ local.rank = 0 /\ Len(affinity) \in Nat /\ Len(affinity) = Len(machine.nvml)
        /\ machine.nvml \in Seq(Nat)
    BY <1>1, FirstEntry, MachineFacts DEF SafeInv, FullInv, LocalityInv, WalkInv, Machine
  <2>2. Len(machine.nvml) # 0
    BY <1>2, <2>1, EmptySeq
  <2> QED BY <2>1, <2>2
<1>4. /\ Own \in gpuloc /\ Own \in Entry /\ machine.slot[Own.gpu] = machine.nvml[1]
      /\ Own = affinity[1]
  BY <1>1, <1>3, FirstEntry
<1>5. Own.gpu = g
  <2>1. ByNvmlIndex
    BY ListsInNvmlOrder DEF SafeInv
  <2>2. PICK i \in 1 .. Len(affinity) : affinity[i].gpu = g
    BY <1>1, <2>1 DEF ByNvmlIndex
  <2>3. machine.nvml[i] = machine.nvml[1]
    BY <1>1, <1>2, <2>1, <2>2 DEF ByNvmlIndex
  <2>4. /\ DOMAIN machine.nvml = 1 .. Len(machine.nvml) /\ IsInjective(machine.nvml)
        /\ Len(affinity) = Len(machine.nvml) /\ Len(affinity) \in Nat
    BY <1>1, FirstEntry, LenProperties, MachineFacts
       DEF SafeInv, FullInv, LocalityInv, WalkInv, Machine, WellFormed
  <2>5. i \in DOMAIN machine.nvml /\ 1 \in DOMAIN machine.nvml
    BY <1>3, <2>4
  <2>6. i = 1
    BY <2>3, <2>4, <2>5 DEF IsInjective
  <2> QED BY <1>4, <2>2, <2>6
<1>6. 0 < Len(Own.efas)
  <2>1. \E e \in Objs : e \in Range(Own.efas)
    BY <1>2, <1>4, <1>5, EntriesShareBridge DEF SafeInv, SameHostBridge
  <2>2. /\ Own.efas \in Seq(Objs) /\ Len(Own.efas) \in Nat
        /\ DOMAIN Own.efas = 1 .. Len(Own.efas)
    BY <1>4, LenProperties DEF Entry
  <2> QED BY <2>1, <2>2 DEF Range
<1>7. 0 < Cardinality(Own.cores)
  <2>1. PICK p \in Objs : IsPackage(p) /\ \A c \in Kind("core") : p \in P(c) => c \in Own.cores
    BY <1>4, EntryPackage
  <2>2. Own.cores # {}
    BY <2>1 DEF CoresEverywhere, Kind, IsPackage, P
  <2>3. IsFiniteSet(Own.cores)
    BY <1>4, LocalityAssumption, FS_Subset DEF Entry
  <2>4. Cardinality(Own.cores) # 0 /\ Cardinality(Own.cores) \in Nat
    BY <2>2, <2>3, FS_EmptySet, FS_CardinalityType
  <2> QED BY <2>4
<1> QED BY <1>3, <1>6, <1>7 DEF Choose

(* Only a call of Traverse, a printing program and a Peer can go wrong.    *)
LEMMA DefStepInv == SafeInv /\ DefinedOn /\ [LocalityNext]_localityVars => DefinedOn'
<1> SUFFICES ASSUME SafeInv, DefinedOn, [LocalityNext]_localityVars,
                    (Placed /\ Equipped /\ CoresEverywhere)'
             PROVE  phase' # "undefined"
  BY DEF DefinedOn
<1> USE DEF SafeInv
<1>1. UNCHANGED <<machine, program>>
  BY DEF LocalityNext, localityVars, Load, Visit, Leave, Discover, NextNode, GroupBridge,
         CountGPUs, MatchGPU, EndMatch, Report, Choose, Pin
<1>2. Placed /\ Equipped /\ CoresEverywhere
  BY <1>1, SameConditions
<1>3. phase # "undefined"
  BY <1>2 DEF DefinedOn
<1>4. ASSUME NEW c \in Objs, Visit(c) PROVE phase' # "undefined"
  BY <1>2, <1>4, VisitFirst DEF FullInv, LocalityInv, WalkInv, PlaceInv
<1>5. CASE Report
  BY <1>2, <1>5, ReportDefined
<1>6. CASE Choose
  <2>1. program = "affinity"
    BY <1>6 DEF Choose, UseInv
  <2> QED BY <1>2, <1>6, <2>1, ChooseDefined
<1>7. ASSUME NEW b \in Objs, GroupBridge(b) PROVE phase' # "undefined"
  BY <1>7 DEF GroupBridge
<1>8. CASE Load \/ Leave \/ Discover \/ NextNode \/ CountGPUs \/ MatchGPU \/ EndMatch \/ Pin
  BY <1>3, <1>8 DEF Load, Leave, Discover, NextNode, CountGPUs, MatchGPU, EndMatch, Pin
<1>9. CASE UNCHANGED localityVars
  BY <1>3, <1>9 DEF localityVars
<1> QED BY <1>3, <1>4, <1>5, <1>6, <1>7, <1>8, <1>9 DEF LocalityNext

(* On every machine that has its cores, NUMA nodes and groups where the    *)
(* code expects them and enough devices for the program, nothing is read   *)
(* that is not there: not back() of an empty vector, not the first core of *)
(* an empty list, not an index past the end.                               *)
THEOREM DefinedWhereClaimed == LocalitySpec => []DefinedOn
<1>1. LocalityInit => DefinedOn
  BY DEF LocalityInit, DefinedOn
<1> QED BY <1>1, DefStepInv, SafeInvHolds, PTL DEF LocalitySpec
=============================================================================
