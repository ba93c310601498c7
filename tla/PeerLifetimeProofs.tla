-------------------------- MODULE PeerLifetimeProofs --------------------------
(***************************************************************************)
(* What a Peer gives back, for any number of buffers of either class and   *)
(* whatever call fails.                                                    *)
(***************************************************************************)
EXTENDS PeerLifetime, TLAPS

(* No constructor of a CUDABuffer fails after its cudaMalloc.              *)
Safe == Failing \cap {"export", "dmabuf"} = {}

Constructing == {"alloc", "export", "region"}
Destroying   == {"mr", "raw"}
Opened       == {"bindcq", "bindav", "enable", "insert", "check", "run"}
                  \cup Constructing
BeforeConn   == {"open", "bindcq", "bindav", "enable", "insert"}

(* What is open follows from what Net points to and what is bound to the   *)
(* endpoint, in every step of Open and of ~Net.                            *)
NetInv ==
  /\ open = IF bound = {} THEN fields ELSE fields \cup bound \cup {"domain", "fabric"}
  /\ bound # {} /\ fields \cap {"cq", "av"} # {} => "ep" \in fields
  /\ at = "open" => bound = {}
  /\ at \in Opened => fields = Objects
  /\ at \in Opened \ {"bindcq"} => bound # {}
  /\ polled => "cq" \in fields
  /\ at = "close" => ~polled
  /\ at = "gone" => fields = {}
  /\ regions # {} => bound # {}

(* Every buffer before the current one is complete, and none after it      *)
(* exists; of the current one there is as much as the step says.           *)
BufferInv ==
  /\ mrs = regions /\ raws = memory
  /\ \A b \in Members : /\ b <= built => b \in memory /\ b \in regions
                        /\ b > Current => b \notin memory /\ b \notin regions
  /\ Current \in regions => at = "mr" /\ Current \in memory
  /\ Current \in memory => at \in {"export", "region"} \cup Destroying
  /\ at \in {"export", "region"} => Current \in memory
  /\ at = "export" => Current \in Device
  /\ at = "region" /\ Current \in Device => Current \in exported
  /\ regions \cap Device \subseteq exported
  /\ at \in Constructing \cup Destroying => built < Buffers
  /\ at \in BeforeConn \cup {"gone"} => built = 0

(* The current buffer's memory is freed by the function that matches it.   *)
ClassInv ==
  Safe => /\ at # "undefined"
          /\ at \in Destroying /\ Current \in memory
               => class = "derived" \/ Current \notin Device

LifeInv == LifeTypeOK /\ NetInv /\ BufferInv /\ ClassInv

-----------------------------------------------------------------------------
LEMMA InitLife == LifeInit => LifeInv
<1> USE LifeAssumption DEF LifeInit
<1>1. LifeInit => LifeTypeOK
  <2>1. 0 \in 0 .. Buffers
    OBVIOUS
  <2> QED BY <2>1 DEF LifeTypeOK, Steps
<1>2. LifeInit => NetInv
  BY DEF NetInv, Opened, Constructing
<1>3. LifeInit => BufferInv /\ ClassInv
  BY DEF BufferInv, ClassInv, Members, Current, Constructing, Destroying, BeforeConn
<1> QED BY <1>1, <1>2, <1>3 DEF LifeInv

(* The steps of Net leave the buffers alone, and are taken when no buffer  *)
(* is being built or destroyed.                                            *)
NetStep == /\ UNCHANGED <<built, bufferVars>>
           /\ at \notin {"export", "region", "alloc", "undefined"} \cup Destroying
           /\ \/ at' \in {"check", "run", "unregister", "close", "drop"}
              \/ at \in BeforeConn /\ at' \in BeforeConn \cup {"alloc"}

LEMMA NetStepBuffers == LifeInv /\ NetStep => BufferInv' /\ ClassInv'
<1> SUFFICES ASSUME LifeInv, NetStep PROVE BufferInv' /\ ClassInv'
  OBVIOUS
<1> USE LifeAssumption
<1>1. UNCHANGED <<built, bufferVars>> /\ Current' = Current
  BY DEF NetStep, bufferVars, Current
<1>2. Current \notin memory /\ Current \notin regions
  BY DEF LifeInv, BufferInv, NetStep, Destroying
<1>3. at' \notin {"export", "region", "undefined", "gone"} \cup Destroying
  BY DEF NetStep, BeforeConn, Destroying
<1>4. at' \in BeforeConn \cup {"alloc"} => built = 0
  BY DEF NetStep, LifeInv, BufferInv, BeforeConn
<1>5. BufferInv'
  BY <1>1, <1>2, <1>3, <1>4
  DEF LifeInv, BufferInv, Constructing, Destroying, BeforeConn, bufferVars
<1>6. ClassInv'
  BY <1>3 DEF ClassInv, Safe
<1> QED BY <1>5, <1>6

LEMMA OpenPreserves ==
  ASSUME LifeInv, NEW o \in Objects, OpenObject(o)
  PROVE  LifeInv'
<1> USE DEF LifeInv
<1>1. LifeTypeOK'
  BY DEF OpenObject, FailNet, LifeTypeOK, Steps, Objects, netVars, bufferVars
<1>2. NetInv'
  BY DEF OpenObject, FailNet, NetInv, LifeTypeOK, OpenBefore, Objects, Opened,
         Constructing, netVars, bufferVars
<1>3. NetStep
  BY DEF OpenObject, FailNet, NetStep, BeforeConn, Destroying, Objects, bufferVars
<1> QED BY <1>1, <1>2, <1>3, NetStepBuffers

LEMMA BindPreserves ==
  ASSUME LifeInv, \/ Bind("bindcq", "cq", "bindav")
                  \/ Bind("bindav", "av", "enable")
  PROVE  LifeInv'
<1> USE DEF LifeInv
<1>1. LifeTypeOK'
  BY DEF Bind, FailNet, LifeTypeOK, Steps, Objects, netVars, bufferVars
<1>2. NetInv'
  BY DEF Bind, FailNet, NetInv, LifeTypeOK, Objects, Opened, Constructing,
         netVars, bufferVars
<1>3. NetStep
  BY DEF Bind, FailNet, NetStep, BeforeConn, Destroying, bufferVars
<1> QED BY <1>1, <1>2, <1>3, NetStepBuffers

LEMMA EnablePreserves ==
  ASSUME LifeInv, Enable \/ Insert \/ CheckSize \/ Leave
  PROVE  LifeInv'
<1> USE DEF LifeInv
<1>1. LifeTypeOK'
  BY DEF Enable, Insert, CheckSize, Leave, FailNet, LifeTypeOK, Steps, netVars,
         bufferVars
<1>2. NetInv'
  BY DEF Enable, Insert, CheckSize, Leave, FailNet, NetInv, LifeTypeOK, Objects,
         Opened, Constructing, netVars, bufferVars
<1>3. NetStep
  BY DEF Enable, Insert, CheckSize, Leave, FailNet, NetStep, BeforeConn,
         Destroying, bufferVars
<1> QED BY <1>1, <1>2, <1>3, NetStepBuffers

(* The steps of ~Net.  What is bound keeps its object, the domain and the  *)
(* fabric open; when nothing is, every object closes.                      *)
LEMMA ClosePreserves ==
  ASSUME LifeInv, NEW o \in Objects, CloseObject(o)
  PROVE  LifeInv'
<1> USE DEF LifeInv
<1>1. at' = at /\ at = "close" /\ UNCHANGED <<bound, polled, built, bufferVars>>
  BY DEF CloseObject
<1>2. LifeTypeOK'
  BY <1>1 DEF CloseObject, LifeTypeOK, bufferVars
<1>3. fields' = fields \ {o} /\ o \in fields /\ fields \cap CloseBefore(o) = {}
  BY DEF CloseObject
<1>4. ASSUME bound = {} PROVE NetInv'
  <2>1. open = fields /\ regions = {}
    BY <1>4 DEF NetInv
  <2>2. ~InUse(o)
    BY <1>3, <1>4, <2>1 DEF InUse, CloseBefore, Objects
  <2>3. open' = open \ {o}
    BY <2>2 DEF CloseObject
  <2> QED BY <1>1, <1>3, <1>4, <2>1, <2>3 DEF NetInv, Opened, Constructing, bufferVars
<1>5. ASSUME bound # {} PROVE NetInv'
  <2>1. open = fields \cup bound \cup {"domain", "fabric"} /\ bound \subseteq {"cq", "av"}
    BY <1>5 DEF NetInv, LifeTypeOK
  <2>2. o \in bound \cup {"domain", "fabric"} => InUse(o)
    <3>1. o \in bound => "ep" \in open
      BY <1>3, <1>5, <2>1 DEF NetInv
    <3>2. open \cap {"cq", "av", "ep"} # {} /\ "domain" \in open
      BY <1>5, <2>1
    <3> QED BY <3>1, <3>2 DEF InUse
  <2>3. open' = fields' \cup bound' \cup {"domain", "fabric"}
    <3>1. CASE o \in bound \cup {"domain", "fabric"}
      BY <1>1, <1>3, <2>1, <2>2, <3>1 DEF CloseObject
    <3>2. CASE o \notin bound \cup {"domain", "fabric"}
      <4>1. ~InUse(o)
        BY <3>2 DEF InUse
      <4> QED BY <1>1, <1>3, <2>1, <3>2, <4>1 DEF CloseObject
    <3> QED BY <3>1, <3>2
  <2>4. fields' \cap {"cq", "av"} # {} => "ep" \in fields'
    <3>1. o = "ep" => fields' \cap {"cq", "av"} = {}
      BY <1>3 DEF CloseBefore
    <3> QED BY <1>3, <1>5, <3>1 DEF NetInv
  <2> QED BY <1>1, <1>5, <2>3, <2>4 DEF NetInv, Opened, Constructing, bufferVars
<1>6. NetInv'
  BY <1>4, <1>5
<1>7. NetStep
  BY <1>1 DEF NetStep, Destroying, BeforeConn
<1> QED BY <1>2, <1>6, <1>7, NetStepBuffers

LEMMA UnRegisterPreserves ==
  ASSUME LifeInv, UnRegister \/ EndClose
  PROVE  LifeInv'
<1> USE DEF LifeInv
<1>1. LifeTypeOK'
  BY DEF UnRegister, EndClose, LifeTypeOK, Steps, netVars, bufferVars
<1>2. NetInv'
  BY DEF UnRegister, EndClose, NetInv, LifeTypeOK, Opened, Constructing, netVars,
         bufferVars
<1>3. NetStep
  BY DEF UnRegister, EndClose, NetStep, Destroying, BeforeConn, netVars, bufferVars
<1> QED BY <1>1, <1>2, <1>3, NetStepBuffers

-----------------------------------------------------------------------------
(* The steps of the buffers.                                               *)
LEMMA AllocPreserves == ASSUME LifeInv, AllocBuffer PROVE LifeInv'
<1> USE LifeAssumption DEF LifeInv
<1>1. built \in Nat /\ Current \in Members /\ built < Current
  BY DEF AllocBuffer, LifeTypeOK, BufferInv, Constructing, Current, Members
<1>2. Current' = Current
  BY DEF AllocBuffer, FailBuffer, Current
<1>3. LifeTypeOK' /\ NetInv'
  <2>1. LifeTypeOK'
    BY <1>1 DEF AllocBuffer, FailBuffer, LifeTypeOK, Steps, netVars
  <2>2. NetInv'
    BY DEF AllocBuffer, FailBuffer, NetInv, Opened, Constructing, netVars
  <2> QED BY <2>1, <2>2
<1>4. BufferInv'
  <2>1. \A b \in Members : b <= built \/ b > Current => b # Current
    BY <1>1 DEF Members
  <2>2. Current \notin regions
    BY DEF AllocBuffer, BufferInv
  <2>3. CASE FailBuffer("alloc")
    BY <1>2, <2>3 DEF AllocBuffer, FailBuffer, BufferInv, Constructing, Destroying,
                      BeforeConn
  <2>4. CASE ~FailBuffer("alloc")
    BY <1>1, <1>2, <2>1, <2>2, <2>4
    DEF AllocBuffer, BufferInv, Constructing, Destroying, BeforeConn
  <2> QED BY <2>3, <2>4
<1>5. ClassInv'
  BY <1>2 DEF AllocBuffer, FailBuffer, BufferInv, ClassInv, Safe, Destroying
<1> QED BY <1>3, <1>4, <1>5

LEMMA ExportPreserves == ASSUME LifeInv, ExportBuffer PROVE LifeInv'
<1> USE LifeAssumption DEF LifeInv
<1>1. built \in Nat /\ Current \in Members /\ built < Current
  BY DEF ExportBuffer, LifeTypeOK, BufferInv, Constructing, Current, Members
<1>2. Current' = Current
  BY DEF ExportBuffer, FailBuffer, Current
<1>3. LifeTypeOK' /\ NetInv'
  <2>1. at = "export" /\ Current \in Device
    BY DEF ExportBuffer, BufferInv
  <2>2. LifeTypeOK'
    BY <2>1 DEF ExportBuffer, FailBuffer, LifeTypeOK, Steps, netVars
  <2>3. NetInv'
    BY DEF ExportBuffer, FailBuffer, NetInv, Opened, Constructing, netVars
  <2> QED BY <2>2, <2>3
<1>4. BufferInv'
  BY <1>1, <1>2 DEF ExportBuffer, FailBuffer, BufferInv, Constructing, Destroying,
                    BeforeConn, LifeTypeOK
<1>5. ClassInv'
  BY <1>2 DEF ExportBuffer, FailBuffer, BufferInv, ClassInv, Safe, Destroying
<1> QED BY <1>3, <1>4, <1>5

LEMMA RegisterPreserves == ASSUME LifeInv, RegisterBuffer PROVE LifeInv'
<1> USE LifeAssumption DEF LifeInv
<1>1. built \in Nat /\ Current \in Members /\ Current = built + 1
  BY DEF RegisterBuffer, LifeTypeOK, BufferInv, Constructing, Current, Members
<1>2. CASE FailBuffer(RegionCall)
  <2>1. Current' = Current
    BY <1>2 DEF FailBuffer, Current
  <2>2. LifeTypeOK' /\ NetInv'
    BY <1>2 DEF FailBuffer, LifeTypeOK, Steps, NetInv, Opened, Constructing, netVars
  <2>3. BufferInv'
    BY <1>1, <1>2, <2>1 DEF RegisterBuffer, FailBuffer, BufferInv, Constructing,
                            Destroying, BeforeConn, LifeTypeOK
  <2>4. ClassInv'
    BY <1>2, <2>1 DEF FailBuffer, RegionCall, ClassInv, Safe
  <2> QED BY <2>2, <2>3, <2>4
<1>3. CASE ~FailBuffer(RegionCall)
  <2>1. /\ mrs' = mrs \cup {Current} /\ regions' = regions \cup {Current}
        /\ UNCHANGED <<netVars, class, raws, memory, exported>>
        /\ built' = Current /\ Current' = Current + 1
        /\ at' = IF Current = Buffers THEN "check" ELSE "alloc"
        /\ at = "region"
    BY <1>3 DEF RegisterBuffer, Complete, Current
  <2>2. LifeTypeOK' /\ NetInv'
    BY <1>1, <2>1 DEF LifeTypeOK, Steps, Members, NetInv, Opened, Constructing, netVars
  <2>3. Current' \notin memory /\ Current' \notin regions /\ Current' # Current
    BY <1>1, <2>1 DEF BufferInv, LifeTypeOK, Members
  <2>4. BufferInv'
    <3>1. ASSUME NEW b \in Members
          PROVE  /\ b <= built' => b \in memory' /\ b \in regions'
                 /\ b > Current' => b \notin memory' /\ b \notin regions'
      <4>1. b \in Nat /\ (b <= built' => b <= built \/ b = Current)
        BY <1>1, <2>1 DEF Members
      <4>2. b > Current' => b > Current /\ b # Current
        BY <1>1, <2>1, <4>1
      <4> QED BY <2>1, <4>1, <4>2 DEF BufferInv
    <3>2. at' \in Constructing => built' < Buffers
      BY <1>1, <2>1 DEF Members, Constructing
    <3> QED BY <2>1, <2>3, <3>1, <3>2 DEF BufferInv, Constructing, Destroying, BeforeConn
  <2>5. ClassInv'
    BY <2>1 DEF ClassInv, Safe, Destroying
  <2> QED BY <2>2, <2>4, <2>5
<1> QED BY <1>2, <1>3

LEMMA DropPreserves == ASSUME LifeInv, DropBuffer PROVE LifeInv'
<1> USE LifeAssumption DEF LifeInv
<1>1. built \in Nat /\ Current = built + 1 /\ at = "drop"
  BY DEF DropBuffer, LifeTypeOK, Current
<1>2. CASE built > 0
  <2>1. /\ built' = built - 1 /\ Current' = built /\ built \in Members
        /\ class' = IF built \in Device THEN "derived" ELSE "base"
        /\ at' = "mr"
        /\ UNCHANGED <<netVars, raws, mrs, memory, regions, exported>>
    BY <1>1, <1>2 DEF DropBuffer, Current, LifeTypeOK, Members
  <2>2. LifeTypeOK' /\ NetInv'
    BY <1>1, <1>2, <2>1 DEF LifeTypeOK, Steps, NetInv, Opened, Constructing, netVars
  <2>3. BufferInv'
    <3>1. ASSUME NEW b \in Members
          PROVE  /\ b <= built' => b \in memory' /\ b \in regions'
                 /\ b > Current' => b \notin memory' /\ b \notin regions'
      <4>1. b \in Nat /\ (b <= built' => b <= built)
        BY <1>1, <2>1 DEF Members
      <4>2. b > Current' => b > Current \/ b = Current
        BY <1>1, <2>1, <4>1
      <4>3. Current \notin memory /\ Current \notin regions
        BY <1>1 DEF BufferInv, Destroying
      <4> QED BY <2>1, <4>1, <4>2, <4>3 DEF BufferInv
    <3>2. built \in memory /\ built \in regions /\ built' < Buffers
      BY <1>1, <2>1 DEF BufferInv, LifeTypeOK, Members
    <3> QED BY <2>1, <3>1, <3>2 DEF BufferInv, Constructing, Destroying, BeforeConn
  <2>4. ClassInv'
    BY <2>1 DEF ClassInv, Safe
  <2> QED BY <2>2, <2>3, <2>4
<1>3. CASE built = 0
  <2>1. /\ UNCHANGED <<built, class, netVars, raws, mrs, memory, regions, exported>>
        /\ at' = IF fields = {} THEN "gone" ELSE "unregister"
        /\ Current' = Current
    BY <1>3 DEF DropBuffer, Current
  <2>2. LifeTypeOK' /\ NetInv'
    BY <2>1 DEF LifeTypeOK, Steps, NetInv, Opened, Constructing, netVars
  <2>3. BufferInv' /\ ClassInv'
    BY <1>1, <1>3, <2>1 DEF BufferInv, ClassInv, Safe, Constructing, Destroying,
                            BeforeConn
  <2> QED BY <2>2, <2>3
<1> QED BY <1>1, <1>2, <1>3

LEMMA CloseRegionPreserves == ASSUME LifeInv, CloseRegion PROVE LifeInv'
<1> USE LifeAssumption DEF LifeInv
<1>1. /\ at = "mr" /\ Current' = Current
      /\ UNCHANGED <<built, netVars, class, raws, memory, exported>>
      /\ built \in Nat /\ Current = built + 1
  BY DEF CloseRegion, Current, LifeTypeOK
<1>2. mrs' = mrs \ {Current} /\ regions' = regions \ {Current}
  BY DEF CloseRegion, BufferInv
<1>3. at' = "raw"
  <2>1. Current \in mrs => "domain" \in open
    BY DEF NetInv, BufferInv
  <2> QED BY <2>1 DEF CloseRegion
<1>4. LifeTypeOK' /\ NetInv'
  BY <1>1, <1>2, <1>3 DEF LifeTypeOK, Steps, NetInv, Opened, Constructing, netVars
<1>5. BufferInv'
  <2>1. ASSUME NEW b \in Members, b <= built PROVE b # Current
    BY <1>1, <2>1 DEF Members
  <2> QED BY <1>1, <1>2, <1>3, <2>1
          DEF BufferInv, Constructing, Destroying, BeforeConn
<1>6. ClassInv'
  BY <1>1, <1>3 DEF ClassInv, Safe, Destroying
<1> QED BY <1>4, <1>5, <1>6

LEMMA FreePreserves == ASSUME LifeInv, FreeMemory PROVE LifeInv'
<1> USE LifeAssumption DEF LifeInv
<1>1. /\ at = "raw" /\ Current' = Current /\ class' = "base"
      /\ UNCHANGED <<built, netVars, mrs, regions, exported>>
      /\ built \in Nat /\ Current = built + 1
  BY DEF FreeMemory, Current, LifeTypeOK
<1>2. raws' = raws \ {Current} /\ memory' = memory \ {Current}
  BY DEF FreeMemory, BufferInv
<1>3. at' \in {"mr", "drop", "undefined"} /\ (Safe => at' # "undefined")
  <2>1. Safe /\ Frees => LegalFree
    BY <1>1 DEF Frees, LegalFree, ClassInv, BufferInv, Destroying
  <2> QED BY <2>1 DEF FreeMemory, AfterFree
<1>4. LifeTypeOK' /\ NetInv'
  BY <1>1, <1>2, <1>3 DEF LifeTypeOK, Steps, NetInv, Opened, Constructing, netVars
<1>5. BufferInv'
  <2>1. ASSUME NEW b \in Members, b <= built PROVE b # Current
    BY <1>1, <2>1 DEF Members
  <2> QED BY <1>1, <1>2, <1>3, <2>1
          DEF BufferInv, Constructing, Destroying, BeforeConn
<1>6. ClassInv'
  BY <1>1, <1>2, <1>3 DEF ClassInv, Safe
<1> QED BY <1>4, <1>5, <1>6

LEMMA LifeInvariant == LifeSpec => []LifeInv
<1>1. LifeInv /\ [LifeNext]_lifeVars => LifeInv'
  <2> SUFFICES ASSUME LifeInv, [LifeNext]_lifeVars PROVE LifeInv'
    OBVIOUS
  <2>1. CASE OpenStep
    BY <2>1, OpenPreserves, BindPreserves, EnablePreserves DEF OpenStep
  <2>2. CASE ConnStep
    BY <2>2, AllocPreserves, ExportPreserves, RegisterPreserves, EnablePreserves
    DEF ConnStep
  <2>3. CASE CloseStep
    BY <2>3, ClosePreserves, UnRegisterPreserves DEF CloseStep
  <2>4. CASE DropStep
    BY <2>4, DropPreserves, CloseRegionPreserves, FreePreserves DEF DropStep
  <2>5. CASE UNCHANGED lifeVars
    BY <2>5 DEF lifeVars, netVars, bufferVars, LifeInv, LifeTypeOK, NetInv,
                BufferInv, ClassInv, Safe, Current
  <2> QED BY <2>1, <2>2, <2>3, <2>4, <2>5 DEF LifeNext, Over
<1> QED BY <1>1, InitLife, PTL DEF LifeSpec

-----------------------------------------------------------------------------
(* The variables of a Peer keep their types.                               *)
THEOREM LifeTyped == LifeSpec => []LifeTypeOK
<1>1. LifeInv => LifeTypeOK
  BY DEF LifeInv
<1> QED BY <1>1, LifeInvariant, PTL

(* The NIC never has a region without memory, nor the selector a queue     *)
(* that Net has closed or given up.                                        *)
THEOREM AlwaysBacked == LifeSpec => []Backed
<1>1. LifeInv => Backed
  <2> SUFFICES ASSUME LifeInv PROVE Backed
    OBVIOUS
  <2>1. ASSUME NEW b \in regions PROVE b \in memory
    <3>1. b \in Members /\ b \in Nat /\ built \in Nat /\ Current = built + 1
      BY LifeAssumption DEF LifeInv, LifeTypeOK, Members, Current
    <3>2. b <= built \/ b = Current \/ b > Current
      BY <3>1
    <3> QED BY <3>1, <3>2 DEF LifeInv, BufferInv
  <2>2. polled => "cq" \in open \cap fields
    BY DEF LifeInv, NetInv
  <2>3. regions \cap Device \subseteq exported
    BY DEF LifeInv, BufferInv
  <2> QED BY <2>1, <2>2, <2>3 DEF Backed
<1> QED BY <1>1, LifeInvariant, PTL

(* Only a constructor of CUDABuffer that fails after cudaMalloc can lead   *)
(* to a wrong free or to a region closed after its domain.                 *)
THEOREM NeverFaults == Safe => (LifeSpec => []NoFault)
<1> SUFFICES ASSUME Safe PROVE LifeSpec => []NoFault
  OBVIOUS
<1>1. LifeInv => NoFault
  BY DEF LifeInv, ClassInv, NoFault
<1> QED BY <1>1, LifeInvariant, PTL

(* Unless a constructor of CUDABuffer fails after its cudaMalloc, a Peer   *)
(* that comes to its end has given back all memory and all regions,        *)
(* whichever other call failed; and it comes to no other end.              *)
THEOREM AllMemoryReturned == Safe => (LifeSpec => [](MemoryReturned /\ NoFault))
<1> SUFFICES ASSUME Safe PROVE LifeSpec => [](MemoryReturned /\ NoFault)
  OBVIOUS
<1>1. LifeInv => MemoryReturned
  <2> SUFFICES ASSUME LifeInv, at = "gone" PROVE memory = {} /\ regions = {}
    BY DEF MemoryReturned
  <2>1. built = 0 /\ Current = 1 /\ Current \notin memory /\ Current \notin regions
    BY DEF LifeInv, BufferInv, Current, Destroying
  <2>2. ASSUME NEW b \in Members PROVE b \notin memory /\ b \notin regions
    <3>1. b = Current \/ b > Current
      BY <2>1, LifeAssumption DEF Members
    <3> QED BY <2>1, <3>1 DEF LifeInv, BufferInv
  <2> QED BY <2>2 DEF LifeInv, LifeTypeOK
<1>2. LifeInv => NoFault
  BY DEF LifeInv, ClassInv, NoFault
<1> QED BY <1>1, <1>2, LifeInvariant, PTL

(* What ~Net leaves open, whatever call of Open failed.                    *)
THEOREM ExactlyLeftOpen == LifeSpec => []LeftOpen
<1>1. LifeInv => LeftOpen
  BY DEF LifeInv, NetInv, LeftOpen
<1> QED BY <1>1, LifeInvariant, PTL
=============================================================================
