----------------------------- MODULE PeerLifetime -----------------------------
(***************************************************************************)
(* The resources one Peer of dmabuf, affinity and batch owns: the libfabric*)
(* objects of Net, the memory and memory regions of Conn's buffers and the *)
(* registration with the selector.  Net::Open and the constructor of Conn  *)
(* build them, one call after the other, each of which may fail with an    *)
(* exception; the destructors of Net and of the buffers release them.      *)
(*                                                                         *)
(* A pointer of the code (`fields', `mrs', `raws') is kept apart from the  *)
(* resource it points to (`open', `regions', `memory').                    *)
(***************************************************************************)
EXTENDS Naturals, FiniteSets

CONSTANTS Buffers,  \* number of buffers of a Conn
          Device,   \* those of class CUDABuffer
          Failing   \* calls that may fail

Members == 1 .. Buffers

ASSUME LifeAssumption == /\ Buffers \in Nat \ {0}
                         /\ Device \in SUBSET Members

VARIABLES at,        \* the next step
          fields,    \* pointers of Net that are not null
          open,      \* libfabric objects that are open
          bound,     \* objects bound to the endpoint
          polled,    \* Selector::cqs_ has the completion queue
          built,     \* number of buffers built and not yet being destroyed
          class,     \* whose destructor body runs on buffer built + 1
          raws,      \* buffers whose raw_ is not null
          mrs,       \* buffers whose mr_ is not null
          memory,    \* buffers whose allocation is live
          regions,   \* buffers whose memory region is open
          exported   \* buffers whose DMA-BUF descriptor is open

netVars    == <<fields, open, bound, polled>>
bufferVars == <<class, raws, mrs, memory, regions, exported>>
lifeVars   == <<at, built, netVars, bufferVars>>

Objects == {"fabric", "domain", "cq", "av", "ep"}
Steps   == {"open", "bindcq", "bindav", "enable", "insert", "alloc", "export",
            "region", "check", "run", "unregister", "close", "drop", "mr", "raw",
            "gone", "undefined"}

(* The orders in which Open opens the objects and ~Net closes them: what   *)
(* has been opened, or is closed, before an object.                        *)
OpenBefore(o) == CASE o = "fabric" -> {}
                   [] o = "domain" -> {"fabric"}
                   [] o = "cq"     -> {"fabric", "domain"}
                   [] o = "av"     -> {"fabric", "domain", "cq"}
                   [] o = "ep"     -> {"fabric", "domain", "cq", "av"}

CloseBeforeMixed(o) ==  \* defect: the domain before what is opened on it
  CASE o = "cq"     -> {}
    [] o = "domain" -> {"cq"}
    [] o = "av"     -> {"cq", "domain"}
    [] o = "ep"     -> {"cq", "domain", "av"}
    [] o = "fabric" -> {"cq", "domain", "av", "ep"}

CloseBefore(o) == CASE o = "cq"     -> {}
                    [] o = "av"     -> {"cq"}
                    [] o = "ep"     -> {"cq", "av"}
                    [] o = "domain" -> {"cq", "av", "ep"}
                    [] o = "fabric" -> {"cq", "av", "ep", "domain"}

LifeInit == /\ at = "open"
            /\ fields = {} /\ open = {} /\ bound = {} /\ polled = FALSE
            /\ built = 0 /\ class = "base"
            /\ raws = {} /\ mrs = {}
            /\ memory = {} /\ regions = {} /\ exported = {}

-----------------------------------------------------------------------------
(* An exception out of Net::Open or Net::Connect before there is a Conn    *)
(* unwinds Peer's constructor, which destroys net_.                        *)
FailNet(call) == /\ call \in Failing
                 /\ at' = "unregister"
                 /\ UNCHANGED <<built, netVars, bufferVars>>

(* fi_fabric, fi_domain, fi_cq_open, fi_av_open and fi_endpoint.           *)
OpenObject(o) ==
  /\ at = "open"
  /\ fields = OpenBefore(o)
  /\ \/ /\ fields' = fields \cup {o}
        /\ open' = open \cup {o}
        /\ at' = IF o = "ep" THEN "bindcq" ELSE "open"
        /\ UNCHANGED <<bound, polled, built, bufferVars>>
     \/ FailNet(o)

Bind(call, o, next) ==
  /\ at = call
  /\ \/ /\ bound' = bound \cup {o}
        /\ at' = next
        /\ UNCHANGED <<fields, open, polled, built, bufferVars>>
     \/ FailNet(call)

(* fi_enable and fi_getname, and Register.                                 *)
Enable == /\ at = "enable"
          /\ \/ /\ polled' = TRUE
                /\ at' = "insert"
                /\ UNCHANGED <<fields, open, bound, built, bufferVars>>
             \/ FailNet("enable")

(* The addresses have been exchanged: fi_av_insert.                        *)
Insert == /\ at = "insert"
          /\ \/ /\ at' = "alloc"
                /\ UNCHANGED <<built, netVars, bufferVars>>
             \/ FailNet("insert")

-----------------------------------------------------------------------------
(* Conn's constructor builds its buffers in the order of its members.  An  *)
(* exception out of the constructor of a buffer destroys the part of it    *)
(* that exists, which is the base class, then the buffers before it.       *)
Current == built + 1

FailBuffer(call) == /\ call \in Failing
                    /\ at' = "mr"
                    /\ class' = "base"
                    /\ UNCHANGED <<built, netVars, raws, mrs, memory, regions,
                                   exported>>

(* malloc, or cudaMalloc.                                                  *)
AllocBuffer ==
  /\ at = "alloc"
  /\ \/ /\ raws' = raws \cup {Current}
        /\ memory' = memory \cup {Current}
        /\ at' = IF Current \in Device THEN "export" ELSE "region"
        /\ UNCHANGED <<built, netVars, class, mrs, regions, exported>>
     \/ FailBuffer("alloc")

(* CUDABuffer asks for a DMA-BUF descriptor of its memory.                 *)
ExportBuffer ==
  /\ at = "export"
  /\ \/ /\ exported' = exported \cup {Current}
        /\ at' = "region"
        /\ UNCHANGED <<built, netVars, class, raws, mrs, memory, regions>>
     \/ FailBuffer("export")

RegionCall == IF Current \in Device THEN "dmabuf" ELSE "region"

CompleteLate == built = Buffers  \* defect: off by one

Complete == Current = Buffers

(* fi_mr_regattr.  The last buffer completes Conn, which goes to conns_.   *)
RegisterBuffer ==
  /\ at = "region"
  /\ \/ /\ mrs' = mrs \cup {Current}
        /\ regions' = regions \cup {Current}
        /\ built' = Current
        /\ at' = IF Complete THEN "check" ELSE "alloc"
        /\ UNCHANGED <<netVars, class, raws, memory, exported>>
     \/ FailBuffer(RegionCall)

(* Peer checks that its pages fit.                                         *)
CheckSize == /\ at = "check"
             /\ \/ /\ at' = "run"
                   /\ UNCHANGED <<built, netVars, bufferVars>>
                \/ FailNet("check")

(* The coroutine that has the Peer ends, or an exception leaves it.        *)
Leave == /\ at = "run"
         /\ at' = "unregister"
         /\ UNCHANGED <<built, netVars, bufferVars>>

-----------------------------------------------------------------------------
(* ~Net and the destructors of the buffers.                                *)

UnRegisterLate ==  \* defect: cq_ is read after it has been closed
  /\ at = "unregister"
  /\ at' = "close"
  /\ UNCHANGED <<built, netVars, bufferVars>>

UnRegister == /\ at = "unregister"
              /\ polled' = IF "cq" \in fields THEN FALSE ELSE polled
              /\ at' = "close"
              /\ UNCHANGED <<fields, open, bound, built, bufferVars>>

(* fi_close refuses an object that others still need: an endpoint needs    *)
(* what is bound to it, a memory region the domain.                        *)
InUse(o) == \/ o = "fabric" /\ "domain" \in open
            \/ o = "domain" /\ (open \cap {"cq", "av", "ep"} # {} \/ regions # {})
            \/ o \in bound /\ "ep" \in open

(* ~Net ignores what fi_close returns and clears the pointer.              *)
CloseObject(o) == /\ at = "close"
                  /\ o \in fields
                  /\ fields \cap CloseBefore(o) = {}
                  /\ fields' = fields \ {o}
                  /\ open' = IF InUse(o) THEN open ELSE open \ {o}
                  /\ UNCHANGED <<at, bound, polled, built, bufferVars>>

(* The members of Net are destroyed after the body of ~Net: conns_ with    *)
(* the Conn, if there is one.                                              *)
EndClose == /\ at = "close"
            /\ fields = {}
            /\ at' = "drop"
            /\ UNCHANGED <<built, netVars, bufferVars>>

(* The buffers of a Conn, complete or not, are destroyed in reverse order; *)
(* after those of an incomplete one net_ is left.                          *)
DropBuffer ==
  /\ at = "drop"
  /\ IF built > 0
     THEN /\ built' = built - 1
          /\ class' = IF built \in Device THEN "derived" ELSE "base"
          /\ at' = "mr"
     ELSE /\ at' = IF fields = {} THEN "gone" ELSE "unregister"
          /\ UNCHANGED <<built, class>>
  /\ UNCHANGED <<netVars, raws, mrs, memory, regions, exported>>

CloseRegionLost ==  \* defect: mr_ is cleared but not closed
  /\ at = "mr"
  /\ mrs' = mrs \ {Current}
  /\ at' = "raw"
  /\ UNCHANGED <<built, netVars, class, raws, memory, regions, exported>>

(* `if (mr_)': a region is closed, which takes a domain.                   *)
CloseRegion ==
  /\ at = "mr"
  /\ mrs' = mrs \ {Current}
  /\ regions' = regions \ (mrs \cap {Current})
  /\ at' = IF Current \in mrs /\ "domain" \notin open THEN "undefined" ELSE "raw"
  /\ UNCHANGED <<built, netVars, class, raws, memory, exported>>

(* `if (raw_)': cudaFree in ~CUDABuffer, free in ~Buffer; free is for live *)
(* memory of the host only.  ~Buffer follows the body of ~CUDABuffer.      *)
Frees == Current \in raws

LegalFree == /\ Current \in memory
             /\ class = "derived" \/ Current \notin Device

AfterFree(c) == IF c = "derived" THEN "mr" ELSE "drop"

FreeMemoryKept ==  \* defect: raw_ is not cleared
  /\ at = "raw"
  /\ memory' = memory \ (raws \cap {Current})
  /\ at' = IF Frees /\ ~LegalFree THEN "undefined" ELSE AfterFree(class)
  /\ class' = "base"
  /\ UNCHANGED <<built, netVars, raws, mrs, regions, exported>>

FreeMemory ==
  /\ at = "raw"
  /\ raws' = raws \ {Current}
  /\ memory' = memory \ (raws \cap {Current})
  /\ at' = IF Frees /\ ~LegalFree THEN "undefined" ELSE AfterFree(class)
  /\ class' = "base"
  /\ UNCHANGED <<built, netVars, mrs, regions, exported>>

-----------------------------------------------------------------------------
OpenStep == \/ \E o \in Objects : OpenObject(o)
            \/ Bind("bindcq", "cq", "bindav")
            \/ Bind("bindav", "av", "enable")
            \/ Enable
            \/ Insert

ConnStep == AllocBuffer \/ ExportBuffer \/ RegisterBuffer \/ CheckSize \/ Leave

CloseStep == UnRegister \/ (\E o \in Objects : CloseObject(o)) \/ EndClose

DropStep == DropBuffer \/ CloseRegion \/ FreeMemory

Over == at \in {"gone", "undefined"} /\ UNCHANGED lifeVars

LifeNext == OpenStep \/ ConnStep \/ CloseStep \/ DropStep \/ Over

LifeSpec == LifeInit /\ [][LifeNext]_lifeVars

-----------------------------------------------------------------------------
(* Every variable has its type.                                            *)
LifeTypeOK == /\ at \in Steps
              /\ fields \in SUBSET Objects
              /\ open \in SUBSET Objects
              /\ bound \in SUBSET {"cq", "av"}
              /\ polled \in BOOLEAN
              /\ built \in 0 .. Buffers
              /\ class \in {"base", "derived"}
              /\ raws \in SUBSET Members
              /\ mrs \in SUBSET Members
              /\ memory \in SUBSET Members
              /\ regions \in SUBSET Members
              /\ exported \in SUBSET Device

(* The NIC may write to an open region at any time, and the selector reads *)
(* its completion queues on every pass of the loop: a region has its memory*)
(* (and its descriptor, if it is CUDA memory), and a polled queue is open  *)
(* and not given up.                                                       *)
Backed == /\ regions \subseteq memory
          /\ regions \cap Device \subseteq exported
          /\ polled => "cq" \in open \cap fields

(* However far construction came, no destructor frees memory twice or with *)
(* the wrong function, or closes a region whose domain is closed; a failure*)
(* ends in the exception that buffer.h promises ("@throws                  *)
(* std::runtime_error on CUDA allocation or registration failure").        *)
NoFault == at # "undefined"

(* A Peer that comes to its end has given back all memory and all regions, *)
(* whichever call failed.                                                  *)
MemoryReturned == at = "gone" => memory = {} /\ regions = {}

(* What ~Net leaves open is what its order of closing cannot close: once   *)
(* something is bound to the endpoint, that, the domain and the fabric.    *)
(* Without the refusals a region would be closed after its domain.         *)
LeftOpen ==
  at = "gone" => open = IF bound = {} THEN {}
                        ELSE bound \cup {"domain", "fabric"}
=============================================================================
