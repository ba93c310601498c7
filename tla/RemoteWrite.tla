----------------------------- MODULE RemoteWrite -----------------------------
(***************************************************************************)
(* The reading node (rank 1) of dmabuf, affinity and batch, and what it    *)
(* learns of the writes of rank 0.  The reader runs on the EventLoop       *)
(* runtime: it sends its memory region, then awaits conn_->Read(kImmData)  *)
(* once per round.  The selector delivers a FI_REMOTE_WRITE entry to the   *)
(* context registered for its immediate data, and drops it when there is   *)
(* none.  The writing node is the abstract writer of WriteWindow, whose    *)
(* writes the fabric lands in any order; the last page of a round carries  *)
(* the immediate data.                                                     *)
(***************************************************************************)
EXTENDS EventLoop

CONSTANTS Handshake, Send, Read, ConnRead,  \* the frames of these coroutines
          NumPages, Repeat,  \* as in WriteWindow
          Window             \* writes the peer may have open

ASSUME ReaderAssumption == /\ Handles = {Root, Handshake, Send, Read, ConnRead}
                           /\ IsInjective(<<Root, Handshake, Send, Read, ConnRead>>)
                           /\ NumPages \in Nat \ {0}
                           /\ Repeat \in Nat
                           /\ Window \in Nat \ {0}

VARIABLES stage,       \* where each frame is in its body
          reads,       \* calls of conn_->Read that have returned
          immContext,  \* imm_data_contexts_[kImmData]
          imms,        \* FI_REMOTE_WRITE entries in the completion queue
          requested,   \* the handshake message is on its way to the writer
          round, status, failed,  \* the writer
          landed,      \* pages of its round that are in the reader's memory
          complete,    \* rounds all of whose pages have landed
          \* What the selector has done with the entries, kept as a history.
          dropped,     \* one came when no context was registered
          twice        \* two of one read were for the same context

readerVars  == <<stage, reads, immContext>>
peerVars    == <<round, status, failed, landed, complete>>
historyVars == <<dropped, twice>>
allVars     == <<vars, readerVars, imms, requested, peerVars, historyVars>>

Peer == INSTANCE WriteWindow

Entry == [h \in Handles |-> CASE h = Root -> "open"
                              [] h = Handshake -> "send"
                              [] h = Read -> "loop"
                              [] OTHER -> "post"]

ReaderInit == /\ Init
              /\ stage = Entry
              /\ reads = 0
              /\ immContext = Null
              /\ imms = 0
              /\ requested = FALSE
              /\ Peer!Init
              /\ landed = Peer!Pages
              /\ complete = 0
              /\ dropped = FALSE
              /\ twice = FALSE

At(h, s)   == cur = h /\ stage[h] = s
Goto(h, s) == stage' = [stage EXCEPT ![h] = s]
Ends(h)    == Return /\ Goto(h, Entry[h])

(* A CHECK, EXPECT or ASSERT of the body that runs does not hold.          *)
BodyThrows == Throw /\ UNCHANGED stage

-----------------------------------------------------------------------------
(* The reader's coroutines.                                                *)
OpenPeer == At(Root, "open") /\ OpenNet /\ Goto(Root, "handshake")

StartReader == /\ \/ OpenPeer
                  \/ At(Root, "open") /\ BodyThrows
                  \/ At(Root, "handshake") /\ BodyThrows
                  \/ At(Root, "handshake") /\ CallAwait(Handshake) /\ Goto(Root, "read")
                  \/ At(Root, "read") /\ CallAwait(Read) /\ Goto(Root, "end")
                  \/ At(Root, "end") /\ Ends(Root)
               /\ UNCHANGED <<reads, immContext, requested>>

(* The ASSERT on the size sent follows the Send.                           *)
HandshakeStep == /\ \/ At(Handshake, "send") /\ CallAwait(Send) /\ Goto(Handshake, "end")
                    \/ At(Handshake, "end") /\ Ends(Handshake)
                    \/ At(Handshake, "end") /\ BodyThrows
                 /\ UNCHANGED <<reads, immContext, requested>>

(* The provider may refuse the message, and await_resume throws when the   *)
(* flags of its entry are not those of a send.                             *)
SendStep == /\ \/ At(Send, "post") /\ PostOp /\ Goto(Send, "posted") /\ requested' = TRUE
               \/ At(Send, "post") /\ PostRefused /\ UNCHANGED <<stage, requested>>
               \/ At(Send, "posted") /\ Ends(Send) /\ UNCHANGED requested
               \/ At(Send, "posted") /\ BodyThrows /\ UNCHANGED requested
            /\ UNCHANGED <<reads, immContext>>

(* for (i < repeat) co_await conn_->Read(kImmData)                         *)
ReadStep == \/ /\ At(Read, "loop")
               /\ reads < Repeat
               /\ CallAwait(ConnRead)
               /\ UNCHANGED <<readerVars, requested>>
            \/ /\ At(Read, "loop")
               /\ reads = Repeat
               /\ Ends(Read)
               /\ UNCHANGED <<reads, immContext, requested>>

(* remote_write_awaiter::await_suspend: nothing is posted, the context is  *)
(* registered (emplace: an entry already there would stay).                *)
RegisterImm == /\ At(ConnRead, "post")
               /\ Active
               /\ state' = [state EXCEPT ![cur] = "kSuspend"]
               /\ point' = [point EXCEPT ![cur] = "op"]
               /\ cur' = Null
               /\ Goto(ConnRead, "posted")
               /\ immContext' = IF immContext = Null THEN ConnRead ELSE immContext
               /\ UNCHANGED <<next, result, callee, owner, held, ready, schedule,
                              when, time, phase, batch, raised, fabricVars,
                              reads, requested>>

(* Defect: the context stays registered.                                   *)
UnRegisterImmKept == /\ At(ConnRead, "posted")
                     /\ Ends(ConnRead)
                     /\ reads' = reads + 1
                     /\ UNCHANGED <<immContext, requested>>

(* await_resume unregisters it, and the coroutine returns.                 *)
UnRegisterImm == /\ At(ConnRead, "posted")
                 /\ Ends(ConnRead)
                 /\ immContext' = Null
                 /\ reads' = reads + 1
                 /\ UNCHANGED requested

ReaderStep == /\ \/ StartReader
                 \/ HandshakeStep
                 \/ SendStep
                 \/ ReadStep
                 \/ RegisterImm
                 \/ UnRegisterImm
                 \/ Unwind /\ UNCHANGED <<readerVars, requested>>
              /\ UNCHANGED <<imms, peerVars, historyVars>>

-----------------------------------------------------------------------------
(* Selector::HandleCompletion with its FI_REMOTE_WRITE branch: the entries *)
(* of operations are handled as in EventLoop, and each remote write makes  *)
(* an event for the registered context, or none.                           *)
(* Defect: no else after the branch, op_context is handled as well.        *)
RemoteEventsTwice(m) ==
  IF immContext = Null THEN <<>> ELSE [i \in 1 .. 2 * m |-> immContext]

(* Defect: a return in the place of a continue.                            *)
RemoteEventsFirst(m) == IF immContext = Null THEN <<>> ELSE <<immContext>>

RemoteEvents(m) ==
  IF immContext = Null THEN <<>> ELSE [i \in 1 .. m |-> immContext]

SelectRemote ==
  LET room == MaxCQEntries - (IF Len(cq) < MaxCQEntries THEN Len(cq) ELSE MaxCQEntries)
      m == IF imms < room THEN imms ELSE room
  IN /\ phase = "select"
     /\ polling
     /\ m > 0
     /\ ~ErrorAtHead
     /\ cq' = SubSeq(cq, MaxCQEntries - room + 1, Len(cq))
     /\ imms' = imms - m
     /\ LET all == SubSeq(cq, 1, MaxCQEntries - room) \o RemoteEvents(m)
        IN /\ state' = SetAll(state, Range(all), "kScheduled")
           /\ ready' = ready \o all
     /\ phase' = "expire"
     /\ dropped' = (dropped \/ immContext = Null)
     /\ twice' = (twice \/ (immContext # Null /\ m > 1))
     /\ UNCHANGED <<frameVars, schedule, when, time, batch, cur, raised,
                    inflight, cqError, polling>>

PlainLoop == \/ (imms = 0 \/ ~polling) /\ Select
             \/ Stop
             \/ SelectError
             \/ StartBatch
             \/ EndBatch
             \/ RunNext

ReaderLoop == /\ \/ PlainLoop /\ UNCHANGED <<imms, historyVars>>
                 \/ SelectRemote
              /\ UNCHANGED <<readerVars, requested, peerVars>>

ReaderNic == Nic /\ UNCHANGED <<readerVars, imms, requested, peerVars, historyVars>>

-----------------------------------------------------------------------------
(* The writer and the fabric between the two nodes.                        *)
IsLastAlways(p) == TRUE  \* defect: every page carries the immediate data
IsLastFirst(p) == p = 0  \* defect: the first page carries it

IsLast(p) == p = NumPages - 1

(* A write reaches the reader's memory, in any order among those on the    *)
(* wire; the one with immediate data makes an entry in the reader's CQ.    *)
Land(p) == /\ status[p] = "wire"
           /\ p \notin landed
           /\ landed' = landed \cup {p}
           /\ imms' = IF IsLast(p) THEN imms + 1 ELSE imms
           /\ complete' = IF landed' = Peer!Pages THEN complete + 1 ELSE complete
           /\ UNCHANGED <<round, status, failed>>

(* The writer gets its completion once the write has landed.               *)
PeerStep ==
  \/ /\ Peer!StartRound
     /\ landed' = {}
     /\ UNCHANGED <<imms, complete>>
  \/ /\ \E p \in Peer!Pages : \/ Peer!Issue(p)
                              \/ Peer!Post(p)
                              \/ p \in landed /\ Peer!Complete(p)
     /\ UNCHANGED <<imms, landed, complete>>
  \/ \E p \in Peer!Pages : Land(p)

PeerNext == /\ requested
            /\ phase \notin Ended
            /\ PeerStep
            /\ UNCHANGED <<vars, readerVars, requested, historyVars>>

ReaderNext == \/ ReaderStep
              \/ ReaderLoop
              \/ ReaderNic
              \/ PeerNext
              \/ phase \in Ended /\ UNCHANGED allVars

ReaderSpec == ReaderInit /\ [][ReaderNext]_allVars

ReaderFairSpec == /\ ReaderSpec
                  /\ WF_allVars(ReaderStep)
                  /\ WF_allVars(ReaderLoop)
                  /\ WF_allVars(ReaderNic)
                  /\ WF_allVars(PeerNext)

-----------------------------------------------------------------------------
ReaderTypeOK == /\ stage \in [Handles -> {"open", "handshake", "read", "end", "send",
                                          "loop", "post", "posted"}]
                /\ reads \in 0 .. Repeat
                /\ immContext \in {Null, ConnRead}
                /\ imms \in 0 .. Repeat
                /\ requested \in BOOLEAN
                /\ Peer!WindowTypeOK
                /\ landed \subseteq Peer!Pages
                /\ complete \in 0 .. Repeat
                /\ dropped \in BOOLEAN
                /\ twice \in BOOLEAN

(* A notification means the writes are complete (README, section WRITE):   *)
(* when the reader's k-th conn_->Read has returned, at least k rounds of   *)
(* pages are entirely in its memory.                                       *)
NotifiedMeansWritten == reads <= complete

(* The registered context lies in a frame that is alive and suspended.     *)
ContextAlive == immContext # Null => point[immContext] \in {"op", "running"}

(* No coroutine is resumed at a suspend point it has left, as long as the  *)
(* selector does not read two notifications for one context at once        *)
(* (HandleCompletion makes an event of each, and Select schedules both):   *)
(* nothing else, refused and failing operations of the handshake included, *)
(* queues a handle twice or leaves one behind.                             *)
OnlyDoubled == phase = "undefined" => twice

(* When it does, the coroutine is resumed for the first event, returns for *)
(* good, and is resumed once more: the program always comes to that.       *)
DoubledIsUndefined == twice ~> phase = "undefined"

(* The reader, which awaits one notification per round, ends.              *)
ReaderEnds == <>(phase \in Ended)

(* It does, however its operations and the writer's are interleaved, unless *)
(* the selector drops a notification.                                      *)
EndsUnlessDropped == <>(phase \in Ended) \/ <>dropped
=============================================================================
