-------------------------------- MODULE Writer --------------------------------
(***************************************************************************)
(* The part of the writing node (rank 0) that dmabuf, affinity and batch   *)
(* share: StartWriter, the handshake that receives the reader's memory     *)
(* region, the loop over the rounds, and the coroutines of Conn that post  *)
(* one operation and wait for it.  How a round writes its pages, WriteOne, *)
(* is in SequentialWriter and BatchWriter.                                 *)
(***************************************************************************)
EXTENDS EventLoop

CONSTANTS Handshake, Recv, Write, WriteOne,  \* the frames of these coroutines
          Slots,      \* the frames of conn_->Write
          NumPages,   \* num_pages
          Repeat,     \* repeat
          MayFail     \* libfabric and CUDA calls may fail, and checks not hold

ASSUME WriterAssumption ==
  /\ Handles = {Root, Handshake, Recv, Write, WriteOne} \cup Slots
  /\ {Root, Handshake, Recv, Write, WriteOne} \cap Slots = {}
  /\ IsInjective(<<Root, Handshake, Recv, Write, WriteOne>>)
  /\ NumPages \in Nat \ {0}
  /\ Repeat \in Nat
  /\ MayFail \in BOOLEAN

VARIABLES stage,  \* where each frame is in its body, between suspensions
          round,  \* Write: rounds started
          page,   \* WriteOne: the loop variable i
          ops     \* the writes counted: those that were awaited

writerVars == <<stage, round, page, ops>>

OpFrames == {Recv} \cup Slots

Entry == [h \in Handles |-> CASE h = Root -> "open"
                              [] h = Handshake -> "recv"
                              [] h = Write -> "loop"
                              [] h = WriteOne -> "issue"
                              [] OTHER -> "post"]

WriterInit == /\ Init
              /\ stage = Entry
              /\ round = 0
              /\ page = NumPages
              /\ ops = 0

At(h, s)   == cur = h /\ stage[h] = s
Goto(h, s) == stage' = [stage EXCEPT ![h] = s]
Ends(h)    == Return /\ Goto(h, Entry[h])

(* A CHECK, EXPECT or ASSERT of the body that runs does not hold.          *)
BodyThrows == MayFail /\ Throw /\ UNCHANGED stage

(* Peer(peer, ...) and Writer(...), in the body of the root frame, open and *)
(* connect the Net it holds and fill a buffer.                             *)
OpenPeer == At(Root, "open") /\ OpenNet /\ Goto(Root, "handshake")

StartWriter == /\ \/ OpenPeer
                  \/ At(Root, "open") /\ BodyThrows
                  \/ At(Root, "handshake") /\ BodyThrows
                  \/ At(Root, "handshake") /\ CallAwait(Handshake) /\ Goto(Root, "write")
                  \/ At(Root, "write") /\ CallAwait(Write) /\ Goto(Root, "end")
                  \/ At(Root, "end") /\ Ends(Root)
               /\ UNCHANGED <<round, page, ops>>

(* The ASSERTs on the size and the rank of the response follow its Recv.   *)
HandshakeStep == /\ \/ At(Handshake, "recv") /\ CallAwait(Recv) /\ Goto(Handshake, "end")
                    \/ At(Handshake, "end") /\ Ends(Handshake)
                    \/ At(Handshake, "end") /\ BodyThrows
                 /\ UNCHANGED <<round, page, ops>>

(* for (i < repeat) co_await WriteOne(progress, ops, sent)                 *)
MoreRoundsOffByOne == round <= Repeat  \* defect: one round too many

MoreRounds == round < Repeat

WriteStep == \/ /\ At(Write, "loop")
                /\ MoreRounds
                /\ CallAwait(WriteOne)
                /\ round' = round + 1
                /\ page' = 0
                /\ UNCHANGED <<stage, ops>>
             \/ /\ At(Write, "loop")
                /\ ~MoreRounds
                /\ Ends(Write)
                /\ UNCHANGED <<round, page, ops>>

(* Conn::Recv and Conn::Write: co_return co_await recv_awaiter /           *)
(* write_awaiter.  The provider may refuse the operation, and await_resume *)
(* throws when the flags of its entry are not those of the operation.      *)
OpStep(h) == /\ \/ At(h, "post") /\ PostOp /\ Goto(h, "posted")
                \/ At(h, "post") /\ MayFail /\ PostRefused /\ UNCHANGED stage
                \/ At(h, "posted") /\ Ends(h)
                \/ At(h, "posted") /\ BodyThrows
             /\ UNCHANGED <<round, page, ops>>

CommonStep == \/ StartWriter
              \/ HandshakeStep
              \/ WriteStep
              \/ \E h \in OpFrames : OpStep(h)

GaveUp == raised \/ \E h \in Handles : result[h] = "exception"

(* What Unwind, the loop, the NIC and the clock leave alone.               *)
Background == (LoopStep \/ Nic \/ Tick \/ Unwind) /\ UNCHANGED writerVars

(* What the writers' variables are; BatchTypeOK adds those of the deque.    *)
WriterTypeOK == /\ stage \in [Handles -> {"open", "handshake", "write", "end", "recv",
                                          "loop", "issue", "pop", "drain", "count",
                                          "post", "posted"}]
                /\ round \in 0 .. Repeat
                /\ page \in 0 .. NumPages
                /\ ops \in 0 .. Repeat * NumPages

(* The program ends only when every page of every round was counted.       *)
AllWritten == phase = "stopped" /\ ~GaveUp => ops = Repeat * NumPages

(* The program ends.                                                       *)
Terminates == <>(phase \in Ended)
=============================================================================
