--------------------------- MODULE BatchWriterProofs ---------------------------
(***************************************************************************)
(* The batched writer, when no call fails: the counter of Progress is the  *)
(* number of writes that were awaited and taken off the deque, the window  *)
(* is kept, and the program is one of those of LoopClient, so that the     *)
(* theorems on the runtime hold of it; proofs for any number of pages,     *)
(* rounds and slots and any size of the batch.  When a call may fail the   *)
(* last two are false: the run that checks NoUseAfterFree shows it.        *)
(***************************************************************************)
EXTENDS BatchWriter, QueueLemmas, FiniteSetTheorems

R == INSTANCE LoopClientProofs
       WITH Futures <- TRUE, MayThrow <- MayFail, Delays <- {}

-----------------------------------------------------------------------------
(* The names of the frames are different.                                  *)
LEMMA Names ==
  /\ Root # Handshake /\ Root # Recv /\ Root # Write /\ Root # WriteOne
  /\ Handshake # Recv /\ Handshake # Write /\ Handshake # WriteOne
  /\ Recv # Write /\ Recv # WriteOne /\ Write # WriteOne
  /\ {Root, Handshake, Recv, Write, WriteOne} \cap Slots = {}
  /\ Handles = {Root, Handshake, Recv, Write, WriteOne} \cup Slots
  /\ Null \notin Handles
<1> DEFINE s == <<Root, Handshake, Recv, Write, WriteOne>>
<1>1. \A i, j \in 1 .. 5 : s[i] = s[j] => i = j
  BY WriterAssumption DEF IsInjective
<1> QED BY <1>1, WriterAssumption, LoopAssumption

(* The assumptions of the runtime's theorems.                              *)
LEMMA RuntimeAssumptions ==
  ~MayFail => R!LoopAssumption /\ R!ClientAssumption /\ R!Disciplined
BY LoopAssumption, WriterAssumption
   DEF R!LoopAssumption, R!ClientAssumption, R!Disciplined

LEMMA SameVars == R!vars = vars
BY DEF R!vars, vars, R!frameVars, frameVars, R!loopVars, loopVars, R!fabricVars, fabricVars

LEMMA SameInit == Init => R!Init
BY DEF Init, R!Init

(* The steps of the loop are those of the runtime.                         *)
LEMMA SameLoop == LoopStep => R!LoopStep
<1> USE DEF frameVars, R!frameVars, loopVars, R!loopVars, fabricVars, R!fabricVars
<1>1. Stop => R!Stop
  BY DEF Stop, R!Stop, Stopped, R!Stopped
<1>2. Select => R!Select
  BY DEF Select, R!Select, Stopped, R!Stopped, ErrorAtHead, R!ErrorAtHead, SetAll, R!SetAll,
         Range, R!Range
<1>3. SelectError => R!SelectError
  BY DEF SelectError, R!SelectError, ErrorAtHead, R!ErrorAtHead
<1>4. \A h \in Handles : ExpireTimer(h) => R!ExpireTimer(h)
  BY DEF ExpireTimer, R!ExpireTimer, Expired, R!Expired
<1>5. StartBatch => R!StartBatch
  BY DEF StartBatch, R!StartBatch, Expired, R!Expired
<1>6. EndBatch => R!EndBatch
  BY DEF EndBatch, R!EndBatch
<1>7. RunNext => R!RunNext
  BY DEF RunNext, R!RunNext, EndsWithAwait, R!EndsWithAwait, SetAll, R!SetAll,
         Resumable, R!Resumable
<1> QED BY <1>1, <1>2, <1>3, <1>4, <1>5, <1>6, <1>7 DEF LoopStep, R!LoopStep

LEMMA SameNic == (Nic => R!Nic) /\ (Tick => R!Tick)
BY DEF Nic, R!Nic, Complete, R!Complete, CompleteError, R!CompleteError, Tick, R!Tick,
       frameVars, R!frameVars, loopVars, R!loopVars, fabricVars, R!fabricVars,
       Ended, R!Ended

(* What a body does are steps of a client; it returns over children that   *)
(* are done.                                                               *)
LEMMA SameClient ==
  /\ \A c \in Handles : CallAwait(c) \/ Spawn(c) => R!ClientStep
  /\ \A c \in Handles : AwaitDone(c) \/ AwaitFuture(c) \/ DropFuture(c) => R!ClientStep
  /\ PostOp => R!ClientStep
  /\ OpenNet => R!ClientStep
  /\ (\A c \in Children(cur) : point[c] = "final") /\ Return => R!ClientStep
<1> USE DEF frameVars, R!frameVars, loopVars, R!loopVars, fabricVars, R!fabricVars,
            Active, R!Active, Running, R!Running
<1>1. \A c \in Handles : CallAwait(c) => R!CallAwait(c)
  BY DEF CallAwait, R!CallAwait, Create, R!Create, SuspendOn, R!SuspendOn
<1>2. \A c \in Handles : Spawn(c) => R!Spawn(c)
  BY DEF Spawn, R!Spawn, Create, R!Create
<1>3. \A c \in Handles : (AwaitDone(c) => R!AwaitDone(c)) /\ (DropFuture(c) => R!DropFuture(c))
  BY DEF AwaitDone, R!AwaitDone, DropFuture, R!DropFuture, IsFuture, R!IsFuture
<1>4. \A c \in Handles : AwaitFuture(c) => R!AwaitFuture(c)
  BY DEF AwaitFuture, R!AwaitFuture, IsFuture, R!IsFuture, SuspendOn, R!SuspendOn,
         MustCall, R!MustCall
<1>5. PostOp => R!PostOp
  BY DEF PostOp, R!PostOp
<1>6. OpenNet => R!OpenNet
  BY DEF OpenNet, R!OpenNet
<1>7. \A r : Finish(r) => R!Finish(r)
  BY DEF Finish, R!Finish, Descendants, R!Descendants, Children, R!Children, SetAll, R!SetAll,
         Continuation, R!Continuation, Wake, R!Wake
<1>8. (\A c \in Children(cur) : point[c] = "final") /\ Return => R!ReturnJoined
  BY <1>7 DEF Return, R!Return, R!ReturnJoined, Children, R!Children
<1>9. \A c \in Handles : CallAwait(c) \/ Spawn(c) => R!ClientStep
  BY <1>1, <1>2 DEF R!ClientStep
<1>10. \A c \in Handles : AwaitDone(c) \/ AwaitFuture(c) \/ DropFuture(c) => R!ClientStep
  BY <1>3, <1>4 DEF R!ClientStep
<1>11. (PostOp => R!ClientStep) /\ (OpenNet => R!ClientStep)
  BY <1>5, <1>6 DEF R!ClientStep
<1>12. (\A c \in Children(cur) : point[c] = "final") /\ Return => R!ClientStep
  BY <1>8 DEF R!ClientStep
<1> QED BY <1>9, <1>10, <1>11, <1>12

-----------------------------------------------------------------------------
(* The inductive invariant of the program, on top of the runtime's.  Who   *)
(* calls whom is fixed: all but the slots are temporaries of an await, the *)
(* slots are the futures of the deque.                                     *)
Caller(h) == CASE h \in {Handshake, Write} -> Root
               [] h = Recv -> Handshake
               [] h = WriteOne -> Write
               [] OTHER -> WriteOne

OwnersInv == \A h \in Handles : owner[h] \in {Null, Caller(h)}

AwaitedInv == \A h \in Handles \ (Slots \cup {Root}) : point[h] # "free" =>
                /\ point[Caller(h)] = "child" /\ callee[Caller(h)] = h
                /\ held[h] = "temporary"

HeldInv == \A s \in Slots : point[s] # "free" => held[s] = "future"

FreshInv == \A h \in Handles : point[h] \in {"free", "initial", "final"} => stage[h] = Entry[h]

PostedInv == \A h \in Handles : /\ point[h] # "timer"
                                /\ point[h] = "op" => h \in OpFrames /\ stage[h] = "posted"

StageInv == /\ stage \in [Handles -> {"open", "handshake", "write", "end", "recv", "loop",
                                      "issue", "pop", "count", "post", "posted"}]
            /\ stage[WriteOne] \in {"issue", "pop", "count"} /\ stage[Write] = "loop"

FrameInv == OwnersInv /\ AwaitedInv /\ HeldInv /\ StageInv /\ FreshInv /\ PostedInv

(* The deque holds the slots that are allocated, and the last pages        *)
(* issued, in order; those that were drained are done.                     *)
Fut == [frame : Slots, page : 0 .. NumPages - 1]

HoldsLastPages == \A i \in 1 .. Len(futs) : futs[i].page = page - Len(futs) + i - 1

HoldsAllocated == \A i \in 1 .. Len(futs) : point[futs[i].frame] # "free"

HoldsOnce == \A i, j \in 1 .. Len(futs) : futs[i].frame = futs[j].frame => i = j

HoldsAll == \A s \in Slots : point[s] # "free" => \E i \in 1 .. Len(futs) : futs[i].frame = s

DrainedDone == \A i \in 1 .. drained : point[futs[i].frame] = "final"

DequeInv == /\ futs \in Seq(Fut) /\ Len(futs) <= BatchSize /\ drained \in 0 .. Len(futs)
            /\ drained > 0 => page = NumPages
            /\ HoldsLastPages /\ HoldsAllocated /\ HoldsOnce /\ HoldsAll /\ DrainedDone

(* The future that WriteOne awaits is where its loops expect it.           *)
Awaited == futs[IF stage[WriteOne] = "pop" THEN 1 ELSE drained + 1].frame

LoopInv ==
  /\ stage[WriteOne] = "issue" => point[WriteOne] # "child"
  /\ stage[WriteOne] = "pop" => page < NumPages /\ futs # <<>>
  /\ stage[WriteOne] = "count" => page = NumPages /\ drained < Len(futs)
  /\ stage[WriteOne] # "issue" => \/ point[WriteOne] = "child" /\ callee[WriteOne] = Awaited
                                  \/ point[WriteOne] = "running" /\ point[Awaited] = "final"
  /\ point[WriteOne] \in {"free", "final"} => page = NumPages

CountInv ==
  /\ round \in 0 .. Repeat /\ page \in 0 .. NumPages /\ ops \in Nat
  /\ round = 0 => page = NumPages
  /\ ops + (Len(futs) - drained) = IF round = 0 THEN 0 ELSE (round - 1) * NumPages + page

RoundInv ==
  /\ point[Write] = "final" => round = Repeat
  /\ point[Root] = "child" /\ stage[Root] = "end" => callee[Root] = Write
  /\ point[Root] = "running" /\ stage[Root] = "end" => round = Repeat
  /\ point[Root] = "final" => round = Repeat

BatchInv == FrameInv /\ DequeInv /\ LoopInv /\ CountInv /\ RoundInv

(* What the proofs below use of the runtime's invariants.                  *)
RuntimeTypes ==
  /\ point \in [Handles -> Points] /\ state \in [Handles -> States]
  /\ owner \in [Handles -> Handles \cup {Null}] /\ callee \in [Handles -> Handles \cup {Null}]
  /\ held \in [Handles -> {"temporary", "future"}]
  /\ ready \in Seq(Handles) /\ cq \in Seq(Handles) /\ Len(ready) \in Nat
  /\ cur \in Handles \cup {Null} /\ batch \in Nat

RuntimeQueues ==
  /\ IsInjective(ready) /\ (phase = "run" => batch <= Len(ready)) /\ phase # "undefined"
  /\ \A h \in Range(ready) : point[h] \in Resumable
  /\ \A h \in Range(ready) : point[h] = "child" => point[callee[h]] = "final"
  /\ \A h \in Range(cq) \cup inflight : point[h] = "op" /\ h \notin Range(ready)
  /\ inflight \cap Range(cq) = {}
  /\ inflight \subseteq Handles /\ \A h \in schedule : point[h] = "timer"

RuntimeFrames ==
  /\ \A h \in Handles : point[h] = "child" => callee[h] \in Handles /\ owner[callee[h]] = h
  /\ \A h \in Handles : owner[h] # Null => /\ point[h] # "free"
                                           /\ point[owner[h]] \in {"running", "child", "op"}
  /\ \A h \in Handles : point[h] = "running" <=> h = cur
  /\ \A h \in Handles : point[h] \in Resumable => state[h] # "kUnschedule"
  /\ cur # Null => phase = "run"
  /\ owner[Root] = Null /\ point[Root] # "free"
  /\ \A h \in Handles \ {Root} : point[h] # "free" => owner[h] # Null
  /\ phase = "stopped" => point[Root] = "final" /\ \A h \in Handles \ {Root} : point[h] = "free"

NoExceptions == ~raised /\ \A h \in Handles : result[h] # "exception"

RuntimeInv == RuntimeTypes /\ RuntimeQueues /\ RuntimeFrames /\ NoExceptions

LEMMA RuntimeFacts == ~MayFail /\ R!IInv /\ R!WInv => RuntimeInv
<1> SUFFICES ASSUME ~MayFail, R!IInv, R!WInv PROVE RuntimeInv
  OBVIOUS
<1>1. R!TypeOK /\ R!QueueInv /\ R!AwaitInv /\ R!RunInv /\ R!OwnerInv /\ R!DisciplineInv
  BY DEF R!IInv
<1>2. /\ point \in [Handles -> Points] /\ state \in [Handles -> States]
      /\ owner \in [Handles -> Handles \cup {Null}] /\ callee \in [Handles -> Handles \cup {Null}]
      /\ held \in [Handles -> {"temporary", "future"}]
      /\ ready \in Seq(Handles) /\ cq \in Seq(Handles)
      /\ cur \in Handles \cup {Null} /\ batch \in Nat
      /\ inflight \in SUBSET Handles
  BY <1>1 DEF R!TypeOK, Points, R!Points, States, R!States
<1>3. Len(ready) \in Nat /\ Range(ready) \subseteq Handles /\ Range(cq) \subseteq Handles
  BY <1>2, LenProperties, RangeOfSeq
<1>4. /\ IsInjective(ready) /\ (phase = "run" => batch <= Len(ready)) /\ phase # "undefined"
      /\ \A h \in Handles : point[h] = "running" <=> h = cur
      /\ cur # Null => phase = "run"
  BY <1>1 DEF R!QueueInv, R!RunInv,
         Range, R!Range, IsInjective, R!IsInjective, Resumable, R!Resumable
<1>5. \A h \in Handles : point[h] = "child" => callee[h] \in Handles /\ owner[callee[h]] = h
  BY <1>1, Names DEF R!AwaitInv
<1>6. /\ \A h \in Range(ready) : point[h] \in Resumable
      /\ \A h \in Range(ready) : point[h] = "child" => point[callee[h]] = "final"
  BY <1>1, <1>3 DEF R!QueueInv, R!AwaitInv,
         Range, R!Range, IsInjective, R!IsInjective, Resumable, R!Resumable
<1>7. /\ \A h \in Range(cq) \cup inflight : point[h] = "op" /\ h \notin Range(ready)
      /\ inflight \cap Range(cq) = {}
  BY <1>1 DEF R!QueueInv,
         Range, R!Range, IsInjective, R!IsInjective, Resumable, R!Resumable
<1>8. \A h \in Handles : owner[h] # Null => /\ point[h] # "free"
                                           /\ point[owner[h]] \in {"running", "child", "op"}
  BY <1>1, Names DEF R!OwnerInv
<1>9. /\ owner[Root] = Null /\ point[Root] # "free"
      /\ \A h \in Handles \ {Root} : point[h] # "free" => owner[h] # Null
      /\ phase = "stopped" => point[Root] = "final" /\ \A h \in Handles \ {Root} : point[h] = "free"
  BY Names DEF R!WInv, R!TreeInv, R!StopInv, R!Allocated
<1>10. \A h \in schedule : point[h] = "timer"
  BY <1>1 DEF R!QueueInv
<1>11. \A h \in Handles : point[h] \in Resumable => state[h] # "kUnschedule"
  BY <1>1 DEF R!AwaitInv, Resumable, R!Resumable
<1>12. NoExceptions
  BY <1>1 DEF R!DisciplineInv, NoExceptions
<1>13. RuntimeTypes
  BY <1>2, <1>3 DEF RuntimeTypes
<1>14. RuntimeQueues
  BY <1>2, <1>4, <1>6, <1>7, <1>10 DEF RuntimeQueues
<1>15. RuntimeFrames
  BY <1>4, <1>5, <1>8, <1>9, <1>11 DEF RuntimeFrames
<1> QED BY <1>12, <1>13, <1>14, <1>15 DEF RuntimeInv

-----------------------------------------------------------------------------
(* What the steps find and do.                                             *)
LEMMA OpAreOthers == \A h \in OpFrames : h \in Handles \ {Root, Handshake, Write, WriteOne}
BY Names DEF OpFrames

LEMMA SameEntry == Entry' = Entry
BY DEF Entry

LEMMA InitBatchInv == BatchInit => BatchInv
<1> SUFFICES ASSUME BatchInit PROVE BatchInv
  OBVIOUS
<1> USE Names, WriterAssumption, BatchAssumption DEF BatchInit, WriterInit, Init
<1>1. FrameInv
  BY DEF FrameInv, OwnersInv, AwaitedInv, HeldInv, StageInv, FreshInv, PostedInv, Entry
<1>2. Len(futs) = 0 /\ futs \in Seq(Fut)
  OBVIOUS
<1>3. DequeInv
  BY <1>2 DEF DequeInv, HoldsLastPages, HoldsAllocated, HoldsOnce, HoldsAll, DrainedDone
<1>4. LoopInv
  BY DEF LoopInv, Entry
<1>5. CountInv
  BY <1>2 DEF CountInv
<1>6. RoundInv
  BY DEF RoundInv, Entry
<1> QED BY <1>1, <1>3, <1>4, <1>5, <1>6 DEF BatchInv

(* The entries of the deque.                                               *)
LEMMA DequeFacts ==
  ASSUME DequeInv
  PROVE  /\ Len(futs) \in Nat
         /\ \A i \in 1 .. Len(futs) : futs[i] \in Fut
         /\ \A i \in 1 .. Len(futs) : futs[i].frame \in Slots /\ futs[i].frame \in Handles
         /\ futs = <<>> <=> Len(futs) = 0
<1>1. futs \in Seq(Fut) /\ Len(futs) \in Nat /\ (futs = <<>> <=> Len(futs) = 0)
  BY LenProperties, EmptySeq DEF DequeInv
<1>2. \A i \in 1 .. Len(futs) : futs[i] \in Fut
  BY <1>1
<1>3. \A f \in Fut : f.frame \in Slots /\ f.frame \in Handles
  BY Names DEF Fut
<1> QED BY <1>1, <1>2, <1>3

LEMMA ActiveFacts ==
  ASSUME RuntimeInv, Running
  PROVE  cur \in Handles /\ cur # Null /\ point[cur] = "running" /\ phase = "run" /\ Active
BY DEF Running, RuntimeInv, RuntimeTypes, RuntimeFrames, NoExceptions, Active

(* Slots are allocated only while WriteOne is in its loop; WriteOne, only  *)
(* while Write awaits it.                                                  *)
LEMMA SlotsInLoop ==
  ASSUME RuntimeInv, BatchInv, point[WriteOne] \notin {"running", "child"}
  PROVE  futs = <<>> /\ \A s \in Slots : point[s] = "free"
<1>1. \A s \in Slots : point[s] = "free"
  <2> SUFFICES ASSUME NEW s \in Slots, point[s] # "free" PROVE FALSE
    OBVIOUS
  <2>1. s \in Handles \ {Root} /\ owner[s] # Null /\ Caller(s) = WriteOne
    BY Names DEF RuntimeInv, RuntimeFrames, Caller
  <2>2. owner[s] = WriteOne
    BY <2>1 DEF BatchInv, FrameInv, OwnersInv
  <2>3. point[WriteOne] \in {"running", "child", "op"}
    BY <2>1, <2>2 DEF RuntimeInv, RuntimeFrames
  <2>4. point[WriteOne] # "op"
    BY OpAreOthers, Names DEF BatchInv, FrameInv, PostedInv
  <2> QED BY <2>3, <2>4
<1>2. Len(futs) = 0
  BY <1>1, DequeFacts DEF BatchInv, DequeInv, HoldsAllocated
<1> QED BY <1>1, <1>2, DequeFacts DEF BatchInv

LEMMA IdleWriter ==
  ASSUME RuntimeInv, BatchInv, cur \in {Root, Handshake, Recv, Write}
  PROVE  /\ point[WriteOne] = "free" /\ page = NumPages /\ futs = <<>> /\ drained = 0
         /\ stage[WriteOne] = "issue" /\ \A s \in Slots : point[s] = "free"
<1>1. cur \in Handles /\ point[cur] = "running"
  BY Names DEF RuntimeInv, RuntimeFrames
<1>2. \A h \in Handles \ (Slots \cup {Root}) : point[h] # "free" =>
        point[Caller(h)] = "child" /\ callee[Caller(h)] = h
  BY DEF BatchInv, FrameInv, AwaitedInv
<1>3. point[WriteOne] = "free"
  BY <1>1, <1>2, Names DEF Caller
<1>4. page = NumPages /\ stage[WriteOne] = "issue"
  BY <1>3, Names DEF BatchInv, LoopInv, FrameInv, FreshInv, Entry
<1>5. futs = <<>> /\ \A s \in Slots : point[s] = "free"
  BY <1>3, SlotsInLoop
<1> QED BY <1>3, <1>4, <1>5 DEF BatchInv, DequeInv

(* Of the frames, only WriteOne has children that it does not await: the   *)
(* futures in its deque.                                                   *)
LEMMA OnlyFuturesLeft ==
  ASSUME RuntimeInv, BatchInv, Running
  PROVE  /\ cur # WriteOne => Children(cur) = {}
         /\ Children(cur) \subseteq Slots
<1>1. cur \in Handles /\ point[cur] = "running" /\ cur # Null
  BY ActiveFacts
<1>2. ASSUME NEW c \in Children(cur) PROVE c \in Slots
  <2>1. c \in Handles /\ owner[c] = cur /\ c # Root
    BY <1>1 DEF Children, RuntimeInv, RuntimeFrames
  <2>2. Caller(c) = cur /\ point[c] # "free"
    BY <1>1, <2>1 DEF BatchInv, FrameInv, OwnersInv, RuntimeInv, RuntimeFrames
  <2> QED BY <1>1, <2>1, <2>2 DEF BatchInv, FrameInv, AwaitedInv
<1>3. ASSUME NEW c \in Children(cur) PROVE cur = WriteOne
  <2>1. c \in Slots /\ c \in Handles /\ owner[c] = cur /\ Caller(c) = WriteOne
    BY <1>2, Names DEF Children, Caller
  <2> QED BY <1>1, <2>1 DEF BatchInv, FrameInv, OwnersInv
<1> QED BY <1>2, <1>3

-----------------------------------------------------------------------------
(* The deque and the loops of WriteOne do not see what happens to the      *)
(* other frames, nor that a slot that is not done is resumed or posts.     *)
LEMMA DequeStays ==
  ASSUME DequeInv, UNCHANGED <<futs, drained, page>>,
         \A s \in Slots : point[s] # "free" <=> point'[s] # "free",
         \A s \in Slots : point[s] = "final" => point'[s] = "final"
  PROVE  DequeInv'
<1>1. \A i \in 1 .. Len(futs) : futs[i].frame \in Slots
  BY DequeFacts
<1>2. HoldsLastPages' /\ HoldsOnce'
  BY DEF DequeInv, HoldsLastPages, HoldsOnce
<1>3. HoldsAllocated'
  BY <1>1 DEF DequeInv, HoldsAllocated
<1>4. HoldsAll'
  BY DEF DequeInv, HoldsAll
<1>5. DrainedDone'
  BY <1>1, DequeFacts DEF DequeInv, DrainedDone
<1> QED BY <1>2, <1>3, <1>4, <1>5 DEF DequeInv

LEMMA AwaitedIsSlot ==
  ASSUME DequeInv, LoopInv, stage[WriteOne] \in {"pop", "count"}
  PROVE  Awaited \in Slots /\ Awaited \in Handles
BY DequeFacts DEF Awaited, LoopInv, DequeInv

LEMMA LoopStays ==
  ASSUME DequeInv, LoopInv, stage[WriteOne] \in {"issue", "pop", "count"},
         UNCHANGED <<futs, drained, page, point[WriteOne], stage[WriteOne], callee[WriteOne]>>,
         \A s \in Slots : point[s] = "final" => point'[s] = "final"
  PROVE  LoopInv'
<1>1. Awaited' = Awaited
  BY DEF Awaited
<1>2. stage[WriteOne] # "issue" => Awaited \in Slots
  BY AwaitedIsSlot
<1> QED BY <1>1, <1>2 DEF LoopInv

(* Frame h moves to point q: it is resumed, posts its operation or is      *)
(* done.                                                                   *)
Moves(h, q) == /\ point'[h] = q
               /\ \A x \in Handles \ {h} : point'[x] = point[x]
               /\ \A x \in Handles \ {h} : callee'[x] = callee[x]
               /\ UNCHANGED <<owner, held>>

Stages == {"open", "handshake", "write", "end", "recv", "loop",
           "issue", "pop", "count", "post", "posted"}

LEMMA MoveKeeps ==
  ASSUME RuntimeInv, BatchInv, NEW h \in Handles, NEW q \in {"running", "op", "final"},
         point[h] \in {"initial", "op", "running"}, Moves(h, q),
         UNCHANGED <<round, page, ops, futs, drained>>,
         stage' \in [Handles -> Stages], \A x \in Handles \ {h} : stage'[x] = stage[x],
         q = "final" => stage'[h] = Entry[h],
         q = "op" => h \in OpFrames /\ stage'[h] = "posted",
         h = WriteOne => q = "running" /\ stage' = stage /\ point[h] = "initial",
         h = Write => stage'[h] = "loop" /\ (q = "final" => round = Repeat),
         h = Root => (q = "final" => round = Repeat) /\ (q = "running" => stage'[h] # "end")
  PROVE  BatchInv'
<1> USE Names
<1>1. FrameInv /\ DequeInv /\ LoopInv /\ CountInv /\ RoundInv
  BY DEF BatchInv
<1>2. OwnersInv' /\ HeldInv'
  BY <1>1 DEF Moves, FrameInv, OwnersInv, HeldInv
<1>3. AwaitedInv'
  <2> SUFFICES ASSUME NEW x \in Handles \ (Slots \cup {Root}), point'[x] # "free"
               PROVE  /\ point'[Caller(x)] = "child" /\ callee'[Caller(x)] = x
                      /\ held'[x] = "temporary"
    BY DEF AwaitedInv
  <2>1. /\ point[Caller(x)] = "child" /\ callee[Caller(x)] = x /\ held[x] = "temporary"
    BY <1>1 DEF FrameInv, AwaitedInv, Moves
  <2>2. Caller(x) \in Handles \ {h}
    BY <2>1 DEF Caller
  <2> QED BY <2>1, <2>2 DEF Moves
<1>4. stage'[WriteOne] = stage[WriteOne] /\ stage'[Write] = "loop"
  BY <1>1 DEF FrameInv, StageInv
<1>5. StageInv' /\ FreshInv' /\ PostedInv'
  <2>1. StageInv'
    BY <1>1, <1>4 DEF FrameInv, StageInv, Stages
  <2>2. FreshInv'
    BY <1>1, SameEntry DEF FrameInv, FreshInv, Moves
  <2>3. PostedInv'
    BY <1>1 DEF FrameInv, PostedInv, Moves, OpFrames
  <2> QED BY <2>1, <2>2, <2>3
<1>6. DequeInv'
  BY <1>1, DequeStays DEF Moves
<1>7. LoopInv'
  <2>1. CASE h = WriteOne
    <3>1. stage[WriteOne] = "issue"
      BY <1>1, <2>1 DEF FrameInv, FreshInv, Entry
    <3>2. point'[WriteOne] = "running" /\ stage'[WriteOne] = "issue"
      BY <2>1, <3>1 DEF Moves
    <3> QED BY <3>2 DEF LoopInv
  <2>2. CASE h # WriteOne
    <3>1. UNCHANGED <<futs, drained, page, point[WriteOne], stage[WriteOne], callee[WriteOne]>>
      BY <1>4, <2>2 DEF Moves
    <3>2. \A s \in Slots : point[s] = "final" => point'[s] = "final"
      BY DEF Moves
    <3> QED BY <1>1, <3>1, <3>2, LoopStays DEF FrameInv, StageInv
  <2> QED BY <2>1, <2>2
<1>8. CountInv'
  BY <1>1 DEF CountInv
<1>9. RoundInv'
  <2>1. point'[Write] = "final" => round = Repeat
    BY <1>1 DEF Moves, RoundInv
  <2>2. h = Root => point'[Root] # "child"
    BY DEF Moves
  <2>3. h # Root => /\ point'[Root] = point[Root] /\ stage'[Root] = stage[Root]
                    /\ callee'[Root] = callee[Root]
    BY DEF Moves
  <2> QED BY <1>1, <2>1, <2>2, <2>3 DEF RoundInv, Moves
<1> QED BY <1>2, <1>3, <1>5, <1>6, <1>7, <1>8, <1>9 DEF BatchInv, FrameInv

(* A call puts the child at its initial suspend point, and the caller in   *)
(* its co_await.                                                           *)
LEMMA CallEffect ==
  ASSUME RuntimeInv, NEW c \in Handles, CallAwait(c)
  PROVE  /\ Active /\ cur \in Handles /\ point[cur] = "running" /\ c # cur /\ point[c] = "free"
         /\ point'[c] = "initial" /\ point'[cur] = "child" /\ callee'[cur] = c
         /\ owner'[c] = cur /\ held'[c] = "temporary"
         /\ \A h \in Handles \ {c, cur} : point'[h] = point[h]
         /\ \A h \in Handles \ {c} : owner'[h] = owner[h] /\ held'[h] = held[h]
         /\ \A h \in Handles \ {cur} : callee'[h] = callee[h]
<1>1. /\ Active /\ Running /\ point[c] = "free"
      /\ point' = [point EXCEPT ![c] = "initial", ![cur] = "child"]
      /\ owner' = [owner EXCEPT ![c] = cur]
      /\ held' = [held EXCEPT ![c] = "temporary"]
      /\ callee' = [callee EXCEPT ![cur] = c]
  BY DEF CallAwait, Create, SuspendOn, Active
<1>2. cur \in Handles /\ point[cur] = "running"
  BY <1>1, ActiveFacts
<1> QED BY <1>1, <1>2 DEF RuntimeInv, RuntimeTypes

LEMMA CallSteps ==
  ASSUME RuntimeInv, BatchInv, NEW c \in Handles, CallAwait(c), CountInv',
         UNCHANGED <<futs, drained>>,
         \/ /\ At(Root, "handshake") /\ c = Handshake /\ Goto(Root, "write")
            /\ UNCHANGED <<round, page>>
         \/ /\ At(Root, "write") /\ c = Write /\ Goto(Root, "end")
            /\ UNCHANGED <<round, page>>
         \/ /\ At(Handshake, "recv") /\ c = Recv /\ Goto(Handshake, "end")
            /\ UNCHANGED <<round, page>>
         \/ /\ At(Write, "loop") /\ c = WriteOne /\ page' = 0
            /\ UNCHANGED stage /\ round < Repeat
  PROVE  BatchInv'
<1> USE Names
<1>1. /\ cur \in Handles /\ point[cur] = "running" /\ c # cur /\ point[c] = "free"
      /\ point'[c] = "initial" /\ point'[cur] = "child" /\ callee'[cur] = c
      /\ owner'[c] = cur /\ held'[c] = "temporary"
      /\ \A h \in Handles \ {c, cur} : point'[h] = point[h]
      /\ \A h \in Handles \ {c} : owner'[h] = owner[h] /\ held'[h] = held[h]
      /\ \A h \in Handles \ {cur} : callee'[h] = callee[h]
  BY CallEffect
<1>2. FrameInv /\ DequeInv /\ LoopInv /\ RoundInv
  BY DEF BatchInv
<1>3. Caller(c) = cur /\ cur \in {Root, Handshake, Write} /\ c \in {Handshake, Write, Recv, WriteOne}
  BY DEF Caller, At
<1>4. /\ futs = <<>> /\ drained = 0 /\ point[WriteOne] = "free" /\ stage[WriteOne] = "issue"
      /\ \A s \in Slots : point[s] = "free"
  BY <1>3, IdleWriter
<1>5. /\ \A x \in Handles \ {cur} : stage'[x] = stage[x]
      /\ stage' \in [Handles -> Stages] /\ stage'[Write] = "loop"
  BY <1>2, <1>3 DEF FrameInv, StageInv, Stages, Goto, At
<1>6. OwnersInv' /\ HeldInv'
  BY <1>1, <1>2, <1>3 DEF FrameInv, OwnersInv, HeldInv
<1>7. AwaitedInv'
  <2> SUFFICES ASSUME NEW x \in Handles \ (Slots \cup {Root}), point'[x] # "free"
               PROVE  /\ point'[Caller(x)] = "child" /\ callee'[Caller(x)] = x
                      /\ held'[x] = "temporary"
    BY DEF AwaitedInv
  <2>1. CASE x = c
    BY <1>1, <1>3, <2>1
  <2>2. CASE x # c
    <3>1. point[x] # "free"
      BY <1>1, <2>2
    <3>2. /\ point[Caller(x)] = "child" /\ callee[Caller(x)] = x /\ held[x] = "temporary"
      BY <1>2, <3>1 DEF FrameInv, AwaitedInv
    <3>3. Caller(x) \in Handles \ {c, cur}
      BY <1>1, <3>2 DEF Caller
    <3> QED BY <1>1, <2>2, <3>2, <3>3
  <2> QED BY <2>1, <2>2
<1>8. StageInv' /\ FreshInv' /\ PostedInv'
  <2>1. StageInv'
    BY <1>2, <1>3, <1>5 DEF FrameInv, StageInv, Stages
  <2>2. FreshInv'
    BY <1>1, <1>2, <1>5, SameEntry DEF FrameInv, FreshInv
  <2>3. PostedInv'
    BY <1>1, <1>2, <1>5 DEF FrameInv, PostedInv
  <2> QED BY <2>1, <2>2, <2>3
<1>9. DequeInv'
  <2>1. \A s \in Slots : point'[s] = "free"
    BY <1>1, <1>3, <1>4
  <2> QED BY <1>2, <1>4, <2>1
          DEF DequeInv, HoldsLastPages, HoldsAllocated, HoldsOnce, HoldsAll, DrainedDone
<1>10. LoopInv'
  <2>1. stage'[WriteOne] = "issue" /\ point'[WriteOne] \in {"free", "initial"}
    BY <1>1, <1>3, <1>4, <1>5
  <2>2. point'[WriteOne] = "free" => page' = NumPages
    BY <1>1, <1>2 DEF LoopInv, At
  <2> QED BY <2>1, <2>2 DEF LoopInv
<1>11. RoundInv'
  <2>1. point'[Write] # "final" /\ point'[Root] \notin {"running", "final"}
    BY <1>1, <1>2, <1>3 DEF RoundInv, RuntimeInv, RuntimeFrames, FrameInv, AwaitedInv, Caller
  <2>2. stage'[Root] = "end" /\ point'[Root] = "child" => callee'[Root] = Write
    BY <1>1, <1>2, <1>5 DEF RoundInv, At, Goto, FrameInv, StageInv
  <2> QED BY <2>1, <2>2 DEF RoundInv
<1> QED BY <1>6, <1>7, <1>8, <1>9, <1>10, <1>11 DEF BatchInv, FrameInv

(* RunNext resumes a frame, which takes the value of the child it awaited. *)
(* The child dies if the await holds it, and stays if the deque does.      *)
Resumes(h) ==
  /\ h \in Range(ready) /\ h \notin Range(ready') /\ Range(ready) = Range(ready') \cup {h}
  /\ cur = Null /\ cur' = h /\ phase' = phase /\ UNCHANGED <<cq, inflight>>
  /\ callee' = [callee EXCEPT ![h] = Null]
  /\ \/ /\ point[h] \in Resumable
        /\ point[h] = "child" => /\ point[callee[h]] = "final"
                                 /\ held[callee[h]] = "future"
        /\ point' = [point EXCEPT ![h] = "running"]
        /\ UNCHANGED <<owner, held>>
     \/ /\ point[h] = "child" /\ point[callee[h]] = "final" /\ callee[h] # h
        /\ held[callee[h]] = "temporary"
        /\ point' = [point EXCEPT ![h] = "running", ![callee[h]] = "free"]
        /\ owner' = [owner EXCEPT ![callee[h]] = Null]
        /\ held' = [held EXCEPT ![callee[h]] = "temporary"]

LEMMA RunNextEffect ==
  ASSUME RuntimeInv, RunNext
  PROVE  \E h \in Handles : Resumes(h)
<1> DEFINE h == Head(ready)
<1>1. ready # <<>>
  BY EmptySeq DEF RuntimeInv, RuntimeTypes, RuntimeQueues, RuntimeFrames, RunNext
<1>2. /\ h \in Handles /\ h \in Range(ready) /\ h \notin Range(ready')
      /\ Range(ready) = Range(ready') \cup {h}
  <2>1. ready' = Tail(ready) /\ ready \in Seq(Handles) /\ IsInjective(ready)
    BY DEF RunNext, RuntimeInv, RuntimeTypes, RuntimeQueues, RuntimeFrames
  <2> QED BY <2>1, <1>1, PopFront
<1>3. point[h] \in Resumable /\ (point[h] = "child" => point[callee[h]] = "final")
  BY <1>2 DEF RuntimeInv, RuntimeTypes, RuntimeQueues, RuntimeFrames
<1>4. CASE point[h] = "child" /\ held[callee[h]] = "temporary"
  <2>1. callee[h] \in Handles /\ callee[h] # h /\ EndsWithAwait(h) = {callee[h]}
    BY <1>2, <1>3, <1>4 DEF RuntimeInv, RuntimeTypes, RuntimeQueues, RuntimeFrames, EndsWithAwait
  <2>2. /\ cur' = h /\ cur = Null /\ phase' = phase /\ UNCHANGED <<cq, inflight>>
        /\ callee' = [callee EXCEPT ![h] = Null]
        /\ point' = [SetAll(point, {callee[h]}, "free") EXCEPT ![h] = "running"]
        /\ owner' = SetAll(owner, {callee[h]}, Null)
        /\ held' = SetAll(held, {callee[h]}, "temporary")
    BY <1>3, <1>4, <2>1 DEF RunNext, fabricVars
  <2>3. /\ point' = [point EXCEPT ![h] = "running", ![callee[h]] = "free"]
        /\ owner' = [owner EXCEPT ![callee[h]] = Null]
        /\ held' = [held EXCEPT ![callee[h]] = "temporary"]
    <3>1. /\ point \in [Handles -> Points] /\ held \in [Handles -> {"temporary", "future"}]
          /\ owner \in [Handles -> Handles \cup {Null}]
      BY DEF RuntimeInv, RuntimeTypes, RuntimeQueues, RuntimeFrames
    <3> HIDE DEF h
    <3>2. point' = [point EXCEPT ![h] = "running", ![callee[h]] = "free"]
      BY <3>1, <2>1, <2>2, <1>2 DEF SetAll
    <3>3. owner' = [owner EXCEPT ![callee[h]] = Null]
      BY <3>1, <2>1, <2>2 DEF SetAll
    <3>4. held' = [held EXCEPT ![callee[h]] = "temporary"]
      BY <3>1, <2>1, <2>2 DEF SetAll
    <3> QED BY <3>2, <3>3, <3>4
  <2> QED BY <1>2, <1>3, <1>4, <2>1, <2>2, <2>3 DEF Resumes
<1>5. CASE ~(point[h] = "child" /\ held[callee[h]] = "temporary")
  <2>1. EndsWithAwait(h) = {}
    BY <1>5 DEF EndsWithAwait
  <2>2. /\ cur' = h /\ cur = Null /\ phase' = phase /\ UNCHANGED <<cq, inflight>>
        /\ callee' = [callee EXCEPT ![h] = Null]
        /\ point' = [SetAll(point, {}, "free") EXCEPT ![h] = "running"]
        /\ owner' = SetAll(owner, {}, Null)
        /\ held' = SetAll(held, {}, "temporary")
    BY <1>3, <2>1 DEF RunNext, fabricVars
  <2>3. /\ point' = [point EXCEPT ![h] = "running"]
        /\ UNCHANGED <<owner, held>>
    BY <2>2 DEF SetAll, RuntimeInv, RuntimeTypes, RuntimeQueues, RuntimeFrames
  <2>4. point[h] = "child" => held[callee[h]] = "future"
    BY <1>2, <1>5 DEF RuntimeInv, RuntimeTypes, RuntimeFrames
  <2> QED BY <1>2, <1>3, <2>2, <2>3, <2>4 DEF Resumes
<1> QED BY <1>4, <1>5, <1>2

LEMMA ResumeStep ==
  ASSUME RuntimeInv, BatchInv, RunNext, UNCHANGED ownVars
  PROVE  BatchInv'
<1> USE Names
<1>1. PICK h \in Handles : Resumes(h)
  BY RunNextEffect
<1>2. FrameInv /\ DequeInv /\ LoopInv /\ CountInv /\ RoundInv
  BY DEF BatchInv
<1>3. UNCHANGED <<stage, round, page, ops, futs, drained>>
  BY DEF ownVars, writerVars
<1>4. CASE point[h] # "child"
  <2>1. /\ point[h] \in Resumable /\ point' = [point EXCEPT ![h] = "running"]
        /\ callee' = [callee EXCEPT ![h] = Null] /\ UNCHANGED <<owner, held>>
    BY <1>1, <1>4 DEF Resumes
  <2>2. Moves(h, "running")
    BY <2>1 DEF Moves, RuntimeInv, RuntimeTypes
  <2>3. point[h] \in {"initial", "op"} /\ (point[h] = "op" => h \in OpFrames)
    BY <1>2, <1>4, <2>1 DEF Resumable, FrameInv, PostedInv
  <2>4. h = Root => stage'[h] # "end"
    BY <1>2, <1>3, <2>3, OpAreOthers DEF FrameInv, FreshInv, Entry
  <2>5. stage' \in [Handles -> Stages] /\ stage'[Write] = "loop"
    BY <1>2, <1>3 DEF FrameInv, StageInv, Stages
  <2>6. h = WriteOne => point[h] = "initial"
    BY <2>3, OpAreOthers
  <2> QED BY <1>3, <2>2, <2>3, <2>4, <2>5, <2>6, MoveKeeps
<1>5. CASE point[h] = "child" /\ held[callee[h]] = "future"
  <2> DEFINE c == callee[h]
  <2>1. /\ point' = [point EXCEPT ![h] = "running"] /\ point[c] = "final"
        /\ callee' = [callee EXCEPT ![h] = Null] /\ UNCHANGED <<owner, held>>
    BY <1>1, <1>5 DEF Resumes
  <2>2. c \in Handles /\ owner[c] = h /\ c # Root
    BY <1>5 DEF RuntimeInv, RuntimeFrames
  <2> HIDE DEF c
  <2>3. c \in Slots
    BY <1>2, <1>5, <2>1, <2>2 DEF FrameInv, AwaitedInv, c
  <2>4. h = WriteOne
    BY <1>2, <2>2, <2>3 DEF FrameInv, OwnersInv, Caller
  <2>5. /\ point'[h] = "running" /\ \A x \in Handles \ {h} : point'[x] = point[x]
        /\ \A x \in Handles \ {h} : callee'[x] = callee[x]
    BY <2>1 DEF RuntimeInv, RuntimeTypes
  <2>6. FrameInv'
    <3>1. OwnersInv' /\ HeldInv'
      BY <1>2, <2>1, <2>4, <2>5 DEF FrameInv, OwnersInv, HeldInv
    <3>2. AwaitedInv'
      <4> SUFFICES ASSUME NEW x \in Handles \ (Slots \cup {Root}), point'[x] # "free"
                   PROVE  /\ point'[Caller(x)] = "child" /\ callee'[Caller(x)] = x
                          /\ held'[x] = "temporary"
        BY DEF AwaitedInv
      <4>1. point[x] # "free" /\ Caller(x) \in Handles \ {h}
        BY <1>5, <2>4, <2>5 DEF Caller
      <4> QED BY <1>2, <2>1, <2>5, <4>1 DEF FrameInv, AwaitedInv
    <3>3. StageInv' /\ FreshInv' /\ PostedInv'
      BY <1>2, <1>3, <2>5, SameEntry DEF FrameInv, StageInv, FreshInv, PostedInv
    <3> QED BY <3>1, <3>2, <3>3 DEF FrameInv
  <2>7. DequeInv'
    BY <1>2, <1>3, <2>4, <2>5, DequeStays
  <2>8. LoopInv'
    <3>1. stage[WriteOne] \in {"pop", "count"} /\ c = Awaited
      BY <1>2, <1>5, <2>4 DEF LoopInv, FrameInv, StageInv, c
    <3>2. Awaited' = Awaited /\ Awaited \in Slots
      BY <1>2, <1>3, <3>1, AwaitedIsSlot DEF Awaited
    <3>3. point'[WriteOne] = "running" /\ point'[Awaited] = "final"
      BY <2>1, <2>2, <2>4, <2>5, <3>1, <3>2
    <3> QED BY <1>2, <1>3, <3>1, <3>2, <3>3 DEF LoopInv
  <2>9. CountInv' /\ RoundInv'
    BY <1>2, <1>3, <2>4, <2>5 DEF CountInv, RoundInv
  <2> QED BY <2>6, <2>7, <2>8, <2>9 DEF BatchInv
<1>6. CASE point[h] = "child" /\ held[callee[h]] = "temporary"
  <2> DEFINE c == callee[h]
  <2>1. /\ point' = [point EXCEPT ![h] = "running", ![c] = "free"]
        /\ owner' = [owner EXCEPT ![c] = Null]
        /\ held' = [held EXCEPT ![c] = "temporary"]
        /\ callee' = [callee EXCEPT ![h] = Null]
        /\ point[c] = "final" /\ c # h
    BY <1>1, <1>6 DEF Resumes
  <2>2. c \in Handles /\ owner[c] = h /\ c # Root
    BY <1>6 DEF RuntimeInv, RuntimeFrames
  <2>10. held[c] = "temporary" /\ callee[h] = c
    BY <1>6
  <2> HIDE DEF c
  <2>3. c \notin Slots
    BY <1>2, <2>1, <2>10 DEF FrameInv, HeldInv
  <2>4. Caller(c) = h
    BY <1>2, <2>2 DEF FrameInv, OwnersInv
  <2>5. /\ point'[h] = "running" /\ point'[c] = "free"
        /\ \A x \in Handles \ {h, c} : point'[x] = point[x]
        /\ \A x \in Handles \ {h} : callee'[x] = callee[x]
        /\ owner'[c] = Null /\ \A x \in Handles \ {c} : owner'[x] = owner[x]
        /\ \A x \in Handles \ {c} : held'[x] = held[x]
    BY <2>1, <2>2 DEF RuntimeInv, RuntimeTypes
  <2>6. h \in {Root, Handshake, Write}
    BY <2>2, <2>3, <2>4 DEF Caller
  <2>7. FrameInv'
    <3>1. OwnersInv' /\ HeldInv'
      BY <1>2, <2>2, <2>3, <2>5, <2>6 DEF FrameInv, OwnersInv, HeldInv
    <3>2. AwaitedInv'
      <4> SUFFICES ASSUME NEW x \in Handles \ (Slots \cup {Root}), point'[x] # "free"
                   PROVE  /\ point'[Caller(x)] = "child" /\ callee'[Caller(x)] = x
                          /\ held'[x] = "temporary"
        BY DEF AwaitedInv
      <4>1. point[x] # "free" /\ x # c
        BY <1>6, <2>5
      <4>2. /\ point[Caller(x)] = "child" /\ callee[Caller(x)] = x /\ held[x] = "temporary"
        BY <1>2, <4>1 DEF FrameInv, AwaitedInv
      <4>3. Caller(x) \in Handles \ {h, c}
        BY <2>1, <2>10, <4>1, <4>2 DEF Caller
      <4> QED BY <2>5, <4>1, <4>2, <4>3
    <3>3. StageInv' /\ FreshInv' /\ PostedInv'
      <4>1. StageInv'
        BY <1>2, <1>3 DEF FrameInv, StageInv
      <4>2. FreshInv'
        BY <1>2, <1>3, <2>1, <2>2, <2>5, SameEntry DEF FrameInv, FreshInv
      <4>3. PostedInv'
        BY <1>2, <1>3, <2>5 DEF FrameInv, PostedInv
      <4> QED BY <4>1, <4>2, <4>3
    <3> QED BY <3>1, <3>2, <3>3 DEF FrameInv
  <2>8. DequeInv'
    BY <1>2, <1>3, <2>3, <2>5, <2>6, DequeStays
  <2>9. LoopInv'
    <3>1. CASE c = WriteOne
      <4>1. point'[WriteOne] = "free" /\ stage'[WriteOne] = "issue" /\ page' = NumPages
        BY <1>2, <1>3, <2>1, <2>5, <3>1 DEF FrameInv, FreshInv, Entry, LoopInv
      <4> QED BY <4>1 DEF LoopInv
    <3>2. CASE c # WriteOne
      <4>1. UNCHANGED <<futs, drained, page, point[WriteOne], stage[WriteOne], callee[WriteOne]>>
        BY <1>3, <2>5, <2>6, <3>2
      <4>2. \A s \in Slots : point[s] = "final" => point'[s] = "final"
        BY <2>3, <2>5, <2>6
      <4> QED BY <1>2, <4>1, <4>2, LoopStays DEF FrameInv, StageInv
    <3> QED BY <3>1, <3>2
  <2>11. CountInv'
    BY <1>2, <1>3 DEF CountInv
  <2>12. RoundInv'
    <3>1. point'[Write] = "final" => round = Repeat
      BY <1>2, <2>5 DEF RoundInv
    <3>2. point'[Root] = "child" => /\ point[Root] = "child" /\ callee'[Root] = callee[Root]
      BY <2>2, <2>5
    <3>3. point'[Root] = "running" /\ stage[Root] = "end" => round = Repeat
      BY <1>2, <1>6, <2>1, <2>2, <2>5, <2>10 DEF RoundInv
    <3>4. point'[Root] = "final" => round = Repeat
      BY <1>2, <2>2, <2>5 DEF RoundInv
    <3> QED BY <1>2, <1>3, <3>1, <3>2, <3>3, <3>4 DEF RoundInv
  <2> QED BY <2>7, <2>8, <2>9, <2>11, <2>12 DEF BatchInv
<1> QED BY <1>1, <1>4, <1>5, <1>6 DEF Resumes

(* A body ends over children that are done, and destroys just them.        *)
LEMMA FinishEffect ==
  ASSUME ~MayFail, R!IInv, RuntimeInv, Running, NEW r \in Results, Finish(r),
         \A c \in Children(cur) : point[c] = "final"
  PROVE  /\ point'[cur] = "final" /\ cur \notin Children(cur)
         /\ \A h \in Children(cur) : point'[h] = "free" /\ owner'[h] = Null
         /\ \A h \in Handles \ (Children(cur) \cup {cur}) : point'[h] = point[h]
         /\ \A h \in Handles \ Children(cur) :
              owner'[h] = owner[h] /\ held'[h] = held[h] /\ callee'[h] = callee[h]
         /\ cur # Root => UNCHANGED cq
         /\ \A h \in Handles : point[h] # "child" =>
              (h \in Range(ready') <=> h \in Range(ready))
<1>1. cur \in Handles /\ point[cur] = "running" /\ cur # Null
  BY ActiveFacts
<1>2. Descendants(cur) = Children(cur)
  <2>1. R!Descendants(cur) = R!Children(cur)
    <3>1. R!Running /\ \A c \in R!Children(cur) : point[c] = "final"
      BY DEF Running, R!Running, Children, R!Children
    <3> QED BY <3>1, R!JoinedDescendants, RuntimeAssumptions
  <2> QED BY <2>1 DEF Descendants, R!Descendants, Children, R!Children
<1>3. /\ point' = [SetAll(point, Children(cur), "free") EXCEPT ![cur] = "final"]
      /\ callee' = SetAll(callee, Children(cur), Null)
      /\ owner' = SetAll(owner, Children(cur), Null)
      /\ held' = SetAll(held, Children(cur), "temporary")
      /\ cur # Root => UNCHANGED cq
      /\ ready' = Wake(next[cur])
  BY <1>2 DEF Finish, Continuation
<1>4. \A h \in Handles : point[h] # "child" => (h \in Range(ready') <=> h \in Range(ready))
  <2>1. next[cur] # Null => next[cur] \in Handles /\ point[next[cur]] = "child"
    BY <1>1 DEF R!IInv, R!TypeOK, R!AwaitInv, R!Live
  <2>2. next[cur] # Null => Range(ready') = Range(ready) \cup {next[cur]}
    BY <1>3, <2>1, PushBack DEF Wake, RuntimeInv, RuntimeTypes, RuntimeQueues, RuntimeFrames
  <2> QED BY <1>3, <2>1, <2>2 DEF Wake
<1>5. cur \notin Children(cur) /\ Children(cur) \subseteq Handles
  BY <1>1 DEF Children
<1> QED BY <1>1, <1>3, <1>4, <1>5 DEF SetAll

(* All but WriteOne return with no child left.                             *)
LEMMA ReturnSteps ==
  ASSUME ~MayFail, R!IInv, RuntimeInv, BatchInv, NEW h \in Handles \ {WriteOne}, cur = h, Ends(h),
         UNCHANGED <<round, page, ops, futs, drained>>,
         h \in {Root, Write} => round = Repeat
  PROVE  /\ BatchInv'
         /\ point'[h] = "final" /\ \A x \in Handles \ {h} : point'[x] = point[x]
<1> USE Names
<1>1. Running /\ Finish("value") /\ stage' = [stage EXCEPT ![h] = Entry[h]]
  BY DEF Ends, Return, Active, Goto
<1>2. point[h] = "running" /\ Children(h) = {}
  BY <1>1, ActiveFacts, OnlyFuturesLeft
<1>3. Moves(h, "final")
  <2>1. "value" \in Results
    BY DEF Results
  <2>2. /\ point'[h] = "final" /\ \A x \in Handles \ {h} : point'[x] = point[x]
        /\ \A x \in Handles :
              owner'[x] = owner[x] /\ held'[x] = held[x] /\ callee'[x] = callee[x]
    BY <1>1, <1>2, <2>1, FinishEffect
  <2>3. owner' = SetAll(owner, Descendants(cur), Null) /\ held' = SetAll(held, Descendants(cur), "temporary")
    BY <1>1 DEF Finish
  <2>4. UNCHANGED <<owner, held>>
    BY <2>2, <2>3 DEF SetAll, RuntimeInv, RuntimeTypes
  <2> QED BY <2>2, <2>4 DEF Moves
<1>4. /\ stage'[h] = Entry[h] /\ \A x \in Handles \ {h} : stage'[x] = stage[x]
      /\ stage' \in [Handles -> Stages] /\ Entry[Write] = "loop"
  BY <1>1 DEF BatchInv, FrameInv, StageInv, Stages, Entry
<1>5. BatchInv'
  BY <1>2, <1>3, <1>4, MoveKeeps
<1> QED BY <1>3, <1>5 DEF Moves

LEMMA PostSteps ==
  ASSUME RuntimeInv, BatchInv, NEW h \in OpFrames, cur = h, PostOp, Goto(h, "posted"),
         UNCHANGED <<round, page, ops, futs, drained>>
  PROVE  BatchInv'
<1>1. h \in Handles \ {Root, Handshake, Write, WriteOne}
  BY OpAreOthers
<1>2. Running /\ point' = [point EXCEPT ![h] = "op"] /\ UNCHANGED <<owner, callee, held>>
  BY DEF PostOp, Active
<1>3. point[h] = "running"
  BY <1>2, ActiveFacts
<1>4. Moves(h, "op")
  BY <1>1, <1>2 DEF Moves, RuntimeInv, RuntimeTypes
<1>5. /\ stage'[h] = "posted" /\ \A x \in Handles \ {h} : stage'[x] = stage[x]
      /\ stage' \in [Handles -> Stages]
  BY <1>1 DEF BatchInv, FrameInv, StageInv, Stages, Goto
<1> QED BY <1>1, <1>3, <1>4, <1>5, MoveKeeps

(* The steps that leave the frames alone; Peer opens its Net.              *)
LEMMA QuietSteps ==
  ASSUME BatchInv, UNCHANGED <<point, owner, callee, held>>, UNCHANGED ownVars
  PROVE  BatchInv'
BY DEF ownVars, writerVars, BatchInv, FrameInv, OwnersInv, AwaitedInv, HeldInv, StageInv, FreshInv,
       PostedInv, DequeInv, HoldsLastPages, HoldsAllocated, HoldsOnce, HoldsAll, DrainedDone,
       LoopInv, Awaited, CountInv, RoundInv, Entry

LEMMA OpenSteps ==
  ASSUME RuntimeInv, BatchInv, OpenPeer, UNCHANGED <<round, page, ops, futs, drained>>
  PROVE  BatchInv'
<1> USE Names
<1>1. /\ Running /\ cur = Root /\ stage' = [stage EXCEPT ![Root] = "handshake"]
      /\ UNCHANGED <<point, owner, callee, held>>
  BY DEF OpenPeer, OpenNet, At, Goto, Active, frameVars
<1>2. point[Root] = "running"
  BY <1>1, ActiveFacts
<1>3. FrameInv /\ DequeInv /\ LoopInv /\ CountInv /\ RoundInv
  BY DEF BatchInv
<1>4. /\ stage'[Root] = "handshake" /\ \A x \in Handles \ {Root} : stage'[x] = stage[x]
      /\ stage' \in [Handles -> Stages]
  BY <1>1, <1>3 DEF FrameInv, StageInv, Stages
<1>5. FrameInv'
  <2>1. OwnersInv' /\ AwaitedInv' /\ HeldInv'
    BY <1>1, <1>3 DEF FrameInv, OwnersInv, AwaitedInv, HeldInv
  <2>2. StageInv'
    BY <1>3, <1>4 DEF FrameInv, StageInv, Stages
  <2>3. FreshInv' /\ PostedInv'
    BY <1>1, <1>2, <1>3, <1>4, SameEntry DEF FrameInv, FreshInv, PostedInv
  <2> QED BY <2>1, <2>2, <2>3 DEF FrameInv
<1>6. DequeInv'
  BY <1>1, <1>3, DequeStays
<1>7. LoopInv'
  BY <1>1, <1>3, <1>4, LoopStays DEF FrameInv, StageInv
<1>8. CountInv' /\ RoundInv'
  BY <1>1, <1>2, <1>3, <1>4 DEF CountInv, RoundInv
<1> QED BY <1>5, <1>6, <1>7, <1>8 DEF BatchInv

(* What WriteOne does: its frame moves, the others stay.                   *)
LEMMA WriteOneFacts ==
  ASSUME RuntimeInv, BatchInv, Running, cur = WriteOne
  PROVE  /\ point[WriteOne] = "running" /\ WriteOne \in Handles
         /\ stage[WriteOne] # "issue" => point[Awaited] = "final" /\ Awaited \in Slots
         /\ point[Write] = "child" /\ point[Root] = "child"
<1>1. point[WriteOne] = "running" /\ WriteOne \in Handles
  BY ActiveFacts
<1>2. point[Write] = "child"
  BY <1>1, Names DEF BatchInv, FrameInv, AwaitedInv, Caller
<1>3. point[Root] = "child"
  BY <1>2, Names DEF BatchInv, FrameInv, AwaitedInv, Caller
<1>4. stage[WriteOne] # "issue" => point[Awaited] = "final" /\ Awaited \in Slots
  BY <1>1, AwaitedIsSlot DEF BatchInv, LoopInv, FrameInv, StageInv
<1> QED BY <1>1, <1>2, <1>3, <1>4

(* RoundInv says nothing of WriteOne and its slots.                        *)
LEMMA RoundStays ==
  ASSUME RoundInv, round' = round, point[Write] = "child", point[Root] = "child",
         UNCHANGED <<point[Write], point[Root], stage[Root], callee[Root]>>
  PROVE  RoundInv'
BY DEF RoundInv

(* A page is issued: the new slot is at the end of the deque.              *)
IssueEffect(c) ==
  /\ point[c] = "free" /\ c # WriteOne
  /\ point'[c] = "initial" /\ \A h \in Handles \ {c} : point'[h] = point[h]
  /\ owner'[c] = WriteOne /\ \A h \in Handles \ {c} : owner'[h] = owner[h]
  /\ held'[c] = "future" /\ \A h \in Handles \ {c} : held'[h] = held[h]
  /\ UNCHANGED <<callee, stage>>

LEMMA IssueFacts ==
  ASSUME RuntimeInv, BatchInv, NEW c \in Slots, IssuePage(c)
  PROVE  Running /\ cur = WriteOne /\ IssueEffect(c)
<1>1. /\ Running /\ cur = WriteOne /\ point[c] = "free" /\ UNCHANGED <<callee, stage>>
      /\ point' = [point EXCEPT ![c] = "initial"]
      /\ owner' = [owner EXCEPT ![c] = cur]
      /\ held' = [held EXCEPT ![c] = "future"]
  BY DEF IssuePage, At, Spawn, Create, Active
<1>2. c \in Handles /\ c # WriteOne
  BY Names
<1> QED BY <1>1, <1>2 DEF IssueEffect, RuntimeInv, RuntimeTypes

LEMMA IssueDeque ==
  ASSUME RuntimeInv, BatchInv, NEW c \in Slots, IssuePage(c)
  PROVE  /\ Len(futs') = Len(futs) + 1
         /\ \A i \in 1 .. Len(futs) : futs'[i] = futs[i]
         /\ futs'[Len(futs) + 1] = [frame |-> c, page |-> page]
         /\ DequeInv'
<1> DEFINE fut == [frame |-> c, page |-> page]
<1>1. /\ futs' = Append(futs, fut) /\ page' = page + 1 /\ UNCHANGED drained
      /\ page < NumPages /\ Len(futs) < BatchSize
  BY DEF IssuePage, HasRoom
<1>2. IssueEffect(c) /\ DequeInv /\ page \in 0 .. NumPages /\ CountInv
  BY IssueFacts DEF BatchInv, CountInv
<1>3. page \in 0 .. NumPages - 1 /\ fut \in Fut
  BY <1>1, <1>2, WriterAssumption DEF Fut
<1>4. futs \in Seq(Fut) /\ Len(futs) \in Nat
  BY <1>2, DequeFacts DEF DequeInv
<1>5. /\ futs' \in Seq(Fut) /\ Len(futs') = Len(futs) + 1
      /\ \A i \in 1 .. Len(futs) : futs'[i] = futs[i]
      /\ futs'[Len(futs) + 1] = fut
  BY <1>1, <1>3, <1>4, AppendProperties
<1>6. \A i \in 1 .. Len(futs) : futs[i].frame \in Handles \ {c} /\ point[futs[i].frame] # "free"
  BY <1>2, DequeFacts DEF DequeInv, HoldsAllocated, IssueEffect
<1>7. HoldsLastPages'
  BY <1>1, <1>2, <1>3, <1>4, <1>5 DEF DequeInv, HoldsLastPages
<1>8. HoldsAllocated'
  BY <1>2, <1>4, <1>5, <1>6, Names DEF HoldsAllocated, IssueEffect
<1>9. HoldsOnce'
  BY <1>2, <1>4, <1>5, <1>6 DEF DequeInv, HoldsOnce
<1>10. HoldsAll'
  <2> SUFFICES ASSUME NEW s \in Slots, point'[s] # "free"
               PROVE  \E i \in 1 .. Len(futs') : futs'[i].frame = s
    BY DEF HoldsAll
  <2>1. CASE s = c
    <3>1. Len(futs) + 1 \in 1 .. Len(futs') /\ futs'[Len(futs) + 1].frame = s
      BY <1>4, <1>5, <2>1
    <3> QED BY <3>1
  <2>2. CASE s # c
    <3>1. PICK i \in 1 .. Len(futs) : futs[i].frame = s
      BY <1>2, <2>2, Names DEF DequeInv, HoldsAll, IssueEffect
    <3>2. i \in 1 .. Len(futs') /\ futs'[i].frame = s
      BY <1>4, <1>5, <3>1
    <3> QED BY <3>2
  <2> QED BY <2>1, <2>2
<1>11. drained = 0
  BY <1>1, <1>2 DEF DequeInv
<1>12. DrainedDone' /\ drained' \in 0 .. Len(futs') /\ (drained' > 0 => page' = NumPages)
  BY <1>1, <1>4, <1>5, <1>11 DEF DrainedDone
<1>13. Len(futs') <= BatchSize
  BY <1>1, <1>4, <1>5, BatchAssumption
<1>14. DequeInv'
  BY <1>5, <1>7, <1>8, <1>9, <1>10, <1>12, <1>13 DEF DequeInv, Fut
<1> QED BY <1>5, <1>14

LEMMA IssueStep ==
  ASSUME RuntimeInv, BatchInv, NEW c \in Slots, IssuePage(c)
  PROVE  BatchInv'
<1> USE Names
<1>1. Running /\ cur = WriteOne /\ IssueEffect(c) /\ c \in Handles
  BY IssueFacts
<1>2. /\ stage[WriteOne] = "issue" /\ page < NumPages /\ page' = page + 1
      /\ UNCHANGED <<stage, round, ops, drained>>
  BY DEF IssuePage, At
<1>3. FrameInv /\ DequeInv /\ LoopInv /\ CountInv /\ RoundInv
  BY DEF BatchInv
<1>4. FrameInv'
  <2>1. OwnersInv' /\ HeldInv'
    BY <1>1, <1>3 DEF FrameInv, OwnersInv, HeldInv, IssueEffect, Caller
  <2>2. AwaitedInv'
    <3> SUFFICES ASSUME NEW x \in Handles \ (Slots \cup {Root}), point'[x] # "free"
                 PROVE  /\ point'[Caller(x)] = "child" /\ callee'[Caller(x)] = x
                        /\ held'[x] = "temporary"
      BY DEF AwaitedInv
    <3>1. /\ point[Caller(x)] = "child" /\ callee[Caller(x)] = x /\ held[x] = "temporary"
      BY <1>1, <1>3 DEF FrameInv, AwaitedInv, IssueEffect
    <3>2. Caller(x) \in Handles \ {c}
      BY <1>1, <3>1 DEF Caller, IssueEffect
    <3> QED BY <1>1, <3>1, <3>2 DEF IssueEffect
  <2>3. StageInv' /\ FreshInv' /\ PostedInv'
    BY <1>1, <1>2, <1>3, SameEntry DEF FrameInv, StageInv, FreshInv, PostedInv, IssueEffect
  <2> QED BY <2>1, <2>2, <2>3 DEF FrameInv
<1>5. DequeInv' /\ Len(futs') = Len(futs) + 1 /\ Len(futs) \in Nat
  BY IssueDeque, <1>3, DequeFacts
<1>6. LoopInv'
  BY <1>1, <1>2, <1>3, ActiveFacts DEF LoopInv, IssueEffect
<1>7. CountInv'
  <2>1. /\ page \in 0 .. NumPages /\ round \in 0 .. Repeat /\ drained \in Nat /\ ops \in Nat
        /\ drained \in 0 .. Len(futs)
    BY <1>3 DEF CountInv, DequeInv
  <2>2. round # 0 /\ ops + (Len(futs) - drained) = (round - 1) * NumPages + page
    BY <1>2, <1>3, <2>1, WriterAssumption DEF CountInv
  <2>3. (round - 1) * NumPages \in Int
    BY <2>1, WriterAssumption
  <2>4. /\ ops' + (Len(futs') - drained') = (round' - 1) * NumPages + page'
        /\ page' \in 0 .. NumPages
    BY <1>2, <1>5, <2>1, <2>2, <2>3, WriterAssumption
  <2> QED BY <1>2, <2>1, <2>2, <2>4 DEF CountInv
<1>8. RoundInv'
  BY <1>1, <1>2, <1>3, WriteOneFacts, RoundStays DEF IssueEffect
<1> QED BY <1>4, <1>5, <1>6, <1>7, <1>8 DEF BatchInv

(* WriteOne awaits a future, the oldest or the next one to drain: it is    *)
(* suspended until the write is done, or goes on when it is.               *)
AwaitEffect(c) ==
  \/ point[c] = "final" /\ UNCHANGED <<point, owner, held, callee>>
  \/ /\ point'[WriteOne] = "child" /\ \A h \in Handles \ {WriteOne} : point'[h] = point[h]
     /\ callee'[WriteOne] = c /\ \A h \in Handles \ {WriteOne} : callee'[h] = callee[h]
     /\ UNCHANGED <<owner, held>>

LEMMA AwaitFacts ==
  ASSUME RuntimeInv, NEW c \in Slots, cur = WriteOne, AwaitFuture(c) \/ AwaitDone(c)
  PROVE  Running /\ AwaitEffect(c) /\ UNCHANGED ready /\ cq' = cq
<1>1. c \in Handles /\ WriteOne \in Handles
  BY Names
<1>2. CASE AwaitDone(c)
  BY <1>2 DEF AwaitDone, Active, frameVars, AwaitEffect, fabricVars
<1>3. CASE AwaitFuture(c)
  <2>1. /\ Running /\ point[c] # "final" /\ point[c] # "free" /\ c # WriteOne
        /\ point' = [point EXCEPT ![WriteOne] = "child"]
        /\ callee' = [callee EXCEPT ![WriteOne] = c] /\ UNCHANGED <<owner, held>>
        /\ cq' = cq /\ ready' = IF MustCall(c) THEN Append(ready, c) ELSE ready
    BY <1>3, Names DEF AwaitFuture, Active, IsFuture, SuspendOn, fabricVars
  <2>2. point[WriteOne] = "running"
    BY <2>1, ActiveFacts
  <2>3. point[c] \in Resumable
    <3>1. point[c] \in Points /\ point[c] # "running"
      BY <1>1, <2>1, <2>2 DEF RuntimeInv, RuntimeTypes, RuntimeFrames
    <3> QED BY <2>1, <3>1 DEF Points, Resumable
  <2>4. ~MustCall(c)
    BY <1>1, <2>3 DEF MustCall, RuntimeInv, RuntimeFrames
  <2> QED BY <1>1, <2>1, <2>4 DEF AwaitEffect, RuntimeInv, RuntimeTypes
<1> QED BY <1>2, <1>3

LEMMA AwaitSteps ==
  ASSUME RuntimeInv, BatchInv, AwaitOldest \/ AwaitDrain
  PROVE  /\ BatchInv' /\ Running /\ cur = WriteOne
         /\ UNCHANGED <<round, page, ops, futs, drained, ready, cq>>
         /\ \A x \in Handles \ {WriteOne} : point'[x] = point[x] /\ stage'[x] = stage[x]
<1> USE Names
<1>1. FrameInv /\ DequeInv /\ LoopInv /\ CountInv /\ RoundInv
  BY DEF BatchInv
<1>2. /\ cur = WriteOne /\ stage[WriteOne] = "issue"
      /\ UNCHANGED <<round, page, ops, futs, drained>>
  BY DEF AwaitOldest, AwaitDrain, At, Await
<1>3. PICK fut \in Fut, t \in {"pop", "count"} :
        /\ Await(fut, t)
        /\ t = "pop" => page < NumPages /\ futs # <<>> /\ fut = futs[1]
        /\ t = "count" => page = NumPages /\ drained < Len(futs) /\ fut = futs[drained + 1]
  <2>1. CASE AwaitOldest
    <3>1. Len(futs) \in Nat /\ Len(futs) > 0 /\ page < NumPages
      BY <1>1, <2>1, DequeFacts, BatchAssumption DEF AwaitOldest, HasRoom
    <3>2. futs # <<>> /\ Head(futs) = futs[1] /\ futs[1] \in Fut
      BY <1>1, <3>1, DequeFacts
    <3> QED BY <2>1, <3>1, <3>2 DEF AwaitOldest
  <2>2. CASE AwaitDrain
    <3>1. drained + 1 \in 1 .. Len(futs) /\ drained < Len(futs) /\ page = NumPages
      BY <1>1, <2>2, DequeFacts DEF AwaitDrain, DequeInv
    <3>2. futs[drained + 1] \in Fut
      BY <1>1, <3>1, DequeFacts
    <3> QED BY <2>2, <3>1, <3>2 DEF AwaitDrain
  <2> QED BY <2>1, <2>2
<1> DEFINE c == fut.frame
<1>4. c \in Slots
  BY DEF Fut
<1> HIDE DEF c
<1>5. Running /\ AwaitEffect(c) /\ UNCHANGED <<ready, cq>>
  BY <1>2, <1>3, <1>4, AwaitFacts DEF Await, c
<1>6. /\ point[WriteOne] = "running" /\ point[Write] = "child" /\ point[Root] = "child"
  BY <1>2, <1>5, WriteOneFacts
<1>7. /\ stage'[WriteOne] = t /\ \A x \in Handles \ {WriteOne} : stage'[x] = stage[x]
      /\ stage' \in [Handles -> Stages]
  BY <1>1, <1>3 DEF Await, Goto, FrameInv, StageInv, Stages
<1>8. \A x \in Handles \ {WriteOne} : point'[x] = point[x] /\ callee'[x] = callee[x]
  BY <1>5 DEF AwaitEffect
<1>9. point'[WriteOne] \in {"running", "child"} /\ UNCHANGED <<owner, held>>
  BY <1>5, <1>6 DEF AwaitEffect
<1>10. FrameInv'
  <2>1. OwnersInv' /\ HeldInv'
    BY <1>1, <1>8, <1>9 DEF FrameInv, OwnersInv, HeldInv
  <2>2. AwaitedInv'
    <3> SUFFICES ASSUME NEW x \in Handles \ (Slots \cup {Root}), point'[x] # "free"
                 PROVE  /\ point'[Caller(x)] = "child" /\ callee'[Caller(x)] = x
                        /\ held'[x] = "temporary"
      BY DEF AwaitedInv
    <3>1. point[x] # "free" /\ Caller(x) \in Handles \ {WriteOne}
      BY <1>6, <1>8 DEF Caller
    <3> QED BY <1>1, <1>8, <1>9, <3>1 DEF FrameInv, AwaitedInv
  <2>3. StageInv'
    BY <1>1, <1>7 DEF FrameInv, StageInv, Stages
  <2>4. FreshInv' /\ PostedInv'
    BY <1>1, <1>7, <1>8, <1>9, SameEntry DEF FrameInv, FreshInv, PostedInv
  <2> QED BY <2>1, <2>2, <2>3, <2>4 DEF FrameInv
<1>11. DequeInv'
  BY <1>1, <1>2, <1>8, DequeStays
<1>12. LoopInv'
  <2>1. Awaited' = c
    BY <1>2, <1>3, <1>7 DEF Awaited, c
  <2>2. \/ point'[WriteOne] = "child" /\ callee'[WriteOne] = c
        \/ point'[WriteOne] = "running" /\ point'[c] = "final"
    BY <1>4, <1>5, <1>6 DEF AwaitEffect
  <2> QED BY <1>2, <1>3, <1>7, <1>9, <2>1, <2>2 DEF LoopInv
<1>13. CountInv'
  BY <1>1, <1>2 DEF CountInv
<1>14. RoundInv'
  BY <1>1, <1>2, <1>6, <1>7, <1>8, RoundStays
<1> QED BY <1>2, <1>5, <1>7, <1>8, <1>10, <1>11, <1>12, <1>13, <1>14 DEF BatchInv

(* A drained future is counted and stays in the deque, done.               *)
LEMMA CountStep ==
  ASSUME RuntimeInv, BatchInv, CountDrained
  PROVE  /\ BatchInv' /\ Running /\ cur = WriteOne
         /\ \A x \in Handles \ {WriteOne} : stage'[x] = stage[x]
<1> USE Names
<1>1. FrameInv /\ DequeInv /\ LoopInv /\ CountInv /\ RoundInv
  BY DEF BatchInv
<1>2. /\ Running /\ cur = WriteOne /\ stage[WriteOne] = "count"
      /\ drained' = drained + 1 /\ ops' = ops + 1 /\ Goto(WriteOne, "issue")
      /\ UNCHANGED <<round, page, futs, point, owner, held, callee>>
  BY DEF CountDrained, At, Active, vars, frameVars
<1>3. /\ point[WriteOne] = "running" /\ point[Write] = "child" /\ point[Root] = "child"
      /\ point[Awaited] = "final"
  BY <1>2, WriteOneFacts
<1>4. /\ stage'[WriteOne] = "issue" /\ \A x \in Handles \ {WriteOne} : stage'[x] = stage[x]
      /\ stage' \in [Handles -> Stages]
  BY <1>1, <1>2 DEF Goto, FrameInv, StageInv, Stages
<1>5. page = NumPages /\ drained < Len(futs) /\ Awaited = futs[drained + 1].frame
  BY <1>1, <1>2 DEF LoopInv, Awaited
<1>6. FrameInv'
  <2>1. OwnersInv' /\ HeldInv' /\ AwaitedInv'
    BY <1>1, <1>2 DEF FrameInv, OwnersInv, HeldInv, AwaitedInv
  <2>2. StageInv'
    BY <1>1, <1>4 DEF FrameInv, StageInv, Stages
  <2>3. FreshInv' /\ PostedInv'
    BY <1>1, <1>2, <1>3, <1>4, SameEntry DEF FrameInv, FreshInv, PostedInv
  <2> QED BY <2>1, <2>2, <2>3 DEF FrameInv
<1>7. drained \in 0 .. Len(futs) /\ Len(futs) \in Nat /\ drained' \in 0 .. Len(futs)
  BY <1>1, <1>2, <1>5, DequeFacts DEF DequeInv
<1>8. DequeInv'
  <2>1. DrainedDone'
    BY <1>1, <1>2, <1>3, <1>5, <1>7 DEF DequeInv, DrainedDone
  <2>2. HoldsLastPages' /\ HoldsAllocated' /\ HoldsOnce' /\ HoldsAll'
    BY <1>1, <1>2 DEF DequeInv, HoldsLastPages, HoldsAllocated, HoldsOnce, HoldsAll
  <2> QED BY <1>1, <1>2, <1>5, <1>7, <2>1, <2>2 DEF DequeInv
<1>9. LoopInv'
  BY <1>2, <1>3, <1>4 DEF LoopInv
<1>10. CountInv'
  <2>1. ops' \in Nat /\ ops' + (Len(futs') - drained') = ops + (Len(futs) - drained)
    BY <1>1, <1>2, <1>7 DEF CountInv
  <2> QED BY <1>1, <1>2, <2>1 DEF CountInv
<1>11. RoundInv'
  BY <1>1, <1>2, <1>3, <1>4, RoundStays
<1> QED BY <1>2, <1>4, <1>6, <1>8, <1>9, <1>10, <1>11 DEF BatchInv

(* The oldest future leaves the deque, and its slot is free again.         *)
DropEffect(c) ==
  /\ point[c] = "final" /\ c # WriteOne
  /\ point'[c] = "free" /\ \A h \in Handles \ {c} : point'[h] = point[h]
  /\ owner'[c] = Null /\ \A h \in Handles \ {c} : owner'[h] = owner[h]
  /\ \A h \in Handles \ {c} : held'[h] = held[h]
  /\ UNCHANGED <<callee, ready, cq>>

LEMMA PopFacts ==
  ASSUME RuntimeInv, BatchInv, PopOldest
  PROVE  /\ Running /\ cur = WriteOne /\ page < NumPages /\ drained = 0 /\ Len(futs) \in Nat \ {0}
         /\ futs[1].frame \in Slots /\ DropEffect(futs[1].frame)
         /\ Len(futs') = Len(futs) - 1 /\ futs' \in Seq(Fut)
         /\ \A i \in 1 .. Len(futs') : futs'[i] = futs[i + 1]
<1> DEFINE c == Head(futs).frame
<1>1. /\ Running /\ cur = WriteOne /\ stage[WriteOne] = "pop" /\ point[c] = "final"
      /\ point' = [point EXCEPT ![c] = "free"]
      /\ owner' = [owner EXCEPT ![c] = Null]
      /\ held' = [held EXCEPT ![c] = "temporary"]
      /\ UNCHANGED <<callee, ready, cq>>
      /\ futs' = Tail(futs)
  BY DEF PopOldest, At, DropFuture, IsFuture, Active, loopVars, fabricVars
<1>2. DequeInv /\ LoopInv
  BY DEF BatchInv
<1>3. futs # <<>> /\ page < NumPages /\ drained = 0 /\ Len(futs) \in Nat \ {0}
  BY <1>1, <1>2, DequeFacts, WriterAssumption DEF LoopInv, DequeInv, BatchInv, CountInv
<1>4. c = futs[1].frame /\ futs[1].frame \in Slots /\ c \in Handles /\ c # WriteOne
  BY <1>2, <1>3, DequeFacts, Names
<1>5. /\ Len(futs') = Len(futs) - 1 /\ futs' \in Seq(Fut)
      /\ \A i \in 1 .. Len(futs') : futs'[i] = futs[i + 1]
  BY <1>1, <1>2, <1>3, HeadTailProperties DEF DequeInv
<1> HIDE DEF c
<1>6. DropEffect(c)
  BY <1>1, <1>4 DEF DropEffect, RuntimeInv, RuntimeTypes
<1> QED BY <1>1, <1>3, <1>4, <1>5, <1>6

LEMMA PopDeque ==
  ASSUME RuntimeInv, BatchInv, PopOldest
  PROVE  DequeInv'
<1>1. /\ page < NumPages /\ drained = 0 /\ Len(futs) \in Nat \ {0}
      /\ futs[1].frame \in Slots /\ DropEffect(futs[1].frame)
      /\ Len(futs') = Len(futs) - 1 /\ futs' \in Seq(Fut)
      /\ \A i \in 1 .. Len(futs') : futs'[i] = futs[i + 1]
  BY PopFacts
<1>2. UNCHANGED <<page, drained>> /\ DequeInv /\ page \in 0 .. NumPages
  BY DEF PopOldest, BatchInv, CountInv
<1>3. \A i \in 1 .. Len(futs') : i + 1 \in 2 .. Len(futs) /\ i \in Int
  BY <1>1
<1>4. \A i \in 2 .. Len(futs) : futs[i].frame \in Handles \ {futs[1].frame}
  BY <1>1, <1>2, DequeFacts DEF DequeInv, HoldsOnce
<1>5. HoldsLastPages'
  <2> SUFFICES ASSUME NEW i \in 1 .. Len(futs')
               PROVE  futs'[i].page = page' - Len(futs') + i - 1
    BY DEF HoldsLastPages
  <2>1. i + 1 \in 1 .. Len(futs) /\ i \in Int /\ page \in Int
    BY <1>1, <1>2, WriterAssumption
  <2>2. futs[i + 1].page = page - Len(futs) + (i + 1) - 1
    BY <1>2, <2>1 DEF DequeInv, HoldsLastPages
  <2>3. futs'[i] = futs[i + 1]
    BY <1>1
  <2> QED BY <1>1, <1>2, <2>1, <2>2, <2>3
<1>6. HoldsAllocated'
  BY <1>1, <1>2, <1>3, <1>4 DEF DequeInv, HoldsAllocated, DropEffect
<1>7. HoldsOnce'
  <2> SUFFICES ASSUME NEW i \in 1 .. Len(futs'), NEW j \in 1 .. Len(futs'),
                      futs'[i].frame = futs'[j].frame
               PROVE  i = j
    BY DEF HoldsOnce
  <2>1. i + 1 \in 1 .. Len(futs) /\ j + 1 \in 1 .. Len(futs)
    BY <1>1
  <2>2. i + 1 = j + 1
    BY <1>1, <1>2, <2>1 DEF DequeInv, HoldsOnce
  <2> QED BY <2>2
<1>8. HoldsAll'
  <2> SUFFICES ASSUME NEW s \in Slots, point'[s] # "free"
               PROVE  \E i \in 1 .. Len(futs') : futs'[i].frame = s
    BY DEF HoldsAll
  <2>1. s # futs[1].frame /\ point[s] # "free"
    BY <1>1, Names DEF DropEffect
  <2>2. PICK i \in 1 .. Len(futs) : futs[i].frame = s
    BY <1>2, <2>1 DEF DequeInv, HoldsAll
  <2>3. i - 1 \in 1 .. Len(futs')
    BY <1>1, <2>1, <2>2
  <2>4. futs'[i - 1] = futs[i]
    BY <1>1, <2>2, <2>3
  <2> QED BY <2>2, <2>3, <2>4
<1>9. DrainedDone' /\ drained' \in 0 .. Len(futs') /\ ~(drained' > 0) /\ Len(futs') <= BatchSize
  BY <1>1, <1>2, BatchAssumption DEF DrainedDone, DequeInv
<1> QED BY <1>1, <1>2, <1>5, <1>6, <1>7, <1>8, <1>9 DEF DequeInv, Fut

LEMMA PopStep ==
  ASSUME RuntimeInv, BatchInv, PopOldest
  PROVE  BatchInv' /\ \A x \in Handles \ {WriteOne} : stage'[x] = stage[x]
<1> USE Names
<1>1. FrameInv /\ DequeInv /\ LoopInv /\ CountInv /\ RoundInv
  BY DEF BatchInv
<1> DEFINE c == futs[1].frame
<1>2. /\ Running /\ cur = WriteOne /\ page < NumPages /\ drained = 0 /\ Len(futs) \in Nat \ {0}
      /\ c \in Slots /\ DropEffect(c) /\ Len(futs') = Len(futs) - 1
  BY PopFacts
<1> HIDE DEF c
<1>3. ops' = ops + 1 /\ Goto(WriteOne, "issue") /\ UNCHANGED <<round, page, drained>>
  BY DEF PopOldest
<1>4. /\ point[WriteOne] = "running" /\ point[Write] = "child" /\ point[Root] = "child"
  BY <1>2, WriteOneFacts
<1>5. /\ stage'[WriteOne] = "issue" /\ \A x \in Handles \ {WriteOne} : stage'[x] = stage[x]
      /\ stage' \in [Handles -> Stages]
  BY <1>1, <1>3 DEF Goto, FrameInv, StageInv, Stages
<1>6. FrameInv'
  <2>1. OwnersInv' /\ HeldInv'
    BY <1>1, <1>2 DEF FrameInv, OwnersInv, HeldInv, DropEffect
  <2>2. AwaitedInv'
    <3> SUFFICES ASSUME NEW x \in Handles \ (Slots \cup {Root}), point'[x] # "free"
                 PROVE  /\ point'[Caller(x)] = "child" /\ callee'[Caller(x)] = x
                        /\ held'[x] = "temporary"
      BY DEF AwaitedInv
    <3>1. /\ point[Caller(x)] = "child" /\ callee[Caller(x)] = x /\ held[x] = "temporary"
      BY <1>1, <1>2 DEF FrameInv, AwaitedInv, DropEffect
    <3>2. Caller(x) \in Handles \ {c}
      BY <1>2, <3>1 DEF Caller, DropEffect
    <3> QED BY <1>2, <3>1, <3>2 DEF DropEffect
  <2>3. StageInv'
    BY <1>1, <1>5 DEF FrameInv, StageInv, Stages
  <2>4. FreshInv' /\ PostedInv'
    BY <1>1, <1>2, <1>4, <1>5, SameEntry DEF FrameInv, FreshInv, PostedInv, DropEffect
  <2> QED BY <2>1, <2>2, <2>3, <2>4 DEF FrameInv
<1>7. DequeInv'
  BY PopDeque
<1>8. LoopInv'
  BY <1>2, <1>4, <1>5 DEF LoopInv, DropEffect
<1>9. CountInv'
  <2>1. ops' \in Nat /\ ops' + (Len(futs') - drained') = ops + (Len(futs) - drained)
    BY <1>1, <1>2, <1>3 DEF CountInv
  <2> QED BY <1>1, <1>3, <2>1 DEF CountInv
<1>10. RoundInv'
  BY <1>1, <1>2, <1>3, <1>4, <1>5, RoundStays DEF DropEffect
<1> QED BY <1>5, <1>6, <1>7, <1>8, <1>9, <1>10 DEF BatchInv

(* The round ends over futures that are all drained, and so done: WriteOne *)
(* destroys slots that nothing refers to any more.                         *)
LEMMA EndFacts ==
  ASSUME RuntimeInv, BatchInv, EndRound
  PROVE  /\ Running /\ cur = WriteOne /\ page = NumPages /\ drained = Len(futs) /\ Return
         /\ \A c \in Children(cur) : point[c] = "final"
         /\ Children(cur) = {s \in Slots : point[s] # "free"}
<1>1. /\ Running /\ cur = WriteOne /\ page = NumPages /\ drained = Len(futs) /\ Return
  BY DEF EndRound, At, Ends, Return, Active
<1>2. Children(cur) \subseteq Slots /\ cur # Null
  BY <1>1, OnlyFuturesLeft, ActiveFacts
<1>3. \A s \in Slots : point[s] # "free" => point[s] = "final"
  BY <1>1, DequeFacts DEF BatchInv, DequeInv, HoldsAll, DrainedDone
<1>4. \A c \in Children(cur) : point[c] # "free"
  BY <1>2 DEF Children, RuntimeInv, RuntimeFrames
<1>5. \A s \in Slots : point[s] # "free" => s \in Children(cur)
  BY <1>1, Names DEF Children, RuntimeInv, RuntimeFrames, BatchInv, FrameInv, OwnersInv, Caller
<1> QED BY <1>1, <1>2, <1>3, <1>4, <1>5

LEMMA EndStep ==
  ASSUME ~MayFail, R!IInv, RuntimeInv, BatchInv, EndRound
  PROVE  /\ BatchInv' /\ futs' = <<>> /\ \A s \in Slots : point'[s] = "free"
<1> USE Names
<1>1. FrameInv /\ DequeInv /\ LoopInv /\ CountInv /\ RoundInv
  BY DEF BatchInv
<1>2. /\ Running /\ cur = WriteOne /\ page = NumPages /\ drained = Len(futs) /\ Return
      /\ \A c \in Children(cur) : point[c] = "final"
      /\ Children(cur) = {s \in Slots : point[s] # "free"}
  BY EndFacts
<1>3. /\ stage[WriteOne] = "issue" /\ Goto(WriteOne, Entry[WriteOne])
      /\ futs' = <<>> /\ drained' = 0 /\ UNCHANGED <<round, page, ops>>
  BY DEF EndRound, At, Ends
<1>4. /\ point[WriteOne] = "running" /\ point[Write] = "child" /\ point[Root] = "child"
  BY <1>2, WriteOneFacts
<1>5. stage' = stage
  <2>1. Entry[WriteOne] = "issue"
    BY DEF Entry
  <2> QED BY <1>1, <1>3, <2>1 DEF Goto, FrameInv, StageInv
<1>6. /\ point'[WriteOne] = "final"
      /\ \A h \in Children(cur) : point'[h] = "free" /\ owner'[h] = Null
      /\ \A h \in Handles \ (Children(cur) \cup {cur}) : point'[h] = point[h]
      /\ \A h \in Handles \ Children(cur) :
           owner'[h] = owner[h] /\ held'[h] = held[h] /\ callee'[h] = callee[h]
  <2>1. Finish("value") /\ "value" \in Results
    BY <1>2 DEF Return, Results
  <2> QED BY <1>2, <2>1, FinishEffect
<1>7. \A s \in Slots : point'[s] = "free"
  BY <1>2, <1>6
<1>8. \A h \in Handles \ (Slots \cup {WriteOne}) : point'[h] = point[h]
  BY <1>2, <1>6
<1>9. \A h \in Handles \ Slots :
        owner'[h] = owner[h] /\ held'[h] = held[h] /\ callee'[h] = callee[h]
  BY <1>2, <1>6
<1>10. FrameInv'
  <2>1. OwnersInv'
    BY <1>1, <1>6 DEF FrameInv, OwnersInv
  <2>2. HeldInv'
    BY <1>7 DEF HeldInv
  <2>3. AwaitedInv'
    <3> SUFFICES ASSUME NEW x \in Handles \ (Slots \cup {Root}), point'[x] # "free"
                 PROVE  /\ point'[Caller(x)] = "child" /\ callee'[Caller(x)] = x
                        /\ held'[x] = "temporary"
      BY DEF AwaitedInv
    <3>1. point[x] # "free"
      BY <1>4, <1>8
    <3>2. /\ point[Caller(x)] = "child" /\ callee[Caller(x)] = x /\ held[x] = "temporary"
      BY <1>1, <3>1 DEF FrameInv, AwaitedInv
    <3>3. Caller(x) \in Handles \ (Slots \cup {WriteOne})
      BY <1>4, <3>2 DEF Caller
    <3> QED BY <1>8, <1>9, <3>2, <3>3
  <2>4. StageInv'
    BY <1>1, <1>5 DEF FrameInv, StageInv
  <2>5. \A s \in Slots : stage[s] = Entry[s]
    BY <1>1, <1>2 DEF FrameInv, FreshInv, Children
  <2>6. FreshInv'
    BY <1>1, <1>3, <1>5, <1>8, <2>5, SameEntry DEF FrameInv, FreshInv, Entry
  <2>7. PostedInv'
    BY <1>1, <1>5, <1>6, <1>7, <1>8 DEF FrameInv, PostedInv
  <2> QED BY <2>1, <2>2, <2>3, <2>4, <2>6, <2>7 DEF FrameInv
<1>11. DequeInv'
  <2>1. Len(futs') = 0 /\ futs' \in Seq(Fut)
    BY <1>3
  <2> QED BY <1>3, <1>7, <2>1, BatchAssumption
          DEF DequeInv, HoldsLastPages, HoldsAllocated, HoldsOnce, HoldsAll, DrainedDone, Fut
<1>12. LoopInv'
  BY <1>2, <1>3, <1>5, <1>6 DEF LoopInv
<1>13. CountInv'
  <2>1. Len(futs') = 0 /\ drained' = 0 /\ Len(futs) - drained = 0
    BY <1>1, <1>2, <1>3, DequeFacts
  <2> QED BY <1>1, <1>3, <2>1 DEF CountInv
<1>14. RoundInv'
  BY <1>1, <1>3, <1>4, <1>5, <1>8, <1>9, RoundStays
<1> QED BY <1>3, <1>7, <1>10, <1>11, <1>12, <1>13, <1>14 DEF BatchInv

-----------------------------------------------------------------------------
(* Every step of the program is a step of the runtime, and keeps the       *)
(* invariant.                                                              *)
LEMMA CommonSteps ==
  ASSUME ~MayFail, R!IInv, RuntimeInv, BatchInv, CommonStep, UNCHANGED <<futs, drained>>
  PROVE  BatchInv' /\ R!Next
<1> USE Names
<1>1. ASSUME Return, cur # WriteOne PROVE R!Next
  <2>1. Children(cur) = {}
    BY <1>1, OnlyFuturesLeft DEF Return, Active
  <2> QED BY <1>1, <2>1, SameClient DEF R!Next
<1>2. CASE StartWriter
  <2>1. UNCHANGED <<round, page, ops>>
    BY <1>2 DEF StartWriter
  <2>2. CASE OpenPeer
    BY <2>1, <2>2, OpenSteps, SameClient DEF OpenPeer, R!Next
  <2>3. CASE \/ At(Root, "handshake") /\ CallAwait(Handshake) /\ Goto(Root, "write")
             \/ At(Root, "write") /\ CallAwait(Write) /\ Goto(Root, "end")
    <3>1. CountInv'
      BY <2>1 DEF BatchInv, CountInv
    <3> QED BY <2>1, <2>3, <3>1, CallSteps, SameClient DEF R!Next
  <2>4. CASE At(Root, "end") /\ Ends(Root)
    <3>1. round = Repeat
      BY <2>4, ActiveFacts DEF At, Ends, Return, Active, BatchInv, RoundInv
    <3> QED BY <1>1, <2>1, <2>4, <3>1, ReturnSteps DEF At, Ends
  <2> QED BY <1>2, <2>2, <2>3, <2>4 DEF StartWriter, BodyThrows
<1>3. CASE HandshakeStep
  <2>1. UNCHANGED <<round, page, ops>> /\ CountInv'
    BY <1>3 DEF HandshakeStep, BatchInv, CountInv
  <2>2. CASE At(Handshake, "recv") /\ CallAwait(Recv) /\ Goto(Handshake, "end")
    BY <2>1, <2>2, CallSteps, SameClient DEF R!Next
  <2>3. CASE At(Handshake, "end") /\ Ends(Handshake)
    BY <1>1, <2>1, <2>3, ReturnSteps DEF At, Ends
  <2> QED BY <1>3, <2>2, <2>3 DEF HandshakeStep, BodyThrows
<1>4. CASE WriteStep
  <2>1. /\ round \in 0 .. Repeat /\ page = NumPages /\ futs = <<>> /\ drained = 0 /\ ops \in Nat
        /\ At(Write, "loop")
    BY <1>4, IdleWriter DEF WriteStep, BatchInv, CountInv, At
  <2>2. CASE CallAwait(WriteOne) /\ MoreRounds /\ round' = round + 1 /\ page' = 0
             /\ UNCHANGED <<stage, ops>>
    <3>1. round < Repeat
      BY <2>2 DEF MoreRounds
    <3>2. ops = IF round = 0 THEN 0 ELSE (round - 1) * NumPages + NumPages
      BY <2>1 DEF BatchInv, CountInv
    <3>3. ops = round * NumPages
      BY <2>1, <3>2, WriterAssumption
    <3>4. ops' + (Len(futs') - drained') = (round' - 1) * NumPages + page'
      BY <2>1, <2>2, <3>3, WriterAssumption
    <3>5. CountInv'
      BY <2>1, <2>2, <3>1, <3>4, WriterAssumption DEF CountInv
    <3> QED BY <2>1, <2>2, <3>1, <3>5, CallSteps, SameClient DEF R!Next
  <2>3. CASE Ends(Write) /\ ~MoreRounds /\ UNCHANGED <<round, page, ops>>
    <3>1. round = Repeat
      BY <2>1, <2>3, WriterAssumption DEF MoreRounds
    <3> QED BY <1>1, <2>1, <2>3, <3>1, ReturnSteps DEF At, Ends
  <2> QED BY <1>4, <2>2, <2>3 DEF WriteStep
<1>5. ASSUME NEW h \in OpFrames, OpStep(h) PROVE BatchInv' /\ R!Next
  <2>1. h \in Handles \ {Root, Handshake, Write, WriteOne}
    BY OpAreOthers
  <2>2. cur = h /\ UNCHANGED <<round, page, ops>>
    BY <1>5, <2>1 DEF OpStep, At
  <2>3. CASE PostOp /\ Goto(h, "posted")
    BY <2>2, <2>3, PostSteps, SameClient DEF R!Next
  <2>4. CASE Ends(h)
    BY <1>1, <2>1, <2>2, <2>4, ReturnSteps DEF Ends
  <2> QED BY <1>5, <2>3, <2>4 DEF OpStep, BodyThrows
<1> QED BY <1>2, <1>3, <1>4, <1>5 DEF CommonStep

LEMMA ProgramSteps ==
  ASSUME ~MayFail, R!IInv, RuntimeInv, BatchInv, BatchStep
  PROVE  BatchInv' /\ [R!Next]_R!vars
<1> USE Names
<1>1. ASSUME NEW c \in Slots, IssuePage(c) PROVE BatchInv' /\ R!Next
  <2>1. Spawn(c) /\ c \in Handles
    BY <1>1 DEF IssuePage
  <2> QED BY <1>1, <2>1, IssueStep, SameClient DEF R!Next
<1>2. CASE AwaitOldest \/ AwaitDrain
  <2>1. \E f \in Slots : AwaitFuture(f) \/ AwaitDone(f)
    <3>1. DequeInv /\ BatchSize > 0
      BY BatchAssumption DEF BatchInv
    <3>2. CASE AwaitOldest
      <4>1. Head(futs).frame \in Slots
        <5>1. Len(futs) \in Nat /\ Len(futs) > 0
          BY <3>1, <3>2, DequeFacts, BatchAssumption DEF AwaitOldest, HasRoom
        <5> QED BY <3>1, <5>1, DequeFacts
      <4> QED BY <3>2, <4>1 DEF AwaitOldest, Await
    <3>3. CASE AwaitDrain
      <4>1. futs[drained + 1].frame \in Slots
        BY <3>1, <3>3, DequeFacts DEF AwaitDrain, DequeInv
      <4> QED BY <3>3, <4>1 DEF AwaitDrain, Await
    <3> QED BY <1>2, <3>2, <3>3
  <2>2. R!ClientStep
    BY <2>1, SameClient
  <2> QED BY <1>2, <2>2, AwaitSteps DEF R!Next
<1>3. CASE PopOldest
  <2>1. Head(futs).frame \in Handles
    BY <1>3, PopFacts
  <2>2. DropFuture(Head(futs).frame)
    BY <1>3 DEF PopOldest
  <2> QED BY <1>3, <2>1, <2>2, PopStep, SameClient DEF R!Next
<1>4. CASE CountDrained
  <2>1. R!vars' = R!vars
    BY <1>4 DEF CountDrained, vars, frameVars, loopVars, fabricVars,
                R!vars, R!frameVars, R!loopVars, R!fabricVars
  <2> QED BY <1>4, <2>1, CountStep
<1>5. CASE EndRound
  BY <1>5, EndStep, EndFacts, SameClient DEF R!Next
<1>6. CASE CommonStep /\ UNCHANGED <<futs, drained>>
  BY <1>6, CommonSteps
<1> QED BY <1>1, <1>2, <1>3, <1>4, <1>5, <1>6 DEF BatchStep

LEMMA NextBatchInv ==
  ASSUME ~MayFail, R!IInv, R!WInv, BatchInv, [BatchNext]_batchVars
  PROVE  BatchInv' /\ [R!Next]_R!vars
<1>1. RuntimeInv
  BY RuntimeFacts
<1>2. CASE BatchStep
  BY <1>1, <1>2, ProgramSteps
<1>3. CASE Background /\ UNCHANGED <<futs, drained>>
  <2>1. UNCHANGED ownVars
    BY <1>3 DEF Background, ownVars
  <2>2. CASE RunNext
    BY <1>1, <2>1, <2>2, ResumeStep, SameLoop DEF LoopStep, R!Next
  <2>3. ~Unwind
    BY <1>1 DEF Unwind, RuntimeInv, NoExceptions
  <2>4. CASE \/ Stop \/ Select \/ SelectError \/ StartBatch \/ EndBatch \/ Nic \/ Tick
             \/ \E h \in Handles : ExpireTimer(h)
    <3>1. UNCHANGED <<point, owner, callee, held>>
      BY <2>4 DEF Stop, Select, SelectError, StartBatch, EndBatch, Nic, Complete,
                  CompleteError, Tick, ExpireTimer, frameVars, loopVars
    <3>2. R!Next
      BY <2>4, SameLoop, SameNic DEF LoopStep, R!Next
    <3> QED BY <2>1, <3>1, <3>2, QuietSteps
  <2> QED BY <1>3, <2>2, <2>3, <2>4 DEF Background, LoopStep
<1>4. CASE UNCHANGED batchVars
  <2>1. UNCHANGED <<point, owner, callee, held>> /\ UNCHANGED ownVars
    BY <1>4 DEF batchVars, vars, frameVars
  <2>2. R!vars' = R!vars
    BY <1>4 DEF batchVars, vars, frameVars, loopVars, fabricVars,
                R!vars, R!frameVars, R!loopVars, R!fabricVars
  <2> QED BY <2>1, <2>2, QuietSteps
<1> QED BY <1>2, <1>3, <1>4 DEF BatchNext

BatchFullInv == R!IInv /\ R!WInv /\ BatchInv

LEMMA BatchInvHolds == ~MayFail => (BatchSpec => []BatchFullInv)
<1> SUFFICES ASSUME ~MayFail PROVE BatchSpec => []BatchFullInv
  OBVIOUS
<1>1. BatchInit => BatchFullInv
  BY InitBatchInv, SameInit, R!InitIInv, R!InitWInv, RuntimeAssumptions
     DEF BatchInit, WriterInit, BatchFullInv
<1>2. BatchFullInv /\ [BatchNext]_batchVars => BatchFullInv'
  <2> SUFFICES ASSUME R!IInv, R!WInv, BatchInv, [BatchNext]_batchVars PROVE BatchFullInv'
    BY DEF BatchFullInv
  <2>1. BatchInv' /\ [R!Next]_R!vars
    BY NextBatchInv
  <2>2. R!IInv'
    BY <2>1, R!NextIInv, RuntimeAssumptions
  <2>3. R!WInv'
    BY <2>1, <2>2, R!NextWInv, RuntimeAssumptions
  <2> QED BY <2>1, <2>2, <2>3 DEF BatchFullInv
<1> QED BY <1>1, <1>2, PTL DEF BatchSpec

-----------------------------------------------------------------------------
(* When no call fails, the writer is one of the programs of LoopClient: it *)
(* returns over futures that are done, and drops only those.               *)
THEOREM RunsOnRuntime == ~MayFail => (BatchSpec => R!Spec)
<1> SUFFICES ASSUME ~MayFail PROVE BatchSpec => R!Spec
  OBVIOUS
<1>1. BatchFullInv /\ [BatchNext]_batchVars => [R!Next]_R!vars
  BY NextBatchInv DEF BatchFullInv
<1>2. BatchInit => R!Init
  BY SameInit DEF BatchInit, WriterInit
<1> QED BY <1>1, <1>2, BatchInvHolds, PTL DEF BatchSpec, R!Spec

(* LoopClient is instantiated twice, here with its theorems: the two       *)
(* instances are the same formula.                                         *)
THEOREM KeepsDiscipline == ~MayFail => (BatchSpec => IsLoopClient)
<1>1. R!Spec => Runtime!Spec
  BY DEF R!Next, Runtime!Next, R!LoopStep, Runtime!LoopStep, R!Stop,
         Runtime!Stop, R!Select, Runtime!Select, R!SelectError,
         Runtime!SelectError, R!ExpireTimer, Runtime!ExpireTimer, R!Expired,
         Runtime!Expired, R!StartBatch, Runtime!StartBatch, R!EndBatch,
         Runtime!EndBatch, R!RunNext, Runtime!RunNext, R!EndsWithAwait,
         Runtime!EndsWithAwait, R!Resumable, Runtime!Resumable, R!Stopped,
         Runtime!Stopped, R!ErrorAtHead, Runtime!ErrorAtHead, R!SetAll,
         Runtime!SetAll, R!Range, Runtime!Range, R!Nic, Runtime!Nic,
         R!Complete, Runtime!Complete, R!CompleteError, Runtime!CompleteError,
         R!Tick, Runtime!Tick, R!ClientStep, Runtime!ClientStep, R!CallAwait,
         Runtime!CallAwait, R!Create, Runtime!Create, R!SuspendOn,
         Runtime!SuspendOn, R!Spawn, Runtime!Spawn, R!AwaitDone,
         Runtime!AwaitDone, R!AwaitFuture, Runtime!AwaitFuture, R!IsFuture,
         Runtime!IsFuture, R!MustCall, Runtime!MustCall, R!DropFuture,
         Runtime!DropFuture, R!SleepAwait, Runtime!SleepAwait, R!PostOp,
         Runtime!PostOp, R!PostRefused, Runtime!PostRefused, R!Throw,
         Runtime!Throw, R!ReturnJoined, Runtime!ReturnJoined, R!Return,
         Runtime!Return, R!Finish, Runtime!Finish, R!Descendants,
         Runtime!Descendants, R!Children, Runtime!Children, R!Continuation,
         Runtime!Continuation, R!Wake, Runtime!Wake, R!Unwind, Runtime!Unwind,
         R!OpenNet, Runtime!OpenNet, R!Active, Runtime!Active, R!Running,
         Runtime!Running, R!Terminating, Runtime!Terminating, R!Ended,
         Runtime!Ended, R!vars, Runtime!vars, R!frameVars, Runtime!frameVars,
         R!loopVars, Runtime!loopVars, R!fabricVars, Runtime!fabricVars,
         R!Init, Runtime!Init, R!Spec, Runtime!Spec
<1> QED BY <1>1, RunsOnRuntime DEF IsLoopClient

(* So what LoopClientProofs proves of the runtime holds while this program *)
(* runs: in particular no destroyed coroutine is ever resumed, which is    *)
(* false of the same program when a call may fail.                         *)
THEOREM RunsSafely ==
  ~MayFail => (BatchSpec => [](R!NoDangling /\ R!QueuedOnce /\ R!NoLostWakeup /\ NoUseAfterFree))
<1> SUFFICES ASSUME ~MayFail
             PROVE  BatchSpec => [](R!NoDangling /\ R!QueuedOnce /\ R!NoLostWakeup /\ NoUseAfterFree)
  OBVIOUS
<1>1. R!Spec => [](R!NoDangling) /\ [](R!QueuedOnce)
  BY R!NothingDangles, R!NeverQueuedTwice, RuntimeAssumptions
<1>2. R!Spec => [](R!NoLostWakeup) /\ [](phase # "undefined")
  BY R!NoWakeupLost, R!NeverUndefined, RuntimeAssumptions
<1> QED BY <1>1, <1>2, RunsOnRuntime, PTL DEF NoUseAfterFree

(* The counter Progress prints is the number of writes issued less those   *)
(* whose future is still to be awaited, at every moment and for every      *)
(* number of pages, rounds and window: no write is lost or counted twice.  *)
(* A write that has completed behind an older one is not counted yet.      *)
THEOREM AwaitedAreCounted == ~MayFail => (BatchSpec => []OpsAccounted)
<1> SUFFICES ASSUME ~MayFail PROVE BatchSpec => []OpsAccounted
  OBVIOUS
<1>1. BatchFullInv => OpsAccounted
  BY DEF BatchFullInv, BatchInv, CountInv, OpsAccounted
<1> QED BY <1>1, BatchInvHolds, PTL

(* The program ends only when every page of every round was counted.       *)
THEOREM EveryPageCounted == ~MayFail => (BatchSpec => []AllWritten)
<1> SUFFICES ASSUME ~MayFail PROVE BatchSpec => []AllWritten
  OBVIOUS
<1>1. BatchFullInv => AllWritten
  <2> SUFFICES ASSUME R!IInv, R!WInv, BatchInv, phase = "stopped"
               PROVE  ops = Repeat * NumPages
    BY DEF BatchFullInv, AllWritten
  <2>1. RuntimeInv
    BY RuntimeFacts
  <2>2. point[Root] = "final" /\ point[WriteOne] = "free"
    BY <2>1, Names DEF RuntimeInv, RuntimeFrames
  <2>3. round = Repeat /\ page = NumPages
    BY <2>2 DEF BatchInv, RoundInv, LoopInv
  <2>4. Len(futs) = 0 /\ drained = 0
    BY <2>1, <2>2, SlotsInLoop DEF BatchInv, DequeInv
  <2>5. ops + (Len(futs) - drained) = IF Repeat = 0 THEN 0 ELSE (Repeat - 1) * NumPages + NumPages
    BY <2>3 DEF BatchInv, CountInv
  <2>6. ops \in Nat
    BY DEF BatchInv, CountInv
  <2> QED BY <2>4, <2>5, <2>6, WriterAssumption
<1> QED BY <1>1, BatchInvHolds, PTL

(* r rounds of n pages, the last of them after p pages, are at most R      *)
(* rounds.                                                                 *)
LEMMA OpsInRange ==
  ASSUME NEW r \in 0 .. Repeat, NEW p \in 0 .. NumPages
  PROVE  (IF r = 0 THEN 0 ELSE (r - 1) * NumPages + p) \in 0 .. Repeat * NumPages
<1> USE WriterAssumption
<1>1. Repeat * NumPages \in Nat
  OBVIOUS
<1>2. CASE r # 0
  <2>1. (r - 1) * NumPages \in Nat /\ (r - 1) * NumPages + NumPages = r * NumPages
    BY <1>2
  <2>2. (Repeat - r) * NumPages \in Nat
    OBVIOUS
  <2>3. (Repeat - r) * NumPages + r * NumPages = Repeat * NumPages
    OBVIOUS
  <2> QED BY <1>1, <1>2, <2>1, <2>2, <2>3
<1> QED BY <1>1, <1>2

(* Every variable has its type; in particular the deque never holds more   *)
(* than BatchSize futures, and Progress never counts more writes than were *)
(* asked for.                                                              *)
THEOREM BatchTypeCorrect == ~MayFail => (BatchSpec => []BatchTypeOK)
<1> SUFFICES ASSUME ~MayFail PROVE BatchSpec => []BatchTypeOK
  OBVIOUS
<1>1. BatchFullInv => BatchTypeOK
  <2> SUFFICES ASSUME BatchInv PROVE BatchTypeOK
    BY DEF BatchFullInv
  <2>1. /\ round \in 0 .. Repeat /\ page \in 0 .. NumPages /\ ops \in Nat
        /\ drained \in 0 .. Len(futs) /\ Len(futs) \in Nat
        /\ ops + (Len(futs) - drained) = IF round = 0 THEN 0 ELSE (round - 1) * NumPages + page
    BY DequeFacts DEF BatchInv, CountInv, DequeInv
  <2>2. (IF round = 0 THEN 0 ELSE (round - 1) * NumPages + page) \in 0 .. Repeat * NumPages
    BY <2>1, OpsInRange
  <2>3. Repeat * NumPages \in Nat
    BY WriterAssumption
  <2>4. ops \in 0 .. Repeat * NumPages
    BY <2>1, <2>2, <2>3
  <2>5. WriterTypeOK
    BY <2>1, <2>4 DEF WriterTypeOK, BatchInv, FrameInv, StageInv
  <2> QED BY <2>5 DEF BatchTypeOK, BatchInv, DequeInv, Fut
<1> QED BY <1>1, BatchInvHolds, PTL

-----------------------------------------------------------------------------
(* The writer keeps the promise of WriteWindow.  A page of the deque is as *)
(* far as the frame that writes it; the pages before are done.             *)
Opened(f) == stage[f] = "post" /\ point[f] \in {"initial", "running"}

OnWire(f) == point[f] = "op" /\ f \notin Range(cq) \cup Range(ready)

Work(f) == IF Opened(f) THEN "open" ELSE IF OnWire(f) THEN "wire" ELSE "done"

Status == [p \in 0 .. NumPages - 1 |-> PageStatus(p)]

FrameAt(p) == futs[p - (page - Len(futs)) + 1].frame

StatusOf(p) == IF p >= page THEN "todo"
               ELSE IF p < page - Len(futs) THEN "done"
               ELSE Work(FrameAt(p))

StatusShape == Status = [p \in 0 .. NumPages - 1 |-> StatusOf(p)]

LEMMA StatusFacts == BatchInv => StatusShape
<1> SUFFICES ASSUME BatchInv, NEW p \in 0 .. NumPages - 1
             PROVE  PageStatus(p) = StatusOf(p)
  BY DEF StatusShape, Status
<1> DEFINE i == p - (page - Len(futs)) + 1
<1>1. DequeInv /\ page \in 0 .. NumPages /\ Len(futs) \in Nat
  BY DequeFacts DEF BatchInv, CountInv
<1>2. /\ p \in Int /\ page \in Int /\ DOMAIN futs = 1 .. Len(futs)
  BY <1>1, WriterAssumption, LenProperties DEF DequeInv
<1>3. CASE p >= page
  BY <1>2, <1>3 DEF PageStatus, StatusOf
<1>4. CASE ~(p >= page) /\ p < page - Len(futs)
  <2>1. \A f \in Slots : ~HoldsPage(p, f)
    <3> SUFFICES ASSUME NEW f \in Slots, NEW j \in 1 .. Len(futs),
                        futs[j] = [frame |-> f, page |-> p]
                 PROVE  FALSE
      BY <1>2 DEF HoldsPage
    <3>1. futs[j].page = p /\ futs[j].page = page - Len(futs) + j - 1
      BY <1>1 DEF DequeInv, HoldsLastPages
    <3> QED BY <1>1, <1>2, <1>4, <3>1
  <2> QED BY <1>4, <2>1 DEF PageStatus, StatusOf
<1>5. CASE ~(p >= page) /\ ~(p < page - Len(futs))
  <2>1. i \in 1 .. Len(futs)
    BY <1>1, <1>2, <1>5
  <2>2. futs[i] \in Fut /\ futs[i].page = page - Len(futs) + i - 1
    BY <1>1, <2>1, DequeFacts DEF DequeInv, HoldsLastPages
  <2>3. futs[i].page = p
    BY <1>1, <1>2, <2>2
  <2>4. futs[i] = [frame |-> FrameAt(p), page |-> p] /\ FrameAt(p) \in Slots
    BY <2>2, <2>3 DEF Fut, FrameAt
  <2>5. HoldsPage(p, FrameAt(p))
    BY <1>2, <2>1, <2>4 DEF HoldsPage
  <2>6. \A f \in Slots : HoldsPage(p, f) => f = FrameAt(p)
    <3> SUFFICES ASSUME NEW f \in Slots, NEW j \in 1 .. Len(futs),
                        futs[j] = [frame |-> f, page |-> p]
                 PROVE  f = FrameAt(p)
      BY <1>2 DEF HoldsPage
    <3>1. futs[j].page = p /\ futs[j].page = page - Len(futs) + j - 1 /\ futs[j].frame = f
      BY <1>1 DEF DequeInv, HoldsLastPages
    <3>2. j = i
      BY <1>1, <1>2, <3>1
    <3> QED BY <3>1, <3>2 DEF FrameAt
  <2> HIDE DEF i
  <2> DEFINE O == \E f \in Slots : /\ HoldsPage(p, f)
                                  /\ stage[f] = "post"
                                  /\ point[f] \in {"initial", "running"}
             W == \E f \in Slots : /\ HoldsPage(p, f)
                                  /\ point[f] = "op"
                                  /\ f \notin Range(cq) \cup Range(ready)
  <2>7. O <=> Opened(FrameAt(p))
    BY <2>4, <2>5, <2>6 DEF Opened
  <2>8. W <=> OnWire(FrameAt(p))
    BY <2>4, <2>5, <2>6 DEF OnWire
  <2>9. PageStatus(p) = IF O THEN "open" ELSE IF W THEN "wire" ELSE "done"
    BY <1>5 DEF PageStatus
  <2> HIDE DEF O, W
  <2> QED BY <1>5, <2>7, <2>8, <2>9 DEF StatusOf, Work
<1> QED BY <1>3, <1>4, <1>5

LEMMA NextStatus == BatchInv' => StatusShape'
BY StatusFacts, PTL

(* The place of a page in the deque.                                       *)
LEMMA PageInDeque ==
  ASSUME BatchInv, NEW p \in 0 .. NumPages - 1, p < page, ~(p < page - Len(futs))
  PROVE  /\ p - (page - Len(futs)) + 1 \in 1 .. Len(futs)
         /\ FrameAt(p) \in Slots /\ point[FrameAt(p)] # "free"
<1>1. DequeInv /\ page \in 0 .. NumPages /\ Len(futs) \in Nat
  BY DequeFacts DEF BatchInv, CountInv
<1>2. p - (page - Len(futs)) + 1 \in 1 .. Len(futs)
  BY <1>1, WriterAssumption
<1> QED BY <1>1, <1>2, DequeFacts DEF FrameAt, DequeInv, HoldsAllocated

(* Steps that change no deque and no slot's work.                          *)
LEMMA StatusStays ==
  ASSUME BatchInv, BatchInv', UNCHANGED <<page, futs>>,
         \A f \in Slots : point[f] # "free" => Work(f)' = Work(f)
  PROVE  Status' = Status
<1>1. StatusShape /\ StatusShape'
  BY StatusFacts, NextStatus
<1>2. ASSUME NEW p \in 0 .. NumPages - 1 PROVE StatusOf(p)' = StatusOf(p)
  <2>1. FrameAt(p)' = FrameAt(p)
    BY DEF FrameAt
  <2>2. CASE p >= page \/ p < page - Len(futs)
    BY <2>2 DEF StatusOf
  <2>3. CASE ~(p >= page) /\ ~(p < page - Len(futs))
    <3>1. FrameAt(p) \in Slots /\ point[FrameAt(p)] # "free"
      BY <2>3, PageInDeque, WriterAssumption DEF BatchInv, CountInv
    <3>2. Work(FrameAt(p))' = Work(FrameAt(p))
      BY <2>1, <3>1 DEF Work, Opened, OnWire
    <3> QED BY <2>1, <2>3, <3>2 DEF StatusOf
  <2> QED BY <2>2, <2>3
<1> QED BY <1>1, <1>2 DEF StatusShape

(* Steps that change the work of one slot.                                 *)
LEMMA StatusMoves ==
  ASSUME BatchInv, BatchInv', UNCHANGED <<page, futs>>, NEW f \in Slots, point[f] # "free",
         \A g \in Slots \ {f} : Work(g)' = Work(g)
  PROVE  \E p \in 0 .. NumPages - 1 :
           Status[p] = Work(f) /\ Status' = [Status EXCEPT ![p] = Work(f)']
<1>1. StatusShape /\ StatusShape'
  BY StatusFacts, NextStatus
<1>2. DequeInv /\ page \in 0 .. NumPages /\ Len(futs) \in Nat
  BY DequeFacts DEF BatchInv, CountInv
<1>3. PICK i \in 1 .. Len(futs) : futs[i].frame = f
  BY <1>2 DEF DequeInv, HoldsAll
<1>4. PICK p \in 0 .. NumPages - 1 : p = page - Len(futs) + i - 1
  <2>1. futs[i] \in Fut /\ futs[i].page = page - Len(futs) + i - 1
    BY <1>2, <1>3, DequeFacts DEF DequeInv, HoldsLastPages
  <2> QED BY <2>1 DEF Fut
<1>5. FrameAt(p) = f /\ ~(p >= page) /\ ~(p < page - Len(futs))
  <2>1. p - (page - Len(futs)) + 1 = i
    BY <1>2, <1>3, <1>4
  <2>2. ~(p >= page) /\ ~(p < page - Len(futs))
    BY <1>2, <1>3, <1>4
  <2> QED BY <1>3, <2>1, <2>2 DEF FrameAt
<1>6. ASSUME NEW q \in 0 .. NumPages - 1, q # p PROVE StatusOf(q)' = StatusOf(q)
  <2>1. FrameAt(q)' = FrameAt(q)
    BY DEF FrameAt
  <2>2. CASE q >= page \/ q < page - Len(futs)
    BY <2>2 DEF StatusOf
  <2>3. CASE ~(q >= page) /\ ~(q < page - Len(futs))
    <3>1. FrameAt(q) \in Slots /\ q - (page - Len(futs)) + 1 \in 1 .. Len(futs)
      BY <1>2, <2>3, PageInDeque, WriterAssumption
    <3>2. q - (page - Len(futs)) + 1 # i
      <4>1. q \in Int /\ p \in Int /\ i \in Int /\ page \in Int /\ Len(futs) \in Int
        BY <1>2, <1>3, <1>4, WriterAssumption
      <4>2. i = p - (page - Len(futs)) + 1 /\ q # p
        BY <1>2, <1>3, <1>4, <1>6
      <4> QED BY ONLY <4>1, <4>2
    <3>3. FrameAt(q) # f
      BY <1>2, <1>3, <3>1, <3>2 DEF FrameAt, DequeInv, HoldsOnce
    <3>4. Work(FrameAt(q))' = Work(FrameAt(q))
      BY <2>1, <3>1, <3>3 DEF Work, Opened, OnWire
    <3> QED BY <2>1, <2>3, <3>4 DEF StatusOf
  <2> QED BY <2>2, <2>3
<1>7. Status[p] = Work(f)
  BY <1>1, <1>4, <1>5 DEF StatusShape, StatusOf
<1>8. StatusOf(p)' = Work(f)'
  <2>1. FrameAt(p)' = f
    BY <1>5 DEF FrameAt
  <2>2. Work(FrameAt(p))' = Work(f)'
    BY <2>1 DEF Work, Opened, OnWire
  <2> QED BY <1>5, <2>2 DEF StatusOf
<1>9. Status' = [Status EXCEPT ![p] = Work(f)']
  BY <1>1, <1>4, <1>6, <1>8 DEF StatusShape
<1> QED BY <1>4, <1>7, <1>9

(* Reading the completion queue moves entries to the deque; the writer is  *)
(* told of a completion when its handle is queued, not when it runs.       *)
LEMMA LoopWork ==
  ASSUME RuntimeInv, RuntimeInv', BatchInv, UNCHANGED ownVars,
         \/ Stop \/ Select \/ SelectError \/ StartBatch \/ EndBatch \/ Tick
         \/ \E h \in Handles : ExpireTimer(h)
  PROVE  \A f \in Slots : Work(f)' = Work(f)
<1>1. PostedInv
  BY DEF BatchInv, FrameInv
<1>2. UNCHANGED point
  BY DEF Stop, Select, SelectError, StartBatch, EndBatch, Tick, ExpireTimer, frameVars
<1>3. Range(cq') \cup Range(ready') = Range(cq) \cup Range(ready)
  <2>1. CASE Select
    <3> DEFINE n == IF ~polling THEN 0
                    ELSE IF Len(cq) < MaxCQEntries THEN Len(cq) ELSE MaxCQEntries
               events == SubSeq(cq, 1, n)
               rest == SubSeq(cq, n + 1, Len(cq))
    <3>1. cq \in Seq(Handles) /\ ready \in Seq(Handles) /\ Len(cq) \in Nat
      BY LenProperties DEF RuntimeInv, RuntimeTypes
    <3>2. n \in 0 .. Len(cq)
      BY <3>1, LoopAssumption
    <3>3. phase' # "undefined"
      BY DEF RuntimeInv, RuntimeQueues
    <3>4. cq' = rest /\ ready' = ready \o events
      BY <2>1, <3>3 DEF Select
    <3> HIDE DEF n
    <3>5. /\ events \in Seq(Handles) /\ rest \in Seq(Handles)
          /\ Range(events) \subseteq Range(cq) /\ Range(rest) \subseteq Range(cq)
          /\ Range(cq) \subseteq Range(events) \cup Range(rest)
      BY <3>1, <3>2, ReadFront
    <3> HIDE DEF events, rest
    <3>6. Range(ready') = Range(ready) \cup Range(events)
      BY <3>1, <3>4, <3>5, PushAll
    <3> QED BY <3>4, <3>5, <3>6
  <2>2. CASE \E h \in Handles : ExpireTimer(h)
    <3>1. PICK h \in Handles : ExpireTimer(h)
      BY <2>2
    <3>2. point[h] = "timer"
      BY <3>1 DEF ExpireTimer, Expired, RuntimeInv, RuntimeQueues
    <3> QED BY <3>2, <1>1 DEF PostedInv
  <2>3. CASE Stop \/ SelectError \/ StartBatch \/ EndBatch \/ Tick
    BY <2>3 DEF Stop, SelectError, StartBatch, EndBatch, Tick, fabricVars
  <2> QED BY <2>1, <2>2, <2>3
<1> QED BY <1>2, <1>3 DEF Work, Opened, OnWire, ownVars, writerVars

(* A write is completed when its entry joins the queue.  Behind an error   *)
(* entry it is lost, and stays on the wire.                                *)
LEMMA NicWork ==
  ASSUME RuntimeInv, BatchInv, UNCHANGED ownVars,
         NEW h \in Handles, Complete(h) \/ CompleteError(h)
  PROVE  /\ point[h] = "op"
         /\ \A f \in Slots \ {h} : Work(f)' = Work(f)
         /\ Work(h)' # Work(h) => (Work(h) = "wire" /\ Work(h)' = "done")
<1>1. /\ point[h] = "op" /\ h \notin Range(ready) /\ h \notin Range(cq)
      /\ UNCHANGED <<point, ready>>
  BY DEF Complete, CompleteError, frameVars, loopVars, RuntimeInv, RuntimeQueues
<1>2. UNCHANGED stage
  BY DEF ownVars, writerVars
<1>3. CASE cq' = Append(cq, h)
  <2>1. Range(cq') = Range(cq) \cup {h}
    BY <1>3, PushBack DEF RuntimeInv, RuntimeTypes
  <2> QED BY <1>1, <1>2, <2>1 DEF Work, Opened, OnWire
<1>4. CASE UNCHANGED cq
  BY <1>1, <1>2, <1>4 DEF Work, Opened, OnWire
<1> QED BY <1>3, <1>4 DEF Complete, CompleteError

(* Resuming a frame does not change how far a write has come.              *)
LEMMA ResumeWork ==
  ASSUME RuntimeInv, BatchInv, UNCHANGED ownVars, RunNext
  PROVE  \A f \in Slots : Work(f)' = Work(f)
<1> USE Names
<1>1. PICK h \in Handles : Resumes(h)
  BY RunNextEffect
<1>2. FrameInv /\ UNCHANGED <<cq, stage>>
  BY <1>1 DEF BatchInv, ownVars, writerVars, Resumes
<1>3. \A f \in Slots \ {h} : point'[f] = point[f]
  <2>1. CASE UNCHANGED owner
    BY <1>1, <2>1 DEF Resumes, RuntimeInv, RuntimeTypes, RuntimeFrames
  <2>2. CASE /\ point[h] = "child" /\ held[callee[h]] = "temporary" /\ point[callee[h]] = "final"
             /\ point' = [point EXCEPT ![h] = "running", ![callee[h]] = "free"]
    <3>1. callee[h] \in Handles \ Slots
      BY <1>2, <2>2 DEF RuntimeInv, RuntimeFrames, FrameInv, HeldInv
    <3> QED BY <2>2, <3>1 DEF RuntimeInv, RuntimeTypes
  <2> QED BY <1>1, <2>1, <2>2 DEF Resumes
<1>4. \A f \in Slots \ {h} : Work(f)' = Work(f)
  <2>1. \A f \in Slots \ {h} : f \in Range(ready') <=> f \in Range(ready)
    BY <1>1 DEF Resumes
  <2> QED BY <1>2, <1>3, <2>1 DEF Work, Opened, OnWire
<1>5. ASSUME h \in Slots PROVE Work(h)' = Work(h)
  <2>1. point[h] \in Resumable /\ point'[h] = "running" /\ h \in Range(ready)
    BY <1>1 DEF Resumes, RuntimeInv, RuntimeTypes, RuntimeFrames, Resumable
  <2>2. point[h] # "child"
    <3>1. ASSUME point[h] = "child" PROVE FALSE
      <4>1. callee[h] \in Handles /\ owner[callee[h]] = h
        BY <3>1 DEF RuntimeInv, RuntimeFrames
      <4>2. Caller(callee[h]) = h
        BY <1>2, <4>1 DEF FrameInv, OwnersInv
      <4> QED BY <1>5, <4>2 DEF Caller
    <3> QED BY <3>1
  <2>3. CASE point[h] = "initial"
    <3>1. stage[h] = "post"
      BY <1>2, <1>5, <2>3 DEF FrameInv, FreshInv, Entry
    <3> QED BY <1>2, <2>1, <2>3, <3>1 DEF Work, Opened
  <2>4. CASE point[h] # "initial"
    <3>1. point[h] = "op" /\ stage[h] = "posted"
      BY <1>2, <2>1, <2>2, <2>4 DEF FrameInv, PostedInv, Resumable
    <3> QED BY <1>2, <2>1, <3>1 DEF Work, Opened, OnWire
  <2> QED BY <2>3, <2>4
<1> QED BY <1>4, <1>5

(* What the steps of the program do to the promise.                        *)
Stutters == UNCHANGED <<round, Status>>

AllPagesDone == Status = [p \in 0 .. NumPages - 1 |-> "done"]

Idle == page = NumPages /\ futs = <<>>

LEMMA AllDone == BatchInv /\ Idle => AllPagesDone
<1> SUFFICES ASSUME BatchInv, page = NumPages, futs = <<>> PROVE AllPagesDone
  BY DEF Idle
<1>1. Len(futs) = 0 /\ StatusShape
  BY StatusFacts
<1>2. \A p \in 0 .. NumPages - 1 : StatusOf(p) = "done"
  BY <1>1, WriterAssumption DEF StatusOf
<1> QED BY <1>1, <1>2 DEF StatusShape, AllPagesDone

LEMMA NextAllDone == BatchInv' /\ Idle' => AllPagesDone'
BY AllDone, PTL

(* StartWriter, Handshake, Conn::Recv and the end of Write write no page.  *)
LEMMA IdleSteps ==
  ASSUME RuntimeInv, BatchInv, BatchInv', UNCHANGED <<futs, drained>>,
         \/ StartWriter
         \/ HandshakeStep
         \/ OpStep(Recv)
         \/ At(Write, "loop") /\ Ends(Write) /\ UNCHANGED <<round, page, ops>>
  PROVE  Stutters
<1>1. cur \in {Root, Handshake, Recv, Write} /\ UNCHANGED <<round, page>>
  BY Names DEF StartWriter, OpenPeer, HandshakeStep, OpStep, At
<1>2. page = NumPages /\ futs = <<>>
  BY <1>1, IdleWriter
<1>3. Idle /\ Idle'
  BY <1>1, <1>2 DEF Idle
<1> QED BY <1>1, <1>3, AllDone, NextAllDone DEF Stutters, AllPagesDone

(* WriteStep starts a round when every page of the last one is written.    *)
LEMMA RoundStarts ==
  ASSUME RuntimeInv, BatchInv, BatchInv', At(Write, "loop"), page' = 0
  PROVE  /\ \A p \in 0 .. NumPages - 1 : Status[p] = "done"
         /\ Status' = [p \in 0 .. NumPages - 1 |-> "todo"]
<1>1. page = NumPages /\ futs = <<>>
  BY IdleWriter DEF At
<1>2. \A p \in 0 .. NumPages - 1 : Status[p] = "done"
  BY <1>1, AllDone DEF Idle, AllPagesDone
<1>3. StatusShape'
  BY NextStatus
<1>4. \A p \in 0 .. NumPages - 1 : StatusOf(p)' = "todo"
  BY WriterAssumption DEF StatusOf
<1> QED BY <1>2, <1>3, <1>4 DEF StatusShape

(* A slot posts its write, and returns when it was resumed.                *)
LEMMA SlotSteps ==
  ASSUME ~MayFail, R!IInv, RuntimeInv, BatchInv, BatchInv', UNCHANGED <<futs, drained>>,
         NEW f \in Slots, OpStep(f)
  PROVE  /\ round' = round
         /\ \/ Stutters
            \/ \E p \in 0 .. NumPages - 1 :
                 Status[p] = "open" /\ Status' = [Status EXCEPT ![p] = "wire"]
<1> USE Names
<1>1. f \in Handles \ {Root, WriteOne} /\ UNCHANGED <<round, page, ops>> /\ cur = f
  BY DEF OpStep, At
<1>2. Running
  BY <1>1 DEF OpStep, PostOp, Ends, Return, BodyThrows, Active
<1>3. point[f] = "running" /\ FrameInv
  BY <1>1, <1>2, ActiveFacts DEF BatchInv
<1>4. CASE stage[f] = "post" /\ PostOp /\ Goto(f, "posted")
  <2>1. /\ point'[f] = "op" /\ \A x \in Handles \ {f} : point'[x] = point[x]
        /\ UNCHANGED <<cq, ready>>
        /\ stage'[f] = "posted" /\ \A x \in Handles \ {f} : stage'[x] = stage[x]
    BY <1>1, <1>3, <1>4 DEF PostOp, RuntimeInv, RuntimeTypes, Goto, FrameInv, StageInv
  <2>2. f \notin Range(cq) \cup Range(ready)
    BY <1>3 DEF RuntimeInv, RuntimeQueues, Resumable
  <2>3. Work(f) = "open" /\ Work(f)' = "wire"
    BY <1>3, <1>4, <2>1, <2>2 DEF Work, Opened, OnWire
  <2>4. \A g \in Slots \ {f} : Work(g)' = Work(g)
    BY <2>1 DEF Work, Opened, OnWire
  <2>5. \E p \in 0 .. NumPages - 1 :
          Status[p] = Work(f) /\ Status' = [Status EXCEPT ![p] = Work(f)']
    BY <1>1, <1>3, <2>4, StatusMoves
  <2> QED BY <1>1, <2>3, <2>5
<1>5. CASE stage[f] = "posted" /\ Ends(f)
  <2>1. Finish("value") /\ Children(cur) = {} /\ "value" \in Results
    BY <1>1, <1>2, <1>5, OnlyFuturesLeft DEF Ends, Return, Results
  <2>2. /\ point'[f] = "final" /\ \A x \in Handles \ {f} : point'[x] = point[x]
        /\ UNCHANGED cq
        /\ \A x \in Handles : point[x] # "child" => (x \in Range(ready') <=> x \in Range(ready))
    BY <1>1, <1>2, <2>1, FinishEffect
  <2>3. \A x \in Handles \ {f} : stage'[x] = stage[x]
    BY <1>1, <1>3, <1>5 DEF Ends, Goto, FrameInv, StageInv
  <2>4. Work(f) = "done" /\ Work(f)' = "done"
    BY <1>3, <1>5, <2>2 DEF Work, Opened, OnWire
  <2>5. ASSUME NEW g \in Slots \ {f} PROVE Work(g)' = Work(g)
    BY <2>2, <2>3 DEF Work, Opened, OnWire
  <2> QED BY <1>1, <2>4, <2>5, StatusStays DEF Stutters
<1>6. OpStep(f) => \/ stage[f] = "post" /\ PostOp /\ Goto(f, "posted")
                   \/ stage[f] = "posted" /\ Ends(f)
  BY DEF OpStep, At, BodyThrows
<1> QED BY <1>4, <1>5, <1>6

(* Issuing a page opens it: its slot is new, at the end of the deque.      *)
LEMMA PageOpens ==
  ASSUME RuntimeInv, BatchInv, BatchInv', NEW c \in Slots, IssuePage(c)
  PROVE  /\ page \in 0 .. NumPages - 1 /\ round' = round
         /\ Status[page] = "todo"
         /\ \A q \in 0 .. page - 1 : Status[q] # "todo"
         /\ Status' = [Status EXCEPT ![page] = "open"]
<1> USE Names
<1>1. /\ page \in 0 .. NumPages - 1 /\ page' = page + 1 /\ UNCHANGED <<round, stage, cq>>
      /\ ready' = Append(ready, c)
  BY WriterAssumption DEF IssuePage, BatchInv, CountInv, Spawn, fabricVars
<1>2. IssueEffect(c) /\ DequeInv /\ FrameInv /\ Len(futs) \in Nat
  BY IssueFacts, DequeFacts DEF BatchInv
<1>3. /\ Len(futs') = Len(futs) + 1
      /\ \A i \in 1 .. Len(futs) : futs'[i] = futs[i]
      /\ futs'[Len(futs) + 1] = [frame |-> c, page |-> page]
  BY IssueDeque
<1>4. StatusShape /\ StatusShape'
  BY StatusFacts, NextStatus
<1>5. page' - Len(futs') = page - Len(futs) /\ page \in Int /\ page <= NumPages - 1
  BY <1>1, <1>2, <1>3, WriterAssumption
<1>6. \A g \in Slots \ {c} : Work(g)' = Work(g)
  <2>1. Range(ready') = Range(ready) \cup {c}
    BY <1>1, PushBack DEF RuntimeInv, RuntimeTypes
  <2> QED BY <1>1, <1>2, <2>1 DEF Work, Opened, OnWire, IssueEffect
<1>7. Work(c)' = "open"
  <2>1. stage[c] = "post"
    BY <1>2 DEF FrameInv, FreshInv, Entry, IssueEffect
  <2> QED BY <1>1, <1>2, <2>1 DEF Work, Opened, IssueEffect
<1> PICK m \in 0 .. NumPages - 1 : m = page
  BY <1>1
<1>8. StatusOf(m)' = "open"
  <2>1. m - (page' - Len(futs')) + 1 = Len(futs) + 1
    BY <1>2, <1>5
  <2>2. FrameAt(m)' = c
    BY <1>3, <2>1 DEF FrameAt
  <2>3. Work(FrameAt(m))' = "open"
    BY <1>7, <2>2 DEF Work, Opened, OnWire
  <2>4. ~(m >= page') /\ ~(m < page' - Len(futs'))
    BY <1>1, <1>2, <1>5
  <2> QED BY <2>3, <2>4 DEF StatusOf
<1>9. ASSUME NEW p \in 0 .. NumPages - 1, p # m PROVE StatusOf(p)' = StatusOf(p)
  <2>1. p \in Int /\ (p >= page' <=> p >= page) /\ (p < page' - Len(futs') <=> p < page - Len(futs))
    BY <1>1, <1>5, <1>9, WriterAssumption
  <2>2. CASE p >= page \/ p < page - Len(futs)
    BY <1>1, <2>1, <2>2 DEF StatusOf
  <2>3. CASE ~(p >= page) /\ ~(p < page - Len(futs))
    <3>1. /\ p - (page - Len(futs)) + 1 \in 1 .. Len(futs)
          /\ FrameAt(p) \in Slots \ {c}
      BY <1>2, <1>5, <2>1, <2>3, PageInDeque DEF IssueEffect
    <3>2. FrameAt(p)' = FrameAt(p)
      BY <1>3, <1>5, <3>1 DEF FrameAt
    <3>3. Work(FrameAt(p))' = Work(FrameAt(p))
      BY <1>6, <3>1, <3>2 DEF Work, Opened, OnWire
    <3> QED BY <2>1, <2>3, <3>2, <3>3 DEF StatusOf
  <2> QED BY <2>2, <2>3
<1>10. Status[page] = "todo"
  BY <1>1, <1>4, <1>5 DEF StatusShape, StatusOf
<1>11. \A q \in 0 .. page - 1 : Status[q] # "todo"
  <2> SUFFICES ASSUME NEW q \in 0 .. page - 1 PROVE StatusOf(q) # "todo" /\ q \in 0 .. NumPages - 1
    BY <1>4 DEF StatusShape
  <2>1. ~(q >= page) /\ q \in 0 .. NumPages - 1
    BY <1>1, <1>5, WriterAssumption
  <2> QED BY <2>1 DEF StatusOf, Work
<1>12. Status' = [Status EXCEPT ![page] = "open"]
  BY <1>1, <1>4, <1>8, <1>9 DEF StatusShape
<1> QED BY <1>1, <1>10, <1>11, <1>12

(* The pages whose writes are open are in the deque.                       *)
LEMMA OpenInDeque ==
  ASSUME BatchInv
  PROVE  /\ Promise!Cardinality(Promise!Outstanding) \in Nat
         /\ Promise!Cardinality(Promise!Outstanding) <= Len(futs)
<1> DEFINE O == Promise!Outstanding
           I == page - Len(futs) .. page - 1
<1>1. StatusShape /\ page \in 0 .. NumPages /\ Len(futs) \in Nat
  BY StatusFacts, DequeFacts DEF BatchInv, CountInv
<1>2. page \in Int /\ page - Len(futs) \in Int /\ page - 1 \in Int
  BY <1>1, WriterAssumption
<1>3. O \subseteq I
  <2> SUFFICES ASSUME NEW p \in 0 .. NumPages - 1, Status[p] \in {"open", "wire"}
               PROVE  p \in I
    BY DEF Promise!Outstanding, Promise!Pages, Status
  <2>1. StatusOf(p) \notin {"todo", "done"}
    BY <1>1 DEF StatusShape
  <2>2. ~(p >= page) /\ ~(p < page - Len(futs)) /\ p \in Int
    BY <2>1, WriterAssumption DEF StatusOf
  <2> QED BY <1>2, <2>2
<1>4. IsFiniteSet(I) /\ Cardinality(I) <= Len(futs)
  <2> DEFINE a == page - Len(futs)
             b == page - 1
  <2>1. a \in Int /\ b \in Int /\ b - a + 1 = Len(futs)
    BY <1>1, <1>2
  <2> HIDE DEF a, b
  <2>2. IsFiniteSet(a .. b) /\ Cardinality(a .. b) = IF a > b THEN 0 ELSE b - a + 1
    BY <2>1, FS_Interval
  <2>3. IsFiniteSet(a .. b) /\ Cardinality(a .. b) <= Len(futs)
    BY <1>1, <2>1, <2>2
  <2> QED BY <2>3 DEF a, b
<1> HIDE DEF O, I
<1>5. Cardinality(O) <= Cardinality(I) /\ Cardinality(O) \in Nat /\ Cardinality(I) \in Nat
  BY <1>3, <1>4, FS_Subset, FS_CardinalityType
<1>6. Promise!Cardinality(O) = Cardinality(O)
  BY DEF Promise!Cardinality, Cardinality
<1> QED BY <1>1, <1>4, <1>5, <1>6 DEF O

(* Awaiting a future and counting it do not change how far a write is.     *)
LEMMA AwaitStutters ==
  ASSUME RuntimeInv, BatchInv, BatchInv', AwaitOldest \/ AwaitDrain
  PROVE  Stutters
<1>1. /\ UNCHANGED <<round, page, futs, ready, cq>>
      /\ \A x \in Slots : point'[x] = point[x] /\ stage'[x] = stage[x]
  BY AwaitSteps, Names
<1>2. \A f \in Slots : Work(f)' = Work(f)
  BY <1>1 DEF Work, Opened, OnWire
<1> QED BY <1>1, <1>2, StatusStays DEF Stutters

LEMMA CountStutters ==
  ASSUME RuntimeInv, BatchInv, BatchInv', CountDrained
  PROVE  Stutters
<1>1. UNCHANGED <<round, page, futs, ready, cq, point>>
  BY DEF CountDrained, vars, frameVars, loopVars, fabricVars
<1>2. \A x \in Slots : stage'[x] = stage[x]
  BY CountStep, Names
<1>3. \A f \in Slots : Work(f)' = Work(f)
  BY <1>1, <1>2 DEF Work, Opened, OnWire
<1> QED BY <1>1, <1>3, StatusStays DEF Stutters

(* The page whose future is popped was done.                               *)
LEMMA PopStutters ==
  ASSUME RuntimeInv, BatchInv, BatchInv', PopOldest
  PROVE  Stutters
<1> USE Names
<1>1. /\ page < NumPages /\ Len(futs) \in Nat \ {0}
      /\ futs[1].frame \in Slots /\ DropEffect(futs[1].frame)
      /\ Len(futs') = Len(futs) - 1
      /\ \A i \in 1 .. Len(futs') : futs'[i] = futs[i + 1]
  BY PopFacts
<1>2. UNCHANGED <<round, page>> /\ page \in 0 .. NumPages /\ page \in Int /\ DequeInv
  BY WriterAssumption DEF PopOldest, BatchInv, CountInv
<1>3. StatusShape /\ StatusShape' /\ \A x \in Handles \ {WriteOne} : stage'[x] = stage[x]
  BY StatusFacts, NextStatus, PopStep
<1>4. \A g \in Slots \ {futs[1].frame} : Work(g)' = Work(g)
  BY <1>1, <1>3 DEF Work, Opened, OnWire, DropEffect
<1>5. Work(futs[1].frame) = "done"
  BY <1>1 DEF Work, Opened, OnWire, DropEffect
<1>6. ASSUME NEW p \in 0 .. NumPages - 1 PROVE StatusOf(p)' = StatusOf(p)
  <2>0. Len(futs) \in Int /\ page - Len(futs) \in Int
    BY <1>1, <1>2
  <2>1. p \in Int
    BY WriterAssumption
  <2>2. CASE p >= page
    BY <1>2, <2>2 DEF StatusOf
  <2>3. CASE ~(p >= page) /\ p < page - Len(futs)
    <3>1. p < page' - Len(futs')
      BY <1>1, <1>2, <2>1, <2>3
    <3> QED BY <1>2, <2>3, <3>1 DEF StatusOf
  <2>4. CASE ~(p >= page) /\ p = page - Len(futs)
    <3>1. p < page' - Len(futs') /\ ~(p < page - Len(futs))
      BY <1>1, <1>2, <2>1, <2>4
    <3>2. FrameAt(p) = futs[1].frame
      <4>1. p - (page - Len(futs)) + 1 = 1
        BY <1>1, <1>2, <2>1, <2>4
      <4> QED BY <4>1 DEF FrameAt
    <3> QED BY <1>2, <1>5, <2>4, <3>1, <3>2 DEF StatusOf
  <2>5. CASE ~(p >= page) /\ p > page - Len(futs)
    <3>1. ~(p < page' - Len(futs')) /\ ~(p < page - Len(futs))
      BY <1>1, <1>2, <2>1, <2>5
    <3>2. PICK i \in 1 .. Len(futs) : i = p - (page - Len(futs)) + 1 /\ i > 1
      <4> DEFINE k == p - (page - Len(futs)) + 1
      <4>1. k \in 1 .. Len(futs) /\ k > 1
        BY <1>2, <2>0, <2>1, <2>5
      <4> HIDE DEF k
      <4>2. \E i \in 1 .. Len(futs) : i = k /\ i > 1
        BY <4>1
      <4> QED BY <4>2 DEF k
    <3>3. i - 1 = p - (page' - Len(futs')) + 1 /\ i - 1 \in 1 .. Len(futs')
      BY <1>1, <1>2, <2>1, <3>2
    <3>4. futs'[i - 1] = futs[i]
      BY <1>1, <3>2, <3>3
    <3>5. FrameAt(p) = futs[i].frame /\ FrameAt(p)' = futs[i].frame
      BY <3>2, <3>3, <3>4 DEF FrameAt
    <3>6. futs[i].frame # futs[1].frame /\ futs[i].frame \in Slots
      BY <1>1, <1>2, <3>2, DequeFacts DEF DequeInv, HoldsOnce
    <3>7. Work(FrameAt(p))' = Work(FrameAt(p))
      BY <1>4, <3>5, <3>6 DEF Work, Opened, OnWire
    <3> QED BY <1>2, <2>5, <3>1, <3>7 DEF StatusOf
  <2>6. p < page - Len(futs) \/ p = page - Len(futs) \/ p > page - Len(futs)
    BY <2>0, <2>1
  <2> QED BY <2>2, <2>3, <2>4, <2>5, <2>6
<1> QED BY <1>2, <1>3, <1>6 DEF StatusShape, Stutters

(* When the round ends every page of it is done, and stays done.           *)
LEMMA EndStutters ==
  ASSUME ~MayFail, R!IInv, RuntimeInv, BatchInv, BatchInv', EndRound
  PROVE  Stutters
<1>1. page = NumPages /\ drained = Len(futs) /\ UNCHANGED <<round, page>> /\ futs' = <<>>
  BY EndFacts DEF EndRound
<1>2. AllPagesDone'
  BY <1>1, NextAllDone DEF Idle
<1>3. StatusShape /\ DequeInv
  BY StatusFacts DEF BatchInv
<1>4. ASSUME NEW p \in 0 .. NumPages - 1 PROVE StatusOf(p) = "done"
  <2>1. ~(p >= page) /\ p < page
    BY <1>1, WriterAssumption
  <2>2. CASE p < page - Len(futs)
    BY <2>1, <2>2 DEF StatusOf
  <2>3. CASE ~(p < page - Len(futs))
    <3>1. p - (page - Len(futs)) + 1 \in 1 .. Len(futs)
      BY <2>1, <2>3, PageInDeque, WriterAssumption
    <3>2. point[FrameAt(p)] = "final"
      BY <1>1, <1>3, <3>1 DEF DequeInv, DrainedDone, FrameAt
    <3> QED BY <2>1, <2>3, <3>2 DEF StatusOf, Work, Opened, OnWire
  <2> QED BY <2>2, <2>3
<1>5. AllPagesDone
  BY <1>3, <1>4 DEF StatusShape, AllPagesDone
<1> QED BY <1>1, <1>2, <1>5 DEF Stutters, AllPagesDone

(* When no call fails the writer never gives up.                           *)
LEMMA NeverGivesUp == RuntimeInv => ~GaveUp
BY DEF RuntimeInv, NoExceptions, GaveUp

LEMMA SameGaveUp == ASSUME ~GaveUp', ~GaveUp PROVE GaveUp' = GaveUp
BY DEF GaveUp

LEMMA WindowStep ==
  ASSUME ~MayFail, R!IInv, RuntimeInv, RuntimeInv', BatchInv, BatchInv',
         [BatchNext]_batchVars
  PROVE  [Promise!Next]_Promise!windowVars
<1> USE Names
<1>1. ~GaveUp /\ ~GaveUp' /\ UNCHANGED GaveUp
  <2>1. RuntimeInv' => ~GaveUp'
    BY NeverGivesUp, PTL
  <2> QED BY <2>1, NeverGivesUp, SameGaveUp
<1>2. ASSUME Stutters PROVE [Promise!Next]_Promise!windowVars
  BY <1>1, <1>2 DEF Stutters, Status, Promise!windowVars
<1>3. CASE CommonStep /\ UNCHANGED <<futs, drained>>
  <2>1. CASE StartWriter \/ HandshakeStep \/ OpStep(Recv)
             \/ (At(Write, "loop") /\ Ends(Write) /\ UNCHANGED <<round, page, ops>>)
    BY <1>2, <1>3, <2>1, IdleSteps
  <2>2. CASE /\ At(Write, "loop") /\ MoreRounds /\ CallAwait(WriteOne)
             /\ round' = round + 1 /\ page' = 0 /\ UNCHANGED <<stage, ops>>
    <3>1. /\ round < Repeat
          /\ \A p \in 0 .. NumPages - 1 : Status[p] = "done"
          /\ Status' = [p \in 0 .. NumPages - 1 |-> "todo"]
      BY <2>2, RoundStarts DEF MoreRounds
    <3> QED BY <1>1, <2>2, <3>1 DEF Status, Promise!Next, Promise!StartRound, Promise!Pages
  <2>3. ASSUME NEW f \in Slots, OpStep(f) PROVE [Promise!Next]_Promise!windowVars
    <3>1. CASE Stutters
      BY <1>2, <3>1
    <3>2. ASSUME NEW p \in 0 .. NumPages - 1, round' = round,
                 Status[p] = "open", Status' = [Status EXCEPT ![p] = "wire"]
          PROVE  [Promise!Next]_Promise!windowVars
      BY <1>1, <3>2 DEF Status, Promise!Next, Promise!Post, Promise!Pages
    <3> QED BY <1>3, <2>3, <3>1, <3>2, SlotSteps
  <2> QED BY <1>3, <2>1, <2>2, <2>3 DEF CommonStep, WriteStep, OpFrames
<1>4. ASSUME NEW c \in Slots, IssuePage(c) PROVE [Promise!Next]_Promise!windowVars
  <2>1. /\ page \in 0 .. NumPages - 1 /\ round' = round
        /\ Status[page] = "todo"
        /\ \A q \in 0 .. page - 1 : Status[q] # "todo"
        /\ Status' = [Status EXCEPT ![page] = "open"]
    BY <1>4, PageOpens
  <2>2. Promise!Cardinality(Promise!Outstanding) < BatchSize
    <3>1. Promise!Cardinality(Promise!Outstanding) <= Len(futs) /\ Len(futs) < BatchSize
      BY <1>4, OpenInDeque DEF IssuePage, HasRoom
    <3>2. Promise!Cardinality(Promise!Outstanding) \in Nat /\ Len(futs) \in Nat
      BY OpenInDeque, DequeFacts DEF BatchInv
    <3> QED BY <3>1, <3>2, BatchAssumption
  <2>3. Promise!Issue(page)
    BY <1>1, <2>1, <2>2 DEF Status, Promise!Issue
  <2> QED BY <1>1, <2>1, <2>3 DEF Promise!Next, Promise!Pages
<1>5. CASE AwaitOldest \/ AwaitDrain \/ CountDrained \/ PopOldest \/ EndRound
  BY <1>2, <1>5, AwaitStutters, CountStutters, PopStutters, EndStutters
<1>6. CASE Background /\ UNCHANGED <<futs, drained>>
  <2>1. UNCHANGED ownVars /\ UNCHANGED <<round, page, futs>>
    BY <1>6 DEF Background, ownVars, writerVars
  <2>2. ASSUME \A f \in Slots : Work(f)' = Work(f) PROVE [Promise!Next]_Promise!windowVars
    BY <1>2, <2>1, <2>2, StatusStays DEF Stutters
  <2>3. CASE RunNext
    BY <2>1, <2>2, <2>3, ResumeWork
  <2>4. ~Unwind
    BY DEF Unwind, RuntimeInv, NoExceptions
  <2>5. CASE \/ Stop \/ Select \/ SelectError \/ StartBatch \/ EndBatch \/ Tick
             \/ \E h \in Handles : ExpireTimer(h)
    BY <2>1, <2>2, <2>5, LoopWork
  <2>6. ASSUME NEW h \in Handles, Complete(h) \/ CompleteError(h)
        PROVE  [Promise!Next]_Promise!windowVars
    <3>1. /\ point[h] = "op"
          /\ \A f \in Slots \ {h} : Work(f)' = Work(f)
          /\ Work(h)' # Work(h) => (Work(h) = "wire" /\ Work(h)' = "done")
      BY <2>1, <2>6, NicWork
    <3>2. CASE h \notin Slots \/ Work(h)' = Work(h)
      BY <2>2, <3>1, <3>2
    <3>3. CASE h \in Slots /\ Work(h)' # Work(h)
      <4>1. PICK p \in 0 .. NumPages - 1 :
              Status[p] = Work(h) /\ Status' = [Status EXCEPT ![p] = Work(h)']
        BY <2>1, <3>1, <3>3, StatusMoves
      <4>2. Status[p] = "wire" /\ Status' = [Status EXCEPT ![p] = "done"]
        BY <3>1, <3>3, <4>1
      <4> QED BY <1>1, <2>1, <4>2 DEF Status, Promise!Next, Promise!Complete, Promise!Pages
    <3> QED BY <3>2, <3>3
  <2> QED BY <1>6, <2>3, <2>4, <2>5, <2>6 DEF Background, LoopStep, Nic
<1>7. CASE UNCHANGED batchVars
  <2>1. UNCHANGED <<round, Status>>
    BY <1>7 DEF batchVars, ownVars, vars, frameVars, loopVars, fabricVars, writerVars, Status,
                PageStatus, HoldsPage
  <2> QED BY <1>2, <2>1 DEF Stutters
<1> QED BY <1>3, <1>4, <1>5, <1>6, <1>7 DEF BatchNext, BatchStep

(* At most BatchSize writes are open at a time, every page of a round is   *)
(* written once and in order, and no round starts before the last is       *)
(* written: the batched writer keeps the promise of WriteWindow.           *)
THEOREM PromiseKept == ~MayFail => (BatchSpec => KeepsWindow)
<1> SUFFICES ASSUME ~MayFail PROVE BatchSpec => KeepsWindow
  OBVIOUS
<1>1. BatchInit => Promise!Init
  <2> SUFFICES ASSUME BatchInit PROVE Promise!Init
    OBVIOUS
  <2>1. AllPagesDone
    BY InitBatchInv, AllDone DEF BatchInit, WriterInit, Idle
  <2>2. ~GaveUp
    BY DEF BatchInit, WriterInit, Init, GaveUp
  <2> QED BY <2>1, <2>2 DEF BatchInit, WriterInit, AllPagesDone, Status, Promise!Init, Promise!Pages
<1>2. BatchFullInv /\ BatchFullInv' /\ [BatchNext]_batchVars
        => [Promise!Next]_Promise!windowVars
  <2>1. R!IInv' /\ R!WInv' => RuntimeInv'
    BY RuntimeFacts, PTL
  <2> QED BY <2>1, RuntimeFacts, WindowStep DEF BatchFullInv
<1> QED BY <1>1, <1>2, BatchInvHolds, PTL DEF BatchSpec, KeepsWindow, Promise!Spec

=============================================================================
