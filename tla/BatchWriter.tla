----------------------------- MODULE BatchWriter -----------------------------
(***************************************************************************)
(* batch/main.cc: WriteOne keeps a deque of up to BatchSize futures, each  *)
(* one page's conn_->Write, awaits the oldest when the deque is full and   *)
(* drains the deque at the end of the round.                               *)
(***************************************************************************)
EXTENDS Writer

CONSTANT BatchSize  \* batch_size

ASSUME BatchAssumption == BatchSize \in Nat \ {0}

VARIABLES futs,    \* the deque: frame and page of each Future
          drained  \* futures awaited by the loop that drains the deque

ownVars   == <<writerVars, futs, drained>>
batchVars == <<vars, ownVars>>

BatchInit == WriterInit /\ futs = <<>> /\ drained = 0

(* co_await fut, then go to s.                                             *)
Await(fut, s) == /\ AwaitFuture(fut.frame) \/ AwaitDone(fut.frame)
                 /\ Goto(WriteOne, s)
                 /\ UNCHANGED <<round, page, ops, futs, drained>>

(* futs.size() < batch_size                                                *)
HasRoomOffByOne == Len(futs) <= BatchSize  \* defect: a window one too large

HasRoom == Len(futs) < BatchSize

(* futs.emplace_back(Future(conn_->Write(...)))                            *)
IssuePage(c) == /\ At(WriteOne, "issue")
                /\ page < NumPages
                /\ HasRoom
                /\ Spawn(c)
                /\ futs' = Append(futs, [frame |-> c, page |-> page])
                /\ page' = page + 1
                /\ UNCHANGED <<stage, round, ops, drained>>

(* while (futs.size() >= batch_size) { co_await futs.front(); ... }        *)
AwaitOldest == /\ At(WriteOne, "issue")
               /\ page < NumPages
               /\ ~HasRoom
               /\ Await(Head(futs), "pop")

(* Defect: the page is popped and not counted.                             *)
PopUncounted == /\ At(WriteOne, "pop")
                /\ DropFuture(Head(futs).frame)
                /\ Goto(WriteOne, "issue")
                /\ futs' = Tail(futs)
                /\ UNCHANGED <<round, page, ops, drained>>

PopOldest == /\ At(WriteOne, "pop")
             /\ DropFuture(Head(futs).frame)
             /\ Goto(WriteOne, "issue")
             /\ ops' = ops + 1
             /\ futs' = Tail(futs)
             /\ UNCHANGED <<round, page, drained>>

(* for (auto &fut : futs) { co_await fut; ++ops; }                         *)
AwaitDrain == /\ At(WriteOne, "issue")
              /\ page = NumPages
              /\ drained < Len(futs)
              /\ Await(futs[drained + 1], "count")

CountDrained == /\ At(WriteOne, "count")
                /\ Active
                /\ Goto(WriteOne, "issue")
                /\ ops' = ops + 1
                /\ drained' = drained + 1
                /\ UNCHANGED <<vars, round, page, futs>>

(* Defect: the deque goes out of scope before it is drained.               *)
EndRoundUndrained == /\ At(WriteOne, "issue")
                     /\ page = NumPages
                     /\ Ends(WriteOne)
                     /\ futs' = <<>>
                     /\ drained' = 0
                     /\ UNCHANGED <<round, page, ops>>

EndRound == /\ At(WriteOne, "issue")
            /\ page = NumPages
            /\ drained = Len(futs)
            /\ Ends(WriteOne)
            /\ futs' = <<>>
            /\ drained' = 0
            /\ UNCHANGED <<round, page, ops>>

BatchStep == \/ \E c \in Slots : IssuePage(c)
             \/ AwaitOldest
             \/ PopOldest
             \/ AwaitDrain
             \/ CountDrained
             \/ EndRound
             \/ CommonStep /\ UNCHANGED <<futs, drained>>

BatchNext == \/ BatchStep
             \/ Background /\ UNCHANGED <<futs, drained>>
             \/ phase \in Ended /\ UNCHANGED batchVars

BatchSpec == BatchInit /\ [][BatchNext]_batchVars

BatchFairSpec == /\ BatchSpec
                 /\ WF_batchVars(BatchStep \/ (Unwind /\ UNCHANGED ownVars))
                 /\ WF_batchVars(LoopStep /\ UNCHANGED ownVars)
                 /\ \A h \in Handles :
                      WF_batchVars((Complete(h) \/ CompleteError(h)) /\ UNCHANGED ownVars)

-----------------------------------------------------------------------------
(* The frame of page p's future, when the deque holds one.                 *)
HoldsPage(p, f) == \E i \in DOMAIN futs : futs[i] = [frame |-> f, page |-> p]

(* How far the write of page p has come, read off the runtime's state.     *)
PageStatus(p) ==
  IF p >= page THEN "todo"
  ELSE IF \E f \in Slots : /\ HoldsPage(p, f)
                           /\ stage[f] = "post"
                           /\ point[f] \in {"initial", "running"} THEN "open"
  ELSE IF \E f \in Slots : /\ HoldsPage(p, f)
                           /\ point[f] = "op"
                           /\ f \notin Range(cq) \cup Range(ready) THEN "wire"
  ELSE "done"

Promise == INSTANCE WriteWindow
             WITH Window <- BatchSize,
                  status <- [p \in 0 .. NumPages - 1 |-> PageStatus(p)],
                  failed <- GaveUp

Runtime == INSTANCE LoopClient WITH Futures <- TRUE, MayThrow <- MayFail, Delays <- {}

BatchTypeOK == /\ WriterTypeOK
               /\ futs \in Seq([frame : Slots, page : 0 .. NumPages - 1])
               /\ Len(futs) <= BatchSize
               /\ drained \in 0 .. Len(futs)

(* The counter Progress prints is that of the writes awaited so far: every *)
(* page issued is counted, or its future is still in the deque and to be   *)
(* awaited, be its write completed or not.                                 *)
OpsAccounted ==
  ~GaveUp => ops + (Len(futs) - drained)
               = (IF round = 0 THEN 0 ELSE (round - 1) * NumPages + page)

(* The windowed writer keeps the promise of WriteWindow: pages of a round  *)
(* once each, at most BatchSize open, no round before the last is over.    *)
KeepsWindow == Promise!Spec

(* The program is one of the general programs of LoopClient: it returns    *)
(* only over children that are done, drops only futures that are done, and *)
(* awaits each with nothing else running.                                  *)
IsLoopClient == Runtime!Spec

(* No destroyed coroutine is ever resumed.                                 *)
NoUseAfterFree == phase # "undefined"
=============================================================================
