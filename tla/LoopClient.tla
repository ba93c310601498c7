------------------------------ MODULE LoopClient ------------------------------
(***************************************************************************)
(* The most general program over the EventLoop runtime: coroutines that    *)
(* call, spawn, await, sleep, post operations, throw and return in any     *)
(* order, under the one discipline the programs of the repository keep: a  *)
(* body returns only when the children it holds are done, and a Future is  *)
(* dropped only when it is done.                                           *)
(*                                                                         *)
(* The guarantees of the runtime depend on two features of a program, the  *)
(* constants Futures and MayThrow: each alone is safe, and the two         *)
(* together are not (BatchWriter shows the consequence).                   *)
(***************************************************************************)
EXTENDS EventLoop

CONSTANTS Futures,   \* bodies hold several children at once (batch)
          MayThrow,  \* bodies throw: an ASSERT fails, a post is refused
          Delays     \* the durations given to Sleep

ASSUME ClientAssumption == /\ Futures \in BOOLEAN
                           /\ MayThrow \in BOOLEAN
                           /\ Delays \subseteq Nat

ReturnAnyway == Return  \* defect: children that still run are dropped

ReturnJoined == (\A c \in Children(cur) : point[c] = "final") /\ Return

ClientStep ==
  \/ \E c \in Handles : \/ CallAwait(c)
                        \/ Futures /\ Spawn(c)
                        \/ AwaitDone(c)
                        \/ AwaitFuture(c)
                        \/ DropFuture(c)
                        \/ \E d \in Delays : SleepAwait(c, d)
  \/ PostOp
  \/ MayThrow /\ PostRefused
  \/ MayThrow /\ Throw
  \/ ReturnJoined
  \/ Unwind
  \/ OpenNet

Next == LoopStep \/ Nic \/ Tick \/ ClientStep \/ Terminating

Spec == Init /\ [][Next]_vars

(* IO::Run polls without ever blocking, a running body reaches its next    *)
(* suspend point, the NIC answers every operation and time passes (it      *)
(* stands still only in the phase of Runone that has read the clock).      *)
RuntimeFairness == /\ WF_vars(LoopStep)
                   /\ \A h \in Handles : WF_vars(Complete(h) \/ CompleteError(h))
                   /\ SF_vars(Tick)

FairSpec == Spec /\ RuntimeFairness /\ WF_vars(ClientStep)

-----------------------------------------------------------------------------
(* Every variable has its type.                                            *)
TypeOK == /\ point \in [Handles -> Points]
          /\ state \in [Handles -> States]
          /\ next \in [Handles -> Handles \cup {Null}]
          /\ result \in [Handles -> Results]
          /\ callee \in [Handles -> Handles \cup {Null}]
          /\ owner \in [Handles -> Handles \cup {Null}]
          /\ held \in [Handles -> {"temporary", "future"}]
          /\ ready \in Seq(Handles)
          /\ schedule \in SUBSET Handles
          /\ when \in [Handles -> Nat]
          /\ time \in Nat
          /\ phase \in Phases
          /\ batch \in Nat
          /\ cur \in Handles \cup {Null}
          /\ raised \in BOOLEAN
          /\ inflight \in SUBSET Handles
          /\ cq \in Seq(Handles)
          /\ cqError \in BOOLEAN
          /\ polling \in BOOLEAN

(* Destroying a coroutine cancels nothing (IO::Cancel is empty), so every  *)
(* Handle* the runtime keeps, in the deque, in the timer queue, in the     *)
(* context of an operation or in the next of a frame that has not          *)
(* finished, must belong to a frame that is alive and suspended.           *)
NoDangling ==
  /\ \A h \in Range(ready) \cup schedule \cup inflight \cup Range(cq) :
        point[h] \in Resumable
  /\ \A c \in Handles :
        point[c] \in Resumable \cup {"running"} /\ next[c] # Null
          => point[next[c]] = "child" /\ callee[next[c]] = c

(* Handle::state_ guards schedule() and nothing guards Call: a suspended   *)
(* frame is never queued twice, in one place or in two of them.  The       *)
(* second run() would resume a frame at a suspend point it has left.       *)
QueuedOnce ==
  /\ IsInjective(ready)
  /\ IsInjective(cq)
  /\ Range(ready) \cap (schedule \cup inflight \cup Range(cq)) = {}
  /\ schedule \cap (inflight \cup Range(cq)) = {}
  /\ inflight \cap Range(cq) = {}

(* No wakeup is lost: whatever a suspended frame waits for, something the  *)
(* loop still looks at leads back to it.  A child that is done when it is  *)
(* awaited, finishes while awaited, or was already queued, each takes a    *)
(* different path (await_ready, final_awaiter, schedule).                  *)
NoLostWakeup ==
  \A h \in Handles :
    /\ point[h] = "initial" => h \in Range(ready)
    /\ point[h] = "timer" => h \in schedule \cup Range(ready)
    /\ point[h] = "op" => \/ h \in inflight \cup Range(cq) \cup Range(ready)
                          \/ cqError
    /\ point[h] = "child" =>
         \/ h \in Range(ready) /\ point[callee[h]] = "final"
         \/ /\ point[callee[h]] \in Resumable \cup {"running"}
            /\ next[callee[h]] = h

(* IO::Run returns only when the program is over: the root coroutine is    *)
(* done (Run then takes its result, which for Coro<> would silently be     *)
(* "no exception" otherwise) and every other frame has been freed.         *)
StoppedMeansDone ==
  phase = "stopped" =>
    \A h \in Handles : point[h] = IF h = Root THEN "final" ELSE "free"

(* A frame that sleeps is not resumed before its deadline.                 *)
NeverEarly ==
  [][\A h \in Handles : point[h] = "timer" /\ cur' = h => when[h] <= time]_vars

(* A handle in the deque runs, however many handles keep being queued      *)
(* behind it (unless the loop aborts on an error entry first).             *)
ReadyRuns ==
  \A h \in Handles : h \in Range(ready) ~> (cur = h \/ phase = "aborted")

(* A frame that waits for the NIC or for a timer is resumed: the loop does *)
(* not stop before (unless it aborts on an error entry).                   *)
SuspendedResumes ==
  \A h \in Handles :
    h \in inflight \cup schedule ~> (cur = h \/ phase = "aborted")
=============================================================================
