------------------------------ MODULE EventLoop ------------------------------
(***************************************************************************)
(* The single-threaded coroutine runtime every program of the repository   *)
(* is built on: coroutine frames (coro.h, future.h, result.h), the handle  *)
(* states (handle.h), the IO loop (io.h) with its ready deque and timer    *)
(* queue, the selector that polls the completion queue (selector.h), and   *)
(* the NIC on the other side of that queue.                                *)
(*                                                                         *)
(* The module defines the state, the steps of the loop and of the NIC, and *)
(* one action per operation a coroutine body can perform.  Which of these  *)
(* operations the frame that is running performs, and in which order, is   *)
(* the business of the modules that extend this one.                       *)
(***************************************************************************)
EXTENDS Naturals, Sequences, FiniteSets, Functions

CONSTANTS Handles,       \* the addresses coroutine frames are allocated at
          Root,          \* the frame of the coroutine given to Run(coro)
          Null,          \* the null Handle*
          MaxCQEntries,  \* kMaxCQEntries: entries one fi_cq_read returns
          MaxTime        \* bound of the model on the clock

ASSUME LoopAssumption == /\ Root \in Handles
                         /\ Null \notin Handles
                         /\ MaxCQEntries \in Nat \ {0}
                         /\ MaxTime \in Nat

VARIABLES
  \* Coroutine frames.  A frame that is not allocated is at point "free".
  point,     \* where the frame is suspended: at the initial or final suspend
             \* point, in the co_await of a child, a timer or an operation
  state,     \* Handle::state_
  next,      \* promise_type::next, the frame to wake at the final suspend
  result,    \* Result<T>: no value yet, a value, or an exception
  callee,    \* the child frame a frame suspended at "child" awaits
  owner,     \* the frame whose locals or temporaries hold the Coro object
  held,      \* how it is held: a temporary of the await, or a Future
  \* The IO loop.
  ready,     \* IO::ready_, a deque
  schedule,  \* the handles in IO::schedule_, a priority queue
  when,      \* the deadline of each handle of schedule_
  time,      \* IO::Time()
  phase,     \* where IO::Run is, or how it ended
  batch,     \* the handles Runone still has to run in this pass (n - i)
  cur,       \* the frame that is running, Null between two of them
  raised,    \* an exception is propagating in the running frame
  \* The fabric.
  inflight,  \* frames whose operation was accepted and has not completed
  cq,        \* completion queue: for each entry, the frame of its op_context
  cqError,   \* an error entry waits in the completion queue
  polling    \* the completion queue is registered with the selector

frameVars  == <<point, next, result, callee, owner, held>>
loopVars   == <<ready, schedule, when, time, phase, batch, cur, raised>>
fabricVars == <<inflight, cq, cqError, polling>>
vars       == <<frameVars, state, loopVars, fabricVars>>

Points     == {"free", "initial", "running", "child", "timer", "op", "final"}
Resumable  == {"initial", "child", "timer", "op"}
States     == {"kUnschedule", "kScheduled", "kSuspend"}
Results    == {"unset", "value", "exception"}
Ended      == {"stopped", "aborted", "undefined"}
Phases     == {"select", "expire", "run"} \cup Ended

-----------------------------------------------------------------------------
(* Run(coro): the root frame is wrapped in a Future, which schedules it.   *)
Init == /\ point = [h \in Handles |-> IF h = Root THEN "initial" ELSE "free"]
        /\ state = [h \in Handles |-> IF h = Root THEN "kScheduled"
                                                  ELSE "kUnschedule"]
        /\ next = [h \in Handles |-> Null]
        /\ result = [h \in Handles |-> "unset"]
        /\ callee = [h \in Handles |-> Null]
        /\ owner = [h \in Handles |-> Null]
        /\ held = [h \in Handles |-> "temporary"]
        /\ ready = <<Root>>
        /\ schedule = {}
        /\ when = [h \in Handles |-> 0]
        /\ time = 0
        /\ phase = "select"
        /\ batch = 0
        /\ cur = Null
        /\ raised = FALSE
        /\ inflight = {}
        /\ cq = <<>>
        /\ cqError = FALSE
        /\ polling = FALSE

-----------------------------------------------------------------------------
(* Frames.  Creating one leaves it at its initial suspend point (all but   *)
(* detail::Sleep are lazy: the Oneway constructor of the promise does not  *)
(* match a member function, whose first argument is the object).           *)
Children(h) == {c \in Handles : owner[c] = h}

(* What destroying the locals of h destroys: the Coro objects it holds and,*)
(* through ~Coro, what those frames hold in turn.                          *)
Descendants(h) ==
  {d \in Handles : \A S \in SUBSET Handles :
     (Children(h) \subseteq S /\ \A x \in S : Children(x) \subseteq S) => d \in S}

(* A new frame c at point p, held by the running frame as `how`, with next *)
(* pointing to n.                                                          *)
Create(c, p, how, n) ==
  /\ point[c] = "free"
  /\ next' = [next EXCEPT ![c] = n]
  /\ owner' = [owner EXCEPT ![c] = cur]
  /\ held' = [held EXCEPT ![c] = how]
  /\ UNCHANGED result

(* Setting a field of the frames of D.  It also is all that Coro::Destroy   *)
(* does to the frames it frees: promise().cancel() ends in IO::Cancel, an  *)
(* empty body, and no queue forgets the handle.                            *)
SetAll(f, D, v) == [h \in Handles |-> IF h \in D THEN v ELSE f[h]]

-----------------------------------------------------------------------------
(* The loop: while (!Stopped()) { Select(); Runone(); }                    *)
StoppedUntimed == ready = <<>> /\ ~polling        \* defect: timers forgotten
StoppedUnpolled == ready = <<>> /\ schedule = {}  \* defect: the selector forgotten

Stopped == schedule = {} /\ ready = <<>> /\ ~polling

Stop == /\ phase = "select"
        /\ Stopped
        /\ phase' = "stopped"
        /\ UNCHANGED <<frameVars, state, ready, schedule, when, time, batch,
                       cur, raised, fabricVars>>

(* Selector::Select and IO::Select: read at most kMaxCQEntries entries and *)
(* Call the handle of each.  An entry whose Context died with its frame is *)
(* dereferenced all the same.                                              *)
ErrorAtHead == polling /\ cqError /\ cq = <<>>

Select ==
  LET n == IF ~polling THEN 0
           ELSE IF Len(cq) < MaxCQEntries THEN Len(cq) ELSE MaxCQEntries
      events == SubSeq(cq, 1, n)
  IN /\ phase = "select"
     /\ ~Stopped
     /\ ~ErrorAtHead
     /\ cq' = SubSeq(cq, n + 1, Len(cq))
     /\ IF \E h \in Range(events) : point[h] = "free"
        THEN phase' = "undefined" /\ UNCHANGED <<state, ready>>
        ELSE /\ phase' = "expire"
             /\ state' = SetAll(state, Range(events), "kScheduled")
             /\ ready' = ready \o events
     /\ UNCHANGED <<frameVars, schedule, when, time, batch, cur, raised,
                    inflight, cqError, polling>>

(* Selector::HandleError: once the entries before it are read, an error    *)
(* entry makes Select throw, and nothing between it and main catches.      *)
SelectError == /\ phase = "select"
               /\ ErrorAtHead
               /\ phase' = "aborted"
               /\ UNCHANGED <<frameVars, state, ready, schedule, when, time,
                              batch, cur, raised, fabricVars>>

(* Runone, first loop: the expired timers move to ready_, earliest first.  *)
(* Ties, which the code breaks by handle id, are left open.  The clock     *)
(* does not advance in this phase: `now` is read once.                     *)
ExpiredEarly(h) == h \in schedule /\ when[h] <= time + 1  \* defect: off by one

Expired(h) == h \in schedule /\ when[h] <= time

ExpireTimer(h) ==
  /\ phase = "expire"
  /\ Expired(h)
  /\ \A g \in schedule : when[h] <= when[g]
  /\ schedule' = schedule \ {h}
  /\ ready' = Append(ready, h)
  /\ UNCHANGED <<frameVars, state, when, time, phase, batch, cur, raised,
                 fabricVars>>

(* Defect: the loop over the deque stops one handle short.                 *)
StartBatchShort == /\ phase = "expire"
                   /\ \A h \in schedule : ~Expired(h)
                   /\ phase' = "run"
                   /\ batch' = IF ready = <<>> THEN 0 ELSE Len(ready) - 1
                   /\ UNCHANGED <<frameVars, state, ready, schedule, when, time,
                                  cur, raised, fabricVars>>

(* Runone, second loop: n is fixed before the first handle runs.           *)
StartBatch == /\ phase = "expire"
              /\ \A h \in schedule : ~Expired(h)
              /\ phase' = "run"
              /\ batch' = Len(ready)
              /\ UNCHANGED <<frameVars, state, ready, schedule, when, time,
                             cur, raised, fabricVars>>

EndBatch == /\ phase = "run"
            /\ cur = Null
            /\ batch = 0
            /\ phase' = "select"
            /\ UNCHANGED <<frameVars, state, ready, schedule, when, time,
                           batch, cur, raised, fabricVars>>

(* The frame a temporary Coro of the await expression held dies when the   *)
(* expression has been evaluated.                                          *)
EndsWithAwait(h) ==
  IF point[h] = "child" /\ held[callee[h]] = "temporary" THEN {callee[h]} ELSE {}

(* handle->SetState(kUnschedule); handle->run(): the frame continues after *)
(* its co_await, where the result of an awaited child is taken or its      *)
(* exception rethrown.  Resuming a destroyed frame, or one that stands at  *)
(* its final suspend point, is undefined behaviour.                        *)
RunNext ==
  LET h == Head(ready)
      dead == EndsWithAwait(h)
  IN /\ phase = "run"
     /\ cur = Null
     /\ batch > 0
     /\ ready' = Tail(ready)
     /\ batch' = batch - 1
     /\ IF point[h] \notin Resumable
        THEN /\ phase' = "undefined"
             /\ UNCHANGED <<frameVars, state, cur, raised>>
        ELSE /\ cur' = h
             /\ raised' = (point[h] = "child" /\ result[callee[h]] = "exception")
             /\ point' = [SetAll(point, dead, "free") EXCEPT ![h] = "running"]
             /\ state' = [SetAll(state, dead, "kUnschedule") EXCEPT ![h] = "kUnschedule"]
             /\ callee' = [callee EXCEPT ![h] = Null]
             /\ next' = SetAll(next, dead, Null)
             /\ result' = SetAll(result, dead, "unset")
             /\ owner' = SetAll(owner, dead, Null)
             /\ held' = SetAll(held, dead, "temporary")
             /\ UNCHANGED phase
     /\ UNCHANGED <<schedule, when, time, fabricVars>>

(* The clock, outside the phase that has read it.                          *)
Tick == /\ phase \notin {"expire"} \cup Ended
        /\ time < MaxTime
        /\ time' = time + 1
        /\ UNCHANGED <<frameVars, state, ready, schedule, when, phase, batch,
                       cur, raised, fabricVars>>

-----------------------------------------------------------------------------
(* The NIC.  EFA's reliable datagrams complete in any order.  An entry     *)
(* behind an error entry is not kept: the read of the error ends the loop. *)
Complete(h) == /\ phase \notin Ended
               /\ h \in inflight
               /\ inflight' = inflight \ {h}
               /\ cq' = IF cqError THEN cq ELSE Append(cq, h)
               /\ UNCHANGED <<frameVars, state, loopVars, cqError, polling>>

CompleteError(h) == /\ phase \notin Ended
                    /\ h \in inflight
                    /\ inflight' = inflight \ {h}
                    /\ cqError' = TRUE
                    /\ UNCHANGED <<frameVars, state, loopVars, cq, polling>>

-----------------------------------------------------------------------------
(* What a running frame can do.                                            *)
Running == phase = "run" /\ cur # Null
Active  == Running /\ ~raised

(* Suspend the running frame in the co_await of child c.                   *)
SuspendOn(c) == /\ callee' = [callee EXCEPT ![cur] = c]
                /\ cur' = Null

(* co_await f(...): the child is created, its next set to the awaiting     *)
(* frame, and scheduled.                                                   *)
CallAwait(c) ==
  /\ Active
  /\ Create(c, "initial", "temporary", cur)
  /\ point' = [point EXCEPT ![c] = "initial", ![cur] = "child"]
  /\ state' = [state EXCEPT ![c] = "kScheduled", ![cur] = "kSuspend"]
  /\ ready' = Append(ready, c)
  /\ SuspendOn(c)
  /\ UNCHANGED <<schedule, when, time, phase, batch, raised, fabricVars>>

(* Future(f(...)): the child is created and scheduled, the frame goes on.  *)
Spawn(c) ==
  /\ Active
  /\ Create(c, "initial", "future", Null)
  /\ point' = [point EXCEPT ![c] = "initial"]
  /\ state' = [state EXCEPT ![c] = "kScheduled"]
  /\ ready' = Append(ready, c)
  /\ UNCHANGED <<callee, schedule, when, time, phase, batch, cur, raised,
                 fabricVars>>

IsFuture(c) == owner[c] = cur /\ held[c] = "future" /\ point[c] # "free"

(* co_await fut, the child is done: await_ready, the result is taken.      *)
AwaitDone(c) ==
  /\ Active
  /\ IsFuture(c)
  /\ point[c] = "final"
  /\ raised' = (result[c] = "exception")
  /\ UNCHANGED <<frameVars, state, ready, schedule, when, time, phase, batch,
                 cur, fabricVars>>

(* co_await fut, the child is not done: await_suspend.  Handle::schedule() *)
(* calls the loop only for a handle that is kUnschedule.                   *)
MustCallAlways(c) == TRUE  \* defect: the state is not looked at

MustCall(c) == state[c] = "kUnschedule"

AwaitFuture(c) ==
  /\ Active
  /\ IsFuture(c)
  /\ point[c] # "final"
  /\ next' = [next EXCEPT ![c] = cur]
  /\ point' = [point EXCEPT ![cur] = "child"]
  /\ state' = [state EXCEPT ![cur] = "kSuspend",
                            ![c] = IF MustCall(c) THEN "kScheduled" ELSE @]
  /\ ready' = IF MustCall(c) THEN Append(ready, c) ELSE ready
  /\ SuspendOn(c)
  /\ UNCHANGED <<result, owner, held, schedule, when, time, phase, batch,
                 raised, fabricVars>>

(* ~Future of a child that is done (futs.pop_front()).                     *)
DropFuture(c) ==
  /\ Active
  /\ IsFuture(c)
  /\ point[c] = "final"
  /\ point' = [point EXCEPT ![c] = "free"]
  /\ state' = [state EXCEPT ![c] = "kUnschedule"]
  /\ next' = [next EXCEPT ![c] = Null]
  /\ result' = [result EXCEPT ![c] = "unset"]
  /\ owner' = [owner EXCEPT ![c] = Null]
  /\ held' = [held EXCEPT ![c] = "temporary"]
  /\ UNCHANGED <<callee, loopVars, fabricVars>>

(* co_await Sleep(d): detail::Sleep runs at once up to its sleep_awaiter,  *)
(* which puts it in schedule_; awaiting it then finds it kScheduled.       *)
SleepAwait(c, d) ==
  /\ Active
  /\ time + d <= MaxTime
  /\ Create(c, "timer", "temporary", cur)
  /\ point' = [point EXCEPT ![c] = "timer", ![cur] = "child"]
  /\ state' = [state EXCEPT ![c] = "kScheduled", ![cur] = "kSuspend"]
  /\ schedule' = schedule \cup {c}
  /\ when' = [when EXCEPT ![c] = time + d]
  /\ SuspendOn(c)
  /\ UNCHANGED <<ready, time, phase, batch, raised, fabricVars>>

(* co_await of a recv, send or write awaiter: the operation is posted with *)
(* a Context in the frame.                                                 *)
PostOp == /\ Active
          /\ polling
          /\ state' = [state EXCEPT ![cur] = "kSuspend"]
          /\ point' = [point EXCEPT ![cur] = "op"]
          /\ inflight' = inflight \cup {cur}
          /\ cur' = Null
          /\ UNCHANGED <<next, result, callee, owner, held, ready, schedule,
                         when, time, phase, batch, raised, cq, cqError, polling>>

(* Defect: the throw comes after the provider has accepted the operation.  *)
PostRefusedLate == /\ Active
                   /\ polling
                   /\ state' = [state EXCEPT ![cur] = "kSuspend"]
                   /\ inflight' = inflight \cup {cur}
                   /\ raised' = TRUE
                   /\ UNCHANGED <<frameVars, ready, schedule, when, time, phase,
                                  batch, cur, cq, cqError, polling>>

(* The provider refuses the operation (-FI_EAGAIN): CHECK throws out of    *)
(* await_suspend, after SetState(kSuspend).                                *)
PostRefused == /\ Active
               /\ polling
               /\ state' = [state EXCEPT ![cur] = "kSuspend"]
               /\ raised' = TRUE
               /\ UNCHANGED <<frameVars, ready, schedule, when, time, phase,
                              batch, cur, fabricVars>>

(* A throw in the body: an ASSERT, an invalid argument.                    *)
Throw == /\ Active
         /\ raised' = TRUE
         /\ UNCHANGED <<frameVars, state, ready, schedule, when, time, phase,
                        batch, cur, fabricVars>>

(* final_awaiter: the frame to wake is called, when there is one.  It is   *)
(* kSuspend, so schedule() would not have done it.                         *)
NoContinuation == Null                 \* defect: nobody is woken
WakeUnchecked(n) == Append(ready, n)   \* defect: no test for a null next

Continuation == next[cur]
Wake(n) == IF n = Null THEN ready ELSE Append(ready, n)

(* The body ends with outcome r: its locals are destroyed, the result is   *)
(* stored, and final_awaiter calls next.  The root frame's locals hold the *)
(* Net, whose destructor unregisters and closes the completion queue.      *)
Finish(r) ==
  LET dead == Descendants(cur)
      n == Continuation
      closes == cur = Root
  IN /\ point' = [SetAll(point, dead, "free") EXCEPT ![cur] = "final"]
     /\ state' = [h \in Handles |-> IF h \in dead THEN "kUnschedule"
                                    ELSE IF h = n THEN "kScheduled" ELSE state[h]]
     /\ next' = SetAll(next, dead, Null)
     /\ result' = [SetAll(result, dead, "unset") EXCEPT ![cur] = r]
     /\ callee' = SetAll(callee, dead, Null)
     /\ owner' = SetAll(owner, dead, Null)
     /\ held' = SetAll(held, dead, "temporary")
     /\ ready' = Wake(n)
     /\ cur' = Null
     /\ raised' = FALSE
     /\ polling' = (polling /\ ~closes)
     /\ inflight' = IF closes THEN {} ELSE inflight
     /\ cq' = IF closes THEN <<>> ELSE cq
     /\ cqError' = (cqError /\ ~closes)
     /\ UNCHANGED <<schedule, when, time, phase, batch>>

Return == Active /\ Finish("value")
Unwind == Running /\ raised /\ Finish("exception")

(* Net::Open in the root frame registers its completion queue.             *)
OpenNet == /\ Active
           /\ cur = Root
           /\ ~polling
           /\ polling' = TRUE
           /\ UNCHANGED <<frameVars, state, loopVars, inflight, cq, cqError>>

-----------------------------------------------------------------------------
(* The steps of the loop, the NIC and the clock, whatever the program.     *)
LoopStep == \/ Stop
            \/ Select
            \/ SelectError
            \/ \E h \in Handles : ExpireTimer(h)
            \/ StartBatch
            \/ EndBatch
            \/ RunNext

Nic == \E h \in Handles : Complete(h) \/ CompleteError(h)

(* Once IO::Run has ended nothing moves any more.                          *)
Terminating == phase \in Ended /\ UNCHANGED vars
=============================================================================
