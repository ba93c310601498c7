--------------------------- MODULE LoopClientProofs ---------------------------
(***************************************************************************)
(* A program whose bodies hold one child at a time, or never throw, never  *)
(* leaves a dangling Handle* in the runtime, never queues a frame twice    *)
(* and never resumes a destroyed or finished frame; it loses no wakeup, is *)
(* never resumed from a timer before its deadline, and is over when        *)
(* IO::Run returns.  Proofs for every value of the constants of            *)
(* LoopClient: however many frames there are and whatever they do.         *)
(***************************************************************************)
EXTENDS LoopClient, QueueLemmas, FiniteSetTheorems

(* The condition of the theorems.  With Futures and exceptions together,   *)
(* NoDangling is false.                                                    *)
Disciplined == ~(Futures /\ MayThrow)

Live(h) == point[h] \in Resumable \cup {"running"}

-----------------------------------------------------------------------------
(* The inductive invariant.  NoDangling and QueuedOnce say which frames    *)
(* the queues hold; what makes them inductive is that the place of a       *)
(* frame is determined by its state and its suspend point (QueueInv), that *)
(* next and callee are inverse of each other for as long as the child      *)
(* lives (AwaitInv), that one frame runs at a time (RunInv), and that      *)
(* children belong to frames suspended in the middle of their body, so a   *)
(* frame that is done holds none (OwnerInv).                               *)
QueueInv ==
  /\ IsInjective(ready)
  /\ IsInjective(cq)
  /\ \A h \in Range(ready) : /\ state[h] = "kScheduled"
                             /\ point[h] \in Resumable
                             /\ h \notin schedule
  /\ \A h \in schedule : state[h] = "kScheduled" /\ point[h] = "timer"
  /\ \A h \in inflight : /\ state[h] = "kSuspend"
                         /\ point[h] = "op"
                         /\ h \notin Range(cq)
  /\ \A h \in Range(cq) : state[h] = "kSuspend" /\ point[h] = "op"

AwaitInv ==
  /\ \A h \in Handles : point[h] = "child" =>
       callee[h] \in Handles /\ owner[callee[h]] = h
  /\ \A h \in Handles : point[h] = "child" /\ state[h] = "kScheduled" =>
       point[callee[h]] = "final"
  /\ \A c \in Handles : Live(c) /\ next[c] # Null =>
       /\ point[next[c]] = "child"
       /\ callee[next[c]] = c
       /\ state[next[c]] = "kSuspend"
  /\ \A h \in Handles : point[h] \in Resumable => state[h] # "kUnschedule"

RunInv ==
  /\ \A h \in Handles : point[h] = "running" <=> h = cur
  /\ cur # Null => phase = "run"
  /\ phase = "run" => batch <= Len(ready)
  /\ phase # "undefined"

OwnerInv ==
  \A c \in Handles : owner[c] # Null =>
    /\ point[c] # "free"
    /\ owner[c] # c
    /\ point[owner[c]] \in {"running", "child", "op"}

DisciplineInv ==
  /\ ~Futures => \A c \in Handles :
       /\ held[c] = "temporary"
       /\ owner[c] # Null => point[owner[c]] = "child" /\ callee[owner[c]] = c
  /\ ~MayThrow => ~raised /\ \A h \in Handles : result[h] # "exception"

IInv == TypeOK /\ QueueInv /\ AwaitInv /\ RunInv /\ OwnerInv /\ DisciplineInv

-----------------------------------------------------------------------------
(* The program starts with the root frame queued and nothing else.         *)
LEMMA InitIInv == Init => IInv
<1> SUFFICES ASSUME Init PROVE IInv
  OBVIOUS
<1> USE LoopAssumption DEF Init
<1>1. ready \in Seq(Handles) /\ Range(ready) = {Root} /\ IsInjective(ready) /\ Len(ready) = 1
  BY DEF Range, IsInjective
<1>2. cq \in Seq(Handles) /\ Range(cq) = {} /\ IsInjective(cq)
  BY DEF Range, IsInjective
<1>3. TypeOK
  BY <1>1, <1>2 DEF TypeOK, Points, States, Results, Phases
<1>4. QueueInv
  BY <1>1, <1>2 DEF QueueInv, Resumable
<1>5. AwaitInv
  BY DEF AwaitInv, Live, Resumable
<1>6. RunInv
  BY DEF RunInv, Ended
<1>7. OwnerInv /\ DisciplineInv
  BY DEF OwnerInv, DisciplineInv
<1> QED BY <1>3, <1>4, <1>5, <1>6, <1>7 DEF IInv

(* Steps that change no frame and no queue.                                *)
LEMMA QuietSteps ==
  ASSUME IInv,
         Stop \/ SelectError \/ StartBatch \/ EndBatch \/ Tick
           \/ OpenNet \/ UNCHANGED vars
  PROVE  IInv'
<1> USE DEF vars, frameVars, loopVars, fabricVars
<1>1. UNCHANGED <<frameVars, state, ready, schedule, cur, raised, inflight, cq>>
  BY DEF Stop, SelectError, StartBatch, EndBatch, Tick, OpenNet
<1>2. TypeOK'
  <2>1. ready \in Seq(Handles) /\ Len(ready) \in Nat
    BY LenProperties DEF IInv, TypeOK
  <2>2. time' \in Nat /\ batch' \in Nat
    BY <2>1 DEF IInv, TypeOK, Stop, SelectError, StartBatch, EndBatch, Tick, OpenNet
  <2>3. phase' \in Phases
    BY DEF IInv, TypeOK, Stop, SelectError, StartBatch, EndBatch, Tick, OpenNet,
           Phases, Ended
  <2>4. UNCHANGED when /\ polling' \in BOOLEAN /\ cqError' \in BOOLEAN
    BY DEF IInv, TypeOK, Stop, SelectError, StartBatch, EndBatch, Tick, OpenNet
  <2> QED BY <1>1, <2>2, <2>3, <2>4 DEF IInv, TypeOK
<1>3. RunInv'
  BY <1>1 DEF IInv, TypeOK, RunInv, Stop, SelectError, StartBatch, EndBatch, Tick,
              OpenNet, Ended
<1>4. QueueInv' /\ AwaitInv' /\ OwnerInv' /\ DisciplineInv'
  BY <1>1 DEF IInv, QueueInv, AwaitInv, OwnerInv, DisciplineInv, Live
<1> QED BY <1>2, <1>3, <1>4 DEF IInv

(* An expired timer moves from the timer queue to the deque.               *)
LEMMA ExpireTimerStep ==
  ASSUME IInv, NEW h \in Handles, ExpireTimer(h)
  PROVE  IInv'
<1> USE DEF ExpireTimer, frameVars, loopVars, fabricVars
<1>1. /\ h \in schedule /\ state[h] = "kScheduled" /\ point[h] = "timer"
      /\ h \notin Range(ready)
      /\ ready \in Seq(Handles) /\ Len(ready) \in Nat
  BY LenProperties DEF Expired, IInv, QueueInv, TypeOK
<1>2. /\ ready' \in Seq(Handles)
      /\ Range(ready') = Range(ready) \cup {h}
      /\ Len(ready') = Len(ready) + 1
      /\ IsInjective(ready')
  BY <1>1, PushBack DEF IInv, QueueInv
<1>3. TypeOK'
  BY <1>2 DEF IInv, TypeOK
<1>4. QueueInv'
  BY <1>1, <1>2 DEF IInv, QueueInv, Resumable
<1>5. RunInv'
  BY <1>2 DEF IInv, RunInv, Ended
<1>6. AwaitInv' /\ OwnerInv' /\ DisciplineInv'
  BY DEF IInv, AwaitInv, OwnerInv, DisciplineInv, Live
<1> QED BY <1>3, <1>4, <1>5, <1>6 DEF IInv

(* The NIC moves a frame from the operations in flight to the completion   *)
(* queue, or drops it behind an error.                                     *)
LEMMA NicStep ==
  ASSUME IInv, NEW h \in Handles, Complete(h) \/ CompleteError(h)
  PROVE  IInv'
<1> USE DEF Complete, CompleteError, frameVars, loopVars, fabricVars
<1>1. /\ h \in inflight /\ inflight' = inflight \ {h}
      /\ state[h] = "kSuspend" /\ point[h] = "op" /\ h \notin Range(cq)
      /\ cq \in Seq(Handles) /\ IsInjective(cq)
      /\ UNCHANGED <<frameVars, state, loopVars, polling>>
  BY DEF IInv, QueueInv, TypeOK
<1>2. /\ Append(cq, h) \in Seq(Handles)
      /\ Range(Append(cq, h)) = Range(cq) \cup {h}
      /\ IsInjective(Append(cq, h))
  BY <1>1, PushBack
<1>3. cq' = cq \/ cq' = Append(cq, h)
  OBVIOUS
<1>4. /\ cq' \in Seq(Handles)
      /\ Range(cq') \subseteq Range(cq) \cup {h}
      /\ IsInjective(cq')
  BY <1>1, <1>2, <1>3
<1>5. TypeOK'
  BY <1>1, <1>4 DEF IInv, TypeOK
<1>6. QueueInv'
  BY <1>1, <1>4 DEF IInv, QueueInv
<1>7. AwaitInv' /\ RunInv' /\ OwnerInv' /\ DisciplineInv'
  BY <1>1 DEF IInv, AwaitInv, RunInv, OwnerInv, DisciplineInv, Live
<1> QED BY <1>5, <1>6, <1>7 DEF IInv

(* Select queues the frames of the entries it reads: they are suspended at *)
(* an operation, so none is free, and none is in the deque already.        *)
LEMMA SelectStep ==
  ASSUME IInv, Select
  PROVE  IInv'
<1> DEFINE n == IF ~polling THEN 0
                ELSE IF Len(cq) < MaxCQEntries THEN Len(cq) ELSE MaxCQEntries
           events == SubSeq(cq, 1, n)
           rest == SubSeq(cq, n + 1, Len(cq))
<1>1. /\ ready \in Seq(Handles) /\ cq \in Seq(Handles)
      /\ IsInjective(ready) /\ IsInjective(cq)
      /\ Len(cq) \in Nat /\ Len(ready) \in Nat
  BY LenProperties DEF IInv, QueueInv, TypeOK
<1>2. n \in 0 .. Len(cq)
  BY <1>1, LoopAssumption
<1> HIDE DEF n
<1>3. /\ events \in Seq(Handles) /\ rest \in Seq(Handles)
      /\ Range(events) \subseteq Range(cq) /\ Range(rest) \subseteq Range(cq)
      /\ IsInjective(events) /\ IsInjective(rest)
      /\ Range(events) \cap Range(rest) = {}
  BY <1>1, <1>2, ReadFront
<1>4. \A h \in Range(events) : /\ h \in Handles
                               /\ state[h] = "kSuspend" /\ point[h] = "op"
                               /\ h \notin Range(ready) /\ h \notin schedule
                               /\ h \notin inflight
  BY <1>3, <1>1, RangeOfSeq DEF IInv, QueueInv
<1>5. /\ phase = "select" /\ phase' = "expire"
      /\ cq' = rest
      /\ state' = SetAll(state, Range(events), "kScheduled")
      /\ ready' = ready \o events
      /\ UNCHANGED <<frameVars, schedule, when, time, batch, cur, raised,
                     inflight, cqError, polling>>
  BY <1>4 DEF Select, n, events, rest
<1> HIDE DEF events, rest
<1>6. /\ ready' \in Seq(Handles)
      /\ Range(ready') = Range(ready) \cup Range(events)
      /\ IsInjective(ready')
  <2>1. Range(ready) \cap Range(events) = {}
    BY <1>4
  <2> QED BY <2>1, <1>1, <1>3, <1>5, PushAll
<1>7. /\ state' \in [Handles -> States]
      /\ \A h \in Range(events) : state'[h] = "kScheduled"
      /\ \A h \in Handles : h \notin Range(events) => state'[h] = state[h]
  BY <1>4, <1>5 DEF SetAll, IInv, TypeOK, States
<1>8. TypeOK'
  BY <1>3, <1>5, <1>6, <1>7 DEF IInv, TypeOK, Phases, frameVars
<1>9. QueueInv'
  <2>1. \A h \in Range(ready) : h \in Handles /\ h \notin Range(events)
    BY <1>1, <1>4, RangeOfSeq
  <2>2. \A h \in Range(rest) : h \in Handles /\ h \in Range(cq) /\ h \notin Range(events)
    BY <1>1, <1>3, RangeOfSeq
  <2>3. \A h \in schedule \cup inflight : h \in Handles /\ h \notin Range(events)
    BY <1>4 DEF IInv, TypeOK
  <2> QED BY <1>3, <1>4, <1>5, <1>6, <1>7, <2>1, <2>2, <2>3
          DEF IInv, QueueInv, frameVars, Resumable
<1>10. AwaitInv'
  BY <1>4, <1>5, <1>7 DEF IInv, TypeOK, AwaitInv, Live, frameVars, Resumable
<1>11. RunInv' /\ OwnerInv' /\ DisciplineInv'
  BY <1>5 DEF IInv, RunInv, OwnerInv, DisciplineInv, frameVars, Ended
<1> QED BY <1>8, <1>9, <1>10, <1>11 DEF IInv

(* The running frame is not queued anywhere, and where it waits next is    *)
(* for its co_await to decide.                                             *)
LEMMA RunningFacts ==
  ASSUME IInv, Running
  PROVE  /\ cur \in Handles
         /\ point[cur] = "running"
         /\ cur \notin Range(ready) \cup schedule \cup inflight \cup Range(cq)
         /\ ready \in Seq(Handles) /\ cq \in Seq(Handles)
         /\ Len(ready) \in Nat
         /\ \A h \in Handles : point[h] = "running" => h = cur
         /\ phase = "run" /\ cur # Null
<1>1. cur \in Handles /\ phase = "run" /\ cur # Null
  BY DEF Running, IInv, TypeOK
<1>2. point[cur] = "running"
  BY <1>1 DEF IInv, RunInv
<1> QED BY <1>1, <1>2, LenProperties DEF IInv, TypeOK, RunInv, QueueInv, Resumable

(* A frame that is free is in no queue, and no frame refers to it.         *)
LEMMA FreeFacts ==
  ASSUME IInv, Running, NEW c \in Handles, point[c] = "free"
  PROVE  /\ c # cur
         /\ c \notin Range(ready) \cup schedule \cup inflight \cup Range(cq)
         /\ owner[c] = Null
         /\ \A h \in Handles : owner[h] # c
         /\ \A h \in Handles : point[h] = "child" => callee[h] # c
         /\ \A h \in Handles : Live(h) => next[h] # c
<1> USE RunningFacts, LoopAssumption
<1>1. c # cur /\ c # Null
  OBVIOUS
<1>2. c \notin Range(ready) \cup schedule \cup inflight \cup Range(cq)
  BY DEF IInv, QueueInv, Resumable
<1>3. owner[c] = Null /\ \A h \in Handles : owner[h] # c
  BY <1>1 DEF IInv, OwnerInv
<1>4. \A h \in Handles : point[h] = "child" => callee[h] # c
  BY <1>3 DEF IInv, AwaitInv
<1>5. \A h \in Handles : Live(h) => next[h] # c
  BY <1>1 DEF IInv, AwaitInv
<1> QED BY <1>1, <1>2, <1>3, <1>4, <1>5

(* A frame creates a child at point p, where the loop will find it, and    *)
(* suspends in its co_await: what that does to the frames, whichever queue *)
(* holds the child.                                                        *)
AwaitsNew(c, p) ==
  /\ next' = [next EXCEPT ![c] = cur]
  /\ owner' = [owner EXCEPT ![c] = cur]
  /\ held' = [held EXCEPT ![c] = "temporary"]
  /\ callee' = [callee EXCEPT ![cur] = c]
  /\ point' = [point EXCEPT ![c] = p, ![cur] = "child"]
  /\ state' = [state EXCEPT ![c] = "kScheduled", ![cur] = "kSuspend"]
  /\ cur' = Null
  /\ UNCHANGED <<result, raised>>

LEMMA AwaitNewChild ==
  ASSUME IInv, Running, NEW c \in Handles, point[c] = "free",
         NEW p \in {"initial", "timer"}, AwaitsNew(c, p)
  PROVE  /\ point'[c] = p /\ state'[c] = "kScheduled"
         /\ \A h \in Handles : h # c /\ h # cur =>
              point'[h] = point[h] /\ state'[h] = state[h]
         /\ \A h \in Handles : point'[h] # "running"
         /\ AwaitInv' /\ OwnerInv' /\ DisciplineInv'
<1>2. /\ cur \in Handles /\ point[cur] = "running"
      /\ cur # Null /\ Null \notin Handles
      /\ \A h \in Handles : point[h] = "running" => h = cur
  BY RunningFacts, LoopAssumption
<1>3. /\ c # cur
      /\ owner[c] = Null
      /\ \A h \in Handles : owner[h] # c
      /\ \A h \in Handles : point[h] = "child" => callee[h] # c
      /\ \A h \in Handles : Live(h) => next[h] # c
  BY FreeFacts
<1>6. /\ point'[c] = p /\ point'[cur] = "child"
      /\ state'[c] = "kScheduled" /\ state'[cur] = "kSuspend"
      /\ next'[c] = cur /\ callee'[cur] = c /\ owner'[c] = cur /\ held'[c] = "temporary"
      /\ \A h \in Handles : h # cur => callee'[h] = callee[h]
      /\ \A h \in Handles : h # c => /\ next'[h] = next[h]
                                    /\ owner'[h] = owner[h]
                                    /\ held'[h] = held[h]
      /\ \A h \in Handles : h # c /\ h # cur => /\ point'[h] = point[h]
                                                /\ state'[h] = state[h]
  BY <1>2, <1>3 DEF IInv, TypeOK, AwaitsNew
<1>9. AwaitInv'
  <2>1. \A h \in Handles : point[h] = "child" =>
           h # c /\ h # cur /\ callee[h] # c /\ callee[h] \in Handles
    BY <1>2, <1>3 DEF IInv, AwaitInv
  <2>2. \A h \in Handles : point'[h] = "child" =>
           /\ callee'[h] \in Handles
           /\ owner'[callee'[h]] = h
           /\ state'[h] = "kScheduled" => point'[callee'[h]] = "final"
    <3> TAKE h \in Handles
    <3>1. CASE h = cur
      BY <3>1, <1>6
    <3>2. CASE h # cur /\ point'[h] = "child"
      <4>1. h # c /\ point[h] = "child"
        BY <3>2, <1>6
      <4> QED BY <4>1, <3>2, <2>1, <1>2, <1>6 DEF IInv, AwaitInv
    <3> QED BY <3>1, <3>2
  <2>3. \A x \in Handles : Live(x)' /\ next'[x] # Null =>
           /\ point'[next'[x]] = "child"
           /\ callee'[next'[x]] = x
           /\ state'[next'[x]] = "kSuspend"
    <3> TAKE x \in Handles
    <3>1. CASE x = c
      BY <3>1, <1>6
    <3>2. CASE x # c /\ Live(x)' /\ next'[x] # Null
      <4>1. Live(x) /\ next[x] # Null /\ next'[x] = next[x]
        BY <3>2, <1>2, <1>6 DEF Live, Resumable
      <4>2. /\ next[x] \in Handles
            /\ point[next[x]] = "child" /\ callee[next[x]] = x /\ state[next[x]] = "kSuspend"
        BY <4>1 DEF IInv, AwaitInv, TypeOK
      <4> QED BY <4>1, <4>2, <2>1, <1>6
    <3> QED BY <3>1, <3>2
  <2>4. \A h \in Handles : point'[h] \in Resumable => state'[h] # "kUnschedule"
    BY <1>6 DEF IInv, AwaitInv
  <2> QED BY <2>2, <2>3, <2>4 DEF AwaitInv
<1>10. \A h \in Handles : point'[h] # "running"
  BY <1>2, <1>6
<1>11. OwnerInv'
  <2> SUFFICES ASSUME NEW x \in Handles, owner'[x] # Null
               PROVE  /\ point'[x] # "free"
                      /\ owner'[x] # x
                      /\ point'[owner'[x]] \in {"running", "child", "op"}
    BY DEF OwnerInv
  <2>1. CASE x = c
    BY <2>1, <1>2, <1>3, <1>6
  <2>2. CASE x # c
    <3>1. /\ owner'[x] = owner[x] /\ owner[x] \in Handles /\ owner[x] # c
          /\ point[x] # "free" /\ owner[x] # x
          /\ point[owner[x]] \in {"running", "child", "op"}
      BY <2>2, <1>3, <1>6 DEF IInv, TypeOK, OwnerInv
    <3>2. point'[x] # "free"
      BY <2>2, <3>1, <1>6
    <3>3. point'[owner[x]] \in {"running", "child", "op"}
      BY <3>1, <1>6
    <3> QED BY <3>1, <3>2, <3>3
  <2> QED BY <2>1, <2>2
<1>12. DisciplineInv'
  BY <1>2, <1>3, <1>6 DEF IInv, TypeOK, DisciplineInv, AwaitsNew
<1> QED BY <1>6, <1>9, <1>10, <1>11, <1>12

(* co_await f(...): the child is in the deque.                             *)
LEMMA CallAwaitStep ==
  ASSUME IInv, NEW c \in Handles, CallAwait(c)
  PROVE  IInv'
<1>1. /\ Running /\ ~raised /\ point[c] = "free"
      /\ next' = [next EXCEPT ![c] = cur]
      /\ owner' = [owner EXCEPT ![c] = cur]
      /\ held' = [held EXCEPT ![c] = "temporary"]
      /\ callee' = [callee EXCEPT ![cur] = c]
      /\ point' = [point EXCEPT ![c] = "initial", ![cur] = "child"]
      /\ state' = [state EXCEPT ![c] = "kScheduled", ![cur] = "kSuspend"]
      /\ ready' = Append(ready, c)
      /\ cur' = Null
      /\ UNCHANGED <<result, schedule, when, time, phase, batch, raised, inflight,
                     cq, cqError, polling>>
  BY DEF CallAwait, Active, Create, SuspendOn, fabricVars
<1>2. /\ cur \in Handles /\ cur # Null
      /\ cur \notin Range(ready) \cup schedule \cup inflight \cup Range(cq)
      /\ c \notin Range(ready) \cup schedule \cup inflight \cup Range(cq)
      /\ ready \in Seq(Handles) /\ Len(ready) \in Nat
      /\ phase = "run" /\ Null \notin Handles
  BY <1>1, RunningFacts, FreeFacts, LoopAssumption
<1>3. /\ ready' \in Seq(Handles)
      /\ Range(ready') = Range(ready) \cup {c}
      /\ Len(ready') = Len(ready) + 1
      /\ IsInjective(ready')
  BY <1>1, <1>2, PushBack DEF IInv, QueueInv
<1>4. /\ point'[c] = "initial" /\ state'[c] = "kScheduled"
      /\ \A h \in Handles : h # c /\ h # cur =>
           point'[h] = point[h] /\ state'[h] = state[h]
      /\ \A h \in Handles : point'[h] # "running"
      /\ AwaitInv' /\ OwnerInv' /\ DisciplineInv'
  BY <1>1, AwaitNewChild DEF AwaitsNew
<1>5. TypeOK'
  BY <1>1, <1>2, <1>3 DEF IInv, TypeOK, Points, States
<1>6. QueueInv'
  <2>1. \A h \in Range(ready) \cup schedule \cup inflight \cup Range(cq) :
           h \in Handles /\ point'[h] = point[h] /\ state'[h] = state[h]
    BY <1>2, <1>4, RangeOfSeq DEF IInv, TypeOK
  <2>2. \A h \in Range(ready') : /\ state'[h] = "kScheduled"
                                /\ point'[h] \in Resumable
                                /\ h \notin schedule'
    <3> TAKE h \in Range(ready')
    <3>1. CASE h = c
      BY <3>1, <1>1, <1>2, <1>4 DEF Resumable
    <3>2. CASE h \in Range(ready)
      BY <3>2, <2>1, <1>1 DEF IInv, QueueInv
    <3> QED BY <3>1, <3>2, <1>3
  <2>3. /\ \A h \in schedule' : state'[h] = "kScheduled" /\ point'[h] = "timer"
        /\ \A h \in inflight' : state'[h] = "kSuspend" /\ point'[h] = "op" /\ h \notin Range(cq')
        /\ \A h \in Range(cq') : state'[h] = "kSuspend" /\ point'[h] = "op"
    BY <2>1, <1>1 DEF IInv, QueueInv
  <2> QED BY <2>2, <2>3, <1>1, <1>3 DEF IInv, QueueInv
<1>7. RunInv'
  BY <1>1, <1>2, <1>3, <1>4 DEF IInv, TypeOK, RunInv, Ended
<1> QED BY <1>4, <1>5, <1>6, <1>7 DEF IInv

(* co_await Sleep(d): the child is in the timer queue.                     *)
LEMMA SleepAwaitStep ==
  ASSUME IInv, NEW c \in Handles, NEW d \in Delays, SleepAwait(c, d)
  PROVE  IInv'
<1>1. /\ Running /\ point[c] = "free"
      /\ next' = [next EXCEPT ![c] = cur]
      /\ owner' = [owner EXCEPT ![c] = cur]
      /\ held' = [held EXCEPT ![c] = "temporary"]
      /\ callee' = [callee EXCEPT ![cur] = c]
      /\ point' = [point EXCEPT ![c] = "timer", ![cur] = "child"]
      /\ state' = [state EXCEPT ![c] = "kScheduled", ![cur] = "kSuspend"]
      /\ schedule' = schedule \cup {c}
      /\ when' = [when EXCEPT ![c] = time + d]
      /\ cur' = Null
      /\ UNCHANGED <<result, ready, time, phase, batch, raised, inflight,
                     cq, cqError, polling>>
  BY DEF SleepAwait, Active, Create, SuspendOn, fabricVars
<1>2. /\ cur \in Handles /\ cur # Null
      /\ cur \notin Range(ready) \cup schedule \cup inflight \cup Range(cq)
      /\ c \notin Range(ready) \cup schedule \cup inflight \cup Range(cq)
      /\ phase = "run" /\ Null \notin Handles
  BY <1>1, RunningFacts, FreeFacts, LoopAssumption
<1>3. /\ point'[c] = "timer" /\ state'[c] = "kScheduled"
      /\ \A h \in Handles : h # c /\ h # cur =>
           point'[h] = point[h] /\ state'[h] = state[h]
      /\ \A h \in Handles : point'[h] # "running"
      /\ AwaitInv' /\ OwnerInv' /\ DisciplineInv'
  BY <1>1, AwaitNewChild DEF AwaitsNew
<1>4. TypeOK'
  <2>1. when' \in [Handles -> Nat]
    BY <1>1, ClientAssumption DEF IInv, TypeOK
  <2> QED BY <2>1, <1>1, <1>2 DEF IInv, TypeOK, Points, States
<1>5. QueueInv'
  <2>1. \A h \in Range(ready) \cup schedule \cup inflight \cup Range(cq) :
           h \in Handles /\ point'[h] = point[h] /\ state'[h] = state[h]
    BY <1>2, <1>3, RangeOfSeq DEF IInv, TypeOK
  <2>2. \A h \in Range(ready') : /\ state'[h] = "kScheduled"
                                /\ point'[h] \in Resumable
                                /\ h \notin schedule'
    BY <2>1, <1>1, <1>2 DEF IInv, QueueInv
  <2>3. \A h \in schedule' : state'[h] = "kScheduled" /\ point'[h] = "timer"
    BY <2>1, <1>1, <1>3 DEF IInv, QueueInv
  <2>4. /\ \A h \in inflight' : state'[h] = "kSuspend" /\ point'[h] = "op" /\ h \notin Range(cq')
        /\ \A h \in Range(cq') : state'[h] = "kSuspend" /\ point'[h] = "op"
    BY <2>1, <1>1 DEF IInv, QueueInv
  <2> QED BY <2>2, <2>3, <2>4, <1>1 DEF IInv, QueueInv
<1>6. RunInv'
  BY <1>1, <1>2, <1>3 DEF IInv, TypeOK, RunInv, Ended
<1> QED BY <1>3, <1>4, <1>5, <1>6 DEF IInv

(* Future(f(...)): a fresh frame is queued and the caller goes on.         *)
LEMMA SpawnStep ==
  ASSUME IInv, Futures, NEW c \in Handles, Spawn(c)
  PROVE  IInv'
<1>1. /\ Running /\ point[c] = "free"
      /\ next' = [next EXCEPT ![c] = Null]
      /\ owner' = [owner EXCEPT ![c] = cur]
      /\ held' = [held EXCEPT ![c] = "future"]
      /\ point' = [point EXCEPT ![c] = "initial"]
      /\ state' = [state EXCEPT ![c] = "kScheduled"]
      /\ ready' = Append(ready, c)
      /\ UNCHANGED <<callee, result, schedule, when, time, phase, batch, cur, raised,
                     inflight, cq, cqError, polling>>
  BY DEF Spawn, Active, Create, fabricVars
<1>2. /\ cur \in Handles /\ point[cur] = "running" /\ c # cur
      /\ c \notin Range(ready) \cup schedule \cup inflight \cup Range(cq)
      /\ ready \in Seq(Handles) /\ Len(ready) \in Nat
      /\ phase = "run" /\ Null \notin Handles
      /\ owner[c] = Null
      /\ \A h \in Handles : owner[h] # c
      /\ \A h \in Handles : point[h] = "child" => callee[h] # c
      /\ \A h \in Handles : Live(h) => next[h] # c
  BY <1>1, RunningFacts, FreeFacts, LoopAssumption
<1>3. /\ ready' \in Seq(Handles)
      /\ Range(ready') = Range(ready) \cup {c}
      /\ Len(ready') = Len(ready) + 1
      /\ IsInjective(ready')
  BY <1>1, <1>2, PushBack DEF IInv, QueueInv
<1>4. /\ point'[c] = "initial" /\ state'[c] = "kScheduled"
      /\ next'[c] = Null /\ owner'[c] = cur
      /\ \A h \in Handles : h # c => /\ point'[h] = point[h]
                                    /\ state'[h] = state[h]
                                    /\ next'[h] = next[h]
                                    /\ owner'[h] = owner[h]
  BY <1>1, <1>2 DEF IInv, TypeOK
<1>5. TypeOK'
  BY <1>1, <1>2, <1>3 DEF IInv, TypeOK, Points, States
<1>6. QueueInv'
  <2>1. \A h \in Range(ready) \cup schedule \cup inflight \cup Range(cq) :
           h \in Handles /\ point'[h] = point[h] /\ state'[h] = state[h]
    BY <1>2, <1>4, RangeOfSeq DEF IInv, TypeOK
  <2>2. \A h \in Range(ready') : /\ state'[h] = "kScheduled"
                                /\ point'[h] \in Resumable
                                /\ h \notin schedule'
    <3> TAKE h \in Range(ready')
    <3>1. CASE h = c
      BY <3>1, <1>1, <1>2, <1>4 DEF Resumable
    <3>2. CASE h \in Range(ready)
      BY <3>2, <2>1, <1>1 DEF IInv, QueueInv
    <3> QED BY <3>1, <3>2, <1>3
  <2>3. /\ \A h \in schedule' : state'[h] = "kScheduled" /\ point'[h] = "timer"
        /\ \A h \in inflight' : state'[h] = "kSuspend" /\ point'[h] = "op" /\ h \notin Range(cq')
        /\ \A h \in Range(cq') : state'[h] = "kSuspend" /\ point'[h] = "op"
    BY <2>1, <1>1 DEF IInv, QueueInv
  <2> QED BY <2>2, <2>3, <1>1, <1>3 DEF IInv, QueueInv
<1>7. AwaitInv'
  <2>1. \A h \in Handles : point'[h] = "child" => h # c /\ point[h] = "child"
    BY <1>4
  <2>2. \A x \in Handles : Live(x)' /\ next'[x] # Null =>
           /\ Live(x) /\ next[x] # Null /\ next'[x] = next[x] /\ next[x] # c
           /\ next[x] \in Handles
    BY <1>2, <1>4 DEF Live, Resumable, IInv, TypeOK
  <2> QED BY <2>1, <2>2, <1>1, <1>2, <1>4 DEF IInv, AwaitInv
<1>8. RunInv'
  BY <1>1, <1>2, <1>3, <1>4 DEF IInv, TypeOK, RunInv, Ended
<1>9. OwnerInv'
  <2> SUFFICES ASSUME NEW x \in Handles, owner'[x] # Null
               PROVE  /\ point'[x] # "free"
                      /\ owner'[x] # x
                      /\ point'[owner'[x]] \in {"running", "child", "op"}
    BY DEF OwnerInv
  <2>1. CASE x = c
    BY <2>1, <1>2, <1>4
  <2>2. CASE x # c
    <3>1. /\ owner'[x] = owner[x] /\ owner[x] \in Handles /\ owner[x] # c
          /\ point[x] # "free" /\ owner[x] # x
          /\ point[owner[x]] \in {"running", "child", "op"}
      BY <2>2, <1>2, <1>4 DEF IInv, TypeOK, OwnerInv
    <3> QED BY <3>1, <2>2, <1>4
  <2> QED BY <2>1, <2>2
<1>10. DisciplineInv'
  BY <1>1 DEF IInv, DisciplineInv
<1> QED BY <1>5, <1>6, <1>7, <1>8, <1>9, <1>10 DEF IInv

(* co_await of a Future whose child is done, a throw, and a refused post   *)
(* only set the exception, and the last marks the running frame kSuspend.  *)
LEMMA RaisingSteps ==
  ASSUME IInv, \/ \E c \in Handles : AwaitDone(c)
               \/ MayThrow /\ PostRefused
               \/ MayThrow /\ Throw
  PROVE  IInv'
<1> USE DEF AwaitDone, PostRefused, Throw, Active
<1>1. /\ Running
      /\ state' = state \/ state' = [state EXCEPT ![cur] = "kSuspend"]
      /\ UNCHANGED <<frameVars, ready, schedule, when, time, phase, batch, cur,
                     fabricVars>>
  OBVIOUS
<1>2. /\ cur \in Handles /\ point[cur] = "running"
      /\ cur \notin Range(ready) \cup schedule \cup inflight \cup Range(cq)
  BY <1>1, RunningFacts
<1>3. raised' \in BOOLEAN
  OBVIOUS
<1>4. state' \in [Handles -> States] /\ \A h \in Handles : h # cur => state'[h] = state[h]
  BY <1>1, <1>2 DEF IInv, TypeOK, States
<1>5. ~MayThrow => ~raised'
  BY DEF IInv, DisciplineInv
<1> USE DEF frameVars, fabricVars
<1>6. TypeOK'
  BY <1>1, <1>3, <1>4 DEF IInv, TypeOK
<1>7. QueueInv'
  <2>1. \A h \in Range(ready) \cup schedule \cup inflight \cup Range(cq) : state'[h] = state[h]
    BY <1>2, <1>4, RangeOfSeq DEF IInv, TypeOK
  <2> QED BY <2>1, <1>1 DEF IInv, QueueInv
<1>8. AwaitInv'
  <2>1. \A h \in Handles : point[h] \in Resumable => state'[h] = state[h]
    BY <1>2, <1>4 DEF Resumable
  <2> QED BY <2>1, <1>1 DEF IInv, TypeOK, AwaitInv, Live, Resumable
<1>9. RunInv' /\ OwnerInv'
  BY <1>1 DEF IInv, RunInv, OwnerInv
<1>10. DisciplineInv'
  BY <1>1, <1>5 DEF IInv, DisciplineInv
<1> QED BY <1>6, <1>7, <1>8, <1>9, <1>10 DEF IInv

(* co_await of a Future whose child is not done.  The child is suspended,  *)
(* hence not kUnschedule, so schedule() does nothing.                      *)
LEMMA AwaitFutureStep ==
  ASSUME IInv, NEW c \in Handles, AwaitFuture(c)
  PROVE  IInv'
<1>1. /\ Running /\ owner[c] = cur /\ point[c] \notin {"free", "final"}
      /\ held[c] = "future"
      /\ next' = [next EXCEPT ![c] = cur]
      /\ point' = [point EXCEPT ![cur] = "child"]
      /\ callee' = [callee EXCEPT ![cur] = c]
      /\ cur' = Null
      /\ UNCHANGED <<result, owner, held, schedule, when, time, phase, batch, raised,
                     inflight, cq, cqError, polling>>
  BY DEF AwaitFuture, Active, IsFuture, SuspendOn, fabricVars
<1>2. /\ cur \in Handles /\ point[cur] = "running" /\ cur # Null
      /\ cur \notin Range(ready) \cup schedule \cup inflight \cup Range(cq)
      /\ ready \in Seq(Handles) /\ Null \notin Handles
      /\ \A h \in Handles : point[h] = "running" => h = cur
      /\ phase = "run"
  BY <1>1, RunningFacts, LoopAssumption
<1>3. c # cur /\ point[c] \in Resumable
  BY <1>1, <1>2 DEF IInv, OwnerInv, TypeOK, Points, Resumable
<1>4. ~MustCall(c)
  BY <1>3 DEF MustCall, IInv, AwaitInv
<1>5. /\ ready' = ready
      /\ state' = [state EXCEPT ![cur] = "kSuspend"]
  BY <1>2, <1>3, <1>4 DEF AwaitFuture, IInv, TypeOK
<1>6. /\ point'[cur] = "child" /\ state'[cur] = "kSuspend" /\ callee'[cur] = c
      /\ next'[c] = cur
      /\ \A h \in Handles : h # c => next'[h] = next[h]
      /\ \A h \in Handles : h # cur => /\ point'[h] = point[h]
                                      /\ state'[h] = state[h]
                                      /\ callee'[h] = callee[h]
  BY <1>1, <1>2, <1>5 DEF IInv, TypeOK
<1>7. TypeOK'
  BY <1>1, <1>2, <1>5 DEF IInv, TypeOK, Points, States
<1>8. QueueInv'
  <2>1. \A h \in Range(ready) \cup schedule \cup inflight \cup Range(cq) :
           h \in Handles /\ point'[h] = point[h] /\ state'[h] = state[h]
    BY <1>2, <1>6, RangeOfSeq DEF IInv, TypeOK
  <2> QED BY <2>1, <1>1, <1>5 DEF IInv, QueueInv
<1>9. AwaitInv'
  <2>1. \A h \in Handles : point'[h] = "child" =>
           /\ callee'[h] \in Handles
           /\ owner'[callee'[h]] = h
           /\ state'[h] = "kScheduled" => point'[callee'[h]] = "final"
    <3> TAKE h \in Handles
    <3>1. CASE h = cur
      BY <3>1, <1>1, <1>6
    <3>2. CASE h # cur /\ point'[h] = "child"
      <4>1. /\ point[h] = "child" /\ callee'[h] = callee[h] /\ callee[h] \in Handles
            /\ owner[callee[h]] = h
            /\ state'[h] = "kScheduled" => point[callee[h]] = "final"
        BY <3>2, <1>6 DEF IInv, AwaitInv
      <4> QED BY <4>1, <1>1, <1>2, <1>6
    <3> QED BY <3>1, <3>2
  <2>2. \A x \in Handles : Live(x)' /\ next'[x] # Null =>
           /\ point'[next'[x]] = "child"
           /\ callee'[next'[x]] = x
           /\ state'[next'[x]] = "kSuspend"
    <3> TAKE x \in Handles
    <3>1. CASE x = c
      BY <3>1, <1>6
    <3>2. CASE x # c /\ Live(x)' /\ next'[x] # Null
      <4>1. Live(x) /\ next[x] # Null /\ next'[x] = next[x]
        BY <3>2, <1>2, <1>6 DEF Live, Resumable
      <4>2. /\ next[x] \in Handles
            /\ point[next[x]] = "child" /\ callee[next[x]] = x /\ state[next[x]] = "kSuspend"
        BY <4>1 DEF IInv, AwaitInv, TypeOK
      <4> QED BY <4>1, <4>2, <1>2, <1>6
    <3> QED BY <3>1, <3>2
  <2>3. \A h \in Handles : point'[h] \in Resumable => state'[h] # "kUnschedule"
    BY <1>6 DEF IInv, AwaitInv
  <2> QED BY <2>1, <2>2, <2>3 DEF AwaitInv
<1>10. RunInv'
  BY <1>1, <1>2, <1>5, <1>6 DEF IInv, TypeOK, RunInv, Ended
<1>11. OwnerInv'
  BY <1>1, <1>2, <1>6 DEF IInv, TypeOK, OwnerInv
<1>12. DisciplineInv'
  BY <1>1 DEF IInv, DisciplineInv
<1> QED BY <1>7, <1>8, <1>9, <1>10, <1>11, <1>12 DEF IInv

(* ~Future of a child that is done: it is in no queue, nothing waits for   *)
(* it, and it holds no child of its own.                                   *)
LEMMA DropFutureStep ==
  ASSUME IInv, NEW c \in Handles, DropFuture(c)
  PROVE  IInv'
<1>1. /\ Running /\ owner[c] = cur /\ point[c] = "final" /\ held[c] = "future"
      /\ point' = [point EXCEPT ![c] = "free"]
      /\ state' = [state EXCEPT ![c] = "kUnschedule"]
      /\ next' = [next EXCEPT ![c] = Null]
      /\ result' = [result EXCEPT ![c] = "unset"]
      /\ owner' = [owner EXCEPT ![c] = Null]
      /\ held' = [held EXCEPT ![c] = "temporary"]
      /\ UNCHANGED <<callee, loopVars, fabricVars>>
  BY DEF DropFuture, Active, IsFuture
<1>2. /\ cur \in Handles /\ point[cur] = "running" /\ cur # Null
      /\ ready \in Seq(Handles) /\ cq \in Seq(Handles) /\ Null \notin Handles
  BY <1>1, RunningFacts, LoopAssumption
<1>3. /\ c # cur
      /\ c \notin Range(ready) \cup schedule \cup inflight \cup Range(cq)
      /\ \A h \in Handles : owner[h] # c
      /\ \A h \in Handles : point[h] = "child" => callee[h] # c
      /\ \A h \in Handles : Live(h) /\ next[h] # Null => next[h] # c
  <2>1. c \notin Range(ready) \cup schedule \cup inflight \cup Range(cq)
    BY <1>1 DEF IInv, QueueInv, Resumable
  <2>2. \A h \in Handles : owner[h] # c
    BY <1>1, <1>2 DEF IInv, OwnerInv
  <2>3. \A h \in Handles : point[h] = "child" => callee[h] # c
    BY <1>1, <1>2 DEF IInv, AwaitInv
  <2>4. \A h \in Handles : Live(h) /\ next[h] # Null => next[h] # c
    BY <1>1 DEF IInv, AwaitInv
  <2> QED BY <1>1, <1>2, <2>1, <2>2, <2>3, <2>4
<1> USE DEF loopVars, fabricVars
<1>4. /\ point'[c] = "free" /\ next'[c] = Null /\ owner'[c] = Null
      /\ result'[c] = "unset" /\ held'[c] = "temporary"
      /\ \A h \in Handles : h # c => /\ point'[h] = point[h]
                                    /\ state'[h] = state[h]
                                    /\ next'[h] = next[h]
                                    /\ result'[h] = result[h]
                                    /\ owner'[h] = owner[h]
                                    /\ held'[h] = held[h]
  BY <1>1 DEF IInv, TypeOK
<1>5. TypeOK'
  BY <1>1 DEF IInv, TypeOK, Points, States, Results
<1>6. QueueInv'
  <2>1. \A h \in Range(ready) \cup schedule \cup inflight \cup Range(cq) :
           h \in Handles /\ point'[h] = point[h] /\ state'[h] = state[h]
    BY <1>2, <1>3, <1>4, RangeOfSeq DEF IInv, TypeOK
  <2> QED BY <2>1, <1>1 DEF IInv, QueueInv
<1>7. AwaitInv'
  <2>1. \A h \in Handles : point'[h] = "child" =>
           /\ callee'[h] \in Handles
           /\ owner'[callee'[h]] = h
           /\ state'[h] = "kScheduled" => point'[callee'[h]] = "final"
    BY <1>1, <1>3, <1>4 DEF IInv, AwaitInv
  <2>2. \A x \in Handles : Live(x)' /\ next'[x] # Null =>
           /\ point'[next'[x]] = "child"
           /\ callee'[next'[x]] = x
           /\ state'[next'[x]] = "kSuspend"
    <3> SUFFICES ASSUME NEW x \in Handles, Live(x)', next'[x] # Null
                 PROVE  /\ point'[next'[x]] = "child"
                        /\ callee'[next'[x]] = x
                        /\ state'[next'[x]] = "kSuspend"
      OBVIOUS
    <3>1. x # c /\ Live(x) /\ next'[x] = next[x]
      BY <1>4 DEF Live, Resumable
    <3>2. /\ next[x] \in Handles /\ next[x] # c
          /\ point[next[x]] = "child" /\ callee[next[x]] = x /\ state[next[x]] = "kSuspend"
      BY <3>1, <1>3 DEF IInv, AwaitInv, TypeOK
    <3> QED BY <3>1, <3>2, <1>1, <1>4
  <2>3. \A h \in Handles : point'[h] \in Resumable => state'[h] # "kUnschedule"
    BY <1>4 DEF IInv, AwaitInv, Resumable
  <2> QED BY <2>1, <2>2, <2>3 DEF AwaitInv
<1>8. RunInv'
  BY <1>1, <1>3, <1>4 DEF IInv, RunInv
<1>9. OwnerInv'
  <2> SUFFICES ASSUME NEW x \in Handles, owner'[x] # Null
               PROVE  /\ point'[x] # "free"
                      /\ owner'[x] # x
                      /\ point'[owner'[x]] \in {"running", "child", "op"}
    BY DEF OwnerInv
  <2>1. x # c /\ owner'[x] = owner[x] /\ point'[x] = point[x]
    BY <1>4
  <2>2. owner[x] \in Handles /\ owner[x] # c
    BY <2>1, <1>3 DEF IInv, TypeOK
  <2>3. point'[owner[x]] = point[owner[x]]
    BY <2>2, <1>4
  <2> QED BY <2>1, <2>3 DEF IInv, OwnerInv
<1>10. DisciplineInv'
  BY <1>1, <1>4 DEF IInv, DisciplineInv
<1> QED BY <1>5, <1>6, <1>7, <1>8, <1>9, <1>10 DEF IInv

(* An operation is posted: the frame waits for the NIC.                    *)
LEMMA PostOpStep ==
  ASSUME IInv, PostOp
  PROVE  IInv'
<1>1. /\ Running
      /\ state' = [state EXCEPT ![cur] = "kSuspend"]
      /\ point' = [point EXCEPT ![cur] = "op"]
      /\ inflight' = inflight \cup {cur}
      /\ cur' = Null
      /\ UNCHANGED <<next, result, callee, owner, held, ready, schedule, when, time,
                     phase, batch, raised, cq, cqError, polling>>
  BY DEF PostOp, Active
<1>2. /\ cur \in Handles /\ point[cur] = "running" /\ cur # Null /\ phase = "run"
      /\ cur \notin Range(ready) \cup schedule \cup inflight \cup Range(cq)
      /\ ready \in Seq(Handles) /\ cq \in Seq(Handles) /\ Null \notin Handles
      /\ \A h \in Handles : point[h] = "running" => h = cur
  BY <1>1, RunningFacts, LoopAssumption
<1>3. /\ point'[cur] = "op" /\ state'[cur] = "kSuspend"
      /\ \A h \in Handles : h # cur => point'[h] = point[h] /\ state'[h] = state[h]
  BY <1>1, <1>2 DEF IInv, TypeOK
<1>4. TypeOK'
  BY <1>1, <1>2 DEF IInv, TypeOK, Points, States
<1>5. QueueInv'
  <2>1. \A h \in Range(ready) \cup schedule \cup inflight \cup Range(cq) :
           h \in Handles /\ h # cur /\ point'[h] = point[h] /\ state'[h] = state[h]
    BY <1>2, <1>3, RangeOfSeq DEF IInv, TypeOK
  <2>2. \A h \in inflight' : /\ state'[h] = "kSuspend" /\ point'[h] = "op"
                             /\ h \notin Range(cq)
    BY <2>1, <1>1, <1>2, <1>3 DEF IInv, QueueInv
  <2> QED BY <2>1, <2>2, <1>1 DEF IInv, QueueInv
<1>6. AwaitInv'
  <2>1. \A h \in Handles : point'[h] = "child" =>
           /\ callee'[h] \in Handles
           /\ owner'[callee'[h]] = h
           /\ state'[h] = "kScheduled" => point'[callee'[h]] = "final"
    BY <1>1, <1>2, <1>3 DEF IInv, AwaitInv
  <2>2. \A x \in Handles : Live(x)' /\ next'[x] # Null =>
           /\ point'[next'[x]] = "child"
           /\ callee'[next'[x]] = x
           /\ state'[next'[x]] = "kSuspend"
    <3> SUFFICES ASSUME NEW x \in Handles, Live(x)', next'[x] # Null
                 PROVE  /\ point'[next'[x]] = "child"
                        /\ callee'[next'[x]] = x
                        /\ state'[next'[x]] = "kSuspend"
      OBVIOUS
    <3>1. Live(x) /\ next'[x] = next[x]
      BY <1>1, <1>2, <1>3 DEF Live, Resumable
    <3>2. /\ next[x] \in Handles
          /\ point[next[x]] = "child" /\ callee[next[x]] = x /\ state[next[x]] = "kSuspend"
      BY <3>1, <1>1 DEF IInv, AwaitInv, TypeOK
    <3> QED BY <3>1, <3>2, <1>1, <1>2, <1>3
  <2>3. \A h \in Handles : point'[h] \in Resumable => state'[h] # "kUnschedule"
    BY <1>3 DEF IInv, AwaitInv
  <2> QED BY <2>1, <2>2, <2>3 DEF AwaitInv
<1>7. RunInv'
  BY <1>1, <1>2, <1>3 DEF IInv, TypeOK, RunInv, Ended
<1>8. OwnerInv'
  BY <1>1, <1>2, <1>3 DEF IInv, TypeOK, OwnerInv
<1>9. DisciplineInv'
  BY <1>1, <1>2, <1>3 DEF IInv, TypeOK, DisciplineInv
<1> QED BY <1>4, <1>5, <1>6, <1>7, <1>8, <1>9 DEF IInv

(* Runone resumes the first handle of the deque: a frame that is suspended,*)
(* with, if it awaited a temporary, the child it frees now being done.     *)
LEMMA RunNextStep ==
  ASSUME IInv, RunNext
  PROVE  IInv'
<1> DEFINE h == Head(ready)
           dead == EndsWithAwait(h)
<1>1. /\ phase = "run" /\ cur = Null /\ batch > 0 /\ batch \in Nat
      /\ ready \in Seq(Handles) /\ cq \in Seq(Handles) /\ Len(ready) \in Nat
      /\ batch <= Len(ready) /\ ready # <<>> /\ Null \notin Handles
  <2>1. ready \in Seq(Handles) /\ Len(ready) \in Nat
    BY LenProperties DEF IInv, TypeOK
  <2>2. phase = "run" /\ batch > 0 /\ batch \in Nat /\ batch <= Len(ready)
    BY DEF RunNext, IInv, TypeOK, RunInv
  <2>3. ready # <<>>
    BY <2>1, <2>2, EmptySeq
  <2> QED BY <2>1, <2>2, <2>3, LoopAssumption DEF RunNext, IInv, TypeOK
<1>2. /\ h \in Handles /\ h \in Range(ready)
      /\ Tail(ready) \in Seq(Handles)
      /\ Len(Tail(ready)) = Len(ready) - 1
      /\ Range(Tail(ready)) \subseteq Range(ready)
      /\ IsInjective(Tail(ready)) /\ h \notin Range(Tail(ready))
  BY <1>1, PopFront DEF IInv, QueueInv
<1>3. /\ point[h] \in Resumable /\ state[h] = "kScheduled"
      /\ h \notin schedule /\ h \notin inflight /\ h \notin Range(cq)
  BY <1>2 DEF IInv, QueueInv
<1>4. /\ ready' = Tail(ready) /\ batch' = batch - 1 /\ cur' = h
      /\ raised' = (point[h] = "child" /\ result[callee[h]] = "exception")
      /\ point' = [SetAll(point, dead, "free") EXCEPT ![h] = "running"]
      /\ state' = [SetAll(state, dead, "kUnschedule") EXCEPT ![h] = "kUnschedule"]
      /\ callee' = [callee EXCEPT ![h] = Null]
      /\ next' = SetAll(next, dead, Null)
      /\ result' = SetAll(result, dead, "unset")
      /\ owner' = SetAll(owner, dead, Null)
      /\ held' = SetAll(held, dead, "temporary")
      /\ UNCHANGED <<phase, schedule, when, time, fabricVars>>
  BY <1>3 DEF RunNext
<1>5. /\ dead \subseteq Handles
      /\ \A x \in dead : point[x] = "final" /\ owner[x] = h /\ x # h
  BY <1>2, <1>3 DEF EndsWithAwait, IInv, AwaitInv, OwnerInv, Resumable
<1>6. ASSUME point[h] = "child", held[callee[h]] = "temporary"
      PROVE  callee[h] \in dead
  BY <1>6 DEF EndsWithAwait
<1>7. /\ \A x \in dead : x \notin Range(ready) \cup schedule \cup inflight \cup Range(cq)
      /\ \A x \in Handles : owner[x] \notin dead
      /\ \A x \in Handles : point[x] = "child" /\ x # h => callee[x] \notin dead
      /\ \A x \in Handles : Live(x) /\ next[x] # Null => next[x] \notin dead /\ next[x] # h
  <2>1. \A x \in dead : x \notin Range(ready) \cup schedule \cup inflight \cup Range(cq)
    BY <1>5 DEF IInv, QueueInv, Resumable
  <2>2. \A x \in Handles : owner[x] \notin dead
    BY <1>1, <1>5 DEF IInv, OwnerInv
  <2>3. \A x \in Handles : point[x] = "child" /\ x # h => callee[x] \notin dead
    BY <1>5 DEF IInv, AwaitInv
  <2>4. \A x \in Handles : Live(x) /\ next[x] # Null => next[x] \notin dead /\ next[x] # h
    BY <1>3, <1>5 DEF IInv, AwaitInv
  <2> QED BY <2>1, <2>2, <2>3, <2>4
<1> HIDE DEF h, dead
<1>8. /\ point'[h] = "running" /\ state'[h] = "kUnschedule" /\ callee'[h] = Null
      /\ \A x \in dead : /\ point'[x] = "free" /\ state'[x] = "kUnschedule"
                         /\ next'[x] = Null /\ result'[x] = "unset"
                         /\ owner'[x] = Null /\ held'[x] = "temporary"
      /\ \A x \in Handles : x # h => callee'[x] = callee[x]
      /\ \A x \in Handles : x \notin dead => /\ next'[x] = next[x]
                                             /\ result'[x] = result[x]
                                             /\ owner'[x] = owner[x]
                                             /\ held'[x] = held[x]
      /\ \A x \in Handles : x \notin dead /\ x # h => /\ point'[x] = point[x]
                                                      /\ state'[x] = state[x]
  BY <1>2, <1>4, <1>5 DEF IInv, TypeOK, SetAll
<1>9. TypeOK'
  <2>1. /\ point' \in [Handles -> Points] /\ state' \in [Handles -> States]
        /\ callee' \in [Handles -> Handles \cup {Null}]
    BY <1>2, <1>4 DEF IInv, TypeOK, SetAll, Points, States
  <2>2. /\ next' \in [Handles -> Handles \cup {Null}]
        /\ result' \in [Handles -> Results]
        /\ owner' \in [Handles -> Handles \cup {Null}]
        /\ held' \in [Handles -> {"temporary", "future"}]
    BY <1>4 DEF IInv, TypeOK, SetAll, Results
  <2>3. batch' \in Nat
    BY <1>1, <1>4
  <2>4. raised' \in BOOLEAN
    BY <1>4
  <2>5. ready' \in Seq(Handles) /\ cur' \in Handles
    BY <1>2, <1>4
  <2> QED BY <2>1, <2>2, <2>3, <2>4, <2>5, <1>4 DEF IInv, TypeOK, fabricVars
<1>10. QueueInv'
  <2>1. \A x \in Range(Tail(ready)) \cup schedule \cup inflight \cup Range(cq) :
           /\ x \in Handles /\ x # h /\ x \notin dead
           /\ point'[x] = point[x] /\ state'[x] = state[x]
    BY <1>1, <1>2, <1>3, <1>7, <1>8, RangeOfSeq DEF IInv, TypeOK
  <2> QED BY <2>1, <1>2, <1>4 DEF IInv, QueueInv, fabricVars
<1>11. AwaitInv'
  <2>1. \A x \in Handles : point'[x] = "child" =>
           /\ callee'[x] \in Handles
           /\ owner'[callee'[x]] = x
           /\ state'[x] = "kScheduled" => point'[callee'[x]] = "final"
    <3> SUFFICES ASSUME NEW x \in Handles, point'[x] = "child"
                 PROVE  /\ callee'[x] \in Handles
                        /\ owner'[callee'[x]] = x
                        /\ state'[x] = "kScheduled" => point'[callee'[x]] = "final"
      OBVIOUS
    <3>1. x # h /\ x \notin dead
      BY <1>8
    <3>2. /\ point[x] = "child" /\ state'[x] = state[x] /\ callee'[x] = callee[x]
      BY <3>1, <1>8
    <3>3. /\ callee[x] \in Handles /\ owner[callee[x]] = x /\ callee[x] \notin dead
          /\ state[x] = "kScheduled" => point[callee[x]] = "final"
      BY <3>1, <3>2, <1>7 DEF IInv, AwaitInv
    <3>4. callee[x] # h \/ point[callee[x]] # "final"
      BY <1>3 DEF Resumable
    <3> QED BY <3>2, <3>3, <3>4, <1>8
  <2>2. \A x \in Handles : Live(x)' /\ next'[x] # Null =>
           /\ point'[next'[x]] = "child"
           /\ callee'[next'[x]] = x
           /\ state'[next'[x]] = "kSuspend"
    <3> SUFFICES ASSUME NEW x \in Handles, Live(x)', next'[x] # Null
                 PROVE  /\ point'[next'[x]] = "child"
                        /\ callee'[next'[x]] = x
                        /\ state'[next'[x]] = "kSuspend"
      OBVIOUS
    <3>1. x \notin dead /\ next'[x] = next[x] /\ Live(x)
      <4>1. x \notin dead
        BY <1>8
      <4>2. point[x] = point'[x] \/ x = h
        BY <4>1, <1>8
      <4> QED BY <4>1, <4>2, <1>3, <1>8 DEF Live
    <3>2. /\ next[x] \in Handles /\ next[x] \notin dead /\ next[x] # h
          /\ point[next[x]] = "child" /\ callee[next[x]] = x /\ state[next[x]] = "kSuspend"
      BY <3>1, <1>7 DEF IInv, AwaitInv, TypeOK
    <3> QED BY <3>1, <3>2, <1>8
  <2>3. \A x \in Handles : point'[x] \in Resumable => state'[x] # "kUnschedule"
    <3> SUFFICES ASSUME NEW x \in Handles, point'[x] \in Resumable
                 PROVE  state'[x] # "kUnschedule"
      OBVIOUS
    <3>1. x # h /\ x \notin dead
      BY <1>8 DEF Resumable
    <3> QED BY <3>1, <1>8 DEF IInv, AwaitInv
  <2> QED BY <2>1, <2>2, <2>3 DEF AwaitInv
<1>12. RunInv'
  <2>1. \A x \in Handles : point'[x] = "running" <=> x = h
    <3> TAKE x \in Handles
    <3>1. x # Null /\ point[x] # "running"
      BY <1>1 DEF IInv, RunInv
    <3> QED BY <3>1, <1>8
  <2>2. batch' <= Len(ready')
    BY <1>1, <1>2, <1>4
  <2> QED BY <2>1, <2>2, <1>1, <1>4 DEF RunInv
<1>13. OwnerInv'
  <2> SUFFICES ASSUME NEW x \in Handles, owner'[x] # Null
               PROVE  /\ point'[x] # "free"
                      /\ owner'[x] # x
                      /\ point'[owner'[x]] \in {"running", "child", "op"}
    BY DEF OwnerInv
  <2>1. x \notin dead /\ owner'[x] = owner[x]
    BY <1>8
  <2>2. /\ owner[x] \in Handles /\ owner[x] \notin dead
        /\ point[x] # "free" /\ owner[x] # x
        /\ point[owner[x]] \in {"running", "child", "op"}
    BY <2>1, <1>7 DEF IInv, TypeOK, OwnerInv
  <2>3. point'[x] # "free"
    BY <2>1, <2>2, <1>8
  <2>4. point'[owner[x]] \in {"running", "child", "op"}
    BY <2>2, <1>8
  <2> QED BY <2>1, <2>2, <2>3, <2>4
<1>14. DisciplineInv'
  <2>1. ASSUME ~Futures, NEW x \in Handles
        PROVE  held'[x] = "temporary"
    BY <2>1, <1>8 DEF IInv, DisciplineInv
  <2>2. ASSUME ~Futures, NEW x \in Handles, owner'[x] # Null
        PROVE  point'[owner'[x]] = "child" /\ callee'[owner'[x]] = x
    <3>1. x \notin dead /\ owner'[x] = owner[x] /\ owner[x] \in Handles
      BY <2>2, <1>8 DEF IInv, TypeOK
    <3>2. /\ point[owner[x]] = "child" /\ callee[owner[x]] = x
          /\ held[x] = "temporary" /\ owner[x] \notin dead
      BY <2>2, <3>1, <1>7 DEF IInv, DisciplineInv
    <3>3. owner[x] # h
      BY <3>1, <3>2, <1>6
    <3> QED BY <3>1, <3>2, <3>3, <1>8
  <2>3. ASSUME ~MayThrow, NEW x \in Handles
        PROVE  result'[x] # "exception"
    BY <2>3, <1>8 DEF IInv, DisciplineInv
  <2>4. ASSUME ~MayThrow
        PROVE  ~raised'
    <3>1. point[h] = "child" => callee[h] \in Handles
      BY <1>2 DEF IInv, AwaitInv
    <3> QED BY <2>4, <3>1, <1>4 DEF IInv, DisciplineInv
  <2> QED BY <2>1, <2>2, <2>3, <2>4 DEF DisciplineInv
<1> QED BY <1>9, <1>10, <1>11, <1>12, <1>13, <1>14 DEF IInv

(* A frame whose children are done destroys exactly them: a frame that is  *)
(* done holds none.                                                        *)
LEMMA JoinedDescendants ==
  ASSUME IInv, Running, \A c \in Children(cur) : point[c] = "final"
  PROVE  Descendants(cur) = Children(cur)
<1> DEFINE S == Children(cur)
<1>1. \A x \in S : Children(x) = {}
  <2> SUFFICES ASSUME NEW x \in S, NEW y \in Children(x) PROVE FALSE
    OBVIOUS
  <2>1. x \in Handles /\ point[x] = "final" /\ y \in Handles /\ owner[y] = x /\ x # Null
    BY LoopAssumption DEF Children
  <2> QED BY <2>1 DEF IInv, OwnerInv
<1>2. S \in SUBSET Handles /\ S \subseteq S /\ \A x \in S : Children(x) \subseteq S
  BY <1>1 DEF Children
<1>3. Descendants(cur) \subseteq S
  BY <1>2 DEF Descendants
<1>4. S \subseteq Descendants(cur)
  BY DEF Descendants, Children
<1> QED BY <1>3, <1>4

(* A body ends over children that are done.  The frame its final_awaiter   *)
(* wakes is suspended in a co_await of it, so it is in no queue yet.       *)
LEMMA FinishStep ==
  ASSUME IInv, Running, \A c \in Children(cur) : point[c] = "final",
         NEW r \in {"value", "exception"}, r = "exception" => MayThrow,
         Finish(r)
  PROVE  IInv'
<1> DEFINE dead == Children(cur)
           n == next[cur]
<1>1. /\ cur \in Handles /\ point[cur] = "running" /\ cur # Null /\ phase = "run"
      /\ cur \notin Range(ready) \cup schedule \cup inflight \cup Range(cq)
      /\ ready \in Seq(Handles) /\ cq \in Seq(Handles) /\ Len(ready) \in Nat
      /\ Null \notin Handles
      /\ \A h \in Handles : point[h] = "running" => h = cur
  BY RunningFacts, LoopAssumption
<1>2. /\ point' = [SetAll(point, dead, "free") EXCEPT ![cur] = "final"]
      /\ state' = [h \in Handles |-> IF h \in dead THEN "kUnschedule"
                                     ELSE IF h = n THEN "kScheduled" ELSE state[h]]
      /\ next' = SetAll(next, dead, Null)
      /\ result' = [SetAll(result, dead, "unset") EXCEPT ![cur] = r]
      /\ callee' = SetAll(callee, dead, Null)
      /\ owner' = SetAll(owner, dead, Null)
      /\ held' = SetAll(held, dead, "temporary")
      /\ ready' = IF n = Null THEN ready ELSE Append(ready, n)
      /\ cur' = Null
      /\ raised' = FALSE
      /\ polling' = (polling /\ cur # Root)
      /\ inflight' = IF cur = Root THEN {} ELSE inflight
      /\ cq' = IF cur = Root THEN <<>> ELSE cq
      /\ cqError' = (cqError /\ cur # Root)
      /\ UNCHANGED <<schedule, when, time, phase, batch>>
  BY JoinedDescendants DEF Finish, Continuation, Wake
<1>3. /\ dead \subseteq Handles /\ cur \notin dead
      /\ \A x \in dead : point[x] = "final" /\ owner[x] = cur
      /\ \A x \in Handles : owner[x] = cur => x \in dead
  BY <1>1 DEF Children, IInv, OwnerInv
<1>4. /\ \A x \in dead : x \notin Range(ready) \cup schedule \cup inflight \cup Range(cq)
      /\ \A x \in Handles : owner[x] \notin dead
      /\ \A x \in Handles : point[x] = "child" => callee[x] \notin dead
      /\ \A x \in Handles : Live(x) /\ next[x] # Null => next[x] \notin dead
  <2>1. \A x \in dead : x \notin Range(ready) \cup schedule \cup inflight \cup Range(cq)
    BY <1>3 DEF IInv, QueueInv, Resumable
  <2>2. \A x \in Handles : owner[x] \notin dead
    BY <1>1, <1>3 DEF IInv, OwnerInv
  <2>3. \A x \in Handles : point[x] = "child" => callee[x] \notin dead
    BY <1>1, <1>3 DEF IInv, AwaitInv
  <2>4. \A x \in Handles : Live(x) /\ next[x] # Null => next[x] \notin dead
    BY <1>3 DEF IInv, AwaitInv
  <2> QED BY <2>1, <2>2, <2>3, <2>4
<1>5. ASSUME n # Null
      PROVE  /\ n \in Handles /\ n # cur /\ n \notin dead
             /\ point[n] = "child" /\ callee[n] = cur
             /\ n \notin Range(ready) \cup schedule \cup inflight \cup Range(cq)
  <2>1. Live(cur)
    BY <1>1 DEF Live
  <2>2. n \in Handles /\ point[n] = "child" /\ callee[n] = cur /\ state[n] = "kSuspend"
    BY <1>1, <1>5, <2>1 DEF IInv, AwaitInv, TypeOK
  <2> QED BY <2>1, <2>2, <1>1, <1>4, <1>5 DEF IInv, QueueInv
<1> HIDE DEF dead, n
<1>6. /\ point'[cur] = "final" /\ state'[cur] = state[cur] /\ result'[cur] = r
      /\ n # Null => state'[n] = "kScheduled"
      /\ \A x \in dead : /\ point'[x] = "free" /\ next'[x] = Null /\ owner'[x] = Null
                         /\ result'[x] = "unset" /\ held'[x] = "temporary"
      /\ \A x \in Handles : x \notin dead => /\ next'[x] = next[x]
                                             /\ callee'[x] = callee[x]
                                             /\ owner'[x] = owner[x]
                                             /\ held'[x] = held[x]
      /\ \A x \in Handles : x \notin dead /\ x # cur => /\ point'[x] = point[x]
                                                        /\ result'[x] = result[x]
      /\ \A x \in Handles : x \notin dead /\ x # n => state'[x] = state[x]
  BY <1>1, <1>2, <1>3, <1>5 DEF IInv, TypeOK, SetAll
<1>7. /\ ready' \in Seq(Handles) /\ IsInjective(ready')
      /\ Range(ready') \subseteq Range(ready) \cup {n}
      /\ Range(ready') \subseteq Handles
      /\ Len(ready) <= Len(ready')
  <2>1. CASE n = Null
    BY <2>1, <1>1, <1>2, RangeOfSeq DEF IInv, QueueInv
  <2>2. CASE n # Null
    <3>1. /\ ready' = Append(ready, n) /\ n \in Handles /\ n \notin Range(ready)
      BY <2>2, <1>2, <1>5
    <3>2. /\ ready' \in Seq(Handles) /\ IsInjective(ready')
          /\ Range(ready') = Range(ready) \cup {n}
          /\ Len(ready') = Len(ready) + 1
      BY <3>1, <1>1, PushBack DEF IInv, QueueInv
    <3> QED BY <3>2, <1>1, RangeOfSeq
  <2> QED BY <2>1, <2>2
<1>8. /\ inflight' \subseteq inflight
      /\ cq' \in Seq(Handles) /\ IsInjective(cq') /\ Range(cq') \subseteq Range(cq)
  <2>1. <<>> \in Seq(Handles) /\ IsInjective(<<>>) /\ Range(<<>>) = {}
    BY DEF IsInjective, Range
  <2> QED BY <2>1, <1>1, <1>2 DEF IInv, QueueInv
<1>9. TypeOK'
  <2>1. /\ point' \in [Handles -> Points]
        /\ callee' \in [Handles -> Handles \cup {Null}]
        /\ next' \in [Handles -> Handles \cup {Null}]
    BY <1>1, <1>2 DEF IInv, TypeOK, SetAll, Points
  <2>2. /\ result' \in [Handles -> Results]
        /\ owner' \in [Handles -> Handles \cup {Null}]
        /\ held' \in [Handles -> {"temporary", "future"}]
    BY <1>1, <1>2 DEF IInv, TypeOK, SetAll, Results
  <2>3. state' \in [Handles -> States]
    BY <1>2 DEF IInv, TypeOK, States
  <2>4. polling' \in BOOLEAN /\ cqError' \in BOOLEAN /\ raised' \in BOOLEAN
    BY <1>2
  <2> QED BY <2>1, <2>2, <2>3, <2>4, <1>2, <1>7, <1>8 DEF IInv, TypeOK
<1>10. QueueInv'
  <2>1. \A x \in Range(ready) \cup schedule \cup inflight \cup Range(cq) :
           /\ x \in Handles /\ x # cur /\ x \notin dead /\ x # n
           /\ point'[x] = point[x] /\ state'[x] = state[x]
    <3> SUFFICES ASSUME NEW x \in Range(ready) \cup schedule \cup inflight \cup Range(cq)
                 PROVE  /\ x \in Handles /\ x # cur /\ x \notin dead /\ x # n
                        /\ point'[x] = point[x] /\ state'[x] = state[x]
      OBVIOUS
    <3>1. x \in Handles /\ x # cur /\ x \notin dead
      BY <1>1, <1>4, RangeOfSeq DEF IInv, TypeOK
    <3>2. x # n
      BY <3>1, <1>1, <1>5
    <3> QED BY <3>1, <3>2, <1>6
  <2>2. \A x \in Range(ready') : /\ state'[x] = "kScheduled"
                                 /\ point'[x] \in Resumable
                                 /\ x \notin schedule
    <3> SUFFICES ASSUME NEW x \in Range(ready')
                 PROVE  state'[x] = "kScheduled" /\ point'[x] \in Resumable /\ x \notin schedule
      OBVIOUS
    <3>1. CASE x \in Range(ready)
      BY <3>1, <2>1 DEF IInv, QueueInv
    <3>2. CASE x = n /\ x \in Handles
      BY <3>2, <1>1, <1>5, <1>6 DEF Resumable
    <3> QED BY <3>1, <3>2, <1>7
  <2>3. \A x \in schedule' : state'[x] = "kScheduled" /\ point'[x] = "timer"
    BY <2>1, <1>2 DEF IInv, QueueInv
  <2>4. \A x \in inflight' : /\ state'[x] = "kSuspend" /\ point'[x] = "op"
                             /\ x \notin Range(cq')
    BY <2>1, <1>8 DEF IInv, QueueInv
  <2>5. \A x \in Range(cq') : state'[x] = "kSuspend" /\ point'[x] = "op"
    BY <2>1, <1>8 DEF IInv, QueueInv
  <2> QED BY <2>2, <2>3, <2>4, <2>5, <1>2, <1>7, <1>8 DEF QueueInv
<1>11. AwaitInv'
  <2>1. \A x \in Handles : point'[x] = "child" =>
           /\ callee'[x] \in Handles
           /\ owner'[callee'[x]] = x
           /\ state'[x] = "kScheduled" => point'[callee'[x]] = "final"
    <3> SUFFICES ASSUME NEW x \in Handles, point'[x] = "child"
                 PROVE  /\ callee'[x] \in Handles
                        /\ owner'[callee'[x]] = x
                        /\ state'[x] = "kScheduled" => point'[callee'[x]] = "final"
      OBVIOUS
    <3>1. x # cur /\ x \notin dead
      BY <1>6
    <3>2. point[x] = "child" /\ callee'[x] = callee[x]
      BY <3>1, <1>6
    <3>3. /\ callee[x] \in Handles /\ owner[callee[x]] = x /\ callee[x] \notin dead
          /\ state[x] = "kScheduled" => point[callee[x]] = "final"
      BY <3>2, <1>4 DEF IInv, AwaitInv
    <3>4. owner'[callee[x]] = x
      BY <3>3, <1>6
    <3>5. ASSUME state'[x] = "kScheduled" PROVE point'[callee[x]] = "final"
      <4>1. CASE x = n
        BY <4>1, <1>1, <1>5, <1>6
      <4>2. CASE x # n
        <5>1. point[callee[x]] = "final"
          BY <4>2, <3>1, <3>3, <3>5, <1>6
        <5>2. callee[x] # cur
          BY <5>1, <1>1
        <5> QED BY <5>1, <5>2, <3>3, <1>6
      <4> QED BY <4>1, <4>2
    <3> QED BY <3>2, <3>3, <3>4, <3>5
  <2>2. \A x \in Handles : Live(x)' /\ next'[x] # Null =>
           /\ point'[next'[x]] = "child"
           /\ callee'[next'[x]] = x
           /\ state'[next'[x]] = "kSuspend"
    <3> SUFFICES ASSUME NEW x \in Handles, Live(x)', next'[x] # Null
                 PROVE  /\ point'[next'[x]] = "child"
                        /\ callee'[next'[x]] = x
                        /\ state'[next'[x]] = "kSuspend"
      OBVIOUS
    <3>1. x # cur /\ x \notin dead
      BY <1>6 DEF Live, Resumable
    <3>2. Live(x) /\ next'[x] = next[x] /\ next[x] # Null
      BY <3>1, <1>6 DEF Live
    <3>3. /\ next[x] \in Handles /\ next[x] \notin dead
          /\ point[next[x]] = "child" /\ callee[next[x]] = x /\ state[next[x]] = "kSuspend"
      BY <3>2, <1>4 DEF IInv, AwaitInv, TypeOK
    <3>4. next[x] # cur /\ next[x] # n
      BY <3>1, <3>2, <3>3, <1>1, <1>5
    <3> QED BY <3>2, <3>3, <3>4, <1>6
  <2>3. \A x \in Handles : point'[x] \in Resumable => state'[x] # "kUnschedule"
    <3> SUFFICES ASSUME NEW x \in Handles, point'[x] \in Resumable
                 PROVE  state'[x] # "kUnschedule"
      OBVIOUS
    <3>1. x # cur /\ x \notin dead
      BY <1>6 DEF Resumable
    <3>2. point[x] \in Resumable /\ state[x] # "kUnschedule"
      BY <3>1, <1>6 DEF IInv, AwaitInv
    <3>3. CASE x = n
      BY <3>3, <1>1, <1>6
    <3>4. CASE x # n
      BY <3>1, <3>2, <3>4, <1>6
    <3> QED BY <3>3, <3>4
  <2> QED BY <2>1, <2>2, <2>3 DEF AwaitInv
<1>12. RunInv'
  <2>1. \A x \in Handles : point'[x] # "running" /\ x # Null
    <3> TAKE x \in Handles
    <3>1. CASE x \in dead \/ x = cur
      BY <3>1, <1>1, <1>6
    <3>2. CASE x \notin dead /\ x # cur
      BY <3>2, <1>1, <1>6
    <3> QED BY <3>1, <3>2
  <2>2. batch \in Nat /\ batch <= Len(ready) /\ Len(ready') \in Nat
    BY <1>1, <1>7, LenProperties DEF IInv, TypeOK, RunInv
  <2>3. batch <= Len(ready')
    BY <2>2, <1>1, <1>7
  <2> QED BY <2>1, <2>3, <1>1, <1>2 DEF RunInv
<1>13. OwnerInv'
  <2> SUFFICES ASSUME NEW x \in Handles, owner'[x] # Null
               PROVE  /\ point'[x] # "free"
                      /\ owner'[x] # x
                      /\ point'[owner'[x]] \in {"running", "child", "op"}
    BY DEF OwnerInv
  <2>1. x \notin dead /\ owner'[x] = owner[x] /\ owner[x] # Null
    BY <1>6
  <2>2. /\ owner[x] \in Handles /\ owner[x] \notin dead /\ owner[x] # cur
        /\ point[x] # "free" /\ owner[x] # x
        /\ point[owner[x]] \in {"running", "child", "op"}
    BY <2>1, <1>3, <1>4 DEF IInv, TypeOK, OwnerInv
  <2>3. point'[x] # "free"
    BY <2>1, <2>2, <1>6
  <2>4. point'[owner[x]] \in {"running", "child", "op"}
    BY <2>2, <1>6
  <2> QED BY <2>1, <2>2, <2>3, <2>4
<1>14. DisciplineInv'
  <2>1. ASSUME ~Futures, NEW x \in Handles
        PROVE  held'[x] = "temporary"
    BY <2>1, <1>6 DEF IInv, DisciplineInv
  <2>2. ASSUME ~Futures, NEW x \in Handles, owner'[x] # Null
        PROVE  point'[owner'[x]] = "child" /\ callee'[owner'[x]] = x
    <3>1. /\ x \notin dead /\ owner'[x] = owner[x] /\ owner[x] # Null
      BY <2>2, <1>6
    <3>2. /\ owner[x] \in Handles /\ owner[x] \notin dead /\ owner[x] # cur
          /\ point[owner[x]] = "child" /\ callee[owner[x]] = x
      BY <2>2, <3>1, <1>3, <1>4 DEF IInv, TypeOK, DisciplineInv
    <3> QED BY <3>1, <3>2, <1>6
  <2>3. ASSUME ~MayThrow, NEW x \in Handles
        PROVE  result'[x] # "exception"
    BY <2>3, <1>6 DEF IInv, DisciplineInv
  <2> QED BY <2>1, <2>2, <2>3, <1>2 DEF DisciplineInv
<1> QED BY <1>9, <1>10, <1>11, <1>12, <1>13, <1>14 DEF IInv

(* An exception unwinds a frame.  Under the discipline it holds no child:  *)
(* a frame that holds one at a time awaits it.                             *)
LEMMA UnwindStep ==
  ASSUME IInv, Disciplined, Unwind
  PROVE  IInv'
<1>1. Running /\ raised /\ Finish("exception")
  BY DEF Unwind
<1>2. MayThrow /\ ~Futures
  BY <1>1 DEF IInv, DisciplineInv, Disciplined
<1>3. Children(cur) = {}
  <2> SUFFICES ASSUME NEW c \in Handles, owner[c] = cur PROVE FALSE
    BY DEF Children
  <2>1. cur # Null /\ point[cur] = "running"
    BY <1>1, RunningFacts
  <2> QED BY <2>1, <1>2 DEF IInv, DisciplineInv
<1> QED BY <1>1, <1>2, <1>3, FinishStep

(* Every step of a disciplined program keeps the invariant.                *)
LEMMA NextIInv ==
  ASSUME IInv, Disciplined, [Next]_vars
  PROVE  IInv'
<1>1. CASE LoopStep
  BY <1>1, QuietSteps, SelectStep, ExpireTimerStep, RunNextStep DEF LoopStep
<1>2. CASE Nic
  BY <1>2, NicStep DEF Nic
<1>3. CASE Tick \/ Terminating \/ UNCHANGED vars
  BY <1>3, QuietSteps DEF Terminating
<1>4. CASE ClientStep
  <2>1. ASSUME NEW c \in Handles, CallAwait(c) PROVE IInv'
    BY <2>1, CallAwaitStep
  <2>2. ASSUME NEW c \in Handles, Futures, Spawn(c) PROVE IInv'
    BY <2>2, SpawnStep
  <2>3. ASSUME NEW c \in Handles, AwaitDone(c) PROVE IInv'
    BY <2>3, RaisingSteps
  <2>4. ASSUME NEW c \in Handles, AwaitFuture(c) PROVE IInv'
    BY <2>4, AwaitFutureStep
  <2>5. ASSUME NEW c \in Handles, DropFuture(c) PROVE IInv'
    BY <2>5, DropFutureStep
  <2>6. ASSUME NEW c \in Handles, NEW d \in Delays, SleepAwait(c, d) PROVE IInv'
    BY <2>6, SleepAwaitStep
  <2>7. CASE PostOp
    BY <2>7, PostOpStep
  <2>8. CASE MayThrow /\ (PostRefused \/ Throw)
    BY <2>8, RaisingSteps
  <2>9. CASE ReturnJoined
    BY <2>9, FinishStep DEF ReturnJoined, Return, Active
  <2>10. CASE Unwind
    BY <2>10, UnwindStep
  <2>11. CASE OpenNet
    BY <2>11, QuietSteps
  <2> QED BY <1>4, <2>1, <2>2, <2>3, <2>4, <2>5, <2>6, <2>7, <2>8, <2>9, <2>10, <2>11
          DEF ClientStep
<1> QED BY <1>1, <1>2, <1>3, <1>4 DEF Next

LEMMA InvariantHolds ==
  ASSUME Disciplined
  PROVE  Spec => []IInv
<1>1. IInv /\ [Next]_vars => IInv'
  BY NextIInv
<1> QED BY <1>1, InitIInv, PTL DEF Spec

-----------------------------------------------------------------------------
(* The variables of the runtime keep their types, whatever the coroutines  *)
(* of a disciplined program do.                                            *)
THEOREM TypeCorrect == Disciplined => (Spec => []TypeOK)
<1> SUFFICES ASSUME Disciplined PROVE Spec => []TypeOK
  OBVIOUS
<1>1. IInv => TypeOK
  BY DEF IInv
<1> QED BY <1>1, InvariantHolds, PTL

(* IO::Cancel never removes a handle from a queue, and for a disciplined   *)
(* program it need not: no handle in the deque, the timer queue, the       *)
(* completion queue or an operation's context outlives its frame, and no   *)
(* next points to a frame that has stopped waiting.                        *)
THEOREM NothingDangles == Disciplined => (Spec => []NoDangling)
<1> SUFFICES ASSUME Disciplined PROVE Spec => []NoDangling
  OBVIOUS
<1>1. ASSUME IInv PROVE NoDangling
  BY <1>1 DEF IInv, QueueInv, AwaitInv, NoDangling, Live, Resumable
<1> QED BY <1>1, InvariantHolds, PTL

(* Handle::schedule, final_awaiter, IO::Select and the timers never queue  *)
(* a frame that is queued already.                                         *)
THEOREM NeverQueuedTwice == Disciplined => (Spec => []QueuedOnce)
<1> SUFFICES ASSUME Disciplined PROVE Spec => []QueuedOnce
  OBVIOUS
<1>1. ASSUME IInv PROVE QueuedOnce
  <2>1. IsInjective(ready) /\ IsInjective(cq)
    BY <1>1 DEF IInv, QueueInv
  <2>2. Range(ready) \cap (schedule \cup inflight \cup Range(cq)) = {}
    BY <1>1 DEF IInv, QueueInv
  <2>3. schedule \cap (inflight \cup Range(cq)) = {}
    BY <1>1 DEF IInv, QueueInv
  <2>4. inflight \cap Range(cq) = {}
    BY <1>1 DEF IInv, QueueInv
  <2> QED BY <2>1, <2>2, <2>3, <2>4 DEF QueuedOnce
<1> QED BY <1>1, InvariantHolds, PTL

(* Runone resumes only frames that stand at a suspend point, and Select    *)
(* calls only handles whose frame is alive.                                *)
THEOREM NeverUndefined == Disciplined => (Spec => [](phase # "undefined"))
<1> SUFFICES ASSUME Disciplined PROVE Spec => [](phase # "undefined")
  OBVIOUS
<1>1. IInv => phase # "undefined"
  BY DEF IInv, RunInv
<1> QED BY <1>1, InvariantHolds, PTL

-----------------------------------------------------------------------------
(* The second invariant, on top of the first: what keeps a suspended frame *)
(* from being forgotten.                                                   *)
Waits(h) ==
  /\ point[h] = "initial" => h \in Range(ready)
  /\ point[h] = "timer" => h \in schedule \cup Range(ready)
  /\ point[h] = "op" => h \in inflight \cup Range(cq) \cup Range(ready) \/ cqError
  /\ point[h] = "child" => \/ h \in Range(ready) /\ point[callee[h]] = "final"
                           \/ Live(callee[h]) /\ next[callee[h]] = h

TimerInv == \A h \in Handles : point[h] = "timer" => h \in schedule \/ when[h] <= time

PollInv == ~polling => inflight = {} /\ cq = <<>> /\ ~cqError

WakeInv == (\A h \in Handles : Waits(h)) /\ TimerInv /\ PollInv

(* The frames are a tree under the root, held together by owner: without   *)
(* that, frames could await each other in a circle after the root is done. *)
Allocated == {h \in Handles : point[h] # "free"}

TreeInv ==
  /\ Root \in Allocated /\ owner[Root] = Null
  /\ \A h \in Allocated \ {Root} : owner[h] # Null
  /\ \A S \in SUBSET Handles : (\A x \in S : owner[x] \in S) => S = {}
  /\ IsFiniteSet(Allocated)

StopInv == phase = "stopped" => \A h \in Handles : point[h] = IF h = Root THEN "final" ELSE "free"

WInv == WakeInv /\ TreeInv /\ StopInv

-----------------------------------------------------------------------------
(* The tree of frames.  A step that frees the frames of D and changes the  *)
(* owner of no other keeps it.                                             *)
LEMMA TreeShrinks ==
  ASSUME TypeOK, TreeInv, NEW D \in SUBSET Handles, Root \notin D,
         \A h \in D : point'[h] = "free" /\ owner'[h] = Null,
         \A h \in Handles \ D : /\ point'[h] = "free" <=> point[h] = "free"
                                /\ owner'[h] = owner[h]
  PROVE  TreeInv'
<1> USE LoopAssumption
<1>1. Allocated' \subseteq Allocated /\ Root \in Allocated'
  BY DEF Allocated, TreeInv
<1>2. IsFiniteSet(Allocated')
  BY <1>1, FS_Subset DEF TreeInv
<1>3. owner'[Root] = Null /\ \A h \in Allocated' \ {Root} : owner'[h] # Null
  BY DEF Allocated, TreeInv
<1>4. ASSUME NEW S \in SUBSET Handles, \A x \in S : owner'[x] \in S
      PROVE  S = {}
  <2>1. \A x \in S : x \notin D /\ owner[x] \in S
    BY <1>4
  <2> QED BY <2>1 DEF TreeInv
<1> QED BY <1>1, <1>2, <1>3, <1>4 DEF TreeInv

(* So does a step in which the running frame creates a frame.              *)
LEMMA TreeGrows ==
  ASSUME IInv, TreeInv, Running, NEW c \in Handles, point[c] = "free",
         owner' = [owner EXCEPT ![c] = cur],
         \A h \in Handles \ {c} : point'[h] = "free" <=> point[h] = "free",
         point'[c] # "free"
  PROVE  TreeInv'
<1> USE LoopAssumption
<1>1. /\ cur \in Handles /\ cur # Null /\ c # cur
      /\ \A h \in Handles : owner[h] # c
      /\ owner'[c] = cur
      /\ \A h \in Handles \ {c} : owner'[h] = owner[h]
  BY RunningFacts, FreeFacts DEF IInv, TypeOK
<1>2. Allocated' = Allocated \cup {c}
  BY DEF Allocated
<1>3. IsFiniteSet(Allocated')
  BY <1>2, FS_AddElement DEF TreeInv
<1>4. /\ Root \in Allocated' /\ owner'[Root] = Null
      /\ \A h \in Allocated' \ {Root} : owner'[h] # Null
  BY <1>1, <1>2 DEF Allocated, TreeInv
<1>5. ASSUME NEW S \in SUBSET Handles, \A x \in S : owner'[x] \in S
      PROVE  S = {}
  <2>1. \A x \in S \ {c} : owner[x] \in S \ {c}
    BY <1>1, <1>5
  <2>2. S \ {c} = {}
    BY <2>1 DEF TreeInv
  <2> QED BY <1>1, <1>5, <2>2
<1> QED BY <1>3, <1>4, <1>5 DEF TreeInv

(* The awaits follow the tree downwards and there are finitely many        *)
(* frames, so some awaited frame awaits no other.                          *)
LEMMA NoAwaitCircle ==
  ASSUME IInv, TreeInv, NEW S \in SUBSET Handles,
         \A h \in S : point[h] = "child" /\ callee[h] \in S
  PROVE  S = {}
<1> DEFINE f == [h \in S |-> callee[h]]
<1>1. IsFiniteSet(S)
  BY FS_Subset DEF TreeInv, Allocated
<1>2. \A h \in S : owner[callee[h]] = h
  BY DEF IInv, AwaitInv
<1>3. f \in Injection(S, S)
  BY <1>2 DEF Injection, IsInjective
<1>4. f \in Surjection(S, S)
  BY <1>1, <1>3, FS_Injection
<1>5. \A x \in S : \E h \in S : x = callee[h]
  BY <1>4 DEF Surjection
<1>6. \A x \in S : owner[x] \in S
  BY <1>2, <1>5
<1> QED BY <1>6 DEF TreeInv

(* When the root frame is done but for its children, there are no others.  *)
LEMMA AllUnderRoot ==
  ASSUME IInv, TreeInv, \A c \in Children(Root) : point[c] = "final"
  PROVE  Allocated \subseteq {Root} \cup Children(Root)
<1> DEFINE S == Allocated \ ({Root} \cup Children(Root))
<1>1. ASSUME NEW h \in S PROVE owner[h] \in S
  <2>1. h \in Handles /\ owner[h] \in Handles /\ owner[h] # Root
    BY DEF Allocated, TreeInv, Children, IInv, TypeOK
  <2>2. point[owner[h]] \in {"running", "child", "op"}
    BY <2>1, LoopAssumption DEF IInv, OwnerInv
  <2> QED BY <2>1, <2>2 DEF Allocated
<1>2. S \in SUBSET Handles
  BY DEF Allocated
<1>3. S = {}
  BY <1>1, <1>2 DEF TreeInv
<1> QED BY <1>3

-----------------------------------------------------------------------------
(* A frame the step does not touch keeps waiting, if the queues keep it    *)
(* and the frame it awaits lives on or stays done.                         *)
LEMMA StaysWaiting ==
  ASSUME NEW h \in Handles, Waits(h),
         point'[h] = point[h], callee'[h] = callee[h],
         h \in Range(ready) => h \in Range(ready'),
         h \in schedule => h \in schedule' \cup Range(ready'),
         h \in inflight \cup Range(cq)
           => h \in inflight' \cup Range(cq') \cup Range(ready') \/ cqError',
         cqError => cqError',
         point[h] = "child" /\ point[callee[h]] = "final" => point'[callee[h]] = "final",
         point[h] = "child" /\ Live(callee[h])
           => Live(callee[h])' /\ next'[callee[h]] = next[callee[h]]
  PROVE  Waits(h)'
BY DEF Waits

(* IO::Run returns when nothing is queued and no completion queue is       *)
(* polled: then no frame is suspended anywhere.                            *)
LEMMA StopStep ==
  ASSUME IInv, WInv, Stop
  PROVE  StopInv'
<1>1. /\ schedule = {} /\ ready = <<>> /\ ~polling /\ phase = "select"
      /\ point' = point
  BY DEF Stop, Stopped, frameVars
<1>2. Range(ready) = {} /\ inflight = {} /\ Range(cq) = {} /\ ~cqError
  BY <1>1 DEF WInv, WakeInv, PollInv, Range
<1>3. \A h \in Handles : point[h] \notin {"initial", "timer", "op", "running"}
  <2>1. cur = Null
    BY <1>1 DEF IInv, RunInv
  <2>2. \A h \in Handles : point[h] # "running"
    BY <2>1, LoopAssumption DEF IInv, RunInv
  <2> QED BY <1>1, <1>2, <2>2 DEF WInv, WakeInv, Waits
<1>4. {h \in Handles : point[h] = "child"} = {}
  <2> DEFINE S == {h \in Handles : point[h] = "child"}
  <2>1. ASSUME NEW h \in S PROVE callee[h] \in S
    <3>1. callee[h] \in Handles /\ Live(callee[h])
      BY <1>2 DEF IInv, AwaitInv, WInv, WakeInv, Waits
    <3> QED BY <3>1, <1>3 DEF Live, Resumable
  <2> QED BY <2>1, NoAwaitCircle DEF WInv
<1>5. \A h \in Handles : point[h] \in {"free", "final"}
  BY <1>3, <1>4 DEF IInv, TypeOK, Points
<1>6. ASSUME NEW h \in Handles, h # Root PROVE point[h] = "free"
  <2>1. owner[h] # Null => owner[h] \in Handles /\ point[owner[h]] \in {"running", "child", "op"}
    BY DEF IInv, TypeOK, OwnerInv
  <2> QED BY <2>1, <1>5, <1>6 DEF WInv, TreeInv, Allocated
<1>7. point[Root] = "final"
  BY <1>5 DEF WInv, TreeInv, Allocated
<1> QED BY <1>1, <1>6, <1>7 DEF StopInv

(* Steps that change no frame and no queue.                                *)
LEMMA QuietWakeups ==
  ASSUME IInv, WInv,
         UNCHANGED <<frameVars, ready, schedule, when, inflight, cq, cqError>>,
         time' \in Nat, time <= time',
         polling' \/ polling' = polling,
         Stop \/ phase' # "stopped" \/ UNCHANGED vars
  PROVE  WInv'
<1> USE DEF frameVars, vars
<1>1. WakeInv'
  <2>1. \A h \in Handles : Waits(h)'
    BY DEF WInv, WakeInv, Waits, Live
  <2>2. TimerInv'
    <3> SUFFICES ASSUME NEW h \in Handles, point[h] = "timer", h \notin schedule
                 PROVE  when[h] <= time'
      BY DEF TimerInv
    <3>1. when[h] <= time /\ when[h] \in Nat /\ time \in Nat
      BY DEF WInv, WakeInv, TimerInv, IInv, TypeOK
    <3> QED BY <3>1
  <2> QED BY <2>1, <2>2 DEF WInv, WakeInv, PollInv
<1>2. TreeInv'
  BY DEF WInv, TreeInv, Allocated
<1>3. StopInv'
  BY StopStep DEF WInv, StopInv, loopVars
<1> QED BY <1>1, <1>2, <1>3 DEF WInv

(* Expired timers move to the deque, completions to the completion queue   *)
(* and from there to the deque.                                            *)
LEMMA QueueWakeups ==
  ASSUME IInv, WInv,
         Select \/ (\E h \in Handles : ExpireTimer(h)) \/ Nic,
         phase' # "undefined"
  PROVE  WInv'
<1> USE DEF frameVars, loopVars
<1>1. ready \in Seq(Handles) /\ cq \in Seq(Handles) /\ Len(cq) \in Nat
  BY LenProperties DEF IInv, TypeOK
<1>2. /\ UNCHANGED <<frameVars, when, time, polling>>
      /\ phase' # "stopped"
  BY DEF Select, ExpireTimer, Nic, Complete, CompleteError, Ended, fabricVars
<1>3. /\ Range(ready) \subseteq Range(ready')
      /\ schedule \subseteq schedule' \cup Range(ready')
      /\ cqError => cqError'
      /\ \/ cqError'
         \/ inflight \cup Range(cq) \subseteq inflight' \cup Range(cq') \cup Range(ready')
  <2>1. CASE Select
    <3> DEFINE n == IF ~polling THEN 0
                    ELSE IF Len(cq) < MaxCQEntries THEN Len(cq) ELSE MaxCQEntries
    <3>1. n \in 0 .. Len(cq)
      BY <1>1, LoopAssumption
    <3>2. /\ ready' = ready \o SubSeq(cq, 1, n)
          /\ cq' = SubSeq(cq, n + 1, Len(cq))
          /\ UNCHANGED <<schedule, inflight, cqError>>
      BY <2>1 DEF Select
    <3> HIDE DEF n
    <3>3. /\ SubSeq(cq, 1, n) \in Seq(Handles)
          /\ Range(cq) \subseteq Range(SubSeq(cq, 1, n)) \cup Range(cq')
      BY <1>1, <3>1, <3>2, ReadFront
    <3>4. Range(ready') = Range(ready) \cup Range(SubSeq(cq, 1, n))
      <4> DEFINE t == SubSeq(cq, 1, n)
      <4>1. ready \in Seq(Handles) /\ t \in Seq(Handles) /\ ready' = ready \o t
        BY <1>1, <3>2, <3>3
      <4> HIDE DEF t
      <4>2. Range(ready \o t) = Range(ready) \cup Range(t)
        BY ONLY <4>1, PushAll
      <4>3. Range(ready') = Range(ready) \cup Range(t)
        BY ONLY <4>1, <4>2
      <4> QED BY <4>3 DEF t
    <3> QED BY <3>2, <3>3, <3>4
  <2>2. ASSUME NEW h \in Handles, ExpireTimer(h) PROVE <1>3
    <3>1. ready' = Append(ready, h) /\ schedule' = schedule \ {h}
          /\ UNCHANGED <<inflight, cq, cqError>>
      BY <2>2 DEF ExpireTimer, fabricVars
    <3>2. Range(ready') = Range(ready) \cup {h}
      BY <1>1, <3>1, PushBack
    <3> QED BY <3>1, <3>2
  <2>3. ASSUME NEW h \in Handles, Complete(h) \/ CompleteError(h) PROVE <1>3
    <3>1. /\ UNCHANGED <<ready, schedule>> /\ inflight' = inflight \ {h}
          /\ cqError' \/ cq' = Append(cq, h)
          /\ cqError => cqError'
      BY <2>3 DEF Complete, CompleteError
    <3>2. Range(Append(cq, h)) = Range(cq) \cup {h}
      BY <1>1, PushBack
    <3>3. CASE cqError'
      BY <3>1, <3>3
    <3>4. CASE cq' = Append(cq, h)
      <4>1. inflight \cup Range(cq) \subseteq inflight' \cup Range(cq')
        BY <3>1, <3>2, <3>4
      <4> QED BY <3>1, <4>1
    <3> QED BY <3>1, <3>3, <3>4
  <2> QED BY <2>1, <2>2, <2>3 DEF Nic
<1>4. \A h \in Handles : Waits(h)'
  BY <1>2, <1>3, StaysWaiting DEF WInv, WakeInv, Live
<1>5. TimerInv'
  <2> SUFFICES ASSUME NEW h \in Handles, point[h] = "timer", h \notin schedule'
               PROVE  when[h] <= time
    BY <1>2 DEF TimerInv
  <2>1. CASE h \notin schedule
    BY <2>1 DEF WInv, WakeInv, TimerInv
  <2>2. CASE h \in schedule
    BY <2>2 DEF Select, ExpireTimer, Expired, Nic, Complete, CompleteError
  <2> QED BY <2>1, <2>2
<1>6. PollInv'
  <2>1. CASE Select
    <3>1. ~polling => SubSeq(cq, 0 + 1, Len(cq)) = <<>>
      BY DEF WInv, WakeInv, PollInv
    <3> QED BY <2>1, <3>1, <1>2 DEF Select, WInv, WakeInv, PollInv
  <2>2. CASE ~Select
    BY <2>2, <1>2 DEF ExpireTimer, Nic, Complete, CompleteError, fabricVars, WInv, WakeInv, PollInv
  <2> QED BY <2>1, <2>2
<1>7. TreeInv'
  BY <1>2 DEF WInv, TreeInv, Allocated
<1> QED BY <1>2, <1>4, <1>5, <1>6, <1>7 DEF WInv, WakeInv, StopInv

(* The loop resumes the frame at the head of the deque; the done child     *)
(* whose result it takes dies when it was a temporary.                     *)
LEMMA RunNextWakeups ==
  ASSUME IInv, WInv, RunNext, phase' # "undefined"
  PROVE  WInv'
<1> DEFINE h == Head(ready)
           dead == EndsWithAwait(h)
<1>1. /\ phase = "run" /\ cur = Null /\ ready # <<>> /\ ready \in Seq(Handles)
  <2>1. ready \in Seq(Handles) /\ Len(ready) \in Nat
    BY LenProperties DEF IInv, TypeOK
  <2>2. phase = "run" /\ cur = Null /\ batch > 0 /\ batch \in Nat /\ batch <= Len(ready)
    BY DEF RunNext, IInv, TypeOK, RunInv
  <2>3. ready # <<>>
    BY <2>1, <2>2, EmptySeq
  <2> QED BY <2>1, <2>2, <2>3
<1>2. /\ h \in Handles /\ h \in Range(ready)
      /\ Range(ready) \subseteq Range(Tail(ready)) \cup {h}
  BY <1>1, PopFront
<1>3. point[h] \in Resumable
  BY <1>2 DEF IInv, QueueInv
<1>4. /\ ready' = Tail(ready)
      /\ point' = [SetAll(point, dead, "free") EXCEPT ![h] = "running"]
      /\ callee' = [callee EXCEPT ![h] = Null]
      /\ next' = SetAll(next, dead, Null)
      /\ owner' = SetAll(owner, dead, Null)
      /\ UNCHANGED <<phase, schedule, when, time, inflight, cq, cqError, polling>>
  BY <1>3 DEF RunNext, fabricVars
<1>5. /\ dead \subseteq Handles
      /\ \A x \in dead : point[x] = "final" /\ owner[x] = h /\ x # h /\ x # Root
  <2>1. ASSUME NEW x \in dead
        PROVE  x \in Handles /\ point[x] = "final" /\ owner[x] = h
    <3>1. x = callee[h] /\ point[h] = "child" /\ state[h] = "kScheduled"
      BY <1>2 DEF EndsWithAwait, IInv, QueueInv
    <3> QED BY <1>2, <3>1 DEF IInv, AwaitInv
  <2>2. point[h] # "final" /\ owner[Root] # h
    BY <1>2, <1>3, LoopAssumption DEF Resumable, WInv, TreeInv
  <2> QED BY <2>1, <2>2
<1> HIDE DEF h, dead
<1>6. /\ point'[h] = "running"
      /\ \A x \in dead : point'[x] = "free" /\ owner'[x] = Null
      /\ \A x \in Handles \ dead : next'[x] = next[x] /\ owner'[x] = owner[x]
      /\ \A x \in Handles \ dead : x # h => point'[x] = point[x] /\ callee'[x] = callee[x]
  BY <1>2, <1>4, <1>5 DEF IInv, TypeOK, SetAll
<1>7. \A x \in Handles : Waits(x)'
  <2> TAKE x \in Handles
  <2>1. CASE x \in dead \/ x = h
    BY <2>1, <1>6 DEF Waits
  <2>2. CASE x \notin dead /\ x # h
    <3>1. point[x] = "child" => callee[x] \in Handles \ dead
      BY <2>2, <1>5 DEF IInv, AwaitInv
    <3>2. Waits(x) /\ (x \in Range(ready) => x \in Range(ready'))
      BY <2>2, <1>2, <1>4 DEF WInv, WakeInv
    <3>3. point[x] = "child" /\ point[callee[x]] = "final" => point'[callee[x]] = "final"
      BY <3>1, <1>3, <1>6 DEF Resumable
    <3>4. point[x] = "child" /\ Live(callee[x])
            => Live(callee[x])' /\ next'[callee[x]] = next[callee[x]]
      <4>1. CASE callee[x] = h
        BY <3>1, <2>2, <4>1, <1>6 DEF Live
      <4>2. CASE callee[x] # h
        BY <3>1, <2>2, <4>2, <1>6 DEF Live
      <4> QED BY <4>1, <4>2
    <3> QED BY <2>2, <3>2, <3>3, <3>4, <1>4, <1>6, StaysWaiting
  <2> QED BY <2>1, <2>2
<1>8. TimerInv' /\ PollInv'
  <2>1. \A x \in Handles : point'[x] = "timer" => point[x] = "timer"
    BY <1>6
  <2> QED BY <2>1, <1>4 DEF WInv, WakeInv, TimerInv, PollInv
<1>9. TreeInv'
  <2>1. \A x \in Handles \ dead : point'[x] = "free" <=> point[x] = "free"
    BY <1>3, <1>6 DEF Resumable
  <2>2. Root \notin dead
    BY <1>5
  <2> QED BY <2>1, <2>2, <1>5, <1>6, TreeShrinks DEF IInv, WInv
<1> QED BY <1>1, <1>4, <1>7, <1>8, <1>9 DEF WInv, WakeInv, StopInv

(* A new frame waits in the deque, or in the timer queue when it is that   *)
(* of detail::Sleep.                                                       *)
LEMMA CreateWakeups ==
  ASSUME IInv, WInv, NEW c \in Handles,
         CallAwait(c) \/ Spawn(c) \/ (\E d \in Delays : SleepAwait(c, d))
  PROVE  WInv'
<1> USE LoopAssumption
<1>1. /\ Running /\ point[c] = "free" /\ point'[c] # "free"
      /\ owner' = [owner EXCEPT ![c] = cur]
      /\ UNCHANGED <<time, phase, fabricVars>>
  BY DEF CallAwait, Spawn, SleepAwait, Create, Active, IInv, TypeOK
<1>2. /\ cur \in Handles /\ point[cur] = "running" /\ c # cur
      /\ phase = "run" /\ ready \in Seq(Handles)
      /\ c \notin Range(ready)
      /\ \A x \in Handles : point[x] = "child" => callee[x] # c
  BY <1>1, RunningFacts, FreeFacts
<1>3. /\ point'[c] \in {"initial", "timer"}
      /\ \A x \in Handles \ {c, cur} : point'[x] = point[x] /\ callee'[x] = callee[x]
      /\ \A x \in Handles \ {c} : next'[x] = next[x] /\ when'[x] = when[x]
      /\ \/ point'[cur] = "running"
         \/ point'[cur] = "child" /\ callee'[cur] = c /\ next'[c] = cur
      /\ Range(ready) \subseteq Range(ready') /\ schedule \subseteq schedule'
      /\ point'[c] = "initial" => c \in Range(ready')
      /\ point'[c] = "timer" => c \in schedule'
  <2>1. CASE CallAwait(c) \/ Spawn(c)
    <3>1. Range(Append(ready, c)) = Range(ready) \cup {c}
      BY <1>2, PushBack
    <3>2. CASE CallAwait(c)
      BY <3>1, <3>2, <1>2 DEF CallAwait, Create, SuspendOn, IInv, TypeOK
    <3>3. CASE Spawn(c)
      BY <3>1, <3>3, <1>2 DEF Spawn, Create, IInv, TypeOK
    <3> QED BY <2>1, <3>2, <3>3
  <2>2. ASSUME NEW d \in Delays, SleepAwait(c, d) PROVE <1>3
    BY <2>2, <1>2 DEF SleepAwait, Create, SuspendOn, IInv, TypeOK
  <2> QED BY <2>1, <2>2
<1>4. \A x \in Handles : Waits(x)'
  <2> TAKE x \in Handles
  <2>1. CASE x = c
    BY <2>1, <1>3 DEF Waits
  <2>2. CASE x = cur
    BY <2>2, <1>3 DEF Waits, Live, Resumable
  <2>3. CASE x # c /\ x # cur
    <3>1. point[x] = "child" => callee[x] \in Handles \ {c}
      BY <1>2 DEF IInv, AwaitInv
    <3>2. point[x] = "child" /\ point[callee[x]] = "final" => point'[callee[x]] = "final"
      BY <3>1, <1>2, <1>3
    <3>3. point[x] = "child" /\ Live(callee[x])
            => Live(callee[x])' /\ next'[callee[x]] = next[callee[x]]
      <4>1. CASE callee[x] = cur
        BY <3>1, <2>3, <4>1, <1>3 DEF Live, Resumable
      <4>2. CASE callee[x] # cur
        BY <3>1, <2>3, <4>2, <1>3 DEF Live
      <4> QED BY <4>1, <4>2
    <3> QED BY <2>3, <3>2, <3>3, <1>1, <1>3, StaysWaiting DEF WInv, WakeInv, fabricVars
  <2> QED BY <2>1, <2>2, <2>3
<1>5. TimerInv' /\ PollInv'
  <2>1. TimerInv'
    BY <1>1, <1>3 DEF WInv, WakeInv, TimerInv
  <2> QED BY <2>1, <1>1 DEF WInv, WakeInv, PollInv, fabricVars
<1>6. TreeInv'
  <2>1. \A x \in Handles \ {c} : point'[x] = "free" <=> point[x] = "free"
    BY <1>2, <1>3
  <2> QED BY <2>1, <1>1, TreeGrows DEF WInv
<1> QED BY <1>1, <1>2, <1>4, <1>5, <1>6 DEF WInv, WakeInv, StopInv

(* co_await of a Future whose child is not done: the child's next now is   *)
(* the frame, and the child is suspended somewhere.                        *)
LEMMA AwaitFutureWakeups ==
  ASSUME IInv, WInv, NEW c \in Handles, AwaitFuture(c)
  PROVE  WInv'
<1>1. /\ Running /\ owner[c] = cur /\ point[c] \notin {"free", "final"}
      /\ next' = [next EXCEPT ![c] = cur]
      /\ point' = [point EXCEPT ![cur] = "child"]
      /\ callee' = [callee EXCEPT ![cur] = c]
      /\ ready' = IF MustCall(c) THEN Append(ready, c) ELSE ready
      /\ UNCHANGED <<owner, schedule, when, time, phase, inflight, cq, cqError, polling>>
  BY DEF AwaitFuture, Active, IsFuture, SuspendOn, fabricVars
<1>2. /\ cur \in Handles /\ point[cur] = "running" /\ cur # Null
      /\ \A x \in Handles : point[x] = "running" => x = cur
      /\ phase = "run"
  BY <1>1, RunningFacts
<1>3. c # cur /\ Live(c)
  BY <1>1, <1>2 DEF IInv, OwnerInv, TypeOK, Points, Live, Resumable
<1>4. ready' = ready
  BY <1>1, <1>2, <1>3 DEF MustCall, IInv, AwaitInv, Live
<1>5. /\ point'[cur] = "child" /\ callee'[cur] = c /\ next'[c] = cur
      /\ \A x \in Handles \ {c} : next'[x] = next[x]
      /\ \A x \in Handles \ {cur} : point'[x] = point[x] /\ callee'[x] = callee[x]
  BY <1>1, <1>2 DEF IInv, TypeOK
<1>6. \A x \in Handles : Waits(x)'
  <2> TAKE x \in Handles
  <2>1. CASE x = cur
    BY <2>1, <1>3, <1>5 DEF Waits, Live
  <2>2. CASE x # cur
    <3>1. point[x] = "child" => callee[x] \in Handles \ {c}
      BY <2>2, <1>1 DEF IInv, AwaitInv
    <3>2. point[x] = "child" /\ point[callee[x]] = "final" => point'[callee[x]] = "final"
      BY <3>1, <1>2, <1>5
    <3>3. point[x] = "child" /\ Live(callee[x])
            => Live(callee[x])' /\ next'[callee[x]] = next[callee[x]]
      BY <3>1, <1>2, <1>5 DEF Live, Resumable
    <3> QED BY <2>2, <3>2, <3>3, <1>1, <1>4, <1>5, StaysWaiting DEF WInv, WakeInv
  <2> QED BY <2>1, <2>2
<1>7. TimerInv' /\ PollInv'
  BY <1>1, <1>5 DEF WInv, WakeInv, TimerInv, PollInv
<1>8. TreeInv'
  <2>1. Allocated' = Allocated
    BY <1>2, <1>5 DEF Allocated
  <2> QED BY <2>1, <1>1 DEF WInv, TreeInv
<1> QED BY <1>1, <1>2, <1>6, <1>7, <1>8 DEF WInv, WakeInv, StopInv

(* ~Future of a child that is done, which nothing awaits.                  *)
LEMMA DropFutureWakeups ==
  ASSUME IInv, WInv, NEW c \in Handles, DropFuture(c)
  PROVE  WInv'
<1>1. /\ Running /\ owner[c] = cur /\ point[c] = "final"
      /\ point' = [point EXCEPT ![c] = "free"]
      /\ next' = [next EXCEPT ![c] = Null]
      /\ owner' = [owner EXCEPT ![c] = Null]
      /\ UNCHANGED <<callee, loopVars, fabricVars>>
  BY DEF DropFuture, Active, IsFuture
<1>2. /\ cur \in Handles /\ point[cur] = "running" /\ cur # Null /\ phase = "run"
  BY <1>1, RunningFacts
<1>3. /\ point'[c] = "free" /\ owner'[c] = Null /\ c # Root
      /\ \A x \in Handles \ {c} : /\ point'[x] = point[x] /\ next'[x] = next[x]
                                  /\ owner'[x] = owner[x]
  BY <1>1, <1>2 DEF IInv, TypeOK, WInv, TreeInv
<1>4. \A x \in Handles : Waits(x)'
  <2> TAKE x \in Handles
  <2>1. CASE x = c
    BY <2>1, <1>3 DEF Waits
  <2>2. CASE x # c
    <3>1. point[x] = "child" => callee[x] \in Handles \ {c}
      BY <1>1, <1>2 DEF IInv, AwaitInv
    <3>2. callee'[x] = callee[x]
      BY <1>1
    <3>3. point[x] = "child" /\ Live(callee[x])
            => Live(callee[x])' /\ next'[callee[x]] = next[callee[x]]
      BY <3>1, <3>2, <1>3 DEF Live
    <3> QED BY <2>2, <3>1, <3>2, <3>3, <1>1, <1>3, StaysWaiting
            DEF WInv, WakeInv, loopVars, fabricVars
  <2> QED BY <2>1, <2>2
<1>5. TimerInv' /\ PollInv'
  BY <1>1, <1>3 DEF WInv, WakeInv, TimerInv, PollInv, loopVars, fabricVars
<1>6. TreeInv'
  BY <1>1, <1>3, TreeShrinks, {c} \in SUBSET Handles DEF WInv, IInv
<1> QED BY <1>1, <1>2, <1>4, <1>5, <1>6 DEF WInv, WakeInv, StopInv, loopVars

(* The NIC has the operation of a frame suspended in a recv, send or write *)
(* awaiter.                                                                *)
LEMMA PostOpWakeups ==
  ASSUME IInv, WInv, PostOp
  PROVE  WInv'
<1>1. /\ Running /\ polling
      /\ point' = [point EXCEPT ![cur] = "op"]
      /\ inflight' = inflight \cup {cur}
      /\ UNCHANGED <<next, callee, owner, ready, schedule, when, time, phase, cq,
                     cqError, polling>>
  BY DEF PostOp, Active
<1>2. cur \in Handles /\ point[cur] = "running" /\ phase = "run"
  BY <1>1, RunningFacts
<1>3. /\ point'[cur] = "op" /\ cur \in inflight'
      /\ \A x \in Handles \ {cur} : point'[x] = point[x]
  BY <1>1, <1>2 DEF IInv, TypeOK
<1>4. \A x \in Handles : Waits(x)'
  <2> TAKE x \in Handles
  <2>1. CASE x = cur
    BY <2>1, <1>3 DEF Waits
  <2>2. CASE x # cur
    <3>1. point[x] = "child" => callee[x] \in Handles
      BY DEF IInv, AwaitInv
    <3>2. callee'[x] = callee[x]
      BY <1>1
    <3>3. point[x] = "child" /\ point[callee[x]] = "final" => point'[callee[x]] = "final"
      BY <3>1, <1>2, <1>3
    <3>4. point[x] = "child" /\ Live(callee[x])
            => Live(callee[x])' /\ next'[callee[x]] = next[callee[x]]
      <4>1. CASE callee[x] = cur
        BY <3>2, <4>1, <1>1, <1>3 DEF Live, Resumable
      <4>2. CASE callee[x] # cur
        BY <3>1, <3>2, <4>2, <1>1, <1>3 DEF Live
      <4> QED BY <4>1, <4>2
    <3> QED BY <2>2, <3>2, <3>3, <3>4, <1>1, <1>3, StaysWaiting DEF WInv, WakeInv
  <2> QED BY <2>1, <2>2
<1>5. TimerInv' /\ PollInv'
  BY <1>1, <1>3 DEF WInv, WakeInv, TimerInv, PollInv
<1>6. TreeInv'
  <2>1. Allocated' = Allocated
    BY <1>2, <1>3 DEF Allocated
  <2> QED BY <2>1, <1>1 DEF WInv, TreeInv
<1> QED BY <1>1, <1>2, <1>4, <1>5, <1>6 DEF WInv, WakeInv, StopInv

(* A body ends over children that are done: final_awaiter wakes the one    *)
(* frame that awaits it, and with the root frame all that is left is done. *)
LEMMA FinishWakeups ==
  ASSUME IInv, WInv, Running, \A c \in Children(cur) : point[c] = "final",
         NEW r, Finish(r)
  PROVE  WInv'
<1> DEFINE dead == Children(cur)
           n == next[cur]
<1>1. /\ cur \in Handles /\ point[cur] = "running" /\ cur # Null /\ phase = "run"
      /\ cur \notin Range(ready) /\ ready \in Seq(Handles) /\ Null \notin Handles
      /\ \A h \in Handles : point[h] = "running" => h = cur
  BY RunningFacts, LoopAssumption
<1>2. /\ point' = [SetAll(point, dead, "free") EXCEPT ![cur] = "final"]
      /\ next' = SetAll(next, dead, Null)
      /\ callee' = SetAll(callee, dead, Null)
      /\ owner' = SetAll(owner, dead, Null)
      /\ ready' = IF n = Null THEN ready ELSE Append(ready, n)
      /\ polling' = (polling /\ cur # Root)
      /\ inflight' = IF cur = Root THEN {} ELSE inflight
      /\ cq' = IF cur = Root THEN <<>> ELSE cq
      /\ cqError' = (cqError /\ cur # Root)
      /\ UNCHANGED <<schedule, when, time, phase>>
  BY JoinedDescendants DEF Finish, Continuation, Wake
<1>3. /\ dead \subseteq Handles /\ cur \notin dead /\ Root \notin dead
      /\ \A x \in dead : point[x] = "final" /\ owner[x] = cur
      /\ n \in Handles \cup {Null}
  BY <1>1 DEF Children, IInv, TypeOK, OwnerInv, WInv, TreeInv
<1> HIDE DEF dead, n
<1>4. /\ point'[cur] = "final"
      /\ \A x \in dead : point'[x] = "free" /\ owner'[x] = Null
      /\ \A x \in Handles \ dead : /\ next'[x] = next[x] /\ callee'[x] = callee[x]
                                   /\ owner'[x] = owner[x]
      /\ \A x \in Handles \ dead : x # cur => point'[x] = point[x]
  BY <1>1, <1>2, <1>3 DEF IInv, TypeOK, SetAll
<1>5. Range(ready) \subseteq Range(ready') /\ (n # Null => n \in Range(ready'))
  <2>1. CASE n = Null
    BY <2>1, <1>2
  <2>2. CASE n # Null
    BY <2>2, <1>1, <1>2, <1>3, PushBack
  <2> QED BY <2>1, <2>2
<1>6. ASSUME NEW x \in Handles, x # cur, x \notin dead, cur # Root
      PROVE  Waits(x)'
  <2>1. Waits(x) /\ point'[x] = point[x] /\ callee'[x] = callee[x]
    BY <1>4, <1>6 DEF WInv, WakeInv
  <2>2. point[x] = "child" => callee[x] \in Handles \ dead
    BY <1>3, <1>6 DEF IInv, AwaitInv
  <2>3. CASE point[x] = "child" /\ callee[x] = cur
    <3>1. n = x
      BY <2>1, <2>3, <1>1 DEF Waits, n
    <3>2. x \in Range(ready')
      BY <3>1, <1>1, <1>5
    <3> QED BY <2>1, <2>3, <3>2, <1>4 DEF Waits
  <2>4. CASE ~(point[x] = "child" /\ callee[x] = cur)
    <3>1. point[x] = "child" => point'[callee[x]] = point[callee[x]]
                                /\ next'[callee[x]] = next[callee[x]]
      BY <2>2, <2>4, <1>4
    <3>2. point[x] = "child" /\ Live(callee[x])
            => Live(callee[x])' /\ next'[callee[x]] = next[callee[x]]
      BY <2>1, <3>1 DEF Live
    <3> QED BY <2>1, <3>1, <3>2, <1>2, <1>5, <1>6, StaysWaiting
  <2> QED BY <2>3, <2>4
<1>7. ASSUME NEW x \in Handles, x # cur, x \notin dead, cur = Root
      PROVE  point[x] = "free"
  BY <1>7, AllUnderRoot DEF WInv, Allocated, dead
<1>8. \A x \in Handles : Waits(x)'
  <2> TAKE x \in Handles
  <2>1. CASE x = cur \/ x \in dead
    BY <2>1, <1>4 DEF Waits
  <2>2. CASE x # cur /\ x \notin dead /\ cur = Root
    <3>1. point'[x] = "free"
      BY <2>2, <1>4, <1>7
    <3> QED BY <3>1 DEF Waits
  <2> QED BY <2>1, <2>2, <1>6
<1>9. TimerInv' /\ PollInv'
  <2>1. \A x \in Handles : point'[x] = "timer" => point[x] = "timer"
    BY <1>4
  <2> QED BY <2>1, <1>2 DEF WInv, WakeInv, TimerInv, PollInv
<1>10. TreeInv'
  <2>1. \A x \in Handles \ dead : point'[x] = "free" <=> point[x] = "free"
    BY <1>1, <1>4
  <2> QED BY <2>1, <1>3, <1>4, TreeShrinks DEF IInv, WInv
<1> QED BY <1>1, <1>2, <1>8, <1>9, <1>10 DEF WInv, WakeInv, StopInv

-----------------------------------------------------------------------------
(* The program starts with the root frame in the deque.                    *)
LEMMA InitWInv == Init => WInv
<1> SUFFICES ASSUME Init PROVE WInv
  OBVIOUS
<1> USE LoopAssumption DEF Init
<1>1. Root \in Range(ready)
  BY DEF Range
<1>2. WakeInv
  BY <1>1 DEF WakeInv, Waits, TimerInv, PollInv
<1>3. TreeInv
  <2>1. Allocated = {Root}
    BY DEF Allocated
  <2>2. IsFiniteSet(Allocated)
    BY <2>1, FS_Singleton
  <2> QED BY <2>1, <2>2 DEF TreeInv
<1> QED BY <1>2, <1>3 DEF WInv, StopInv

(* Every step of a disciplined program keeps the invariant.                *)
LEMMA NextWInv ==
  ASSUME IInv, IInv', WInv, Disciplined, [Next]_vars
  PROVE  WInv'
<1>1. phase' # "undefined"
  BY DEF IInv, RunInv
<1>2. time \in Nat /\ time <= time
  BY DEF IInv, TypeOK
<1>3. CASE Stop \/ SelectError \/ StartBatch \/ EndBatch \/ Tick \/ OpenNet
  <2>1. time' \in Nat /\ time <= time'
    BY <1>2, <1>3 DEF Stop, SelectError, StartBatch, EndBatch, Tick, OpenNet, loopVars
  <2> QED BY <1>3, <2>1, QuietWakeups
          DEF Stop, SelectError, StartBatch, EndBatch, Tick, OpenNet, loopVars,
              fabricVars, Ended, Active, Running
<1>4. CASE Select \/ (\E h \in Handles : ExpireTimer(h)) \/ Nic
  BY <1>1, <1>4, QueueWakeups
<1>5. CASE RunNext
  BY <1>1, <1>5, RunNextWakeups
<1>6. CASE UNCHANGED vars
  BY <1>2, <1>6, QuietWakeups DEF vars, loopVars, fabricVars
<1>7. CASE ClientStep
  <2>1. ASSUME NEW c \in Handles,
               CallAwait(c) \/ Spawn(c) \/ (\E d \in Delays : SleepAwait(c, d))
        PROVE  WInv'
    BY <2>1, CreateWakeups
  <2>2. ASSUME NEW c \in Handles, AwaitFuture(c) PROVE WInv'
    BY <2>2, AwaitFutureWakeups
  <2>3. ASSUME NEW c \in Handles, DropFuture(c) PROVE WInv'
    BY <2>3, DropFutureWakeups
  <2>4. CASE (\E c \in Handles : AwaitDone(c)) \/ PostRefused \/ Throw
    BY <1>2, <2>4, QuietWakeups
       DEF AwaitDone, PostRefused, Throw, fabricVars, Active, Running
  <2>5. CASE PostOp
    BY <2>5, PostOpWakeups
  <2>6. CASE ReturnJoined
    BY <2>6, FinishWakeups DEF ReturnJoined, Return, Active
  <2>7. CASE Unwind
    <3>1. Running /\ raised /\ Finish("exception")
      BY <2>7 DEF Unwind
    <3>2. Children(cur) = {}
      <4>1. ~Futures
        BY <3>1 DEF IInv, DisciplineInv, Disciplined
      <4>2. cur # Null /\ point[cur] = "running"
        BY <3>1, RunningFacts
      <4> QED BY <4>1, <4>2 DEF Children, IInv, DisciplineInv
    <3> QED BY <3>1, <3>2, FinishWakeups
  <2>8. CASE OpenNet
    BY <2>8, <1>3
  <2> QED BY <1>7, <2>1, <2>2, <2>3, <2>4, <2>5, <2>6, <2>7, <2>8 DEF ClientStep
<1> QED BY <1>3, <1>4, <1>5, <1>6, <1>7 DEF Next, LoopStep, Terminating

LEMMA WakeupsHold ==
  ASSUME Disciplined
  PROVE  Spec => [](IInv /\ WInv)
<1>1. Init => IInv /\ WInv
  BY InitIInv, InitWInv
<1>2. (IInv /\ WInv) /\ [Next]_vars => (IInv /\ WInv)'
  BY NextIInv, NextWInv
<1> QED BY <1>1, <1>2, PTL DEF Spec

-----------------------------------------------------------------------------
(* Whatever a suspended frame waits for, the loop still looks at something *)
(* that leads back to it.                                                  *)
THEOREM NoWakeupLost == Disciplined => (Spec => []NoLostWakeup)
<1> SUFFICES ASSUME Disciplined PROVE Spec => []NoLostWakeup
  OBVIOUS
<1>1. WInv => NoLostWakeup
  BY DEF WInv, WakeInv, Waits, NoLostWakeup, Live
<1> QED BY <1>1, WakeupsHold, PTL

(* When IO::Run returns, the root coroutine is done and every other frame  *)
(* has been freed: coroutines cannot be left waiting for each other.       *)
THEOREM RunReturnsWhenDone == Disciplined => (Spec => []StoppedMeansDone)
<1> SUFFICES ASSUME Disciplined PROVE Spec => []StoppedMeansDone
  OBVIOUS
<1>1. WInv => StoppedMeansDone
  BY DEF WInv, StopInv, StoppedMeansDone
<1> QED BY <1>1, WakeupsHold, PTL

(* A frame that sleeps is not resumed before its deadline.                 *)
THEOREM TimersAreNotEarly == Disciplined => (Spec => NeverEarly)
<1> SUFFICES ASSUME Disciplined PROVE Spec => NeverEarly
  OBVIOUS
<1>1. ASSUME IInv, WInv, [Next]_vars, NEW h \in Handles, point[h] = "timer", cur' = h
      PROVE  when[h] <= time
  <2>1. cur # h
    BY <1>1, LoopAssumption DEF IInv, RunInv
  <2>2. RunNext
    BY <2>1, <1>1, LoopAssumption
       DEF Next, LoopStep, Stop, Select, SelectError, ExpireTimer, StartBatch,
           EndBatch, Nic, Complete, CompleteError, Tick, Terminating, ClientStep,
           CallAwait, Spawn, AwaitDone, AwaitFuture, DropFuture, SleepAwait, SuspendOn,
           PostOp, PostRefused, Throw, ReturnJoined, Return, Unwind, Finish, OpenNet,
           loopVars, vars
  <2>3. h \in Range(ready)
    <3>1. ready \in Seq(Handles) /\ Len(ready) \in Nat
      BY <1>1, LenProperties DEF IInv, TypeOK
    <3>2. ready # <<>>
      BY <2>2, <3>1, <1>1, EmptySeq DEF RunNext, IInv, RunInv, TypeOK
    <3>3. cur' = Head(ready) \/ UNCHANGED cur
      BY <2>2 DEF RunNext
    <3> QED BY <2>1, <3>1, <3>2, <3>3, <1>1, PopFront
  <2>4. h \notin schedule
    BY <1>1, <2>3 DEF IInv, QueueInv
  <2> QED BY <2>4, <1>1 DEF WInv, WakeInv, TimerInv
<1>2. IInv /\ WInv /\ [Next]_vars
        => [\A h \in Handles : point[h] = "timer" /\ cur' = h => when[h] <= time]_vars
  BY <1>1
<1> QED BY <1>2, WakeupsHold, PTL DEF Spec, NeverEarly
=============================================================================
