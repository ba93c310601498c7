------------------------ MODULE SequentialWriterProofs ------------------------
(***************************************************************************)
(* The writer that awaits every page is one of the programs of LoopClient, *)
(* so that the theorems on the runtime hold of it; it counts every page;   *)
(* and it keeps the promise of WriteWindow with a window of one: proofs    *)
(* for any number of pages and rounds, whether or not calls may fail.      *)
(***************************************************************************)
EXTENDS SequentialWriter, QueueLemmas, FiniteSetTheorems

R == INSTANCE LoopClientProofs
       WITH Futures <- FALSE, MayThrow <- MayFail, Delays <- {}

-----------------------------------------------------------------------------
(* The names of the frames are different.                                  *)
LEMMA Names ==
  /\ Root # Handshake /\ Root # Recv /\ Root # Write /\ Root # WriteOne
  /\ Handshake # Recv /\ Handshake # Write /\ Handshake # WriteOne
  /\ Recv # Write /\ Recv # WriteOne /\ Write # WriteOne
  /\ {Root, Handshake, Recv, Write, WriteOne} \cap Slots = {}
  /\ Handles = {Root, Handshake, Recv, Write, WriteOne} \cup Slots
  /\ Null \notin Handles
<1> DEFINE s == <<Root, Handshake, Recv, Write, WriteOne>>
<1>1. \A i, j \in 1 .. 5 : s[i] = s[j] => i = j
  BY WriterAssumption DEF IsInjective
<1> QED BY <1>1, WriterAssumption, LoopAssumption

(* The assumptions of the runtime's theorems.                              *)
LEMMA RuntimeAssumptions == R!LoopAssumption /\ R!ClientAssumption /\ R!Disciplined
BY LoopAssumption, WriterAssumption
   DEF R!LoopAssumption, R!ClientAssumption, R!Disciplined

LEMMA SameVars == R!vars = vars
BY DEF R!vars, vars, R!frameVars, frameVars, R!loopVars, loopVars, R!fabricVars, fabricVars

LEMMA SameInit == Init => R!Init
BY DEF Init, R!Init

(* The steps of the loop are those of the runtime.                         *)
LEMMA SameLoop == LoopStep => R!LoopStep
<1> USE DEF frameVars, R!frameVars, loopVars, R!loopVars, fabricVars, R!fabricVars
<1>1. Stop => R!Stop
  BY DEF Stop, R!Stop, Stopped, R!Stopped
<1>2. Select => R!Select
  BY DEF Select, R!Select, Stopped, R!Stopped, ErrorAtHead, R!ErrorAtHead, SetAll, R!SetAll,
         Range, R!Range
<1>3. SelectError => R!SelectError
  BY DEF SelectError, R!SelectError, ErrorAtHead, R!ErrorAtHead
<1>4. \A h \in Handles : ExpireTimer(h) => R!ExpireTimer(h)
  BY DEF ExpireTimer, R!ExpireTimer, Expired, R!Expired
<1>5. StartBatch => R!StartBatch
  BY DEF StartBatch, R!StartBatch, Expired, R!Expired
<1>6. EndBatch => R!EndBatch
  BY DEF EndBatch, R!EndBatch
<1>7. RunNext => R!RunNext
  BY DEF RunNext, R!RunNext, EndsWithAwait, R!EndsWithAwait, SetAll, R!SetAll,
         Resumable, R!Resumable
<1> QED BY <1>1, <1>2, <1>3, <1>4, <1>5, <1>6, <1>7 DEF LoopStep, R!LoopStep

LEMMA SameNic == (Nic => R!Nic) /\ (Tick => R!Tick)
BY DEF Nic, R!Nic, Complete, R!Complete, CompleteError, R!CompleteError, Tick, R!Tick,
       frameVars, R!frameVars, loopVars, R!loopVars, fabricVars, R!fabricVars,
       Ended, R!Ended

(* What a body does are steps of a client; it returns with no child left.  *)
LEMMA SameClient ==
  /\ \A c \in Handles : CallAwait(c) => R!ClientStep
  /\ PostOp => R!ClientStep
  /\ MayFail /\ (PostRefused \/ Throw) => R!ClientStep
  /\ Unwind => R!ClientStep
  /\ OpenNet => R!ClientStep
  /\ Children(cur) = {} /\ Return => R!ClientStep
<1> USE DEF frameVars, R!frameVars, loopVars, R!loopVars, fabricVars, R!fabricVars,
            Active, R!Active, Running, R!Running
<1>1. \A c \in Handles : CallAwait(c) => R!CallAwait(c)
  BY DEF CallAwait, R!CallAwait, Create, R!Create, SuspendOn, R!SuspendOn
<1>2. (PostOp => R!PostOp) /\ (PostRefused => R!PostRefused) /\ (Throw => R!Throw)
  BY DEF PostOp, R!PostOp, PostRefused, R!PostRefused, Throw, R!Throw
<1>3. OpenNet => R!OpenNet
  BY DEF OpenNet, R!OpenNet
<1>4. \A r : Finish(r) => R!Finish(r)
  BY DEF Finish, R!Finish, Descendants, R!Descendants, Children, R!Children, SetAll, R!SetAll,
         Continuation, R!Continuation, Wake, R!Wake
<1>5. Unwind => R!Unwind
  BY <1>4 DEF Unwind, R!Unwind
<1>6. Children(cur) = {} /\ Return => R!ReturnJoined
  BY <1>4 DEF Return, R!Return, R!ReturnJoined, Children, R!Children
<1> QED BY <1>1, <1>2, <1>3, <1>5, <1>6 DEF R!ClientStep

-----------------------------------------------------------------------------
(* The inductive invariant of the program, on top of the runtime's.  Who   *)
(* calls whom is fixed, so that the frames form one of six call chains;    *)
(* what has not given up is where the source says in its body, with the    *)
(* counters that belong there.                                             *)
Caller(h) == CASE h \in {Handshake, Write} -> Root
               [] h = Recv -> Handshake
               [] h = WriteOne -> Write
               [] OTHER -> WriteOne

OwnersInv == \A h \in Handles : owner[h] \in {Null, Caller(h)}

ResultInv == \A h \in Handles : result[h] # "unset" <=> point[h] = "final"

CallInv == OwnersInv /\ ResultInv /\ (raised => cur # Null)

CountInv ==
  /\ round \in 0 .. Repeat /\ page \in 0 .. NumPages
  /\ round = 0 => page = NumPages
  /\ ops = IF round = 0 THEN 0 ELSE (round - 1) * NumPages + page

FreshInv == \A h \in Handles : point[h] \in {"free", "initial", "final"} => stage[h] = Entry[h]

PostedInv == \A h \in Handles : /\ point[h] # "timer"
                                /\ point[h] = "op" => h \in OpFrames /\ stage[h] = "posted"

StageInv ==
  /\ stage \in [Handles -> {"open", "handshake", "write", "end", "recv", "loop",
                            "issue", "count", "post", "posted"}]
  /\ stage[WriteOne] \in {"issue", "count"} /\ stage[Write] = "loop"
  /\ FreshInv /\ PostedInv

RoundInv ==
  /\ stage[WriteOne] = "issue" => point[WriteOne] # "child"
  /\ stage[WriteOne] = "count" => page < NumPages
  /\ point[WriteOne] \in {"free", "final"} => page = NumPages
  /\ point[Write] = "final" => round = Repeat
  /\ point[Root] = "child" /\ stage[Root] = "end" => callee[Root] = Write
  /\ point[Root] = "running" /\ stage[Root] = "end" => round = Repeat
  /\ point[Root] = "final" => round = Repeat

SeqInv == CallInv /\ CountInv /\ (~GaveUp => StageInv /\ RoundInv)

(* What the proofs below use of the runtime's invariants.                  *)
RuntimeTypes ==
  /\ point \in [Handles -> Points] /\ result \in [Handles -> Results]
  /\ owner \in [Handles -> Handles \cup {Null}] /\ callee \in [Handles -> Handles \cup {Null}]
  /\ ready \in Seq(Handles) /\ cq \in Seq(Handles) /\ Len(ready) \in Nat
  /\ cur \in Handles \cup {Null} /\ raised \in BOOLEAN /\ batch \in Nat

RuntimeQueues ==
  /\ IsInjective(ready) /\ (phase = "run" => batch <= Len(ready)) /\ phase # "undefined"
  /\ \A h \in Range(ready) : point[h] \in Resumable
  /\ \A h \in Range(ready) : point[h] = "child" => point[callee[h]] = "final"
  /\ \A h \in Range(cq) \cup inflight : point[h] = "op" /\ h \notin Range(ready)
  /\ inflight \cap Range(cq) = {}
  /\ inflight \subseteq Handles /\ \A h \in schedule : point[h] = "timer"

RuntimeFrames ==
  /\ \A h \in Handles : point[h] = "child" => /\ callee[h] \in Handles
                                              /\ owner[callee[h]] = h
                                              /\ held[callee[h]] = "temporary"
  /\ \A h \in Handles : owner[h] # Null => /\ point[h] # "free"
                                           /\ point[owner[h]] = "child"
                                           /\ callee[owner[h]] = h
  /\ \A h \in Handles : point[h] = "running" <=> h = cur
  /\ cur # Null => phase = "run"
  /\ owner[Root] = Null /\ point[Root] # "free"
  /\ \A h \in Handles \ {Root} : point[h] # "free" => owner[h] # Null
  /\ phase = "stopped" => point[Root] = "final" /\ \A h \in Handles \ {Root} : point[h] = "free"

RuntimeInv == RuntimeTypes /\ RuntimeQueues /\ RuntimeFrames

LEMMA RuntimeFacts == R!IInv /\ R!WInv => RuntimeInv
<1> SUFFICES ASSUME R!IInv, R!WInv PROVE RuntimeInv
  OBVIOUS
<1>1. R!TypeOK /\ R!QueueInv /\ R!AwaitInv /\ R!RunInv /\ R!OwnerInv /\ R!DisciplineInv
  BY DEF R!IInv
<1>2. /\ point \in [Handles -> Points] /\ result \in [Handles -> Results]
      /\ owner \in [Handles -> Handles \cup {Null}] /\ callee \in [Handles -> Handles \cup {Null}]
      /\ ready \in Seq(Handles) /\ cq \in Seq(Handles)
      /\ cur \in Handles \cup {Null} /\ raised \in BOOLEAN /\ batch \in Nat
      /\ inflight \in SUBSET Handles
  BY <1>1 DEF R!TypeOK, Points, R!Points, Results, R!Results
<1>3. Len(ready) \in Nat /\ Range(ready) \subseteq Handles /\ Range(cq) \subseteq Handles
  BY <1>2, LenProperties, RangeOfSeq
<1>4. /\ IsInjective(ready) /\ (phase = "run" => batch <= Len(ready)) /\ phase # "undefined"
      /\ \A h \in Handles : point[h] = "running" <=> h = cur
      /\ cur # Null => phase = "run"
  BY <1>1 DEF R!QueueInv, R!RunInv,
         Range, R!Range, IsInjective, R!IsInjective, Resumable, R!Resumable
<1>5. \A h \in Handles : point[h] = "child" => /\ callee[h] \in Handles
                                              /\ owner[callee[h]] = h
                                              /\ held[callee[h]] = "temporary"
  BY <1>1, Names DEF R!AwaitInv, R!DisciplineInv
<1>6. /\ \A h \in Range(ready) : point[h] \in Resumable
      /\ \A h \in Range(ready) : point[h] = "child" => point[callee[h]] = "final"
  BY <1>1, <1>3 DEF R!QueueInv, R!AwaitInv,
         Range, R!Range, IsInjective, R!IsInjective, Resumable, R!Resumable
<1>7. /\ \A h \in Range(cq) \cup inflight : point[h] = "op" /\ h \notin Range(ready)
      /\ inflight \cap Range(cq) = {}
  BY <1>1 DEF R!QueueInv,
         Range, R!Range, IsInjective, R!IsInjective, Resumable, R!Resumable
<1>8. \A h \in Handles : owner[h] # Null => /\ point[h] # "free"
                                           /\ point[owner[h]] = "child"
                                           /\ callee[owner[h]] = h
  BY <1>1, Names DEF R!OwnerInv, R!DisciplineInv
<1>9. /\ owner[Root] = Null /\ point[Root] # "free"
      /\ \A h \in Handles \ {Root} : point[h] # "free" => owner[h] # Null
      /\ phase = "stopped" => point[Root] = "final" /\ \A h \in Handles \ {Root} : point[h] = "free"
  BY Names DEF R!WInv, R!TreeInv, R!StopInv, R!Allocated
<1>13. \A h \in schedule : point[h] = "timer"
  BY <1>1 DEF R!QueueInv
<1>10. RuntimeTypes
  BY <1>2, <1>3 DEF RuntimeTypes
<1>11. RuntimeQueues
  BY <1>2, <1>4, <1>6, <1>7, <1>13 DEF RuntimeQueues
<1>12. RuntimeFrames
  BY <1>4, <1>5, <1>8, <1>9 DEF RuntimeFrames
<1> QED BY <1>10, <1>11, <1>12 DEF RuntimeInv

(* The allocated frames are a chain of awaits: all but the last of them    *)
(* are in the co_await of the next.                                        *)
LEMMA OneLeaf ==
  ASSUME RuntimeInv, CallInv, NEW x \in Handles, NEW y \in Handles,
         point[x] \notin {"free", "child"}, point[y] \notin {"free", "child"}
  PROVE  x = y
<1> DEFINE Top(h) == h = Root \/ (owner[h] = Caller(h) /\ point[Caller(h)] = "child"
                                   /\ callee[Caller(h)] = h /\ point[Caller(h)] # "free")
<1>1. \A h \in Handles : point[h] # "free" => Top(h)
  BY Names DEF RuntimeInv, RuntimeTypes, RuntimeQueues, RuntimeFrames, CallInv, OwnersInv, ResultInv
<1> QED BY <1>1, Names DEF Caller

(* An exception that has been stored is on its way up, and nothing else    *)
(* happens in between.                                                     *)
LEMMA GivingUp ==
  ASSUME RuntimeInv, CallInv, Running, GaveUp
  PROVE  raised
<1> SUFFICES ASSUME NEW h \in Handles, result[h] = "exception" PROVE FALSE
  BY DEF GaveUp
<1>1. point[h] = "final" /\ cur \in Handles /\ point[cur] = "running"
  BY Names DEF CallInv, ResultInv, RuntimeInv, RuntimeTypes, RuntimeFrames, Running
<1> QED BY <1>1, OneLeaf

(* RunNext resumes a frame, which takes the value of the child it awaited. *)
Resumes(h) ==
  /\ h \in Range(ready) /\ h \notin Range(ready') /\ Range(ready) = Range(ready') \cup {h}
  /\ cur = Null /\ cur' = h /\ phase' = phase /\ UNCHANGED <<cq, inflight>>
  /\ callee' = [callee EXCEPT ![h] = Null]
  /\ \/ /\ point[h] \in Resumable \ {"child"}
        /\ point' = [point EXCEPT ![h] = "running"]
        /\ raised' = FALSE
        /\ UNCHANGED <<owner, result>>
     \/ /\ point[h] = "child" /\ point[callee[h]] = "final" /\ callee[h] # h
        /\ point' = [point EXCEPT ![h] = "running", ![callee[h]] = "free"]
        /\ raised' = (result[callee[h]] = "exception")
        /\ owner' = [owner EXCEPT ![callee[h]] = Null]
        /\ result' = [result EXCEPT ![callee[h]] = "unset"]

LEMMA RunNextEffect ==
  ASSUME RuntimeInv, RunNext
  PROVE  \E h \in Handles : Resumes(h)
<1> DEFINE h == Head(ready)
<1>1. ready # <<>>
  BY EmptySeq DEF RuntimeInv, RuntimeTypes, RuntimeQueues, RuntimeFrames, RunNext
<1>2. /\ h \in Handles /\ h \in Range(ready) /\ h \notin Range(ready')
      /\ Range(ready) = Range(ready') \cup {h}
  <2>1. ready' = Tail(ready) /\ ready \in Seq(Handles) /\ IsInjective(ready)
    BY DEF RunNext, RuntimeInv, RuntimeTypes, RuntimeQueues, RuntimeFrames
  <2> QED BY <2>1, <1>1, PopFront
<1>3. point[h] \in Resumable /\ (point[h] = "child" => point[callee[h]] = "final")
  BY <1>2 DEF RuntimeInv, RuntimeTypes, RuntimeQueues, RuntimeFrames
<1>4. CASE point[h] = "child"
  <2>1. callee[h] \in Handles /\ callee[h] # h /\ EndsWithAwait(h) = {callee[h]}
    BY <1>2, <1>3, <1>4 DEF RuntimeInv, RuntimeTypes, RuntimeQueues, RuntimeFrames, EndsWithAwait
  <2>2. /\ cur' = h /\ cur = Null /\ phase' = phase /\ UNCHANGED <<cq, inflight>>
        /\ callee' = [callee EXCEPT ![h] = Null]
        /\ raised' = (result[callee[h]] = "exception")
        /\ point' = [SetAll(point, {callee[h]}, "free") EXCEPT ![h] = "running"]
        /\ owner' = SetAll(owner, {callee[h]}, Null)
        /\ result' = SetAll(result, {callee[h]}, "unset")
    BY <1>3, <1>4, <2>1 DEF RunNext, fabricVars
  <2>3. /\ point' = [point EXCEPT ![h] = "running", ![callee[h]] = "free"]
        /\ owner' = [owner EXCEPT ![callee[h]] = Null]
        /\ result' = [result EXCEPT ![callee[h]] = "unset"]
    <3>1. /\ point \in [Handles -> Points] /\ result \in [Handles -> Results]
          /\ owner \in [Handles -> Handles \cup {Null}]
      BY DEF RuntimeInv, RuntimeTypes, RuntimeQueues, RuntimeFrames
    <3> HIDE DEF h
    <3>2. point' = [point EXCEPT ![h] = "running", ![callee[h]] = "free"]
      BY <3>1, <2>1, <2>2, <1>2 DEF SetAll
    <3>3. owner' = [owner EXCEPT ![callee[h]] = Null]
      BY <3>1, <2>1, <2>2 DEF SetAll
    <3>4. result' = [result EXCEPT ![callee[h]] = "unset"]
      BY <3>1, <2>1, <2>2 DEF SetAll
    <3> QED BY <3>2, <3>3, <3>4
  <2> QED BY <1>2, <1>3, <1>4, <2>1, <2>2, <2>3 DEF Resumes
<1>5. CASE point[h] # "child"
  <2>1. EndsWithAwait(h) = {}
    BY <1>5 DEF EndsWithAwait
  <2>2. /\ cur' = h /\ cur = Null /\ phase' = phase /\ UNCHANGED <<cq, inflight>>
        /\ callee' = [callee EXCEPT ![h] = Null]
        /\ raised' = FALSE
        /\ point' = [SetAll(point, {}, "free") EXCEPT ![h] = "running"]
        /\ owner' = SetAll(owner, {}, Null)
        /\ result' = SetAll(result, {}, "unset")
    BY <1>3, <1>5, <2>1 DEF RunNext, fabricVars
  <2>3. /\ point' = [point EXCEPT ![h] = "running"]
        /\ UNCHANGED <<owner, result>>
    BY <2>2 DEF SetAll, RuntimeInv, RuntimeTypes, RuntimeQueues, RuntimeFrames
  <2> QED BY <1>2, <1>3, <1>5, <2>2, <2>3 DEF Resumes
<1> QED BY <1>4, <1>5, <1>2

(* A body that ends holds no child, so that it frees none.                 *)
LEMMA FinishEffect ==
  ASSUME R!IInv, RuntimeInv, Running, NEW r \in Results, Finish(r)
  PROVE  /\ Children(cur) = {}
         /\ cur \in Handles /\ point[cur] = "running" /\ phase' = phase
         /\ point' = [point EXCEPT ![cur] = "final"]
         /\ result' = [result EXCEPT ![cur] = r]
         /\ UNCHANGED <<callee, owner>>
         /\ cur' = Null /\ raised' = FALSE
         /\ cur # Root => UNCHANGED cq
         /\ \A h \in Handles : point[h] # "child" =>
              (h \in Range(ready') <=> h \in Range(ready))
<1>1. cur \in Handles /\ point[cur] = "running" /\ cur # Null
  BY DEF Running, RuntimeInv, RuntimeTypes, RuntimeQueues, RuntimeFrames
<1>2. Children(cur) = {}
  BY <1>1 DEF Children, RuntimeInv, RuntimeTypes, RuntimeQueues, RuntimeFrames
<1>3. Descendants(cur) = {}
  <2>1. R!Descendants(cur) = R!Children(cur)
    <3>1. R!Running /\ \A c \in R!Children(cur) : point[c] = "final"
      BY <1>2 DEF Running, R!Running, Children, R!Children
    <3> QED BY <3>1, R!JoinedDescendants, RuntimeAssumptions
  <2> QED BY <2>1, <1>2 DEF Descendants, R!Descendants, Children, R!Children
<1>4. /\ point' = [SetAll(point, {}, "free") EXCEPT ![cur] = "final"]
      /\ result' = [SetAll(result, {}, "unset") EXCEPT ![cur] = r]
      /\ callee' = SetAll(callee, {}, Null) /\ owner' = SetAll(owner, {}, Null)
      /\ cur' = Null /\ raised' = FALSE /\ phase' = phase
      /\ cur # Root => UNCHANGED cq
      /\ ready' = Wake(next[cur])
  BY <1>3 DEF Finish, Continuation
<1>5. /\ point' = [point EXCEPT ![cur] = "final"]
      /\ result' = [result EXCEPT ![cur] = r]
      /\ UNCHANGED <<callee, owner>>
  BY <1>4 DEF SetAll, RuntimeInv, RuntimeTypes, RuntimeQueues, RuntimeFrames
<1>6. \A h \in Handles : point[h] # "child" => (h \in Range(ready') <=> h \in Range(ready))
  <2>1. next[cur] # Null => next[cur] \in Handles /\ point[next[cur]] = "child"
    BY <1>1 DEF R!IInv, R!TypeOK, R!AwaitInv, R!Live
  <2>2. next[cur] # Null => Range(ready') = Range(ready) \cup {next[cur]}
    BY <1>4, <2>1, PushBack DEF Wake, RuntimeInv, RuntimeTypes, RuntimeQueues, RuntimeFrames
  <2> QED BY <1>4, <2>1, <2>2 DEF Wake
<1> QED BY <1>1, <1>2, <1>4, <1>5, <1>6

-----------------------------------------------------------------------------
(* The steps keep the invariant.                                           *)
LEMMA OpAreOthers == \A h \in OpFrames : h \in Handles \ {Root, Handshake, Write, WriteOne}
BY Names DEF OpFrames

LEMMA SameEntry == Entry' = Entry
BY DEF Entry

(* r rounds of n pages, the last of them after p pages, are at most R      *)
(* rounds.                                                                 *)
LEMMA OpsInRange ==
  ASSUME NEW r \in 0 .. Repeat, NEW p \in 0 .. NumPages
  PROVE  (IF r = 0 THEN 0 ELSE (r - 1) * NumPages + p) \in 0 .. Repeat * NumPages
<1> USE WriterAssumption
<1>1. Repeat * NumPages \in Nat
  OBVIOUS
<1>2. CASE r # 0
  <2>1. (r - 1) * NumPages \in Nat /\ (r - 1) * NumPages + NumPages = r * NumPages
    BY <1>2
  <2>2. (Repeat - r) * NumPages \in Nat
    OBVIOUS
  <2>3. (Repeat - r) * NumPages + r * NumPages = Repeat * NumPages
    OBVIOUS
  <2> QED BY <1>1, <1>2, <2>1, <2>2, <2>3
<1> QED BY <1>1, <1>2

LEMMA InitSeqInv == WriterInit => SeqInv
<1> SUFFICES ASSUME WriterInit PROVE SeqInv
  OBVIOUS
<1> USE Names, WriterAssumption DEF WriterInit, Init
<1>1. CallInv
  BY DEF CallInv, OwnersInv, ResultInv
<1>2. CountInv
  BY DEF CountInv
<1>3. StageInv
  BY DEF StageInv, FreshInv, PostedInv, Entry, OpFrames
<1>4. RoundInv
  BY DEF RoundInv, Entry
<1> QED BY <1>1, <1>2, <1>3, <1>4 DEF SeqInv

(* What a running body finds: it has not given up, and it is the leaf of   *)
(* the chain of calls.                                                     *)
LEMMA ActiveFacts ==
  ASSUME RuntimeInv, SeqInv, Active
  PROVE  /\ ~GaveUp /\ StageInv /\ RoundInv /\ CallInv
         /\ cur \in Handles /\ point[cur] = "running" /\ phase = "run" /\ ~raised
         /\ \A h \in Handles \ {cur} : point[h] \in {"free", "child"}
<1>1. CallInv /\ Running /\ ~raised
  BY DEF SeqInv, Active
<1>2. ~GaveUp
  BY <1>1, GivingUp
<1>3. cur \in Handles /\ point[cur] = "running" /\ phase = "run"
  BY <1>1 DEF Running, RuntimeInv, RuntimeTypes, RuntimeFrames
<1>4. \A h \in Handles \ {cur} : point[h] \in {"free", "child"}
  BY <1>1, <1>3, OneLeaf
<1> QED BY <1>1, <1>2, <1>3, <1>4 DEF SeqInv

(* A call puts the child at its initial suspend point, and the caller in   *)
(* its co_await.                                                           *)
LEMMA CallEffect ==
  ASSUME RuntimeInv, SeqInv, NEW c \in Handles, CallAwait(c)
  PROVE  /\ c # cur /\ point[c] = "free"
         /\ point'[c] = "initial" /\ point'[cur] = "child" /\ callee'[cur] = c
         /\ owner'[c] = cur
         /\ \A h \in Handles \ {c, cur} : point'[h] = point[h]
         /\ \A h \in Handles \ {c} : owner'[h] = owner[h]
         /\ \A h \in Handles \ {cur} : callee'[h] = callee[h]
         /\ UNCHANGED <<result, raised>> /\ ~GaveUp' /\ ~raised'
<1>1. /\ Active /\ point[c] = "free"
      /\ point' = [point EXCEPT ![c] = "initial", ![cur] = "child"]
      /\ owner' = [owner EXCEPT ![c] = cur]
      /\ callee' = [callee EXCEPT ![cur] = c]
      /\ UNCHANGED <<result, raised>>
  BY DEF CallAwait, Create, SuspendOn
<1>2. cur \in Handles /\ point[cur] = "running" /\ ~GaveUp /\ ~raised
  BY <1>1, ActiveFacts
<1>3. ~GaveUp'
  BY <1>1, <1>2 DEF GaveUp
<1> QED BY <1>1, <1>2, <1>3 DEF RuntimeInv, RuntimeTypes

LEMMA CallKeepsCallInv ==
  ASSUME RuntimeInv, SeqInv, NEW c \in Handles, CallAwait(c), Caller(c) = cur
  PROVE  CallInv'
<1>1. CallInv /\ Active
  BY DEF SeqInv, CallAwait
<1>2. point[cur] = "running" /\ cur \in Handles
  BY <1>1, ActiveFacts
<1>3. \A h \in Handles : owner'[h] \in {Null, Caller(h)}
  BY <1>1, CallEffect DEF CallInv, OwnersInv, ResultInv
<1>4. \A h \in Handles : result'[h] # "unset" <=> point'[h] = "final"
  BY <1>1, <1>2, CallEffect DEF CallInv, OwnersInv, ResultInv
<1> QED BY <1>3, <1>4, CallEffect DEF CallInv, OwnersInv, ResultInv

LEMMA CallSteps ==
  ASSUME RuntimeInv, SeqInv, NEW c \in Handles, CallAwait(c), CountInv',
         \/ /\ At(Root, "handshake") /\ c = Handshake /\ Goto(Root, "write")
            /\ UNCHANGED <<round, page>>
         \/ /\ At(Root, "write") /\ c = Write /\ Goto(Root, "end")
            /\ UNCHANGED <<round, page>>
         \/ /\ At(Handshake, "recv") /\ c = Recv /\ Goto(Handshake, "end")
            /\ UNCHANGED <<round, page>>
         \/ /\ At(Write, "loop") /\ c = WriteOne /\ page' = 0
            /\ UNCHANGED stage /\ round < Repeat
         \/ /\ At(WriteOne, "issue") /\ c \in Slots /\ Goto(WriteOne, "count")
            /\ UNCHANGED <<round, page>> /\ page < NumPages
  PROVE  SeqInv'
<1> USE Names
<1>1. /\ ~GaveUp /\ StageInv /\ RoundInv /\ CallInv
      /\ cur \in Handles /\ point[cur] = "running"
      /\ \A h \in Handles \ {cur} : point[h] \in {"free", "child"}
  BY ActiveFacts DEF CallAwait
<1>2. Caller(c) = cur
  BY DEF Caller, At
<1>3. CallInv'
  BY <1>2, CallKeepsCallInv
<1>4. /\ c # cur /\ point[c] = "free"
      /\ point'[c] = "initial" /\ point'[cur] = "child" /\ callee'[cur] = c
      /\ \A h \in Handles \ {c, cur} : point'[h] = point[h]
      /\ \A h \in Handles \ {cur} : callee'[h] = callee[h]
  BY CallEffect
<1>5. StageInv'
  BY <1>1, <1>4 DEF StageInv, FreshInv, PostedInv, At, Goto, Entry, OpFrames
<1>6. RoundInv'
  BY <1>1, <1>4, WriterAssumption DEF StageInv, FreshInv, PostedInv, RoundInv, CountInv, At, Goto, Entry
<1> QED BY <1>3, <1>5, <1>6 DEF SeqInv

(* A check that fails changes nothing but that an exception propagates.     *)
LEMMA ThrowSteps ==
  ASSUME RuntimeInv, SeqInv, BodyThrows, UNCHANGED <<round, page, ops>>
  PROVE  SeqInv' /\ R!Next
<1>1. raised' /\ UNCHANGED <<point, result, owner, cur, stage>> /\ cur # Null
  BY DEF BodyThrows, Throw, frameVars, Active, Running
<1>2. CountInv' /\ GaveUp'
  BY <1>1 DEF SeqInv, CountInv, GaveUp
<1>3. OwnersInv' /\ ResultInv'
  BY <1>1 DEF SeqInv, CallInv, OwnersInv, ResultInv
<1>4. SeqInv'
  BY <1>1, <1>2, <1>3 DEF SeqInv, CallInv
<1> QED BY <1>4, SameClient DEF BodyThrows, R!Next

(* An operation is posted, or refused.                                     *)
LEMMA PostSteps ==
  ASSUME R!IInv, RuntimeInv, SeqInv, NEW h \in OpFrames, OpStep(h), PostOp \/ PostRefused
  PROVE  SeqInv'
<1> USE Names
<1>1. Active /\ cur = h /\ h \in Handles
  BY DEF OpStep, At, PostOp, PostRefused, OpFrames
<1>2. /\ ~GaveUp /\ StageInv /\ RoundInv /\ CallInv
      /\ point[h] = "running" /\ ~raised
  BY <1>1, ActiveFacts
<1>3. CountInv'
  BY DEF SeqInv, CountInv, OpStep
<1>4. CASE PostRefused
  <2>1. raised' /\ UNCHANGED <<point, result, owner, cur>>
    BY <1>4 DEF PostRefused, frameVars
  <2> QED BY <1>1, <1>2, <1>3, <2>1 DEF SeqInv, CallInv, OwnersInv, ResultInv, GaveUp
<1>5. CASE PostOp
  <2>1. /\ point' = [point EXCEPT ![h] = "op"] /\ cur' = Null
        /\ UNCHANGED <<result, owner, callee, raised>>
    BY <1>1, <1>5 DEF PostOp
  <2>2. point'[h] = "op" /\ \A x \in Handles \ {h} : point'[x] = point[x]
    BY <1>1, <2>1 DEF RuntimeInv, RuntimeTypes
  <2>3. stage[h] = "post" /\ Goto(h, "posted") /\ UNCHANGED <<round, page>>
    <3>1. ~PostRefused /\ ~BodyThrows
      BY <1>2, <2>1 DEF PostRefused, BodyThrows, Throw
    <3>2. ~Return
      BY <1>1, <2>2, FinishEffect DEF Return, Active, Results, RuntimeInv, RuntimeTypes
    <3> QED BY <1>1, <1>5, <3>1, <3>2 DEF OpStep, At, Ends
  <2>4. CallInv'
    BY <1>2, <2>1, <2>2 DEF CallInv, OwnersInv, ResultInv
  <2>5. StageInv'
    BY <1>1, <1>2, <2>2, <2>3 DEF StageInv, FreshInv, PostedInv, Goto, OpFrames
  <2>6. RoundInv'
    BY <1>1, <1>2, <2>1, <2>2, <2>3 DEF StageInv, FreshInv, PostedInv, RoundInv, Goto, OpFrames
  <2> QED BY <1>3, <2>4, <2>5, <2>6 DEF SeqInv
<1> QED BY <1>4, <1>5

(* A body returns: its frame keeps no child, and the counters are where    *)
(* the caller expects them.                                                *)
LEMMA ReturnSteps ==
  ASSUME R!IInv, RuntimeInv, SeqInv, NEW h \in Handles, cur = h, Ends(h),
         UNCHANGED <<round, page, ops>>,
         \/ h = Root /\ stage[h] = "end"
         \/ h = Handshake
         \/ h = Write /\ round = Repeat
         \/ h = WriteOne /\ page = NumPages
         \/ h \in OpFrames
  PROVE  SeqInv'
<1> USE Names
<1>1. Active /\ Finish("value") /\ Running
  BY DEF Ends, Return, Active
<1>2. /\ ~GaveUp /\ StageInv /\ RoundInv /\ CallInv
      /\ point[h] = "running" /\ ~raised
  BY <1>1, ActiveFacts
<1>3. /\ Children(h) = {}
      /\ point' = [point EXCEPT ![h] = "final"]
      /\ result' = [result EXCEPT ![h] = "value"]
      /\ UNCHANGED <<callee, owner>> /\ raised' = FALSE
  BY <1>1, FinishEffect DEF Results
<1>4. /\ point'[h] = "final" /\ \A x \in Handles \ {h} : point'[x] = point[x]
      /\ result'[h] = "value" /\ \A x \in Handles \ {h} : result'[x] = result[x]
  BY <1>3 DEF RuntimeInv, RuntimeTypes
<1>5. CallInv'
  BY <1>2, <1>3, <1>4 DEF CallInv, OwnersInv, ResultInv
<1>6. CountInv'
  BY DEF SeqInv, CountInv
<1>7. StageInv'
  <2>1. Entry[h] \in {"open", "recv", "loop", "issue", "post"} /\ Entry[Write] = "loop"
        /\ Entry[WriteOne] = "issue"
    BY DEF Entry
  <2>2. stage' = [stage EXCEPT ![h] = Entry[h]]
    BY DEF Ends, Goto
  <2>3. FreshInv'
    BY <1>2, <1>4, <2>2, SameEntry DEF StageInv, FreshInv
  <2>4. PostedInv'
    BY <1>2, <1>4, <2>2 DEF StageInv, PostedInv, OpFrames
  <2> QED BY <1>2, <2>1, <2>2, <2>3, <2>4 DEF StageInv
<1>8. RoundInv'
  <2>1. /\ stage' = [stage EXCEPT ![h] = Entry[h]]
        /\ Entry[Root] = "open" /\ Entry[WriteOne] = "issue"
    BY DEF Ends, Goto, Entry
  <2>2. stage'[h] = Entry[h] /\ \A x \in Handles \ {h} : stage'[x] = stage[x]
    BY <1>2, <2>1 DEF StageInv
  <2>3. stage'[WriteOne] = "issue" => point'[WriteOne] # "child"
    BY <1>2, <1>4, <2>2 DEF RoundInv
  <2>4. stage'[WriteOne] = "count" => page < NumPages
    BY <1>2, <2>1, <2>2 DEF RoundInv
  <2>5. point'[WriteOne] \in {"free", "final"} => page = NumPages
    BY <1>2, <1>4, OpAreOthers DEF RoundInv
  <2>6. point'[Write] = "final" => round = Repeat
    BY <1>2, <1>4, OpAreOthers DEF RoundInv
  <2>7. point'[Root] = "child" /\ stage'[Root] = "end" => callee'[Root] = Write
    BY <1>2, <1>3, <1>4, <2>2 DEF RoundInv
  <2>8. point'[Root] = "running" /\ stage'[Root] = "end" => round = Repeat
    BY <1>2, <1>4, <2>2 DEF RoundInv
  <2>9. point'[Root] = "final" => round = Repeat
    BY <1>2, <1>4, OpAreOthers DEF RoundInv
  <2> QED BY <2>3, <2>4, <2>5, <2>6, <2>7, <2>8, <2>9 DEF RoundInv
<1> QED BY <1>5, <1>6, <1>7, <1>8 DEF SeqInv

LEMMA UnwindStep ==
  ASSUME R!IInv, RuntimeInv, SeqInv, Unwind, UNCHANGED writerVars
  PROVE  SeqInv' /\ GaveUp'
<1> USE Names
<1>1. Running /\ Finish("exception")
  BY DEF Unwind
<1>2. /\ cur \in Handles /\ point[cur] = "running"
      /\ point' = [point EXCEPT ![cur] = "final"]
      /\ result' = [result EXCEPT ![cur] = "exception"]
      /\ UNCHANGED <<callee, owner>> /\ raised' = FALSE
  BY <1>1, FinishEffect DEF Results
<1>3. /\ point'[cur] = "final" /\ \A x \in Handles \ {cur} : point'[x] = point[x]
      /\ result'[cur] = "exception" /\ \A x \in Handles \ {cur} : result'[x] = result[x]
  BY <1>2 DEF RuntimeInv, RuntimeTypes
<1>4. GaveUp'
  BY <1>2, <1>3 DEF GaveUp
<1>5. CallInv'
  BY <1>2, <1>3 DEF SeqInv, CallInv, OwnersInv, ResultInv, OwnersInv, ResultInv
<1>6. CountInv'
  BY DEF SeqInv, CountInv, writerVars
<1> QED BY <1>4, <1>5, <1>6 DEF SeqInv

(* A frame is resumed and takes the value of the child it awaited, or its  *)
(* exception.                                                              *)
LEMMA ResumeStep ==
  ASSUME RuntimeInv, SeqInv, RunNext, UNCHANGED writerVars
  PROVE  SeqInv' /\ (GaveUp => GaveUp')
<1>1. PICK h \in Handles : Resumes(h)
  BY RunNextEffect
<1>2. CountInv'
  BY DEF SeqInv, CountInv, writerVars
<1>3. CallInv /\ (~GaveUp => StageInv /\ RoundInv) /\ ~raised
  BY <1>1 DEF SeqInv, CallInv, OwnersInv, ResultInv, Resumes
<1>4. CASE point[h] # "child"
  <2>1. /\ point' = [point EXCEPT ![h] = "running"] /\ cur' = h /\ raised' = FALSE
        /\ point[h] \in {"initial", "timer", "op"}
        /\ UNCHANGED <<owner, result>> /\ callee' = [callee EXCEPT ![h] = Null]
    BY <1>1, <1>4 DEF Resumes, Resumable
  <2>2. /\ point'[h] = "running" /\ \A x \in Handles \ {h} : point'[x] = point[x]
        /\ \A x \in Handles \ {h} : callee'[x] = callee[x]
    BY <2>1 DEF RuntimeInv, RuntimeTypes
  <2>3. CallInv'
    BY <1>3, <2>1, <2>2 DEF CallInv, OwnersInv, ResultInv
  <2>4. GaveUp' <=> GaveUp
    BY <1>3, <2>1 DEF GaveUp
  <2>5. ASSUME StageInv PROVE StageInv'
    <3>1. FreshInv'
      BY <2>2, <2>5, SameEntry DEF StageInv, FreshInv, writerVars
    <3>2. PostedInv'
      BY <2>2, <2>5 DEF StageInv, PostedInv, OpFrames, writerVars
    <3> QED BY <3>1, <3>2, <2>5 DEF StageInv, writerVars
  <2>6. ASSUME StageInv, RoundInv PROVE RoundInv'
    <3>1. stage[Root] = "end" => h # Root
      <4>1. Entry[Root] = "open"
        BY Names DEF Entry
      <4> QED BY <2>1, <2>6, <4>1, Names
              DEF StageInv, FreshInv, PostedInv, OpFrames, writerVars
    <3>2. UNCHANGED <<stage, round, page>>
      BY DEF writerVars
    <3>3. h # Root => callee'[Root] = callee[Root]
      BY <2>2, Names
    <3> QED BY <2>2, <2>6, <3>1, <3>2, <3>3, Names DEF RoundInv
  <2> QED BY <1>2, <1>3, <2>3, <2>4, <2>5, <2>6 DEF SeqInv
<1>5. CASE point[h] = "child"
  <2> DEFINE c == callee[h]
  <2>1. /\ point' = [point EXCEPT ![h] = "running", ![c] = "free"] /\ cur' = h
        /\ raised' = (result[c] = "exception")
        /\ owner' = [owner EXCEPT ![c] = Null]
        /\ result' = [result EXCEPT ![c] = "unset"]
        /\ callee' = [callee EXCEPT ![h] = Null]
        /\ point[c] = "final" /\ c # h
    BY <1>1, <1>5 DEF Resumes, Resumable
  <2>2. c \in Handles /\ owner[c] = h /\ c # Root
    BY <1>5, Names DEF RuntimeInv, RuntimeFrames
  <2> HIDE DEF c
  <2>3. /\ point'[h] = "running" /\ point'[c] = "free"
        /\ \A x \in Handles \ {h, c} : point'[x] = point[x]
        /\ \A x \in Handles \ {h} : callee'[x] = callee[x]
        /\ owner'[c] = Null /\ \A x \in Handles \ {c} : owner'[x] = owner[x]
        /\ result'[c] = "unset" /\ \A x \in Handles \ {c} : result'[x] = result[x]
    BY <2>1, <2>2 DEF RuntimeInv, RuntimeTypes
  <2>8. point[c] = "final" /\ c # h /\ point[h] = "child" /\ cur' = h
        /\ raised' = (result[c] = "exception")
    BY <1>5, <2>1
  <2>4. CallInv'
    <3>1. OwnersInv'
      BY <1>3, <2>2, <2>3 DEF CallInv, OwnersInv, Caller
    <3>2. ResultInv'
      BY <1>3, <2>2, <2>3, <2>8 DEF CallInv, ResultInv
    <3> QED BY <2>1, <3>1, <3>2, Names DEF CallInv
  <2>5. GaveUp => GaveUp'
    BY <1>3, <2>1, <2>2, <2>3 DEF GaveUp
  <2>6. ASSUME StageInv PROVE StageInv'
    <3>1. FreshInv'
      BY <2>2, <2>3, <2>6, <2>8, SameEntry DEF StageInv, FreshInv, writerVars
    <3>2. PostedInv'
      BY <2>2, <2>3, <2>6, <2>8 DEF StageInv, PostedInv, OpFrames, writerVars
    <3> QED BY <3>1, <3>2, <2>6 DEF StageInv, writerVars
  <2>7. StageInv /\ RoundInv /\ ~GaveUp' => RoundInv'
    <3>1. h = Caller(c)
      BY <1>3, <2>2, Names DEF CallInv, OwnersInv
    <3> SUFFICES ASSUME StageInv, RoundInv, ~GaveUp' PROVE RoundInv'
      OBVIOUS
    <3>2. h = Root /\ stage[Root] = "end" => c = Write
      BY <2>8 DEF RoundInv, c
    <3>3. UNCHANGED <<stage, round, page>>
      BY DEF writerVars
    <3>4. stage[WriteOne] = "issue" => point'[WriteOne] # "child"
      BY <2>2, <2>3, Names DEF RoundInv
    <3>5. point'[WriteOne] \in {"free", "final"} => page = NumPages
      BY <2>2, <2>3, <2>8, Names DEF RoundInv
    <3>6. point'[Write] = "final" => round = Repeat
      BY <2>2, <2>3, Names DEF RoundInv
    <3>7. point'[Root] = "child" => point[Root] = "child" /\ h # Root
      BY <2>2, <2>3, Names
    <3>8. point'[Root] = "running" /\ stage[Root] = "end" => round = Repeat
      BY <2>2, <2>3, <2>8, <3>2, Names DEF RoundInv
    <3>9. point'[Root] = "final" => round = Repeat
      BY <2>2, <2>3, Names DEF RoundInv
    <3> QED BY <2>3, <3>3, <3>4, <3>5, <3>6, <3>7, <3>8, <3>9, Names DEF RoundInv
  <2> QED BY <1>2, <1>3, <2>4, <2>5, <2>6, <2>7 DEF SeqInv
<1> QED BY <1>4, <1>5

(* The steps that leave the frames alone.                                  *)
LEMMA QuietSteps ==
  ASSUME SeqInv, UNCHANGED <<point, result, owner, callee, cur, raised>>, UNCHANGED writerVars
  PROVE  SeqInv' /\ (GaveUp <=> GaveUp')
BY DEF SeqInv, CallInv, OwnersInv, ResultInv, CountInv, StageInv, FreshInv, PostedInv, RoundInv, GaveUp, writerVars

(* Peer opens its Net; the body of WriteOne counts a page.                 *)
LEMMA LocalSteps ==
  ASSUME RuntimeInv, SeqInv,
         \/ OpenPeer /\ UNCHANGED <<round, page, ops>>
         \/ CountPage
  PROVE  SeqInv'
<1> USE Names
<1>1. Active /\ UNCHANGED <<point, result, owner, callee, cur, raised>>
  BY DEF OpenPeer, OpenNet, CountPage, vars, frameVars, loopVars
<1>2. /\ ~GaveUp /\ StageInv /\ RoundInv /\ CallInv
      /\ cur \in Handles /\ point[cur] = "running"
  BY <1>1, ActiveFacts
<1>3. CallInv'
  BY <1>1, <1>2 DEF CallInv, OwnersInv, ResultInv
<1>4. CASE OpenPeer /\ UNCHANGED <<round, page, ops>>
  <2>1. cur = Root /\ stage' = [stage EXCEPT ![Root] = "handshake"]
    BY <1>4 DEF OpenPeer, At, Goto
  <2>2. stage'[Root] = "handshake" /\ \A x \in Handles \ {Root} : stage'[x] = stage[x]
    BY <1>2, <2>1 DEF StageInv
  <2>3. FreshInv' /\ PostedInv'
    BY <1>1, <1>2, <2>1, <2>2, SameEntry DEF StageInv, FreshInv, PostedInv
  <2>4. StageInv'
    BY <1>2, <2>1, <2>3 DEF StageInv
  <2>5. RoundInv' /\ CountInv'
    BY <1>1, <1>2, <1>4, <2>2 DEF RoundInv, SeqInv, CountInv
  <2> QED BY <1>3, <2>4, <2>5 DEF SeqInv
<1>5. CASE CountPage
  <2>1. cur = WriteOne /\ stage[WriteOne] = "count"
        /\ stage' = [stage EXCEPT ![WriteOne] = "issue"]
        /\ page' = page + 1 /\ ops' = ops + 1 /\ round' = round
    BY <1>5 DEF CountPage, At, Goto
  <2>2. stage'[WriteOne] = "issue" /\ \A x \in Handles \ {WriteOne} : stage'[x] = stage[x]
    BY <1>2, <2>1 DEF StageInv
  <2>3. FreshInv' /\ PostedInv'
    BY <1>1, <1>2, <2>1, <2>2, SameEntry DEF StageInv, FreshInv, PostedInv
  <2>4. StageInv'
    BY <1>2, <2>1, <2>3 DEF StageInv
  <2>5. RoundInv'
    BY <1>1, <1>2, <2>1, <2>2 DEF RoundInv
  <2>6. CountInv'
    <3>1. page \in 0 .. NumPages /\ page < NumPages /\ round \in 0 .. Repeat
      BY <1>2, <2>1 DEF SeqInv, CountInv, RoundInv
    <3>2. round # 0 /\ ops = (round - 1) * NumPages + page
      BY <3>1 DEF SeqInv, CountInv
    <3>3. (round - 1) * NumPages \in Int
      BY <3>1, WriterAssumption
    <3> HIDE DEF CountInv
    <3>4. ops' = (round' - 1) * NumPages + page' /\ page' \in 0 .. NumPages
      BY <2>1, <3>1, <3>2, <3>3, WriterAssumption
    <3> QED BY <2>1, <3>1, <3>2, <3>4 DEF CountInv
  <2> QED BY <1>3, <2>4, <2>5, <2>6 DEF SeqInv
<1> QED BY <1>4, <1>5

(* Every step of the program is a step of the runtime, and keeps the       *)
(* invariant; and a program that has given up goes on giving up.           *)
LEMMA ReturnIsClient ==
  ASSUME R!IInv, RuntimeInv, Return
  PROVE  R!Next
<1>1. Running /\ Finish("value")
  BY DEF Return, Active
<1>2. Children(cur) = {}
  BY <1>1, FinishEffect DEF Results
<1> QED BY <1>2, SameClient DEF R!Next

LEMMA CommonSteps ==
  ASSUME R!IInv, RuntimeInv, SeqInv, CommonStep
  PROVE  SeqInv' /\ R!Next
<1> USE Names
<1>1. CASE StartWriter
  <2>1. CASE OpenPeer
    <3>1. UNCHANGED <<round, page, ops>>
      BY <1>1 DEF StartWriter
    <3> QED BY <2>1, <3>1, LocalSteps, SameClient DEF OpenPeer, R!Next
  <2>2. CASE \/ At(Root, "handshake") /\ CallAwait(Handshake) /\ Goto(Root, "write")
             \/ At(Root, "write") /\ CallAwait(Write) /\ Goto(Root, "end")
    <3>1. UNCHANGED <<round, page, ops>>
      BY <1>1 DEF StartWriter
    <3>2. CountInv'
      BY <3>1 DEF SeqInv, CountInv
    <3> QED BY <2>2, <3>1, <3>2, CallSteps, SameClient DEF R!Next
  <2>3. CASE At(Root, "end") /\ Ends(Root)
    <3>1. UNCHANGED <<round, page, ops>>
      BY <1>1 DEF StartWriter
    <3> QED BY <2>3, <3>1, ReturnSteps, ReturnIsClient DEF At, Ends
  <2>4. CASE BodyThrows
    BY <1>1, <2>4, ThrowSteps DEF StartWriter
  <2> QED BY <1>1, <2>1, <2>2, <2>3, <2>4 DEF StartWriter
<1>2. CASE HandshakeStep
  <2>1. UNCHANGED <<round, page, ops>> /\ CountInv'
    BY <1>2 DEF HandshakeStep, SeqInv, CountInv
  <2>2. CASE At(Handshake, "recv") /\ CallAwait(Recv) /\ Goto(Handshake, "end")
    BY <2>1, <2>2, CallSteps, SameClient DEF R!Next
  <2>3. CASE At(Handshake, "end") /\ Ends(Handshake)
    BY <2>1, <2>3, ReturnSteps, ReturnIsClient DEF At, Ends
  <2>4. CASE BodyThrows
    BY <2>1, <2>4, ThrowSteps
  <2> QED BY <1>2, <2>2, <2>3, <2>4 DEF HandshakeStep
<1>3. CASE WriteStep
  <2>1. round \in 0 .. Repeat /\ page \in 0 .. NumPages /\ Active /\ At(Write, "loop")
    BY <1>3 DEF WriteStep, SeqInv, CountInv, CallAwait, Ends, Return
  <2>2. RoundInv /\ cur = Write /\ point[Write] = "running"
    BY <2>1, ActiveFacts DEF At
  <2>3. point[WriteOne] = "free" => page = NumPages
    BY <2>2 DEF RoundInv
  <2>4. CASE CallAwait(WriteOne) /\ MoreRounds /\ round' = round + 1 /\ page' = 0
             /\ UNCHANGED <<stage, ops>>
    <3>1. page = NumPages /\ round < Repeat
      BY <2>3, <2>4, CallEffect DEF MoreRounds
    <3>2. ops = IF round = 0 THEN 0 ELSE (round - 1) * NumPages + NumPages
      BY <3>1 DEF SeqInv, CountInv
    <3>3. ops = round * NumPages
      BY <2>1, <3>2, WriterAssumption
    <3>4. ops' = (round' - 1) * NumPages + page'
      BY <2>1, <2>4, <3>3, WriterAssumption
    <3>5. CountInv'
      BY <2>1, <2>4, <3>1, <3>4, WriterAssumption DEF CountInv
    <3> QED BY <2>1, <2>4, <3>1, <3>5, CallSteps, SameClient DEF R!Next
  <2>5. CASE Ends(Write) /\ ~MoreRounds /\ UNCHANGED <<round, page, ops>>
    <3>1. round = Repeat
      BY <2>1, <2>5, WriterAssumption DEF MoreRounds
    <3> QED BY <2>2, <2>5, <3>1, ReturnSteps, ReturnIsClient DEF Ends
  <2> QED BY <1>3, <2>4, <2>5 DEF WriteStep
<1>4. ASSUME NEW h \in OpFrames, OpStep(h) PROVE SeqInv' /\ R!Next
  <2>1. h \in Handles /\ cur = h /\ UNCHANGED <<round, page, ops>>
    BY <1>4 DEF OpStep, At, OpFrames
  <2>2. CASE PostOp \/ (MayFail /\ PostRefused)
    BY <1>4, <2>2, PostSteps, SameClient DEF R!Next
  <2>3. CASE Ends(h)
    BY <2>1, <2>3, ReturnSteps, ReturnIsClient DEF Ends
  <2>4. CASE BodyThrows
    BY <2>1, <2>4, ThrowSteps
  <2> QED BY <1>4, <2>2, <2>3, <2>4 DEF OpStep
<1> QED BY <1>1, <1>2, <1>3, <1>4 DEF CommonStep

LEMMA ProgramSteps ==
  ASSUME R!IInv, RuntimeInv, SeqInv, SeqStep
  PROVE  SeqInv' /\ [R!Next]_R!vars
<1> USE Names
<1>1. CASE \E c \in Slots : WritePage(c)
  <2>1. PICK c \in Slots : WritePage(c)
    BY <1>1
  <2>2. /\ c \in Handles /\ CallAwait(c) /\ At(WriteOne, "issue") /\ Goto(WriteOne, "count")
        /\ UNCHANGED <<round, page, ops>> /\ page < NumPages
    BY <2>1 DEF WritePage
  <2>3. CountInv'
    BY <2>2 DEF SeqInv, CountInv
  <2> QED BY <2>2, <2>3, CallSteps, SameClient DEF R!Next
<1>2. CASE CountPage
  <2>1. R!vars' = R!vars
    BY <1>2 DEF CountPage, vars, frameVars, loopVars, fabricVars,
                R!vars, R!frameVars, R!loopVars, R!fabricVars
  <2> QED BY <1>2, <2>1, LocalSteps
<1>3. CASE EndRound
  BY <1>3, ReturnSteps, ReturnIsClient DEF EndRound, At, Ends
<1>4. CASE CommonStep
  BY <1>4, CommonSteps
<1> QED BY <1>1, <1>2, <1>3, <1>4 DEF SeqStep

LEMMA NextSeqInv ==
  ASSUME R!IInv, R!WInv, SeqInv, [SeqNext]_seqVars
  PROVE  SeqInv' /\ [R!Next]_R!vars
<1>1. RuntimeInv
  BY RuntimeFacts
<1>2. CASE SeqStep
  BY <1>1, <1>2, ProgramSteps
<1>3. CASE Background
  <2>1. UNCHANGED writerVars
    BY <1>3 DEF Background
  <2>2. CASE RunNext
    BY <1>1, <2>1, <2>2, ResumeStep, SameLoop DEF LoopStep, R!Next
  <2>3. CASE Unwind
    BY <1>1, <2>1, <2>3, UnwindStep, SameClient DEF R!Next
  <2>4. CASE \/ Stop \/ Select \/ SelectError \/ StartBatch \/ EndBatch \/ Nic \/ Tick
             \/ \E h \in Handles : ExpireTimer(h)
    <3>1. UNCHANGED <<point, result, owner, callee, cur, raised>>
      BY <2>4 DEF Stop, Select, SelectError, StartBatch, EndBatch, Nic, Complete,
                  CompleteError, Tick, ExpireTimer, frameVars, loopVars
    <3>2. R!Next
      BY <2>4, SameLoop, SameNic DEF LoopStep, R!Next
    <3> QED BY <2>1, <3>1, <3>2, QuietSteps
  <2> QED BY <1>3, <2>2, <2>3, <2>4 DEF Background, LoopStep
<1>4. CASE UNCHANGED seqVars
  <2>1. UNCHANGED <<point, result, owner, callee, cur, raised>> /\ UNCHANGED writerVars
    BY <1>4 DEF seqVars, vars, frameVars, loopVars
  <2>2. R!vars' = R!vars
    BY <1>4 DEF seqVars, vars, frameVars, loopVars, fabricVars,
                R!vars, R!frameVars, R!loopVars, R!fabricVars
  <2> QED BY <2>1, <2>2, QuietSteps
<1> QED BY <1>2, <1>3, <1>4 DEF SeqNext

SeqFullInv == R!IInv /\ R!WInv /\ SeqInv

LEMMA SeqInvHolds == SeqSpec => []SeqFullInv
<1>1. WriterInit => SeqFullInv
  BY InitSeqInv, SameInit, R!InitIInv, R!InitWInv, RuntimeAssumptions
     DEF WriterInit, SeqFullInv
<1>2. SeqFullInv /\ [SeqNext]_seqVars => SeqFullInv'
  <2> SUFFICES ASSUME R!IInv, R!WInv, SeqInv, [SeqNext]_seqVars PROVE SeqFullInv'
    BY DEF SeqFullInv
  <2>1. SeqInv' /\ [R!Next]_R!vars
    BY NextSeqInv
  <2>2. R!IInv'
    BY <2>1, R!NextIInv, RuntimeAssumptions
  <2>3. R!WInv'
    BY <2>1, <2>2, R!NextWInv, RuntimeAssumptions
  <2> QED BY <2>1, <2>2, <2>3 DEF SeqFullInv
<1> QED BY <1>1, <1>2, PTL DEF SeqSpec

-----------------------------------------------------------------------------
(* The writer is one of the programs of LoopClient: it holds one child at  *)
(* a time and returns when it holds none.                                  *)
THEOREM RunsOnRuntime == SeqSpec => R!Spec
<1>1. SeqFullInv /\ [SeqNext]_seqVars => [R!Next]_R!vars
  BY NextSeqInv DEF SeqFullInv
<1>2. WriterInit => R!Init
  BY SameInit DEF WriterInit
<1> QED BY <1>1, <1>2, SeqInvHolds, PTL DEF SeqSpec, R!Spec

(* LoopClient is instantiated twice, here with its theorems: the two       *)
(* instances are the same formula.                                         *)
THEOREM KeepsDiscipline == SeqSpec => IsLoopClient
<1>1. R!Spec => Runtime!Spec
  BY DEF R!Next, Runtime!Next, R!LoopStep, Runtime!LoopStep, R!Stop,
         Runtime!Stop, R!Select, Runtime!Select, R!SelectError,
         Runtime!SelectError, R!ExpireTimer, Runtime!ExpireTimer, R!Expired,
         Runtime!Expired, R!StartBatch, Runtime!StartBatch, R!EndBatch,
         Runtime!EndBatch, R!RunNext, Runtime!RunNext, R!EndsWithAwait,
         Runtime!EndsWithAwait, R!Resumable, Runtime!Resumable, R!Stopped,
         Runtime!Stopped, R!ErrorAtHead, Runtime!ErrorAtHead, R!SetAll,
         Runtime!SetAll, R!Range, Runtime!Range, R!Nic, Runtime!Nic,
         R!Complete, Runtime!Complete, R!CompleteError, Runtime!CompleteError,
         R!Tick, Runtime!Tick, R!ClientStep, Runtime!ClientStep, R!CallAwait,
         Runtime!CallAwait, R!Create, Runtime!Create, R!SuspendOn,
         Runtime!SuspendOn, R!Spawn, Runtime!Spawn, R!AwaitDone,
         Runtime!AwaitDone, R!AwaitFuture, Runtime!AwaitFuture, R!IsFuture,
         Runtime!IsFuture, R!MustCall, Runtime!MustCall, R!DropFuture,
         Runtime!DropFuture, R!SleepAwait, Runtime!SleepAwait, R!PostOp,
         Runtime!PostOp, R!PostRefused, Runtime!PostRefused, R!Throw,
         Runtime!Throw, R!ReturnJoined, Runtime!ReturnJoined, R!Return,
         Runtime!Return, R!Finish, Runtime!Finish, R!Descendants,
         Runtime!Descendants, R!Children, Runtime!Children, R!Continuation,
         Runtime!Continuation, R!Wake, Runtime!Wake, R!Unwind, Runtime!Unwind,
         R!OpenNet, Runtime!OpenNet, R!Active, Runtime!Active, R!Running,
         Runtime!Running, R!Terminating, Runtime!Terminating, R!Ended,
         Runtime!Ended, R!vars, Runtime!vars, R!frameVars, Runtime!frameVars,
         R!loopVars, Runtime!loopVars, R!fabricVars, Runtime!fabricVars,
         R!Init, Runtime!Init, R!Spec, Runtime!Spec
<1> QED BY <1>1, RunsOnRuntime DEF IsLoopClient

(* So what LoopClientProofs proves of the runtime holds while this program *)
(* runs, although a call that fails is thrown through all of its frames.   *)
THEOREM RunsSafely ==
  SeqSpec => [](R!NoDangling /\ R!QueuedOnce /\ R!NoLostWakeup /\ phase # "undefined")
<1>1. R!Spec => [](R!NoDangling) /\ [](R!QueuedOnce)
  BY R!NothingDangles, R!NeverQueuedTwice, RuntimeAssumptions
<1>2. R!Spec => [](R!NoLostWakeup) /\ [](phase # "undefined")
  BY R!NoWakeupLost, R!NeverUndefined, RuntimeAssumptions
<1> QED BY <1>1, <1>2, RunsOnRuntime, PTL

(* The program ends only when every page of every round was counted.       *)
THEOREM EveryPageCounted == SeqSpec => []AllWritten
<1>1. SeqFullInv => AllWritten
  <2> SUFFICES ASSUME R!IInv, R!WInv, SeqInv, phase = "stopped", ~GaveUp
               PROVE  ops = Repeat * NumPages
    BY DEF SeqFullInv, AllWritten
  <2>1. point[Root] = "final" /\ point[WriteOne] = "free"
    BY RuntimeFacts, Names DEF RuntimeInv, RuntimeFrames
  <2>2. round = Repeat /\ page = NumPages
    BY <2>1 DEF SeqInv, RoundInv
  <2>3. ops = IF Repeat = 0 THEN 0 ELSE (Repeat - 1) * NumPages + NumPages
    BY <2>2 DEF SeqInv, CountInv
  <2> QED BY <2>3, WriterAssumption
<1> QED BY <1>1, SeqInvHolds, PTL

(* The counters stay in range: Progress never prints more writes than were *)
(* asked for, not even when the writer gives up.                           *)
StageType == stage \in [Handles -> {"open", "handshake", "write", "end", "recv", "loop",
                                   "issue", "count", "post", "posted"}]

LEMMA StageTyped ==
  ASSUME StageType, [SeqNext]_seqVars
  PROVE  StageType'
<1>1. ASSUME NEW h \in Handles, NEW s \in {"handshake", "write", "end", "count", "issue", "posted"},
             Goto(h, s)
      PROVE  StageType'
  BY <1>1 DEF StageType, Goto
<1>2. ASSUME NEW h \in Handles, Ends(h) PROVE StageType'
  <2>1. Entry[h] \in {"open", "recv", "loop", "issue", "post"}
    BY DEF Entry
  <2> QED BY <1>2, <2>1 DEF StageType, Ends, Goto
<1>3. UNCHANGED stage => StageType'
  BY DEF StageType
<1>4. CASE \/ StartWriter \/ HandshakeStep \/ WriteStep
  BY <1>1, <1>2, <1>3, <1>4, Names DEF StartWriter, HandshakeStep, WriteStep, OpenPeer, BodyThrows
<1>5. ASSUME NEW h \in OpFrames, OpStep(h) PROVE StageType'
  BY <1>1, <1>2, <1>3, <1>5, OpAreOthers DEF OpStep, BodyThrows
<1>6. CASE (\E c \in Slots : WritePage(c)) \/ CountPage \/ EndRound
  BY <1>1, <1>2, <1>6, Names DEF WritePage, CountPage, EndRound
<1>7. CASE Background \/ UNCHANGED seqVars
  BY <1>3, <1>7 DEF Background, seqVars, writerVars
<1> QED BY <1>4, <1>5, <1>6, <1>7 DEF SeqNext, SeqStep, CommonStep

THEOREM SeqTypeCorrect == SeqSpec => []WriterTypeOK
<1>1. WriterInit => StageType
  BY DEF WriterInit, Entry, StageType
<1>2. SeqSpec => []StageType
  BY <1>1, StageTyped, PTL DEF SeqSpec
<1>3. SeqFullInv /\ StageType => WriterTypeOK
  <2> SUFFICES ASSUME SeqInv, StageType PROVE WriterTypeOK
    BY DEF SeqFullInv
  <2>1. round \in 0 .. Repeat /\ page \in 0 .. NumPages
    BY DEF SeqInv, CountInv
  <2>2. ops \in 0 .. Repeat * NumPages
    BY <2>1, OpsInRange DEF SeqInv, CountInv
  <2> QED BY <2>1, <2>2 DEF WriterTypeOK, StageType
<1> QED BY <1>2, <1>3, SeqInvHolds, PTL

-----------------------------------------------------------------------------
(* The writer keeps the promise of WriteWindow with a window of one.  The  *)
(* page in work, if there is one, is as far as the frame that writes it.   *)
Opened == \E f \in Slots : stage[f] = "post" /\ point[f] \in {"initial", "running"}

OnWire == \E f \in Slots : point[f] = "op" /\ f \notin Range(cq) \cup Range(ready)

InWork == IF Opened THEN "open" ELSE IF OnWire THEN "wire" ELSE "done"

Status == [p \in 0 .. NumPages - 1 |-> PageStatus(p)]

LEMMA StatusFacts ==
  Status = [p \in 0 .. NumPages - 1 |->
              IF p < page THEN "done"
              ELSE IF p > page \/ stage[WriteOne] = "issue" THEN "todo" ELSE InWork]
BY DEF Status, PageStatus, InWork, Opened, OnWire

LEMMA SameStatus ==
  ASSUME UNCHANGED page, UNCHANGED stage[WriteOne],
         page < NumPages /\ stage[WriteOne] # "issue" => UNCHANGED InWork,
         page \in 0 .. NumPages
  PROVE  Status' = Status
<1>1. Status' = [p \in 0 .. NumPages - 1 |->
              IF p < page' THEN "done"
              ELSE IF p > page' \/ stage'[WriteOne] = "issue" THEN "todo" ELSE InWork']
  BY DEF Status, PageStatus, InWork, Opened, OnWire
<1> QED BY <1>1, StatusFacts, WriterAssumption

(* When no slot is the leaf of the chain, no page is in work.              *)
LEMMA NoSlotNoWork ==
  ASSUME \A f \in Slots : point[f] \in {"free", "child", "final"}
  PROVE  InWork = "done"
BY DEF InWork, Opened, OnWire

(* The writer writes a page only while its WriteOne is in the middle of    *)
(* its loop.                                                               *)
LEMMA IdleWriter ==
  ASSUME RuntimeInv, SeqInv, ~GaveUp, cur \in {Root, Handshake, Recv, Write}
  PROVE  page = NumPages
<1>1. CallInv /\ StageInv /\ RoundInv
  BY DEF SeqInv
<1>2. point[cur] = "running" /\ cur \in Handles
  BY Names DEF RuntimeInv, RuntimeTypes, RuntimeFrames
<1>3. \A h \in Handles \ {Root} : point[h] # "free" =>
        owner[h] = Caller(h) /\ point[Caller(h)] = "child" /\ callee[Caller(h)] = h
  BY <1>1 DEF RuntimeInv, RuntimeFrames, CallInv, OwnersInv
<1>4. point[WriteOne] = "free"
  BY <1>2, <1>3, Names DEF Caller
<1> QED BY <1>1, <1>4 DEF RoundInv

(* A slot that is suspended or runs, writes the page that WriteOne is at.  *)
LEMMA SlotWrites ==
  ASSUME RuntimeInv, SeqInv, ~GaveUp, NEW f \in Slots, point[f] # "free"
  PROVE  stage[WriteOne] = "count" /\ page \in 0 .. NumPages - 1
<1>1. CallInv /\ StageInv /\ RoundInv /\ page \in 0 .. NumPages
  BY DEF SeqInv, CountInv
<1>2. point[WriteOne] = "child"
  BY <1>1, Names DEF RuntimeInv, RuntimeFrames, CallInv, OwnersInv, Caller
<1> QED BY <1>1, <1>2, WriterAssumption DEF StageInv, RoundInv

(* Reading the completion queue moves entries to the deque; the writer is  *)
(* told of a completion when its handle is queued, not when it runs.       *)
LEMMA LoopWork ==
  ASSUME RuntimeInv, RuntimeInv', SeqInv, ~GaveUp, UNCHANGED writerVars,
         \/ Stop \/ Select \/ SelectError \/ StartBatch \/ EndBatch \/ Tick
         \/ \E h \in Handles : ExpireTimer(h)
  PROVE  UNCHANGED InWork
<1>1. StageInv /\ PostedInv
  BY DEF SeqInv, StageInv
<1>2. UNCHANGED point
  BY DEF Stop, Select, SelectError, StartBatch, EndBatch, Tick, ExpireTimer, frameVars
<1>3. Range(cq') \cup Range(ready') = Range(cq) \cup Range(ready)
  <2>1. CASE Select
    <3> DEFINE n == IF ~polling THEN 0
                    ELSE IF Len(cq) < MaxCQEntries THEN Len(cq) ELSE MaxCQEntries
               events == SubSeq(cq, 1, n)
               rest == SubSeq(cq, n + 1, Len(cq))
    <3>1. cq \in Seq(Handles) /\ ready \in Seq(Handles) /\ Len(cq) \in Nat
      BY LenProperties DEF RuntimeInv, RuntimeTypes
    <3>2. n \in 0 .. Len(cq)
      BY <3>1, LoopAssumption
    <3>3. phase' # "undefined"
      BY DEF RuntimeInv, RuntimeQueues
    <3>4. cq' = rest /\ ready' = ready \o events
      BY <2>1, <3>3 DEF Select
    <3> HIDE DEF n
    <3>5. /\ events \in Seq(Handles) /\ rest \in Seq(Handles)
          /\ Range(events) \subseteq Range(cq) /\ Range(rest) \subseteq Range(cq)
          /\ Range(cq) \subseteq Range(events) \cup Range(rest)
      BY <3>1, <3>2, ReadFront
    <3> HIDE DEF events, rest
    <3>6. Range(ready') = Range(ready) \cup Range(events)
      BY <3>1, <3>4, <3>5, PushAll
    <3> QED BY <3>4, <3>5, <3>6
  <2>2. CASE \E h \in Handles : ExpireTimer(h)
    <3>1. PICK h \in Handles : ExpireTimer(h)
      BY <2>2
    <3>2. point[h] = "timer"
      BY <3>1 DEF ExpireTimer, Expired, RuntimeInv, RuntimeQueues
    <3> QED BY <3>2, <1>1 DEF PostedInv
  <2>3. CASE Stop \/ SelectError \/ StartBatch \/ EndBatch \/ Tick
    BY <2>3 DEF Stop, SelectError, StartBatch, EndBatch, Tick, fabricVars
  <2> QED BY <2>1, <2>2, <2>3
<1>4. UNCHANGED Opened
  BY <1>2 DEF Opened, writerVars
<1>5. UNCHANGED OnWire
  BY <1>2, <1>3 DEF OnWire
<1> QED BY <1>4, <1>5 DEF InWork

(* The write is completed when its entry joins the queue.  Behind an error *)
(* entry it is lost, and stays on the wire.                                *)
LEMMA NicWork ==
  ASSUME RuntimeInv, SeqInv, ~GaveUp, UNCHANGED writerVars,
         NEW h \in Handles, Complete(h) \/ CompleteError(h)
  PROVE  \/ UNCHANGED InWork
         \/ /\ InWork = "wire" /\ InWork' = "done"
            /\ stage[WriteOne] = "count" /\ page \in 0 .. NumPages - 1
<1>1. CallInv /\ StageInv /\ PostedInv
  BY DEF SeqInv, StageInv
<1>2. /\ point[h] = "op" /\ h \notin Range(ready) /\ h \notin Range(cq)
      /\ UNCHANGED <<point, ready>>
  BY DEF Complete, CompleteError, frameVars, loopVars, RuntimeInv, RuntimeQueues
<1>3. \A x \in Handles \ {h} : point[x] \in {"free", "child"}
  BY <1>1, <1>2, OneLeaf
<1>4. stage[h] = "posted" /\ UNCHANGED stage
  BY <1>1, <1>2 DEF PostedInv, writerVars
<1>5. ~Opened /\ ~Opened'
  BY <1>2, <1>3, <1>4, Names DEF Opened
<1>6. CASE h \in Slots /\ cq' = Append(cq, h)
  <2>1. Range(cq') = Range(cq) \cup {h}
    BY <1>6, PushBack DEF RuntimeInv, RuntimeTypes
  <2>2. OnWire /\ ~OnWire'
    BY <1>2, <1>3, <1>6, <2>1, Names DEF OnWire
  <2> QED BY <1>2, <1>5, <1>6, <2>2, SlotWrites DEF InWork
<1>7. CASE h \notin Slots
  <2>1. ~OnWire /\ ~OnWire'
    BY <1>2, <1>3, <1>7, Names DEF OnWire
  <2> QED BY <1>5, <2>1 DEF InWork
<1>8. CASE UNCHANGED cq
  BY <1>2, <1>4, <1>8 DEF InWork, Opened, OnWire
<1> QED BY <1>6, <1>7, <1>8 DEF Complete, CompleteError

(* Resuming a frame does not change how far its write has come.            *)
LEMMA ResumeWork ==
  ASSUME RuntimeInv, SeqInv, ~GaveUp, UNCHANGED writerVars, RunNext
  PROVE  UNCHANGED InWork
<1>1. PICK h \in Handles : Resumes(h)
  BY RunNextEffect
<1>2. CallInv /\ StageInv /\ PostedInv /\ FreshInv /\ UNCHANGED stage
  BY DEF SeqInv, StageInv, writerVars
<1>3. CASE point[h] # "child"
  <2>1. point[h] \in {"initial", "timer", "op"} /\ point' = [point EXCEPT ![h] = "running"]
        /\ h \in Range(ready)
    BY <1>1, <1>3 DEF Resumes, Resumable
  <2>2. point'[h] = "running" /\ \A x \in Handles \ {h} : point'[x] = point[x]
    BY <2>1 DEF RuntimeInv, RuntimeTypes
  <2>3. \A x \in Handles \ {h} : point[x] \in {"free", "child"}
    BY <1>2, <2>1, OneLeaf
  <2>4. CASE h \in Slots /\ point[h] = "initial"
    <3>1. stage[h] = "post"
      BY <1>2, <2>4, Names DEF FreshInv, Entry
    <3>2. Opened /\ Opened'
      BY <1>2, <2>2, <2>4, <3>1 DEF Opened
    <3> QED BY <3>2 DEF InWork
  <2>5. CASE h \in Slots /\ point[h] # "initial"
    <3>1. stage[h] = "posted" /\ point[h] = "op"
      BY <1>2, <2>1, <2>5 DEF PostedInv
    <3>2. ~Opened /\ ~Opened' /\ ~OnWire /\ ~OnWire'
      BY <1>2, <2>1, <2>2, <2>3, <3>1, Names DEF Opened, OnWire
    <3> QED BY <3>2 DEF InWork
  <2>6. CASE h \notin Slots
    <3>1. ~Opened /\ ~Opened' /\ ~OnWire /\ ~OnWire'
      BY <2>2, <2>3, <2>6, Names DEF Opened, OnWire
    <3> QED BY <3>1 DEF InWork
  <2> QED BY <2>4, <2>5, <2>6
<1>4. CASE point[h] = "child"
  <2> DEFINE c == callee[h]
  <2>1. /\ point' = [point EXCEPT ![h] = "running", ![c] = "free"]
        /\ point[c] = "final" /\ c # h
    BY <1>1, <1>4 DEF Resumes, Resumable
  <2>2. c \in Handles /\ owner[c] = h
    BY <1>4, Names DEF RuntimeInv, RuntimeFrames
  <2> HIDE DEF c
  <2>3. /\ point'[h] = "running" /\ point'[c] = "free"
        /\ \A x \in Handles \ {h, c} : point'[x] = point[x]
    BY <2>1, <2>2 DEF RuntimeInv, RuntimeTypes
  <2>4. h \notin Slots
    BY <1>2, <2>2, Names DEF CallInv, OwnersInv, Caller
  <2>5. \A x \in Handles \ {c} : point[x] \in {"free", "child"}
    BY <1>2, <2>1, <2>2, OneLeaf
  <2>6. ~Opened /\ ~Opened' /\ ~OnWire /\ ~OnWire'
    BY <1>4, <2>1, <2>2, <2>3, <2>4, <2>5, Names DEF Opened, OnWire
  <2> QED BY <2>6 DEF InWork
<1> QED BY <1>3, <1>4

(* What the steps of the writer do to the promise.                         *)
Stutters == UNCHANGED <<round, Status>>

LEMMA StatusType == Status \in [0 .. NumPages - 1 -> {"todo", "open", "wire", "done"}]
BY DEF Status, PageStatus

(* StartWriter, Handshake, Conn::Recv and the end of Write write no page.  *)
LEMMA IdleSteps ==
  ASSUME RuntimeInv, SeqInv, Active,
         \/ StartWriter
         \/ HandshakeStep
         \/ OpStep(Recv)
         \/ At(Write, "loop") /\ Ends(Write) /\ UNCHANGED <<round, page, ops>>
  PROVE  Stutters
<1> USE Names
<1>1. cur \in {Root, Handshake, Recv, Write} /\ UNCHANGED <<round, page>>
  BY DEF StartWriter, OpenPeer, HandshakeStep, OpStep, At
<1>2. ~GaveUp /\ StageInv
  BY ActiveFacts
<1>3. page = NumPages
  BY <1>1, <1>2, IdleWriter
<1>4. stage'[WriteOne] = stage[WriteOne]
  BY <1>2 DEF StartWriter, OpenPeer, HandshakeStep, OpStep, At, Ends, Goto, StageInv, BodyThrows
<1> QED BY <1>1, <1>3, <1>4, SameStatus, WriterAssumption DEF Stutters

(* WriteStep starts a round when every page of the last one is written.    *)
LEMMA RoundStarts ==
  ASSUME RuntimeInv, SeqInv, At(Write, "loop"), MoreRounds, CallAwait(WriteOne),
         round' = round + 1, page' = 0, UNCHANGED stage
  PROVE  /\ round < Repeat
         /\ \A p \in 0 .. NumPages - 1 : Status[p] = "done"
         /\ Status' = [p \in 0 .. NumPages - 1 |-> "todo"]
<1> USE Names
<1>1. ~GaveUp /\ StageInv /\ RoundInv /\ FreshInv
  BY ActiveFacts DEF CallAwait, StageInv
<1>2. point[WriteOne] = "free"
  BY CallEffect
<1>3. page = NumPages /\ stage[WriteOne] = "issue"
  BY <1>1, <1>2 DEF RoundInv, FreshInv, Entry
<1>4. \A p \in 0 .. NumPages - 1 : Status[p] = "done"
  BY <1>3, StatusFacts, WriterAssumption
<1>5. Status' = [p \in 0 .. NumPages - 1 |-> "todo"]
  <2>1. Status' = [p \in 0 .. NumPages - 1 |->
              IF p < page' THEN "done"
              ELSE IF p > page' \/ stage'[WriteOne] = "issue" THEN "todo" ELSE InWork']
    BY DEF Status, PageStatus, InWork, Opened, OnWire
  <2> QED BY <1>3, <2>1, WriterAssumption
<1> QED BY <1>4, <1>5 DEF MoreRounds

(* WritePage opens its page while no other is in work.                     *)
LEMMA PageOpens ==
  ASSUME RuntimeInv, SeqInv, NEW c \in Slots, WritePage(c)
  PROVE  /\ page \in 0 .. NumPages - 1 /\ round' = round
         /\ Status[page] = "todo"
         /\ \A p \in 0 .. NumPages - 1 : Status[p] \in {"todo", "done"}
         /\ \A p \in 0 .. page - 1 : Status[p] = "done"
         /\ Status' = [Status EXCEPT ![page] = "open"]
<1> USE Names
<1>1. /\ At(WriteOne, "issue") /\ page < NumPages /\ CallAwait(c) /\ c \in Handles
      /\ stage' = [stage EXCEPT ![WriteOne] = "count"] /\ UNCHANGED <<round, page>>
  BY DEF WritePage, Goto
<1>2. ~GaveUp /\ StageInv /\ FreshInv
  BY <1>1, ActiveFacts DEF CallAwait, StageInv
<1>3. page \in 0 .. NumPages - 1
  BY <1>1, WriterAssumption DEF SeqInv, CountInv
<1>4. Opened'
  <2>1. point[c] = "free" /\ point'[c] = "initial"
    BY <1>1, CallEffect
  <2>2. stage[c] = "post"
    BY <1>1, <1>2, <2>1 DEF FreshInv, Entry
  <2>3. stage'[c] = "post"
    BY <1>1, <1>2, <2>2 DEF StageInv
  <2> QED BY <2>1, <2>3 DEF Opened
<1>5. Status = [p \in 0 .. NumPages - 1 |-> IF p < page THEN "done" ELSE "todo"]
  BY <1>1, <1>3, StatusFacts, WriterAssumption DEF At
<1>6. Status' = [p \in 0 .. NumPages - 1 |->
                   IF p < page THEN "done" ELSE IF p > page THEN "todo" ELSE "open"]
  <2>1. Status' = [p \in 0 .. NumPages - 1 |->
              IF p < page' THEN "done"
              ELSE IF p > page' \/ stage'[WriteOne] = "issue" THEN "todo" ELSE InWork']
    BY DEF Status, PageStatus, InWork, Opened, OnWire
  <2>2. InWork' = "open" /\ stage'[WriteOne] = "count"
    BY <1>1, <1>2, <1>4 DEF InWork, StageInv
  <2> QED BY <1>1, <2>1, <2>2
<1>7. Status[page] = "todo" /\ \A p \in 0 .. page - 1 : Status[p] = "done"
  BY <1>3, <1>5, WriterAssumption
<1>8. \A p \in 0 .. NumPages - 1 : Status[p] \in {"todo", "done"}
  BY <1>5
<1>9. Status' = [Status EXCEPT ![page] = "open"]
  BY <1>3, <1>5, <1>6, WriterAssumption
<1> QED BY <1>1, <1>3, <1>7, <1>8, <1>9

(* Counting the page, and the end of the round, change no status.          *)
LEMMA PageCounted ==
  ASSUME RuntimeInv, SeqInv, CountPage \/ EndRound
  PROVE  Stutters
<1> USE Names
<1>1. Active /\ cur = WriteOne /\ round' = round
  BY DEF CountPage, EndRound, At, Ends, Return
<1>2. /\ StageInv /\ RoundInv /\ page \in 0 .. NumPages
      /\ point[WriteOne] = "running"
      /\ \A h \in Handles \ {WriteOne} : point[h] \in {"free", "child"}
  BY <1>1, ActiveFacts DEF SeqInv, CountInv
<1>3. InWork = "done"
  BY <1>2, NoSlotNoWork
<1>4. CASE CountPage
  <2>1. /\ stage[WriteOne] = "count" /\ page' = page + 1
        /\ stage' = [stage EXCEPT ![WriteOne] = "issue"]
    BY <1>4 DEF CountPage, At, Goto
  <2>2. stage'[WriteOne] = "issue"
    BY <1>2, <2>1 DEF StageInv
  <2>3. Status' = [p \in 0 .. NumPages - 1 |->
              IF p < page' THEN "done"
              ELSE IF p > page' \/ stage'[WriteOne] = "issue" THEN "todo" ELSE InWork']
    BY DEF Status, PageStatus, InWork, Opened, OnWire
  <2> QED BY <1>1, <1>2, <1>3, <2>1, <2>2, <2>3, StatusFacts, WriterAssumption DEF Stutters
<1>5. CASE EndRound
  <2>1. page = NumPages /\ page' = page /\ stage[WriteOne] = "issue"
        /\ stage' = [stage EXCEPT ![WriteOne] = Entry[WriteOne]]
    BY <1>5 DEF EndRound, At, Ends, Goto
  <2>2. stage'[WriteOne] = "issue"
    BY <1>2, <2>1 DEF StageInv, Entry
  <2> QED BY <1>1, <1>2, <2>1, <2>2, SameStatus, WriterAssumption DEF Stutters
<1> QED BY <1>4, <1>5

(* The one open page is sent.                                              *)
LEMMA OneSent ==
  ASSUME NEW N \in Nat, NEW i \in 0 .. N - 1, NEW s, NEW t,
         s = [p \in 0 .. N - 1 |-> IF p < i THEN "done" ELSE IF p > i THEN "todo" ELSE "open"],
         t = [p \in 0 .. N - 1 |-> IF p < i THEN "done" ELSE IF p > i THEN "todo" ELSE "wire"]
  PROVE  s[i] = "open" /\ t = [s EXCEPT ![i] = "wire"]
<1>1. \A p \in 0 .. N - 1 : p # i => p < i \/ p > i
  OBVIOUS
<1>2. s[i] = "open" /\ t[i] = "wire" /\ \A p \in 0 .. N - 1 : p # i => s[p] = t[p]
  BY <1>1
<1> QED BY <1>2

(* A slot posts its write, and returns when it was resumed.                *)
LEMMA SlotSteps ==
  ASSUME R!IInv, RuntimeInv, SeqInv, NEW f \in Slots, OpStep(f), ~GaveUp'
  PROVE  \/ Stutters
         \/ /\ page \in 0 .. NumPages - 1 /\ round' = round
            /\ Status[page] = "open" /\ Status' = [Status EXCEPT ![page] = "wire"]
<1> USE Names
<1>1. /\ Active /\ Running /\ cur = f /\ f \in Handles /\ UNCHANGED <<round, page, ops>>
  BY DEF OpStep, At, Ends, Return, PostOp, PostRefused, BodyThrows,
         Throw, Active
<1>2. /\ ~GaveUp /\ StageInv /\ ~raised
      /\ point[f] = "running"
      /\ \A h \in Handles \ {f} : point[h] \in {"free", "child"}
  BY <1>1, ActiveFacts
<1>3. stage[WriteOne] = "count" /\ page \in 0 .. NumPages - 1
  BY <1>2, SlotWrites
<1>4. ~PostRefused /\ ~BodyThrows
  BY DEF PostRefused, BodyThrows, Throw, GaveUp
<1>5. CASE PostOp /\ stage[f] = "post" /\ Goto(f, "posted")
  <2>1. /\ point' = [point EXCEPT ![f] = "op"] /\ UNCHANGED <<cq, ready>>
        /\ stage' = [stage EXCEPT ![f] = "posted"]
    BY <1>1, <1>5 DEF PostOp, Goto
  <2>2. /\ point'[f] = "op" /\ \A x \in Handles \ {f} : point'[x] = point[x]
        /\ stage'[f] = "posted" /\ stage'[WriteOne] = "count"
    BY <1>2, <1>3, <2>1 DEF RuntimeInv, RuntimeTypes, StageInv
  <2>3. f \notin Range(cq) /\ f \notin Range(ready)
    BY <1>2 DEF RuntimeInv, RuntimeQueues, Resumable
  <2>4. InWork = "open"
    BY <1>2, <1>5 DEF InWork, Opened
  <2>5. ~Opened' /\ OnWire'
    BY <1>2, <2>1, <2>2, <2>3 DEF Opened, OnWire
  <2>6. InWork' = "wire"
    BY <2>5 DEF InWork
  <2>7. Status' = [p \in 0 .. NumPages - 1 |->
              IF p < page' THEN "done"
              ELSE IF p > page' \/ stage'[WriteOne] = "issue" THEN "todo" ELSE InWork']
    BY DEF Status, PageStatus, InWork, Opened, OnWire
  <2>8. Status = [p \in 0 .. NumPages - 1 |->
                    IF p < page THEN "done" ELSE IF p > page THEN "todo" ELSE "open"]
    BY <1>3, <2>4, StatusFacts
  <2>9. Status' = [p \in 0 .. NumPages - 1 |->
                     IF p < page THEN "done" ELSE IF p > page THEN "todo" ELSE "wire"]
    BY <1>1, <2>2, <2>6, <2>7
  <2>10. NumPages \in Nat /\ page \in 0 .. NumPages - 1
    BY <1>3, WriterAssumption
  <2>11. Status[page] = "open" /\ Status' = [Status EXCEPT ![page] = "wire"]
    BY <2>8, <2>9, <2>10, OneSent
  <2> QED BY <1>1, <1>3, <2>11
<1>6. CASE stage[f] = "posted" /\ Ends(f)
  <2>1. Finish("value") /\ stage' = [stage EXCEPT ![f] = Entry[f]]
    BY <1>6 DEF Ends, Return, Goto
  <2>2. point' = [point EXCEPT ![f] = "final"]
    BY <1>1, <2>1, FinishEffect DEF Results
  <2>3. /\ point'[f] = "final" /\ \A x \in Handles \ {f} : point'[x] = point[x]
        /\ stage'[WriteOne] = "count"
    BY <1>2, <1>3, <2>1, <2>2 DEF RuntimeInv, RuntimeTypes, StageInv
  <2>4. ~Opened /\ ~OnWire /\ ~Opened' /\ ~OnWire'
    BY <1>2, <1>6, <2>3 DEF Opened, OnWire
  <2> QED BY <1>1, <1>3, <2>3, <2>4, SameStatus, WriterAssumption DEF Stutters, InWork
<1> QED BY <1>4, <1>5, <1>6 DEF OpStep, At

(* The state of the promise never leaves its type, so giving up is always  *)
(* a step of it.                                                           *)
LEMMA GivesUp ==
  ASSUME round' = round, GaveUp'
  PROVE  [Promise!Next]_Promise!windowVars
<1>1. Status' \in [0 .. NumPages - 1 -> {"todo", "open", "wire", "done"}]
  BY DEF Status, PageStatus
<1> QED BY <1>1 DEF Status, Promise!Next, Promise!GiveUp, Promise!Pages, Promise!Statuses

LEMMA SameGaveUp == ASSUME ~GaveUp', ~GaveUp PROVE GaveUp' = GaveUp
BY DEF GaveUp

LEMMA WindowStep ==
  ASSUME R!IInv, RuntimeInv, RuntimeInv', SeqInv, SeqInv', [SeqNext]_seqVars
  PROVE  [Promise!Next]_Promise!windowVars
<1> USE Names
<1>1. ASSUME GaveUp' PROVE [Promise!Next]_Promise!windowVars
  <2>1. ASSUME CallAwait(WriteOne) PROVE FALSE
    BY <1>1, <2>1, CallEffect
  <2>2. round' = round
    BY <2>1 DEF SeqNext, SeqStep, WritePage, CountPage, EndRound, CommonStep, StartWriter,
                HandshakeStep, WriteStep, OpStep, Background, writerVars, seqVars
  <2> QED BY <1>1, <2>2, GivesUp
<1>2. ASSUME ~GaveUp', GaveUp PROVE FALSE
  <2>1. ~Active
    BY <1>2, ActiveFacts
  <2>2. ~SeqStep
    BY <2>1 DEF SeqStep, WritePage, CountPage, EndRound, CommonStep, StartWriter, OpenPeer,
                HandshakeStep, WriteStep, OpStep, Ends, Return, CallAwait, OpenNet, PostOp,
                PostRefused, BodyThrows, Throw
  <2>3. raised' = raised /\ result' = result => GaveUp'
    BY <1>2 DEF GaveUp
  <2>4. RunNext /\ UNCHANGED writerVars => GaveUp'
    BY <1>2, ResumeStep
  <2>5. Unwind /\ UNCHANGED writerVars => GaveUp'
    BY UnwindStep
  <2> QED BY <1>2, <2>2, <2>3, <2>4, <2>5
          DEF SeqNext, Background, LoopStep, Stop, Select, SelectError, ExpireTimer, StartBatch,
              EndBatch, Nic, Complete, CompleteError, Tick, frameVars, loopVars, seqVars, vars
<1>3. ASSUME ~GaveUp', ~GaveUp, Stutters PROVE [Promise!Next]_Promise!windowVars
  BY <1>3, SameGaveUp DEF Stutters, Status, Promise!windowVars
<1>4. ASSUME ~GaveUp', ~GaveUp, Background PROVE [Promise!Next]_Promise!windowVars
  <2>1. UNCHANGED writerVars /\ UNCHANGED <<round, page, stage>> /\ page \in 0 .. NumPages
    BY <1>4 DEF Background, writerVars, SeqInv, CountInv
  <2>2. ASSUME UNCHANGED InWork PROVE [Promise!Next]_Promise!windowVars
    <3>1. Stutters
      BY <2>1, <2>2, SameStatus DEF Stutters
    <3> QED BY <1>3, <1>4, <3>1
  <2>3. CASE RunNext
    BY <1>4, <2>1, <2>2, <2>3, ResumeWork
  <2>4. CASE Unwind
    BY <1>4, <2>1, <2>4, UnwindStep
  <2>5. CASE \/ Stop \/ Select \/ SelectError \/ StartBatch \/ EndBatch \/ Tick
             \/ \E h \in Handles : ExpireTimer(h)
    BY <1>4, <2>1, <2>2, <2>5, LoopWork
  <2>6. CASE Nic
    <3>1. CASE UNCHANGED InWork
      BY <2>2, <3>1
    <3>2. CASE /\ InWork = "wire" /\ InWork' = "done"
               /\ stage[WriteOne] = "count" /\ page \in 0 .. NumPages - 1
      <4>1. Status = [p \in 0 .. NumPages - 1 |->
                        IF p < page THEN "done" ELSE IF p > page THEN "todo" ELSE "wire"]
        BY <3>2, StatusFacts
      <4>2. Status' = [p \in 0 .. NumPages - 1 |->
                         IF p < page THEN "done" ELSE IF p > page THEN "todo" ELSE "done"]
        <5>1. Status' = [p \in 0 .. NumPages - 1 |->
                 IF p < page' THEN "done"
                 ELSE IF p > page' \/ stage'[WriteOne] = "issue" THEN "todo" ELSE InWork']
          BY DEF Status, PageStatus, InWork, Opened, OnWire
        <5> QED BY <2>1, <3>2, <5>1
      <4>3. Status[page] = "wire" /\ Status' = [Status EXCEPT ![page] = "done"]
        BY <3>2, <4>1, <4>2, WriterAssumption
      <4> QED BY <1>4, <2>1, <3>2, <4>3, SameGaveUp DEF Status, Promise!Next, Promise!Complete, Promise!Pages
    <3> QED BY <1>4, <2>1, <2>6, <3>1, <3>2, NicWork DEF Nic
  <2> QED BY <1>4, <2>3, <2>4, <2>5, <2>6 DEF Background, LoopStep
<1>5. ASSUME ~GaveUp', ~GaveUp, CommonStep PROVE [Promise!Next]_Promise!windowVars
  <2>1. Active
    BY <1>5 DEF CommonStep, StartWriter, OpenPeer, HandshakeStep, WriteStep, OpStep, Ends,
                Return, CallAwait, OpenNet, PostOp, PostRefused, BodyThrows, Throw
  <2>2. CASE StartWriter \/ HandshakeStep \/ OpStep(Recv)
             \/ (At(Write, "loop") /\ Ends(Write) /\ UNCHANGED <<round, page, ops>>)
    BY <1>3, <1>5, <2>1, <2>2, IdleSteps
  <2>3. CASE /\ At(Write, "loop") /\ MoreRounds /\ CallAwait(WriteOne)
             /\ round' = round + 1 /\ page' = 0 /\ UNCHANGED <<stage, ops>>
    <3>1. /\ round < Repeat
          /\ \A p \in 0 .. NumPages - 1 : Status[p] = "done"
          /\ Status' = [p \in 0 .. NumPages - 1 |-> "todo"]
      BY <2>3, RoundStarts
    <3> QED BY <1>5, <2>3, <3>1, SameGaveUp DEF Status, Promise!Next, Promise!StartRound, Promise!Pages
  <2>4. ASSUME NEW f \in Slots, OpStep(f) PROVE [Promise!Next]_Promise!windowVars
    <3>1. CASE Stutters
      BY <1>3, <1>5, <3>1
    <3>2. CASE /\ page \in 0 .. NumPages - 1 /\ round' = round
               /\ Status[page] = "open" /\ Status' = [Status EXCEPT ![page] = "wire"]
      BY <1>5, <3>2, SameGaveUp DEF Status, Promise!Next, Promise!Post, Promise!Pages
    <3> QED BY <1>5, <2>4, <3>1, <3>2, SlotSteps
  <2> QED BY <1>5, <2>2, <2>3, <2>4 DEF CommonStep, WriteStep, OpFrames
<1>6. ASSUME ~GaveUp', ~GaveUp, NEW c \in Slots, WritePage(c)
      PROVE  [Promise!Next]_Promise!windowVars
  <2>1. /\ page \in 0 .. NumPages - 1 /\ round' = round
        /\ Status[page] = "todo"
        /\ \A p \in 0 .. NumPages - 1 : Status[p] \in {"todo", "done"}
        /\ \A p \in 0 .. page - 1 : Status[p] = "done"
        /\ Status' = [Status EXCEPT ![page] = "open"]
    BY <1>6, PageOpens
  <2>2. Promise!Outstanding = {}
    BY <2>1 DEF Status, Promise!Outstanding, Promise!Pages
  <2>3. Promise!Cardinality(Promise!Outstanding) < 1
    <3>1. Promise!Cardinality({}) = Cardinality({})
      BY DEF Promise!Cardinality, Cardinality
    <3> QED BY <2>2, <3>1, FS_EmptySet
  <2>4. Promise!Issue(page)
    <3>1. \A q \in 0 .. page - 1 : Status[q] # "todo"
      BY <2>1
    <3>2. UNCHANGED <<round, GaveUp>>
      BY <1>6, <2>1, SameGaveUp
    <3> QED BY <2>1, <2>3, <3>1, <3>2 DEF Status, Promise!Issue
  <2> QED BY <1>6, <2>1, <2>4 DEF Promise!Next, Promise!Pages
<1>7. CASE CountPage \/ EndRound
  BY <1>1, <1>2, <1>3, <1>7, PageCounted
<1>8. CASE UNCHANGED seqVars
  <2>1. UNCHANGED <<round, Status>> /\ UNCHANGED GaveUp
    BY <1>8 DEF seqVars, vars, frameVars, loopVars, fabricVars, writerVars, Status, PageStatus,
                GaveUp
  <2> QED BY <2>1 DEF Status, Promise!windowVars
<1> QED BY <1>1, <1>2, <1>4, <1>5, <1>6, <1>7, <1>8 DEF SeqNext, SeqStep

(* At most one write is open at a time, every page of a round is written   *)
(* once and in order, and no round starts before the last is written: the  *)
(* writer that awaits every page keeps the promise of WriteWindow.         *)
THEOREM PromiseKept == SeqSpec => KeepsWindow
<1>1. WriterInit => Promise!Init
  <2> SUFFICES ASSUME WriterInit PROVE Promise!Init
    OBVIOUS
  <2>1. Status = [p \in 0 .. NumPages - 1 |-> "done"]
    BY StatusFacts, WriterAssumption DEF WriterInit
  <2>2. ~GaveUp
    BY DEF WriterInit, Init, GaveUp
  <2> QED BY <2>1, <2>2 DEF WriterInit, Status, Promise!Init, Promise!Pages
<1>2. SeqFullInv /\ SeqFullInv' /\ [SeqNext]_seqVars => [Promise!Next]_Promise!windowVars
  <2>1. R!IInv' /\ R!WInv' => RuntimeInv'
    BY RuntimeFacts, PTL
  <2> QED BY <2>1, RuntimeFacts, WindowStep DEF SeqFullInv
<1> QED BY <1>1, <1>2, SeqInvHolds, PTL DEF SeqSpec, KeepsWindow, Promise!Spec
=============================================================================
