--------------------------- MODULE RemoteWriteProofs ---------------------------
(***************************************************************************)
(* The reading node, any of whose calls may fail: its variables have their *)
(* types, the context the selector looks up is that of a live frame, no    *)
(* coroutine is resumed where it no longer is unless one read of the       *)
(* completion queue held two notifications, and, when the writer keeps one *)
(* write open at a time, a notification means that the pages are there;    *)
(* proofs for any number of pages and rounds, any size of a read of the    *)
(* completion queue and, but for the last property, any window.            *)
(***************************************************************************)
EXTENDS RemoteWrite, QueueLemmas, FiniteSetTheorems

-----------------------------------------------------------------------------
(* The names of the frames are different.                                  *)
LEMMA Names ==
  /\ Root # Handshake /\ Root # Send /\ Root # Read /\ Root # ConnRead
  /\ Handshake # Send /\ Handshake # Read /\ Handshake # ConnRead
  /\ Send # Read /\ Send # ConnRead /\ Read # ConnRead
  /\ Handles = {Root, Handshake, Send, Read, ConnRead}
  /\ Null \notin Handles
<1> DEFINE s == <<Root, Handshake, Send, Read, ConnRead>>
<1>1. \A i, j \in 1 .. 5 : s[i] = s[j] => i = j
  BY ReaderAssumption DEF IsInjective
<1> QED BY <1>1, ReaderAssumption, LoopAssumption

-----------------------------------------------------------------------------
(* The inductive invariant.  The reader is one chain of frames, each of    *)
(* which awaits the next: Root, then Handshake and Send, or Read and       *)
(* ConnRead.  Only the last frame of the chain, the leaf, can be resumed.  *)
Caller(h) == CASE h \in {Handshake, Read} -> Root
               [] h = Send -> Handshake
               [] h = ConnRead -> Read
               [] OTHER -> Null

Stages == {"open", "handshake", "read", "end", "send", "loop", "post", "posted"}

FrameTypes ==
  /\ point \in [Handles -> Points] /\ state \in [Handles -> States]
  /\ next \in [Handles -> Handles \cup {Null}] /\ callee \in [Handles -> Handles \cup {Null}]
  /\ owner \in [Handles -> Handles \cup {Null}] /\ held \in [Handles -> {"temporary", "future"}]
  /\ stage \in [Handles -> Stages]
  /\ ready \in Seq(Handles) /\ cq \in Seq(Handles) /\ inflight \subseteq {Send}
  /\ cur \in Handles \cup {Null} /\ batch \in Nat

ChainInv ==
  /\ \A h \in Handles \ {Root} :
       point[h] # "free" <=> (point[Caller(h)] = "child" /\ callee[Caller(h)] = h)
  /\ \A h \in Handles :
       point[h] = "child" => callee[h] \in Handles \ {Root} /\ Caller(callee[h]) = h
  /\ \A h \in Handles : owner[h] = IF point[h] = "free" THEN Null ELSE Caller(h)
  /\ \A h \in Handles : next[h] = owner[h] /\ held[h] = "temporary"
  /\ \A h \in Handles : point[h] # "timer"
  /\ \A h \in Handles : point[h] = "op" => h \in {Send, ConnRead}
  /\ point[Root] # "free"

RunInv ==
  /\ \A h \in Handles : point[h] = "running" <=> h = cur
  /\ cur # Null => phase = "run"
  /\ phase = "run" => batch <= Len(ready)
  /\ cur = ConnRead => ~raised

(* What is in the deque, by the leaf: its own handle when it starts, the   *)
(* frame to wake when it is done.  A notification that came to ConnRead    *)
(* after the one that will wake it leaves a handle too many before those.  *)
ReadyInv ==
  /\ \A h \in Handles : point[h] = "initial" => ready = <<h>>
  /\ point[Send] = "op" => ready \in {<<>>, <<Send>>}
  /\ point[ConnRead] = "op" => ready \in Seq({ConnRead})
  /\ cur # Null => ready \in Seq({ConnRead}) /\ (ready # <<>> => cur = ConnRead /\ immContext # Null)
  /\ \A h \in Handles \ {Root} : point[h] = "final" =>
       \E s \in Seq({ConnRead}) : ready = Append(s, Caller(h)) /\ (s # <<>> => h = ConnRead)
  /\ point[Root] = "final" => ready = <<>>

(* Of the operations only Send's is posted, and its completion is nowhere  *)
(* twice.                                                                  *)
NicInv ==
  /\ cq \in {<<>>, <<Send>>}
  /\ inflight # {} \/ cq # <<>> => point[Send] = "op" /\ ready = <<>>
  /\ inflight = {} \/ cq = <<>>

(* The context is registered while ConnRead waits and until it returns.    *)
ContextInv ==
  /\ point[ConnRead] \in {"free", "initial", "final"} => stage[ConnRead] = "post"
  /\ point[ConnRead] = "op" => stage[ConnRead] = "posted"
  /\ point[ConnRead] = "running" => stage[ConnRead] \in {"post", "posted"}
  /\ immContext = IF point[ConnRead] \in {"op", "running"} /\ stage[ConnRead] = "posted"
                  THEN ConnRead ELSE Null

(* The writer: pages are done when they have landed, and a round is        *)
(* complete when all have.                                                 *)
PeerInv ==
  /\ round \in 0 .. Repeat /\ status \in [Peer!Pages -> Peer!Statuses]
  /\ failed \in BOOLEAN /\ requested \in BOOLEAN
  /\ landed \subseteq Peer!Pages
  /\ \A p \in Peer!Pages : status[p] = "done" => p \in landed
  /\ \A p \in landed : status[p] \in {"wire", "done"}
  /\ complete = IF landed = Peer!Pages THEN round ELSE round - 1
  /\ round = 0 => landed = Peer!Pages

(* The notifications sent so far, and those the reader was given or will   *)
(* be given: each call of Read returns for one that was sent.              *)
Sent == IF NumPages - 1 \in landed THEN round ELSE round - 1

Waiting == IF immContext = Null THEN 0
           ELSE IF point[ConnRead] = "op" THEN Len(ready) ELSE 1

CountInv == reads \in Nat /\ imms \in Nat /\ reads + imms + Waiting <= Sent

(* As long as no read of the completion queue held two notifications the   *)
(* deque holds one handle at most.  A pass of Runone empties it before the *)
(* next read.                                                              *)
DoubledInv ==
  /\ ~twice => phase # "undefined" /\ Len(ready) <= 1 /\ (cur # Null => ready = <<>>)
  /\ point[ConnRead] = "op" /\ ready # <<>> =>
       phase = "expire" \/ (phase = "run" /\ batch = Len(ready))
  /\ dropped \in BOOLEAN /\ twice \in BOOLEAN

ReaderInv == /\ FrameTypes /\ ChainInv /\ RunInv /\ ReadyInv /\ NicInv /\ ContextInv
             /\ PeerInv /\ CountInv /\ DoubledInv

(* With one write open at a time pages land in order.                      *)
OrderInv ==
  /\ \A p, q \in Peer!Pages : q < p /\ status[p] # "todo" => status[q] # "todo"
  /\ \A p, q \in Peer!Pages :
       status[p] \in {"open", "wire"} /\ status[q] \in {"open", "wire"} => p = q
  /\ NumPages - 1 \in landed => landed = Peer!Pages

-----------------------------------------------------------------------------
(* The chain, frame by frame.                                              *)
LEMMA Callers ==
  /\ Caller(Root) = Null /\ Caller(Handshake) = Root /\ Caller(Read) = Root
  /\ Caller(Send) = Handshake /\ Caller(ConnRead) = Read
BY Names DEF Caller

LeafPoints == {"initial", "running", "op", "final"}

LEMMA ChainFacts ==
  ASSUME FrameTypes, ChainInv
  PROVE  /\ point[Handshake] # "free" <=> (point[Root] = "child" /\ callee[Root] = Handshake)
         /\ point[Read] # "free" <=> (point[Root] = "child" /\ callee[Root] = Read)
         /\ point[Send] # "free" <=> point[Handshake] = "child"
         /\ point[ConnRead] # "free" <=> point[Read] = "child"
         /\ point[Root] = "child" => callee[Root] \in {Handshake, Read}
         /\ point[Handshake] = "child" => callee[Handshake] = Send
         /\ point[Read] = "child" => callee[Read] = ConnRead
         /\ point[Root] # "free"
         /\ \A h \in Handles : point[h] \in LeafPoints \cup {"free", "child"}
<1> USE Names, Callers
<1>1. \A h \in Handles : point[h] = "child" => callee[h] \in Handles \ {Root} /\ Caller(callee[h]) = h
  BY DEF ChainInv
<1>2. point[Root] = "child" => callee[Root] \in {Handshake, Read}
  BY <1>1
<1>3. point[Handshake] = "child" => callee[Handshake] = Send
  BY <1>1
<1>4. point[Read] = "child" => callee[Read] = ConnRead
  BY <1>1
<1>5. \A h \in Handles \ {Root} :
        point[h] # "free" <=> (point[Caller(h)] = "child" /\ callee[Caller(h)] = h)
  BY DEF ChainInv
<1>6. /\ point[Handshake] # "free" <=> (point[Root] = "child" /\ callee[Root] = Handshake)
      /\ point[Read] # "free" <=> (point[Root] = "child" /\ callee[Root] = Read)
      /\ point[Send] # "free" <=> point[Handshake] = "child"
      /\ point[ConnRead] # "free" <=> point[Read] = "child"
  BY <1>3, <1>4, <1>5
<1>7. \A h \in Handles : point[h] \in LeafPoints \cup {"free", "child"}
  BY DEF ChainInv, FrameTypes, Points, LeafPoints
<1>8. point[Root] # "free"
  BY DEF ChainInv
<1> QED BY <1>2, <1>3, <1>4, <1>6, <1>7, <1>8

(* The chain has exactly one leaf.                                         *)
LEMMA OneLeaf ==
  ASSUME FrameTypes, ChainInv
  PROVE  \E h \in Handles : /\ point[h] \in LeafPoints
                            /\ \A g \in Handles \ {h} : point[g] \in {"free", "child"}
<1> USE Names, ChainFacts
<1>1. CASE point[Root] # "child"
  <2>1. point[Handshake] = "free" /\ point[Read] = "free"
    BY <1>1
  <2>2. point[Send] = "free" /\ point[ConnRead] = "free" /\ point[Root] \in LeafPoints
    BY <1>1, <2>1
  <2> QED BY <2>1, <2>2
<1>2. CASE point[Root] = "child" /\ callee[Root] = Handshake
  <2>1. point[Read] = "free" /\ point[ConnRead] = "free" /\ point[Handshake] # "free"
    BY <1>2
  <2>2. CASE point[Handshake] # "child"
    <3>1. point[Send] = "free" /\ point[Handshake] \in LeafPoints
      BY <2>1, <2>2
    <3> QED BY <1>2, <2>1, <3>1
  <2>3. CASE point[Handshake] = "child"
    <3>1. point[Send] \in LeafPoints
      <4>1. point[Send] # "child" /\ point[Send] # "free"
        BY <2>3, Callers DEF ChainInv
      <4> QED BY <4>1
    <3> QED BY <1>2, <2>1, <2>3, <3>1
  <2> QED BY <2>2, <2>3
<1>3. CASE point[Root] = "child" /\ callee[Root] = Read
  <2>1. point[Handshake] = "free" /\ point[Send] = "free" /\ point[Read] # "free"
    BY <1>3
  <2>2. CASE point[Read] # "child"
    <3>1. point[ConnRead] = "free" /\ point[Read] \in LeafPoints
      BY <2>1, <2>2
    <3> QED BY <1>3, <2>1, <3>1
  <2>3. CASE point[Read] = "child"
    <3>1. point[ConnRead] \in LeafPoints
      <4>1. point[ConnRead] # "child" /\ point[ConnRead] # "free"
        BY <2>3, Callers DEF ChainInv
      <4> QED BY <4>1
    <3> QED BY <1>3, <2>1, <2>3, <3>1
  <2> QED BY <2>2, <2>3
<1> QED BY <1>1, <1>2, <1>3

LEMMA OtherFrames ==
  ASSUME FrameTypes, ChainInv, NEW h \in Handles, point[h] \in LeafPoints
  PROVE  \A g \in Handles \ {h} : point[g] \in {"free", "child"}
BY OneLeaf DEF LeafPoints

(* The frame that runs is the leaf: nothing hangs from it, no operation is *)
(* posted, and only ConnRead may find handles in the deque.                *)
LEMMA RunningFacts ==
  ASSUME ReaderInv, Running
  PROVE  /\ cur \in Handles /\ cur # Null /\ point[cur] = "running" /\ phase = "run"
         /\ \A g \in Handles \ {cur} : point[g] \in {"free", "child"}
         /\ inflight = {} /\ cq = <<>>
         /\ cur # ConnRead => immContext = Null
         /\ immContext = Null => ready = <<>>
         /\ Children(cur) = {} /\ Descendants(cur) = {}
<1> USE Names
<1>1. FrameTypes /\ ChainInv /\ RunInv /\ ReadyInv /\ NicInv /\ ContextInv
  BY DEF ReaderInv
<1>2. cur \in Handles /\ cur # Null /\ point[cur] = "running" /\ phase = "run"
  BY <1>1 DEF Running, RunInv, FrameTypes
<1>3. \A g \in Handles \ {cur} : point[g] \in {"free", "child"}
  BY <1>1, <1>2, OtherFrames DEF LeafPoints
<1>4. inflight = {} /\ cq = <<>>
  BY <1>1, <1>2, <1>3 DEF NicInv
<1>5. cur # ConnRead => immContext = Null
  BY <1>1, <1>3 DEF ContextInv
<1>6. immContext = Null => ready = <<>>
  BY <1>1, <1>2 DEF ReadyInv
<1>7. Children(cur) = {}
  <2> SUFFICES ASSUME NEW c \in Handles, owner[c] = cur PROVE FALSE
    BY DEF Children
  <2>1. Caller(c) = cur /\ point[c] # "free" /\ c # Root
    BY <1>1, <1>2, Callers DEF ChainInv
  <2> QED BY <1>1, <1>2, <2>1 DEF ChainInv
<1>8. Descendants(cur) = {}
  BY <1>7 DEF Descendants
<1> QED BY <1>2, <1>3, <1>4, <1>5, <1>6, <1>7, <1>8

-----------------------------------------------------------------------------
LEMMA InitReaderInv == ReaderInit => ReaderInv
<1> SUFFICES ASSUME ReaderInit PROVE ReaderInv
  OBVIOUS
<1> USE Names, ReaderAssumption DEF ReaderInit, Init
<1>1. ready \in Seq(Handles) /\ cq \in Seq(Handles) /\ Len(ready) = 1
  OBVIOUS
<1>2. FrameTypes
  BY <1>1 DEF FrameTypes, Points, States, Stages, Entry
<1>3. ChainInv
  BY Callers DEF ChainInv
<1>4. RunInv /\ NicInv
  BY DEF RunInv, NicInv
<1>5. ReadyInv
  BY DEF ReadyInv
<1>6. ContextInv
  BY DEF ContextInv, Entry
<1>7. PeerInv
  <2>1. round = 0 /\ status = [p \in Peer!Pages |-> "done"] /\ failed = FALSE /\ complete = 0
        /\ landed = Peer!Pages
    BY DEF Peer!Init
  <2>2. requested \in BOOLEAN /\ round \in 0 .. Repeat
    <3>1. round \in 0 .. Repeat
      BY <2>1
    <3>2. requested = FALSE
      OBVIOUS
    <3> QED BY <3>1, <3>2
  <2>3. status \in [Peer!Pages -> Peer!Statuses]
    BY <2>1 DEF Peer!Statuses
  <2> QED BY <2>1, <2>2, <2>3 DEF PeerInv
<1>8. CountInv
  BY DEF CountInv, Waiting, Sent, Peer!Init, Peer!Pages
<1>9. DoubledInv
  <2>1. Len(ready) <= 1 /\ cur = Null /\ point[ConnRead] # "op"
    BY <1>1
  <2>2. phase # "undefined" /\ dropped = FALSE /\ twice = FALSE
    OBVIOUS
  <2> QED BY <2>1, <2>2 DEF DoubledInv
<1> QED BY <1>2, <1>3, <1>4, <1>5, <1>6, <1>7, <1>8, <1>9 DEF ReaderInv

(* What the reader's steps leave alone.                                    *)
LEMMA PeerStays ==
  ASSUME PeerInv, UNCHANGED peerVars, requested' \in BOOLEAN
  PROVE  PeerInv' /\ Sent' = Sent
BY DEF PeerInv, Sent, peerVars, Peer!Pages, Peer!Statuses

(* co_await of a new child: it joins the chain as its leaf, and is the     *)
(* only handle in the deque.                                               *)
LEMMA CallStep ==
  ASSUME ReaderInv, NEW c \in Handles \ {Root}, CallAwait(c), Caller(c) = cur,
         stage' \in [Handles -> Stages], stage'[ConnRead] = stage[ConnRead],
         UNCHANGED <<reads, immContext, requested, imms, peerVars, historyVars>>
  PROVE  ReaderInv'
<1> USE Names
<1>1. Running
  BY DEF CallAwait, Active
<1>2. FrameTypes /\ ChainInv /\ RunInv /\ ContextInv /\ PeerInv /\ CountInv /\ DoubledInv
  BY DEF ReaderInv
<1>3. PICK h \in Handles : h = cur /\ h # ConnRead /\ h # Send
  BY <1>1, RunningFacts, Callers
<1>4. /\ h # Null /\ point[h] = "running" /\ phase = "run"
      /\ \A g \in Handles \ {h} : point[g] \in {"free", "child"}
      /\ inflight = {} /\ cq = <<>> /\ immContext = Null /\ ready = <<>>
  BY <1>1, <1>3, RunningFacts
<1>5. /\ point[c] = "free" /\ c # h
      /\ point'[c] = "initial" /\ point'[h] = "child"
      /\ \A g \in Handles \ {c, h} : point'[g] = point[g]
      /\ callee'[h] = c /\ \A g \in Handles \ {h} : callee'[g] = callee[g]
      /\ owner'[c] = h /\ \A g \in Handles \ {c} : owner'[g] = owner[g]
      /\ next'[c] = h /\ \A g \in Handles \ {c} : next'[g] = next[g]
      /\ held'[c] = "temporary" /\ \A g \in Handles \ {c} : held'[g] = held[g]
      /\ ready' = <<c>> /\ cur' = Null
      /\ UNCHANGED <<phase, batch, inflight, cq>>
  <2>1. Append(<<>>, c) = <<c>>
    OBVIOUS
  <2> QED BY <1>2, <1>3, <1>4, <2>1 DEF CallAwait, Create, SuspendOn, FrameTypes, fabricVars
<1>6. FrameTypes'
  <2>1. ready' \in Seq(Handles)
    BY <1>5
  <2>2. point' \in [Handles -> Points] /\ state' \in [Handles -> States]
    BY <1>2, <1>3 DEF CallAwait, FrameTypes, Points, States
  <2>3. /\ next' \in [Handles -> Handles \cup {Null}] /\ callee' \in [Handles -> Handles \cup {Null}]
        /\ owner' \in [Handles -> Handles \cup {Null}]
        /\ held' \in [Handles -> {"temporary", "future"}]
    BY <1>2, <1>3 DEF CallAwait, Create, SuspendOn, FrameTypes
  <2> QED BY <1>2, <1>5, <2>1, <2>2, <2>3 DEF FrameTypes
<1>7. ChainInv'
  <2>1. \A g \in Handles \ {Root} :
          point'[g] # "free" <=> (point'[Caller(g)] = "child" /\ callee'[Caller(g)] = g)
    <3> SUFFICES ASSUME NEW g \in Handles \ {Root}
                 PROVE  point'[g] # "free" <=> (point'[Caller(g)] = "child" /\ callee'[Caller(g)] = g)
      OBVIOUS
    <3>1. Caller(g) \in Handles
      BY Callers
    <3>2. point[g] # "free" <=> (point[Caller(g)] = "child" /\ callee[Caller(g)] = g)
      BY <1>2 DEF ChainInv
    <3>3. CASE g = c
      BY <1>3, <1>5, <3>3
    <3>4. CASE g # c /\ Caller(g) = h
      BY <1>3, <1>4, <1>5, <3>2, <3>4, Callers
    <3>5. CASE g # c /\ Caller(g) # h
      <4>1. Caller(g) # c => point'[Caller(g)] = point[Caller(g)] /\ callee'[Caller(g)] = callee[Caller(g)]
        BY <1>5, <3>1, <3>5
      <4>2. Caller(g) = c => point[Caller(g)] # "child" /\ point'[Caller(g)] # "child"
        BY <1>5
      <4>3. g = h => point[g] # "free" /\ point'[g] # "free"
        BY <1>4, <1>5
      <4>4. g # h => point'[g] = point[g]
        BY <1>5, <3>5
      <4> QED BY <3>2, <4>1, <4>2, <4>3, <4>4
    <3> QED BY <3>3, <3>4, <3>5
  <2>2. \A g \in Handles :
          point'[g] = "child" => callee'[g] \in Handles \ {Root} /\ Caller(callee'[g]) = g
    BY <1>2, <1>3, <1>5 DEF ChainInv
  <2>3. \A g \in Handles : owner'[g] = IF point'[g] = "free" THEN Null ELSE Caller(g)
    BY <1>2, <1>3, <1>4, <1>5 DEF ChainInv
  <2>4. \A g \in Handles : next'[g] = owner'[g] /\ held'[g] = "temporary"
    BY <1>2, <1>5 DEF ChainInv
  <2>5. \A g \in Handles : point'[g] # "timer" /\ (point'[g] = "op" => g \in {Send, ConnRead})
    BY <1>2, <1>5 DEF ChainInv
  <2>6. point'[Root] # "free"
    BY <1>2, <1>5 DEF ChainInv
  <2> QED BY <2>1, <2>2, <2>3, <2>4, <2>5, <2>6 DEF ChainInv, Caller
<1>8. RunInv'
  <2>1. Len(ready') = 1 /\ Len(ready) = 0
    BY <1>4, <1>5
  <2>2. \A g \in Handles : point'[g] # "running"
    BY <1>4, <1>5
  <2> QED BY <1>2, <1>4, <1>5, <2>1, <2>2 DEF RunInv, FrameTypes
<1>9. \A g \in Handles : point'[g] \notin {"op", "running", "final"}
      /\ (point'[g] = "initial" => g = c)
  BY <1>4, <1>5
<1>10. ReadyInv'
  BY <1>5, <1>9 DEF ReadyInv
<1>11. NicInv'
  BY <1>4, <1>5, <1>9 DEF NicInv
<1>12. ContextInv'
  BY <1>2, <1>3, <1>4, <1>5, <1>9 DEF ContextInv
<1>13. PeerInv' /\ Sent' = Sent
  BY <1>2, PeerStays DEF PeerInv
<1>14. CountInv'
  BY <1>2, <1>4, <1>13 DEF CountInv, Waiting
<1>15. DoubledInv'
  <2>1. Len(ready') <= 1 /\ point'[ConnRead] # "op"
    BY <1>5, <1>9
  <2> QED BY <1>2, <1>4, <1>5, <2>1 DEF DoubledInv, historyVars
<1> QED BY <1>6, <1>7, <1>8, <1>10, <1>11, <1>12, <1>13, <1>14, <1>15 DEF ReaderInv

(* A frame that ends, by a return or by an exception, stays, done, and its *)
(* caller is woken.                                                        *)
LEMMA ReturnStep ==
  ASSUME ReaderInv, Running, NEW r \in {"value", "exception"}, Finish(r),
         stage' \in [Handles -> Stages],
         IF cur = ConnRead
         THEN /\ stage[ConnRead] = "posted" /\ stage'[ConnRead] = "post"
              /\ immContext' = Null /\ reads' = reads + 1
         ELSE stage'[ConnRead] = stage[ConnRead] /\ UNCHANGED <<reads, immContext>>,
         UNCHANGED <<requested, imms, peerVars, historyVars>>
  PROVE  ReaderInv'
<1> USE Names
<1>1. Running /\ Finish(r)
  OBVIOUS
<1>2. FrameTypes /\ ChainInv /\ RunInv /\ ReadyInv /\ ContextInv /\ PeerInv /\ CountInv /\ DoubledInv
  BY DEF ReaderInv
<1>3. PICK h \in Handles : h = cur
  BY <1>1, RunningFacts
<1>4. /\ h # Null /\ point[h] = "running" /\ phase = "run"
      /\ \A g \in Handles \ {h} : point[g] \in {"free", "child"}
      /\ inflight = {} /\ cq = <<>>
      /\ h # ConnRead => immContext = Null
      /\ immContext = Null => ready = <<>>
      /\ Descendants(h) = {}
  BY <1>1, <1>3, RunningFacts
<1>5. next[h] = Caller(h)
  BY <1>2, <1>4 DEF ChainInv
<1>6. /\ point'[h] = "final" /\ \A g \in Handles \ {h} : point'[g] = point[g]
      /\ \A g \in Handles : /\ callee'[g] = callee[g] /\ owner'[g] = owner[g]
                            /\ next'[g] = next[g] /\ held'[g] = held[g]
      /\ ready' = IF h = Root THEN ready ELSE Append(ready, Caller(h))
      /\ cur' = Null /\ UNCHANGED <<phase, batch>>
      /\ inflight' = {} /\ cq' = <<>>
  <2>1. Caller(h) = Null <=> h = Root
    BY Callers
  <2> QED BY <1>1, <1>2, <1>3, <1>4, <1>5, <2>1 DEF Finish, SetAll, Continuation, Wake, FrameTypes
<1>7. ready \in Seq({ConnRead}) /\ (ready # <<>> => h = ConnRead) /\ Len(ready) \in Nat
  BY <1>2, <1>3, <1>4, LenProperties DEF ReadyInv, FrameTypes
<1>8. h # Root => Caller(h) \in Handles
  BY Callers
<1>9. /\ Len(ready') = Len(ready) \/ Len(ready') = Len(ready) + 1
      /\ ready' \in Seq(Handles) /\ Len(ready') \in Nat
  BY <1>2, <1>6, <1>7, <1>8, AppendProperties DEF FrameTypes
<1>10. FrameTypes'
  <2>1. state' \in [Handles -> States]
    BY <1>1, <1>2 DEF Finish, FrameTypes, States
  <2>2. point' \in [Handles -> Points]
    BY <1>1, <1>2, <1>3 DEF Finish, SetAll, FrameTypes, Points
  <2>3. /\ next' \in [Handles -> Handles \cup {Null}] /\ callee' \in [Handles -> Handles \cup {Null}]
        /\ owner' \in [Handles -> Handles \cup {Null}]
        /\ held' \in [Handles -> {"temporary", "future"}]
    BY <1>1, <1>2 DEF Finish, SetAll, FrameTypes
  <2> QED BY <1>2, <1>6, <1>9, <2>1, <2>2, <2>3 DEF FrameTypes
<1>11. ChainInv'
  <2>1. \A g \in Handles : (point'[g] = "free" <=> point[g] = "free")
                           /\ (point'[g] = "child" <=> point[g] = "child")
    BY <1>4, <1>6
  <2>2. \A g \in Handles \ {Root} : Caller(g) \in Handles
    BY Callers
  <2>3. \A g \in Handles \ {Root} :
          point'[g] # "free" <=> (point'[Caller(g)] = "child" /\ callee'[Caller(g)] = g)
    BY <1>2, <1>6, <2>1, <2>2 DEF ChainInv
  <2>4. \A g \in Handles : point'[g] # "timer" /\ (point'[g] = "op" => g \in {Send, ConnRead})
    BY <1>2, <1>6 DEF ChainInv
  <2> QED BY <1>2, <1>6, <2>1, <2>3, <2>4 DEF ChainInv, Caller
<1>12. RunInv'
  BY <1>2, <1>4, <1>6, <1>7, <1>9 DEF RunInv, FrameTypes
<1>13. \A g \in Handles : point'[g] \notin {"op", "running", "initial"}
      /\ (point'[g] = "final" => g = h)
  BY <1>4, <1>6
<1>14. ReadyInv'
  <2>1. h # Root => \E s \in Seq({ConnRead}) : ready' = Append(s, Caller(h)) /\ (s # <<>> => h = ConnRead)
    BY <1>6, <1>7
  <2>2. h = Root => ready' = <<>>
    BY <1>6, <1>7
  <2>3. \A g \in Handles : point'[g] # "initial"
    BY <1>13
  <2>4. point'[Send] # "op" /\ point'[ConnRead] # "op"
    BY <1>13
  <2>5. cur' = Null
    BY <1>6
  <2>6. \A g \in Handles \ {Root} : point'[g] = "final" =>
          \E s \in Seq({ConnRead}) : ready' = Append(s, Caller(g)) /\ (s # <<>> => g = ConnRead)
    BY <1>13, <2>1
  <2>7. point'[Root] = "final" => ready' = <<>>
    BY <1>13, <2>2
  <2> QED BY <2>3, <2>4, <2>5, <2>6, <2>7 DEF ReadyInv
<1>15. NicInv'
  BY <1>6 DEF NicInv
<1>16. ContextInv' /\ immContext' = Null
  BY <1>2, <1>3, <1>4, <1>6, <1>13 DEF ContextInv
<1>17. PeerInv' /\ Sent' = Sent
  BY <1>2, PeerStays DEF PeerInv
<1>18. CountInv'
  <2>1. CASE h = ConnRead
    <3>1. immContext = ConnRead /\ point[ConnRead] # "op"
      BY <1>2, <1>3, <1>4, <2>1 DEF ContextInv
    <3>2. Waiting = 1 /\ Waiting' = 0
      BY <1>16, <3>1 DEF Waiting
    <3>3. Sent \in Int
      BY <1>2, ReaderAssumption DEF PeerInv, Sent
    <3> QED BY <1>2, <1>3, <1>17, <2>1, <3>2, <3>3 DEF CountInv
  <2>2. CASE h # ConnRead
    <3>1. Waiting = 0 /\ Waiting' = 0
      BY <1>4, <1>16, <2>2 DEF Waiting
    <3> QED BY <1>2, <1>3, <1>17, <2>2, <3>1 DEF CountInv
  <2> QED BY <2>1, <2>2
<1>19. DoubledInv'
  <2>1. ASSUME ~twice PROVE Len(ready') <= 1
    <3>1. ready = <<>>
      BY <1>2, <1>3, <1>4, <2>1 DEF DoubledInv
    <3>2. Len(ready) = 0
      BY <3>1
    <3>3. PICK n \in Nat : n = Len(ready')
      BY <1>9
    <3>4. n <= 1
      BY <1>9, <3>2, <3>3
    <3> QED BY <3>3, <3>4
  <2>2. point'[ConnRead] # "op"
    BY <1>13
  <2> QED BY <1>2, <1>4, <1>6, <2>1, <2>2 DEF DoubledInv, historyVars
<1> QED BY <1>10, <1>11, <1>12, <1>14, <1>15, <1>16, <1>17, <1>18, <1>19 DEF ReaderInv

(* Conn::Send posts its operation; remote_write_awaiter registers its      *)
(* context.  The leaf is suspended, with nothing in the deque.             *)
LEMMA SuspendStep ==
  ASSUME ReaderInv, NEW h \in {Send, ConnRead}, cur = h, Active, stage[h] = "post",
         state' = [state EXCEPT ![h] = "kSuspend"], point' = [point EXCEPT ![h] = "op"],
         cur' = Null, stage' = [stage EXCEPT ![h] = "posted"],
         UNCHANGED <<callee, owner, next, held, ready, phase, batch, cq, reads, imms, peerVars,
                     historyVars>>,
         requested' \in BOOLEAN,
         inflight' = IF h = Send THEN inflight \cup {h} ELSE inflight,
         immContext' = IF h = ConnRead /\ immContext = Null THEN h ELSE immContext
  PROVE  ReaderInv'
<1> USE Names
<1>1. Running /\ h \in Handles
  BY DEF Active
<1>2. FrameTypes /\ ChainInv /\ RunInv /\ ContextInv /\ PeerInv /\ CountInv /\ DoubledInv
  BY DEF ReaderInv
<1>3. /\ h # Null /\ point[h] = "running" /\ phase = "run"
      /\ \A g \in Handles \ {h} : point[g] \in {"free", "child"}
      /\ inflight = {} /\ cq = <<>>
  BY <1>1, RunningFacts
<1>4. immContext = Null /\ ready = <<>>
  <2>1. immContext = Null
    BY <1>2, <1>3 DEF ContextInv
  <2> QED BY <1>1, <2>1, RunningFacts
<1>5. /\ point'[h] = "op" /\ \A g \in Handles \ {h} : point'[g] = point[g]
      /\ stage'[h] = "posted" /\ \A g \in Handles \ {h} : stage'[g] = stage[g]
      /\ state'[h] = "kSuspend"
  BY <1>1, <1>2 DEF FrameTypes
<1>6. FrameTypes'
  BY <1>1, <1>2, <1>3 DEF FrameTypes, Points, States, Stages
<1>7. ChainInv'
  <2>1. \A g \in Handles : (point'[g] = "free" <=> point[g] = "free")
                           /\ (point'[g] = "child" <=> point[g] = "child")
    BY <1>3, <1>5
  <2>2. \A g \in Handles \ {Root} : Caller(g) \in Handles
    BY Callers
  <2>3. \A g \in Handles \ {Root} :
          point'[g] # "free" <=> (point'[Caller(g)] = "child" /\ callee'[Caller(g)] = g)
    BY <1>2, <2>1, <2>2 DEF ChainInv
  <2>4. \A g \in Handles : point'[g] # "timer" /\ (point'[g] = "op" => g \in {Send, ConnRead})
    BY <1>2, <1>5 DEF ChainInv
  <2> QED BY <1>2, <2>1, <2>3, <2>4 DEF ChainInv, Caller
<1>8. RunInv'
  BY <1>1, <1>2, <1>3, <1>5 DEF RunInv
<1>9. \A g \in Handles : point'[g] \notin {"initial", "running", "final"}
      /\ (point'[g] = "op" => g = h)
  BY <1>3, <1>5
<1>10. ReadyInv'
  <2>1. <<>> \in Seq({ConnRead})
    OBVIOUS
  <2> QED BY <1>4, <1>9, <2>1 DEF ReadyInv
<1>11. NicInv'
  BY <1>3, <1>4, <1>5 DEF NicInv
<1>12. ContextInv'
  BY <1>2, <1>3, <1>4, <1>5, <1>9 DEF ContextInv
<1>13. PeerInv' /\ Sent' = Sent
  BY <1>2, PeerStays
<1>14. CountInv'
  <2>1. Len(ready') = 0 /\ Waiting = 0
    BY <1>4 DEF Waiting
  <2>2. Waiting' = 0
    BY <1>4, <1>5, <2>1 DEF Waiting
  <2> QED BY <1>2, <1>13, <2>1, <2>2 DEF CountInv
<1>15. DoubledInv'
  <2>1. Len(ready') <= 1
    BY <1>4
  <2> QED BY <1>2, <1>3, <1>4, <2>1 DEF DoubledInv, historyVars
<1> QED BY <1>6, <1>7, <1>8, <1>10, <1>11, <1>12, <1>13, <1>14, <1>15 DEF ReaderInv

(* Net::Open and the steps of the loop that resume no frame move no frame; *)
(* this is what they keep whatever they do to the queues.                  *)
LEMMA FramesStay ==
  ASSUME FrameTypes, ChainInv, ContextInv, PeerInv,
         UNCHANGED <<frameVars, cur, stage, immContext, requested, peerVars>>
  PROVE  ChainInv' /\ ContextInv' /\ PeerInv' /\ Sent' = Sent
BY PeerStays DEF ChainInv, ContextInv, PeerInv, frameVars, Caller

LEMMA OpenStep ==
  ASSUME ReaderInv, OpenNet, stage' = [stage EXCEPT ![Root] = "handshake"],
         UNCHANGED <<reads, immContext, requested, imms, peerVars, historyVars>>
  PROVE  ReaderInv'
<1> USE Names
<1>1. FrameTypes /\ ChainInv /\ RunInv /\ ReadyInv /\ NicInv /\ ContextInv /\ PeerInv /\ CountInv
      /\ DoubledInv
  BY DEF ReaderInv
<1>2. /\ UNCHANGED <<point, next, callee, owner, held, state, ready, cq, inflight, cur, batch, phase, raised>>
      /\ stage' \in [Handles -> Stages] /\ stage'[ConnRead] = stage[ConnRead]
  BY <1>1 DEF OpenNet, frameVars, loopVars, FrameTypes, Stages
<1>3. PeerInv' /\ Sent' = Sent
  BY <1>1, PeerStays DEF PeerInv
<1>4. FrameTypes'
  BY <1>1, <1>2 DEF FrameTypes
<1>5. ChainInv' /\ RunInv' /\ ReadyInv' /\ NicInv'
  BY <1>1, <1>2 DEF ChainInv, RunInv, ReadyInv, NicInv, Caller
<1>6. ContextInv' /\ DoubledInv'
  BY <1>1, <1>2, <1>3 DEF ContextInv, DoubledInv, historyVars
<1>7. CountInv'
  BY <1>1, <1>2, <1>3 DEF CountInv, Waiting
<1> QED BY <1>3, <1>4, <1>5, <1>6, <1>7 DEF ReaderInv

(* A CHECK, an EXPECT or an ASSERT throws: nothing but the running frame   *)
(* knows yet.                                                              *)
LEMMA ThrowStep ==
  ASSUME ReaderInv, Throw \/ PostRefused, cur # ConnRead,
         UNCHANGED <<readerVars, imms, requested, peerVars, historyVars>>
  PROVE  ReaderInv'
<1> USE Names
<1>1. FrameTypes /\ ChainInv /\ RunInv /\ ReadyInv /\ NicInv /\ ContextInv /\ PeerInv /\ CountInv
      /\ DoubledInv
  BY DEF ReaderInv
<1>2. /\ UNCHANGED <<point, next, callee, owner, held, ready, cq, inflight, cur, batch, phase>>
      /\ UNCHANGED <<stage, reads, immContext>>
      /\ state' = state \/ state' = [state EXCEPT ![cur] = "kSuspend"]
  BY DEF Throw, PostRefused, frameVars, fabricVars, readerVars
<1>3. PeerInv' /\ Sent' = Sent
  BY <1>1, PeerStays DEF PeerInv
<1>4. FrameTypes'
  <2>1. state' \in [Handles -> States]
    BY <1>1, <1>2 DEF FrameTypes, States
  <2> QED BY <1>1, <1>2, <2>1 DEF FrameTypes
<1>5. ChainInv' /\ RunInv' /\ ReadyInv' /\ NicInv'
  BY <1>1, <1>2 DEF ChainInv, RunInv, ReadyInv, NicInv, Caller
<1>6. ContextInv' /\ DoubledInv'
  BY <1>1, <1>2 DEF ContextInv, DoubledInv, historyVars
<1>7. CountInv'
  BY <1>1, <1>2, <1>3 DEF CountInv, Waiting
<1> QED BY <1>3, <1>4, <1>5, <1>6, <1>7 DEF ReaderInv

-----------------------------------------------------------------------------
(* Reading the completion queue takes all of it: it holds one entry at     *)
(* most, and fi_cq_read returns one at least.                              *)
LEMMA ReadAll ==
  ASSUME NEW S, NEW s \in Seq(S)
  PROVE  /\ SubSeq(s, 1, Len(s)) = s /\ SubSeq(s, Len(s) + 1, Len(s)) = <<>>
         /\ SubSeq(s, 1, 0) = <<>> /\ s \o <<>> = s /\ <<>> \o s = s
<1>1. Len(s) \in Nat
  BY LenProperties
<1>2. SubSeq(s, Len(s) + 1, Len(s)) = <<>> /\ SubSeq(s, 1, 0) = <<>>
  BY <1>1, SubSeqEmpty
<1>3. SubSeq(s, 1, Len(s)) = s
  BY SubSeqFull
<1> QED BY <1>2, <1>3, ConcatEmptySeq

(* The steps of the loop that change no queue.                             *)
LEMMA QuietStep ==
  ASSUME ReaderInv, Stop \/ SelectError \/ StartBatch \/ EndBatch,
         UNCHANGED <<readerVars, imms, requested, peerVars, historyVars>>
  PROVE  ReaderInv'
<1>1. FrameTypes /\ ChainInv /\ RunInv /\ ReadyInv /\ NicInv /\ ContextInv /\ PeerInv /\ CountInv
      /\ DoubledInv
  BY DEF ReaderInv
<1>2. /\ UNCHANGED <<frameVars, state, cur, ready, cq, inflight, stage, reads, immContext>>
      /\ cur = Null /\ phase' # "undefined" /\ batch' \in Nat
      /\ phase' = "run" => batch' = Len(ready)
  <2>1. Len(ready) \in Nat
    BY <1>1, LenProperties DEF FrameTypes
  <2> QED BY <1>1, <2>1 DEF Stop, SelectError, StartBatch, EndBatch, RunInv, FrameTypes, fabricVars,
                            readerVars
<1>3. ChainInv' /\ ContextInv' /\ PeerInv' /\ Sent' = Sent
  BY <1>1, <1>2, FramesStay DEF peerVars
<1>4. UNCHANGED point /\ Len(ready) <= Len(ready)
  <2>1. Len(ready) \in Nat
    BY <1>1, LenProperties DEF FrameTypes
  <2> QED BY <1>2, <2>1 DEF frameVars
<1>5. FrameTypes'
  BY <1>1, <1>2 DEF FrameTypes, frameVars
<1>6. RunInv' /\ ReadyInv' /\ NicInv'
  BY <1>1, <1>2, <1>4, Names DEF RunInv, ReadyInv, NicInv, Caller
<1>7. CountInv'
  BY <1>1, <1>2, <1>3, <1>4 DEF CountInv, Waiting
<1>8. DoubledInv'
  <2>1. ASSUME point[ConnRead] = "op", ready # <<>> PROVE phase' = "run" /\ batch' = Len(ready)
    <3>1. phase = "expire" \/ (phase = "run" /\ batch = Len(ready))
      BY <1>1, <2>1 DEF DoubledInv
    <3>2. ~Stop /\ ~SelectError
      BY <3>1 DEF Stop, SelectError
    <3>3. ~EndBatch
      <4> SUFFICES ASSUME EndBatch PROVE FALSE
        OBVIOUS
      <4>1. Len(ready) = 0 /\ ready \in Seq(Handles)
        BY <1>1, <3>1 DEF EndBatch, FrameTypes
      <4> QED BY <2>1, <4>1, EmptySeq
    <3>4. StartBatch
      BY <3>2, <3>3
    <3> QED BY <3>4 DEF StartBatch
  <2> QED BY <1>1, <1>2, <1>4, <2>1 DEF DoubledInv, historyVars
<1> QED BY <1>3, <1>5, <1>6, <1>7, <1>8 DEF ReaderInv

(* What the read of the completion queue leaves, when the events all go to *)
(* the back of the deque: the completion of Send, if it is there, and then *)
(* m notifications, which are dropped when no context is registered.       *)
LEMMA SelectedStep ==
  ASSUME ReaderInv, NEW m \in Nat, m <= imms,
         dropped' \in BOOLEAN, twice' = (twice \/ (immContext # Null /\ m > 1)),
         phase = "select", phase' = "expire",
         NEW events \in Seq(Handles),
         \/ events = <<>> /\ cq' = cq /\ (m = 0 \/ immContext = Null)
         \/ events = <<Send>> /\ cq = <<Send>> /\ cq' = <<>> /\ (m = 0 \/ immContext = Null)
         \/ /\ m > 0 /\ immContext = ConnRead /\ cq = <<>> /\ cq' = <<>>
            /\ events \in Seq({ConnRead}) /\ Len(events) = m /\ ConnRead \in Range(events),
         imms' = imms - m, ready' = ready \o events,
         state' = SetAll(state, Range(events), "kScheduled"),
         UNCHANGED <<frameVars, cur, batch, inflight, readerVars, requested, peerVars>>
  PROVE  ReaderInv'
<1> USE Names
<1>1. FrameTypes /\ ChainInv /\ RunInv /\ ReadyInv /\ NicInv /\ ContextInv /\ PeerInv /\ CountInv
      /\ DoubledInv
  BY DEF ReaderInv
<1>2. cur = Null /\ cur' = Null /\ UNCHANGED <<point, stage, immContext, reads>>
  BY <1>1 DEF RunInv, frameVars, readerVars
<1>3. ChainInv' /\ ContextInv' /\ PeerInv' /\ Sent' = Sent
  BY <1>1, <1>2, FramesStay DEF peerVars
<1>4. /\ ready' \in Seq(Handles) /\ Len(ready') = Len(ready) + Len(events)
      /\ Len(ready) \in Nat /\ Len(events) \in Nat /\ Len(ready') \in Nat
  BY <1>1, ConcatProperties, LenProperties DEF FrameTypes
<1>5. FrameTypes'
  <2>1. cq' \in Seq(Handles)
    <3>1. <<>> \in Seq(Handles) /\ cq \in Seq(Handles) /\ (cq' = cq \/ cq' = <<>>)
      BY <1>1 DEF FrameTypes
    <3> QED BY <3>1
  <2>2. state' \in [Handles -> States]
    BY <1>1 DEF FrameTypes, SetAll, States
  <2> QED BY <1>1, <1>2, <1>4, <2>1, <2>2 DEF FrameTypes, frameVars
<1>6. RunInv'
  BY <1>1, <1>2 DEF RunInv
<1>7. CASE events = <<>>
  <2>1. ready' = ready
    BY <1>1, <1>7, ReadAll DEF FrameTypes
  <2>4. cq' = cq /\ (m = 0 \/ immContext = Null)
    <3>1. Len(events) = 0 /\ <<>> # <<Send>>
      BY <1>7
    <3> QED BY <1>7, <3>1
  <2>5. ReadyInv' /\ NicInv'
    BY <1>1, <1>2, <2>1, <2>4 DEF ReadyInv, NicInv, Caller
  <2>6. CountInv'
    <3>1. Waiting' = Waiting /\ Waiting \in Nat /\ Sent \in Int
      BY <1>1, <1>2, <1>4, <2>1, ReaderAssumption DEF Waiting, Sent, PeerInv
    <3> QED BY <1>1, <1>2, <1>3, <3>1 DEF CountInv
  <2>7. DoubledInv'
    BY <1>1, <1>2, <2>1 DEF DoubledInv
  <2> QED BY <1>3, <1>5, <1>6, <2>5, <2>6, <2>7 DEF ReaderInv
<1>8. CASE events = <<Send>>
  <2>1. /\ cq = <<Send>> /\ cq' = <<>> /\ (m = 0 \/ immContext = Null)
    <3>1. events # <<>> /\ events \notin Seq({ConnRead})
      <4>1. events[1] = Send /\ 1 \in 1 .. Len(events)
        BY <1>8
      <4> QED BY <1>8, <4>1
    <3> QED BY <3>1
  <2>2. point[Send] = "op" /\ ready = <<>> /\ inflight = {}
    <3>1. cq # <<>>
      BY <2>1
    <3> QED BY <1>1, <3>1 DEF NicInv
  <2>3. ready' = <<Send>>
    BY <1>8, <2>2, ReadAll
  <2>4. \A g \in Handles \ {Send} : point[g] \in {"free", "child"}
    BY <1>1, <2>2, OtherFrames DEF LeafPoints
  <2>5. immContext = Null
    BY <1>1, <2>4 DEF ContextInv
  <2>6. ReadyInv' /\ NicInv'
    BY <1>2, <2>1, <2>2, <2>3, <2>4 DEF ReadyInv, NicInv
  <2>7. CountInv'
    <3>1. Waiting' = 0 /\ Waiting = 0 /\ Sent \in Int
      BY <1>1, <1>2, <2>5, ReaderAssumption DEF Waiting, Sent, PeerInv
    <3> QED BY <1>1, <1>2, <1>3, <3>1 DEF CountInv
  <2>8. DoubledInv'
    <3>1. Len(ready') <= 1 /\ point'[ConnRead] # "op"
      BY <1>2, <2>3, <2>4
    <3> QED BY <1>1, <1>2, <3>1 DEF DoubledInv
  <2> QED BY <1>3, <1>5, <1>6, <2>6, <2>7, <2>8 DEF ReaderInv
<1>9. CASE /\ m > 0 /\ immContext = ConnRead /\ cq = <<>> /\ cq' = <<>>
           /\ events \in Seq({ConnRead}) /\ Len(events) = m /\ ConnRead \in Range(events)
  <2>1. point[ConnRead] = "op"
    <3>1. point[ConnRead] # "running"
      BY <1>1, <1>2 DEF RunInv
    <3> QED BY <1>1, <1>9, <3>1 DEF ContextInv
  <2>2. \A g \in Handles \ {ConnRead} : point[g] \in {"free", "child"}
    BY <1>1, <2>1, OtherFrames DEF LeafPoints
  <2>3. ready' \in Seq({ConnRead}) /\ inflight = {}
    <3>1. ready \in Seq({ConnRead})
      BY <1>1, <2>1 DEF ReadyInv
    <3>2. ready \o events \in Seq({ConnRead})
      BY <1>9, <3>1, ConcatProperties
    <3> QED BY <1>1, <2>2, <3>2 DEF NicInv
  <2>4. ReadyInv' /\ NicInv'
    BY <1>2, <1>9, <2>1, <2>2, <2>3 DEF ReadyInv, NicInv
  <2>5. CountInv'
    <3>1. Waiting = Len(ready) /\ Waiting' = Len(ready) + m
      BY <1>2, <1>4, <1>9, <2>1 DEF Waiting
    <3>2. Sent \in Int
      BY <1>1, ReaderAssumption DEF Sent, PeerInv
    <3> QED BY <1>1, <1>2, <1>3, <1>4, <3>1, <3>2 DEF CountInv
  <2>6. DoubledInv'
    <3>1. ready = <<>>
      BY <1>1, <2>1 DEF DoubledInv
    <3>2. Len(ready') = m
      <4>1. Len(ready) = 0
        BY <3>1
      <4> QED BY <1>4, <1>9, <4>1
    <3>3. ~twice' => m <= 1
      <4>1. immContext # Null
        BY <1>9
      <4>2. m > 1 => twice'
        BY <4>1, Zenon
      <4> QED BY <4>2
    <3>4. twice' \in BOOLEAN /\ (~twice' => Len(ready') <= 1)
      BY <1>1, <3>2, <3>3 DEF DoubledInv
    <3> QED BY <1>1, <1>2, <3>4 DEF DoubledInv
  <2> QED BY <1>3, <1>5, <1>6, <2>4, <2>5, <2>6 DEF ReaderInv
<1> QED BY <1>7, <1>8, <1>9

LEMMA SelectStep ==
  ASSUME ReaderInv,
         \/ Select /\ UNCHANGED <<imms, historyVars>>
         \/ SelectRemote,
         UNCHANGED <<readerVars, requested, peerVars>>
  PROVE  ReaderInv'
<1> USE Names
<1>1. FrameTypes /\ NicInv /\ RunInv /\ ContextInv /\ CountInv /\ DoubledInv
  BY DEF ReaderInv
<1>2. /\ cq \in Seq(Handles) /\ Len(cq) \in {0, 1} /\ (Len(cq) = 0 <=> cq = <<>>)
      /\ <<>> \in Seq(Handles) /\ MaxCQEntries \in Nat /\ MaxCQEntries >= 1
  BY <1>1, LoopAssumption DEF FrameTypes, NicInv
<1>3. (IF Len(cq) < MaxCQEntries THEN Len(cq) ELSE MaxCQEntries) = Len(cq)
  <2>1. Len(cq) < MaxCQEntries \/ Len(cq) = MaxCQEntries
    BY ONLY <1>2
  <2> QED BY ONLY <2>1
<1>4. /\ SubSeq(cq, 1, Len(cq)) = cq /\ SubSeq(cq, Len(cq) + 1, Len(cq)) = <<>>
      /\ SubSeq(cq, 1, 0) = <<>> /\ cq \o <<>> = cq
  BY <1>2, ReadAll
<1>5. \A h \in Range(cq) : point[h] # "free"
  <2>1. cq = <<>> => Range(cq) = {}
    BY DEF Range
  <2>2. cq = <<Send>> => Range(cq) = {Send} /\ point[Send] = "op"
    BY <1>1 DEF Range, NicInv
  <2> QED BY <1>1, <2>1, <2>2 DEF NicInv
<1>6. CASE Select /\ UNCHANGED <<imms, historyVars>>
  <2> DEFINE n == IF ~polling THEN 0
                  ELSE IF Len(cq) < MaxCQEntries THEN Len(cq) ELSE MaxCQEntries
             events == SubSeq(cq, 1, n)
  <2>1. /\ phase = "select" /\ cq' = SubSeq(cq, n + 1, Len(cq))
        /\ UNCHANGED <<frameVars, cur, batch, inflight>>
        /\ (~\E h \in Range(events) : point[h] = "free") =>
             /\ phase' = "expire"
             /\ state' = SetAll(state, Range(events), "kScheduled")
             /\ ready' = ready \o events
    BY <1>6 DEF Select
  <2>2. n = 0 \/ n = Len(cq)
    BY <1>3
  <2>3. \/ n = 0 /\ events = <<>> /\ cq' = cq
        \/ n = Len(cq) /\ events = cq /\ cq' = <<>>
    <3>1. CASE n = 0
      <4>1. SubSeq(cq, 0 + 1, Len(cq)) = cq
        BY <1>4
      <4> QED BY <1>4, <2>1, <3>1, <4>1
    <3>2. CASE n = Len(cq)
      BY <1>4, <2>1, <3>2
    <3> QED BY <2>2, <3>1, <3>2
  <2> HIDE DEF n, events
  <2>4. \A h \in Range(events) : point[h] # "free"
    <3>1. events = <<>> => Range(events) = {}
      BY DEF Range
    <3> QED BY <1>5, <2>3, <3>1
  <2>5. /\ phase' = "expire" /\ state' = SetAll(state, Range(events), "kScheduled")
        /\ ready' = ready \o events /\ events \in Seq(Handles)
    BY <1>2, <2>1, <2>3, <2>4
  <2>6. \/ events = <<>> /\ cq' = cq
        \/ events = <<Send>> /\ cq = <<Send>> /\ cq' = <<>>
    BY <1>1, <2>3 DEF NicInv
  <2>7. PICK m \in Nat : m = 0
    OBVIOUS
  <2>8. /\ imms' = imms - m /\ m <= imms /\ dropped' \in BOOLEAN
        /\ twice' = (twice \/ (immContext # Null /\ m > 1))
    <3>1. ~(m > 1) /\ twice \in BOOLEAN /\ twice' = twice
      BY <1>1, <1>6, <2>7 DEF DoubledInv, historyVars
    <3>2. twice' = (twice \/ (immContext # Null /\ m > 1))
      BY <3>1, Zenon
    <3>3. imms' = imms - m /\ m <= imms
      <4>1. imms \in Nat /\ imms' = imms
        BY <1>1, <1>6 DEF CountInv
      <4> QED BY <2>7, <4>1
    <3>4. dropped' \in BOOLEAN
      BY <1>1, <1>6 DEF DoubledInv, historyVars
    <3> QED BY <3>2, <3>3, <3>4
  <2>9. \/ events = <<>> /\ cq' = cq /\ (m = 0 \/ immContext = Null)
        \/ events = <<Send>> /\ cq = <<Send>> /\ cq' = <<>> /\ (m = 0 \/ immContext = Null)
    BY <2>6, <2>7
  <2> QED BY <2>1, <2>5, <2>8, <2>9, SelectedStep
<1>7. CASE SelectRemote
  <2> DEFINE room == MaxCQEntries - (IF Len(cq) < MaxCQEntries THEN Len(cq) ELSE MaxCQEntries)
             m == IF imms < room THEN imms ELSE room
             events == SubSeq(cq, 1, MaxCQEntries - room) \o RemoteEvents(m)
  <2>1. /\ phase = "select" /\ phase' = "expire" /\ m > 0
        /\ cq' = SubSeq(cq, MaxCQEntries - room + 1, Len(cq))
        /\ imms' = imms - m
        /\ state' = SetAll(state, Range(events), "kScheduled")
        /\ ready' = ready \o events
        /\ twice' = (twice \/ (immContext # Null /\ m > 1))
        /\ UNCHANGED <<frameVars, cur, batch, inflight>>
    BY <1>7 DEF SelectRemote
  <2>7. dropped' \in BOOLEAN
    BY <1>1, <1>7 DEF SelectRemote, DoubledInv
  <2>2. room = MaxCQEntries - Len(cq) /\ MaxCQEntries - room = Len(cq) /\ room \in Nat
    BY <1>2, <1>3
  <2>3. m \in Nat /\ m <= imms
    BY <1>1, <2>2 DEF CountInv
  <2>4. cq' = <<>> /\ events = cq \o RemoteEvents(m)
    BY <1>4, <2>1, <2>2
  <2> HIDE DEF room, m, events
  <2>5. CASE immContext = Null
    <3>1. events = cq
      BY <1>4, <2>4, <2>5 DEF RemoteEvents
    <3>2. \/ events = <<>> /\ cq' = cq
          \/ events = <<Send>> /\ cq = <<Send>> /\ cq' = <<>>
      BY <1>1, <2>4, <3>1 DEF NicInv
    <3>4. events \in Seq(Handles)
      BY <1>2, <3>1
    <3> QED BY <2>1, <2>3, <2>5, <2>7, <3>2, <3>4, SelectedStep
  <2>6. CASE immContext # Null
    <3>1. immContext = ConnRead /\ point[ConnRead] = "op"
      <4>1. cur = Null
        BY <1>1, <2>1 DEF RunInv
      <4>2. point[ConnRead] # "running"
        BY <1>1, <4>1 DEF RunInv
      <4> QED BY <1>1, <2>6, <4>2 DEF ContextInv
    <3>2. cq = <<>>
      <4>1. point[Send] # "op"
        BY <3>1, OtherFrames DEF ReaderInv, LeafPoints
      <4> QED BY <1>1, <4>1 DEF NicInv
    <3>3. events = [i \in 1 .. m |-> ConnRead]
      <4>1. RemoteEvents(m) = [i \in 1 .. m |-> ConnRead]
        BY <3>1 DEF RemoteEvents
      <4>2. [i \in 1 .. m |-> ConnRead] \in Seq(Handles)
        BY <2>3, IsASeq
      <4> QED BY <2>4, <3>2, <4>1, <4>2, ReadAll
    <3>4. events \in Seq({ConnRead}) /\ events \in Seq(Handles) /\ Len(events) = m
      BY <2>3, <3>3
    <3>5. ConnRead \in Range(events)
      <4>1. 1 \in DOMAIN events /\ events[1] = ConnRead
        BY <2>1, <2>3, <3>3
      <4> QED BY <4>1 DEF Range
    <3> QED BY <2>1, <2>3, <2>4, <2>6, <2>7, <3>1, <3>2, <3>4, <3>5, SelectedStep
  <2> QED BY <2>5, <2>6
<1> QED BY <1>6, <1>7

-----------------------------------------------------------------------------
(* RunNext resumes the leaf when it has not finished: its own handle is at *)
(* the front of the deque.                                                 *)
LEMMA ResumeLeaf ==
  ASSUME ReaderInv, RunNext, NEW h \in Handles, point[h] \in {"initial", "op"},
         UNCHANGED <<readerVars, imms, requested, peerVars, historyVars>>
  PROVE  ReaderInv'
<1> USE Names
<1>1. FrameTypes /\ ChainInv /\ RunInv /\ ReadyInv /\ NicInv /\ ContextInv /\ PeerInv /\ CountInv
      /\ DoubledInv
  BY DEF ReaderInv
<1>2. /\ phase = "run" /\ cur = Null /\ ready \in Seq(Handles) /\ Len(ready) \in Nat
      /\ batch \in Nat /\ batch > 0 /\ batch <= Len(ready) /\ ready # <<>>
      /\ ready' = Tail(ready) /\ batch' = batch - 1
      /\ \A g \in Handles \ {h} : point[g] \in {"free", "child"}
  <2>1. ready \in Seq(Handles) /\ Len(ready) \in Nat /\ batch \in Nat /\ batch <= Len(ready)
        /\ batch > 0
    BY <1>1, LenProperties DEF FrameTypes, RunInv, RunNext
  <2>2. ready # <<>>
    BY <2>1
  <2> QED BY <1>1, <2>1, <2>2, OtherFrames DEF RunNext, LeafPoints
<1>3. /\ Head(ready) = h /\ ready' \in Seq({ConnRead})
      /\ (h # ConnRead \/ point[h] = "initial") => ready' = <<>>
  <2>1. CASE ready = <<h>>
    <3>1. Head(ready) = h /\ Tail(ready) = <<>> /\ <<>> \in Seq({ConnRead})
      BY <2>1
    <3> QED BY <1>2, <3>1
  <2>2. CASE ready # <<h>>
    <3>1. h = ConnRead /\ point[h] = "op"
      BY <1>1, <1>2, <2>2 DEF ReadyInv, ChainInv
    <3>2. ready \in Seq({ConnRead})
      BY <1>1, <3>1 DEF ReadyInv
    <3>3. Head(ready) \in {ConnRead} /\ Tail(ready) \in Seq({ConnRead})
      BY <1>2, <3>2, HeadTailProperties
    <3> QED BY <1>2, <3>1, <3>3
  <2> QED BY <2>1, <2>2
<1>4. /\ ready' \in Seq(Handles) /\ Len(ready') = Len(ready) - 1 /\ Len(ready') \in Nat
  <2>1. Tail(ready) \in Seq(Handles) /\ Len(Tail(ready)) = Len(ready) - 1
    BY <1>2, HeadTailProperties
  <2> QED BY <1>2, <2>1
<1>5. /\ cur' = h /\ UNCHANGED <<phase, inflight, cq>>
      /\ point'[h] = "running" /\ \A g \in Handles \ {h} : point'[g] = point[g]
      /\ \A g \in Handles \ {h} : callee'[g] = callee[g]
      /\ \A g \in Handles : next'[g] = next[g] /\ owner'[g] = owner[g] /\ held'[g] = held[g]
      /\ ~raised'
      /\ point' \in [Handles -> Points] /\ state' \in [Handles -> States]
  <2>1. point[h] \in Resumable /\ EndsWithAwait(h) = {}
    BY DEF Resumable, EndsWithAwait
  <2>2. /\ cur' = h /\ UNCHANGED <<phase, inflight, cq>>
        /\ point' = [SetAll(point, {}, "free") EXCEPT ![h] = "running"]
        /\ state' = [SetAll(state, {}, "kUnschedule") EXCEPT ![h] = "kUnschedule"]
        /\ callee' = [callee EXCEPT ![h] = Null]
        /\ next' = SetAll(next, {}, Null) /\ owner' = SetAll(owner, {}, Null)
        /\ held' = SetAll(held, {}, "temporary") /\ ~raised'
    BY <1>3, <2>1 DEF RunNext, fabricVars
  <2>3. point' \in [Handles -> Points] /\ state' \in [Handles -> States]
    BY <1>1, <2>2 DEF SetAll, FrameTypes, Points, States
  <2> QED BY <1>1, <2>2, <2>3 DEF SetAll, FrameTypes
<1>6. FrameTypes'
  <2>2. /\ next' \in [Handles -> Handles \cup {Null}] /\ callee' \in [Handles -> Handles \cup {Null}]
        /\ owner' \in [Handles -> Handles \cup {Null}]
        /\ held' \in [Handles -> {"temporary", "future"}]
    BY <1>1, <1>2, <1>3 DEF RunNext, Resumable, EndsWithAwait, SetAll, FrameTypes
  <2> QED BY <1>1, <1>2, <1>4, <1>5, <2>2 DEF FrameTypes, readerVars
<1>7. ChainInv'
  <2>1. \A g \in Handles : /\ point'[g] = "free" <=> point[g] = "free"
                           /\ point'[g] = "child" <=> point[g] = "child"
                           /\ point'[g] = "child" => callee'[g] = callee[g]
    BY <1>5
  <2>2. \A g \in Handles \ {Root} : Caller(g) \in Handles
    BY Callers
  <2>3. \A g \in Handles \ {Root} :
          point'[g] # "free" <=> (point'[Caller(g)] = "child" /\ callee'[Caller(g)] = g)
    BY <1>1, <2>1, <2>2 DEF ChainInv
  <2>4. \A g \in Handles : point'[g] # "timer" /\ (point'[g] = "op" => g \in {Send, ConnRead})
    BY <1>1, <1>5 DEF ChainInv
  <2> QED BY <1>1, <1>5, <2>1, <2>3, <2>4 DEF ChainInv, Caller
<1>8. RunInv'
  <2>1. batch' <= Len(ready')
    BY <1>2, <1>4
  <2> QED BY <1>2, <1>5, <2>1 DEF RunInv
<1>9. /\ \A g \in Handles \ {h} : point'[g] \in {"free", "child"}
      /\ UNCHANGED <<stage, reads, immContext, imms>>
  BY <1>2, <1>5 DEF readerVars
<1>10. h = ConnRead /\ point[h] = "op" => immContext = ConnRead
  BY <1>1 DEF ContextInv
<1>11. ~(h = ConnRead /\ point[h] = "op") => immContext = Null /\ immContext' = Null
  BY <1>1, <1>2, <1>9 DEF ContextInv
<1>12. ReadyInv'
  BY <1>3, <1>5, <1>9, <1>10 DEF ReadyInv
<1>13. NicInv'
  BY <1>1, <1>2, <1>5 DEF NicInv
<1>14. ContextInv'
  <2>1. CASE h = ConnRead
    BY <1>1, <1>5, <1>9, <2>1 DEF ContextInv
  <2>2. CASE h # ConnRead
    BY <1>1, <1>2, <1>5, <1>9, <2>2 DEF ContextInv
  <2> QED BY <2>1, <2>2
<1>15. PeerInv' /\ Sent' = Sent
  BY <1>1, PeerStays DEF PeerInv
<1>16. CountInv'
  <2>1. Sent \in Int
    BY <1>1, ReaderAssumption DEF PeerInv, Sent
  <2>2. Waiting' <= Waiting /\ Waiting' \in Nat /\ Waiting \in Nat
    <3>1. CASE h = ConnRead /\ point[h] = "op"
      <4>1. Waiting = Len(ready) /\ Waiting' = 1 /\ Len(ready) >= 1
        BY <1>2, <1>5, <1>9, <1>10, <3>1 DEF Waiting
      <4> QED BY <1>2, <4>1
    <3>2. CASE ~(h = ConnRead /\ point[h] = "op")
      BY <1>11, <3>2 DEF Waiting
    <3> QED BY <3>1, <3>2
  <2> QED BY <1>1, <1>9, <1>15, <2>1, <2>2 DEF CountInv
<1>17. DoubledInv'
  <2>1. ASSUME ~twice PROVE Len(ready') <= 1 /\ ready' = <<>>
    <3>1. Len(ready) <= 1
      BY <1>1, <2>1 DEF DoubledInv
    <3>2. Len(ready') = 0
      BY <1>2, <1>4, <3>1
    <3>3. ready' = <<>>
      BY <1>4, <3>2, EmptySeq
    <3> QED BY <3>2, <3>3
  <2>2. point'[ConnRead] # "op"
    <3>1. CASE h = ConnRead
      BY <1>5, <3>1
    <3>2. CASE h # ConnRead
      BY <1>9, <3>2
    <3> QED BY <3>1, <3>2
  <2> QED BY <1>1, <1>2, <1>5, <2>1, <2>2 DEF DoubledInv, historyVars
<1> QED BY <1>6, <1>7, <1>8, <1>12, <1>13, <1>14, <1>15, <1>16, <1>17 DEF ReaderInv

(* When the leaf is done, its caller takes the value and the frame is      *)
(* freed: the caller is the leaf now.                                      *)
LEMMA ResumeCaller ==
  ASSUME ReaderInv, RunNext, NEW h \in Handles \ {Root}, point[h] = "final",
         ready = <<Caller(h)>>,
         UNCHANGED <<readerVars, imms, requested, peerVars, historyVars>>
  PROVE  ReaderInv'
<1> USE Names
<1>1. FrameTypes /\ ChainInv /\ RunInv /\ ReadyInv /\ NicInv /\ ContextInv /\ PeerInv /\ CountInv
      /\ DoubledInv
  BY DEF ReaderInv
<1>2. PICK f \in Handles : f = Caller(h)
  BY Callers
<1>3. /\ point[f] = "child" /\ callee[f] = h /\ f # h /\ f # ConnRead /\ f # Send
      /\ held[h] = "temporary" /\ ready = <<f>>
      /\ \A g \in Handles \ {h} : point[g] \in {"free", "child"}
  <2>1. point[f] = "child" /\ callee[f] = h /\ held[h] = "temporary"
    BY <1>1, <1>2 DEF ChainInv
  <2>2. f # h /\ f # ConnRead /\ f # Send
    BY <1>2, <2>1, Callers
  <2>3. \A g \in Handles \ {h} : point[g] \in {"free", "child"}
    BY <1>1, OtherFrames DEF LeafPoints
  <2> QED BY <1>2, <2>1, <2>2, <2>3
<1>4. Head(ready) = f /\ Tail(ready) = <<>> /\ ready # <<>> /\ Len(ready) = 1
  BY <1>3
<1>5. /\ cur = Null /\ cur' = f /\ phase = "run" /\ UNCHANGED <<phase, inflight, cq>>
      /\ batch > 0 /\ batch' = batch - 1 /\ ready' = <<>>
      /\ point'[f] = "running" /\ point'[h] = "free"
      /\ \A g \in Handles \ {f, h} : point'[g] = point[g]
      /\ callee'[f] = Null /\ \A g \in Handles \ {f} : callee'[g] = callee[g]
      /\ next'[h] = Null /\ owner'[h] = Null /\ held'[h] = "temporary"
      /\ \A g \in Handles \ {h} : next'[g] = next[g] /\ owner'[g] = owner[g] /\ held'[g] = held[g]
      /\ point' \in [Handles -> Points] /\ state' \in [Handles -> States]
      /\ callee' \in [Handles -> Handles \cup {Null}]
  <2>1. point[f] \in Resumable /\ EndsWithAwait(f) = {h}
    BY <1>3 DEF Resumable, EndsWithAwait
  <2>2. /\ cur = Null /\ cur' = f /\ phase = "run" /\ UNCHANGED <<phase, inflight, cq>>
        /\ batch > 0 /\ batch' = batch - 1 /\ ready' = <<>>
        /\ point' = [SetAll(point, {h}, "free") EXCEPT ![f] = "running"]
        /\ state' = [SetAll(state, {h}, "kUnschedule") EXCEPT ![f] = "kUnschedule"]
        /\ callee' = [callee EXCEPT ![f] = Null]
        /\ next' = SetAll(next, {h}, Null) /\ owner' = SetAll(owner, {h}, Null)
        /\ held' = SetAll(held, {h}, "temporary")
    BY <1>4, <2>1 DEF RunNext, fabricVars
  <2>3. point' \in [Handles -> Points] /\ state' \in [Handles -> States]
    BY <1>1, <2>2 DEF SetAll, FrameTypes, Points, States
  <2> QED BY <1>1, <1>3, <2>2, <2>3 DEF SetAll, FrameTypes
<1>6. FrameTypes'
  <2>1. ready' \in Seq(Handles) /\ batch' \in Nat
    BY <1>1, <1>5 DEF FrameTypes
  <2>2. /\ next' \in [Handles -> Handles \cup {Null}] /\ owner' \in [Handles -> Handles \cup {Null}]
        /\ held' \in [Handles -> {"temporary", "future"}]
    <3>1. EndsWithAwait(f) = {h} /\ point[f] \in Resumable
      BY <1>3 DEF EndsWithAwait, Resumable
    <3> QED BY <1>1, <1>4, <3>1 DEF RunNext, SetAll, FrameTypes
  <2> QED BY <1>1, <1>5, <2>1, <2>2 DEF FrameTypes, readerVars
<1>7. /\ \A g \in Handles \ {f} : point'[g] \in {"free", "child"}
      /\ UNCHANGED <<stage, reads, immContext, imms>>
  BY <1>3, <1>5 DEF readerVars
<1>8. ChainInv'
  <2>1. \A g \in Handles \ {Root} :
          point'[g] # "free" <=> (point'[Caller(g)] = "child" /\ callee'[Caller(g)] = g)
    <3> SUFFICES ASSUME NEW g \in Handles \ {Root}
                 PROVE  point'[g] # "free" <=> (point'[Caller(g)] = "child" /\ callee'[Caller(g)] = g)
      OBVIOUS
    <3>1. Caller(g) \in Handles
      BY Callers
    <3>2. point[g] # "free" <=> (point[Caller(g)] = "child" /\ callee[Caller(g)] = g)
      BY <1>1 DEF ChainInv
    <3>3. CASE Caller(g) = f
      <4>1. point'[Caller(g)] # "child"
        BY <1>5, <3>3
      <4>2. g # f
        BY <3>3, Callers
      <4>3. point'[g] = "free"
        BY <1>3, <1>5, <3>2, <3>3, <4>2
      <4> QED BY <4>1, <4>3
    <3>4. CASE Caller(g) # f
      <4>1. g # h
        BY <1>2, <3>4
      <4>2. point'[g] # "free" <=> point[g] # "free"
        BY <1>3, <1>5, <4>1
      <4>3. Caller(g) = h => point[Caller(g)] # "child" /\ point'[Caller(g)] # "child"
        BY <1>5
      <4>4. Caller(g) # h => point'[Caller(g)] = point[Caller(g)] /\ callee'[Caller(g)] = callee[Caller(g)]
        BY <1>5, <3>1, <3>4
      <4> QED BY <3>2, <4>2, <4>3, <4>4
    <3> QED BY <3>3, <3>4
  <2>2. \A g \in Handles :
          point'[g] = "child" => callee'[g] \in Handles \ {Root} /\ Caller(callee'[g]) = g
    BY <1>1, <1>5 DEF ChainInv
  <2>3. \A g \in Handles : owner'[g] = IF point'[g] = "free" THEN Null ELSE Caller(g)
    <3> SUFFICES ASSUME NEW g \in Handles
                 PROVE  owner'[g] = IF point'[g] = "free" THEN Null ELSE Caller(g)
      OBVIOUS
    <3>1. owner[g] = IF point[g] = "free" THEN Null ELSE Caller(g)
      BY <1>1 DEF ChainInv
    <3>2. g # h => (point'[g] = "free" <=> point[g] = "free")
      BY <1>3, <1>5
    <3> QED BY <1>5, <3>1, <3>2
  <2>4. \A g \in Handles : next'[g] = owner'[g] /\ held'[g] = "temporary"
    BY <1>1, <1>5 DEF ChainInv
  <2>5. \A g \in Handles : point'[g] # "timer" /\ (point'[g] = "op" => g \in {Send, ConnRead})
    BY <1>5, <1>7
  <2>6. point'[Root] # "free"
    BY <1>1, <1>5 DEF ChainInv
  <2> QED BY <2>1, <2>2, <2>3, <2>4, <2>5, <2>6 DEF ChainInv, Caller
<1>9. RunInv'
  <2>1. batch' = 0
    BY <1>1, <1>4, <1>5 DEF FrameTypes, RunInv
  <2>2. Len(ready') = 0
    BY <1>5
  <2> QED BY <1>3, <1>5, <1>7, <2>1, <2>2 DEF RunInv
<1>10. ReadyInv'
  <2>1. <<>> \in Seq({ConnRead})
    OBVIOUS
  <2> QED BY <1>5, <1>7, <2>1 DEF ReadyInv
<1>11. NicInv'
  <2>1. inflight = {} /\ cq = <<>>
    BY <1>1, <1>4 DEF NicInv
  <2> QED BY <1>5, <2>1 DEF NicInv
<1>12. immContext = Null /\ immContext' = Null
  BY <1>1, <1>3, <1>7 DEF ContextInv
<1>13. ContextInv'
  <2>1. point'[ConnRead] \in {"free", "child"} /\ point[ConnRead] # "child"
    <3>1. point'[ConnRead] \in {"free", "child"}
      BY <1>3, <1>7
    <3>2. point[ConnRead] # "child"
      BY <1>1, Callers DEF ChainInv
    <3> QED BY <3>1, <3>2
  <2>2. point[ConnRead] \in {"free", "final"}
    BY <1>3, <2>1
  <2>3. stage'[ConnRead] = "post"
    BY <1>1, <1>7, <2>2 DEF ContextInv
  <2> QED BY <1>12, <2>1, <2>3 DEF ContextInv
<1>14. PeerInv' /\ Sent' = Sent
  BY <1>1, PeerStays DEF PeerInv
<1>15. CountInv'
  <2>1. Waiting = 0 /\ Waiting' = 0
    BY <1>12 DEF Waiting
  <2> QED BY <1>1, <1>7, <1>14, <2>1 DEF CountInv
<1>16. DoubledInv'
  <2>1. Len(ready') <= 1
    BY <1>5
  <2> QED BY <1>1, <1>5, <2>1 DEF DoubledInv, historyVars
<1> QED BY <1>6, <1>8, <1>9, <1>10, <1>11, <1>13, <1>14, <1>15, <1>16 DEF ReaderInv

(* RunNext ends the program's defined behaviour when ConnRead is done and  *)
(* was given a notification too many: its handle is still in the deque.    *)
LEMMA ResumeDone ==
  ASSUME ReaderInv, RunNext, point[ConnRead] = "final",
         NEW s \in Seq({ConnRead}), s # <<>>, ready = Append(s, Read),
         UNCHANGED <<readerVars, imms, requested, peerVars, historyVars>>
  PROVE  ReaderInv'
<1> USE Names
<1>1. FrameTypes /\ ChainInv /\ RunInv /\ ReadyInv /\ NicInv /\ ContextInv /\ PeerInv /\ CountInv
      /\ DoubledInv
  BY DEF ReaderInv
<1>2. PICK t : t = Tail(s)
  OBVIOUS
<1>3. Head(s) = ConnRead /\ t \in Seq({ConnRead}) /\ Len(s) \in Nat \ {0}
  BY <1>2, HeadTailProperties, EmptySeq
<1>4. /\ Head(ready) = ConnRead /\ Tail(ready) = Append(t, Read)
      /\ Append(t, Read) \in Seq(Handles) /\ Len(Append(t, Read)) \in Nat
      /\ Len(ready) = Len(s) + 1
  <2>1. Head(ready) = Head(s) /\ Tail(ready) = Append(t, Read)
    BY <1>2, HeadTailAppend
  <2>2. s \in Seq(Handles) /\ t \in Seq(Handles)
    BY <1>3
  <2>3. Append(t, Read) \in Seq(Handles) /\ Len(ready) = Len(s) + 1
    BY <2>2, AppendProperties
  <2> QED BY <1>3, <2>1, <2>3, LenProperties
<1>5. /\ phase' = "undefined" /\ cur = Null /\ ready' = Append(t, Read)
      /\ batch > 0 /\ batch' = batch - 1
      /\ UNCHANGED <<frameVars, state, cur, inflight, cq, stage, reads, immContext, imms>>
  BY <1>4 DEF RunNext, Resumable, fabricVars, readerVars
<1>6. ChainInv' /\ ContextInv' /\ PeerInv' /\ Sent' = Sent
  BY <1>1, <1>5, FramesStay DEF peerVars
<1>7. FrameTypes'
  <2>1. batch' \in Nat
    BY <1>1, <1>5 DEF FrameTypes
  <2>2. ready' \in Seq(Handles)
    BY <1>4, <1>5
  <2> QED BY <1>1, <1>5, <2>1, <2>2 DEF FrameTypes, frameVars
<1>8. UNCHANGED point
  BY <1>5 DEF frameVars
<1>9. RunInv'
  BY <1>1, <1>5, <1>8 DEF RunInv
<1>10. \A g \in Handles \ {ConnRead} : point[g] \in {"free", "child"}
  BY <1>1, OtherFrames DEF LeafPoints
<1>11. ReadyInv'
  <2>1. \E x \in Seq({ConnRead}) : ready' = Append(x, Caller(ConnRead)) /\ (x # <<>> => ConnRead = ConnRead)
    BY <1>3, <1>5, Callers
  <2> QED BY <1>5, <1>8, <1>10, <2>1 DEF ReadyInv, Caller
<1>12. NicInv'
  BY <1>1, <1>5, <1>8, <1>10 DEF NicInv
<1>13. immContext = Null
  BY <1>1 DEF ContextInv
<1>14. CountInv'
  <2>1. Waiting = 0 /\ Waiting' = 0
    BY <1>5, <1>13 DEF Waiting
  <2> QED BY <1>1, <1>5, <1>6, <2>1 DEF CountInv
<1>15. DoubledInv'
  <2>1. twice
    <3>1. Len(ready) <= 1 => FALSE
      BY <1>3, <1>4
    <3> QED BY <1>1, <3>1 DEF DoubledInv
  <2>2. twice' /\ point'[ConnRead] # "op"
    BY <1>8, <2>1 DEF historyVars
  <2> QED BY <1>1, <2>2 DEF DoubledInv, historyVars
<1> QED BY <1>6, <1>7, <1>9, <1>11, <1>12, <1>14, <1>15 DEF ReaderInv

(* The leaf is what RunNext resumes.                                       *)
LEMMA ResumeStep ==
  ASSUME ReaderInv, RunNext, UNCHANGED <<readerVars, imms, requested, peerVars, historyVars>>
  PROVE  ReaderInv'
<1> USE Names
<1>1. FrameTypes /\ ChainInv /\ RunInv /\ ReadyInv
  BY DEF ReaderInv
<1>2. PICK h \in Handles : point[h] \in LeafPoints
  BY <1>1, OneLeaf
<1>3. point[h] # "running" /\ ready # <<>>
  <2>1. cur = Null /\ batch > 0 /\ batch <= Len(ready)
    BY <1>1 DEF RunNext, RunInv
  <2>2. batch \in Nat /\ Len(<<>>) = 0
    BY <1>1 DEF FrameTypes
  <2> QED BY <1>1, <2>1, <2>2 DEF RunInv
<1>4. CASE point[h] \in {"initial", "op"}
  BY <1>4, ResumeLeaf
<1>5. CASE point[h] = "final"
  <2>1. h # Root
    BY <1>1, <1>3, <1>5 DEF ReadyInv
  <2>2. PICK s \in Seq({ConnRead}) : ready = Append(s, Caller(h)) /\ (s # <<>> => h = ConnRead)
    BY <1>1, <1>5, <2>1 DEF ReadyInv
  <2>3. CASE s = <<>>
    <3>1. ready = <<Caller(h)>>
      BY <2>2, <2>3
    <3> QED BY <1>5, <2>1, <3>1, ResumeCaller
  <2>4. CASE s # <<>>
    <3>1. h = ConnRead /\ ready = Append(s, Read)
      BY <2>2, <2>4, Callers
    <3> QED BY <1>5, <2>4, <3>1, ResumeDone
  <2> QED BY <2>3, <2>4
<1> QED BY <1>2, <1>3, <1>4, <1>5 DEF LeafPoints

(* The NIC completes Send's operation, with an entry or an error.          *)
LEMMA NicStep ==
  ASSUME ReaderInv, NEW h \in Handles, Complete(h) \/ CompleteError(h),
         UNCHANGED <<readerVars, imms, requested, peerVars, historyVars>>
  PROVE  ReaderInv'
<1> USE Names
<1>1. FrameTypes /\ ChainInv /\ RunInv /\ ReadyInv /\ NicInv /\ ContextInv /\ PeerInv /\ CountInv
      /\ DoubledInv
  BY DEF ReaderInv
<1>2. h = Send /\ inflight = {Send} /\ cq = <<>> /\ inflight' = {}
      /\ point[Send] = "op" /\ ready = <<>>
  BY <1>1 DEF Complete, CompleteError, FrameTypes, NicInv
<1>3. cq' = <<>> \/ cq' = <<Send>>
  <2>1. Append(<<>>, Send) = <<Send>>
    OBVIOUS
  <2> QED BY <1>2, <2>1 DEF Complete, CompleteError
<1>4. UNCHANGED <<frameVars, state, cur, raised, ready, batch, phase, stage, reads, immContext, imms>>
  BY DEF Complete, CompleteError, loopVars, readerVars
<1>5. ChainInv' /\ ContextInv' /\ PeerInv' /\ Sent' = Sent
  BY <1>1, <1>4, FramesStay DEF peerVars
<1>6. FrameTypes'
  <2>1. <<>> \in Seq(Handles) /\ <<Send>> \in Seq(Handles)
    OBVIOUS
  <2>2. cq' \in Seq(Handles)
    BY <1>3, <2>1
  <2> QED BY <1>1, <1>2, <1>4, <2>2 DEF FrameTypes, frameVars
<1>7. UNCHANGED point
  BY <1>4 DEF frameVars
<1>8. RunInv' /\ ReadyInv'
  BY <1>1, <1>4, <1>7 DEF RunInv, ReadyInv, Caller
<1>9. NicInv'
  BY <1>2, <1>3, <1>4, <1>7 DEF NicInv
<1>10. CountInv' /\ DoubledInv'
  BY <1>1, <1>4, <1>5, <1>7 DEF CountInv, DoubledInv, Waiting, historyVars
<1> QED BY <1>5, <1>6, <1>8, <1>9, <1>10 DEF ReaderInv

-----------------------------------------------------------------------------
(* The writer and the fabric move no frame of the reader; the steps that   *)
(* send no notification leave its part of the invariant alone.             *)
LEMMA PeerFrames ==
  ASSUME ReaderInv, UNCHANGED <<vars, readerVars, requested, historyVars>>
  PROVE  /\ FrameTypes' /\ ChainInv' /\ RunInv' /\ ReadyInv' /\ NicInv' /\ ContextInv'
         /\ DoubledInv'
         /\ UNCHANGED <<immContext, reads, ready, phase, point, state>> /\ Waiting' = Waiting
<1>1. FrameTypes /\ ChainInv /\ RunInv /\ ReadyInv /\ NicInv /\ ContextInv /\ DoubledInv
  BY DEF ReaderInv
<1>2. /\ UNCHANGED <<point, next, callee, owner, held, state, ready, phase, batch, cur, raised>>
      /\ UNCHANGED <<inflight, cq, stage, reads, immContext, dropped, twice>>
  BY DEF vars, frameVars, loopVars, fabricVars, readerVars, historyVars
<1>3. FrameTypes'
  BY <1>1, <1>2 DEF FrameTypes
<1>4. ChainInv' /\ RunInv' /\ NicInv'
  BY <1>1, <1>2 DEF ChainInv, RunInv, NicInv, Caller
<1>5. ReadyInv' /\ ContextInv'
  BY <1>1, <1>2 DEF ReadyInv, ContextInv, Caller
<1>6. Waiting' = Waiting
  BY <1>2 DEF Waiting
<1>7. DoubledInv'
  BY <1>1, <1>2 DEF DoubledInv
<1> QED BY <1>2, <1>3, <1>4, <1>5, <1>6, <1>7

LEMMA LastPage ==
  /\ NumPages - 1 \in Peer!Pages /\ Peer!Pages = 0 .. NumPages - 1 /\ Peer!Pages # {}
  /\ \A p \in Peer!Pages : p \in Nat
<1>1. NumPages \in Nat /\ NumPages # 0
  BY ReaderAssumption
<1>2. 0 \in 0 .. NumPages - 1 /\ NumPages - 1 \in 0 .. NumPages - 1
  BY ONLY <1>1
<1> QED BY <1>1, <1>2 DEF Peer!Pages

LEMMA NewRound ==
  ASSUME ReaderInv, Peer!StartRound, landed' = {},
         UNCHANGED <<vars, readerVars, requested, historyVars, imms, complete>>
  PROVE  ReaderInv'
<1>1. PeerInv /\ CountInv
  BY DEF ReaderInv
<1>2. landed = Peer!Pages
  BY <1>1 DEF PeerInv, Peer!StartRound
<1>3. /\ round' = round + 1 /\ round' \in 0 .. Repeat /\ round \in Nat
      /\ status' = [p \in Peer!Pages |-> "todo"] /\ failed' = failed
  BY <1>1, ReaderAssumption DEF PeerInv, Peer!StartRound
<1>4. landed' # Peer!Pages /\ NumPages - 1 \notin landed' /\ NumPages - 1 \in landed
  BY <1>2, LastPage
<1>5. PeerInv'
  <2>1. status' \in [Peer!Pages -> Peer!Statuses] /\ \A p \in Peer!Pages : status'[p] # "done"
    BY <1>3 DEF Peer!Statuses
  <2>2. complete' = round' - 1 /\ round' # 0
    BY <1>1, <1>2, <1>3 DEF PeerInv
  <2>3. failed' \in BOOLEAN /\ requested' \in BOOLEAN
    BY <1>1, <1>3 DEF PeerInv
  <2> QED BY <1>3, <1>4, <2>1, <2>2, <2>3 DEF PeerInv, Peer!Pages, Peer!Statuses
<1>6. CountInv'
  <2>1. Sent' = Sent
    BY <1>3, <1>4 DEF Sent
  <2> QED BY <1>1, <2>1, PeerFrames DEF CountInv
<1> QED BY <1>5, <1>6, PeerFrames DEF ReaderInv

LEMMA PageStep ==
  ASSUME ReaderInv, NEW p \in Peer!Pages,
         \/ Peer!Issue(p)
         \/ Peer!Post(p)
         \/ p \in landed /\ Peer!Complete(p),
         UNCHANGED <<vars, readerVars, requested, historyVars, imms, landed, complete>>
  PROVE  ReaderInv'
<1>1. PeerInv /\ CountInv
  BY DEF ReaderInv
<1>2. PICK s \in {"open", "wire", "done"} :
        /\ status' = [status EXCEPT ![p] = s]
        /\ s # "done" => p \notin landed
        /\ s = "done" => p \in landed
        /\ round' = round /\ failed' = failed
  BY <1>1 DEF Peer!Issue, Peer!Post, Peer!Complete, PeerInv
<1>3. PeerInv'
  <2>1. status' \in [Peer!Pages -> Peer!Statuses]
    BY <1>1, <1>2 DEF PeerInv, Peer!Statuses
  <2>2. \A q \in Peer!Pages : status'[q] = IF q = p THEN s ELSE status[q]
    BY <1>1, <1>2 DEF PeerInv
  <2>3. /\ \A q \in Peer!Pages : status'[q] = "done" => q \in landed'
        /\ \A q \in landed' : status'[q] \in {"wire", "done"}
    BY <1>1, <1>2, <2>2 DEF PeerInv
  <2> QED BY <1>1, <1>2, <2>1, <2>3 DEF PeerInv, Peer!Pages, Peer!Statuses
<1>4. CountInv'
  <2>1. Sent' = Sent
    BY <1>2 DEF Sent
  <2> QED BY <1>1, <2>1, PeerFrames DEF CountInv
<1> QED BY <1>3, <1>4, PeerFrames DEF ReaderInv

LEMMA LandStep ==
  ASSUME ReaderInv, NEW p \in Peer!Pages, Land(p),
         UNCHANGED <<vars, readerVars, requested, historyVars>>
  PROVE  ReaderInv'
<1>1. PeerInv /\ CountInv /\ ContextInv /\ DoubledInv /\ FrameTypes
  BY DEF ReaderInv
<1>2. /\ p \notin landed /\ landed' = landed \cup {p} /\ landed # Peer!Pages
      /\ status[p] = "wire"
      /\ UNCHANGED <<round, status, failed>>
      /\ complete' = IF landed' = Peer!Pages THEN complete + 1 ELSE complete
      /\ imms' = IF IsLast(p) THEN imms + 1 ELSE imms
      /\ IsLast(p) <=> p = NumPages - 1
  BY DEF Land, IsLast
<1>3. PeerInv'
  <2>1. complete = round - 1 /\ round # 0 /\ round \in Nat
    BY <1>1, <1>2 DEF PeerInv
  <2>2. complete' = IF landed' = Peer!Pages THEN round' ELSE round' - 1
    BY <1>2, <2>1
  <2>3. landed' \subseteq Peer!Pages
    BY <1>1, <1>2 DEF PeerInv
  <2>4. /\ \A q \in Peer!Pages : status'[q] = "done" => q \in landed'
        /\ \A q \in landed' : status'[q] \in {"wire", "done"}
    BY <1>1, <1>2 DEF PeerInv
  <2> QED BY <1>1, <1>2, <2>1, <2>2, <2>3, <2>4 DEF PeerInv, Peer!Pages, Peer!Statuses
<1>4. CountInv'
  <2>1. round \in Nat /\ Sent \in Int /\ imms \in Nat
    BY <1>1, ReaderAssumption DEF PeerInv, CountInv, Sent
  <2>2. CASE IsLast(p)
    <3>1. Sent' = Sent + 1 /\ imms' = imms + 1
      BY <1>2, <2>1, <2>2 DEF Sent
    <3>2. Waiting \in Nat
      BY <1>1, LenProperties DEF FrameTypes, Waiting
    <3> QED BY <1>1, <2>1, <3>1, <3>2, PeerFrames DEF CountInv
  <2>3. CASE ~IsLast(p)
    <3>1. Sent' = Sent /\ imms' = imms
      BY <1>2, <2>3 DEF Sent
    <3> QED BY <1>1, <3>1, PeerFrames DEF CountInv
  <2> QED BY <2>2, <2>3
<1> QED BY <1>3, <1>4, PeerFrames DEF ReaderInv

LEMMA PeerKeeps == ReaderInv /\ PeerNext => ReaderInv'
<1> SUFFICES ASSUME ReaderInv, PeerNext PROVE ReaderInv'
  OBVIOUS
<1>1. PeerStep /\ UNCHANGED <<vars, readerVars, requested, historyVars>>
  BY DEF PeerNext
<1>2. CASE Peer!StartRound /\ landed' = {} /\ UNCHANGED <<imms, complete>>
  BY <1>1, <1>2, NewRound
<1>3. ASSUME NEW p \in Peer!Pages,
             \/ Peer!Issue(p)
             \/ Peer!Post(p)
             \/ p \in landed /\ Peer!Complete(p),
             UNCHANGED <<imms, landed, complete>>
      PROVE  ReaderInv'
  BY <1>1, <1>3, PageStep
<1>4. ASSUME NEW p \in Peer!Pages, Land(p) PROVE ReaderInv'
  BY <1>1, <1>4, LandStep
<1> QED BY <1>1, <1>2, <1>3, <1>4 DEF PeerStep

-----------------------------------------------------------------------------
(* The steps of the coroutines, frame by frame.                            *)
LEMMA Entries ==
  Entry \in [Handles -> Stages] /\ Entry[ConnRead] = "post"
BY Names DEF Entry, Stages

LEMMA StartKeeps == ReaderInv /\ StartReader /\ UNCHANGED <<imms, peerVars, historyVars>> => ReaderInv'
<1> SUFFICES ASSUME ReaderInv, StartReader, UNCHANGED <<imms, peerVars, historyVars>> PROVE ReaderInv'
  OBVIOUS
<1> USE Names
<1>1. stage \in [Handles -> Stages] /\ UNCHANGED <<reads, immContext, requested>>
  BY DEF ReaderInv, FrameTypes, StartReader
<1>2. CASE OpenPeer
  BY <1>1, <1>2, OpenStep DEF OpenPeer, Goto
<1>3. ASSUME NEW c \in {Handshake, Read}, cur = Root, CallAwait(c),
             NEW s \in Stages, Goto(Root, s)
      PROVE  ReaderInv'
  <2>1. stage' \in [Handles -> Stages] /\ stage'[ConnRead] = stage[ConnRead]
    BY <1>1, <1>3 DEF Goto
  <2>2. c \in Handles \ {Root} /\ Caller(c) = cur
    BY <1>3, Callers
  <2> QED BY <1>1, <1>3, <2>1, <2>2, CallStep
<1>4. CASE At(Root, "end") /\ Ends(Root)
  <2>1. stage' \in [Handles -> Stages] /\ stage'[ConnRead] = stage[ConnRead] /\ cur # ConnRead
    BY <1>1, <1>4, Entries DEF Ends, Goto, At
  <2> QED BY <1>1, <1>4, <2>1, ReturnStep DEF Ends, Return, Active
<1>6. CASE cur = Root /\ BodyThrows
  BY <1>1, <1>6, ThrowStep DEF BodyThrows, readerVars
<1>5. "read" \in Stages /\ "end" \in Stages
  BY DEF Stages
<1> QED BY <1>2, <1>3, <1>4, <1>5, <1>6 DEF StartReader, At

LEMMA HandshakeKeeps == ReaderInv /\ HandshakeStep /\ UNCHANGED <<imms, peerVars, historyVars>> => ReaderInv'
<1> SUFFICES ASSUME ReaderInv, HandshakeStep, UNCHANGED <<imms, peerVars, historyVars>> PROVE ReaderInv'
  OBVIOUS
<1> USE Names
<1>1. stage \in [Handles -> Stages] /\ UNCHANGED <<reads, immContext, requested>>
  BY DEF ReaderInv, FrameTypes, HandshakeStep
<1>2. CASE At(Handshake, "send") /\ CallAwait(Send) /\ Goto(Handshake, "end")
  <2>1. stage' \in [Handles -> Stages] /\ stage'[ConnRead] = stage[ConnRead]
    BY <1>1, <1>2 DEF Goto, Stages
  <2>2. Send \in Handles \ {Root} /\ Caller(Send) = cur
    BY <1>2, Callers DEF At
  <2> QED BY <1>1, <1>2, <2>1, <2>2, CallStep
<1>3. CASE At(Handshake, "end") /\ Ends(Handshake)
  <2>1. stage' \in [Handles -> Stages] /\ stage'[ConnRead] = stage[ConnRead] /\ cur # ConnRead
    BY <1>1, <1>3, Entries DEF Ends, Goto, At
  <2> QED BY <1>1, <1>3, <2>1, ReturnStep DEF Ends, Return, Active
<1>4. CASE At(Handshake, "end") /\ BodyThrows
  BY <1>1, <1>4, ThrowStep DEF BodyThrows, readerVars, At
<1> QED BY <1>2, <1>3, <1>4 DEF HandshakeStep

LEMMA SendKeeps == ReaderInv /\ SendStep /\ UNCHANGED <<imms, peerVars, historyVars>> => ReaderInv'
<1> SUFFICES ASSUME ReaderInv, SendStep, UNCHANGED <<imms, peerVars, historyVars>> PROVE ReaderInv'
  OBVIOUS
<1> USE Names
<1>1. stage \in [Handles -> Stages] /\ UNCHANGED <<reads, immContext>>
  BY DEF ReaderInv, FrameTypes, SendStep
<1>2. CASE At(Send, "post") /\ PostOp /\ Goto(Send, "posted") /\ requested' = TRUE
  <2>1. PICK h \in {Send, ConnRead} : h = Send
    OBVIOUS
  <2>2. /\ cur = h /\ Active /\ stage[h] = "post" /\ cur' = Null
        /\ state' = [state EXCEPT ![h] = "kSuspend"] /\ point' = [point EXCEPT ![h] = "op"]
        /\ stage' = [stage EXCEPT ![h] = "posted"]
        /\ UNCHANGED <<callee, owner, next, held, ready, phase, batch, cq>>
    BY <1>2, <2>1 DEF At, PostOp, Goto
  <2>3. inflight' = IF h = Send THEN inflight \cup {h} ELSE inflight
    BY <1>2, <2>1, <2>2 DEF PostOp
  <2>4. immContext' = IF h = ConnRead /\ immContext = Null THEN h ELSE immContext
    BY <1>1, <2>1
  <2>5. requested' \in BOOLEAN
    BY <1>2
  <2> QED BY <1>1, <2>2, <2>3, <2>4, <2>5, SuspendStep
<1>3. CASE At(Send, "posted") /\ Ends(Send) /\ UNCHANGED requested
  <2>1. stage' \in [Handles -> Stages] /\ stage'[ConnRead] = stage[ConnRead] /\ cur # ConnRead
    BY <1>1, <1>3, Entries DEF Ends, Goto, At
  <2> QED BY <1>1, <1>3, <2>1, ReturnStep DEF Ends, Return, Active
<1>4. CASE At(Send, "post") /\ PostRefused /\ UNCHANGED <<stage, requested>>
  BY <1>1, <1>4, ThrowStep DEF readerVars, At
<1>5. CASE At(Send, "posted") /\ BodyThrows /\ UNCHANGED requested
  BY <1>1, <1>5, ThrowStep DEF BodyThrows, readerVars, At
<1> QED BY <1>2, <1>3, <1>4, <1>5 DEF SendStep

LEMMA ReadKeeps == ReaderInv /\ ReadStep /\ UNCHANGED <<imms, peerVars, historyVars>> => ReaderInv'
<1> SUFFICES ASSUME ReaderInv, ReadStep, UNCHANGED <<imms, peerVars, historyVars>> PROVE ReaderInv'
  OBVIOUS
<1> USE Names
<1>1. stage \in [Handles -> Stages] /\ cur = Read /\ UNCHANGED <<reads, immContext, requested>>
  BY DEF ReaderInv, FrameTypes, ReadStep, At, readerVars
<1>2. CASE CallAwait(ConnRead) /\ UNCHANGED <<readerVars, requested>>
  <2>1. stage' \in [Handles -> Stages] /\ stage'[ConnRead] = stage[ConnRead]
    BY <1>1, <1>2 DEF readerVars
  <2>2. ConnRead \in Handles \ {Root} /\ Caller(ConnRead) = cur
    BY <1>1, Callers
  <2> QED BY <1>1, <1>2, <2>1, <2>2, CallStep
<1>3. CASE Ends(Read)
  <2>1. stage' \in [Handles -> Stages] /\ stage'[ConnRead] = stage[ConnRead] /\ cur # ConnRead
    BY <1>1, <1>3, Entries DEF Ends, Goto
  <2> QED BY <1>1, <1>3, <2>1, ReturnStep DEF Ends, Return, Active
<1> QED BY <1>2, <1>3 DEF ReadStep

LEMMA ImmKeeps ==
  ReaderInv /\ (RegisterImm \/ UnRegisterImm) /\ UNCHANGED <<imms, peerVars, historyVars>> => ReaderInv'
<1> SUFFICES ASSUME ReaderInv, RegisterImm \/ UnRegisterImm, UNCHANGED <<imms, peerVars, historyVars>>
             PROVE  ReaderInv'
  OBVIOUS
<1> USE Names
<1>1. stage \in [Handles -> Stages] /\ requested \in BOOLEAN
  BY DEF ReaderInv, FrameTypes, PeerInv
<1>2. CASE RegisterImm
  <2>1. PICK h \in {Send, ConnRead} : h = ConnRead
    OBVIOUS
  <2>2. /\ cur = h /\ Active /\ stage[h] = "post" /\ cur' = Null
        /\ state' = [state EXCEPT ![h] = "kSuspend"] /\ point' = [point EXCEPT ![h] = "op"]
        /\ stage' = [stage EXCEPT ![h] = "posted"]
        /\ UNCHANGED <<callee, owner, next, held, ready, phase, batch, cq, reads, requested>>
    BY <1>2, <2>1 DEF At, RegisterImm, Goto, fabricVars
  <2>3. inflight' = IF h = Send THEN inflight \cup {h} ELSE inflight
    BY <1>2, <2>1 DEF RegisterImm, fabricVars
  <2>4. immContext' = IF h = ConnRead /\ immContext = Null THEN h ELSE immContext
    BY <1>2, <2>1 DEF RegisterImm
  <2>5. requested' \in BOOLEAN
    BY <1>1, <2>2
  <2> QED BY <2>2, <2>3, <2>4, <2>5, SuspendStep
<1>3. CASE UnRegisterImm
  <2>1. /\ cur = ConnRead /\ stage[ConnRead] = "posted" /\ Return
        /\ stage' = [stage EXCEPT ![ConnRead] = "post"]
        /\ immContext' = Null /\ reads' = reads + 1 /\ UNCHANGED requested
    BY <1>3, Entries DEF UnRegisterImm, Ends, Goto, At
  <2>2. stage' \in [Handles -> Stages] /\ stage'[ConnRead] = "post"
    BY <1>1, <2>1 DEF Stages
  <2> QED BY <2>1, <2>2, ReturnStep DEF Return, Active
<1> QED BY <1>2, <1>3

(* Only frames that do not hold the context unwind.                        *)
LEMMA UnwindKeeps ==
  ReaderInv /\ Unwind /\ UNCHANGED <<readerVars, requested, imms, peerVars, historyVars>> => ReaderInv'
<1> SUFFICES ASSUME ReaderInv, Unwind,
                    UNCHANGED <<readerVars, requested, imms, peerVars, historyVars>>
             PROVE  ReaderInv'
  OBVIOUS
<1>1. Running /\ Finish("exception") /\ cur # ConnRead
  BY DEF Unwind, ReaderInv, RunInv
<1>2. stage' \in [Handles -> Stages] /\ stage'[ConnRead] = stage[ConnRead]
  BY DEF ReaderInv, FrameTypes, readerVars
<1> QED BY <1>1, <1>2, ReturnStep DEF readerVars

LEMMA LoopKeeps == ReaderInv /\ ReaderLoop => ReaderInv'
<1> SUFFICES ASSUME ReaderInv, ReaderLoop PROVE ReaderInv'
  OBVIOUS
<1>1. UNCHANGED <<readerVars, requested, peerVars>>
  BY DEF ReaderLoop
<1>2. CASE \/ Select /\ UNCHANGED <<imms, historyVars>>
           \/ SelectRemote
  BY <1>1, <1>2, SelectStep
<1>3. CASE (Stop \/ SelectError \/ StartBatch \/ EndBatch) /\ UNCHANGED <<imms, historyVars>>
  BY <1>1, <1>3, QuietStep
<1>4. CASE RunNext /\ UNCHANGED <<imms, historyVars>>
  BY <1>1, <1>4, ResumeStep
<1> QED BY <1>2, <1>3, <1>4 DEF ReaderLoop, PlainLoop

LEMMA NicKeeps == ReaderInv /\ ReaderNic => ReaderInv'
<1> SUFFICES ASSUME ReaderInv, ReaderNic PROVE ReaderInv'
  OBVIOUS
<1>1. PICK h \in Handles : Complete(h) \/ CompleteError(h)
  BY DEF ReaderNic, Nic
<1> QED BY <1>1, NicStep DEF ReaderNic

LEMMA StutterKeeps == ReaderInv /\ UNCHANGED allVars => ReaderInv'
<1> SUFFICES ASSUME ReaderInv, UNCHANGED allVars PROVE ReaderInv'
  OBVIOUS
<1>1. UNCHANGED <<vars, readerVars, requested, historyVars, imms, peerVars>>
  BY DEF allVars, peerVars
<1>2. PeerInv' /\ CountInv'
  <2>1. PeerInv /\ CountInv /\ requested' \in BOOLEAN
    BY <1>1 DEF ReaderInv, PeerInv
  <2>2. PeerInv' /\ Sent' = Sent /\ Waiting' = Waiting
    BY <1>1, <2>1, PeerStays, PeerFrames
  <2> QED BY <1>1, <2>1, <2>2, PeerFrames DEF CountInv
<1> QED BY <1>1, <1>2, PeerFrames DEF ReaderInv

LEMMA NextReaderInv == ReaderInv /\ [ReaderNext]_allVars => ReaderInv'
<1>1. ReaderInv /\ ReaderStep => ReaderInv'
  BY StartKeeps, HandshakeKeeps, SendKeeps, ReadKeeps, ImmKeeps, UnwindKeeps DEF ReaderStep
<1> QED BY <1>1, LoopKeeps, NicKeeps, PeerKeeps, StutterKeeps DEF ReaderNext

LEMMA ReaderInvHolds == ReaderSpec => []ReaderInv
  BY InitReaderInv, NextReaderInv, PTL DEF ReaderSpec

-----------------------------------------------------------------------------
(* With one write open at a time the pages of a round land in order.       *)
LEMMA NoneOpen ==
  ASSUME Window = 1, NEW p \in Peer!Pages, Peer!Issue(p)
  PROVE  \A q \in Peer!Pages : status[q] \notin {"open", "wire"}
<1> DEFINE b == NumPages - 1
<1>1. IsFiniteSet(0 .. b)
  <2>1. 0 \in Int /\ b \in Int
    BY ReaderAssumption
  <2> HIDE DEF b
  <2> QED BY <2>1, FS_Interval
<1>2. Peer!Outstanding \subseteq Peer!Pages /\ Peer!Pages = 0 .. b
  BY DEF Peer!Outstanding, Peer!Pages
<1>3. IsFiniteSet(Peer!Outstanding)
  BY <1>1, <1>2, FS_Subset
<1>4. Cardinality(Peer!Outstanding) \in Nat /\ Cardinality(Peer!Outstanding) < 1
  <2>1. Peer!Cardinality(Peer!Outstanding) = Cardinality(Peer!Outstanding)
    BY DEF Peer!Cardinality, Cardinality
  <2>2. Peer!Cardinality(Peer!Outstanding) < Window
    BY DEF Peer!Issue
  <2> QED BY <1>3, <2>1, <2>2, FS_CardinalityType
<1>5. Peer!Outstanding = {}
  <2>1. Cardinality(Peer!Outstanding) = 0
    BY <1>4
  <2> QED BY <1>3, <2>1, FS_EmptySet
<1> QED BY <1>5 DEF Peer!Outstanding

LEMMA InitOrder == ReaderInit => OrderInv
<1> SUFFICES ASSUME ReaderInit PROVE OrderInv
  OBVIOUS
<1>1. status = [p \in Peer!Pages |-> "done"] /\ landed = Peer!Pages
  BY DEF ReaderInit, Peer!Init
<1> QED BY <1>1 DEF OrderInv

LEMMA NextOrder ==
  ASSUME Window = 1
  PROVE  ReaderInv /\ OrderInv /\ [ReaderNext]_allVars => OrderInv'
<1> SUFFICES ASSUME ReaderInv, OrderInv, [ReaderNext]_allVars PROVE OrderInv'
  OBVIOUS
<1>1. PeerInv
  BY DEF ReaderInv
<1>2. Peer!Pages' = Peer!Pages /\ \A p \in Peer!Pages : p \in Nat /\ p <= NumPages - 1
  BY ReaderAssumption DEF Peer!Pages
<1>3. ASSUME UNCHANGED <<status, landed>> PROVE OrderInv'
  BY <1>2, <1>3 DEF OrderInv
<1>4. CASE Peer!StartRound /\ landed' = {}
  <2>1. status' = [p \in Peer!Pages |-> "todo"] /\ landed' = {}
    BY <1>4 DEF Peer!StartRound
  <2> QED BY <1>2, <2>1 DEF OrderInv
<1>5. ASSUME NEW p \in Peer!Pages, Peer!Issue(p), UNCHANGED landed PROVE OrderInv'
  <2>1. status' = [status EXCEPT ![p] = "open"] /\ \A q \in 0 .. p - 1 : status[q] # "todo"
    BY <1>5 DEF Peer!Issue
  <2>2. \A q \in Peer!Pages : q < p => status[q] # "todo"
    BY <1>2, <2>1
  <2>3. \A q \in Peer!Pages : status'[q] = IF q = p THEN "open" ELSE status[q]
    BY <1>1, <2>1 DEF PeerInv
  <2>4. \A q \in Peer!Pages : status[q] \notin {"open", "wire"}
    BY <1>5, NoneOpen
  <2> QED BY <1>2, <1>5, <2>2, <2>3, <2>4 DEF OrderInv
<1>6. ASSUME NEW p \in Peer!Pages, Peer!Post(p) \/ Peer!Complete(p), UNCHANGED landed
      PROVE  OrderInv'
  <2>1. PICK s \in {"wire", "done"} : status' = [status EXCEPT ![p] = s] /\ status[p] \in {"open", "wire"}
    BY <1>6 DEF Peer!Post, Peer!Complete
  <2>2. \A q \in Peer!Pages : status'[q] = IF q = p THEN s ELSE status[q]
    BY <1>1, <2>1 DEF PeerInv
  <2> QED BY <1>2, <1>6, <2>1, <2>2 DEF OrderInv
<1>7. ASSUME NEW p \in Peer!Pages, Land(p) PROVE OrderInv'
  <2>1. /\ status[p] = "wire" /\ p \notin landed /\ landed' = landed \cup {p}
        /\ UNCHANGED status
    BY <1>7 DEF Land
  <2>2. NumPages - 1 \in landed' => landed' = Peer!Pages
    <3>1. CASE NumPages - 1 \in landed
      BY <2>1, <3>1 DEF OrderInv
    <3>2. CASE p = NumPages - 1
      <4>1. ASSUME NEW q \in Peer!Pages \ {p} PROVE q \in landed
        <5>1. q < p /\ status[q] # "todo" /\ status[q] \notin {"open", "wire"}
          BY <1>2, <2>1, <3>2 DEF OrderInv
        <5>2. status[q] \in {"todo", "open", "wire", "done"}
          BY <1>1 DEF PeerInv, Peer!Statuses
        <5> QED BY <1>1, <5>1, <5>2 DEF PeerInv
      <4> QED BY <1>1, <2>1, <4>1 DEF PeerInv
    <3> QED BY <2>1, <3>1, <3>2
  <2> QED BY <1>2, <2>1, <2>2 DEF OrderInv
<1>8. ReaderStep \/ ReaderLoop \/ ReaderNic \/ UNCHANGED allVars => UNCHANGED <<status, landed>>
  BY DEF ReaderStep, ReaderLoop, ReaderNic, allVars, peerVars
<1> QED BY <1>3, <1>4, <1>5, <1>6, <1>7, <1>8 DEF ReaderNext, PeerNext, PeerStep

-----------------------------------------------------------------------------
(* Every variable of the reader and of its peer has its type.  What takes  *)
(* the invariant is the bound on the counters: the reader is not given     *)
(* more notifications than the writer has rounds, although the selector    *)
(* may queue its handle many times for one context.                        *)
THEOREM ReaderTypeCorrect == ReaderSpec => []ReaderTypeOK
<1>1. ReaderInv => ReaderTypeOK
  <2> SUFFICES ASSUME ReaderInv PROVE ReaderTypeOK
    OBVIOUS
  <2>1. FrameTypes /\ ContextInv /\ PeerInv /\ CountInv
    BY DEF ReaderInv
  <2>2. round \in Nat /\ Repeat \in Nat /\ round <= Repeat /\ Sent <= Repeat /\ Sent \in Int
    BY <2>1, ReaderAssumption DEF PeerInv, Sent
  <2>3. Waiting \in Nat
    BY <2>1, LenProperties DEF FrameTypes, Waiting
  <2>4. reads \in 0 .. Repeat /\ imms \in 0 .. Repeat
    BY <2>1, <2>2, <2>3 DEF CountInv
  <2>5. complete \in 0 .. Repeat
    BY <2>1, <2>2 DEF PeerInv
  <2>6. Peer!WindowTypeOK
    BY <2>1 DEF PeerInv, Peer!WindowTypeOK
  <2>7. immContext \in {Null, ConnRead} /\ stage \in [Handles -> Stages]
    BY <2>1 DEF ContextInv, FrameTypes
  <2>8. landed \subseteq Peer!Pages /\ requested \in BOOLEAN /\ dropped \in BOOLEAN /\ twice \in BOOLEAN
    BY DEF ReaderInv, PeerInv, DoubledInv
  <2> QED BY <2>4, <2>5, <2>6, <2>7, <2>8 DEF ReaderTypeOK, Stages
<1> QED BY <1>1, ReaderInvHolds, PTL

(* The context that imm_data_contexts_ holds for the immediate data is     *)
(* that of a frame that is suspended in conn_->Read or runs after it:      *)
(* Selector::HandleCompletion never calls a handle that has been freed.    *)
THEOREM ContextStaysAlive == ReaderSpec => []ContextAlive
<1>1. ReaderInv => ContextAlive
  BY Names DEF ReaderInv, ContextInv, ContextAlive
<1> QED BY <1>1, ReaderInvHolds, PTL

(* As long as the selector does not read two notifications at once no      *)
(* coroutine is resumed at a suspend point it has left, whichever calls of *)
(* the handshake are refused or fail: the deque holds one handle at most,  *)
(* and a pass of Runone empties it before the next read.                   *)
THEOREM OnlyDoubledIsUndefined == ReaderSpec => []OnlyDoubled
<1>1. ReaderInv => OnlyDoubled
  BY DEF ReaderInv, DoubledInv, OnlyDoubled
<1> QED BY <1>1, ReaderInvHolds, PTL

(* A writer that waits for each write before it posts the next, as the one *)
(* of dmabuf and affinity does, makes a notification mean what the README  *)
(* says: the k-th conn_->Read returns after k rounds are entirely in the   *)
(* reader's memory, in whatever order the fabric lands the writes.  A      *)
(* wider window, as batch has, breaks it (run reader_early).               *)
THEOREM NotifiedWritten == Window = 1 => (ReaderSpec => []NotifiedMeansWritten)
<1> SUFFICES ASSUME Window = 1 PROVE ReaderSpec => []NotifiedMeansWritten
  OBVIOUS
<1>1. ReaderInv /\ OrderInv => NotifiedMeansWritten
  <2> SUFFICES ASSUME ReaderInv, OrderInv PROVE NotifiedMeansWritten
    OBVIOUS
  <2>1. FrameTypes /\ PeerInv /\ CountInv
    BY DEF ReaderInv
  <2>2. Waiting \in Nat /\ round \in Int
    BY <2>1, LenProperties DEF FrameTypes, Waiting, PeerInv
  <2>3. Sent = complete
    BY <2>1, LastPage DEF PeerInv, OrderInv, Sent
  <2>4. complete \in Int
    BY <2>1, <2>2 DEF PeerInv
  <2> QED BY <2>1, <2>2, <2>3, <2>4 DEF CountInv, NotifiedMeansWritten
<1>2. ReaderSpec => []OrderInv
  <2>1. ReaderInv /\ OrderInv /\ [ReaderNext]_allVars => OrderInv'
    BY NextOrder
  <2> QED BY <2>1, InitOrder, ReaderInvHolds, PTL DEF ReaderSpec
<1> QED BY <1>1, <1>2, ReaderInvHolds, PTL

=============================================================================
