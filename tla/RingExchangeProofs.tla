-------------------------- MODULE RingExchangeProofs --------------------------
(***************************************************************************)
(* The ring of efa/main.cc is right for every number of ranks.             *)
(***************************************************************************)
EXTENDS RingExchange, TLAPS

-----------------------------------------------------------------------------
(* The ring: (rank + 1) % world_size is a rank, and no two ranks have the  *)
(* same successor.                                                         *)
LEMMA RingOrder ==
  ASSUME NEW r \in Ranks
  PROVE  IF r = WorldSize - 1 THEN Dst(r) = 0 ELSE Dst(r) = r + 1
<1>1. r \in Nat /\ r <= WorldSize - 1 /\ WorldSize \in Nat /\ WorldSize > 0
  BY RingAssumption DEF Ranks
<1>2. CASE r = WorldSize - 1
  <2>1. WorldSize % WorldSize = 0
    BY <1>1
  <2> QED BY <1>1, <1>2, <2>1 DEF Dst
<1>3. CASE r # WorldSize - 1
  <2>1. r + 1 \in Nat /\ r + 1 < WorldSize
    BY <1>1, <1>3
  <2>2. (r + 1) % WorldSize = r + 1
    BY <1>1, <2>1
  <2> QED BY <1>3, <2>2 DEF Dst
<1> QED BY <1>2, <1>3

LEMMA BackInRing ==
  ASSUME NEW r \in Ranks
  PROVE  IF r = 0 THEN Pred(r) = WorldSize - 1 ELSE Pred(r) = r - 1
<1>1. r \in Nat /\ r <= WorldSize - 1 /\ WorldSize \in Nat /\ WorldSize > 0
  BY RingAssumption DEF Ranks
<1>2. CASE r = 0
  <2>1. (WorldSize - 1) % WorldSize = WorldSize - 1
    BY <1>1
  <2> QED BY <1>1, <1>2, <2>1 DEF Pred
<1>3. CASE r # 0
  <2>1. r - 1 \in Nat /\ r - 1 < WorldSize
    BY <1>1, <1>3
  <2>2. ((r - 1) + WorldSize) % WorldSize = r - 1
    BY <1>1, <2>1
  <2>3. r + WorldSize - 1 = (r - 1) + WorldSize
    BY <1>1
  <2> QED BY <1>3, <2>2, <2>3 DEF Pred
<1> QED BY <1>2, <1>3

LEMMA RingFacts ==
  /\ \A r \in Ranks : Dst(r) \in Ranks
  /\ \A r, q \in Ranks : Dst(r) = Dst(q) => r = q
  /\ \A r, q \in Ranks : Dst(q) = r => q = Pred(r)
<1> USE RingAssumption DEF Ranks
<1>1. ASSUME NEW r \in Ranks PROVE Dst(r) \in Ranks
  BY RingOrder
<1>2. ASSUME NEW r \in Ranks, NEW q \in Ranks, Dst(r) = Dst(q) PROVE r = q
  BY <1>2, RingOrder
<1>3. ASSUME NEW r \in Ranks, NEW q \in Ranks, Dst(q) = r PROVE q = Pred(r)
  BY <1>3, RingOrder, BackInRing
<1> QED BY <1>1, <1>2, <1>3

-----------------------------------------------------------------------------
(* Why the properties hold: a message is on its way only until it arrives, *)
(* whether its sender has failed by then or not, and a receiver who is     *)
(* matched has the one message that could still have come to it.           *)
Addressed == /\ \A m \in wire \cup early : m.to = Dst(m.from)
             /\ \A m \in wire : /\ stage[m.from] \in {"sending", "failed"}
                                /\ m.from \notin sent
             /\ \A m \in early : m.from \in sent

Matched == \A r \in Ranks : rbuf[r] # None => /\ rbuf[r] \in sent
                                             /\ Dst(rbuf[r]) = r

Gathered == \A q \in Ranks : endpoint[q] # "none"

Staged ==
  /\ \A r \in Ranks :
       /\ stage[r] \in {"send", "sending", "receiving", "done"} => Gathered
       /\ endpoint[r] = "closed" => stage[r] \in {"done", "failed"}
       /\ stage[r] = "done" => rbuf[r] # None
       /\ r \in sent => stage[r] \in {"sending", "receiving", "done", "failed"}
  /\ wire # {} => Gathered

Unkept == ~keeps => /\ sent = {}
                    /\ \A r \in Ranks : stage[r] \notin {"receiving", "done"}

RingInv == RingTypeOK /\ Addressed /\ Matched /\ Staged /\ Unkept

LEMMA InitRing == RingInit => RingInv
BY RingAssumption DEF RingInit, RingInv, RingTypeOK, Addressed, Matched, Staged,
                      Gathered, Unkept, Stages

LEMMA StepRing == RingInv /\ [RingNext]_ringVars => RingInv'
<1> SUFFICES ASSUME RingInv, [RingNext]_ringVars PROVE RingInv'
  OBVIOUS
<1> USE DEF RingInv
<1>0. \A r \in Ranks : Dst(r) \in Ranks
  BY RingFacts
<1>1. ASSUME NEW r \in Ranks, OpenNet(r) PROVE RingInv'
  <2>1. RingTypeOK' /\ Addressed'
    BY <1>1 DEF OpenNet, RingTypeOK, Addressed, Messages, Stages
  <2>2. Matched' /\ Unkept'
    BY <1>1 DEF OpenNet, RingTypeOK, Matched, Unkept
  <2>3. Staged'
    BY <1>1 DEF OpenNet, RingTypeOK, Staged, Gathered
  <2> QED BY <2>1, <2>2, <2>3
<1>2. ASSUME NEW r \in Ranks, AllGatherAddr(r) PROVE RingInv'
  <2>1. RingTypeOK' /\ Addressed'
    BY <1>2 DEF AllGatherAddr, RingTypeOK, Addressed, Messages, Stages
  <2>2. Matched' /\ Unkept'
    BY <1>2 DEF AllGatherAddr, RingTypeOK, Matched, Unkept
  <2>3. Staged'
    BY <1>2 DEF AllGatherAddr, RingTypeOK, Staged, Gathered
  <2> QED BY <2>1, <2>2, <2>3
<1>3. ASSUME NEW r \in Ranks, PostSend(r) PROVE RingInv'
  <2>1. r \notin sent
    BY <1>3 DEF PostSend, Staged
  <2>2. RingTypeOK'
    BY <1>0, <1>3 DEF PostSend, RingTypeOK, Messages, Stages
  <2>3. Addressed'
    BY <1>0, <1>3, <2>1 DEF PostSend, RingTypeOK, Addressed, Messages
  <2>4. Matched' /\ Unkept'
    BY <1>3 DEF PostSend, RingTypeOK, Matched, Unkept
  <2>5. Staged'
    BY <1>3 DEF PostSend, RingTypeOK, Staged, Gathered
  <2> QED BY <2>2, <2>3, <2>4, <2>5
<1>4. ASSUME NEW r \in Ranks, PostRecv(r) PROVE RingInv'
  <2>1. RingTypeOK'
    BY <1>4 DEF PostRecv, RingTypeOK, Messages, Stages
  <2>2. Addressed'
    BY <1>4 DEF PostRecv, RingTypeOK, Addressed, Messages
  <2>3. Matched'
    BY <1>4 DEF PostRecv, RingTypeOK, Addressed, Matched, Messages
  <2>4. Staged'
    BY <1>4 DEF PostRecv, RingTypeOK, Staged, Gathered
  <2>5. Unkept'
    BY <1>4 DEF PostRecv, RingTypeOK, Unkept
  <2> QED BY <2>1, <2>2, <2>3, <2>4, <2>5
<1>5. ASSUME NEW r \in Ranks, Finish(r) PROVE RingInv'
  <2>1. RingTypeOK' /\ Addressed'
    BY <1>5 DEF Finish, RingTypeOK, Addressed, Messages, Stages
  <2>2. Matched'
    BY <1>5 DEF Finish, Matched
  <2>3. Staged'
    BY <1>5 DEF Finish, RingTypeOK, Staged, Gathered
  <2>4. Unkept'
    BY <1>5 DEF Finish, RingTypeOK, Unkept
  <2> QED BY <2>1, <2>2, <2>3, <2>4
<1>6. ASSUME NEW m \in wire, Arrive(m) PROVE RingInv'
  <2>1. m \in Messages /\ m.from \in Ranks /\ m.to \in Ranks
    BY DEF RingTypeOK, Messages
  <2>2. /\ stage[m.from] \in {"sending", "failed"}
        /\ m.from \notin sent
        /\ m.to = Dst(m.from)
    BY DEF Addressed
  <2>3. \A n \in wire : n.from = m.from => n = m
    BY <2>1 DEF Addressed, RingTypeOK, Messages
  <2>4. RingTypeOK'
    BY <1>6, <2>1 DEF Arrive, RingTypeOK
  <2>5. Addressed'
    BY <1>6, <2>1, <2>2, <2>3 DEF Arrive, RingTypeOK, Addressed, Messages
  <2>6. Matched'
    BY <1>6, <2>1, <2>2 DEF Arrive, RingTypeOK, Matched
  <2>7. Staged'
    BY <1>6, <2>1, <2>2 DEF Arrive, RingTypeOK, Staged, Gathered
  <2>8. Unkept'
    <3>1. stage[m.to] = "receiving" => keeps
      BY <2>1 DEF Unkept
    <3>2. keeps /\ UNCHANGED <<stage, keeps>>
      BY <1>6, <3>1 DEF Arrive
    <3> QED BY <3>2 DEF Unkept
  <2> QED BY <2>4, <2>5, <2>6, <2>7, <2>8
<1>7. ASSUME NEW r \in Ranks, OpenFails(r) PROVE RingInv'
  <2>1. RingTypeOK' /\ Addressed'
    BY <1>7 DEF OpenFails, RingTypeOK, Addressed, Messages, Stages
  <2>2. Matched' /\ Unkept'
    BY <1>7 DEF OpenFails, RingTypeOK, Matched, Unkept
  <2>3. Staged'
    BY <1>7 DEF OpenFails, RingTypeOK, Staged, Gathered
  <2> QED BY <2>1, <2>2, <2>3
<1>8. ASSUME NEW r \in Ranks, Fail(r) PROVE RingInv'
  <2>1. wire' \subseteq wire /\ early' \subseteq early
    BY <1>8 DEF Fail
  <2>2. RingTypeOK'
    BY <1>8, <2>1 DEF Fail, RingTypeOK, Stages
  <2>3. Addressed'
    BY <1>8, <2>1 DEF Fail, RingTypeOK, Addressed, Messages
  <2>4. Matched' /\ Unkept'
    BY <1>8 DEF Fail, RingTypeOK, Matched, Unkept
  <2>5. Staged'
    BY <1>8, <2>1 DEF Fail, RingTypeOK, Staged, Gathered
  <2> QED BY <2>2, <2>3, <2>4, <2>5
<1>9. CASE UNCHANGED ringVars
  BY <1>9 DEF ringVars, RingTypeOK, Addressed, Matched, Staged, Gathered, Unkept
<1> QED
  BY <1>1, <1>2, <1>3, <1>4, <1>5, <1>6, <1>7, <1>8, <1>9 DEF RingNext, RankStep

LEMMA RingInvariant == RingSpec => []RingInv
BY InitRing, StepRing, PTL DEF RingSpec

(* The variables of the ring keep their types.                             *)
THEOREM RingTyped == RingSpec => []RingTypeOK
<1>1. RingInv => RingTypeOK
  BY DEF RingInv
<1> QED BY <1>1, RingInvariant, PTL

(* However many ranks there are and in whatever order they run, each gets  *)
(* the message of its predecessor: of the senders only that one has it as  *)
(* its successor.                                                          *)
THEOREM RingSound == RingSpec => []FromPredecessor
<1>1. RingInv => FromPredecessor
  BY RingFacts DEF RingInv, RingTypeOK, Matched, FromPredecessor
<1> QED BY <1>1, RingInvariant, PTL

(* Whatever calls fail on whatever ranks, a message is left on its way only*)
(* to a rank that failed: one that ended well has received, from the only  *)
(* rank that sends to it, whose message has thus arrived.                  *)
THEOREM RingClosesLate == RingSpec => []NoStray
<1>1. RingInv => NoStray
  <2> SUFFICES ASSUME RingInv, NEW m \in wire
               PROVE  /\ endpoint[m.to] # "none"
                      /\ endpoint[m.to] = "closed" => stage[m.to] = "failed"
    BY DEF NoStray
  <2>1. m.from \in Ranks /\ m.to \in Ranks /\ m.to = Dst(m.from)
    BY DEF RingInv, RingTypeOK, Addressed, Messages
  <2>2. m.from \notin sent
    BY DEF RingInv, Addressed
  <2>3. endpoint[m.to] # "none"
    BY <2>1 DEF RingInv, Staged, Gathered
  <2>4. stage[m.to] # "done"
    <3> SUFFICES ASSUME stage[m.to] = "done" PROVE FALSE
      OBVIOUS
    <3>1. rbuf[m.to] # None
      BY <2>1 DEF RingInv, Staged
    <3>2. rbuf[m.to] \in sent /\ rbuf[m.to] \in Ranks /\ Dst(rbuf[m.to]) = m.to
      BY <2>1, <3>1 DEF RingInv, RingTypeOK, Matched
    <3>3. rbuf[m.to] = m.from
      BY <2>1, <3>2, RingFacts
    <3> QED BY <2>2, <3>2, <3>3
  <2>5. endpoint[m.to] = "closed" => stage[m.to] \in {"done", "failed"}
    BY <2>1 DEF RingInv, Staged
  <2> QED BY <2>3, <2>4, <2>5
<1> QED BY <1>1, RingInvariant, PTL

(* Over a provider that keeps no early message, no rank of a ring of any   *)
(* size gets past its send.                                                *)
THEOREM RingNeedsKeeping == RingSpec => []NeedsKeeping
<1>1. RingInv => NeedsKeeping
  BY DEF RingInv, Unkept, NeedsKeeping
<1> QED BY <1>1, RingInvariant, PTL
=============================================================================
