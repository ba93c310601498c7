----------------------------- MODULE RingExchange -----------------------------
(***************************************************************************)
(* efa/main.cc on all its nodes: every rank opens its Net, exchanges the   *)
(* addresses with MPI_Allgather, sends one message to the next rank of the *)
(* ring and then receives one.  Each awaits its send before it posts its   *)
(* receive, so the ring advances only because the provider keeps a message *)
(* nobody has posted a receive for.  One rank's coroutine on the runtime   *)
(* is a program of LoopClient; here a step runs from one co_await of Start *)
(* to the next.  Every call of a rank may fail: Start then ends with an    *)
(* exception, and the rank's Net is closed whatever is on its way to it.   *)
(***************************************************************************)
EXTENDS Naturals, FiniteSets

CONSTANTS WorldSize,  \* MPI::GetWorldSize()
          None        \* an empty receive buffer

Ranks == 0 .. WorldSize - 1

ASSUME RingAssumption == /\ WorldSize \in Nat \ {0}
                         /\ None \notin Ranks

VARIABLES stage,     \* where Start is
          endpoint,  \* Net::ep_ of each rank
          wire,      \* messages on their way
          early,     \* messages the provider keeps for a later receive
          sent,      \* ranks whose message has arrived: the send is completed
          keeps,     \* the provider keeps a message without a receive
          rbuf       \* what the posted receive of a rank was matched with

ringVars == <<stage, endpoint, wire, early, sent, keeps, rbuf>>

Stages   == {"start", "gather", "send", "sending", "receiving", "done",
             "failed"}
Messages == [from : Ranks, to : Ranks]

DstUnwrapped(r) == r + 1          \* defect: the last rank has no successor
DstSelf(r) == r % WorldSize       \* defect: the rank itself

Dst(r) == (r + 1) % WorldSize
Pred(r) == (r + WorldSize - 1) % WorldSize

RingInit == /\ stage = [r \in Ranks |-> "start"]
            /\ endpoint = [r \in Ranks |-> "none"]
            /\ wire = {}
            /\ early = {}
            /\ sent = {}
            /\ keeps \in BOOLEAN
            /\ rbuf = [r \in Ranks |-> None]

-----------------------------------------------------------------------------
(* net.Open(...), and the call of AllGatherAddr.                           *)
OpenNet(r) == /\ stage[r] = "start"
              /\ stage' = [stage EXCEPT ![r] = "gather"]
              /\ endpoint' = [endpoint EXCEPT ![r] = "open"]
              /\ UNCHANGED <<wire, early, sent, keeps, rbuf>>

(* A CHECK of Net::Open fails: the rank never gives its address.           *)
OpenFails(r) == /\ stage[r] = "start"
                /\ stage' = [stage EXCEPT ![r] = "failed"]
                /\ UNCHANGED <<endpoint, wire, early, sent, keeps, rbuf>>

AllGatherEager(r) ==  \* defect: the addresses are read before all are there
  /\ stage[r] = "gather"
  /\ stage' = [stage EXCEPT ![r] = "send"]
  /\ UNCHANGED <<endpoint, wire, early, sent, keeps, rbuf>>

(* MPI_Allgather returns when every rank has given its address.            *)
AllGatherAddr(r) == /\ stage[r] = "gather"
                    /\ \A q \in Ranks : endpoint[q] # "none"
                    /\ stage' = [stage EXCEPT ![r] = "send"]
                    /\ UNCHANGED <<endpoint, wire, early, sent, keeps, rbuf>>

(* net.Connect(remote), and co_await conn->Send(...) up to its suspension. *)
PostSend(r) == /\ stage[r] = "send"
               /\ stage' = [stage EXCEPT ![r] = "sending"]
               /\ wire' = wire \cup {[from |-> r, to |-> Dst(r)]}
               /\ UNCHANGED <<endpoint, early, sent, keeps, rbuf>>

PostRecvUnmatched(r) ==  \* defect: what came before is not looked at
  /\ stage[r] = "sending"
  /\ r \in sent
  /\ stage' = [stage EXCEPT ![r] = "receiving"]
  /\ UNCHANGED <<endpoint, wire, early, sent, keeps, rbuf>>

PostRecvUnawaited(r) ==  \* defect: the send is not awaited
  /\ stage[r] = "sending"
  /\ stage' = [stage EXCEPT ![r] = "receiving"]
  /\ UNCHANGED <<endpoint, wire, early, sent, keeps, rbuf>>

(* The send's entry resumes Start, which posts its receive; the provider   *)
(* matches it with a message it has kept.                                  *)
PostRecv(r) ==
  /\ stage[r] = "sending"
  /\ r \in sent
  /\ stage' = [stage EXCEPT ![r] = "receiving"]
  /\ \/ \E m \in early : /\ m.to = r
                         /\ rbuf' = [rbuf EXCEPT ![r] = m.from]
                         /\ early' = early \ {m}
     \/ /\ \A m \in early : m.to # r
        /\ UNCHANGED <<rbuf, early>>
  /\ UNCHANGED <<endpoint, wire, sent, keeps>>

(* The receive's entry resumes Start, whose end closes its Net.            *)
Finish(r) == /\ stage[r] = "receiving"
             /\ rbuf[r] # None
             /\ stage' = [stage EXCEPT ![r] = "done"]
             /\ endpoint' = [endpoint EXCEPT ![r] = "closed"]
             /\ UNCHANGED <<wire, early, sent, keeps, rbuf>>

(* Start ends with an exception: the EXPECT of Connect, a registration,    *)
(* the CHECK of fi_sendmsg or fi_recvmsg, an entry whose flags are not     *)
(* those of the operation, an error entry.  The endpoint goes with the     *)
(* messages kept for it; the rank's own message may be lost or not.        *)
Fail(r) ==
  /\ stage[r] \in {"send", "sending", "receiving"}
  /\ stage' = [stage EXCEPT ![r] = "failed"]
  /\ endpoint' = [endpoint EXCEPT ![r] = "closed"]
  /\ wire' \in {wire, {m \in wire : m.from # r}}
  /\ early' = {m \in early : m.to # r}
  /\ UNCHANGED <<sent, keeps, rbuf>>

(* A message arrives at an open endpoint: it is matched with the receive   *)
(* posted there or kept, and acknowledged, which completes the send.  A    *)
(* provider that keeps nothing lets it wait.                               *)
Arrive(m) ==
  /\ m \in wire
  /\ endpoint[m.to] = "open"
  /\ wire' = wire \ {m}
  /\ sent' = sent \cup {m.from}
  /\ \/ /\ stage[m.to] = "receiving"
        /\ rbuf[m.to] = None
        /\ rbuf' = [rbuf EXCEPT ![m.to] = m.from]
        /\ UNCHANGED early
     \/ /\ stage[m.to] # "receiving"
        /\ keeps
        /\ early' = early \cup {m}
        /\ UNCHANGED rbuf
  /\ UNCHANGED <<stage, endpoint, keeps>>

RankStep(r) == \/ OpenNet(r)
               \/ AllGatherAddr(r)
               \/ PostSend(r)
               \/ PostRecv(r)
               \/ Finish(r)

RingNext == \/ \E r \in Ranks : RankStep(r) \/ OpenFails(r) \/ Fail(r)
            \/ \E m \in wire : Arrive(m)

RingSpec == RingInit /\ [][RingNext]_ringVars

(* Every process runs, and the reliable datagrams of EFA arrive at the     *)
(* endpoints that are open.  Nothing has to fail.                          *)
RingFairSpec == /\ RingSpec
                /\ \A r \in Ranks : WF_ringVars(RankStep(r))
                /\ WF_ringVars(\E m \in wire : Arrive(m))

-----------------------------------------------------------------------------
(* Every variable has its type.                                            *)
RingTypeOK == /\ stage \in [Ranks -> Stages]
              /\ endpoint \in [Ranks -> {"none", "open", "closed"}]
              /\ wire \in SUBSET Messages
              /\ early \in SUBSET Messages
              /\ sent \in SUBSET Ranks
              /\ keeps \in BOOLEAN
              /\ rbuf \in [Ranks -> Ranks \cup {None}]

(* What a rank receives is the message of the rank before it in the ring:  *)
(* a receive is posted for any source (FI_ADDR_UNSPEC).                    *)
FromPredecessor == \A r \in Ranks : rbuf[r] # None => rbuf[r] = Pred(r)

(* No message is under way to an endpoint that is not enabled yet, nor to  *)
(* one closed by a rank that has ended well: that rank has received, from  *)
(* the only one that sends to it.  Only a failed rank leaves a message     *)
(* without a receiver.                                                     *)
NoStray == \A m \in wire : /\ endpoint[m.to] # "none"
                           /\ endpoint[m.to] = "closed" => stage[m.to] = "failed"

(* Over a provider that keeps nothing no rank ever gets past its send:     *)
(* each waits for the next one to post the receive that comes after its    *)
(* own send.  The program depends on what EFA does with early messages.    *)
NeedsKeeping ==
  ~keeps => \A r \in Ranks : stage[r] \notin {"receiving", "done"}

(* Over a provider that keeps early messages every rank ends, although each*)
(* sends before it receives, unless a rank failed before the addresses were*)
(* exchanged, or the one it sends to or receives from failed: a failure    *)
(* elsewhere in the ring stops nobody.                                     *)
Failed(r) == stage[r] = "failed"
Stopping(r) == \/ Failed(r) \/ Failed(Pred(r)) \/ Failed(Dst(r))
               \/ \E q \in Ranks : Failed(q) /\ endpoint[q] = "none"
RingEnds == keeps => \A r \in Ranks : <>(stage[r] = "done" \/ Stopping(r))
=============================================================================
