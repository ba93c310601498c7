--------------------------- MODULE SequentialWriter ---------------------------
(***************************************************************************)
(* dmabuf/main.cc and affinity/main.cc: WriteOne awaits the conn_->Write   *)
(* of each page before it goes to the next.                                *)
(***************************************************************************)
EXTENDS Writer

seqVars == <<vars, writerVars>>

(* Defect: a Future of the write is kept, and nobody awaits it.            *)
WritePageDetached(c) == /\ At(WriteOne, "issue")
                        /\ page < NumPages
                        /\ Spawn(c)
                        /\ Goto(WriteOne, "count")
                        /\ UNCHANGED <<round, page, ops>>

(* co_await conn_->Write(...), the body of the loop over the pages.        *)
WritePage(c) == /\ At(WriteOne, "issue")
                /\ page < NumPages
                /\ CallAwait(c)
                /\ Goto(WriteOne, "count")
                /\ UNCHANGED <<round, page, ops>>

(* Defect: the write is not counted.                                       *)
CountPageLost == /\ At(WriteOne, "count")
                 /\ Active
                 /\ Goto(WriteOne, "issue")
                 /\ page' = page + 1
                 /\ UNCHANGED <<vars, round, ops>>

(* ++ops and the loop's ++i                                                *)
CountPage == /\ At(WriteOne, "count")
             /\ Active
             /\ Goto(WriteOne, "issue")
             /\ page' = page + 1
             /\ ops' = ops + 1
             /\ UNCHANGED <<vars, round>>

(* Defect: the last page is not written.                                   *)
EndRoundEarly == /\ At(WriteOne, "issue")
                 /\ page = NumPages - 1
                 /\ Ends(WriteOne)
                 /\ UNCHANGED <<round, page, ops>>

EndRound == /\ At(WriteOne, "issue")
            /\ page = NumPages
            /\ Ends(WriteOne)
            /\ UNCHANGED <<round, page, ops>>

SeqStep == \/ \E c \in Slots : WritePage(c)
           \/ CountPage
           \/ EndRound
           \/ CommonStep

SeqNext == SeqStep \/ Background \/ (phase \in Ended /\ UNCHANGED seqVars)

SeqSpec == WriterInit /\ [][SeqNext]_seqVars

SeqFairSpec == /\ SeqSpec
               /\ WF_seqVars(SeqStep \/ (Unwind /\ UNCHANGED writerVars))
               /\ WF_seqVars(LoopStep /\ UNCHANGED writerVars)
               /\ \A h \in Handles :
                    WF_seqVars((Complete(h) \/ CompleteError(h)) /\ UNCHANGED writerVars)

-----------------------------------------------------------------------------
(* How far the write of page p has come, read off the runtime's state.     *)
PageStatus(p) ==
  IF p < page THEN "done"
  ELSE IF p > page \/ stage[WriteOne] = "issue" THEN "todo"
  ELSE IF \E f \in Slots : /\ stage[f] = "post"
                           /\ point[f] \in {"initial", "running"} THEN "open"
  ELSE IF \E f \in Slots : /\ point[f] = "op"
                           /\ f \notin Range(cq) \cup Range(ready) THEN "wire"
  ELSE "done"

Promise == INSTANCE WriteWindow
             WITH Window <- 1,
                  status <- [p \in 0 .. NumPages - 1 |-> PageStatus(p)],
                  failed <- GaveUp

Runtime == INSTANCE LoopClient
             WITH Futures <- FALSE, MayThrow <- MayFail, Delays <- {}

(* The writer that awaits every page has at most one write open, whatever  *)
(* call fails: then it gives up and starts no other round.                 *)
KeepsWindow == Promise!Spec

(* It holds one child at a time, so an exception unwinds it safely: it is  *)
(* one of the programs of LoopClient without Futures.                      *)
IsLoopClient == Runtime!Spec
=============================================================================
