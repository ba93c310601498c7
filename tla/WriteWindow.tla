----------------------------- MODULE WriteWindow -----------------------------
(***************************************************************************)
(* What the writer of dmabuf, affinity and batch promises: rounds of       *)
(* NumPages one-sided writes, each page written once per round, at most    *)
(* Window writes open at a time, and no write of a round posted before     *)
(* every write of the round before has completed at the NIC.               *)
(***************************************************************************)
EXTENDS Naturals, FiniteSets

CONSTANTS NumPages,  \* pages of a round
          Repeat,    \* rounds
          Window     \* writes that may be open at once

VARIABLES round,   \* rounds started
          status,  \* of each page in the current round
          failed   \* a call has failed, the writer gives up

windowVars == <<round, status, failed>>

Pages    == 0 .. NumPages - 1
Statuses == {"todo", "open", "wire", "done"}

WindowTypeOK == /\ round \in 0 .. Repeat
                /\ status \in [Pages -> Statuses]
                /\ failed \in BOOLEAN

Init == /\ round = 0
        /\ status = [p \in Pages |-> "done"]
        /\ failed = FALSE

Outstanding == {p \in Pages : status[p] \in {"open", "wire"}}

StartRound == /\ round < Repeat
              /\ \A p \in Pages : status[p] = "done"
              /\ round' = round + 1
              /\ status' = [p \in Pages |-> "todo"]
              /\ UNCHANGED failed

(* Pages are issued in order, inside the window.                           *)
Issue(p) == /\ status[p] = "todo"
            /\ \A q \in 0 .. p - 1 : status[q] # "todo"
            /\ Cardinality(Outstanding) < Window
            /\ status' = [status EXCEPT ![p] = "open"]
            /\ UNCHANGED <<round, failed>>

Post(p) == /\ status[p] = "open"
           /\ status' = [status EXCEPT ![p] = "wire"]
           /\ UNCHANGED <<round, failed>>

Complete(p) == /\ status[p] = "wire"
               /\ status' = [status EXCEPT ![p] = "done"]
               /\ UNCHANGED <<round, failed>>

(* After a failure nothing is promised but that no round starts.           *)
GiveUp == /\ failed' = TRUE
          /\ round' = round
          /\ status' \in [Pages -> Statuses]

Next == \/ ~failed /\ ~failed' /\ StartRound
        \/ \E p \in Pages : ~failed /\ (Issue(p) \/ Post(p) \/ Complete(p))
        \/ GiveUp

Spec == Init /\ [][Next]_windowVars
=============================================================================
