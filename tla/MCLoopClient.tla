---------------------------- MODULE MCLoopClient ----------------------------
(***************************************************************************)
(* Both classes of programs for which the runtime is safe, in one state    *)
(* space: programs that hold futures and do not throw (the constants the   *)
(* configuration gives LoopClient), and programs that throw and hold no    *)
(* future (those of Thrower).                                              *)
(***************************************************************************)
EXTENDS LoopClient

VARIABLE class  \* of the program that runs

Thrower == INSTANCE LoopClient WITH Futures <- FALSE, MayThrow <- TRUE

MCInit == Init /\ class \in {"futures", "throws"}

MCNext == /\ \/ LoopStep
             \/ Nic
             \/ Tick
             \/ class = "futures" /\ ClientStep
             \/ class = "throws" /\ Thrower!ClientStep
             \/ Terminating
          /\ UNCHANGED class

MCSpec == /\ MCInit
          /\ [][MCNext]_<<vars, class>>
          /\ RuntimeFairness
          /\ class = "futures" => WF_vars(ClientStep)
          /\ class = "throws" => WF_vars(Thrower!ClientStep)
=============================================================================
