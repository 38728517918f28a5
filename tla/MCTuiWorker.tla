----------------------------- MODULE MCTuiWorker -----------------------------
(* Instances of TuiWorker: its bounds are given in the .cfg files. *)
EXTENDS TuiWorker

MCMessages == 3
MCPrompts  == 2
MCMenus    == 1
=============================================================================
