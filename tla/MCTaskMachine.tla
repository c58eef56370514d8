--------------------------- MODULE MCTaskMachine ---------------------------
(* Two plan items, one of them the validation item of a migrated task, and *)
(* a chain of up to two steps per input.                                   *)
EXTENDS TaskMachine, TLC

CONSTANTS i1, i2
=============================================================================
