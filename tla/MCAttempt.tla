----------------------------- MODULE MCAttempt -----------------------------
(* The instance of Attempt: the code's own limits of steps and candidates, *)
(* batches of up to two calls and two checkers.                            *)
EXTENDS Attempt
=============================================================================
