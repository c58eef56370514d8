---------------------------- MODULE MCCatalogue ----------------------------
(* The compiled-in budgets; BrewMark's timeout shorter and longer than the *)
(* session's.                                                              *)
EXTENDS Catalogue, TLC

MCLimits == {2, 6}
=============================================================================
