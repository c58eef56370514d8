----------------------------- MODULE MCTaskflow -----------------------------
(* One chat; two inputs carry the same client id, a Resume its own.        *)
EXTENDS Taskflow, TLC

CONSTANTS s1, p1, c1, k1, k2, t1, t2, o1, o2, o3

MCProjectOf == [c \in Chats |-> p1]
MCOwnerOf == [p \in Projects |-> s1]
MCChatOf == [o \in Ops |-> c1]
MCClientOf == [o \in Ops |-> IF o = o3 THEN k2 ELSE k1]
MCKindOf == [o \in Ops |-> IF o = o3 THEN "resume" ELSE "input"]

\* Task ids are fresh and random, and o1 and o2 are alike.
MCSymmetry == Permutations({t1, t2}) \cup Permutations({o1, o2})
=============================================================================
