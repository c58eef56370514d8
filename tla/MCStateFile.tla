----------------------------- MODULE MCStateFile -----------------------------
(* Two projects, two chats, two profile names; the third folds to a built-in. *)
EXTENDS StateFile, TLC

CONSTANTS p1, p2, c1, c2, n1, n2, n3, barista

\* n1 and n2 differ in case only; n3 is the name of the default profile in capitals.
SameCase == (n1 :> 1) @@ (n2 :> 1) @@ (n3 :> 0) @@ (barista :> 0)

\* n1 has a dotted capital I: ToLower gives n2, EqualFold tells them apart.
DottedFold == [SameCase EXCEPT ![n2] = 2]

\* A session with a call under way, and one that predates profiles.
Busy == [NewBrowser EXCEPT !.projects = {p1}, !.place[c1] = p1,
           !.project = p1, !.chat = c1, !.profiles = {n1}, !.active = n1,
           !.lease = c1]
Plain == [NewBrowser EXCEPT !.active = NoProfile]

MCStored ==
  {[version |-> 5, equipment |-> FALSE, browser |-> Plain],
   [version |-> 7, equipment |-> TRUE, browser |-> Busy],
   [version |-> 8, equipment |-> TRUE, browser |-> Busy],
   [version |-> 9, equipment |-> FALSE, browser |-> Busy]}
==============================================================================
