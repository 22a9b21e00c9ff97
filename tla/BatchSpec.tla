------------------------------ MODULE BatchSpec ------------------------------
(***************************************************************************)
(* What a batch promises its caller, with no threads in it: every URL is   *)
(* scraped at most once, independently of the others, and one list comes   *)
(* back in which each index holds its own URL's outcome, or says that it   *)
(* has none.  The list never changes once returned.                        *)
(***************************************************************************)
CONSTANTS Url, Outcome, NoItem, Lost

VARIABLES outcome, items

Init ==
  /\ outcome = [u \in Url |-> NoItem]
  /\ items = [u \in Url |-> NoItem]

Open == items = [u \in Url |-> NoItem]

Finish(u, o) ==
  /\ Open
  /\ outcome[u] = NoItem
  /\ outcome' = [outcome EXCEPT ![u] = o]
  /\ UNCHANGED items

Answer(u) == [index |-> u, outcome |-> IF outcome[u] = NoItem THEN Lost
                                                             ELSE outcome[u]]

Return ==
  /\ Open
  /\ items' = [u \in Url |-> Answer(u)]
  /\ UNCHANGED outcome

Next == (\E u \in Url, o \in Outcome : Finish(u, o)) \/ Return

Spec == Init /\ [][Next]_<<outcome, items>>
=============================================================================
