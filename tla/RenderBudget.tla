---------------------------- MODULE RenderBudget -----------------------------
(***************************************************************************)
(* What one scrape's render budget promises to all of its browser renders, *)
(* with no browser in it: requests and bytes are only ever added, neither  *)
(* total passes its cap, and an exhausted budget never moves again.        *)
(***************************************************************************)
EXTENDS Integers

CONSTANTS MaxRequests, MaxBytes

VARIABLES count, bytes, exceeded

Init == count = 0 /\ bytes = 0 /\ exceeded = FALSE

Accept ==
  /\ ~exceeded
  /\ count < MaxRequests
  /\ count' = count + 1
  /\ UNCHANGED <<bytes, exceeded>>

(* n more bytes fit.                                                       *)
Charge(n) ==
  /\ ~exceeded
  /\ bytes + n <= MaxBytes
  /\ bytes' = bytes + n
  /\ UNCHANGED <<count, exceeded>>

Exhaust == exceeded' = TRUE /\ UNCHANGED <<count, bytes>>

Next == Accept \/ (\E n \in 1..MaxBytes : Charge(n)) \/ Exhaust

Spec == Init /\ [][Next]_<<count, bytes, exceeded>>
=============================================================================
