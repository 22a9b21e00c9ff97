------------------------------ MODULE MCScrape ------------------------------
(***************************************************************************)
(* Workloads for TLC: every shape of a single scrape that the stages tell  *)
(* apart, and small groups that compete for a place in flight, for the     *)
(* residential slot, and for the profiles.                                 *)
(***************************************************************************)
EXTENDS Scrape, TLC

CONSTANTS s1, s2, s3, k1, k2, all, dot

Soft == [key |-> k1, hard |-> FALSE, proxy |-> "none", post |-> FALSE, render |-> FALSE,
         inject |-> TRUE, wants |-> {}, pages |-> 1, solver |-> FALSE, wipe |-> TRUE, seal |-> "no"]
Shot == [Soft EXCEPT !.render = TRUE, !.wants = {"shot"}]
Quick == [Soft EXCEPT !.hard = TRUE]    (* refused for want of rendering *)
Live == [Shot EXCEPT !.proxy = "live"]

Shapes ==
  [key : {k1}, hard : BOOLEAN, proxy : {"none", "some"}, post : BOOLEAN, render : BOOLEAN,
   inject : {TRUE}, wants : SUBSET {"dom", "shot"}, pages : {1, 2}, solver : {FALSE},
   wipe : {TRUE}, seal : {"no"}]
  \cup [key : {k1}, hard : {TRUE}, proxy : {"none"}, post : {FALSE}, render : {TRUE},
        inject : BOOLEAN, wants : {{}, {"shot"}}, pages : {1}, solver : BOOLEAN,
        wipe : BOOLEAN, seal : {"no", "sign", "attest"}]

Singles == {s1 :> r : r \in Shapes}
Groups == {
  s1 :> Quick @@ s2 :> Quick @@ s3 :> Quick,
  s1 :> Live @@ s2 :> [Live EXCEPT !.key = k2],
  s1 :> Shot @@ s2 :> [Shot EXCEPT !.key = k2],
  s1 :> Shot @@ s2 :> [Shot EXCEPT !.key = all],
  s1 :> Shot @@ s2 :> [Shot EXCEPT !.key = dot],
  s1 :> Shot @@ s2 :> [Shot EXCEPT !.wipe = FALSE]}

MCWorkload == Singles \cup Groups
=============================================================================
