----------------------------- MODULE MCSealedNet -----------------------------
(* Each kind of target, and answers with an alias before the address, with *)
(* a duplicate, of the other type only, empty, an error and one cut short. *)
EXTENDS SealedNet

MCTarget ==
  {[kind |-> "literal", ip |-> "9.9.9.9"]} \cup
  {[kind |-> k, ip |-> "none"] : k \in {"localhost", "name", "malformed", "other"}}

A(ip) == [type |-> "A", ip |-> ip]
AAAA(ip) == [type |-> "AAAA", ip |-> ip]
Says(records) == [ok |-> TRUE, records |-> records, cut |-> FALSE]

MCAnswer ==
  {Says(<<>>), Says(<<[type |-> "CNAME", ip |-> "none"], A("10.0.0.1"), A("10.0.0.2")>>),
   Says(<<AAAA("fd00::1"), A("10.0.0.2"), AAAA("fd00::1")>>), Says(<<AAAA("fd00::1")>>),
   [ok |-> FALSE, records |-> <<>>, cut |-> FALSE],
   [ok |-> TRUE, records |-> <<A("10.0.0.1")>>, cut |-> TRUE]}

=============================================================================
