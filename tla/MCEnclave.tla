------------------------------ MODULE MCEnclave ------------------------------
(* Ids as they should be, and ids that hold a field or a NUL of their own: *)
(* two of them make the same header as two others.                         *)
EXTENDS Enclave

CONSTANTS enclave, restarted, committee

MCId == {Plain("b"), Plain("b") \o <<Part("nonce", "b")>>, Plain("b") \o <<Nul>>, <<>>}

MCKey == {enclave, restarted, committee}
MCCommittee == [public_key |-> committee, key_id |-> committee]
Alike == Permutations({enclave, restarted})

=============================================================================
