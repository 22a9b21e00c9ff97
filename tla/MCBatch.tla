------------------------------ MODULE MCBatch --------------------------------
(***************************************************************************)
(* Instances of Batch for TLC, and the batch seen as BatchSpec.            *)
(***************************************************************************)
EXTENDS Batch

(* The pool's threads, its cursor and its slots are hidden; what a URL's   *)
(* scrape returned is its outcome.                                         *)
Promise == INSTANCE BatchSpec WITH outcome <- returned

(* Every behaviour of the pool is one the caller was promised (batch.rs:   *)
(* 56, "length == input URL count, stable order").                         *)
ImplementsPromise == Promise!Spec
=============================================================================
