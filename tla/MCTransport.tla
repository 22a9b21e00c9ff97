------------------------------ MODULE MCTransport ------------------------------
(***************************************************************************)
(* A transport with one call for a tab and one or two for the browser.     *)
(***************************************************************************)
EXTENDS CdpTransport
=============================================================================
