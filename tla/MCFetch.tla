------------------------------- MODULE MCFetch -------------------------------
(***************************************************************************)
(* One scrape for TLC: an HTTPS seed, a plaintext origin and one that only *)
(* redirects can name, with one document each, a browser thread, one       *)
(* redirect per fetch and a deadline that pacing can exceed.               *)
(***************************************************************************)
EXTENDS Fetch

CONSTANTS Secure, Plain, Ftp

MCScheme == [o \in Origin |->
  CASE o = Secure -> "https" [] o = Plain -> "http" [] OTHER -> "other"]
MCPage == {"index"}
MCSeed == [origin |-> Secure, path |-> "index"]
MCLocation == [origin : Origin, path : MCPage]

(* A single page without a delay, and two pages with one.                  *)
MCScrape == [post : BOOLEAN, policy : {"enforce", "observe", "ignore"}, delay : {0}, pages : {1}]
  \cup [post : {FALSE}, policy : {"enforce", "observe", "ignore"}, delay : {1}, pages : {2}]
=============================================================================
