-------------------------------- MODULE Seal --------------------------------
(***************************************************************************)
(* What basecrawl-seal computes: how a task or a result is framed for a    *)
(* sealed box and opened again (task.rs, result.rs), the coarse failure    *)
(* feedback that rides in a result (antibot_feedback.rs), and the reading  *)
(* of a /release reply (keyrelease.rs).                                    *)
(*                                                                         *)
(* A text is the sequence of what stands between its "|" characters: each  *)
(* part has the "name=" it starts with, if any, and a NUL byte is a part   *)
(* of its own. So an id that holds a "|" or a NUL is one of several parts. *)
(***************************************************************************)
EXTENDS Naturals, FiniteSets, SequencesExt

CONSTANT Key          (* X25519 key pairs; a pair and its key id are one   *)

Blank == ""
Part(name, value) == [name |-> name, value |-> value]
Nul == Part("NUL", Blank)
Plain(value) == <<Part(Blank, value)>>

Fail(kind) == [ok |-> FALSE, kind |-> kind]
Done(value) == [ok |-> TRUE, value |-> value]

(* format!("|name={id}"), where the id may bring parts of its own.         *)
Named(name, id) == <<Part(name, Head(id).value)>> \o Tail(id)
TaskDomain == <<Part(Blank, "relay/task-seal/v1")>>
ResultDomain == <<Part(Blank, "relay/result-seal/v1")>>

(* A sealed box, whole, altered on the way, cut to its overhead, or not    *)
(* base64url at all; only the secret it was sealed to opens a whole one.   *)
Box(to, text, body) == [state |-> "whole", to |-> to, text |-> text, body |-> body]

OpenSealedBox(secret, box) ==
  CASE box.state \in {"empty", "undecodable"} -> Fail("invalid_envelope")
    [] box.state = "whole" /\ box.to = secret -> Done(box.text \o <<Nul>>)
    [] OTHER -> Fail("authentication_failed")

(* split_aad_plaintext: the first NUL ends the authenticated header; what  *)
(* follows is the sealed body only if no part before it held a NUL.        *)
Header(text) == SubSeq(text, 1, SelectInSeq(text, LAMBDA p : p = Nul) - 1)
BodyIntact(text) == SelectInSeq(text, LAMBDA p : p = Nul) = Len(text)

-----------------------------------------------------------------------------
(* Tasks.                                                                  *)

BuildAad(id, nonce, key) ==
  TaskDomain \o Named("task_id", id) \o Named("nonce", nonce) \o Named("recipient_key_id", Plain(key))

(* The relay's side of the wire: the task object repeats its ids.          *)
SealTask(id, nonce, key) ==
  [shaped |-> TRUE, kind |-> "task", recipient_key_id |-> key,
   ciphertext |-> Box(key, BuildAad(id, nonce, key), [task_id |-> id, nonce |-> nonce])]

(* parse_aad: the last part of each name counts.                           *)
ParseAad(aad) ==
  LET at(name) == SelectLastInSeq(aad, LAMBDA p : p.name = name)
      given == {"task_id", "nonce", "recipient_key_id"}
  IN IF aad = <<>> \/ SubSeq(aad, 1, 1) # TaskDomain THEN Fail("authentication_failed")
     ELSE IF \E name \in given : at(name) = 0 \/ aad[at(name)].value = Blank THEN Fail("malformed_plaintext")
     ELSE IF aad[at("recipient_key_id")].value \notin Key THEN Fail("malformed_plaintext")
     ELSE Done([name \in given |-> aad[at(name)].value])

ValidateTaskShape(e) == e.shaped /\ e.recipient_key_id \in Key

(* The header must be the one built from what was read out of it, and the  *)
(* object inside must name the same task.                                  *)
Bound(e, text, fields, self) ==
  IF \/ Header(text) # BuildAad(Plain(fields.task_id), Plain(fields.nonce), self)
     \/ fields.recipient_key_id # self
  THEN Fail("authentication_failed")
  ELSE IF ~BodyIntact(text) THEN Fail("malformed_plaintext")
  ELSE IF e.ciphertext.body # [task_id |-> Plain(fields.task_id), nonce |-> Plain(fields.nonce)]
       THEN Fail("malformed_plaintext")
  ELSE Done(e.ciphertext.body)

DecryptSealedTask(e, self) ==
  IF ~ValidateTaskShape(e) \/ e.recipient_key_id # self THEN Fail("invalid_envelope")
  ELSE LET opened == OpenSealedBox(self, e.ciphertext)
           parsed == ParseAad(Header(opened.value))
       IN IF ~opened.ok THEN opened
          ELSE IF ~parsed.ok THEN parsed
          ELSE Bound(e, opened.value, parsed.value, self)

(* The host, or an image that was released no key.                         *)
DecryptWithoutReleasedKey(e) ==
  IF ValidateTaskShape(e) /\ e.ciphertext.state # "empty" THEN Fail("key_not_released")
  ELSE Fail("invalid_envelope")

-----------------------------------------------------------------------------
(* Results.                                                                *)

BuildResultAad(id, nonce, hash, key) ==
  ResultDomain \o Named("task_id", id) \o Named("nonce", nonce) \o Named("result_hash", Plain(hash))
    \o Named("recipient_key_id", Plain(key)) \o Named("recipient", Plain("committee-threshold"))

(* A result with no ids, no digest or no format is not sealed, nor one to  *)
(* a committee whose published id is not that of its public key.           *)
SealResult(plain, committee) ==
  IF \/ plain.task_id = <<>> \/ plain.nonce = <<>> \/ plain.formats = {} \/ plain.hash = Blank
     \/ committee.key_id # committee.public_key
  THEN Fail("invalid_envelope")
  ELSE Done([shaped |-> TRUE, kind |-> "result", recipient_key_id |-> committee.key_id,
             task_id |-> plain.task_id, nonce |-> plain.nonce, hash |-> plain.hash,
             ciphertext |-> Box(committee.public_key,
               BuildResultAad(plain.task_id, plain.nonce, plain.hash, committee.key_id), plain)])

ValidateResultShape(e) ==
  /\ e.shaped /\ e.kind = "result" /\ e.recipient_key_id \in Key
  /\ e.task_id # <<>> /\ e.nonce # <<>> /\ e.hash # Blank
  /\ e.ciphertext.state # "empty"

(* Faulty variant: the header of the box is enough.                        *)
AnyHeader(e, plain) == TRUE

SameHeader(e, plain) ==
  plain.task_id = e.task_id /\ plain.nonce = e.nonce /\ plain.hash = e.hash

UnsealResult(e, secret) ==
  IF ~ValidateResultShape(e) \/ e.ciphertext.state = "undecodable" THEN Fail("invalid_envelope")
  ELSE IF e.ciphertext.state = "short" THEN Fail("authentication_failed")
  ELSE IF e.recipient_key_id # secret THEN Fail("invalid_envelope")
  ELSE LET opened == OpenSealedBox(secret, e.ciphertext)
       IN IF ~opened.ok THEN opened
          ELSE IF Header(opened.value)
                    # BuildResultAad(e.task_id, e.nonce, e.hash, e.recipient_key_id)
               THEN Fail("authentication_failed")
          ELSE IF ~BodyIntact(opened.value) \/ ~SameHeader(e, e.ciphertext.body)
               THEN Fail("malformed_plaintext")
          ELSE Done(e.ciphertext.body)

DecryptResultAsMinerHost(e) ==
  IF ValidateResultShape(e) THEN Fail("key_not_released") ELSE Fail("invalid_envelope")

(* Even an AEAD that opened would be refused.                              *)
DecryptResultWithForeignKey(e) ==
  IF ~ValidateResultShape(e) \/ e.ciphertext.state = "undecodable" THEN Fail("invalid_envelope")
  ELSE Fail("authentication_failed")

-----------------------------------------------------------------------------
(* Feedback: a closed code, sealed as a result whose only format it is.    *)

FromHttpStatus(status) ==
  CASE status \in 200..299 -> "ok"
    [] status \in {401, 403} -> "blocked"
    [] status = 429 -> "rate_limited"
    [] status \in {408, 502, 503, 504} -> "upstream_unavailable"
    [] status \in {404, 410} -> "empty"
    [] status \in 400..499 \ {401, 403, 404, 408, 410, 429} -> "blocked"
    [] status \in 500..599 \ {502, 503, 504} -> "upstream_unavailable"
    [] OTHER -> "ok"

StatusClass(status) ==
  IF status \in 100..599 THEN <<"1xx", "2xx", "3xx", "4xx", "5xx">>[status \div 100] ELSE "other"

FeedbackFor(status, suggestResidential) ==
  LET failure == FromHttpStatus(status)
  IN [failure |-> failure, status |-> StatusClass(status),
      class |-> IF suggestResidential /\ failure \in {"blocked", "rate_limited", "challenge", "captcha"}
                THEN "residential" ELSE "none"]

(* The hash is named for the code in it; it also binds ids and class.      *)
SealFeedback(id, nonce, feedback, committee) ==
  LET sealed == SealResult([task_id |-> id, nonce |-> nonce, hash |-> feedback.failure,
                            formats |-> {feedback}], committee)
  IN IF sealed.ok THEN Done([sealed.value EXCEPT !.kind = "antibot_feedback"]) ELSE sealed

(* Ok(None) is the empty set: success is not reported.                     *)
MaybeSealFailure(id, nonce, status, suggestResidential, committee) ==
  IF FromHttpStatus(status) = "ok" THEN Done({})
  ELSE LET sealed == SealFeedback(id, nonce, FeedbackFor(status, suggestResidential), committee)
       IN IF sealed.ok THEN Done({sealed.value}) ELSE sealed

ValidateFeedbackShape(e) ==
  /\ e.shaped /\ e.kind = "antibot_feedback"
  /\ e.task_id # <<>> /\ e.nonce # <<>> /\ e.hash # Blank /\ e.ciphertext.state # "empty"

DecryptFeedbackAsMinerHost(e) ==
  IF ValidateFeedbackShape(e) THEN Fail("key_not_released") ELSE Fail("invalid_envelope")

(* Faulty variant: opens the envelope under the kind it is routed by.      *)
UnsealFeedbackAsRouted(e, secret) == UnsealResult(e, secret)

UnsealFeedback(e, secret) ==
  IF ~ValidateFeedbackShape(e) THEN Fail("invalid_envelope")
  ELSE LET opened == UnsealResult([e EXCEPT !.kind = "result"], secret)
       IN IF ~opened.ok THEN opened
          ELSE LET coded == {f \in opened.value.formats : "failure" \in DOMAIN f}
               IN IF coded = {} THEN Fail("malformed_plaintext")
                  ELSE Done([task_id |-> opened.value.task_id, nonce |-> opened.value.nonce,
                             feedback |-> CHOOSE f \in coded : TRUE])

-----------------------------------------------------------------------------
(* Key release: what an exchange ends with.                                *)

(* Faulty variant: a key that is there is a key, whoever it was sealed to. *)
ParseAnyKey(reply, self) ==
  IF reply.released = "yes" /\ reply.key.state = "whole" /\ reply.key.text # <<>> THEN Done(reply.key)
  ELSE Fail("key_release_denied")

(* A /release body: the flag and the key it has, if it has them, the key   *)
(* not base64, empty, or a box of key bytes sealed to someone.             *)
ParseRelease(reply, self) ==
  IF reply.released = "missing" THEN Fail("key_release_protocol")
  ELSE IF reply.released = "no"
       THEN IF reply.key.state # "absent" THEN Fail("key_release_protocol")
            ELSE Fail("key_release_denied")
  ELSE IF reply.key.state \in {"absent", "undecodable", "empty"} THEN Fail("key_release_protocol")
  ELSE IF ~(reply.key.state = "whole" /\ reply.key.to = self) THEN Fail("authentication_failed")
  ELSE IF reply.key.text = <<>> THEN Fail("key_release_protocol")
  ELSE Done(reply.key)

=============================================================================
