------------------------------- MODULE Enclave -------------------------------
(***************************************************************************)
(* The life of a sealed task (basecrawl-seal): an enclave with a key of    *)
(* its own asks the key authority for the task key, opens the tasks the    *)
(* relay seals to it, and seals results and feedback to the committee. It  *)
(* may restart, with a new key, at any time. Envelopes pass through the    *)
(* miner's host, which may keep, repeat, mix up or damage them.            *)
(* The authority, the relay, the host and the committee are environment.   *)
(***************************************************************************)
EXTENDS Seal

CONSTANTS
  Text,            (* what stands in a part of an id                       *)
  Id,              (* task ids and nonces, as sequences of parts           *)
  Status,          (* HTTP statuses that feedback is asked about           *)
  Committee,       (* the committee's public key, and the id published     *)
  Wrecks,          (* what the host does to a ciphertext                   *)
  None,
  MaxWire          (* envelopes under way at once                          *)

ASSUME EnclaveAssumption ==
  /\ \A id \in Id : /\ id \in Seq([name : Text, value : Text])
                    /\ id # <<>> => id[1].name = Blank /\ (Len(id) = 1 => id[1].value # Blank)
  /\ Blank \notin Key
  /\ None # "key_release_unreachable"
  /\ Committee.public_key \in Key /\ Wrecks \subseteq {"damaged", "short", "undecodable", "empty"}

VARIABLES
  self,        (* the enclave's key pair                                   *)
  fresh,       (* key pairs no enclave has had yet                         *)
  known,       (* the key the relay seals to                               *)
  wire,        (* envelopes the host has                                   *)
  task,        (* the task the enclave works on, or None                   *)
  step,        (* where the key-release exchange is                        *)
  nonce,       (* the nonce of the exchange, or None                       *)
  issued,      (* whether the authority issued a nonce in this exchange    *)
  releasedTo,  (* the key pairs the authority ever released the key to     *)
  held,        (* what the enclave took for the task key, or None          *)
  ending       (* the kind of the exchange's last error, or None           *)

vars == <<self, fresh, known, wire, task, step, nonce, issued, releasedTo, held, ending>>
exchange == <<step, nonce, issued, releasedTo, held, ending>>
envelopes == <<known, wire, task>>
identity == <<self, fresh>>

Init ==
  /\ self \in Key \ {Committee.public_key}
  /\ fresh = Key \ {self, Committee.public_key} /\ known = self
  /\ wire = {} /\ task = None
  /\ step = "idle" /\ nonce = None /\ issued = FALSE /\ releasedTo = {}
  /\ held = None /\ ending = None

-----------------------------------------------------------------------------
(* The exchange: nonce, quote, /release, each over a connection of its own.*)

End(kind) == step' = "idle" /\ ending' = kind
Give(kind) ==
  End(kind) /\ nonce' = None /\ UNCHANGED <<issued, releasedTo, held, identity, envelopes>>

(* request_nonce: the request leaves, or the endpoint is unreachable.      *)
RequestNonce ==
  /\ step = "idle" /\ held = None
  /\ step' = "nonce_asked" /\ ending' = None
  /\ issued' = FALSE /\ nonce' = None
  /\ UNCHANGED <<releasedTo, held, identity, envelopes>>

NonceUnreachable == step = "nonce_asked" /\ ~issued /\ Give("key_release_unreachable")

(* The authority, which may answer with a refusal or without a nonce.      *)
IssueNonce ==
  /\ step = "nonce_asked" /\ ~issued /\ issued' = TRUE
  /\ UNCHANGED <<step, nonce, releasedTo, held, ending, identity, envelopes>>

NonceRefused ==
  /\ step = "nonce_asked" /\ ~issued
  /\ \E kind \in {"key_release_denied", "key_release_protocol", "key_release_mid_exchange"} : Give(kind)

(* A reply passes through the host in the clear, which may put a nonce of  *)
(* its own in it, break it, or refuse in the authority's place.            *)
NonceArrives ==
  /\ step = "nonce_asked" /\ step' = "quote"
  /\ nonce' \in {"forged"} \cup (IF issued THEN {"nonce"} ELSE {})
  /\ UNCHANGED <<issued, releasedTo, held, ending, identity, envelopes>>

NonceLost ==
  /\ step = "nonce_asked" /\ issued
  /\ \E kind \in {"key_release_denied", "key_release_protocol", "key_release_mid_exchange"} : Give(kind)

(* get_quote over report data that binds the nonce and this key.           *)
Quote ==
  /\ step = "quote"
  /\ \/ step' = "release" /\ UNCHANGED <<nonce, issued, releasedTo, held, ending, identity, envelopes>>
     \/ Give("quote_failed")

(* Faulty variant: the second connection's errors are passed on as they    *)
(* are.                                                                    *)
ReleaseErrorAsIs(kind) == kind

(* What obtain_task_key makes of an error of the second connection.        *)
ReleaseError(kind) == IF kind = "key_release_unreachable" THEN "key_release_mid_exchange" ELSE kind

ReleaseFails ==
  /\ step = "release"
  /\ \E kind \in {"key_release_unreachable", "key_release_mid_exchange", "key_release_protocol"} :
       Give(ReleaseError(kind))

(* The authority releases only to the key that the quote and a nonce of    *)
(* its own bind.                                                           *)
Release ==
  /\ step = "release" /\ nonce = "nonce" /\ releasedTo' = releasedTo \cup {self}
  /\ UNCHANGED <<step, nonce, issued, held, ending, identity, envelopes>>

KeyBox(state, to, text) == [state |-> state, to |-> to, text |-> text]
TaskKeyBox(to) == KeyBox("whole", to, Plain("task key"))

(* A reply is not authenticated and names no nonce: the host may break it  *)
(* in any way, seal a key of its own making to the enclave, and repeat any *)
(* box with the task key that the authority has sealed so far. It cannot   *)
(* make such a box.                                                        *)
KeyBoxes ==
  {KeyBox(s, self, <<>>) : s \in {"absent", "undecodable", "empty", "damaged", "whole"}}
    \cup {KeyBox("whole", self, Plain("forged"))} \cup {TaskKeyBox(k) : k \in releasedTo}

Replies == [success : BOOLEAN, released : {"yes", "no", "missing"}, key : KeyBoxes]

ReleaseReply ==
  /\ step = "release"
  /\ \E reply \in Replies :
       IF ~reply.success THEN Give("key_release_denied")
       ELSE LET parsed == ParseRelease(reply, self)
            IN IF parsed.ok
               THEN /\ held' = parsed.value /\ nonce' = None /\ End(None)
                    /\ UNCHANGED <<issued, releasedTo, identity, envelopes>>
               ELSE Give(parsed.kind)

-----------------------------------------------------------------------------
(* Envelopes.                                                              *)

Put(e) == Cardinality(wire \cup {e}) <= MaxWire /\ wire' = wire \cup {e}

(* A restarted enclave has another key, and nothing of what it held.       *)
Restart ==
  /\ \E k \in fresh : self' = k /\ fresh' = fresh \ {k}
  /\ held' = None /\ step' = "idle" /\ nonce' = None /\ ending' = None
  /\ issued' = FALSE /\ task' = None
  /\ UNCHANGED <<releasedTo, known, wire>>

(* The relay hears of the key later, and seals to the old one until then.  *)
Register ==
  /\ known # self /\ known' = self
  /\ UNCHANGED <<identity, wire, task, exchange>>

RelaySeals(id, n) ==
  /\ id # <<>> /\ n # <<>>
  /\ Put(SealTask(id, n, known))
  /\ UNCHANGED <<known, identity, task, exchange>>

(* The host: an envelope is lost, or comes out altered; its box, or the    *)
(* header of a result, or feedback is passed on as a result.               *)
Pass(e, altered) ==
  /\ wire' = (wire \ {e}) \cup altered
  /\ UNCHANGED <<known, identity, task, exchange>>

Lose(e) == Pass(e, {})

Damage(e, how) ==
  e.ciphertext.state = "whole" /\ Pass(e, {[e EXCEPT !.ciphertext.state = how]})

MixUp(e, id) ==
  /\ e.kind # "task"
  /\ \/ Pass(e, {[e EXCEPT !.task_id = id]})
     \/ Pass(e, {[e EXCEPT !.nonce = id]})
     \/ Pass(e, {[e EXCEPT !.kind = IF e.kind = "result" THEN "antibot_feedback" ELSE "result"]})

(* The task the enclave opens is the one it works on.                      *)
OpenTask(e) ==
  /\ e.kind = "task" /\ DecryptSealedTask(e, self).ok
  /\ task' = DecryptSealedTask(e, self).value
  /\ UNCHANGED <<known, wire, identity, exchange>>

Markdown == [format |-> "markdown"]

SealsResult ==
  /\ task # None
  /\ \E sent \in {SealResult([task_id |-> task.task_id, nonce |-> task.nonce, hash |-> "digest",
                              formats |-> {Markdown}], Committee)} :
       sent.ok /\ Put(sent.value)
  /\ UNCHANGED <<known, identity, task, exchange>>

(* Callers outside the enclave's work have ids from elsewhere.             *)
SealsFeedback(id, n) ==
  /\ \E status \in Status, suggest \in BOOLEAN :
       LET sent == MaybeSealFailure(id, n, status, suggest, Committee)
       IN sent.ok /\ \E e \in sent.value : Put(e)
  /\ UNCHANGED <<known, identity, task, exchange>>

(* What whoever has secret k gets out of an envelope, and what the host,   *)
(* which has none, gets.                                                   *)
Opened(e, k) ==
  CASE e.kind = "task" -> DecryptSealedTask(e, k)
    [] e.kind = "result" -> UnsealResult(e, k)
    [] OTHER -> UnsealFeedback(e, k)

HostOpened(e) ==
  CASE e.kind = "task" -> {DecryptWithoutReleasedKey(e)}
    [] e.kind = "result" -> {DecryptResultAsMinerHost(e), DecryptResultWithForeignKey(e)}
    [] OTHER -> {DecryptFeedbackAsMinerHost(e)}

Exchange ==
  \/ RequestNonce \/ NonceUnreachable \/ IssueNonce \/ NonceRefused \/ NonceArrives \/ NonceLost
  \/ Quote \/ ReleaseFails \/ Release \/ ReleaseReply

Envelopes ==
  \/ Restart \/ Register \/ SealsResult
  \/ \E id, n \in Id : RelaySeals(id, n) \/ SealsFeedback(id, n)
  \/ \E e \in wire :
       \/ OpenTask(e) \/ Lose(e)
       \/ \E how \in Wrecks : Damage(e, how)
       \/ \E id \in Id : MixUp(e, id)

Next == Exchange \/ Envelopes

Spec == Init /\ [][Next]_vars

-----------------------------------------------------------------------------
TypeOK ==
  /\ self \in Key /\ fresh \subseteq Key /\ known \in Key
  /\ step \in {"idle", "nonce_asked", "quote", "release"}
  /\ issued \in BOOLEAN /\ releasedTo \subseteq Key

(* An envelope as far as it can be told from one that was only routed: its *)
(* box is whole, its header has the ids that are in the box, and what is   *)
(* routed as feedback has a code in it. Beyond that the kind, which only   *)
(* stands in the clear header, says nothing of what was sealed.            *)
Intact(e) ==
  /\ e.ciphertext.state = "whole"
  /\ e.kind # "task" => e.task_id = e.ciphertext.body.task_id /\ e.nonce = e.ciphertext.body.nonce
  /\ e.kind = "antibot_feedback" => e.ciphertext.body.formats # {Markdown}

(* An envelope that opens is intact, and opens to exactly the ids that     *)
(* were sealed and only for the key pair it was sealed to: whatever the    *)
(* host did to its header or its box, and whatever the ids hold            *)
(* (decrypt_sealed_task, unseal_result_with_committee_secret).             *)
OpensAsSealed ==
  \A e \in wire :
    /\ \A got \in HostOpened(e) : ~got.ok
    /\ \A k \in Key :
         LET got == Opened(e, k)
             sent == e.ciphertext.body
         IN got.ok => /\ e.ciphertext.to = k /\ Intact(e)
                      /\ got.value.task_id = sent.task_id /\ got.value.nonce = sent.nonce

(* An intact envelope is never refused to the one it was sealed to, unless *)
(* an id of it holds a "|" (a task) or a NUL. Feedback passed on as a      *)
(* result is intact, and opens as a result (result.rs).                    *)
WholeEnvelopesOpen ==
  \A e \in wire :
    Intact(e) =>
      \/ Opened(e, e.recipient_key_id).ok
      \/ \E f \in {"task_id", "nonce"} :
           LET id == e.ciphertext.body[f] IN IF e.kind = "task" THEN Len(id) > 1 ELSE Contains(id, Nul)

(* Only an intact envelope opens, to the ids that were sealed and for whom *)
(* it was sealed, and every intact one does, but for ids with separators   *)
(* in them. It says nothing of the kind: feedback routed as a result opens *)
(* as one (task.rs, result.rs, antibot_feedback.rs).                       *)
OpensExactlyAsSealed == OpensAsSealed /\ WholeEnvelopesOpen

(* What the enclave holds came in a box sealed to the very key pair it has *)
(* now, at the end of an exchange without an error; if it is the task key, *)
(* the authority released it to that key pair, and not only to one from    *)
(* before a restart. It may be a key of the host's making, for the reply   *)
(* is not authenticated. An exchange's error tells how far it got:         *)
(* unreachable only when no nonce was issued (keyrelease.rs, error.rs).    *)
KeyOnlyOnRelease ==
  /\ held # None => /\ held.state = "whole" /\ held.to = self
                    /\ held = TaskKeyBox(self) => self \in releasedTo
  /\ ending = "key_release_unreachable" => ~issued
  /\ ending # None => held = None

=============================================================================
