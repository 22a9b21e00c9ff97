----------------------------- MODULE EnclaveProof -----------------------------
(***************************************************************************)
(* Enclave for any key pairs, ids and committee: the task key is held only *)
(* where it was released to the key pair that holds it, and an envelope    *)
(* that opens opens to what was sealed.  Then SealedNet for any            *)
(* connections, names and answers.                                         *)
(***************************************************************************)
EXTENDS Enclave, SealedNet, PositionsProof

(* While an exchange runs nothing is held, and no error is kept from the   *)
(* one before.                                                             *)
ExchangeInv == step # "idle" => held = None /\ ending = None

IInv == ExchangeInv /\ KeyOnlyOnRelease

-----------------------------------------------------------------------------
(* A reply that parses has a whole box for this very key pair, and if it   *)
(* is the task key that is in it, the authority made the box for this key  *)
(* pair (parse_release_response).                                          *)
LEMMA ParsedIsOurs ==
  ASSUME NEW reply \in Replies, ParseRelease(reply, self).ok
  PROVE  LET key == ParseRelease(reply, self).value
         IN /\ key.state = "whole" /\ key.to = self
            /\ key = TaskKeyBox(self) => self \in releasedTo
  <1>1. ParseRelease(reply, self) = Done(reply.key)
    <2>1. \A kind : ~Fail(kind).ok
      BY DEF Fail
    <2>2. QED
      BY <2>1 DEF ParseRelease
  <1>2. reply.key.state = "whole" /\ reply.key.to = self /\ reply.key.text # <<>>
    <2>1. reply.released \in {"yes", "no", "missing"}
      BY DEF Replies
    <2>2. QED
      BY <2>1 DEF ParseRelease, Done, Fail
  <1>3. reply.key = TaskKeyBox(self) => self \in releasedTo
    <2>1. reply.key \in KeyBoxes
      BY DEF Replies
    <2>2. \A state, text : KeyBox(state, self, text).text = text
      BY DEF KeyBox
    <2>3. CASE \E k \in releasedTo : reply.key = TaskKeyBox(k)
      <3>1. \A k : TaskKeyBox(k).to = k
        BY DEF TaskKeyBox, KeyBox
      <3>2. PICK k \in releasedTo : reply.key = TaskKeyBox(k)
        BY <2>3
      <3>3. k = self
        BY <1>2, <3>1, <3>2
      <3>4. QED
        BY <3>3
    <2>4. CASE \E state : reply.key = KeyBox(state, self, <<>>)
      BY <1>2, <2>2, <2>4
    <2>5. CASE reply.key = KeyBox("whole", self, Plain("forged"))
      <3>1. Plain("forged") # Plain("task key")
        BY DEF Plain, Part
      <3>2. reply.key.text = Plain("forged")
        BY <2>2, <2>5, Zenon
      <3>3. TaskKeyBox(self).text = Plain("task key")
        BY <2>2, Zenon DEF TaskKeyBox
      <3>4. QED
        BY <3>1, <3>2, <3>3, Zenon
    <2>6. \/ \E state : reply.key = KeyBox(state, self, <<>>)
          \/ reply.key = KeyBox("whole", self, Plain("forged"))
          \/ \E k \in releasedTo : reply.key = TaskKeyBox(k)
      BY <2>1, Zenon DEF KeyBoxes
    <2>7. QED
      BY <2>3, <2>4, <2>5, <2>6, Zenon
  <1>4. QED
    BY <1>1, <1>2, <1>3 DEF Done

(* A reply that is refused says something else than that no nonce came.    *)
LEMMA RefusalIsLate ==
  ASSUME NEW reply, ~ParseRelease(reply, self).ok
  PROVE  ParseRelease(reply, self).kind # "key_release_unreachable"
  BY DEF ParseRelease, Fail, Done

LEMMA InitInv == Init => IInv
  BY EnclaveAssumption DEF Init, IInv, ExchangeInv, KeyOnlyOnRelease

(* Giving up an exchange keeps the invariant, if the error says how far it *)
(* got.                                                                    *)
LEMMA GiveInv ==
  ASSUME IInv, step # "idle", NEW kind, kind = "key_release_unreachable" => ~issued, Give(kind)
  PROVE  IInv'
  BY DEF IInv, ExchangeInv, KeyOnlyOnRelease, Give, End

LEMMA ReleaseReplyInv ==
  ASSUME IInv, ReleaseReply
  PROVE  IInv'
  <1>1. step = "release"
    BY DEF ReleaseReply
  <1>2. PICK reply \in Replies :
          IF ~reply.success THEN Give("key_release_denied")
          ELSE LET parsed == ParseRelease(reply, self)
               IN IF parsed.ok
                  THEN /\ held' = parsed.value /\ nonce' = None /\ End(None)
                       /\ UNCHANGED <<issued, releasedTo, identity, envelopes>>
                  ELSE Give(parsed.kind)
    BY DEF ReleaseReply
  <1>3. CASE ~reply.success
    BY <1>1, <1>2, <1>3, GiveInv
  <1>4. CASE reply.success /\ ParseRelease(reply, self).ok
    <2> DEFINE key == ParseRelease(reply, self).value
    <2>1. key.state = "whole" /\ key.to = self /\ (key = TaskKeyBox(self) => self \in releasedTo)
      BY <1>4, ParsedIsOurs
    <2>2. /\ held' = key /\ step' = "idle" /\ ending' = None
          /\ releasedTo' = releasedTo /\ self' = self
      BY <1>2, <1>4 DEF End, identity
    <2>3. None # "key_release_unreachable"
      BY EnclaveAssumption
    <2> HIDE DEF key
    <2>4. ExchangeInv'
      BY <2>2 DEF ExchangeInv
    <2>5. KeyOnlyOnRelease'
      BY <2>1, <2>2, <2>3 DEF KeyOnlyOnRelease, TaskKeyBox, KeyBox
    <2>6. QED
      BY <2>4, <2>5 DEF IInv
  <1>5. CASE reply.success /\ ~ParseRelease(reply, self).ok
    BY <1>1, <1>2, <1>5, GiveInv, RefusalIsLate
  <1>6. QED
    BY <1>3, <1>4, <1>5

LEMMA ExchangeStep ==
  ASSUME IInv, Exchange
  PROVE  IInv'
  <1>1. CASE RequestNonce
    BY <1>1 DEF RequestNonce, IInv, ExchangeInv, KeyOnlyOnRelease
  <1>2. CASE NonceUnreachable
    BY <1>2, GiveInv DEF NonceUnreachable
  <1>3. CASE IssueNonce
    BY <1>3, EnclaveAssumption DEF IssueNonce, IInv, ExchangeInv, KeyOnlyOnRelease, identity
  <1>4. CASE NonceRefused
    BY <1>4, GiveInv DEF NonceRefused
  <1>5. CASE NonceArrives
    BY <1>5 DEF NonceArrives, IInv, ExchangeInv, KeyOnlyOnRelease, identity
  <1>6. CASE NonceLost
    BY <1>6, GiveInv DEF NonceLost
  <1>7. CASE Quote
    <2>1. CASE Give("quote_failed")
      BY <1>7, <2>1, GiveInv DEF Quote
    <2>2. CASE step' = "release" /\ UNCHANGED <<nonce, issued, releasedTo, held, ending, identity, envelopes>>
      BY <1>7, <2>2 DEF Quote, IInv, ExchangeInv, KeyOnlyOnRelease, identity
    <2>3. QED
      BY <1>7, <2>1, <2>2 DEF Quote
  <1>8. CASE ReleaseFails
    BY <1>8, GiveInv DEF ReleaseFails, ReleaseError
  <1>9. CASE Release
    BY <1>9 DEF Release, IInv, ExchangeInv, KeyOnlyOnRelease, identity
  <1>10. CASE ReleaseReply
    BY <1>10, ReleaseReplyInv
  <1>11. QED
    BY <1>1, <1>2, <1>3, <1>4, <1>5, <1>6, <1>7, <1>8, <1>9, <1>10 DEF Exchange

(* What happens to envelopes leaves the exchange alone, but for a restart. *)
LEMMA EnvelopesStep ==
  ASSUME IInv, Envelopes
  PROVE  IInv'
  <1>1. CASE Restart
    BY <1>1 DEF Restart, IInv, ExchangeInv, KeyOnlyOnRelease
  <1>2. CASE ~Restart
    <2>1. UNCHANGED <<identity, exchange>>
      BY <1>2 DEF Envelopes, Register, SealsResult, RelaySeals, SealsFeedback, OpenTask,
                  Lose, Damage, MixUp, Pass
    <2>2. QED
      BY <2>1 DEF IInv, ExchangeInv, KeyOnlyOnRelease, identity, exchange
  <1>3. QED
    BY <1>1, <1>2

(* What is held came in a box for the key pair that holds it, the task key *)
(* only where the authority released it to that very key pair, and an      *)
(* error tells how far the exchange got, for any number of key pairs,      *)
(* exchanges and restarts, and whatever the host replies (keyrelease.rs).  *)
THEOREM KeysAreReleased == Spec => []KeyOnlyOnRelease
  <1>1. IInv /\ UNCHANGED vars => IInv'
    BY DEF IInv, ExchangeInv, KeyOnlyOnRelease, vars
  <1>2. IInv /\ [Next]_vars => IInv'
    BY <1>1, ExchangeStep, EnvelopesStep DEF Next
  <1>3. IInv => KeyOnlyOnRelease
    BY DEF IInv
  <1>4. QED
    BY <1>2, <1>3, InitInv, PTL DEF Spec

-----------------------------------------------------------------------------
(* The variables keep their types (keyrelease.rs, identity.rs).            *)
THEOREM TypeCorrect == Spec => []TypeOK
  <1>1. Init => TypeOK
    BY EnclaveAssumption DEF Init, TypeOK
  <1>2. TypeOK /\ [Next]_vars => TypeOK'
    <2> SUFFICES ASSUME TypeOK, [Next]_vars PROVE TypeOK'
      OBVIOUS
    <2>1. CASE Exchange
      <3>1. UNCHANGED <<identity, envelopes>>
        BY <2>1 DEF Exchange, RequestNonce, NonceUnreachable, IssueNonce, NonceRefused, NonceArrives,
                    NonceLost, Quote, ReleaseFails, Release, ReleaseReply, Give
      <3>2. /\ step' \in {"idle", "nonce_asked", "quote", "release"}
            /\ issued' \in BOOLEAN /\ releasedTo' \subseteq Key
        BY <2>1 DEF TypeOK, Exchange, RequestNonce, NonceUnreachable, IssueNonce, NonceRefused,
                    NonceArrives, NonceLost, Quote, ReleaseFails, Release, ReleaseReply, Give, End
      <3>3. QED
        BY <3>1, <3>2 DEF TypeOK, identity, envelopes
    <2>2. CASE Restart
      BY <2>2 DEF TypeOK, Restart
    <2>3. CASE Register
      BY <2>3 DEF TypeOK, Register, identity, exchange
    <2>4. CASE Envelopes /\ ~Restart /\ ~Register
      <3>1. UNCHANGED <<identity, exchange, known>>
        BY <2>4 DEF Envelopes, SealsResult, RelaySeals, SealsFeedback, OpenTask,
                    Lose, Damage, MixUp, Pass
      <3>2. QED
        BY <3>1 DEF TypeOK, identity, exchange
    <2>5. CASE UNCHANGED vars
      BY <2>5 DEF TypeOK, vars
    <2>6. QED
      BY <2>1, <2>2, <2>3, <2>4, <2>5 DEF Next, Envelopes
  <1>3. QED
    BY <1>1, <1>2, PTL DEF Spec

-----------------------------------------------------------------------------
(* Only the secret a whole box was sealed to opens it.                     *)
LEMMA BoxOpens ==
  ASSUME NEW k, NEW box, OpenSealedBox(k, box).ok
  PROVE  box.to = k /\ box.state = "whole"
  BY DEF OpenSealedBox, Fail, Done

LEMMA TaskOpens ==
  ASSUME NEW e, NEW k, DecryptSealedTask(e, k).ok
  PROVE  /\ e.ciphertext.to = k /\ e.ciphertext.state = "whole"
         /\ DecryptSealedTask(e, k).value = e.ciphertext.body
  <1> DEFINE opened == OpenSealedBox(k, e.ciphertext)
             parsed == ParseAad(Header(opened.value))
  <1>1. ~(~ValidateTaskShape(e) \/ e.recipient_key_id # k)
    BY DEF DecryptSealedTask, Fail
  <1>2. opened.ok
    BY <1>1 DEF DecryptSealedTask
  <1>3. parsed.ok
    BY <1>1, <1>2 DEF DecryptSealedTask
  <1>4. DecryptSealedTask(e, k) = Bound(e, opened.value, parsed.value, k)
    BY <1>1, <1>2, <1>3 DEF DecryptSealedTask
  <1>5. Bound(e, opened.value, parsed.value, k).value = e.ciphertext.body
    <2> HIDE DEF opened, parsed
    <2> QED BY <1>4 DEF Bound, Fail, Done
  <1>6. QED
    BY <1>2, <1>4, <1>5, BoxOpens

LEMMA ResultOpens ==
  ASSUME NEW e, NEW k, UnsealResult(e, k).ok
  PROVE  /\ e.ciphertext.to = k /\ e.ciphertext.state = "whole"
         /\ UnsealResult(e, k).value = e.ciphertext.body
         /\ SameHeader(e, e.ciphertext.body)
  <1> DEFINE opened == OpenSealedBox(k, e.ciphertext)
             bad == \/ ~ValidateResultShape(e) \/ e.ciphertext.state = "undecodable"
                    \/ e.ciphertext.state = "short" \/ e.recipient_key_id # k
  <1>1. ~bad
    BY DEF UnsealResult, Fail
  <1>2. opened.ok
    BY <1>1 DEF UnsealResult
  <1>3. /\ UnsealResult(e, k) = Done(e.ciphertext.body)
        /\ SameHeader(e, e.ciphertext.body)
    BY <1>1, <1>2 DEF UnsealResult, Fail
  <1>4. QED
    BY <1>2, <1>3, BoxOpens DEF Done

(* Feedback is a result routed under another kind.                         *)
LEMMA FeedbackOpens ==
  ASSUME NEW e, NEW k, UnsealFeedback(e, k).ok
  PROVE  /\ UnsealResult([e EXCEPT !.kind = "result"], k).ok
         /\ LET plain == UnsealResult([e EXCEPT !.kind = "result"], k).value
                got == UnsealFeedback(e, k).value
            IN /\ got.task_id = plain.task_id /\ got.nonce = plain.nonce
               /\ \E f \in plain.formats : "failure" \in DOMAIN f
  <1> DEFINE opened == UnsealResult([e EXCEPT !.kind = "result"], k)
             coded == {f \in opened.value.formats : "failure" \in DOMAIN f}
             got == [task_id |-> opened.value.task_id, nonce |-> opened.value.nonce,
                     feedback |-> CHOOSE f \in coded : TRUE]
  <1>1. ValidateFeedbackShape(e)
    BY DEF UnsealFeedback, Fail
  <1>2. opened.ok
    BY <1>1 DEF UnsealFeedback
  <1>3. UnsealFeedback(e, k) = IF coded = {} THEN Fail("malformed_plaintext") ELSE Done(got)
    BY <1>1, <1>2 DEF UnsealFeedback
  <1>4. UnsealFeedback(e, k).value = got /\ coded # {}
    <2> HIDE DEF opened, coded, got
    <2> QED BY <1>3 DEF Fail, Done
  <1>5. QED
    BY <1>2, <1>4

(* What has a code in it is not a result's one format.                     *)
LEMMA CodedIsNoMarkdown ==
  ASSUME NEW formats, NEW f \in formats, "failure" \in DOMAIN f
  PROVE  formats # {Markdown}
  BY DEF Markdown

(* Whatever the host does to an envelope's header or box, and whatever the *)
(* ids hold: it opens only intact, for the key pair it was sealed to only, *)
(* and to the ids that were sealed (decrypt_sealed_task,                   *)
(* unseal_result_with_committee_secret).                                   *)
THEOREM EnvelopesOpenAsSealed == Spec => []OpensAsSealed
  <1>1. OpensAsSealed
    <2> SUFFICES ASSUME NEW e \in wire
                 PROVE  /\ \A got \in HostOpened(e) : ~got.ok
                        /\ \A k \in Key :
                             LET got == Opened(e, k)
                                 sent == e.ciphertext.body
                             IN got.ok => /\ e.ciphertext.to = k /\ Intact(e)
                                          /\ got.value.task_id = sent.task_id /\ got.value.nonce = sent.nonce
      BY DEF OpensAsSealed
    <2>1. \A got \in HostOpened(e) : ~got.ok
      <3>1. \A kind : ~Fail(kind).ok
        BY DEF Fail
      <3>2. QED
        BY <3>1 DEF HostOpened, DecryptWithoutReleasedKey, DecryptResultAsMinerHost,
                    DecryptResultWithForeignKey, DecryptFeedbackAsMinerHost
    <2>2. ASSUME NEW k \in Key, Opened(e, k).ok
          PROVE  /\ e.ciphertext.to = k /\ Intact(e)
                 /\ Opened(e, k).value.task_id = e.ciphertext.body.task_id
                 /\ Opened(e, k).value.nonce = e.ciphertext.body.nonce
      <3>1. CASE e.kind = "task"
        BY <2>2, <3>1, TaskOpens DEF Opened, Intact
      <3>2. CASE e.kind = "result"
        BY <2>2, <3>2, ResultOpens DEF Opened, SameHeader, Intact
      <3>3. CASE e.kind # "task" /\ e.kind # "result"
        <4>1. Opened(e, k) = UnsealFeedback(e, k)
          BY <3>3 DEF Opened
        <4> DEFINE r == [e EXCEPT !.kind = "result"]
        <4>2. /\ UnsealResult(r, k).ok
              /\ Opened(e, k).value.task_id = UnsealResult(r, k).value.task_id
              /\ Opened(e, k).value.nonce = UnsealResult(r, k).value.nonce
              /\ \E f \in UnsealResult(r, k).value.formats : "failure" \in DOMAIN f
          BY <2>2, <4>1, FeedbackOpens
        <4>3. /\ r.ciphertext.to = k /\ r.ciphertext.state = "whole"
              /\ UnsealResult(r, k).value = r.ciphertext.body
              /\ SameHeader(r, r.ciphertext.body)
          BY <4>2, ResultOpens
        <4>4. r.ciphertext = e.ciphertext /\ r.task_id = e.task_id /\ r.nonce = e.nonce
          OBVIOUS
        <4>5. e.ciphertext.body.formats # {Markdown}
          BY <4>2, <4>3, <4>4, CodedIsNoMarkdown
        <4>6. QED
          BY <4>2, <4>3, <4>4, <4>5 DEF SameHeader, Intact
      <3>4. QED
        BY <3>1, <3>2, <3>3
    <2>3. QED
      BY <2>1, <2>2
  <1>2. QED
    BY <1>1, PTL DEF Spec

-----------------------------------------------------------------------------
(* Parts as they stand in a header, and those of them that are no NUL.     *)
Hashes == {"digest", "blocked", "rate_limited", "upstream_unavailable", "empty", "ok"}
Name == Text \cup {Blank, "NUL", "task_id", "nonce", "result_hash", "recipient_key_id", "recipient"}
Value == Text \cup Key \cup Hashes
           \cup {Blank, "relay/task-seal/v1", "relay/result-seal/v1", "committee-threshold"}
AnyPart == [name : Name, value : Value]
Clean == AnyPart \ {Nul}

(* A text without a NUL is read back whole from before the one that is put *)
(* behind it (split_aad_plaintext).                                        *)
LEMMA NulEnds ==
  ASSUME NEW s \in Seq(Clean)
  PROVE  Header(s \o <<Nul>>) = s /\ BodyIntact(s \o <<Nul>>)
  <1> DEFINE text == s \o <<Nul>>
             at == {i \in 1..Len(text) : text[i] = Nul}
             n == Len(s) + 1
  <1>1. Nul \in AnyPart
    BY DEF Nul, Part, AnyPart, Name, Value
  <1>2. text \in Seq(AnyPart) /\ Len(text) = n /\ text[n] = Nul /\ \A i \in 1..Len(s) : text[i] = s[i]
    BY <1>1 DEF Clean
  <1>3. \A i \in 1..Len(s) : s[i] # Nul
    BY DEF Clean
  <1>4. Len(s) \in Nat
    OBVIOUS
  <1>5. at = {n}
    BY <1>2, <1>3, <1>4
  <1>6. SelectInSeq(text, LAMBDA p : p = Nul) = n
    <2>1. Min({n}) = n
      BY <1>4 DEF Min
    <2>2. SelectInSeq(text, LAMBDA p : p = Nul) = IF at # {} THEN Min(at) ELSE 0
      BY DEF SelectInSeq
    <2>3. QED
      BY <1>5, <2>1, <2>2
  <1>7. SubSeq(text, 1, n - 1) = s
    <2> HIDE DEF text
    <2> SUFFICES SubSeq(text, 1, Len(s)) = s
      BY <1>4
    <2>1. SubSeq(text, 1, Len(s)) \in Seq(AnyPart) /\ Len(SubSeq(text, 1, Len(s))) = Len(s)
      BY <1>2, <1>4
    <2>2. \A i \in 1..Len(s) : SubSeq(text, 1, Len(s))[i] = s[i]
      BY <1>2, <1>4
    <2>3. s \in Seq(AnyPart)
      BY DEF Clean
    <2>4. QED
      BY <2>1, <2>2, <2>3, SeqEqual
  <1>8. QED
    BY <1>2, <1>6, <1>7 DEF Header, BodyIntact

(* A named id that holds no NUL is clean.                                  *)
LEMMA NamedIsClean ==
  ASSUME NEW name \in Name, name # "NUL", NEW id \in Seq(AnyPart), id # <<>>, ~Contains(id, Nul)
  PROVE  Named(name, id) \in Seq(Clean)
  <1>1. Tail(id) \in Seq(Clean)
    BY DEF Contains, Clean
  <1>2. Head(id) \in AnyPart
    OBVIOUS
  <1>3. Part(name, Head(id).value) \in Clean
    BY <1>2 DEF Part, Nul, Clean, AnyPart
  <1>4. <<Part(name, Head(id).value)>> \in Seq(Clean)
    BY <1>3
  <1>5. QED
    BY <1>1, <1>4 DEF Named

(* A sequence of one element.                                              *)
LEMMA OneElement ==
  ASSUME NEW T, NEW s \in Seq(T), s # <<>>, Len(s) <= 1
  PROVE  Len(s) = 1 /\ s[1] \in T /\ s = <<s[1]>> /\ Head(s) = s[1] /\ Tail(s) = <<>>
  <1>1. Len(s) \in Nat \ {0}
    BY EmptySeq
  <1>2. Len(s) = 1
    BY <1>1
  <1>3. s[1] \in T
    BY <1>2, ElementOfSeq
  <1>4. s = <<s[1]>>
    BY <1>2, <1>3, SeqEqual
  <1>5. Head(<<s[1]>>) = s[1] /\ Tail(<<s[1]>>) = <<>>
    OBVIOUS
  <1>6. QED
    BY <1>2, <1>3, <1>4, <1>5

(* A sequence with an element put behind it.                               *)
LEMMA Longer ==
  ASSUME NEW T, NEW s \in Seq(T), NEW x \in T, NEW n \in Nat, Len(s) = n
  PROVE  /\ s \o <<x>> \in Seq(T) /\ Len(s \o <<x>>) = n + 1
         /\ (s \o <<x>>)[n + 1] = x /\ \A i \in 1..n : (s \o <<x>>)[i] = s[i]
  OBVIOUS

(* Four elements put behind one another.                                   *)
LEMMA FourJoined ==
  ASSUME NEW T, NEW a \in T, NEW b \in T, NEW c \in T, NEW d \in T
  PROVE  LET s == <<a>> \o <<b>> \o <<c>> \o <<d>>
         IN /\ s \in Seq(T) /\ Len(s) = 4
            /\ s[1] = a /\ s[2] = b /\ s[3] = c /\ s[4] = d
            /\ SubSeq(s, 1, 1) = <<a>>
  <1> DEFINE p == <<a>> \o <<b>>
             q == p \o <<c>>
             s == q \o <<d>>
  <1>1. p \in Seq(T) /\ Len(p) = 2 /\ p[1] = a /\ p[2] = b
    <2>1. <<a>> \in Seq(T) /\ Len(<<a>>) = 1 /\ <<a>>[1] = a
      OBVIOUS
    <2>2. QED BY <2>1, Longer
  <1>2. q \in Seq(T) /\ Len(q) = 3 /\ q[1] = a /\ q[2] = b /\ q[3] = c
    <2> HIDE DEF p
    <2>1. Len(q) = 2 + 1 /\ q \in Seq(T)
      BY <1>1, ConcatProperties, 2 \in Nat
    <2>2. q[3] = c /\ \A i \in 1..2 : q[i] = p[i]
      BY <1>1, Longer
    <2> QED BY <1>1, <2>1, <2>2
  <1>3. s \in Seq(T) /\ Len(s) = 4 /\ s[1] = a /\ s[2] = b /\ s[3] = c /\ s[4] = d
    <2> HIDE DEF q
    <2>1. Len(s) = 4 /\ s \in Seq(T) /\ s[4] = d /\ \A i \in 1..3 : s[i] = q[i]
      BY <1>2, Longer
    <2> QED BY <1>2, <2>1
  <1>4. SubSeq(s, 1, 1) = <<a>>
    <2>0. s[1] = a
      BY <1>3
    <2> HIDE DEF s
    <2> DEFINE h == SubSeq(s, 1, 1)
    <2>1. h \in Seq(T) /\ Len(h) = 1 /\ h[1] = a
      BY <1>3
    <2> HIDE DEF h
    <2>2. Len(<<>>) # Len(h) /\ Len(h) <= 1
      BY <2>1
    <2>3. h = <<h[1]>>
      <3>1. h # <<>>
        BY <2>2
      <3>2. QED
        BY <2>1, <2>2, <3>1, OneElement
    <2>4. h = <<a>>
      BY <2>1, <2>3
    <2>5. QED
      BY <2>4 DEF h
  <1>5. QED
    BY <1>3, <1>4

(* The empty string is none of the names.                                  *)
LEMMA BlankIsNoName ==
  Blank \notin {"NUL", "task_id", "nonce", "result_hash", "recipient_key_id", "recipient"}
  BY DEF Blank

LEMMA IdIsParts ==
  ASSUME NEW id \in Id
  PROVE  id \in Seq(AnyPart)
  <1>1. id \in Seq([name : Text, value : Text])
    BY EnclaveAssumption
  <1>2. [name : Text, value : Text] \subseteq AnyPart
    BY DEF AnyPart, Name, Value
  <1>3. QED
    BY <1>1, <1>2, SeqMonotonic

(* An id of one part is that part, plain, and not empty.                   *)
LEMMA IdIsPlain ==
  ASSUME NEW id \in Id, id # <<>>, Len(id) <= 1
  PROVE  id[1].value \in Text \ {Blank} /\ id = Plain(id[1].value)
  <1> DEFINE T == [name : Text, value : Text]
  <1>1. id \in Seq(T)
    BY EnclaveAssumption
  <1>2. Len(id) = 1 /\ id[1] \in T /\ id = <<id[1]>>
    <2> HIDE DEF T
    <2> QED BY <1>1, OneElement
  <1>3. id[1].name = Blank /\ id[1].value # Blank
    BY <1>2, EnclaveAssumption
  <1>4. id[1] = Part(Blank, id[1].value)
    BY <1>2, <1>3 DEF Part
  <1>5. QED
    BY <1>2, <1>3, <1>4 DEF Plain

LEMMA NamedPlain ==
  ASSUME NEW name, NEW v
  PROVE  Named(name, Plain(v)) = <<Part(name, v)>>
  <1>1. Head(Plain(v)) = Part(Blank, v) /\ Tail(Plain(v)) = <<>>
    BY DEF Plain
  <1>2. Head(Plain(v)).value = v
    BY <1>1 DEF Part
  <1>3. <<Part(name, v)>> \o <<>> = <<Part(name, v)>>
    OBVIOUS
  <1>4. QED
    BY <1>1, <1>2, <1>3 DEF Named

(* The header of a task whose ids are of one part each is read back.       *)
LEMMA TaskHeader ==
  ASSUME NEW v \in Text \ {Blank}, NEW w \in Text \ {Blank}, NEW k \in Key
  PROVE  LET aad == BuildAad(Plain(v), Plain(w), k)
         IN /\ aad \in Seq(Clean) /\ ParseAad(aad).ok
            /\ ParseAad(aad).value = [task_id |-> v, nonce |-> w, recipient_key_id |-> k]
  <1> DEFINE a == Part(Blank, "relay/task-seal/v1")
             b == Part("task_id", v)
             c == Part("nonce", w)
             d == Part("recipient_key_id", k)
             aad == BuildAad(Plain(v), Plain(w), k)
             given == {"task_id", "nonce", "recipient_key_id"}
             I(name) == {i \in 1..Len(aad) : aad[i].name = name}
             at(name) == SelectLastInSeq(aad, LAMBDA p : p.name = name)
  <1>1. a \in Clean /\ b \in Clean /\ c \in Clean /\ d \in Clean
    BY DEF Part, Clean, AnyPart, Name, Value, Nul
  <1>2. aad = <<a>> \o <<b>> \o <<c>> \o <<d>>
    BY NamedPlain DEF BuildAad, TaskDomain
  <1>3. /\ aad \in Seq(Clean) /\ Len(aad) = 4
        /\ aad[1] = a /\ aad[2] = b /\ aad[3] = c /\ aad[4] = d /\ SubSeq(aad, 1, 1) = <<a>>
    <2> DEFINE j == <<a>> \o <<b>> \o <<c>> \o <<d>>
    <2> HIDE DEF a, b, c, d, aad
    <2>1. /\ j \in Seq(Clean) /\ Len(j) = 4
          /\ j[1] = a /\ j[2] = b /\ j[3] = c /\ j[4] = d /\ SubSeq(j, 1, 1) = <<a>>
      BY <1>1, FourJoined
    <2>2. aad = j
      BY <1>2
    <2> HIDE DEF j
    <2>3. QED
      BY <2>1, <2>2
  <1>4. I("task_id") = {2} /\ I("nonce") = {3} /\ I("recipient_key_id") = {4}
    <2>1. a.name = Blank /\ b.name = "task_id" /\ c.name = "nonce" /\ d.name = "recipient_key_id"
      BY DEF Part
    <2> HIDE DEF a, b, c, d, aad, at
    <2>2. \A i \in 1..4 : i = 1 \/ i = 2 \/ i = 3 \/ i = 4
      OBVIOUS
    <2>3. ASSUME NEW name, NEW n \in 1..4, \A i \in 1..4 : (aad[i].name = name) = (i = n)
          PROVE  I(name) = {n}
      BY <1>3, <2>3
    <2>4. \A i \in 1..4 : /\ (aad[i].name = "task_id") = (i = 2)
                          /\ (aad[i].name = "nonce") = (i = 3)
                          /\ (aad[i].name = "recipient_key_id") = (i = 4)
      BY <1>3, <2>1, <2>2, BlankIsNoName
    <2> HIDE DEF I
    <2>5. QED
      BY <2>3, <2>4
  <1>5. ASSUME NEW name, NEW i \in Nat, I(name) = {i}
        PROVE  at(name) = i
    <2>1. at(name) = IF I(name) # {} THEN Max(I(name)) ELSE 0
      BY DEF SelectLastInSeq
    <2>2. Max({i}) = i
      BY <1>5 DEF Max
    <2> HIDE DEF I, at
    <2>3. QED
      BY <1>5, <2>1, <2>2
  <1>6. at("task_id") = 2 /\ at("nonce") = 3 /\ at("recipient_key_id") = 4
    <2> HIDE DEF I, at
    <2> QED BY <1>4, <1>5
  <1>7. aad[2].value = v /\ aad[3].value = w /\ aad[4].value = k /\ SubSeq(aad, 1, 1) = TaskDomain
    <2>1. b.value = v /\ c.value = w /\ d.value = k /\ <<a>> = TaskDomain
      BY DEF Part, TaskDomain
    <2> HIDE DEF a, b, c, d, aad
    <2>2. QED
      BY <1>3, <2>1
  <1>8. aad # <<>>
    <2> HIDE DEF a, b, c, d, aad
    <2> QED BY <1>3, EmptySeq, SMTT(40)
  <1>9. ParseAad(aad) = Done([name \in given |-> aad[at(name)].value])
    <2>1. \A name \in given : at(name) # 0 /\ aad[at(name)].value # Blank
      <3>1. k # Blank
        BY EnclaveAssumption
      <3> HIDE DEF at, aad
      <3>2. QED
        BY <1>6, <1>7, <3>1
    <2>2. aad[at("recipient_key_id")].value \in Key
      <3> HIDE DEF at, aad
      <3> QED BY <1>6, <1>7
    <2>3. ParseAad(aad) =
            IF aad = <<>> \/ SubSeq(aad, 1, 1) # TaskDomain THEN Fail("authentication_failed")
            ELSE IF \E name \in given : at(name) = 0 \/ aad[at(name)].value = Blank THEN Fail("malformed_plaintext")
            ELSE IF aad[at("recipient_key_id")].value \notin Key THEN Fail("malformed_plaintext")
            ELSE Done([name \in given |-> aad[at(name)].value])
      BY DEF ParseAad
    <2>4. QED
      <3> HIDE DEF at, aad, given
      <3> QED BY <1>7, <1>8, <2>1, <2>2, <2>3
  <1>10. [name \in given |-> aad[at(name)].value] = [task_id |-> v, nonce |-> w, recipient_key_id |-> k]
    <2> HIDE DEF at, aad
    <2> QED BY <1>6, <1>7
  <1>11. QED
    <2> HIDE DEF at, aad, given
    <2> SUFFICES /\ aad \in Seq(Clean) /\ ParseAad(aad).ok
                 /\ ParseAad(aad).value = [task_id |-> v, nonce |-> w, recipient_key_id |-> k]
      BY DEF aad
    <2> QED BY <1>3, <1>9, <1>10 DEF Done

(* What was sealed is still in every envelope, whatever became of its box: *)
(* the host has no way to make one.                                        *)
SealedIds(body) == body.task_id \in Id \ {<<>>} /\ body.nonce \in Id \ {<<>>}

TaskAsSealed(e) ==
  /\ e.kind = "task" /\ e.shaped
  /\ e.recipient_key_id \in Key /\ e.ciphertext.to = e.recipient_key_id
  /\ SealedIds(e.ciphertext.body)
  /\ e.ciphertext.body = [task_id |-> e.ciphertext.body.task_id, nonce |-> e.ciphertext.body.nonce]
  /\ e.ciphertext.text = BuildAad(e.ciphertext.body.task_id, e.ciphertext.body.nonce, e.recipient_key_id)

ResultAsSealed(e) ==
  /\ e.kind \in {"result", "antibot_feedback"} /\ e.shaped
  /\ e.recipient_key_id \in Key /\ e.ciphertext.to = e.recipient_key_id
  /\ SealedIds(e.ciphertext.body)
  /\ e.hash \in Hashes /\ e.ciphertext.body.hash = e.hash
  /\ e.ciphertext.text = BuildResultAad(e.ciphertext.body.task_id, e.ciphertext.body.nonce, e.hash,
                                        e.recipient_key_id)
  /\ \/ e.ciphertext.body.formats = {Markdown}
     \/ \E status \in Status, suggest \in BOOLEAN :
          e.ciphertext.body.formats = {FeedbackFor(status, suggest)}

WireInv ==
  /\ \A e \in wire : TaskAsSealed(e) \/ ResultAsSealed(e)
  /\ task # None => SealedIds(task)
  /\ known \in Key /\ self \in Key /\ fresh \subseteq Key

(* A task of plain ids in a whole box opens for the key it was sealed to   *)
(* (decrypt_sealed_task).                                                  *)
LEMMA PlainTaskOpens ==
  ASSUME NEW e, TaskAsSealed(e), e.ciphertext.state = "whole",
         ~(Len(e.ciphertext.body.task_id) > 1), ~(Len(e.ciphertext.body.nonce) > 1)
  PROVE  DecryptSealedTask(e, e.recipient_key_id).ok
  <1> DEFINE k == e.recipient_key_id
             id == e.ciphertext.body.task_id
             n == e.ciphertext.body.nonce
             v == id[1].value
             w == n[1].value
             aad == BuildAad(Plain(v), Plain(w), k)
             text == aad \o <<Nul>>
             fields == [task_id |-> v, nonce |-> w, recipient_key_id |-> k]
  <1>1. /\ e.shaped /\ k \in Key /\ e.ciphertext.to = k /\ id \in Id \ {<<>>} /\ n \in Id \ {<<>>}
        /\ e.ciphertext.body = [task_id |-> id, nonce |-> n] /\ e.ciphertext.text = BuildAad(id, n, k)
    BY DEF TaskAsSealed, SealedIds
  <1>2. Len(id) <= 1 /\ Len(n) <= 1
    <2>1. Len(id) \in Nat /\ Len(n) \in Nat
      <3>1. id \in Seq(AnyPart) /\ n \in Seq(AnyPart)
        BY <1>1, IdIsParts
      <3> HIDE DEF id, n
      <3>2. QED
        BY <3>1, LenProperties
    <2>2. QED
      BY <2>1
  <1>3. v \in Text \ {Blank} /\ id = Plain(v) /\ w \in Text \ {Blank} /\ n = Plain(w)
    <2> HIDE DEF id, n
    <2> QED BY <1>1, <1>2, IdIsPlain
  <1>4. aad \in Seq(Clean) /\ ParseAad(aad).ok /\ ParseAad(aad).value = fields
    <2> HIDE DEF v, w, k
    <2> QED BY <1>1, <1>3, TaskHeader
  <1>5. Header(text) = aad /\ BodyIntact(text)
    <2> HIDE DEF aad
    <2> QED BY <1>4, NulEnds
  <1>6. OpenSealedBox(k, e.ciphertext) = Done(text)
    <2>1. e.ciphertext.text = aad
      BY <1>1, <1>3
    <2>2. QED
      BY <1>1, <2>1 DEF OpenSealedBox
  <1>7. Bound(e, text, fields, k) = Done(e.ciphertext.body)
    <2>1. e.ciphertext.body = [task_id |-> Plain(v), nonce |-> Plain(w)]
      BY <1>1, <1>3
    <2>2. fields.task_id = v /\ fields.nonce = w /\ fields.recipient_key_id = k
      OBVIOUS
    <2> HIDE DEF v, w, k, text, fields
    <2>3. QED
      BY <1>5, <2>1, <2>2 DEF Bound
  <1>8. DecryptSealedTask(e, k) = Bound(e, text, fields, k)
    <2>1. Done(text).ok /\ Done(text).value = text
      BY DEF Done
    <2>2. ValidateTaskShape(e)
      BY <1>1 DEF ValidateTaskShape
    <2> HIDE DEF text, fields, aad
    <2>3. QED
      BY <1>4, <1>5, <1>6, <2>1, <2>2, SMTT(40) DEF DecryptSealedTask
  <1>9. QED
    BY <1>7, <1>8 DEF Done

(* A result whose ids hold no NUL, in a whole box under its own header,    *)
(* opens for the committee (unseal_result_with_committee_secret).          *)
LEMMA CleanResultOpens ==
  ASSUME NEW e, ResultAsSealed(e), e.kind = "result", e.ciphertext.state = "whole",
         e.task_id = e.ciphertext.body.task_id, e.nonce = e.ciphertext.body.nonce,
         ~Contains(e.ciphertext.body.task_id, Nul), ~Contains(e.ciphertext.body.nonce, Nul)
  PROVE  UnsealResult(e, e.recipient_key_id) = Done(e.ciphertext.body)
  <1> DEFINE k == e.recipient_key_id
             aad == BuildResultAad(e.task_id, e.nonce, e.hash, k)
             text == aad \o <<Nul>>
  <1>1. /\ e.shaped /\ k \in Key /\ e.ciphertext.to = k /\ e.task_id \in Id \ {<<>>} /\ e.nonce \in Id \ {<<>>}
        /\ e.hash \in Hashes /\ e.ciphertext.body.hash = e.hash /\ e.ciphertext.text = aad
    BY DEF ResultAsSealed, SealedIds
  <1>2. aad \in Seq(Clean)
    <2>1. /\ Named("task_id", e.task_id) \in Seq(Clean)
          /\ Named("nonce", e.nonce) \in Seq(Clean)
      BY <1>1, IdIsParts, NamedIsClean DEF Name
    <2>2. /\ Named("result_hash", Plain(e.hash)) \in Seq(Clean)
          /\ Named("recipient_key_id", Plain(k)) \in Seq(Clean)
          /\ Named("recipient", Plain("committee-threshold")) \in Seq(Clean)
          /\ ResultDomain \in Seq(Clean)
      <3>1. ASSUME NEW name \in Name, name # "NUL", NEW v \in Value
            PROVE  <<Part(name, v)>> \in Seq(Clean)
        <4>1. Part(name, v) \in Clean
          BY <3>1 DEF Clean, AnyPart, Part, Nul
        <4>2. QED
          BY <4>1
      <3>2. /\ Blank \in Name /\ "result_hash" \in Name /\ "recipient_key_id" \in Name /\ "recipient" \in Name
            /\ e.hash \in Value /\ k \in Value /\ "committee-threshold" \in Value
            /\ "relay/result-seal/v1" \in Value
        BY <1>1 DEF Name, Value
      <3>3. QED
        BY <3>1, <3>2, NamedPlain, BlankIsNoName DEF ResultDomain
    <2>3. QED
      BY <2>1, <2>2, ConcatProperties DEF BuildResultAad
  <1>3. Header(text) = aad /\ BodyIntact(text)
    <2> HIDE DEF aad
    <2> QED BY <1>2, NulEnds
  <1>4. OpenSealedBox(k, e.ciphertext) = Done(text)
    BY <1>1 DEF OpenSealedBox
  <1>5. ValidateResultShape(e)
    <2>1. e.hash # Blank
      BY <1>1 DEF Hashes, Blank
    <2>2. QED
      BY <1>1, <2>1 DEF ValidateResultShape
  <1>6. SameHeader(e, e.ciphertext.body)
    BY <1>1 DEF SameHeader
  <1>7. Done(text).ok /\ Done(text).value = text
    BY DEF Done
  <1>8. QED
    <2> HIDE DEF text, aad
    <2>1. Header(text) = BuildResultAad(e.task_id, e.nonce, e.hash, e.recipient_key_id)
      BY <1>3 DEF aad
    <2>2. QED
      BY <1>3, <1>4, <1>5, <1>6, <1>7, <2>1 DEF UnsealResult

(* Feedback carries a code, whatever the status.                           *)
LEMMA FeedbackIsCoded ==
  ASSUME NEW status, NEW suggest
  PROVE  /\ FromHttpStatus(status) \in Hashes
         /\ FeedbackFor(status, suggest).failure = FromHttpStatus(status)
         /\ "failure" \in DOMAIN FeedbackFor(status, suggest)
  BY DEF FromHttpStatus, FeedbackFor, Hashes

(* Of an envelope as it was sealed, WholeEnvelopesOpen holds.              *)
LEMMA AsSealedOpens ==
  ASSUME NEW e, TaskAsSealed(e) \/ ResultAsSealed(e), Intact(e),
         ~ \E f \in {"task_id", "nonce"} :
             LET id == e.ciphertext.body[f] IN IF e.kind = "task" THEN Len(id) > 1 ELSE Contains(id, Nul)
  PROVE  Opened(e, e.recipient_key_id).ok
  <1>1. CASE TaskAsSealed(e)
    <2>1. e.kind = "task" /\ e.ciphertext.state = "whole"
      BY <1>1 DEF TaskAsSealed, Intact
    <2>2. ~(Len(e.ciphertext.body.task_id) > 1) /\ ~(Len(e.ciphertext.body.nonce) > 1)
      BY <2>1
    <2>3. QED
      <3>1. DecryptSealedTask(e, e.recipient_key_id).ok
        BY <1>1, <2>1, <2>2, PlainTaskOpens
      <3>2. QED
        BY <2>1, <3>1 DEF Opened
  <1>2. CASE ResultAsSealed(e)
    <2>1. /\ e.kind \in {"result", "antibot_feedback"} /\ e.ciphertext.state = "whole"
          /\ e.task_id = e.ciphertext.body.task_id /\ e.nonce = e.ciphertext.body.nonce
          /\ e.kind = "antibot_feedback" => e.ciphertext.body.formats # {Markdown}
      BY <1>2 DEF ResultAsSealed, Intact
    <2>2. ~Contains(e.ciphertext.body.task_id, Nul) /\ ~Contains(e.ciphertext.body.nonce, Nul)
      BY <2>1
    <2>3. CASE e.kind = "result"
      <3>1. UnsealResult(e, e.recipient_key_id) = Done(e.ciphertext.body)
        BY <1>2, <2>1, <2>2, <2>3, CleanResultOpens
      <3>2. QED
        BY <2>3, <3>1 DEF Opened, Done
    <2>4. CASE e.kind = "antibot_feedback"
      <3> DEFINE r == [e EXCEPT !.kind = "result"]
                 coded == {f \in e.ciphertext.body.formats : "failure" \in DOMAIN f}
      <3>1. r.kind = "result"
        BY <2>4
      <3>2. /\ r.shaped = e.shaped /\ r.recipient_key_id = e.recipient_key_id /\ r.ciphertext = e.ciphertext
            /\ r.hash = e.hash /\ r.task_id = e.task_id /\ r.nonce = e.nonce
        OBVIOUS
      <3>3. UnsealResult(r, r.recipient_key_id) = Done(r.ciphertext.body)
        <4>1. ResultAsSealed(r)
          <5> HIDE DEF r
          <5> QED BY <1>2, <3>1, <3>2 DEF ResultAsSealed
        <4> HIDE DEF r
        <4>2. QED
          BY <2>1, <2>2, <3>1, <3>2, <4>1, CleanResultOpens
      <3>4. coded # {}
        <4>1. \E status \in Status, suggest \in BOOLEAN :
                e.ciphertext.body.formats = {FeedbackFor(status, suggest)}
          BY <1>2, <2>1, <2>4 DEF ResultAsSealed
        <4>2. QED
          BY <4>1, FeedbackIsCoded
      <3>5. ValidateFeedbackShape(e)
        <4>1. e.shaped /\ SealedIds(e.ciphertext.body) /\ e.hash \in Hashes
          BY <1>2 DEF ResultAsSealed
        <4>2. e.hash # Blank
          BY <4>1 DEF Hashes, Blank
        <4>3. QED
          BY <2>1, <2>4, <4>1, <4>2 DEF ValidateFeedbackShape, SealedIds
      <3>6. UnsealResult(r, e.recipient_key_id) = Done(e.ciphertext.body)
        BY <3>2, <3>3
      <3>7. UnsealFeedback(e, e.recipient_key_id).ok
        <4> DEFINE opened == UnsealResult(r, e.recipient_key_id)
                   failed == {f \in opened.value.formats : "failure" \in DOMAIN f}
        <4>1. opened.ok /\ failed = coded
          BY <3>6 DEF Done
        <4>2. UnsealFeedback(e, e.recipient_key_id) =
                Done([task_id |-> opened.value.task_id, nonce |-> opened.value.nonce,
                      feedback |-> CHOOSE f \in failed : TRUE])
          BY <3>4, <3>5, <4>1 DEF UnsealFeedback
        <4>3. QED
          BY <4>2 DEF Done
      <3>8. QED
        BY <2>4, <3>7 DEF Opened
    <2>5. QED
      BY <2>1, <2>3, <2>4
  <1>3. QED
    BY <1>1, <1>2

-----------------------------------------------------------------------------
(* What is put on the wire is as it was sealed.                            *)
LEMMA PutKeeps ==
  ASSUME WireInv, NEW e, TaskAsSealed(e) \/ ResultAsSealed(e), Put(e),
         UNCHANGED <<known, identity, task, exchange>>
  PROVE  WireInv'
  BY DEF WireInv, Put, identity

LEMMA SealedTask ==
  ASSUME NEW id \in Id \ {<<>>}, NEW n \in Id \ {<<>>}, NEW k \in Key
  PROVE  TaskAsSealed(SealTask(id, n, k))
  BY DEF TaskAsSealed, SealTask, SealedIds, Box

LEMMA SealedResult ==
  ASSUME NEW plain, plain.task_id \in Id, plain.nonce \in Id, plain.hash \in Hashes,
         SealResult(plain, Committee).ok,
         \/ plain.formats = {Markdown}
         \/ \E status \in Status, suggest \in BOOLEAN : plain.formats = {FeedbackFor(status, suggest)}
  PROVE  /\ ResultAsSealed(SealResult(plain, Committee).value)
         /\ ResultAsSealed([SealResult(plain, Committee).value EXCEPT !.kind = "antibot_feedback"])
  <1> DEFINE sent == [shaped |-> TRUE, kind |-> "result", recipient_key_id |-> Committee.key_id,
                      task_id |-> plain.task_id, nonce |-> plain.nonce, hash |-> plain.hash,
                      ciphertext |-> Box(Committee.public_key,
                        BuildResultAad(plain.task_id, plain.nonce, plain.hash, Committee.key_id), plain)]
  <1>1. /\ SealResult(plain, Committee) = Done(sent)
        /\ plain.task_id # <<>> /\ plain.nonce # <<>> /\ Committee.key_id = Committee.public_key
    BY DEF SealResult, Fail
  <1>2. Committee.public_key \in Key
    BY EnclaveAssumption
  <1>3. ResultAsSealed(sent)
    BY <1>1, <1>2 DEF ResultAsSealed, SealedIds, Box
  <1>4. ResultAsSealed([sent EXCEPT !.kind = "antibot_feedback"])
    BY <1>1, <1>2 DEF ResultAsSealed, SealedIds, Box
  <1>5. SealResult(plain, Committee).value = sent
    BY <1>1 DEF Done
  <1>6. QED
    BY <1>3, <1>4, <1>5

LEMMA SealsFeedbackKeeps ==
  ASSUME WireInv, NEW id \in Id, NEW n \in Id, SealsFeedback(id, n)
  PROVE  WireInv'
  <1>1. PICK status \in Status, suggest \in BOOLEAN :
          LET sent == MaybeSealFailure(id, n, status, suggest, Committee)
          IN sent.ok /\ \E e \in sent.value : Put(e)
    BY DEF SealsFeedback
  <1> DEFINE feedback == FeedbackFor(status, suggest)
             plain == [task_id |-> id, nonce |-> n, hash |-> feedback.failure, formats |-> {feedback}]
             sealed == SealFeedback(id, n, feedback, Committee)
             sent == MaybeSealFailure(id, n, status, suggest, Committee)
  <1>2. PICK e \in sent.value : Put(e)
    BY <1>1
  <1>3. FromHttpStatus(status) # "ok" /\ sealed.ok /\ sent.value = {sealed.value}
    <2>1. FromHttpStatus(status) # "ok"
      BY <1>2 DEF MaybeSealFailure, Done
    <2>2. sent = IF sealed.ok THEN Done({sealed.value}) ELSE sealed
      BY <2>1 DEF MaybeSealFailure
    <2>3. sealed.ok
      <3> HIDE DEF sealed, sent
      <3>1. sent.ok
        BY <1>1 DEF sent
      <3>2. QED
        BY <2>2, <3>1
    <2>4. QED
      <3> HIDE DEF sealed, sent
      <3> QED BY <2>1, <2>2, <2>3 DEF Done
  <1>4. SealResult(plain, Committee).ok
    BY <1>3 DEF SealFeedback
  <1>5. sealed.value = [SealResult(plain, Committee).value EXCEPT !.kind = "antibot_feedback"]
    BY <1>4 DEF SealFeedback, Done
  <1>6. plain.task_id = id /\ plain.nonce = n /\ plain.hash \in Hashes /\ plain.formats = {feedback}
    BY FeedbackIsCoded
  <1>7. ResultAsSealed([SealResult(plain, Committee).value EXCEPT !.kind = "antibot_feedback"])
    <2> HIDE DEF plain
    <2> QED BY <1>4, <1>6, SealedResult
  <1>8. ResultAsSealed(e)
    <2> HIDE DEF sent, sealed, plain
    <2> QED BY <1>2, <1>3, <1>5, <1>7
  <1>9. QED
    BY <1>2, <1>8, PutKeeps DEF SealsFeedback

LEMMA SealsResultKeeps ==
  ASSUME WireInv, SealsResult
  PROVE  WireInv'
  <1> DEFINE plain == [task_id |-> task.task_id, nonce |-> task.nonce, hash |-> "digest",
                       formats |-> {Markdown}]
             sent == SealResult(plain, Committee)
  <1>1. task # None /\ sent.ok /\ Put(sent.value) /\ UNCHANGED <<known, identity, task, exchange>>
    BY DEF SealsResult
  <1>2. task.task_id \in Id /\ task.nonce \in Id
    BY <1>1 DEF WireInv, SealedIds
  <1>3. plain.task_id \in Id /\ plain.nonce \in Id /\ plain.hash \in Hashes /\ plain.formats = {Markdown}
    BY <1>2 DEF Hashes
  <1>4. ResultAsSealed(sent.value)
    <2> HIDE DEF plain
    <2> QED BY <1>1, <1>3, SealedResult
  <1>5. QED
    BY <1>1, <1>4, PutKeeps

LEMMA PassKeeps ==
  ASSUME WireInv, NEW e \in wire, NEW altered, Pass(e, altered),
         \A a \in altered : TaskAsSealed(a) \/ ResultAsSealed(a)
  PROVE  WireInv'
  BY DEF WireInv, Pass, identity

LEMMA DamageKeeps ==
  ASSUME WireInv, NEW e \in wire, NEW how \in Wrecks, Damage(e, how)
  PROVE  WireInv'
  <1> DEFINE a == [e EXCEPT !.ciphertext.state = how]
  <1>1. TaskAsSealed(e) \/ ResultAsSealed(e)
    BY DEF WireInv
  <1>2. /\ a.kind = e.kind /\ a.shaped = e.shaped /\ a.recipient_key_id = e.recipient_key_id
        /\ a.hash = e.hash /\ a.ciphertext.to = e.ciphertext.to
        /\ a.ciphertext.text = e.ciphertext.text /\ a.ciphertext.body = e.ciphertext.body
    <2>1. /\ a.kind = e.kind /\ a.shaped = e.shaped /\ a.recipient_key_id = e.recipient_key_id
          /\ a.hash = e.hash
      OBVIOUS
    <2> DEFINE box == e.ciphertext
               b == [box EXCEPT !.state = how]
    <2>2. a.ciphertext = b
      OBVIOUS
    <2>3. b.to = box.to /\ b.text = box.text /\ b.body = box.body
      <3> HIDE DEF box
      <3> QED OBVIOUS
    <2>4. QED
      BY <2>1, <2>2, <2>3
  <1>3. TaskAsSealed(a) \/ ResultAsSealed(a)
    <2> HIDE DEF a
    <2> QED BY <1>1, <1>2 DEF TaskAsSealed, ResultAsSealed
  <1>4. Pass(e, {a})
    BY DEF Damage
  <1>5. QED
    <2> HIDE DEF a
    <2> QED BY <1>3, <1>4, PassKeeps

LEMMA MixUpKeeps ==
  ASSUME WireInv, NEW e \in wire, NEW id \in Id, MixUp(e, id)
  PROVE  WireInv'
  <1>1. ResultAsSealed(e)
    BY DEF WireInv, MixUp, TaskAsSealed
  <1>2. ASSUME NEW a, Pass(e, {a}),
               a \in {[e EXCEPT !.task_id = id], [e EXCEPT !.nonce = id],
                      [e EXCEPT !.kind = IF e.kind = "result" THEN "antibot_feedback" ELSE "result"]}
        PROVE  WireInv'
    <2> DEFINE Alike == /\ a.shaped = e.shaped /\ a.recipient_key_id = e.recipient_key_id
                        /\ a.hash = e.hash /\ a.ciphertext = e.ciphertext
                        /\ a.kind \in {"result", "antibot_feedback"}
    <2>1. ASSUME a = [e EXCEPT !.task_id = id] PROVE Alike
      <3> DEFINE r == [e EXCEPT !.task_id = id]
      <3>1. /\ r.shaped = e.shaped /\ r.recipient_key_id = e.recipient_key_id /\ r.hash = e.hash
            /\ r.ciphertext = e.ciphertext /\ r.kind = e.kind
        OBVIOUS
      <3> HIDE DEF r
      <3>2. QED
        BY <1>1, <2>1, <3>1 DEF ResultAsSealed, r
    <2>2. ASSUME a = [e EXCEPT !.nonce = id] PROVE Alike
      <3> DEFINE r == [e EXCEPT !.nonce = id]
      <3>1. /\ r.shaped = e.shaped /\ r.recipient_key_id = e.recipient_key_id /\ r.hash = e.hash
            /\ r.ciphertext = e.ciphertext /\ r.kind = e.kind
        OBVIOUS
      <3> HIDE DEF r
      <3>2. QED
        BY <1>1, <2>2, <3>1 DEF ResultAsSealed, r
    <2>3. ASSUME a = [e EXCEPT !.kind = IF e.kind = "result" THEN "antibot_feedback" ELSE "result"]
          PROVE  Alike
      BY <2>3
    <2>4. Alike
      <3> HIDE DEF Alike
      <3> QED BY <1>2, <2>1, <2>2, <2>3
    <2>5. ResultAsSealed(a)
      BY <1>1, <2>4 DEF ResultAsSealed
    <2>6. QED
      BY <1>2, <2>5, PassKeeps
  <1>3. QED
    BY <1>2 DEF MixUp

LEMMA OpenTaskKeeps ==
  ASSUME WireInv, NEW e \in wire, OpenTask(e)
  PROVE  WireInv'
  <1>1. e.kind = "task" /\ task' = e.ciphertext.body
    BY TaskOpens DEF OpenTask
  <1>2. SealedIds(e.ciphertext.body)
    BY DEF WireInv, TaskAsSealed, ResultAsSealed
  <1>3. QED
    BY <1>1, <1>2 DEF WireInv, OpenTask, identity, SealedIds

LEMMA WireStep ==
  ASSUME WireInv, [Next]_vars
  PROVE  WireInv'
  <1>1. CASE Exchange
    <2>1. UNCHANGED <<identity, envelopes>>
      BY <1>1 DEF Exchange, RequestNonce, NonceUnreachable, IssueNonce, NonceRefused, NonceArrives,
                  NonceLost, Quote, ReleaseFails, Release, ReleaseReply, Give
    <2>2. QED
      BY <2>1 DEF WireInv, identity, envelopes
  <1>2. CASE Restart
    BY <1>2 DEF WireInv, Restart
  <1>3. CASE Register
    BY <1>3 DEF WireInv, Register, identity
  <1>4. CASE SealsResult
    BY <1>4, SealsResultKeeps
  <1>5. CASE \E id, n \in Id : RelaySeals(id, n) \/ SealsFeedback(id, n)
    <2>1. ASSUME NEW id \in Id, NEW n \in Id, RelaySeals(id, n)
          PROVE  WireInv'
      <3>1. known \in Key
        BY DEF WireInv
      <3>2. TaskAsSealed(SealTask(id, n, known))
        BY <2>1, <3>1, SealedTask DEF RelaySeals
      <3>3. QED
        BY <2>1, <3>2, PutKeeps DEF RelaySeals
    <2>2. QED
      BY <1>5, <2>1, SealsFeedbackKeeps
  <1>6. CASE \E e \in wire : \/ OpenTask(e) \/ Lose(e)
                             \/ \E how \in Wrecks : Damage(e, how)
                             \/ \E id \in Id : MixUp(e, id)
    BY <1>6, OpenTaskKeeps, PassKeeps, DamageKeeps, MixUpKeeps DEF Lose
  <1>7. CASE UNCHANGED vars
    BY <1>7 DEF WireInv, vars
  <1>8. QED
    BY <1>1, <1>2, <1>3, <1>4, <1>5, <1>6, <1>7 DEF Next, Envelopes

(* Whatever the host does, what is intact opens, feedback routed as a      *)
(* result included, unless an id of it holds a "|" (a task) or a NUL       *)
(* (task.rs, result.rs, antibot_feedback.rs).                              *)
THEOREM IntactEnvelopesOpen == Spec => []WholeEnvelopesOpen
  <1>1. Init => WireInv
    BY EnclaveAssumption DEF Init, WireInv
  <1>2. WireInv /\ [Next]_vars => WireInv'
    BY WireStep
  <1>3. WireInv => WholeEnvelopesOpen
    BY AsSealedOpens DEF WireInv, WholeEnvelopesOpen
  <1>4. QED
    BY <1>1, <1>2, <1>3, PTL DEF Spec

(* Only an intact envelope opens, to the ids that were sealed and for whom *)
(* it was sealed, and every intact one does whose ids hold no separator,   *)
(* for any keys, ids and number of envelopes (task.rs, result.rs,          *)
(* antibot_feedback.rs).                                                   *)
THEOREM EnvelopesOpenExactly == Spec => []OpensExactlyAsSealed
  BY EnvelopesOpenAsSealed, IntactEnvelopesOpen, PTL DEF OpensExactlyAsSealed

-----------------------------------------------------------------------------
(* The resolver and its proxy, of the same crate.                          *)
Code == {"success", "unreachable", "command", "unresolved", "address"}
Early == {"new", "backlog", "greeting", "request", "address"}

(* A connection in state p: what it asked for is known from then on, what  *)
(* the pin gave behind the lookups, what was dialled behind the dial.      *)
Asked(c) ==
  /\ pc[c] \in Early => target[c] = NoTarget
  /\ pc[c] \in {"A", "AAAA"} => target[c].kind = "name"
  /\ pc[c] \in Early \cup {"A", "AAAA"} => dialled[c] = "none"
  /\ pc[c] \in {"dial", "connected", "relay"} => dialled[c] # "none"

LookedUp(c) ==
  /\ pc[c] \in Early \cup {"A"} \/ target[c].kind # "name" => found[c] = <<>>
  /\ pc[c] = "AAAA" => found[c] \in Seq(IPv4)

Dialled(c) ==
  dialled[c] # "none" =>
    CASE target[c].kind = "literal" -> dialled[c] = target[c].ip
      [] target[c].kind = "localhost" -> dialled[c] = "127.0.0.1"
      [] target[c].kind = "name" ->
           /\ Contains(found[c], dialled[c])
           /\ (\E i \in DOMAIN found[c] : found[c][i] \in IPv4) => dialled[c] \in IPv4
      [] OTHER -> FALSE

Answered(c) ==
  /\ socks[c] = <<>> \/ \E r \in Code : socks[c] = <<r>> /\ (r \in {"success", "unreachable"} <=> dialled[c] # "none")
  /\ pc[c] = "relay" => socks[c] = <<"success">>
  /\ socks[c] # <<>> => pc[c] = "closed" \/ (pc[c] = "relay" /\ socks[c] = <<"success">>)
  /\ socks[c] # <<"success">> => \A d \in Way : relay[c][d] = Fresh

Shape ==
  /\ DOMAIN pc = Conn /\ DOMAIN target = Conn /\ DOMAIN found = Conn /\ DOMAIN dialled = Conn
  /\ DOMAIN socks = Conn /\ DOMAIN relay = Conn /\ DOMAIN open = Conn /\ \A c \in Conn : DOMAIN relay[c] = Way

Sound(c) == Asked(c) /\ LookedUp(c) /\ Dialled(c) /\ Answered(c)

NetInv == Shape /\ \A c \in Conn : Sound(c)

(* No connection has anything behind it at the start.                      *)
LEMMA NetStarts ==
  ASSUME NetInit PROVE NetInv
  BY DEF NetInit, NetInv, Shape, Sound, Asked, LookedUp, Dialled, Answered, Early, NoTarget

(* A step of one connection leaves the others as they are.                 *)
Still(b) ==
  /\ pc'[b] = pc[b] /\ target'[b] = target[b] /\ found'[b] = found[b] /\ dialled'[b] = dialled[b]
  /\ socks'[b] = socks[b] /\ relay'[b] = relay[b]

LEMMA OthersStill ==
  ASSUME Shape, NEW c \in Conn,
         Connect(c) \/ Serve(c) \/ Expire(c) \/ Relay(c) \/ \E d \in Way : Send(c, d)
  PROVE  Shape' /\ \A b \in Conn \ {c} : Still(b)
  <1>1. CASE Connect(c) \/ Expire(c)
    BY <1>1 DEF Connect, Expire, Go, listener, lookup, Shape, Still
  <1>2. CASE Hangup(c) \/ Greet(c) \/ Request(c)
    BY <1>2 DEF Hangup, Greet, Request, Refuse, Close, Go, listener, lookup, Shape, Still
  <1>3. CASE Address(c)
    BY <1>3 DEF Address, Dial, Refuse, Close, Go, listener, Shape, Still
  <1>4. CASE LookupA(c)
    BY <1>4 DEF LookupA, Refuse, Close, Go, listener, Shape, Still
  <1>5. CASE LookupAAAA(c)
    BY <1>5 DEF LookupAAAA, ConnectTo, Dial, Refuse, Close, Go, listener, Shape, Still
  <1>6. CASE DialOrigin(c) \/ Succeed(c)
    BY <1>6 DEF DialOrigin, Succeed, Refuse, Close, Go, listener, lookup, Shape, Still
  <1>7. CASE Join(c)
    BY <1>7 DEF Join, Close, Go, listener, lookup, Shape, Still
  <1>8. ASSUME NEW d \in Way, Read(c, d) \/ Write(c, d) \/ Shutdown(c, d) \/ Send(c, d)
        PROVE  Shape' /\ \A b \in Conn \ {c} : Still(b)
    <2>1. PICK r : Moved(c, d, r)
      BY <1>8 DEF Read, Write, Shutdown, Send
    <2>2. UNCHANGED <<pc, target, found, dialled, socks>> /\ relay' = [relay EXCEPT ![c][d] = r]
      BY <2>1 DEF Moved, lookup
    <2>3. DOMAIN open' = Conn
      BY <1>8 DEF Read, Write, Shutdown, Send, Shape
    <2>4. DOMAIN relay' = Conn /\ \A b \in Conn \ {c} : relay'[b] = relay[b]
      BY <2>2 DEF Shape
    <2>5. DOMAIN relay'[c] = Way
      BY <2>2 DEF Shape
    <2>6. QED
      BY <2>2, <2>3, <2>4, <2>5 DEF Shape, Still
  <1>9. QED
    BY <1>1, <1>2, <1>3, <1>4, <1>5, <1>6, <1>7, <1>8 DEF Serve, Relay

-----------------------------------------------------------------------------
(* A lookup yields addresses some answer gives in records of its type      *)
(* (parse_answers).                                                        *)
LEMMA ParsedAreGiven ==
  ASSUME NEW c, NEW q \in {"A", "AAAA"}, NEW result, Looked(c, q, result)
  PROVE  result.ips \in Seq(Given(q))
  <1> DEFINE G == Given(q)
  <1>1. <<>> \in Seq(G)
    OBVIOUS
  <1>2. CASE result = Failed
    BY <1>1, <1>2 DEF Failed
  <1>3. ASSUME NEW m \in Answer, result = ParseAnswers(m, q)
        PROVE  result.ips \in Seq(G)
    <2> DEFINE ips == [i \in DOMAIN m.records |-> m.records[i].ip]
               I == {i \in DOMAIN ips : m.records[i].type = q}
               T == {m.records[i].ip : i \in DOMAIN m.records}
    <2>1. CASE ~m.ok \/ m.cut
      BY <1>1, <1>3, <2>1 DEF ParseAnswers, Found, Failed
    <2>2. CASE m.ok /\ ~m.cut
      <3>1. result.ips = AtPositions(ips, I)
        BY <1>3, <2>2 DEF ParseAnswers, Found
      <3>2. ips \in Seq(T)
        <4>1. m.records \in Seq([type : {"A", "AAAA", "CNAME"}, ip : STRING])
          BY SealedNetAssumption DEF SealedNetAssumption, AnswerType
        <4>2. DOMAIN m.records = 1..Len(m.records) /\ Len(m.records) \in Nat
          BY <4>1, LenProperties
        <4>3. ips \in [1..Len(m.records) -> T]
          BY <4>2
        <4> HIDE DEF ips, T
        <4>4. QED
          BY <4>2, <4>3, SeqDef
      <3>3. I \subseteq DOMAIN ips
        OBVIOUS
      <3>4. AtPositions(ips, I) \in Seq(Held(ips, I))
        <4> HIDE DEF ips, I, T
        <4> QED BY <3>2, <3>3, PositionsKept
      <3>5. Held(ips, I) \subseteq G
        <4>1. G = UNION {{n.records[i].ip : i \in {j \in DOMAIN n.records : n.records[j].type = q}} : n \in Answer}
          BY DEF Given
        <4>2. \A i \in I : ips[i] = m.records[i].ip /\ i \in {j \in DOMAIN m.records : m.records[j].type = q}
          OBVIOUS
        <4> HIDE DEF ips, I, G
        <4>3. QED
          BY <4>1, <4>2 DEF Held
      <3>6. QED
        <4> HIDE DEF ips, I, T, G
        <4> QED BY <3>1, <3>4, <3>5, SeqMonotonic
    <2>3. QED
      BY <2>1, <2>2
  <1>4. QED
    BY <1>2, <1>3 DEF Looked

(* Joining keeps what was there in front (lookup).                         *)
LEMMA MergeJoins ==
  ASSUME NEW S, NEW T, NEW ips \in Seq(S), NEW more \in Seq(T)
  PROVE  /\ Merge(ips, more) \in Seq(S \cup T)
         /\ ips # <<>> => Merge(ips, more) # <<>> /\ Head(Merge(ips, more)) \in S
         /\ ips = <<>> => Merge(ips, more) \in Seq(T)
  <1> DEFINE I == {i \in FirstPositions(more) : \A j \in DOMAIN ips : ips[j] # more[i]}
             kept == AtPositions(more, I)
  <1>1. Merge(ips, more) = ips \o kept
    BY DEF Merge
  <1>2. kept \in Seq(T)
    <2>1. I \subseteq DOMAIN more
      BY DEF FirstPositions
    <2>2. kept \in Seq(Held(more, I))
      <3> HIDE DEF I
      <3> QED BY <2>1, PositionsKept
    <2>3. Held(more, I) \subseteq T
      <3> HIDE DEF I
      <3> QED BY <2>1 DEF Held
    <2>4. QED
      <3> HIDE DEF I, kept
      <3> QED BY <2>2, <2>3, SeqMonotonic
  <1> HIDE DEF kept
  <1>3. ips \in Seq(S \cup T) /\ kept \in Seq(S \cup T)
    BY <1>2, SeqMonotonic
  <1>4. ips \o kept \in Seq(S \cup T) /\ Len(ips \o kept) = Len(ips) + Len(kept)
    BY <1>3, ConcatProperties
  <1>5. ASSUME ips # <<>>
        PROVE  ips \o kept # <<>> /\ Head(ips \o kept) \in S
    <2>1. Len(ips) \in Nat \ {0} /\ Len(kept) \in Nat
      BY <1>2, <1>5, EmptySeq, LenProperties
    <2>2. Len(ips \o kept) # 0 /\ 1 \in 1..Len(ips) /\ 1 \in 1..Len(ips) + Len(kept)
      BY <1>4, <2>1
    <2>3. (ips \o kept)[1] = ips[1] /\ ips[1] \in S
      BY <1>3, <2>2, ConcatProperties, ElementOfSeq
    <2>4. ips \o kept # <<>>
      BY <2>2
    <2>5. QED
      BY <2>3, <2>4
  <1>6. ips = <<>> => ips \o kept \in Seq(T)
    BY <1>2, ConcatEmptySeq
  <1>7. QED
    BY <1>1, <1>4, <1>5, <1>6

-----------------------------------------------------------------------------
(* Each step of a connection keeps it sound.                               *)
LEMMA HangupSound ==
  ASSUME NetInv, NEW c \in Conn, Hangup(c) \/ Greet(c) \/ Connect(c) \/ Expire(c)
  PROVE  Sound(c)'
  <1>1. CASE Hangup(c)
    BY <1>1 DEF Hangup, Close, Go, lookup, NetInv, Shape, Sound, Asked, LookedUp, Dialled, Answered, Early
  <1>2. CASE Greet(c)
    BY <1>2 DEF Greet, Go, lookup, NetInv, Shape, Sound, Asked, LookedUp, Dialled, Answered, Early
  <1>3. CASE Connect(c)
    BY <1>3 DEF Connect, Go, lookup, NetInv, Shape, Sound, Asked, LookedUp, Dialled, Answered, Early
  <1>4. CASE Expire(c)
    BY <1>4 DEF Expire, NetInv, Shape, Sound, Asked, LookedUp, Dialled, Answered, Early
  <1>5. QED
    BY <1>1, <1>2, <1>3, <1>4

(* A refusal before any dial, or after one, is the only reply.             *)
LEMMA RefusalSound ==
  ASSUME NetInv, NEW c \in Conn, NEW code \in Code \ {"success"}, Refuse(c, code),
         UNCHANGED relay, socks[c] = <<>>, Dialled(c)', target'[c].kind # "name" => found'[c] = <<>>,
         code = "unreachable" <=> dialled'[c] # "none"
  PROVE  Sound(c)'
  <1>1. pc'[c] = "closed" /\ (socks'[c] = <<code>> \/ socks'[c] = <<>>)
    BY DEF Refuse, Close, Go, NetInv, Shape
  <1>2. relay'[c] = relay[c] /\ \A d \in Way : relay[c][d] = Fresh
    BY DEF NetInv, Sound, Answered
  <1>3. Asked(c)' /\ LookedUp(c)'
    BY <1>1 DEF Asked, LookedUp, Early
  <1>4. Answered(c)'
    BY <1>1, <1>2 DEF Answered, Code
  <1>5. QED
    BY <1>3, <1>4 DEF Sound

LEMMA RequestSound ==
  ASSUME NetInv, NEW c \in Conn, Request(c)
  PROVE  Sound(c)'
  <1>1. CASE Go(c, "address") /\ UNCHANGED <<socks, open>>
    BY <1>1 DEF Request, Go, lookup, NetInv, Shape, Sound, Asked, LookedUp, Dialled, Answered, Early
  <1>2. CASE Refuse(c, "command")
    <2>1. UNCHANGED relay /\ socks[c] = <<>> /\ dialled'[c] = "none" /\ found'[c] = <<>>
      BY DEF Request, lookup, NetInv, Sound, Asked, LookedUp, Answered, Early
    <2>2. Dialled(c)'
      BY <2>1 DEF Dialled
    <2>3. QED
      BY <1>2, <2>1, <2>2, RefusalSound DEF Code
  <1>3. QED
    BY <1>1, <1>2 DEF Request

LEMMA AddressSound ==
  ASSUME NetInv, NEW c \in Conn, Address(c)
  PROVE  Sound(c)'
  <1>1. PICK t \in Target :
          /\ target' = [target EXCEPT ![c] = t]
          /\ \/ t.kind = "literal" /\ Dial(c, t.ip) /\ UNCHANGED <<socks, open>>
             \/ t.kind = "localhost" /\ Dial(c, "127.0.0.1") /\ UNCHANGED <<socks, open>>
             \/ t.kind = "name" /\ Go(c, "A") /\ UNCHANGED <<dialled, socks, open>>
             \/ t.kind = "malformed" /\ Refuse(c, "unresolved") /\ UNCHANGED dialled
             \/ t.kind = "other" /\ Refuse(c, "address") /\ UNCHANGED dialled
    BY DEF Address
  <1>2. /\ target'[c] = t /\ UNCHANGED <<relay, found>> /\ found[c] = <<>> /\ dialled[c] = "none" /\ socks[c] = <<>>
        /\ c \in DOMAIN pc /\ c \in DOMAIN dialled
    BY <1>1 DEF Address, NetInv, Shape, Sound, Asked, LookedUp, Answered, Early
  <1>3. \A d \in Way : relay[c][d] = Fresh
    BY <1>2 DEF NetInv, Sound, Answered
  <1>4. ASSUME NEW ip, ip # "none", t.kind = "literal" => ip = t.ip, t.kind = "localhost" => ip = "127.0.0.1",
               t.kind \in {"literal", "localhost"}, Dial(c, ip), UNCHANGED <<socks, open>>
        PROVE  Sound(c)'
    <2>1. pc'[c] = "dial" /\ dialled'[c] = ip
      BY <1>2, <1>4 DEF Dial, Go
    <2>2. Asked(c)' /\ LookedUp(c)'
      BY <1>2, <1>4, <2>1 DEF Asked, LookedUp, Early
    <2>3. Dialled(c)'
      BY <1>2, <1>4, <2>1 DEF Dialled
    <2>4. Answered(c)'
      BY <1>2, <1>3, <1>4, <2>1 DEF Answered
    <2>5. QED
      BY <2>2, <2>3, <2>4 DEF Sound
  <1>5. CASE t.kind = "literal" /\ Dial(c, t.ip) /\ UNCHANGED <<socks, open>>
    BY <1>4, <1>5, SealedNetAssumption DEF SealedNetAssumption
  <1>6. CASE t.kind = "localhost" /\ Dial(c, "127.0.0.1") /\ UNCHANGED <<socks, open>>
    BY <1>4, <1>6
  <1>7. CASE t.kind = "name" /\ Go(c, "A") /\ UNCHANGED <<dialled, socks, open>>
    <2>1. pc'[c] = "A"
      BY <1>2, <1>7 DEF Go
    <2>2. QED
      BY <1>2, <1>3, <1>7, <2>1 DEF Sound, Asked, LookedUp, Dialled, Answered, Early
  <1>8. ASSUME NEW code \in {"unresolved", "address"}, Refuse(c, code), UNCHANGED dialled
        PROVE  Sound(c)'
    <2>1. Dialled(c)'
      BY <1>2, <1>8 DEF Dialled
    <2>2. QED
      BY <1>2, <1>8, <2>1, RefusalSound DEF Code
  <1>9. QED
    BY <1>1, <1>5, <1>6, <1>7, <1>8

(* The A lookup: what it gave is of the first family, and nothing else is  *)
(* known.                                                                  *)
LEMMA LookupASound ==
  ASSUME NetInv, NEW c \in Conn, LookupA(c)
  PROVE  Sound(c)'
  <1>1. PICK result :
          /\ Looked(c, "A", result)
          /\ IF result.ok
             THEN Go(c, "AAAA") /\ found' = [found EXCEPT ![c] = result.ips] /\ UNCHANGED <<socks, open>>
             ELSE Refuse(c, "unresolved") /\ UNCHANGED found
    BY DEF LookupA
  <1>2. /\ UNCHANGED <<target, relay, dialled>> /\ found[c] = <<>> /\ dialled[c] = "none" /\ socks[c] = <<>>
        /\ target[c].kind = "name" /\ c \in DOMAIN pc /\ c \in DOMAIN found
    BY DEF LookupA, NetInv, Shape, Sound, Asked, LookedUp, Answered, Early
  <1>3. \A d \in Way : relay[c][d] = Fresh
    BY <1>2, SMTT(40) DEF NetInv, Sound, Answered
  <1>4. CASE result.ok
    <2>1. pc'[c] = "AAAA" /\ found'[c] = result.ips /\ UNCHANGED socks
      BY <1>1, <1>2, <1>4 DEF Go
    <2>2. found'[c] \in Seq(IPv4)
      BY <1>1, <2>1, ParsedAreGiven DEF IPv4
    <2>3. Asked(c)' /\ LookedUp(c)'
      BY <1>2, <2>1, <2>2 DEF Asked, LookedUp, Early, IPv4, Given
    <2>4. Dialled(c)' /\ Answered(c)'
      BY <1>2, <1>3, <2>1 DEF Dialled, Answered
    <2>5. QED
      BY <2>3, <2>4 DEF Sound
  <1>5. CASE ~result.ok
    <2>1. Refuse(c, "unresolved") /\ UNCHANGED found
      BY <1>1, <1>5
    <2>2. Dialled(c)'
      BY <1>2 DEF Dialled
    <2>3. QED
      BY <1>2, <2>1, <2>2, RefusalSound DEF Code
  <1>6. QED
    BY <1>4, <1>5

(* The AAAA lookup: the first address of what both gave, of the first      *)
(* family if that lookup gave any.                                         *)
LEMMA LookupAAAASound ==
  ASSUME NetInv, NEW c \in Conn, LookupAAAA(c)
  PROVE  Sound(c)'
  <1>1. PICK result : Looked(c, "AAAA", result)
                      /\ \E ips \in {Merge(found[c], result.ips)} :
                           found' = [found EXCEPT ![c] = ips] /\ ConnectTo(c, ips)
    BY DEF LookupAAAA
  <1> DEFINE ips == Merge(found[c], result.ips)
             V4 == Given("A")
             V6 == Given("AAAA")
  <1>2. found' = [found EXCEPT ![c] = ips] /\ ConnectTo(c, ips)
    BY <1>1
  <1>3. /\ UNCHANGED <<target, relay>> /\ dialled[c] = "none" /\ socks[c] = <<>>
        /\ target[c].kind = "name" /\ c \in DOMAIN pc /\ c \in DOMAIN dialled /\ c \in DOMAIN found
        /\ found[c] \in Seq(V4)
    BY DEF LookupAAAA, NetInv, Shape, Sound, Asked, LookedUp, Answered, Early, IPv4
  <1>4. \A d \in Way : relay[c][d] = Fresh
    <2>1. socks[c] # <<"success">> => \A d \in Way : relay[c][d] = Fresh
      BY DEF NetInv, Sound, Answered
    <2>2. <<>> # <<"success">>
      OBVIOUS
    <2>3. QED
      BY <1>3, <2>1, <2>2
  <1>5. result.ips \in Seq(V6)
    BY <1>1, ParsedAreGiven
  <1>6. /\ ips \in Seq(V4 \cup V6)
        /\ found[c] # <<>> => ips # <<>> /\ Head(ips) \in V4
        /\ found[c] = <<>> => ips \in Seq(V6)
    <2> HIDE DEF V4, V6
    <2> QED BY <1>3, <1>5, MergeJoins
  <1>7. V4 \cap V6 = {} /\ "none" \notin V4 \cup V6
    BY SealedNetAssumption DEF SealedNetAssumption
  <1> HIDE DEF ips, V4, V6
  <1>8. found'[c] = ips
    BY <1>2, <1>3
  <1>9. CASE ips = <<>>
    <2>1. Refuse(c, "unresolved") /\ UNCHANGED dialled
      BY <1>2, <1>9 DEF ConnectTo
    <2>2. Dialled(c)'
      BY <1>3, <2>1 DEF Dialled
    <2>3. QED
      BY <1>3, <2>1, <2>2, RefusalSound DEF Code
  <1>10. CASE ips # <<>>
    <2>1. Dial(c, Head(ips)) /\ UNCHANGED <<socks, open>>
      BY <1>2, <1>10 DEF ConnectTo
    <2>2. pc'[c] = "dial" /\ dialled'[c] = Head(ips)
      BY <1>3, <2>1 DEF Dial, Go
    <2>3. 1 \in 1..Len(ips) /\ ips[1] = Head(ips) /\ Head(ips) \in V4 \cup V6 /\ DOMAIN ips = 1..Len(ips)
      <3>1. Len(ips) \in Nat \ {0} /\ DOMAIN ips = 1..Len(ips)
        BY <1>6, <1>10, EmptySeq, LenProperties
      <3>2. 1 \in 1..Len(ips)
        BY <3>1
      <3>3. ips[1] \in V4 \cup V6
        BY <1>6, <3>2, ElementOfSeq
      <3>4. ips[1] = Head(ips)
        BY <1>6, <1>10
      <3>5. QED
        BY <3>1, <3>2, <3>3, <3>4
    <2>4. Contains(ips, Head(ips))
      BY <2>3 DEF Contains
    <2>5. (\E i \in DOMAIN ips : ips[i] \in V4) => Head(ips) \in V4
      <3>1. CASE found[c] # <<>>
        BY <1>6, <3>1
      <3>2. CASE found[c] = <<>>
        <4>1. \A i \in 1..Len(ips) : ips[i] \in V6
          BY <1>6, <3>2, ElementOfSeq
        <4>2. QED
          BY <1>7, <2>3, <4>1
      <3>3. QED
        BY <3>1, <3>2
    <2>6. Asked(c)' /\ LookedUp(c)'
      BY <1>3, <1>7, <2>2, <2>3 DEF Asked, LookedUp, Early
    <2>7. Dialled(c)'
      <3>1. IPv4 = V4
        BY DEF IPv4, V4
      <3>2. IPv4' = IPv4
        BY DEF IPv4, Given
      <3>3. /\ Contains(found'[c], dialled'[c])
            /\ (\E i \in DOMAIN found'[c] : found'[c][i] \in V4) => dialled'[c] \in V4
        BY <1>8, <2>2, <2>4, <2>5
      <3>4. QED
        BY <1>3, <3>1, <3>2, <3>3 DEF Dialled
    <2>8. Answered(c)'
      BY <1>3, <1>4, <2>1, <2>2 DEF Answered
    <2>9. QED
      BY <2>6, <2>7, <2>8 DEF Sound
  <1>11. QED
    BY <1>9, <1>10

LEMMA DialSound ==
  ASSUME NetInv, NEW c \in Conn, DialOrigin(c)
  PROVE  Sound(c)'
  <1>1. /\ UNCHANGED <<target, found, dialled, relay>> /\ pc[c] = "dial" /\ socks[c] = <<>> /\ dialled[c] # "none"
        /\ target[c].kind # "name" => found[c] = <<>>
        /\ Dialled(c)' /\ Dialled(c)
    BY DEF DialOrigin, lookup, NetInv, Sound, Asked, LookedUp, Dialled, Answered, Early
  <1>2. CASE Go(c, "connected") /\ UNCHANGED socks
    <2>1. pc'[c] = "connected"
      BY <1>2 DEF Go, NetInv, Shape
    <2>2. \A d \in Way : relay[c][d] = Fresh
      BY <1>1 DEF NetInv, Sound, Answered
    <2>3. QED
      BY <1>1, <1>2, <2>1, <2>2 DEF Sound, Asked, LookedUp, Answered, Early
  <1>3. CASE Refuse(c, "unreachable")
    BY <1>1, <1>3, RefusalSound DEF Code
  <1>4. QED
    BY <1>2, <1>3 DEF DialOrigin

LEMMA SucceedSound ==
  ASSUME NetInv, NEW c \in Conn, Succeed(c)
  PROVE  Sound(c)'
  <1>1. /\ UNCHANGED <<target, found, dialled, relay>> /\ pc[c] = "connected" /\ socks[c] = <<>> /\ dialled[c] # "none"
        /\ target[c].kind # "name" => found[c] = <<>>
        /\ Dialled(c)'
    BY DEF Succeed, lookup, NetInv, Sound, Asked, LookedUp, Dialled, Answered, Early
  <1>2. \A d \in Way : relay[c][d] = Fresh
    BY <1>1 DEF NetInv, Sound, Answered
  <1>3. CASE Go(c, "relay") /\ socks' = [socks EXCEPT ![c] = Append(@, "success")]
    <2>1. pc'[c] = "relay" /\ socks'[c] = Append(<<>>, "success")
      BY <1>1, <1>3 DEF Go, NetInv, Shape
    <2>2. socks'[c] = <<"success">>
      BY <2>1
    <2>3. QED
      BY <1>1, <1>2, <2>1, <2>2 DEF Sound, Asked, LookedUp, Answered, Early, Code
  <1>4. CASE Close(c) /\ UNCHANGED socks
    <2>1. pc'[c] = "closed"
      BY <1>4 DEF Close, Go, NetInv, Shape
    <2>2. QED
      BY <1>1, <1>2, <1>4, <2>1 DEF Sound, Asked, LookedUp, Answered, Early
  <1>5. QED
    BY <1>3, <1>4 DEF Succeed

(* A tunnel is behind its reply, and its threads touch nothing else.       *)
LEMMA RelaySound ==
  ASSUME NetInv, NEW c \in Conn, Relay(c) \/ \E d \in Way : Send(c, d)
  PROVE  Sound(c)'
  <1>1. pc[c] = "relay" /\ UNCHANGED <<target, found, dialled, socks>>
    BY ZenonT(60) DEF Relay, Join, Read, Write, Shutdown, Send, Moved, lookup
  <1>2. socks[c] = <<"success">> /\ dialled[c] # "none" /\ pc'[c] \in {"relay", "closed"}
    <2>1. Join(c) \/ UNCHANGED pc
      BY ZenonT(40) DEF Relay, Read, Write, Shutdown, Send, Moved
    <2>2. QED
      BY <1>1, <2>1 DEF Join, Close, Go, NetInv, Shape, Sound, Asked, Answered
  <1>3. Asked(c)' /\ LookedUp(c)'
    BY <1>1, <1>2 DEF NetInv, Sound, Asked, LookedUp, Early
  <1>4. Dialled(c)'
    BY <1>1 DEF NetInv, Sound, Dialled
  <1>5. Answered(c)'
    <2>1. socks'[c] = <<"success">> /\ dialled'[c] # "none"
      BY <1>1, <1>2
    <2>2. "success" \in Code
      BY DEF Code
    <2>3. QED
      BY <1>2, <2>1, <2>2 DEF Answered
  <1>6. QED
    BY <1>3, <1>4, <1>5, SMTT(60) DEF Sound

(* The accept loop moves connections nothing is known of.                  *)
LEMMA ListenerSound ==
  ASSUME NetInv, Drop \/ CheckStop \/ Accept
  PROVE  NetInv'
  <1>1. UNCHANGED <<target, found, dialled, socks, relay>>
    BY DEF Drop, CheckStop, Accept, lookup
  <1>2. DOMAIN pc' = Conn /\ DOMAIN open' = Conn
        /\ \A c \in Conn : pc'[c] = pc[c] \/ (pc[c] = "backlog" /\ pc'[c] \in {"greeting", "closed"})
    <2>1. CASE Drop
      BY <2>1 DEF Drop, NetInv, Shape
    <2>2. CASE CheckStop
      BY <2>2 DEF CheckStop, NetInv, Shape
    <2>3. CASE Accept
      BY <2>3 DEF Accept, Go, NetInv, Shape
    <2>4. QED
      BY <2>1, <2>2, <2>3
  <1>3. Shape'
    BY <1>1, <1>2 DEF NetInv, Shape
  <1>4. ASSUME NEW c \in Conn PROVE Sound(c)'
    <2>1. Asked(c)' /\ LookedUp(c)'
      BY <1>1, <1>2 DEF NetInv, Sound, Asked, LookedUp, Early
    <2>2. Dialled(c)'
      BY <1>1 DEF NetInv, Sound, Dialled
    <2>3. Answered(c)'
      BY <1>1, <1>2 DEF NetInv, Sound, Answered
    <2>4. QED
      BY <2>1, <2>2, <2>3 DEF Sound
  <1>5. QED
    BY <1>3, <1>4 DEF NetInv

LEMMA NetStep ==
  ASSUME NetInv, [NetNext]_netVars
  PROVE  NetInv'
  <1>1. CASE UNCHANGED netVars
    <2>1. UNCHANGED <<pc, target, found, dialled, socks, relay, open>>
      BY <1>1 DEF netVars
    <2>2. Shape'
      BY <2>1 DEF NetInv, Shape
    <2>3. \A c \in Conn : Sound(c)'
      BY <2>1 DEF NetInv, Sound, Asked, LookedUp, Dialled, Answered
    <2>4. QED
      BY <2>2, <2>3 DEF NetInv
  <1>2. CASE Drop \/ CheckStop \/ Accept
    BY <1>2, ListenerSound
  <1>3. ASSUME NEW c \in Conn,
               Connect(c) \/ Serve(c) \/ Expire(c) \/ Relay(c) \/ \E d \in Way : Send(c, d)
        PROVE  NetInv'
    <2>1. Shape' /\ \A b \in Conn \ {c} : Still(b)
      BY <1>3, OthersStill DEF NetInv
    <2>2. Sound(c)'
      <3>1. CASE Hangup(c) \/ Greet(c) \/ Connect(c) \/ Expire(c)
        BY <3>1, HangupSound
      <3>2. CASE Request(c) \/ Address(c)
        BY <3>2, RequestSound, AddressSound
      <3>3. CASE LookupA(c) \/ LookupAAAA(c)
        BY <3>3, LookupASound, LookupAAAASound
      <3>4. CASE DialOrigin(c) \/ Succeed(c)
        BY <3>4, DialSound, SucceedSound
      <3>5. CASE Relay(c) \/ \E d \in Way : Send(c, d)
        BY <3>5, RelaySound
      <3>6. QED
        BY <1>3, <3>1, <3>2, <3>3, <3>4, <3>5 DEF Serve
    <2>3. ASSUME NEW b \in Conn \ {c} PROVE Sound(b)'
      <3>1. Still(b) /\ Sound(b)
        BY <2>1 DEF NetInv
      <3>2. QED
        BY <3>1 DEF Still, Sound, Asked, LookedUp, Dialled, Answered
    <2>4. QED
      BY <2>1, <2>2, <2>3 DEF NetInv
  <1>4. QED
    BY <1>1, <1>2, <1>3 DEF NetNext

LEMMA NetInvSuffices ==
  ASSUME NetInv PROVE TunnelsAreSound
  <1>1. ASSUME NEW c \in Conn
        PROVE  /\ target[c].kind # "name" => found[c] = <<>>
               /\ Dialled(c)
               /\ pc[c] \in {"connected", "relay"} => dialled[c] # "none"
    BY DEF NetInv, Sound, Asked, LookedUp
  <1>2. DialledAsResolved
    BY <1>1 DEF DialledAsResolved, Dialled
  <1>3. ASSUME NEW c \in Conn
        PROVE  /\ Len(socks[c]) <= 1
               /\ socks[c] # <<>> => (socks[c][1] \in {"success", "unreachable"} <=> dialled[c] # "none")
               /\ socks[c] # <<>> /\ socks[c][1] # "success" => pc[c] = "closed"
               /\ socks[c] # <<"success">> => \A d \in Way : relay[c][d] = Fresh
    <2>1. Answered(c)
      BY DEF NetInv, Sound
    <2>2. CASE socks[c] = <<>>
      BY <2>1, <2>2 DEF Answered
    <2>3. ASSUME NEW r, socks[c] = <<r>>
          PROVE  Len(socks[c]) <= 1 /\ socks[c] # <<>> /\ socks[c][1] = r /\ (socks[c] = <<"success">> => r = "success")
      BY <2>3
    <2>4. QED
      BY <2>1, <2>2, <2>3 DEF Answered
  <1>4. AnsweredOnce
    BY <1>3 DEF AnsweredOnce
  <1>5. QED
    BY <1>2, <1>4 DEF TunnelsAreSound

(* Whatever the pin answers and whoever hangs up: a name is dialled only   *)
(* where this connection's own lookups said, at an IPv4 address if there   *)
(* was one, and the client hears one reply that is true of it, for any     *)
(* number of connections, names and answers (dns.rs:136-210,               *)
(* browser_dns.rs:268-433).                                                *)
THEOREM TunnelsSound == NetSpec => []TunnelsAreSound
  <1>1. NetInit => NetInv
    BY NetStarts
  <1>2. NetInv /\ [NetNext]_netVars => NetInv'
    BY NetStep
  <1>3. NetInv => TunnelsAreSound
    BY NetInvSuffices
  <1>4. QED
    BY <1>1, <1>2, <1>3, PTL DEF NetSpec

=============================================================================
