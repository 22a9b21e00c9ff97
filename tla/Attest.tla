------------------------------- MODULE Attest -------------------------------
(***************************************************************************)
(* The evidence (Evidence) and the round-trip times (rtt_echo.rs,          *)
(* egress.rs): the enclave's echo server, which signs nonces with the      *)
(* agent's key for whoever asks; the validator, which measures how long    *)
(* that takes; and the enclave's own measurements of the landmarks. The    *)
(* network loses, delays and repeats echoes, and others answer as well.    *)
(***************************************************************************)
EXTENDS Evidence

CONSTANTS
  Nonces,         (* nonces of probes, as sequences                        *)
  Others,         (* keys of responders that are not the enclave           *)
  Times,          (* round-trip times, in milliseconds                     *)
  Targets,        (* what landmarks a caller probes, in order              *)
  Slack,          (* absolute_tolerance_ms                                 *)
  MaxWaiting,     (* connections in the backlog                            *)
  MaxEchoes       (* echoes under way that the network does not lose       *)

ASSUME AttestAssumption ==
  /\ Others \subseteq Nat /\ Others \cap Keys = {} /\ Times \subseteq Int /\ Slack \in Nat
  /\ Targets \subseteq Seq(Nat) /\ MaxWaiting \in Nat

VARIABLES
  loop,           (* where the server's thread is                          *)
  shutdown,       (* the flag that Drop raises                             *)
  owner,          (* of the EchoServer: up, dropping, or gone              *)
  backlog,        (* connections, by what their client asks                *)
  job,            (* for the server and another thread: the echo it makes  *)
  cached,         (* cached_pubkey                                         *)
  attested,       (* the key of the proof the validator has, or None       *)
  asked,          (* nonces the validator has sent                         *)
  echoes,         (* echoes under way                                      *)
  signed,         (* what the agent has signed: keys and nonces            *)
  accepted,       (* round trips accepted: nonces and times                *)
  targets,        (* landmarks to probe                                    *)
  outcomes,       (* what the probes came to                               *)
  landmark_rtts   (* the map of the egress record, or None                 *)

serving == <<loop, shutdown, owner, backlog, job, cached>>
probing == <<attested, asked, echoes, signed, accepted>>
measuring == <<targets, outcomes, landmark_rtts>>
vars == <<scraping, agent, serving, probing, measuring>>

Threads == {"server", "caller"}

Init ==
  /\ agent \in Keys
  /\ recorded = <<>> /\ tls = None /\ submitted = None /\ quote = None /\ reply = None /\ signature = None
  /\ loop = "off" /\ shutdown = FALSE /\ owner = "none" /\ backlog = <<>>
  /\ job = [t \in Threads |-> None] /\ cached = None
  /\ attested = None /\ asked = {} /\ echoes = {} /\ signed = {} /\ accepted = {}
  /\ outcomes = <<>> /\ landmark_rtts = None
  /\ \/ /\ phase = "headers" /\ peer \in Peers /\ insecure \in BOOLEAN /\ targets = <<>>
        /\ offer \in {Offer(preferred) : preferred \in Preferences}
        /\ \E t \in Tasks : proof = [f \in DOMAIN t \cup {"chain", "transcript", "key"} |->
                                      IF f \in DOMAIN t THEN t[f] ELSE None]
     \/ phase = "ask" /\ peer = None /\ insecure = FALSE /\ offer = <<>> /\ proof = None /\ targets = <<>>
     \/ phase = "measure" /\ peer = None /\ insecure = FALSE /\ offer = <<>> /\ proof = None /\ targets \in Targets

-----------------------------------------------------------------------------
(* The proof is returned, and the validator that has verified it keeps the *)
(* key; nothing else of the scrape is left.                                *)
Return ==
  /\ phase = "proved" /\ phase' = "published" /\ attested' = proof.key
  /\ tls' = None /\ proof' = None
  /\ submitted' = None /\ quote' = None /\ reply' = None /\ signature' = None
  /\ UNCHANGED <<peer, insecure, offer, recorded, agent, serving, asked, echoes, signed, accepted, measuring>>

(* start_echo_server, and dropping the server: the flag, a connection to   *)
(* wake the loop, and the wait for the thread.                             *)
Start ==
  /\ phase = "published" /\ owner = "none" /\ owner' = "up" /\ loop' = "check"
  /\ UNCHANGED <<scraping, agent, shutdown, backlog, job, cached, probing, measuring>>

Queue(request) ==
  backlog' = IF Len(backlog) < MaxWaiting THEN Append(backlog, request) ELSE backlog

Nobody == [route |-> "other", nonce |-> <<>>]

(* Faulty variant: only the connection tells the thread.                   *)
DropWakes ==
  /\ owner = "up" /\ owner' = "dropping"
  /\ IF loop = "stopped" THEN UNCHANGED backlog ELSE Queue(Nobody)
  /\ UNCHANGED <<scraping, agent, loop, shutdown, job, cached, probing, measuring>>

Drop ==
  /\ owner = "up" /\ owner' = "dropping" /\ shutdown' = TRUE
  /\ IF loop = "stopped" THEN UNCHANGED backlog ELSE Queue(Nobody)
  /\ UNCHANGED <<scraping, agent, loop, job, cached, probing, measuring>>

Joined ==
  /\ owner = "dropping" /\ loop = "stopped" /\ owner' = "gone"
  /\ UNCHANGED <<scraping, agent, loop, shutdown, backlog, job, cached, probing, measuring>>

(* The thread: the flag, then a connection if there is one, then the flag. *)
CheckFlag ==
  /\ loop = "check" /\ loop' = IF shutdown THEN "stopped" ELSE "accept"
  /\ UNCHANGED <<scraping, agent, shutdown, owner, backlog, job, cached, probing, measuring>>

WouldBlock ==
  /\ loop = "accept" /\ backlog = <<>> /\ loop' = "check"
  /\ UNCHANGED <<scraping, agent, shutdown, owner, backlog, job, cached, probing, measuring>>

AcceptFails ==
  /\ loop = "accept" /\ loop' = "stopped"
  /\ UNCHANGED <<scraping, agent, shutdown, owner, backlog, job, cached, probing, measuring>>

(* One read takes what has come of the request: its route, or its nonce,   *)
(* may be cut.                                                             *)
Seen(request) ==
  {request, Nobody} \cup
    IF request.route = "/echo" THEN {[request EXCEPT !.nonce = n] : n \in Prefixes(request.nonce)} ELSE {}

Answerable(request) == request.route = "/echo" /\ request.nonce # <<>>

Accept ==
  /\ loop = "accept" /\ backlog # <<>> /\ backlog' = Tail(backlog)
  /\ IF shutdown THEN loop' = "stopped" /\ UNCHANGED job
     ELSE \E seen \in Seen(Head(backlog)) :
            IF Answerable(seen)
            THEN loop' = "serve" /\ job' = [job EXCEPT !["server"] = [nonce |-> seen.nonce, sig |-> None]]
            ELSE loop' = "check" /\ UNCHANGED job
  /\ UNCHANGED <<scraping, agent, shutdown, owner, cached, probing, measuring>>

(* Any other thread may ask for an echo (handle_echo_request).             *)
CallerAsks(n) ==
  /\ owner = "up" /\ job["caller"] = None
  /\ job' = [job EXCEPT !["caller"] = [nonce |-> n, sig |-> None]]
  /\ UNCHANGED <<scraping, agent, loop, shutdown, owner, backlog, cached, probing, measuring>>

(* sign_echo_with: the agent signs, the key it names is remembered, and    *)
(* then read from memory, where another thread may have put another.       *)
Signing(t) == job[t] # None /\ job[t].sig = None

Sign(t) ==
  /\ Signing(t)
  /\ job' = [job EXCEPT ![t].sig = [by |-> agent, over |-> job[t].nonce]]
  /\ cached' = <<agent>> /\ signed' = signed \cup {<<agent, job[t].nonce>>}
  /\ UNCHANGED <<scraping, agent, loop, shutdown, owner, backlog, attested, asked, echoes, accepted, measuring>>

Done(t) == job' = [job EXCEPT ![t] = None] /\ loop' = IF t = "server" THEN "check" ELSE loop

SignFails(t) ==
  /\ Signing(t) /\ Done(t)
  /\ UNCHANGED <<scraping, agent, shutdown, owner, backlog, cached, probing, measuring>>

Reply(t) ==
  /\ job[t] # None /\ job[t].sig # None /\ Done(t)
  /\ LET echo == [nonce |-> job[t].nonce, sig |-> job[t].sig, key |-> cached]
     IN echoes' \in {echoes} \cup {es \in {echoes \cup {echo}} : Cardinality(es) <= MaxEchoes}
  /\ UNCHANGED <<scraping, agent, shutdown, owner, backlog, cached, attested, asked, signed, accepted, measuring>>

ServerStep ==
  \/ CheckFlag \/ WouldBlock \/ AcceptFails \/ Accept \/ Sign("server") \/ SignFails("server") \/ Reply("server")

-----------------------------------------------------------------------------
(* The validator's probe, and what it makes of an answer.                  *)

Probe(n) ==
  /\ owner \in {"up", "dropping"} /\ n \notin asked
  /\ asked' = asked \cup {n}
  /\ IF loop = "stopped" THEN UNCHANGED backlog ELSE Queue([route |-> "/echo", nonce |-> n])
  /\ UNCHANGED <<scraping, agent, loop, shutdown, owner, job, cached, attested, echoes, signed, accepted, measuring>>

(* Answers of others: unsigned, or signed with keys of their own, whatever *)
(* key they name.                                                          *)
OtherEchoes(n) ==
  [nonce : {n}, sig : {None} \cup [by : Others, over : {n}],
   key : {None, attested} \cup {<<k>> : k \in Others}]

(* Faulty variant: the signature is checked under the key it comes with.   *)
TrustsNamedKey(response, own, expected) ==
  /\ response.nonce = expected /\ response.sig # None /\ response.key # None
  /\ Verifies(response.key, response.sig, expected)

EchoVerifies(response, own, expected) ==
  /\ expected # <<>> /\ response.nonce = expected
  /\ response.sig # None /\ response.key # None /\ response.key = own
  /\ Verifies(own, response.sig, expected)

Measure(n) ==
  /\ n \in asked /\ \A a \in accepted : a.nonce # n
  /\ \E response \in echoes \cup OtherEchoes(n), rtt \in Times :
       /\ EchoVerifies(response, attested, n)
       /\ accepted' = accepted \cup {[nonce |-> n, rtt |-> IF rtt < 0 THEN 0 ELSE rtt]}
  /\ UNCHANGED <<scraping, agent, serving, attested, asked, echoes, signed, measuring>>

-----------------------------------------------------------------------------
(* The enclave's probes of landmarks: all of them echo the nonce sent to   *)
(* them, or there are no measurements at all.                              *)

Bodies(n) == [form : {"object", "string", "text"}, nonce : {n, <<0>>}] \cup {[form |-> "empty", nonce |-> <<>>]}
Echoed(body) == IF body.form = "empty" THEN None ELSE body.nonce

ProbeLandmark ==
  /\ phase = "measure" /\ Len(outcomes) < Len(targets)
  /\ \E n \in Nonces : \E body \in Bodies(n), rtt \in Times :
       /\ rtt >= 0
       /\ IF Echoed(body) = n
          THEN /\ outcomes' = Append(outcomes, [landmark |-> targets[Len(outcomes) + 1], rtt |-> rtt])
               /\ UNCHANGED phase
          ELSE phase' = "failed" /\ UNCHANGED outcomes
  /\ UNCHANGED <<peer, insecure, offer, recorded, tls, agent, proof, submitted, quote, reply, signature,
                 serving, probing, targets, landmark_rtts>>

LandmarkFails ==
  /\ phase = "measure" /\ Len(outcomes) < Len(targets) /\ phase' = "failed"
  /\ UNCHANGED <<peer, insecure, offer, recorded, tls, agent, proof, submitted, quote, reply, signature,
                 serving, probing, measuring>>

(* Faulty variant: the last measurement of a landmark is the one that      *)
(* counts.                                                                 *)
LatestRtts(ms) ==
  [l \in {ms[i].landmark : i \in DOMAIN ms} |->
     ms[Max({i \in DOMAIN ms : ms[i].landmark = l})].rtt]

(* The least round trip of each landmark.                                  *)
LandmarkRtts(ms) ==
  [l \in {ms[i].landmark : i \in DOMAIN ms} |->
     Min({ms[i].rtt : i \in {j \in DOMAIN ms : ms[j].landmark = l}})]

Measured ==
  /\ phase = "measure" /\ Len(outcomes) = Len(targets)
  /\ landmark_rtts' = LandmarkRtts(outcomes) /\ phase' = "measured"
  /\ UNCHANGED <<peer, insecure, offer, recorded, tls, agent, proof, submitted, quote, reply, signature,
                 serving, probing, targets, outcomes>>

(* The validator's check of the map against its own: no landmark may be    *)
(* nearer than it measured, beyond a tolerance of Slack or half of it.     *)
TooFast(self, floor) == 2 * self + (IF 2 * Slack >= floor THEN 2 * Slack ELSE floor) < 2 * floor

CrossCheck(self, validator) ==
  LET missing == DOMAIN self \ DOMAIN validator
      fast == {l \in DOMAIN self \ missing : TooFast(self[l], validator[l])}
  IN IF DOMAIN self = {} THEN "no_data"
     ELSE IF missing \cup fast = {} THEN "consistent"
     ELSE IF Min(missing \cup fast) \in missing THEN "missing" ELSE "faster_than_physics"

-----------------------------------------------------------------------------
Rest == UNCHANGED <<serving, probing, measuring>>

Next ==
  \/ ScrapeStep /\ Rest
  \/ AgentRekeys /\ Rest
  \/ Return \/ Start \/ Drop \/ Joined \/ ServerStep
  \/ \E n \in Nonces : CallerAsks(n) \/ Probe(n) \/ Measure(n)
  \/ Sign("caller") \/ SignFails("caller") \/ Reply("caller")
  \/ ProbeLandmark \/ LandmarkFails \/ Measured

Fairness == WF_vars(ServerStep) /\ WF_vars(Joined)

Spec == Init /\ [][Next]_vars /\ Fairness

-----------------------------------------------------------------------------
(* Whatever a seed prefers, no server is lost for it (fetch.rs:652-740).   *)
NoServerIsLost == phase = "handshake" => (Common = <<>> <=> peer.accepts \cap ToSet(Suites) = {})

(* The key share is the one of the server's last ServerHello however its   *)
(* records were split and read, and the SCTs are all of the certificate's  *)
(* or none; evidence of a good handshake is lost only where the reading    *)
(* stopped inside a later record (fetch.rs:1256-1430).                     *)
PiecesAreTheServers ==
  /\ tls # None /\ peer # None =>
       /\ tls.share = (IF peer.version = "1.3" THEN peer.share ELSE None)
       /\ tls.scts \in {peer.scts, <<>>}
  /\ phase = "failed" /\ peer # None /\ tls = None /\ Len(recorded) >= Len(peer.flight) =>
       \/ ~peer.valid \/ peer.version # "1.3"
       \/ Units(recorded, 1, Len(recorded)) = None

(* Nothing unverified passes for verified, and the chain and transcript    *)
(* are those of the connection (fetch.rs:1256-1375).                       *)
VerifiedIsVerified ==
  tls # None /\ peer # None =>
    /\ tls.chain = peer.chain
    /\ tls.validated => peer.valid /\ peer.version = "1.3" /\ tls.transcript # None /\ tls.share # None

(* The evidence names the server that was reached.                         *)
EvidenceIsTheServers == NoServerIsLost /\ PiecesAreTheServers /\ VerifiedIsVerified

(* Every proof there could be, its report data, and what of it matters:    *)
(* header names have no case.                                              *)
Variants(t) ==
  {t, [t EXCEPT !.method = @ + 1], [t EXCEPT !.url = @ + 1], [t EXCEPT !.body = Append(@, 1)],
   [t EXCEPT !.response.headers = Append(@, Seeded(ContentType))], [t EXCEPT !.response.body = Append(@, 1)],
   [t EXCEPT !.egress_ip = Append(@, 1)], [t EXCEPT !.timestamp = Append(@, 1)],
   [t EXCEPT !.fingerprint_seed = Append(@, 1)]}
Claims ==
  {[t EXCEPT !.headers = EffectiveHeaders(@)] @@ [key |-> <<k>>] @@ c :
     t \in UNION {Variants(t) : t \in {t \in Tasks : ValidHeaders(t.headers) /\ None \notin {t.task_id, t.nonce}}},
     k \in Keys,
     c \in {[chain |-> p.chain, transcript |-> TranscriptHash(SignedInput(p, s))] : p \in Peers, s \in ToSet(Modern)}}
ClaimedReports == [c \in Claims |-> Normalized(ReportData(c))]
Folded(headers) == [i \in DOMAIN headers |-> [headers[i] EXCEPT !.name = Lower(@)]]

SameButForTheTask(claimed) ==
  /\ claimed.key = proof.key /\ claimed.chain = tls.chain /\ claimed.transcript = tls.transcript
  /\ claimed.task_id \o claimed.nonce = proof.task_id \o proof.nonce
  /\ claimed.url = proof.url /\ claimed.method = proof.method /\ claimed.headers = proof.headers
  /\ claimed.body = proof.body /\ claimed.response.body = proof.response.body
  /\ Folded(claimed.response.headers) = Folded(proof.response.headers)
  /\ <<claimed.egress_ip, claimed.timestamp, claimed.fingerprint_seed>>
       = <<proof.egress_ip, proof.timestamp, proof.fingerprint_seed>>
  /\ \A f \in ToSet(DeterministicFormats) :
       /\ f \in DOMAIN claimed.formats <=> f \in DOMAIN proof.formats
       /\ f \in DOMAIN proof.formats => claimed.formats[f] = proof.formats[f]

Fits(q, layout) == Len(q) = Len(layout) /\ \A i \in DOMAIN q : layout[i] \in {Free, q[i]}
Genuine(answer) ==
  /\ \E l \in Layouts(submitted) : Fits(answer.quote, EncodeQuote(l))
  /\ answer.report_data = submitted /\ answer.event_log /\ answer.vm_config

(* A quote is accepted exactly when it is one, byte for byte, for the      *)
(* report data asked for (attestation.rs:179-461).                         *)
QuotesAreGenuine ==
  /\ phase \in {"quoted", "sign", "proved"} => Genuine(reply) /\ quote = reply.quote
  /\ phase = "refused" => ~Genuine(reply)

(* A proof is signed, over its content, by the key in the report data of   *)
(* its quote, although the agent may change keys between any two answers;  *)
(* and that report data is over this task, this connection's chain and     *)
(* transcript, and that key (lib.rs:1086-1142).                            *)
SignedAsQuoted == phase = "proved" =>
  /\ <<signature.by>> = proof.key /\ signature.over = "proof"
  /\ proof.chain = tls.chain /\ proof.transcript = tls.transcript /\ Complete(proof)
  /\ ValidQuote(quote) /\ QuotedReport(quote) = Normalized(ReportData(proof))

(* Of all proofs with the same report data none has another key, server,   *)
(* handshake, request, response, result or egress; only where the task id  *)
(* ends and the nonce begins is not committed to. The headers it hashes    *)
(* are those that were written, but for the transport's own and a default  *)
(* Content-Type (canonical.rs:40-150).                                     *)
ReportIsOfOneProof == phase = "proved" =>
  /\ IsPrefix(Fixed \o proof.headers, Written(proof)) /\ (proof.body # <<>> \/ Written(proof) = Fixed \o proof.headers)
  /\ \A claimed \in {c \in Claims : ClaimedReports[c] = QuotedReport(quote)} : SameButForTheTask(claimed)

(* A proof stands on a genuine quote that commits to it and to no other.   *)
ProofIsBound == QuotesAreGenuine /\ SignedAsQuoted /\ ReportIsOfOneProof

(* A round trip counts only if the enclave's attested key signed the very  *)
(* nonce of that probe, whoever answers, whatever key the agent has come   *)
(* to hold and however requests arrive (rtt_echo.rs:201-249).              *)
RttIsTheEnclaves == \A a \in accepted :
  a.nonce \in asked /\ <<attested[1], a.nonce>> \in signed /\ a.rtt >= 0

(* The egress record has every landmark that was probed and no other, with *)
(* a time that was measured and that no other measurement beats; and what  *)
(* the validator finds consistent beats its own measurement of no landmark *)
(* by more than the tolerance (egress.rs:101-116, rtt_echo.rs:627-690).    *)
LandmarksHold == phase = "measured" =>
  /\ DOMAIN landmark_rtts = ToSet(targets)
  /\ \A i \in DOMAIN outcomes : landmark_rtts[outcomes[i].landmark] <= outcomes[i].rtt
  /\ \A l \in DOMAIN landmark_rtts : \E i \in DOMAIN outcomes :
       outcomes[i] = [landmark |-> l, rtt |-> landmark_rtts[l]]
  /\ \A validator \in UNION {[ls -> Times \cap Nat] : ls \in SUBSET ToSet(targets)} :
       CrossCheck(landmark_rtts, validator) = "consistent" =>
         \A l \in DOMAIN landmark_rtts :
           l \in DOMAIN validator /\ validator[l] - landmark_rtts[l] <= Max({Slack, validator[l] \div 2})

(* Round-trip times, the validator's of the enclave and the enclave's of   *)
(* its landmarks, are of whom they are said to be and not shorter than     *)
(* they were measured (rtt_echo.rs:199-692, egress.rs:99-116).             *)
RttsHold == RttIsTheEnclaves /\ LandmarksHold

(* Dropping the server ends, whatever its clients do and however many wait *)
(* (rtt_echo.rs:273-282).                                                  *)
ServerStops == owner = "dropping" ~> owner = "gone"

TypeOK ==
  /\ phase \in {"headers", "handshake", "key", "ask", "quote", "sign", "proved", "published", "quoted", "refused",
                "failed", "measure", "measured"}
  /\ agent \in Keys /\ insecure \in BOOLEAN /\ shutdown \in BOOLEAN
  /\ loop \in {"off", "check", "accept", "serve", "stopped"} /\ owner \in {"none", "up", "dropping", "gone"}
  /\ Len(backlog) <= MaxWaiting /\ asked \subseteq Nonces

=============================================================================
