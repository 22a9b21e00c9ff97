------------------------------ MODULE Evidence ------------------------------
(***************************************************************************)
(* What an attested proof stands on: the evidence of the TLS handshake     *)
(* (fetch.rs), the quote and the signatures the guest agent gives          *)
(* (attestation.rs), and the report data that ties them together           *)
(* (canonical.rs, lib.rs). Bytes are numbers; a length, a type or a fixed  *)
(* field of any width is one of them. The server, the guest agent and the  *)
(* time they take are environment; the agent may change its key.           *)
(***************************************************************************)
EXTENDS Integers, SequencesExt, FiniteSetsExt, Positions

CONSTANTS
  Peers,        (* servers: what they negotiate, certify and send          *)
  Tasks,        (* tasks: id and nonce, None where missing; the exchange   *)
  Preferences,  (* orders of cipher suites that seeds come to              *)
  HeaderNames,  (* the order a seed gives the headers it owns              *)
  Inputs,       (* what other callers of get_quote ask a quote for         *)
  Keys,         (* signing keys the agent may hold                         *)
  Digest(_),    (* the hash of a sequence, as one number                   *)
  Width,        (* bytes of report data in a quote                         *)
  Bytes,        (* what a damaged byte turns into                          *)
  None

ASSUME EvidenceAssumption ==
  /\ Width \in Nat /\ Width > 1 /\ Keys \subseteq Nat
  /\ Preferences \subseteq Seq(STRING) /\ None \notin Peers

VARIABLES
  phase,        (* what the scrape, or the caller of get_quote, is at      *)
  peer,         (* the server it fetches from                              *)
  insecure,     (* the option that accepts any certificate                 *)
  offer,        (* the suites it offers, in order                          *)
  recorded,     (* the bytes RecordingStream kept                          *)
  tls,          (* the TLS evidence, or None                               *)
  agent,        (* the key of the guest agent                              *)
  proof,        (* the committed fields: task, evidence and key            *)
  submitted,    (* the report data a quote was asked for                   *)
  quote,        (* the quote accepted                                      *)
  reply,        (* the answer it came in                                   *)
  signature     (* the proof's signature                                   *)

scraping == <<phase, peer, insecure, offer, recorded, tls, proof, submitted, quote, reply, signature>>

-----------------------------------------------------------------------------
(* The caller's headers: names have no case, none is repeated, and those   *)
(* that transports write are refused.                                      *)
UserAgent == 1
AcceptEncoding == 2
ContentType == 3
AcceptAny == 4
Managed == {UserAgent, AcceptEncoding}
SeedOwned == {UserAgent, AcceptEncoding, AcceptAny}
Lower(name) == IF name > 40 THEN name - 40 ELSE name

(* A value with a NUL stands for any pair that is not one line.            *)
Nul == 0
OneLine(header) == ~Contains(header.value, Nul)

ValidHeaders(headers) ==
  /\ \A i \in DOMAIN headers : OneLine(headers[i]) /\ Lower(headers[i].name) \notin Managed
  /\ \A i, j \in DOMAIN headers : Lower(headers[i].name) = Lower(headers[j].name) => i = j

(* The seed's headers, in its order, and what the caller has besides.      *)
Seeded(name) == [name |-> name, value |-> <<9>>]
EffectiveHeaders(headers) ==
  [i \in DOMAIN HeaderNames |-> Seeded(HeaderNames[i])]
    \o SelectSeq([i \in DOMAIN headers |-> [headers[i] EXCEPT !.name = Lower(@)]],
                 LAMBDA h : h.name \notin SeedOwned)

(* What build_http_request writes: a line of its own before the headers    *)
(* (Host and Connection are as fixed), and what is missing after them.     *)
Fixed == <<Seeded(AcceptEncoding)>>
Written(p) ==
  LET has(name) == \E i \in DOMAIN p.headers : p.headers[i].name = name
  IN Fixed \o p.headers
       \o (IF has(UserAgent) THEN <<>> ELSE <<Seeded(UserAgent)>>)
       \o (IF p.body # <<>> /\ ~has(ContentType) THEN <<[name |-> ContentType, value |-> <<8>>]>> ELSE <<>>)

CheckHeaders ==
  /\ phase = "headers"
  /\ IF ValidHeaders(proof.headers)
     THEN phase' = "handshake" /\ proof' = [proof EXCEPT !.headers = EffectiveHeaders(@)]
     ELSE phase' = "failed" /\ UNCHANGED proof
  /\ UNCHANGED <<peer, insecure, offer, recorded, tls, agent, submitted, quote, reply, signature>>

(* The suites a seed prefers come first, and all of the others after them; *)
(* the server takes the first that it accepts.                             *)
Modern == <<"AES_256", "AES_128", "CHACHA20">>
Suites == Modern \o <<"ECDHE_RSA">>
HashWidth(suite) == IF suite = "AES_256" THEN 3 ELSE 2

Offer(preferred) == Merge(Merge(<<>>, Keep(preferred, LAMBDA s : s \in ToSet(Modern))), Suites)

Common == Keep(offer, LAMBDA s : s \in peer.accepts)

-----------------------------------------------------------------------------
(* The key share, from the plaintext records: a record is its type, its    *)
(* length and its content, and so are a handshake message and an extension.*)

Handshake == 22
ServerHello == 2
KeyShareExtension == 51

Unit(type, content) == <<type, Len(content)>> \o content

(* The units that bytes from at hold up to end, or None if one is cut.     *)
(* What is too short for a header is passed over.                          *)
Units(bytes, first, end) ==
  LET from[at \in Nat] ==
        IF at + 1 > end THEN <<>>
        ELSE LET next == at + 2 + bytes[at + 1]
             IN IF next > end + 1 \/ from[next] = None THEN None
                ELSE <<[type |-> bytes[at], content |-> SubSeq(bytes, at + 2, next - 1)]>> \o from[next]
  IN from[first]

Contents(units) == FlattenSeq([i \in DOMAIN units |-> units[i].content])
OfType(units, type) == SelectSeq(units, LAMBDA u : u.type = type)

(* A key share with no key, as in a HelloRetryRequest, is none.            *)
ShareIn(extensions) ==
  LET keyed == SelectSeq(OfType(extensions, KeyShareExtension), LAMBDA e :
                 Len(e.content) >= 2 /\ e.content[2] # 0 /\ e.content[2] + 2 = Len(e.content))
  IN IF keyed = <<>> THEN None ELSE SubSeq(keyed[1].content, 3, Len(keyed[1].content))

(* The random, the session id, the suite, then the extensions. None of     *)
(* them is cut in a ServerHello that rustls accepted.                      *)
HelloKeyShare(hello) ==
  IF Len(hello) < 2 \/ Len(hello) < hello[2] + 4 THEN None
  ELSE LET start == hello[2] + 4
           end == start + hello[start]
           extensions == Units(hello, start + 1, end)
       IN IF end > Len(hello) \/ extensions = None THEN None ELSE ShareIn(extensions)

(* Faulty variant: each record is taken to hold whole messages.            *)
MessagesByRecord(records) ==
  FlattenSeq([i \in DOMAIN records |->
    LET us == Units(records[i].content, 1, Len(records[i].content)) IN IF us = None THEN <<>> ELSE us])

Messages(records) == LET bytes == Contents(records) IN Units(bytes, 1, Len(bytes))

ServerKeyShare(bytes) ==
  LET records == Units(bytes, 1, Len(bytes))
      messages == IF records = None THEN None ELSE Messages(OfType(records, Handshake))
      hellos == OfType(messages, ServerHello)
      shares == SelectSeq([i \in DOMAIN hellos |-> HelloKeyShare(hellos[i].content)], LAMBDA s : s # None)
  IN IF messages = None \/ shares = <<>> THEN None ELSE Last(shares)

-----------------------------------------------------------------------------
(* The certificate's SCTs: a list, in an octet string or bare, of lengths  *)
(* and entries; all of it or nothing.                                      *)

OctetString == 4

Unwrapped(value) ==
  IF Len(value) >= 2 /\ value[1] = OctetString /\ value[2] + 2 = Len(value)
  THEN SubSeq(value, 3, Len(value)) ELSE value

SctList(value) ==
  LET entries[at \in Nat] ==
        IF at > Len(value) THEN <<>>
        ELSE LET next == at + 1 + value[at]
             IN IF value[at] = 0 \/ next > Len(value) + 1 \/ entries[next] = None THEN None
                ELSE <<SubSeq(value, at + 1, next - 1)>> \o entries[next]
  IN IF value = <<>> \/ value[1] # Len(value) - 1 \/ entries[2] = None THEN <<>> ELSE entries[2]

(* The transcript hash at the end of what the server's signature is over.  *)
Padding == <<32, 32>>
Context == <<33>>
TranscriptHash(message) ==
  IF IsPrefix(Padding \o Context, message) /\ Len(message) - 3 \in {2, 3}
  THEN SubSeq(message, 4, Len(message)) ELSE None

(* What rustls has the server's signature verified over, for the suite.    *)
SignedInput(p, suite) == Padding \o Context \o SubSeq(p.transcript, 1, HashWidth(suite))

(* Neither an older protocol nor a missing piece is passed over, unless    *)
(* the protocol has no such piece and the caller asked for diagnostics.    *)
Captured ==
  LET modern == peer.version = "1.3"
      share == ServerKeyShare(recorded)
      transcript == IF modern THEN TranscriptHash(SignedInput(peer, Common[1])) ELSE None
  IN IF \/ (~modern /\ ~insecure) \/ peer.chain = <<>>
        \/ (modern /\ (share = None \/ transcript = None \/ Len(transcript) # HashWidth(Common[1])))
     THEN None
     ELSE [validated |-> ~insecure, version |-> peer.version, chain |-> peer.chain,
           share |-> IF modern THEN share ELSE None, transcript |-> transcript,
           scts |-> SctList(Unwrapped(peer.sct)),
           ocsp |-> IF peer.ocsp = <<>> THEN None ELSE peer.ocsp]

VerifierAccepts == insecure \/ peer.valid
Sent == peer.flight \o peer.after

(* A read takes what has arrived, which may go past the handshake.         *)
Record ==
  /\ phase = "handshake" /\ Common # <<>> /\ Len(recorded) < Len(peer.flight)
  /\ \E n \in (Len(recorded) + 1)..Len(Sent) : recorded' = SubSeq(Sent, 1, n)
  /\ UNCHANGED <<phase, peer, insecure, offer, tls, agent, proof, submitted, quote, reply, signature>>

(* No suite is common, the connection ends, the deadline passes, or the    *)
(* chain is refused.                                                       *)
HandshakeFails ==
  /\ phase = "handshake"
  /\ Len(recorded) < Len(peer.flight) \/ ~VerifierAccepts
  /\ phase' = "failed"
  /\ UNCHANGED <<peer, insecure, offer, recorded, tls, agent, proof, submitted, quote, reply, signature>>

HandshakeEnds ==
  /\ phase = "handshake" /\ Common # <<>>
  /\ Len(recorded) >= Len(peer.flight) /\ VerifierAccepts
  /\ tls' = Captured
  /\ phase' = IF tls' = None THEN "failed" ELSE "key"
  /\ UNCHANGED <<peer, insecure, offer, recorded, agent, proof, submitted, quote, reply, signature>>

-----------------------------------------------------------------------------
(* Digests of request, response and result (canonical.rs): names and       *)
(* values, each ended by a NUL, which neither holds. Header names have no  *)
(* case, and formats that differ from run to run do not count.             *)
Ended(parts) == FlattenSeq([i \in DOMAIN parts |-> Append(parts[i], Nul)])
DeterministicFormats == <<"markdown", "metadata">>

HeadersHash(headers) ==
  Digest(Ended(FlattenSeq([i \in DOMAIN headers |-> <<<<Lower(headers[i].name)>>, headers[i].value>>])))
RequestHash(p) ==
  Digest(Ended(<<<<p.method>>, <<p.url>>, <<HeadersHash(p.headers)>>, <<Digest(p.body)>>>>))
ResponseHash(response) == Digest(<<HeadersHash(response.headers), Digest(response.body)>>)
ResultHash(formats) ==
  Digest(Ended(FlattenSeq([i \in DOMAIN DeterministicFormats |->
    IF DeterministicFormats[i] \in DOMAIN formats THEN <<<<i>>, formats[DeterministicFormats[i]]>> ELSE <<>>])))

(* Faulty variant: the response is left out.                               *)
WithoutResponse(p) ==
  <<p.task_id, p.nonce, <<RequestHash(p)>>, p.chain, p.transcript,
    <<ResultHash(p.formats)>>, p.egress_ip, p.timestamp, p.fingerprint_seed, p.key>>

(* The report data: the hash of the fields, one after the other.           *)
ReportFields(p) ==
  <<p.task_id, p.nonce, <<RequestHash(p)>>, p.chain, p.transcript, <<ResponseHash(p.response)>>,
    <<ResultHash(p.formats)>>, p.egress_ip, p.timestamp, p.fingerprint_seed, p.key>>
Complete(p) == \A i \in DOMAIN ReportFields(p) : ReportFields(p)[i] \notin {None, <<>>}
Sha512(bytes) == [i \in 1..Width |-> Digest(bytes)]
ReportData(p) == Sha512(FlattenSeq(ReportFields(p)))

(* A longer value is hashed to half the field, a shorter one padded.       *)
Normalized(bytes) ==
  LET value == IF Len(bytes) > Width THEN [i \in 1..(Width \div 2) |-> Digest(bytes)] ELSE bytes
  IN [i \in 1..Width |-> IF i \in DOMAIN value THEN value[i] ELSE 0]

(* A quote: the header, the report, then the length and the content of the *)
(* signature data, the certification data of two kinds nested in it, and   *)
(* the zeros after it.                                                     *)
QuoteVersion == 4
TeeType == 8
QeReport == 6
PckChain == 5
ReportAt == 5
LengthAt == ReportAt + Width
MinSignatureData == 10

(* What may be anything in a quote.                                        *)
Free == 99

SignatureData(l) == <<Free, Free, QeReport, 5 + Len(l.auth) + Len(l.pck), Free, Free, Len(l.auth)>>
                      \o l.auth \o <<PckChain, Len(l.pck)>> \o l.pck
EncodeQuote(l) == <<QuoteVersion, TeeType, Free, Free>> \o l.report
                    \o <<Len(SignatureData(l))>> \o SignatureData(l) \o l.zeros
Layouts(report) ==
  [report : {report}, auth : {<<>>, <<Free>>}, pck : {<<Free>>, <<Free, Free>>},
   zeros : {<<>>, <<0>>, <<0, 0>>}]

ValidCertification(data) ==
  LET auth == data[7]
      header == 8 + auth
  IN /\ data[3] = QeReport /\ data[4] + 4 = Len(data) /\ data[4] >= MinSignatureData - 4
     /\ header + 1 <= Len(data)
     /\ data[header] = PckChain /\ data[header + 1] >= 1 /\ header + 1 + data[header + 1] = Len(data)

(* Faulty variant: the signature data is taken to reach the end.           *)
ValidQuoteOpen(q) ==
  /\ Len(q) >= LengthAt + MinSignatureData /\ q[1] = QuoteVersion /\ q[2] = TeeType
  /\ q[LengthAt] >= MinSignatureData /\ LengthAt + q[LengthAt] <= Len(q)
  /\ ValidCertification(SubSeq(q, LengthAt + 1, LengthAt + q[LengthAt]))

ValidQuote(q) ==
  /\ Len(q) >= LengthAt + MinSignatureData
  /\ q[1] = QuoteVersion /\ q[2] = TeeType
  /\ q[LengthAt] >= MinSignatureData
  /\ LET end == LengthAt + q[LengthAt]
     IN /\ end <= Len(q) /\ \A i \in (end + 1)..Len(q) : q[i] = 0
        /\ ValidCertification(SubSeq(q, LengthAt + 1, end))

QuotedReport(q) == SubSeq(q, ReportAt, LengthAt - 1)

Accepts(answer, expected) ==
  /\ answer.event_log /\ answer.vm_config
  /\ ValidQuote(answer.quote)
  /\ answer.report_data = expected /\ QuotedReport(answer.quote) = expected

(* What comes back for a quote that was laid out so: as it is, cut,        *)
(* continued or changed in one byte.                                       *)
Damaged(q) ==
  {q} \cup {SubSeq(q, 1, i) : i \in 0..(Len(q) - 1)} \cup {Append(q, b) : b \in Bytes}
      \cup {[q EXCEPT ![i] = b] : i \in DOMAIN q, b \in Bytes}

(* The quote is for what was asked, or for what someone else asked.        *)
Answers ==
  LET whole(r) == [quote |-> EncodeQuote([report |-> r, auth |-> <<>>, pck |-> <<Free>>, zeros |-> <<>>]),
                   report_data |-> r, event_log |-> TRUE, vm_config |-> TRUE]
      other == Normalized(<<6>>)
  IN UNION {{[whole(submitted) EXCEPT !.quote = q] : q \in Damaged(EncodeQuote(l))} :
                l \in {l \in Layouts(submitted) : Len(l.zeros) < 2}}
       \cup {[whole(submitted) EXCEPT !.event_log = FALSE], [whole(submitted) EXCEPT !.vm_config = FALSE],
             whole(other), [whole(other) EXCEPT !.report_data = submitted],
             [whole(submitted) EXCEPT !.report_data = other]}

-----------------------------------------------------------------------------
(* Asking the agent. It may be unreachable, refuse or answer nonsense.     *)

Waiting == phase \in {"key", "quote", "sign"}

AgentFails ==
  /\ Waiting /\ phase' = "failed"
  /\ UNCHANGED <<peer, insecure, offer, recorded, tls, agent, proof, submitted, quote, reply, signature>>

(* Whenever somebody is still to ask it something.                         *)
AgentRekeys ==
  /\ phase \notin {"quoted", "refused", "failed", "measure", "measured"}
  /\ agent' \in Keys \ {agent} /\ UNCHANGED scraping

(* The agent signs a fixed probe, so that its key can be committed to. Of  *)
(* the fetch, only the evidence is left.                                   *)
KeyLearned ==
  /\ phase = "key"
  /\ proof' = [proof EXCEPT !.key = <<agent>>, !.chain = tls.chain, !.transcript = tls.transcript]
  /\ IF Complete(proof') THEN phase' = "quote" /\ submitted' = Normalized(ReportData(proof'))
     ELSE phase' = "failed" /\ UNCHANGED submitted
  /\ recorded' = <<>> /\ peer' = None /\ insecure' = FALSE /\ offer' = <<>>
  /\ UNCHANGED <<tls, agent, quote, reply, signature>>

(* get_quote, for the scrape or for another caller of its own.             *)
AskQuote ==
  /\ phase = "ask"
  /\ \E input \in Inputs :
       IF input = <<>> THEN phase' = "failed" /\ UNCHANGED submitted
       ELSE phase' = "quote" /\ submitted' = Normalized(input)
  /\ UNCHANGED <<peer, insecure, offer, recorded, tls, agent, proof, quote, reply, signature>>

QuoteAnswered ==
  /\ phase = "quote"
  /\ \E answer \in Answers :
       /\ reply' = answer
       /\ IF Accepts(answer, submitted)
          THEN quote' = answer.quote /\ phase' = IF proof = None THEN "quoted" ELSE "sign"
          ELSE phase' = "refused" /\ UNCHANGED quote
  /\ UNCHANGED <<peer, insecure, offer, recorded, tls, agent, proof, submitted, signature>>

Signatures == [by : Keys, over : {"proof", "other"}]
Verifies(key, sig, message) == <<sig.by>> = key /\ sig.over = message

SignedAsCommitted(public_key, sig) ==
  public_key = proof.key /\ Verifies(proof.key, sig, "proof")

(* The agent names the key it has now; the signature may be any.           *)
SignAnswered ==
  /\ phase = "sign"
  /\ \E sig \in Signatures :
       IF SignedAsCommitted(<<agent>>, sig)
       THEN signature' = sig /\ phase' = "proved"
       ELSE phase' = "failed" /\ UNCHANGED signature
  /\ UNCHANGED <<peer, insecure, offer, recorded, tls, agent, proof, submitted, quote, reply>>

ScrapeStep ==
  \/ CheckHeaders \/ Record \/ HandshakeFails \/ HandshakeEnds
  \/ AgentFails \/ KeyLearned \/ AskQuote \/ QuoteAnswered \/ SignAnswered

=============================================================================
