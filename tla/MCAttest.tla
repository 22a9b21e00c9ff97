------------------------------ MODULE MCAttest ------------------------------
(* Servers that split their ServerHello anywhere, ask for another hello    *)
(* first, or speak an older protocol; a certificate that does not validate.*)
EXTENDS Attest

MCDigest(s) == FoldLeft(LAMBDA code, b : (101 * code + b + 1) % 999983, 1, s)

Share == <<22, 3>>
Extensions(share) == Unit(43, <<9>>) \o Unit(KeyShareExtension, <<29>> \o share)
Hello(id, extensions) == Unit(ServerHello, <<2, Len(id)>> \o id \o <<7, Len(extensions)>> \o extensions)
WithShare(id) == Hello(id, Extensions(<<Len(Share)>> \o Share))
Retry == Hello(<<>>, Extensions(<<>>))

(* A change of cipher spec, and what is encrypted.                         *)
Encrypted == Unit(20, <<1>>) \o Unit(23, <<2, 4, 51>>)
Split(bytes, k) == Unit(Handshake, SubSeq(bytes, 1, k)) \o Unit(Handshake, SubSeq(bytes, k + 1, Len(bytes)))

Flights ==
  {Unit(Handshake, WithShare(<<22>>)) \o Encrypted,
   Unit(Handshake, Retry) \o Unit(20, <<1>>) \o Unit(Handshake, WithShare(<<>>)) \o Unit(23, <<22>>)}
  \cup {Split(WithShare(<<>>), k) \o Encrypted : k \in 1..(Len(WithShare(<<>>)) - 1)}

Usual == [version |-> "1.3", accepts |-> ToSet(Suites), valid |-> TRUE, chain |-> <<5>>, share |-> Share,
           after |-> Unit(23, <<2, 9>>) \o Unit(23, <<4>>), transcript |-> <<8, 1, 2>>,
           sct |-> <<OctetString, 6, 5, 2, 1, 1, 1, 3>>, scts |-> <<<<1, 1>>, <<3>>>>, ocsp |-> <<1>>]

MCPeers ==
  {f @@ Usual : f \in [flight : Flights]}
  \cup {g @@ [flight |-> CHOOSE f \in Flights : TRUE] @@ Usual : g \in
          {[valid |-> FALSE, chain |-> <<6>>],
           [accepts |-> {"CHACHA20"}, chain |-> <<6>>,
            sct |-> <<5, 2, 1, 1, 2, 3>>, scts |-> <<>>, ocsp |-> <<>>]}}
  \cup {[flight |-> Unit(Handshake, Hello(<<>>, Unit(43, <<9>>)))] @@ [version |-> "1.2", accepts |-> {"ECDHE_RSA"}] @@ Usual}

(* Two tasks whose id and nonce run together alike, one without an id, and *)
(* results and headers that differ in what is shifted, cased or left out.  *)
Header(name, value) == [name |-> name, value |-> value]
Task(id, nonce, headers, formats) ==
  [task_id |-> id, nonce |-> nonce, method |-> 1, url |-> 2, body |-> <<>>, headers |-> headers, formats |-> formats,
   response |-> [headers |-> <<Header(43, <<8>>)>>, body |-> <<7>>],
   egress_ip |-> <<1>>, timestamp |-> <<2, 1>>, fingerprint_seed |-> <<9>>]

MCTasks ==
  {Task(<<1>>, <<2, 3>>, <<Header(45, <<6>>)>>, [markdown |-> <<7>>, metadata |-> <<2, 7>>, screenshot |-> <<1>>]),
   Task(<<1, 2>>, <<3>>, <<Header(5, <<6>>)>>, [markdown |-> <<7>>, metadata |-> <<2, 7>>]),
   Task(<<1>>, <<2, 3>>, <<Header(5, <<6>>), Header(45, <<>>)>>, [metadata |-> <<7>>]),
   Task(<<1>>, <<2, 3>>, <<Header(44, <<6>>), Header(5, <<6>>)>>, [metadata |-> <<2, 7>>]),
   [Task(<<1>>, <<2, 3>>, <<>>, [markdown |-> <<7, 2>>, metadata |-> <<7>>]) EXCEPT !.body = <<4>>],
   Task(<<1>>, <<2, 3>>, <<Header(41, <<6>>)>>, [metadata |-> <<7>>]),
   Task(<<1>>, <<3>>, <<Header(5, <<6, Nul>>)>>, [metadata |-> <<7>>]),
   Task(None, <<3>>, <<>>, [markdown |-> <<7>>])}
MCPreferences == {<<>>, <<"CHACHA20", "AES_128", "AES_256">>, <<"AES_128", "CHACHA20", "AES_256">>}
MCHeaderNames == <<AcceptAny, UserAgent, AcceptEncoding>>
MCInputs == {<<>>, <<6>>, <<6, 2>>, <<6, 2, 1>>}
MCTimes == {-1, 3, 8}
MCNonces == {<<1, 2>>, <<3>>}
MCTargets == {<<1>>, <<1, 2, 1>>}

=============================================================================
