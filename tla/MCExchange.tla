----------------------------- MODULE MCExchange -----------------------------
(* Upstreams of each kind, named or not, that answer well, badly or refuse; *)
(* requests that declare less or more than they send; responses within and  *)
(* beyond the limits, in chunks, with a declared length or with neither, in *)
(* gzip, deflate or an unknown coding.                                      *)
EXTENDS Exchange, TLC

NoOptions == [country |-> None, session |-> None, template |-> None]
Env(http, all) == [HTTPS_PROXY |-> None, HTTP_PROXY |-> http, ALL_PROXY |-> all]

Http == [kind |-> "http", name |-> Name(None, None, None)]
HttpNamed == [kind |-> "http", name |-> Name("u", "US", None)]
Socks == [kind |-> "socks5", name |-> Name("u", None, None)]
SocksOpen == [kind |-> "socks5", name |-> Name(None, None, None)]
Bad == [kind |-> "other", name |-> Name(None, None, None)]

MCUpstreams == (21 :> None) @@ (22 :> HttpNamed) @@ (23 :> Bad)
MCServerEnv == Env(None, SocksOpen)

Plan(explicit, required, options, env) ==
  [explicit |-> explicit, required |-> required, username |-> options, scheme |-> "https", env |-> env]
Session == [NoOptions EXCEPT !.session = "s"]
MCPlans ==
  { Plan(Socks, "residential", Session, Env(Http, None)),
    Plan(None, "residential", NoOptions, Env(None, None)),
    Plan(None, None, NoOptions, Env(None, None)),
    Plan(None, "direct", NoOptions, Env(HttpNamed, None)),
    Plan(None, None, Session, Env(Http, Socks)),
    Plan(HttpNamed, None, [Session EXCEPT !.template = "literal"], Env(None, Bad)),
    Plan(HttpNamed, None, [NoOptions EXCEPT !.template = "unknown placeholder"], Env(None, None)) }

Request(method, path, secret, length, body) ==
  [method |-> method, path |-> path, secret |-> secret, length |-> length, body |-> body]
MCRequests ==
  { Request(Get, Health, None, 0, <<>>), Request(Post, ScrapeRoute, None, 3, <<Open, 21, Close>>),
    Request(Post, Health, Secret, 0, <<>>), Request(Post, ScrapeRoute, Secret, 0, <<>>) }
  \cup { Request(Post, ScrapeRoute, Secret, length, <<Open, url, Close>> \o more) :
           length \in {2, 3, 4, 5}, url \in {21, 22, 23}, more \in {<<>>, <<Post>>, <<Post, Post>>} }

MCAnswers ==
  [ http |-> { <<status>> \o EndOfHead : status \in {200, 407, 403} }
               \cup { <<200, CR, LF, 7>> \o EndOfHead, <<200, 7, 7, 7, 7, 7, 7, 7, 7>> },
    method |-> { <<5, 0>>, <<5, 2>>, <<5, 255>>, <<4, 0>> },
    auth |-> { <<1, 0>>, <<1, 1>> },
    reply |-> { <<5, 0, 0, 1>> \o [i \in 1..6 |-> 0], <<5, 0, 0, 3, 2, 0, 0, 0, 0>>,
                <<5, 0, 0, 3, 0, 0, 0>>, <<5, 0, 0, 4>> \o [i \in 1..18 |-> 0],
                <<5, 2, 0, 1>>, <<5, 0, 0, 9>> } ]

(* A packed byte stands for two of itself; 67 ends what is packed.          *)
MCUnpack(coding, bytes) ==
  LET runs == SelectSeq(bytes, LAMBDA b : b # 67)
  IN [data |-> FlattenSeq([i \in DOMAIN runs |-> <<runs[i], runs[i]>>]),
      fails |-> coding = Gzip /\ ~Contains(bytes, 67)]

Bytes(n) == [i \in 1..n |-> 60 + i]
Headed(head, payload) == [head |-> head, chunks |-> None, payload |-> payload, last |-> 0]
Plain(payload) == Headed(<<Length(Len(payload))>>, payload)
InChunks(head, chunks, last) == [head |-> head, chunks |-> chunks, payload |-> <<>>, last |-> last]
MCResponses ==
  { Plain(<<>>), Plain(<<61, 62>>), Plain(<<61, 62, 63, 64>>), Headed(<<>>, <<61, 62>>),
    Headed(<<>>, Bytes(26)), Headed(Bytes(18), <<61>>),
    InChunks(<<>>, <<>>, 0), InChunks(<<>>, <<<<61>>, <<62>>>>, 0),
    InChunks(<<>>, <<<<61, 62>>, <<63, 64>>>>, 0), InChunks(<<>>, <<Bytes(16)>>, 0),
    InChunks(<<>>, <<<<61>>>>, SizeMax), InChunks(<<>>, <<<<61>>>>, SizeMax + 1), InChunks(<<>>, <<<<61>>>>, 1),
    Headed(<<Gzip>>, <<61, 67>>), Headed(<<Gzip>>, <<61, 62, 67>>), Headed(<<Deflate>>, <<61, 67>>),
    InChunks(<<Gzip>>, <<<<61, 67>>>>, 0), InChunks(<<Deflate>>, <<Bytes(4)>>, 0), Headed(<<Foreign>>, <<61>>) }

=============================================================================
