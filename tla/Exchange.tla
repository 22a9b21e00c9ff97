------------------------------ MODULE Exchange ------------------------------
(***************************************************************************)
(* One thread of the server (serve.rs), or a caller of the library: it     *)
(* reads a request, executes it by dialling the origin (Dial), and reads   *)
(* the origin's response (fetch.rs). The client, the upstream and the      *)
(* origin deliver their bytes in chunks of any size and may stop anywhere. *)
(* The bound on requests in flight and panics are in Scrape.               *)
(***************************************************************************)
EXTENDS Dial, FiniteSetsExt

CONSTANTS
  Requests,       (* what clients send the server                          *)
  ServerEnv,      (* the server's environment                              *)
  Secret,         (* the secret it asks for                                *)
  Upstreams,      (* the proxy each kind of body names                     *)
  Answers,        (* what upstreams answer, by the stage of the dial       *)
  Responses,      (* what origins answer                                   *)
  Unpack(_, _),   (* what the decoder of a coding makes of some bytes: the *)
                  (* data it hands out, and whether it then fails          *)
  MaxRequestBody, RequestHeadCap, MaxBody, ResponseHeadCap,  (* limits     *)
  SizeMax         (* the greatest usize                                    *)

ASSUME ExchangeAssumption ==
  {MaxRequestBody, RequestHeadCap, MaxBody, ResponseHeadCap, SizeMax} \subseteq Nat

VARIABLES
  client,         (* the request, for a thread of the server               *)
  parsed,         (* what it read of it                                    *)
  cut,            (* its peer closed before it delivered everything        *)
  origin          (* the response the origin has for this scrape           *)

exchangeVars == <<dialling, client, parsed, cut, origin>>

(* Bytes: a method, a path or a header is one, a length is another.        *)
Get == 1
Post == 2
Health == 3
ScrapeRoute == 4
Length(n) == 100 + n
Chunked == 90
Gzip == 91
Deflate == 92
Foreign == 93     (* a coding that the code has no decoder for             *)
Open == 123
Close == 125

EncodeRequest(q) ==
  <<q.method, q.path, CR, LF>> \o (IF q.secret = None THEN <<>> ELSE <<q.secret, CR, LF>>)
    \o <<Length(q.length)>> \o EndOfHead \o q.body

EncodeChunk(data) == <<Length(Len(data)), CR, LF>> \o data \o <<CR, LF>>

(* The line that ends a chunked body says a length of zero, if it is true. *)
EncodeLast(size) == <<Length(size), CR, LF, CR, LF>>

EncodeResponse(r) ==
  <<200>> \o r.head \o (IF r.chunks = None THEN EndOfHead \o r.payload
              ELSE <<CR, LF, Chunked>> \o EndOfHead
                     \o FlattenSeq([i \in DOMAIN r.chunks |-> EncodeChunk(r.chunks[i])])
                     \o EncodeLast(r.last))

(* Clients send a head of known words, none of which is another's secret.  *)
Word == {w \in 1..(Length(0) - 1) : w \notin {CR, LF}}
ASSUME ClientAssumption ==
  /\ Secret \in Word /\ None \notin Word
  /\ None \notin {"health", "unauthorized", "not_found", "invalid_product_option", "missing_url"}
  /\ \A q \in Requests :
       /\ {q.method, q.path} \subseteq Word \ {Secret} /\ q.secret \in Word \cup {None}
       /\ q.length \in 0..(Open - Length(0) - 1) /\ q.body \in Seq(Nat)

(* Upstreams finish what they start to answer: two bytes in a method or an *)
(* authentication, as many in a reply as its type of address needs, and in *)
(* a head all up to its first blank line, unless it is too long.           *)
WholeReply(a) ==
  /\ a \in Seq(Nat) /\ Len(a) >= 4
  /\ a[1] = 5 /\ a[2] = 0 /\ a[4] = 1 => Len(a) = 4 + 4 + 2
  /\ a[1] = 5 /\ a[2] = 0 /\ a[4] = 3 => Len(a) >= 5 /\ Len(a) = 5 + a[5] + 2
  /\ a[1] = 5 /\ a[2] = 0 /\ a[4] = 4 => Len(a) = 4 + 16 + 2

WholeHead(a) ==
  /\ a \in Seq(Nat) /\ (EndsHead(a) \/ Len(a) > HeadCap)
  /\ \A n \in 0..Len(a) : EndsHead(SubSeq(a, 1, n)) => n = Len(a)

ASSUME PeerAssumption ==
  /\ \A a \in Answers.method \cup Answers.auth : a \in Seq(Nat) /\ Len(a) = 2
  /\ \A a \in Answers.reply : WholeReply(a)
  /\ \A a \in Answers.http : WholeHead(a)

(* Origins send a head of words, declared lengths and codings, that speaks *)
(* of chunks only if there are any; the chunk with nothing in it is last.  *)
HeadWord == Nat \ {CR, LF, Chunked}
ASSUME OriginAssumption ==
  \A r \in Responses :
    /\ r.head \in Seq(HeadWord)
    /\ IF r.chunks = None THEN r.payload \in Seq(Nat)
       ELSE r.chunks \in Seq(Seq(Nat) \ {<<>>}) /\ r.last \in Nat

Payload(r) == IF r.chunks = None THEN r.payload ELSE FlattenSeq(r.chunks)

(* The coding that a head names; one at most.                              *)
Coding(head) ==
  IF Contains(head, Foreign) THEN Foreign
  ELSE IF Contains(head, Gzip) THEN Gzip
  ELSE IF Contains(head, Deflate) THEN Deflate ELSE None

Content(r) ==
  IF Coding(r.head) \in {Gzip, Deflate} THEN Unpack(Coding(r.head), Payload(r)).data ELSE Payload(r)

(* Of the beginning of a packed payload a decoder makes the beginning of   *)
(* the content; gzip ends with a trailer, without which its decoder fails. *)
ASSUME CodecAssumption ==
  \A r \in Responses : \A n \in 0..Len(Payload(r)) :
    Coding(r.head) \in {Gzip, Deflate} =>
      LET out == Unpack(Coding(r.head), SubSeq(Payload(r), 1, n))
      IN /\ out.data \in Seq(Nat) /\ IsPrefix(out.data, Content(r))
         /\ Coding(r.head) = Gzip /\ ~out.fails => out.data = Content(r)

ExchangeInit ==
  /\ buf = <<>> /\ want = 0 /\ upstream = None /\ told = <<>> /\ outcome = None
  /\ parsed = None /\ cut = FALSE /\ origin \in Responses
  /\ \/ client \in Requests /\ phase = "request" /\ wire = EncodeRequest(client) /\ plan = None
     \/ client = None /\ phase = "plan" /\ wire = <<>> /\ plan \in Plans

-----------------------------------------------------------------------------
(* Reading the request: to the end of the head, then its declared length.  *)

Ends(bytes, mark) ==
  {i \in 1..(Len(bytes) - Len(mark) + 1) : SubSeq(bytes, i, i + Len(mark) - 1) = mark}
HasHead(bytes) == Ends(bytes, EndOfHead) # {}
BeforeHead(bytes) == SubSeq(bytes, 1, Min(Ends(bytes, EndOfHead)) - 1)

(* Faulty variant: what follows the head's last line, blank line included. *)
AfterLine(bytes) == SubSeq(bytes, Min(Ends(bytes, EndOfHead)) + 2, Len(bytes))

AfterHead(bytes) == SubSeq(bytes, Min(Ends(bytes, EndOfHead)) + 4, Len(bytes))

Reading == {"request", "body"}

(* The last length that a header declares is taken.                        *)
Declared(head) ==
  LET lengths == {i \in DOMAIN head : head[i] >= Length(0) /\ head[i] < Open}
  IN IF lengths = {} THEN 0 ELSE head[Max(lengths)] - Length(0)

ReadHead ==
  /\ phase = "request" /\ ~HasHead(buf) /\ Len(buf) <= RequestHeadCap
  /\ \E n \in 1..Len(wire) : Take(n)
  /\ UNCHANGED <<phase, want, plan, upstream, told, outcome, client, parsed, cut, origin>>

HeadTooLarge ==
  /\ phase = "request" /\ ~HasHead(buf) /\ Len(buf) > RequestHeadCap /\ EndWith("io_error")
  /\ UNCHANGED <<wire, buf, want, plan, upstream, told, client, parsed, cut, origin>>

HeadRead ==
  /\ phase = "request" /\ HasHead(buf)
  /\ LET head == BeforeHead(buf)
         length == Declared(head)
     IN IF length > MaxRequestBody
        THEN EndWith("invalid_product_option") /\ UNCHANGED <<buf, want, parsed>>
        ELSE /\ phase' = "body" /\ buf' = AfterHead(buf) /\ want' = length /\ UNCHANGED outcome
             /\ parsed' = [method |-> head[1], path |-> head[2],
                           secret |-> IF Contains(head, Secret) THEN Secret ELSE None, body |-> <<>>]
  /\ UNCHANGED <<wire, plan, upstream, told, client, cut, origin>>

(* A read may bring more than the body; more than the limit is refused.    *)
ReadBody ==
  /\ phase = "body" /\ Len(buf) < want
  /\ \E n \in 1..Len(wire) : Take(n)
  /\ IF Len(buf') > MaxRequestBody THEN EndWith("invalid_product_option") /\ parsed' = None
     ELSE UNCHANGED <<phase, outcome, parsed>>
  /\ UNCHANGED <<want, plan, upstream, told, client, cut, origin>>

Handle(body) ==
  /\ phase' = "handle" /\ parsed' = [parsed EXCEPT !.body = body] /\ buf' = <<>> /\ want' = 0

BodyRead ==
  /\ phase = "body" /\ Len(buf) >= want /\ Handle(SubSeq(buf, 1, want))
  /\ UNCHANGED <<wire, plan, upstream, told, outcome, client, cut, origin>>

(* A body that ends early is handled as far as it came; a head is not.     *)
RequestCut ==
  /\ phase \in Reading /\ (phase = "body" => Len(buf) < want) /\ (phase = "request" => ~HasHead(buf))
  /\ cut' = (wire # <<>>)
  /\ IF phase = "body" THEN Handle(buf) /\ UNCHANGED outcome
     ELSE EndWith("io_error") /\ UNCHANGED <<parsed, buf, want>>
  /\ UNCHANGED <<wire, plan, upstream, told, client, origin>>

(* A read that times out closes the connection without an answer.          *)
RequestTimesOut ==
  /\ phase \in Reading /\ EndWith("io_error")
  /\ UNCHANGED <<wire, buf, want, plan, upstream, told, client, parsed, cut, origin>>

-----------------------------------------------------------------------------
(* handle_http_request and execute_mode.                                   *)

(* The body of an execution: {what}; an empty one is the default request,  *)
(* which like the body of "no url" names none.                             *)
IsJson(body) == body = <<>> \/ (Len(body) = 3 /\ body[1] = Open /\ body[3] = Close)
Url(body) == IF body # <<>> /\ body[2] \in DOMAIN Upstreams THEN body[2] ELSE None

Verdict(q) ==
  IF q.method = Get /\ q.path = Health THEN "health"
  ELSE IF q.secret # Secret THEN "unauthorized"
  ELSE IF q.method # Post \/ q.path # ScrapeRoute THEN "not_found"
  ELSE IF ~IsJson(q.body) THEN "invalid_product_option"
  ELSE IF Url(q.body) = None THEN "missing_url" ELSE None

ServerPlan(url) ==
  [explicit |-> Upstreams[url], required |-> None, scheme |-> "http",
   username |-> [country |-> None, session |-> None, template |-> None], env |-> ServerEnv]

HandleRequest ==
  /\ phase = "handle" /\ wire' = <<>>
  /\ IF Verdict(parsed) # None THEN EndWith(Verdict(parsed)) /\ UNCHANGED plan
     ELSE /\ phase' = "plan" /\ UNCHANGED outcome
          /\ plan' = ServerPlan(Url(parsed.body))
  /\ UNCHANGED <<buf, want, upstream, told, client, parsed, cut, origin>>

TooManyRequests ==
  /\ phase = "handle" /\ Verdict(parsed) \notin {"health", "unauthorized", "not_found"}
  /\ EndWith("too_many_requests")
  /\ UNCHANGED <<wire, buf, want, plan, upstream, told, client, parsed, cut, origin>>

(* The status a client gets; 0 is a connection closed without an answer.   *)
Status(o) ==
  CASE o.kind \in {"ok", "health"} -> 200 [] o.kind = "unauthorized" -> 401
    [] o.kind = "not_found" -> 404 [] o.kind = "too_many_requests" -> 429
    [] o.kind \in {"missing_url", "invalid_product_option"} -> IF parsed = None THEN 0 ELSE 400
    [] o.kind = "io_error" -> 0 [] o.kind = "timeout" -> 504 [] o.kind = "panic" -> 500 [] OTHER -> 502

AllPlans == Plans \cup {ServerPlan(url) : url \in DOMAIN Upstreams}
ASSUME PlanAssumption == \A p \in AllPlans : ResolveProxy(p) # None => Resolved(p) # None

-----------------------------------------------------------------------------
(* The origin's response: capped, parsed, unchunked, unpacked, capped.     *)

SendRequest ==
  /\ phase = "tunnel" /\ phase' = "response" /\ buf' = <<>>
  /\ UNCHANGED <<wire, want, plan, upstream, told, outcome, client, parsed, cut, origin>>

RawLimit == MaxBody + ResponseHeadCap

ReadCapped ==
  /\ phase = "response" /\ Len(buf) < RawLimit
  /\ \E n \in 1..(RawLimit - Len(buf)) : Take(n)
  /\ UNCHANGED <<phase, want, plan, upstream, told, outcome, client, parsed, cut, origin>>

(* The next line is a length and nothing else.                             *)
LengthAhead(left) == Len(left) >= 3 /\ left[1] >= Length(0) /\ SubSeq(left, 2, 3) = <<CR, LF>>

(* One turn of the decoder: a chunk is taken whole, or up to the limit if  *)
(* it exceeds it. The sum of its length and its line end may overflow.     *)
Turn(s) ==
  LET size == s.left[1] - Length(0)
      rest == SubSeq(s.left, 4, Len(s.left))
      room == MaxBody - Len(s.body)
  IN IF s.end # "none" THEN s
     ELSE IF ~LengthAhead(s.left) \/ size > SizeMax THEN [s EXCEPT !.end = "malformed"]
     ELSE IF size = 0 THEN [s EXCEPT !.end = "whole"]
     ELSE IF size + 2 > SizeMax THEN [s EXCEPT !.end = "panic"]
     ELSE IF Len(rest) < size + 2 \/ SubSeq(rest, size + 1, size + 2) # <<CR, LF>>
          THEN [s EXCEPT !.end = "malformed"]
     ELSE IF size > room THEN [left |-> rest, body |-> s.body \o SubSeq(rest, 1, room), end |-> "cut"]
     ELSE [left |-> SubSeq(rest, size + 3, Len(rest)), body |-> s.body \o SubSeq(rest, 1, size), end |-> "none"]

(* A turn that is not the last takes a line at least.                      *)
Turns(encoded) ==
  LET turn[n \in Nat] ==
        IF n = 0 THEN [left |-> encoded, body |-> <<>>, end |-> "none"] ELSE Turn(turn[n - 1])
  IN turn
DecodeChunked(encoded) == Turns(encoded)[Len(encoded) + 1]

(* Faulty variant: a body at the limit is never said to be cut.            *)
CapSilently(body) == [body |-> SubSeq(body, 1, Min({MaxBody, Len(body)})), truncated |-> FALSE]

CapBytes(body) ==
  [body |-> SubSeq(body, 1, Min({MaxBody, Len(body)})), truncated |-> Len(body) > MaxBody]

(* Faulty variant: a decoder that fails leaves what it made until then.    *)
UnpackLeniently(coding, body) ==
  IF coding = None THEN [body |-> body, end |-> "whole"]
  ELSE [body |-> Unpack(coding, body).data, end |-> "whole"]

(* The data of a decoder, up to the limit; a byte more is looked for.      *)
Unpacked(coding, body) ==
  IF coding = None THEN [body |-> body, end |-> "whole"]
  ELSE IF coding = Foreign THEN [body |-> body, end |-> "unsupported"]
  ELSE LET out == Unpack(coding, body)
       IN IF Len(out.data) > MaxBody THEN [body |-> SubSeq(out.data, 1, MaxBody), end |-> "cut"]
          ELSE [body |-> out.data, end |-> IF out.fails THEN "malformed" ELSE "whole"]

(* A length that the head declares plays no part.                          *)
Parsed(raw, rawTruncated) ==
  IF ~HasHead(raw) \/ Len(BeforeHead(raw)) + 4 > ResponseHeadCap THEN [kind |-> "fetch_error"]
  ELSE LET head == BeforeHead(raw)
           joined == IF Contains(head, Chunked) THEN DecodeChunked(AfterHead(raw))
                     ELSE [body |-> AfterHead(raw), end |-> "whole"]
           plain == Unpacked(Coding(head), joined.body)
           capped == CapBytes(plain.body)
       IN IF joined.end = "panic" THEN [kind |-> "panic"]
          ELSE IF ~({joined.end, plain.end} \subseteq {"whole", "cut"}) THEN [kind |-> "fetch_error"]
          ELSE [kind |-> "ok", body |-> capped.body, class |-> TruthfulClass,
                truncated |-> rawTruncated \/ "cut" \in {joined.end, plain.end} \/ capped.truncated]

(* The origin closes when it has answered, or before; at the limit one     *)
(* more byte is looked for.                                                *)
ResponseEnds ==
  /\ phase = "response"
  /\ \/ cut' = (wire # <<>>) /\ outcome' = Parsed(buf, FALSE)
     \/ Len(buf) = RawLimit /\ wire # <<>> /\ outcome' = Parsed(buf, TRUE) /\ UNCHANGED cut
  /\ phase' = "done"
  /\ UNCHANGED <<wire, buf, want, plan, upstream, told, client, parsed, origin>>

ResponseFails ==
  /\ phase \in {"tunnel", "response"}
  /\ \E kind \in {"transport_error", "timeout"} : EndWith(kind)
  /\ UNCHANGED <<wire, buf, want, plan, upstream, told, client, parsed, cut, origin>>

-----------------------------------------------------------------------------
Replies == {a \o EncodeResponse(origin) : a \in Answers.reply}

Dials ==
  /\ \/ ResolvePlan \/ ReadExact \/ DialFails \/ ConnectDirect(EncodeResponse(origin))
     \/ HttpConnect({a \o EncodeResponse(origin) : a \in Answers.http}) \/ ReadHttpHead \/ HttpConnected
     \/ Greet(Answers.method) \/ OnMethod(Replies, Answers.auth) \/ OnAuth(Replies) \/ Socks5
  /\ UNCHANGED <<client, parsed, cut, origin>>

Done == phase = "done" /\ UNCHANGED exchangeVars

ExchangeNext ==
  \/ ReadHead \/ HeadTooLarge \/ HeadRead \/ ReadBody \/ BodyRead \/ RequestCut \/ RequestTimesOut
  \/ HandleRequest \/ TooManyRequests \/ Dials
  \/ SendRequest \/ ReadCapped \/ ResponseEnds \/ ResponseFails \/ Done

ExchangeSpec == ExchangeInit /\ [][ExchangeNext]_exchangeVars

-----------------------------------------------------------------------------
ExchangeTypeOK ==
  /\ want \in Nat /\ cut \in BOOLEAN /\ origin \in Responses
  /\ client \in Requests \cup {None} /\ (outcome = None) = (phase # "done")

(* Whatever the chunks it came in, a request is handled with the body that *)
(* its client declared, as far as it came, and nothing is executed for a   *)
(* client without the secret (read_http_request, handle_http_request).     *)
RunsWhatWasAsked ==
  client # None /\ parsed # None /\ phase \notin Reading =>
    /\ parsed.method = client.method /\ parsed.path = client.path
    /\ IsPrefix(parsed.body, client.body) /\ Len(parsed.body) <= client.length
    /\ phase = "handle" /\ ~cut => Len(parsed.body) = Min({client.length, Len(client.body)})
    /\ plan # None => client.secret = Secret

(* When a dial succeeds, the upstream's reply was read to its last byte    *)
(* and no further: the stream starts where the origin's does               *)
(* (read_http_head, socks5_connect).                                       *)
StreamIsTheOrigins == phase = "tunnel" => wire = EncodeResponse(origin)

(* A body is what the origin sent, unpacked, or so much of it as fits and  *)
(* then said to be truncated; a connection that ends early goes unnoticed  *)
(* only in a body that is neither in chunks nor in gzip, whether its head  *)
(* declares its length or not (read_capped, decode_http_body).             *)
BodyIsFaithful ==
  outcome # None /\ outcome.kind = "ok" =>
    /\ IsPrefix(outcome.body, Content(origin)) /\ Len(outcome.body) <= MaxBody
    /\ \/ outcome.body = Content(origin) \/ outcome.truncated
       \/ cut /\ origin.chunks = None /\ Coding(origin.head) # Gzip

(* A scrape reports the class of egress it was made over: none is made     *)
(* directly when an upstream is configured or its class required, and an   *)
(* upstream hears the name that this scrape asks for                       *)
(* (resolve_proxy_plan, truthful_proxy_class).                             *)
ClassIsDialled ==
  outcome # None /\ outcome.kind = "ok" =>
    /\ (outcome.class = "direct") = (told = <<>>)
    /\ RequiresUpstream(plan.required) => outcome.class = plan.required
    /\ plan.explicit # None => upstream # None /\ upstream.kind = plan.explicit.kind
    /\ \A i \in DOMAIN told :
         told[i].name # None =>
           told[i].name = RenderUsername(ResolveProxy(plan).name, plan.username)

(* A dial leads where it was asked to, over the class of egress it         *)
(* reports, and hands on the origin's stream from its first byte           *)
(* (proxy.rs:400-920).                                                     *)
DialIsFaithful == StreamIsTheOrigins /\ ClassIsDialled
=============================================================================
