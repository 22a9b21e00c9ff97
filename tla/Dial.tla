-------------------------------- MODULE Dial --------------------------------
(***************************************************************************)
(* How a scrape gets a stream to its origin (proxy.rs and open_origin_     *)
(* stream of fetch.rs): which upstream it must or may use, and the         *)
(* conversation with an HTTP or SOCKS5 upstream over a stream that breaks  *)
(* anywhere. Whatever a peer has yet to deliver is "wire"; a read takes    *)
(* some of it, finds it closed, or runs out of time. Bytes are numbers.    *)
(***************************************************************************)
EXTENDS Naturals, Sequences, SequencesExt

CONSTANTS
  None,
  Plans,          (* what callers ask of the egress, in what environment   *)
  HeadCap         (* bound: 16 KiB of CONNECT response, shortened          *)

ASSUME DialAssumption == HeadCap \in Nat /\ None \notin {"invalid_proxy", "proxy_class_unavailable"}

VARIABLES
  phase,          (* what the thread is at                                 *)
  wire,           (* bytes its peer has yet to deliver                     *)
  buf,            (* bytes read of what it is reading                      *)
  want,           (* bytes that read_exact has yet to read                 *)
  plan,           (* the plan this scrape resolves                         *)
  upstream,       (* the upstream it resolved to, if any                   *)
  told,           (* what it told the upstream, in order                   *)
  outcome         (* how the scrape ended                                  *)

dialling == <<phase, wire, buf, want, plan, upstream, told, outcome>>

CR == 13
LF == 10
EndOfHead == <<CR, LF, CR, LF>>
EndsHead(bytes) == IsSuffix(EndOfHead, bytes)

-----------------------------------------------------------------------------
(* The plan: an explicit upstream wins over the environment's, and its     *)
(* user name carries the country and the session asked for.                *)

Candidates(scheme) ==
  CASE scheme = "https" -> <<"HTTPS_PROXY", "HTTP_PROXY", "ALL_PROXY">>
    [] scheme = "http" -> <<"HTTP_PROXY", "ALL_PROXY">>

ResolveProxy(p) ==
  LET set == SelectSeq(Candidates(p.scheme), LAMBDA key : p.env[key] # None)
  IN IF p.explicit # None THEN p.explicit
     ELSE IF set # <<>> THEN p.env[Head(set)] ELSE None

(* A name is its base and the tokens it is decorated with. Tokens that are *)
(* asked for replace all that the configured name had; None is a refusal.  *)
Name(base, country, session) == [base |-> base, country |-> country, session |-> session]

RenderUsername(name, o) ==
  CASE o.template = "literal" -> Name("literal", None, None)
    [] o.template = "unknown placeholder" -> None
    [] OTHER ->
         IF o.template = None /\ o.country = None /\ o.session = None THEN name
         ELSE IF o.template = None /\ name.base = None THEN None
         ELSE Name(name.base, o.country, o.session)

RequiresUpstream(class) == class \notin {None, "direct"}

ClassOf(p) == IF RequiresUpstream(p.required) THEN p.required ELSE "datacenter"

(* Faulty variant: a class without an upstream is not refused.             *)
RefusalOfUpstreams(p) ==
  LET url == ResolveProxy(p)
  IN IF url = None THEN None
     ELSE IF url.kind = "other" \/ RenderUsername(url.name, p.username) = None \/ p.required = "direct"
     THEN "invalid_proxy" ELSE None

Refusal(p) ==
  LET url == ResolveProxy(p)
  IN IF url = None
     THEN IF RequiresUpstream(p.required) THEN "proxy_class_unavailable" ELSE None
     ELSE IF url.kind = "other" \/ RenderUsername(url.name, p.username) = None \/ p.required = "direct"
     THEN "invalid_proxy" ELSE None

(* The upstream that a plan resolves to, under the name it is to hear.     *)
Resolved(p) ==
  LET url == ResolveProxy(p)
  IN IF url = None THEN None
     ELSE [kind |-> url.kind, name |-> RenderUsername(url.name, p.username), class |-> ClassOf(p)]

EndWith(kind) == phase' = "done" /\ outcome' = [kind |-> kind]

ResolvePlan ==
  /\ phase = "plan"
  /\ IF Refusal(plan) # None THEN EndWith(Refusal(plan)) /\ UNCHANGED upstream
     ELSE phase' = "connect" /\ upstream' = Resolved(plan) /\ UNCHANGED outcome
  /\ UNCHANGED <<wire, buf, want, plan, told>>

TruthfulClass == IF upstream = None THEN "direct" ELSE upstream.class

-----------------------------------------------------------------------------
(* Reading. A reader of exact lengths takes what there is of what it       *)
(* wants.                                                                  *)

Take(n) == n <= Len(wire) /\ buf' = buf \o SubSeq(wire, 1, n) /\ wire' = SubSeq(wire, n + 1, Len(wire))

Dialling == {"connect", "head", "method", "auth", "reply", "address", "length"}

ReadExact ==
  /\ phase \in Dialling /\ want > 0
  /\ \E n \in 1..want : Take(n) /\ want' = want - n
  /\ UNCHANGED <<phase, plan, upstream, told, outcome>>

(* The upstream closes, or the deadline passes, whatever it was asked.     *)
DialFails ==
  /\ phase \in Dialling
  /\ \E kind \in {"transport_error", "timeout"} : EndWith(kind)
  /\ UNCHANGED <<wire, buf, want, plan, upstream, told>>

(* The upstream's answer follows what it was told; then it relays.         *)
Ask(next, n, saying, answers) ==
  /\ phase' = next /\ buf' = <<>> /\ want' = n /\ told' = told \o saying
  /\ wire' \in {wire \o a : a \in answers}

Say(what, name) == [what |-> what, name |-> name]
Read(at) == phase = at /\ want = 0

-----------------------------------------------------------------------------
(* The first connection; without an upstream it is the origin's.           *)

HasCredentials == upstream.name.base # None

ConnectDirect(origin) ==
  /\ phase = "connect" /\ upstream = None /\ phase' = "tunnel" /\ wire' = origin
  /\ UNCHANGED <<buf, want, plan, upstream, told, outcome>>

(* CONNECT sends its credentials unasked.                                  *)
HttpConnect(answers) ==
  /\ phase = "connect" /\ upstream # None /\ upstream.kind \in {"http", "https"}
  /\ Ask("head", 0, <<Say("connect", IF HasCredentials THEN upstream.name ELSE None)>>, answers)
  /\ UNCHANGED <<plan, upstream, outcome>>

ClassifyConnectStatus(status) ==
  IF status \in {401, 407} THEN "proxy_auth_error" ELSE "transport_error"

(* One byte at a time, so that nothing of the origin's is taken with it.   *)
ReadHttpHead ==
  /\ phase = "head" /\ ~EndsHead(buf) /\ Len(buf) <= HeadCap /\ Take(1)
  /\ UNCHANGED <<phase, want, plan, upstream, told, outcome>>

HttpConnected ==
  /\ phase = "head"
  /\ IF EndsHead(buf)
     THEN IF buf[1] = 200 THEN phase' = "tunnel" /\ UNCHANGED outcome
          ELSE EndWith(ClassifyConnectStatus(buf[1]))
     ELSE Len(buf) > HeadCap /\ EndWith("transport_error")
  /\ UNCHANGED <<wire, buf, want, plan, upstream, told>>

-----------------------------------------------------------------------------
(* SOCKS5.                                                                 *)

Greet(answers) ==
  /\ phase = "connect" /\ upstream # None /\ upstream.kind = "socks5"
  /\ Ask("method", 2, <<Say(IF HasCredentials THEN "offer both" ELSE "offer none", None)>>, answers)
  /\ UNCHANGED <<plan, upstream, outcome>>

(* Credentials go to an upstream that asks for them, offered or not.       *)
OnMethod(replies, statuses) ==
  /\ Read("method")
  /\ CASE buf = <<5, 0>> -> Ask("reply", 4, <<Say("connect", None)>>, replies) /\ UNCHANGED outcome
       [] buf = <<5, 2>> -> Ask("auth", 2, <<Say("credentials", upstream.name)>>, statuses) /\ UNCHANGED outcome
       [] OTHER -> EndWith("transport_error") /\ UNCHANGED <<wire, buf, want, told>>
  /\ UNCHANGED <<plan, upstream>>

OnAuth(replies) ==
  /\ Read("auth")
  /\ IF buf = <<1, 0>> THEN Ask("reply", 4, <<Say("connect", None)>>, replies) /\ UNCHANGED outcome
     ELSE EndWith("proxy_auth_error") /\ UNCHANGED <<wire, buf, want, told>>
  /\ UNCHANGED <<plan, upstream>>

(* Faulty variant: the bound address of a named one ends with the name.    *)
DrainName(length) == length

(* Bytes of the bound address still to come, by its type.                  *)
Drain(length) == length + 2

Expect(next, n) == phase' = next /\ buf' = <<>> /\ want' = n /\ UNCHANGED outcome

OnReply ==
  /\ Read("reply")
  /\ IF buf[1] # 5 \/ buf[2] # 0 \/ buf[4] \notin {1, 3, 4}
     THEN EndWith("transport_error") /\ UNCHANGED <<buf, want>>
     ELSE CASE buf[4] = 1 -> Expect("address", 4 + 2)
            [] buf[4] = 3 -> Expect("length", 1)
            [] buf[4] = 4 -> Expect("address", 16 + 2)
  /\ UNCHANGED <<wire, plan, upstream, told>>

OnLength ==
  /\ Read("length") /\ Expect("address", Drain(buf[1])) /\ UNCHANGED <<wire, plan, upstream, told>>

Drained ==
  /\ Read("address") /\ Expect("tunnel", 0) /\ UNCHANGED <<wire, plan, upstream, told>>

Socks5 ==
  OnReply \/ OnLength \/ Drained

=============================================================================
