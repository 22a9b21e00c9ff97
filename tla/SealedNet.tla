------------------------------ MODULE SealedNet ------------------------------
(***************************************************************************)
(* The sealed resolver (basecrawl-seal/src/dns.rs) and the loopback SOCKS5 *)
(* proxy Chromium is pointed at (browser_dns.rs): the accept loop and the  *)
(* stop flag, one thread per connection from greeting to reply, the two    *)
(* lookups at the pin, the dial, and the two threads that relay a tunnel.  *)
(* Chromium, the pin, the dialler and the origin are the environment.      *)
(***************************************************************************)
EXTENDS Naturals, SequencesExt, Positions

CONSTANTS
  Conn,       (* connections Chromium opens                                *)
  Target,     (* what it may ask for                                       *)
  Answer,     (* messages the pin may answer a lookup with                 *)
  MaxChunk    (* chunks either end of a tunnel may send                    *)

(* The address of a CONNECT: a literal, or a domain that reads as one, as  *)
(* localhost, as a name a resolver can be asked for, or as none.           *)
TargetType == [kind : {"literal", "localhost", "name", "malformed", "other"},
               ip : STRING]

(* A DNS response: its rcode, the records in order, and whether it is cut  *)
(* short; then every record before the cut is still well formed.           *)
AnswerType == [ok : BOOLEAN, records : Seq([type : {"A", "AAAA", "CNAME"}, ip : STRING]),
               cut : BOOLEAN]

(* The addresses some answer gives in records of a type.                   *)
Given(qtype) ==
  UNION {{m.records[i].ip : i \in {j \in DOMAIN m.records : m.records[j].type = qtype}} : m \in Answer}

(* No address is of both families, and "none" is not one.                  *)
ASSUME SealedNetAssumption ==
  /\ Target \subseteq TargetType /\ Answer \subseteq AnswerType /\ MaxChunk \in Nat
  /\ Given("A") \cap Given("AAAA") = {} /\ "none" \notin Given("A") \cup Given("AAAA")
  /\ \A t \in Target : t.kind = "literal" => t.ip # "none"

-----------------------------------------------------------------------------
(* The resolver.                                                           *)

Failed == [ok |-> FALSE, ips |-> <<>>]
Found(ips) == [ok |-> TRUE, ips |-> ips]

(* parse_answers: an error code is an empty answer, a cut message none.    *)
ParseAnswers(message, qtype) ==
  IF ~message.ok THEN Found(<<>>)
  ELSE IF message.cut THEN Failed
  ELSE LET ips == [i \in DOMAIN message.records |-> message.records[i].ip]
       IN Found(AtPositions(ips, {i \in DOMAIN ips : message.records[i].type = qtype}))

-----------------------------------------------------------------------------
VARIABLES
  stop,      (* the stop flag, set when the handle is dropped              *)
  acceptor,  (* "check": reads the flag; "accept"; "ended"                 *)
  pc,        (* pc[c]: where the thread of c is                            *)
  target,    (* target[c]: what c asked for                                *)
  late,      (* late[c]: the 15 s from the request on are over             *)
  found,     (* found[c]: addresses the pin has given for c                *)
  dialled,   (* dialled[c]: the address dialled, or "none"                 *)
  socks,     (* socks[c]: the SOCKS replies written, in order              *)
  open,      (* open[c]: the ends of c's tunnel not yet shut down          *)
  relay      (* relay[c][d]: the thread that relays direction d            *)

netVars == <<stop, acceptor, pc, target, late, found, dialled, socks, open, relay>>
lookup == <<target, late, found, dialled>>
listener == <<stop, acceptor>>

BothEnds == {"client", "upstream"}
Way == {"c2u", "u2c"}
Source(d) == IF d = "c2u" THEN "client" ELSE "upstream"
Sink(d) == IF d = "c2u" THEN "upstream" ELSE "client"

Fresh == [pc |-> "read", sent |-> 0, taken |-> 0, given |-> 0, eof |-> FALSE, why |-> "none"]

NoTarget == [kind |-> "other", ip |-> "none"]

NetInit ==
  /\ stop = FALSE /\ acceptor = "check"
  /\ pc = [c \in Conn |-> "new"]
  /\ target = [c \in Conn |-> NoTarget]
  /\ late = [c \in Conn |-> FALSE]
  /\ found = [c \in Conn |-> <<>>]
  /\ dialled = [c \in Conn |-> "none"]
  /\ socks = [c \in Conn |-> <<>>]
  /\ open = [c \in Conn |-> {}]
  /\ relay = [c \in Conn |-> [d \in Way |-> Fresh]]

Go(c, step) == pc' = [pc EXCEPT ![c] = step]

(* The thread ends and the last descriptors of both sockets are closed.    *)
Close(c) == Go(c, "closed") /\ open' = [open EXCEPT ![c] = {}]

(* write_socks_reply; the client may be gone, and is told nothing more.    *)
Refuse(c, code) ==
  \/ Close(c) /\ socks' = [socks EXCEPT ![c] = Append(@, code)]
  \/ Close(c) /\ UNCHANGED socks

-----------------------------------------------------------------------------
(* The accept loop.                                                        *)

Connect(c) ==
  /\ pc[c] = "new" /\ acceptor # "ended"
  /\ Go(c, "backlog")
  /\ UNCHANGED <<listener, lookup, socks, open, relay>>

(* Dropping the handle sets the flag and waits for nobody.                 *)
Drop ==
  /\ ~stop /\ stop' = TRUE
  /\ UNCHANGED <<acceptor, pc, lookup, socks, open, relay>>

(* With the loop its listener goes, and what nobody has accepted is reset. *)
CheckStop ==
  /\ acceptor = "check"
  /\ IF stop
     THEN /\ acceptor' = "ended"
          /\ pc' = [c \in Conn |-> IF pc[c] = "backlog" THEN "closed" ELSE pc[c]]
     ELSE acceptor' = "accept" /\ UNCHANGED pc
  /\ UNCHANGED <<stop, lookup, socks, open, relay>>

(* A connection whose thread cannot be spawned is dropped with its closure.*)
Accept ==
  /\ acceptor = "accept" /\ acceptor' = "check"
  /\ \/ \E c \in Conn :
          /\ pc[c] = "backlog"
          /\ \/ Go(c, "greeting") /\ open' = [open EXCEPT ![c] = {"client"}]
             \/ Go(c, "closed") /\ UNCHANGED open
     \/ (\A c \in Conn : pc[c] # "backlog") /\ UNCHANGED <<pc, open>>
  /\ UNCHANGED <<stop, lookup, socks, relay>>

-----------------------------------------------------------------------------
(* handle_client, up to the reply.                                         *)

(* A client that sends something else, nothing within 30 s, or goes away.  *)
Hangup(c) ==
  /\ pc[c] \in {"greeting", "request", "address"}
  /\ Close(c)
  /\ UNCHANGED <<listener, lookup, socks, relay>>

Greet(c) ==
  /\ pc[c] = "greeting" /\ Go(c, "request")
  /\ UNCHANGED <<listener, lookup, socks, open, relay>>

(* Only CONNECT; the deadline of lookup and dial runs from here.           *)
Request(c) ==
  /\ pc[c] = "request"
  /\ \/ Go(c, "address") /\ UNCHANGED <<socks, open>>
     \/ Refuse(c, "command")
  /\ UNCHANGED <<listener, lookup, relay>>

Expire(c) ==
  /\ pc[c] \in {"address", "A", "AAAA", "dial"} /\ ~late[c]
  /\ late' = [late EXCEPT ![c] = TRUE]
  /\ UNCHANGED <<listener, pc, target, found, dialled, socks, open, relay>>

Dial(c, ip) == Go(c, "dial") /\ dialled' = [dialled EXCEPT ![c] = ip]

(* The address of the request and resolve_for_connect: a literal as it is, *)
(* localhost as itself, and any other name through the pin alone.          *)
Address(c) ==
  /\ pc[c] = "address"
  /\ \E t \in Target :
       /\ target' = [target EXCEPT ![c] = t]
       /\ \/ t.kind = "literal" /\ Dial(c, t.ip) /\ UNCHANGED <<socks, open>>
          \/ t.kind = "localhost" /\ Dial(c, "127.0.0.1") /\ UNCHANGED <<socks, open>>
          \/ t.kind = "name" /\ Go(c, "A") /\ UNCHANGED <<dialled, socks, open>>
          \/ t.kind = "malformed" /\ Refuse(c, "unresolved") /\ UNCHANGED dialled
          \/ t.kind = "other" /\ Refuse(c, "address") /\ UNCHANGED dialled
  /\ UNCHANGED <<listener, late, found, relay>>

(* What a lookup comes to: the pin may be out of reach, and is not asked   *)
(* past the deadline.                                                      *)
Looked(c, qtype, result) ==
  \/ result = Failed
  \/ ~late[c] /\ \E m \in Answer : result = ParseAnswers(m, qtype)

Results == {Failed} \cup {ParseAnswers(m, q) : m \in Answer, q \in {"A", "AAAA"}}

(* The A lookup must succeed, with or without an answer.                   *)
LookupA(c) ==
  /\ pc[c] = "A"
  /\ \E result \in Results :
       /\ Looked(c, "A", result)
       /\ IF result.ok
          THEN Go(c, "AAAA") /\ found' = [found EXCEPT ![c] = result.ips] /\ UNCHANGED <<socks, open>>
          ELSE Refuse(c, "unresolved") /\ UNCHANGED found
  /\ UNCHANGED <<listener, target, late, dialled, relay>>

(* Faulty variant: the last address, so that IPv6 is preferred.            *)
ConnectToLast(c, ips) ==
  IF ips = <<>> THEN Refuse(c, "unresolved") /\ UNCHANGED dialled
                ELSE Dial(c, Last(ips)) /\ UNCHANGED <<socks, open>>

(* The first address of what both lookups gave; the second may fail.       *)
ConnectTo(c, ips) ==
  IF ips = <<>> THEN Refuse(c, "unresolved") /\ UNCHANGED dialled
                ELSE Dial(c, Head(ips)) /\ UNCHANGED <<socks, open>>

LookupAAAA(c) ==
  /\ pc[c] = "AAAA"
  /\ \E result \in Results :
       /\ Looked(c, "AAAA", result)
       /\ \E ips \in {Merge(found[c], result.ips)} :
            found' = [found EXCEPT ![c] = ips] /\ ConnectTo(c, ips)
  /\ UNCHANGED <<listener, target, late, relay>>

(* Faulty variant: the refusal is written and the dial tried again.        *)
DialOriginAgain(c) ==
  /\ pc[c] = "dial"
  /\ \/ ~late[c] /\ Go(c, "connected") /\ open' = [open EXCEPT ![c] = BothEnds] /\ UNCHANGED socks
     \/ ~late[c] /\ socks' = [socks EXCEPT ![c] = <<"unreachable">>] /\ UNCHANGED <<pc, open>>
     \/ Refuse(c, "unreachable")
  /\ UNCHANGED <<listener, lookup, relay>>

(* dial_origin, direct or through the upstream proxy.                      *)
DialOrigin(c) ==
  /\ pc[c] = "dial"
  /\ \/ ~late[c] /\ Go(c, "connected") /\ open' = [open EXCEPT ![c] = BothEnds] /\ UNCHANGED socks
     \/ Refuse(c, "unreachable")
  /\ UNCHANGED <<listener, lookup, relay>>

Succeed(c) ==
  /\ pc[c] = "connected"
  /\ \/ Go(c, "relay") /\ socks' = [socks EXCEPT ![c] = Append(@, "success")] /\ UNCHANGED open
     \/ Close(c) /\ UNCHANGED socks
  /\ UNCHANGED <<listener, lookup, relay>>

-----------------------------------------------------------------------------
(* The tunnel: each thread copies its direction and, when it ends, shuts   *)
(* down both sockets, the one it writes to first.                          *)

Moved(c, d, r) ==
  relay' = [relay EXCEPT ![c][d] = r] /\ UNCHANGED <<listener, pc, lookup, socks>>

(* The peers send and finish when they like, while the socket lasts.       *)
Send(c, d) ==
  LET r == relay[c][d] IN
  /\ pc[c] = "relay" /\ Source(d) \in open[c] /\ ~r.eof
  /\ \/ r.sent < MaxChunk /\ Moved(c, d, [r EXCEPT !.sent = @ + 1])
     \/ Moved(c, d, [r EXCEPT !.eof = TRUE])
  /\ UNCHANGED open

Broken(r) == [r EXCEPT !.pc = "shut_sink", !.why = "broken"]

(* Faulty variant: a read that times out is tried again.                   *)
ReadPatiently(c, d) ==
  LET r == relay[c][d] IN
  /\ pc[c] = "relay" /\ r.pc = "read"
  /\ \/ r.taken < r.sent /\ Moved(c, d, [r EXCEPT !.pc = "write", !.taken = @ + 1])
     \/ /\ r.taken = r.sent /\ (r.eof \/ Source(d) \notin open[c])
        /\ Moved(c, d, [r EXCEPT !.pc = "shut_sink", !.why = "eof"])
  /\ UNCHANGED open

(* The end of the stream is met behind what was sent, also after a         *)
(* shutdown; 30 s without any and a reset are errors.                      *)
Read(c, d) ==
  LET r == relay[c][d] IN
  /\ pc[c] = "relay" /\ r.pc = "read"
  /\ \/ r.taken < r.sent /\ Moved(c, d, [r EXCEPT !.pc = "write", !.taken = @ + 1])
     \/ /\ r.taken = r.sent /\ (r.eof \/ Source(d) \notin open[c])
        /\ Moved(c, d, [r EXCEPT !.pc = "shut_sink", !.why = "eof"])
     \/ Moved(c, d, Broken(r))
  /\ UNCHANGED open

Write(c, d) ==
  LET r == relay[c][d] IN
  /\ pc[c] = "relay" /\ r.pc = "write"
  /\ \/ Sink(d) \in open[c] /\ Moved(c, d, [r EXCEPT !.pc = "read", !.given = @ + 1])
     \/ Moved(c, d, Broken(r))
  /\ UNCHANGED open

Shutdown(c, d) ==
  LET r == relay[c][d] IN
  /\ pc[c] = "relay"
  /\ \/ /\ r.pc = "shut_sink" /\ Moved(c, d, [r EXCEPT !.pc = "shut_source"])
        /\ open' = [open EXCEPT ![c] = @ \ {Sink(d)}]
     \/ /\ r.pc = "shut_source" /\ Moved(c, d, [r EXCEPT !.pc = "done"])
        /\ open' = [open EXCEPT ![c] = @ \ {Source(d)}]

Join(c) ==
  /\ pc[c] = "relay" /\ \A d \in Way : relay[c][d].pc = "done"
  /\ Close(c)
  /\ UNCHANGED <<listener, lookup, socks, relay>>

-----------------------------------------------------------------------------
Relay(c) == Join(c) \/ \E d \in Way : Read(c, d) \/ Write(c, d) \/ Shutdown(c, d)

Serve(c) ==
  \/ Hangup(c) \/ Greet(c) \/ Request(c) \/ Address(c) \/ LookupA(c) \/ LookupAAAA(c)
  \/ DialOrigin(c) \/ Succeed(c)

NetNext ==
  \/ Drop \/ CheckStop \/ Accept
  \/ \E c \in Conn :
       \/ Connect(c) \/ Serve(c) \/ Expire(c) \/ Relay(c)
       \/ \E d \in Way : Send(c, d)

(* Threads run; every read, write, lookup and dial has a time limit.       *)
Fairness ==
  /\ WF_netVars(CheckStop) /\ WF_netVars(Accept)
  /\ \A c \in Conn :
       /\ WF_netVars(Serve(c)) /\ WF_netVars(Join(c))
       /\ \A d \in Way : WF_netVars(Read(c, d) \/ Write(c, d) \/ Shutdown(c, d))

NetSpec == NetInit /\ [][NetNext]_netVars /\ Fairness

-----------------------------------------------------------------------------
Step == {"new", "backlog", "greeting", "request", "address", "A", "AAAA", "dial",
         "connected", "relay", "closed"}

NetTypeOK ==
  /\ stop \in BOOLEAN /\ acceptor \in {"check", "accept", "ended"}
  /\ pc \in [Conn -> Step] /\ target \in [Conn -> Target \cup {NoTarget}]
  /\ late \in [Conn -> BOOLEAN]
  /\ open \in [Conn -> SUBSET BothEnds]
  /\ relay \in [Conn -> [Way ->
       [pc : {"read", "write", "shut_sink", "shut_source", "done"}, sent : 0 .. MaxChunk,
        taken : 0 .. MaxChunk, given : 0 .. MaxChunk, eof : BOOLEAN,
        why : {"none", "eof", "broken"}]]]

(* A name is dialled only at an address the pin gave for it on this very   *)
(* connection, at an IPv4 one if there was any; a lookup that failed or    *)
(* found nothing is followed by no dial, and nothing else asks the pin.    *)
IPv4 == Given("A")

DialledAsResolved ==
  \A c \in Conn :
    /\ target[c].kind # "name" => found[c] = <<>>
    /\ dialled[c] # "none" =>
         CASE target[c].kind = "literal" -> dialled[c] = target[c].ip
           [] target[c].kind = "localhost" -> dialled[c] = "127.0.0.1"
           [] target[c].kind = "name" ->
                /\ Contains(found[c], dialled[c])
                /\ (\E i \in DOMAIN found[c] : found[c][i] \in IPv4) => dialled[c] \in IPv4
           [] OTHER -> FALSE
    /\ pc[c] \in {"connected", "relay"} => dialled[c] # "none"

(* The client of a connection hears at most one reply, "success" only with *)
(* a tunnel behind it, "unreachable" only after a dial and the others only *)
(* before one; no byte of either side moves before "success" is heard.     *)
AnsweredOnce ==
  \A c \in Conn :
    /\ Len(socks[c]) <= 1
    /\ socks[c] # <<>> => (socks[c][1] \in {"success", "unreachable"} <=> dialled[c] # "none")
    /\ socks[c] # <<>> /\ socks[c][1] # "success" => pc[c] = "closed"
    /\ socks[c] # <<"success">> => \A d \in Way : relay[c][d] = Fresh

(* A client gets the tunnel to an address its name was resolved to, or one *)
(* reply that says why not (dns.rs:100-190, browser_dns.rs:200-370).       *)
TunnelsAreSound == DialledAsResolved /\ AnsweredOnce

(* A dropped proxy stops listening, and every connection it had accepted,  *)
(* in a tunnel or on its way there, comes to its end by itself, if neither *)
(* end of it sends for ever: dropping the proxy shuts no tunnel.           *)
ProxyEnds ==
  stop ~> (acceptor = "ended" /\ \A c \in Conn : pc[c] \in {"new", "closed"})

=============================================================================
