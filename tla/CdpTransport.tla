----------------------------- MODULE CdpTransport -----------------------------
(***************************************************************************)
(* The DevTools transport of one browser (browser/transport/ in            *)
(* basecrawl-headless-chrome): any number of threads call methods, a       *)
(* WebSocket thread forwards what Chromium sends, and a message loop hands *)
(* each response to the call that waits for it.  Chromium, its process and *)
(* the clock are the environment.  The transport has a deadline, as every  *)
(* transport that basecrawl-render launches.                               *)
(***************************************************************************)
EXTENDS Naturals, Sequences, FiniteSets

CONSTANTS
  Call,       (* the method calls threads will make                        *)
  Tab,        (* those for a target: they wrap a second call to the browser *)
  MaxEvents   (* bound: events Chromium may send                           *)

ASSUME TransportAssumption == IsFiniteSet(Call) /\ Tab \subseteq Call /\ MaxEvents \in Nat

(* A call has one CallId, and a target call a second one for the           *)
(* SendMessageToTarget that carries it; "wire" is the one that is sent.    *)
Id == [call : Call, layer : {"wire", "target"}]
Wire(c) == [call |-> c, layer |-> "wire"]
Target(c) == [call |-> c, layer |-> "target"]
Ids(c) == IF c \in Tab THEN {Wire(c), Target(c)} ELSE {Wire(c)}

(* What the WebSocket thread hands to the message loop.                    *)
ResponseTo(i) == [kind |-> "response", to |-> i]
BrowserEvent == [kind |-> "event"]
ConnectionShutdown == [kind |-> "shutdown"]
Message == {ResponseTo(i) : i \in Id} \cup {BrowserEvent, ConnectionShutdown}

VARIABLES
  pc,         (* where each call is in call_method                         *)
  registry,   (* WaitingCallRegistry.calls                                 *)
  mail,       (* what each call's own channel holds                        *)
  open,       (* Transport.open                                            *)
  conn,       (* the WebSocket is not closed from this side                *)
  stop,       (* how far Transport::shutdown has come                      *)
  ws,         (* dispatch_incoming_messages                                *)
  chan,       (* messages on their way to the message loop                 *)
  loop,       (* handle_incoming_messages                                  *)
  listener,   (* an event listener still receives                          *)
  (* environment                                                           *)
  peer,       (* Chromium holds its end of the socket                      *)
  asked,      (* calls Chromium has received and not answered              *)
  events,     (* how many events it sent                                   *)
  overdue     (* the transport's deadline has passed                       *)

callVars == <<pc, registry, mail>>
socketVars == <<open, conn, stop, ws, chan, loop, listener>>
envVars == <<peer, asked, events, overdue>>
cdpVars == <<callVars, socketVars, envVars>>

CdpInit ==
  /\ pc = [c \in Call |-> "idle"]
  /\ registry = {} /\ mail = [i \in Id |-> "none"]
  /\ open = TRUE /\ conn = TRUE /\ stop = "no"
  /\ ws = "reading" /\ chan = <<>> /\ loop = "poll" /\ listener = TRUE
  /\ peer = TRUE /\ asked = {} /\ events = 0 /\ overdue = FALSE

CallGoes(c, from, to) == pc[c] = from /\ pc' = [pc EXCEPT ![c] = to]

-----------------------------------------------------------------------------
(* call_method.                                                            *)

Begin(c) ==
  /\ CallGoes(c, "idle", IF ~open THEN "failed" ELSE IF c \in Tab THEN "target" ELSE "register")
  /\ UNCHANGED <<registry, mail, socketVars, envVars>>

RegisterTarget(c) ==
  /\ CallGoes(c, "target", "inner")
  /\ registry' = registry \cup {Target(c)}
  /\ UNCHANGED <<mail, socketVars, envVars>>

(* Faulty variant: a failed inner call leaves the target call registered.  *)
FailKeepingTarget(c, ids) ==
  /\ pc' = [pc EXCEPT ![c] = "failed"]
  /\ registry' = registry \ (ids \ {Target(c)})

(* The calls in ids are unregistered on the way out.                       *)
Fail(c, ids) ==
  /\ pc' = [pc EXCEPT ![c] = "failed"]
  /\ registry' = registry \ ids

(* The nested call_method_on_browser finds the transport closed, or not.   *)
BeginWire(c) ==
  /\ pc[c] = "inner"
  /\ \/ open /\ CallGoes(c, "inner", "register") /\ UNCHANGED registry
     \/ ~open /\ Fail(c, {Target(c)})
  /\ UNCHANGED <<mail, socketVars, envVars>>

Register(c) ==
  /\ CallGoes(c, "register", "send")
  /\ registry' = registry \cup {Wire(c)}
  /\ UNCHANGED <<mail, socketVars, envVars>>

(* A message sent to a Chromium that is gone may be lost silently.         *)
Send(c) ==
  /\ conn /\ ~overdue
  /\ CallGoes(c, "send", "await")
  /\ asked' = IF peer THEN asked \cup Ids(c) ELSE asked
  /\ UNCHANGED <<registry, mail, socketVars, peer, events, overdue>>

SendFails(c) ==
  /\ pc[c] = "send"
  /\ ~conn \/ overdue \/ ~peer
  /\ Fail(c, Ids(c))
  /\ UNCHANGED <<mail, socketVars, envVars>>

(* The answer to the sent message is an error, comes after the deadline,   *)
(* or is the news that the connection closed.                              *)
AwaitFails(c) ==
  /\ pc[c] = "await" /\ mail[Wire(c)] # "none"
  /\ Fail(c, {Target(c)})
  /\ UNCHANGED <<mail, socketVars, envVars>>

AwaitAnswer(c) ==
  /\ mail[Wire(c)] = "answer" /\ ~overdue
  /\ CallGoes(c, "await", IF c \in Tab THEN "awaitTarget" ELSE "ok")
  /\ UNCHANGED <<registry, mail, socketVars, envVars>>

(* The deadline passes first: the call that waited stays registered.       *)
AwaitTimesOut(c) ==
  /\ pc[c] = "await" /\ overdue
  /\ Fail(c, {Target(c)})
  /\ UNCHANGED <<mail, socketVars, envVars>>

AwaitTarget(c) ==
  /\ mail[Target(c)] = "answer" /\ ~overdue
  /\ CallGoes(c, "awaitTarget", "ok")
  /\ UNCHANGED <<registry, mail, socketVars, envVars>>

AwaitTargetFails(c) ==
  /\ pc[c] = "awaitTarget"
  /\ mail[Target(c)] # "none" \/ overdue
  /\ Fail(c, {})
  /\ UNCHANGED <<mail, socketVars, envVars>>

-----------------------------------------------------------------------------
(* The WebSocket thread.  Every read first asks for the time left, so      *)
(* after the deadline it fails as a timeout does, whatever the socket      *)
(* holds, and the thread reads again.                                      *)

MayRead == ws = "reading" /\ ~overdue

Forward(m) ==
  /\ MayRead
  /\ IF loop = "over" THEN ws' = "over" /\ UNCHANGED chan
                      ELSE chan' = Append(chan, m) /\ UNCHANGED ws
  /\ UNCHANGED <<open, conn, stop, loop, listener>>

Response(i) ==
  /\ peer /\ i \in asked
  /\ asked' = asked \ {i}
  /\ Forward(ResponseTo(i))
  /\ UNCHANGED <<callVars, peer, events, overdue>>

Event ==
  /\ peer /\ events < MaxEvents
  /\ events' = events + 1
  /\ Forward(BrowserEvent)
  /\ UNCHANGED <<callVars, peer, asked, overdue>>

(* A close frame or the end of the stream.                                 *)
WsEnds ==
  /\ MayRead /\ ~peer
  /\ ws' = "over"
  /\ chan' = IF loop = "over" THEN chan ELSE Append(chan, ConnectionShutdown)
  /\ UNCHANGED <<callVars, open, conn, stop, loop, listener, envVars>>

-----------------------------------------------------------------------------
(* The message loop.                                                       *)

LoopPoll ==
  /\ loop = "poll"
  /\ loop' = IF stop = "sent" THEN "closing" ELSE "recv"
  /\ UNCHANGED <<callVars, open, conn, stop, ws, chan, listener, envVars>>

(* resolve_call: a call nobody waits for any more is not an error.         *)
Resolve(i) ==
  /\ registry' = registry \ {i}
  /\ mail' = IF i \in registry THEN [mail EXCEPT ![i] = "answer"] ELSE mail
  /\ UNCHANGED pc

(* Faulty variant: an answer nobody waits for any more ends the loop.      *)
OnlyIfAwaited(i) == IF i \in registry THEN "poll" ELSE "closing"

AfterResponse(i) == "poll"

LoopRecv ==
  /\ loop = "recv" /\ chan # <<>>
  /\ chan' = Tail(chan)
  /\ \/ /\ Head(chan).kind = "response"
        /\ Resolve(Head(chan).to)
        /\ loop' = AfterResponse(Head(chan).to)
     \/ /\ Head(chan).kind # "response"
        /\ loop' = IF Head(chan).kind = "event" /\ listener THEN "poll" ELSE "closing"
        /\ UNCHANGED callVars
  /\ UNCHANGED <<open, conn, stop, ws, listener, envVars>>

(* recv_timeout(idle_browser_timeout), which is the time there was to the  *)
(* deadline before Chromium was started (browser/mod.rs:134-145): a wait   *)
(* that began later does not end before the deadline.                      *)
LoopIdles ==
  /\ loop = "recv" /\ chan = <<>> /\ overdue
  /\ loop' = "closing"
  /\ UNCHANGED <<callVars, open, conn, stop, ws, chan, listener, envVars>>

(* Faulty variant: the loop leaves the socket as it is.                    *)
CloseConnectionNot == UNCHANGED conn

CloseConnection == conn' = FALSE

LoopCloses ==
  /\ loop = "closing" /\ loop' = "flag"
  /\ CloseConnection
  /\ UNCHANGED <<callVars, open, stop, ws, chan, listener, envVars>>

LoopFlags ==
  /\ loop = "flag" /\ loop' = "cancel"
  /\ open' = FALSE
  /\ UNCHANGED <<callVars, conn, stop, ws, chan, listener, envVars>>

(* Faulty variant: only the calls for targets are told.                    *)
CancelledTargets == {i \in registry : i.layer = "target"}

ToBeTold == registry

(* cancel_outstanding_method_calls, which leaves the registry as it is.    *)
LoopCancels ==
  /\ loop = "cancel" /\ loop' = "over"
  /\ mail' = [i \in Id |-> IF i \in ToBeTold THEN "closed" ELSE mail[i]]
  /\ UNCHANGED <<pc, registry, open, conn, stop, ws, chan, listener, envVars>>

-----------------------------------------------------------------------------
(* The rest of the program, and the environment.                           *)

(* Transport::shutdown, when the browser is dropped: the socket first, and *)
(* then the message loop is told.                                          *)
Shutdown ==
  /\ stop = "no" /\ stop' = "closing"
  /\ conn' = FALSE
  /\ UNCHANGED <<callVars, open, ws, chan, loop, listener, envVars>>

TellLoop ==
  /\ stop = "closing" /\ stop' = "sent"
  /\ UNCHANGED <<callVars, open, conn, ws, chan, loop, listener, envVars>>

(* The thread that receives the events ends.                               *)
ListenerEnds ==
  /\ listener' = FALSE
  /\ UNCHANGED <<callVars, open, conn, stop, ws, chan, loop, envVars>>

PeerGoes ==
  /\ peer' = FALSE
  /\ UNCHANGED <<callVars, socketVars, asked, events, overdue>>

DeadlinePasses ==
  /\ overdue' = TRUE
  /\ UNCHANGED <<callVars, socketVars, peer, asked, events>>

CallStep(c) ==
  \/ RegisterTarget(c) \/ BeginWire(c) \/ Register(c)
  \/ Send(c) \/ SendFails(c)
  \/ AwaitFails(c) \/ AwaitAnswer(c) \/ AwaitTimesOut(c)
  \/ AwaitTarget(c) \/ AwaitTargetFails(c)

MessageLoop == LoopPoll \/ LoopRecv \/ LoopCloses \/ LoopFlags \/ LoopCancels

Environment == Shutdown \/ TellLoop \/ ListenerEnds \/ PeerGoes \/ DeadlinePasses \/ Event \/ \E i \in Id : Response(i)

CdpNext ==
  \/ \E c \in Call : Begin(c) \/ CallStep(c)
  \/ MessageLoop \/ LoopIdles \/ WsEnds \/ Environment

CdpSpec == CdpInit /\ [][CdpNext]_cdpVars

(* Threads run.  Chromium need not answer, and nothing need go wrong; a    *)
(* Chromium whose connection was closed does close its end.  Of the loop's *)
(* own idle timeout nothing is assumed.                                    *)
CdpFairSpec ==
  /\ CdpSpec
  /\ WF_cdpVars(MessageLoop) /\ WF_cdpVars(WsEnds)
  /\ \A c \in Call : WF_cdpVars(CallStep(c))
  /\ WF_cdpVars(TellLoop) /\ WF_cdpVars(~conn /\ PeerGoes)

-----------------------------------------------------------------------------
Busy(c) == pc[c] \notin {"idle", "ok", "failed"}

CdpTypeOK ==
  /\ pc \in [Call -> {"idle", "target", "inner", "register", "send", "await",
                      "awaitTarget", "ok", "failed"}]
  /\ registry \subseteq Id /\ asked \subseteq Id
  /\ mail \in [Id -> {"none", "answer", "closed"}]
  /\ \A i \in registry : mail[i] # "answer"
  /\ {open, conn, listener, peer, overdue} \subseteq BOOLEAN
  /\ stop \in {"no", "closing", "sent"}
  /\ ws \in {"reading", "over"}
  /\ chan \in Seq(Message)
  /\ loop \in {"poll", "recv", "closing", "flag", "cancel", "over"}
  /\ events \in 0..MaxEvents

(* Once the message loop is over nobody delivers any more: every call that *)
(* still waits has been told, however its registration and its sending     *)
(* interleaved with the closing (mod.rs:418-422).                          *)
NoStrandedCall == loop = "over" => \A c \in Call :
  /\ pc[c] = "await" => mail[Wire(c)] # "none"
  /\ pc[c] = "awaitTarget" => mail[Target(c)] # "none"

(* Before the deadline, and while the loop runs, the registry holds        *)
(* nothing but calls in progress: a target call whose inner call fails,    *)
(* for whatever reason, is unregistered with it (mod.rs:191-203).          *)
RegistryHoldsLiveCalls ==
  ~overdue /\ loop \in {"poll", "recv"} =>
    \A i \in registry : Busy(i.call) /\ i \in Ids(i.call)

(* Calls in progress are cancelled only when there is a cause: Chromium or *)
(* the listener is gone, the transport is being shut down, or the deadline *)
(* has passed.  In particular no answer, however late, to a call that gave *)
(* up ends the loop under the others (waiting_call_registry.rs:42-62).     *)
LoopEndsForCause ==
  loop \notin {"poll", "recv"} => overdue \/ ~peer \/ ~listener \/ stop # "no"

(* The registry and the calls in progress agree: nobody waits for an       *)
(* answer that cannot come, nothing is kept for a call that is over, and   *)
(* nobody's call is cancelled on account of another's (mod.rs:160-227,     *)
(* 337-352, 414-425).                                                      *)
CallsAreRegistered == NoStrandedCall /\ RegistryHoldsLiveCalls /\ LoopEndsForCause

(* A call ends once Chromium is gone, the transport is shut down, or the   *)
(* deadline has passed, whether the loop's idle timeout ever elapses or    *)
(* not.                                                                    *)
CallsEnd == \A c \in Call :
  Busy(c) /\ (~peer \/ stop # "no" \/ overdue) ~> ~Busy(c)

=============================================================================
