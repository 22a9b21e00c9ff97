-------------------------------- MODULE Tab --------------------------------
(***************************************************************************)
(* One tab (browser/tab/mod.rs): callers run its methods from any thread,  *)
(* while an event thread of its own hears what the page does, decides on   *)
(* the requests the page is paused on, and calls listeners and handlers,   *)
(* under the tab's mutexes. The transport under it is CdpTransport: a call *)
(* that Chromium can answer is answered, and every call ends when the      *)
(* connection does. Chromium and the page are the environment.             *)
(***************************************************************************)
EXTENDS TabApi, FiniteSets

CONSTANTS
  Caller,          (* threads with the tab in hand                         *)
  TabRequest,      (* requests the page makes                              *)
  Offered,         (* what each caller may call, one method after another  *)
  Loop, None,
  MaxRaised        (* bound: lifecycle, binding and auth events            *)

(* A deferred decision is made by a thread of its own, one per request.    *)
Thread == Caller \cup TabRequest \cup {Loop}
Mutex == {"listeners", "interceptor", "bindings", "auth", "responses", "failures"}

ASSUME TabAssumption ==
  /\ MaxRaised \in Nat /\ Loop \notin Caller \cup TabRequest
  /\ None \notin Caller \cup TabRequest \cup {Loop}
  /\ \A c \in Caller : Offered[c] \subseteq Seq(DOMAIN Program)

VARIABLES
  todo,        (* what each thread has left to do                          *)
  ahead,       (* the methods each caller has yet to call, or None         *)
  method,      (* the method it is in, if that waits                       *)
  elapsed,     (* its timeout has passed                                   *)
  lock,        (* who holds each mutex                                     *)
  poisoned,    (* mutexes a thread panicked with                           *)
  gone,        (* threads that ended: by a panic, or with the connection   *)
  inbox,       (* events on their way to the event thread                  *)
  tab,         (* what the tab stores                                      *)
  (* environment                                                           *)
  connected, status, installed, raised

threads == <<todo, ahead, method, elapsed, lock, poisoned, gone>>
page == <<connected, status, installed, raised>>
tabVars == <<threads, inbox, tab, page>>

TabInit ==
  /\ todo = [t \in Thread |-> <<>>] /\ ahead = [c \in Caller |-> None]
  /\ method = [c \in Caller |-> None] /\ elapsed = [c \in Caller |-> FALSE]
  /\ lock = [m \in Mutex |-> None] /\ poisoned = {} /\ gone = {} /\ inbox = <<>>
  /\ tab = [navigating |-> FALSE, bound |-> FALSE, decision |-> "continue",
            credentials |-> FALSE, listeners |-> {}, handlers |-> {}, received |-> {}]
  /\ connected = TRUE /\ status = [r \in TabRequest |-> "fresh"]
  /\ installed = FALSE /\ raised = 0

-----------------------------------------------------------------------------
(* Threads.                                                                *)

At(t, do) == todo[t] # <<>> /\ Head(todo[t]).do = do
On(t) == Head(todo[t]).on
Then(t, steps) == todo' = [todo EXCEPT ![t] = steps]
Advance(t) == Then(t, Tail(todo[t]))
Released(t) == [m \in Mutex |-> IF lock[m] = t THEN None ELSE lock[m]]

Panic(t) ==
  /\ gone' = gone \cup {t} /\ Then(t, <<>>)
  /\ poisoned' = poisoned \cup {m \in Mutex : lock[m] = t} /\ lock' = Released(t)

(* lock().unwrap(): a step that takes a mutex waits for it, and panics on  *)
(* one that is poisoned.                                                   *)
Free(mutex) == mutex # "none" => lock[mutex] = None /\ mutex \notin poisoned

Taking(t, do) == At(t, do) /\ Free(Head(todo[t]).under)

Poisoned(t) ==
  /\ todo[t] # <<>> /\ Head(todo[t]).under \in poisoned /\ Panic(t)
  /\ UNCHANGED <<ahead, method, elapsed, inbox, tab, page>>

Lock(t) ==
  /\ Taking(t, "lock") /\ lock' = [lock EXCEPT ![On(t)] = t] /\ Advance(t)
  /\ UNCHANGED <<ahead, method, elapsed, poisoned, gone, inbox, tab, page>>

Unlock(t) ==
  /\ At(t, "unlock") /\ lock' = [lock EXCEPT ![On(t)] = None] /\ Advance(t)
  /\ UNCHANGED <<ahead, method, elapsed, poisoned, gone, inbox, tab, page>>

Stores(t, do, field, value) ==
  /\ Taking(t, do) /\ tab' = [tab EXCEPT ![field] = value] /\ Advance(t)
  /\ UNCHANGED <<ahead, method, elapsed, lock, poisoned, gone, inbox, page>>

Store(t) ==
  \/ Stores(t, "navigating", "navigating", On(t))
  \/ Stores(t, "bind", "bound", On(t))
  \/ tab.bound /\ Stores(t, "unbind", "bound", On(t))
  \/ Stores(t, "decision", "decision", On(t))
  \/ Stores(t, "listen", "listeners", tab.listeners \cup {On(t)})
  \/ Stores(t, "unlisten", "listeners", tab.listeners \ {On(t)})
  \/ Stores(t, "handle", "handlers", tab.handlers \cup {On(t)})
  \/ Stores(t, "unhandle", "handlers", tab.handlers \ {On(t)})
  \/ Stores(t, "credentials", "credentials", On(t))

(* remove_function unwraps what it removes, its mutex in hand; a search    *)
(* within an element takes the first of what may be none.                  *)
Unwrap(t) ==
  /\ \/ /\ \/ Taking(t, "unbind") /\ ~tab.bound
           \/ Taking(t, "unhandle or panic") /\ On(t) \notin tab.handlers
        /\ gone' = gone \cup {t} /\ Then(t, <<>>)
        /\ poisoned' = poisoned \cup {Head(todo[t]).under}
        /\ UNCHANGED lock
     \/ At(t, "first or panic") /\ Panic(t)
     \/ At(t, "first or panic") /\ Advance(t) /\ UNCHANGED <<lock, poisoned, gone>>
  /\ UNCHANGED <<ahead, method, elapsed, inbox, tab, page>>

-----------------------------------------------------------------------------
(* DevTools calls. Chromium holds back the answer to a navigation while    *)
(* the page is paused on a request.                                        *)

Calling(t) ==
  \E do \in {"call", "try", "insist", "continue", "authorize"} : At(t, do)

Paused(r) == status[r] \in {"paused", "challenged"}

HeldBack(t) == connected /\ Calling(t) /\ On(t) = "Navigate" /\ \E r \in TabRequest : Paused(r)

Answer(t) ==
  /\ Calling(t) /\ connected /\ ~HeldBack(t) /\ Advance(t)
  /\ status' = IF At(t, "continue") \/ At(t, "authorize")
               THEN [status EXCEPT ![On(t)] = IF @ \in {"paused", "challenged"} THEN "decided" ELSE @]
               ELSE status
  /\ installed' = (installed \/ On(t) = "AddBinding")
  /\ UNCHANGED <<ahead, method, elapsed, lock, poisoned, gone, inbox, tab, connected, raised>>

(* The methods that wait look again for what they missed, until their      *)
(* timeout.                                                                *)
Again(t) == IF method[t] \in Waiting /\ ~elapsed[t] THEN Program[method[t]] ELSE <<>>

(* What a caller does of a failed call: `?` drops its guards, and failed   *)
(* results are none; a midpoint is sought by script instead, and that call *)
(* is unwrapped.                                                           *)
Failing(t) ==
  IF t \notin Caller THEN Advance(t) /\ UNCHANGED <<lock, poisoned, gone>>
  ELSE \/ /\ At(t, "call") /\ Then(t, IF On(t) = "GetFirstResult" THEN Again(t) ELSE <<>>)
          /\ lock' = Released(t) /\ UNCHANGED <<poisoned, gone>>
       \/ /\ At(t, "try") /\ Then(t, MidpointByScript \o Tail(todo[t]))
          /\ UNCHANGED <<lock, poisoned, gone>>
       \/ At(t, "insist") /\ Panic(t)

(* An error of Chromium's, or no answer within the transport's timeout.    *)
Abandoned(t) ==
  IF At(t, "continue") \/ At(t, "authorize") THEN [status EXCEPT ![On(t)] = "abandoned"] ELSE status

Fails(t) ==
  /\ Calling(t) /\ connected /\ Failing(t) /\ status' = Abandoned(t)
  /\ UNCHANGED <<ahead, method, elapsed, inbox, tab, connected, installed, raised>>

Cancelled(t) ==
  /\ Calling(t) /\ ~connected /\ Failing(t)
  /\ UNCHANGED <<ahead, method, elapsed, inbox, tab, page>>

(* No such element.                                                        *)
Miss(t) ==
  /\ t \in Caller /\ At(t, "call") /\ connected
  /\ On(t) \in {"QuerySelector", "DescribeNode", "GetFirstResult"}
  /\ Then(t, Again(t))
  /\ UNCHANGED <<ahead, method, elapsed, lock, poisoned, gone, inbox, tab, page>>

(* The script puts the midpoint at 0: it is asked again.                   *)
NoMidpointYet(t) ==
  /\ At(t, "insist") /\ connected /\ elapsed[t] /\ Then(t, <<>>)
  /\ UNCHANGED <<ahead, method, elapsed, lock, poisoned, gone, inbox, tab, page>>

-----------------------------------------------------------------------------
(* Callers.                                                                *)

Enter(c) ==
  /\ todo[c] = <<>> /\ c \notin gone
  /\ \E methods \in IF ahead[c] = None THEN Offered[c] ELSE {ahead[c]} :
       LET m == Head(methods)
       IN /\ methods # <<>> /\ ahead' = [ahead EXCEPT ![c] = Tail(methods)]
          /\ method' = [method EXCEPT ![c] = IF m \in Waiting THEN m ELSE None]
          /\ Then(c, Program[m])
  /\ elapsed' = [elapsed EXCEPT ![c] = FALSE]
  /\ UNCHANGED <<lock, poisoned, gone, inbox, tab, page>>

Elapse(c) ==
  /\ At(c, "await") \/ At(c, "insist") \/ (todo[c] # <<>> /\ method[c] \in Waiting)
  /\ ~elapsed[c] /\ elapsed' = [elapsed EXCEPT ![c] = TRUE]
  /\ UNCHANGED <<todo, ahead, method, lock, poisoned, gone, inbox, tab, page>>

(* Faulty variant: waits for the navigation however long it takes.         *)
AwaitForever(c) ==
  /\ At(c, "await") /\ ~tab.navigating /\ Advance(c)
  /\ UNCHANGED <<ahead, method, elapsed, lock, poisoned, gone, inbox, tab, page>>

Await(c) ==
  /\ At(c, "await") /\ (~tab.navigating \/ elapsed[c]) /\ Advance(c)
  /\ UNCHANGED <<ahead, method, elapsed, lock, poisoned, gone, inbox, tab, page>>

-----------------------------------------------------------------------------
(* The event thread: one event at a time, the listeners' mutex held while  *)
(* they and what the event calls for run. Listeners and handlers may call  *)
(* the transport themselves, for anything, a navigation too.               *)

HandlerCalls == {Calls(<<"Handler">>), Calls(<<"Navigate">>)}

Receive ==
  /\ Loop \notin gone /\ todo[Loop] = <<>> /\ inbox # <<>> /\ lock["listeners"] = None
  /\ inbox' = Tail(inbox) /\ lock' = [lock EXCEPT !["listeners"] = Loop]
  /\ \E calls \in IF "caller" \in tab.listeners THEN HandlerCalls ELSE {<<>>} :
       Then(Loop, calls \o <<Head(inbox)>> \o Do("unlock", "listeners"))
  /\ UNCHANGED <<ahead, method, elapsed, poisoned, gone, tab, page>>

LoopEnds ==
  /\ Loop \notin gone /\ todo[Loop] = <<>> /\ inbox = <<>> /\ ~connected
  /\ gone' = gone \cup {Loop}
  /\ UNCHANGED <<todo, ahead, method, elapsed, lock, poisoned, inbox, tab, page>>

OnLifecycle ==
  /\ At(Loop, "lifecycle")
  /\ tab' = [tab EXCEPT !.navigating = (On(Loop) = "init")] /\ Advance(Loop)
  /\ UNCHANGED <<ahead, method, elapsed, lock, poisoned, gone, inbox, page>>

(* The bindings are cloned under their mutex; a name not there panics.     *)
OnBinding ==
  /\ Taking(Loop, "binding")
  /\ IF tab.bound THEN Advance(Loop) /\ UNCHANGED <<lock, poisoned, gone>> ELSE Panic(Loop)
  /\ UNCHANGED <<ahead, method, elapsed, inbox, tab, page>>

(* The interceptor and what it decides run with its mutex held; a deferred *)
(* decision is another thread's.                                           *)
OnPaused ==
  /\ Taking(Loop, "paused")
  /\ LET r == On(Loop)
         rest == Tail(todo[Loop])
         deciding(steps) == Then(Loop, steps \o Do("continue", r) \o Do("unlock", "interceptor") \o rest)
                            /\ lock' = [lock EXCEPT !["interceptor"] = Loop]
     IN \/ tab.decision = "continue" /\ deciding(<<>>)
        \/ tab.decision = "ask" /\ \E calls \in HandlerCalls : deciding(calls)
        \/ /\ tab.decision = "defer" /\ UNCHANGED lock
           /\ todo' = [todo EXCEPT ![Loop] = rest, ![r] = Do("continue", r)]
  /\ UNCHANGED <<ahead, method, elapsed, poisoned, gone, inbox, tab, page>>

OnAuthRequired ==
  /\ Taking(Loop, "auth") /\ Then(Loop, Do("authorize", On(Loop)) \o Tail(todo[Loop]))
  /\ UNCHANGED <<ahead, method, elapsed, lock, poisoned, gone, inbox, tab, page>>

OnReceived ==
  /\ At(Loop, "received") /\ tab' = [tab EXCEPT !.received = @ \cup {On(Loop)}] /\ Advance(Loop)
  /\ UNCHANGED <<ahead, method, elapsed, lock, poisoned, gone, inbox, page>>

(* A handler of finished responses may fetch the body; neither it nor one  *)
(* of failures is called about a request that got no response.             *)
OnLoading(kind) ==
  /\ Taking(Loop, kind)
  /\ IF kind \in tab.handlers /\ On(Loop) \in tab.received
     THEN /\ \E calls \in HandlerCalls :
               Then(Loop, calls \o Do("unlock", kind) \o Tail(todo[Loop]))
          /\ lock' = [lock EXCEPT ![kind] = Loop]
     ELSE Advance(Loop) /\ UNCHANGED lock
  /\ UNCHANGED <<ahead, method, elapsed, poisoned, gone, inbox, tab, page>>

OnEvent ==
  \/ OnLifecycle \/ OnBinding \/ OnPaused \/ OnAuthRequired \/ OnReceived
  \/ OnLoading("responses") \/ OnLoading("failures")

-----------------------------------------------------------------------------
(* Chromium and the page.                                                  *)

(* Each event, and the mutex its handling takes.                           *)
Takes(kind) ==
  CASE kind = "paused" -> "interceptor" [] kind = "binding" -> "bindings"
    [] kind \in {"auth", "responses", "failures"} -> kind
    [] OTHER -> "none"

Raise(kind, of) == connected /\ inbox' = inbox \o Under(Takes(kind), kind, of)

Turn(r, from, to, kind) ==
  /\ status[r] \in from /\ status' = [status EXCEPT ![r] = to] /\ Raise(kind, r)
  /\ UNCHANGED <<threads, tab, connected, installed, raised>>

Counted(kind, of) ==
  /\ raised < MaxRaised /\ raised' = raised + 1 /\ Raise(kind, of)
  /\ UNCHANGED <<threads, tab, connected, installed>>

RequestMoves(r) ==
  \/ Turn(r, {"fresh"}, "paused", "paused")
  \/ Turn(r, {"decided"}, "responding", "received")
  \/ Turn(r, {"responding"}, "over", "responses")
  \/ Turn(r, {"paused", "challenged", "decided"}, "over", "failures")
  \/ /\ status[r] = "decided" /\ status' = [status EXCEPT ![r] = "challenged"]
     /\ Counted("auth", r)

Lifecycle ==
  /\ \/ \E name \in {"init", "networkAlmostIdle"} : Counted("lifecycle", name)
     \/ installed /\ Counted("binding", "f")
  /\ UNCHANGED status

Disconnect ==
  /\ connected /\ connected' = FALSE
  /\ UNCHANGED <<threads, inbox, tab, status, installed, raised>>

Local(t) == Poisoned(t) \/ Lock(t) \/ Unlock(t) \/ Store(t) \/ Unwrap(t)
CallEnds(t) == Answer(t) \/ Cancelled(t)
Runs(t) ==
  \/ Local(t) \/ CallEnds(t)
  \/ t \in Caller /\ Await(t)
  \/ t = Loop /\ (Receive \/ OnEvent)

TabNext ==
  \/ \E t \in Thread : Local(t) \/ CallEnds(t) \/ Fails(t) \/ Miss(t) \/ NoMidpointYet(t)
  \/ \E c \in Caller : Elapse(c) \/ Await(c) \/ Enter(c)
  \/ Receive \/ LoopEnds \/ OnEvent
  \/ \E r \in TabRequest : RequestMoves(r)
  \/ Lifecycle \/ Disconnect

(* Threads run, Chromium answers what it does not hold back and clocks go  *)
(* on; nothing says that a call times out.                                 *)
Fairness ==
  /\ \A t \in Thread : WF_tabVars(Runs(t))
  /\ \A c \in Caller : WF_tabVars(Elapse(c))

TabSpec == TabInit /\ [][TabNext]_tabVars /\ Fairness

-----------------------------------------------------------------------------
TabTypeOK ==
  /\ poisoned \subseteq Mutex /\ gone \subseteq Thread /\ raised \in 0..MaxRaised
  /\ lock \in [Mutex -> Thread \cup {None}]
  /\ method \in [Caller -> Waiting \cup {None}] /\ elapsed \in [Caller -> BOOLEAN]
  /\ \A c \in Caller : ahead[c] \in Seq(DOMAIN Program) \cup {None}
  /\ status \in [TabRequest -> {"fresh", "paused", "challenged", "decided", "abandoned", "responding", "over"}]

(* The transport's own timeout, for calls that are held back.              *)
HeldBackIsOver == WF_tabVars(\E t \in Thread : HeldBack(t) /\ Fails(t))

(* A request the page is paused on is decided, whatever callers, listeners *)
(* and interceptors do with the transport meanwhile: without the help of   *)
(* any timeout, unless the event thread is gone or waits, in a listener or *)
(* handler of its own, for the very answer that is held back until then;   *)
(* and even so once that call has timed out (start_event_handler_thread).  *)
PausedIsDecided ==
  /\ \A r \in TabRequest :
       Paused(r) ~> ~Paused(r) \/ Loop \in gone \/ ~connected \/ HeldBack(Loop)
  /\ HeldBackIsOver =>
       \A r \in TabRequest : Paused(r) ~> ~Paused(r) \/ Loop \in gone \/ ~connected

(* Every method returns, without the help of a timeout of the transport's  *)
(* unless nobody is left to decide on the request that holds it back, or   *)
(* the event thread is held back itself; and with that timeout always.     *)
CallersReturn ==
  /\ \A c \in Caller :
       todo[c] # <<>> ~> todo[c] = <<>> \/ (Loop \in gone /\ HeldBack(c)) \/ HeldBack(Loop)
  /\ HeldBackIsOver => \A c \in Caller : todo[c] # <<>> ~> todo[c] = <<>>

(* While connected, the event thread ends only of a function that was      *)
(* removed: one the page still calls, or one removed twice. No method and  *)
(* no handler poisons a mutex but these two (start_event_handler_thread).  *)
LoopDiesOfBindingsOnly ==
  [][/\ Loop \in gone' \ gone /\ connected => (installed /\ ~tab.bound) \/ "bindings" \in poisoned
     /\ poisoned' \subseteq {"bindings", "listeners"}]_tabVars

=============================================================================
