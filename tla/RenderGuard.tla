---------------------------- MODULE RenderGuard ------------------------------
(***************************************************************************)
(* The browser renders of one scrape under one shared resource budget      *)
(* (src/crates/basecrawl-render/src/lib.rs): the rendering thread settles, *)
(* captures and returns, while the tab's event thread intercepts requests, *)
(* responses and received data, one deferred thread per request paces it,  *)
(* and one per unsized response charges its body before the page gets it.  *)
(* Chromium is the environment: which requests a page makes, in what order *)
(* its events arrive, and whether a CDP call fails are free choices.       *)
(***************************************************************************)
EXTENDS Integers, FiniteSets

CONSTANTS
  Request,         (* every request the renders' pages may make            *)
  Renders,         (* how many renders the scrape makes, one after another *)
  RenderOf,        (* the render whose page makes each request             *)
  Size,            (* the body length of each response                     *)
  Declared,        (* its declared length, 0 when there is none            *)
  Materialized,    (* responses that are chunked or of no declared length  *)
  Document,        (* requests of type Document                            *)
  TopDocument,     (* those for the top frame                              *)
  Forbidden,       (* top documents the document policy denies             *)
  Untracked,       (* requests the page's idle probe does not see          *)
  MaxRequests, MaxBytes, MaxDocumentBytes,
  FollowRedirects, MaxRedirects,
  NetworkIdle,     (* settle waits for the network to be idle              *)
  CrawlDelay       (* requests are paced                                   *)

Render == 1..Renders

ASSUME RenderAssumption ==
  /\ IsFiniteSet(Request)
  /\ Renders \in Nat \ {0}
  /\ RenderOf \in [Request -> Render]
  /\ Size \in [Request -> Nat] /\ Declared \in [Request -> Nat]
  /\ TopDocument \subseteq Document /\ Document \subseteq Request
  /\ Materialized \subseteq Request /\ Untracked \subseteq Request
  /\ Forbidden \subseteq TopDocument
  /\ MaxRequests \in Nat /\ MaxBytes \in Nat /\ MaxDocumentBytes \in Nat
  /\ MaxRedirects \in Nat
  /\ {FollowRedirects, NetworkIdle, CrawlDelay} \subseteq BOOLEAN

NoMeter == -1

VARIABLES
  (* RenderResourceBudget, shared by every render of the scrape            *)
  count,     (* usage.subresource_count                                    *)
  bytes,     (* usage.resource_bytes                                       *)
  exceeded,  (* usage.cap_exceeded                                         *)
  pending,   (* pending_body_accounts                                      *)
  (* one request each                                                      *)
  st,        (* how far it and its deferred thread are                     *)
  meter,     (* BrowserResponseMeter.observed_bytes, or NoMeter            *)
  already,   (* what its body thread read from the meter                   *)
  reported,  (* bytes Network.dataReceived has reported for it             *)
  charged,   (* history: bytes charged for it                              *)
  (* one render each                                                       *)
  denied,    (* document_policy_denial                                     *)
  hops,      (* client_navigation_hops, -1 before the first document       *)
  tooMany,   (* too_many_redirects                                         *)
  late,      (* pacing_deadline_exceeded                                   *)
  closing,   (* a thread has been spawned to close the tab                 *)
  alive,     (* the tab and its browser are there                          *)
  (* the rendering thread                                                  *)
  main, round,
  expired,   (* the scrape's deadline has passed                           *)
  cleanCut   (* history: no cap was exceeded when the page was serialized  *)

budgetVars == <<count, bytes, exceeded>>
meterVars == <<meter, already, reported, charged>>
guardVars == <<denied, hops, tooMany, late, closing, alive>>
mainVars == <<main, round, expired, cleanCut>>
vars == <<budgetVars, pending, st, meterVars, guardVars, mainVars>>

Init ==
  /\ count = 0 /\ bytes = 0 /\ exceeded = FALSE /\ pending = 0
  /\ st = [r \in Request |-> "none"]
  /\ meter = [r \in Request |-> NoMeter]
  /\ already = [r \in Request |-> 0]
  /\ reported = [r \in Request |-> 0]
  /\ charged = [r \in Request |-> 0]
  /\ denied = [i \in Render |-> FALSE]
  /\ hops = [i \in Render |-> -1]
  /\ tooMany = [i \in Render |-> FALSE]
  /\ late = [i \in Render |-> FALSE]
  /\ closing = [i \in Render |-> FALSE]
  /\ alive = [i \in Render |-> FALSE]
  /\ main = "start" /\ round = 1 /\ expired = FALSE /\ cleanCut = TRUE

Step(r, from, to) ==
  /\ st[r] = from
  /\ st' = [st EXCEPT ![r] = to]

(* RenderResourceBudget::exhaust, and charge_bytes on behalf of request r. *)
Exhaust ==
  /\ exceeded' = TRUE
  /\ UNCHANGED <<count, bytes, charged>>

Fits(n) == ~exceeded /\ bytes + n <= MaxBytes

ChargeBytes(r, n) ==
  /\ Fits(n)
  /\ bytes' = bytes + n
  /\ charged' = [charged EXCEPT ![r] = @ + n]
  /\ UNCHANGED <<count, exceeded>>

-----------------------------------------------------------------------------
(* The request stage, in the tab's event thread.                           *)

Loaded(i) == \E d \in TopDocument :
  RenderOf[d] = i /\ st[d] \in {"streaming", "delivered", "done"}

(* The page asks: its top document first, then whatever that leads to.     *)
Ask(r) ==
  /\ alive[RenderOf[r]]
  /\ main # "start"
  /\ \/ Loaded(RenderOf[r])
     \/ /\ r \in TopDocument
        /\ \A q \in Request : RenderOf[q] = RenderOf[r] => st[q] = "none"
  /\ Step(r, "none", "asked")
  /\ UNCHANGED <<budgetVars, pending, meterVars, guardVars, mainVars>>

(* Faulty variant: the hop after the last permitted one still passes.      *)
HopAllowedOffByOne(r) ==
  \/ r \notin TopDocument
  \/ hops[RenderOf[r]] = -1
  \/ ~FollowRedirects
  \/ hops[RenderOf[r]] <= MaxRedirects

(* record_top_document_request: the first document is not a hop.           *)
HopAllowed(r) ==
  \/ r \notin TopDocument
  \/ hops[RenderOf[r]] = -1
  \/ ~FollowRedirects
  \/ hops[RenderOf[r]] < MaxRedirects

RecordHop(r) ==
  hops' = IF r \in TopDocument /\ (hops[RenderOf[r]] = -1 \/ FollowRedirects)
          THEN [hops EXCEPT ![RenderOf[r]] = @ + 1]
          ELSE hops

(* The document policy denies it, before the hop or the cap is looked at.  *)
Deny(r) ==
  /\ r \in Forbidden
  /\ Step(r, "asked", "refused")
  /\ denied' = [denied EXCEPT ![RenderOf[r]] = TRUE]
  /\ UNCHANGED <<budgetVars, pending, meterVars, hops, tooMany, late, closing,
                 alive, mainVars>>

(* One navigation too many, before the cap is looked at.                   *)
RefuseHop(r) ==
  /\ r \notin Forbidden
  /\ ~HopAllowed(r)
  /\ Step(r, "asked", "refused")
  /\ RecordHop(r)
  /\ tooMany' = [tooMany EXCEPT ![RenderOf[r]] = TRUE]
  /\ UNCHANGED <<budgetVars, pending, meterVars, denied, late, closing, alive,
                 mainVars>>

(* The request cap: refuse and exhaust, or count and hand over to the      *)
(* deferred thread that paces the request.                                 *)
Accept(r) ==
  /\ r \notin Forbidden
  /\ HopAllowed(r)
  /\ RecordHop(r)
  /\ \/ /\ exceeded \/ count >= MaxRequests
        /\ Step(r, "asked", "refused")
        /\ exceeded' = TRUE
        /\ UNCHANGED <<count, bytes>>
     \/ /\ ~exceeded /\ count < MaxRequests
        /\ Step(r, "asked", "accepted")
        /\ count' = count + 1
        /\ UNCHANGED <<bytes, exceeded>>
  /\ UNCHANGED <<pending, meterVars, denied, tooMany, late, closing, alive,
                 mainVars>>

(* The deferred thread: continue the request when the pacer lets it, or    *)
(* fail it when the pacer would run past the deadline.  A first request to *)
(* an origin is never delayed.                                             *)
Transmit(r) ==
  /\ Step(r, "accepted", "sent")
  /\ UNCHANGED <<budgetVars, pending, meterVars, guardVars, mainVars>>

Transmitted == {r \in Request : st[r] \notin {"none", "asked", "refused",
                                              "accepted", "unpaced"}}

PaceLate(r) ==
  /\ CrawlDelay
  /\ Transmitted # {}
  /\ Step(r, "accepted", "unpaced")
  /\ late' = [late EXCEPT ![RenderOf[r]] = TRUE]
  /\ UNCHANGED <<budgetVars, pending, meterVars, denied, hops, tooMany,
                 closing, alive, mainVars>>

-----------------------------------------------------------------------------
(* The response stage, in the tab's event thread.                          *)

(* The declared length is more than what is left or a document may have.   *)
Oversized(r) ==
  \/ exceeded
  \/ Declared[r] > MaxBytes - bytes
  \/ r \in Document /\ Declared[r] > MaxDocumentBytes

Block(r) ==
  /\ Oversized(r)
  /\ Step(r, "sent", "blocked")
  /\ Exhaust
  /\ UNCHANGED <<pending, meter, already, reported, guardVars, mainVars>>

(* A meter is put up.  A response of trusted length goes on to the page; a *)
(* chunked or unsized one is given to a body thread, counted as pending.   *)
Respond(r) ==
  /\ ~Oversized(r)
  /\ meter' = [meter EXCEPT ![r] = 0]
  /\ IF r \in Materialized
     THEN Step(r, "sent", "body") /\ pending' = pending + 1
     ELSE Step(r, "sent", "streaming") /\ UNCHANGED pending
  /\ UNCHANGED <<budgetVars, already, reported, charged, guardVars, mainVars>>

(* Network.dataReceived, in the event thread, whenever its turn comes: n   *)
(* more bytes are charged and metered under the meters' lock, or the       *)
(* budget is exhausted and a thread is spawned to close the tab.           *)
DataReceived(r, n) ==
  /\ meter[r] # NoMeter
  /\ reported[r] + n <= Size[r]
  /\ reported' = [reported EXCEPT ![r] = @ + n]
  /\ IF Fits(n) /\ (r \in Document => meter[r] + n <= MaxDocumentBytes)
     THEN /\ ChargeBytes(r, n)
          /\ meter' = [meter EXCEPT ![r] = @ + n]
          /\ UNCHANGED closing
     ELSE /\ Exhaust
          /\ closing' = [closing EXCEPT ![RenderOf[r]] = TRUE]
          /\ UNCHANGED meter
  /\ UNCHANGED <<pending, st, already, denied, hops, tooMany, late, alive,
                 mainVars>>

CloseTab(i) ==
  /\ closing[i] /\ alive[i]
  /\ alive' = [alive EXCEPT ![i] = FALSE]
  /\ UNCHANGED <<budgetVars, pending, st, meterVars, denied, hops, tooMany,
                 late, closing, mainVars>>

-----------------------------------------------------------------------------
(* The body thread of one materialized response.                           *)

(* Fetch.getResponseBody or the base64 decoding failed: fail closed.       *)
BodyError(r) ==
  /\ Step(r, "body", "failing")
  /\ Exhaust
  /\ UNCHANGED <<pending, meter, already, reported, guardVars, mainVars>>

(* The body is there; what was already charged for it is read under the    *)
(* meters' lock, which is then released.                                   *)
ReadMeter(r) ==
  /\ Step(r, "body", "read")
  /\ already' = [already EXCEPT ![r] = meter[r]]
  /\ UNCHANGED <<budgetVars, pending, meter, reported, charged, guardVars,
                 mainVars>>

(* charge_remaining_bytes: observed.saturating_sub(already_charged).       *)
Due(r) == IF Size[r] > already[r] THEN Size[r] - already[r] ELSE 0

(* Faulty variants: an already metered part is taken for the whole; the    *)
(* budget's refusal is ignored and the bytes are added all the same.       *)
ChargeBodyUnlessMetered(r) ==
  /\ ~(r \in Document /\ Size[r] > MaxDocumentBytes)
  /\ IF already[r] > 0 THEN UNCHANGED <<budgetVars, charged>>
                       ELSE ChargeBytes(r, Size[r])
  /\ Step(r, "read", "charged")
  /\ UNCHANGED <<pending, meter, already, reported, guardVars, mainVars>>

ChargeBodyUnchecked(r) ==
  /\ Step(r, "read", "charged")
  /\ bytes' = bytes + Due(r)
  /\ charged' = [charged EXCEPT ![r] = @ + Due(r)]
  /\ UNCHANGED <<count, exceeded, pending, meter, already, reported,
                 guardVars, mainVars>>

ChargeBody(r) ==
  /\ IF (r \in Document => Size[r] <= MaxDocumentBytes)
        /\ (Due(r) = 0 \/ Fits(Due(r)))
     THEN /\ Step(r, "read", "charged")
          /\ IF Due(r) = 0 THEN UNCHANGED <<budgetVars, charged>>
                           ELSE ChargeBytes(r, Due(r))
     ELSE /\ Step(r, "read", "failing")
          /\ Exhaust
  /\ UNCHANGED <<pending, meter, already, reported, guardVars, mainVars>>

(* The meter is raised to the observed length.                             *)
RaiseMeter(r) ==
  /\ Step(r, "charged", "metered")
  /\ meter' = [meter EXCEPT ![r] = IF Size[r] > @ THEN Size[r] ELSE @]
  /\ UNCHANGED <<budgetVars, pending, already, reported, charged, guardVars,
                 mainVars>>

(* Fetch.fulfillRequest, or continueResponse when that fails: the page has *)
(* the body.                                                               *)
Fulfill(r) ==
  /\ Step(r, "metered", "delivered")
  /\ UNCHANGED <<budgetVars, pending, meterVars, guardVars, mainVars>>

(* Faulty variant: the failure path forgets finish_body_account.           *)
FinishBodyOnSuccess(r) ==
  /\ \/ Step(r, "delivered", "done") /\ pending' = pending - 1
     \/ Step(r, "failing", "failed") /\ UNCHANGED pending
  /\ UNCHANGED <<budgetVars, meterVars, guardVars, mainVars>>

(* finish_body_account, after the body was fulfilled or the response       *)
(* failed.                                                                 *)
FinishBody(r) ==
  /\ Step(r, "delivered", "done") \/ Step(r, "failing", "failed")
  /\ pending' = pending - 1
  /\ UNCHANGED <<budgetVars, meterVars, guardVars, mainVars>>

(* Faulty variant: without a timeout on its CDP calls, a body thread waits *)
(* for ever once the browser is gone.                                      *)
BodyThreadWhileAlive(r) ==
  /\ alive[RenderOf[r]]
  /\ \/ BodyError(r) \/ ReadMeter(r) \/ ChargeBody(r)
     \/ RaiseMeter(r) \/ Fulfill(r) \/ FinishBody(r)

BodyThread(r) ==
  \/ BodyError(r) \/ ReadMeter(r) \/ ChargeBody(r)
  \/ RaiseMeter(r) \/ Fulfill(r) \/ FinishBody(r)

-----------------------------------------------------------------------------
(* The rendering thread.  Its checks read flags that are never reset, so   *)
(* passing them one after another is passing them all when the first was   *)
(* read.                                                                   *)

Goto(from, to) ==
  /\ main = from
  /\ main' = to
  /\ UNCHANGED <<budgetVars, pending, st, meterVars, denied, hops, tooMany,
                 late, closing, round, expired>>

(* Any `?`: the browser handle is dropped and the scrape ends in an error. *)
Abort(from) ==
  /\ Goto(from, "error")
  /\ alive' = [alive EXCEPT ![round] = FALSE]
  /\ UNCHANGED cleanCut

(* The budget is looked at before a browser is launched.                   *)
Start ==
  \/ exceeded /\ Abort("start")
  \/ /\ ~exceeded
     /\ Goto("start", "navigate")
     /\ alive' = [alive EXCEPT ![round] = TRUE]
     /\ UNCHANGED cleanCut

(* Set-up and Page.navigate: once a document is committed, or not at all.  *)
Navigate ==
  \/ Abort("navigate")
  \/ /\ Loaded(round)
     /\ Goto("navigate", "check")
     /\ UNCHANGED <<alive, cleanCut>>

(* The head of settle_and_follow_redirects' loop.                          *)
Tripped == late[round] \/ tooMany[round] \/ exceeded \/ expired

SettleCheck ==
  \/ Tripped /\ Abort("check")
  \/ ~Tripped /\ Goto("check", "pending") /\ UNCHANGED <<alive, cleanCut>>

(* Faulty variant: the wait for body accounts has no deadline of its own.  *)
SettlePendingPatiently ==
  \/ pending > 0 /\ Goto("pending", "pending") /\ UNCHANGED <<alive, cleanCut>>
  \/ /\ pending = 0
     /\ Goto("pending", IF NetworkIdle THEN "probe" ELSE "settled")
     /\ UNCHANGED <<alive, cleanCut>>

(* Body accounts hold the settle back; then, unless the network need not   *)
(* be idle, the page is probed.                                            *)
SettlePending ==
  \/ /\ pending > 0 /\ expired
     /\ Abort("pending")
  \/ /\ pending > 0 /\ ~expired
     /\ Goto("pending", "check")
     /\ UNCHANGED <<alive, cleanCut>>
  \/ /\ pending = 0
     /\ Goto("pending", IF NetworkIdle THEN "probe" ELSE "settled")
     /\ UNCHANGED <<alive, cleanCut>>

(* What the page can see of its network is quiet.                          *)
Quiet(i) == \A r \in Request : RenderOf[r] = i =>
  \/ r \in Untracked
  \/ st[r] \notin {"asked", "accepted", "sent", "streaming", "body", "read",
                   "charged", "metered", "failing"}
  \/ st[r] = "streaming" /\ reported[r] = Size[r]

SettleProbe ==
  \/ /\ Quiet(round) /\ alive[round]
     /\ Goto("probe", "settled")
     /\ UNCHANGED <<alive, cleanCut>>
  \/ /\ expired
     /\ Abort("probe")
  \/ /\ ~expired
     /\ Goto("probe", "check")
     /\ UNCHANGED <<alive, cleanCut>>

(* Consent, scrolling and actions run between these checks; any of them    *)
(* may fail.                                                               *)
Gate ==
  \/ Abort("settled")
  \/ /\ ~exceeded /\ ~denied[round] /\ ~late[round] /\ ~tooMany[round]
     /\ ~expired
     /\ Goto("settled", "serialize")
     /\ UNCHANGED <<alive, cleanCut>>

(* The page is serialized in one CDP call.                                 *)
Serialize ==
  \/ Abort("serialize")
  \/ /\ alive[round]
     /\ Goto("serialize", "ensure")
     /\ cleanCut' = (cleanCut /\ ~exceeded)
     /\ UNCHANGED alive

(* Faulty variant: what was serialized is returned unlooked at.            *)
EnsureNothing ==
  /\ Goto("ensure", "ok")
  /\ alive' = [alive EXCEPT ![round] = FALSE]
  /\ UNCHANGED cleanCut

(* The budget is looked at once more; Ok drops the browser too.            *)
Ensure ==
  \/ exceeded /\ Abort("ensure")
  \/ /\ ~exceeded
     /\ Goto("ensure", "ok")
     /\ alive' = [alive EXCEPT ![round] = FALSE]
     /\ UNCHANGED cleanCut

(* The scrape's next render: a screenshot, a re-render or another page.    *)
NextRender ==
  /\ main = "ok" /\ round < Renders
  /\ main' = "start" /\ round' = round + 1
  /\ UNCHANGED <<budgetVars, pending, st, meterVars, guardVars, expired,
                 cleanCut>>

Expire ==
  /\ ~expired
  /\ expired' = TRUE
  /\ UNCHANGED <<budgetVars, pending, st, meterVars, guardVars, main, round,
                 cleanCut>>

Ended == main = "error" \/ (main = "ok" /\ round = Renders)
Stopped == Ended /\ UNCHANGED vars

MainStep ==
  \/ Start \/ Navigate \/ SettleCheck \/ SettlePending \/ SettleProbe
  \/ Gate \/ Serialize \/ Ensure \/ NextRender

RequestStep(r) ==
  \/ Ask(r) \/ Deny(r) \/ RefuseHop(r) \/ Accept(r)
  \/ Transmit(r) \/ PaceLate(r) \/ Block(r) \/ Respond(r)
  \/ \E n \in 1..Size[r] : DataReceived(r, n)
  \/ BodyThread(r)

Next ==
  \/ MainStep
  \/ \E r \in Request : RequestStep(r)
  \/ \E i \in Render : CloseTab(i)
  \/ Expire
  \/ Stopped

Spec == Init /\ [][Next]_vars

(* The rendering thread runs and its deadline comes; nothing is assumed of *)
(* the browser or of the threads that talk to it.                          *)
FairSpec == Spec /\ WF_vars(MainStep) /\ WF_vars(Expire)

(* Every CDP call of a body thread is bounded by the tab's timeout.        *)
BodyCallsReturn == \A r \in Request : WF_vars(BodyThread(r))

-----------------------------------------------------------------------------
InBody == {r \in Request : st[r] \in {"body", "read", "charged", "metered",
                                     "delivered", "failing"}}

TypeOK ==
  /\ count \in Nat /\ bytes \in Nat /\ exceeded \in BOOLEAN
  /\ pending \in Nat
  /\ st \in [Request -> {"none", "asked", "refused", "accepted", "unpaced",
       "sent", "blocked", "streaming", "body", "read", "charged", "metered",
       "delivered", "done", "failing", "failed"}]
  /\ meter \in [Request -> Nat \cup {NoMeter}]
  /\ already \in [Request -> Nat]
  /\ reported \in [Request -> Nat]
  /\ charged \in [Request -> Nat]
  /\ denied \in [Render -> BOOLEAN] /\ tooMany \in [Render -> BOOLEAN]
  /\ hops \in [Render -> Nat \cup {-1}]
  /\ late \in [Render -> BOOLEAN]
  /\ closing \in [Render -> BOOLEAN] /\ alive \in [Render -> BOOLEAN]
  /\ main \in {"start", "navigate", "check", "pending", "probe", "settled",
               "serialize", "ensure", "ok", "error"}
  /\ round \in Render
  /\ expired \in BOOLEAN /\ cleanCut \in BOOLEAN

(* The counter the settle loop waits on is exactly the number of body      *)
(* threads, through every failure path and every interleaving (lib.rs:713, *)
(* 728-731, 740-743, 764-768, 811): one missed decrement and no later      *)
(* render of the scrape settles, one too many and none waits.              *)
PendingIsExact == pending = Cardinality(InBody)

(* A materialized body reaches the page only after every byte of it was    *)
(* charged to the scrape's budget and, for a document, found within the    *)
(* document limit, whatever part dataReceived had charged before (lib.rs:  *)
(* 592-597, "before the page is allowed to consume them").                 *)
NoFreeBytes == \A r \in Materialized :
  st[r] \in {"charged", "metered", "delivered", "done"} =>
    /\ charged[r] >= Size[r]
    /\ r \in Document => Size[r] <= MaxDocumentBytes

(* The account of every body is opened, paid in full and closed exactly    *)
(* once, whatever fails in between (lib.rs:668-813).                       *)
BodyAccountsHold == PendingIsExact /\ NoFreeBytes

(* No interleaving of redirects with refusals lets a render put more top   *)
(* documents on the wire than its first and max_redirects hops (lib.rs:    *)
(* 529-548, 835-840).                                                      *)
OnWire(i) == {r \in TopDocument :
  RenderOf[r] = i /\ st[r] \notin {"none", "asked", "refused"}}

NavigationBounded ==
  FollowRedirects =>
    \A i \in Render : Cardinality(OnWire(i)) <= MaxRedirects + 1

(* A render that returns Ok was serialized while no cap was exceeded,      *)
(* although the budget can be exhausted by the event and body threads      *)
(* between any two of its steps (lib.rs:598-600, "without a partial        *)
(* proof").                                                                *)
CaptureWithinBudget == main = "ok" => cleanCut

(* Neither a navigation too many nor an exhausted budget is behind a page  *)
(* that a render returns (lib.rs:529-548, 1788-1838).                      *)
CapsHold == NavigationBounded /\ CaptureWithinBudget

(* A render ends by its deadline, even when the page never gets quiet and  *)
(* a body account never finishes (lib.rs:1636-1641, "rather than hanging").*)
RenderEnds == <>Ended

(* Body accounts do not outlive the CDP calls they wait for: the counter   *)
(* returns to zero and stays there (lib.rs:714-813).                       *)
AccountsDrain == BodyCallsReturn => <>[](pending = 0)

(* Every render ends, and so does every body account it opened             *)
(* (lib.rs:714-813, 1636-1641).                                            *)
RendersEnd == RenderEnds /\ AccountsDrain
=============================================================================
