------------------------------ MODULE FetchProof ------------------------------
(***************************************************************************)
(* Proofs about Fetch for any origins, any number of browser threads, any  *)
(* redirect cap and any deadline, and about Exchange, the bytes that carry *)
(* a request and a fetch, for any requests, plans, upstreams and origins.  *)
(***************************************************************************)
EXTENDS Fetch, Exchange, PositionsProof

FetchStep == {"idle", "check", "want", "sleep", "ready", "sent", "over"}
Link == [url : URL, location : URL]
Result == [final : URL, hops : Seq(Link), tls : Nat]

(* A document fetch is suspended exactly while robots.txt is consulted.    *)
LevelInv == \A t \in Thread :
  /\ step[t] = "check" => level[t] = "document"
  /\ level[t] = "robots" => outer[t] \in Frame

TypeInv == TypeOK /\ LevelInv

(* What a decision or a failure touches.                                   *)
ThreadType ==
  /\ hops \in Seq([url : URL, denied : BOOLEAN])
  /\ step \in [Thread -> FetchStep] /\ cleared \in [Thread -> URL \cup {Nothing}]
  /\ frame \in [Thread -> Frame] /\ outer \in [Thread -> Frame \cup {Nothing}]
  /\ level \in [Thread -> {"document", "robots", "asset"}]
  /\ LevelInv

-----------------------------------------------------------------------------
LEMMA Constants ==
  ASSUME options \in Scrape
  PROVE  /\ options.post \in BOOLEAN /\ options.delay \in Nat /\ options.pages \in Nat \ {0}
         /\ options \in Options /\ Seed \in URL /\ Seed.origin \in Origin
         /\ Main \in Thread /\ Browser \subseteq Thread /\ Main \notin Browser
         /\ DocumentURL \subseteq URL /\ Location \subseteq URL
         /\ MaxRedirects \in Nat /\ Deadline \in Nat /\ Horizon \in Nat
         /\ Nothing \notin Thread /\ Nothing \notin URL
  BY FetchAssumption DEF Options, URL, DocumentURL, Thread

LEMMA NewFrameType ==
  ASSUME options \in Scrape, NEW u \in URL
  PROVE  /\ NewFrame(u) \in Frame /\ NewFrame(u).url = u /\ NewFrame(u).hops = <<>>
         /\ NewFrame(u).home = Seed.origin
         /\ [NewFrame(u) EXCEPT !.get = TRUE, !.body = FALSE] \in Frame
         /\ [NewFrame(u) EXCEPT !.get = TRUE, !.body = FALSE].home = Seed.origin
  <1>1. <<>> \in Seq(Link)
    OBVIOUS
  <1>2. QED
    BY <1>1, Constants DEF NewFrame, Home, Frame, Link

LEMMA NextFrameType ==
  ASSUME TypeOK, NEW t \in Thread, NEW u \in URL, NEW toGet \in BOOLEAN
  PROVE  /\ NextFrame(t, u, toGet) \in Frame
         /\ NextFrame(t, u, toGet).url = u
         /\ NextFrame(t, u, toGet).home = frame[t].home
         /\ NextFrame(t, u, toGet).tls = Evidence(t)
         /\ NextFrame(t, u, toGet).hops = Append(frame[t].hops, [url |-> frame[t].url, location |-> u])
         /\ Evidence(t) \in Nat
  <1>1. frame[t] \in Frame /\ frame[t].hops \in Seq(Link) /\ frame[t].url \in URL
    BY DEF TypeOK, Frame, Link
  <1>2. Append(frame[t].hops, [url |-> frame[t].url, location |-> u]) \in Seq(Link)
    BY <1>1 DEF Link
  <1>3. Evidence(t) \in Nat
    BY <1>1 DEF Evidence, Frame
  <1>4. QED
    BY <1>1, <1>2, <1>3 DEF NextFrame, Frame, Link

(* A robots URL is a URL of the same origin.                               *)
LEMMA RobotsURL ==
  ASSUME NEW u \in URL
  PROVE  [u EXCEPT !.path = Robots] \in URL
  BY DEF URL

-----------------------------------------------------------------------------
(* Each action, by what it does to the frame of its thread.                *)

(* A decision gives the thread its document fetch back.                    *)
LEMMA DecideType ==
  ASSUME TypeInv, NEW t \in Thread, NEW denied \in BOOLEAN, level[t] = "robots", Decide(t, denied)
  PROVE  ThreadType' /\ got' = got /\ trail' = trail
  <1> USE DEF TypeInv, TypeOK, FetchStep, LevelInv, Decide
  <1>1. outer[t] \in Frame /\ outer[t].url \in URL
    BY DEF Frame
  <1>2. hops' \in Seq([url : URL, denied : BOOLEAN])
    <2>1. Hop(t, denied) \in [url : URL, denied : BOOLEAN]
      BY <1>1 DEF Hop
    <2>2. QED
      BY <2>1
  <1>3. step' \in [Thread -> FetchStep] /\ cleared' \in [Thread -> URL \cup {Nothing}]
    BY <1>1
  <1>4. frame' \in [Thread -> Frame] /\ outer' \in [Thread -> Frame \cup {Nothing}]
    BY <1>1
  <1>5. level' \in [Thread -> {"document", "robots", "asset"}] /\ got' = got /\ trail' = trail
    OBVIOUS
  <1>6. LevelInv'
    OBVIOUS
  <1>7. QED
    BY <1>2, <1>3, <1>4, <1>5, <1>6 DEF ThreadType

LEMMA FailType ==
  ASSUME TypeInv, NEW t \in Thread, NEW timeout \in BOOLEAN, Fail(t, timeout)
  PROVE  ThreadType' /\ got' = got /\ trail' = trail
  <1>1. CASE level[t] = "robots" /\ Decide(t, FALSE)
    BY <1>1, DecideType
  <1>2. CASE /\ step' = [step EXCEPT ![t] = "over"]
             /\ UNCHANGED <<fetchVars, hops, cleared, got, trail>>
    BY <1>2 DEF TypeInv, TypeOK, ThreadType, FetchStep, LevelInv, fetchVars
  <1>3. QED
    BY <1>1, <1>2 DEF Fail

LEMMA ReleaseType ==
  ASSUME TypeOK, NEW t \in Thread, NEW ok \in BOOLEAN, Release(t, ok)
  PROVE  /\ last' \in [Origin -> Nat \cup {-1}] /\ ended' \in [Origin -> Nat \cup {-1}]
         /\ holder' \in Thread \cup {Nothing}
  BY DEF TypeOK, Release

LEMMA InitType == Init => TypeInv
  <1> SUFFICES ASSUME Init PROVE TypeInv
    OBVIOUS
  <1> USE Constants DEF Init
  <1>1. /\ frame \in [Thread -> Frame]
    BY NewFrameType
  <1>2. /\ hops \in Seq([url : URL, denied : BOOLEAN]) /\ trail \in Seq(URL)
    OBVIOUS
  <1>3. QED
    BY <1>1, <1>2 DEF TypeInv, TypeOK, LevelInv

LEMMA BeginType ==
  ASSUME TypeInv, NEW t \in Thread, Begin(t)
  PROVE  TypeInv'
  <1> USE DEF TypeInv, pacerVars, fetchVars, mainVars
  <1>1. CASE Finish
    BY <1>1, Constants DEF Finish, TypeOK, LevelInv
  <1>2. ASSUME NEW u \in DocumentURL, BeginPage(u)
        PROVE  TypeInv'
    <2>1. frame' \in [Thread -> Frame]
      <3>1. NewFrame(u) \in Frame
        BY Constants, NewFrameType DEF TypeOK
      <3>2. QED
        BY <1>2, <3>1 DEF BeginPage, TypeOK
    <2>2. page' \in 0..options'.pages
      <3>1. page \in 0..options.pages /\ page < options.pages /\ page' = page + 1 /\ options' = options
        BY <1>2 DEF BeginPage, MorePages, TypeOK
      <3>2. options.pages \in Nat
        BY Constants DEF TypeOK
      <3>3. QED
        BY <3>1, <3>2
    <2>3. step' \in [Thread -> FetchStep] /\ level' \in [Thread -> {"document", "robots", "asset"}]
      BY <1>2 DEF BeginPage, FetchStep, TypeOK
    <2>4. LevelInv'
      BY <1>2 DEF BeginPage, LevelInv, TypeOK
    <2>5. trail' \in Seq(URL) /\ contacts' \in Nat /\ got' = Nothing
      BY <1>2 DEF BeginPage
    <2>6. QED
      BY <1>2, <2>1, <2>2, <2>3, <2>4, <2>5 DEF BeginPage, FetchStep, TypeOK
  <1>3. ASSUME NEW u \in DocumentURL, BeginRequest(t, u)
        PROVE  TypeInv'
    <2>1. frame' \in [Thread -> Frame]
      <3>1. [NewFrame(u) EXCEPT !.get = TRUE, !.body = FALSE] \in Frame
        BY Constants, NewFrameType DEF TypeOK
      <3>2. QED
        BY <1>3, <3>1 DEF BeginRequest, TypeOK
    <2>2. step' \in [Thread -> FetchStep] /\ level' \in [Thread -> {"document", "robots", "asset"}]
      BY <1>3 DEF BeginRequest, FetchStep, TypeOK
    <2>3. LevelInv'
      BY <1>3 DEF BeginRequest, LevelInv, TypeOK
    <2>4. QED
      BY <1>3, <2>1, <2>2, <2>3 DEF BeginRequest, FetchStep, TypeOK
  <1>4. QED
    BY <1>1, <1>2, <1>3 DEF Begin

LEMMA AdvanceType ==
  ASSUME TypeInv, NEW t \in Thread, Advance(t)
  PROVE  TypeInv'
  <1> USE Constants DEF TypeInv, pacerVars, fetchVars, mainVars
  <1>1. CASE Consult(t)
    <2>1. frame[t] \in Frame /\ NewFrame([frame[t].url EXCEPT !.path = Robots]) \in Frame
      BY NewFrameType, RobotsURL DEF TypeOK, Frame
    <2>2. QED
      BY <1>1, <2>1 DEF Consult, TypeOK, LevelInv
  <1>2. CASE IgnoreRobots(t)
    <2>1. frame[t].url \in URL /\ hops' \in Seq([url : URL, denied : BOOLEAN])
      BY <1>2 DEF IgnoreRobots, TypeOK, Frame
    <2>2. QED
      BY <1>2, <2>1 DEF IgnoreRobots, TypeOK, LevelInv
  <1>3. CASE UnsupportedScheme(t) \/ PacingDeadlineExceeded(t)
    BY <1>3, FailType DEF UnsupportedScheme, PacingDeadlineExceeded, TypeOK, ThreadType, FetchStep
  <1>4. CASE Unpaced(t) \/ Acquire(t) \/ WakeUp(t)
    BY <1>4, SMTT(40) DEF Unpaced, Acquire, WakeUp, TypeOK, LevelInv
  <1>5. CASE Send(t)
    <2>1. frame[t].url \in URL
      BY DEF TypeOK, Frame
    <2>2. trail' \in Seq(URL) /\ contacts' \in Nat
      BY <1>5, <2>1 DEF Send, TypeOK
    <2>3. QED
      BY <1>5, <2>2 DEF Send, TypeOK, LevelInv
  <1>6. ASSUME NEW timeout \in BOOLEAN, Broken(t, timeout)
        PROVE  TypeInv'
    <2>1. TypeOK /\ Release(t, FALSE) /\ Fail(t, timeout)
      BY <1>6 DEF Broken
    <2>2. UNCHANGED <<now, options, page, contacts>>
      BY <1>6 DEF Broken
    <2>3. /\ last' \in [Origin -> Nat \cup {-1}] /\ ended' \in [Origin -> Nat \cup {-1}]
          /\ holder' \in Thread \cup {Nothing}
      BY <2>1, ReleaseType
    <2>4. QED
      <3>1. ThreadType' /\ got' = got /\ trail' = trail
        BY <2>1, FailType
      <3>2. QED
        BY <2>2, <2>3, <3>1 DEF TypeOK, ThreadType, FetchStep
  <1>7. ASSUME NEW u \in Location, NEW toGet \in BOOLEAN, Redirected(t, u, toGet)
        PROVE  TypeInv'
    BY <1>7, NextFrameType, ReleaseType, ZenonT(40) DEF Redirected, AfterRedirect, TypeOK, LevelInv
  <1>8. CASE RedirectRefused(t)
    BY <1>8, FailType, ReleaseType DEF RedirectRefused, TypeOK, ThreadType, FetchStep
  <1>9. CASE Answered(t)
    <2>1. got' \in Result \cup {Nothing}
      BY <1>9, NextFrameType DEF Answered, TypeOK, Frame, Result, Link
    <2>2. QED
      BY <1>9, <2>1, ReleaseType DEF Answered, TypeOK, LevelInv, Result, Link
  <1>10. ASSUME NEW denied \in BOOLEAN, RobotsAnswered(t, denied)
         PROVE  TypeInv'
    <2>1. TypeOK /\ Release(t, TRUE) /\ Decide(t, denied) /\ level[t] = "robots"
      BY <1>10 DEF RobotsAnswered
    <2>2. UNCHANGED <<now, options, page, contacts>>
      BY <1>10 DEF RobotsAnswered
    <2>3. /\ last' \in [Origin -> Nat \cup {-1}] /\ ended' \in [Origin -> Nat \cup {-1}]
          /\ holder' \in Thread \cup {Nothing}
      BY <2>1, ReleaseType
    <2>4. QED
      <3>1. ThreadType' /\ got' = got /\ trail' = trail
        BY <2>1, DecideType
      <3>2. QED
        BY <2>2, <2>3, <3>1 DEF TypeOK, ThreadType, FetchStep
  <1>11. QED
    BY <1>1, <1>2, <1>3, <1>4, <1>5, <1>6, <1>7, <1>8, <1>9, <1>10 DEF Advance

LEMMA StepType == TypeInv /\ [Next]_vars => TypeInv'
  <1> SUFFICES ASSUME TypeInv, [Next]_vars PROVE TypeInv'
    OBVIOUS
  <1>1. CASE UNCHANGED vars
    BY <1>1 DEF vars, TypeInv, TypeOK, LevelInv, pacerVars, fetchVars, mainVars
  <1>2. CASE Tick
    BY <1>2 DEF Tick, TypeInv, TypeOK, LevelInv, pacerVars, fetchVars, mainVars
  <1>3. QED
    BY <1>1, <1>2, BeginType, AdvanceType DEF Next, Ended

-----------------------------------------------------------------------------
(* Whose credentials a fetch carries, and what let it out.                 *)

HomeInv == \A t \in Thread :
  /\ frame[t].home = Seed.origin
  /\ level[t] = "robots" => outer[t].home = Seed.origin

Cleared(t) == level[t] = "document" /\ step[t] \in {"want", "sleep", "ready", "sent"}
                => cleared[t] = frame[t].url
ClearedInv == \A t \in Thread : Cleared(t)

(* The document URL a thread is busy with is its own affair: no step of    *)
(* another thread moves anything of it.                                    *)
LEMMA ThreadFrame ==
  ASSUME TypeInv, NEW t \in Thread, Begin(t) \/ Advance(t)
  PROVE  /\ \A s \in Thread \ {t} :
              /\ step'[s] = step[s] /\ level'[s] = level[s] /\ frame'[s] = frame[s]
              /\ outer'[s] = outer[s] /\ cleared'[s] = cleared[s]
         /\ t # Main => UNCHANGED mainVars
         /\ options' = options /\ now' = now
  <1> USE DEF TypeInv, TypeOK, pacerVars, fetchVars, mainVars
  <1>1. ASSUME NEW denied \in BOOLEAN, Decide(t, denied)
        PROVE  \A s \in Thread \ {t} :
              /\ step'[s] = step[s] /\ level'[s] = level[s] /\ frame'[s] = frame[s]
              /\ outer'[s] = outer[s] /\ cleared'[s] = cleared[s]
    BY <1>1 DEF Decide
  <1>2. ASSUME NEW timeout \in BOOLEAN, Fail(t, timeout)
        PROVE  /\ \A s \in Thread \ {t} :
                   /\ step'[s] = step[s] /\ level'[s] = level[s] /\ frame'[s] = frame[s]
                   /\ outer'[s] = outer[s] /\ cleared'[s] = cleared[s]
               /\ got' = got /\ trail' = trail
    BY <1>1, <1>2 DEF Fail, Decide
  <1>3. CASE Begin(t)
    BY <1>3 DEF Begin, Finish, BeginPage, BeginRequest
  <1>4. CASE Consult(t) \/ IgnoreRobots(t)
    BY <1>4 DEF Consult, IgnoreRobots
  <1>5. CASE UnsupportedScheme(t) \/ PacingDeadlineExceeded(t) \/ RedirectRefused(t)
    BY <1>2, <1>5 DEF UnsupportedScheme, PacingDeadlineExceeded, RedirectRefused
  <1>6. CASE Unpaced(t) \/ Acquire(t) \/ WakeUp(t) \/ Send(t)
    BY <1>6 DEF Unpaced, Acquire, WakeUp, Send
  <1>7. CASE \E timeout \in BOOLEAN : Broken(t, timeout)
    BY <1>2, <1>7 DEF Broken
  <1>8. CASE \E u \in Location, toGet \in BOOLEAN : Redirected(t, u, toGet)
    BY <1>8 DEF Redirected
  <1>9. CASE Answered(t)
    BY <1>9 DEF Answered
  <1>10. CASE \E denied \in BOOLEAN : RobotsAnswered(t, denied)
    BY <1>1, <1>10 DEF RobotsAnswered, Decide
  <1>11. QED
    BY <1>3, <1>4, <1>5, <1>6, <1>7, <1>8, <1>9, <1>10 DEF Advance

(* What a decision gives back is the document that asked for it, cleared   *)
(* if it may go on.                                                        *)
LEMMA DecideClears ==
  ASSUME TypeInv, HomeInv, NEW t \in Thread, NEW denied \in BOOLEAN, level[t] = "robots", Decide(t, denied)
  PROVE  /\ frame'[t] = outer[t] /\ level'[t] = "document" /\ step'[t] \in {"want", "over"}
         /\ frame'[t].home = Seed.origin /\ Cleared(t)'
         /\ Len(hops') = Len(hops) + 1 /\ hops'[1] = IF hops = <<>> THEN Hop(t, denied) ELSE hops[1]
  <1>1. frame'[t] = outer[t] /\ level'[t] = "document" /\ step'[t] \in {"want", "over"}
    BY DEF Decide, TypeInv, TypeOK
  <1>2. Cleared(t)'
    BY DEF Decide, TypeInv, TypeOK, Cleared
  <1>3. hops' = Append(hops, Hop(t, denied)) /\ hops \in Seq([url : URL, denied : BOOLEAN])
        /\ Hop(t, denied) \in [url : URL, denied : BOOLEAN]
    BY DEF Decide, TypeInv, TypeOK, Hop, LevelInv, Frame
  <1>4. QED
    BY <1>1, <1>2, <1>3 DEF HomeInv

LEMMA FailClears ==
  ASSUME TypeInv, HomeInv, NEW t \in Thread, NEW timeout \in BOOLEAN, Fail(t, timeout)
  PROVE  /\ \/ /\ level[t] = "robots" /\ Decide(t, FALSE)
               /\ frame'[t] = outer[t] /\ level'[t] = "document" /\ step'[t] \in {"want", "over"}
            \/ frame'[t] = frame[t] /\ level'[t] = level[t] /\ step'[t] = "over"
               /\ outer'[t] = outer[t] /\ hops' = hops
         /\ Cleared(t)' /\ frame'[t].home = Seed.origin
         /\ level'[t] = "robots" => outer'[t].home = Seed.origin
  <1>1. CASE level[t] = "robots" /\ Decide(t, FALSE)
    BY <1>1, DecideClears
  <1>2. CASE /\ step' = [step EXCEPT ![t] = "over"]
             /\ UNCHANGED <<fetchVars, hops, cleared, got, trail>>
    BY <1>2 DEF TypeInv, TypeOK, Cleared, HomeInv, fetchVars
  <1>3. QED
    BY <1>1, <1>2 DEF Fail

LEMMA HomeAndClearance ==
  ASSUME TypeInv, HomeInv, ClearedInv, NEW t \in Thread, Begin(t) \/ Advance(t)
  PROVE  /\ frame'[t].home = Seed.origin
         /\ level'[t] = "robots" => outer'[t].home = Seed.origin
         /\ Cleared(t)'
  <1> USE DEF pacerVars, fetchVars, mainVars
  <1>1. HomeInv /\ Cleared(t) /\ TypeOK /\ LevelInv /\ frame[t].url \in URL
    BY DEF ClearedInv, TypeInv, TypeOK, Frame
  <1>2. CASE Begin(t)
    <2>1. CASE Finish
      BY <1>1, <2>1 DEF Finish, Cleared, HomeInv, TypeOK
    <2>2. ASSUME NEW u \in DocumentURL, BeginPage(u)
          PROVE  Cleared(Main)' /\ frame'[Main].home = Seed.origin /\ level'[Main] = "document"
      <3>1. NewFrame(u).home = Seed.origin
        BY <1>1, Constants, NewFrameType DEF TypeOK
      <3>2. QED
        BY <1>1, <2>2, <3>1, Constants DEF BeginPage, Cleared, TypeOK
    <2>3. ASSUME NEW u \in DocumentURL, BeginRequest(t, u)
          PROVE  Cleared(t)' /\ frame'[t].home = Seed.origin /\ level'[t] # "robots"
      <3>1. [NewFrame(u) EXCEPT !.get = TRUE, !.body = FALSE].home = Seed.origin
        BY <1>1, Constants, NewFrameType DEF TypeOK
      <3>2. QED
        BY <1>1, <2>3, <3>1 DEF BeginRequest, Cleared, TypeOK
    <2>4. QED
      BY <1>2, <2>1, <2>2, <2>3 DEF Begin
  <1>3. CASE Consult(t)
    BY <1>1, <1>3, RobotsURL, NewFrameType DEF Consult, Cleared, HomeInv, TypeOK
  <1>4. CASE IgnoreRobots(t)
    BY <1>1, <1>4 DEF IgnoreRobots, Cleared, HomeInv, TypeOK
  <1>5. CASE UnsupportedScheme(t) \/ PacingDeadlineExceeded(t) \/ RedirectRefused(t)
    BY <1>5, FailClears DEF UnsupportedScheme, PacingDeadlineExceeded, RedirectRefused
  <1>6. CASE Unpaced(t) \/ Acquire(t) \/ WakeUp(t) \/ Send(t)
    BY <1>1, <1>6 DEF Unpaced, Acquire, WakeUp, Send, Cleared, HomeInv, TypeOK
  <1>7. ASSUME NEW timeout \in BOOLEAN, Broken(t, timeout)
        PROVE  /\ Cleared(t)' /\ frame'[t].home = Seed.origin
               /\ level'[t] = "robots" => outer'[t].home = Seed.origin
    BY <1>7, FailClears DEF Broken
  <1>8. ASSUME NEW u \in Location, NEW toGet \in BOOLEAN, Redirected(t, u, toGet)
        PROVE  /\ Cleared(t)' /\ frame'[t].home = Seed.origin
               /\ level'[t] = "robots" => outer'[t].home = Seed.origin
    <2>1. NextFrame(t, u, toGet).home = Seed.origin
      <3>1. u \in URL
        BY <1>1, Constants DEF TypeOK
      <3>2. NextFrame(t, u, toGet).home = frame[t].home
        BY <1>1, <3>1, NextFrameType
      <3>3. QED
        BY <1>1, <3>2 DEF HomeInv
    <2>2. QED
      BY <1>1, <1>8, <2>1 DEF Redirected, AfterRedirect, Cleared, HomeInv, TypeOK
  <1>9. CASE Answered(t)
    BY <1>1, <1>9 DEF Answered, Cleared, HomeInv, TypeOK
  <1>10. ASSUME NEW denied \in BOOLEAN, RobotsAnswered(t, denied)
         PROVE  /\ Cleared(t)' /\ frame'[t].home = Seed.origin
                /\ level'[t] = "robots" => outer'[t].home = Seed.origin
    BY <1>10, DecideClears DEF RobotsAnswered
  <1>11. QED
    BY <1>2, <1>3, <1>4, <1>5, <1>6, <1>7, <1>8, <1>9, <1>10 DEF Advance

LEMMA HomeInit == Init => HomeInv /\ ClearedInv
  <1> SUFFICES ASSUME Init PROVE HomeInv /\ ClearedInv
    OBVIOUS
  <1>1. NewFrame(Seed).home = Seed.origin
    BY Constants, NewFrameType DEF Init
  <1>2. QED
    BY <1>1 DEF Init, HomeInv, ClearedInv, Cleared

LEMMA HomeStep == TypeInv /\ HomeInv /\ ClearedInv /\ [Next]_vars => HomeInv' /\ ClearedInv'
  <1> SUFFICES ASSUME TypeInv, HomeInv, ClearedInv, [Next]_vars PROVE HomeInv' /\ ClearedInv'
    OBVIOUS
  <1>1. CASE Tick \/ UNCHANGED vars
    BY <1>1 DEF Tick, vars, HomeInv, ClearedInv, Cleared, pacerVars, fetchVars, mainVars
  <1>2. ASSUME NEW t \in Thread, Begin(t) \/ Advance(t)
        PROVE  HomeInv' /\ ClearedInv'
    <2>1. \A s \in Thread \ {t} : /\ frame'[s].home = Seed.origin
                                  /\ level'[s] = "robots" => outer'[s].home = Seed.origin
                                  /\ Cleared(s)'
      BY <1>2, ThreadFrame DEF HomeInv, ClearedInv, Cleared
    <2>2. QED
      BY <1>2, <2>1, HomeAndClearance DEF HomeInv, ClearedInv
  <1>3. QED
    BY <1>1, <1>2 DEF Next, Ended

(* A fetch carries the caller's headers to the origin the scrape was asked *)
(* for, whatever the redirects, the pages and the browser's requests       *)
(* (fetch.rs:133-147).                                                     *)
THEOREM CredentialsAreHome == Spec => []CredentialsStayHome
  <1>1. Init => TypeInv /\ HomeInv /\ ClearedInv
    BY InitType, HomeInit
  <1>2. TypeInv /\ HomeInv /\ ClearedInv /\ [Next]_vars => TypeInv' /\ HomeInv' /\ ClearedInv'
    BY StepType, HomeStep
  <1>3. HomeInv => CredentialsStayHome
    BY DEF HomeInv, CredentialsStayHome, SendsCallerHeaders
  <1>4. QED
    BY <1>1, <1>2, <1>3, PTL DEF Spec

-----------------------------------------------------------------------------
(* The pacer: who transmits, or is about to, has the mutex, and what it    *)
(* waited for is still so when it sends.                                   *)

Paced == options.delay > 0
Critical(t) == step[t] \in {"sleep", "ready", "sent"}
Due(t) == ended[Target(t)] = -1 \/ now - ended[Target(t)] >= options.delay

PaceInv == Paced =>
  /\ ended = last
  /\ \A t \in Thread : Critical(t) => holder = t
  /\ \A t \in Thread : step[t] = "ready" => Due(t)

LEMMA DecidePace ==
  ASSUME TypeInv, NEW t \in Thread, NEW denied \in BOOLEAN, Decide(t, denied)
  PROVE  step'[t] \in {"want", "over"}
  BY DEF TypeInv, TypeOK, Decide

LEMMA FailPace ==
  ASSUME TypeInv, NEW t \in Thread, NEW timeout \in BOOLEAN, Fail(t, timeout)
  PROVE  step'[t] \in {"want", "over"}
  BY DecidePace DEF TypeInv, TypeOK, Fail

(* A step that leaves the pacer alone, by a thread that has not the mutex. *)
LEMMA Bystander ==
  ASSUME TypeInv, PaceInv, NEW t \in Thread, Begin(t) \/ Advance(t),
         UNCHANGED pacerVars, ~Critical(t)'
  PROVE  PaceInv'
  <1> SUFFICES ASSUME Paced' PROVE PaceInv'
    BY DEF PaceInv
  <1>1. Paced /\ options' = options /\ now' = now /\ last' = last /\ ended' = ended /\ holder' = holder
    BY ThreadFrame DEF Paced, pacerVars
  <1>2. ASSUME NEW s \in Thread, Critical(s)'
        PROVE  s # t /\ step'[s] = step[s] /\ frame'[s] = frame[s] /\ Critical(s)
    BY <1>2, ThreadFrame DEF Critical
  <1>3. QED
    BY <1>1, <1>2 DEF PaceInv, Critical, Due, Target

(* The thread that transmitted gives the mutex back.                       *)
LEMMA GivesBack ==
  ASSUME TypeInv, PaceInv, NEW t \in Thread, Begin(t) \/ Advance(t), NEW ok \in BOOLEAN,
         Release(t, ok), Critical(t), ~Critical(t)'
  PROVE  PaceInv'
  <1> SUFFICES ASSUME Paced' PROVE PaceInv'
    BY DEF PaceInv
  <1>1. Paced /\ options' = options /\ now' = now /\ holder' = Nothing /\ ended' = last'
    BY ThreadFrame DEF Paced, Release, PaceInv, TypeInv, TypeOK
  <1>2. ASSUME NEW s \in Thread PROVE ~Critical(s)'
    <2>1. CASE s = t
      BY <2>1
    <2>2. CASE s # t
      BY <1>1, <2>2, ThreadFrame DEF PaceInv, Critical
    <2>3. QED
      BY <2>1, <2>2
  <1>3. QED
    BY <1>1, <1>2 DEF PaceInv, Critical

LEMMA PaceStep ==
  ASSUME TypeInv, PaceInv, NEW t \in Thread, Begin(t) \/ Advance(t)
  PROVE  PaceInv'
  <1> USE DEF pacerVars
  <1>1. CASE Begin(t)
    <2>1. ~Critical(t)'
      <3>1. CASE t = Main /\ Finish
        BY <3>1 DEF Finish, Critical, TypeInv, TypeOK
      <3>2. CASE t = Main /\ \E u \in DocumentURL : BeginPage(u)
        BY <3>2 DEF BeginPage, Critical, TypeInv, TypeOK
      <3>3. CASE \E u \in DocumentURL : BeginRequest(t, u)
        BY <3>3, SMTT(40) DEF BeginRequest, Critical, TypeInv, TypeOK
      <3>4. QED
        BY <1>1, <3>1, <3>2, <3>3 DEF Begin
    <2>2. UNCHANGED pacerVars
      BY <1>1 DEF Begin, Finish, BeginPage, BeginRequest
    <2>3. QED
      BY <2>1, <2>2, Bystander
  <1>2. CASE Consult(t) \/ IgnoreRobots(t) \/ UnsupportedScheme(t) \/ PacingDeadlineExceeded(t)
    <2>1. ~Critical(t)'
      BY <1>2, FailPace
         DEF Consult, IgnoreRobots, UnsupportedScheme, PacingDeadlineExceeded, Critical, TypeInv, TypeOK
    <2>2. UNCHANGED pacerVars
      BY <1>2 DEF Consult, IgnoreRobots, UnsupportedScheme, PacingDeadlineExceeded
    <2>3. QED
      BY <2>1, <2>2, Bystander
  <1>3. CASE Unpaced(t)
    BY <1>3, ThreadFrame DEF Unpaced, PaceInv, Paced
  <1>4. CASE Acquire(t)
    <2> SUFFICES ASSUME Paced' PROVE PaceInv'
      BY DEF PaceInv
    <2>1. /\ Paced /\ options' = options /\ now' = now /\ last' = last /\ ended' = ended
          /\ holder = Nothing /\ holder' = t /\ frame' = frame
      BY <1>4 DEF Acquire, Paced, fetchVars
    <2>2. ASSUME NEW s \in Thread, s # t PROVE ~Critical(s)'
      BY <2>1, <2>2, ThreadFrame, Constants DEF PaceInv, Critical, TypeInv, TypeOK
    <2>3. step'[t] = "ready" => Due(t)'
      <3>1. step'[t] = "ready" => ~Owed(t)
        BY <1>4 DEF Acquire, TypeInv, TypeOK
      <3>2. ended[Target(t)] \in Nat \cup {-1} /\ now \in Nat /\ options.delay \in Nat
        BY Constants DEF TypeInv, TypeOK, Target, Frame, URL
      <3>3. QED
        BY <2>1, <3>1, <3>2 DEF Owed, Due, Target, PaceInv
    <2>4. QED
      BY <2>1, <2>2, <2>3 DEF PaceInv, Critical
  <1>5. CASE WakeUp(t)
    <2> SUFFICES ASSUME Paced' PROVE PaceInv'
      BY DEF PaceInv
    <2>1. /\ Paced /\ options' = options /\ now' = now /\ last' = last /\ ended' = ended
          /\ holder' = holder /\ frame' = frame
      BY <1>5 DEF WakeUp, Paced, fetchVars
    <2>2. Due(t)'
      <3>1. ended[Target(t)] \in Nat \cup {-1} /\ now \in Nat /\ options.delay \in Nat
        BY Constants DEF TypeInv, TypeOK, Target, Frame, URL
      <3>2. QED
        BY <1>5, <2>1, <3>1 DEF WakeUp, Owed, Due, Target, PaceInv
    <2>3. ASSUME NEW s \in Thread, s # t PROVE step'[s] = step[s]
      BY <2>3, ThreadFrame
    <2>4. Critical(t)
      BY <1>5 DEF WakeUp, Critical
    <2>5. QED
      BY <2>1, <2>2, <2>3, <2>4 DEF PaceInv, Critical, Due, Target
  <1>6. CASE Send(t)
    <2> SUFFICES ASSUME Paced' PROVE PaceInv'
      BY DEF PaceInv
    <2>1. /\ Paced /\ options' = options /\ now' = now /\ last' = last /\ ended' = ended
          /\ holder' = holder /\ frame' = frame
      BY <1>6 DEF Send, Paced, fetchVars
    <2>2. step[t] = "ready" /\ step'[t] = "sent"
      BY <1>6 DEF Send, TypeInv, TypeOK
    <2>3. ASSUME NEW s \in Thread, s # t PROVE step'[s] = step[s]
      BY <2>3, ThreadFrame
    <2>4. QED
      BY <2>1, <2>2, <2>3 DEF PaceInv, Critical, Due, Target
  <1>7. ASSUME NEW timeout \in BOOLEAN, Broken(t, timeout)
        PROVE  PaceInv'
    <2>1. Release(t, FALSE) /\ Critical(t) /\ ~Critical(t)'
      BY <1>7, FailPace DEF Broken, Critical
    <2>2. QED
      BY <2>1, GivesBack
  <1>8. ASSUME NEW u \in Location, NEW toGet \in BOOLEAN, Redirected(t, u, toGet)
        PROVE  PaceInv'
    <2>1. Release(t, TRUE) /\ Critical(t) /\ ~Critical(t)'
      BY <1>8 DEF Redirected, AfterRedirect, Critical, TypeInv, TypeOK
    <2>2. QED
      BY <2>1, GivesBack
  <1>9. CASE RedirectRefused(t) \/ Answered(t)
    <2>1. Release(t, TRUE) /\ Critical(t) /\ ~Critical(t)'
      BY <1>9, FailPace DEF RedirectRefused, Answered, Critical, TypeInv, TypeOK
    <2>2. QED
      BY <2>1, GivesBack
  <1>10. ASSUME NEW denied \in BOOLEAN, RobotsAnswered(t, denied)
         PROVE  PaceInv'
    <2>1. Release(t, TRUE) /\ Critical(t) /\ ~Critical(t)'
      BY <1>10, DecidePace DEF RobotsAnswered, Critical
    <2>2. QED
      BY <2>1, GivesBack
  <1>11. QED
    BY <1>1, <1>2, <1>3, <1>4, <1>5, <1>6, <1>7, <1>8, <1>9, <1>10 DEF Advance

LEMMA PaceInit == Init => PaceInv
  BY DEF Init, PaceInv, Critical

LEMMA PaceNext == TypeInv /\ PaceInv /\ [Next]_vars => PaceInv'
  <1> SUFFICES ASSUME TypeInv, PaceInv, [Next]_vars PROVE PaceInv'
    OBVIOUS
  <1>1. CASE Tick
    <2> SUFFICES ASSUME Paced' PROVE PaceInv'
      BY DEF PaceInv
    <2>1. /\ Paced /\ UNCHANGED <<options, pacerVars, step, fetchVars>> /\ now' = now + 1
      BY <1>1 DEF Tick, Paced
    <2>2. \A t \in Thread : ended[Target(t)] \in Nat \cup {-1} /\ now \in Nat /\ options.delay \in Nat
      BY Constants DEF TypeInv, TypeOK, Target, Frame, URL
    <2>3. QED
      BY <2>1, <2>2 DEF PaceInv, Critical, Due, Target, pacerVars, fetchVars
  <1>2. CASE UNCHANGED vars
    BY <1>2 DEF vars, PaceInv, Paced, Critical, Due, Target, pacerVars, fetchVars
  <1>3. QED
    BY <1>1, <1>2, PaceStep DEF Next, Ended

LEMMA PaceLeaves ==
  ASSUME TypeInv, PaceInv, NEW t \in Thread, Leaves(t), options.delay > 0
  PROVE  /\ ended[Target(t)] = -1 \/ now - ended[Target(t)] >= options.delay
         /\ \A s \in Thread \ {t} : ~(step[s] = "sent" /\ Target(s) = Target(t))
  BY DEF Leaves, PaceInv, Paced, Critical, Due

(* Between the end of one request to an origin and the start of the next   *)
(* there is the crawl delay, for any number of threads and any clock       *)
(* (OriginPacer, lib.rs:443-448).                                          *)
THEOREM PacingIsKept == Spec => PacingFloor
  <1>1. Init => TypeInv /\ PaceInv
    BY InitType, PaceInit
  <1>2. TypeInv /\ PaceInv /\ [Next]_vars => TypeInv' /\ PaceInv'
    BY StepType, PaceNext
  <1>3. TypeInv /\ PaceInv /\ [Next]_vars =>
          [\A t \in Thread : Leaves(t) /\ options.delay > 0 =>
             /\ ended[Target(t)] = -1 \/ now - ended[Target(t)] >= options.delay
             /\ \A s \in Thread \ {t} : ~(step[s] = "sent" /\ Target(s) = Target(t))]_vars
    BY PaceLeaves
  <1>4. QED
    BY <1>1, <1>2, <1>3, PTL DEF Spec, PacingFloor

-----------------------------------------------------------------------------
(* What a page fetch may cost: each document hop, one request of its own   *)
(* and those of its robots consultation, which may redirect as often.      *)

Cost(n) == n * (MaxRedirects + 2)
Working == step[Main] \notin {"idle", "over"}

(* What the current document hop has cost so far.                          *)
HopCost ==
  IF level[Main] = "robots" /\ step[Main] = "sent" THEN Len(frame[Main].hops) + 1
  ELSE IF level[Main] = "robots" THEN Len(frame[Main].hops)
  ELSE IF step[Main] = "check" THEN 0
  ELSE IF step[Main] = "sent" THEN MaxRedirects + 2
  ELSE MaxRedirects + 1
Document == IF level[Main] = "robots" THEN outer[Main] ELSE frame[Main]

ContactInv ==
  /\ level[Main] # "asset"
  /\ ContactsAreBounded
  /\ Working => /\ Len(frame[Main].hops) <= MaxRedirects
                /\ Len(Document.hops) <= MaxRedirects
                /\ contacts <= Cost(Len(Document.hops)) + HopCost

LEMMA Costs ==
  ASSUME NEW n \in Nat, n <= MaxRedirects
  PROVE  /\ Cost(n) \in Nat /\ Cost(0) = 0
         /\ Cost(n + 1) = Cost(n) + MaxRedirects + 2
         /\ Cost(n) + MaxRedirects + 2 <= (MaxRedirects + 1) * (MaxRedirects + 2)
  <1> DEFINE R == MaxRedirects + 2
  <1>1. MaxRedirects \in Nat /\ R \in Nat
    BY FetchAssumption
  <1>2. n * R \in Nat /\ 0 * R = 0 /\ (n + 1) * R = n * R + R
    BY <1>1
  <1>3. (n + 1) * R <= (MaxRedirects + 1) * R
    <2>1. \A a, b, c \in Nat : a <= b => a * c <= b * c
      OBVIOUS
    <2>2. QED
      BY <1>1, <2>1
  <1>4. QED
    BY <1>1, <1>2, <1>3 DEF Cost

(* The numbers a page fetch counts in.                                     *)
LEMMA Counts ==
  ASSUME TypeInv, level[Main] # "asset"
  PROVE  /\ Len(frame[Main].hops) \in Nat /\ Len(Document.hops) \in Nat
         /\ contacts \in Nat /\ MaxRedirects \in Nat /\ HopCost \in Nat
         /\ Document \in Frame
  <1>1. frame[Main] \in Frame /\ Document \in Frame
    BY Constants DEF TypeInv, TypeOK, LevelInv, Document
  <1>2. \A f \in Frame : Len(f.hops) \in Nat
    BY DEF Frame
  <1>3. contacts \in Nat /\ MaxRedirects \in Nat
    BY Constants DEF TypeInv, TypeOK
  <1>4. Len(frame[Main].hops) \in Nat
    BY <1>1, <1>2
  <1>5. HopCost \in Nat
    <2>1. HopCost \in {Len(frame[Main].hops), Len(frame[Main].hops) + 1, 0, MaxRedirects + 1, MaxRedirects + 2}
      BY <1>4 DEF HopCost
    <2>2. QED
      BY <1>3, <1>4, <2>1
  <1>6. QED
    BY <1>1, <1>2, <1>3, <1>4, <1>5

LEMMA DecideContact ==
  ASSUME TypeInv, ContactInv, Working, NEW denied \in BOOLEAN, level[Main] = "robots",
         Decide(Main, denied), contacts' = contacts
  PROVE  ContactInv'
  <1>1. Main \in Thread /\ step'[Main] \in {"want", "over"} /\ level'[Main] = "document"
        /\ frame'[Main] = outer[Main]
    BY Constants DEF Decide, TypeInv, TypeOK
  <1>2. Document' = Document /\ Document = outer[Main] /\ HopCost' = MaxRedirects + 1
    BY <1>1 DEF Document, HopCost
  <1>3. HopCost <= MaxRedirects + 1
    <2>1. Len(frame[Main].hops) \in Nat /\ MaxRedirects \in Nat /\ Len(frame[Main].hops) <= MaxRedirects
      BY Counts DEF ContactInv
    <2>2. HopCost \in {Len(frame[Main].hops), Len(frame[Main].hops) + 1}
      BY <2>1 DEF HopCost
    <2>3. QED
      BY <2>1, <2>2
  <1>4. Cost(Len(Document.hops)) \in Nat
    BY Counts, Costs DEF ContactInv
  <1>5. contacts <= Cost(Len(Document.hops)) + MaxRedirects + 1
    BY <1>3, <1>4, Counts DEF ContactInv
  <1>6. QED
    BY <1>1, <1>2, <1>4, <1>5, Counts DEF ContactInv, ContactsAreBounded

LEMMA FailContact ==
  ASSUME TypeInv, ContactInv, Working, NEW timeout \in BOOLEAN, Fail(Main, timeout), contacts' = contacts
  PROVE  ContactInv'
  <1>1. CASE level[Main] = "robots" /\ Decide(Main, FALSE)
    BY <1>1, DecideContact
  <1>2. CASE step' = [step EXCEPT ![Main] = "over"] /\ UNCHANGED fetchVars
    BY <1>2, Constants DEF ContactInv, ContactsAreBounded, Working, fetchVars, TypeInv, TypeOK
  <1>3. QED
    BY <1>1, <1>2 DEF Fail

LEMMA ContactStep ==
  ASSUME TypeInv, ContactInv, Begin(Main) \/ Advance(Main)
  PROVE  ContactInv'
  <1> USE DEF fetchVars, mainVars
  <1>1. Main \in Thread /\ Main \notin Browser
    BY Constants DEF TypeInv, TypeOK
  <1>2. /\ step \in [Thread -> FetchStep] /\ frame[Main] \in Frame
        /\ frame \in [Thread -> Frame] /\ level \in [Thread -> {"document", "robots", "asset"}]
        /\ outer \in [Thread -> Frame \cup {Nothing}] /\ frame[Main].url \in URL
        /\ options \in Scrape
    BY <1>1 DEF TypeInv, TypeOK, FetchStep, Frame
  <1>3. /\ Len(frame[Main].hops) \in Nat /\ Len(Document.hops) \in Nat
        /\ contacts \in Nat /\ MaxRedirects \in Nat /\ HopCost \in Nat
    BY Counts DEF ContactInv
  <1>4. Cost(0) = 0 /\ 0 <= (MaxRedirects + 1) * (MaxRedirects + 2)
    BY <1>3, Costs
  <1>5. Len(Document.hops) <= MaxRedirects => Cost(Len(Document.hops)) \in Nat
    BY <1>3, Costs
  <1>6. CASE Finish
    BY <1>1, <1>2, <1>6 DEF Finish, ContactInv, ContactsAreBounded, Working
  <1>7. ASSUME NEW u \in DocumentURL, BeginPage(u)
        PROVE  ContactInv'
    <2>1. NewFrame(u).hops = <<>>
      BY <1>2, Constants, NewFrameType
    <2>2. /\ frame'[Main] = NewFrame(u) /\ level'[Main] = "document" /\ step'[Main] = "check"
          /\ contacts' = 0
      BY <1>1, <1>2, <1>7 DEF BeginPage
    <2>3. Document'.hops = <<>> /\ HopCost' = 0
      BY <2>1, <2>2 DEF Document, HopCost
    <2>4. QED
      BY <1>3, <1>4, <2>1, <2>2, <2>3 DEF ContactInv, ContactsAreBounded
  <1>8. CASE Consult(Main)
    <2>1. NewFrame([frame[Main].url EXCEPT !.path = Robots]).hops = <<>>
      BY <1>2, RobotsURL, NewFrameType
    <2>2. /\ frame'[Main] = NewFrame([frame[Main].url EXCEPT !.path = Robots]) /\ level'[Main] = "robots"
          /\ step'[Main] = "want" /\ outer'[Main] = frame[Main] /\ contacts' = contacts
          /\ step[Main] = "check" /\ level[Main] = "document"
      BY <1>1, <1>2, <1>8 DEF Consult, TypeInv, LevelInv
    <2>3. Document' = Document /\ HopCost' = 0 /\ HopCost = 0 /\ Working
      BY <2>1, <2>2 DEF Document, HopCost, Working
    <2>4. QED
      BY <1>3, <2>1, <2>2, <2>3 DEF ContactInv, ContactsAreBounded
  <1>9. CASE IgnoreRobots(Main)
    <2>1. /\ step'[Main] = "want" /\ step[Main] = "check" /\ UNCHANGED <<fetchVars, contacts>>
      BY <1>1, <1>2, <1>9 DEF IgnoreRobots
    <2>2. Document' = Document /\ HopCost = 0 /\ HopCost' = MaxRedirects + 1 /\ Working
          /\ level[Main] = "document"
      BY <1>1, <2>1 DEF Document, HopCost, Working, TypeInv, LevelInv
    <2>3. QED
      BY <1>3, <1>5, <2>1, <2>2 DEF ContactInv, ContactsAreBounded
  <1>10. CASE UnsupportedScheme(Main) \/ PacingDeadlineExceeded(Main)
    BY <1>10, FailContact DEF UnsupportedScheme, PacingDeadlineExceeded, Working
  <1>11. CASE Unpaced(Main) \/ Acquire(Main) \/ WakeUp(Main)
    <2>1. /\ step'[Main] \in {"sleep", "ready"} /\ step[Main] \in {"want", "sleep"}
          /\ UNCHANGED <<fetchVars, contacts>>
      BY <1>1, <1>2, <1>11 DEF Unpaced, Acquire, WakeUp
    <2>2. Document' = Document /\ HopCost' = HopCost /\ Working
      BY <2>1 DEF Document, HopCost, Working
    <2>3. QED
      BY <2>1, <2>2 DEF ContactInv, ContactsAreBounded
  <1>12. CASE Send(Main)
    <2>1. /\ step'[Main] = "sent" /\ step[Main] = "ready" /\ UNCHANGED fetchVars
          /\ contacts' = contacts + 1
      BY <1>1, <1>2, <1>12 DEF Send
    <2>2. Document' = Document /\ HopCost' = HopCost + 1 /\ Working
      BY <1>3, <2>1 DEF Document, HopCost, Working
    <2>3. HopCost + 1 <= MaxRedirects + 2
      BY <1>3, <2>1 DEF HopCost, ContactInv, Working
    <2>4. contacts + 1 <= (MaxRedirects + 1) * (MaxRedirects + 2)
      <3>1. Cost(Len(Document.hops)) + MaxRedirects + 2 <= (MaxRedirects + 1) * (MaxRedirects + 2)
        BY <1>3, <2>2, Costs DEF ContactInv
      <3>2. (MaxRedirects + 1) * (MaxRedirects + 2) \in Nat
        BY <1>3
      <3>3. QED
        BY <1>3, <1>5, <2>2, <2>3, <3>1, <3>2 DEF ContactInv
    <2>5. contacts' <= Cost(Len(Document.hops)) + HopCost'
      BY <1>3, <1>5, <2>1, <2>2 DEF ContactInv
    <2>6. QED
      BY <2>1, <2>2, <2>4, <2>5 DEF ContactInv, ContactsAreBounded
  <1>13. ASSUME NEW timeout \in BOOLEAN, Broken(Main, timeout)
         PROVE  ContactInv'
    BY <1>13, FailContact DEF Broken, Working
  <1>14. ASSUME NEW u \in Location, NEW toGet \in BOOLEAN, Redirected(Main, u, toGet)
         PROVE  ContactInv'
    <2>1. /\ step[Main] = "sent" /\ Len(frame[Main].hops) < MaxRedirects
          /\ frame'[Main] = NextFrame(Main, u, toGet) /\ step'[Main] = AfterRedirect(Main)
          /\ UNCHANGED <<outer, level, contacts>>
      BY <1>1, <1>2, <1>14 DEF Redirected, MayFollow
    <2>2. Len(frame'[Main].hops) = Len(frame[Main].hops) + 1
      <3>1. u \in URL
        BY <1>2, Constants
      <3>2. NextFrame(Main, u, toGet).hops = Append(frame[Main].hops, [url |-> frame[Main].url, location |-> u])
        BY <1>1, <3>1, NextFrameType DEF TypeInv
      <3>3. frame[Main].hops \in Seq(Link)
        BY <1>2 DEF Frame, Link
      <3>4. [url |-> frame[Main].url, location |-> u] \in Link
        BY <1>2, <3>1 DEF Link
      <3>5. QED
        BY <2>1, <3>2, <3>3, <3>4
    <2>3. CASE level[Main] = "robots"
      <3>1. Document' = Document /\ HopCost = Len(frame[Main].hops) + 1 /\ HopCost' = HopCost /\ Working
        BY <1>3, <2>1, <2>2, <2>3 DEF Document, HopCost, AfterRedirect, Working
      <3>2. QED
        BY <1>3, <2>1, <2>2, <2>3, <3>1, SMTT(40) DEF ContactInv, ContactsAreBounded
    <2>4. CASE level[Main] = "document"
      <3>1. /\ Document' = frame'[Main] /\ Document = frame[Main] /\ HopCost = MaxRedirects + 2
            /\ HopCost' = 0 /\ Working
        BY <1>3, <2>1, <2>4 DEF Document, HopCost, AfterRedirect, Working
      <3>2. Cost(Len(frame'[Main].hops)) = Cost(Len(frame[Main].hops)) + MaxRedirects + 2
            /\ Cost(Len(frame[Main].hops)) \in Nat
        <4> DEFINE n == Len(frame[Main].hops)
        <4>1. n \in Nat /\ n <= MaxRedirects /\ Len(frame'[Main].hops) = n + 1
          BY <1>3, <2>1, <2>2
        <4>2. Cost(n) \in Nat /\ Cost(n + 1) = Cost(n) + MaxRedirects + 2
          BY <4>1, Costs
        <4>3. QED
          BY <4>1, <4>2
      <3>3. contacts <= Cost(Len(frame'[Main].hops)) + HopCost'
        BY <1>3, <3>1, <3>2 DEF ContactInv
      <3>4. Len(frame'[Main].hops) <= MaxRedirects
        BY <1>3, <2>1, <2>2
      <3>5. QED
        BY <2>1, <2>4, <3>1, <3>3, <3>4 DEF ContactInv, ContactsAreBounded
    <2>5. QED
      BY <1>1, <1>2, <2>3, <2>4 DEF ContactInv
  <1>15. CASE RedirectRefused(Main)
    BY <1>15, FailContact DEF RedirectRefused, Working
  <1>16. CASE Answered(Main)
    BY <1>1, <1>2, <1>16 DEF Answered, ContactInv, ContactsAreBounded, Working
  <1>17. ASSUME NEW denied \in BOOLEAN, RobotsAnswered(Main, denied)
         PROVE  ContactInv'
    BY <1>17, DecideContact DEF RobotsAnswered, Working
  <1>18. QED
    BY <1>1, <1>6, <1>7, <1>8, <1>9, <1>10, <1>11, <1>12, <1>13, <1>14, <1>15, <1>16, <1>17 DEF Begin, Advance

LEMMA ContactInit == Init => ContactInv
  <1> SUFFICES ASSUME Init PROVE ContactInv
    OBVIOUS
  <1>1. MaxRedirects \in Nat /\ Main \in Thread
    BY Constants DEF Init
  <1>2. 0 <= (MaxRedirects + 1) * (MaxRedirects + 2)
    BY <1>1, Costs
  <1>3. QED
    BY <1>1, <1>2 DEF Init, ContactInv, ContactsAreBounded, Working

LEMMA ContactNext == TypeInv /\ ContactInv /\ [Next]_vars => ContactInv'
  <1> SUFFICES ASSUME TypeInv, ContactInv, [Next]_vars PROVE ContactInv'
    OBVIOUS
  <1> USE DEF ContactInv, ContactsAreBounded, Working, HopCost, Document
  <1>1. CASE Tick \/ UNCHANGED vars
    BY <1>1 DEF Tick, vars, fetchVars, mainVars
  <1>2. ASSUME NEW t \in Thread, t # Main, Begin(t) \/ Advance(t)
        PROVE  ContactInv'
    <2>1. Main \in Thread \ {t} /\ UNCHANGED mainVars
      BY <1>2, Constants, ThreadFrame DEF TypeInv, TypeOK
    <2>2. step'[Main] = step[Main] /\ level'[Main] = level[Main] /\ frame'[Main] = frame[Main]
          /\ outer'[Main] = outer[Main]
      BY <1>2, <2>1, ThreadFrame
    <2>3. QED
      BY <2>1, <2>2 DEF mainVars
  <1>3. QED
    BY <1>1, <1>2, ContactStep DEF Next, Ended

(* Every contact of a page fetch was let through by its own check, and     *)
(* there are no more of them than the caps allow, for any cap              *)
(* (fetch.rs:36-41, 346-371).                                              *)
THEOREM ContactsAreHeld == Spec => []ContactsAreClearedAndBounded
  <1> DEFINE Inv == TypeInv /\ HomeInv /\ ClearedInv /\ ContactInv
  <1>1. Init => Inv
    BY InitType, HomeInit, ContactInit
  <1>2. Inv /\ [Next]_vars => Inv'
    BY StepType, HomeStep, ContactNext
  <1>3. Inv => ContactsAreClearedAndBounded
    BY DEF ClearedInv, Cleared, ContactInv, PolicyBeforeContact, ContactsAreClearedAndBounded
  <1> HIDE DEF Inv
  <1>4. QED
    BY <1>1, <1>2, <1>3, PTL DEF Spec

-----------------------------------------------------------------------------
(* What a page fetch returns is what happened: while it runs, its hops     *)
(* follow its contacts, one behind while one is in flight, and its TLS     *)
(* evidence is of one of them.                                             *)

InFlight == level[Main] = "document" /\ step[Main] = "sent"
NextTrail(i) == IF i < Len(Document.hops) THEN trail[i + 1] ELSE Document.url

Linked ==
  /\ Len(trail) = IF InFlight THEN Len(Document.hops) + 1 ELSE Len(Document.hops)
  /\ \A i \in 1..Len(Document.hops) :
       Document.hops[i].url = trail[i] /\ Document.hops[i].location = NextTrail(i)
  /\ InFlight => trail[Len(Document.hops) + 1] = Document.url
  /\ EvidenceOfAHop(trail, IF InFlight THEN Evidence(Main) ELSE Document.tls)
  /\ page = 1 => (IF Document.hops = <<>> THEN Document.url ELSE trail[1]) = Seed

ChainInv == /\ Working => Linked
            /\ got # Nothing => ~Working /\ FetchedIsFaithful

(* Evidence stays that of its hop when another is contacted.               *)
LEMMA EvidenceKept ==
  ASSUME NEW urls \in Seq(URL), NEW u \in URL, NEW e, EvidenceOfAHop(urls, e)
  PROVE  EvidenceOfAHop(Append(urls, u), e)
  <1>1. /\ Len(urls) \in Nat /\ Len(Append(urls, u)) = Len(urls) + 1
        /\ \A i \in 1..Len(urls) : Append(urls, u)[i] = urls[i]
    OBVIOUS
  <1>2. e \in 0..Len(urls)
    BY DEF EvidenceOfAHop
  <1>3. e # 0 => e \in 1..Len(urls) /\ Append(urls, u)[e] = urls[e]
    BY <1>1, <1>2
  <1>4. QED
    BY <1>1, <1>2, <1>3 DEF EvidenceOfAHop

(* A step that leaves the chain as it is.                                  *)
LEMMA ChainKept ==
  ASSUME ChainInv, Working, ~InFlight, ~InFlight', Document' = Document,
         UNCHANGED <<trail, page, got>>
  PROVE  ChainInv'
  BY DEF ChainInv, Linked, NextTrail

LEMMA ChainEnds ==
  ASSUME ChainInv, Working, ~Working', got' = got
  PROVE  ChainInv'
  BY DEF ChainInv

LEMMA ChainDecides ==
  ASSUME TypeInv, ChainInv, Working, NEW denied \in BOOLEAN, level[Main] = "robots",
         Decide(Main, denied), page' = page
  PROVE  ChainInv'
  <1>1. Main \in Thread /\ step'[Main] \in {"want", "over"} /\ level'[Main] = "document"
        /\ frame'[Main] = outer[Main] /\ got' = got /\ trail' = trail
    BY Constants DEF Decide, TypeInv, TypeOK
  <1>2. QED
    BY <1>1, ChainKept DEF Document, InFlight

LEMMA ChainFails ==
  ASSUME TypeInv, ChainInv, Working, NEW timeout \in BOOLEAN, Fail(Main, timeout), page' = page
  PROVE  ChainInv'
  <1>1. CASE level[Main] = "robots" /\ Decide(Main, FALSE)
    BY <1>1, ChainDecides
  <1>2. CASE step' = [step EXCEPT ![Main] = "over"] /\ got' = got
    BY <1>2, ChainEnds, Constants DEF Working, TypeInv, TypeOK
  <1>3. QED
    BY <1>1, <1>2 DEF Fail

LEMMA ChainSend ==
  ASSUME TypeInv, ChainInv, level[Main] = "document", Send(Main)
  PROVE  ChainInv'
  <1>1. /\ step[Main] = "ready" /\ step'[Main] = "sent" /\ Working /\ ~InFlight
        /\ trail' = Append(trail, frame[Main].url)
        /\ UNCHANGED <<fetchVars, page, got>>
    BY Constants DEF Send, Working, InFlight, TypeInv, TypeOK
  <1>2. Document = frame[Main] /\ Document' = Document /\ InFlight' /\ got = Nothing
    BY <1>1 DEF Document, InFlight, fetchVars, ChainInv
  <1>3. Linked /\ trail \in Seq(URL) /\ Document \in Frame /\ Document.url \in URL
    BY <1>1, <1>2, Constants DEF ChainInv, TypeInv, TypeOK, Frame
  <1>4. Document.hops \in Seq(Link) /\ Len(Document.hops) \in Nat /\ Len(trail) = Len(Document.hops)
    BY <1>1, <1>3 DEF Linked, Frame, Link
  <1>5. /\ Len(trail') = Len(Document.hops) + 1 /\ trail'[Len(Document.hops) + 1] = Document.url
        /\ \A i \in 1..Len(Document.hops) : trail'[i] = trail[i]
    BY <1>1, <1>2, <1>3, <1>4
  <1>6. EvidenceOfAHop(trail', Evidence(Main)')
    <2>1. /\ Evidence(Main)' = IF Scheme[Document.url.origin] = "https"
                               THEN Len(Document.hops) + 1 ELSE Document.tls
      BY <1>1, <1>2 DEF Evidence, Target, fetchVars
    <2>2. CASE Scheme[Document.url.origin] = "https"
      <3>1. Evidence(Main)' = Len(Document.hops) + 1
        BY <2>1, <2>2
      <3>2. Evidence(Main)' \in 0..Len(trail') /\ trail'[Evidence(Main)'] = Document.url
        BY <1>4, <1>5, <3>1
      <3>3. QED
        BY <2>2, <3>2 DEF EvidenceOfAHop
    <2>3. CASE Scheme[Document.url.origin] # "https"
      <3>1. EvidenceOfAHop(trail, Document.tls)
        BY <1>1, <1>3 DEF Linked
      <3>2. Evidence(Main)' = Document.tls
        BY <2>1, <2>3
      <3>3. trail' = Append(trail, Document.url)
        BY <1>1, <1>2
      <3>4. EvidenceOfAHop(Append(trail, Document.url), Document.tls)
        BY <1>3, <3>1, EvidenceKept
      <3>5. QED
        BY <3>2, <3>3, <3>4
    <2>4. QED
      BY <2>2, <2>3
  <1>7. \A i \in 1..Len(Document.hops) : Document.hops[i].url = trail'[i] /\ Document.hops[i].location = NextTrail(i)'
    BY <1>2, <1>3, <1>4, <1>5 DEF Linked, NextTrail
  <1>8. page' = 1 => (IF Document.hops = <<>> THEN Document.url ELSE trail'[1]) = Seed
    BY <1>1, <1>3, <1>4, <1>5 DEF Linked
  <1>9. QED
    BY <1>1, <1>2, <1>5, <1>6, <1>7, <1>8 DEF ChainInv, Linked

LEMMA ChainRedirected ==
  ASSUME TypeInv, ChainInv, level[Main] = "document", NEW u \in Location, NEW toGet \in BOOLEAN,
         Redirected(Main, u, toGet)
  PROVE  ChainInv'
  <1> DEFINE n == Len(Document.hops)
             link == [url |-> Document.url, location |-> u]
  <1>1. /\ step[Main] = "sent" /\ step'[Main] = "check" /\ Working /\ InFlight /\ ~InFlight'
        /\ frame'[Main] = NextFrame(Main, u, toGet) /\ level'[Main] = "document"
        /\ UNCHANGED <<trail, page, got>>
    BY Constants DEF Redirected, AfterRedirect, Working, InFlight, mainVars, TypeInv, TypeOK
  <1>2. Document = frame[Main] /\ Document' = NextFrame(Main, u, toGet) /\ got = Nothing
    BY <1>1 DEF Document, ChainInv
  <1>3. Linked /\ trail \in Seq(URL) /\ Document \in Frame /\ Document.url \in URL /\ u \in URL
        /\ Main \in Thread
    BY <1>1, <1>2, Constants DEF ChainInv, TypeInv, TypeOK, Frame
  <1>4. Document.hops \in Seq(Link) /\ n \in Nat /\ Len(trail) = n + 1 /\ link \in Link
    BY <1>1, <1>3 DEF Linked, Frame, Link
  <1>5. Document'.hops = Append(Document.hops, link) /\ Document'.url = u /\ Document'.tls = Evidence(Main)
    BY <1>2, <1>3, NextFrameType DEF TypeInv
  <1>6. /\ Len(Document'.hops) = n + 1 /\ Document'.hops[n + 1] = link /\ Document'.hops # <<>>
        /\ \A i \in 1..n : Document'.hops[i] = Document.hops[i]
    BY <1>4, <1>5
  <1>7. ASSUME NEW i \in 1..(n + 1)
        PROVE  Document'.hops[i].url = trail[i] /\ Document'.hops[i].location = NextTrail(i)'
    <2>1. CASE i = n + 1
      <3>1. trail[n + 1] = Document.url
        BY <1>1, <1>3 DEF Linked
      <3>2. NextTrail(i)' = u
        BY <1>4, <1>5, <1>6, <2>1 DEF NextTrail
      <3>3. QED
        BY <1>6, <2>1, <3>1, <3>2
    <2>2. CASE i # n + 1
      <3>1. i \in 1..n /\ Document'.hops[i] = Document.hops[i]
        BY <1>4, <1>6, <2>2
      <3>2. NextTrail(i)' = trail[i + 1]
        BY <1>1, <1>4, <1>6, <3>1 DEF NextTrail
      <3>3. NextTrail(i) = trail[i + 1]
        BY <1>1, <1>3, <1>4, <3>1 DEF NextTrail, Linked
      <3>4. QED
        BY <1>3, <3>1, <3>2, <3>3 DEF Linked
    <2>3. QED
      BY <2>1, <2>2
  <1>8. EvidenceOfAHop(trail, Document'.tls)
    BY <1>1, <1>3, <1>5 DEF Linked
  <1>9. page = 1 => trail[1] = Seed
    <2>1. CASE Document.hops = <<>>
      BY <1>1, <1>3, <2>1 DEF Linked
    <2>2. CASE Document.hops # <<>>
      BY <1>3, <2>2 DEF Linked
    <2>3. QED
      BY <2>1, <2>2
  <1>10. Linked'
    BY <1>1, <1>4, <1>6, <1>7, <1>8, <1>9 DEF Linked
  <1>11. QED
    BY <1>1, <1>2, <1>10 DEF ChainInv

LEMMA ChainAnswered ==
  ASSUME TypeInv, ChainInv, level[Main] = "document", Answered(Main)
  PROVE  ChainInv'
  <1> DEFINE n == Len(Document.hops)
  <1>1. /\ step[Main] = "sent" /\ step'[Main] = "idle" /\ Working /\ InFlight /\ ~Working'
        /\ got' = [final |-> Document.url, hops |-> Document.hops, tls |-> Evidence(Main)]
        /\ UNCHANGED <<trail, page>>
    BY Constants DEF Answered, Working, InFlight, Document, TypeInv, TypeOK
  <1>2. Linked /\ Document \in Frame
    BY <1>1, Constants DEF ChainInv, Document, TypeInv, TypeOK
  <1>3. Document.hops \in Seq(Link) /\ n \in Nat
    BY <1>2 DEF Frame, Link
  <1>4. Len(trail) = n + 1 /\ trail[n + 1] = Document.url /\ EvidenceOfAHop(trail, Evidence(Main))
    BY <1>1, <1>2 DEF Linked
  <1>5. ASSUME NEW i \in 1..n
        PROVE  Document.hops[i] = [url |-> trail[i], location |-> trail[i + 1]]
    <2>1. Document.hops[i] \in Link /\ Document.hops[i].url = trail[i] /\ Document.hops[i].location = NextTrail(i)
      BY <1>2, <1>3 DEF Linked
    <2>2. NextTrail(i) = trail[i + 1]
      BY <1>3, <1>4 DEF NextTrail
    <2>3. QED
      BY <2>1, <2>2 DEF Link
  <1>6. page = 1 => trail[1] = Seed
    <2>1. CASE Document.hops = <<>>
      BY <1>2, <1>4, <2>1 DEF Linked
    <2>2. CASE Document.hops # <<>>
      BY <1>2, <2>2 DEF Linked
    <2>3. QED
      BY <2>1, <2>2
  <1>9. Scheme[Document.url.origin] = "https" => Evidence(Main) = n + 1
    BY <1>1 DEF Evidence, Target, Document
  <1>7. FetchedIsFaithful'
    BY <1>1, <1>4, <1>5, <1>6, <1>9 DEF FetchedIsFaithful, EvidenceOfAHop
  <1>8. QED
    BY <1>1, <1>7 DEF ChainInv

LEMMA ChainStep ==
  ASSUME TypeInv, ChainInv, level[Main] # "asset", Begin(Main) \/ Advance(Main)
  PROVE  ChainInv'
  <1> USE DEF fetchVars, mainVars
  <1>1. Main \in Thread /\ Main \notin Browser /\ level[Main] \in {"document", "robots"}
    BY Constants DEF TypeInv, TypeOK
  <1>2. CASE Finish
    BY <1>1, <1>2 DEF Finish, ChainInv, Working, FetchedIsFaithful, TypeInv, TypeOK
  <1>3. ASSUME NEW u \in DocumentURL, BeginPage(u)
        PROVE  ChainInv'
    <2>1. /\ frame'[Main] = NewFrame(u) /\ level'[Main] = "document" /\ step'[Main] = "check"
          /\ got' = Nothing /\ trail' = <<>> /\ page' = page + 1 /\ page \in Nat
          /\ page = 0 => u = Seed
      BY <1>1, <1>3, Constants DEF BeginPage, TypeInv, TypeOK
    <2>2. NewFrame(u).hops = <<>> /\ NewFrame(u).url = u /\ NewFrame(u).tls = 0
      BY Constants, NewFrameType DEF TypeInv, TypeOK, NewFrame
    <2>3. Document' = NewFrame(u) /\ ~InFlight'
      BY <2>1 DEF Document, InFlight
    <2>4. EvidenceOfAHop(<<>>, 0)
      BY DEF EvidenceOfAHop
    <2>5. Linked'
      BY <2>1, <2>2, <2>3, <2>4 DEF Linked
    <2>6. QED
      BY <2>1, <2>5 DEF ChainInv
  <1>4. CASE Consult(Main)
    <2>1. /\ frame'[Main] = NewFrame([frame[Main].url EXCEPT !.path = Robots]) /\ level'[Main] = "robots"
          /\ step'[Main] = "want" /\ outer'[Main] = frame[Main] /\ UNCHANGED mainVars
          /\ step[Main] = "check" /\ level[Main] = "document"
      BY <1>1, <1>4 DEF Consult, TypeInv, TypeOK, LevelInv
    <2>2. QED
      BY <2>1, ChainKept DEF Document, InFlight, Working
  <1>5. CASE IgnoreRobots(Main) \/ Unpaced(Main) \/ Acquire(Main) \/ WakeUp(Main)
    <2>1. /\ step'[Main] \in {"want", "sleep", "ready"} /\ step[Main] \in {"check", "want", "sleep"}
          /\ UNCHANGED <<fetchVars, mainVars>>
      BY <1>1, <1>5 DEF IgnoreRobots, Unpaced, Acquire, WakeUp, TypeInv, TypeOK
    <2>2. QED
      BY <2>1, ChainKept DEF Document, InFlight, Working
  <1>6. CASE UnsupportedScheme(Main) \/ PacingDeadlineExceeded(Main) \/ RedirectRefused(Main)
    BY <1>6, ChainFails DEF UnsupportedScheme, PacingDeadlineExceeded, RedirectRefused, Working
  <1>7. CASE Send(Main)
    <2>1. CASE level[Main] = "robots"
      <3>1. step[Main] = "ready" /\ UNCHANGED <<fetchVars, page, got, trail>>
        BY <1>7, <2>1 DEF Send
      <3>2. QED
        BY <2>1, <3>1, ChainKept DEF Document, InFlight, Working
    <2>2. QED
      BY <1>1, <1>7, <2>1, ChainSend
  <1>8. ASSUME NEW timeout \in BOOLEAN, Broken(Main, timeout)
        PROVE  ChainInv'
    BY <1>8, ChainFails DEF Broken, Working
  <1>9. ASSUME NEW u \in Location, NEW toGet \in BOOLEAN, Redirected(Main, u, toGet)
        PROVE  ChainInv'
    <2>1. CASE level[Main] = "robots"
      <3>1. step[Main] = "sent" /\ UNCHANGED <<outer, level, page, got, trail>>
        BY <1>9 DEF Redirected
      <3>2. QED
        BY <2>1, <3>1, ChainKept DEF Document, InFlight, Working
    <2>2. QED
      BY <1>1, <1>9, <2>1, ChainRedirected
  <1>10. CASE Answered(Main)
    BY <1>1, <1>10, ChainAnswered DEF Answered
  <1>11. ASSUME NEW denied \in BOOLEAN, RobotsAnswered(Main, denied)
         PROVE  ChainInv'
    BY <1>11, ChainDecides DEF RobotsAnswered, Working
  <1>12. QED
    BY <1>1, <1>2, <1>3, <1>4, <1>5, <1>6, <1>7, <1>8, <1>9, <1>10, <1>11 DEF Begin, Advance

LEMMA ChainInit == Init => ChainInv
  BY Constants DEF Init, ChainInv, Working

LEMMA ChainNext == TypeInv /\ ContactInv /\ ChainInv /\ [Next]_vars => ChainInv'
  <1> SUFFICES ASSUME TypeInv, ContactInv, ChainInv, [Next]_vars PROVE ChainInv'
    OBVIOUS
  <1> DEFINE Same == UNCHANGED mainVars /\ step'[Main] = step[Main] /\ level'[Main] = level[Main]
                     /\ frame'[Main] = frame[Main] /\ outer'[Main] = outer[Main]
  <1>1. ASSUME Same PROVE ChainInv'
    BY <1>1 DEF ChainInv, Linked, Working, InFlight, Document, NextTrail, FetchedIsFaithful,
                Evidence, Target, mainVars
  <1>2. CASE Tick \/ UNCHANGED vars
    BY <1>1, <1>2 DEF Tick, vars, fetchVars
  <1>3. ASSUME NEW t \in Thread, t # Main, Begin(t) \/ Advance(t)
        PROVE  Same
    <2>1. Main \in Thread \ {t} /\ UNCHANGED mainVars
      BY <1>3, Constants, ThreadFrame DEF TypeInv, TypeOK
    <2>2. QED
      BY <1>3, <2>1, ThreadFrame
  <1>4. QED
    BY <1>1, <1>2, <1>3, ChainStep DEF Next, Ended, ContactInv

-----------------------------------------------------------------------------
(* The first decision recorded is the one for the seed: until there is     *)
(* one, only the first page fetch is under way.                            *)

SeedInv ==
  /\ hops # <<>> => hops[1].url = Seed
  /\ hops = <<>> =>
       /\ got = Nothing
       /\ \A b \in Browser : step[b] = "idle"
       /\ step[Main] = "idle" => page = 0
       /\ step[Main] = "check" \/ level[Main] = "robots" => Document.url = Seed
       /\ step[Main] \in {"want", "sleep", "ready", "sent"} => level[Main] = "robots"

LEMMA SeedDecides ==
  ASSUME TypeInv, SeedInv, NEW t \in Thread, NEW denied \in BOOLEAN, level[t] = "robots",
         t = Main \/ hops # <<>>, Decide(t, denied)
  PROVE  hops' # <<>> /\ hops'[1].url = Seed
  <1>1. hops' = Append(hops, Hop(t, denied)) /\ hops \in Seq([url : URL, denied : BOOLEAN])
        /\ Hop(t, denied) \in [url : URL, denied : BOOLEAN] /\ Hop(t, denied).url = outer[t].url
    BY DEF Decide, TypeInv, TypeOK, Hop, LevelInv, Frame
  <1>2. hops' # <<>> /\ hops'[1] = IF hops = <<>> THEN Hop(t, denied) ELSE hops[1]
    BY <1>1
  <1>3. hops = <<>> => outer[t].url = Seed
    BY DEF SeedInv, Document
  <1>4. QED
    BY <1>1, <1>2, <1>3 DEF SeedInv

(* Browser requests start after the first page fetch has returned.         *)
LEMMA SeedBrowser ==
  ASSUME TypeInv, SeedInv, NEW t \in Thread, t # Main, Begin(t) \/ Advance(t)
  PROVE  hops # <<>>
  <1>1. t \in Browser
    BY DEF Thread
  <1>2. CASE Begin(t)
    <2>1. step[Main] = "idle" /\ page > 0
      BY <1>1, <1>2, Constants DEF Begin, BeginRequest, TypeInv, TypeOK
    <2>2. QED
      BY <2>1 DEF SeedInv
  <1>3. CASE Advance(t)
    <2>1. step[t] # "idle"
      BY <1>3 DEF Advance, Consult, IgnoreRobots, UnsupportedScheme, Unpaced, Acquire, PacingDeadlineExceeded,
                  WakeUp, Send, Broken, Redirected, RedirectRefused, Answered, RobotsAnswered
    <2>2. QED
      BY <1>1, <2>1 DEF SeedInv
  <1>4. QED
    BY <1>2, <1>3

(* Once there is one, a decision is only ever added.                       *)
LEMMA SeedStays ==
  ASSUME TypeInv, SeedInv, hops # <<>>, NEW t \in Thread, Begin(t) \/ Advance(t)
  PROVE  hops' # <<>> /\ hops'[1].url = Seed
  <1> USE DEF pacerVars, fetchVars, mainVars
  <1>1. hops[1].url = Seed
    BY DEF SeedInv
  <1>2. ASSUME NEW timeout \in BOOLEAN, Fail(t, timeout)
        PROVE  hops' # <<>> /\ hops'[1].url = Seed
    BY <1>1, <1>2, SeedDecides DEF Fail
  <1>3. CASE Begin(t)
    BY <1>1, <1>3 DEF Begin, Finish, BeginPage, BeginRequest
  <1>4. CASE IgnoreRobots(t)
    <2>1. hops \in Seq([url : URL, denied : BOOLEAN]) /\ frame[t].url \in URL
      BY DEF TypeInv, TypeOK, Frame
    <2>2. QED
      BY <1>1, <1>4, <2>1 DEF IgnoreRobots
  <1>5. CASE UnsupportedScheme(t) \/ PacingDeadlineExceeded(t) \/ RedirectRefused(t)
    BY <1>2, <1>5 DEF UnsupportedScheme, PacingDeadlineExceeded, RedirectRefused
  <1>6. CASE \E timeout \in BOOLEAN : Broken(t, timeout)
    BY <1>2, <1>6 DEF Broken
  <1>7. CASE \E denied \in BOOLEAN : RobotsAnswered(t, denied)
    BY <1>7, SeedDecides DEF RobotsAnswered
  <1>8. QED
    BY <1>1, <1>3, <1>4, <1>5, <1>6, <1>7
       DEF Advance, Consult, Unpaced, Acquire, WakeUp, Send, Redirected, Answered

LEMMA SeedFirst ==
  ASSUME TypeInv, SeedInv, hops = <<>>, level[Main] # "asset", Begin(Main) \/ Advance(Main)
  PROVE  SeedInv'
  <1> USE DEF pacerVars, fetchVars, mainVars
  <1>1. Main \in Thread /\ Main \notin Browser /\ level[Main] \in {"document", "robots"}
    BY Constants DEF TypeInv, TypeOK
  <1>2. \A b \in Browser : step'[b] = "idle"
    BY <1>1, ThreadFrame DEF SeedInv, Thread
  <1>3. ASSUME NEW timeout \in BOOLEAN, Fail(Main, timeout), step[Main] # "idle"
        PROVE  SeedInv'
    <2>1. CASE level[Main] = "robots" /\ Decide(Main, FALSE)
      BY <1>1, <2>1, SeedDecides DEF SeedInv
    <2>2. CASE step' = [step EXCEPT ![Main] = "over"] /\ UNCHANGED <<fetchVars, hops, got>>
      BY <1>1, <1>2, <2>2 DEF SeedInv, Document, TypeInv, TypeOK
    <2>3. QED
      BY <1>3, <2>1, <2>2 DEF Fail
  <1>4. CASE Finish
    BY <1>4 DEF Finish, SeedInv
  <1>5. ASSUME NEW u \in DocumentURL, BeginPage(u)
        PROVE  SeedInv'
    <2>1. NewFrame(u).url = u
      BY Constants, NewFrameType DEF TypeInv, TypeOK
    <2>2. page = 0 /\ u = Seed
      BY <1>5 DEF BeginPage, SeedInv
    <2>3. /\ frame'[Main] = NewFrame(u) /\ level'[Main] = "document" /\ step'[Main] = "check"
          /\ hops' = hops /\ got' = Nothing
      BY <1>1, <1>5 DEF BeginPage, TypeInv, TypeOK
    <2>4. QED
      BY <1>2, <2>1, <2>2, <2>3 DEF SeedInv, Document
  <1>6. CASE Consult(Main)
    <2>1. /\ level'[Main] = "robots" /\ step'[Main] = "want" /\ outer'[Main] = frame[Main]
          /\ step[Main] = "check" /\ level[Main] = "document" /\ UNCHANGED <<hops, got>>
      BY <1>1, <1>6 DEF Consult, TypeInv, TypeOK, LevelInv
    <2>2. QED
      BY <1>2, <2>1 DEF SeedInv, Document
  <1>7. CASE IgnoreRobots(Main)
    <2>1. level[Main] = "document" /\ frame[Main].url = Seed
      BY <1>1, <1>7 DEF IgnoreRobots, SeedInv, Document, TypeInv, LevelInv
    <2>2. hops' = <<[url |-> Seed, denied |-> FALSE]>>
      BY <1>7, <2>1 DEF IgnoreRobots
    <2>3. QED
      BY <2>2 DEF SeedInv
  <1>8. CASE UnsupportedScheme(Main) \/ PacingDeadlineExceeded(Main) \/ RedirectRefused(Main)
    BY <1>3, <1>8 DEF UnsupportedScheme, PacingDeadlineExceeded, RedirectRefused
  <1>9. CASE Unpaced(Main) \/ Acquire(Main) \/ WakeUp(Main) \/ Send(Main)
    <2>1. /\ step'[Main] \in {"sleep", "ready", "sent"} /\ step[Main] \in {"want", "sleep", "ready"}
          /\ UNCHANGED <<fetchVars, hops, got>>
      BY <1>1, <1>9 DEF Unpaced, Acquire, WakeUp, Send, TypeInv, TypeOK
    <2>2. QED
      BY <1>2, <2>1 DEF SeedInv, Document
  <1>10. ASSUME NEW timeout \in BOOLEAN, Broken(Main, timeout)
         PROVE  SeedInv'
    BY <1>3, <1>10 DEF Broken
  <1>11. ASSUME NEW u \in Location, NEW toGet \in BOOLEAN, Redirected(Main, u, toGet)
         PROVE  SeedInv'
    <2>1. /\ level[Main] = "robots" /\ step'[Main] = "want"
          /\ UNCHANGED <<outer, level, hops, got>>
      BY <1>1, <1>11 DEF Redirected, AfterRedirect, SeedInv, TypeInv, TypeOK
    <2>2. QED
      BY <1>2, <2>1 DEF SeedInv, Document
  <1>12. CASE Answered(Main)
    BY <1>12 DEF Answered, SeedInv
  <1>13. ASSUME NEW denied \in BOOLEAN, RobotsAnswered(Main, denied)
         PROVE  SeedInv'
    BY <1>1, <1>13, SeedDecides DEF RobotsAnswered, SeedInv
  <1>14. QED
    BY <1>1, <1>4, <1>5, <1>6, <1>7, <1>8, <1>9, <1>10, <1>11, <1>12, <1>13 DEF Begin, Advance

LEMMA SeedInit == Init => SeedInv
  BY Constants DEF Init, SeedInv

LEMMA SeedNext == TypeInv /\ ContactInv /\ SeedInv /\ [Next]_vars => SeedInv'
  <1> SUFFICES ASSUME TypeInv, ContactInv, SeedInv, [Next]_vars PROVE SeedInv'
    OBVIOUS
  <1>1. CASE Tick \/ UNCHANGED vars
    BY <1>1 DEF Tick, vars, fetchVars, mainVars, SeedInv, Document
  <1>2. ASSUME NEW t \in Thread, Begin(t) \/ Advance(t)
        PROVE  SeedInv'
    <2>1. CASE hops = <<>>
      BY <1>2, <2>1, SeedBrowser, SeedFirst DEF ContactInv
    <2>2. CASE hops # <<>>
      BY <1>2, <2>2, SeedStays DEF SeedInv
    <2>3. QED
      BY <2>1, <2>2
  <1>3. QED
    BY <1>1, <1>2 DEF Next, Ended

LEMMA FetchedHappened ==
  ASSUME TypeInv, ContactInv, ChainInv, SeedInv
  PROVE  FetchedIsWhatHappened
  <1>1. FetchedIsFaithful
    BY DEF ChainInv, FetchedIsFaithful
  <1>2. InitialDecisionIsSeeds
    BY DEF SeedInv, InitialDecisionIsSeeds
  <1>3. QED
    BY <1>1, <1>2 DEF FetchedIsWhatHappened

(* The variables keep their types.  That a decision finds the document     *)
(* fetch it was asked for is part of it (robots.rs:243-275).               *)
THEOREM TypeCorrect == Spec => []TypeOK
  <1>1. TypeInv => TypeOK
    BY DEF TypeInv
  <1>2. QED
    BY <1>1, InitType, StepType, PTL DEF Spec

(* The chain a fetch returns is the chain that was contacted, the evidence *)
(* of an HTTPS response that of its own connection, and the first decision *)
(* recorded the one for the seed, for any number of redirects and pages    *)
(* (fetch.rs:362-430, robots.rs:163-190).                                  *)
THEOREM FetchedHolds == Spec => []FetchedIsWhatHappened
  <1> DEFINE Inv == TypeInv /\ ContactInv /\ ChainInv /\ SeedInv
  <1>1. Init => Inv
    BY InitType, ContactInit, ChainInit, SeedInit
  <1>2. Inv /\ [Next]_vars => Inv'
    BY StepType, ContactNext, ChainNext, SeedNext
  <1>3. Inv => FetchedIsWhatHappened
    BY FetchedHappened
  <1> HIDE DEF Inv
  <1>4. QED
    BY <1>1, <1>2, <1>3, PTL DEF Spec

-----------------------------------------------------------------------------
(* The positions of three parts that follow each other.                    *)
LEMMA ThreeParts ==
  ASSUME NEW H \in Seq(Nat), NEW M \in Seq(Nat), NEW B \in Seq(Nat), NEW e, e = (H \o M) \o B
  PROVE  /\ e \in Seq(Nat) /\ Len(e) = Len(H) + Len(M) + Len(B)
         /\ \A j \in 1..Len(H) : e[j] = H[j]
         /\ \A j \in 1..Len(M) : e[Len(H) + j] = M[j]
         /\ \A j \in 1..Len(B) : e[Len(H) + Len(M) + j] = B[j]
  OBVIOUS

(* Three parts joined from the left, and from the right.                   *)
Regroups(S, x, y, z) ==
  (x \o y) \o z = x \o (y \o z) /\ x \o y \in Seq(S) /\ y \o z \in Seq(S)

(* Joining is associative.                                                 *)
LEMMA Assoc ==
  ASSUME NEW S, NEW x \in Seq(S), NEW y \in Seq(S), NEW z \in Seq(S)
  PROVE  Regroups(S, x, y, z)
  <1>1. (x \o y) \o z = x \o (y \o z)
    OBVIOUS
  <1>2. x \o y \in Seq(S)
    OBVIOUS
  <1>3. y \o z \in Seq(S)
    OBVIOUS
  <1>4. QED
    BY <1>1, <1>2, <1>3 DEF Regroups

(* The same for four parts.                                                *)
RegroupsAll(S, f, y, q, z) ==
  /\ ((f \o y) \o q) \o z = f \o (y \o (q \o z)) /\ ((f \o y) \o q) \o z = (f \o y) \o (q \o z)
  /\ y \o (q \o z) \in Seq(S) /\ q \o z \in Seq(S)

(* Four parts that are joined from the left are joined from the right.     *)
LEMMA FourParts ==
  ASSUME NEW S, NEW f \in Seq(S), NEW y \in Seq(S), NEW q \in Seq(S), NEW z \in Seq(S)
  PROVE  RegroupsAll(S, f, y, q, z)
  <1> DEFINE g == f \o y
             r == q \o z
  <1>1. g \in Seq(S) /\ r \in Seq(S)
    BY Assoc, Zenon DEF Regroups
  <1>2. Regroups(S, f, y, r)
    <2> HIDE DEF r
    <2> QED BY <1>1, Assoc, Zenon
  <1>3. Regroups(S, g, q, z)
    <2> HIDE DEF g
    <2> QED BY <1>1, Assoc, Zenon
  <1>4. g \o r = f \o (y \o r) /\ (g \o q) \o z = g \o r /\ y \o r \in Seq(S)
    BY <1>2, <1>3, Zenon DEF Regroups
  <1> HIDE DEF g, r
  <1>5. (g \o q) \o z = f \o (y \o r)
    BY <1>4
  <1>6. QED
    BY <1>1, <1>4, <1>5, Zenon DEF g, r, RegroupsAll

(* The parts of a flattened sequence, one after the other.                 *)
Grown(c, F) ==
  /\ F[0] = <<>> /\ \A k \in 0..(Len(c) - 1) : F[k + 1] = F[k] \o c[k + 1]
  /\ FlattenSeq(c) = F[Len(c)]

(* A sequence of sequences is flattened by joining its parts one by one.   *)
LEMMA FlattenGrows ==
  ASSUME NEW S, NEW c \in Seq(Seq(S))
  PROVE  \E F \in [Nat -> Seq(S)] : Grown(c, F)
  <1> DEFINE N == Len(c)
             T == Seq(S)
             more == [n \in Nat |-> [x \in T |-> IF n + 1 \in 1..N THEN x \o c[n + 1] ELSE x]]
  <1>1. N \in Nat /\ \A i \in 1..N : c[i] \in T
    BY ElementOfSeq, LenProperties
  <1>2. <<>> \in T
    OBVIOUS
  <1>3. more \in StepsIn(T)
    <2>1. ASSUME NEW n \in Nat, NEW x \in T PROVE (IF n + 1 \in 1..N THEN x \o c[n + 1] ELSE x) \in T
      <3>1. CASE n + 1 \in 1..N
        <4>1. c[n + 1] \in Seq(S)
          BY <1>1, <3>1
        <4>2. QED
          BY <3>1, <4>1
      <3>2. QED
        BY <3>1
    <2> HIDE DEF N, T
    <2>2. QED
      BY <2>1 DEF StepsIn
  <1>4. PICK F : F \in Courses(T, <<>>, more)
    <2> HIDE DEF T, more
    <2> QED BY <1>2, <1>3, Recursion
  <1>5. F \in [Nat -> T] /\ F[0] = <<>> /\ \A n \in Nat : F[n + 1] = more[n][F[n]]
    BY <1>4 DEF Courses
  <1>6. \A k \in 0..(N - 1) : F[k + 1] = F[k] \o c[k + 1]
    <2> SUFFICES ASSUME NEW k \in 0..(N - 1) PROVE F[k + 1] = F[k] \o c[k + 1]
      OBVIOUS
    <2>1. k \in Nat /\ k + 1 \in 1..N
      BY <1>1
    <2>2. F[k] \in T
      BY <1>5, <2>1
    <2>3. QED
      BY <1>5, <2>1, <2>2
  <1> HIDE DEF more
  <1>7. FlattenSeq(c) = F[N]
    <2>1. CASE N = 0
      <3>1. c = <<>>
        BY <2>1, EmptySeq
      <3>2. QED
        BY <1>5, <2>1, <3>1 DEF FlattenSeq
    <2>2. CASE N # 0
      <3> DEFINE Rule(g) == g = [i \in 1..N |-> IF i = 1 THEN c[i] ELSE g[i - 1] \o c[i]]
                 h == [i \in 1..N |-> F[i]]
                 flatten == CHOOSE g : Rule(g)
      <3>1. F[1] = c[1]
        <4>1. 0 \in 0..(N - 1) /\ 1 \in 1..N /\ 0 + 1 = 1
          BY <1>1, <2>2
        <4>2. F[0 + 1] = F[0] \o c[0 + 1]
          BY <1>6, <4>1
        <4>3. c[1] \in Seq(S)
          BY <1>1, <4>1
        <4>4. <<>> \o c[1] = c[1]
          BY <4>3
        <4>5. QED
          BY <1>5, <4>1, <4>2, <4>4
      <3>2. Rule(h)
        <4>1. ASSUME NEW i \in 1..N PROVE F[i] = IF i = 1 THEN c[i] ELSE h[i - 1] \o c[i]
          <5>1. CASE i # 1
            <6>1. i - 1 \in 1..N /\ i - 1 \in 0..(N - 1) /\ (i - 1) + 1 = i
              BY <1>1, <5>1
            <6>2. QED
              BY <1>6, <5>1, <6>1
          <5>2. QED
            BY <3>1, <5>1
        <4> HIDE DEF N
        <4>2. QED
          BY <4>1
      <3>3. Rule(flatten)
        <4> HIDE DEF Rule, h
        <4> QED BY <3>2
      <3> HIDE DEF flatten, h
      <3>4. \A i \in 1..N : flatten[i] = IF i = 1 THEN c[i] ELSE flatten[i - 1] \o c[i]
        <4> HIDE DEF N
        <4> QED BY <3>3
      <3> DEFINE P == {n \in Nat : n + 1 \in 1..N => flatten[n + 1] = F[n + 1]}
      <3>5. 0 \in P
        BY <3>1, <3>4
      <3>6. ASSUME NEW n \in Nat, n \in P PROVE n + 1 \in P
        <4>1. ASSUME (n + 1) + 1 \in 1..N PROVE flatten[(n + 1) + 1] = F[(n + 1) + 1]
          <5>1. n + 1 \in 1..N /\ n + 1 \in 0..(N - 1) /\ (n + 1) + 1 # 1 /\ ((n + 1) + 1) - 1 = n + 1
            BY <1>1, <4>1
          <5>2. flatten[n + 1] = F[n + 1]
            BY <3>6, <5>1
          <5>3. flatten[(n + 1) + 1] = flatten[n + 1] \o c[(n + 1) + 1]
            BY <3>4, <4>1, <5>1
          <5>4. QED
            BY <1>6, <5>1, <5>2, <5>3
        <4>2. QED
          BY <4>1
      <3>7. \A n \in Nat : n \in P
        <4> HIDE DEF P
        <4> QED BY <3>5, <3>6, Induction
      <3>8. flatten[N] = F[N]
        <4>1. N - 1 \in Nat /\ (N - 1) + 1 = N /\ N \in 1..N
          BY <1>1, <2>2
        <4>2. QED
          BY <3>7, <4>1
      <3>9. FlattenSeq(c) = flatten[N]
        BY <2>2 DEF FlattenSeq, flatten
      <3>10. QED
        BY <3>8, <3>9
    <2>3. QED
      BY <2>1, <2>2
  <1>8. QED
    BY <1>5, <1>6, <1>7 DEF Grown

(* Each part is in the whole where those before it end.                    *)
LEMMA FlattenParts ==
  ASSUME NEW S, NEW c \in Seq(Seq(S)), NEW F \in [Nat -> Seq(S)], Grown(c, F), NEW k \in 0..Len(c)
  PROVE  \E r \in Seq(S) : FlattenSeq(c) = F[k] \o r
  <1> DEFINE N == Len(c)
             P == {m \in Nat : m <= N => \E r \in Seq(S) : F[N] = F[N - m] \o r}
  <1>1. N \in Nat /\ (\A i \in 1..N : c[i] \in Seq(S)) /\ \A i \in Nat : F[i] \in Seq(S)
    BY ElementOfSeq, LenProperties
  <1>2. 0 \in P
    <2>1. <<>> \in Seq(S) /\ F[N] = F[N] \o <<>> /\ N - 0 = N
      BY <1>1
    <2>2. QED
      BY <2>1
  <1>3. ASSUME NEW m \in Nat, m \in P PROVE m + 1 \in P
    <2>1. ASSUME m + 1 <= N PROVE \E r \in Seq(S) : F[N] = F[N - (m + 1)] \o r
      <3> DEFINE j == N - (m + 1)
      <3>1. j \in 0..(N - 1) /\ j \in Nat /\ j + 1 = N - m /\ m <= N /\ j + 1 \in 1..N
        <4>1. \A a \in Nat, b \in Nat : a + 1 <= b =>
                 /\ b - (a + 1) \in 0..(b - 1) /\ b - (a + 1) \in Nat /\ b - (a + 1) + 1 = b - a
                 /\ a <= b /\ b - (a + 1) + 1 \in 1..b
          OBVIOUS
        <4> HIDE DEF P, N
        <4>2. QED
          BY <1>1, <2>1, <4>1
      <3> HIDE DEF j
      <3>2. PICK r \in Seq(S) : F[N] = F[N - m] \o r
        BY <1>3, <3>1
      <3>3. F[j + 1] = F[j] \o c[j + 1]
        BY <3>1 DEF Grown
      <3>4. F[j] \in Seq(S) /\ c[j + 1] \in Seq(S)
        BY <1>1, <3>1
      <3>5. (F[j] \o c[j + 1]) \o r = F[j] \o (c[j + 1] \o r) /\ c[j + 1] \o r \in Seq(S)
        <4>1. Regroups(S, F[j], c[j + 1], r)
          BY <3>2, <3>4, Assoc, Zenon
        <4>2. QED
          BY <4>1, Zenon DEF Regroups
      <3>6. F[N] = F[j] \o (c[j + 1] \o r)
        BY <3>1, <3>2, <3>3, <3>5
      <3>7. QED
        BY <3>5, <3>6 DEF j
    <2>2. m + 1 \in Nat
      OBVIOUS
    <2> HIDE DEF N
    <2>3. QED
      BY <2>1, <2>2
  <1>4. \A m \in Nat : m \in P
    <2> HIDE DEF P
    <2> QED BY <1>2, <1>3, Induction
  <1>5. N - k \in Nat /\ N - k <= N /\ N - (N - k) = k
    BY <1>1
  <1>6. \E r \in Seq(S) : F[N] = F[k] \o r
    BY <1>4, <1>5
  <1>7. QED
    BY <1>6 DEF Grown

(* What follows the same beginning is the same.                            *)
LEMMA Cancel ==
  ASSUME NEW S, NEW a \in Seq(S), NEW x \in Seq(S), NEW y \in Seq(S), a \o x = a \o y
  PROVE  x = y
  <1>1. Len(x) = Len(y)
    BY LenProperties
  <1>2. \A j \in 1..Len(x) : (a \o x)[Len(a) + j] = x[j]
    OBVIOUS
  <1>3. \A j \in 1..Len(y) : (a \o y)[Len(a) + j] = y[j]
    OBVIOUS
  <1>4. \A j \in 1..Len(x) : x[j] = y[j]
    BY <1>1, <1>2, <1>3
  <1>5. QED
    BY <1>1, <1>4, SMTT(40)

(* What a sequence begins with.                                            *)
LEMMA IsBeginning ==
  ASSUME NEW S, NEW a \in Seq(S), NEW b \in Seq(S), NEW n \in Nat, n <= Len(b), SubSeq(b, 1, n) = a
  PROVE  IsPrefix(a, b)
  <1>1. Len(a) = n /\ SubSeq(a, 1, n) = a
    OBVIOUS
  <1>2. QED
    BY <1>1 DEF IsPrefix

(* What is cut off at some place begins the whole, and so does what        *)
(* something follows.                                                      *)
LEMMA StartsWith ==
  ASSUME NEW S, NEW a \in Seq(S), NEW b \in Seq(S), NEW n \in 0..Len(a)
  PROVE  IsPrefix(a, a \o b) /\ IsPrefix(SubSeq(a, 1, n), a) /\ IsPrefix(SubSeq(a, 1, n), a \o b)
  <1>1. /\ a \o b \in Seq(S) /\ Len(a) <= Len(a \o b) /\ SubSeq(a \o b, 1, Len(a)) = a
        /\ Len(a) \in Nat
    OBVIOUS
  <1>2. /\ SubSeq(a, 1, n) \in Seq(S) /\ n \in Nat /\ n <= Len(a) /\ n <= Len(a \o b)
        /\ SubSeq(a \o b, 1, n) = SubSeq(a, 1, n)
    OBVIOUS
  <1>3. IsPrefix(a, a \o b)
    BY <1>1, IsBeginning
  <1>4. IsPrefix(SubSeq(a, 1, n), a)
    BY <1>2, IsBeginning
  <1>5. IsPrefix(SubSeq(a, 1, n), a \o b)
    BY <1>1, <1>2, IsBeginning
  <1>6. QED
    BY <1>3, <1>4, <1>5

(* The positions of two parts that follow each other.                      *)
LEMMA TwoParts ==
  ASSUME NEW a \in Seq(Nat), NEW r \in Seq(Nat)
  PROVE  /\ a \o r \in Seq(Nat) /\ Len(a \o r) = Len(a) + Len(r) /\ Len(a) \in Nat /\ Len(r) \in Nat
         /\ \A j \in 1..Len(a) : (a \o r)[j] = a[j]
         /\ \A j \in 1..Len(r) : (a \o r)[Len(a) + j] = r[j]
  OBVIOUS

-----------------------------------------------------------------------------
(* The chunks of a response as they are sent, and what is left of them     *)
(* when k were read.                                                       *)
Encoded(c) == [i \in DOMAIN c |-> EncodeChunk(c[i])]
ChunkedBody(c, ending) == FlattenSeq(Encoded(c)) \o EncodeLast(ending)
Ahead(c, ending, k, R) ==
  \E F \in [Nat -> Seq(Nat)] : Grown(Encoded(c), F) /\ ChunkedBody(c, ending) = F[k] \o R
Sofar(c, k, b) == \E D \in [Nat -> Seq(Nat)] : Grown(c, D) /\ b = D[k]

(* A chunk is its length, its data and a line end.                         *)
LEMMA ChunkBytes ==
  ASSUME NEW d \in Seq(Nat)
  PROVE  LET y == EncodeChunk(d)
             n == Len(d)
         IN /\ y \in Seq(Nat) /\ Len(y) = n + 5 /\ n \in Nat
            /\ y[1] = 100 + n /\ y[2] = 13 /\ y[3] = 10 /\ \A j \in 1..n : y[3 + j] = d[j]
            /\ y[n + 4] = 13 /\ y[n + 5] = 10
  <1> DEFINE a == <<100 + Len(d), 13, 10>>
             z == <<13, 10>>
             y == EncodeChunk(d)
  <1>1. y = (a \o d) \o z
    BY DEF EncodeChunk, Length, CR, LF
  <1>2. a \in Seq(Nat) /\ Len(a) = 3 /\ a[1] = 100 + Len(d) /\ a[2] = 13 /\ a[3] = 10
    OBVIOUS
  <1>3. z \in Seq(Nat) /\ Len(z) = 2 /\ z[1] = 13 /\ z[2] = 10
    OBVIOUS
  <1> HIDE DEF a, z, y
  <1>8. a \in Seq(Nat) /\ z \in Seq(Nat)
    BY <1>2, <1>3, Zenon
  <1>4. /\ y \in Seq(Nat) /\ Len(y) = Len(a) + Len(d) + Len(z) /\ \A j \in 1..Len(a) : y[j] = a[j]
        /\ \A j \in 1..Len(d) : y[Len(a) + j] = d[j]
        /\ \A j \in 1..Len(z) : y[Len(a) + Len(d) + j] = z[j]
    BY <1>1, <1>8, ThreeParts
  <1>9. Len(y) = 3 + Len(d) + 2 /\ \A j \in 1..2 : y[3 + Len(d) + j] = z[j]
    BY <1>2, <1>3, <1>4, Zenon
  <1>10. (\A j \in 1..3 : y[j] = a[j]) /\ \A j \in 1..Len(d) : y[3 + j] = d[j]
    BY <1>2, <1>4, Zenon
  <1>5. Len(d) \in Nat /\ 3 + Len(d) + 2 = Len(d) + 5 /\ 3 + Len(d) + 1 = Len(d) + 4
    OBVIOUS
  <1>6. 1 \in 1..3 /\ 2 \in 1..3 /\ 3 \in 1..3 /\ 1 \in 1..2 /\ 2 \in 1..2
    OBVIOUS
  <1>7. y[1] = 100 + Len(d) /\ y[2] = 13 /\ y[3] = 10
    BY <1>2, <1>6, <1>10, Zenon
  <1>11. y[Len(d) + 4] = 13 /\ y[Len(d) + 5] = 10 /\ Len(y) = Len(d) + 5
    BY <1>3, <1>5, <1>6, <1>9, Zenon
  <1>12. QED
    BY <1>4, <1>5, <1>7, <1>10, <1>11, Zenon DEF y

(* A chunk d and what comes after it, r, and the bytes that makes.         *)
ChunkThen(e, d, r) == e = EncodeChunk(d) \o r
ChunkShape(e, d, r) ==
  /\ e \in Seq(Nat) /\ Len(e) = Len(d) + 5 + Len(r) /\ Len(d) \in Nat /\ e[1] = 100 + Len(d)
  /\ (\A j \in 1..Len(d) : e[3 + j] = d[j]) /\ \A j \in 1..Len(r) : e[Len(d) + 5 + j] = r[j]

(* What comes after a chunk.                                               *)
LEMMA AfterChunk ==
  ASSUME NEW d \in Seq(Nat), NEW r \in Seq(Nat), NEW e, ChunkThen(e, d, r)
  PROVE  ChunkShape(e, d, r)
  <1> DEFINE y == EncodeChunk(d)
             n == Len(d)
  <1>1. /\ y \in Seq(Nat) /\ Len(y) = n + 5 /\ n \in Nat
        /\ y[1] = 100 + n /\ y[2] = 13 /\ y[3] = 10 /\ \A j \in 1..n : y[3 + j] = d[j]
        /\ y[n + 4] = 13 /\ y[n + 5] = 10
    BY ChunkBytes, Zenon
  <1>2. e = y \o r
    BY DEF ChunkThen
  <1> HIDE DEF y
  <1>8. y \in Seq(Nat)
    BY <1>1
  <1> HIDE DEF n
  <1>3. /\ e \in Seq(Nat) /\ Len(e) = Len(y) + Len(r) /\ \A j \in 1..Len(y) : e[j] = y[j]
        /\ \A j \in 1..Len(r) : e[Len(y) + j] = r[j]
    BY <1>2, <1>8, TwoParts
  <1> HIDE DEF n
  <1>9. n \in Nat
    BY <1>1
  <1>6. /\ 1 \in 1..(n + 5) /\ 2 \in 1..(n + 5) /\ 3 \in 1..(n + 5)
        /\ n + 4 \in 1..(n + 5) /\ n + 5 \in 1..(n + 5) /\ \A j \in 1..n : 3 + j \in 1..(n + 5)
    BY <1>9
  <1>7. QED
    BY <1>1, <1>3, <1>6, Zenon DEF n, ChunkShape

(* The chunks an origin sends: none is empty, for that one is the last.    *)
Chunks(c) == c \in Seq(Seq(Nat) \ {<<>>})

(* The chunks as sequences, and as they are sent.                          *)
LEMMA ChunksType ==
  ASSUME NEW c, Chunks(c)
  PROVE  /\ c \in Seq(Seq(Nat)) /\ Encoded(c) \in Seq(Seq(Nat)) /\ Len(Encoded(c)) = Len(c) /\ Len(c) \in Nat
         /\ \A i \in 1..Len(c) : c[i] \in Seq(Nat) /\ Len(c[i]) > 0 /\ Encoded(c)[i] = EncodeChunk(c[i])
  <1>1. c \in [1..Len(c) -> Seq(Nat) \ {<<>>}] /\ Len(c) \in Nat /\ DOMAIN c = 1..Len(c)
    BY DEF Chunks
  <1>2. \A i \in 1..Len(c) : c[i] \in Seq(Nat) /\ c[i] # <<>>
    BY <1>1
  <1>3. \A d \in Seq(Nat) : d # <<>> => Len(d) > 0
    OBVIOUS
  <1>4. \A i \in 1..Len(c) : EncodeChunk(c[i]) \in Seq(Nat)
    BY <1>2, ChunkBytes, Zenon
  <1>5. c \in Seq(Seq(Nat))
    <2>1. c \in [1..Len(c) -> Seq(Nat)]
      BY <1>1
    <2>2. \A n \in Nat : \A f \in [1..n -> Seq(Nat)] : f \in Seq(Seq(Nat))
      OBVIOUS
    <2>3. QED
      BY <1>1, <2>1, <2>2, Zenon
  <1>6. Encoded(c) \in [1..Len(c) -> Seq(Nat)] /\ \A i \in 1..Len(c) : Encoded(c)[i] = EncodeChunk(c[i])
    BY <1>1, <1>4, Zenon DEF Encoded
  <1>7. \A n \in Nat : \A f \in [1..n -> Seq(Nat)] : f \in Seq(Seq(Nat)) /\ Len(f) = n
    OBVIOUS
  <1>8. QED
    BY <1>1, <1>2, <1>3, <1>5, <1>6, <1>7, Zenon

(* The line that ends a body says a length and is followed by no data.     *)
LEMMA LastChunk ==
  ASSUME NEW ending \in Nat
  PROVE  EncodeLast(ending) \in Seq(Nat) /\ EncodeLast(ending)[1] = 100 + ending /\ Len(EncodeLast(ending)) = 5
  BY DEF EncodeLast, Length, CR, LF

(* The whole body is ahead of a decoder that took no chunk yet.            *)
LEMMA AheadStarts ==
  ASSUME NEW c, Chunks(c), NEW ending \in Nat
  PROVE  Ahead(c, ending, 0, ChunkedBody(c, ending)) /\ ChunkedBody(c, ending) \in Seq(Nat)
  <1>1. PICK F \in [Nat -> Seq(Nat)] : Grown(Encoded(c), F)
    BY ChunksType, FlattenGrows, Zenon
  <1>2. F[0] = <<>> /\ FlattenSeq(Encoded(c)) = F[Len(Encoded(c))] /\ Len(Encoded(c)) \in Nat
    BY <1>1, ChunksType, Zenon DEF Grown
  <1>3. FlattenSeq(Encoded(c)) \in Seq(Nat)
    BY <1>2
  <1>4. ChunkedBody(c, ending) \in Seq(Nat)
    BY <1>3, LastChunk DEF ChunkedBody
  <1>5. ChunkedBody(c, ending) = <<>> \o ChunkedBody(c, ending)
    BY <1>4
  <1>6. QED
    BY <1>1, <1>2, <1>4, <1>5, Zenon DEF Ahead

(* While chunks are left, the next one and what comes after it are ahead.  *)
LEMMA AheadGoesOn ==
  ASSUME NEW c, Chunks(c), NEW ending \in Nat, NEW k \in 0..(Len(c) - 1), NEW R \in Seq(Nat), Ahead(c, ending, k, R)
  PROVE  \E r \in Seq(Nat) : ChunkThen(R, c[k + 1], r) /\ Ahead(c, ending, k + 1, r)
  <1> DEFINE s == Encoded(c)
             y == EncodeChunk(c[k + 1])
             z == EncodeLast(ending)
  <1>1. PICK F \in [Nat -> Seq(Nat)] : Grown(s, F) /\ ChunkedBody(c, ending) = F[k] \o R
    BY DEF Ahead
  <1>2. /\ s \in Seq(Seq(Nat)) /\ Len(s) = Len(c) /\ Len(c) \in Nat
    BY ChunksType, Zenon
  <1>3. k + 1 \in 1..Len(c) /\ k + 1 \in 0..Len(c) /\ k \in Nat /\ k + 1 \in Nat
    BY <1>2
  <1>4. s[k + 1] = y /\ y \in Seq(Nat) /\ z \in Seq(Nat)
    <2>1. c[k + 1] \in Seq(Nat) /\ s[k + 1] = EncodeChunk(c[k + 1])
      BY <1>3, ChunksType, Zenon
    <2>2. QED
      BY <2>1, ChunkBytes, LastChunk, Zenon
  <1>5. F[k + 1] = F[k] \o y /\ F[k] \in Seq(Nat) /\ F[k + 1] \in Seq(Nat)
    BY <1>1, <1>2, <1>3, <1>4 DEF Grown
  <1>6. PICK q \in Seq(Nat) : FlattenSeq(s) = F[k + 1] \o q
    <2>1. k + 1 \in 0..Len(s)
      BY <1>2, <1>3
    <2> HIDE DEF s
    <2>2. QED
      BY <1>1, <1>2, <2>1, FlattenParts, Zenon
  <1> DEFINE r == q \o z
             f == F[k]
  <1> HIDE DEF s, y, z
  <1>10. f \in Seq(Nat)
    BY <1>5
  <1>7. ChunkedBody(c, ending) = (F[k + 1] \o q) \o z
    BY <1>6 DEF ChunkedBody, s, z
  <1> HIDE DEF f
  <1>14. y \in Seq(Nat) /\ z \in Seq(Nat) /\ q \in Seq(Nat)
    BY <1>4, <1>6
  <1>8. /\ ((f \o y) \o q) \o z = f \o (y \o r) /\ ((f \o y) \o q) \o z = (f \o y) \o r
        /\ y \o r \in Seq(Nat) /\ r \in Seq(Nat)
    <2>1. RegroupsAll(Nat, f, y, q, z)
      BY <1>10, <1>14, FourParts, Zenon
    <2>2. QED
      BY <2>1, Zenon DEF RegroupsAll, r
  <1> HIDE DEF r
  <1>9. R = y \o r
    <2>1. f \o R = f \o (y \o r)
      BY <1>1, <1>5, <1>7, <1>8 DEF f
    <2>2. QED
      BY <1>8, <1>10, <2>1, Cancel
  <1>11. ChunkedBody(c, ending) = F[k + 1] \o r
    BY <1>5, <1>7, <1>8 DEF f
  <1>12. Ahead(c, ending, k + 1, r)
    BY <1>1, <1>11, Zenon DEF Ahead, s
  <1>13. QED
    BY <1>8, <1>9, <1>12 DEF y, ChunkThen

(* When all chunks were taken, the empty one is ahead.                     *)
LEMMA AheadEnds ==
  ASSUME NEW c, Chunks(c), NEW ending \in Nat, NEW R \in Seq(Nat), Ahead(c, ending, Len(c), R)
  PROVE  R = EncodeLast(ending)
  <1>1. PICK F \in [Nat -> Seq(Nat)] : Grown(Encoded(c), F) /\ ChunkedBody(c, ending) = F[Len(c)] \o R
    BY DEF Ahead
  <1>2. Len(Encoded(c)) = Len(c) /\ Len(c) \in Nat
    BY ChunksType, Zenon
  <1>3. F[Len(c)] \o EncodeLast(ending) = F[Len(c)] \o R /\ F[Len(c)] \in Seq(Nat)
    BY <1>1, <1>2 DEF Grown, ChunkedBody
  <1> DEFINE f == F[Len(c)]
             z == EncodeLast(ending)
  <1>4. f \in Seq(Nat) /\ z \in Seq(Nat) /\ f \o z = f \o R
    BY <1>3, LastChunk
  <1> HIDE DEF f, z
  <1>5. z = R
    BY <1>4, Cancel
  <1>6. QED
    BY <1>5 DEF z

(* The first chunks joined begin the payload, the next joins them, and all *)
(* are the payload.                                                        *)
LEMMA SofarFacts ==
  ASSUME NEW c, Chunks(c)
  PROVE  /\ Sofar(c, 0, <<>>)
         /\ \A k \in 0..(Len(c) - 1) : \A b : Sofar(c, k, b) => Sofar(c, k + 1, b \o c[k + 1])
         /\ \A k \in 0..Len(c) : \A b : Sofar(c, k, b) =>
              b \in Seq(Nat) /\ \E r \in Seq(Nat) : FlattenSeq(c) = b \o r
         /\ \A b : Sofar(c, Len(c), b) => b = FlattenSeq(c)
         /\ FlattenSeq(c) \in Seq(Nat)
  <1>1. c \in Seq(Seq(Nat)) /\ Len(c) \in Nat
    BY ChunksType, Zenon
  <1>2. PICK D \in [Nat -> Seq(Nat)] : Grown(c, D)
    BY <1>1, FlattenGrows, Zenon
  <1>3. Sofar(c, 0, <<>>)
    BY <1>2, Zenon DEF Grown, Sofar
  <1>4. ASSUME NEW k \in 0..(Len(c) - 1), NEW b, Sofar(c, k, b) PROVE Sofar(c, k + 1, b \o c[k + 1])
    BY <1>4, Zenon DEF Grown, Sofar
  <1>5. ASSUME NEW k \in 0..Len(c), NEW b, Sofar(c, k, b)
        PROVE  b \in Seq(Nat) /\ \E r \in Seq(Nat) : FlattenSeq(c) = b \o r
    <2>1. PICK E \in [Nat -> Seq(Nat)] : Grown(c, E) /\ b = E[k]
      BY <1>5 DEF Sofar
    <2>2. k \in Nat
      BY <1>1
    <2>3. b \in Seq(Nat)
      BY <2>1, <2>2
    <2>4. \E r \in Seq(Nat) : FlattenSeq(c) = E[k] \o r
      BY <1>1, <2>1, FlattenParts, Zenon
    <2>5. QED
      BY <2>1, <2>3, <2>4
  <1>6. ASSUME NEW b, Sofar(c, Len(c), b) PROVE b = FlattenSeq(c)
    BY <1>6, Zenon DEF Grown, Sofar
  <1>7. FlattenSeq(c) \in Seq(Nat)
    BY <1>1, <1>2 DEF Grown
  <1>8. QED
    BY <1>3, <1>4, <1>5, <1>6, <1>7, Zenon

(* A word is a byte that ends no line and declares no length.              *)
LEMMA WordType == \A w \in Word : w \in Nat /\ w # 13 /\ w # 10 /\ w < 100
  BY DEF Word, Length, CR, LF

(* What an origin sends is a head, a blank line and a body.                *)
HeadSent(r) ==
  IF r.chunks = None THEN <<200>> \o r.head ELSE (<<200>> \o r.head) \o <<CR, LF, Chunked>>
BodySent(r) == IF r.chunks = None THEN r.payload ELSE ChunkedBody(r.chunks, r.last)

(* A response is laid out so, and each of its parts is a sequence of       *)
(* bytes.                                                                  *)
LEMMA ResponseParts ==
  ASSUME NEW r \in Responses
  PROVE  /\ HeadSent(r) \in Seq(Nat) /\ BodySent(r) \in Seq(Nat)
         /\ EncodeResponse(r) = (HeadSent(r) \o EndOfHead) \o BodySent(r)
         /\ <<200>> \o r.head \in Seq(Nat) /\ Payload(r) \in Seq(Nat)
         /\ r.chunks # None => Chunks(r.chunks) /\ r.last \in Nat
         /\ r.head \in Seq(HeadWord)
  <1> DEFINE h == <<200>> \o r.head
             x == <<CR, LF, Chunked>>
             t == EndOfHead
  <1>1. /\ r.head \in Seq(HeadWord)
        /\ IF r.chunks = None THEN r.payload \in Seq(Nat)
           ELSE r.chunks \in Seq(Seq(Nat) \ {<<>>}) /\ r.last \in Nat
    BY OriginAssumption
  <1>2. r.head \in Seq(Nat)
    <2>1. HeadWord \subseteq Nat
      BY DEF HeadWord
    <2>2. r.head \in [1..Len(r.head) -> HeadWord] /\ Len(r.head) \in Nat
      BY <1>1
    <2>3. r.head \in [1..Len(r.head) -> Nat]
      BY <2>1, <2>2
    <2>4. \A n \in Nat : \A f \in [1..n -> Nat] : f \in Seq(Nat)
      OBVIOUS
    <2>5. QED
      BY <2>2, <2>3, <2>4, Zenon
  <1>3. h \in Seq(Nat)
    BY <1>2
  <1>4. x \in Seq(Nat) /\ t \in Seq(Nat)
    BY DEF CR, LF, Chunked, EndOfHead
  <1> HIDE DEF h, x, t
  <1>5. CASE r.chunks = None
    <2>1. HeadSent(r) = h /\ BodySent(r) = r.payload /\ r.payload \in Seq(Nat) /\ Payload(r) = r.payload
      BY <1>1, <1>5, Zenon DEF HeadSent, BodySent, h, Payload
    <2>2. EncodeResponse(r) = h \o (t \o r.payload)
      BY <1>5, Zenon DEF EncodeResponse, h, t
    <2>3. Regroups(Nat, h, t, r.payload)
      BY <1>3, <1>4, <2>1, Assoc, Zenon
    <2>4. EncodeResponse(r) = (h \o t) \o r.payload
      BY <2>2, <2>3, Zenon DEF Regroups
    <2>5. QED
      BY <1>1, <1>3, <1>5, <2>1, <2>4, Zenon DEF h, t
  <1>6. CASE r.chunks # None
    <2> DEFINE f == FlattenSeq(Encoded(r.chunks))
               z == EncodeLast(r.last)
               b == f \o z
    <2>1. /\ Chunks(r.chunks) /\ r.last \in Nat /\ HeadSent(r) = h \o x /\ BodySent(r) = ChunkedBody(r.chunks, r.last)
          /\ Payload(r) = FlattenSeq(r.chunks)
      BY <1>1, <1>6, Zenon DEF HeadSent, BodySent, h, x, Chunks, Payload
    <2>2. BodySent(r) = b
      BY <2>1 DEF ChunkedBody
    <2>3. EncodeResponse(r) = h \o (((x \o t) \o f) \o z)
      BY <1>6, Zenon DEF EncodeResponse, Encoded, h, x, t
    <2>4. f \in Seq(Nat) /\ z \in Seq(Nat) /\ b \in Seq(Nat) /\ Payload(r) \in Seq(Nat)
      <3>1. Encoded(r.chunks) \in Seq(Seq(Nat)) /\ FlattenSeq(r.chunks) \in Seq(Nat)
        BY <2>1, ChunksType, SofarFacts, Zenon
      <3>2. PICK F \in [Nat -> Seq(Nat)] : Grown(Encoded(r.chunks), F)
        BY <3>1, FlattenGrows, Zenon
      <3>3. f = F[Len(Encoded(r.chunks))] /\ Len(Encoded(r.chunks)) \in Nat
        BY <2>1, <3>2, ChunksType, Zenon DEF Grown
      <3>4. f \in Seq(Nat)
        BY <3>3
      <3>5. b \in Seq(Nat)
        BY <2>1, <2>2, AheadStarts, Zenon
      <3>6. QED
        BY <2>1, <3>1, <3>4, <3>5, LastChunk, Zenon
    <2> HIDE DEF f, z
    <2>5. RegroupsAll(Nat, x, t, f, z)
      BY <1>4, <2>4, FourParts, Zenon
    <2>6. ((x \o t) \o f) \o z = x \o (t \o b)
      BY <2>5, Zenon DEF RegroupsAll
    <2> HIDE DEF b
    <2>7. Regroups(Nat, x, t, b) /\ Regroups(Nat, h, x, b)
      BY <1>3, <1>4, <2>4, Assoc, Zenon
    <2> DEFINE g == h \o x
               w == t \o b
    <2>8. g \in Seq(Nat) /\ w \in Seq(Nat)
      BY <2>7, Zenon DEF Regroups
    <2>9. EncodeResponse(r) = h \o (x \o w)
      BY <2>3, <2>6, Zenon
    <2> HIDE DEF g, w
    <2>10. Regroups(Nat, h, x, w) /\ Regroups(Nat, g, t, b)
      BY <1>3, <1>4, <2>4, <2>8, Assoc, Zenon
    <2>11. h \o (x \o w) = g \o w
      BY <2>10, Zenon DEF Regroups, g
    <2>12. g \o w = (g \o t) \o b
      BY <2>10, Zenon DEF Regroups, w
    <2>13. EncodeResponse(r) = (g \o t) \o b
      BY <2>9, <2>11, <2>12, Zenon
    <2>14. HeadSent(r) = g
      BY <2>1 DEF g
    <2>15. QED
      BY <1>1, <1>3, <1>6, <2>1, <2>2, <2>4, <2>8, <2>13, <2>14, Zenon DEF h, t
  <1>7. QED
    BY <1>5, <1>6

-----------------------------------------------------------------------------
(* What has been read of a stream s, from its byte from + 1 to its k-th,   *)
(* and what is yet to come.                                                *)
Parted(read, rest, s, from, k) ==
  /\ k \in Nat /\ from <= k /\ k <= Len(s)
  /\ read = SubSeq(s, from + 1, k) /\ rest = SubSeq(s, k + 1, Len(s))
Reads(s, from, k) == Parted(buf, wire, s, from, k)

(* A stream with a part that was read ends where the reading ends.         *)
LEMMA Parts ==
  ASSUME NEW s \in Seq(Nat), NEW f \in Nat, NEW k \in Nat, NEW n \in Nat, f <= k, k + n <= Len(s)
  PROVE  /\ Len(SubSeq(s, k + 1, Len(s))) = Len(s) - k
         /\ Len(SubSeq(s, f + 1, k)) = k - f
         /\ SubSeq(SubSeq(s, k + 1, Len(s)), 1, n) = SubSeq(s, k + 1, k + n)
         /\ SubSeq(SubSeq(s, k + 1, Len(s)), n + 1, Len(s) - k) = SubSeq(s, k + n + 1, Len(s))
         /\ SubSeq(s, f + 1, k) \o SubSeq(s, k + 1, k + n) = SubSeq(s, f + 1, k + n)
  BY SMTT(40)

(* Taking bytes off the wire leaves a longer part of the same stream       *)
(* read.                                                                   *)
LEMMA TakeReads ==
  ASSUME NEW s \in Seq(Nat), NEW f \in Nat, NEW k, Reads(s, f, k), NEW n \in Nat, Take(n)
  PROVE  Parted(buf', wire', s, f, k + n) /\ k \in Nat /\ k + n <= Len(s)
  <1>1. k \in Nat /\ f <= k /\ Len(s) \in Nat /\ k <= Len(s)
    BY DEF Reads, Parted
  <1>2. Len(wire) = Len(s) - k /\ n <= Len(wire)
    BY <1>1, Parts DEF Reads, Parted, Take
  <1>3. k + n \in Nat /\ k + n <= Len(s) /\ f <= k + n
    BY <1>1, <1>2
  <1>4. buf' = SubSeq(s, f + 1, k + n) /\ wire' = SubSeq(s, k + n + 1, Len(s))
    <2>1. buf' = SubSeq(s, f + 1, k) \o SubSeq(SubSeq(s, k + 1, Len(s)), 1, n)
          /\ wire' = SubSeq(SubSeq(s, k + 1, Len(s)), n + 1, Len(s) - k)
      <3>1. Len(SubSeq(s, k + 1, Len(s))) = Len(s) - k
        BY <1>2 DEF Reads, Parted
      <3>2. buf' = buf \o SubSeq(wire, 1, n) /\ wire' = SubSeq(wire, n + 1, Len(wire))
        BY DEF Take
      <3>3. QED
        BY <3>1, <3>2, Zenon DEF Reads, Parted
    <2>3. SubSeq(s, f + 1, k) \o SubSeq(SubSeq(s, k + 1, Len(s)), 1, n) = SubSeq(s, f + 1, k + n)
      <3>1. SubSeq(SubSeq(s, k + 1, Len(s)), 1, n) = SubSeq(s, k + 1, k + n)
        BY <1>1, <1>3, Parts
      <3>2. SubSeq(s, f + 1, k) \o SubSeq(s, k + 1, k + n) = SubSeq(s, f + 1, k + n)
        BY <1>1, <1>3, Parts, SMTT(40)
      <3>3. QED
        BY <3>1, <3>2
    <2>4. SubSeq(SubSeq(s, k + 1, Len(s)), n + 1, Len(s) - k) = SubSeq(s, k + n + 1, Len(s))
      BY <1>1, <1>3, Parts
    <2>2. QED
      BY <2>1, <2>3, <2>4
  <1>5. QED
    BY <1>3, <1>4 DEF Reads, Parted

(* What a peer sends is unread when it starts.                             *)
LEMMA StartsReading ==
  ASSUME NEW s \in Seq(Nat), buf' = <<>>, wire' = s
  PROVE  Parted(buf', wire', s, 0, 0)
  <1>1. SubSeq(s, 1, 0) = <<>> /\ SubSeq(s, 1, Len(s)) = s /\ Len(s) \in Nat
    OBVIOUS
  <1>2. QED
    BY <1>1 DEF Reads, Parted

(* What follows an answer that has been read is what the origin says.      *)
LEMMA Joined ==
  ASSUME NEW a \in Seq(Nat), NEW r \in Seq(Nat)
  PROVE  /\ a \o r \in Seq(Nat) /\ Len(a \o r) = Len(a) + Len(r)
         /\ \A i \in 1..Len(a) : (a \o r)[i] = a[i]
         /\ \A n \in 0..Len(a) : SubSeq(a \o r, 1, n) = SubSeq(a, 1, n)
         /\ SubSeq(a, 1, Len(a)) = a
         /\ SubSeq(a \o r, Len(a) + 1, Len(a \o r)) = r
  OBVIOUS

-----------------------------------------------------------------------------
Stream == EncodeResponse(origin)

InHead == \E a \in Answers.http, k \in Nat : k <= Len(a) /\ Reads(a \o Stream, 0, k)
InAnswer(answers) == want <= 2 /\ \E a \in answers : Reads(a, 0, 2 - want)
InReply == want <= 4 /\ \E a \in Answers.reply : Reads(a \o Stream, 0, 4 - want)
InLength ==
  want <= 1 /\ \E a \in Answers.reply :
    /\ Len(a) >= 5 /\ Len(a) = 5 + a[5] + 2
    /\ Reads(a \o Stream, 4, 5 - want)
InAddress ==
  \E a \in Answers.reply, f \in Nat : want <= Len(a) /\ Reads(a \o Stream, f, Len(a) - want)

BytesInv ==
  /\ origin \in Responses /\ (phase \notin {"body", "done"} => want \in Nat)
  /\ phase \in {"request", "handle"} => want = 0
  /\ phase \in {"plan", "connect"} => wire = <<>> /\ want = 0
  /\ phase = "head" => want = 0 /\ InHead
  /\ phase = "method" => InAnswer(Answers.method)
  /\ phase = "auth" => InAnswer(Answers.auth)
  /\ phase = "reply" => InReply
  /\ phase = "length" => InLength
  /\ phase = "address" => InAddress
  /\ phase = "tunnel" => wire = Stream

(* A response is a stream of bytes.                                        *)
LEMMA StreamType ==
  ASSUME BytesInv
  PROVE  Stream \in Seq(Nat)
  <1>1. origin \in Responses
    BY DEF BytesInv
  <1>2. HeadSent(origin) \in Seq(Nat) /\ BodySent(origin) \in Seq(Nat)
        /\ EncodeResponse(origin) = (HeadSent(origin) \o EndOfHead) \o BodySent(origin)
    BY <1>1, ResponseParts, Zenon
  <1>3. EndOfHead \in Seq(Nat)
    BY DEF EndOfHead, CR, LF
  <1>4. EncodeResponse(origin) \in Seq(Nat)
    BY <1>2, <1>3, ThreeParts, Zenon
  <1>5. QED
    BY <1>4 DEF Stream

(* Nothing has been read of a request or of a plan at the start.           *)
LEMMA BytesInit == ExchangeInit => BytesInv
  BY DEF ExchangeInit, BytesInv

(* Reading leaves the reader further in the same answer.                   *)
LEMMA BytesReadExact ==
  ASSUME BytesInv, ReadExact, UNCHANGED origin
  PROVE  BytesInv'
  <1> PICK n \in 1..want : Take(n) /\ want' = want - n
    BY DEF ReadExact
  <1>1. n \in Nat /\ n <= want /\ want \in Nat /\ want' \in Nat /\ Stream' = Stream /\ phase' = phase
        /\ want > 0
    <2>1. want \in Nat /\ phase' = phase /\ Stream' = Stream /\ want > 0
      BY DEF BytesInv, ReadExact, Stream, Dialling
    <2>2. QED
      BY <2>1
  <1>2. Stream \in Seq(Nat)
    BY StreamType
  <1>3. ASSUME NEW answers, \A a \in answers : a \in Seq(Nat), InAnswer(answers)
        PROVE  InAnswer(answers)'
    <2> PICK a \in answers : Reads(a, 0, 2 - want)
      BY <1>3 DEF InAnswer, Reads
    <2>1. a \in Seq(Nat)
      BY <1>3
    <2>2. Parted(buf', wire', a, 0, (2 - want) + n)
      BY <1>1, <2>1, TakeReads
    <2>3. (2 - want) + n = 2 - want' /\ want' <= 2
      BY <1>1, <1>3 DEF InAnswer, Reads
    <2>4. QED
      BY <2>2, <2>3 DEF InAnswer, Reads
  <1>4. ASSUME NEW a \in Answers.reply, NEW f \in Nat, NEW k \in Nat, Reads(a \o Stream, f, k - want)
        PROVE  Parted(buf', wire', a \o Stream, f, k - want')
    <2>1. a \o Stream \in Seq(Nat)
      BY <1>2, PeerAssumption DEF WholeReply
    <2>2. Parted(buf', wire', a \o Stream, f, (k - want) + n)
      BY <1>1, <1>4, <2>1, TakeReads
    <2>3. (k - want) + n = k - want'
      BY <1>1
    <2>4. QED
      BY <2>2, <2>3
  <1>5. phase = "reply" => InReply'
    <2> SUFFICES ASSUME phase = "reply"
                 PROVE  InReply'
      OBVIOUS
    <2>1. want <= 4
      BY DEF BytesInv, InReply
    <2>2. PICK a \in Answers.reply : Reads(a \o Stream, 0, 4 - want)
      BY DEF BytesInv, InReply, Reads
    <2>3. 0 \in Nat /\ 4 \in Nat /\ want' <= 4
      BY <1>1, <2>1
    <2>4. Parted(buf', wire', a \o Stream, 0, 4 - want')
      BY <1>4, <2>2, <2>3, Zenon
    <2>5. QED
      BY <1>1, <2>3, <2>4, Zenon DEF InReply, Reads, Stream
  <1>6. phase = "length" => InLength'
    BY <1>1, <1>4 DEF BytesInv, InLength, Reads
  <1>7. phase = "address" => InAddress'
    <2> SUFFICES ASSUME phase = "address"
                 PROVE  InAddress'
      OBVIOUS
    <2>1. PICK a \in Answers.reply, f \in Nat : want <= Len(a) /\ Reads(a \o Stream, f, Len(a) - want)
      BY DEF BytesInv, InAddress, Reads
    <2>2. Len(a) \in Nat
      BY PeerAssumption DEF WholeReply
    <2>3. want' <= Len(a)
      BY <1>1, <2>1, <2>2
    <2>4. Parted(buf', wire', a \o Stream, f, Len(a) - want')
      BY <1>4, <2>1, <2>2, Zenon
    <2>5. QED
      BY <1>1, <2>3, <2>4, Zenon DEF InAddress, Reads, Stream
  <1>8. phase \in {"method", "auth"} => InAnswer(IF phase = "method" THEN Answers.method ELSE Answers.auth)'
    <2>1. phase = "method" => InAnswer(Answers.method)'
      BY <1>3, PeerAssumption DEF BytesInv
    <2>2. phase = "auth" => InAnswer(Answers.auth)'
      BY <1>3, PeerAssumption DEF BytesInv
    <2>3. QED
      BY <1>1, <2>1, <2>2
  <1>9. QED
    BY <1>1, <1>5, <1>6, <1>7, <1>8 DEF BytesInv, ReadExact, Dialling

(* A head is read to its end, and no byte further.                         *)
LEMMA BytesHead ==
  ASSUME BytesInv, ReadHttpHead \/ HttpConnected, UNCHANGED origin
  PROVE  BytesInv'
  <1>1. phase = "head" /\ want = 0 /\ want' = 0 /\ Stream' = Stream
    BY DEF BytesInv, ReadHttpHead, HttpConnected, Stream
  <1> PICK a \in Answers.http, k \in Nat : k <= Len(a) /\ Reads(a \o Stream, 0, k)
    BY <1>1 DEF BytesInv, InHead, Reads
  <1>2. Stream \in Seq(Nat) /\ a \in Seq(Nat) /\ a \o Stream \in Seq(Nat) /\ Len(a) \in Nat
    BY StreamType, PeerAssumption DEF WholeHead
  <1>3. buf = SubSeq(a, 1, k) /\ Len(buf) = k
    BY <1>2, Joined, SMTT(40) DEF Reads, Parted
  <1>4. ASSUME ReadHttpHead
        PROVE  phase' = "head" /\ InHead'
    <2>1. k # Len(a)
      <3>1. SubSeq(a, 1, Len(a)) = a /\ HeadCap \in Nat
        BY <1>2, DialAssumption
      <3>2. EndsHead(a) \/ Len(a) > HeadCap
        BY PeerAssumption DEF WholeHead
      <3>3. ~EndsHead(buf) /\ Len(buf) <= HeadCap
        BY <1>4 DEF ReadHttpHead
      <3>4. SUFFICES ASSUME k = Len(a)
                     PROVE  FALSE
        OBVIOUS
      <3>5. buf = a
        BY <1>3, <3>1, <3>4
      <3>6. QED
        BY <1>2, <3>1, <3>2, <3>3, <3>5
    <2>2. Parted(buf', wire', a \o Stream, 0, k + 1)
      BY <1>2, <1>4, TakeReads DEF ReadHttpHead
    <2>4. k + 1 <= Len(a) /\ k + 1 \in Nat
      BY <1>2, <2>1
    <2>3. QED
      BY <1>1, <1>4, <2>2, <2>4 DEF ReadHttpHead, InHead, Reads
  <1>5. ASSUME HttpConnected
        PROVE  phase' \in {"tunnel", "done"} /\ (phase' = "tunnel" => wire' = Stream)
    <2>1. CASE EndsHead(buf)
      <3>1. k = Len(a)
        BY <1>2, <1>3, <2>1, PeerAssumption DEF WholeHead
      <3>2. wire = Stream
        BY <1>2, <3>1, Joined DEF Reads, Parted
      <3>3. QED
        BY <1>5, <2>1, <3>2 DEF HttpConnected, EndWith
    <2>2. CASE ~EndsHead(buf)
      BY <1>5, <2>2 DEF HttpConnected, EndWith
    <2>3. QED
      BY <2>1, <2>2
  <1>6. CASE ReadHttpHead
    BY <1>1, <1>4, <1>6 DEF BytesInv
  <1>7. CASE HttpConnected
    BY <1>1, <1>5, <1>7 DEF BytesInv
  <1>8. QED
    BY <1>6, <1>7

(* Whoever is asked when nothing is left to read of what was said before   *)
(* answers from the first byte.                                            *)
LEMMA BytesAsk ==
  ASSUME BytesInv, UNCHANGED origin,
         HttpConnect({a \o EncodeResponse(origin) : a \in Answers.http}) \/ Greet(Answers.method)
         \/ OnMethod(Replies, Answers.auth) \/ OnAuth(Replies)
  PROVE  BytesInv'
  <1>1. Stream \in Seq(Nat) /\ Stream' = Stream
    BY StreamType DEF Stream
  <1>2. ASSUME NEW s \in Seq(Nat), wire = <<>>, wire' = wire \o s, buf' = <<>>
        PROVE  Parted(buf', wire', s, 0, 0)
    <2>1. <<>> \o s = s
      OBVIOUS
    <2>2. QED
      BY <1>2, <2>1, StartsReading
  <1>3. \A a \in Answers.method \cup Answers.auth : a \in Seq(Nat) /\ Len(a) = 2
    BY PeerAssumption
  <1>4. \A a \in Answers.reply \cup Answers.http : a \in Seq(Nat) /\ Len(a) \in Nat /\ a \o Stream \in Seq(Nat)
    BY <1>1, PeerAssumption DEF WholeReply, WholeHead
  <1>5. Read("method") \/ Read("auth") => wire = <<>>
    <2>1. ASSUME NEW a \in Answers.method \cup Answers.auth, Reads(a, 0, 2)
          PROVE  wire = <<>>
      BY <1>3, <2>1 DEF Reads, Parted
    <2>2. QED
      BY <2>1 DEF Read, BytesInv, InAnswer, Reads
  <1>6. ASSUME NEW saying, NEW answers, wire = <<>>, Ask("method", 2, saying, answers) \/ Ask("auth", 2, saying, answers),
               answers \subseteq Answers.method \cup Answers.auth
        PROVE  InAnswer(answers)' /\ want' = 2
    <2>1. PICK a \in answers : wire' = wire \o a /\ buf' = <<>> /\ want' = 2
      BY <1>6 DEF Ask
    <2>2. Parted(buf', wire', a, 0, 0)
      BY <1>2, <1>3, <1>6, <2>1
    <2>3. QED
      BY <2>1, <2>2 DEF InAnswer, Reads
  <1>7. ASSUME NEW saying, wire = <<>>, Ask("reply", 4, saying, Replies)
        PROVE  InReply' /\ want' = 4
    <2>1. PICK a \in Answers.reply : wire' = wire \o (a \o Stream) /\ buf' = <<>> /\ want' = 4
      BY <1>7 DEF Ask, Replies, Stream
    <2>2. Parted(buf', wire', a \o Stream, 0, 0)
      BY <1>2, <1>4, <1>7, <2>1
    <2>3. QED
      BY <1>1, <2>1, <2>2 DEF InReply, Reads
  <1>8. CASE HttpConnect({a \o EncodeResponse(origin) : a \in Answers.http})
    <2>1. wire = <<>>
      BY <1>8 DEF HttpConnect, BytesInv
    <2>2. PICK a \in Answers.http : wire' = wire \o (a \o Stream)
      BY <1>8 DEF HttpConnect, Ask, Stream
    <2>3. phase' = "head" /\ buf' = <<>> /\ want' = 0
      BY <1>8 DEF HttpConnect, Ask
    <2>4. Parted(buf', wire', a \o Stream, 0, 0) /\ 0 <= Len(a)
      <3>1. 0 <= Len(a)
        BY <1>4
      <3>2. Parted(buf', wire', a \o Stream, 0, 0)
        BY <1>2, <1>4, <2>1, <2>2, <2>3
      <3>3. QED
        BY <3>1, <3>2
    <2>5. InHead'
      BY <1>1, <2>4 DEF InHead, Reads
    <2>6. QED
      BY <2>3, <2>5 DEF BytesInv
  <1>9. CASE Greet(Answers.method)
    <2>1. wire = <<>> /\ phase' = "method"
      BY <1>9 DEF Greet, BytesInv, Ask
    <2>2. InAnswer(Answers.method)' /\ want' = 2
      BY <1>6, <1>9, <2>1 DEF Greet
    <2>3. QED
      BY <2>1, <2>2 DEF BytesInv
  <1>10. CASE OnMethod(Replies, Answers.auth)
    <2>1. wire = <<>>
      BY <1>5, <1>10 DEF OnMethod
    <2>2. CASE buf = <<5, 0>>
      <3>1. InReply' /\ want' = 4 /\ phase' = "reply"
        <4>1. Ask("reply", 4, <<Say("connect", None)>>, Replies)
          BY <1>10, <2>2 DEF OnMethod
        <4>2. QED
          BY <1>7, <2>1, <4>1 DEF Ask
      <3>2. QED
        BY <3>1 DEF BytesInv
    <2>3. CASE buf = <<5, 2>>
      <3>1. <<5, 2>> # <<5, 0>>
        OBVIOUS
      <3>2. Ask("auth", 2, <<Say("credentials", upstream.name)>>, Answers.auth)
        BY <1>10, <2>3, <3>1 DEF OnMethod
      <3>3. InAnswer(Answers.auth)' /\ want' = 2 /\ phase' = "auth"
        BY <1>6, <2>1, <3>2 DEF Ask
      <3>4. QED
        BY <3>3 DEF BytesInv
    <2>4. CASE buf # <<5, 0>> /\ buf # <<5, 2>>
      BY <1>10, <2>4 DEF OnMethod, BytesInv, EndWith
    <2>5. QED
      BY <2>2, <2>3, <2>4
  <1>11. CASE OnAuth(Replies)
    <2>1. wire = <<>>
      BY <1>5, <1>11 DEF OnAuth
    <2>2. CASE buf = <<1, 0>>
      <3>1. InReply' /\ want' = 4 /\ phase' = "reply"
        BY <1>7, <1>11, <2>1, <2>2 DEF OnAuth, Ask
      <3>2. QED
        BY <3>1 DEF BytesInv
    <2>3. CASE buf # <<1, 0>>
      BY <1>11, <2>3 DEF OnAuth, BytesInv, EndWith
    <2>4. QED
      BY <2>2, <2>3
  <1>12. QED
    BY <1>8, <1>9, <1>10, <1>11

(* The bound address is as long as its type or its length says.            *)
LEMMA BytesSocks5 ==
  ASSUME BytesInv, Socks5, UNCHANGED origin
  PROVE  BytesInv'
  <1>1. Stream \in Seq(Nat) /\ Stream' = Stream /\ wire' = wire
    BY StreamType DEF Stream, Socks5, OnReply, OnLength, Drained
  <1>2. \A a \in Answers.reply : a \in Seq(Nat) /\ Len(a) \in Nat /\ Len(a) >= 4 /\ a \o Stream \in Seq(Nat)
    BY <1>1, PeerAssumption DEF WholeReply
  <1>3. ASSUME NEW s \in Seq(Nat), NEW f \in Nat, NEW k \in Nat, Reads(s, f, k), buf' = <<>>
        PROVE  Parted(buf', wire', s, k, k)
    <2>1. SubSeq(s, k + 1, k) = <<>>
      OBVIOUS
    <2>2. QED
      BY <1>1, <1>3, <2>1 DEF Reads, Parted
  <1>4. CASE OnReply
    <2>1. want = 0 /\ phase = "reply"
      BY <1>4 DEF OnReply, Read
    <2>2. PICK a \in Answers.reply : Reads(a \o Stream, 0, 4)
      BY <2>1 DEF BytesInv, InReply, Reads
    <2>3. a \in Seq(Nat) /\ Len(a) >= 4 /\ Len(a) \in Nat
      BY <1>2
    <2>4. buf[1] = a[1] /\ buf[2] = a[2] /\ buf[4] = a[4]
      <3>1. buf = SubSeq(a, 1, 4)
        BY <1>1, <2>2, <2>3, Joined, SMTT(30) DEF Reads, Parted
      <3>2. QED
        BY <2>3, <3>1
    <2>5. CASE buf[1] # 5 \/ buf[2] # 0 \/ buf[4] \notin {1, 3, 4}
      <3>1. phase' = "done" /\ want' = want /\ want \in Nat /\ origin' \in Responses
        <4>1. EndWith("transport_error") /\ UNCHANGED <<buf, want>>
          BY <1>4, <2>5, Zenon DEF OnReply
        <4>2. QED
          BY <2>1, <4>1 DEF EndWith, BytesInv
      <3>2. QED
        BY <3>1 DEF BytesInv
    <2>6. CASE buf[1] = 5 /\ buf[2] = 0 /\ buf[4] \in {1, 3, 4}
      <3>1. buf' = <<>> /\ (buf[4] = 1 => phase' = "address" /\ want' = 6)
            /\ (buf[4] = 3 => phase' = "length" /\ want' = 1) /\ (buf[4] = 4 => phase' = "address" /\ want' = 18)
        <4>1. (CASE buf[4] = 1 -> Expect("address", 4 + 2) [] buf[4] = 3 -> Expect("length", 1)
                 [] buf[4] = 4 -> Expect("address", 16 + 2))
          BY <1>4, <2>6, Zenon DEF OnReply
        <4>2. (buf[4] = 1 => Expect("address", 6)) /\ (buf[4] = 3 => Expect("length", 1))
              /\ (buf[4] = 4 => Expect("address", 18))
          <5>1. 4 + 2 = 6 /\ 16 + 2 = 18 /\ 1 # 3 /\ 1 # 4 /\ 3 # 4
            OBVIOUS
          <5>2. CASE buf[4] = 1
            BY <4>1, <5>1, <5>2
          <5>3. CASE buf[4] = 3
            BY <4>1, <5>1, <5>3
          <5>4. CASE buf[4] = 4
            BY <4>1, <5>1, <5>4
          <5>5. QED
            BY <2>6, <5>2, <5>3, <5>4
        <4>3. QED
          BY <2>6, <4>2 DEF Expect
      <3>2. Parted(buf', wire', a \o Stream, 4, 4)
        BY <1>2, <1>3, <2>2, <3>1
      <3>3. (a[4] = 1 => Len(a) = 10) /\ (a[4] = 3 => Len(a) >= 5 /\ Len(a) = 5 + a[5] + 2) /\ (a[4] = 4 => Len(a) = 22)
        <4>1. WholeReply(a) /\ a[1] = 5 /\ a[2] = 0
          BY <2>4, <2>6, PeerAssumption
        <4>2. QED
          BY <4>1 DEF WholeReply
      <3>4. CASE a[4] = 3
        <4>1. InLength'
          BY <1>1, <2>4, <3>1, <3>2, <3>3, <3>4 DEF InLength, Reads
        <4>2. QED
          BY <1>4, <2>4, <3>1, <3>4, <4>1 DEF BytesInv
      <3>5. CASE a[4] \in {1, 4}
        <4>1. Len(a) - want' = 4 /\ want' <= Len(a)
          <5>1. a[4] = 1 => want' = 6 /\ Len(a) = 10
            BY <2>4, <3>1, <3>3
          <5>2. a[4] = 4 => want' = 18 /\ Len(a) = 22
            BY <2>4, <3>1, <3>3
          <5>6. 10 - 6 = 4 /\ 6 <= 10 /\ 22 - 18 = 4 /\ 18 <= 22
            OBVIOUS
          <5>3. CASE a[4] = 1
            BY <5>1, <5>3, <5>6, Zenon
          <5>4. CASE a[4] = 4
            BY <5>2, <5>4, <5>6, Zenon
          <5>5. QED
            BY <3>5, <5>3, <5>4
        <4>2. InAddress'
          BY <1>1, <3>2, <4>1 DEF InAddress, Reads
        <4>3. QED
          BY <1>4, <2>4, <3>1, <3>5, <4>2 DEF BytesInv
      <3>6. QED
        BY <2>4, <2>6, <3>4, <3>5
    <2>7. QED
      BY <2>5, <2>6
  <1>5. CASE OnLength
    <2>1. want = 0 /\ phase = "length"
      BY <1>5 DEF OnLength, Read
    <2>2. PICK a \in Answers.reply : Len(a) >= 5 /\ Len(a) = 5 + a[5] + 2 /\ Reads(a \o Stream, 4, 5)
      BY <2>1 DEF BytesInv, InLength, Reads
    <2>3. buf[1] = a[5] /\ a[5] \in Nat
      <3>1. (a \o Stream)[5] = a[5] /\ Len(a \o Stream) >= 5
        BY <1>1, <1>2, <2>2, Joined
      <3>2. buf = SubSeq(a \o Stream, 5, 5)
        BY <2>2 DEF Reads, Parted
      <3>3. QED
        BY <1>2, <2>2, <3>1, <3>2, SMTT(40)
    <2>4. phase' = "address" /\ buf' = <<>> /\ want' = a[5] + 2
      BY <1>5, <2>3 DEF OnLength, Expect, Drain
    <2>5. Parted(buf', wire', a \o Stream, 5, 5)
      BY <1>2, <1>3, <2>2, <2>4
    <2>6. Len(a) - want' = 5 /\ want' <= Len(a) /\ want' \in Nat
      <3>1. Len(a) = 5 + a[5] + 2 /\ a[5] \in Nat /\ want' = a[5] + 2
        BY <2>2, <2>3, <2>4
      <3>2. QED
        BY <3>1
    <2>7. InAddress'
      BY <1>1, <2>5, <2>6 DEF InAddress, Reads
    <2>8. QED
      BY <2>4, <2>6, <2>7 DEF BytesInv
  <1>6. CASE Drained
    <2>1. want = 0 /\ phase = "address" /\ phase' = "tunnel" /\ want' = 0
      BY <1>6 DEF Drained, Read, Expect
    <2>2. PICK a \in Answers.reply, f \in Nat : Reads(a \o Stream, f, Len(a) - want)
      BY <2>1 DEF BytesInv, InAddress, Reads
    <2>3. wire = Stream
      <3>1. Len(a) - want = Len(a)
        BY <1>2, <2>1
      <3>2. wire = SubSeq(a \o Stream, Len(a) + 1, Len(a \o Stream))
        BY <2>2, <3>1 DEF Reads, Parted
      <3>3. QED
        BY <1>1, <1>2, <3>2, Joined
    <2>4. QED
      BY <1>1, <2>1, <2>3 DEF BytesInv
  <1>7. QED
    BY <1>4, <1>5, <1>6 DEF Socks5

(* Every step keeps the place in the upstream's answer, or in the          *)
(* origin's stream.                                                        *)
LEMMA BytesStep == BytesInv /\ [ExchangeNext]_exchangeVars => BytesInv'
  <1> SUFFICES ASSUME BytesInv, [ExchangeNext]_exchangeVars
               PROVE  BytesInv'
    OBVIOUS
  <1>1. CASE Dials
    <2>1. UNCHANGED origin
      BY <1>1 DEF Dials
    <2>2. CASE ResolvePlan \/ DialFails \/ ConnectDirect(EncodeResponse(origin))
      BY <2>1, <2>2
      DEF ResolvePlan, DialFails, ConnectDirect, EndWith, BytesInv, Stream
    <2>3. QED
      BY <1>1, <2>1, <2>2, BytesReadExact, BytesHead, BytesAsk, BytesSocks5 DEF Dials
  <1>2. CASE ReadHead \/ HeadTooLarge \/ RequestTimesOut \/ TooManyRequests \/ ResponseFails \/ SendRequest
             \/ ReadCapped \/ ResponseEnds \/ ReadBody \/ HandleRequest
    BY <1>2 DEF ReadHead, HeadTooLarge, RequestTimesOut, TooManyRequests, ResponseFails, SendRequest,
       ReadCapped, ResponseEnds, ReadBody, HandleRequest, EndWith, BytesInv
  <1>3. CASE HeadRead \/ BodyRead \/ RequestCut
    <2>1. ASSUME HeadRead
          PROVE  BytesInv'
      <3>1. CASE Declared(BeforeHead(buf)) > MaxRequestBody
        BY <2>1, <3>1 DEF HeadRead, EndWith, BytesInv
      <3>2. CASE ~(Declared(BeforeHead(buf)) > MaxRequestBody)
        <4>1. phase' = "body" /\ want' = Declared(BeforeHead(buf)) /\ origin' = origin
          BY <2>1, <3>2 DEF HeadRead
        <4>2. QED
          BY <4>1 DEF BytesInv
      <3>3. QED
        BY <3>1, <3>2
    <2>2. CASE BodyRead \/ RequestCut
      <3>1. origin' = origin /\ ((phase' = "handle" /\ want' = 0) \/ phase' = "done")
        BY <2>2, Zenon DEF BodyRead, RequestCut, Handle, EndWith
      <3>2. QED
        BY <3>1 DEF BytesInv
    <2>3. QED
      BY <1>3, <2>1, <2>2
  <1>4. CASE UNCHANGED exchangeVars
    <2>1. phase' = phase /\ want' = want /\ wire' = wire /\ buf' = buf /\ origin' = origin
      BY <1>4 DEF exchangeVars, dialling
    <2>2. Stream' = Stream
      BY <2>1 DEF Stream
    <2> USE DEF Reads, Parted
    <2>3. (InHead <=> InHead') /\ (InReply <=> InReply') /\ (InLength <=> InLength') /\ (InAddress <=> InAddress')
      BY <2>1, <2>2, Zenon DEF InHead, InReply, InLength, InAddress
    <2>4. \A answers : InAnswer(answers) <=> InAnswer(answers)'
      BY <2>1, Zenon DEF InAnswer
    <2>5. QED
      BY <2>1, <2>2, <2>3, <2>4 DEF BytesInv
  <1>5. QED
    BY <1>1, <1>2, <1>3, <1>4 DEF ExchangeNext, Done

(* Whatever an upstream answers and however its bytes arrive, the stream   *)
(* that the dialer (socks5_connect, http_connect) hands over is the        *)
(* origin's from its first byte: not one byte of a reply, a bound address  *)
(* or a CONNECT head is left in it, and none of the origin's is taken.     *)
THEOREM StreamSound == ExchangeSpec => []StreamIsTheOrigins
  <1>1. BytesInv => StreamIsTheOrigins
    BY DEF BytesInv, StreamIsTheOrigins, Stream
  <1>2. QED
    BY <1>1, BytesInit, BytesStep, PTL DEF ExchangeSpec

-----------------------------------------------------------------------------
(* The egress. What an upstream was told is nothing or its own name.       *)

Saying == [what : {"connect", "offer both", "offer none", "credentials"}, name : {None, upstream.name}]

AsResolved ==
  /\ plan \in AllPlans /\ Refusal(plan) = None /\ upstream = Resolved(plan)
  /\ told \in Seq(Saying)

LedInv ==
  /\ phase # "done" => outcome = None
  /\ phase \in Reading \cup {"handle", "plan"} => told = <<>> /\ upstream = None
  /\ phase = "plan" => plan \in AllPlans
  /\ phase = "connect" => AsResolved /\ told = <<>>
  /\ phase \in Dialling \ {"connect"} => AsResolved /\ upstream # None /\ told # <<>>
  /\ phase \in {"tunnel", "response"} => AsResolved /\ (upstream = None <=> told = <<>>)
  /\ phase = "done" /\ outcome.kind = "ok" =>
       AsResolved /\ (upstream = None <=> told = <<>>) /\ outcome.class = TruthfulClass

(* No plan is resolved and nobody told anything at the start.              *)
LEMMA LedInit == ExchangeInit => LedInv
  <1> SUFFICES ASSUME ExchangeInit
               PROVE  LedInv
    OBVIOUS
  <1>1. phase \in {"request", "plan"} /\ told = <<>> /\ upstream = None /\ outcome = None
        /\ (phase = "plan" => plan \in AllPlans)
    BY DEF ExchangeInit, AllPlans
  <1>2. QED
    BY <1>1 DEF LedInv, Dialling

(* Failing is not succeeding.                                              *)
LEMMA LedFails ==
  ASSUME NEW kind, EndWith(kind), kind # "ok"
  PROVE  LedInv'
  <1>1. phase' = "done" /\ outcome'.kind # "ok"
    BY DEF EndWith
  <1>2. QED
    BY <1>1 DEF LedInv, Reading, Dialling

(* What resolved stays as it is while the conversation goes on.            *)
LEMMA SayingStays == upstream' = upstream => Saying' = Saying
  BY DEF Saying

(* What a plan resolved to is as the plan and its upstream are.            *)
LEMMA ResolvedStays ==
  ASSUME AsResolved, UNCHANGED <<plan, upstream>>, told' = told
  PROVE  AsResolved'
  <1>1. Saying' = Saying
    BY SayingStays
  <1>2. QED
    BY <1>1 DEF AsResolved

(* A name told to the upstream is its own.                                 *)
LEMMA ResolvedSays ==
  ASSUME AsResolved, UNCHANGED <<plan, upstream>>, NEW said \in Saying, told' = told \o <<said>>
  PROVE  AsResolved' /\ told' # <<>>
  <1>1. Saying' = Saying
    BY SayingStays
  <1>2. told' \in Seq(Saying) /\ told' # <<>>
    BY DEF AsResolved
  <1>3. QED
    BY <1>1, <1>2 DEF AsResolved

(* A plan that is not refused is dialled as it resolves.                   *)
LEMMA LedResolves ==
  ASSUME LedInv, ResolvePlan
  PROVE  LedInv'
  <1>1. phase = "plan" /\ told' = <<>> /\ plan' = plan /\ plan \in AllPlans /\ outcome = None
    BY DEF LedInv, ResolvePlan
  <1>2. CASE Refusal(plan) # None
    <2>1. EndWith(Refusal(plan))
      BY <1>2 DEF ResolvePlan
    <2>2. Refusal(plan) # "ok"
      BY <1>2 DEF Refusal
    <2>3. QED
      BY <2>1, <2>2, LedFails
  <1>3. CASE Refusal(plan) = None
    <2>1. phase' = "connect" /\ upstream' = Resolved(plan) /\ outcome' = None
      BY <1>1, <1>3 DEF ResolvePlan
    <2>2. AsResolved'
      BY <1>1, <1>3, <2>1 DEF AsResolved
    <2>3. QED
      BY <1>1, <2>1, <2>2 DEF LedInv, Reading, Dialling
  <1>4. QED
    BY <1>2, <1>3

(* A step of the dialer that asks nothing leaves what was resolved.        *)
LEMMA LedSteps ==
  ASSUME LedInv, ReadExact \/ ConnectDirect(EncodeResponse(origin)) \/ ReadHttpHead \/ Socks5 \/ HttpConnected
  PROVE  LedInv'
  <1>1. phase \in Dialling /\ UNCHANGED <<plan, upstream, told>>
    BY Zenon DEF ReadExact, ConnectDirect, ReadHttpHead, Socks5, OnReply, OnLength, Drained, HttpConnected,
       Read, Dialling
  <1>2. \/ EndWith("transport_error") \/ EndWith("proxy_auth_error")
        \/ outcome' = outcome /\ phase \in Dialling \ {"connect"} /\ phase' \in (Dialling \ {"connect"}) \cup {"tunnel"}
        \/ outcome' = outcome /\ phase = "connect" /\ upstream = None /\ phase' = "tunnel"
        \/ outcome' = outcome /\ phase' = phase
    <2>1. CASE ReadExact \/ ReadHttpHead
      BY <2>1 DEF ReadExact, ReadHttpHead
    <2>2. CASE ConnectDirect(EncodeResponse(origin))
      BY <2>2 DEF ConnectDirect
    <2>3. CASE Socks5
      <3>1. CASE OnReply
        BY <3>1 DEF OnReply, Read, Expect, Dialling
      <3>2. CASE OnLength \/ Drained
        BY <3>2 DEF OnLength, Drained, Read, Expect, Dialling
      <3>3. QED
        BY <2>3, <3>1, <3>2 DEF Socks5
    <2>4. CASE HttpConnected
      BY <2>4 DEF HttpConnected, ClassifyConnectStatus, Dialling
    <2>5. QED
      BY <2>1, <2>2, <2>3, <2>4
  <1>3. AsResolved'
    BY <1>1, ResolvedStays DEF LedInv, Dialling
  <1>4. outcome = None
    BY <1>1 DEF LedInv, Dialling
  <1>5. CASE outcome' = outcome /\ phase' = phase
    BY <1>1, <1>3, <1>4, <1>5 DEF LedInv, Dialling, Reading
  <1>6. CASE outcome' = outcome /\ phase \in Dialling \ {"connect"} /\ phase' \in (Dialling \ {"connect"}) \cup {"tunnel"}
    BY <1>1, <1>3, <1>4, <1>6 DEF LedInv, Dialling, Reading
  <1>7. CASE outcome' = outcome /\ phase = "connect" /\ upstream = None /\ phase' = "tunnel"
    BY <1>1, <1>3, <1>4, <1>7 DEF LedInv, Dialling, Reading
  <1>8. QED
    BY <1>2, <1>5, <1>6, <1>7, LedFails

(* Whatever is asked of the upstream is asked of one, under its name.      *)
LEMMA LedAsks ==
  ASSUME LedInv, NEW next \in Dialling \ {"connect"}, NEW n, NEW said \in Saying, NEW answers,
         phase \in Dialling, upstream # None, Ask(next, n, <<said>>, answers), UNCHANGED <<plan, upstream, outcome>>
  PROVE  LedInv'
  <1>1. AsResolved /\ outcome = None
    BY DEF LedInv, Dialling
  <1>2. AsResolved' /\ told' # <<>>
    BY <1>1, ResolvedSays DEF Ask
  <1>3. phase' = next
    BY DEF Ask
  <1>4. QED
    BY <1>1, <1>2, <1>3 DEF LedInv, Dialling, Reading

(* The conversation says only what the resolved name allows.               *)
LEMMA LedConverses ==
  ASSUME LedInv, NEW A, NEW B,
         HttpConnect(A) \/ Greet(A) \/ OnMethod(A, B) \/ OnAuth(A)
  PROVE  LedInv'
  <1>1. phase \in Dialling /\ upstream # None /\ UNCHANGED <<plan, upstream>>
    BY DEF LedInv, HttpConnect, Greet, OnMethod, OnAuth, Read, Dialling
  <1>2. \A what \in {"connect", "offer both", "offer none", "credentials"} :
          Say(what, None) \in Saying /\ Say(what, upstream.name) \in Saying
    BY DEF Saying, Say
  <1>8. {"head", "method", "auth", "reply"} \subseteq Dialling \ {"connect"}
    BY DEF Dialling
  <1>9. ASSUME NEW next \in {"head", "method", "auth", "reply"}, NEW n, NEW said \in Saying, NEW answers,
               Ask(next, n, <<said>>, answers), outcome' = outcome
        PROVE  LedInv'
    BY <1>1, <1>8, <1>9, LedAsks
  <1>3. CASE HttpConnect(A)
    <2>1. Say("connect", IF HasCredentials THEN upstream.name ELSE None) \in Saying
      BY <1>2
    <2>2. QED
      BY <1>1, <1>3, <2>1, <1>9 DEF HttpConnect
  <1>4. CASE Greet(A)
    <2>1. Say(IF HasCredentials THEN "offer both" ELSE "offer none", None) \in Saying
      BY <1>2
    <2>2. QED
      BY <1>1, <1>4, <2>1, <1>9 DEF Greet
  <1>5. CASE OnMethod(A, B)
    <2>1. <<5, 0>> # <<5, 2>>
      OBVIOUS
    <2>2. CASE buf = <<5, 0>>
      <3>1. Ask("reply", 4, <<Say("connect", None)>>, A) /\ outcome' = outcome
        BY <1>5, <2>1, <2>2, Zenon DEF OnMethod
      <3>2. QED
        BY <1>1, <1>2, <1>9, <3>1
    <2>3. CASE buf = <<5, 2>>
      <3>1. Ask("auth", 2, <<Say("credentials", upstream.name)>>, B) /\ outcome' = outcome
        BY <1>5, <2>1, <2>3, Zenon DEF OnMethod
      <3>2. QED
        BY <1>1, <1>2, <1>9, <3>1
    <2>4. CASE buf # <<5, 0>> /\ buf # <<5, 2>>
      <3>1. EndWith("transport_error")
        BY <1>5, <2>4, Zenon DEF OnMethod
      <3>2. QED
        BY <3>1, LedFails
    <2>5. QED
      BY <2>2, <2>3, <2>4
  <1>6. CASE OnAuth(A)
    <2>1. CASE buf = <<1, 0>>
      <3>1. Ask("reply", 4, <<Say("connect", None)>>, A) /\ outcome' = outcome
        BY <1>6, <2>1, Zenon DEF OnAuth
      <3>2. QED
        BY <1>1, <1>2, <1>9, <3>1
    <2>2. CASE buf # <<1, 0>>
      <3>1. EndWith("proxy_auth_error")
        BY <1>6, <2>2, Zenon DEF OnAuth
      <3>2. QED
        BY <3>1, LedFails
    <2>3. QED
      BY <2>1, <2>2
  <1>7. QED
    BY <1>3, <1>4, <1>5, <1>6

(* Before there is a plan nobody was told anything.                        *)
LEMMA LedServes ==
  ASSUME LedInv, phase \in Reading \cup {"handle"}, phase' \in Reading \cup {"handle"},
         UNCHANGED <<upstream, told, outcome>>
  PROVE  LedInv'
  BY DEF LedInv, Reading, Dialling

(* A handled request has a fresh plan.                                     *)
LEMMA LedHandles ==
  ASSUME LedInv, HandleRequest
  PROVE  LedInv'
  <1>1. phase = "handle" /\ UNCHANGED <<upstream, told>> /\ upstream = None /\ told = <<>> /\ outcome = None
    BY DEF LedInv, HandleRequest
  <1>2. CASE Verdict(parsed) # None
    <2>1. EndWith(Verdict(parsed))
      BY <1>2 DEF HandleRequest
    <2>2. Verdict(parsed) # "ok"
      BY <1>2 DEF Verdict
    <2>3. QED
      BY <2>1, <2>2, LedFails
  <1>3. CASE Verdict(parsed) = None
    <2>1. phase' = "plan" /\ outcome' = outcome /\ plan' = ServerPlan(Url(parsed.body))
      BY <1>3 DEF HandleRequest
    <2>2. Url(parsed.body) \in DOMAIN Upstreams
      <3>1. Url(parsed.body) # None
        BY <1>3, ClientAssumption DEF Verdict
      <3>2. QED
        BY <3>1, Zenon DEF Url
    <2>3. QED
      BY <1>1, <2>1, <2>2 DEF LedInv, Reading, Dialling, AllPlans
  <1>4. QED
    BY <1>2, <1>3

(* A response changes neither the plan nor what was told.                  *)
LEMMA LedResponds ==
  ASSUME LedInv, SendRequest \/ ReadCapped \/ ResponseEnds
  PROVE  LedInv'
  <1>1. phase \in {"tunnel", "response"} /\ UNCHANGED <<plan, upstream, told>>
    BY DEF SendRequest, ReadCapped, ResponseEnds
  <1>2. AsResolved /\ (upstream = None <=> told = <<>>) /\ outcome = None /\ TruthfulClass' = TruthfulClass
    BY <1>1 DEF LedInv, TruthfulClass
  <1>3. AsResolved'
    BY <1>1, <1>2, ResolvedStays
  <1>4. CASE SendRequest \/ ReadCapped
    BY <1>1, <1>2, <1>3, <1>4 DEF SendRequest, ReadCapped, LedInv, Reading, Dialling
  <1>5. CASE ResponseEnds
    <2>1. PICK cutOff : outcome' = Parsed(buf, cutOff) /\ phase' = "done"
      BY <1>5 DEF ResponseEnds
    <2>2. outcome'.kind = "ok" => outcome'.class = TruthfulClass
      BY <2>1 DEF Parsed
    <2>3. QED
      BY <1>1, <1>2, <1>3, <2>1, <2>2 DEF LedInv, Reading, Dialling
  <1>6. QED
    BY <1>4, <1>5

(* Every step keeps the dialled upstream as resolve_proxy_plan resolved    *)
(* it.                                                                     *)
LEMMA LedStep == LedInv /\ [ExchangeNext]_exchangeVars => LedInv'
  <1> SUFFICES ASSUME LedInv, [ExchangeNext]_exchangeVars
               PROVE  LedInv'
    OBVIOUS
  <1>1. CASE Dials
    <2>1. CASE DialFails
      <3>1. PICK kind \in {"transport_error", "timeout"} : EndWith(kind)
        BY <2>1 DEF DialFails
      <3>2. QED
        BY <3>1, LedFails
    <2>2. QED
      BY <1>1, <2>1, LedResolves, LedSteps, LedConverses DEF Dials
  <1>2. CASE HeadTooLarge \/ RequestTimesOut
    BY <1>2, LedFails DEF HeadTooLarge, RequestTimesOut
  <1>3. CASE TooManyRequests \/ ResponseFails
    BY <1>3, LedFails DEF TooManyRequests, ResponseFails
  <1>4. CASE ReadHead \/ ReadBody
    <2>1. CASE ReadBody /\ Len(buf') > MaxRequestBody
      <3>1. phase = "body" /\ EndWith("invalid_product_option") /\ UNCHANGED <<plan, upstream, told>>
        BY <2>1 DEF ReadBody
      <3>2. QED
        BY <3>1, LedFails
    <2>2. CASE ReadHead \/ (ReadBody /\ ~(Len(buf') > MaxRequestBody))
      BY <2>2, LedServes DEF ReadHead, ReadBody, Reading
    <2>3. QED
      BY <1>4, <2>1, <2>2
  <1>5. CASE BodyRead
    BY <1>5, LedServes DEF BodyRead, Reading, Handle
  <1>6. CASE HeadRead
    <2>1. EndWith("invalid_product_option") \/ (phase' = "body" /\ UNCHANGED outcome)
      BY <1>6 DEF HeadRead
    <2>2. phase = "request" /\ UNCHANGED <<upstream, told>>
      BY <1>6 DEF HeadRead
    <2>3. QED
      BY <2>1, <2>2, LedFails, LedServes DEF Reading
  <1>7. CASE RequestCut
    <2>1. EndWith("io_error") \/ (phase' = "handle" /\ UNCHANGED outcome)
      BY <1>7 DEF RequestCut, Handle
    <2>2. phase \in Reading /\ UNCHANGED <<upstream, told>>
      BY <1>7 DEF RequestCut
    <2>3. QED
      BY <2>1, <2>2, LedFails, LedServes
  <1>8. CASE UNCHANGED exchangeVars
    <2>1. UNCHANGED <<phase, plan, upstream, told, outcome>>
      BY <1>8 DEF exchangeVars, dialling
    <2>2. AsResolved' = AsResolved /\ TruthfulClass' = TruthfulClass
      BY <2>1 DEF AsResolved, Saying, TruthfulClass
    <2>3. QED
      BY <2>1, <2>2 DEF LedInv
  <1>9. QED
    BY <1>1, <1>2, <1>3, <1>4, <1>5, <1>6, <1>7, <1>8, LedHandles, LedResponds DEF ExchangeNext, Done

(* What resolved so, and was told so, is what the caller asked for.        *)
LEMMA LedImpliesClass == LedInv => ClassIsDialled
  <1> SUFFICES ASSUME LedInv, outcome # None, outcome.kind = "ok"
               PROVE  /\ (outcome.class = "direct") = (told = <<>>)
                      /\ RequiresUpstream(plan.required) => outcome.class = plan.required
                      /\ plan.explicit # None => upstream # None /\ upstream.kind = plan.explicit.kind
                      /\ \A i \in DOMAIN told : told[i].name # None =>
                           told[i].name = RenderUsername(ResolveProxy(plan).name, plan.username)
    BY DEF ClassIsDialled
  <1> DEFINE url == ResolveProxy(plan)
  <1>1. AsResolved /\ (upstream = None <=> told = <<>>) /\ outcome.class = TruthfulClass
    BY DEF LedInv
  <1>2. upstream = None <=> url = None
    BY <1>1, PlanAssumption DEF AsResolved, Resolved
  <1>3. url # None => /\ upstream.kind = url.kind /\ upstream.class = ClassOf(plan)
                      /\ upstream.name = RenderUsername(url.name, plan.username)
    BY <1>1 DEF AsResolved, Resolved
  <1>4. ClassOf(plan) # "direct" /\ (RequiresUpstream(plan.required) => ClassOf(plan) = plan.required)
    BY DEF ClassOf, RequiresUpstream
  <1>5. RequiresUpstream(plan.required) => url # None
    BY <1>1, DialAssumption DEF AsResolved, Refusal
  <1>6. plan.explicit # None => url = plan.explicit
    BY DEF ResolveProxy
  <1>7. \A i \in DOMAIN told : told # <<>> /\ told[i].name \in {None, upstream.name}
    <2>1. \A i \in DOMAIN told : told[i] \in Saying /\ told # <<>>
      BY <1>1 DEF AsResolved
    <2>2. \A said \in Saying : said.name \in {None, upstream.name}
      BY DEF Saying
    <2>3. QED
      BY <2>1, <2>2
  <1> HIDE DEF url
  <1>8. QED
    BY <1>1, <1>2, <1>3, <1>4, <1>5, <1>6, <1>7 DEF TruthfulClass, url

(* Whatever the plan, the environment and the upstreams' answers: a        *)
(* refused plan dials nobody, a class that needs an upstream is never      *)
(* dialled directly, the class reported is the truth about the             *)
(* connection, credentials go to their upstream and no other, and the      *)
(* stream is the origin's.                                                 *)
THEOREM DialFaithful == ExchangeSpec => []DialIsFaithful
  <1>1. BytesInv => StreamIsTheOrigins
    BY DEF BytesInv, StreamIsTheOrigins, Stream
  <1>2. BytesInv /\ LedInv => DialIsFaithful
    BY <1>1, LedImpliesClass DEF DialIsFaithful
  <1>3. QED
    BY <1>2, BytesInit, BytesStep, LedInit, LedStep, PTL DEF ExchangeSpec

-----------------------------------------------------------------------------
(* Where a head ends. Its words, its line ends and its length are told     *)
(* apart, so the first blank line is the one after the length.             *)
HeadOf(q) ==
  <<q.method, q.path, CR, LF>> \o (IF q.secret = None THEN <<>> ELSE <<q.secret, CR, LF>>) \o <<Length(q.length)>>

(* q's words are words, and b begins as its head does.                     *)
Words(q) ==
  /\ {q.method, q.path} \subseteq Word \ {Secret} /\ q.secret \in Word \cup {None}
  /\ q.length \in 0..22 /\ q.body \in Seq(Nat)

(* A client's request is made of words.                                    *)
LEMMA RequestWords == \A q \in Requests : Words(q)
  <1>1. Open - Length(0) - 1 = 22
    BY DEF Open, Length
  <1>2. QED
    BY <1>1, ClientAssumption DEF Words

(* The numbers in a request.                                               *)
LEMMA WordsType ==
  ASSUME NEW q, Words(q)
  PROVE  /\ q.method \in Nat /\ q.method # 13 /\ q.path \in Nat /\ q.path # 13
         /\ q.secret # None => q.secret \in Nat /\ q.secret # 13
         /\ q.length \in Nat /\ q.length <= 22 /\ q.body \in Seq(Nat)
  <1>1. q.method \in Word /\ q.path \in Word /\ q.secret \in Word \cup {None} /\ q.length \in 0..22 /\ q.body \in Seq(Nat)
    BY DEF Words
  <1>2. q.length \in Nat /\ q.length <= 22
    <2>1. \A l \in 0..22 : l \in Nat /\ l <= 22
      OBVIOUS
    <2>2. QED
      BY <1>1, <2>1, Zenon
  <1>3. QED
    BY <1>1, <1>2, WordType

(* A part of a sequence, by its elements.                                  *)
LEMMA SubSeqIs ==
  ASSUME NEW s \in Seq(Nat), NEW t \in Seq(Nat), NEW k \in Nat, NEW n \in Nat, n <= Len(s), n - k = Len(t),
         \A j \in 1..Len(t) : s[k + j] = t[j]
  PROVE  SubSeq(s, k + 1, n) = t
  <1>1. SubSeq(s, k + 1, n) \in Seq(Nat) /\ Len(SubSeq(s, k + 1, n)) = Len(t)
    OBVIOUS
  <1>2. \A j \in 1..Len(t) : SubSeq(s, k + 1, n)[j] = s[k + j]
    OBVIOUS
  <1>3. QED
    BY <1>1, <1>2

(* A sequence cut in two.                                                  *)
LEMMA SubSeqParts ==
  ASSUME NEW s \in Seq(Nat), NEW d \in Nat, d <= Len(s)
  PROVE  /\ SubSeq(s, 1, d) \in Seq(Nat) /\ Len(SubSeq(s, 1, d)) = d /\ Len(s) \in Nat
         /\ \A j \in 1..d : SubSeq(s, 1, d)[j] = s[j]
         /\ SubSeq(s, d + 1, Len(s)) \in Seq(Nat) /\ Len(SubSeq(s, d + 1, Len(s))) = Len(s) - d
         /\ \A j \in 1..(Len(s) - d) : SubSeq(s, d + 1, Len(s))[j] = s[d + j]
  OBVIOUS

(* The head byte by byte.                                                  *)
LEMMA HeadBytes ==
  ASSUME NEW q, Words(q)
  PROVE  /\ EncodeRequest(q) = (HeadOf(q) \o EndOfHead) \o q.body
         /\ HeadOf(q) \in Seq(Nat) /\ EncodeRequest(q) \in Seq(Nat)
         /\ HeadOf(q)[1] = q.method /\ HeadOf(q)[2] = q.path
         /\ HeadOf(q)[3] = 13 /\ HeadOf(q)[4] = 10
         /\ q.secret = None => Len(HeadOf(q)) = 5 /\ HeadOf(q)[5] = 100 + q.length
         /\ q.secret # None => /\ Len(HeadOf(q)) = 8 /\ HeadOf(q)[5] = q.secret
                               /\ HeadOf(q)[6] = 13 /\ HeadOf(q)[7] = 10 /\ HeadOf(q)[8] = 100 + q.length
  <1> DEFINE m == q.method
             p == q.path
             c == q.secret
             n == 100 + q.length
  <1>1. m \in Nat /\ p \in Nat /\ n \in Nat /\ (c # None => c \in Nat) /\ q.body \in Seq(Nat)
    BY WordsType
  <1>2. HeadOf(q) = <<m, p, 13, 10>> \o (IF c = None THEN <<>> ELSE <<c, 13, 10>>) \o <<n>>
    BY DEF HeadOf, CR, LF, Length
  <1>3. EncodeRequest(q) = (HeadOf(q) \o EndOfHead) \o q.body
    BY DEF EncodeRequest, HeadOf
  <1> HIDE DEF m, p, c, n
  <1>4. CASE c = None
    <2>1. HeadOf(q) = <<m, p, 13, 10>> \o <<n>>
      BY <1>2, <1>4
    <2>2. HeadOf(q) \in Seq(Nat) /\ Len(HeadOf(q)) = 5 /\ HeadOf(q)[1] = m /\ HeadOf(q)[2] = p
          /\ HeadOf(q)[3] = 13 /\ HeadOf(q)[4] = 10 /\ HeadOf(q)[5] = n
      BY <1>1, <2>1
    <2>3. EncodeRequest(q) \in Seq(Nat)
      BY <1>1, <1>3, <2>2 DEF EndOfHead, CR, LF
    <2>4. QED
      BY <1>3, <1>4, <2>2, <2>3 DEF m, p, c, n
  <1>5. CASE c # None
    <2>1. HeadOf(q) = <<m, p, 13, 10>> \o <<c, 13, 10>> \o <<n>>
      BY <1>2, <1>5
    <2>2. HeadOf(q) \in Seq(Nat) /\ Len(HeadOf(q)) = 8 /\ HeadOf(q)[1] = m /\ HeadOf(q)[2] = p
          /\ HeadOf(q)[3] = 13 /\ HeadOf(q)[4] = 10 /\ HeadOf(q)[5] = c /\ HeadOf(q)[6] = 13
          /\ HeadOf(q)[7] = 10 /\ HeadOf(q)[8] = n
      BY <1>1, <1>5, <2>1
    <2>3. EncodeRequest(q) \in Seq(Nat)
      BY <1>1, <1>3, <2>2 DEF EndOfHead, CR, LF
    <2>4. QED
      BY <1>3, <1>5, <2>2, <2>3 DEF m, p, c, n
  <1>6. QED
    BY <1>4, <1>5

(* No blank line ends where a word, a lone line end or a length is.        *)
LEMMA NoBlankLineBefore ==
  ASSUME NEW q, Words(q), NEW i \in 1..Len(HeadOf(q)), NEW s,
         \A j \in 1..Len(HeadOf(q)) : s[j] = HeadOf(q)[j],
         s[i] = 13, s[i + 2] = 13, s[i + 1] = 10, NEW h, h = Len(HeadOf(q)),
         s[h + 1] = 13, s[h + 2] = 10
  PROVE  FALSE
  <1>1. q.method # 13 /\ q.path # 13 /\ (q.secret # None => q.secret # 13) /\ 100 + q.length # 13
    BY WordsType
  <1>2. CASE q.secret = None
    <2>1. h = 5 /\ i \in 1..5
      BY <1>2, HeadBytes
    <2>2. s[1] = q.method /\ s[2] = q.path /\ s[4] = 10 /\ s[5] = 100 + q.length
      <3>1. \A j \in 1..5 : s[j] = HeadOf(q)[j]
        BY <2>1
      <3>2. s[1] = HeadOf(q)[1] /\ s[2] = HeadOf(q)[2] /\ s[4] = HeadOf(q)[4] /\ s[5] = HeadOf(q)[5]
        BY <3>1
      <3>3. QED
        BY <1>2, <3>2, HeadBytes, ZenonT(40)
    <2>3. i = 1 \/ i = 2 \/ i = 3 \/ i = 4 \/ i = 5
      BY <2>1
    <2>4. QED
      BY <1>1, <2>2, <2>3
  <1>3. CASE q.secret # None
    <2>1. h = 8 /\ i \in 1..8
      BY <1>3, HeadBytes
    <2>2. s[1] = q.method /\ s[2] = q.path /\ s[4] = 10 /\ s[5] = q.secret /\ s[7] = 10 /\ s[8] = 100 + q.length
      <3>1. \A j \in 1..8 : s[j] = HeadOf(q)[j]
        BY <2>1
      <3>2. /\ s[1] = HeadOf(q)[1] /\ s[2] = HeadOf(q)[2] /\ s[4] = HeadOf(q)[4]
            /\ s[5] = HeadOf(q)[5] /\ s[7] = HeadOf(q)[7] /\ s[8] = HeadOf(q)[8]
        BY <3>1
      <3>3. QED
        BY <1>3, <3>2, HeadBytes, ZenonT(40)
    <2>3. i = 1 \/ i = 2 \/ i = 3 \/ i = 4 \/ i = 5 \/ i = 6 \/ i = 7 \/ i = 8
      BY <2>1
    <2>4. QED
      BY <1>1, <1>3, <2>2, <2>3, SMTT(40)
  <1>4. QED
    BY <1>2, <1>3

(* The least of some numbers is the one that is no greater than any.       *)
LEMMA LeastIs ==
  ASSUME NEW S \in SUBSET Int, NEW x \in S, \A y \in S : x <= y
  PROVE  Min(S) = x
  <1>1. Min(S) \in S /\ \A y \in S : Min(S) <= y
    BY DEF Min
  <1>2. Min(S) <= x /\ x <= Min(S) /\ Min(S) \in Int /\ x \in Int
    BY <1>1
  <1> DEFINE m == Min(S)
  <1>3. \A y \in Int : y <= x /\ x <= y => y = x
    OBVIOUS
  <1>4. QED
    BY <1>2, <1>3

(* A stream e is a head H, a blank line and a body B; b is read of it.     *)
Laid(e, H, B) ==
  /\ Len(e) = Len(H) + 4 + Len(B)
  /\ \A j \in 1..Len(H) : e[j] = H[j]
  /\ e[Len(H) + 1] = 13 /\ e[Len(H) + 2] = 10 /\ e[Len(H) + 3] = 13 /\ e[Len(H) + 4] = 10
  /\ \A j \in 1..Len(B) : e[Len(H) + 4 + j] = B[j]
  /\ \A i \in 1..Len(H) : ~(e[i] = 13 /\ e[i + 1] = 10 /\ e[i + 2] = 13)
Begins(b, e) == Len(b) <= Len(e) /\ \A j \in 1..Len(b) : b[j] = e[j]

(* The head was found, and what follows it.                                *)
Found(e, b, H, B) ==
  LET k == Len(b) - (Len(H) + 4)
  IN /\ k \in 0..Len(B) /\ BeforeHead(b) = H /\ AfterHead(b) = SubSeq(B, 1, k)
     /\ SubSeq(e, Len(b) + 1, Len(e)) = SubSeq(B, k + 1, Len(B))

(* Cut at its first blank line, what was read is the head and the          *)
(* beginning of the body.                                                  *)
LEMMA HeadSplit ==
  ASSUME NEW H \in Seq(Nat), NEW B \in Seq(Nat), NEW e \in Seq(Nat), NEW b \in Seq(Nat),
         Laid(e, H, B), Begins(b, e), HasHead(b)
  PROVE  Found(e, b, H, B)
  <1> PICK h \in Nat : h = Len(H)
    OBVIOUS
  <1>18. Len(e) = h + 4 + Len(B) /\ Len(b) <= Len(e)
    BY DEF Laid, Begins
  <1> DEFINE mark == <<13, 10, 13, 10>>
             found == Ends(b, EndOfHead)
             n == Len(b)
  <1>1. EndOfHead = mark /\ Len(mark) = 4 /\ mark \in Seq(Nat)
        /\ mark[1] = 13 /\ mark[2] = 10 /\ mark[3] = 13 /\ mark[4] = 10
    BY DEF EndOfHead, CR, LF
  <1>2. n \in Nat
    OBVIOUS
  <1>15. \A j \in 1..n : b[j] = e[j]
    BY Zenon DEF Begins
  <1>16. /\ \A j \in 1..h : e[j] = H[j]
         /\ e[h + 1] = 13 /\ e[h + 2] = 10 /\ e[h + 3] = 13 /\ e[h + 4] = 10
         /\ \A j \in 1..Len(B) : e[h + 4 + j] = B[j]
         /\ \A i \in 1..h : ~(e[i] = 13 /\ e[i + 1] = 10 /\ e[i + 2] = 13)
    BY Zenon DEF Laid
  <1>3. found = {i \in 1..(n - 4 + 1) : SubSeq(b, i, i + 4 - 1) = mark}
    BY <1>1 DEF Ends
  <1>4. found # {} /\ BeforeHead(b) = SubSeq(b, 1, Min(found) - 1) /\ AfterHead(b) = SubSeq(b, Min(found) + 4, n)
    BY DEF HasHead, BeforeHead, AfterHead
  <1> HIDE DEF mark, found
  <1>5. ASSUME NEW i \in found
        PROVE  i \in Nat /\ i >= h + 1 /\ i + 3 <= n
    <2>1. i \in Nat /\ 1 <= i /\ i + 3 <= n /\ SubSeq(b, i, i + 3) = mark
      <3>1. i \in 1..(n - 4 + 1) /\ SubSeq(b, i, i + 4 - 1) = mark
        BY <1>3, <1>5, Zenon
      <3>2. i \in Nat /\ 1 <= i /\ i + 3 <= n /\ i + 4 - 1 = i + 3
        BY <1>2, <3>1
      <3>3. QED
        BY <3>1, <3>2
    <2>2. b[i] = 13 /\ b[i + 1] = 10 /\ b[i + 2] = 13
      <3>1. SubSeq(b, i, i + 3)[1] = b[i] /\ SubSeq(b, i, i + 3)[2] = b[i + 1] /\ SubSeq(b, i, i + 3)[3] = b[i + 2]
        BY <1>2, <2>1
      <3>2. QED
        BY <1>1, <2>1, <3>1
    <2>3. e[i] = 13 /\ e[i + 1] = 10 /\ e[i + 2] = 13
      <3>1. i \in 1..n /\ i + 1 \in 1..n /\ i + 2 \in 1..n
        BY <1>2, <2>1
      <3>2. QED
        BY <1>15, <2>2, <3>1, Zenon
    <2>4. ~(i \in 1..h)
      BY <1>16, <2>3, Zenon
    <2>5. QED
      BY <2>1, <2>4
  <1>6. n >= h + 4
    <2>1. PICK i \in found : TRUE
      BY <1>4
    <2>2. i \in Nat /\ i >= h + 1 /\ i + 3 <= n
      BY <1>5
    <2>3. QED
      BY <1>2, <2>2
  <1>7. h + 1 \in found
    <2>1. b[h + 1] = 13 /\ b[h + 2] = 10 /\ b[h + 3] = 13 /\ b[h + 4] = 10
      <3>1. h + 1 \in 1..n /\ h + 2 \in 1..n /\ h + 3 \in 1..n /\ h + 4 \in 1..n
        BY <1>2, <1>6
      <3>2. QED
        BY <1>15, <1>16, <3>1, Zenon
    <2>2. SubSeq(b, h + 1, h + 4) = mark
      <3>1. \A j \in 1..4 : j = 1 \/ j = 2 \/ j = 3 \/ j = 4
        OBVIOUS
      <3>2. \A j \in 1..4 : b[h + j] = mark[j]
        BY <1>1, <2>1, <3>1
      <3>3. h + 4 - h = 4 /\ h + 4 \in Nat /\ h + 4 <= Len(b)
        BY <1>2, <1>6
      <3>4. \A j \in 1..Len(mark) : b[h + j] = mark[j]
        BY <1>1, <3>2, Zenon
      <3>5. h + 4 - h = Len(mark)
        BY <1>1, <3>3, Zenon
      <3> DEFINE m == h + 4
      <3>6. m \in Nat /\ m <= Len(b) /\ m - h = Len(mark)
        BY <3>3, <3>5
      <3> HIDE DEF m
      <3>7. SubSeq(b, h + 1, m) = mark
        BY <1>1, <3>4, <3>6, SubSeqIs
      <3>8. QED
        BY <3>7, Zenon DEF m
    <2>3. h + 1 \in 1..(n - 4 + 1) /\ h + 1 + 4 - 1 = h + 4
      BY <1>2, <1>6
    <2>4. QED
      BY <1>3, <2>2, <2>3
  <1>8. Min(found) = h + 1
    <2>1. found \in SUBSET Int /\ \A i \in found : h + 1 <= i
      <3>1. \A i \in found : i \in Int /\ h + 1 <= i
        BY <1>5
      <3>2. QED
        BY <3>1
    <2>2. QED
      BY <1>7, <2>1, LeastIs
  <1>9. Min(found) - 1 = h /\ Min(found) + 4 = h + 5
    BY <1>8
  <1>10. SubSeq(b, 1, h) = H
    <2>1. \A j \in 1..Len(H) : b[0 + j] = H[j]
      <3>1. \A j \in 1..h : j \in 1..n /\ 0 + j = j
        BY <1>2, <1>6
      <3>2. QED
        BY <1>15, <1>16, <3>1, ZenonT(40)
    <2>2. h - 0 = Len(H) /\ h <= Len(b)
      BY <1>2, <1>6
    <2>3. SubSeq(b, 0 + 1, h) = H
      BY <2>1, <2>2, SubSeqIs
    <2>4. QED
      BY <2>3
  <1> DEFINE d == n - (h + 4)
             rest == SubSeq(B, 1, d)
             wait == SubSeq(B, d + 1, Len(B))
  <1>11. d \in Nat /\ d <= Len(B)
    BY <1>2, <1>6, <1>18
  <1>17. Len(B) \in Nat
    OBVIOUS
  <1>12. SubSeq(b, h + 5, n) = rest
    <2>1. rest \in Seq(Nat) /\ Len(rest) = d /\ \A j \in 1..d : rest[j] = B[j]
      BY <1>11, SubSeqParts, Zenon
    <2>2. ASSUME NEW j \in 1..d
          PROVE  b[h + 4 + j] = rest[j]
      <3>1. \A x \in Nat, y \in Nat : \A i \in 1..(x - (y + 4)) : y + 4 + i \in 1..x
        OBVIOUS
      <3>2. h + 4 + j \in 1..n
        BY <1>2, <3>1, Zenon
      <3>3. \A x \in Nat, y \in Nat : x <= y => \A i \in 1..x : i \in 1..y
        OBVIOUS
      <3>4. j \in 1..Len(B)
        BY <1>11, <1>17, <3>3, Zenon
      <3>5. b[h + 4 + j] = e[h + 4 + j] /\ e[h + 4 + j] = B[j] /\ rest[j] = B[j]
        BY <1>15, <1>16, <2>1, <3>2, <3>4, Zenon
      <3>6. QED
        BY <3>5
    <2>3. n - (h + 4) = Len(rest) /\ h + 4 \in Nat /\ n <= Len(b)
      BY <1>2, <2>1
    <2> HIDE DEF rest, d
    <2>4. SubSeq(b, (h + 4) + 1, n) = rest
      BY <1>2, <2>1, <2>2, <2>3, SubSeqIs
    <2>5. (h + 4) + 1 = h + 5
      OBVIOUS
    <2>6. QED
      BY <2>4, <2>5
  <1>13. SubSeq(e, n + 1, Len(e)) = wait
    <2>1. wait \in Seq(Nat) /\ Len(wait) = Len(B) - d /\ \A j \in 1..Len(wait) : wait[j] = B[d + j]
      <3>1. /\ wait \in Seq(Nat) /\ Len(wait) = Len(B) - d
            /\ \A j \in 1..(Len(B) - d) : wait[j] = B[d + j]
        BY <1>11, SubSeqParts, Zenon
      <3>2. QED
        BY <3>1, Zenon
    <2>2. ASSUME NEW j \in 1..Len(wait)
          PROVE  e[n + j] = wait[j]
      <3>1. d + j \in 1..Len(B) /\ n + j = h + 4 + (d + j)
        BY <1>2, <1>11, <1>18, <2>1
      <3>2. QED
        BY <1>16, <2>1, <3>1, Zenon
    <2>3. Len(e) - n = Len(wait) /\ Len(e) \in Nat
      BY <1>2, <1>18, <2>1
    <2> HIDE DEF wait, d
    <2>4. Len(e) <= Len(e)
      BY <2>3
    <2>5. QED
      BY <1>2, <2>1, <2>2, <2>3, <2>4, SubSeqIs, Zenon
  <1>14. d \in 0..Len(B)
    BY <1>11
  <1>19. BeforeHead(b) = H /\ AfterHead(b) = rest
    BY <1>4, <1>9, <1>10, <1>12
  <1>20. QED
    BY <1>13, <1>14, <1>19, Zenon DEF Found

Calm(e, H) == \A i \in 1..Len(H) : ~(e[i] = 13 /\ e[i + 1] = 10 /\ e[i + 2] = 13)

(* A request is its head, a blank line and its body.                       *)
LEMMA LaidOut ==
  ASSUME NEW H \in Seq(Nat), NEW B \in Seq(Nat), NEW e, e = (H \o EndOfHead) \o B, Calm(e, H)
  PROVE  Laid(e, H, B) /\ e \in Seq(Nat)
  <1> DEFINE mark == <<13, 10, 13, 10>>
  <1>1. mark \in Seq(Nat)
    OBVIOUS
  <1>7. Len(mark) = 4
    OBVIOUS
  <1>2. mark[1] = 13 /\ mark[2] = 10 /\ mark[3] = 13 /\ mark[4] = 10
    OBVIOUS
  <1>3. e = (H \o mark) \o B
    BY DEF EndOfHead, CR, LF
  <1> HIDE DEF mark
  <1>4. /\ e \in Seq(Nat) /\ Len(e) = Len(H) + Len(mark) + Len(B) /\ \A j \in 1..Len(H) : e[j] = H[j]
        /\ \A j \in 1..Len(mark) : e[Len(H) + j] = mark[j]
        /\ \A j \in 1..Len(B) : e[Len(H) + Len(mark) + j] = B[j]
    BY <1>1, <1>3, ThreeParts
  <1>5. 1 \in 1..4 /\ 2 \in 1..4 /\ 3 \in 1..4 /\ 4 \in 1..4
    OBVIOUS
  <1>6. QED
    BY <1>2, <1>4, <1>5, <1>7, ZenonT(40) DEF Laid, Calm

(* What was read of a request begins with what was read of its head.       *)
LEMMA HeadTaken ==
  ASSUME NEW H \in Seq(Nat), NEW B \in Seq(Nat), NEW e, e = (H \o EndOfHead) \o B, Calm(e, H),
         NEW n \in 0..Len(e), HasHead(SubSeq(e, 1, n))
  PROVE  Found(e, SubSeq(e, 1, n), H, B)
  <1> DEFINE b == SubSeq(e, 1, n)
  <1>1. Laid(e, H, B) /\ e \in Seq(Nat)
    BY LaidOut
  <1>2. b \in Seq(Nat) /\ Begins(b, e)
    BY <1>1, SMTT(40) DEF Begins
  <1>3. HasHead(b)
    OBVIOUS
  <1> HIDE DEF b
  <1>4. Found(e, b, H, B)
    BY <1>1, <1>2, <1>3, HeadSplit
  <1>5. QED
    BY <1>4, Zenon DEF b

(* There is no blank line in a head.                                       *)
LEMMA HeadIsCalm ==
  ASSUME NEW q, Words(q)
  PROVE  Calm(EncodeRequest(q), HeadOf(q))
  <1> DEFINE H == HeadOf(q)
             e == EncodeRequest(q)
  <1>1. H \in Seq(Nat) /\ q.body \in Seq(Nat) /\ e = (H \o <<13, 10, 13, 10>>) \o q.body
    BY HeadBytes, WordsType DEF EndOfHead, CR, LF
  <1>2. (\A j \in 1..Len(H) : e[j] = H[j]) /\ e[Len(H) + 1] = 13 /\ e[Len(H) + 2] = 10
    <2>1. \A g \in Seq(Nat), f \in Seq(Nat) : LET s == (g \o <<13, 10, 13, 10>>) \o f
            IN (\A j \in 1..Len(g) : s[j] = g[j]) /\ s[Len(g) + 1] = 13 /\ s[Len(g) + 2] = 10
      OBVIOUS
    <2> HIDE DEF H, e
    <2>2. QED
      BY <1>1, <2>1, Zenon
  <1>3. SUFFICES ASSUME NEW i \in 1..Len(H), e[i] = 13 /\ e[i + 1] = 10 /\ e[i + 2] = 13
                 PROVE  FALSE
    BY Zenon DEF Calm
  <1>4. \A h : h = Len(HeadOf(q)) /\ e[h + 1] = 13 /\ e[h + 2] = 10 => FALSE
    BY <1>2, <1>3, NoBlankLineBefore, SMTT(40)
  <1>5. QED
    BY <1>2, <1>4, Zenon

(* What was read of a request has a head once it reaches past the blank    *)
(* line, and then that head and what follows it are the client's.          *)
LEMMA HeadFound ==
  ASSUME NEW q, Words(q), NEW n \in 0..Len(EncodeRequest(q)), HasHead(SubSeq(EncodeRequest(q), 1, n))
  PROVE  Found(EncodeRequest(q), SubSeq(EncodeRequest(q), 1, n), HeadOf(q), q.body)
  BY HeadBytes, WordsType, HeadIsCalm, HeadTaken

-----------------------------------------------------------------------------
(* All that a head has before its length is no length.                     *)
LEMMA HeadWords ==
  ASSUME NEW q, Words(q)
  PROVE  /\ HeadOf(q) \in Seq(Nat) /\ Len(HeadOf(q)) >= 5 /\ HeadOf(q)[Len(HeadOf(q))] = 100 + q.length
         /\ \A i \in 1..Len(HeadOf(q)) : i # Len(HeadOf(q)) => HeadOf(q)[i] < 100
         /\ (\E i \in 1..Len(HeadOf(q)) : HeadOf(q)[i] = Secret) <=> q.secret = Secret
  <1> DEFINE H == HeadOf(q)
             h == Len(HeadOf(q))
             m == q.method
             p == q.path
             c == q.secret
             n == 100 + q.length
             v == Secret
  <1>1. /\ m \in Word /\ p \in Word /\ c \in Word \cup {None} /\ m # v /\ p # v
        /\ v \in Word /\ v # None
    BY ClientAssumption, Zenon DEF Words
  <1>2. /\ m \in Nat /\ m < 100 /\ p \in Nat /\ p < 100 /\ v \in Nat /\ v < 100 /\ v # 13 /\ v # 10
        /\ (c # None => c \in Nat /\ c < 100)
    BY <1>1, WordType, Zenon
  <1>3. n \in Nat /\ n >= 100
    BY WordsType
  <1>4. H \in Seq(Nat) /\ H[1] = m /\ H[2] = p /\ H[3] = 13 /\ H[4] = 10
    BY HeadBytes
  <1>5. c = None => h = 5 /\ H[5] = n
    BY HeadBytes
  <1>6. c # None => h = 8 /\ H[5] = c /\ H[6] = 13 /\ H[7] = 10 /\ H[8] = n
    BY HeadBytes
  <1>7. h = Len(H) /\ H = HeadOf(q)
    OBVIOUS
  <1> HIDE DEF H, h, m, p, c, n, v
  <1> DEFINE Calm1(x) == x \in Nat /\ x < 100 /\ x # v
  <1>11. Calm1(m) /\ Calm1(p) /\ Calm1(13) /\ Calm1(10) /\ n # v /\ (c # None /\ c # v => Calm1(c))
    BY <1>1, <1>2, <1>3
  <1>12. Calm1(H[1]) /\ Calm1(H[2]) /\ Calm1(H[3]) /\ Calm1(H[4])
    BY <1>4, <1>11, Zenon
  <1>13. \A x : Calm1(x) => x < 100 /\ x # v
    OBVIOUS
  <1> HIDE DEF Calm1
  <1>8. CASE c = None
    <2>1. \A i \in 1..h : i = 1 \/ i = 2 \/ i = 3 \/ i = 4 \/ i = 5
      BY <1>5, <1>8
    <2>2. h = 5 /\ H[5] = n
      BY <1>5, <1>8
    <2>3. \A i \in 1..h : i # h => Calm1(H[i])
      BY <1>12, <2>1, <2>2, Zenon
    <2>4. H[h] = n /\ c # v
      BY <1>1, <1>8, <2>2
    <2>5. \A i \in 1..h : H[i] # v
      BY <1>11, <1>13, <2>3, <2>4, Zenon
    <2>6. h >= 5
      BY <2>2
    <2>7. \A i \in 1..h : i # h => H[i] < 100
      BY <1>13, <2>3, Zenon
    <2>8. QED
      BY <1>4, <1>7, <2>4, <2>5, <2>6, <2>7, Zenon DEF H, h, c, n, v
  <1>9. CASE c # None
    <2>1. \A i \in 1..h : i = 1 \/ i = 2 \/ i = 3 \/ i = 4 \/ i = 5 \/ i = 6 \/ i = 7 \/ i = 8
      BY <1>6, <1>9
    <2>2. h = 8 /\ H[5] = c /\ H[6] = 13 /\ H[7] = 10 /\ H[8] = n
      BY <1>6, <1>9
    <2>3. \A i \in 1..h : i # 5 /\ i # h => Calm1(H[i])
      BY <1>11, <1>12, <2>1, <2>2, Zenon
    <2>4. H[5] < 100
      BY <1>2, <1>9, <2>2
    <2>5. \A i \in 1..h : i # h => H[i] < 100
      BY <1>13, <2>3, <2>4, Zenon
    <2>6. (\E i \in 1..h : H[i] = v) <=> c = v
      <3>1. 5 \in 1..h /\ H[h] = n
        BY <2>2
      <3>2. QED
        BY <1>11, <1>13, <2>2, <2>3, <3>1, Zenon
    <2>7. h >= 5 /\ H[h] = n
      BY <2>2
    <2>8. QED
      BY <1>4, <1>7, <2>5, <2>6, <2>7, Zenon DEF H, h, c, n, v
  <1>10. QED
    BY <1>8, <1>9

(* The length the server finds is the length the client declared.          *)
LEMMA DeclaredLength ==
  ASSUME NEW q, Words(q)
  PROVE  Declared(HeadOf(q)) = q.length
  <1> DEFINE H == HeadOf(q)
             h == Len(HeadOf(q))
             lengths == {i \in DOMAIN H : H[i] >= Length(0) /\ H[i] < Open}
             n == q.length
  <1>1. Declared(H) = IF lengths = {} THEN 0 ELSE H[Max(lengths)] - Length(0)
    BY Zenon DEF Declared
  <1>2. lengths = {i \in DOMAIN H : H[i] >= 100 /\ H[i] < 123}
    BY DEF Length, Open
  <1>3. n \in Nat /\ n <= 22
    BY WordsType
  <1>4. H \in Seq(Nat) /\ h = Len(H) /\ h >= 5 /\ H[h] = 100 + n /\ \A i \in 1..h : i # h => H[i] < 100
    BY HeadWords, Zenon
  <1> HIDE DEF H, h, lengths, n
  <1>5. h \in DOMAIN H /\ DOMAIN H = 1..h /\ h \in Nat
    BY <1>4
  <1>6. h \in lengths
    BY <1>2, <1>3, <1>4, <1>5
  <1>7. \A i \in lengths : i = h
    <2>1. ASSUME NEW i \in lengths
          PROVE  i = h
      <3>1. i \in 1..h /\ H[i] >= 100 /\ H[i] \in Nat
        BY <1>2, <1>4, <1>5
      <3>2. H[i] < 100 => FALSE
        BY <3>1
      <3>3. QED
        BY <1>4, <3>1, <3>2, Zenon
    <2>2. QED
      BY <2>1
  <1>8. Max(lengths) = h
    <2>1. Max(lengths) \in lengths
      <3>1. \E x \in lengths : \A y \in lengths : x >= y
        <4>1. h >= h
          BY <1>5
        <4>2. QED
          BY <1>6, <1>7, <4>1, Zenon
      <3>2. QED
        BY <3>1, Zenon DEF Max
    <2>2. QED
      BY <1>7, <2>1
  <1>9. Declared(H) = (100 + n) - Length(0)
    BY <1>1, <1>4, <1>6, <1>8, Zenon
  <1>10. (100 + n) - Length(0) = n
    BY <1>3 DEF Length
  <1>11. QED
    BY <1>9, <1>10, Zenon DEF H, n

-----------------------------------------------------------------------------
(* What a thread makes of its client's head; of its body it has that much. *)
Heard(q, body) ==
  [method |-> q.method, path |-> q.path, secret |-> IF q.secret = Secret THEN Secret ELSE None, body |-> body]

Enough(q, body) == Len(body) = Min({q.length, Len(q.body)})
Within(q, body) == IsPrefix(body, q.body) /\ Len(body) <= q.length

HandlesWhatItHeard ==
  \E body : /\ parsed = Heard(client, body) /\ Within(client, body)
            /\ phase = "handle" /\ ~cut => Enough(client, body)

RequestInv ==
  client # None =>
    /\ client \in Requests
    /\ phase = "request" => parsed = None /\ plan = None /\ \E n \in Nat : Reads(EncodeRequest(client), 0, n)
    /\ phase = "body" => /\ parsed = Heard(client, <<>>) /\ plan = None /\ want = client.length
                         /\ \E n \in Nat : Reads(client.body, 0, n)
    /\ phase = "handle" => HandlesWhatItHeard /\ plan = None
    /\ phase \notin Reading /\ parsed # None => HandlesWhatItHeard
    /\ phase \notin Reading /\ parsed # None /\ plan # None => client.secret = Secret

(* Nothing has been read of a request at the start.                        *)
LEMMA RequestInit == ExchangeInit => RequestInv
  <1> SUFFICES ASSUME ExchangeInit, client # None
               PROVE  RequestInv
    BY DEF RequestInv
  <1>1. client \in Requests /\ phase = "request" /\ wire = EncodeRequest(client) /\ plan = None /\ parsed = None /\ buf = <<>>
    BY DEF ExchangeInit
  <1>2. EncodeRequest(client) \in Seq(Nat)
    BY <1>1, RequestWords, HeadBytes
  <1>3. Reads(EncodeRequest(client), 0, 0)
    <2>1. \A s \in Seq(Nat) : SubSeq(s, 1, 0) = <<>> /\ SubSeq(s, 1, Len(s)) = s /\ Len(s) \in Nat
      OBVIOUS
    <2> DEFINE s == EncodeRequest(client)
    <2>2. s \in Seq(Nat) /\ wire = s
      BY <1>1, <1>2
    <2> HIDE DEF s
    <2>3. Parted(buf, wire, s, 0, 0)
      BY <1>1, <2>1, <2>2 DEF Parted
    <2>4. QED
      BY <2>3, Zenon DEF Reads, s
  <1>4. QED
    BY <1>1, <1>3 DEF RequestInv, Reading

(* What is read of a body, or left of it at the declared length.           *)
LEMMA BodyPart ==
  ASSUME NEW q \in Requests, NEW n \in Nat, Reads(q.body, 0, n), want = q.length
  PROVE  /\ Len(buf) = n /\ n <= Len(q.body) /\ want \in Nat
         /\ n >= want => Within(q, SubSeq(buf, 1, want)) /\ Enough(q, SubSeq(buf, 1, want))
         /\ n < want => Within(q, buf) /\ (wire = <<>> => Enough(q, buf))
  <1> DEFINE B == q.body
             d == q.length
  <1>1. B \in Seq(Nat) /\ d \in Nat
    BY RequestWords, WordsType
  <1>2. n \in Nat /\ n <= Len(B) /\ buf = SubSeq(B, 1, n) /\ wire = SubSeq(B, n + 1, Len(B)) /\ want = d
    BY DEF Reads, Parted
  <1> HIDE DEF B, d
  <1>3. Len(buf) = n /\ buf \in Seq(Nat)
    BY <1>1, <1>2
  <1>4. ASSUME n >= want
        PROVE  /\ IsPrefix(SubSeq(buf, 1, want), B) /\ Len(SubSeq(buf, 1, want)) = d /\ d <= Len(B)
    <2>1. \A s \in Seq(Nat) : \A i, j \in Nat : j <= Len(s) /\ i <= j =>
             SubSeq(SubSeq(s, 1, j), 1, i) = SubSeq(s, 1, i) /\ Len(SubSeq(s, 1, i)) = i
             /\ SubSeq(SubSeq(s, 1, i), 1, i) = SubSeq(s, 1, i) /\ i <= Len(s)
      OBVIOUS
    <2>2. d <= n /\ n <= Len(B)
      BY <1>2, <1>4
    <2>3. SubSeq(buf, 1, want) = SubSeq(B, 1, d) /\ Len(SubSeq(B, 1, d)) = d /\ d <= Len(B)
          /\ SubSeq(SubSeq(B, 1, d), 1, d) = SubSeq(B, 1, d)
      <3>1. buf = SubSeq(B, 1, n) /\ want = d
        BY <1>2
      <3>2. B \in Seq(Nat) /\ d \in Nat /\ n \in Nat /\ d <= Len(B)
        BY <1>1, <1>2, <2>2
      <3>3. /\ SubSeq(SubSeq(B, 1, n), 1, d) = SubSeq(B, 1, d) /\ Len(SubSeq(B, 1, d)) = d
            /\ SubSeq(SubSeq(B, 1, d), 1, d) = SubSeq(B, 1, d)
        BY <2>1, <2>2, <3>2
      <3>4. QED
        BY <3>1, <3>2, <3>3, Zenon
    <2>4. QED
      BY <2>3, Zenon DEF IsPrefix
  <1>5. IsPrefix(buf, B) /\ (wire = <<>> => n = Len(B))
    <2>1. \A s \in Seq(Nat) : \A i \in Nat : i <= Len(s) =>
             Len(SubSeq(s, 1, i)) = i /\ SubSeq(SubSeq(s, 1, i), 1, i) = SubSeq(s, 1, i)
             /\ (SubSeq(s, i + 1, Len(s)) = <<>> => i = Len(s))
      <3>1. \A s \in Seq(Nat) : \A i \in Nat : i <= Len(s) =>
               Len(SubSeq(s, 1, i)) = i /\ SubSeq(SubSeq(s, 1, i), 1, i) = SubSeq(s, 1, i)
        OBVIOUS
      <3>2. ASSUME NEW s \in Seq(Nat), NEW i \in Nat, i <= Len(s), i # Len(s)
            PROVE  SubSeq(s, i + 1, Len(s)) # <<>>
        <4>1. Len(SubSeq(s, i + 1, Len(s))) = Len(s) - i /\ Len(s) - i > 0
          BY <3>2
        <4>2. \A t : t = <<>> => Len(t) = 0
          OBVIOUS
        <4>3. Len(SubSeq(s, i + 1, Len(s))) # 0
          BY <4>1
        <4>4. QED
          BY <4>2, <4>3, Zenon
      <3>3. QED
        BY <3>1, <3>2, Zenon
    <2>2. Len(SubSeq(B, 1, n)) = n /\ SubSeq(SubSeq(B, 1, n), 1, n) = SubSeq(B, 1, n)
          /\ (SubSeq(B, n + 1, Len(B)) = <<>> => n = Len(B))
      BY <1>1, <1>2, <2>1, Zenon
    <2>3. QED
      BY <1>2, <2>2, Zenon DEF IsPrefix
  <1>6. \A x, y \in Nat : x <= y => Min({x, y}) = x /\ Min({y, x}) = x
    <2>1. ASSUME NEW x \in Nat, NEW y \in Nat, x <= y
          PROVE  Min({x, y}) = x
      <3>1. {x, y} \in SUBSET Int /\ x \in {x, y} /\ \A z \in {x, y} : x <= z
        BY <2>1
      <3>2. QED
        BY <3>1, LeastIs, Zenon
    <2>2. \A x, y : {x, y} = {y, x}
      OBVIOUS
    <2>3. QED
      BY <2>1, <2>2, Zenon
  <1>7. Len(B) \in Nat
    BY <1>1
  <1>8. ASSUME n >= want
        PROVE  Within(q, SubSeq(buf, 1, want)) /\ Enough(q, SubSeq(buf, 1, want))
    <2>1. Min({d, Len(B)}) = d
      BY <1>1, <1>4, <1>6, <1>7, <1>8, Zenon
    <2>2. d <= d
      BY <1>1
    <2>3. QED
      BY <1>4, <1>8, <2>1, <2>2, Zenon DEF Within, Enough, B, d
  <1>9. ASSUME n < want
        PROVE  Within(q, buf) /\ (wire = <<>> => Enough(q, buf))
    <2>1. n <= d
      BY <1>1, <1>2, <1>9
    <2>2. wire = <<>> => Min({d, Len(B)}) = n
      BY <1>1, <1>2, <1>5, <1>6, <2>1, Zenon
    <2>3. QED
      BY <1>3, <1>5, <2>1, <2>2, Zenon DEF Within, Enough, B, d
  <1>10. QED
    BY <1>1, <1>2, <1>3, <1>8, <1>9, Zenon DEF B

(* Once handled, what was heard stays as it was.                           *)
LEMMA RequestStays ==
  ASSUME RequestInv, phase \notin Reading, phase' \notin Reading \cup {"handle"}, UNCHANGED <<client, parsed, plan>>
  PROVE  RequestInv'
  <1>1. HandlesWhatItHeard => HandlesWhatItHeard'
    BY Zenon DEF HandlesWhatItHeard
  <1>2. QED
    BY <1>1 DEF RequestInv, Reading

(* Whoever gives up on reading executes nothing.                           *)
LEMMA RequestGivesUp ==
  ASSUME RequestInv, phase \in Reading, phase' = "done", UNCHANGED <<client, parsed, plan>>
  PROVE  RequestInv'
  <1>1. CASE client = None
    BY <1>1 DEF RequestInv
  <1>2. CASE client # None
    <2>1. client \in Requests /\ (parsed = None \/ parsed = Heard(client, <<>>)) /\ plan = None
      BY <1>2 DEF RequestInv, Reading
    <2>2. Within(client, <<>>)
      <3>1. client.body \in Seq(Nat) /\ client.length \in Nat
        BY <2>1, RequestWords, WordsType
      <3>2. \A s \in Seq(Nat) : Len(<<>>) <= Len(s) /\ SubSeq(<<>>, 1, Len(<<>>)) = SubSeq(s, 1, Len(<<>>))
        OBVIOUS
      <3>3. Len(<<>>) <= client.length
        BY <3>1
      <3>4. QED
        BY <3>1, <3>2, <3>3, Zenon DEF Within, IsPrefix
    <2>3. parsed # None => HandlesWhatItHeard'
      BY <2>1, <2>2 DEF HandlesWhatItHeard
    <2>4. QED
      BY <2>1, <2>3 DEF RequestInv, Reading
  <1>3. QED
    BY <1>1, <1>2

(* Reading goes on where it was.                                           *)
LEMMA RequestReads ==
  ASSUME RequestInv, ReadHead \/ ReadBody
  PROVE  RequestInv'
  <1>1. CASE client = None
    BY <1>1 DEF RequestInv, ReadHead, ReadBody
  <1>2. CASE client # None
    <2>1. client \in Requests /\ client' = client /\ plan' = plan /\ want' = want
          /\ \/ phase' = phase /\ parsed' = parsed
             \/ phase' = "done" /\ parsed' = None
      BY <1>2 DEF RequestInv, ReadHead, ReadBody, EndWith
    <2>2. EncodeRequest(client) \in Seq(Nat) /\ client.body \in Seq(Nat)
      BY <2>1, RequestWords, HeadBytes, WordsType
    <2>3. PICK m \in Nat : Take(m)
      BY DEF ReadHead, ReadBody
    <2>4. ASSUME NEW s \in Seq(Nat), NEW n \in Nat, Reads(s, 0, n)
          PROVE  \E k \in Nat : Parted(buf', wire', s, 0, k)
      BY <2>3, <2>4, TakeReads
    <2>5. CASE ReadHead
      <3>1. phase = "request"
        BY <2>5 DEF ReadHead
      <3>2. \E k \in Nat : Parted(buf', wire', EncodeRequest(client), 0, k)
        BY <1>2, <2>2, <2>4, <3>1 DEF RequestInv
      <3>3. \E k \in Nat : Reads(EncodeRequest(client), 0, k)'
        BY <2>1, <3>2, Zenon DEF Reads
      <3>5. phase' = phase /\ parsed' = parsed
        BY <2>5 DEF ReadHead
      <3>4. QED
        BY <1>2, <2>1, <3>1, <3>3, <3>5 DEF RequestInv, Reading
    <2>8. CASE phase' = "done" /\ parsed' = None
      BY <2>1, <2>8 DEF RequestInv, Reading
    <2>6. CASE ReadBody /\ phase' = phase /\ parsed' = parsed
      <3>1. phase = "body"
        BY <2>6 DEF ReadBody
      <3>2. \E k \in Nat : Parted(buf', wire', client.body, 0, k)
        BY <1>2, <2>2, <2>4, <3>1 DEF RequestInv
      <3>3. \E k \in Nat : Reads(client.body, 0, k)'
        BY <2>1, <3>2, Zenon DEF Reads
      <3>4. QED
        BY <1>2, <2>1, <2>6, <3>1, <3>3 DEF RequestInv, Reading
    <2>7. QED
      BY <2>1, <2>5, <2>6, <2>8
  <1>3. QED
    BY <1>1, <1>2

(* A head that was read is the client's, and the body begins after it.     *)
LEMMA RequestHead ==
  ASSUME RequestInv, HeadRead
  PROVE  RequestInv'
  <1>1. phase = "request" /\ UNCHANGED <<client, plan>> /\ wire' = wire /\ HasHead(buf)
    BY DEF HeadRead
  <1>2. CASE client = None
    BY <1>1, <1>2 DEF RequestInv
  <1>3. CASE client # None
    <2>1. PICK n \in Nat : Reads(EncodeRequest(client), 0, n)
      BY <1>1, <1>3 DEF RequestInv
    <2>2. client \in Requests /\ Words(client) /\ parsed = None /\ plan = None
      BY <1>1, <1>3, RequestWords DEF RequestInv
    <2>3. n \in 0..Len(EncodeRequest(client)) /\ buf = SubSeq(EncodeRequest(client), 1, n)
          /\ wire = SubSeq(EncodeRequest(client), n + 1, Len(EncodeRequest(client)))
      <3>1. EncodeRequest(client) \in Seq(Nat)
        BY <2>2, HeadBytes
      <3>2. n <= Len(EncodeRequest(client)) /\ buf = SubSeq(EncodeRequest(client), 0 + 1, n)
            /\ wire = SubSeq(EncodeRequest(client), n + 1, Len(EncodeRequest(client)))
        BY <2>1, Zenon DEF Reads, Parted
      <3>3. \A k \in Nat : n <= k => n \in 0..k
        OBVIOUS
      <3>4. \A s \in Seq(Nat) : Len(s) \in Nat
        OBVIOUS
      <3>5. 0 + 1 = 1
        OBVIOUS
      <3>6. QED
        BY <3>1, <3>2, <3>3, <3>4, <3>5, Zenon
    <2>4. Found(EncodeRequest(client), buf, HeadOf(client), client.body)
      BY <1>1, <2>2, <2>3, HeadFound, Zenon
    <2> DEFINE k == Len(buf) - (Len(HeadOf(client)) + 4)
    <2>5. k \in 0..Len(client.body) /\ BeforeHead(buf) = HeadOf(client) /\ AfterHead(buf) = SubSeq(client.body, 1, k)
          /\ wire = SubSeq(client.body, k + 1, Len(client.body))
      <3>1. Len(buf) = n
        <4>1. \A s \in Seq(Nat) : \A i \in 0..Len(s) : Len(SubSeq(s, 1, i)) = i
          OBVIOUS
        <4>2. QED
          BY <2>2, <2>3, <4>1, HeadBytes, Zenon
      <3>2. QED
        BY <2>3, <2>4, <3>1, Zenon DEF Found
    <2> HIDE DEF k
    <2>6. Declared(BeforeHead(buf)) = client.length
      BY <2>2, <2>5, DeclaredLength
    <2>7. Contains(HeadOf(client), Secret) <=> client.secret = Secret
      BY <2>2, HeadWords, Zenon DEF Contains
    <2>8. CASE client.length > MaxRequestBody
      <3>1. phase' = "done" /\ parsed' = parsed
        BY <2>6, <2>8 DEF HeadRead, EndWith
      <3>2. QED
        BY <1>1, <3>1, RequestGivesUp DEF Reading
    <2>9. CASE ~(client.length > MaxRequestBody)
      <3>1. phase' = "body" /\ buf' = AfterHead(buf) /\ want' = client.length
            /\ parsed' = [method |-> BeforeHead(buf)[1], path |-> BeforeHead(buf)[2],
                          secret |-> IF Contains(BeforeHead(buf), Secret) THEN Secret ELSE None, body |-> <<>>]
        BY <2>6, <2>9 DEF HeadRead
      <3>2. parsed' = Heard(client, <<>>)
        <4>1. HeadOf(client)[1] = client.method /\ HeadOf(client)[2] = client.path
          BY <2>2, HeadBytes
        <4>2. QED
          BY <2>5, <2>7, <3>1, <4>1, Zenon DEF Heard
      <3>3. Parted(buf', wire', client.body, 0, k)
        <4>1. \A i, j : j \in 0..i => j \in Nat /\ 0 <= j /\ j <= i
          OBVIOUS
        <4>2. 0 + 1 = 1
          OBVIOUS
        <4>3. QED
          BY <1>1, <2>5, <3>1, <4>1, <4>2, Zenon DEF Parted
      <3>4. \E j \in Nat : Reads(client.body, 0, j)'
        <4>1. k \in Nat
          BY <3>3 DEF Parted
        <4>2. QED
          BY <1>1, <3>3, <4>1, Zenon DEF Reads
      <3>5. QED
        BY <1>1, <1>3, <2>2, <3>1, <3>2, <3>4 DEF RequestInv, Reading
    <2>10. QED
      BY <2>8, <2>9
  <1>4. QED
    BY <1>2, <1>3

(* However a body ends, it is handled as far as it came.                   *)
LEMMA RequestEnds ==
  ASSUME RequestInv, BodyRead \/ RequestCut
  PROVE  RequestInv'
  <1>1. UNCHANGED <<client, plan>>
    BY DEF BodyRead, RequestCut
  <1>2. CASE client = None
    BY <1>1, <1>2 DEF RequestInv
  <1>3. CASE phase = "request"
    <2>1. phase' = "done" /\ parsed' = parsed
      BY <1>3 DEF BodyRead, RequestCut, EndWith
    <2>2. QED
      BY <1>1, <1>3, <2>1, RequestGivesUp DEF Reading
  <1>4. CASE client # None /\ phase = "body"
    <2>1. client \in Requests /\ parsed = Heard(client, <<>>) /\ plan = None /\ want = client.length
      BY <1>4 DEF RequestInv
    <2>2. PICK n \in Nat : Reads(client.body, 0, n)
      BY <1>4 DEF RequestInv
    <2>3. /\ Len(buf) = n /\ want \in Nat
          /\ n >= want => Within(client, SubSeq(buf, 1, want)) /\ Enough(client, SubSeq(buf, 1, want))
          /\ n < want => Within(client, buf) /\ (wire = <<>> => Enough(client, buf))
      BY <2>1, <2>2, BodyPart
    <2>4. \E body : Handle(body) /\ Within(client, body) /\ (~cut' => Enough(client, body))
      <3>1. CASE BodyRead
        <4>1. Handle(SubSeq(buf, 1, want)) /\ n >= want
          BY <2>3, <3>1 DEF BodyRead
        <4>2. QED
          BY <2>3, <4>1
      <3>2. CASE RequestCut
        <4>1. Handle(buf) /\ n < want /\ cut' = (wire # <<>>)
          BY <1>4, <2>3, <3>2 DEF RequestCut
        <4>2. QED
          BY <2>3, <4>1
      <3>3. QED
        BY <3>1, <3>2
    <2>5. PICK body : Handle(body) /\ Within(client, body) /\ (~cut' => Enough(client, body))
      BY <2>4
    <2>6. phase' = "handle" /\ parsed' = Heard(client, body)
      BY <2>1, <2>5 DEF Handle, Heard
    <2>7. HandlesWhatItHeard'
      BY <1>1, <2>5, <2>6, Zenon DEF HandlesWhatItHeard
    <2>8. QED
      BY <1>1, <2>1, <2>6, <2>7 DEF RequestInv, Reading
  <1>5. phase \in Reading
    BY DEF BodyRead, RequestCut, Reading
  <1>6. QED
    BY <1>2, <1>3, <1>4, <1>5 DEF Reading

(* A plan is made for a request that has the secret.                       *)
LEMMA RequestHandled ==
  ASSUME RequestInv, HandleRequest
  PROVE  RequestInv'
  <1>1. phase = "handle" /\ UNCHANGED <<client, parsed, cut>> /\ phase' \in {"plan", "done"}
    BY DEF HandleRequest, EndWith
  <1>2. CASE client = None
    BY <1>1, <1>2 DEF RequestInv
  <1>3. CASE Verdict(parsed) # None
    BY <1>1, <1>3, RequestStays DEF HandleRequest, EndWith, Reading
  <1>4. CASE client # None /\ Verdict(parsed) = None
    <2>1. HandlesWhatItHeard /\ client \in Requests
      BY <1>1, <1>4 DEF RequestInv, Reading
    <2>2. parsed.secret = Secret
      BY <1>4, ClientAssumption, Zenon DEF Verdict
    <2>3. parsed.secret = IF client.secret = Secret THEN Secret ELSE None
      BY <2>1 DEF HandlesWhatItHeard, Heard
    <2>4. Secret # None
      BY ClientAssumption
    <2>5. client.secret = Secret
      BY <2>2, <2>3, <2>4
    <2>6. HandlesWhatItHeard'
      BY <1>1, <2>1, Zenon DEF HandlesWhatItHeard
    <2>7. QED
      BY <1>1, <2>1, <2>5, <2>6 DEF RequestInv, Reading
  <1>5. QED
    BY <1>2, <1>3, <1>4

(* Every step keeps what was heard as what was said.                       *)
LEMMA RequestStep == RequestInv /\ [ExchangeNext]_exchangeVars => RequestInv'
  <1> SUFFICES ASSUME RequestInv, [ExchangeNext]_exchangeVars
               PROVE  RequestInv'
    OBVIOUS
  <1>1. CASE Dials
    <2>1. UNCHANGED <<client, parsed, plan>>
      BY <1>1 DEF Dials, ResolvePlan, ReadExact, DialFails, ConnectDirect, HttpConnect, ReadHttpHead,
         HttpConnected,
         Greet, OnMethod, OnAuth, Socks5, OnReply, OnLength, Drained
    <2>2. phase \notin Reading
      BY <1>1 DEF Dials, ResolvePlan, ReadExact, DialFails, ConnectDirect, HttpConnect, ReadHttpHead,
         HttpConnected,
         Greet, OnMethod, OnAuth, Socks5, OnReply, OnLength, Drained, Read, Reading, Dialling
    <2>3. phase' \notin Reading \cup {"handle"}
      <3>1. CASE ResolvePlan \/ ReadExact \/ DialFails \/ ConnectDirect(EncodeResponse(origin)) \/ ReadHttpHead \/ HttpConnected
        BY <3>1 DEF ResolvePlan, ReadExact, DialFails, ConnectDirect, ReadHttpHead, HttpConnected, EndWith,
           Reading, Dialling
      <3>2. CASE Socks5
        <4>1. CASE OnReply
          BY <4>1 DEF OnReply, Expect, EndWith, Reading
        <4>2. CASE OnLength \/ Drained
          BY <4>2 DEF OnLength, Drained, Expect, Reading
        <4>3. QED
          BY <3>2, <4>1, <4>2 DEF Socks5
      <3>3. ASSUME NEW A, NEW B, HttpConnect(A) \/ Greet(A) \/ OnMethod(A, B) \/ OnAuth(A)
            PROVE  phase' \in {"head", "method", "auth", "reply", "done"}
        <4>1. CASE HttpConnect(A) \/ Greet(A)
          BY <4>1 DEF HttpConnect, Greet, Ask
        <4>2. CASE OnMethod(A, B)
          <5>1. CASE buf = <<5, 0>>
            <6>1. <<5, 0>> # <<5, 2>>
              OBVIOUS
            <6>2. Ask("reply", 4, <<Say("connect", None)>>, A)
              BY <4>2, <5>1, <6>1, Zenon DEF OnMethod
            <6>3. QED
              BY <6>2 DEF Ask
          <5>2. CASE buf = <<5, 2>>
            <6>1. <<5, 0>> # <<5, 2>>
              OBVIOUS
            <6>2. Ask("auth", 2, <<Say("credentials", upstream.name)>>, B)
              BY <4>2, <5>2, <6>1, Zenon DEF OnMethod
            <6>3. QED
              BY <6>2 DEF Ask
          <5>3. CASE buf # <<5, 0>> /\ buf # <<5, 2>>
            <6>1. EndWith("transport_error")
              BY <4>2, <5>3, Zenon DEF OnMethod
            <6>2. QED
              BY <6>1 DEF EndWith
          <5>4. QED
            BY <5>1, <5>2, <5>3
        <4>3. CASE OnAuth(A)
          BY <4>3 DEF OnAuth, Ask, EndWith
        <4>4. QED
          BY <3>3, <4>1, <4>2, <4>3
      <3>4. QED
        BY <1>1, <3>1, <3>2, <3>3 DEF Dials, Reading
    <2>4. QED
      BY <2>1, <2>2, <2>3, RequestStays
  <1>2. CASE HeadTooLarge \/ RequestTimesOut
    BY <1>2, RequestGivesUp DEF HeadTooLarge, RequestTimesOut, EndWith, Reading
  <1>3. CASE TooManyRequests \/ ResponseFails \/ SendRequest \/ ReadCapped \/ ResponseEnds
    <2>1. UNCHANGED <<client, parsed, plan>> /\ phase \in {"handle", "tunnel", "response"}
          /\ phase' \in {"done", "response"}
      BY <1>3 DEF TooManyRequests, ResponseFails, SendRequest, ReadCapped, ResponseEnds, EndWith
    <2>2. QED
      BY <2>1, RequestStays DEF Reading
  <1>4. CASE UNCHANGED exchangeVars
    <2>1. UNCHANGED <<phase, wire, buf, want, plan, client, parsed, cut>>
      BY <1>4 DEF exchangeVars, dialling
    <2>2. (HandlesWhatItHeard <=> HandlesWhatItHeard')
          /\ \A s, n : Reads(s, 0, n) <=> Parted(buf', wire', s, 0, n)
      BY <2>1, Zenon DEF HandlesWhatItHeard, Reads
    <2>3. (\E n \in Nat : Reads(EncodeRequest(client), 0, n)) => (\E n \in Nat : Reads(EncodeRequest(client), 0, n))'
      BY <2>1, <2>2, Zenon DEF Reads
    <2>4. (\E n \in Nat : Reads(client.body, 0, n)) => (\E n \in Nat : Reads(client.body, 0, n))'
      BY <2>1, <2>2, Zenon DEF Reads
    <2>5. QED
      BY <2>1, <2>2, <2>3, <2>4 DEF RequestInv
  <1>5. QED
    BY <1>1, <1>2, <1>3, <1>4, RequestReads, RequestHead, RequestEnds, RequestHandled DEF ExchangeNext, Done

(* However a request's bytes are cut into reads and wherever they stop,    *)
(* the server (read_http_request, handle_connection) handles the method,   *)
(* the path and the body it was sent: the declared length of it and never  *)
(* a byte more, all of it unless the client was cut off, and it plans an   *)
(* exchange only for a client that has the secret.                         *)
THEOREM RequestsRunAsAsked == ExchangeSpec => []RunsWhatWasAsked
  <1>1. RequestInv => RunsWhatWasAsked
    <2> SUFFICES ASSUME RequestInv, client # None, parsed # None, phase \notin Reading
                 PROVE  /\ parsed.method = client.method /\ parsed.path = client.path
                        /\ IsPrefix(parsed.body, client.body) /\ Len(parsed.body) <= client.length
                        /\ phase = "handle" /\ ~cut => Len(parsed.body) = Min({client.length, Len(client.body)})
                        /\ plan # None => client.secret = Secret
      BY DEF RunsWhatWasAsked
    <2>1. HandlesWhatItHeard /\ (plan # None => client.secret = Secret)
      BY DEF RequestInv
    <2>2. PICK body : /\ parsed = Heard(client, body) /\ Within(client, body)
                      /\ phase = "handle" /\ ~cut => Enough(client, body)
      BY <2>1 DEF HandlesWhatItHeard
    <2>3. parsed.method = client.method /\ parsed.path = client.path /\ parsed.body = body
      BY <2>2 DEF Heard
    <2>4. QED
      BY <2>1, <2>2, <2>3 DEF Within, Enough
  <1>2. QED
    BY <1>1, RequestInit, RequestStep, PTL DEF ExchangeSpec

-----------------------------------------------------------------------------
(* What decode_chunked carries from one turn of its loop to the next.      *)
DecoderState == [left : Seq(Nat), body : Seq(Nat), end : {"none", "malformed", "panic", "whole", "cut"}]

(* What is left after k chunks of c, of which m bytes came.                *)
Midway(c, ending, s, k) ==
  \E R \in Seq(Nat), m \in Nat : /\ Ahead(c, ending, k, R) /\ m <= Len(R) /\ s.left = SubSeq(R, 1, m)
                                /\ Sofar(c, k, s.body) /\ Len(s.body) <= MaxBody
(* A decoder that goes on is between two chunks; one that ended joined     *)
(* them all, or as many as the limit lets through.                         *)
Decodes(c, ending, s) ==
  /\ s.end = "none" => \E k \in 0..Len(c) : Midway(c, ending, s, k)
  /\ s.end \in {"whole", "cut"} =>
       /\ IsPrefix(s.body, FlattenSeq(c)) /\ Len(s.body) <= MaxBody
       /\ s.end = "cut" \/ s.body = FlattenSeq(c)

(* A turn keeps the decoder's types.                                       *)
LEMMA TurnType ==
  ASSUME NEW s \in DecoderState
  PROVE  Turn(s) \in DecoderState
  <1> DEFINE size == s.left[1] - Length(0)
             rest == SubSeq(s.left, 4, Len(s.left))
             room == MaxBody - Len(s.body)
  <1>1. /\ s.left \in Seq(Nat) /\ s.body \in Seq(Nat) /\ s.end \in {"none", "malformed", "panic", "whole", "cut"}
        /\ s = [left |-> s.left, body |-> s.body, end |-> s.end]
    BY DEF DecoderState
  <1>2. MaxBody \in Nat
    BY ExchangeAssumption
  <1>3. rest \in Seq(Nat) /\ Len(rest) \in Nat /\ room \in Int
    <2>1. Len(s.body) \in Nat
      BY <1>1
    <2>2. \A l \in Seq(Nat) : SubSeq(l, 4, Len(l)) \in Seq(Nat)
      OBVIOUS
    <2>3. rest \in Seq(Nat) 
      BY <1>1, <2>2
    <2> HIDE DEF rest
    <2>4. QED
      BY <1>2, <2>1, <2>3
  <1>4. \A l \in Seq(Nat), n \in Int : n <= Len(l) => SubSeq(l, 1, n) \in Seq(Nat)
    OBVIOUS
  <1>5. \A l \in Seq(Nat), n \in Nat : SubSeq(l, n + 3, Len(l)) \in Seq(Nat)
    OBVIOUS
  <1>6. \A a \in Seq(Nat), b \in Seq(Nat) : a \o b \in Seq(Nat)
    OBVIOUS
  <1>7. \A e \in {"malformed", "panic", "whole"} : [s EXCEPT !.end = e] \in DecoderState
    BY <1>1 DEF DecoderState
  <1>8. ASSUME LengthAhead(s.left) PROVE size \in Nat
    <2>1. 1 \in 1..Len(s.left) /\ s.left[1] >= 100
      BY <1>1, <1>8 DEF LengthAhead, Length
    <2>2. s.left[1] \in Nat
      BY <1>1, <2>1
    <2>3. QED
      BY <2>1, <2>2 DEF Length
  <1> HIDE DEF rest, room, size
  <1>9. ASSUME size \in Nat, ~(Len(rest) < size + 2), size > room
        PROVE  [left |-> rest, body |-> s.body \o SubSeq(rest, 1, room), end |-> "cut"] \in DecoderState
    <2>1. room <= Len(rest)
      BY <1>3, <1>9
    <2>2. s.body \o SubSeq(rest, 1, room) \in Seq(Nat)
      BY <1>1, <1>3, <1>4, <1>6, <2>1
    <2>3. QED
      BY <1>3, <2>2 DEF DecoderState
  <1>10. ASSUME size \in Nat, ~(Len(rest) < size + 2)
         PROVE  [left |-> SubSeq(rest, size + 3, Len(rest)), body |-> s.body \o SubSeq(rest, 1, size), end |-> "none"]
                  \in DecoderState
    <2>1. size <= Len(rest) /\ size \in Int
      BY <1>3, <1>10
    <2>2. s.body \o SubSeq(rest, 1, size) \in Seq(Nat)
      BY <1>1, <1>3, <1>4, <1>6, <2>1
    <2>3. SubSeq(rest, size + 3, Len(rest)) \in Seq(Nat)
      BY <1>3, <1>5, <1>10
    <2>4. QED
      BY <2>2, <2>3 DEF DecoderState
  <1>11. QED
    BY <1>7, <1>8, <1>9, <1>10, Zenon DEF Turn, size, rest, room

(* The turns of a decoder: it starts with all that came, and each turn     *)
(* follows from the one before.                                            *)
LEMMA TurnsAre ==
  ASSUME NEW encoded \in Seq(Nat)
  PROVE  /\ Turns(encoded)[0] = [left |-> encoded, body |-> <<>>, end |-> "none"]
         /\ \A n \in Nat : Turns(encoded)[n] \in DecoderState /\ Turns(encoded)[n + 1] = Turn(Turns(encoded)[n])
  <1> DEFINE start == [left |-> encoded, body |-> <<>>, end |-> "none"]
             more == [n \in Nat |-> [x \in DecoderState |-> Turn(x)]]
             Rule(g) == g = [n \in Nat |-> IF n = 0 THEN start ELSE Turn(g[n - 1])]
             turn == CHOOSE g : Rule(g)
  <1>1. start \in DecoderState
    BY DEF DecoderState
  <1>2. more \in StepsIn(DecoderState)
    BY TurnType, Zenon DEF StepsIn
  <1> HIDE DEF start
  <1>3. PICK f : f \in Courses(DecoderState, start, more)
    <2> HIDE DEF more
    <2> QED BY <1>1, <1>2, Recursion
  <1>4. /\ f \in [Nat -> DecoderState] /\ f[0] = start /\ \A n \in Nat : f[n + 1] = Turn(f[n])
    <2>1. /\ f \in [Nat -> DecoderState] /\ f[0] = start /\ \A n \in Nat : f[n + 1] = more[n][f[n]]
      BY <1>3 DEF Courses
    <2>2. \A n \in Nat, x \in DecoderState : more[n][x] = Turn(x)
      OBVIOUS
    <2> HIDE DEF more
    <2>3. QED
      BY <2>1, <2>2
  <1>5. Rule(f)
    <2>1. ASSUME NEW n \in Nat PROVE f[n] = IF n = 0 THEN start ELSE Turn(f[n - 1])
      <3>1. CASE n # 0
        <4>1. n - 1 \in Nat /\ (n - 1) + 1 = n
          BY <3>1
        <4>2. QED
          BY <1>4, <3>1, <4>1
      <3>2. QED
        BY <1>4, <3>1
    <2>2. QED
      BY <1>4, <2>1
  <1>6. Rule(turn)
    <2> HIDE DEF Rule
    <2> QED BY <1>5
  <1>7. \A n \in Nat : turn[n] = IF n = 0 THEN start ELSE Turn(turn[n - 1])
    <2> HIDE DEF turn
    <2> QED BY <1>6
  <1> HIDE DEF turn
  <1>8. turn[0] = start /\ \A n \in Nat : turn[n + 1] = Turn(turn[n])
    <2>1. \A n \in Nat : n + 1 \in Nat /\ n + 1 # 0 /\ (n + 1) - 1 = n
      OBVIOUS
    <2>2. QED
      BY <1>7, <2>1
  <1>9. \A n \in Nat : turn[n] \in DecoderState
    <2> DEFINE P == {n \in Nat : turn[n] \in DecoderState}
    <2>1. 0 \in P
      BY <1>1, <1>8
    <2>2. ASSUME NEW n \in Nat, n \in P PROVE n + 1 \in P
      <3>1. turn[n] \in DecoderState /\ n + 1 \in Nat
        BY <2>2
      <3>2. Turn(turn[n]) \in DecoderState
        BY <3>1, TurnType, Zenon
      <3>3. QED
        BY <1>8, <3>1, <3>2
    <2> HIDE DEF P
    <2>3. \A n \in Nat : n \in P
      BY <2>1, <2>2, Induction
    <2>4. QED
      BY <2>3 DEF P
  <1>10. Turns(encoded) = turn
    BY DEF Turns, turn, start
  <1>11. QED
    BY <1>8, <1>9, <1>10 DEF start

(* The first m bytes of a chunk and what comes after it.                   *)
LEMMA LeftBytes ==
  ASSUME NEW e \in Seq(Nat), NEW m \in Nat, m <= Len(e)
  PROVE  /\ SubSeq(e, 1, m) \in Seq(Nat) /\ Len(SubSeq(e, 1, m)) = m
         /\ \A j \in 1..m : SubSeq(e, 1, m)[j] = e[j]
  OBVIOUS

(* The decoder takes a chunk from what came of it.                         *)
Taken(left, m, d, r) ==
  LET rest == SubSeq(left, 4, Len(left))
      n == Len(d)
  IN /\ left[1] = 100 + n /\ Len(rest) = m - 3 /\ rest \in Seq(Nat)
     /\ n + 2 <= m - 3 => /\ SubSeq(rest, 1, n) = d
                          /\ m - (n + 5) \in Nat /\ m - (n + 5) <= Len(r)
                          /\ SubSeq(rest, n + 3, Len(rest)) = SubSeq(r, 1, m - (n + 5))

(* When enough of a chunk came, its data is read off it.                   *)
LEMMA ChunkTaken ==
  ASSUME NEW d \in Seq(Nat), NEW r \in Seq(Nat), NEW R, ChunkThen(R, d, r),
         NEW m \in Nat, m <= Len(R), NEW left, left = SubSeq(R, 1, m), m >= 3
  PROVE  Taken(left, m, d, r)
  <1> DEFINE n == Len(d)
             rest == SubSeq(left, 4, Len(left))
  <1>1. /\ R \in Seq(Nat) /\ Len(R) = n + 5 + Len(r) /\ n \in Nat /\ R[1] = 100 + n
        /\ (\A j \in 1..n : R[3 + j] = d[j]) /\ \A j \in 1..Len(r) : R[n + 5 + j] = r[j]
    <2>1. ChunkShape(R, d, r)
      BY AfterChunk, Zenon
    <2>2. QED
      BY <2>1, Zenon DEF ChunkShape
  <1>2. left \in Seq(Nat) /\ Len(left) = m /\ \A j \in 1..m : left[j] = R[j]
    <2>1. R \in Seq(Nat)
      BY <1>1
    <2>2. QED
      BY <2>1, LeftBytes, Zenon
  <1>3. left[1] = 100 + n
    <2>1. 1 \in 1..m
      OBVIOUS
    <2>2. QED
      BY <1>1, <1>2, <2>1, Zenon
  <1>4. rest \in Seq(Nat) /\ Len(rest) = m - 3 /\ \A j \in 1..(m - 3) : rest[j] = left[3 + j]
    <2>1. left \in Seq(Nat) /\ Len(left) = m
      BY <1>2
    <2>2. 3 + 1 = 4 /\ 3 \in Nat /\ 3 <= Len(left)
      BY <2>1
    <2>3. /\ SubSeq(left, 3 + 1, Len(left)) \in Seq(Nat) /\ Len(SubSeq(left, 3 + 1, Len(left))) = Len(left) - 3
          /\ \A j \in 1..(Len(left) - 3) : SubSeq(left, 3 + 1, Len(left))[j] = left[3 + j]
      BY <2>1, <2>2, SubSeqParts, Zenon
    <2>4. QED
      BY <2>1, <2>2, <2>3
  <1> HIDE DEF rest
  <1>5. ASSUME n + 2 <= m - 3
        PROVE  /\ SubSeq(rest, 1, n) = d
               /\ m - (n + 5) \in Nat /\ m - (n + 5) <= Len(r)
               /\ SubSeq(rest, n + 3, Len(rest)) = SubSeq(r, 1, m - (n + 5))
    <2> DEFINE w == m - (n + 5)
               z == SubSeq(r, 1, w)
    <2>1. Len(r) \in Nat
      OBVIOUS
    <2>2. w \in Nat /\ w <= Len(r) /\ n <= m - 3 /\ m - 3 \in Nat /\ n + 2 \in Nat /\ (m - 3) - (n + 2) = w
          /\ n \in Nat /\ n + 2 + 1 = n + 3 /\ 0 + 1 = 1 /\ 0 \in Nat /\ n - 0 = n
      <3>1. n \in Nat /\ m <= n + 5 + Len(r)
        BY <1>1
      <3> HIDE DEF n
      <3>2. QED
        BY <1>5, <2>1, <3>1
    <2>3. z \in Seq(Nat) /\ Len(z) = w /\ \A j \in 1..w : z[j] = r[j]
      BY <2>2, LeftBytes, Zenon
    <2>4. \A j \in 1..Len(d) : rest[0 + j] = d[j]
      <3> SUFFICES ASSUME NEW j \in 1..n PROVE rest[0 + j] = d[j]
        OBVIOUS
      <3>1. j \in 1..(m - 3) /\ 3 + j \in 1..m /\ 0 + j = j
        <4> HIDE DEF n
        <4> QED BY <2>2
      <3>2. QED
        BY <1>1, <1>2, <1>4, <3>1
    <2>5. SubSeq(rest, 1, n) = d
      <3>1. rest \in Seq(Nat) /\ n \in Nat /\ 0 \in Nat /\ n <= Len(rest) /\ n - 0 = Len(d)
        BY <1>4, <2>2
      <3>2. SubSeq(rest, 0 + 1, n) = d
        BY <2>4, <3>1, SubSeqIs, Zenon
      <3>3. QED
        BY <2>2, <3>2
    <2> HIDE DEF w, z, n
    <2>6. \A j \in 1..Len(z) : rest[(n + 2) + j] = z[j]
      <3> SUFFICES ASSUME NEW j \in 1..w PROVE rest[(n + 2) + j] = z[j]
        BY <2>3
      <3>1. /\ (n + 2) + j \in 1..(m - 3) /\ 3 + ((n + 2) + j) \in 1..m /\ 3 + ((n + 2) + j) = n + 5 + j
            /\ j \in 1..Len(r)
        <4>1. m - (n + 5) = w
          BY DEF w
        <4>2. QED
          BY <2>1, <2>2, <4>1
      <3>2. rest[(n + 2) + j] = left[3 + ((n + 2) + j)]
        BY <1>4, <3>1
      <3>3. left[3 + ((n + 2) + j)] = R[n + 5 + j]
        BY <1>2, <3>1
      <3>4. QED
        BY <1>1, <2>3, <3>1, <3>2, <3>3
    <2>7. SubSeq(rest, (n + 2) + 1, m - 3) = z
      <3>1. rest \in Seq(Nat) /\ z \in Seq(Nat) /\ m - 3 <= Len(rest) /\ (m - 3) - (n + 2) = Len(z)
        BY <1>4, <2>2, <2>3
      <3>2. QED
        BY <2>2, <2>6, <3>1, SubSeqIs
    <2>8. QED
      BY <1>4, <2>2, <2>5, <2>7 DEF z, w
  <1>6. QED
    BY <1>2, <1>3, <1>4, <1>5, Zenon DEF rest, Taken

(* A limit cuts what was joined where it cuts what joined it.              *)
CutAt(b, d, rest, room) ==
  /\ b \o SubSeq(rest, 1, room) = SubSeq(b \o d, 1, Len(b) + room)
  /\ Len(b \o SubSeq(rest, 1, room)) = Len(b) + room
  /\ Len(b) + room \in 0..Len(b \o d) /\ b \o d \in Seq(Nat)

(* A part that is cut and then joined is joined and then cut.              *)
LEMMA CutJoined ==
  ASSUME NEW b \in Seq(Nat), NEW d \in Seq(Nat), NEW n \in 0..Len(d)
  PROVE  SubSeq(b \o d, 1, Len(b) + n) = b \o SubSeq(d, 1, n)
  <1> DEFINE t == b \o SubSeq(d, 1, n)
             e == b \o d
             z == SubSeq(d, 1, n)
  <1>1. z \in Seq(Nat) /\ Len(z) = n /\ \A j \in 1..n : z[j] = d[j]
    OBVIOUS
  <1>2. Len(b) \in Nat /\ Len(d) \in Nat
    OBVIOUS
  <1>3. /\ e \in Seq(Nat) /\ Len(e) = Len(b) + Len(d) /\ (\A j \in 1..Len(b) : e[j] = b[j])
        /\ \A j \in 1..Len(d) : e[Len(b) + j] = d[j]
    BY TwoParts, Zenon
  <1> HIDE DEF z, e
  <1>4. /\ b \o z \in Seq(Nat) /\ Len(b \o z) = Len(b) + Len(z) /\ (\A j \in 1..Len(b) : (b \o z)[j] = b[j])
        /\ \A j \in 1..Len(z) : (b \o z)[Len(b) + j] = z[j]
    BY <1>1, TwoParts, Zenon
  <1>5. t = b \o z
    BY DEF z
  <1> HIDE DEF t
  <1>6. \A j \in 1..Len(t) : e[0 + j] = t[j]
    <2> SUFFICES ASSUME NEW j \in 1..Len(t) PROVE e[0 + j] = t[j]
      OBVIOUS
    <2>1. Len(t) = Len(b) + n /\ 0 + j = j
      BY <1>1, <1>4, <1>5
    <2>2. CASE j <= Len(b)
      <3>1. j \in 1..Len(b)
        BY <1>2, <2>2
      <3>2. QED
        BY <1>3, <1>4, <1>5, <2>1, <3>1, Zenon
    <2>3. CASE ~(j <= Len(b))
      <3>1. PICK i \in 1..n : j = Len(b) + i
        <4>1. j - Len(b) \in 1..n /\ j = Len(b) + (j - Len(b))
          BY <1>2, <2>1, <2>3
        <4>2. QED
          BY <4>1
      <3>2. i \in 1..Len(d) /\ i \in 1..Len(z)
        BY <1>1, <1>2, <3>1
      <3>3. e[j] = d[i] /\ t[j] = z[i] /\ z[i] = d[i]
        BY <1>1, <1>3, <1>4, <1>5, <3>1, <3>2, Zenon
      <3>4. QED
        BY <2>1, <3>3
    <2>4. QED
      BY <2>2, <2>3
  <1>7. t \in Seq(Nat) /\ Len(t) = Len(b) + n /\ Len(b) + n <= Len(e) /\ Len(b) + n \in Nat /\ (Len(b) + n) - 0 = Len(b) + n
        /\ 0 + 1 = 1 /\ 0 \in Nat
    <2>1. t \in Seq(Nat) /\ Len(t) = Len(b) + n
      BY <1>1, <1>4, <1>5, Zenon
    <2>2. QED
      BY <1>2, <1>3, <2>1
  <1>10. e \in Seq(Nat)
    BY <1>3
  <1> DEFINE h == Len(b) + n
  <1>11. h \in Nat /\ h <= Len(e) /\ h - 0 = Len(t) /\ t \in Seq(Nat) /\ 0 \in Nat
    BY <1>7
  <1> HIDE DEF h
  <1>8. SubSeq(e, 0 + 1, h) = t
    BY <1>6, <1>10, <1>11, SubSeqIs, Zenon
  <1>9. QED
    BY <1>7, <1>8 DEF t, e, h

(* What is cut within a chunk's data is cut from that data.                *)
LEMMA CutWithin ==
  ASSUME NEW b \in Seq(Nat), NEW d \in Seq(Nat), NEW rest \in Seq(Nat), NEW room \in 0..Len(d),
         Len(d) <= Len(rest), SubSeq(rest, 1, Len(d)) = d
  PROVE  CutAt(b, d, rest, room)
  <1>1. SubSeq(rest, 1, room) = SubSeq(d, 1, room)
    <2>1. SubSeq(SubSeq(rest, 1, Len(d)), 1, room) = SubSeq(rest, 1, room)
      OBVIOUS
    <2>2. QED
      BY <2>1
  <1>2. SubSeq(b \o d, 1, Len(b) + room) = b \o SubSeq(d, 1, room)
    BY CutJoined, Zenon
  <1>3. Len(b \o SubSeq(d, 1, room)) = Len(b) + room
    OBVIOUS
  <1>4. Len(b) + room \in 0..Len(b \o d) /\ b \o d \in Seq(Nat)
    OBVIOUS
  <1>5. QED
    BY <1>1, <1>2, <1>3, <1>4, Zenon DEF CutAt

(* The decoder's next turn at a chunk.                                     *)
LEMMA TurnTakes ==
  ASSUME NEW c, Chunks(c), NEW ending \in Nat, NEW s \in DecoderState, s.end = "none", LengthAhead(s.left),
         NEW k \in 0..(Len(c) - 1), Midway(c, ending, s, k)
  PROVE  Decodes(c, ending, Turn(s))
  <1> DEFINE size == s.left[1] - Length(0)
             rest == SubSeq(s.left, 4, Len(s.left))
             room == MaxBody - Len(s.body)
             d == c[k + 1]
             n == Len(d)
  <1>1. PICK R \in Seq(Nat), m \in Nat :
          /\ Ahead(c, ending, k, R) /\ m <= Len(R) /\ s.left = SubSeq(R, 1, m)
          /\ Sofar(c, k, s.body) /\ Len(s.body) <= MaxBody
    BY Zenon DEF Midway
  <1>2. s.left \in Seq(Nat) /\ s.body \in Seq(Nat) /\ Len(s.left) >= 3 /\ MaxBody \in Nat
    BY ExchangeAssumption DEF DecoderState, LengthAhead
  <1>3. Len(c) \in Nat /\ k + 1 \in 1..Len(c) /\ k + 1 \in 0..Len(c) /\ k \in 0..Len(c)
    <2>1. Len(c) \in Nat
      BY ChunksType, Zenon
    <2>2. QED
      BY <2>1
  <1>4. d \in Seq(Nat) /\ n > 0 /\ n \in Nat
    <2>1. d \in Seq(Nat) /\ Len(d) > 0
      BY <1>3, ChunksType, Zenon
    <2>2. QED
      BY <2>1
  <1>5. PICK r \in Seq(Nat) : ChunkThen(R, d, r) /\ Ahead(c, ending, k + 1, r)
    BY <1>1, AheadGoesOn, Zenon
  <1>6. Len(s.left) = m /\ m >= 3
    BY <1>1, <1>2, LeftBytes
  <1>7. /\ s.left[1] = 100 + n /\ Len(rest) = m - 3 /\ rest \in Seq(Nat)
        /\ n + 2 <= m - 3 => /\ SubSeq(rest, 1, n) = d
                             /\ m - (n + 5) \in Nat /\ m - (n + 5) <= Len(r)
                             /\ SubSeq(rest, n + 3, Len(rest)) = SubSeq(r, 1, m - (n + 5))
    <2>1. Taken(s.left, m, d, r)
      <3>1. d \in Seq(Nat) /\ s.left = SubSeq(R, 1, m) /\ m <= Len(R) /\ m >= 3
        BY <1>1, <1>4, <1>6
      <3> HIDE DEF d
      <3>2. QED
        BY <1>5, <3>1, ChunkTaken, Zenon
    <2>2. QED
      BY <2>1, Zenon DEF Taken
  <1>8. Sofar(c, k + 1, s.body \o d)
    BY <1>1, SofarFacts, Zenon
  <1>9. PICK q \in Seq(Nat) : FlattenSeq(c) = (s.body \o d) \o q
    BY <1>3, <1>8, SofarFacts, Zenon
  <1>10. size = n /\ room \in Nat /\ Len(s.body) + room = MaxBody /\ Len(s.body) \in Nat
    <2>1. Len(s.body) \in Nat
      BY <1>2
    <2>2. \A a \in Nat : (100 + a) - Length(0) = a
      BY DEF Length
    <2>3. s.left[1] - Length(0) = n
      BY <1>4, <1>7, <2>2
    <2>4. \A a \in Nat, b \in Nat : a <= b => b - a \in Nat /\ a + (b - a) = b
      OBVIOUS
    <2>5. QED
      BY <1>1, <1>2, <2>1, <2>3, <2>4
  <1> HIDE DEF size, rest, room, d
  <1>11. ASSUME ~(Len(rest) < n + 2)
         PROVE  n + 2 <= m - 3 /\ n <= Len(rest)
    <2>1. Len(rest) = m - 3 /\ n \in Nat
      BY <1>4, <1>7
    <2> HIDE DEF n
    <2>2. QED
      BY <1>11, <2>1
  <1>12. ASSUME ~(Len(rest) < n + 2), n > room
         PROVE  Decodes(c, ending, [left |-> rest, body |-> s.body \o SubSeq(rest, 1, room), end |-> "cut"])
    <2> DEFINE a == s.body \o d
               b == s.body \o SubSeq(rest, 1, room)
    <2>8. SubSeq(rest, 1, n) = d /\ n <= Len(rest)
      BY <1>7, <1>11, <1>12, Zenon
    <2>9. room \in 0..n
      BY <1>4, <1>10, <1>12
    <2>1. room \in 0..Len(d) /\ Len(d) <= Len(rest) /\ SubSeq(rest, 1, Len(d)) = d
      BY <2>8, <2>9, Zenon
    <2>2. /\ b = SubSeq(a, 1, MaxBody) /\ Len(b) = MaxBody /\ MaxBody \in 0..Len(a) /\ a \in Seq(Nat)
      <3>1. /\ b = SubSeq(a, 1, Len(s.body) + room) /\ Len(b) = Len(s.body) + room
            /\ Len(s.body) + room \in 0..Len(a) /\ a \in Seq(Nat)
        <4>1. CutAt(s.body, d, rest, room)
          BY <1>2, <1>4, <1>7, <2>1, CutWithin, Zenon
        <4>2. QED
          BY <4>1, Zenon DEF CutAt
      <3>2. QED
        BY <1>10, <3>1, Zenon
    <2> HIDE DEF a, b
    <2>3. IsPrefix(SubSeq(a, 1, MaxBody), a \o q)
      BY <2>2, StartsWith, Zenon
    <2>4. FlattenSeq(c) = a \o q
      BY <1>9 DEF a
    <2>5. IsPrefix(b, FlattenSeq(c)) /\ Len(b) <= MaxBody
      BY <1>2, <2>2, <2>3, <2>4
    <2>6. QED
      BY <2>5 DEF Decodes, b
  <1>13. ASSUME ~(Len(rest) < n + 2), ~(n > room)
         PROVE  Decodes(c, ending, [left |-> SubSeq(rest, n + 3, Len(rest)), body |-> s.body \o SubSeq(rest, 1, n), end |-> "none"])
    <2> DEFINE t == [left |-> SubSeq(rest, n + 3, Len(rest)), body |-> s.body \o SubSeq(rest, 1, n), end |-> "none"]
               w == m - (n + 5)
    <2>1. /\ t.body = s.body \o d /\ w \in Nat /\ w <= Len(r) /\ t.left = SubSeq(r, 1, w) /\ t.end = "none"
      BY <1>7, <1>11, <1>13, Zenon
    <2>2. Len(t.body) <= MaxBody
      <3>1. Len(s.body \o d) = Len(s.body) + n
        BY <1>2, <1>4
      <3>2. Len(s.body) + n <= MaxBody
        BY <1>4, <1>10, <1>13
      <3>3. QED
        BY <2>1, <3>1, <3>2, Zenon
    <2> HIDE DEF t, w
    <2>3. Midway(c, ending, t, k + 1)
      BY <1>5, <1>8, <2>1, <2>2, Zenon DEF Midway
    <2>4. Decodes(c, ending, t)
      BY <1>3, <2>1, <2>3 DEF Decodes
    <2>5. QED
      BY <2>4 DEF t
  <1>14. \A e \in {"malformed", "panic"} : Decodes(c, ending, [s EXCEPT !.end = e])
    BY DEF Decodes, DecoderState
  <1>15. n # 0
    BY <1>4
  <1>16. QED
    BY <1>10, <1>12, <1>13, <1>14, <1>15, Zenon DEF Turn, size, rest, room

(* Every turn of the decoder keeps it faithful to the chunks that were     *)
(* sent.                                                                   *)
LEMMA TurnDecodes ==
  ASSUME NEW c, Chunks(c), NEW ending \in Nat, NEW s \in DecoderState, Decodes(c, ending, s)
  PROVE  Decodes(c, ending, Turn(s))
  <1>1. CASE s.end # "none"
    BY <1>1 DEF Turn
  <1>2. CASE s.end = "none" /\ ~LengthAhead(s.left)
    <2>1. Turn(s) = [s EXCEPT !.end = "malformed"]
      BY <1>2 DEF Turn
    <2>2. QED
      BY <2>1 DEF Decodes, DecoderState
  <1>3. CASE s.end = "none" /\ LengthAhead(s.left)
    <2>1. PICK k \in 0..Len(c) : Midway(c, ending, s, k)
      BY <1>3 DEF Decodes
    <2>2. Len(c) \in Nat
      BY ChunksType, Zenon
    <2>3. CASE k = Len(c)
      <3>1. PICK R \in Seq(Nat), m \in Nat :
              /\ Ahead(c, ending, k, R) /\ m <= Len(R) /\ s.left = SubSeq(R, 1, m)
              /\ Sofar(c, k, s.body) /\ Len(s.body) <= MaxBody
        BY <2>1, Zenon DEF Midway
      <3>2. R[1] = 100 + ending /\ Len(R) = 5
        <4>1. R = EncodeLast(ending)
          BY <2>3, <3>1, AheadEnds, Zenon
        <4>2. QED
          BY <4>1, LastChunk, Zenon
      <3>3. s.left[1] = 100 + ending /\ Len(s.left) = m /\ m <= 5
        <4>1. Len(s.left) = m /\ \A j \in 1..m : s.left[j] = R[j]
          BY <3>1, LeftBytes, Zenon
        <4>2. 1 \in 1..m
          BY <1>3, <4>1 DEF LengthAhead
        <4>3. QED
          BY <3>1, <3>2, <4>1, <4>2
      <3>4. \E x \in {"whole", "malformed", "panic"} : Turn(s) = [s EXCEPT !.end = x] /\ (x = "whole" => ending = 0)
        <4> DEFINE size == s.left[1] - Length(0)
                   rest == SubSeq(s.left, 4, Len(s.left))
                   room == MaxBody - Len(s.body)
        <4>1. size = ending
          BY <3>3 DEF Length
        <4>2. Len(rest) < ending + 2 \/ ending = 0
          <5>1. s.left \in Seq(Nat) /\ Len(s.left) >= 3
            BY <1>3 DEF LengthAhead, DecoderState
          <5>2. Len(rest) = m - 3
            BY <3>3, <5>1
          <5> HIDE DEF rest
          <5>3. QED
            BY <3>3, <5>2
        <4> HIDE DEF size, rest, room
        <4>3. QED
          BY <1>3, <4>1, <4>2, Zenon DEF Turn, size, rest, room
      <3>9. PICK x \in {"whole", "malformed", "panic"} : Turn(s) = [s EXCEPT !.end = x]
        BY <3>4
      <3>5. s.body = FlattenSeq(c) /\ s.body \in Seq(Nat)
        BY <2>3, <3>1, SofarFacts, Zenon
      <3>6. IsPrefix(s.body, FlattenSeq(c))
        BY <3>5 DEF IsPrefix
      <3>7. [s EXCEPT !.end = x].body = s.body /\ [s EXCEPT !.end = x].end = x
        BY DEF DecoderState
      <3>8. QED
        BY <3>1, <3>5, <3>6, <3>7, <3>9 DEF Decodes
    <2>4. CASE k # Len(c)
      <3>1. k \in 0..(Len(c) - 1)
        BY <2>2, <2>4
      <3>2. QED
        BY <1>3, <2>1, <3>1, TurnTakes, Zenon
    <2>5. QED
      BY <2>3, <2>4
  <1>4. QED
    BY <1>1, <1>2, <1>3

(* However much of a chunked body came, what the decoder makes of it is    *)
(* what was sent, or a part of it that is said to be cut.                  *)
LEMMA DecoderIsFaithful ==
  ASSUME NEW c, Chunks(c), NEW ending \in Nat, NEW n \in 0..Len(ChunkedBody(c, ending))
  PROVE  /\ DecodeChunked(SubSeq(ChunkedBody(c, ending), 1, n)) \in DecoderState
         /\ Decodes(c, ending, DecodeChunked(SubSeq(ChunkedBody(c, ending), 1, n)))
  <1> DEFINE W == ChunkedBody(c, ending)
             e == SubSeq(W, 1, n)
             turn == Turns(e)
  <1>1. W \in Seq(Nat) /\ Ahead(c, ending, 0, W)
    BY AheadStarts, Zenon
  <1>2. e \in Seq(Nat) /\ n \in Nat /\ n <= Len(W) /\ Len(e) \in Nat
    <2>1. W \in Seq(Nat)
      BY <1>1
    <2> HIDE DEF W
    <2>2. QED
      BY <2>1 DEF W
  <1>3. /\ turn[0] = [left |-> e, body |-> <<>>, end |-> "none"]
        /\ \A k \in Nat : turn[k] \in DecoderState /\ turn[k + 1] = Turn(turn[k])
    BY <1>2, TurnsAre, Zenon
  <1>4. Decodes(c, ending, turn[0])
    <2>1. Sofar(c, 0, <<>>) /\ Len(c) \in Nat
      BY SofarFacts, ChunksType, Zenon
    <2>2. Len(<<>>) <= MaxBody /\ 0 \in 0..Len(c)
      BY <2>1, ExchangeAssumption
    <2> HIDE DEF turn, W
    <2>6. turn[0] = [left |-> e, body |-> <<>>, end |-> "none"]
      BY <1>3, Zenon
    <2>3. turn[0].left = SubSeq(W, 1, n) /\ turn[0].body = <<>> /\ turn[0].end = "none"
      BY <2>6
    <2>4. Midway(c, ending, turn[0], 0)
      BY <1>1, <1>2, <2>1, <2>2, <2>3, Zenon DEF Midway
    <2>5. QED
      BY <2>2, <2>3, <2>4 DEF Decodes
  <1> DEFINE P == {k \in Nat : Decodes(c, ending, turn[k])}
  <1> HIDE DEF turn, e, W
  <1>5. \A k \in Nat : k \in P
    <2>1. 0 \in P
      BY <1>4
    <2>2. ASSUME NEW k \in Nat, k \in P PROVE k + 1 \in P
      <3>1. Decodes(c, ending, Turn(turn[k]))
        BY <1>3, <2>2, TurnDecodes, Zenon
      <3>2. k + 1 \in Nat
        OBVIOUS
      <3>3. QED
        BY <1>3, <3>1, <3>2
    <2> HIDE DEF P
    <2>3. QED
      BY <2>1, <2>2, Induction
  <1>6. Len(e) + 1 \in Nat
    BY <1>2
  <1>7. turn[Len(e) + 1] \in DecoderState /\ Decodes(c, ending, turn[Len(e) + 1])
    BY <1>3, <1>5, <1>6
  <1>8. QED
    BY <1>7 DEF DecodeChunked, turn, e, W

(* On any bytes, the loop of decode_chunked has ended after one turn more  *)
(* than there are bytes: each turn that goes on takes a byte at least.     *)
THEOREM DecoderEnds ==
  ASSUME NEW e \in Seq(Nat)
  PROVE  DecodeChunked(e).end # "none"
  <1> DEFINE turn == Turns(e)
             P == {k \in Nat : turn[k].end = "none" => Len(turn[k].left) + k <= Len(e)}
  <1>1. /\ turn[0] = [left |-> e, body |-> <<>>, end |-> "none"]
        /\ \A k \in Nat : turn[k] \in DecoderState /\ turn[k + 1] = Turn(turn[k])
    BY TurnsAre, Zenon
  <1>2. Len(e) \in Nat
    OBVIOUS
  <1> HIDE DEF turn
  <1>3. ASSUME NEW s \in DecoderState, Turn(s).end = "none"
        PROVE  s.end = "none" /\ Len(Turn(s).left) + 1 <= Len(s.left) /\ Len(Turn(s).left) \in Nat
    <2> DEFINE size == s.left[1] - Length(0)
               rest == SubSeq(s.left, 4, Len(s.left))
    <2>1. s.end = "none"
      BY <1>3, Zenon DEF Turn
    <2>2. LengthAhead(s.left)
      BY <1>3, <2>1 DEF Turn, DecoderState
    <2>3. size # 0 /\ ~(Len(rest) < size + 2) /\ Turn(s).left = SubSeq(rest, size + 3, Len(rest))
      <3>1. \A x \in {"malformed", "panic", "whole"} : [s EXCEPT !.end = x].end = x
        BY DEF DecoderState
      <3> HIDE DEF size, rest
      <3>2. QED
        BY <1>3, <2>1, <2>2, <3>1, Zenon DEF Turn, size, rest
    <2>4. s.left \in Seq(Nat) /\ Len(s.left) >= 3
      BY <2>2 DEF DecoderState, LengthAhead
    <2>5. size \in Nat
      <3>1. 1 \in 1..Len(s.left) /\ s.left[1] >= 100
        BY <2>2, <2>4 DEF LengthAhead, Length
      <3>2. s.left[1] \in Nat
        BY <2>4, <3>1
      <3>3. QED
        BY <3>1, <3>2 DEF Length
    <2>6. rest \in Seq(Nat) /\ Len(rest) = Len(s.left) - 3
      BY <2>4
    <2> HIDE DEF size, rest
    <2>7. Len(SubSeq(rest, size + 3, Len(rest))) = Len(rest) - (size + 2) /\ Len(rest) - (size + 2) \in Nat
      <3>1. Len(rest) >= size + 2 /\ Len(rest) \in Nat /\ rest \in Seq(Nat)
        BY <2>3, <2>5, <2>6
      <3>2. \A l \in Seq(Nat), a \in Nat : Len(l) >= a + 2 =>
              Len(SubSeq(l, a + 3, Len(l))) = Len(l) - (a + 2) /\ Len(l) - (a + 2) \in Nat
        OBVIOUS
      <3>3. QED
        BY <2>5, <3>1, <3>2, Zenon
    <2>8. QED
      <3>1. Len(s.left) \in Nat /\ Len(rest) \in Nat
        BY <2>4, <2>6
      <3>2. Len(Turn(s).left) = Len(rest) - (size + 2) /\ Len(Turn(s).left) \in Nat
        BY <2>3, <2>7
      <3>3. QED
        BY <2>1, <2>5, <2>6, <3>1, <3>2
  <1>4. \A k \in Nat : k \in P
    <2>1. 0 \in P
      BY <1>1, <1>2
    <2>2. ASSUME NEW k \in Nat, k \in P PROVE k + 1 \in P
      <3>1. turn[k] \in DecoderState /\ turn[k + 1] = Turn(turn[k]) /\ k + 1 \in Nat
        BY <1>1
      <3>2. ASSUME turn[k + 1].end = "none" PROVE Len(turn[k + 1].left) + (k + 1) <= Len(e)
        <4>1. Turn(turn[k]).end = "none"
          BY <3>1, <3>2
        <4>2. turn[k].end = "none" /\ Len(turn[k + 1].left) + 1 <= Len(turn[k].left) /\ Len(turn[k + 1].left) \in Nat
          BY <1>3, <3>1, <4>1, Zenon
        <4>3. Len(turn[k].left) + k <= Len(e) /\ Len(turn[k].left) \in Nat
          <5>1. turn[k].left \in Seq(Nat)
            BY <3>1 DEF DecoderState
          <5>2. QED
            BY <2>2, <4>2, <5>1
        <4>4. \A x \in Nat, y \in Nat, z \in Nat : y + 1 <= x /\ x + k <= z => y + (k + 1) <= z
          OBVIOUS
        <4>5. QED
          BY <1>2, <4>2, <4>3, <4>4, Zenon
      <3>3. QED
        BY <3>1, <3>2
    <2> HIDE DEF P
    <2>3. QED
      BY <2>1, <2>2, Induction
  <1>5. turn[Len(e) + 1].end # "none"
    <2>1. Len(e) + 1 \in Nat
      BY <1>2
    <2>2. turn[Len(e) + 1].left \in Seq(Nat)
      BY <1>1, <2>1 DEF DecoderState
    <2>3. Len(turn[Len(e) + 1].left) \in Nat
      BY <2>2
    <2>4. turn[Len(e) + 1].end = "none" => Len(turn[Len(e) + 1].left) + (Len(e) + 1) <= Len(e)
      BY <1>4, <2>1
    <2>5. \A x \in Nat, y \in Nat : ~(x + (y + 1) <= y)
      OBVIOUS
    <2>6. QED
      BY <1>2, <2>3, <2>4, <2>5, Zenon
  <1>6. QED
    BY <1>5 DEF DecodeChunked, turn

(* A head comes first, and then a line end.                                *)
Opens(e, H) == (\A j \in 1..Len(H) : e[j] = H[j]) /\ e[Len(H) + 1] = 13 /\ e[Len(H) + 2] = 10

(* A head opens what is sent.                                              *)
LEMMA HeadOpens ==
  ASSUME NEW H \in Seq(Nat), NEW B \in Seq(Nat)
  PROVE  Opens((H \o EndOfHead) \o B, H)
  <1>1. EndOfHead = <<13, 10, 13, 10>>
    BY DEF EndOfHead, CR, LF
  <1>2. \A j \in 1..Len(H) : ((H \o <<13, 10, 13, 10>>) \o B)[j] = H[j]
    OBVIOUS
  <1>3. ((H \o <<13, 10, 13, 10>>) \o B)[Len(H) + 1] = 13 /\ ((H \o <<13, 10, 13, 10>>) \o B)[Len(H) + 2] = 10
    OBVIOUS
  <1>4. QED
    BY <1>1, <1>2, <1>3, Zenon DEF Opens

(* The bytes of a head: no blank line is in it, and it speaks of chunks    *)
(* exactly if there are any.                                               *)
LEMMA ResponseHead ==
  ASSUME NEW r \in Responses
  PROVE  Calm(EncodeResponse(r), HeadSent(r)) /\ (Contains(HeadSent(r), Chunked) <=> r.chunks # None)
  <1> DEFINE p == r.head
             h == <<200>> \o p
             e == EncodeResponse(r)
             H == HeadSent(r)
  <1>1. /\ H \in Seq(Nat) /\ BodySent(r) \in Seq(Nat) /\ e = (H \o EndOfHead) \o BodySent(r)
        /\ h \in Seq(Nat) /\ p \in Seq(HeadWord)
    BY ResponseParts, Zenon
  <1>2. /\ Len(H) \in Nat /\ (\A j \in 1..Len(H) : e[j] = H[j]) /\ e[Len(H) + 1] = 13 /\ e[Len(H) + 2] = 10
    <2>1. Opens((H \o EndOfHead) \o BodySent(r), H)
      BY <1>1, HeadOpens, Zenon
    <2>2. Opens(e, H)
      BY <1>1, <2>1, Zenon
    <2>3. Len(H) \in Nat
      BY <1>1
    <2>4. QED
      BY <2>2, <2>3, Zenon DEF Opens
  <1>3. /\ Len(h) = Len(p) + 1 /\ Len(p) \in Nat /\ Len(h) \in Nat
        /\ \A i \in 1..Len(h) : h[i] \in Nat /\ h[i] # 13 /\ h[i] # Chunked
    <2>1. Len(h) = Len(p) + 1 /\ Len(p) \in Nat /\ h[1] = 200 /\ \A i \in 1..Len(p) : h[1 + i] = p[i]
      BY <1>1
    <2>2. \A i \in 1..Len(p) : p[i] \in Nat /\ p[i] # 13 /\ p[i] # Chunked
      BY <1>1 DEF HeadWord, CR
    <2>3. ASSUME NEW i \in 1..Len(h) PROVE h[i] \in Nat /\ h[i] # 13 /\ h[i] # Chunked
      <3>1. CASE i = 1
        BY <2>1, <3>1 DEF Chunked
      <3>2. CASE i # 1
        <4>1. i - 1 \in 1..Len(p) /\ 1 + (i - 1) = i
          BY <2>1, <3>2
        <4>2. h[i] = p[i - 1]
          BY <2>1, <4>1
        <4>3. QED
          BY <2>2, <4>1, <4>2
      <3>3. QED
        BY <3>1, <3>2
    <2>4. QED
      BY <2>1, <2>3
  <1> HIDE DEF h
  <1>4. CASE r.chunks = None
    <2>1. H = h
      BY <1>4 DEF HeadSent, h
    <2> HIDE DEF H, e
    <2>2. Calm(e, H)
      BY <1>2, <1>3, <2>1 DEF Calm
    <2>3. ~Contains(H, Chunked)
      BY <1>3, <2>1 DEF Contains
    <2>4. QED
      BY <1>4, <2>2, <2>3 DEF H, e
  <1>5. CASE r.chunks # None
    <2> DEFINE x == <<CR, LF, Chunked>>
    <2>1. H = h \o x
      BY <1>5 DEF HeadSent, h
    <2>2. x \in Seq(Nat) /\ Len(x) = 3 /\ x[1] = 13 /\ x[2] = 10 /\ x[3] = 90 /\ Chunked = 90
      BY DEF CR, LF, Chunked
    <2> HIDE DEF x
    <2>3. /\ Len(H) = Len(h) + 3 /\ (\A j \in 1..Len(h) : H[j] = h[j])
          /\ H[Len(h) + 1] = 13 /\ H[Len(h) + 2] = 10 /\ H[Len(h) + 3] = 90
      <3>1. /\ Len(H) = Len(h) + Len(x) /\ (\A j \in 1..Len(h) : H[j] = h[j])
            /\ \A j \in 1..Len(x) : H[Len(h) + j] = x[j]
        <4>1. h \in Seq(Nat) /\ x \in Seq(Nat)
          BY <1>1, <2>2
        <4> HIDE DEF H
        <4>2. QED
          BY <2>1, <4>1, TwoParts
      <3>2. 1 \in 1..3 /\ 2 \in 1..3 /\ 3 \in 1..3
        OBVIOUS
      <3>3. /\ Len(H) = Len(h) + 3 /\ (\A j \in 1..Len(h) : H[j] = h[j])
            /\ \A j \in 1..3 : H[Len(h) + j] = x[j]
        <4> HIDE DEF H
        <4> QED BY <2>2, <3>1
      <3>4. H[Len(h) + 1] = x[1] /\ H[Len(h) + 2] = x[2] /\ H[Len(h) + 3] = x[3]
        <4> HIDE DEF H
        <4> QED BY <3>2, <3>3, Zenon
      <3> HIDE DEF H
      <3>5. QED
        BY <2>2, <3>3, <3>4
    <2> HIDE DEF H, e
    <2>4. Calm(e, H)
      <3> SUFFICES ASSUME NEW i \in 1..Len(H), e[i] = 13, e[i + 1] = 10, e[i + 2] = 13
                   PROVE  FALSE
        BY Zenon DEF Calm
      <3>1. H[i] = 13
        BY <1>2
      <3>2. i \notin 1..Len(h)
        BY <1>3, <2>3, <3>1
      <3>3. i = Len(h) + 1 \/ i = Len(h) + 2 \/ i = Len(h) + 3
        BY <1>3, <2>3, <3>2, SMTT(30)
      <3>4. i = Len(h) + 1
        BY <2>3, <3>1, <3>3
      <3>5. i + 2 \in 1..Len(H) /\ i + 2 = Len(h) + 3
        BY <1>3, <2>3, <3>4
      <3>6. e[i + 2] = 90
        BY <1>2, <2>3, <3>5
      <3>7. QED
        BY <3>6
    <2>5. Contains(H, Chunked)
      <3>1. Len(h) + 3 \in 1..Len(H)
        BY <1>3, <2>3
      <3>2. QED
        BY <2>2, <2>3, <3>1, Zenon DEF Contains
    <2>6. QED
      BY <1>5, <2>4, <2>5 DEF H, e
  <1>6. QED
    BY <1>4, <1>5

-----------------------------------------------------------------------------
(* cap_bytes keeps a beginning and says whether it is all.                 *)
LEMMA CapKeeps ==
  ASSUME NEW b \in Seq(Nat)
  PROVE  /\ CapBytes(b).body \in Seq(Nat) /\ IsPrefix(CapBytes(b).body, b) /\ Len(CapBytes(b).body) <= MaxBody
         /\ CapBytes(b).body = b \/ CapBytes(b).truncated
         /\ Len(b) <= MaxBody => CapBytes(b).body = b
  <1> DEFINE S == {MaxBody, Len(b)}
             m == Min(S)
  <1>1. MaxBody \in Nat /\ Len(b) \in Nat
    BY ExchangeAssumption
  <1>2. m \in 0..Len(b) /\ m <= MaxBody /\ (Len(b) <= MaxBody => m = Len(b))
    <2>1. CASE MaxBody <= Len(b)
      <3>1. S \in SUBSET Int /\ MaxBody \in S /\ \A y \in S : MaxBody <= y
        BY <1>1, <2>1
      <3> HIDE DEF S
      <3>2. m = MaxBody
        BY <3>1, LeastIs
      <3>3. QED
        BY <1>1, <2>1, <3>2
    <2>2. CASE Len(b) <= MaxBody
      <3>1. S \in SUBSET Int /\ Len(b) \in S /\ \A y \in S : Len(b) <= y
        BY <1>1, <2>2
      <3> HIDE DEF S
      <3>2. m = Len(b)
        BY <3>1, LeastIs
      <3>3. QED
        BY <1>1, <2>2, <3>2
    <2>3. QED
      BY <1>1, <2>1, <2>2
  <1>3. CapBytes(b).body = SubSeq(b, 1, m) /\ CapBytes(b).truncated = (Len(b) > MaxBody)
    BY DEF CapBytes
  <1> HIDE DEF m
  <1>4. SubSeq(b, 1, m) \in Seq(Nat) /\ Len(SubSeq(b, 1, m)) = m /\ SubSeq(b, 1, Len(b)) = b
    BY <1>2
  <1>5. IsPrefix(SubSeq(b, 1, m), b)
    BY <1>2, <1>4, StartsWith, Zenon
  <1>6. Len(b) <= MaxBody \/ Len(b) > MaxBody
    BY <1>1
  <1>7. QED
    BY <1>2, <1>3, <1>4, <1>5, <1>6, Zenon

(* A beginning of a beginning is a beginning.                              *)
LEMMA PrefixOfPrefix ==
  ASSUME NEW a \in Seq(Nat), NEW b \in Seq(Nat), NEW d \in Seq(Nat), IsPrefix(a, b), IsPrefix(b, d)
  PROVE  IsPrefix(a, d)
  <1>1. Len(a) <= Len(b) /\ Len(b) <= Len(d) /\ Len(a) \in Nat /\ Len(b) \in Nat /\ Len(d) \in Nat
    BY DEF IsPrefix
  <1>2. SubSeq(a, 1, Len(a)) = SubSeq(b, 1, Len(a)) /\ SubSeq(b, 1, Len(b)) = SubSeq(d, 1, Len(b))
    BY DEF IsPrefix
  <1>3. SubSeq(b, 1, Len(a)) = SubSeq(d, 1, Len(a))
    <2>1. SubSeq(b, 1, Len(b)) = b /\ SubSeq(SubSeq(d, 1, Len(b)), 1, Len(a)) = SubSeq(d, 1, Len(a))
      BY <1>1
    <2>2. QED
      BY <1>2, <2>1
  <1>4. QED
    BY <1>1, <1>2, <1>3 DEF IsPrefix

(* The head that is sent names the coding that the origin names.           *)
LEMMA HeadNamesCoding ==
  ASSUME NEW r \in Responses
  PROVE  Coding(HeadSent(r)) = Coding(r.head)
  <1> DEFINE p == r.head
             h == <<200>> \o p
             H == HeadSent(r)
             x == <<CR, LF, Chunked>>
  <1>1. p \in Seq(Nat) /\ h \in Seq(Nat)
    <2>1. p \in Seq(HeadWord) /\ h \in Seq(Nat)
      BY ResponseParts, Zenon
    <2>2. HeadWord \subseteq Nat
      BY DEF HeadWord
    <2>3. QED
      BY <2>1, <2>2
  <1>2. Len(h) = Len(p) + 1 /\ Len(p) \in Nat /\ h[1] = 200 /\ \A i \in 1..Len(p) : h[1 + i] = p[i]
    BY <1>1
  <1>3. ASSUME NEW w \in {91, 92, 93} PROVE Contains(h, w) <=> Contains(p, w)
    <2> HIDE DEF h
    <2>1. ASSUME NEW i \in 1..Len(h), h[i] = w PROVE \E k \in 1..Len(p) : p[k] = w
      <3>1. i # 1
        BY <1>2, <2>1
      <3>2. i - 1 \in 1..Len(p) /\ 1 + (i - 1) = i
        BY <1>2, <3>1
      <3>3. p[i - 1] = w
        BY <1>2, <2>1, <3>2
      <3>4. QED
        BY <3>2, <3>3
    <2>2. ASSUME NEW i \in 1..Len(p), p[i] = w PROVE \E k \in 1..Len(h) : h[k] = w
      <3>1. 1 + i \in 1..Len(h) /\ h[1 + i] = w
        BY <1>2, <2>2
      <3>2. QED
        BY <3>1
    <2>3. QED
      BY <2>1, <2>2, Zenon DEF Contains
  <1>4. ASSUME NEW w \in {91, 92, 93} PROVE Contains(H, w) <=> Contains(h, w)
    <2>1. CASE r.chunks = None
      BY <2>1 DEF HeadSent
    <2>2. CASE r.chunks # None
      <3>1. H = h \o x
        BY <2>2 DEF HeadSent
      <3>2. x \in Seq(Nat) /\ Len(x) = 3 /\ x[1] = 13 /\ x[2] = 10 /\ x[3] = 90
        BY DEF CR, LF, Chunked
      <3> HIDE DEF x, h
      <3>3. /\ Len(H) = Len(h) + Len(x) /\ (\A j \in 1..Len(h) : H[j] = h[j])
            /\ \A j \in 1..Len(x) : H[Len(h) + j] = x[j]
        <4>1. h \in Seq(Nat) /\ x \in Seq(Nat)
          BY <1>1, <3>2
        <4> HIDE DEF H
        <4>2. QED
          BY <3>1, <4>1, TwoParts
      <3> HIDE DEF H
      <3>4. \A j \in 1..3 : H[Len(h) + j] # w
        <4>1. \A j \in 1..3 : H[Len(h) + j] = x[j] /\ x[j] # w
          BY <3>2, <3>3
        <4>2. QED
          BY <4>1, Zenon
      <3>5. ASSUME NEW i \in 1..Len(H), H[i] = w PROVE i \in 1..Len(h)
        <4>1. Len(h) \in Nat /\ Len(H) = Len(h) + 3
          BY <1>2, <3>2, <3>3
        <4>2. i \in 1..Len(h) \/ \E j \in 1..3 : i = Len(h) + j
          <5>1. i \in 1..Len(h) \/ i - Len(h) \in 1..3
            BY <4>1
          <5>2. i = Len(h) + (i - Len(h))
            BY <4>1
          <5>3. QED
            BY <5>1, <5>2, Zenon
        <4>3. QED
          BY <3>4, <3>5, <4>2, Zenon
      <3>6. \A i \in 1..Len(h) : i \in 1..Len(H)
        BY <1>2, <3>2, <3>3
      <3>7. QED
        BY <3>3, <3>5, <3>6, Zenon DEF Contains
    <2>3. QED
      BY <2>1, <2>2
  <1> HIDE DEF H, h, p
  <1>5. /\ Contains(H, 91) <=> Contains(p, 91)
        /\ Contains(H, 92) <=> Contains(p, 92)
        /\ Contains(H, 93) <=> Contains(p, 93)
    BY <1>3, <1>4
  <1>6. Coding(H) = Coding(p)
    BY <1>5, Zenon DEF Coding, Gzip, Deflate, Foreign
  <1>7. QED
    BY <1>6 DEF H, p

(* Of so much of a payload as came, the decoder of its coding makes the    *)
(* content, or a beginning of it: one that is said to be cut, or one that  *)
(* goes unnoticed because the coding has no end of its own.                *)
MadeOf(r, b, u) ==
  /\ u.body \in Seq(Nat) /\ IsPrefix(u.body, Content(r))
  /\ u.end = "cut" \/ u.body = Content(r) \/ (Coding(r.head) # Gzip /\ b # Payload(r))

LEMMA UnpackedIsFaithful ==
  ASSUME NEW r \in Responses, NEW b \in Seq(Nat), IsPrefix(b, Payload(r)), Payload(r) \in Seq(Nat),
         Unpacked(Coding(r.head), b).end \in {"whole", "cut"}
  PROVE  MadeOf(r, b, Unpacked(Coding(r.head), b)) /\ Content(r) \in Seq(Nat)
  <1> DEFINE coding == Coding(r.head)
             u == Unpacked(coding, b)
             out == Unpack(coding, b)
             S == Payload(r)
  <1>1. Len(b) \in 0..Len(S) /\ b = SubSeq(S, 1, Len(b)) /\ S = SubSeq(S, 1, Len(S)) /\ Len(S) \in 0..Len(S)
    <2>1. Len(b) <= Len(S) /\ SubSeq(b, 1, Len(b)) = SubSeq(S, 1, Len(b))
      BY DEF IsPrefix
    <2> HIDE DEF S
    <2>2. S \in Seq(Nat)
      BY DEF S
    <2>3. QED
      BY <2>1, <2>2
  <1>2. coding \in {None, Foreign, Gzip, Deflate} 
    BY Zenon DEF Coding
  <1>3. CASE coding = None
    <2>1. coding \notin {Gzip, Deflate}
      BY <1>3, ClientAssumption DEF Word, Gzip, Deflate, Length, CR, LF
    <2>2. Content(r) = S /\ u = [body |-> b, end |-> "whole"]
      BY <1>3, <2>1, Zenon DEF Content, Unpacked, S
    <2>3. coding # Gzip
      BY <2>1
    <2>4. u.body = b
      BY <2>2
    <2>5. QED
      BY <2>2, <2>3, <2>4, Zenon DEF MadeOf, S, u, coding
  <1>4. CASE coding = Foreign
    <2>1. coding # None
      BY <1>4, ClientAssumption DEF Word, Foreign, Length, CR, LF
    <2>2. u = [body |-> b, end |-> "unsupported"]
      BY <1>4, <2>1, Zenon DEF Unpacked
    <2>3. QED
      BY <2>2
  <1>5. CASE coding \in {Gzip, Deflate}
    <2>1. coding # None /\ coding # Foreign
      <3>1. None \notin {91, 92}
        BY ClientAssumption DEF Word, Length, CR, LF
      <3> HIDE DEF coding
      <3>2. coding \in {91, 92}
        BY <1>5 DEF Gzip, Deflate
      <3>3. QED
        BY <3>1, <3>2 DEF Foreign
    <2>2. /\ out.data \in Seq(Nat) /\ IsPrefix(out.data, Content(r))
          /\ coding = Gzip /\ ~out.fails => out.data = Content(r)
      BY <1>1, <1>5, CodecAssumption, Zenon DEF S, out, coding
    <2>3. Content(r) = Unpack(coding, S).data /\ Content(r) \in Seq(Nat)
      BY <1>1, <1>5, CodecAssumption, Zenon DEF S, coding, Content
    <2>4. b = S => out.data = Content(r)
      BY <2>3, Zenon
    <2> DEFINE part == SubSeq(out.data, 1, MaxBody)
    <2>5. u = IF Len(out.data) > MaxBody THEN [body |-> part, end |-> "cut"]
              ELSE [body |-> out.data, end |-> IF out.fails THEN "malformed" ELSE "whole"]
      BY <2>1, Zenon DEF Unpacked, u, out
    <2>6. u.end \in {"whole", "cut"}
      OBVIOUS
    <2> HIDE DEF u, coding, S
    <2>7. CASE Len(out.data) > MaxBody
      <3>1. u.body = part /\ u.end = "cut"
        BY <2>5, <2>7
      <3>2. part \in Seq(Nat) /\ IsPrefix(part, out.data)
        <4>1. MaxBody \in 0..Len(out.data)
          BY <2>2, <2>7, ExchangeAssumption
        <4> HIDE DEF out
        <4>2. part \in Seq(Nat)
          BY <2>2, <4>1
        <4>3. QED
          BY <2>2, <4>1, <4>2, StartsWith, Zenon
      <3>3. IsPrefix(part, Content(r))
        BY <2>2, <2>3, <3>2, PrefixOfPrefix, Zenon
      <3>4. QED
        BY <2>3, <3>1, <3>2, <3>3, Zenon DEF MadeOf, u, coding
    <2>8. CASE ~(Len(out.data) > MaxBody)
      <3>1. u.body = out.data /\ (u.end = "whole" => ~out.fails)
        BY <2>5, <2>8
      <3>2. u.end # "cut"
        BY <2>5, <2>8
      <3>3. ~out.fails
        BY <2>6, <3>1, <3>2
      <3>4. out.data = Content(r) \/ (coding # Gzip /\ b # S)
        BY <2>2, <2>4, <3>3, Zenon
      <3>5. QED
        BY <2>2, <2>3, <3>1, <3>4, Zenon DEF MadeOf, u, coding, S
    <2>9. QED
      BY <2>7, <2>8
  <1>6. QED
    BY <1>2, <1>3, <1>4, <1>5

(* What is made of a response of which n bytes were read.                  *)
FaithfulTo(r, p, whole) ==
  /\ IsPrefix(p.body, Content(r)) /\ Len(p.body) <= MaxBody
  /\ p.body = Content(r) \/ p.truncated \/ (r.chunks = None /\ ~whole /\ Coding(r.head) # Gzip)

(* However much of a response was read, what is made of it is faithful,    *)
(* and it is said to be truncated if the reader stopped before its end.    *)
LEMMA ParsedIsFaithful ==
  ASSUME NEW r \in Responses, NEW n \in 0..Len(EncodeResponse(r)), NEW more \in BOOLEAN,
         Parsed(SubSeq(EncodeResponse(r), 1, n), more).kind = "ok"
  PROVE  /\ FaithfulTo(r, Parsed(SubSeq(EncodeResponse(r), 1, n), more), n = Len(EncodeResponse(r)))
         /\ more => Parsed(SubSeq(EncodeResponse(r), 1, n), more).truncated
  <1> DEFINE e == EncodeResponse(r)
             H == HeadSent(r)
             B == BodySent(r)
             raw == SubSeq(e, 1, n)
             p == Parsed(raw, more)
             joined == IF Contains(BeforeHead(raw), Chunked) THEN DecodeChunked(AfterHead(raw))
                       ELSE [body |-> AfterHead(raw), end |-> "whole"]
             k == Len(raw) - (Len(H) + 4)
             x == joined.body
             plain == Unpacked(Coding(BeforeHead(raw)), x)
             y == plain.body
             cutShort == "cut" \in {joined.end, plain.end}
  <1>1. /\ H \in Seq(Nat) /\ B \in Seq(Nat) /\ e = (H \o EndOfHead) \o B /\ Calm(e, H)
        /\ Payload(r) \in Seq(Nat) /\ (r.chunks # None => Chunks(r.chunks) /\ r.last \in Nat)
        /\ Contains(H, Chunked) <=> r.chunks # None
    BY ResponseParts, ResponseHead, Zenon
  <1>2. HasHead(raw) /\ {joined.end, plain.end} \subseteq {"whole", "cut"}
        /\ p = [kind |-> "ok", body |-> CapBytes(y).body, class |-> TruthfulClass,
                truncated |-> more \/ cutShort \/ CapBytes(y).truncated]
    <2>1. p.kind = "ok"
      OBVIOUS
    <2>2. [kind |-> "fetch_error"].kind # "ok" /\ [kind |-> "panic"].kind # "ok"
      OBVIOUS
    <2> HIDE DEF raw, joined
    <2>3. \/ p = [kind |-> "fetch_error"] \/ p = [kind |-> "panic"]
          \/ HasHead(raw) /\ {joined.end, plain.end} \subseteq {"whole", "cut"}
             /\ p = [kind |-> "ok", body |-> CapBytes(y).body, class |-> TruthfulClass,
                     truncated |-> more \/ cutShort \/ CapBytes(y).truncated]
      BY Zenon DEF Parsed, joined
    <2> HIDE DEF p, x, y, plain, cutShort
    <2>4. QED
      BY <2>1, <2>2, <2>3, Zenon
  <1> HIDE DEF joined, x, p, plain, y
  <1>13. joined.end \in {"whole", "cut"} /\ plain.end \in {"whole", "cut"}
    BY <1>2
  <1>14. cutShort <=> joined.end = "cut" \/ plain.end = "cut"
    OBVIOUS
  <1> HIDE DEF cutShort
  <1>3. Found(e, raw, H, B)
    <2> HIDE DEF H, B
    <2>1. e = (H \o EndOfHead) \o B /\ Calm(e, H) /\ n \in 0..Len(e) /\ HasHead(SubSeq(e, 1, n))
      BY <1>1, <1>2
    <2> HIDE DEF e
    <2>2. QED
      BY <1>1, <2>1, HeadTaken
  <1>4. k \in 0..Len(B) /\ BeforeHead(raw) = H /\ AfterHead(raw) = SubSeq(B, 1, k)
    BY <1>3, Zenon DEF Found
  <1>5. n = Len(e) => k = Len(B)
    <2>1. Laid(e, H, B) /\ e \in Seq(Nat)
      BY <1>1, LaidOut, Zenon
    <2>2. Len(e) = Len(H) + 4 + Len(B) /\ Len(H) \in Nat /\ Len(B) \in Nat
      BY <1>1, <2>1, SMTT(30) DEF Laid
    <2>3. n = Len(e) => Len(raw) = Len(e)
      BY <2>1
    <2> HIDE DEF raw, e
    <2>4. QED
      BY <2>2, <2>3
  <1> HIDE DEF k, raw
  <1>6. p.body = CapBytes(y).body /\ (p.truncated <=> more \/ cutShort \/ CapBytes(y).truncated)
    BY <1>2
  <1>7. /\ x \in Seq(Nat) /\ IsPrefix(x, Payload(r))
        /\ x = Payload(r) \/ (r.chunks = None /\ n # Len(e)) \/ joined.end = "cut"
    <2>1. CASE r.chunks = None
      <3>1. x = SubSeq(B, 1, k) /\ B = Payload(r)
        BY <1>1, <1>4, <2>1, Zenon DEF joined, x, BodySent, Payload
      <3>2. SubSeq(B, 1, k) \in Seq(Nat) /\ SubSeq(B, 1, Len(B)) = B
        BY <1>1, <1>4
      <3>3. IsPrefix(SubSeq(B, 1, k), B)
        BY <1>1, <1>4, StartsWith, Zenon
      <3>4. QED
        BY <1>5, <2>1, <3>1, <3>2, <3>3, Zenon
    <2>2. CASE r.chunks # None
      <3> DEFINE c == r.chunks
                 ending == r.last
      <3>1. Chunks(c) /\ ending \in Nat /\ B = ChunkedBody(c, ending) /\ Payload(r) = FlattenSeq(c)
        BY <1>1, <2>2, Zenon DEF BodySent, Payload
      <3>2. joined = DecodeChunked(SubSeq(ChunkedBody(c, ending), 1, k))
        BY <1>1, <1>4, <2>2, <3>1, Zenon DEF joined
      <3>3. joined \in DecoderState /\ Decodes(c, ending, joined)
        BY <1>4, <3>1, <3>2, DecoderIsFaithful, Zenon
      <3>4. IsPrefix(x, FlattenSeq(c)) /\ (joined.end = "cut" \/ x = FlattenSeq(c)) /\ x \in Seq(Nat)
        BY <1>13, <3>3 DEF Decodes, DecoderState, x
      <3>5. QED
        BY <3>1, <3>4, Zenon
    <2>3. QED
      BY <2>1, <2>2
  <1>15. MadeOf(r, x, plain) /\ Content(r) \in Seq(Nat)
    <2>1. plain = Unpacked(Coding(r.head), x)
      BY <1>4, HeadNamesCoding DEF plain
    <2>2. QED
      BY <1>1, <1>7, <1>13, <2>1, UnpackedIsFaithful, Zenon
  <1>16. /\ y \in Seq(Nat) /\ IsPrefix(y, Content(r))
         /\ plain.end = "cut" \/ y = Content(r) \/ (Coding(r.head) # Gzip /\ x # Payload(r))
    BY <1>15, Zenon DEF MadeOf, y
  <1>8. /\ CapBytes(y).body \in Seq(Nat) /\ IsPrefix(CapBytes(y).body, y) /\ Len(CapBytes(y).body) <= MaxBody
        /\ CapBytes(y).body = y \/ CapBytes(y).truncated
    BY <1>16, CapKeeps, Zenon
  <1>9. IsPrefix(p.body, Content(r)) /\ Len(p.body) <= MaxBody
    <2>1. IsPrefix(CapBytes(y).body, Content(r))
      BY <1>8, <1>15, <1>16, PrefixOfPrefix, Zenon
    <2>2. QED
      BY <1>6, <1>8, <2>1, Zenon
  <1>10. p.body = Content(r) \/ p.truncated \/ (r.chunks = None /\ n # Len(e) /\ Coding(r.head) # Gzip)
    BY <1>6, <1>7, <1>8, <1>14, <1>16, Zenon
  <1>11. FaithfulTo(r, p, n = Len(e)) /\ (more => p.truncated)
    BY <1>6, <1>9, <1>10, Zenon DEF FaithfulTo
  <1>12. QED
    BY <1>11, Zenon DEF p, raw

-----------------------------------------------------------------------------
(* What was read of a response is its beginning; what was made of it is    *)
(* faithful.                                                               *)
BodyInv ==
  /\ phase = "response" => Reads(Stream, 0, Len(buf))
  /\ BodyIsFaithful

(* Nothing has been read of a response at the start.                       *)
LEMMA BodyInit == ExchangeInit => BodyInv
  BY DEF ExchangeInit, BodyInv, BodyIsFaithful

(* Whatever is not done with a response gives no body.                     *)
NoBody == phase' # "response" /\ (outcome' = None \/ outcome'.kind # "ok")

(* Nothing that happens before a scrape has its tunnel makes a body.       *)
LEMMA DialsGiveNoBody ==
  ASSUME LedInv, Dials
  PROVE  NoBody
  <1>1. phase # "done" /\ phase # "response"
    BY DEF Dials, ResolvePlan, ReadExact, DialFails, ConnectDirect, HttpConnect, ReadHttpHead, HttpConnected,
       Greet, OnMethod, OnAuth, Socks5, OnReply, OnLength, Drained, Dialling, Read
  <1>2. outcome = None
    BY <1>1 DEF LedInv
  <1>3. CASE ResolvePlan
    BY <1>2, <1>3 DEF ResolvePlan, EndWith, NoBody, Refusal
  <1>4. CASE DialFails
    BY <1>4 DEF DialFails, EndWith, NoBody
  <1>5. CASE ReadExact \/ ConnectDirect(EncodeResponse(origin)) \/ ReadHttpHead
    BY <1>1, <1>2, <1>5 DEF ReadExact, ConnectDirect, ReadHttpHead, NoBody
  <1>6. CASE HttpConnected
    BY <1>2, <1>6 DEF HttpConnected, EndWith, ClassifyConnectStatus, NoBody
  <1>7. CASE HttpConnect({a \o EncodeResponse(origin) : a \in Answers.http}) \/ Greet(Answers.method)
    BY <1>2, <1>7 DEF HttpConnect, Greet, Ask, NoBody
  <1>8. CASE OnMethod(Replies, Answers.auth)
    <2>1. \/ phase' \in {"reply", "auth"} /\ outcome' = outcome
          \/ EndWith("transport_error")
      BY <1>8 DEF OnMethod, Ask
    <2>2. QED
      BY <1>2, <2>1 DEF EndWith, NoBody
  <1>9. CASE OnAuth(Replies)
    BY <1>2, <1>9 DEF OnAuth, Ask, EndWith, NoBody
  <1>10. CASE Socks5
    <2>1. CASE OnReply
      <3>1. (phase' \in {"address", "length"} /\ outcome' = outcome) \/ EndWith("transport_error")
        BY <2>1 DEF OnReply, Expect
      <3>2. QED
        BY <1>2, <3>1 DEF EndWith, NoBody
    <2>2. CASE OnLength \/ Drained
      BY <1>2, <2>2 DEF OnLength, Drained, Expect, NoBody
    <2>3. QED
      BY <1>10, <2>1, <2>2 DEF Socks5
  <1>11. QED
    BY <1>3, <1>4, <1>5, <1>6, <1>7, <1>8, <1>9, <1>10 DEF Dials

(* Nothing that a thread of the server does makes a body, nor does a       *)
(* scrape that fails.                                                      *)
LEMMA ServingGivesNoBody ==
  ASSUME LedInv, \/ ReadHead \/ HeadTooLarge \/ HeadRead \/ ReadBody \/ BodyRead \/ RequestCut \/ RequestTimesOut
                 \/ HandleRequest \/ TooManyRequests \/ ResponseFails
  PROVE  NoBody
  <1>1. CASE HeadTooLarge \/ RequestTimesOut \/ TooManyRequests \/ ResponseFails
    BY <1>1 DEF HeadTooLarge, RequestTimesOut, TooManyRequests, ResponseFails, EndWith, NoBody
  <1>2. CASE ReadHead \/ ReadBody \/ BodyRead \/ HeadRead
    BY <1>2 DEF ReadHead, ReadBody, BodyRead, HeadRead, Handle, EndWith, LedInv, NoBody
  <1>3. CASE RequestCut
    <2>1. phase \in {"request", "body"}
      BY <1>3 DEF RequestCut, Reading
    <2>2. EndWith("io_error") \/ (phase' = "handle" /\ outcome' = outcome)
      BY <1>3 DEF RequestCut, Handle
    <2>3. QED
      BY <2>1, <2>2 DEF LedInv, EndWith, NoBody
  <1>4. CASE HandleRequest
    <2>1. /\ phase = "handle"
          /\ \/ Verdict(parsed) # None /\ EndWith(Verdict(parsed))
             \/ phase' = "plan" /\ outcome' = outcome
      BY <1>4 DEF HandleRequest
    <2>2. Verdict(parsed) # None => Verdict(parsed) # "ok"
      BY DEF Verdict
    <2>3. QED
      BY <2>1, <2>2 DEF LedInv, EndWith, NoBody
  <1>5. QED
    BY <1>1, <1>2, <1>3, <1>4

(* What was read of a response goes on being its beginning.                *)
LEMMA BodyReads ==
  ASSUME BytesInv, LedInv, BodyInv, SendRequest \/ ReadCapped
  PROVE  BodyInv'
  <1>1. phase' = "response" /\ Stream' = Stream /\ outcome' = None
    BY DEF SendRequest, ReadCapped, LedInv, Stream
  <1>2. Stream \in Seq(Nat) /\ Len(Stream) \in Nat
    BY StreamType
  <1>3. CASE SendRequest
    <2>1. buf' = <<>> /\ wire' = Stream
      BY <1>3 DEF SendRequest, BytesInv
    <2>2. Parted(buf', wire', Stream, 0, 0)
      BY <1>2, <2>1, StartsReading
    <2>3. Len(buf') = 0
      BY <2>1
    <2>4. QED
      BY <1>1, <2>2, <2>3 DEF BodyInv, BodyIsFaithful, Reads
  <1>4. CASE ReadCapped
    <2>1. PICK n \in 1..(RawLimit - Len(buf)) : Take(n)
      BY <1>4 DEF ReadCapped
    <2>2. Reads(Stream, 0, Len(buf))
      BY <1>4 DEF ReadCapped, BodyInv
    <2>3. Parted(buf', wire', Stream, 0, Len(buf) + n) /\ Len(buf) \in Nat /\ Len(buf) + n <= Len(Stream)
      <3>1. n \in Nat /\ 0 \in Nat
        OBVIOUS
      <3>2. QED
        BY <1>2, <2>1, <2>2, <3>1, TakeReads, Zenon
    <2>4. Len(buf') = Len(buf) + n
      <3>1. Len(buf) + n \in Nat
        BY <2>3
      <3>2. buf' = SubSeq(Stream, 1, Len(buf) + n)
        BY <2>3 DEF Parted
      <3>3. QED
        BY <1>2, <2>3, <3>1, <3>2, LeftBytes, Zenon
    <2>5. QED
      BY <1>1, <2>3, <2>4, Zenon DEF BodyInv, BodyIsFaithful, Reads
  <1>5. QED
    BY <1>3, <1>4

(* A response that ended is parsed.                                        *)
LEMMA BodyParsed ==
  ASSUME BytesInv, LedInv, BodyInv, ResponseEnds
  PROVE  BodyInv'
  <1> DEFINE n == Len(buf)
             o == outcome'
  <1>1. /\ phase = "response" /\ phase' = "done" /\ origin' = origin /\ wire' = wire /\ origin \in Responses
        /\ Parted(buf, wire, Stream, 0, n)
    BY DEF ResponseEnds, BytesInv, BodyInv, Reads
  <1>2. Stream \in Seq(Nat) /\ Len(Stream) \in Nat
    BY StreamType
  <1>3. n \in 0..Len(Stream) /\ buf = SubSeq(Stream, 1, n) /\ wire = SubSeq(Stream, n + 1, Len(Stream))
    BY <1>1, <1>2 DEF Parted
  <1>4. n # Len(Stream) => wire # <<>>
    <2>1. \A s \in Seq(Nat) : \A k \in 0..Len(s) : k # Len(s) => SubSeq(s, k + 1, Len(s)) # <<>>
      <3> SUFFICES ASSUME NEW s \in Seq(Nat), NEW k \in 0..Len(s), k # Len(s)
                   PROVE  SubSeq(s, k + 1, Len(s)) # <<>>
        OBVIOUS
      <3> DEFINE rest == SubSeq(s, k + 1, Len(s))
      <3>1. Len(rest) = Len(s) - k
        OBVIOUS
      <3>2. Len(s) - k # 0
        OBVIOUS
      <3>3. rest = <<>> => Len(rest) = 0
        <4> HIDE DEF rest
        <4> QED OBVIOUS
      <3>4. QED
        BY <3>1, <3>2, <3>3, Zenon
    <2> HIDE DEF n
    <2>2. QED
      BY <1>2, <1>3, <2>1, Zenon
  <1>5. PICK more \in BOOLEAN : o = Parsed(SubSeq(EncodeResponse(origin), 1, n), more) /\ (~more => cut' = (wire # <<>>))
    <2>1. \/ cut' = (wire # <<>>) /\ o = Parsed(buf, FALSE)
          \/ o = Parsed(buf, TRUE)
      BY DEF ResponseEnds
    <2>2. buf = SubSeq(EncodeResponse(origin), 1, n)
      BY <1>3 DEF Stream
    <2> HIDE DEF n, o
    <2>3. QED
      BY <2>1, <2>2, Zenon
  <1> HIDE DEF n, o
  <1>6. ASSUME o.kind = "ok"
        PROVE  /\ IsPrefix(o.body, Content(origin)) /\ Len(o.body) <= MaxBody
               /\ \/ o.body = Content(origin) \/ o.truncated
                  \/ cut' /\ origin.chunks = None /\ Coding(origin.head) # Gzip
    <2>1. FaithfulTo(origin, o, n = Len(Stream)) /\ (more => o.truncated)
      <3>1. n \in 0..Len(EncodeResponse(origin))
        BY <1>3 DEF Stream
      <3>2. Parsed(SubSeq(EncodeResponse(origin), 1, n), more).kind = "ok"
        BY <1>5, <1>6
      <3>3. /\ FaithfulTo(origin, Parsed(SubSeq(EncodeResponse(origin), 1, n), more), n = Len(EncodeResponse(origin)))
            /\ more => Parsed(SubSeq(EncodeResponse(origin), 1, n), more).truncated
        BY <1>1, <3>1, <3>2, ParsedIsFaithful
      <3>4. QED
        BY <1>5, <3>3 DEF Stream
    <2>2. QED
      BY <1>4, <1>5, <2>1 DEF FaithfulTo
  <1>7. Content(origin)' = Content(origin) /\ Coding(origin.head)' = Coding(origin.head)
    BY <1>1 DEF Content, Payload, Coding
  <1>8. BodyIsFaithful'
    BY <1>1, <1>6, <1>7 DEF BodyIsFaithful, o
  <1>9. QED
    BY <1>1, <1>8 DEF BodyInv

(* Every step keeps what was read a beginning, and what was made of it     *)
(* faithful.                                                               *)
LEMMA BodyStep == BytesInv /\ LedInv /\ BodyInv /\ [ExchangeNext]_exchangeVars => BodyInv'
  <1> SUFFICES ASSUME BytesInv, LedInv, BodyInv, [ExchangeNext]_exchangeVars
               PROVE  BodyInv'
    OBVIOUS
  <1>1. CASE SendRequest \/ ReadCapped
    BY <1>1, BodyReads
  <1>2. CASE ResponseEnds
    BY <1>2, BodyParsed
  <1>3. CASE UNCHANGED exchangeVars
    <2>1. UNCHANGED <<phase, wire, buf, outcome, cut, origin>>
      BY <1>3 DEF exchangeVars, dialling
    <2>2. BodyIsFaithful' = BodyIsFaithful
      BY <2>1 DEF BodyIsFaithful, Content, Payload, Coding
    <2>3. QED
      BY <2>1, <2>2 DEF BodyInv, Reads, Parted, Stream
  <1>4. CASE NoBody
    BY <1>4 DEF NoBody, BodyInv, BodyIsFaithful
  <1>5. QED
    BY <1>1, <1>2, <1>3, <1>4, DialsGiveNoBody, ServingGivesNoBody DEF ExchangeNext, Done

(* Whatever an origin answers, in whatever portions its bytes arrive and   *)
(* wherever they stop: a scrape's body (read_capped, decode_http_body,     *)
(* cap_bytes) is what the origin packed or a beginning of it, within the   *)
(* limit, and one that is not all is said to be truncated, unless the      *)
(* connection ended early in a body that is neither in chunks nor in gzip, *)
(* whether its head declares its length or not.                            *)
THEOREM BodiesAreFaithful == ExchangeSpec => []BodyIsFaithful
  <1>1. BodyInv => BodyIsFaithful
    BY DEF BodyInv
  <1>2. QED
    BY <1>1, BytesInit, BytesStep, LedInit, LedStep, BodyInit, BodyStep, PTL DEF ExchangeSpec
=============================================================================
