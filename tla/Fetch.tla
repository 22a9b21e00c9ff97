-------------------------------- MODULE Fetch --------------------------------
(***************************************************************************)
(* How one scrape puts requests on the wire: the direct HTTP fetcher with  *)
(* its redirect loop (basecrawl-core/src/fetch.rs), the robots policy it   *)
(* consults before every document hop (robots.rs), and the per-origin      *)
(* schedule it shares with the browser's continuations (OriginPacer in     *)
(* basecrawl-render/src/lib.rs).  The main thread fetches the scrape's     *)
(* page and then its paginated pages; browser threads check and continue   *)
(* the requests a render makes, and may outlive it.  The origins are the   *)
(* environment: what they answer, and how long they take, is free.         *)
(***************************************************************************)
EXTENDS Integers, Sequences, FiniteSets

CONSTANTS
  Origin,        (* scheme, host and port                                  *)
  Scheme,        (* "http", "https" or "other"                             *)
  Page,          (* the documents an origin may serve                      *)
  Seed,          (* the URL the scrape is asked for                        *)
  Main, Browser, (* the scraping thread; the threads of browser requests   *)
  MaxRedirects,  (* MAX_REDIRECTS                                          *)
  Location,      (* the URLs a Location header may name                    *)
  Scrape,        (* what a scrape may ask for                              *)
  Deadline,      (* the scrape's deadline                                  *)
  Horizon,       (* bound: the last instant of the model                   *)
  Nothing        (* no thread, URL, frame or result                        *)

Robots == "robots.txt"
Thread == {Main} \cup Browser
URL == [origin : Origin, path : Page \cup {Robots}]
DocumentURL == [origin : Origin, path : Page]

(* The ScrapeOptions that matter: the method, the robots policy, the crawl *)
(* delay and max_pages, of which the first is the scrape's own.            *)
Options == [post : BOOLEAN, policy : {"enforce", "observe", "ignore"},
            delay : Nat, pages : Nat \ {0}]

ASSUME FetchAssumption ==
  /\ Scheme \in [Origin -> {"http", "https", "other"}]
  /\ Robots \notin Page
  /\ Seed \in DocumentURL /\ Scheme[Seed.origin] # "other"
  /\ Main \notin Browser
  /\ MaxRedirects \in Nat
  /\ Location \subseteq URL /\ Scrape \subseteq Options
  /\ Deadline \in Nat /\ Horizon \in Nat
  /\ Nothing \notin Thread /\ Nothing \notin URL

VARIABLES
  now,
  options,   (* the ScrapeOptions, fixed from the start                    *)
  last,      (* OriginPacer.last_transmission_at, -1 for no entry          *)
  holder,    (* who holds the pacer's mutex                                *)
  step,      (* where each thread is                                       *)
  level,     (* the fetch it is in: document, robots or (browser) asset    *)
  frame,     (* the state of that fetch                                    *)
  outer,     (* the document fetch suspended while robots is consulted     *)
  page,      (* how many page fetches the main thread has begun            *)
  got,       (* the Fetched its last page fetch returned                   *)
  hops,      (* DocumentPolicy.hops                                        *)
  (* history                                                               *)
  cleared,   (* the URL each thread's last check let through               *)
  trail,     (* the URLs the main thread's page fetch contacted            *)
  contacts,  (* how many requests it made, those for robots included       *)
  ended      (* when the last transmission to each origin ended            *)

pacerVars == <<last, holder, ended>>
fetchVars == <<frame, outer, level>>
mainVars == <<page, got, trail, contacts>>
vars == <<now, options, pacerVars, step, fetchVars, mainVars, hops, cleared>>

Frame == [url : URL, home : Origin, get : BOOLEAN, body : BOOLEAN,
          hops : Seq([url : URL, location : URL]), tls : Nat]

(* Faulty variant: the credential origin is the one a fetch starts from.   *)
HomeOfTarget(u) == u.origin

(* FetchConfig.credential_origin is the seed's for every fetch.            *)
Home(u) == Seed.origin

(* Every fetch starts from a clone of the scrape's FetchConfig.            *)
NewFrame(u) ==
  [url |-> u, home |-> Home(u), get |-> ~options.post, body |-> options.post, hops |-> <<>>, tls |-> 0]

Init ==
  /\ now = 0
  /\ options \in Scrape
  /\ last = [o \in Origin |-> -1] /\ holder = Nothing
  /\ step = [t \in Thread |-> "idle"]
  /\ level = [t \in Thread |-> "document"]
  /\ frame = [t \in Thread |-> NewFrame(Seed)]
  /\ outer = [t \in Thread |-> Nothing]
  /\ page = 0 /\ got = Nothing /\ hops = <<>>
  /\ cleared = [t \in Thread |-> Nothing]
  /\ trail = <<>> /\ contacts = 0
  /\ ended = [o \in Origin |-> -1]

-----------------------------------------------------------------------------
(* Fetches and browser requests begin.                                     *)

MorePages == page < options.pages

(* fetch_document_until, for the seed and then for each page crawl_page    *)
(* is given.                                                               *)
BeginPage(u) ==
  /\ step[Main] = "idle" /\ MorePages
  /\ page = 0 => u = Seed
  /\ page' = page + 1 /\ got' = Nothing /\ trail' = <<>> /\ contacts' = 0
  /\ frame' = [frame EXCEPT ![Main] = NewFrame(u)]
  /\ level' = [level EXCEPT ![Main] = "document"]
  /\ step' = [step EXCEPT ![Main] = "check"]
  /\ UNCHANGED <<now, options, pacerVars, outer, hops, cleared>>

Finish ==
  /\ step[Main] = "idle" /\ page > 0
  /\ step' = [step EXCEPT ![Main] = "over"]
  /\ UNCHANGED <<now, options, pacerVars, fetchVars, mainVars, hops, cleared>>

(* Fetch.requestPaused during a render: the event thread checks a top      *)
(* document, one at a time, and only paces anything else.                  *)
BeginRequest(b, u) ==
  /\ step[b] = "idle" /\ step[Main] = "idle" /\ page > 0
  /\ frame' = [frame EXCEPT ![b] = [NewFrame(u) EXCEPT !.get = TRUE, !.body = FALSE]]
  /\ \/ /\ \A c \in Browser : step[c] # "check" /\ level[c] # "robots"
        /\ level' = [level EXCEPT ![b] = "document"]
        /\ step' = [step EXCEPT ![b] = "check"]
     \/ /\ level' = [level EXCEPT ![b] = "asset"]
        /\ step' = [step EXCEPT ![b] = "want"]
  /\ UNCHANGED <<now, options, pacerVars, outer, mainVars, hops, cleared>>

-----------------------------------------------------------------------------
(* The document policy.                                                    *)

(* consult: robots.txt is fetched like any other resource, without a check *)
(* of its own; `ignore` decides at once.                                   *)
Consult(t) ==
  /\ step[t] = "check" /\ options.policy # "ignore"
  /\ outer' = [outer EXCEPT ![t] = frame[t]]
  /\ frame' = [frame EXCEPT ![t] = NewFrame([frame[t].url EXCEPT !.path = Robots])]
  /\ level' = [level EXCEPT ![t] = "robots"]
  /\ step' = [step EXCEPT ![t] = "want"]
  /\ cleared' = [cleared EXCEPT ![t] = Nothing]
  /\ UNCHANGED <<now, options, pacerVars, mainVars, hops>>

IgnoreRobots(t) ==
  /\ step[t] = "check" /\ options.policy = "ignore"
  /\ hops' = Append(hops, [url |-> frame[t].url, denied |-> FALSE])
  /\ cleared' = [cleared EXCEPT ![t] = frame[t].url]
  /\ step' = [step EXCEPT ![t] = "want"]
  /\ UNCHANGED <<now, options, pacerVars, fetchVars, mainVars>>

Refuses(denied) == denied /\ options.policy = "enforce"

(* Faulty variant: the hop is recorded under the URL of the robots fetch.  *)
HopOfRobots(t, denied) == [url |-> frame[t].url, denied |-> denied]

Hop(t, denied) == [url |-> outer[t].url, denied |-> denied]

(* DocumentPolicy::check once the decision is there: it is recorded, and a *)
(* denial under `enforce` is the end of the document fetch.                *)
Decide(t, denied) ==
  /\ hops' = Append(hops, Hop(t, denied))
  /\ step' = [step EXCEPT ![t] = IF Refuses(denied) THEN "over" ELSE "want"]
  /\ cleared' = IF Refuses(denied) THEN cleared
                ELSE [cleared EXCEPT ![t] = outer[t].url]
  /\ frame' = [frame EXCEPT ![t] = outer[t]]
  /\ outer' = [outer EXCEPT ![t] = Nothing]
  /\ level' = [level EXCEPT ![t] = "document"]
  /\ UNCHANGED <<got, trail>>

(* A fetch that fails: robots.txt counts as unavailable, except when the   *)
(* deadline is what failed it.                                             *)
Fail(t, timeout) ==
  \/ /\ level[t] = "robots" /\ ~timeout
     /\ Decide(t, FALSE)
  \/ /\ level[t] # "robots" \/ timeout
     /\ step' = [step EXCEPT ![t] = "over"]
     /\ UNCHANGED <<fetchVars, hops, cleared, got, trail>>

-----------------------------------------------------------------------------
(* OriginPacer::transmit.                                                  *)

Target(t) == frame[t].url.origin
Speaks(t) == Scheme[Target(t)] \in {"http", "https"}
Owed(t) == last[Target(t)] # -1 /\ now - last[Target(t)] < options.delay
Hopeless(t) == now >= Deadline \/ last[Target(t)] + options.delay >= Deadline

UnsupportedScheme(t) ==
  /\ step[t] = "want" /\ ~Speaks(t)
  /\ Fail(t, FALSE)
  /\ UNCHANGED <<now, options, pacerVars, page, contacts>>

Unpaced(t) ==
  /\ step[t] = "want" /\ Speaks(t) /\ options.delay = 0
  /\ step' = [step EXCEPT ![t] = "ready"]
  /\ UNCHANGED <<now, options, pacerVars, fetchVars, mainVars, hops, cleared>>

Acquire(t) ==
  /\ step[t] = "want" /\ Speaks(t) /\ options.delay > 0
  /\ holder = Nothing
  /\ ~Owed(t) \/ ~Hopeless(t)
  /\ holder' = t
  /\ step' = [step EXCEPT ![t] = IF Owed(t) THEN "sleep" ELSE "ready"]
  /\ UNCHANGED <<now, options, last, ended, fetchVars, mainVars, hops, cleared>>

PacingDeadlineExceeded(t) ==
  /\ step[t] = "want" /\ Speaks(t) /\ options.delay > 0
  /\ holder = Nothing
  /\ Owed(t) /\ Hopeless(t)
  /\ Fail(t, TRUE)
  /\ UNCHANGED <<now, options, pacerVars, page, contacts>>

WakeUp(t) ==
  /\ step[t] = "sleep" /\ ~Owed(t)
  /\ step' = [step EXCEPT ![t] = "ready"]
  /\ UNCHANGED <<now, options, pacerVars, fetchVars, mainVars, hops, cleared>>

(* Faulty variant: an attempt that failed leaves no timestamp.             *)
ReleaseOnSuccess(t, ok) ==
  /\ ended' = IF options.delay > 0 THEN [ended EXCEPT ![Target(t)] = now] ELSE ended
  /\ last' = IF options.delay > 0 /\ ok THEN [last EXCEPT ![Target(t)] = now] ELSE last
  /\ holder' = IF options.delay > 0 THEN Nothing ELSE holder

(* Faulty variant: the mutex is not given back.                            *)
ReleaseNever(t, ok) ==
  /\ ended' = IF options.delay > 0 THEN [ended EXCEPT ![Target(t)] = now] ELSE ended
  /\ last' = IF options.delay > 0 THEN [last EXCEPT ![Target(t)] = now] ELSE last
  /\ UNCHANGED holder

(* The timestamp is that of the end of the transmission, failed or not.    *)
Release(t, ok) ==
  /\ ended' = IF options.delay > 0 THEN [ended EXCEPT ![Target(t)] = now] ELSE ended
  /\ last' = IF options.delay > 0 THEN [last EXCEPT ![Target(t)] = now] ELSE last
  /\ holder' = IF options.delay > 0 THEN Nothing ELSE holder

-----------------------------------------------------------------------------
(* The transmission and its answer.                                        *)

(* fetch_http and fetch_https dial only before the deadline; a browser     *)
(* continuation is sent whatever the time.                                 *)
Send(t) ==
  /\ step[t] = "ready"
  /\ now < Deadline \/ (t # Main /\ level[t] # "robots")
  /\ step' = [step EXCEPT ![t] = "sent"]
  /\ trail' = IF t = Main /\ level[t] = "document"
              THEN Append(trail, frame[t].url) ELSE trail
  /\ contacts' = IF t = Main THEN contacts + 1 ELSE contacts
  /\ UNCHANGED <<now, options, pacerVars, fetchVars, page, got, hops, cleared>>

(* Dialing, sending or reading fails: with a Timeout, at the deadline or   *)
(* when the system gives one up sooner, or with another error.             *)
Broken(t, timeout) ==
  /\ step[t] \in {"ready", "sent"}
  /\ now >= Deadline => timeout
  /\ Release(t, FALSE)
  /\ Fail(t, timeout)
  /\ UNCHANGED <<now, options, page, contacts>>

(* Faulty variant: the first evidence stays.                               *)
EvidenceOfFirst(t) ==
  IF Scheme[Target(t)] = "https" /\ frame[t].tls = 0 THEN Len(frame[t].hops) + 1 ELSE frame[t].tls

(* The TLS evidence of this response, if it has any, replaces what an      *)
(* earlier hop left.                                                       *)
Evidence(t) ==
  IF Scheme[Target(t)] = "https" THEN Len(frame[t].hops) + 1 ELSE frame[t].tls

(* Faulty variant: one hop too many.                                       *)
MayFollowOneMore(t) == Len(frame[t].hops) <= MaxRedirects

MayFollow(t) == Len(frame[t].hops) < MaxRedirects

(* Faulty variant: the hop records the URL it leads to as its own.         *)
NextFrameOfTarget(t, location, toGet) ==
  [frame[t] EXCEPT !.url = location, !.body = FALSE, !.get = @ \/ toGet,
                   !.tls = Evidence(t),
                   !.hops = Append(@, [url |-> location, location |-> location])]

NextFrame(t, location, toGet) ==
  [frame[t] EXCEPT !.url = location, !.body = FALSE, !.get = @ \/ toGet,
                   !.tls = Evidence(t),
                   !.hops = Append(@, [url |-> frame[t].url, location |-> location])]

(* Faulty variant: only the first URL of a document fetch is checked.      *)
AfterRedirectUnchecked(t) == "want"

AfterRedirect(t) == IF level[t] = "document" THEN "check" ELSE "want"

Follows(t) == t = Main \/ level[t] = "robots"

(* A 3xx with a Location the direct fetcher can follow: 301-303 turn the   *)
(* method to GET, and no hop repeats the body.                             *)
Redirected(t, location, toGet) ==
  /\ step[t] = "sent" /\ Follows(t) /\ MayFollow(t)
  /\ Release(t, TRUE)
  /\ frame' = [frame EXCEPT ![t] = NextFrame(t, location, toGet)]
  /\ step' = [step EXCEPT ![t] = AfterRedirect(t)]
  /\ UNCHANGED <<now, options, outer, level, mainVars, hops, cleared>>

(* TooManyRedirects, or a Location that cannot be resolved.                *)
RedirectRefused(t) ==
  /\ step[t] = "sent" /\ Follows(t)
  /\ Release(t, TRUE)
  /\ Fail(t, FALSE)
  /\ UNCHANGED <<now, options, page, contacts>>

(* A response that is not followed.  The browser's own is Chromium's.      *)
Answered(t) ==
  /\ step[t] = "sent" /\ level[t] # "robots"
  /\ Release(t, TRUE)
  /\ step' = [step EXCEPT ![t] = IF t = Main THEN "idle" ELSE "over"]
  /\ got' = IF t = Main
            THEN [final |-> frame[t].url, hops |-> frame[t].hops, tls |-> Evidence(t)]
            ELSE got
  /\ UNCHANGED <<now, options, fetchVars, page, trail, contacts, hops, cleared>>

(* robots.txt was served: the rules deny the document or they do not; a    *)
(* status outside 2xx is no rule.                                          *)
RobotsAnswered(t, denied) ==
  /\ step[t] = "sent" /\ level[t] = "robots"
  /\ Release(t, TRUE)
  /\ Decide(t, denied)
  /\ UNCHANGED <<now, options, page, contacts>>

-----------------------------------------------------------------------------
Tick ==
  /\ now < Horizon
  /\ now' = now + 1
  /\ UNCHANGED <<options, pacerVars, step, fetchVars, mainVars, hops, cleared>>

Begin(t) ==
  \/ t = Main /\ (Finish \/ \E u \in DocumentURL : BeginPage(u))
  \/ t \in Browser /\ \E u \in DocumentURL : Scheme[u.origin] # "other" /\ BeginRequest(t, u)

Advance(t) ==
  \/ Consult(t) \/ IgnoreRobots(t)
  \/ UnsupportedScheme(t) \/ Unpaced(t) \/ Acquire(t) \/ PacingDeadlineExceeded(t) \/ WakeUp(t)
  \/ Send(t) \/ \E timeout \in BOOLEAN : Broken(t, timeout)
  \/ \E u \in Location, toGet \in BOOLEAN : Redirected(t, u, toGet)
  \/ RedirectRefused(t) \/ Answered(t)
  \/ \E denied \in BOOLEAN : RobotsAnswered(t, denied)

(* The scrape is over and so is every browser request it began.            *)
Ended ==
  /\ step[Main] = "over" /\ \A b \in Browser : step[b] \in {"idle", "over"}
  /\ UNCHANGED vars

Next == Tick \/ Ended \/ \E t \in Thread : Begin(t) \/ Advance(t)

Spec == Init /\ [][Next]_vars

(* A started fetch runs on; the clock runs; nothing has to be begun.       *)
FairSpec == Spec /\ WF_vars(Tick) /\ \A t \in Thread : WF_vars(Advance(t))

-----------------------------------------------------------------------------
TypeOK ==
  /\ now \in Nat /\ options \in Scrape
  /\ last \in [Origin -> Nat \cup {-1}] /\ ended \in [Origin -> Nat \cup {-1}]
  /\ holder \in Thread \cup {Nothing}
  /\ step \in [Thread -> {"idle", "check", "want", "sleep", "ready", "sent", "over"}]
  /\ level \in [Thread -> {"document", "robots", "asset"}]
  /\ frame \in [Thread -> Frame]
  /\ outer \in [Thread -> Frame \cup {Nothing}]
  /\ page \in 0..options.pages /\ contacts \in Nat
  /\ got \in [final : URL, hops : Seq([url : URL, location : URL]), tls : Nat]
             \cup {Nothing}
  /\ hops \in Seq([url : URL, denied : BOOLEAN])
  /\ cleared \in [Thread -> URL \cup {Nothing}]
  /\ trail \in Seq(URL)

(* Two requests to one origin are never in flight together, and the second *)
(* leaves no sooner than crawl_delay after the first ended, whichever      *)
(* threads send them and however they fail (OriginPacer, lib.rs:443-448).  *)
Leaves(t) == step[t] = "ready" /\ step'[t] = "sent"
PacingFloor == [][
  \A t \in Thread : Leaves(t) /\ options.delay > 0 =>
    /\ ended[Target(t)] = -1 \/ now - ended[Target(t)] >= options.delay
    /\ \A s \in Thread \ {t} : ~(step[s] = "sent" /\ Target(s) = Target(t))]_vars

(* A document request is on the wire only if the check its own thread made *)
(* for that very URL let it through: no redirect, page or navigation rides *)
(* on an earlier check, on another thread's, or on a denial under          *)
(* `enforce` (fetch.rs:346-348).                                           *)
PolicyBeforeContact == \A t \in Thread :
  step[t] = "sent" /\ level[t] = "document" => cleared[t] = frame[t].url

(* The caller's headers go to the scrape's own origin and nowhere else,    *)
(* through redirects and through the robots fetches those redirects cause  *)
(* (caller_headers_for, fetch.rs:133-147).                                 *)
SendsCallerHeaders(t) == step[t] = "sent" /\ frame[t].url.origin = frame[t].home
CredentialsStayHome == \A t \in Thread :
  SendsCallerHeaders(t) => frame[t].url.origin = Seed.origin

(* What a fetch returns is what happened: its hops and final URL are the   *)
(* URLs contacted, in order and linked; an HTTPS response comes with the   *)
(* TLS evidence of the connection that carried it, and no evidence is of a *)
(* connection that was not made (fetch.rs:178-182).  A plaintext response  *)
(* is promised no evidence of its own: it keeps what the last HTTPS hop    *)
(* left, although fetch.rs:7-8 has every proof bind the connection that    *)
(* carried the response.                                                   *)
EvidenceOfAHop(urls, e) ==
  e \in 0..Len(urls) /\ (e # 0 => Scheme[urls[e].origin] = "https")
FetchedIsFaithful == got # Nothing =>
  LET n == Len(got.hops) IN
  /\ Len(trail) = n + 1 /\ got.final = trail[n + 1]
  /\ \A i \in 1..n : got.hops[i] = [url |-> trail[i], location |-> trail[i + 1]]
  /\ Scheme[got.final.origin] = "https" => got.tls = n + 1
  /\ EvidenceOfAHop(trail, got.tls)
  /\ page = 1 => trail[1] = Seed

(* initial_decision finds a recorded hop, and it is the one for the seed   *)
(* URL (robots.rs:180-190), though the browser's threads append to the     *)
(* same list.                                                              *)
InitialDecisionIsSeeds == got # Nothing => hops # <<>> /\ hops[1].url = Seed

(* What is recorded of a fetch is what happened in it: its chain, the      *)
(* evidence of an HTTPS response, and the decision on its first URL        *)
(* (fetch.rs:362-430, robots.rs:163-190).                                  *)
FetchedIsWhatHappened == FetchedIsFaithful /\ InitialDecisionIsSeeds

(* A redirect loop is refused, and robots consultation multiplies the      *)
(* requests of a page fetch by no more than its own redirect cap           *)
(* (MAX_REDIRECTS, fetch.rs:36-41).                                        *)
ContactsAreBounded == contacts <= (MaxRedirects + 1) * (MaxRedirects + 2)

(* Every contact of a page fetch is one that its own check let through,    *)
(* and there are no more of them than the redirect caps allow              *)
(* (fetch.rs:36-41, 346-371).                                              *)
ContactsAreClearedAndBounded == PolicyBeforeContact /\ ContactsAreBounded

(* Every fetch and browser request that is begun ends: nobody waits for    *)
(* the pacer for ever and no chain is followed for ever.                   *)
FetchEnds == \A t \in Thread :
  step[t] \notin {"idle", "over"} ~> step[t] \in {"idle", "over"}

=============================================================================
