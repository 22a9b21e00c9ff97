-------------------------------- MODULE Scrape --------------------------------
(***************************************************************************)
(* scrape() from admission to proof (basecrawl-core/src/lib.rs), for       *)
(* several scrapes of one process: the in-flight limit of the server       *)
(* (serve.rs), the live residential slot (proxy.rs), the sticky Chromium   *)
(* profiles (stealth.rs), the choice of path, the treatment of challenges  *)
(* and the assembly of an attested proof.  What is fetched and rendered,   *)
(* the captcha solver and the guest agent are the environment; every stage *)
(* may fail, of the deadline or otherwise.                                 *)
(***************************************************************************)
EXTENDS Naturals, FiniteSets

CONSTANTS
  Key,           (* normalized task keys                                   *)
  All,           (* the key "__all__", which a wipe takes for every key    *)
  Roots,         (* the keys "." and "..", which stay as they are and name *)
                 (* the directory of all profiles and the one above it     *)
  Workload,      (* functions from the scrapes to what each is asked for   *)
  MaxInflight,   (* ServeConfig.max_inflight                               *)
  MaxKeys,       (* bound: keys the guest agent signs with over time       *)
  Nothing        (* no scrape or key                                       *)

(* The ScrapeOptions that steer: a live proxy is residential, "dom" stands *)
(* for the html and markdown formats, and more than one page for           *)
(* follow_pagination.                                                      *)
Request == [key : Key, hard : BOOLEAN, proxy : {"none", "some", "live"}, post : BOOLEAN,
            render : BOOLEAN, inject : BOOLEAN, wants : SUBSET {"dom", "shot"}, pages : Nat \ {0},
            solver : BOOLEAN, wipe : BOOLEAN, seal : {"no", "sign", "attest"}]

ASSUME ScrapeAssumption ==
  /\ MaxInflight \in Nat \ {0} /\ MaxKeys \in Nat \ {0}
  /\ \A w \in Workload : IsFiniteSet(DOMAIN w) /\ \A s \in DOMAIN w : w[s] \in Request
  /\ Nothing \notin Key /\ \A w \in Workload : Nothing \notin DOMAIN w

VARIABLES
  options,
  (* the process                                                           *)
  inflight, slot,
  registry,   (* keys in STICKY_PROFILES                                   *)
  jar,        (* the scrapes whose cookies each profile directory holds    *)
  last,       (* LAST_STICKY_KEY                                           *)
  agentKey,   (* the guest agent's current key                             *)
  (* each scrape                                                           *)
  pc,
  seen,       (* the count its admission loaded                            *)
  guard,      (* StickyProfileWipeGuard.enabled                            *)
  document,   (* what was fetched                                          *)
  dom,        (* what Chromium rendered of it                              *)
  token,      (* pending_captcha_solution                                  *)
  solves,     (* solver tasks paid for                                     *)
  left,       (* pages it may still follow                                 *)
  followed,   (* the pages it added to its markdown, and how               *)
  used,       (* chromium_used                                             *)
  browsers,   (* how each Chromium it launched reaches the network         *)
  path,       (* the proof's fetch_path                                    *)
  committed, signer, (* the key in report_data, the key of the signature   *)
  ok          (* it returns a proof                                        *)

shared == <<inflight, slot, registry, jar, last, agentKey>>
profiles == <<registry, jar, last>>
content == <<document, dom, token, solves, left, followed, used, browsers>>
sealing == <<path, committed, signer, ok>>
vars == <<options, shared, pc, seen, guard, content, sealing>>

Scrapes == DOMAIN options
o(s) == options[s]
Documents == [html : BOOLEAN, body : {"content", "challenge", "blank"}]

(* A rendered page may look like a challenge, and show that the token was  *)
(* applied or that the content is unlocked.                                *)
Dom == [challenge : BOOLEAN, applied : BOOLEAN, unlocked : BOOLEAN]

Followed == [page : Documents, rendered : BOOLEAN]

ASSUME NothingAssumption == Nothing \notin Documents \cup Dom \cup 1..MaxKeys

Init ==
  /\ options \in Workload
  /\ inflight = 0 /\ slot = Nothing
  /\ registry = {} /\ jar = [k \in Key |-> {}] /\ last = Nothing /\ agentKey = 1
  /\ pc = [s \in Scrapes |-> "new"] /\ seen = [s \in Scrapes |-> 0]
  /\ guard = [s \in Scrapes |-> FALSE]
  /\ document = [s \in Scrapes |-> Nothing] /\ dom = [s \in Scrapes |-> Nothing]
  /\ token = [s \in Scrapes |-> FALSE] /\ solves = [s \in Scrapes |-> 0]
  /\ left = [s \in Scrapes |-> 0] /\ followed = [s \in Scrapes |-> {}]
  /\ used = [s \in Scrapes |-> FALSE]
  /\ browsers = [s \in Scrapes |-> {}]
  /\ path = [s \in Scrapes |-> "none"]
  /\ committed = [s \in Scrapes |-> Nothing] /\ signer = [s \in Scrapes |-> Nothing]
  /\ ok = [s \in Scrapes |-> FALSE]

Goto(s, from, to) == pc[s] = from /\ pc' = [pc EXCEPT ![s] = to]

-----------------------------------------------------------------------------
(* Admission: load the count, compare and exchange it.                     *)

Full == inflight >= MaxInflight

Load(s) ==
  /\ Goto(s, "new", IF Full THEN "refused" ELSE "swap")
  /\ seen' = [seen EXCEPT ![s] = inflight]
  /\ UNCHANGED <<options, shared, guard, content, sealing>>

(* Faulty variant: the count is stored without a comparison.               *)
ExchangeAnyway(s) == inflight' = seen[s] + 1 /\ Goto(s, "swap", "slot")

(* Faulty variant: a failed exchange is tried again with the count it had. *)
ExchangeStubbornly(s) ==
  IF inflight = seen[s] THEN inflight' = inflight + 1 /\ Goto(s, "swap", "slot")
                        ELSE UNCHANGED inflight /\ Goto(s, "swap", "swap")

Exchange(s) ==
  IF inflight = seen[s] THEN inflight' = inflight + 1 /\ Goto(s, "swap", "slot")
                        ELSE UNCHANGED inflight /\ Goto(s, "swap", "new")

Swap(s) ==
  /\ Exchange(s)
  /\ UNCHANGED <<options, slot, profiles, agentKey, seen, guard, content, sealing>>

-----------------------------------------------------------------------------
(* The setup of a scrape.                                                  *)

Hard(s) == o(s).hard \/ o(s).proxy = "live"

(* requires_chromium_hard_path, will_launch_chromium.                      *)
WillUseBrowser(s) ==
  /\ ~o(s).post
  /\ Hard(s) \/ (o(s).render /\ (o(s).wants # {} \/ o(s).pages > 1))

TakeSlot(s) ==
  /\ Goto(s, "slot", IF o(s).proxy = "live" /\ slot # Nothing THEN "drop" ELSE "policy")
  /\ slot' = IF o(s).proxy = "live" /\ slot = Nothing THEN s ELSE slot
  /\ UNCHANGED <<options, inflight, profiles, agentKey, seen, guard, content, sealing>>

(* acquire_sticky_profile: registered and on disk from here on, with what  *)
(* a directory of that name already holds.                                 *)
Acquire(s) ==
  IF WillUseBrowser(s)
  THEN /\ registry' = registry \cup {o(s).key} /\ last' = o(s).key
       /\ guard' = [guard EXCEPT ![s] = o(s).wipe]
  ELSE UNCHANGED <<registry, last, guard>>

(* A hard scrape takes no POST, and needs the inject and rendering.        *)
Refused(s) == Hard(s) /\ (o(s).post \/ ~o(s).inject \/ ~o(s).render)

Prepare(s) ==
  /\ Goto(s, "policy", IF Refused(s) THEN "drop" ELSE "fetch")
  /\ IF Refused(s) THEN UNCHANGED <<registry, last, guard>> ELSE Acquire(s)
  /\ UNCHANGED <<options, inflight, slot, jar, agentKey, seen, content, sealing>>

Fetch(s) ==
  /\ Goto(s, "fetch", "solve")
  /\ \E d \in Documents : document' = [document EXCEPT ![s] = d]
  /\ UNCHANGED <<options, shared, seen, guard, dom, token, solves, left, followed, used, browsers,
                 sealing>>

-----------------------------------------------------------------------------
(* The document and its challenge.                                         *)

(* try_optional_challenge_solve: the solver is paid, and may fail.         *)
TrySolve(s, next) ==
  \/ /\ o(s).solver
     /\ solves' = [solves EXCEPT ![s] = @ + 1]
     /\ \/ token' = [token EXCEPT ![s] = TRUE] /\ pc' = [pc EXCEPT ![s] = next]
        \/ UNCHANGED token /\ pc' = [pc EXCEPT ![s] = "drop"]
  \/ /\ ~o(s).solver
     /\ pc' = [pc EXCEPT ![s] = "drop"] /\ UNCHANGED <<solves, token>>

Challenged(s) == Hard(s) /\ document[s].body = "challenge"

Solve(s) ==
  /\ pc[s] = "solve"
  /\ \/ Challenged(s) /\ TrySolve(s, "render")
     \/ ~Challenged(s) /\ Goto(s, "solve", "render") /\ UNCHANGED <<solves, token>>
  /\ UNCHANGED <<options, shared, seen, guard, document, dom, left, followed, used, browsers,
                 sealing>>

(* Faulty variant: a hard scrape renders when a format asks for it.        *)
ShouldRenderOnDemand(s) ==
  document[s].html /\ document[s].body # "blank" /\ o(s).render /\ "dom" \in o(s).wants

ShouldRender(s) ==
  /\ document[s].html /\ document[s].body # "blank"
  /\ Hard(s) \/ (o(s).render /\ "dom" \in o(s).wants)

(* The composer exists when a proxy is configured and a browser planned.   *)
Network(s) == IF o(s).proxy # "none" /\ WillUseBrowser(s) THEN "composed" ELSE "direct"

Launch(s) ==
  /\ browsers' = [browsers EXCEPT ![s] = @ \cup {Network(s)}]
  /\ jar' = IF WillUseBrowser(s) THEN [jar EXCEPT ![o(s).key] = @ \cup {s}] ELSE jar
  /\ UNCHANGED <<inflight, slot, registry, last, agentKey>>

(* The token's actions run in the page, so only then is it marked applied. *)
Rendered(s) ==
  /\ Launch(s)
  /\ \E d \in Dom : (d.applied => token[s]) /\ dom' = [dom EXCEPT ![s] = d]
  /\ UNCHANGED <<options, seen, guard, document, token, solves, left, followed, used, sealing>>

Render(s) ==
  /\ Goto(s, "render", "rendered")
  /\ ShouldRender(s) /\ Rendered(s)

(* No browser, nothing to solve the challenge in.                          *)
SkipRender(s) ==
  /\ Goto(s, "render", IF Challenged(s) THEN "drop" ELSE "formats")
  /\ ~ShouldRender(s)
  /\ UNCHANGED <<options, shared, seen, guard, content, sealing>>

(* Faulty variant: a page that shows the token applied is let through.     *)
ResidualIfNotApplied(d) == ~d.unlocked /\ ~d.applied

(* residual_after_applied_token.                                           *)
Residual(d) == ~d.unlocked /\ (~d.applied \/ d.challenge)

(* After the first rendering: a challenge without a token is solved now,   *)
(* and with one the page has to show that it helped.                       *)
Unsolved(s) == Hard(s) /\ dom[s].challenge /\ ~token[s]

Accept(s) ==
  /\ used' = [used EXCEPT ![s] = TRUE]
  /\ UNCHANGED <<document, dom, token, solves, left, followed, browsers>>

Examine(s) ==
  /\ pc[s] = "rendered"
  /\ \/ /\ Unsolved(s) /\ TrySolve(s, "rerender")
        /\ UNCHANGED <<document, dom, left, followed, used, browsers>>
     \/ /\ ~Unsolved(s) /\ token[s] /\ Residual(dom[s])
        /\ Goto(s, "rendered", "drop") /\ UNCHANGED content
     \/ /\ ~Unsolved(s) /\ ~(token[s] /\ Residual(dom[s]))
        /\ Goto(s, "rendered", "formats") /\ Accept(s)
  /\ UNCHANGED <<options, shared, seen, guard, sealing>>

Rerender(s) == Goto(s, "rerender", "rerendered") /\ Rendered(s)

Reexamine(s) ==
  /\ \/ Goto(s, "rerendered", "drop") /\ Residual(dom[s]) /\ UNCHANGED content
     \/ Goto(s, "rerendered", "formats") /\ ~Residual(dom[s]) /\ Accept(s)
  /\ UNCHANGED <<options, shared, seen, guard, sealing>>

-----------------------------------------------------------------------------
(* The formats, the pages, and the proof.                                  *)

(* A screenshot has a browser of its own, whatever the path.               *)
Shoot(s) ==
  /\ "shot" \in o(s).wants
  /\ Goto(s, "formats", "pages")
  /\ Launch(s)
  /\ used' = [used EXCEPT ![s] = TRUE] /\ left' = [left EXCEPT ![s] = o(s).pages - 1]
  /\ UNCHANGED <<options, seen, guard, document, dom, token, solves, followed, sealing>>

SkipShot(s) ==
  /\ "shot" \notin o(s).wants
  /\ Goto(s, "formats", "pages")
  /\ left' = [left EXCEPT ![s] = o(s).pages - 1]
  /\ UNCHANGED <<options, shared, seen, guard, document, dom, token, solves, followed, used, browsers,
                 sealing>>

(* Faulty variant: a followed page renders when a format asks for it.      *)
FollowedRendersOnDemand(s, d) ==
  o(s).render /\ "dom" \in o(s).wants /\ d.html /\ d.body # "blank"

FollowedRenders(s, d) == o(s).render /\ d.html /\ d.body # "blank"

(* crawl_page: whatever its page shows is added to the markdown.  Unlike   *)
(* the document it is never looked at for a challenge, and that it was     *)
(* rendered is recorded nowhere.                                           *)
Follow(s) ==
  /\ left[s] > 0 /\ Goto(s, "pages", "pages")
  /\ left' = [left EXCEPT ![s] = @ - 1]
  /\ \E d \in Documents :
       /\ followed' = [followed EXCEPT ![s] = @ \cup {[page |-> d, rendered |-> FollowedRenders(s, d)]}]
       /\ IF FollowedRenders(s, d) THEN Launch(s) ELSE UNCHANGED <<shared, browsers>>
  /\ UNCHANGED <<options, seen, guard, document, dom, token, solves, used, sealing>>

(* The claim is made for a hard HTML document whether or not it was        *)
(* rendered, so the mismatch the code refuses next cannot arise.           *)
ClaimsChromium(s) == used[s] \/ (Hard(s) /\ WillUseBrowser(s) /\ document[s].html)

Mismatch(s) == Hard(s) /\ document[s].html /\ ~ClaimsChromium(s)

(* No more pages, or no next link.                                         *)
Label(s) ==
  /\ Goto(s, "pages", IF Mismatch(s) \/ o(s).seal = "sign" THEN "drop" ELSE "wipe")
  /\ path' = [path EXCEPT ![s] = IF ClaimsChromium(s) THEN "chromium" ELSE "direct"]
  /\ UNCHANGED <<options, shared, seen, guard, content, committed, signer, ok>>

(* Faulty variant: what is wiped is the profile acquired last.             *)
WipedLast(s) == last

Wiped(s) == o(s).key

(* wipe_sticky_profile: what is registered under the key goes, and every   *)
(* directory goes with the one that holds them all.                        *)
Unregistered(s) == IF Wiped(s) = All THEN registry ELSE registry \cap {Wiped(s)}

Emptied(s) == IF Unregistered(s) \cap Roots = {} THEN Unregistered(s) ELSE Key

Wipe(s) ==
  /\ guard' = [guard EXCEPT ![s] = FALSE]
  /\ IF ~guard[s] THEN UNCHANGED profiles
     ELSE /\ registry' = registry \ Unregistered(s)
          /\ jar' = [k \in Key |-> IF k \in Emptied(s) THEN {} ELSE jar[k]]
          /\ last' = IF Wiped(s) \in {All, last} THEN Nothing ELSE last

WipeProfile(s) ==
  /\ IF o(s).seal = "attest" THEN Goto(s, "wipe", "probe") /\ UNCHANGED ok
                             ELSE Goto(s, "wipe", "drop") /\ ok' = [ok EXCEPT ![s] = TRUE]
  /\ Wipe(s)
  /\ UNCHANGED <<options, inflight, slot, agentKey, seen, content, path, committed, signer>>

(* The key is probed and committed to in the quote's report_data; the      *)
(* signature must then be by that key.                                     *)
Commit(s) ==
  /\ Goto(s, "probe", "sign")
  /\ committed' = [committed EXCEPT ![s] = agentKey]
  /\ UNCHANGED <<options, shared, seen, guard, content, path, signer, ok>>

(* Faulty variant: whatever key the agent signed with is accepted.         *)
AnyKey(s) == TRUE

SameKey(s) == agentKey = committed[s]

Sign(s) ==
  /\ Goto(s, "sign", "drop")
  /\ signer' = [signer EXCEPT ![s] = agentKey]
  /\ ok' = [ok EXCEPT ![s] = SameKey(s)]
  /\ UNCHANGED <<options, shared, seen, guard, content, path, committed>>

(* Every "?" of the stages: of the network, the browser, the guest agent   *)
(* or the deadline.                                                        *)
Fails(s) ==
  /\ pc[s] \in {"policy", "fetch", "render", "rendered", "rerender", "rerendered",
               "formats", "pages", "probe", "sign"}
  /\ pc' = [pc EXCEPT ![s] = "drop"]
  /\ UNCHANGED <<options, shared, seen, guard, content, sealing>>

-----------------------------------------------------------------------------
(* The guards are dropped in the reverse order, and the server counts down *)
(* whether the scrape returned, failed or panicked.                        *)

DropProfile(s) ==
  /\ Goto(s, "drop", "release")
  /\ Wipe(s)
  /\ UNCHANGED <<options, inflight, slot, agentKey, seen, content, sealing>>

(* Faulty variant: a scrape that never got the slot frees it too.          *)
FreesIfLive(s) == o(s).proxy = "live"

Frees(s) == slot = s

DropSlot(s) ==
  /\ Goto(s, "release", "leave")
  /\ slot' = IF Frees(s) THEN Nothing ELSE slot
  /\ UNCHANGED <<options, inflight, profiles, agentKey, seen, guard, content, sealing>>

Leave(s) ==
  /\ Goto(s, "leave", "done")
  /\ inflight' = inflight - 1
  /\ UNCHANGED <<options, slot, profiles, agentKey, seen, guard, content, sealing>>

(* The guest agent comes by another key, when a scrape holds the old one.  *)
Rekey ==
  /\ \E s \in Scrapes : committed[s] # Nothing
  /\ agentKey < MaxKeys /\ agentKey' = agentKey + 1
  /\ UNCHANGED <<options, inflight, slot, profiles, pc, seen, guard, content, sealing>>

Step(s) ==
  \/ Load(s) \/ Swap(s) \/ TakeSlot(s) \/ Prepare(s) \/ Fetch(s)
  \/ Solve(s) \/ Render(s) \/ SkipRender(s) \/ Examine(s) \/ Rerender(s) \/ Reexamine(s)
  \/ Shoot(s) \/ SkipShot(s) \/ Follow(s) \/ Label(s) \/ WipeProfile(s)
  \/ Commit(s) \/ Sign(s) \/ Fails(s)
  \/ DropProfile(s) \/ DropSlot(s) \/ Leave(s)

Next == Rekey \/ \E s \in Scrapes : Step(s)

Spec == Init /\ [][Next]_vars

(* Every request has a thread of its own, and no stage outlives the        *)
(* scrape's deadline.                                                      *)
FairSpec == Spec /\ \A s \in UNION {DOMAIN w : w \in Workload} : WF_vars(s \in Scrapes /\ Step(s))

-----------------------------------------------------------------------------
Admitted(s) == pc[s] \notin {"new", "swap", "refused", "done"}

(* Nobody else has its key, or one whose wipe reaches other keys.          *)
Alone(s) == \A t \in Scrapes \ {s} : o(t).key \notin Roots \cup {All, o(s).key}

TypeOK ==
  /\ inflight \in 0..MaxInflight /\ agentKey \in 1..MaxKeys
  /\ slot \in Scrapes \cup {Nothing}
  /\ registry \subseteq Key /\ jar \in [Key -> SUBSET Scrapes] /\ last \in Key \cup {Nothing}
  /\ pc \in [Scrapes -> {"new", "swap", "refused", "slot", "policy", "fetch", "solve", "render",
                        "rendered", "rerender", "rerendered", "formats", "pages", "wipe",
                        "probe", "sign", "drop", "release", "leave", "done"}]
  /\ seen \in [Scrapes -> 0..MaxInflight]
  /\ {guard, token, used, ok} \subseteq [Scrapes -> BOOLEAN]
  /\ document \in [Scrapes -> Documents \cup {Nothing}]
  /\ dom \in [Scrapes -> Dom \cup {Nothing}]
  /\ solves \in [Scrapes -> Nat] /\ browsers \in [Scrapes -> SUBSET {"composed", "direct"}]
  /\ followed \in [Scrapes -> SUBSET Followed]
  /\ left \in [Scrapes -> Nat] /\ \A s \in Scrapes : left[s] <= o(s).pages
  /\ path \in [Scrapes -> {"none", "direct", "chromium"}]
  /\ {committed, signer} \subseteq [Scrapes -> 1..MaxKeys \cup {Nothing}]

(* The count is the number of scrapes between admission and answer, so the *)
(* limit holds however requests race for it, and a failed one gives its    *)
(* place back (serve.rs:266-296).                                          *)
InflightIsExact == inflight = Cardinality({s \in Scrapes : Admitted(s)})

(* Stages that contact the network, for themselves or through a browser.   *)
Dialling == {"fetch", "solve", "render", "rerender", "formats", "pages"}

(* The slot is held by a scrape over a live residential proxy from before  *)
(* its first contact to after its last, by one at a time, and by nobody    *)
(* when none is running (proxy.rs:55-69).                                  *)
OneResidentialDial ==
  /\ slot # Nothing => Admitted(slot) /\ o(slot).proxy = "live"
  /\ \A s \in Scrapes :
       /\ o(s).proxy = "live"
       /\ pc[s] \in Dialling \/ (browsers[s] # {} /\ Admitted(s) /\ pc[s] # "leave")
       => slot = s

(* No more requests are in flight than the server admits, and no more than *)
(* one of them dials over a residential proxy, however they race, fail and *)
(* give back (serve.rs:266-296, proxy.rs:42-69).                           *)
LimitsHold == InflightIsExact /\ OneResidentialDial

(* A hard scrape never passes a challenge off as the content of the        *)
(* document it was asked for, a token counts only when the page shows its  *)
(* effect, and one scrape pays the solver once (lib.rs:612-820).  Nothing  *)
(* of the kind is true of the pages it follows (lib.rs:943-969).           *)
ChallengeNeverPasses == \A s \in Scrapes :
  /\ solves[s] <= 1
  /\ ok[s] /\ Hard(s) =>
       /\ dom[s] = Nothing => document[s].body # "challenge"
       /\ dom[s] # Nothing => ~dom[s].challenge \/ dom[s].unlocked
       /\ token[s] => dom[s] # Nothing /\ (dom[s].applied \/ dom[s].unlocked)

(* A hard scrape of an HTML page that has a body went through Chromium,    *)
(* over the proxy when it has one; so did every such page it followed, and *)
(* a proof whose document Chromium rendered says so (lib.rs:598-600,       *)
(* 993-1007, 1208).                                                        *)
HardIsRendered == \A s \in Scrapes : ok[s] =>
  /\ Hard(s) /\ document[s].html /\ document[s].body # "blank" =>
       dom[s] # Nothing /\ (o(s).proxy # "none" => browsers[s] = {"composed"})
  /\ Hard(s) => \A f \in followed[s] : f.page.html /\ f.page.body # "blank" => f.rendered
  /\ dom[s] # Nothing => path[s] = "chromium"

(* What a hard scrape proves was rendered by Chromium over its proxy, and  *)
(* its document is not a challenge (lib.rs:586-820, 993-1007, 1208).       *)
HardScrapesAreHonest == ChallengeNeverPasses /\ HardIsRendered

(* Scrapes that share no key do not touch each other's profile, but for    *)
(* those named "__all__", "." and "..", whose wipe takes every profile     *)
(* with it: the cookies of a running scrape stay until it wipes them       *)
(* itself, and are gone when it is over (stealth.rs:102-104, 165-174).     *)
JarIsOnesOwn == \A s \in Scrapes : Alone(s) =>
  /\ guard[s] /\ browsers[s] # {} => s \in jar[o(s).key]
  /\ pc[s] = "done" /\ o(s).wipe => s \notin jar[o(s).key]

(* An attested proof is signed by the key its quote commits to, whatever   *)
(* the guest agent does in between, and no proof is signed without a quote *)
(* (lib.rs:1073-1142).                                                     *)
SignedByCommittedKey == \A s \in Scrapes : ok[s] =>
  /\ o(s).seal # "sign"
  /\ o(s).seal = "attest" => signer[s] = committed[s] /\ signer[s] # Nothing

(* Every request is answered: refused, or run to its end with whatever     *)
(* fails on the way, and then nothing of it is held.                       *)
RequestsEnd == \A s \in UNION {DOMAIN w : w \in Workload} :
  s \in Scrapes ~> s \in Scrapes /\ pc[s] \in {"refused", "done"}

=============================================================================
