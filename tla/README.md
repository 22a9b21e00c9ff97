# basecrawl in TLA+

basecrawl scrapes a URL, directly or through headless Chromium, and returns a
`ScrapeProof`: the content together with evidence of how it was obtained. What
the proof says is worth as much as the control around it: which thread may put
which request on the wire, what a limit counts, what happens to a scrape when
one of its stages fails, and whether what is claimed about the path is what
happened. This directory models that control and leaves the content out.

Paths below are relative to `src/`; `core`, `render`, `cdp` and `seal` stand
for `crates/basecrawl-core/src`, `crates/basecrawl-render/src`,
`crates/basecrawl-headless-chrome/src` and `crates/basecrawl-seal/src`.

## 1. The system

```
 serve / cli / ffi        batch              (several scrapes of one process)
      \                    |
       +---- scrape() -----+    core/lib.rs: stages, early returns, the claim
              |    |   \   \
              |    |    \   +-- proxy slot, sticky profiles, captcha solver
              |    |     +----- guest agent: key, quote, signature
       fetch_document_until   render_until          (core/fetch.rs, render/lib.rs)
              |    |   \       |        |
              |    |    \      |        +-- sealed SOCKS proxy and DNS  (seal)
              |    |   OriginPacer   RenderResourceBudget
              |   DocumentPolicy        |
              |   (robots.rs)        Tab -> DevTools transport -> Chromium  (cdp)
         proxy dial, TLS evidence

 around it:  crawl, map, pagination and sitemaps (core), which call scrape() again;
             sealed tasks, results and the key release (seal), which bring tasks in;
             the echo server and the validator's probes (core/rtt_echo.rs)
```

| component | state it keeps | operations | what is hard about it | what makes it correct | module |
|---|---|---|---|---|---|
| batch (`core/batch.rs`) | shared cursor, result slots, threads | claim, sleep, scrape, store, join, collect | threads interleave; a panic unwinds a worker | each URL once, its own result under its own index, a panic costs its own URL | `Batch`, `BatchSpec` |
| browser render (`render/lib.rs`) | budget, pending counter, meters, navigation tracker, policy denial | intercept a request, respond, account a body, settle, serialize | event thread, body threads and rendering thread share counters and use them after unlocking | caps hold over all renders, nothing unsized is free, no partial page as Ok, the render ends | `RenderGuard`, `RenderBudget` |
| fetch, robots policy, pacer (`core/fetch.rs`, `core/robots.rs`, `render/lib.rs`) | redirect frame, recorded hops, last transmission per origin | redirect, consult, pace, transmit, answer | each hop depends on all before; robots is fetched inside a fetch; browser threads use the same pacer | policy before contact, pacing between any two requests, headers only to the seed, a truthful chain | `Fetch` |
| DevTools transport (`cdp/browser/transport`) | call registry, channels, `open`, socket | call, dispatch, loop, shutdown | registering, sending and closing take three steps each, on different threads | nobody waits for an answer that cannot come | `CdpTransport` |
| tabs and elements (`cdp/browser/tab`) | mutexes, handlers, bindings, `navigating` | every method; the event thread's handlers | a handler runs under a mutex and may make calls, which the page may hold back; a thread that dies poisons what it held | a paused request is decided, a caller returns, the event thread dies of nothing but its known unwraps | `TabApi`, `Tab` |
| scrape (`core/lib.rs`), server admission (`core/serve.rs`), residential slot (`core/proxy.rs`), sticky profiles (`core/stealth.rs`) | in-flight count, slot, profile registry and directories, guards, pending token | admit, take, fetch, solve, render, examine, follow, label, wipe, quote, sign | a dozen early returns under three guards; several scrapes share the process | limits exact, exclusion, no challenge as the document's content, evidence signed by the key it commits to | `Scrape` |
| captcha solver (`core/captcha_solver.rs`) | budget, task, token | configure, classify, createTask, poll, apply, judge | budget, client timeout and scrape deadline race a paid task | paid once at most, nothing challenged is delivered, bounded overrun | `Solver` |
| crawl, map, pagination, sitemaps (`core/crawl.rs`, `map_lite.rs`, `pagination.rs`, `links.rs`, `robots.rs`) | frontier, visited set, results, sitemaps seen | pop, scrape, filter, push, walk | documents link, redirect and list each other in circles; caps cut anywhere | breadth first and complete below the caps, the longest rule governs, nothing lost or listed twice | `Robots`, `Discovery` |
| sealed DNS and SOCKS proxy (`seal/dns.rs`, `browser_dns.rs`) | stop flag, a thread per connection, two per tunnel | accept, greet, resolve, dial, relay, stop | shutting down races accepting; two lookups are merged; each half of a tunnel ends on its own | only a resolved address is dialled, a tunnel delivers what was sent, the proxy ends | `SealedNet` |
| sealed tasks, results, feedback, key release (`seal/task.rs`, `result.rs`, `antibot_feedback.rs`, `keyrelease.rs`) | key pair, nonce, released key | request, quote, release, open, seal | the host may damage and mix up everything; ids may hold separators; restarts change the key; replies are not authenticated | opens what was sealed and nothing else; the task key only where it was released to | `Seal`, `Enclave` |
| egress and server I/O (`core/proxy.rs`, `fetch.rs`, `serve.rs`) | stream, bytes read, limits | plan, CONNECT, SOCKS5, read request, read response | bytes arrive in any chunks; credentials and classes of egress from four places | no byte of the origin's lost or added, the class reported is the class dialled | `Dial`, `Exchange` |
| evidence (`core/fetch.rs`, `attestation.rs`, `canonical.rs`), round trips (`rtt_echo.rs`, `egress.rs`) | recorded bytes, report data, quote; backlog, key in memory | handshake, quote, sign; echo, probe, cross-check | records split anywhere; keys change; echoes are lost, repeated or forged | evidence is the server's, report data binds it, a round trip is the enclave's | `Evidence`, `Attest` |
| content, formats, error texts, command line, FFI, tools | none | pure functions, marshalling, scripts | data | tests fit better | not modelled |

`PROJECT.json` has the full list, with a reason at every part left out, and the
hazards each property is aimed at, at the line where they bite.

## 2. Modules

One module per component, one action per handler or atomic step, and the
environment (Chromium, origins, the guest agent, the clock) as free choices.
An operation that takes a lock and releases it in one block is one action; one
that reads under a lock, releases it and uses what it read is several.

### Batch, BatchSpec, MCBatch, BatchProof

`main` is the calling thread, `pc[w]` a worker: `take` (the mutexed claim,
batch.rs:128-136), `pace` (its sleep), `scrape`, `store` (161-162), `exit` or
`unwound`. A scrape returns, errs, or panics (`Unwind`), which ends the thread
for good, as nothing catches it; `Collect` joins and fills empty slots with
`batch_worker_failed` (165-190). `calls` and `returned` are history.
`BatchSpec` is the promise to the caller with no threads in it; the refinement
maps its `outcome` to `returned`.

### RenderGuard, RenderBudget, MCRender, RenderProof

One scrape's renders, one after the other, under one `RenderResourceBudget`.
`st[r]` follows a request through interception (`Ask`, `Deny`, `RefuseHop`,
`Accept`), its pacing thread (`Transmit`, `PaceLate`), the response stage
(`Block`, `Respond`) and the thread that materializes an unsized body
(`BodyError`, `ReadMeter`, `ChargeBody`, `RaiseMeter`, `Fulfill`, `FinishBody`:
five steps because the meters' lock is released between them). `DataReceived`
and `CloseTab` are the event thread's. The rendering thread's program counter
is `main`: navigation, the settle loop in its three reads (`SettleCheck`,
`SettlePending`, `SettleProbe`), `Gate`, `Serialize`, `Ensure`. `RenderBudget`
is the budget alone: totals only grow, never past a cap, and an exhausted
budget does not move. The selector wait and the screenshot use the same guard
in the same places and have no action of their own.

### Fetch, MCFetch, FetchProof

`step[t]`, `level[t]` and `frame[t]` are a thread in a fetch; `outer[t]` is the
document fetch suspended while robots.txt is fetched inside it, by the same
loop (`Consult`, `Decide`). `holder` and `last` are `OriginPacer`, whose mutex
is kept through sleep and transmission (`Acquire` ... `Release`). Browser
threads check a top document or only pace an asset; what they send is
Chromium's and is not followed. `cleared`, `trail`, `contacts`, `ended` are
history. Time is a counter that `Tick` advances while anything else happens or
does not.

### CdpTransport, MCTransport (proved about in RenderProof)

Each call goes through `call_method` one lock at a time. A call for a tab is
two registrations, its own and that of the browser call that carries it; `Id`
has both layers. `Response`, `Event`, `WsEnds` are what the WebSocket thread
reads, `Loop*` the message loop with its three closing steps, `Shutdown` and
`TellLoop` the two halves of `Transport::shutdown`. A deadline turns every
read, send and wait into a timeout (`overdue`). The loop's idle timeout
(`LoopIdles`), which is never shorter than the time to the deadline, may elapse
once that has passed, and no fairness says that it does. Frames that the WebSocket library has buffered count
as read; call ids are distinct.

### Scrape, MCScrape, ScrapeProof

Several scrapes of one process with their shared state: the server's count
(`Load`, `Swap`: a load and a compare-and-exchange), the residential slot, the
profile registry with its directories (`jar[k]`: whose cookies the directory of
key `k` holds), the guest agent's key. `pc[s]` walks the stages of `scrape()`
in the order of lib.rs; each of them may fail (`Fails`), and every way out runs
the drop guards in the reverse order of their creation (`DropProfile`,
`DropSlot`, `Leave`). `Follow` takes the next page and keeps what it is
(`followed`): nothing tests it for a challenge before it is aggregated. `Wipe`
removes the directory of the scrape's key, and every registered one where the
key is `__all__`; the keys `.` and `..` name the root of all of them. What a stage returns is free: the document, the rendered
page, whether a token was applied. `Rekey` is the guest agent changing its key
at any time after a scrape committed to the old one.

### Solver, MCSolver (proved about in ScrapeProof)

What `Scrape` takes as one step that is paid and may fail. `pc` goes from the
configuration (`Resolve`) through `creating`, `polling` and `napping` to the
verdict; `spent` is the scrape's clock, and `since` where the solve began.
The provider answers anything at any tick of an exchange (`CreateAnswered`,
`PollAnswered`); `OverBudget` is looked at before each poll and not inside it.
`Rendering` is any page the browser ends up with; `Residual` and `Judge` are
what is made of it (captcha_solver.rs:1025-1054, lib.rs:690-816).

### Positions, Robots, Discovery, MCDiscovery, PositionsProof, DiscoveryProof

`Robots` is robots.txt and sitemap documents as pure functions: lines to
groups (`ReadLines`), the rules of the most specific groups (`Gathered`) and the loop that picks
one of them (`Chosen`), the XML events of a sitemap, and the greedy wildcard scan (`Scan`). Where the
scan is follows from three numbers: the last wildcard met, the place in the path from which
that one's successors are tried, and how many symbols matched since (`Spots`). Next to them are the
rules of RFC 9309 (`Ruling`, `Governs`), by the positions a pattern can `Reach`. `Discovery`
is one call of `crawl`, `map` or a paginated scrape on one site: the frontier
(`todo`, `visited`, `pages`), the walk over sitemaps (`stack`, `docs`, `seeds`), the
chain of next links and the inventory (`urls`). `site` fixes what every URL
returns, where it moved, and what its robots file says, so an instance
is a family of sites. `Positions` says what a filter (`Keep`) and a loop of "push unless
contained" (`Merge`) leave of a sequence, by the positions that stay; `Discovery` has its links,
seeds and inventories from it, `SealedNet` its answers, `Evidence` its offer of cipher suites.

### SealedNet, MCSealedNet (proved about in EnclaveProof)

`CheckStop`, `Accept` and `Drop` are the accept loop and the owner. Each
connection has a program counter (`greeting`, `request`, `address`, `A`, `AAAA`,
`dial`, `connected`, `relay`) and two relay threads that read, write and shut down
one direction each; bytes are counted. `ParseAnswers` and `Merge` say what is
made of the pin's messages.

### Seal, Enclave, MCEnclave, EnclaveProof

`Seal` is the framing and opening of envelopes and the reading of a release
reply, over texts split at their separators; the sealed box is ideal. In `Enclave`
the enclave, the authority, the relay, the miner's host and the committee act:
the key-release exchange (`RequestNonce` ... `ReleaseReply`), `Restart` and
`Register`, and what the host may do to an envelope (`Lose`, `Damage`, `MixUp`,
which changes ids and kinds in the clear header). The exchange passes through the
host too: it may put a nonce of its own in a reply, and answer the release with any
`KeyBoxes`, a key of its own making or an earlier box of the authority's. `releasedTo`
is history: the key pairs that the authority ever released the task key to.

### TabApi, Tab, MCTab (proved about in RenderProof)

`TabApi` translates every method of a tab and an element into the sequence of
calls, locks and stores it makes; `Tab` executes these programs on any number
of threads beside the event thread with its handlers (`OnLifecycle`, `OnBinding`,
`OnPaused`, `OnAuthRequired`, `OnReceived`). A caller runs one of the sequences of methods
it is `Offered`. Listeners, the interceptor and the handlers of responses make calls of
their own from the event thread, a navigation among them, which the page holds back as long as
a request of its is undecided (`HeldBack`). `CdpTransport` below is taken for
what it promises: a call is answered or ends with the connection. Poisoned
mutexes, unwraps that kill a thread and timeouts of waits are all in.

### Dial, Exchange, MCExchange (proved about in FetchProof)

`Dial` is the choice of an upstream (`ResolvePlan`, `TruthfulClass`,
`RenderUsername`) and the conversation with it, HTTP CONNECT or SOCKS5, over a stream
whose next read takes some of what is on the wire, finds it closed or runs
out of time. `Exchange` puts a request read by the server before it and the origin's
response behind it: limits on heads and bodies, chunked framing with sizes up to `SizeMax` (the
`usize` of the machine), content codings, truncation. A response's head has the length it declares
and its coding; its payload is in chunks or is all that comes. A decoder is `Unpack`, a
constant, of which `CodecAssumption` says what the libraries promise.

### Evidence, Attest, MCAttest, AttestProof

`Evidence` follows an attested scrape: validation of headers, the offer of cipher
suites, the recording of the handshake in whatever pieces it arrives, the key share
and SCTs parsed from it, the report data over all eleven fields, the quote and the signature. `Attest`
adds the echo server, whose thread and another one sign with the agent's
current key and share a cached one, the validator's probes, and the landmarks.

The MC module of a component holds its instance: constants, workloads, and where
there is an abstract specification, the INSTANCE that maps it. Where one proof module
covers two components of a layer, the names of the second one's specification carry a prefix
(`CdpInit`, `TabInit`, `SolverInit`, `NetInit`, `ExchangeInit`), so that both can be extended.

## 3. Runs

| run | instance | shows | states |
|---|---|---|---|
| `batch` | 4 URLs, 3 workers, pace 1, URLs 1 to 3 may panic | `ItemsAreTheirOwn`, `ImplementsPromise`, `BatchReturns` | 275,000 |
| `render` | 2 renders, 6 requests | `BodyAccountsHold`, `CapsHold`, `ImplementsBudget`, `RendersEnd` | 515,000 |
| `fetch` | 3 origins, 1 browser thread, 1 redirect, deadline and horizon 3 | `ContactsAreClearedAndBounded`, `CredentialsStayHome`, `FetchedIsWhatHappened`, `PacingFloor`, `FetchEnds` | 207,000 |
| `cdp` | a tab call, a browser call, 1 event | `CallsAreRegistered`, `CallsEnd` | 253,000 |
| `scrape` | every shape of scrape alone; groups of 2 and 3 | `LimitsHold`, `HardScrapesAreHonest`, `JarIsOnesOwn`, `SignedByCommittedKey`, `RequestsEnd` | 252,000 |
| `solver` | every configuration, 30-odd pages, budget 3, interval 2, deadline 5 | `SolveOrBlock`, `SolveOverrunsOnce`, `SolveEnds` | 96,000 |
| `discovery` | four families of sites, each with every option that bears on it | `CrawlIsBreadthFirst`, `RobotsAreObeyed`, `NothingIsLost`, `DiscoveryEnds` | 91,000 |
| `sealed_net` | 1 connection, 2 bytes each way at a time, 5 targets, 6 answers | `TunnelsAreSound`, `ProxyEnds` | 276,000 |
| `enclave` | 3 key pairs, 4 ids, 1 envelope under way | `OpensExactlyAsSealed`, `KeyOnlyOnRelease` | 589,000 |
| `tabs` | a method of each kind, or two in a row, a second thread that removes a function, 1 request, 1 counted event | `LoopDiesOfBindingsOnly`, `PausedIsDecided`, `CallersReturn` | 149,000 |
| `exchange` | 7 plans of egress, requests and responses within and past the limits | `RunsWhatWasAsked`, `BodyIsFaithful`, `DialIsFaithful` | 153,000 |
| `attest` | 15 handshakes or so, 8 tasks, 2 agent keys, 1 foreign key, 2 landmarks | `EvidenceIsTheServers`, `ProofIsBound`, `RttsHold`, `ServerStops` | 1,066,000 |

A property is often a conjunction of named parts, each with its own comment.
`LoopDiesOfBindingsOnly` is an action property, as what it is about is the step on which the
event thread dies. Type invariants are not among the properties of the runs: those of `Batch`, `RenderGuard`,
`Fetch`, `CdpTransport`, `Scrape`, `Solver`, `Enclave` and `Attest` are proved
(section 5); those of `Discovery`, `SealedNet`, `Tab` and `Exchange` hold in the instances
above. `PROJECT.json` pairs each property with a faulty variant of a definition
(the operators commented "Faulty variant") under which TLC finds it violated.

Why the bounds suffice:

- *Batch*: two workers are what interleaving needs; with a third, two can be lost
  while one survives, and the fourth URL is one a survivor picks up later. With all
  three lost, it stays.
- *RenderGuard*: the caps are such that each can be met exactly and exceeded:
  three requests of six, four bytes when the bodies are 1, 2 and 1 and an
  already metered part may be charged twice, a document of one byte against a
  limit of one, no redirect with one made. The image is untracked and unsized
  (settle does not see it, a body thread has it), the second render inherits
  what the first spent, asks for one more than the cap allows if all of it was
  asked for, and navigates to a forbidden document.
- *Fetch*: an HTTPS and a plaintext origin tell credential scope and TLS
  evidence apart, a third scheme fails before it is paced; one redirect tells
  first hop, allowed hop and refused hop apart, and robots may redirect as
  well. The scrape follows one page when it paces. Deadline 3 lets a delay of
  one be owed twice, waited for and found hopeless. `Horizon` equals the
  deadline: once it has passed, later instants change no comparison.
- *CdpTransport*: a nested and a plain call cover both layers of the registry
  and each other's interference; one event is enough to find the listener gone.
- *Scrape*: a single scrape goes through every combination of the options its
  guards read. Groups are those that can interfere: three for two places in
  flight, two for the slot, two with different profiles, one whose key reaches
  everybody's, two with the same where one keeps it. Two pages are one to follow. `MaxKeys` 2 allows one change of key between quote and
  signature.
- *Solver*: a budget of three polled every two has a nap that the budget cuts
  short and an exchange that outlasts it; the deadline of five falls inside an
  overrun of up to twice the budget.
- *Discovery*: four pages on two hosts and an alias make circles, fragments, links to
  other hosts, redirects out of the domain, and one page within reach by ways of
  different length; page caps below, at and above what is there, depths 0 to
  2. Robots files are all sequences of up to three directives, all of two groups with one
  rule each, and all patterns of up to four symbols, against three paths. Three sitemaps that
  name each other, and themselves by an empty `<loc>`, meet caps of three.
- *SealedNet*: connections share nothing but the stop flag, so one is enough to meet
  every step of the loop; two bytes may be read in one piece or two. The answers have
  an alias before the address, a duplicate, the other family only, nothing, an error and a cut.
- *Enclave*: one envelope at a time is enough, as opening one depends on no other; a second key pair
  is one a box may have been released to before a restart; a
  restart puts an envelope sealed to the old key before the new one. The ids are plain, with a
  field of their own, with a NUL, and empty: two of them make the same header as two others.
- *Tab*: one caller runs a method of each kind (those of `MCAlike` make calls only, as others do), or navigates
  with a function exposed, a listener or an interceptor of its own in place, which is when a handler's
  navigation meets a paused page; the other removes the function at any moment, with the only method that
  unwraps under a lock. One request passes through every state of interception. One lifecycle event,
  binding call or authentication is enough to meet each of these states.
- *Exchange*: limits a few bytes above what the shorter messages have and below the
  longer ones, so that a boundary falls on, before and after every chunk. Responses declare their length
  rightly, declare more or less than there is, or nothing; two codings and one unknown. A `SizeMax` of 20 has
  a chunk size that fits and overflows when the CRLF is added.
- *Attest*: the ServerHello is split at every place; a server asks for another hello, speaks an
  older protocol, or has a certificate that does not validate. Two tasks' id and nonce run
  together alike; others differ in what is shifted, cased or left out. Each claim is compared with
  every other claim, and with variants of them that differ in one committed field. A backlog of two fills; one echo under way can be lost, kept and repeated.

Deadlock is checked, except where the system may come to rest with work undone or
with all of it done: `CdpTransport`, `Scrape`, `Discovery`, `SealedNet`, `Tab` and `Attest`
end or wait for whoever calls next.

### Fairness

Each fairness assumption is a thread that runs, a clock that advances, or a
peer that reacts to a closed socket:

- *Batch*: the caller, each worker and the clock. A worker's fairness includes
  the return of its scrape, which `RequestsEnd` of `Scrape` shows from the
  deadline.
- *RenderGuard*: only the rendering thread and its deadline. Nothing is assumed
  of Chromium or of the body threads, so a render ends with a browser that
  never answers. That the accounts drain alone assumes that the body threads' CDP calls
  return (`BodyCallsReturn`), which the tab's timeout provides.
- *Fetch*: the clock, and each thread once in a fetch; never that one begins.
- *CdpTransport*: the loop, the WebSocket thread's end of stream, each caller,
  the second half of `shutdown`, and that Chromium closes a connection closed
  on it. Not that it answers, not that the deadline passes, and not that the
  loop's idle timeout elapses.
- *Scrape*: each scrape's thread. Every stage is bounded by the scrape's
  deadline, which shows as `Fails`.
- *Solver*: the scrape's thread and the clock of its exchanges, which the HTTP
  client's timeout bounds. Not that the provider ever has the task ready.
- *Discovery*: the caller's thread; each request ends, as `Fetch` and `Scrape` show.
- *SealedNet*: the accept loop and, for each connection, its threads; every read and write has a
  timeout. Of Chromium, the pin and the origin it is assumed only that neither end of a
  tunnel sends for ever (`MaxChunk`): a read never times out then, and dropping the proxy shuts no tunnel.
- *Tab*: each thread runs when it can; Chromium answers what the page does not hold back; waits
  elapse. Not that the page raises events, and not that a call times out: the second halves of
  `PausedIsDecided` and `CallersReturn` say what that timeout adds (`HeldBackIsOver`).
- *Attest*: the server's thread and its owner's join. It is assumed that the guest agent
  answers or fails, and that a client does not drip its request byte by byte: a read that
  never returns keeps the server up, as its sockets have a timeout per read only.
- *Enclave*, *Exchange*: none; only safety is stated.

## 4. Where code and words differ

What follows was met while modelling: places where a comment, a name or a test suggests other
than the code does. The models have what the code does.

Batch, render, fetch, transport, scrape:

- Once as many URLs have panicked as there are workers, the rest come back as
  `batch_worker_failed` unscraped (batch.rs:4-5, 126-190).
- The body thread reads the meter under the lock and charges after it; a `dataReceived` in
  between is charged twice (render/lib.rs:401-402, 746-778, 918-928). The error is on the side
  of the cap: bytes are never free, but a budget can run out early.
- The pending counter is read before the idle probe and not after (render/lib.rs:333-335,
  1880-1894). The page is still never captured past the cap; what is lost is the late body.
- A POST body is sent to robots.txt, to that of every redirect target, and to followed pages
  (fetch.rs:95-97; lib.rs:533-534, 951; robots.rs:254).
- A plaintext response keeps the TLS evidence that the last HTTPS hop before it left
  (fetch.rs:362-364), although fetch.rs:7-8 has a proof bind the handshake of the same connection
  that carried the response. `FetchedIsWhatHappened` holds HTTPS responses to that, and says of the others
  only that their evidence is of a hop of this fetch.
- A page that a scrape follows is not tested for a challenge and goes into the proof's markdown as it is
  (lib.rs:943-969, 1166-1250), in a hard scrape as well, where the first document is tested three
  times. `ChallengeNeverPasses` is about that document.
- After the deadline the WebSocket thread reads a timeout for ever and never sees the end of
  its stream (transport/mod.rs:418, web_socket_connection.rs:108-137, 266-271). Calls are not
  affected (`CallsEnd`); the thread and the socket are.
- A hard scrape of a blank body is labelled Chromium, and a soft one's followed pages direct,
  whatever served them (stealth.rs:82; lib.rs:598-600, 995-1007, 1206-1240).
- The screenshot's browser of a scrape with rendering off goes direct, past the proxy
  (fetch.rs:90-91; lib.rs:510-517, 876-913).
- A followed page that fails fails the scrape (lib.rs:923-924, 951-963).
- "Wiping one task does not touch another concurrent scrape's jar" (stealth.rs:102-104) is not so of
  the task id `__all__`, which wipes every registered profile (165-174), nor of `.` and `..`, which
  normalization lets through (210-225) and whose directory is the root of all profiles. `JarIsOnesOwn` is
  about scrapes without such company. It is not about two scrapes with one profile
  key either (of a batch, or of requests without a task id,
  which all use "anonymous"): the registry does not
  count users, so the first to end removes the directory under the other, whose
  own wipe then finds nothing registered and leaves what was written since. And a
  process that dies leaves its directories to the next, although stealth.rs:113-114
  speaks of an empty directory on first acquisition.
- The solver may outrun its budget by one exchange (lib.rs:223; captcha_solver.rs:476-640):
  `SolveOverrunsOnce` states how far, in client timeouts. `reqwest::blocking` counts one for the head
  and another for reading the body, so an exchange of the model stands for up to twice that time. With a key in the environment, `--captcha-solver off` does not
  switch it off.

Discovery:

- The wildcard scan takes a pattern for a match when the path is used up first
  (robots.rs:483, 515); an empty `Disallow` does not end a group's list of agents. An empty `<loc>` names
  the sitemap it stands in (robots.rs:554-560), as a page or as a further sitemap.
- A sitemap that times out fails a scrape whose page was good (lib.rs:576; robots.rs:4-6,
  314-317). A map does not read the sitemaps that robots.txt declares.
- `skipped` of a crawl has no links left behind by its caps; a page may redirect out of the
  allowed domain after it was admitted.

Sealed parts:

- A tunnel idle for 30 s in one direction, or half closed, is shut in both. The process-wide proxy
  keeps its first error for good.
- A task id with a "|" can be sealed and is refused on opening (`WholeEnvelopesOpen` names the
  exception). `key_release_mid_exchange` can be reported when no nonce was issued.
- The kind of an envelope stands in its clear header only. Feedback that the host passes on as a result opens
  as a result (result.rs:273-312), with the ids it was sealed with and the body of feedback; the other way round is
  refused for want of a code. So `Intact` envelopes open, and opening says nothing of the kind.
- A release reply is not authenticated and names no nonce (keyrelease.rs:365-417): a key box of the host's
  making is taken for the task key, and an earlier box for the same key pair is taken again.
  `KeyOnlyOnRelease` says what remains: it was sealed to the key pair the enclave has now, and if it is
  the authority's key, that key pair is one it was released to.

Tabs and browser:

- `wait_until_visible` ends on the first miss and takes `Ok(false)` for visible; an error of
  `ResolveNode` in `Element::new` is not `NoElementFound`, so a reload ends `wait_for_element`;
  `find_element_by_xpath` indexes the first of what may be no nodes; `get_midpoint` unwraps in its
  fallback.
- A listener, interceptor or handler that makes a call the page holds back, such as a navigation while a
  request is paused, keeps the event thread from deciding that very request until the call times out
  (tab/mod.rs:343-378, 1339-1340); so does one that locks the listeners, for ever. The former is in
  `PausedIsDecided` and `CallersReturn`; the latter, and a handler that panics, are not modelled.
- `navigate_to` raises `navigating` only after the reply. `remove_function` while a binding is
  called, and the unwraps beside it (tab/mod.rs:368), end the event thread: `LoopDiesOfBindingsOnly`.
- `register_missing_tabs` unwraps with the list locked and may list a target twice; a tab that cannot be
  made ends the browser's loop (browser/mod.rs:504-507); `Process::new_with_deadline` blocks on
  standard error (browser/mod.rs:129-133).

Egress and server:

- User names and passwords of a proxy URL are not percent-decoded, as proxy.rs:328 says they are; an
  `https` proxy is dialled in the clear; a required class relabels a configured upstream; a SOCKS
  upstream may choose a method that was not offered; an option with a country only drops the session
  already in the name.
- Nothing compares a response's `Content-Length` with what came (fetch.rs:436-551, 842-930): a body
  that ends early is Ok and not truncated, declared length or not, and one that goes on past its length is
  taken whole. `BodyIsFaithful` excepts the former; of the codings gzip notices it and deflate does not.
- A chunk of a size near `usize::MAX` overflows when its CRLF is added (fetch.rs:948-954) and panics in a
  build that checks; the model has that outcome, one that wraps is not modelled. A request with more behind its
  body than the cap allows is refused, though what it declares is within it (serve.rs:722-726).
- The cap on a request's head depends on how it arrives; requests too large or too late are closed
  without a response. A body that crosses the limit inside the chunk that also crosses the raw limit
  fails and is not truncated; a whole one near the raw limit may be called truncated.

Evidence and round trips:

- The evidence of a good handshake is lost if the reading stopped inside a later record
  (fetch.rs:1403-1405); the recorder keeps the whole response, not the ServerHello alone.
- `report_data` joins task id and nonce without a boundary and has neither the key share nor SCTs
  nor OCSP in it; headers_hash leaves out a default `Content-Type` and the first of two
  `Accept-Encoding` lines; the caller's `Accept` and `Accept-Language` are dropped in silence.
- `cross_check_landmark_rtts` accepts a report that leaves landmarks out. An error of accept ends the echo
  server in silence; `http_echo_round_trip` connects without a timeout and reads without a cap. Two signers
  at once may name a key that did not sign; the validator then refuses the echo. Nothing calls
  `probe_landmarks`.

## 5. Proofs

TLAPS checks the theorems for every value of the constants. They assume what the
ASSUMEs of the modules say: types of the constants, that sets of requests and of
scrapes are finite, and that the sentinels are none of the values they stand
beside. TLC evaluates each assumption in the runs.

| module | component | theorem | property |
|---|---|---|---|
| `BatchProof` | `Batch` | `TypeCorrect`, `SingleOwnership`, `TruthfulItems`, `PanicIsolation`, `ItemsAreOwn`, `BatchImplementsPromise` | `TypeOK`, `OneOwner`, `ItemsAreTruthful`, `PanicIsIsolated`, all three as `ItemsAreTheirOwn`, `ImplementsPromise` |
| `RenderProof` | `RenderGuard` | `TypeCorrect`, `PendingExact`, `BodiesArePaid`, `NavigationsAreBounded`, `CapturesAreWithinBudget`, `BodyAccountsAreExact`, `CapsAreHeld`, `BudgetIsImplemented` | `TypeOK`, `PendingIsExact`, `NoFreeBytes`, `NavigationBounded`, `CaptureWithinBudget`, the pairs `BodyAccountsHold` and `CapsHold`, `ImplementsBudget` |
| | `CdpTransport` | `CallsTyped`, `NobodyIsStranded` | `CdpTypeOK`, `CallsAreRegistered` |
| | `Tab` | `LoopDies` | `LoopDiesOfBindingsOnly` |
| `FetchProof` | `Fetch` | `TypeCorrect`, `CredentialsAreHome`, `PacingIsKept`, `ContactsAreHeld`, `FetchedHolds` | `TypeOK`, `CredentialsStayHome`, `PacingFloor`, `ContactsAreClearedAndBounded`, `FetchedIsWhatHappened` |
| | `Dial`, `Exchange` | `StreamSound`, `DialFaithful`, `RequestsRunAsAsked`, `BodiesAreFaithful`, `DecoderEnds` | `StreamIsTheOrigins` (a half of `DialIsFaithful`), `DialIsFaithful`, `RunsWhatWasAsked`, `BodyIsFaithful`; that decoding ends |
| `ScrapeProof` | `Scrape` | `TypeCorrect`, `InflightExact`, `ResidentialExclusion`, `ChallengesDoNotPass`, `HardScrapesAreRendered`, `ProfilesAreSeparate`, `SignatureIsCommitted`, `LimitsAreHeld`, `HardScrapesHonest` | `TypeOK`, `InflightIsExact`, `OneResidentialDial`, `ChallengeNeverPasses`, `HardIsRendered`, `JarIsOnesOwn`, `SignedByCommittedKey`, the pairs `LimitsHold` and `HardScrapesAreHonest` |
| | `Solver` | `SolveTypeCorrect`, `PaidForAtMostOnce`, `OverrunsByOneExchange` | `SolverTypeOK`, `SolveOrBlock`, `SolveOverrunsOnce` |
| `DiscoveryProof` | `Robots`, `Discovery` | `CrawlsBreadthFirst`, `NothingGetsLost`, `DeniedIsLeft`, `RobotsRulesAreObeyed` | `CrawlIsBreadthFirst`, `NothingIsLost`, `DeniedIsNeverScraped` (a half of the next), `RobotsAreObeyed` |
| `EnclaveProof` | `Enclave` | `TypeCorrect`, `KeysAreReleased`, `EnvelopesOpenAsSealed`, `IntactEnvelopesOpen`, `EnvelopesOpenExactly` | `TypeOK`, `KeyOnlyOnRelease`, `OpensAsSealed`, `WholeEnvelopesOpen`, both as `OpensExactlyAsSealed` |
| | `SealedNet` | `TunnelsSound` | `TunnelsAreSound` |
| `AttestProof` | `Evidence`, `Attest` | `TypeCorrect`, `RttsAreHeld`, `NoServerIsEverLost`, `NothingUnverifiedPasses`, `SignedByQuotedKey` | `TypeOK`, `RttsHold`, `NoServerIsLost` and `VerifiedIsVerified` (parts of `EvidenceIsTheServers`), `SignedAsQuoted` (a part of `ProofIsBound`) |
| `PositionsProof` | `Positions` | lemmas only | what is kept of a sequence; induction over numbers |

The assumptions that say more than types:

- `Exchange` (`ClientAssumption`): a client's words are not the marks that end lines and heads, and
  none of those that stand for method or path is the server's secret. `PeerAssumption`: what a peer
  answers is whole for its kind, so that what follows it is the origin's; a head may also
  be too long, and a stream may end or stall anywhere. `OriginAssumption`: an origin speaks of chunks only
  where it sends some, and none of them is empty; what ends them is a size, of nothing or of anything. `CodecAssumption`: from the beginning of what an
  origin packed a decoder makes the beginning of what was packed, and one for gzip all of it or an error.
- `Enclave`: an id is in the form that splitting a text at its separators gives; a NUL that stands
  for itself and a key that is none of the keys.
- `SealedNet`: no address is of both families.
- `Evidence`: a digest of more than one byte; nothing of digests that do not collide, which is
  why the theorems about it stop where they do.
- `Discovery`, `Robots`, `Tab`: types of sites, of paths, of the lengths of agent tokens, and of offered methods.

*Style.* Ordered choices of the code are IF chains; a CASE has disjoint arms only, as a prover may take
either. Induction over a data type is not to be had, as its theorem takes an operator, but
induction over numbers is: `PositionsProof` takes the least counterexample (`LeastNumber`, from the
well-foundedness of the naturals) and gets from it `Induction` for a subset of the numbers,
`Recursion` for functions defined from one number to the next, `RankedRecursion` for functions whose
arguments fall in rank, and `LoopInduction` for what each turn of a loop over a sequence
keeps. That is how balls of a crawl, envelopes split into fields, bytes of a stream, turns of a
decoder, lines of a policy and the scan of a pattern are reasoned about.

*Batch.* None of the properties is inductive alone. `IInv` adds: the cursor is
past every index handed out and a worker leaves only at its end (`CursorInv`);
an unclaimed index was never scraped (`CallInv`), without which a claim could be
a second one; an item carries the outcome of its own index, in hand or in its
slot (`ItemInv`); no outcome is lost on the way to a slot, and a claimed index
without one has a worker that sleeps, scrapes or unwound on it (`AccountInv`),
which is what isolates a panic. The refinement uses `ReturnInv` and `ItemsUnset`:
`BuildItem` is the promise's `Finish`, `Collect` its `Return`, all else stutters.

*RenderGuard.* Three invariants, each proved on the one before. `CountInv` is the
types together with the exact counter: `pending` is a natural number only because
it counts the body threads, so neither can be proved first. `ChargeInv` follows
one body: what was charged for it covers what its meter shows, and what its
thread read from the meter is no more than was charged, so the remainder it adds
makes the whole. `NavInv` ties the hop counter to the top documents on the wire.
`CutInv` says that what was serialized over the cap can only be followed by an
error, as an exhausted budget stays exhausted. The refinement of `RenderBudget`
needs `CountInv` and that a charge is never negative.

*Scrape.* `AdmissionInv` is again types and count together: the count stays within
its limit because an exchange succeeds on the value that was compared with the
limit, and does not go below zero because it counts. `SlotInv` adds that a working
scrape over a live proxy has the slot, and that one which was refused it has
launched nothing when it drops its guards. `LocalInv` is one conjunct per claim of
a single scrape, each saying what holds at every stage that the claim passes:
`SealInv`, `ChallengeInv`, `RenderInv`, `JarInv`. The last is the only one that
another scrape could break, and `OthersProfile` is where the keys have to differ and none of them
may reach another's directory.

*Fetch.* `TypeInv` is types and the two levels of a fetch: a robots fetch is always
inside the document fetch that asked for it. `HomeInv` says whose headers a frame may carry;
`ClearedInv`, that what a thread is about to send is what its own check let through, with
`outer` in between; `PaceInv`, that the holder of the mutex is the only sender and `last`
is when one ended. `ContactInv` counts: a document hop costs at most the redirects of its robots fetch
and two more. `ChainInv` links the recorded hops by their indices, and `SeedInv` keeps the first
decision the seed's; induction over chains is avoided by stating both of consecutive hops.

*CdpTransport.* `CallInv` has one conjunct per way a call can be stranded: its layers are
registered in order (`LayerInv`), an id answered is not registered any more (`KnownInv`), one
the loop has cancelled has mail (`ToldInv`), and one registered after the cancelling cannot be sent,
since the socket was closed before (`LiveInv` with `ClosingInv`, the order of the three closing steps).
`CauseInv` has a cause behind every closing: each message the loop may stop at was sent for one.

*Solver.* `PaidInv` ties the count of tasks to the program counter, `PageInv` says what the verdict
knows of the page, and `BudgetInv` is arithmetic: an exchange starts within the budget and takes no
longer than the client's timeout, which is the budget again.

*Tab.* `TabInv` is about who can be in the event thread's way: another thread ever holds the
bindings' mutex only; what is left of the event thread's program (`LoopOk`) locks in an order in which
it holds nothing but the listeners while an event's handlers run, gives back every mutex it holds,
and calls a binding only once a binding was installed, which is what the events in `inbox` say as well.
Hence only these two mutexes can be poisoned, and the only unwraps left to die of are the bindings'. One
lemma per method shows that its program is of a caller's steps, one per handler that its is `LoopOk`;
`AheadInv` says that what a caller has yet to run are methods.

*Exchange.* `BytesInv` says in each phase of the dial that what was read and what is wanted next cover a
peer's answer and no more, so the tunnel starts on the origin's first byte. `LedInv` keeps what an
upstream was told beside the plan it came from: nobody is told another one's user name, and a
direct class was dialled without anybody. `RequestInv` has the client's request taken apart
byte by byte: what is parsed is what was sent (`Heard`), of the body as much as was announced or was
there, and a plan is made only for one who knew the secret. `BodyInv` has, on top of `BytesInv` and `LedInv`, what was
read of a response as the beginning of what its origin encoded, whole if its end was
seen. For a chunked body, a decoder that goes on is between two chunks: its output is the chunks before
joined, and what it has left is the beginning of the chunks to come, cut wherever the bytes stopped
(`Midway`). What a coding makes of it is `UnpackedIsFaithful`. One that has ended has a prefix of the payload, and all of it unless it says "cut" (`Decodes`). `DecoderEnds` needs none of that: a turn that goes on consumes a byte.

*Discovery.* `CrawlInv` is the invariant of breadth-first search over a graph given by what pages
return: pages are recorded in order of depth, the queue holds at most two depths in a row, what was
visited is what was scraped or left, and every link of a page within the depth is visited or queued
unless the caps cut. From it, by induction over depths, the visited are the ball around the seed.
`WalkInv` says the same of sitemaps, whose seeds are those of the documents read, and `MapInv` of
the inventory: once each, the seed first, complete below its cap. `PolicyInv` is the policy's
record: every page, link followed and document in hand has its verdict there, before and
after its redirect, and none is a denial while the call goes on. `AskedInv` adds that every
verdict on record is the disposition of the path that was asked about under the policy of its origin, and the
rest is about `Robots` alone. The scan ends because each of its
steps raises the last wildcard, or the place it tries from, or what it matched (a rank that only
falls); it says yes only where the pattern reaches what it must. Without an anchor it misses nothing either: before
its first wildcard it goes just where the pattern goes, and behind one it tries on until the pattern
or the path is used up, and either is a match. (Of anchored patterns only the former is stated, as the code gives one up that is used up too soon.)
Groups are right because the open group, after each line, has the agents that cover the next rule
and the rules since. The gathered rules are then those of the most specific agent, and the loop's choice
after each of them is the best so far. An unanchored pattern that the path ends within is matched as
well, which the protocol does not say and the property states.

*Enclave.* While an exchange runs nothing is held, and whatever reply it ends with, what the enclave
parses from it was in a whole box sealed to the key pair it has, and can be the authority's only if that
key pair is among those it was released to (`ParsedIsOurs`). That an
envelope opens as sealed needs no invariant: it follows from the checks for any envelope whatever.
That an intact one opens does (`WireInv`: what is under way was sealed by its sender's rules), and needs
that splitting a header at its separators gives back the fields it was joined from, for fields of
any number.

*SealedNet.* `NetInv` follows a connection by its program counter: its target is known from the
request on, the addresses found are of the family asked for until both are merged, what is dialled is
the target's own or one the pin gave, IPv4 first, and there is one reply, after
the dial if it got that far. No byte of either direction is moved before success.

*Attest.* A signature in an echo or in the making is on record as the agent's (`JobInv`, `EchoInv`),
and the key the validator keeps is one the agent had (`KeyInv`), so an echo that verifies is not one of
another responder. `EvidenceInv` has the evidence absent until the handshake is over and then
of this connection's server; that every server which shares a suite with the seed's own list
still does so with what is offered, in its order, is `Merge`: nothing is lost by moving entries to the front. `QuotedInv` follows
the report from the complete fields through request and quote to the signature, whose key
is the one the report commits to. The map of landmarks has the least of each landmark's times, which exists because
the order of the natural numbers is well-founded.

*Timeouts of leaves.* A leaf that took more than two seconds names its prover with a time well above what
it needs (`SMTT(40)`, `ZenonT(40)`), so that a slower machine does not change what is proved.

What is only model-checked:

- Liveness, which needs fairness and ENABLED, out of the prover's reach.
- `PiecesAreTheServers`, `QuotesAreGenuine`, `ReportIsOfOneProof`: records parsed from bytes by
  recursion, and digests, of which it is only true on an instance that different inputs differ.
- The type invariants of `Discovery`, `SealedNet`, `Tab` and `Exchange`; the proofs above state of
  types what they need.

## 6. What the models leave out

- *Data*: URLs, header values, bodies, DOM, fingerprints and formats beyond what the properties
  tell apart. Decisions over them are free choices or small sets.
- *Batch*: poisoned mutexes (nothing panics while one is held).
- *RenderGuard*: DOM scripts, emulation, consent and scrolling; the selector wait
  and screenshot as steps of their own; a render's deadline inside Chromium.
- *Fetch*: retries inside the resolver. A thread that was begun before the deadline is not
  preempted by it. Proxies, TLS and bodies are free outcomes here and steps in `Dial`,
  `Evidence` and `Exchange`.
- *CdpTransport*: the handshake and parsing; the wrap of the call counter.
- *Scrape*: validation of options before the network; a crash of the process; the fetches and the render
  of a followed page, which are in `Fetch` and `RenderGuard`. Only what comes of it is there.
- *Solver*: the balance probe, which no scrape calls, and the length of paced waits.
- *Discovery*: decoding of bytes; the residual texts and counters of results.
- *SealedNet*: the TLS exchange with the pin, which may fail or yield any message; the process-wide
  instance of the proxy.
- *Enclave*: HTTP and JSON framing of the authority's answers; the marker searches that only tests call.
- *Tab*: what calls say (key codes, quads, expressions); handlers that panic or take the listeners' mutex.
- *Exchange*: responses with two codings; brotli, which is one more that fails when cut, as gzip does; the second
  attempt at deflate without its header, which is inside `Unpack`. Of the server's modes only scrape is executed; crawl, map and batch are `Discovery`'s and `Batch`'s.
- *Evidence*: the order of key-exchange groups, which is made as that of suites is; the constant domain tag in front of
  the report data; the text form of the fields.
- *Attest*: a bare SCT list of 1,156 bytes that is also a DER octet string; cut extensions in a
  ServerHello, which rustls refuses before; the completeness manifest.
- Not modelled at all: content extraction, error texts, command line, redaction, FFI and bindings, tools,
  and the larger part of the fingerprint tables: pure functions, marshalling or scripts, in which no
  step depends on another. The browser's process and its list of tabs are in `CdpTransport` as a
  listener only.

`Scrape` takes the answers of `Fetch`, `RenderGuard`, `Solver` and `CdpTransport` as free
choices including failure, which is a superset of what those modules allow, so
its safety properties hold of the composition. In the same way `Tab` takes of `CdpTransport`
what `CallsEnd` says, and `Discovery` of `Scrape` that a request ends.

## 7. Plan

All modules planned at first are there. What would come next:

1. `Crash` in `Scrape`: a process dies between two steps and another finds its profile directories, with the
   overlap of two scrapes on one key as a property of its own.
2. `Process`: launching Chromium, reading its standard error, restarting on a fixed profile, and
   the registry of tabs (browser/mod.rs, process.rs), composed with `Tab`.
3. A proof of `PiecesAreTheServers` from the lengths of records, as `BodiesAreFaithful` has it for chunks.

## 8. Running

    tlc -config MCScrape.cfg MCScrape        # any run: its module and .cfg
    tlapm ScrapeProof.tla                    # any *Proof module

With two workers each run takes from two seconds (`exchange`) to about three minutes (`attest`),
each proof between four seconds and about six minutes (`DiscoveryProof`, `FetchProof`).
