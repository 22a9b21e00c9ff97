-------------------------------- MODULE Batch --------------------------------
(***************************************************************************)
(* The multi-URL batch of basecrawl-core (src/crates/basecrawl-core/src/   *)
(* batch.rs): a pool of threads takes URL indices from a shared cursor,    *)
(* scrapes outside every lock and stores one item per index.  `scrape` is  *)
(* a black box here that returns a proof, returns an error or panics; a    *)
(* panic unwinds the worker's thread, which is never replaced.             *)
(***************************************************************************)
EXTENDS Integers, FiniteSets

CONSTANTS
  NumUrls,      (* urls.len()                                              *)
  Concurrency,  (* options.concurrency                                     *)
  PaceMs,       (* options.pace_ms, in ticks of `now`                      *)
  MayPanic,     (* the URLs whose scrape may unwind                        *)
  NoItem        (* None                                                    *)

Url == 1..NumUrls

(* validate_batch: what the code admits before it spawns anything.         *)
ValidBatch == NumUrls \in 1..1000 /\ Concurrency \in 1..64

ASSUME BatchAssumption ==
  /\ ValidBatch
  /\ PaceMs \in Nat
  /\ MayPanic \subseteq Url

(* concurrency = min(options.concurrency, urls.len()).max(1)               *)
PoolSize == IF Concurrency <= NumUrls THEN Concurrency ELSE NumUrls
Worker == 1..PoolSize

Lost == "batch_worker_failed"
Outcome == {"ok", "error"}
Item == [index : Url, outcome : Outcome]

ASSUME NoItemAssumption == NoItem \notin Item \cup Outcome \cup {Lost}

VARIABLES
  main,     (* the calling thread: "spawn", "join" or "returned"           *)
  spawned,  (* handles.len()                                               *)
  next,     (* work.next, one-based                                        *)
  pc,       (* where each worker is                                        *)
  job,      (* the index each worker holds                                 *)
  item,     (* the item each worker has built                              *)
  results,  (* the shared result slots                                     *)
  items,    (* BatchResult.items                                           *)
  now,      (* the clock the pacing sleeps read                            *)
  wake,     (* when each worker's sleep ends                               *)
  calls,    (* history: how often scrape was called for each URL           *)
  returned  (* history: what that call returned                            *)

mainVars == <<main, spawned, items>>
histVars == <<calls, returned>>
vars == <<main, spawned, next, pc, job, item, results, items, now, wake,
          calls, returned>>

-----------------------------------------------------------------------------
Init ==
  /\ main = "spawn"
  /\ spawned = 0
  /\ next = 1
  /\ pc = [w \in Worker |-> "unborn"]
  /\ job = [w \in Worker |-> 1]
  /\ item = [w \in Worker |-> NoItem]
  /\ results = [u \in Url |-> NoItem]
  /\ items = [u \in Url |-> NoItem]
  /\ now = 0
  /\ wake = [w \in Worker |-> 0]
  /\ calls = [u \in Url |-> 0]
  /\ returned = [u \in Url |-> NoItem]

Move(w, from, to) ==
  /\ pc[w] = from
  /\ pc' = [pc EXCEPT ![w] = to]

(* thread::spawn for the next handle.                                      *)
Spawn ==
  /\ main = "spawn"
  /\ spawned < PoolSize
  /\ Move(spawned + 1, "unborn", "take")
  /\ spawned' = spawned + 1
  /\ main' = IF spawned' = PoolSize THEN "join" ELSE "spawn"
  /\ UNCHANGED <<next, job, item, results, items, now, wake, histVars>>

(* Faulty variant: the cursor is read and advanced under separate locks,   *)
(* so an advance can be lost.                                              *)
TakeRacy(w) ==
  /\ next <= NumUrls
  /\ Move(w, "take", "pace")
  /\ job' = [job EXCEPT ![w] = next]
  /\ next' \in {next, next + 1}
  /\ wake' = [wake EXCEPT ![w] = now + PaceMs]
  /\ UNCHANGED <<mainVars, item, results, now, histVars>>

(* Under the work mutex: claim the next index and go to sleep on it, or    *)
(* leave the loop when none is left.                                       *)
Take(w) ==
  \/ /\ next <= NumUrls
     /\ Move(w, "take", "pace")
     /\ job' = [job EXCEPT ![w] = next]
     /\ next' = next + 1
     /\ wake' = [wake EXCEPT ![w] = now + PaceMs]
     /\ UNCHANGED <<mainVars, item, results, now, histVars>>
  \/ /\ next > NumUrls
     /\ Move(w, "take", "exit")
     /\ UNCHANGED <<mainVars, next, job, item, results, now, wake, histVars>>

(* The sleep is over (at once when pace_ms = 0) and scrape is called.      *)
StartScrape(w) ==
  /\ now >= wake[w]
  /\ Move(w, "pace", "scrape")
  /\ calls' = [calls EXCEPT ![job[w]] = @ + 1]
  /\ UNCHANGED <<mainVars, next, job, item, results, now, wake, returned>>

(* scrape returned: the item is built before any lock is taken.            *)
BuildItem(w, o) ==
  /\ Move(w, "scrape", "store")
  /\ item' = [item EXCEPT ![w] = [index |-> job[w], outcome |-> o]]
  /\ returned' = [returned EXCEPT ![job[w]] = o]
  /\ UNCHANGED <<mainVars, next, job, results, now, wake, calls>>

(* scrape panicked: the thread unwinds, holding neither mutex.             *)
Unwind(w) ==
  /\ job[w] \in MayPanic
  /\ Move(w, "scrape", "unwound")
  /\ UNCHANGED <<mainVars, next, job, item, results, now, wake, histVars>>

(* Faulty variant: items are stored in the order they complete.            *)
StoreInCompletionOrder(w) ==
  /\ Move(w, "store", "take")
  /\ results' = [results EXCEPT
       ![1 + Cardinality({u \in Url : results[u] # NoItem})] = item[w]]
  /\ UNCHANGED <<mainVars, next, job, item, now, wake, histVars>>

(* Under the results mutex: guard[idx] = Some(item), then loop.            *)
Store(w) ==
  /\ Move(w, "store", "take")
  /\ results' = [results EXCEPT ![job[w]] = item[w]]
  /\ UNCHANGED <<mainVars, next, job, item, now, wake, histVars>>

(* Faulty variants: a panicked handle is waited for for ever; joining      *)
(* stops at a worker that still sleeps.                                    *)
EndedByBreak(w) == pc[w] = "exit"
EndedOrAsleep(w) == pc[w] \in {"exit", "unwound", "pace"}

Ended(w) == pc[w] \in {"exit", "unwound"}

(* Faulty variant: an empty slot defaults to success.                      *)
CollectOk ==
  /\ main = "join"
  /\ \A w \in Worker : Ended(w)
  /\ items' = [u \in Url |-> IF results[u] = NoItem
                             THEN [index |-> u, outcome |-> "ok"]
                             ELSE results[u]]
  /\ main' = "returned"
  /\ UNCHANGED <<spawned, next, pc, job, item, results, now, wake, histVars>>

(* Every handle is joined, a panic ignored; each empty slot becomes a      *)
(* batch_worker_failed item.                                               *)
Collect ==
  /\ main = "join"
  /\ \A w \in Worker : Ended(w)
  /\ items' = [u \in Url |-> IF results[u] = NoItem
                             THEN [index |-> u, outcome |-> Lost]
                             ELSE results[u]]
  /\ main' = "returned"
  /\ UNCHANGED <<spawned, next, pc, job, item, results, now, wake, histVars>>

(* Time matters only while some worker sleeps.                             *)
Tick ==
  /\ \E w \in Worker : pc[w] = "pace" /\ wake[w] > now
  /\ now' = now + 1
  /\ UNCHANGED <<mainVars, next, pc, job, item, results, wake, histVars>>

(* batch() has returned; nothing is left to run.                           *)
Done == main = "returned" /\ UNCHANGED vars

WorkerStep(w) ==
  \/ Take(w)
  \/ StartScrape(w)
  \/ \E o \in Outcome : BuildItem(w, o)
  \/ Unwind(w)
  \/ Store(w)

Next ==
  \/ Spawn
  \/ \E w \in Worker : WorkerStep(w)
  \/ Collect
  \/ Tick
  \/ Done

Spec == Init /\ [][Next]_vars

(* Threads are scheduled, time passes, and scrape is bounded by its own    *)
(* deadline, so a call that was made eventually returns or unwinds.        *)
Fairness ==
  /\ WF_vars(Spawn) /\ WF_vars(Collect) /\ WF_vars(Tick)
  /\ \A w \in Worker : WF_vars(WorkerStep(w))

FairSpec == Spec /\ Fairness

-----------------------------------------------------------------------------
TypeOK ==
  /\ main \in {"spawn", "join", "returned"}
  /\ spawned \in 0..PoolSize
  /\ next \in 1..(NumUrls + 1)
  /\ pc \in [Worker -> {"unborn", "take", "pace", "scrape", "store",
                        "exit", "unwound"}]
  /\ job \in [Worker -> Url]
  /\ item \in [Worker -> Item \cup {NoItem}]
  /\ results \in [Url -> Item \cup {NoItem}]
  /\ now \in Nat /\ wake \in [Worker -> Nat]
  /\ calls \in [Url -> Nat]
  /\ returned \in [Url -> Outcome \cup {NoItem}]

Holds(w, u) == pc[w] \in {"pace", "scrape", "store"} /\ job[w] = u

(* No URL is scraped twice and no slot is written twice, however the       *)
(* workers interleave on the cursor: two workers never hold the same index *)
(* and a held or unclaimed index has an empty slot (batch.rs:128-136 claims *)
(* and advances under one lock, 161-162 stores under another).             *)
OneOwner ==
  \A u \in Url :
    /\ calls[u] <= 1
    /\ \A v, w \in Worker : Holds(v, u) /\ Holds(w, u) => v = w
    /\ (u >= next \/ \E w \in Worker : Holds(w, u)) => results[u] = NoItem

(* What batch returns is, index by index and in input order, what that     *)
(* URL's own scrape returned; a success is never invented and never lands  *)
(* under a sibling's index (batch.rs:56, "stable order").                  *)
ItemsAreTruthful ==
  main = "returned" =>
    \A u \in Url :
      /\ items[u].index = u
      /\ items[u].outcome = (IF returned[u] = NoItem THEN Lost
                                                     ELSE returned[u])

Unwound == {w \in Worker : pc[w] = "unwound"}

(* While one worker survives, a panic costs its own URL only: every other  *)
(* URL is scraped and its outcome returned (batch.rs:4-5).                 *)
PanicIsIsolated ==
  main = "returned" /\ Unwound # Worker =>
    \A u \in Url : items[u].outcome = Lost =>
      \E w \in Unwound : job[w] = u

(* Each item is of its own URL alone: scraped once, stored under its       *)
(* index, and lost to no other URL's panic while a worker is left          *)
(* (batch.rs:104-195).                                                     *)
ItemsAreTheirOwn == OneOwner /\ ItemsAreTruthful /\ PanicIsIsolated

(* The batch always returns, whatever unwinds.                             *)
BatchReturns == <>(main = "returned")
=============================================================================
