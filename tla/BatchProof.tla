----------------------------- MODULE BatchProof ------------------------------
(***************************************************************************)
(* Proofs about Batch for any number of URLs, workers and panics.          *)
(***************************************************************************)
EXTENDS MCBatch, TLAPS

USE DEF Outcome, Item, Lost

(* The worker still owes the pool a result for the index it holds.         *)
Busy(w) == pc[w] \in {"pace", "scrape", "store"}

(* The cursor is past every index handed out, and a worker leaves the loop *)
(* only when nothing is left.                                              *)
CursorInv ==
  /\ \A w \in Worker : Busy(w) => job[w] < next
  /\ \A w \in Worker : pc[w] = "exit" => next = NumUrls + 1

(* An index that is unclaimed, or whose worker sleeps, was not scraped; if *)
(* unclaimed or not answered yet it has no outcome.                        *)
CallInv ==
  \A u \in Url :
    /\ (u >= next \/ \E w \in Worker : pc[w] = "pace" /\ job[w] = u) => calls[u] = 0
    /\ (u >= next \/ \E w \in Worker : pc[w] \in {"pace", "scrape"} /\ job[w] = u)
         => returned[u] = NoItem

(* Items carry the outcome of their own index, in hand or in their slot.   *)
ItemInv ==
  /\ \A w \in Worker : pc[w] = "store" =>
       /\ item[w] = [index |-> job[w], outcome |-> returned[job[w]]]
       /\ returned[job[w]] \in Outcome
  /\ \A u \in Url : results[u] # NoItem =>
       results[u] = [index |-> u, outcome |-> returned[u]]

(* No outcome is lost on its way to a slot, and no claimed index is        *)
(* forgotten except by a worker that unwound on it.                        *)
AccountInv ==
  \A u \in Url :
    /\ returned[u] # NoItem =>
         results[u] # NoItem \/ \E w \in Worker : pc[w] = "store" /\ job[w] = u
    /\ u < next /\ returned[u] = NoItem =>
         \E w \in Worker : job[w] = u /\ pc[w] \in {"pace", "scrape", "unwound"}

ReturnInv ==
  main = "returned" =>
    /\ \A w \in Worker : Ended(w)
    /\ \A u \in Url : items[u] = Promise!Answer(u)

ItemsUnset == main # "returned" => items = [u \in Url |-> NoItem]

IInv ==
  /\ TypeOK
  /\ OneOwner
  /\ CursorInv
  /\ CallInv
  /\ ItemInv
  /\ AccountInv
  /\ ReturnInv
  /\ ItemsUnset

-----------------------------------------------------------------------------
(* The pool is never empty and never larger than asked for.                *)
LEMMA PoolSizeType == PoolSize \in Nat \ {0} /\ PoolSize <= Concurrency
BY BatchAssumption DEF ValidBatch, PoolSize

LEMMA TypeInit == Init => TypeOK
BY PoolSizeType, BatchAssumption DEF Init, TypeOK, Url, ValidBatch

(* Every action keeps the variables in their types.                        *)
LEMMA TypeStep == TypeOK /\ [Next]_vars => TypeOK'
<1> SUFFICES ASSUME TypeOK, [Next]_vars PROVE TypeOK'
  OBVIOUS
<1> USE PoolSizeType, BatchAssumption DEF TypeOK, mainVars, histVars, Move
<1>1. CASE Spawn
  <2>1. spawned' \in 0..PoolSize
    <3>1. spawned + 1 \in Worker
      BY <1>1 DEF Spawn, Worker
    <3>2. QED
      BY <1>1, <3>1 DEF Spawn, Worker
  <2>2. QED
    BY <1>1, <2>1 DEF Spawn, Worker
<1>2. ASSUME NEW w \in Worker, Take(w) PROVE TypeOK'
  <2>1. CASE next <= NumUrls
    <3>1. next \in Url /\ next' \in 1..(NumUrls + 1)
      BY <1>2, <2>1 DEF Take, Url, ValidBatch
    <3>2. job' \in [Worker -> Url]
      BY <1>2, <2>1, <3>1 DEF Take, ValidBatch
    <3>3. wake' \in [Worker -> Nat]
      BY <1>2, <2>1 DEF Take, ValidBatch
    <3>4. pc' = [pc EXCEPT ![w] = "pace"]
      BY <1>2, <2>1 DEF Take, ValidBatch
    <3>5. pc' \in [Worker -> {"unborn", "take", "pace", "scrape", "store",
                               "exit", "unwound"}]
      BY <3>4
    <3>6. /\ main' = main /\ spawned' = spawned /\ item' = item
          /\ results' = results /\ now' = now
          /\ calls' = calls /\ returned' = returned
      BY <1>2, <2>1 DEF Take, ValidBatch
    <3>7. QED
      BY <3>1, <3>2, <3>3, <3>5, <3>6
  <2>2. CASE next > NumUrls
    <3>1. ~(next <= NumUrls)
      BY <2>2 DEF ValidBatch
    <3>2. /\ pc' = [pc EXCEPT ![w] = "exit"]
          /\ UNCHANGED <<mainVars, next, job, item, results, now, wake, histVars>>
      BY <1>2, <3>1 DEF Take
    <3>3. QED
      BY <3>2
  <2>3. QED
    BY <2>1, <2>2 DEF ValidBatch
<1>3. ASSUME NEW w \in Worker, StartScrape(w) PROVE TypeOK'
  BY <1>3 DEF StartScrape
<1>4. ASSUME NEW w \in Worker, NEW o \in Outcome, BuildItem(w, o) PROVE TypeOK'
  BY <1>4 DEF BuildItem
<1>5. ASSUME NEW w \in Worker, Unwind(w) PROVE TypeOK'
  BY <1>5 DEF Unwind
<1>6. ASSUME NEW w \in Worker, Store(w) PROVE TypeOK'
  BY <1>6 DEF Store
<1>7. CASE Collect
  BY <1>7 DEF Collect
<1>8. CASE Tick
  BY <1>8 DEF Tick
<1>9. CASE UNCHANGED vars
  BY <1>9 DEF vars
<1>10. QED
  BY <1>1, <1>2, <1>3, <1>4, <1>5, <1>6, <1>7, <1>8, <1>9
     DEF Next, WorkerStep, Done

(* batch.rs:111-124: the threads, the cursor, the slots and the list hold  *)
(* values of their types in every reachable state, whatever the numbers of *)
(* URLs and workers.                                                       *)
THEOREM TypeCorrect == Spec => []TypeOK
BY TypeInit, TypeStep, PTL DEF Spec

-----------------------------------------------------------------------------
LEMMA InvInit == Init => IInv
<1> SUFFICES ASSUME Init PROVE IInv
  OBVIOUS
<1>1. TypeOK
  BY TypeInit
<1>2. OneOwner /\ CursorInv /\ CallInv /\ ItemInv /\ AccountInv
  BY DEF Init, OneOwner, CursorInv, CallInv, ItemInv, AccountInv, Holds,
         Busy, Url
<1>3. ReturnInv /\ ItemsUnset
  BY DEF Init, ReturnInv, ItemsUnset
<1>4. QED
  BY <1>1, <1>2, <1>3 DEF IInv

(* Spawning changes no more than one worker's place, from unborn to take.  *)
LEMMA SpawnStep == IInv /\ Spawn => IInv'
<1> SUFFICES ASSUME IInv, Spawn PROVE IInv'
  OBVIOUS
<1> USE PoolSizeType, BatchAssumption DEF IInv, Move
<1> DEFINE n == spawned + 1
<1>1. n \in Worker /\ pc[n] = "unborn" /\ pc' = [pc EXCEPT ![n] = "take"]
  BY DEF Spawn, TypeOK, Worker
<1>2. UNCHANGED <<next, job, item, results, items, now, wake, calls, returned>>
  BY DEF Spawn, histVars
<1>3. TypeOK'
  BY TypeStep DEF Next
<1>5. OneOwner'
  BY <1>1, <1>2 DEF OneOwner, Holds, TypeOK
<1>6. CursorInv' /\ CallInv'
  BY <1>1, <1>2 DEF CursorInv, CallInv, Busy, TypeOK
<1>7. ItemInv'
  BY <1>1, <1>2 DEF ItemInv, TypeOK
<1>8. AccountInv'
  BY <1>1, <1>2 DEF AccountInv, TypeOK
<1>9. ReturnInv' /\ ItemsUnset'
  BY <1>2 DEF Spawn, ReturnInv, ItemsUnset
<1>10. QED
  BY <1>3, <1>5, <1>6, <1>7, <1>8, <1>9

(* The first disjunct of Take: w claims index next.                        *)
LEMMA ClaimStep ==
  ASSUME IInv, NEW w \in Worker, Take(w), next <= NumUrls
  PROVE  IInv'
<1> USE PoolSizeType, BatchAssumption DEF IInv
<1>1. /\ next \in Url /\ next' = next + 1
      /\ pc[w] = "take" /\ pc' = [pc EXCEPT ![w] = "pace"]
      /\ job' = [job EXCEPT ![w] = next]
      /\ main' = main /\ items' = items /\ item' = item /\ results' = results
      /\ calls' = calls /\ returned' = returned
  BY DEF Take, Move, TypeOK, Url, ValidBatch, mainVars, histVars
<1>2. TypeOK'
  BY TypeStep DEF Next, WorkerStep
<1>3. /\ pc'[w] = "pace" /\ job'[w] = next
      /\ \A v \in Worker : v # w => pc'[v] = pc[v] /\ job'[v] = job[v]
  BY <1>1 DEF TypeOK
<1>4. /\ next \in Int /\ NumUrls \in Int /\ next # NumUrls + 1
      /\ \A u \in Url : u \in Int
  <2>1. NumUrls \in Int
    BY DEF ValidBatch
  <2>2. \A u \in Url : u \in Int
    BY <2>1 DEF Url
  <2>3. QED
    BY <1>1, <2>1, <2>2
<1>5. OneOwner'
  <2>1. \A v \in Worker : Busy(v) => job[v] < next
    BY DEF CursorInv
  <2>2. \A u \in Url : \A v, x \in Worker : Holds(v, u)' /\ Holds(x, u)' => v = x
    BY <1>1, <1>3, <1>4, <2>1 DEF OneOwner, Holds, Busy
  <2>3. \A u \in Url : (u >= next' \/ \E v \in Worker : Holds(v, u)') => results[u] = NoItem
    BY <1>1, <1>3, <1>4 DEF OneOwner, Holds
  <2>4. QED
    BY <1>1, <2>2, <2>3 DEF OneOwner
<1>6. CursorInv'
  <2>1. \A v \in Worker : job[v] \in Int
    BY <1>4 DEF TypeOK
  <2>2. QED
    BY <1>1, <1>3, <1>4, <2>1 DEF CursorInv, Busy
<1>7. CallInv'
  BY <1>1, <1>3, <1>4 DEF CallInv
<1>8. ItemInv'
  BY <1>1, <1>3 DEF ItemInv
<1>9. AccountInv'
  <2>1. \A u \in Url : returned[u] # NoItem =>
          results[u] # NoItem \/ \E v \in Worker : pc'[v] = "store" /\ job'[v] = u
    BY <1>1, <1>3 DEF AccountInv
  <2>2. ASSUME NEW u \in Url, u < next', returned[u] = NoItem
        PROVE  \E v \in Worker : job'[v] = u /\ pc'[v] \in {"pace", "scrape", "unwound"}
    <3>1. CASE u = next
      BY <1>3, <3>1
    <3>2. CASE u < next
      BY <1>1, <1>3, <2>2, <3>2 DEF AccountInv
    <3>3. QED
      BY <1>1, <1>4, <2>2, <3>1, <3>2
  <2>3. QED
    BY <1>1, <2>1, <2>2 DEF AccountInv
<1>10. ReturnInv' /\ ItemsUnset'
  BY <1>1 DEF ReturnInv, ItemsUnset, Ended
<1>11. QED
  BY <1>2, <1>5, <1>6, <1>7, <1>8, <1>9, <1>10

(* The second disjunct of Take: w leaves the loop.                         *)
LEMMA LeaveStep ==
  ASSUME IInv, NEW w \in Worker, Take(w), next > NumUrls
  PROVE  IInv'
<1> USE PoolSizeType, BatchAssumption DEF IInv
<1>1. /\ next' = next /\ next = NumUrls + 1
      /\ pc[w] = "take" /\ pc' = [pc EXCEPT ![w] = "exit"]
      /\ job' = job /\ main' = main /\ items' = items /\ item' = item
      /\ results' = results /\ calls' = calls /\ returned' = returned
  BY DEF Take, Move, TypeOK, Url, ValidBatch, mainVars, histVars
<1>2. TypeOK'
  BY TypeStep DEF Next, WorkerStep
<1>3. pc'[w] = "exit" /\ \A v \in Worker : v # w => pc'[v] = pc[v]
  BY <1>1 DEF TypeOK
<1>4. OneOwner'
  BY <1>1, <1>3 DEF OneOwner, Holds
<1>5. CursorInv' /\ CallInv'
  BY <1>1, <1>3 DEF CursorInv, CallInv, Busy
<1>6. ItemInv' /\ AccountInv'
  BY <1>1, <1>3 DEF ItemInv, AccountInv
<1>7. ReturnInv' /\ ItemsUnset'
  BY <1>1 DEF ReturnInv, ItemsUnset, Ended
<1>8. QED
  BY <1>2, <1>4, <1>5, <1>6, <1>7

LEMMA StartStep ==
  ASSUME IInv, NEW w \in Worker, StartScrape(w)
  PROVE  IInv'
<1> USE DEF IInv
<1>1. /\ next' = next /\ pc[w] = "pace" /\ pc' = [pc EXCEPT ![w] = "scrape"]
      /\ job' = job /\ main' = main /\ items' = items /\ item' = item
      /\ results' = results /\ returned' = returned
      /\ calls' = [calls EXCEPT ![job[w]] = @ + 1]
  BY DEF StartScrape, Move, mainVars
<1>2. TypeOK'
  BY TypeStep DEF Next, WorkerStep
<1>3. pc'[w] = "scrape" /\ \A v \in Worker : v # w => pc'[v] = pc[v]
  BY <1>1 DEF TypeOK
<1>4. /\ calls'[job[w]] = 1 /\ job[w] \in Url /\ job[w] < next
      /\ \A u \in Url : u # job[w] => calls'[u] = calls[u]
  BY <1>1 DEF CallInv, CursorInv, Busy, TypeOK
<1>5. \A v \in Worker : Busy(v) /\ job[v] = job[w] => v = w
  BY <1>1, <1>4 DEF OneOwner, Holds, Busy
<1>6. OneOwner'
  BY <1>1, <1>3, <1>4 DEF OneOwner, Holds
<1>7. CursorInv'
  BY <1>1, <1>3 DEF CursorInv, Busy
<1>8. CallInv'
  <2>1. next \in Int /\ \A u \in Url : u \in Int
    BY DEF TypeOK, Url
  <2>2. QED
    BY <1>1, <1>3, <1>4, <1>5, <2>1 DEF CallInv, Busy
<1>9. ItemInv' /\ AccountInv'
  BY <1>1, <1>3 DEF ItemInv, AccountInv
<1>10. ReturnInv' /\ ItemsUnset'
  BY <1>1 DEF ReturnInv, ItemsUnset, Ended
<1>11. QED
  BY <1>2, <1>6, <1>7, <1>8, <1>9, <1>10

LEMMA BuildStep ==
  ASSUME IInv, NEW w \in Worker, NEW o \in Outcome, BuildItem(w, o)
  PROVE  IInv'
<1> USE DEF IInv
<1>1. /\ next' = next /\ pc[w] = "scrape" /\ pc' = [pc EXCEPT ![w] = "store"]
      /\ job' = job /\ main' = main /\ items' = items
      /\ results' = results /\ calls' = calls
      /\ item' = [item EXCEPT ![w] = [index |-> job[w], outcome |-> o]]
      /\ returned' = [returned EXCEPT ![job[w]] = o]
  BY DEF BuildItem, Move, mainVars
<1>2. TypeOK'
  BY TypeStep DEF Next, WorkerStep
<1>3. pc'[w] = "store" /\ \A v \in Worker : v # w => pc'[v] = pc[v] /\ item'[v] = item[v]
  BY <1>1 DEF TypeOK
<1>4. /\ job[w] \in Url /\ job[w] < next /\ returned'[job[w]] = o
      /\ item'[w] = [index |-> job[w], outcome |-> o]
      /\ \A u \in Url : u # job[w] => returned'[u] = returned[u]
      /\ o # NoItem
  BY <1>1, NoItemAssumption DEF CursorInv, Busy, TypeOK
<1>5. /\ results[job[w]] = NoItem
      /\ \A v \in Worker : Busy(v) /\ job[v] = job[w] => v = w
  BY <1>1, <1>4 DEF OneOwner, Holds, Busy
<1>6. OneOwner'
  BY <1>1, <1>3 DEF OneOwner, Holds
<1>7. CursorInv'
  BY <1>1, <1>3 DEF CursorInv, Busy
<1>8. CallInv'
  <2>1. next \in Int /\ \A u \in Url : u \in Int
    BY DEF TypeOK, Url
  <2>2. QED
    BY <1>1, <1>3, <1>4, <1>5, <2>1 DEF CallInv, Busy
<1>9. ItemInv'
  BY <1>1, <1>3, <1>4, <1>5 DEF ItemInv, Busy
<1>10. AccountInv'
  BY <1>1, <1>3, <1>4, <1>5 DEF AccountInv
<1>11. ReturnInv' /\ ItemsUnset'
  BY <1>1 DEF ReturnInv, ItemsUnset, Ended
<1>12. QED
  BY <1>2, <1>6, <1>7, <1>8, <1>9, <1>10, <1>11

LEMMA UnwindStep ==
  ASSUME IInv, NEW w \in Worker, Unwind(w)
  PROVE  IInv'
<1> USE DEF IInv
<1>1. /\ next' = next /\ pc[w] = "scrape" /\ pc' = [pc EXCEPT ![w] = "unwound"]
      /\ job' = job /\ main' = main /\ items' = items /\ item' = item
      /\ results' = results /\ calls' = calls /\ returned' = returned
  BY DEF Unwind, Move, mainVars, histVars
<1>2. TypeOK'
  BY TypeStep DEF Next, WorkerStep
<1>3. pc'[w] = "unwound" /\ \A v \in Worker : v # w => pc'[v] = pc[v]
  BY <1>1 DEF TypeOK
<1>4. OneOwner'
  BY <1>1, <1>3 DEF OneOwner, Holds
<1>5. CursorInv' /\ CallInv'
  BY <1>1, <1>3 DEF CursorInv, CallInv, Busy
<1>6. ItemInv' /\ AccountInv'
  BY <1>1, <1>3 DEF ItemInv, AccountInv
<1>7. ReturnInv' /\ ItemsUnset'
  BY <1>1 DEF ReturnInv, ItemsUnset, Ended
<1>8. QED
  BY <1>2, <1>4, <1>5, <1>6, <1>7

LEMMA StoreStep ==
  ASSUME IInv, NEW w \in Worker, Store(w)
  PROVE  IInv'
<1> USE DEF IInv
<1>1. /\ next' = next /\ pc[w] = "store" /\ pc' = [pc EXCEPT ![w] = "take"]
      /\ job' = job /\ main' = main /\ items' = items /\ item' = item
      /\ results' = [results EXCEPT ![job[w]] = item[w]]
      /\ calls' = calls /\ returned' = returned
  BY DEF Store, Move, mainVars, histVars
<1>2. TypeOK'
  BY TypeStep DEF Next, WorkerStep
<1>3. pc'[w] = "take" /\ \A v \in Worker : v # w => pc'[v] = pc[v]
  BY <1>1 DEF TypeOK
<1>4. /\ job[w] \in Url /\ job[w] < next
      /\ item[w] = [index |-> job[w], outcome |-> returned[job[w]]]
      /\ returned[job[w]] \in Outcome
  BY <1>1 DEF CursorInv, Busy, TypeOK, ItemInv
<1>5. /\ results'[job[w]] = item[w] /\ item[w] # NoItem
      /\ \A u \in Url : u # job[w] => results'[u] = results[u]
  <2>1. item[w] \in Item
    BY <1>4
  <2>2. QED
    BY <1>1, <1>4, <2>1, NoItemAssumption DEF TypeOK
<1>6. \A v \in Worker : Busy(v) /\ job[v] = job[w] => v = w
  BY <1>1, <1>4 DEF OneOwner, Holds, Busy
<1>7. OneOwner'
  <2>1. next \in Int /\ \A u \in Url : u \in Int
    BY DEF TypeOK, Url
  <2>2. ASSUME NEW u \in Url, u >= next' \/ \E v \in Worker : Holds(v, u)'
        PROVE  results'[u] = NoItem
    <3>1. u # job[w]
      BY <1>1, <1>3, <1>4, <1>6, <2>1, <2>2 DEF Holds, Busy
    <3>2. u >= next \/ \E v \in Worker : Holds(v, u)
      BY <1>1, <1>3, <2>2 DEF Holds
    <3>3. QED
      BY <1>5, <3>1, <3>2 DEF OneOwner
  <2>3. \A u \in Url : calls'[u] <= 1 /\
          \A v, x \in Worker : Holds(v, u)' /\ Holds(x, u)' => v = x
    BY <1>1, <1>3 DEF OneOwner, Holds
  <2>4. QED
    BY <2>2, <2>3 DEF OneOwner
<1>8. CursorInv' /\ CallInv'
  BY <1>1, <1>3 DEF CursorInv, CallInv, Busy
<1>9. ItemInv'
  BY <1>1, <1>3, <1>4, <1>5 DEF ItemInv
<1>10. AccountInv'
  BY <1>1, <1>3, <1>4, <1>5 DEF AccountInv
<1>11. ReturnInv' /\ ItemsUnset'
  BY <1>1 DEF ReturnInv, ItemsUnset, Ended
<1>12. QED
  BY <1>2, <1>7, <1>8, <1>9, <1>10, <1>11

LEMMA CollectStep == IInv /\ Collect => IInv'
<1> SUFFICES ASSUME IInv, Collect PROVE IInv'
  OBVIOUS
<1> USE DEF IInv
<1>1. /\ next' = next /\ pc' = pc /\ job' = job /\ item' = item
      /\ results' = results /\ calls' = calls /\ returned' = returned
      /\ main' = "returned" /\ \A w \in Worker : Ended(w)
  BY DEF Collect, histVars
<1>2. TypeOK'
  BY TypeStep DEF Next
<1>3. OneOwner' /\ CursorInv' /\ CallInv' /\ ItemInv' /\ AccountInv'
  BY <1>1 DEF OneOwner, Holds, CursorInv, CallInv, ItemInv, AccountInv, Busy
<1>4. ASSUME NEW u \in Url PROVE items'[u] = Promise!Answer(u)
  <2>1. results[u] = NoItem <=> returned[u] = NoItem
    <3>1. ASSUME returned[u] # NoItem PROVE results[u] # NoItem
      BY <1>1, <3>1 DEF AccountInv, Ended
    <3>2. ASSUME results[u] # NoItem PROVE returned[u] # NoItem
      <4>1. results[u] \in Item /\ results[u].outcome = returned[u]
        BY <3>2 DEF ItemInv, TypeOK
      <4>2. QED
        BY <4>1, NoItemAssumption
    <3>3. QED
      BY <3>1, <3>2
  <2>2. QED
    BY <2>1 DEF Collect, ItemInv, Promise!Answer
<1>5. ReturnInv'
  BY <1>1, <1>4 DEF ReturnInv, Ended, Promise!Answer
<1>6. ItemsUnset'
  BY <1>1 DEF ItemsUnset
<1>7. QED
  BY <1>2, <1>3, <1>5, <1>6

(* Every step of the pool keeps the inductive invariant.                   *)
LEMMA InvStep == IInv /\ [Next]_vars => IInv'
<1> SUFFICES ASSUME IInv, [Next]_vars PROVE IInv'
  OBVIOUS
<1>1. CASE Spawn
  BY <1>1, SpawnStep
<1>2. ASSUME NEW w \in Worker, Take(w) PROVE IInv'
  <2>1. next <= NumUrls \/ next > NumUrls
    BY BatchAssumption DEF IInv, TypeOK, ValidBatch
  <2>2. QED
    BY <1>2, <2>1, ClaimStep, LeaveStep
<1>3. ASSUME NEW w \in Worker, StartScrape(w) PROVE IInv'
  BY <1>3, StartStep
<1>4. ASSUME NEW w \in Worker, NEW o \in Outcome, BuildItem(w, o) PROVE IInv'
  BY <1>4, BuildStep
<1>5. ASSUME NEW w \in Worker, Unwind(w) PROVE IInv'
  BY <1>5, UnwindStep
<1>6. ASSUME NEW w \in Worker, Store(w) PROVE IInv'
  BY <1>6, StoreStep
<1>7. CASE Collect
  BY <1>7, CollectStep
<1>8. ASSUME Tick \/ UNCHANGED vars PROVE IInv'
  <2>1. /\ next' = next /\ pc' = pc /\ job' = job /\ item' = item
        /\ results' = results /\ calls' = calls /\ returned' = returned
        /\ main' = main /\ items' = items
    BY <1>8 DEF Tick, vars, mainVars, histVars
  <2>2. TypeOK'
    BY TypeStep DEF IInv
  <2>3. (OneOwner /\ CursorInv /\ CallInv /\ ItemInv /\ AccountInv)'
    BY <2>1 DEF IInv, OneOwner, Holds, CursorInv, CallInv, ItemInv, AccountInv, Busy
  <2>4. ReturnInv' /\ ItemsUnset'
    BY <2>1 DEF IInv, ReturnInv, ItemsUnset, Ended, Promise!Answer
  <2>5. QED
    BY <2>2, <2>3, <2>4 DEF IInv
<1>9. QED
  BY <1>1, <1>2, <1>3, <1>4, <1>5, <1>6, <1>7, <1>8 DEF Next, WorkerStep, Done

LEMMA Invariant == Spec => []IInv
BY InvInit, InvStep, PTL DEF Spec

(* The two fields of what BatchSpec returns for a URL.                     *)
LEMMA AnswerFields ==
  ASSUME NEW u \in Url
  PROVE  /\ Promise!Answer(u).index = u
         /\ returned[u] = NoItem => Promise!Answer(u).outcome = Lost
         /\ returned[u] # NoItem => Promise!Answer(u).outcome = returned[u]
<1>1. CASE returned[u] = NoItem
  <2>1. Promise!Answer(u) = [index |-> u, outcome |-> Lost]
    BY <1>1 DEF Promise!Answer
  <2>2. QED
    BY <1>1, <2>1
<1>2. CASE returned[u] # NoItem
  <2>1. Promise!Answer(u) = [index |-> u, outcome |-> returned[u]]
    BY <1>2 DEF Promise!Answer
  <2>2. QED
    BY <1>2, <2>1
<1>3. QED
  BY <1>1, <1>2

(* batch.rs:128-162: for every number of URLs and workers, no URL is       *)
(* scraped twice and no result slot is written twice.                      *)
THEOREM SingleOwnership == Spec => []OneOwner
<1>1. IInv => OneOwner
  BY DEF IInv
<1>2. QED
  BY Invariant, <1>1, PTL

(* batch.rs:169-195: what comes back under each index is what that URL's   *)
(* own scrape returned, whichever workers were lost on the way.            *)
THEOREM TruthfulItems == Spec => []ItemsAreTruthful
<1>1. IInv => ItemsAreTruthful
  BY AnswerFields DEF IInv, ReturnInv, ItemsAreTruthful
<1>2. QED
  BY Invariant, <1>1, PTL

(* batch.rs:4-5: while one worker survives, only the URLs whose own scrape *)
(* panicked come back without an outcome.                                  *)
THEOREM PanicIsolation == Spec => []PanicIsIsolated
<1>1. ASSUME IInv, main = "returned", Unwound # Worker,
             NEW u \in Url, items[u].outcome = Lost
      PROVE  \E w \in Unwound : job[w] = u
  <2>1. \A w \in Worker : Ended(w)
    BY <1>1 DEF IInv, ReturnInv
  <2>2. PICK w \in Worker : pc[w] = "exit"
    BY <1>1, <2>1 DEF Unwound, Ended
  <2>3. u < next
    BY <1>1, <2>2, BatchAssumption DEF IInv, CursorInv, Url, ValidBatch
  <2>4. returned[u] = NoItem
    <3>1. returned[u] # Lost
      BY <1>1, NoItemAssumption DEF IInv, TypeOK
    <3>2. QED
      BY <1>1, <3>1, AnswerFields DEF IInv, ReturnInv
  <2>5. QED
    BY <1>1, <2>1, <2>3, <2>4 DEF IInv, AccountInv, Ended, Unwound
<1>2. IInv => PanicIsIsolated
  BY <1>1 DEF PanicIsIsolated
<1>3. QED
  BY Invariant, <1>2, PTL

(* Each item is of its own URL alone: scraped once, stored under its index *)
(* and lost to no other URL's panic (batch.rs:104-195).                    *)
THEOREM ItemsAreOwn == Spec => []ItemsAreTheirOwn
<1>1. OneOwner /\ ItemsAreTruthful /\ PanicIsIsolated => ItemsAreTheirOwn
  BY DEF ItemsAreTheirOwn
<1>2. QED
  BY SingleOwnership, TruthfulItems, PanicIsolation, <1>1, PTL

(* The pool of threads implements the promise of BatchSpec.                *)
THEOREM BatchImplementsPromise == Spec => ImplementsPromise
<1>1. Init => Promise!Init
  BY DEF Init, Promise!Init
<1>2. ASSUME IInv, [Next]_vars PROVE [Promise!Next]_<<returned, items>>
  <2>1. ASSUME NEW w \in Worker, NEW o \in Outcome, BuildItem(w, o)
        PROVE  Promise!Next
    <3>1. job[w] \in Url /\ returned[job[w]] = NoItem
      BY <1>2, <2>1 DEF BuildItem, Move, IInv, TypeOK, CallInv
    <3>2. main # "returned"
      BY <1>2, <2>1 DEF BuildItem, Move, IInv, ReturnInv, Ended
    <3>3. Promise!Finish(job[w], o)
      BY <1>2, <2>1, <3>1, <3>2
         DEF BuildItem, mainVars, Promise!Finish, Promise!Open, IInv, ItemsUnset
    <3>4. QED
      BY <3>1, <3>3 DEF Promise!Next
  <2>2. CASE Collect
    <3>1. IInv'
      BY <1>2, InvStep
    <3>2. returned' = returned /\ main' = "returned" /\ main # "returned"
      BY <2>2 DEF Collect, histVars
    <3>3. \A u \in Url : items'[u] = Promise!Answer(u)
      BY <3>1, <3>2 DEF IInv, ReturnInv, Promise!Answer
    <3>4. items' = [u \in Url |-> items'[u]]
      BY <2>2 DEF Collect
    <3>5. items' = [u \in Url |-> Promise!Answer(u)]
      BY <3>3, <3>4
    <3>6. QED
      BY <1>2, <3>2, <3>5
         DEF IInv, ItemsUnset, Promise!Next, Promise!Return, Promise!Open
  <2>3. CASE Spawn \/ Tick \/ UNCHANGED vars
    BY <2>3 DEF Spawn, Tick, vars, mainVars, histVars
  <2>4. ASSUME NEW w \in Worker, Take(w) \/ StartScrape(w) \/ Unwind(w) \/ Store(w)
        PROVE  UNCHANGED <<returned, items>>
    BY <2>4 DEF Take, StartScrape, Unwind, Store, mainVars, histVars
  <2>5. QED
    BY <1>2, <2>1, <2>2, <2>3, <2>4 DEF Next, WorkerStep, Done
<1>3. QED
  BY <1>1, <1>2, Invariant, PTL DEF Spec, ImplementsPromise, Promise!Spec
=============================================================================
