----------------------------- MODULE ScrapeProof ------------------------------
(***************************************************************************)
(* Proofs about Scrape for any workload, any number of scrapes and any     *)
(* limit, and then about the Solver it calls.                              *)
(***************************************************************************)
EXTENDS Scrape, Solver, FiniteSetTheorems, TLAPS

Stage == {"new", "swap", "refused", "slot", "policy", "fetch", "solve", "render",
          "rendered", "rerender", "rerendered", "formats", "pages", "wipe",
          "probe", "sign", "drop", "release", "leave", "done"}

(* What a scrape is asked for never changes.                               *)
Asked == options \in Workload

AdmittedScrapes == {s \in Scrapes : Admitted(s)}

(* The two that depend on each other: the count stays a natural number     *)
(* because it counts, and within the limit because an exchange succeeds    *)
(* only on the count that was compared with it.                            *)
AdmissionInv ==
  /\ Asked /\ TypeOK /\ InflightIsExact
  /\ \A s \in Scrapes : pc[s] = "swap" => seen[s] < MaxInflight

-----------------------------------------------------------------------------
LEMMA AskedFor ==
  ASSUME Asked
  PROVE  /\ IsFiniteSet(Scrapes)
         /\ Nothing \notin Scrapes
         /\ \A s \in Scrapes : o(s) \in Request
  BY ScrapeAssumption DEF Asked, Scrapes, o

(* A step of one scrape moves nobody else, and never what was asked.       *)
LEMMA StepFrame ==
  ASSUME TypeOK, NEW s \in Scrapes, Step(s)
  PROVE  /\ options' = options /\ agentKey' = agentKey
         /\ pc' = [pc EXCEPT ![s] = pc'[s]] /\ pc'[s] \in Stage
  <1> USE DEF TypeOK, Stage, Goto
  <1>1. CASE Load(s) \/ Swap(s) \/ TakeSlot(s) \/ Prepare(s) \/ Fetch(s)
    BY <1>1 DEF Load, Swap, Exchange, TakeSlot, Prepare, Fetch, shared
  <1>2. CASE Solve(s) \/ Render(s) \/ SkipRender(s) \/ Rerender(s)
    BY <1>2 DEF Solve, TrySolve, Render, Rendered, SkipRender, Rerender, Launch, shared
  <1>3. CASE Examine(s) \/ Reexamine(s)
    BY <1>3 DEF Examine, TrySolve, Reexamine, Accept, shared
  <1>4. CASE Shoot(s) \/ SkipShot(s) \/ Follow(s) \/ Label(s)
    BY <1>4 DEF Shoot, SkipShot, Follow, Launch, Label, shared
  <1>5. CASE WipeProfile(s) \/ Commit(s) \/ Sign(s) \/ Fails(s)
    BY <1>5 DEF WipeProfile, Commit, Sign, Fails, shared
  <1>6. CASE DropProfile(s) \/ DropSlot(s) \/ Leave(s)
    BY <1>6 DEF DropProfile, DropSlot, Leave
  <1>7. QED
    BY <1>1, <1>2, <1>3, <1>4, <1>5, <1>6 DEF Step

-----------------------------------------------------------------------------
(* The count.                                                              *)

LEMMA AdmittedSame ==
  ASSUME TypeOK, NEW s \in Scrapes, options' = options,
         pc' = [pc EXCEPT ![s] = pc'[s]], Admitted(s)' <=> Admitted(s)
  PROVE  AdmittedScrapes' = AdmittedScrapes
  BY DEF TypeOK, AdmittedScrapes, Admitted, Scrapes

LEMMA AdmittedEnter ==
  ASSUME Asked, TypeOK, NEW s \in Scrapes, options' = options,
         pc' = [pc EXCEPT ![s] = pc'[s]], Admitted(s)', ~Admitted(s)
  PROVE  Cardinality(AdmittedScrapes') = Cardinality(AdmittedScrapes) + 1
  <1>1. AdmittedScrapes' = AdmittedScrapes \cup {s} /\ s \notin AdmittedScrapes
    BY DEF TypeOK, AdmittedScrapes, Admitted, Scrapes
  <1>2. IsFiniteSet(AdmittedScrapes)
    BY AskedFor, FS_Subset DEF AdmittedScrapes
  <1>3. QED
    BY <1>1, <1>2, FS_AddElement

LEMMA AdmittedLeave ==
  ASSUME Asked, TypeOK, NEW s \in Scrapes, options' = options,
         pc' = [pc EXCEPT ![s] = pc'[s]], ~Admitted(s)', Admitted(s)
  PROVE  /\ Cardinality(AdmittedScrapes') = Cardinality(AdmittedScrapes) - 1
         /\ Cardinality(AdmittedScrapes') \in Nat
  <1>1. AdmittedScrapes' = AdmittedScrapes \ {s} /\ s \in AdmittedScrapes
    BY DEF TypeOK, AdmittedScrapes, Admitted, Scrapes
  <1>2. IsFiniteSet(AdmittedScrapes)
    BY AskedFor, FS_Subset DEF AdmittedScrapes
  <1>3. QED
    BY <1>1, <1>2, FS_RemoveElement, FS_CardinalityType, FS_Subset

(* Which steps move the count, and how far.                                *)
LEMMA CountStep ==
  ASSUME AdmissionInv, NEW s \in Scrapes, Step(s)
  PROVE  /\ InflightIsExact'
         /\ inflight' \in 0..MaxInflight
         /\ seen' \in [Scrapes -> 0..MaxInflight]
         /\ \A t \in Scrapes : pc'[t] = "swap" => seen'[t] < MaxInflight
  <1> DEFINE Exact == inflight = Cardinality(AdmittedScrapes)
  <1>1. /\ Asked /\ TypeOK /\ Exact
        /\ \A t \in Scrapes : pc[t] = "swap" => seen[t] < MaxInflight
    BY DEF AdmissionInv, InflightIsExact, AdmittedScrapes
  <1>2. /\ options' = options /\ pc' = [pc EXCEPT ![s] = pc'[s]]
        /\ pc \in [Scrapes -> Stage]
    BY <1>1, StepFrame DEF TypeOK, Stage
  <1>3. /\ inflight \in 0..MaxInflight /\ seen \in [Scrapes -> 0..MaxInflight]
        /\ MaxInflight \in Nat
    BY <1>1, ScrapeAssumption DEF TypeOK
  <1>4. SUFFICES /\ inflight' = Cardinality(AdmittedScrapes')
                 /\ inflight' \in 0..MaxInflight
                 /\ seen' \in [Scrapes -> 0..MaxInflight]
                 /\ \A t \in Scrapes : pc'[t] = "swap" => seen'[t] < MaxInflight
    BY <1>2 DEF InflightIsExact, AdmittedScrapes, Scrapes
  <1>5. CASE Load(s)
    <2>1. /\ pc[s] = "new" /\ pc'[s] = IF Full THEN "refused" ELSE "swap"
          /\ seen' = [seen EXCEPT ![s] = inflight] /\ inflight' = inflight
      BY <1>2, <1>5 DEF Load, Goto, shared
    <2>2. AdmittedScrapes' = AdmittedScrapes
      BY <2>1, <1>1, <1>2, AdmittedSame DEF Admitted
    <2>3. QED
      BY <2>1, <2>2, <1>1, <1>2, <1>3 DEF Full
  <1>6. CASE Swap(s) /\ inflight = seen[s]
    <2>1. /\ pc[s] = "swap" /\ pc'[s] = "slot"
          /\ seen' = seen /\ inflight' = inflight + 1
      BY <1>2, <1>6 DEF Swap, Exchange, Goto
    <2>2. Cardinality(AdmittedScrapes') = Cardinality(AdmittedScrapes) + 1
      BY <2>1, <1>1, <1>2, AdmittedEnter DEF Admitted
    <2>3. inflight < MaxInflight
      BY <2>1, <1>1, <1>6
    <2>4. inflight' = Cardinality(AdmittedScrapes') /\ inflight' \in 0..MaxInflight
      BY <2>1, <2>2, <2>3, <1>1, <1>3
    <2>5. \A t \in Scrapes : pc'[t] = "swap" => seen'[t] < MaxInflight
      BY <2>1, <1>1, <1>2
    <2>6. QED
      BY <2>1, <2>4, <2>5, <1>3
  <1>7. CASE Leave(s)
    <2>1. /\ pc[s] = "leave" /\ pc'[s] = "done"
          /\ seen' = seen /\ inflight' = inflight - 1
      BY <1>2, <1>7 DEF Leave, Goto
    <2>2. /\ Cardinality(AdmittedScrapes') = Cardinality(AdmittedScrapes) - 1
          /\ Cardinality(AdmittedScrapes') \in Nat
      BY <2>1, <1>1, <1>2, AdmittedLeave DEF Admitted
    <2>3. inflight' = Cardinality(AdmittedScrapes') /\ inflight' \in 0..MaxInflight
      BY <2>1, <2>2, <1>1, <1>3
    <2>4. \A t \in Scrapes : pc'[t] = "swap" => seen'[t] < MaxInflight
      BY <2>1, <1>1, <1>2
    <2>5. QED
      BY <2>1, <2>3, <2>4, <1>3
  <1>8. CASE ~Load(s) /\ ~(Swap(s) /\ inflight = seen[s]) /\ ~Leave(s)
    <2>1. seen' = seen /\ inflight' = inflight /\ pc'[s] # "swap"
          /\ (Admitted(s)' <=> Admitted(s))
      <3> USE <1>2 DEF Goto, Admitted, Stage
      <3>1. CASE Swap(s) \/ TakeSlot(s) \/ Prepare(s) \/ Fetch(s)
        BY <3>1, <1>8 DEF Swap, Exchange, TakeSlot, Prepare, Fetch, shared
      <3>2. CASE Solve(s) \/ Render(s) \/ SkipRender(s) \/ Rerender(s)
        BY <3>2 DEF Solve, TrySolve, Render, Rendered, SkipRender, Rerender, Launch, shared
      <3>3. CASE Examine(s) \/ Reexamine(s)
        BY <3>3 DEF Examine, TrySolve, Reexamine, Accept, shared
      <3>4. CASE Shoot(s) \/ SkipShot(s) \/ Follow(s) \/ Label(s)
        BY <3>4 DEF Shoot, SkipShot, Follow, Launch, Label, shared
      <3>5. CASE WipeProfile(s) \/ Commit(s) \/ Sign(s) \/ Fails(s)
        BY <3>5 DEF WipeProfile, Commit, Sign, Fails, shared
      <3>6. CASE DropProfile(s) \/ DropSlot(s)
        BY <3>6 DEF DropProfile, DropSlot
      <3>7. QED
        BY <3>1, <3>2, <3>3, <3>4, <3>5, <3>6, <1>8 DEF Step
    <2>2. AdmittedScrapes' = AdmittedScrapes
      BY <2>1, <1>1, <1>2, AdmittedSame
    <2>3. QED
      BY <2>1, <2>2, <1>1, <1>2, <1>3
  <1>9. QED
    BY <1>5, <1>6, <1>7, <1>8

-----------------------------------------------------------------------------
(* Types.                                                                  *)

ProcessTypes ==
  /\ slot \in Scrapes \cup {Nothing}
  /\ registry \subseteq Key /\ jar \in [Key -> SUBSET Scrapes] /\ last \in Key \cup {Nothing}
  /\ guard \in [Scrapes -> BOOLEAN]

ContentTypes ==
  /\ document \in [Scrapes -> Documents \cup {Nothing}]
  /\ dom \in [Scrapes -> Dom \cup {Nothing}]
  /\ token \in [Scrapes -> BOOLEAN] /\ used \in [Scrapes -> BOOLEAN]
  /\ solves \in [Scrapes -> Nat]
  /\ browsers \in [Scrapes -> SUBSET {"composed", "direct"}]
  /\ followed \in [Scrapes -> SUBSET Followed]

PagesLeft == left \in [Scrapes -> Nat] /\ \A s \in Scrapes : left[s] <= o(s).pages

SealTypes ==
  /\ path \in [Scrapes -> {"none", "direct", "chromium"}]
  /\ committed \in [Scrapes -> 1..MaxKeys \cup {Nothing}]
  /\ signer \in [Scrapes -> 1..MaxKeys \cup {Nothing}]
  /\ ok \in [Scrapes -> BOOLEAN]

LEMMA TypeParts ==
  TypeOK <=> /\ inflight \in 0..MaxInflight /\ seen \in [Scrapes -> 0..MaxInflight]
             /\ agentKey \in 1..MaxKeys /\ pc \in [Scrapes -> Stage]
             /\ ProcessTypes /\ ContentTypes /\ PagesLeft /\ SealTypes
  BY DEF TypeOK, Stage, ProcessTypes, ContentTypes, PagesLeft, SealTypes

LEMMA ProcessTypesStep ==
  ASSUME Asked, TypeOK, NEW s \in Scrapes, Step(s)
  PROVE  ProcessTypes'
  <1>1. options' = options /\ ProcessTypes /\ o(s) \in Request
    BY StepFrame, TypeParts, AskedFor
  <1>2. o(s).key \in Key /\ o(s).wipe \in BOOLEAN
    BY <1>1 DEF Request
  <1>3. SUFFICES /\ slot' \in Scrapes \cup {Nothing}
                 /\ registry' \subseteq Key /\ jar' \in [Key -> SUBSET Scrapes]
                 /\ last' \in Key \cup {Nothing}
                 /\ guard' \in [Scrapes -> BOOLEAN]
    BY <1>1 DEF ProcessTypes, Scrapes
  <1> USE <1>1, <1>2 DEF ProcessTypes
  <1>4. CASE Load(s) \/ Swap(s) \/ TakeSlot(s) \/ Fetch(s)
    BY <1>4 DEF Load, Swap, TakeSlot, Fetch, shared, profiles
  <1>5. CASE Prepare(s)
    BY <1>5 DEF Prepare, Acquire
  <1>6. CASE Solve(s) \/ SkipRender(s) \/ Examine(s) \/ Reexamine(s)
    BY <1>6 DEF Solve, SkipRender, Examine, Reexamine, shared
  <1>7. CASE Render(s) \/ Rerender(s) \/ Shoot(s) \/ Follow(s)
    BY <1>7 DEF Render, Rerender, Rendered, Shoot, Follow, Launch, shared
  <1>8. CASE SkipShot(s) \/ Label(s) \/ Commit(s) \/ Sign(s) \/ Fails(s)
    BY <1>8 DEF SkipShot, Label, Commit, Sign, Fails, shared
  <1>9. CASE WipeProfile(s) \/ DropProfile(s)
    BY <1>9 DEF WipeProfile, DropProfile, Wipe, Wiped, Unregistered, profiles
  <1>10. CASE DropSlot(s) \/ Leave(s)
    BY <1>10 DEF DropSlot, Leave, profiles
  <1>11. QED
    BY <1>4, <1>5, <1>6, <1>7, <1>8, <1>9, <1>10 DEF Step

LEMMA ContentTypesStep ==
  ASSUME TypeOK, NEW s \in Scrapes, Step(s)
  PROVE  ContentTypes'
  <1>1. options' = options /\ ContentTypes
    BY StepFrame, TypeParts
  <1>2. SUFFICES /\ document' \in [Scrapes -> Documents \cup {Nothing}]
                 /\ dom' \in [Scrapes -> Dom \cup {Nothing}]
                 /\ token' \in [Scrapes -> BOOLEAN] /\ used' \in [Scrapes -> BOOLEAN]
                 /\ solves' \in [Scrapes -> Nat]
                 /\ browsers' \in [Scrapes -> SUBSET {"composed", "direct"}]
                 /\ followed' \in [Scrapes -> SUBSET Followed]
    BY <1>1 DEF ContentTypes, Scrapes
  <1> USE <1>1 DEF ContentTypes
  <1>3. CASE Fetch(s)
    BY <1>3 DEF Fetch
  <1>4. CASE Solve(s)
    <2>1. /\ document' = document /\ dom' = dom /\ browsers' = browsers /\ used' = used
          /\ followed' = followed
          /\ token' = token \/ token' = [token EXCEPT ![s] = TRUE]
          /\ solves' = solves \/ solves' = [solves EXCEPT ![s] = @ + 1]
      BY <1>4 DEF Solve, TrySolve
    <2>2. solves' \in [Scrapes -> Nat]
      BY <2>1
    <2>3. token' \in [Scrapes -> BOOLEAN]
      BY <2>1
    <2>4. QED
      BY <2>1, <2>2, <2>3
  <1>12. CASE Examine(s)
    <2>1. /\ document' = document /\ dom' = dom /\ browsers' = browsers /\ followed' = followed
          /\ token' = token \/ token' = [token EXCEPT ![s] = TRUE]
          /\ used' = used \/ used' = [used EXCEPT ![s] = TRUE]
          /\ solves' = solves \/ solves' = [solves EXCEPT ![s] = @ + 1]
      BY <1>12 DEF Examine, TrySolve, Accept, content
    <2>2. solves' \in [Scrapes -> Nat]
      BY <2>1
    <2>3. token' \in [Scrapes -> BOOLEAN] /\ used' \in [Scrapes -> BOOLEAN]
      BY <2>1
    <2>4. QED
      BY <2>1, <2>2, <2>3
  <1>5. CASE Render(s) \/ Rerender(s)
    BY <1>5 DEF Render, Rerender, Rendered, Launch, Network
  <1>6. CASE Reexamine(s)
    BY <1>6 DEF Reexamine, Accept, content
  <1>7. CASE Shoot(s)
    <2>1. /\ document' = document /\ dom' = dom /\ token' = token /\ solves' = solves
          /\ followed' = followed /\ used' = [used EXCEPT ![s] = TRUE]
          /\ browsers' = [browsers EXCEPT ![s] = @ \cup {Network(s)}]
      BY <1>7 DEF Shoot, Launch
    <2>2. used' \in [Scrapes -> BOOLEAN]
      BY <2>1
    <2>3. browsers' \in [Scrapes -> SUBSET {"composed", "direct"}]
      BY <2>1 DEF Network
    <2>4. QED
      BY <2>1, <2>2, <2>3
  <1>13. CASE Follow(s)
    <2>1. /\ document' = document /\ dom' = dom /\ token' = token /\ solves' = solves
          /\ used' = used
          /\ browsers' = browsers \/ browsers' = [browsers EXCEPT ![s] = @ \cup {Network(s)}]
      BY <1>13 DEF Follow, Launch
    <2>2. browsers' \in [Scrapes -> SUBSET {"composed", "direct"}]
      BY <2>1 DEF Network
    <2>3. followed' \in [Scrapes -> SUBSET Followed]
      <3>1. PICK d \in Documents :
              followed' = [followed EXCEPT ![s] = @ \cup {[page |-> d, rendered |-> FollowedRenders(s, d)]}]
        BY <1>13 DEF Follow
      <3>2. FollowedRenders(s, d) \in BOOLEAN
        BY DEF FollowedRenders
      <3>3. [page |-> d, rendered |-> FollowedRenders(s, d)] \in Followed
        BY <3>2 DEF Followed
      <3>4. QED
        BY <3>1, <3>3
    <2>4. QED
      BY <2>1, <2>2, <2>3
  <1>8. CASE SkipShot(s)
    BY <1>8 DEF SkipShot
  <1>9. CASE \/ Load(s) \/ Swap(s) \/ TakeSlot(s) \/ Prepare(s) \/ SkipRender(s) \/ Label(s)
             \/ WipeProfile(s) \/ Commit(s) \/ Sign(s) \/ Fails(s)
             \/ DropProfile(s) \/ DropSlot(s) \/ Leave(s)
    BY <1>9 DEF Load, Swap, TakeSlot, Prepare, SkipRender, Label, WipeProfile, Commit, Sign,
                Fails, DropProfile, DropSlot, Leave, content
  <1>10. QED
    BY <1>3, <1>4, <1>5, <1>6, <1>7, <1>8, <1>9, <1>12, <1>13 DEF Step

LEMMA PagesLeftStep ==
  ASSUME Asked, TypeOK, NEW s \in Scrapes, Step(s)
  PROVE  PagesLeft'
  <1>1. options' = options /\ PagesLeft /\ \A t \in Scrapes : o(t).pages \in Nat \ {0}
    BY StepFrame, TypeParts, AskedFor DEF Request
  <1>2. SUFFICES left' \in [Scrapes -> Nat] /\ \A t \in Scrapes : left'[t] <= o(t).pages
    BY <1>1 DEF PagesLeft, Scrapes, o
  <1> USE <1>1 DEF PagesLeft
  <1>3. CASE Shoot(s) \/ SkipShot(s)
    BY <1>3 DEF Shoot, SkipShot
  <1>4. CASE Follow(s)
    BY <1>4 DEF Follow
  <1>5. CASE Solve(s) \/ Examine(s) \/ Reexamine(s) \/ Fetch(s) \/ Render(s) \/ Rerender(s)
    BY <1>5 DEF Solve, Examine, Reexamine, Accept, Fetch, Render, Rerender, Rendered, content
  <1>6. CASE \/ Load(s) \/ Swap(s) \/ TakeSlot(s) \/ Prepare(s) \/ SkipRender(s) \/ Label(s)
             \/ WipeProfile(s) \/ Commit(s) \/ Sign(s) \/ Fails(s)
             \/ DropProfile(s) \/ DropSlot(s) \/ Leave(s)
    BY <1>6 DEF Load, Swap, TakeSlot, Prepare, SkipRender, Label, WipeProfile, Commit, Sign,
                Fails, DropProfile, DropSlot, Leave, content
  <1>7. QED
    BY <1>3, <1>4, <1>5, <1>6 DEF Step

LEMMA SealTypesStep ==
  ASSUME TypeOK, NEW s \in Scrapes, Step(s)
  PROVE  SealTypes'
  <1>1. options' = options /\ SealTypes /\ agentKey \in 1..MaxKeys
    BY StepFrame, TypeParts
  <1>2. SUFFICES /\ path' \in [Scrapes -> {"none", "direct", "chromium"}]
                 /\ committed' \in [Scrapes -> 1..MaxKeys \cup {Nothing}]
                 /\ signer' \in [Scrapes -> 1..MaxKeys \cup {Nothing}]
                 /\ ok' \in [Scrapes -> BOOLEAN]
    BY <1>1 DEF SealTypes, Scrapes
  <1> USE <1>1 DEF SealTypes
  <1>3. CASE Label(s)
    BY <1>3 DEF Label
  <1>4. CASE WipeProfile(s)
    BY <1>4 DEF WipeProfile
  <1>5. CASE Commit(s)
    BY <1>5 DEF Commit
  <1>6. CASE Sign(s)
    BY <1>6 DEF Sign, SameKey
  <1>7. CASE \/ Load(s) \/ Swap(s) \/ TakeSlot(s) \/ Prepare(s) \/ Fetch(s)
             \/ Solve(s) \/ Render(s) \/ SkipRender(s) \/ Examine(s) \/ Rerender(s) \/ Reexamine(s)
             \/ Shoot(s) \/ SkipShot(s) \/ Follow(s) \/ Fails(s)
             \/ DropProfile(s) \/ DropSlot(s) \/ Leave(s)
    BY <1>7 DEF Load, Swap, TakeSlot, Prepare, Fetch, Solve, Render, SkipRender, Examine,
                Rerender, Rendered, Reexamine, Shoot, SkipShot, Follow, Fails, DropProfile,
                DropSlot, Leave, sealing
  <1>8. QED
    BY <1>3, <1>4, <1>5, <1>6, <1>7 DEF Step

-----------------------------------------------------------------------------
LEMMA AdmissionInit == Init => AdmissionInv
  <1> SUFFICES ASSUME Init PROVE AdmissionInv
    OBVIOUS
  <1>1. Asked /\ MaxInflight \in Nat \ {0} /\ MaxKeys \in Nat \ {0}
    BY ScrapeAssumption DEF Init, Asked
  <1>2. \A s \in Scrapes : o(s).pages \in Nat \ {0}
    BY <1>1, AskedFor DEF Request
  <1>3. ProcessTypes /\ ContentTypes /\ SealTypes
    BY <1>1 DEF Init, ProcessTypes, ContentTypes, SealTypes
  <1>4. PagesLeft
    BY <1>2 DEF Init, PagesLeft
  <1>5. /\ inflight \in 0..MaxInflight /\ seen \in [Scrapes -> 0..MaxInflight]
        /\ agentKey \in 1..MaxKeys /\ pc \in [Scrapes -> Stage]
    BY <1>1 DEF Init, Stage
  <1>6. AdmittedScrapes = {}
    BY DEF Init, AdmittedScrapes, Admitted
  <1>7. InflightIsExact
    BY <1>6, FS_EmptySet DEF Init, InflightIsExact, AdmittedScrapes
  <1>8. QED
    BY <1>1, <1>3, <1>4, <1>5, <1>7, TypeParts DEF AdmissionInv, Init

LEMMA AdmissionStep == AdmissionInv /\ [Next]_vars => AdmissionInv'
  <1> SUFFICES ASSUME AdmissionInv, [Next]_vars PROVE AdmissionInv'
    OBVIOUS
  <1>1. Asked /\ TypeOK
    BY DEF AdmissionInv
  <1>2. CASE \E s \in Scrapes : Step(s)
    <2>1. PICK s \in Scrapes : Step(s)
      BY <1>2
    <2>2. options' = options /\ agentKey' = agentKey /\ pc' \in [Scrapes -> Stage]
      BY <2>1, <1>1, StepFrame, TypeParts
    <2>3. Asked' /\ Scrapes' = Scrapes
      BY <2>2, <1>1 DEF Asked, Scrapes
    <2>4. /\ InflightIsExact'
          /\ inflight' \in 0..MaxInflight
          /\ seen' \in [Scrapes -> 0..MaxInflight]
          /\ \A t \in Scrapes : pc'[t] = "swap" => seen'[t] < MaxInflight
      BY <2>1, CountStep
    <2>5. ProcessTypes' /\ ContentTypes' /\ PagesLeft' /\ SealTypes'
      BY <2>1, <1>1, ProcessTypesStep, ContentTypesStep, PagesLeftStep, SealTypesStep
    <2>6. TypeOK'
      <3>1. agentKey' \in 1..MaxKeys
        BY <2>2, <1>1, TypeParts
      <3>2. pc' \in [Scrapes' -> Stage] /\ seen' \in [Scrapes' -> 0..MaxInflight]
        BY <2>2, <2>3, <2>4
      <3>3. QED
        BY <2>4, <2>5, <3>1, <3>2
           DEF TypeOK, Stage, ProcessTypes, ContentTypes, PagesLeft, SealTypes
    <2>7. QED
      BY <2>3, <2>4, <2>6 DEF AdmissionInv
  <1>3. CASE Rekey
    <2>1. /\ options' = options /\ inflight' = inflight /\ seen' = seen /\ pc' = pc
          /\ slot' = slot /\ registry' = registry /\ jar' = jar /\ last' = last /\ guard' = guard
          /\ document' = document /\ dom' = dom /\ token' = token /\ solves' = solves
          /\ left' = left /\ followed' = followed /\ used' = used /\ browsers' = browsers
          /\ path' = path /\ committed' = committed /\ signer' = signer /\ ok' = ok
      BY <1>3 DEF Rekey, profiles, content, sealing
    <2>2. agentKey' \in 1..MaxKeys
      BY <1>1, <1>3, ScrapeAssumption DEF Rekey, TypeOK
    <2>3. TypeOK'
      BY <2>1, <2>2, <1>1 DEF TypeOK, Scrapes, o
    <2>4. QED
      BY <2>1, <2>3 DEF AdmissionInv, Asked, InflightIsExact, Admitted, Scrapes
  <1>4. CASE UNCHANGED vars
    <2>1. /\ options' = options /\ inflight' = inflight /\ seen' = seen /\ pc' = pc
          /\ slot' = slot /\ registry' = registry /\ jar' = jar /\ last' = last /\ guard' = guard
          /\ agentKey' = agentKey
          /\ document' = document /\ dom' = dom /\ token' = token /\ solves' = solves
          /\ left' = left /\ followed' = followed /\ used' = used /\ browsers' = browsers
          /\ path' = path /\ committed' = committed /\ signer' = signer /\ ok' = ok
      BY <1>4 DEF vars, shared, content, sealing
    <2>2. TypeOK'
      BY <2>1, <1>1 DEF TypeOK, Scrapes, o
    <2>3. QED
      BY <2>1, <2>2 DEF AdmissionInv, Asked, InflightIsExact, Admitted, Scrapes
  <1>5. QED
    BY <1>2, <1>3, <1>4 DEF Next

LEMMA AdmissionInvariant == Spec => []AdmissionInv
  <1>1. QED
    BY AdmissionInit, AdmissionStep, PTL DEF Spec

(* Every reachable state has its types: the count of scrapes in flight is  *)
(* a natural number within the limit, no page count runs below zero, and   *)
(* whatever the stages find, it is what their readers expect               *)
(* (serve.rs:266-296, lib.rs:281-1142).                                    *)
THEOREM TypeCorrect == Spec => []TypeOK
  <1>1. AdmissionInv => TypeOK
    BY DEF AdmissionInv
  <1>2. QED
    BY <1>1, AdmissionInvariant, PTL

(* The server's count is the number of scrapes between admission and       *)
(* answer, for any number of requests that race for it and whatever fails  *)
(* in them (serve.rs:266-296).                                             *)
THEOREM InflightExact == Spec => []InflightIsExact
  <1>1. AdmissionInv => InflightIsExact
    BY DEF AdmissionInv
  <1>2. QED
    BY <1>1, AdmissionInvariant, PTL

-----------------------------------------------------------------------------
(* What a step of one scrape leaves alone in the others.                   *)

LEMMA OthersContent ==
  ASSUME TypeOK, NEW s \in Scrapes, Step(s), NEW t \in Scrapes, t # s
  PROVE  /\ document'[t] = document[t] /\ dom'[t] = dom[t] /\ token'[t] = token[t]
         /\ solves'[t] = solves[t] /\ browsers'[t] = browsers[t]
         /\ followed'[t] = followed[t]
  <1>1. ContentTypes
    BY TypeParts
  <1> USE <1>1 DEF ContentTypes
  <1>2. CASE Fetch(s) \/ Solve(s) \/ Examine(s) \/ Reexamine(s)
    BY <1>2 DEF Fetch, Solve, Examine, TrySolve, Reexamine, Accept, content
  <1>3. CASE Render(s) \/ Rerender(s) \/ Shoot(s) \/ Follow(s)
    BY <1>3 DEF Render, Rerender, Rendered, Shoot, Follow, Launch
  <1>4. CASE \/ Load(s) \/ Swap(s) \/ TakeSlot(s) \/ Prepare(s) \/ SkipRender(s) \/ SkipShot(s)
             \/ Label(s) \/ WipeProfile(s) \/ Commit(s) \/ Sign(s) \/ Fails(s)
             \/ DropProfile(s) \/ DropSlot(s) \/ Leave(s)
    BY <1>4 DEF Load, Swap, TakeSlot, Prepare, SkipRender, SkipShot, Label, WipeProfile, Commit,
                Sign, Fails, DropProfile, DropSlot, Leave, content
  <1>5. QED
    BY <1>2, <1>3, <1>4 DEF Step

LEMMA OthersStage ==
  ASSUME TypeOK, NEW s \in Scrapes, Step(s), NEW t \in Scrapes, t # s
  PROVE  pc'[t] = pc[t]
  BY StepFrame, TypeParts

-----------------------------------------------------------------------------
(* The residential slot.                                                   *)

Working == {"policy", "fetch", "solve", "render", "rendered", "rerender", "rerendered",
            "formats", "pages", "wipe", "probe", "sign"}
Entering == {"new", "swap", "refused", "slot"}

IsLive(s) == o(s).proxy = "live"

(* The slot belongs to a scrape on its way from taking it to releasing it; *)
(* a working live scrape has it, and one that ends without it never        *)
(* launched a browser.                                                     *)
SlotInv ==
  /\ slot # Nothing => pc[slot] \in Working \cup {"drop", "release"} /\ IsLive(slot)
  /\ \A s \in Scrapes :
       /\ IsLive(s) /\ pc[s] \in Working => slot = s
       /\ IsLive(s) /\ pc[s] \in {"drop", "release"} /\ browsers[s] # {} => slot = s
       /\ pc[s] \in Entering => browsers[s] = {}

LEMMA SlotMoves ==
  ASSUME TypeOK, NEW s \in Scrapes, Step(s), ~TakeSlot(s), ~DropSlot(s), ~Leave(s)
  PROVE  /\ slot' = slot
         /\ \/ pc[s] \in Working /\ pc'[s] \in Working \cup {"drop"}
            \/ /\ browsers' = browsers
               /\ \/ pc[s] \in Entering /\ pc'[s] \in Entering
                  \/ pc[s] = "drop" /\ pc'[s] = "release"
  <1>1. pc \in [Scrapes -> Stage]
    BY TypeParts
  <1> USE <1>1 DEF Goto, Working, Entering
  <1>2. CASE Load(s) \/ Swap(s)
    BY <1>2 DEF Load, Swap, Exchange, shared, content
  <1>3. CASE Prepare(s) \/ Fetch(s)
    BY <1>3 DEF Prepare, Fetch, shared
  <1>4. CASE Solve(s) \/ Examine(s) \/ Reexamine(s)
    BY <1>4 DEF Solve, Examine, TrySolve, Reexamine, shared
  <1>5. CASE Render(s) \/ SkipRender(s) \/ Rerender(s)
    BY <1>5 DEF Render, SkipRender, Rerender, Rendered, Launch, shared
  <1>6. CASE Shoot(s) \/ SkipShot(s) \/ Follow(s) \/ Label(s)
    BY <1>6 DEF Shoot, SkipShot, Follow, Launch, Label, shared
  <1>7. CASE WipeProfile(s) \/ Commit(s) \/ Sign(s) \/ Fails(s)
    BY <1>7 DEF WipeProfile, Commit, Sign, Fails, shared
  <1>8. CASE DropProfile(s)
    BY <1>8 DEF DropProfile, content
  <1>9. QED
    BY <1>2, <1>3, <1>4, <1>5, <1>6, <1>7, <1>8 DEF Step

LEMMA SlotStep ==
  ASSUME Asked, TypeOK, SlotInv, NEW s \in Scrapes, Step(s)
  PROVE  SlotInv'
  <1>1. /\ options' = options /\ pc \in [Scrapes -> Stage] /\ pc' = [pc EXCEPT ![s] = pc'[s]]
        /\ slot \in Scrapes \cup {Nothing} /\ Nothing \notin Scrapes
    BY StepFrame, TypeParts, AskedFor DEF ProcessTypes
  <1>2. \A t \in Scrapes \ {s} : pc'[t] = pc[t] /\ browsers'[t] = browsers[t]
    BY OthersContent, OthersStage
  <1>3. SUFFICES
          /\ slot' # Nothing => pc'[slot'] \in Working \cup {"drop", "release"} /\ IsLive(slot')
          /\ \A t \in Scrapes :
               /\ IsLive(t) /\ pc'[t] \in Working => slot' = t
               /\ IsLive(t) /\ pc'[t] \in {"drop", "release"} /\ browsers'[t] # {} => slot' = t
               /\ pc'[t] \in Entering => browsers'[t] = {}
    BY <1>1 DEF SlotInv, IsLive, Scrapes, o
  <1> USE DEF SlotInv
  <1>4. CASE TakeSlot(s)
    <2>1. /\ pc[s] = "slot" /\ browsers' = browsers /\ pc'[s] \in {"policy", "drop"}
          /\ pc'[s] = "policy" /\ IsLive(s) => slot = Nothing
          /\ slot' = IF IsLive(s) /\ slot = Nothing THEN s ELSE slot
          /\ slot' = s => pc'[s] = "policy" \/ slot = s
      BY <1>1, <1>4 DEF TakeSlot, Goto, content, IsLive
    <2>2. slot # s /\ browsers[s] = {}
      BY <2>1, <1>1 DEF Working, Entering
    <2>3. QED
      BY <2>1, <2>2, <1>1, <1>2 DEF Working, Entering
  <1>5. CASE DropSlot(s)
    <2>1. /\ pc[s] = "release" /\ pc'[s] = "leave" /\ browsers' = browsers
          /\ slot' = IF slot = s THEN Nothing ELSE slot
      BY <1>1, <1>5 DEF DropSlot, Frees, Goto, content
    <2>2. QED
      BY <2>1, <1>1, <1>2 DEF Working, Entering
  <1>6. CASE Leave(s)
    <2>1. pc[s] = "leave" /\ pc'[s] = "done" /\ browsers' = browsers /\ slot' = slot
      BY <1>1, <1>6 DEF Leave, Goto, content
    <2>2. QED
      BY <2>1, <1>1, <1>2 DEF Working, Entering
  <1>7. CASE ~TakeSlot(s) /\ ~DropSlot(s) /\ ~Leave(s)
    <2>1. /\ slot' = slot
          /\ \/ pc[s] \in Working /\ pc'[s] \in Working \cup {"drop"}
             \/ /\ browsers' = browsers
                /\ \/ pc[s] \in Entering /\ pc'[s] \in Entering
                   \/ pc[s] = "drop" /\ pc'[s] = "release"
      BY <1>7, SlotMoves
    <2>2. QED
      BY <2>1, <1>1, <1>2 DEF Working, Entering
  <1>8. QED
    BY <1>4, <1>5, <1>6, <1>7

-----------------------------------------------------------------------------
(* The sealing of a proof.                                                 *)

Final == {"drop", "release", "leave", "done"}

(* The key is committed to before the signature is asked for, a proof that *)
(* was to be signed without a quote never gets as far as its wipe, and     *)
(* only a scrape that is over has a proof.                                 *)
SealInv(s) ==
  /\ pc[s] \in {"wipe", "probe", "sign"} => o(s).seal # "sign"
  /\ pc[s] \in {"probe", "sign"} => o(s).seal = "attest"
  /\ pc[s] = "sign" => committed[s] # Nothing
  /\ ok[s] =>
       /\ pc[s] \in Final
       /\ o(s).seal # "sign"
       /\ o(s).seal = "attest" => signer[s] = committed[s] /\ signer[s] # Nothing

LEMMA OthersSeal ==
  ASSUME TypeOK, NEW s \in Scrapes, Step(s), NEW t \in Scrapes, t # s
  PROVE  ok'[t] = ok[t] /\ committed'[t] = committed[t] /\ signer'[t] = signer[t]
  <1>1. SealTypes
    BY TypeParts
  <1> USE <1>1 DEF SealTypes
  <1>2. CASE WipeProfile(s) \/ Commit(s) \/ Sign(s) \/ Label(s)
    BY <1>2 DEF WipeProfile, Commit, Sign, Label
  <1>3. CASE \/ Load(s) \/ Swap(s) \/ TakeSlot(s) \/ Prepare(s) \/ Fetch(s)
             \/ Solve(s) \/ Render(s) \/ SkipRender(s) \/ Examine(s) \/ Rerender(s) \/ Reexamine(s)
             \/ Shoot(s) \/ SkipShot(s) \/ Follow(s) \/ Fails(s)
             \/ DropProfile(s) \/ DropSlot(s) \/ Leave(s)
    BY <1>3 DEF Load, Swap, TakeSlot, Prepare, Fetch, Solve, Render, SkipRender, Examine,
                Rerender, Rendered, Reexamine, Shoot, SkipShot, Follow, Fails, DropProfile,
                DropSlot, Leave, sealing
  <1>4. QED
    BY <1>2, <1>3 DEF Step

LEMMA SealStep ==
  ASSUME Asked, TypeOK, \A t \in Scrapes : SealInv(t), NEW s \in Scrapes, Step(s)
  PROVE  \A t \in Scrapes : SealInv(t)'
  <1>1. /\ options' = options /\ pc \in [Scrapes -> Stage] /\ pc' = [pc EXCEPT ![s] = pc'[s]]
        /\ pc'[s] \in Stage /\ SealTypes /\ agentKey \in 1..MaxKeys /\ Nothing \notin 1..MaxKeys
    BY StepFrame, TypeParts, NothingAssumption
  <1>2. ASSUME NEW t \in Scrapes \ {s} PROVE SealInv(t)'
    <2>1. /\ pc'[t] = pc[t] /\ ok'[t] = ok[t] /\ committed'[t] = committed[t]
          /\ signer'[t] = signer[t]
      BY OthersSeal, OthersStage
    <2>2. SealInv(t)
      OBVIOUS
    <2>3. QED
      BY <1>1, <2>1, <2>2 DEF SealInv, o
  <1>3. SealInv(s)'
    <2> USE <1>1 DEF SealInv, o, Goto, Final, SealTypes
    <2>1. SealInv(s)
      OBVIOUS
    <2>2. CASE Label(s)
      BY <2>1, <2>2 DEF Label
    <2>3. CASE WipeProfile(s)
      BY <2>1, <2>3 DEF WipeProfile
    <2>4. CASE Commit(s)
      BY <2>1, <2>4 DEF Commit
    <2>5. CASE Sign(s)
      BY <2>1, <2>5 DEF Sign, SameKey
    <2>6. CASE \/ Load(s) \/ Swap(s) \/ TakeSlot(s) \/ Prepare(s) \/ Fetch(s)
               \/ Solve(s) \/ Render(s) \/ SkipRender(s) \/ Examine(s) \/ Rerender(s)
               \/ Reexamine(s) \/ Shoot(s) \/ SkipShot(s) \/ Follow(s) \/ Fails(s)
               \/ DropProfile(s) \/ DropSlot(s) \/ Leave(s)
      <3>1. ok' = ok /\ committed' = committed /\ signer' = signer
        BY <2>6 DEF Load, Swap, TakeSlot, Prepare, Fetch, Solve, Render, SkipRender, Examine,
                  Rerender, Rendered, Reexamine, Shoot, SkipShot, Follow, Fails, DropProfile,
                  DropSlot, Leave, sealing
      <3>2. pc'[s] \notin {"wipe", "probe", "sign"} /\ (pc[s] \in Final => pc'[s] \in Final)
        BY <2>6 DEF Load, Swap, Exchange, TakeSlot, Prepare, Fetch, Solve, TrySolve, Render,
                  SkipRender, Examine, Rerender, Reexamine, Shoot, SkipShot, Follow, Fails,
                  DropProfile, DropSlot, Leave
      <3>3. QED
        BY <2>1, <3>1, <3>2
    <2>7. QED
      BY <2>2, <2>3, <2>4, <2>5, <2>6 DEF Step
  <1>4. QED
    BY <1>1, <1>2, <1>3 DEF Scrapes

-----------------------------------------------------------------------------
(* Challenges.                                                             *)

(* What a hard scrape lets through.                                        *)
Accepted(s) == Hard(s) =>
  /\ dom[s] = Nothing => document[s].body # "challenge"
  /\ dom[s] # Nothing => ~dom[s].challenge \/ dom[s].unlocked
  /\ token[s] => dom[s] # Nothing /\ (dom[s].applied \/ dom[s].unlocked)

(* The solver is paid at one of two places, each of which leaves a token   *)
(* or ends the scrape, and the second is passed without a token only.      *)
ChallengeInv(s) ==
  /\ solves[s] <= 1
  /\ pc[s] \in Entering \cup {"policy", "fetch", "solve"} =>
       ~token[s] /\ solves[s] = 0 /\ dom[s] = Nothing
  /\ pc[s] = "render" =>
       /\ dom[s] = Nothing
       /\ token[s] <=> Challenged(s)
       /\ ~token[s] => solves[s] = 0
  /\ pc[s] = "rendered" => dom[s] \in Dom /\ (~token[s] => solves[s] = 0)
  /\ pc[s] = "rerender" => token[s]
  /\ pc[s] = "rerendered" => token[s] /\ dom[s] \in Dom
  /\ pc[s] \in {"formats", "pages", "wipe", "probe", "sign"} => Accepted(s)
  /\ ok[s] => pc[s] \in Final /\ Accepted(s)

LEMMA ChallengeStep ==
  ASSUME Asked, TypeOK, \A t \in Scrapes : ChallengeInv(t), NEW s \in Scrapes, Step(s)
  PROVE  \A t \in Scrapes : ChallengeInv(t)'
  <1>1. /\ options' = options /\ pc \in [Scrapes -> Stage] /\ pc' = [pc EXCEPT ![s] = pc'[s]]
        /\ ContentTypes /\ SealTypes /\ Nothing \notin Dom
    BY StepFrame, TypeParts, NothingAssumption
  <1>2. ASSUME NEW t \in Scrapes \ {s} PROVE ChallengeInv(t)'
    <2>1. /\ pc'[t] = pc[t] /\ ok'[t] = ok[t] /\ document'[t] = document[t]
          /\ dom'[t] = dom[t] /\ token'[t] = token[t] /\ solves'[t] = solves[t]
      BY OthersSeal, OthersStage, OthersContent
    <2>2. ChallengeInv(t)
      OBVIOUS
    <2>3. QED
      BY <1>1, <2>1, <2>2 DEF ChallengeInv, Accepted, Challenged, Hard, o
  <1>3. ChallengeInv(s)'
    <2>1. ChallengeInv(s)
      OBVIOUS
    <2> USE <1>1, <2>1 DEF ChallengeInv, Goto, Final, Entering
    <2>2. CASE Load(s) \/ Swap(s) \/ TakeSlot(s) \/ Prepare(s)
      BY <2>2 DEF Load, Swap, Exchange, TakeSlot, Prepare, content, sealing
    <2>3. CASE Fetch(s)
      BY <2>3 DEF Fetch, sealing
    <2>4. CASE Solve(s)
      BY <2>4 DEF Solve, TrySolve, sealing, ContentTypes, Challenged, Hard, o
    <2>5. CASE Render(s) \/ Rerender(s)
      BY <2>5 DEF Render, Rerender, Rendered, sealing, ContentTypes
    <2>6. CASE SkipRender(s)
      BY <2>6 DEF SkipRender, content, sealing, Accepted, Challenged, Hard, o
    <2>7. CASE Examine(s)
      BY <2>7 DEF Examine, TrySolve, Accept, Unsolved, Residual, content, sealing, ContentTypes,
                  Accepted, Hard, o
    <2>8. CASE Reexamine(s)
      BY <2>8 DEF Reexamine, Accept, Residual, content, sealing, Accepted, Hard, o
    <2>9. CASE Shoot(s) \/ SkipShot(s) \/ Follow(s)
      BY <2>9 DEF Shoot, SkipShot, Follow, sealing, Accepted, Hard, o
    <2>10. CASE Label(s) \/ Commit(s) \/ Fails(s)
      BY <2>10 DEF Label, Commit, Fails, content, sealing, Accepted, Hard, o
    <2>11. CASE WipeProfile(s) \/ Sign(s)
      BY <2>11 DEF WipeProfile, Sign, content, sealing, SealTypes, Accepted, Hard, o
    <2>12. CASE DropProfile(s) \/ DropSlot(s) \/ Leave(s)
      BY <2>12 DEF DropProfile, DropSlot, Leave, content, sealing, Accepted, Hard, o
    <2>13. QED
      BY <2>2, <2>3, <2>4, <2>5, <2>6, <2>7, <2>8, <2>9, <2>10, <2>11, <2>12 DEF Step
  <1>4. QED
    BY <1>1, <1>2, <1>3 DEF Scrapes

-----------------------------------------------------------------------------
(* Rendering and its claim.                                                *)

(* A hard scrape that passed the policy plans a browser, so what it        *)
(* launches is composed; a rendering is noted, and the note is claimed.    *)
RenderInv(s) ==
  /\ Hard(s) /\ pc[s] \in Working \ {"policy"} => WillUseBrowser(s) /\ o(s).render
  /\ Hard(s) /\ ok[s] => WillUseBrowser(s)
  /\ Hard(s) => \A f \in followed[s] : f.page.html /\ f.page.body # "blank" => f.rendered
  /\ WillUseBrowser(s) /\ o(s).proxy # "none" => browsers[s] \subseteq {"composed"}
  /\ dom[s] # Nothing => browsers[s] # {}
  /\ pc[s] \in Entering \cup {"policy", "fetch", "solve", "render"} => dom[s] = Nothing
  /\ pc[s] \in {"rendered", "rerender", "rerendered"} => dom[s] # Nothing
  /\ pc[s] \in {"formats", "pages"} /\ dom[s] # Nothing => used[s]
  /\ pc[s] \in {"wipe", "probe", "sign"} \/ ok[s] => (dom[s] # Nothing => path[s] = "chromium")
  /\ pc[s] \in {"formats", "pages", "wipe", "probe", "sign"} \/ ok[s] =>
       (Hard(s) /\ document[s].html /\ document[s].body # "blank" => dom[s] # Nothing)
  /\ ok[s] => pc[s] \in Final

LEMMA OthersClaim ==
  ASSUME TypeOK, NEW s \in Scrapes, Step(s), NEW t \in Scrapes, t # s
  PROVE  used'[t] = used[t] /\ path'[t] = path[t]
  <1>1. ContentTypes /\ SealTypes
    BY TypeParts
  <1> USE <1>1 DEF ContentTypes, SealTypes
  <1>2. CASE Examine(s) \/ Reexamine(s) \/ Shoot(s) \/ Label(s)
    BY <1>2 DEF Examine, TrySolve, Reexamine, Accept, Shoot, Label, content, sealing
  <1>3. CASE \/ Load(s) \/ Swap(s) \/ TakeSlot(s) \/ Prepare(s) \/ Fetch(s)
             \/ Solve(s) \/ Render(s) \/ SkipRender(s) \/ Rerender(s)
             \/ SkipShot(s) \/ Follow(s) \/ WipeProfile(s) \/ Commit(s) \/ Sign(s) \/ Fails(s)
             \/ DropProfile(s) \/ DropSlot(s) \/ Leave(s)
    BY <1>3 DEF Load, Swap, TakeSlot, Prepare, Fetch, Solve, TrySolve, Render, SkipRender,
                Rerender, Rendered, SkipShot, Follow, WipeProfile, Commit, Sign, Fails,
                DropProfile, DropSlot, Leave, content, sealing
  <1>4. QED
    BY <1>2, <1>3 DEF Step

LEMMA RenderStep ==
  ASSUME Asked, TypeOK, \A t \in Scrapes : RenderInv(t), NEW s \in Scrapes, Step(s)
  PROVE  \A t \in Scrapes : RenderInv(t)'
  <1>1. /\ options' = options /\ pc \in [Scrapes -> Stage] /\ pc' = [pc EXCEPT ![s] = pc'[s]]
        /\ ContentTypes /\ SealTypes /\ Nothing \notin Dom
    BY StepFrame, TypeParts, NothingAssumption
  <1>2. ASSUME NEW t \in Scrapes \ {s} PROVE RenderInv(t)'
    <2>1. /\ pc'[t] = pc[t] /\ ok'[t] = ok[t] /\ document'[t] = document[t]
          /\ dom'[t] = dom[t] /\ browsers'[t] = browsers[t] /\ followed'[t] = followed[t]
          /\ used'[t] = used[t] /\ path'[t] = path[t]
      BY OthersSeal, OthersStage, OthersContent, OthersClaim
    <2>2. RenderInv(t)
      OBVIOUS
    <2>3. QED
      BY <1>1, <2>1, <2>2 DEF RenderInv, WillUseBrowser, Hard, o
  <1>3. RenderInv(s)'
    <2>1. RenderInv(s)
      OBVIOUS
    <2> USE <1>1, <2>1 DEF RenderInv, Goto, Final, Entering, Working, Hard, WillUseBrowser, o
    <2>2. CASE Load(s) \/ Swap(s) \/ TakeSlot(s)
      BY <2>2 DEF Load, Swap, Exchange, TakeSlot, content, sealing
    <2>3. CASE Prepare(s)
      BY <2>3, AskedFor DEF Prepare, Refused, Request, content, sealing
    <2>4. CASE Fetch(s) \/ Solve(s)
      BY <2>4 DEF Fetch, Solve, TrySolve, sealing
    <2>5. CASE Render(s) \/ Rerender(s)
      <3>1. /\ pc[s] \in {"render", "rerender"} /\ pc'[s] \in {"rendered", "rerendered"}
            /\ ok' = ok /\ followed' = followed
        BY <2>5 DEF Render, Rerender, Rendered, sealing
      <3>2. dom'[s] # Nothing
        BY <2>5 DEF Render, Rerender, Rendered, ContentTypes
      <3>3. browsers'[s] = browsers[s] \cup {Network(s)}
        BY <2>5 DEF Render, Rerender, Rendered, Launch, ContentTypes
      <3>4. WillUseBrowser(s) /\ o(s).proxy # "none" => Network(s) = "composed"
        BY DEF Network
      <3>5. QED
        BY <3>1, <3>2, <3>3, <3>4
    <2>6. CASE SkipRender(s)
      BY <2>6 DEF SkipRender, ShouldRender, content, sealing
    <2>7. CASE Examine(s) \/ Reexamine(s)
      BY <2>7 DEF Examine, TrySolve, Reexamine, Accept, content, sealing, ContentTypes
    <2>8. CASE Shoot(s)
      BY <2>8 DEF Shoot, Launch, Network, sealing, ContentTypes
    <2>14. CASE Follow(s)
      <3>1. /\ pc[s] = "pages" /\ pc'[s] = "pages" /\ ok' = ok
            /\ dom' = dom /\ used' = used /\ document' = document /\ path' = path
            /\ browsers'[s] = browsers[s] \/ browsers'[s] = browsers[s] \cup {Network(s)}
        BY <2>14 DEF Follow, Launch, sealing, ContentTypes
      <3>2. WillUseBrowser(s) /\ o(s).proxy # "none" => Network(s) = "composed"
        BY DEF Network
      <3>3. Hard(s) => \A f \in followed'[s] : f.page.html /\ f.page.body # "blank" => f.rendered
        <4>1. PICK d \in Documents :
                followed' = [followed EXCEPT ![s] = @ \cup {[page |-> d, rendered |-> FollowedRenders(s, d)]}]
          BY <2>14 DEF Follow
        <4>2. followed'[s] = followed[s] \cup {[page |-> d, rendered |-> FollowedRenders(s, d)]}
          BY <4>1 DEF ContentTypes
        <4>3. Hard(s) => o(s).render
          BY <3>1
        <4>4. Hard(s) => \A f \in followed[s] : f.page.html /\ f.page.body # "blank" => f.rendered
          BY <2>1
        <4>5. ASSUME Hard(s), NEW f \in followed'[s], f.page.html, f.page.body # "blank"
              PROVE  f.rendered
          <5>1. CASE f \in followed[s]
            BY <4>4, <4>5, <5>1
          <5>2. CASE f = [page |-> d, rendered |-> FollowedRenders(s, d)]
            <6>1. f.page = d /\ f.rendered = FollowedRenders(s, d)
              BY <5>2
            <6>2. QED
              BY <4>3, <4>5, <6>1 DEF FollowedRenders
          <5>3. QED
            BY <4>2, <4>5, <5>1, <5>2
        <4>6. QED
          BY <4>5
      <3>4. QED
        BY <3>1, <3>2, <3>3
    <2>9. CASE SkipShot(s) \/ Commit(s) \/ Fails(s)
      BY <2>9 DEF SkipShot, Commit, Fails, content, sealing
    <2>10. CASE Label(s)
      BY <2>10 DEF Label, ClaimsChromium, content, SealTypes
    <2>11. CASE WipeProfile(s) \/ Sign(s)
      BY <2>11 DEF WipeProfile, Sign, content, sealing, SealTypes
    <2>12. CASE DropProfile(s) \/ DropSlot(s) \/ Leave(s)
      BY <2>12 DEF DropProfile, DropSlot, Leave, content, sealing
    <2>13. QED
      BY <2>2, <2>3, <2>4, <2>5, <2>6, <2>7, <2>8, <2>9, <2>10, <2>11, <2>12, <2>14 DEF Step
  <1>4. QED
    BY <1>1, <1>2, <1>3 DEF Scrapes

-----------------------------------------------------------------------------
(* Profiles.                                                               *)

(* A scrape that shares its key with nobody keeps its profile registered   *)
(* while its guard is armed, and has one armed whenever it launches a      *)
(* browser into a profile it is to wipe.                                   *)
JarInv(s) == Alone(s) =>
  /\ guard[s] => WillUseBrowser(s) /\ o(s).key \in registry
  /\ o(s).wipe /\ WillUseBrowser(s) /\ pc[s] \in Working \ {"policy", "probe", "sign"} => guard[s]
  /\ o(s).wipe /\ s \in jar[o(s).key] => guard[s]
  /\ guard[s] /\ browsers[s] # {} => s \in jar[o(s).key]
  /\ pc[s] \in {"release", "leave", "done"} => ~guard[s]
  /\ pc[s] \in Entering \cup {"policy"} => ~guard[s] /\ browsers[s] = {}

LEMMA OthersProfile ==
  ASSUME Asked, TypeOK, NEW s \in Scrapes, Step(s),
         NEW t \in Scrapes, t # s, o(s).key \notin Roots \cup {All, o(t).key}
  PROVE  /\ guard'[t] = guard[t] /\ jar'[o(t).key] = jar[o(t).key]
         /\ o(t).key \in registry' <=> o(t).key \in registry
  <1>1. ProcessTypes /\ o(s).key \in Key /\ o(t).key \in Key
    BY TypeParts, AskedFor DEF Request
  <1> USE <1>1 DEF ProcessTypes
  <1>2. CASE Prepare(s)
    BY <1>2 DEF Prepare, Acquire
  <1>3. CASE Render(s) \/ Rerender(s) \/ Shoot(s) \/ Follow(s)
    BY <1>3 DEF Render, Rerender, Rendered, Shoot, Follow, Launch, shared
  <1>4. CASE WipeProfile(s) \/ DropProfile(s)
    <2>1. Unregistered(s) = registry \cap {o(s).key} /\ o(t).key \notin Emptied(s)
      BY DEF Unregistered, Emptied, Wiped
    <2>2. QED
      BY <1>4, <2>1 DEF WipeProfile, DropProfile, Wipe, profiles
  <1>5. CASE \/ Load(s) \/ Swap(s) \/ TakeSlot(s) \/ Fetch(s) \/ Solve(s) \/ SkipRender(s)
             \/ Examine(s) \/ Reexamine(s) \/ SkipShot(s) \/ Label(s) \/ Commit(s) \/ Sign(s)
             \/ Fails(s) \/ DropSlot(s) \/ Leave(s)
    BY <1>5 DEF Load, Swap, TakeSlot, Fetch, Solve, SkipRender, Examine, Reexamine, SkipShot,
                Label, Commit, Sign, Fails, DropSlot, Leave, shared, profiles
  <1>6. QED
    BY <1>2, <1>3, <1>4, <1>5 DEF Step

LEMMA JarStep ==
  ASSUME Asked, TypeOK, \A t \in Scrapes : JarInv(t), NEW s \in Scrapes, Step(s)
  PROVE  \A t \in Scrapes : JarInv(t)'
  <1>1. /\ options' = options /\ pc \in [Scrapes -> Stage] /\ pc' = [pc EXCEPT ![s] = pc'[s]]
        /\ ProcessTypes /\ ContentTypes /\ o(s).key \in Key /\ o(s).wipe \in BOOLEAN
    BY StepFrame, TypeParts, AskedFor DEF Request
  <1>2. ASSUME NEW t \in Scrapes \ {s} PROVE JarInv(t)'
    <2>1. pc'[t] = pc[t] /\ browsers'[t] = browsers[t]
      BY OthersStage, OthersContent
    <2>2. CASE Alone(t)
      <3>1. o(s).key \notin Roots \cup {All, o(t).key}
        BY <2>2 DEF Alone
      <3>2. /\ guard'[t] = guard[t] /\ jar'[o(t).key] = jar[o(t).key]
            /\ o(t).key \in registry' <=> o(t).key \in registry
        BY <3>1, OthersProfile
      <3>3. JarInv(t)
        OBVIOUS
      <3>4. QED
        BY <1>1, <2>1, <2>2, <3>2, <3>3 DEF JarInv, WillUseBrowser, Hard, o
    <2>3. CASE ~Alone(t)
      BY <1>1, <2>3 DEF JarInv, Alone, Scrapes, o
    <2>4. QED
      BY <2>2, <2>3
  <1>3. JarInv(s)'
    <2>1. JarInv(s) /\ (Alone(s)' <=> Alone(s))
      BY <1>1 DEF Alone, Scrapes, o
    <2> USE <1>1, <2>1 DEF JarInv, Goto, Entering, Working, o, WillUseBrowser, Hard
    <2>2. CASE Load(s) \/ Swap(s) \/ TakeSlot(s)
      BY <2>2 DEF Load, Swap, Exchange, TakeSlot, shared, content, profiles
    <2>3. CASE Prepare(s)
      BY <2>3 DEF Prepare, Acquire, content, ProcessTypes
    <2>4. CASE Fetch(s) \/ Solve(s) \/ SkipRender(s)
      BY <2>4 DEF Fetch, Solve, TrySolve, SkipRender, shared, content
    <2>5. CASE Render(s) \/ Rerender(s) \/ Shoot(s) \/ Follow(s)
      <3>1. /\ pc[s] \in {"render", "rerender", "formats", "pages"} /\ pc'[s] \in Working \ {"policy", "probe", "sign"}
            /\ guard' = guard /\ registry' = registry
        BY <2>5 DEF Render, Rerender, Rendered, Shoot, Follow, Launch, shared
      <3>2. \/ Launch(s)
            \/ browsers' = browsers /\ jar' = jar
        BY <2>5 DEF Render, Rerender, Rendered, Shoot, Follow, shared
      <3>3. s \in jar'[o(s).key] => s \in jar[o(s).key] \/ WillUseBrowser(s)
        BY <3>2 DEF Launch, ProcessTypes
      <3>4. browsers'[s] # {} => browsers[s] # {} \/ Launch(s)
        BY <3>2
      <3>5. /\ Launch(s) /\ WillUseBrowser(s) => s \in jar'[o(s).key]
            /\ s \in jar[o(s).key] => s \in jar'[o(s).key]
        BY <3>2 DEF Launch, ProcessTypes
      <3>6. QED
        BY <3>1, <3>3, <3>4, <3>5
    <2>6. CASE Examine(s) \/ Reexamine(s) \/ SkipShot(s) \/ Label(s)
      BY <2>6 DEF Examine, TrySolve, Reexamine, Accept, SkipShot, Label, shared, content
    <2>7. CASE WipeProfile(s) \/ DropProfile(s)
      <3>1. /\ pc[s] \in {"wipe", "drop"} /\ pc'[s] \in {"probe", "drop", "release"}
            /\ guard' = [guard EXCEPT ![s] = FALSE] /\ browsers' = browsers
            /\ ~guard[s] => registry' = registry /\ jar' = jar
        BY <2>7 DEF WipeProfile, DropProfile, Wipe, profiles, content
      <3>2. Alone(s) /\ guard[s] => s \notin jar'[o(s).key]
        <4>1. Alone(s) => (o(s).key \in registry => o(s).key \in Emptied(s))
          BY DEF Unregistered, Emptied, Wiped
        <4>2. QED
          BY <2>7, <4>1 DEF WipeProfile, DropProfile, Wipe, ProcessTypes
      <3>3. s \in jar'[o(s).key] /\ Alone(s) => ~guard[s] /\ s \in jar[o(s).key]
        BY <3>1, <3>2
      <3>4. o(s).wipe /\ Alone(s) => s \notin jar'[o(s).key]
        BY <3>3
      <3>5. guard'[s] = FALSE /\ pc'[s] \in {"probe", "drop", "release"}
        BY <3>1 DEF ProcessTypes
      <3>6. QED
        BY <3>4, <3>5
    <2>8. CASE Commit(s) \/ Sign(s) \/ Fails(s)
      BY <2>8 DEF Commit, Sign, Fails, shared, content
    <2>9. CASE DropSlot(s) \/ Leave(s)
      BY <2>9 DEF DropSlot, Leave, profiles, content
    <2>10. QED
      BY <2>2, <2>3, <2>4, <2>5, <2>6, <2>7, <2>8, <2>9 DEF Step
  <1>4. QED
    BY <1>1, <1>2, <1>3 DEF Scrapes

-----------------------------------------------------------------------------
(* The inductive invariant.                                                *)

LocalInv(s) == SealInv(s) /\ ChallengeInv(s) /\ RenderInv(s) /\ JarInv(s)

IInv == AdmissionInv /\ SlotInv /\ \A s \in Scrapes : LocalInv(s)

LEMMA InvInit == Init => IInv
  <1> SUFFICES ASSUME Init PROVE IInv
    OBVIOUS
  <1>1. AdmissionInv
    BY AdmissionInit
  <1>2. SlotInv
    BY DEF Init, SlotInv, Working
  <1>3. ASSUME NEW s \in Scrapes PROVE LocalInv(s)
    <2>1. SealInv(s)
      BY DEF Init, SealInv
    <2>2. ChallengeInv(s)
      BY DEF Init, ChallengeInv
    <2>3. RenderInv(s)
      BY DEF Init, RenderInv, Working
    <2>4. JarInv(s)
      <3>1. o(s).key \in Key
        BY <1>1, AskedFor DEF AdmissionInv, Request
      <3>2. QED
        BY <3>1 DEF Init, JarInv, Working
    <2>5. QED
      BY <2>1, <2>2, <2>3, <2>4 DEF LocalInv
  <1>4. QED
    BY <1>1, <1>2, <1>3 DEF IInv

(* The guest agent's key, and a step of nobody, change nothing it reads.   *)
LEMMA InvUnchanged ==
  ASSUME IInv, AdmissionInv',
         options' = options, pc' = pc, slot' = slot, registry' = registry, jar' = jar,
         guard' = guard, document' = document, dom' = dom, token' = token, solves' = solves,
         used' = used, browsers' = browsers, followed' = followed, path' = path, committed' = committed,
         signer' = signer, ok' = ok
  PROVE  IInv'
  <1>1. SlotInv'
    BY DEF IInv, SlotInv, IsLive, Scrapes, o
  <1>2. ASSUME NEW s \in Scrapes PROVE LocalInv(s)'
    <2>1. LocalInv(s)
      BY DEF IInv
    <2>2. SealInv(s)'
      BY <2>1 DEF LocalInv, SealInv, o
    <2>3. ChallengeInv(s)'
      BY <2>1 DEF LocalInv, ChallengeInv, Accepted, Challenged, Hard, o
    <2>4. RenderInv(s)'
      BY <2>1 DEF LocalInv, RenderInv, WillUseBrowser, Hard, o
    <2>5. JarInv(s)'
      BY <2>1 DEF LocalInv, JarInv, Alone, WillUseBrowser, Hard, Scrapes, o
    <2>6. QED
      BY <2>2, <2>3, <2>4, <2>5 DEF LocalInv
  <1>3. QED
    BY <1>1, <1>2 DEF IInv, Scrapes

LEMMA InvStep == IInv /\ [Next]_vars => IInv'
  <1> SUFFICES ASSUME IInv, [Next]_vars PROVE IInv'
    OBVIOUS
  <1>1. AdmissionInv' /\ Asked /\ TypeOK /\ SlotInv
    BY AdmissionStep DEF IInv, AdmissionInv
  <1>2. CASE \E s \in Scrapes : Step(s)
    <2>1. PICK s \in Scrapes : Step(s)
      BY <1>2
    <2>2. options' = options
      BY <2>1, <1>1, StepFrame
    <2>3. SlotInv'
      BY <2>1, <1>1, SlotStep
    <2>4. \A t \in Scrapes : SealInv(t) /\ ChallengeInv(t) /\ RenderInv(t) /\ JarInv(t)
      BY DEF IInv, LocalInv
    <2>5. \A t \in Scrapes : SealInv(t)'
      BY <2>1, <2>4, <1>1, SealStep
    <2>6. \A t \in Scrapes : ChallengeInv(t)'
      BY <2>1, <2>4, <1>1, ChallengeStep
    <2>7. \A t \in Scrapes : RenderInv(t)'
      BY <2>1, <2>4, <1>1, RenderStep
    <2>8. \A t \in Scrapes : JarInv(t)'
      BY <2>1, <2>4, <1>1, JarStep
    <2>9. QED
      BY <1>1, <2>2, <2>3, <2>5, <2>6, <2>7, <2>8 DEF IInv, LocalInv, Scrapes
  <1>3. CASE Rekey
    BY <1>1, <1>3, InvUnchanged DEF Rekey, profiles, content, sealing
  <1>4. CASE UNCHANGED vars
    BY <1>1, <1>4, InvUnchanged DEF vars, shared, content, sealing
  <1>5. QED
    BY <1>2, <1>3, <1>4 DEF Next

LEMMA Invariant == Spec => []IInv
  <1>1. QED
    BY InvInit, InvStep, PTL DEF Spec

-----------------------------------------------------------------------------
(* At most one scrape over a live residential proxy is between taking the  *)
(* slot and releasing it, and one that was refused the slot never reaches  *)
(* the network nor frees it (proxy.rs:55-69).                              *)
THEOREM ResidentialExclusion == Spec => []OneResidentialDial
  <1>1. IInv => OneResidentialDial
    <2> SUFFICES ASSUME IInv PROVE OneResidentialDial
      OBVIOUS
    <2>1. SlotInv /\ pc \in [Scrapes -> Stage]
      BY TypeParts DEF IInv, AdmissionInv
    <2>2. QED
      BY <2>1 DEF SlotInv, OneResidentialDial, Dialling, Admitted, IsLive, Working, Entering, Stage
  <1>2. QED
    BY <1>1, Invariant, PTL

(* No hard scrape proves a challenge as the content of the document it was *)
(* asked for, on any way through the served body, the first and the second *)
(* rendering, and none pays the solver twice (lib.rs:612-820).             *)
THEOREM ChallengesDoNotPass == Spec => []ChallengeNeverPasses
  <1>1. IInv => ChallengeNeverPasses
    BY DEF IInv, LocalInv, ChallengeInv, Accepted, ChallengeNeverPasses
  <1>2. QED
    BY <1>1, Invariant, PTL

(* A proof of a hard scrape of an HTML page that has a body comes from     *)
(* Chromium over its proxy, whatever its formats and options, so does any  *)
(* such page it followed, and a rendered document is always claimed as     *)
(* such (lib.rs:598-600, 993-1007, 1208).                                  *)
THEOREM HardScrapesAreRendered == Spec => []HardIsRendered
  <1>1. IInv => HardIsRendered
    <2> SUFFICES ASSUME IInv, NEW s \in Scrapes, ok[s]
                 PROVE  /\ Hard(s) /\ document[s].html /\ document[s].body # "blank" =>
                             /\ dom[s] # Nothing
                             /\ o(s).proxy # "none" => browsers[s] = {"composed"}
                        /\ Hard(s) => \A f \in followed[s] :
                             f.page.html /\ f.page.body # "blank" => f.rendered
                        /\ dom[s] # Nothing => path[s] = "chromium"
      BY DEF HardIsRendered
    <2>1. RenderInv(s)
      BY DEF IInv, LocalInv
    <2>2. QED
      BY <2>1 DEF RenderInv
  <1>2. QED
    BY <1>1, Invariant, PTL

(* Scrapes with different keys never lose or inherit each other's cookies, *)
(* however they overlap and end, unless one has a key whose wipe takes     *)
(* every profile (stealth.rs:102-104, 165-174).                            *)
THEOREM ProfilesAreSeparate == Spec => []JarIsOnesOwn
  <1>1. IInv => JarIsOnesOwn
    <2> SUFFICES ASSUME IInv, NEW s \in Scrapes, Alone(s)
                 PROVE  /\ guard[s] /\ browsers[s] # {} => s \in jar[o(s).key]
                        /\ pc[s] = "done" /\ o(s).wipe => s \notin jar[o(s).key]
      BY DEF JarIsOnesOwn
    <2>1. JarInv(s)
      BY DEF IInv, LocalInv
    <2>2. QED
      BY <2>1 DEF JarInv
  <1>2. QED
    BY <1>1, Invariant, PTL

(* The key that signs an attested proof is the one its quote commits to,   *)
(* at whatever moments the guest agent changes it (lib.rs:1073-1142).      *)
THEOREM SignatureIsCommitted == Spec => []SignedByCommittedKey
  <1>1. IInv => SignedByCommittedKey
    BY DEF IInv, LocalInv, SealInv, SignedByCommittedKey
  <1>2. QED
    BY <1>1, Invariant, PTL

(* The count in flight is exact and the residential slot exclusive, for    *)
(* any number of requests (serve.rs:266-296, proxy.rs:42-69).              *)
THEOREM LimitsAreHeld == Spec => []LimitsHold
  <1>1. InflightIsExact /\ OneResidentialDial => LimitsHold
    BY DEF LimitsHold
  <1>2. QED
    BY InflightExact, ResidentialExclusion, <1>1, PTL

(* The document a hard scrape proves is no challenge, and it and the pages *)
(* followed were rendered by Chromium over its proxy (lib.rs:586-820,      *)
(* 993-1007, 1208).                                                        *)
THEOREM HardScrapesHonest == Spec => []HardScrapesAreHonest
  <1>1. ChallengeNeverPasses /\ HardIsRendered => HardScrapesAreHonest
    BY DEF HardScrapesAreHonest
  <1>2. QED
    BY ChallengesDoNotPass, HardScrapesAreRendered, <1>1, PTL

-----------------------------------------------------------------------------
(* The solver that Scrape takes as one step: a solve of its own, for any   *)
(* pages, any configuration, and any budget, poll interval and deadline.   *)
(* A task is paid for on the way to a token, and once there is one nothing *)
(* but its page is left to do.                                             *)
PaidInv ==
  /\ tasks \in {0, 1}
  /\ at \in {"resolve", "served"} => tasks = 0 /\ paid = "none"
  /\ at = "creating" => tasks = 0 /\ paid = "none"
  /\ at \in {"poll", "napping", "polling"} => tasks = 1 /\ paid = "none"
  /\ at \in {"render", "judge"} => paid \in {"none", "token"} /\ (tasks = 1 <=> paid = "token")

(* What is solved looks like a challenge, and what is not does not, until  *)
(* a browser has had it.                                                   *)
PageInv ==
  /\ at # "end" => outcome = "none"
  /\ Solving => Looks(page)
  /\ at = "render" => (Looks(page) <=> paid = "token")

(* What is left of the budget at the start of an exchange or a nap.        *)
BudgetInv ==
  /\ Solving => spent - asked <= Budget
  /\ at \in {"creating", "napping", "polling"} => since <= asked /\ asked <= since + Budget
  /\ at = "poll" => spent <= since + 2 * Budget
  /\ at = "napping" => spent <= since + Budget
  /\ outcome = "solver_timeout" => tasks = 1 /\ spent - since >= Budget

SolveInv == SolverTypeOK /\ PaidInv /\ PageInv /\ BudgetInv /\ SolveOrBlock

-----------------------------------------------------------------------------
(* A solve begins with nothing paid and no clock started.                  *)
LEMMA SolveInit == SolverInit => SolveInv
  <1> SUFFICES ASSUME SolverInit PROVE SolveInv
    OBVIOUS
  <1> USE DEF SolverInit
  <1>1. SolverTypeOK
    <2>1. config \in Config /\ page \in Page
      OBVIOUS
    <2>2. since \in 0 .. spent /\ asked \in 0 .. spent
      OBVIOUS
    <2>3. QED
      BY <2>1, <2>2 DEF SolverTypeOK, Kinds
  <1>2. PaidInv /\ PageInv /\ SolveOrBlock
    BY DEF PaidInv, PageInv, SolveOrBlock, Solving
  <1>3. BudgetInv
    BY DEF BudgetInv, Solving
  <1>4. QED
    BY <1>1, <1>2, <1>3 DEF SolveInv

(* The clock moves in an exchange or a nap, and the ticks already counted  *)
(* stay counted.                                                           *)
LEMMA TickInv ==
  ASSUME SolveInv, Tick
  PROVE  SolveInv'
  <1>1. /\ spent \in Nat /\ since \in 0 .. spent /\ asked \in 0 .. spent /\ spent' = spent + 1
        /\ Budget \in Nat /\ Interval \in Nat
        /\ UNCHANGED <<config, page, at, stage, since, asked, polled, tasks, paid, outcome>>
    BY SolverAssumption DEF SolverAssumption, SolveInv, SolverTypeOK, Tick
  <1>2. CASE Exchanging /\ Within(Budget)
    <2>1. at \in {"creating", "polling"} /\ spent' - asked <= Budget /\ asked <= since + Budget
      BY <1>1, <1>2 DEF Exchanging, Within, SolveInv, BudgetInv
    <2>2. BudgetInv'
      BY <1>1, <2>1 DEF BudgetInv, Solving, SolveInv, PageInv
    <2>3. QED
      BY <1>1, <2>2 DEF SolveInv, SolverTypeOK, PaidInv, PageInv, SolveOrBlock, Solving
  <1>3. CASE Napping /\ Within(SmallerOf(Interval, since + Budget - asked))
    <2>1. at = "napping" /\ spent' <= since + Budget /\ asked <= since + Budget
      BY <1>1, <1>3 DEF Napping, Within, SmallerOf, SolveInv, BudgetInv
    <2>2. since <= asked
      BY <2>1 DEF SolveInv, BudgetInv
    <2>3. BudgetInv'
      BY <1>1, <2>1, <2>2 DEF BudgetInv, Solving, SolveInv, PageInv
    <2>4. QED
      BY <1>1, <2>3 DEF SolveInv, SolverTypeOK, PaidInv, PageInv, SolveOrBlock, Solving
  <1>4. QED
    BY <1>2, <1>3 DEF Tick

(* A failed exchange ends the solve, with an error of its own.             *)
LEMMA FailEnds ==
  ASSUME NEW cause \in DOMAIN Failure, Fail(cause)
  PROVE  /\ at' = "end" /\ asked' = asked /\ tasks' = tasks /\ paid' = paid
         /\ outcome' \in {"solver_transport_error", "solver_auth_error", "solver_error"}
  BY DEF Fail, End, Failure

(* Every step of a solve keeps the invariant.                              *)
LEMMA SolveKeeps ==
  ASSUME SolveInv, [SolverNext]_solverVars
  PROVE  SolveInv'
  <1> USE SolverAssumption
      DEF SolverAssumption, SolveInv, SolverTypeOK, PaidInv, PageInv, BudgetInv, SolveOrBlock, Solving, End
  <1>1. CASE Resolve
    BY <1>1 DEF Resolve, Kinds
  <1>2. CASE ExamineServed
    BY <1>2 DEF ExamineServed, Attempt, StartSolve, Kinds
  <1>3. CASE CreateAnswered
    <2>1. at = "creating" /\ UNCHANGED <<config, page, stage, spent, since>> /\ polled' = FALSE
      BY <1>3 DEF CreateAnswered
    <2>2. ASSUME at' = "end", asked' = asked, tasks' = tasks, paid' = paid,
                 outcome' \in {"solver_transport_error", "solver_auth_error", "solver_error"}
          PROVE  SolveInv'
      BY <2>1, <2>2 DEF Kinds
    <2>6. tasks = 0 /\ tasks + 1 = 1
      BY <2>1
    <2>7. spent <= since + 2 * Budget
      <3>1. spent \in Nat /\ since \in Nat /\ asked \in Nat /\ Budget \in Nat
        OBVIOUS
      <3>2. QED
        BY <2>1, <3>1
    <2>3. CASE tasks' = 1 /\ paid' \in {"token", "blank"} /\ ApplyToken /\ UNCHANGED asked
      <3>1. \/ paid' = "blank" /\ at' = "end" /\ outcome' = "solver_error"
            \/ paid' = "token" /\ at' = "render" /\ outcome' = outcome
        BY <2>3 DEF ApplyToken
      <3>2. SolverTypeOK'
        BY <2>1, <2>3, <3>1 DEF Kinds
      <3>3. PaidInv' /\ PageInv'
        BY <2>1, <2>3, <3>1
      <3>4. BudgetInv' /\ SolveOrBlock'
        BY <2>1, <2>3, <3>1
      <3>5. QED
        BY <3>2, <3>3, <3>4
    <2>4. CASE tasks' = 1 /\ at' = "poll" /\ UNCHANGED <<asked, paid, outcome>>
      <3>1. SolverTypeOK'
        BY <2>1, <2>4
      <3>2. PaidInv' /\ PageInv'
        BY <2>1, <2>4
      <3>3. BudgetInv'
        BY <2>1, <2>4, <2>7
      <3>4. SolveOrBlock'
        BY <2>1, <2>4
      <3>5. QED
        BY <3>1, <3>2, <3>3, <3>4
    <2>5. QED
      BY <1>3, <2>2, <2>3, <2>4, <2>6, FailEnds DEF CreateAnswered
  <1>4. CASE Poll
    <2>1. /\ at = "poll" /\ UNCHANGED <<config, page, stage, spent, since, tasks, paid>>
          /\ spent \in Nat /\ since \in 0 .. spent /\ asked \in 0 .. spent /\ Budget \in Nat
      BY <1>4 DEF Poll
    <2>2. CASE OverBudget /\ at' = "end" /\ outcome' = "solver_timeout" /\ UNCHANGED <<asked, polled>>
      <3>1. spent - since >= Budget
        BY <2>1, <2>2 DEF OverBudget, Remaining
      <3>2. QED
        BY <2>1, <2>2, <3>1 DEF Kinds
    <2>3. CASE /\ ~OverBudget /\ asked' = spent /\ outcome' = outcome
               /\ at' \in {"napping", "polling"} /\ polled' \in BOOLEAN
      <3>1. asked' <= since + Budget /\ since <= asked'
        BY <2>1, <2>3 DEF OverBudget, Remaining
      <3>2. QED
        BY <2>1, <2>3, <3>1
    <2>4. QED
      BY <1>4, <2>2, <2>3 DEF Poll
  <1>5. CASE Wake
    BY <1>5 DEF Wake, Napping
  <1>6. CASE PollAnswered
    <2>1. at = "polling" /\ UNCHANGED <<config, page, stage, spent, since, polled>>
      BY <1>6 DEF PollAnswered
    <2>2. ASSUME at' = "end", asked' = asked, tasks' = tasks, paid' = paid,
                 outcome' \in {"solver_transport_error", "solver_auth_error", "solver_error"}
          PROVE  SolveInv'
      BY <2>1, <2>2 DEF Kinds
    <2>3. CASE paid' \in {"token", "blank"} /\ ApplyToken /\ UNCHANGED <<asked, tasks>>
      BY <2>1, <2>3 DEF ApplyToken, Kinds
    <2>4. CASE at' = "poll" /\ UNCHANGED <<asked, tasks, paid, outcome>>
      BY <2>1, <2>4
    <2>5. QED
      BY <1>6, <2>2, <2>3, <2>4, FailEnds DEF PollAnswered
  <1>7. CASE Deliver
    BY <1>7 DEF Deliver, Kinds
  <1>8. CASE RenderPage
    BY <1>8 DEF RenderPage, Rendering, Kinds
  <1>9. CASE Judge
    BY <1>9 DEF Judge, Attempt, StartSolve, SolveResidual, Kinds
  <1>10. CASE Tick
    BY <1>10, TickInv
  <1>11. CASE UNCHANGED solverVars
    BY <1>11 DEF solverVars
  <1>12. QED
    BY <1>1, <1>2, <1>3, <1>4, <1>5, <1>6, <1>7, <1>8, <1>9, <1>10, <1>11 DEF SolverNext, SolveStep, Done

-----------------------------------------------------------------------------
(* The variables keep their types.  No clock runs backwards, and none of   *)
(* an exchange or of the solve is ahead of that of the scrape              *)
(* (captcha_solver.rs:476-640).                                            *)
THEOREM SolveTypeCorrect == SolverSpec => []SolverTypeOK
  <1>1. SolveInv => SolverTypeOK
    BY DEF SolveInv
  <1>2. QED
    BY <1>1, SolveInit, SolveKeeps, PTL DEF SolverSpec

(* At most one task is paid for, and for it only a page that shows the     *)
(* token or its effect is delivered, whatever the page, the provider and   *)
(* the configuration (attempt_optional_solve,                              *)
(* residual_after_applied_token).                                          *)
THEOREM PaidForAtMostOnce == SolverSpec => []SolveOrBlock
  <1>1. SolveInv => SolveOrBlock
    BY DEF SolveInv
  <1>2. QED
    BY <1>1, SolveInit, SolveKeeps, PTL DEF SolverSpec

(* Two budgets: one until the exchange begins, one for the exchange.       *)
LEMMA WithinTwice ==
  ASSUME SolveInv
  PROVE  SolveOverrunsOnce
  <1>1. spent \in Nat /\ since \in 0 .. spent /\ asked \in 0 .. spent /\ Budget \in Nat
    BY SolverAssumption DEF SolverAssumption, SolveInv, SolverTypeOK
  <1>2. Solving => spent - since <= 2 * Budget
    BY <1>1 DEF SolveInv, BudgetInv, Solving
  <1>3. QED
    BY <1>2 DEF SolveOverrunsOnce, SolveInv, BudgetInv

(* A solve outruns its budget by one exchange, for any budget and any poll *)
(* interval: an exchange starts within the budget and takes no longer than *)
(* the client's timeout, which is the budget again (poll_task_result).     *)
THEOREM OverrunsByOneExchange == SolverSpec => []SolveOverrunsOnce
  <1>1. QED
    BY WithinTwice, SolveInit, SolveKeeps, PTL DEF SolverSpec

=============================================================================
