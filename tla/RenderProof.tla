---------------------------- MODULE RenderProof ------------------------------
(***************************************************************************)
(* Proofs about RenderGuard for any pages, sizes, caps and number of       *)
(* renders, about the CdpTransport they run on for any calls, and about    *)
(* Tab for any callers of any methods.                                     *)
(***************************************************************************)
EXTENDS MCRender, CdpTransport, Tab, FiniteSetTheorems, SequenceTheorems, TLAPS

Stage == {"none", "asked", "refused", "accepted", "unpaced", "sent",
          "blocked", "streaming", "body", "read", "charged", "metered",
          "delivered", "done", "failing", "failed"}
Phase == {"start", "navigate", "check", "pending", "probe", "settled",
          "serialize", "ensure", "ok", "error"}

-----------------------------------------------------------------------------
(* What the rendering thread touches, and when it may answer Ok.           *)
LEMMA MainFrame ==
  ASSUME TypeOK, MainStep
  PROVE  /\ count' = count /\ bytes' = bytes /\ exceeded' = exceeded
         /\ pending' = pending /\ st' = st
         /\ meter' = meter /\ already' = already /\ reported' = reported
         /\ charged' = charged
         /\ denied' = denied /\ hops' = hops /\ tooMany' = tooMany
         /\ late' = late /\ closing' = closing
         /\ alive' \in [Render -> BOOLEAN]
         /\ main' \in Phase /\ round' \in Render /\ expired' = expired
         /\ cleanCut' \in BOOLEAN
         /\ cleanCut' = cleanCut \/ cleanCut' = (cleanCut /\ ~exceeded)
         /\ main' = "ok" => ~exceeded /\ cleanCut' = cleanCut
<1> USE DEF TypeOK, Phase, budgetVars, meterVars, guardVars, Goto, Abort
<1>1. CASE Start
  BY <1>1 DEF Start
<1>2. CASE Navigate
  BY <1>2 DEF Navigate
<1>3. CASE SettleCheck
  BY <1>3 DEF SettleCheck
<1>4. CASE SettlePending
  BY <1>4 DEF SettlePending
<1>5. CASE SettleProbe
  BY <1>5 DEF SettleProbe
<1>6. CASE Gate
  BY <1>6 DEF Gate
<1>7. CASE Serialize
  BY <1>7 DEF Serialize
<1>8. CASE Ensure
  BY <1>8 DEF Ensure
<1>9. CASE NextRender
  BY <1>9, RenderAssumption DEF NextRender, Render
<1>10. QED
  BY <1>1, <1>2, <1>3, <1>4, <1>5, <1>6, <1>7, <1>8, <1>9 DEF MainStep

(* A request's handlers and threads never touch the rendering thread.      *)
LEMMA RequestFrame ==
  ASSUME NEW r \in Request, RequestStep(r)
  PROVE  /\ main' = main /\ round' = round /\ expired' = expired
         /\ cleanCut' = cleanCut
<1> USE DEF mainVars
<1>1. CASE \/ Ask(r) \/ Deny(r) \/ RefuseHop(r) \/ Accept(r)
           \/ Transmit(r) \/ PaceLate(r) \/ Block(r) \/ Respond(r)
  BY <1>1 DEF Ask, Deny, RefuseHop, Accept, Transmit, PaceLate, Block, Respond
<1>2. CASE \E n \in 1..Size[r] : DataReceived(r, n)
  BY <1>2 DEF DataReceived
<1>3. CASE BodyThread(r)
  BY <1>3 DEF BodyThread, BodyError, ReadMeter, ChargeBody, RaiseMeter,
              Fulfill, FinishBody
<1>4. QED
  BY <1>1, <1>2, <1>3 DEF RequestStep

-----------------------------------------------------------------------------
(* One request moves on: what happens to its stage, and to the set of      *)
(* requests a body thread works on.                                        *)
BodyStage == {"body", "read", "charged", "metered", "delivered", "failing"}

LEMMA StepEffect ==
  ASSUME st \in [Request -> Stage], NEW r \in Request,
         NEW from, NEW to \in Stage, Step(r, from, to)
  PROVE  /\ st' \in [Request -> Stage]
         /\ st[r] = from /\ st'[r] = to
         /\ \A q \in Request : q # r => st'[q] = st[q]
  BY DEF Step

(* A step within the body stages, or outside them, leaves the set alone.   *)
LEMMA BodySame ==
  ASSUME st \in [Request -> Stage], NEW r \in Request,
         NEW from, NEW to \in Stage, Step(r, from, to),
         from \in BodyStage <=> to \in BodyStage
  PROVE  InBody' = InBody
  BY StepEffect DEF InBody, BodyStage

(* A step into the body stages adds its request, and one to the count.     *)
LEMMA BodyEnter ==
  ASSUME st \in [Request -> Stage], NEW r \in Request,
         NEW from, NEW to \in Stage, Step(r, from, to),
         from \notin BodyStage, to \in BodyStage
  PROVE  Cardinality(InBody') = Cardinality(InBody) + 1
<1>1. InBody' = InBody \cup {r} /\ r \notin InBody
  BY StepEffect DEF InBody, BodyStage
<1>2. IsFiniteSet(InBody)
  BY RenderAssumption, FS_Subset DEF InBody
<1>3. QED
  BY <1>1, <1>2, FS_AddElement

(* A step out of the body stages takes one off.                            *)
LEMMA BodyLeave ==
  ASSUME st \in [Request -> Stage], NEW r \in Request,
         NEW from, NEW to \in Stage, Step(r, from, to),
         from \in BodyStage, to \notin BodyStage
  PROVE  /\ Cardinality(InBody') = Cardinality(InBody) - 1
         /\ Cardinality(InBody') \in Nat
<1>1. InBody' = InBody \ {r} /\ r \in InBody
  BY StepEffect DEF InBody, BodyStage
<1>2. IsFiniteSet(InBody)
  BY RenderAssumption, FS_Subset DEF InBody
<1>3. IsFiniteSet(InBody')
  BY <1>1, <1>2, FS_RemoveElement
<1>4. QED
  BY <1>1, <1>2, <1>3, FS_RemoveElement, FS_CardinalityType

-----------------------------------------------------------------------------
(* The pending counter and the types go together: it is a natural number   *)
(* because it counts the body threads.  A body thread starts with a meter. *)
BodyMetered == \A r \in Request : st[r] = "body" => meter[r] \in Nat

CountInv == TypeOK /\ PendingIsExact /\ BodyMetered

LEMMA RequestCount ==
  ASSUME CountInv, NEW r \in Request, RequestStep(r)
  PROVE  PendingIsExact'
<1> USE DEF CountInv, PendingIsExact, Stage
<1>0. st \in [Request -> Stage]
  BY DEF TypeOK
<1>1. CASE Ask(r)
  <2>1. Step(r, "none", "asked") /\ pending' = pending
    BY <1>1 DEF Ask
  <2>2. QED
    BY <1>0, <2>1, BodySame DEF BodyStage
<1>2. CASE Deny(r) \/ RefuseHop(r)
  <2>1. Step(r, "asked", "refused") /\ pending' = pending
    BY <1>2 DEF Deny, RefuseHop
  <2>2. QED
    BY <1>0, <2>1, BodySame DEF BodyStage
<1>3. CASE Accept(r)
  <2>1. Step(r, "asked", "refused") \/ Step(r, "asked", "accepted")
    BY <1>3 DEF Accept
  <2>2. pending' = pending
    BY <1>3 DEF Accept
  <2>3. QED
    BY <1>0, <2>1, <2>2, BodySame DEF BodyStage
<1>4. CASE Transmit(r) \/ PaceLate(r)
  <2>1. Step(r, "accepted", "sent") \/ Step(r, "accepted", "unpaced")
    BY <1>4 DEF Transmit, PaceLate
  <2>2. pending' = pending
    BY <1>4 DEF Transmit, PaceLate
  <2>3. QED
    BY <1>0, <2>1, <2>2, BodySame DEF BodyStage
<1>5. CASE Block(r)
  <2>1. Step(r, "sent", "blocked") /\ pending' = pending
    BY <1>5 DEF Block
  <2>2. QED
    BY <1>0, <2>1, BodySame DEF BodyStage
<1>6. CASE Respond(r)
  <2>1. CASE Step(r, "sent", "body") /\ pending' = pending + 1
    BY <1>0, <2>1, BodyEnter DEF BodyStage
  <2>2. CASE Step(r, "sent", "streaming") /\ pending' = pending
    BY <1>0, <2>2, BodySame DEF BodyStage
  <2>3. QED
    BY <1>6, <2>1, <2>2 DEF Respond
<1>7. CASE \E n \in 1..Size[r] : DataReceived(r, n)
  BY <1>7 DEF DataReceived, InBody
<1>8. CASE BodyError(r)
  <2>1. Step(r, "body", "failing") /\ pending' = pending
    BY <1>8 DEF BodyError
  <2>2. QED
    BY <1>0, <2>1, BodySame DEF BodyStage
<1>9. CASE ReadMeter(r)
  <2>1. Step(r, "body", "read") /\ pending' = pending
    BY <1>9 DEF ReadMeter
  <2>2. QED
    BY <1>0, <2>1, BodySame DEF BodyStage
<1>10. CASE ChargeBody(r)
  <2>1. Step(r, "read", "charged") \/ Step(r, "read", "failing")
    BY <1>10 DEF ChargeBody
  <2>2. pending' = pending
    BY <1>10 DEF ChargeBody
  <2>3. QED
    BY <1>0, <2>1, <2>2, BodySame DEF BodyStage
<1>11. CASE RaiseMeter(r)
  <2>1. Step(r, "charged", "metered") /\ pending' = pending
    BY <1>11 DEF RaiseMeter
  <2>2. QED
    BY <1>0, <2>1, BodySame DEF BodyStage
<1>12. CASE Fulfill(r)
  <2>1. Step(r, "metered", "delivered") /\ pending' = pending
    BY <1>12 DEF Fulfill
  <2>2. QED
    BY <1>0, <2>1, BodySame DEF BodyStage
<1>13. CASE FinishBody(r)
  <2>1. Step(r, "delivered", "done") \/ Step(r, "failing", "failed")
    BY <1>13 DEF FinishBody
  <2>2. pending' = pending - 1
    BY <1>13 DEF FinishBody
  <2>3. QED
    BY <1>0, <2>1, <2>2, BodyLeave DEF BodyStage
<1>14. QED
  BY <1>1, <1>2, <1>3, <1>4, <1>5, <1>6, <1>7, <1>8, <1>9, <1>10, <1>11,
     <1>12, <1>13 DEF RequestStep, BodyThread

(* Every handler of a request keeps the types; the pending counter's comes *)
(* from its being exact.                                                   *)
LEMMA RequestTypes ==
  ASSUME CountInv, NEW r \in Request, RequestStep(r)
  PROVE  TypeOK'
<1> USE RenderAssumption
        DEF CountInv, TypeOK, Stage, budgetVars, meterVars, guardVars
<1>1. PendingIsExact'
  BY RequestCount
<1>2. /\ main' \in Phase /\ round' \in Render
      /\ expired' \in BOOLEAN /\ cleanCut' \in BOOLEAN
  BY RequestFrame DEF Phase
<1>3. RenderOf[r] \in Render /\ Size[r] \in Nat /\ NoMeter = -1
  BY DEF NoMeter
<1>4. st' \in [Request -> Stage] => pending' \in Nat
  <2>1. SUFFICES ASSUME st' \in [Request -> Stage]
                 PROVE  pending' \in Nat
    OBVIOUS
  <2>2. IsFiniteSet(InBody')
    BY FS_Subset DEF InBody
  <2>3. QED
    BY <1>1, <2>2, FS_CardinalityType DEF PendingIsExact
<1>5. SUFFICES
        /\ count' \in Nat /\ bytes' \in Nat /\ exceeded' \in BOOLEAN
        /\ st' \in [Request -> Stage]
        /\ meter' \in [Request -> Nat \cup {NoMeter}]
        /\ already' \in [Request -> Nat]
        /\ reported' \in [Request -> Nat]
        /\ charged' \in [Request -> Nat]
        /\ denied' \in [Render -> BOOLEAN] /\ tooMany' \in [Render -> BOOLEAN]
        /\ hops' \in [Render -> Nat \cup {-1}]
        /\ late' \in [Render -> BOOLEAN]
        /\ closing' \in [Render -> BOOLEAN] /\ alive' \in [Render -> BOOLEAN]
  BY <1>2, <1>4 DEF Phase
<1>6. CASE Ask(r)
  BY <1>6 DEF Ask, Step
<1>7. CASE Deny(r)
  BY <1>3, <1>7 DEF Deny, Step
<1>8. hops' = hops \/ RecordHop(r) => hops' \in [Render -> Nat \cup {-1}]
  BY <1>3 DEF RecordHop
<1>9. CASE RefuseHop(r)
  BY <1>3, <1>8, <1>9 DEF RefuseHop, Step
<1>10. CASE Accept(r)
  <2>1. st' \in [Request -> Stage]
    <3>1. Step(r, "asked", "refused") \/ Step(r, "asked", "accepted")
      BY <1>10 DEF Accept
    <3>2. QED
      BY <3>1, StepEffect
  <2>4. count' \in Nat /\ bytes' \in Nat /\ exceeded' \in BOOLEAN
    <3>1. \/ count' = count /\ bytes' = bytes /\ exceeded' = TRUE
          \/ count' = count + 1 /\ bytes' = bytes /\ exceeded' = exceeded
      BY <1>10 DEF Accept
    <3>2. count' \in Nat /\ bytes' \in Nat
      BY <3>1
    <3>3. QED
      BY <3>1, <3>2
  <2>2. hops' \in [Render -> Nat \cup {-1}]
    BY <1>8, <1>10 DEF Accept
  <2>3. QED
    BY <1>10, <2>1, <2>2, <2>4 DEF Accept
<1>11. CASE Transmit(r)
  BY <1>11 DEF Transmit, Step
<1>12. CASE PaceLate(r)
  BY <1>3, <1>12 DEF PaceLate, Step
<1>13. CASE Block(r)
  BY <1>13 DEF Block, Step, Exhaust
<1>14. CASE Respond(r)
  BY <1>14 DEF Respond, Step
<1>15. ASSUME NEW n \in Nat, ChargeBytes(r, n)
       PROVE  /\ count' \in Nat /\ bytes' \in Nat /\ exceeded' \in BOOLEAN
              /\ charged' \in [Request -> Nat]
  BY <1>15 DEF ChargeBytes
<1>16. CASE \E n \in 1..Size[r] : DataReceived(r, n)
  <2>1. PICK n \in Nat : DataReceived(r, n)
    BY <1>3, <1>16
  <2>2. reported' \in [Request -> Nat]
    BY <2>1 DEF DataReceived
  <2>3. CASE ChargeBytes(r, n) /\ meter' = [meter EXCEPT ![r] = @ + n]
                               /\ closing' = closing
    <3>1. meter' \in [Request -> Nat \cup {NoMeter}]
      BY <1>3, <2>1, <2>3 DEF DataReceived
    <3>2. QED
      BY <1>15, <2>1, <2>2, <2>3, <3>1 DEF DataReceived
  <2>4. CASE Exhaust /\ meter' = meter
                     /\ closing' = [closing EXCEPT ![RenderOf[r]] = TRUE]
    BY <1>3, <2>1, <2>2, <2>4 DEF DataReceived, Exhaust
  <2>5. QED
    BY <2>1, <2>3, <2>4 DEF DataReceived
<1>17. CASE BodyError(r)
  BY <1>17 DEF BodyError, Step, Exhaust
<1>22. CASE ReadMeter(r)
  <2>1. meter[r] \in Nat
    BY <1>22 DEF ReadMeter, Step, BodyMetered
  <2>2. QED
    BY <1>22, <2>1 DEF ReadMeter, Step
<1>18. CASE ChargeBody(r)
  <2>1. Due(r) \in Nat
    BY <1>3 DEF Due
  <2>2. st' \in [Request -> Stage]
    BY <1>18 DEF ChargeBody, Step
  <2>3. /\ count' \in Nat /\ bytes' \in Nat /\ exceeded' \in BOOLEAN
        /\ charged' \in [Request -> Nat]
    <3>1. CASE UNCHANGED <<budgetVars, charged>>
      BY <3>1
    <3>2. CASE ChargeBytes(r, Due(r))
      BY <1>15, <2>1, <3>2
    <3>3. CASE Exhaust
      BY <3>3 DEF Exhaust
    <3>4. QED
      BY <1>18, <3>1, <3>2, <3>3 DEF ChargeBody
  <2>4. QED
    BY <1>18, <2>2, <2>3 DEF ChargeBody
<1>19. CASE RaiseMeter(r)
  BY <1>3, <1>19 DEF RaiseMeter, Step
<1>20. CASE Fulfill(r) \/ FinishBody(r)
  BY <1>20 DEF Fulfill, FinishBody, Step
<1>21. QED
  BY <1>6, <1>7, <1>9, <1>10, <1>11, <1>12, <1>13, <1>14, <1>16, <1>17,
     <1>22, <1>18, <1>19, <1>20 DEF RequestStep, BodyThread

LEMMA RequestMetered ==
  ASSUME CountInv, NEW r \in Request, RequestStep(r)
  PROVE  BodyMetered'
<1> USE DEF CountInv, BodyMetered
<1>1. st \in [Request -> Stage] /\ meter \in [Request -> Nat \cup {NoMeter}]
  BY DEF TypeOK, Stage
<1>2. ASSUME NEW from, NEW to \in Stage, Step(r, from, to), to # "body",
             meter' = meter
      PROVE  BodyMetered'
  BY <1>1, <1>2, StepEffect
<1> USE DEF Stage
<1>3. CASE Ask(r)
  BY <1>2, <1>3 DEF Ask, meterVars
<1>4. CASE Deny(r) \/ RefuseHop(r)
  BY <1>2, <1>4 DEF Deny, RefuseHop, meterVars
<1>5. CASE Accept(r)
  BY <1>2, <1>5 DEF Accept, meterVars
<1>6. CASE Transmit(r) \/ PaceLate(r)
  BY <1>2, <1>6 DEF Transmit, PaceLate, meterVars
<1>7. CASE Block(r)
  BY <1>2, <1>7 DEF Block
<1>8. CASE Respond(r)
  <2>1. meter' = [meter EXCEPT ![r] = 0] /\ \A q \in Request : q # r => st'[q] = st[q]
    BY <1>1, <1>8, StepEffect DEF Respond
  <2>2. QED
    BY <1>1, <2>1
<1>9. CASE \E n \in 1..Size[r] : DataReceived(r, n)
  <2>1. PICK n \in Nat : DataReceived(r, n)
    BY <1>9, RenderAssumption
  <2>2. st' = st
    BY <2>1 DEF DataReceived
  <2>3. meter' = meter \/ meter' = [meter EXCEPT ![r] = @ + n]
    BY <2>1 DEF DataReceived
  <2>4. QED
    BY <1>1, <2>2, <2>3
<1>10. CASE BodyError(r) \/ ReadMeter(r)
  BY <1>2, <1>10 DEF BodyError, ReadMeter
<1>11. CASE ChargeBody(r)
  BY <1>2, <1>11 DEF ChargeBody
<1>12. CASE RaiseMeter(r)
  <2>1. st'[r] # "body" /\ \A q \in Request : q # r => st'[q] = st[q]
    BY <1>1, <1>12, StepEffect DEF RaiseMeter
  <2>2. \A q \in Request : q # r => meter'[q] = meter[q]
    BY <1>1, <1>12 DEF RaiseMeter
  <2>3. QED
    BY <1>1, <2>1, <2>2
<1>13. CASE Fulfill(r) \/ FinishBody(r)
  BY <1>2, <1>13 DEF Fulfill, FinishBody, meterVars
<1>14. QED
  BY <1>3, <1>4, <1>5, <1>6, <1>7, <1>8, <1>9, <1>10, <1>11, <1>12, <1>13
  DEF RequestStep, BodyThread

-----------------------------------------------------------------------------
LEMMA CountInit == Init => CountInv
<1> SUFFICES ASSUME Init PROVE CountInv
  OBVIOUS
<1> USE DEF Init
<1>1. TypeOK
  <2>1. 1 \in Render
    BY RenderAssumption DEF Render
  <2>2. meter \in [Request -> Nat \cup {NoMeter}]
    OBVIOUS
  <2>3. hops \in [Render -> Nat \cup {-1}]
    OBVIOUS
  <2>4. st \in [Request -> Stage]
    BY DEF Stage
  <2>5. QED
    BY <2>1, <2>2, <2>3, <2>4 DEF TypeOK, Stage
<1>2. InBody = {}
  BY DEF InBody
<1>3. PendingIsExact
  BY <1>2, FS_EmptySet DEF PendingIsExact
<1>4. QED
  BY <1>1, <1>3 DEF CountInv, BodyMetered

LEMMA CountStep == CountInv /\ [Next]_vars => CountInv'
<1> SUFFICES ASSUME CountInv, [Next]_vars PROVE CountInv'
  OBVIOUS
<1> USE DEF CountInv
<1>1. ASSUME NEW r \in Request, RequestStep(r)
      PROVE  CountInv'
  BY <1>1, RequestTypes, RequestCount, RequestMetered
<1>2. CASE MainStep
  <2>1. TypeOK'
    BY <1>2, MainFrame DEF TypeOK, Phase
  <2>2. PendingIsExact' /\ BodyMetered'
    BY <1>2, MainFrame DEF PendingIsExact, InBody, BodyMetered
  <2>3. QED
    BY <2>1, <2>2
<1>3. ASSUME NEW i \in Render, CloseTab(i)
      PROVE  CountInv'
  BY <1>3 DEF CloseTab, TypeOK, PendingIsExact, InBody, BodyMetered,
              budgetVars, meterVars, mainVars
<1>4. CASE Expire
  BY <1>4 DEF Expire, TypeOK, PendingIsExact, InBody, BodyMetered,
              budgetVars, meterVars, guardVars
<1>5. CASE UNCHANGED vars
  BY <1>5 DEF vars, TypeOK, PendingIsExact, InBody, BodyMetered,
              budgetVars, meterVars, guardVars, mainVars
<1>6. QED
  BY <1>1, <1>2, <1>3, <1>4, <1>5 DEF Next, Stopped

(* Every reachable state of the guard has its types (lib.rs:312-341).      *)
THEOREM TypeCorrect == Spec => []TypeOK
<1>1. CountInv => TypeOK
  BY DEF CountInv
<1>2. QED
  BY CountInit, CountStep, <1>1, PTL DEF Spec

(* The counter the settle loop waits on counts the body threads, whatever  *)
(* fails and whoever runs first (lib.rs:713-813).                          *)
THEOREM PendingExact == Spec => []PendingIsExact
<1>1. CountInv => PendingIsExact
  BY DEF CountInv
<1>2. QED
  BY CountInit, CountStep, <1>1, PTL DEF Spec

-----------------------------------------------------------------------------
(* Whatever the meter shows has been charged, what a body thread read from *)
(* it too, and past the charge the whole body has.                         *)
Paid == {"charged", "metered", "delivered", "done"}

ChargeInv == \A r \in Request :
  /\ meter[r] # NoMeter => charged[r] >= meter[r]
  /\ st[r] = "read" => charged[r] >= already[r]
  /\ st[r] \in Paid =>
       charged[r] >= Size[r] /\ (r \in Document => Size[r] <= MaxDocumentBytes)

LEMMA RequestCharge ==
  ASSUME TypeOK, ChargeInv, NEW r \in Request, RequestStep(r)
  PROVE  ChargeInv'
<1> USE RenderAssumption
<1>1. /\ st \in [Request -> Stage] /\ already \in [Request -> Nat]
      /\ meter \in [Request -> Nat \cup {NoMeter}]
      /\ charged \in [Request -> Nat] /\ Size \in [Request -> Nat]
  BY DEF TypeOK, Stage
<1>2. NoMeter = -1
  BY DEF NoMeter
<1>3. ASSUME NEW from, NEW to \in Stage, Step(r, from, to),
             meter' = meter, already' = already, charged' = charged,
             to # "read", to \in Paid => from \in Paid
      PROVE  ChargeInv'
  BY <1>1, <1>3, StepEffect DEF ChargeInv
<1> USE DEF Stage, Paid
<1>4. CASE Ask(r)
  BY <1>3, <1>4 DEF Ask, meterVars
<1>5. CASE Deny(r) \/ RefuseHop(r)
  BY <1>3, <1>5 DEF Deny, RefuseHop, meterVars
<1>6. CASE Accept(r)
  BY <1>3, <1>6 DEF Accept, meterVars
<1>7. CASE Transmit(r) \/ PaceLate(r)
  BY <1>3, <1>7 DEF Transmit, PaceLate, meterVars
<1>8. CASE Block(r)
  BY <1>3, <1>8 DEF Block, Exhaust
<1>9. CASE Respond(r)
  <2>1. /\ meter' = [meter EXCEPT ![r] = 0]
        /\ already' = already /\ charged' = charged
    BY <1>9 DEF Respond
  <2>2. st'[r] \in {"body", "streaming"} /\ \A q \in Request : q # r => st'[q] = st[q]
    BY <1>1, <1>9, StepEffect DEF Respond
  <2>3. QED
    BY <1>1, <2>1, <2>2 DEF ChargeInv
<1>10. CASE \E n \in 1..Size[r] : DataReceived(r, n)
  <2>1. PICK n \in Nat : DataReceived(r, n)
    BY <1>1, <1>10
  <2>2. st' = st /\ already' = already /\ meter[r] \in Nat
    BY <1>1, <2>1 DEF DataReceived
  <2>3. CASE ChargeBytes(r, n) /\ meter' = [meter EXCEPT ![r] = @ + n]
    <3>1. charged' = [charged EXCEPT ![r] = @ + n]
      BY <2>3 DEF ChargeBytes
    <3>2. /\ charged'[r] = charged[r] + n /\ meter'[r] = meter[r] + n
          /\ \A q \in Request : q # r => charged'[q] = charged[q] /\ meter'[q] = meter[q]
      BY <1>1, <2>3, <3>1
    <3>3. charged[r] \in Nat /\ already[r] \in Nat /\ Size[r] \in Nat
      BY <1>1
    <3>4. charged[r] >= meter[r]
      BY <1>2, <2>2 DEF ChargeInv
    <3>5. QED
      BY <2>2, <3>2, <3>3, <3>4 DEF ChargeInv
  <2>4. CASE Exhaust /\ meter' = meter
    BY <2>2, <2>4 DEF Exhaust, ChargeInv
  <2>5. QED
    BY <2>1, <2>3, <2>4 DEF DataReceived
<1>11. CASE BodyError(r)
  BY <1>3, <1>11 DEF BodyError, Exhaust
<1>12. CASE ReadMeter(r)
  <2>1. /\ already' = [already EXCEPT ![r] = meter[r]]
        /\ meter' = meter /\ charged' = charged
    BY <1>12 DEF ReadMeter
  <2>2. st'[r] = "read" /\ \A q \in Request : q # r => st'[q] = st[q]
    BY <1>1, <1>12, StepEffect DEF ReadMeter
  <2>3. charged[r] >= meter[r]
    BY <1>1, <1>2 DEF ChargeInv
  <2>4. QED
    BY <1>1, <2>1, <2>2, <2>3 DEF ChargeInv
<1>13. CASE ChargeBody(r)
  <2>1. meter' = meter /\ already' = already
    BY <1>13 DEF ChargeBody
  <2>2. CASE Step(r, "read", "failing") /\ Exhaust
    BY <1>3, <2>1, <2>2 DEF Exhaust
  <2>3. CASE /\ Step(r, "read", "charged")
             /\ r \in Document => Size[r] <= MaxDocumentBytes
             /\ IF Due(r) = 0 THEN UNCHANGED <<budgetVars, charged>>
                              ELSE ChargeBytes(r, Due(r))
    <3>1. charged' = [charged EXCEPT ![r] = @ + Due(r)]
      BY <1>1, <2>3 DEF ChargeBytes, Due
    <3>2. /\ st[r] = "read" /\ st'[r] = "charged"
          /\ \A q \in Request : q # r => st'[q] = st[q]
      BY <1>1, <2>3, StepEffect
    <3>3. charged[r] >= already[r]
      BY <3>2 DEF ChargeInv
    <3>4. Due(r) \in Nat /\ already[r] + Due(r) >= Size[r]
      BY <1>1 DEF Due
    <3>5. charged'[r] >= Size[r] /\ charged'[r] >= charged[r]
      BY <1>1, <3>1, <3>3, <3>4
    <3>6. \A q \in Request : q # r => charged'[q] = charged[q]
      BY <1>1, <3>1
    <3>7. meter[r] # NoMeter => charged'[r] >= meter[r]
      <4>1. charged'[r] \in Nat /\ charged[r] \in Nat
        BY <1>1, <3>1, <3>4
      <4>2. QED
        BY <1>1, <1>2, <3>5, <4>1 DEF ChargeInv
    <3>8. QED
      BY <2>1, <2>3, <3>2, <3>5, <3>6, <3>7 DEF ChargeInv
  <2>4. QED
    BY <1>13, <2>2, <2>3 DEF ChargeBody
<1>14. CASE RaiseMeter(r)
  <2>1. /\ meter' = [meter EXCEPT ![r] = IF Size[r] > @ THEN Size[r] ELSE @]
        /\ already' = already /\ charged' = charged
    BY <1>14 DEF RaiseMeter
  <2>2. /\ st[r] = "charged" /\ st'[r] = "metered"
        /\ \A q \in Request : q # r => st'[q] = st[q]
    BY <1>1, <1>14, StepEffect DEF RaiseMeter
  <2>3. meter'[r] = Size[r] \/ meter'[r] = meter[r]
    BY <1>1, <2>1
  <2>4. \A q \in Request : q # r => meter'[q] = meter[q]
    BY <1>1, <2>1
  <2>5. QED
    BY <2>1, <2>2, <2>3, <2>4 DEF ChargeInv
<1>15. CASE Fulfill(r) \/ FinishBody(r)
  BY <1>3, <1>15 DEF Fulfill, FinishBody, meterVars
<1>16. QED
  BY <1>4, <1>5, <1>6, <1>7, <1>8, <1>9, <1>10, <1>11, <1>12, <1>13, <1>14,
     <1>15 DEF RequestStep, BodyThread

LEMMA ChargeStep == CountInv /\ ChargeInv /\ [Next]_vars => ChargeInv'
<1> SUFFICES ASSUME CountInv, ChargeInv, [Next]_vars PROVE ChargeInv'
  OBVIOUS
<1>0. TypeOK
  BY DEF CountInv
<1>1. ASSUME NEW r \in Request, RequestStep(r)
      PROVE  ChargeInv'
  BY <1>0, <1>1, RequestCharge
<1>2. CASE MainStep
  BY <1>0, <1>2, MainFrame DEF ChargeInv
<1>3. ASSUME NEW i \in Render, CloseTab(i)
      PROVE  ChargeInv'
  BY <1>3 DEF CloseTab, ChargeInv, meterVars
<1>4. CASE Expire
  BY <1>4 DEF Expire, ChargeInv, meterVars
<1>5. CASE UNCHANGED vars
  BY <1>5 DEF vars, ChargeInv, meterVars
<1>6. QED
  BY <1>1, <1>2, <1>3, <1>4, <1>5 DEF Next, Stopped

(* No unsized body reaches a page before all of it was charged, in any     *)
(* interleaving of the event and body threads (lib.rs:592-597).            *)
THEOREM BodiesArePaid == Spec => []NoFreeBytes
<1>1. Init => ChargeInv
  BY DEF Init, ChargeInv, Paid, NoMeter
<1>2. ChargeInv => NoFreeBytes
  BY RenderAssumption DEF ChargeInv, NoFreeBytes, Paid
<1>3. QED
  BY CountInit, CountStep, ChargeStep, <1>1, <1>2, PTL DEF Spec

-----------------------------------------------------------------------------
(* Top documents on the wire are covered by the recorded hops and by the   *)
(* limit.                                                                  *)
NavInv == FollowRedirects =>
  \A i \in Render : /\ Cardinality(OnWire(i)) <= hops[i] + 1
                   /\ Cardinality(OnWire(i)) <= MaxRedirects + 1

OffWire == {"none", "asked", "refused"}

(* A step that does not put a request on the wire leaves the bounds alone. *)
LEMMA WireSame ==
  ASSUME TypeOK, NavInv, NEW r \in Request, NEW from, NEW to \in Stage,
         Step(r, from, to), from \in OffWire <=> to \in OffWire,
         hops' \in [Render -> Nat \cup {-1}],
         \A i \in Render : hops'[i] >= hops[i]
  PROVE  NavInv'
<1>1. \A i \in Render : OnWire(i)' = OnWire(i)
  <2>1. st \in [Request -> Stage]
    BY DEF TypeOK, Stage
  <2>2. /\ st[r] = from /\ st'[r] = to
        /\ \A q \in Request : q # r => st'[q] = st[q]
    BY <2>1, StepEffect
  <2>3. \A q \in Request : st'[q] \in OffWire <=> st[q] \in OffWire
    BY <2>2
  <2>4. \A q \in TopDocument : q \in Request
    BY RenderAssumption
  <2>5. QED
    BY <2>3, <2>4 DEF OnWire, OffWire
<1>2. ASSUME NEW i \in Render, FollowRedirects
      PROVE  /\ Cardinality(OnWire(i)') <= hops'[i] + 1
             /\ Cardinality(OnWire(i)') <= MaxRedirects + 1
  <2>1. IsFiniteSet(OnWire(i))
    BY RenderAssumption, FS_Subset DEF OnWire
  <2>2. Cardinality(OnWire(i)) \in Nat
    BY <2>1, FS_CardinalityType
  <2>3. hops[i] \in Int /\ hops'[i] \in Int /\ hops'[i] >= hops[i]
    BY DEF TypeOK
  <2>4. /\ Cardinality(OnWire(i)) <= hops[i] + 1
        /\ Cardinality(OnWire(i)) <= MaxRedirects + 1
    BY <1>2 DEF NavInv
  <2>5. QED
    BY <1>1, <2>2, <2>3, <2>4
<1>3. QED
  BY <1>2 DEF NavInv

(* Accepting a top document records the hop that covers it.                *)
LEMMA WireAccept ==
  ASSUME TypeOK, NavInv, NEW r \in Request, Step(r, "asked", "accepted"),
         HopAllowed(r), RecordHop(r)
  PROVE  NavInv'
<1> DEFINE i == RenderOf[r]
<1>0. i \in Render /\ MaxRedirects \in Nat /\ IsFiniteSet(Request)
  BY RenderAssumption
<1>1. hops \in [Render -> Nat \cup {-1}] /\ st \in [Request -> Stage]
  BY DEF TypeOK, Stage
<1>2. /\ st[r] = "asked" /\ st'[r] = "accepted"
      /\ \A q \in Request : q # r => st'[q] = st[q]
  BY <1>1, StepEffect DEF Stage
<1>3. SUFFICES ASSUME FollowRedirects, NEW j \in Render
               PROVE  /\ Cardinality(OnWire(j)') <= hops'[j] + 1
                      /\ Cardinality(OnWire(j)') <= MaxRedirects + 1
  BY DEF NavInv
<1>4. /\ Cardinality(OnWire(j)) <= hops[j] + 1
      /\ Cardinality(OnWire(j)) <= MaxRedirects + 1
  BY <1>3 DEF NavInv
<1>5. IsFiniteSet(OnWire(j)) /\ Cardinality(OnWire(j)) \in Nat
  <2>1. IsFiniteSet(OnWire(j))
    BY <1>0, FS_Subset, RenderAssumption DEF OnWire
  <2>2. QED
    BY <2>1, FS_CardinalityType
<1>6. CASE r \in TopDocument /\ j = i
  <2>1. OnWire(j)' = OnWire(j) \cup {r} /\ r \notin OnWire(j)
    BY <1>2, <1>6, RenderAssumption DEF OnWire
  <2>2. Cardinality(OnWire(j)') = Cardinality(OnWire(j)) + 1
    BY <1>5, <2>1, FS_AddElement
  <2>3. hops'[j] = hops[j] + 1
    BY <1>0, <1>1, <1>3, <1>6 DEF RecordHop
  <2>4. hops[j] = -1 \/ hops[j] < MaxRedirects
    BY <1>3, <1>6 DEF HopAllowed
  <2>5. hops[j] \in Int
    BY <1>1
  <2>6. QED
    BY <1>0, <1>4, <1>5, <2>2, <2>3, <2>4, <2>5
<1>7. CASE ~(r \in TopDocument /\ j = i)
  <2>1. OnWire(j)' = OnWire(j)
    BY <1>2, <1>7, RenderAssumption DEF OnWire
  <2>2. hops'[j] = hops[j]
    BY <1>0, <1>1, <1>7 DEF RecordHop
  <2>3. QED
    BY <1>4, <2>1, <2>2
<1>8. QED
  BY <1>6, <1>7

LEMMA NavStep == CountInv /\ NavInv /\ [Next]_vars => NavInv'
<1> SUFFICES ASSUME CountInv, NavInv, [Next]_vars PROVE NavInv'
  OBVIOUS
<1>0. /\ TypeOK /\ hops \in [Render -> Nat \cup {-1}]
      /\ \A i \in Render : hops[i] \in Int
  BY DEF CountInv, TypeOK
<1>1. ASSUME NEW r \in Request, RequestStep(r)
      PROVE  NavInv'
  <2> USE DEF Stage, OffWire
  <2>1. ASSUME NEW from, NEW to \in Stage, Step(r, from, to), hops' = hops,
               from \in OffWire <=> to \in OffWire
        PROVE  NavInv'
    BY <1>0, <2>1, WireSame
  <2>2. CASE Ask(r)
    BY <2>1, <2>2 DEF Ask, guardVars
  <2>3. CASE Deny(r)
    BY <2>1, <2>3 DEF Deny
  <2>4. RecordHop(r) =>
          /\ hops' \in [Render -> Nat \cup {-1}]
          /\ \A i \in Render : hops'[i] >= hops[i]
    BY <1>0, RenderAssumption DEF RecordHop
  <2>5. CASE RefuseHop(r)
    <3>1. Step(r, "asked", "refused") /\ RecordHop(r)
      BY <2>5 DEF RefuseHop
    <3>2. QED
      BY <1>0, <2>4, <3>1, WireSame
  <2>6. CASE Accept(r)
    <3>1. HopAllowed(r) /\ RecordHop(r)
          /\ (Step(r, "asked", "refused") \/ Step(r, "asked", "accepted"))
      BY <2>6 DEF Accept
    <3>2. CASE Step(r, "asked", "refused")
      BY <1>0, <2>4, <3>1, <3>2, WireSame
    <3>3. CASE Step(r, "asked", "accepted")
      BY <1>0, <3>1, <3>3, WireAccept
    <3>4. QED
      BY <3>1, <3>2, <3>3
  <2>7. CASE Transmit(r)
    BY <2>1, <2>7 DEF Transmit, guardVars
  <2>8. CASE PaceLate(r)
    BY <2>1, <2>8 DEF PaceLate
  <2>9. CASE Block(r)
    BY <2>1, <2>9 DEF Block, guardVars
  <2>10. CASE Respond(r)
    BY <2>1, <2>10 DEF Respond, guardVars
  <2>11. CASE \E n \in 1..Size[r] : DataReceived(r, n)
    BY <2>11 DEF DataReceived, NavInv, OnWire
  <2>12. CASE BodyError(r) \/ ReadMeter(r)
    BY <2>1, <2>12 DEF BodyError, ReadMeter, guardVars
  <2>13. CASE ChargeBody(r)
    BY <2>1, <2>13 DEF ChargeBody, guardVars
  <2>14. CASE RaiseMeter(r) \/ Fulfill(r)
    BY <2>1, <2>14 DEF RaiseMeter, Fulfill, guardVars
  <2>15. CASE FinishBody(r)
    BY <2>1, <2>15 DEF FinishBody, guardVars
  <2>16. QED
    BY <1>1, <2>2, <2>3, <2>5, <2>6, <2>7, <2>8, <2>9, <2>10, <2>11, <2>12,
       <2>13, <2>14, <2>15 DEF RequestStep, BodyThread
<1>2. CASE MainStep
  BY <1>0, <1>2, MainFrame DEF NavInv, OnWire
<1>3. ASSUME NEW i \in Render, CloseTab(i)
      PROVE  NavInv'
  BY <1>3 DEF CloseTab, NavInv, OnWire
<1>4. CASE Expire
  BY <1>4 DEF Expire, NavInv, OnWire, guardVars
<1>5. CASE UNCHANGED vars
  BY <1>5 DEF vars, NavInv, OnWire, guardVars
<1>6. QED
  BY <1>1, <1>2, <1>3, <1>4, <1>5 DEF Next, Stopped

(* However refusals, hops and pages interleave, a render puts at most its  *)
(* first document and max_redirects hops on the wire (lib.rs:529-548).     *)
THEOREM NavigationsAreBounded == Spec => []NavigationBounded
<1>1. Init => NavInv
  <2> SUFFICES ASSUME Init PROVE NavInv
    OBVIOUS
  <2>1. \A i \in Render : OnWire(i) = {}
    BY RenderAssumption DEF Init, OnWire
  <2>2. \A i \in Render : hops[i] = -1
    BY DEF Init
  <2>3. Cardinality({}) = 0 /\ MaxRedirects \in Nat
    BY FS_EmptySet, RenderAssumption
  <2>4. ASSUME NEW i \in Render
        PROVE  /\ Cardinality(OnWire(i)) <= hops[i] + 1
               /\ Cardinality(OnWire(i)) <= MaxRedirects + 1
    <3>1. Cardinality(OnWire(i)) = 0 /\ hops[i] = -1
      BY <2>1, <2>2, <2>3
    <3>2. QED
      BY <2>3, <3>1
  <2>5. QED
    BY <2>4 DEF NavInv
<1>2. NavInv => NavigationBounded
  BY DEF NavInv, NavigationBounded
<1>3. QED
  BY CountInit, CountStep, NavStep, <1>1, <1>2, PTL DEF Spec

-----------------------------------------------------------------------------
(* A dirty cut was made with the cap exceeded, which is never forgotten,   *)
(* and Ok is only answered when it is not exceeded.                        *)
CutInv ==
  /\ ~cleanCut => exceeded
  /\ main = "ok" => cleanCut

(* No step takes the exhaustion back.                                      *)
LEMMA StaysExceeded ==
  ASSUME TypeOK, [Next]_vars, exceeded
  PROVE  exceeded'
<1>1. ASSUME NEW r \in Request, RequestStep(r)
      PROVE  exceeded'
  <2>1. CASE \/ Ask(r) \/ Deny(r) \/ RefuseHop(r) \/ Accept(r)
             \/ Transmit(r) \/ PaceLate(r) \/ Block(r) \/ Respond(r)
    BY <2>1 DEF Ask, Deny, RefuseHop, Accept, Transmit, PaceLate, Block,
                Respond, Exhaust, budgetVars
  <2>2. CASE \E n \in 1..Size[r] : DataReceived(r, n)
    BY <2>2 DEF DataReceived, Exhaust, ChargeBytes
  <2>3. CASE BodyThread(r)
    BY <2>3 DEF BodyThread, BodyError, ReadMeter, ChargeBody, RaiseMeter,
                Fulfill, FinishBody, Exhaust, ChargeBytes, budgetVars
  <2>4. QED
    BY <1>1, <2>1, <2>2, <2>3 DEF RequestStep
<1>2. CASE MainStep
  BY <1>2, MainFrame
<1>3. CASE \/ \E i \in Render : CloseTab(i)
           \/ Expire
           \/ UNCHANGED vars
  BY <1>3 DEF CloseTab, Expire, vars, budgetVars
<1>4. QED
  BY <1>1, <1>2, <1>3 DEF Next, Stopped

(* What a render answers Ok with was serialized while no cap was exceeded, *)
(* whatever the other threads do around it (lib.rs:1822-1834).             *)
THEOREM CapturesAreWithinBudget == Spec => []CaptureWithinBudget
<1>1. Init => CutInv
  BY DEF Init, CutInv
<1>2. CountInv /\ CutInv /\ [Next]_vars => CutInv'
  <2> SUFFICES ASSUME CountInv, CutInv, [Next]_vars PROVE CutInv'
    OBVIOUS
  <2>1. TypeOK /\ cleanCut \in BOOLEAN
    BY DEF CountInv, TypeOK
  <2>2. exceeded => exceeded'
    BY <2>1, StaysExceeded
  <2>3. CASE MainStep
    BY <2>1, <2>2, <2>3, MainFrame DEF CutInv
  <2>4. ASSUME NEW r \in Request, RequestStep(r)
        PROVE  CutInv'
    BY <2>2, <2>4, RequestFrame DEF CutInv
  <2>5. CASE \/ \E i \in Render : CloseTab(i)
             \/ Expire
             \/ UNCHANGED vars
    BY <2>2, <2>5 DEF CloseTab, Expire, vars, mainVars, CutInv
  <2>6. QED
    BY <2>3, <2>4, <2>5 DEF Next, Stopped
<1>3. CutInv => CaptureWithinBudget
  BY DEF CutInv, CaptureWithinBudget
<1>4. QED
  BY CountInit, CountStep, <1>1, <1>2, <1>3, PTL DEF Spec

(* The account of every body is opened, paid in full and closed exactly    *)
(* once, whatever fails in between (lib.rs:668-813).                       *)
THEOREM BodyAccountsAreExact == Spec => []BodyAccountsHold
<1>1. PendingIsExact /\ NoFreeBytes => BodyAccountsHold
  BY DEF BodyAccountsHold
<1>2. QED
  BY PendingExact, BodiesArePaid, <1>1, PTL

(* Neither a navigation too many nor an exhausted budget is behind a page  *)
(* that a render returns (lib.rs:529-548, 1788-1838).                      *)
THEOREM CapsAreHeld == Spec => []CapsHold
<1>1. NavigationBounded /\ CaptureWithinBudget => CapsHold
  BY DEF CapsHold
<1>2. QED
  BY NavigationsAreBounded, CapturesAreWithinBudget, <1>1, PTL

-----------------------------------------------------------------------------
(* The threads and renders that share the budget use it as RenderBudget    *)
(* says: every step accepts a request, charges what fits, exhausts, or     *)
(* leaves it alone (lib.rs:343-433).                                       *)
THEOREM BudgetIsImplemented == Spec => ImplementsBudget
<1>1. Init => Budget!Init
  BY DEF Init, Budget!Init
<1>2. CountInv /\ [Next]_vars => [Budget!Next]_<<count, bytes, exceeded>>
  <2> SUFFICES ASSUME CountInv, [Next]_vars
               PROVE  [Budget!Next]_<<count, bytes, exceeded>>
    OBVIOUS
  <2>1. TypeOK /\ count \in Nat /\ bytes \in Nat /\ MaxBytes \in Nat
    BY RenderAssumption DEF CountInv, TypeOK
  <2>2. Exhaust => Budget!Next
    BY DEF Exhaust, Budget!Next, Budget!Exhaust
  <2>3. ASSUME NEW r \in Request, NEW n \in Nat \ {0}, ChargeBytes(r, n)
        PROVE  Budget!Next
    <3>1. /\ ~exceeded /\ bytes + n <= MaxBytes /\ bytes' = bytes + n
          /\ count' = count /\ exceeded' = exceeded
      BY <2>3 DEF ChargeBytes, Fits
    <3>2. n \in 1..MaxBytes
      BY <2>1, <3>1
    <3>3. QED
      BY <3>1, <3>2 DEF Budget!Next, Budget!Charge
  <2>4. ASSUME NEW r \in Request, RequestStep(r)
        PROVE  [Budget!Next]_<<count, bytes, exceeded>>
    <3>1. CASE \/ Ask(r) \/ Deny(r) \/ RefuseHop(r) \/ Transmit(r)
               \/ PaceLate(r) \/ Respond(r)
      BY <3>1 DEF Ask, Deny, RefuseHop, Transmit, PaceLate, Respond,
                  budgetVars
    <3>2. CASE Accept(r)
      BY <3>2 DEF Accept, Budget!Next, Budget!Accept, Budget!Exhaust
    <3>3. CASE Block(r) \/ BodyError(r)
      BY <2>2, <3>3 DEF Block, BodyError
    <3>4. CASE \E n \in 1..Size[r] : DataReceived(r, n)
      <4>1. PICK n \in Nat \ {0} : DataReceived(r, n)
        BY <3>4, RenderAssumption
      <4>2. ChargeBytes(r, n) \/ Exhaust
        BY <4>1 DEF DataReceived
      <4>3. QED
        BY <2>2, <2>3, <4>2
    <3>5. CASE ChargeBody(r)
      <4>1. \/ UNCHANGED <<count, bytes, exceeded>>
            \/ Exhaust
            \/ Due(r) # 0 /\ ChargeBytes(r, Due(r))
        BY <3>5 DEF ChargeBody, budgetVars
      <4>2. Due(r) \in Nat
        BY <2>1, RenderAssumption DEF Due, TypeOK
      <4>3. QED
        BY <2>2, <2>3, <4>1, <4>2
    <3>6. CASE ReadMeter(r) \/ RaiseMeter(r) \/ Fulfill(r) \/ FinishBody(r)
      BY <3>6 DEF ReadMeter, RaiseMeter, Fulfill, FinishBody, budgetVars
    <3>7. QED
      BY <2>4, <3>1, <3>2, <3>3, <3>4, <3>5, <3>6 DEF RequestStep, BodyThread
  <2>5. CASE MainStep
    BY <2>1, <2>5, MainFrame
  <2>6. CASE \/ \E i \in Render : CloseTab(i)
             \/ Expire
             \/ UNCHANGED vars
    BY <2>6 DEF CloseTab, Expire, vars, budgetVars
  <2>7. QED
    BY <2>4, <2>5, <2>6 DEF Next, Stopped
<1>3. QED
  BY CountInit, CountStep, <1>1, <1>2, PTL
  DEF Spec, ImplementsBudget, Budget!Spec

-----------------------------------------------------------------------------
(* The DevTools transport the renders run on.                              *)
CallPc == {"idle", "target", "inner", "register", "send", "await", "awaitTarget", "ok", "failed"}

(* Only a call for a target has a second id.                               *)
LayerInv(c) == pc[c] \in {"target", "inner", "awaitTarget"} \/ Target(c) \in registry => c \in Tab

(* Nothing is delivered to an id before its call registers it.             *)
FreshInv(c) ==
  /\ pc[c] \in {"idle", "target", "inner", "register"} =>
       Wire(c) \notin registry /\ mail[Wire(c)] = "none"
  /\ pc[c] \in {"idle", "target"} =>
       Target(c) \notin registry /\ mail[Target(c)] = "none"

(* From its registration on, an id is registered or has been told.         *)
Known(i) == i \in registry \/ mail[i] # "none"
KnownInv(c) ==
  /\ pc[c] \in {"send", "await"} => Known(Wire(c))
  /\ c \in Tab /\ pc[c] \in {"inner", "register", "send", "await", "awaitTarget"} => Known(Target(c))
  /\ pc[c] = "awaitTarget" => mail[Wire(c)] = "answer"

(* What was told when the loop ended is all that will be waited for.       *)
ToldInv(c) == loop = "over" =>
  /\ pc[c] = "await" => \A i \in Ids(c) : mail[i] # "none"
  /\ pc[c] = "awaitTarget" => mail[Target(c)] # "none"

(* Nothing is kept for a call that is over.                                *)
LiveInv(c) == ~overdue /\ loop \in {"poll", "recv"} /\ ~Busy(c) =>
  Wire(c) \notin registry /\ Target(c) \notin registry

CallInv(c) == LayerInv(c) /\ FreshInv(c) /\ KnownInv(c) /\ ToldInv(c) /\ LiveInv(c)

(* The socket is closed before the calls are told, and only then.          *)
ClosingInv ==
  /\ loop \in {"flag", "cancel", "over"} => ~conn
  /\ loop # "over" => \A i \in Id : mail[i] # "closed"

WaitInv == CdpTypeOK /\ ClosingInv /\ \A c \in Call : CallInv(c)

-----------------------------------------------------------------------------
(* The ids of different calls, and of different layers, differ.            *)
LEMMA IdsDiffer ==
  ASSUME NEW c \in Call
  PROVE  /\ Wire(c) \in Id /\ Target(c) \in Id /\ Wire(c) # Target(c)
         /\ Wire(c).call = c /\ Target(c).call = c
         /\ Ids(c) \subseteq {Wire(c), Target(c)} /\ Wire(c) \in Ids(c)
         /\ (Target(c) \in Ids(c)) <=> c \in Tab
         /\ \A d \in Call : d # c => Wire(d) \notin {Wire(c), Target(c)}
                                 /\ Target(d) \notin {Wire(c), Target(c)}
         /\ \A i \in Id : i.call = c => i \in {Wire(c), Target(c)}
         /\ \A i \in Id : i.call \in Call
  BY DEF Id, Wire, Target, Ids

LEMMA WaitInit == CdpInit => WaitInv
  <1> SUFFICES ASSUME CdpInit PROVE WaitInv
    OBVIOUS
  <1> USE DEF CdpInit
  <1>1. CdpTypeOK
    <2>1. mail \in [Id -> {"none", "answer", "closed"}]
      OBVIOUS
    <2>2. chan \in Seq(Message) /\ events \in 0..MaxEvents
      BY TransportAssumption
    <2>3. QED
      BY <2>1, <2>2 DEF CdpTypeOK
  <1>2. ClosingInv
    BY DEF ClosingInv
  <1>3. ASSUME NEW c \in Call PROVE CallInv(c)
    BY IdsDiffer DEF CallInv, LayerInv, FreshInv, KnownInv, ToldInv, LiveInv
  <1>4. QED
    BY <1>1, <1>2, <1>3 DEF WaitInv

-----------------------------------------------------------------------------
(* A step of a call moves that call alone, and only the ids it owns.       *)
LEMMA CallerFrame ==
  ASSUME CdpTypeOK, NEW c \in Call, Begin(c) \/ CallStep(c)
  PROVE  /\ pc' = [pc EXCEPT ![c] = pc'[c]] /\ pc'[c] \in CallPc
         /\ mail' = mail /\ UNCHANGED socketVars /\ UNCHANGED <<peer, events, overdue>>
         /\ asked' \subseteq Id
         /\ registry' \subseteq registry \cup {Wire(c), Target(c)}
         /\ registry \subseteq registry' \cup {Wire(c), Target(c)}
  <1> USE IdsDiffer DEF CdpTypeOK, CallPc, CallGoes, Fail, socketVars, envVars
  <1>1. CASE Begin(c) \/ RegisterTarget(c) \/ BeginWire(c) \/ Register(c)
    BY <1>1 DEF Begin, RegisterTarget, BeginWire, Register
  <1>2. CASE Send(c) \/ SendFails(c)
    BY <1>2 DEF Send, SendFails
  <1>3. CASE AwaitFails(c) \/ AwaitAnswer(c) \/ AwaitTimesOut(c)
    BY <1>3 DEF AwaitFails, AwaitAnswer, AwaitTimesOut
  <1>4. CASE AwaitTarget(c) \/ AwaitTargetFails(c)
    BY <1>4 DEF AwaitTarget, AwaitTargetFails
  <1>5. QED
    BY <1>1, <1>2, <1>3, <1>4 DEF CallStep

(* What a step of a call makes of its own part of the invariant.           *)
LEMMA CallerOwn ==
  ASSUME WaitInv, NEW c \in Call, Begin(c) \/ CallStep(c)
  PROVE  CallInv(c)' /\ \A i \in registry' : mail[i] # "answer"
  <1> USE IdsDiffer
      DEF WaitInv, CdpTypeOK, CallPc, ClosingInv, CallInv, LayerInv, FreshInv, KnownInv, Known, ToldInv,
          LiveInv,
          Busy, CallGoes, Fail, socketVars, envVars
  <1>1. CASE Begin(c)
    BY <1>1 DEF Begin
  <1>2. CASE RegisterTarget(c)
    BY <1>2 DEF RegisterTarget
  <1>3. CASE BeginWire(c)
    BY <1>3 DEF BeginWire
  <1>4. CASE Register(c)
    BY <1>4 DEF Register
  <1>5. CASE Send(c)
    BY <1>5 DEF Send
  <1>6. CASE SendFails(c)
    BY <1>6 DEF SendFails
  <1>7. CASE AwaitFails(c)
    BY <1>7 DEF AwaitFails
  <1>8. CASE AwaitAnswer(c)
    BY <1>8 DEF AwaitAnswer
  <1>9. CASE AwaitTimesOut(c)
    BY <1>9 DEF AwaitTimesOut
  <1>10. CASE AwaitTarget(c)
    BY <1>10 DEF AwaitTarget
  <1>11. CASE AwaitTargetFails(c)
    BY <1>11 DEF AwaitTargetFails
  <1>12. QED
    BY <1>1, <1>2, <1>3, <1>4, <1>5, <1>6, <1>7, <1>8, <1>9, <1>10, <1>11 DEF CallStep

LEMMA CallerSafe ==
  ASSUME WaitInv, NEW c \in Call, Begin(c) \/ CallStep(c)
  PROVE  WaitInv'
  <1>1. CdpTypeOK' /\ ClosingInv'
    BY CallerFrame, CallerOwn, IdsDiffer DEF WaitInv, CdpTypeOK, CallPc, ClosingInv, socketVars
  <1>2. ASSUME NEW d \in Call, d # c PROVE CallInv(d)'
    BY <1>2, CallerFrame, IdsDiffer
       DEF WaitInv, CdpTypeOK, CallPc, CallInv, LayerInv, FreshInv, KnownInv, Known, ToldInv, LiveInv,
           Busy, socketVars
  <1>3. QED
    BY <1>1, <1>2, CallerOwn DEF WaitInv

-----------------------------------------------------------------------------
(* The threads of the transport and the environment move no call.          *)
LEMMA TransportFrame ==
  ASSUME CdpTypeOK, MessageLoop \/ LoopIdles \/ WsEnds \/ Environment
  PROVE  CdpTypeOK' /\ pc' = pc
  <1> USE DEF CdpTypeOK, callVars, socketVars, envVars
  <1>1. CASE LoopPoll \/ LoopIdles \/ LoopCloses \/ LoopFlags
    BY <1>1 DEF LoopPoll, LoopIdles, LoopCloses, CloseConnection, LoopFlags
  <1>2. CASE LoopRecv
    <2>1. chan' \in Seq(Message) /\ Head(chan) \in Message
      BY <1>2 DEF LoopRecv
    <2>2. CASE Head(chan).kind = "response" /\ Resolve(Head(chan).to) /\ loop' = "poll"
      BY <1>2, <2>1, <2>2 DEF LoopRecv, Resolve
    <2>3. CASE UNCHANGED callVars /\ loop' \in {"poll", "closing"}
      BY <1>2, <2>1, <2>3 DEF LoopRecv
    <2>4. QED
      BY <1>2, <2>2, <2>3 DEF LoopRecv, AfterResponse
  <1>3. CASE LoopCancels
    BY <1>3 DEF LoopCancels, ToBeTold
  <1>4. CASE WsEnds \/ Event \/ \E i \in Id : Response(i)
    <2>1. \A m \in Message : Append(chan, m) \in Seq(Message)
      OBVIOUS
    <2>2. chan' \in Seq(Message)
      BY <1>4, <2>1 DEF WsEnds, Event, Response, Forward, Message, ResponseTo, BrowserEvent, ConnectionShutdown
    <2>3. events' \in 0..MaxEvents
      BY <1>4, TransportAssumption DEF WsEnds, Event, Response
    <2>4. QED
      BY <1>4, <2>2, <2>3 DEF WsEnds, Event, Response, Forward
  <1>5. CASE Shutdown \/ TellLoop \/ ListenerEnds \/ PeerGoes \/ DeadlinePasses
    BY <1>5 DEF Shutdown, TellLoop, ListenerEnds, PeerGoes, DeadlinePasses
  <1>6. QED
    BY <1>1, <1>2, <1>3, <1>4, <1>5 DEF MessageLoop, Environment

LEMMA TransportSafe ==
  ASSUME WaitInv, MessageLoop \/ LoopIdles \/ WsEnds \/ Environment
  PROVE  WaitInv'
  <1>1. CdpTypeOK /\ CdpTypeOK' /\ pc' = pc
    BY TransportFrame DEF WaitInv
  <1> SUFFICES ClosingInv' /\ \A c \in Call : CallInv(c)'
    BY <1>1 DEF WaitInv
  <1> USE <1>1, IdsDiffer DEF WaitInv, ClosingInv, CallInv, LayerInv, FreshInv, KnownInv,
          Known, ToldInv, LiveInv, Busy, callVars, socketVars, envVars
  <1>2. CASE LoopPoll \/ LoopIdles \/ LoopFlags
    BY <1>2 DEF LoopPoll, LoopIdles, LoopFlags
  <1>3. CASE LoopCloses
    BY <1>3 DEF LoopCloses, CloseConnection
  <1>4. CASE LoopRecv
    <2>1. CASE UNCHANGED callVars
      BY <1>4, <2>1 DEF LoopRecv, AfterResponse
    <2>2. CASE Resolve(Head(chan).to)
      BY <1>4, <2>2 DEF LoopRecv, AfterResponse, Resolve, CdpTypeOK
    <2>3. QED
      BY <1>4, <2>1, <2>2 DEF LoopRecv
  <1>5. CASE LoopCancels
    <2>1. /\ loop' = "over" /\ UNCHANGED <<pc, registry, conn, overdue>> /\ ~conn
          /\ \A i \in Id : mail'[i] = IF i \in registry THEN "closed" ELSE mail[i]
      BY <1>5 DEF LoopCancels, ToBeTold
    <2>2. ClosingInv'
      BY <2>1
    <2>3. ASSUME NEW c \in Call PROVE CallInv(c)'
      BY <2>1, SMTT(40) DEF CdpTypeOK
    <2>4. QED
      BY <2>2, <2>3
  <1>6. CASE WsEnds \/ Event \/ \E i \in Id : Response(i)
    BY <1>6 DEF WsEnds, Event, Response, Forward
  <1>7. CASE Shutdown \/ TellLoop \/ ListenerEnds \/ PeerGoes \/ DeadlinePasses
    BY <1>7 DEF Shutdown, TellLoop, ListenerEnds, PeerGoes, DeadlinePasses
  <1>8. QED
    BY <1>2, <1>3, <1>4, <1>5, <1>6, <1>7 DEF MessageLoop, Environment

LEMMA WaitStep == WaitInv /\ [CdpNext]_cdpVars => WaitInv'
  <1> SUFFICES ASSUME WaitInv, [CdpNext]_cdpVars PROVE WaitInv'
    OBVIOUS
  <1>1. CASE UNCHANGED cdpVars
    BY <1>1 DEF cdpVars, callVars, socketVars, envVars, WaitInv, CdpTypeOK, ClosingInv, CallInv, LayerInv,
       FreshInv,
                KnownInv, Known, ToldInv, LiveInv, Busy
  <1>2. QED
    BY <1>1, CallerSafe, TransportSafe DEF CdpNext

-----------------------------------------------------------------------------
(* The variables keep their types: what the channel carries is a message,  *)
(* and an id that was answered is not registered (mod.rs:160-227).         *)
THEOREM CallsTyped == CdpSpec => []CdpTypeOK
  <1>1. CdpInit => WaitInv
    BY WaitInit
  <1>2. WaitInv /\ [CdpNext]_cdpVars => WaitInv'
    BY WaitStep
  <1>3. WaitInv => CdpTypeOK
    BY DEF WaitInv
  <1>4. QED
    BY <1>1, <1>2, <1>3, PTL DEF CdpSpec

(* The loop has a cause to end, and the news that Chromium is gone is true *)
(* while it is on its way.                                                 *)
CauseInv ==
  /\ LoopEndsForCause
  /\ \A k \in DOMAIN chan : chan[k].kind = "shutdown" => ~peer

(* The message loop leaves for no other cause, whatever it is told.        *)
LEMMA LoopKeepsCause ==
  ASSUME CdpTypeOK, CauseInv, MessageLoop \/ LoopIdles
  PROVE  CauseInv'
  <1> USE DEF CauseInv, LoopEndsForCause, CdpTypeOK, envVars
  <1>1. CASE LoopPoll \/ LoopIdles \/ LoopCloses \/ LoopFlags \/ LoopCancels
    BY <1>1 DEF LoopPoll, LoopIdles, LoopCloses, CloseConnection, LoopFlags, LoopCancels
  <1>2. CASE LoopRecv
    <2>1. /\ Head(chan) = chan[1] /\ 1 \in DOMAIN chan
          /\ \A k \in DOMAIN chan' : k + 1 \in DOMAIN chan /\ chan'[k] = chan[k + 1]
      BY <1>2 DEF LoopRecv
    <2>2. Head(chan).kind \in {"response", "event", "shutdown"}
      BY <2>1 DEF Message, ResponseTo, BrowserEvent, ConnectionShutdown
    <2>3. Head(chan).kind = "shutdown" => ~peer
      BY <2>1
    <2>4. LoopEndsForCause'
      BY <1>2, <2>2, <2>3 DEF LoopRecv, AfterResponse
    <2>5. QED
      BY <1>2, <2>1, <2>4 DEF LoopRecv
  <1>3. QED
    BY <1>1, <1>2 DEF MessageLoop

(* The other threads and Chromium take no cause away.                      *)
LEMMA OthersKeepCause ==
  ASSUME CdpTypeOK, CauseInv, WsEnds \/ Environment
  PROVE  CauseInv'
  <1> USE DEF CauseInv, LoopEndsForCause, CdpTypeOK, callVars, socketVars, envVars
  <1>1. CASE WsEnds
    BY <1>1 DEF WsEnds, ConnectionShutdown, MayRead
  <1>2. CASE Event \/ \E i \in Id : Response(i)
    <2>1. UNCHANGED <<loop, overdue, peer, listener, stop>>
      BY <1>2 DEF Event, Response, Forward
    <2>2. chan' = chan \/ \E m : m.kind # "shutdown" /\ chan' = Append(chan, m)
      BY <1>2 DEF Event, Response, Forward, ResponseTo, BrowserEvent
    <2>3. \A k \in DOMAIN chan' : chan'[k].kind = "shutdown" => ~peer
      BY <2>2
    <2>4. QED
      BY <2>1, <2>3
  <1>3. CASE Shutdown \/ TellLoop \/ ListenerEnds \/ PeerGoes \/ DeadlinePasses
    BY <1>3 DEF Shutdown, TellLoop, ListenerEnds, PeerGoes, DeadlinePasses
  <1>4. QED
    BY <1>1, <1>2, <1>3 DEF Environment

LEMMA CauseStep == WaitInv /\ CauseInv /\ [CdpNext]_cdpVars => CauseInv'
  <1> SUFFICES ASSUME WaitInv, CauseInv, [CdpNext]_cdpVars PROVE CauseInv'
    OBVIOUS
  <1>1. CdpTypeOK
    BY DEF WaitInv
  <1>2. CASE UNCHANGED cdpVars
    BY <1>2 DEF cdpVars, socketVars, envVars, CauseInv, LoopEndsForCause
  <1>3. ASSUME NEW c \in Call, Begin(c) \/ CallStep(c)
        PROVE  CauseInv'
    BY <1>1, <1>3, CallerFrame DEF socketVars, CauseInv, LoopEndsForCause
  <1>4. QED
    BY <1>1, <1>2, <1>3, LoopKeepsCause, OthersKeepCause DEF CdpNext

LEMMA CallsRegistered == WaitInv /\ CauseInv => CallsAreRegistered
  <1> SUFFICES ASSUME WaitInv, CauseInv PROVE NoStrandedCall /\ RegistryHoldsLiveCalls
    BY DEF CallsAreRegistered, CauseInv
  <1>1. NoStrandedCall
    BY IdsDiffer DEF WaitInv, CallInv, ToldInv, NoStrandedCall
  <1>2. RegistryHoldsLiveCalls
    <2> SUFFICES ASSUME ~overdue, loop \in {"poll", "recv"}, NEW i \in registry
                 PROVE  Busy(i.call) /\ i \in Ids(i.call)
      BY DEF RegistryHoldsLiveCalls
    <2>1. i \in Id /\ i.call \in Call /\ CallInv(i.call)
      BY IdsDiffer DEF WaitInv, CdpTypeOK, Id
    <2>2. i = Wire(i.call) \/ i = Target(i.call)
      BY <2>1, IdsDiffer
    <2>3. QED
      BY <2>1, <2>2, IdsDiffer DEF CallInv, LayerInv, LiveInv
  <1>3. QED
    BY <1>1, <1>2

(* However registering, sending, closing and answering interleave, for any *)
(* number of calls: a call that waits when the loop is over was told, the  *)
(* registry keeps nothing of a call that ended, and no answer to a call    *)
(* that gave up ends the loop under the others (mod.rs:160-227, 337-352,   *)
(* 414-425).                                                               *)
THEOREM NobodyIsStranded == CdpSpec => []CallsAreRegistered
  <1>1. CdpInit => WaitInv /\ CauseInv
    BY WaitInit DEF CdpInit, CauseInv, LoopEndsForCause
  <1>2. WaitInv /\ CauseInv /\ [CdpNext]_cdpVars => (WaitInv /\ CauseInv)'
    BY WaitStep, CauseStep
  <1>3. WaitInv /\ CauseInv => CallsAreRegistered
    BY CallsRegistered
  <1>4. QED
    BY <1>1, <1>2, <1>3, PTL DEF CdpSpec

-----------------------------------------------------------------------------
(* What the steps of a tab's threads may be. Callers hold no mutex but the *)
(* bindings', and unwrap a removal under no other.                         *)
Called == {"Navigate", "AddBinding", "QuerySelector", "DescribeNode", "GetFirstResult", "other"}
Stored == {TRUE, FALSE, "idle", "node", "ask", "defer", "caller", "responses", "failures"}
Ons == Called \cup Stored \cup TabRequest
AnyCall == [do : {"call"}, on : Called, under : {"none"}]
CallerStep ==
  AnyCall
    \cup [do : {"try", "insist", "first or panic", "await", "unlock", "navigating", "bind", "continue"},
          on : Ons \cup Mutex \cup {"GetContentQuads", "CallFunctionOn"}, under : {"none"}]
    \cup [do : {"lock"}, on : {"bindings"}, under : {"bindings"}]
    \cup [do : {"unbind"}, on : {FALSE}, under : {"bindings"}]
    \cup [do : {"decision", "listen", "unlisten", "handle", "unhandle", "credentials"},
          on : Ons, under : Mutex]

(* What a sequence of calls is made of.                                    *)
LEMMA CallsMade ==
  ASSUME NEW ms, NEW n \in Nat, DOMAIN ms = 1..n
  PROVE  Calls(ms) \in Seq(AnyCall)
  <1> DEFINE e(i) == [do |-> "call", on |-> IF ms[i] \in ToldApart THEN ms[i] ELSE "other", under |-> "none"]
  <1>1. \A i \in 1..n : e(i) \in AnyCall
    BY DEF AnyCall, Called, ToldApart
  <1>2. Calls(ms) = [i \in 1..n |-> e(i)]
    BY DEF Calls, Do, Under
  <1> HIDE DEF e
  <1>3. [i \in 1..n |-> e(i)] \in [1..n -> AnyCall]
    BY <1>1
  <1>4. QED
    BY <1>2, <1>3, SeqDef

(* Such steps, one after the other.                                        *)
LEMMA CallerSteps ==
  /\ Seq(AnyCall) \subseteq Seq(CallerStep)
  /\ \A a, b \in Seq(CallerStep) : a \o b \in Seq(CallerStep)
  /\ \A e \in CallerStep : <<e>> \in Seq(CallerStep)
  <1>1. AnyCall \subseteq CallerStep
    BY DEF CallerStep
  <1>2. \A s \in Seq(AnyCall) : s \in Seq(CallerStep)
    BY <1>1, SeqMonotonic
  <1>3. QED
    BY <1>2

(* Every method is made of such steps.                                     *)
LEMMA Programs ==
  /\ \A m \in DOMAIN Program : Program[m] \in Seq(CallerStep)
  /\ Waiting \subseteq DOMAIN Program
  /\ MidpointByScript \in Seq(CallerStep)
  <1> DEFINE S == Seq(CallerStep)
  <1>1. \A a, b \in S : a \o b \in S
    BY CallerSteps
  <1>2. \A ms : \A n \in Nat : DOMAIN ms = 1..n => Calls(ms) \in S
    BY CallsMade, CallerSteps
  <1>3. \A do, on, under : [do |-> do, on |-> on, under |-> under] \in CallerStep => Under(under, do, on) \in S
    BY CallerSteps DEF Under
  <1> HIDE DEF S
  <1>4. \A a : Calls(<<a>>) \in S
    <2> TAKE a
    <2>1. DOMAIN <<a>> = 1..1
      OBVIOUS
    <2>2. QED
      BY <1>2, <2>1
  <1>5. \A a, b : Calls(<<a, b>>) \in S
    <2> TAKE a, b
    <2>1. DOMAIN <<a, b>> = 1..2
      OBVIOUS
    <2>2. QED
      BY <1>2, <2>1
  <1>6. \A a, b, c : Calls(<<a, b, c>>) \in S
    <2> TAKE a, b, c
    <2>1. DOMAIN <<a, b, c>> = 1..3
      OBVIOUS
    <2>2. QED
      BY <1>2, <2>1
  <1>7. Calls([i \in 1..5 |-> "AddScript"]) \in S
    <2>1. DOMAIN [i \in 1..5 |-> "AddScript"] = 1..5
      OBVIOUS
    <2>2. QED
      BY <1>2, <2>1
  <1>8. /\ Do("insist", "CallFunctionOn") \in S /\ Do("try", "GetContentQuads") \in S
        /\ Do("first or panic", "node") \in S /\ Do("await", "idle") \in S
        /\ Do("navigating", TRUE) \in S /\ Do("bind", TRUE) \in S /\ Do("unlock", "bindings") \in S
    <2>1. \A do \in {"try", "insist", "first or panic", "await", "unlock", "navigating", "bind"} :
             \A on \in Ons \cup Mutex \cup {"GetContentQuads", "CallFunctionOn"} :
               [do |-> do, on |-> on, under |-> "none"] \in CallerStep
      BY DEF CallerStep
    <2>2. {"CallFunctionOn", "GetContentQuads", "node", "idle", TRUE, "bindings"}
             \subseteq Ons \cup Mutex \cup {"GetContentQuads", "CallFunctionOn"}
      BY DEF Ons, Stored, Mutex
    <2>3. QED
      BY <1>3, <2>1, <2>2, Zenon DEF Do
  <1>9. Under("bindings", "lock", "bindings") \in S /\ Under("bindings", "unbind", FALSE) \in S
    <2>1. /\ [do |-> "lock", on |-> "bindings", under |-> "bindings"] \in CallerStep
          /\ [do |-> "unbind", on |-> FALSE, under |-> "bindings"] \in CallerStep
      BY DEF CallerStep
    <2>2. QED
      BY <1>3, <2>1, Zenon
  <1>10. \A do \in {"decision", "listen", "unlisten", "handle", "unhandle", "credentials"},
           on \in Stored, under \in Mutex :
           Under(under, do, on) \in S
    <2>1. \A do \in {"decision", "listen", "unlisten", "handle", "unhandle", "credentials"},
            on \in Stored, under \in Mutex :
             [do |-> do, on |-> on, under |-> under] \in CallerStep
      BY DEF CallerStep, Ons
    <2>2. QED
      BY <1>3, <2>1, Zenon
  <1>11. /\ WaitUntilNavigated \in S /\ NewElement \in S /\ IsVisible \in S /\ SendCharacter \in S
         /\ PressKey \in S /\ MoveMouse \in S /\ ScrollIntoView \in S /\ Midpoint \in S
         /\ MidpointByScript \in S /\ SetBounds \in S /\ SetCookies \in S /\ SetExtraHeaders \in S
         /\ EnableStealthMode \in S
    BY <1>1, <1>4, <1>5, <1>6, <1>7, <1>8, <1>9, Zenon
       DEF WaitUntilNavigated, NewElement, IsVisible, SendCharacter, PressKey, MoveMouse, ScrollIntoView,
           Midpoint, MidpointByScript, SetBounds, SetCookies, SetExtraHeaders, EnableStealthMode
  <1>12. /\ NavigateTo \in S /\ PageCall \in S /\ ProfilerCall \in S /\ RuntimeCall \in S
         /\ TargetCall \in S /\ StorageCall \in S /\ ScreencastCall \in S /\ ElementCall \in S
    BY <1>1, <1>4, <1>5, <1>6, <1>7, <1>8, <1>9, <1>11, Zenon
       DEF NavigateTo, PageCall, ProfilerCall, RuntimeCall, TargetCall, StorageCall, ScreencastCall, ElementCall
  <1>13. /\ FindElement \in S /\ FindByXpath \in S /\ FindElements \in S /\ FindElementsByXpath \in S
         /\ FindInElement \in S /\ FindInElementByXpath \in S
    BY <1>1, <1>4, <1>5, <1>6, <1>7, <1>8, <1>9, <1>11, <1>12, Zenon
       DEF FindElement, FindByXpath, FindElements, FindElementsByXpath, FindInElement, FindInElementByXpath
  <1>14. /\ TypeStr \in S /\ ClickPoint \in S /\ MoveMouseOver \in S /\ Focus \in S
         /\ ElementScreenshot \in S
    BY <1>1, <1>4, <1>5, <1>6, <1>7, <1>8, <1>9, <1>11, <1>12, <1>13, Zenon
       DEF TypeStr, ClickPoint, MoveMouseOver, Focus, ElementScreenshot
  <1>15. /\ FindVisible \in S /\ Click \in S
    BY <1>1, <1>4, <1>5, <1>6, <1>7, <1>8, <1>9, <1>11, <1>12, <1>13, <1>14, Zenon
       DEF FindVisible, Click
  <1>16. /\ TypeInto \in S /\ RemoveFunction \in S
    BY <1>1, <1>4, <1>5, <1>6, <1>7, <1>8, <1>9, <1>11, <1>12, <1>13, <1>14, <1>15, Zenon
       DEF TypeInto, RemoveFunction
  <1>17. ExposeFunction \in S
    <2>1. Do("bind", TRUE) \o Calls(<<"AddBinding", "AddScript">>) \in S
      BY <1>1, <1>5, <1>8, Zenon
    <2>2. QED
      BY <1>1, <1>8, <1>9, <2>1, Zenon DEF ExposeFunction, Holding
  <1>18. /\ EnableInterception("ask") \in S /\ EnableInterception("defer") \in S /\ Authenticate \in S
         /\ AddEventListener("caller") \in S /\ RemoveEventListener("caller") \in S
         /\ RegisterHandling("responses") \in S /\ RegisterHandling("failures") \in S
         /\ DeregisterHandling("responses") \in S
    <2>1. /\ {"ask", "defer", TRUE, "caller", "responses", "failures"} \subseteq Stored
          /\ {"interceptor", "auth", "listeners", "responses", "failures"} \subseteq Mutex
      BY DEF Stored, Mutex
    <2>2. QED
      BY <1>1, <1>4, <1>10, <2>1, Zenon DEF EnableInterception, Authenticate, AddEventListener,
         RemoveEventListener, RegisterHandling, DeregisterHandling
  <1>19. \A m \in DOMAIN Program : Program[m] \in S
    BY <1>11, <1>12, <1>13, <1>14, <1>15, <1>16, <1>17, <1>18, SMTT(60) DEF Program
  <1>20. Waiting \subseteq DOMAIN Program
    BY DEF Waiting, Program
  <1>21. QED
    BY <1>11, <1>19, <1>20 DEF S
-----------------------------------------------------------------------------
(* The event thread. It runs calls, decisions and unlocks; while an event  *)
(* is before it, it holds the listeners' mutex and no other, and what it   *)
(* holds it is going to leave. A binding is called only once installed.    *)
Left(m) == [do |-> "unlock", on |-> m, under |-> "none"]
LoopStep == AnyCall \cup [do : {"unlock", "continue", "authorize"}, on : Mutex \cup TabRequest, under : {"none"}]
Calm == [do : {"lifecycle"}, on : {"init", "networkAlmostIdle"}, under : {"none"}]
          \cup [do : {"received"}, on : TabRequest, under : {"none"}]
          \cup [do : {"paused"}, on : TabRequest, under : {"interceptor"}]
          \cup [do : {"auth"}, on : TabRequest, under : {"auth"}]
          \cup [do : {"responses"}, on : TabRequest, under : {"responses"}]
          \cup [do : {"failures"}, on : TabRequest, under : {"failures"}]
Heard(inst) == Calm \cup {e \in [do : {"binding"}, on : {"f"}, under : {"bindings"}] : inst}

Elements(s) == {s[i] : i \in 1..Len(s)}
Handling(s, held, inst) ==
  \E a \in Seq(LoopStep), e \in Heard(inst) : s = a \o <<e, Left("listeners")>> /\ held \subseteq {"listeners"}
LoopOk(s, held, inst) ==
  /\ s \in Seq(LoopStep) \/ Handling(s, held, inst)
  /\ \A m \in held : Left(m) \in Elements(s)

(* The elements of a sequence, by its parts.                               *)
LEMMA ElementsParts ==
  ASSUME NEW S
  PROVE  /\ \A a, b \in Seq(S) : Elements(a \o b) = Elements(a) \cup Elements(b)
         /\ \A e \in S : Elements(<<e>>) = {e}
         /\ \A s \in Seq(S) : s # <<>> => Elements(s) = {Head(s)} \cup Elements(Tail(s))
         /\ Elements(<<>>) = {}
  <1>1. ASSUME NEW a \in Seq(S), NEW b \in Seq(S)
        PROVE  Elements(a \o b) = Elements(a) \cup Elements(b)
    <2>1. Elements(a \o b) \subseteq Elements(a) \cup Elements(b)
      BY DEF Elements
    <2>2. ASSUME NEW i \in 1..Len(a)
          PROVE  a[i] \in Elements(a \o b)
      <3>1. i \in 1..Len(a \o b) /\ (a \o b)[i] = a[i]
        OBVIOUS
      <3>2. QED
        BY <3>1, Zenon DEF Elements
    <2>3. ASSUME NEW i \in 1..Len(b)
          PROVE  b[i] \in Elements(a \o b)
      <3>1. Len(a) + i \in 1..Len(a \o b) /\ (a \o b)[Len(a) + i] = b[i]
        OBVIOUS
      <3>2. QED
        BY <3>1, Zenon DEF Elements
    <2>4. QED
      BY <2>1, <2>2, <2>3, Zenon DEF Elements
  <1>2. ASSUME NEW e \in S
        PROVE  Elements(<<e>>) = {e}
    <2>1. Len(<<e>>) = 1 /\ <<e>>[1] = e /\ 1..1 = {1}
      OBVIOUS
    <2>2. QED
      BY <2>1 DEF Elements
  <1>3. ASSUME NEW s \in Seq(S), s # <<>>
        PROVE  Elements(s) = {Head(s)} \cup Elements(Tail(s))
    <2>1. <<Head(s)>> \in Seq(S) /\ Tail(s) \in Seq(S) /\ s = <<Head(s)>> \o Tail(s) /\ Head(s) \in S
      BY <1>3
    <2>2. QED
      BY <1>1, <1>2, <2>1, ZenonT(40)
  <1>4. Elements(<<>>) = {}
    BY DEF Elements
  <1>5. QED
    BY <1>1, <1>2, <1>3, <1>4

(* An event is not one of the other steps.                                 *)
LEMMA LoopTypes ==
  /\ \A inst : Heard(inst) \cap LoopStep = {}
  /\ \A m \in Mutex : Left(m) \in LoopStep
  /\ "listeners" \in Mutex
  /\ \A inst : Heard(inst) \subseteq Heard(TRUE)
  <1>1. \A inst : \A e \in Heard(inst) : e \notin LoopStep
    <2>1. \A e \in LoopStep : e.do \in {"call", "unlock", "continue", "authorize"}
      BY DEF LoopStep, AnyCall
    <2>2. \A inst : \A e \in Heard(inst) : e.do \notin {"call", "unlock", "continue", "authorize"}
      BY DEF Heard, Calm
    <2>3. QED
      BY <2>1, <2>2, Zenon
  <1>2. \A m \in Mutex : Left(m) \in LoopStep
    BY DEF Left, LoopStep
  <1>3. QED
    BY <1>1, <1>2 DEF Mutex, Heard

(* What may come first, and what is left after it.                         *)
LEMMA LoopAdvances ==
  ASSUME NEW s, NEW held \in SUBSET Mutex, NEW inst, LoopOk(s, held, inst), s # <<>>,
         NEW rest \in SUBSET held, \A m \in rest : Left(m) # Head(s)
  PROVE  /\ LoopOk(Tail(s), rest, inst)
         /\ Head(s) \in LoopStep \cup Heard(inst)
         /\ Head(s) \in Heard(inst) => Tail(s) \in Seq(LoopStep) /\ held \subseteq {"listeners"}
  <1> DEFINE S == LoopStep \cup Heard(inst)
             last == Left("listeners")
  <1>1. last \in LoopStep
    BY LoopTypes
  <1>2. /\ s \in Seq(S) /\ Head(s) \in S
        /\ Tail(s) \in Seq(LoopStep) \/ Handling(Tail(s), rest, inst)
        /\ Head(s) \in Heard(inst) => Tail(s) \in Seq(LoopStep) /\ held \subseteq {"listeners"}
    <2>1. CASE s \in Seq(LoopStep)
      <3>1. Head(s) \in LoopStep /\ Tail(s) \in Seq(LoopStep) /\ s \in Seq(S)
        BY <2>1, SeqMonotonic
      <3>2. QED
        BY <3>1, LoopTypes
    <2>2. CASE Handling(s, held, inst)
      <3>1. PICK a \in Seq(LoopStep), e \in Heard(inst) : s = a \o <<e, last>> /\ held \subseteq {"listeners"}
        BY <2>2 DEF Handling
      <3> HIDE DEF last
      <3>2. <<e, last>> \in Seq(S) /\ a \in Seq(S)
        BY <1>1, SeqMonotonic
      <3>3. s \in Seq(S)
        BY <3>1, <3>2
      <3>4. CASE a = <<>>
        <4>1. s = <<e, last>>
          BY <3>1, <3>2, <3>4
        <4>2. Head(s) = e /\ Tail(s) = <<last>> /\ <<last>> \in Seq(LoopStep)
          BY <1>1, <4>1
        <4>3. QED
          BY <3>1, <3>3, <4>2
      <3>5. CASE a # <<>>
        <4>1. Head(s) = Head(a) /\ Tail(s) = Tail(a) \o <<e, last>> /\ Head(a) \in LoopStep
              /\ Tail(a) \in Seq(LoopStep)
          BY <3>1, <3>2, <3>5
        <4>2. Handling(Tail(s), rest, inst)
          BY <3>1, <4>1, Zenon DEF Handling, last
        <4>3. QED
          BY <3>3, <4>1, <4>2, LoopTypes
      <3>6. QED
        BY <3>4, <3>5
    <2>3. QED
      BY <2>1, <2>2 DEF LoopOk
  <1>3. \A m \in rest : Left(m) \in Elements(Tail(s))
    <2>1. Elements(s) = {Head(s)} \cup Elements(Tail(s))
      BY <1>2, ElementsParts
    <2>2. \A m \in rest : Left(m) \in Elements(s)
      BY DEF LoopOk
    <2>3. QED
      BY <2>1, <2>2
  <1>4. QED
    BY <1>2, <1>3 DEF LoopOk

(* Holding less, or knowing more installed, changes nothing of it.         *)
LEMMA LoopKeeps ==
  ASSUME NEW s, NEW held \in SUBSET Mutex, NEW inst, LoopOk(s, held, inst),
         NEW less \in SUBSET held, NEW more, inst => more
  PROVE  LoopOk(s, less, more)
  <1>1. Heard(inst) \subseteq Heard(more)
    BY DEF Heard
  <1>2. QED
    BY <1>1 DEF LoopOk, Handling

(* A thread with nothing to do holds nothing.                              *)
LEMMA LoopRests ==
  /\ \A inst : LoopOk(<<>>, {}, inst)
  /\ \A inst, held : LoopOk(<<>>, held, inst) => held = {}
  <1>1. Elements(<<>>) = {}
    BY DEF Elements
  <1>2. <<>> \in Seq(LoopStep)
    OBVIOUS
  <1>3. QED
    BY <1>1, <1>2 DEF LoopOk

(* Two elements after a sequence.                                          *)
LEMMA TwoMore ==
  ASSUME NEW S, NEW s \in Seq(S), NEW e \in S, NEW l \in S
  PROVE  (s \o <<e>>) \o <<l>> = s \o <<e, l>>
  <1>1. (s \o <<e>>) \o <<l>> \in Seq(S) /\ s \o <<e, l>> \in Seq(S)
    OBVIOUS
  <1>2. Len((s \o <<e>>) \o <<l>>) = Len(s) + 2 /\ Len(s \o <<e, l>>) = Len(s) + 2
    OBVIOUS
  <1>3. ASSUME NEW i \in 1..(Len(s) + 2)
        PROVE  ((s \o <<e>>) \o <<l>>)[i] = (s \o <<e, l>>)[i]
    OBVIOUS
  <1>4. QED
    BY <1>1, <1>2, <1>3, SeqEqual

(* An event is received with the listeners' mutex, after the listener's    *)
(* call.                                                                   *)
LEMMA LoopReceives ==
  ASSUME NEW a \in Seq(LoopStep), NEW inst, NEW e \in Heard(inst)
  PROVE  LoopOk(a \o <<e>> \o Do("unlock", "listeners"), {"listeners"}, inst)
  <1> DEFINE last == Left("listeners")
             S == LoopStep \cup Heard(inst)
  <1>1. last \in LoopStep /\ Do("unlock", "listeners") = <<last>>
    BY LoopTypes DEF Do, Under, Left
  <1> HIDE DEF last
  <1>2. a \in Seq(S) /\ <<e>> \in Seq(S) /\ <<last>> \in Seq(S) /\ <<e, last>> \in Seq(S)
        /\ a \o <<e>> \in Seq(S)
    BY <1>1, SeqMonotonic
  <1>3. a \o <<e>> \o <<last>> = a \o <<e, last>>
    <2>1. e \in S /\ last \in S
      BY <1>1
    <2>2. QED
      BY <1>2, <2>1, TwoMore, Zenon
  <1>4. last \in Elements(a \o <<e>> \o <<last>>)
    <2>1. Elements((a \o <<e>>) \o <<last>>) = Elements(a \o <<e>>) \cup {last}
      <3>1. \A b, c \in Seq(S) : Elements(b \o c) = Elements(b) \cup Elements(c)
        BY ElementsParts
      <3>2. Elements(<<last>>) = {last}
        BY <1>1, ElementsParts
      <3>3. QED
        BY <1>2, <3>1, <3>2, ZenonT(40)
    <2>2. QED
      BY <2>1
  <1>5. Handling(a \o <<e>> \o <<last>>, {"listeners"}, inst)
    BY <1>3, Zenon DEF Handling, last
  <1>6. QED
    BY <1>1, <1>4, <1>5 DEF LoopOk, last

(* Handling an event, the event thread may take the mutex it leaves after. *)
LEMMA LoopTakes ==
  ASSUME NEW s, NEW held \in SUBSET Mutex, NEW inst, LoopOk(s, held, inst), s \in Seq(LoopStep),
         NEW steps \in Seq(LoopStep), NEW m \in Mutex
  PROVE  LoopOk(steps \o Do("unlock", m) \o s, held \cup {m}, inst)
  <1> DEFINE l == Left(m)
  <1>1. l \in LoopStep /\ Do("unlock", m) = <<l>>
    BY LoopTypes DEF Do, Under, Left
  <1> HIDE DEF l
  <1>2. <<l>> \in Seq(LoopStep) /\ steps \o <<l>> \in Seq(LoopStep) /\ (steps \o <<l>>) \o s \in Seq(LoopStep)
    BY <1>1
  <1>3. Elements((steps \o <<l>>) \o s) = Elements(steps) \cup {l} \cup Elements(s)
    <2>1. /\ Elements((steps \o <<l>>) \o s) = Elements(steps \o <<l>>) \cup Elements(s)
          /\ Elements(steps \o <<l>>) = Elements(steps) \cup Elements(<<l>>) /\ Elements(<<l>>) = {l}
      <3>1. \A b, c \in Seq(LoopStep) : Elements(b \o c) = Elements(b) \cup Elements(c)
        BY ElementsParts
      <3>2. Elements(<<l>>) = {l}
        BY <1>1, ElementsParts
      <3>3. QED
        BY <1>2, <3>1, <3>2, Zenon
    <2>2. QED
      BY <2>1
  <1>4. \A k \in held \cup {m} : Left(k) \in Elements((steps \o <<l>>) \o s)
    BY <1>3 DEF LoopOk, l
  <1>5. QED
    BY <1>1, <1>2, <1>4 DEF LoopOk

-----------------------------------------------------------------------------
Held == {m \in Mutex : lock[m] = Loop}
TabInv ==
  /\ DOMAIN todo = Thread /\ lock \in [Mutex -> Thread \cup {None}]
  /\ \A t \in Thread \ {Loop} : todo[t] \in Seq(CallerStep)
  /\ \A m \in Mutex : lock[m] \in Thread \ {Loop} => m = "bindings"
  /\ LoopOk(todo[Loop], Held, installed)
  /\ inbox \in Seq(Heard(installed))
  /\ poisoned \subseteq {"bindings", "listeners"}

(* Nobody does or holds anything at the start.                             *)
LEMMA TabInvInit == TabInit => TabInv
  <1> SUFFICES ASSUME TabInit
               PROVE  TabInv
    OBVIOUS
  <1>1. None \notin Thread /\ Loop \in Thread
    BY TabAssumption DEF Thread
  <1>2. /\ todo = [t \in Thread |-> <<>>] /\ lock = [m \in Mutex |-> None] /\ poisoned = {} /\ inbox = <<>>
        /\ todo[Loop] = <<>>
    BY <1>1 DEF TabInit
  <1>3. Held = {}
    BY <1>1, <1>2 DEF Held
  <1>4. QED
    BY <1>1, <1>2, <1>3, LoopRests DEF TabInv

(* A step of another thread than the event thread.                         *)
LEMMA OtherMoves ==
  ASSUME TabInv, NEW t \in Thread \ {Loop}, NEW s \in Seq(CallerStep), todo' = [todo EXCEPT ![t] = s],
         lock' \in [Mutex -> Thread \cup {None}],
         \A m \in Mutex : lock'[m] = lock[m] \/ lock'[m] = None \/ (lock'[m] = t /\ m = "bindings"),
         poisoned' \subseteq poisoned \cup {"bindings"}, inbox' = inbox, installed => installed'
  PROVE  TabInv'
  <1>1. Loop \in Thread /\ t # Loop /\ None # Loop
    BY TabAssumption DEF Thread
  <1>2. todo'[Loop] = todo[Loop] /\ DOMAIN todo' = Thread /\ \A r \in Thread \ {Loop} : todo'[r] \in Seq(CallerStep)
    BY <1>1 DEF TabInv
  <1>3. Held' \in SUBSET Held /\ Held \in SUBSET Mutex
    BY <1>1 DEF Held
  <1>4. LoopOk(todo'[Loop], Held', installed')
    BY <1>2, <1>3, LoopKeeps DEF TabInv
  <1>5. \A m \in Mutex : lock'[m] \in Thread \ {Loop} => m = "bindings"
    <2>1. None \notin Thread
      BY TabAssumption DEF Thread
    <2>2. QED
      BY <2>1 DEF TabInv
  <1>6. inbox' \in Seq(Heard(installed'))
    <2>1. Heard(installed) \subseteq Heard(installed')
      BY DEF Heard
    <2>2. QED
      BY <2>1, SeqMonotonic DEF TabInv
  <1>7. QED
    BY <1>2, <1>4, <1>5, <1>6 DEF TabInv

(* A step of the event thread.                                             *)
LEMMA LoopMoves ==
  ASSUME TabInv, NEW s, todo' = [todo EXCEPT ![Loop] = s],
         lock' \in [Mutex -> Thread \cup {None}], LoopOk(s, Held', installed'),
         \A m \in Mutex : lock'[m] \in {lock[m], None, Loop},
         poisoned' \subseteq poisoned \cup {"bindings", "listeners"},
         inbox' \in Seq(Heard(installed')), installed => installed'
  PROVE  TabInv'
  <1>1. Loop \in Thread /\ None \notin Thread
    BY TabAssumption DEF Thread
  <1>2. todo'[Loop] = s /\ DOMAIN todo' = Thread /\ \A r \in Thread \ {Loop} : todo'[r] = todo[r]
    BY <1>1 DEF TabInv
  <1>3. \A m \in Mutex : lock'[m] \in Thread \ {Loop} => m = "bindings"
    BY <1>1 DEF TabInv
  <1>4. QED
    BY <1>2, <1>3 DEF TabInv

(* Nothing of this is touched.                                             *)
LEMMA TabRests ==
  ASSUME TabInv, todo' = todo, lock' = lock, poisoned' = poisoned,
         inbox' \in Seq(Heard(installed')), installed => installed'
  PROVE  TabInv'
  <1>1. Held' = Held /\ Held \in SUBSET Mutex
    BY DEF Held
  <1>2. LoopOk(todo'[Loop], Held', installed')
    BY <1>1, LoopKeeps DEF TabInv
  <1>3. QED
    BY <1>2 DEF TabInv

(* What the event thread is about to do, and what it has left to do then.  *)
LEMMA LoopHead ==
  ASSUME TabInv, todo[Loop] # <<>>
  PROVE  /\ Head(todo[Loop]) \in LoopStep \cup Heard(installed)
         /\ \A less \in SUBSET Held : (\A m \in less : Left(m) # Head(todo[Loop])) =>
               LoopOk(Tail(todo[Loop]), less, installed)
         /\ Head(todo[Loop]) \in Heard(installed) =>
               Tail(todo[Loop]) \in Seq(LoopStep) /\ Held \subseteq {"listeners"}
  <1>1. Held \in SUBSET Mutex /\ LoopOk(todo[Loop], Held, installed)
    BY DEF Held, TabInv
  <1>2. ASSUME NEW less \in SUBSET Held, \A m \in less : Left(m) # Head(todo[Loop])
        PROVE  /\ LoopOk(Tail(todo[Loop]), less, installed)
               /\ Head(todo[Loop]) \in LoopStep \cup Heard(installed)
               /\ Head(todo[Loop]) \in Heard(installed) =>
                     Tail(todo[Loop]) \in Seq(LoopStep) /\ Held \subseteq {"listeners"}
    BY <1>1, <1>2, LoopAdvances
  <1>3. {} \in SUBSET Held
    OBVIOUS
  <1>4. QED
    BY <1>2, <1>3, Zenon

(* By what it does and takes, a step of the event thread is told.          *)
LEMMA LoopDoes ==
  ASSUME TabInv, todo[Loop] # <<>>
  PROVE  LET e == Head(todo[Loop])
         IN /\ e.do \in {"call", "continue", "authorize", "unlock", "lifecycle", "binding", "paused", "auth",
                         "received", "responses", "failures"}
            /\ e.do \in {"call", "continue", "authorize", "unlock"} => e.under = "none"
            /\ e.do \in {"lifecycle", "binding", "paused", "auth", "received", "responses", "failures"} =>
                 /\ e \in Heard(installed)
                 /\ e.under \in {"none", "bindings", "interceptor", "auth", "responses", "failures"}
            /\ e.do = "binding" => installed
            /\ e.do \in {"paused", "auth"} => e.on \in TabRequest
            /\ e.do = "unlock" => e = Left(e.on)
            /\ e.do = "call" => e.on \in Called
  <1> DEFINE e == Head(todo[Loop])
  <1>1. e \in LoopStep \/ e \in Heard(installed)
    BY LoopHead
  <1> HIDE DEF e
  <1> DEFINE Told(x) ==
        /\ x.do \in {"call", "continue", "authorize", "unlock", "lifecycle", "binding", "paused", "auth",
                     "received", "responses", "failures"}
        /\ x.do \in {"call", "continue", "authorize", "unlock"} => x.under = "none"
        /\ x.do \in {"lifecycle", "binding", "paused", "auth", "received", "responses", "failures"} =>
             /\ x \in Heard(installed)
             /\ x.under \in {"none", "bindings", "interceptor", "auth", "responses", "failures"}
        /\ x.do = "binding" => installed
        /\ x.do \in {"paused", "auth"} => x.on \in TabRequest
        /\ x.do = "unlock" => x = Left(x.on)
        /\ x.do = "call" => x.on \in Called
  <1>2. ASSUME e \in LoopStep
        PROVE  Told(e)
    <2>1. CASE e \in AnyCall
      BY <2>1 DEF AnyCall
    <2>2. CASE e \in [do : {"unlock", "continue", "authorize"}, on : Mutex \cup TabRequest, under : {"none"}]
      <3>1. e = [do |-> e.do, on |-> e.on, under |-> e.under]
        BY <2>2
      <3>2. e.do \in {"unlock", "continue", "authorize"} /\ e.under = "none"
        BY <2>2
      <3>3. e.do = "unlock" => e = Left(e.on)
        BY <3>1, <3>2 DEF Left
      <3>4. QED
        BY <3>2, <3>3
    <2>3. QED
      BY <1>2, <2>1, <2>2 DEF LoopStep
  <1>3. ASSUME e \in Heard(installed)
        PROVE  Told(e)
    <2>1. CASE e \in Calm
      BY <1>3, <2>1 DEF Calm
    <2>2. CASE e \in [do : {"binding"}, on : {"f"}, under : {"bindings"}] /\ installed
      BY <1>3, <2>2
    <2>3. QED
      BY <1>3, <2>1, <2>2 DEF Heard
  <1>4. Told(e)
    BY <1>1, <1>2, <1>3, Zenon
  <1>5. QED
    BY <1>4 DEF e

(* What another thread is about to do, and what it holds.                  *)
LEMMA OtherHead ==
  ASSUME TabInv, NEW t \in Thread \ {Loop}
  PROVE  /\ todo[t] # <<>> =>
              /\ Tail(todo[t]) \in Seq(CallerStep)
              /\ At(t, "lock") => On(t) = "bindings"
              /\ At(t, "unbind") => Head(todo[t]).under = "bindings"
              /\ ~At(t, "unhandle or panic")
         /\ {m \in Mutex : lock[m] = t} \subseteq {"bindings"}
         /\ Again(t) \in Seq(CallerStep) /\ <<>> \in Seq(CallerStep)
  <1>1. todo[t] \in Seq(CallerStep)
    BY DEF TabInv
  <1>2. \A e \in CallerStep : /\ e.do = "lock" => e.on = "bindings"
                              /\ e.do = "unbind" => e.under = "bindings"
                              /\ e.do # "unhandle or panic"
    BY DEF CallerStep, AnyCall
  <1>3. Again(t) \in Seq(CallerStep) /\ <<>> \in Seq(CallerStep)
    BY Programs DEF Again
  <1>4. todo[t] # <<>> => Head(todo[t]) \in CallerStep /\ Tail(todo[t]) \in Seq(CallerStep)
    BY <1>1
  <1>5. {m \in Mutex : lock[m] = t} \subseteq {"bindings"}
    BY DEF TabInv
  <1>6. QED
    BY <1>2, <1>3, <1>4, <1>5, Zenon DEF At, On

(* A thread that panics drops its guards, and poisons what it held.        *)
LEMMA OtherPanics ==
  ASSUME TabInv, NEW t \in Thread \ {Loop}, Panic(t), inbox' = inbox, installed' = installed
  PROVE  TabInv'
  <1>1. todo' = [todo EXCEPT ![t] = <<>>] /\ lock' = Released(t)
        /\ poisoned' = poisoned \cup {m \in Mutex : lock[m] = t}
    BY DEF Panic, Then
  <1>2. lock' \in [Mutex -> Thread \cup {None}] /\ \A m \in Mutex : lock'[m] \in {lock[m], None}
    BY <1>1 DEF Released, TabInv
  <1>3. QED
    BY <1>1, <1>2, OtherHead, OtherMoves

(* Another thread goes on, its locks as they are.                          *)
LEMMA OtherAdvances ==
  ASSUME TabInv, NEW t \in Thread \ {Loop}, NEW s \in Seq(CallerStep), Then(t, s), lock' = lock,
         poisoned' = poisoned, inbox' = inbox, installed => installed'
  PROVE  TabInv'
  BY OtherMoves DEF Then, TabInv

(* Another thread takes and leaves the bindings' mutex, stores, or         *)
(* panics.                                                                 *)
LEMMA OtherLocal ==
  ASSUME TabInv, NEW t \in Thread \ {Loop}, Local(t)
  PROVE  TabInv'
  <1>1. CASE Poisoned(t)
    BY <1>1, OtherPanics DEF Poisoned, page
  <1>2. CASE Lock(t)
    <2>1. todo[t] # <<>> /\ At(t, "lock") /\ lock' = [lock EXCEPT ![On(t)] = t]
          /\ todo' = [todo EXCEPT ![t] = Tail(todo[t])]
          /\ poisoned' = poisoned /\ inbox' = inbox /\ installed' = installed
      BY <1>2 DEF Lock, Taking, At, Advance, Then, page
    <2>2. On(t) = "bindings" /\ Tail(todo[t]) \in Seq(CallerStep)
      BY <2>1, OtherHead
    <2>3. lock' \in [Mutex -> Thread \cup {None}] /\ \A m \in Mutex : lock'[m] = lock[m] \/ (lock'[m] = t /\ m = "bindings")
      BY <2>1, <2>2 DEF TabInv
    <2>4. QED
      BY <2>1, <2>2, <2>3, OtherMoves
  <1>3. CASE Unlock(t)
    <2>1. todo[t] # <<>> /\ lock' = [lock EXCEPT ![On(t)] = None] /\ todo' = [todo EXCEPT ![t] = Tail(todo[t])]
          /\ poisoned' = poisoned /\ inbox' = inbox /\ installed' = installed
      BY <1>3 DEF Unlock, At, Advance, Then, page
    <2>2. lock' \in [Mutex -> Thread \cup {None}] /\ \A m \in Mutex : lock'[m] \in {lock[m], None}
      BY <2>1 DEF TabInv
    <2>3. QED
      BY <2>1, <2>2, OtherHead, OtherMoves
  <1>4. CASE Store(t)
    <2>1. todo[t] # <<>> /\ Advance(t) /\ lock' = lock /\ poisoned' = poisoned /\ inbox' = inbox
          /\ installed' = installed
      BY <1>4, Zenon DEF Store, Stores, Taking, At, page
    <2>2. QED
      BY <2>1, OtherHead, OtherAdvances DEF Advance
  <1>5. CASE Unwrap(t)
    <2>1. inbox' = inbox /\ installed' = installed
      BY <1>5 DEF Unwrap, page
    <2>2. CASE Panic(t)
      BY <2>1, <2>2, OtherPanics
    <2>3. CASE At(t, "first or panic") /\ Advance(t) /\ UNCHANGED <<lock, poisoned, gone>>
      BY <2>1, <2>3, OtherHead, OtherAdvances DEF Advance, At
    <2>4. CASE /\ Taking(t, "unbind") \/ Taking(t, "unhandle or panic")
               /\ Then(t, <<>>) /\ lock' = lock
               /\ poisoned' = poisoned \cup {Head(todo[t]).under}
      <3>1. poisoned' \subseteq poisoned \cup {"bindings"}
        BY <2>4, OtherHead DEF Taking, At
      <3>2. lock' \in [Mutex -> Thread \cup {None}] /\ \A m \in Mutex : lock'[m] = lock[m]
        BY <2>4 DEF TabInv
      <3>3. QED
        BY <2>1, <2>4, <3>1, <3>2, OtherHead, OtherMoves DEF Then
    <2>5. QED
      BY <1>5, <2>2, <2>3, <2>4, Zenon DEF Unwrap
  <1>6. QED
    BY <1>1, <1>2, <1>3, <1>4, <1>5 DEF Local

(* However a call of another thread ends.                                  *)
LEMMA OtherCalls ==
  ASSUME TabInv, NEW t \in Thread \ {Loop}, CallEnds(t) \/ Fails(t) \/ Miss(t) \/ NoMidpointYet(t)
  PROVE  TabInv'
  <1>1. CASE Answer(t)
    <2>1. todo[t] # <<>> /\ Advance(t) /\ lock' = lock /\ poisoned' = poisoned /\ inbox' = inbox /\ (installed => installed')
      BY <1>1 DEF Answer, Calling, At
    <2>2. QED
      BY <2>1, OtherHead, OtherAdvances DEF Advance
  <1>2. CASE Fails(t) \/ Cancelled(t)
    <2>1. Failing(t) /\ todo[t] # <<>> /\ inbox' = inbox /\ installed' = installed
      BY <1>2 DEF Fails, Cancelled, Calling, At, page
    <2>2. CASE Panic(t)
      BY <2>1, <2>2, OtherPanics
    <2>3. CASE \E s \in Seq(CallerStep) : Then(t, s) /\ lock' \in {lock, Released(t)} /\ poisoned' = poisoned
      <3>1. lock' \in [Mutex -> Thread \cup {None}] /\ \A m \in Mutex : lock'[m] \in {lock[m], None}
        BY <2>3 DEF Released, TabInv
      <3>2. QED
        BY <2>1, <2>3, <3>1, OtherMoves DEF Then
    <2>4. MidpointByScript \o Tail(todo[t]) \in Seq(CallerStep)
      BY <2>1, OtherHead, Programs, CallerSteps
    <2>5. QED
      BY <2>1, <2>2, <2>3, <2>4, OtherHead DEF Failing, Advance
  <1>3. CASE Miss(t)
    BY <1>3, OtherHead, OtherAdvances DEF Miss, page
  <1>4. CASE NoMidpointYet(t)
    BY <1>4, OtherHead, OtherAdvances DEF NoMidpointYet, page
  <1>5. QED
    BY <1>1, <1>2, <1>3, <1>4 DEF CallEnds

(* What callers have ahead of them are methods.                            *)
AheadInv == \A c \in Caller : ahead[c] \in Seq(DOMAIN Program) \cup {None}

LEMMA EntersMethod ==
  ASSUME AheadInv, NEW c \in Caller, Enter(c)
  PROVE  AheadInv' /\ \E m \in DOMAIN Program : Then(c, Program[m])
  <1>1. PICK methods \in IF ahead[c] = None THEN Offered[c] ELSE {ahead[c]} :
          /\ methods # <<>> /\ ahead' = [ahead EXCEPT ![c] = Tail(methods)]
          /\ Then(c, Program[Head(methods)])
    BY DEF Enter
  <1>2. methods \in Seq(DOMAIN Program)
    <2>1. CASE ahead[c] = None
      BY <1>1, <2>1, TabAssumption
    <2>2. CASE ahead[c] # None
      BY <1>1, <2>2 DEF AheadInv
    <2>3. QED
      BY <2>1, <2>2
  <1> DEFINE D == DOMAIN Program
             p == Program[Head(methods)]
  <1>3. Head(methods) \in D /\ Tail(methods) \in Seq(D)
    <2> HIDE DEF D
    <2>1. methods \in Seq(D)
      BY <1>2 DEF D
    <2>2. QED
      BY <1>1, <2>1
  <1>4. AheadInv'
    <2> HIDE DEF D
    <2>1. \A d \in Caller : ahead'[d] = ahead[d] \/ ahead'[d] = Tail(methods)
      BY <1>1
    <2>2. QED
      BY <1>3, <2>1 DEF AheadInv, D
  <1>5. QED
    <2> HIDE DEF D, p
    <2> QED BY <1>1, <1>3, <1>4, Zenon DEF D, p

(* A caller enters a method, or its time passes.                           *)
LEMMA CallerMoves ==
  ASSUME TabInv, AheadInv, NEW c \in Caller, Elapse(c) \/ Await(c) \/ Enter(c)
  PROVE  TabInv'
  <1>1. c \in Thread \ {Loop}
    BY TabAssumption DEF Thread
  <1>2. CASE Elapse(c)
    BY <1>2, TabRests DEF Elapse, page, TabInv
  <1>3. CASE Await(c)
    BY <1>1, <1>3, OtherHead, OtherAdvances DEF Await, Advance, At, page
  <1>4. CASE Enter(c)
    <2>1. PICK m \in DOMAIN Program : Then(c, Program[m])
      BY <1>4, EntersMethod
    <2>2. QED
      BY <1>1, <1>4, <2>1, Programs, OtherAdvances DEF Enter, page
  <1>5. QED
    BY <1>2, <1>3, <1>4

(* The event thread does what comes first.                                 *)
LEMMA LoopAdvancesBy ==
  ASSUME TabInv, todo[Loop] # <<>>, Advance(Loop), poisoned' = poisoned, inbox' = inbox,
         installed => installed',
         \/ lock' = lock /\ Head(todo[Loop]).do # "unlock"
         \/ lock' = [lock EXCEPT ![On(Loop)] = None] /\ Head(todo[Loop]).do = "unlock"
  PROVE  TabInv'
  <1> DEFINE e == Head(todo[Loop])
  <1>1. None # Loop /\ todo' = [todo EXCEPT ![Loop] = Tail(todo[Loop])] /\ On(Loop) = e.on
    BY TabAssumption DEF Advance, Then, On
  <1>2. e.do = "unlock" => e = Left(e.on)
    BY LoopDoes
  <1> HIDE DEF e
  <1>3. \A m : Left(m) = e => e.do = "unlock" /\ e.on = m
    BY DEF Left
  <1>4. lock' \in [Mutex -> Thread \cup {None}] /\ \A m \in Mutex : lock'[m] \in {lock[m], None}
    BY DEF TabInv
  <1>5. Held' \in SUBSET Held /\ \A m \in Held' : Left(m) # e
    BY <1>1, <1>3, <1>4 DEF Held, e, TabInv
  <1>6. LoopOk(Tail(todo[Loop]), Held', installed)
    BY <1>5, LoopHead DEF e
  <1>7. LoopOk(Tail(todo[Loop]), Held', installed') /\ inbox' \in Seq(Heard(installed'))
    <2>1. Held' \in SUBSET Mutex /\ Held' \in SUBSET Held'
      BY <1>5 DEF Held
    <2>2. Heard(installed) \subseteq Heard(installed')
      BY DEF Heard
    <2>3. QED
      BY <1>6, <2>1, <2>2, LoopKeeps, SeqMonotonic DEF TabInv
  <1>8. QED
    BY <1>1, <1>4, <1>7, LoopMoves

(* It panics with an event before it, the listeners' mutex in hand.        *)
LEMMA LoopPanics ==
  ASSUME TabInv, todo[Loop] # <<>>, Panic(Loop), Head(todo[Loop]) \in Heard(installed),
         inbox' = inbox, installed' = installed
  PROVE  TabInv'
  <1>1. todo' = [todo EXCEPT ![Loop] = <<>>] /\ lock' = Released(Loop) /\ poisoned' = poisoned \cup Held
    BY DEF Panic, Then, Held
  <1>2. Held \subseteq {"listeners"}
    BY LoopHead
  <1>3. lock' \in [Mutex -> Thread \cup {None}] /\ \A m \in Mutex : lock'[m] \in {lock[m], None}
    BY <1>1 DEF Released, TabInv
  <1>4. Held' = {}
    BY <1>1, TabAssumption DEF Held, Released
  <1>5. LoopOk(<<>>, Held', installed')
    BY <1>4, LoopRests
  <1>6. QED
    BY <1>1, <1>2, <1>3, <1>5, LoopMoves DEF TabInv

(* On its own it unlocks, or meets a poisoned mutex: the bindings'.        *)
LEMMA LoopLocal ==
  ASSUME TabInv, Local(Loop)
  PROVE  TabInv' /\ (Loop \in gone' \ gone => "bindings" \in poisoned)
  <1>1. todo[Loop] # <<>>
    BY DEF Local, Poisoned, Lock, Unlock, Store, Stores, Unwrap, Taking, At
  <1>2. Poisoned(Loop) \/ Unlock(Loop)
    BY <1>1, LoopDoes DEF Local, Lock, Store, Stores, Unwrap, Taking, At
  <1>3. CASE Poisoned(Loop)
    <2>1. "bindings" \in poisoned /\ Head(todo[Loop]) \in Heard(installed)
      <3>1. Head(todo[Loop]).under \in {"bindings", "listeners"} /\ Head(todo[Loop]).under \in poisoned
        BY <1>3 DEF Poisoned, TabInv
      <3>2. QED
        BY <1>1, <3>1, LoopDoes
    <2>2. QED
      BY <1>1, <1>3, <2>1, LoopPanics DEF Poisoned, page
  <1>4. CASE Unlock(Loop)
    BY <1>1, <1>4, LoopAdvancesBy DEF Unlock, At, page
  <1>5. QED
    BY <1>2, <1>3, <1>4

(* A call of the event thread only ever goes on, answered or not.          *)
LEMMA LoopCalls ==
  ASSUME TabInv, CallEnds(Loop) \/ Fails(Loop) \/ Miss(Loop) \/ NoMidpointYet(Loop)
  PROVE  TabInv' /\ gone' = gone
  <1>1. Loop \notin Caller
    BY TabAssumption
  <1>2. todo[Loop] # <<>> /\ ~Miss(Loop) /\ ~NoMidpointYet(Loop)
    BY <1>1, LoopDoes DEF CallEnds, Answer, Cancelled, Fails, Calling, NoMidpointYet, Miss, At
  <1>3. Calling(Loop) /\ Advance(Loop) /\ lock' = lock /\ poisoned' = poisoned /\ gone' = gone /\ inbox' = inbox
        /\ (installed => installed')
    <2>1. CASE Answer(Loop)
      BY <2>1 DEF Answer
    <2>2. CASE Fails(Loop) \/ Cancelled(Loop)
      BY <1>1, <2>2 DEF Cancelled, Fails, Failing, page
    <2>3. QED
      BY <1>2, <2>1, <2>2 DEF CallEnds
  <1>4. Head(todo[Loop]).do # "unlock"
    BY <1>3 DEF Calling, At
  <1>5. QED
    BY <1>2, <1>3, <1>4, LoopAdvancesBy

(* What listeners and handlers call are calls.                             *)
LEMMA HandlersCall ==
  /\ HandlerCalls \subseteq Seq(LoopStep)
  /\ <<>> \in Seq(LoopStep)
  <1>1. DOMAIN <<"Handler">> = 1..1 /\ DOMAIN <<"Navigate">> = 1..1
    OBVIOUS
  <1>2. Calls(<<"Handler">>) \in Seq(AnyCall) /\ Calls(<<"Navigate">>) \in Seq(AnyCall)
    BY <1>1, CallsMade
  <1>3. AnyCall \subseteq LoopStep
    BY DEF LoopStep
  <1>4. Calls(<<"Handler">>) \in Seq(LoopStep) /\ Calls(<<"Navigate">>) \in Seq(LoopStep)
    BY <1>2, <1>3, SeqMonotonic
  <1>5. QED
    BY <1>4 DEF HandlerCalls

(* It receives with nothing in hand.                                       *)
LEMMA LoopReceive ==
  ASSUME TabInv, Receive
  PROVE  TabInv'
  <1>1. PICK a \in IF "caller" \in tab.listeners THEN HandlerCalls ELSE {<<>>} :
          Then(Loop, a \o <<Head(inbox)>> \o Do("unlock", "listeners"))
    BY DEF Receive
  <1> DEFINE s == a \o <<Head(inbox)>> \o Do("unlock", "listeners")
  <1>0. /\ todo[Loop] = <<>> /\ inbox # <<>> /\ inbox' = Tail(inbox) /\ todo' = [todo EXCEPT ![Loop] = s]
        /\ lock' = [lock EXCEPT !["listeners"] = Loop] /\ poisoned' = poisoned /\ installed' = installed
    BY <1>1 DEF Receive, Then, page
  <1>2. a \in Seq(LoopStep)
    BY <1>1, HandlersCall
  <1>3. Head(inbox) \in Heard(installed) /\ inbox' \in Seq(Heard(installed))
    BY <1>0 DEF TabInv
  <1>4. LoopOk(s, {"listeners"}, installed)
    BY <1>2, <1>3, LoopReceives
  <1>5. Held' = {"listeners"}
    <2>1. Held = {}
      BY <1>0, LoopRests DEF TabInv
    <2>2. QED
      BY <1>0, <2>1 DEF Held, TabInv, Mutex
  <1>6. Loop \in Thread
    BY DEF Thread
  <1>7. lock' \in [Mutex -> Thread \cup {None}] /\ \A m \in Mutex : lock'[m] \in {lock[m], None, Loop}
    BY <1>0, <1>6 DEF TabInv
  <1> HIDE DEF s
  <1>8. QED
    BY <1>0, <1>3, <1>4, <1>5, <1>7, LoopMoves

(* A handler that runs with a mutex of its own, left when it is through.   *)
LEMMA LoopHandles ==
  ASSUME TabInv, todo[Loop] # <<>>, Head(todo[Loop]) \in Heard(installed), NEW m \in Mutex,
         NEW steps \in Seq(LoopStep),
         Then(Loop, steps \o Do("unlock", m) \o Tail(todo[Loop])), lock' = [lock EXCEPT ![m] = Loop],
         poisoned' = poisoned, inbox' = inbox, installed' = installed
  PROVE  TabInv'
  <1> DEFINE s == steps \o Do("unlock", m) \o Tail(todo[Loop])
  <1>1. Held \in SUBSET Mutex /\ Held \in SUBSET Held
    BY DEF Held
  <1>2. Tail(todo[Loop]) \in Seq(LoopStep) /\ \A k \in Held : Left(k) # Head(todo[Loop])
    <2>1. \A k \in Mutex : Left(k) \in LoopStep
      BY LoopTypes
    <2>2. Heard(installed) \cap LoopStep = {}
      BY LoopTypes
    <2>3. QED
      BY <1>1, <2>1, <2>2, LoopHead
  <1>3. LoopOk(Tail(todo[Loop]), Held, installed)
    BY <1>1, <1>2, LoopHead
  <1>4. LoopOk(s, Held \cup {m}, installed)
    BY <1>1, <1>2, <1>3, LoopTakes
  <1>5. Held' = Held \cup {m} /\ Loop \in Thread
    BY DEF Held, TabInv, Thread
  <1>6. lock' \in [Mutex -> Thread \cup {None}] /\ \A k \in Mutex : lock'[k] \in {lock[k], None, Loop}
    BY <1>5 DEF TabInv
  <1> HIDE DEF s
  <1>7. todo' = [todo EXCEPT ![Loop] = s]
    BY DEF Then, s
  <1>8. QED
    BY <1>4, <1>5, <1>6, <1>7, LoopMoves DEF TabInv

(* Handling an event without a mutex of its own.                           *)
LEMMA LoopRuns ==
  ASSUME TabInv, todo[Loop] # <<>>, Head(todo[Loop]) \in Heard(installed), NEW steps \in Seq(LoopStep),
         Then(Loop, steps \o Tail(todo[Loop])), lock' = lock, poisoned' = poisoned, inbox' = inbox, installed' = installed
  PROVE  TabInv'
  <1> DEFINE rest == Tail(todo[Loop])
  <1>1. Held' = Held /\ Held \in SUBSET Mutex /\ Held \in SUBSET Held
    BY DEF Held
  <1>2. \A k \in Held : Left(k) # Head(todo[Loop])
    <2>1. \A k \in Mutex : Left(k) \in LoopStep
      BY LoopTypes
    <2>2. Heard(installed) \cap LoopStep = {}
      BY LoopTypes
    <2>3. QED
      BY <1>1, <2>1, <2>2
  <1>3. rest \in Seq(LoopStep) /\ LoopOk(rest, Held, installed)
    BY <1>1, <1>2, LoopHead
  <1> HIDE DEF rest
  <1>4. \A a, b \in Seq(LoopStep) : Elements(a \o b) = Elements(a) \cup Elements(b)
    BY ElementsParts
  <1>5. steps \o rest \in Seq(LoopStep)
    BY <1>3
  <1>6. LoopOk(steps \o rest, Held', installed')
    BY <1>1, <1>3, <1>4, <1>5 DEF LoopOk
  <1>7. lock' \in [Mutex -> Thread \cup {None}] /\ \A k \in Mutex : lock'[k] = lock[k]
    BY DEF TabInv
  <1>8. todo' = [todo EXCEPT ![Loop] = steps \o rest]
    BY DEF Then, rest
  <1>9. QED
    BY <1>6, <1>7, <1>8, LoopMoves DEF TabInv

(* Whatever event it handles, the event thread dies of a binding only.     *)
LEMMA LoopEvents ==
  ASSUME TabInv, OnEvent
  PROVE  TabInv' /\ (Loop \in gone' \ gone => installed /\ ~tab.bound)
  <1> DEFINE e == Head(todo[Loop])
  <1>1. todo[Loop] # <<>> /\ e \in Heard(installed) /\ e.do # "unlock"
    <2>1. /\ todo[Loop] # <<>>
          /\ e.do \in {"lifecycle", "binding", "paused", "auth", "received", "responses", "failures"}
      BY DEF OnEvent, OnLifecycle, OnBinding, OnPaused, OnAuthRequired, OnReceived, OnLoading, Taking, At
    <2>2. QED
      BY <2>1, LoopDoes
  <1>2. CASE OnLifecycle
    BY <1>1, <1>2, LoopAdvancesBy DEF OnLifecycle, page
  <1>3. CASE OnReceived
    BY <1>1, <1>3, LoopAdvancesBy DEF OnReceived, page
  <1>4. CASE OnBinding
    <2>1. installed /\ inbox' = inbox /\ installed' = installed
      BY <1>1, <1>4, LoopDoes DEF OnBinding, Taking, At, page
    <2>2. CASE tab.bound
      BY <1>1, <1>4, <2>1, <2>2, LoopAdvancesBy DEF OnBinding
    <2>3. CASE ~tab.bound
      BY <1>1, <1>4, <2>1, <2>3, LoopPanics DEF OnBinding
    <2>4. QED
      BY <2>2, <2>3
  <1>5. CASE OnAuthRequired
    <2>1. On(Loop) \in TabRequest
      BY <1>1, <1>5, LoopDoes DEF OnAuthRequired, Taking, At, On
    <2>2. Do("authorize", On(Loop)) \in Seq(LoopStep)
      BY <2>1 DEF Do, Under, LoopStep
    <2>3. QED
      BY <1>1, <1>5, <2>2, LoopRuns DEF OnAuthRequired, page
  <1>6. CASE OnPaused
    <2> DEFINE r == On(Loop)
               rest == Tail(todo[Loop])
    <2>1. r \in TabRequest /\ "interceptor" \in Mutex /\ rest \in Seq(LoopStep)
      BY <1>1, <1>6, LoopDoes, LoopHead DEF OnPaused, Taking, At, On, Mutex
    <2>2. poisoned' = poisoned /\ gone' = gone /\ inbox' = inbox /\ installed' = installed
      BY <1>6 DEF OnPaused, page
    <2>3. Do("continue", r) \in Seq(LoopStep)
      BY <2>1 DEF Do, Under, LoopStep
    <2> HIDE DEF r, rest
    <2>4. CASE \E steps \in {<<>>} \cup HandlerCalls :
                 /\ Then(Loop, steps \o Do("continue", r) \o Do("unlock", "interceptor") \o rest)
                 /\ lock' = [lock EXCEPT !["interceptor"] = Loop]
      <3>1. PICK steps \in Seq(LoopStep) :
                 /\ Then(Loop, steps \o Do("continue", r) \o Do("unlock", "interceptor") \o rest)
                 /\ lock' = [lock EXCEPT !["interceptor"] = Loop]
        BY <2>4, HandlersCall
      <3>2. steps \o Do("continue", r) \in Seq(LoopStep)
        BY <2>3
      <3>3. QED
        BY <1>1, <2>1, <2>2, <3>1, <3>2, LoopHandles DEF rest
    <2>5. CASE lock' = lock /\ todo' = [todo EXCEPT ![Loop] = rest, ![r] = Do("continue", r)]
      <3>1. r \in Thread \ {Loop} /\ Loop \in Thread
        BY <2>1, TabAssumption DEF Thread
      <3>2. Do("continue", r) \in Seq(CallerStep)
        BY <2>1 DEF Do, Under, CallerStep, Ons
      <3>3. /\ DOMAIN todo' = Thread /\ todo'[Loop] = rest
            /\ \A t \in Thread \ {Loop} : todo'[t] \in Seq(CallerStep)
        BY <2>5, <3>1, <3>2 DEF TabInv
      <3>4. Held' = Held /\ Held \in SUBSET Held /\ \A m \in Held : Left(m) # e
        <4>1. Held' = Held /\ Held \in SUBSET Mutex
          BY <2>5 DEF Held
        <4>2. QED
          BY <1>1, <4>1, LoopTypes
      <3>5. LoopOk(todo'[Loop], Held', installed')
        BY <1>1, <2>2, <3>3, <3>4, LoopHead DEF rest
      <3>6. QED
        BY <2>2, <2>5, <3>3, <3>5 DEF TabInv
    <2>6. QED
      BY <1>6, <2>2, <2>4, <2>5, Zenon DEF OnPaused, r, rest
  <1>7. ASSUME NEW kind \in {"responses", "failures"}, OnLoading(kind)
        PROVE  TabInv' /\ gone' = gone
    <2>1. poisoned' = poisoned /\ gone' = gone /\ inbox' = inbox /\ installed' = installed /\ kind \in Mutex
      BY <1>7 DEF OnLoading, page, Mutex
    <2>2. CASE Advance(Loop) /\ lock' = lock
      BY <1>1, <2>1, <2>2, LoopAdvancesBy
    <2>3. ASSUME NEW calls \in HandlerCalls,
                 /\ Then(Loop, calls \o Do("unlock", kind) \o Tail(todo[Loop]))
                 /\ lock' = [lock EXCEPT ![kind] = Loop]
          PROVE  TabInv'
      BY <1>1, <2>1, <2>3, LoopHandles, HandlersCall
    <2>4. QED
      BY <1>7, <2>1, <2>2, <2>3 DEF OnLoading
  <1>9. gone' # gone => OnBinding
    BY DEF OnEvent, OnLifecycle, OnPaused, OnAuthRequired, OnReceived, OnLoading
  <1>10. CASE ~OnBinding
    <2>1. gone' = gone
      BY <1>9, <1>10
    <2>2. QED
      BY <1>2, <1>3, <1>5, <1>6, <1>7, <1>10, <2>1 DEF OnEvent
  <1>11. QED
    BY <1>4, <1>10

(* What the page and Chromium do only brings events.                       *)
LEMMA PageMoves ==
  ASSUME TabInv, (\E r \in TabRequest : RequestMoves(r)) \/ Lifecycle \/ Disconnect
  PROVE  TabInv' /\ gone' = gone
  <1>1. UNCHANGED threads /\ installed' = installed
    BY DEF RequestMoves, Turn, Counted, Lifecycle, Disconnect
  <1>2. inbox' = inbox \/ \E e \in Heard(installed) : inbox' = inbox \o <<e>>
    <2>1. CASE Disconnect
      BY <2>1 DEF Disconnect
    <2>2. ASSUME NEW r \in TabRequest, NEW kind \in {"paused", "received", "responses", "failures", "auth"},
                 Raise(kind, r)
          PROVE  \E e \in Heard(installed) : inbox' = inbox \o <<e>>
      <3>1. [do |-> kind, on |-> r, under |-> Takes(kind)] \in Heard(installed)
        BY DEF Heard, Calm, Takes
      <3>2. QED
        BY <2>2, <3>1 DEF Raise, Under
    <2>3. ASSUME NEW name \in {"init", "networkAlmostIdle"}, Raise("lifecycle", name)
          PROVE  \E e \in Heard(installed) : inbox' = inbox \o <<e>>
      <3>1. [do |-> "lifecycle", on |-> name, under |-> Takes("lifecycle")] \in Heard(installed)
        BY DEF Heard, Calm, Takes
      <3>2. QED
        BY <2>3, <3>1 DEF Raise, Under
    <2>4. ASSUME installed, Raise("binding", "f")
          PROVE  \E e \in Heard(installed) : inbox' = inbox \o <<e>>
      <3>1. [do |-> "binding", on |-> "f", under |-> Takes("binding")] \in Heard(installed)
        BY <2>4 DEF Heard, Takes
      <3>2. QED
        BY <2>4, <3>1 DEF Raise, Under
    <2>5. ASSUME NEW r \in TabRequest, RequestMoves(r)
          PROVE  \E kind \in {"paused", "received", "responses", "failures", "auth"} : Raise(kind, r)
      BY <2>5 DEF RequestMoves, Turn, Counted
    <2>6. QED
      BY <2>1, <2>2, <2>3, <2>4, <2>5 DEF Lifecycle, Counted
  <1>3. inbox' \in Seq(Heard(installed'))
    <2>1. inbox \in Seq(Heard(installed))
      BY DEF TabInv
    <2>2. \A e \in Heard(installed) : inbox \o <<e>> \in Seq(Heard(installed))
      BY <2>1
    <2>3. QED
      BY <1>1, <1>2, <2>1, <2>2, Zenon
  <1>4. QED
    BY <1>1, <1>3, TabRests DEF threads

(* Nobody but the event thread ends it.                                    *)
LEMMA OthersEnd ==
  ASSUME NEW t \in Thread \ {Loop},
         Local(t) \/ CallEnds(t) \/ Fails(t) \/ Miss(t) \/ NoMidpointYet(t)
  PROVE  gone' \subseteq gone \cup {t}
  BY DEF Local, Poisoned, Lock, Unlock, Store, Stores, Unwrap, CallEnds, Answer, Cancelled, Fails, Failing,
     Miss,
     NoMidpointYet, Panic, Advance

Mourned == /\ Loop \in gone' \ gone /\ connected => (installed /\ ~tab.bound) \/ "bindings" \in poisoned
           /\ poisoned' \subseteq {"bindings", "listeners"}

(* Every step keeps the locks and the threads as they are to be.           *)
LEMMA TabStep == TabInv /\ AheadInv /\ [TabNext]_tabVars => TabInv' /\ Mourned
  <1> SUFFICES ASSUME TabInv, AheadInv, [TabNext]_tabVars
               PROVE  TabInv' /\ Mourned
    OBVIOUS
  <1>1. TabInv' => poisoned' \subseteq {"bindings", "listeners"}
    BY DEF TabInv
  <1>2. ASSUME NEW t \in Thread, Local(t) \/ CallEnds(t) \/ Fails(t) \/ Miss(t) \/ NoMidpointYet(t)
        PROVE  TabInv' /\ Mourned
    <2>1. CASE t = Loop
      BY <1>1, <1>2, <2>1, LoopLocal, LoopCalls DEF Mourned
    <2>2. CASE t # Loop
      <3>1. t \in Thread \ {Loop}
        BY <2>2
      <3>2. TabInv'
        BY <1>2, <3>1, OtherLocal, OtherCalls
      <3>3. Loop \notin gone' \ gone
        BY <1>2, <3>1, OthersEnd
      <3>4. QED
        BY <1>1, <3>2, <3>3 DEF Mourned
    <2>3. QED
      BY <2>1, <2>2
  <1>3. ASSUME NEW c \in Caller, Elapse(c) \/ Await(c) \/ Enter(c)
        PROVE  TabInv' /\ Mourned
    <2>1. gone' = gone
      BY <1>3 DEF Elapse, Await, Enter
    <2>2. QED
      BY <1>1, <1>3, <2>1, CallerMoves DEF Mourned
  <1>4. CASE Receive
    BY <1>1, <1>4, LoopReceive DEF Receive, Mourned
  <1>5. CASE LoopEnds
    BY <1>1, <1>5, TabRests DEF LoopEnds, page, TabInv, Mourned
  <1>6. CASE OnEvent
    BY <1>1, <1>6, LoopEvents DEF Mourned
  <1>7. CASE (\E r \in TabRequest : RequestMoves(r)) \/ Lifecycle \/ Disconnect
    BY <1>1, <1>7, PageMoves DEF Mourned
  <1>8. CASE UNCHANGED tabVars
    BY <1>1, <1>8, TabRests DEF tabVars, threads, page, TabInv, Mourned
  <1>9. QED
    BY <1>2, <1>3, <1>4, <1>5, <1>6, <1>7, <1>8 DEF TabNext

(* Only a caller that enters a method has fewer ahead.                     *)
LEMMA AheadStep == AheadInv /\ [TabNext]_tabVars => AheadInv'
  <1> SUFFICES ASSUME AheadInv, [TabNext]_tabVars
               PROVE  AheadInv'
    OBVIOUS
  <1>1. CASE \E c \in Caller : Enter(c)
    BY <1>1, EntersMethod
  <1>2. CASE ahead' = ahead
    BY <1>2 DEF AheadInv
  <1>3. ASSUME NEW t \in Thread, Local(t) \/ CallEnds(t) \/ Fails(t) \/ Miss(t) \/ NoMidpointYet(t)
        PROVE  ahead' = ahead
    BY <1>3 DEF Local, Poisoned, Lock, Unlock, Store, Stores, Unwrap, CallEnds, Answer, Cancelled,
                Fails, Miss, NoMidpointYet
  <1>4. ASSUME NEW c \in Caller, Elapse(c) \/ Await(c)
        PROVE  ahead' = ahead
    BY <1>4 DEF Elapse, Await
  <1>5. ASSUME Receive \/ LoopEnds \/ OnEvent
        PROVE  ahead' = ahead
    BY <1>5 DEF Receive, LoopEnds, OnEvent, OnLifecycle, OnBinding, OnPaused, OnAuthRequired,
                OnReceived, OnLoading
  <1>6. ASSUME (\E r \in TabRequest : RequestMoves(r)) \/ Lifecycle \/ Disconnect
        PROVE  ahead' = ahead
    BY <1>6 DEF RequestMoves, Lifecycle, Disconnect, Turn, Counted, threads
  <1>7. QED
    BY <1>1, <1>2, <1>3, <1>4, <1>5, <1>6 DEF TabNext, tabVars, threads

(* Whatever methods any callers run, and whatever the page does: while     *)
(* connected, the event thread dies only of a function that was removed,   *)
(* and no mutex is poisoned but the bindings' and the listeners'           *)
(* (start_event_handler_thread, remove_function).                          *)
THEOREM LoopDies == TabSpec => LoopDiesOfBindingsOnly
  <1>1. TabInv /\ AheadInv /\ [TabNext]_tabVars =>
          [/\ Loop \in gone' \ gone /\ connected => (installed /\ ~tab.bound) \/ "bindings" \in poisoned
           /\ poisoned' \subseteq {"bindings", "listeners"}]_tabVars
    BY TabStep DEF Mourned
  <1>2. TabInv /\ AheadInv /\ [TabNext]_tabVars => TabInv' /\ AheadInv'
    BY TabStep, AheadStep
  <1>3. TabInit => TabInv /\ AheadInv
    BY TabInvInit DEF TabInit, AheadInv
  <1>4. QED
    BY <1>1, <1>2, <1>3, PTL DEF TabSpec, LoopDiesOfBindingsOnly

=============================================================================
