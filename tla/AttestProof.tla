------------------------------ MODULE AttestProof ------------------------------
(***************************************************************************)
(* Attest for any keys, nonces, landmarks and times: the round trips that  *)
(* count are the enclave's, and the landmarks it reports are measured; for *)
(* any servers and preferences, what is offered and called verified; and   *)
(* that a proof is signed by the key that its quote commits to.            *)
(***************************************************************************)
EXTENDS Attest, PositionsProof

(* The key a proof commits to, once it is signed, and the validator keeps, *)
(* is one the agent held; before the proof is published nobody probes.     *)
KeyInv ==
  /\ agent \in Keys
  /\ phase = "proved" => \E k \in Keys : proof.key = <<k>>
  /\ phase = "published" => \E k \in Keys : attested = <<k>>
  /\ phase # "published" => owner = "none" /\ asked = {}

(* A signature under way, or in an echo, is the agent's.                   *)
OnRecord(sig) == sig # None => <<sig.by, sig.over>> \in signed

JobInv ==
  /\ DOMAIN job = Threads
  /\ \A t \in Threads : job[t] # None =>
       job[t] = [nonce |-> job[t].nonce, sig |-> job[t].sig] /\ OnRecord(job[t].sig)

EchoInv == \A e \in echoes : OnRecord(e.sig)

RttInv == KeyInv /\ JobInv /\ EchoInv /\ RttIsTheEnclaves

-----------------------------------------------------------------------------
LEMMA InitRtt == Init => RttInv
  <1> SUFFICES ASSUME Init PROVE RttInv
    OBVIOUS
  <1>1. KeyInv
    BY DEF Init, KeyInv
  <1>2. JobInv
    BY DEF Init, JobInv, OnRecord
  <1>3. EchoInv /\ RttIsTheEnclaves
    BY DEF Init, EchoInv, RttIsTheEnclaves
  <1>4. QED
    BY <1>1, <1>2, <1>3 DEF RttInv

(* What only concerns the scrape leaves the probes alone.                  *)
LEMMA RttUnchanged ==
  ASSUME RttInv, UNCHANGED <<job, echoes, signed, accepted, attested, asked, owner>>, KeyInv'
  PROVE  RttInv'
  <1>1. JobInv'
    BY DEF RttInv, JobInv, OnRecord
  <1>2. EchoInv'
    BY DEF RttInv, EchoInv, OnRecord
  <1>3. RttIsTheEnclaves'
    BY DEF RttInv, RttIsTheEnclaves
  <1>4. QED
    BY <1>1, <1>2, <1>3 DEF RttInv

LEMMA ScrapeKeepsRtt ==
  ASSUME RttInv, ScrapeStep \/ AgentRekeys, Rest
  PROVE  RttInv'
  <1>1. UNCHANGED <<job, echoes, signed, accepted, attested, asked, owner>>
    BY DEF Rest, serving, probing
  <1>2. KeyInv'
    <2>1. CASE AgentRekeys
      BY <1>1, <2>1 DEF RttInv, KeyInv, AgentRekeys, scraping
    <2>2. CASE SignAnswered
      BY <1>1, <2>2 DEF RttInv, KeyInv, SignAnswered, SignedAsCommitted
    <2>3. CASE ScrapeStep /\ ~SignAnswered
      <3>1. /\ phase # "published" /\ phase' \notin {"published", "proved"} /\ agent' = agent
        BY <2>3 DEF ScrapeStep, CheckHeaders, Record, HandshakeFails, HandshakeEnds, AgentFails, Waiting,
                    KeyLearned, AskQuote, QuoteAnswered
      <3>2. QED
        BY <1>1, <3>1 DEF RttInv, KeyInv
    <2>4. QED
      BY <2>1, <2>2, <2>3
  <1>3. QED
    BY <1>1, <1>2, RttUnchanged

(* The server and its owner: until the first start nobody probes.          *)
LEMMA ServingKeepsRtt ==
  ASSUME RttInv, Start \/ Drop \/ Joined \/ CheckFlag \/ WouldBlock \/ AcceptFails
  PROVE  RttInv'
  <1>1. UNCHANGED <<agent, phase, proof, job, echoes, signed, accepted, attested, asked>>
        /\ (owner' = owner \/ phase = "published")
    BY DEF RttInv, KeyInv, Start, Drop, Joined, CheckFlag, WouldBlock, AcceptFails, scraping, probing
  <1>2. KeyInv'
    BY <1>1 DEF RttInv, KeyInv
  <1>3. JobInv' /\ EchoInv' /\ RttIsTheEnclaves'
    <2>1. JobInv'
      BY <1>1 DEF RttInv, JobInv, OnRecord
    <2>2. EchoInv'
      BY <1>1 DEF RttInv, EchoInv, OnRecord
    <2>3. RttIsTheEnclaves'
      BY <1>1 DEF RttInv, RttIsTheEnclaves
    <2>4. QED
      BY <2>1, <2>2, <2>3
  <1>4. QED
    BY <1>2, <1>3 DEF RttInv

LEMMA ReturnKeepsRtt ==
  ASSUME RttInv, Return
  PROVE  RttInv'
  <1>1. KeyInv' /\ UNCHANGED <<job, echoes, signed, accepted, asked>>
    BY DEF RttInv, KeyInv, Return, serving
  <1>2. accepted = {}
    BY DEF RttInv, KeyInv, RttIsTheEnclaves, Return
  <1>3. RttIsTheEnclaves'
    BY <1>1, <1>2 DEF RttIsTheEnclaves
  <1>4. JobInv'
    BY <1>1 DEF RttInv, JobInv, OnRecord
  <1>5. EchoInv'
    BY <1>1 DEF RttInv, EchoInv, OnRecord
  <1>6. QED
    BY <1>1, <1>3, <1>4, <1>5 DEF RttInv

(* Taking a request, being asked for an echo, or giving one up: what is    *)
(* asked for has no signature yet.                                         *)
LEMMA JobsKeepRtt ==
  ASSUME RttInv, NEW t \in Threads, NEW n,
         job' \in {[job EXCEPT ![t] = [nonce |-> n, sig |-> None]], [job EXCEPT ![t] = None], job},
         UNCHANGED <<agent, phase, proof, owner, signed, accepted, attested, asked>>, EchoInv'
  PROVE  RttInv'
  <1>1. KeyInv'
    BY DEF RttInv, KeyInv
  <1>2. JobInv'
    <2>1. DOMAIN job' = Threads
      BY DEF RttInv, JobInv
    <2>2. ASSUME NEW u \in Threads, job'[u] # None
          PROVE  job'[u] = [nonce |-> job'[u].nonce, sig |-> job'[u].sig] /\ OnRecord(job[u].sig)'
      <3>1. CASE job'[u] = job[u]
        BY <2>2, <3>1 DEF RttInv, JobInv, OnRecord
      <3>2. CASE job'[u] # job[u]
        <4>1. job'[u] = [nonce |-> n, sig |-> None]
          BY <2>2, <3>2 DEF RttInv, JobInv
        <4>2. QED
          BY <4>1 DEF OnRecord
      <3>3. QED
        BY <3>1, <3>2
    <2>3. QED
      BY <2>1, <2>2 DEF JobInv
  <1>3. RttIsTheEnclaves'
    BY DEF RttInv, RttIsTheEnclaves
  <1>4. QED
    BY <1>1, <1>2, <1>3 DEF RttInv

LEMMA SignKeepsRtt ==
  ASSUME RttInv, NEW t \in Threads, Sign(t)
  PROVE  RttInv'
  <1> DEFINE sig == [by |-> agent, over |-> job[t].nonce]
  <1>1. /\ job' = [job EXCEPT ![t].sig = sig] /\ signed' = signed \cup {<<agent, job[t].nonce>>}
        /\ UNCHANGED <<agent, phase, proof, owner, attested, asked, echoes, accepted>>
        /\ job[t] # None
    BY DEF Sign, Signing, scraping
  <1>2. KeyInv'
    BY <1>1 DEF RttInv, KeyInv
  <1>3. EchoInv' /\ RttIsTheEnclaves'
    <2>1. EchoInv'
      BY <1>1 DEF RttInv, EchoInv, OnRecord
    <2>2. RttIsTheEnclaves'
      BY <1>1 DEF RttInv, RttIsTheEnclaves
    <2>3. QED
      BY <2>1, <2>2
  <1>4. JobInv'
    <2>1. DOMAIN job' = Threads
      BY <1>1 DEF RttInv, JobInv
    <2>2. job[t] = [nonce |-> job[t].nonce, sig |-> job[t].sig]
      BY <1>1 DEF RttInv, JobInv
    <2>3. job'[t] = [nonce |-> job[t].nonce, sig |-> sig]
      BY <1>1, <2>2 DEF RttInv, JobInv
    <2>4. \A u \in Threads : u # t => job'[u] = job[u]
      BY <1>1 DEF RttInv, JobInv
    <2>5. ASSUME NEW u \in Threads, job'[u] # None
          PROVE  job'[u] = [nonce |-> job'[u].nonce, sig |-> job'[u].sig] /\ OnRecord(job[u].sig)'
      <3>1. CASE u = t
        <4>1. job'[u].sig = sig /\ job'[u] = [nonce |-> job'[u].nonce, sig |-> job'[u].sig]
          BY <2>3, <3>1
        <4>2. <<sig.by, sig.over>> \in signed'
          BY <1>1
        <4>3. QED
          BY <4>1, <4>2 DEF OnRecord
      <3>2. CASE u # t
        BY <1>1, <2>4, <2>5, <3>2 DEF RttInv, JobInv, OnRecord
      <3>3. QED
        BY <3>1, <3>2
    <2>6. QED
      BY <2>1, <2>5 DEF JobInv
  <1>5. QED
    BY <1>2, <1>3, <1>4 DEF RttInv

LEMMA ReplyKeepsRtt ==
  ASSUME RttInv, NEW t \in Threads, Reply(t)
  PROVE  RttInv'
  <1> DEFINE echo == [nonce |-> job[t].nonce, sig |-> job[t].sig, key |-> cached]
  <1>1. /\ job[t] # None /\ job' = [job EXCEPT ![t] = None] /\ echoes' \subseteq echoes \cup {echo}
        /\ UNCHANGED <<agent, phase, proof, owner, signed, accepted, attested, asked>>
    BY DEF Reply, Done, scraping
  <1>2. OnRecord(echo.sig)
    BY <1>1 DEF RttInv, JobInv
  <1>3. EchoInv'
    <2>1. ASSUME NEW e \in echoes' PROVE OnRecord(e.sig)
      BY <1>1, <1>2, <2>1 DEF RttInv, EchoInv
    <2>2. QED
      BY <1>1, <2>1 DEF EchoInv, OnRecord
  <1>4. QED
    BY <1>1, <1>3, JobsKeepRtt

LEMMA ProbeKeepsRtt ==
  ASSUME RttInv, NEW n \in Nonces, Probe(n)
  PROVE  RttInv'
  <1>1. /\ asked' = asked \cup {n} /\ phase = "published"
        /\ UNCHANGED <<agent, phase, proof, owner, job, attested, echoes, signed, accepted>>
    BY DEF Probe, RttInv, KeyInv, scraping
  <1>2. KeyInv'
    BY <1>1 DEF RttInv, KeyInv
  <1>3. JobInv'
    BY <1>1 DEF RttInv, JobInv, OnRecord
  <1>4. EchoInv'
    BY <1>1 DEF RttInv, EchoInv, OnRecord
  <1>5. RttIsTheEnclaves'
    BY <1>1 DEF RttInv, RttIsTheEnclaves
  <1>6. QED
    BY <1>2, <1>3, <1>4, <1>5 DEF RttInv

(* An echo that verifies has the attested key under its signature, which   *)
(* no other responder has.                                                 *)
LEMMA MeasureKeepsRtt ==
  ASSUME RttInv, NEW n \in Nonces, Measure(n)
  PROVE  RttInv'
  <1>1. PICK response \in echoes \cup OtherEchoes(n), rtt \in Times :
          /\ EchoVerifies(response, attested, n)
          /\ accepted' = accepted \cup {[nonce |-> n, rtt |-> IF rtt < 0 THEN 0 ELSE rtt]}
    BY DEF Measure
  <1>2. n \in asked /\ UNCHANGED <<agent, phase, proof, owner, job, attested, asked, echoes, signed>>
    BY DEF Measure, scraping, serving
  <1>3. phase = "published"
    BY <1>2 DEF RttInv, KeyInv
  <1>4. PICK k \in Keys : attested = <<k>>
    BY <1>3 DEF RttInv, KeyInv
  <1>5. response.sig # None /\ response.sig.by = k /\ response.sig.over = n
    BY <1>1, <1>4 DEF EchoVerifies, Verifies
  <1>6. response \in echoes
    <2>1. CASE response \in OtherEchoes(n)
      <3>1. response.sig \in [by : Others, over : {n}]
        BY <1>5, <2>1 DEF OtherEchoes
      <3>2. QED
        BY <1>4, <1>5, <3>1, AttestAssumption
    <2>2. QED
      BY <2>1
  <1>7. <<attested[1], n>> \in signed
    <2>1. <<response.sig.by, response.sig.over>> \in signed
      BY <1>5, <1>6 DEF RttInv, EchoInv, OnRecord
    <2>2. QED
      BY <1>4, <1>5, <2>1
  <1>8. (IF rtt < 0 THEN 0 ELSE rtt) >= 0
    BY AttestAssumption
  <1>9. RttIsTheEnclaves'
    <2> DEFINE new == [nonce |-> n, rtt |-> IF rtt < 0 THEN 0 ELSE rtt]
    <2>1. new.nonce = n /\ new.rtt >= 0
      BY <1>8
    <2>2. \A a \in accepted' : a \in accepted \/ a = new
      BY <1>1
    <2> HIDE DEF new
    <2>3. QED
      BY <1>2, <1>7, <2>1, <2>2 DEF RttInv, RttIsTheEnclaves
  <1>10. KeyInv'
    BY <1>2 DEF RttInv, KeyInv
  <1>11. JobInv'
    BY <1>2 DEF RttInv, JobInv, OnRecord
  <1>12. EchoInv'
    BY <1>2 DEF RttInv, EchoInv, OnRecord
  <1>13. QED
    BY <1>9, <1>10, <1>11, <1>12 DEF RttInv


LEMMA RttStep ==
  ASSUME RttInv, [Next]_vars
  PROVE  RttInv'
  <1>0. CASE UNCHANGED vars
    <2>1. KeyInv'
      BY <1>0 DEF RttInv, KeyInv, vars, scraping, serving, probing
    <2>2. QED
      BY <1>0, <2>1, RttUnchanged DEF vars, serving, probing
  <1>1. CASE (ScrapeStep \/ AgentRekeys) /\ Rest
    BY <1>1, ScrapeKeepsRtt
  <1>2. CASE Return \/ Start \/ Drop \/ Joined \/ CheckFlag \/ WouldBlock \/ AcceptFails
    BY <1>2, ReturnKeepsRtt, ServingKeepsRtt
  <1>3. CASE Accept
    <2>1. /\ \E n : job' \in {[job EXCEPT !["server"] = [nonce |-> n, sig |-> None]], job}
          /\ UNCHANGED <<agent, phase, proof, owner, signed, accepted, attested, asked, echoes>>
      BY <1>3 DEF Accept, scraping, probing
    <2>2. EchoInv'
      BY <2>1 DEF RttInv, EchoInv, OnRecord
    <2>3. QED
      BY <2>1, <2>2, JobsKeepRtt DEF Threads
  <1>4. CASE \E n \in Nonces : CallerAsks(n)
    <2>1. PICK n \in Nonces : CallerAsks(n)
      BY <1>4
    <2>2. /\ job' = [job EXCEPT !["caller"] = [nonce |-> n, sig |-> None]]
          /\ UNCHANGED <<agent, phase, proof, owner, signed, accepted, attested, asked, echoes>>
      BY <2>1 DEF CallerAsks, scraping, probing
    <2>3. EchoInv'
      BY <2>2 DEF RttInv, EchoInv, OnRecord
    <2>4. "caller" \in Threads
      BY DEF Threads
    <2>5. job' \in {[job EXCEPT !["caller"] = [nonce |-> n, sig |-> None]], [job EXCEPT !["caller"] = None], job}
      BY <2>2
    <2>6. UNCHANGED <<agent, phase, proof, owner, signed, accepted, attested, asked>>
      BY <2>2
    <2>7. QED
      BY <2>3, <2>4, <2>5, <2>6, JobsKeepRtt
  <1>5. ASSUME NEW t \in Threads, SignFails(t)
        PROVE  RttInv'
    <2>1. /\ job' = [job EXCEPT ![t] = None]
          /\ UNCHANGED <<agent, phase, proof, owner, signed, accepted, attested, asked, echoes>>
      BY <1>5 DEF SignFails, Done, scraping, probing
    <2>2. EchoInv'
      BY <2>1 DEF RttInv, EchoInv, OnRecord
    <2>3. QED
      BY <2>1, <2>2, JobsKeepRtt
  <1>6. CASE \E t \in Threads : Sign(t) \/ SignFails(t) \/ Reply(t)
    BY <1>5, <1>6, SignKeepsRtt, ReplyKeepsRtt
  <1>7. CASE \E n \in Nonces : Probe(n) \/ Measure(n)
    BY <1>7, ProbeKeepsRtt, MeasureKeepsRtt
  <1>8. CASE ProbeLandmark \/ LandmarkFails \/ Measured
    <2>1. /\ phase = "measure" /\ phase' \in {"measure", "failed", "measured"}
          /\ UNCHANGED <<agent, proof, job, echoes, signed, accepted, attested, asked, owner>>
      BY <1>8 DEF ProbeLandmark, LandmarkFails, Measured, serving, probing
    <2>2. KeyInv'
      BY <2>1 DEF RttInv, KeyInv
    <2>3. QED
      BY <2>1, <2>2, RttUnchanged
  <1>9. QED
    BY <1>0, <1>1, <1>2, <1>3, <1>4, <1>6, <1>7, <1>8 DEF Next, ServerStep, Threads

-----------------------------------------------------------------------------
(* The landmarks.  What was measured so far are the first of the targets,  *)
(* and the record is made when all of them were.                           *)
LandmarkInv ==
  /\ targets \in Seq(Nat)
  /\ outcomes \in Seq([landmark : Nat, rtt : Nat]) /\ Len(outcomes) <= Len(targets)
  /\ \A i \in 1..Len(outcomes) : outcomes[i].landmark = targets[i]
  /\ phase = "measured" => Len(outcomes) = Len(targets) /\ landmark_rtts = LandmarkRtts(outcomes)

LEMMA InitLandmark == Init => LandmarkInv
  <1> SUFFICES ASSUME Init PROVE LandmarkInv
    OBVIOUS
  <1>1. outcomes = <<>> /\ phase # "measured" /\ (targets = <<>> \/ targets \in Targets)
    BY DEF Init
  <1>2. targets \in Seq(Nat)
    <2>1. CASE targets = <<>>
      BY <2>1
    <2>2. CASE targets \in Targets
      BY <2>2, AttestAssumption
    <2>3. QED
      BY <1>1, <2>1, <2>2
  <1>3. QED
    BY <1>1, <1>2 DEF LandmarkInv

LEMMA ProbeKeepsLandmarks ==
  ASSUME LandmarkInv, ProbeLandmark
  PROVE  LandmarkInv'
  <1>1. CASE outcomes' = outcomes
    BY <1>1 DEF ProbeLandmark, LandmarkInv
  <1>2. CASE outcomes' # outcomes
    <2>1. PICK rtt \in Times :
            /\ rtt >= 0
            /\ outcomes' = Append(outcomes, [landmark |-> targets[Len(outcomes) + 1], rtt |-> rtt])
      BY <1>2 DEF ProbeLandmark
    <2>2. /\ phase = "measure" /\ phase' = phase /\ targets' = targets
          /\ Len(outcomes) < Len(targets)
      BY <1>2 DEF ProbeLandmark
    <2>3. rtt \in Nat /\ targets[Len(outcomes) + 1] \in Nat
      BY <2>1, <2>2, AttestAssumption DEF LandmarkInv
    <2>4. outcomes' \in Seq([landmark : Nat, rtt : Nat]) /\ Len(outcomes') = Len(outcomes) + 1
      BY <2>1, <2>3 DEF LandmarkInv
    <2>5. \A i \in 1..Len(outcomes') : outcomes'[i].landmark = targets[i]
      BY <2>1, <2>3, <2>4 DEF LandmarkInv
    <2>6. QED
      BY <2>2, <2>4, <2>5 DEF LandmarkInv
  <1>3. QED
    BY <1>1, <1>2

LEMMA LandmarkStep ==
  ASSUME LandmarkInv, [Next]_vars
  PROVE  LandmarkInv'
  <1>1. CASE ProbeLandmark
    BY <1>1, ProbeKeepsLandmarks
  <1>2. CASE Measured
    BY <1>2 DEF Measured, LandmarkInv
  <1>3. CASE LandmarkFails
    BY <1>3 DEF LandmarkFails, LandmarkInv, measuring
  <1>4. CASE /\ UNCHANGED measuring
             /\ phase' = "measured" => phase = "measured"
    BY <1>4 DEF LandmarkInv, measuring
  <1>5. CASE (ScrapeStep \/ AgentRekeys) /\ Rest
    <2>1. phase' = "measured" => phase = "measured"
      BY <1>5 DEF ScrapeStep, AgentRekeys, CheckHeaders, Record, HandshakeFails, HandshakeEnds, AgentFails,
                  KeyLearned, AskQuote, QuoteAnswered, SignAnswered, scraping
    <2>2. QED
      BY <1>4, <1>5, <2>1 DEF Rest
  <1>6. CASE Return
    BY <1>4, <1>6 DEF Return
  <1>7. CASE Start \/ Drop \/ Joined \/ ServerStep
    BY <1>4, <1>7 DEF Start, Drop, Joined, ServerStep, CheckFlag, WouldBlock, AcceptFails, Accept,
                      Sign, SignFails, Reply, scraping, probing, measuring
  <1>8. CASE \E n \in Nonces : CallerAsks(n) \/ Probe(n) \/ Measure(n)
    BY <1>4, <1>8 DEF CallerAsks, Probe, Measure, scraping, measuring
  <1>9. CASE Sign("caller") \/ SignFails("caller") \/ Reply("caller")
    BY <1>4, <1>9 DEF Sign, SignFails, Reply, scraping, probing, measuring
  <1>10. CASE UNCHANGED vars
    BY <1>4, <1>10 DEF vars, scraping, measuring
  <1>11. QED
    BY <1>1, <1>2, <1>3, <1>5, <1>6, <1>7, <1>8, <1>9, <1>10 DEF Next

(* A set of natural numbers has a least one.                               *)
LEMMA LeastIsMin ==
  ASSUME NEW S, S \subseteq Nat, S # {}
  PROVE  Min(S) \in S /\ \A y \in S : Min(S) <= y
  <1>1. PICK x \in S : \A y \in S : <<y, x>> \notin OpToRel(<, Nat)
    BY NatLessThanWellFounded, WFMin
  <1>2. ASSUME NEW y \in S
        PROVE  x <= y
    <2>1. <<y, x>> \in Nat \X Nat /\ <<y, x>>[1] = y /\ <<y, x>>[2] = x
      OBVIOUS
    <2>2. ~(y < x)
      BY <1>1, <2>1 DEF OpToRel
    <2>3. QED
      BY <2>2
  <1>3. QED
    BY <1>2 DEF Min

(* The record has the least of the times of each landmark.                 *)
LEMMA RecordIsMeasured ==
  ASSUME LandmarkInv, phase = "measured"
  PROVE  /\ DOMAIN landmark_rtts = ToSet(targets)
         /\ \A i \in DOMAIN outcomes : landmark_rtts[outcomes[i].landmark] <= outcomes[i].rtt
         /\ \A l \in DOMAIN landmark_rtts :
              /\ landmark_rtts[l] \in Nat
              /\ \E i \in DOMAIN outcomes : outcomes[i] = [landmark |-> l, rtt |-> landmark_rtts[l]]
  <1> DEFINE times(l) == {outcomes[i].rtt : i \in {j \in DOMAIN outcomes : outcomes[j].landmark = l}}
             probed == {outcomes[i].landmark : i \in DOMAIN outcomes}
  <1>1. /\ outcomes \in Seq([landmark : Nat, rtt : Nat]) /\ targets \in Seq(Nat)
        /\ Len(outcomes) = Len(targets)
        /\ \A i \in 1..Len(outcomes) : outcomes[i].landmark = targets[i]
    BY DEF LandmarkInv
  <1>2. DOMAIN outcomes = 1..Len(outcomes) /\ DOMAIN targets = 1..Len(outcomes)
    BY <1>1
  <1>3. landmark_rtts = [l \in probed |-> Min(times(l))]
    BY DEF LandmarkInv, LandmarkRtts
  <1>4. \A i \in DOMAIN outcomes :
          /\ outcomes[i].landmark \in Nat /\ outcomes[i].rtt \in Nat
          /\ outcomes[i] = [landmark |-> outcomes[i].landmark, rtt |-> outcomes[i].rtt]
    <2>1. \A i \in DOMAIN outcomes : outcomes[i] \in [landmark : Nat, rtt : Nat]
      <3> DEFINE T == [landmark : Nat, rtt : Nat]
      <3>1. outcomes \in Seq(T)
        BY <1>1
      <3> HIDE DEF T
      <3>2. \A i \in DOMAIN outcomes : outcomes[i] \in T
        BY <3>1
      <3>3. QED
        BY <3>2 DEF T
    <2>2. QED
      BY <2>1
  <1>5. probed = ToSet(targets)
    BY <1>1, <1>2 DEF ToSet
  <1>6. \A l \in probed : times(l) \subseteq Nat /\ times(l) # {}
    BY <1>4
  <1>7. \A l \in probed : Min(times(l)) \in times(l) /\ \A y \in times(l) : Min(times(l)) <= y
    BY <1>6, LeastIsMin
  <1>8. ASSUME NEW i \in DOMAIN outcomes
        PROVE  landmark_rtts[outcomes[i].landmark] <= outcomes[i].rtt
    <2>1. outcomes[i].landmark \in probed /\ outcomes[i].rtt \in times(outcomes[i].landmark)
      OBVIOUS
    <2>2. QED
      BY <1>3, <1>7, <2>1
  <1>9. ASSUME NEW l \in probed
        PROVE  /\ landmark_rtts[l] \in Nat
               /\ \E i \in DOMAIN outcomes : outcomes[i] = [landmark |-> l, rtt |-> landmark_rtts[l]]
    <2>1. landmark_rtts[l] \in times(l)
      BY <1>3, <1>7
    <2>2. QED
      BY <1>4, <2>1
  <1>10. QED
    BY <1>3, <1>5, <1>8, <1>9

(* What passes the cross-check is not nearer than the tolerance allows.    *)
LEMMA ConsistentIsPlausible ==
  ASSUME NEW self, NEW floor, self \in Nat, floor \in Nat, ~TooFast(self, floor)
  PROVE  floor - self <= Max({Slack, floor \div 2})
  <1>1. Slack \in Nat /\ floor \div 2 \in Nat
    BY AttestAssumption
  <1>2. Max({Slack, floor \div 2}) >= Slack /\ Max({Slack, floor \div 2}) >= floor \div 2
        /\ Max({Slack, floor \div 2}) \in Nat
    <2>1. \E x \in {Slack, floor \div 2} : \A y \in {Slack, floor \div 2} : x >= y
      BY <1>1
    <2>2. /\ Max({Slack, floor \div 2}) \in {Slack, floor \div 2}
          /\ \A y \in {Slack, floor \div 2} : Max({Slack, floor \div 2}) >= y
      BY <2>1 DEF Max
    <2>3. QED
      BY <1>1, <2>2
  <1>3. CASE 2 * Slack >= floor
    <2>1. 2 * self + 2 * Slack >= 2 * floor
      BY <1>1, <1>3 DEF TooFast
    <2>2. floor - self <= Slack
      BY <1>1, <2>1
    <2>3. QED
      BY <1>1, <1>2, <2>2
  <1>4. CASE ~(2 * Slack >= floor)
    <2>1. 2 * self + floor >= 2 * floor
      BY <1>1, <1>4 DEF TooFast
    <2>2. floor - self <= floor \div 2
      BY <2>1
    <2>3. QED
      BY <1>1, <1>2, <2>2
  <1>5. QED
    BY <1>3, <1>4

LEMMA LandmarksAreHeld == LandmarkInv => LandmarksHold
  <1> SUFFICES ASSUME LandmarkInv, phase = "measured" PROVE LandmarksHold
    BY DEF LandmarksHold
  <1>1. ASSUME NEW validator \in UNION {[ls -> Times \cap Nat] : ls \in SUBSET ToSet(targets)},
               CrossCheck(landmark_rtts, validator) = "consistent",
               NEW l \in DOMAIN landmark_rtts
        PROVE  l \in DOMAIN validator /\ validator[l] - landmark_rtts[l] <= Max({Slack, validator[l] \div 2})
    <2> DEFINE missing == DOMAIN landmark_rtts \ DOMAIN validator
               fast == {m \in DOMAIN landmark_rtts \ missing : TooFast(landmark_rtts[m], validator[m])}
    <2>1. missing \cup fast = {}
      BY <1>1 DEF CrossCheck
    <2>2. l \in DOMAIN validator /\ ~TooFast(landmark_rtts[l], validator[l])
      BY <2>1
    <2>3. landmark_rtts[l] \in Nat
      BY RecordIsMeasured
    <2>4. validator[l] \in Nat
      BY <2>2
    <2>5. QED
      BY <2>2, <2>3, <2>4, ConsistentIsPlausible
  <1>2. QED
    BY <1>1, RecordIsMeasured DEF LandmarksHold

(* Round-trip times are of whom they are said to be and not shorter than   *)
(* they were measured, for any number of responders, probes, threads and   *)
(* changes of the agent's key (rtt_echo.rs:199-692, egress.rs:99-116).     *)
THEOREM RttsAreHeld == Spec => []RttsHold
  <1> DEFINE Inv == RttInv /\ LandmarkInv
  <1>1. Init => Inv
    BY InitRtt, InitLandmark
  <1>2. Inv /\ [Next]_vars => Inv'
    BY RttStep, LandmarkStep
  <1>3. Inv => RttsHold
    BY LandmarksAreHeld DEF RttInv, RttsHold
  <1> HIDE DEF Inv
  <1>4. QED
    BY <1>1, <1>2, <1>3, PTL DEF Spec

-----------------------------------------------------------------------------
Request == [route : {"/echo", "other"}, nonce : Nonces \cup {<<>>}]

TypeInv == TypeOK /\ backlog \in Seq(Request)

(* What waits for the server is a request, and as many wait as fit.        *)
LEMMA QueueTyped ==
  ASSUME TypeInv, NEW request \in Request, Queue(request)
  PROVE  backlog' \in Seq(Request) /\ Len(backlog') <= MaxWaiting
  <1>1. backlog \in Seq(Request) /\ Len(backlog) <= MaxWaiting /\ MaxWaiting \in Nat
    BY AttestAssumption DEF TypeInv, TypeOK
  <1>2. CASE Len(backlog) < MaxWaiting
    <2>1. backlog' = Append(backlog, request)
      BY <1>2 DEF Queue
    <2>2. QED
      BY <1>1, <1>2, <2>1
  <1>3. CASE ~(Len(backlog) < MaxWaiting)
    BY <1>1, <1>3 DEF Queue
  <1>4. QED
    BY <1>2, <1>3

LEMMA ScrapeTyped ==
  ASSUME TypeInv, ScrapeStep \/ AgentRekeys, Rest
  PROVE  TypeInv'
  <1>1. UNCHANGED <<shutdown, loop, owner, backlog, asked>>
    BY DEF Rest, serving, probing
  <1>2. agent' \in Keys /\ insecure' \in BOOLEAN
    BY DEF TypeInv, TypeOK, ScrapeStep, AgentRekeys, CheckHeaders, Record, HandshakeFails, HandshakeEnds, AgentFails,
           KeyLearned, AskQuote, QuoteAnswered, SignAnswered, scraping
  <1>3. phase' = phase \/ phase' \in {"handshake", "failed", "key", "quote", "quoted", "sign", "refused", "proved"}
    BY DEF ScrapeStep, AgentRekeys, CheckHeaders, Record, HandshakeFails, HandshakeEnds, AgentFails,
           KeyLearned, AskQuote, QuoteAnswered, SignAnswered, scraping
  <1>4. QED
    BY <1>1, <1>2, <1>3 DEF TypeInv, TypeOK

LEMMA ServingTyped ==
  ASSUME TypeInv, Start \/ Drop \/ Joined \/ CheckFlag \/ WouldBlock \/ AcceptFails
  PROVE  TypeInv'
  <1>1. /\ UNCHANGED <<phase, agent, insecure, asked>>
        /\ loop' \in {"off", "check", "accept", "serve", "stopped"}
        /\ owner' \in {"none", "up", "dropping", "gone"} /\ shutdown' \in BOOLEAN
    BY DEF TypeInv, TypeOK, Start, Drop, Joined, CheckFlag, WouldBlock, AcceptFails, scraping, probing
  <1>2. backlog' \in Seq(Request) /\ Len(backlog') <= MaxWaiting
    <2>1. backlog' = backlog \/ Queue(Nobody)
      BY DEF Start, Drop, Joined, CheckFlag, WouldBlock, AcceptFails
    <2>2. Nobody \in Request
      BY DEF Nobody, Request
    <2>3. QED
      BY <2>1, <2>2, QueueTyped DEF TypeInv, TypeOK
  <1>3. QED
    BY <1>1, <1>2 DEF TypeInv, TypeOK

LEMMA AcceptTyped ==
  ASSUME TypeInv, Accept
  PROVE  TypeInv'
  <1>1. /\ UNCHANGED <<phase, agent, insecure, asked, owner, shutdown>>
        /\ loop' \in {"off", "check", "accept", "serve", "stopped"}
    BY DEF Accept, scraping, probing
  <1>2. backlog' \in Seq(Request) /\ Len(backlog') <= MaxWaiting
    <2>1. backlog # <<>> /\ backlog' = Tail(backlog) /\ backlog \in Seq(Request)
          /\ Len(backlog) <= MaxWaiting /\ MaxWaiting \in Nat
      BY AttestAssumption DEF Accept, TypeInv, TypeOK
    <2>2. QED
      BY <2>1
  <1>3. QED
    BY <1>1, <1>2 DEF TypeInv, TypeOK

LEMMA ProbeTyped ==
  ASSUME TypeInv, NEW n \in Nonces, Probe(n)
  PROVE  TypeInv'
  <1>1. UNCHANGED <<phase, agent, insecure, owner, shutdown, loop>> /\ asked' = asked \cup {n}
    BY DEF Probe, scraping
  <1>2. backlog' \in Seq(Request) /\ Len(backlog') <= MaxWaiting
    <2>1. backlog' = backlog \/ Queue([route |-> "/echo", nonce |-> n])
      BY DEF Probe
    <2>2. [route |-> "/echo", nonce |-> n] \in Request
      BY DEF Request
    <2>3. QED
      BY <2>1, <2>2, QueueTyped DEF TypeInv, TypeOK
  <1>3. QED
    BY <1>1, <1>2 DEF TypeInv, TypeOK

(* The variables keep their types, and the backlog its limit, for any      *)
(* number of clients (rtt_echo.rs:285-340, fetch.rs, attestation.rs).      *)
THEOREM TypeCorrect == Spec => []TypeOK
  <1>1. Init => TypeInv
    <2> SUFFICES ASSUME Init PROVE TypeInv
      OBVIOUS
    <2>1. /\ phase \in {"headers", "ask", "measure"} /\ agent \in Keys /\ insecure \in BOOLEAN
          /\ shutdown = FALSE /\ loop = "off" /\ owner = "none" /\ backlog = <<>> /\ asked = {}
      BY DEF Init
    <2>2. backlog \in Seq(Request) /\ Len(backlog) <= MaxWaiting
      <3>1. Len(<<>>) = 0
        OBVIOUS
      <3>2. MaxWaiting \in Nat
        BY AttestAssumption
      <3>3. QED
        BY <2>1, <3>1, <3>2
    <2>3. TypeOK
      BY <2>1, <2>2 DEF TypeOK
    <2>4. QED
      BY <2>2, <2>3 DEF TypeInv
  <1>2. TypeInv /\ [Next]_vars => TypeInv'
    <2> SUFFICES ASSUME TypeInv, [Next]_vars PROVE TypeInv'
      OBVIOUS
    <2>1. CASE (ScrapeStep \/ AgentRekeys) /\ Rest
      BY <2>1, ScrapeTyped
    <2>2. CASE Start \/ Drop \/ Joined \/ CheckFlag \/ WouldBlock \/ AcceptFails
      BY <2>2, ServingTyped
    <2>3. CASE Accept
      BY <2>3, AcceptTyped
    <2>4. CASE \E n \in Nonces : Probe(n)
      BY <2>4, ProbeTyped
    <2>5. ASSUME UNCHANGED <<agent, insecure, shutdown, owner, backlog, asked>>,
                 loop' \in {loop, "check"}, phase' \in {phase, "published", "failed", "measured"}
          PROVE  TypeInv'
      BY <2>5 DEF TypeInv, TypeOK
    <2>6. CASE Return \/ ProbeLandmark \/ LandmarkFails \/ Measured
      BY <2>5, <2>6 DEF Return, ProbeLandmark, LandmarkFails, Measured, serving, probing
    <2>7. CASE \E t \in Threads : Sign(t) \/ SignFails(t) \/ Reply(t)
      BY <2>5, <2>7 DEF Sign, SignFails, Reply, Done, scraping, probing
    <2>8. CASE \E n \in Nonces : CallerAsks(n) \/ Measure(n)
      BY <2>5, <2>8 DEF CallerAsks, Measure, scraping, serving, probing
    <2>9. CASE UNCHANGED vars
      BY <2>5, <2>9 DEF vars, scraping, serving, probing
    <2>10. QED
      BY <2>1, <2>2, <2>3, <2>4, <2>6, <2>7, <2>8, <2>9 DEF Next, ServerStep, Threads
  <1>3. TypeInv => TypeOK
    BY DEF TypeInv
  <1>4. QED
    BY <1>1, <1>2, <1>3, PTL DEF Spec

-----------------------------------------------------------------------------
(* Every suite is offered, and nothing else, in whatever order.            *)
LEMMA SuitesAreAll ==
  Suites \in Seq(ToSet(Suites)) /\ ToSet(Modern) \subseteq ToSet(Suites) /\ Elements(Suites) = ToSet(Suites)
  <1> DEFINE names == {"AES_256", "AES_128", "CHACHA20", "ECDHE_RSA"}
             last == <<"ECDHE_RSA">>
  <1>1. Modern \in Seq(names) /\ last \in Seq(names) /\ Len(Modern) = 3 /\ Len(last) = 1 /\ DOMAIN Modern = 1..3
    BY DEF Modern
  <1>2. Suites = Modern \o last
    BY DEF Suites
  <1> HIDE DEF last, names
  <1>3. /\ Suites \in Seq(names) /\ Len(Suites) = 4
        /\ \A i \in 1..4 : Suites[i] = IF i <= 3 THEN Modern[i] ELSE last[i - 3]
    <2>1. /\ Modern \o last \in Seq(names) /\ Len(Modern \o last) = Len(Modern) + Len(last)
          /\ \A i \in 1..(Len(Modern) + Len(last)) :
               (Modern \o last)[i] = IF i <= Len(Modern) THEN Modern[i] ELSE last[i - Len(Modern)]
      BY <1>1, ConcatProperties
    <2>2. Len(Modern) + Len(last) = 4
      BY <1>1
    <2>3. QED
      BY <1>1, <1>2, <2>1, <2>2, Zenon
  <1>4. DOMAIN Suites = 1..4
    BY <1>3, LenProperties
  <1>5. ToSet(Suites) = Elements(Suites) /\ ToSet(Modern) = Elements(Modern)
    BY DEF ToSet, Elements
  <1>6. Elements(Modern) \subseteq Elements(Suites)
    <2>1. \A i \in 1..3 : i \in 1..4 /\ Suites[i] = Modern[i]
      BY <1>3
    <2>2. QED
      BY <1>1, <1>4, <2>1 DEF Elements
  <1>7. Suites \in Seq(Elements(Suites))
    <2>1. Suites \in [1..Len(Suites) -> Elements(Suites)]
      BY <1>3, <1>4, LenProperties DEF Elements
    <2>2. Len(Suites) \in Nat
      BY <1>3
    <2>3. QED
      BY <2>1, <2>2, SeqDef, Zenon
  <1>8. QED
    BY <1>5, <1>6, <1>7

LEMMA OfferIsComplete ==
  ASSUME NEW preferred \in Seq(STRING)
  PROVE  Offer(preferred) \in Seq(STRING \cup ToSet(Suites)) /\ Elements(Offer(preferred)) = ToSet(Suites)
  <1> DEFINE T == STRING \cup ToSet(Suites)
             I == {i \in DOMAIN preferred : preferred[i] \in ToSet(Modern)}
             kept == AtPositions(preferred, I)
             none == <<>>
             once == Merge(none, kept)
  <1>1. preferred \in Seq(T) /\ Suites \in Seq(T)
    BY SuitesAreAll, SeqMonotonic
  <1>2. none \in Seq(T) /\ Once(none) /\ Elements(none) = {}
    BY DEF Once, Elements
  <1> HIDE DEF T, none
  <1>3. kept \in Seq(T) /\ Elements(kept) \subseteq ToSet(Modern)
    <2> HIDE DEF kept
    <2>1. kept \in Seq(T) /\ Elements(kept) = {preferred[i] : i \in I}
      BY <1>1, KeptElements DEF kept
    <2>2. QED
      BY <2>1
  <1> HIDE DEF kept
  <1>4. once \in Seq(T) /\ Once(once) /\ Elements(once) = Elements(kept)
    <2>1. Merge(none, kept) \in Seq(T) /\ Once(Merge(none, kept))
          /\ Elements(Merge(none, kept)) = Elements(none) \cup Elements(kept)
      BY <1>2, <1>3, MergeOnce
    <2>2. QED
      BY <1>2, <2>1
  <1> HIDE DEF once
  <1>5. Merge(once, Suites) \in Seq(T) /\ Elements(Merge(once, Suites)) = Elements(once) \cup Elements(Suites)
    BY <1>1, <1>4, MergeOnce
  <1>6. Offer(preferred) = Merge(once, Suites)
    BY DEF Offer, Keep, once, kept, none
  <1>7. QED
    BY <1>3, <1>4, <1>5, <1>6, SuitesAreAll DEF T

(* A server that accepts one of them finds it.                             *)
LEMMA CommonIsFound ==
  ASSUME NEW preferred \in Preferences, offer = Offer(preferred)
  PROVE  Common = <<>> <=> peer.accepts \cap ToSet(Suites) = {}
  <1>1. offer \in Seq(STRING \cup ToSet(Suites)) /\ Elements(offer) = ToSet(Suites)
    BY OfferIsComplete, EvidenceAssumption
  <1> DEFINE I == {i \in DOMAIN offer : offer[i] \in peer.accepts}
  <1>2. Common = AtPositions(offer, I)
    BY DEF Common, Keep
  <1>3. Common \in Seq(STRING \cup ToSet(Suites)) /\ Elements(Common) = {offer[i] : i \in I}
    BY <1>1, <1>2, KeptElements
  <1>4. {offer[i] : i \in I} = peer.accepts \cap ToSet(Suites)
    BY <1>1 DEF Elements
  <1>5. Common = <<>> <=> Elements(Common) = {}
    <2>1. DOMAIN Common = 1..Len(Common) /\ Len(Common) \in Nat
      BY <1>3, LenProperties
    <2>2. Common = <<>> <=> Len(Common) = 0
      BY <1>3, EmptySeq
    <2>3. Len(Common) = 0 <=> DOMAIN Common = {}
      BY <2>1
    <2>4. QED
      BY <2>2, <2>3 DEF Elements
  <1>6. QED
    BY <1>3, <1>4, <1>5

(* What is offered is a seed's; until the handshake ends there is no       *)
(* evidence, and what there is then is of this connection.                 *)
EvidenceInv ==
  /\ phase \in {"headers", "handshake"} =>
       tls = None /\ \E preferred \in Preferences : offer = Offer(preferred)
  /\ phase \notin {"headers", "handshake", "key", "failed"} => peer = None
  /\ VerifiedIsVerified

LEMMA EvidenceStep ==
  ASSUME EvidenceInv, [Next]_vars
  PROVE  EvidenceInv'
  <1>1. ASSUME UNCHANGED <<peer, offer, tls>>, phase' \notin {"headers", "handshake"} \/ phase' = phase
                 \/ (phase = "headers" /\ phase' = "handshake"),
               \/ phase' \in {phase, "failed"} \/ (phase = "headers" /\ phase' = "handshake")
               \/ phase \notin {"headers", "handshake", "key", "failed"}
               \/ peer = None
        PROVE  EvidenceInv'
    BY <1>1 DEF EvidenceInv, VerifiedIsVerified
  <1>2. CASE CheckHeaders \/ Record \/ HandshakeFails \/ AgentFails \/ QuoteAnswered \/ SignAnswered
    BY <1>1, <1>2 DEF CheckHeaders, Record, HandshakeFails, AgentFails, QuoteAnswered, SignAnswered, EvidenceInv
  <1>3. CASE HandshakeEnds
    <2>1. tls' = Captured /\ UNCHANGED <<peer, insecure, offer>> /\ phase' \in {"failed", "key"} /\ VerifierAccepts
      BY <1>3 DEF HandshakeEnds
    <2>2. tls' # None =>
            /\ tls'.chain = peer.chain
            /\ tls'.validated => ~insecure /\ peer.version = "1.3" /\ tls'.transcript # None /\ tls'.share # None
      BY <2>1 DEF Captured
    <2>3. QED
      BY <2>1, <2>2 DEF EvidenceInv, VerifiedIsVerified, VerifierAccepts
  <1>4. CASE KeyLearned
    BY <1>4 DEF KeyLearned, EvidenceInv, VerifiedIsVerified
  <1>5. CASE AskQuote
    BY <1>1, <1>5 DEF AskQuote, EvidenceInv
  <1>6. CASE Return
    BY <1>6 DEF Return, EvidenceInv, VerifiedIsVerified
  <1>7. CASE ProbeLandmark \/ LandmarkFails \/ Measured
    BY <1>1, <1>7 DEF ProbeLandmark, LandmarkFails, Measured, EvidenceInv
  <1>8. CASE UNCHANGED scraping
    BY <1>1, <1>8 DEF scraping
  <1>9. CASE ~UNCHANGED scraping
    <2>1. \/ ScrapeStep \/ Return \/ ProbeLandmark \/ LandmarkFails \/ Measured
      BY <1>9 DEF Next, ServerStep, AgentRekeys, Start, Drop, Joined, CheckFlag, WouldBlock, AcceptFails, Accept,
                  Sign, SignFails, Reply, CallerAsks, Probe, Measure, vars
    <2>2. QED
      BY <1>2, <1>3, <1>4, <1>5, <1>6, <1>7, <2>1 DEF ScrapeStep
  <1>10. QED
    BY <1>8, <1>9

LEMMA EvidenceInit == Init => EvidenceInv
  <1> SUFFICES ASSUME Init PROVE EvidenceInv
    OBVIOUS
  <1>1. tls = None
    BY DEF Init
  <1>2. CASE phase = "headers"
    BY <1>1, <1>2 DEF Init, EvidenceInv, VerifiedIsVerified
  <1>3. CASE phase \in {"ask", "measure"} /\ peer = None
    BY <1>1, <1>3 DEF EvidenceInv, VerifiedIsVerified
  <1>4. QED
    BY <1>2, <1>3 DEF Init

(* Whatever suites a seed prefers and whatever a server accepts, they find *)
(* one in common if there is one at all: order_tls13_cipher_suites() moves *)
(* suites to the front and drops none.                                     *)
THEOREM NoServerIsEverLost == Spec => []NoServerIsLost
  <1>1. EvidenceInv /\ [Next]_vars => EvidenceInv'
    BY EvidenceStep
  <1>2. EvidenceInv => NoServerIsLost
    BY CommonIsFound DEF EvidenceInv, NoServerIsLost
  <1>3. QED
    BY EvidenceInit, <1>1, <1>2, PTL DEF Spec

(* Evidence that says validated is of a connection that was, over TLS 1.3, *)
(* with its own chain, key share and transcript hash: for the diagnostic   *)
(* option, capture_tls_metadata() never writes that word.                  *)
THEOREM NothingUnverifiedPasses == Spec => []VerifiedIsVerified
  <1>1. EvidenceInv /\ [Next]_vars => EvidenceInv'
    BY EvidenceStep
  <1>2. EvidenceInv => VerifiedIsVerified
    BY DEF EvidenceInv
  <1>3. QED
    BY EvidenceInit, <1>1, <1>2, PTL DEF Spec

-----------------------------------------------------------------------------
(* What a quote was asked for, and what the accepted one says, follows the *)
(* proof from the moment its fields are complete.                          *)
Commits(report, p, evidence) ==
  /\ p.chain = evidence.chain /\ p.transcript = evidence.transcript /\ Complete(p)
  /\ report = Normalized(ReportData(p))

QuotedInv ==
  /\ phase \in {"headers", "handshake", "key"} => {"chain", "transcript", "key"} \subseteq DOMAIN proof
  /\ phase \in {"ask", "quoted"} => proof = None
  /\ phase = "quote" => proof = None \/ Commits(submitted, proof, tls)
  /\ phase \in {"sign", "proved"} =>
       Commits(submitted, proof, tls) /\ ValidQuote(quote) /\ QuotedReport(quote) = submitted
  /\ phase = "proved" => <<signature.by>> = proof.key /\ signature.over = "proof"

LEMMA QuotedNext ==
  QuotedInv' <=>
    /\ phase' \in {"headers", "handshake", "key"} => {"chain", "transcript", "key"} \subseteq DOMAIN proof'
    /\ phase' \in {"ask", "quoted"} => proof' = None
    /\ phase' = "quote" => proof' = None \/ Commits(submitted', proof', tls')
    /\ phase' \in {"sign", "proved"} =>
         Commits(submitted', proof', tls') /\ ValidQuote(quote') /\ QuotedReport(quote') = submitted'
    /\ phase' = "proved" => <<signature'.by>> = proof'.key /\ signature'.over = "proof"
  <1>1. /\ Commits(submitted, proof, tls)' <=> Commits(submitted', proof', tls')
        /\ ValidQuote(quote)' <=> ValidQuote(quote')
        /\ QuotedReport(quote)' = QuotedReport(quote')
    BY DEF Commits, ValidQuote, ValidCertification, QuotedReport, Complete, ReportFields, ReportData, Sha512,
           RequestHash, ResponseHash, ResultHash, Normalized
  <1>2. QED
    BY <1>1 DEF QuotedInv

LEMMA QuotedStep ==
  ASSUME QuotedInv, [Next]_vars
  PROVE  QuotedInv'
  <1>1. CASE UNCHANGED scraping
    BY <1>1, QuotedNext DEF scraping, QuotedInv
  <1>2. ASSUME phase' \notin {"headers", "handshake", "key", "ask", "quote", "quoted", "sign", "proved"}
        PROVE  QuotedInv'
    BY <1>2, QuotedNext
  <1>3. CASE HandshakeFails \/ AgentFails \/ Return \/ ProbeLandmark \/ LandmarkFails \/ Measured
    <2>1. phase' \notin {"headers", "handshake", "key", "ask", "quote", "quoted", "sign", "proved"}
      BY <1>3 DEF HandshakeFails, AgentFails, Return, ProbeLandmark, LandmarkFails, Measured
    <2>2. QED
      BY <1>2, <2>1
  <1>4. CASE CheckHeaders \/ Record \/ HandshakeEnds
    <2>1. /\ phase \in {"headers", "handshake"} /\ phase' \in {"handshake", "key", "failed"}
          /\ proof' = proof \/ proof' = [proof EXCEPT !.headers = EffectiveHeaders(@)]
      BY <1>4 DEF CheckHeaders, Record, HandshakeEnds
    <2>2. DOMAIN proof' = DOMAIN proof
      BY <2>1
    <2>3. QED
      BY <2>1, <2>2, QuotedNext DEF QuotedInv
  <1>5. CASE KeyLearned
    <2> DEFINE p == [proof EXCEPT !.key = <<agent>>, !.chain = tls.chain, !.transcript = tls.transcript]
    <2>1. proof' = p /\ tls' = tls /\ p.chain = tls.chain /\ p.transcript = tls.transcript
      BY <1>5 DEF KeyLearned, QuotedInv
    <2>2. \/ Complete(p) /\ phase' = "quote" /\ submitted' = Normalized(ReportData(p))
          \/ phase' = "failed"
      <3>1. \/ Complete(proof') /\ phase' = "quote" /\ submitted' = Normalized(ReportData(proof'))
            \/ phase' = "failed"
        BY <1>5 DEF KeyLearned
      <3>2. QED
        BY <2>1, <3>1
    <2> HIDE DEF p
    <2>3. QED
      BY <2>1, <2>2, QuotedNext DEF Commits
  <1>6. CASE AskQuote
    BY <1>6, QuotedNext DEF AskQuote, QuotedInv
  <1>7. CASE QuoteAnswered
    <2>1. /\ phase = "quote" /\ UNCHANGED <<proof, tls, submitted>>
          /\ \/ /\ ValidQuote(quote') /\ QuotedReport(quote') = submitted
                /\ phase' = IF proof = None THEN "quoted" ELSE "sign"
             \/ phase' = "refused"
      BY <1>7 DEF QuoteAnswered, Accepts
    <2>2. QED
      BY <2>1, QuotedNext DEF QuotedInv
  <1>8. CASE SignAnswered
    <2>1. /\ phase = "sign" /\ UNCHANGED <<proof, tls, submitted, quote>>
          /\ \/ phase' = "proved" /\ <<signature'.by>> = proof.key /\ signature'.over = "proof"
             \/ phase' = "failed"
      BY <1>8 DEF SignAnswered, SignedAsCommitted, Verifies
    <2>2. QED
      BY <2>1, QuotedNext DEF QuotedInv
  <1>9. QED
    <2>1. UNCHANGED scraping \/ ScrapeStep \/ Return \/ ProbeLandmark \/ LandmarkFails \/ Measured
      BY DEF Next, ServerStep, AgentRekeys, Start, Drop, Joined, CheckFlag, WouldBlock, AcceptFails, Accept,
             Sign, SignFails, Reply, CallerAsks, Probe, Measure, vars
    <2>2. QED
      BY <1>1, <1>3, <1>4, <1>5, <1>6, <1>7, <1>8, <2>1 DEF ScrapeStep

(* A proof that is returned is signed by the key that its quote commits    *)
(* to, with the chain and the transcript of its own connection, whatever   *)
(* keys the agent takes on between its answers: the signature is verified  *)
(* under the committed key, and the quote checked against report data that *)
(* was computed with it.                                                   *)
THEOREM SignedByQuotedKey == Spec => []SignedAsQuoted
  <1>1. Init => QuotedInv
    <2> SUFFICES ASSUME Init PROVE QuotedInv
      OBVIOUS
    <2>1. CASE phase = "headers"
      <3>1. PICK t \in Tasks : proof = [f \in DOMAIN t \cup {"chain", "transcript", "key"} |->
                                         IF f \in DOMAIN t THEN t[f] ELSE None]
        BY <2>1 DEF Init
      <3>2. {"chain", "transcript", "key"} \subseteq DOMAIN proof
        BY <3>1
      <3>3. QED
        BY <2>1, <3>2 DEF QuotedInv
    <2>2. CASE phase \in {"ask", "measure"} /\ proof = None
      BY <2>2 DEF QuotedInv
    <2>3. QED
      BY <2>1, <2>2 DEF Init
  <1>2. QuotedInv /\ [Next]_vars => QuotedInv'
    BY QuotedStep
  <1>3. QuotedInv => SignedAsQuoted
    BY DEF QuotedInv, Commits, SignedAsQuoted
  <1>4. QED
    BY <1>1, <1>2, <1>3, PTL DEF Spec

=============================================================================
