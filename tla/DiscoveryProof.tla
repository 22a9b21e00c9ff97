---------------------------- MODULE DiscoveryProof ----------------------------
(***************************************************************************)
(* Proofs about Discovery, for any site, options, caps and sitemaps: that  *)
(* a crawl takes the pages breadth first, by what its queue and its        *)
(* visited keys have to do with the distance from the seed, that the walk  *)
(* over sitemaps and the inventory of a map lose nothing that fits, and    *)
(* that policy files are read as they are written and obeyed: the scan of  *)
(* a pattern matches where the protocol says so, groups hold the rules of  *)
(* their agents, and the best rule of the best agent decides.              *)
(***************************************************************************)
EXTENDS Discovery, PositionsProof

(* The call and its site stay what they are, and with them all that is     *)
(* read off a document.                                                    *)
LEMMA SameCall ==
  ASSUME callVars' = callVars
  PROVE  /\ opt' = opt /\ site' = site
         /\ \A u : is_allowed(u)' = is_allowed(u)
         /\ \A u : Document(u)' = Document(u)
         /\ \A u : Final(u)' = Final(u)
  BY DEF callVars, is_allowed, Document, Final

LEMMA SameLinks ==
  ASSUME callVars' = callVars, NEW url, NEW base
  PROVE  Links(url, base)' = Links(url, base) /\ FindNext(url, base)' = FindNext(url, base)
  <1>1. \A href : Resolved(url, base, href)' = Resolved(url, base, href)
    BY SameCall DEF Resolved, Join
  <1>2. Document(url)' = Document(url)
    BY SameCall
  <1>3. Links(url, base)' = Links(url, base)
    BY <1>1, <1>2, ZenonT(60) DEF Links
  <1>4. FindNext(url, base)' = FindNext(url, base)
    BY <1>1, <1>2, ZenonT(60) DEF FindNext
  <1>5. QED
    BY <1>3, <1>4

LEMMA SameOnward ==
  ASSUME callVars' = callVars
  PROVE  \A k : Onward(k)' = Onward(k) /\ Discovered(k)' = Discovered(k)
  <1>1. \A k, u, b : Final(k)' = Final(k) /\ Links(u, b)' = Links(u, b) /\ FindNext(u, b)' = FindNext(u, b)
    BY SameCall, SameLinks
  <1>2. ASSUME NEW k PROVE Discovered(k)' = Discovered(k)
    BY <1>1, SameCall DEF Discovered
  <1>3. ASSUME NEW k PROVE Onward(k)' = Onward(k)
    BY <1>2, SameCall DEF Onward, normalize_visit_key
  <1>4. QED
    BY <1>2, <1>3

LEMMA SameBall ==
  ASSUME callVars' = callVars
  PROVE  Ball' = Ball
  <1> DEFINE seed == {u \in {normalize_visit_key(Seed)} : is_allowed(u)}
             step(b) == [n \in Nat |-> IF n = 0 THEN seed ELSE b[n - 1] \cup UNION {Onward(k) : k \in b[n - 1]}]
  <1>1. seed' = seed
    BY SameCall DEF normalize_visit_key
  <1>2. ASSUME NEW b PROVE step(b)' = step(b)
    <2>1. \A B : {Onward(k)' : k \in B} = {Onward(k) : k \in B}
      BY SameOnward
    <2> HIDE DEF seed
    <2>2. step(b)' = [n \in Nat |-> IF n = 0 THEN seed' ELSE b[n - 1] \cup UNION {Onward(k)' : k \in b[n - 1]}]
      OBVIOUS
    <2>3. QED
      BY <1>1, <2>1, <2>2
  <1>3. Ball = CHOOSE b : b = step(b)
    BY DEF Ball
  <1>4. Ball' = CHOOSE b : b = step(b)'
    BY DEF Ball
  <1> HIDE DEF step
  <1>5. QED
    BY Zenon, <1>2, <1>3, <1>4

-----------------------------------------------------------------------------
(* The site is one that a call may meet, and the options are its own.      *)
Met == opt \in OptionType /\ site.page \in [Origin \X DOMAIN Path -> DocumentType]

LEMMA JoinIsUrl ==
  ASSUME NEW from \in HrefType, from.origin # "same", NEW href \in HrefType, Join(from, href).origin # "other"
  PROVE  Join(from, href) \in UrlType /\ Join(from, href).origin # "same"
  <1>1. CASE href.origin = "same"
    BY <1>1 DEF Join, HrefType, UrlType, Origin
  <1>2. CASE href.origin # "same"
    BY <1>2 DEF Join, HrefType, UrlType, Origin
  <1>3. QED
    BY <1>1, <1>2

LEMMA DocumentOf ==
  ASSUME Met, NEW u \in UrlType
  PROVE  Document(u) \in DocumentType /\ Final(u) \in UrlType
  <1>1. <<u.origin, u.page>> \in Origin \X DOMAIN Path
    BY DEF UrlType
  <1>2. Document(u) \in DocumentType
    BY <1>1 DEF Met, Document
  <1>3. QED
    BY <1>2 DEF Final, DocumentType

(* What is resolved against a URL and navigated is one.                    *)
LEMMA ResolvedIsUrl ==
  ASSUME Met, NEW url \in UrlType, NEW base \in UrlType, NEW href \in HrefType,
         Resolved(url, base, href).origin # "other"
  PROVE  Resolved(url, base, href) \in UrlType
  <1> DEFINE b == Document(url).base
             from == IF b = NoUrl THEN base ELSE Join(base, b)
  <1>1. b \in HrefType \cup {NoUrl} /\ base \in HrefType /\ base.origin \notin {"same", "other"}
    BY DocumentOf DEF DocumentType, UrlType, HrefType, Origin
  <1>2. from \in HrefType /\ from.origin # "same"
    <2>1. CASE b = NoUrl
      BY <1>1, <2>1
    <2>2. CASE b # NoUrl /\ Join(base, b).origin = "other"
      <3>1. b \in HrefType
        BY <1>1, <2>2
      <3>2. CASE b.origin = "same"
        BY <1>1, <2>2, <3>1, <3>2 DEF Join, HrefType
      <3>3. CASE b.origin # "same"
        BY <1>1, <2>2, <3>1, <3>3 DEF Join
      <3>4. QED
        BY <3>2, <3>3
    <2>3. CASE b # NoUrl /\ Join(base, b).origin # "other"
      <3>1. Join(base, b) \in UrlType /\ Join(base, b).origin # "same"
        BY <1>1, <2>3, JoinIsUrl
      <3>2. QED
        BY <2>3, <3>1 DEF UrlType, HrefType
    <2>4. QED
      BY <2>1, <2>2, <2>3
  <1>3. Resolved(url, base, href) = Join(from, href)
    BY DEF Resolved
  <1> HIDE DEF from
  <1>4. QED
    BY <1>2, <1>3, JoinIsUrl

LEMMA LinksAreUrls ==
  ASSUME Met, NEW url \in UrlType, NEW base \in UrlType
  PROVE  Links(url, base) \in Seq(UrlType) /\ FindNext(url, base) \in Seq(UrlType)
  <1> DEFINE elements == Document(url).elements
             link(i) == Resolved(url, base, elements[i].href)
             anchors == {i \in DOMAIN elements : elements[i].tag = "a" /\ link(i).origin # "other"}
             all == [i \in DOMAIN elements |-> link(i)]
             firsts == {i \in anchors : \A j \in anchors : j < i => link(j) # link(i)}
             usable == {i \in DOMAIN elements : link(i).origin # "other" /\ (elements[i].rel \/ elements[i].reads)}
             rel == {i \in usable : elements[i].rel}
  <1>1. elements \in Seq([tag : {"a", "link"}, href : HrefType, rel : BOOLEAN, reads : BOOLEAN])
    BY DocumentOf DEF DocumentType
  <1>2. DOMAIN elements = 1..Len(elements) /\ Len(elements) \in Nat
        /\ \A i \in DOMAIN elements : elements[i].href \in HrefType
    <2> HIDE DEF elements
    <2>1. DOMAIN elements = 1..Len(elements) /\ Len(elements) \in Nat
      BY <1>1, LenProperties
    <2>2. \A i \in 1..Len(elements) :
            elements[i] \in [tag : {"a", "link"}, href : HrefType, rel : BOOLEAN, reads : BOOLEAN]
      BY <1>1, ElementOfSeq
    <2>3. QED
      BY <2>1, <2>2
  <1>3. \A i \in DOMAIN elements : link(i).origin # "other" => link(i) \in UrlType
    BY <1>2, ResolvedIsUrl
  <1> HIDE DEF elements, link
  <1>4. all \in Seq({link(i) : i \in DOMAIN elements})
    BY <1>2, SeqDef
  <1>5. AtPositions(all, firsts) \in Seq(Held(all, firsts))
    <2>1. firsts \subseteq DOMAIN all
      OBVIOUS
    <2> HIDE DEF all, firsts
    <2>2. QED
      BY <1>4, <2>1, PositionsKept
  <1>6. Held(all, firsts) \subseteq UrlType
    BY <1>3 DEF Held
  <1>7. AtPositions(all, firsts) \in Seq(UrlType)
    <2> HIDE DEF all, firsts
    <2> QED BY <1>5, <1>6, SeqMonotonic
  <1>8. Links(url, base) = AtPositions(all, firsts)
    BY DEF Links, elements, link
  <1>9. FindNext(url, base) = IF rel # {} THEN <<link(Min(rel))>>
                              ELSE IF usable # {} THEN <<link(Min(usable))>> ELSE << >>
    BY DEF FindNext, elements, link
  <1>10. ASSUME NEW I, I \subseteq usable, I # {} PROVE <<link(Min(I))>> \in Seq(UrlType)
    <2>1. I \subseteq Nat /\ I \subseteq DOMAIN elements
      BY <1>2, <1>10
    <2>2. PICK x \in I : \A y \in I : x <= y
      BY <1>10, <2>1, LeastNumber
    <2>3. Min(I) \in I
      BY <2>2 DEF Min
    <2>4. link(Min(I)) \in UrlType
      BY <1>3, <1>10, <2>3
    <2>5. QED
      BY <2>4
  <1>11. FindNext(url, base) \in Seq(UrlType)
    <2>1. CASE rel # {}
      <3>1. rel \subseteq usable
        OBVIOUS
      <3> HIDE DEF rel, usable
      <3>2. <<link(Min(rel))>> \in Seq(UrlType)
        BY <1>10, <2>1, <3>1
      <3>3. QED
        BY <1>9, <2>1, <3>2
    <2>2. CASE rel = {} /\ usable # {}
      <3> HIDE DEF rel, usable
      <3>1. <<link(Min(usable))>> \in Seq(UrlType)
        BY <1>10, <2>2
      <3>2. QED
        BY <1>9, <2>2, <3>1
    <2>3. CASE rel = {} /\ usable = {}
      <3> HIDE DEF rel, usable
      <3>1. << >> \in Seq(UrlType)
        OBVIOUS
      <3>2. QED
        BY <1>9, <2>3, <3>1
    <2>4. QED
      BY <2>1, <2>2, <2>3
  <1>12. QED
    BY <1>7, <1>8, <1>11

LEMMA DiscoveredAreUrls ==
  ASSUME Met, NEW url \in UrlType
  PROVE  Discovered(url) \in Seq(UrlType)
  <1>1. Final(url) \in UrlType
    BY DocumentOf
  <1>2. /\ Links(Final(url), Final(url)) \in Seq(UrlType)
        /\ Links(Final(url), url) \in Seq(UrlType)
        /\ FindNext(Final(url), url) \in Seq(UrlType)
        /\ << >> \in Seq(UrlType)
    BY <1>1, LinksAreUrls
  <1>3. FindNext(Final(url), url) \o Links(Final(url), url) \in Seq(UrlType)
    BY <1>2, ConcatProperties
  <1>4. QED
    BY <1>2, <1>3 DEF Discovered

(* A page is found and read under its key as under any URL of it.          *)
LEMMA KeyIsSame ==
  ASSUME NEW u \in UrlType
  PROVE  /\ normalize_visit_key(u) \in UrlType
         /\ normalize_visit_key(u).origin = u.origin /\ normalize_visit_key(u).page = u.page
         /\ normalize_visit_key(normalize_visit_key(u)) = normalize_visit_key(u)
         /\ is_allowed(normalize_visit_key(u)) = is_allowed(u)
  <1>1. /\ normalize_visit_key(u) \in UrlType
        /\ normalize_visit_key(u).origin = u.origin /\ normalize_visit_key(u).page = u.page
        /\ normalize_visit_key(u).frag = FALSE
    BY DEF normalize_visit_key, UrlType
  <1>2. normalize_visit_key(normalize_visit_key(u)) = normalize_visit_key(u)
    BY <1>1 DEF normalize_visit_key, UrlType
  <1>3. QED
    BY <1>1, <1>2 DEF is_allowed

LEMMA SameSource ==
  ASSUME NEW u, NEW v, NEW b, NEW c, u.origin = v.origin, u.page = v.page, b.origin = c.origin
  PROVE  /\ Document(u) = Document(v)
         /\ Links(u, b) = Links(v, c) /\ FindNext(u, b) = FindNext(v, c)
  <1>1. Document(u) = Document(v)
    BY DEF Document
  <1>2. \A href : Join(b, href) = Join(c, href)
    BY DEF Join
  <1>3. \A href : Resolved(u, b, href) = Resolved(v, c, href)
    BY <1>1, <1>2 DEF Resolved, Join
  <1>4. Links(u, b) = Links(v, c)
    BY <1>1, <1>3, ZenonT(60) DEF Links
  <1>5. FindNext(u, b) = FindNext(v, c)
    BY <1>1, <1>3, ZenonT(60) DEF FindNext
  <1>6. QED
    BY <1>1, <1>4, <1>5

LEMMA SameDiscovery ==
  ASSUME NEW u \in UrlType
  PROVE  Discovered(normalize_visit_key(u)) = Discovered(u)
  <1> DEFINE k == normalize_visit_key(u)
  <1>1. k.origin = u.origin /\ k.page = u.page
    BY KeyIsSame
  <1> HIDE DEF k
  <1>2. Document(k) = Document(u)
    BY <1>1, SameSource
  <1>3. Final(k).origin = Final(u).origin /\ Final(k).page = Final(u).page
    BY <1>1, <1>2 DEF Final
  <1>4. /\ Links(Final(k), Final(k)) = Links(Final(u), Final(u))
        /\ Links(Final(k), k) = Links(Final(u), u)
        /\ FindNext(Final(k), k) = FindNext(Final(u), u)
    BY <1>1, <1>3, SameSource
  <1>5. Discovered(k) = Discovered(u)
    BY <1>4 DEF Discovered
  <1>6. QED
    BY <1>5 DEF k

(* The keys within reach: from the seed link by link.                      *)
LEMMA BallGrows ==
  ASSUME Met, DiscoveryAssumption
  PROVE  /\ Ball[0] = {u \in {normalize_visit_key(Seed)} : is_allowed(u)}
         /\ \A n \in Nat : /\ Ball[n] \subseteq UrlType
                           /\ Ball[n + 1] = Ball[n] \cup UNION {Onward(k) : k \in Ball[n]}
  <1> DEFINE seed == {u \in {normalize_visit_key(Seed)} : is_allowed(u)}
             step(b) == [n \in Nat |-> IF n = 0 THEN seed ELSE b[n - 1] \cup UNION {Onward(k) : k \in b[n - 1]}]
             Wider == [B \in SUBSET UrlType |-> B \cup UNION {Onward(k) : k \in B}]
             F == [n \in Nat |-> Wider]
  <1>1. seed \in SUBSET UrlType
    BY KeyIsSame DEF DiscoveryAssumption
  <1>2. ASSUME NEW k \in UrlType PROVE Onward(k) \subseteq UrlType
    <2>1. Discovered(k) \in Seq(UrlType)
      BY DiscoveredAreUrls
    <2>2. ToSet(Discovered(k)) \subseteq UrlType
      BY <2>1, LenProperties, ElementOfSeq DEF ToSet
    <2>3. QED
      BY <2>2, KeyIsSame DEF Onward
  <1>3. F \in StepsIn(SUBSET UrlType)
    <2>1. \A B \in SUBSET UrlType : B \cup UNION {Onward(k) : k \in B} \in SUBSET UrlType
      BY <1>2
    <2>2. Wider \in [SUBSET UrlType -> SUBSET UrlType]
      BY <2>1
    <2> HIDE DEF Wider
    <2>3. QED
      BY <2>2 DEF StepsIn
  <1>4. PICK f \in [Nat -> SUBSET UrlType] : f[0] = seed /\ \A n \in Nat : f[n + 1] = F[n][f[n]]
    <2>1. PICK f : f \in Courses(SUBSET UrlType, seed, F)
      <3> HIDE DEF F, seed
      <3> QED BY <1>1, <1>3, Recursion
    <2> HIDE DEF F, seed
    <2>2. QED
      BY <2>1 DEF Courses
  <1>5. \A n \in Nat : f[n + 1] = f[n] \cup UNION {Onward(k) : k \in f[n]}
    <2>1. ASSUME NEW n \in Nat PROVE f[n + 1] = f[n] \cup UNION {Onward(k) : k \in f[n]}
      <3>1. f[n + 1] = Wider[f[n]] /\ f[n] \in SUBSET UrlType
        BY <1>4
      <3>2. QED
        BY <3>1
    <2>2. QED
      BY <2>1
  <1>6. f = step(f)
    <2>1. ASSUME NEW n \in Nat
          PROVE  f[n] = IF n = 0 THEN seed ELSE f[n - 1] \cup UNION {Onward(k) : k \in f[n - 1]}
      <3>1. CASE n = 0
        BY <1>4, <3>1
      <3>2. CASE n # 0
        <4>1. n - 1 \in Nat /\ n = (n - 1) + 1
          BY <2>1, <3>2
        <4>2. f[(n - 1) + 1] = f[n - 1] \cup UNION {Onward(k) : k \in f[n - 1]}
          BY <1>5, <4>1
        <4> HIDE DEF seed
        <4>3. QED
          BY <3>2, <4>1, <4>2
      <3>3. QED
        BY <3>1, <3>2
    <2> HIDE DEF seed
    <2>2. QED
      BY <2>1
  <1>7. Ball = CHOOSE b : b = step(b)
    BY DEF Ball
  <1>8. Ball = step(Ball)
    <2> HIDE DEF step
    <2> QED BY <1>6, <1>7
  <1>9. Ball[0] = seed
    BY <1>8
  <1>10. ASSUME NEW n \in Nat PROVE Ball[n + 1] = Ball[n] \cup UNION {Onward(k) : k \in Ball[n]}
    <2>1. n + 1 \in Nat /\ n + 1 # 0 /\ (n + 1) - 1 = n
      BY <1>10
    <2>2. Ball[n + 1] = Ball[(n + 1) - 1] \cup UNION {Onward(k) : k \in Ball[(n + 1) - 1]}
      <3> HIDE DEF seed
      <3> QED BY <1>8, <2>1
    <2>3. QED
      BY <2>1, <2>2
  <1>11. \A n \in Nat : Ball[n] \subseteq UrlType
    <2> DEFINE P == {n \in Nat : Ball[n] \subseteq UrlType}
    <2>1. 0 \in P
      BY <1>1, <1>9
    <2>2. ASSUME NEW n \in Nat, n \in P PROVE n + 1 \in P
      <3>1. \A k \in Ball[n] : Onward(k) \subseteq UrlType
        BY <1>2, <2>2
      <3>2. QED
        BY <1>10, <2>2, <3>1
    <2>3. \A n \in Nat : n \in P
      <3> HIDE DEF P
      <3> QED BY <2>1, <2>2, Induction
    <2>4. QED
      BY <2>3
  <1>12. QED
    BY <1>9, <1>10, <1>11

LEMMA BallContains ==
  ASSUME Met, DiscoveryAssumption, NEW m \in Nat, NEW n \in Nat, m <= n
  PROVE  Ball[m] \subseteq Ball[n]
  <1> DEFINE P == {d \in Nat : Ball[m] \subseteq Ball[m + d]}
  <1>1. 0 \in P
    OBVIOUS
  <1>2. ASSUME NEW d \in Nat, d \in P PROVE d + 1 \in P
    <2>1. m + d \in Nat
      BY <1>2
    <2>3. Ball[m + d] \subseteq Ball[(m + d) + 1]
      BY <2>1, BallGrows
    <2>2. (m + d) + 1 = m + (d + 1)
      BY <1>2
    <2>4. QED
      BY <1>2, <2>2, <2>3
  <1>3. \A d \in Nat : d \in P
    <2> HIDE DEF P
    <2> QED BY <1>1, <1>2, Induction
  <1>4. n - m \in P /\ m + (n - m) = n
    BY <1>3
  <1>5. QED
    BY <1>4

LEMMA BallIsAllowed ==
  ASSUME Met, DiscoveryAssumption
  PROVE  \A n \in Nat : \A k \in Ball[n] : is_allowed(k)
  <1> DEFINE P == {n \in Nat : \A k \in Ball[n] : is_allowed(k)}
  <1>1. 0 \in P
    BY BallGrows
  <1>2. ASSUME NEW n \in Nat, n \in P PROVE n + 1 \in P
    <2>1. Ball[n] \subseteq UrlType /\ Ball[n + 1] = Ball[n] \cup UNION {Onward(k) : k \in Ball[n]}
      BY <1>2, BallGrows
    <2>2. ASSUME NEW k \in Ball[n], NEW next \in Onward(k) PROVE is_allowed(next)
      <3>1. Discovered(k) \in Seq(UrlType)
        BY <2>1, DiscoveredAreUrls
      <3>2. ToSet(Discovered(k)) \subseteq UrlType
        BY <3>1, LenProperties, ElementOfSeq DEF ToSet
      <3>3. QED
        BY <3>2, KeyIsSame DEF Onward
    <2>3. QED
      BY <1>2, <2>1, <2>2
  <1>3. \A n \in Nat : n \in P
    <2> HIDE DEF P
    <2> QED BY <1>1, <1>2, Induction
  <1>4. QED
    BY <1>3

-----------------------------------------------------------------------------
(* The queue of the crawl, as a set of keys, and what it has been through. *)
EntryType == [url : UrlType, depth : Nat]

KeyOf(entry) == normalize_visit_key(entry.url)
Scraped == {KeyOf(pages[i]) : i \in DOMAIN pages}
Waiting(n) == {KeyOf(todo[i]) : i \in {j \in DOMAIN todo : todo[j].depth <= n}}

Crawling == opt.mode = "crawl" /\ pc \notin {"begin", "done"}
Busy == opt.mode = "crawl" /\ pc \in {"request", "walk", "scraped"}

(* A page at its distance from the seed.                                   *)
Exact(entry) ==
  /\ is_allowed(entry.url) /\ entry.depth <= opt.maxDepth
  /\ KeyOf(entry) \in Ball[entry.depth]
  /\ entry.depth > 0 => KeyOf(entry) \notin Ball[entry.depth - 1]

(* What holds of the pages at any time, after the call as well.            *)
PagesInOrder ==
  /\ pages \in Seq(EntryType) /\ Len(pages) <= opt.maxPages
  /\ \A i \in DOMAIN pages : Exact(pages[i])
  /\ \A i, j \in DOMAIN pages :
       i < j => KeyOf(pages[i]) # KeyOf(pages[j]) /\ pages[i].depth <= pages[j].depth

(* The queue holds two depths at a time, the nearer one first.             *)
QueueInOrder ==
  /\ todo \in Seq(EntryType)
  /\ \A i \in DOMAIN todo :
       /\ todo[i].depth <= opt.maxDepth
       /\ is_allowed(todo[i].url) => KeyOf(todo[i]) \in Ball[todo[i].depth]
       /\ \A p \in DOMAIN pages : pages[p].depth <= todo[i].depth
       /\ Busy => at.depth <= todo[i].depth /\ todo[i].depth <= at.depth + 1
  /\ \A i, j \in DOMAIN todo :
       i < j => todo[i].depth <= todo[j].depth /\ todo[j].depth <= todo[i].depth + 1

(* The page at hand is new, and what has been visited and may be scraped   *)
(* has been.                                                               *)
VisitedIsScraped ==
  /\ Busy =>
       /\ at \in EntryType /\ Exact(at)
       /\ KeyOf(at) \in visited \ Scraped
       /\ \A p \in DOMAIN pages : pages[p].depth <= at.depth
       /\ Len(pages) < opt.maxPages
  /\ Scraped \subseteq visited
  /\ \A k \in visited : is_allowed(k) => k \in Scraped \/ (Busy /\ k = KeyOf(at))

(* Below the page cap the links of every page are visited or queued.       *)
LinksAreQueued ==
  Len(pages) < opt.maxPages =>
    /\ Ball[0] \subseteq visited \cup Waiting(0)
    /\ \A i \in DOMAIN pages :
         pages[i].depth < opt.maxDepth =>
           Onward(KeyOf(pages[i])) \subseteq visited \cup Waiting(pages[i].depth + 1)

(* Which mode the call is in, and how it begins.                           *)
Phases ==
  /\ pc \in {"begin", "crawl", "request", "walk", "scraped", "follow", "map walk", "mapped", "done"}
  /\ pc = "crawl" => opt.mode = "crawl"
  /\ pc = "follow" => opt.mode = "scrape"
  /\ pc \in {"map walk", "mapped"} => opt.mode = "map"
  /\ pc # "done" => outcome = "none"
  /\ pc = "begin" => todo = << >> /\ visited = {}
  /\ pc = "begin" \/ opt.mode # "crawl" => pages = << >>

Reached == Scraped = Ball[opt.maxDepth]

CrawlInv ==
  /\ Met /\ Phases /\ PagesInOrder
  /\ Crawling => QueueInOrder /\ VisitedIsScraped /\ LinksAreQueued
  /\ outcome = "ok" /\ opt.mode = "crawl" /\ Len(pages) < opt.maxPages => Reached


-----------------------------------------------------------------------------
(* What the invariant says of the next state, read in this one.            *)
LEMMA Carried ==
  ASSUME callVars' = callVars
  PROVE  /\ Ball' = Ball /\ opt' = opt /\ (Met => Met')
         /\ \A k : Onward(k)' = Onward(k)
         /\ \A k : is_allowed(k)' = is_allowed(k)
         /\ PagesInOrder' <=> /\ pages' \in Seq(EntryType) /\ Len(pages') <= opt.maxPages
                              /\ \A i \in DOMAIN pages' : Exact(pages'[i])
                              /\ \A i, j \in DOMAIN pages' :
                                   i < j => /\ KeyOf(pages'[i]) # KeyOf(pages'[j])
                                            /\ pages'[i].depth <= pages'[j].depth
  <1>1. Ball' = Ball /\ opt' = opt /\ site' = site
    BY SameCall, SameBall
  <1>2. \A i : Exact(pages[i])' <=> Exact(pages'[i])
    BY <1>1 DEF Exact, is_allowed, KeyOf, normalize_visit_key
  <1>3. PagesInOrder' <=> /\ pages' \in Seq(EntryType) /\ Len(pages') <= opt.maxPages
                          /\ \A i \in DOMAIN pages' : Exact(pages'[i])
                          /\ \A i, j \in DOMAIN pages' :
                               i < j => /\ KeyOf(pages'[i]) # KeyOf(pages'[j])
                                        /\ pages'[i].depth <= pages'[j].depth
    BY <1>1, <1>2 DEF PagesInOrder, KeyOf, normalize_visit_key
  <1>4. Met => Met'
    BY <1>1 DEF Met
  <1>5. QED
    BY <1>1, <1>3, <1>4, SameCall, SameOnward

(* A call that is over without success, or is no crawl, has no pages.      *)
LEMMA Emptied ==
  ASSUME CrawlInv, callVars' = callVars, Phases', pages' = << >>, ~Crawling',
         outcome' = "ok" => opt.mode # "crawl"
  PROVE  CrawlInv'
  <1>1. opt' = opt /\ Met' /\ opt.maxPages \in Nat
    BY Carried DEF CrawlInv, Met, OptionType
  <1>2. PagesInOrder'
    <2>1. Len(pages') = 0 /\ DOMAIN pages' = {} /\ pages' \in Seq(EntryType)
      OBVIOUS
    <2>2. QED
      BY <1>1, <2>1, Carried
  <1>3. QED
    BY <1>1, <1>2 DEF CrawlInv

(* Where the frontier stays as it is, so does what holds of it.            *)
LEMMA Stays ==
  ASSUME CrawlInv, callVars' = callVars, Phases', UNCHANGED <<at, todo, visited, pages>>,
         Crawling' => Crawling /\ (Busy' <=> Busy),
         outcome' = "ok" /\ opt.mode = "crawl" => outcome = "ok"
  PROVE  CrawlInv'
  <1>1. opt' = opt /\ Met' /\ Ball' = Ball
    BY Carried DEF CrawlInv
  <1>2. PagesInOrder'
    BY Carried DEF CrawlInv, PagesInOrder
  <1>3. ASSUME Crawling' PROVE QueueInOrder' /\ VisitedIsScraped' /\ LinksAreQueued'
    <2>1. QueueInOrder /\ VisitedIsScraped /\ LinksAreQueued /\ (Busy' <=> Busy)
      BY <1>3 DEF CrawlInv
    <2>2. QueueInOrder'
      BY <1>1, <2>1 DEF QueueInOrder, KeyOf, normalize_visit_key, is_allowed
    <2>3. Exact(at)' <=> Exact(at)
      BY <1>1 DEF Exact, KeyOf, normalize_visit_key, is_allowed
    <2>4. Scraped' = Scraped /\ KeyOf(at)' = KeyOf(at)
      BY DEF Scraped, KeyOf, normalize_visit_key
    <2>5. VisitedIsScraped'
      BY <1>1, <2>1, <2>3, <2>4, Carried DEF VisitedIsScraped
    <2>6. (\A n : Waiting(n)' = Waiting(n)) /\ \A i : KeyOf(pages[i])' = KeyOf(pages[i])
      BY DEF Waiting, KeyOf, normalize_visit_key
    <2>7. \A i : Onward(KeyOf(pages[i]))' = Onward(KeyOf(pages[i]))
      BY <2>6, Carried DEF Onward
    <2>8. LinksAreQueued'
      BY <1>1, <2>1, <2>6, <2>7 DEF LinksAreQueued
    <2>9. QED
      BY <2>2, <2>5, <2>8
  <1>4. outcome' = "ok" /\ opt'.mode = "crawl" /\ Len(pages') < opt'.maxPages => Reached'
    BY <1>1 DEF CrawlInv, Reached, Scraped, KeyOf, normalize_visit_key
  <1>5. QED
    BY <1>1, <1>2, <1>3, <1>4 DEF CrawlInv


LEMMA CarriedQueue ==
  ASSUME callVars' = callVars
  PROVE  /\ QueueInOrder' <=>
              /\ todo' \in Seq(EntryType)
              /\ \A i \in DOMAIN todo' :
                   /\ todo'[i].depth <= opt.maxDepth
                   /\ is_allowed(todo'[i].url) => KeyOf(todo'[i]) \in Ball[todo'[i].depth]
                   /\ \A p \in DOMAIN pages' : pages'[p].depth <= todo'[i].depth
                   /\ Busy' => at'.depth <= todo'[i].depth /\ todo'[i].depth <= at'.depth + 1
              /\ \A i, j \in DOMAIN todo' :
                   i < j => todo'[i].depth <= todo'[j].depth /\ todo'[j].depth <= todo'[i].depth + 1
         /\ VisitedIsScraped' <=>
              /\ Busy' =>
                   /\ at' \in EntryType /\ Exact(at')
                   /\ KeyOf(at') \in visited' \ Scraped'
                   /\ \A p \in DOMAIN pages' : pages'[p].depth <= at'.depth
                   /\ Len(pages') < opt.maxPages
              /\ Scraped' \subseteq visited'
              /\ \A k \in visited' : is_allowed(k) => k \in Scraped' \/ (Busy' /\ k = KeyOf(at'))
         /\ Scraped' = {KeyOf(pages'[i]) : i \in DOMAIN pages'}
         /\ LinksAreQueued' <=>
              (Len(pages') < opt.maxPages =>
                 /\ Ball[0] \subseteq visited' \cup Waiting(0)'
                 /\ \A i \in DOMAIN pages' :
                      pages'[i].depth < opt.maxDepth =>
                        \A k \in Onward(KeyOf(pages'[i])) :
                          k \in visited' \/ \E j \in DOMAIN todo' : /\ todo'[j].depth <= pages'[i].depth + 1
                                                                    /\ KeyOf(todo'[j]) = k)
  <1>1. Ball' = Ball /\ opt' = opt /\ site' = site /\ \A k : is_allowed(k)' = is_allowed(k)
    BY SameCall, SameBall
  <1>2. \A i : KeyOf(todo[i])' = KeyOf(todo'[i]) /\ KeyOf(pages[i])' = KeyOf(pages'[i])
    BY DEF KeyOf, normalize_visit_key
  <1>3. \A i : (is_allowed(todo[i].url))' <=> is_allowed(todo'[i].url)
    BY <1>1 DEF is_allowed
  <1>4. (Exact(at)' <=> Exact(at')) /\ KeyOf(at)' = KeyOf(at')
    BY <1>1 DEF Exact, is_allowed, KeyOf, normalize_visit_key
  <1>5. Scraped' = {KeyOf(pages'[i]) : i \in DOMAIN pages'}
    BY <1>2 DEF Scraped
  <1>6. QueueInOrder' <=>
          /\ todo' \in Seq(EntryType)
          /\ \A i \in DOMAIN todo' :
               /\ todo'[i].depth <= opt.maxDepth
               /\ is_allowed(todo'[i].url) => KeyOf(todo'[i]) \in Ball[todo'[i].depth]
               /\ \A p \in DOMAIN pages' : pages'[p].depth <= todo'[i].depth
               /\ Busy' => at'.depth <= todo'[i].depth /\ todo'[i].depth <= at'.depth + 1
          /\ \A i, j \in DOMAIN todo' :
               i < j => todo'[i].depth <= todo'[j].depth /\ todo'[j].depth <= todo'[i].depth + 1
    BY <1>1, <1>2, <1>3 DEF QueueInOrder
  <1>7. VisitedIsScraped' <=>
          /\ Busy' =>
               /\ at' \in EntryType /\ Exact(at')
               /\ KeyOf(at') \in visited' \ Scraped'
               /\ \A p \in DOMAIN pages' : pages'[p].depth <= at'.depth
               /\ Len(pages') < opt.maxPages
          /\ Scraped' \subseteq visited'
          /\ \A k \in visited' : is_allowed(k) => k \in Scraped' \/ (Busy' /\ k = KeyOf(at'))
    BY <1>1, <1>4 DEF VisitedIsScraped
  <1>8. \A i : Onward(KeyOf(pages[i]))' = Onward(KeyOf(pages'[i]))
    <2>1. \A u, b : Links(u, b)' = Links(u, b) /\ FindNext(u, b)' = FindNext(u, b)
      BY SameLinks
    <2> QED BY <1>1, <1>2, <2>1, SameOnward DEF Onward
  <1>9. \A i : Waiting(pages[i].depth + 1)' = {KeyOf(todo'[j]) : j \in {l \in DOMAIN todo' : todo'[l].depth <= pages'[i].depth + 1}}
    BY <1>2 DEF Waiting
  <1>10. LinksAreQueued' <=>
           (Len(pages') < opt.maxPages =>
              /\ Ball[0] \subseteq visited' \cup Waiting(0)'
              /\ \A i \in DOMAIN pages' :
                   pages'[i].depth < opt.maxDepth =>
                     Onward(KeyOf(pages'[i])) \subseteq visited' \cup Waiting(pages[i].depth + 1)')
    BY <1>1, <1>8 DEF LinksAreQueued
  <1>11. ASSUME NEW i
         PROVE  Onward(KeyOf(pages'[i])) \subseteq visited' \cup Waiting(pages[i].depth + 1)' <=>
                  \A k \in Onward(KeyOf(pages'[i])) :
                    k \in visited' \/ \E j \in DOMAIN todo' : /\ todo'[j].depth <= pages'[i].depth + 1
                                                              /\ KeyOf(todo'[j]) = k
    <2>1. Waiting(pages[i].depth + 1)' = {KeyOf(todo'[j]) : j \in {l \in DOMAIN todo' : todo'[l].depth <= pages'[i].depth + 1}}
      BY <1>9
    <2> HIDE DEF KeyOf, Onward
    <2>2. QED
      BY <2>1
  <1>12. LinksAreQueued' <=>
           (Len(pages') < opt.maxPages =>
              /\ Ball[0] \subseteq visited' \cup Waiting(0)'
              /\ \A i \in DOMAIN pages' :
                   pages'[i].depth < opt.maxDepth =>
                     \A k \in Onward(KeyOf(pages'[i])) :
                       k \in visited' \/ \E j \in DOMAIN todo' : /\ todo'[j].depth <= pages'[i].depth + 1
                                                                 /\ KeyOf(todo'[j]) = k)
    BY <1>10, <1>11
  <1>13. QED
    BY <1>5, <1>6, <1>7, <1>12


(* Nearer than anything queued, everything has been visited.               *)
LEMMA NearIsVisited ==
  ASSUME CrawlInv, DiscoveryAssumption, pc = "crawl", Len(pages) < opt.maxPages,
         NEW d \in Nat, \A i \in DOMAIN todo : d <= todo[i].depth
  PROVE  \A n \in Nat : n < d /\ n <= opt.maxDepth => Ball[n] \subseteq visited
  <1> DEFINE P == {n \in Nat : n < d /\ n <= opt.maxDepth => Ball[n] \subseteq visited}
  <1>0. /\ Met /\ opt.maxDepth \in Nat /\ PagesInOrder /\ QueueInOrder /\ VisitedIsScraped /\ LinksAreQueued /\ ~Busy
        /\ \A i \in DOMAIN todo : todo[i].depth \in Nat
        /\ \A p \in DOMAIN pages : pages[p].depth \in Nat
    <2>1. Met /\ PagesInOrder /\ QueueInOrder /\ VisitedIsScraped /\ LinksAreQueued /\ ~Busy
      BY DEF CrawlInv, Crawling, Phases, Busy
    <2>2. todo \in Seq(EntryType) /\ pages \in Seq(EntryType)
      BY <2>1 DEF QueueInOrder, PagesInOrder
    <2>3. (\A i \in DOMAIN todo : todo[i] \in EntryType) /\ \A p \in DOMAIN pages : pages[p] \in EntryType
      BY <2>2, LenProperties, ElementOfSeq
    <2>4. QED
      BY <2>1, <2>3 DEF Met, OptionType, EntryType
  <1>1. 0 \in P
    <2>1. ASSUME 0 < d PROVE Waiting(0) = {}
      <3>1. \A i \in DOMAIN todo : ~(todo[i].depth <= 0)
        BY <1>0, <2>1
      <3>2. QED
        BY <3>1 DEF Waiting
    <2>2. QED
      BY <1>0, <2>1 DEF LinksAreQueued
  <1>2. ASSUME NEW n \in Nat, n \in P PROVE n + 1 \in P
    <2>1. SUFFICES ASSUME n + 1 < d, n + 1 <= opt.maxDepth PROVE Ball[n + 1] \subseteq visited
      OBVIOUS
    <2>2. /\ Ball[n] \subseteq visited
          /\ Ball[n + 1] = Ball[n] \cup UNION {Onward(k) : k \in Ball[n]}
          /\ \A k \in Ball[n] : is_allowed(k)
      <3>1. n < d /\ n <= opt.maxDepth
        BY <1>0, <1>2, <2>1
      <3>2. Ball[n] \subseteq visited
        BY <1>2, <3>1
      <3>3. QED
        BY <1>0, <1>2, <3>2, BallGrows, BallIsAllowed
    <2>3. ASSUME NEW k \in Ball[n] PROVE Onward(k) \subseteq visited
      <3>1. PICK p \in DOMAIN pages : k = KeyOf(pages[p])
        BY <1>0, <2>2, <2>3 DEF VisitedIsScraped, Scraped
      <3>2. Exact(pages[p]) /\ pages[p].depth \in Nat
        BY <1>0 DEF PagesInOrder
      <3>3. pages[p].depth <= n
        <4>1. SUFFICES ASSUME ~(pages[p].depth <= n) PROVE FALSE
          OBVIOUS
        <4>2. pages[p].depth - 1 \in Nat /\ n <= pages[p].depth - 1 /\ pages[p].depth > 0
          BY <1>2, <3>2, <4>1, SMTT(40)
        <4>3. Ball[n] \subseteq Ball[pages[p].depth - 1]
          BY <1>0, <1>2, <4>2, BallContains, ZenonT(60)
        <4>4. QED
          BY <2>3, <3>1, <3>2, <4>2, <4>3 DEF Exact
      <3>4. pages[p].depth < opt.maxDepth
        BY <1>0, <1>2, <2>1, <3>2, <3>3
      <3>5. Waiting(pages[p].depth + 1) = {}
        <4>1. \A i \in DOMAIN todo : ~(todo[i].depth <= pages[p].depth + 1)
          BY <1>0, <1>2, <2>1, <3>2, <3>3, SMTT(40)
        <4>2. QED
          BY <4>1 DEF Waiting
      <3>6. QED
        BY <1>0, <3>1, <3>4, <3>5 DEF LinksAreQueued
    <2>4. QED
      BY <2>2, <2>3
  <1>3. \A n \in Nat : n \in P
    <2> HIDE DEF P
    <2> QED BY <1>1, <1>2, Induction
  <1>4. QED
    BY <1>3

LEMMA BeginsCrawl ==
  ASSUME CrawlInv, DiscoveryAssumption, BeginCrawl
  PROVE  CrawlInv'
  <1>1. /\ callVars' = callVars /\ pages' = pages /\ visited' = visited /\ pages = << >> /\ visited = {}
        /\ Met /\ Phases' /\ ~Busy' /\ outcome' = "none" /\ opt.maxPages \in Nat /\ opt.maxDepth \in Nat
        /\ todo' = <<[url |-> Seed, depth |-> 0]>> /\ PagesInOrder
    BY DEF CrawlInv, BeginCrawl, Phases, Busy, callVars, Met, OptionType
  <1>2. PagesInOrder' /\ opt' = opt /\ Met' /\ Ball' = Ball
    BY <1>1, Carried DEF PagesInOrder
  <1>3. todo' \in Seq(EntryType) /\ DOMAIN todo' = {1} /\ todo'[1].url = Seed /\ todo'[1].depth = 0
    <2>1. [url |-> Seed, depth |-> 0] \in EntryType
      BY DEF DiscoveryAssumption, EntryType
    <2>2. QED
      BY <1>1, <2>1
  <1>4. is_allowed(Seed) => KeyOf(todo'[1]) \in Ball[0]
    <2>1. is_allowed(normalize_visit_key(Seed)) = is_allowed(Seed)
      BY KeyIsSame DEF DiscoveryAssumption
    <2>2. QED
      BY <1>1, <1>3, <2>1, BallGrows DEF KeyOf
  <1>5. QueueInOrder'
    BY <1>1, <1>3, <1>4, CarriedQueue
  <1>6. DOMAIN pages' = {}
    BY <1>1
  <1>7. VisitedIsScraped'
    BY <1>1, <1>6, CarriedQueue
  <1>8. LinksAreQueued'
    <2>1. Waiting(0)' = {KeyOf(todo'[1])}
      BY <1>3 DEF Waiting, KeyOf, normalize_visit_key
    <2>2. Ball[0] \subseteq {KeyOf(todo'[1])}
      BY <1>1, <1>3, BallGrows DEF KeyOf
    <2>3. QED
      BY <1>1, <1>6, <2>1, <2>2, CarriedQueue
  <1>9. QED
    BY <1>1, <1>2, <1>5, <1>7, <1>8 DEF CrawlInv

LEMMA EndsCrawl ==
  ASSUME CrawlInv, DiscoveryAssumption, CrawlEnds
  PROVE  CrawlInv'
  <1>1. /\ callVars' = callVars /\ pages' = pages /\ pc = "crawl" /\ Crawling
        /\ Met /\ Phases' /\ ~Crawling' /\ ~Busy /\ opt.maxDepth \in Nat
        /\ PagesInOrder /\ VisitedIsScraped /\ (todo = << >> \/ Len(pages) >= opt.maxPages)
    BY DEF CrawlInv, CrawlEnds, CrawlOver, End, Phases, Busy, callVars, Met, OptionType, Crawling
  <1>2. PagesInOrder' /\ opt' = opt /\ Met' /\ Ball' = Ball
    BY <1>1, Carried DEF PagesInOrder
  <1>3. ASSUME Len(pages) < opt.maxPages PROVE Reached
    <2>1. opt.maxPages \in Nat /\ Len(pages) \in Nat
      BY <1>1 DEF PagesInOrder, Met, OptionType
    <2>2. DOMAIN todo = {}
      BY <1>1, <1>3, <2>1
    <2>3. Ball[opt.maxDepth] \subseteq visited
      <3>1. opt.maxDepth + 1 \in Nat /\ opt.maxDepth < opt.maxDepth + 1 /\ opt.maxDepth <= opt.maxDepth
        BY <1>1
      <3>2. QED
        BY <1>1, <1>3, <2>2, <3>1, NearIsVisited
    <2>4. Ball[opt.maxDepth] \subseteq Scraped
      BY <1>1, <2>3, BallIsAllowed DEF VisitedIsScraped
    <2>5. ASSUME NEW p \in DOMAIN pages PROVE KeyOf(pages[p]) \in Ball[opt.maxDepth]
      <3>1. Exact(pages[p]) /\ pages[p].depth \in Nat
        <4>1. pages[p] \in EntryType
          BY <1>1, LenProperties, ElementOfSeq DEF PagesInOrder
        <4>2. QED
          BY <1>1, <4>1 DEF PagesInOrder, EntryType
      <3>2. Ball[pages[p].depth] \subseteq Ball[opt.maxDepth]
        BY <1>1, <3>1, BallContains DEF Exact
      <3>3. QED
        BY <3>1, <3>2 DEF Exact
    <2>6. QED
      BY <2>4, <2>5 DEF Reached, Scraped
  <1>4. Reached' = Reached
    BY <1>1, <1>2 DEF Reached, Scraped, KeyOf, normalize_visit_key
  <1>5. QED
    BY <1>1, <1>2, <1>3, <1>4 DEF CrawlInv

(* The head of the queue is taken up: what stays queued is no nearer.      *)
LEMMA TakesFromQueue ==
  ASSUME CrawlInv, DiscoveryAssumption, CrawlTakes
  PROVE  CrawlInv'
  <1> DEFINE next == Head(todo)
             key == normalize_visit_key(next.url)
             Takes == key \notin visited /\ is_allowed(next.url)
  <1>1. /\ callVars' = callVars /\ pages' = pages /\ pc = "crawl" /\ Crawling /\ outcome' = "none"
        /\ Met /\ ~Busy /\ opt.maxDepth \in Nat /\ opt.maxPages \in Nat /\ opt.mode = "crawl"
        /\ PagesInOrder /\ QueueInOrder /\ VisitedIsScraped /\ LinksAreQueued
        /\ todo # << >> /\ Len(pages) < opt.maxPages /\ pages \in Seq(EntryType) /\ todo \in Seq(EntryType)
        /\ visited' = visited \cup {key} /\ todo' = Tail(todo)
    <2>1. /\ callVars' = callVars /\ pages' = pages /\ pc = "crawl" /\ Crawling /\ outcome' = "none"
          /\ Met /\ ~Busy /\ opt.maxDepth \in Nat /\ opt.maxPages \in Nat /\ opt.mode = "crawl"
          /\ PagesInOrder /\ QueueInOrder /\ VisitedIsScraped /\ LinksAreQueued
          /\ visited' = visited \cup {key} /\ todo' = Tail(todo) /\ ~CrawlOver
      BY DEF CrawlInv, CrawlTakes, Phases, Busy, callVars, Met, OptionType, Crawling
    <2>2. pages \in Seq(EntryType) /\ todo \in Seq(EntryType)
      BY <2>1 DEF PagesInOrder, QueueInOrder
    <2>3. QED
      BY <2>1, <2>2, LenProperties DEF CrawlOver
  <1>2. /\ Len(todo) \in Nat \ {0} /\ DOMAIN todo = 1..Len(todo) /\ next = todo[1] /\ next \in EntryType
        /\ todo' \in Seq(EntryType) /\ DOMAIN todo' = 1..(Len(todo) - 1)
        /\ \A i \in DOMAIN todo' : todo'[i] = todo[i + 1] /\ i + 1 \in DOMAIN todo /\ 1 \in DOMAIN todo /\ 1 < i + 1
        /\ \A i \in DOMAIN todo : i # 1 => i - 1 \in DOMAIN todo' /\ todo'[i - 1] = todo[i]
        /\ \A i \in DOMAIN todo : todo[i].depth \in Nat
    <2>1. Len(todo) \in Nat \ {0} /\ DOMAIN todo = 1..Len(todo)
      BY <1>1, LenProperties, EmptySeq
    <2>2. next = todo[1] /\ todo' \in Seq(EntryType) /\ Len(todo') = Len(todo) - 1
          /\ \A i \in 1..(Len(todo) - 1) : todo'[i] = todo[i + 1]
      BY <1>1, <2>1, HeadTailProperties
    <2>3. \A i \in DOMAIN todo : todo[i] \in EntryType
      BY <1>1, <2>1, ElementOfSeq
    <2>4. DOMAIN todo' = 1..(Len(todo) - 1)
      BY <2>2, LenProperties
    <2>5. next \in EntryType
      BY <2>1, <2>2, <2>3
    <2>6. \A i \in DOMAIN todo' : todo'[i] = todo[i + 1] /\ i + 1 \in DOMAIN todo /\ 1 \in DOMAIN todo /\ 1 < i + 1
      BY <2>1, <2>2, <2>4
    <2>7. \A i \in DOMAIN todo : i # 1 => i - 1 \in DOMAIN todo' /\ todo'[i - 1] = todo[i]
      BY <2>1, <2>2, <2>4
    <2>8. QED
      BY <2>1, <2>2, <2>3, <2>4, <2>5, <2>6, <2>7 DEF EntryType
  <1>3. key \in UrlType /\ is_allowed(key) = is_allowed(next.url) /\ key = KeyOf(next)
    BY <1>2, KeyIsSame DEF EntryType, KeyOf
  <1>4. Phases' /\ Crawling' /\ (Busy' <=> Takes) /\ (Takes => at' = next)
    <2>1. next.depth <= opt.maxDepth
      BY <1>1, <1>2, SMTT(60) DEF QueueInOrder
    <2>2. CASE Takes
      <3>1. ~(next.depth > opt.maxDepth)
        <4>1. next.depth \in Nat /\ opt.maxDepth \in Nat
          BY <1>1, <1>2 DEF EntryType
        <4>2. QED
          BY <2>1, <4>1
      <3>2. at' = next /\ pc' = "request"
        BY <2>2, <3>1 DEF CrawlTakes
      <3>3. QED
        BY <1>1, <2>2, <3>2 DEF CrawlInv, Phases, Crawling, Busy, callVars
    <2>3. CASE ~Takes
      <3>1. pc' = "crawl"
        BY <1>1, <2>3 DEF CrawlTakes
      <3>2. QED
        BY <1>1, <2>3, <3>1 DEF CrawlInv, Phases, Crawling, Busy, callVars
    <2>4. QED
      BY <2>2, <2>3
  <1> HIDE DEF Takes, key, next
  <1>5. PagesInOrder' /\ opt' = opt /\ Met' /\ Ball' = Ball /\ Scraped' = Scraped
    BY <1>1, Carried, CarriedQueue DEF PagesInOrder, Scraped
  <1>6. /\ next.depth <= opt.maxDepth /\ (is_allowed(next.url) => key \in Ball[next.depth])
        /\ \A p \in DOMAIN pages : pages[p].depth <= next.depth
        /\ \A i \in DOMAIN todo : next.depth <= todo[i].depth
    BY <1>1, <1>2, <1>3, SMTT(40) DEF QueueInOrder, Takes
  <1>7. ASSUME Takes PROVE Exact(next)
    <2>1. next.depth \in Nat
      BY <1>2 DEF EntryType
    <2>2. ASSUME next.depth > 0 PROVE key \notin Ball[next.depth - 1]
      <3>1. next.depth - 1 \in Nat /\ next.depth - 1 < next.depth /\ next.depth - 1 <= opt.maxDepth
        BY <1>1, <1>6, <2>1, <2>2, SMTT(40)
      <3>2. Ball[next.depth - 1] \subseteq visited
        BY <1>1, <1>6, <2>1, <3>1, NearIsVisited
      <3>3. QED
        BY <1>7, <3>2 DEF Takes
    <2>3. QED
      BY <1>3, <1>6, <1>7, <2>2 DEF Exact, Takes
  <1>8. QueueInOrder'
    <2>1. ASSUME NEW i \in DOMAIN todo'
          PROVE  /\ todo'[i].depth <= opt.maxDepth
                 /\ is_allowed(todo'[i].url) => KeyOf(todo'[i]) \in Ball[todo'[i].depth]
                 /\ \A p \in DOMAIN pages' : pages'[p].depth <= todo'[i].depth
                 /\ Busy' => at'.depth <= todo'[i].depth /\ todo'[i].depth <= at'.depth + 1
      <3>1. todo'[i] = todo[i + 1] /\ i + 1 \in DOMAIN todo /\ 1 \in DOMAIN todo /\ 1 < i + 1
        BY <1>2, <2>1
      <3>2. next.depth <= todo[i + 1].depth /\ todo[i + 1].depth <= next.depth + 1
        BY <1>1, <1>2, <3>1 DEF QueueInOrder
      <3>3. QED
        BY <1>1, <1>4, <3>1, <3>2 DEF QueueInOrder
    <2>2. ASSUME NEW i \in DOMAIN todo', NEW j \in DOMAIN todo', i < j
          PROVE  todo'[i].depth <= todo'[j].depth /\ todo'[j].depth <= todo'[i].depth + 1
      <3>1. /\ todo'[i] = todo[i + 1] /\ i + 1 \in DOMAIN todo
            /\ todo'[j] = todo[j + 1] /\ j + 1 \in DOMAIN todo /\ i + 1 < j + 1
        BY <1>2, <2>2
      <3>2. QED
        BY <1>1, <3>1 DEF QueueInOrder
    <2>3. QED
      BY <1>1, <1>2, <2>1, <2>2, CarriedQueue
  <1>9. VisitedIsScraped'
    <2>1. Scraped \subseteq visited /\ \A k \in visited : is_allowed(k) => k \in Scraped
      BY <1>1 DEF VisitedIsScraped
    <2>2. ASSUME Busy'
          PROVE  /\ at' \in EntryType /\ Exact(at')
                 /\ KeyOf(at') \in visited' \ Scraped'
                 /\ \A p \in DOMAIN pages' : pages'[p].depth <= at'.depth
                 /\ Len(pages') < opt.maxPages
      <3>1. Takes /\ at' = next
        BY <1>4, <2>2
      <3>2. QED
        BY <1>1, <1>2, <1>3, <1>5, <1>6, <1>7, <2>1, <3>1 DEF Takes
    <2>3. ASSUME NEW k \in visited', is_allowed(k) PROVE k \in Scraped' \/ (Busy' /\ k = KeyOf(at'))
      <3>1. CASE k \in visited
        BY <1>5, <2>1, <2>3, <3>1
      <3>2. CASE k \notin visited
        BY <1>1, <1>3, <1>4, <2>3, <3>2 DEF Takes
      <3>3. QED
        BY <3>1, <3>2
    <2>4. QED
      BY <1>1, <1>5, <2>1, <2>2, <2>3, CarriedQueue
  <1>10. ASSUME NEW n, NEW k \in visited \cup Waiting(n)
         PROVE  k \in visited' \/ \E j \in DOMAIN todo' : todo'[j].depth <= n /\ KeyOf(todo'[j]) = k
    <2>1. CASE k \in visited
      BY <1>1, <2>1
    <2>2. CASE k \in Waiting(n)
      <3>1. PICK i \in DOMAIN todo : todo[i].depth <= n /\ k = KeyOf(todo[i])
        BY <2>2 DEF Waiting
      <3>2. CASE i = 1
        BY <1>1, <1>2, <1>3, <3>1, <3>2
      <3>3. CASE i # 1
        BY <1>2, <3>1, <3>3
      <3>4. QED
        BY <3>2, <3>3
    <2>3. QED
      BY <1>10, <2>1, <2>2
  <1>11. LinksAreQueued'
    <2>1. ASSUME NEW k \in Ball[0] PROVE k \in visited' \cup Waiting(0)'
      <3>1. k \in visited \cup Waiting(0)
        BY <1>1, <2>1 DEF LinksAreQueued
      <3>2. k \in visited' \/ \E j \in DOMAIN todo' : todo'[j].depth <= 0 /\ KeyOf(todo'[j]) = k
        BY <1>10, <3>1
      <3>3. Waiting(0)' = {KeyOf(todo'[j]) : j \in {l \in DOMAIN todo' : todo'[l].depth <= 0}}
        BY DEF Waiting, KeyOf, normalize_visit_key
      <3>4. QED
        BY <3>2, <3>3
    <2>2. ASSUME NEW p \in DOMAIN pages', pages'[p].depth < opt.maxDepth, NEW k \in Onward(KeyOf(pages'[p]))
          PROVE  k \in visited' \/ \E j \in DOMAIN todo' : /\ todo'[j].depth <= pages'[p].depth + 1
                                                           /\ KeyOf(todo'[j]) = k
      <3>1. k \in visited \cup Waiting(pages[p].depth + 1)
        BY <1>1, <2>2 DEF LinksAreQueued
      <3>2. QED
        BY <1>1, <1>10, <3>1
    <2>3. QED
      BY <1>1, <2>1, <2>2, CarriedQueue
  <1>12. QED
    BY <1>1, <1>4, <1>5, <1>8, <1>9, <1>11 DEF CrawlInv

LEMMA QueueGrows ==
  ASSUME todo \in Seq(EntryType), NEW links \in Seq(UrlType), NEW d \in Nat
  PROVE  /\ Queue(links, d) \in Seq(EntryType)
         /\ DOMAIN Queue(links, d) = 1..(Len(todo) + Len(links))
         /\ \A i \in DOMAIN todo : i \in DOMAIN Queue(links, d) /\ Queue(links, d)[i] = todo[i]
         /\ \A i \in DOMAIN links :
              /\ Len(todo) + i \in DOMAIN Queue(links, d)
              /\ Queue(links, d)[Len(todo) + i] = [url |-> links[i], depth |-> d]
         /\ \A i \in DOMAIN Queue(links, d) \ DOMAIN todo : i - Len(todo) \in DOMAIN links
  <1> DEFINE more == [i \in DOMAIN links |-> [url |-> links[i], depth |-> d]]
  <1>1. /\ DOMAIN todo = 1..Len(todo) /\ Len(todo) \in Nat
        /\ DOMAIN links = 1..Len(links) /\ Len(links) \in Nat
        /\ \A i \in DOMAIN links : links[i] \in UrlType
    BY LenProperties, ElementOfSeq
  <1>2. more \in Seq(EntryType) /\ Len(more) = Len(links)
    <2>1. \A i \in DOMAIN links : [url |-> links[i], depth |-> d] \in EntryType
      BY <1>1 DEF EntryType
    <2>2. more \in [1..Len(links) -> EntryType]
      BY <1>1, <2>1
    <2> HIDE DEF more
    <2>3. more \in Seq(EntryType)
      BY <1>1, <2>2, SeqDef
    <2>4. QED
      BY <1>1, <2>2, <2>3, LenProperties
  <1>3. Queue(links, d) = todo \o more
    BY DEF Queue
  <1>4. \A i \in DOMAIN links : more[i] = [url |-> links[i], depth |-> d]
    OBVIOUS
  <1> HIDE DEF more
  <1>5. /\ todo \o more \in Seq(EntryType) /\ Len(todo \o more) = Len(todo) + Len(links)
        /\ \A i \in 1..(Len(todo) + Len(links)) :
             (todo \o more)[i] = IF i <= Len(todo) THEN todo[i] ELSE more[i - Len(todo)]
    <2>1. /\ todo \o more \in Seq(EntryType) /\ Len(todo \o more) = Len(todo) + Len(more)
          /\ \A i \in 1..(Len(todo) + Len(more)) :
               (todo \o more)[i] = IF i <= Len(todo) THEN todo[i] ELSE more[i - Len(todo)]
      BY <1>2, ConcatProperties
    <2>2. QED
      BY <1>2, <2>1
  <1>6. DOMAIN (todo \o more) = 1..(Len(todo) + Len(links))
    BY <1>5, LenProperties
  <1>7. \A i \in DOMAIN todo : i \in DOMAIN Queue(links, d) /\ Queue(links, d)[i] = todo[i]
    BY <1>1, <1>3, <1>5, <1>6
  <1>8. ASSUME NEW i \in DOMAIN links
        PROVE  /\ Len(todo) + i \in DOMAIN Queue(links, d)
               /\ Queue(links, d)[Len(todo) + i] = [url |-> links[i], depth |-> d]
    <2>1. i \in Nat /\ ~(Len(todo) + i <= Len(todo)) /\ (Len(todo) + i) - Len(todo) = i
          /\ Len(todo) + i \in 1..(Len(todo) + Len(links))
      BY <1>1, <1>8
    <2>2. (todo \o more)[Len(todo) + i] = more[i]
      BY <1>5, <2>1
    <2>3. QED
      BY <1>3, <1>4, <1>6, <1>8, <2>1, <2>2
  <1>9. \A i \in DOMAIN Queue(links, d) \ DOMAIN todo : i - Len(todo) \in DOMAIN links
    BY <1>1, <1>3, <1>6
  <1>10. QED
    BY <1>3, <1>5, <1>6, <1>7, <1>8, <1>9

(* A page is added, and behind the queue what it links to and was not met. *)
LEMMA HarvestsPage ==
  ASSUME CrawlInv, DiscoveryAssumption, CrawlHarvests
  PROVE  CrawlInv'
  <1> DEFINE page == [url |-> at.url, depth |-> at.depth]
             Deep == at.depth >= opt.maxDepth \/ Len(pages') >= opt.maxPages
             d == at.depth + 1
  <1>1. /\ callVars' = callVars /\ at' = at /\ visited' = visited /\ Crawling /\ outcome' = "none"
        /\ Met /\ Busy /\ ~Busy' /\ Crawling' /\ Phases'
        /\ opt.maxDepth \in Nat /\ opt.maxPages \in Nat /\ opt.mode = "crawl"
        /\ PagesInOrder /\ QueueInOrder /\ VisitedIsScraped /\ LinksAreQueued
    BY DEF CrawlInv, CrawlHarvests, Phases, Busy, callVars, Met, OptionType, Crawling
  <1>2. at \in EntryType /\ at.url \in UrlType /\ at.depth \in Nat /\ page = at
    <2>1. at \in EntryType
      BY <1>1 DEF VisitedIsScraped
    <2>2. QED
      BY <2>1 DEF EntryType
  <1>3. pages \in Seq(EntryType) /\ todo \in Seq(EntryType)
    BY <1>1 DEF PagesInOrder, QueueInOrder
  <1>4. /\ Len(pages) \in Nat /\ DOMAIN pages = 1..Len(pages) /\ Len(pages) < opt.maxPages
        /\ pages' \in Seq(EntryType) /\ Len(pages') = Len(pages) + 1 /\ DOMAIN pages' = 1..(Len(pages) + 1)
        /\ \A i \in DOMAIN pages : pages'[i] = pages[i]
        /\ pages'[Len(pages) + 1] = at
        /\ \A i \in DOMAIN pages : pages[i].depth \in Nat
    <2>1. Len(pages) \in Nat /\ DOMAIN pages = 1..Len(pages) /\ pages' = Append(pages, at)
      BY <1>2, <1>3, LenProperties DEF CrawlHarvests
    <2>2. \A i \in DOMAIN pages : pages[i] \in EntryType
      BY <1>3, <2>1, ElementOfSeq
    <2>3. /\ pages' \in Seq(EntryType) /\ Len(pages') = Len(pages) + 1
          /\ \A i \in 1..Len(pages) : pages'[i] = pages[i]
          /\ pages'[Len(pages) + 1] = at
      BY <1>2, <1>3, <2>1, AppendProperties
    <2>4. DOMAIN pages' = 1..(Len(pages) + 1)
      BY <2>3, LenProperties
    <2>5. QED
      BY <1>1, <2>1, <2>2, <2>3, <2>4 DEF VisitedIsScraped, EntryType
  <1>5. PICK links : /\ links = IF Deep THEN << >> ELSE Discovered(at.url)
                     /\ todo' = Queue(Keep(links, LAMBDA u : is_allowed(u) /\ normalize_visit_key(u) \notin visited), d)
    BY DEF CrawlHarvests
  <1> DEFINE I == {i \in DOMAIN links : is_allowed(links[i]) /\ normalize_visit_key(links[i]) \notin visited}
             new == AtPositions(links, I)
  <1>6. todo' = Queue(new, d)
    BY <1>5 DEF Keep
  <1>7. links \in Seq(UrlType) /\ (~Deep => links = Discovered(at.url))
    <2>1. << >> \in Seq(UrlType) /\ Discovered(at.url) \in Seq(UrlType)
      BY <1>1, <1>2, DiscoveredAreUrls
    <2>2. QED
      BY <1>5, <2>1
  <1>8. /\ new \in Seq(Held(links, I))
        /\ \A i \in I : \E k \in 1..Len(new) : new[k] = links[i]
    <2>1. I \subseteq DOMAIN links
      OBVIOUS
    <2> HIDE DEF I
    <2>2. QED
      BY <1>7, <2>1, PositionsKept
  <1> HIDE DEF new
  <1>9. /\ DOMAIN new = 1..Len(new) /\ Len(new) \in Nat
        /\ \A i \in DOMAIN new : \E l \in I : new[i] = links[l]
    <2>1. DOMAIN new = 1..Len(new) /\ Len(new) \in Nat
      BY <1>8, LenProperties
    <2>2. \A i \in 1..Len(new) : new[i] \in Held(links, I)
      BY <1>8, ElementOfSeq
    <2>3. QED
      BY <2>1, <2>2 DEF Held
  <1>10. \A l \in DOMAIN links : links[l] \in UrlType
    BY <1>7, LenProperties, ElementOfSeq
  <1>11. ASSUME NEW i \in DOMAIN new
         PROVE  new[i] \in UrlType /\ is_allowed(new[i])
    BY <1>9, <1>10, <1>11
  <1>12. new \in Seq(UrlType)
    <2>1. Held(links, I) \subseteq UrlType
      BY <1>10 DEF Held
    <2>2. QED
      BY <1>8, <2>1, SeqMonotonic
  <1>13. Onward(KeyOf(at)) = {normalize_visit_key(u) : u \in {v \in ToSet(Discovered(at.url)) : is_allowed(v)}}
    BY <1>2, SameDiscovery DEF Onward, KeyOf
  <1>14. ASSUME NEW i \in DOMAIN new, ~Deep
         PROVE  normalize_visit_key(new[i]) \in Onward(KeyOf(at))
    <2>1. PICK l \in I : new[i] = links[l]
      BY <1>9, <1>14
    <2>2. new[i] \in ToSet(Discovered(at.url))
      BY <1>7, <1>14, <2>1 DEF ToSet
    <2>3. QED
      BY <1>11, <1>13, <1>14, <2>2
  <1>15. DOMAIN new # {} => ~Deep
    <2>1. CASE Deep
      <3>1. links = << >>
        BY <1>5, <2>1
      <3>2. DOMAIN links = {}
        BY <3>1
      <3>3. QED
        BY <1>9, <3>2
    <2>2. QED
      BY <2>1
  <1> HIDE DEF I, Deep
  <1>16. PagesInOrder' /\ opt' = opt /\ Met' /\ Ball' = Ball
    <2>1. \A i \in DOMAIN pages' : Exact(pages'[i])
      BY <1>1, <1>4 DEF PagesInOrder, VisitedIsScraped
    <2>2. ASSUME NEW i \in DOMAIN pages', NEW j \in DOMAIN pages', i < j
          PROVE  KeyOf(pages'[i]) # KeyOf(pages'[j]) /\ pages'[i].depth <= pages'[j].depth
      <3>1. i \in DOMAIN pages /\ pages'[i] = pages[i]
        BY <1>4, <2>2
      <3>2. CASE j = Len(pages) + 1
        <4>1. KeyOf(pages[i]) \in Scraped
          BY <3>1 DEF Scraped
        <4>2. QED
          BY <1>1, <1>4, <3>1, <3>2, <4>1 DEF VisitedIsScraped
      <3>3. CASE j # Len(pages) + 1
        <4>1. j \in DOMAIN pages /\ pages'[j] = pages[j]
          BY <1>4, <3>3
        <4>2. QED
          BY <1>1, <2>2, <3>1, <4>1 DEF PagesInOrder
      <3>4. QED
        BY <3>2, <3>3
    <2>3. Len(pages') <= opt.maxPages
      BY <1>1, <1>4
    <2>4. QED
      BY <1>1, <1>4, <2>1, <2>2, <2>3, Carried
  <1>17. /\ todo' \in Seq(EntryType) /\ DOMAIN todo' = 1..(Len(todo) + Len(new))
         /\ \A i \in DOMAIN todo : i \in DOMAIN todo' /\ todo'[i] = todo[i]
         /\ \A i \in DOMAIN new : Len(todo) + i \in DOMAIN todo' /\ todo'[Len(todo) + i] = [url |-> new[i], depth |-> d]
         /\ \A i \in DOMAIN todo' \ DOMAIN todo : i - Len(todo) \in DOMAIN new
         /\ Len(todo) \in Nat /\ DOMAIN todo = 1..Len(todo)
    <2>1. d \in Nat
      BY <1>2
    <2> HIDE DEF d
    <2>2. /\ Queue(new, d) \in Seq(EntryType) /\ DOMAIN Queue(new, d) = 1..(Len(todo) + Len(new))
          /\ \A i \in DOMAIN todo : i \in DOMAIN Queue(new, d) /\ Queue(new, d)[i] = todo[i]
          /\ \A i \in DOMAIN new : /\ Len(todo) + i \in DOMAIN Queue(new, d)
                                   /\ Queue(new, d)[Len(todo) + i] = [url |-> new[i], depth |-> d]
          /\ \A i \in DOMAIN Queue(new, d) \ DOMAIN todo : i - Len(todo) \in DOMAIN new
      BY <1>3, <1>12, <2>1, QueueGrows
    <2>3. Len(todo) \in Nat /\ DOMAIN todo = 1..Len(todo)
      BY <1>3, LenProperties
    <2> HIDE DEF Queue
    <2>4. QED
      BY <1>6, <2>2, <2>3
  <1>18. ASSUME NEW i \in DOMAIN todo' \ DOMAIN todo
         PROVE  /\ i - Len(todo) \in DOMAIN new /\ ~Deep
                /\ todo'[i].url = new[i - Len(todo)] /\ todo'[i].depth = at.depth + 1
    <2>1. i - Len(todo) \in DOMAIN new /\ Len(todo) + (i - Len(todo)) = i
      BY <1>17, <1>18
    <2>2. todo'[i] = [url |-> new[i - Len(todo)], depth |-> d]
      BY <1>17, <2>1
    <2>3. QED
      BY <1>15, <2>1, <2>2
  <1>19. QueueInOrder'
    <2>1. ASSUME NEW i \in DOMAIN todo'
          PROVE  /\ todo'[i].depth \in Nat
                 /\ at.depth <= todo'[i].depth /\ todo'[i].depth <= at.depth + 1
                 /\ todo'[i].depth <= opt.maxDepth
                 /\ is_allowed(todo'[i].url) => KeyOf(todo'[i]) \in Ball[todo'[i].depth]
                 /\ \A p \in DOMAIN pages' : pages'[p].depth <= todo'[i].depth
      <3>1. CASE i \in DOMAIN todo
        <4>1. todo'[i] = todo[i] /\ todo[i] \in EntryType
          BY <1>3, <1>17, <3>1, ElementOfSeq
        <4>2. todo'[i].depth \in Nat /\ at.depth <= todo'[i].depth /\ todo'[i].depth <= at.depth + 1
          BY <1>1, <3>1, <4>1 DEF QueueInOrder, EntryType
        <4>3. \A p \in DOMAIN pages' : pages'[p].depth <= todo'[i].depth
          BY <1>1, <1>4, <3>1, <4>1, <4>2, SMTT(40) DEF QueueInOrder
        <4>4. QED
          BY <1>1, <3>1, <4>1, <4>2, <4>3 DEF QueueInOrder
      <3>2. CASE i \notin DOMAIN todo
        <4>1. /\ i - Len(todo) \in DOMAIN new /\ ~Deep
              /\ todo'[i].url = new[i - Len(todo)] /\ todo'[i].depth = at.depth + 1
          BY <1>18, <2>1, <3>2
        <4>2. at.depth < opt.maxDepth
          BY <1>1, <1>2, <4>1 DEF Deep
        <4>3. normalize_visit_key(new[i - Len(todo)]) \in Onward(KeyOf(at))
          BY <1>14, <4>1
        <4>4. KeyOf(at) \in Ball[at.depth] /\ Ball[at.depth + 1] = Ball[at.depth] \cup UNION {Onward(k) : k \in Ball[at.depth]}
          BY <1>1, <1>2, BallGrows DEF VisitedIsScraped, Exact
        <4>5. KeyOf(todo'[i]) \in Ball[todo'[i].depth]
          BY <4>1, <4>3, <4>4 DEF KeyOf
        <4>6. \A p \in DOMAIN pages' : pages'[p].depth <= at.depth
          BY <1>1, <1>2, <1>4, SMTT(40) DEF VisitedIsScraped
        <4>7. \A p \in DOMAIN pages' : pages'[p].depth \in Nat
          BY <1>2, <1>4
        <4>8. \A p \in DOMAIN pages' : pages'[p].depth <= todo'[i].depth
          BY <1>2, <4>1, <4>6, <4>7
        <4>9. QED
          BY <1>1, <1>2, <4>1, <4>2, <4>5, <4>8
      <3>3. QED
        BY <3>1, <3>2
    <2>2. ASSUME NEW i \in DOMAIN todo', NEW j \in DOMAIN todo', i < j
          PROVE  todo'[i].depth <= todo'[j].depth /\ todo'[j].depth <= todo'[i].depth + 1
      <3>1. /\ todo'[i].depth \in Nat /\ at.depth <= todo'[i].depth /\ todo'[i].depth <= at.depth + 1
            /\ todo'[j].depth \in Nat /\ at.depth <= todo'[j].depth /\ todo'[j].depth <= at.depth + 1
        BY <2>1, <2>2
      <3>2. CASE j \in DOMAIN todo
        <4>1. i \in DOMAIN todo
          BY <1>17, <2>2, <3>2
        <4>2. QED
          BY <1>1, <1>17, <2>2, <3>2, <4>1 DEF QueueInOrder
      <3>3. CASE j \notin DOMAIN todo
        <4>1. todo'[j].depth = at.depth + 1
          BY <1>18, <2>2, <3>3
        <4>2. QED
          BY <1>2, <3>1, <4>1
      <3>4. QED
        BY <3>2, <3>3
    <2>3. QED
      BY <1>1, <1>17, <2>1, <2>2, CarriedQueue
  <1>20. Scraped' = Scraped \cup {KeyOf(at)}
    <2>1. Scraped' = {KeyOf(pages'[i]) : i \in DOMAIN pages'}
      BY <1>1, CarriedQueue
    <2>2. DOMAIN pages' = DOMAIN pages \cup {Len(pages) + 1}
      BY <1>4
    <2>3. QED
      BY <1>4, <2>1, <2>2, SMTT(40) DEF Scraped
  <1>21. VisitedIsScraped'
    <2>1. KeyOf(at) \in visited /\ Scraped \subseteq visited
          /\ \A k \in visited : is_allowed(k) => k \in Scraped \/ k = KeyOf(at)
      BY <1>1 DEF VisitedIsScraped
    <2>2. QED
      BY <1>1, <1>20, <2>1, CarriedQueue
  <1>22. LinksAreQueued'
    <2>1. SUFFICES ASSUME Len(pages') < opt.maxPages
                   PROVE  /\ Ball[0] \subseteq visited' \cup Waiting(0)'
                          /\ \A p \in DOMAIN pages' :
                               pages'[p].depth < opt.maxDepth =>
                                 \A k \in Onward(KeyOf(pages'[p])) :
                                   k \in visited' \/ \E j \in DOMAIN todo' : /\ todo'[j].depth <= pages'[p].depth + 1
                                                                             /\ KeyOf(todo'[j]) = k
      BY <1>1, CarriedQueue
    <2>2. Ball[0] \subseteq visited' \cup Waiting(0)'
      <3>1. Ball[0] \subseteq visited \cup Waiting(0)
        BY <1>1, <1>4 DEF LinksAreQueued
      <3>2. Waiting(0)' = {KeyOf(todo'[j]) : j \in {l \in DOMAIN todo' : todo'[l].depth <= 0}}
        BY DEF Waiting, KeyOf, normalize_visit_key
      <3>3. Waiting(0) \subseteq Waiting(0)'
        BY <1>17, <3>2 DEF Waiting
      <3>4. QED
        BY <1>1, <3>1, <3>3
    <2>3. ASSUME NEW p \in DOMAIN pages', pages'[p].depth < opt.maxDepth, NEW k \in Onward(KeyOf(pages'[p]))
          PROVE  k \in visited' \/ \E j \in DOMAIN todo' : /\ todo'[j].depth <= pages'[p].depth + 1
                                                           /\ KeyOf(todo'[j]) = k
      <3>1. CASE p \in DOMAIN pages
        <4>1. pages'[p] = pages[p] /\ Len(pages) < opt.maxPages
          BY <1>4, <3>1
        <4>2. k \in visited \cup Waiting(pages[p].depth + 1)
          BY <1>1, <2>3, <3>1, <4>1 DEF LinksAreQueued
        <4>3. k \in visited \/ \E j \in DOMAIN todo : todo[j].depth <= pages[p].depth + 1 /\ KeyOf(todo[j]) = k
          BY <4>2 DEF Waiting
        <4>4. QED
          BY <1>1, <1>17, <4>1, <4>3
      <3>2. CASE p \notin DOMAIN pages
        <4>1. pages'[p] = at
          BY <1>4, <2>3, <3>2
        <4>2. ~Deep
          BY <1>1, <1>2, <1>4, <2>1, <2>3, <4>1, SMTT(40) DEF Deep
        <4>3. PICK l \in DOMAIN links : is_allowed(links[l]) /\ k = normalize_visit_key(links[l])
          BY <1>7, <1>13, <2>3, <4>1, <4>2 DEF ToSet
        <4>4. CASE k \in visited
          BY <1>1, <4>4
        <4>5. CASE k \notin visited
          <5>1. l \in I
            BY <4>3, <4>5 DEF I
          <5>2. PICK m \in DOMAIN new : new[m] = links[l]
            BY <1>8, <1>9, <5>1
          <5>3. /\ Len(todo) + m \in DOMAIN todo'
                /\ todo'[Len(todo) + m].url = new[m] /\ todo'[Len(todo) + m].depth = at.depth + 1
            <6>1. /\ Len(todo) + m \in DOMAIN todo'
                  /\ todo'[Len(todo) + m] = [url |-> new[m], depth |-> d]
              BY <1>17, <5>2
            <6>2. QED
              BY <6>1
          <5>4. KeyOf(todo'[Len(todo) + m]) = k
            BY <4>3, <5>2, <5>3 DEF KeyOf
          <5>5. todo'[Len(todo) + m].depth <= pages'[p].depth + 1
            BY <1>2, <4>1, <5>3
          <5>6. QED
            BY <5>3, <5>4, <5>5
        <4>6. QED
          BY <4>4, <4>5
      <3>3. QED
        BY <3>1, <3>2
    <2>4. QED
      BY <2>2, <2>3
  <1>23. QED
    BY <1>1, <1>16, <1>19, <1>21, <1>22 DEF CrawlInv

LEMMA CrawlStep ==
  ASSUME CrawlInv, DiscoveryAssumption, [Next]_vars
  PROVE  CrawlInv'
  <1>0. Phases /\ Met /\ (opt.mode # "crawl" => pages = << >>)
    BY DEF CrawlInv, Phases
  <1>1. CASE Refuse
    BY <1>0, <1>1, Emptied DEF Refuse, End, Phases, Crawling, callVars
  <1>2. CASE BeginCrawl
    BY <1>2, BeginsCrawl
  <1>3. CASE BeginScrape
    BY <1>0, <1>3, Emptied DEF BeginScrape, Phases, Crawling, callVars
  <1>4. CASE ScrapeFails
    BY <1>0, <1>4, Emptied DEF ScrapeFails, RequestFails, End, Phases, Crawling, callVars
  <1>5. CASE ScrapeArrives
    <2>1. /\ callVars' = callVars /\ UNCHANGED <<at, todo, visited, pages, outcome>>
          /\ pc = "request" /\ pc' \in {"walk", "scraped"}
      BY <1>5 DEF ScrapeArrives
    <2>2. Phases' /\ (Crawling' => Crawling /\ (Busy' <=> Busy))
      BY <1>0, <2>1 DEF Phases, Crawling, Busy, callVars
    <2>3. QED
      BY <2>1, <2>2, Stays
  <1>6. ASSUME WalkEnds \/ WalkRevisits \/ WalkReads PROVE CrawlInv'
    <2>1. /\ callVars' = callVars /\ UNCHANGED <<at, todo, visited, pages, outcome>>
          /\ pc \in {"walk", "map walk"}
          /\ pc' = pc \/ pc' = IF pc = "walk" THEN "scraped" ELSE "mapped"
      BY <1>6 DEF WalkEnds, WalkRevisits, WalkReads, Walking, AfterWalk
    <2>2. Phases' /\ (Crawling' => Crawling /\ (Busy' <=> Busy))
      BY <1>0, <2>1 DEF Phases, Crawling, Busy, callVars
    <2>3. QED
      BY <2>1, <2>2, Stays
  <1>7. CASE WalkTimesOut
    <2>1. CASE pc = "walk"
      BY <1>0, <1>7, <2>1, Emptied DEF WalkTimesOut, End, Phases, Crawling, callVars
    <2>2. CASE pc # "walk"
      <3>1. /\ callVars' = callVars /\ pages' = pages /\ outcome' = outcome /\ pc = "map walk" /\ pc' = "mapped"
            /\ todo' = todo /\ visited' = visited
        BY <1>7, <2>2 DEF WalkTimesOut, Walking
      <3>2. Phases' /\ ~Crawling' /\ pages' = << >> /\ (outcome' = "ok" => opt.mode # "crawl")
        BY <1>0, <3>1 DEF Phases, Crawling, callVars
      <3>3. QED
        BY <3>1, <3>2, Emptied
    <2>3. QED
      BY <2>1, <2>2
  <1>8. CASE CrawlEnds
    BY <1>8, EndsCrawl
  <1>9. CASE CrawlTakes
    BY <1>9, TakesFromQueue
  <1>10. CASE CrawlHarvests
    BY <1>10, HarvestsPage
  <1>11. ASSUME StartFollowing \/ ChainEnds \/ ChainGrows \/ ChainFails \/ MapHarvests \/ MapEnds
         PROVE  CrawlInv'
    <2>1. /\ callVars' = callVars /\ (pages' = pages \/ pages' = << >>) /\ opt.mode # "crawl"
          /\ pc \notin {"begin", "done"}
          /\ \/ pc' = "follow" /\ opt.mode = "scrape" /\ outcome' = outcome
             \/ pc' = "map walk" /\ opt.mode = "map" /\ outcome' = outcome
             \/ pc' = "done"
      <3>1. CASE StartFollowing
        BY <1>0, <3>1 DEF StartFollowing, Phases, End
      <3>2. CASE ChainEnds
        BY <1>0, <3>2 DEF ChainEnds, Phases, End
      <3>3. CASE ChainGrows
        BY <1>0, <3>3 DEF ChainGrows, Phases
      <3>4. CASE ChainFails
        BY <1>0, <3>4 DEF ChainFails, RequestFails, Phases, End
      <3>5. CASE MapHarvests
        BY <1>0, <3>5 DEF MapHarvests, Phases, End
      <3>6. CASE MapEnds
        BY <1>0, <3>6 DEF MapEnds, Phases, End
      <3>7. QED
        BY <1>11, <3>1, <3>2, <3>3, <3>4, <3>5, <3>6
    <2>2. Phases' /\ ~Crawling' /\ pages' = << >>
      BY <1>0, <2>1 DEF Phases, Crawling, callVars
    <2>3. QED
      BY <2>1, <2>2, Emptied
  <1>12. CASE UNCHANGED vars
    <2>1. callVars' = callVars /\ UNCHANGED <<at, todo, visited, pages, outcome, pc>>
      BY <1>12 DEF vars
    <2>2. Phases' /\ (Crawling' <=> Crawling) /\ (Busy' <=> Busy)
      BY <1>0, <2>1 DEF Phases, Crawling, Busy, callVars
    <2>3. QED
      BY <2>1, <2>2, Stays
  <1>13. QED
    BY <1>1, <1>2, <1>3, <1>4, <1>5, <1>6, <1>7, <1>8, <1>9, <1>10, <1>11, <1>12 DEF Next

LEMMA CrawlInit ==
  ASSUME Init, DiscoveryAssumption
  PROVE  CrawlInv
  <1>1. Met
    BY DEF Init, DiscoveryAssumption, Met
  <1>2. pages = << >> /\ DOMAIN pages = {} /\ Len(pages) = 0 /\ pc = "begin" /\ outcome = "none" /\ todo = << >> /\ visited = {}
    BY DEF Init
  <1>3. opt.maxPages \in Nat
    BY <1>1 DEF Met, OptionType
  <1>4. PagesInOrder
    <2>1. pages \in Seq(EntryType)
      BY <1>2
    <2>2. QED
      BY <1>2, <1>3, <2>1 DEF PagesInOrder
  <1>5. Phases /\ ~Crawling
    BY <1>2 DEF Phases, Crawling
  <1>6. QED
    BY <1>1, <1>2, <1>4, <1>5 DEF CrawlInv

(* A crawl scrapes each page once, at its distance from the seed over the  *)
(* allowed links, nearer ones first, and everything within reach unless it *)
(* stops at its page cap: crawl()'s queue is in order of depth, and what   *)
(* is nearer than all of it has been visited.                              *)
THEOREM CrawlsBreadthFirst == Spec => []CrawlIsBreadthFirst
  <1>1. Init => CrawlInv
    BY CrawlInit, DiscoveryAssumption
  <1>2. CrawlInv /\ [Next]_vars => CrawlInv'
    BY CrawlStep, DiscoveryAssumption
  <1>3. CrawlInv => CrawlIsBreadthFirst
    BY DEF CrawlInv, PagesInOrder, Exact, KeyOf, Reached, Scraped, CrawlIsBreadthFirst
  <1>4. QED
    BY <1>1, <1>2, <1>3, PTL DEF Spec

-----------------------------------------------------------------------------
(* What a sitemap document names are URLs.                                 *)
Tag == {"url", "sitemap", "loc"}
Reading == [parent : Tag \cup {"none"}, inLoc : BOOLEAN, loc : Seq(SitemapUrl),
            seeds : Seq(SitemapUrl), nested : Seq(SitemapUrl)]

LEMMA EventRead ==
  ASSUME NEW read \in Reading, NEW event \in EventType, NEW base \in SitemapUrl
  PROVE  ReadEvent(read, event, base) \in Reading
  <1>0. << >> \in Seq(SitemapUrl)
    OBVIOUS
  <1>1. CASE event.tag = "text"
    <2>1. event.url \in SitemapUrl
      BY <1>1 DEF EventType
    <2>2. <<event.url>> \in Seq(SitemapUrl)
      BY <2>1
    <2> DEFINE s == <<event.url>>
    <2> HIDE DEF s
    <2>3. [read EXCEPT !.loc = s] \in Reading
      BY <2>2 DEF Reading, s
    <2>4. ReadEvent(read, event, base) \in {[read EXCEPT !.loc = s], read}
      BY <1>1 DEF ReadEvent, s
    <2>5. QED
      BY <2>3, <2>4
  <1>2. CASE event.tag # "text"
    <2>1. event.tag \in Tag /\ event.opens \in BOOLEAN
      BY <1>2 DEF EventType, Tag
    <2>2. CloseLoc(read, base) \in Reading
      <3> DEFINE loc == IF read.loc = << >> THEN <<base>> ELSE read.loc
                 closed == [read EXCEPT !.inLoc = FALSE,
                                        !.seeds = IF read.parent = "url" THEN @ \o loc ELSE @,
                                        !.nested = IF read.parent = "sitemap" THEN @ \o loc ELSE @]
      <3>1. loc \in Seq(SitemapUrl)
        BY DEF Reading
      <3> HIDE DEF loc
      <3>2. read.seeds \o loc \in Seq(SitemapUrl) /\ read.nested \o loc \in Seq(SitemapUrl)
        BY <3>1, ConcatProperties DEF Reading
      <3>3. closed \in Reading
        BY <3>2 DEF Reading
      <3>4. CloseLoc(read, base) = closed
        BY DEF CloseLoc, loc
      <3>5. QED
        BY <3>3, <3>4
    <2>3. [read EXCEPT !.inLoc = TRUE, !.loc = << >>] \in Reading
      BY <1>0 DEF Reading
    <2>4. [read EXCEPT !.parent = IF event.opens THEN event.tag ELSE "none"] \in Reading
      BY <2>1 DEF Reading
    <2>5. ReadEvent(read, event, base) \in {read, CloseLoc(read, base), [read EXCEPT !.inLoc = TRUE, !.loc = << >>],
                                      [read EXCEPT !.parent = IF event.opens THEN event.tag ELSE "none"]}
      BY <1>2, <2>1 DEF ReadEvent
    <2>6. QED
      BY <2>2, <2>3, <2>4, <2>5
  <1>3. QED
    BY <1>1, <1>2

LEMMA SitemapParsed ==
  ASSUME NEW events \in Seq(EventType), NEW base \in SitemapUrl
  PROVE  ParseSitemap(events, base) \in Reading
  <1> DEFINE N == Len(events)
             F == [n \in Nat |-> [r \in Reading |-> IF n < N THEN ReadEvent(r, events[n + 1], base) ELSE r]]
             step(g) == [n \in 0..N |-> IF n = 0 THEN SitemapStart ELSE ReadEvent(g[n - 1], events[n], base)]
             read == CHOOSE g : g = step(g)
  <1>1. N \in Nat /\ \A n \in 1..N : events[n] \in EventType
    BY LenProperties, ElementOfSeq
  <1>2. SitemapStart \in Reading
    BY DEF SitemapStart, Reading
  <1>3. F \in StepsIn(Reading)
    <2>1. ASSUME NEW n \in Nat
          PROVE  [r \in Reading |-> IF n < N THEN ReadEvent(r, events[n + 1], base) ELSE r] \in [Reading -> Reading]
      <3>1. n < N => events[n + 1] \in EventType
        BY <1>1, <2>1
      <3>2. \A r \in Reading : (IF n < N THEN ReadEvent(r, events[n + 1], base) ELSE r) \in Reading
        BY <3>1, EventRead
      <3>3. QED
        BY <3>2
    <2>2. QED
      BY <2>1 DEF StepsIn
  <1>4. PICK f \in [Nat -> Reading] : f[0] = SitemapStart /\ \A n \in Nat : f[n + 1] = F[n][f[n]]
    <2>1. PICK f : f \in Courses(Reading, SitemapStart, F)
      <3> HIDE DEF F
      <3> QED BY <1>2, <1>3, Recursion
    <2> HIDE DEF F
    <2>2. QED
      BY <2>1 DEF Courses
  <1> DEFINE g == [n \in 0..N |-> f[n]]
  <1>5. g = step(g)
    <2>1. ASSUME NEW n \in 0..N
          PROVE  f[n] = IF n = 0 THEN SitemapStart ELSE ReadEvent(g[n - 1], events[n], base)
      <3>1. CASE n = 0
        BY <1>4, <3>1
      <3>2. CASE n # 0
        <4>1. n - 1 \in Nat /\ (n - 1) + 1 = n /\ n - 1 < N /\ n - 1 \in 0..N
          BY <1>1, <2>1, <3>2
        <4>2. f[(n - 1) + 1] = F[n - 1][f[n - 1]] /\ f[n - 1] \in Reading
          BY <1>4, <4>1
        <4>3. F[n - 1][f[n - 1]] = ReadEvent(f[n - 1], events[(n - 1) + 1], base)
          BY <4>1, <4>2
        <4>4. g[n - 1] = f[n - 1]
          BY <4>1
        <4> HIDE DEF F, g
        <4>5. QED
          BY <3>2, <4>1, <4>2, <4>3, <4>4
      <3>3. QED
        BY <3>1, <3>2
    <2> DEFINE h(n) == IF n = 0 THEN SitemapStart ELSE ReadEvent(g[n - 1], events[n], base)
    <2>2. \A n \in 0..N : f[n] = h(n)
      BY <2>1
    <2>3. step(g) = [n \in 0..N |-> h(n)]
      OBVIOUS
    <2>4. g = [n \in 0..N |-> f[n]]
      OBVIOUS
    <2> HIDE DEF g, h, step, N
    <2>5. QED
      BY <2>2, <2>3, <2>4
  <1>6. read = step(read)
    <2> HIDE DEF g, step
    <2> QED BY <1>5
  <1>7. \A n \in 0..N : read[n] \in Reading
    <2> DEFINE P == {n \in Nat : n <= N => read[n] \in Reading}
    <2>0. \A n \in 0..N : read[n] = IF n = 0 THEN SitemapStart ELSE ReadEvent(read[n - 1], events[n], base)
      <3> HIDE DEF read, N
      <3> QED BY <1>6
    <2> HIDE DEF read
    <2>1. 0 \in P
      BY <1>1, <1>2, <2>0
    <2>2. ASSUME NEW n \in Nat, n \in P PROVE n + 1 \in P
      <3>1. SUFFICES ASSUME n + 1 <= N PROVE read[n + 1] \in Reading
        BY <2>2
      <3>2. n + 1 \in 0..N /\ n + 1 # 0 /\ (n + 1) - 1 = n /\ n <= N /\ n + 1 \in 1..N
        BY <1>1, <2>2, <3>1
      <3>3. read[n] \in Reading /\ events[n + 1] \in EventType
        BY <1>1, <2>2, <3>2
      <3>4. read[n + 1] = ReadEvent(read[n], events[n + 1], base)
        BY <2>0, <3>2
      <3>5. QED
        BY <3>3, <3>4, EventRead
    <2>3. \A n \in Nat : n \in P
      <3> HIDE DEF P
      <3> QED BY <2>1, <2>2, Induction
    <2>4. QED
      BY <1>1, <2>3
  <1>8. ParseSitemap(events, base) = read[N]
    BY DEF ParseSitemap
  <1>9. N \in 0..N
    BY <1>1
  <1> HIDE DEF read, N
  <1>10. QED
    BY <1>7, <1>8, <1>9

Known == \E c \in Call : site = c.site /\ opt = c.opt

LEMMA NamedAreUrls ==
  ASSUME DiscoveryAssumption, Known, NEW url
  PROVE  Named(url).seeds \in Seq(SitemapUrl) /\ Named(url).nested \in Seq(SitemapUrl)
  <1>1. CASE Sitemap(url).state # "ok"
    BY <1>1 DEF Named, SitemapStart
  <1>2. CASE Sitemap(url).state = "ok"
    <2>1. <<url.origin, url.page>> \in DOMAIN site.sitemap /\ Sitemap(url) = site.sitemap[<<url.origin, url.page>>]
      BY <1>2 DEF Sitemap
    <2>2. PICK c \in Call : site = c.site
      BY DEF Known
    <2> DEFINE files == UNION {{<<Base(k[1], k[2]), d.site.sitemap[k].events>> : k \in DOMAIN d.site.sitemap} : d \in Call}
               file == <<Base(url.origin, url.page), Sitemap(url).events>>
    <2>3. file \in files
      <3> DEFINE key == <<url.origin, url.page>>
                 entry(k) == <<Base(k[1], k[2]), c.site.sitemap[k].events>>
      <3>1. Sitemap(url) = c.site.sitemap[key] /\ key \in DOMAIN c.site.sitemap
        BY <2>1, <2>2
      <3>2. file = entry(key)
        BY <3>1
      <3> HIDE DEF file, entry, key
      <3>3. file \in {entry(k) : k \in DOMAIN c.site.sitemap}
        BY <3>1, <3>2, Zenon
      <3>4. QED
        BY <3>3 DEF entry
    <2>4. /\ <<url.origin, url.page>> \in Origin \X STRING
          /\ c.site.sitemap[<<url.origin, url.page>>] \in [state : {"ok", "hang"}, events : Seq(EventType)]
      BY <2>1, <2>2 DEF DiscoveryAssumption
    <2>5. Sitemap(url).events \in Seq(EventType) /\ Base(url.origin, url.page) \in SitemapUrl
      BY <2>1, <2>2, <2>4 DEF Base, SitemapUrl
    <2>6. Parsed = [f \in files |-> ParseSitemap(f[2], f[1])]
      BY DEF Parsed
    <2> HIDE DEF files
    <2>7. Named(url) = ParseSitemap(Sitemap(url).events, Base(url.origin, url.page))
      <3>1. Named(url) = Parsed[file]
        BY <1>2 DEF Named
      <3>2. Parsed[file] = ParseSitemap(file[2], file[1])
        <4> HIDE DEF file
        <4> QED BY <2>3, <2>6
      <3>3. QED
        BY <3>1, <3>2
    <2>8. QED
      BY <2>5, <2>7, SitemapParsed DEF Reading
  <1>3. QED
    BY <1>1, <1>2

-----------------------------------------------------------------------------
(* What a map holds while it waits for sitemaps: the seed and links of its *)
(* document, all of them if they fit.                                      *)
Admitted == {u \in Elements(Links(doc, doc)) : admit(u)}

LinksListed ==
  /\ urls \in Seq(UrlType \cup SitemapUrl) /\ Once(urls)
  /\ Len(urls) \in 1..opt.maxUrls /\ urls[1] = Seed
  /\ \A i \in 2..Len(urls) : urls[i] \in Admitted
  /\ Len(urls) < opt.maxUrls => Admitted \subseteq Elements(urls)

MapInv ==
  /\ opt.mode # "crawl" /\ pc \in {"request", "walk", "scraped"} => at.url = Seed
  /\ opt.mode = "map" =>
      /\ pc \notin {"begin", "done"} => opt.maxUrls \in Nat \ {0}
      /\ pc \in {"begin", "request", "walk", "scraped"} => urls = << >>
      /\ pc \in {"walk", "scraped"} => doc \in UrlType
      /\ pc \in {"map walk", "mapped"} => LinksListed
      /\ pc = "done" => InventoryIsComplete

-----------------------------------------------------------------------------
(* The walk over sitemaps, with what it may still read.                    *)
Listed == UNION {Elements(Named(d).seeds) : d \in docs}

WalkInv ==
  /\ Known
  /\ IsFiniteSet(docs) /\ Cardinality(docs) <= MaxSitemaps
  /\ seeds \in Seq(SitemapUrl) /\ Once(seeds) /\ Len(seeds) <= MaxSeeds
  /\ stack \in Seq(Elements(stack))
  /\ Elements(seeds) \subseteq Listed
  /\ Walking =>
       /\ Listed \subseteq Elements(seeds)
       /\ \A d \in docs : Elements(Named(d).nested) \subseteq docs \cup Elements(stack)

LEMMA WalkCarried ==
  ASSUME callVars' = callVars
  PROVE  /\ Known' <=> Known
         /\ \A u : Named(u)' = Named(u)
         /\ Listed' = UNION {Elements(Named(d).seeds) : d \in docs'}
         /\ WalkInv' <=> /\ Known
                         /\ IsFiniteSet(docs') /\ Cardinality(docs') <= MaxSitemaps
                         /\ seeds' \in Seq(SitemapUrl) /\ Once(seeds') /\ Len(seeds') <= MaxSeeds
                         /\ stack' \in Seq(Elements(stack'))
                         /\ Elements(seeds') \subseteq Listed'
                         /\ Walking' =>
                              /\ Listed' \subseteq Elements(seeds')
                              /\ \A d \in docs' : Elements(Named(d).nested) \subseteq docs' \cup Elements(stack')
  <1>1. Known' <=> Known
    BY DEF Known, callVars
  <1>2. \A u : Sitemap(u)' = Sitemap(u)
    BY DEF Sitemap, callVars
  <1>3. Parsed' = Parsed
    BY DEF Parsed
  <1>4. \A u : Named(u)' = Named(u)
    BY <1>2, <1>3 DEF Named
  <1>5. Listed' = UNION {Elements(Named(d).seeds) : d \in docs'}
    BY <1>4 DEF Listed, Elements
  <1>6. \A d : Elements(Named(d).nested)' = Elements(Named(d).nested)
    BY <1>4 DEF Elements
  <1>7. /\ Once(seeds)' = Once(seeds') /\ Elements(seeds)' = Elements(seeds')
        /\ Elements(stack)' = Elements(stack')
    BY DEF Once, Elements
  <1>8. QED
    BY <1>1, <1>4, <1>5, <1>6, <1>7 DEF WalkInv

(* Where the walk stays as it is, or is over, so does what holds of it.    *)
LEMMA WalkStays ==
  ASSUME WalkInv, callVars' = callVars, UNCHANGED walkVars, Walking' => Walking
  PROVE  WalkInv'
  <1>1. docs' = docs /\ seeds' = seeds /\ stack' = stack
    BY DEF walkVars
  <1>2. Listed' = Listed
    BY <1>1, WalkCarried DEF Listed
  <1>3. QED
    BY <1>1, <1>2, WalkCarried DEF WalkInv

(* A sequence holds its elements.                                          *)
LEMMA OwnElements ==
  ASSUME NEW T, NEW s \in Seq(T)
  PROVE  s \in Seq(Elements(s)) /\ Elements(s) \subseteq T
  <1>1. DOMAIN s = 1..Len(s) /\ Len(s) \in Nat /\ s \in [1..Len(s) -> T]
    BY LenProperties
  <1>2. s \in [1..Len(s) -> Elements(s)]
    BY <1>1 DEF Elements
  <1>3. s \in Seq(Elements(s))
    <2> DEFINE V == Elements(s)
               n == Len(s)
    <2> HIDE DEF V, n
    <2>1. n \in Nat /\ s \in [1..n -> V]
      BY <1>1, <1>2 DEF V, n
    <2>2. s \in Seq(V)
      BY <2>1, SeqDef
    <2>3. QED
      BY <2>2 DEF V
  <1>4. \A i \in 1..Len(s) : s[i] \in T
    BY <1>1
  <1>5. Elements(s) \subseteq T
    BY <1>1, <1>4 DEF Elements
  <1>6. QED
    BY <1>3, <1>5

LEMMA JoinedElements ==
  ASSUME NEW S, NEW T, NEW s \in Seq(S), NEW t \in Seq(T)
  PROVE  s \o t \in Seq(Elements(s \o t)) /\ Elements(s \o t) = Elements(s) \cup Elements(t)
  <1>1. s \in Seq(S \cup T) /\ t \in Seq(S \cup T)
    BY SeqMonotonic
  <1>2. /\ s \o t \in Seq(S \cup T) /\ Len(s \o t) = Len(s) + Len(t)
        /\ \A i \in 1..(Len(s) + Len(t)) : (s \o t)[i] = IF i <= Len(s) THEN s[i] ELSE t[i - Len(s)]
    BY <1>1, ConcatProperties
  <1>3. /\ Len(s) \in Nat /\ DOMAIN s = 1..Len(s) /\ Len(t) \in Nat /\ DOMAIN t = 1..Len(t)
        /\ DOMAIN (s \o t) = 1..(Len(s) + Len(t))
    BY <1>2, LenProperties
  <1>4. Elements(s \o t) \subseteq Elements(s) \cup Elements(t)
    <2>1. ASSUME NEW i \in 1..(Len(s) + Len(t)) PROVE (s \o t)[i] \in Elements(s) \cup Elements(t)
      <3>1. CASE i <= Len(s)
        BY <1>2, <1>3, <2>1, <3>1 DEF Elements
      <3>2. CASE ~(i <= Len(s))
        <4>1. i - Len(s) \in 1..Len(t)
          BY <1>3, <2>1, <3>2
        <4>2. QED
          BY <1>2, <1>3, <2>1, <3>2, <4>1 DEF Elements
      <3>3. QED
        BY <3>1, <3>2
    <2>2. QED
      BY <1>3, <2>1 DEF Elements
  <1>5. Elements(s) \subseteq Elements(s \o t)
    <2>1. \A i \in 1..Len(s) : i \in 1..(Len(s) + Len(t)) /\ i <= Len(s)
      BY <1>3
    <2>2. QED
      BY <1>2, <1>3, <2>1 DEF Elements
  <1>6. Elements(t) \subseteq Elements(s \o t)
    <2>1. ASSUME NEW i \in 1..Len(t) PROVE t[i] \in Elements(s \o t)
      <3>1. Len(s) + i \in 1..(Len(s) + Len(t)) /\ ~(Len(s) + i <= Len(s)) /\ (Len(s) + i) - Len(s) = i
        BY <1>3, <2>1
      <3>2. (s \o t)[Len(s) + i] = t[i]
        BY <1>2, <3>1
      <3>3. QED
        BY <1>3, <3>1, <3>2 DEF Elements
    <2>2. QED
      BY <1>3, <2>1 DEF Elements
  <1>7. QED
    BY <1>2, <1>4, <1>5, <1>6, OwnElements

(* A walk starts with the default sitemap and what the policy declares.    *)
LEMMA DeclaredIsSeq ==
  ASSUME DiscoveryAssumption, Known, NEW url \in UrlType
  PROVE  Declared(url) \in Seq(Elements(Declared(url)))
  <1>1. CASE opt.robots = "ignore" \/ Robots(url).state # "ok"
    <2>1. Declared(url) = << >>
      BY <1>1 DEF Declared
    <2>2. QED
      BY <2>1
  <1>2. CASE opt.robots # "ignore" /\ Robots(url).state = "ok"
    <2> DEFINE lines == Robots(url).lines
               values == [i \in DOMAIN lines |-> lines[i].value]
               I == {i \in DOMAIN lines : lines[i].name = "sitemap"}
               joined == [i \in DOMAIN DeclaredSitemaps(lines) |-> Join(url, DeclaredSitemaps(lines)[i])]
               J == {i \in DOMAIN joined : joined[i].origin # "other"}
    <2>1. lines \in Seq(LineType)
      <3>1. PICK c \in Call : site = c.site
        BY DEF Known
      <3>2. c.site.robots \in [Origin -> [state : {"ok", "missing", "hang"}, lines : Seq(LineType)]]
        BY DEF DiscoveryAssumption
      <3>3. url.origin \in Origin
        BY DEF UrlType
      <3>4. QED
        BY <3>1, <3>2, <3>3 DEF Robots
    <2> HIDE DEF lines
    <2>2. values \in Seq({values[i] : i \in DOMAIN values}) /\ I \subseteq DOMAIN values
      BY <2>1, LenProperties, SeqDef
    <2>3. DeclaredSitemaps(lines) = AtPositions(values, I)
      BY DEF DeclaredSitemaps
    <2> HIDE DEF values, I
    <2>4. PICK T : DeclaredSitemaps(lines) \in Seq(T)
      <3>1. AtPositions(values, I) \in Seq(Held(values, I))
        BY <2>2, PositionsKept
      <3>2. DeclaredSitemaps(lines) \in Seq(Held(values, I))
        BY <2>3, <3>1
      <3>3. QED
        BY <3>2
    <2>5. joined \in Seq({joined[i] : i \in DOMAIN joined})
      BY <2>4, LenProperties, SeqDef
    <2>6. J \subseteq DOMAIN joined
      OBVIOUS
    <2>7. Declared(url) = AtPositions(joined, J)
      BY <1>2 DEF Declared, Keep, lines
    <2> HIDE DEF joined, J
    <2>8. AtPositions(joined, J) \in Seq(Held(joined, J))
      BY <2>5, <2>6, PositionsKept
    <2>9. QED
      BY <2>7, <2>8, OwnElements
  <1>3. QED
    BY <1>1, <1>2

LEMMA StartsWalk ==
  ASSUME WalkInv, DiscoveryAssumption, callVars' = callVars, NEW target, NEW declared, declared \in Seq(Elements(declared)),
         StartWalk(target, declared)
  PROVE  WalkInv'
  <1>1. docs' = {} /\ seeds' = << >> /\ DOMAIN seeds' = {} /\ Elements(seeds') = {} /\ Listed' = {}
    BY WalkCarried DEF StartWalk, Elements
  <1>2. stack' \in Seq(Elements(stack'))
    <2> DEFINE first == <<[target EXCEPT !.page = "sitemap", !.frag = FALSE]>>
    <2>1. first \in Seq({first[1]})
      OBVIOUS
    <2>2. stack' = first \o declared
      BY DEF StartWalk
    <2> HIDE DEF first
    <2>3. QED
      BY <2>1, <2>2, JoinedElements
  <1>3. IsFiniteSet({}) /\ Cardinality({}) = 0 /\ 0 <= MaxSitemaps /\ 0 <= MaxSeeds
    BY FS_EmptySet DEF DiscoveryAssumption
  <1>4. seeds' \in Seq(SitemapUrl) /\ Once(seeds') /\ Len(seeds') = 0
    BY <1>1 DEF Once
  <1>5. QED
    BY <1>1, <1>2, <1>3, <1>4, WalkCarried DEF WalkInv

(* The end of the stack.                                                   *)
LEMMA StackPopped ==
  ASSUME NEW s, s \in Seq(Elements(s)), s # << >>
  PROVE  /\ Front(s) \in Seq(Elements(Front(s)))
         /\ Elements(s) = Elements(Front(s)) \cup {Last(s)}
  <1>1. Len(s) \in Nat \ {0} /\ DOMAIN s = 1..Len(s)
    BY LenProperties, EmptySeq
  <1>2. Len(s) - 1 \in 0..Len(s) /\ 1..Len(s) = 1..(Len(s) - 1) \cup {Len(s)}
    BY <1>1
  <1>3. Front(s) = SubSeq(s, 1, Len(s) - 1) /\ Last(s) = s[Len(s)]
    BY DEF Front, Last
  <1>4. /\ Front(s) \in Seq(Elements(s)) /\ DOMAIN Front(s) = 1..(Len(s) - 1)
        /\ \A i \in 1..(Len(s) - 1) : i \in DOMAIN s /\ Front(s)[i] = s[i]
    BY <1>2, <1>3, CutOnce
  <1>5. Elements(s) = Elements(Front(s)) \cup {Last(s)}
    BY <1>1, <1>2, <1>3, <1>4, ZenonT(60) DEF Elements
  <1>6. QED
    BY <1>4, <1>5, OwnElements

(* Another sitemap read: its seeds are kept, what it names is to be read.  *)
LEMMA ReadsSitemap ==
  ASSUME WalkInv, DiscoveryAssumption, WalkReads
  PROVE  WalkInv'
  <1> DEFINE read == Last(stack)
             more == Named(read).seeds
             nested == Named(read).nested
             found == Merge(seeds, more)
             upTo(i) == ToSet(seeds) \cup ToSet(SubSeq(more, 1, i - 1))
             full == \E i \in DOMAIN more : Cardinality(upTo(i)) >= MaxSeeds
  <1>1. /\ callVars' = callVars /\ Walking /\ stack # << >> /\ ~(Cardinality(docs) >= MaxSitemaps)
        /\ read \notin docs /\ docs' = docs \cup {read}
        /\ seeds' = IF full THEN SubSeq(found, 1, MaxSeeds) ELSE found
        /\ IF full THEN AfterWalk /\ stack' = Front(stack)
           ELSE stack' = Front(stack) \o nested /\ pc' = pc
    BY DEF WalkReads, WalkOver, Popped
  <1>2. /\ Known /\ IsFiniteSet(docs) /\ Cardinality(docs) \in Nat /\ MaxSitemaps \in Nat /\ MaxSeeds \in Nat
        /\ seeds \in Seq(SitemapUrl) /\ Once(seeds) /\ Len(seeds) <= MaxSeeds
        /\ Elements(seeds) = Listed /\ stack \in Seq(Elements(stack))
        /\ \A d \in docs : Elements(Named(d).nested) \subseteq docs \cup Elements(stack)
    BY <1>1, FS_CardinalityType DEF WalkInv, DiscoveryAssumption
  <1>3. IsFiniteSet(docs') /\ Cardinality(docs') <= MaxSitemaps
    <2>1. IsFiniteSet(docs \cup {read}) /\ Cardinality(docs \cup {read}) = Cardinality(docs) + 1
      BY <1>1, <1>2, FS_AddElement
    <2>2. QED
      BY <1>1, <1>2, <2>1
  <1>4. more \in Seq(SitemapUrl) /\ nested \in Seq(SitemapUrl)
    BY <1>2, NamedAreUrls
  <1>5. Listed' = Elements(seeds) \cup Elements(more)
    BY <1>1, <1>2, WalkCarried DEF Listed
  <1> HIDE DEF read, more, nested
  <1>6. found \in Seq(SitemapUrl) /\ Once(found) /\ Elements(found) = Elements(seeds) \cup Elements(more)
    BY <1>2, <1>4, MergeOnce
  <1>7. IsFiniteSet(Elements(found)) /\ Cardinality(Elements(found)) = Len(found) /\ Len(found) \in Nat
    BY <1>6, OnceCounts, LenProperties
  <1>8. DOMAIN more = 1..Len(more) /\ Len(more) \in Nat
    BY <1>4, LenProperties
  <1>9. ASSUME NEW i \in DOMAIN more
        PROVE  /\ upTo(i) = Elements(seeds) \cup Elements(SubSeq(more, 1, i - 1))
               /\ upTo(i) \subseteq Elements(found) /\ IsFiniteSet(upTo(i)) /\ Cardinality(upTo(i)) \in Nat
               /\ Cardinality(upTo(i)) <= Len(found)
    <2>1. i - 1 \in 0..Len(more)
      BY <1>8, <1>9
    <2>2. Elements(SubSeq(more, 1, i - 1)) \subseteq Elements(more)
      BY <1>4, <2>1, CutOnce
    <2>3. upTo(i) = Elements(seeds) \cup Elements(SubSeq(more, 1, i - 1))
      BY DEF ToSet, Elements
    <2> HIDE DEF upTo, found
    <2>4. upTo(i) \in SUBSET Elements(found)
      BY <1>6, <2>2, <2>3
    <2>5. IsFiniteSet(upTo(i)) /\ Cardinality(upTo(i)) <= Cardinality(Elements(found))
      BY <1>7, <2>4, FS_Subset
    <2>6. QED
      BY <1>7, <2>3, <2>4, <2>5, FS_CardinalityType
  <1>10. /\ Front(stack) \in Seq(Elements(Front(stack)))
         /\ Elements(stack) = Elements(Front(stack)) \cup {read}
    BY <1>1, <1>2, StackPopped DEF read
  <1> HIDE DEF found, upTo
  <1>11. CASE full
    <2>1. PICK i \in DOMAIN more : Cardinality(upTo(i)) >= MaxSeeds
      BY <1>11
    <2>2. MaxSeeds \in 0..Len(found)
      BY <1>2, <1>7, <1>9, <2>1
    <2>3. /\ seeds' \in Seq(SitemapUrl) /\ Once(seeds') /\ Len(seeds') = MaxSeeds
          /\ Elements(seeds') \subseteq Elements(found)
      BY <1>1, <1>6, <1>11, <2>2, CutOnce
    <2>4. ~Walking' /\ stack' = Front(stack)
      BY <1>1, <1>11 DEF AfterWalk, Walking
    <2>5. QED
      BY <1>1, <1>2, <1>3, <1>5, <1>6, <1>10, <2>3, <2>4, WalkCarried, SMTT(40)
  <1>12. CASE ~full
    <2>1. seeds' = found /\ stack' = Front(stack) \o nested /\ Walking'
      BY <1>1, <1>12 DEF Walking
    <2>2. Len(found) <= MaxSeeds
      <3>1. CASE more = << >>
        <4>1. Elements(more) = {}
          BY <3>1 DEF Elements
        <4>2. Elements(found) = Elements(seeds)
          BY <1>6, <4>1
        <4>3. Len(found) = Len(seeds)
          BY <1>2, <1>7, <4>2, OnceCounts
        <4>4. QED
          BY <1>2, <4>3
      <3>2. CASE more # << >>
        <4> DEFINE n == Len(more)
        <4>1. n \in DOMAIN more /\ more \in Seq(Elements(more))
          BY <1>4, <1>8, <3>2, EmptySeq, OwnElements
        <4>2. Elements(more) = Elements(Front(more)) \cup {Last(more)}
          BY <3>2, <4>1, StackPopped
        <4>3. Front(more) = SubSeq(more, 1, n - 1)
          BY DEF Front
        <4> HIDE DEF n
        <4>4. Elements(found) = upTo(n) \cup {Last(more)}
          BY <1>6, <1>9, <4>1, <4>2, <4>3
        <4>5. IsFiniteSet(upTo(n)) /\ Cardinality(upTo(n)) \in Nat /\ ~(Cardinality(upTo(n)) >= MaxSeeds)
          BY <1>9, <1>12, <4>1
        <4>6. Cardinality(Elements(found)) <= Cardinality(upTo(n)) + 1
          <5>1. Cardinality(upTo(n) \cup {Last(more)}) =
                  IF Last(more) \in upTo(n) THEN Cardinality(upTo(n)) ELSE Cardinality(upTo(n)) + 1
            BY <4>5, FS_AddElement
          <5>2. QED
            BY <4>4, <4>5, <5>1
        <4>7. QED
          BY <1>2, <1>7, <4>5, <4>6
      <3>3. QED
        BY <3>1, <3>2
    <2>3. stack' \in Seq(Elements(stack')) /\ Elements(stack') = Elements(Front(stack)) \cup Elements(nested)
      BY <1>4, <1>10, <2>1, JoinedElements
    <2>4. ASSUME NEW d \in docs' PROVE Elements(Named(d).nested) \subseteq docs' \cup Elements(stack')
      <3>1. CASE d \in docs
        BY <1>1, <1>2, <1>10, <2>3, <3>1
      <3>2. CASE d \notin docs
        <4>1. Named(d).nested = nested
          BY <1>1, <2>4, <3>2 DEF nested
        <4>2. QED
          BY <2>3, <4>1
      <3>3. QED
        BY <3>1, <3>2
    <2>5. QED
      BY <1>1, <1>2, <1>3, <1>5, <1>6, <2>1, <2>2, <2>3, <2>4, WalkCarried
  <1> HIDE DEF full
  <1>13. QED
    BY <1>11, <1>12

LEMMA RevisitsSitemap ==
  ASSUME WalkInv, WalkRevisits
  PROVE  WalkInv'
  <1>1. /\ callVars' = callVars /\ Walking /\ stack # << >> /\ Last(stack) \in docs
        /\ docs' = docs /\ seeds' = seeds /\ stack' = Front(stack)
    BY DEF WalkRevisits, WalkOver, Popped
  <1>2. Listed' = Listed
    BY <1>1, WalkCarried DEF Listed
  <1>3. stack' \in Seq(Elements(stack')) /\ Elements(stack) = Elements(stack') \cup {Last(stack)}
    BY <1>1, StackPopped DEF WalkInv
  <1>4. QED
    BY <1>1, <1>2, <1>3, WalkCarried DEF WalkInv

LEMMA GivesUpWalk ==
  ASSUME WalkInv, DiscoveryAssumption, WalkTimesOut
  PROVE  WalkInv'
  <1>1. callVars' = callVars /\ docs' = docs /\ seeds' = << >> /\ stack' = << >> /\ ~Walking'
    BY DEF WalkTimesOut, Walking, End
  <1>2. Elements(seeds') = {} /\ Once(seeds') /\ Len(seeds') = 0 /\ 0 <= MaxSeeds
    BY <1>1 DEF Elements, Once, DiscoveryAssumption
  <1>3. seeds' \in Seq(SitemapUrl) /\ stack' \in Seq(Elements(stack'))
    BY <1>1
  <1>4. QED
    BY <1>1, <1>2, <1>3, WalkCarried DEF WalkInv

LEMMA WalkStep ==
  ASSUME CrawlInv, MapInv, WalkInv, DiscoveryAssumption, [Next]_vars
  PROVE  WalkInv'
  <1>1. CASE ScrapeArrives
    <2>1. callVars' = callVars /\ pc = "request" /\ ~Walking
      BY <1>1 DEF ScrapeArrives, Walking
    <2>2. CASE "links" \in Formats
      <3>1. at.url \in UrlType
        <4>1. CASE opt.mode = "crawl"
          BY <2>1, <4>1 DEF CrawlInv, Crawling, Busy, VisitedIsScraped, EntryType
        <4>2. CASE opt.mode # "crawl"
          BY <2>1, <4>2 DEF MapInv, DiscoveryAssumption
        <4>3. QED
          BY <4>1, <4>2
      <3>2. StartWalk(at.url, Declared(at.url)) /\ Declared(at.url) \in Seq(Elements(Declared(at.url)))
        BY <1>1, <2>2, <3>1, DeclaredIsSeq DEF ScrapeArrives, WalkInv
      <3>3. QED
        BY <2>1, <3>2, StartsWalk
    <2>3. CASE "links" \notin Formats
      <3>1. UNCHANGED walkVars /\ ~Walking'
        BY <1>1, <2>3 DEF ScrapeArrives, Walking
      <3>2. QED
        BY <2>1, <3>1, WalkStays
    <2>4. QED
      BY <2>2, <2>3
  <1>2. CASE MapHarvests
    <2>1. CASE StartWalk(Seed, << >>)
      <3>1. << >> \in Seq({})
        OBVIOUS
      <3>2. << >> \in Seq(Elements(<< >>))
        BY <3>1, OwnElements
      <3>3. callVars' = callVars
        BY <1>2 DEF MapHarvests
      <3>4. QED
        BY <2>1, <3>2, <3>3, StartsWalk
    <2>2. CASE UNCHANGED walkVars /\ pc' = "done"
      BY <1>2, <2>2, WalkStays DEF MapHarvests, Walking
    <2>3. QED
      BY <1>2, <2>1, <2>2 DEF MapHarvests, End
  <1>3. CASE WalkReads
    BY <1>3, ReadsSitemap
  <1>4. CASE WalkRevisits
    BY <1>4, RevisitsSitemap
  <1>5. CASE WalkTimesOut
    BY <1>5, GivesUpWalk
  <1>6. CASE WalkEnds \/ UNCHANGED vars
    <2>1. callVars' = callVars /\ UNCHANGED walkVars /\ (Walking' => Walking)
      BY <1>6 DEF WalkEnds, AfterWalk, Walking, vars
    <2>2. QED
      BY <2>1, WalkStays
  <1>7. ASSUME Refuse \/ BeginCrawl \/ BeginScrape \/ ScrapeFails \/ CrawlEnds \/ CrawlTakes \/ CrawlHarvests
        PROVE  WalkInv'
    <2>1. callVars' = callVars /\ UNCHANGED walkVars /\ ~Walking'
      <3>1. CASE Refuse
        BY <3>1 DEF Refuse, End, Walking
      <3>2. CASE BeginCrawl
        BY <3>2 DEF BeginCrawl, Walking
      <3>3. CASE BeginScrape
        BY <3>3 DEF BeginScrape, Walking
      <3>4. CASE ScrapeFails
        BY <3>4 DEF ScrapeFails, RequestFails, End, Walking
      <3>5. CASE CrawlEnds
        BY <3>5 DEF CrawlEnds, End, Walking
      <3>6. CASE CrawlTakes
        <4>1. callVars' = callVars /\ UNCHANGED walkVars /\ (pc' = pc \/ pc' = "request") /\ pc = "crawl"
          BY <3>6 DEF CrawlTakes
        <4>2. QED
          BY <4>1 DEF Walking
      <3>7. CASE CrawlHarvests
        BY <3>7 DEF CrawlHarvests, Walking
      <3>8. QED
        BY <1>7, <3>1, <3>2, <3>3, <3>4, <3>5, <3>6, <3>7
    <2>2. QED
      BY <2>1, WalkStays
  <1>8. ASSUME StartFollowing \/ ChainEnds \/ ChainGrows \/ ChainFails \/ MapEnds PROVE WalkInv'
    <2>1. callVars' = callVars /\ UNCHANGED walkVars /\ ~Walking'
      <3>1. CASE StartFollowing
        BY <3>1 DEF StartFollowing, End, Walking
      <3>2. CASE ChainEnds
        BY <3>2 DEF ChainEnds, End, Walking
      <3>3. CASE ChainGrows
        BY <3>3 DEF ChainGrows, Walking
      <3>4. CASE ChainFails
        BY <3>4 DEF ChainFails, RequestFails, End, Walking
      <3>5. CASE MapEnds
        BY <3>5 DEF MapEnds, End, Walking
      <3>6. QED
        BY <1>8, <3>1, <3>2, <3>3, <3>4, <3>5
    <2>2. QED
      BY <2>1, WalkStays
  <1>9. QED
    BY <1>1, <1>2, <1>3, <1>4, <1>5, <1>6, <1>7, <1>8 DEF Next

-----------------------------------------------------------------------------
(* The inventory grows by what is pushed.                                  *)
LEMMA PushOnce ==
  ASSUME NEW T, NEW s \in Seq(T), NEW more \in Seq(T), Once(s), opt.maxUrls \in Nat, Len(s) <= opt.maxUrls
  PROVE  /\ Push(s, more) \in Seq(T) /\ Once(Push(s, more))
         /\ Len(s) <= Len(Push(s, more)) /\ Len(Push(s, more)) <= opt.maxUrls
         /\ \A i \in DOMAIN s : Push(s, more)[i] = s[i]
         /\ \A i \in DOMAIN Push(s, more) \ DOMAIN s : Push(s, more)[i] \in Elements(more) \ Elements(s)
         /\ Len(Push(s, more)) < opt.maxUrls => Elements(Push(s, more)) = Elements(s) \cup Elements(more)
  <1> DEFINE all == Merge(s, more)
             n == IF Len(all) < opt.maxUrls THEN Len(all) ELSE opt.maxUrls
             pushed == SubSeq(all, 1, n)
  <1>1. /\ all \in Seq(T) /\ Once(all) /\ Elements(all) = Elements(s) \cup Elements(more) /\ Len(s) <= Len(all)
        /\ \A i \in DOMAIN s : all[i] = s[i]
        /\ \A i \in DOMAIN all \ DOMAIN s : all[i] \in Elements(more) \ Elements(s)
    BY MergeOnce
  <1>2. Push(s, more) = pushed
    BY DEF Push
  <1>3. Len(all) \in Nat /\ DOMAIN s = 1..Len(s) /\ Len(s) \in Nat
    BY <1>1, LenProperties
  <1> HIDE DEF all
  <1>4. n \in 0..Len(all) /\ Len(s) <= n /\ n <= opt.maxUrls /\ (n < opt.maxUrls => n = Len(all))
    BY <1>1, <1>3
  <1> HIDE DEF n
  <1>5. /\ pushed \in Seq(T) /\ Len(pushed) = n /\ DOMAIN pushed = 1..n /\ Once(pushed)
        /\ \A i \in 1..n : i \in DOMAIN all /\ pushed[i] = all[i]
        /\ n = Len(all) => pushed = all
    BY <1>1, <1>4, CutOnce
  <1> HIDE DEF pushed
  <1>6. \A i \in DOMAIN s : pushed[i] = s[i]
    <2>1. \A i \in 1..Len(s) : i \in 1..n
      BY <1>3, <1>4
    <2>2. QED
      BY <1>1, <1>3, <1>5, <2>1
  <1>7. \A i \in DOMAIN pushed \ DOMAIN s : pushed[i] \in Elements(more) \ Elements(s)
    BY <1>1, <1>5
  <1>8. n < opt.maxUrls => Elements(pushed) = Elements(s) \cup Elements(more)
    BY <1>1, <1>4, <1>5
  <1>9. QED
    BY <1>2, <1>4, <1>5, <1>6, <1>7, <1>8

Complete ==
  opt.mode = "map" /\ urls # << >> =>
    /\ Len(urls) <= opt.maxUrls /\ Cardinality(Elements(urls)) = Len(urls)
    /\ urls[1] = Seed
    /\ \A i \in 2..Len(urls) : urls[i] \in Admitted \/ (urls[i] \in Elements(seeds) /\ admit(urls[i]))
    /\ \A i, j \in 2..Len(urls) : i < j /\ urls[j] \in Admitted => urls[i] \in Admitted
    /\ Len(urls) < opt.maxUrls => Admitted \subseteq Elements(urls)

LEMMA CompleteInventory == Complete <=> InventoryIsComplete
  <1>1. {u \in ToSet(Links(doc, doc)) : admit(u)} = Admitted
    BY DEF Admitted, ToSet, Elements
  <1>2. ToSet(urls) = Elements(urls) /\ ToSet(seeds) = Elements(seeds)
    BY DEF ToSet, Elements
  <1>3. QED
    BY <1>1, <1>2 DEF Complete, InventoryIsComplete

(* With all that fits, and only links behind the seed, it is complete.     *)
LEMMA ListedIsComplete ==
  ASSUME LinksListed
  PROVE  InventoryIsComplete
  <1>1. Len(urls) <= opt.maxUrls /\ Cardinality(Elements(urls)) = Len(urls)
    BY OnceCounts DEF LinksListed
  <1>2. Complete
    BY <1>1 DEF LinksListed, Complete
  <1>3. QED
    BY <1>2, CompleteInventory

LEMMA MapCarried ==
  ASSUME callVars' = callVars, doc' = doc
  PROVE  /\ Admitted' = Admitted /\ opt' = opt
         /\ LinksListed' <=> /\ urls' \in Seq(UrlType \cup SitemapUrl) /\ Once(urls')
                             /\ Len(urls') \in 1..opt.maxUrls /\ urls'[1] = Seed
                             /\ \A i \in 2..Len(urls') : urls'[i] \in Admitted
                             /\ Len(urls') < opt.maxUrls => Admitted \subseteq Elements(urls')
  <1>1. \A u, b : Links(u, b)' = Links(u, b)
    BY SameLinks
  <1>2. Links(doc, doc)' = Links(doc, doc)
    BY <1>1
  <1>3. opt' = opt /\ \A u : admit(u)' = admit(u)
    BY DEF callVars, admit
  <1>4. Admitted' = Admitted
    BY <1>2, <1>3 DEF Admitted, Elements
  <1>5. Once(urls)' = Once(urls') /\ Elements(urls)' = Elements(urls')
    BY DEF Once, Elements
  <1>6. QED
    BY <1>3, <1>4, <1>5 DEF LinksListed

LEMMA KeptAdmitted ==
  ASSUME NEW T, NEW s \in Seq(T)
  PROVE  Keep(s, admit) \in Seq(T) /\ Elements(Keep(s, admit)) = {u \in Elements(s) : admit(u)}
  <1> DEFINE I == {i \in DOMAIN s : admit(s[i])}
  <1>1. Keep(s, admit) = AtPositions(s, I)
    BY DEF Keep
  <1>2. I \subseteq DOMAIN s /\ {s[i] : i \in I} = {u \in Elements(s) : admit(u)}
    BY DEF Elements
  <1> HIDE DEF I
  <1>3. QED
    BY <1>1, <1>2, KeptElements

LEMMA HarvestsMap ==
  ASSUME CrawlInv, MapInv, DiscoveryAssumption, MapHarvests
  PROVE  MapInv'
  <1> DEFINE links == Links(doc, doc)
             kept == Keep(links, admit)
             T == UrlType \cup SitemapUrl
  <1>1. /\ callVars' = callVars /\ doc' = doc /\ opt.mode = "map" /\ doc \in UrlType /\ opt.maxUrls \in Nat \ {0}
        /\ urls' = Push(<<Seed>>, kept) /\ pc' \in {"map walk", "done"} /\ opt' = opt
    BY DEF MapHarvests, MapInv, End, callVars
  <1>2. links \in Seq(UrlType) /\ Met
    BY <1>1, LinksAreUrls DEF CrawlInv
  <1>3. kept \in Seq(UrlType) /\ Elements(kept) = Admitted
    <2> HIDE DEF links
    <2>1. kept \in Seq(UrlType) /\ Elements(kept) = {u \in Elements(links) : admit(u)}
      BY <1>2, KeptAdmitted
    <2>2. QED
      BY <2>1 DEF Admitted, links
  <1> HIDE DEF kept, links
  <1>4. <<Seed>> \in Seq(T) /\ Len(<<Seed>>) = 1 /\ DOMAIN <<Seed>> = {1} /\ <<Seed>>[1] = Seed
    BY DEF DiscoveryAssumption
  <1>5. kept \in Seq(T)
    BY <1>3, SeqMonotonic
  <1> DEFINE s == <<Seed>>
  <1>6. s \in Seq(T) /\ Len(s) = 1 /\ DOMAIN s = {1} /\ s[1] = Seed /\ Once(s) /\ Elements(s) = {Seed}
    BY <1>4 DEF Once, Elements
  <1>7. urls' = Push(s, kept)
    BY <1>1
  <1> HIDE DEF s, T
  <1>8. /\ urls' \in Seq(T) /\ Once(urls') /\ 1 <= Len(urls') /\ Len(urls') <= opt.maxUrls
        /\ urls'[1] = Seed
        /\ \A i \in DOMAIN urls' \ {1} : urls'[i] \in Admitted
        /\ Len(urls') < opt.maxUrls => Admitted \subseteq Elements(urls')
    <2>1. opt.maxUrls \in Nat /\ Len(s) <= opt.maxUrls
      <3>1. opt.maxUrls \in Nat \ {0}
        BY <1>1
      <3>2. Len(s) = 1
        BY <1>6
      <3>3. QED
        BY <3>1, <3>2
    <2>2. /\ Push(s, kept) \in Seq(T) /\ Once(Push(s, kept))
          /\ Len(s) <= Len(Push(s, kept)) /\ Len(Push(s, kept)) <= opt.maxUrls
          /\ \A i \in DOMAIN s : Push(s, kept)[i] = s[i]
          /\ \A i \in DOMAIN Push(s, kept) \ DOMAIN s : Push(s, kept)[i] \in Elements(kept) \ Elements(s)
          /\ Len(Push(s, kept)) < opt.maxUrls => Elements(Push(s, kept)) = Elements(s) \cup Elements(kept)
      BY <1>5, <1>6, <2>1, PushOnce
    <2>3. QED
      BY <1>3, <1>6, <1>7, <2>2
  <1>9. DOMAIN urls' = 1..Len(urls') /\ Len(urls') \in Nat
    BY <1>8, LenProperties
  <1>10. LinksListed'
    <2>1. Len(urls') \in 1..opt.maxUrls
      <3>1. opt.maxUrls \in Nat
        BY <1>1
      <3>2. 1 <= Len(urls') /\ Len(urls') <= opt.maxUrls
        BY <1>8
      <3>3. QED
        BY <1>9, <3>1, <3>2
    <2>2. \A i \in 2..Len(urls') : i \in DOMAIN urls' \ {1}
      BY <1>9
    <2>3. QED
      BY <1>1, <1>8, <2>1, <2>2, MapCarried DEF T
  <1>11. InventoryIsComplete'
    BY <1>10, ListedIsComplete, PTL
  <1>12. QED
    BY <1>1, <1>10, <1>11 DEF MapInv

LEMMA EndsMap ==
  ASSUME CrawlInv, WalkInv, MapInv, DiscoveryAssumption, MapEnds
  PROVE  MapInv'
  <1> DEFINE kept == Keep(seeds, admit)
             T == UrlType \cup SitemapUrl
  <1>1. /\ callVars' = callVars /\ doc' = doc /\ opt.mode = "map" /\ LinksListed /\ opt.maxUrls \in Nat \ {0}
        /\ urls' = Push(urls, kept) /\ pc' = "done" /\ opt' = opt /\ seeds' = seeds
    BY DEF MapEnds, CrawlInv, Phases, MapInv, End, callVars, walkVars
  <1>2. kept \in Seq(SitemapUrl) /\ Elements(kept) = {u \in Elements(seeds) : admit(u)}
    BY KeptAdmitted DEF WalkInv
  <1> HIDE DEF kept
  <1>3. kept \in Seq(T) /\ urls \in Seq(T)
    BY <1>1, <1>2, SeqMonotonic DEF LinksListed
  <1> HIDE DEF T
  <1>4. /\ Once(urls) /\ Len(urls) \in 1..opt.maxUrls /\ urls[1] = Seed /\ DOMAIN urls = 1..Len(urls)
        /\ \A i \in 2..Len(urls) : urls[i] \in Admitted
        /\ Len(urls) < opt.maxUrls => Admitted \subseteq Elements(urls)
    BY <1>1, <1>3, LenProperties DEF LinksListed
  <1>5. /\ urls' \in Seq(T) /\ Once(urls')
        /\ Len(urls) <= Len(urls') /\ Len(urls') <= opt.maxUrls
        /\ \A i \in DOMAIN urls : urls'[i] = urls[i]
        /\ \A i \in DOMAIN urls' \ DOMAIN urls : urls'[i] \in Elements(kept) \ Elements(urls)
        /\ Len(urls') < opt.maxUrls => Elements(urls') = Elements(urls) \cup Elements(kept)
    <2>1. Len(urls) <= opt.maxUrls /\ opt.maxUrls \in Nat
      BY <1>1, <1>4
    <2>2. QED
      BY <1>1, <1>3, <1>4, <2>1, PushOnce, SMTT(40)
  <1>6. DOMAIN urls' = 1..Len(urls') /\ Len(urls') \in Nat /\ Len(urls) \in Nat /\ 1 <= Len(urls)
    BY <1>1, <1>4, <1>5, LenProperties
  <1>7. Cardinality(Elements(urls')) = Len(urls')
    BY <1>5, OnceCounts
  <1>8. urls'[1] = Seed
    BY <1>4, <1>5, <1>6
  <1>9. ASSUME NEW i \in 2..Len(urls')
        PROVE  /\ i \in DOMAIN urls => urls'[i] \in Admitted
               /\ i \notin DOMAIN urls => /\ urls'[i] \in Elements(seeds) /\ admit(urls'[i])
                                         /\ urls'[i] \notin Admitted
    <2>1. CASE i \in DOMAIN urls
      <3>1. i \in 2..Len(urls)
        BY <1>4, <1>6, <2>1
      <3>2. QED
        BY <1>4, <1>5, <2>1, <3>1
    <2>2. CASE i \notin DOMAIN urls
      <3>1. urls'[i] \in Elements(kept) \ Elements(urls)
        BY <1>5, <1>6, <1>9, <2>2
      <3>2. Len(urls) < opt.maxUrls
        BY <1>1, <1>4, <1>5, <1>6, <1>9, <2>2
      <3>3. QED
        BY <1>2, <1>4, <2>2, <3>1, <3>2
    <2>3. QED
      BY <2>1, <2>2
  <1>10. Len(urls') < opt.maxUrls => Admitted \subseteq Elements(urls')
    BY <1>1, <1>4, <1>5, <1>6
  <1>11. \A i, j \in 2..Len(urls') : i < j /\ urls'[j] \in Admitted => urls'[i] \in Admitted
    <2>1. \A i, j \in 2..Len(urls') : i < j /\ j \in DOMAIN urls => i \in DOMAIN urls
      BY <1>4, <1>6
    <2>2. QED
      BY <1>9, <2>1
  <1>12. /\ Admitted' = Admitted /\ \A u : admit(u)' = admit(u)
         /\ Elements(urls)' = Elements(urls') /\ Elements(seeds)' = Elements(seeds)
    BY <1>1, MapCarried DEF admit, Elements
  <1>13. Complete'
    BY <1>1, <1>5, <1>7, <1>8, <1>9, <1>10, <1>11, <1>12 DEF Complete
  <1>14. InventoryIsComplete'
    BY <1>13, CompleteInventory, PTL
  <1>15. QED
    BY <1>1, <1>14 DEF MapInv

(* Where the inventory and its document stay, so does what holds of them.  *)
LEMMA MapStays ==
  ASSUME MapInv, callVars' = callVars, UNCHANGED <<doc, urls>>,
         opt.mode # "crawl" /\ pc' \in {"request", "walk", "scraped"} => at'.url = Seed,
         opt.mode = "map" =>
           /\ pc' # "begin" /\ (pc' # "done" => opt.maxUrls \in Nat \ {0})
           /\ pc' \in {"request", "walk", "scraped"} => pc \in {"begin", "request", "walk", "scraped"}
           /\ pc' \in {"walk", "scraped"} => doc \in UrlType
           /\ pc' \in {"map walk", "mapped"} => pc \in {"map walk", "mapped"}
           /\ pc' = "done" => pc \in {"begin", "request", "walk", "scraped"}
  PROVE  MapInv'
  <1>1. opt' = opt /\ doc' = doc /\ urls' = urls
    BY DEF callVars
  <1>2. LinksListed => LinksListed'
    BY <1>1, MapCarried DEF LinksListed
  <1>3. urls = << >> => InventoryIsComplete'
    BY <1>1 DEF InventoryIsComplete
  <1>4. QED
    BY <1>1, <1>2, <1>3 DEF MapInv

LEMMA MapStep ==
  ASSUME CrawlInv, WalkInv, MapInv, DiscoveryAssumption, [Next]_vars
  PROVE  MapInv'
  <1>0. Met /\ Phases
    BY DEF CrawlInv
  <1>1. CASE MapHarvests
    BY <1>1, HarvestsMap
  <1>2. CASE MapEnds
    BY <1>2, EndsMap
  <1>3. CASE ScrapeArrives
    <2>1. /\ callVars' = callVars /\ opt' = opt /\ pc = "request" /\ pc' \in {"walk", "scraped"} /\ at' = at /\ urls' = urls
          /\ doc' = Final(at.url)
      BY <1>3 DEF ScrapeArrives, RequestArrives, callVars
    <2>2. CASE opt.mode = "map"
      <3>1. at.url = Seed /\ urls = << >> /\ opt.maxUrls \in Nat \ {0}
        BY <2>1, <2>2 DEF MapInv
      <3>2. doc' \in UrlType
        BY <1>0, <2>1, <3>1, DocumentOf DEF DiscoveryAssumption
      <3>3. QED
        BY <2>1, <3>1, <3>2 DEF MapInv
    <2>3. CASE opt.mode # "map"
      BY <2>1, <2>3 DEF MapInv
    <2>4. QED
      BY <2>2, <2>3
  <1>4. CASE BeginScrape
    <2>1. /\ callVars' = callVars /\ opt' = opt /\ pc = "begin" /\ pc' = "request" /\ at'.url = Seed /\ urls' = urls
          /\ InBounds
      BY <1>4 DEF BeginScrape, callVars
    <2>2. opt.mode = "map" => opt.maxUrls \in Nat \ {0}
      BY <2>1 DEF InBounds, DiscoveryAssumption
    <2>3. QED
      BY <2>1, <2>2 DEF MapInv
  <1>5. ASSUME opt.mode # "map", callVars' = callVars, at' = at \/ opt.mode = "crawl",
               opt.mode # "crawl" /\ pc' \in {"request", "walk", "scraped"} => pc \in {"request", "walk", "scraped"}
        PROVE  MapInv'
    BY <1>5 DEF MapInv, callVars
  <1>6. ASSUME BeginCrawl \/ CrawlEnds \/ CrawlTakes \/ CrawlHarvests PROVE MapInv'
    <2>1. callVars' = callVars /\ opt.mode = "crawl"
      BY <1>0, <1>6 DEF BeginCrawl, CrawlEnds, CrawlTakes, CrawlHarvests, Phases
    <2>2. QED
      BY <1>5, <2>1
  <1>7. ASSUME StartFollowing \/ ChainEnds \/ ChainGrows \/ ChainFails PROVE MapInv'
    <2>1. /\ callVars' = callVars /\ opt.mode = "scrape" /\ at' = at
          /\ pc' \in {"follow", "done"} \/ pc' = pc
      BY <1>0, <1>7 DEF StartFollowing, ChainEnds, ChainGrows, ChainFails, RequestFails, End, Phases
    <2>2. QED
      BY <1>5, <2>1
  <1>8. CASE Refuse
    <2>1. callVars' = callVars /\ UNCHANGED <<doc, urls>> /\ pc = "begin" /\ pc' = "done"
      BY <1>8 DEF Refuse, End
    <2>2. QED
      BY <2>1, MapStays
  <1>9. CASE ScrapeFails
    <2>1. callVars' = callVars /\ UNCHANGED <<doc, urls>> /\ pc = "request" /\ pc' = "done"
      BY <1>9 DEF ScrapeFails, RequestFails, End
    <2>2. QED
      BY <2>1, MapStays
  <1>10. ASSUME WalkEnds \/ WalkRevisits \/ WalkReads \/ WalkTimesOut PROVE MapInv'
    <2>1. /\ callVars' = callVars /\ UNCHANGED <<doc, urls, at>>
          /\ \/ pc = "walk" /\ pc' \in {"walk", "scraped", "done"}
             \/ pc = "map walk" /\ pc' \in {"map walk", "mapped"}
      BY <1>10 DEF WalkEnds, WalkRevisits, WalkReads, WalkTimesOut, AfterWalk, Walking, End
    <2>2. opt.mode = "map" => opt.maxUrls \in Nat \ {0} /\ (pc = "walk" => doc \in UrlType)
      BY <2>1 DEF MapInv
    <2>3. opt.mode # "crawl" /\ pc = "walk" => at'.url = Seed
      BY <2>1 DEF MapInv
    <2>4. QED
      BY <2>1, <2>2, <2>3, MapStays
  <1>11. CASE UNCHANGED vars
    <2>0. callVars' = callVars /\ UNCHANGED <<doc, urls, at, pc>> /\ walkVars' = walkVars
      BY <1>11 DEF vars
    <2>1. callVars' = callVars /\ UNCHANGED <<doc, urls, at, pc, seeds>> /\ opt' = opt
      BY <2>0 DEF walkVars, callVars
    <2>2. Complete => Complete'
      <3>1. /\ Admitted' = Admitted /\ \A u : admit(u)' = admit(u)
            /\ Elements(urls)' = Elements(urls) /\ Elements(seeds)' = Elements(seeds)
        BY <2>1, MapCarried DEF admit, Elements
      <3>2. QED
        BY <2>1, <3>1 DEF Complete
    <2>3. InventoryIsComplete => InventoryIsComplete'
      BY <2>2, CompleteInventory, PTL
    <2>4. LinksListed => LinksListed'
      BY <2>1, MapCarried DEF LinksListed
    <2>5. QED
      BY <2>1, <2>3, <2>4 DEF MapInv
  <1>12. QED
    BY <1>1, <1>2, <1>3, <1>4, <1>6, <1>7, <1>8, <1>9, <1>10, <1>11 DEF Next

LEMMA LossInit ==
  ASSUME Init, DiscoveryAssumption
  PROVE  WalkInv /\ MapInv
  <1>1. pc = "begin" /\ urls = << >> /\ docs = {} /\ seeds = << >> /\ stack = << >> /\ Known
    BY DEF Init, Known
  <1>2. Elements(seeds) = {} /\ Once(seeds) /\ Len(seeds) = 0 /\ seeds \in Seq(SitemapUrl)
    BY <1>1 DEF Elements, Once
  <1>3. << >> \in Seq({})
    OBVIOUS
  <1>4. stack \in Seq(Elements(stack))
    BY <1>1, <1>3, OwnElements
  <1>5. IsFiniteSet({}) /\ Cardinality({}) = 0 /\ 0 <= MaxSitemaps /\ 0 <= MaxSeeds
    BY FS_EmptySet DEF DiscoveryAssumption
  <1>6. QED
    BY <1>1, <1>2, <1>4, <1>5 DEF WalkInv, MapInv, Walking

LEMMA NothingLost ==
  ASSUME CrawlInv, WalkInv, MapInv
  PROVE  NothingIsLost
  <1>1. InventoryIsComplete
    <2>1. CASE opt.mode = "map" /\ pc \in {"map walk", "mapped"}
      BY <2>1, ListedIsComplete DEF MapInv
    <2>2. CASE opt.mode = "map" /\ pc \notin {"map walk", "mapped"}
      BY <2>2 DEF MapInv, CrawlInv, Phases, InventoryIsComplete
    <2>3. CASE opt.mode # "map"
      BY <2>3 DEF InventoryIsComplete
    <2>4. QED
      BY <2>1, <2>2, <2>3
  <1>2. WalkLosesNothing
    <2>1. /\ ToSet(seeds) = Elements(seeds) /\ ToSet(stack) = Elements(stack)
          /\ \A d : ToSet(Named(d).seeds) = Elements(Named(d).seeds) /\ ToSet(Named(d).nested) = Elements(Named(d).nested)
      BY DEF ToSet, Elements
    <2>2. UNION {ToSet(Named(d).seeds) : d \in docs} = Listed
      BY <2>1 DEF Listed
    <2>3. Cardinality(Elements(seeds)) = Len(seeds)
      BY OnceCounts DEF WalkInv
    <2>4. QED
      BY <2>1, <2>2, <2>3 DEF WalkInv, WalkLosesNothing
  <1>3. QED
    BY <1>1, <1>2 DEF NothingIsLost

(* The walk over sitemaps stays within both caps and keeps every seed and  *)
(* every nested document it met, and the inventory lists the seed, its     *)
(* links and sitemap entries once and in that order, all links if they     *)
(* fit: discover_sitemap_urls() keeps a set of what it has seen, and       *)
(* push_url() refuses what is listed or does not fit.                      *)
THEOREM NothingGetsLost == Spec => []NothingIsLost
  <1>1. Init => CrawlInv /\ WalkInv /\ MapInv
    BY CrawlInit, LossInit, DiscoveryAssumption
  <1>2. CrawlInv /\ WalkInv /\ MapInv /\ [Next]_vars => (CrawlInv /\ WalkInv /\ MapInv)'
    BY CrawlStep, WalkStep, MapStep, DiscoveryAssumption
  <1>3. CrawlInv /\ WalkInv /\ MapInv => NothingIsLost
    BY NothingLost
  <1>4. QED
    BY <1>1, <1>2, <1>3, PTL DEF Spec

-----------------------------------------------------------------------------
(* The policy's record: while the call goes on, nothing in it is denied;   *)
(* what is listed, followed or about to be listed is in it with the        *)
(* document it came from.                                                  *)
OnRecord(url, record) == \A u \in {url, Final(url)} : [url |-> u, disposition |-> Consult(u)] \in record
NoneDenied(record) == \A h \in record : h.disposition # "denied"

PolicyInv ==
  /\ chain \in Seq(Elements(chain))
  /\ opt.robots = "enforce" =>
      /\ outcome # "failed" => NoneDenied(hops)
      /\ pc \in {"walk", "scraped"} => OnRecord(at.url, hops)
      /\ \A i \in DOMAIN pages : OnRecord(pages[i].url, hops)
      /\ \A i \in DOMAIN chain : OnRecord(chain[i], hops)

LEMMA PolicyCarried ==
  ASSUME callVars' = callVars
  PROVE  PolicyInv' <=>
           /\ chain' \in Seq(Elements(chain'))
           /\ opt.robots = "enforce" =>
               /\ outcome' # "failed" => NoneDenied(hops')
               /\ pc' \in {"walk", "scraped"} => OnRecord(at'.url, hops')
               /\ \A i \in DOMAIN pages' : OnRecord(pages'[i].url, hops')
               /\ \A i \in DOMAIN chain' : OnRecord(chain'[i], hops')
  <1>1. opt' = opt /\ \A u : Final(u)' = Final(u)
    BY SameCall
  <1>2. \A u : Consult(u)' = Consult(u)
    BY DEF Consult, Robots, Dispositions, callVars
  <1>3. /\ \A i : OnRecord(pages[i].url, hops)' <=> OnRecord(pages'[i].url, hops')
        /\ \A i : OnRecord(chain[i], hops)' <=> OnRecord(chain'[i], hops')
        /\ OnRecord(at.url, hops)' <=> OnRecord(at'.url, hops')
    BY <1>1, <1>2 DEF OnRecord
  <1>4. Elements(chain)' = Elements(chain') /\ (NoneDenied(hops)' <=> NoneDenied(hops'))
    BY DEF Elements, NoneDenied
  <1>5. QED
    BY <1>1, <1>3, <1>4 DEF PolicyInv

(* A request that arrives was consulted on both its documents, and neither *)
(* was denied.                                                             *)
LEMMA ArrivesOnRecord ==
  ASSUME NEW url, RequestArrives(url), opt.robots = "enforce"
  PROVE  OnRecord(url, hops') /\ hops \subseteq hops' /\ (NoneDenied(hops) => NoneDenied(hops'))
  <1>1. ~Fails(url) /\ ~Fails(Final(url)) /\ hops' = hops \cup Checked(url)
    BY DEF RequestArrives, Arrives
  <1>2. \A u \in {url, Final(url)} : ~PolicyHangs(u) /\ Consult(u) # "denied"
    BY <1>1 DEF Fails, Refused
  <1> DEFINE entry(u) == [url |-> u, disposition |-> Consult(u)]
  <1>3. Checked(url) = {entry(u) : u \in {v \in {url, Final(url)} : ~PolicyHangs(v)}}
    BY <1>1 DEF Checked
  <1>4. \A u \in {url, Final(url)} : entry(u).disposition # "denied"
    BY <1>2
  <1>5. \A u \in {url, Final(url)} : entry(u) \in Checked(url)
    BY <1>2, <1>3
  <1>6. \A h \in Checked(url) : h.disposition # "denied"
    BY <1>3, <1>4
  <1>7. QED
    BY <1>1, <1>5, <1>6 DEF OnRecord, NoneDenied

(* What is on record stays there.                                          *)
LEMMA StaysOnRecord ==
  ASSUME NEW record, NEW later, record \subseteq later
  PROVE  \A u : OnRecord(u, record) => OnRecord(u, later)
  BY DEF OnRecord

(* A step that asks for nothing, or whose request fails, puts nothing on   *)
(* the lists.                                                              *)
LEMMA PolicyStays ==
  ASSUME PolicyInv, callVars' = callVars, UNCHANGED chain,
         pages' = pages \/ pages' = << >>,
         hops' = hops \/ (hops \subseteq hops' /\ outcome' = "failed"),
         outcome' = outcome \/ outcome = "none",
         pc' \in {"walk", "scraped"} => pc \in {"walk", "scraped"} /\ at' = at
  PROVE  PolicyInv'
  <1>1. CASE opt.robots = "enforce"
    <2>1. hops \subseteq hops'
      OBVIOUS
    <2>2. \A u : OnRecord(u, hops) => OnRecord(u, hops')
      BY <2>1, StaysOnRecord, Zenon
    <2>3. outcome' # "failed" => NoneDenied(hops')
      BY <1>1 DEF PolicyInv
    <2>4. pc' \in {"walk", "scraped"} => OnRecord(at'.url, hops')
      BY <1>1, <2>2 DEF PolicyInv
    <2>5. \A i \in DOMAIN pages' : OnRecord(pages'[i].url, hops')
      <3>1. DOMAIN << >> = {}
        OBVIOUS
      <3>2. CASE pages' = pages
        BY <1>1, <2>2, <3>2 DEF PolicyInv
      <3>3. CASE pages' = << >>
        BY <3>1, <3>3
      <3>4. QED
        BY <3>2, <3>3
    <2>6. chain' \in Seq(Elements(chain')) /\ \A i \in DOMAIN chain' : OnRecord(chain'[i], hops')
      BY <1>1, <2>2 DEF PolicyInv
    <2>7. QED
      BY <2>3, <2>4, <2>5, <2>6, PolicyCarried
  <1>2. CASE opt.robots # "enforce"
    BY <1>2, PolicyCarried DEF PolicyInv
  <1>3. QED
    BY <1>1, <1>2

LEMMA Appended ==
  ASSUME NEW T, NEW s \in Seq(T), NEW e
  PROVE  LET t == Append(s, e)
         IN /\ t \in Seq(Elements(t))
            /\ \A i \in DOMAIN t : (i \in DOMAIN s /\ t[i] = s[i]) \/ t[i] = e
  <1>1. s \in Seq(T \cup {e}) /\ e \in T \cup {e}
    BY SeqMonotonic
  <1>2. Append(s, e) \in Seq(T \cup {e})
    BY <1>1, AppendProperties
  <1>3. /\ Len(s) \in Nat /\ DOMAIN s = 1..Len(s) /\ DOMAIN Append(s, e) = 1..(Len(s) + 1)
        /\ \A i \in 1..Len(s) : Append(s, e)[i] = s[i]
        /\ Append(s, e)[Len(s) + 1] = e
    BY <1>1, AppendProperties, LenProperties
  <1>4. Append(s, e) \in Seq(Elements(Append(s, e)))
    BY <1>2, OwnElements
  <1>5. QED
    BY <1>3, <1>4

(* The scrape of a page whose request arrives, and a link that is followed.*)
LEMMA PolicyArrives ==
  ASSUME PolicyInv, callVars' = callVars, NEW url, RequestArrives(url), UNCHANGED <<pages, outcome>>,
         at' = at, \/ UNCHANGED chain /\ url = at.url
                   \/ chain' = Append(chain, url) /\ pc' \notin {"walk", "scraped"}
  PROVE  PolicyInv'
  <1>1. /\ chain' \in Seq(Elements(chain'))
        /\ \A i \in DOMAIN chain' : (i \in DOMAIN chain /\ chain'[i] = chain[i]) \/ chain'[i] = url
    <2>1. chain \in Seq(Elements(chain))
      BY DEF PolicyInv
    <2>2. CASE UNCHANGED chain
      BY <2>1, <2>2
    <2>3. CASE chain' = Append(chain, url)
      BY <2>1, <2>3, Appended
    <2>4. QED
      BY <2>2, <2>3
  <1>2. CASE opt.robots = "enforce"
    <2>1. OnRecord(url, hops') /\ hops \subseteq hops' /\ (NoneDenied(hops) => NoneDenied(hops'))
      BY <1>2, ArrivesOnRecord
    <2>2. \A u : OnRecord(u, hops) => OnRecord(u, hops')
      BY <2>1, StaysOnRecord, Zenon
    <2>3. \A i \in DOMAIN chain' : OnRecord(chain'[i], hops')
      BY <1>1, <1>2, <2>1, <2>2 DEF PolicyInv
    <2>4. \A i \in DOMAIN pages' : OnRecord(pages'[i].url, hops')
      BY <1>2, <2>2 DEF PolicyInv
    <2>5. pc' \in {"walk", "scraped"} => OnRecord(at'.url, hops')
      BY <2>1
    <2>6. outcome' # "failed" => NoneDenied(hops')
      BY <1>2, <2>1 DEF PolicyInv
    <2>7. QED
      BY <1>1, <2>3, <2>4, <2>5, <2>6, PolicyCarried
  <1>3. CASE opt.robots # "enforce"
    BY <1>1, <1>3, PolicyCarried
  <1>4. QED
    BY <1>2, <1>3

(* The page that was scraped is listed, or the chain begins with it.       *)
LEMMA PolicyLists ==
  ASSUME PolicyInv, callVars' = callVars, pc = "scraped", pc' \notin {"walk", "scraped"},
         UNCHANGED hops, outcome = "none" /\ outcome' \in {"none", "ok"},
         \/ UNCHANGED chain /\ \E T : pages \in Seq(T)
              /\ \E e : e.url = at.url /\ pages' = Append(pages, e)
         \/ UNCHANGED pages /\ chain' \in {chain, <<at.url>>}
  PROVE  PolicyInv'
  <1> DEFINE first == <<at.url>>
  <1>1. /\ first \in Seq({at.url}) /\ DOMAIN first = {1} /\ first[1] = at.url
    OBVIOUS
  <1>2. first \in Seq(Elements(first))
    BY <1>1, OwnElements
  <1> HIDE DEF first
  <1>3. /\ chain' \in Seq(Elements(chain'))
        /\ \A i \in DOMAIN chain' : (i \in DOMAIN chain /\ chain'[i] = chain[i]) \/ chain'[i] = at.url
    <2>1. chain' = chain \/ chain' = first
      BY DEF first
    <2>2. QED
      BY <1>1, <1>2, <2>1 DEF PolicyInv
  <1>4. \A i \in DOMAIN pages' : (i \in DOMAIN pages /\ pages'[i] = pages[i]) \/ pages'[i].url = at.url
    <2>1. CASE UNCHANGED pages
      BY <2>1
    <2>2. CASE \E T : pages \in Seq(T) /\ \E e : e.url = at.url /\ pages' = Append(pages, e)
      <3>1. PICK T, e : pages \in Seq(T) /\ e.url = at.url /\ pages' = Append(pages, e)
        BY <2>2
      <3>2. QED
        BY <3>1, Appended
    <2>3. QED
      BY <2>1, <2>2
  <1>5. CASE opt.robots = "enforce"
    <2>1. OnRecord(at.url, hops') /\ NoneDenied(hops')
      BY <1>5 DEF PolicyInv
    <2>2. \A i \in DOMAIN chain' : OnRecord(chain'[i], hops')
      BY <1>3, <1>5, <2>1 DEF PolicyInv
    <2>3. \A i \in DOMAIN pages' : OnRecord(pages'[i].url, hops')
      BY <1>4, <1>5, <2>1 DEF PolicyInv
    <2>4. QED
      BY <1>3, <2>1, <2>2, <2>3, PolicyCarried
  <1>6. CASE opt.robots # "enforce"
    BY <1>3, <1>6, PolicyCarried
  <1>7. QED
    BY <1>5, <1>6

LEMMA PolicyStep ==
  ASSUME CrawlInv, PolicyInv, [Next]_vars
  PROVE  PolicyInv'
  <1>1. pc # "done" => outcome = "none"
    BY DEF CrawlInv, Phases
  <1>2. ASSUME NEW url, RequestFails(url)
        PROVE  hops \subseteq hops' /\ outcome' = "failed" /\ pc' = "done"
    BY <1>2 DEF RequestFails, End
  <1>3. CASE Refuse \/ BeginCrawl \/ BeginScrape
    BY <1>1, <1>3, PolicyStays DEF Refuse, BeginCrawl, BeginScrape, End
  <1>4. CASE ScrapeFails
    <2>1. RequestFails(at.url) /\ callVars' = callVars /\ UNCHANGED chain /\ pages' = << >> /\ pc = "request"
      BY <1>4 DEF ScrapeFails
    <2>2. QED
      BY <1>1, <1>2, <2>1, PolicyStays
  <1>5. CASE ScrapeArrives
    <2>1. RequestArrives(at.url) /\ callVars' = callVars /\ UNCHANGED <<chain, pages, outcome, at>>
      BY <1>5 DEF ScrapeArrives
    <2>2. QED
      BY <2>1, PolicyArrives
  <1>6. CASE WalkEnds \/ WalkRevisits \/ WalkReads \/ WalkTimesOut
    <2>1. callVars' = callVars /\ UNCHANGED <<chain, hops, at>> /\ Walking
      BY <1>6 DEF WalkEnds, WalkRevisits, WalkReads, WalkTimesOut
    <2>2. pages' = pages \/ pages' = << >>
      BY <1>6 DEF WalkEnds, WalkRevisits, WalkReads, WalkTimesOut
    <2>3. outcome = "none"
      BY <1>1, <2>1 DEF Walking
    <2>4. pc' \in {"walk", "scraped"} => pc \in {"walk", "scraped"}
      <3>1. CASE pc = "walk"
        BY <3>1
      <3>2. CASE pc = "map walk"
        <4>1. pc' = "mapped" \/ pc' = pc
          BY <1>6, <3>2 DEF WalkEnds, WalkRevisits, WalkReads, WalkTimesOut, AfterWalk
        <4>2. QED
          BY <3>2, <4>1
      <3>3. QED
        BY <2>1, <3>1, <3>2 DEF Walking
    <2>5. QED
      BY <2>1, <2>2, <2>3, <2>4, PolicyStays
  <1>7. CASE CrawlEnds
    BY <1>1, <1>7, PolicyStays DEF CrawlEnds, End
  <1>8. CASE CrawlTakes
    <2>1. callVars' = callVars /\ UNCHANGED <<chain, hops, pages, outcome>> /\ pc = "crawl" /\ pc' \in {"crawl", "request"}
      BY <1>8 DEF CrawlTakes
    <2>2. QED
      BY <2>1, PolicyStays
  <1>9. CASE CrawlHarvests
    <2>1. /\ callVars' = callVars /\ UNCHANGED <<chain, hops, outcome>> /\ pc = "scraped" /\ pc' = "crawl"
          /\ pages' = Append(pages, [url |-> at.url, depth |-> at.depth])
      BY <1>9 DEF CrawlHarvests
    <2>2. pages \in Seq(EntryType)
      BY DEF CrawlInv, PagesInOrder
    <2>3. [url |-> at.url, depth |-> at.depth].url = at.url
      OBVIOUS
    <2>4. \E e : e.url = at.url /\ pages' = Append(pages, e)
      BY <2>1, <2>3
    <2>5. QED
      BY <1>1, <2>1, <2>2, <2>4, PolicyLists
  <1>10. CASE StartFollowing
    <2>1. /\ callVars' = callVars /\ UNCHANGED <<pages, hops>> /\ pc = "scraped" /\ pc' \in {"follow", "done"}
          /\ chain' \in {chain, <<at.url>>} /\ outcome' \in {outcome, "ok"}
      BY <1>10 DEF StartFollowing, End
    <2>2. QED
      BY <1>1, <2>1, PolicyLists
  <1>11. CASE ChainEnds
    BY <1>1, <1>11, PolicyStays DEF ChainEnds, End
  <1>12. CASE ChainGrows
    <2>1. PICK url : RequestArrives(url) /\ chain' = Append(chain, url)
      BY <1>12 DEF ChainGrows
    <2>2. callVars' = callVars /\ UNCHANGED <<pages, outcome, at>> /\ pc' = "follow"
      BY <1>12 DEF ChainGrows
    <2>3. QED
      BY <2>1, <2>2, PolicyArrives
  <1>13. CASE ChainFails
    <2>1. PICK url : RequestFails(url)
      BY <1>13 DEF ChainFails
    <2>2. callVars' = callVars /\ UNCHANGED <<chain, pages>> /\ pc = "follow"
      BY <1>13 DEF ChainFails
    <2>3. QED
      BY <1>1, <1>2, <2>1, <2>2, PolicyStays
  <1>14. CASE MapHarvests \/ MapEnds
    <2>1. /\ callVars' = callVars /\ UNCHANGED <<chain, pages, hops>> /\ pc \in {"scraped", "mapped"}
          /\ pc' \in {"map walk", "done"}
      BY <1>14 DEF MapHarvests, MapEnds, End
    <2>2. QED
      BY <1>1, <2>1, PolicyStays
  <1>15. CASE UNCHANGED vars
    BY <1>15, PolicyStays DEF vars
  <1>16. QED
    BY <1>3, <1>4, <1>5, <1>6, <1>7, <1>8, <1>9, <1>10, <1>11, <1>12, <1>13, <1>14, <1>15 DEF Next

(* Under an enforced policy every document that is listed or followed, and *)
(* the one it moved to, was consulted, and a denied one ends the call in   *)
(* failure before anything comes of it: DocumentPolicy::check() is asked   *)
(* before each request and each redirect.                                  *)
THEOREM DeniedIsLeft == Spec => []DeniedIsNeverScraped
  <1>1. Init => CrawlInv /\ PolicyInv
    <2>1. Init => PolicyInv
      <3>1. << >> \in Seq(Elements(<< >>)) /\ DOMAIN << >> = {}
        OBVIOUS
      <3>2. QED
        BY <3>1 DEF Init, PolicyInv, NoneDenied
    <2>2. QED
      BY <2>1, CrawlInit, DiscoveryAssumption
  <1>2. CrawlInv /\ PolicyInv /\ [Next]_vars => (CrawlInv /\ PolicyInv)'
    BY CrawlStep, PolicyStep, DiscoveryAssumption
  <1>3. PolicyInv => DeniedIsNeverScraped
    <2>1. ToSet(chain) = {chain[i] : i \in DOMAIN chain}
      BY DEF ToSet
    <2>2. QED
      BY <2>1 DEF PolicyInv, DeniedIsNeverScraped, OnRecord, NoneDenied
  <1>4. QED
    BY <1>1, <1>2, <1>3, PTL DEF Spec

-----------------------------------------------------------------------------
(* A finite set of numbers has a largest one.                              *)
LEMMA LargestNumber ==
  ASSUME NEW S, IsFiniteSet(S), S \subseteq Int, S # {}
  PROVE  Max(S) \in S /\ \A y \in S : Max(S) >= y
  <1> DEFINE n == Cardinality(S)
             m == Nth(S, n)
  <1>1. n \in Nat /\ n # 0
    BY FS_CardinalityType, FS_EmptySet
  <1>2. n \in 1..n
    <2> HIDE DEF n
    <2> QED BY <1>1
  <1>3. m \in S /\ Ordinal(S, m) = n /\ \A y \in S : Ordinal(S, y) \in 1..n
    BY <1>2, OrdinalsCount
  <1> HIDE DEF m, n
  <1>4. ASSUME NEW y \in S PROVE m >= y
    <2>1. m \in Int /\ y \in Int
      BY <1>3
    <2>2. ASSUME m < y PROVE FALSE
      <3>1. Ordinal(S, m) < Ordinal(S, y)
        BY <1>3, <2>2, OrdinalGrows
      <3>2. QED
        BY <1>1, <1>3, <3>1
    <2>3. QED
      BY <2>1, <2>2
  <1>5. QED
    BY <1>3, <1>4, Zenon DEF Max

-----------------------------------------------------------------------------
(* Rules and what choosing between them comes to.                          *)
ValueType == [text : Seq(STRING), anchored : BOOLEAN]
RuleType == [allow : BOOLEAN, path : ValueType]

(* How long a rule is, is a number.                                        *)
LEMMA SpecificityIsNat ==
  ASSUME NEW rule \in RuleType
  PROVE  Specificity(rule) \in Nat
  <1> DEFINE text == rule.path.text
             I == {i \in DOMAIN text : text[i] # "*"}
  <1>1. text \in Seq(STRING)
    BY DEF RuleType, ValueType
  <1>2. DOMAIN text = 1..Len(text) /\ Len(text) \in Nat
    BY <1>1, LenProperties
  <1>3. IsFiniteSet(I)
    <2>1. IsFiniteSet(DOMAIN text)
      BY <1>2, FS_Interval
    <2>2. I \subseteq DOMAIN text
      OBVIOUS
    <2> HIDE DEF I, text
    <2>3. QED
      BY <2>1, <2>2, FS_Subset
  <1>4. Cardinality(I) \in Nat
    BY <1>3, FS_CardinalityType
  <1>5. Specificity(rule) = Cardinality(I) + (IF rule.path.anchored THEN 1 ELSE 0)
    BY DEF Specificity
  <1> HIDE DEF I
  <1>6. QED
    BY <1>4, <1>5

(* c is at least as good as rule: it is longer, or as long and not a deny  *)
(* rule against an allow rule.                                             *)
AsGood(c, rule) ==
  Specificity(c) >= Specificity(rule) /\ (Specificity(c) = Specificity(rule) /\ rule.allow => c.allow)

(* Being at least as good is reflexive and transitive.                     *)
LEMMA AsGoodOrders ==
  ASSUME NEW c \in RuleType, NEW d \in RuleType, NEW e \in RuleType
  PROVE  AsGood(c, c) /\ (AsGood(c, d) /\ AsGood(d, e) => AsGood(c, e))
  <1> DEFINE x == Specificity(c)
             y == Specificity(d)
             z == Specificity(e)
  <1>1. x \in Nat /\ y \in Nat /\ z \in Nat
    BY SpecificityIsNat
  <1> HIDE DEF x, y, z
  <1>2. x >= x /\ (x >= y /\ y >= z => x >= z /\ (x = z => x = y /\ y = z))
    BY <1>1
  <1>3. QED
    BY <1>2 DEF AsGood, x, y, z

(* A rule that supersedes another is at least as good, and the other way   *)
(* round where it does not.                                                *)
LEMMA SupersedesIsBetter ==
  ASSUME NEW c \in RuleType, NEW rule \in RuleType, c # NoRule
  PROVE  IF Supersedes(rule, c) THEN AsGood(rule, c) ELSE AsGood(c, rule)
  <1> DEFINE x == Specificity(c)
             y == Specificity(rule)
  <1>1. x \in Nat /\ y \in Nat
    BY SpecificityIsNat
  <1> HIDE DEF x, y
  <1>2. (y > x => y >= x /\ y # x) /\ (~(y > x) => x >= y) /\ (y = x => y >= x /\ x >= y)
    BY <1>1
  <1>3. c.allow \in BOOLEAN /\ rule.allow \in BOOLEAN
    BY DEF RuleType
  <1>4. QED
    BY <1>2, <1>3 DEF AsGood, Supersedes, x, y

Turned(rules, matching, n, c) == IF n \in matching /\ Supersedes(rules[n], c) THEN rules[n] ELSE c

(* The loop over the rules, turn by turn.                                  *)
LEMMA ChosenTurns ==
  ASSUME NEW rules \in Seq(RuleType), NEW matching
  PROVE  \E c \in [0..Len(rules) -> RuleType] :
           /\ c[0] = NoRule /\ \A n \in 1..Len(rules) : c[n] = Turned(rules, matching, n, c[n - 1])
           /\ Chosen(rules, matching) = c[Len(rules)]
  <1> DEFINE N == Len(rules)
             F == [n \in 1..N |-> [s \in RuleType |-> Turned(rules, matching, n, s)]]
             step(g) == [n \in 0..N |-> IF n = 0 THEN NoRule
                           ELSE IF n \in matching /\ Supersedes(rules[n], g[n - 1]) THEN rules[n] ELSE g[n - 1]]
             c == CHOOSE g : g = step(g)
  <1>1. N \in Nat /\ \A n \in 1..N : rules[n] \in RuleType
    BY LenProperties, ElementOfSeq
  <1>2. NoRule \in RuleType
    BY DEF NoRule, Value, RuleType, ValueType
  <1>3. F \in [1..N -> [RuleType -> RuleType]]
    BY <1>1 DEF Turned
  <1>4. ASSUME NEW g \in [0..N -> RuleType] PROVE step(g) = Loop(N, NoRule, F, g)
    <2>1. ASSUME NEW n \in 0..N, n # 0 PROVE F[n][g[n - 1]] = Turned(rules, matching, n, g[n - 1])
      <3>1. n \in 1..N /\ n - 1 \in 0..N
        BY <1>1, <2>1
      <3>2. g[n - 1] \in RuleType
        BY <1>4, <3>1
      <3>3. QED
        BY <3>1, <3>2
    <2> HIDE DEF F, N
    <2>2. step(g) = [n \in 0..N |-> IF n = 0 THEN NoRule ELSE Turned(rules, matching, n, g[n - 1])]
      BY DEF Turned
    <2>3. QED
      BY <2>1, <2>2 DEF Loop
  <1>5. PICK g : g \in [0..N -> RuleType] /\ g = Loop(N, NoRule, F, g)
    <2> HIDE DEF F, N
    <2>1. Looping(RuleType, N, NoRule, F)
      BY <1>1, <1>2, <1>3 DEF Looping
    <2>2. Runs(RuleType, N, NoRule, F)
      BY <2>1, LoopRuns, Zenon
    <2>3. QED
      BY <2>2, Zenon DEF Runs
  <1>6. c = step(c)
    <2>1. g = step(g)
      BY <1>4, <1>5
    <2> HIDE DEF step
    <2>2. QED
      BY <2>1
  <1>7. /\ DOMAIN c = 0..N /\ c[0] = NoRule
        /\ \A n \in 1..N : c[n] = Turned(rules, matching, n, c[n - 1])
    <2> HIDE DEF c, N
    <2>1. \A n \in 1..N : n \in 0..N /\ n # 0
      BY <1>1
    <2>2. 0 \in 0..N
      BY <1>1
    <2>3. QED
      BY <1>6, <2>1, <2>2 DEF Turned
  <1>8. \A n \in 0..N : c[n] \in RuleType
    <2> DEFINE P == {n \in 0..N : c[n] \in RuleType}
    <2> HIDE DEF c
    <2>1. 0 \in P
      BY <1>1, <1>2, <1>7
    <2>2. \A n \in 1..N : n - 1 \in P => n \in P
      <3> HIDE DEF N
      <3> QED BY <1>1, <1>7 DEF Turned
    <2>3. \A n \in 0..N : n \in P
      <3> HIDE DEF P, N
      <3> QED BY <1>1, <2>1, <2>2, LoopInduction
    <2>4. QED
      BY <2>3
  <1>9. Chosen(rules, matching) = c[N]
    BY DEF Chosen
  <1> HIDE DEF c, N
  <1>10. c = [n \in 0..N |-> c[n]]
    <2> QED BY <1>6
  <1>11. c \in [0..N -> RuleType]
    BY <1>8, <1>10
  <1>12. QED
    BY <1>7, <1>9, <1>11 DEF N

(* Of the rules that match, none is better than the one chosen.            *)
LEMMA ChosenIsBest ==
  ASSUME NEW rules \in Seq(RuleType), NEW matching, matching \subseteq DOMAIN rules,
         \A i \in DOMAIN rules : rules[i] # NoRule
  PROVE  /\ matching = {} => Chosen(rules, matching) = NoRule
         /\ matching # {} => /\ Chosen(rules, matching) \in {rules[i] : i \in matching}
                             /\ \A k \in matching : AsGood(Chosen(rules, matching), rules[k])
  <1> DEFINE N == Len(rules)
  <1>1. N \in Nat /\ DOMAIN rules = 1..N /\ \A n \in 1..N : rules[n] \in RuleType
    BY LenProperties, ElementOfSeq
  <1>2. PICK c \in [0..N -> RuleType] :
          /\ c[0] = NoRule /\ \A n \in 1..N : c[n] = Turned(rules, matching, n, c[n - 1])
          /\ Chosen(rules, matching) = c[N]
    BY ChosenTurns
  <1> DEFINE M(n) == {i \in matching : i <= n}
             Best(n) == /\ M(n) = {} => c[n] = NoRule
                        /\ M(n) # {} => /\ c[n] # NoRule /\ c[n] \in {rules[i] : i \in M(n)}
                                        /\ \A k \in M(n) : AsGood(c[n], rules[k])
             P == {n \in 0..N : Best(n)}
  <1> HIDE DEF N
  <1>3. 0 \in P
    <2>1. M(0) = {}
      BY <1>1
    <2> HIDE DEF M
    <2>2. QED
      BY <1>1, <1>2, <2>1
  <1>4. ASSUME NEW n \in 1..N, n - 1 \in P PROVE n \in P
    <2>1. n - 1 \in 0..N /\ n \in 0..N /\ Best(n - 1) /\ rules[n] \in RuleType /\ c[n - 1] \in RuleType
      BY <1>1, <1>2, <1>4
    <2>2. c[n] = Turned(rules, matching, n, c[n - 1])
      BY <1>2
    <2>3. CASE n \notin matching
      <3>1. M(n) = M(n - 1)
        BY <1>1, <2>3
      <3>2. c[n] = c[n - 1]
        BY <2>2, <2>3 DEF Turned
      <3>3. Best(n)
        <4> HIDE DEF M
        <4> QED BY <2>1, <3>1, <3>2
      <3>4. QED
        BY <2>1, <3>3
    <2>4. CASE n \in matching
      <3>1. M(n) = M(n - 1) \cup {n} /\ \A k \in M(n) : rules[k] \in RuleType /\ rules[k] # NoRule
        BY <1>1, <2>4
      <3>2. rules[n] # NoRule
        BY <1>1
      <3>3. CASE Supersedes(rules[n], c[n - 1])
        <4>1. c[n] = rules[n]
          BY <2>2, <2>4, <3>3 DEF Turned
        <4>2. AsGood(rules[n], rules[n])
          BY <2>1, AsGoodOrders
        <4>3. ASSUME NEW k \in M(n - 1) PROVE AsGood(rules[n], rules[k])
          <5>1. c[n - 1] # NoRule /\ AsGood(c[n - 1], rules[k])
            BY <2>1, <4>3
          <5>2. AsGood(rules[n], c[n - 1])
            BY <2>1, <3>3, <5>1, SupersedesIsBetter
          <5>3. rules[k] \in RuleType
            BY <3>1, <4>3
          <5>4. QED
            BY <2>1, <5>1, <5>2, <5>3, AsGoodOrders
        <4>4. Best(n)
          <5> HIDE DEF M
          <5> QED BY <3>1, <3>2, <4>1, <4>2, <4>3
        <4>5. QED
          BY <2>1, <4>4
      <3>4. CASE ~Supersedes(rules[n], c[n - 1])
        <4>1. c[n] = c[n - 1] /\ c[n - 1] # NoRule
          BY <2>2, <3>4 DEF Turned, Supersedes
        <4>2. AsGood(c[n - 1], rules[n])
          BY <2>1, <3>4, <4>1, SupersedesIsBetter
        <4>3. M(n - 1) # {}
          BY <2>1, <4>1
        <4>4. Best(n)
          <5> HIDE DEF M
          <5> QED BY <2>1, <3>1, <4>1, <4>2, <4>3
        <4>5. QED
          BY <2>1, <4>4
      <3>5. QED
        BY <3>3, <3>4
    <2>5. QED
      BY <2>3, <2>4
  <1>5. Best(N)
    <2>1. \A n \in 0..N : n \in P
      <3> HIDE DEF P
      <3> QED BY <1>1, <1>3, <1>4, LoopInduction
    <2>2. N \in 0..N
      BY <1>1
    <2>3. QED
      BY <2>1, <2>2
  <1>6. M(N) = matching
    BY <1>1
  <1> HIDE DEF M
  <1>7. QED
    BY <1>2, <1>5, <1>6

-----------------------------------------------------------------------------
(* The scan: where a spot looks in the pattern and in the path, whether it *)
(* ends there and how, and where it goes on otherwise.                     *)
PatternAt(spot) == spot.star + spot.taken + 1
PathAt(spot) == spot.from + spot.taken

Halts(pattern, path, spot) ==
  \/ PathAt(spot) > Len(path) \/ PatternAt(spot) > Len(pattern)
  \/ /\ pattern[PatternAt(spot)] # "*" /\ pattern[PatternAt(spot)] # path[PathAt(spot)]
     /\ spot.star = 0

Ruled(pattern, path, anchored, spot) ==
  IF PathAt(spot) > Len(path) THEN (\A i \in PatternAt(spot)..Len(pattern) : pattern[i] = "*") \/ ~anchored
  ELSE PatternAt(spot) > Len(pattern) /\ ~anchored

GoesOn(pattern, path, spot) ==
  IF pattern[PatternAt(spot)] = "*" THEN [star |-> PatternAt(spot), from |-> PathAt(spot), taken |-> 0]
  ELSE IF pattern[PatternAt(spot)] = path[PathAt(spot)] THEN [spot EXCEPT !.taken = @ + 1]
  ELSE Backtrack(spot)

(* Earlier wildcards outrank later ones, then where the last one took over *)
(* and then what was matched since.                                        *)
Ahead(pattern, path, spot) ==
  ((Len(pattern) - spot.star) * (Len(path) + 1) + (Len(path) + 1 - spot.from)) * (Len(path) + 1)
    + (Len(path) - spot.taken)

(* The fields of a spot.                                                   *)
LEMMA SpotFields ==
  ASSUME NEW L \in Nat, NEW M \in Nat, NEW spot \in [star : 0..L, from : 1..(M + 1), taken : 0..M]
  PROVE  /\ spot.star \in Nat /\ spot.from \in Nat /\ spot.taken \in Nat
         /\ spot.star <= L /\ spot.from >= 1 /\ spot.from <= M + 1 /\ spot.taken <= M
         /\ PatternAt(spot) \in Nat /\ PatternAt(spot) >= 1 /\ PathAt(spot) \in Nat /\ PathAt(spot) >= 1
         /\ PatternAt(spot) = spot.star + spot.taken + 1 /\ PathAt(spot) = spot.from + spot.taken
  BY DEF PatternAt, PathAt

(* What counts more outweighs whatever counts less.                        *)
LEMMA Weighs ==
  ASSUME NEW x \in Nat, NEW y \in Nat, NEW k \in Nat, NEW c \in Nat, NEW d \in Nat, x + 1 <= y, d < k
  PROVE  x * k + d < y * k + c
  <1>1. x * k \in Nat /\ y * k \in Nat /\ (x + 1) * k = x * k + k
    OBVIOUS
  <1>2. (x + 1) * k <= y * k
    <2>1. y - (x + 1) \in Nat
      OBVIOUS
    <2>2. (y - (x + 1)) * k \in Nat
      BY <2>1
    <2>3. (y - (x + 1)) * k = y * k - (x + 1) * k
      OBVIOUS
    <2>4. QED
      BY <1>1, <2>2, <2>3
  <1>3. QED
    BY <1>1, <1>2

(* Where the scan does not end it goes on to a spot of lower weight.       *)
LEMMA SpotsMove ==
  ASSUME NEW pattern \in Seq(STRING), NEW path \in Seq(STRING), NEW spot \in Spots(pattern, path)
  PROVE  /\ Ahead(pattern, path, spot) \in Nat
         /\ ~Halts(pattern, path, spot) =>
              /\ GoesOn(pattern, path, spot) \in Spots(pattern, path)
              /\ Ahead(pattern, path, GoesOn(pattern, path, spot)) < Ahead(pattern, path, spot)
  <1> DEFINE L == Len(pattern)
             M == Len(path)
             k == M + 1
             A == L - spot.star
             B == M + 1 - spot.from
             C == M - spot.taken
             p == PatternAt(spot)
             v == PathAt(spot)
             next == GoesOn(pattern, path, spot)
  <1>1. L \in Nat /\ M \in Nat
    BY LenProperties
  <1>2. Spots(pattern, path) = [star : 0..L, from : 1..(M + 1), taken : 0..M]
    BY DEF Spots
  <1> HIDE DEF L, M
  <1>3. /\ spot \in [star : 0..L, from : 1..(M + 1), taken : 0..M]
        /\ spot.star \in Nat /\ spot.from \in Nat /\ spot.taken \in Nat
        /\ spot.star <= L /\ spot.from >= 1 /\ spot.from <= M + 1 /\ spot.taken <= M
        /\ p = spot.star + spot.taken + 1 /\ v = spot.from + spot.taken
    BY <1>1, <1>2, SpotFields
  <1>4. A \in Nat /\ B \in Nat /\ C \in Nat /\ k \in Nat /\ k >= 1
    BY <1>1, <1>3, SMTT(40)
  <1>5. Ahead(pattern, path, spot) = (A * k + B) * k + C
    BY DEF Ahead, L, M
  <1>6. A * k + B \in Nat /\ (A * k + B) * k + C \in Nat
    <2> HIDE DEF A, B, C, k
    <2>1. \A a \in Nat, b \in Nat : a * b \in Nat /\ a + b \in Nat
      OBVIOUS
    <2>2. A * k \in Nat
      BY <1>4, <2>1, Zenon
    <2>3. A * k + B \in Nat
      BY <1>4, <2>1, <2>2, Zenon
    <2>4. (A * k + B) * k \in Nat
      BY <1>4, <2>1, <2>3, Zenon
    <2>5. QED
      BY <1>4, <2>1, <2>3, <2>4, Zenon
  <1>7. ASSUME ~Halts(pattern, path, spot)
        PROVE  next \in Spots(pattern, path) /\ Ahead(pattern, path, next) < (A * k + B) * k + C
    <2>1. v <= M /\ p <= L /\ p >= 1 /\ v >= 1
      BY <1>1, <1>3, <1>7 DEF Halts, L, M
    <2>2. CASE pattern[p] = "*"
      <3>1. next = [star |-> p, from |-> v, taken |-> 0]
        BY <2>2 DEF GoesOn
      <3>2. next \in Spots(pattern, path)
        <4>1. p \in 0..L /\ v \in 1..(M + 1) /\ 0 \in 0..M
          BY <1>1, <1>3, <2>1, SMTT(40)
        <4> HIDE DEF next, p, v
        <4>2. QED
          BY <1>2, <3>1, <4>1
      <3> DEFINE A2 == L - p
                 B2 == M + 1 - v
      <3>3. A2 \in Nat /\ B2 \in Nat /\ A2 + 1 <= A /\ B2 < k
        BY <1>1, <1>3, <2>1, SMTT(40)
      <3>4. Ahead(pattern, path, next) = (A2 * k + B2) * k + M
        <4>1. Ahead(pattern, path, next) = (A2 * k + B2) * k + (M - 0)
          BY <3>1 DEF Ahead, L, M
        <4>2. M - 0 = M
          BY <1>1
        <4>3. QED
          BY <4>1, <4>2
      <3> HIDE DEF A, B, C, A2, B2, next, p, v
      <3>5. A2 * k + B2 < A * k + B
        <4> HIDE DEF k
        <4> QED BY <1>4, <3>3, Weighs
      <3>6. A2 * k + B2 \in Nat
        <4> HIDE DEF k
        <4> QED BY <1>4, <3>3
      <3> DEFINE X == A * k + B
                 X2 == A2 * k + B2
      <3>7. X \in Nat /\ X2 \in Nat /\ X2 < X
        BY <1>6, <3>5, <3>6
      <3> HIDE DEF X, X2
      <3>8. X2 + 1 <= X /\ M < k
        BY <1>1, <3>7
      <3>9. X2 * k + M < X * k + C
        <4> HIDE DEF k
        <4> QED BY <1>1, <1>4, <3>7, <3>8, Weighs
      <3>10. QED
        BY <3>2, <3>4, <3>9 DEF X, X2
    <2>3. CASE pattern[p] # "*" /\ pattern[p] = path[v]
      <3>1. next = [spot EXCEPT !.taken = @ + 1]
        BY <2>3 DEF GoesOn
      <3>2. /\ next = [star |-> spot.star, from |-> spot.from, taken |-> spot.taken + 1]
            /\ spot.taken + 1 <= M
        <4>1. spot.taken + 1 <= M
          BY <1>1, <1>3, <2>1, SMTT(40)
        <4> HIDE DEF next, p, v
        <4>2. QED
          BY <1>3, <3>1, <4>1
      <3>3. next \in Spots(pattern, path)
        <4>1. spot.star \in 0..L /\ spot.from \in 1..(M + 1) /\ spot.taken + 1 \in 0..M
          BY <1>1, <1>3, <3>2, SMTT(40)
        <4> HIDE DEF next, p, v
        <4>2. QED
          BY <1>2, <3>2, <4>1
      <3>4. Ahead(pattern, path, next) = (A * k + B) * k + (M - (spot.taken + 1))
        BY <3>2 DEF Ahead, L, M
      <3>5. M - (spot.taken + 1) < C /\ M - (spot.taken + 1) \in Int /\ (A * k + B) * k \in Int
        <4>1. M - (spot.taken + 1) < C /\ M - (spot.taken + 1) \in Int
          BY <1>1, <1>3, SMTT(40)
        <4>2. (A * k + B) * k \in Int
          <5> DEFINE X == A * k + B
          <5>1. X \in Nat
            BY <1>6
          <5> HIDE DEF X, k
          <5>2. X * k \in Int
            BY <1>4, <5>1
          <5>3. QED
            BY <5>2 DEF X
        <4>3. QED
          BY <4>1, <4>2
      <3> DEFINE Y == (A * k + B) * k
                 C2 == M - (spot.taken + 1)
      <3>6. Y \in Int /\ C2 \in Int /\ C2 < C /\ C \in Int
        BY <1>4, <3>5
      <3> HIDE DEF Y, C2, C, next
      <3>7. Y + C2 < Y + C
        BY <3>6
      <3>8. QED
        BY <3>3, <3>4, <3>7 DEF Y, C2
    <2>4. CASE pattern[p] # "*" /\ pattern[p] # path[v]
      <3>1. next = Backtrack(spot)
        BY <2>4 DEF GoesOn
      <3>2. /\ next = [star |-> spot.star, from |-> spot.from + 1, taken |-> 0]
            /\ spot.from + 1 <= M + 1
        <4>1. spot.from + 1 <= M + 1
          BY <1>1, <1>3, <2>1
        <4> HIDE DEF next, p, v
        <4>2. QED
          BY <1>3, <3>1, <4>1 DEF Backtrack
      <3>3. next \in Spots(pattern, path)
        <4>1. spot.star \in 0..L /\ spot.from + 1 \in 1..(M + 1) /\ 0 \in 0..M
          BY <1>1, <1>3, <3>2, SMTT(40)
        <4> HIDE DEF next, p, v
        <4>2. QED
          BY <1>2, <3>2, <4>1
      <3> DEFINE B2 == M + 1 - (spot.from + 1)
      <3>4. B2 \in Nat /\ B2 + 1 <= B
        BY <1>1, <1>3, <3>2, SMTT(40)
      <3>5. Ahead(pattern, path, next) = (A * k + B2) * k + M
        <4>1. Ahead(pattern, path, next) = (A * k + B2) * k + (M - 0)
          BY <3>2 DEF Ahead, L, M
        <4>2. M - 0 = M
          BY <1>1
        <4>3. QED
          BY <4>1, <4>2
      <3> HIDE DEF A, B, C, B2, next, p, v
      <3>6. A * k \in Nat /\ M < k
        <4>1. M < k
          BY <1>1
        <4> HIDE DEF k
        <4>2. QED
          BY <1>4, <4>1
      <3> DEFINE X == A * k + B
                 X2 == A * k + B2
                 Z == A * k
      <3>7. X \in Nat /\ X2 \in Nat /\ X2 + 1 <= X
        <4>1. Z \in Nat
          BY <3>6
        <4>2. Z + B2 \in Nat /\ Z + B \in Nat /\ (Z + B2) + 1 <= Z + B
          <5> HIDE DEF Z
          <5> QED BY <1>4, <3>4, <4>1
        <4>3. QED
          BY <4>2
      <3> HIDE DEF X, X2, k
      <3>8. X2 * k + M < X * k + C
        BY <1>1, <1>4, <3>6, <3>7, Weighs
      <3>9. QED
        BY <3>3, <3>5, <3>8 DEF X, X2
    <2>5. QED
      BY <2>2, <2>3, <2>4
  <1> HIDE DEF A, B, C, k, next, p, v
  <1>8. QED
    BY <1>5, <1>6, <1>7 DEF next

(* So the scan ends, with the verdict of the spot where it does.           *)
LEMMA ScanRuns ==
  ASSUME NEW pattern \in Seq(STRING), NEW path \in Seq(STRING), NEW anchored \in BOOLEAN
  PROVE  /\ Scan(pattern, path, anchored) \in [Spots(pattern, path) -> BOOLEAN]
         /\ \A spot \in Spots(pattern, path) :
              Scan(pattern, path, anchored)[spot] =
                IF Halts(pattern, path, spot) THEN Ruled(pattern, path, anchored, spot)
                ELSE Scan(pattern, path, anchored)[GoesOn(pattern, path, spot)]
  <1> DEFINE D == Spots(pattern, path)
             halts == {spot \in D : Halts(pattern, path, spot)}
             verdict == [spot \in D |-> Ruled(pattern, path, anchored, spot)]
             onward == [spot \in D |-> GoesOn(pattern, path, spot)]
             rank == [spot \in D |-> Ahead(pattern, path, spot)]
             body(g, spot) ==
               LET p == spot.star + spot.taken + 1
                   v == spot.from + spot.taken
               IN IF v > Len(path) THEN (\A i \in p..Len(pattern) : pattern[i] = "*") \/ ~anchored
                  ELSE IF p > Len(pattern) THEN ~anchored
                  ELSE IF pattern[p] = "*" THEN g[[star |-> p, from |-> v, taken |-> 0]]
                  ELSE IF pattern[p] = path[v] THEN g[[spot EXCEPT !.taken = @ + 1]]
                  ELSE spot.star # 0 /\ g[Backtrack(spot)]
             step(g) == [spot \in D |-> body(g, spot)]
             scan == CHOOSE g : g = step(g)
  <1>1. rank \in [D -> Nat] /\ Lowers(D, rank, halts, onward)
    <2>1. \A spot \in D : Ahead(pattern, path, spot) \in Nat
      BY SpotsMove
    <2>2. \A spot \in D \ halts : onward[spot] \in D /\ rank[onward[spot]] < rank[spot]
      <3>1. ASSUME NEW spot \in D, ~Halts(pattern, path, spot)
            PROVE  onward[spot] \in D /\ rank[onward[spot]] < rank[spot]
        <4>1. onward[spot] = GoesOn(pattern, path, spot)
          OBVIOUS
        <4>2. onward[spot] \in D /\ Ahead(pattern, path, onward[spot]) < Ahead(pattern, path, spot)
          BY <3>1, <4>1, SpotsMove, Zenon
        <4> HIDE DEF onward, D
        <4>3. QED
          BY <3>1, <4>2
      <3> HIDE DEF onward, rank, D
      <3>2. QED
        BY <3>1
    <2> HIDE DEF D, halts, onward
    <2>3. QED
      BY <2>1, <2>2 DEF Lowers
  <1>2. verdict \in [D -> BOOLEAN]
    <2>1. \A spot \in D : Ruled(pattern, path, anchored, spot) \in BOOLEAN
      BY DEF Ruled
    <2> HIDE DEF D
    <2>2. QED
      BY <2>1
  <1>3. PICK g : g \in [D -> BOOLEAN] /\ g = Walked(D, halts, verdict, onward, g)
    <2> HIDE DEF D, halts, verdict, onward, rank
    <2>1. \E h : h \in [D -> BOOLEAN] /\ h = Walked(D, halts, verdict, onward, h)
      <3>1. Ranked(D, BOOLEAN, rank, halts, verdict, onward)
        BY <1>1, <1>2 DEF Ranked
      <3>2. QED
        BY <3>1, RankedRecursion, SMTT(20)
    <2>2. QED
      BY <2>1
  <1>4. \A spot \in D :
          g[spot] = IF Halts(pattern, path, spot) THEN Ruled(pattern, path, anchored, spot)
                    ELSE g[GoesOn(pattern, path, spot)]
    <2>1. ASSUME NEW spot \in D
          PROVE  g[spot] = IF spot \in halts THEN verdict[spot] ELSE g[onward[spot]]
      <3> HIDE DEF D, halts, verdict, onward
      <3> QED BY <1>3, <2>1 DEF Walked
    <2>2. \A spot \in D : (spot \in halts <=> Halts(pattern, path, spot)) /\ onward[spot] = GoesOn(pattern, path, spot)
             /\ verdict[spot] = Ruled(pattern, path, anchored, spot)
      OBVIOUS
    <2> HIDE DEF D, halts, verdict, onward
    <2>3. QED
      BY <2>1, <2>2
  <1>5. ASSUME NEW h, NEW spot \in D
        PROVE  /\ Halts(pattern, path, spot) => body(h, spot) = Ruled(pattern, path, anchored, spot)
               /\ ~Halts(pattern, path, spot) =>
                    body(h, spot) \in {h[GoesOn(pattern, path, spot)], TRUE /\ h[GoesOn(pattern, path, spot)]}
    <2> DEFINE p == PatternAt(spot)
               v == PathAt(spot)
    <2>1. body(h, spot) =
            IF v > Len(path) THEN (\A i \in p..Len(pattern) : pattern[i] = "*") \/ ~anchored
            ELSE IF p > Len(pattern) THEN ~anchored
            ELSE IF pattern[p] = "*" THEN h[[star |-> p, from |-> v, taken |-> 0]]
            ELSE IF pattern[p] = path[v] THEN h[[spot EXCEPT !.taken = @ + 1]]
            ELSE spot.star # 0 /\ h[Backtrack(spot)]
      BY DEF PatternAt, PathAt
    <2> HIDE DEF body, D
    <2>2. CASE v > Len(path)
      <3>1. body(h, spot) = ((\A i \in p..Len(pattern) : pattern[i] = "*") \/ ~anchored)
        BY <2>1, <2>2, Zenon
      <3>2. Halts(pattern, path, spot)
        BY <2>2 DEF Halts
      <3>3. Ruled(pattern, path, anchored, spot) = ((\A i \in p..Len(pattern) : pattern[i] = "*") \/ ~anchored)
        BY <2>2, Zenon DEF Ruled
      <3>4. QED
        BY <3>1, <3>2, <3>3, Zenon
    <2>3. CASE ~(v > Len(path)) /\ p > Len(pattern)
      <3>1. body(h, spot) = ~anchored
        BY <2>1, <2>3, Zenon
      <3>2. Halts(pattern, path, spot)
        BY <2>3 DEF Halts
      <3>3. Ruled(pattern, path, anchored, spot) = ~anchored
        BY <2>3, Zenon DEF Ruled
      <3>4. QED
        BY <3>1, <3>2, <3>3, Zenon
    <2>4. CASE ~(v > Len(path)) /\ ~(p > Len(pattern)) /\ pattern[p] = "*"
      BY <2>1, <2>4, Zenon DEF Halts, GoesOn
    <2>5. CASE ~(v > Len(path)) /\ ~(p > Len(pattern)) /\ pattern[p] # "*" /\ pattern[p] = path[v]
      BY <2>1, <2>5, Zenon DEF Halts, GoesOn
    <2>6. CASE ~(v > Len(path)) /\ ~(p > Len(pattern)) /\ pattern[p] # "*" /\ pattern[p] # path[v]
      <3>1. body(h, spot) = (spot.star # 0 /\ h[Backtrack(spot)])
        BY <2>1, <2>6, Zenon
      <3>2. CASE spot.star = 0
        <4>1. Halts(pattern, path, spot)
          BY <2>6, <3>2 DEF Halts
        <4>2. Ruled(pattern, path, anchored, spot) = FALSE
          BY <2>6, Zenon DEF Ruled
        <4>3. QED
          BY <3>1, <3>2, <4>1, <4>2, Zenon
      <3>3. CASE spot.star # 0
        <4>1. GoesOn(pattern, path, spot) = Backtrack(spot)
          BY <2>6, Zenon DEF GoesOn
        <4>2. (spot.star # 0) = TRUE
          BY <3>3
        <4>3. ~Halts(pattern, path, spot)
          BY <2>6, <3>3, Zenon DEF Halts
        <4>4. QED
          BY <3>1, <4>1, <4>2, <4>3, Zenon
      <3>4. QED
        BY <3>2, <3>3
    <2>7. QED
      BY <2>2, <2>3, <2>4, <2>5, <2>6
  <1>6. \A spot \in D : ~Halts(pattern, path, spot) => GoesOn(pattern, path, spot) \in D
    BY SpotsMove
  <1>7. g = step(g)
    <2>1. ASSUME NEW spot \in D PROVE g[spot] = body(g, spot)
      <3> HIDE DEF D, body
      <3>1. CASE Halts(pattern, path, spot)
        BY <1>4, <1>5, <2>1, <3>1
      <3>2. CASE ~Halts(pattern, path, spot)
        <4>1. g[GoesOn(pattern, path, spot)] \in BOOLEAN
          BY <1>3, <1>6, <2>1, <3>2
        <4>2. QED
          BY <1>4, <1>5, <2>1, <3>2, <4>1
      <3>3. QED
        BY <3>1, <3>2
    <2>2. g = [spot \in D |-> g[spot]]
      <3> HIDE DEF D
      <3> QED BY <1>3
    <2> HIDE DEF D, body
    <2>3. QED
      BY <2>1, <2>2
  <1>8. scan = step(scan)
    <2> HIDE DEF step
    <2> QED BY <1>7
  <1>9. Scan(pattern, path, anchored) = scan
    BY DEF Scan
  <1> HIDE DEF scan
  <1>10. scan = [spot \in D |-> scan[spot]] /\ \A spot \in D : scan[spot] = body(scan, spot)
    <2> HIDE DEF D, body
    <2> QED BY <1>8
  <1> DEFINE P == {spot \in D : scan[spot] \in BOOLEAN}
  <1>11. RankInduction(D, rank, P)
    <2>1. SUFFICES ASSUME NEW spot \in D, \A e \in D : rank[e] < rank[spot] => e \in P
                   PROVE  scan[spot] \in BOOLEAN
      BY DEF RankInduction
    <2> HIDE DEF body
    <2>2. CASE Halts(pattern, path, spot)
      <3>1. Ruled(pattern, path, anchored, spot) \in BOOLEAN
        BY DEF Ruled
      <3> HIDE DEF D
      <3>2. QED
        BY <1>5, <1>10, <2>1, <2>2, <3>1
    <2>3. CASE ~Halts(pattern, path, spot)
      <3> DEFINE next == GoesOn(pattern, path, spot)
      <3>1. next \in D /\ rank[next] < rank[spot]
        <4>1. next \in D
          <5> HIDE DEF D
          <5> QED BY <1>6, <2>1, <2>3
        <4>2. spot \notin halts /\ onward[spot] = next
          BY <2>3
        <4> HIDE DEF D, halts, onward, rank, next
        <4>3. QED
          BY <1>1, <2>1, <4>1, <4>2 DEF Lowers
      <3>2. next \in P
        <4> HIDE DEF D, rank, P, next
        <4> QED BY <2>1, <3>1
      <3>3. scan[next] \in BOOLEAN
        BY <3>2
      <3> HIDE DEF D, rank
      <3>4. QED
        BY <1>5, <1>10, <2>1, <2>3, <3>3
    <2>4. QED
      BY <2>2, <2>3
  <1>12. \A spot \in D : scan[spot] \in BOOLEAN
    <2>1. \A spot \in D : spot \in P
      <3> HIDE DEF D, rank, P
      <3> QED BY <1>1, <1>11, RankedInduction
    <2>2. QED
      BY <2>1
  <1>13. ASSUME NEW spot \in D
         PROVE scan[spot] = IF Halts(pattern, path, spot) THEN Ruled(pattern, path, anchored, spot)
                            ELSE scan[GoesOn(pattern, path, spot)]
    <2> HIDE DEF D, body
    <2>1. CASE Halts(pattern, path, spot)
      BY <1>5, <1>10, <1>13, <2>1
    <2>2. CASE ~Halts(pattern, path, spot)
      <3>1. scan[GoesOn(pattern, path, spot)] \in BOOLEAN
        BY <1>6, <1>12, <1>13, <2>2
      <3>2. QED
        BY <1>5, <1>10, <1>13, <2>2, <3>1
    <2>3. QED
      BY <2>1, <2>2
  <1>14. scan \in [D -> BOOLEAN]
    <2> HIDE DEF D
    <2> QED BY <1>10, <1>12
  <1> HIDE DEF D
  <1>15. QED
    BY <1>9, <1>13, <1>14 DEF D

-----------------------------------------------------------------------------
(* How far the path can be gone through with the first n symbols.          *)
LEMMA ReachTurns ==
  ASSUME NEW pattern \in Seq(STRING), NEW path \in Seq(STRING)
  PROVE  /\ Reach(pattern, path)[0] = {0}
         /\ \A n \in 0..Len(pattern) : Reach(pattern, path)[n] \subseteq 0..Len(path)
         /\ \A n \in 1..Len(pattern) :
              Reach(pattern, path)[n] = Further(Reach(pattern, path)[n - 1], pattern[n], path)
  <1> DEFINE N == Len(pattern)
             S == SUBSET (0..Len(path))
             F == [n \in 1..N |-> [from \in S |-> Further(from, pattern[n], path)]]
             step(g) == [n \in 0..N |-> IF n = 0 THEN {0} ELSE Further(g[n - 1], pattern[n], path)]
             c == CHOOSE g : g = step(g)
  <1>1. N \in Nat /\ Len(path) \in Nat
    BY LenProperties
  <1>2. {0} \in S
    BY <1>1
  <1>3. \A from, symbol : Further(from, symbol, path) \in S
    BY <1>1 DEF Further
  <1>4. F \in [1..N -> [S -> S]]
    <2> HIDE DEF S, N
    <2> QED BY <1>3
  <1>5. ASSUME NEW g \in [0..N -> S] PROVE step(g) = Loop(N, {0}, F, g)
    <2>1. ASSUME NEW n \in 0..N, n # 0 PROVE F[n][g[n - 1]] = Further(g[n - 1], pattern[n], path)
      <3>1. n \in 1..N /\ n - 1 \in 0..N
        BY <1>1, <2>1
      <3>2. g[n - 1] \in S
        <4> HIDE DEF S, N
        <4> QED BY <1>5, <3>1
      <3> HIDE DEF S
      <3>3. QED
        BY <3>1, <3>2
    <2> HIDE DEF F, N, S
    <2>2. QED
      BY <2>1 DEF Loop
  <1>6. PICK g : g \in [0..N -> S] /\ g = Loop(N, {0}, F, g)
    <2> HIDE DEF F, N, S
    <2>1. Looping(S, N, {0}, F)
      BY <1>1, <1>2, <1>4 DEF Looping
    <2>2. Runs(S, N, {0}, F)
      BY <2>1, LoopRuns, Zenon
    <2>3. QED
      BY <2>2, Zenon DEF Runs
  <1>7. c = step(c)
    <2>1. g = step(g)
      BY <1>5, <1>6
    <2> HIDE DEF step
    <2>2. QED
      BY <2>1
  <1>8. c[0] = {0} /\ \A n \in 1..N : c[n] = Further(c[n - 1], pattern[n], path)
    <2> HIDE DEF c, N
    <2>1. \A n \in 1..N : n \in 0..N /\ n # 0
      BY <1>1
    <2>2. 0 \in 0..N
      BY <1>1
    <2>3. QED
      BY <1>7, <2>1, <2>2
  <1>9. \A n \in 0..N : c[n] \in S
    <2>1. ASSUME NEW n \in 0..N PROVE c[n] \in S
      <3>1. n = 0 \/ n \in 1..N
        BY <1>1, <2>1
      <3> HIDE DEF S, c, N
      <3>2. QED
        BY <1>2, <1>3, <1>8, <3>1
    <2>2. QED
      BY <2>1
  <1>10. Reach(pattern, path) = c
    BY DEF Reach
  <1> HIDE DEF c, N
  <1>11. QED
    BY <1>8, <1>9, <1>10 DEF N

(* A wildcard reaches all that was reached before it, and whatever lies    *)
(* behind that.                                                            *)
LEMMA StarReaches ==
  ASSUME NEW path \in Seq(STRING), NEW from, from \subseteq 0..Len(path)
  PROVE  /\ from \subseteq Further(from, "*", path)
         /\ \A u \in Further(from, "*", path) : u + 1 <= Len(path) => u + 1 \in Further(from, "*", path)
  <1>1. Len(path) \in Nat
    BY LenProperties
  <1>2. Further(from, "*", path) = {v \in 0..Len(path) : \E u \in from : u <= v}
    BY DEF Further
  <1>3. \A u \in from : u \in 0..Len(path) /\ u <= u
    BY <1>1
  <1>4. ASSUME NEW u \in 0..Len(path), NEW w \in from, w <= u, u + 1 <= Len(path)
        PROVE  u + 1 \in 0..Len(path) /\ w <= u + 1
    <2>1. w \in 0..Len(path)
      BY <1>4
    <2>2. QED
      BY <1>1, <1>4, <2>1
  <1>5. QED
    BY <1>2, <1>3, <1>4

(* A wildcard at the end of the pattern reaches the end it is given.       *)
LEMMA StarsReach ==
  ASSUME NEW pattern \in Seq(STRING), NEW path \in Seq(STRING), NEW k \in 0..Len(pattern),
         NEW v \in Reach(pattern, path)[k], \A i \in (k + 1)..Len(pattern) : pattern[i] = "*"
  PROVE  v \in Reach(pattern, path)[Len(pattern)]
  <1> DEFINE N == Len(pattern)
             R == Reach(pattern, path)
             P == {n \in 0..N : n >= k => v \in R[n]}
  <1>1. N \in Nat
    BY LenProperties
  <1>2. /\ \A n \in 0..N : R[n] \subseteq 0..Len(path)
        /\ \A n \in 1..N : R[n] = Further(R[n - 1], pattern[n], path)
    BY ReachTurns
  <1> HIDE DEF R, N
  <1>3. 0 \in P
    <2>1. 0 >= k => k = 0
      BY DEF N
    <2>2. v \in R[k]
      BY DEF R
    <2>3. QED
      BY <1>1, <2>1, <2>2
  <1>4. ASSUME NEW n \in 1..N, n - 1 \in P PROVE n \in P
    <2>1. SUFFICES ASSUME n >= k PROVE v \in R[n]
      BY <1>1
    <2>2. CASE n = k
      BY <2>2 DEF R
    <2>3. CASE n # k
      <3>1. n \in (k + 1)..N /\ n - 1 >= k /\ n - 1 \in 0..N
        BY <1>1, <1>4, <2>1, <2>3 DEF N
      <3>2. pattern[n] = "*"
        BY <3>1 DEF N
      <3>3. v \in R[n - 1] /\ R[n - 1] \subseteq 0..Len(path)
        BY <1>2, <1>4, <3>1
      <3>4. R[n] = Further(R[n - 1], "*", path)
        BY <1>2, <1>4, <3>2
      <3>5. R[n - 1] \subseteq Further(R[n - 1], "*", path)
        BY <3>3, StarReaches
      <3>6. QED
        BY <3>3, <3>4, <3>5
    <2>4. QED
      BY <2>2, <2>3
  <1>5. \A n \in 0..N : n \in P
    <2> HIDE DEF P
    <2> QED BY <1>1, <1>3, <1>4, LoopInduction
  <1>6. N \in 0..N /\ N >= k
    BY <1>1 DEF N
  <1>7. v \in R[N]
    BY <1>5, <1>6
  <1>8. QED
    BY <1>7 DEF R, N

(* Where a scan is, the pattern's symbols so far reach; and where the last *)
(* wildcard took over, that one does.                                      *)
OnCourse(pattern, path, spot) ==
  /\ PatternAt(spot) - 1 \in 0..Len(pattern)
  /\ PathAt(spot) - 1 \in Reach(pattern, path)[PatternAt(spot) - 1]
  /\ spot.star # 0 => /\ pattern[spot.star] = "*" /\ spot.star \in 1..Len(pattern)
                      /\ spot.from - 1 \in Reach(pattern, path)[spot.star]

(* A move of the scan stays on course.                                     *)
LEMMA CourseHeld ==
  ASSUME NEW pattern \in Seq(STRING), NEW path \in Seq(STRING), NEW spot \in Spots(pattern, path),
         OnCourse(pattern, path, spot), ~Halts(pattern, path, spot)
  PROVE  OnCourse(pattern, path, GoesOn(pattern, path, spot))
  <1> DEFINE L == Len(pattern)
             M == Len(path)
             R == Reach(pattern, path)
             p == PatternAt(spot)
             v == PathAt(spot)
             next == GoesOn(pattern, path, spot)
  <1>1. L \in Nat /\ M \in Nat
    BY LenProperties
  <1>2. /\ \A n \in 0..L : R[n] \subseteq 0..M
        /\ \A n \in 1..L : R[n] = Further(R[n - 1], pattern[n], path)
    BY ReachTurns
  <1>3. /\ p - 1 \in 0..L /\ v - 1 \in R[p - 1]
        /\ spot.star # 0 => pattern[spot.star] = "*" /\ spot.star \in 1..L /\ spot.from - 1 \in R[spot.star]
    BY DEF OnCourse
  <1>4. /\ spot.star \in Nat /\ spot.from \in Nat /\ spot.taken \in Nat
        /\ spot.star <= L /\ spot.from >= 1 /\ spot.from <= M + 1 /\ spot.taken <= M
        /\ p \in Nat /\ p >= 1 /\ v \in Nat /\ v >= 1
        /\ p = spot.star + spot.taken + 1 /\ v = spot.from + spot.taken
    BY <1>1, SpotFields DEF Spots
  <1> HIDE DEF R
  <1>5. v <= M /\ p <= L /\ p \in 1..L
    BY <1>1, <1>4, SMTT(40) DEF Halts
  <1>6. R[p] = Further(R[p - 1], pattern[p], path) /\ R[p - 1] \subseteq 0..M
    BY <1>2, <1>3, <1>5
  <1>7. SUFFICES /\ PatternAt(next) - 1 \in 0..L /\ PathAt(next) - 1 \in R[PatternAt(next) - 1]
                 /\ next.star # 0 => pattern[next.star] = "*" /\ next.star \in 1..L /\ next.from - 1 \in R[next.star]
    BY DEF OnCourse, R
  <1> HIDE DEF L, M
  <1>8. CASE pattern[p] = "*"
    <2>1. next.star = p /\ next.from = v /\ next.taken = 0
      BY <1>8 DEF GoesOn
    <2> HIDE DEF next, p, v
    <2>2. PatternAt(next) - 1 = p /\ PathAt(next) - 1 = v - 1
      BY <1>4, <2>1 DEF PatternAt, PathAt
    <2>3. v - 1 \in R[p]
      <3>1. R[p - 1] \subseteq Further(R[p - 1], "*", path)
        BY <1>6, StarReaches DEF M
      <3>2. QED
        BY <1>3, <1>6, <1>8, <3>1
    <2>4. QED
      BY <1>5, <1>8, <2>1, <2>2, <2>3
  <1>9. CASE pattern[p] # "*" /\ pattern[p] = path[v]
    <2>1. next = [spot EXCEPT !.taken = @ + 1]
      BY <1>9 DEF GoesOn
    <2>2. next.star = spot.star /\ next.from = spot.from /\ next.taken = spot.taken + 1
      BY <2>1 DEF Spots
    <2> HIDE DEF next, p, v
    <2>3. PatternAt(next) - 1 = p /\ PathAt(next) - 1 = v
      <3>1. PatternAt(next) = spot.star + (spot.taken + 1) + 1 /\ PathAt(next) = spot.from + (spot.taken + 1)
        BY <2>2 DEF PatternAt, PathAt
      <3>2. (spot.star + (spot.taken + 1) + 1) - 1 = spot.star + spot.taken + 1
        BY <1>4, SMTT(40)
      <3>3. (spot.from + (spot.taken + 1)) - 1 = spot.from + spot.taken
        BY <1>4, SMTT(40)
      <3>4. p = spot.star + spot.taken + 1 /\ v = spot.from + spot.taken
        BY <1>4
      <3>5. QED
        BY <3>1, <3>2, <3>3, <3>4, Zenon
    <2>4. v \in R[p]
      <3>1. v \in 1..M
        BY <1>1, <1>4, <1>5
      <3>2. R[p] = {w \in 1..M : w - 1 \in R[p - 1] /\ path[w] = pattern[p]}
        BY <1>6, <1>9 DEF Further, M
      <3>3. QED
        BY <1>3, <1>9, <3>1, <3>2
    <2>5. QED
      BY <1>3, <1>5, <2>2, <2>3, <2>4
  <1>10. CASE pattern[p] # "*" /\ pattern[p] # path[v]
    <2>1. next = Backtrack(spot) /\ spot.star # 0
      BY <1>10 DEF GoesOn, Halts
    <2>2. next.star = spot.star /\ next.from = spot.from + 1 /\ next.taken = 0
      BY <2>1 DEF Spots, Backtrack
    <2> HIDE DEF next, p, v
    <2>3. PatternAt(next) - 1 = spot.star /\ PathAt(next) - 1 = spot.from /\ next.from - 1 = spot.from
      BY <1>4, <2>2, SMTT(40) DEF PatternAt, PathAt
    <2>4. spot.from \in R[spot.star]
      <3>1. /\ spot.star \in 1..L /\ spot.star - 1 \in 0..L /\ pattern[spot.star] = "*"
            /\ spot.from - 1 \in R[spot.star]
        BY <1>1, <1>3, <2>1
      <3>2. R[spot.star] = Further(R[spot.star - 1], "*", path) /\ R[spot.star - 1] \subseteq 0..M
        BY <1>2, <3>1
      <3>3. (spot.from - 1) + 1 = spot.from /\ spot.from <= M
        BY <1>1, <1>4, <1>5, SMTT(40)
      <3> DEFINE u == spot.from - 1
      <3>4. u \in Further(R[spot.star - 1], "*", path) /\ u + 1 <= M
        BY <3>1, <3>2, <3>3
      <3> HIDE DEF u
      <3>5. u + 1 \in Further(R[spot.star - 1], "*", path)
        BY <3>2, <3>4, StarReaches DEF M
      <3>6. QED
        BY <3>2, <3>3, <3>5 DEF u
    <2>5. spot.star \in 0..L
      BY <1>1, <1>4
    <2>6. QED
      BY <1>3, <2>1, <2>2, <2>3, <2>4, <2>5
  <1>11. QED
    BY <1>8, <1>9, <1>10

(* What a scan may take for a match.                                       *)
Matched(pattern, path, anchored) ==
  IF anchored THEN Len(path) \in Reach(pattern, path)[Len(pattern)]
  ELSE \/ Reach(pattern, path)[Len(pattern)] # {}
       \/ \E n \in 0..Len(pattern) : Len(path) \in Reach(pattern, path)[n]

(* A scan on course that ends with a match has matched.                    *)
LEMMA HaltsRightly ==
  ASSUME NEW pattern \in Seq(STRING), NEW path \in Seq(STRING), NEW anchored \in BOOLEAN,
         NEW spot \in Spots(pattern, path), OnCourse(pattern, path, spot), Halts(pattern, path, spot),
         Ruled(pattern, path, anchored, spot)
  PROVE  Matched(pattern, path, anchored)
  <1> DEFINE L == Len(pattern)
             M == Len(path)
             R == Reach(pattern, path)
             p == PatternAt(spot)
             v == PathAt(spot)
  <1>1. L \in Nat /\ M \in Nat
    BY LenProperties
  <1>2. \A n \in 0..L : R[n] \subseteq 0..M
    BY ReachTurns
  <1>3. p - 1 \in 0..L /\ v - 1 \in R[p - 1]
    BY DEF OnCourse
  <1>4. p \in Nat /\ v \in Nat
    BY <1>1, SpotFields DEF Spots
  <1> HIDE DEF R
  <1>5. v - 1 \in 0..M
    BY <1>2, <1>3
  <1>6. CASE v > M
    <2>1. v - 1 = M
      BY <1>1, <1>4, <1>5, <1>6
    <2>2. CASE ~anchored
      BY <1>3, <2>1, <2>2 DEF Matched, R
    <2>3. CASE anchored
      <3>1. \A i \in p..L : pattern[i] = "*"
        BY <1>6, <2>3 DEF Ruled
      <3>2. (p - 1) + 1 = p
        BY <1>4
      <3> DEFINE k == p - 1
      <3> HIDE DEF p, v, L, M
      <3>3. k \in 0..L /\ M \in R[k] /\ \A i \in (k + 1)..L : pattern[i] = "*"
        BY <1>3, <2>1, <3>1, <3>2
      <3> HIDE DEF k
      <3>4. M \in R[L]
        BY <3>3, StarsReach DEF R, L
      <3>5. QED
        BY <2>3, <3>4 DEF Matched, R, L, M
    <2>4. QED
      BY <2>2, <2>3
  <1>7. CASE ~(v > M)
    <2>1. p > L /\ ~anchored
      BY <1>7 DEF Ruled
    <2>2. p - 1 = L
      BY <1>1, <1>3, <1>4, <2>1
    <2>3. R[L] # {}
      BY <1>3, <2>2
    <2>4. QED
      BY <2>1, <2>3 DEF Matched, R
  <1>8. QED
    BY <1>6, <1>7

(* The start of a scan.                                                    *)
Outset == [star |-> 0, from |-> 1, taken |-> 0]

(* The scan begins at a spot.                                              *)
LEMMA OutsetIsSpot ==
  ASSUME NEW pattern \in Seq(STRING), NEW path \in Seq(STRING)
  PROVE  /\ Outset \in Spots(pattern, path) /\ Outset.star = 0 /\ Outset.from = 1 /\ Outset.taken = 0
         /\ PatternAt(Outset) = 1 /\ PathAt(Outset) = 1
  <1>1. Len(pattern) \in Nat /\ Len(path) \in Nat
    BY LenProperties
  <1>2. 0 \in 0..Len(pattern) /\ 1 \in 1..(Len(path) + 1) /\ 0 \in 0..Len(path)
    BY <1>1
  <1>3. Outset \in Spots(pattern, path)
    BY <1>2 DEF Outset, Spots
  <1>4. QED
    BY <1>3 DEF Outset, PatternAt, PathAt

(* A scan takes nothing for a match that is none.                          *)
LEMMA ScanIsSound ==
  ASSUME NEW pattern \in Seq(STRING), NEW path \in Seq(STRING), NEW anchored \in BOOLEAN
  PROVE  WildcardMatches(pattern, path, anchored) => Matched(pattern, path, anchored)
  <1> DEFINE D == Spots(pattern, path)
             scan == Scan(pattern, path, anchored)
             rank == [spot \in D |-> Ahead(pattern, path, spot)]
             P == {spot \in D : OnCourse(pattern, path, spot) /\ scan[spot] => Matched(pattern, path, anchored)}
  <1>1. rank \in [D -> Nat]
    <2>1. \A spot \in D : Ahead(pattern, path, spot) \in Nat
      BY SpotsMove
    <2> HIDE DEF D
    <2>2. QED
      BY <2>1
  <1>2. \A spot \in D : scan[spot] = IF Halts(pattern, path, spot) THEN Ruled(pattern, path, anchored, spot)
                                     ELSE scan[GoesOn(pattern, path, spot)]
    BY ScanRuns
  <1> HIDE DEF scan
  <1>3. RankInduction(D, rank, P)
    <2>1. SUFFICES ASSUME NEW spot \in D, \A e \in D : rank[e] < rank[spot] => e \in P,
                          OnCourse(pattern, path, spot), scan[spot]
                   PROVE  Matched(pattern, path, anchored)
      BY DEF RankInduction
    <2>2. CASE Halts(pattern, path, spot)
      BY <1>2, <2>1, <2>2, HaltsRightly
    <2>3. CASE ~Halts(pattern, path, spot)
      <3> DEFINE next == GoesOn(pattern, path, spot)
      <3>1. next \in D /\ Ahead(pattern, path, next) < Ahead(pattern, path, spot)
        BY <2>3, SpotsMove
      <3>2. OnCourse(pattern, path, next)
        BY <2>1, <2>3, CourseHeld
      <3>3. scan[next]
        BY <1>2, <2>1, <2>3
      <3> HIDE DEF next, D
      <3>4. next \in P
        <4>1. rank[next] < rank[spot]
          BY <3>1
        <4> HIDE DEF P, rank
        <4>2. QED
          BY <2>1, <3>1, <4>1
      <3>5. QED
        BY <3>2, <3>3, <3>4
    <2>4. QED
      BY <2>2, <2>3
  <1>4. \A spot \in D : spot \in P
    <2> HIDE DEF D, P, rank
    <2> QED BY <1>1, <1>3, RankedInduction
  <1>5. Outset \in D /\ OnCourse(pattern, path, Outset)
    <2>1. Reach(pattern, path)[0] = {0} /\ Len(pattern) \in Nat
      BY ReachTurns, LenProperties
    <2>2. 1 - 1 = 0 /\ 0 \in 0..Len(pattern)
      BY <2>1
    <2>3. QED
      BY <2>1, <2>2, OutsetIsSpot DEF OnCourse
  <1>6. WildcardMatches(pattern, path, anchored) = scan[Outset]
    BY DEF WildcardMatches, Outset, scan
  <1>7. QED
    BY <1>4, <1>5, <1>6

(* Without an anchor, a scan past a wildcard ends in a match.              *)
LEMMA WildcardMatchesAll ==
  ASSUME NEW pattern \in Seq(STRING), NEW path \in Seq(STRING)
  PROVE  \A spot \in Spots(pattern, path) : spot.star # 0 => Scan(pattern, path, FALSE)[spot]
  <1> DEFINE D == Spots(pattern, path)
             scan == Scan(pattern, path, FALSE)
             rank == [spot \in D |-> Ahead(pattern, path, spot)]
             P == {spot \in D : spot.star # 0 => scan[spot]}
  <1>1. rank \in [D -> Nat]
    <2>1. \A spot \in D : Ahead(pattern, path, spot) \in Nat
      BY SpotsMove
    <2> HIDE DEF D
    <2>2. QED
      BY <2>1
  <1>2. \A spot \in D : scan[spot] = IF Halts(pattern, path, spot) THEN Ruled(pattern, path, FALSE, spot)
                                     ELSE scan[GoesOn(pattern, path, spot)]
    BY ScanRuns
  <1> HIDE DEF scan
  <1>3. RankInduction(D, rank, P)
    <2>1. SUFFICES ASSUME NEW spot \in D, \A e \in D : rank[e] < rank[spot] => e \in P, spot.star # 0
                   PROVE  scan[spot]
      BY DEF RankInduction
    <2>2. CASE Halts(pattern, path, spot)
      <3>1. Ruled(pattern, path, FALSE, spot)
        BY <2>1, <2>2, Zenon DEF Halts, Ruled
      <3>2. QED
        BY <1>2, <2>1, <2>2, <3>1
    <2>3. CASE ~Halts(pattern, path, spot)
      <3> DEFINE next == GoesOn(pattern, path, spot)
      <3>1. next \in D /\ Ahead(pattern, path, next) < Ahead(pattern, path, spot)
        BY <2>3, SpotsMove
      <3>2. next.star # 0
        <4>1. PatternAt(spot) # 0
          <5>1. Len(pattern) \in Nat /\ Len(path) \in Nat
            BY LenProperties
          <5>2. PatternAt(spot) \in Nat /\ PatternAt(spot) >= 1
            BY <5>1, SpotFields DEF Spots
          <5>3. QED
            BY <5>2
        <4>2. next.star \in {PatternAt(spot), spot.star}
          BY DEF GoesOn, Backtrack, Spots
        <4>3. QED
          BY <2>1, <4>1, <4>2
      <3> HIDE DEF next, D
      <3>3. next \in P
        <4>1. rank[next] < rank[spot]
          BY <2>1, <3>1
        <4> HIDE DEF P, rank
        <4>2. QED
          BY <2>1, <3>1, <4>1
      <3>4. scan[next]
        BY <3>2, <3>3
      <3>5. QED
        BY <1>2, <2>1, <2>3, <3>4 DEF next
    <2>4. QED
      BY <2>2, <2>3
  <1>4. \A spot \in D : spot \in P
    <2> HIDE DEF D, P, rank
    <2> QED BY <1>1, <1>3, RankedInduction
  <1>5. QED
    BY <1>4 DEF scan

(* Before its first wildcard, a scan is right: the symbols so far reach    *)
(* just where it is.                                                       *)
InStep(pattern, path, spot) ==
  /\ spot.star = 0 /\ spot.from = 1 /\ spot.taken \in 0..Len(pattern)
  /\ \A n \in 0..spot.taken : Reach(pattern, path)[n] = {n}

(* Once nothing is reached, nothing is any more.                           *)
LEMMA NothingReaches ==
  ASSUME NEW pattern \in Seq(STRING), NEW path \in Seq(STRING), NEW k \in 0..Len(pattern),
         Reach(pattern, path)[k] = {}
  PROVE  \A n \in k..Len(pattern) : Reach(pattern, path)[n] = {}
  <1> DEFINE N == Len(pattern)
             R == Reach(pattern, path)
             P == {n \in 0..N : n >= k => R[n] = {}}
  <1>1. N \in Nat
    BY LenProperties
  <1>2. \A n \in 1..N : R[n] = Further(R[n - 1], pattern[n], path)
    BY ReachTurns
  <1>3. \A symbol : Further({}, symbol, path) = {}
    BY DEF Further
  <1>4. R[k] = {}
    OBVIOUS
  <1> HIDE DEF R, N
  <1>5. 0 \in P
    <2>1. 0 >= k => k = 0
      BY DEF N
    <2>2. QED
      BY <1>1, <1>4, <2>1
  <1>6. ASSUME NEW n \in 1..N, n - 1 \in P PROVE n \in P
    <2>1. SUFFICES ASSUME n >= k PROVE R[n] = {}
      BY <1>1
    <2>2. CASE n = k
      BY <1>4, <2>2
    <2>3. CASE n # k
      <3>1. n - 1 >= k
        BY <1>1, <1>6, <2>1, <2>3 DEF N
      <3>2. R[n - 1] = {}
        BY <1>6, <3>1
      <3>3. QED
        BY <1>2, <1>3, <1>6, <3>2
    <2>4. QED
      BY <2>2, <2>3
  <1>7. \A n \in 0..N : n \in P
    <2> HIDE DEF P
    <2> QED BY <1>1, <1>5, <1>6, LoopInduction
  <1>8. \A n \in k..N : n \in 0..N /\ n >= k
    BY <1>1 DEF N
  <1>9. QED
    BY <1>7, <1>8 DEF R, N

(* Before any wildcard the scan keeps in step with every match that there  *)
(* is; where a symbol differs there is none.                               *)
LEMMA StepHeld ==
  ASSUME NEW pattern \in Seq(STRING), NEW path \in Seq(STRING), NEW spot \in Spots(pattern, path),
         InStep(pattern, path, spot)
  PROVE  LET p == PatternAt(spot)
             v == PathAt(spot)
         IN /\ p = spot.taken + 1 /\ v = spot.taken + 1
            /\ v <= Len(path) /\ p <= Len(pattern) /\ pattern[p] # "*" =>
                 IF pattern[p] = path[v] THEN InStep(pattern, path, [spot EXCEPT !.taken = @ + 1])
                 ELSE ~Matched(pattern, path, FALSE)
  <1> DEFINE L == Len(pattern)
             M == Len(path)
             R == Reach(pattern, path)
             t == spot.taken
  <1>1. L \in Nat /\ M \in Nat
    BY LenProperties
  <1>2. \A n \in 1..L : R[n] = Further(R[n - 1], pattern[n], path)
    BY ReachTurns
  <1>3. spot.star = 0 /\ spot.from = 1 /\ t \in 0..L /\ \A n \in 0..t : R[n] = {n}
    BY DEF InStep
  <1>4. PatternAt(spot) = t + 1 /\ PathAt(spot) = t + 1
    <2>1. 0 + t + 1 = t + 1 /\ 1 + t = t + 1
      BY <1>1, <1>3
    <2>2. PatternAt(spot) = 0 + t + 1 /\ PathAt(spot) = 1 + t
      BY <1>3 DEF PatternAt, PathAt
    <2>3. QED
      BY <2>1, <2>2
  <1>5. ASSUME t + 1 <= M, t + 1 <= L, pattern[t + 1] # "*"
        PROVE  R[t + 1] = IF pattern[t + 1] = path[t + 1] THEN {t + 1} ELSE {}
    <2> HIDE DEF R, L, M, t
    <2>1. t + 1 \in 1..L /\ (t + 1) - 1 = t /\ t \in 0..t /\ t \in Nat
      BY <1>1, <1>3, <1>5
    <2>2. R[t + 1] = Further({t}, pattern[t + 1], path)
      BY <1>2, <1>3, <2>1
    <2>3. R[t + 1] = {v \in 1..M : v - 1 \in {t} /\ path[v] = pattern[t + 1]}
      BY <1>5, <2>2 DEF Further, M
    <2>4. \A v \in 1..M : v - 1 \in {t} <=> v = t + 1
      BY <1>1, <2>1
    <2>5. t + 1 \in 1..M
      BY <1>1, <1>5, <2>1
    <2>6. QED
      BY <2>3, <2>4, <2>5
  <1>6. ASSUME t + 1 <= M, t + 1 <= L, pattern[t + 1] # "*", pattern[t + 1] = path[t + 1]
        PROVE  InStep(pattern, path, [spot EXCEPT !.taken = @ + 1])
    <2> DEFINE next == [spot EXCEPT !.taken = @ + 1]
    <2>1. next.star = 0 /\ next.from = 1 /\ next.taken = t + 1
      BY <1>3 DEF Spots
    <2> HIDE DEF next, R, L, M, t
    <2>2. t + 1 \in 0..L /\ \A n \in 0..(t + 1) : n \in 0..t \/ n = t + 1
      BY <1>1, <1>3, <1>6
    <2>3. \A n \in 0..(t + 1) : R[n] = {n}
      BY <1>3, <1>5, <1>6, <2>2
    <2>4. InStep(pattern, path, next)
      BY <2>1, <2>2, <2>3 DEF InStep, R, L
    <2>5. QED
      BY <2>4 DEF next
  <1>7. ASSUME t + 1 <= M, t + 1 <= L, pattern[t + 1] # "*", pattern[t + 1] # path[t + 1]
        PROVE  ~Matched(pattern, path, FALSE)
    <2>1. R[t + 1] = {}
      BY <1>5, <1>7
    <2> DEFINE k == t + 1
    <2>2. k \in 0..L
      BY <1>1, <1>3, <1>7
    <2>3. R[k] = {}
      BY <2>1
    <2> HIDE DEF k
    <2>4. \A n \in k..L : R[n] = {}
      BY <2>2, <2>3, NothingReaches
    <2>5. L \in k..L
      BY <1>1, <2>2
    <2>6. ASSUME NEW n \in 0..L PROVE M \notin R[n]
      <3>1. n \in 0..t \/ n \in k..L
        BY <1>1, <1>3, <2>2, <2>6 DEF k
      <3>2. CASE n \in 0..t
        <4>1. M # n
          BY <1>1, <1>3, <1>7, <3>2
        <4>2. QED
          BY <1>3, <3>2, <4>1
      <3>3. CASE n \in k..L
        BY <2>4, <3>3
      <3>4. QED
        BY <3>1, <3>2, <3>3
    <2> HIDE DEF R, L, M
    <2>7. QED
      BY <2>4, <2>5, <2>6 DEF Matched, R, L, M
  <1>8. QED
    BY <1>4, <1>6, <1>7

(* Without an anchor, a scan misses no match.                              *)
LEMMA ScanIsComplete ==
  ASSUME NEW pattern \in Seq(STRING), NEW path \in Seq(STRING), Matched(pattern, path, FALSE)
  PROVE  WildcardMatches(pattern, path, FALSE)
  <1> DEFINE D == Spots(pattern, path)
             scan == Scan(pattern, path, FALSE)
             rank == [spot \in D |-> Ahead(pattern, path, spot)]
             P == {spot \in D : InStep(pattern, path, spot) => scan[spot]}
  <1>1. rank \in [D -> Nat]
    <2>1. \A spot \in D : Ahead(pattern, path, spot) \in Nat
      BY SpotsMove
    <2> HIDE DEF D
    <2>2. QED
      BY <2>1
  <1>2. \A spot \in D : scan[spot] = IF Halts(pattern, path, spot) THEN Ruled(pattern, path, FALSE, spot)
                                     ELSE scan[GoesOn(pattern, path, spot)]
    BY ScanRuns
  <1>3. \A spot \in D : spot.star # 0 => scan[spot]
    BY WildcardMatchesAll
  <1> HIDE DEF scan
  <1>4. RankInduction(D, rank, P)
    <2>1. SUFFICES ASSUME NEW spot \in D, \A e \in D : rank[e] < rank[spot] => e \in P,
                          InStep(pattern, path, spot)
                   PROVE  scan[spot]
      BY DEF RankInduction
    <2> DEFINE p == PatternAt(spot)
               v == PathAt(spot)
               next == GoesOn(pattern, path, spot)
    <2>2. /\ Len(pattern) \in Nat /\ Len(path) \in Nat /\ p \in Nat /\ p >= 1 /\ v \in Nat
      <3>1. Len(pattern) \in Nat /\ Len(path) \in Nat
        BY LenProperties
      <3>2. QED
        BY <3>1, SpotFields DEF Spots
    <2>3. v <= Len(path) /\ p <= Len(pattern) /\ pattern[p] # "*" =>
            IF pattern[p] = path[v] THEN InStep(pattern, path, [spot EXCEPT !.taken = @ + 1])
            ELSE ~Matched(pattern, path, FALSE)
      BY <2>1, StepHeld, Zenon
    <2>4. CASE v > Len(path) \/ p > Len(pattern)
      <3>1. Halts(pattern, path, spot) /\ Ruled(pattern, path, FALSE, spot)
        BY <2>4 DEF Halts, Ruled
      <3> HIDE DEF D
      <3>2. QED
        BY <1>2, <2>1, <3>1
    <2>5. CASE v <= Len(path) /\ p <= Len(pattern)
      <3>1. ~(v > Len(path)) /\ ~(p > Len(pattern))
        BY <2>2, <2>5
      <3>2. pattern[p] = "*" \/ pattern[p] = path[v]
        BY <2>3, <2>5
      <3>3. ~Halts(pattern, path, spot)
        BY <3>1, <3>2, Zenon DEF Halts
      <3>4. next \in D /\ Ahead(pattern, path, next) < Ahead(pattern, path, spot) /\ scan[spot] = scan[next]
        <4>1. next \in D /\ Ahead(pattern, path, next) < Ahead(pattern, path, spot)
          BY <3>3, SpotsMove
        <4>2. scan[spot] = scan[next]
          <5> HIDE DEF D
          <5> QED BY <1>2, <2>1, <3>3
        <4>3. QED
          BY <4>1, <4>2
      <3>5. CASE pattern[p] = "*"
        <4>1. next.star = p /\ p # 0
          BY <2>2, <3>5 DEF GoesOn
        <4> HIDE DEF D, next, p
        <4>2. QED
          BY <1>3, <3>4, <4>1
      <3>6. CASE pattern[p] # "*"
        <4>1. next = [spot EXCEPT !.taken = @ + 1]
          BY <3>2, <3>6, Zenon DEF GoesOn
        <4>2. InStep(pattern, path, next)
          BY <2>3, <2>5, <3>2, <3>6, <4>1
        <4> HIDE DEF D, next, p, v
        <4>3. rank[next] < rank[spot]
          BY <2>1, <3>4
        <4>4. next \in P
          <5> HIDE DEF P, rank
          <5> QED BY <2>1, <3>4, <4>3
        <4>5. QED
          BY <3>4, <4>2, <4>4
      <3>7. QED
        BY <3>5, <3>6
    <2>6. QED
      <3> HIDE DEF p, v
      <3> QED BY <2>2, <2>4, <2>5
  <1>5. \A spot \in D : spot \in P
    <2> HIDE DEF D, P, rank
    <2> QED BY <1>1, <1>4, RankedInduction
  <1>6. Outset \in D /\ InStep(pattern, path, Outset)
    <2>1. Reach(pattern, path)[0] = {0} /\ Len(pattern) \in Nat
      BY ReachTurns, LenProperties
    <2>2. 0 \in 0..Len(pattern) /\ \A n \in 0..0 : n = 0
      BY <2>1
    <2>3. QED
      BY <2>1, <2>2, OutsetIsSpot DEF InStep
  <1>7. WildcardMatches(pattern, path, FALSE) = scan[Outset]
    BY DEF WildcardMatches, Outset, scan
  <1>8. QED
    BY <1>5, <1>6, <1>7

(* wildcard_matches_prefix(): a rule with an anchor matches only where it  *)
(* governs; one without just where it does or the path ends within it.     *)
MatchIsRight(path, value) ==
  LET matches == RuleMatches(path, [path |-> value])
  IN IF value.anchored THEN matches => Governs(path, value)
     ELSE matches = (Governs(path, value) \/ FallsShort(path, value))

(* What a rule matches is what the protocol says it does.                  *)
LEMMA MatchesAreRight ==
  ASSUME NEW path \in Seq(STRING), NEW value \in ValueType
  PROVE  MatchIsRight(path, value)
  <1>1. value.text \in Seq(STRING) /\ value.anchored \in BOOLEAN
    BY DEF ValueType
  <1>2. RuleMatches(path, [path |-> value]) = WildcardMatches(value.text, path, value.anchored)
    BY DEF RuleMatches
  <1> DEFINE reach == Reach(value.text, path)
             L == Len(value.text)
  <1>3. CASE value.anchored
    <2>1. WildcardMatches(value.text, path, TRUE) => Matched(value.text, path, TRUE)
      BY <1>1, ScanIsSound
    <2>2. value.anchored = TRUE
      BY <1>1, <1>3
    <2>3. Matched(value.text, path, TRUE) => Governs(path, value)
      BY <1>3 DEF Matched, Governs
    <2>4. QED
      BY <1>2, <1>3, <2>1, <2>2, <2>3 DEF MatchIsRight
  <1>4. CASE ~value.anchored
    <2>1. value.anchored = FALSE
      BY <1>1, <1>4
    <2>2. WildcardMatches(value.text, path, FALSE) => Matched(value.text, path, FALSE)
      BY <1>1, ScanIsSound
    <2>3. Matched(value.text, path, FALSE) => WildcardMatches(value.text, path, FALSE)
      BY <1>1, ScanIsComplete
    <2>4. WildcardMatches(value.text, path, FALSE) \in BOOLEAN
      <3>1. Scan(value.text, path, FALSE) \in [Spots(value.text, path) -> BOOLEAN]
        BY <1>1, ScanRuns
      <3>2. Outset \in Spots(value.text, path)
        BY <1>1, OutsetIsSpot
      <3>3. WildcardMatches(value.text, path, FALSE) = Scan(value.text, path, FALSE)[Outset]
        BY DEF WildcardMatches, Outset
      <3>4. QED
        BY <3>1, <3>2, <3>3
    <2>5. Matched(value.text, path, FALSE) <=> Governs(path, value) \/ FallsShort(path, value)
      BY <1>4 DEF Matched, Governs, FallsShort
    <2>6. RuleMatches(path, [path |-> value]) = (Governs(path, value) \/ FallsShort(path, value))
      BY <1>2, <2>1, <2>2, <2>3, <2>4, <2>5, Zenon
    <2>7. QED
      BY <1>4, <2>6 DEF MatchIsRight
  <1>5. QED
    BY <1>3, <1>4

-----------------------------------------------------------------------------
(* Lines into groups. U are the lines that name an agent, Q those that are *)
(* rules: those of the agents the group at line n is open for, and the     *)
(* rules that it has.                                                      *)
OpenAt(U, Q, n) ==
  {i \in U : i <= n /\ \A k \in U : i <= k /\ k <= n => \A h \in Q : ~(i <= h /\ h <= k)}
RulesAt(U, Q, n) == {j \in Q : j <= n /\ \E i \in OpenAt(U, Q, n) : i < j}

NotNaming(U, Q, n) == U \subseteq Nat /\ Q \subseteq Nat /\ n \in Nat /\ n # 0 /\ n \notin U
StaysOpen(U, Q, n) ==
  /\ OpenAt(U, Q, n) = OpenAt(U, Q, n - 1)
  /\ n \notin Q => RulesAt(U, Q, n) = RulesAt(U, Q, n - 1)
  /\ n \in Q => RulesAt(U, Q, n) = RulesAt(U, Q, n - 1) \cup (IF OpenAt(U, Q, n - 1) = {} THEN {} ELSE {n})

(* A line that names no agent closes no group; a rule joins the group if   *)
(* that is open for any agent.                                             *)
LEMMA OpenKept ==
  ASSUME NEW U, NEW Q, NEW n, NotNaming(U, Q, n)
  PROVE  StaysOpen(U, Q, n)
  <1>0. U \subseteq Nat /\ Q \subseteq Nat /\ n \in Nat /\ n # 0 /\ n \notin U
    BY DEF NotNaming
  <1>1. \A i \in Nat : i <= n /\ i # n <=> i <= n - 1
    BY <1>0
  <1>2. \A i \in U : i <= n <=> i <= n - 1
    BY <1>0, <1>1
  <1>3. OpenAt(U, Q, n) = OpenAt(U, Q, n - 1)
    <2>1. ASSUME NEW i \in U
          PROVE  (i <= n /\ \A k \in U : i <= k /\ k <= n => \A h \in Q : ~(i <= h /\ h <= k))
                 <=> (i <= n - 1 /\ \A k \in U : i <= k /\ k <= n - 1 => \A h \in Q : ~(i <= h /\ h <= k))
      BY <1>2, <2>1, Zenon
    <2>2. QED
      BY <2>1 DEF OpenAt
  <1>4. ASSUME n \notin Q PROVE RulesAt(U, Q, n) = RulesAt(U, Q, n - 1)
    <2>1. \A j \in Q : j <= n <=> j <= n - 1
      BY <1>0, <1>1, <1>4
    <2>2. QED
      BY <1>3, <2>1 DEF RulesAt
  <1>5. ASSUME n \in Q
        PROVE RulesAt(U, Q, n) = RulesAt(U, Q, n - 1) \cup (IF OpenAt(U, Q, n - 1) = {} THEN {} ELSE {n})
    <2> DEFINE O == OpenAt(U, Q, n - 1)
    <2>1. \A i \in O : i < n
      BY <1>0, <1>1 DEF OpenAt
    <2>2. RulesAt(U, Q, n) = {j \in Q : j <= n /\ \E i \in O : i < j}
      BY <1>3 DEF RulesAt
    <2>3. RulesAt(U, Q, n - 1) = {j \in Q : j <= n - 1 /\ \E i \in O : i < j}
      BY DEF RulesAt
    <2>4. \A j \in Q : j <= n <=> j <= n - 1 \/ j = n
      BY <1>0, <1>1
    <2>5. ~(n <= n - 1)
      BY <1>0
    <2> HIDE DEF O
    <2>6. QED
      BY <1>5, <2>1, <2>2, <2>3, <2>4, <2>5 DEF O
  <1>6. QED
    BY <1>3, <1>4, <1>5 DEF StaysOpen

(* A line that names an agent joins the group if that has no rule, and     *)
(* begins one of its own otherwise.                                        *)
LEMMA OpenNames ==
  ASSUME NEW U, U \subseteq Nat, NEW Q, Q \subseteq Nat, NEW n \in U, n # 0, U \cap Q = {}
  PROVE  /\ OpenAt(U, Q, n) = {n} \cup (IF RulesAt(U, Q, n - 1) = {} THEN OpenAt(U, Q, n - 1) ELSE {})
         /\ RulesAt(U, Q, n) = {}
  <1> DEFINE O == OpenAt(U, Q, n - 1)
             R == RulesAt(U, Q, n - 1)
  <1>1. /\ n \in Nat /\ n \notin Q
        /\ \A i \in Nat : i <= n <=> i <= n - 1 \/ i = n
        /\ n <= n /\ ~(n <= n - 1)
    OBVIOUS
  <1>2. n \in OpenAt(U, Q, n)
    <2>1. \A k \in U, h \in Q : ~(n <= k /\ k <= n /\ n <= h /\ h <= k)
      <3>1. \A k \in Nat, h \in Nat : n <= k /\ k <= n /\ n <= h /\ h <= k => h = n
        BY <1>1
      <3>2. QED
        BY <1>1, <3>1
    <2>2. QED
      BY <1>1, <2>1 DEF OpenAt
  <1>3. ASSUME NEW i \in OpenAt(U, Q, n), i # n PROVE i \in O /\ R = {}
    <2>1. i \in U /\ i <= n - 1 /\ i \in Nat
      BY <1>1, <1>3 DEF OpenAt
    <2>2. \A h \in Q : ~(i <= h /\ h <= n)
      BY <1>1, <1>3, <2>1 DEF OpenAt
    <2>3. i \in O
      <3>1. \A k \in Nat : k <= n - 1 => k <= n
        BY <1>1
      <3>2. QED
        BY <1>3, <2>1, <3>1 DEF OpenAt
    <2>4. ASSUME NEW j \in R PROVE FALSE
      <3>1. j \in Q /\ j <= n - 1 /\ j \in Nat /\ j <= n
        BY <1>1, <2>4 DEF RulesAt
      <3>2. PICK m \in O : m < j
        BY <2>4 DEF RulesAt
      <3>3. m \in Nat /\ m <= n - 1 /\ \A k \in U : m <= k /\ k <= n - 1 => \A h \in Q : ~(m <= h /\ h <= k)
        BY <3>2 DEF OpenAt
      <3>4. ~(i <= j)
        BY <2>2, <3>1
      <3>5. m <= i /\ m <= j /\ j <= i
        BY <2>1, <3>1, <3>2, <3>3, <3>4
      <3>6. QED
        BY <2>1, <3>1, <3>3, <3>5
    <2>5. QED
      BY <2>3, <2>4
  <1>4. ASSUME NEW i \in O, R = {} PROVE i \in OpenAt(U, Q, n)
    <2>1. i \in U /\ i <= n - 1 /\ i <= n /\ i \in Nat
      BY <1>1, <1>4 DEF OpenAt
    <2>2. ASSUME NEW h \in Q, i <= h, h <= n PROVE FALSE
      <3>1. h # n /\ h # i /\ h \in Nat
        BY <1>1, <2>1, <2>2
      <3>2. h <= n - 1 /\ i < h
        BY <1>1, <2>1, <2>2, <3>1
      <3>3. h \in R
        BY <1>4, <2>2, <3>2 DEF RulesAt
      <3>4. QED
        BY <1>4, <3>3
    <2>3. \A k \in U, h \in Q : ~(i <= k /\ k <= n /\ i <= h /\ h <= k)
      <3>1. \A k \in Nat, h \in Nat : h <= k /\ k <= n => h <= n
        BY <1>1
      <3>2. QED
        BY <2>2, <3>1
    <2>4. QED
      BY <2>1, <2>3 DEF OpenAt
  <1>5. OpenAt(U, Q, n) = {n} \cup (IF R = {} THEN O ELSE {})
    <2> HIDE DEF O, R
    <2> QED BY <1>2, <1>3, <1>4
  <1>6. ASSUME NEW j \in RulesAt(U, Q, n) PROVE FALSE
    <2>1. j \in Q /\ j <= n /\ j \in Nat /\ j # n
      BY <1>1, <1>6 DEF RulesAt
    <2>2. PICK i \in OpenAt(U, Q, n) : i < j
      BY <1>6 DEF RulesAt
    <2>3. i # n
      BY <1>1, <2>1, <2>2
    <2>4. i \in O /\ R = {}
      BY <1>3, <2>2, <2>3
    <2>5. j <= n - 1
      BY <1>1, <2>1
    <2>6. j \in R
      BY <2>1, <2>2, <2>4, <2>5 DEF RulesAt
    <2>7. QED
      BY <2>4, <2>6
  <1>7. QED
    BY <1>5, <1>6

AgentLines(lines) == {i \in DOMAIN lines : lines[i].name = "user-agent"}
RuleLines(lines) == {j \in DOMAIN lines : IsRule(lines[j])}
RuleOf(line) == [allow |-> line.name = "allow", path |-> line.value]

(* The lines that name agents and those that are rules.                    *)
LEMMA LineSets ==
  ASSUME NEW lines \in Seq(LineType)
  PROVE  /\ AgentLines(lines) \subseteq Nat \ {0} /\ RuleLines(lines) \subseteq Nat \ {0}
         /\ AgentLines(lines) \subseteq DOMAIN lines /\ RuleLines(lines) \subseteq DOMAIN lines
         /\ AgentLines(lines) \cap RuleLines(lines) = {}
         /\ \A i \in AgentLines(lines) : lines[i].value \in Agent
         /\ \A j \in RuleLines(lines) : RuleOf(lines[j]) \in RuleType /\ RuleOf(lines[j]) # NoRule
  <1>1. DOMAIN lines = 1..Len(lines) /\ Len(lines) \in Nat /\ \A i \in 1..Len(lines) : lines[i] \in LineType
    BY LenProperties, ElementOfSeq
  <1>2. AgentLines(lines) \subseteq DOMAIN lines /\ RuleLines(lines) \subseteq DOMAIN lines
    BY DEF AgentLines, RuleLines
  <1>3. DOMAIN lines \subseteq Nat \ {0}
    BY <1>1
  <1>4. AgentLines(lines) \cap RuleLines(lines) = {}
    BY DEF AgentLines, RuleLines, IsRule
  <1>5. ASSUME NEW line \in LineType, line.name = "user-agent" PROVE line.value \in Agent
    BY <1>5 DEF LineType
  <1>6. ASSUME NEW line \in LineType, IsRule(line) PROVE RuleOf(line) \in RuleType /\ RuleOf(line) # NoRule
    <2>1. line.value \in ValueType /\ ~Blank(line.value)
      BY <1>6 DEF LineType, ValueType, IsRule
    <2>2. RuleOf(line) \in RuleType /\ RuleOf(line).path = line.value
      BY <2>1 DEF RuleOf, RuleType
    <2>3. Blank(NoRule.path)
      BY DEF Blank, NoRule, Value
    <2>4. QED
      BY <2>1, <2>2, <2>3
  <1>7. \A i \in AgentLines(lines) : lines[i].value \in Agent
    BY <1>1, <1>5 DEF AgentLines
  <1>8. \A j \in RuleLines(lines) : RuleOf(lines[j]) \in RuleType /\ RuleOf(lines[j]) # NoRule
    BY <1>1, <1>6 DEF RuleLines
  <1>9. QED
    BY <1>2, <1>3, <1>4, <1>7, <1>8

(* A line covers the rules that come while the group is open for it.       *)
LEMMA CoversIsOpen ==
  ASSUME NEW lines \in Seq(LineType), NEW i \in DOMAIN lines, NEW j \in DOMAIN lines
  PROVE  Covers(lines, i, j) <=>
           /\ i \in AgentLines(lines) /\ j \in RuleLines(lines)
           /\ i \in OpenAt(AgentLines(lines), RuleLines(lines), j - 1)
  <1> DEFINE U == AgentLines(lines)
             Q == RuleLines(lines)
  <1>1. DOMAIN lines = 1..Len(lines) /\ Len(lines) \in Nat
    BY LenProperties
  <1>2. \A k \in DOMAIN lines : (k \in U <=> lines[k].name = "user-agent") /\ (k \in Q <=> IsRule(lines[k]))
    BY DEF AgentLines, RuleLines
  <1>3. U \subseteq DOMAIN lines /\ Q \subseteq DOMAIN lines /\ U \cap Q = {}
    BY LineSets
  <1>4. i \in Nat /\ j \in Nat /\ (i < j <=> i <= j - 1)
    BY <1>1
  <1>5. \A k \in i..j : k \in DOMAIN lines
    BY <1>1
  <1> DEFINE clear == \A k \in U : i <= k /\ k <= j - 1 => \A h \in Q : ~(i <= h /\ h <= k)
  <1> HIDE DEF U, Q
  <1>6. ASSUME j \in Q
        PROVE  (\A k \in i..j : lines[k].name = "user-agent" => \A h \in i..k : ~IsRule(lines[h])) <=> clear
    <2>1. ASSUME \A k \in i..j : lines[k].name = "user-agent" => \A h \in i..k : ~IsRule(lines[h]),
                 NEW k \in U, i <= k, k <= j - 1, NEW h \in Q, i <= h, h <= k
          PROVE  FALSE
      <3>1. k \in i..j /\ h \in i..k /\ k \in DOMAIN lines /\ h \in DOMAIN lines
        BY <1>1, <1>3, <1>4, <2>1
      <3>2. QED
        BY <1>2, <2>1, <3>1
    <2>2. ASSUME clear, NEW k \in i..j, lines[k].name = "user-agent", NEW h \in i..k, IsRule(lines[h])
          PROVE  FALSE
      <3>1. k \in DOMAIN lines /\ h \in DOMAIN lines
        BY <1>1, <2>2
      <3>2. k \in U /\ h \in Q
        BY <1>2, <2>2, <3>1
      <3>3. k # j
        BY <1>3, <1>6, <3>2
      <3>4. i <= k /\ k <= j - 1 /\ i <= h /\ h <= k
        BY <1>1, <2>2, <3>1, <3>3
      <3>5. QED
        BY <2>2, <3>2, <3>4
    <2>3. QED
      BY <2>1, <2>2
  <1>7. i \in U => (i \in OpenAt(U, Q, j - 1) <=> i <= j - 1 /\ clear)
    BY DEF OpenAt
  <1>8. CASE i \in U /\ j \in Q
    BY <1>2, <1>4, <1>6, <1>7, <1>8 DEF Covers, U, Q
  <1>9. CASE ~(i \in U /\ j \in Q)
    BY <1>2, <1>9 DEF Covers, U, Q
  <1>10. QED
    BY <1>8, <1>9

(* The agents the group at line n is open for and its rules, the agents    *)
(* named up to there, and the agents' rules up to there.                   *)
AgentsAt(lines, n) == {lines[i].value : i \in OpenAt(AgentLines(lines), RuleLines(lines), n)}
RulesHere(lines, n) == {RuleOf(lines[j]) : j \in RulesAt(AgentLines(lines), RuleLines(lines), n)}
NamedBy(lines, n) == {lines[i].value : i \in {i \in AgentLines(lines) : i <= n}}
CoveredBy(lines, n, a, r) ==
  \E j \in RuleLines(lines) :
    /\ j <= n /\ r = RuleOf(lines[j])
    /\ \E i \in OpenAt(AgentLines(lines), RuleLines(lines), j - 1) : a = lines[i].value

(* What a line that names an agent changes.                                *)
LEMMA LineNames ==
  ASSUME NEW lines \in Seq(LineType), NEW n \in AgentLines(lines)
  PROVE  /\ AgentsAt(lines, n) =
              {lines[n].value} \cup (IF RulesHere(lines, n - 1) = {} THEN AgentsAt(lines, n - 1) ELSE {})
         /\ RulesHere(lines, n) = {}
         /\ NamedBy(lines, n) = NamedBy(lines, n - 1) \cup {lines[n].value}
         /\ \A a, r : CoveredBy(lines, n, a, r) <=> CoveredBy(lines, n - 1, a, r)
  <1> DEFINE U == AgentLines(lines)
             Q == RuleLines(lines)
  <1>1. U \subseteq Nat \ {0} /\ Q \subseteq Nat \ {0} /\ U \cap Q = {}
    BY LineSets
  <1> HIDE DEF U, Q
  <1>2. n \in U /\ U \subseteq Nat /\ Q \subseteq Nat /\ n # 0 /\ n \in Nat
    BY <1>1 DEF U
  <1>3. /\ OpenAt(U, Q, n) = {n} \cup (IF RulesAt(U, Q, n - 1) = {} THEN OpenAt(U, Q, n - 1) ELSE {})
        /\ RulesAt(U, Q, n) = {}
    BY <1>1, <1>2, OpenNames
  <1>4. RulesHere(lines, n - 1) = {} <=> RulesAt(U, Q, n - 1) = {}
    BY DEF RulesHere, U, Q
  <1>5. AgentsAt(lines, n) =
          {lines[n].value} \cup (IF RulesHere(lines, n - 1) = {} THEN AgentsAt(lines, n - 1) ELSE {})
    <2>1. /\ AgentsAt(lines, n) = {lines[i].value : i \in OpenAt(U, Q, n)}
          /\ AgentsAt(lines, n - 1) = {lines[i].value : i \in OpenAt(U, Q, n - 1)}
      BY DEF AgentsAt, U, Q
    <2>2. CASE RulesAt(U, Q, n - 1) = {}
      <3>1. OpenAt(U, Q, n) = {n} \cup OpenAt(U, Q, n - 1)
        BY <1>3, <2>2
      <3>2. QED
        BY <1>4, <2>1, <2>2, <3>1
    <2>3. CASE RulesAt(U, Q, n - 1) # {}
      <3>1. OpenAt(U, Q, n) = {n}
        BY <1>3, <2>3
      <3>2. QED
        BY <1>4, <2>1, <2>3, <3>1
    <2>4. QED
      BY <2>2, <2>3
  <1>6. RulesHere(lines, n) = {}
    BY <1>3 DEF RulesHere, U, Q
  <1>7. \A i \in Nat : i <= n <=> i <= n - 1 \/ i = n
    BY <1>2
  <1>8. NamedBy(lines, n) = NamedBy(lines, n - 1) \cup {lines[n].value}
    <2>1. {i \in U : i <= n} = {i \in U : i <= n - 1} \cup {n}
      BY <1>2, <1>7
    <2>2. QED
      BY <2>1 DEF NamedBy, U
  <1>9. \A j \in Q : j <= n <=> j <= n - 1
    BY <1>1, <1>2, <1>7
  <1>10. \A a, r : CoveredBy(lines, n, a, r) <=> CoveredBy(lines, n - 1, a, r)
    BY <1>9, Zenon DEF CoveredBy, Q
  <1>11. QED
    BY <1>5, <1>6, <1>8, <1>10

(* What a rule changes.                                                    *)
LEMMA LineRules ==
  ASSUME NEW lines \in Seq(LineType), NEW n \in RuleLines(lines)
  PROVE  /\ AgentsAt(lines, n) = AgentsAt(lines, n - 1)
         /\ RulesHere(lines, n) =
              RulesHere(lines, n - 1) \cup (IF AgentsAt(lines, n - 1) = {} THEN {} ELSE {RuleOf(lines[n])})
         /\ NamedBy(lines, n) = NamedBy(lines, n - 1)
         /\ \A a, r : CoveredBy(lines, n, a, r) <=>
                        CoveredBy(lines, n - 1, a, r) \/ (a \in AgentsAt(lines, n - 1) /\ r = RuleOf(lines[n]))
  <1> DEFINE U == AgentLines(lines)
             Q == RuleLines(lines)
  <1>1. U \subseteq Nat \ {0} /\ Q \subseteq Nat \ {0} /\ U \cap Q = {}
    BY LineSets
  <1> HIDE DEF U, Q
  <1>2. n \in Q /\ n \notin U /\ U \subseteq Nat /\ Q \subseteq Nat /\ n # 0 /\ n \in Nat
    BY <1>1 DEF Q
  <1>3. /\ OpenAt(U, Q, n) = OpenAt(U, Q, n - 1)
        /\ RulesAt(U, Q, n) = RulesAt(U, Q, n - 1) \cup (IF OpenAt(U, Q, n - 1) = {} THEN {} ELSE {n})
    <2>1. NotNaming(U, Q, n)
      BY <1>2 DEF NotNaming
    <2>2. StaysOpen(U, Q, n)
      BY <2>1, OpenKept, Zenon
    <2>3. QED
      BY <1>2, <2>2 DEF StaysOpen
  <1>4. AgentsAt(lines, n) = AgentsAt(lines, n - 1)
    BY <1>3 DEF AgentsAt, U, Q
  <1>5. RulesHere(lines, n) =
          RulesHere(lines, n - 1) \cup (IF AgentsAt(lines, n - 1) = {} THEN {} ELSE {RuleOf(lines[n])})
    <2>1. /\ RulesHere(lines, n) = {RuleOf(lines[j]) : j \in RulesAt(U, Q, n)}
          /\ RulesHere(lines, n - 1) = {RuleOf(lines[j]) : j \in RulesAt(U, Q, n - 1)}
      BY DEF RulesHere, U, Q
    <2>2. AgentsAt(lines, n - 1) = {} <=> OpenAt(U, Q, n - 1) = {}
      BY DEF AgentsAt, U, Q
    <2>3. CASE OpenAt(U, Q, n - 1) = {}
      BY <1>3, <2>1, <2>2, <2>3
    <2>4. CASE OpenAt(U, Q, n - 1) # {}
      <3>1. RulesAt(U, Q, n) = RulesAt(U, Q, n - 1) \cup {n}
        BY <1>3, <2>4
      <3>2. QED
        BY <2>1, <2>2, <2>4, <3>1
    <2>5. QED
      BY <2>3, <2>4
  <1>6. \A i \in Nat : i <= n <=> i <= n - 1 \/ i = n
    BY <1>2
  <1>7. NamedBy(lines, n) = NamedBy(lines, n - 1)
    <2>1. {i \in U : i <= n} = {i \in U : i <= n - 1}
      BY <1>2, <1>6
    <2>2. QED
      BY <2>1 DEF NamedBy, U
  <1>8. \A j \in Q : j <= n <=> j <= n - 1 \/ j = n
    BY <1>1, <1>6
  <1>9. \A a : a \in AgentsAt(lines, n - 1) <=> \E i \in OpenAt(U, Q, n - 1) : a = lines[i].value
    BY DEF AgentsAt, U, Q
  <1>10. \A a, r : CoveredBy(lines, n, a, r) <=>
                     CoveredBy(lines, n - 1, a, r) \/ (a \in AgentsAt(lines, n - 1) /\ r = RuleOf(lines[n]))
    BY <1>2, <1>8, <1>9, ZenonT(60) DEF CoveredBy, U, Q
  <1>11. QED
    BY <1>4, <1>5, <1>7, <1>10

(* Other lines change nothing.                                             *)
LEMMA LinePasses ==
  ASSUME NEW lines \in Seq(LineType), NEW n \in DOMAIN lines, n \notin AgentLines(lines), n \notin RuleLines(lines)
  PROVE  /\ AgentsAt(lines, n) = AgentsAt(lines, n - 1)
         /\ RulesHere(lines, n) = RulesHere(lines, n - 1)
         /\ NamedBy(lines, n) = NamedBy(lines, n - 1)
         /\ \A a, r : CoveredBy(lines, n, a, r) <=> CoveredBy(lines, n - 1, a, r)
  <1> DEFINE U == AgentLines(lines)
             Q == RuleLines(lines)
  <1>0. DOMAIN lines = 1..Len(lines) /\ Len(lines) \in Nat
    BY LenProperties
  <1>1. U \subseteq Nat \ {0} /\ Q \subseteq Nat \ {0} /\ U \cap Q = {}
    BY LineSets
  <1> HIDE DEF U, Q
  <1>2. n \notin Q /\ n \notin U /\ U \subseteq Nat /\ Q \subseteq Nat /\ n # 0 /\ n \in Nat
    BY <1>0, <1>1 DEF Q, U
  <1>3. OpenAt(U, Q, n) = OpenAt(U, Q, n - 1) /\ RulesAt(U, Q, n) = RulesAt(U, Q, n - 1)
    <2>1. NotNaming(U, Q, n)
      BY <1>2 DEF NotNaming
    <2>2. StaysOpen(U, Q, n)
      BY <2>1, OpenKept, Zenon
    <2>3. QED
      BY <1>2, <2>2 DEF StaysOpen
  <1>4. AgentsAt(lines, n) = AgentsAt(lines, n - 1) /\ RulesHere(lines, n) = RulesHere(lines, n - 1)
    BY <1>3 DEF AgentsAt, RulesHere, U, Q
  <1>5. \A i \in Nat : i <= n <=> i <= n - 1 \/ i = n
    BY <1>2
  <1>6. NamedBy(lines, n) = NamedBy(lines, n - 1)
    <2>1. {i \in U : i <= n} = {i \in U : i <= n - 1}
      BY <1>2, <1>5
    <2>2. QED
      BY <2>1 DEF NamedBy, U
  <1>7. \A j \in Q : j <= n <=> j <= n - 1
    BY <1>1, <1>2, <1>5
  <1>8. \A a, r : CoveredBy(lines, n, a, r) <=> CoveredBy(lines, n - 1, a, r)
    BY <1>7, Zenon DEF CoveredBy, Q
  <1>9. QED
    BY <1>4, <1>6, <1>8

GroupType == [agents : Seq(Agent), rules : Seq(RuleType)]
ReadState == [groups : Seq(GroupType), open : GroupType]

Speaks(groups, a) == \E g \in groups : a \in Elements(g.agents)
Tells(groups, a, r) == \E g \in groups : a \in Elements(g.agents) /\ r \in Elements(g.rules)

(* What reading the first n lines has come to.                             *)
SoFar(lines, n, read) ==
  /\ read \in ReadState
  /\ Elements(read.open.agents) = AgentsAt(lines, n)
  /\ Elements(read.open.rules) = RulesHere(lines, n)
  /\ \A a : Speaks(Elements(read.groups) \cup {read.open}, a) <=> a \in NamedBy(lines, n)
  /\ \A a, r : Tells(Elements(read.groups) \cup {read.open}, a, r) <=> CoveredBy(lines, n, a, r)

(* Reading a line that names an agent.                                     *)
LEMMA AgentTaken ==
  ASSUME NEW lines \in Seq(LineType), NEW n \in AgentLines(lines), NEW read, SoFar(lines, n - 1, read)
  PROVE  SoFar(lines, n, NameAgent(read, lines[n].value))
  <1> DEFINE agent == lines[n].value
             groups == Elements(read.groups)
             open == read.open
             next == NameAgent(read, agent)
  <1>1. agent \in Agent
    BY LineSets
  <1> HIDE DEF agent
  <1>2. /\ read \in ReadState /\ read.groups \in Seq(GroupType) /\ open \in GroupType
        /\ open.agents \in Seq(Agent) /\ open.rules \in Seq(RuleType)
    BY DEF SoFar, ReadState, GroupType
  <1>3. /\ Elements(open.agents) = AgentsAt(lines, n - 1)
        /\ Elements(open.rules) = RulesHere(lines, n - 1)
        /\ \A a : Speaks(groups \cup {open}, a) <=> a \in NamedBy(lines, n - 1)
        /\ \A a, r : Tells(groups \cup {open}, a, r) <=> CoveredBy(lines, n - 1, a, r)
    BY DEF SoFar
  <1>4. /\ AgentsAt(lines, n) = {agent} \cup (IF RulesHere(lines, n - 1) = {} THEN AgentsAt(lines, n - 1) ELSE {})
        /\ RulesHere(lines, n) = {}
        /\ NamedBy(lines, n) = NamedBy(lines, n - 1) \cup {agent}
        /\ \A a, r : CoveredBy(lines, n, a, r) <=> CoveredBy(lines, n - 1, a, r)
    BY LineNames DEF agent
  <1>5. open.rules = << >> <=> RulesHere(lines, n - 1) = {}
    BY <1>2, <1>3, NoElements
  <1>6. SUFFICES /\ next \in ReadState
                 /\ Elements(next.open.agents) = AgentsAt(lines, n)
                 /\ Elements(next.open.rules) = RulesHere(lines, n)
                 /\ \A a : Speaks(Elements(next.groups) \cup {next.open}, a) <=> a \in NamedBy(lines, n)
                 /\ \A a, r : Tells(Elements(next.groups) \cup {next.open}, a, r) <=> CoveredBy(lines, n, a, r)
    BY DEF SoFar, agent
  <1>7. CASE open.rules # << >>
    <2> DEFINE fresh == [agents |-> <<agent>>, rules |-> << >>]
    <2>1. next.groups = Append(read.groups, open) /\ next.open = fresh
          /\ next = [groups |-> Append(read.groups, open), open |-> fresh]
      BY <1>7 DEF NameAgent
    <2>2. /\ <<agent>> \in Seq(Agent) /\ << >> \in Seq(RuleType)
          /\ Elements(<<agent>>) = {agent} /\ Elements(<< >>) = {}
      <3>1. DOMAIN <<agent>> = {1} /\ <<agent>>[1] = agent /\ DOMAIN << >> = {}
        OBVIOUS
      <3>2. Elements(<<agent>>) = {agent} /\ Elements(<< >>) = {}
        BY <3>1 DEF Elements
      <3>3. QED
        BY <1>1, <3>2
    <2>3. fresh \in GroupType /\ Elements(fresh.agents) = {agent} /\ Elements(fresh.rules) = {}
      BY <2>2 DEF GroupType
    <2> HIDE DEF fresh, next, open
    <2>4. Append(read.groups, open) \in Seq(GroupType) /\ Elements(next.groups) = groups \cup {open}
      BY <1>2, <2>1, AppendedElements
    <2>5. next \in ReadState
      BY <2>1, <2>3, <2>4 DEF ReadState
    <2>6. Elements(next.open.agents) = AgentsAt(lines, n) /\ Elements(next.open.rules) = RulesHere(lines, n)
      BY <1>4, <1>5, <1>7, <2>1, <2>3
    <2>7. \A a : Speaks(Elements(next.groups) \cup {next.open}, a) <=> Speaks(groups \cup {open}, a) \/ a = agent
      BY <2>1, <2>3, <2>4 DEF Speaks
    <2>8. \A a, r : Tells(Elements(next.groups) \cup {next.open}, a, r) <=> Tells(groups \cup {open}, a, r)
      BY <2>1, <2>3, <2>4 DEF Tells
    <2>9. QED
      BY <1>3, <1>4, <2>5, <2>6, <2>7, <2>8
  <1>8. CASE open.rules = << >>
    <2>1. next = [read EXCEPT !.open.agents = Append(@, agent)]
      BY <1>8 DEF NameAgent
    <2>2. next.groups = read.groups /\ next.open = [open EXCEPT !.agents = Append(@, agent)]
      BY <1>2, <2>1 DEF ReadState
    <2>3. next.open.agents = Append(open.agents, agent) /\ next.open.rules = << >>
      BY <1>2, <1>8, <2>2 DEF GroupType
    <2>4. /\ Append(open.agents, agent) \in Seq(Agent)
          /\ Elements(Append(open.agents, agent)) = Elements(open.agents) \cup {agent}
      BY <1>1, <1>2, AppendedElements
    <2>5. next \in ReadState
      <3>1. next.open \in GroupType
        BY <1>2, <2>2, <2>4 DEF GroupType
      <3>2. next = [read EXCEPT !.open = next.open]
        BY <1>2, <2>1, <2>2 DEF ReadState
      <3> HIDE DEF next
      <3>3. [read EXCEPT !.open = next.open] \in ReadState
        BY <1>2, <3>1 DEF ReadState
      <3>4. QED
        BY <3>2, <3>3
    <2>6. Elements(open.rules) = {} /\ Elements(next.open.rules) = {}
      BY <1>2, <1>8, <2>3, NoElements
    <2> HIDE DEF next, open, groups
    <2>7. Elements(next.open.agents) = AgentsAt(lines, n) /\ Elements(next.open.rules) = RulesHere(lines, n)
      BY <1>3, <1>4, <2>3, <2>4, <2>6
    <2>8. \A a : Speaks(groups \cup {next.open}, a) <=> Speaks(groups \cup {open}, a) \/ a = agent
      BY <2>3, <2>4 DEF Speaks
    <2>9. \A a, r : Tells(groups \cup {next.open}, a, r) <=> Tells(groups \cup {open}, a, r)
      BY <2>6 DEF Tells
    <2>10. QED
      BY <1>3, <1>4, <2>2, <2>5, <2>7, <2>8, <2>9 DEF groups
  <1>9. QED
    BY <1>7, <1>8

(* Reading a rule.                                                         *)
LEMMA RuleTaken ==
  ASSUME NEW lines \in Seq(LineType), NEW n \in RuleLines(lines), NEW read, SoFar(lines, n - 1, read)
  PROVE  SoFar(lines, n, AddRule(read, lines[n].name = "allow", lines[n].value))
  <1> DEFINE rule == RuleOf(lines[n])
             groups == Elements(read.groups)
             open == read.open
             next == AddRule(read, lines[n].name = "allow", lines[n].value)
  <1>1. rule \in RuleType /\ ~Blank(lines[n].value)
    BY LineSets DEF RuleLines, IsRule
  <1>2. /\ read \in ReadState /\ read.groups \in Seq(GroupType) /\ open \in GroupType
        /\ open.agents \in Seq(Agent) /\ open.rules \in Seq(RuleType)
    BY DEF SoFar, ReadState, GroupType
  <1>3. /\ Elements(open.agents) = AgentsAt(lines, n - 1)
        /\ Elements(open.rules) = RulesHere(lines, n - 1)
        /\ \A a : Speaks(groups \cup {open}, a) <=> a \in NamedBy(lines, n - 1)
        /\ \A a, r : Tells(groups \cup {open}, a, r) <=> CoveredBy(lines, n - 1, a, r)
    BY DEF SoFar
  <1>4. /\ AgentsAt(lines, n) = AgentsAt(lines, n - 1)
        /\ RulesHere(lines, n) =
             RulesHere(lines, n - 1) \cup (IF AgentsAt(lines, n - 1) = {} THEN {} ELSE {rule})
        /\ NamedBy(lines, n) = NamedBy(lines, n - 1)
        /\ \A a, r : CoveredBy(lines, n, a, r) <=>
                       CoveredBy(lines, n - 1, a, r) \/ (a \in AgentsAt(lines, n - 1) /\ r = rule)
    BY LineRules
  <1>5. open.agents = << >> <=> AgentsAt(lines, n - 1) = {}
    BY <1>2, <1>3, NoElements
  <1>6. SUFFICES /\ next \in ReadState
                 /\ Elements(next.open.agents) = AgentsAt(lines, n)
                 /\ Elements(next.open.rules) = RulesHere(lines, n)
                 /\ \A a : Speaks(Elements(next.groups) \cup {next.open}, a) <=> a \in NamedBy(lines, n)
                 /\ \A a, r : Tells(Elements(next.groups) \cup {next.open}, a, r) <=> CoveredBy(lines, n, a, r)
    BY DEF SoFar
  <1>7. next = IF open.agents = << >> THEN read
               ELSE [read EXCEPT !.open.rules = Append(@, rule)]
    BY <1>1 DEF AddRule, RuleOf
  <1> HIDE DEF next, rule
  <1>8. CASE open.agents = << >>
    <2>1. next = read /\ AgentsAt(lines, n - 1) = {}
      BY <1>5, <1>7, <1>8
    <2> HIDE DEF groups, open
    <2>2. /\ AgentsAt(lines, n) = AgentsAt(lines, n - 1) /\ RulesHere(lines, n) = RulesHere(lines, n - 1)
          /\ NamedBy(lines, n) = NamedBy(lines, n - 1)
          /\ \A a, r : CoveredBy(lines, n, a, r) <=> CoveredBy(lines, n - 1, a, r)
      BY <1>4, <2>1
    <2>3. QED
      BY <1>2, <1>3, <2>1, <2>2 DEF groups, open
  <1>9. CASE open.agents # << >>
    <2>1. next = [read EXCEPT !.open.rules = Append(@, rule)]
      BY <1>7, <1>9
    <2>2. next.groups = read.groups /\ next.open = [open EXCEPT !.rules = Append(@, rule)]
      BY <1>2, <2>1 DEF ReadState
    <2>3. next.open.agents = open.agents /\ next.open.rules = Append(open.rules, rule)
      BY <1>2, <2>2 DEF GroupType
    <2>4. /\ Append(open.rules, rule) \in Seq(RuleType)
          /\ Elements(Append(open.rules, rule)) = Elements(open.rules) \cup {rule}
      BY <1>1, <1>2, AppendedElements
    <2>5. next \in ReadState
      <3>1. next.open \in GroupType
        BY <1>2, <2>2, <2>4 DEF GroupType
      <3>2. next = [read EXCEPT !.open = next.open]
        BY <1>2, <2>1, <2>2 DEF ReadState
      <3>3. [read EXCEPT !.open = next.open] \in ReadState
        BY <1>2, <3>1 DEF ReadState
      <3>4. QED
        BY <3>2, <3>3
    <2> HIDE DEF open, groups
    <2>6. Elements(next.open.agents) = AgentsAt(lines, n) /\ Elements(next.open.rules) = RulesHere(lines, n)
      BY <1>3, <1>4, <1>5, <1>9, <2>3, <2>4
    <2>7. \A a : Speaks(groups \cup {next.open}, a) <=> Speaks(groups \cup {open}, a)
      BY <2>3 DEF Speaks
    <2>8. \A a, r : Tells(groups \cup {next.open}, a, r) <=>
                      Tells(groups \cup {open}, a, r) \/ (a \in Elements(open.agents) /\ r = rule)
      BY <2>3, <2>4 DEF Tells
    <2>9. Elements(next.groups) = groups
      BY <2>2 DEF groups
    <2>10. \A a : Speaks(Elements(next.groups) \cup {next.open}, a) <=> a \in NamedBy(lines, n)
      BY <1>3, <1>4, <2>7, <2>9, Zenon
    <2>11. \A a, r : Tells(Elements(next.groups) \cup {next.open}, a, r) <=> CoveredBy(lines, n, a, r)
      <3>1. ASSUME NEW a, NEW r
            PROVE  Tells(groups \cup {next.open}, a, r) <=> CoveredBy(lines, n, a, r)
        <4>1. /\ Elements(open.agents) = AgentsAt(lines, n - 1)
              /\ Tells(groups \cup {open}, a, r) <=> CoveredBy(lines, n - 1, a, r)
          BY <1>3
        <4>2. CoveredBy(lines, n, a, r) <=>
                CoveredBy(lines, n - 1, a, r) \/ (a \in AgentsAt(lines, n - 1) /\ r = rule)
          BY <1>4
        <4>3. QED
          BY <2>8, <4>1, <4>2, Zenon
      <3>2. QED
        BY <2>9, <3>1
    <2>12. QED
      BY <2>5, <2>6, <2>10, <2>11
  <1>10. QED
    BY <1>8, <1>9

(* Reading any line.                                                       *)
LEMMA LineTaken ==
  ASSUME NEW lines \in Seq(LineType), NEW n \in DOMAIN lines, NEW read, SoFar(lines, n - 1, read)
  PROVE  SoFar(lines, n, ReadLine(read, lines[n]))
  <1>1. lines[n] \in LineType
    BY LenProperties, ElementOfSeq
  <1>2. CASE lines[n].name = "user-agent"
    <2>1. n \in AgentLines(lines)
      BY <1>2 DEF AgentLines
    <2>2. ReadLine(read, lines[n]) = NameAgent(read, lines[n].value)
      BY <1>2 DEF ReadLine
    <2>3. QED
      BY <2>1, <2>2, AgentTaken
  <1>3. CASE lines[n].name \in {"allow", "disallow"} /\ ~Blank(lines[n].value)
    <2>1. n \in RuleLines(lines)
      BY <1>3 DEF RuleLines, IsRule
    <2>2. ReadLine(read, lines[n]) = AddRule(read, lines[n].name = "allow", lines[n].value)
      BY <1>3 DEF ReadLine
    <2>3. QED
      BY <2>1, <2>2, RuleTaken
  <1>4. CASE lines[n].name # "user-agent" /\ ~(lines[n].name \in {"allow", "disallow"} /\ ~Blank(lines[n].value))
    <2>1. n \notin AgentLines(lines) /\ n \notin RuleLines(lines)
      BY <1>4 DEF AgentLines, RuleLines, IsRule
    <2>2. ReadLine(read, lines[n]) = read
      BY <1>4 DEF ReadLine, AddRule
    <2>3. /\ AgentsAt(lines, n) = AgentsAt(lines, n - 1) /\ RulesHere(lines, n) = RulesHere(lines, n - 1)
          /\ NamedBy(lines, n) = NamedBy(lines, n - 1)
          /\ \A a, r : CoveredBy(lines, n, a, r) <=> CoveredBy(lines, n - 1, a, r)
      BY <2>1, LinePasses
    <2>4. SoFar(lines, n, read)
      BY <2>3 DEF SoFar
    <2>5. QED
      BY <2>2, <2>4
  <1>5. QED
    BY <1>2, <1>3, <1>4

(* So reading them all comes to what they say.                             *)
LEMMA LinesRead ==
  ASSUME NEW lines \in Seq(LineType)
  PROVE  SoFar(lines, Len(lines), ReadLines(lines)[Len(lines)])
  <1> DEFINE N == Len(lines)
             start == [groups |-> << >>, open |-> NoGroup]
             F == [n \in 1..N |-> [s \in ReadState |-> ReadLine(s, lines[n])]]
             step(g) == [n \in 0..N |-> IF n = 0 THEN start ELSE ReadLine(g[n - 1], lines[n])]
             read == CHOOSE g : g = step(g)
  <1>1. N \in Nat /\ DOMAIN lines = 1..N /\ \A n \in 1..N : lines[n] \in LineType
    BY LenProperties, ElementOfSeq
  <1>2. start \in ReadState
    BY DEF ReadState, NoGroup, GroupType
  <1>3. ASSUME NEW s \in ReadState, NEW line \in LineType PROVE ReadLine(s, line) \in ReadState
    <2>0. s.groups \in Seq(GroupType) /\ s.open \in GroupType
          /\ s.open.agents \in Seq(Agent) /\ s.open.rules \in Seq(RuleType)
      BY <1>3 DEF ReadState, GroupType
    <2>1. CASE line.name = "user-agent"
      <3>1. line.value \in Agent
        BY <1>3, <2>1 DEF LineType
      <3>2. CASE s.open.rules # << >>
        <4>1. Append(s.groups, s.open) \in Seq(GroupType)
          BY <2>0, AppendProperties
        <4>2. <<line.value>> \in Seq(Agent) /\ << >> \in Seq(RuleType)
          BY <3>1
        <4>3. QED
          BY <2>1, <3>2, <4>1, <4>2 DEF ReadLine, NameAgent, ReadState, GroupType
      <3>3. CASE s.open.rules = << >>
        <4>1. Append(s.open.agents, line.value) \in Seq(Agent)
          BY <2>0, <3>1, AppendProperties
        <4>2. [s.open EXCEPT !.agents = Append(@, line.value)] \in GroupType
          BY <2>0, <4>1 DEF GroupType
        <4>3. ReadLine(s, line) = [s EXCEPT !.open = [s.open EXCEPT !.agents = Append(@, line.value)]]
          BY <1>3, <2>1, <3>3 DEF ReadLine, NameAgent, ReadState
        <4> DEFINE o == [s.open EXCEPT !.agents = Append(@, line.value)]
        <4> HIDE DEF o
        <4>4. [s EXCEPT !.open = o] \in ReadState
          BY <1>3, <4>2 DEF ReadState, o
        <4>5. QED
          BY <4>3, <4>4 DEF o
      <3>4. QED
        BY <3>2, <3>3
    <2>2. CASE line.name \in {"allow", "disallow"}
      <3> DEFINE rule == [allow |-> line.name = "allow", path |-> line.value]
      <3>1. rule \in RuleType
        BY <1>3, <2>2 DEF LineType, RuleType, ValueType
      <3>2. CASE Blank(line.value) \/ s.open.agents = << >>
        BY <1>3, <2>2, <3>2 DEF ReadLine, AddRule
      <3>3. CASE ~(Blank(line.value) \/ s.open.agents = << >>)
        <4> DEFINE o == [s.open EXCEPT !.rules = Append(@, rule)]
        <4>1. ReadLine(s, line) = [s EXCEPT !.open.rules = Append(@, rule)]
          BY <2>2, <3>3 DEF ReadLine, AddRule
        <4> HIDE DEF rule
        <4>2. Append(s.open.rules, rule) \in Seq(RuleType)
          BY <2>0, <3>1, AppendProperties
        <4>3. o \in GroupType
          BY <2>0, <4>2 DEF GroupType
        <4>4. ReadLine(s, line) = [s EXCEPT !.open = o]
          BY <1>3, <4>1 DEF ReadState
        <4> HIDE DEF o
        <4>5. [s EXCEPT !.open = o] \in ReadState
          BY <1>3, <4>3 DEF ReadState
        <4>6. QED
          BY <4>4, <4>5
      <3>4. QED
        BY <3>2, <3>3
    <2>3. CASE line.name \notin {"user-agent", "allow", "disallow"}
      BY <1>3, <2>3 DEF ReadLine
    <2>4. QED
      BY <2>1, <2>2, <2>3
  <1> HIDE DEF start
  <1>4. F \in [1..N -> [ReadState -> ReadState]]
    <2> HIDE DEF N
    <2> QED BY <1>1, <1>3
  <1>5. ASSUME NEW g \in [0..N -> ReadState] PROVE step(g) = Loop(N, start, F, g)
    <2>1. ASSUME NEW n \in 0..N, n # 0 PROVE F[n][g[n - 1]] = ReadLine(g[n - 1], lines[n])
      <3>1. n \in 1..N /\ n - 1 \in 0..N
        BY <1>1, <2>1
      <3>2. g[n - 1] \in ReadState
        BY <1>5, <3>1
      <3>3. QED
        BY <3>1, <3>2
    <2> HIDE DEF F, N
    <2>2. QED
      BY <2>1 DEF Loop
  <1>6. PICK g : g \in [0..N -> ReadState] /\ g = Loop(N, start, F, g)
    <2> HIDE DEF F, N
    <2>1. Looping(ReadState, N, start, F)
      BY <1>1, <1>2, <1>4 DEF Looping
    <2>2. Runs(ReadState, N, start, F)
      BY <2>1, LoopRuns, Zenon
    <2>3. QED
      BY <2>2, Zenon DEF Runs
  <1>7. read = step(read)
    <2>1. g = step(g)
      BY <1>5, <1>6
    <2> HIDE DEF step
    <2>2. QED
      BY <2>1
  <1>8. ReadLines(lines) = read
    BY DEF ReadLines, start
  <1>9. read[0] = start /\ \A n \in 1..N : read[n] = ReadLine(read[n - 1], lines[n])
    <2> HIDE DEF read, N
    <2>1. \A n \in 1..N : n \in 0..N /\ n # 0
      BY <1>1
    <2>2. 0 \in 0..N
      BY <1>1
    <2>3. QED
      BY <1>7, <2>1, <2>2
  <1> HIDE DEF read
  <1> DEFINE P == {n \in 0..N : SoFar(lines, n, read[n])}
  <1>10. 0 \in P
    <2>1. AgentLines(lines) \subseteq Nat \ {0} /\ RuleLines(lines) \subseteq Nat \ {0}
      BY LineSets
    <2>2. \A i \in Nat \ {0} : ~(i <= 0)
      OBVIOUS
    <2>3. /\ OpenAt(AgentLines(lines), RuleLines(lines), 0) = {} /\ RulesAt(AgentLines(lines), RuleLines(lines), 0) = {}
          /\ {i \in AgentLines(lines) : i <= 0} = {}
      BY <2>1, <2>2 DEF OpenAt, RulesAt
    <2>4. AgentsAt(lines, 0) = {} /\ RulesHere(lines, 0) = {} /\ NamedBy(lines, 0) = {}
      BY <2>3 DEF AgentsAt, RulesHere, NamedBy
    <2>5. \A a, r : ~CoveredBy(lines, 0, a, r)
      BY <2>1, <2>2 DEF CoveredBy
    <2>6. Elements(<< >>) = {}
      BY DEF Elements
    <2>7. start.groups = << >> /\ start.open.agents = << >> /\ start.open.rules = << >>
      BY DEF start, NoGroup
    <2>8. \A a, r : ~Speaks(Elements(start.groups) \cup {start.open}, a)
                    /\ ~Tells(Elements(start.groups) \cup {start.open}, a, r)
      BY <2>6, <2>7 DEF Speaks, Tells
    <2>9. SoFar(lines, 0, start)
      BY <1>2, <2>4, <2>5, <2>6, <2>7, <2>8 DEF SoFar
    <2>10. QED
      BY <1>1, <1>9, <2>9
  <1>11. ASSUME NEW n \in 1..N, n - 1 \in P PROVE n \in P
    <2>1. SoFar(lines, n - 1, read[n - 1])
      BY <1>11
    <2>2. SoFar(lines, n, ReadLine(read[n - 1], lines[n]))
      BY <1>1, <1>11, <2>1, LineTaken
    <2>3. n \in 0..N
      BY <1>1
    <2>4. QED
      BY <1>9, <2>2, <2>3
  <1>12. \A n \in 0..N : n \in P
    <2> HIDE DEF P, N
    <2> QED BY <1>1, <1>10, <1>11, LoopInduction
  <1>13. N \in 0..N
    BY <1>1
  <1>14. QED
    BY <1>8, <1>12, <1>13

(* Line j of the file is rule r, under line i that names agent a.          *)
RuledBy(lines, a, r) ==
  \E j \in RuleLines(lines), i \in AgentLines(lines) :
    Covers(lines, i, j) /\ a = lines[i].value /\ r = RuleOf(lines[j])

(* What the groups of a file come to: the agents it names, each with the   *)
(* rules its group covers.                                                 *)
LEMMA GroupsRead ==
  ASSUME NEW lines \in Seq(LineType)
  PROVE  /\ Groups(lines) \in Seq(GroupType)
         /\ \A a : Speaks(Elements(Groups(lines)), a) <=> \E i \in AgentLines(lines) : a = lines[i].value
         /\ \A a, r : Tells(Elements(Groups(lines)), a, r) <=> RuledBy(lines, a, r)
  <1> DEFINE N == Len(lines)
             read == ReadLines(lines)[N]
             all == Elements(read.groups) \cup {read.open}
             groups == Groups(lines)
  <1>1. DOMAIN lines = 1..N /\ N \in Nat /\ AgentLines(lines) \subseteq DOMAIN lines /\ RuleLines(lines) \subseteq DOMAIN lines
    BY LenProperties, LineSets
  <1>2. SoFar(lines, N, read)
    BY LinesRead
  <1>3. groups = IF read.open = NoGroup THEN read.groups ELSE Append(read.groups, read.open)
    BY DEF Groups
  <1> HIDE DEF read, groups, N
  <1>4. /\ read \in ReadState /\ read.groups \in Seq(GroupType) /\ read.open \in GroupType
        /\ \A a : Speaks(all, a) <=> a \in NamedBy(lines, N)
        /\ \A a, r : Tells(all, a, r) <=> CoveredBy(lines, N, a, r)
    BY <1>2 DEF SoFar, ReadState
  <1>5. /\ groups \in Seq(GroupType)
        /\ \A a, r : (Speaks(Elements(groups), a) <=> Speaks(all, a)) /\ (Tells(Elements(groups), a, r) <=> Tells(all, a, r))
    <2>1. CASE read.open = NoGroup
      <3>1. Elements(read.open.agents) = {}
        BY <2>1 DEF NoGroup, Elements
      <3>2. groups = read.groups
        BY <1>3, <2>1
      <3>3. \A a, r : (Speaks(Elements(groups), a) <=> Speaks(all, a)) /\ (Tells(Elements(groups), a, r) <=> Tells(all, a, r))
        BY <3>1, <3>2 DEF Speaks, Tells
      <3>4. QED
        BY <1>4, <3>2, <3>3
    <2>2. CASE read.open # NoGroup
      <3>1. groups = Append(read.groups, read.open)
        BY <1>3, <2>2
      <3>2. groups \in Seq(GroupType) /\ Elements(groups) = all
        BY <1>4, <3>1, AppendedElements
      <3>3. QED
        BY <3>2
    <2>3. QED
      BY <2>1, <2>2
  <1> HIDE DEF all
  <1>6. \A a : a \in NamedBy(lines, N) <=> \E i \in AgentLines(lines) : a = lines[i].value
    <2>1. {i \in AgentLines(lines) : i <= N} = AgentLines(lines)
      BY <1>1
    <2>2. QED
      BY <2>1 DEF NamedBy
  <1>7. ASSUME NEW a, NEW r
        PROVE  CoveredBy(lines, N, a, r) <=> RuledBy(lines, a, r)
    <2>1. ASSUME CoveredBy(lines, N, a, r)
          PROVE  RuledBy(lines, a, r)
      <3>1. PICK j \in RuleLines(lines) :
              r = RuleOf(lines[j])
              /\ \E i \in OpenAt(AgentLines(lines), RuleLines(lines), j - 1) : a = lines[i].value
        BY <2>1, Zenon DEF CoveredBy
      <3>2. PICK i \in OpenAt(AgentLines(lines), RuleLines(lines), j - 1) : a = lines[i].value
        BY <3>1
      <3>3. i \in AgentLines(lines)
        BY DEF OpenAt
      <3>4. Covers(lines, i, j)
        BY <1>1, <3>3, CoversIsOpen, Zenon
      <3>5. QED
        BY <3>1, <3>2, <3>3, <3>4, Zenon DEF RuledBy
    <2>2. ASSUME NEW j \in RuleLines(lines), NEW i \in AgentLines(lines),
                 Covers(lines, i, j), a = lines[i].value, r = RuleOf(lines[j])
          PROVE  CoveredBy(lines, N, a, r)
      <3>1. i \in OpenAt(AgentLines(lines), RuleLines(lines), j - 1)
        BY <1>1, <2>2, CoversIsOpen, Zenon
      <3>2. j <= N
        BY <1>1
      <3>3. QED
        BY <2>2, <3>1, <3>2, Zenon DEF CoveredBy
    <2>3. QED
      BY <2>1, <2>2, Zenon DEF RuledBy
  <1>8. \A a : Speaks(Elements(groups), a) <=> \E i \in AgentLines(lines) : a = lines[i].value
    <2>1. ASSUME NEW a PROVE Speaks(Elements(groups), a) <=> a \in NamedBy(lines, N)
      BY <1>4, <1>5, Zenon
    <2>2. QED
      BY <1>6, <2>1, Zenon
  <1>9. \A a, r : Tells(Elements(groups), a, r) <=> RuledBy(lines, a, r)
    <2>1. ASSUME NEW a, NEW r PROVE Tells(Elements(groups), a, r) <=> CoveredBy(lines, N, a, r)
      BY <1>4, <1>5, Zenon
    <2>2. QED
      BY <1>7, <2>1, Zenon
  <1>10. groups = Groups(lines)
    BY DEF groups
  <1>11. QED
    BY <1>5, <1>8, <1>9, <1>10, Zenon
(* A set of ranks with -1: its largest member is one of them or -1, and at *)
(* least each of them.                                                     *)
LEMMA LargestRank ==
  ASSUME NEW S, IsFiniteSet(S), S \subseteq Int
  PROVE  LET m == Max(S \cup {-1})
         IN m \in S \cup {-1} /\ m \in Int /\ m >= -1 /\ \A y \in S : m >= y
  <1> DEFINE R == S \cup {-1}
  <1>1. IsFiniteSet(R)
    BY FS_AddElement
  <1>2. R \subseteq Int /\ R # {} /\ -1 \in R
    OBVIOUS
  <1> HIDE DEF R
  <1>3. Max(R) \in R /\ \A y \in R : Max(R) >= y
    BY <1>1, <1>2, LargestNumber
  <1>4. QED
    BY <1>2, <1>3 DEF R

(* The elements of a sequence are finitely many.                           *)
LEMMA ElementsAreFinite ==
  ASSUME NEW T, NEW s \in Seq(T)
  PROVE  IsFiniteSet(Elements(s)) /\ Elements(s) \subseteq T /\ ToSet(s) = Elements(s)
  <1>1. DOMAIN s = 1..Len(s) /\ Len(s) \in Nat /\ \A i \in 1..Len(s) : s[i] \in T
    BY LenProperties, ElementOfSeq
  <1>2. IsFiniteSet(DOMAIN s)
    BY <1>1, FS_Interval
  <1>3. Elements(s) = {s[i] : i \in DOMAIN s}
    BY DEF Elements
  <1>4. IsFiniteSet({s[i] : i \in DOMAIN s})
    BY <1>2, ImageIsFinite
  <1>5. ToSet(s) = {s[i] : i \in DOMAIN s}
    BY DEF ToSet
  <1>6. QED
    BY <1>1, <1>3, <1>4, <1>5

(* A group's best agent is one of its agents, and none is longer.          *)
LEMMA MatchOfGroup ==
  ASSUME NEW g \in GroupType, RobotsAssumption
  PROVE  /\ AgentMatch(g) \in Int /\ AgentMatch(g) >= -1
         /\ \A a \in Elements(g.agents) : Rank[a] \in Int /\ AgentMatch(g) >= Rank[a]
         /\ AgentMatch(g) # -1 => \E a \in Elements(g.agents) : Rank[a] = AgentMatch(g)
  <1> DEFINE A == Elements(g.agents)
             S == {Rank[a] : a \in A}
  <1>1. IsFiniteSet(A) /\ A \subseteq Agent /\ ToSet(g.agents) = A
    BY ElementsAreFinite DEF GroupType
  <1> HIDE DEF A
  <1>2. IsFiniteSet(S)
    BY <1>1, ImageIsFinite DEF RobotsAssumption
  <1>3. S \subseteq Int
    BY <1>1 DEF RobotsAssumption
  <1>4. AgentMatch(g) = Max(S \cup {-1})
    BY <1>1 DEF AgentMatch
  <1>5. \A a \in A : Rank[a] \in S
    OBVIOUS
  <1> HIDE DEF S
  <1>6. /\ AgentMatch(g) \in S \cup {-1} /\ AgentMatch(g) \in Int /\ AgentMatch(g) >= -1
        /\ \A y \in S : AgentMatch(g) >= y
    BY <1>2, <1>3, <1>4, LargestRank
  <1>7. QED
    BY <1>3, <1>5, <1>6 DEF A, S
(* The most specific agent of a file, over its groups and over its lines.  *)
BestOfGroups(groups) == Max({AgentMatch(g) : g \in ToSet(groups)} \cup {-1})
BestOfLines(lines) == Max({Rank[lines[i].value] : i \in AgentLines(lines)} \cup {-1})

(* The best of the groups is one of theirs, and none is better.            *)
LEMMA BestOfGroupsBounds ==
  ASSUME NEW groups \in Seq(GroupType), RobotsAssumption
  PROVE  LET best == BestOfGroups(groups)
         IN /\ best \in Int /\ best >= -1
            /\ \A g \in Elements(groups) : AgentMatch(g) \in Int /\ best >= AgentMatch(g)
            /\ best # -1 => \E g \in Elements(groups) : best = AgentMatch(g)
  <1> DEFINE G == Elements(groups)
             match == [g \in G |-> AgentMatch(g)]
             S == {match[g] : g \in G}
  <1>1. IsFiniteSet(G) /\ G \subseteq GroupType /\ ToSet(groups) = G
    BY ElementsAreFinite
  <1> HIDE DEF G
  <1>2. DOMAIN match = G /\ \A g \in G : match[g] = AgentMatch(g)
    OBVIOUS
  <1>3. {AgentMatch(g) : g \in G} = S
    OBVIOUS
  <1>4. \A g \in G : AgentMatch(g) \in Int
    BY <1>1, MatchOfGroup
  <1>5. S \subseteq Int /\ \A g \in G : AgentMatch(g) \in S
    BY <1>4
  <1>6. \A y \in S : \E g \in G : y = AgentMatch(g)
    OBVIOUS
  <1> HIDE DEF match
  <1>7. IsFiniteSet(S)
    BY <1>1, <1>2, ImageIsFinite
  <1>8. BestOfGroups(groups) = Max(S \cup {-1})
    BY <1>1, <1>3 DEF BestOfGroups
  <1> HIDE DEF S
  <1> DEFINE best == BestOfGroups(groups)
  <1>9. best \in S \cup {-1} /\ best \in Int /\ best >= -1 /\ \A y \in S : best >= y
    BY <1>5, <1>7, <1>8, LargestRank
  <1> HIDE DEF best
  <1>10. QED
    BY <1>4, <1>5, <1>6, <1>9 DEF G, best

(* The best of the lines is one of theirs, and none is better.             *)
LEMMA BestOfLinesBounds ==
  ASSUME NEW lines \in Seq(LineType), RobotsAssumption
  PROVE  LET best == BestOfLines(lines)
         IN /\ best \in Int /\ best >= -1
            /\ \A i \in AgentLines(lines) : Rank[lines[i].value] \in Int /\ best >= Rank[lines[i].value]
            /\ best # -1 => \E i \in AgentLines(lines) : best = Rank[lines[i].value]
  <1> DEFINE U == AgentLines(lines)
             rank == [i \in U |-> Rank[lines[i].value]]
             S == {rank[i] : i \in U}
  <1>1. U \subseteq DOMAIN lines /\ \A i \in U : lines[i].value \in Agent
    BY LineSets
  <1>2. IsFiniteSet(U)
    <2>1. IsFiniteSet(DOMAIN lines)
      BY LenProperties, FS_Interval
    <2> HIDE DEF U
    <2>2. QED
      BY <1>1, <2>1, FS_Subset
  <1> HIDE DEF U
  <1>3. DOMAIN rank = U /\ \A i \in U : rank[i] = Rank[lines[i].value]
    OBVIOUS
  <1>4. {Rank[lines[i].value] : i \in U} = S
    OBVIOUS
  <1>5. \A i \in U : Rank[lines[i].value] \in Int
    BY <1>1 DEF RobotsAssumption
  <1>6. S \subseteq Int /\ \A i \in U : Rank[lines[i].value] \in S
    BY <1>5
  <1>7. \A y \in S : \E i \in U : y = Rank[lines[i].value]
    OBVIOUS
  <1> HIDE DEF rank
  <1>8. IsFiniteSet(S)
    BY <1>2, <1>3, ImageIsFinite
  <1>9. BestOfLines(lines) = Max(S \cup {-1})
    BY <1>4 DEF BestOfLines, U
  <1> HIDE DEF S
  <1> DEFINE best == BestOfLines(lines)
  <1>10. best \in S \cup {-1} /\ best \in Int /\ best >= -1 /\ \A y \in S : best >= y
    BY <1>6, <1>8, <1>9, LargestRank
  <1> HIDE DEF best
  <1>11. QED
    BY <1>5, <1>6, <1>7, <1>10 DEF U, best

(* Grouping the lines loses no agent and adds none.                        *)
LEMMA BestIsTheSame ==
  ASSUME NEW lines \in Seq(LineType), RobotsAssumption
  PROVE  BestOfGroups(Groups(lines)) = BestOfLines(lines)
  <1> DEFINE groups == Groups(lines)
             b == BestOfGroups(groups)
             c == BestOfLines(lines)
  <1>1. /\ groups \in Seq(GroupType)
        /\ \A a : Speaks(Elements(groups), a) <=> \E i \in AgentLines(lines) : a = lines[i].value
    BY GroupsRead
  <1>2. \A g \in Elements(groups) : g \in GroupType
    BY <1>1, ElementsAreFinite
  <1> HIDE DEF groups
  <1>3. /\ b \in Int /\ b >= -1
        /\ \A g \in Elements(groups) : AgentMatch(g) \in Int /\ b >= AgentMatch(g)
        /\ b # -1 => \E g \in Elements(groups) : b = AgentMatch(g)
    BY <1>1, BestOfGroupsBounds
  <1>4. /\ c \in Int /\ c >= -1
        /\ \A i \in AgentLines(lines) : Rank[lines[i].value] \in Int /\ c >= Rank[lines[i].value]
        /\ c # -1 => \E i \in AgentLines(lines) : c = Rank[lines[i].value]
    BY BestOfLinesBounds
  <1> HIDE DEF b, c
  <1>5. c >= b
    <2>1. CASE b = -1
      BY <1>4, <2>1
    <2>2. CASE b # -1
      <3>1. PICK g \in Elements(groups) : b = AgentMatch(g)
        BY <1>3, <2>2
      <3>2. PICK a \in Elements(g.agents) : Rank[a] = b
        BY <1>2, <2>2, <3>1, MatchOfGroup
      <3>3. PICK i \in AgentLines(lines) : a = lines[i].value
        BY <1>1 DEF Speaks
      <3>4. QED
        BY <1>4, <3>2, <3>3
    <2>3. QED
      BY <2>1, <2>2
  <1>6. b >= c
    <2>1. CASE c = -1
      BY <1>3, <2>1
    <2>2. CASE c # -1
      <3>1. PICK i \in AgentLines(lines) : c = Rank[lines[i].value]
        BY <1>4, <2>2
      <3>2. PICK g \in Elements(groups) : lines[i].value \in Elements(g.agents)
        BY <1>1 DEF Speaks
      <3>3. AgentMatch(g) \in Int /\ AgentMatch(g) >= c
        BY <1>2, <3>1, <3>2, MatchOfGroup
      <3>4. b >= AgentMatch(g)
        BY <1>3
      <3>5. QED
        BY <1>3, <1>4, <3>3, <3>4
    <2>3. QED
      BY <2>1, <2>2
  <1>7. b = c
    BY <1>3, <1>4, <1>5, <1>6
  <1>8. QED
    BY <1>7 DEF b, c, groups
(* The rules that group n adds, and those that the first n groups have.    *)
More(groups, best, n) == IF AgentMatch(groups[n]) = best THEN groups[n].rules ELSE << >>
FirstRules(groups, best, n, r) ==
  \E k \in 1..n : AgentMatch(groups[k]) = best /\ r \in Elements(groups[k].rules)

(* What is gathered with one group more.                                   *)
LEMMA MoreRules ==
  ASSUME NEW groups \in Seq(GroupType), NEW best, NEW n \in 1..Len(groups), NEW s \in Seq(RuleType)
  PROVE  /\ s \o More(groups, best, n) \in Seq(RuleType)
         /\ \A r : r \in Elements(s \o More(groups, best, n)) <=>
              r \in Elements(s) \/ (AgentMatch(groups[n]) = best /\ r \in Elements(groups[n].rules))
  <1> DEFINE t == More(groups, best, n)
  <1>1. groups[n] \in GroupType
    BY ElementOfSeq
  <1>2. t \in Seq(RuleType)
    BY <1>1 DEF More, GroupType
  <1>3. \A r : r \in Elements(t) <=> AgentMatch(groups[n]) = best /\ r \in Elements(groups[n].rules)
    <2>1. CASE AgentMatch(groups[n]) = best
      BY <2>1 DEF More
    <2>2. CASE AgentMatch(groups[n]) # best
      <3>1. t = << >>
        BY <2>2 DEF More
      <3>2. Elements(<< >>) = {}
        BY DEF Elements
      <3>3. QED
        BY <2>2, <3>1, <3>2
    <2>3. QED
      BY <2>1, <2>2
  <1> HIDE DEF t
  <1>4. s \o t \in Seq(RuleType)
    BY <1>2, ConcatProperties
  <1>5. Elements(s \o t) = Elements(s) \cup Elements(t)
    BY <1>2, JoinedElements
  <1>6. \A r : r \in Elements(s \o t) <=>
          r \in Elements(s) \/ (AgentMatch(groups[n]) = best /\ r \in Elements(groups[n].rules))
    BY <1>3, <1>5, Zenon
  <1>7. QED
    BY <1>4, <1>6, Zenon DEF t

(* The gathering of rules, turn by turn.                                   *)
LEMMA GatheredTurns ==
  ASSUME NEW groups \in Seq(GroupType), NEW best
  PROVE  \E g : /\ g \in [0..Len(groups) -> Seq(RuleType)]
                /\ g[0] = << >> /\ \A n \in 1..Len(groups) : g[n] = g[n - 1] \o More(groups, best, n)
                /\ Gathered(groups, best) = g[Len(groups)]
  <1> DEFINE N == Len(groups)
             S == Seq(RuleType)
             F == [n \in 1..N |-> [s \in S |-> s \o More(groups, best, n)]]
             step(g) == [n \in 0..N |-> IF n = 0 THEN << >>
                           ELSE g[n - 1] \o (IF AgentMatch(groups[n]) = best THEN groups[n].rules ELSE << >>)]
             c == CHOOSE g : g = step(g)
  <1>1. N \in Nat
    BY LenProperties
  <1>2. << >> \in S
    OBVIOUS
  <1>3. \A n \in 1..N, s \in S : s \o More(groups, best, n) \in S
    BY MoreRules
  <1> HIDE DEF S
  <1>4. F \in [1..N -> [S -> S]]
    BY <1>3
  <1>5. ASSUME NEW g \in [0..N -> S] PROVE step(g) = Loop(N, << >>, F, g)
    <2>1. ASSUME NEW n \in 0..N, n # 0 PROVE F[n][g[n - 1]] = g[n - 1] \o More(groups, best, n)
      <3>1. n \in 1..N /\ n - 1 \in 0..N
        BY <1>1, <2>1
      <3>2. g[n - 1] \in S
        BY <1>5, <3>1
      <3>3. QED
        BY <3>1, <3>2
    <2> HIDE DEF F, N
    <2>2. step(g) = [n \in 0..N |-> IF n = 0 THEN << >> ELSE g[n - 1] \o More(groups, best, n)]
      BY DEF More
    <2>3. QED
      BY <2>1, <2>2 DEF Loop
  <1>6. PICK g : g \in [0..N -> S] /\ g = Loop(N, << >>, F, g)
    <2> HIDE DEF F, N
    <2>1. Looping(S, N, << >>, F)
      BY <1>1, <1>2, <1>4 DEF Looping
    <2>2. Runs(S, N, << >>, F)
      BY <2>1, LoopRuns, Zenon
    <2>3. QED
      BY <2>2, Zenon DEF Runs
  <1>7. c = step(c)
    <2>1. g = step(g)
      BY <1>5, <1>6
    <2> HIDE DEF step
    <2>2. QED
      BY <2>1
  <1>8. /\ c[0] = << >> /\ \A n \in 1..N : c[n] = c[n - 1] \o More(groups, best, n)
        /\ c = [n \in 0..N |-> c[n]]
    <2> HIDE DEF c, N
    <2>1. \A n \in 1..N : n \in 0..N /\ n # 0
      BY <1>1
    <2>2. 0 \in 0..N
      BY <1>1
    <2>3. QED
      BY <1>7, <2>1, <2>2 DEF More
  <1>9. Gathered(groups, best) = c[N]
    BY DEF Gathered
  <1> HIDE DEF c, N, F
  <1> DEFINE P == {n \in 0..N : c[n] \in S}
  <1>10. 0 \in P
    BY <1>1, <1>2, <1>8
  <1>11. \A n \in 1..N : n - 1 \in P => n \in P
    <2>1. \A n \in 1..N : n \in 0..N
      BY <1>1
    <2>2. QED
      BY <1>3, <1>8, <2>1
  <1>12. \A n \in 0..N : n \in P
    <2> HIDE DEF P
    <2> QED BY <1>1, <1>10, <1>11, LoopInduction
  <1>13. c \in [0..N -> S]
    BY <1>8, <1>12
  <1>14. QED
    BY <1>8, <1>9, <1>13 DEF N, S

(* What is gathered are the rules of the groups whose best agent is best   *)
(* symbols long.                                                           *)
LEMMA GatheredRules ==
  ASSUME NEW groups \in Seq(GroupType), NEW best
  PROVE  /\ Gathered(groups, best) \in Seq(RuleType)
         /\ \A r : r \in Elements(Gathered(groups, best)) <=>
              \E g \in Elements(groups) : AgentMatch(g) = best /\ r \in Elements(g.rules)
  <1> DEFINE N == Len(groups)
  <1>1. PICK g : /\ g \in [0..N -> Seq(RuleType)]
                 /\ g[0] = << >> /\ \A n \in 1..N : g[n] = g[n - 1] \o More(groups, best, n)
                 /\ Gathered(groups, best) = g[N]
    BY GatheredTurns
  <1>2. N \in Nat /\ DOMAIN groups = 1..N
    BY LenProperties
  <1> HIDE DEF N
  <1> DEFINE P == {n \in 0..N : \A r : r \in Elements(g[n]) <=> FirstRules(groups, best, n, r)}
  <1>3. 0 \in P
    <2>1. Elements(<< >>) = {} /\ 1..0 = {} /\ 0 \in 0..N
      BY <1>2 DEF Elements
    <2>2. QED
      BY <1>1, <2>1 DEF FirstRules
  <1>4. ASSUME NEW n \in 1..N, n - 1 \in P PROVE n \in P
    <2>1. n \in 0..N /\ n - 1 \in 0..N /\ g[n - 1] \in Seq(RuleType)
      BY <1>1, <1>2
    <2>2. \A r : r \in Elements(g[n]) <=>
            r \in Elements(g[n - 1]) \/ (AgentMatch(groups[n]) = best /\ r \in Elements(groups[n].rules))
      <3> DEFINE s == g[n - 1]
      <3>1. s \in Seq(RuleType) /\ n \in 1..Len(groups)
        BY <2>1 DEF N
      <3>2. g[n] = s \o More(groups, best, n)
        BY <1>1
      <3> HIDE DEF s
      <3>3. \A r : r \in Elements(s \o More(groups, best, n)) <=>
              r \in Elements(s) \/ (AgentMatch(groups[n]) = best /\ r \in Elements(groups[n].rules))
        BY <3>1, MoreRules, Zenon
      <3>4. QED
        BY <3>2, <3>3, Zenon DEF s
    <2>3. \A k : k \in 1..n <=> k \in 1..(n - 1) \/ k = n
      BY <1>2
    <2>4. \A r : FirstRules(groups, best, n, r) <=>
            FirstRules(groups, best, n - 1, r) \/ (AgentMatch(groups[n]) = best /\ r \in Elements(groups[n].rules))
      BY <2>3, Zenon DEF FirstRules
    <2>5. \A r : r \in Elements(g[n - 1]) <=> FirstRules(groups, best, n - 1, r)
      BY <1>4
    <2>6. \A r : r \in Elements(g[n]) <=> FirstRules(groups, best, n, r)
      BY <2>2, <2>4, <2>5, Zenon
    <2>7. QED
      BY <2>1, <2>6
  <1>5. \A n \in 0..N : n \in P
    <2> HIDE DEF P
    <2> QED BY <1>2, <1>3, <1>4, LoopInduction
  <1>6. N \in 0..N
    BY <1>2
  <1>7. \A r : r \in Elements(Gathered(groups, best)) <=> FirstRules(groups, best, N, r)
    BY <1>1, <1>5, <1>6
  <1>8. \A r : FirstRules(groups, best, N, r) <=>
                 \E h \in Elements(groups) : AgentMatch(h) = best /\ r \in Elements(h.rules)
    BY <1>2 DEF FirstRules, Elements
  <1>9. QED
    BY <1>1, <1>6, <1>7, <1>8
(* The rules gathered for a file are those of its best agent's lines.      *)
LEMMA RulesOfLines ==
  ASSUME NEW lines \in Seq(LineType), RobotsAssumption, BestOfLines(lines) # -1
  PROVE  LET rules == Gathered(Groups(lines), BestOfGroups(Groups(lines)))
         IN rules \in Seq(RuleType) /\ Elements(rules) = {RuleOf(lines[j]) : j \in RulesFor(lines)}
  <1> DEFINE groups == Groups(lines)
             best == BestOfGroups(groups)
             rules == Gathered(groups, best)
             U == AgentLines(lines)
  <1>1. /\ groups \in Seq(GroupType)
        /\ \A a : Speaks(Elements(groups), a) <=> \E i \in U : a = lines[i].value
        /\ \A a, r : Tells(Elements(groups), a, r) <=> RuledBy(lines, a, r)
    BY GroupsRead
  <1>2. \A g \in Elements(groups) : g \in GroupType
    BY <1>1, ElementsAreFinite
  <1>3. best = BestOfLines(lines) /\ best \in Int /\ best >= 0
    <2>1. best = BestOfLines(lines)
      BY BestIsTheSame
    <2>2. best \in Int /\ best >= -1 /\ best # -1
      <3> HIDE DEF groups
      <3> QED BY <1>1, <2>1, BestOfGroupsBounds
    <2>3. QED
      BY <2>1, <2>2
  <1>4. \A i \in DOMAIN lines : i \in U <=> lines[i].name = "user-agent"
    BY DEF AgentLines
  <1> HIDE DEF groups
  <1>5. \A g \in Elements(groups) : AgentMatch(g) = best <=> \E a \in Elements(g.agents) : Rank[a] = best
    <2>1. ASSUME NEW g \in Elements(groups) PROVE AgentMatch(g) = best <=> \E a \in Elements(g.agents) : Rank[a] = best
      <3>1. /\ AgentMatch(g) \in Int
            /\ \A a \in Elements(g.agents) : Rank[a] \in Int /\ AgentMatch(g) >= Rank[a]
            /\ AgentMatch(g) # -1 => \E a \in Elements(g.agents) : Rank[a] = AgentMatch(g)
        BY <1>2, <2>1, MatchOfGroup
      <3>2. best >= AgentMatch(g)
        BY <1>1, <2>1, BestOfGroupsBounds
      <3> HIDE DEF best
      <3>3. QED
        BY <1>3, <3>1, <3>2
    <2>2. QED
      BY <2>1
  <1>6. /\ rules \in Seq(RuleType)
        /\ \A r : r \in Elements(rules) <=> \E g \in Elements(groups) : AgentMatch(g) = best /\ r \in Elements(g.rules)
    BY <1>1, GatheredRules
  <1> HIDE DEF best, rules
  <1>7. \A r : r \in Elements(rules) <=> \E a : Rank[a] = best /\ RuledBy(lines, a, r)
    <2>1. ASSUME NEW r PROVE r \in Elements(rules) <=> \E a : Rank[a] = best /\ Tells(Elements(groups), a, r)
      BY <1>5, <1>6 DEF Tells
    <2>2. QED
      BY <1>1, <2>1
  <1>8. \A j : j \in RulesFor(lines) <=>
          j \in DOMAIN lines /\ \E i \in U : Rank[lines[i].value] = best /\ Covers(lines, i, j)
    <2>1. best = Max({Rank[lines[i].value] : i \in U} \cup {-1})
      BY <1>3 DEF BestOfLines
    <2>2. QED
      BY <1>3, <2>1 DEF RulesFor, AgentLines
  <1>9. \A i, j \in DOMAIN lines : Covers(lines, i, j) => j \in RuleLines(lines)
    BY DEF Covers, RuleLines
  <1>10. U \subseteq DOMAIN lines /\ RuleLines(lines) \subseteq DOMAIN lines
    BY LineSets
  <1> HIDE DEF U
  <1>11. \A r : (\E a : Rank[a] = best /\ RuledBy(lines, a, r)) <=> \E j \in RulesFor(lines) : r = RuleOf(lines[j])
    <2>1. ASSUME NEW r, NEW a, Rank[a] = best, RuledBy(lines, a, r) PROVE \E j \in RulesFor(lines) : r = RuleOf(lines[j])
      <3>1. PICK j \in RuleLines(lines), i \in U : Covers(lines, i, j) /\ a = lines[i].value /\ r = RuleOf(lines[j])
        BY <2>1 DEF RuledBy, U
      <3>2. j \in RulesFor(lines)
        BY <1>8, <1>10, <2>1, <3>1
      <3>3. QED
        BY <3>1, <3>2
    <2>2. ASSUME NEW r, NEW j \in RulesFor(lines), r = RuleOf(lines[j])
          PROVE \E a : Rank[a] = best /\ RuledBy(lines, a, r)
      <3>1. PICK i \in U : j \in DOMAIN lines /\ Rank[lines[i].value] = best /\ Covers(lines, i, j)
        BY <1>8
      <3>2. j \in RuleLines(lines)
        BY <1>9, <1>10, <3>1
      <3>3. RuledBy(lines, lines[i].value, r)
        BY <2>2, <3>1, <3>2 DEF RuledBy, U
      <3>4. QED
        BY <3>1, <3>3
    <2>3. QED
      BY <2>1, <2>2
  <1>12. Elements(rules) = {RuleOf(lines[j]) : j \in RulesFor(lines)}
    BY <1>7, <1>11
  <1>13. QED
    BY <1>6, <1>12 DEF rules, best, groups

(* The verdict on a path is the ruling of the file.                        *)
Matching(path, value) == RuleMatches(path, [path |-> value])

(* The verdict on a path is the ruling of the file: its best agent's rules *)
(* are gone through, and the best that matches decides.                    *)
LEMMA DispositionIsRuling ==
  ASSUME NEW lines \in Seq(LineType), NEW path, RobotsAssumption
  PROVE  Disposition(path, lines) = Ruling(path, lines, Matching)
  <1> DEFINE groups == Groups(lines)
             best == BestOfGroups(groups)
             rules == Gathered(groups, best)
             hits == {i \in DOMAIN rules : RuleMatches(path, rules[i])}
             matching == {j \in RulesFor(lines) : Matching(path, lines[j].value)}
             rule(j) == [allow |-> lines[j].name = "allow", path |-> lines[j].value]
             longest == {j \in matching : \A k \in matching : Specificity(rule(j)) >= Specificity(rule(k))}
             verdict == MatchingRule(path, groups)
  <1>1. Ruling(path, lines, Matching) = IF matching = {} THEN "unmatched"
          ELSE IF \E j \in longest : rule(j).allow THEN "allowed" ELSE "denied"
    BY DEF Ruling
  <1>2. Disposition(path, lines) = IF verdict = NoRule THEN "unmatched" ELSE IF verdict.allow THEN "allowed" ELSE "denied"
    BY DEF Disposition
  <1>3. verdict = IF best = -1 THEN NoRule ELSE Chosen(rules, hits)
    BY DEF MatchingRule, BestOfGroups
  <1>4. best = BestOfLines(lines)
    BY BestIsTheSame
  <1>5. \A j \in RulesFor(lines) : j \in RuleLines(lines)
    BY DEF RulesFor, Covers, RuleLines
  <1>6. \A j \in RuleLines(lines) : RuleOf(lines[j]) \in RuleType /\ RuleOf(lines[j]) # NoRule
    BY LineSets
  <1>7. \A j : rule(j) = RuleOf(lines[j])
    BY DEF RuleOf
  <1>8. \A j : RuleMatches(path, RuleOf(lines[j])) = Matching(path, lines[j].value)
    BY DEF RuleMatches, Matching, RuleOf
  <1> HIDE DEF groups, best, rules, verdict, rule
  <1>9. CASE BestOfLines(lines) = -1
    <2>1. RulesFor(lines) = {}
      <3>1. Max({Rank[lines[i].value] : i \in AgentLines(lines)} \cup {-1}) = -1
        BY <1>9 DEF BestOfLines
      <3>2. ~(-1 >= 0)
        OBVIOUS
      <3>3. QED
        BY <3>1, <3>2 DEF RulesFor, AgentLines
    <2>2. QED
      BY <1>1, <1>2, <1>3, <1>4, <1>9, <2>1
  <1>10. CASE BestOfLines(lines) # -1
    <2>1. rules \in Seq(RuleType) /\ Elements(rules) = {RuleOf(lines[j]) : j \in RulesFor(lines)}
      BY <1>10, RulesOfLines DEF rules, best, groups
    <2>2. \A i \in DOMAIN rules : \E j \in RulesFor(lines) : rules[i] = RuleOf(lines[j])
      BY <2>1 DEF Elements
    <2>3. \A j \in RulesFor(lines) : \E i \in DOMAIN rules : rules[i] = RuleOf(lines[j])
      BY <2>1 DEF Elements
    <2>4. \A i \in DOMAIN rules : rules[i] # NoRule
      BY <1>5, <1>6, <2>2
    <2>5. \A i \in hits : \E j \in matching : rules[i] = RuleOf(lines[j])
      BY <1>8, <2>2
    <2>6. \A j \in matching : \E i \in hits : rules[i] = RuleOf(lines[j])
      BY <1>8, <2>3
    <2>7. hits \subseteq DOMAIN rules
      OBVIOUS
    <2>8. \A j \in matching : RuleOf(lines[j]) \in RuleType /\ RuleOf(lines[j]) # NoRule
      BY <1>5, <1>6
    <2> HIDE DEF hits, matching
    <2>9. /\ hits = {} => verdict = NoRule
          /\ hits # {} => /\ verdict \in {rules[i] : i \in hits}
                          /\ \A k \in hits : AsGood(verdict, rules[k])
      BY <1>3, <1>4, <1>10, <2>1, <2>4, <2>7, ChosenIsBest
    <2>10. CASE hits = {}
      <3>1. matching = {}
        BY <2>6, <2>10
      <3>2. QED
        BY <1>1, <1>2, <2>9, <2>10, <3>1
    <2>11. CASE hits # {}
      <3>1. PICK j \in matching : verdict = RuleOf(lines[j])
        BY <2>5, <2>9, <2>11
      <3>2. verdict # NoRule /\ verdict \in RuleType /\ matching # {}
        BY <2>8, <3>1
      <3>3. \A k \in matching : AsGood(verdict, RuleOf(lines[k]))
        BY <2>6, <2>9, <2>11
      <3>4. j \in longest
        BY <1>7, <3>1, <3>3 DEF AsGood
      <3>5. ASSUME NEW k \in longest, rule(k).allow PROVE verdict.allow
        <4>1. k \in matching /\ Specificity(RuleOf(lines[k])) >= Specificity(verdict)
          BY <1>7, <3>1, <3>5
        <4>2. AsGood(verdict, RuleOf(lines[k])) /\ RuleOf(lines[k]) \in RuleType
          BY <2>8, <3>3, <4>1
        <4>3. Specificity(RuleOf(lines[k])) \in Nat /\ Specificity(verdict) \in Nat
          BY <3>2, <4>2, SpecificityIsNat
        <4>4. Specificity(RuleOf(lines[k])) = Specificity(verdict)
          BY <4>1, <4>2, <4>3 DEF AsGood
        <4>5. RuleOf(lines[k]).allow
          BY <1>7, <3>5
        <4>6. QED
          BY <4>2, <4>4, <4>5 DEF AsGood
      <3>6. rule(j) = verdict
        BY <1>7, <3>1
      <3>7. (\E k \in longest : rule(k).allow) <=> verdict.allow
        BY <3>4, <3>5, <3>6
      <3>8. QED
        BY <1>1, <1>2, <3>2, <3>7
    <2>12. QED
      BY <2>10, <2>11
  <1>11. QED
    BY <1>9, <1>10
-----------------------------------------------------------------------------
(* What the policy's record says of a URL is what its file says of it, and *)
(* only URLs of the site are asked for.                                    *)
Asked(record) == \A h \in record : h.url \in UrlType /\ h.disposition = Consult(h.url)

AskedInv ==
  /\ Asked(hops)
  /\ pc \in {"walk", "scraped", "follow"} => doc \in UrlType

(* What the record holds in the next state, read in this one.              *)
LEMMA AskedCarried ==
  ASSUME callVars' = callVars
  PROVE  AskedInv' <=> Asked(hops') /\ (pc' \in {"walk", "scraped", "follow"} => doc' \in UrlType)
  <1>1. \A u : Consult(u)' = Consult(u)
    BY DEF Consult, Robots, Dispositions, callVars
  <1>2. Asked(hops)' <=> Asked(hops')
    BY <1>1 DEF Asked
  <1>3. QED
    BY <1>2 DEF AskedInv

(* A document that is asked for, and the one it moved to.                  *)
LEMMA CheckedIsAsked ==
  ASSUME Met, NEW url \in UrlType, Asked(hops), hops' = hops \cup Checked(url)
  PROVE  Asked(hops')
  <1>1. url \in UrlType /\ Final(url) \in UrlType
    BY DocumentOf
  <1>2. \A h \in Checked(url) : h.url \in UrlType /\ h.disposition = Consult(h.url)
    BY <1>1 DEF Checked
  <1>3. QED
    BY <1>2 DEF Asked

(* The page that is about to be scraped is a URL of the site.              *)
LEMMA RequestIsUrl ==
  ASSUME DiscoveryAssumption, CrawlInv, MapInv, pc = "request"
  PROVE  at.url \in UrlType
  <1>1. CASE opt.mode = "crawl"
    BY <1>1 DEF CrawlInv, Crawling, VisitedIsScraped, Busy, EntryType
  <1>2. CASE opt.mode # "crawl"
    BY <1>2 DEF MapInv, DiscoveryAssumption
  <1>3. QED
    BY <1>1, <1>2

(* Every step keeps the record right.                                      *)
LEMMA AskedStep ==
  ASSUME DiscoveryAssumption, CrawlInv, MapInv, AskedInv, [Next]_vars
  PROVE  AskedInv'
  <1>1. Met /\ Asked(hops) /\ (pc \in {"walk", "scraped", "follow"} => doc \in UrlType)
    BY DEF CrawlInv, AskedInv
  <1>2. ASSUME callVars' = callVars, UNCHANGED <<hops, doc>>,
               pc' \in {"walk", "scraped", "follow"} => pc \in {"walk", "scraped", "follow"}
        PROVE  AskedInv'
    BY <1>1, <1>2, AskedCarried
  <1>3. ASSUME NEW url \in UrlType, callVars' = callVars, RequestArrives(url)
        PROVE  AskedInv'
    <2>1. hops' = hops \cup Checked(url) /\ doc' = Final(url)
      BY <1>3 DEF RequestArrives
    <2>2. Final(url) \in UrlType
      BY <1>1, DocumentOf
    <2>3. QED
      BY <1>1, <1>3, <2>1, <2>2, AskedCarried, CheckedIsAsked
  <1>4. ASSUME NEW url \in UrlType, callVars' = callVars, RequestFails(url)
        PROVE  AskedInv'
    <2>1. hops' = hops \cup Checked(url) /\ pc' = "done"
      BY <1>4 DEF RequestFails, End
    <2>2. QED
      BY <1>1, <1>4, <2>1, AskedCarried, CheckedIsAsked
  <1>5. CASE Refuse \/ BeginCrawl \/ BeginScrape
    BY <1>2, <1>5 DEF Refuse, BeginCrawl, BeginScrape, End
  <1>6. CASE ScrapeFails
    BY <1>4, <1>6, RequestIsUrl DEF ScrapeFails
  <1>7. CASE ScrapeArrives
    BY <1>3, <1>7, RequestIsUrl DEF ScrapeArrives
  <1>8. CASE WalkEnds \/ WalkRevisits \/ WalkReads \/ WalkTimesOut
    <2>1. callVars' = callVars /\ UNCHANGED <<hops, doc>> /\ Walking
      BY <1>8 DEF WalkEnds, WalkRevisits, WalkReads, WalkTimesOut
    <2>2. pc = "map walk" => pc' \in {"map walk", "mapped"}
      BY <1>8 DEF WalkEnds, WalkRevisits, WalkReads, WalkTimesOut, AfterWalk
    <2>3. QED
      BY <1>2, <2>1, <2>2 DEF Walking
  <1>9. CASE CrawlEnds \/ CrawlTakes \/ CrawlHarvests
    <2>1. callVars' = callVars /\ UNCHANGED <<hops, doc>> /\ pc' \in {"done", "crawl", "request"}
      BY <1>9 DEF CrawlEnds, CrawlTakes, CrawlHarvests, End
    <2>2. QED
      BY <1>2, <2>1
  <1>10. CASE StartFollowing \/ ChainEnds
    <2>1. callVars' = callVars /\ UNCHANGED <<hops, doc>> /\ pc \in {"scraped", "follow"}
      BY <1>10 DEF StartFollowing, ChainEnds, End
    <2>2. QED
      BY <1>2, <2>1
  <1>11. ASSUME pc = "follow", NEW url \in NextPage PROVE url \in UrlType
    <2>1. FindNext(doc, doc) \in Seq(UrlType)
      BY <1>1, <1>11, LinksAreUrls
    <2>2. ToSet(FindNext(doc, doc)) \subseteq UrlType
      BY <2>1, ElementsAreFinite
    <2>3. QED
      BY <1>11, <2>2 DEF NextPage
  <1>12. CASE ChainGrows
    <2>1. PICK url \in NextPage : RequestArrives(url)
      BY <1>12 DEF ChainGrows
    <2>2. callVars' = callVars /\ pc = "follow"
      BY <1>12 DEF ChainGrows
    <2>3. QED
      BY <1>3, <1>11, <2>1, <2>2
  <1>13. CASE ChainFails
    <2>1. PICK url \in NextPage : RequestFails(url)
      BY <1>13 DEF ChainFails
    <2>2. callVars' = callVars /\ pc = "follow"
      BY <1>13 DEF ChainFails
    <2>3. QED
      BY <1>4, <1>11, <2>1, <2>2
  <1>14. CASE MapHarvests \/ MapEnds
    <2>1. callVars' = callVars /\ UNCHANGED <<hops, doc>> /\ pc' \in {"map walk", "done"}
      BY <1>14 DEF MapHarvests, MapEnds, End
    <2>2. QED
      BY <1>2, <2>1
  <1>15. CASE UNCHANGED vars
    BY <1>2, <1>15 DEF vars
  <1>16. QED
    BY <1>5, <1>6, <1>7, <1>8, <1>9, <1>10, <1>12, <1>13, <1>14, <1>15 DEF Next

(* What a policy file that is there says of a URL.                         *)
LEMMA ConsultIsDisposition ==
  ASSUME DiscoveryAssumption, Known, NEW url \in UrlType, Consult(url) \notin {"ignored", "unavailable"}
  PROVE  /\ Robots(url).lines \in Seq(LineType) /\ Path[url.page] \in Seq(STRING)
         /\ Consult(url) = Disposition(Path[url.page], Robots(url).lines)
  <1>1. url.origin \in Origin /\ url.page \in DOMAIN Path
    BY DEF UrlType
  <1>2. PICK c \in Call : site = c.site
    BY DEF Known
  <1>3. c.site.robots \in [Origin -> [state : {"ok", "missing", "hang"}, lines : Seq(LineType)]]
    BY DEF DiscoveryAssumption
  <1>4. Robots(url) = c.site.robots[url.origin] /\ url.origin \in DOMAIN c.site.robots
    BY <1>1, <1>2, <1>3 DEF Robots
  <1>5. Robots(url).lines \in Seq(LineType)
    <2>1. Robots(url) \in [state : {"ok", "missing", "hang"}, lines : Seq(LineType)]
      BY <1>1, <1>3, <1>4
    <2>2. QED
      BY <2>1
  <1> DEFINE files == UNION {{d.site.robots[o].lines : o \in DOMAIN d.site.robots} : d \in Call}
  <1>6. Robots(url).lines \in files
    <2>1. Robots(url).lines \in {c.site.robots[o].lines : o \in DOMAIN c.site.robots}
      BY <1>4, Zenon
    <2>2. QED
      BY <2>1
  <1>7. Dispositions = [lines \in files |-> [page \in DOMAIN Path |-> Disposition(Path[page], lines)]]
    BY DEF Dispositions
  <1> HIDE DEF files
  <1>8. Consult(url) = Dispositions[Robots(url).lines][url.page]
    BY DEF Consult
  <1>9. Path[url.page] \in Seq(STRING)
    BY <1>1 DEF DiscoveryAssumption
  <1>10. QED
    BY <1>1, <1>5, <1>6, <1>7, <1>8, <1>9

(* So the verdicts on record are the rulings of the files.                 *)
LEMMA RecordIsRight ==
  ASSUME DiscoveryAssumption, RobotsAssumption, Known, Asked(hops)
  PROVE  VerdictIsLongestMatch
  <1>1. ASSUME NEW h \in hops, h.disposition \notin {"ignored", "unavailable"}
        PROVE  LET path == Path[h.url.page]
                   lines == Robots(h.url).lines
               IN /\ h.disposition = Ruling(path, lines, Matching)
                  /\ \A i \in RuleLines(lines) : MatchIsRight(path, lines[i].value)
    <2> DEFINE path == Path[h.url.page]
               lines == Robots(h.url).lines
    <2>1. h.url \in UrlType /\ h.disposition = Consult(h.url)
      BY DEF Asked
    <2>2. lines \in Seq(LineType) /\ path \in Seq(STRING) /\ h.disposition = Disposition(path, lines)
      BY <1>1, <2>1, ConsultIsDisposition
    <2> HIDE DEF path, lines
    <2>3. Disposition(path, lines) = Ruling(path, lines, Matching)
      BY <2>2, DispositionIsRuling
    <2>4. ASSUME NEW i \in RuleLines(lines) PROVE MatchIsRight(path, lines[i].value)
      <3>1. RuleOf(lines[i]) \in RuleType
        BY <2>2, LineSets
      <3>2. lines[i].value \in ValueType
        BY <3>1 DEF RuleOf, RuleType
      <3>3. QED
        BY <2>2, <3>2, MatchesAreRight
    <2>5. QED
      BY <2>2, <2>3, <2>4 DEF path, lines
  <1>2. \A path, lines : Ruling(path, lines, Matching) =
          Ruling(path, lines, LAMBDA q, value : RuleMatches(q, [path |-> value]))
    BY DEF Ruling, Matching
  <1>3. QED
    BY <1>1, <1>2 DEF VerdictIsLongestMatch, RuleLines, MatchIsRight

(* A policy file is read as it is written - agents grouped with the rules  *)
(* that follow them, the longest pattern of the most specific agent        *)
(* decides, an allow rule on a tie, and a pattern matches where RFC 9309   *)
(* says so - and what it denies is not scraped: parse(), matching_rule(),  *)
(* wildcard_matches_prefix() and DocumentPolicy::check().                  *)
THEOREM RobotsRulesAreObeyed == Spec => []RobotsAreObeyed
  <1>1. Init => CrawlInv /\ WalkInv /\ MapInv /\ AskedInv
    <2>1. Init => AskedInv
      BY DEF Init, AskedInv, Asked
    <2>2. QED
      BY <2>1, CrawlInit, LossInit, DiscoveryAssumption
  <1>2. CrawlInv /\ WalkInv /\ MapInv /\ AskedInv /\ [Next]_vars => (CrawlInv /\ WalkInv /\ MapInv /\ AskedInv)'
    BY CrawlStep, WalkStep, MapStep, AskedStep, DiscoveryAssumption
  <1>3. WalkInv /\ AskedInv => VerdictIsLongestMatch
    BY RecordIsRight, DiscoveryAssumption, RobotsAssumption DEF WalkInv, AskedInv
  <1>4. Spec => []DeniedIsNeverScraped
    BY DeniedIsLeft
  <1>5. QED
    BY <1>1, <1>2, <1>3, <1>4, PTL DEF Spec, RobotsAreObeyed

=============================================================================
