------------------------------ MODULE Discovery ------------------------------
(***************************************************************************)
(* Finding pages: the bounded crawl (crawl.rs), the URL inventory of a     *)
(* site (map_lite.rs), the following of "next" links (pagination.rs and    *)
(* the end of scrape() in lib.rs), the links of a document (links.rs) and  *)
(* the walk over sitemaps (robots.rs).  Each of them asks for documents    *)
(* under the robots policy.  The site is fixed for one call; Fetch models  *)
(* one request and its redirects in detail, here a document moves once.    *)
(***************************************************************************)
EXTENDS Robots

CONSTANTS
  Call,         (* sites and the options a call meets them with            *)
  Path,         (* page name -> the symbols of its path                    *)
  Host,         (* origin -> its host                                      *)
  Seed,         (* the URL it starts from                                  *)
  PageCap,      (* hard cap of --max-pages (10000)                         *)
  DepthCap,     (* hard cap of --max-depth (32)                            *)
  UrlCap,       (* hard cap of --max-urls (50000)                          *)
  MaxSitemaps,  (* MAX_SITEMAPS (32)                                       *)
  MaxSeeds      (* MAX_SITEMAP_URLS (10000)                                *)

(* Of the scrape's options, the formats that hold links or sources.        *)
OptionType == [mode : {"scrape", "crawl", "map"}, maxPages : Nat, maxDepth : Nat, allow : STRING,
               robots : {"enforce", "observe", "ignore"}, formats : SUBSET {"links", "html", "rawHtml"},
               follow : BOOLEAN, maxUrls : Nat, useSitemap : BOOLEAN, sameOrigin : BOOLEAN]

(* The site answers for every page of every origin; an href is a URL of    *)
(* it, relative (to the origin), or one that is not navigated.             *)
Origin == DOMAIN Host \ {"same", "other"}
UrlType == [origin : Origin, page : DOMAIN Path, frag : BOOLEAN]
HrefType == [origin : Origin \cup {"same", "other"}, page : DOMAIN Path, frag : BOOLEAN]
NoUrl == [origin |-> "none", page |-> "none", frag |-> FALSE]
DocumentType == [state : {"ok", "fail"}, base : HrefType \cup {NoUrl}, moved : UrlType \cup {NoUrl},
                 elements : Seq([tag : {"a", "link"}, href : HrefType, rel : BOOLEAN, reads : BOOLEAN])]

(* A policy file's lines and a sitemap's events name URLs of any page.     *)
SitemapUrl == [origin : Origin, page : STRING, frag : BOOLEAN]
LineType ==
  [name : {"user-agent"}, value : Agent]
  \cup [name : {"allow", "disallow"}, value : [text : Seq(STRING), anchored : BOOLEAN]]
  \cup [name : {"sitemap"}, value : [origin : Origin \cup {"same", "other"}, page : STRING, frag : BOOLEAN]]
EventType == [tag : {"text"}, url : SitemapUrl] \cup [tag : {"url", "sitemap", "loc"}, opens : BOOLEAN]

ASSUME DiscoveryAssumption ==
  /\ {PageCap, DepthCap, UrlCap, MaxSitemaps, MaxSeeds} \subseteq Nat
  /\ Seed \in UrlType /\ \A page \in DOMAIN Path : Path[page] \in Seq(STRING)
  /\ \A c \in Call :
       /\ c.opt \in OptionType
       /\ c.site.page \in [Origin \X DOMAIN Path -> DocumentType]
       /\ c.site.robots \in [Origin -> [state : {"ok", "missing", "hang"}, lines : Seq(LineType)]]
       /\ \A k \in DOMAIN c.site.sitemap :
            /\ k \in Origin \X STRING
            /\ c.site.sitemap[k] \in [state : {"ok", "hang"}, events : Seq(EventType)]

VARIABLES
  site, opt,
  pc,
  at,        (* the URL being scraped and its depth                        *)
  doc,       (* where the document at hand came from, after redirects      *)
  todo,      (* crawl: the frontier, a queue of URLs and depths            *)
  visited,   (* crawl: keys taken up; pagination: URLs                     *)
  pages,     (* crawl: the pages scraped                                   *)
  skipped,   (* crawl: URLs passed over, and why                           *)
  chain,     (* pagination: crawled_urls                                   *)
  urls,      (* map: the inventory                                         *)
  stack, docs, seeds,   (* sitemaps to read, seen, and what they named     *)
  hops,      (* DocumentPolicy's record: URLs and dispositions             *)
  outcome

walkVars == <<stack, docs, seeds>>
callVars == <<site, opt>>
vars == <<callVars, pc, at, doc, todo, visited, pages, skipped, chain, urls, walkVars, hops, outcome>>

Init ==
  /\ \E call \in Call : site = call.site /\ opt = call.opt
  /\ pc = "begin" /\ at = [url |-> NoUrl, depth |-> 0] /\ doc = NoUrl
  /\ todo = << >> /\ visited = {} /\ pages = << >> /\ skipped = {}
  /\ chain = << >> /\ urls = << >>
  /\ stack = << >> /\ docs = {} /\ seeds = << >>
  /\ hops = {} /\ outcome = "none"

End(result) == pc' = "done" /\ outcome' = result

-----------------------------------------------------------------------------
(* URLs and links.  An href of origin "same" is relative, one of origin    *)
(* "other" has a scheme that is not navigated.                             *)

normalize_visit_key(url) == [url EXCEPT !.frag = FALSE]

is_allowed(url) ==
  IF opt.allow = "none" THEN url.origin = Seed.origin ELSE Host[url.origin] = opt.allow

Join(base, href) == IF href.origin = "same" THEN [href EXCEPT !.origin = base.origin] ELSE href

Document(url) == site.page[<<url.origin, url.page>>]

(* What an href of the document that came from url resolves to, as if it   *)
(* had come from base.                                                     *)
Resolved(url, base, href) ==
  Join(IF Document(url).base = NoUrl THEN base ELSE Join(base, Document(url).base), href)

(* The absolute links of the document, each once.                          *)
Links(url, base) ==
  LET elements == Document(url).elements
      link(i) == Resolved(url, base, elements[i].href)
      anchors == {i \in DOMAIN elements : elements[i].tag = "a" /\ link(i).origin # "other"}
  IN AtPositions([i \in DOMAIN elements |-> link(i)],
                 {i \in anchors : \A j \in anchors : j < i => link(j) # link(i)})

(* The first rel="next", else the first anchor that reads like one.        *)
FindNext(url, base) ==
  LET elements == Document(url).elements
      link(i) == Resolved(url, base, elements[i].href)
      usable == {i \in DOMAIN elements : link(i).origin # "other" /\ (elements[i].rel \/ elements[i].reads)}
      rel == {i \in usable : elements[i].rel}
  IN IF rel # {} THEN <<link(Min(rel))>>
     ELSE IF usable # {} THEN <<link(Min(usable))>> ELSE << >>

-----------------------------------------------------------------------------
(* A document request under the robots policy.                             *)

Robots(url) == site.robots[url.origin]

(* The verdict of every policy file on every path, tabulated once.         *)
Dispositions ==
  LET files == UNION {{c.site.robots[o].lines : o \in DOMAIN c.site.robots} : c \in Call}
  IN [lines \in files |-> [page \in DOMAIN Path |-> Disposition(Path[page], lines)]]

PolicyHangs(url) == opt.robots # "ignore" /\ Robots(url).state = "hang"

Consult(url) ==
  CASE opt.robots = "ignore" -> "ignored"
    [] opt.robots # "ignore" /\ Robots(url).state # "ok" -> "unavailable"
    [] OTHER -> Dispositions[Robots(url).lines][url.page]

Declared(url) ==
  IF opt.robots = "ignore" \/ Robots(url).state # "ok" THEN << >>
  ELSE LET joined == [i \in DOMAIN DeclaredSitemaps(Robots(url).lines) |->
                        Join(url, DeclaredSitemaps(Robots(url).lines)[i])]
       IN Keep(joined, LAMBDA u : u.origin # "other")

Refused(url) == opt.robots = "enforce" /\ Consult(url) = "denied"

(* Faulty variant: only the first document of a chain is consulted. *)
FailsUnchecked(url) == PolicyHangs(url) \/ Document(url).state # "ok"

Fails(url) == PolicyHangs(url) \/ Refused(url) \/ Document(url).state # "ok"

Final(url) == IF Document(url).moved = NoUrl THEN url ELSE Document(url).moved

Checked(url) ==
  LET asked == IF Fails(url) THEN {url} ELSE {url, Final(url)}
  IN {[url |-> u, disposition |-> Consult(u)] : u \in {v \in asked : ~PolicyHangs(v)}}

Arrives(url) == ~Fails(url) /\ ~Fails(Final(url))

(* Every document a call asks for: recorded, then fetched or the end of    *)
(* the call.                                                               *)
RequestFails(url) ==
  /\ ~Arrives(url)
  /\ hops' = hops \cup Checked(url)
  /\ End("failed")

RequestArrives(url) ==
  /\ Arrives(url)
  /\ hops' = hops \cup Checked(url)
  /\ doc' = Final(url)

-----------------------------------------------------------------------------
(* Starting a call.                                                        *)

InBounds ==
  CASE opt.mode = "crawl" -> opt.maxPages \in 1..PageCap /\ opt.maxDepth <= DepthCap
    [] opt.mode = "map" -> opt.maxUrls \in 1..UrlCap
    [] OTHER -> TRUE

Refuse ==
  /\ pc = "begin" /\ ~InBounds
  /\ End("refused")
  /\ UNCHANGED <<callVars, at, doc, todo, visited, pages, skipped, chain, urls, walkVars, hops>>

BeginCrawl ==
  /\ pc = "begin" /\ InBounds /\ opt.mode = "crawl"
  /\ todo' = <<[url |-> Seed, depth |-> 0]>>
  /\ pc' = "crawl"
  /\ UNCHANGED <<callVars, at, doc, visited, pages, skipped, chain, urls, walkVars, hops, outcome>>

BeginScrape ==
  /\ pc = "begin" /\ InBounds /\ opt.mode # "crawl"
  /\ at' = [url |-> Seed, depth |-> 0]
  /\ pc' = "request"
  /\ UNCHANGED <<callVars, doc, todo, visited, pages, skipped, chain, urls, walkVars, hops, outcome>>

(* The formats of the scrape: a map makes sure that links can be read.     *)
Formats ==
  IF opt.mode = "map" /\ opt.formats \cap {"links", "rawHtml"} = {}
  THEN opt.formats \cup {"links"} ELSE opt.formats

StartWalk(target, declared) ==
  /\ stack' = <<[target EXCEPT !.page = "sitemap", !.frag = FALSE]>> \o declared
  /\ docs' = {} /\ seeds' = << >>

ScrapeFails ==
  /\ pc = "request" /\ RequestFails(at.url)
  /\ pages' = << >>
  /\ UNCHANGED <<callVars, at, doc, todo, visited, skipped, chain, urls, walkVars>>

ScrapeArrives ==
  /\ pc = "request" /\ RequestArrives(at.url)
  /\ IF "links" \in Formats
     THEN StartWalk(at.url, Declared(at.url)) /\ pc' = "walk"
     ELSE pc' = "scraped" /\ UNCHANGED walkVars
  /\ UNCHANGED <<callVars, at, todo, visited, pages, skipped, chain, urls, outcome>>

-----------------------------------------------------------------------------
(* discover_sitemap_urls: within a scrape ("walk"), or for a map.          *)

Walking == pc \in {"walk", "map walk"}

Sitemap(url) ==
  IF <<url.origin, url.page>> \in DOMAIN site.sitemap THEN site.sitemap[<<url.origin, url.page>>]
  ELSE [state |-> "missing", events |-> << >>]

(* What every sitemap document names, tabulated once.                      *)
Base(origin, page) == [origin |-> origin, page |-> page, frag |-> FALSE]
Parsed ==
  LET files == UNION {{<<Base(k[1], k[2]), c.site.sitemap[k].events>> : k \in DOMAIN c.site.sitemap} : c \in Call}
  IN [f \in files |-> ParseSitemap(f[2], f[1])]

Named(url) ==
  IF Sitemap(url).state = "ok" THEN Parsed[<<Base(url.origin, url.page), Sitemap(url).events>>] ELSE SitemapStart

(* Faulty variant: the cap counts what is left to read. *)
WalkOverStack == stack = << >> \/ Len(stack) > MaxSitemaps

WalkOver == stack = << >> \/ Cardinality(docs) >= MaxSitemaps

(* Faulty variant: a sitemap seen before is looked at and left there. *)
PoppedUnlessSeen == IF Last(stack) \in docs THEN stack ELSE Front(stack)

Popped == Front(stack)

AfterWalk == pc' = IF pc = "walk" THEN "scraped" ELSE "mapped"

WalkEnds ==
  /\ Walking /\ WalkOver
  /\ AfterWalk
  /\ UNCHANGED <<callVars, at, doc, todo, visited, pages, skipped, chain, urls, walkVars, hops, outcome>>

WalkRevisits ==
  /\ Walking /\ ~WalkOver /\ Last(stack) \in docs
  /\ stack' = Popped
  /\ UNCHANGED <<callVars, pc, at, doc, todo, visited, pages, skipped, chain, urls, docs, seeds, hops, outcome>>

(* A document that is not there, or not answered with success, adds        *)
(* nothing.  The cap on seeds ends the walk when another one is read.      *)
WalkReads ==
  /\ Walking /\ ~WalkOver /\ Last(stack) \notin docs
  /\ LET read == Last(stack)
         found == Merge(seeds, Named(read).seeds)
         full == \E i \in DOMAIN Named(read).seeds :
                   Cardinality(ToSet(seeds) \cup ToSet(SubSeq(Named(read).seeds, 1, i - 1))) >= MaxSeeds
     IN /\ Sitemap(read).state # "hang"
        /\ docs' = docs \cup {read}
        /\ seeds' = IF full THEN SubSeq(found, 1, MaxSeeds) ELSE found
        /\ IF full THEN AfterWalk /\ stack' = Popped
           ELSE stack' = Popped \o Named(read).nested /\ pc' = pc
  /\ UNCHANGED <<callVars, at, doc, todo, visited, pages, skipped, chain, urls, hops, outcome>>

(* A deadline that passes in the walk is the scrape's, and a map's note.   *)
WalkTimesOut ==
  /\ Walking /\ ~WalkOver /\ Last(stack) \notin docs
  /\ Sitemap(Last(stack)).state = "hang"
  /\ seeds' = << >> /\ stack' = << >>
  /\ IF pc = "walk" THEN End("failed") /\ pages' = << >>
     ELSE pc' = "mapped" /\ UNCHANGED <<outcome, pages>>
  /\ UNCHANGED <<callVars, at, doc, todo, visited, skipped, chain, urls, docs, hops>>

-----------------------------------------------------------------------------
(* crawl: a queue of links.                                                *)

CrawlOver == todo = << >> \/ Len(pages) >= opt.maxPages

(* Faulty variant: new links go first. *)
QueueFirst(links, depth) ==
  [i \in DOMAIN links |-> [url |-> links[i], depth |-> depth]] \o todo

Queue(links, depth) ==
  todo \o [i \in DOMAIN links |-> [url |-> links[i], depth |-> depth]]

CrawlEnds ==
  /\ pc = "crawl" /\ CrawlOver
  /\ End("ok")
  /\ UNCHANGED <<callVars, at, doc, todo, visited, pages, skipped, chain, urls, walkVars, hops>>

(* The head of the queue: seen before, not to be scraped, or scraped.      *)
CrawlTakes ==
  /\ pc = "crawl" /\ ~CrawlOver
  /\ LET next == Head(todo)
         key == normalize_visit_key(next.url)
         passed(why) == skipped' = skipped \cup {[url |-> next.url, reason |-> why]}
     IN /\ visited' = visited \cup {key}
        /\ CASE key \in visited -> UNCHANGED <<at, skipped, pc>>
             [] key \notin visited /\ ~is_allowed(next.url) ->
                  passed("outside_allow_domain") /\ UNCHANGED <<at, pc>>
             [] key \notin visited /\ is_allowed(next.url) /\ next.depth > opt.maxDepth ->
                  passed("depth_exceeded") /\ UNCHANGED <<at, pc>>
             [] OTHER -> at' = next /\ pc' = "request" /\ UNCHANGED skipped
  /\ todo' = Tail(todo)
  /\ UNCHANGED <<callVars, doc, pages, chain, urls, walkVars, hops, outcome>>

(* discover_links_from_page: the links format, resolved where the document *)
(* came from; without any, its source, resolved where it was asked for.    *)
Discovered(url) ==
  LET listed == IF "links" \in opt.formats THEN Links(Final(url), Final(url)) ELSE << >>
  IN IF listed # << >> THEN listed
     ELSE IF opt.formats \cap {"html", "rawHtml"} # {}
     THEN FindNext(Final(url), url) \o Links(Final(url), url)
     ELSE << >>

CrawlHarvests ==
  /\ pc = "scraped" /\ opt.mode = "crawl"
  /\ pages' = Append(pages, [url |-> at.url, depth |-> at.depth])
  /\ \E links \in {IF at.depth >= opt.maxDepth \/ Len(pages') >= opt.maxPages
                    THEN << >> ELSE Discovered(at.url)} :
       /\ skipped' = skipped \cup
            {[url |-> u, reason |-> "outside_allow_domain"] : u \in {v \in ToSet(links) : ~is_allowed(v)}}
       /\ todo' = Queue(Keep(links, LAMBDA u : is_allowed(u) /\ normalize_visit_key(u) \notin visited),
                        at.depth + 1)
  /\ pc' = "crawl"
  /\ UNCHANGED <<callVars, at, doc, visited, chain, urls, walkVars, hops, outcome>>

-----------------------------------------------------------------------------
(* scrape with follow_pagination.                                          *)

StartFollowing ==
  /\ pc = "scraped" /\ opt.mode = "scrape"
  /\ IF opt.follow
     THEN /\ chain' = <<at.url>> /\ visited' = {at.url} /\ pc' = "follow" /\ UNCHANGED outcome
     ELSE End("ok") /\ UNCHANGED <<chain, visited>>
  /\ UNCHANGED <<callVars, at, doc, todo, pages, skipped, urls, walkVars, hops>>

NextPage == ToSet(FindNext(doc, doc))

ChainOver == Len(chain) >= Max({1, opt.maxPages}) \/ NextPage \subseteq visited

ChainEnds ==
  /\ pc = "follow" /\ ChainOver
  /\ End("ok")
  /\ UNCHANGED <<callVars, at, doc, todo, visited, pages, skipped, chain, urls, walkVars, hops>>

ChainGrows ==
  /\ pc = "follow" /\ ~ChainOver
  /\ \E url \in NextPage :
       RequestArrives(url) /\ chain' = Append(chain, url) /\ visited' = visited \cup {url}
  /\ UNCHANGED <<callVars, pc, at, todo, pages, skipped, urls, walkVars, outcome>>

(* crawl_page's error is the scrape's.                                     *)
ChainFails ==
  /\ pc = "follow" /\ ~ChainOver
  /\ \E url \in NextPage : RequestFails(url)
  /\ UNCHANGED <<callVars, at, doc, todo, visited, pages, skipped, chain, urls, walkVars>>

-----------------------------------------------------------------------------
(* map_lite: the seed, its links, then sitemap entries.                    *)

admit(url) == ~opt.sameOrigin \/ url.origin = Seed.origin

(* Faulty variant: the cap is compared after the push. *)
PushPast(seq, new) ==
  LET all == Merge(seq, new)
  IN SubSeq(all, 1, IF Len(all) <= opt.maxUrls THEN Len(all) ELSE opt.maxUrls + 1)

Push(seq, new) ==
  LET all == Merge(seq, new)
  IN SubSeq(all, 1, IF Len(all) < opt.maxUrls THEN Len(all) ELSE opt.maxUrls)

(* Sitemaps are walked if asked for, while there is room and before the    *)
(* deadline, which may have passed.                                        *)
MapHarvests ==
  /\ pc = "scraped" /\ opt.mode = "map"
  /\ \E links \in {Links(doc, doc)} : urls' = Push(<<Seed>>, Keep(links, admit))
  /\ \/ /\ opt.useSitemap /\ Len(urls') < opt.maxUrls
        /\ StartWalk(Seed, << >>) /\ pc' = "map walk" /\ UNCHANGED outcome
     \/ End("ok") /\ UNCHANGED walkVars
  /\ UNCHANGED <<callVars, at, doc, todo, visited, pages, skipped, chain, hops>>

MapEnds ==
  /\ pc = "mapped"
  /\ urls' = Push(urls, Keep(seeds, admit))
  /\ End("ok")
  /\ UNCHANGED <<callVars, at, doc, todo, visited, pages, skipped, chain, walkVars, hops>>

-----------------------------------------------------------------------------

Next ==
  \/ Refuse \/ BeginCrawl \/ BeginScrape
  \/ ScrapeFails \/ ScrapeArrives
  \/ WalkEnds \/ WalkRevisits \/ WalkReads \/ WalkTimesOut
  \/ CrawlEnds \/ CrawlTakes \/ CrawlHarvests
  \/ StartFollowing \/ ChainEnds \/ ChainGrows \/ ChainFails
  \/ MapHarvests \/ MapEnds

Spec == Init /\ [][Next]_vars /\ WF_vars(Next)
-----------------------------------------------------------------------------
(* Type correctness: queues hold URLs, counts stay within their options.   *)
TypeOK ==
  /\ pc \in {"begin", "crawl", "request", "walk", "scraped", "follow", "map walk", "mapped", "done"}
  /\ outcome \in {"none", "ok", "failed", "refused"}
  /\ (pc = "done") = (outcome # "none")
  /\ \A p \in ToSet(todo) \cup ToSet(pages) : p.depth \in 0..DepthCap
  /\ \A h \in hops : h.disposition \in {"ignored", "unavailable", "unmatched", "allowed", "denied"}

(* The links a crawl may follow, from key to key.                          *)
Onward(key) == {normalize_visit_key(u) : u \in {v \in ToSet(Discovered(key)) : is_allowed(v)}}

(* The pages within n links of the seed.                                   *)
Ball ==
  LET seed == {u \in {normalize_visit_key(Seed)} : is_allowed(u)}
      ball[n \in Nat] ==
        IF n = 0 THEN seed ELSE ball[n - 1] \cup UNION {Onward(k) : k \in ball[n - 1]}
  IN ball

(* A crawl scrapes each page once, at its distance from the seed over the  *)
(* allowed links, nearer ones first, and one that succeeds below its page  *)
(* cap has scraped everything within reach: the queue in crawl() is        *)
(* filtered on entry and deduplicated on exit, links are read only below   *)
(* the depth cap, and a page is keyed without its fragment.                *)
CrawlIsBreadthFirst ==
  LET key(i) == normalize_visit_key(pages[i].url)
  IN /\ Len(pages) <= opt.maxPages
     /\ \A i, j \in DOMAIN pages : i < j => key(i) # key(j) /\ pages[i].depth <= pages[j].depth
     /\ \A i \in DOMAIN pages :
          /\ pages[i].depth <= opt.maxDepth
          /\ key(i) \in Ball[pages[i].depth]
          /\ pages[i].depth > 0 => key(i) \notin Ball[pages[i].depth - 1]
     /\ outcome = "ok" /\ opt.mode = "crawl" /\ Len(pages) < opt.maxPages =>
          {key(i) : i \in DOMAIN pages} = Ball[opt.maxDepth]

(* The disposition recorded for a document is that of the longest rule, an *)
(* allow rule on a tie, among those of the most specific agent the file    *)
(* names: parse() folds lines into groups and matching_rule() picks groups *)
(* and rules in one pass.  wildcard_matches_prefix() takes a pattern for a *)
(* match that the path ends within, and gives an anchored one up when it   *)
(* is used up too soon; otherwise its greedy scan is right.                *)
VerdictIsLongestMatch ==
  \A h \in hops :
    h.disposition \notin {"ignored", "unavailable"} =>
      LET path == Path[h.url.page]
          lines == Robots(h.url).lines
      IN /\ h.disposition = Ruling(path, lines, LAMBDA q, value : RuleMatches(q, [path |-> value]))
         /\ \A i \in {j \in DOMAIN lines : IsRule(lines[j])} :
              LET value == lines[i].value
                  matches == RuleMatches(path, [path |-> value])
              IN IF value.anchored
                 THEN matches => Governs(path, value)
                 ELSE matches = (Governs(path, value) \/ FallsShort(path, value))

(* A document is checked before it is fetched, the one a redirect leads to *)
(* as well, and one that an enforced policy denies is never scraped.       *)
DeniedIsNeverScraped ==
  opt.robots = "enforce" =>
    /\ \A h \in hops : h.disposition = "denied" => outcome = "failed"
    /\ \A url \in {pages[i].url : i \in DOMAIN pages} \cup ToSet(chain) :
         \A u \in {url, Final(url)} : [url |-> u, disposition |-> Consult(u)] \in hops

(* Robots rules are read as they are written, and obeyed where the policy  *)
(* enforces them (robots.rs:91-203, 372-540).                              *)
RobotsAreObeyed == VerdictIsLongestMatch /\ DeniedIsNeverScraped

(* The walk over sitemaps reads none twice and at most MAX_SITEMAPS, and   *)
(* loses nothing on the way: what a document it read names is read or      *)
(* still to be read, and every page seed is kept up to the cap.  Documents *)
(* may name each other in a circle.                                        *)
WalkLosesNothing ==
  /\ Cardinality(docs) <= MaxSitemaps /\ Len(seeds) <= MaxSeeds
  /\ LET listed == UNION {ToSet(Named(d).seeds) : d \in docs}
     IN /\ ToSet(seeds) \subseteq listed
        /\ Cardinality(ToSet(seeds)) = Len(seeds)
        /\ Walking => listed = ToSet(seeds)
  /\ Walking =>
       \A d \in docs : ToSet(Named(d).nested) \subseteq docs \cup ToSet(stack)

(* A map lists the seed, then links of its document, then sitemap entries, *)
(* each once and admitted, and below its cap it has every admitted link:   *)
(* push_url() both deduplicates and caps.                                  *)
InventoryIsComplete ==
  opt.mode = "map" /\ urls # << >> =>
    LET links == {u \in ToSet(Links(doc, doc)) : admit(u)}
    IN /\ Len(urls) <= opt.maxUrls /\ Cardinality(ToSet(urls)) = Len(urls)
       /\ urls[1] = Seed
       /\ \A i \in 2..Len(urls) : urls[i] \in links \/ (urls[i] \in ToSet(seeds) /\ admit(urls[i]))
       /\ \A i, j \in 2..Len(urls) : i < j /\ urls[j] \in links => urls[i] \in links
       /\ Len(urls) < opt.maxUrls => links \subseteq ToSet(urls)

(* Between the sitemaps and the inventory nothing is lost that fits, and   *)
(* nothing listed twice (robots.rs:314-370, map_lite.rs:120-240).          *)
NothingIsLost == WalkLosesNothing /\ InventoryIsComplete

(* Every call ends, on sites whose links, redirects and sitemaps go in     *)
(* circles: the crawl's visited set, the chain's, and the walk's seen set. *)
DiscoveryEnds == <>(pc = "done")

=============================================================================
