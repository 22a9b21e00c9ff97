----------------------------- MODULE MCDiscovery -----------------------------
(* Families of sites, each rich in one thing: links and redirects between  *)
(* four pages of two hosts; every robots file of up to four lines over the *)
(* directives below; sitemaps that name each other; chains of next links.  *)
EXTENDS Discovery

U(o, p) == [origin |-> o, page |-> p, frag |-> FALSE]
MCSeed == U("o1", "a")
MCHost == [o1 |-> "h1", alt |-> "h1", o2 |-> "h2", same |-> "none", other |-> "none"]
MCPath == [a |-> <<"/", "x">>, b |-> <<"/", "x", "y">>, c |-> <<"/", "y", "x", "y">>]

MCAgent == {"*", "", "base", "basecrawl", "bot"}
MCRank == [g \in MCAgent |-> CASE g = "base" -> 4 [] g = "basecrawl" -> 9 [] g = "bot" -> -1 [] OTHER -> 0]

Line(name, value) == [name |-> name, value |-> value]
Directives ==
  {Line("user-agent", g) : g \in MCAgent}
  \cup {Line("disallow", v) : v \in {Value(<< >>, FALSE), Value(<<"/", "x">>, FALSE), Value(<<"/", "*", "y">>, TRUE)}}
  \cup {Line("allow", v) : v \in {Value(<<"/", "x">>, FALSE), Value(<<"/", "x", "y">>, FALSE)}}

Element(href) == [tag |-> "a", href |-> href, rel |-> FALSE, reads |-> FALSE]
NextLink(href, tag, rel) == [tag |-> tag, href |-> href, rel |-> rel, reads |-> ~rel]
Bare == [state |-> "ok", base |-> NoUrl, moved |-> NoUrl, elements |-> << >>]
Open == [state |-> "ok", lines |-> << >>]
Keys == {"o1", "alt", "o2"} \X {"a", "b", "c"}

Blank1 == [page |-> [k \in Keys |-> Bare],
           robots |-> [o \in {"o1", "alt", "o2"} |-> Open],
           sitemap |-> <<>>]
WithLinks(hrefs) == [Bare EXCEPT !.elements = [i \in DOMAIN hrefs |-> Element(hrefs[i])]]


A == U("same", "a")  B == U("same", "b")  C == U("same", "c")
Frag(u) == [u EXCEPT !.frag = TRUE]
Mail == U("other", "a")

Options == [mode |-> "scrape", maxPages |-> 4, maxDepth |-> 2, allow |-> "none", robots |-> "enforce",
            formats |-> {"links"}, follow |-> FALSE, maxUrls |-> 3, useSitemap |-> TRUE, sameOrigin |-> TRUE]
Calls(sites, opts) == [site : sites, opt : opts]

(* Crawls: circles, fragments, other hosts, redirects, a page that fails.  *)
CrawlSites ==
  {[Blank1 EXCEPT !.page = (<<"o1", "a">> :> [WithLinks(a) EXCEPT !.base = base]) @@
                           (<<"o1", "b">> :> [WithLinks(b) EXCEPT !.moved = moved]) @@
                           (<<"o1", "c">> :> [WithLinks(<<A, U("alt", "c")>>) EXCEPT !.state = c]) @@
                           (<<"o2", "a">> :> WithLinks(<<C>>)) @@
                           (<<"alt", "a">> :> WithLinks(<<B, U("o1", "b")>>)) @@ @]
     : a \in {<<B, C>>, <<Frag(B), B, Mail, U("o2", "a")>>, <<U("alt", "a"), B>>},
       b \in {<< >>, <<C>>, <<Frag(A), B, C>>},
       base \in {NoUrl, U("o2", "b")}, moved \in {NoUrl, U("o2", "a")}, c \in {"ok", "fail"}}
CrawlOptions ==
  {[Options EXCEPT !.mode = "crawl", !.maxPages = n, !.maxDepth = d, !.allow = h, !.formats = f]
     : n \in {1, 2, 4}, d \in 0..2, h \in {"none", "h1", "h2"}, f \in {{"links"}, {"rawHtml"}}}
  \cup {[Options EXCEPT !.mode = "crawl", !.maxPages = n, !.maxDepth = d, !.allow = "h1"]
          : n \in {0, 4, 9}, d \in {0, 9}}

(* Robots files over one chain of three pages.                             *)
ChainPages ==
  (<<"o1", "a">> :> [Bare EXCEPT !.elements = <<NextLink(B, "a", FALSE)>>]) @@
  (<<"o1", "b">> :> [Bare EXCEPT !.elements = <<NextLink(C, "link", TRUE)>>]) @@ Blank1.page
Agents == {d \in Directives : d.name = "user-agent"}
Rules == Directives \ Agents
Files ==
  SeqOf(Directives, 3)
  \cup {<<a, r, b, s>> : a, b \in Agents, r, s \in Rules}
  \cup {<<Line("user-agent", "*"), Line("disallow", Value(p, anchored))>>
         : p \in SeqOf({"/", "x", "*", "y"}, 4), anchored \in BOOLEAN}
RobotsSites ==
  {[Blank1 EXCEPT !.page = ChainPages, !.robots["o1"] = [state |-> "ok", lines |-> f]] : f \in Files}
  \cup {[Blank1 EXCEPT !.page = ChainPages, !.robots["o1"].state = s] : s \in {"missing", "hang"}}
RobotsOptions ==
  {[Options EXCEPT !.follow = TRUE, !.formats = {}, !.robots = r] : r \in {"enforce", "observe"}}

(* Sitemaps that list pages and each other, are cut short, or hang.        *)
Entry(tag, u) == <<[tag |-> tag, opens |-> TRUE], [tag |-> "loc", opens |-> TRUE],
                   [tag |-> "text", url |-> u], [tag |-> "loc", opens |-> FALSE],
                   [tag |-> tag, opens |-> FALSE]>>
NoLoc(tag) == SelectSeq(Entry(tag, Seed), LAMBDA e : e.tag # "text")
Found(events) == [state |-> "ok", events |-> events]
S2 == U("o1", "s2")  S3 == U("o1", "s3")
SitemapDocs ==
  {[state |-> "hang", events |-> << >>],
   Found(Entry("url", U("o1", "a")) \o Entry("url", U("o1", "b"))),
   Found(Entry("sitemap", S2) \o Entry("sitemap", S3) \o NoLoc("sitemap")),
   Found(Entry("sitemap", U("o1", "sitemap")) \o Entry("url", U("o2", "c"))
           \o Entry("url", U("o1", "c")) \o Entry("sitemap", U("o1", "s4"))),
   Found(Entry("url", U("o1", "c")) \o SubSeq(Entry("url", U("o1", "b")), 1, 3)),
   Found(SubSeq(Entry("url", U("o1", "c")), 2, 5) \o Entry("url", U("o1", "b")) \o NoLoc("url"))}
SitemapSites ==
  {[Blank1 EXCEPT !.page[<<"o1", "a">>] = WithLinks(<<B, U("o2", "a")>>),
                  !.robots["o1"].lines = IF declares THEN <<Line("sitemap", S2)>> ELSE << >>,
                  !.sitemap = (<<"o1", "sitemap">> :> x) @@ (<<"o1", "s2">> :> y) @@ (<<"o1", "s3">> :> z)]
     : x, y, z \in SitemapDocs, declares \in BOOLEAN}
MapOptions ==
  {Options} \cup
  {[Options EXCEPT !.mode = "map", !.maxUrls = n, !.sameOrigin = s, !.formats = {"html"}]
     : n \in {0, 1, 3, 5}, s \in BOOLEAN}
  \cup {[Options EXCEPT !.mode = "map", !.useSitemap = FALSE]}

(* Chains of next links: in circles, to a fragment, to a page that fails.  *)
Nexts == {<< >>, <<NextLink(A, "a", FALSE)>>, <<NextLink(Mail, "a", TRUE), NextLink(Frag(B), "a", FALSE)>>,
          <<NextLink(A, "a", FALSE), NextLink(C, "link", TRUE)>>}
ChainSites ==
  {[Blank1 EXCEPT !.page = (<<"o1", "a">> :> [Bare EXCEPT !.elements = a]) @@
                           (<<"o1", "b">> :> [Bare EXCEPT !.elements = b]) @@
                           (<<"o1", "c">> :> [Bare EXCEPT !.elements = c, !.state = s]) @@ @]
     : a, b, c \in Nexts, s \in {"ok", "fail"}}
ChainOptions == {[Options EXCEPT !.follow = TRUE, !.maxPages = n, !.formats = {}, !.robots = "ignore"] : n \in {0, 2, 5}}

MCCall == Calls(CrawlSites, CrawlOptions) \cup Calls(RobotsSites, RobotsOptions)
          \cup Calls(SitemapSites, MapOptions) \cup Calls(ChainSites, ChainOptions)

=============================================================================
