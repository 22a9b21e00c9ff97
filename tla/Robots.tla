-------------------------------- MODULE Robots --------------------------------
(***************************************************************************)
(* robots.txt and sitemap documents (basecrawl-core/src/robots.rs): how a  *)
(* policy file is read into groups, which rule governs a path, what a      *)
(* sitemap names, and the rules of RFC 9309 the verdict is compared with.  *)
(* A line is one directive after comments and blanks are gone; a path and  *)
(* a pattern are sequences of symbols, "*" the wildcard; Rank gives the    *)
(* length of every agent token USER_AGENT contains.                        *)
(***************************************************************************)
EXTENDS Integers, Sequences, FiniteSets, SequencesExt, Positions

CONSTANTS
  Agent,      (* the agent tokens files name                               *)
  Rank        (* Agent -> Nat \cup {-1}: length in USER_AGENT, -1: absent  *)

ASSUME RobotsAssumption == Rank \in [Agent -> Int]

(* A rule's value: its pattern without a trailing "$", and whether it had  *)
(* one.                                                                    *)
Value(text, anchored) == [text |-> text, anchored |-> anchored]
Blank(value) == value.text = << >> /\ ~value.anchored

-----------------------------------------------------------------------------
(* parse: lines into groups.                                               *)

NoGroup == [agents |-> << >>, rules |-> << >>]

(* An agent joins the group being read unless that one already has rules.  *)
NameAgent(read, agent) ==
  IF read.open.rules # << >>
  THEN [groups |-> Append(read.groups, read.open), open |-> [agents |-> <<agent>>, rules |-> << >>]]
  ELSE [read EXCEPT !.open.agents = Append(@, agent)]

(* A rule without a value, or before any agent, is passed over.            *)
AddRule(read, allow, value) ==
  IF Blank(value) \/ read.open.agents = << >> THEN read
  ELSE [read EXCEPT !.open.rules = Append(@, [allow |-> allow, path |-> value])]

ReadLine(read, line) ==
  CASE line.name = "user-agent" -> NameAgent(read, line.value)
    [] line.name \in {"allow", "disallow"} -> AddRule(read, line.name = "allow", line.value)
    [] OTHER -> read

ReadLines(lines) ==
  LET read[n \in 0..Len(lines)] ==
        IF n = 0 THEN [groups |-> << >>, open |-> NoGroup] ELSE ReadLine(read[n - 1], lines[n])
  IN read

Groups(lines) ==
  LET read == ReadLines(lines)[Len(lines)]
  IN IF read.open = NoGroup THEN read.groups ELSE Append(read.groups, read.open)

DeclaredSitemaps(lines) ==
  AtPositions([i \in DOMAIN lines |-> lines[i].value], {i \in DOMAIN lines : lines[i].name = "sitemap"})

-----------------------------------------------------------------------------
(* matching_rule: the verdict on a path.                                   *)

(* The greedy scan. Between wildcards the pattern and the path are gone    *)
(* through together, so where it is follows from the last wildcard (0:     *)
(* none), where that took over, and how many symbols were matched since.   *)
Spots(pattern, path) == [star : 0..Len(pattern), from : 1..(Len(path) + 1), taken : 0..Len(path)]

(* Back to the last wildcard, which now takes one symbol more.             *)
Backtrack(spot) == [spot EXCEPT !.from = @ + 1, !.taken = 0]

Scan(pattern, path, anchored) ==
  LET scan[spot \in Spots(pattern, path)] ==
        LET p == spot.star + spot.taken + 1
            v == spot.from + spot.taken
        IN IF v > Len(path) THEN (\A i \in p..Len(pattern) : pattern[i] = "*") \/ ~anchored
           ELSE IF p > Len(pattern) THEN ~anchored
           ELSE IF pattern[p] = "*" THEN scan[[star |-> p, from |-> v, taken |-> 0]]
           ELSE IF pattern[p] = path[v] THEN scan[[spot EXCEPT !.taken = @ + 1]]
           ELSE spot.star # 0 /\ scan[Backtrack(spot)]
  IN scan

WildcardMatches(pattern, path, anchored) ==
  Scan(pattern, path, anchored)[[star |-> 0, from |-> 1, taken |-> 0]]

RuleMatches(path, rule) == WildcardMatches(rule.path.text, path, rule.path.anchored)

AgentMatch(group) == Max({Rank[a] : a \in ToSet(group.agents)} \cup {-1})

Specificity(rule) ==
  Cardinality({i \in DOMAIN rule.path.text : rule.path.text[i] # "*"})
    + (IF rule.path.anchored THEN 1 ELSE 0)

(* None: no rule of a file is blank.                                       *)
NoRule == [allow |-> TRUE, path |-> Value(<< >>, FALSE)]

(* Faulty variant: the last of several equally specific rules is taken. *)
SupersedesLate(rule, chosen) == chosen = NoRule \/ Specificity(rule) >= Specificity(chosen)

Supersedes(rule, chosen) ==
  \/ chosen = NoRule
  \/ Specificity(rule) > Specificity(chosen)
  \/ Specificity(rule) = Specificity(chosen) /\ rule.allow /\ ~chosen.allow

(* The rules of the groups whose best agent is best symbols long, in turn. *)
Gathered(groups, best) ==
  LET gathered[n \in 0..Len(groups)] ==
        IF n = 0 THEN << >>
        ELSE gathered[n - 1] \o (IF AgentMatch(groups[n]) = best THEN groups[n].rules ELSE << >>)
  IN gathered[Len(groups)]

(* The loop of matching_rule: of the rules that match, the one to go by.   *)
Chosen(rules, matching) ==
  LET chosen[n \in 0..Len(rules)] ==
        IF n = 0 THEN NoRule
        ELSE IF n \in matching /\ Supersedes(rules[n], chosen[n - 1]) THEN rules[n] ELSE chosen[n - 1]
  IN chosen[Len(rules)]

MatchingRule(path, groups) ==
  LET best == Max({AgentMatch(g) : g \in ToSet(groups)} \cup {-1})
      rules == Gathered(groups, best)
  IN IF best = -1 THEN NoRule ELSE Chosen(rules, {i \in DOMAIN rules : RuleMatches(path, rules[i])})

Disposition(path, lines) ==
  LET rule == MatchingRule(path, Groups(lines))
  IN IF rule = NoRule THEN "unmatched" ELSE IF rule.allow THEN "allowed" ELSE "denied"

-----------------------------------------------------------------------------
(* parse_sitemap: the events of an XML reader, up to its first error, into *)
(* page seeds and further sitemaps.  A text event is a location; where     *)
(* there is none, the URL the document was read from is (join of "").      *)

SitemapStart == [parent |-> "none", inLoc |-> FALSE, loc |-> << >>, seeds |-> << >>, nested |-> << >>]

CloseLoc(read, base) ==
  LET loc == IF read.loc = << >> THEN <<base>> ELSE read.loc
  IN [read EXCEPT !.inLoc = FALSE,
                  !.seeds = IF read.parent = "url" THEN @ \o loc ELSE @,
                  !.nested = IF read.parent = "sitemap" THEN @ \o loc ELSE @]

ReadEvent(read, event, base) ==
  CASE event.tag = "text" -> IF read.inLoc THEN [read EXCEPT !.loc = <<event.url>>] ELSE read
    [] event.tag = "loc" /\ event.opens ->
         IF read.parent = "none" THEN read ELSE [read EXCEPT !.inLoc = TRUE, !.loc = << >>]
    [] event.tag = "loc" /\ ~event.opens -> IF read.inLoc THEN CloseLoc(read, base) ELSE read
    [] OTHER -> [read EXCEPT !.parent = IF event.opens THEN event.tag ELSE "none"]

ParseSitemap(events, base) ==
  LET read[n \in 0..Len(events)] == IF n = 0 THEN SitemapStart ELSE ReadEvent(read[n - 1], events[n], base)
  IN read[Len(events)]

-----------------------------------------------------------------------------
(* What the rules of the protocol say, stated without the algorithm.       *)

(* The positions of the path that the pattern's first n symbols can have   *)
(* consumed it up to.                                                      *)
Further(from, symbol, path) ==
  IF symbol = "*" THEN {v \in 0..Len(path) : \E u \in from : u <= v}
  ELSE {v \in 1..Len(path) : v - 1 \in from /\ path[v] = symbol}

Reach(pattern, path) ==
  LET reach[n \in 0..Len(pattern)] == IF n = 0 THEN {0} ELSE Further(reach[n - 1], pattern[n], path)
  IN reach

Governs(path, value) ==
  LET reached == Reach(value.text, path)[Len(value.text)]
  IN IF value.anchored THEN Len(path) \in reached ELSE reached # {}

(* The path ends before the pattern does, matching it so far.              *)
FallsShort(path, value) ==
  /\ ~value.anchored
  /\ \E n \in 0..Len(value.text) : Len(path) \in Reach(value.text, path)[n]

(* The rules under the most specific agent named in the file: an agent's   *)
(* rules are those from its User-agent line on, up to the next User-agent  *)
(* line that follows a rule.                                               *)
IsRule(line) == line.name \in {"allow", "disallow"} /\ ~Blank(line.value)

Covers(lines, i, j) ==
  /\ i < j /\ lines[i].name = "user-agent" /\ IsRule(lines[j])
  /\ \A k \in i..j : lines[k].name = "user-agent" =>
       \A h \in i..k : ~IsRule(lines[h])

RulesFor(lines) ==
  LET named == {i \in DOMAIN lines : lines[i].name = "user-agent"}
      best == Max({Rank[lines[i].value] : i \in named} \cup {-1})
  IN {j \in DOMAIN lines : best >= 0 /\ \E i \in named : Rank[lines[i].value] = best /\ Covers(lines, i, j)}

(* The longest of the rules that match decides, an allow rule on a tie.    *)
Ruling(path, lines, Matches(_, _)) ==
  LET rule(j) == [allow |-> lines[j].name = "allow", path |-> lines[j].value]
      matching == {j \in RulesFor(lines) : Matches(path, lines[j].value)}
      longest == {j \in matching : \A k \in matching : Specificity(rule(j)) >= Specificity(rule(k))}
  IN IF matching = {} THEN "unmatched"
     ELSE IF \E j \in longest : rule(j).allow THEN "allowed" ELSE "denied"

=============================================================================
