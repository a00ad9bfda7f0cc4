----------------------------- MODULE RobotsRules -----------------------------
(* robots.txt as the crawler reads it: the groups of a file, the groups that *)
(* apply to a product token, and the rule that decides a path. A line is a   *)
(* record [key, value]; an agent, a path and a pattern are sequences of      *)
(* scalars, each one a string.                                               *)
EXTENDS Integers, SequencesExt

NoRule == [directive |-> "none", path |-> <<>>]
NoDelay == -1

\* The state of parseRobotsTxt's loop.
ParserStart == [groups |-> <<>>, agents |-> <<>>, rules |-> <<>>, delay |-> NoDelay, sitemaps |-> <<>>]

\* flush() of the parser: agents without rules form a group too.
Flushed(p) ==
    [p EXCEPT !.groups = IF p.agents = <<>> THEN @
                         ELSE Append(@, [agents |-> p.agents, rules |-> p.rules, delay |-> p.delay]),
              !.agents = <<>>, !.rules = <<>>, !.delay = NoDelay]

(* One line. A user-agent line after rules opens the next group; rules       *)
(* before the first agent are dropped; a crawl delay must be a number >= 0   *)
(* (the parsed value of the line; NoDelay if it is none).                    *)
ParseLine(p, line) ==
    CASE line.key = "sitemap" -> [p EXCEPT !.sitemaps = Append(@, line.value)]
      [] line.key = "user-agent" ->
            LET q == IF p.rules # <<>> \/ p.delay # NoDelay THEN Flushed(p) ELSE p
            IN  [q EXCEPT !.agents = IF line.value = <<>> THEN @ ELSE Append(@, line.value)]
      [] line.key \in {"allow", "disallow"} /\ p.agents # <<>> ->
            [p EXCEPT !.rules = Append(@, [directive |-> line.key, path |-> line.value])]
      [] line.key = "crawl-delay" /\ p.agents # <<>> /\ line.value # NoDelay ->
            [p EXCEPT !.delay = line.value]
      [] OTHER -> p

parseRobotsTxt(lines) ==
    LET p == Flushed(FoldLeft(ParseLine, ParserStart, lines))
    IN  [mode |-> "rules", groups |-> p.groups, sitemaps |-> ToSet(p.sitemaps)]

\* The policy of an origin whose file could not be had.
unavailable(mode) == [mode |-> mode, groups |-> <<>>, sitemaps |-> {}]

------------------------------------------------------------------------------
\* How well a group's agent names the product: -1 not at all, 0 by "*".
agentMatch(agent, token) ==
    IF agent = <<"*">> THEN 0
    ELSE IF \E i \in 0..(Len(token) - Len(agent)) : SubSeq(token, i + 1, i + Len(agent)) = agent
         THEN Len(agent)
         ELSE -1

GroupMatch(group, token) ==
    CHOOSE m \in {agentMatch(group.agents[i], token) : i \in DOMAIN group.agents} :
        \A i \in DOMAIN group.agents : agentMatch(group.agents[i], token) <= m

\* The loop keeps the groups whose best agent is as long as the longest seen.
matchingGroups(policy, token) ==
    FoldLeft(LAMBDA acc, group :
                LET m == GroupMatch(group, token)
                IN  IF m < 0 \/ m < acc.best THEN acc
                    ELSE [best |-> m,
                          groups |-> Append(IF m > acc.best THEN <<>> ELSE acc.groups, group)],
             [best |-> -1, groups |-> <<>>], policy.groups).groups

matchingRules(policy, token) ==
    FoldLeft(LAMBDA acc, group : acc \o group.rules, <<>>, matchingGroups(policy, token))

crawlDelayFor(policy, token) ==
    FoldLeft(LAMBDA acc, group : IF group.delay > acc THEN group.delay ELSE acc,
             NoDelay, matchingGroups(policy, token))

------------------------------------------------------------------------------
(* normalizeRobotsValue: a percent-encoded unreserved octet becomes the      *)
(* character, other triplets get upper-case digits, a scalar beyond ASCII    *)
(* its UTF-8 octets. Three scalars stand for the three cases.                *)
Octets(scalar) ==
    CASE scalar = "%61" -> <<"a">>
      [] scalar = "%2f" -> <<"%2F">>
      [] scalar = "e-acute" -> <<"%C3", "%A9">>
      [] OTHER -> <<scalar>>

normalizeRobotsValue(value) ==
    FoldLeft(LAMBDA acc, scalar : acc \o Octets(scalar), <<>>, value)

\* The number of octets a pattern names: its wildcards and its anchor count nothing.
patternSpecificity(pattern) ==
    LET literal == SelectSeq(pattern, LAMBDA scalar : scalar # "*")
    IN  IF literal # <<>> /\ Last(literal) = "$" THEN Len(literal) - 1 ELSE Len(literal)

(* The regular expression: "*" stands for any scalars, a final "$" for the   *)
(* end of the path; m[i, j] says that the pattern from i matches from j.     *)
robotsPathMatches(pattern, path) ==
    LET anchored == pattern # <<>> /\ Last(pattern) = "$"
        source == IF anchored THEN Front(pattern) ELSE pattern
        m[i \in 1..(Len(source) + 1), j \in 1..(Len(path) + 1)] ==
            IF i > Len(source) THEN ~anchored \/ j > Len(path)
            ELSE IF source[i] = "*" THEN m[i + 1, j] \/ (j <= Len(path) /\ m[i, j + 1])
            ELSE j <= Len(path) /\ source[i] = path[j] /\ m[i + 1, j + 1]
    IN  m[1, 1]

\* The loop over the rules: a longer match wins, allow wins a tie.
BetterRule(path, acc, rule) ==
    LET pattern == normalizeRobotsValue(rule.path)
        length == patternSpecificity(pattern)
    IN  IF /\ ~(rule.path = <<>> /\ rule.directive = "disallow")
           /\ robotsPathMatches(pattern, path)
           /\ \/ length > acc.length
              \/ length = acc.length /\ rule.directive = "allow"
        THEN [rule |-> rule, length |-> length]
        ELSE acc

bestRule(rules, path) ==
    FoldLeft(LAMBDA acc, rule : BetterRule(path, acc, rule), [rule |-> NoRule, length |-> -1], rules).rule

decisionForPath(policy, token, path, isSeed) ==
    IF policy.mode # "rules"
    THEN policy.mode = "allow" \/ (policy.mode = "seed-only" /\ isSeed)
    ELSE bestRule(matchingRules(policy, token), normalizeRobotsValue(path)).directive # "disallow"

------------------------------------------------------------------------------
(* The reference for the matcher (docs/crawling.md: longest match, allow wins *)
(* ties): a pattern matches if the path can be cut into the pieces between   *)
(* its wildcards; of the rules that match, those with most octets decide.    *)
PathFits(pattern, path) ==
    LET anchored == pattern # <<>> /\ Last(pattern) = "$"
        source == IF anchored THEN Front(pattern) ELSE pattern
        n == Len(source)
    IN  \E at \in [1..(n + 1) -> 1..(Len(path) + 1)] :
            /\ at[1] = 1
            /\ anchored => at[n + 1] = Len(path) + 1
            /\ \A i \in 1..n :
                  IF source[i] = "*" THEN at[i + 1] >= at[i]
                  ELSE at[i + 1] = at[i] + 1 /\ path[at[i]] = source[i]

Decides(rule, rules, path) ==
    LET Fits(r) == /\ PathFits(normalizeRobotsValue(r.path), path)
                   /\ r.path # <<>> \/ r.directive = "allow"
        Weight(r) == patternSpecificity(normalizeRobotsValue(r.path))
    IN  Fits(rule) /\ \A r \in rules : Fits(r) => Weight(r) <= Weight(rule)

\* The matcher and the reference agree on a set of rules in any order of the file.
RobotsAgree(rules, path) ==
    (bestRule(rules, path).directive = "disallow") =
    LET deciding == {r \in ToSet(rules) : Decides(r, ToSet(rules), path)}
    IN  deciding # {} /\ \A r \in deciding : r.directive = "disallow"

(* Lines of a group that is named again are one group to the crawler when    *)
(* they match the product token equally well: the rules of all of them apply *)
(* and the longest delay is kept, whatever group they stand in.              *)
GroupsJoined(policy, token) ==
    /\ \A i, j \in DOMAIN matchingGroups(policy, token) :
          GroupMatch(matchingGroups(policy, token)[i], token) = GroupMatch(matchingGroups(policy, token)[j], token)
    /\ \A g \in ToSet(policy.groups) :
          g \notin ToSet(matchingGroups(policy, token)) =>
             \/ GroupMatch(g, token) < 0
             \/ \E h \in ToSet(matchingGroups(policy, token)) : GroupMatch(h, token) > GroupMatch(g, token)
=============================================================================
