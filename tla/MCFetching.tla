----------------------------- MODULE MCFetching -----------------------------
(* A seed that redirects to a page which is requested itself at the same     *)
(* time. The decisions of scope and robots that Fetching takes as given are  *)
(* those of UrlScope and RobotsRules; both are compared with their           *)
(* references over small inputs.                                             *)
EXTENDS Fetching, RobotsRules, UrlScope, TLC

CONSTANTS r1, r2, start, page, robots, moved, site1, open, shut

Starts2 == (r1 :> start) @@ (r2 :> page)
Targets == (start :> page) @@ (page :> NoUrl) @@ (robots :> moved) @@ (moved :> NoUrl)
Homes == [u \in {start, page, robots, moved} |-> site1]
RobotsUrls == site1 :> robots
Sizes == <<10, 10, 20>>

------------------------------------------------------------------------------
(* The scope of the run and the two robots.txt files. *)
UrlAt(segment) == [scheme |-> "https", host |-> <<"www", "example">>, port |-> 443, path |-> <<segment>>,
                   params |-> <<>>, length |-> 20, credentials |-> FALSE]
Profile(u) == normalizeUrl(UrlAt(CASE u = start -> "" [] u = page -> "page" [] OTHER -> "robots.txt"))
Scope == [mode |-> "origin", seeds |-> {Profile(start)}, maxUrlLength |-> 30, maxPathSegments |-> 2,
          maxQueryParams |-> 1, deniedHosts |-> {}, allowedHosts |-> {}, exclude |-> {}, include |-> {}]
SeedSet == {[url |-> Profile(start), scope |-> Scope, maxDepth |-> -1]}

Line(k, v) == [key |-> k, value |-> v]
Lines(file) == CASE file = open -> <<Line("user-agent", <<"*">>), Line("disallow", <<>>)>>
                 [] file = shut -> <<Line("user-agent", <<"*">>), Line("allow", <<"/", "$">>), Line("disallow", <<"/", "%61">>)>>
PolicyOf(says) == IF says = Fallback THEN unavailable("seed-only") ELSE parseRobotsTxt(Lines(says))
PathOf(u) == CASE u = start -> <<"/">> [] u = page -> <<"/", "a">> [] OTHER -> <<"/", "r">>

MayVisit == {r1, r2} \X {start, page, robots, moved}
MayFetch == ({open} \X {start, page, robots, moved} \X BOOLEAN) \cup ({shut} \X {start, robots, moved} \X BOOLEAN)
            \cup ({Fallback} \X {start, page, robots, moved} \X {TRUE})

ASSUME ScopeDecides ==
    \A r \in Requests, u \in Urls :
        (<<r, u>> \in ScopeAllows) = (decide(Profile(u), 0, Profile(start), SeedSet, Scope) = "none")
ASSUME RobotsDecide ==
    \A file \in Files \cup {Fallback}, u \in Urls, isSeed \in BOOLEAN :
        (<<file, u, isSeed>> \in RobotsAllow) = decisionForPath(PolicyOf(file), <<"b", "o", "t">>, PathOf(u), isSeed)

------------------------------------------------------------------------------
(* RobotsRules and UrlScope against their references. *)
SeqsUpTo(S, n) == UNION {[1..k -> S] : k \in 0..n}
Patterns == SeqsUpTo({"/", "a", "*", "$"}, 3)
Rules == {[directive |-> d, path |-> p] : d \in {"allow", "disallow"}, p \in SeqsUpTo({"/", "*", "$"}, 2) \cup {<<"/", "%61">>}}
RobotsPaths == SeqsUpTo({"/", "a"}, 3)

\* The matcher finds what the reference finds, and a set of rules decides in any order.
ASSUME MatcherAgrees ==
    \A pattern \in Patterns, path \in RobotsPaths :
        (\A i \in DOMAIN pattern : pattern[i] = "$" => i = Len(pattern)) =>
            robotsPathMatches(pattern, path) = PathFits(pattern, path)
ASSUME RulesAgree ==
    \A rule, other \in Rules, path \in {<<>>, <<"/">>, <<"/", "a">>} : RobotsAgree(<<rule, other>>, path)

AgentLines == {Line("user-agent", a) : a \in {<<"*">>, <<"b">>, <<"b", "o">>, <<"x">>}}
RuleLines == {Line("disallow", <<"/">>), Line("crawl-delay", 2)}
ASSUME GroupsAgree ==
    \A lines \in SeqsUpTo(AgentLines \cup RuleLines, 4) : GroupsJoined(parseRobotsTxt(lines), <<"b", "o", "t">>)

Hosts == {<<"example">>, <<"www", "example">>, <<"example", "www">>}
SomeUrls == {[UrlAt("") EXCEPT !.scheme = s, !.host = h, !.port = p, !.length = n, !.params = q] :
               s \in {"http", "https", "ftp"}, h \in Hosts, p \in {443, 8080}, n \in {20, 31}, q \in {<<>>, <<"a", "a">>}}
Normal == {normalizeUrl(u) : u \in SomeUrls} \ {Rejected}
Scopes == {[Scope EXCEPT !.seeds = {normalizeUrl([UrlAt("") EXCEPT !.host = h])}, !.deniedHosts = d, !.exclude = x] :
             h \in Hosts, d \in {{}, {<<"www", "example">>}}, x \in {{}, {Normal}}}
ASSUME ScopeAgrees ==
    \A u \in Normal, s \in Scopes, depth \in {0, -1} : ModesWiden(u, depth, s) /\ DeniedByFirst(u, depth, s)
=============================================================================
