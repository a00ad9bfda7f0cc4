------------------------------ MODULE UrlScope ------------------------------
(* What a URL may be: normalization and the scope decision. A URL is a       *)
(* record [scheme, host, port, path, params, length, credentials]; a host is *)
(* a sequence of labels, a path what stands between its slashes (the last    *)
(* one is "" after a trailing slash), a pattern of include and exclude the   *)
(* set of URLs it matches.                                                   *)
EXTENDS Integers, SequencesExt

Rejected == [scheme |-> "none"]

DefaultPort(scheme) == IF scheme = "https" THEN 443 ELSE 80

(* normalizeUrl: credentials and other schemes are refused; the fragment is  *)
(* no part of the record and the default port is dropped (0: none).          *)
normalizeUrl(url) ==
    IF url.credentials \/ url.scheme \notin {"http", "https"} THEN Rejected
    ELSE [url EXCEPT !.port = IF @ = DefaultPort(url.scheme) THEN 0 ELSE @]

origin(url) == <<url.scheme, url.host, url.port>>

\* url.hostname.endsWith(`.${seed.hostname}`), or the same host.
Under(host, seed) ==
    /\ Len(host) >= Len(seed)
    /\ SubSeq(host, Len(host) - Len(seed) + 1, Len(host)) = seed

inScope(url, scope) ==
    CASE scope.mode = "origin" -> \E seed \in scope.seeds : origin(seed) = origin(url)
      [] scope.mode = "host" -> \E seed \in scope.seeds : seed.host = url.host
      [] scope.mode = "domain" -> \E seed \in scope.seeds : Under(url.host, seed.host)
      [] scope.mode = "custom" -> scope.allowedHosts = {} \/ url.host \in scope.allowedHosts

pathSegments(url) == Len(SelectSeq(url.path, LAMBDA segment : segment # ""))

\* The checks of decideWithCompiledScope in their order, each with the policy it names.
Checks(url, depth, scope) == <<
    <<url.scheme \in {"http", "https"}, "protocol">>,
    <<url.length <= scope.maxUrlLength, "maxUrlLength">>,
    <<pathSegments(url) <= scope.maxPathSegments, "maxPathSegments">>,
    <<Len(url.params) <= scope.maxQueryParams, "maxQueryParams">>,
    <<url.host \notin scope.deniedHosts, "deniedHosts">>,
    <<scope.allowedHosts = {} \/ url.host \in scope.allowedHosts, "allowedHosts">>,
    <<\A pattern \in scope.exclude : url \notin pattern, "exclude">>,
    <<scope.include = {} \/ \E pattern \in scope.include : url \in pattern, "include">>,
    <<inScope(url, scope), "scope">>,
    <<depth >= 0, "depth">> >>

\* The policy that denies the URL, "none" if it is allowed.
decideWithCompiledScope(url, depth, scope) ==
    FoldRight(LAMBDA check, later : IF check[1] THEN later ELSE check[2], Checks(url, depth, scope), "none")

(* decide: a request of a known seed is judged by that seed's scope (which   *)
(* has that seed alone) and depth, any other by the global one. A seed is    *)
(* [url, scope, maxDepth]; maxDepth -1 is null.                              *)
decide(url, depth, seedUrl, seeds, global) ==
    LET known == {s \in seeds : s.url = seedUrl}
    IN  IF known = {} THEN decideWithCompiledScope(url, depth, global)
        ELSE LET seed == CHOOSE s \in known : TRUE
             IN  IF seed.maxDepth # -1 /\ depth > seed.maxDepth THEN "seed.maxDepth"
                 ELSE decideWithCompiledScope(url, depth, [seed.scope EXCEPT !.seeds = {seed.url}])

------------------------------------------------------------------------------
(* What the modes promise: each admits what the one before it admits, the    *)
(* domain mode only hosts that end in a seed's, and whatever is allowed      *)
(* broke none of the ten rules.                                              *)
ModesWiden(url, depth, scope) ==
    LET Allowed(mode) == decideWithCompiledScope(url, depth, [scope EXCEPT !.mode = mode]) = "none"
    IN  /\ Allowed("origin") => Allowed("host")
        /\ Allowed("host") => Allowed("domain")
        /\ Allowed("domain") => Allowed("custom")

DeniedByFirst(url, depth, scope) ==
    LET checks == Checks(url, depth, scope)
        failed == {i \in DOMAIN checks : ~checks[i][1]}
    IN  decideWithCompiledScope(url, depth, scope) =
            IF failed = {} THEN "none"
            ELSE checks[CHOOSE i \in failed : \A k \in failed : i <= k][2]
=============================================================================
