----------------------------- MODULE MCAdmission -----------------------------
(* Admission on a site of two seeds: a page, a sitemap index that lists     *)
(* itself and another sitemap, and a sitemap.                                *)
EXTENDS Admission, TLC, SequencesExt

CONSTANTS w1, w2, s1, s2, home, mapIndex, map1, map2, a, b

CallOf(r, s, isFile) == [req |-> r, seed |-> s, file |-> isFile, index |-> 0, ancestors |-> {}]

Site == (home :> [kind |-> "page", links |-> <<b>>])
     @@ (mapIndex :> [kind |-> "sitemap-index", links |-> <<map2, mapIndex, NoRequest>>])
     @@ (map1 :> [kind |-> "sitemap", links |-> <<a, b>>])
     @@ (map2 :> [kind |-> "sitemap", links |-> <<>>])
     @@ (a :> [kind |-> "page", links |-> <<>>])
     @@ (b :> [kind |-> "page", links |-> <<>>])

Start == <<CallOf(home, s1, FALSE), CallOf(mapIndex, s1, TRUE), CallOf(map1, s2, TRUE)>>
HookCalls == {CallOf(a, s1, FALSE)}
Scope == (Requests \X Seeds) \ {<<b, s2>>}
DirectoryOf == [r \in Requests |-> IF r \in {a, b} THEN "pages" ELSE "root"]
PatternOf == [r \in Requests |-> r]
Quotas == (s1 :> 3) @@ (s2 :> 3)

--------------------------------------------------------------------------------
(* The runs a process may resume.  `Input` gives a configuration of two     *)
(* seeds some sections of its own.                                          *)
Identity == INSTANCE RunIdentity

Input(sections) == sections @@ [seeds |-> <<[url |-> "x"], [url |-> "y"]>>]

Plain == {Input(<<>>),
          Input([storage |-> [type |-> "filesystem"]]),
          Input([limits |-> [maxDepth |-> 2], scope |-> [mode |-> "host"]])}
Seeded == {[seeds |-> <<[url |-> "x", label |-> "l"]>>],
           [seeds |-> <<[url |-> "x", maxDepth |-> 1]>>],
           [seeds |-> <<[url |-> "x", scope |-> [mode |-> "host"]]>>]}
Secret == {Input([network |-> [headers |-> [authorization |-> "key"]]]),
           Input([session |-> [enabled |-> TRUE,
                               basicAuth |-> <<[username |-> "u", password |-> "p"]>>]])}
Inputs == Plain \cup Seeded \cup Secret

(* `input` with a section's fields on top of its own. *)
With(input, section, fields) ==
  [s \in DOMAIN input \cup {section} |->
     IF s = section THEN fields @@ Identity!Part(input, s) ELSE input[s]]

Tunings == {<<"network", [maxConcurrency |-> 1]>>,
            <<"network", [autoThrottle |-> [enabled |-> FALSE]]>>,
            <<"session", [cookieFile |-> "jar"]>>,
            <<"httpCache", [directory |-> "elsewhere"]>>,
            <<"responseLimits", [spoolDirectory |-> "spool"]>>,
            <<"storage", [leaseDurationMs |-> 90000]>>,
            <<"storage", [storeRawHtml |-> TRUE, writeNdjsonExports |-> FALSE]>>,
            <<"output", [writeSummary |-> FALSE]>>}
Changes == {<<"limits", [maxScheduledRequests |-> 2]>>,
            <<"scope", [mode |-> "domain"]>>,
            <<"network", [retries |-> 0]>>,
            <<"network", [headers |-> [accept |-> "text"]]>>,
            <<"session", [enabled |-> TRUE, bearerAuth |-> <<[token |-> "t"]>>]>>,
            <<"httpCache", [enabled |-> TRUE]>>,
            <<"storage", [frontierOrder |-> "bfs"]>>,
            <<"parsing", [html |-> [maxNodes |-> 1]]>>,
            <<"output", [hashBodies |-> FALSE]>>}

(* The run of `input` that stopped with `stop` and these counters. *)
Started(input) == CHOOSE i \in Identity!createRuntimeIdentity(input, "none", <<>>, "now") : TRUE
ManifestOf(id, totals, stop) ==
  Identity!createRunManifest(id, "partial", stop,
    IF stop.kind = "fatal" THEN stop.of ELSE "none",
    Identity!createCrawlStats(id, totals, 3, stop))
Stopped == [kind |-> "cancelled", of |-> "signal"]
Done == [n \in Identity!Counters |-> 7]
RunOf(input) == ManifestOf(Started(input), Done, Stopped)

Resumed(input, policy, m) ==
  Identity!createRuntimeIdentity(
    With(input, "storage", [resumeFrom |-> "directory", resumePolicy |-> policy]),
    "none", m, "later")

(* Under the policy `operational` a run goes on when only its tuning        *)
(* changed, as the same run with the counters it stopped at, and so does    *)
(* the run that went on; it is refused when anything that decides what is   *)
(* crawled changed (docs/storage-and-operations.md:22, 24).                 *)
ASSUME OperationalResume ==
  \A input \in Plain :
    /\ \A t, u \in Tunings :
         \E r \in Resumed(With(input, t[1], t[2]), "operational", RunOf(input)) :
           /\ r.runId = "now" /\ r.startedAt = "now" /\ r.counters = Done
           /\ LET more == [n \in DOMAIN Done |-> Done[n] + 1]
              IN  \E again \in Resumed(With(input, u[1], u[2]), "operational",
                                       ManifestOf(r, more, Stopped)) :
                    /\ again.runId = "now" /\ again.startedAt = "now"
                    /\ again.counters = more
    /\ \A t \in Changes :
         Resumed(With(input, t[1], t[2]), "operational", RunOf(input)) = {}

(* Under `exact`, the default, no run can be resumed at all: the compared   *)
(* configuration names the directory it resumes, which the one of the run   *)
(* in that directory does not - nor does that of a resumed run, which names *)
(* its own policy.  README.md:117 asks for the same configuration only.     *)
ASSUME ExactRefusesTheSame ==
  \A input \in Inputs :
    LET first == RunOf(input)
    IN  /\ Resumed(input, "exact", first) = {}
        /\ \A r \in Resumed(input, "operational", first) :
             Resumed(input, "exact", ManifestOf(r, Done, Stopped)) = {}

(* The resume command has only what the directory kept: it can go on with a *)
(* run of policy `operational` without secrets and without options on its   *)
(* seeds.                                                                   *)
ASSUME CommandResumes ==
  \A input \in Inputs, policy \in {"exact", "operational"} :
    LET run   == With(input, "storage", [resumePolicy |-> policy])
        saved == Identity!redactConfig(Started(run).config)
    IN  (Identity!createRuntimeIdentity(Identity!configForResume(saved, "directory"),
                                        "none", RunOf(run), "later") # {})
          <=> policy = "operational" /\ input \in Plain

(* A run whose stop was fatal, or by the one limit the statistics' reader   *)
(* does not know, leaves a manifest that no resume and no checkpoint reads. *)
ASSUME StopsRead ==
  \A input \in Plain, stop \in Identity!StopDetails :
    LET m == ManifestOf(Started(input), Done, stop)
        readable == stop.kind # "fatal" /\ stop.of # "max-sitemap-index-depth"
    IN  /\ (Resumed(input, "operational", m) # {}) <=> readable
        /\ (Identity!checkpointRun(m, Started(input).config) # {}) <=> readable

(* What cannot work is refused before a run directory is touched.           *)
ASSUME Validated ==
  \A change \in {<<"storage", [type |-> "memory", frontierBackend |-> "sqlite"]>>,
                 <<"storage", [leaseRenewalIntervalMs |-> 60000]>>,
                 <<"storage", [staleLockMs |-> 5000]>>,
                 <<"session", [persistCookies |-> TRUE]>>,
                 <<"responseLimits", [memoryThresholdBytes |-> 11]>>,
                 <<"rendering", [mode |-> "auto"]>>,
                 <<"limits", [maxScheduledRequests |-> 0]>>} :
    \A input \in Plain :
      /\ Identity!createRuntimeIdentity(input, "none", <<>>, "now") # {}
      /\ Identity!createRuntimeIdentity(With(input, change[1], change[2]),
                                        "none", <<>>, "now") = {}

(* A URL that is a seed is handled under the first seed that is it; any     *)
(* other under the first seed of its origin, which hides the options of the *)
(* later seeds of that origin (crawler/seed-resolver.ts).                   *)
ASSUME SeedFound ==
  LET normalized == [u \in {"X", "x", "x2", "y", "z"} |-> IF u = "X" THEN "x" ELSE u]
      origin == [u \in DOMAIN normalized |-> IF u \in {"X", "x", "x2"} THEN "o" ELSE u]
      seeds == [i \in 1 .. 4 |-> [url |-> <<"y", "X", "x", "x2">>[i], label |-> i]]
      Labels(u) == {s.label : s \in Identity!forUrl(seeds, u, normalized, origin)}
  IN  /\ Labels("y") = {1} /\ Labels("x") = {2} /\ Labels("X") = {2}
      /\ Labels("x2") = {4} /\ Labels("z") = {}

--------------------------------------------------------------------------------
(* URLs found in stylesheets and in sitemaps.                               *)
Found == INSTANCE Discovery

Urls(stylesheet) == {<<c.rawUrl, c.method>> : c \in ToSet(Found!Candidates(stylesheet))}
Links == {<<"url", "(", "x", ")">>, <<"@", "import", "'", "x", "'">>,
          <<"@", "import", " ", "url", "(", "y", " ", ")">>, <<"/*", "map=", "y", "*/">>}
Code == SeqOf({"/*", "*/", "'", "url", "x", "(", ")", "@", "import"}, 2) \cup Links
Prose == SeqOf({"url", "x", "(", ")", " ", "map=", "\\)", "@", "import"}, 2)
         \cup {<<"url", "(", "x", ")">>, <<"@", "import", "url", "(", "x", ")">>,
               <<"map=", " ", "x", " ", "map=", "y">>, <<"map=", " ">>}

(* A comment hides its text but for one source map, a string hides all of  *)
(* its text, and what follows either, or a closed URL, is read as if it     *)
(* stood alone; an import is found behind comments (css/scanner.ts).       *)
ASSUME TextHidden ==
  \A text \in Prose :
    LET maps == {i \in DOMAIN text : text[i] = "map="}
    IN  \A rest \in Code :
          LET alone == Urls(<<" ">> \o rest)
          IN  /\ LET hidden == Urls(<<"/*">> \o text \o <<"*/">> \o rest) \ alone
                 IN  /\ Cardinality(hidden) <= 1
                     /\ \A u \in hidden : maps # {} /\ u[2] = "source-map"
              /\ Urls(<<"/*", "'", "*/">> \o rest) = alone
              /\ Urls(<<"'">> \o text \o <<"'">> \o rest) = alone
              /\ Urls(<<"url", "(", "'">> \o text \o <<"'", ")">> \o rest)
                   = alone \cup {<<Found!Text(text, 1, Len(text)), "url">>}
              /\ maps = {} =>
                   Urls(<<"@", "import", "/*">> \o text \o <<"*/", "'", "x", "'">> \o rest)
                     = alone \cup {<<<<"x">>, "import">>}

(* What breaks a string or a URL off hides nothing behind it, and a quoted  *)
(* string that is not closed imports nothing.                              *)
ASSUME BrokenOff ==
  /\ Urls(<<"'", "x", "newline", "url", "(", "y", ")">>) = {<<<<"y">>, "url">>}
  /\ Urls(<<"'", "\\", "newline", "url", "(", "y", ")">>) = {<<<<"y">>, "url">>}
  /\ Urls(<<"@", "import", " ", "'", "x", "newline", "url", "(", "y", ")">>) = {<<<<"y">>, "url">>}
  /\ Urls(<<"url", "(", "x", " ", "y", ")", "url", "(", "y", ")">>) = {<<<<"y">>, "url">>}
  /\ Found!scanCssUrls(<<"url", "(", "data:", "x", ")", "x", "url", "(", "y", ")">>, 9) = <<>>

(* The limit on URLs keeps the best of all that were found, each at its     *)
(* best, in the order of their merit, whatever order they were found in.   *)
ASSUME BestKept ==
  \A found \in SeqOf({"x", "y", "z"} \X {"source-map", "import", "url"}, 4), maximum \in 0 .. 2 :
    LET candidates == {Found!Candidate(<<found[i][1]>>, found[i][2], i) : i \in DOMAIN found}
        best == {c \in candidates : \A d \in candidates \ {c} :
                                       d.rawUrl = c.rawUrl => Found!Better(c, d)}
        kept == Found!Kept([i \in DOMAIN found |->
                              Found!Candidate(<<found[i][1]>>, found[i][2], i)], maximum)
    IN  /\ \A i, j \in DOMAIN kept : i < j => Found!Better(kept[i], kept[j])
        /\ ToSet(kept) = {c \in best :
                            Cardinality({d \in best \ {c} : Found!Better(d, c)}) < maximum}

(* A year has 365 or 366 days and four centuries have 146097; a date is     *)
(* valid up to any field it is given to, and a time only with a zone.      *)
ASSUME DatesValid ==
  LET days(year) == FoldLeft(LAMBDA sum, m : sum + Found!daysInMonth(year, m), 0, [m \in 1 .. 12 |-> m])
      noon(zone) == [hour |-> 12, minute |-> 0, second |-> 0, zone |-> zone]
  IN  /\ FoldLeft(LAMBDA sum, y : sum + days(y), 0, [i \in 1 .. 400 |-> 1600 + i]) = 146097
      /\ \A year \in 1999 .. 2004, month \in 0 .. 13, day \in 0 .. 32 :
           /\ Found!validLastmod(<<year>>)
           /\ Found!validLastmod(<<year, month>>) <=> month \in 1 .. 12
           /\ Found!validLastmod(<<year, month, day, noon(<<"Z">>)>>)
                <=> Found!validLastmod(<<year, month, day>>)
      /\ ~Found!validLastmod(<<2000, 1, 1, noon(<<>>)>>)
      /\ Found!validLastmod(<<2000, 2, 29, noon(<<23, 59>>)>>)
      /\ ~Found!validLastmod(<<2001, 2, 29>>) /\ ~Found!validLastmod(<<2000, 2, 29, noon(<<24, 0>>)>>)

(* An entry is warned of and kept: the URL of another origin or of another  *)
(* directory is crawled like any other, the per-file limit cuts the rest.  *)
ASSUME SitemapRead ==
  LET Url(origin, path) == [origin |-> origin, path |-> path]
      sitemap == Url("o", <<"d", "map">>)
      Entry(child) == Found!extractSitemapEntries(sitemap, <<child, child>>, 1)
      Read(url) == Entry([loc |-> <<url>>]).entries[1]
  IN  /\ Read(Url("o", <<"d", "">>)).warnings = {}
      /\ Read(Url("o", <<"d", "e", "f">>)).warnings = {}
      /\ Read(Url("o", <<"d">>)).warnings = {"path"}
      /\ Read(Url("p", <<"d", "x">>)).warnings = {"origin"}
      /\ \A url \in {Url("o", <<"d">>), Url("p", <<"d", "x">>)} : Read(url).url = <<url>>
      /\ Entry([loc |-> <<>>, changefreq |-> "often"])
           = [entries |-> <<[url |-> <<>>, changefreq |-> "none",
                             warnings |-> {"invalid", "changefreq"}]>>, truncated |-> 1]
      /\ Entry([changefreq |-> "daily"]).entries[1].warnings = {"missing"}
=============================================================================
