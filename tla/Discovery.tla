------------------------------- MODULE Discovery -------------------------------
(***************************************************************************)
(* URLs found outside HTML: in a stylesheet (css/scanner.ts) and in a      *)
(* sitemap (xml/sitemap.ts).                                               *)
(*                                                                         *)
(* A stylesheet is a sequence of lexemes.  A word is one, and so is a      *)
(* character with the backslash that escapes it; a lone backslash stands   *)
(* before a newline or at the end, where it escapes nothing.  "map=" is    *)
(* the sourceMappingURL marker of a comment.                               *)
(***************************************************************************)
EXTENDS Naturals, Sequences, FiniteSets, SequencesExt, FiniteSetsExt

Nothing == [value |-> <<>>, next |-> 0]

Quotes == {"'", "double quote"}
Whitespace == {" ", "newline"}
Escapes == {"\\(", "\\)", "\\'", "\\x"}
Words == {"import", "url", "x", "y"}

(* What an escape stands for: consumeEscape().                             *)
Unescaped(lexeme) ==
  CASE lexeme = "\\(" -> "(" [] lexeme = "\\)" -> ")"
    [] lexeme = "\\'" -> "'" [] lexeme = "\\x" -> "x"
    [] OTHER -> lexeme

Text(s, first, last) == [i \in 1 .. last - first + 1 |-> Unescaped(s[first + i - 1])]

At(s, i) == IF i \in DOMAIN s THEN s[i] ELSE "end"

(* The first place from i on where the stylesheet has one of `stops`, or   *)
(* its end.                                                                *)
Next(s, i, stops) ==
  Min({k \in i .. Len(s) : s[k] \in stops} \cup {Len(s) + 1})

(* ...or anything else than one of `skipped`.                              *)
Past(s, i, skipped) ==
  Min({k \in i .. Len(s) : s[k] \notin skipped} \cup {Max({i, Len(s) + 1})})

skipWhitespace(s, i) == Past(s, i, Whitespace)

(* A comment up to its end, and a place after it.                          *)
CommentEnd(s, i) == Next(s, i + 1, {"*/"})
AfterComment(s, i) == Min({CommentEnd(s, i) + 1, Len(s) + 1})

skipIgnorable(s, start) ==
  LET from[i \in 1 .. Len(s) + 1] ==
        LET k == skipWhitespace(s, i)
        IN  IF At(s, k) = "/*" THEN from[AfterComment(s, k)] ELSE k
  IN  IF start > Len(s) THEN start ELSE from[start]

scanIdentifier(s, start) ==
  LET next == Past(s, start, Words \cup Escapes)
  IN  IF next = start THEN Nothing ELSE [value |-> Text(s, start, next - 1), next |-> next]

(* A string ends at its quote; a newline breaks it off, and so does a      *)
(* backslash before one, which leaves the newline to the caller.           *)
scanQuoted(s, start) ==
  LET k == Next(s, start + 1, {s[start], "newline", "\\"})
  IN  [value |-> Text(s, start + 1, k - 1), next |-> Min({k + 1, Len(s) + 1}),
       closed |-> At(s, k) = s[start]]

(* From behind the word url: a string or bare text in parentheses.         *)
scanUrlFunction(s, start) ==
  LET open  == skipWhitespace(s, start)
      first == skipWhitespace(s, open + 1)
      Closed(value, i) ==
        LET k == skipWhitespace(s, i)
        IN  IF At(s, k) = ")" THEN [value |-> value, next |-> k + 1] ELSE Nothing
  IN  IF At(s, open) # "(" THEN Nothing
      ELSE IF At(s, first) \in Quotes
        THEN LET quoted == scanQuoted(s, first)
             IN  IF quoted.closed THEN Closed(quoted.value, quoted.next) ELSE Nothing
      ELSE LET k == Next(s, first, Whitespace \cup Quotes \cup {"(", ")", "\\"})
           IN  IF At(s, k) \in Whitespace \cup {")"}
                 THEN Closed(Text(s, first, k - 1), k) ELSE Nothing

Candidate(url, method, offset) == [rawUrl |-> url, method |-> method, offset |-> offset]

(* The URL after the first marker of the comment that has one.             *)
scanComment(s, start) ==
  LET end == CommentEnd(s, start)
      From(i) == Past(s, i + 1, Whitespace)
      Url(i) == Text(s, From(i), Min({Next(s, From(i), Whitespace \cup {"/*"}), end}) - 1)
      markers == {i \in start + 1 .. end - 1 : s[i] = "map=" /\ Url(i) # <<>>}
  IN  [found |-> IF markers = {} THEN <<>>
                 ELSE <<Candidate(Url(Min(markers)), "source-map", start)>>,
       next |-> AfterComment(s, start)]

scanImport(s, start) ==
  LET i == skipIgnorable(s, start)
      identifier == scanIdentifier(s, i)
      quoted == scanQuoted(s, i)
      function == scanUrlFunction(s, identifier.next)
      Found(url) == <<Candidate(url, "import", i)>>
  IN  IF At(s, i) \in Quotes
        THEN [found |-> IF quoted.closed THEN Found(quoted.value) ELSE <<>>,
              next  |-> quoted.next]
      ELSE IF identifier.value # <<"url">> THEN [found |-> <<>>, next |-> i + 1]
      ELSE IF function = Nothing THEN [found |-> <<>>, next |-> identifier.next]
      ELSE [found |-> Found(function.value), next |-> function.next]

(* One turn of the loop of scanCssUrls() at i.                             *)
Turn(s, i) ==
  LET name == scanIdentifier(s, i + 1)
      identifier == scanIdentifier(s, i)
      function == scanUrlFunction(s, identifier.next)
      To(next) == [found |-> <<>>, next |-> next]
  IN  CASE s[i] = "/*"     -> scanComment(s, i)
        [] s[i] \in Quotes -> To(scanQuoted(s, i).next)
        [] s[i] = "@" ->
             IF name.value = <<"import">> THEN scanImport(s, name.next)
             ELSE To(IF name = Nothing THEN i + 1 ELSE name.next)
        [] identifier # Nothing ->
             IF identifier.value = <<"url">> /\ function # Nothing
               THEN [found |-> <<Candidate(function.value, "url", i)>>,
                     next  |-> function.next]
               ELSE To(identifier.next)
        [] OTHER -> To(i + 1)

Candidates(s) ==
  LET from[i \in 1 .. Len(s) + 2] ==
        IF i > Len(s) THEN <<>> ELSE Turn(s, i).found \o from[Turn(s, i).next]
  IN  from[1]

--------------------------------------------------------------------------------
(* The set of what was found keeps the best.                               *)

METHOD_PRIORITY == [m \in {"source-map", "import", "url"} |->
                      CASE m = "source-map" -> 3 [] m = "import" -> 2 [] OTHER -> 1]

(* Of two candidates of one stylesheet, which are at different offsets.    *)
Better(a, b) ==
  \/ METHOD_PRIORITY[a.method] > METHOD_PRIORITY[b.method]
  \/ METHOD_PRIORITY[a.method] = METHOD_PRIORITY[b.method] /\ a.offset < b.offset

cleanUrl(url) == url # <<>> /\ url[1] # "data:"

add(maximum, found, candidate) ==
  LET current == {c \in found : c.rawUrl = candidate.rawUrl}
      worst   == {c \in found : \A d \in found \ {c} : Better(d, c)}
      Instead(beaten) ==
        IF \E c \in beaten : Better(candidate, c)
          THEN (found \ beaten) \cup {candidate} ELSE found
  IN  IF ~cleanUrl(candidate.rawUrl) \/ maximum = 0 THEN found
      ELSE IF current # {} THEN Instead(current)
      ELSE IF Cardinality(found) < maximum THEN found \cup {candidate}
      ELSE Instead(worst)

Kept(candidates, maximum) ==
  SetToSortSeq(FoldLeft(LAMBDA found, c : add(maximum, found, c), {}, candidates), Better)

scanCssUrls(s, maximum) == Kept(Candidates(s), maximum)

--------------------------------------------------------------------------------
(* Sitemaps.  A child has the texts of the elements it has; changefreq     *)
(* stands for priority too.  A date is the sequence of its year, month,    *)
(* day and time as far as they are given, and a time's zone the sequence   *)
(* of "Z" or of its hours and minutes.  A path is a sequence of segments.  *)

None == "none"

daysInMonth(year, month) ==
  IF month = 2
    THEN IF year % 4 = 0 /\ (year % 100 # 0 \/ year % 400 = 0) THEN 29 ELSE 28
    ELSE IF month \in {4, 6, 9, 11} THEN 30 ELSE 31

(* The fields that are there are in range, and a time has a zone.          *)
validLastmod(date) ==
  /\ Len(date) >= 2 => date[2] \in 1 .. 12
  /\ Len(date) >= 3 => date[3] \in 1 .. daysInMonth(date[1], date[2])
  /\ Len(date) >= 4 => /\ date[4].hour <= 23 /\ date[4].minute <= 59 /\ date[4].second <= 59
                       /\ date[4].zone # <<>>
                       /\ date[4].zone # <<"Z">> => date[4].zone[1] <= 23 /\ date[4].zone[2] <= 59

(* A sitemap speaks for the URLs of its origin at or below its directory.  *)
locationWarnings(sitemap, entry) ==
  IF sitemap.origin # entry.origin THEN {"origin"}
  ELSE IF ~IsPrefix(Front(sitemap.path), Front(entry.path)) THEN {"path"} ELSE {}

ChangeFrequencies == {"always", "hourly", "daily", "weekly", "monthly", "yearly", "never"}

(* A child's loc is a sequence: of its URL, of none when that is invalid.  *)
(* What is malformed is warned of and left out, but a lastmod stays.       *)
sitemapEntry(sitemap, child) ==
  [url        |-> IF "loc" \in DOMAIN child THEN child.loc ELSE <<>>,
   changefreq |-> IF "changefreq" \in DOMAIN child /\ child.changefreq \in ChangeFrequencies
                    THEN child.changefreq ELSE None,
   warnings   |->
     (IF "loc" \notin DOMAIN child THEN {"missing"}
      ELSE IF child.loc = <<>> THEN {"invalid"}
      ELSE locationWarnings(sitemap, child.loc[1]))
     \cup {w \in {"lastmod"} : "lastmod" \in DOMAIN child /\ ~validLastmod(child.lastmod)}
     \cup {w \in {"changefreq"} : /\ "changefreq" \in DOMAIN child
                                  /\ child.changefreq \notin ChangeFrequencies}]

extractSitemapEntries(sitemap, children, maxEntries) ==
  LET kept == SubSeq(children, 1, Min({Len(children), maxEntries}))
  IN  [entries   |-> [i \in DOMAIN kept |-> sitemapEntry(sitemap, kept[i])],
       truncated |-> Len(children) - Len(kept)]
================================================================================
