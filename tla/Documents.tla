----------------------------- MODULE Documents -----------------------------
(* What is read out of a response before anything is stored of it: which     *)
(* resource it is, how its bytes are decoded, and the two headers that are   *)
(* taken apart, Link and X-Robots-Tag. A header is a sequence of tokens: the *)
(* characters that mean something, and words.                                *)
EXTENDS Integers, SequencesExt

None == "null"
NoStatus == 0

------------------------------------------------------------------------------
(* Decoding. A body says of itself bom, meta, signature and declaration (an  *)
(* encoding or None) and reads without replacement in the encodings of clean. *)

Supported == {"utf-8", "utf-16le", "windows-1252"}

detectEncoding(body, charset, kind) ==
    CASE body.bom # None -> [encoding |-> body.bom, source |-> "bom"]
      [] body.bom = None /\ charset # None -> [encoding |-> charset, source |-> "http-header"]
      [] body.bom = None /\ charset = None /\ kind = "html" /\ body.meta # None -> [encoding |-> body.meta, source |-> "html-meta"]
      [] body.bom = None /\ charset = None /\ kind = "xml" /\ body.signature # None ->
            [encoding |-> body.signature, source |-> "xml-signature"]
      [] body.bom = None /\ charset = None /\ kind = "xml" /\ body.signature = None /\ body.declaration # None ->
            [encoding |-> body.declaration, source |-> "xml-declaration"]
      [] OTHER -> [encoding |-> "utf-8", source |-> "fallback"]

\* An encoding nobody knows is an error where decoding is strict, and UTF-8 where it is not.
selectDecoder(detection, policy) ==
    CASE detection.encoding \in Supported -> [error |-> None, encoding |-> detection.encoding, source |-> detection.source, warned |-> FALSE]
      [] detection.encoding \notin Supported /\ policy = "fatal" ->
            [error |-> "UNSUPPORTED_ENCODING", encoding |-> detection.encoding, source |-> detection.source, warned |-> FALSE]
      [] OTHER -> [error |-> None, encoding |-> "utf-8", source |-> "fallback", warned |-> TRUE]

decodeBody(body, charset, kind, policy) ==
    LET s == selectDecoder(detectEncoding(body, charset, kind), policy)
        clean == s.encoding \in body.clean
    IN  [error |-> IF s.error = None /\ ~clean /\ policy = "fatal" THEN "INVALID_ENCODED_TEXT" ELSE s.error,
         text |-> <<body.text, s.encoding>>,
         fact |-> [encoding |-> s.encoding, source |-> s.source, hadReplacementChars |-> ~clean],
         warnings |-> (IF s.warned THEN {"charset"} ELSE {}) \cup (IF clean THEN {} ELSE {"replacement"})]

\* inspectTextBody: the same, over the beginning of the body, when the resource is recorded.
inspectTextBody(body, charset, kind) == decodeBody(body, charset, kind, "replacement").fact

------------------------------------------------------------------------------
(* classifyResponse. An input has a status, a media type, what the path ends *)
(* in and names, and what the body starts with.                              *)

Redirected(input) == IF "sitemap" \in input.names THEN "sitemap" ELSE IF "feed" \in input.names THEN "feed" ELSE "xml"
sniffText(input) == IF input.start = "html" THEN "html" ELSE IF input.start = "xml" THEN Redirected(input) ELSE "text"

ByMediaType ==
    [html |-> "html", rss |-> "feed", json |-> "json", css |-> "css", javascript |-> "javascript", image |-> "image",
     pdf |-> "pdf", font |-> "font", video |-> "video", audio |-> "audio", zip |-> "archive"]
ByExtension ==
    [html |-> "html", json |-> "json", css |-> "css", js |-> "javascript", pdf |-> "pdf", png |-> "image",
     woff |-> "font", mp4 |-> "video", mp3 |-> "audio", gz |-> "archive"]

classifyResponse(input) ==
    CASE input.status = NoStatus -> "error"
      [] input.status # NoStatus /\ (input.status \in {204, 205} \/ input.start = "nothing") -> "empty"
      [] OTHER ->
            CASE input.extension = "xml.gz" \/ (input.extension = "gz" /\ "sitemap" \in input.names) -> "sitemap"
              [] OTHER ->
                    CASE input.mediaType \in DOMAIN ByMediaType -> ByMediaType[input.mediaType]
                      [] input.mediaType = "xml" -> Redirected(input)
                      [] input.mediaType = "plain" -> sniffText(input)
                      [] OTHER ->
                            CASE input.extension \in DOMAIN ByExtension -> ByExtension[input.extension]
                              [] input.extension = "xml" -> Redirected(input)
                              [] OTHER -> IF sniffText(input) = "text" THEN "unknown" ELSE sniffText(input)

isHtmlLike(type) == type = "html"
isXmlLike(type) == type \in {"xml", "sitemap", "sitemap-index", "feed"}
decodeKind(type) == IF isXmlLike(type) THEN "xml" ELSE IF isHtmlLike(type) THEN "html" ELSE "text"

------------------------------------------------------------------------------
(* Sequences of tokens. *)

Split(s, mark) ==
    FoldLeft(LAMBDA parts, t : IF t = mark THEN Append(parts, <<>>) ELSE [parts EXCEPT ![Len(parts)] = Append(@, t)], << <<>> >>, s)

Trim(s) ==
    LET written == {i \in DOMAIN s : s[i] # " "}
    IN  IF written = {} THEN <<>> ELSE SubSeq(s, Min(written), Max(written))

Words(s) == SelectSeq(Split(s, " "), LAMBDA w : w # <<>>)
Joined(parts, between) ==
    FoldLeft(LAMBDA whole, p : IF whole = <<>> THEN p ELSE whole \o between \o p, <<>>, parts)
IndexIn(s, t, from) == LET at == {i \in from..Len(s) : s[i] = t} IN IF at = {} THEN 0 ELSE Min(at)

------------------------------------------------------------------------------
(* html/facts/robots.ts. *)

parsePart(raw) ==
    LET colon == IndexIn(raw, ":", 1)
        agent == Trim(SubSeq(raw, 1, colon - 1))
        remainder == Trim(SubSeq(raw, colon + 1, Len(raw)))
    IN  IF colon <= 1 \/ " " \in ToSet(agent) \/ remainder = <<>>
        THEN [raw |-> raw, agent |-> None, directives |-> Words(raw)]
        ELSE [raw |-> raw, agent |-> agent, directives |-> Words(remainder)]

parseXRobotsTag(header) ==
    LET parts == SelectSeq([i \in DOMAIN Split(header, ",") |-> Trim(Split(header, ",")[i])], LAMBDA p : p # <<>>)
    IN  [i \in DOMAIN parts |-> parsePart(parts[i])]

\* replay/projection.ts: the header again, from what is stored of it.
xRobotsTagFromFacts(facts) == Joined([i \in DOMAIN facts |-> facts[i].raw], <<",", " ">>)

------------------------------------------------------------------------------
(* http/link-header.ts. *)

\* splitHeader: a comma divides unless it stands in a quoted string or in angle brackets.
splitHeader(header) ==
    LET Next(s, t) ==
            IF s.escaped THEN [s EXCEPT !.escaped = FALSE, !.segments[Len(s.segments)] = Append(@, t)]
            ELSE IF t = "\\" /\ s.quoted THEN [s EXCEPT !.escaped = TRUE, !.segments[Len(s.segments)] = Append(@, t)]
            ELSE LET quoted == IF t = "\"" THEN ~s.quoted ELSE s.quoted
                     angle == IF quoted THEN s.angle ELSE IF t = "<" THEN TRUE ELSE IF t = ">" THEN FALSE ELSE s.angle
                 IN  [quoted |-> quoted, angle |-> angle, escaped |-> FALSE,
                      segments |-> IF t = "," /\ ~quoted /\ ~angle THEN Append(s.segments, <<>>)
                                   ELSE [s.segments EXCEPT ![Len(s.segments)] = Append(@, t)]]
    IN  FoldLeft(Next, [quoted |-> FALSE, angle |-> FALSE, escaped |-> FALSE, segments |-> << <<>> >>], header).segments

\* parameterValue for rel: the first place that reads like the parameter, quoted or bare.
relOf(parameters) ==
    LET n == Len(parameters)
        Blank(i, j) == \A k \in i..j : parameters[k] = " "
        Starts == {<<i, v>> \in (0..n) \X (1..n) :
                    /\ i = 0 \/ parameters[i] = ";"
                    /\ \E r, e \in (i + 1)..(v - 1) :
                          /\ r < e /\ parameters[r] = "rel" /\ parameters[e] = "="
                          /\ Blank(i + 1, r - 1) /\ Blank(r + 1, e - 1) /\ Blank(e + 1, v - 1)
                    /\ parameters[v] # " "}
        Value(v) ==
            LET close == IndexIn(parameters, "\"", v + 1)
                ends == {k \in v..n : parameters[k] \in {";", " "}}
            IN  IF parameters[v] = "\"" /\ close > 0 THEN SubSeq(parameters, v + 1, close - 1)
                ELSE SubSeq(parameters, v, IF ends = {} THEN n ELSE Min(ends) - 1)
        found == {s \in Starts : parameters[s[2]] # ";"}
    IN  IF found = {} THEN <<>> ELSE Value(CHOOSE v \in 1..n : \E s \in found : s[2] = v /\ \A t \in found : s[2] <= t[2])

parseSegment(segment) ==
    LET start == IndexIn(segment, "<", 1)
        end == IF start = 0 THEN 0 ELSE IndexIn(segment, ">", start + 1)
        target == Trim(SubSeq(segment, start + 1, end - 1))
    IN  IF start = 0 \/ end <= start + 1 \/ target = <<>> THEN <<>>
        ELSE << [target |-> target, rel |-> Words(relOf(SubSeq(segment, end + 1, Len(segment))))] >>

kindForRel(rel) ==
    LET Has(names) == \E w \in ToSet(rel) : Len(w) = 1 /\ w[1] \in names
    IN  IF Has({"canonical"}) THEN "canonical" ELSE IF Has({"alternate"}) THEN "alternate"
        ELSE IF Has({"stylesheet"}) THEN "stylesheet" ELSE IF Has({"manifest"}) THEN "manifest"
        ELSE IF Has({"preload", "modulepreload"}) THEN "preload" ELSE IF Has({"prefetch", "prerender"}) THEN "prefetch"
        ELSE IF Has({"next", "prev"}) THEN "navigation" ELSE "asset"

parseHttpLinkHeader(header) ==
    LET found == FoldLeft(LAMBDA links, s : links \o parseSegment(s), <<>>, splitHeader(header))
    IN  [i \in DOMAIN found |-> [raw |-> found[i].target, kind |-> kindForRel(found[i].rel), rel |-> found[i].rel, index |-> i - 1]]

------------------------------------------------------------------------------
(* What they are for. *)

\* A page recorded and a page replayed from the same bytes are decoded alike.
DecodedAlike(body, charset, kind) == decodeBody(body, charset, kind, "replacement").fact = inspectTextBody(body, charset, kind)

\* Strict decoding fails or says what lenient decoding says without a warning.
StrictAgrees(body, charset, kind) ==
    LET strict == decodeBody(body, charset, kind, "fatal")
        lenient == decodeBody(body, charset, kind, "replacement")
    IN  strict.error = None <=> lenient.warnings = {} /\ lenient.fact = strict.fact

\* Every response is handled as exactly one of page, XML document, text and bytes.
ClassifiedOnce(input) ==
    LET type == classifyResponse(input)
    IN  /\ ~(isHtmlLike(type) /\ isXmlLike(type))
        /\ input.status = NoStatus <=> type = "error"
        /\ input.status # NoStatus /\ input.mediaType = "html" /\ input.start # "nothing" /\ input.status \notin {204, 205}
           => type = "html" \/ input.extension \in {"gz", "xml.gz"}

\* The facts of a header are those of the header that is put together from them.
RobotsHeaderKept(header) == parseXRobotsTag(xRobotsTagFromFacts(parseXRobotsTag(header))) = parseXRobotsTag(header)

\* A Link header written from links is taken apart into these links. A link is [target, rel, title]; a title stands
\* in a quoted string before rel, and may hold commas, brackets and escaped quotes.
WriteLink(l) == <<"<">> \o l.target \o <<">", ";", "title", "=", "\"">> \o l.title \o <<"\"", ";", " ", "rel", "=", "\"">> \o l.rel \o <<"\"">>
LinksKept(links) ==
    LET parsed == parseHttpLinkHeader(Joined([i \in DOMAIN links |-> WriteLink(links[i])], <<",", " ">>))
    IN  /\ Len(parsed) = Len(links)
        /\ \A i \in DOMAIN links : parsed[i].raw = links[i].target /\ parsed[i].rel = Words(links[i].rel) /\ parsed[i].index = i - 1
=============================================================================
