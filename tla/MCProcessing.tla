---------------------------- MODULE MCProcessing ----------------------------
(* Two pages with the same body that render, a page with links and a sitemap, *)
(* or a sitemap, a script and a payload that cannot be unpacked; and what is  *)
(* read out of responses, kept as evidence and replayed, over small headers,  *)
(* bodies and bundles.                                                        *)
EXTENDS Processing, TLC, Sequences

CONSTANTS p1, p2, page, map, script, archive, same, dom, sitemap

KindOf == (p1 :> "html") @@ (p2 :> "html") @@ (page :> "html") @@ (map :> "xml") @@ (script :> "text") @@ (archive :> "other")
Bodies == (p1 :> same) @@ (p2 :> same) @@ (page :> same) @@ (map :> sitemap) @@ (script :> same) @@ (archive :> same)
Doms == [r \in Pages |-> dom]
InHeader == [r \in Pages |-> IF r = page THEN 1 ELSE 0]
InPage == [r \in Pages |-> IF r \in {p1, p2} THEN 0 ELSE 1]
RunsOf == {[responses |-> {p1, p2}, flushEvery |-> 2],
           [responses |-> {page, map}, flushEvery |-> 2],
           [responses |-> {map, script, archive}, flushEvery |-> 1]}

------------------------------------------------------------------------------
Doc == INSTANCE Documents
Upto(S, n) == UNION {[1..k -> S] : k \in 0..n}

Bytes == [bom : {"null", "utf-8", "utf-16le"}, meta : {"null", "windows-1252", "klingon"}, signature : {"null", "utf-16le"},
           declaration : {"null", "utf-8", "klingon"}, clean : SUBSET {"utf-8", "utf-16le"}, text : {"a"}]
Charsets == {"null", "utf-8", "windows-1252", "klingon"}

\* Strict and lenient decoding agree, and so do recording and replaying.
ASSUME Decoding == \A b \in Bytes, c \in Charsets, k \in {"html", "xml", "text"} : Doc!DecodedAlike(b, c, k) /\ Doc!StrictAgrees(b, c, k)

Inputs == [status : {0}, mediaType : {"html"}, extension : {""}, names : {{}}, start : {"nothing"}]
          \cup [status : {200, 204}, mediaType : {"html", "rss", "xml", "plain", "json", ""}, extension : {"", "html", "xml", "gz", "xml.gz", "js"},
                names : SUBSET {"sitemap", "feed"}, start : {"html", "xml", "nothing", "other"}]
\* Responses are handled in one way each.
ASSUME Classified == \A i \in Inputs : Doc!ClassifiedOnce(i)

\* The header put together again from the stored facts says the same.
ASSUME RobotsHeader == \A h \in Upto({",", ":", " ", "a"}, 6) : Doc!RobotsHeaderKept(h)

Titles == Upto({",", "<", ">", ";", "x"}, 1) \cup {<<",", ">">>, <<"\\", "\"", ",">>, <<"\\", "\\">>}
WrittenLinks == [target : {<<"u">>, <<"u", ",", "v">>, <<"u", ";", "v">>}, rel : {<<"next">>, <<"x", " ", "preload">>}, title : Titles]
\* Commas and quotes inside targets and titles divide nothing.
ASSUME LinkHeader == \A links \in [1..1 -> WrittenLinks] \cup [1..2 -> WrittenLinks] : Doc!LinksKept(links)

\* A title that reads like the parameter is taken for it.
ASSUME TitleTakenForRel == ~Doc!LinksKept(<<[target |-> <<"u">>, rel |-> <<"next">>, title |-> <<";", "rel", "=", "x">>]>>)

------------------------------------------------------------------------------
Saved == INSTANCE SavedEvidence
Objects == [text : {"x", "y"}, size : {1}, packed : {FALSE}] \cup [text : {"z", "w"}, size : {2}, packed : {FALSE}]
Places == {Saved!Root("manifest.json"), Saved!Root("stats.json"), Saved!objectPath("x"), Saved!objectPath("y")}
Members == [kind : {"file", "symlink"}, content : Objects]
Directories == UNION {[some -> Members] : some \in SUBSET Places}
Whole == [p \in Places |-> [kind |-> "file", content |-> [text |-> IF p.area = "objects" THEN p.name ELSE "z", size |-> IF p.area = "objects" THEN 1 ELSE 2, packed |-> FALSE]]]

\* A bundle verifies if and only if the objects of the run are what their names say.
ASSUME BundlesVerify == \A d \in Directories, compress \in BOOLEAN : Saved!BundleVerifies(d, compress)

\* Members changed, added and removed.
Tampered(d) == {d @@ (p :> m) : p \in {Saved!Root("extra"), Saved!objectPath("z")}, m \in Members}
               \cup {[d EXCEPT ![p] = m] : p \in DOMAIN d, m \in Members}
               \cup {[q \in DOMAIN d \ {p} |-> d[q]] : p \in DOMAIN d}
\* Every change of a bundle is found, but for a member dropped from the listing too.
ASSUME TamperingFound == \A compress \in BOOLEAN :
    LET bundle == Saved!createEvidenceBundle(Whole, FALSE, compress)
    IN  /\ \A d \in Tampered(bundle.directory) : Saved!TamperFound(bundle, d)
        /\ \A f \in bundle.files : Saved!DroppedUnnoticed(bundle, f)

References == {[r EXCEPT !.byteLength = n, !.capture.kind = k, !.capture.source = s, !.capture.limit = l, !.path = p] :
    r \in {Saved!ReferenceTo(c) : c \in Objects}, n \in {1, 2}, k \in {"complete", "truncated"}, s \in {-1, 1, 2, 3}, l \in {1, 2}, p \in Places}
\* A reference is read if and only if the object of its digest is there and whole.
ASSUME ReferencesRead == \A r \in References :
    Saved!Reads(Whole, r) => Whole[Saved!objectPath(r.digest)].content.size = r.byteLength /\ r.path.name = r.digest

Encoded == [bom : {"null", "utf-8"}, meta : {"null", "windows-1252"}, signature : {"null", "utf-16le"},
           declaration : {"null", "klingon"}, clean : SUBSET {"utf-8", "windows-1252"}, text : {"a"}]
Responses == [body : Encoded, charset : {"null", "utf-8", "klingon"}, robots : {<<>>, <<"a", ",", ":", "b">>}, candidates : 0..3]
\* Replaying says what the crawl said, with the exceptions named in HtmlReplays and XmlReplays.
ASSUME Replayed == \A r \in Responses, b \in BOOLEAN : 
    /\ \A m \in {1, 3} : Saved!HtmlReplays(r, b, m)
    /\ \A perFile \in {1, 2}, remaining \in 0..2 : Saved!XmlReplays(r, b, perFile, remaining)
=============================================================================
