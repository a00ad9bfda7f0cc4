--------------------------- MODULE SavedEvidence ---------------------------
(* What is done with the evidence of a finished run: it is read back and     *)
(* checked, put into a bundle that can be verified elsewhere, and extracted  *)
(* again. A content is [text, size, packed]; its digest stands for its bytes. *)
(* A path is [area, name, suffix], the area being root, objects or, for a    *)
(* path that is not a portable relative one, outside; an object's name is    *)
(* its digest. A directory is a function of paths to members [kind, content], *)
(* kind file or symlink.                                                     *)
EXTENDS Documents

digest(c) == IF c.packed THEN "gz of " \o c.text ELSE c.text
gzip(c) == [c EXCEPT !.packed = TRUE, !.size = @ + 1]
gunzip(c) == [c EXCEPT !.packed = FALSE, !.size = @ - 1]

Root(name) == [area |-> "root", name |-> name, suffix |-> ""]
objectPath(d) == [area |-> "objects", name |-> d, suffix |-> ""]
IsFile(directory, path) == path \in DOMAIN directory /\ directory[path].kind = "file"
Failed == [error |-> TRUE]

------------------------------------------------------------------------------
(* References to evidence. A capture is [kind, source, limit]; -1 stands for *)
(* a length that is not known.                                               *)

ReferenceTo(c) == [digest |-> digest(c), byteLength |-> c.size, path |-> objectPath(digest(c)),
                   capture |-> [kind |-> "complete", source |-> c.size, limit |-> 0]]

parseCapture(capture, stored) ==
    \/ capture.kind = "complete" /\ capture.source = stored
    \/ /\ capture.kind = "truncated"
       /\ stored <= capture.limit
       /\ capture.source = -1 \/ capture.source > stored

parseEvidenceReference(reference) == reference.path.area # "outside" /\ parseCapture(reference.capture, reference.byteLength)

\* ContentAddressedEvidenceStore.read: TRUE where the bytes are returned.
Reads(directory, reference) ==
    /\ parseEvidenceReference(reference)
    /\ reference.path = objectPath(reference.digest)
    /\ reference.path \in DOMAIN directory
    /\ directory[reference.path].content.size = reference.byteLength
    /\ digest(directory[reference.path].content) = reference.digest

\* validateRun: a manifest and records that follow their contracts, and evidence that can be read.
\* No evidence file is no issue.
validateRun(run) ==
    (IF run.manifest THEN {} ELSE {"MANIFEST_INVALID"})
    \cup {"RECORD_INVALID" : r \in {x \in run.records : ~x.valid}}
    \cup {"EVIDENCE_INVALID" : r \in {x \in run.associations : ~Reads(run.directory, x)}}

------------------------------------------------------------------------------
(* The bundle: a listing and a directory. *)

metadataFiles == {Root(n) : n \in {"manifest.json", "config.resolved.json", "stats.json", "summary.md", "evidence.ndjson"}}

\* A file that is copied, and where: objects are packed if that is asked for.
Listed(path, c, pack) ==
    [sourcePath |-> path, bundlePath |-> IF pack THEN [path EXCEPT !.suffix = ".gz"] ELSE path, sha256 |-> digest(c),
     byteLength |-> c.size, storedByteLength |-> IF pack THEN gzip(c).size ELSE c.size, contentEncoding |-> IF pack THEN "gzip" ELSE "identity"]

verifyObjectName(path, d) == path.area = "objects" => path.name = d

\* Symbolic links below evidence are passed over; those of the run's own files are followed.
Collected(directory) == {p \in DOMAIN directory : p \in metadataFiles \/ (p.area = "objects" /\ directory[p].kind = "file")}

\* The target must not exist; a run without a manifest, and an object under a wrong name, end it.
createEvidenceBundle(directory, targetExists, compress) ==
    LET Pack(p) == compress /\ p.area = "objects"
        Content(p) == directory[p].content
        files == {Listed(p, Content(p), Pack(p)) : p \in Collected(directory)}
        at(b) == CHOOSE f \in files : f.bundlePath = b
    IN  IF targetExists \/ Root("manifest.json") \notin DOMAIN directory
              \/ \E p \in Collected(directory) : ~verifyObjectName(p, digest(Content(p)))
        THEN Failed
        ELSE [error |-> FALSE, readable |-> TRUE, files |-> files,
              directory |-> [b \in {f.bundlePath : f \in files} |->
                                [kind |-> "file", content |-> IF Pack(at(b).sourcePath) THEN gzip(Content(at(b).sourcePath)) ELSE Content(at(b).sourcePath)]]]

\* A listing that cannot be read, or names a path that is not portable, is refused as a whole.
parseBundleManifest(bundle) == bundle.readable /\ \A f \in bundle.files : f.sourcePath.area # "outside" /\ f.bundlePath.area # "outside"

verifyFile(directory, f) ==
    /\ IsFile(directory, f.bundlePath)
    /\ LET stored == directory[f.bundlePath].content
           decoded == IF f.contentEncoding = "gzip" THEN gunzip(stored) ELSE stored
       IN  /\ stored.size = f.storedByteLength
           /\ f.contentEncoding = "gzip" => stored.packed
           /\ decoded.size = f.byteLength
           /\ digest(decoded) = f.sha256
           /\ verifyObjectName(f.sourcePath, digest(decoded))

verifyEvidenceBundle(bundle) ==
    IF ~parseBundleManifest(bundle) THEN {"BUNDLE_MANIFEST_INVALID"}
    ELSE {"BUNDLE_FILE_INVALID" : f \in {x \in bundle.files : ~verifyFile(bundle.directory, x)}}
         \cup {IF bundle.directory[p].kind = "symlink" THEN "BUNDLE_SYMLINK" ELSE "BUNDLE_UNLISTED_FILE" :
                 p \in {x \in DOMAIN bundle.directory : bundle.directory[x].kind = "symlink" \/ x \notin {f.bundlePath : f \in bundle.files}}}

------------------------------------------------------------------------------
(* Replay. A response is [content, charset, body, robots, candidates]: what  *)
(* it says of its encoding, its X-Robots-Tag header, and how many valid      *)
(* links, or sitemap entries, are in it.                                     *)

\* HTML facts, from decoded text: what they were read from, under which encoding, and with which header.
htmlFacts(read, encoding, robots, candidates, maxLinks) ==
    [text |-> read, charset |-> encoding, xRobotsTag |-> parseXRobotsTag(robots),
     truncated |-> IF candidates > maxLinks THEN candidates - maxLinks ELSE 0]

\* HtmlResourceProcessor: the page as it came, or as the browser showed it, is extracted with the encoding of
\* the response; the evidence of a page the browser showed is its UTF-8 text.
RecordedHtml(response, rendered, keep, maxLinks) ==
    LET encoding == inspectTextBody(response.body, response.charset, "html")
        shown == [bom |-> None, meta |-> response.body.meta, signature |-> None, declaration |-> None,
                  clean |-> {"utf-8"}, text |-> "shown"]
        bytes == IF rendered THEN shown ELSE response.body
    IN  [facts |-> htmlFacts(<<bytes.text, IF rendered THEN "utf-8" ELSE encoding.encoding>>, encoding, response.robots, response.candidates, maxLinks),
         evidence |-> IF ~keep THEN None ELSE "kept",
         bytes |-> bytes, mediaType |-> IF rendered THEN "utf-8" ELSE response.charset]

replayHtml(recorded, candidates, maxLinks) ==
    LET decoded == decodeBody(recorded.bytes, recorded.mediaType, "html", "replacement")
    IN  IF recorded.evidence = None THEN "missing-evidence"
        ELSE IF htmlFacts(decoded.text, decoded.fact, xRobotsTagFromFacts(recorded.facts.xRobotsTag), candidates, maxLinks) = recorded.facts
             THEN "matched" ELSE "changed"

\* XmlResourceProcessor.extractBytes, and what the policy of the run's sitemaps leaves of the entries. A document that
\* is too large for the crawl has no entries; one that cannot be decoded has none and cannot be replayed.
xmlFacts(decoded, entries, perFile) ==
    [text |-> decoded.text, encoding |-> decoded.fact, entries |-> IF entries > perFile THEN perFile ELSE entries,
     warnings |-> decoded.warnings \cup (IF entries > perFile THEN {"per-file"} ELSE {})]
XmlFailed(why, encoding) == [text |-> <<why, None>>, encoding |-> encoding, entries |-> 0, warnings |-> {}]

RecordedXml(response, keep, aborted, perFile, remaining) ==
    LET decoded == decodeBody(response.body, response.charset, "xml", "fatal")
        facts == IF aborted THEN XmlFailed("aborted", inspectTextBody(response.body, response.charset, "xml"))
                 ELSE IF decoded.error # None THEN XmlFailed(decoded.error, inspectTextBody(response.body, response.charset, "xml"))
                 ELSE xmlFacts(decoded, response.candidates, perFile)
        left == IF facts.entries <= remaining THEN facts
                ELSE [facts EXCEPT !.entries = remaining, !.warnings = @ \cup {"run-wide"}]
    IN  [facts |-> left, evidence |-> IF ~keep THEN None ELSE "kept", bytes |-> response.body, mediaType |-> response.charset]

replayXml(recorded, candidates, perFile) ==
    LET decoded == decodeBody(recorded.bytes, recorded.mediaType, "xml", "fatal")
    IN  IF recorded.evidence = None THEN "missing-evidence"
        ELSE IF decoded.error # None THEN "failed"
        ELSE IF xmlFacts(decoded, candidates, perFile) = recorded.facts THEN "matched" ELSE "changed"

------------------------------------------------------------------------------
(* What they are for. *)

\* A bundle of a run can be made, and verifies, exactly when every object is under its own name; it holds every
\* object that is a file.
BundleVerifies(directory, compress) ==
    LET bundle == createEvidenceBundle(directory, FALSE, compress)
        objects == {p \in DOMAIN directory : p.area = "objects" /\ directory[p].kind = "file"}
    IN  IF bundle.error THEN Root("manifest.json") \notin DOMAIN directory \/ \E p \in objects : p.name # digest(directory[p].content)
        ELSE /\ verifyEvidenceBundle(bundle) = {}
             /\ \A p \in objects : \E f \in bundle.files : f.sourcePath = p /\ f.sha256 = p.name

\* Whatever is changed in the directory of a bundle is found.
TamperFound(bundle, directory) ==
    directory # bundle.directory => verifyEvidenceBundle([bundle EXCEPT !.directory = directory]) # {}

\* What is dropped from the listing as well is not missed.
DroppedUnnoticed(bundle, f) ==
    verifyEvidenceBundle([bundle EXCEPT !.files = @ \ {f},
                                        !.directory = [p \in DOMAIN @ \ {f.bundlePath} |-> @[p]]]) = {}

\* docs/crawling.md:30: replaying parses what the crawl parsed; except where the crawl took the encoding of a page
\* the browser showed from the response, cut a sitemap for the sake of the whole run, or gave up reading it.
HtmlReplays(response, rendered, maxLinks) ==
    replayHtml(RecordedHtml(response, rendered, TRUE, maxLinks), response.candidates, maxLinks)
    = IF rendered /\ inspectTextBody(response.body, response.charset, "html")
                       # [encoding |-> "utf-8", source |-> "http-header", hadReplacementChars |-> FALSE]
      THEN "changed" ELSE "matched"

XmlReplays(response, aborted, perFile, remaining) ==
    LET cut == (IF response.candidates > perFile THEN perFile ELSE response.candidates) > remaining
    IN  replayXml(RecordedXml(response, TRUE, aborted, perFile, remaining), response.candidates, perFile)
        = IF decodeBody(response.body, response.charset, "xml", "fatal").error # None THEN "failed"
          ELSE IF aborted \/ cut THEN "changed" ELSE "matched"
=============================================================================
