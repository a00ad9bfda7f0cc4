------------------------------ MODULE StoredRun ------------------------------
(* What the two durable stores keep of the records that were written, and    *)
(* what is read back: RunReader, the queries, the snapshot and comparison of *)
(* runs, the counts and the export. A record is [kind, request, key, id, url, *)
(* at, facets]: the request it belongs to, what identifies it in a comparison *)
(* (a normalized URL, a link, an origin), what a link's row is identified by *)
(* (its raw form and place, so that one link of a comparison may have rows), *)
(* the URL it is found by, when it was made, and what it says, a function of *)
(* facet names.                                                              *)
EXTENDS Integers, SequencesExt

Kinds == {"request", "request-state", "discovery", "resource", "html-page", "xml-resource",
          "link", "skipped", "error", "robots", "sitemap-entry", "feed-entry"}

None == "null"

------------------------------------------------------------------------------
(* The stores. *)

\* storage/sqlite/record.ts: the identity of a row beside its kind.
recordId(r) ==
    CASE r.kind \in {"request", "resource", "html-page", "xml-resource"} -> <<r.request>>
      [] r.kind = "link" -> <<r.id>>
      [] r.kind = "request-state" -> <<r.request, r.key, r.at>>
      [] r.kind = "robots" -> <<r.key, r.at>>
      [] OTHER -> <<r.request, r.key, r.at, r.facets>>

\* INSERT OR IGNORE: the first of a kind and an identity stays.
insert(rows, r) == IF \E i \in DOMAIN rows : rows[i].kind = r.kind /\ recordId(rows[i]) = recordId(r) THEN rows ELSE Append(rows, r)
SqliteRows(written) == FoldLeft(insert, <<>>, written)

\* One file per kind, in the order of writing.
NdjsonRows(written) == written

Rows(storage, written) == IF storage = "sqlite" THEN SqliteRows(written) ELSE NdjsonRows(written)

\* RunReader.records: by time, or as the file has them. Rows of one time come in the order of their ids.
records(storage, written, kind) ==
    LET rows == SelectSeq(Rows(storage, written), LAMBDA r : r.kind = kind)
    IN  IF storage = "sqlite" THEN SortSeq(rows, LAMBDA a, b : a.at < b.at) ELSE rows

\* inspectRun, exportRun: every kind is read through; a kind without records leaves no file.
counts(storage, written) == [kind \in Kinds |-> Len(records(storage, written, kind))]
Exported(storage, written, kinds) ==
    [kind \in {k \in kinds : counts(storage, written)[k] > 0} |-> records(storage, written, kind)]

\* queryRecords: a filter that is not given does not filter; a limit is held between 1 and 10000.
queryRecords(rows, filter, limit) ==
    LET found == SelectSeq(rows, LAMBDA r : \A f \in DOMAIN filter : r[f] = filter[f])
        most == IF limit < 1 THEN 1 ELSE IF limit > 10000 THEN 10000 ELSE limit
    IN  SubSeq(SortSeq(found, LAMBDA a, b : a.at < b.at), 1, IF Len(found) < most THEN Len(found) ELSE most)

\* urlsOnlyIn: the URLs of one kind that no row of the other has.
urlsOnlyIn(rows, included, excluded) ==
    LET Urls(kind) == {r.url : r \in {x \in ToSet(rows) : x.kind = kind}} \ {None} IN Urls(included) \ Urls(excluded)

\* duplicateHashes: the resources that share a body, by the hash of it.
duplicateHashes(rows) ==
    LET resources == {i \in DOMAIN rows : rows[i].kind = "resource" /\ rows[i].facets.bodyHash # None}
        Group(hash) == {i \in resources : rows[i].facets.bodyHash = hash}
    IN  {[hash |-> h, urls |-> {rows[i].url : i \in Group(h)}, count |-> Cardinality(Group(h))] :
            h \in {rows[i].facets.bodyHash : i \in {j \in resources : Cardinality(Group(rows[j].facets.bodyHash)) > 1}}}

------------------------------------------------------------------------------
(* readDiffSnapshot: of the records with one key the last is kept. *)
Compared == {"resource", "html-page", "link", "sitemap-entry", "robots"}

keyedRecords(storage, written, kind) ==
    LET rows == SelectSeq(records(storage, written, kind), LAMBDA r : r.key # None)
        last(key) == rows[CHOOSE i \in DOMAIN rows : rows[i].key = key /\ \A j \in DOMAIN rows : rows[j].key = key => j <= i]
    IN  [key \in {rows[i].key : i \in DOMAIN rows} |-> last(key).facets]

readDiffSnapshot(storage, written) == [kind \in Compared |-> keyedRecords(storage, written, kind)]

------------------------------------------------------------------------------
(* compareRuns. Facets that are compared; a robots policy is compared as one. *)
Facets == [kind \in Compared |->
    CASE kind = "resource" -> {"statusCode", "finalUrl", "contentType", "bodyHash"}
      [] kind = "html-page" -> {"title", "canonical", "metaDescription", "headings", "visibleText"}
      [] kind = "robots" -> {"policy"}
      [] OTHER -> {}]

Change(kind, what, key) == [entity |-> kind, kind |-> what, key |-> key]

compareEntities(kind, before, after) ==
    {Change(kind, "disappeared", key) : key \in DOMAIN before \ DOMAIN after}
    \cup {Change(kind, "appeared", key) : key \in DOMAIN after \ DOMAIN before}
    \cup {Change(kind, f, key) : <<f, key>> \in
            {<<f, key>> \in Facets[kind] \X (DOMAIN before \cap DOMAIN after) : before[key][f] # after[key][f]}}

compareMembership(kind, before, after) ==
    {Change(kind, "removed", key) : key \in DOMAIN before \ DOMAIN after}
    \cup {Change(kind, "added", key) : key \in DOMAIN after \ DOMAIN before}

compareRuns(base, target) ==
    UNION {IF kind \in {"link", "sitemap-entry"} THEN compareMembership(kind, base[kind], target[kind])
           ELSE compareEntities(kind, base[kind], target[kind]) : kind \in Compared}

summarize(changes) ==
    LET Of(kinds, entities) == Cardinality({c \in changes : c.kind \in kinds /\ c.entity \in entities})
        membership == {"appeared", "disappeared", "added", "removed"}
    IN  [appeared |-> Of({"appeared"}, Compared), disappeared |-> Of({"disappeared"}, Compared),
         modified |-> Cardinality({c \in changes : c.kind \notin membership}),
         linksAdded |-> Of({"added"}, {"link"}), linksRemoved |-> Of({"removed"}, {"link"}),
         sitemapAdded |-> Of({"added"}, {"sitemap-entry"}), sitemapRemoved |-> Of({"removed"}, {"sitemap-entry"})]

------------------------------------------------------------------------------
(* What comparisons are for, over snapshots that are given. *)

\* The changes of a pair of runs tell what became of every key that either has.
Explained(base, target) ==
    LET changes == compareRuns(base, target)
    IN  \A kind \in Compared : \A key \in DOMAIN base[kind] \cup DOMAIN target[kind] :
          LET about == {c.kind : c \in {x \in changes : x.entity = kind /\ x.key = key}}
          IN  about = IF key \notin DOMAIN target[kind] THEN {IF kind \in {"link", "sitemap-entry"} THEN "removed" ELSE "disappeared"}
                      ELSE IF key \notin DOMAIN base[kind] THEN {IF kind \in {"link", "sitemap-entry"} THEN "added" ELSE "appeared"}
                      ELSE {f \in Facets[kind] : base[kind][key][f] # target[kind][key][f]}

\* Comparing the other way round gives the opposite changes, and every change is counted once.
Opposite(c) == [c EXCEPT !.kind = CASE @ = "appeared" -> "disappeared" [] @ = "disappeared" -> "appeared"
                                    [] @ = "added" -> "removed" [] @ = "removed" -> "added" [] OTHER -> @]
Mirrored(base, target) == compareRuns(target, base) = {Opposite(c) : c \in compareRuns(base, target)}
Counted(base, target) ==
    LET s == summarize(compareRuns(base, target))
    IN  s.appeared + s.disappeared + s.modified + s.linksAdded + s.linksRemoved + s.sitemapAdded + s.sitemapRemoved
        = Cardinality(compareRuns(base, target))

\* README.md:117: what is written again when a request is processed again does no harm in the database,
\* and none to a comparison of files as long as it says the same.
Idempotent(written, again) ==
    /\ again \in ToSet(written) => SqliteRows(Append(written, again)) = SqliteRows(written)
    /\ again \in ToSet(written) /\ (\A i, j \in DOMAIN written : written[i].key = written[j].key /\ written[i].kind = written[j].kind
                                                              => written[i].facets = written[j].facets)
       => readDiffSnapshot("filesystem", Append(written, again)) = readDiffSnapshot("filesystem", written)

\* CrawlIndex: two pages with one body are found as duplicates, unless the database kept one row for both;
\* a URL is never listed as missing from what the run has of it.
IndexTells(written) ==
    LET rows == SqliteRows(written)
        Same(i, j) == /\ rows[i].kind = "resource" /\ rows[j].kind = "resource" /\ i # j
                      /\ rows[i].facets.bodyHash = rows[j].facets.bodyHash /\ rows[i].facets.bodyHash # None
        groups == duplicateHashes(rows)
    IN  /\ \A i, j \in DOMAIN rows : Same(i, j) => \E g \in groups : g.hash = rows[i].facets.bodyHash /\ {rows[i].url, rows[j].url} \subseteq g.urls
        /\ \A g \in groups : \A u \in g.urls : \E i, j \in DOMAIN rows : Same(i, j) /\ rows[i].url = u /\ rows[i].facets.bodyHash = g.hash
        /\ \A r \in ToSet(written) : r.kind = "html-page" => r.url \notin urlsOnlyIn(rows, "sitemap-entry", "html-page")
                                   \/ \E q \in ToSet(rows) : recordId(q) = recordId(r) /\ q.kind = r.kind /\ q.url # r.url

\* Where no request left two versions of a record both stores tell the same.
SameStory(written) ==
    (\A i, j \in DOMAIN written : i < j => /\ written[i].at <= written[j].at
                                           /\ written[i].kind = written[j].kind /\ recordId(written[i]) = recordId(written[j])
                                              => written[i] = written[j])
    => readDiffSnapshot("sqlite", written) = readDiffSnapshot("filesystem", written)
=============================================================================
