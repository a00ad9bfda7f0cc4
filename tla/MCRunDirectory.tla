--------------------------- MODULE MCRunDirectory ---------------------------
(* Two processes of one machine and one of another; and what is read back    *)
(* from the directory when they are done, over small sequences of records    *)
(* and small snapshots.                                                      *)
EXTENDS RunDirectory, TLC, Sequences

CONSTANTS p1, p2, p3, here, there

Machines == (p1 :> here) @@ (p2 :> here) @@ (p3 :> there)

------------------------------------------------------------------------------
Stored == INSTANCE StoredRun

Snapshots(kind, keys, values) ==
    LET Says == [Stored!Facets[kind] -> values]
        Nothing == [k \in Stored!Compared |-> <<>>]
    IN  {[Nothing EXCEPT ![kind] = told] : told \in UNION {[some -> Says] : some \in SUBSET keys}}
Pairs(kind, keys, values) == Snapshots(kind, keys, values) \X Snapshots(kind, keys, values)

ComparedPairs ==
    Pairs("resource", {"a"}, {0, 1}) \cup Pairs("html-page", {"a"}, {0, 1}) \cup Pairs("robots", {"a", "b"}, {0, 1})
    \cup Pairs("link", {"a", "b"}, {0}) \cup Pairs("sitemap-entry", {"a", "b"}, {0})

\* Every difference between two runs is reported, once, from either side.
ASSUME DifferencesReported ==
    \A pair \in ComparedPairs :
        /\ Stored!Explained(pair[1], pair[2])
        /\ Stored!Mirrored(pair[1], pair[2])
        /\ Stored!Counted(pair[1], pair[2])

SomeRecords ==
    {[kind |-> k, request |-> r, key |-> "a", id |-> 0, url |-> "a", at |-> t, facets |-> f] : k \in {"resource", "robots"}, r \in {1, 2}, t \in {1, 2}, f \in {0, 1}}
Writings == UNION {[1..n -> SomeRecords] : n \in 0..2}

\* What a resumed run writes again does no harm.
ASSUME WrittenAgain == \A written \in Writings, again \in SomeRecords : Stored!Idempotent(written, again)

\* Both stores tell of a run the same, as long as no request was processed twice with another outcome.
ASSUME StoresAgree == \A written \in Writings : Stored!SameStory(written)

FoundByIndex ==
    {[kind |-> "resource", request |-> r, key |-> u, id |-> 0, url |-> u, at |-> 1, facets |-> [bodyHash |-> h]] :
        r \in {1, 2}, u \in {"a", "b"}, h \in {Stored!None, "x", "y"}}
    \cup {[kind |-> k, request |-> r, key |-> u, id |-> 0, url |-> u, at |-> 1, facets |-> [bodyHash |-> Stored!None]] :
            k \in {"html-page", "sitemap-entry"}, r \in {1}, u \in {"a", "b"}}

\* The index finds the pages that share a body and the URLs only one side names.
ASSUME IndexAnswers == \A written \in UNION {[1..n -> FoundByIndex] : n \in 0..3} : Stored!IndexTells(written)
=============================================================================
