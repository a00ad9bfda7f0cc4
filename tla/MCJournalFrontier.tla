------------------------- MODULE MCJournalFrontier -------------------------
(* JournalFrontier on two workers and two requests.                        *)
EXTENDS JournalFrontier, TLC

=============================================================================
