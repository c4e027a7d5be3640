--------------------------- MODULE MCJournalWriter ---------------------------
(***************************************************************************)
(* JournalWriter.tla with two writers, two submitting threads, single and  *)
(* paired events, and a counter small enough to run out.                   *)
(***************************************************************************)
EXTENDS JournalWriter

MCJob == {<<"e">>, <<"f", "g">>}
=============================================================================
