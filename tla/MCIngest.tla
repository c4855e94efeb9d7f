------------------------------ MODULE MCIngest ------------------------------
(***************************************************************************)
(* Small instances of Ingest for TLC.                                      *)
(***************************************************************************)
EXTENDS Ingest

CONSTANTS x, tg

\* A poll of the handle reaches one post, so a second one before the next cycle
\* puts the first out of reach; the channel's page, and its lookback, hold both.
ShortPages == [s \in Sources |-> IF s = x THEN 1 ELSE 2]
=============================================================================
