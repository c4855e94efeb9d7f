----------------------------- MODULE MCCallScan -----------------------------
(***************************************************************************)
(* Small instances of CallScan for TLC.                                    *)
(***************************************************************************)
EXTENDS CallScan

ThreePosts == 1 .. 3
\* Post 2 states two calls, or only the first is read; post 3 none or one.
TwoReadings ==
  [p \in ThreePosts |->
     CASE p = 2 -> {<<"NVDA", "AMD">>, <<"NVDA">>}
       [] p = 3 -> {<<>>, <<"AMD">>}
       [] OTHER -> {<<"NVDA">>}]
=============================================================================
