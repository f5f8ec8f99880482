------------------------- MODULE MCStandaloneStore -------------------------
(* Values of the constants of StandaloneStore for TLC.                      *)
EXTENDS StandaloneStore

CONSTANTS x, host

One == <<host>>
Few == {{0, 1, 2, 3}, {1, 3}}
=============================================================================
