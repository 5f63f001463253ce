--------------------------- MODULE MCPretixClient ---------------------------
(* One tick is fifteen seconds: the cap of 30 s is 2, pretix's window of a minute is 4, and *)
(* the default wait of 1 s ends within the first.                                           *)
EXTENDS PretixClient

CONSTANTS r1, r2

MCHeaders == {NoNumber, -1, 9}
=============================================================================
