---------------------------- MODULE MCLifecycle -----------------------------
EXTENDS Lifecycle, TLC
CONSTANTS crypto, equity, p1, p2
MCPairsOf == crypto :> {p1} @@ equity :> {p2}
MCPnls == {-1}
=============================================================================
