----------------------------- MODULE MCRowBuild -----------------------------
(* Ladders of up to five prices, narrow and wide, at two scales: small       *)
(* enough to try every side and every target, coarse enough that rounding   *)
(* decides most of them.  A basis point is a tenth of a price.             *)
EXTENDS RowBuild

MCPrices     == {0, 1, 4, 10, 13, 29}
MCScales     == {1, 10}
MCConfigured == {5, 9}
MCBases      == {0, 3, 9}
MCOnChain    == {[bid |-> 0, ask |-> 0], [bid |-> 7, ask |-> 2]}
MCCaptures   == {1, 4, 9}
MCMinPrices  == {0, 8, 22}
MCSpreads    == {[s0 |-> 1, vol |-> 2], [s0 |-> 3, vol |-> 4]}
MCDegraded   == {0, 1}
MCRawSkews   == {-15, 4, 5, 33}
MCWidths     == {0, 6, 30}

=============================================================================
