---------------------------- MODULE MCQuoteLoop -----------------------------
EXTENDS QuoteLoop
=============================================================================
