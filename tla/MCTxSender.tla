----------------------------- MODULE MCTxSender -----------------------------
(* Small instances of TxSender: one or two pairs, a batch of one or two     *)
(* intents, three or four nonces.                                          *)
EXTENDS TxSender

Quote(p) == [pair |-> p, kind |-> "updateQuote"]
Epoch(p) == [pair |-> p, kind |-> "refreshCapacity"]

(* One pair: a row alone, or a row and an epoch in one cycle. *)
OnePair == {<<Quote(1)>>, <<Quote(1), Epoch(1)>>}

(* Two pairs: one of them, or both in one cycle. *)
TwoPairs == {<<Quote(1)>>, <<Quote(1), Quote(2)>>}

=============================================================================
