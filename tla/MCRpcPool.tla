----------------------------- MODULE MCRpcPool ------------------------------
(* Two broadcasts of one phase over an endpoint and its fallback. *)
EXTENDS RpcPool

=============================================================================
