------------------------------ MODULE RpcPool -------------------------------
(***************************************************************************)
(* A JSON-RPC client over several endpoints (chain/mod.rs): each endpoint   *)
(* has a limiter of its own, a call starts at the first endpoint and moves  *)
(* on when the fault is the endpoint's, and the last error is the answer.  *)
(* Every pool of the program is pinned (main.rs 557, 565, 643), so the      *)
(* round-robin start is left out.  Calls of one pool run side by side.     *)
(***************************************************************************)
EXTENDS Naturals, FiniteSetsExt

CONSTANTS
    Calls,          \* calls that may be in progress at once
    Endpoints,      \* how many endpoints the pool has, at least one
    Burst,          \* tokens of a full bucket, at least one
    Backoff,        \* the first penalty, at least 1
    BackoffMax      \* the longest, at least Backoff

VARIABLES
    tokens,     \* by endpoint
    penalty,    \* by endpoint, what is left of its penalty window
    strikes,    \* by endpoint, rate limits in a row
    call        \* by call, where it stands, and the endpoints that may have it

vars == <<tokens, penalty, strikes, call>>

(* Refused by the limiter, before a socket is opened. *)
Local == {"backing_off", "budget_exhausted"}

(* What a request that was sent may come back with; "transport" is also a    *)
(* timeout, of a request the node may have taken.  A "key" error is a node's *)
(* refusal of the caller.                                                  *)
Remote == {"ok", "rate_limited", "http", "transport", "node", "key", "decode"}

(* A node that answered so may have taken the request. *)
Open == {"ok", "http", "transport", "decode"}

(* RpcError::never_sent *)
NeverSent(answer) == answer \in Local

(* RpcError::is_endpoint_fault *)
EndpointFault(answer) ==
    answer \in Local \cup {"rate_limited", "http", "transport", "key"}

Idle == [at |-> 0, on |-> "idle", answer |-> "ok", fate |-> {}]

Init ==
    /\ tokens = [e \in 1 .. Endpoints |-> Burst]
    /\ penalty = [e \in 1 .. Endpoints |-> 0]
    /\ strikes = [e \in 1 .. Endpoints |-> 0]
    /\ call = [c \in Calls |-> Idle]

Begin(c) ==
    /\ call[c].on \in {"idle", "done"}
    /\ call' = [call EXCEPT ![c] = [Idle EXCEPT !.at = 1, !.on = "taking"]]
    /\ UNCHANGED <<tokens, penalty, strikes>>

(* The call has this answer from the endpoint it is at. *)
After(c, answer) ==
    IF EndpointFault(answer) /\ call[c].at < Endpoints
    THEN [call[c] EXCEPT !.on = "taking", !.at = @ + 1]
    ELSE [call[c] EXCEPT !.on = "done", !.answer = answer]

(* Limiter::try_take *)
Refused(c, answer) ==
    /\ call[c].on = "taking"
    /\ IF answer = "backing_off" THEN penalty[call[c].at] > 0
       ELSE penalty[call[c].at] = 0 /\ tokens[call[c].at] = 0
    /\ call' = [call EXCEPT ![c] = After(c, answer)]
    /\ UNCHANGED <<tokens, penalty, strikes>>

Send(c) ==
    LET e == call[c].at
    IN  /\ call[c].on = "taking" /\ penalty[e] = 0 /\ tokens[e] > 0
        /\ tokens' = [tokens EXCEPT ![e] = @ - 1]
        /\ call' = [call EXCEPT ![c].on = "waiting"]
        /\ UNCHANGED <<penalty, strikes>>

(* Limiter::on_rate_limited; on_success after an answer that is no error. *)
Noted(e, answer) ==
    CASE answer = "rate_limited" ->
           /\ tokens' = [tokens EXCEPT ![e] = 0]
           /\ penalty' = [penalty EXCEPT ![e] = Min({Backoff * 2 ^ strikes[e], BackoffMax})]
           /\ strikes' = [strikes EXCEPT ![e] = Min({@ + 1, 16, BackoffMax})]
      [] answer = "ok" ->
           /\ strikes' = [strikes EXCEPT ![e] = 0]
           /\ UNCHANGED <<tokens, penalty>>
      [] OTHER -> UNCHANGED <<tokens, penalty, strikes>>

Answered(c, answer) ==
    /\ call[c].on = "waiting"
    /\ Noted(call[c].at, answer)
    /\ call' = [call EXCEPT ![c] = [After(c, answer) EXCEPT
           !.fate = @ \cup IF answer \in Open THEN {call[c].at} ELSE {}]]

(* Limiter::refill, a token a tick; a penalty runs out. *)
Tick ==
    /\ tokens' = [e \in 1 .. Endpoints |-> Min({tokens[e] + 1, Burst})]
    /\ penalty' = [e \in 1 .. Endpoints |-> IF penalty[e] = 0 THEN 0 ELSE penalty[e] - 1]
    /\ UNCHANGED <<strikes, call>>

Next ==
    \/ Tick
    \/ \E c \in Calls :
        \/ Begin(c) \/ Send(c)
        \/ \E answer \in Local : Refused(c, answer)
        \/ \E answer \in Remote : Answered(c, answer)

Spec == Init /\ [][Next]_vars

-----------------------------------------------------------------------------
(* A call that ends in the limiter's refusal has left the process nowhere:   *)
(* chain/mod.rs 203 "True when the request provably never left this         *)
(* process", on which the transmit path gives the nonce back (tx.rs 1200).   *)
NeverSentNeverLeft ==
    \A c \in Calls : (call[c].on = "done" /\ NeverSent(call[c].answer)) => call[c].fate = {}

=============================================================================
