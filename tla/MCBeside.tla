------------------------------ MODULE MCBeside ------------------------------
(* The tasks beside the quote loop: the killswitches' marks, the hedge leg,   *)
(* the fill scan and the notifier. None reads what another one writes, so     *)
(* each is run on its own, in a lane chosen at the start, while the others    *)
(* stand still. One group of two pairs that share the quote token, one        *)
(* hedged at the exchange, one on paper.                                      *)
EXTENDS Hedge, FillWatch, Notify
CONSTANTS crypto, p1, p2
MCOneGroup == crypto :> {p1, p2}

VARIABLE lane

BesideInit ==
  /\ HedgeInit /\ ScanInit /\ AlertInit
  /\ lane \in {"marks", "hedge", "fills", "alerts"}

BesideNext ==
  /\ UNCHANGED lane
  /\ \/ lane = "marks" /\ Next /\ UNCHANGED <<leg, scanVars, alertVars>>
     \/ lane = "hedge" /\ HedgeNext /\ UNCHANGED <<scanVars, alertVars>>
     \/ lane = "fills" /\ ScanNext /\ UNCHANGED <<vars, leg, alertVars>>
     \/ lane = "alerts" /\ AlertNext /\ UNCHANGED <<vars, leg, scanVars>>

BesideSpec == BesideInit /\ [][BesideNext]_<<lane, vars, leg, scanVars, alertVars>>
=============================================================================
