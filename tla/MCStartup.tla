----------------------------- MODULE MCStartup ------------------------------
(* From the config file to the reference price, in two lanes of which a run   *)
(* takes one. Start: the file of config.rs's own tests (good()) with an edit, *)
(* and a larger one with two; the edits take every guard to both sides of     *)
(* its bound. A base unit is 10^-6, a quote unit 10^-3. Feeds: one venue in   *)
(* detail beside three others, prices a third apart, a keepalive shorter      *)
(* than the read timeout (20 s against 45 s) and none.                       *)
EXTENDS Startup, Feeds

CONSTANTS v1, v2, v3

MCOthers == {v1, v2, v3}
MCPrices == {30, 31, 60}
MCPrints == {31, 60}

Symmetric == Permutations(MCOthers)

----------------------------------------------------------------------------
Url(scheme) == [scheme |-> scheme, closed |-> TRUE, vars |-> {}]
Secret(scheme) == [Url(scheme) EXCEPT !.vars = {"KEY"}]
Amount(x) == [digits |-> x, frac |-> 0]
Tenths(x) == [digits |-> x, frac |-> 1]

Pair(id, symbol, venues) ==
  [pair_id |-> id, symbol |-> symbol, venues |-> venues,
   base_decimals |-> 6, quote_decimals |-> 3,
   half_spread_bps |-> 5000, width_bps |-> 25, target_base_share_pct |-> 50000,
   capture |-> Amount(20), bid_capacity |-> Amount(1000), ask_capacity |-> Amount(1000),
   heartbeat_secs |-> 2400, adverse_drift_bps |-> 2000, favourable_drift_bps |-> 8000,
   capacity_divergence_pct |-> 20]

Good ==
  [args |-> "", readable |-> TRUE, wellformed |-> TRUE,
   env  |-> [KEY |-> <<"absent", "absent", "set">>],
   file |-> [chain |-> [ws_url |-> Secret("wss"), rpc_url |-> Secret("https"),
                        flashblocks_rpc_url |-> Url("https"),
                        chain_id |-> 91342, pool |-> 1, multicall3 |-> 2],
             feed |-> [venues_min |-> 2], tx |-> <<>>, skew |-> <<>>, spread |-> <<>>, jump |-> <<>>,
             risk |-> [state_path |-> "killswitch", nav_decimals |-> 3, bleed_window_secs |-> 300,
                       bleed_limit |-> Amount(2000), loss_budget |-> Amount(10000)],
             pairs |-> <<Pair(1, "ETHUSDT", [binance |-> "ETHUSDT", okx |-> "ETH-USDT", bybit |-> "ETHUSDT"])>>],
   keys |-> [UPDATER |-> "updater", keyfile |-> "other", RFQ |-> "other", HEDGE |-> "other", SECRET |-> "other"],
   latches |-> ("" :> "clear") @@ ("crypto" :> "clear"),
   chain |-> [pairs |-> (1 :> [base |-> "mWETH", quote |-> "mUSDC", max_stale_secs |-> 3600]) @@
                        (2 :> [base |-> "mAAPL", quote |-> "mUSDC", max_stale_secs |-> 3600]),
              decimals |-> [mWETH |-> 6, mAAPL |-> 6, mUSDC |-> 3, mEUR |-> 3]]]

\* Transmitting, with two pairs in two groups, an RFQ leg and a hedge.
Full ==
  LET eth  == Good.file.pairs[1] @@ [jump_group |-> "crypto"]
      aapl == Pair(2, "AAPLUSD", [hyperliquid |-> "xyz:AAPL", pyth |-> "Equity.US.AAPL/USD"])
  IN  [Good EXCEPT
         !.file = [pairs  |-> <<eth, aapl @@ [venues_min |-> 1]>>,
                   tx     |-> [transmit_allowed |-> TRUE, private_key_env |-> "UPDATER"],
                   rfq    |-> [private_key_env |-> "RFQ", private_key_file |-> Unset, pmm_settle |-> 3,
                               notional_per_order_max |-> Amount(100), quote_decimals |-> 3],
                   hedge  |-> [key_env |-> "HEDGE", secret_env |-> "SECRET",
                               pairs |-> (1 :> "binance") @@ (2 :> "hyperliquid_paper")]] @@ @]

In(part, field, values) == [i \in DOMAIN values |-> [part |-> part, field |-> field, to |-> values[i]]]

Edits ==
  In("world", "args", <<"", "dry run", "unknown">>) \o In("world", "readable", <<FALSE>>)
  \o In("world", "wellformed", <<FALSE>>)
  \o In("env", "KEY", <<<<"absent", "absent", "absent">>, <<"blank", "set", "set">>, <<"absent", "set", "blank">>>>)
  \o In("chain", "rpc_url", <<Secret("http"), Secret("ftp"), [Secret("https") EXCEPT !.closed = FALSE]>>)
  \o In("chain", "ws_url", <<Url("ws"), Url("https")>>) \o In("chain", "submit_rpc_url", <<{Secret("https")}>>)
  \o In("chain", "chain_id", <<0>>) \o In("chain", "pool", <<0>>) \o In("chain", "multicall3", <<0>>)
  \o In("chain", "block_time_ms", <<99, 100, 2000, 2001, 60001>>)
  \o In("chain", "head_stale_blocks", <<1, 2, 599, 600>>)
  \o In("chain", "fallback_poll_interval_ms", <<249, 999, 1000, 600001>>)
  \o In("chain", "request_timeout_ms", <<499, 120000>>)
  \o In("chain", "requests_per_sec", <<NaN, 0, 1000001>>) \o In("chain", "request_burst", <<NaN, 999, 2000001>>)
  \o In("chain", "ws_reconnect_initial_ms", <<0, 30000, 30001>>)
  \o In("chain", "rate_limit_backoff_initial_ms", <<0, 120000, 120001>>)
  \o In("chain", "degraded_after_secs", <<0, 599, 600>>) \o In("chain", "view_stale_secs", <<0>>)
  \o In("chain", "degraded_extra_half_spread_bps", <<0, 9969, 9970, 9999, 10000>>)
  \o In("feed", "urls", <<[pyth |-> "wss"], [binance |-> "https"], [okx |-> "ws"]>>)
  \o In("feed", "stale_after_ms", <<0, 99, 1000, 999, 45001>>) \o In("feed", "poll_interval_ms", <<0, 5001>>)
  \o In("feed", "reconnect_initial_ms", <<0, 30001>>) \o In("feed", "read_timeout_ms", <<0, 4999>>)
  \o In("feed", "venues_min", <<1, 3, 4, 7>>) \o In("feed", "mad_k", <<NaN, 0, 100001>>)
  \o In("feed", "mad_floor_bps", <<NaN, 0, 25000>>) \o In("feed", "dispersion_bps_max", <<NaN, 2000>>)
  \o In("tx", "transmit_allowed", <<TRUE>>) \o In("tx", "private_key_env", <<Unset, "", "0x">>)
  \o In("tx", "private_key_file", <<"keyfile">>) \o In("tx", "gas_limit", <<20999>>)
  \o In("tx", "max_fee", <<NaN, Amount(0)>>) \o In("tx", "max_priority_fee", <<Tenths(1), [digits |-> 1, frac |-> 10]>>)
  \o In("tx", "pending_timeout_secs", <<4, 5>>)
  \o In("skew", "vol_tau_ms", <<0, 999, 1000>>) \o In("skew", "vol_horizon_secs", <<0, 1>>)
  \o In("skew", "vol_min_sample_ms", <<0, 9999, 10000>>) \o In("skew", "gamma", <<NaN, 0>>)
  \o In("skew", "positive_bps_max", <<9, 10000>>) \o In("skew", "negative_bps_max", <<30, 31>>)
  \o In("spread", "vol_coefficient", <<NaN, 0, 100000, 100001>>)
  \o In("spread", "half_spread_bps_max", <<0, 4, 5, 9999, 10000>>)
  \o In("jump", "sigma_k", <<NaN, 1000001>>) \o In("jump", "cooloff_secs", <<0, 1, 3601>>)
  \o In("jump", "scan_interval_ms", <<19, 1000, 1001>>) \o In("jump", "withdraw_priority_fee", <<Amount(3)>>)
  \o In("risk", "state_path", <<"">>) \o In("risk", "nav_decimals", <<4, 31>>)
  \o In("risk", "bleed_window_secs", <<0, 86401>>) \o In("risk", "bleed_limit", <<Amount(0), Amount(10001), NaN>>)
  \o In("risk", "loss_budget", <<Amount(0)>>)
  \o In("pair", "pair_id", <<0, 2, 3>>) \o In("pair", "symbol", <<"", "ETH/USDT", "AAPLUSD">>)
  \o In("pair", "venues", <<<<>>, [binance |-> "ETHUSDT"], [binance |-> "", okx |-> "ETH-USDT"],
                            [pyth |-> "TSLA.ON", okx |-> " "], [hyperliquid |-> "xyz:AAPL", pyth |-> "TSLA"]>>)
  \o In("pair", "venues_min", <<0, 1>>) \o In("pair", "jump_group", <<"crypto">>)
  \o In("pair", "jump_floor_bps", <<0, 40>>) \o In("pair", "base_decimals", <<5, 31>>)
  \o In("pair", "quote_decimals", <<4>>) \o In("pair", "half_spread_bps", <<NaN, 4, 5, 30000, 9999000, 9999995>>)
  \o In("pair", "width_bps", <<0, 9999, 10000>>) \o In("pair", "target_base_share_pct", <<NaN, -1, 100000>>)
  \o In("pair", "capture", <<NaN, Amount(0), Amount(1000), Amount(1001)>>)
  \o In("pair", "ask_capacity", <<Amount(0), Amount(2000), Amount(2001), Amount(2148)>>)
  \o In("pair", "heartbeat_secs", <<0, 3599, 3600>>) \o In("pair", "adverse_drift_bps", <<NaN, 0, 8000, 8001>>)
  \o In("pair", "capacity_divergence_pct", <<0, 101>>)
  \o In("keys", "UPDATER", <<"none", "other">>) \o In("keys", "RFQ", <<"none">>) \o In("keys", "HEDGE", <<"none">>)
  \o In("rfq", "pmm_settle", <<NaN>>) \o In("rfq", "private_key_env", <<Unset, "0x">>)
  \o In("rfq", "notional_per_order_max", <<NaN>>)
  \o In("hedge", "pairs", <<3 :> "binance", 1 :> "binance_paper">>)
  \o In("latches", "", <<"liveness", "loss", "corrupt">>) \o In("latches", "crypto", <<"liveness", "loss">>)
  \o In("deployed", 1, <<[base |-> "mWETH", quote |-> "mEUR", max_stale_secs |-> 2401],
                         [base |-> "mWETH", quote |-> "mUSDC", max_stale_secs |-> 2400]>>)

Edited(w, e) ==
  CASE e.part = "world" -> [w EXCEPT ![e.field] = e.to]
    [] e.part \in {"env", "keys", "latches"} -> [w EXCEPT ![e.part][e.field] = e.to]
    [] e.part = "deployed" -> [w EXCEPT !.chain.pairs[e.field] = e.to]
    [] e.part = "pair" -> [w EXCEPT !.file.pairs[1] = (e.field :> e.to) @@ @]
    [] e.part \in DOMAIN w.file -> [w EXCEPT !.file[e.part] = (e.field :> e.to) @@ @]
    [] OTHER -> w

\* The first edit is none.
MCWorlds ==
  {IF e[1] = 0 THEN Edited(Good, Edits[e[2]]) ELSE Edited(Edited(Full, Edits[e[1]]), Edits[e[2]])
     : e \in {two \in (0..Len(Edits)) \X (DOMAIN Edits) : two[1] <= two[2]}}

MCGood == {Good}
MCDegraded == {Edited(Good, In("chain", "degraded_extra_half_spread_bps", <<extra>>)[1]) : extra \in {9969, 9999}}

----------------------------------------------------------------------------
VARIABLE lane

\* Where no start is looked at, there is no world either.
LanesInit ==
  /\ FeedsInit
  /\ \/ lane = "start" /\ StartInit /\ keepalive = Min(Keepalives)
     \/ /\ lane = "feeds" /\ world = <<>>
        /\ stage = "load" /\ dead = {} /\ waited = 0 /\ hedged = {}

LanesNext ==
  /\ UNCHANGED lane
  /\ \/ lane = "start" /\ StartNext /\ UNCHANGED feedsVars
     \/ lane = "feeds" /\ FeedsNext /\ UNCHANGED startVars

LanesSpec == LanesInit /\ [][LanesNext]_<<lane, feedsVars, startVars>>
=============================================================================
