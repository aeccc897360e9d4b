---------------------------- MODULE MCBronzeRun ----------------------------
(* Small instances of BronzeRun for TLC.                                   *)
EXTENDS BronzeRun

\* A candle task, an open-interest task in a worker process, and a trade task.
ThreeKinds == [t \in Tasks |-> <<"standard", "worker", "trade">>[t]]
\* The pipeline's plans: a tail run of candles and open interest, and a full-gap
\* run of trades, here with the candles as well.
Scheduled == {[tasks |-> {1, 2}, tail |-> TRUE], [tasks |-> {1, 3}, tail |-> FALSE]}
=============================================================================
