--------------------------- MODULE MCSilverBuild ---------------------------
(***************************************************************************)
(* --dataset lists: concurrent sources feeding rolling and derived         *)
(* features, features rebuilt in every run, a feature that runs in the     *)
(* batch of its source, two jobs building one feature, and a feature       *)
(* listed before the job that builds its source.                           *)
(***************************************************************************)
EXTENDS SilverBuild

Lists == { <<"spot_ohlcv", "perps_ohlcv", "realized_volatility">>,
           <<"volatility_index_data", "iv_rv">>,
           <<"perps_trades">>,
           <<"options_ticker_snapshot_1m", "options_surface_1m_feature">>,
           <<"options_surface_1m_feature", "spot_ohlcv", "options_ticker_snapshot_1m">> }
=============================================================================
