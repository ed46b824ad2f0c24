------------------------------ MODULE MCServing ------------------------------
(***************************************************************************)
(* One storage symbol with a 15 minute series of two providers, one without *)
(* any bars.  assets.yaml lists symbols 1 and 3 and may move 1; symbol 2 is  *)
(* POSTed.  Time is in half bars, so that an old off-grid row can exist.     *)
(***************************************************************************)
EXTENDS Serving

TvKey == <<"x", "15", "tradingview">>
YahooKey == <<"x", "15", "yahoo">>
MCKeys == {TvKey, YahooKey}
MCYamls == {[s \in {1, 3} |-> IF s = 1 THEN "x" ELSE "y"], [s \in {1, 3} |-> "y"]}
MCPosts == {[symbol |-> 2, storage |-> "x", frames |-> <<"15m">>]}
MCEnvFeeds == {<<"x", "15">>}
MCFilters == {1..3, 2..3}
MCRanges == {<<2, 6>>, <<6, 2>>}
MCBatches == [k \in MCKeys |-> IF k = TvKey THEN {{2}, {2, 4}, {6}} ELSE {{4}}]
MCLegacy == {{}, {3}}
=============================================================================
