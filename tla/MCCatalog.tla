------------------------------ MODULE MCCatalog ------------------------------
EXTENDS Catalog

\* FEEDS holds one of the feeds; two requests share a symbol, two want the
\* same feeds in opposite orders, one asks for a timeframe nobody knows.
Btc == "BTC/USDT:USDT"
MCEnvFeeds == {<<Btc, "1h">>}
MCYamls == {[s \in {} |-> Btc], [s \in {"perp"} |-> Btc]}
MCRequests == {
    [symbol |-> "spot", storage |-> Btc, timeframes |-> <<"1h", "4h">>],
    [symbol |-> "perp", storage |-> Btc, timeframes |-> <<"4h", "1h">>]}
OddRequests == MCRequests \cup {
    [symbol |-> "perp", storage |-> Btc, timeframes |-> <<"8h">>]}
=============================================================================
