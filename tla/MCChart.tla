------------------------------- MODULE MCChart -------------------------------
\* Three feeds on one chart: two timeframes of btc, and eth.  A band keeps
\* the two prices apart for the btc feeds; the eth feed has none and relies
\* on the drift guard.
EXTENDS Chart

MCPolled == <<"btc1", "btc2", "eth1">>
MCSym == [btc1 |-> "BTC", btc2 |-> "BTC", eth1 |-> "ETH"]
MCSecs == [btc1 |-> 1, btc2 |-> 2, eth1 |-> 1]
MCPrice == [BTC |-> 100, ETH |-> 30]
MCBand == [btc1 |-> [lo |-> 50, hi |-> 200], btc2 |-> [lo |-> 50, hi |-> 200],
           eth1 |-> [lo |-> 0, hi |-> 1000]]
=============================================================================
