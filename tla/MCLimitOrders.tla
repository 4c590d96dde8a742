----------------------------- MODULE MCLimitOrders -----------------------------
EXTENDS LimitOrders

\* A sell in dollars at 2 and a buy in the other asset at 1.
MCType == 0 :> "sell" @@ 1 :> "buy"
MCUnit == 0 :> "usd" @@ 1 :> "pair"
MCLimit == 0 :> 2 @@ 1 :> 1
=============================================================================
