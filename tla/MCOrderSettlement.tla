------------------------- MODULE MCOrderSettlement -------------------------
(***************************************************************************)
(* Instances of OrderSettlement for TLC: a buy order of two shares and a   *)
(* sell order of one share of the same ticker, over an opening position of *)
(* one share; or buy orders only.                                          *)
(***************************************************************************)
EXTENDS OrderSettlement

Buy2Sell1Orders == {"buy", "sell"}
OneTicker == {"t1"}
Buy2Sell1TickerOf == [o \in Buy2Sell1Orders |-> "t1"]
Buy2Sell1SideOf == [o \in Buy2Sell1Orders |-> IF o = "buy" THEN "BUY" ELSE "SELL"]
Buy2Sell1Qty == [o \in Buy2Sell1Orders |-> IF o = "buy" THEN 2 ELSE 1]
OneShare == [t \in OneTicker |-> 1]
NoShare == [t \in OneTicker |-> 0]

\* One buy order of two shares.
OneBuyOrders == {"buy"}
OneBuyTickerOf == [o \in OneBuyOrders |-> "t1"]
OneBuySideOf == [o \in OneBuyOrders |-> "BUY"]
OneBuyQty == [o \in OneBuyOrders |-> 2]

NoSession == {}
=============================================================================
