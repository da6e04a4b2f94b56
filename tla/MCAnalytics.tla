---------------------------- MODULE MCAnalytics ----------------------------
(***************************************************************************)
(* A domestic and an overseas ticker, two portfolios and three days in     *)
(* two months, for TLC.                                                    *)
(***************************************************************************)
EXTENDS Analytics

MCTickers == {"kr", "us"}
MCDomestic == {"kr"}
MCPortfolios == {"p1", "p2"}
MCAvgs == {[t \in MCTickers |-> IF t = "kr" THEN n ELSE 2] : n \in {0, 1}}
MCPrices == {1, 3}
MCSectorOf == [t \in MCTickers |-> t]
MCRateOf == [d \in 1..LastDay |-> d + 1]
MCMonthOf == [d \in 1..LastDay |-> IF d = 1 THEN 1 ELSE 2]
=============================================================================
