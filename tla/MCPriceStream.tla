---------------------------- MODULE MCPriceStream ----------------------------
(***************************************************************************)
(* Two streams at a time, for TLC.                                         *)
(***************************************************************************)
EXTENDS PriceStream

MCConns == {"c1", "c2"}
MCFollowed == {"c1"}
=============================================================================
