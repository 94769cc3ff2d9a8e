---------------------------- MODULE MCHousekeeping ----------------------------
(* Constants of Housekeeping for TLC. *)
EXTENDS Housekeeping

MCPairOf == [r \in Rule |-> IF r = "btc" THEN "BTC/USD" ELSE "SOL/USD"]
=============================================================================
