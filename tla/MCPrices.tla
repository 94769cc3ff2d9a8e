------------------------------- MODULE MCPrices -------------------------------
(* Constants of Prices for TLC. *)
EXTENDS Prices, TLC

\* Kraken lists ether twice, and the name of the other base contains "ETH".
MCSymbolOf   == "XETH" :> "ETH" @@ "ETH2" :> "ETH" @@ "ETHW" :> "ETHW"
MCFallback   == "ETH" :> "XETH" @@ "ETHW" :> NoKey
MCSpelled    == "ETH" :> "XETH" @@ "ETHW" :> "ETHW"
MCAliases    == "ETH" :> {"XETH"} @@ "ETHW" :> {"ETHW"}
MCContaining == "ETH" :> {"XETH", "ETH2", "ETHW"} @@ "ETHW" :> {"ETHW"}
MCMoves      == [s \in Symbol |-> IF s = "ETH" THEN << [percent |-> 10, points |-> 25] >> ELSE << >>]

\* The feed and its history; the directory and what is watched.
MCMixes == { {"move", "partial", "fail", "prune"}, {"list", "watch"}, {"list", "admin"} }
=============================================================================
