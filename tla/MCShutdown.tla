----------------------------- MODULE MCShutdown -----------------------------
(* A small instance of Shutdown for TLC: the subscribers of config.yaml.    *)
EXTENDS Shutdown, TLC

KindOfAll == "svi1" :> "svi" @@ "vrf1" :> "vrf" @@ "lb1" :> "lb"
UsesOfAll == "svi1" :> {"vrf1", "lb1"} @@ "vrf1" :> {} @@ "lb1" :> {}
InOrder   == <<"bp", "svi", "vrf", "lb">>
Config    == "bp" :> <<"lci">> @@ "svi" :> <<"lgm", "frr">> @@ "vrf" :> <<"lgm", "frr">> @@ "lb" :> <<"lgm">>
StopOrder == <<"lgm", "lci", "frr">>
=============================================================================
