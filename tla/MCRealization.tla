---------------------------- MODULE MCRealization ----------------------------
(* Small instances of Realization for TLC.                                  *)
EXTENDS Realization

\* One VRF, realised by LGM and then by FRR.
OneVrf_TypeOf == [o \in Obj |-> "vrf"]
Vrf_SubsOf    == [ty \in Types |-> <<"lgm", "frr">>]
=============================================================================
