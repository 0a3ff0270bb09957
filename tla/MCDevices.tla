----------------------------- MODULE MCDevices -----------------------------
(* Small instances of Devices for TLC. *)
EXTENDS Devices

CONSTANTS v1, v2, l1, l2, s1, b1, grd

OneVlanEach  == [l \in Lb |-> IF l = l1 THEN 10 ELSE 20]
SviOnV1      == [s \in Svi |-> v1]
SviOnL1      == [s \in Svi |-> l1]
PortOnAll    == [b \in Bp |-> Lb]
=============================================================================
