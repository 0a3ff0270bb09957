----------------------------- MODULE MCNetlink -----------------------------
(* A small instance of Netlink for TLC. *)
EXTENDS Netlink

CONSTANTS grd, v1, h1, x1, x2, a1, d1, d2, nogw

\* Both VTEPs are reached through one gateway; a tenant's route may lead into a
\* tunnel, to a host or to a device.
Route(v, d, gw) == [vrf |-> v, dst |-> d, gws |-> <<gw>>]
Few == { Route(grd, x1, h1), Route(v1, d1, x1), Route(v1, d1, a1) }
Routes == { Route(grd, x1, h1), Route(grd, x2, h1), Route(v1, d1, x1), Route(v1, d2, x2),
            Route(v1, d1, a1), Route(v1, d2, nogw) }
=============================================================================
