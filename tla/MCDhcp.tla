------------------------------- MODULE MCDhcp -------------------------------
(***************************************************************************)
(* Leases for checking Dhcp with TLC, in scaled down seconds.              *)
(***************************************************************************)
EXTENDS Dhcp

Lease(l, t1, t2) == [lease |-> l, t1 |-> t1, t2 |-> t2]

(* With realistic T1 and T2, with a T2 too close to the end and no T1, with *)
(* a T2 from which MARGIN cannot be taken, and without time for anything.  *)
SomeLeases == {Lease(24, 6, 14), Lease(16, 0, 15), Lease(16, 14, 2), Lease(3, 0, 0)}
=============================================================================
