---------------------------- MODULE MCVmRegistry ----------------------------
(* Requests for the runs of VmRegistry. *)
EXTENDS VmRegistry

CONSTANTS i1, i2, p1, p2, c1, c2

Req(n, i, p) == [name |-> n, image |-> i, port |-> p]

\* Default names and a port of its own for each image.
OneToOne == {Req(1, i1, p1), Req(2, i2, p2)}
OneImage == {Req(1, i1, p1)}
\* Two images called disk.qcow2, or --name given twice.
SameName == {Req(1, i1, p1), Req(1, i2, p2)}
=============================================================================
