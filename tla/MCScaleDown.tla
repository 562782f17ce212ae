---------------------------- MODULE MCScaleDown ----------------------------
(***************************************************************************)
(* An instance of ScaleDown for TLC: four names, two of them the same,    *)
(* and machines with a blob, an unnamed disk, and a managed disk.          *)
(***************************************************************************)
EXTENDS ScaleDown, TLC

CONSTANTS v1, v2, v3, r1, r2

MCVMs   == {v1, v2, v3}
MCRoles == {r1, r2}

VM(nic, disk, identity, roles) ==
  [nic |-> nic, disk |-> disk, identity |-> identity, roles |-> roles]

\* Two calls for one machine, and one for each of the others.
OneTwice == [c \in Calls |-> CASE c < 3 -> v1 [] c = 3 -> v2 [] c = 4 -> v3]

WithBlob ==
  v1 :> VM(TRUE, "vhd", TRUE, {r1, r2}) @@ v2 :> VM(FALSE, "unnamed", FALSE, {})
  @@ v3 :> VM(TRUE, "managed", FALSE, {})
=============================================================================
