------------------------------- MODULE MCFleet -------------------------------
(* Small instances of Fleet.  Lease ids, fence keys, owners, operation ids    *)
(* and processes are interchangeable: each set may be permuted on its own.    *)
EXTENDS Fleet, TLC

Symmetry ==
    UNION {Permutations(S) : S \in {Nodes, Leases, Processes, Owners, Keys,
                                    FenceOwners, Operations} \ {{}}}
==============================================================================
