----------------------------- MODULE MCAuthority -----------------------------
(* Small instances of Authority: a write gene, a read gene that plans two     *)
(* requests and a read gene for a hook to veto; policies of                   *)
(* PolicyContext::for_mode in two versions.                                   *)
EXTENDS Authority, TLC

MCCapabilities == {"FilesystemRead", "FilesystemWrite"}
MCOperations == {"Read", "Write"}

Patch == [capability |-> "FilesystemWrite", operation |-> "Write", targets |-> 1]
Compare == [capability |-> "FilesystemRead", operation |-> "Read", targets |-> 2]
MCPatchOnly == "patch" :> Patch
MCThreeGenes ==
    "patch" :> Patch @@ "compare" :> Compare @@ "vetoed" :> [Compare EXCEPT !.targets = 1]

Supervised(v) ==
    [version |-> v, allowed |-> MCCapabilities, approval |-> {"Write"}]
Guarded == [version |-> 2, allowed |-> MCCapabilities, approval |-> {"Read", "Write"}]
ReadOnly ==
    [version |-> 1, allowed |-> {"FilesystemRead"}, approval |-> {"Write"}]

MCSupervised == {Supervised(1)}
MCMixed == {Supervised(1), Guarded, ReadOnly}

Symmetry == Permutations(Runs) \cup Permutations(Controllers)
==============================================================================
