--------------------------- MODULE MCLinkDeltaScan ---------------------------
(***************************************************************************)
(* Every pair of loop-free routes over four switching nodes.               *)
(***************************************************************************)
EXTENDS LinkDeltaScan

MCNodes == 1..4

Injective(f) == \A k, l \in DOMAIN f : f[k] = f[l] => k = l
MCNewPaths == UNION {{f \in [1..n -> MCNodes] : Injective(f)} : n \in 1..4}
MCOldPaths == MCNewPaths \cup {<< >>}
==============================================================================
