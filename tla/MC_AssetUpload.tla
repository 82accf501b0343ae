------------------------- MODULE MC_AssetUpload -------------------------
(* Small instances of AssetUpload for TLC. *)
EXTENDS AssetUpload, TLC

CONSTANTS s1, s2, c1, c2, r1, r2, v1, v2, a1, a2

\* Processes of one role are interchangeable: no definition compares them but
\* for equality, and no property of these runs is a liveness property.
SameRole ==
    Permutations({c1, c2}) \cup Permutations({r1, r2})
=========================================================================
