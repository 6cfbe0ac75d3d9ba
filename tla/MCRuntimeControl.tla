-------------------------- MODULE MCRuntimeControl --------------------------
(* Small instances of the runtime controls.                                *)
EXTENDS RuntimeControl, TLC

CONSTANTS o1, o2, k1, k2, h1, h2

MCSymmetry ==
  Permutations({k1, k2}) \cup Permutations({h1, h2})

=============================================================================
