---------------------------- MODULE MCRenameCommand ----------------------------
(* Two commands over four names.  Files f and g are duplicates (one         *)
(* canonical name c), the canonical name of h is a, which may hold another  *)
(* file first, and x has an extension of its own, which a rename keeps.     *)
EXTENDS RenameCommand, TLC

CONSTANTS a, b, c, x, f, g, h

MCCanonical ==
  [k \in Names \X Files |-> CASE k[1] = x -> x
                              [] k[2] = h -> a
                              [] OTHER -> c]

MCVerdict == [k \in Files |-> "safe"]
MCMixedVerdict == [k \in Files |-> CASE k = f -> "safe" [] k = g -> "unsafe"
                                     [] OTHER -> "conflict"]
Symmetry == Permutations(Instances)
================================================================================
