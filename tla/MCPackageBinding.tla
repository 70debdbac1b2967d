-------------------------- MODULE MCPackageBinding --------------------------
(* TLC instances of PackageBinding.  Packages, and requests of one kind,   *)
(* are interchangeable.                                                    *)
EXTENDS PackageBinding, TLC

Symmetric ==
  Permutations(Packages) \cup Permutations(Approvers) \cup Permutations(Executors)
=============================================================================
