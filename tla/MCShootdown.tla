---------------------------- MODULE MCShootdown ----------------------------
(***************************************************************************)
(* Instances of Shootdown for TLC.                                         *)
(***************************************************************************)
EXTENDS Shootdown, TLC

CONSTANT page

\* A request that covers the page, and one for another range.
Ranges == {{page}, {}}
Covering == {{page}}

CpuSymmetry == Permutations(Cpus)
=============================================================================
