-------------------------- MODULE MCCalendarAliases --------------------------
(* Finite instances of CalendarAliases.                                    *)
EXTENDS CalendarAliases, TLC

(* Bodies and UIDs are only compared for equality; ServerIDs are ordered.  *)
AliasSymmetry == Permutations(UIDs) \cup Permutations(Bodies)

(* Once a batch is lost nothing is claimed of the files any more: all such *)
(* states count as one.                                                    *)
AliasView == IF ahead THEN <<ahead>> ELSE vars
=============================================================================
