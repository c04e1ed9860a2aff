--------------------------- MODULE MCCalendarStore ---------------------------
(* Finite instances of CalendarStore.                                      *)
EXTENDS CalendarStore, TLC

(* ServerIDs are interchangeable.                                          *)
StoreSymmetry == Permutations(IDs)
=============================================================================
