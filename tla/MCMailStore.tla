----------------------------- MODULE MCMailStore -----------------------------
(* Finite instances of MailStore.                                          *)
EXTENDS MailStore, TLC

(* The messages are interchangeable.  Used by the safety runs only.        *)
MsgSymmetry == Permutations(Msgs)
=============================================================================
