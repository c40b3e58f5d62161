------------------------------ MODULE MCAccounts ------------------------------
(* Small instances of Accounts for TLC.                                    *)
EXTENDS Accounts, TLC

SlotSymmetry == Permutations(Slots)
=============================================================================
