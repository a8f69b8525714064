-------------------------- MODULE MCAccountRecovery --------------------------
(* Small instances of AccountRecovery.                                      *)
EXTENDS AccountRecovery, TLC

Symmetric == Permutations(Limited) \cup Permutations(Sessions \ Limited) \cup Permutations(Accounts)
===============================================================================
