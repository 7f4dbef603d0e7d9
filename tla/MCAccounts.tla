---------------------------- MODULE MCAccounts ----------------------------
(* Two HTTP threads, two names, three accounts ever, two logins. *)
EXTENDS Accounts, TLC
Symmetric == Permutations(Threads) \cup Permutations(Tokens)
===========================================================================
