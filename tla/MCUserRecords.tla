---------------------------- MODULE MCUserRecords ----------------------------
(* Model-checking instance of UserRecords over Accounts: two keys race for  *)
(* one address, two passwords, two requests at a time, and days on which a  *)
(* row is of the retention period, at its edge and past it.                 *)
EXTENDS UserRecords, TLC

CONSTANTS u1, u2, h1, h2, p1, p2

MCUsers == {u1, u2}
MCHandlers == {h1, h2}
MCPasswords == {p1, p2}

AccountSymmetry == Permutations(MCUsers) \cup Permutations(MCHandlers) \cup Permutations(MCPasswords)

=============================================================================
