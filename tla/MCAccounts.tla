----------------------------- MODULE MCAccounts -----------------------------
EXTENDS Accounts, TLC

CONSTANTS r1, r2, r3, ana, luis, long, other, short, p1, p2

MCKeyPartition ==
    ("account_created" :> p1) @@ ("login_success" :> p2) @@ ("login_failed" :> p1)

Symmetric == Permutations(Request) \cup Permutations(User) \cup Permutations({long, other})
=============================================================================
