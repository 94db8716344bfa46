----------------------------- MODULE MCAccounts -----------------------------
EXTENDS Accounts, TLC

\* Every set is treated alike, and only safety is checked.
Symmetry ==
    Permutations(Workers) \cup Permutations(Ids) \cup Permutations(Tokens)
        \cup Permutations(Codes) \cup Permutations(Passwords)

=============================================================================
