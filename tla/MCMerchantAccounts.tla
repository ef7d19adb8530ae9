-------------------------- MODULE MCMerchantAccounts --------------------------
(* Small instances of MerchantAccounts.                                        *)
EXTENDS MerchantAccountsProps, TLC

MCSymmetry == Permutations(Requests) \cup Permutations(Accounts)
                \cup Permutations(Sessions) \cup Permutations(Emails)
===============================================================================
