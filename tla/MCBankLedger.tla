---------------------------- MODULE MCBankLedger -----------------------------
(* The ledger with a few accounts.  They are interchangeable, but every    *)
(* run asks something temporal of it, so none of them uses symmetry.       *)
EXTENDS BankLedger
=============================================================================
