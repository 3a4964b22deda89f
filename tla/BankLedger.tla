----------------------------- MODULE BankLedger -----------------------------
(***************************************************************************)
(* The ledger program generated COBOL calls, runtime/BANKLEDG.cbl.         *)
(*                                                                         *)
(* A call names an operation (DEBIT, CREDIT, ROLLBK), an account and an    *)
(* amount.  WORKING-STORAGE persists between calls, so its tables are the  *)
(* state:                                                                  *)
(*                                                                         *)
(*   accounts   WS-ACCOUNT-ID in slot order; WS-ACCOUNT-COUNT is its Len   *)
(*   balance    WS-ACCOUNT-BAL by account                                  *)
(*   posting    WS-POSTING, all its entries, those past the count included *)
(*   count      WS-POSTING-COUNT                                           *)
(*   index      WS-INDEX, which APPLY-ROLLBACK and FIND-ACCOUNT share      *)
(*   doing      "idle" between calls, "reversing" inside APPLY-ROLLBACK    *)
(*   file       what WRITE-BALANCES last wrote                             *)
(*                                                                         *)
(* A posting is one step; a rollback is one step per turn of its loop,     *)
(* since whether that loop ends is one of the questions.                   *)
(*                                                                         *)
(* Observers, not in the code: opened is the balances when the unit of     *)
(* work began, work what was posted to each account since, calls how many  *)
(* postings were made, and disciplined that every one of them so far kept  *)
(* the transfer discipline below.                                          *)
(***************************************************************************)
EXTENDS Integers, Sequences, FiniteSets

CONSTANTS
    Accounts,       \* the account identifiers callers use
    Amounts,        \* the amounts they post
    Blank,          \* spaces: the identifier of an entry never written
    MaxPostings,    \* WS-POSTING OCCURS 500
    Modulus,        \* 10^16 currency units: what PIC S9(16)V99 holds is below it
    MaxCalls        \* bound on the postings of a behaviour

ASSUME LedgerAssumption ==
    /\ Blank \notin Accounts
    /\ IsFiniteSet(Accounts)
    /\ MaxPostings \in Nat
    /\ Cardinality(Accounts) < MaxPostings  \* OCCURS 200 accounts, OCCURS 500 postings
    /\ Modulus \in Nat \ {0}
    /\ Amounts \subseteq 0..Modulus - 1    \* BANK-LEDGER-AMOUNT has the same PICTURE
    /\ MaxCalls \in Nat

VARIABLES accounts, balance, posting, count, index, doing, file, opened, work, calls, disciplined

ledgerVars == <<accounts, balance, posting, count, index, doing, file, opened, work, calls, disciplined>>

Ids   == Accounts \union {Blank}
Money == (1 - Modulus)..(Modulus - 1)
Entry == [id : Ids, amount : Money]
Zero  == [a \in Ids |-> 0]

(* COMPUTE without ON SIZE ERROR drops the high-order digits. *)
Saturated(x) == IF x \in Money THEN x ELSE IF x > 0 THEN Modulus - 1 ELSE 1 - Modulus  \* a mutant
Stored(x) == IF x \in Money THEN x
             ELSE IF x > 0   THEN x % Modulus
                             ELSE 0 - ((0 - x) % Modulus)

LedgerTypes ==
    /\ accounts \in Seq(Ids)
    /\ balance \in [Ids -> Money]
    /\ posting \in [1..MaxPostings -> Entry]
    /\ count \in 0..MaxPostings
    /\ index \in Nat
    /\ doing \in {"idle", "reversing"}
    /\ file \in [Ids -> Money]
    /\ opened \in [Ids -> Money]
    /\ work \in [Ids -> Int]
    /\ calls \in Nat
    /\ disciplined \in BOOLEAN

-----------------------------------------------------------------------------
(* FIND-ACCOUNT: the slot holding the identifier, or a new last slot.  Its *)
(* loop leaves WS-INDEX equal to that slot either way, on EXIT PERFORM and *)
(* when the search has run one past the last account.                      *)

Known(id) == \E i \in DOMAIN accounts : accounts[i] = id

Slot(id) == IF Known(id) THEN CHOOSE i \in DOMAIN accounts : accounts[i] = id
                         ELSE Len(accounts) + 1

FindAccount(id) ==
    accounts' = IF Known(id) THEN accounts ELSE Append(accounts, id)

LedgerInit ==
    /\ accounts = <<>>
    /\ balance = Zero
    /\ posting = [i \in 1..MaxPostings |-> [id |-> Blank, amount |-> 0]]
    /\ count = 0
    /\ index = 0
    /\ doing = "idle"
    /\ file = Zero
    /\ opened = Zero
    /\ work = Zero
    /\ calls = 0
    /\ disciplined = TRUE

RoomToRemember == count < MaxPostings

(* WRITE-BALANCES; its loop leaves WS-INDEX one past the last account. *)
WriteBalances == file' = balance' /\ index' = Len(accounts') + 1

(* The discipline under which the shared index does no harm: one unit of   *)
(* work in the run, and each account posted to once, so that posting i and *)
(* slot i are always the same account.  A transfer, a debit of one account *)
(* and a credit of another, keeps it.                                      *)
FreshPosting(id) ==
    /\ Len(accounts) = count
    /\ RoomToRemember
    /\ ~ Known(id)

(* APPLY-POSTING, then WRITE-BALANCES.  A posting beyond the table is      *)
(* applied to the balance and not remembered.                              *)
ApplyPosting(id, signed) ==
    /\ doing = "idle"
    /\ calls < MaxCalls
    /\ FindAccount(id)
    /\ balance' = [balance EXCEPT ![id] = Stored(@ + signed)]
    /\ \/ /\ RoomToRemember
          /\ count' = count + 1
          /\ posting' = [posting EXCEPT ![count'] = [id |-> id, amount |-> signed]]
       \/ /\ ~ RoomToRemember
          /\ UNCHANGED <<count, posting>>
    /\ WriteBalances
    /\ work' = [work EXCEPT ![id] = @ + signed]
    /\ calls' = calls + 1
    /\ disciplined' = (disciplined /\ FreshPosting(id))
    /\ UNCHANGED <<doing, opened>>

Debit(id, amount)  == ApplyPosting(id, 0 - amount)
Credit(id, amount) == ApplyPosting(id, amount)

(* ROLLBK: APPLY-ROLLBACK starts at the last remembered posting. *)
LastButOne == IF count > 0 THEN count - 1 ELSE 0                \* a mutant
LastPosting == count

BeginRollback ==
    /\ doing = "idle"
    /\ doing' = "reversing"
    /\ index' = LastPosting
    /\ UNCHANGED <<accounts, balance, posting, count, file, opened, work, calls, disciplined>>

ForgetStep(slot) == slot                                         \* a mutant
NextIndex(slot) == slot - 1

(* One turn of PERFORM VARYING WS-INDEX ... BY -1.  The identifier is read *)
(* through WS-INDEX before FIND-ACCOUNT, the amount through it after.      *)
ReverseOne ==
    LET id   == posting[index].id
        slot == Slot(id)
    IN  /\ doing = "reversing"
        /\ index >= 1
        /\ FindAccount(id)
        /\ balance' = [balance EXCEPT ![id] = Stored(@ - posting[slot].amount)]
        /\ index' = NextIndex(slot)
        /\ UNCHANGED <<posting, count, doing, file, opened, work, calls, disciplined>>

KeepPostings == UNCHANGED count                                 \* a mutant
ClearPostings == count' = 0

(* The loop has run down to zero: the count is cleared and the balances    *)
(* are written, which opens the next unit of work.                         *)
EndRollback ==
    /\ doing = "reversing"
    /\ index < 1
    /\ doing' = "idle"
    /\ ClearPostings
    /\ opened' = balance
    /\ work' = Zero
    /\ UNCHANGED <<accounts, balance, posting, calls, disciplined>>
    /\ WriteBalances

Rollback == BeginRollback \/ ReverseOne \/ EndRollback

LedgerNext ==
    \/ \E id \in Accounts, amount \in Amounts : Debit(id, amount) \/ Credit(id, amount)
    \/ Rollback

LedgerSpec == LedgerInit /\ [][LedgerNext]_ledgerVars

(* A ROLLBK that was called runs: COBOL does not stop in a loop. *)
FairLedgerSpec == LedgerSpec /\ WF_ledgerVars(Rollback)

-----------------------------------------------------------------------------
(* What ROLLBK promises (BANKLEDG.cbl, header): when it returns, every     *)
(* balance is what it was when the unit of work began.                     *)
RollbackRestores ==
    [][(doing = "reversing" /\ doing' = "idle") => balance = opened]_ledgerVars

(* It does when every posting so far was a fresh one (APPLY-ROLLBACK,      *)
(* FIND-ACCOUNT): repeated accounts are what breaks it.                    *)
TransferRestores ==
    [][(disciplined /\ doing = "reversing" /\ doing' = "idle") => balance = opened]_ledgerVars

(* A ROLLBK of fresh postings ends: its loop counts WS-INDEX down, and     *)
(* FIND-ACCOUNT moves it up again only for a repeated account.             *)
RollbackEnds == (disciplined /\ doing = "reversing") ~> doing = "idle"

(* However many postings overflow the balance's picture, what is lost is a *)
(* multiple of its capacity: the digits that are kept are the true ones    *)
(* (APPLY-POSTING's COMPUTE).                                              *)
KeptDigitsTrue ==
    doing = "idle" => \A id \in Ids : (balance[id] - opened[id] - work[id]) % Modulus = 0

(* The sum of the remembered postings of an account. *)
Remembered(id) ==
    LET sum[i \in 0..MaxPostings] ==
          IF i = 0 THEN 0
          ELSE sum[i - 1] + (IF posting[i].id = id THEN posting[i].amount ELSE 0)
    IN  sum[count]

(* Until the table is full it holds exactly what was applied since the     *)
(* last ROLLBK, "so a later ROLLBK can reverse exactly what was applied"   *)
(* (the comment in APPLY-POSTING).  A full table forgets.                  *)
TableRemembersUntilFull ==
    (doing = "idle" /\ count < MaxPostings) => \A id \in Ids : Remembered(id) = work[id]
=============================================================================
