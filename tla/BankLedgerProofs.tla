-------------------------- MODULE BankLedgerProofs --------------------------
(***************************************************************************)
(* For any accounts, amounts, table size and width of a balance:           *)
(*                                                                         *)
(*   - the tables stay typed, the file is current after every call, and    *)
(*     what an overflow costs is a multiple of the picture's capacity;     *)
(*   - until it is full the table of postings sums to the work done since  *)
(*     the last ROLLBK;                                                    *)
(*   - under the transfer discipline ROLLBK restores the opening balances. *)
(*                                                                         *)
(* The first three facts need only that no account has two slots, so that there  *)
(* are at most as many slots as postings.  The table's sum is a recursive  *)
(* function; one more posting adds its amount to it (OneMoreRemembered),   *)
(* by induction on the slots before it.  The invariant behind the last:    *)
(* while the discipline is kept no rollback has moved an account, so       *)
(* posting i is the only posting of the account in slot i (Aligned), and   *)
(* the balances differ from the opening ones by exactly the postings still *)
(* to be reversed (Owed): those up to the count between calls, those up to *)
(* WS-INDEX inside the reversal.                                           *)
(***************************************************************************)
EXTENDS BankLedger, FiniteSetTheorems, NaturalSets, TLAPS

NoRepeats(s) == \A i, j \in 1..Len(s) : s[i] = s[j] => i = j

Indexed ==
    /\ NoRepeats(accounts)
    /\ doing = "reversing" => index \in 0..MaxPostings

TableInv == LedgerTypes /\ Indexed

(* A table without repetition is no longer than the table of postings. *)
LEMMA TableFits ==
    ASSUME NEW s \in Seq(Ids), NoRepeats(s)
    PROVE  Len(s) <= MaxPostings
<1>1. IsFiniteSet(Ids) /\ Cardinality(Ids) <= MaxPostings
  <2>1. IsFiniteSet(Accounts) /\ Cardinality(Accounts) \in Nat
    BY FS_CardinalityType, LedgerAssumption
  <2>2. IsFiniteSet(Ids) /\ Cardinality(Ids) = Cardinality(Accounts) + 1
    BY <2>1, FS_AddElement, LedgerAssumption DEF Ids
  <2>3. QED
    BY <2>1, <2>2, LedgerAssumption
<1>2. s \in Injection(1..Len(s), Ids)
  BY DEF NoRepeats, Injection, IsInjective
<1>3. Cardinality(1..Len(s)) <= Cardinality(Ids)
  BY <1>1, <1>2, FS_Injection
<1>4. Cardinality(1..Len(s)) = Len(s)
  <2>1. Len(s) \in Nat
    OBVIOUS
  <2>2. Cardinality(1..Len(s)) = IF 1 > Len(s) THEN 0 ELSE Len(s) - 1 + 1
    BY <2>1, FS_Interval
  <2>3. QED
    BY <2>1, <2>2
<1>5. QED
  BY <1>1, <1>3, <1>4, FS_CardinalityType, LedgerAssumption

(* FIND-ACCOUNT answers a slot the posting table has, and adds an account  *)
(* only once.                                                              *)
LEMMA FoundSlot ==
    ASSUME TableInv, NEW id \in Ids, FindAccount(id)
    PROVE  /\ Slot(id) \in 1..MaxPostings
           /\ accounts' \in Seq(Ids)
           /\ NoRepeats(accounts')
<1>1. CASE Known(id)
  <2>1. accounts' = accounts /\ Len(accounts) <= MaxPostings
    BY <1>1, TableFits DEF FindAccount, TableInv, LedgerTypes, Indexed
  <2>2. Slot(id) \in DOMAIN accounts
    BY <1>1 DEF Slot, Known
  <2>3. QED
    BY <2>1, <2>2, LedgerAssumption DEF TableInv, LedgerTypes, Indexed
<1>2. CASE ~ Known(id)
  <2>1. accounts' = Append(accounts, id) /\ Slot(id) = Len(accounts) + 1
    BY <1>2 DEF FindAccount, Slot
  <2>2. \A i \in 1..Len(accounts) : accounts[i] # id
    BY <1>2 DEF Known, TableInv, LedgerTypes
  <2>3. accounts' \in Seq(Ids) /\ Len(accounts') = Len(accounts) + 1
    BY <2>1 DEF TableInv, LedgerTypes
  <2>4. NoRepeats(accounts')
    BY <2>1, <2>2, <2>3 DEF NoRepeats, TableInv, LedgerTypes, Indexed
  <2>5. Len(accounts') <= MaxPostings
    BY <2>3, <2>4, TableFits
  <2>6. QED
    BY <2>1, <2>3, <2>4, <2>5, LedgerAssumption DEF TableInv, LedgerTypes
<1>3. QED
  BY <1>1, <1>2

LEMMA ZeroIsMoney == 0 \in Money /\ Zero \in [Ids -> Money]
  BY LedgerAssumption DEF Money, Zero

(* Arithmetic modulo the capacity of a balance. *)
LEMMA Division ==
    ASSUME NEW x \in Int
    PROVE  /\ x % Modulus \in 0..(Modulus - 1)
           /\ x \div Modulus \in Int
           /\ x = Modulus * (x \div Modulus) + (x % Modulus)
  BY LedgerAssumption, SMT

LEMMA Multiple ==
    ASSUME NEW x \in Int, NEW k \in Int, x = Modulus * k
    PROVE  x % Modulus = 0
  BY LedgerAssumption, SMT

LEMMA SumOfMultiples ==
    ASSUME NEW x \in Int, NEW y \in Int, x % Modulus = 0, y % Modulus = 0
    PROVE  (x + y) % Modulus = 0
<1>1. /\ x = Modulus * (x \div Modulus)
      /\ y = Modulus * (y \div Modulus)
      /\ x \div Modulus \in Int
      /\ y \div Modulus \in Int
  BY Division, LedgerAssumption
<1>2. x + y = Modulus * ((x \div Modulus) + (y \div Modulus))
  BY <1>1, LedgerAssumption, SMT
<1>3. QED
  BY <1>1, <1>2, Multiple

(* The two ways a remainder stands to its dividend. *)
LEMMA Remainders ==
    ASSUME NEW x \in Int, NEW k \in Int, NEW r \in Int, x = Modulus * k + r
    PROVE  r - x = Modulus * (0 - k) /\ (0 - r) - (0 - x) = Modulus * k
<1>1. Modulus * k \in Int /\ Modulus * (0 - k) = 0 - Modulus * k
  BY LedgerAssumption, SMT
<1> DEFINE p == Modulus * k
<1>2. x = p + r /\ p \in Int
  BY <1>1
<1>3. r - x = 0 - p /\ (0 - r) - (0 - x) = p
  <2> HIDE DEF p
  <2> QED BY <1>2, SMT
<1>4. QED
  BY <1>1, <1>3

(* What a COMPUTE stores fits, and differs by a multiple of the capacity. *)
LEMMA StoredKeepsDigits ==
    ASSUME NEW x \in Int
    PROVE  Stored(x) \in Money /\ (Stored(x) - x) % Modulus = 0
<1> DEFINE y == 0 - x
<1>1. CASE x \in Money
  <2>1. Stored(x) - x = Modulus * 0
    BY <1>1, LedgerAssumption DEF Stored
  <2>2. QED
    BY <1>1, <2>1, Multiple DEF Stored
<1>2. CASE x \notin Money /\ x > 0
  <2>1. Stored(x) = x % Modulus /\ Stored(x) \in Money
    BY <1>2, Division, LedgerAssumption DEF Stored, Money
  <2>2. Stored(x) - x = Modulus * (0 - (x \div Modulus)) /\ 0 - (x \div Modulus) \in Int
    <3>1. /\ x \div Modulus \in Int /\ x % Modulus \in Int
          /\ x = Modulus * (x \div Modulus) + (x % Modulus)
      BY Division
    <3>2. (x % Modulus) - x = Modulus * (0 - (x \div Modulus))
      BY <3>1, Remainders
    <3>3. QED
      BY <2>1, <3>1, <3>2
  <2>3. QED
    BY <2>1, <2>2, Multiple DEF Money
<1>3. CASE x \notin Money /\ ~ x > 0
  <2>1. Stored(x) = 0 - (y % Modulus) /\ Stored(x) \in Money /\ y \in Int
    BY <1>3, Division, LedgerAssumption DEF Stored, Money
  <2>2. Stored(x) - x = Modulus * (y \div Modulus) /\ y \div Modulus \in Int
    <3>1. /\ y \div Modulus \in Int /\ y % Modulus \in Int
          /\ y = Modulus * (y \div Modulus) + (y % Modulus)
      BY <2>1, Division
    <3>2. (0 - (y % Modulus)) - (0 - y) = Modulus * (y \div Modulus)
      BY <2>1, <3>1, Remainders
    <3>3. 0 - y = x
      OBVIOUS
    <3>4. QED
      BY <2>1, <3>1, <3>2, <3>3
  <2>3. QED
    BY <2>1, <2>2, Multiple DEF Money
<1>4. QED
  BY <1>1, <1>2, <1>3

-----------------------------------------------------------------------------
(* The general ledger. *)

LEMMA InitTableInv == LedgerInit => TableInv
<1> SUFFICES ASSUME LedgerInit PROVE TableInv
  OBVIOUS
<1>1. posting \in [1..MaxPostings -> Entry]
  BY ZeroIsMoney DEF LedgerInit, Entry, Ids
<1>2. accounts \in Seq(Ids) /\ count \in 0..MaxPostings
  BY LedgerAssumption DEF LedgerInit
<1>3. work \in [Ids -> Int]
  BY DEF LedgerInit, Zero
<1>4. QED
  BY <1>1, <1>2, <1>3, ZeroIsMoney DEF LedgerInit, TableInv, LedgerTypes, Indexed, NoRepeats

LEMMA PostTable ==
    ASSUME TableInv, NEW id \in Accounts, NEW signed \in Money, ApplyPosting(id, signed)
    PROVE  TableInv'
<1>1. id \in Ids /\ signed \in Int
  BY LedgerAssumption DEF Ids, Money
<1>2. accounts' \in Seq(Ids) /\ NoRepeats(accounts')
  BY <1>1, FoundSlot DEF ApplyPosting
<1>3. balance' \in [Ids -> Money]
  <2>0. balance[id] + signed \in Int
    BY <1>1, LedgerAssumption DEF TableInv, LedgerTypes, Money
  <2>1. Stored(balance[id] + signed) \in Money
    BY <2>0, StoredKeepsDigits
  <2>2. QED
    BY <2>1 DEF ApplyPosting, TableInv, LedgerTypes
<1>4. count' \in 0..MaxPostings /\ posting' \in [1..MaxPostings -> Entry]
  <2>1. CASE RoomToRemember
    <3>1. /\ count' = count + 1
          /\ posting' = [posting EXCEPT ![count'] = [id |-> id, amount |-> signed]]
          /\ count' \in 1..MaxPostings
      BY <2>1, LedgerAssumption DEF ApplyPosting, RoomToRemember, TableInv, LedgerTypes
    <3>2. [id |-> id, amount |-> signed] \in Entry
      BY <1>1 DEF Entry
    <3>3. QED
      BY <3>1, <3>2 DEF TableInv, LedgerTypes
  <2>2. CASE ~ RoomToRemember
    BY <2>2 DEF ApplyPosting, TableInv, LedgerTypes
  <2>3. QED
    BY <2>1, <2>2
<1>5. work' \in [Ids -> Int] /\ calls' \in Nat /\ disciplined' \in BOOLEAN
  <2>1. work[id] + signed \in Int
    BY <1>1 DEF TableInv, LedgerTypes
  <2>2. work' = [work EXCEPT ![id] = @ + signed] /\ calls' = calls + 1
    BY DEF ApplyPosting
  <2>3. disciplined' \in BOOLEAN
    BY DEF ApplyPosting, TableInv, LedgerTypes
  <2>4. work' \in [Ids -> Int] /\ calls' \in Nat
    <3>1. work \in [Ids -> Int] /\ calls \in Nat
      BY DEF TableInv, LedgerTypes
    <3>2. calls' \in Nat
      BY <2>2, <3>1
    <3>3. work' \in [Ids -> Int]
      BY <1>1, <2>1, <2>2, <3>1
    <3>4. QED
      BY <3>2, <3>3
  <2>5. QED
    BY <2>3, <2>4
<1>6. index' \in Nat /\ file' \in [Ids -> Money] /\ doing' = "idle" /\ opened' \in [Ids -> Money]
  BY <1>2, <1>3 DEF ApplyPosting, WriteBalances, TableInv, LedgerTypes
<1>7. QED
  BY <1>2, <1>3, <1>4, <1>5, <1>6 DEF TableInv, LedgerTypes, Indexed

LEMMA ReverseTable == ASSUME TableInv, ReverseOne PROVE TableInv'
<1> DEFINE id   == posting[index].id
           slot == Slot(id)
<1>1. index \in 1..MaxPostings /\ id \in Ids
  BY LedgerAssumption DEF TableInv, LedgerTypes, Indexed, ReverseOne, Entry
<1>2. /\ slot \in 1..MaxPostings
      /\ accounts' \in Seq(Ids)
      /\ NoRepeats(accounts')
  BY <1>1, FoundSlot DEF ReverseOne
<1>3. balance' \in [Ids -> Money]
  <2>1. balance[id] - posting[slot].amount \in Int
    BY <1>1, <1>2, LedgerAssumption DEF TableInv, LedgerTypes, Entry, Money
  <2>2. Stored(balance[id] - posting[slot].amount) \in Money
    BY <2>1, StoredKeepsDigits
  <2>3. QED
    BY <2>2 DEF ReverseOne, TableInv, LedgerTypes
<1>4. index' \in 0..MaxPostings /\ index' \in Nat
  BY <1>2, LedgerAssumption DEF ReverseOne, NextIndex
<1>5. QED
  BY <1>2, <1>3, <1>4 DEF ReverseOne, TableInv, LedgerTypes, Indexed

LEMMA TableStep == TableInv /\ [LedgerNext]_ledgerVars => TableInv'
<1> SUFFICES ASSUME TableInv, [LedgerNext]_ledgerVars PROVE TableInv'
  OBVIOUS
<1>1. ASSUME NEW id \in Accounts, NEW amount \in Amounts, Debit(id, amount) \/ Credit(id, amount)
      PROVE  TableInv'
  <2>1. amount \in Money /\ 0 - amount \in Money
    BY LedgerAssumption DEF Money
  <2>2. QED
    BY <1>1, <2>1, PostTable DEF Debit, Credit
<1>2. CASE BeginRollback
  BY <1>2, LedgerAssumption DEF TableInv, LedgerTypes, Indexed, NoRepeats, BeginRollback, LastPosting
<1>3. CASE ReverseOne
  BY <1>3, ReverseTable
<1>4. CASE EndRollback
  BY <1>4, ZeroIsMoney, LedgerAssumption
     DEF TableInv, LedgerTypes, Indexed, NoRepeats, EndRollback, ClearPostings, WriteBalances, Zero
<1>5. CASE UNCHANGED ledgerVars
  BY <1>5 DEF ledgerVars, TableInv, LedgerTypes, Indexed, NoRepeats
<1>6. QED
  BY <1>1, <1>2, <1>3, <1>4, <1>5 DEF LedgerNext, Rollback

(* The tables stay typed and no access leaves them, for any sequence of    *)
(* debits, credits and rollbacks (BANKLEDG.cbl).                           *)
THEOREM LedgerTypeOK == LedgerSpec => []LedgerTypes
<1>1. TableInv => LedgerTypes
  BY DEF TableInv
<1>2. QED
  BY InitTableInv, TableStep, <1>1, PTL DEF LedgerSpec

LEMMA PostKeepsDigits ==
    ASSUME TableInv, KeptDigitsTrue, NEW id \in Accounts, NEW signed \in Money, ApplyPosting(id, signed)
    PROVE  KeptDigitsTrue'
<1> SUFFICES ASSUME NEW a \in Ids
             PROVE  (balance'[a] - opened'[a] - work'[a]) % Modulus = 0
  BY DEF KeptDigitsTrue
<1>1. /\ balance[a] \in Int /\ opened[a] \in Int /\ work[a] \in Int
      /\ signed \in Int /\ opened' = opened
      /\ (balance[a] - opened[a] - work[a]) % Modulus = 0
  BY LedgerAssumption DEF TableInv, LedgerTypes, Money, KeptDigitsTrue, ApplyPosting
<1>2. CASE a # id
  BY <1>1, <1>2 DEF ApplyPosting, TableInv, LedgerTypes
<1>3. CASE a = id
  <2> DEFINE x == balance[a] + signed
             old == balance[a] - opened[a] - work[a]
             lost == Stored(x) - x
  <2>1. balance'[a] = Stored(x) /\ work'[a] = work[a] + signed
    BY <1>3 DEF ApplyPosting, TableInv, LedgerTypes
  <2>2. x \in Int /\ Stored(x) \in Int /\ lost % Modulus = 0
    <3>1. x \in Int
      BY <1>1
    <3>2. Stored(x) \in Money /\ lost % Modulus = 0
      BY <3>1, StoredKeepsDigits
    <3>3. QED
      BY <3>1, <3>2, LedgerAssumption DEF Money
  <2>3. balance'[a] - opened'[a] - work'[a] = old + lost
    BY <1>1, <2>1, <2>2
  <2>4. QED
    <3>1. old \in Int /\ lost \in Int /\ old % Modulus = 0
      BY <1>1, <2>2
    <3>2. QED
      BY <2>2, <2>3, <3>1, SumOfMultiples
<1>4. QED
  BY <1>2, <1>3

(* Whatever overflows, only whole multiples of the capacity are lost. *)
THEOREM LedgerKeptDigitsTrue == LedgerSpec => []KeptDigitsTrue
<1>1. LedgerInit => KeptDigitsTrue
  <2>1. (0 - 0 - 0) % Modulus = 0
    <3>1. 0 - 0 - 0 = Modulus * 0
      BY LedgerAssumption
    <3>2. QED
      BY <3>1, Multiple
  <2>2. QED
    BY <2>1 DEF LedgerInit, KeptDigitsTrue, Zero
<1>2. TableInv /\ KeptDigitsTrue /\ [LedgerNext]_ledgerVars => KeptDigitsTrue'
  <2> SUFFICES ASSUME TableInv, KeptDigitsTrue, [LedgerNext]_ledgerVars PROVE KeptDigitsTrue'
    OBVIOUS
  <2>1. ASSUME NEW id \in Accounts, NEW amount \in Amounts,
               Debit(id, amount) \/ Credit(id, amount)
        PROVE  KeptDigitsTrue'
    <3>1. amount \in Money /\ 0 - amount \in Money
      BY LedgerAssumption DEF Money
    <3>2. QED
      BY <2>1, <3>1, PostKeepsDigits DEF Debit, Credit
  <2>2. CASE EndRollback
    <3>1. ASSUME NEW a \in Ids PROVE (balance'[a] - opened'[a] - work'[a]) % Modulus = 0
      <4>1. balance'[a] = opened'[a] /\ opened'[a] \in Int /\ work'[a] = 0
        BY <2>2, LedgerAssumption DEF EndRollback, TableInv, LedgerTypes, Money, Zero
      <4>2. balance'[a] - opened'[a] - work'[a] = Modulus * 0
        BY <4>1, LedgerAssumption
      <4>3. QED
        BY <4>1, <4>2, Multiple
    <3>2. QED
      BY <3>1 DEF KeptDigitsTrue
  <2>3. CASE BeginRollback \/ ReverseOne
    BY <2>3 DEF BeginRollback, ReverseOne, KeptDigitsTrue
  <2>4. CASE UNCHANGED ledgerVars
    BY <2>4 DEF ledgerVars, KeptDigitsTrue
  <2>5. QED
    BY <2>1, <2>2, <2>3, <2>4 DEF LedgerNext, Rollback
<1>3. QED
  BY InitTableInv, TableStep, <1>1, <1>2, PTL DEF LedgerSpec

-----------------------------------------------------------------------------
(* The transfer discipline. *)

Pending == IF doing = "idle" THEN count ELSE index

Aligned ==
    /\ Len(accounts) >= count
    /\ \A i \in 1..count : posting[i].id = accounts[i]
    /\ \A i, j \in 1..Len(accounts) : accounts[i] = accounts[j] => i = j

Owed ==
    /\ Pending \in 0..count
    /\ \A i \in 1..Pending : balance[accounts[i]] = posting[i].amount
    /\ \A a \in Ids : (\A i \in 1..Pending : accounts[i] # a) => balance[a] = 0
    /\ opened = Zero

TransferInv == LedgerTypes /\ Aligned /\ Owed

DisciplineKept == disciplined => TransferInv

(* The slot FIND-ACCOUNT returns for an account of the table is its own. *)
LEMMA SlotOfKnown ==
    ASSUME LedgerTypes, Aligned, NEW i \in 1..Len(accounts)
    PROVE  Known(accounts[i]) /\ Slot(accounts[i]) = i
<1>1. DOMAIN accounts = 1..Len(accounts)
  BY DEF LedgerTypes
<1>2. Known(accounts[i])
  BY <1>1 DEF Known
<1>3. \A j \in 1..Len(accounts) : accounts[j] = accounts[i] => j = i
  BY DEF Aligned
<1>4. QED
  BY <1>1, <1>2, <1>3 DEF Slot

LEMMA InitTransferInv == LedgerInit => TransferInv
<1> SUFFICES ASSUME LedgerInit PROVE TransferInv
  OBVIOUS
<1>1. LedgerTypes
  <2>1. posting \in [1..MaxPostings -> Entry]
    BY ZeroIsMoney DEF LedgerInit, Entry, Ids
  <2>2. accounts \in Seq(Ids) /\ count \in 0..MaxPostings
    BY LedgerAssumption DEF LedgerInit
  <2>3. work \in [Ids -> Int]
    BY DEF LedgerInit, Zero
  <2>4. QED
    BY <2>1, <2>2, <2>3, ZeroIsMoney DEF LedgerInit, LedgerTypes
<1>2. Aligned
  BY DEF LedgerInit, Aligned
<1>3. Owed
  BY DEF LedgerInit, Owed, Pending, Zero
<1>4. QED
  BY <1>1, <1>2, <1>3 DEF TransferInv

(* A posting to an account not yet in the table: slot and posting number   *)
(* stay equal, and the new account owes exactly this posting.              *)
LEMMA PostPreserves ==
    ASSUME TransferInv, NEW id \in Accounts, NEW signed \in Money,
           FreshPosting(id), ApplyPosting(id, signed)
    PROVE  TransferInv'
<1> DEFINE n == count + 1
<1>1. /\ accounts' = Append(accounts, id)
      /\ count' = n
      /\ Len(accounts) = count
      /\ posting' = [posting EXCEPT ![n] = [id |-> id, amount |-> signed]]
      /\ balance' = [balance EXCEPT ![id] = Stored(@ + signed)]
      /\ doing = "idle" /\ doing' = "idle" /\ opened' = opened
      /\ count \in Nat /\ n \in 1..MaxPostings
  BY LedgerAssumption DEF ApplyPosting, RoomToRemember, FreshPosting, FindAccount, TransferInv, LedgerTypes
<1>2. id \in Ids /\ \A i \in 1..count : accounts[i] # id
  <2>1. DOMAIN accounts = 1..count
    BY <1>1 DEF TransferInv, LedgerTypes
  <2>2. QED
    BY <2>1 DEF FreshPosting, Known, Ids
<1>3. balance[id] = 0 /\ balance'[id] = signed
  BY <1>1, <1>2 DEF TransferInv, LedgerTypes, Owed, Pending, Stored, Money
<1>4. /\ Len(accounts') = n
      /\ \A i \in 1..count : accounts'[i] = accounts[i]
      /\ accounts'[n] = id
  BY <1>1, <1>2 DEF TransferInv, LedgerTypes
<1>5. LedgerTypes'
  <2>1. accounts' \in Seq(Ids)
    BY <1>1, <1>2 DEF TransferInv, LedgerTypes
  <2>2. balance' \in [Ids -> Money]
    BY <1>1, <1>2, <1>3 DEF TransferInv, LedgerTypes
  <2>3. posting' \in [1..MaxPostings -> Entry]
    BY <1>1, <1>2 DEF TransferInv, LedgerTypes, Entry
  <2>4. work' \in [Ids -> Int] /\ calls' \in Nat /\ file' \in [Ids -> Money]
    BY <1>2, <2>2 DEF TransferInv, LedgerTypes, ApplyPosting, WriteBalances, Money
  <2>5. index' \in Nat
    BY <2>1, <1>4, <1>1 DEF ApplyPosting, WriteBalances
  <2>6. disciplined' \in BOOLEAN
    BY DEF ApplyPosting
  <2>7. QED
    BY <1>1, <2>1, <2>2, <2>3, <2>4, <2>5, <2>6 DEF TransferInv, LedgerTypes
<1>6. Aligned'
  BY <1>1, <1>2, <1>4 DEF TransferInv, LedgerTypes, Aligned
<1>7. Owed'
  <2>1. Pending' = n
    BY <1>1 DEF Pending
  <2>2. \A i \in 1..n : balance'[accounts'[i]] = posting'[i].amount
    <3>1. ASSUME NEW i \in 1..count
          PROVE  balance'[accounts'[i]] = posting'[i].amount
      BY <1>1, <1>2, <1>4 DEF TransferInv, LedgerTypes, Owed, Pending
    <3>2. balance'[accounts'[n]] = posting'[n].amount
      BY <1>1, <1>3, <1>4 DEF TransferInv, LedgerTypes
    <3>3. QED
      BY <3>1, <3>2, <1>1
  <2>3. ASSUME NEW a \in Ids, \A i \in 1..n : accounts'[i] # a
        PROVE  balance'[a] = 0
    <3>1. a # id
      BY <2>3, <1>1, <1>4
    <3>2. \A i \in 1..count : accounts[i] # a
      BY <2>3, <1>1, <1>4
    <3>3. QED
      BY <1>1, <3>1, <3>2 DEF TransferInv, LedgerTypes, Owed, Pending
  <2>4. QED
    BY <1>1, <2>1, <2>2, <2>3 DEF TransferInv, Owed
<1>8. QED
  BY <1>5, <1>6, <1>7 DEF TransferInv

LEMMA BeginPreserves == ASSUME TransferInv, BeginRollback PROVE TransferInv'
<1>1. LedgerTypes'
  BY DEF TransferInv, LedgerTypes, BeginRollback, LastPosting
<1>2. Aligned'
  BY DEF TransferInv, Aligned, BeginRollback
<1>3. Owed'
  BY DEF TransferInv, LedgerTypes, Owed, Pending, BeginRollback, LastPosting
<1>4. QED
  BY <1>1, <1>2, <1>3 DEF TransferInv

(* One turn: FIND-ACCOUNT leaves WS-INDEX where it was, so the amount read *)
(* is the amount of the posting whose account was read.                    *)
LEMMA ReversePreserves == ASSUME TransferInv, ReverseOne PROVE TransferInv'
<1> DEFINE id == accounts[index]
<1>1. index \in 1..count /\ count \in 0..MaxPostings /\ count <= Len(accounts)
  BY DEF TransferInv, LedgerTypes, Owed, Pending, Aligned, ReverseOne
<1>2. posting[index].id = id /\ id \in Ids
  BY <1>1 DEF TransferInv, LedgerTypes, Aligned
<1>3. Known(id) /\ Slot(id) = index
  BY <1>1, SlotOfKnown DEF TransferInv, LedgerTypes
<1>4. posting[index].amount \in Money /\ balance[id] = posting[index].amount
  BY <1>1 DEF TransferInv, LedgerTypes, Owed, Pending, Entry, ReverseOne
<1>5. /\ balance' = [balance EXCEPT ![id] = 0]
      /\ index' = index - 1
      /\ accounts' = accounts
      /\ UNCHANGED <<posting, count, doing, file, opened, work, calls>>
      /\ doing = "reversing"
  <2>1. Stored(balance[id] - posting[index].amount) = 0
    BY <1>4, ZeroIsMoney DEF Stored, Money
  <2>2. QED
    BY <1>2, <1>3, <2>1 DEF ReverseOne, FindAccount, NextIndex
<1>6. LedgerTypes'
  <2>1. disciplined' = disciplined
    BY DEF ReverseOne
  <2>2. QED
    BY <1>1, <1>2, <1>5, <2>1, ZeroIsMoney DEF TransferInv, LedgerTypes
<1>7. Aligned'
  BY <1>5 DEF TransferInv, Aligned
<1>8. Owed'
  <2>1. Pending = index /\ Pending' = index - 1
    BY <1>5 DEF Pending
  <2>2. ASSUME NEW i \in 1..(index - 1)
        PROVE  balance'[accounts'[i]] = posting'[i].amount
    <3>1. accounts[i] # id /\ accounts[i] \in Ids
      BY <1>1 DEF TransferInv, LedgerTypes, Aligned
    <3>2. QED
      BY <1>1, <1>5, <2>1, <3>1 DEF TransferInv, LedgerTypes, Owed
  <2>3. ASSUME NEW a \in Ids, \A i \in 1..(index - 1) : accounts'[i] # a
        PROVE  balance'[a] = 0
    <3>1. CASE a = id
      BY <3>1, <1>5 DEF TransferInv, LedgerTypes
    <3>2. CASE a # id
      BY <3>2, <1>1, <1>5, <2>1, <2>3 DEF TransferInv, LedgerTypes, Owed
    <3>3. QED
      BY <3>1, <3>2
  <2>4. QED
    BY <1>1, <1>5, <2>1, <2>2, <2>3 DEF TransferInv, Owed
<1>9. QED
  BY <1>6, <1>7, <1>8 DEF TransferInv

(* When the loop has run down, nothing is owed any more. *)
LEMMA NothingOwed ==
    ASSUME TransferInv, doing = "reversing", index < 1
    PROVE  balance = opened
<1>1. Pending = 0
  BY DEF TransferInv, LedgerTypes, Pending
<1>2. \A a \in Ids : balance[a] = 0
  BY <1>1 DEF TransferInv, Owed
<1>3. QED
  BY <1>2 DEF TransferInv, LedgerTypes, Owed, Zero

LEMMA EndPreserves == ASSUME TransferInv, EndRollback PROVE TransferInv'
<1>1. balance = opened /\ opened = Zero
  BY NothingOwed DEF EndRollback, TransferInv, Owed
<1>2. LedgerTypes'
  BY ZeroIsMoney, LedgerAssumption
     DEF TransferInv, LedgerTypes, EndRollback, WriteBalances, ClearPostings, Zero
<1>3. Aligned'
  BY DEF TransferInv, LedgerTypes, Aligned, EndRollback, ClearPostings
<1>4. Owed'
  BY <1>1 DEF Owed, Pending, EndRollback, ClearPostings, Zero
<1>5. QED
  BY <1>2, <1>3, <1>4 DEF TransferInv

LEMMA DisciplineStep == DisciplineKept /\ [LedgerNext]_ledgerVars => DisciplineKept'
<1> SUFFICES ASSUME DisciplineKept, [LedgerNext]_ledgerVars, disciplined' PROVE TransferInv'
  BY DEF DisciplineKept
<1>1. ASSUME NEW id \in Accounts, NEW amount \in Amounts,
             Debit(id, amount) \/ Credit(id, amount)
      PROVE  TransferInv'
  <2>1. amount \in Money /\ 0 - amount \in Money
    BY LedgerAssumption DEF Money
  <2>2. disciplined /\ FreshPosting(id)
    BY <1>1 DEF Debit, Credit, ApplyPosting
  <2>3. QED
    BY <1>1, <2>1, <2>2, PostPreserves DEF Debit, Credit, DisciplineKept
<1>2. CASE BeginRollback
  BY <1>2, BeginPreserves DEF BeginRollback, DisciplineKept
<1>3. CASE ReverseOne
  BY <1>3, ReversePreserves DEF ReverseOne, DisciplineKept
<1>4. CASE EndRollback
  BY <1>4, EndPreserves DEF EndRollback, DisciplineKept
<1>5. CASE UNCHANGED ledgerVars
  BY <1>5 DEF ledgerVars, DisciplineKept, TransferInv, LedgerTypes, Aligned, Owed, Pending
<1>6. QED
  BY <1>1, <1>2, <1>3, <1>4, <1>5 DEF LedgerNext, Rollback

(* A caller that has kept the transfer discipline never sees the shared    *)
(* WS-INDEX: ROLLBK restores every balance (APPLY-ROLLBACK).               *)
THEOREM LedgerTransferRestores == LedgerSpec => TransferRestores
<1>1. LedgerInit => DisciplineKept
  BY InitTransferInv DEF DisciplineKept
<1>2. DisciplineKept /\ [LedgerNext]_ledgerVars
         => [(disciplined /\ doing = "reversing" /\ doing' = "idle") => balance = opened]_ledgerVars
  <2> SUFFICES ASSUME TransferInv, LedgerNext, doing = "reversing", doing' = "idle"
               PROVE  balance = opened
    BY DEF ledgerVars, DisciplineKept
  <2>1. EndRollback
    BY DEF LedgerNext, Rollback, BeginRollback, ReverseOne, Debit, Credit, ApplyPosting
  <2>2. QED
    BY <2>1, NothingOwed DEF EndRollback
<1>3. QED
  BY <1>1, DisciplineStep, <1>2, PTL DEF LedgerSpec, TransferRestores

-----------------------------------------------------------------------------
(* What the table of postings adds up to. *)

Terms(table, id) == [i \in 1..MaxPostings |-> IF table[i].id = id THEN table[i].amount ELSE 0]
IsSum(f, table, id) == f = [i \in 0..MaxPostings |->
    IF i = 0 THEN 0 ELSE f[i - 1] + (IF table[i].id = id THEN table[i].amount ELSE 0)]
SumOf(table, id) == CHOOSE f : IsSum(f, table, id)

LEMMA SumIsThere ==
    ASSUME NEW table \in [1..MaxPostings -> Entry], NEW id
    PROVE  /\ MaxPostings \in Nat /\ Terms(table, id) \in [1..MaxPostings -> Int]
           /\ SumsUp(SumOf(table, id), Terms(table, id), MaxPostings)
<1>1. MaxPostings \in Nat
    BY LedgerAssumption
<1>2. Terms(table, id) \in [1..MaxPostings -> Int]
  <2>1. \A e \in Entry : e.amount \in Int
      BY LedgerAssumption DEF Entry, Money
  <2> QED
      BY <2>1 DEF Terms
<1>3. \A f : SumsUp(f, Terms(table, id), MaxPostings) <=> IsSum(f, table, id)
  <2>1. \A i \in 0..MaxPostings : i # 0 =>
           Terms(table, id)[i] = IF table[i].id = id THEN table[i].amount ELSE 0
      BY <1>1 DEF Terms
  <2> QED
      BY <2>1 DEF SumsUp, IsSum
<1>4. \E f : IsSum(f, table, id)
    BY <1>1, <1>2, <1>3, SumsExist
<1>5. IsSum(SumOf(table, id), table, id)
    BY Zenon, <1>4 DEF SumOf
<1> QED
    BY <1>1, <1>2, <1>3, <1>5

LEMMA RememberedIsSum ==
    ASSUME NEW id
    PROVE  /\ Remembered(id) = SumOf(posting, id)[count]
           /\ Remembered(id)' = SumOf(posting', id)[count']
BY Zenon DEF Remembered, SumOf, IsSum

(* As long as the table has room it has all the work, inside a reversal as *)
(* well as between calls.                                                  *)
TableHasAll == count < MaxPostings => \A id \in Ids : Remembered(id) = work[id]

LEMMA NoneRemembered ==
    ASSUME NEW table \in [1..MaxPostings -> Entry], NEW id
    PROVE  SumOf(table, id)[0] = 0
BY SumIsThere DEF SumsUp

LEMMA OneMoreRemembered ==
    ASSUME NEW table \in [1..MaxPostings -> Entry], NEW n \in 0..MaxPostings - 1,
           NEW e \in Entry, NEW id
    PROVE  LET after == [table EXCEPT ![n + 1] = e] IN
           SumOf(after, id)[n + 1] = SumOf(table, id)[n] + (IF e.id = id THEN e.amount ELSE 0)
<1> DEFINE after == [table EXCEPT ![n + 1] = e]
<1>1. n \in 0..MaxPostings /\ n + 1 \in 1..MaxPostings /\ n + 1 \in 0..MaxPostings /\ n + 1 # 0
    BY LedgerAssumption
<1>2. after \in [1..MaxPostings -> Entry] /\ after[n + 1] = e
      /\ \A i \in 1..n : after[i] = table[i]
    BY <1>1
<1> HIDE DEF after
<1>3. /\ SumsUp(SumOf(after, id), Terms(after, id), MaxPostings)
      /\ SumsUp(SumOf(table, id), Terms(table, id), MaxPostings)
      /\ Terms(after, id) \in [1..MaxPostings -> Int]
      /\ Terms(table, id) \in [1..MaxPostings -> Int] /\ MaxPostings \in Nat
    BY <1>2, SumIsThere
<1>4. \A i \in 1..n : Terms(after, id)[i] = Terms(table, id)[i]
  <2> TAKE i \in 1..n
  <2>1. i \in 1..MaxPostings /\ after[i] = table[i]
      BY <1>1, <1>2, LedgerAssumption
  <2> QED
      BY <2>1 DEF Terms
<1>5. SumOf(after, id)[n] = SumOf(table, id)[n]
  <2> DEFINE A == Terms(after, id)
             B == Terms(table, id)
             f == SumOf(after, id)
             g == SumOf(table, id)
  <2>1. /\ SumsUp(f, A, MaxPostings) /\ SumsUp(g, B, MaxPostings)
        /\ MaxPostings \in Nat /\ n \in 0..MaxPostings
        /\ \A i \in 1..n : A[i] = B[i]
      BY <1>1, <1>3, <1>4
  <2> HIDE DEF A, B, f, g
  <2>2. f[n] = g[n]
      BY <2>1, SumsAgree
  <2> QED
      BY <2>2 DEF f, g
<1>6. SumOf(after, id)[n + 1] = SumOf(after, id)[n] + Terms(after, id)[n + 1]
  <2>1. (n + 1) - 1 = n
      BY <1>1
  <2> QED
      BY <1>1, <1>3, <2>1 DEF SumsUp
<1>7. Terms(after, id)[n + 1] = IF e.id = id THEN e.amount ELSE 0
    BY <1>1, <1>2 DEF Terms
<1>8. SumOf(after, id)[n + 1] = SumOf(table, id)[n] + (IF e.id = id THEN e.amount ELSE 0)
    BY <1>5, <1>6, <1>7
<1> QED
    BY <1>8 DEF after

LEMMA PostRemembers ==
    ASSUME LedgerTypes, TableHasAll, NEW id \in Accounts, NEW signed \in Money, ApplyPosting(id, signed)
    PROVE  TableHasAll'
<1> SUFFICES ASSUME count' < MaxPostings, NEW a \in Ids
             PROVE  Remembered(a)' = work'[a]
    BY DEF TableHasAll
<1> DEFINE e == [id |-> id, amount |-> signed]
<1>1. /\ count \in 0..MaxPostings - 1 /\ count' = count + 1
      /\ posting' = [posting EXCEPT ![count + 1] = e]
      /\ work' = [work EXCEPT ![id] = @ + signed]
    BY LedgerAssumption DEF ApplyPosting, RoomToRemember, LedgerTypes
<1>2. e \in Entry /\ id \in Ids /\ e.id = id /\ e.amount = signed
    BY DEF Entry, Ids
<1>3. posting \in [1..MaxPostings -> Entry] /\ work \in [Ids -> Int] /\ signed \in Int
    BY LedgerAssumption DEF LedgerTypes, Money
<1> HIDE DEF e
<1>4. SumOf(posting', a)[count'] = SumOf(posting, a)[count] + (IF id = a THEN signed ELSE 0)
  <2>1. \A t \in [1..MaxPostings -> Entry], n \in 0..MaxPostings - 1, x \in Entry : \A d :
           SumOf([t EXCEPT ![n + 1] = x], d)[n + 1] =
           SumOf(t, d)[n] + (IF x.id = d THEN x.amount ELSE 0)
      BY Zenon, OneMoreRemembered
  <2>2. \A d : SumOf([posting EXCEPT ![count + 1] = e], d)[count + 1] =
                 SumOf(posting, d)[count] + (IF e.id = d THEN e.amount ELSE 0)
      BY Zenon, <1>1, <1>2, <1>3, <2>1
  <2> QED
      BY <1>1, <1>2, <2>2
<1>5. SumOf(posting, a)[count] = work[a]
    BY <1>1, RememberedIsSum, LedgerAssumption DEF TableHasAll
<1>6. work'[a] = work[a] + (IF id = a THEN signed ELSE 0)
    BY <1>1, <1>2, <1>3
<1> QED
    BY <1>4, <1>5, <1>6, RememberedIsSum

LEMMA RememberStep == LedgerTypes /\ TableHasAll /\ [LedgerNext]_ledgerVars => TableHasAll'
<1> SUFFICES ASSUME LedgerTypes, TableHasAll, [LedgerNext]_ledgerVars PROVE TableHasAll'
    OBVIOUS
<1>1. ASSUME NEW id \in Accounts, NEW amount \in Amounts, Debit(id, amount) \/ Credit(id, amount)
      PROVE  TableHasAll'
  <2>1. amount \in Money /\ 0 - amount \in Money
      BY LedgerAssumption DEF Money
  <2> QED
      BY <1>1, <2>1, PostRemembers DEF Debit, Credit
<1>2. CASE BeginRollback \/ ReverseOne \/ UNCHANGED ledgerVars
  <2>1. UNCHANGED <<posting, count, work>>
      BY <1>2 DEF BeginRollback, ReverseOne, ledgerVars
  <2> QED
      BY <2>1, RememberedIsSum DEF TableHasAll
<1>3. CASE EndRollback
  <2>1. count' = 0 /\ posting' = posting /\ work' = Zero
      BY <1>3 DEF EndRollback, ClearPostings
  <2>2. \A id \in Ids : Remembered(id)' = 0 /\ work'[id] = 0
      BY <2>1, RememberedIsSum, NoneRemembered DEF LedgerTypes, Zero
  <2> QED
      BY <2>2 DEF TableHasAll
<1> QED
    BY <1>1, <1>2, <1>3 DEF LedgerNext, Rollback

(* Until the table of postings is full it has exactly what was applied     *)
(* since the last ROLLBK, for any accounts, amounts and size of the table. *)
THEOREM LedgerTableRemembers == LedgerSpec => []TableRemembersUntilFull
<1>1. LedgerInit => TableHasAll
  <2> SUFFICES ASSUME LedgerInit, NEW id \in Ids PROVE Remembered(id) = work[id]
      BY DEF TableHasAll
  <2>1. count = 0 /\ posting \in [1..MaxPostings -> Entry] /\ work[id] = 0
    <3>1. LedgerTypes
        BY InitTableInv DEF TableInv
    <3> QED
        BY <3>1 DEF LedgerTypes, LedgerInit, Zero
  <2> QED
      BY <2>1, RememberedIsSum, NoneRemembered
<1>2. TableHasAll => TableRemembersUntilFull
    BY DEF TableHasAll, TableRemembersUntilFull
<1> QED
    BY <1>1, <1>2, LedgerTypeOK, RememberStep, PTL DEF LedgerSpec
=============================================================================
