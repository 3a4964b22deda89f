----------------------- MODULE GeneratedStatementsProofs -----------------------
(***************************************************************************)
(* The cursor loops, the rounded results and the calls in expressions that *)
(* cobol-backend expands into a sequence of their own.                     *)
(*                                                                         *)
(* First, that every cursor loop hands its body the rows it was asked for, *)
(* in order and within its bound, and that a sound one reads them all or   *)
(* fails, for every set of loops and every size of result set.  The        *)
(* inductive invariant has three parts.  Places says what the program      *)
(* variables are at each point of the loop; Delivered ties them to the     *)
(* rows the body has had; Complete says, of a sound loop, what SQLCODE     *)
(* still means by the time it is tested.                                   *)
(*                                                                         *)
(* Then the generated rounding, for every precision, scale and operand:    *)
(* the arithmetic of truncation and of a step, and the statement's own     *)
(* invariant.                                                              *)
(*                                                                         *)
(* Last, the calls of an expression, for every program of functions that   *)
(* do not call themselves, whatever they take, return and raise.  What a   *)
(* routine's remaining lines do to the fields is a path, a memory after    *)
(* each line.  A function whose body keeps its calls apart promises of the *)
(* fields at its end that its result is what its expression means, and     *)
(* that no other field is touched but those of what it runs; PromisesKept  *)
(* says that every routine entered keeps its promise on every path its     *)
(* remaining lines have, given that the ones it performs keep theirs.      *)
(***************************************************************************)
EXTENDS CursorLoop, RoundedResult, CallsInExpressions, SequenceTheorems, NaturalSets, TLAPS

Taken == Len(seen)
Reached(c) == IF loop.backward THEN loop.start - c ELSE loop.start + c
Multiple(x) == \E m \in 0..loop.limit : x = m * loop.rowset

Places ==
    /\ loop \in Loops
    /\ pc \in {"open", "fetch", "rowset", "body", "after", "close", "done", "failed", "left"}
    /\ size \in 0..MaxRows
    /\ cursor \in BOOLEAN
    /\ position \in Int
    /\ counter \in 0..loop.limit
    /\ rows \in 0..loop.rowset
    /\ index \in 0..loop.rowset + 1
    /\ sqlcode \in {Error, 0, Warning, End}
    /\ code \in {"none", "fetch", "limit", "raise"}

InRowset ==
    /\ position \in 1..size + 1
    /\ Taken <= position - 1
    /\ pc = "fetch" /\ counter < loop.limit => Taken = position - 1
    /\ pc \in {"rowset", "body"} =>
          /\ rows \in 1..position - 1
          /\ index \in 1..rows + 1
          /\ Taken = position - rows + index - 2
    /\ pc = "body" => index <= rows

Delivered ==
    /\ seen \in Seq(1..MaxRows)
    /\ \A i \in 1..Taken : seen[i] = Wanted(i)
    /\ Taken <= Asked
    /\ counter = IF pc \in {"body", "left"} THEN Taken + 1 ELSE Taken
    /\ pc = "open" => counter = 0
    /\ pc = "rowset" => loop.rowset > 0
    /\ pc # "open" /\ loop.rowset = 0 => position = Reached(counter) /\ counter <= Asked
    /\ pc # "open" /\ loop.rowset > 0 => InRowset

Complete ==
    /\ pc \in {"fetch", "body"} /\ loop.rowset = 0 /\ counter > 0 => sqlcode = 0
    /\ pc = "fetch" /\ loop.rowset > 0 =>
          IF counter < loop.limit THEN Multiple(Taken) \/ position = size + 1
                                  ELSE sqlcode = 0
    /\ pc \in {"rowset", "body"} /\ loop.rowset > 0 =>
          /\ Multiple(position - rows - 1)
          /\ position - rows - 1 < loop.limit
          /\ sqlcode \in {0, End}
          /\ sqlcode = End \/ rows < loop.rowset => position = size + 1
    /\ pc = "after" /\ code = "none" =>
          (sqlcode = End /\ Taken = Asked) \/ (sqlcode = 0 /\ counter >= loop.limit)
    /\ pc = "close" /\ code = "none" => Taken = Asked
    /\ pc = "done" => Taken = Asked

IInv == Places /\ Delivered /\ (Sound(loop) => Complete)

-----------------------------------------------------------------------------
USE DEF Error, Warning, End

(* What a loop's record holds. *)
LEMMA LoopShape ==
    ASSUME loop \in Loops
    PROVE  /\ loop.limit \in Nat /\ loop.limit > 0
           /\ loop.rowset \in Nat
           /\ loop.start \in Int
           /\ loop.backward \in BOOLEAN
           /\ loop.executes \in BOOLEAN
           /\ loop.warns \in BOOLEAN
           /\ loop.rowset > 0 => loop.start = 1 /\ ~ loop.backward
BY LoopAssumption DEF LoopAssumption, Loop

(* After c rows the next position holds row c + 1 of those asked for, or   *)
(* there is no such row and c was all of them: forwards, backwards and on  *)
(* either side of position zero.                                           *)
LEMMA Walk ==
    ASSUME loop \in Loops, size \in Nat, NEW c \in Nat, c <= Asked
    PROVE  /\ HasRow(Reached(c)) <=> c < Asked
           /\ c < Asked => RowAt(Reached(c)) = Wanted(c + 1)
           /\ c < Asked => Wanted(c + 1) \in 1..size
<1>1. loop.start \in Int /\ loop.backward \in BOOLEAN
    BY LoopShape
<1>2. CASE loop.backward /\ loop.start > 0
    BY <1>1, <1>2 DEF HasRow, RowAt, Reached, Asked, Wanted, First
<1>3. CASE loop.backward /\ ~ (loop.start > 0)
    BY <1>1, <1>3 DEF HasRow, RowAt, Reached, Asked, Wanted, First
<1>4. CASE ~ loop.backward /\ loop.start > 0
    BY <1>1, <1>4 DEF HasRow, RowAt, Reached, Asked, Wanted, First
<1>5. CASE ~ loop.backward /\ ~ (loop.start > 0)
    BY <1>1, <1>5 DEF HasRow, RowAt, Reached, Asked, Wanted, First
<1> QED
    BY <1>2, <1>3, <1>4, <1>5

(* A rowset loop asks for the whole result set, in its own order. *)
LEMMA WholeSet ==
    ASSUME loop \in Loops, size \in Nat, loop.rowset > 0
    PROVE  Asked = size /\ \A i \in Nat : Wanted(i) = i
BY LoopShape DEF Asked, Wanted, First, RowAt

LEMMA AskedInRange ==
    ASSUME loop \in Loops, size \in Nat
    PROVE  Asked \in 0..size
BY LoopShape DEF Asked, First, RowAt

LEMMA BoundInNat == MaxRows \in Nat
BY LoopAssumption DEF LoopAssumption

LEMMA InitInv == Init => IInv
<1> SUFFICES ASSUME Init PROVE IInv
    OBVIOUS
<1>1. loop \in Loops
    BY DEF Init
<1>2. Places
  <2>1. loop.limit \in Nat /\ loop.rowset \in Nat /\ 0 \in 0..MaxRows
      BY <1>1, LoopShape, BoundInNat
  <2>2. counter \in 0..loop.limit /\ rows \in 0..loop.rowset /\ index \in 0..loop.rowset + 1
      BY <2>1 DEF Init
  <2>3. sqlcode \in {Error, 0, Warning, End}
      BY DEF Init
  <2>4. cursor \in BOOLEAN
      BY DEF Init
  <2>5. position \in Int /\ size \in 0..MaxRows
      BY <2>1 DEF Init
  <2>6. pc \in {"open", "fetch", "rowset", "body", "after", "close", "done", "failed", "left"}
      BY DEF Init
  <2>7. code \in {"none", "fetch", "limit", "raise"}
      BY DEF Init
  <2> QED
      BY <1>1, <2>1, <2>2, <2>3, <2>4, <2>5, <2>6, <2>7 DEF Places
<1>3. size \in Nat
    BY <1>2, BoundInNat DEF Places
<1>4. Taken = 0 /\ seen \in Seq(1..MaxRows)
    BY DEF Init, Taken
<1>5. Delivered
    BY <1>1, <1>3, <1>4, AskedInRange DEF Init, Delivered
<1>6. Complete
    BY DEF Init, Complete
<1> QED
    BY <1>2, <1>5, <1>6 DEF IInv

LEMMA OpenInv == ASSUME IInv, Open PROVE IInv'
<1>1. Places'
    BY LoopShape DEF IInv, Places, Open
<1>2. loop' = loop /\ seen' = seen /\ Taken' = Taken /\ Taken = 0 /\ counter' = 0
    BY DEF IInv, Delivered, Places, Open, Taken
<1>3. size' \in Nat /\ size' \in 0..MaxRows
    BY <1>1, BoundInNat DEF Places
<1>4. loop \in Loops /\ pc' = "fetch" /\ position' = loop.start
    BY DEF IInv, Places, Open
<1>5. Asked' \in 0..size'
    BY <1>2, <1>3, <1>4, LoopShape DEF Asked, First, RowAt
<1>6. Reached(0)' = loop.start
    BY <1>2, <1>4, LoopShape DEF Reached
<1>7. Delivered'
  <2>1. seen' \in Seq(1..MaxRows)
      BY <1>2 DEF IInv, Delivered
  <2>2. InRowset' \/ loop.rowset = 0
      BY <1>2, <1>3, <1>4, LoopShape DEF InRowset
  <2> QED
      BY <2>1, <2>2, <1>2, <1>3, <1>4, <1>5, <1>6, LoopShape DEF Delivered, Reached
<1>8. Complete'
    BY <1>2, <1>4, LoopShape DEF Complete, Multiple
<1> QED
    BY <1>1, <1>7, <1>8 DEF IInv

(* A step that finishes no row leaves what was asked for and had as it is. *)
LEMMA SameRows ==
    ASSUME UNCHANGED <<loop, size, seen>>
    PROVE  /\ Taken' = Taken
           /\ Asked' = Asked
           /\ \A i \in 1..Taken : seen[i] = Wanted(i) => seen'[i] = Wanted(i)'
           /\ Sound(loop) <=> Sound(loop)'
BY DEF Taken, Asked, First, RowAt, Wanted

LEMMA TakenInNat == ASSUME Delivered PROVE Taken \in Nat
BY DEF Delivered, Taken

LEMMA FetchRowInv == ASSUME IInv, FetchRow PROVE IInv'
<1>0. loop \in Loops /\ size \in Nat /\ Taken \in Nat
    BY BoundInNat, TakenInNat DEF IInv, Places
<1>1. pc = "fetch" /\ loop.rowset = 0 /\ counter < loop.limit /\ counter = Taken
    BY DEF IInv, Delivered, FetchRow, Turn
<1>2. position = Reached(counter) /\ Taken <= Asked
    BY <1>1 DEF IInv, Delivered
<1>3. Taken < Asked
    BY <1>0, <1>1, <1>2, Walk DEF FetchRow
<1>4. Asked \in Nat
    BY <1>0, AskedInRange
<1>5. Places'
    BY <1>0, <1>1, LoopShape DEF IInv, Places, FetchRow, Stepped, Back
<1>6. UNCHANGED <<loop, size, seen>>
    BY DEF FetchRow
<1>7. counter' = Taken + 1 /\ position' = Reached(counter)' /\ pc' = "body" /\ sqlcode' = 0
    BY <1>0, <1>1, <1>2, <1>6, LoopShape DEF FetchRow, Stepped, Back, Reached
<1>8. Delivered'
    BY <1>0, <1>1, <1>3, <1>4, <1>6, <1>7, SameRows, LoopShape DEF IInv, Delivered
<1>9. Complete'
    BY <1>1, <1>6, <1>7 DEF Complete
<1> QED
    BY <1>5, <1>8, <1>9 DEF IInv

LEMMA FetchWarnedInv == ASSUME IInv, FetchWarned PROVE IInv'
<1>1. UNCHANGED <<loop, size, seen, counter, position>> /\ pc = "fetch" /\ pc' = "after" /\ loop.rowset = 0
    BY DEF FetchWarned, Turn
<1>2. Places'
    BY DEF IInv, Places, FetchWarned
<1>3. Delivered'
    BY <1>1, SameRows, Reached(counter)' = Reached(counter) DEF IInv, Delivered, Reached
<1>4. ~ Sound(loop)'
    BY <1>1 DEF FetchWarned, Sound
<1> QED
    BY <1>2, <1>3, <1>4 DEF IInv

LEMMA FetchEndsInv == ASSUME IInv, FetchEnds PROVE IInv'
<1>0. loop \in Loops /\ size \in Nat /\ Taken \in Nat
    BY BoundInNat, TakenInNat DEF IInv, Places
<1>1. UNCHANGED <<loop, size, seen, counter, position, code>> /\ pc = "fetch" /\ pc' = "after" /\ loop.rowset = 0
    BY DEF FetchEnds, Turn
<1>2. Places'
    BY DEF IInv, Places, FetchEnds
<1>3. Delivered'
    BY <1>1, SameRows, Reached(counter)' = Reached(counter) DEF IInv, Delivered, Reached
<1>4. position = Reached(Taken) /\ Taken <= Asked
    BY <1>1 DEF IInv, Delivered
<1>5. Taken = Asked
    BY <1>0, <1>4, Walk, AskedInRange DEF FetchEnds
<1>6. Complete'
    BY <1>1, <1>5, SameRows DEF Complete, FetchEnds
<1> QED
    BY <1>2, <1>3, <1>6 DEF IInv

LEMMA FetchFailsInv == ASSUME IInv, FetchFails PROVE IInv'
<1>1. /\ UNCHANGED <<loop, size, seen, counter, position, rows, index>>
      /\ pc = "fetch" /\ pc' = "after" /\ code' = "fetch"
    BY DEF FetchFails, Turn, AfterError
<1>2. Places'
    BY <1>1 DEF IInv, Places, FetchFails
<1>3. loop.rowset > 0 => (InRowset => InRowset')
    BY <1>1, SameRows DEF InRowset
<1>4. Delivered'
    BY <1>1, <1>3, SameRows, Reached(counter)' = Reached(counter) DEF IInv, Delivered, Reached
<1>5. Complete'
    BY <1>1 DEF Complete
<1> QED
    BY <1>2, <1>4, <1>5 DEF IInv

(* Multiples of the rowset size, as far as the bound. *)
LEMMA NextMultiple ==
    ASSUME loop \in Loops, loop.rowset > 0, FullRowsets(loop),
           NEW x \in Nat, Multiple(x), x < loop.limit
    PROVE  Multiple(x + loop.rowset) /\ x + loop.rowset <= loop.limit
<1>1. loop.limit \in Nat /\ loop.rowset \in Nat
    BY LoopShape
<1>2. PICK m \in 0..loop.limit : x = m * loop.rowset
    BY DEF Multiple
<1>3. PICK k \in 1..loop.limit : loop.limit = k * loop.rowset
    BY DEF FullRowsets
<1>4. m < k
  <2>1. SUFFICES ASSUME k <= m PROVE FALSE
      BY <1>1
  <2>2. k * loop.rowset <= m * loop.rowset
      BY <1>1, <2>1
  <2> QED
      BY <1>1, <1>2, <1>3, <2>2
<1>5. (m + 1) * loop.rowset = x + loop.rowset
  <2>1. \A a, b \in Int : (a + 1) * b = a * b + b
      OBVIOUS
  <2>2. m \in Int /\ loop.rowset \in Int
      BY <1>1
  <2>3. (m + 1) * loop.rowset = m * loop.rowset + loop.rowset
      BY <2>1, <2>2
  <2> QED
      BY <1>2, <2>3
<1>6. (m + 1) * loop.rowset <= k * loop.rowset
    BY <1>1, <1>4
<1>7. m + 1 \in 0..loop.limit
    BY <1>1, <1>4
<1> QED
    BY <1>1, <1>3, <1>5, <1>6, <1>7 DEF Multiple

(* Where a rowset of r rows leaves a position that was behind t rows. *)
LEMMA PastRowset ==
    ASSUME NEW p \in Int, NEW q \in Int, NEW r \in Nat, NEW t \in Nat, p = t + 1, q = p + r
    PROVE  /\ q - r - 1 = t
           /\ t = q - r + 1 - 2
           /\ t <= q - 1
           /\ r # 0 => r \in 1..q - 1 /\ 1 \in 1..r + 1 /\ 1 <= r
OBVIOUS

LEMMA FetchRowsetInv == ASSUME IInv, FetchRowset PROVE IInv'
<1>0. /\ loop \in Loops /\ size \in Nat /\ Taken \in Nat /\ MaxRows \in Nat
      /\ loop.limit \in Nat /\ loop.rowset \in Nat /\ counter \in Nat
    BY BoundInNat, TakenInNat, LoopShape DEF IInv, Places
<1>1. /\ UNCHANGED <<loop, size, cursor, counter, code, seen>>
      /\ pc = "fetch" /\ loop.rowset > 0 /\ counter < loop.limit /\ index' = 1
    BY DEF FetchRowset, Turn
<1>2. position = Taken + 1 /\ position \in 1..size + 1 /\ counter = Taken
    BY <1>0, <1>1 DEF IInv, Delivered, InRowset
<1>3. /\ rows' \in 0..loop.rowset
      /\ position' = position + rows' /\ position' \in 1..size + 1
      /\ rows' < loop.rowset => position' = size + 1
      /\ rows' = 0 => position = size + 1
    BY <1>0, <1>1, <1>2 DEF FetchRowset, Min2
<1>a. rows \in Int /\ rows' \in Nat /\ position \in Int /\ position' \in Int
    BY <1>0, <1>2, <1>3 DEF IInv, Places
<1>b. /\ position' - rows' - 1 = Taken
      /\ Taken = position' - rows' + 1 - 2
      /\ Taken <= position' - 1
      /\ rows' # 0 => rows' \in 1..position' - 1 /\ 1 \in 1..rows' + 1 /\ 1 <= rows'
  <2>1. PICK r \in Nat : rows' = r
      BY <1>a
  <2>2. PICK q \in Int : position' = q
      BY <1>a
  <2>3. PICK t \in Nat : Taken = t
      BY <1>0
  <2>4. PICK p \in Int : position = p
      BY <1>a
  <2>5. p = t + 1
      BY <1>2, <2>3, <2>4
  <2>6. q = p + r
      BY <1>3, <2>1, <2>2, <2>4
  <2>7. /\ q - r - 1 = t
        /\ t = q - r + 1 - 2
        /\ t <= q - 1
        /\ r # 0 => r \in 1..q - 1 /\ 1 \in 1..r + 1 /\ 1 <= r
      BY <2>5, <2>6, PastRowset
  <2> QED
      BY <2>1, <2>2, <2>3, <2>7, Zenon
<1>4. /\ sqlcode' \in {0, Warning, End}
      /\ rows' < loop.rowset => sqlcode' = End
      /\ sqlcode' = End => rows' < loop.rowset
      /\ ~ loop.warns => sqlcode' # Warning
    BY <1>0, <1>3 DEF FetchRowset
<1>5. pc' = IF rows' = 0 THEN "after" ELSE "rowset"
    BY DEF FetchRowset
<1>6. Places'
    BY <1>0, <1>1, <1>3, <1>4, <1>5 DEF IInv, Places
<1>7. InRowset'
    BY <1>1, <1>3, <1>5, <1>b, SameRows DEF InRowset
<1>8. Delivered'
    BY <1>0, <1>1, <1>5, <1>7, SameRows DEF IInv, Delivered
<1>9. ASSUME Sound(loop)' PROVE Complete'
  <2>1. Complete /\ ~ loop.warns
      BY <1>9, <1>1, SameRows DEF IInv, Sound
  <2>2. CASE rows' = 0
    <3>1. Asked = size
        BY <1>0, <1>1, WholeSet
    <3>2. Taken' = Asked' /\ sqlcode' = End
        BY <1>0, <1>1, <1>2, <1>3, <1>4, <2>2, <3>1, SameRows
    <3> QED
        BY <1>5, <2>2, <3>2 DEF Complete
  <2>3. CASE rows' # 0
    <3>1. Multiple(Taken)
      <4>1. Multiple(Taken) \/ position = size + 1
          BY <1>1, <2>1 DEF Complete
      <4>2. position # size + 1
          BY <1>0, <1>3, <2>3
      <4> QED
          BY <4>1, <4>2
    <3>3. Multiple(position - rows - 1)'
        BY <1>1, <1>b, <3>1 DEF Multiple
    <3>4. (position - rows - 1)' < loop.limit'
        BY <1>0, <1>1, <1>2, <1>b
    <3>5. pc' = "rowset"
        BY <1>5, <2>3
    <3>6. sqlcode' \in {0, End} /\ (sqlcode' = End \/ rows' < loop.rowset => position' = size' + 1)
        BY <1>1, <1>3, <1>4, <2>1
    <3> QED
        BY <1>1, <3>3, <3>4, <3>5, <3>6 DEF Complete
  <2> QED
      BY <2>2, <2>3
<1> QED
    BY <1>6, <1>8, <1>9 DEF IInv

LEMMA TakeFromRowsetInv == ASSUME IInv, TakeFromRowset PROVE IInv'
<1>0. /\ loop \in Loops /\ size \in Nat /\ Taken \in Nat
      /\ loop.limit \in Nat /\ loop.rowset \in Nat /\ counter \in Nat
    BY BoundInNat, TakenInNat, LoopShape DEF IInv, Places
<1>1. /\ UNCHANGED <<loop, size, cursor, position, rows, index, sqlcode, code, seen>>
      /\ pc = "rowset" /\ pc' = "body" /\ index <= rows /\ counter < loop.limit /\ counter' = counter + 1
    BY DEF TakeFromRowset, MoreInRowset
<1>2. loop.rowset > 0
    BY <1>1 DEF IInv, Delivered
<1>3. Places'
    BY <1>0, <1>1 DEF IInv, Places
<1>4. InRowset'
    BY <1>0, <1>1, <1>2, SameRows DEF IInv, Delivered, InRowset
<1>5. Delivered'
    BY <1>0, <1>1, <1>2, <1>4, SameRows DEF IInv, Delivered
<1>6. ASSUME Sound(loop)' PROVE Complete'
  <2>1. Complete
      BY <1>6, <1>1, SameRows DEF IInv
  <2>2. Multiple(position - rows - 1)' <=> Multiple(position - rows - 1)
      BY <1>1 DEF Multiple
  <2> QED
      BY <1>1, <1>2, <2>1, <2>2 DEF Complete
<1> QED
    BY <1>3, <1>5, <1>6 DEF IInv

LEMMA EndRowsetInv == ASSUME IInv, EndRowset PROVE IInv'
<1>0. /\ loop \in Loops /\ size \in Nat /\ Taken \in Nat
      /\ loop.limit \in Nat /\ loop.rowset \in Nat /\ counter \in 0..loop.limit
    BY BoundInNat, TakenInNat, LoopShape DEF IInv, Places
<1>1. /\ UNCHANGED <<loop, size, cursor, position, counter, rows, index, sqlcode, code, seen>>
      /\ pc = "rowset" /\ ~ MoreInRowset
      /\ pc' = IF sqlcode = End THEN "after" ELSE "fetch"
    BY DEF EndRowset
<1>2. loop.rowset > 0 /\ counter = Taken
    BY <1>1 DEF IInv, Delivered
<1>3. /\ position \in 1..size + 1 /\ Taken <= position - 1
      /\ rows \in 1..position - 1 /\ index \in 1..rows + 1
      /\ Taken = position - rows + index - 2
    BY <1>1, <1>2 DEF IInv, Delivered, InRowset
<1>4. counter < loop.limit => index = rows + 1 /\ Taken = position - 1
    BY <1>0, <1>1, <1>3 DEF MoreInRowset
<1>5. Places'
    BY <1>1 DEF IInv, Places
<1>6. InRowset'
    BY <1>0, <1>1, <1>2, <1>3, <1>4, SameRows DEF InRowset
<1>7. Delivered'
    BY <1>0, <1>1, <1>2, <1>6, SameRows DEF IInv, Delivered
<1>8. ASSUME Sound(loop)' PROVE Complete'
  <2>1. Complete /\ FullRowsets(loop)
      BY <1>8, <1>1, <1>2, SameRows DEF IInv, Sound
  <2> DEFINE base == position - rows - 1
  <2>2. /\ Multiple(base) /\ base < loop.limit /\ sqlcode \in {0, End}
        /\ sqlcode = End \/ rows < loop.rowset => position = size + 1
      BY <1>1, <1>2, <2>1 DEF Complete
  <2>3. base \in Nat /\ base + rows = position - 1 /\ Taken = base + index - 1
      BY <1>0, <1>3
  <2>4. base + loop.rowset <= loop.limit /\ Multiple(base + loop.rowset)
      BY <1>0, <1>2, <2>1, <2>2, <2>3, NextMultiple
  <2>5. rows \in 0..loop.rowset
      BY DEF IInv, Places
  (* The bound can stop the inner loop only at the end of a rowset. *)
  <2>6. Taken = position - 1
      BY <1>0, <1>2, <1>3, <1>4, <2>3, <2>4, <2>5
  <2>7. CASE sqlcode = End
    <3>1. Taken = size
        BY <1>0, <2>2, <2>6, <2>7
    <3>2. Asked' = Taken'
        BY <1>0, <1>1, <1>2, <3>1, WholeSet, SameRows
    <3> QED
        BY <1>1, <2>7, <3>2 DEF Complete
  <2>8. CASE sqlcode = 0
    <3>1. pc' = "fetch" /\ sqlcode' = 0
        BY <1>1, <2>8
    <3>2. Multiple(Taken) \/ position = size + 1
        BY <1>0, <2>2, <2>3, <2>4, <2>5, <2>6
    <3>3. Multiple(Taken)' \/ (position = size + 1)'
        BY <1>1, <3>2, SameRows DEF Multiple
    <3> QED
        BY <1>1, <3>1, <3>3 DEF Complete
  <2> QED
      BY <2>2, <2>7, <2>8
<1> QED
    BY <1>5, <1>7, <1>8 DEF IInv

(* The row the body finishes is the next of those asked for. *)
LEMMA NextRow ==
    ASSUME IInv, pc = "body"
    PROVE  /\ Taken < Asked
           /\ Row = Wanted(Taken + 1)
           /\ Wanted(Taken + 1) \in 1..size
<1>0. /\ loop \in Loops /\ size \in Nat /\ Taken \in Nat /\ loop.rowset \in Nat
      /\ loop.start \in Int /\ loop.backward \in BOOLEAN /\ Asked \in Nat
    BY BoundInNat, TakenInNat, LoopShape, AskedInRange DEF IInv, Places
<1>1. counter = Taken + 1
    BY DEF IInv, Delivered
<1>2. CASE loop.rowset = 0
  <2>1. position = Reached(Taken + 1) /\ Taken < Asked
      BY <1>0, <1>1, <1>2 DEF IInv, Delivered
  <2>2. position + (IF loop.backward THEN 1 ELSE -1) = Reached(Taken)
      BY <1>0, <2>1 DEF Reached
  <2>3. Row = RowAt(Reached(Taken))
      BY <1>2, <2>2 DEF Row
  <2> QED
      BY <1>0, <2>1, <2>3, Walk
<1>3. CASE loop.rowset > 0
  <2>1. /\ position \in 1..size + 1 /\ rows \in 1..position - 1
        /\ index \in 1..rows /\ Taken = position - rows + index - 2
      BY <1>0, <1>3 DEF IInv, Delivered, InRowset
  <2>2. Row = Taken + 1 /\ Taken < size
      BY <1>0, <1>3, <2>1 DEF Row
  <2>3. Asked = size /\ Wanted(Taken + 1) = Taken + 1
      BY <1>0, <1>3, WholeSet
  <2> QED
      BY <1>0, <2>2, <2>3
<1> QED
    BY <1>0, <1>2, <1>3

LEMMA FinishRowInv == ASSUME IInv, FinishRow PROVE IInv'
<1>0. /\ loop \in Loops /\ size \in 0..MaxRows /\ Taken \in Nat /\ MaxRows \in Nat
      /\ loop.limit \in Nat /\ loop.rowset \in Nat /\ Asked \in Nat /\ size \in Nat
      /\ seen \in Seq(1..MaxRows)
    BY BoundInNat, TakenInNat, LoopShape, AskedInRange DEF IInv, Places, Delivered
<1>1. /\ UNCHANGED <<loop, size, cursor, position, counter, rows, sqlcode, code>>
      /\ pc = "body" /\ seen' = Append(seen, Row)
    BY DEF FinishRow
<1>2. /\ Taken < Asked /\ Row = Wanted(Taken + 1) /\ Row \in 1..MaxRows
    BY <1>0, <1>1, NextRow
<1>3. /\ Taken' = Taken + 1 /\ seen' \in Seq(1..MaxRows)
      /\ \A i \in 1..Taken : seen'[i] = seen[i]
      /\ seen'[Taken + 1] = Row
    BY <1>0, <1>1, <1>2 DEF Taken
<1>4. Asked' = Asked /\ \A i : Wanted(i)' = Wanted(i)
    BY <1>1 DEF Asked, First, RowAt, Wanted
<1>5. \A i \in 1..Taken' : seen'[i] = Wanted(i)'
  <2>1. SUFFICES ASSUME NEW i \in 1..Taken + 1 PROVE seen'[i] = Wanted(i)
      BY <1>3, <1>4
  <2>2. CASE i \in 1..Taken
      BY <1>3, <2>2 DEF IInv, Delivered
  <2>3. CASE i = Taken + 1
      BY <1>2, <1>3, <2>3
  <2> QED
      BY <1>0, <2>2, <2>3
<1>6. Taken' <= Asked' /\ counter' = Taken' /\ counter = Taken + 1
    BY <1>0, <1>1, <1>2, <1>3, <1>4 DEF IInv, Delivered
<1>b. loop' = loop
    BY <1>1
<1>7. CASE loop.rowset = 0
  <2>1. pc' = "fetch" /\ index' = index
      BY <1>7 DEF FinishRow
  <2>2. Places'
      BY <1>1, <2>1 DEF IInv, Places
  <2>3. (position = Reached(counter))' /\ (counter <= Asked)'
      BY <1>0, <1>1, <1>4, <1>7 DEF IInv, Delivered, Reached
  <2>4. Delivered'
      BY <1>b, <1>3, <1>5, <1>6, <1>7, <2>1, <2>3 DEF Delivered
  <2>5. ASSUME Sound(loop)' PROVE Complete'
    <3>1. Complete
        BY <1>1, <2>5 DEF IInv, Sound, FullRowsets
    <3>2. counter > 0
        BY <1>0, <1>6
    <3>3. sqlcode' = 0
        BY <1>1, <1>7, <3>1, <3>2 DEF Complete
    <3> QED
        BY <1>b, <1>7, <2>1, <3>3 DEF Complete
  <2> QED
      BY <2>2, <2>4, <2>5 DEF IInv
<1>8. CASE loop.rowset > 0
  <2>1. pc' = "rowset" /\ index' = index + 1
      BY <1>0, <1>8 DEF FinishRow
  <2>2. /\ position \in 1..size + 1 /\ rows \in 1..position - 1
        /\ index \in 1..rows /\ Taken = position - rows + index - 2
        /\ rows \in 0..loop.rowset
      BY <1>0, <1>1, <1>8 DEF IInv, Places, Delivered, InRowset
  <2>3. Places'
      BY <1>0, <1>1, <2>1, <2>2 DEF IInv, Places
  <2>4. InRowset'
    <3>1. /\ Taken + 1 <= position - 1 /\ index + 1 \in 1..rows + 1
          /\ Taken + 1 = position - rows + (index + 1) - 2
        BY <1>0, <2>2
    <3>2. position' = position /\ size' = size /\ rows' = rows
        BY <1>1
    <3> QED
        BY <1>3, <2>1, <2>2, <3>1, <3>2 DEF InRowset
  <2>5. Delivered'
      BY <1>b, <1>3, <1>5, <1>6, <1>8, <2>1, <2>4 DEF Delivered
  <2>6. ASSUME Sound(loop)' PROVE Complete'
    <3>1. Complete
        BY <1>1, <2>6 DEF IInv, Sound, FullRowsets
    <3>2. Multiple(position - rows - 1)' <=> Multiple(position - rows - 1)
        BY <1>1 DEF Multiple
    <3> QED
        BY <1>1, <1>8, <2>1, <3>1, <3>2 DEF Complete
  <2> QED
      BY <2>3, <2>5, <2>6 DEF IInv
<1> QED
    BY <1>0, <1>7, <1>8

(* The body's SQL disturbs only a loop that is not sound. *)
LEMMA ExecuteInv == ASSUME IInv, Execute PROVE IInv'
<1>1. /\ UNCHANGED <<loop, pc, size, position, counter, rows, index, code, seen>>
      /\ pc = "body" /\ loop.executes
    BY DEF Execute
<1>a. sqlcode' \in {Error, 0, Warning, End} /\ cursor' \in BOOLEAN
  <2>1. sqlcode' \in {0, End, Error} /\ cursor' \in {cursor, FALSE}
      BY DEF Execute
  <2> QED
      BY <2>1 DEF IInv, Places
<1>2. Places'
    BY <1>1, <1>a DEF IInv, Places
<1>3. InRowset => InRowset'
    BY <1>1, SameRows DEF InRowset
<1>4. Delivered'
    BY <1>1, <1>3, SameRows, Reached(counter)' = Reached(counter) DEF IInv, Delivered, Reached
<1>5. ~ Sound(loop)'
    BY <1>1 DEF Sound
<1> QED
    BY <1>2, <1>4, <1>5 DEF IInv

(* A commit answers 0, as the FETCH before it did: in a rowset loop it     *)
(* hides the +100 that came with the last rowset.                          *)
LEMMA CommitInv == ASSUME IInv, Commit PROVE IInv'
<1>1. /\ UNCHANGED <<loop, pc, size, cursor, position, counter, rows, index, code, seen>>
      /\ pc = "body" /\ sqlcode' = 0
    BY DEF Commit
<1>2. Places'
    BY <1>1 DEF IInv, Places
<1>3. InRowset => InRowset'
    BY <1>1, SameRows DEF InRowset
<1>4. Delivered'
    BY <1>1, <1>3, SameRows, Reached(counter)' = Reached(counter) DEF IInv, Delivered, Reached
<1>5. ASSUME Sound(loop)' PROVE Complete'
  <2>1. Complete
      BY <1>1, <1>5, SameRows DEF IInv
  <2>2. Multiple(position - rows - 1)' <=> Multiple(position - rows - 1)
      BY <1>1 DEF Multiple
  <2> QED
      BY <1>1, <2>1, <2>2 DEF Complete
<1> QED
    BY <1>2, <1>4, <1>5 DEF IInv

LEMMA RaiseInv == ASSUME IInv, Raise PROVE IInv'
<1>1. /\ UNCHANGED <<loop, size, cursor, position, counter, rows, index, sqlcode, seen>>
      /\ pc = "body" /\ pc' = "left" /\ code' = "raise"
    BY DEF Raise
<1>2. Places'
    BY <1>1 DEF IInv, Places
<1>3. InRowset => InRowset'
    BY <1>1, SameRows DEF InRowset
<1>4. Delivered'
    BY <1>1, <1>3, SameRows, Reached(counter)' = Reached(counter) DEF IInv, Delivered, Reached
<1>5. Complete'
    BY <1>1 DEF Complete
<1> QED
    BY <1>2, <1>4, <1>5 DEF IInv

(* A sound loop that stops at its bound stops on a row it was given: the   *)
(* bound is reached with SQLCODE 0.                                        *)
LEMMA LeaveAtBoundInv == ASSUME IInv, LeaveAtBound PROVE IInv'
<1>0. loop \in Loops /\ loop.limit \in Nat /\ loop.limit > 0 /\ loop.rowset \in Nat
      /\ counter \in 0..loop.limit
    BY LoopShape DEF IInv, Places
<1>1. /\ UNCHANGED <<loop, size, cursor, position, counter, rows, index, sqlcode, code, seen>>
      /\ pc = "fetch" /\ pc' = "after" /\ counter >= loop.limit
    BY DEF LeaveAtBound
<1>2. Places'
    BY <1>1 DEF IInv, Places
<1>3. InRowset => InRowset'
    BY <1>1, SameRows DEF InRowset
<1>4. Delivered'
    BY <1>1, <1>3, SameRows, Reached(counter)' = Reached(counter) DEF IInv, Delivered, Reached
<1>5. ASSUME Sound(loop)' PROVE Complete'
  <2>1. Complete
      BY <1>1, <1>5, SameRows DEF IInv
  <2>2. sqlcode = 0
      BY <1>0, <1>1, <2>1 DEF Complete
  <2> QED
      BY <1>1, <2>2 DEF Complete
<1> QED
    BY <1>2, <1>4, <1>5 DEF IInv

LEMMA TestBoundInv == ASSUME IInv, TestBound PROVE IInv'
<1>1. /\ UNCHANGED <<loop, size, cursor, position, counter, rows, index, sqlcode, seen>>
      /\ pc = "after" /\ pc' = "close" /\ code' = IF Unread THEN "limit" ELSE code
    BY DEF TestBound
<1>2. Places'
    BY <1>1 DEF IInv, Places
<1>3. InRowset => InRowset'
    BY <1>1, SameRows DEF InRowset
<1>4. Delivered'
    BY <1>1, <1>3, SameRows, Reached(counter)' = Reached(counter) DEF IInv, Delivered, Reached
<1>5. ASSUME Sound(loop)' PROVE Complete'
  <2>1. Complete
      BY <1>1, <1>5, SameRows DEF IInv
  <2>2. code' = "none" => code = "none" /\ ~ Unread
      BY <1>1
  <2>3. code' = "none" => Taken' = Asked'
      BY <1>1, <2>1, <2>2, SameRows DEF Complete, Unread
  <2> QED
      BY <1>1, <2>3 DEF Complete
<1> QED
    BY <1>2, <1>4, <1>5 DEF IInv

LEMMA CloseInv == ASSUME IInv, Close PROVE IInv'
<1>1. /\ UNCHANGED <<loop, size, position, counter, rows, index, code, seen>>
      /\ pc = "close" /\ pc' = IF code = "none" THEN "done" ELSE "failed"
      /\ cursor' = FALSE /\ sqlcode' \in {0, Error}
    BY DEF Close
<1>2. Places'
    BY <1>1 DEF IInv, Places
<1>3. InRowset => InRowset'
    BY <1>1, SameRows DEF InRowset
<1>4. Delivered'
    BY <1>1, <1>3, SameRows, Reached(counter)' = Reached(counter) DEF IInv, Delivered, Reached
<1>5. ASSUME Sound(loop)' PROVE Complete'
  <2>1. Complete
      BY <1>1, <1>5, SameRows DEF IInv
  <2> QED
      BY <1>1, <2>1, SameRows DEF Complete
<1> QED
    BY <1>2, <1>4, <1>5 DEF IInv

LEMMA StutterInv == ASSUME IInv, UNCHANGED vars PROVE IInv'
<1>1. UNCHANGED <<loop, pc, size, cursor, position, counter, rows, index, sqlcode, code, seen>>
    BY DEF vars
<1>2. Places'
    BY <1>1 DEF IInv, Places
<1>3. InRowset => InRowset'
    BY <1>1, SameRows DEF InRowset
<1>4. Delivered'
    BY <1>1, <1>3, SameRows, Reached(counter)' = Reached(counter) DEF IInv, Delivered, Reached
<1>5. ASSUME Sound(loop)' PROVE Complete'
  <2>1. Complete
      BY <1>1, <1>5, SameRows DEF IInv
  <2>2. /\ Multiple(position - rows - 1)' <=> Multiple(position - rows - 1)
        /\ Multiple(Taken)' <=> Multiple(Taken)
      BY <1>1, SameRows DEF Multiple
  <2> QED
      BY <1>1, <2>1, <2>2, SameRows DEF Complete
<1> QED
    BY <1>2, <1>4, <1>5 DEF IInv

LEMMA NextInv == IInv /\ [Next]_vars => IInv'
<1> SUFFICES ASSUME IInv, [Next]_vars PROVE IInv'
    OBVIOUS
<1>1. CASE Open
    BY <1>1, OpenInv
<1>2. CASE Fetch
    BY <1>2, FetchRowInv, FetchWarnedInv, FetchEndsInv, FetchFailsInv, FetchRowsetInv DEF Fetch
<1>3. CASE TakeFromRowset \/ EndRowset
    BY <1>3, TakeFromRowsetInv, EndRowsetInv
<1>4. CASE Body
    BY <1>4, FinishRowInv, ExecuteInv, CommitInv, RaiseInv DEF Body
<1>5. CASE Ends
    BY <1>5, LeaveAtBoundInv, TestBoundInv, CloseInv DEF Ends
<1>6. CASE UNCHANGED vars
    BY <1>6, StutterInv
<1> QED
    BY <1>1, <1>2, <1>3, <1>4, <1>5, <1>6 DEF Next

LEMMA LoopInductive == Spec => []IInv
BY InitInv, NextInv, PTL DEF Spec

-----------------------------------------------------------------------------
(* At every point the program's registers and the rows the body has had    *)
(* are what the generated declarations allow, for every set of loops.      *)
THEOREM LoopTypeOK == Spec => []TypeOK
<1>1. IInv => TypeOK
    BY DEF IInv, Places, Delivered, TypeOK
<1> QED
    BY <1>1, LoopInductive, PTL

(* The body gets the rows the source asks for, in order, none skipped and  *)
(* none twice: whatever the direction, the start on either side of zero,   *)
(* the rowset size, and the SQL the body runs meanwhile.                   *)
THEOREM LoopRowsInOrder == Spec => []RowsInOrder
<1>1. IInv => RowsInOrder
  <2> SUFFICES ASSUME IInv PROVE RowsInOrder
      OBVIOUS
  <2>1. DOMAIN seen = 1..Taken
      BY DEF IInv, Delivered, Taken
  <2> QED
      BY <2>1 DEF IInv, Delivered, Taken, RowsInOrder
<1> QED
    BY <1>1, LoopInductive, PTL

(* No loop gives its body more rows than the bound the source declares,    *)
(* inside a rowset as well as between them.                                *)
THEOREM LoopBoundHolds == Spec => []BoundHolds
<1>1. IInv => BoundHolds
  <2> SUFFICES ASSUME IInv PROVE BoundHolds
      OBVIOUS
  <2>1. loop.limit \in Nat /\ counter \in 0..loop.limit /\ Taken \in Nat
      BY LoopShape, TakenInNat DEF IInv, Places
  <2>2. counter = Taken \/ counter = Taken + 1
      BY DEF IInv, Delivered
  <2> QED
      BY <2>1, <2>2 DEF BoundHolds, Taken
<1> QED
    BY <1>1, LoopInductive, PTL

(* A loop whose body runs no SQL of its own, over a cursor that does not   *)
(* warn and with a bound of whole rowsets, never reports part of a result  *)
(* set as all of it: it reads to the end or it fails.                      *)
THEOREM LoopSoundReadsAll == Spec => []SoundLoopReadsAll
<1>1. IInv => SoundLoopReadsAll
    BY DEF IInv, Complete, SoundLoopReadsAll, WholeOrFailed, Taken
<1> QED
    BY <1>1, LoopInductive, PTL

-----------------------------------------------------------------------------
(* Division of magnitudes.                                                 *)
LEMMA DivMod ==
    ASSUME NEW a \in Nat, NEW b \in Nat, b > 0
    PROVE  /\ a \div b \in Nat
           /\ a - (a \div b) * b \in 0..(b - 1)
OBVIOUS

(* Truncation leaves less than one unit, on the side away from zero.       *)
LEMMA QuotientTowards ==
    ASSUME NEW n \in Int, NEW d \in Int, d # 0
    PROVE  /\ Quotient(n, d) \in Int
           /\ Towards(n - Quotient(n, d) * d, n, d)
<1> DEFINE q == Abs(n) \div Abs(d)
<1>1. Abs(n) \in Nat /\ Abs(d) \in Nat /\ Abs(d) > 0
    BY DEF Abs
<1>2. q \in Nat /\ Abs(n) - q * Abs(d) \in 0..(Abs(d) - 1)
    BY <1>1, DivMod
<1> HIDE DEF q
<1>3. Quotient(n, d) = IF (n < 0) = (d < 0) THEN q ELSE -q
    BY DEF Quotient, q
<1>4. CASE n < 0 /\ d < 0
    BY <1>2, <1>3, <1>4 DEF Abs, Towards, Below, Above
<1>5. CASE n >= 0 /\ d >= 0
    BY <1>2, <1>3, <1>5 DEF Abs, Towards, Below, Above
<1>6. CASE n < 0 /\ d >= 0
    BY <1>2, <1>3, <1>6 DEF Abs, Towards, Below, Above
<1>7. CASE n >= 0 /\ d < 0
    BY <1>2, <1>3, <1>7 DEF Abs, Towards, Below, Above
<1> QED
    BY <1>4, <1>5, <1>6, <1>7

(* A multiple of d nearer to zero than d is zero.                          *)
LEMMA SmallMultiple ==
    ASSUME NEW k \in Int, NEW d \in Int, Abs(k * d) < Abs(d)
    PROVE  k = 0
<1>1. CASE k >= 1 /\ d > 0
    <2>1. (k - 1) * d >= 0
        BY <1>1
    <2> QED
        BY <1>1, <2>1 DEF Abs
<1>2. CASE k >= 1 /\ d < 0
    <2>1. (k - 1) * d <= 0
        BY <1>2
    <2> QED
        BY <1>2, <2>1 DEF Abs
<1>3. CASE k <= -1 /\ d > 0
    <2>1. (k + 1) * d <= 0
        BY <1>3
    <2> QED
        BY <1>3, <2>1 DEF Abs
<1>4. CASE k <= -1 /\ d < 0
    <2>1. (k + 1) * d >= 0
        BY <1>4
    <2> QED
        BY <1>4, <2>1 DEF Abs
<1>5. d # 0
    BY DEF Abs
<1> QED
    BY <1>1, <1>2, <1>3, <1>4, <1>5

-----------------------------------------------------------------------------
(* A mode rounds a number to one result.                                   *)
LEMMA OneRounding ==
    ASSUME NEW mode \in RoundingModes, NEW n \in Int, NEW d \in Int, d # 0,
           NEW r \in Int, NEW s \in Int,
           IsRounding(mode, n, d, r), IsRounding(mode, n, d, s)
    PROVE  r = s
<1> DEFINE e == n - r * d
           f == n - s * d
<1>1. e \in Int /\ f \in Int
    OBVIOUS
<1>2. (s - r) * d = e - f
    OBVIOUS
<1>3. (r - s) * d = f - e
    OBVIOUS
<1>4. ASSUME Abs(e - f) < Abs(d)
      PROVE  r = s
    <2>1. PICK k \in Int : k = s - r
        OBVIOUS
    <2>2. k * d = e - f
        BY <1>2, <2>1
    <2>3. k = 0
        BY <1>4, <2>2, SmallMultiple
    <2> QED
        BY <2>1, <2>3
<1>5. ASSUME NEW x \in Int, NEW y \in Int, Abs(x) <= Abs(d), Abs(y) <= Abs(d),
             (Below(x, d) /\ Below(y, d)) \/ (Above(x, d) /\ Above(y, d))
      PROVE  Abs(x - y) < Abs(d)
    BY <1>5 DEF Abs, Below, Above
<1>6. CASE mode \in {"DOWN", "UP", "CEILING", "FLOOR"}
    <2>1. (Below(e, d) /\ Below(f, d)) \/ (Above(e, d) /\ Above(f, d))
        BY <1>6 DEF IsRounding, Towards, Beyond
    <2>2. Abs(e) <= Abs(d) /\ Abs(f) <= Abs(d)
        BY <1>1, <2>1 DEF Below, Above, Abs
    <2>3. Abs(e - f) < Abs(d)
        BY <1>1, <1>5, <2>1, <2>2
    <2> QED
        BY <1>4, <2>3
<1>7. ASSUME Nearest(e, d), Nearest(f, d), e # -f \/ ~ Tie(e, d)
      PROVE  r = s
    <2>1. Abs(e - f) < Abs(d)
        BY <1>1, <1>7 DEF Nearest, Tie, Abs
    <2> QED
        BY <1>4, <2>1
<1>8. ASSUME Nearest(e, d), Nearest(f, d), e = -f, Tie(e, d)
      PROVE  Tie(f, d) /\ s - r \in {-1, 1}
    <2>1. Tie(f, d)
        BY <1>1, <1>8 DEF Tie, Abs
    <2>2. Abs(e - f) = Abs(d)
        BY <1>1, <1>8 DEF Tie, Abs
    <2>3. ASSUME s - r > 1
          PROVE  FALSE
        <3>1. CASE d > 0
            <4>1. (s - r - 1) * d > 0
                BY <2>3, <3>1
            <4> QED
                BY <1>2, <2>2, <3>1, <4>1 DEF Abs
        <3>2. CASE d < 0
            <4>1. (s - r - 1) * d < 0
                BY <2>3, <3>2
            <4> QED
                BY <1>2, <2>2, <3>2, <4>1 DEF Abs
        <3> QED
            BY <3>1, <3>2
    <2>4. ASSUME s - r < -1
          PROVE  FALSE
        <3>1. CASE d > 0
            <4>1. (s - r + 1) * d < 0
                BY <2>4, <3>1
            <4> QED
                BY <1>2, <2>2, <3>1, <4>1 DEF Abs
        <3>2. CASE d < 0
            <4>1. (s - r + 1) * d > 0
                BY <2>4, <3>2
            <4> QED
                BY <1>2, <2>2, <3>2, <4>1 DEF Abs
        <3> QED
            BY <3>1, <3>2
    <2>5. s # r
        BY <1>2, <2>2 DEF Abs
    <2> QED
        BY <2>1, <2>3, <2>4, <2>5
<1>9. CASE mode \in {"HALF_UP", "HALF_DOWN"}
    <2>1. Nearest(e, d) /\ Nearest(f, d)
        BY <1>9 DEF IsRounding
    <2>2. ASSUME e = -f, Tie(e, d)
          PROVE  FALSE
        <3>1. Tie(f, d)
            BY <1>8, <2>1, <2>2
        <3>2. (Below(e, d) /\ Below(f, d)) \/ (Above(e, d) /\ Above(f, d))
            BY <1>9, <2>2, <3>1 DEF IsRounding, Towards, Beyond
        <3> QED
            BY <1>1, <2>2, <3>2 DEF Below, Above, Tie, Abs
    <2> QED
        BY <1>7, <2>1, <2>2
<1>10. CASE mode = "HALF_EVEN"
    <2>1. Nearest(e, d) /\ Nearest(f, d)
        BY <1>10 DEF IsRounding
    <2>2. ASSUME e = -f, Tie(e, d)
          PROVE  FALSE
        <3>1. Tie(f, d) /\ s - r \in {-1, 1}
            BY <1>8, <2>1, <2>2
        <3>2. r % 2 = 0 /\ s % 2 = 0
            BY <1>10, <2>2, <3>1 DEF IsRounding
        <3> QED
            BY <3>1, <3>2
    <2> QED
        BY <1>7, <2>1, <2>2
<1> QED
    BY <1>6, <1>9, <1>10 DEF RoundingModes

(* Truncation, and the step the mode takes from it, round.                 *)
LEMMA StepRounds ==
    ASSUME NEW mode \in RoundingModes \ NativeModes, NEW n \in Int, NEW d \in Int, d # 0,
           NEW v \in Int, NEW e \in Int, e = n - v * d, Towards(e, n, d),
           NEW s, s = StepSign(e, d)
    PROVE  IsRounding(mode, n, d, IF TakesStep(mode, v, e, d, s) THEN v + s ELSE v)
<1>1. s \in {-1, 1}
    BY DEF StepSign
<1>2. n - (v + s) * d = e - s * d
    BY <1>1
<1>3. CASE mode \in {"UP", "CEILING", "FLOOR"}
    <2> DEFINE f == e - s * d
    <2>1. f \in Int /\ f = IF s = 1 THEN e - d ELSE e + d
        BY <1>1
    <2>2. (s = 1 => Below(e, d)) /\ (s = -1 => Above(e, d))
        BY DEF StepSign, Towards, Above, Below
    <2>3. e # 0 => ((s = 1) <=> ((n < 0) = (d < 0)))
        BY DEF StepSign, Towards, Above, Below
    <2>4. e # 0 => (s = 1 => Above(f, d)) /\ (s = -1 => Below(f, d))
        BY <1>1, <2>1, <2>2 DEF Above, Below
    <2>5. e = 0 => Above(e, d) /\ Below(e, d)
        BY DEF Above, Below
    <2>6. CASE mode = "UP"
        BY <1>1, <1>2, <2>3, <2>4, <2>5, <2>6 DEF IsRounding, TakesStep, Beyond
    <2>7. CASE mode = "CEILING"
        BY <1>1, <1>2, <2>2, <2>4, <2>5, <2>7 DEF IsRounding, TakesStep
    <2>8. CASE mode = "FLOOR"
        BY <1>1, <1>2, <2>2, <2>4, <2>5, <2>8 DEF IsRounding, TakesStep
    <2> QED
        BY <1>3, <2>6, <2>7, <2>8
<1>4. CASE mode = "HALF_DOWN"
    <2>1. CASE TakesStep(mode, v, e, d, s)
        BY <1>1, <1>2, <1>4, <2>1
        DEF IsRounding, TakesStep, StepSign, Towards, Nearest, Tie, Above, Below, Abs
    <2>2. CASE ~ TakesStep(mode, v, e, d, s)
        BY <1>1, <1>4, <2>2
        DEF IsRounding, TakesStep, StepSign, Towards, Nearest, Tie, Above, Below, Abs
    <2> QED
        BY <2>1, <2>2
<1>5. CASE mode = "HALF_EVEN"
    <2>1. v % 2 \in {0, 1} /\ (v % 2 = 1 => (v + s) % 2 = 0)
        BY <1>1
    <2>2. CASE TakesStep(mode, v, e, d, s)
        <3>1. Nearest(e - s * d, d)
            BY <1>1, <1>5, <2>2 DEF TakesStep, StepSign, Towards, Nearest, Above, Below, Abs
        <3>2. Tie(e - s * d, d) => (v + s) % 2 = 0
            BY <1>1, <1>5, <2>1, <2>2
            DEF TakesStep, StepSign, Towards, Tie, Above, Below, Abs
        <3> QED
            BY <1>2, <1>5, <2>2, <3>1, <3>2 DEF IsRounding
    <2>3. CASE ~ TakesStep(mode, v, e, d, s)
        BY <1>1, <1>5, <2>1, <2>3 DEF IsRounding, TakesStep, Nearest, Tie, Abs
    <2> QED
        BY <2>2, <2>3
<1> QED
    BY <1>3, <1>4, <1>5 DEF RoundingModes, NativeModes

(* So does COBOL's own phrase, and so does leaving it out.                 *)
LEMMA PhraseRounds ==
    ASSUME NEW n \in Int, NEW d \in Int, d # 0
    PROVE  /\ IsRounding("DOWN", n, d, Quotient(n, d))
           /\ RoundedPhrase(n, d) \in Int
           /\ IsRounding("HALF_UP", n, d, RoundedPhrase(n, d))
<1> DEFINE q == Quotient(n, d)
           e == n - q * d
           a == Away(n, d)
<1>1. q \in Int /\ e \in Int /\ Towards(e, n, d)
    BY QuotientTowards
<1>2. IsRounding("DOWN", n, d, q)
    BY <1>1 DEF IsRounding
<1>3. a \in {-1, 1}
    BY DEF Away
<1>4. RoundedPhrase(n, d) = IF 2 * Abs(e) >= Abs(d) THEN q + a ELSE q
    BY DEF RoundedPhrase
<1>5. RoundedPhrase(n, d) \in Int
    BY <1>1, <1>3, <1>4
<1> HIDE DEF q
<1>6. CASE 2 * Abs(e) >= Abs(d)
    <2>1. n - (q + a) * d = e - a * d
        BY <1>1, <1>3
    <2>2. Nearest(e - a * d, d) /\ (Tie(e - a * d, d) => Beyond(e - a * d, n, d))
        BY <1>1, <1>3, <1>6 DEF Away, Towards, Beyond, Nearest, Tie, Above, Below, Abs
    <2> QED
        BY <1>2, <1>4, <1>5, <1>6, <2>1, <2>2 DEF IsRounding, q
<1>7. CASE ~ 2 * Abs(e) >= Abs(d)
    <2>1. Nearest(e, d) /\ ~ Tie(e, d)
        BY <1>1, <1>7 DEF Nearest, Tie, Abs
    <2> QED
        BY <1>2, <1>4, <1>5, <1>7, <2>1 DEF IsRounding, q
<1> QED
    BY <1>6, <1>7

(* An unguarded store keeps what fits, and takes the first value that does *)
(* not, on either side, to zero.                                           *)
LEMMA HeldFits ==
    ASSUME NEW v \in Int, NEW limit \in Nat \ {0}
    PROVE  /\ Held(v, limit) \in (1 - limit)..(limit - 1)
           /\ Abs(v) < limit => Held(v, limit) = v
           /\ Abs(v) = limit => Held(v, limit) = 0
BY DEF Held, Abs

(* A truncation too large for the field leaves no rounding that fits it.   *)
LEMMA NoneFits ==
    ASSUME NEW mode \in RoundingModes \ NativeModes, NEW n \in Int, NEW d \in Int, d # 0,
           NEW limit \in Nat \ {0}, Abs(Quotient(n, d)) >= limit,
           NEW r \in Int, IsRounding(mode, n, d, r)
    PROVE  Abs(r) >= limit
<1> DEFINE v == Quotient(n, d)
           e == n - v * d
           s == StepSign(e, d)
           t == IF TakesStep(mode, v, e, d, s) THEN v + s ELSE v
<1>1. v \in Int /\ Towards(e, n, d) /\ e \in Int
    BY QuotientTowards
<1>2. IsRounding(mode, n, d, t)
    BY <1>1, StepRounds
<1>3. s \in {-1, 1} /\ t \in Int
    BY <1>1 DEF StepSign
<1>4. r = t
    BY <1>2, <1>3, OneRounding
<1>5. v = IF (n < 0) = (d < 0) THEN Abs(v) ELSE -Abs(v)
    <2>1. Abs(n) \div Abs(d) \in Nat
        BY DivMod DEF Abs
    <2> QED
        BY <2>1 DEF Quotient, Abs
<1>6. e # 0 => ((s = 1) <=> ((n < 0) = (d < 0)))
    BY <1>1 DEF StepSign, Towards, Above, Below
<1>7. e = 0 => ~ TakesStep(mode, v, e, d, s)
    BY DEF TakesStep, Abs, RoundingModes, NativeModes
<1> HIDE DEF e, s, v
<1> QED
    BY <1>1, <1>3, <1>4, <1>5, <1>6, <1>7 DEF Abs, v

-----------------------------------------------------------------------------
WellRounded(v) ==
    OperandsFit =>
        \/ asked.d # 0 /\ Rounds(v)
        \/ Abs(Quotient(asked.n, asked.d)) = RoundingLimit - 1 /\ v = 0

GeneratedMode == asked.mode \in RoundingModes \ NativeModes

RoundInv ==
    /\ RoundTypeOK
    /\ stage \in {"load", "truncate", "measure", "adjust", "store"} => GeneratedMode
    /\ stage = "compute" => asked.mode \in NativeModes
    /\ stage \in {"load", "compute", "truncate"} => overflow = "no"
    /\ stage \in {"truncate", "measure", "adjust", "store"} /\ OperandsFit
           => dividend = asked.n /\ divisor = asked.d
    /\ asked.shape = "product" => OperandsFit /\ asked.d \in 1..ExcessLimit
    /\ stage \in {"measure", "adjust"} /\ overflow = "no"
           => divisor # 0 /\ value = Quotient(dividend, divisor)
    /\ stage = "adjust" \/ (stage = "measure" /\ asked.shape = "quotient")
           => (overflow = "no" => excess = dividend - value * divisor)
    /\ stage = "adjust" => stepping = StepSign(excess, divisor)
    /\ stage = "store" /\ overflow = "no" => WellRounded(value)
    /\ stage = "done" /\ overflow = "no" => WellRounded(target)
    /\ NoFalseAlarm

LEMMA AskedType ==
    ASSUME asked \in Requests
    PROVE  /\ asked.mode \in RoundingModes
           /\ asked.shape \in {"product", "quotient"}
           /\ asked.n \in Int /\ asked.d \in Int
           /\ asked.sorting \in BOOLEAN
           /\ asked.shape = "product" => OperandsFit /\ asked.d \in 1..ExcessLimit
BY RoundingAssumption DEF Requests, Statements, OperandsFit

LEMMA RoundInitInv == RoundInit => RoundInv
<1> SUFFICES ASSUME RoundInit PROVE RoundInv
    OBVIOUS
<1>1. asked \in Requests
    BY DEF RoundInit
<1>2. RoundTypeOK
    BY <1>1, RoundingAssumption DEF RoundInit, RoundTypeOK, Holdable
<1> QED
    BY <1>1, <1>2, AskedType DEF RoundInit, RoundInv, GeneratedMode, NoFalseAlarm

LEMMA RoundTypeNext ==
    ASSUME RoundTypeOK, [RoundNext]_roundVars
    PROVE  RoundTypeOK'
<1> USE RoundingAssumption DEF RoundTypeOK
<1>0. /\ asked.n \in Int /\ asked.d \in Int
      /\ RoundingLimit \in Nat \ {0}
    BY AskedType
<1>1. CASE Compute
    <2>1. asked.d # 0 => Native \in Int
        BY <1>0, QuotientTowards, PhraseRounds DEF Native
    <2> QED
        BY <1>1, <2>1 DEF Compute, SizeError, Fits, Abs, Holdable
<1>2. CASE Load
    <2>1. Held(asked.n, DividendLimit) \in Int
        BY <1>0, RoundingAssumption, HeldFits
    <2>2. Held(asked.d, DivisorLimit) \in Int
        BY <1>0, RoundingAssumption, HeldFits
    <2> QED
        BY <1>0, <1>2, <2>1, <2>2 DEF Load
<1>3. CASE Truncate
    <2>1. divisor # 0 => Quotient(dividend, divisor) \in Int
        BY QuotientTowards
    <2> QED
        BY <1>3, <2>1 DEF Truncate, SizeError, Fits, Abs, Holdable
<1>4. CASE Measure
    <2>0. value \in Int /\ dividend - value * divisor \in Int
        BY DEF Holdable
    <2>1. Discarded \in Int
        BY <2>0, HeldFits DEF Discarded
    <2> QED
        BY <1>4, <2>1 DEF Measure, StepSign
<1>5. CASE Adjust
    <2>0. value + stepping \in Int
        BY DEF Holdable
    <2>1. Held(value + stepping, RoundingLimit) \in Holdable
        BY <1>0, <2>0, HeldFits DEF Holdable
    <2> QED
        BY <1>5, <2>1 DEF Adjust
<1>6. CASE Store
    BY <1>6 DEF Store
<1>7. CASE UNCHANGED roundVars
    BY <1>7 DEF roundVars
<1> QED
    BY <1>1, <1>2, <1>3, <1>4, <1>5, <1>6, <1>7 DEF RoundNext

LEMMA RoundInvNext ==
    ASSUME RoundInv, [RoundNext]_roundVars
    PROVE  RoundInv'
<1>0. RoundTypeOK /\ RoundTypeOK'
    BY RoundTypeNext DEF RoundInv
<1>1. /\ asked.n \in Int /\ asked.d \in Int /\ asked.mode \in RoundingModes
      /\ asked.shape \in {"product", "quotient"}
      /\ RoundingLimit \in Nat \ {0} /\ ExcessLimit \in Nat \ {0}
    BY <1>0, AskedType, RoundingAssumption DEF RoundTypeOK
<1>2. asked' = asked
    BY DEF RoundNext, roundVars, Compute, Load, Truncate, Measure, Adjust, Store
<1>3. (OperandsFit' <=> OperandsFit) /\ (GeneratedMode' <=> GeneratedMode)
    BY <1>2 DEF OperandsFit, GeneratedMode
<1>4. \A v : (Rounds(v)' <=> Rounds(v)) /\ (WellRounded(v)' <=> WellRounded(v))
    BY <1>2, <1>3 DEF Rounds, WellRounded
<1>5. ASSUME Compute PROVE RoundInv'
    <2>1. asked.mode \in NativeModes /\ overflow = "no" /\ stage' \in {"done", "left"}
        BY <1>5 DEF Compute, SizeError, RoundInv
    <2>2. asked.d # 0 => Native \in Int /\ Rounds(Native)
        BY <1>1, <2>1, PhraseRounds, QuotientTowards DEF Native, Rounds, NativeModes
    <2>3. overflow' = "no" => WellRounded(target')
        BY <1>5, <2>1, <2>2 DEF Compute, SizeError, WellRounded
    <2>4. ASSUME overflow' # "no", asked.d # 0, NEW r \in Holdable, Rounds(r)
          PROVE  FALSE
        <3>1. ~ Fits(Native)
            BY <1>5, <2>1, <2>4 DEF Compute
        <3>2. r \in Int /\ Abs(r) < RoundingLimit
            BY <1>1, <2>4 DEF Holdable, Abs
        <3>3. r = Native
            BY <1>1, <2>2, <2>4, <3>2, OneRounding DEF Rounds
        <3> QED
            BY <3>1, <3>2, <3>3 DEF Fits
    <2>5. NoFalseAlarm'
        BY <1>2, <1>3, <1>4, <2>4 DEF NoFalseAlarm, Rounds
    <2>6. asked.shape = "product" => OperandsFit /\ asked.d \in 1..ExcessLimit
        BY DEF RoundInv
    <2> QED
        BY <1>0, <1>2, <1>3, <1>4, <2>1, <2>3, <2>5, <2>6 DEF RoundInv
<1>6. ASSUME Load PROVE RoundInv'
    <2>1. stage = "load" /\ stage' = "truncate" /\ overflow' = "no" /\ GeneratedMode
        BY <1>6 DEF Load, RoundInv
    <2>2. ASSUME OperandsFit
          PROVE  dividend' = asked.n /\ divisor' = asked.d
        <3>1. CASE asked.shape = "product"
            BY <1>6, <3>1 DEF Load
        <3>2. CASE asked.shape = "quotient"
            <4>1. Abs(asked.n) < DividendLimit /\ Abs(asked.d) < DivisorLimit
                BY <2>2, <3>2 DEF OperandsFit
            <4>2. Held(asked.n, DividendLimit) = asked.n
                BY <1>1, <4>1, HeldFits, RoundingAssumption
            <4>3. Held(asked.d, DivisorLimit) = asked.d
                BY <1>1, <4>1, HeldFits, RoundingAssumption
            <4> QED
                BY <1>6, <3>2, <4>2, <4>3 DEF Load
        <3> QED
            BY <1>1, <3>1, <3>2
    <2>3. asked.shape = "product" => OperandsFit /\ asked.d \in 1..ExcessLimit
        BY DEF RoundInv
    <2> QED
        BY <1>0, <1>2, <1>3, <2>1, <2>2, <2>3 DEF RoundInv, NoFalseAlarm
<1>7. ASSUME Truncate PROVE RoundInv'
    <2>1. GeneratedMode /\ overflow = "no" /\ stage' \in {"measure", "left"}
        BY <1>7 DEF Truncate, SizeError, RoundInv
    <2>2. OperandsFit => dividend = asked.n /\ divisor = asked.d
        BY <1>7 DEF Truncate, RoundInv
    <2>3. dividend' = dividend /\ divisor' = divisor
        BY <1>7 DEF Truncate
    <2>4. stage' = "measure" /\ overflow' = "no"
             => /\ divisor # 0 /\ value' = Quotient(dividend, divisor)
                /\ asked.shape = "quotient" => excess' = dividend - value' * divisor
        BY <1>7, <2>1 DEF Truncate, SizeError
    <2>5. ASSUME overflow' # "no", OperandsFit, asked.d # 0, NEW r \in Holdable, Rounds(r)
          PROVE  FALSE
        <3>1. ~ Fits(Quotient(asked.n, asked.d))
            BY <1>7, <2>1, <2>2, <2>5 DEF Truncate
        <3>2. Quotient(asked.n, asked.d) \in Int
            BY <1>1, <2>5, QuotientTowards
        <3>3. Abs(Quotient(asked.n, asked.d)) >= RoundingLimit
            BY <1>1, <3>1, <3>2 DEF Fits, Abs
        <3>4. r \in Int /\ Abs(r) < RoundingLimit
            BY <1>1, <2>5 DEF Holdable, Abs
        <3>5. Abs(r) >= RoundingLimit
            BY <1>1, <2>1, <2>5, <3>3, <3>4, NoneFits DEF Rounds, GeneratedMode
        <3> QED
            BY <1>1, <3>4, <3>5 DEF Abs
    <2>6. NoFalseAlarm'
        BY <1>2, <1>3, <1>4, <2>5 DEF NoFalseAlarm, Rounds
    <2>7. asked.shape = "product" => OperandsFit /\ asked.d \in 1..ExcessLimit
        BY DEF RoundInv
    <2> QED
        BY <1>0, <1>2, <1>3, <2>1, <2>2, <2>3, <2>4, <2>6, <2>7 DEF RoundInv
<1>8. ASSUME Measure PROVE RoundInv'
    <2>1. /\ stage = "measure" /\ stage' = "adjust" /\ GeneratedMode
          /\ dividend' = dividend /\ divisor' = divisor /\ value' = value
          /\ overflow' = overflow
          /\ excess' = Discarded /\ stepping' = StepSign(excess', divisor)
        BY <1>8 DEF Measure, RoundInv
    <2>2. OperandsFit => dividend = asked.n /\ divisor = asked.d
        BY <2>1 DEF RoundInv
    <2>3. ASSUME overflow = "no"
          PROVE  excess' = dividend - value * divisor
        <3>1. CASE asked.shape = "quotient"
            BY <2>1, <2>3, <3>1 DEF RoundInv, Discarded
        <3>2. CASE asked.shape = "product"
            <4>1. divisor \in 1..ExcessLimit /\ dividend \in Int
                BY <1>1, <2>2, <3>2 DEF RoundInv
            <4>2. value = Quotient(dividend, divisor)
                BY <2>1, <2>3 DEF RoundInv
            <4>3. /\ dividend - value * divisor \in Int
                  /\ Towards(dividend - value * divisor, dividend, divisor)
                BY <4>1, <4>2, QuotientTowards
            <4>4. Abs(dividend - value * divisor) < ExcessLimit
                BY <1>1, <4>1, <4>3 DEF Towards, Below, Above, Abs
            <4> QED
                BY <1>1, <2>1, <3>2, <4>3, <4>4, HeldFits DEF Discarded
        <3> QED
            BY <1>1, <3>1, <3>2
    <2>4. overflow = "no" => divisor # 0 /\ value = Quotient(dividend, divisor)
        BY <2>1 DEF RoundInv
    <2>5. NoFalseAlarm'
        BY <1>2, <1>3, <1>4, <2>1 DEF RoundInv, NoFalseAlarm, Rounds
    <2>6. asked.shape = "product" => OperandsFit /\ asked.d \in 1..ExcessLimit
        BY DEF RoundInv
    <2> QED
        BY <1>0, <1>2, <1>3, <2>1, <2>2, <2>3, <2>4, <2>5, <2>6 DEF RoundInv
<1>9. ASSUME Adjust PROVE RoundInv'
    <2>1. /\ stage = "adjust" /\ stage' = "store" /\ GeneratedMode
          /\ dividend' = dividend /\ divisor' = divisor /\ overflow' = overflow
        BY <1>9 DEF Adjust, RoundInv
    <2>2. OperandsFit => dividend = asked.n /\ divisor = asked.d
        BY <2>1 DEF RoundInv
    <2>3. ASSUME overflow = "no", OperandsFit
          PROVE  \/ asked.d # 0 /\ Rounds(value')
                 \/ Abs(Quotient(asked.n, asked.d)) = RoundingLimit - 1 /\ value' = 0
        <3> DEFINE v == Quotient(asked.n, asked.d)
                   e == asked.n - v * asked.d
                   s == StepSign(e, asked.d)
                   t == IF TakesStep(asked.mode, v, e, asked.d, s) THEN v + s ELSE v
        <3>1. /\ asked.d # 0 /\ value = v /\ excess = e /\ stepping = s
            BY <2>1, <2>2, <2>3 DEF RoundInv
        <3>2. v \in Int /\ e \in Int /\ Towards(e, asked.n, asked.d)
            BY <1>1, <3>1, QuotientTowards
        <3>3. Rounds(t)
            BY <1>1, <2>1, <3>1, <3>2, StepRounds DEF Rounds, GeneratedMode
        <3>4. Abs(v) < RoundingLimit
            BY <1>0, <1>1, <3>1 DEF RoundTypeOK, Holdable, Abs
        <3>5. s \in {-1, 1} /\ v + s \in Int
            BY <3>2 DEF StepSign
        <3>6. value' = IF TakesStep(asked.mode, v, e, asked.d, s)
                       THEN Held(v + s, RoundingLimit) ELSE v
            BY <1>9, <2>2, <2>3, <3>1 DEF Adjust
        <3> HIDE DEF v, e, s
        <3>7. CASE Abs(v + s) < RoundingLimit
            BY <1>1, <3>1, <3>3, <3>5, <3>6, <3>7, HeldFits
        <3>8. CASE ~ Abs(v + s) < RoundingLimit
            <4>1. Abs(v) = RoundingLimit - 1 /\ Abs(v + s) = RoundingLimit
                BY <1>1, <3>2, <3>4, <3>5, <3>8 DEF Abs
            <4>2. Held(v + s, RoundingLimit) = 0
                BY <1>1, <3>5, <4>1, HeldFits
            <4> QED
                BY <3>1, <3>3, <3>6, <4>1, <4>2 DEF v
        <3> QED
            BY <3>7, <3>8
    <2>4. overflow' = "no" => WellRounded(value')
        BY <2>1, <2>3 DEF WellRounded
    <2>5. NoFalseAlarm'
        BY <1>2, <1>3, <1>4, <2>1 DEF RoundInv, NoFalseAlarm, Rounds
    <2>6. asked.shape = "product" => OperandsFit /\ asked.d \in 1..ExcessLimit
        BY DEF RoundInv
    <2> QED
        BY <1>0, <1>2, <1>3, <1>4, <2>1, <2>2, <2>4, <2>5, <2>6 DEF RoundInv, WellRounded, Rounds
<1>10. ASSUME Store PROVE RoundInv'
    <2>1. /\ stage = "store" /\ stage' = "done" /\ target' = value /\ overflow' = overflow
        BY <1>10 DEF Store
    <2>2. overflow' = "no" => WellRounded(target')
        BY <2>1 DEF RoundInv
    <2>3. NoFalseAlarm'
        BY <1>2, <1>3, <1>4, <2>1 DEF RoundInv, NoFalseAlarm, Rounds
    <2>4. asked.shape = "product" => OperandsFit /\ asked.d \in 1..ExcessLimit
        BY DEF RoundInv
    <2> QED
        BY <1>0, <1>2, <1>3, <1>4, <2>1, <2>2, <2>3, <2>4 DEF RoundInv, WellRounded, Rounds
<1>11. UNCHANGED roundVars => RoundInv'
    BY <1>0, <1>3, <1>4 DEF RoundInv, roundVars, NoFalseAlarm
<1> QED
    BY <1>5, <1>6, <1>7, <1>8, <1>9, <1>10, <1>11 DEF RoundNext

LEMMA RoundInvariant == RoundSpec => []RoundInv
<1>1. RoundInit => RoundInv
    BY RoundInitInv
<1>2. RoundInv /\ [RoundNext]_roundVars => RoundInv'
    BY RoundInvNext
<1> QED
    BY <1>1, <1>2, PTL DEF RoundSpec

(* The work fields and the receiver keep to their pictures, whatever they  *)
(* held and whatever overflowed (roundingFieldDeclarations).               *)
THEOREM RoundedTypeOK == RoundSpec => []RoundTypeOK
<1>1. RoundInv => RoundTypeOK
    BY DEF RoundInv
<1> QED
    BY <1>1, RoundInvariant, PTL

(* The seven modes, for every pair of operands, precision and scale: what  *)
(* is stored without a reported overflow is the rounding the mode names,   *)
(* or zero where the step carried out of the field (emitRounded).          *)
THEOREM RoundedOnlyTheLastStepWraps == RoundSpec => []OnlyTheLastStepWraps
<1>1. RoundInv => OnlyTheLastStepWraps
    BY DEF RoundInv, WellRounded, OnlyTheLastStepWraps
<1> QED
    BY <1>1, RoundInvariant, PTL

(* And no step fails for an overflow that a rounding would have avoided    *)
(* (emitCompute).                                                          *)
THEOREM RoundedNoFalseAlarm == RoundSpec => []NoFalseAlarm
<1>1. RoundInv => NoFalseAlarm
    BY DEF RoundInv
<1> QED
    BY <1>1, RoundInvariant, PTL

-----------------------------------------------------------------------------
(* Trees.                                                                  *)
LEMMA LevelsExist ==
    \A n \in 0..CallHeight : UpTo[n] = IF n = 0 THEN {} ELSE Higher(UpTo[n - 1])
<1> DEFINE Of(g, m) == g = [n \in 0..m |-> IF n = 0 THEN {} ELSE Higher(g[n - 1])]
           I == {m \in Nat : \E g : Of(g, m)}
<1>1. 0 \in I
  <2>1. Of([n \in 0..0 |-> {}], 0)
      OBVIOUS
  <2> QED
      BY <2>1
<1>2. ASSUME NEW m \in I PROVE m + 1 \in I
  <2>1. PICK g : Of(g, m)
      OBVIOUS
  <2> DEFINE h == [n \in 0..m + 1 |-> IF n = m + 1 THEN Higher(g[m]) ELSE g[n]]
  <2>2. \A n \in 0..m + 1 : h[n] = IF n = 0 THEN {} ELSE Higher(h[n - 1])
    <3> TAKE n \in 0..m + 1
    <3>1. CASE n = m + 1
        BY <3>1
    <3>2. CASE n # m + 1
      <4>1. n \in 0..m /\ (n # 0 => n - 1 \in 0..m + 1 /\ n - 1 # m + 1)
          BY <3>2
      <4>2. g[n] = IF n = 0 THEN {} ELSE Higher(g[n - 1])
          BY <2>1, <4>1
      <4> QED
          BY <3>2, <4>1, <4>2
    <3> QED
        BY <3>1, <3>2
  <2>3. Of(h, m + 1)
      BY <2>2
  <2>4. \E f : Of(f, m + 1)
    <3> HIDE DEF h
    <3> QED
        BY Zenon, <2>3
  <2>5. m + 1 \in Nat
      OBVIOUS
  <2> QED
      BY <2>4, <2>5
<1>3. CallHeight \in I
    BY <1>1, <1>2, InductionOfSets, CallAssumption
<1>4. \E g : g = [n \in 0..CallHeight |-> IF n = 0 THEN {} ELSE Higher(g[n - 1])]
    BY <1>3
<1>5. UpTo = [n \in 0..CallHeight |-> IF n = 0 THEN {} ELSE Higher(UpTo[n - 1])]
    BY Zenon, <1>4 DEF UpTo
<1> QED
    BY <1>5

(* What can be made of some trees can be made of more of them.             *)
LEMMA HigherGrows ==
    ASSUME NEW S, NEW T, S \subseteq T
    PROVE  Higher(S) \subseteq Higher(T)
<1>1. Seq(S) \subseteq Seq(T)
    OBVIOUS
<1>2. Nodes(S) \subseteq Nodes(T)
    BY <1>1 DEF Nodes
<1> QED
    BY <1>2 DEF Higher

(* A tree of some height is among those of any greater height.             *)
LEMMA LevelsGrow ==
    ASSUME NEW n \in 0..CallHeight, NEW m \in 0..n
    PROVE  UpTo[m] \subseteq UpTo[n]
<1> DEFINE I == {k \in Nat : k + 1 <= CallHeight => UpTo[k] \subseteq UpTo[k + 1]}
<1> USE CallAssumption
<1>1. 0 \in I
  <2> SUFFICES ASSUME 1 <= CallHeight PROVE UpTo[0] \subseteq UpTo[1]
      OBVIOUS
  <2> QED
      BY LevelsExist
<1>2. ASSUME NEW k \in I PROVE k + 1 \in I
  <2> SUFFICES ASSUME k + 2 <= CallHeight PROVE UpTo[k + 1] \subseteq UpTo[k + 2]
      OBVIOUS
  <2>1. k + 1 \in 0..CallHeight /\ k + 1 # 0 /\ (k + 1) - 1 = k
      OBVIOUS
  <2>2. k + 2 \in 0..CallHeight /\ k + 2 # 0 /\ (k + 2) - 1 = k + 1
      OBVIOUS
  <2>3. UpTo[k + 1] = Higher(UpTo[k])
      BY <2>1, LevelsExist
  <2>4. UpTo[k + 2] = Higher(UpTo[k + 1])
      BY <2>2, LevelsExist
  <2>5. UpTo[k] \subseteq UpTo[k + 1]
      BY <2>1
  <2> QED
      BY <2>3, <2>4, <2>5, HigherGrows
<1>3. I = Nat
    BY <1>1, <1>2, InductionOfSets
<1> DEFINE J == {j \in Nat : m + j <= CallHeight => UpTo[m] \subseteq UpTo[m + j]}
<1>4. 0 \in J
    OBVIOUS
<1>5. ASSUME NEW j \in J PROVE j + 1 \in J
  <2>1. m + j \in I
      BY <1>3
  <2>2. m + (j + 1) = (m + j) + 1
      OBVIOUS
  <2> QED
      BY <2>1, <2>2
<1>6. J = Nat
  <2> HIDE DEF J
  <2>1. J \in SUBSET Nat
      BY DEF J
  <2> QED
      BY <1>4, <1>5, <2>1, InductionOfSets
<1>7. n - m \in Nat /\ m + (n - m) = n /\ n <= CallHeight
    OBVIOUS
<1>8. n - m \in J
    BY <1>6, <1>7
<1> QED
    BY <1>7, <1>8

(* How high a tree is, and what it is made of: lower trees.                *)
Height == [e \in Expressions |->
    CHOOSE n \in 0..CallHeight :
        e \in UpTo[n] /\ \A m \in 0..CallHeight : e \in UpTo[m] => n <= m]

Lower(e) == {o \in Expressions : Height[o] < Height[e]}

(* Every expression has a least height, and it is among the trees of it.   *)
LEMMA Heights ==
    /\ Height \in [Expressions -> Nat]
    /\ \A e \in Expressions :
          /\ Height[e] \in 0..CallHeight
          /\ e \in UpTo[Height[e]]
          /\ \A m \in 0..CallHeight : e \in UpTo[m] => Height[e] <= m
<1>1. ASSUME NEW e \in Expressions
      PROVE  \E n \in 0..CallHeight :
                 e \in UpTo[n] /\ \A m \in 0..CallHeight : e \in UpTo[m] => n <= m
  <2> DEFINE I == {n \in 0..CallHeight : e \in UpTo[n]}
  <2>1. CallHeight \in I /\ I \in SUBSET Nat
      BY CallAssumption DEF Expressions
  <2>2. \E n \in I : \A m \in I : n <= m
    <3> HIDE DEF I
    <3> QED
        BY <2>1, LeastNatural
  <2> QED
      BY <2>2
<1>2. ASSUME NEW e \in Expressions
      PROVE  /\ Height[e] \in 0..CallHeight
             /\ e \in UpTo[Height[e]]
             /\ \A m \in 0..CallHeight : e \in UpTo[m] => Height[e] <= m
    BY <1>1 DEF Height
<1>3. Height = [e \in Expressions |-> Height[e]]
    BY DEF Height
<1> QED
    BY <1>2, <1>3, CallAssumption

(* An expression is well formed, and its arguments and the body of the     *)
(* function it calls are lower trees.                                      *)
LEMMA Parts ==
    ASSUME NEW e \in Expressions
    PROVE  /\ e \in Nodes(Expressions)
           /\ Formed(e)
           /\ \A i \in 1..Len(e.args) : e.args[i] \in Lower(e)
           /\ e.op = "call" => e.f \in Functions /\ Returns[e.f] \in Lower(e)
<1> DEFINE n == Height[e]
<1> USE CallAssumption
<1>1. n \in 0..CallHeight /\ e \in UpTo[n]
    BY Heights
<1>2. n # 0
  <2>1. UpTo[0] = {}
      BY LevelsExist
  <2> QED
      BY <1>1, <2>1
<1> DEFINE S == UpTo[n - 1]
<1>3. UpTo[n] = Higher(S)
    BY <1>1, <1>2, LevelsExist
<1>4. n - 1 \in 0..CallHeight /\ n - 1 < n
    BY <1>1, <1>2
<1>5. S \subseteq Expressions
  <2>1. CallHeight \in 0..CallHeight /\ n - 1 \in 0..CallHeight
      BY <1>4
  <2> HIDE DEF n
  <2> QED
      BY <2>1, LevelsGrow DEF Expressions
<1>6. S \subseteq Lower(e)
  <2> SUFFICES ASSUME NEW o \in S PROVE Height[o] < Height[e]
      BY <1>5 DEF Lower
  <2>1. o \in Expressions /\ o \in UpTo[n - 1]
      BY <1>5
  <2>2. Height[o] <= n - 1 /\ Height[o] \in 0..CallHeight
    <3> HIDE DEF n
    <3> QED
        BY <1>4, <2>1, Heights
  <2> QED
      BY <1>1, <1>4, <2>2
<1>7. e \in Nodes(S) /\ Formed(e) /\ (e.op = "call" => Returns[e.f] \in S)
  <2> HIDE DEF S
  <2> QED
      BY <1>1, <1>3 DEF Higher
<1> HIDE DEF S
<1>8. e.args \in Seq(S) /\ Seq(S) \subseteq Seq(Expressions)
    BY <1>5, <1>7 DEF Nodes
<1>9. e \in Nodes(Expressions)
    BY <1>7, <1>8 DEF Nodes
<1>10. \A i \in 1..Len(e.args) : e.args[i] \in S
    BY <1>8
<1> QED
    BY <1>6, <1>7, <1>9, <1>10 DEF Formed

(* A walk of trees that looks at an expression's parts only.               *)
Walks(Phi, V) ==
    /\ Phi \in [[Expressions -> V] -> [Expressions -> V]]
    /\ \A e \in Expressions : \A f, g \in [Expressions -> V] :
          (\A o \in Lower(e) : f[o] = g[o]) => Phi[f][e] = Phi[g][e]

(* Such a walk has a value everywhere.                                     *)
LEMMA WalksExist ==
    ASSUME NEW V, NEW a \in V, NEW Phi, Walks(Phi, V)
    PROVE  \E f \in [Expressions -> V] : f = Phi[f]
<1>1. Height \in [Expressions -> 0..CallHeight] /\ CallHeight \in Nat
    BY Heights, CallAssumption
<1>2. LooksBelow(Phi, Expressions, V, Height)
    BY DEF Walks, Lower, LooksBelow
<1> QED
    BY <1>1, <1>2, RecursionExists

(* Two walks that agree on an expression when they agree on all that is    *)
(* lower agree on every expression.                                        *)
LEMMA WalksAgree ==
    ASSUME NEW f, NEW g,
           \A e \in Expressions :
               (\A o \in Lower(e) : f[o] = g[o]) => f[e] = g[e]
    PROVE  \A e \in Expressions : f[e] = g[e]
<1> DEFINE I == {Height[e] : e \in {b \in Expressions : f[b] # g[b]}}
<1>1. SUFFICES ASSUME I # {} PROVE FALSE
    OBVIOUS
<1>2. I \in SUBSET Nat
    BY Heights
<1>3. PICK n \in I : \A m \in I : n <= m
  <2> HIDE DEF I
  <2> QED
      BY <1>1, <1>2, LeastNatural
<1>4. PICK e \in Expressions : f[e] # g[e] /\ Height[e] = n
    BY <1>3
<1>5. \A o \in Lower(e) : f[o] = g[o]
  <2> SUFFICES ASSUME NEW o \in Expressions, Height[o] < n, f[o] # g[o]
               PROVE  FALSE
      BY <1>4 DEF Lower
  <2>1. Height[o] \in I
      OBVIOUS
  <2>2. n <= Height[o]
      BY <1>3, <2>1
  <2>3. n \in Nat /\ Height[o] \in Nat
      BY <1>2, <1>3, <2>1
  <2> QED
      BY <2>2, <2>3
<1> QED
    BY <1>4, <1>5

(* What holds of a tree when it holds of lower ones holds of all.          *)
LEMMA TreeInduction ==
    ASSUME NEW S, \A e \in Expressions : Lower(e) \subseteq S => e \in S
    PROVE  Expressions \subseteq S
<1> DEFINE f == [e \in Expressions |-> e \in S]
           g == [e \in Expressions |-> TRUE]
<1>1. ASSUME NEW e \in Expressions, \A o \in Lower(e) : f[o] = g[o]
      PROVE  f[e] = g[e]
    BY <1>1 DEF Lower
<1> HIDE DEF f, g
<1>2. \A e \in Expressions : f[e] = g[e]
    BY <1>1, WalksAgree
<1> QED
    BY <1>2 DEF f, g

-----------------------------------------------------------------------------
(* What each of the walks says of an expression.                           *)
LEMMA Shapes ==
    ASSUME NEW e \in Expressions
    PROVE  /\ e.op \in Operators /\ e.n \in Int /\ e.args \in Seq(Expressions) /\ Len(e.args) \in Nat
           /\ e.op = "param" => e.n \in Positions
           /\ e.op = "call" => e.f \in Functions /\ Returns[e.f] \in Lower(e) /\ Len(e.args) = Takes[e.f]
           /\ e.op \in {"literal", "param"} => e.args = << >>
           /\ e.op = "binary" => Len(e.args) = 2 /\ e.args[1] \in Lower(e) /\ e.args[2] \in Lower(e)
           /\ e.op = "text" => Len(e.args) = 1 /\ e.args[1] \in Lower(e)
           /\ \A i \in 1..Len(e.args) : e.args[i] \in Lower(e)
<1>1. /\ e \in Nodes(Expressions) /\ Formed(e)
      /\ \A i \in 1..Len(e.args) : e.args[i] \in Lower(e)
      /\ e.op = "call" => e.f \in Functions /\ Returns[e.f] \in Lower(e)
    BY Parts
<1>2. e.args \in Seq(Expressions) /\ Len(e.args) \in Nat
    BY <1>1 DEF Nodes
<1> QED
    BY <1>1, <1>2 DEF Nodes, Formed

(* A node over numbers is a number.                                        *)
LEMMA ValuesAreNumbers ==
    ASSUME NEW e \in Expressions, NEW own \in Given, NEW answer, NEW f,
           e.op = "call" => answer \in Int,
           \A i \in 1..Len(e.args) : f[i] \in Int
    PROVE  Valued(e, own, answer, LAMBDA i : f[i]) \in Int
<1>1. \A l, r \in Int : Operated(l, r) \in Int /\ Builtin(l) \in Int
    BY DEF Operated, Builtin
<1>2. e.op = "param" => own[e.n] \in Int
    BY Shapes DEF Given
<1>3. /\ e.op = "binary" => f[1] \in Int /\ f[2] \in Int
      /\ e.op = "text" => f[1] \in Int
    BY Shapes
<1> QED
    BY <1>1, <1>2, <1>3, Shapes DEF Valued, Operators

(* Rendered is defined everywhere, by its own equation, and is a number.   *)
LEMMA Renders ==
    /\ Rendered \in [Expressions -> [Given -> [[Functions -> Int] -> Int]]]
    /\ \A e \in Expressions : \A own \in Given, answers \in [Functions -> Int] :
          Rendered[e][own][answers] =
              Valued(e, own, answers[e.f], LAMBDA i : Rendered[e.args[i]][own][answers])
<1> DEFINE V == [Given -> [[Functions -> Int] -> Int]]
           Of(f, e, own, answers) == Valued(e, own, answers[e.f], LAMBDA i : f[e.args[i]][own][answers])
           Whole(f, e) == [own \in Given |-> [answers \in [Functions -> Int] |-> Of(f, e, own, answers)]]
           Phi == [f \in [Expressions -> V] |-> [e \in Expressions |-> Whole(f, e)]]
<1>1. ASSUME NEW e \in Expressions, NEW f \in [Expressions -> V]
      PROVE  Whole(f, e) \in V
  <2> SUFFICES ASSUME NEW own \in Given, NEW answers \in [Functions -> Int]
               PROVE  Of(f, e, own, answers) \in Int
      OBVIOUS
  <2>1. \A l, r \in Int : Operated(l, r) \in Int /\ Builtin(l) \in Int
      BY DEF Operated, Builtin
  <2>2. \A o \in Lower(e) : f[o][own][answers] \in Int
      BY DEF Lower
  <2>3. /\ e.op = "param" => own[e.n] \in Int
        /\ e.op = "call" => answers[e.f] \in Int
      BY Shapes DEF Given
  <2>4. /\ e.op = "binary" => f[e.args[1]][own][answers] \in Int /\ f[e.args[2]][own][answers] \in Int
        /\ e.op = "text" => f[e.args[1]][own][answers] \in Int
      BY <2>2, Shapes
  <2> QED
      BY <2>1, <2>3, <2>4, Shapes DEF Valued, Operators
<1>2. ASSUME NEW e \in Expressions, NEW f, NEW g, \A o \in Lower(e) : f[o] = g[o]
      PROVE  Whole(f, e) = Whole(g, e)
  <2>1. \A own, answers : Of(f, e, own, answers) = Of(g, e, own, answers)
      BY <1>2, Shapes DEF Valued, Operators
  <2> HIDE DEF Of
  <2> QED
      BY <2>1
<1> HIDE DEF Whole
<1>3. PICK r \in [Expressions -> V] : r = Phi[r]
  <2>1. Phi \in [[Expressions -> V] -> [Expressions -> V]]
      BY <1>1
  <2>2. \A e \in Expressions : \A f, g \in [Expressions -> V] :
            (\A o \in Lower(e) : f[o] = g[o]) => Phi[f][e] = Phi[g][e]
      BY <1>2
  <2>3. [own \in Given |-> [answers \in [Functions -> Int] |-> 0]] \in V
      OBVIOUS
  <2> HIDE DEF Phi, V
  <2>4. Walks(Phi, V)
      BY <2>1, <2>2 DEF Walks
  <2> QED
      BY <2>3, <2>4, WalksExist
<1>4. r = [e \in Expressions |-> Whole(r, e)]
    BY <1>3
<1>5. Rendered = [e \in Expressions |-> Whole(Rendered, e)]
    BY Zenon, <1>4 DEF Rendered, Whole
<1>6. \A e \in Expressions : Rendered[e] = Whole(Rendered, e) /\ r[e] = Whole(r, e)
    BY <1>4, <1>5
<1> HIDE DEF V
<1>7. \A e \in Expressions : Rendered[e] = r[e]
    BY <1>2, <1>6, WalksAgree
<1>8. Rendered \in [Expressions -> V]
    BY <1>5, <1>7
<1>9. ASSUME NEW e \in Expressions, NEW own \in Given, NEW answers \in [Functions -> Int]
      PROVE  Rendered[e][own][answers] = Of(Rendered, e, own, answers)
  <2>1. Rendered[e] = [o \in Given |-> [a \in [Functions -> Int] |-> Of(Rendered, e, o, a)]]
      BY Zenon, <1>6 DEF Whole
  <2> HIDE DEF Of
  <2> QED
      BY <2>1
<1> QED
    BY <1>8, <1>9 DEF V

(* The parts of a sequence of sequences, laid end to end.                  *)
LEMMA EndToEndAtLast ==
    ASSUME NEW S, NEW parts \in Seq(Seq(S))
    PROVE  \E upto \in [0..Len(parts) -> Seq(S)] :
              /\ upto[0] = << >>
              /\ \A i \in 1..Len(parts) : upto[i] = upto[i - 1] \o parts[i]
              /\ FlattenSeq(parts) = upto[Len(parts)]
<1> DEFINE n == Len(parts)
           T == Seq(S)
           G == [i \in 1..n |-> [s \in T |-> s \o parts[i]]]
<1>1. n \in Nat /\ << >> \in T /\ \A i \in 1..n : parts[i] \in T
    BY ElementOfSeq
<1>2. G \in [1..n -> [T -> T]]
  <2>1. \A s, t \in T : s \o t \in T
      BY ConcatProperties
  <2> HIDE DEF n, T
  <2>2. ASSUME NEW i \in 1..n PROVE [s \in T |-> s \o parts[i]] \in [T -> T]
      BY Zenon, <1>1, <2>1
  <2> QED
      BY Zenon, <2>2
<1>3. PICK f \in [0..n -> T] : IsChain(f, << >>, G, n)
  <2> HIDE DEF n, T, G
  <2> QED
      BY Zenon, <1>1, <1>2, ChainsExist
<1>4. \A i \in 0..n : f[i] = IF i = 0 THEN << >> ELSE f[i - 1] \o parts[i]
  <2> HIDE DEF n, T
  <2> TAKE i \in 0..n
  <2>1. f[i] = IF i = 0 THEN << >> ELSE G[i][f[i - 1]]
    <3> HIDE DEF G
    <3> QED
        BY <1>3 DEF IsChain
  <2>2. i # 0 => i \in 1..n /\ f[i - 1] \in T
      BY <1>1
  <2>3. i # 0 => G[i][f[i - 1]] = f[i - 1] \o parts[i]
      BY <2>2, Zenon
  <2> QED
      BY <2>1, <2>3, Zenon
<1>5. f[0] = << >> /\ \A i \in 1..n : f[i] = f[i - 1] \o parts[i]
  <2> HIDE DEF n, T
  <2>1. f[0] = << >>
    <3>1. 0 \in 0..n
        BY <1>1
    <3> QED
        BY <1>4, <3>1, Zenon
  <2>2. ASSUME NEW i \in 1..n PROVE f[i] = f[i - 1] \o parts[i]
    <3>1. i \in 0..n /\ i # 0
        BY <1>1
    <3> QED
        BY <1>4, <3>1, Zenon
  <2> QED
      BY <2>1, <2>2
<1>6. FlattenSeq(parts) = f[n]
  <2>1. CASE n = 0
    <3>1. parts = << >>
        BY <2>1
    <3> QED
        BY <1>5, <2>1, <3>1 DEF FlattenSeq
  <2>2. CASE n # 0
    <3> DEFINE Flat(g) == g = [i \in 1..n |-> IF i = 1 THEN parts[i] ELSE g[i - 1] \o parts[i]]
               g0 == [i \in 1..n |-> f[i]]
               flat == CHOOSE g : Flat(g)
    <3>1. \A i \in 1..n : g0[i] = IF i = 1 THEN parts[i] ELSE g0[i - 1] \o parts[i]
      <4> TAKE i \in 1..n
      <4>1. f[i] = f[i - 1] \o parts[i]
          BY <1>5
      <4>2. i = 1 => f[i - 1] = << >> /\ << >> \o parts[i] = parts[i]
          BY <1>1, <1>5, ConcatEmptySeq
      <4>3. i # 1 => i - 1 \in 1..n
          BY <1>1
      <4> QED
          BY <4>1, <4>2, <4>3
    <3>2. Flat(g0)
        BY <3>1
    <3>3. Flat(flat)
      <4> HIDE DEF Flat, g0
      <4> QED
          BY <3>2
    <3>4. \A i \in 1..n : flat[i] = IF i = 1 THEN parts[i] ELSE flat[i - 1] \o parts[i]
      <4> HIDE DEF flat
      <4> QED
          BY <3>3
    <3> HIDE DEF flat
    <3> DEFINE I == {i \in Nat : i + 1 <= n => flat[i + 1] = g0[i + 1]}
    <3>5. 0 \in I
        BY <1>1, <3>1, <3>4
    <3>6. ASSUME NEW i \in I PROVE i + 1 \in I
      <4> SUFFICES ASSUME i + 2 <= n PROVE flat[i + 2] = g0[i + 2]
          OBVIOUS
      <4>1. i + 2 \in 1..n /\ i + 2 # 1 /\ (i + 2) - 1 = i + 1 /\ flat[i + 1] = g0[i + 1]
          BY <1>1
      <4> HIDE DEF g0
      <4> QED
          BY <3>1, <3>4, <4>1
    <3>7. I = Nat
        BY <3>5, <3>6, InductionOfSets
    <3>8. n - 1 \in Nat /\ (n - 1) + 1 = n
        BY <1>1, <2>2
    <3>9. flat[n] = f[n]
      <4>1. n - 1 \in I
        <5> HIDE DEF I
        <5> QED
            BY <3>7, <3>8
      <4> HIDE DEF n
      <4>2. flat[n] = g0[n]
          BY <1>1, <3>8, <4>1
      <4> QED
          BY <1>1, <2>2, <4>2
    <3>10. FlattenSeq(parts) = flat[n]
        BY <2>2, Zenon DEF FlattenSeq, flat
    <3> QED
        BY <3>9, <3>10
  <2> QED
      BY <2>1, <2>2
<1> QED
    BY <1>3, <1>5, <1>6

(* The arguments of a call, in its parameter fields.                       *)
Passed(m, e, given) == [i \in Positions |-> IF i <= Len(e.args) THEN m[e.args[i]][given] ELSE 0]

(* So is Meaning: a call means what the body means, in the values of the   *)
(* arguments.                                                              *)
LEMMA Means ==
    /\ Meaning \in [Expressions -> [Given -> Int]]
    /\ \A e \in Expressions : \A given \in Given :
          Meaning[e][given] =
              Valued(e, given, Meaning[Returns[e.f]][Passed(Meaning, e, given)],
                     LAMBDA i : Meaning[e.args[i]][given])
<1> DEFINE V == [Given -> Int]
           Of(f, e, given) ==
               Valued(e, given, f[Returns[e.f]][Passed(f, e, given)], LAMBDA i : f[e.args[i]][given])
           Whole(f, e) == [given \in Given |-> Of(f, e, given)]
           Phi == [f \in [Expressions -> V] |-> [e \in Expressions |-> Whole(f, e)]]
<1>1. ASSUME NEW e \in Expressions, NEW f \in [Expressions -> V]
      PROVE  Whole(f, e) \in V
  <2> SUFFICES ASSUME NEW given \in Given
               PROVE  Of(f, e, given) \in Int
      OBVIOUS
  <2>1. \A l, r \in Int : Operated(l, r) \in Int /\ Builtin(l) \in Int
      BY DEF Operated, Builtin
  <2>2. \A o \in Lower(e) : \A g \in Given : f[o][g] \in Int
      BY DEF Lower
  <2>3. /\ e.op = "param" => given[e.n] \in Int
        /\ e.op = "literal" => e.n \in Int
      BY Shapes DEF Given
  <2>4. Passed(f, e, given) \in Given
    <3>1. Len(e.args) \in Nat /\ \A i \in 1..Len(e.args) : f[e.args[i]][given] \in Int
        BY <2>2, Shapes
    <3>2. \A i \in Positions : i \in Nat /\ 1 <= i
      <4>1. \A t \in Functions : Takes[t] \in Nat
          BY CallAssumption
      <4> QED
          BY <4>1 DEF Positions
    <3>3. \A i \in Positions : (IF i <= Len(e.args) THEN f[e.args[i]][given] ELSE 0) \in Int
        BY <3>1, <3>2
    <3> QED
        BY <3>3 DEF Passed, Given
  <2>5. e.op = "call" => f[Returns[e.f]][Passed(f, e, given)] \in Int
      BY <2>2, <2>4, Shapes
  <2>6. /\ e.op = "binary" => f[e.args[1]][given] \in Int /\ f[e.args[2]][given] \in Int
        /\ e.op = "text" => f[e.args[1]][given] \in Int
      BY <2>2, Shapes
  <2>7. e.op \in Operators
      BY Shapes
  <2> QED
      BY <2>1, <2>3, <2>5, <2>6, <2>7 DEF Valued, Operators
<1>2. ASSUME NEW e \in Expressions, NEW f, NEW g, \A o \in Lower(e) : f[o] = g[o]
      PROVE  Whole(f, e) = Whole(g, e)
  <2> SUFFICES ASSUME NEW given \in Given PROVE Of(f, e, given) = Of(g, e, given)
      OBVIOUS
  <2>1. \A i \in 1..Len(e.args) : f[e.args[i]] = g[e.args[i]]
      BY <1>2, Shapes
  <2>2. Passed(f, e, given) = Passed(g, e, given)
    <3>1. Len(e.args) \in Nat /\ \A i \in Positions : i \in Nat /\ 1 <= i
      <4>1. \A t \in Functions : Takes[t] \in Nat
          BY CallAssumption
      <4> QED
          BY <4>1, Shapes DEF Positions
    <3> QED
        BY <2>1, <3>1 DEF Passed
  <2>3. e.op = "call" => f[Returns[e.f]] = g[Returns[e.f]]
      BY <1>2, Shapes
  <2>4. /\ e.op = "binary" => f[e.args[1]] = g[e.args[1]] /\ f[e.args[2]] = g[e.args[2]]
        /\ e.op = "text" => f[e.args[1]] = g[e.args[1]]
        /\ e.op \in Operators
      BY <1>2, Shapes
  <2> QED
      BY <2>2, <2>3, <2>4 DEF Valued, Operators
<1> HIDE DEF Whole
<1>3. PICK r \in [Expressions -> V] : r = Phi[r]
  <2>1. Phi \in [[Expressions -> V] -> [Expressions -> V]]
      BY <1>1
  <2>2. \A e \in Expressions : \A f, g \in [Expressions -> V] :
            (\A o \in Lower(e) : f[o] = g[o]) => Phi[f][e] = Phi[g][e]
      BY <1>2
  <2>3. [given \in Given |-> 0] \in V
      OBVIOUS
  <2> HIDE DEF Phi, V
  <2>4. Walks(Phi, V)
      BY <2>1, <2>2 DEF Walks
  <2> QED
      BY <2>3, <2>4, WalksExist
<1>4. r = [e \in Expressions |-> Whole(r, e)]
    BY <1>3
<1>5. Meaning = [e \in Expressions |-> Whole(Meaning, e)]
    BY Zenon, <1>4 DEF Meaning, Whole, Passed
<1>6. \A e \in Expressions : Meaning[e] = Whole(Meaning, e) /\ r[e] = Whole(r, e)
    BY <1>4, <1>5
<1> HIDE DEF V
<1>7. \A e \in Expressions : Meaning[e] = r[e]
    BY <1>2, <1>6, WalksAgree
<1>8. Meaning \in [Expressions -> V]
    BY <1>5, <1>7
<1>9. ASSUME NEW e \in Expressions, NEW given \in Given
      PROVE  Meaning[e][given] = Of(Meaning, e, given)
  <2>1. Meaning[e] = [g \in Given |-> Of(Meaning, e, g)]
      BY Zenon, <1>6 DEF Whole
  <2> HIDE DEF Of
  <2> QED
      BY <2>1
<1> QED
    BY <1>8, <1>9 DEF V

(* The walks over what an expression runs and reads.                       *)
LEMMA ReadsAre ==
    /\ Reads \in [Expressions -> SUBSET Functions]
    /\ \A e \in Expressions :
          Reads[e] = IF e.op = "call" THEN {e.f} ELSE UNION {Reads[e.args[i]] : i \in 1..Len(e.args)}
<1> DEFINE V == SUBSET Functions
           Whole(f, e) == IF e.op = "call" THEN {e.f} ELSE UNION {f[e.args[i]] : i \in 1..Len(e.args)}
           Phi == [f \in [Expressions -> V] |-> [e \in Expressions |-> Whole(f, e)]]
<1>1. ASSUME NEW e \in Expressions, NEW f \in [Expressions -> V]
      PROVE  Whole(f, e) \in V
  <2>1. \A i \in 1..Len(e.args) : f[e.args[i]] \in SUBSET Functions
      BY Shapes DEF Lower
  <2>2. e.op = "call" => e.f \in Functions
      BY Shapes
  <2> QED
      BY <2>1, <2>2
<1>2. ASSUME NEW e \in Expressions, NEW f, NEW g, \A o \in Lower(e) : f[o] = g[o]
      PROVE  Whole(f, e) = Whole(g, e)
  <2>1. \A i \in 1..Len(e.args) : f[e.args[i]] = g[e.args[i]]
      BY <1>2, Shapes
  <2> QED
      BY <2>1
<1> HIDE DEF Whole
<1>3. PICK r \in [Expressions -> V] : r = Phi[r]
  <2>1. Phi \in [[Expressions -> V] -> [Expressions -> V]]
      BY <1>1
  <2>2. \A e \in Expressions : \A f, g \in [Expressions -> V] :
            (\A o \in Lower(e) : f[o] = g[o]) => Phi[f][e] = Phi[g][e]
      BY <1>2
  <2>3. {} \in V
      OBVIOUS
  <2> HIDE DEF Phi, V
  <2>4. Walks(Phi, V)
      BY <2>1, <2>2 DEF Walks
  <2> QED
      BY <2>3, <2>4, WalksExist
<1>4. r = [e \in Expressions |-> Whole(r, e)]
    BY <1>3
<1>5. Reads = [e \in Expressions |-> Whole(Reads, e)]
  <2> DEFINE Is(f) == f = [e \in Expressions |-> Whole(f, e)]
             chosen == CHOOSE f : Is(f)
  <2>1. Reads = chosen
      BY Zenon DEF Reads, Whole
  <2>2. Is(r)
      BY <1>4
  <2> HIDE DEF Is
  <2>3. Is(chosen)
      BY <2>2
  <2> HIDE DEF chosen
  <2> QED
      BY <2>1, <2>3 DEF Is
<1>6. \A e \in Expressions : Reads[e] = Whole(Reads, e) /\ r[e] = Whole(r, e)
    BY <1>4, <1>5
<1> HIDE DEF V
<1>7. \A e \in Expressions : Reads[e] = r[e]
    BY <1>2, <1>6, WalksAgree
<1>8. Reads \in [Expressions -> V]
    BY <1>5, <1>7
<1> QED
    BY <1>6, <1>8, Zenon DEF V, Whole

(* So is Runs.                                                             *)
LEMMA RunsAre ==
    /\ Runs \in [Expressions -> SUBSET Functions]
    /\ \A e \in Expressions :
          Runs[e] = CASE e.op = "text" -> {}
                [] e.op = "call" -> {e.f} \union Runs[Returns[e.f]] \union UNION {Runs[e.args[i]] : i \in 1..Len(e.args)}
                [] OTHER -> UNION {Runs[e.args[i]] : i \in 1..Len(e.args)}
<1> DEFINE V == SUBSET Functions
           Whole(f, e) == CASE e.op = "text" -> {}
                [] e.op = "call" -> {e.f} \union f[Returns[e.f]] \union UNION {f[e.args[i]] : i \in 1..Len(e.args)}
                [] OTHER -> UNION {f[e.args[i]] : i \in 1..Len(e.args)}
           Phi == [f \in [Expressions -> V] |-> [e \in Expressions |-> Whole(f, e)]]
<1>1. ASSUME NEW e \in Expressions, NEW f \in [Expressions -> V]
      PROVE  Whole(f, e) \in V
  <2>1. \A i \in 1..Len(e.args) : f[e.args[i]] \in SUBSET Functions
      BY Shapes DEF Lower
  <2>2. e.op = "call" => e.f \in Functions /\ f[Returns[e.f]] \in SUBSET Functions
      BY Shapes DEF Lower
  <2> QED
      BY <2>1, <2>2
<1>2. ASSUME NEW e \in Expressions, NEW f, NEW g, \A o \in Lower(e) : f[o] = g[o]
      PROVE  Whole(f, e) = Whole(g, e)
  <2>1. \A i \in 1..Len(e.args) : f[e.args[i]] = g[e.args[i]]
      BY <1>2, Shapes
  <2>2. e.op = "call" => f[Returns[e.f]] = g[Returns[e.f]]
      BY <1>2, Shapes
  <2> QED
      BY <2>1, <2>2
<1> HIDE DEF Whole
<1>3. PICK r \in [Expressions -> V] : r = Phi[r]
  <2>1. Phi \in [[Expressions -> V] -> [Expressions -> V]]
      BY <1>1
  <2>2. \A e \in Expressions : \A f, g \in [Expressions -> V] :
            (\A o \in Lower(e) : f[o] = g[o]) => Phi[f][e] = Phi[g][e]
      BY <1>2
  <2>3. {} \in V
      OBVIOUS
  <2> HIDE DEF Phi, V
  <2>4. Walks(Phi, V)
      BY <2>1, <2>2 DEF Walks
  <2> QED
      BY <2>3, <2>4, WalksExist
<1>4. r = [e \in Expressions |-> Whole(r, e)]
    BY <1>3
<1>5. Runs = [e \in Expressions |-> Whole(Runs, e)]
  <2> DEFINE Is(f) == f = [e \in Expressions |-> Whole(f, e)]
             chosen == CHOOSE f : Is(f)
  <2>1. Runs = chosen
      BY Zenon DEF Runs, Whole
  <2>2. Is(r)
      BY <1>4
  <2> HIDE DEF Is
  <2>3. Is(chosen)
      BY <2>2
  <2> HIDE DEF chosen
  <2> QED
      BY <2>1, <2>3 DEF Is
<1>6. \A e \in Expressions : Runs[e] = Whole(Runs, e) /\ r[e] = Whole(r, e)
    BY <1>4, <1>5
<1> HIDE DEF V
<1>7. \A e \in Expressions : Runs[e] = r[e]
    BY <1>2, <1>6, WalksAgree
<1>8. Runs \in [Expressions -> V]
    BY <1>5, <1>7
<1> QED
    BY <1>6, <1>8, Zenon DEF V, Whole

(* So is Apart.                                                            *)
LEMMA ApartAre ==
    /\ Apart \in [Expressions -> BOOLEAN]
    /\ \A e \in Expressions :
          Apart[e] = (/\ \A i, j \in 1..Len(e.args) : i < j => Reads[e.args[i]] \intersect Runs[e.args[j]] = {}
                      /\ \A i \in 1..Len(e.args) : Apart[e.args[i]]
                      /\ e.op = "text" => Reads[e] = {}
                      /\ e.op = "call" => Apart[Returns[e.f]])
<1> DEFINE V == BOOLEAN
           Whole(f, e) == /\ \A i, j \in 1..Len(e.args) : i < j => Reads[e.args[i]] \intersect Runs[e.args[j]] = {}
                          /\ \A i \in 1..Len(e.args) : f[e.args[i]]
                          /\ e.op = "text" => Reads[e] = {}
                          /\ e.op = "call" => f[Returns[e.f]]
           Phi == [f \in [Expressions -> V] |-> [e \in Expressions |-> Whole(f, e)]]
<1>1. ASSUME NEW e \in Expressions, NEW f \in [Expressions -> V]
      PROVE  Whole(f, e) \in V
    BY Zenon
<1>2. ASSUME NEW e \in Expressions, NEW f, NEW g, \A o \in Lower(e) : f[o] = g[o]
      PROVE  Whole(f, e) = Whole(g, e)
  <2>1. \A i \in 1..Len(e.args) : f[e.args[i]] = g[e.args[i]]
      BY <1>2, Shapes
  <2>2. e.op = "call" => f[Returns[e.f]] = g[Returns[e.f]]
      BY <1>2, Shapes
  <2> QED
      BY <2>1, <2>2
<1> HIDE DEF Whole
<1>3. PICK r \in [Expressions -> V] : r = Phi[r]
  <2>1. Phi \in [[Expressions -> V] -> [Expressions -> V]]
      BY <1>1
  <2>2. \A e \in Expressions : \A f, g \in [Expressions -> V] :
            (\A o \in Lower(e) : f[o] = g[o]) => Phi[f][e] = Phi[g][e]
      BY <1>2
  <2>3. TRUE \in V
      OBVIOUS
  <2> HIDE DEF Phi, V
  <2>4. Walks(Phi, V)
      BY <2>1, <2>2 DEF Walks
  <2> QED
      BY <2>3, <2>4, WalksExist
<1>4. r = [e \in Expressions |-> Whole(r, e)]
    BY <1>3
<1>5. Apart = [e \in Expressions |-> Whole(Apart, e)]
  <2> DEFINE Is(f) == f = [e \in Expressions |-> Whole(f, e)]
             chosen == CHOOSE f : Is(f)
  <2>1. Apart = chosen
      BY Zenon DEF Apart, Whole
  <2>2. Is(r)
      BY <1>4
  <2> HIDE DEF Is
  <2>3. Is(chosen)
      BY <2>2
  <2> HIDE DEF chosen
  <2> QED
      BY <2>1, <2>3 DEF Is
<1>6. \A e \in Expressions : Apart[e] = Whole(Apart, e) /\ r[e] = Whole(r, e)
    BY <1>4, <1>5
<1> HIDE DEF V
<1>7. \A e \in Expressions : Apart[e] = r[e]
    BY <1>2, <1>6, WalksAgree
<1>8. Apart \in [Expressions -> V]
    BY <1>5, <1>7
<1> QED
    BY <1>6, <1>8, Zenon DEF V, Whole

(* The lines an expression's calls are made of.                            *)
Lines ==
    {l \in [do : {"move", "perform", "keep", "raise"}, f : Functions \union {"none"}, i : Int,
             e : Expressions \union {Literal(0)}] :
        /\ l.do # "keep" => l.f \in Functions
        /\ l.do = "move" => l.e \in Expressions /\ l.i \in 1..Takes[l.f]
        /\ l.do = "keep" => l.e \in Expressions}

(* The moves of a call are lines of code, one for every argument.          *)
LEMMA MovesAreLines ==
    ASSUME NEW e \in Expressions, e.op = "call"
    PROVE  /\ Moves(e) \in Seq(Lines) /\ Len(Moves(e)) = Len(e.args)
           /\ \A i \in 1..Len(e.args) : Moves(e)[i] = Move(e.f, i, e.args[i])
           /\ Perform(e.f) \in Lines
<1>1. Len(e.args) \in Nat /\ Len(e.args) = Takes[e.f] /\ e.f \in Functions /\ \A i \in 1..Len(e.args) : e.args[i] \in Expressions
    BY Shapes DEF Lower
<1>2. \A i \in 1..Len(e.args) : Move(e.f, i, e.args[i]) \in Lines
    BY <1>1 DEF Move, Lines
<1>3. Perform(e.f) \in Lines
    BY <1>1 DEF Perform, Lines
<1> QED
    BY <1>1, <1>2, <1>3, IsASeq DEF Moves

(* CallsIn is defined everywhere, by its own equation, and is a sequence   *)
(* of lines.                                                               *)
LEMMA CallsAre ==
    /\ CallsIn \in [Expressions -> Seq(Lines)]
    /\ \A e \in Expressions :
          CallsIn[e] = CASE e.op = "call"   -> Append(Arranged([i \in 1..Len(e.args) |-> CallsIn[e.args[i]]], e), Perform(e.f))
                         [] e.op = "binary" -> FlattenSeq([i \in 1..Len(e.args) |-> CallsIn[e.args[i]]])
                         [] OTHER           -> << >>
<1> DEFINE V == Seq(Lines)
           Whole(f, e) == CASE e.op = "call"   -> Append(Arranged([i \in 1..Len(e.args) |-> f[e.args[i]]], e), Perform(e.f))
                            [] e.op = "binary" -> FlattenSeq([i \in 1..Len(e.args) |-> f[e.args[i]]])
                            [] OTHER           -> << >>
           Phi == [f \in [Expressions -> V] |-> [e \in Expressions |-> Whole(f, e)]]
<1>1. ASSUME NEW e \in Expressions, NEW f \in [Expressions -> V]
      PROVE  Whole(f, e) \in V
  <2> DEFINE calls == [i \in 1..Len(e.args) |-> f[e.args[i]]]
  <2>1. \A i \in 1..Len(e.args) : f[e.args[i]] \in Seq(Lines)
      BY Shapes DEF Lower
  <2>2. Len(e.args) \in Nat
      BY Shapes
  <2>3. calls \in Seq(Seq(Lines))
      BY <2>1, <2>2, IsASeq
  <2> HIDE DEF calls
  <2>4. FlattenSeq(calls) \in Seq(Lines)
    <3>1. PICK upto \in [0..Len(calls) -> Seq(Lines)] : FlattenSeq(calls) = upto[Len(calls)]
        BY <2>3, EndToEndAtLast
    <3>2. Len(calls) \in 0..Len(calls)
        BY <2>3
    <3> QED
        BY <3>1, <3>2
  <2>5. CASE e.op = "call"
    <3>1. Moves(e) \in Seq(Lines) /\ Perform(e.f) \in Lines
        BY <2>5, MovesAreLines
    <3>2. Arranged(calls, e) \in Seq(Lines)
        BY <2>4, <3>1, ConcatProperties DEF Arranged
    <3>3. Append(Arranged(calls, e), Perform(e.f)) \in Seq(Lines)
        BY <3>1, <3>2, AppendProperties
    <3> QED
        BY <2>5, <3>3 DEF calls
  <2>6. << >> \in Seq(Lines)
      OBVIOUS
  <2> QED
      BY <2>4, <2>5, <2>6 DEF calls
<1>2. ASSUME NEW e \in Expressions, NEW f, NEW g, \A o \in Lower(e) : f[o] = g[o]
      PROVE  Whole(f, e) = Whole(g, e)
  <2>1. [i \in 1..Len(e.args) |-> f[e.args[i]]] = [i \in 1..Len(e.args) |-> g[e.args[i]]]
      BY <1>2, Shapes
  <2> QED
      BY <2>1, Zenon
<1> HIDE DEF Whole
<1>3. PICK r \in [Expressions -> V] : r = Phi[r]
  <2>1. Phi \in [[Expressions -> V] -> [Expressions -> V]]
      BY <1>1
  <2>2. \A e \in Expressions : \A f, g \in [Expressions -> V] :
            (\A o \in Lower(e) : f[o] = g[o]) => Phi[f][e] = Phi[g][e]
      BY <1>2
  <2>3. << >> \in V
      OBVIOUS
  <2> HIDE DEF Phi, V
  <2>4. Walks(Phi, V)
      BY <2>1, <2>2 DEF Walks
  <2> QED
      BY <2>3, <2>4, WalksExist
<1>4. r = [e \in Expressions |-> Whole(r, e)]
    BY <1>3
<1>5. CallsIn = [e \in Expressions |-> Whole(CallsIn, e)]
  <2> DEFINE Is(f) == f = [e \in Expressions |-> Whole(f, e)]
             chosen == CHOOSE f : Is(f)
  <2>1. CallsIn = chosen
      BY Zenon DEF CallsIn, Whole
  <2>2. Is(r)
      BY <1>4
  <2> HIDE DEF Is
  <2>3. Is(chosen)
      BY <2>2
  <2> HIDE DEF chosen
  <2> QED
      BY <2>1, <2>3 DEF Is
<1>6. \A e \in Expressions : CallsIn[e] = Whole(CallsIn, e) /\ r[e] = Whole(r, e)
    BY <1>4, <1>5
<1> HIDE DEF V
<1>7. \A e \in Expressions : CallsIn[e] = r[e]
    BY <1>2, <1>6, WalksAgree
<1>8. CallsIn \in [Expressions -> V]
    BY <1>5, <1>7
<1> QED
    BY <1>6, <1>8, Zenon DEF V, Whole

(* By kind of expression.                                                  *)
LEMMA RenderedByKind ==
    ASSUME NEW e \in Expressions, NEW own \in Given, NEW a \in [Functions -> Int]
    PROVE  /\ e.op = "literal" => Rendered[e][own][a] = e.n
           /\ e.op = "param" => Rendered[e][own][a] = own[e.n]
           /\ e.op = "call" => Rendered[e][own][a] = a[e.f]
           /\ e.op = "binary" =>
                 Rendered[e][own][a] = Operated(Rendered[e.args[1]][own][a], Rendered[e.args[2]][own][a])
           /\ e.op = "text" => Rendered[e][own][a] = Builtin(Rendered[e.args[1]][own][a])
<1>1. Rendered[e][own][a] = Valued(e, own, a[e.f], LAMBDA i : Rendered[e.args[i]][own][a])
    BY Renders
<1> QED
    BY <1>1 DEF Valued

(* And what it means.                                                      *)
LEMMA MeaningByKind ==
    ASSUME NEW e \in Expressions, NEW given \in Given
    PROVE  /\ e.op = "literal" => Meaning[e][given] = e.n
           /\ e.op = "param" => Meaning[e][given] = given[e.n]
           /\ e.op = "call" => Meaning[e][given] = Meaning[Returns[e.f]][Passed(Meaning, e, given)]
           /\ e.op = "binary" =>
                 Meaning[e][given] = Operated(Meaning[e.args[1]][given], Meaning[e.args[2]][given])
           /\ e.op = "text" => Meaning[e][given] = Builtin(Meaning[e.args[1]][given])
<1>1. Meaning[e][given] = Valued(e, given, Meaning[Returns[e.f]][Passed(Meaning, e, given)],
                                 LAMBDA i : Meaning[e.args[i]][given])
    BY Means
<1> QED
    BY <1>1 DEF Valued

(* What a rendered expression reads.                                       *)
LEMMA RenderedOfAnswers ==
    ASSUME NEW a \in [Functions -> Int], NEW b \in [Functions -> Int], NEW own \in Given
    PROVE  \A e \in Expressions :
               (\A f \in Reads[e] : a[f] = b[f]) => Rendered[e][own][a] = Rendered[e][own][b]
<1> DEFINE S == {e \in Expressions :
                    (\A f \in Reads[e] : a[f] = b[f]) => Rendered[e][own][a] = Rendered[e][own][b]}
<1>1. ASSUME NEW e \in Expressions, Lower(e) \subseteq S PROVE e \in S
  <2> SUFFICES ASSUME \A f \in Reads[e] : a[f] = b[f]
               PROVE  Rendered[e][own][a] = Rendered[e][own][b]
      OBVIOUS
  <2>1. CASE e.op = "call"
    <3>1. e.f \in Reads[e]
        BY <2>1, ReadsAre
    <3> QED
        BY <2>1, <3>1, RenderedByKind
  <2>2. CASE e.op # "call"
    <3>1. ASSUME NEW i \in 1..Len(e.args)
          PROVE  Rendered[e.args[i]][own][a] = Rendered[e.args[i]][own][b]
      <4>1. e.args[i] \in S
          BY <1>1, Shapes
      <4>2. Reads[e.args[i]] \subseteq Reads[e]
          BY <2>2, ReadsAre
      <4> QED
          BY <4>1, <4>2
    <3>2. /\ e.op = "binary" => 1 \in 1..Len(e.args) /\ 2 \in 1..Len(e.args)
          /\ e.op = "text" => 1 \in 1..Len(e.args)
        BY Shapes
    <3>3. e.op \in {"literal", "param", "binary", "text"}
        BY <2>2, Shapes DEF Operators
    <3> QED
        BY <2>2, <3>1, <3>2, <3>3, RenderedByKind
  <2> QED
      BY <2>1, <2>2
<1> QED
    BY <1>1, TreeInduction

(* Where nothing reads an answer, what is rendered is what is meant,       *)
(* whatever the result fields hold.                                        *)
LEMMA RenderedWithoutCalls ==
    ASSUME NEW a \in [Functions -> Int], NEW own \in Given
    PROVE  \A e \in Expressions : Reads[e] = {} => Rendered[e][own][a] = Meaning[e][own]
<1> DEFINE S == {e \in Expressions : Reads[e] = {} => Rendered[e][own][a] = Meaning[e][own]}
<1>1. ASSUME NEW e \in Expressions, Lower(e) \subseteq S PROVE e \in S
  <2> SUFFICES ASSUME Reads[e] = {}
               PROVE  Rendered[e][own][a] = Meaning[e][own]
      OBVIOUS
  <2>1. e.op # "call" /\ \A i \in 1..Len(e.args) : Reads[e.args[i]] = {}
    <3>1. e.op # "call"
        BY ReadsAre
    <3>2. Reads[e] = UNION {Reads[e.args[i]] : i \in 1..Len(e.args)}
        BY <3>1, ReadsAre
    <3> QED
        BY <3>1, <3>2
  <2>2. ASSUME NEW i \in 1..Len(e.args)
        PROVE  Rendered[e.args[i]][own][a] = Meaning[e.args[i]][own]
    <3>1. e.args[i] \in S
        BY <1>1, Shapes
    <3> QED
        BY <2>1, <3>1
  <2>3. /\ e.op = "binary" => 1 \in 1..Len(e.args) /\ 2 \in 1..Len(e.args)
        /\ e.op = "text" => 1 \in 1..Len(e.args)
      BY Shapes
  <2>4. e.op \in {"literal", "param", "binary", "text"}
      BY <2>1, Shapes DEF Operators
  <2> QED
      BY <2>2, <2>3, <2>4, RenderedByKind, MeaningByKind
<1> QED
    BY <1>1, TreeInduction

(* No function runs itself.                                                *)
LEMMA BodiesAreLower ==
    \A e \in Expressions : \A f \in Runs[e] : Height[Returns[f]] < Height[e]
<1> DEFINE S == {e \in Expressions : \A f \in Runs[e] : Height[Returns[f]] < Height[e]}
<1>1. ASSUME NEW e \in Expressions, Lower(e) \subseteq S PROVE e \in S
  <2> SUFFICES ASSUME NEW f \in Runs[e] PROVE Height[Returns[f]] < Height[e]
      OBVIOUS
  <2>1. Height[e] \in Nat /\ f \in Functions /\ Height[Returns[f]] \in Nat
      BY RunsAre, Heights, CallAssumption
  <2>2. ASSUME NEW o \in Lower(e), f \in Runs[o] PROVE Height[Returns[f]] < Height[e]
    <3>1. Height[Returns[f]] < Height[o]
        BY <1>1, <2>2
    <3>2. Height[o] \in Nat /\ Height[o] < Height[e]
        BY Heights DEF Lower
    <3> QED
        BY <2>1, <3>1, <3>2
  <2>3. CASE \E i \in 1..Len(e.args) : f \in Runs[e.args[i]]
      BY <2>2, <2>3, Shapes
  <2>4. CASE e.op = "call" /\ f \in Runs[Returns[e.f]]
      BY <2>2, <2>4, Shapes
  <2>5. CASE e.op = "call" /\ f = e.f
      BY <2>5, Shapes DEF Lower
  <2>6. \/ \E i \in 1..Len(e.args) : f \in Runs[e.args[i]]
        \/ e.op = "call" /\ f \in Runs[Returns[e.f]]
        \/ e.op = "call" /\ f = e.f
      BY RunsAre
  <2> QED
      BY <2>3, <2>4, <2>5, <2>6
<1> QED
    BY <1>1, TreeInduction

(* So no function is among those its own body runs.                        *)
LEMMA NoneRunsItself ==
    ASSUME NEW f \in Functions
    PROVE  f \notin Runs[Returns[f]]
<1>1. Returns[f] \in Expressions /\ Height[Returns[f]] \in Nat
    BY Heights, CallAssumption
<1>2. ~ (Height[Returns[f]] < Height[Returns[f]])
    BY <1>1
<1> QED
    BY <1>1, <1>2, BodiesAreLower

(* Of what keeps its calls apart, so does everything it runs.              *)
LEMMA RunsKeepApart ==
    \A e \in Expressions :
        Apart[e] => \A f \in Runs[e] : Apart[Returns[f]] /\ Runs[Returns[f]] \subseteq Runs[e]
<1> DEFINE S == {e \in Expressions :
        Apart[e] => \A f \in Runs[e] : Apart[Returns[f]] /\ Runs[Returns[f]] \subseteq Runs[e]}
<1>1. ASSUME NEW e \in Expressions, Lower(e) \subseteq S PROVE e \in S
  <2> SUFFICES ASSUME Apart[e], NEW f \in Runs[e]
               PROVE  Apart[Returns[f]] /\ Runs[Returns[f]] \subseteq Runs[e]
      OBVIOUS
  <2>1. e.op # "text"
      BY RunsAre
  <2>2. ASSUME NEW i \in 1..Len(e.args), f \in Runs[e.args[i]]
        PROVE  Apart[Returns[f]] /\ Runs[Returns[f]] \subseteq Runs[e]
    <3>1. Apart[e.args[i]] /\ e.args[i] \in S
        BY <1>1, Shapes, ApartAre
    <3>2. Runs[e.args[i]] \subseteq Runs[e]
        BY <2>1, RunsAre
    <3> QED
        BY <2>2, <3>1, <3>2
  <2>3. ASSUME e.op = "call", f \in Runs[Returns[e.f]]
        PROVE  Apart[Returns[f]] /\ Runs[Returns[f]] \subseteq Runs[e]
    <3>1. Apart[Returns[e.f]] /\ Returns[e.f] \in S
        BY <1>1, <2>3, Shapes, ApartAre
    <3>2. Runs[Returns[e.f]] \subseteq Runs[e]
        BY <2>3, RunsAre
    <3> QED
        BY <2>3, <3>1, <3>2
  <2>4. ASSUME e.op = "call", f = e.f
        PROVE  Apart[Returns[f]] /\ Runs[Returns[f]] \subseteq Runs[e]
    <3>1. Apart[Returns[e.f]]
        BY <2>4, ApartAre
    <3>2. Runs[Returns[e.f]] \subseteq Runs[e]
        BY <2>4, RunsAre
    <3> QED
        BY <2>4, <3>1, <3>2
  <2>5. \/ \E i \in 1..Len(e.args) : f \in Runs[e.args[i]]
        \/ e.op = "call" /\ f \in Runs[Returns[e.f]]
        \/ e.op = "call" /\ f = e.f
      BY RunsAre
  <2> QED
      BY <2>2, <2>3, <2>4, <2>5
<1> QED
    BY <1>1, TreeInduction

(* The lines that move an argument of, or perform, what an expression      *)
(* runs.                                                                   *)
LinesOf(e) == {l \in Lines : l.do \in {"move", "perform"} /\ l.f \in Runs[e]}

(* The code of the calls is made of these lines.                           *)
LEMMA CodeOfCalls == \A e \in Expressions : CallsIn[e] \in Seq(LinesOf(e))
<1> DEFINE S == {e \in Expressions : CallsIn[e] \in Seq(LinesOf(e))}
<1>1. ASSUME NEW e \in Expressions, Lower(e) \subseteq S PROVE e \in S
  <2> DEFINE T == LinesOf(e)
             calls == [i \in 1..Len(e.args) |-> CallsIn[e.args[i]]]
  <2>1. CASE e.op \notin {"call", "binary"}
    <3>1. CallsIn[e] = << >>
        BY <2>1, CallsAre
    <3> QED
        BY <3>1, EmptySeq
  <2>2. CASE e.op \in {"call", "binary"}
    <3>1. ASSUME NEW i \in 1..Len(e.args) PROVE CallsIn[e.args[i]] \in Seq(T)
      <4>1. CallsIn[e.args[i]] \in Seq(LinesOf(e.args[i]))
          BY <1>1, Shapes
      <4>2. Runs[e.args[i]] \subseteq Runs[e]
          BY <2>2, RunsAre
      <4>3. LinesOf(e.args[i]) \subseteq T
          BY <4>2 DEF LinesOf
      <4> HIDE DEF T
      <4> QED
          BY <4>1, <4>3, SeqMonotonic
    <3>2. FlattenSeq(calls) \in Seq(T)
      <4>1. Len(e.args) \in Nat
          BY Shapes
      <4> HIDE DEF T
      <4>2. calls \in Seq(Seq(T))
          BY <3>1, <4>1, IsASeq
      <4> HIDE DEF calls
      <4>3. PICK upto \in [0..Len(calls) -> Seq(T)] : FlattenSeq(calls) = upto[Len(calls)]
          BY <4>2, EndToEndAtLast
      <4>4. Len(calls) \in 0..Len(calls)
          BY <4>2
      <4> QED
          BY <4>3, <4>4
    <3>3. ASSUME e.op = "call" PROVE Append(Arranged(calls, e), Perform(e.f)) \in Seq(T)
      <4>1. e.f \in Runs[e] /\ e.f \in Functions /\ Len(e.args) = Takes[e.f] /\ Len(e.args) \in Nat
          BY <3>3, RunsAre, Shapes
      <4>2. /\ Moves(e) \in Seq(Lines) /\ Len(Moves(e)) = Len(e.args)
            /\ \A i \in 1..Len(e.args) : Moves(e)[i] = Move(e.f, i, e.args[i])
            /\ Perform(e.f) \in Lines
          BY <3>3, MovesAreLines
      <4>3. \A i \in 1..Len(e.args) : e.args[i] \in Expressions
          BY Shapes DEF Lower
      <4>4. \A i \in 1..Len(e.args) : Move(e.f, i, e.args[i]) \in T
        <5> TAKE i \in 1..Len(e.args)
        <5> DEFINE l == Move(e.f, i, e.args[i])
        <5>1. l.do = "move" /\ l.f = e.f /\ l.i = i /\ l.e = e.args[i]
            BY DEF Move
        <5>2. l \in Lines
            BY <4>2, ElementOfSeq
        <5>3. l.f \in Runs[e] /\ l.e \in Expressions /\ l.i \in 1..Takes[l.f]
            BY <4>1, <4>3, <5>1
        <5> HIDE DEF l
        <5>4. l \in LinesOf(e)
            BY <5>1, <5>2, <5>3 DEF LinesOf
        <5> QED
            BY <5>4 DEF l
      <4>5. Perform(e.f) \in T
          BY <4>1, <4>2 DEF Perform, LinesOf
      <4> HIDE DEF T, calls
      <4>6. Moves(e) \in Seq(T)
          BY <4>1, <4>4, IsASeq DEF Moves
      <4>7. Arranged(calls, e) \in Seq(T)
          BY <3>2, <4>6, ConcatProperties DEF Arranged
      <4> QED
          BY <4>5, <4>7, AppendProperties
    <3>4. CallsIn[e] = CASE e.op = "call"   -> Append(Arranged(calls, e), Perform(e.f))
                         [] e.op = "binary" -> FlattenSeq(calls)
                         [] OTHER           -> << >>
        BY CallsAre, Zenon
    <3> HIDE DEF T, calls
    <3>5. CallsIn[e] \in Seq(T)
        BY <2>2, <3>2, <3>3, <3>4
    <3> QED
        BY <3>5 DEF T
  <2> QED
      BY <2>1, <2>2
<1>2. Expressions \subseteq S
  <2> HIDE DEF S
  <2> QED
      BY <1>1, TreeInduction
<1> QED
    BY <1>2

-----------------------------------------------------------------------------
(* What the code of a routine does to the fields, if it comes to its end.  *)
Memory ==
    {m \in [parameter : [Functions -> Given], result : [Functions -> Int]] :
        \A f \in Functions, i \in Positions : Takes[f] < i => m.parameter[f][i] = 0}

Untouched(fs, m, n) ==
    \A g \in Functions \ fs : n.parameter[g] = m.parameter[g] /\ n.result[g] = m.result[g]

(* What a function promises of the fields when it is back.                 *)
RunBy(f) == {f} \union Runs[Returns[f]]
Answers(raising, f, m, n) ==
    /\ RunBy(f) \intersect raising = {}
    /\ n.result[f] = Meaning[Returns[f]][m.parameter[f]]
    /\ Untouched(RunBy(f), m, n)

ShownIn(of, e, m) == Rendered[e][Own(m.parameter, of)][m.result]

Does(raising, of, l, m, n) ==
    /\ l.do # "raise"
    /\ l.do = "move" =>
          /\ n.parameter = [m.parameter EXCEPT ![l.f][l.i] = ShownIn(of, l.e, m)]
          /\ n.result = m.result
    /\ l.do = "keep" =>
          /\ n.parameter = m.parameter
          /\ n.result = IF l.f = "none" THEN m.result ELSE [m.result EXCEPT ![l.f] = ShownIn(of, l.e, m)]
    /\ l.do = "perform" => Answers(raising, l.f, m, n)

(* From one memory to another, a line at a time.                           *)
IsPath(p, raising, of, lines, m, n) ==
    /\ p \in [0..Len(lines) -> Memory]
    /\ p[0] = m /\ p[Len(lines)] = n
    /\ \A i \in 1..Len(lines) : Does(raising, of, lines[i], p[i - 1], p[i])
Path(raising, of, lines, m, n) == \E p : IsPath(p, raising, of, lines, m, n)

(* No lines change nothing.                                                *)
LEMMA PathOfNothing ==
    ASSUME NEW raising, NEW of, NEW m \in Memory, NEW n
    PROVE  Path(raising, of, << >>, m, n) <=> n = m
<1>1. ASSUME NEW p, IsPath(p, raising, of, << >>, m, n) PROVE n = m
    BY <1>1 DEF IsPath
<1>2. IsPath([i \in 0..0 |-> m], raising, of, << >>, m, m)
    BY DEF IsPath
<1> QED
    BY <1>1, <1>2 DEF Path

(* A path goes from a memory to a memory.                                  *)
LEMMA PathEnds ==
    ASSUME NEW raising, NEW of, NEW T, NEW lines \in Seq(T), NEW m, NEW n, Path(raising, of, lines, m, n)
    PROVE  m \in Memory /\ n \in Memory
<1>1. PICK p : IsPath(p, raising, of, lines, m, n)
    BY DEF Path
<1>2. 0 \in 0..Len(lines) /\ Len(lines) \in 0..Len(lines)
    OBVIOUS
<1> QED
    BY <1>1, <1>2 DEF IsPath

(* A path is its first line and then the rest.                             *)
LEMMA PathFirst ==
    ASSUME NEW raising, NEW of, NEW T, NEW lines \in Seq(T), lines # << >>,
           NEW m \in Memory, NEW k, NEW n,
           Does(raising, of, Head(lines), m, k), Path(raising, of, Tail(lines), k, n)
    PROVE  Path(raising, of, lines, m, n)
<1> DEFINE L == Len(lines)
<1>1. PICK p : IsPath(p, raising, of, Tail(lines), k, n)
    BY DEF Path
<1>2. /\ L \in Nat /\ L # 0 /\ Len(Tail(lines)) = L - 1 /\ Head(lines) = lines[1]
      /\ \A i \in 1..L - 1 : Tail(lines)[i] = lines[i + 1]
    BY HeadTailProperties
<1>3. /\ p \in [0..L - 1 -> Memory] /\ p[0] = k /\ p[L - 1] = n
      /\ \A i \in 1..L - 1 : Does(raising, of, lines[i + 1], p[i - 1], p[i])
    BY <1>1, <1>2 DEF IsPath
<1> HIDE DEF L
<1> DEFINE q == [i \in 0..L |-> IF i = 0 THEN m ELSE p[i - 1]]
<1>4. q \in [0..L -> Memory] /\ q[0] = m /\ q[L] = n
    BY <1>2, <1>3
<1>5. ASSUME NEW i \in 1..L PROVE Does(raising, of, lines[i], q[i - 1], q[i])
  <2>1. CASE i = 1
    <3>1. q[i - 1] = m /\ q[i] = k /\ lines[i] = Head(lines)
        BY <1>2, <1>3, <2>1
    <3> QED
        BY <3>1
  <2>2. CASE i # 1
    <3>1. i - 1 \in 1..L - 1 /\ (i - 1) + 1 = i
        BY <1>2, <2>2
    <3>2. q[i - 1] = p[(i - 1) - 1] /\ q[i] = p[i - 1]
        BY <1>2, <2>2
    <3>3. Does(raising, of, lines[(i - 1) + 1], p[(i - 1) - 1], p[i - 1])
        BY <1>3, <3>1
    <3> HIDE DEF q
    <3> QED
        BY <3>1, <3>2, <3>3
  <2> QED
      BY <2>1, <2>2
<1> HIDE DEF q
<1>6. IsPath(q, raising, of, lines, m, n)
    BY <1>4, <1>5 DEF IsPath, L
<1> QED
    BY <1>6 DEF Path

(* A path over two pieces of code is one over each, through a memory in    *)
(* between.                                                                *)
LEMMA PathSplit ==
    ASSUME NEW raising, NEW of, NEW T, NEW s \in Seq(T), NEW t \in Seq(T), NEW m, NEW n,
           Path(raising, of, s \o t, m, n)
    PROVE  \E k \in Memory : Path(raising, of, s, m, k) /\ Path(raising, of, t, k, n)
<1> DEFINE a == Len(s)
           b == Len(t)
<1>1. PICK p : IsPath(p, raising, of, s \o t, m, n)
    BY DEF Path
<1>2. a \in Nat /\ b \in Nat
    OBVIOUS
<1>3. Len(s \o t) = a + b
    BY ConcatProperties
<1>4. \A i \in 1..a : (s \o t)[i] = s[i]
    BY <1>2, <1>3, ConcatProperties
<1>5. \A i \in 1..b : (s \o t)[a + i] = t[i]
  <2> TAKE i \in 1..b
  <2>1. a + i \in 1..a + b /\ a + i > a /\ (a + i) - a = i
      BY <1>2
  <2> QED
      BY <1>2, <1>3, <2>1, ConcatProperties
<1> HIDE DEF a, b
<1> DEFINE lines == s \o t
<1> HIDE DEF lines
<1>6. /\ p \in [0..a + b -> Memory] /\ p[0] = m /\ p[a + b] = n
      /\ \A i \in 1..a + b : Does(raising, of, lines[i], p[i - 1], p[i])
    BY <1>1, <1>3 DEF IsPath, lines
<1> DEFINE q == [i \in 0..a |-> p[i]]
           r == [i \in 0..b |-> p[a + i]]
<1>7. p[a] \in Memory
    BY <1>2, <1>6
<1>8. IsPath(q, raising, of, s, m, p[a])
  <2>1. q \in [0..a -> Memory] /\ q[0] = m /\ q[a] = p[a]
      BY <1>2, <1>6
  <2>2. ASSUME NEW i \in 1..a PROVE Does(raising, of, s[i], q[i - 1], q[i])
    <3>1. i \in 1..a + b /\ q[i - 1] = p[i - 1] /\ q[i] = p[i]
        BY <1>2
    <3>2. lines[i] = s[i]
        BY <1>4 DEF lines
    <3> HIDE DEF q
    <3> QED
        BY <1>6, <3>1, <3>2
  <2> HIDE DEF q
  <2> QED
      BY <2>1, <2>2 DEF IsPath, a
<1>9. IsPath(r, raising, of, t, p[a], n)
  <2>1. r \in [0..b -> Memory] /\ r[0] = p[a] /\ r[b] = n
      BY <1>2, <1>6
  <2>2. ASSUME NEW i \in 1..b PROVE Does(raising, of, t[i], r[i - 1], r[i])
    <3>1. a + i \in 1..a + b /\ r[i - 1] = p[(a + i) - 1] /\ r[i] = p[a + i]
        BY <1>2
    <3>2. lines[a + i] = t[i]
        BY <1>5 DEF lines
    <3>3. Does(raising, of, lines[a + i], p[(a + i) - 1], p[a + i])
        BY <1>6, <3>1
    <3> HIDE DEF r
    <3> QED
        BY <3>1, <3>2, <3>3
  <2> HIDE DEF r
  <2> QED
      BY <2>1, <2>2 DEF IsPath, b
<1> QED
    BY <1>7, <1>8, <1>9, Zenon DEF Path

(* A path is one over all but its last line and then that line.            *)
LEMMA PathLast ==
    ASSUME NEW raising, NEW of, NEW T, NEW s \in Seq(T), NEW l \in T, NEW m, NEW n,
           Path(raising, of, Append(s, l), m, n)
    PROVE  \E k \in Memory : Path(raising, of, s, m, k) /\ Does(raising, of, l, k, n)
<1>1. Append(s, l) = s \o <<l>> /\ <<l>> \in Seq(T)
    BY AppendIsConcat
<1>2. PICK k \in Memory : Path(raising, of, s, m, k) /\ Path(raising, of, <<l>>, k, n)
  <2> DEFINE t == <<l>>
  <2>1. t \in Seq(T) /\ Path(raising, of, s \o t, m, n)
      BY <1>1
  <2> HIDE DEF t
  <2>2. \E k \in Memory : Path(raising, of, s, m, k) /\ Path(raising, of, t, k, n)
      BY <2>1, PathSplit
  <2> QED
      BY <2>2 DEF t
<1>3. PICK p : IsPath(p, raising, of, <<l>>, k, n)
    BY <1>2 DEF Path
<1>4. Len(<<l>>) = 1 /\ <<l>>[1] = l /\ 1 \in 1..1 /\ 1 - 1 = 0
    OBVIOUS
<1>5. Does(raising, of, l, p[0], p[1]) /\ p[0] = k /\ p[1] = n
    BY <1>3, <1>4 DEF IsPath
<1> QED
    BY <1>2, <1>5

(* Parts laid end to end, part by part.                                    *)
PartByPart(raising, of, parts, m, n) ==
    \E q \in [0..Len(parts) -> Memory] :
        /\ q[0] = m /\ q[Len(parts)] = n
        /\ \A i \in 1..Len(parts) : Path(raising, of, parts[i], q[i - 1], q[i])

(* A path over parts laid end to end goes through a memory between each    *)
(* two.                                                                    *)
LEMMA PathOfParts ==
    ASSUME NEW raising, NEW of, NEW T, NEW parts \in Seq(Seq(T)), NEW m \in Memory, NEW n,
           Path(raising, of, FlattenSeq(parts), m, n)
    PROVE  PartByPart(raising, of, parts, m, n)
<1> DEFINE L == Len(parts)
           S == Seq(T)
<1>1. PICK upto \in [0..L -> S] :
          /\ upto[0] = << >>
          /\ \A i \in 1..L : upto[i] = upto[i - 1] \o parts[i]
          /\ FlattenSeq(parts) = upto[L]
    BY EndToEndAtLast
<1>2. L \in Nat /\ \A i \in 1..L : parts[i] \in S
    BY ElementOfSeq
<1> DEFINE By(q, j, k) ==
               /\ q \in [0..j -> Memory] /\ q[0] = m /\ q[j] = k
               /\ \A i \in 1..j : Path(raising, of, parts[i], q[i - 1], q[i])
           I == {j \in Nat : j <= L => \A k \in Memory :
                    Path(raising, of, upto[j], m, k) => \E q : By(q, j, k)}
<1> HIDE DEF L
<1>3. 0 \in I
  <2> SUFFICES ASSUME NEW k \in Memory, Path(raising, of, upto[0], m, k)
               PROVE  \E q : By(q, 0, k)
      OBVIOUS
  <2>1. k = m
      BY <1>1, PathOfNothing
  <2>2. By([i \in 0..0 |-> m], 0, k)
      BY <2>1
  <2> HIDE DEF By
  <2> QED
      BY <2>2
<1>4. ASSUME NEW j \in I PROVE j + 1 \in I
  <2> SUFFICES ASSUME j + 1 <= L, NEW k \in Memory, Path(raising, of, upto[j + 1], m, k)
               PROVE  \E q : By(q, j + 1, k)
      OBVIOUS
  <2>1. j \in Nat /\ j + 1 \in 1..L /\ (j + 1) - 1 = j /\ j \in 0..L
      BY <1>2
  <2>2. upto[j] \in S /\ parts[j + 1] \in S /\ upto[j + 1] = upto[j] \o parts[j + 1]
      BY <1>1, <1>2, <2>1
  <2>3. PICK h \in Memory : Path(raising, of, upto[j], m, h) /\ Path(raising, of, parts[j + 1], h, k)
      BY <2>2, PathSplit
  <2>4. PICK q : By(q, j, h)
      BY <2>1, <2>3
  <2> DEFINE r == [i \in 0..j + 1 |-> IF i = j + 1 THEN k ELSE q[i]]
  <2>5. r \in [0..j + 1 -> Memory] /\ r[0] = m /\ r[j + 1] = k
      BY <2>1, <2>4
  <2>6. ASSUME NEW i \in 1..j + 1 PROVE Path(raising, of, parts[i], r[i - 1], r[i])
    <3>1. CASE i = j + 1
      <4>1. r[i - 1] = h /\ r[i] = k
          BY <2>1, <2>4, <3>1
      <4> HIDE DEF r
      <4> QED
          BY <2>3, <3>1, <4>1
    <3>2. CASE i # j + 1
      <4>1. i \in 1..j /\ r[i - 1] = q[i - 1] /\ r[i] = q[i]
          BY <2>1, <3>2
      <4> HIDE DEF r
      <4> QED
          BY <2>4, <4>1
    <3> QED
        BY <3>1, <3>2
  <2> HIDE DEF r
  <2>7. By(r, j + 1, k)
      BY <2>5, <2>6
  <2> HIDE DEF By
  <2> QED
      BY <2>7
<1>5. I = Nat
    BY <1>3, <1>4, InductionOfSets
<1>6. n \in Memory
  <2>1. upto[L] \in S
      BY <1>1, <1>2 DEF L
  <2>2. Path(raising, of, upto[L], m, n)
      BY <1>1 DEF L
  <2> QED
      BY <2>1, <2>2, PathEnds
<1>7. PICK q : By(q, L, n)
  <2>1. L \in I /\ Path(raising, of, upto[L], m, n)
    <3> HIDE DEF I
    <3> QED
        BY <1>1, <1>2, <1>5 DEF L
  <2> HIDE DEF By
  <2> QED
      BY <1>2, <1>6, <2>1
<1> QED
    BY <1>7 DEF L, PartByPart

(* The parameters a routine reads hold numbers.                            *)
LEMMA OwnIsGiven ==
    ASSUME NEW m \in Memory, NEW of \in Functions \union {"none"}
    PROVE  Own(m.parameter, of) \in Given
<1>1. Nothing \in Given
    BY DEF Nothing, Given
<1>2. \A f \in Functions : m.parameter[f] \in Given
    BY DEF Memory
<1> QED
    BY <1>1, <1>2 DEF Own

(* A function that is not run keeps its parameters.                        *)
LEMMA OwnUntouched ==
    ASSUME NEW m, NEW n, NEW fs, NEW of \in (Functions \union {"none"}) \ fs, Untouched(fs, m, n)
    PROVE  Own(n.parameter, of) = Own(m.parameter, of)
BY DEF Own, Untouched

(* That an expression's calls, when they are all back, leave its value to  *)
(* be read, and no field but those of the functions it runs is touched.    *)
Prepares(raising, e) ==
    \A of \in (Functions \union {"none"}) \ Runs[e] : \A m, n \in Memory :
        Path(raising, of, CallsIn[e], m, n) =>
            /\ Runs[e] \intersect raising = {}
            /\ ShownIn(of, e, n) = Meaning[e][Own(m.parameter, of)]
            /\ Untouched(Runs[e], m, n)

RunUnder(e) == UNION {Runs[e.args[i]] : i \in 1..Len(e.args)}

(* So of its arguments: each still reads its own answer when all are ready. *)
LEMMA ArgumentsAreReady ==
    ASSUME NEW raising, NEW e \in Expressions, e.op \in {"call", "binary"}, Apart[e],
           \A i \in 1..Len(e.args) : Prepares(raising, e.args[i]),
           NEW of \in (Functions \union {"none"}) \ Runs[e],
           NEW m \in Memory, NEW n \in Memory,
           Path(raising, of, FlattenSeq([i \in 1..Len(e.args) |-> CallsIn[e.args[i]]]), m, n)
    PROVE  /\ RunUnder(e) \intersect raising = {}
           /\ \A i \in 1..Len(e.args) : ShownIn(of, e.args[i], n) = Meaning[e.args[i]][Own(m.parameter, of)]
           /\ Untouched(RunUnder(e), m, n)
<1> DEFINE L == Len(e.args)
           calls == [i \in 1..L |-> CallsIn[e.args[i]]]
<1>1. /\ L \in Nat /\ \A i \in 1..L : e.args[i] \in Expressions
    BY Shapes DEF Lower
<1>2. calls \in Seq(Seq(Lines)) /\ Len(calls) = L
    BY <1>1, CallsAre, IsASeq
<1>3. PICK q \in [0..L -> Memory] :
          /\ q[0] = m /\ q[L] = n
          /\ \A i \in 1..L : Path(raising, of, calls[i], q[i - 1], q[i])
  <2> HIDE DEF calls
  <2>1. Path(raising, of, FlattenSeq(calls), m, n)
      BY DEF calls
  <2>2. PartByPart(raising, of, calls, m, n)
      BY <1>2, <2>1, PathOfParts
  <2> QED
      BY <1>2, <2>2 DEF PartByPart
<1>4. RunUnder(e) \subseteq Runs[e]
    BY RunsAre DEF RunUnder
<1>5. ASSUME NEW i \in 1..L
      PROVE  /\ Runs[e.args[i]] \subseteq RunUnder(e)
             /\ Runs[e.args[i]] \intersect raising = {}
             /\ ShownIn(of, e.args[i], q[i]) = Meaning[e.args[i]][Own(q[i - 1].parameter, of)]
             /\ Untouched(Runs[e.args[i]], q[i - 1], q[i])
  <2>1. Runs[e.args[i]] \subseteq RunUnder(e)
      BY DEF RunUnder
  <2>2. of \in (Functions \union {"none"}) \ Runs[e.args[i]]
      BY <1>4, <2>1
  <2>3. q[i - 1] \in Memory /\ q[i] \in Memory
      BY <1>1
  <2>4. Path(raising, of, CallsIn[e.args[i]], q[i - 1], q[i])
      BY <1>3
  <2> QED
      BY <2>1, <2>2, <2>3, <2>4 DEF Prepares
<1> HIDE DEF L, calls
<1> DEFINE I == {k \in Nat : k <= L => Untouched(RunUnder(e), m, q[k])}
<1>6. I = Nat
  <2>1. 0 \in I
      BY <1>3 DEF Untouched
  <2>2. ASSUME NEW k \in I PROVE k + 1 \in I
    <3> SUFFICES ASSUME k + 1 <= L PROVE Untouched(RunUnder(e), m, q[k + 1])
        OBVIOUS
    <3>1. k + 1 \in 1..L /\ (k + 1) - 1 = k /\ Untouched(RunUnder(e), m, q[k])
        BY <1>1
    <3>2. Untouched(Runs[e.args[k + 1]], q[k], q[k + 1]) /\ Runs[e.args[k + 1]] \subseteq RunUnder(e)
        BY <1>5, <3>1
    <3> QED
        BY <3>1, <3>2 DEF Untouched
  <2> QED
      BY <2>1, <2>2, InductionOfSets
<1>7. \A k \in 0..L : Untouched(RunUnder(e), m, q[k]) /\ Own(q[k].parameter, of) = Own(m.parameter, of)
  <2> TAKE k \in 0..L
  <2>1. k \in I /\ k <= L
      BY <1>1, <1>6
  <2>2. of \in (Functions \union {"none"}) \ RunUnder(e)
      BY <1>4
  <2> QED
      BY <2>1, <2>2, OwnUntouched
<1>8. ASSUME NEW i \in 1..L
      PROVE  ShownIn(of, e.args[i], n) = Meaning[e.args[i]][Own(m.parameter, of)]
  <2> DEFINE a == e.args[i]
             J == {k \in Nat : i + k <= L => \A g \in Reads[a] : q[i + k].result[g] = q[i].result[g]}
  <2>1. 0 \in J
      BY <1>1
  <2>2. ASSUME NEW k \in J PROVE k + 1 \in J
    <3> SUFFICES ASSUME i + (k + 1) <= L, NEW g \in Reads[a]
                 PROVE  q[i + (k + 1)].result[g] = q[i].result[g]
        OBVIOUS
    <3> DEFINE j == i + (k + 1)
    <3>1. j \in 1..L /\ i < j /\ j - 1 = i + k /\ i + k <= L
        BY <1>1
    <3>2. q[i + k].result[g] = q[i].result[g]
        BY <3>1
    <3>3. Reads[a] \intersect Runs[e.args[j]] = {}
        BY <3>1, ApartAre DEF L
    <3>4. g \in Functions \ Runs[e.args[j]]
        BY <1>1, <3>3, ReadsAre
    <3>5. Untouched(Runs[e.args[j]], q[j - 1], q[j])
        BY <1>5, <3>1
    <3> HIDE DEF j
    <3>6. q[j].result[g] = q[j - 1].result[g]
        BY <3>4, <3>5 DEF Untouched
    <3> QED
        BY <3>1, <3>2, <3>6 DEF j
  <2>3. J = Nat
    <3> HIDE DEF J
    <3>1. J \in SUBSET Nat
        BY DEF J
    <3> QED
        BY <2>1, <2>2, <3>1, InductionOfSets
  <2>4. L - i \in Nat /\ i + (L - i) = L
      BY <1>1
  <2>5. L - i \in J
      BY <2>3, <2>4
  <2>6. \A g \in Reads[a] : n.result[g] = q[i].result[g]
      BY <1>1, <1>3, <2>4, <2>5
  <2>7. a \in Expressions
      BY <1>1
  <2>8. q[i] \in Memory /\ q[i].result \in [Functions -> Int] /\ n.result \in [Functions -> Int]
      BY <1>1 DEF Memory
  <2>9. /\ Own(n.parameter, of) = Own(m.parameter, of)
        /\ Own(q[i].parameter, of) = Own(m.parameter, of)
        /\ Own(q[i - 1].parameter, of) = Own(m.parameter, of)
        /\ Own(m.parameter, of) \in Given
    <3>1. L \in 0..L /\ i \in 0..L /\ i - 1 \in 0..L /\ n = q[L]
        BY <1>1, <1>3
    <3> QED
        BY <1>7, <3>1, OwnIsGiven
  <2> HIDE DEF a
  <2>10. ShownIn(of, a, n) = ShownIn(of, a, q[i])
    <3> DEFINE own == Own(m.parameter, of)
               b == n.result
               c == q[i].result
    <3>1. /\ own \in Given /\ b \in [Functions -> Int] /\ c \in [Functions -> Int]
          /\ \A g \in Reads[a] : b[g] = c[g]
        BY <2>6, <2>8, <2>9
    <3> HIDE DEF own, b, c
    <3>2. Rendered[a][own][b] = Rendered[a][own][c]
        BY ONLY <2>7, <3>1, RenderedOfAnswers
    <3> QED
        BY <2>9, <3>2 DEF ShownIn, own, b, c
  <2>11. ShownIn(of, a, q[i]) = Meaning[a][Own(m.parameter, of)]
      BY <1>5, <2>9 DEF a
  <2> QED
      BY <2>10, <2>11 DEF a
<1>9. Untouched(RunUnder(e), m, n)
    BY <1>1, <1>3, <1>7
<1>10. RunUnder(e) \intersect raising = {}
    BY <1>5 DEF RunUnder, L
<1> QED
    BY <1>8, <1>9, <1>10 DEF L

(* The moves fill the parameter fields, and do not read what they fill.    *)
Filled(of, e, m, n) ==
    /\ n.result = m.result
    /\ \A g \in Functions \ {e.f} : n.parameter[g] = m.parameter[g]
    /\ \A i \in 1..Len(e.args) : n.parameter[e.f][i] = ShownIn(of, e.args[i], m)

(* After the moves of a call its parameter fields hold what the arguments  *)
(* read before them.                                                       *)
LEMMA MovesFill ==
    ASSUME NEW raising, NEW e \in Expressions, e.op = "call",
           NEW of \in Functions \union {"none"}, of # e.f,
           NEW m \in Memory, NEW n \in Memory, Path(raising, of, Moves(e), m, n)
    PROVE  Filled(of, e, m, n)
<1> DEFINE L == Len(e.args)
           f == e.f
<1>1. /\ L \in Nat /\ f \in Functions /\ L = Takes[f]
      /\ Len(Moves(e)) = L
      /\ \A i \in 1..L : Moves(e)[i] = Move(f, i, e.args[i])
    BY Shapes, MovesAreLines
<1>2. \A i \in 1..L : i \in Positions
    BY <1>1 DEF Positions
<1>3. PICK p : IsPath(p, raising, of, Moves(e), m, n)
    BY DEF Path
<1> HIDE DEF L, f
<1>4. /\ p \in [0..L -> Memory] /\ p[0] = m /\ p[L] = n
      /\ \A i \in 1..L : Does(raising, of, Move(f, i, e.args[i]), p[i - 1], p[i])
    BY <1>1, <1>3 DEF IsPath
<1> DEFINE After(k) ==
               /\ p[k].result = m.result
               /\ \A g \in Functions \ {f} : p[k].parameter[g] = m.parameter[g]
               /\ \A i \in 1..k : p[k].parameter[f][i] = ShownIn(of, e.args[i], m)
           I == {k \in Nat : k <= L => After(k)}
<1>5. 0 \in I
    BY <1>4
<1>6. ASSUME NEW k \in I PROVE k + 1 \in I
  <2> SUFFICES ASSUME k + 1 <= L PROVE After(k + 1)
      OBVIOUS
  <2> DEFINE v == ShownIn(of, e.args[k + 1], p[k])
  <2>1. k + 1 \in 1..L /\ (k + 1) - 1 = k /\ After(k) /\ k \in 0..L /\ k + 1 \in 0..L
      BY <1>1
  <2>2. Does(raising, of, Move(f, k + 1, e.args[k + 1]), p[k], p[k + 1])
      BY <1>4, <2>1
  <2>3. p[k + 1].parameter = [p[k].parameter EXCEPT ![f][k + 1] = v] /\ p[k + 1].result = p[k].result
      BY <2>2, Zenon DEF Does, Move
  <2>4. v = ShownIn(of, e.args[k + 1], m)
      BY <2>1 DEF ShownIn, Own, f
  <2>5. p[k].parameter \in [Functions -> [Positions -> Int]]
      BY <1>4, <2>1 DEF Memory, Given
  <2>6. k + 1 \in Positions
      BY <1>2, <2>1
  <2> HIDE DEF v
  <2>7. /\ \A g \in Functions \ {f} : p[k + 1].parameter[g] = p[k].parameter[g]
        /\ \A i \in Positions : p[k + 1].parameter[f][i] = IF i = k + 1 THEN v ELSE p[k].parameter[f][i]
      BY <1>1, <2>3, <2>5, <2>6
  <2>8. \A i \in 1..k + 1 : p[k + 1].parameter[f][i] = ShownIn(of, e.args[i], m)
    <3> TAKE i \in 1..k + 1
    <3>1. i \in Positions /\ (i # k + 1 => i \in 1..k)
        BY <1>1, <1>2, <2>1
    <3> QED
        BY <2>1, <2>4, <2>7, <3>1
  <2> QED
      BY <2>1, <2>3, <2>7, <2>8
<1>7. After(L)
  <2>1. I = Nat
      BY <1>5, <1>6, InductionOfSets
  <2>2. L \in I /\ L <= L
    <3> HIDE DEF I
    <3> QED
        BY <1>1, <2>1
  <2> HIDE DEF After
  <2> QED
      BY <2>2
<1> QED
    BY <1>4, <1>7 DEF f, L, Filled

(* The calls of an expression that keeps them apart do prepare it.         *)
LEMMA CallsPrepare ==
    ASSUME NEW raising
    PROVE  \A e \in Expressions : Apart[e] => Prepares(raising, e)
<1> DEFINE S == {e \in Expressions : Apart[e] => Prepares(raising, e)}
<1>1. ASSUME NEW e \in Expressions, Lower(e) \subseteq S PROVE e \in S
  <2> SUFFICES ASSUME Apart[e],
                      NEW of \in (Functions \union {"none"}) \ Runs[e],
                      NEW m \in Memory, NEW n \in Memory, Path(raising, of, CallsIn[e], m, n)
               PROVE  /\ Runs[e] \intersect raising = {}
                      /\ ShownIn(of, e, n) = Meaning[e][Own(m.parameter, of)]
                      /\ Untouched(Runs[e], m, n)
      BY DEF Prepares
  <2> DEFINE own == Own(m.parameter, of)
             calls == [i \in 1..Len(e.args) |-> CallsIn[e.args[i]]]
  <2>1. own \in Given
      BY OwnIsGiven
  <2>2. \A i \in 1..Len(e.args) : Prepares(raising, e.args[i])
    <3> TAKE i \in 1..Len(e.args)
    <3>1. e.args[i] \in S /\ Apart[e.args[i]]
        BY <1>1, Shapes, ApartAre
    <3> QED
        BY <3>1
  <2>3. CASE e.op \notin {"call", "binary"}
    <3>1. CallsIn[e] = << >>
        BY <2>3, CallsAre
    <3>2. n = m
        BY <3>1, PathOfNothing
    <3>3. Reads[e] = {}
      <4>1. e.op = "text" => Reads[e] = {}
          BY ApartAre
      <4>2. e.op # "text" => e.op # "call" /\ Len(e.args) = 0
          BY <2>3, Shapes DEF Operators
      <4> QED
          BY <4>1, <4>2, ReadsAre
    <3>4. Runs[e] = {}
      <4>1. e.op # "text" => e.op # "call" /\ Len(e.args) = 0
          BY <2>3, Shapes DEF Operators
      <4> QED
          BY <4>1, RunsAre
    <3>5. m.result \in [Functions -> Int]
        BY DEF Memory
    <3>6. ShownIn(of, e, n) = Meaning[e][own]
        BY <2>1, <3>2, <3>3, <3>5, RenderedWithoutCalls DEF ShownIn
    <3> QED
        BY <3>2, <3>4, <3>6 DEF Untouched
  <2>4. CASE e.op = "binary"
    <3>1. CallsIn[e] = FlattenSeq(calls)
        BY <2>4, CallsAre
    <3>2. Runs[e] = RunUnder(e)
        BY <2>4, RunsAre DEF RunUnder
    <3>3. /\ RunUnder(e) \intersect raising = {}
          /\ \A i \in 1..Len(e.args) : ShownIn(of, e.args[i], n) = Meaning[e.args[i]][own]
          /\ Untouched(RunUnder(e), m, n)
      <4>1. e.op \in {"call", "binary"} /\ Path(raising, of, FlattenSeq(calls), m, n)
          BY <2>4, <3>1
      <4> QED
          BY <2>2, <4>1, ArgumentsAreReady
    <3>4. 1 \in 1..Len(e.args) /\ 2 \in 1..Len(e.args)
        BY <2>4, Shapes
    <3>5. /\ ShownIn(of, e.args[1], n) = Meaning[e.args[1]][own]
          /\ ShownIn(of, e.args[2], n) = Meaning[e.args[2]][own]
        BY <3>3, <3>4
    <3>6. Own(n.parameter, of) \in Given /\ n.result \in [Functions -> Int]
        BY OwnIsGiven DEF Memory
    <3>7. ShownIn(of, e, n) = Operated(ShownIn(of, e.args[1], n), ShownIn(of, e.args[2], n))
        BY <2>4, <3>6, RenderedByKind DEF ShownIn
    <3>8. Meaning[e][own] = Operated(Meaning[e.args[1]][own], Meaning[e.args[2]][own])
        BY <2>1, <2>4, MeaningByKind
    <3> QED
        BY <3>2, <3>3, <3>5, <3>7, <3>8
  <2>5. CASE e.op = "call"
    <3> DEFINE f == e.f
               passed == Passed(Meaning, e, own)
    <3>1. CallsIn[e] = Append(FlattenSeq(calls) \o Moves(e), Perform(f))
        BY <2>5, CallsAre DEF Arranged
    <3>2. /\ f \in Functions /\ Len(e.args) = Takes[f] /\ Len(e.args) \in Nat
          /\ Moves(e) \in Seq(Lines) /\ Perform(f) \in Lines
        BY <2>5, Shapes, MovesAreLines
    <3>3. Runs[e] = RunBy(f) \union RunUnder(e)
        BY <2>5, RunsAre DEF RunBy, RunUnder
    <3>4. FlattenSeq(calls) \in Seq(Lines)
      <4>1. \A i \in 1..Len(e.args) : CallsIn[e.args[i]] \in Seq(Lines)
          BY CallsAre, Shapes DEF Lower
      <4>2. calls \in Seq(Seq(Lines))
        <5>1. Len(e.args) \in Nat
            BY <3>2
        <5> QED
            BY ONLY <4>1, <5>1, IsASeq
      <4> HIDE DEF calls
      <4>3. PICK upto \in [0..Len(calls) -> Seq(Lines)] : FlattenSeq(calls) = upto[Len(calls)]
          BY <4>2, EndToEndAtLast
      <4>4. Len(calls) \in 0..Len(calls)
          BY <4>2
      <4> QED
          BY <4>3, <4>4
    <3> HIDE DEF f
    <3>5. PICK k \in Memory : /\ Path(raising, of, FlattenSeq(calls) \o Moves(e), m, k)
                              /\ Does(raising, of, Perform(f), k, n)
      <4> DEFINE s == FlattenSeq(calls) \o Moves(e)
      <4>1. s \in Seq(Lines)
          BY <3>2, <3>4, ConcatProperties
      <4>2. Path(raising, of, Append(s, Perform(f)), m, n)
          BY <3>1
      <4> HIDE DEF s
      <4>3. \E k \in Memory : Path(raising, of, s, m, k) /\ Does(raising, of, Perform(f), k, n)
          BY <3>2, <4>1, <4>2, PathLast
      <4> QED
          BY <4>3 DEF s
    <3>6. PICK j \in Memory : Path(raising, of, FlattenSeq(calls), m, j) /\ Path(raising, of, Moves(e), j, k)
      <4> DEFINE s == FlattenSeq(calls)
      <4>1. s \in Seq(Lines) /\ Path(raising, of, s \o Moves(e), m, k)
          BY <3>4, <3>5
      <4> HIDE DEF s
      <4>2. \E j \in Memory : Path(raising, of, s, m, j) /\ Path(raising, of, Moves(e), j, k)
          BY <3>2, <4>1, PathSplit
      <4> QED
          BY <4>2 DEF s
    <3>7. Answers(raising, f, k, n)
        BY <3>5 DEF Does, Perform
    <3>8. /\ RunUnder(e) \intersect raising = {}
          /\ \A i \in 1..Len(e.args) : ShownIn(of, e.args[i], j) = Meaning[e.args[i]][own]
          /\ Untouched(RunUnder(e), m, j)
        BY <2>2, <2>5, <3>6, ArgumentsAreReady
    <3>9. of # f
        BY <3>3 DEF RunBy
    <3>10. /\ k.result = j.result
           /\ \A g \in Functions \ {f} : k.parameter[g] = j.parameter[g]
           /\ \A i \in 1..Len(e.args) : k.parameter[f][i] = ShownIn(of, e.args[i], j)
      <4>1. of # e.f /\ of \in Functions \union {"none"}
          BY <3>9 DEF f
      <4>2. j \in Memory /\ k \in Memory /\ Path(raising, of, Moves(e), j, k)
          BY <3>6
      <4>3. Filled(of, e, j, k)
          BY <2>5, <4>1, <4>2, MovesFill
      <4> QED
          BY <4>3 DEF f, Filled
    <3>11. k.parameter[f] = passed
      <4>1. k.parameter[f] \in [Positions -> Int] /\ \A i \in Positions : Takes[f] < i => k.parameter[f][i] = 0
          BY <3>2 DEF Memory, Given
      <4>2. \A i \in Positions : i \in Nat /\ 1 <= i
        <5>1. \A t \in Functions : Takes[t] \in Nat
            BY CallAssumption
        <5> QED
            BY <5>1 DEF Positions
      <4>3. ASSUME NEW i \in Positions
            PROVE  k.parameter[f][i] = IF i <= Len(e.args) THEN Meaning[e.args[i]][own] ELSE 0
        <5>1. CASE i <= Len(e.args)
          <6>1. i \in 1..Len(e.args)
              BY <3>2, <4>2, <5>1
          <6> QED
              BY <3>8, <3>10, <5>1, <6>1
        <5>2. CASE ~ (i <= Len(e.args))
          <6>1. Takes[f] < i
              BY <3>2, <4>2, <5>2
          <6> QED
              BY <4>1, <5>2, <6>1
        <5> QED
            BY <5>1, <5>2
      <4> QED
          BY <4>1, <4>3 DEF Passed
    <3>12. n.result[f] = Meaning[Returns[f]][passed]
        BY <3>7, <3>11 DEF Answers
    <3>13. ShownIn(of, e, n) = n.result[f]
      <4>1. Own(n.parameter, of) \in Given /\ n.result \in [Functions -> Int]
          BY OwnIsGiven DEF Memory
      <4> QED
          BY <2>5, <4>1, RenderedByKind DEF ShownIn, f
    <3>14. Meaning[e][own] = Meaning[Returns[f]][passed]
        BY <2>1, <2>5, MeaningByKind DEF f
    <3>15. Runs[e] \intersect raising = {}
        BY <3>3, <3>7, <3>8 DEF Answers
    <3>16. Untouched(Runs[e], m, n)
      <4>1. Untouched(RunBy(f), k, n)
          BY <3>7 DEF Answers
      <4>2. f \in RunBy(f)
          BY DEF RunBy
      <4> QED
          BY <3>3, <3>8, <3>10, <4>1, <4>2 DEF Untouched
    <3> QED
        BY <3>12, <3>13, <3>14, <3>15, <3>16
  <2> QED
      BY <2>3, <2>4, <2>5
<1>2. Expressions \subseteq S
  <2> HIDE DEF S
  <2> QED
      BY <1>1, TreeInduction
<1> QED
    BY <1>2

(* A function's code, of those that raise.                                 *)
CodeOf(raising, f) ==
    IF f \in raising THEN <<[Perform(f) EXCEPT !.do = "raise"]>>
    ELSE Append(CallsIn[Returns[f]], Keep(f, Returns[f]))

(* A function that keeps its body's calls apart keeps its promise, if it   *)
(* comes to its end.                                                       *)
LEMMA FunctionsAnswer ==
    ASSUME NEW raising, NEW f \in Functions, Apart[Returns[f]],
           NEW m \in Memory, NEW n \in Memory, Path(raising, f, CodeOf(raising, f), m, n)
    PROVE  Answers(raising, f, m, n)
<1> DEFINE e == Returns[f]
<1>1. e \in Expressions /\ f \notin Runs[e]
    BY NoneRunsItself, CallAssumption
<1>2. f \notin raising
  <2> SUFFICES ASSUME f \in raising PROVE FALSE
      OBVIOUS
  <2> DEFINE l == [Perform(f) EXCEPT !.do = "raise"]
  <2>1. l.do = "raise"
      BY DEF Perform
  <2> HIDE DEF l
  <2>2. PICK p : IsPath(p, raising, f, <<l>>, m, n)
      BY DEF Path, CodeOf, l
  <2>3. Does(raising, f, <<l>>[1], p[1 - 1], p[1])
      BY <2>2 DEF IsPath
  <2> QED
      BY <2>1, <2>3 DEF Does
<1> DEFINE l == Keep(f, e)
<1>3. /\ l.do = "keep" /\ l.f = f /\ l.e = e
      /\ l \in Lines
    BY <1>1 DEF Keep, Lines
<1> HIDE DEF l
<1>4. PICK k \in Memory : Path(raising, f, CallsIn[e], m, k) /\ Does(raising, f, l, k, n)
  <2>1. Path(raising, f, Append(CallsIn[e], l), m, n)
      BY <1>2 DEF CodeOf, l
  <2>2. CallsIn[e] \in Seq(Lines)
      BY <1>1, CallsAre
  <2> HIDE DEF e
  <2> QED
      BY <1>3, <2>1, <2>2, PathLast
<1>5. Prepares(raising, e)
    BY <1>1, CallsPrepare
<1>6. /\ Runs[e] \intersect raising = {}
      /\ ShownIn(f, e, k) = Meaning[e][Own(m.parameter, f)]
      /\ Untouched(Runs[e], m, k)
    BY <1>1, <1>4, <1>5 DEF Prepares
<1>7. Own(m.parameter, f) = m.parameter[f]
    BY CallAssumption DEF Own
<1>8. n.parameter = k.parameter /\ n.result = [k.result EXCEPT ![f] = ShownIn(f, e, k)]
    BY <1>3, <1>4, CallAssumption DEF Does
<1>9. k.result \in [Functions -> Int]
    BY DEF Memory
<1>10. n.result[f] = ShownIn(f, e, k) /\ \A g \in Functions \ {f} : n.result[g] = k.result[g]
    BY <1>8, <1>9
<1> QED
    BY <1>2, <1>6, <1>7, <1>8, <1>10 DEF Answers, RunBy, Untouched

-----------------------------------------------------------------------------
(* Types.  Every routine has lines of a routine, and a parameter field no  *)
(* argument is moved into is zero.                                         *)
Frame == [of : Functions \union {"none"}, code : Seq(Lines)]
Now == [parameter |-> parameter, result |-> result]

CallTypeOK ==
    /\ program \in CallPrograms
    /\ active \in Seq(Frame)
    /\ Now \in Memory
    /\ raised \in BOOLEAN

(* All but the last element of a sequence.                                 *)
LEMMA FrontOf ==
    ASSUME NEW S, NEW s \in Seq(S), s # << >>
    PROVE  /\ Front(s) \in Seq(S) /\ Len(Front(s)) = Len(s) - 1
           /\ \A i \in 1..Len(s) - 1 : Front(s)[i] = s[i]
<1>1. Len(s) \in Nat /\ Len(s) # 0
    BY EmptySeq
<1> DEFINE n == Len(s) - 1
<1>2. n \in Nat /\ 1 \in Int /\ n \in Int /\ \A i \in 1..n : s[i] \in S
    BY <1>1
<1>3. Front(s) = SubSeq(s, 1, n)
    BY DEF Front
<1> HIDE DEF n
<1>4. /\ SubSeq(s, 1, n) \in Seq(S)
      /\ Len(SubSeq(s, 1, n)) = IF 1 <= n THEN n - 1 + 1 ELSE 0
      /\ \A i \in 1..n - 1 + 1 : SubSeq(s, 1, n)[i] = s[1 + i - 1]
    BY <1>2, SubSeqProperties
<1>5. Len(Front(s)) = n
    BY <1>2, <1>3, <1>4
<1>6. \A i \in 1..n : Front(s)[i] = s[i]
    BY <1>2, <1>3, <1>4
<1> QED
    BY <1>3, <1>4, <1>5, <1>6 DEF n

(* The routine that runs, after a change of its code.                      *)
TopHas(frames, c, g) ==
    /\ g \in Seq(Frame) /\ Len(g) = Len(frames) /\ Len(g) \in Nat \ {0}
    /\ g[Len(g)].of = frames[Len(g)].of /\ g[Len(g)].code = c
    /\ \A k \in 1..Len(g) : k # Len(g) => g[k] = frames[k]
    /\ \A k \in 1..Len(g) : g[k].of = frames[k].of

(* Changing the code of the routine that runs changes no other routine.    *)
LEMMA TopReplaced ==
    ASSUME NEW frames \in Seq(Frame), frames # << >>, NEW c \in Seq(Lines), NEW g,
           g = [frames EXCEPT ![Len(frames)].code = c]
    PROVE  TopHas(frames, c, g)
<1> DEFINE n == Len(frames)
           new == [of |-> frames[n].of, code |-> c]
<1>1. n \in Nat /\ n # 0 /\ n \in 1..n
    BY EmptySeq
<1>2. frames[n] \in Frame
    BY <1>1, ElementOfSeq
<1>3. new \in Frame /\ [frames[n] EXCEPT !.code = c] = new
    BY <1>2 DEF Frame
<1>4. g = [frames EXCEPT ![n] = new]
    BY <1>3
<1> HIDE DEF n, new
<1>5. g \in Seq(Frame) /\ Len(g) = n /\ \A k \in 1..n : g[k] = IF k = n THEN new ELSE frames[k]
  <2>1. /\ [frames EXCEPT ![n] = new] \in Seq(Frame)
        /\ Len([frames EXCEPT ![n] = new]) = Len(frames)
        /\ \A k \in 1..Len(frames) : [frames EXCEPT ![n] = new][k] = IF k = n THEN new ELSE frames[k]
    <3>1. n \in 1..Len(frames)
        BY <1>1 DEF n
    <3> QED
        BY ONLY frames \in Seq(Frame), <1>3, <3>1, ExceptSeq
  <2> QED
      BY <1>4, <2>1 DEF n
<1> QED
    BY <1>1, <1>5 DEF n, new, TopHas

(* The code of a function is a sequence of lines.                          *)
LEMMA CodeOfFunctions ==
    ASSUME NEW f \in Functions, program.raising \subseteq Functions
    PROVE  FunctionCode(f) = CodeOf(program.raising, f) /\ FunctionCode(f) \in Seq(Lines)
<1>1. FunctionCode(f) = CodeOf(program.raising, f)
    BY DEF FunctionCode, CodeOf
<1>2. CASE f \in program.raising
  <2> DEFINE l == [Perform(f) EXCEPT !.do = "raise"]
  <2>1. l \in Lines
      BY DEF Perform, Lines
  <2> HIDE DEF l
  <2>2. <<l>> \in Seq(Lines)
      BY <2>1
  <2> QED
      BY <1>1, <1>2, <2>2 DEF CodeOf, l
<1>3. CASE f \notin program.raising
  <2>1. Returns[f] \in Expressions /\ CallsIn[Returns[f]] \in Seq(Lines)
      BY CallsAre, CallAssumption
  <2>2. Keep(f, Returns[f]) \in Lines
      BY <2>1 DEF Keep, Lines
  <2> QED
      BY <1>1, <1>3, <2>1, <2>2, AppendProperties DEF CodeOf
<1> QED
    BY <1>1, <1>2, <1>3

(* So is the code of a statement.                                          *)
LEMMA StatementsAre ==
    ASSUME NEW statement, NEW e \in Expressions
    PROVE  StatementCode(statement, e) \in Seq(Lines)
<1>1. Keep("none", e) \in Lines
    BY DEF Keep, Lines
<1>2. CallsIn[e] \in Seq(Lines)
    BY CallsAre
<1> QED
    BY <1>1, <1>2, AppendProperties DEF StatementCode

(* The line that runs next.                                                *)
LEMMA TheLine ==
    ASSUME CallTypeOK, NEW kind, At(kind)
    PROVE  /\ active # << >> /\ Len(active) \in Nat \ {0}
           /\ Running = active[Len(active)] /\ Running \in Frame
           /\ Running.code # << >> /\ Line \in Lines /\ Line.do = kind
           /\ Tail(Running.code) \in Seq(Lines)
<1>1. active \in Seq(Frame) /\ active # << >> /\ Running.code # << >> /\ Line.do = kind
    BY DEF CallTypeOK, At
<1>2. Len(active) \in Nat /\ Len(active) # 0
    BY <1>1, EmptySeq
<1>3. Running = active[Len(active)] /\ Running \in Frame
    BY <1>1, <1>2, ElementOfSeq DEF Running, Last
<1>4. Running.code \in Seq(Lines)
    BY <1>3 DEF Frame
<1> QED
    BY <1>1, <1>2, <1>3, <1>4, HeadTailProperties DEF Line

(* What a routine reads of an expression is a number.                      *)
LEMMA ValuesShown ==
    ASSUME NEW of \in Functions \union {"none"}, NEW e \in Expressions, NEW m \in Memory
    PROVE  ShownIn(of, e, m) \in Int
<1>1. Own(m.parameter, of) \in Given /\ m.result \in [Functions -> Int]
    BY OwnIsGiven DEF Memory
<1> QED
    BY <1>1, Renders DEF ShownIn

(* A line of code does to the fields what the proofs above say it does.    *)
LEMMA MoveDoes ==
    ASSUME CallTypeOK, MoveArgument
    PROVE  Now' \in Memory /\ Does(program.raising, Running.of, Line, Now, Now')
<1> DEFINE v == ShownIn(Running.of, Line.e, Now)
           f == Line.f
           i == Line.i
<1>1. Line \in Lines /\ Line.do = "move" /\ Running \in Frame
    BY TheLine DEF MoveArgument
<1>2. f \in Functions /\ Line.e \in Expressions /\ i \in 1..Takes[f] /\ Running.of \in Functions \union {"none"}
    BY <1>1 DEF Lines, Frame
<1>3. v \in Int
    BY <1>2, ValuesShown DEF CallTypeOK
<1>4. parameter' = [parameter EXCEPT ![f][i] = v] /\ result' = result
    BY DEF MoveArgument, Shown, ShownIn, Now
<1>5. /\ parameter \in [Functions -> [Positions -> Int]] /\ result \in [Functions -> Int]
      /\ \A g \in Functions, j \in Positions : Takes[g] < j => parameter[g][j] = 0
    BY DEF CallTypeOK, Now, Memory, Given
<1>6. Takes[f] \in Nat /\ i \in Positions /\ \A j \in Positions : j \in Nat
  <2>1. \A t \in Functions : Takes[t] \in Nat
      BY CallAssumption
  <2> QED
      BY <1>2, <2>1 DEF Positions
<1> HIDE DEF v, f, i
<1>7. parameter' \in [Functions -> [Positions -> Int]]
    BY <1>2, <1>3, <1>4, <1>5, <1>6
<1>8. \A g \in Functions, j \in Positions : Takes[g] < j => parameter'[g][j] = 0
  <2> SUFFICES ASSUME NEW g \in Functions, NEW j \in Positions, Takes[g] < j
               PROVE  parameter'[g][j] = 0
      OBVIOUS
  <2>1. ~ (g = f /\ j = i)
      BY <1>2, <1>6
  <2>2. parameter'[g][j] = parameter[g][j]
      BY <1>2, <1>4, <1>5, <1>6, <2>1
  <2> QED
      BY <1>5, <2>2
<1>9. Now' = [parameter |-> parameter', result |-> result']
    BY DEF Now
<1>10. Now' \in Memory
    BY <1>4, <1>5, <1>7, <1>8, <1>9 DEF Memory, Given
<1>11. /\ (Now').parameter = [Now.parameter EXCEPT ![f][i] = v]
       /\ (Now').result = Now.result
    BY <1>4, <1>9 DEF Now
<1> QED
    BY <1>1, <1>10, <1>11 DEF Does, v, f, i

(* So do the use of an expression and the return of a function.            *)
LEMMA KeepDoes ==
    ASSUME CallTypeOK, KeepAnswer
    PROVE  /\ Now' \in Memory /\ Does(program.raising, Running.of, Line, Now, Now')
           /\ Line.f = "none" => stored' = <<ShownIn(Running.of, Line.e, Now)>> /\ Now' = Now
           /\ Line.f # "none" => stored' = stored
<1> DEFINE v == ShownIn(Running.of, Line.e, Now)
           f == Line.f
<1>1. Line \in Lines /\ Line.do = "keep" /\ Running \in Frame
    BY TheLine DEF KeepAnswer
<1>2. f \in Functions \union {"none"} /\ Line.e \in Expressions /\ Running.of \in Functions \union {"none"}
    BY <1>1 DEF Lines, Frame
<1>3. v \in Int
    BY <1>2, ValuesShown DEF CallTypeOK
<1>4. /\ parameter' = parameter
      /\ IF f = "none" THEN stored' = <<v>> /\ result' = result
         ELSE result' = [result EXCEPT ![f] = v] /\ stored' = stored
    BY DEF KeepAnswer, Shown, ShownIn, Now
<1>5. /\ parameter \in [Functions -> Given] /\ result \in [Functions -> Int]
      /\ \A g \in Functions, j \in Positions : Takes[g] < j => parameter[g][j] = 0
    BY DEF CallTypeOK, Now, Memory
<1>6. Now' = [parameter |-> parameter', result |-> result']
    BY DEF Now
<1> HIDE DEF v, f
<1>7. result' \in [Functions -> Int]
    BY <1>2, <1>3, <1>4, <1>5
<1>8. Now' \in Memory
    BY <1>4, <1>5, <1>6, <1>7 DEF Memory
<1>9. /\ (Now').parameter = Now.parameter
      /\ (Now').result = IF f = "none" THEN Now.result ELSE [Now.result EXCEPT ![f] = v]
    BY <1>4, <1>6 DEF Now
<1>10. Does(program.raising, Running.of, Line, Now, Now')
    BY <1>1, <1>9 DEF Does, v, f
<1> QED
    BY <1>4, <1>6, <1>8, <1>10 DEF Now, v, f

(* Types hold in every state.                                              *)
LEMMA CallTypesStart == ASSUME CallInit PROVE CallTypeOK
<1>1. program \in CallPrograms /\ program.e \in Expressions
    BY CallAssumption DEF CallInit
<1> DEFINE frame == [of |-> "none", code |-> StatementCode(program.statement, program.e)]
<1>2. frame \in Frame
    BY <1>1, StatementsAre DEF Frame
<1> HIDE DEF frame
<1>3. active \in Seq(Frame)
    BY <1>2 DEF CallInit, frame
<1>4. Now \in Memory
    BY DEF CallInit, Now, Memory, Nothing, Given
<1> QED
    BY <1>1, <1>3, <1>4 DEF CallInit, CallTypeOK

(* Each step keeps the types.                                              *)
LEMMA CallTypesKept ==
    ASSUME CallTypeOK, [CallNext]_callVars
    PROVE  CallTypeOK'
<1> USE DEF CallTypeOK
<1>0. program.raising \subseteq Functions
    BY CallAssumption
<1>1. ASSUME NEW kind, At(kind)
      PROVE  Advanced(active) \in Seq(Frame)
  <2>1. active # << >> /\ Tail(Running.code) \in Seq(Lines) /\ Running = active[Len(active)]
      BY <1>1, TheLine
  <2>2. Advanced(active) = [active EXCEPT ![Len(active)].code = Tail(Running.code)]
      BY <2>1 DEF Advanced
  <2> QED
      BY <2>1, <2>2, TopReplaced DEF TopHas
<1>2. CASE MoveArgument
  <2>1. active' \in Seq(Frame)
      BY <1>1, <1>2 DEF MoveArgument
  <2>2. Now' \in Memory
      BY <1>2, MoveDoes
  <2> QED
      BY <1>2, <2>1, <2>2 DEF MoveArgument
<1>3. CASE PerformFunction
  <2>1. At("perform") /\ Line \in Lines /\ Line.do = "perform"
      BY <1>3, TheLine DEF PerformFunction
  <2>2. Line.f \in Functions
      BY <2>1 DEF Lines
  <2> DEFINE new == [of |-> Line.f, code |-> FunctionCode(Line.f)]
  <2>3. new \in Frame
      BY <1>0, <2>2, CodeOfFunctions DEF Frame
  <2>4. active' = Append(Advanced(active), new)
      BY <1>3 DEF PerformFunction
  <2> HIDE DEF new
  <2>5. active' \in Seq(Frame)
      BY <1>1, <2>1, <2>3, <2>4, AppendProperties
  <2>6. Now' = Now
      BY <1>3 DEF PerformFunction, Now
  <2> QED
      BY <1>3, <2>5, <2>6 DEF PerformFunction
<1>4. CASE KeepAnswer
  <2>1. active' \in Seq(Frame)
      BY <1>1, <1>4 DEF KeepAnswer
  <2>2. Now' \in Memory
      BY <1>4, KeepDoes
  <2> QED
      BY <1>4, <2>1, <2>2 DEF KeepAnswer
<1>5. ASSUME NEW frames \in Seq(Frame), frames # << >> PROVE Left(frames) \in Seq(Frame)
  <2>1. << >> \in Seq(Lines)
      OBVIOUS
  <2> QED
      BY <1>5, <2>1, TopReplaced DEF Left, TopHas
<1>6. CASE RaiseFailure
  <2>1. active # << >> /\ active' = Left(active)
      BY <1>6 DEF RaiseFailure, At
  <2>2. active' \in Seq(Frame)
      BY <1>5, <2>1
  <2>3. Now' = Now
      BY <1>6 DEF RaiseFailure, Now
  <2> QED
      BY <1>6, <2>2, <2>3 DEF RaiseFailure
<1>7. CASE Return
  <2>1. active # << >> /\ Len(active) \in Nat /\ Len(active) # 0
      BY <1>7, EmptySeq DEF Return
  <2>2. active' \in Seq(Frame)
    <3>1. CASE Len(active) = 1
        BY <1>7, <3>1 DEF Return
    <3>2. CASE Len(active) # 1
      <4> DEFINE front == Front(active)
      <4>1. front \in Seq(Frame) /\ Len(front) = Len(active) - 1
          BY <2>1, FrontOf
      <4> HIDE DEF front
      <4>2. front # << >>
          BY <2>1, <3>2, <4>1
      <4>3. active' = AfterReturn(front)
          BY <1>7, <3>2 DEF Return, front
      <4> QED
          BY <1>5, <4>1, <4>2, <4>3 DEF AfterReturn
    <3> QED
        BY <3>1, <3>2
  <2>3. Now' = Now
      BY <1>7 DEF Return, Now
  <2> QED
      BY <1>7, <2>2, <2>3 DEF Return
<1>8. CASE UNCHANGED callVars
    BY <1>8 DEF callVars, Now
<1> QED
    BY <1>2, <1>3, <1>4, <1>6, <1>7, <1>8 DEF CallNext

(* Every routine of the generated code has lines of a routine, and its     *)
(* fields hold numbers.                                                    *)
THEOREM CallTypes == CallSpec => []CallTypeOK
<1>1. CallInit => CallTypeOK
    BY CallTypesStart
<1>2. CallTypeOK /\ [CallNext]_callVars => CallTypeOK'
    BY CallTypesKept
<1> QED
    BY <1>1, <1>2, PTL DEF CallSpec

-----------------------------------------------------------------------------
(* The functions the statement comes to run, if it is one that runs any,   *)
(* and the lines the code of a routine is made of.                         *)
Known(p) == IF MakesCalls(p.statement) THEN Runs[p.e] ELSE {}
Fails(p) == Known(p) \intersect p.raising # {}

OwnLines(p, of) ==
    {l \in Lines :
        /\ l.do = "perform" => l.f \in Known(p)
        /\ l.do = "keep" => l.f = of /\ (of = "none" => l.e = p.e)
        /\ l.do = "raise" => of \in Known(p) \intersect p.raising}

(* Only the statement is no function, each routine runs its own lines, and *)
(* the one that raised has none left.                                      *)
RoutinesRunTheirLines ==
    /\ \A k \in 1..Len(active) : /\ active[k].code \in Seq(OwnLines(program, active[k].of))
                                 /\ active[k].of = "none" <=> k = 1
    /\ raised /\ active # << >> => Running.code = << >>

(* The statement uses its expression last.                                 *)
StatementEndsLast ==
    active # << >> =>
        /\ \A i \in 1..Len(active[1].code) :
              active[1].code[i].do = "keep" <=> i = Len(active[1].code)
        /\ Len(active) > 1 /\ ~ raised => active[1].code # << >>

Used == <<Rendered[program.e][Nothing][result]>>
MeantBy(p) == Meaning[p.e][Nothing]

StoredWhenUsed ==
    /\ raised => stored = << >> /\ Fails(program)
    /\ ~ raised /\ active = << >> => stored = <<MeantBy(program)>> /\ ~ Fails(program)
    /\ ~ raised /\ active # << >> =>
          stored = IF active[1].code # << >> THEN << >> ELSE Used

(* What a routine promises of the fields as they are when it ends, the     *)
(* ones it was entered with being m.                                       *)
Promises(p, of, m, n) ==
    IF of = "none" THEN ~ Fails(p) /\ Rendered[p.e][Nothing][n.result] = MeantBy(p)
    ELSE Answers(p.raising, of, m, n)

(* The fields a routine may go on with: those of now, if it is the one that *)
(* runs, and else any in which the one it performs has kept its promise.    *)
GoesOnWith(p, frames, entered, now, k, m) ==
    IF k = Len(frames) THEN m = now
    ELSE Promises(p, frames[k + 1].of, entered[k + 1], m)

KeepsPromise(p, frames, entered, now, k) ==
    \A m, n \in Memory :
        /\ GoesOnWith(p, frames, entered, now, k, m)
        /\ Path(p.raising, frames[k].of, frames[k].code, m, n)
        => Promises(p, frames[k].of, entered[k], n)

AllKeepTheirPromise(p, frames, entered, now) ==
    /\ entered \in [1..Len(frames) -> Memory]
    /\ \A k \in 1..Len(frames) : KeepsPromise(p, frames, entered, now, k)

PromisesKept == raised \/ \E entered : AllKeepTheirPromise(program, active, entered, Now)

-----------------------------------------------------------------------------
(* What a sound statement runs is sound.                                   *)
LEMMA KnownAreSound ==
    ASSUME CallTypeOK, SoundStatement
    PROVE  /\ program.e \in Expressions /\ program.raising \subseteq Functions
           /\ Known(program) \subseteq Functions
           /\ MakesCalls(program.statement) => Apart[program.e]
           /\ \A f \in Known(program) : Apart[Returns[f]] /\ Runs[Returns[f]] \subseteq Known(program)
<1>1. program.e \in Expressions /\ program.raising \subseteq Functions
    BY CallAssumption DEF CallTypeOK
<1>2. Known(program) \subseteq Functions
    BY <1>1, RunsAre DEF Known
<1>3. MakesCalls(program.statement) => Apart[program.e]
    BY DEF SoundStatement
<1>4. ASSUME NEW f \in Known(program)
      PROVE  Apart[Returns[f]] /\ Runs[Returns[f]] \subseteq Known(program)
  <2>1. MakesCalls(program.statement) /\ f \in Runs[program.e] /\ Known(program) = Runs[program.e]
      BY DEF Known
  <2> QED
      BY <1>1, <1>3, <2>1, RunsKeepApart
<1> QED
    BY <1>1, <1>2, <1>3, <1>4

(* The calls of an expression are the routine's own lines.                 *)
LEMMA CallsAreOwn ==
    ASSUME NEW e \in Expressions, NEW of, Runs[e] \subseteq Known(program)
    PROVE  CallsIn[e] \in Seq(OwnLines(program, of))
<1>1. LinesOf(e) \subseteq OwnLines(program, of)
    BY DEF LinesOf, OwnLines
<1> QED
    BY <1>1, CodeOfCalls, SeqMonotonic

(* The code of a function is made of its own lines.                        *)
LEMMA FunctionsRunTheirLines ==
    ASSUME CallTypeOK, SoundStatement, NEW f \in Known(program)
    PROVE  FunctionCode(f) \in Seq(OwnLines(program, f))
<1>1. f \in Functions /\ f # "none" /\ Returns[f] \in Expressions /\ Runs[Returns[f]] \subseteq Known(program)
    BY KnownAreSound, CallAssumption
<1>2. CASE f \in program.raising
  <2> DEFINE l == [Perform(f) EXCEPT !.do = "raise"]
  <2>1. l \in Lines /\ l.do = "raise"
      BY <1>1 DEF Perform, Lines
  <2> HIDE DEF l
  <2>2. l \in OwnLines(program, f)
      BY <1>2, <2>1 DEF OwnLines
  <2>3. <<l>> \in Seq(OwnLines(program, f))
      BY <2>2
  <2> QED
      BY <1>2, <2>3 DEF FunctionCode, l
<1>3. CASE f \notin program.raising
  <2> DEFINE l == Keep(f, Returns[f])
  <2>1. l \in Lines /\ l.do = "keep" /\ l.f = f
      BY <1>1 DEF Keep, Lines
  <2> HIDE DEF l
  <2>2. l \in OwnLines(program, f)
      BY <1>1, <2>1 DEF OwnLines
  <2>3. Append(CallsIn[Returns[f]], l) \in Seq(OwnLines(program, f))
      BY <1>1, <2>2, CallsAreOwn, AppendProperties
  <2> QED
      BY <1>3, <2>3 DEF FunctionCode, l
<1> QED
    BY <1>2, <1>3

(* The statement's own lines: it ends in the use of its expression, and    *)
(* when it comes to its end that is what the expression means.             *)
LEMMA StatementRunsItsLines ==
    ASSUME CallTypeOK, SoundStatement
    PROVE  LET lines == StatementCode(program.statement, program.e)
           IN  /\ lines \in Seq(OwnLines(program, "none")) /\ lines # << >>
               /\ \A i \in 1..Len(lines) : lines[i].do = "keep" <=> i = Len(lines)
<1> DEFINE e == program.e
           l == Keep("none", e)
           S == OwnLines(program, "none")
<1>1. e \in Expressions
    BY KnownAreSound
<1>2. l \in S /\ l.do = "keep"
    BY <1>1 DEF Keep, Lines, OwnLines
<1>3. CASE MakesCalls(program.statement)
  <2> DEFINE s == CallsIn[e]
  <2>1. s \in Seq(S) /\ s \in Seq(LinesOf(e))
      BY <1>1, <1>3, CallsAreOwn, CodeOfCalls DEF Known
  <2>2. \A i \in 1..Len(s) : s[i].do # "keep"
    <3> TAKE i \in 1..Len(s)
    <3>1. s[i] \in LinesOf(e)
        BY <2>1, ElementOfSeq
    <3> QED
        BY <3>1 DEF LinesOf
  <2>3. StatementCode(program.statement, program.e) = Append(s, l)
      BY <1>3 DEF StatementCode
  <2> HIDE DEF s, l, S
  <2>4. /\ Append(s, l) \in Seq(S) /\ Append(s, l) # << >> /\ Len(Append(s, l)) = Len(s) + 1
        /\ \A i \in 1..Len(s) : Append(s, l)[i] = s[i]
        /\ Append(s, l)[Len(s) + 1] = l
      BY <1>2, <2>1, AppendProperties
  <2>5. Len(s) \in Nat
      BY <2>1
  <2>6. \A i \in 1..Len(s) + 1 : Append(s, l)[i].do = "keep" <=> i = Len(s) + 1
    <3> TAKE i \in 1..Len(s) + 1
    <3>1. i # Len(s) + 1 => i \in 1..Len(s)
        BY <2>5
    <3>2. i # Len(s) + 1 => Append(s, l)[i].do # "keep"
        BY <2>2, <2>4, <3>1
    <3> QED
        BY <1>2, <2>4, <3>2
  <2> QED
      BY <2>3, <2>4, <2>6 DEF S
<1>4. CASE ~ MakesCalls(program.statement)
  <2>1. StatementCode(program.statement, program.e) = <<l>>
      BY <1>4 DEF StatementCode
  <2> HIDE DEF l
  <2> QED
      BY <1>2, <2>1
<1> QED
    BY <1>3, <1>4

(* When the code of the statement has run, the expression reads what it    *)
(* means.                                                                  *)
LEMMA StatementsKeepTheirPromise ==
    ASSUME CallTypeOK, SoundStatement, NEW m \in Memory, NEW n \in Memory,
           Path(program.raising, "none", StatementCode(program.statement, program.e), m, n)
    PROVE  Promises(program, "none", m, n)
<1> DEFINE e == program.e
           l == Keep("none", e)
<1>1. e \in Expressions
    BY KnownAreSound
<1>2. \A k : Own(k.parameter, "none") = Nothing
    BY DEF Own
<1>3. n.result \in [Functions -> Int] /\ Nothing \in Given
    BY DEF Memory, Nothing, Given
<1>4. CASE MakesCalls(program.statement)
  <2>1. l \in Lines /\ l.do = "keep" /\ l.f = "none"
      BY <1>1 DEF Keep, Lines
  <2>2. PICK k \in Memory : /\ Path(program.raising, "none", CallsIn[e], m, k)
                            /\ Does(program.raising, "none", l, k, n)
    <3>1. Path(program.raising, "none", Append(CallsIn[e], l), m, n)
        BY <1>4 DEF StatementCode
    <3>2. CallsIn[e] \in Seq(Lines)
        BY <1>1, CallsAre
    <3> HIDE DEF e, l
    <3> QED
        BY <2>1, <3>1, <3>2, PathLast
  <2> HIDE DEF l
  <2>3. n.result = k.result
      BY <2>1, <2>2 DEF Does
  <2>4. Runs[e] \subseteq Functions /\ "none" \notin Functions /\ Apart[e]
      BY <1>1, <1>4, KnownAreSound, RunsAre, CallAssumption
  <2>5. Prepares(program.raising, e)
      BY <1>1, <2>4, CallsPrepare
  <2>6. /\ Runs[e] \intersect program.raising = {}
        /\ ShownIn("none", e, k) = Meaning[e][Own(m.parameter, "none")]
      BY <2>2, <2>4, <2>5 DEF Prepares
  <2> QED
      BY <1>2, <1>4, <2>3, <2>6 DEF Promises, Fails, Known, MeantBy, ShownIn
<1>5. CASE ~ MakesCalls(program.statement)
  <2>1. Reads[e] = {}
      BY <1>5 DEF SoundStatement
  <2>2. Rendered[e][Nothing][n.result] = Meaning[e][Nothing]
      BY <1>1, <1>3, <2>1, RenderedWithoutCalls
  <2> QED
      BY <1>5, <2>2 DEF Promises, Fails, Known, MeantBy
<1> QED
    BY <1>4, <1>5

(* The frames after a line has run.                                        *)
LEMMA LineDone ==
    ASSUME CallTypeOK, NEW kind, At(kind)
    PROVE  /\ Advanced(active) \in Seq(Frame) /\ Len(Advanced(active)) = Len(active)
           /\ Len(active) \in Nat \ {0}
           /\ Advanced(active)[Len(active)].of = Running.of
           /\ Advanced(active)[Len(active)].code = Tail(Running.code)
           /\ \A k \in 1..Len(active) : k # Len(active) => Advanced(active)[k] = active[k]
           /\ \A k \in 1..Len(active) : Advanced(active)[k].of = active[k].of
<1>1. /\ active \in Seq(Frame) /\ active # << >>
      /\ Tail(Running.code) \in Seq(Lines) /\ Running = active[Len(active)]
    BY TheLine DEF CallTypeOK
<1> DEFINE g == Advanced(active)
           c == Tail(Running.code)
<1>2. g = [active EXCEPT ![Len(active)].code = c]
    BY <1>1 DEF Advanced
<1> HIDE DEF g, c
<1>3. TopHas(active, c, g)
  <2>1. c \in Seq(Lines) /\ active \in Seq(Frame) /\ active # << >>
      BY <1>1 DEF c
  <2> QED
      BY <1>2, <2>1, TopReplaced
<1> QED
    BY <1>1, <1>3 DEF g, c, TopHas

(* A routine that runs has not raised, and its line is one of its own.     *)
LEMMA RunsOwnLine ==
    ASSUME CallTypeOK, RoutinesRunTheirLines, NEW kind, At(kind)
    PROVE  /\ ~ raised
           /\ Running.code \in Seq(OwnLines(program, Running.of))
           /\ Line \in OwnLines(program, Running.of)
           /\ Tail(Running.code) \in Seq(OwnLines(program, Running.of))
           /\ Running.of = "none" <=> Len(active) = 1
<1>1. /\ active # << >> /\ Len(active) \in Nat \ {0}
      /\ Running = active[Len(active)] /\ Running.code # << >>
    BY TheLine
<1>2. Len(active) \in 1..Len(active)
    BY <1>1
<1>3. Running.code \in Seq(OwnLines(program, Running.of)) /\ (Running.of = "none" <=> Len(active) = 1)
    BY <1>1, <1>2 DEF RoutinesRunTheirLines
<1>4. ~ raised
    BY <1>1 DEF RoutinesRunTheirLines
<1> QED
    BY <1>1, <1>3, <1>4, HeadTailProperties DEF Line

(* While a routine has lines left, the statement has yet to use its        *)
(* expression.                                                             *)
LEMMA NotYetUsed ==
    ASSUME CallTypeOK, RoutinesRunTheirLines, StatementEndsLast, StoredWhenUsed, NEW kind, At(kind)
    PROVE  stored = << >> /\ active[1].code # << >>
<1>1. ~ raised /\ active # << >> /\ Len(active) \in Nat \ {0} /\ Running = active[Len(active)] /\ Running.code # << >>
    BY RunsOwnLine, TheLine
<1>2. active[1].code # << >>
    BY <1>1 DEF StatementEndsLast
<1> QED
    BY <1>1, <1>2 DEF StoredWhenUsed

(* A line that has run leaves each routine with its own lines.             *)
LEMMA LineKeepsRoutines ==
    ASSUME CallTypeOK, RoutinesRunTheirLines, NEW kind, At(kind),
           active' = Advanced(active), program' = program, raised' = raised
    PROVE  RoutinesRunTheirLines'
<1> DEFINE n == Len(active)
           g == Advanced(active)
<1>1. /\ ~ raised /\ Tail(Running.code) \in Seq(OwnLines(program, Running.of))
      /\ Running = active[n]
    BY RunsOwnLine, TheLine
<1>2. /\ Len(g) = n /\ n \in Nat \ {0}
      /\ g[n].of = Running.of /\ g[n].code = Tail(Running.code)
      /\ \A k \in 1..n : k # n => g[k] = active[k]
      /\ \A k \in 1..n : g[k].of = active[k].of
    BY LineDone
<1> HIDE DEF n, g
<1>3. ASSUME NEW k \in 1..n
      PROVE  /\ g[k].code \in Seq(OwnLines(program, g[k].of))
             /\ g[k].of = "none" <=> k = 1
  <2>1. /\ active[k].code \in Seq(OwnLines(program, active[k].of))
        /\ active[k].of = "none" <=> k = 1
      BY DEF RoutinesRunTheirLines, n
  <2>2. CASE k = n
    <3>1. g[k].of = Running.of /\ g[k].code = Tail(Running.code) /\ g[k].of = active[k].of
        BY <1>2, <2>2
    <3> QED
        BY <1>1, <2>1, <3>1
  <2>3. CASE k # n
      BY <1>2, <2>1, <2>3
  <2> QED
      BY <2>2, <2>3
<1> QED
    BY <1>1, <1>2, <1>3 DEF RoutinesRunTheirLines, g

(* A line that has run, if it is not the statement's last, leaves that one *)
(* the last.                                                               *)
LEMMA LineKeepsEnd ==
    ASSUME CallTypeOK, StatementEndsLast, NEW kind, At(kind),
           NEW g, Len(g) = Len(active), \A k \in 1..Len(active) : k # Len(active) => g[k] = active[k],
           g[Len(active)].code = Tail(Running.code)
    PROVE  /\ \A i \in 1..Len(g[1].code) : g[1].code[i].do = "keep" <=> i = Len(g[1].code)
           /\ kind # "keep" /\ ~ raised => g[1].code # << >>
           /\ Len(active) > 1 /\ ~ raised => g[1].code # << >>
           /\ kind = "keep" /\ Len(active) = 1 => g[1].code = << >>
<1>1. /\ active # << >> /\ Len(active) \in Nat \ {0} /\ Running = active[Len(active)]
      /\ Running.code # << >> /\ Running \in Frame /\ Line.do = kind
    BY TheLine
<1>2. /\ \A i \in 1..Len(active[1].code) : active[1].code[i].do = "keep" <=> i = Len(active[1].code)
      /\ Len(active) > 1 /\ ~ raised => active[1].code # << >>
    BY <1>1 DEF StatementEndsLast
<1>3. CASE Len(active) # 1
  <2>1. g[1] = active[1] /\ Len(active) > 1
      BY <1>1, <1>3
  <2> QED
      BY <1>2, <1>3, <2>1
<1>4. CASE Len(active) = 1
  <2> DEFINE c == Running.code
             L == Len(c)
  <2>1. c \in Seq(Lines) /\ c # << >> /\ g[1].code = Tail(c) /\ active[1].code = c /\ c[1].do = kind
      BY <1>1, <1>4 DEF Frame, Line
  <2> HIDE DEF c
  <2>2. /\ L \in Nat \ {0} /\ Len(Tail(c)) = L - 1 /\ \A i \in 1..L - 1 : Tail(c)[i] = c[i + 1]
        /\ Tail(c) \in Seq(Lines)
      BY <2>1, HeadTailProperties, EmptySeq
  <2>3. \A i \in 1..L : c[i].do = "keep" <=> i = L
      BY <1>2, <2>1
  <2> HIDE DEF L
  <2>4. \A i \in 1..L - 1 : Tail(c)[i].do = "keep" <=> i = L - 1
    <3> TAKE i \in 1..L - 1
    <3>1. i + 1 \in 1..L /\ (i + 1 = L <=> i = L - 1)
        BY <2>2
    <3> QED
        BY <2>2, <2>3, <3>1
  <2>5. kind = "keep" <=> L = 1
      BY <2>1, <2>2, <2>3
  <2>6. Tail(c) = << >> <=> L = 1
    <3> DEFINE t == Tail(c)
    <3>1. Len(t) = L - 1 /\ t \in Seq(Lines)
        BY <2>2
    <3> HIDE DEF t
    <3>2. t = << >> => Len(t) = 0
        BY EmptySeq
    <3>3. t # << >> => Len(t) # 0
        BY <3>1, EmptySeq
    <3>4. t = << >> <=> L = 1
        BY <2>2, <3>1, <3>2, <3>3
    <3> QED
        BY <3>4 DEF t
  <2> QED
      BY <1>4, <2>1, <2>2, <2>4, <2>5, <2>6
<1> QED
    BY <1>3, <1>4

(* A line that does what it should to the fields keeps the promises.       *)
LEMMA LineKeepsPromises ==
    ASSUME CallTypeOK, RoutinesRunTheirLines, PromisesKept, NEW kind, At(kind),
           active' = Advanced(active), program' = program, raised' = raised,
           Now' \in Memory, Does(program.raising, Running.of, Line, Now, Now')
    PROVE  PromisesKept'
<1> DEFINE n == Len(active)
           g == Advanced(active)
<1>1. /\ ~ raised /\ Running = active[n] /\ Running.code \in Seq(Lines) /\ Running.code # << >>
      /\ Now \in Memory
    BY RunsOwnLine, TheLine DEF Frame, CallTypeOK
<1>2. PICK entered : AllKeepTheirPromise(program, active, entered, Now)
    BY <1>1 DEF PromisesKept
<1>3. /\ Len(g) = n /\ n \in Nat \ {0}
      /\ g[n].of = Running.of /\ g[n].code = Tail(Running.code)
      /\ \A k \in 1..n : k # n => g[k] = active[k]
      /\ \A k \in 1..n : g[k].of = active[k].of
    BY LineDone
<1>4. entered \in [1..n -> Memory] /\ \A k \in 1..n : KeepsPromise(program, active, entered, Now, k)
    BY <1>2 DEF AllKeepTheirPromise
<1> DEFINE now == Now'
<1> HIDE DEF n, g, now
<1>5. ASSUME NEW k \in 1..n PROVE KeepsPromise(program, g, entered, now, k)
  <2>1. KeepsPromise(program, active, entered, Now, k)
      BY <1>4
  <2>2. CASE k # n
    <3>1. g[k] = active[k] /\ g[k + 1].of = active[k + 1].of /\ k # Len(g) /\ k # Len(active)
      <4>1. k + 1 \in 1..n
          BY <1>3, <2>2
      <4> QED
          BY <1>3, <2>2, <4>1 DEF n
    <3>2. \A m : GoesOnWith(program, g, entered, now, k, m) <=> GoesOnWith(program, active, entered, Now, k, m)
        BY <3>1 DEF GoesOnWith
    <3> QED
        BY <2>1, <3>1, <3>2 DEF KeepsPromise
  <2>3. CASE k = n
    <3> SUFFICES ASSUME NEW m \in Memory, NEW o \in Memory, m = now,
                        Path(program.raising, Running.of, Tail(Running.code), m, o)
                 PROVE  Promises(program, Running.of, entered[k], o)
      <4>1. g[k].of = Running.of /\ g[k].code = Tail(Running.code) /\ k = Len(g)
          BY <1>3, <2>3
      <4> QED
          BY <4>1 DEF KeepsPromise, GoesOnWith
    <3>1. Does(program.raising, Running.of, Head(Running.code), Now, m)
        BY DEF now, Line
    <3>2. Path(program.raising, Running.of, Running.code, Now, o)
        BY <1>1, <3>1, PathFirst
    <3>3. active[k] = Running /\ k = Len(active)
        BY <1>1, <2>3 DEF n
    <3> QED
        BY <1>1, <2>1, <3>2, <3>3 DEF KeepsPromise, GoesOnWith
  <2> QED
      BY <2>2, <2>3
<1>6. AllKeepTheirPromise(program, g, entered, now)
    BY <1>3, <1>4, <1>5 DEF AllKeepTheirPromise
<1>7. \E h : AllKeepTheirPromise(program, g, h, now)
    BY <1>6
<1>8. (PromisesKept)' = (raised' \/ \E h : AllKeepTheirPromise(program', active', h, Now'))
    BY DEF PromisesKept
<1> QED
    BY <1>7 DEF PromisesKept, g, now

Soundly == RoutinesRunTheirLines /\ StatementEndsLast /\ StoredWhenUsed /\ PromisesKept

(* Moving an argument into its parameter field keeps the invariant.        *)
LEMMA SoundlyMoved ==
    ASSUME CallTypeOK, Soundly, MoveArgument PROVE Soundly'
<1> USE DEF Soundly
<1>1. /\ At("move") /\ active' = Advanced(active)
      /\ program' = program /\ raised' = raised /\ stored' = stored
    BY DEF MoveArgument
<1>2. ~ raised /\ stored = << >>
    BY <1>1, RunsOwnLine, NotYetUsed
<1>3. Len(Advanced(active)) = Len(active) /\ Len(active) \in Nat \ {0}
    BY <1>1, LineDone
<1>4. /\ \A i \in 1..Len(Advanced(active)[1].code) :
             Advanced(active)[1].code[i].do = "keep" <=> i = Len(Advanced(active)[1].code)
      /\ Advanced(active)[1].code # << >>
  <2> DEFINE g == Advanced(active)
  <2>1. /\ Len(g) = Len(active) /\ g[Len(active)].code = Tail(Running.code)
        /\ \A k \in 1..Len(active) : k # Len(active) => g[k] = active[k]
      BY <1>1, LineDone
  <2> HIDE DEF g
  <2>2. /\ \A i \in 1..Len(g[1].code) : g[1].code[i].do = "keep" <=> i = Len(g[1].code)
        /\ g[1].code # << >>
      BY <1>1, <1>2, <2>1, LineKeepsEnd
  <2> QED
      BY <2>2 DEF g
<1>5. RoutinesRunTheirLines'
    BY <1>1, LineKeepsRoutines
<1>6. StatementEndsLast'
    BY <1>1, <1>4 DEF StatementEndsLast
<1>7. StoredWhenUsed'
    BY <1>1, <1>2, <1>3, <1>4 DEF StoredWhenUsed
<1>8. PromisesKept'
    BY <1>1, MoveDoes, LineKeepsPromises
<1> QED
    BY <1>5, <1>6, <1>7, <1>8

(* So does the return of a function, and the use of the expression.        *)
LEMMA SoundlyKept ==
    ASSUME CallTypeOK, Soundly, KeepAnswer PROVE Soundly'
<1> USE DEF Soundly
<1>1. /\ At("keep") /\ active' = Advanced(active)
      /\ program' = program /\ raised' = raised
    BY DEF KeepAnswer
<1>2. ~ raised /\ stored = << >> /\ active[1].code # << >>
    BY <1>1, RunsOwnLine, NotYetUsed
<1>3. Len(Advanced(active)) = Len(active) /\ Len(active) \in Nat \ {0}
    BY <1>1, LineDone
<1>4. /\ \A i \in 1..Len(Advanced(active)[1].code) :
             Advanced(active)[1].code[i].do = "keep" <=> i = Len(Advanced(active)[1].code)
      /\ Len(active) > 1 => Advanced(active)[1].code # << >>
      /\ Len(active) = 1 => Advanced(active)[1].code = << >>
  <2> DEFINE g == Advanced(active)
  <2>1. /\ Len(g) = Len(active) /\ g[Len(active)].code = Tail(Running.code)
        /\ \A k \in 1..Len(active) : k # Len(active) => g[k] = active[k]
      BY <1>1, LineDone
  <2> HIDE DEF g
  <2>2. /\ \A i \in 1..Len(g[1].code) : g[1].code[i].do = "keep" <=> i = Len(g[1].code)
        /\ Len(active) > 1 => g[1].code # << >>
        /\ Len(active) = 1 => g[1].code = << >>
      BY <1>1, <1>2, <2>1, LineKeepsEnd
  <2> QED
      BY <2>2 DEF g
<1>5. RoutinesRunTheirLines'
    BY <1>1, LineKeepsRoutines
<1>6. StatementEndsLast'
    BY <1>1, <1>3, <1>4 DEF StatementEndsLast
<1>7. StoredWhenUsed'
  <2>1. /\ Line \in OwnLines(program, Running.of) /\ (Running.of = "none" <=> Len(active) = 1)
        /\ Line.do = "keep"
      BY <1>1, RunsOwnLine, TheLine
  <2>2. Line.f = Running.of /\ (Running.of = "none" => Line.e = program.e)
      BY <2>1 DEF OwnLines
  <2>3. CASE Len(active) = 1
    <3>1. stored' = <<ShownIn("none", program.e, Now)>> /\ Now' = Now
        BY <2>1, <2>2, <2>3, KeepDoes
    <3>2. result' = result
        BY <3>1 DEF Now
    <3>3. ShownIn("none", program.e, Now) = Rendered[program.e][Nothing][result]
        BY DEF ShownIn, Own, Now
    <3>4. stored' = Used'
        BY <1>1, <3>1, <3>2, <3>3 DEF Used
    <3> QED
        BY <1>1, <1>2, <1>3, <1>4, <2>3, <3>4 DEF StoredWhenUsed
  <2>4. CASE Len(active) # 1
    <3>1. stored' = stored
        BY <2>1, <2>2, <2>4, KeepDoes
    <3> QED
        BY <1>1, <1>2, <1>3, <1>4, <2>4, <3>1 DEF StoredWhenUsed
  <2> QED
      BY <2>3, <2>4
<1>8. PromisesKept'
    BY <1>1, KeepDoes, LineKeepsPromises
<1> QED
    BY <1>5, <1>6, <1>7, <1>8

(* So does entering a function: it starts with its promise made.           *)
LEMMA SoundlyPerformed ==
    ASSUME CallTypeOK, SoundStatement, Soundly, PerformFunction PROVE Soundly'
<1> USE DEF Soundly
<1> DEFINE f == Line.f
           new == [of |-> f, code |-> FunctionCode(f)]
           g == Advanced(active)
           n == Len(active)
<1>1. /\ At("perform") /\ active' = Append(g, new)
      /\ program' = program /\ raised' = raised /\ stored' = stored /\ Now' = Now
    BY DEF PerformFunction, Now
<1>2. ~ raised /\ stored = << >> /\ active[1].code # << >>
    BY <1>1, RunsOwnLine, NotYetUsed
<1>3. /\ g \in Seq(Frame) /\ Len(g) = n /\ n \in Nat \ {0}
      /\ g[n].of = Running.of /\ g[n].code = Tail(Running.code)
      /\ \A k \in 1..n : k # n => g[k] = active[k]
      /\ \A k \in 1..n : g[k].of = active[k].of
    BY <1>1, LineDone
<1>4. /\ Running = active[n] /\ Running.code \in Seq(Lines) /\ Running.code # << >>
      /\ Line.do = "perform" /\ Line \in OwnLines(program, Running.of)
      /\ Tail(Running.code) \in Seq(OwnLines(program, Running.of))
    BY <1>1, TheLine, RunsOwnLine DEF Frame
<1>5. f \in Known(program) /\ f \in Functions /\ f # "none" /\ program.raising \subseteq Functions
    BY <1>4, KnownAreSound, CallAssumption DEF OwnLines
<1>6. /\ FunctionCode(f) \in Seq(OwnLines(program, f)) /\ FunctionCode(f) \in Seq(Lines)
      /\ FunctionCode(f) = CodeOf(program.raising, f)
    BY <1>5, FunctionsRunTheirLines, CodeOfFunctions
<1>7. new \in Frame /\ new.of = f /\ new.code = FunctionCode(f)
    BY <1>5, <1>6 DEF Frame
<1>8. /\ \A i \in 1..Len(g[1].code) : g[1].code[i].do = "keep" <=> i = Len(g[1].code)
      /\ g[1].code # << >>
  <2>1. /\ Len(g) = Len(active) /\ g[Len(active)].code = Tail(Running.code)
        /\ \A k \in 1..Len(active) : k # Len(active) => g[k] = active[k]
      BY <1>3
  <2>2. At("perform") /\ ~ raised
      BY <1>1, <1>2
  <2> HIDE DEF g, n
  <2>3. /\ \A i \in 1..Len(g[1].code) : g[1].code[i].do = "keep" <=> i = Len(g[1].code)
        /\ "perform" # "keep" /\ ~ raised => g[1].code # << >>
      BY <2>1, <2>2, LineKeepsEnd
  <2> QED
      BY <2>2, <2>3
<1> DEFINE h == Append(g, new)
<1> HIDE DEF g, new, n
<1>9. /\ Len(h) = n + 1 /\ h[n + 1] = new /\ h # << >>
      /\ \A k \in 1..n : h[k] = g[k]
    BY <1>3, <1>7, AppendProperties
<1> HIDE DEF h
<1>10. active' = h /\ h[1] = g[1]
    BY <1>1, <1>3, <1>9 DEF h
<1>11. RoutinesRunTheirLines'
  <2>1. ASSUME NEW k \in 1..n + 1
        PROVE  h[k].code \in Seq(OwnLines(program, h[k].of)) /\ (h[k].of = "none" <=> k = 1)
    <3>1. CASE k = n + 1
        BY <1>3, <1>5, <1>6, <1>7, <1>9, <3>1
    <3>2. CASE k = n
      <4>1. h[k] = g[n] /\ h[k].of = Running.of /\ h[k].code = Tail(Running.code)
          BY <1>3, <1>9, <3>2
      <4>2. active[n].of = "none" <=> n = 1
          BY <1>3 DEF RoutinesRunTheirLines, n
      <4> QED
          BY <1>4, <3>2, <4>1, <4>2
    <3>3. CASE k # n + 1 /\ k # n
      <4>1. k \in 1..n /\ h[k] = active[k]
          BY <1>3, <1>9, <3>3
      <4> QED
          BY <4>1 DEF RoutinesRunTheirLines, n
    <3> QED
        BY <3>1, <3>2, <3>3
  <2> QED
      BY <1>1, <1>2, <1>9, <1>10, <2>1 DEF RoutinesRunTheirLines
<1>12. StatementEndsLast'
    BY <1>8, <1>10 DEF StatementEndsLast
<1>13. StoredWhenUsed'
    BY <1>1, <1>2, <1>8, <1>9, <1>10 DEF StoredWhenUsed
<1>14. PromisesKept'
  <2>1. PICK entered : AllKeepTheirPromise(program, active, entered, Now)
      BY <1>2 DEF PromisesKept
  <2>2. /\ entered \in [1..n -> Memory] /\ Now \in Memory
        /\ \A k \in 1..n : KeepsPromise(program, active, entered, Now, k)
      BY <2>1 DEF AllKeepTheirPromise, n, CallTypeOK
  <2> DEFINE then == [k \in 1..n + 1 |-> IF k = n + 1 THEN Now ELSE entered[k]]
  <2>3. /\ then \in [1..n + 1 -> Memory] /\ then[n + 1] = Now
        /\ \A k \in 1..n : then[k] = entered[k]
      BY <1>3, <2>2
  <2> HIDE DEF then
  <2>4. ASSUME NEW k \in 1..n + 1 PROVE KeepsPromise(program, h, then, Now, k)
    <3>1. CASE k = n + 1
      <4> SUFFICES ASSUME NEW o \in Memory, Path(program.raising, f, FunctionCode(f), Now, o)
                   PROVE  Promises(program, f, Now, o)
        <5>1. h[k].of = f /\ h[k].code = FunctionCode(f) /\ then[k] = Now /\ k = Len(h)
            BY <1>7, <1>9, <2>3, <3>1
        <5> QED
            BY <5>1 DEF KeepsPromise, GoesOnWith
      <4>1. Apart[Returns[f]]
          BY <1>5, KnownAreSound
      <4>2. Answers(program.raising, f, Now, o)
          BY <1>5, <1>6, <2>2, <4>1, FunctionsAnswer
      <4> QED
          BY <1>5, <4>2 DEF Promises
    <3>2. CASE k = n
      <4> SUFFICES ASSUME NEW m \in Memory, NEW o \in Memory, Promises(program, f, Now, m),
                          Path(program.raising, Running.of, Tail(Running.code), m, o)
                   PROVE  Promises(program, Running.of, entered[n], o)
        <5>1. h[k].of = Running.of /\ h[k].code = Tail(Running.code) /\ then[k] = entered[n]
            BY <1>3, <1>9, <2>3, <3>2
        <5>2. k # Len(h) /\ h[k + 1].of = f /\ then[k + 1] = Now
            BY <1>3, <1>7, <1>9, <2>3, <3>2
        <5> QED
            BY <5>1, <5>2 DEF KeepsPromise, GoesOnWith
      <4>1. Answers(program.raising, f, Now, m)
          BY <1>5 DEF Promises
      <4>2. Does(program.raising, Running.of, Head(Running.code), Now, m)
          BY <1>4, <4>1 DEF Does, Line
      <4>3. Path(program.raising, Running.of, Running.code, Now, o)
          BY <1>4, <2>2, <4>2, PathFirst
      <4>4. n \in 1..n /\ n = Len(active) /\ Running = active[n]
          BY <1>3, <1>4 DEF n
      <4>5. KeepsPromise(program, active, entered, Now, n)
          BY <2>2, <4>4
      <4> QED
          BY <2>2, <4>3, <4>4, <4>5 DEF KeepsPromise, GoesOnWith
    <3>3. CASE k # n + 1 /\ k # n
      <4>1. k \in 1..n /\ k + 1 \in 1..n /\ k # Len(h) /\ k # Len(active)
          BY <1>3, <1>9, <3>3 DEF n
      <4>2. h[k] = active[k] /\ h[k + 1].of = active[k + 1].of /\ then[k] = entered[k] /\ then[k + 1] = entered[k + 1]
          BY <1>3, <1>9, <2>3, <3>3, <4>1
      <4>3. \A m : GoesOnWith(program, h, then, Now, k, m) <=> GoesOnWith(program, active, entered, Now, k, m)
          BY <4>1, <4>2 DEF GoesOnWith
      <4>4. KeepsPromise(program, active, entered, Now, k)
          BY <2>2, <4>1
      <4> QED
          BY <4>2, <4>3, <4>4 DEF KeepsPromise
    <3> QED
        BY <3>1, <3>2, <3>3
  <2>5. AllKeepTheirPromise(program, h, then, Now)
      BY <1>9, <2>3, <2>4 DEF AllKeepTheirPromise
  <2> QED
      BY <1>1, <1>10, <2>5 DEF PromisesKept
<1> QED
    BY <1>11, <1>12, <1>13, <1>14

(* So does a failure: of that routine no promise is left to keep.          *)
LEMMA SoundlyRaised ==
    ASSUME CallTypeOK, Soundly, RaiseFailure PROVE Soundly'
<1> USE DEF Soundly
<1> DEFINE g == Left(active)
           n == Len(active)
<1>1. /\ At("raise") /\ active' = g /\ raised' = TRUE
      /\ program' = program /\ stored' = stored
    BY DEF RaiseFailure
<1>2. /\ stored = << >> /\ active[1].code # << >> /\ active # << >> /\ active \in Seq(Frame)
      /\ Line \in OwnLines(program, Running.of) /\ Line.do = "raise"
    BY <1>1, RunsOwnLine, NotYetUsed, TheLine DEF CallTypeOK
<1>3. Fails(program)
    BY <1>2 DEF OwnLines, Fails
<1>4. /\ Len(g) = n /\ n \in Nat \ {0} /\ g # << >>
      /\ g[n].code = << >>
      /\ \A k \in 1..n : k # n => g[k] = active[k]
      /\ \A k \in 1..n : g[k].of = active[k].of
  <2>1. << >> \in Seq(Lines) /\ g = [active EXCEPT ![Len(active)].code = << >>]
      BY DEF Left
  <2> HIDE DEF g
  <2>2. TopHas(active, << >>, g)
    <3>1. active \in Seq(Frame) /\ active # << >>
        BY <1>2
    <3> QED
        BY <2>1, <3>1, TopReplaced
  <2> QED
      BY <2>2 DEF TopHas
<1> HIDE DEF g, n
<1>5. RoutinesRunTheirLines'
  <2>1. ASSUME NEW k \in 1..n
        PROVE  g[k].code \in Seq(OwnLines(program, g[k].of)) /\ (g[k].of = "none" <=> k = 1)
    <3>1. active[k].code \in Seq(OwnLines(program, active[k].of)) /\ (active[k].of = "none" <=> k = 1)
        BY DEF RoutinesRunTheirLines, n
    <3>2. << >> \in Seq(OwnLines(program, g[k].of))
        BY EmptySeq
    <3> QED
        BY <1>4, <3>1, <3>2
  <2>2. g[Len(g)].code = << >>
      BY <1>4
  <2> QED
      BY <1>1, <1>4, <2>1, <2>2 DEF RoutinesRunTheirLines, Running, Last
<1>6. StatementEndsLast'
  <2>1. \A i \in 1..Len(g[1].code) : g[1].code[i].do = "keep" <=> i = Len(g[1].code)
    <3>1. CASE n = 1
        BY <1>4, <3>1
    <3>2. CASE n # 1
      <4>1. g[1] = active[1]
          BY <1>4, <3>2
      <4> QED
          BY <1>2, <4>1 DEF StatementEndsLast
    <3> QED
        BY <3>1, <3>2
  <2> QED
      BY <1>1, <2>1 DEF StatementEndsLast
<1>7. StoredWhenUsed'
    BY <1>1, <1>2, <1>3 DEF StoredWhenUsed
<1>8. PromisesKept'
    BY <1>1 DEF PromisesKept
<1> QED
    BY <1>5, <1>6, <1>7, <1>8

(* So does coming back: the caller goes on with fields for which the       *)
(* function kept its promise, or leaves too.                               *)
LEMMA SoundlyReturned ==
    ASSUME CallTypeOK, Soundly, Return PROVE Soundly'
<1> USE DEF Soundly
<1> DEFINE n == Len(active)
<1>1. /\ active # << >> /\ active \in Seq(Frame) /\ Running.code = << >>
      /\ active' = IF n = 1 THEN << >> ELSE AfterReturn(Front(active))
      /\ program' = program /\ raised' = raised /\ stored' = stored /\ Now' = Now /\ result' = result
      /\ raised \in BOOLEAN /\ Now \in Memory
    BY DEF Return, CallTypeOK, Now
<1>2. n \in Nat /\ n # 0 /\ Running = active[n]
    BY <1>1, EmptySeq DEF Running, Last
<1>3. ASSUME ~ raised
      PROVE  \E entered : /\ AllKeepTheirPromise(program, active, entered, Now)
                          /\ Promises(program, active[n].of, entered[n], Now)
  <2>1. PICK entered : AllKeepTheirPromise(program, active, entered, Now)
      BY <1>3 DEF PromisesKept
  <2>2. n \in 1..n
      BY <1>2
  <2>3. KeepsPromise(program, active, entered, Now, n)
      BY <2>1, <2>2 DEF AllKeepTheirPromise
  <2>4. Path(program.raising, active[n].of, active[n].code, Now, Now)
      BY <1>1, <1>2, PathOfNothing
  <2>5. Promises(program, active[n].of, entered[n], Now)
      BY <1>1, <2>3, <2>4 DEF KeepsPromise, GoesOnWith
  <2> QED
      BY <2>1, <2>5
<1>4. CASE n = 1
  <2>1. active' = << >>
      BY <1>1, <1>4
  <2>2. RoutinesRunTheirLines' /\ StatementEndsLast'
      BY <2>1 DEF RoutinesRunTheirLines, StatementEndsLast
  <2>3. ASSUME ~ raised
        PROVE  stored = <<MeantBy(program)>> /\ ~ Fails(program)
    <3>1. active[1].of = "none" /\ active[1].code = << >>
        BY <1>1, <1>2, <1>4 DEF RoutinesRunTheirLines
    <3>2. \E m : Promises(program, "none", m, Now)
        BY <1>3, <1>4, <2>3, <3>1
    <3>3. ~ Fails(program) /\ Rendered[program.e][Nothing][result] = MeantBy(program)
        BY <3>2 DEF Promises, Now
    <3>4. stored = Used
        BY <1>1, <2>3, <3>1 DEF StoredWhenUsed
    <3> QED
        BY <3>3, <3>4 DEF Used
  <2>4. StoredWhenUsed'
      BY <1>1, <2>1, <2>3 DEF StoredWhenUsed
  <2>5. PromisesKept'
    <3>1. \A p, now : AllKeepTheirPromise(p, << >>, [k \in 1..0 |-> now], now)
        BY DEF AllKeepTheirPromise
    <3> QED
        BY <2>1, <3>1 DEF PromisesKept
  <2> QED
      BY <2>2, <2>4, <2>5
<1>5. CASE n # 1
  <2> DEFINE front == Front(active)
             g == AfterReturn(front)
             l == n - 1
  <2>1. active' = g /\ l \in Nat \ {0} /\ n = l + 1
      BY <1>1, <1>2, <1>5
  <2>2. front \in Seq(Frame) /\ Len(front) = l /\ \A k \in 1..l : front[k] = active[k]
      BY <1>1, FrontOf
  <2>3. front # << >>
      BY <2>1, <2>2
  <2>4. /\ Len(g) = l
        /\ \A k \in 1..l : g[k].of = active[k].of
        /\ \A k \in 1..l : k # l \/ ~ raised => g[k] = active[k]
        /\ raised => g[l].code = << >>
    <3>1. CASE ~ raised
      <4>1. g = front
          BY <3>1 DEF AfterReturn
      <4> QED
          BY <2>2, <3>1, <4>1
    <3>2. CASE raised
      <4>1. g = [front EXCEPT ![Len(front)].code = << >>] /\ << >> \in Seq(Lines)
          BY <3>2 DEF AfterReturn, Left
      <4> HIDE DEF g, front
      <4>2. TopHas(front, << >>, g)
          BY <2>2, <2>3, <4>1, TopReplaced
      <4> QED
          BY <2>2, <3>2, <4>2 DEF TopHas
    <3> QED
        BY <3>1, <3>2
  <2> HIDE DEF front, g, l
  <2>5. g # << >> /\ 1 \in 1..l
      BY <2>1, <2>4
  <2>6. RoutinesRunTheirLines'
    <3>1. ASSUME NEW k \in 1..l
          PROVE  g[k].code \in Seq(OwnLines(program, g[k].of)) /\ (g[k].of = "none" <=> k = 1)
      <4>1. active[k].code \in Seq(OwnLines(program, active[k].of)) /\ (active[k].of = "none" <=> k = 1)
          BY <2>1 DEF RoutinesRunTheirLines, n
      <4>2. << >> \in Seq(OwnLines(program, g[k].of))
          BY EmptySeq
      <4>3. g[k] = active[k] \/ g[k].code = << >>
          BY <2>4
      <4> QED
          BY <2>4, <4>1, <4>2, <4>3
    <3>2. raised => g[Len(g)].code = << >>
        BY <2>4
    <3> QED
        BY <1>1, <2>1, <2>4, <3>1, <3>2 DEF RoutinesRunTheirLines, Running, Last
  <2>7. g[1] = active[1] \/ (raised /\ g[1].code = << >>)
      BY <2>4, <2>5
  <2>8. n > 1
      BY <2>1
  <2>9. StatementEndsLast'
    <3>1. /\ \A i \in 1..Len(active[1].code) : active[1].code[i].do = "keep" <=> i = Len(active[1].code)
          /\ ~ raised => active[1].code # << >>
        BY <1>1, <2>8 DEF StatementEndsLast
    <3>2. \A i \in 1..Len(g[1].code) : g[1].code[i].do = "keep" <=> i = Len(g[1].code)
      <4>1. CASE g[1].code = << >>
          BY <4>1
      <4>2. CASE g[1] = active[1]
          BY <3>1, <4>2
      <4> QED
          BY <2>7, <4>1, <4>2
    <3>3. ~ raised => g[1].code # << >>
        BY <2>7, <3>1
    <3> QED
        BY <1>1, <2>1, <3>2, <3>3 DEF StatementEndsLast
  <2>10. StoredWhenUsed'
    <3>1. ~ raised => active[1].code # << >> /\ g[1] = active[1]
        BY <1>1, <2>7, <2>8 DEF StatementEndsLast
    <3> QED
        BY <1>1, <2>1, <2>5, <3>1 DEF StoredWhenUsed
  <2>11. PromisesKept'
    <3>1. CASE raised
        BY <1>1, <3>1 DEF PromisesKept
    <3>2. CASE ~ raised
      <4>1. PICK entered : /\ AllKeepTheirPromise(program, active, entered, Now)
                           /\ Promises(program, active[n].of, entered[n], Now)
          BY <1>3, <3>2
      <4>2. /\ entered \in [1..n -> Memory]
            /\ \A k \in 1..n : KeepsPromise(program, active, entered, Now, k)
          BY <4>1 DEF AllKeepTheirPromise
      <4> DEFINE then == [k \in 1..l |-> entered[k]]
      <4>3. then \in [1..l -> Memory] /\ \A k \in 1..l : then[k] = entered[k]
          BY <2>1, <4>2
      <4> HIDE DEF then
      <4>4. ASSUME NEW k \in 1..l PROVE KeepsPromise(program, g, then, Now, k)
        <5>1. g[k] = active[k] /\ then[k] = entered[k]
            BY <2>4, <3>2, <4>3
        <5>2. ASSUME NEW m, GoesOnWith(program, g, then, Now, k, m)
              PROVE  GoesOnWith(program, active, entered, Now, k, m)
          <6>1. k # Len(active)
              BY <2>1 DEF n
          <6>2. CASE k = l
            <7>1. m = Now /\ k + 1 = n
                BY <2>1, <2>4, <5>2, <6>2 DEF GoesOnWith
            <7> QED
                BY <4>1, <6>1, <7>1 DEF GoesOnWith
          <6>3. CASE k # l
            <7>1. k + 1 \in 1..l
                BY <2>1, <6>3
            <7>2. g[k + 1].of = active[k + 1].of /\ then[k + 1] = entered[k + 1] /\ k # Len(g)
                BY <2>4, <4>3, <6>3, <7>1
            <7> QED
                BY <5>2, <6>1, <7>2 DEF GoesOnWith
          <6> QED
              BY <6>2, <6>3
        <5>3. KeepsPromise(program, active, entered, Now, k)
            BY <2>1, <4>2
        <5> QED
            BY <5>1, <5>2, <5>3 DEF KeepsPromise
      <4>5. AllKeepTheirPromise(program, g, then, Now)
          BY <2>4, <4>3, <4>4 DEF AllKeepTheirPromise
      <4> QED
          BY <1>1, <2>1, <4>5 DEF PromisesKept
    <3> QED
        BY <3>1, <3>2
  <2> QED
      BY <2>6, <2>9, <2>10, <2>11
<1> QED
    BY <1>4, <1>5

(* The statement starts with its promise made.                             *)
LEMMA SoundlyStarted == ASSUME CallInit, SoundStatement PROVE Soundly
<1> DEFINE lines == StatementCode(program.statement, program.e)
           frame == [of |-> "none", code |-> lines]
<1>1. CallTypeOK
    BY CallTypesStart
<1>2. active = <<frame>> /\ raised = FALSE /\ stored = << >>
    BY DEF CallInit
<1>3. /\ lines \in Seq(OwnLines(program, "none")) /\ lines # << >>
      /\ \A i \in 1..Len(lines) : lines[i].do = "keep" <=> i = Len(lines)
    BY <1>1, StatementRunsItsLines
<1>4. \A m, n \in Memory : Path(program.raising, "none", lines, m, n) => Promises(program, "none", m, n)
    BY <1>1, StatementsKeepTheirPromise
<1>5. frame.of = "none" /\ frame.code = lines
    OBVIOUS
<1> HIDE DEF lines, frame
<1>6. Len(active) = 1 /\ active[1] = frame /\ active # << >>
    BY <1>2
<1>7. RoutinesRunTheirLines
    BY <1>2, <1>3, <1>5, <1>6 DEF RoutinesRunTheirLines
<1>8. StatementEndsLast
    BY <1>3, <1>5, <1>6 DEF StatementEndsLast
<1>9. StoredWhenUsed
    BY <1>2, <1>3, <1>5, <1>6 DEF StoredWhenUsed
<1>10. PromisesKept
  <2> DEFINE entered == [k \in 1..1 |-> Now]
  <2>1. Now \in Memory
      BY <1>1 DEF CallTypeOK
  <2>2. entered \in [1..1 -> Memory] /\ entered[1] = Now
      BY <2>1
  <2> HIDE DEF entered
  <2>3. KeepsPromise(program, active, entered, Now, 1)
      BY <1>4, <1>5, <1>6, <2>1, <2>2 DEF KeepsPromise, GoesOnWith
  <2>4. AllKeepTheirPromise(program, active, entered, Now)
      BY <1>6, <2>2, <2>3 DEF AllKeepTheirPromise
  <2> QED
      BY <2>4 DEF PromisesKept
<1> QED
    BY <1>7, <1>8, <1>9, <1>10 DEF Soundly

(* A step of none of them changes nothing.                                 *)
LEMMA SoundlyUnchanged ==
    ASSUME Soundly, UNCHANGED callVars PROVE Soundly'
<1>1. /\ program' = program /\ active' = active /\ raised' = raised /\ stored' = stored
      /\ result' = result /\ Now' = Now
    BY DEF callVars, Now
<1>2. RoutinesRunTheirLines' /\ StatementEndsLast'
    BY <1>1 DEF Soundly, RoutinesRunTheirLines, StatementEndsLast, Running
<1>3. StoredWhenUsed'
    BY <1>1 DEF Soundly, StoredWhenUsed, Used
<1>4. PromisesKept'
    BY <1>1 DEF Soundly, PromisesKept
<1> QED
    BY <1>2, <1>3, <1>4 DEF Soundly

(* A statement whose calls keep apart stores the value its expression has, *)
(* or fails and stores nothing, whatever the functions of the program, the *)
(* expressions they return, and which of them raise.                       *)
THEOREM CallsAnswered == CallSpec => []CallsReadTheirOwnAnswers
<1> DEFINE CallInv == CallTypeOK /\ (SoundStatement => Soundly)
<1>1. CallInit => CallInv
    BY CallTypesStart, SoundlyStarted
<1>2. CallInv /\ [CallNext]_callVars => CallInv'
  <2> SUFFICES ASSUME CallInv, [CallNext]_callVars, SoundStatement' PROVE Soundly'
      BY CallTypesKept
  <2>1. program' = program
      BY DEF CallNext, MoveArgument, PerformFunction, KeepAnswer, RaiseFailure, Return, callVars
  <2>2. SoundStatement
      BY <2>1 DEF SoundStatement
  <2>3. CASE MoveArgument
      BY <2>2, <2>3, SoundlyMoved
  <2>4. CASE PerformFunction
      BY <2>2, <2>4, SoundlyPerformed
  <2>5. CASE KeepAnswer
      BY <2>2, <2>5, SoundlyKept
  <2>6. CASE RaiseFailure
      BY <2>2, <2>6, SoundlyRaised
  <2>7. CASE Return
      BY <2>2, <2>7, SoundlyReturned
  <2>8. CASE UNCHANGED callVars
      BY <2>2, <2>8, SoundlyUnchanged
  <2> QED
      BY <2>3, <2>4, <2>5, <2>6, <2>7, <2>8 DEF CallNext
<1>3. CallInv => CallsReadTheirOwnAnswers
  <2> SUFFICES ASSUME CallTypeOK, Soundly, active = << >>
               PROVE  LET fails == MakesCalls(program.statement) /\ Runs[program.e] \intersect program.raising # {}
                      IN  /\ raised = fails
                          /\ stored = IF fails THEN << >> ELSE <<Meaning[program.e][Nothing]>>
      BY DEF CallsReadTheirOwnAnswers
  <2>1. Fails(program) <=> (MakesCalls(program.statement) /\ Runs[program.e] \intersect program.raising # {})
      BY DEF Fails, Known
  <2>2. CASE raised
      BY <2>1, <2>2 DEF Soundly, StoredWhenUsed
  <2>3. CASE ~ raised
      BY <2>1, <2>3 DEF Soundly, StoredWhenUsed, MeantBy, CallTypeOK
  <2> QED
      BY <2>2, <2>3
<1> QED
    BY <1>1, <1>2, <1>3, PTL DEF CallSpec
=============================================================================
