----------------------------- MODULE IndexedFile -----------------------------
(***************************************************************************)
(* An indexed file in the COBOL interpreter (cobol-runtime, machine.ts).   *)
(*                                                                         *)
(* A dataset is a list of records, and a file is a mode and a position in  *)
(* that list; an index is only ever a search of it.  Generated programs    *)
(* declare an indexed file ACCESS MODE DYNAMIC, so keyed reads, browses,   *)
(* writes and rewrites of one open file mix freely.                        *)
(*                                                                         *)
(* Keys are numbers in key order.  position counts the records before the  *)
(* next one.  phrase says whether the statement carried an AT END or       *)
(* INVALID KEY phrase: the generated reads, writes and rewrites may, the   *)
(* generated OPEN and CLOSE cannot.                                        *)
(*                                                                         *)
(* Observers, not in the code: pending is the least key the current browse *)
(* still owes (Unbounded when it owes nothing), ran whether the last       *)
(* statement ran the USE procedure, and did which statement it was.        *)
(***************************************************************************)
EXTENDS SequencesExt

CONSTANTS
    Keys,           \* the primary keys
    Values,         \* what a record holds besides its key
    Optional,       \* SELECT OPTIONAL
    Declared,       \* the file has a USE AFTER STANDARD ERROR procedure
    MaxRecords      \* bound on the records of the dataset

ASSUME FileAssumption ==
    /\ Keys \subseteq Nat
    /\ Optional \in BOOLEAN
    /\ Declared \in BOOLEAN
    /\ MaxRecords \in Nat

VARIABLES
    present,        \* the dataset exists
    records,        \* its records, in the order they are held
    mode, position, \* OpenFile.mode and .position; "closed" is null
    status,         \* the FILE STATUS field
    phrase, ran, did, pending

vars == <<present, records, mode, position, status, phrase, ran, did, pending>>

Record    == [key : Keys, value : Values]
Modes     == {"INPUT", "I-O", "OUTPUT", "EXTEND"}
Relations == {"=", ">", ">=", "<", "<=", "<>"}
Statements ==
    {<<"nothing">>, <<"open">>, <<"close">>, <<"readNext">>} \union
    ({"read"} \X Keys) \union ({"start"} \X Relations \X Keys) \union
    ({"write", "rewrite"} \X Record)
Unbounded == -1
Owed(k)   == pending # Unbounded /\ pending <= k

TypeOK ==
    /\ present \in BOOLEAN
    /\ records \in Seq(Record)
    /\ mode \in Modes \union {"closed"}
    /\ position \in 0..Len(records)
    /\ status \in {"spaces", "00", "05", "10", "22", "23", "35", "42", "47"}
    /\ phrase \in BOOLEAN
    /\ ran \in BOOLEAN
    /\ did \in Statements
    /\ pending \in Nat \union {Unbounded}

Successful(s) == s \in {"spaces", "00", "05"}
KeyAt(i) == records[i].key
KeysOf == { KeyAt(i) : i \in DOMAIN records }

(* setStatus, and where the code calls it afterIo: the USE procedure runs  *)
(* unless the operation succeeded or the statement has a phrase for it.    *)
Outcome(statement, s, hasPhrase) ==
    /\ did' = statement
    /\ status' = s
    /\ phrase' = hasPhrase
    /\ ran' = (Declared /\ ~ Successful(s) /\ ~ hasPhrase)

(* setStatus and nothing else. *)
Reported(statement, s) ==
    /\ did' = statement
    /\ status' = s
    /\ phrase' = FALSE
    /\ ran' = FALSE

Init ==
    /\ present \in BOOLEAN
    /\ records = <<>>
    /\ mode = "closed"
    /\ position = 0
    /\ status = "spaces"
    /\ phrase = FALSE
    /\ ran = FALSE
    /\ did = <<"nothing">>
    /\ pending = Unbounded

-----------------------------------------------------------------------------
(* openFile, by mode. *)
StaysThere == UNCHANGED position                                \* a mutant
Rewound == position' = 0

Absent(m) == ~ present /\ m \in {"INPUT", "I-O"}

OpenExisting(m) ==
    /\ m \in {"INPUT", "I-O"} /\ present
    /\ mode' = m
    /\ Rewound
    /\ pending' = 0
    /\ Reported(<<"open">>, "00")
    /\ UNCHANGED <<present, records>>

OpenOptional(m) ==
    /\ Absent(m) /\ Optional
    /\ present' = TRUE
    /\ mode' = m
    /\ Rewound
    /\ pending' = 0
    /\ Reported(<<"open">>, "05")
    /\ UNCHANGED records

OpenMissing(m) ==
    /\ Absent(m) /\ ~ Optional
    /\ mode' = "closed"
    /\ Outcome(<<"open">>, "35", FALSE)
    /\ UNCHANGED <<present, records, position, pending>>

OpenOutput ==
    /\ present' = TRUE
    /\ records' = <<>>
    /\ mode' = "OUTPUT"
    /\ Rewound
    /\ pending' = Unbounded
    /\ Reported(<<"open">>, "00")

OpenExtend ==
    /\ present' = TRUE
    /\ mode' = "EXTEND"
    /\ position' = Len(records)
    /\ pending' = Unbounded
    /\ Reported(<<"open">>, "00")
    /\ UNCHANGED records

Open == \/ \E m \in {"INPUT", "I-O"} : OpenExisting(m) \/ OpenOptional(m) \/ OpenMissing(m)
        \/ OpenOutput \/ OpenExtend

Close ==
    /\ \/ mode = "closed" /\ Reported(<<"close">>, "42")
       \/ mode # "closed" /\ Reported(<<"close">>, "00")
    /\ mode' = "closed"
    /\ UNCHANGED <<present, records, position, pending>>

(* Any statement of executeRead on a file that is not open. *)
ReadClosed(statement, hasPhrase) ==
    /\ mode = "closed"
    /\ Outcome(statement, "47", hasPhrase)
    /\ UNCHANGED <<present, records, mode, position, pending>>

(* The two searches: the first, and the last, record whose key has the     *)
(* relation to a key; 0 when none has.                                     *)
Satisfies(relation, key, k) ==
    \/ relation = "="  /\ key = k
    \/ relation = ">"  /\ key > k
    \/ relation = ">=" /\ key >= k
    \/ relation = "<"  /\ key < k
    \/ relation = "<=" /\ key <= k
    \/ relation = "<>" /\ key # k

FirstWhere(relation, k) == SelectInSeq(records, LAMBDA r : Satisfies(relation, r.key, k))
LastWhere(relation, k)  == SelectLastInSeq(records, LAMBDA r : Satisfies(relation, r.key, k))

ReadKey(k, hasPhrase) ==
    LET at == FirstWhere("=", k)
    IN  /\ mode # "closed"
        /\ \/ /\ at = 0
              /\ Outcome(<<"read", k>>, "23", hasPhrase)
              /\ UNCHANGED <<position, pending>>
           \/ /\ at # 0
              /\ position' = at
              /\ pending' = k + 1
              /\ Outcome(<<"read", k>>, "00", hasPhrase)
        /\ UNCHANGED <<present, records, mode>>

StaysPut == position                                            \* a mutant
Advanced == position + 1

ReadNext(hasPhrase) ==
    /\ mode # "closed"
    /\ \/ /\ position = Len(records)
          /\ Outcome(<<"readNext">>, "10", hasPhrase)
          /\ UNCHANGED <<position, pending>>
       \/ /\ position < Len(records)
          /\ position' = Advanced
          /\ pending' = KeyAt(position + 1) + 1
          /\ Outcome(<<"readNext">>, "00", hasPhrase)
    /\ UNCHANGED <<present, records, mode>>

(* executeStart, which looks at no mode and creates a dataset that is not  *)
(* there: < and <= position at the highest key that satisfies the          *)
(* relation, the others at the lowest.                                     *)
LowestAlways(relation, k) == FirstWhere(relation, k)                 \* a mutant
StartAt(relation, k) ==
    IF relation \in {"<", "<="} THEN LastWhere(relation, k) ELSE FirstWhere(relation, k)

Start(relation, k, hasPhrase) ==
    LET at == StartAt(relation, k)
    IN  /\ \/ /\ at = 0
              /\ Outcome(<<"start", relation, k>>, "23", hasPhrase)
              /\ UNCHANGED <<position, pending>>
           \/ /\ at # 0
              /\ position' = at - 1
              /\ pending' = KeyAt(at)
              /\ Outcome(<<"start", relation, k>>, "00", hasPhrase)
        /\ present' = TRUE
        /\ UNCHANGED <<records, mode>>

(* executeWrite looks at no mode either.  A new key goes before the first  *)
(* greater one, and the position goes past the last record.                *)
AppendAlways(r) == Len(records) + 1                             \* a mutant
InsertionPoint(r) ==
    LET above == FirstWhere(">", r.key)
    IN  IF above = 0 THEN Len(records) + 1 ELSE above

Write(r, hasPhrase) ==
    /\ \/ /\ r.key \in KeysOf
          /\ Outcome(<<"write", r>>, "22", hasPhrase)
          /\ UNCHANGED <<records, position>>
       \/ /\ r.key \notin KeysOf
          /\ Len(records) < MaxRecords
          /\ records' = InsertAt(records, InsertionPoint(r), r)
          /\ position' = Len(records')
          /\ Outcome(<<"write", r>>, "00", hasPhrase)
    /\ present' = TRUE
    /\ UNCHANGED <<mode, pending>>

(* REWRITE replaces the record before the position, whatever its key; with *)
(* nothing read yet, the first; with no records at all, it makes one.      *)
Rewritten == IF position = 0 THEN 1 ELSE position

Rewrite(r) ==
    /\ Len(records) > 0 \/ MaxRecords > 0
    /\ records' = IF records = <<>> THEN <<r>> ELSE ReplaceAt(records, Rewritten, r)
    /\ Reported(<<"rewrite", r>>, "00")
    /\ present' = TRUE
    /\ UNCHANGED <<mode, position, pending>>

Reads ==
    \E hasPhrase \in BOOLEAN :
       \/ ReadClosed(<<"readNext">>, hasPhrase)
       \/ \E k \in Keys : ReadClosed(<<"read", k>>, hasPhrase)
       \/ ReadNext(hasPhrase)
       \/ \E k \in Keys : ReadKey(k, hasPhrase)
       \/ \E k \in Keys, relation \in Relations : Start(relation, k, hasPhrase)

Writes == \E r \in Record, hasPhrase \in BOOLEAN : Write(r, hasPhrase)

Next == Open \/ Close \/ Reads \/ Writes \/ \E r \in Record : Rewrite(r)

Spec == Init /\ [][Next]_vars

(* A program that rewrites only the record it is positioned behind, and    *)
(* leaves that record its key.                                             *)
Keeps(r) == position > 0 /\ r.key = KeyAt(position) /\ Rewrite(r)

KeepingNext == Open \/ Close \/ Reads \/ Writes \/ \E r \in Record : Keeps(r)

KeepingSpec == Init /\ [][KeepingNext]_vars

(* One that besides writes only while no browse is under way: the file was *)
(* opened OUTPUT or EXTEND, and not read since.                            *)
WritesApart == pending = Unbounded /\ Writes

OrderlyNext == Open \/ Close \/ Reads \/ WritesApart \/ \E r \in Record : Keeps(r)

OrderlySpec == Init /\ [][OrderlyNext]_vars

-----------------------------------------------------------------------------
(* The records are held in key order and no key twice: what every search,  *)
(* every START and every readNext relies on (machine.ts, executeWrite).    *)
KeysAscending == \A i, j \in DOMAIN records : i < j => KeyAt(i) < KeyAt(j)

(* The position cuts the file where the browse does: exactly the records   *)
(* behind it are still owed (executeRead, executeStart).                   *)
PositionCutsAtPending ==
    \A i \in DOMAIN records : i > position <=> Owed(KeyAt(i))

(* readNext reports end of data only when the browse owes nothing more     *)
(* (executeRead, status 10).                                               *)
EndOfBrowse ==
    did = <<"readNext">> /\ status = "10" => ~ \E k \in KeysOf : Owed(k)

(* The list and the position are invisible: a program sees a set of        *)
(* records with distinct keys, and a browse in key order.                  *)
Keyed == INSTANCE KeyedFile WITH store <- Range(records), from <- pending
IsKeyedFile == Keyed!Spec
=============================================================================
