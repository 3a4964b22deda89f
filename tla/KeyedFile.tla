------------------------------ MODULE KeyedFile ------------------------------
(***************************************************************************)
(* What an indexed file promises the program that uses it, with no order   *)
(* of records anywhere: a set of records with distinct keys, and a browse  *)
(* that still owes every record from one key on, the least first.          *)
(***************************************************************************)
EXTENDS Integers

CONSTANTS Keys, Values

VARIABLES
    store,      \* the records
    from,       \* the least key the browse still owes, or Unbounded
    did,        \* the last statement
    status      \* and its outcome

vars == <<store, from, did, status>>

Relations == {"=", ">", ">=", "<", "<=", "<>"}
Record    == [key : Keys, value : Values]
Unbounded == -1

KeysOf    == { r.key : r \in store }
Owed      == IF from = Unbounded THEN {} ELSE { k \in KeysOf : from <= k }
LeastOf(ks)    == CHOOSE k \in ks : \A other \in ks : k <= other
GreatestOf(ks) == CHOOSE k \in ks : \A other \in ks : k >= other

Answer(statement, s) == did' = statement /\ status' = s
Unchanged == UNCHANGED <<store, from>>

Init ==
    /\ store = {}
    /\ from = Unbounded
    /\ did = <<"nothing">>
    /\ status = "spaces"

OpenToRead   == from' = 0 /\ status' \in {"00", "05"} /\ did' = <<"open">> /\ UNCHANGED store
OpenToCreate == store' = {} /\ from' = Unbounded /\ Answer(<<"open">>, "00")
OpenToExtend == from' = Unbounded /\ Answer(<<"open">>, "00") /\ UNCHANGED store
OpenFails    == Answer(<<"open">>, "35") /\ Unchanged

Close == status' \in {"00", "42"} /\ did' = <<"close">> /\ Unchanged

Read(k) ==
    \/ k \in KeysOf /\ from' = k + 1 /\ Answer(<<"read", k>>, "00") /\ UNCHANGED store
    \/ k \notin KeysOf /\ Answer(<<"read", k>>, "23") /\ Unchanged
    \/ Answer(<<"read", k>>, "47") /\ Unchanged

ReadNext ==
    \/ /\ Owed # {}
       /\ from' = LeastOf(Owed) + 1
       /\ Answer(<<"readNext">>, "00")
       /\ UNCHANGED store
    \/ /\ Owed = {}
       /\ Answer(<<"readNext">>, "10")
       /\ Unchanged
    \/ Answer(<<"readNext">>, "47") /\ Unchanged

(* The keys a START selects, and the one of them a browse begins at. *)
Selected(relation, k) ==
    { key \in KeysOf :
        \/ relation = "="  /\ key = k
        \/ relation = ">"  /\ key > k
        \/ relation = ">=" /\ key >= k
        \/ relation = "<"  /\ key < k
        \/ relation = "<=" /\ key <= k
        \/ relation = "<>" /\ key # k }

FirstOf(relation, ks) ==
    IF relation \in {"<", "<="} THEN GreatestOf(ks) ELSE LeastOf(ks)

Start(relation, k) ==
    LET ks == Selected(relation, k)
    IN  \/ /\ ks # {}
           /\ from' = FirstOf(relation, ks)
           /\ Answer(<<"start", relation, k>>, "00")
           /\ UNCHANGED store
        \/ /\ ks = {}
           /\ Answer(<<"start", relation, k>>, "23")
           /\ Unchanged

Write(r) ==
    \/ /\ r.key \notin KeysOf
       /\ store' = store \union {r}
       /\ Answer(<<"write", r>>, "00")
       /\ UNCHANGED from
    \/ /\ r.key \in KeysOf
       /\ Answer(<<"write", r>>, "22")
       /\ Unchanged

Rewrite(r) ==
    /\ r.key \in KeysOf
    /\ store' = { other \in store : other.key # r.key } \union {r}
    /\ Answer(<<"rewrite", r>>, "00")
    /\ UNCHANGED from

Next ==
    \/ OpenToRead \/ OpenToCreate \/ OpenToExtend \/ OpenFails
    \/ Close
    \/ ReadNext
    \/ \E k \in Keys : Read(k) \/ \E relation \in Relations : Start(relation, k)
    \/ \E r \in Record : Write(r) \/ Rewrite(r)

Spec == Init /\ [][Next]_vars
=============================================================================
