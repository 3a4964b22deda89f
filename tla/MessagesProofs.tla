--------------------------- MODULE MessagesProofs ---------------------------
(***************************************************************************)
(* The messages a program puts and gets, and those a language server reads *)
(* off its stream.                                                         *)
(*                                                                         *)
(* First, that the count kept for a queue manager is what its first MQCONN *)
(* and its last MQDISC are decided by, for every set of queues and         *)
(* managers, and that a tidy program's messages commit with its postings.  *)
(* The inductive invariant Counts bounds the open queues of a manager by   *)
(* its count; it is an equality when no queue is connected twice.  Tidy    *)
(* says that once the body's messages are committed nothing is left open.  *)
(*                                                                         *)
(* Then, that the decoder hands on the frames of a session in order and    *)
(* at once, wherever its chunks are cut.  The inductive invariant Decoder  *)
(* says where in the session the decoder stands: behind the last frame     *)
(* that is all there (Cut), with the bytes from there on in its buffer     *)
(* (Left) and the frames before that handed on (All).  Its three turns are *)
(* TurnWaits, TurnDrops and TurnTakes; that there are turns enough for     *)
(* what has come is Decodes, by induction on the turns.                    *)
(***************************************************************************)
EXTENDS MessageQueues, MessageFraming, FiniteSetTheorems, SequenceTheorems, NaturalSets, TLAPS


Orderly == ~ style.sorts
Once == ~ style.sorts /\ ~ style.reopens
Alone == \A p, q \in Queues : ManagerOf(p) = ManagerOf(q)

Counts ==
    /\ Orderly => stage # "procedure"
    /\ Orderly => \A q \in Queues : hobj[q] # "dead"
    /\ Orderly => \A m \in Managers : Cardinality(Live(m)) <= opens[m]
    /\ Once => \A m \in Managers : Cardinality(Live(m)) = opens[m]
    /\ Orderly => \A m \in Managers : opens[m] > 0 => (m \in hconn /\ m \in link)

Settled ==
    /\ ~ failed /\ closing
    /\ stage \in {"body", "over"}
    /\ \A q \in Queues : hobj[q] = "none"

Tidy ==
    (style.tidy /\ Once /\ Alone) =>
        /\ failed => stage \in {"handler", "over"}
        /\ (\E m \in Managers : "body" \in kept[m]) => Settled

-----------------------------------------------------------------------------
LEMMA LiveFinite ==
    ASSUME NEW m
    PROVE  IsFiniteSet(Live(m)) /\ Cardinality(Live(m)) \in Nat
<1>1. IsFiniteSet(Live(m))
  BY QueueAssumption, FS_Subset DEF Live, Siblings
<1> QED
  BY <1>1, FS_CardinalityType

LEMMA MqTypeInit == MqInit => MqTypeOK
<1> SUFFICES ASSUME MqInit
             PROVE  MqTypeOK
  OBVIOUS
<1>1. opens \in [Managers -> 0..MaxOpens]
  BY QueueAssumption DEF MqInit
<1>2. work \in [Managers -> SUBSET Workers] /\ kept \in [Managers -> SUBSET Workers]
  BY DEF MqInit
<1>3. hobj \in [Queues -> {"none", "live", "dead"}]
  BY DEF MqInit
<1>4. sortFailed \in BOOLEAN /\ failed \in BOOLEAN /\ closing \in BOOLEAN
  BY DEF MqInit
<1> QED
  BY <1>1, <1>2, <1>3, <1>4 DEF MqInit, MqTypeOK

LEMMA MqTypeStep == MqTypeOK /\ [MqNext]_mqVars => MqTypeOK'
<1> SUFFICES ASSUME MqTypeOK, [MqNext]_mqVars
             PROVE  MqTypeOK'
  OBVIOUS
<1> USE QueueAssumption DEF MqTypeOK
<1>0. style \in Style /\ \A q \in Queues : ManagerOf(q) \in Managers
  BY DEF Style, ManagerOf
<1>1. ASSUME NEW q \in Queues, ConnectQueue(q)
      PROVE  MqTypeOK'
  <2>1. ManagerOf(q) \in Managers
    BY <1>0
  <2>2. opens[ManagerOf(q)] + 1 \in 0..MaxOpens
    BY <1>1, <2>1 DEF ConnectQueue
  <2> QED
    BY <1>1, <2>1, <2>2 DEF ConnectQueue, Reach, CountedIn, Proceeds
<1>2. ASSUME NEW q \in Queues, ConnectFails(q)
      PROVE  MqTypeOK'
  BY <1>0, <1>2 DEF ConnectFails, Reach, GiveUp, Leaves
<1>3. ASSUME NEW q \in Queues, ConnectFailsInSort(q)
      PROVE  MqTypeOK'
  <2>1. ManagerOf(q) \in Managers
    BY <1>0
  <2>2. opens[ManagerOf(q)] + 1 \in 0..MaxOpens
    BY <1>3, <2>1 DEF ConnectFailsInSort
  <2> QED
    BY <1>3, <2>1, <2>2 DEF ConnectFailsInSort, Reach, CountedIn, RunsOn
<1>4. ASSUME NEW q \in Queues, Exchange(q)
      PROVE  MqTypeOK'
  <2>1. Worker \in Workers
    BY DEF Worker, Workers
  <2> QED
    BY <1>0, <1>4, <2>1 DEF Exchange, Proceeds
<1>5. ASSUME NEW q \in Queues, ExchangeFails(q)
      PROVE  MqTypeOK'
  BY <1>5 DEF ExchangeFails, GiveUp, Leaves, RunsOn
<1>6. ASSUME NEW q \in Queues
      PROVE  /\ CountedOut(ManagerOf(q)) \in 0..MaxOpens
             /\ NoteClosing => closing' \in BOOLEAN
             /\ Closed(q) \in [Queues -> {"none", "live", "dead"}]
  <2>1. CountedOut(ManagerOf(q)) \in 0..MaxOpens
    BY <1>0 DEF CountedOut
  <2>2. NoteClosing => closing' \in BOOLEAN
    BY DEF NoteClosing
  <2>3. Closed(q) \in [Queues -> {"none", "live", "dead"}]
    BY DEF Closed
  <2> QED
    BY <2>1, <2>2, <2>3
<1>7. ASSUME NEW q \in Queues, NEW h \in [Queues -> {"none", "live", "dead"}],
             EndConnection(ManagerOf(q), h)
      PROVE  /\ hconn' \subseteq Managers
             /\ link' \subseteq Managers
             /\ work' \in [Managers -> SUBSET Workers]
             /\ kept' \in [Managers -> SUBSET Workers]
             /\ hobj' \in [Queues -> {"none", "live", "dead"}]
  BY <1>0, <1>7 DEF EndConnection
<1>8. ASSUME NEW q \in Queues, DisconnectQueue(q)
      PROVE  MqTypeOK'
  <2>1. opens' \in [Managers -> 0..MaxOpens] /\ closing' \in BOOLEAN
    BY <1>0, <1>6, <1>8 DEF DisconnectQueue
  <2>2. CASE EndConnection(ManagerOf(q), Closed(q))
    BY <1>6, <1>7, <1>8, <2>1, <2>2 DEF DisconnectQueue, Proceeds
  <2>3. CASE hobj' = Closed(q) /\ UNCHANGED <<hconn, link, work, kept>>
    BY <1>6, <1>8, <2>1, <2>3 DEF DisconnectQueue, Proceeds
  <2> QED
    BY <1>8, <2>2, <2>3 DEF DisconnectQueue
<1>9. ASSUME NEW q \in Queues, CloseQueueFails(q)
      PROVE  MqTypeOK'
  BY <1>6, <1>9 DEF CloseQueueFails, GiveUp, Leaves
<1>10. ASSUME NEW q \in Queues, DisconnectFails(q)
       PROVE  MqTypeOK'
  <2>1. opens' \in [Managers -> 0..MaxOpens]
    BY <1>0, <1>10 DEF DisconnectFails
  <2>2. hobj' \in [Queues -> {"none", "live", "dead"}] /\ closing' \in BOOLEAN
    BY <1>6, <1>10 DEF DisconnectFails
  <2>3. sortFailed' \in BOOLEAN /\ failed' \in BOOLEAN
    BY <1>10 DEF DisconnectFails, GiveUp, RunsOn
  <2>4. stage' \in {"body", "procedure", "handler", "over"}
    BY <1>10 DEF DisconnectFails, GiveUp, Leaves, RunsOn
  <2> QED
    BY <1>10, <2>1, <2>2, <2>3, <2>4 DEF DisconnectFails
<1>11. ASSUME NEW q \in Queues, CloseFailsInSort(q)
       PROVE  MqTypeOK'
  <2>1. opens' \in [Managers -> 0..MaxOpens] /\ closing' \in BOOLEAN
    BY <1>0, <1>6, <1>11 DEF CloseFailsInSort
  <2>2. CASE EndConnection(ManagerOf(q), hobj)
    BY <1>7, <1>11, <2>1, <2>2 DEF CloseFailsInSort, RunsOn
  <2>3. CASE UNCHANGED <<hconn, link, work, kept, hobj>>
    BY <1>11, <2>1, <2>3 DEF CloseFailsInSort, RunsOn
  <2> QED
    BY <1>11, <2>2, <2>3 DEF CloseFailsInSort
<1>12. CASE EnterProcedure \/ LeaveProcedure \/ BodyFails \/ StepOver
  BY <1>12 DEF EnterProcedure, LeaveProcedure, BodyFails, StepOver, GiveUp, Leaves
<1>13. CASE UNCHANGED mqVars
  BY <1>13 DEF mqVars
<1> QED
  BY <1>1, <1>2, <1>3, <1>4, <1>5, <1>8, <1>9, <1>10, <1>11, <1>12, <1>13 DEF MqNext

(* The type invariant of the queue statements, for every set of queues and *)
(* managers (emitQueueStatement).                                          *)
THEOREM QueueTypeOK == MqSpec => []MqTypeOK
  BY MqTypeInit, MqTypeStep, PTL DEF MqSpec

-----------------------------------------------------------------------------
(* How the set of a manager's open queues changes. *)
LEMMA LiveSame ==
    ASSUME NEW m, UNCHANGED <<style, hobj>>
    PROVE  Live(m)' = Live(m)
  BY DEF Live, Siblings, ManagerOf

LEMMA LiveAdded ==
    ASSUME MqTypeOK, NEW q \in Queues, NEW n, n = ManagerOf(q), UNCHANGED style,
           hobj' = [hobj EXCEPT ![q] = "live"]
    PROVE  /\ \A m : m # n => Live(m)' = Live(m)
           /\ Live(n)' = Live(n) \union {q}
           /\ q \in Live(n) <=> hobj[q] = "live"
  BY DEF MqTypeOK, Live, Siblings, ManagerOf

LEMMA LiveRemoved ==
    ASSUME MqTypeOK, NEW q \in Queues, NEW n, n = ManagerOf(q), UNCHANGED style, hobj' = Closed(q)
    PROVE  /\ \A m : m # n => Live(m)' = Live(m)
           /\ Live(n)' = Live(n) \ {q}
  BY DEF MqTypeOK, Live, Siblings, ManagerOf, Closed

LEMMA LiveEnded ==
    ASSUME MqTypeOK, NEW q \in Queues, NEW n, n = ManagerOf(q), UNCHANGED style,
           EndConnection(n, Closed(q))
    PROVE  /\ \A m : m # n => Live(m)' = Live(m)
           /\ Live(n)' = {}
  BY DEF MqTypeOK, Live, Siblings, ManagerOf, Closed, EndConnection

(* The last one out: a live queue counted once leaves nothing behind it. *)
LEMMA LastIsAlone ==
    ASSUME NEW m, NEW q, q \in Live(m), Cardinality(Live(m)) <= 1
    PROVE  Live(m) = {q}
<1>1. IsFiniteSet(Live(m) \ {q}) /\ Cardinality(Live(m) \ {q}) = Cardinality(Live(m)) - 1
  BY LiveFinite, FS_RemoveElement
<1>2. Cardinality(Live(m) \ {q}) = 0
  BY <1>1, LiveFinite, FS_CardinalityType
<1>3. Live(m) \ {q} = {}
  BY <1>1, <1>2, FS_EmptySet
<1> QED
  BY <1>3

LEMMA CountsInit == MqInit => Counts
<1> SUFFICES ASSUME MqInit
             PROVE  Counts
  OBVIOUS
<1>1. \A m : Live(m) = {}
  BY DEF MqInit, Live, Siblings
<1>2. Cardinality({}) = 0
  BY FS_EmptySet
<1> QED
  BY <1>1, <1>2 DEF MqInit, Counts

LEMMA CountsStep == MqTypeOK /\ Counts /\ [MqNext]_mqVars => Counts'
<1> SUFFICES ASSUME MqTypeOK, Counts, [MqNext]_mqVars
             PROVE  Counts'
  OBVIOUS
<1>0. /\ style \in Style
      /\ style' = style
      /\ \A q \in Queues : ManagerOf(q) \in Managers
  BY QueueAssumption DEF MqTypeOK, Style, ManagerOf, MqNext, mqVars, ConnectQueue, ConnectFails,
     ConnectFailsInSort, Exchange, ExchangeFails, DisconnectQueue, CloseQueueFails,
     DisconnectFails, CloseFailsInSort, EnterProcedure, LeaveProcedure, BodyFails, StepOver
<1>S. CASE ~ Orderly
  BY <1>S, <1>0 DEF Counts, Orderly, Once
<1> SUFFICES ASSUME Orderly
             PROVE  Counts'
  BY <1>S
<1>O. Orderly' /\ (Once <=> ~ style.reopens) /\ (Once' <=> Once) /\ stage # "procedure"
  BY <1>0 DEF Orderly, Once, Counts
<1>N. \A m \in Managers : opens[m] \in Nat
  BY QueueAssumption DEF MqTypeOK
<1>C. /\ \A k : Cardinality(Live(k)) \in Nat
      /\ \A k \in Managers : Cardinality(Live(k)) <= opens[k]
      /\ Once => \A k \in Managers : Cardinality(Live(k)) = opens[k]
  BY LiveFinite DEF Counts
(* What becomes of one manager's count is enough. *)
<1>M. ASSUME NEW m \in Managers,
             \A k : k # m => Live(k)' = Live(k),
             \A k \in Managers : k # m => opens'[k] = opens[k]
      PROVE  /\ Cardinality(Live(m)') <= opens'[m] =>
                    \A k \in Managers : Cardinality(Live(k)') <= opens'[k]
             /\ (Once => Cardinality(Live(m)') = opens'[m]) =>
                    (Once => \A k \in Managers : Cardinality(Live(k)') = opens'[k])
  <2>1. \A k \in Managers : k # m =>
           /\ Cardinality(Live(k)') <= opens'[k]
           /\ Once => Cardinality(Live(k)') = opens'[k]
    <3> SUFFICES ASSUME NEW k \in Managers, k # m
                 PROVE  /\ Cardinality(Live(k)') <= opens'[k]
                        /\ Once => Cardinality(Live(k)') = opens'[k]
      OBVIOUS
    <3>1. Live(k)' = Live(k) /\ opens'[k] = opens[k]
      BY <1>M
    <3> QED
      BY <3>1, <1>C
  <2> QED
    BY <2>1
(* Steps that open and close nothing. *)
<1>K. ASSUME UNCHANGED <<hobj, opens>>, stage' # "procedure",
             hconn \subseteq hconn', link \subseteq link'
      PROVE  Counts'
  BY <1>K, <1>0, <1>O, LiveSame DEF Counts
<1>1. ASSUME NEW q \in Queues, ConnectQueue(q)
      PROVE  Counts'
  <2>1. PICK m \in Managers : m = ManagerOf(q)
    BY <1>0
  <2>2. /\ opens' = [opens EXCEPT ![m] = opens[m] + 1]
        /\ hobj' = [hobj EXCEPT ![q] = "live"]
        /\ style.reopens \/ hobj[q] # "live"
        /\ stage' = stage
    BY <1>1, <2>1 DEF ConnectQueue, CountedIn, Proceeds
  <2>3. hconn \subseteq hconn' /\ link \subseteq link' /\ m \in hconn' /\ m \in link'
    BY <1>1, <2>1 DEF ConnectQueue, Reach
  <2>4. /\ \A k : k # m => Live(k)' = Live(k)
        /\ Live(m)' = Live(m) \union {q}
        /\ q \in Live(m) <=> hobj[q] = "live"
    BY <1>0, <2>1, <2>2, LiveAdded
  <2>5. Cardinality(Live(m)') = IF q \in Live(m) THEN Cardinality(Live(m))
                                                 ELSE Cardinality(Live(m)) + 1
    <3>1. IsFiniteSet(Live(m))
        BY LiveFinite
    <3> DEFINE S == Live(m)
    <3> HIDE DEF S
    <3>2. Cardinality(S \union {q}) = IF q \in S THEN Cardinality(S) ELSE Cardinality(S) + 1
        BY <3>1, FS_AddElement DEF S
    <3> QED
        BY <2>4, <3>2 DEF S
  <2>6. \A k \in Managers : opens'[k] = IF k = m THEN opens[m] + 1 ELSE opens[k]
    BY <2>2, <2>1 DEF MqTypeOK
  <2>7. \A k \in Managers : Cardinality(Live(k)') <= opens'[k]
    <3>1. Cardinality(Live(m)') <= opens'[m]
      BY <2>1, <2>5, <2>6, <1>C, <1>N
    <3> QED
      BY <3>1, <2>1, <2>4, <2>6, <1>M
  <2>8. Once => \A k \in Managers : Cardinality(Live(k)') = opens'[k]
    <3>1. Once => Cardinality(Live(m)') = opens'[m]
      BY <2>1, <2>2, <2>4, <2>5, <2>6, <1>C, <1>N, <1>O
    <3> QED
      BY <3>1, <2>1, <2>4, <2>6, <1>M
  <2>9. \A k \in Managers : opens'[k] > 0 => (k \in hconn' /\ k \in link')
    BY <2>3, <2>6 DEF Counts
  <2>10. \A r \in Queues : hobj'[r] # "dead"
    BY <2>2 DEF Counts, MqTypeOK
  <2> QED
    BY <1>0, <1>O, <2>2, <2>7, <2>8, <2>9, <2>10 DEF Counts
<1>2. ASSUME NEW q \in Queues, ConnectFails(q)
      PROVE  Counts'
  BY <1>2, <1>K DEF ConnectFails, Reach, GiveUp
<1>3. ASSUME NEW q \in Queues, ConnectFailsInSort(q) \/ CloseFailsInSort(q)
      PROVE  FALSE
  BY <1>3, <1>O DEF ConnectFailsInSort, CloseFailsInSort, RunsOn
<1>4. ASSUME NEW q \in Queues, Exchange(q) \/ ExchangeFails(q) \/ CloseQueueFails(q)
      PROVE  Counts'
  BY <1>4, <1>K, <1>O
     DEF Exchange, Proceeds, ExchangeFails, GiveUp, RunsOn, CloseQueueFails
<1>5. ASSUME NEW q \in Queues, hobj[q] = "live"
      PROVE  /\ q \in Live(ManagerOf(q))
             /\ opens[ManagerOf(q)] > 0
             /\ Cardinality(Live(ManagerOf(q)) \ {q}) = Cardinality(Live(ManagerOf(q))) - 1
  <2>1. q \in Live(ManagerOf(q))
    BY <1>5 DEF Live, Siblings
  <2>2. Cardinality(Live(ManagerOf(q)) \ {q}) = Cardinality(Live(ManagerOf(q))) - 1
    BY <2>1, LiveFinite, FS_RemoveElement
  <2>3. IsFiniteSet(Live(ManagerOf(q)) \ {q})
    BY LiveFinite, FS_Subset
  <2>4. Cardinality(Live(ManagerOf(q))) > 0
    BY <2>2, <2>3, LiveFinite, FS_CardinalityType
  <2> QED
    BY <1>0, <1>N, <2>1, <2>2, <2>4, LiveFinite DEF Counts
<1>6. ASSUME NEW q \in Queues, hobj[q] = "live", LastOut(ManagerOf(q))
      PROVE  Live(ManagerOf(q)) = {q}
  <2>1. opens[ManagerOf(q)] <= 1
    BY <1>0, <1>6, <1>N DEF LastOut, CountedOut
  <2>2. Cardinality(Live(ManagerOf(q))) <= 1
    BY <1>0, <1>N, <2>1, LiveFinite DEF Counts
  <2> QED
    BY <1>5, <1>6, <2>2, LastIsAlone
<1>7. Cardinality({}) = 0
  BY FS_EmptySet
<1>8. ASSUME NEW q \in Queues, DisconnectQueue(q)
      PROVE  Counts'
  <2>m. PICK m \in Managers : m = ManagerOf(q)
    BY <1>0
  <2>1. /\ m \in Managers /\ hobj[q] = "live" /\ stage' = stage
        /\ opens' = [opens EXCEPT ![m] = CountedOut(m)]
    BY <1>8, <2>m DEF DisconnectQueue, Proceeds
  <2>2. CountedOut(m) = opens[m] - 1 /\ opens[m] > 0
    BY <1>5, <2>1, <2>m DEF CountedOut
  <2>3. \A k \in Managers : opens'[k] = IF k = m THEN opens[m] - 1 ELSE opens[k]
    BY <2>1, <2>2 DEF MqTypeOK
  <2>4. CASE ~ LastOut(m) /\ hobj' = Closed(q) /\ UNCHANGED <<hconn, link, work, kept>>
    <3>1. /\ \A k : k # m => Live(k)' = Live(k)
          /\ Live(m)' = Live(m) \ {q}
      BY <1>0, <2>4, LiveRemoved, <2>m
    <3>0. Cardinality(Live(m)') = Cardinality(Live(m)) - 1 /\ opens'[m] = opens[m] - 1
      BY <1>5, <2>1, <2>3, <2>m, <3>1
    <3>2. \A k \in Managers : Cardinality(Live(k)') <= opens'[k]
      <4>1. Cardinality(Live(m)') <= opens'[m]
        BY <2>1, <3>0, <1>C, <1>N
      <4> QED
        BY <4>1, <2>1, <2>3, <3>1, <1>M
    <3>3. Once => \A k \in Managers : Cardinality(Live(k)') = opens'[k]
      <4>1. Once => Cardinality(Live(m)') = opens'[m]
        BY <2>1, <3>0, <1>C, <1>N
      <4> QED
        BY <4>1, <2>1, <2>3, <3>1, <1>M
    <3>4. \A k \in Managers : opens'[k] > 0 => (k \in hconn' /\ k \in link')
      BY <2>2, <2>3, <2>4 DEF Counts
    <3>5. \A r \in Queues : hobj'[r] # "dead"
      BY <2>4 DEF Counts, MqTypeOK, Closed
    <3> QED
      BY <1>0, <1>O, <2>1, <3>2, <3>3, <3>4, <3>5 DEF Counts
  <2>5. CASE LastOut(m) /\ EndConnection(m, Closed(q))
    <3>1. /\ \A k : k # m => Live(k)' = Live(k)
          /\ Live(m)' = {}
      BY <1>0, <2>5, LiveEnded, <2>m
    <3>2. opens[m] = 1 /\ opens'[m] = 0
      BY <1>N, <2>1, <2>2, <2>3, <2>5 DEF LastOut
    <3>0. Cardinality(Live(m)') = opens'[m]
      BY <1>7, <3>1, <3>2
    <3>3. \A k \in Managers : Cardinality(Live(k)') <= opens'[k]
      BY <1>M, <2>1, <2>3, <3>0, <3>1, <3>2
    <3>4. Once => \A k \in Managers : Cardinality(Live(k)') = opens'[k]
      BY <1>M, <2>1, <2>3, <3>0, <3>1
    <3>5. \A k \in Managers : opens'[k] > 0 => (k \in hconn' /\ k \in link')
      BY <2>3, <2>5, <3>2 DEF Counts, EndConnection
    <3>6. \A r \in Queues : hobj'[r] # "dead"
      <4> SUFFICES ASSUME NEW r \in Queues
                   PROVE  hobj'[r] # "dead"
        OBVIOUS
      <4>1. CASE r = q
        BY <2>5, <4>1 DEF EndConnection, Closed, MqTypeOK
      <4>2. CASE r # q
        <5>1. ManagerOf(r) = m => hobj[r] # "live"
          BY <1>6, <2>1, <2>5, <2>m, <4>2 DEF Live, Siblings
        <5> QED
          BY <2>5, <4>2, <5>1 DEF EndConnection, Closed, MqTypeOK, Counts
      <4> QED
        BY <4>1, <4>2
    <3> QED
      BY <1>0, <1>O, <2>1, <3>3, <3>4, <3>5, <3>6 DEF Counts
  <2> QED
    BY <1>8, <2>4, <2>5, <2>m DEF DisconnectQueue
<1>9. ASSUME NEW q \in Queues, DisconnectFails(q)
      PROVE  Counts'
  <2>m. PICK m \in Managers : m = ManagerOf(q)
    BY <1>0
  <2>1. /\ m \in Managers /\ hobj[q] = "live" /\ LastOut(m) /\ hobj' = Closed(q)
        /\ opens' = [opens EXCEPT ![m] = 0] /\ UNCHANGED <<hconn, link>>
        /\ stage' # "procedure"
    BY <1>9, <1>O, <2>m DEF DisconnectFails, GiveUp, RunsOn
  <2>2. /\ \A k : k # m => Live(k)' = Live(k)
        /\ Live(m)' = {}
    BY <1>0, <2>m, <1>6, <2>1, LiveRemoved, <2>m
  <2>3. \A k \in Managers : opens'[k] = IF k = m THEN 0 ELSE opens[k]
    BY <2>1 DEF MqTypeOK
  <2>0. Cardinality(Live(m)') = 0 /\ opens'[m] = 0
    BY <1>7, <2>1, <2>2, <2>3
  <2>4. \A k \in Managers : Cardinality(Live(k)') <= opens'[k]
    BY <1>M, <2>0, <2>1, <2>2, <2>3
  <2>5. Once => \A k \in Managers : Cardinality(Live(k)') = opens'[k]
    BY <1>M, <2>0, <2>1, <2>2, <2>3
  <2>6. \A k \in Managers : opens'[k] > 0 => (k \in hconn' /\ k \in link')
    BY <2>1, <2>3 DEF Counts
  <2>7. \A r \in Queues : hobj'[r] # "dead"
    BY <2>1 DEF Counts, MqTypeOK, Closed
  <2> QED
    BY <1>0, <1>O, <2>1, <2>4, <2>5, <2>6, <2>7 DEF Counts
<1>10. CASE EnterProcedure \/ LeaveProcedure \/ BodyFails \/ StepOver
  BY <1>10, <1>K, <1>O
     DEF EnterProcedure, LeaveProcedure, BodyFails, StepOver, GiveUp, Orderly
<1>11. CASE UNCHANGED mqVars
  BY <1>11, <1>K, <1>O DEF mqVars
<1> QED
  BY <1>1, <1>2, <1>3, <1>4, <1>8, <1>9, <1>10, <1>11 DEF MqNext

(* The count is that of the open queues while no queue is connected twice, *)
(* for any number of them (emitQueueStatement, mqManagerStorage).          *)
THEOREM QueueCountIsOpen == MqSpec => []CountIsOpen
<1>1. Counts => CountIsOpen
  BY DEF Counts, CountIsOpen, Once
<1> QED
  BY <1>1, MqTypeInit, MqTypeStep, CountsInit, CountsStep, PTL DEF MqSpec

(* No handle dies under an open queue, however queues are connected twice  *)
(* and whatever fails (emitQueueStatement, disconnect).                    *)
THEOREM QueueNoHandleDies == MqSpec => []NoHandleDies
<1>1. Counts => NoHandleDies
  BY DEF Counts, NoHandleDies, Orderly
<1> QED
  BY <1>1, MqTypeInit, MqTypeStep, CountsInit, CountsStep, PTL DEF MqSpec

(* A connect that skips MQCONN has a connection (emitQueueStatement,       *)
(* connect).                                                               *)
THEOREM QueueCountedIsConnected == MqSpec => []CountedIsConnected
<1>1. Counts => CountedIsConnected
  BY DEF Counts, CountedIsConnected, Orderly
<1> QED
  BY <1>1, MqTypeInit, MqTypeStep, CountsInit, CountsStep, PTL DEF MqSpec

-----------------------------------------------------------------------------
LEMMA TidyInit == MqInit => Tidy
  BY DEF MqInit, Tidy

LEMMA TidyStep == MqTypeOK /\ Counts /\ Tidy /\ [MqNext]_mqVars => Tidy'
<1> SUFFICES ASSUME MqTypeOK, Counts, Tidy, [MqNext]_mqVars
             PROVE  Tidy'
  OBVIOUS
<1>0. /\ style' = style
      /\ \A q \in Queues : ManagerOf(q) \in Managers
  BY QueueAssumption DEF MqTypeOK, Style, ManagerOf, MqNext, mqVars, ConnectQueue, ConnectFails,
     ConnectFailsInSort, Exchange, ExchangeFails, DisconnectQueue, CloseQueueFails,
     DisconnectFails, CloseFailsInSort, EnterProcedure, LeaveProcedure, BodyFails, StepOver
<1>1. Alone' <=> Alone
  BY <1>0 DEF Alone, ManagerOf
<1> SUFFICES ASSUME style.tidy, Once, Alone
             PROVE  /\ failed' => stage' \in {"handler", "over"}
                    /\ (\E m \in Managers : "body" \in kept'[m]) => Settled'
  BY <1>0, <1>1 DEF Tidy, Once
<1>2. /\ ~ style.sorts /\ stage # "procedure"
      /\ failed => stage \in {"handler", "over"}
      /\ (\E m \in Managers : "body" \in kept[m]) => Settled
  BY DEF Once, Orderly, Counts, Tidy
(* Once settled there is nothing a tidy program still does but end. *)
<1>3. ASSUME Settled
      PROVE  /\ failed' => stage' \in {"handler", "over"}
             /\ Settled'
  <2>1. ~ Working /\ ~ BodyFails /\ \A q \in Queues : ~ Disconnecting(q)
    BY <1>3 DEF Settled, Working, BodyFails, Disconnecting
  <2>2. StepOver \/ UNCHANGED mqVars
    BY <2>1, <1>2, <1>3 DEF MqNext, ConnectQueue, ConnectFails, ConnectFailsInSort, Exchange,
       ExchangeFails, DisconnectQueue, CloseQueueFails, DisconnectFails, CloseFailsInSort,
       EnterProcedure, LeaveProcedure, Settled
  <2>3. CASE StepOver
    BY <2>3, <1>3 DEF Settled, StepOver
  <2>4. CASE UNCHANGED mqVars
    <3>1. stage' = stage /\ failed' = failed /\ closing' = closing /\ hobj' = hobj
      BY <2>4 DEF mqVars
    <3> QED
      BY <3>1, <1>3 DEF Settled
  <2> QED
    BY <2>2, <2>3, <2>4
<1> SUFFICES ASSUME ~ Settled
             PROVE  /\ failed' => stage' \in {"handler", "over"}
                    /\ (\E m \in Managers : "body" \in kept'[m]) => Settled'
  BY <1>3
<1>4. \A m \in Managers : "body" \notin kept[m]
  BY <1>2
<1>5. failed' => stage' \in {"handler", "over"}
  <2>1. ASSUME GiveUp
        PROVE  stage' \in {"handler", "over"}
    BY <2>1 DEF GiveUp
  <2>2. ~ RunsOn
    BY <1>2 DEF RunsOn
  <2>3. CASE \E q \in Queues : ConnectQueue(q) \/ Exchange(q) \/ DisconnectQueue(q)
    BY <2>3, <1>2 DEF ConnectQueue, Exchange, DisconnectQueue, Proceeds
  <2>4. CASE \E q \in Queues : ConnectFails(q) \/ ConnectFailsInSort(q) \/ ExchangeFails(q)
                  \/ CloseQueueFails(q) \/ DisconnectFails(q) \/ CloseFailsInSort(q)
    BY <2>4, <2>1, <2>2 DEF ConnectFails, ConnectFailsInSort, ExchangeFails, CloseQueueFails,
       DisconnectFails, CloseFailsInSort
  <2>5. CASE EnterProcedure \/ LeaveProcedure \/ BodyFails \/ StepOver
    BY <2>5, <2>1, <1>2 DEF EnterProcedure, LeaveProcedure, BodyFails, StepOver
  <2>6. CASE UNCHANGED mqVars
    BY <2>6, <1>2 DEF mqVars
  <2> QED
    BY <2>3, <2>4, <2>5, <2>6 DEF MqNext
<1>6. CASE UNCHANGED kept
  BY <1>4, <1>5, <1>6
<1>7. CASE \E q \in Queues : DisconnectQueue(q) /\ EndConnection(ManagerOf(q), Closed(q))
                                /\ LastOut(ManagerOf(q))
  <2> PICK q \in Queues : DisconnectQueue(q) /\ EndConnection(ManagerOf(q), Closed(q))
                                /\ LastOut(ManagerOf(q))
    BY <1>7
  <2>1. stage = "body" /\ hobj[q] = "live"
    BY <1>2 DEF DisconnectQueue, Using
  <2>2. stage' = "body" /\ ~ failed' /\ closing'
    BY <1>2, <2>1 DEF DisconnectQueue, Proceeds, NoteClosing, MqTypeOK
  <2>3. Cardinality(Live(ManagerOf(q))) <= 1
    <3>1. opens[ManagerOf(q)] <= 1
      BY <1>0, QueueAssumption DEF LastOut, CountedOut, MqTypeOK
    <3>2. Cardinality(Live(ManagerOf(q))) = opens[ManagerOf(q)]
      BY <1>0 DEF Counts
    <3> QED
      BY <3>1, <3>2
  <2>4. Live(ManagerOf(q)) = {q}
    <3>1. q \in Live(ManagerOf(q))
      BY <2>1 DEF Live, Siblings
    <3> QED
      BY <3>1, <2>3, LastIsAlone
  <2>5. \A r \in Queues : hobj'[r] = "none"
    <3> SUFFICES ASSUME NEW r \in Queues
                 PROVE  hobj'[r] = "none"
      OBVIOUS
    <3>1. CASE r = q
      BY <3>1 DEF EndConnection, Closed, MqTypeOK
    <3>2. CASE r # q
      <4>1. ManagerOf(r) = ManagerOf(q)
        BY DEF Alone
      <4>2. hobj[r] # "live" /\ hobj[r] # "dead"
        BY <3>2, <4>1, <2>4 DEF Live, Siblings, Counts, Once, Orderly
      <4> QED
        BY <3>2, <4>2 DEF EndConnection, Closed, MqTypeOK
    <3> QED
      BY <3>1, <3>2
  <2> QED
    BY <2>2, <2>5 DEF Settled
<1>8. ASSUME ~ UNCHANGED kept
      PROVE  \E q \in Queues : DisconnectQueue(q) /\ EndConnection(ManagerOf(q), Closed(q))
                                /\ LastOut(ManagerOf(q))
  BY <1>8, <1>2 DEF MqNext, ConnectQueue, ConnectFails, ConnectFailsInSort, Exchange,
     ExchangeFails, DisconnectQueue, CloseQueueFails, DisconnectFails, CloseFailsInSort, RunsOn,
     EnterProcedure, LeaveProcedure, BodyFails, StepOver, mqVars
<1> QED
  BY <1>6, <1>7, <1>8

(* A tidy program of one manager: its messages are committed only if its   *)
(* body did not fail, for any number of queues and messages                *)
(* (emitQueueStatement, "There is no MQCMIT here").                        *)
THEOREM QueueTidyCommitsTogether == MqSpec => []TidyCommitsTogether
<1>1. Tidy => TidyCommitsTogether
  BY DEF Tidy, TidyCommitsTogether, CommitTogether, Once, Alone, Settled
<1> QED
  BY <1>1, MqTypeInit, MqTypeStep, CountsInit, CountsStep, TidyInit, TidyStep, PTL DEF MqSpec

-----------------------------------------------------------------------------
(* Slices of a sequence of bytes. *)

LEMMA Slice ==
    ASSUME NEW S, NEW s \in Seq(S), NEW m \in Nat \ {0}, NEW n \in 0..Len(s), m <= n + 1
    PROVE  /\ SubSeq(s, m, n) \in Seq(S)
           /\ Len(SubSeq(s, m, n)) = n - m + 1
           /\ \A i \in 1..(n - m + 1) : SubSeq(s, m, n)[i] = s[m + i - 1]
<1>1. Len(s) \in Nat /\ \A i \in m..n : s[i] \in S
    BY LenProperties, ElementOfSeq
<1> QED
    BY <1>1, SubSeqProperties

LEMMA SliceOfSlice ==
    ASSUME NEW S, NEW s \in Seq(S)
    PROVE  \A i, j, m, n \in Nat :
              i > 0 /\ j <= Len(s) /\ i <= j + 1 /\ m > 0 /\ n <= j - i + 1 /\ m <= n + 1 =>
              SubSeq(SubSeq(s, i, j), m, n) = SubSeq(s, i + m - 1, i + n - 1)
<1> SUFFICES ASSUME NEW i \in Nat \ {0}, NEW j \in 0..Len(s), i <= j + 1,
                    NEW m \in Nat \ {0}, NEW n \in 0..(j - i + 1), m <= n + 1
             PROVE  SubSeq(SubSeq(s, i, j), m, n) = SubSeq(s, i + m - 1, i + n - 1)
  <2>1. Len(s) \in Nat
      BY LenProperties
  <2> QED
      BY <2>1
<1> DEFINE t == SubSeq(s, i, j)
           u == SubSeq(t, m, n)
           v == SubSeq(s, i + m - 1, i + n - 1)
<1>1. Len(s) \in Nat
    BY LenProperties
<1>2. t \in Seq(S) /\ Len(t) = j - i + 1 /\ \A x \in 1..(j - i + 1) : t[x] = s[i + x - 1]
    BY Slice
<1>3. u \in Seq(S) /\ Len(u) = n - m + 1 /\ \A x \in 1..(n - m + 1) : u[x] = t[m + x - 1]
  <2> HIDE DEF t
  <2>1. n \in 0..Len(t)
      BY <1>2
  <2> QED
      BY <1>2, <2>1, Slice
<1>4. v \in Seq(S) /\ Len(v) = n - m + 1 /\ \A x \in 1..(n - m + 1) : v[x] = s[i + m - 1 + x - 1]
  <2>1. i + m - 1 \in Nat \ {0} /\ i + n - 1 \in 0..Len(s) /\ i + m - 1 <= i + n - 1 + 1
      BY <1>1
  <2> QED
      BY <2>1, Slice
<1>5. \A x \in 1..(n - m + 1) : u[x] = v[x]
  <2> TAKE x \in 1..(n - m + 1)
  <2>1. m + x - 1 \in 1..(j - i + 1)
      BY <1>1
  <2> HIDE DEF t, u, v
  <2> QED
      BY <1>2, <1>3, <1>4, <2>1
<1> HIDE DEF t, u, v
<1>6. u = v
    BY <1>3, <1>4, <1>5, SeqEqual
<1> QED
    BY <1>6 DEF t, u, v

(* The least of a set of positions.                                        *)
LEMMA FirstIsLeast ==
    ASSUME NEW I \in SUBSET Nat, I # {}
    PROVE  FirstOf(I) \in I /\ \A j \in I : FirstOf(I) <= j
<1>1. \E x \in I : \A y \in I : x <= y
    BY LeastNatural
<1> QED
    BY <1>1 DEF FirstOf

LEMMA FirstIs ==
    ASSUME NEW I \in SUBSET Nat, NEW x \in I, \A y \in I : x <= y
    PROVE  FirstOf(I) = x
<1>1. I # {}
    OBVIOUS
<1>2. FirstOf(I) \in I /\ \A j \in I : FirstOf(I) <= j
    BY <1>1, FirstIsLeast
<1>3. FirstOf(I) \in Nat /\ x \in Nat /\ FirstOf(I) <= x /\ x <= FirstOf(I)
    BY <1>2
<1> QED
    BY <1>3

-----------------------------------------------------------------------------
(* The wire. *)

HeadLength(frame) == IF Len(frame.lines) = 0 THEN 0 ELSE 2 * Len(frame.lines) - 1

LEMMA LineEndIsByte == LineEnd \in Byte /\ LineEnd.is = "end" /\ <<LineEnd, LineEnd>> \in Seq(Byte)
BY DEF LineEnd, Byte

LEMMA SeparatedShape ==
    ASSUME NEW f \in SentFrames
    PROVE  /\ HeadLength(f) \in Nat
           /\ Separated(f.lines) \in Seq(Byte)
           /\ Len(Separated(f.lines)) = HeadLength(f)
           /\ \A i \in 1..HeadLength(f) :
                 IF i % 2 = 1
                 THEN /\ (i + 1) \div 2 \in 1..Len(f.lines)
                      /\ Separated(f.lines)[i] = f.lines[(i + 1) \div 2]
                 ELSE Separated(f.lines)[i] = LineEnd
<1> DEFINE n == Len(f.lines)
<1>1. f.lines \in Seq(Byte) /\ n \in Nat /\ \A i \in 1..n : f.lines[i] \in Byte
    BY LenProperties, ElementOfSeq DEF SentFrames
<1>2. HeadLength(f) \in Nat /\ 1..(2 * n - 1) = 1..HeadLength(f)
    BY <1>1 DEF HeadLength
<1>3. \A i \in 1..HeadLength(f) : i % 2 = 1 => (i + 1) \div 2 \in 1..n
    BY <1>1 DEF HeadLength
<1> DEFINE e(i) == IF i % 2 = 1 THEN f.lines[(i + 1) \div 2] ELSE LineEnd
<1>4. Separated(f.lines) = [i \in 1..HeadLength(f) |-> e(i)]
    BY <1>2 DEF Separated
<1>5. \A i \in 1..HeadLength(f) : e(i) \in Byte
    BY <1>1, <1>3, LineEndIsByte
<1> HIDE DEF e
<1>6. [i \in 1..HeadLength(f) |-> e(i)] \in Seq(Byte)
    BY <1>2, <1>5
<1>7. Len([i \in 1..HeadLength(f) |-> e(i)]) = HeadLength(f)
    BY <1>2
<1>8. \A i \in 1..HeadLength(f) : Separated(f.lines)[i] = e(i)
    BY <1>4
<1> QED
    BY <1>2, <1>3, <1>4, <1>6, <1>7, <1>8 DEF e

(* Two sequences end to end, by their lengths.                             *)
LEMMA EndToEnd ==
    ASSUME NEW S, NEW s \in Seq(S), NEW t \in Seq(S)
    PROVE  /\ Len(s) \in Nat /\ Len(t) \in Nat
           /\ s \o t \in Seq(S) /\ Len(s \o t) = Len(s) + Len(t)
           /\ \A i \in 1..Len(s) : (s \o t)[i] = s[i]
           /\ \A i \in 1..Len(t) : (s \o t)[Len(s) + i] = t[i]
<1> DEFINE m == Len(s)
           n == Len(t)
<1>1. m \in Nat /\ n \in Nat
    BY LenProperties
<1>2. /\ s \o t \in Seq(S) /\ Len(s \o t) = m + n
      /\ \A i \in 1..m + n : (s \o t)[i] = IF i <= m THEN s[i] ELSE t[i - m]
    BY ConcatProperties
<1>3. \A i \in 1..m : (s \o t)[i] = s[i]
    BY <1>1, <1>2
<1>4. \A i \in 1..n : (s \o t)[m + i] = t[i]
  <2> TAKE i \in 1..n
  <2>1. m + i \in 1..m + n /\ ~ (m + i <= m) /\ m + i - m = i
      BY <1>1
  <2> QED
      BY <1>2, <2>1
<1> QED
    BY <1>1, <1>2, <1>3, <1>4

LEMMA EncodedShape ==
    ASSUME NEW f \in SentFrames
    PROVE  LET h == HeadLength(f) IN
           /\ Len(f.body) \in Nat /\ f.body \in Seq(Byte)
           /\ Encoded(f) \in Seq(Byte)
           /\ Len(Encoded(f)) = h + 2 + Len(f.body)
           /\ \A i \in 1..h : Encoded(f)[i] = Separated(f.lines)[i]
           /\ Encoded(f)[h + 1] = LineEnd /\ Encoded(f)[h + 2] = LineEnd
           /\ \A i \in 1..Len(f.body) : Encoded(f)[h + 2 + i] = f.body[i]
<1> DEFINE h == HeadLength(f)
           head == Separated(f.lines)
           ends == <<LineEnd, LineEnd>>
           front == head \o ends
<1>1. head \in Seq(Byte) /\ Len(head) = h /\ h \in Nat
    BY SeparatedShape
<1>2. ends \in Seq(Byte) /\ Len(ends) = 2 /\ ends[1] = LineEnd /\ ends[2] = LineEnd
    BY LineEndIsByte
<1>3. f.body \in Seq(Byte) /\ Len(f.body) \in Nat
    BY LenProperties DEF SentFrames
<1> HIDE DEF h, head, ends
<1>4. /\ front \in Seq(Byte) /\ Len(front) = h + 2
      /\ \A i \in 1..h : front[i] = head[i]
      /\ \A i \in 1..2 : front[h + i] = ends[i]
  <2>0. head \in Seq(Byte) /\ ends \in Seq(Byte)
      BY <1>1, <1>2
  <2>1. /\ front \in Seq(Byte) /\ Len(front) = Len(head) + Len(ends)
        /\ \A i \in 1..Len(head) : front[i] = head[i]
        /\ \A i \in 1..Len(ends) : front[Len(head) + i] = ends[i]
      BY <2>0, EndToEnd
  <2> QED
      BY <1>1, <1>2, <2>1
<1>5. Encoded(f) = front \o f.body
    BY DEF Encoded, front, head, ends
<1> HIDE DEF front
<1>6. /\ Encoded(f) \in Seq(Byte) /\ Len(Encoded(f)) = (h + 2) + Len(f.body)
      /\ \A i \in 1..(h + 2) : Encoded(f)[i] = front[i]
      /\ \A i \in 1..Len(f.body) : Encoded(f)[(h + 2) + i] = f.body[i]
  <2>0. front \in Seq(Byte) /\ f.body \in Seq(Byte)
      BY <1>3, <1>4
  <2>1. /\ Encoded(f) \in Seq(Byte) /\ Len(Encoded(f)) = Len(front) + Len(f.body)
        /\ \A i \in 1..Len(front) : Encoded(f)[i] = front[i]
        /\ \A i \in 1..Len(f.body) : Encoded(f)[Len(front) + i] = f.body[i]
      BY <2>0, <1>5, EndToEnd
  <2> QED
      BY <1>4, <2>1
<1>7. \A i \in 1..h : Encoded(f)[i] = head[i]
  <2> TAKE i \in 1..h
  <2>1. i \in 1..(h + 2)
      BY <1>1
  <2> QED
      BY <1>4, <1>6, <2>1
<1>8. Encoded(f)[h + 1] = LineEnd /\ Encoded(f)[h + 2] = LineEnd
  <2>1. h + 1 \in 1..(h + 2) /\ h + 2 \in 1..(h + 2) /\ 1 \in 1..2 /\ 2 \in 1..2
      BY <1>1
  <2> QED
      BY <1>2, <1>4, <1>6, <2>1
<1> QED
    BY <1>3, <1>6, <1>7, <1>8 DEF h, head

LEMMA Session ==
    ASSUME NEW w \in Wires
    PROVE  /\ Len(w) \in Nat /\ \A k \in 1..Len(w) : w[k] \in SentFrames /\ Proper(w[k])
           /\ \A j, k \in 1..Len(w) : w[j].body = w[k].body => w[j].json = w[k].json
BY FramingAssumption, ElementOfSeq, LenProperties

SentIs(s, w) == s = [k \in 0..Len(w) |-> IF k = 0 THEN << >> ELSE s[k - 1] \o Encoded(w[k])]

LEMMA SentExists == ASSUME NEW w \in Wires PROVE SentIs(Sent(w), w)
<1> DEFINE n == Len(w)
           G == [k \in 1..n |-> [s \in Seq(Byte) |-> s \o Encoded(w[k])]]
<1>1. n \in Nat /\ \A k \in 1..n : Encoded(w[k]) \in Seq(Byte)
    BY Session, EncodedShape
<1>2. G \in [1..n -> [Seq(Byte) -> Seq(Byte)]]
    BY <1>1, EndToEnd
<1>3. << >> \in Seq(Byte)
    OBVIOUS
<1>4. PICK f \in [0..n -> Seq(Byte)] : IsChain(f, << >>, G, n)
  <2> HIDE DEF n, G
  <2> QED
      BY Zenon, <1>1, <1>2, <1>3, ChainsExist
<1>5. \A k \in 0..n : f[k] = IF k = 0 THEN << >> ELSE f[k - 1] \o Encoded(w[k])
  <2> TAKE k \in 0..n
  <2>1. f[k] = IF k = 0 THEN << >> ELSE G[k][f[k - 1]]
      BY <1>4 DEF IsChain
  <2>2. k # 0 => k \in 1..n /\ f[k - 1] \in Seq(Byte)
      BY <1>1
  <2> QED
      BY <2>1, <2>2
<1>6. SentIs(f, w)
    BY <1>5 DEF SentIs
<1> QED
    BY Zenon, <1>6 DEF Sent, SentIs

LEMMA SentShape ==
    ASSUME NEW w \in Wires
    PROVE  /\ \A k \in 0..Len(w) : Sent(w)[k] \in Seq(Byte)
           /\ Sent(w)[0] = << >>
           /\ \A k \in 1..Len(w) : Sent(w)[k] = Sent(w)[k - 1] \o Encoded(w[k])
<1> DEFINE n == Len(w)
           s == Sent(w)
           I == {k \in Nat : k <= n => s[k] \in Seq(Byte)}
<1>1. n \in Nat /\ \A k \in 1..n : Encoded(w[k]) \in Seq(Byte)
    BY Session, EncodedShape
<1> HIDE DEF n, s
<1>2. \A k \in 0..n : s[k] = IF k = 0 THEN << >> ELSE s[k - 1] \o Encoded(w[k])
    BY SentExists DEF SentIs, n, s
<1>3. 0 \in I
  <2>1. << >> \in Seq(Byte) /\ 0 \in 0..n
      BY <1>1
  <2>2. s[0] = << >>
      BY <1>2, <2>1
  <2> QED
      BY <2>1, <2>2
<1>4. ASSUME NEW k \in I PROVE k + 1 \in I
  <2> SUFFICES ASSUME k + 1 <= n PROVE s[k + 1] \in Seq(Byte)
      OBVIOUS
  <2>1. k + 1 \in 0..n /\ k + 1 \in 1..n /\ (k + 1) - 1 = k /\ k + 1 # 0 /\ s[k] \in Seq(Byte)
      BY <1>1
  <2>2. s[k + 1] = s[k] \o Encoded(w[k + 1])
      BY <1>2, <2>1
  <2>3. Encoded(w[k + 1]) \in Seq(Byte) /\ s[k] \in Seq(Byte)
      BY <1>1, <2>1
  <2> QED
      BY <2>2, <2>3, EndToEnd
<1>5. I = Nat
    BY <1>3, <1>4, InductionOfSets
<1>6. \A k \in 0..n : s[k] \in Seq(Byte)
    BY <1>1, <1>5
<1>7. s[0] = << >>
    BY <1>1, <1>2
<1>8. \A k \in 1..n : s[k] = s[k - 1] \o Encoded(w[k])
  <2> TAKE k \in 1..n
  <2>1. k \in 0..n /\ k # 0
      BY <1>1
  <2> QED
      BY <1>2, <2>1
<1> QED
    BY <1>6, <1>7, <1>8 DEF n, s

(* How many bytes the first k frames are. *)
Size(w, k) == Len(Sent(w)[k])

LEMMA NextFrame ==
    ASSUME NEW w \in Wires, NEW k \in 1..Len(w)
    PROVE  /\ k - 1 \in 0..Len(w) /\ k \in 0..Len(w)
           /\ Size(w, k - 1) \in Nat /\ Size(w, k) \in Nat
           /\ Size(w, k) = Size(w, k - 1) + Len(Encoded(w[k]))
           /\ \A i \in 1..Size(w, k - 1) : Sent(w)[k][i] = Sent(w)[k - 1][i]
           /\ \A i \in 1..Len(Encoded(w[k])) :
                 Sent(w)[k][Size(w, k - 1) + i] = Encoded(w[k])[i]
<1> DEFINE s == Sent(w)[k - 1]
           t == Encoded(w[k])
<1>1. k - 1 \in 0..Len(w) /\ k \in 0..Len(w) /\ w[k] \in SentFrames
    BY Session
<1>2. s \in Seq(Byte) /\ t \in Seq(Byte) /\ Sent(w)[k] = s \o t
    BY <1>1, SentShape, EncodedShape
<1> HIDE DEF s, t
<1>3. s \in Seq(Byte) /\ t \in Seq(Byte)
    BY <1>2
<1>4. /\ Len(s) \in Nat /\ Len(t) \in Nat /\ Len(s \o t) = Len(s) + Len(t)
      /\ \A i \in 1..Len(s) : (s \o t)[i] = s[i]
      /\ \A i \in 1..Len(t) : (s \o t)[Len(s) + i] = t[i]
    BY <1>3, EndToEnd
<1>5. Size(w, k) = Len(s \o t) /\ Size(w, k - 1) = Len(s)
    BY <1>2 DEF Size, s
<1>6. /\ Size(w, k - 1) \in Nat /\ Size(w, k) \in Nat /\ Size(w, k) = Size(w, k - 1) + Len(t)
      /\ \A i \in 1..Size(w, k - 1) : Sent(w)[k][i] = s[i]
    BY <1>2, <1>4, <1>5
<1>7. \A i \in 1..Len(t) : Sent(w)[k][Size(w, k - 1) + i] = t[i]
    BY <1>2, <1>4, <1>5
<1> QED
    BY <1>1, <1>6, <1>7 DEF s, t

LEMMA PrefixOf ==
    ASSUME NEW w \in Wires, NEW j \in 0..Len(w), NEW k \in j..Len(w)
    PROVE  /\ Size(w, j) \in Nat /\ Size(w, k) \in Nat
           /\ Size(w, j) <= Size(w, k)
           /\ \A i \in 1..Size(w, j) : Sent(w)[k][i] = Sent(w)[j][i]
<1> DEFINE Extends(d) ==
        j + d <= Len(w) => /\ Size(w, j + d) \in Nat /\ Size(w, j) <= Size(w, j + d)
                           /\ \A i \in 1..Size(w, j) : Sent(w)[j + d][i] = Sent(w)[j][i]
           I == {d \in Nat : Extends(d)}
<1>1. Len(w) \in Nat /\ Size(w, j) \in Nat
    BY Session, SentShape, LenProperties DEF Size
<1>2. 0 \in I
    BY <1>1
<1>3. ASSUME NEW d \in I PROVE d + 1 \in I
  <2> SUFFICES ASSUME j + (d + 1) <= Len(w) PROVE Extends(d + 1)
      OBVIOUS
  <2>1. d \in Nat /\ Extends(d)
      OBVIOUS
  <2>2. j + (d + 1) \in 1..Len(w) /\ (j + (d + 1)) - 1 = j + d /\ j + d <= Len(w)
      BY <1>1, <2>1
  <2>3. Len(Encoded(w[j + (d + 1)])) \in Nat
      BY <2>2, Session, EncodedShape, LenProperties
  <2>4. /\ Size(w, j + (d + 1)) = Size(w, j + d) + Len(Encoded(w[j + (d + 1)]))
        /\ \A i \in 1..Size(w, j + d) : Sent(w)[j + (d + 1)][i] = Sent(w)[j + d][i]
    <3> DEFINE x == j + (d + 1)
    <3>1. x \in 1..Len(w) /\ x - 1 = j + d
        BY <2>2
    <3> HIDE DEF x
    <3>2. /\ Size(w, x) = Size(w, x - 1) + Len(Encoded(w[x]))
          /\ \A i \in 1..Size(w, x - 1) : Sent(w)[x][i] = Sent(w)[x - 1][i]
        BY <3>1, NextFrame
    <3> QED
        BY <3>1, <3>2 DEF x
  <2> QED
      BY <1>1, <2>1, <2>2, <2>3, <2>4
<1>4. I = Nat
  <2> HIDE DEF I
  <2> QED
      BY <1>2, <1>3, InductionOfSets DEF I
<1>5. k - j \in I /\ j + (k - j) = k
    BY <1>1, <1>4
<1> QED
    BY <1>1, <1>5

LEMMA OnWire ==
    ASSUME NEW w \in Wires, NEW k \in 1..Len(w)
    PROVE  /\ OnTheWire(w) \in Seq(Byte) /\ Len(OnTheWire(w)) \in Nat
           /\ Size(w, k) <= Len(OnTheWire(w))
           /\ \A i \in 1..Len(Encoded(w[k])) :
                 OnTheWire(w)[Size(w, k - 1) + i] = Encoded(w[k])[i]
<1>1. Len(w) \in Nat /\ Len(w) \in k..Len(w) /\ k \in 0..Len(w) /\ Len(w) \in 0..Len(w)
    BY Session
<1>2. OnTheWire(w) \in Seq(Byte) /\ Len(OnTheWire(w)) \in Nat
    BY <1>1, SentShape, LenProperties DEF OnTheWire
<1>3. /\ Size(w, k) <= Len(OnTheWire(w)) /\ Size(w, k) \in Nat
      /\ \A i \in 1..Size(w, k) : OnTheWire(w)[i] = Sent(w)[k][i]
    BY <1>1, PrefixOf DEF OnTheWire, Size
<1>4. ASSUME NEW i \in 1..Len(Encoded(w[k]))
      PROVE  OnTheWire(w)[Size(w, k - 1) + i] = Encoded(w[k])[i]
  <2>1. /\ Size(w, k - 1) \in Nat /\ Size(w, k) = Size(w, k - 1) + Len(Encoded(w[k]))
        /\ Sent(w)[k][Size(w, k - 1) + i] = Encoded(w[k])[i]
      BY NextFrame
  <2>2. Len(Encoded(w[k])) \in Nat
      BY Session, EncodedShape, LenProperties
  <2>3. Size(w, k - 1) + i \in 1..Size(w, k)
      BY <2>1, <2>2
  <2> QED
      BY <1>3, <2>1, <2>3
<1> QED
    BY <1>2, <1>3, <1>4

-----------------------------------------------------------------------------
(* Where the decoder cuts.  After k frames it has cut behind the k-th, but *)
(* what came without a length it has cut behind the header: the rest goes  *)
(* for the first bytes of the next header.                                 *)

Rest(w, k) == IF k = 0 \/ HasLength(w[k]) THEN 0 ELSE Len(w[k].body)
Cut(w, k) == Size(w, k) - Rest(w, k)

LEMMA CutShape ==
    ASSUME NEW w \in Wires, NEW k \in 0..Len(w)
    PROVE  /\ Rest(w, k) \in Nat /\ Cut(w, k) \in Nat
           /\ Cut(w, k) + Rest(w, k) = Size(w, k) /\ Size(w, k) \in Nat
           /\ Size(w, k) <= Len(OnTheWire(w)) /\ Len(OnTheWire(w)) \in Nat
           /\ OnTheWire(w) \in Seq(Byte)
           /\ \A i \in 1..Rest(w, k) : OnTheWire(w)[Cut(w, k) + i].is = "other"
<1>1. Len(w) \in Nat /\ Len(w) \in k..Len(w) /\ Len(w) \in 0..Len(w) /\ k \in 0..Len(w)
    BY Session
<1>2. /\ Size(w, k) \in Nat /\ Size(w, k) <= Len(OnTheWire(w)) /\ Len(OnTheWire(w)) \in Nat
      /\ OnTheWire(w) \in Seq(Byte)
  <2>1. Size(w, k) \in Nat /\ Size(w, k) <= Size(w, Len(w))
      BY <1>1, PrefixOf
  <2>2. Sent(w)[Len(w)] \in Seq(Byte)
      BY <1>1, SentShape
  <2> QED
      BY <2>1, <2>2, LenProperties DEF OnTheWire, Size
<1>3. CASE k = 0 \/ HasLength(w[k])
    BY <1>2, <1>3 DEF Rest, Cut
<1>4. CASE k # 0 /\ ~ HasLength(w[k])
  <2> DEFINE h == HeadLength(w[k])
             n == Len(w[k].body)
  <2>1. k \in 1..Len(w) /\ w[k] \in SentFrames /\ Proper(w[k])
      BY <1>1, <1>4, Session
  <2>2. /\ h \in Nat /\ n \in Nat
        /\ Len(Encoded(w[k])) = h + 2 + n
        /\ \A i \in 1..n : Encoded(w[k])[h + 2 + i] = w[k].body[i]
      BY <2>1, EncodedShape, SeparatedShape
  <2>3. \A i \in 1..n : w[k].body[i].is = "other"
      BY <1>4, <2>1 DEF Proper
  <2>4. /\ Size(w, k - 1) \in Nat /\ Size(w, k) = Size(w, k - 1) + Len(Encoded(w[k]))
        /\ \A i \in 1..Len(Encoded(w[k])) :
              OnTheWire(w)[Size(w, k - 1) + i] = Encoded(w[k])[i]
      BY <2>1, NextFrame, OnWire
  <2>5. Rest(w, k) = n /\ Cut(w, k) = Size(w, k - 1) + (h + 2)
    <3>1. Rest(w, k) = n
        BY <1>4 DEF Rest
    <3> HIDE DEF h, n
    <3> QED
        BY <2>2, <2>4, <3>1 DEF Cut
  <2> HIDE DEF h, n
  <2>6. ASSUME NEW i \in 1..n PROVE OnTheWire(w)[Cut(w, k) + i].is = "other"
    <3>1. h + 2 + i \in 1..(h + 2 + n)
        BY <2>2
    <3>2. Cut(w, k) + i = Size(w, k - 1) + (h + 2 + i)
        BY <2>2, <2>4, <2>5
    <3>3. OnTheWire(w)[Size(w, k - 1) + (h + 2 + i)] = Encoded(w[k])[h + 2 + i]
        BY <2>2, <2>4, <3>1
    <3>4. Encoded(w[k])[h + 2 + i] = w[k].body[i]
        BY <2>2
    <3> QED
        BY <2>3, <3>2, <3>3, <3>4
  <2>7. Cut(w, k) + n = Size(w, k) /\ Cut(w, k) \in Nat
      BY <2>2, <2>4, <2>5
  <2> QED
      BY <1>2, <2>2, <2>5, <2>6, <2>7
<1> QED
    BY <1>3, <1>4

(* The bytes before the end of the next frame's header.                    *)
Before(w, k) == Rest(w, k) + HeadLength(w[k + 1])

LEMMA NextHeader ==
    ASSUME NEW w \in Wires, NEW k \in 0..Len(w), k < Len(w)
    PROVE  /\ k + 1 \in 1..Len(w) /\ w[k + 1] \in SentFrames /\ Proper(w[k + 1])
           /\ HeadLength(w[k + 1]) \in Nat /\ Before(w, k) \in Nat
           /\ \A i \in 1..(Len(Encoded(w[k + 1]))) :
                 OnTheWire(w)[Size(w, k) + i] = Encoded(w[k + 1])[i]
           /\ \A i \in 1..HeadLength(w[k + 1]) :
                 OnTheWire(w)[Cut(w, k) + Rest(w, k) + i] = Separated(w[k + 1].lines)[i]
           /\ OnTheWire(w)[Cut(w, k) + Before(w, k) + 1] = LineEnd
           /\ OnTheWire(w)[Cut(w, k) + Before(w, k) + 2] = LineEnd
           /\ Len(w[k + 1].body) \in Nat
           /\ \A i \in 1..Len(w[k + 1].body) :
                 OnTheWire(w)[Cut(w, k) + Before(w, k) + 2 + i] = w[k + 1].body[i]
           /\ Cut(w, k + 1) = Cut(w, k) + Before(w, k) + 2
                                + (IF HasLength(w[k + 1]) THEN Len(w[k + 1].body) ELSE 0)
           /\ Cut(w, k) + Before(w, k) + 2 + Len(w[k + 1].body) <= Len(OnTheWire(w))
<1> DEFINE f == w[k + 1]
           x == k + 1
           h == HeadLength(f)
           n == Len(f.body)
           s == OnTheWire(w)
           c == Cut(w, k)
           r == Rest(w, k)
           z == Size(w, k)
           e == Before(w, k)
<1>1. x \in 1..Len(w) /\ x - 1 = k /\ x # 0 /\ f \in SentFrames /\ Proper(f)
  <2>1. Len(w) \in Nat
      BY Session
  <2>2. x \in 1..Len(w) /\ x - 1 = k /\ x # 0
      BY <2>1
  <2> QED
      BY <2>2, Session
<1>2. /\ h \in Nat /\ n \in Nat
      /\ Len(Encoded(f)) = h + 2 + n
      /\ \A i \in 1..h : Encoded(f)[i] = Separated(f.lines)[i]
      /\ Encoded(f)[h + 1] = LineEnd /\ Encoded(f)[h + 2] = LineEnd
      /\ \A i \in 1..n : Encoded(f)[h + 2 + i] = f.body[i]
    BY <1>1, EncodedShape, SeparatedShape
<1>3. f = w[x]
    OBVIOUS
<1>4. r \in Nat /\ c \in Nat /\ c + r = z /\ z \in Nat /\ Len(s) \in Nat
    BY CutShape
<1>5. e = r + h
    BY DEF Before
<1> HIDE DEF x, f
<1>6. /\ Size(w, x) = z + Len(Encoded(f)) /\ Size(w, x) <= Len(s)
      /\ \A i \in 1..Len(Encoded(f)) : s[z + i] = Encoded(f)[i]
    BY <1>1, <1>3, NextFrame, OnWire
<1> DEFINE y == Size(w, x)
           l == Len(s)
<1> HIDE DEF h, n, s, c, r, z, e, y, l
<1>7. /\ h \in Nat /\ n \in Nat /\ r \in Nat /\ c \in Nat /\ z \in Nat /\ l \in Nat
      /\ e = r + h /\ c + r = z /\ y = z + (h + 2 + n) /\ y <= l
    BY <1>2, <1>4, <1>5, <1>6 DEF y, l
<1>8. \A i \in 1..(h + 2 + n) : s[z + i] = Encoded(f)[i]
    BY <1>2, <1>6
<1>9. \A i \in 1..h : s[c + r + i] = Separated(f.lines)[i]
  <2> TAKE i \in 1..h
  <2>1. i \in 1..(h + 2 + n) /\ c + r + i = z + i
      BY <1>7
  <2> QED
      BY <1>2, <1>8, <2>1
<1>10. s[c + e + 1] = LineEnd /\ s[c + e + 2] = LineEnd
  <2>1. h + 1 \in 1..(h + 2 + n) /\ h + 2 \in 1..(h + 2 + n)
      BY <1>7
  <2>2. c + e + 1 = z + (h + 1) /\ c + e + 2 = z + (h + 2)
      BY <1>7
  <2> QED
      BY <1>2, <1>8, <2>1, <2>2
<1>11. \A i \in 1..n : s[c + e + 2 + i] = f.body[i]
  <2> TAKE i \in 1..n
  <2>1. h + 2 + i \in 1..(h + 2 + n) /\ c + e + 2 + i = z + (h + 2 + i)
      BY <1>7
  <2> QED
      BY <1>2, <1>8, <2>1
<1>12. Cut(w, x) = c + e + 2 + (IF HasLength(f) THEN n ELSE 0)
  <2>1. Cut(w, x) = y - (IF HasLength(f) THEN 0 ELSE n)
      BY <1>1, <1>3 DEF Rest, Cut, n, y
  <2>2. c + e + 2 + n = y /\ c + e + 2 = y - n /\ c + e + 2 + 0 = c + e + 2 /\ y - 0 = y
      BY <1>7
  <2> QED
      BY <2>1, <2>2
<1>13. e \in Nat /\ c + e + 2 + n <= l
    BY <1>7
<1> QED
    BY <1>1, <1>2, <1>8, <1>9, <1>10, <1>11, <1>12, <1>13 DEF x, f, h, n, s, c, r, z, e, l

LEMMA CutsGrow ==
    ASSUME NEW w \in Wires, NEW j \in 0..Len(w), NEW k \in 0..Len(w), j <= k
    PROVE  Cut(w, j) <= Cut(w, k)
<1> DEFINE I == {d \in Nat : j + d <= Len(w) => Cut(w, j) <= Cut(w, j + d)}
<1>1. Len(w) \in Nat /\ Cut(w, j) \in Nat
    BY Session, CutShape
<1>2. 0 \in I
    BY <1>1
<1>3. ASSUME NEW d \in I PROVE d + 1 \in I
  <2> SUFFICES ASSUME j + (d + 1) <= Len(w) PROVE Cut(w, j) <= Cut(w, j + (d + 1))
      OBVIOUS
  <2> DEFINE x == j + d
  <2>1. x \in 0..Len(w) /\ x < Len(w) /\ x + 1 = j + (d + 1) /\ Cut(w, j) <= Cut(w, x)
      BY <1>1
  <2> HIDE DEF x
  <2>2. /\ Before(w, x) \in Nat /\ Cut(w, x) \in Nat /\ Len(w[x + 1].body) \in Nat
        /\ Cut(w, x + 1) = Cut(w, x) + Before(w, x) + 2
                             + (IF HasLength(w[x + 1]) THEN Len(w[x + 1].body) ELSE 0)
      BY <2>1, NextHeader, CutShape
  <2>3. Cut(w, j) <= Cut(w, x + 1)
    <3> DEFINE p == Cut(w, j)
               q == Cut(w, x)
               r == Cut(w, x + 1)
               h == Before(w, x)
               n == Len(w[x + 1].body)
    <3>1. p \in Nat /\ q \in Nat /\ h \in Nat /\ n \in Nat /\ p <= q
        BY <1>1, <2>1, <2>2
    <3>2. r = q + h + 2 + (IF HasLength(w[x + 1]) THEN n ELSE 0)
        BY <2>2
    <3> HIDE DEF p, q, r, h, n
    <3>3. p <= r
        BY <3>1, <3>2
    <3> QED
        BY <3>3 DEF p, r
  <2> QED
      BY <2>1, <2>3
<1>4. I = Nat
    BY <1>2, <1>3, InductionOfSets
<1>5. k - j \in Nat /\ j + (k - j) = k /\ k <= Len(w)
    BY <1>1
<1>6. \A d \in Nat : j + d <= Len(w) => Cut(w, j) <= Cut(w, j + d)
    BY <1>4
<1> HIDE DEF I
<1>7. Cut(w, j) <= Cut(w, j + (k - j))
    BY <1>5, <1>6
<1> QED
    BY <1>5, <1>7

(* No two line ends come before the end of the header. *)
LEMMA NoEndBefore ==
    ASSUME NEW w \in Wires, NEW k \in 0..Len(w), k < Len(w), NEW i \in 1..Before(w, k)
    PROVE  \/ OnTheWire(w)[Cut(w, k) + i] # LineEnd
           \/ OnTheWire(w)[Cut(w, k) + i + 1] # LineEnd
<1> DEFINE f == w[k + 1]
           h == HeadLength(f)
           r == Rest(w, k)
           c == Cut(w, k)
<1>1. /\ f \in SentFrames /\ h \in Nat
      /\ \A j \in 1..Len(f.lines) : f.lines[j] # LineEnd
      /\ \A j \in 1..h : OnTheWire(w)[c + r + j] = Separated(f.lines)[j]
    BY NextHeader DEF Proper
<1>2. /\ r \in Nat /\ c \in Nat
      /\ \A j \in 1..r : OnTheWire(w)[c + j].is = "other"
    BY CutShape
<1>3. \A j \in 1..h : j % 2 = 1 => Separated(f.lines)[j] # LineEnd
  <2>1. \A j \in 1..h : j % 2 = 1 =>
           /\ (j + 1) \div 2 \in 1..Len(f.lines)
           /\ Separated(f.lines)[j] = f.lines[(j + 1) \div 2]
      BY <1>1, SeparatedShape
  <2> QED
      BY <1>1, <2>1
<1>4. h = 0 \/ h % 2 = 1
  <2>1. Len(f.lines) \in Nat
      BY <1>1, LenProperties DEF SentFrames
  <2>2. h = IF Len(f.lines) = 0 THEN 0 ELSE 2 * Len(f.lines) - 1
      BY DEF HeadLength
  <2>3. \A m \in Nat : m # 0 => (2 * m - 1) % 2 = 1
      OBVIOUS
  <2> HIDE DEF h, f
  <2> QED
      BY <2>1, <2>2, <2>3
<1>5. i \in 1..(r + h)
    BY DEF Before
<1> HIDE DEF f, h, r, c
<1>6. CASE i \in 1..r
    BY <1>2, <1>6, LineEndIsByte DEF c
<1>7. CASE i \notin 1..r
  <2> DEFINE j == i - r
  <2>1. j \in 1..h /\ i = r + j
      BY <1>1, <1>2, <1>5, <1>7
  <2> HIDE DEF j
  <2>2. c + i = c + r + j /\ c + i + 1 = c + r + (j + 1)
      BY <1>2, <2>1
  <2>3. CASE j % 2 = 1
    <3>1. OnTheWire(w)[c + i] = Separated(f.lines)[j]
        BY <1>1, <2>1, <2>2
    <3> QED
        BY <1>3, <2>1, <2>3, <3>1 DEF c
  <2>4. CASE j % 2 # 1
    <3>1. j + 1 \in 1..h /\ (j + 1) % 2 = 1
        BY <1>1, <1>4, <2>1, <2>4
    <3>2. OnTheWire(w)[c + i + 1] = Separated(f.lines)[j + 1]
        BY <1>1, <2>2, <3>1
    <3> QED
        BY <1>3, <3>1, <3>2 DEF c
  <2> QED
      BY <2>3, <2>4
<1> QED
    BY <1>6, <1>7

(* The length that is read off the header is that of the frame. *)
LEMMA HeaderRead ==
    ASSUME NEW w \in Wires, NEW k \in 0..Len(w), k < Len(w),
           NEW b, Len(b) = Before(w, k),
           \A i \in 1..Before(w, k) : b[i] = OnTheWire(w)[Cut(w, k) + i]
    PROVE  /\ LengthsIn(b) # {} <=> HasLength(w[k + 1])
           /\ HasLength(w[k + 1]) => b[FirstOf(LengthsIn(b))].n = Len(w[k + 1].body)
<1> DEFINE f == w[k + 1]
           h == HeadLength(f)
           r == Rest(w, k)
           lines == f.lines
<1>1. /\ f \in SentFrames /\ Proper(f) /\ h \in Nat
      /\ \A j \in 1..h : OnTheWire(w)[Cut(w, k) + r + j] = Separated(lines)[j]
    BY NextHeader
<1>2. /\ r \in Nat /\ Cut(w, k) \in Nat
      /\ \A j \in 1..r : OnTheWire(w)[Cut(w, k) + j].is = "other"
    BY CutShape
<1>3. Len(lines) \in Nat /\ h = IF Len(lines) = 0 THEN 0 ELSE 2 * Len(lines) - 1
    BY <1>1, LenProperties DEF SentFrames, HeadLength
<1>4. Len(b) = r + h
    BY DEF Before
<1>5. \A j \in 1..h :
         IF j % 2 = 1
         THEN (j + 1) \div 2 \in 1..Len(lines) /\ Separated(lines)[j] = lines[(j + 1) \div 2]
         ELSE Separated(lines)[j] = LineEnd
    BY <1>1, SeparatedShape
<1> HIDE DEF h, r
<1>6. \A i \in 1..r : b[i].is = "other"
  <2> TAKE i \in 1..r
  <2>1. i \in 1..Before(w, k)
      BY <1>1, <1>2, <1>4
  <2> QED
      BY <1>2, <2>1
<1>7. \A j \in 1..h : b[r + j] = Separated(lines)[j]
  <2> TAKE j \in 1..h
  <2>1. r + j \in 1..Before(w, k) /\ Cut(w, k) + (r + j) = Cut(w, k) + r + j
      BY <1>1, <1>2, <1>4
  <2> QED
      BY <1>1, <2>1
<1>8. ASSUME NEW m \in LengthsIn(lines)
      PROVE  /\ m \in 1..Len(lines) /\ r + (2 * m - 1) \in LengthsIn(b)
             /\ b[r + (2 * m - 1)] = lines[m]
  <2>1. m \in 1..Len(lines) /\ lines[m].is = "length"
      BY DEF LengthsIn
  <2>2. 2 * m - 1 \in 1..h /\ (2 * m - 1) % 2 = 1 /\ ((2 * m - 1) + 1) \div 2 = m
      BY <1>3, <2>1
  <2>3. b[r + (2 * m - 1)] = lines[m]
      BY <1>5, <1>7, <2>2
  <2>4. r + (2 * m - 1) \in 1..Len(b)
    <3>1. r \in Nat /\ h \in Nat
        BY <1>1, <1>2
    <3> QED
        BY <1>4, <2>1, <2>2, <3>1
  <2> QED
      BY <2>1, <2>3, <2>4 DEF LengthsIn
<1>9. ASSUME NEW i \in LengthsIn(b)
      PROVE  \E m \in LengthsIn(lines) : i = r + (2 * m - 1)
  <2>1. i \in 1..(r + h) /\ b[i].is = "length"
      BY <1>4 DEF LengthsIn
  <2>2. i \notin 1..r
      BY <1>6, <2>1
  <2> DEFINE j == i - r
  <2>3. j \in 1..h /\ i = r + j
      BY <1>1, <1>2, <2>1, <2>2
  <2> HIDE DEF j
  <2>4. Separated(lines)[j].is = "length"
      BY <1>7, <2>1, <2>3
  <2>5. j % 2 = 1
      BY <1>5, <2>3, <2>4, LineEndIsByte
  <2> DEFINE m == (j + 1) \div 2
  <2>6. m \in 1..Len(lines) /\ lines[m].is = "length"
      BY <1>5, <2>3, <2>4, <2>5
  <2>7. j = 2 * m - 1
      BY <2>3, <2>5
  <2> QED
      BY <2>3, <2>6, <2>7 DEF LengthsIn
<1>10. LengthsIn(b) # {} <=> HasLength(f)
    BY <1>8, <1>9 DEF HasLength
<1>11. ASSUME HasLength(f) PROVE b[FirstOf(LengthsIn(b))].n = Len(f.body)
  <2> DEFINE m == FirstOf(LengthsIn(lines))
             x == r + (2 * m - 1)
  <2>1. LengthsIn(lines) # {} /\ LengthsIn(lines) \in SUBSET Nat /\ LengthsIn(b) \in SUBSET Nat
      BY <1>3, <1>11 DEF HasLength, LengthsIn
  <2>2. m \in LengthsIn(lines) /\ \A j \in LengthsIn(lines) : m <= j
      BY <2>1, FirstIsLeast
  <2> HIDE DEF m
  <2>3. x \in LengthsIn(b) /\ b[x] = lines[m] /\ m \in Nat
      BY <1>8, <2>1, <2>2
  <2>4. \A y \in LengthsIn(b) : x <= y
    <3> TAKE y \in LengthsIn(b)
    <3>1. PICK j \in LengthsIn(lines) : y = r + (2 * j - 1)
        BY <1>9
    <3>2. j \in Nat /\ m <= j
        BY <2>1, <2>2
    <3> QED
        BY <1>2, <2>3, <3>1, <3>2
  <2> HIDE DEF x
  <2>5. FirstOf(LengthsIn(b)) = x
      BY <2>1, <2>3, <2>4, FirstIs
  <2>6. lines[m].n = Len(f.body)
      BY <1>1, <1>11 DEF Proper, m
  <2> QED
      BY <2>3, <2>5, <2>6
<1> QED
    BY <1>10, <1>11

-----------------------------------------------------------------------------
(* What a decoder that saw the frames has handed on. *)

HandedIs(h, w, n) == h = [k \in 0..Len(w) |->
    IF k = 0 THEN << >>
    ELSE IF Len(Sent(w)[k]) <= n /\ w[k].json /\ HasLength(w[k])
         THEN Append(h[k - 1], w[k].body)
         ELSE h[k - 1]]

LEMMA HandedExists == ASSUME NEW w \in Wires, NEW n PROVE HandedIs(Handed(w, n), w, n)
<1> DEFINE Bodies == Seq(Seq(Byte))
           Told(k) == Len(Sent(w)[k]) <= n /\ w[k].json /\ HasLength(w[k])
           G == [k \in 1..Len(w) |-> [s \in Bodies |-> IF Told(k) THEN Append(s, w[k].body) ELSE s]]
<1>1. Len(w) \in Nat /\ \A k \in 1..Len(w) : w[k].body \in Seq(Byte)
    BY Session, EncodedShape
<1>2. G \in [1..Len(w) -> [Bodies -> Bodies]]
  <2>1. \A k \in 1..Len(w) : \A s \in Bodies : Append(s, w[k].body) \in Bodies
      BY <1>1, AppendProperties
  <2> HIDE DEF Bodies, Told
  <2> QED
      BY <2>1
<1>3. << >> \in Bodies
    OBVIOUS
<1>4. PICK f \in [0..Len(w) -> Bodies] : IsChain(f, << >>, G, Len(w))
  <2> HIDE DEF Bodies, G
  <2> QED
      BY Zenon, <1>1, <1>2, <1>3, ChainsExist
<1> HIDE DEF Told, Bodies
<1>5. \A k \in 0..Len(w) : f[k] = IF k = 0 THEN << >>
                                  ELSE IF Told(k) THEN Append(f[k - 1], w[k].body) ELSE f[k - 1]
  <2> TAKE k \in 0..Len(w)
  <2>1. f[k] = IF k = 0 THEN << >> ELSE G[k][f[k - 1]]
      BY <1>4 DEF IsChain
  <2>2. k # 0 => k \in 1..Len(w) /\ f[k - 1] \in Bodies
      BY <1>1
  <2> QED
      BY <2>1, <2>2
<1>6. HandedIs(f, w, n)
    BY <1>5 DEF HandedIs, Told
<1> QED
    BY Zenon, <1>6 DEF Handed, HandedIs

LEMMA HandedShape ==
    ASSUME NEW w \in Wires, NEW n
    PROVE  /\ Handed(w, n)[0] = << >>
           /\ \A k \in 0..Len(w) : Handed(w, n)[k] \in Seq(Seq(Byte))
           /\ \A k \in 1..Len(w) :
                 Handed(w, n)[k] = IF Size(w, k) <= n /\ w[k].json /\ HasLength(w[k])
                                   THEN Append(Handed(w, n)[k - 1], w[k].body)
                                   ELSE Handed(w, n)[k - 1]
<1> DEFINE h == Handed(w, n)
           Bodies == Seq(Seq(Byte))
           Told(k) == Size(w, k) <= n /\ w[k].json /\ HasLength(w[k])
           I == {k \in Nat : k <= Len(w) => h[k] \in Bodies}
<1>1. Len(w) \in Nat /\ \A k \in 1..Len(w) : w[k].body \in Seq(Byte)
    BY Session, EncodedShape
<1> HIDE DEF h, Told
<1>2. \A k \in 0..Len(w) : h[k] = IF k = 0 THEN << >>
                                  ELSE IF Told(k) THEN Append(h[k - 1], w[k].body) ELSE h[k - 1]
  <2>1. HandedIs(h, w, n)
      BY Zenon, HandedExists DEF h
  <2> QED
      BY <2>1 DEF HandedIs, Told, Size
<1>3. 0 \in Nat /\ 0 \in 0..Len(w) /\ h[0] = << >> /\ << >> \in Bodies
    BY <1>1, <1>2
<1>4. \A k \in 1..Len(w) : h[k] = IF Told(k) THEN Append(h[k - 1], w[k].body) ELSE h[k - 1]
  <2> TAKE k \in 1..Len(w)
  <2>1. k \in 0..Len(w) /\ k # 0
      BY <1>1
  <2> QED
      BY <1>2, <2>1
<1>5. 0 \in I
    BY <1>3
<1>6. ASSUME NEW k \in I PROVE k + 1 \in I
  <2> SUFFICES ASSUME k + 1 <= Len(w) PROVE h[k + 1] \in Bodies
      OBVIOUS
  <2>1. k + 1 \in 1..Len(w) /\ (k + 1) - 1 = k /\ h[k] \in Bodies
      BY <1>1
  <2>2. Append(h[k], w[k + 1].body) \in Bodies
      BY <1>1, <2>1, AppendProperties
  <2> QED
      BY <1>4, <2>1, <2>2
<1>7. I = Nat
    BY <1>5, <1>6, InductionOfSets
<1>8. \A k \in 0..Len(w) : h[k] \in Bodies
    BY <1>1, <1>7
<1> QED
    BY <1>3, <1>4, <1>8 DEF h, Told

(* What all of the session's frames come to. *)
All(w) == Handed(w, Len(OnTheWire(w)))

LEMMA AllShape ==
    ASSUME NEW w \in Wires, NEW k \in 0..Len(w)
    PROVE  /\ All(w)[0] = << >> /\ All(w)[k] \in Seq(Seq(Byte))
           /\ k < Len(w) => All(w)[k + 1] = IF w[k + 1].json /\ HasLength(w[k + 1])
                                            THEN Append(All(w)[k], w[k + 1].body)
                                            ELSE All(w)[k]
<1>1. Len(w) \in Nat
    BY Session
<1>2. All(w)[0] = << >> /\ All(w)[k] \in Seq(Seq(Byte))
    BY HandedShape DEF All
<1>3. ASSUME k < Len(w)
      PROVE  All(w)[k + 1] = IF w[k + 1].json /\ HasLength(w[k + 1])
                             THEN Append(All(w)[k], w[k + 1].body)
                             ELSE All(w)[k]
  <2> DEFINE x == k + 1
             n == Len(OnTheWire(w))
  <2>1. x \in 1..Len(w) /\ x - 1 = k
      BY <1>1, <1>3
  <2> HIDE DEF x
  <2>2. Size(w, x) <= n
      BY <2>1, OnWire
  <2> HIDE DEF n
  <2>3. \A j \in 1..Len(w) :
           Handed(w, n)[j] = IF Size(w, j) <= n /\ w[j].json /\ HasLength(w[j])
                             THEN Append(Handed(w, n)[j - 1], w[j].body)
                             ELSE Handed(w, n)[j - 1]
      BY Zenon, HandedShape
  <2>4. Handed(w, n)[x] = IF w[x].json /\ HasLength(w[x])
                          THEN Append(Handed(w, n)[k], w[x].body) ELSE Handed(w, n)[k]
      BY <2>1, <2>2, <2>3
  <2> QED
      BY <2>4 DEF All, n, x
<1> QED
    BY <1>2, <1>3

(* When bytes have come up to where k frames end and no further frame      *)
(* does, what is handed on is what those k come to.                        *)
LEMMA HandedSoFar ==
    ASSUME NEW w \in Wires, NEW k \in 0..Len(w), NEW a \in Nat,
           Cut(w, k) <= a, k < Len(w) => a < Cut(w, k + 1)
    PROVE  Handed(w, a)[Len(w)] = All(w)[k]
<1> DEFINE h == Handed(w, a)
           all == All(w)
           N == Len(w)
<1>1. N \in Nat /\ k \in 0..N
    BY Session
<1>2. h[0] = << >> /\ all[0] = << >>
    BY HandedShape, AllShape, <1>1
<1>3. ASSUME NEW j \in 0..N, j < N
      PROVE  h[j + 1] = IF Size(w, j + 1) <= a /\ w[j + 1].json /\ HasLength(w[j + 1])
                        THEN Append(h[j], w[j + 1].body) ELSE h[j]
  <2> DEFINE x == j + 1
  <2>1. x \in 1..N /\ x - 1 = j
      BY <1>1, <1>3
  <2> HIDE DEF x
  <2>2. \A i \in 1..N : h[i] = IF Size(w, i) <= a /\ w[i].json /\ HasLength(w[i])
                               THEN Append(h[i - 1], w[i].body) ELSE h[i - 1]
      BY Zenon, HandedShape
  <2>3. h[x] = IF Size(w, x) <= a /\ w[x].json /\ HasLength(w[x])
               THEN Append(h[j], w[x].body) ELSE h[j]
      BY <2>1, <2>2
  <2> QED
      BY <2>3 DEF x
<1>4. ASSUME NEW j \in 0..N, j < N
      PROVE  all[j + 1] = IF w[j + 1].json /\ HasLength(w[j + 1])
                          THEN Append(all[j], w[j + 1].body) ELSE all[j]
  <2>1. j \in 0..Len(w) /\ j < Len(w)
      BY <1>1, <1>4
  <2> QED
      BY <2>1, AllShape
<1>5. ASSUME NEW j \in 0..N, j < N, HasLength(w[j + 1])
      PROVE  Size(w, j + 1) <= a <=> j < k
  <2> DEFINE x == j + 1
  <2>1. x \in 0..N /\ x # 0
    <3> HIDE DEF N, h, all
    <3> QED
        BY <1>1, <1>5
  <2>2. Rest(w, x) = 0 /\ Size(w, x) = Cut(w, x) /\ Cut(w, x) \in Nat
      BY <1>5, <2>1, CutShape DEF Rest
  <2>3. Cut(w, k) \in Nat /\ (k < N => Cut(w, k + 1) \in Nat)
    <3>1. ASSUME NEW i \in 0..Len(w) PROVE Cut(w, i) \in Nat
        BY CutShape
    <3>2. k < N => k + 1 \in 0..Len(w)
        BY <1>1
    <3> QED
        BY <3>1, <3>2
  <2>4. CASE j < k
    <3>1. x <= k
        BY <1>1, <2>4
    <3>2. Cut(w, x) <= Cut(w, k)
        BY <1>1, <2>1, <3>1, CutsGrow
    <3> QED
        BY <2>2, <2>3, <2>4, <3>2
  <2>5. CASE ~ (j < k)
    <3>1. k + 1 \in 0..N /\ k + 1 <= x /\ k < N
        BY <1>1, <1>5, <2>5
    <3>2. Cut(w, k + 1) <= Cut(w, x)
        BY <2>1, <3>1, CutsGrow
    <3> QED
        BY <2>2, <2>3, <2>5, <3>1, <3>2
  <2> QED
      BY <2>4, <2>5
<1> HIDE DEF h, all, N
<1> DEFINE I == {j \in Nat : j <= N => h[j] = all[IF j <= k THEN j ELSE k]}
<1>6. 0 \in I
    BY <1>1, <1>2
<1>7. ASSUME NEW j \in I PROVE j + 1 \in I
  <2> SUFFICES ASSUME j + 1 <= N PROVE h[j + 1] = all[IF j + 1 <= k THEN j + 1 ELSE k]
      OBVIOUS
  <2>1. j \in 0..N /\ j < N /\ j \in Nat /\ h[j] = all[IF j <= k THEN j ELSE k]
      BY <1>1
  <2>2. CASE j < k
    <3>1. j <= k /\ j + 1 <= k
        BY <1>1, <2>1, <2>2
    <3>2. HasLength(w[j + 1]) => Size(w, j + 1) <= a
        BY <1>5, <2>1, <2>2
    <3> QED
        BY <1>3, <1>4, <2>1, <3>1, <3>2
  <2>3. CASE ~ (j < k)
    <3>1. all[IF j <= k THEN j ELSE k] = all[k] /\ ~ (j + 1 <= k)
        BY <1>1, <2>1, <2>3
    <3>2. HasLength(w[j + 1]) => ~ (Size(w, j + 1) <= a)
        BY <1>5, <2>1, <2>3
    <3> QED
        BY <1>3, <2>1, <3>1, <3>2
  <2> QED
      BY <2>2, <2>3
<1>8. I = Nat
    BY <1>6, <1>7, InductionOfSets
<1>9. h[N] = all[IF N <= k THEN N ELSE k] /\ (N <= k => N = k)
    BY <1>1, <1>8
<1>10. h[N] = all[k]
    BY <1>9
<1> QED
    BY <1>10 DEF h, all, N

-----------------------------------------------------------------------------
(* One turn of the decoder's loop. *)

Left(w, k, a) == SubSeq(OnTheWire(w), Cut(w, k) + 1, a)

LEMMA LeftShape ==
    ASSUME NEW w \in Wires, NEW k \in 0..Len(w), NEW a \in Cut(w, k)..Len(OnTheWire(w))
    PROVE  /\ Left(w, k, a) \in Seq(Byte) /\ Len(Left(w, k, a)) = a - Cut(w, k)
           /\ a \in Nat /\ a - Cut(w, k) \in Nat /\ Cut(w, k) \in Nat
           /\ \A i \in 1..(a - Cut(w, k)) : Left(w, k, a)[i] = OnTheWire(w)[Cut(w, k) + i]
<1> DEFINE c == Cut(w, k)
           s == OnTheWire(w)
<1>1. c \in Nat /\ s \in Seq(Byte) /\ Len(s) \in Nat /\ a \in Nat /\ a - c \in Nat
    BY CutShape
<1>2. c + 1 \in Nat \ {0} /\ a \in 0..Len(s) /\ c + 1 <= a + 1
    BY <1>1
<1> HIDE DEF c, s
<1>3. /\ SubSeq(s, c + 1, a) \in Seq(Byte) /\ Len(SubSeq(s, c + 1, a)) = a - (c + 1) + 1
      /\ \A i \in 1..(a - (c + 1) + 1) : SubSeq(s, c + 1, a)[i] = s[c + 1 + i - 1]
    BY <1>1, <1>2, Slice
<1>4. \A i \in 1..(a - c) : SubSeq(s, c + 1, a)[i] = s[c + i]
  <2> TAKE i \in 1..(a - c)
  <2>1. i \in 1..(a - (c + 1) + 1) /\ c + 1 + i - 1 = c + i
      BY <1>1
  <2> QED
      BY <1>3, <2>1
<1> QED
    BY <1>1, <1>3, <1>4 DEF Left, c, s

LEMMA NoHeaderYet ==
    ASSUME NEW w \in Wires, NEW k \in 0..Len(w), NEW a \in Cut(w, k)..Len(OnTheWire(w)),
           k < Len(w) => a < Cut(w, k) + Before(w, k) + 2
    PROVE  HeaderEnds(Left(w, k, a)) = {}
<1> DEFINE b == Left(w, k, a)
           c == Cut(w, k)
<1>1. /\ Len(b) = a - c /\ c \in Nat /\ a \in Nat /\ a - c \in Nat
      /\ \A i \in 1..(a - c) : b[i] = OnTheWire(w)[c + i]
    BY LeftShape
<1>2. SUFFICES ASSUME NEW i \in 1..(a - c - 1), b[i] = LineEnd, b[i + 1] = LineEnd PROVE FALSE
    BY <1>1 DEF HeaderEnds
<1>3. i \in 1..(a - c) /\ i + 1 \in 1..(a - c) /\ c + (i + 1) = c + i + 1
    BY <1>1
<1> HIDE DEF b
<1>4. OnTheWire(w)[c + i] = LineEnd /\ OnTheWire(w)[c + i + 1] = LineEnd
    BY <1>1, <1>2, <1>3
<1>5. CASE k < Len(w)
  <2>1. Before(w, k) \in Nat
      BY <1>5, NextHeader
  <2>2. i \in 1..Before(w, k)
      BY <1>1, <1>5, <2>1
  <2> QED
      BY <1>4, <1>5, <2>2, NoEndBefore
<1>6. CASE ~ (k < Len(w))
  <2>1. k = Len(w)
      BY <1>6, Session
  <2>2. Len(OnTheWire(w)) = Size(w, k)
      BY <2>1 DEF Size, OnTheWire
  <2>3. /\ Rest(w, k) \in Nat /\ c + Rest(w, k) = Size(w, k) /\ Size(w, k) \in Nat
        /\ \A j \in 1..Rest(w, k) : OnTheWire(w)[c + j].is = "other"
      BY CutShape
  <2>4. i \in 1..Rest(w, k)
    <3> DEFINE s == Size(w, k)
               r == Rest(w, k)
    <3>1. a <= s
        BY <2>2
    <3>2. r \in Nat /\ c + r = s /\ s \in Nat
        BY <2>3
    <3>3. c \in Nat /\ a \in Nat /\ i \in 1..(a - c)
        BY <1>1, <1>3
    <3> HIDE DEF c, s, r
    <3>4. i \in 1..r
        BY <3>1, <3>2, <3>3
    <3> QED
        BY <3>4 DEF r
  <2> QED
      BY <1>4, <2>3, <2>4, LineEndIsByte
<1> QED
    BY <1>5, <1>6

LEMMA HeaderFound ==
    ASSUME NEW w \in Wires, NEW k \in 0..Len(w), k < Len(w),
           NEW a \in Cut(w, k)..Len(OnTheWire(w)), Cut(w, k) + Before(w, k) + 2 <= a
    PROVE  LET b      == Left(w, k, a)
               end    == FirstOf(HeaderEnds(b))
               header == SubSeq(b, 1, end - 1)
               after  == SubSeq(b, end + 2, Len(b))
           IN  /\ HeaderEnds(b) # {}
               /\ Len(header) = Before(w, k)
               /\ \A i \in 1..Before(w, k) : header[i] = OnTheWire(w)[Cut(w, k) + i]
               /\ after = SubSeq(OnTheWire(w), Cut(w, k) + Before(w, k) + 3, a)
               /\ after \in Seq(Byte)
               /\ Len(after) = a - (Cut(w, k) + Before(w, k) + 2)
<1> DEFINE b == Left(w, k, a)
           c == Cut(w, k)
           e == Before(w, k)
           s == OnTheWire(w)
<1>1. /\ b \in Seq(Byte) /\ Len(b) = a - c /\ c \in Nat /\ a \in Nat /\ a - c \in Nat
      /\ \A i \in 1..(a - c) : b[i] = s[c + i]
    BY LeftShape
<1>2. e \in Nat /\ s[c + e + 1] = LineEnd /\ s[c + e + 2] = LineEnd
    BY NextHeader
<1>3. \A i \in 1..e : s[c + i] # LineEnd \/ s[c + i + 1] # LineEnd
    BY NoEndBefore
<1>4. s \in Seq(Byte) /\ Len(s) \in Nat
    BY CutShape
<1>5. c + e + 2 <= a /\ a <= Len(s)
    BY <1>4
<1>6. b = SubSeq(s, c + 1, a)
    BY DEF Left
<1> HIDE DEF b, c, e, s
<1>7. e + 1 \in HeaderEnds(b)
  <2>1. e + 1 \in 1..(Len(b) - 1) /\ e + 1 \in 1..(a - c) /\ e + 2 \in 1..(a - c)
      BY <1>1, <1>2, <1>5
  <2>2. b[e + 1] = LineEnd /\ b[e + 2] = LineEnd /\ (e + 1) + 1 = e + 2
    <3>1. c + (e + 1) = c + e + 1 /\ c + (e + 2) = c + e + 2 /\ (e + 1) + 1 = e + 2
        BY <1>1, <1>2
    <3>2. b[e + 1] = s[c + (e + 1)] /\ b[e + 2] = s[c + (e + 2)]
        BY <1>1, <2>1
    <3> QED
        BY <1>2, <3>1, <3>2
  <2> QED
      BY <2>1, <2>2 DEF HeaderEnds
<1>8. \A i \in HeaderEnds(b) : e + 1 <= i
  <2> SUFFICES ASSUME NEW i \in HeaderEnds(b), ~ (e + 1 <= i) PROVE FALSE
      OBVIOUS
  <2>1. i \in 1..(Len(b) - 1) /\ b[i] = LineEnd /\ b[i + 1] = LineEnd
      BY DEF HeaderEnds
  <2>2. i \in 1..e /\ i \in 1..(a - c) /\ i + 1 \in 1..(a - c) /\ c + (i + 1) = c + i + 1
      BY <1>1, <1>2, <2>1
  <2>3. s[c + i] = LineEnd /\ s[c + i + 1] = LineEnd
      BY <1>1, <2>1, <2>2
  <2> QED
      BY <1>3, <2>2, <2>3
<1>9. FirstOf(HeaderEnds(b)) = e + 1
  <2>1. HeaderEnds(b) \in SUBSET Nat
      BY <1>1 DEF HeaderEnds
  <2> QED
      BY <1>7, <1>8, <2>1, FirstIs
<1>10. /\ Len(SubSeq(b, 1, e)) = e
       /\ \A i \in 1..e : SubSeq(b, 1, e)[i] = s[c + i]
  <2>1. 1 \in Nat \ {0} /\ e \in 0..Len(b) /\ 1 <= e + 1
      BY <1>1, <1>2, <1>5
  <2>2. Len(SubSeq(b, 1, e)) = e - 1 + 1 /\ \A i \in 1..(e - 1 + 1) : SubSeq(b, 1, e)[i] = b[1 + i - 1]
      BY <1>1, <2>1, Slice
  <2>3. \A i \in 1..e : SubSeq(b, 1, e)[i] = b[i]
    <3> TAKE i \in 1..e
    <3>1. i \in 1..(e - 1 + 1) /\ 1 + i - 1 = i
        BY <1>2
    <3> QED
        BY <2>2, <3>1
  <2>4. \A i \in 1..e : i \in 1..(a - c)
      BY <1>1, <1>2, <1>5
  <2> QED
      BY <1>1, <1>2, <2>2, <2>3, <2>4
<1>11. /\ SubSeq(b, e + 3, a - c) = SubSeq(s, c + e + 3, a)
       /\ SubSeq(b, e + 3, a - c) \in Seq(Byte)
       /\ Len(SubSeq(b, e + 3, a - c)) = a - (c + e + 2)
  <2>1. /\ c + 1 \in Nat /\ c + 1 > 0 /\ a <= Len(s) /\ c + 1 <= a + 1 /\ e + 3 \in Nat \ {0}
        /\ e + 3 > 0 /\ a - c \in Nat /\ a - c <= a - (c + 1) + 1 /\ e + 3 <= (a - c) + 1
        /\ (c + 1) + (e + 3) - 1 = c + e + 3 /\ (c + 1) + (a - c) - 1 = a
        /\ a - c \in 0..Len(b) /\ (a - c) - (e + 3) + 1 = a - (c + e + 2)
      BY <1>1, <1>2, <1>4, <1>5
  <2>2. SubSeq(SubSeq(s, c + 1, a), e + 3, a - c) = SubSeq(s, (c + 1) + (e + 3) - 1, (c + 1) + (a - c) - 1)
    <3>1. s \in Seq(Byte) /\ c \in Nat /\ a \in Nat /\ e \in Nat
        BY <1>1, <1>2, <1>4
    <3> QED
        BY <2>1, <3>1, SliceOfSlice
  <2>3. /\ SubSeq(b, e + 3, a - c) \in Seq(Byte)
        /\ Len(SubSeq(b, e + 3, a - c)) = (a - c) - (e + 3) + 1
      BY <1>1, <2>1, Slice
  <2> QED
      BY <1>6, <2>1, <2>2, <2>3
<1>12. (e + 1) - 1 = e /\ (e + 1) + 2 = e + 3
    BY <1>2
<1>13. /\ HeaderEnds(b) # {}
       /\ SubSeq(b, 1, FirstOf(HeaderEnds(b)) - 1) = SubSeq(b, 1, e)
       /\ SubSeq(b, FirstOf(HeaderEnds(b)) + 2, Len(b)) = SubSeq(b, e + 3, a - c)
    BY <1>1, <1>7, <1>9, <1>12
<1> QED
    BY <1>10, <1>11, <1>13 DEF b, c, e, s

(* Nothing is taken before the frame has all come. *)
LEMMA TurnWaits ==
    ASSUME NEW w \in Wires, NEW k \in 0..Len(w), NEW a \in Cut(w, k)..Len(OnTheWire(w)),
           k < Len(w) => a < Cut(w, k + 1),
           NEW d, d.left = Left(w, k, a)
    PROVE  OneMessage(d) = d
<1> DEFINE c == Cut(w, k)
           b == Left(w, k, a)
           header == SubSeq(b, 1, FirstOf(HeaderEnds(b)) - 1)
           after == SubSeq(b, FirstOf(HeaderEnds(b)) + 2, Len(b))
<1>1. CASE ~ (k < Len(w)) \/ a < c + Before(w, k) + 2
  <2>1. HeaderEnds(b) = {}
      BY <1>1, NoHeaderYet
  <2> QED
      BY <2>1 DEF OneMessage
<1>2. CASE k < Len(w) /\ ~ (a < c + Before(w, k) + 2)
  <2>1. /\ c \in Nat /\ a \in Nat /\ Before(w, k) \in Nat /\ Len(w[k + 1].body) \in Nat
        /\ Cut(w, k + 1) = c + Before(w, k) + 2
                             + (IF HasLength(w[k + 1]) THEN Len(w[k + 1].body) ELSE 0)
    <3>1. c \in Nat /\ a \in Nat
        BY CutShape
    <3>2. k < Len(w)
        BY <1>2
    <3> QED
        BY <3>1, <3>2, NextHeader
  <2>2. c + Before(w, k) + 2 <= a /\ HasLength(w[k + 1])
        /\ a < c + Before(w, k) + 2 + Len(w[k + 1].body)
    <3> HIDE DEF c
    <3> QED
        BY <1>2, <2>1
  <2>3. /\ HeaderEnds(b) # {}
        /\ Len(header) = Before(w, k)
        /\ \A i \in 1..Before(w, k) : header[i] = OnTheWire(w)[c + i]
        /\ Len(after) = a - (c + Before(w, k) + 2)
      BY <1>2, <2>2, HeaderFound
  <2> HIDE DEF header, after, b
  <2>4. LengthsIn(header) # {} /\ header[FirstOf(LengthsIn(header))].n = Len(w[k + 1].body)
      BY <1>2, <2>2, <2>3, HeaderRead
  <2>5. Incomplete(Len(after), header[FirstOf(LengthsIn(header))].n)
    <3> HIDE DEF c
    <3> DEFINE n == Len(w[k + 1].body)
               h == Before(w, k)
               l == Len(after)
    <3>1. c \in Nat /\ a \in Nat /\ h \in Nat /\ n \in Nat
        BY <2>1
    <3>2. a < c + h + 2 + n
        BY <2>2
    <3>3. l = a - (c + h + 2)
        BY <2>3
    <3>4. header[FirstOf(LengthsIn(header))].n = n
        BY <2>4
    <3> HIDE DEF n, h, l
    <3>5. l < n
        BY <3>1, <3>2, <3>3
    <3> QED
        BY <3>4, <3>5 DEF Incomplete, l
  <2> QED
      BY <2>3, <2>4, <2>5 DEF OneMessage, header, after, b
<1> QED
    BY <1>1, <1>2

(* A header without a length is dropped, and nothing is handed on. *)
LEMMA TurnDrops ==
    ASSUME NEW w \in Wires, NEW k \in 0..Len(w), k < Len(w),
           NEW a \in Cut(w, k)..Len(OnTheWire(w)), Cut(w, k + 1) <= a, ~ HasLength(w[k + 1]),
           NEW d, d.left = Left(w, k, a)
    PROVE  OneMessage(d) = [left |-> Left(w, k + 1, a), done |-> d.done]
<1> DEFINE c == Cut(w, k)
           b == Left(w, k, a)
           header == SubSeq(b, 1, FirstOf(HeaderEnds(b)) - 1)
           after == SubSeq(b, FirstOf(HeaderEnds(b)) + 2, Len(b))
<1>1. /\ c \in Nat /\ a \in Nat /\ Before(w, k) \in Nat
      /\ Cut(w, k + 1) = c + Before(w, k) + 2
  <2>1. /\ c \in Nat /\ a \in Nat /\ Before(w, k) \in Nat
        /\ Cut(w, k + 1) = c + Before(w, k) + 2
                             + (IF HasLength(w[k + 1]) THEN Len(w[k + 1].body) ELSE 0)
    <3>1. c \in Nat /\ a \in Nat
        BY CutShape
    <3> QED
        BY <3>1, NextHeader
  <2> QED
      BY <2>1
<1>2. /\ HeaderEnds(b) # {}
      /\ Len(header) = Before(w, k)
      /\ \A i \in 1..Before(w, k) : header[i] = OnTheWire(w)[c + i]
      /\ after = SubSeq(OnTheWire(w), c + Before(w, k) + 3, a)
    BY <1>1, HeaderFound
<1> HIDE DEF header, after, b
<1>3. LengthsIn(header) = {}
    BY <1>2, HeaderRead
<1>4. after = Left(w, k + 1, a)
  <2>1. c + Before(w, k) + 3 = Cut(w, k + 1) + 1
      BY <1>1
  <2> QED
      BY <1>2, <2>1 DEF Left
<1> QED
    BY <1>2, <1>3, <1>4 DEF OneMessage, header, after, b

(* A frame that has all come is handed on if it is JSON. *)
LEMMA TurnTakes ==
    ASSUME wire \in Wires, NEW k \in 0..Len(wire), k < Len(wire),
           NEW a \in Cut(wire, k)..Len(OnTheWire(wire)), Cut(wire, k + 1) <= a,
           HasLength(wire[k + 1]), NEW d, d.left = Left(wire, k, a)
    PROVE  OneMessage(d) = [left |-> Left(wire, k + 1, a),
                            done |-> d.done \o (IF wire[k + 1].json THEN <<wire[k + 1].body>> ELSE << >>)]
<1> DEFINE w == wire
           c == Cut(w, k)
           b == Left(w, k, a)
           s == OnTheWire(w)
           e == Before(w, k)
           body == w[k + 1].body
           n == Len(body)
           header == SubSeq(b, 1, FirstOf(HeaderEnds(b)) - 1)
           after == SubSeq(b, FirstOf(HeaderEnds(b)) + 2, Len(b))
<1>1. /\ c \in Nat /\ a \in Nat /\ e \in Nat /\ n \in Nat /\ body \in Seq(Byte)
      /\ Cut(w, k + 1) = c + e + 2 + n /\ k + 1 \in 1..Len(w)
      /\ \A i \in 1..n : s[c + e + 2 + i] = body[i]
      /\ a <= Len(s) /\ Len(s) \in Nat /\ s \in Seq(Byte)
  <2>1. /\ c \in Nat /\ a \in Nat /\ s \in Seq(Byte) /\ Len(s) \in Nat /\ a <= Len(s)
      BY CutShape
  <2>2. /\ e \in Nat /\ n \in Nat /\ k + 1 \in 1..Len(w) /\ w[k + 1] \in SentFrames
        /\ Cut(w, k + 1) = c + e + 2 + n
        /\ \A i \in 1..n : s[c + e + 2 + i] = body[i]
      BY NextHeader
  <2>3. body \in Seq(Byte)
      BY <2>2, EncodedShape
  <2> QED
      BY <2>1, <2>2, <2>3
<1>2. /\ HeaderEnds(b) # {}
      /\ Len(header) = e
      /\ \A i \in 1..e : header[i] = s[c + i]
      /\ after = SubSeq(s, c + e + 3, a)
      /\ after \in Seq(Byte) /\ Len(after) = a - (c + e + 2)
  <2>1. c + e + 2 <= a
      BY <1>1
  <2> QED
      BY <2>1, HeaderFound
<1> HIDE DEF header, after, b
<1>3. LengthsIn(header) # {} /\ header[FirstOf(LengthsIn(header))].n = n
    BY <1>2, HeaderRead
<1> HIDE DEF c, e, s, n, body
<1>4. n <= Len(after) /\ ~ Incomplete(Len(after), n)
  <2>1. c + e + 2 + n <= a /\ Len(after) = a - (c + e + 2)
      BY <1>1, <1>2
  <2>2. c \in Nat /\ e \in Nat /\ n \in Nat /\ a \in Nat
      BY <1>1
  <2> QED
      BY <2>1, <2>2 DEF Incomplete
<1>5. SubSeq(after, n + 1, Len(after)) = Left(w, k + 1, a)
  <2>1. /\ c + e + 3 \in Nat /\ c + e + 3 > 0 /\ a <= Len(s) /\ c + e + 3 <= a + 1
        /\ n + 1 \in Nat /\ n + 1 > 0 /\ Len(after) \in Nat
        /\ Len(after) <= a - (c + e + 3) + 1 /\ n + 1 <= Len(after) + 1
      BY <1>1, <1>2, <1>4
  <2>2. SubSeq(SubSeq(s, c + e + 3, a), n + 1, Len(after))
          = SubSeq(s, (c + e + 3) + (n + 1) - 1, (c + e + 3) + Len(after) - 1)
      BY <1>1, <2>1, SliceOfSlice
  <2>3. (c + e + 3) + (n + 1) - 1 = Cut(w, k + 1) + 1 /\ (c + e + 3) + Len(after) - 1 = a
      BY <1>1, <1>2
  <2> QED
      BY <1>2, <2>2, <2>3 DEF Left, s
<1>6. SubSeq(after, 1, n) = body
  <2>0. Len(after) \in Nat /\ Len(after) = a - (c + e + 2) /\ n <= Len(after)
      BY <1>1, <1>2, <1>4
  <2>1. 1 \in Nat \ {0} /\ n \in 0..Len(after) /\ 1 <= n + 1
      BY <1>1, <1>4
  <2>2. /\ SubSeq(after, 1, n) \in Seq(Byte) /\ Len(SubSeq(after, 1, n)) = n - 1 + 1
        /\ \A i \in 1..(n - 1 + 1) : SubSeq(after, 1, n)[i] = after[1 + i - 1]
    <3>1. after \in Seq(Byte)
        BY <1>2
    <3> QED
        BY <2>1, <3>1, Slice
  <2>3. /\ c + e + 3 \in Nat \ {0} /\ a \in 0..Len(s) /\ c + e + 3 <= a + 1
      BY <1>1, <1>2, <1>4
  <2>4. \A i \in 1..(a - (c + e + 3) + 1) : after[i] = s[c + e + 3 + i - 1]
    <3>1. s \in Seq(Byte) /\ after = SubSeq(s, c + e + 3, a)
        BY <1>1, <1>2
    <3> QED
        BY <2>3, <3>1, Slice
  <2>5. \A i \in 1..n : SubSeq(after, 1, n)[i] = body[i]
    <3> TAKE i \in 1..n
    <3>1. /\ i \in 1..(n - 1 + 1) /\ 1 + i - 1 = i /\ i \in 1..(a - (c + e + 3) + 1)
          /\ c + e + 3 + i - 1 = c + e + 2 + i
      <4>1. c \in Nat /\ e \in Nat /\ n \in Nat /\ a \in Nat
          BY <1>1
      <4> QED
          BY <2>0, <4>1
    <3> QED
        BY <1>1, <2>2, <2>4, <3>1
  <2>6. Len(SubSeq(after, 1, n)) = Len(body) /\ Len(body) = n
      BY <1>1, <2>2 DEF n
  <2> QED
      BY <1>1, <2>2, <2>5, <2>6, SeqEqual
<1>7. Parsed(body) = IF w[k + 1].json THEN <<body>> ELSE << >>
  <2>1. \A j \in 1..Len(w) : w[j].body = w[k + 1].body => w[j].json = w[k + 1].json
      BY <1>1, Session
  <2>2. (\E i \in 1..Len(w) : w[i].json /\ w[i].body = body) <=> w[k + 1].json
      BY <1>1, <2>1 DEF body
  <2> QED
      BY <2>2 DEF Parsed
<1>8. OneMessage(d) = [left |-> SubSeq(after, n + 1, Len(after)),
                       done |-> d.done \o Parsed(SubSeq(after, 1, n))]
    BY <1>2, <1>3, <1>4 DEF OneMessage, header, after, b
<1> QED
    BY <1>5, <1>6, <1>7, <1>8 DEF body

-----------------------------------------------------------------------------
(* The loop: it goes on until the next frame is not all there. *)

Stage(w, k, a) == [left |-> Left(w, k, a), done |-> All(w)[k]]
Ready(w, k, a) == k < Len(w) /\ Cut(w, k + 1) <= a

LEMMA Turn ==
    ASSUME wire \in Wires, NEW k \in 0..Len(wire), NEW a \in Cut(wire, k)..Len(OnTheWire(wire))
    PROVE  OneMessage(Stage(wire, k, a)) =
              IF Ready(wire, k, a) THEN Stage(wire, k + 1, a) ELSE Stage(wire, k, a)
<1> DEFINE d == Stage(wire, k, a)
<1>1. d.left = Left(wire, k, a) /\ d.done = All(wire)[k]
    BY DEF Stage
<1> HIDE DEF d
<1>2. CASE ~ Ready(wire, k, a)
  <2>1. k < Len(wire) => a < Cut(wire, k + 1)
    <3>1. ASSUME k < Len(wire) PROVE Cut(wire, k + 1) \in Nat
      <4>1. k + 1 \in 0..Len(wire)
          BY <3>1, Session
      <4> QED
          BY <4>1, CutShape
    <3>2. a \in Nat
        BY CutShape
    <3> QED
        BY <1>2, <3>1, <3>2 DEF Ready
  <2>2. OneMessage(d) = d
      BY <1>1, <2>1, TurnWaits
  <2> QED
      BY <1>2, <2>2 DEF d
<1>3. CASE Ready(wire, k, a)
  <2> DEFINE f == wire[k + 1]
  <2>1. k < Len(wire) /\ Cut(wire, k + 1) <= a
      BY <1>3 DEF Ready
  <2>2. /\ All(wire)[k] \in Seq(Seq(Byte))
        /\ All(wire)[k + 1] = IF f.json /\ HasLength(f) THEN Append(All(wire)[k], f.body)
                              ELSE All(wire)[k]
      BY <2>1, AllShape
  <2>3. CASE ~ HasLength(f)
    <3>1. OneMessage(d) = [left |-> Left(wire, k + 1, a), done |-> d.done]
        BY <1>1, <2>1, <2>3, TurnDrops
    <3> QED
        BY <1>1, <1>3, <2>2, <2>3, <3>1 DEF Stage, d
  <2>4. CASE HasLength(f)
    <3>1. OneMessage(d) = [left |-> Left(wire, k + 1, a),
                           done |-> d.done \o (IF f.json THEN <<f.body>> ELSE << >>)]
        BY <1>1, <2>1, <2>4, TurnTakes
    <3>2. f.body \in Seq(Byte)
        BY <2>1, NextHeader, EncodedShape
    <3>3. Append(All(wire)[k], f.body) = All(wire)[k] \o <<f.body>>
        BY <2>2, <3>2, AppendIsConcat
    <3>4. All(wire)[k] \o << >> = All(wire)[k]
        BY <2>2, ConcatEmptySeq
    <3>5. d.done \o (IF f.json THEN <<f.body>> ELSE << >>) = All(wire)[k + 1]
        BY <1>1, <2>2, <2>4, <3>3, <3>4
    <3> QED
        BY <1>3, <3>1, <3>5 DEF Stage, d
  <2> QED
      BY <2>3, <2>4
<1> QED
    BY <1>2, <1>3

LEMMA NextCut ==
    ASSUME NEW w \in Wires, NEW k \in 0..Len(w), k < Len(w)
    PROVE  /\ k + 1 \in 0..Len(w) /\ Cut(w, k) \in Nat /\ Cut(w, k + 1) \in Nat
           /\ Cut(w, k) + 2 <= Cut(w, k + 1)
<1>1. k + 1 \in 0..Len(w)
    BY Session
<1>2. Cut(w, k) \in Nat /\ Cut(w, k + 1) \in Nat
    BY <1>1, CutShape
<1>3. /\ Before(w, k) \in Nat /\ Len(w[k + 1].body) \in Nat
      /\ Cut(w, k + 1) = Cut(w, k) + Before(w, k) + 2
                           + (IF HasLength(w[k + 1]) THEN Len(w[k + 1].body) ELSE 0)
    BY NextHeader
<1> QED
    BY <1>1, <1>2, <1>3

TurnsAre(t, b, done) == t = [n \in 0..Len(b) |->
    IF n = 0 THEN [left |-> b, done |-> done] ELSE OneMessage(t[n - 1])]

LEMMA TurnsExist ==
    ASSUME wire \in Wires, NEW k \in 0..Len(wire), NEW a \in Cut(wire, k)..Len(OnTheWire(wire))
    PROVE  \E t : TurnsAre(t, Left(wire, k, a), All(wire)[k])
<1> DEFINE Stages == {Stage(wire, j, a) : j \in {i \in 0..Len(wire) : Cut(wire, i) <= a}}
           m == Len(Left(wire, k, a))
           G == [i \in 1..m |-> [d \in Stages |-> OneMessage(d)]]
           first == Stage(wire, k, a)
<1>1. m \in Nat /\ a \in Nat /\ a <= Len(OnTheWire(wire))
  <2>1. m = a - Cut(wire, k) /\ a - Cut(wire, k) \in Nat /\ a \in Nat
      BY LeftShape
  <2>2. Len(OnTheWire(wire)) \in Nat
      BY CutShape
  <2> QED
      BY <2>1, <2>2
<1>2. \A d \in Stages : OneMessage(d) \in Stages
  <2> TAKE d \in Stages
  <2>1. PICK j \in 0..Len(wire) : Cut(wire, j) <= a /\ d = Stage(wire, j, a)
      OBVIOUS
  <2>2. a \in Cut(wire, j)..Len(OnTheWire(wire))
      BY <1>1, <2>1, CutShape
  <2>3. CASE Ready(wire, j, a)
    <3>1. j + 1 \in 0..Len(wire) /\ Cut(wire, j + 1) <= a
        BY <2>3, NextCut DEF Ready
    <3>2. OneMessage(d) = Stage(wire, j + 1, a)
        BY <2>1, <2>2, <2>3, Turn
    <3> QED
        BY <3>1, <3>2
  <2>4. CASE ~ Ready(wire, j, a)
      BY <2>1, <2>2, <2>4, Turn
  <2> QED
      BY <2>3, <2>4
<1>3. first \in Stages
  <2>1. Cut(wire, k) <= a
      BY <1>1, CutShape
  <2> QED
      BY <2>1
<1> HIDE DEF Stages
<1>4. G \in [1..m -> [Stages -> Stages]]
    BY <1>2
<1>5. PICK f \in [0..m -> Stages] : IsChain(f, first, G, m)
  <2> HIDE DEF m, G, first
  <2> QED
      BY Zenon, <1>1, <1>3, <1>4, ChainsExist
<1>6. \A i \in 0..m : f[i] = IF i = 0 THEN first ELSE OneMessage(f[i - 1])
  <2> TAKE i \in 0..m
  <2>1. f[i] = IF i = 0 THEN first ELSE G[i][f[i - 1]]
      BY <1>5 DEF IsChain
  <2>2. i # 0 => i \in 1..m /\ f[i - 1] \in Stages
    <3> HIDE DEF m
    <3> QED
        BY <1>1
  <2> QED
      BY <2>1, <2>2
<1>7. TurnsAre(f, Left(wire, k, a), All(wire)[k])
  <2> HIDE DEF m
  <2>1. f = [i \in 0..m |-> IF i = 0 THEN first ELSE OneMessage(f[i - 1])]
      BY <1>6
  <2> QED
      BY <2>1 DEF TurnsAre, Stage, m
<1> QED
    BY <1>7

(* Push leaves the decoder behind the last frame that is all there. *)
LEMMA Decodes ==
    ASSUME wire \in Wires, NEW k \in 0..Len(wire), NEW a \in Cut(wire, k)..Len(OnTheWire(wire))
    PROVE  \E j \in k..Len(wire) :
              /\ Cut(wire, j) <= a /\ ~ Ready(wire, j, a)
              /\ Decode(Left(wire, k, a), All(wire)[k]) = Stage(wire, j, a)
<1> DEFINE b == Left(wire, k, a)
           m == Len(b)
           c == Cut(wire, k)
           t == CHOOSE x : TurnsAre(x, b, All(wire)[k])
           At(i, j) == /\ Cut(wire, j) <= a /\ t[i] = Stage(wire, j, a)
                       /\ (~ Ready(wire, j, a) \/ c + i <= Cut(wire, j))
           I == {i \in Nat : i <= m => \E j \in k..Len(wire) : At(i, j)}
<1>1. m \in Nat /\ a \in Nat /\ c \in Nat /\ m = a - c /\ a <= Len(OnTheWire(wire))
  <2>1. m = a - Cut(wire, k) /\ a - Cut(wire, k) \in Nat /\ a \in Nat /\ c \in Nat
      BY LeftShape
  <2>2. Len(OnTheWire(wire)) \in Nat
      BY CutShape
  <2> QED
      BY <2>1, <2>2
<1>2. TurnsAre(t, b, All(wire)[k])
    BY TurnsExist
<1>3. Decode(b, All(wire)[k]) = t[m]
    BY Zenon DEF Decode, TurnsAre
<1> HIDE DEF t
<1>4. \A i \in 0..m : t[i] = IF i = 0 THEN Stage(wire, k, a) ELSE OneMessage(t[i - 1])
    BY <1>2 DEF TurnsAre, Stage
<1> HIDE DEF m, c, b
<1>5. 0 \in I
  <2>1. k \in k..Len(wire) /\ 0 \in 0..m
      BY <1>1, Session
  <2>2. At(0, k)
      BY <1>1, <1>4, <2>1 DEF c
  <2> QED
      BY <2>1, <2>2
<1>6. ASSUME NEW i \in I PROVE i + 1 \in I
  <2> SUFFICES ASSUME i + 1 <= m PROVE \E j \in k..Len(wire) : At(i + 1, j)
      OBVIOUS
  <2>1. i \in Nat /\ i + 1 \in 0..m /\ i + 1 # 0 /\ (i + 1) - 1 = i
      BY <1>1
  <2>2. PICK j \in k..Len(wire) : At(i, j)
      BY <1>1
  <2>3. j \in 0..Len(wire) /\ a \in Cut(wire, j)..Len(OnTheWire(wire)) /\ Cut(wire, j) \in Nat
    <3>1. j \in 0..Len(wire)
        BY Session
    <3> QED
        BY <1>1, <2>2, <3>1, CutShape
  <2>4. t[i + 1] = OneMessage(Stage(wire, j, a))
      BY <1>4, <2>1, <2>2
  <2>5. CASE Ready(wire, j, a)
    <3>1. /\ j + 1 \in k..Len(wire) /\ Cut(wire, j + 1) <= a
          /\ Cut(wire, j + 1) \in Nat /\ Cut(wire, j) + 2 <= Cut(wire, j + 1)
      <4>1. j < Len(wire) /\ Cut(wire, j + 1) <= a
          BY <2>5 DEF Ready
      <4>2. /\ j + 1 \in 0..Len(wire)
            /\ Cut(wire, j + 1) \in Nat /\ Cut(wire, j) + 2 <= Cut(wire, j + 1)
          BY <2>3, <4>1, NextCut
      <4> QED
          BY <4>1, <4>2
    <3>2. t[i + 1] = Stage(wire, j + 1, a)
        BY <2>3, <2>4, <2>5, Turn
    <3>3. c + i <= Cut(wire, j)
        BY <2>2, <2>5
    <3>4. c + (i + 1) <= Cut(wire, j + 1)
        BY <1>1, <2>1, <2>3, <3>1, <3>3
    <3> QED
        BY <3>1, <3>2, <3>4
  <2>6. CASE ~ Ready(wire, j, a)
    <3>1. t[i + 1] = Stage(wire, j, a)
        BY <2>3, <2>4, <2>6, Turn
    <3> QED
        BY <2>2, <2>6, <3>1
  <2> QED
      BY <2>5, <2>6
<1>7. I = Nat
  <2> HIDE DEF I
  <2>1. I \in SUBSET Nat
      BY DEF I
  <2> QED
      BY <1>5, <1>6, <2>1, InductionOfSets
<1>8. PICK j \in k..Len(wire) : At(m, j)
    BY <1>1, <1>7
<1>9. ~ Ready(wire, j, a)
  <2> SUFFICES ASSUME Ready(wire, j, a) PROVE FALSE
      OBVIOUS
  <2>1. j \in 0..Len(wire) /\ j < Len(wire) /\ Cut(wire, j + 1) <= a
      BY Session DEF Ready
  <2>2. Cut(wire, j) \in Nat /\ Cut(wire, j + 1) \in Nat /\ Cut(wire, j) + 2 <= Cut(wire, j + 1)
      BY <2>1, NextCut
  <2>3. c + m <= Cut(wire, j)
      BY <1>8
  <2> QED
      BY <1>1, <2>1, <2>2, <2>3
<1> QED
    BY <1>3, <1>8, <1>9 DEF b

(* The decoder stands behind the last frame that is all there, and has     *)
(* handed on what the frames before that come to.                          *)
Decoder ==
    /\ wire \in Wires /\ arrived \in 0..Len(OnTheWire(wire))
    /\ \E k \in 0..Len(wire) :
          /\ Cut(wire, k) <= arrived /\ ~ Ready(wire, k, arrived)
          /\ buffer = Left(wire, k, arrived) /\ messages = All(wire)[k]

LEMMA DecoderStarts == FramingInit => Decoder
<1> SUFFICES ASSUME FramingInit PROVE Decoder
    OBVIOUS
<1>1. wire \in Wires /\ arrived = 0 /\ buffer = << >> /\ messages = << >>
    BY DEF FramingInit
<1>2. 0 \in 0..Len(wire) /\ Len(wire) \in Nat
    BY <1>1, Session
<1>3. Cut(wire, 0) = 0 /\ Len(OnTheWire(wire)) \in Nat /\ Cut(wire, 0) \in Nat
  <2>1. Sent(wire)[0] = << >> /\ Len(<< >>) = 0
      BY <1>1, SentShape
  <2> QED
      BY <1>1, <1>2, <2>1, CutShape DEF Cut, Rest, Size
<1>4. ~ Ready(wire, 0, 0)
  <2> SUFFICES ASSUME 0 < Len(wire), Cut(wire, 0 + 1) <= 0 PROVE FALSE
      BY DEF Ready
  <2> QED
      BY <1>1, <1>2, <1>3, NextCut
<1>5. Left(wire, 0, 0) = << >>
    BY <1>3, SubSeqEmpty DEF Left
<1>6. All(wire)[0] = << >>
    BY <1>1, <1>2, AllShape
<1> QED
    BY <1>1, <1>2, <1>3, <1>4, <1>5, <1>6 DEF Decoder

LEMMA DecoderStep == Decoder /\ [FramingNext]_framingVars => Decoder'
<1> SUFFICES ASSUME Decoder, [FramingNext]_framingVars PROVE Decoder'
    OBVIOUS
<1>1. ASSUME NEW n \in 1..MaxChunk, PushChunk(n) PROVE Decoder'
  <2> DEFINE a == arrived + n
             w == wire
             s == OnTheWire(wire)
  <2>1. w \in Wires /\ arrived \in Nat /\ n \in Nat /\ a \in Nat /\ a <= Len(s)
        /\ arrived' = a /\ wire' = wire /\ Len(s) \in Nat /\ s \in Seq(Byte)
    <3>1. w \in Wires /\ arrived \in 0..Len(s) /\ 0 \in 0..Len(w)
        BY Session DEF Decoder
    <3>2. Len(s) \in Nat /\ s \in Seq(Byte)
        BY <3>1, CutShape
    <3> QED
        BY <1>1, <3>1, <3>2, FramingAssumption DEF PushChunk
  <2>2. PICK k \in 0..Len(w) :
           /\ Cut(w, k) <= arrived
           /\ buffer = Left(w, k, arrived) /\ messages = All(w)[k]
      BY DEF Decoder
  <2>3. Cut(w, k) \in Nat
      BY <2>1, CutShape
  <2>4. buffer \o SubSeq(s, arrived + 1, a) = Left(w, k, a)
    <3>1. /\ Cut(w, k) + 1 \in 1..(Len(s) + 1)
          /\ arrived \in ((Cut(w, k) + 1) - 1)..Len(s)
          /\ a \in arrived..Len(s)
        BY <2>1, <2>2, <2>3
    <3>2. SubSeq(s, Cut(w, k) + 1, arrived) \o SubSeq(s, arrived + 1, a) = SubSeq(s, Cut(w, k) + 1, a)
      <4> DEFINE p == Cut(w, k) + 1
      <4>1. p \in 1..(Len(s) + 1) /\ arrived \in (p - 1)..Len(s) /\ a \in arrived..Len(s)
          BY <3>1
      <4> HIDE DEF a, s, p
      <4>2. SubSeq(s, p, arrived) \o SubSeq(s, arrived + 1, a) = SubSeq(s, p, a)
          BY <2>1, <4>1, ConcatAdjacentSubSeq
      <4> QED
          BY <4>2 DEF p
    <3> QED
        BY <2>2, <3>2 DEF Left
  <2>5. a \in Cut(w, k)..Len(s)
      BY <2>1, <2>2, <2>3
  <2>6. PICK j \in k..Len(w) :
           /\ Cut(w, j) <= a /\ ~ Ready(w, j, a)
           /\ Decode(Left(w, k, a), All(w)[k]) = Stage(w, j, a)
      BY <2>1, <2>5, Decodes
  <2>7. buffer' = Left(w, j, a) /\ messages' = All(w)[j]
    <3>1. LET decoded == Decode(buffer \o SubSeq(s, arrived + 1, a), messages)
          IN  buffer' = decoded.left /\ messages' = decoded.done
        BY Zenon, <1>1 DEF PushChunk
    <3>2. Decode(buffer \o SubSeq(s, arrived + 1, a), messages) = Stage(w, j, a)
        BY Zenon, <2>2, <2>4, <2>6
    <3> QED
        BY <3>1, <3>2 DEF Stage
  <2>8. j \in 0..Len(w)
      BY <2>1, Session
  <2> QED
      BY <2>1, <2>6, <2>7, <2>8 DEF Decoder
<1>2. CASE UNCHANGED framingVars
    BY <1>2 DEF Decoder, framingVars
<1> QED
    BY <1>1, <1>2 DEF FramingNext

(* Wherever the chunks are cut, the messages handed on are those of the    *)
(* frames that have all come, in order and at once, for every session of   *)
(* proper frames and chunks of any size.                                   *)
THEOREM FramesDelivered == FramingSpec => []WholeFramesDelivered
<1>1. Decoder => WholeFramesDelivered
  <2> SUFFICES ASSUME Decoder PROVE messages = Handed(wire, arrived)[Len(wire)]
      BY DEF WholeFramesDelivered
  <2>1. PICK k \in 0..Len(wire) :
           /\ Cut(wire, k) <= arrived /\ ~ Ready(wire, k, arrived)
           /\ messages = All(wire)[k]
      BY DEF Decoder
  <2>2. wire \in Wires /\ arrived \in Nat
    <3>1. wire \in Wires /\ arrived \in 0..Len(OnTheWire(wire))
        BY DEF Decoder
    <3>2. Len(OnTheWire(wire)) \in Nat
        BY <3>1, CutShape
    <3> QED
        BY <3>1, <3>2
  <2>3. k < Len(wire) => arrived < Cut(wire, k + 1)
    <3>1. ASSUME k < Len(wire) PROVE Cut(wire, k + 1) \in Nat
        BY <2>2, <3>1, NextCut
    <3> QED
        BY <2>1, <2>2, <3>1 DEF Ready
  <2> QED
      BY <2>1, <2>2, <2>3, HandedSoFar
<1> QED
    BY <1>1, DecoderStarts, DecoderStep, PTL DEF FramingSpec
=============================================================================
