----------------------- MODULE MessageStorage_proofs -----------------------
(***************************************************************************)
(* Proofs about MessageStorage, for any messages, kinds and numbers of     *)
(* faults: at the queue its behaviours are those of MessageQueue, whose    *)
(* invariants it inherits; no message vanishes between the queue and the   *)
(* table; what is stored is searchable and has its file.                   *)
(***************************************************************************)
EXTENDS MessageStorage, MessageQueue_proofs

-----------------------------------------------------------------------------
(* Refinement: every step is a step of the queue or leaves it alone.       *)
LEMMA StepRefines == [Next]_vars => [NextQueue]_queueVars
<1> SUFFICES ASSUME [Next]_vars
             PROVE  [NextQueue]_queueVars
  OBVIOUS
<1>1. CASE Enqueue
  BY <1>1 DEF Enqueue, NextQueue
<1>2. CASE Transport
  BY <1>2 DEF Transport, NextQueue
<1>3. CASE Acknowledge
  BY <1>3 DEF Acknowledge, NextQueue
<1>4. CASE Handler
  <2>1. CASE Return
    BY <2>1 DEF Return, NextQueue
  <2>2. CASE OnMessage \/ AppendData \/ PutFile \/ Insert
    BY <2>2 DEF OnMessage, AppendData, PutFile, Insert
  <2> QED
    BY <1>4, <2>1, <2>2 DEF Handler
<1>5. CASE StorageDies
  BY <1>5 DEF StorageDies, NextQueue
<1>6. CASE TransmitDies
  BY <1>6 DEF TransmitDies, NextQueue
<1>7. CASE UNCHANGED vars
  BY <1>7 DEF vars
<1>8. CASE Hang
  BY <1>8 DEF Hang
<1> QED
  BY <1>1, <1>2, <1>3, <1>4, <1>5, <1>6, <1>7, <1>8 DEF Next

(* onMessage and its stores, seen at the queue, are a consumer of it.      *)
LEMMA StorageImplementsQueue == Spec => SpecQueue
<1>1. Init => InitQueue
  BY DEF Init
<1> QED
  BY <1>1, StepRefines, PTL DEF Spec, SpecQueue

(* The queue forgets nothing, whatever the handler, its stores and crashes *)
(* of the two services do.                                                 *)
THEOREM StorageForgetsNothing == Spec => []NothingForgotten
  BY StorageImplementsQueue, NothingIsForgotten, PTL

-----------------------------------------------------------------------------
(* The inductive invariant of the stores.  A handler that runs has a       *)
(* delivery; what its earlier steps wrote is there when a later one needs  *)
(* it; and what has been handled is stored or was given up.                *)
StoreTypes ==
  /\ pc \in {"idle", "index", "put", "insert", "return"}
  /\ fileId \in Nat
  /\ index \subseteq Message
  /\ files \in Seq(Content)
  /\ truncated \subseteq 1..Len(files)
  /\ hung \in BOOLEAN
  /\ rows \in [Message -> Row \cup {NoRow}]
  /\ dropped \subseteq Message
  /\ faults \in 0..MaxFaults

BusyHasDelivery == pc # "idle" => inbox # <<>>

StepFitsKind ==
  /\ pc = "index" => Kind[Current] = "STRING" /\ fileId = 0
  /\ pc = "put" => Kind[Current] = "FILE"

TextIsIndexed ==
  pc = "insert" /\ Kind[Current] = "STRING" => Current \in index

IsFileOf(f, m) ==
  f \in 1..Len(files) /\ files[f].msg = m /\ (f \notin truncated => files[f].whole)

FileIsThere ==
  pc = "insert" =>
    IF Kind[Current] = "FILE" THEN IsFileOf(fileId, Current) ELSE fileId = 0

Settled(m) == IsStored(m) \/ m \in dropped

HandledIsSettled ==
  /\ pc = "return" => Settled(Current)
  /\ \A m \in handled : Settled(m)

HandlerInv ==
  /\ StoreTypes /\ BusyHasDelivery /\ StepFitsKind /\ TextIsIndexed /\ FileIsThere
  /\ HandledIsSettled /\ StoredTextIsSearchable /\ RowHasItsFile

LEMMA HandlerInit == Init => HandlerInv
<1> SUFFICES ASSUME Init
             PROVE  HandlerInv
  OBVIOUS
<1>1. StoreTypes
  <2>1. files \in Seq(Content)
    BY EmptySeq DEF Init
  <2>2. rows \in [Message -> Row \cup {NoRow}] /\ faults \in 0..MaxFaults
    BY StorageAssumption DEF Init
  <2> QED
    BY <2>1, <2>2 DEF Init, StoreTypes
<1>2. \A m \in Message : ~IsStored(m)
  BY DEF Init, IsStored
<1> QED
  BY <1>1, <1>2 DEF Init, InitQueue, HandlerInv, BusyHasDelivery, StepFitsKind,
     TextIsIndexed, FileIsThere, IsFileOf, HandledIsSettled, StoredTextIsSearchable, RowHasItsFile

(* The delivery a running handler works on stays at the head of the inbox. *)
LEMMA CurrentStays ==
  ASSUME QueueInv, HandlerInv, pc # "idle", Deliver \/ UNCHANGED inbox
  PROVE  inbox' # <<>> /\ Current' = Current
<1>1. inbox \in Seq(Delivery) /\ inbox # <<>> /\ queue \in Seq(Entry)
  BY DEF QueueInv, QueueTypeOK, HandlerInv, BusyHasDelivery
<1>2. CASE UNCHANGED inbox
  BY <1>1, <1>2 DEF Current
<1>3. CASE Deliver
  <2> DEFINE d == [msg |-> Head(queue).msg, red |-> Head(queue).red, tag |-> nextTag]
  <2>1. queue # <<>> /\ inbox' = Append(inbox, d) /\ nextTag \in Nat
    BY <1>3 DEF Deliver, QueueInv, QueueTypeOK
  <2>2. d \in Delivery
    <3>1. Head(queue) \in Entry
      BY <1>1, <2>1, HeadTailProperties
    <3> QED
      BY <2>1, <3>1 DEF Entry, Delivery
  <2> HIDE DEF d
  <2>3. /\ inbox' \in Seq(Delivery) /\ inbox' # <<>>
        /\ \A k \in 1..Len(inbox) : inbox'[k] = inbox[k]
    BY <1>1, <2>1, <2>2, AppendProperties
  <2>4. 1 \in 1..Len(inbox)
    BY <1>1, LenProperties, EmptySeq
  <2>5. Head(inbox') = inbox'[1] /\ Head(inbox) = inbox[1]
    BY <1>1, <2>3, HeadTailProperties
  <2> QED
    BY <2>3, <2>4, <2>5 DEF Current
<1> QED
  BY <1>2, <1>3

(* Steps outside the handler.                                              *)
LEMMA OutsideKeepsHandler ==
  ASSUME QueueInv, HandlerInv,
         UNCHANGED <<handlerVars, storeVars, dropped, handled>>,
         faults' \in 0..MaxFaults,
         Deliver \/ UNCHANGED inbox
  PROVE  HandlerInv'
<1>1. StoreTypes' /\ StoredTextIsSearchable' /\ RowHasItsFile'
  BY DEF HandlerInv, StoreTypes, StoredTextIsSearchable, RowHasItsFile, IsStored,
     handlerVars, storeVars
<1>2. CASE pc = "idle"
  BY <1>1, <1>2 DEF HandlerInv, BusyHasDelivery, StepFitsKind, TextIsIndexed,
     FileIsThere, IsFileOf, HandledIsSettled, Settled, IsStored, handlerVars, storeVars
<1>3. CASE pc # "idle"
  <2>1. inbox' # <<>> /\ Current' = Current
    BY <1>3, CurrentStays
  <2> QED
    BY <1>1, <2>1 DEF HandlerInv, BusyHasDelivery, StepFitsKind, TextIsIndexed,
       FileIsThere, IsFileOf, HandledIsSettled, Settled, IsStored, handlerVars, storeVars
<1> QED
  BY <1>2, <1>3

LEMMA CurrentIsMessage ==
  ASSUME QueueInv, inbox # <<>>
  PROVE  Current \in Message /\ Kind[Current] \in {"STRING", "FILE", "BAD"}
<1>1. Head(inbox) \in Delivery
  BY HeadTailProperties DEF QueueInv, QueueTypeOK
<1> QED
  BY <1>1, StorageAssumption DEF Current, Delivery

(* Steps of the handler.                                                   *)
LEMMA OnMessageHandler ==
  ASSUME QueueInv, HandlerInv, OnMessage
  PROVE  HandlerInv'
<1>1. /\ pc = "idle" /\ inbox # <<>> /\ fileId' = 0
      /\ UNCHANGED <<inbox, handled, index, files, truncated, hung, rows, faults>>
  BY DEF OnMessage, queueVars, storeVars
<1>2. Current' = Current /\ Current \in Message
  BY <1>1, CurrentIsMessage DEF Current
<1>3. \/ pc' = "index" /\ Kind[Current] = "STRING" /\ dropped' = dropped
      \/ pc' = "put" /\ Kind[Current] = "FILE" /\ dropped' = dropped
      \/ pc' = "return" /\ dropped' = dropped \cup {Current}
  BY DEF OnMessage, GiveUp
<1>4. dropped \subseteq dropped' /\ dropped' \subseteq Message
  BY <1>2, <1>3 DEF HandlerInv, StoreTypes
<1>5. StoreTypes'
  BY <1>1, <1>3, <1>4 DEF HandlerInv, StoreTypes
<1>6. StepFitsKind' /\ TextIsIndexed' /\ FileIsThere'
  BY <1>1, <1>2, <1>3 DEF StepFitsKind, TextIsIndexed, FileIsThere, IsFileOf
<1>7. HandledIsSettled'
  BY <1>1, <1>2, <1>3, <1>4 DEF HandlerInv, HandledIsSettled, Settled, IsStored
<1> QED
  BY <1>1, <1>5, <1>6, <1>7 DEF HandlerInv, BusyHasDelivery, StoredTextIsSearchable,
     RowHasItsFile, IsStored

LEMMA AppendDataHandler ==
  ASSUME QueueInv, HandlerInv, AppendData
  PROVE  HandlerInv'
<1>1. /\ pc = "index" /\ inbox # <<>>
      /\ UNCHANGED <<inbox, handled, fileId, files, truncated, hung, rows>>
  BY DEF AppendData, queueVars, HandlerInv, BusyHasDelivery
<1>2. Current' = Current /\ Current \in Message
  BY <1>1, CurrentIsMessage DEF Current
<1>3. Kind[Current] = "STRING" /\ fileId = 0
  BY <1>1 DEF HandlerInv, StepFitsKind
<1>4. /\ index' \in {index, index \cup {Current}}
      /\ \/ /\ pc' = "insert" /\ index' = index \cup {Current}
            /\ UNCHANGED <<dropped, faults>>
         \/ /\ pc' = "return" /\ dropped' = dropped \cup {Current}
            /\ faults < MaxFaults /\ faults' = faults + 1
  BY DEF AppendData, GiveUp, Fault
<1>5. index \subseteq index' /\ dropped \subseteq dropped'
  BY <1>4
<1>6. faults' \in 0..MaxFaults
  BY <1>4, StorageAssumption DEF HandlerInv, StoreTypes
<1>7. StoreTypes'
  BY <1>1, <1>2, <1>4, <1>6 DEF HandlerInv, StoreTypes
<1>8. StepFitsKind' /\ TextIsIndexed' /\ FileIsThere'
  BY <1>1, <1>2, <1>3, <1>4 DEF StepFitsKind, TextIsIndexed, FileIsThere, IsFileOf
<1>9. HandledIsSettled'
  BY <1>1, <1>2, <1>4, <1>5 DEF HandlerInv, HandledIsSettled, Settled, IsStored
<1> QED
  BY <1>1, <1>5, <1>7, <1>8, <1>9 DEF HandlerInv, BusyHasDelivery,
     StoredTextIsSearchable, RowHasItsFile, IsStored

LEMMA PutFileHandler ==
  ASSUME QueueInv, HandlerInv, PutFile
  PROVE  HandlerInv'
<1>1. /\ pc = "put" /\ inbox # <<>> /\ Kind[Current] = "FILE"
      /\ UNCHANGED <<inbox, handled, index, hung, rows>>
      /\ files \in Seq(Content) /\ fileId \in Nat /\ truncated \subseteq 1..Len(files)
  BY DEF PutFile, queueVars, HandlerInv, BusyHasDelivery, StepFitsKind, StoreTypes
<1>2. Current' = Current /\ Current \in Message
  BY <1>1, CurrentIsMessage DEF Current
<1> DEFINE Whole == [msg |-> Current, whole |-> TRUE]
           Part == [msg |-> Current, whole |-> FALSE]
<1>3. /\ Whole \in Content /\ Whole.msg = Current /\ Whole.whole
      /\ Part \in Content /\ Part.msg = Current
  BY <1>2 DEF Content
<1>4. Len(files) \in Nat
  BY <1>1, LenProperties
<1>5. \/ /\ pc' = "insert" /\ fileId' = Len(files) + 1 /\ dropped' = dropped
         /\ \/ files' = Append(files, Whole) /\ truncated' = truncated /\ faults' = faults
            \/ /\ faults < MaxFaults /\ faults' = faults + 1
               /\ files' = Append(files, Part)
               /\ truncated' = truncated \cup {Len(files) + 1}
      \/ /\ pc' = "return" /\ dropped' = dropped \cup {Current}
         /\ faults < MaxFaults /\ faults' = faults + 1
         /\ fileId' = fileId /\ truncated' = truncated
         /\ files' = files \/ files' = Append(files, Whole) \/ files' = Append(files, Part)
  <2>1. \A whole \in BOOLEAN : AddFile(whole) =>
          files' = Append(files, Whole) \/ files' = Append(files, Part)
    BY DEF AddFile
  <2>2. /\ AddFile(TRUE) => files' = Append(files, Whole)
        /\ AddFile(FALSE) => files' = Append(files, Part)
    BY DEF AddFile
  <2> QED
    BY <2>1, <2>2 DEF PutFile, GiveUp, Fault
<1> HIDE DEF Whole, Part
<1>6. \A d \in Content :
        /\ Append(files, d) \in Seq(Content) /\ Len(Append(files, d)) = Len(files) + 1
        /\ \A k \in 1..Len(files) : Append(files, d)[k] = files[k]
        /\ Append(files, d)[Len(files) + 1] = d
  BY <1>1, AppendProperties
<1>7. /\ files' \in Seq(Content) /\ Len(files') \in Nat
      /\ \A k \in 1..Len(files) : k \in 1..Len(files') /\ files'[k] = files[k]
      /\ truncated' \subseteq 1..Len(files')
  <2>1. CASE files' = files /\ truncated' = truncated
    BY <1>1, <1>4, <2>1
  <2>2. ASSUME NEW d \in Content, files' = Append(files, d),
               truncated' = truncated \/ truncated' = truncated \cup {Len(files) + 1}
        PROVE  /\ files' \in Seq(Content) /\ Len(files') \in Nat
               /\ \A k \in 1..Len(files) : k \in 1..Len(files') /\ files'[k] = files[k]
               /\ truncated' \subseteq 1..Len(files')
    <3>1. files' \in Seq(Content) /\ Len(files') = Len(files) + 1
      BY <1>6, <2>2
    <3>2. \A k \in 1..Len(files) : files'[k] = files[k]
      BY <1>6, <2>2
    <3>3. ASSUME NEW k \in truncated'
          PROVE  k \in 1..Len(files')
      <4>1. CASE k \in truncated
        BY <1>1, <1>4, <3>1, <4>1
      <4>2. CASE k = Len(files) + 1
        BY <1>4, <3>1, <4>2
      <4> QED
        BY <2>2, <4>1, <4>2
    <3> QED
      BY <1>4, <3>1, <3>2, <3>3
  <2>3. CASE files' = Append(files, Whole) /\ truncated' = truncated
    BY <1>3, <2>2, <2>3
  <2>4. CASE /\ files' = Append(files, Part)
             /\ truncated' = truncated \/ truncated' = truncated \cup {Len(files) + 1}
    BY <1>3, <2>2, <2>4
  <2> QED
    BY <1>5, <2>1, <2>3, <2>4
<1>8. truncated' \subseteq truncated \cup {Len(files) + 1} /\ truncated \subseteq truncated'
  BY <1>5
<1>9. faults' \in 0..MaxFaults
  BY <1>5, StorageAssumption DEF HandlerInv, StoreTypes
<1>10. dropped \subseteq dropped' /\ dropped' \subseteq Message /\ fileId' \in Nat
  BY <1>1, <1>2, <1>4, <1>5 DEF HandlerInv, StoreTypes
<1>11. StoreTypes'
  BY <1>1, <1>5, <1>7, <1>9, <1>10 DEF HandlerInv, StoreTypes
<1>12. FileIsThere'
  <2>1. CASE pc' = "insert"
    <3>1. /\ fileId' = Len(files) + 1
          /\ \/ files' = Append(files, Whole)
             \/ files' = Append(files, Part) /\ fileId' \in truncated'
      BY <1>5, <2>1
    <3>2. /\ Len(files') = Len(files) + 1 /\ files'[Len(files) + 1].msg = Current
          /\ fileId' \notin truncated' => files'[Len(files) + 1].whole
      BY <1>3, <1>6, <3>1
    <3> QED
      BY <1>1, <1>2, <1>4, <3>1, <3>2 DEF FileIsThere, IsFileOf
  <2> QED
    BY <2>1 DEF FileIsThere
<1>13. StepFitsKind' /\ TextIsIndexed'
  BY <1>1, <1>2, <1>5 DEF StepFitsKind, TextIsIndexed
<1>14. HandledIsSettled'
  BY <1>1, <1>2, <1>5, <1>10 DEF HandlerInv, HandledIsSettled, Settled, IsStored
<1>15. RowHasItsFile'
  BY <1>1, <1>4, <1>7, <1>8 DEF HandlerInv, RowHasItsFile, IsStored
<1> QED
  BY <1>1, <1>5, <1>11, <1>12, <1>13, <1>14, <1>15 DEF HandlerInv, BusyHasDelivery,
     StoredTextIsSearchable, IsStored

LEMMA InsertHandler ==
  ASSUME QueueInv, HandlerInv, Insert
  PROVE  HandlerInv'
<1> DEFINE row == [rows EXCEPT ![Current] = [file |-> fileId]]
<1>1. /\ pc = "insert" /\ inbox # <<>>
      /\ UNCHANGED <<inbox, handled, fileId, index, files, truncated, hung>>
      /\ fileId \in Nat /\ rows \in [Message -> Row \cup {NoRow}]
  BY DEF Insert, queueVars, HandlerInv, BusyHasDelivery, StoreTypes
<1>2. Current' = Current /\ Current \in Message
  BY <1>1, CurrentIsMessage DEF Current
<1>3. /\ pc' = "return"
      /\ \/ ~IsStored(Current) /\ rows' = row /\ UNCHANGED <<dropped, faults>>
         \/ /\ dropped' = dropped \cup {Current} /\ rows' = rows /\ UNCHANGED faults
         \/ /\ dropped' = dropped \cup {Current} /\ rows' \in {rows, row}
            /\ faults < MaxFaults /\ faults' = faults + 1
  BY DEF Insert, GiveUp, Fault
<1>4. [file |-> fileId] \in Row /\ [file |-> fileId] # NoRow
  BY <1>1, StorageAssumption DEF Row
<1>5. /\ row \in [Message -> Row \cup {NoRow}]
      /\ row[Current] = [file |-> fileId]
      /\ \A m \in Message : m # Current => row[m] = rows[m]
  BY <1>1, <1>2, <1>4
<1> HIDE DEF row
<1>6. /\ rows' \in [Message -> Row \cup {NoRow}]
      /\ \A m \in Message : m # Current => rows'[m] = rows[m]
      /\ rows'[Current] = rows[Current] \/ rows'[Current] = [file |-> fileId]
  BY <1>1, <1>3, <1>5
<1>7. faults' \in 0..MaxFaults /\ dropped \subseteq dropped' /\ dropped' \subseteq Message
  BY <1>2, <1>3, StorageAssumption DEF HandlerInv, StoreTypes
<1>8. StoreTypes'
  BY <1>1, <1>3, <1>6, <1>7 DEF HandlerInv, StoreTypes
<1>9. Settled(Current)'
  BY <1>2, <1>3, <1>4, <1>5 DEF Settled, IsStored
<1>10. \A m \in Message : Settled(m) => Settled(m)'
  BY <1>4, <1>6, <1>7 DEF Settled, IsStored
<1>11. HandledIsSettled'
  BY <1>1, <1>2, <1>9, <1>10 DEF QueueInv, QueueTypeOK, HandlerInv, HandledIsSettled
<1>12. StoredTextIsSearchable'
  BY <1>1, <1>6 DEF HandlerInv, StoredTextIsSearchable, TextIsIndexed, IsStored
<1>13. RowHasItsFile'
  <2> SUFFICES ASSUME NEW m \in Message, IsStored(m)'
               PROVE  IF Kind[m] = "FILE" THEN IsFileOf(rows'[m].file, m)
                      ELSE rows'[m].file = 0
    BY <1>1 DEF RowHasItsFile, IsFileOf
  <2>1. CASE rows'[m] = rows[m]
    BY <2>1 DEF HandlerInv, RowHasItsFile, IsFileOf, IsStored
  <2>2. CASE m = Current /\ rows'[m] = [file |-> fileId]
    BY <1>1, <2>2 DEF HandlerInv, FileIsThere
  <2> QED
    BY <1>6, <2>1, <2>2
<1> QED
  BY <1>1, <1>3, <1>8, <1>11, <1>12, <1>13 DEF HandlerInv, BusyHasDelivery,
     StepFitsKind, TextIsIndexed, FileIsThere, IsFileOf

LEMMA ReturnHandler ==
  ASSUME QueueInv, HandlerInv, Return
  PROVE  HandlerInv'
<1>1. /\ pc = "return" /\ pc' = "idle" /\ handled' = handled \cup {Current}
      /\ UNCHANGED <<fileId, index, files, truncated, hung, rows, dropped, faults>>
  BY DEF Return, Received, Current, storeVars
<1> QED
  BY <1>1 DEF HandlerInv, StoreTypes, BusyHasDelivery, StepFitsKind, TextIsIndexed,
     FileIsThere, IsFileOf, HandledIsSettled, Settled, IsStored, StoredTextIsSearchable,
     RowHasItsFile

LEMMA StorageDiesHandler ==
  ASSUME QueueInv, HandlerInv, StorageDies
  PROVE  HandlerInv'
<1>1. /\ pc' = "idle" /\ faults < MaxFaults /\ faults' = faults + 1
      /\ UNCHANGED <<handled, fileId, index, files, truncated, hung, rows, dropped>>
  BY DEF StorageDies, ConsumerDies, Fault, storeVars
<1>2. faults' \in 0..MaxFaults
  BY <1>1, StorageAssumption DEF HandlerInv, StoreTypes
<1> QED
  BY <1>1, <1>2 DEF HandlerInv, StoreTypes, BusyHasDelivery, StepFitsKind,
     TextIsIndexed, FileIsThere, IsFileOf, HandledIsSettled, Settled, IsStored,
     StoredTextIsSearchable, RowHasItsFile

LEMMA HangHandler ==
  ASSUME QueueInv, HandlerInv, Hang
  PROVE  HandlerInv'
<1>1. /\ UNCHANGED <<inbox, handled, pc, fileId, index, files, truncated, rows, dropped>>
      /\ hung' = TRUE /\ faults < MaxFaults /\ faults' = faults + 1
  BY DEF Hang, Fault, queueVars, handlerVars
<1>2. faults' \in 0..MaxFaults
  BY <1>1, StorageAssumption DEF HandlerInv, StoreTypes
<1>3. Current' = Current
  BY <1>1 DEF Current
<1> QED
  BY <1>1, <1>2, <1>3 DEF HandlerInv, StoreTypes, BusyHasDelivery, StepFitsKind,
     TextIsIndexed, FileIsThere, IsFileOf, HandledIsSettled, Settled, IsStored,
     StoredTextIsSearchable, RowHasItsFile

LEMMA HandlerStep == QueueInv /\ HandlerInv /\ [Next]_vars => HandlerInv'
<1> SUFFICES ASSUME QueueInv, HandlerInv, [Next]_vars
             PROVE  HandlerInv'
  OBVIOUS
<1>0. faults \in 0..MaxFaults
  BY DEF HandlerInv, StoreTypes
<1>1. CASE Enqueue
  BY <1>0, <1>1, OutsideKeepsHandler DEF Enqueue, Publish
<1>2. CASE Transport
  BY <1>0, <1>2, OutsideKeepsHandler DEF Transport, Flush, Consume, Deliver
<1>3. CASE Acknowledge
  BY <1>0, <1>3, OutsideKeepsHandler DEF Acknowledge, BrokerAck
<1>4. CASE Handler
  BY <1>4, OnMessageHandler, AppendDataHandler, PutFileHandler, InsertHandler,
     ReturnHandler DEF Handler
<1>5. CASE StorageDies
  BY <1>5, StorageDiesHandler
<1>6. CASE TransmitDies
  <2>1. faults' \in 0..MaxFaults
    BY <1>0, <1>6, StorageAssumption DEF TransmitDies, Fault
  <2> QED
    BY <1>6, <2>1, OutsideKeepsHandler DEF TransmitDies, PublisherDies
<1>7. CASE UNCHANGED vars
  BY <1>0, <1>7, OutsideKeepsHandler DEF vars, queueVars
<1>8. CASE Hang
  BY <1>8, HangHandler
<1> QED
  BY <1>1, <1>2, <1>3, <1>4, <1>5, <1>6, <1>7, <1>8 DEF Next

LEMMA StorageInvariant == Spec => [](QueueInv /\ HandlerInv)
<1>1. Init => QueueInv /\ HandlerInv
  BY QueueInit, HandlerInit DEF Init
<1>2. QueueInv /\ HandlerInv /\ [Next]_vars => (QueueInv /\ HandlerInv)'
  BY StepRefines, QueueStep, HandlerStep
<1> QED
  BY <1>1, <1>2, PTL DEF Spec

-----------------------------------------------------------------------------
(* The state of onMessage, its stores and the queue keep their types.      *)
THEOREM StorageTypeCorrect == Spec => []TypeOK
<1>1. QueueInv /\ HandlerInv => TypeOK
  BY DEF QueueInv, HandlerInv, StoreTypes, TypeOK
<1> QED
  BY <1>1, StorageInvariant, PTL

(* Between publish and the table no message vanishes: it is on its way, it *)
(* is stored, or some run of onMessage gave it up.                         *)
THEOREM MessagesAreAccounted == Spec => []Accounted
<1>1. QueueInv /\ HandlerInv => Accounted
  BY DEF QueueInv, NothingForgotten, HandlerInv, HandledIsSettled, Settled, Accounted
<1> QED
  BY <1>1, StorageInvariant, PTL

(* The order of the writes in onMessage, index before row, makes every     *)
(* text in the history searchable at every moment.                         *)
THEOREM HistoryIsSearchable == Spec => []StoredTextIsSearchable
<1>1. HandlerInv => StoredTextIsSearchable
  BY DEF HandlerInv
<1> QED
  BY <1>1, StorageInvariant, PTL

(* The order file before row, and a file id of its own for every upload,   *)
(* make the file of a row exist and be the message's own, and all of it    *)
(* but for what close() failed to write.                                   *)
THEOREM RowsHaveTheirFiles == Spec => []RowHasItsFile
<1>1. HandlerInv => RowHasItsFile
  BY DEF HandlerInv
<1> QED
  BY <1>1, StorageInvariant, PTL
=============================================================================
