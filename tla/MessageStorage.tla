--------------------------- MODULE MessageStorage ---------------------------
(***************************************************************************)
(* The message storage service: MessageServiceImpl::onMessage              *)
(* (src/code/server/message/source/message_server.hpp) run by the event    *)
(* loop thread of MQClient for every delivery, the three stores it writes  *)
(* one after another - the Elasticsearch index (ESMessage), the file       *)
(* service (PutSingleFile) and the MySQL message table (MessageTable) -    *)
(* and failures and crashes between those writes.                          *)
(*                                                                         *)
(* The stores are modelled by what they keep: the index by the set of the  *)
(* message ids it has a document for (the document id is the message id,   *)
(* so indexing again overwrites), the file service by the contents of the  *)
(* file ids 1, 2, ... it gave out - whose data it is, and whether all of   *)
(* it is there - and the table by one row per message id, which a unique   *)
(* index on message_id protects.                                           *)
(*                                                                         *)
(* A call of the file service has no timeout (ServiceChannel::append sets  *)
(* it to -1): one that is never answered keeps the loop thread for ever.   *)
(***************************************************************************)
EXTENDS MessageQueue

CONSTANTS
  Kind,      \* message -> "STRING", "FILE" (file, image, speech) or "BAD"
             \* (a body that does not parse or has no known type)
  MaxFaults, \* bound: store failures, crashes of either service
  NoRow

ASSUME StorageAssumption ==
  /\ Kind \in [Message -> {"STRING", "FILE", "BAD"}]
  /\ MaxFaults \in Nat
  /\ NoRow \notin [file : Nat]

VARIABLES
  pc,       \* of the loop thread: "idle", or the next step of onMessage
  fileId,   \* local file_id of onMessage; 0 is the empty string
  index,    \* messages with a document in Elasticsearch
  files,    \* contents of the files stored so far, by file id
  truncated,\* ghost: files whose last bytes close() could not write
  hung,     \* does the file service take calls without answering them?
  rows,     \* the message table: message -> its row or NoRow
  dropped,  \* ghost: messages some run of onMessage gave up on
  faults    \* number of faults so far

storeVars == <<index, files, rows, truncated, hung>>
handlerVars == <<pc, fileId>>
vars == <<queueVars, handlerVars, storeVars, dropped, faults>>

Content == [msg : Message, whole : BOOLEAN]
Row == [file : Nat]
IsStored(m) == rows[m] # NoRow

Init ==
  /\ InitQueue
  /\ pc = "idle" /\ fileId = 0
  /\ index = {} /\ files = <<>> /\ rows = [m \in Message |-> NoRow]
  /\ truncated = {} /\ hung = FALSE
  /\ dropped = {}
  /\ faults = 0

-----------------------------------------------------------------------------
Fault ==
  /\ faults < MaxFaults
  /\ faults' = faults + 1

Current == Head(inbox).msg

(* An early return: the message is given up, and the ack still follows. *)
GiveUp ==
  /\ pc' = "return"
  /\ dropped' = dropped \cup {Current}

(* Mutant of OnMessage: a message of no known type is never dismissed. *)
OnKnownMessage ==
  /\ pc = "idle"
  /\ inbox # <<>>
  /\ Kind[Current] # "BAD"
  /\ fileId' = 0
  /\ pc' = IF Kind[Current] = "STRING" THEN "index" ELSE "put"
  /\ UNCHANGED <<queueVars, storeVars, dropped, faults>>

(* onMessage, steps 1 and 2 up to the first call: parse, then branch on    *)
(* the message type.                                                       *)
OnMessage ==
  /\ pc = "idle"
  /\ inbox # <<>>
  /\ fileId' = 0
  /\ \/ /\ Kind[Current] = "STRING"
        /\ pc' = "index"
        /\ UNCHANGED dropped
     \/ /\ Kind[Current] = "FILE"
        /\ pc' = "put"
        /\ UNCHANGED dropped
     \/ /\ Kind[Current] = "BAD"
        /\ GiveUp
  /\ UNCHANGED <<queueVars, storeVars, faults>>

(* Mutant of AppendData: its failure is only logged. *)
AppendDataUnchecked ==
  /\ pc = "index"
  /\ \/ index' = index \cup {Current} /\ UNCHANGED faults
     \/ Fault /\ UNCHANGED index
  /\ pc' = "insert"
  /\ UNCHANGED <<queueVars, fileId, files, truncated, hung, rows, dropped>>

(* ESMessage::appendData.  A failure may hit before or after the document  *)
(* is indexed: the request was refused, or its answer was lost.            *)
AppendData ==
  /\ pc = "index"
  /\ \/ /\ index' = index \cup {Current}
        /\ pc' = "insert"
        /\ UNCHANGED <<dropped, faults>>
     \/ /\ Fault
        /\ index' \in {index, index \cup {Current}}
        /\ GiveUp
  /\ UNCHANGED <<queueVars, fileId, files, truncated, hung, rows>>

AddFile(whole) == files' = Append(files, [msg |-> Current, whole |-> whole])

(* Mutant of PutFile: its failure is only logged. *)
PutFileUnchecked ==
  /\ pc = "put"
  /\ ~hung
  /\ \/ AddFile(TRUE) /\ fileId' = Len(files) + 1 /\ UNCHANGED faults
     \/ Fault /\ UNCHANGED <<files, fileId>>
  /\ pc' = "insert"
  /\ UNCHANGED <<queueVars, index, truncated, hung, rows, dropped>>

(* _PutFile: the file service stores the content under a new id, though    *)
(* the end of it may get lost when it closes the file.  It fails when no   *)
(* file service is known, the call fails, the file cannot be opened or     *)
(* written to the end, or the answer is lost; what there is of the file    *)
(* stays.                                                                  *)
PutFile ==
  /\ pc = "put"
  /\ ~hung
  /\ \/ /\ \/ AddFile(TRUE) /\ UNCHANGED <<truncated, faults>>
           \/ /\ Fault
              /\ AddFile(FALSE)
              /\ truncated' = truncated \cup {Len(files) + 1}
        /\ fileId' = Len(files) + 1
        /\ pc' = "insert"
        /\ UNCHANGED dropped
     \/ /\ Fault
        /\ UNCHANGED files \/ \E whole \in BOOLEAN : AddFile(whole)
        /\ GiveUp
        /\ UNCHANGED <<fileId, truncated>>
  /\ UNCHANGED <<queueVars, index, hung, rows>>

(* The file service stops answering. *)
Hang ==
  /\ ~hung
  /\ Fault
  /\ hung' = TRUE
  /\ UNCHANGED <<queueVars, handlerVars, index, files, truncated, rows, dropped>>

(* MessageTable::insert, one transaction.  A duplicate message_id breaks   *)
(* the unique index; a failed commit may or may not have happened.         *)
Insert ==
  /\ pc = "insert"
  /\ LET row == [rows EXCEPT ![Current] = [file |-> fileId]] IN
       \/ /\ ~IsStored(Current)
          /\ rows' = row
          /\ pc' = "return"
          /\ UNCHANGED <<dropped, faults>>
       \/ /\ IsStored(Current)
          /\ GiveUp
          /\ UNCHANGED <<rows, faults>>
       \/ /\ ~IsStored(Current)
          /\ Fault
          /\ rows' \in {rows, row}
          /\ GiveUp
  /\ UNCHANGED <<queueVars, fileId, index, files, truncated, hung>>

(* onMessage has returned, the lambda of MQClient::consume acknowledges.   *)
Return ==
  /\ pc = "return"
  /\ Received
  /\ pc' = "idle"
  /\ UNCHANGED <<fileId, storeVars, dropped, faults>>

(* The storage service dies at any point of onMessage. *)
StorageDies ==
  /\ Fault
  /\ ConsumerDies
  /\ pc' = "idle"
  /\ UNCHANGED <<fileId, storeVars, dropped>>

TransmitDies ==
  /\ Fault
  /\ PublisherDies
  /\ UNCHANGED <<handlerVars, storeVars, dropped>>

(* The steps outside the two processes: a message is published, travels,   *)
(* is pushed, and its acknowledgement is taken.                            *)
Enqueue ==
  /\ \E m \in Message : Publish(m)
  /\ UNCHANGED <<handlerVars, storeVars, dropped, faults>>

Transport ==
  /\ Flush \/ Consume \/ Deliver
  /\ UNCHANGED <<handlerVars, storeVars, dropped, faults>>

Acknowledge ==
  /\ BrokerAck
  /\ UNCHANGED <<handlerVars, storeVars, dropped, faults>>

Handler == OnMessage \/ AppendData \/ PutFile \/ Insert \/ Return

Next ==
  \/ Enqueue \/ Transport \/ Acknowledge \/ Handler
  \/ Hang \/ StorageDies \/ TransmitDies

Spec == Init /\ [][Next]_vars

(* The loop thread and the broker keep running, and the container runtime  *)
(* starts the service again when it died (docker-compose: restart always). *)
(* A call of the file service that hangs disables the handler: nothing     *)
(* makes it end.                                                           *)
Fairness ==
  /\ WF_vars(Handler)
  /\ WF_vars(Transport)
  /\ WF_vars(Acknowledge)

FairSpec == Spec /\ Fairness

-----------------------------------------------------------------------------
TypeOK ==
  /\ QueueTypeOK
  /\ pc \in {"idle", "index", "put", "insert", "return"}
  /\ fileId \in Nat
  /\ index \subseteq Message
  /\ files \in Seq(Content)
  /\ truncated \subseteq 1..Len(files)
  /\ hung \in BOOLEAN
  /\ rows \in [Message -> Row \cup {NoRow}]
  /\ dropped \subseteq Message
  /\ faults \in 0..MaxFaults

(* No published message vanishes: it is still on its way, in the table, or *)
(* some run of onMessage gave up on it - even when the service dies between *)
(* two stores and the message comes again.  (onMessage, MQClient::consume) *)
Accounted ==
  \A m \in published :
    InBuffer(m) \/ InQueue(m) \/ IsUnacked(m) \/ m \in lost
      \/ IsStored(m) \/ m \in dropped

(* A text message that the history shows is also found by keyword search:  *)
(* the table never has one the index does not have.  (onMessage)           *)
StoredTextIsSearchable ==
  \A m \in Message : IsStored(m) /\ Kind[m] = "STRING" => m \in index

(* The file a row names exists and is that message's own, with all of its  *)
(* content but what close() failed to write, although a message that comes *)
(* again uploads again and failed uploads leave parts: GetHistoryMsg never *)
(* fails for a missing file.  (onMessage, _PutFile, PutSingleFile)         *)
RowHasItsFile ==
  \A m \in Message : IsStored(m) =>
    LET f == rows[m].file IN
    IF Kind[m] = "FILE"
    THEN f \in 1..Len(files) /\ files[f].msg = m /\ (f \notin truncated => files[f].whole)
    ELSE f = 0

(* A message pushed to a live storage service is stored or given up, even  *)
(* after the broker closed the channel over a wrong tag, unless the        *)
(* service dies first or the file service hangs.  (onMessage,              *)
(* MQClient::consume)                                                      *)
DeliveredIsHandled ==
  \A m \in Message :
    (\E k \in 1..Len(inbox) : inbox[k].msg = m)
      ~> (IsStored(m) \/ m \in dropped \/ chan = "none" \/ hung)

(* A message handed to the queue is eventually persisted.                  *)
(* (transmit_server.hpp:74, before publish: the message goes to the queue  *)
(* so that the storage service persists it)                                *)
PublishedIsPersisted ==
  \A m \in Message : m \in published ~> IsStored(m)
=============================================================================
