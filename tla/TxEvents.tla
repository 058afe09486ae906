------------------------------ MODULE TxEvents ------------------------------
(***************************************************************************)
(* What HANDLE_TRANSACTION makes of one transaction: the rows of event,    *)
(* with the index of the message that emitted them, and the sender in the  *)
(* rows of transaction_message.  The node gives one list of all events, in *)
(* which the messages cannot be told apart, and a log with the events of   *)
(* each message; nodes of older versions encode the list, but not the log. *)
(*                                                                         *)
(* A transaction is [ok, ante, msgs]: the events of the ante handler and,  *)
(* for each message, its events.  An event is [type, value]; the value of  *)
(* a "message" event is its sender.                                        *)
(***************************************************************************)
EXTENDS Integers, SequencesExt

CONSTANTS
    LastEventsTypeTx,   \* config: the types that end the events of the ante handler
    Lookalike,          \* the texts that can be decoded although nobody encoded them
    Events,             \* the events that occur
    AnteEvents          \* the events of an ante handler, at most

VARIABLES
    old,    \* whether the node encodes attributes
    tx,     \* a transaction that has been crawled
    rows,   \* its rows of event: [type, msg_index, value]
    sender  \* the sender in the rows of transaction_message

vars == <<old, tx, rows, sender>>

NoIndex == -1
NoSender == ""
NoRows == "none"    \* before the rows are stored

(* The node: attributes of older versions are in base64.                   *)
Encoded(value) == <<value>>
NodeEvents ==
    LET all == IF tx.ok THEN tx.ante \o FlattenSeq(tx.msgs) ELSE tx.ante
    IN  [i \in DOMAIN all |-> IF old THEN [all[i] EXCEPT !.value = Encoded(@)] ELSE all[i]]

(* Decoding what is not encoded fails, and gives the input, or succeeds by *)
(* accident.                                                               *)
DecodeAttribute(wasEncoded, value) ==
    IF ~ old THEN value
    ELSE IF wasEncoded THEN value[1]
    ELSE IF value \in Lookalike THEN "garbled" ELSE value
-----------------------------------------------------------------------------
(* mutant: the loop does not stop after the events of the ante handler     *)
TxEventsEndNever(events) == Len(events)

(* The loop takes the events up to the first run of those that end the     *)
(* list of the ante handler, that run included.                            *)
TxEventsEnd(events) ==
    LET last(i) == events[i].type \in LastEventsTypeTx
        breaks == {i \in DOMAIN events : ~ last(i) /\ \E j \in 1 .. (i - 1) : last(j)}
    IN  IF breaks = {} THEN Len(events) ELSE Min(breaks) - 1

(* Nothing for a failed transaction; else those events without an index    *)
(* and the log of every message with it.                                   *)
CreateListEventWithMsgIndex ==
    LET events == NodeEvents
        ante == [i \in 1 .. TxEventsEnd(events) |->
                    [type |-> events[i].type, msg_index |-> NoIndex,
                     value |-> DecodeAttribute(TRUE, events[i].value)]]
        log(m) == [i \in DOMAIN tx.msgs[m] |->
                    [type |-> tx.msgs[m][i].type, msg_index |-> m - 1,
                     value |-> DecodeAttribute(FALSE, tx.msgs[m][i].value)]]
    IN  IF tx.ok THEN ante \o FlattenSeq([m \in DOMAIN tx.msgs |-> log(m)]) ELSE <<>>

(* The sender of every message is that of the first event that has one.    *)
Sender ==
    LET events == NodeEvents
        found == {i \in DOMAIN events : events[i].type = "message"}
    IN  IF found = {} THEN NoSender ELSE DecodeAttribute(TRUE, events[Min(found)].value)
-----------------------------------------------------------------------------
(* The transactions with at most two messages, each of which names its     *)
(* sender first.                                                           *)
Transactions ==
    LET signed == {<<s>> \o rest : s \in {e \in Events : e.type = "message"}, rest \in SeqOf(Events, 1)}
    IN  [ok : BOOLEAN, ante : SeqOf(Events, AnteEvents), msgs : SeqOf(signed, 2)]

Init == old \in BOOLEAN /\ tx \in Transactions /\ rows = <<>> /\ sender = NoRows

InsertRelatedTx ==
    /\ sender = NoRows
    /\ rows' = CreateListEventWithMsgIndex /\ sender' = Sender
    /\ UNCHANGED <<old, tx>>

Spec == Init /\ [][InsertRelatedTx]_vars
-----------------------------------------------------------------------------
(* The rows that a transaction should have: every event once, in order.    *)
RowsOf(es, index) ==
    [i \in DOMAIN es |-> [type |-> es[i].type, msg_index |-> index, value |-> es[i].value]]
MessageRows == FlattenSeq([m \in DOMAIN tx.msgs |-> RowsOf(tx.msgs[m], m - 1)])

(* The ante handler ends as the configuration says: its last events, and   *)
(* only these, are of the types that end it.                               *)
EndsAsConfigured ==
    LET ends == {i \in DOMAIN tx.ante : tx.ante[i].type \in LastEventsTypeTx}
    IN  ends # {} /\ ends = Min(ends) .. Len(tx.ante)

(* HANDLE_TRANSACTION stores the events of every message of a successful   *)
(* transaction once, under its index, and those of the ante handler once,  *)
(* without one.  The second part needs an ante handler that ends as        *)
(* configured, and the first that no text is decoded by accident.          *)
EventsIndexed ==
    LET ofMessage(r) == r.msg_index # NoIndex
        ofAnte(r) == r.msg_index = NoIndex
        accident == old /\ \E r \in ToSet(MessageRows) : r.value \in Lookalike
    IN  sender # NoRows /\ tx.ok =>
            /\ accident \/ SelectSeq(rows, ofMessage) = MessageRows
            /\ EndsAsConfigured => SelectSeq(rows, ofAnte) = RowsOf(tx.ante, NoIndex)

(* The sender of a message is the account that signed it, unless another   *)
(* account paid the fee or signed another message.                         *)
SenderSigned ==
    LET signers == {tx.msgs[m][1].value : m \in DOMAIN tx.msgs}
        payers == {e.value : e \in {e \in ToSet(tx.ante) : e.type = "message"}}
    IN  sender # NoRows /\ tx.ok /\ Cardinality(signers) = 1 /\ payers \subseteq signers =>
            sender \in signers
=============================================================================
