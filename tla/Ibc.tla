-------------------------------- MODULE Ibc ---------------------------------
(***************************************************************************)
(* IBC: clients, connections and channels (CRAWL_IBC_TAO), packets         *)
(* (CRAWL_IBC_APP) and token transfers (CRAWL_IBC_ICS20).  Each job is one *)
(* transaction over a range of blocks, and follows the one before it.      *)
(* The chain may be older than the first block of the indexer: an event    *)
(* refers to an earlier one, which may lie before StartBlock.  An event    *)
(* may also lack an attribute, or a companion, that one of the jobs        *)
(* demands; a job that throws is run again over the same range for good.   *)
(***************************************************************************)
EXTENDS Checkpoint, Sequences, SequencesExt

CONSTANTS
    Sequence,         \* sequence numbers of packets
    BlocksPerCall,
    Top,              \* bound: the height of the chain
    Length            \* bound: the events of the chain, one fewer if an event lacks something

VARIABLES
    events,     \* the IBC events of the chain: [height, type, seq, ref, lacks], ref being
                \* the id of the event that this one refers to, or 0, and lacks the job
                \* that demands more than the event has, or "none"
    crawled,    \* block_checkpoint of HANDLE_TRANSACTION
    cp,         \* block_checkpoint of the three jobs
    tao,        \* ibc_client, ibc_connection and ibc_channel: the rows' event ids
    closed,     \* the channels whose state is CLOSE
    messages,   \* ibc_message: event ids
    ics20       \* ibc_ics20: event id |-> status

vars == <<events, crawled, cp, tao, closed, messages, ics20>>

head == IF events = <<>> THEN 0 ELSE events[Len(events)].height
OfType(types) == {i \in DOMAIN events : events[i].type \in types}
InBlocks(lo, hi) == {i \in DOMAIN events : lo < events[i].height /\ events[i].height <= hi}
Due(j, dep) == InBlocks(cp[j], EndHeight(cp[j], dep, BlocksPerCall))
Answers == {"ack_success", "ack_error", "timeout"}
-----------------------------------------------------------------------------
Init ==
    /\ events = <<>> /\ crawled = StartBlock
    /\ cp = [j \in {"tao", "app", "ics"} |-> StartBlock]
    /\ tao = {} /\ closed = {} /\ messages = {} /\ ics20 = <<>>

(* What may happen on the chain: one client, its connection and channel;   *)
(* packets in both directions with the same numbers, which the chain gives *)
(* to those it sends in order; one answer to a send.                       *)
Possible ==
    LET some(types) == OfType(types) # {}
        event(type, seq, ref) == [type |-> type, seq |-> seq, ref |-> ref]
    IN  (IF some({"client"}) THEN {} ELSE {event("client", 0, 0)})
        \cup {event("connection", 0, i) : i \in {i \in OfType({"client"}) : ~ some({"connection"})}}
        \cup {event("channel", 0, i) : i \in {i \in OfType({"connection"}) : ~ some({"channel"})}}
        \cup {event("close", 0, i) : i \in {i \in OfType({"channel"}) : ~ some({"close"})}}
        \cup {event(t, s, 0) : s \in {s \in Sequence : some({"channel"}) /\ ~ some({"close"})},
                              t \in {"recv_success", "recv_error"}}
        \cup {event("send", s, 0) : s \in {s \in Sequence : some({"channel"}) /\ ~ some({"close"})
                                          /\ s = Cardinality(OfType({"send"})) + 1}}
        \cup {event(t, events[i].seq, i) : i \in OfType({"send"}), t \in Answers}

Twice(e) ==
    \E i \in DOMAIN events :
        /\ events[i].seq = e.seq /\ events[i].ref = e.ref
        /\ \/ events[i].type = e.type
           \/ e.type \in Answers /\ events[i].type \in Answers
           \/ {e.type, events[i].type} \subseteq {"recv_success", "recv_error"}

(* The jobs that may miss something in an event.  A timeout is only looked *)
(* up by CRAWL_IBC_ICS20.  One event of the chain may lack something.      *)
Demanding(type) ==
    IF type \in {"client", "connection", "channel", "close"} THEN {"tao"}
    ELSE IF type = "timeout" THEN {"app"}
    ELSE {"app", "ics"}
lacking == {i \in DOMAIN events : events[i].lacks # "none"}
Lacking(type) ==
    {"none"} \cup IF lacking = {} /\ Len(events) < Length - 1 THEN Demanding(type) ELSE {}

NewEvent ==
    /\ Len(events) + Cardinality(lacking) < Length
    /\ \E e \in {e \in Possible : ~ Twice(e)}, h \in {head, head + 1} : \E job \in Lacking(e.type) :
          /\ h \in 1 .. Top /\ (crawled < h \/ h <= StartBlock)
          /\ events' = Append(events, [height |-> h, type |-> e.type, seq |-> e.seq,
                                       ref |-> e.ref, lacks |-> job])
    /\ UNCHANGED <<crawled, cp, tao, closed, messages, ics20>>

HandleTx ==
    /\ crawled < head
    /\ crawled' = crawled + 1
    /\ UNCHANGED <<events, cp, tao, closed, messages, ics20>>
-----------------------------------------------------------------------------
Demanded(due, j) == \A i \in due : events[i].lacks # j

(* CRAWL_IBC_TAO inserts the clients of the range, then the connections,   *)
(* then the channels, each next to the row it refers to, without which the *)
(* job throws; then it closes channels, and throws for one without an id.  *)
TaoFinds ==
    LET due == Due("tao", crawled) \cap OfType({"client", "connection", "channel"})
    IN  /\ Demanded(Due("tao", crawled), "tao")
        /\ \A i \in due : events[i].type # "client" => events[i].ref \in tao \cup due

CrawlIbcTao ==
    LET due == Due("tao", crawled)
    IN  /\ cp["tao"] < crawled /\ TaoFinds
        /\ tao' = tao \cup (due \cap OfType({"client", "connection", "channel"}))
        /\ closed' = closed \cup ({events[i].ref : i \in due \cap OfType({"close"})} \cap tao')
        /\ cp' = [cp EXCEPT !["tao"] = EndHeight(@, crawled, BlocksPerCall)]
        /\ UNCHANGED <<events, crawled, messages, ics20>>

Packets == Answers \cup {"send", "recv_success", "recv_error"}

(* CRAWL_IBC_APP throws for a packet without a channel, port or sequence.  *)
AppFinds == Demanded(Due("app", cp["tao"]) \cap OfType(Packets), "app")

CrawlIbcApp ==
    /\ cp["app"] < cp["tao"] /\ AppFinds
    /\ messages' = messages \cup (Due("app", cp["tao"]) \cap OfType(Packets))
    /\ cp' = [cp EXCEPT !["app"] = EndHeight(@, cp["tao"], BlocksPerCall)]
    /\ UNCHANGED <<events, crawled, tao, closed, ics20>>
-----------------------------------------------------------------------------
(* mutant: the query for the origin of an answer does not ask for its type *)
OriginAnyType(rows, i) ==
    LET same == {k \in DOMAIN rows : events[k].seq = events[i].seq}
    IN  IF same = {} THEN 0 ELSE Max(same)

(* The row of the transfer that an answer is about: the sent packet with   *)
(* the same sequence_key.                                                  *)
Origin(rows, i) ==
    LET same == {k \in DOMAIN rows : events[k].seq = events[i].seq /\ events[k].type = "send"}
    IN  IF same = {} THEN 0 ELSE Max(same)

(* mutant: the answers are handled before the packets that were sent       *)
AfterSendLate(due) == ics20

(* The rows when the sent and the received packets of the range are in.    *)
AfterSend(due) ==
    ics20 @@ [i \in due \cap OfType({"send", "recv_success", "recv_error"}) |->
                CASE events[i].type = "send" -> "ongoing"
                  [] events[i].type = "recv_success" -> "ack_success"
                  [] events[i].type = "recv_error" -> "ack_error"]

(* CRAWL_IBC_ICS20 throws for a packet sent or received without token or   *)
(* fungible_token_packet event, for an acknowledgement that has not two of *)
(* these events, and for an answer to a packet that it does not know.      *)
IcsFinds ==
    LET due == Due("ics", cp["app"]) \cap messages
    IN  /\ Demanded(due, "ics")
        /\ \A i \in due \cap OfType(Answers) : Origin(AfterSend(due), i) # 0

(* CRAWL_IBC_ICS20: sends, receipts, acknowledgements, timeouts.           *)
CrawlIbcIcs20 ==
    LET due == Due("ics", cp["app"]) \cap messages
        rows == AfterSend(due)
        answers == {i \in due : events[i].type \in Answers}
        about == {Origin(rows, i) : i \in answers}
    IN  /\ cp["ics"] < cp["app"] /\ IcsFinds
        /\ ics20' = [k \in DOMAIN rows |->
                       IF k \in about
                       THEN events[CHOOSE i \in answers : Origin(rows, i) = k].type
                       ELSE rows[k]]
        /\ cp' = [cp EXCEPT !["ics"] = EndHeight(@, cp["app"], BlocksPerCall)]
        /\ UNCHANGED <<events, crawled, tao, closed, messages>>

Next == NewEvent \/ HandleTx \/ CrawlIbcTao \/ CrawlIbcApp \/ CrawlIbcIcs20

Spec == Init /\ [][Next]_vars
-----------------------------------------------------------------------------
(* Properties                                                              *)

(* Up to the checkpoint of CRAWL_IBC_ICS20, every packet sent has exactly  *)
(* the status of the answer to it that lies there, or is ongoing, and      *)
(* every packet received keeps its own status although a packet sent may   *)
(* have the same sequence_key; a channel is closed when its closing lies   *)
(* before the checkpoint of CRAWL_IBC_TAO.                                 *)
TransfersExact ==
    LET seen == InBlocks(StartBlock, cp["ics"])
    IN  /\ DOMAIN ics20 = seen \cap OfType({"send", "recv_success", "recv_error"})
        /\ \A i \in DOMAIN ics20 :
              CASE events[i].type = "recv_success" -> ics20[i] = "ack_success"
                [] events[i].type = "recv_error" -> ics20[i] = "ack_error"
                [] events[i].type = "send" ->
                     LET answers == {k \in seen : events[k].ref = i /\ events[k].type \in Answers}
                     IN  IF answers = {} THEN ics20[i] = "ongoing"
                         ELSE \A k \in answers : ics20[i] = events[k].type
        /\ \A k \in InBlocks(StartBlock, cp["tao"]) \cap OfType({"close"}) :
              events[k].ref \in closed \/ events[events[k].ref].height <= StartBlock

(* A job stops for good only at an event of the range that it is at, which *)
(* lacks what the job demands or refers to something from before the first *)
(* block of the indexer; never for the order in which a range is handled,  *)
(* or for where it ends.                                                   *)
StopsExplained ==
    LET explained(j, dep) ==
            \E i \in Due(j, dep) :
                \/ events[i].lacks = j
                \/ events[i].ref # 0 /\ events[events[i].ref].height <= StartBlock
    IN  /\ TaoFinds \/ explained("tao", crawled)
        /\ AppFinds \/ explained("app", cp["tao"])
        /\ IcsFinds \/ explained("ics", cp["app"])
=============================================================================
