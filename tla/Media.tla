------------------------------- MODULE Media --------------------------------
(***************************************************************************)
(* The media of NFTs, of a CW721 or an ERC-721 contract.  A filter job     *)
(* walks over the token rows by id: it creates a job for each row without  *)
(* media and then moves its checkpoint, not in one transaction.  The jobs  *)
(* copy the file of a token to S3 and put the link into its row.  Meanwhile*)
(* HANDLE_CW721_TRANSACTION and REINDEX_CW721_CONTRACT insert rows, whose  *)
(* ids come from one sequence, delete them, and write whole rows that they *)
(* have read before; HANDLE_ERC721_ACTIVITY, alone, leaves the media alone.*)
(***************************************************************************)
EXTENDS Integers, Sequences, FiniteSets, FiniteSetsExt

CONSTANTS
    Token,
    MediaPerBatch,
    MaxId,      \* bound: the ids of the sequence
    Incidents   \* bound: deaths of the process and failures of jobs

VARIABLES
    standard,   \* "cw721" or "erc721"
    seq,        \* the next id
    rows,       \* the committed rows: id |-> [token, burned, media]
    open,       \* the row that each writer has read, or written and not committed
    cp,         \* block_checkpoint of the filter job: an id
    batch,      \* what the filter job has read: id |-> token, and the rows it could see
    queue,      \* the jobs of tokens: jobId |-> [id, file, link]
    failed,     \* the ids of failed jobs, which stay in the queue
    bucket,     \* the tokens whose file is in S3
    excused,    \* the rows that nobody handles: see MediaHandled
    budget      \* what is left of Incidents

vars == <<standard, seq, rows, open, cp, batch, queue, failed, bucket, excused, budget>>

Writers == {"handle", "reindex"}
Row(pc, k, t, burned, media) ==
    [pc |-> pc, id |-> k, token |-> t, burned |-> burned, media |-> media]
NoRow == Row("none", 0, "-", FALSE, "none")
NoBatch == [tokens |-> <<>>, seen |-> {}]
Rest(f, k) == [x \in DOMAIN f \ {k} |-> f[x]]
Set(f, k, v) == [x \in DOMAIN f \cup {k} |-> IF x = k THEN v ELSE f[x]]
Spend == budget > 0 /\ budget' = budget - 1
-----------------------------------------------------------------------------
Init ==
    /\ standard \in {"cw721", "erc721"}
    /\ seq = 1 /\ rows = <<>> /\ open = [w \in Writers |-> NoRow]
    /\ cp = 0 /\ batch = NoBatch /\ queue = <<>> /\ failed = {} /\ bucket = {}
    /\ excused = {} /\ budget = Incidents

RowsOf(t) == {k \in DOMAIN rows : rows[k].token = t}
Written(t) == \E w \in Writers : open[w].pc = "written" /\ open[w].token = t

(* What the messages of a range make of a token that is minted in it: a    *)
(* row with the id that it had, if any, and without media; and of a row    *)
(* whose token only moves or is burned.                                    *)
HandlerCw721Mint(t) ==
    {Row("read", k, t, burned, "none") :
        k \in IF RowsOf(t) = {} THEN {0} ELSE RowsOf(t), burned \in BOOLEAN}
HandlerCw721Others(t) ==
    UNION {{Row("read", k, t, burned, rows[k].media) : burned \in {rows[k].burned, TRUE}} : k \in RowsOf(t)}

(* A transaction of HANDLE_CW721_TRANSACTION, or of the range that is      *)
(* handled again after a reindexing, reads the token and computes its row. *)
HandleCw721MsgExec ==
    /\ standard = "cw721" /\ open["handle"] = NoRow
    /\ \E t \in Token : \E r \in HandlerCw721Mint(t) \cup HandlerCw721Others(t) :
          open' = [open EXCEPT !["handle"] = r]
    /\ UNCHANGED <<standard, seq, rows, cp, batch, queue, failed, bucket, excused, budget>>

(* updateTokenAndActivities.  A new row takes the next id, and is refused  *)
(* if the token has a row by then.                                         *)
InsertToken ==
    LET t == open["handle"].token
    IN  /\ open["handle"].pc = "read" /\ open["handle"].id = 0
        /\ RowsOf(t) = {} /\ ~ Written(t) /\ seq <= MaxId
        /\ open' = [open EXCEPT !["handle"].pc = "written", !["handle"].id = seq]
        /\ seq' = seq + 1
        /\ UNCHANGED <<standard, rows, cp, batch, queue, failed, bucket, excused, budget>>

(* A row that had media has none now: its token is minted again, or the    *)
(* media came after the row was read, or the row was deleted then; and the *)
(* filter job is past it.                                                  *)
Undone(r) ==
    /\ r.media = "none" /\ (r.id \in DOMAIN rows => rows[r.id].media # "none")
    /\ r.id <= Max({cp} \cup DOMAIN batch.tokens)

(* A row that has an id is merged as a whole, or inserted again with it if *)
(* it was deleted.  Its writer keeps it locked until the commit.           *)
MergeToken ==
    LET r == open["handle"]
    IN  /\ r.pc = "read" /\ r.id # 0
        /\ RowsOf(r.token) \subseteq {r.id} /\ ~ Written(r.token)
        /\ rows' = Set(rows, r.id, [token |-> r.token, burned |-> r.burned, media |-> r.media])
        /\ excused' = IF Undone(r) THEN excused \cup {r.id} ELSE excused
        /\ open' = [open EXCEPT !["handle"] = NoRow]
        /\ UNCHANGED <<standard, seq, cp, batch, queue, failed, bucket, budget>>

(* The upsert of an ERC-721 token takes an id, and names no media.         *)
UpdateErc721 ==
    /\ standard = "erc721" /\ open["handle"] = NoRow /\ seq <= MaxId
    /\ \E t \in Token :
          open' = IF RowsOf(t) = {}
                  THEN [open EXCEPT !["handle"] = Row("written", seq, t, FALSE, "none")] ELSE open
    /\ seq' = seq + 1
    /\ UNCHANGED <<standard, rows, cp, batch, queue, failed, bucket, excused, budget>>

CommitToken(w) ==
    /\ open[w].pc = "written"
    /\ rows' = Set(rows, open[w].id,
                   [token |-> open[w].token, burned |-> open[w].burned, media |-> "none"])
    /\ open' = [open EXCEPT ![w] = NoRow]
    /\ UNCHANGED <<standard, seq, cp, batch, queue, failed, bucket, excused, budget>>

WriterFails(w) ==
    /\ open[w] # NoRow
    /\ open' = [open EXCEPT ![w] = NoRow]
    /\ UNCHANGED <<standard, seq, rows, cp, batch, queue, failed, bucket, excused, budget>>

(* handleReindexAll, statement by statement: the tokens of a contract are  *)
(* deleted, then the contract, unless it has a token again; whoever has    *)
(* read a row of it is refused then.  The node's tokens get new rows.      *)
ReindexDeleteTokens ==
    /\ standard = "cw721" /\ open["reindex"] = NoRow
    /\ \E t \in Token :
          /\ rows' = [k \in DOMAIN rows \ RowsOf(t) |-> rows[k]]
          /\ open' = [open EXCEPT !["reindex"] = Row("deleted", 0, t, FALSE, "none")]
    /\ UNCHANGED <<standard, seq, cp, batch, queue, failed, bucket, excused, budget>>

ReindexDeleteContract ==
    LET t == open["reindex"].token
    IN  /\ open["reindex"].pc = "deleted" /\ RowsOf(t) = {} /\ ~ Written(t)
        /\ open' = [w \in Writers |->
                      IF w = "reindex" THEN Row("inserted", 0, t, FALSE, "none")
                      ELSE IF open[w].token = t THEN NoRow ELSE open[w]]
        /\ UNCHANGED <<standard, seq, rows, cp, batch, queue, failed, bucket, excused, budget>>

ReindexInsertTokens ==
    LET t == open["reindex"].token
    IN  /\ open["reindex"].pc = "inserted" /\ RowsOf(t) = {} /\ ~ Written(t) /\ seq <= MaxId
        /\ open' = [open EXCEPT !["reindex"] = Row("written", seq, t, FALSE, "none")]
        /\ seq' = seq + 1
        /\ UNCHANGED <<standard, rows, cp, batch, queue, failed, bucket, excused, budget>>
-----------------------------------------------------------------------------
(* The rows that a filter job reads: the first ones past its checkpoint    *)
(* without media; for CW721 burned tokens are left out.  The node is asked *)
(* for their metadata, which the jobs are given.                           *)
FirstOf(ids) == {k \in ids : Cardinality({j \in ids : j < k}) < MediaPerBatch}

(* mutant: the row next to the checkpoint is left out                      *)
UnprocessSkips == {k \in DOMAIN rows : k > cp + 1 /\ rows[k].media = "none"}

Unprocess == {k \in DOMAIN rows : k > cp /\ rows[k].media = "none"}
GetTokensMediaInfo(ids) == [k \in ids |-> rows[k].token]
GetTokensUri(ids) == [k \in ids |-> rows[k].token]
ReadBatch(info) ==
    /\ batch = NoBatch /\ info # <<>>
    /\ batch' = [tokens |-> info,
                 seen |-> {k \in DOMAIN rows : standard = "cw721" => ~ rows[k].burned}]
    /\ UNCHANGED <<standard, seq, rows, open, cp, queue, failed, bucket, excused, budget>>

JobHandlerFilter ==
    /\ standard = "cw721"
    /\ ReadBatch(GetTokensMediaInfo(FirstOf({k \in Unprocess : ~ rows[k].burned})))
HandleErc721Media == standard = "erc721" /\ ReadBatch(GetTokensUri(FirstOf(Unprocess)))

(* A job with the id of one that is there, failed or not, is not created.  *)
(* The id of a job for CW721 names the token, not the row.                 *)
JobId(k) == IF standard = "cw721" THEN batch.tokens[k] ELSE k
Ids == DOMAIN batch.tokens
CreateJobs(ids) ==
    LET new == {k \in ids : JobId(k) \notin DOMAIN queue \cup failed}
    IN  queue' = [i \in DOMAIN queue \cup {JobId(k) : k \in new} |->
                    IF i \in DOMAIN queue THEN queue[i]
                    ELSE LET k == CHOOSE n \in new : JobId(n) = i
                         IN  [id |-> k, file |-> batch.tokens[k], link |-> "none"]]

NewCheckpoint == Max(Ids)

(* The rows that the checkpoint passes for good: committed too late to be  *)
(* read, burned when they were read, or with the job of another row.       *)
PassedOver ==
    {k \in cp + 1 .. NewCheckpoint :
        \/ k \notin batch.seen
        \/ k \in Ids /\ JobId(k) \in failed
        \/ k \in Ids /\ JobId(k) \in DOMAIN queue /\ queue[JobId(k)].id # k}

SetCheckpoint ==
    /\ batch # NoBatch
    /\ CreateJobs(Ids)
    /\ cp' = NewCheckpoint
    /\ excused' = excused \cup PassedOver
    /\ batch' = NoBatch
    /\ UNCHANGED <<standard, seq, rows, open, failed, bucket, budget>>

(* The node fails, or the process dies: some jobs may exist by then.       *)
FilterDies ==
    /\ batch # NoBatch /\ Spend
    /\ \E made \in SUBSET Ids : CreateJobs(made)
    /\ batch' = NoBatch
    /\ UNCHANGED <<standard, seq, rows, open, cp, failed, bucket, excused>>
-----------------------------------------------------------------------------
(* A file that is in S3 is not copied again.                               *)
UploadMediaToS3(i) ==
    /\ queue[i].link = "none"
    /\ queue' = [queue EXCEPT ![i].link = "link"]
    /\ bucket' = bucket \cup {queue[i].file}
    /\ UNCHANGED <<standard, seq, rows, open, cp, batch, failed, excused, budget>>

(* A download that fails leaves the token without a link.                  *)
DownloadFails(i) ==
    /\ queue[i].link = "none" /\ queue[i].file \notin bucket
    /\ queue' = [queue EXCEPT ![i].link = "empty"]
    /\ UNCHANGED <<standard, seq, rows, open, cp, batch, failed, bucket, excused, budget>>

UpdateMediaS3(i) == standard = "cw721" /\ (UploadMediaToS3(i) \/ DownloadFails(i))
Erc721UpdateMediaS3(i) == standard = "erc721" /\ (UploadMediaToS3(i) \/ DownloadFails(i))

(* The row of the job gets the media, if it is still there.                *)
PatchMediaInfo(i) ==
    /\ queue[i].link # "none"
    /\ rows' = [k \in DOMAIN rows |->
                  IF k = queue[i].id THEN [rows[k] EXCEPT !.media = queue[i].link] ELSE rows[k]]
    /\ queue' = Rest(queue, i)
    /\ UNCHANGED <<standard, seq, open, cp, batch, failed, bucket, excused, budget>>
JobHandlerTokenMedia(i) == standard = "cw721" /\ PatchMediaInfo(i)
Erc721TokenMedia(i) == standard = "erc721" /\ PatchMediaInfo(i)

(* An error of S3, or of the metadata of an ERC-721 token: a job has one   *)
(* attempt.                                                                *)
TokenMediaFails(i) ==
    /\ Spend /\ queue[i].link = "none"
    /\ queue' = Rest(queue, i)
    /\ failed' = failed \cup {i}
    /\ excused' = excused \cup {queue[i].id}
    /\ UNCHANGED <<standard, seq, rows, open, cp, batch, bucket>>

(* The process dies, and the stalled job is run again.                     *)
TokenMediaDies(i) ==
    /\ Spend /\ queue[i].link # "none"
    /\ queue' = [queue EXCEPT ![i].link = "none"]
    /\ UNCHANGED <<standard, seq, rows, open, cp, batch, failed, bucket, excused>>

Next ==
    \/ HandleCw721MsgExec \/ InsertToken \/ MergeToken \/ UpdateErc721
    \/ \E w \in Writers : CommitToken(w) \/ WriterFails(w)
    \/ ReindexDeleteTokens \/ ReindexDeleteContract \/ ReindexInsertTokens
    \/ JobHandlerFilter \/ HandleErc721Media \/ SetCheckpoint \/ FilterDies
    \/ \E i \in DOMAIN queue :
          \/ UpdateMediaS3(i) \/ Erc721UpdateMediaS3(i) \/ TokenMediaFails(i) \/ TokenMediaDies(i)
          \/ JobHandlerTokenMedia(i) \/ Erc721TokenMedia(i)

Spec == Init /\ [][Next]_vars
-----------------------------------------------------------------------------
(* Properties                                                              *)

(* A row that the checkpoint of the filter job has passed has its media,   *)
(* or a job in the queue that will put it there.  The exceptions: the job  *)
(* failed; the row was committed after rows with higher ids had been read; *)
(* the token was burned then, and is minted again; for CW721, the job of   *)
(* an earlier row of the same token still had its id, or the media were    *)
(* there and are undone: a later mint, or a transaction that had read the  *)
(* row before them, wrote the row without.  A link in a row leads to a     *)
(* file in S3.                                                             *)
MediaHandled ==
    \A k \in DOMAIN rows :
        /\ k <= cp /\ k \notin excused =>
               rows[k].media # "none" \/ \E i \in DOMAIN queue : queue[i].id = k
        /\ rows[k].media = "link" => rows[k].token \in bucket
=============================================================================
