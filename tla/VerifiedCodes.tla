--------------------------- MODULE VerifiedCodes ----------------------------
(***************************************************************************)
(* The verified contracts of the EVM: rows with status SUCCESS come from   *)
(* requests (see Verification), from the matches of Sourcify's database    *)
(* and from other contracts with the same code.  CRAWL_SMART_CONTRACT_EVM  *)
(* stores contracts and asks for the latter after its commit; both other   *)
(* sources ask for the signatures of the new ABI after theirs.             *)
(*                                                                         *)
(* A row has the hash of the code that was compiled, which is the hash of  *)
(* the deployed code only if the match is perfect.                         *)
(***************************************************************************)
EXTENDS Naturals, Sequences, FiniteSets, FiniteSetsExt

CONSTANTS
    Contract,
    CodeOf,         \* the hash of the code of each contract
    Published,      \* Sourcify's matches by id: [contract, good, exact]
    LimitRecordGet, \* the contracts that one query returns
    RecordsPerCall, \* the matches that one run of SYNC_SOURCIFY takes
    MaxRows,        \* bound: rows that come from requests
    Failures        \* bound: failures of a job and deaths of the process

VARIABLES
    contracts,  \* the rows of evm_smart_contract, by id
    announced,  \* committed contracts that have no job yet
    rows,       \* those with status SUCCESS: [contract, hash, by, match, nth]
    jobs,       \* INSERT_VERIFY_BY_CODEHASH: its state for each hash
    run,        \* the one that runs: [hash, at, found, done]
    matches,    \* the ids of the matches that can be seen
    height,     \* block_checkpoint of SYNC_SOURCIFY
    sync,       \* its run: [pc, ids]
    unsignalled,\* contracts with a new row, before the jobs of signatures
    signatures, \* contracts with a waiting HANDLE_EVM_SIGNATURE_MAPPING
    mapped,     \* contracts whose signatures are stored
    excused,    \* the contracts, matches and signatures that nobody looks at
    failures    \* the failures so far

crawl == <<contracts, announced>>
insert == <<jobs, run>>
sourcify == <<matches, height, sync>>
signature == <<unsignalled, signatures, mapped>>
vars == <<crawl, rows, insert, sourcify, signature, excused, failures>>

Hashes == {CodeOf[c] : c \in Contract}
Stored == {contracts[i] : i \in DOMAIN contracts}
NoRun == [hash |-> "-", at |-> 0, found |-> {}, done |-> FALSE]
NoSync == [pc |-> "idle", ids |-> {}]
Failure == failures < Failures /\ failures' = failures + 1

Has(c) == \E r \in rows : r.contract = c
HashKnown(h) == \E r \in rows : r.hash = h
(* A new row, numbered among those of the same origin.                     *)
Row(c, h, by, match) ==
    [contract |-> c, hash |-> h, by |-> by, match |-> match,
     nth |-> Cardinality({r \in rows : r.contract = c /\ r.by = by /\ r.match = match})]
HashOf(c, exact) == IF exact THEN CodeOf[c] ELSE "other"
-----------------------------------------------------------------------------
Init ==
    /\ contracts = <<>> /\ announced = {} /\ rows = {}
    /\ jobs = [h \in Hashes |-> "none"] /\ run = NoRun
    /\ matches = {} /\ height = 0 /\ sync = NoSync
    /\ unsignalled = {} /\ signatures = {} /\ mapped = {}
    /\ excused = [code |-> {}, match |-> {}, signature |-> {}] /\ failures = 0

(* CRAWL_SMART_CONTRACT_EVM commits a contract, and then asks for a job    *)
(* that has the hash as its id: one that waits, runs or failed stands in   *)
(* its place.                                                              *)
CrawlContract ==
    /\ announced = {}
    /\ \E c \in Contract \ Stored : contracts' = Append(contracts, c) /\ announced' = {c}
    /\ UNCHANGED <<rows, insert, sourcify, signature, excused, failures>>

Swallowed(c) ==
    \/ jobs[CodeOf[c]] = "failed"
    \/ run.hash = CodeOf[c] /\ run.done /\ c \notin run.found
CreateInsertJob ==
    /\ \E c \in announced :
          /\ jobs' = [jobs EXCEPT ![CodeOf[c]] = IF @ = "none" THEN "waiting" ELSE @]
          /\ excused' = IF Swallowed(c) THEN [excused EXCEPT !.code = @ \cup {c}] ELSE excused
    /\ announced' = {}
    /\ UNCHANGED <<contracts, rows, run, sourcify, signature, failures>>

CrawlDies ==
    /\ Failure /\ announced # {} /\ announced' = {}
    /\ excused' = [excused EXCEPT !.code = @ \cup announced]
    /\ UNCHANGED <<contracts, rows, insert, sourcify, signature>>

(* An administrator asks for the job as well.                              *)
ActionCreateJob ==
    /\ \E h \in Hashes : jobs[h] = "none" /\ jobs' = [jobs EXCEPT ![h] = "waiting"]
    /\ UNCHANGED <<crawl, rows, run, sourcify, signature, excused, failures>>
-----------------------------------------------------------------------------
(* INSERT_VERIFY_BY_CODEHASH.  Nothing to do unless the code is verified.  *)
InsertVerifyByCodeHash ==
    /\ run = NoRun
    /\ \E h \in Hashes :
          /\ jobs[h] = "waiting"
          /\ IF HashKnown(h)
             THEN /\ run' = [NoRun EXCEPT !.hash = h]
                  /\ jobs' = [jobs EXCEPT ![h] = "active"] /\ UNCHANGED excused
             ELSE /\ jobs' = [jobs EXCEPT ![h] = "none"] /\ UNCHANGED run
                  /\ excused' = [excused EXCEPT !.code = @ \cup {c \in Stored \ announced : CodeOf[c] = h}]
    /\ UNCHANGED <<crawl, rows, sourcify, signature, failures>>

(* mutant: contracts that are verified are taken as well                   *)
UnverifiedAny(c) == CodeOf[c] = run.hash

(* A contract that gets a row: one with this code and without a row.       *)
Unverified(c) == CodeOf[c] = run.hash /\ ~ Has(c)

(* The next contracts by id, or none, which ends the search.               *)
Rest == {i \in DOMAIN contracts : i > run.at /\ CodeOf[contracts[i]] = run.hash}
FirstOf(ids, n) == {i \in ids : Cardinality({j \in ids : j < i}) < n}
ReadPage ==
    /\ run # NoRun /\ ~ run.done
    /\ LET page == FirstOf(Rest, LimitRecordGet)
       IN  run' = IF page = {} THEN [run EXCEPT !.done = TRUE]
                  ELSE [run EXCEPT !.at = Max(page),
                                   !.found = @ \cup {c \in {contracts[i] : i \in page} : Unverified(c)}]
    /\ UNCHANGED <<crawl, rows, jobs, sourcify, signature, excused, failures>>

(* The rows are inserted in one statement, and the job ends.               *)
InsertRows ==
    /\ run.done
    /\ rows' = rows \cup {Row(c, run.hash, "code", 0) : c \in run.found}
    /\ jobs' = [jobs EXCEPT ![run.hash] = "none"] /\ run' = NoRun
    /\ UNCHANGED <<crawl, sourcify, signature, excused, failures>>

(* An error ends the job, which stays in its queue as a failed one; a job  *)
(* whose worker died is delivered again.                                   *)
InsertFails ==
    /\ Failure /\ run # NoRun /\ run' = NoRun
    /\ \/ /\ jobs' = [jobs EXCEPT ![run.hash] = "failed"]
          /\ excused' = [excused EXCEPT !.code = @ \cup {c \in Stored \ announced : CodeOf[c] = run.hash}]
       \/ jobs' = [jobs EXCEPT ![run.hash] = "waiting"] /\ UNCHANGED excused
    /\ UNCHANGED <<crawl, rows, sourcify, signature>>
-----------------------------------------------------------------------------
(* VERIFY_CONTRACT_EVM commits a success; the signatures come after that.  *)
VerifyContractEVM ==
    /\ Cardinality({r \in rows : r.by = "request"}) < MaxRows
    /\ \E c \in Contract, exact \in BOOLEAN :
          /\ rows' = rows \cup {Row(c, HashOf(c, exact), "request", 0)}
          /\ unsignalled' = unsignalled \cup {c}
    /\ UNCHANGED <<crawl, insert, sourcify, signatures, mapped, excused, failures>>

(* Sourcify stores matches; ids may become visible out of order.           *)
PublishMatch ==
    /\ \E id \in DOMAIN Published \ matches : matches' = matches \cup {id}
    /\ UNCHANGED <<crawl, rows, insert, height, sync, signature, excused, failures>>

(* SYNC_SOURCIFY reads the next matches, inserts the good ones and then    *)
(* moves its checkpoint in a transaction that does not hold the insert.    *)
SyncSourcify ==
    /\ sync = NoSync
    /\ LET ids == FirstOf({id \in matches : id > height}, RecordsPerCall)
       IN  /\ ids # {} /\ sync' = [pc |-> "read", ids |-> ids]
           /\ excused' = [excused EXCEPT !.match = @ \cup {id \in 1 .. Max(ids) : id \notin matches}]
    /\ UNCHANGED <<crawl, rows, insert, matches, height, signature, failures>>

Good == {id \in sync.ids : Published[id].good}
InsertMatches ==
    /\ sync.pc = "read" /\ sync' = [sync EXCEPT !.pc = "inserted"]
    /\ rows' = rows \cup {Row(Published[id].contract, HashOf(Published[id].contract, Published[id].exact),
                              "sourcify", id) : id \in Good}
    /\ UNCHANGED <<crawl, insert, matches, height, signature, excused, failures>>

MoveCheckpoint ==
    /\ sync.pc = "inserted" /\ sync' = NoSync /\ height' = Max(sync.ids)
    /\ unsignalled' = unsignalled \cup {Published[id].contract : id \in Good}
    /\ UNCHANGED <<crawl, rows, insert, matches, signatures, mapped, excused, failures>>

SyncDies ==
    /\ Failure /\ sync # NoSync /\ sync' = NoSync
    /\ UNCHANGED <<crawl, rows, insert, matches, height, signature, excused>>
-----------------------------------------------------------------------------
CreateSignatureJobs ==
    /\ unsignalled # {} /\ unsignalled' = {} /\ signatures' = signatures \cup unsignalled
    /\ UNCHANGED <<crawl, rows, insert, sourcify, mapped, excused, failures>>

(* An administrator asks for the signatures of a contract; only where they *)
(* are missing, which is where it makes a difference.                      *)
CreateJobMapping ==
    /\ \E c \in Contract \ (signatures \cup mapped) : Has(c) /\ signatures' = signatures \cup {c}
    /\ UNCHANGED <<crawl, rows, insert, sourcify, unsignalled, mapped, excused, failures>>

(* HANDLE_EVM_SIGNATURE_MAPPING, from the latest row of the contract.      *)
HandleSignature ==
    /\ \E c \in signatures :
          /\ signatures' = signatures \ {c}
          /\ mapped' = IF Has(c) THEN mapped \cup {c} ELSE mapped
    /\ UNCHANGED <<crawl, rows, insert, sourcify, unsignalled, excused, failures>>

(* A death before the jobs are created, or the failure of such a job.      *)
SignatureLost ==
    /\ Failure
    /\ \/ /\ unsignalled # {} /\ unsignalled' = {} /\ UNCHANGED signatures
          /\ excused' = [excused EXCEPT !.signature = @ \cup unsignalled]
       \/ \E c \in signatures :
             /\ signatures' = signatures \ {c} /\ UNCHANGED unsignalled
             /\ excused' = [excused EXCEPT !.signature = @ \cup {c}]
    /\ UNCHANGED <<crawl, rows, insert, sourcify, mapped>>

Next ==
    \/ CrawlContract \/ CreateInsertJob \/ CrawlDies \/ ActionCreateJob
    \/ InsertVerifyByCodeHash \/ ReadPage \/ InsertRows \/ InsertFails
    \/ VerifyContractEVM \/ PublishMatch
    \/ SyncSourcify \/ InsertMatches \/ MoveCheckpoint \/ SyncDies
    \/ CreateSignatureJobs \/ CreateJobMapping \/ HandleSignature \/ SignatureLost

Spec == Init /\ [][Next]_vars
-----------------------------------------------------------------------------
IdOf(c) == CHOOSE i \in DOMAIN contracts : contracts[i] = c

(* A contract whose code is verified has a row of its own, or a job that   *)
(* will still come to it, except one whose job ran before the code was     *)
(* verified, died, failed, or was swallowed by one that had already looked *)
(* past it; and the job never gives it two rows.                           *)
CodesVerified ==
    /\ \A c \in Stored \ excused.code :
          HashKnown(CodeOf[c]) =>
             \/ Has(c) \/ c \in announced \/ jobs[CodeOf[c]] = "waiting"
             \/ run.hash = CodeOf[c] /\ (c \in run.found \/ (~ run.done /\ run.at < IdOf(c)))
    /\ \A r \in rows : r.by = "code" => r.nth = 0

(* SYNC_SOURCIFY passes no good match without a row, except one that came  *)
(* to light after a higher id was taken, and repeats one only after a      *)
(* death between its two commits.                                          *)
MatchesSynced ==
    /\ \A id \in matches \ excused.match :
          id <= height /\ Published[id].good => \E r \in rows : r.by = "sourcify" /\ r.match = id
    /\ \A r \in rows : r.by = "sourcify" => r.nth <= failures

(* The signatures of a contract that was verified by a request or by       *)
(* Sourcify are stored or will be, unless the call after the commit or the *)
(* job itself was lost.                                                    *)
SignaturesStored ==
    \A r \in rows :
        r.by = "code" \/ r.contract \in mapped \cup unsignalled \cup signatures \cup excused.signature
           \/ r.match > height

(* All of it: no verified contract, match or ABI is lost or repeated by    *)
(* these jobs, but for the cases that the three parts name.                *)
VerifiedCodesComplete == CodesVerified /\ MatchesSynced /\ SignaturesStored
=============================================================================
