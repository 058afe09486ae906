------------------------------ MODULE Genesis -------------------------------
(***************************************************************************)
(* CRAWL_GENESIS downloads the genesis file and creates a job for each     *)
(* part of it; each job stores its part and its checkpoint in one          *)
(* transaction, and the process exits when all checkpoints are there.  The *)
(* process may die at any time; BullMQ then runs the jobs again that were  *)
(* active, and the file stays on the disk as it is.                        *)
(***************************************************************************)
EXTENDS Integers, Sequences, FiniteSets

CONSTANTS
    Chunks,     \* the chunks of the file; at least one, which comes with the request genesis
    Incidents   \* bound: deaths of the process, failures, accounts stored by others

VARIABLES
    file,       \* genesis.json: the chunks appended to it
    request,    \* the running CRAWL_GENESIS: where it is
    requests,   \* how many CRAWL_GENESIS wait
    cp,         \* block_checkpoint: CRAWL_GENESIS and the jobs that have one
    waiting,    \* the jobs in their queues
    ending,     \* the jobs after their commit
    stored,     \* how often the part of each job is in the tables
    typed,      \* do the genesis codes have the types of their contracts?
    foreign,    \* did an account come from elsewhere before the job?
    exited,     \* has the process called process.exit?
    faults,     \* why the load may stop halfway: see GenesisLoaded
    budget      \* what is left of Incidents

vars == <<file, request, requests, cp, waiting, ending, stored, typed, foreign, exited, faults, budget>>

Jobs == {"account", "validator", "proposal", "code", "contract", "feegrant", "ibc"}
Idle == [pc |-> "idle"]
Spend == budget > 0 /\ budget' = budget - 1
-----------------------------------------------------------------------------
Init ==
    /\ file = <<>> /\ request = Idle /\ requests = 1 /\ cp = {}
    /\ waiting = {} /\ ending = {} /\ stored = [j \in Jobs |-> 0]
    /\ typed = FALSE /\ foreign = FALSE /\ exited = FALSE /\ faults = {} /\ budget = Incidents

TerminateProcess(done) == Jobs \subseteq done

(* CRAWL_GENESIS: nothing but terminateProcess when the checkpoint exists. *)
HandleGenesis ==
    /\ ~ exited /\ request = Idle /\ requests > 0
    /\ requests' = requests - 1
    /\ IF "genesis" \in cp
       THEN exited' = TerminateProcess(cp) /\ UNCHANGED request
       ELSE request' = [pc |-> "get", next |-> 1] /\ UNCHANGED exited
    /\ UNCHANGED <<file, cp, waiting, ending, stored, typed, foreign, faults, budget>>

(* The file is appended to, whatever is in it.                             *)
AppendChunk ==
    /\ ~ exited /\ request.pc = "get"
    /\ file' = Append(file, request.next)
    /\ request' = IF request.next = Chunks THEN [pc |-> "checkpoint"] ELSE [request EXCEPT !.next = @ + 1]
    /\ UNCHANGED <<requests, cp, waiting, ending, stored, typed, foreign, exited, faults, budget>>

(* The node fails.  The request for the whole file then ends the job, as   *)
(* if it were done, or throws, and the job runs again; the failure of a    *)
(* request for a chunk is always taken for the end of the file.            *)
RequestFails ==
    /\ ~ exited /\ request.pc = "get" /\ Spend
    /\ \/ /\ request.next = 1 /\ request' = Idle
          /\ faults' = faults \cup {"no request"} /\ UNCHANGED requests
       \/ /\ request.next = 1 /\ request' = Idle
          /\ requests' = requests + 1 /\ UNCHANGED faults
       \/ /\ Chunks > 1 /\ request' = [pc |-> "checkpoint"]
          /\ UNCHANGED <<requests, faults>>
    /\ UNCHANGED <<file, cp, waiting, ending, stored, typed, foreign, exited>>

SetCheckpoint ==
    /\ ~ exited /\ request.pc = "checkpoint"
    /\ cp' = cp \cup {"genesis"}
    /\ request' = [pc |-> "create"]
    /\ UNCHANGED <<file, requests, waiting, ending, stored, typed, foreign, exited, faults, budget>>

(* mutant: the job of the contracts is created together with the others    *)
CreateJobsAll == Jobs

CreateJobs == Jobs \ {"contract"}

RequestEnds ==
    /\ ~ exited /\ request.pc = "create"
    /\ waiting' = waiting \cup CreateJobs
    /\ request' = Idle
    /\ UNCHANGED <<file, requests, cp, ending, stored, typed, foreign, exited, faults, budget>>
-----------------------------------------------------------------------------
(* readStreamGenesis: a file that is not one whole document is an error.   *)
ReadStreamGenesis == file = [k \in 1 .. Chunks |-> k]

CheckGenesisJobProcess(j) == "genesis" \in cp /\ j \notin cp

(* A job stores its part and its checkpoint, or nothing: accounts are left *)
(* out if the table is not empty.                                          *)
Store(j, times) ==
    /\ ~ exited /\ j \in waiting \ ending
    /\ CheckGenesisJobProcess(j) /\ ReadStreamGenesis
    /\ stored' = [stored EXCEPT ![j] = times]
    /\ cp' = cp \cup {j}
    /\ ending' = ending \cup {j}
    /\ UNCHANGED <<file, request, requests, waiting, foreign, exited, faults, budget>>

CrawlGenesisAccounts ==
    /\ Store("account", IF foreign THEN 0 ELSE stored["account"] + 1)
    /\ UNCHANGED typed

(* crawlGenesisValidators and crawlGenesisProposals: upserts.              *)
CrawlGenesisUpserts ==
    /\ \E j \in {"validator", "proposal"} : Store(j, 1)
    /\ UNCHANGED typed

(* The upsert of the codes sets their type to null.                        *)
CrawlGenesisCodes == Store("code", 1) /\ typed' = FALSE

(* The types are patched in the rows of the codes that are there.          *)
CrawlGenesisContracts ==
    /\ Store("contract", stored["contract"] + 1)
    /\ typed' = (stored["code"] > 0)

(* Plain insertions.                                                       *)
CrawlGenesisFeeGrants == Store("feegrant", stored["feegrant"] + 1) /\ UNCHANGED typed
CrawlGenesisIbcTao == Store("ibc", stored["ibc"] + 1) /\ UNCHANGED typed

(* After the commit, or at once when the checkpoint was there before: only *)
(* the codes' job then goes on, creates the contracts' job and terminates. *)
JobEnds(j) ==
    /\ ~ exited /\ j \in waiting /\ (j \in ending \/ j \in cp)
    /\ waiting' = (waiting \ {j}) \cup (IF j = "code" THEN {"contract"} ELSE {})
    /\ ending' = ending \ {j}
    /\ exited' = ((j \in ending \/ j = "code") /\ TerminateProcess(cp))
    /\ UNCHANGED <<file, request, requests, cp, stored, typed, foreign, faults, budget>>

(* A job that throws until its attempts are used up: on a broken file      *)
(* always, otherwise after a long failure.                                 *)
JobFails(j) ==
    /\ ~ exited /\ j \in waiting \ ending /\ CheckGenesisJobProcess(j)
    /\ \/ ReadStreamGenesis /\ Spend
       \/ ~ ReadStreamGenesis /\ UNCHANGED budget
    /\ waiting' = waiting \ {j}
    /\ faults' = faults \cup {"attempts"}
    /\ UNCHANGED <<file, request, requests, cp, ending, stored, typed, foreign, exited>>
-----------------------------------------------------------------------------
(* The process dies and starts again, which creates another CRAWL_GENESIS. *)
(* While it creates the jobs, some of them exist already.                  *)
Restart ==
    /\ ~ exited /\ Spend
    /\ requests' = requests + 1 + (IF request = Idle THEN 0 ELSE 1)
    /\ request' = Idle /\ ending' = {}
    /\ IF request.pc = "create"
       THEN \E made \in SUBSET CreateJobs :
               /\ waiting' = waiting \cup made
               /\ faults' = IF made = CreateJobs THEN faults ELSE faults \cup {"jobs"}
       ELSE /\ faults' = faults \ {"no request"}
            /\ UNCHANGED waiting
    /\ UNCHANGED <<file, cp, stored, typed, foreign, exited>>

(* Another service stores an account, as HANDLE_ADDRESS would.             *)
StoreAccount ==
    /\ ~ foreign /\ stored["account"] = 0 /\ Spend
    /\ foreign' = TRUE
    /\ UNCHANGED <<file, request, requests, cp, waiting, ending, stored, typed, exited, faults>>

Next ==
    \/ HandleGenesis \/ AppendChunk \/ RequestFails \/ SetCheckpoint \/ RequestEnds
    \/ CrawlGenesisAccounts \/ CrawlGenesisUpserts \/ CrawlGenesisCodes
    \/ CrawlGenesisContracts \/ CrawlGenesisFeeGrants \/ CrawlGenesisIbcTao
    \/ \E j \in Jobs : JobEnds(j) \/ JobFails(j)
    \/ Restart \/ StoreAccount

Spec == Init /\ [][Next]_vars
-----------------------------------------------------------------------------
(* Properties                                                              *)

(* When the process exits, every part of the genesis file is stored, once, *)
(* and the codes have their types; but for the accounts, which are left    *)
(* out if there was one before.  Until then a job waits or runs, so that   *)
(* the load never stops halfway, wherever the process died; except when    *)
(* the node failed at the first request, the process died before all jobs  *)
(* were created, or a job used up its attempts.  It does so on the broken  *)
(* file that a failure or a death during the download leaves (the rest is  *)
(* taken for the end, or the file gets its text twice).                    *)
GenesisLoaded ==
    /\ \A j \in Jobs : stored[j] <= 1
    /\ exited =>
          /\ \A j \in Jobs : stored[j] = 1 \/ (j = "account" /\ foreign)
          /\ typed
    /\ ~ exited /\ faults = {} => requests > 0 \/ request # Idle \/ waiting # {}
=============================================================================
