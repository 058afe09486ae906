---------------------------- MODULE Verification ----------------------------
(***************************************************************************)
(* VERIFY_CONTRACT_EVM: requests to verify a contract wait in a table with *)
(* the files that were uploaded; the job takes the oldest, looks for the   *)
(* metadata and the sources in the files, compiles them with a compiler    *)
(* that it keeps on disk, compares the result with the deployed code and   *)
(* stores its verdicts in one transaction at the end.                      *)
(*                                                                         *)
(* An upload is a record:                                                  *)
(*   kind     "zip", "json" or "other"                                     *)
(*   files    its files: a source is [kind, hash]; a metadata file is      *)
(*            [kind, targets, deployed, sources], where deployed says      *)
(*            whether the contract was built from it, and a source of it   *)
(*            is [hash, content] with content "none", "right" or "wrong";  *)
(*            the output of Hardhat is [kind, metadata, hashes]            *)
(*   nightly  whether only the JavaScript compiler exists for its version  *)
(***************************************************************************)
EXTENDS Naturals, Sequences, FiniteSets

CONSTANTS
    Uploads,        \* the uploads that requests come with
    MaxRequests,    \* the requests of a behaviour
    RecordsPerCall, \* the requests that one run of the job takes
    Deaths          \* the deaths of the process in a behaviour

VARIABLES
    requests,   \* the table, by id
    listRequestVerify, \* the ids that the running job still has to look at
    listPromise,       \* the updates that it will make: [id, status]
    solc,       \* the compiler for the platform on disk: "absent", "cut" or "whole"
    soljson,    \* the one in JavaScript
    hindered,   \* requests that were last tried without network or compiler
    died        \* the deaths so far

vars == <<requests, listRequestVerify, listPromise, solc, soljson, hindered, died>>
-----------------------------------------------------------------------------
(* The files of an upload, sorted out.  A metadata file with several       *)
(* targets, or none, spoils the whole upload; that of Hardhat is not       *)
(* looked at.                                                              *)
Malformed(file) == file.kind = "metadata" /\ file.targets # 1
MetadataIn(file) ==
    CASE file.kind = "hardhat" -> file.metadata
      [] file.kind = "metadata" -> {file}
      [] OTHER -> {}
HashesIn(file) ==
    CASE file.kind = "hardhat" -> file.hashes
      [] file.kind = "source" -> {file.hash}
      [] OTHER -> {}

Metadata(u) == UNION {MetadataIn(u.files[i]) : i \in DOMAIN u.files}
ByHash(u) == UNION {HashesIn(u.files[i]) : i \in DOMAIN u.files}
SplitFilesThrows(u) ==
    \/ \E i \in DOMAIN u.files : Malformed(u.files[i])
    \/ Metadata(u) = {}

(* A source is found in the metadata or among the files, or missing; one   *)
(* in the metadata must have the hash that is given there.                 *)
InvalidSources(m) == {i \in DOMAIN m.sources : m.sources[i].content = "wrong"}
MissingSources(m, hashes) ==
    {i \in DOMAIN m.sources : m.sources[i].content = "none" /\ m.sources[i].hash \notin hashes}

(* Missing sources may be fetched from the network.                        *)
IsVerifiable(m, hashes, fetched) ==
    InvalidSources(m) = {} /\ (MissingSources(m, hashes) = {} \/ fetched)
-----------------------------------------------------------------------------
(* mutant: the file is taken as it is                                      *)
HasSolcUnchecked == solc # "absent"

(* The binary on disk is used when it can be run, else downloaded again.   *)
HasSolc == solc = "whole"

(* What a compilation does: with the binary, or with the JavaScript one    *)
(* when there is none for the version or the server refuses it.  The       *)
(* latter is used if it is there at all.  A request that gets no answer    *)
(* throws.                                                                 *)
UsesSolc(nightly, net) == ~ nightly /\ (HasSolc \/ net = "answers")
UsesSolJson(nightly, net) == (nightly \/ net = "refuses") /\ ~ UsesSolc(nightly, net)
Compiles(nightly, net) ==
    \/ UsesSolc(nightly, net) /\ (HasSolc => solc = "whole")
    \/ UsesSolJson(nightly, net) /\ (soljson = "whole" \/ (soljson = "absent" /\ net = "answers"))

(* The contracts of an upload that are compiled, and whether one of them   *)
(* matches the deployed code; the first that does is taken.  The node is   *)
(* asked as well.                                                          *)
Compiled(u, fetched) == {m \in Metadata(u) : IsVerifiable(m, ByHash(u), fetched)}
Matches(u, net, fetched) ==
    /\ net # "down" /\ Compiles(u.nightly, net)
    /\ \E m \in Compiled(u, fetched) : m.deployed

IsZipOrJson(u) == u.kind \in {"zip", "json"}
Succeeds(u, net, fetched) ==
    IsZipOrJson(u) /\ ~ SplitFilesThrows(u) /\ Matches(u, net, fetched)
-----------------------------------------------------------------------------
Init ==
    /\ requests = <<>> /\ listRequestVerify = {} /\ listPromise = {}
    /\ solc = "absent" /\ soljson = "absent" /\ hindered = {} /\ died = 0

(* The gateway stores a request.                                           *)
InputRequestVerify ==
    /\ Len(requests) < MaxRequests
    /\ \E u \in Uploads : requests' = Append(requests, [upload |-> u, status |-> "PENDING"])
    /\ UNCHANGED <<listRequestVerify, listPromise, solc, soljson, hindered, died>>

(* The job takes the oldest requests that are pending.                     *)
Pending == {id \in DOMAIN requests : requests[id].status = "PENDING"}
Taken == {id \in Pending : Cardinality({i \in Pending : i < id}) < RecordsPerCall}
VerifyContractEVM ==
    /\ listRequestVerify = {} /\ listPromise = {}
    /\ Taken # {} /\ listRequestVerify' = Taken
    /\ UNCHANGED <<requests, listPromise, solc, soljson, hindered, died>>

(* mutant: only an error counts as a failure                               *)
FailsOnError(u) == listPromise = {} /\ (~ IsZipOrJson(u) \/ SplitFilesThrows(u))

(* A request without a match is a failure only when no update is waiting:  *)
(* the list is that of the whole run.  Another one stays as it is.         *)
Fails(u) == listPromise = {}

(* What a request adds to the list.                                        *)
Promise(id, u, net, fetched) ==
    IF Succeeds(u, net, fetched) THEN {[id |-> id, status |-> "SUCCESS"]}
    ELSE IF Fails(u) THEN {[id |-> id, status |-> "FAIL"]} ELSE {}

(* The next request of the run, with all its contracts.                    *)
VerifyRequest(net, fetched) ==
    /\ fetched => net # "down"
    /\ \E id \in listRequestVerify :
          LET u == requests[id].upload
              looked == IsZipOrJson(u) /\ ~ SplitFilesThrows(u)
              compiled == looked /\ net # "down" /\ Compiled(u, fetched) # {}
          IN  /\ \A i \in listRequestVerify : id <= i
              /\ listRequestVerify' = listRequestVerify \ {id}
              /\ listPromise' = listPromise \cup Promise(id, u, net, fetched)
              /\ solc' = IF compiled /\ ~ u.nightly /\ ~ HasSolc /\ net = "answers" THEN "whole" ELSE solc
              /\ soljson' = IF compiled /\ u.nightly /\ soljson = "absent" /\ net = "answers"
                            THEN "whole" ELSE soljson
              /\ hindered' = IF net # "answers" \/ (u.nightly /\ soljson = "cut")
                             THEN hindered \cup {id} ELSE hindered \ {id}
    /\ UNCHANGED <<requests, died>>

StatusAfter(id) ==
    IF \E p \in listPromise : p.id = id
    THEN (CHOOSE p \in listPromise : p.id = id).status ELSE requests[id].status

(* The updates of the run, in one transaction.                             *)
CommitVerification ==
    /\ listRequestVerify = {} /\ listPromise # {}
    /\ requests' = [id \in DOMAIN requests |-> [requests[id] EXCEPT !.status = StatusAfter(id)]]
    /\ listPromise' = {}
    /\ UNCHANGED <<listRequestVerify, solc, soljson, hindered, died>>

(* The process dies, perhaps while it writes a compiler to disk: what was  *)
(* there has been removed by then.                                         *)
Dies ==
    /\ died < Deaths /\ died' = died + 1
    /\ listRequestVerify # {} \/ listPromise # {}
    /\ listRequestVerify' = {} /\ listPromise' = {}
    /\ \/ UNCHANGED <<solc, soljson>>
       \/ solc # "whole" /\ solc' \in {"absent", "cut"} /\ UNCHANGED soljson
       \/ soljson = "absent" /\ soljson' = "cut" /\ UNCHANGED solc
    /\ UNCHANGED <<requests, hindered>>

VerifyNext ==
    \E net \in {"answers", "refuses", "down"}, fetched \in BOOLEAN : VerifyRequest(net, fetched)

Next ==
    \/ InputRequestVerify \/ VerifyContractEVM
    \/ VerifyNext \/ CommitVerification \/ Dies

(* The job is repeated, and a run goes on until it ends.                   *)
Job == VerifyContractEVM \/ VerifyNext \/ CommitVerification

Spec == Init /\ [][Next]_vars /\ WF_vars(Job)
-----------------------------------------------------------------------------
(* The uploads have the form that is given above.                          *)
UploadsTyped ==
    \A u \in Uploads :
        /\ u.kind \in {"zip", "json", "other"} /\ u.nightly \in BOOLEAN
        /\ \A i \in DOMAIN u.files : \A m \in MetadataIn(u.files[i]) :
              \A j \in DOMAIN m.sources : m.sources[j].content \in {"none", "right", "wrong"}

(* What an upload should lead to, said without the loops of the code: it   *)
(* has the metadata of the deployed contract, no metadata file in it is    *)
(* malformed, and every source of that metadata is in the upload (or in    *)
(* the network) with the right hash.                                       *)
Given(u, network) ==
    /\ u.kind # "other" /\ \A i \in DOMAIN u.files : ~ Malformed(u.files[i])
    /\ \E i \in DOMAIN u.files :
          \E m \in MetadataIn(u.files[i]) :
             m.deployed /\ \A j \in DOMAIN m.sources :
                \/ m.sources[j].content = "right"
                \/ /\ m.sources[j].content = "none"
                   /\ network \/ \E k \in DOMAIN u.files : m.sources[j].hash \in HashesIn(u.files[k])

(* A verdict of VERIFY_CONTRACT_EVM is right: a success has its sources,   *)
(* and a failure lacks them, unless the network failed while it was tried  *)
(* or the JavaScript compiler on disk was cut by an earlier death of the   *)
(* process, which nothing repairs.  The binary is repaired.                *)
VerdictsRight ==
    \A id \in DOMAIN requests :
        /\ requests[id].status = "SUCCESS" => Given(requests[id].upload, TRUE)
        /\ requests[id].status = "FAIL" => id \in hindered \/ ~ Given(requests[id].upload, FALSE)

(* Every request gets a verdict in the end, although a run leaves the ones *)
(* without a match pending once it has anything else to store: the oldest  *)
(* request of a run always gets one.                                       *)
RequestsDecided ==
    \A id \in 1 .. MaxRequests :
        (id \in DOMAIN requests) ~> (id \in DOMAIN requests /\ requests[id].status # "PENDING")
=============================================================================
