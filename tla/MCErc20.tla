------------------------------ MODULE MCErc20 -------------------------------
(* Two accounts that own nothing before the first event.  In the scope     *)
(* "codes" a behaviour is about the verification of two contracts with the *)
(* same code instead, and the token stays as it is.                        *)
EXTENDS Erc20

CONSTANTS
    Rows,       \* the contracts that a request verifies
    Failures    \* failures of jobs and deaths of the process, in the scope "codes"

VARIABLES
    scope, contracts, announced, verified, jobs, run, matches, height, sync,
    unsignalled, signatures, mapped, excused, failures

codesVars == <<contracts, announced, verified, jobs, run, matches, height, sync,
               unsignalled, signatures, mapped, excused, failures>>
mcVars == <<scope, vars, codesVars>>

SameCode == [c \in {"c1", "c2"} |-> "code"]
SomeMatches ==
    <<[contract |-> "c1", good |-> TRUE, exact |-> TRUE],
      [contract |-> "c2", good |-> FALSE, exact |-> TRUE]>>
Codes == INSTANCE VerifiedCodes WITH
    Contract <- {"c1", "c2"}, CodeOf <- SameCode, Published <- SomeMatches,
    LimitRecordGet <- 1, RecordsPerCall <- 2, MaxRows <- Rows, rows <- verified

Move(f, t) == [from |-> f, to |-> t]

Nothing == [a \in Addr |-> 0]

SomeBlocks ==
    {<<Move(None, "ann")>>, <<Move(None, "ann"), Move("ann", "bob")>>, <<Move("bob", None)>>}
-----------------------------------------------------------------------------
MCInit ==
    /\ Init /\ Codes!Init
    /\ scope \in {"token", "codes"} /\ (scope = "codes" => kind = "erc20")

MCNext ==
    \/ scope = "token" /\ Next /\ UNCHANGED <<scope, codesVars>>
    \/ scope = "codes" /\ Codes!Next /\ UNCHANGED <<scope, vars>>

MCSpec == MCInit /\ [][MCNext]_mcVars

(* INSERT_VERIFY_BY_CODEHASH, SYNC_SOURCIFY and the jobs of the signatures *)
(* lose no contract, match or ABI and repeat none, but for the named       *)
(* cases.                                                                  *)
VerifiedCodesComplete == Codes!VerifiedCodesComplete
=============================================================================
