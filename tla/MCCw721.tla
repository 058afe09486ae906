------------------------------ MODULE MCCw721 -------------------------------
(* Two tokens and two owners: t is minted, moved and burned, u is minted.  *)
(* In the scope "media" a behaviour is about the media of NFTs instead,    *)
(* and the contract stays as it is.                                        *)
EXTENDS Cw721

CONSTANTS
    Nft,        \* the tokens with media
    MaxId,      \* the ids of their rows
    Incidents   \* deaths of the process and failures of jobs

VARIABLES
    scope, standard, seq, mediaRows, open, mediaCp, batch, queue, failed, bucket, excused, budget

mediaVars == <<standard, seq, mediaRows, open, mediaCp, batch, queue, failed, bucket, excused, budget>>
mcVars == <<scope, vars, mediaVars>>

Media == INSTANCE Media WITH
    Token <- Nft, MediaPerBatch <- 2, rows <- mediaRows, cp <- mediaCp

Move(t, f, o) == [token |-> t, from |-> f, to |-> o]

SomeBlocks ==
    {<<Move("t", None, "ann")>>, <<Move("t", "ann", "bob")>>, <<Move("t", "bob", None)>>,
     <<Move("u", None, "ann")>>, <<Move("t", None, "ann"), Move("t", "ann", "bob")>>}
-----------------------------------------------------------------------------
MCInit ==
    /\ Init /\ Media!Init
    /\ scope \in {"contract", "media"} /\ (scope = "contract" => standard = "cw721")

MCNext ==
    \/ scope = "contract" /\ Next /\ UNCHANGED <<scope, mediaVars>>
    \/ scope = "media" /\ Media!Next /\ UNCHANGED <<scope, vars>>

MCSpec == MCInit /\ [][MCNext]_mcVars

(* FILTER_TOKEN_MEDIA_UNPROCESS and HANDLE_ERC721_MEDIA pass over no token *)
(* without a job for its media, but for the named cases.                   *)
MediaHandled == Media!MediaHandled
=============================================================================
