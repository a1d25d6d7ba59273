------------------------------ MODULE MCFsCache ------------------------------
(***************************************************************************)
(* Small instances of FsCache for TLC: file 'small' fits in the cache      *)
(* twice, file 'big' is larger than the whole cache.                       *)
(***************************************************************************)
EXTENDS FsCache, TLC

CONSTANTS small, big

MCValue == {small, big}
MCLen   == small :> 1 @@ big :> 3
MCLenOne == small :> 1
=============================================================================
