--------------------------- MODULE MCCacheBackend ---------------------------
(***************************************************************************)
(* A small instance of CacheBackend: the files of MCFsCache, and one       *)
(* caller of each kind on Redis.                                           *)
(***************************************************************************)
EXTENDS CacheBackend, MCFsCache
=============================================================================
