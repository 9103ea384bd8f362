----------------------------- MODULE MCCacheKV -----------------------------
(* An instance of CacheKV: values are interchangeable.                     *)
EXTENDS CacheKV, TLC

Perms == Permutations(Values)
=============================================================================
