---- MODULE MCCacheLayer ----
(* Three requests that reach the layer together, an application with one cache. *)
EXTENDS CacheLayer, TLC

Symmetric == Permutations(Requests)
====
