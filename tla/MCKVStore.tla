----------------------------- MODULE MCKVStore -----------------------------
(* Three replicas, two contents, stamps handed out in any order. *)
EXTENDS KVStore
CONSTANTS n1, n2, n3
=============================================================================
