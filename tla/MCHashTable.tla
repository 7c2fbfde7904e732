---------------------------- MODULE MCHashTable -----------------------------
(* An instance of HashTable for TLC: more hashes than slots. *)
EXTENDS HashTable
=============================================================================
