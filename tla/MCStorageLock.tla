---------------------------- MODULE MCStorageLock ----------------------------
(* Instances of StorageLock for TLC: every assignment of calls to loops is an
   initial state. *)
EXTENDS StorageLock

=============================================================================
