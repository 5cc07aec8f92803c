---------------------------- MODULE MCSyncStream ----------------------------
(* Small instances of SyncStream for TLC.                                   *)
EXTENDS SyncStream

(* Every item is there, with every property.                                *)
AllPresent == {[k \in Keys |-> [p \in Props |-> CHOOSE v \in Values : TRUE]]}
=============================================================================
