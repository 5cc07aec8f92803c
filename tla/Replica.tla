------------------------------ MODULE Replica ------------------------------
(***************************************************************************)
(* What synchronisation promises, without connections, payloads, patches   *)
(* or snapshots: a replica of upstream versions, and the set of items that *)
(* are settled.  Only an item that is not settled may differ from upstream *)
(* or change in the replica, and an item is settled only when it agrees.   *)
(***************************************************************************)
CONSTANTS Keys, ItemVersions

VARIABLES upstream, replica, settled

replicaVars == <<upstream, replica, settled>>

Contents == [Keys -> ItemVersions]

Init ==
  /\ upstream \in Contents /\ replica \in Contents
  /\ settled \in SUBSET {k \in Keys : replica[k] = upstream[k]}

(* Upstream changes an item, which is no longer settled.                   *)
Change(k) ==
  /\ \E item \in ItemVersions : upstream' = [upstream EXCEPT ![k] = item]
  /\ settled' = settled \ {k}
  /\ UNCHANGED replica

(* Items are to be delivered again: on request, for a snapshot, or because *)
(* what was delivered is no longer known.                                  *)
Owe ==
  /\ settled' \in SUBSET settled
  /\ UNCHANGED <<upstream, replica>>

(* The replica takes steps towards upstream, on items not settled.         *)
Apply ==
  /\ replica' \in Contents
  /\ \A k \in settled : replica'[k] = replica[k]
  /\ UNCHANGED <<upstream, settled>>

(* Items the replica has are settled.                                      *)
Settle ==
  /\ settled \subseteq settled'
  /\ settled' \in SUBSET Keys
  /\ \A k \in settled' \ settled : replica[k] = upstream[k]
  /\ UNCHANGED <<upstream, replica>>

Next == (\E k \in Keys : Change(k)) \/ Owe \/ Apply \/ Settle

Spec == Init /\ [][Next]_replicaVars
=============================================================================
