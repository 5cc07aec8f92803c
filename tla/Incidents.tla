----------------------------- MODULE Incidents -----------------------------
(***************************************************************************)
(* Plans to resolve incidents (service/core/src/incidents.ts).  The plan   *)
(* that a user has acknowledged is named by its id alone, so the id has to *)
(* bind what will be done.                                                 *)
(*                                                                         *)
(* An incident has an id, a type, a message, details (the values of the    *)
(* keys that may name a failed delivery, in their order) and the state     *)
(* that the server read: the snapshot of the delivery, and whether the     *)
(* item is gone.  The hash of a text stands for the text: collisions of    *)
(* its 32 bits are left out.                                               *)
(***************************************************************************)
EXTENDS Subject, Sequences, FiniteSets, SequencesExt

CONSTANTS None,
          Deliveries   \* the values that are ids of failed deliveries

LegacyMessages == {"could not be resolved", "is unavailable"}

(* isSourceUnavailableIncident                                              *)
IsSourceUnavailable(i) == i.type = "SourceUnavailable" \/ i.message \in LegacyMessages

(* sourceUnavailableDeliveryId: the first key that holds one.               *)
DeliveryId(i) ==
  LET named == {k \in DOMAIN i.details : i.details[k] \in Deliveries}
  IN IF named = {} THEN None ELSE i.details[CHOOSE k \in named : \A j \in named : k <= j]

(* manualReason                                                             *)
ManualReason(i) ==
  CASE IsSourceUnavailable(i) ->
         IF DeliveryId(i) = None THEN "missing_details" ELSE "verification_required"
    [] ~IsSourceUnavailable(i) /\ i.type = "SchemaIncompatible" -> "schema_conflict"
    [] ~IsSourceUnavailable(i) /\ i.type = "FilterInvalid" -> "invalid_filter"
    [] ~IsSourceUnavailable(i) /\ i.type \in {"ItemValidationError", "SyncError"} -> "external_correction"
    [] ~IsSourceUnavailable(i) /\ i.type = "SourceRepairFailure" -> "verification_required"
    [] OTHER -> "unsupported_incident_type"

(* The key of the action an incident calls for, from which its id is made;  *)
(* None when it needs a person.  A faulty variant leaves the snapshot out.  *)
DeliveryKey(i) ==
  IF IsSourceUnavailable(i) /\ i.obsolete THEN <<"close", i.id>>
  ELSE IF IsSourceUnavailable(i) /\ DeliveryId(i) # None THEN <<"redeliver", DeliveryId(i)>>
  ELSE None
ActionKey(i) ==
  IF IsSourceUnavailable(i) /\ i.obsolete THEN <<"close", i.id>>
  ELSE IF IsSourceUnavailable(i) /\ DeliveryId(i) # None
       THEN <<"redeliver", DeliveryId(i), i.snapshot>>
  ELSE None

Operation(i) ==
  IF i.obsolete THEN [kind |-> "close", incident |-> i.id]
  ELSE [kind |-> "redeliver", delivery |-> DeliveryId(i), snapshot |-> i.snapshot]

(* planIncidentResolution: an action is made for the first incident of its  *)
(* key; the others join it.                                                 *)
Joined(actions, i) ==
  LET key == ActionKey(i)
      same == {k \in DOMAIN actions : actions[k].key = key}
  IN IF key = None THEN actions
     ELSE IF same = {} THEN Append(actions, [key |-> key, incidents |-> {i.id},
                                             operation |-> Operation(i)])
     ELSE [k \in DOMAIN actions |->
             IF k \in same THEN [actions[k] EXCEPT !.incidents = @ \cup {i.id}] ELSE actions[k]]

Plan(incidents) ==
  LET actions == FoldLeft(Joined, <<>>, incidents)
      byHand == SelectSeq(incidents, LAMBDA i : ActionKey(i) = None)
      ids == {incidents[k].id : k \in DOMAIN incidents}
  IN [id |-> [incidents |-> ids, actions |-> {actions[k].key : k \in DOMAIN actions}],
      actions |-> Range(actions),
      manual |-> [k \in DOMAIN byHand |-> [incident |-> byHand[k].id, reason |-> ManualReason(byHand[k])]]]

-----------------------------------------------------------------------------
(* Every incident is in exactly one action or item to do by hand; a failed  *)
(* delivery is redelivered once for each of its snapshots and never for an  *)
(* item that is gone, whatever the order of the incidents.                  *)
PlanIsComplete(incidents) ==
  LET plan == Plan(incidents)
      Of(a) == {k \in DOMAIN incidents : incidents[k].id \in a.incidents}
      redelivered == {a.operation : a \in {b \in plan.actions : b.operation.kind = "redeliver"}}
  IN /\ \A k \in DOMAIN incidents :
          Cardinality({a \in plan.actions : incidents[k].id \in a.incidents})
            + Cardinality({j \in DOMAIN plan.manual : plan.manual[j].incident = incidents[k].id}) = 1
     /\ \A a \in plan.actions : \A k \in Of(a) :
          IF a.operation.kind = "close" THEN incidents[k].obsolete
          ELSE /\ ~incidents[k].obsolete
               /\ DeliveryId(incidents[k]) = a.operation.delivery
               /\ incidents[k].snapshot = a.operation.snapshot
     /\ Cardinality(redelivered)
          = Cardinality({a \in plan.actions : a.operation.kind = "redeliver"})
     /\ Plan(Reverse(incidents)).actions = plan.actions
     /\ Plan(Reverse(incidents)).id = plan.id

(* Two plans of the same id, made at different times of incidents whose     *)
(* state may have changed, do the same.                                     *)
PlanIdBinds(before, after) ==
  Plan(before).id = Plan(after).id =>
    {a.operation : a \in Plan(before).actions} = {a.operation : a \in Plan(after).actions}
=============================================================================
