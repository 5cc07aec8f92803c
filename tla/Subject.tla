------------------------------ MODULE Subject ------------------------------
(***************************************************************************)
(* The modules of pure rules (Filters, Queries, ...) are checked case by   *)
(* case: one step chooses a case of some kind and the invariants compare,  *)
(* for that case, what the code computes with what it should.              *)
(***************************************************************************)
EXTENDS Naturals

VARIABLE subject

Nothing == [kind |-> "none"]

Choose(kind, cases) ==
  subject = Nothing /\ \E c \in cases : subject' = [kind |-> kind, case |-> c]

Is(kind) == subject.kind = kind
=============================================================================
