------------------------------- MODULE Sanity -------------------------------
(***************************************************************************)
(* What a Sanity Studio's schema becomes (plugins/sanity): each field of a *)
(* document gets one property type or none, a reference the collections it *)
(* leads to, and whatever is lost on the way is told in diagnostics.       *)
(*                                                                         *)
(* A definition is a record of what it sets; a field's type is built in or *)
(* the name of another definition.  Of a validation callback the rules it  *)
(* calls count, and how it ends.  A path has "[]" for a member of an array.*)
(* An array that contains itself without an object in between, which       *)
(* Sanity does not take, is not among the schemas: the code, like this      *)
(* module, would not come back from it.                                    *)
(***************************************************************************)
EXTENDS Integers, Sequences, SequencesExt, FiniteSets, Functions, TLC

CONSTANT None

Texts == {"string", "text", "slug", "url", "email"}
References == {"reference", "crossDatasetReference", "globalDocumentReference"}
BuiltIn == Texts \cup References
  \cup {"number", "color", "boolean", "datetime", "date", "geopoint", "image", "file", "block",
        "object", "array"}

Get(f, key) == IF key \in DOMAIN f THEN f[key] ELSE None
Listed(f, key) == IF Get(f, key) = None THEN <<>> ELSE f[key]
IsFieldDefinition(member) == member # None

-----------------------------------------------------------------------------
(* A named type leads to its definition, whose settings the field overrides.*)

Unresolved(definitions) == [type |-> None, field |-> None, definitions |-> definitions]

RECURSIVE ResolveFieldType(_, _, _)
ResolveFieldType(field, types, visited) ==
  LET named == SelectSeq(types, LAMBDA d : d.name = field.type)
      next == named[1]
      merged == [type |-> next.type] @@ field @@ next
      resolved == ResolveFieldType(merged, types, visited \cup {field.type})
  IN CASE field.type \in BuiltIn -> [type |-> field.type, field |-> field, definitions |-> <<>>]
       [] field.type \notin BuiltIn /\ Len(named) # 1 -> Unresolved(<<>>)
       [] OTHER -> IF field.type \in visited \/ next.type \in {"document", None} THEN Unresolved(named)
                   ELSE [resolved EXCEPT !.definitions = named \o @]

Resolved(field, types) == ResolveFieldType(field, types, {})

-----------------------------------------------------------------------------
(* Validation: [calls, end], the rules that a callback calls and what it    *)
(* returns, or "opaque" for one that cannot be called.                      *)

Presence == {"required", "optional"}
Constraints == {"min", "max"}   \* and fourteen more that Contfu cannot express

(* Of one callback: whether it requires a value, whether that is certain,   *)
(* and the codes and rules to be told.                                      *)
InspectValidation(source, topLevel) ==
  LET run == IF Get(source, "validation") = None THEN [calls |-> <<>>, end |-> "nothing"]
             ELSE source.validation
      calls == Range(run.calls)
      conflict == Presence \subseteq calls
      unknown == calls \ (Presence \cup Constraints \cup {"custom"})
      certain == ~conflict /\ unknown = {} /\ run.end \in {"rule", "nothing"}
      lost == calls \cap (Constraints \cup IF topLevel THEN {} ELSE {"required"})
  IN [required |-> certain /\ "required" \in calls, certain |-> certain,
      said |-> {<<"unsupported_validation", c>> : c \in lost}
                 \cup {<<"custom_validation", c>> : c \in calls \cap {"custom"}}
                 \cup {<<"unevaluable_validation", c>> : c \in unknown}
                 \cup IF conflict \/ run.end \notin {"rule", "nothing"}
                      THEN {<<"unevaluable_validation", None>>} ELSE {}]

InspectEditorSemantics(source) ==
  {<<"unsupported_input_semantics", rule>> : rule \in IF Get(source, "editor") = None THEN {}
                                                      ELSE source.editor}

At(path, said) == {[path |-> path, code |-> s[1], rule |-> s[2]] : s \in said}

(* A field with its aliases, then the members and the nested fields, but no *)
(* object within itself.                                                    *)
RECURSIVE InspectField(_, _, _, _, _)
InspectField(field, types, path, topLevel, ancestry) ==
  LET resolved == Resolved(field, types)
      sources == {field} \cup Range(resolved.definitions)
      results == {InspectValidation(s, topLevel) : s \in sources}
      aliases == {d.name : d \in Range(resolved.definitions)}
      below == CASE resolved.type = "array" ->
                      {<<m, "[]">> : m \in {x \in Range(Listed(resolved.field, "of")) :
                                              IsFieldDefinition(x)}}
                 [] resolved.type = "object" /\ aliases \cap ancestry = {} ->
                      {<<n, n.name>> : n \in Range(Listed(resolved.field, "fields"))}
                 [] OTHER -> {}
  IN [required |-> (\E r \in results : r.required) /\ \A r \in results : r.certain,
      diagnostics |->
        At(path, IF resolved.type = None THEN {<<"unsupported_field_type", None>>} ELSE {})
        \cup UNION {At(path, r.said) : r \in results}
        \cup UNION {At(path, InspectEditorSemantics(s)) : s \in sources}
        \cup UNION {InspectField(b[1], types, Append(path, b[2]), FALSE, ancestry \cup aliases).diagnostics :
                      b \in below}]

-----------------------------------------------------------------------------
(* Types.                                                                   *)

NormalizeScalarType(type) ==
  CASE type \in Texts -> "STRING"
    [] type = "number" -> "NUMBER"
    [] type = "color" -> "COLOR"
    [] type = "boolean" -> "BOOLEAN"
    [] type = "datetime" -> "DATE"
    [] type = "date" -> "PLAINDATE"
    [] type = "geopoint" -> "GEOPOINT"
    [] type \in References -> "REF"
    [] type \in {"image", "file"} -> "FILE"
    [] type = "block" -> "BLOCK"
    [] type = "object" -> "OBJECT"
    [] OTHER -> None

(* A global reference must name a dataset: <<project, dataset>>.            *)
NormalizeResolvedScalarType(resolved) ==
  IF resolved.type = "globalDocumentReference" /\ Get(resolved.field, "resource") = None THEN None
  ELSE NormalizeScalarType(resolved.type)

ArrayTypes == ("STRING" :> "STRINGS") @@ ("NUMBER" :> "NUMBERS") @@ ("REF" :> "REFS")
              @@ ("FILE" :> "FILES") @@ ("BLOCK" :> "BLOCK") @@ ("OBJECT" :> "OBJECT")

MemberType(member, types) ==
  IF ~IsFieldDefinition(member) THEN None
  ELSE LET resolved == Resolved(member, types)
       IN IF resolved.type \in {None, "array"} THEN None
          ELSE Get(ArrayTypes, NormalizeResolvedScalarType(resolved))

(* A faulty variant passes over the members that have no type.              *)
CommonOfTyped(found) ==
  LET typed == found \ {None} IN
  IF typed = {} THEN None ELSE CHOOSE t \in typed : TRUE

(* Text blocks may be mixed with inline objects and images.                 *)
CommonType(found) ==
  CASE None \in found -> None
    [] "BLOCK" \in found /\ found \subseteq {"BLOCK", "OBJECT", "FILES"} -> "BLOCK"
    [] Cardinality(found) = 1 -> CHOOSE t \in found : TRUE
    [] OTHER -> None

NormalizeArrayType(of, types) == CommonType({MemberType(m, types) : m \in Range(of)})

ArrayDiagnostics(of, types, path) ==
  LET untyped == {m \in Range(of) : MemberType(m, types) = None}
      said(m) == IF ~IsFieldDefinition(m) THEN {<<"unsupported_field_type", None>>}
                 ELSE CASE Resolved(m, types).type = None -> {}   \* told by InspectField
                        [] Resolved(m, types).type = "globalDocumentReference" ->
                             {<<"unsupported_array_member", None>>, <<"unsupported_field_semantics", None>>}
                        [] OTHER -> {<<"unsupported_array_member", None>>}
  IN UNION {At(Append(path, "[]"), said(m)) : m \in untyped}
     \cup IF of = <<>> \/ (untyped = {} /\ NormalizeArrayType(of, types) = None)
          THEN At(path, {<<"ambiguous_array_members", None>>}) ELSE {}

(* A document's field: [types, diagnostics], without a type if it is left   *)
(* out, and OPTIONAL unless a callback certainly requires it.               *)
NormalizeFieldType(field, types) ==
  LET path == <<field.name>>
      inspected == InspectField(field, types, path, TRUE, {})
      resolved == Resolved(field, types)
      of == Listed(resolved.field, "of")
      type == CASE resolved.type = None -> None
                [] resolved.type = "array" -> NormalizeArrayType(of, types)
                [] OTHER -> NormalizeResolvedScalarType(resolved)
      more == CASE resolved.type = None -> {}
                [] resolved.type = "array" -> ArrayDiagnostics(of, types, path)
                [] OTHER -> IF type = None
                            THEN At(path, {<<"unsupported_field_semantics", None>>}) ELSE {}
  IN [types |-> IF type = None THEN {} ELSE {type} \cup IF inspected.required THEN {} ELSE {"OPTIONAL"},
      diagnostics |-> inspected.diagnostics \cup more]

-----------------------------------------------------------------------------
(* Where references lead.  A part that is None is the source's own.         *)

EncodeRefTarget(connection, scope, collection) ==
  [connection |-> connection, scope |-> scope, collection |-> collection]

RECURSIVE ReferenceTargets(_, _, _, _)
ReferenceTargets(field, types, dataset, project) ==
  LET resolved == Resolved(field, types)
      f == resolved.field
      global == IF resolved.type = "globalDocumentReference" THEN Get(f, "resource") ELSE None
      connection == IF global # None THEN global[1] ELSE Get(f, "project")
      scope == IF global # None THEN global[2]
               ELSE IF Get(f, "dataset") # None THEN f.dataset ELSE dataset
      foreign == connection \notin {None, project}
  IN CASE resolved.type = "array" ->
            UNION {ReferenceTargets(m, types, dataset, project) :
                     m \in {x \in Range(Listed(f, "of")) : IsFieldDefinition(x)}}
       [] resolved.type \in References ->
            {EncodeRefTarget(IF foreign THEN connection ELSE None,
                             IF foreign \/ scope # dataset THEN scope ELSE None, c) :
               c \in Range(Listed(f, "to"))}
       [] OTHER -> {}

(* For a document, per field: what the schema says and where it leads.      *)
BuildSchema(document, types, dataset, project) ==
  [name \in {f.name : f \in Range(document.fields)} |->
     LET field == CHOOSE f \in Range(document.fields) : f.name = name
         normalized == NormalizeFieldType(field, types)
     IN [types |-> normalized.types, diagnostics |-> normalized.diagnostics,
         targets |-> IF normalized.types = {} THEN {}
                     ELSE ReferenceTargets(field, types, dataset, project)]]

-----------------------------------------------------------------------------
(* What the schema should be.                                               *)

(* The values of a field: alone or in a list, and of which built-in type.   *)
ValuesOf(field, types) ==
  LET resolved == Resolved(field, types)
  IN IF resolved.type # "array" THEN {<<"one", resolved.type>>}
     ELSE {<<"list", IF IsFieldDefinition(m) THEN Resolved(m, types).type ELSE None>> :
             m \in Range(Listed(resolved.field, "of"))}

(* What a property of a type can hold.                                      *)
Holds(type) ==
  LET kinds == [STRING |-> Texts, NUMBER |-> {"number"}, REF |-> References,
                FILE |-> {"image", "file"}]
      plural == [STRINGS |-> "STRING", NUMBERS |-> "NUMBER", REFS |-> "REF", FILES |-> "FILE"]
  IN CASE type \in DOMAIN kinds -> {"one"} \X kinds[type]
       [] type \in DOMAIN plural -> {"list"} \X kinds[plural[type]]
       [] type = "BLOCK" -> ({"one", "list"} \X {"block"}) \cup ({"list"} \X {"object", "image", "file"})
       [] type = "OBJECT" -> {"one", "list"} \X {"object"}
       [] OTHER -> {"one"} \X {k \in BuiltIn : NormalizeScalarType(k) = type}

(* Every definition below a field.                                          *)
RECURSIVE Below(_, _)
Below(fields, types) ==
  LET parts(f) == LET resolved == Resolved(f, types) IN
                  Range(resolved.definitions) \cup
                  IF resolved.type = None THEN {}
                  ELSE (Range(Listed(resolved.field, "of")) \cup Range(Listed(resolved.field, "fields")))
                         \ {None}
      more == fields \cup UNION {parts(f) : f \in fields}
  IN IF more = fields THEN fields ELSE Below(more, types)

(* Where a reference leads, by its declaration; and where a target leads    *)
(* for a service that knows the source: in another project it names both.   *)
Destinations(field, types, dataset, project) ==
  LET f == Resolved(field, types).field
      own(key, x) == IF Get(f, key) = None THEN x ELSE f[key]
      place == IF Get(f, "resource") # None THEN f.resource
               ELSE <<own("project", project), own("dataset", dataset)>>
  IN {<<place, c>> : c \in Range(Listed(f, "to"))}
LeadsTo(target, dataset, project) ==
  <<<<IF target.connection = None THEN project ELSE target.connection,
      IF target.connection = None /\ target.scope = None THEN dataset ELSE target.scope>>,
    target.collection>>

(* Each field of a document has the type of its values, or a diagnostic     *)
(* says why it has none; it is required only if a callback certainly says   *)
(* so; its targets are where its references lead; and every rule below it    *)
(* that Contfu does not keep is told.                                        *)
SchemaIsTrue(document, types, dataset, project) ==
  \A field \in Range(document.fields) :
    LET built == BuildSchema(document, types, dataset, project)[field.name]
        resolved == Resolved(field, types)
        runs == {s.validation : s \in {x \in {field} \cup Range(resolved.definitions) :
                                         Get(x, "validation") # None}}
        references == IF resolved.type = "array" THEN Range(Listed(resolved.field, "of")) ELSE {field}
        calls(x) == IF Get(x, "validation") = None THEN {} ELSE Range(x.validation.calls)
        edited(x) == IF Get(x, "editor") = None THEN {} ELSE x.editor
        rules == UNION {calls(x) \cup edited(x) : x \in Below({field}, types)}
    IN /\ built.types = {} =>
            \E d \in built.diagnostics :
              d.code \in {"unsupported_field_type", "ambiguous_array_members",
                          "unsupported_array_member", "unsupported_field_semantics"}
       /\ \A type \in built.types \ {"OPTIONAL"} : ValuesOf(field, types) \subseteq Holds(type)
       /\ built.types # {} /\ "OPTIONAL" \notin built.types =>
            /\ \E r \in runs : "required" \in Range(r.calls) /\ "optional" \notin Range(r.calls)
            /\ \A r \in runs : /\ r.end \in {"rule", "nothing"}
                               /\ Range(r.calls) \subseteq Presence \cup Constraints \cup {"custom"}
       /\ IF built.types \cap {"REF", "REFS"} = {} THEN built.targets = {}
          ELSE {LeadsTo(t, dataset, project) : t \in built.targets}
                 = UNION {Destinations(r, types, dataset, project) : r \in references}
       /\ \A rule \in rules \ Presence : \E d \in built.diagnostics : d.rule = rule
=============================================================================
