------------------------------ MODULE Mappings ------------------------------
(***************************************************************************)
(* From the properties of a source item to the types of an application:    *)
(* mapping rules applied to items and to schemas (service/core), the merge *)
(* of the schemas of several inflows and the TypeScript that is generated   *)
(* for a collection (core/src/schemas.ts).                                  *)
(*                                                                         *)
(* A type is a set of the flags of PropertyType (its metadata left out); a  *)
(* schema value is a type with its enum values, AnyText when it has none.  An   *)
(* item and a schema are functions of property names.                       *)
(***************************************************************************)
EXTENDS Subject, Integers, Sequences, FiniteSets, SequencesExt, TLC

CONSTANTS Null, AnyText, None,
          DayLength   \* DAYS, scaled down

Text(t) == [text |-> t]
Num(n) == [number |-> n]
Flag(b) == [flag |-> b]
Ref(id) == [ref |-> id]
Items(vs) == [list |-> vs]
Tag(v) == IF v = Null THEN "null" ELSE CHOOSE tag \in DOMAIN v : TRUE

Schema(types, values) == [types |-> types, values |-> values]

-----------------------------------------------------------------------------
(* What a value of each type is, in the store.                             *)
ElementOf == [STRINGS |-> "STRING", NUMBERS |-> "NUMBER", ENUMS |-> "ENUM", REFS |-> "REF"]

RECURSIVE IsOf(_, _, _)
IsOf(v, type, values) ==
  CASE type = "OPTIONAL" -> v = Null
    [] type \in DOMAIN ElementOf ->
         Tag(v) = "list" /\ \A k \in DOMAIN v.list : IsOf(v.list[k], ElementOf[type], values)
    [] type \in {"STRING", "BIGINT"} -> Tag(v) = "text"
    [] type \in {"NUMBER", "DATE", "PLAINDATE"} -> Tag(v) = "number"
    [] type = "BOOLEAN" -> Tag(v) = "flag"
    [] type = "REF" -> Tag(v) \in {"ref", "text"}
    [] type = "ENUM" -> Tag(v) = "text" /\ (values \in {AnyText, {}} \/ v.text \in values)

Fits(v, schema) == \E type \in schema.types : IsOf(v, type, schema.values)

ItemFits(item, schema) ==
  /\ DOMAIN item \subseteq DOMAIN schema
  /\ \A p \in DOMAIN schema : IF p \in DOMAIN item THEN Fits(item[p], schema[p])
                              ELSE "OPTIONAL" \in schema[p].types

-----------------------------------------------------------------------------
(* Casts: CAST_FNS.                                                        *)

RECURSIVE ToText(_)
ToText(v) ==
  CASE Tag(v) = "text" -> v.text
    [] Tag(v) = "number" -> ToString(v.number)
    [] Tag(v) = "flag" -> ToString(v.flag)
    [] Tag(v) = "ref" -> v.ref
    [] Tag(v) = "list" ->
         FoldLeft(LAMBDA all, x : IF all = "" THEN ToText(x) ELSE all \o "," \o ToText(x), "", v.list)

Numerals == [t \in {ToString(n) : n \in 0..9} |-> CHOOSE n \in 0..9 : ToString(n) = t]
NaN == None
ToNumber(v) ==
  CASE Tag(v) = "number" -> v.number
    [] Tag(v) = "flag" -> IF v.flag THEN 1 ELSE 0
    [] OTHER -> IF ToText(v) \in DOMAIN Numerals THEN Numerals[ToText(v)]
                ELSE IF ToText(v) = "" THEN 0 ELSE NaN

DateCasts == {"plainDateToDate", "dateToPlainDate", "plainDateToString"}
Truthy(v) == CASE Tag(v) = "text" -> v.text # ""
               [] Tag(v) = "number" -> v.number # 0
               [] Tag(v) = "flag" -> v.flag
               [] OTHER -> TRUE

Cast(cast, v) ==
  CASE cast = "string" -> Text(ToText(v))
    [] cast = "number" -> Num(ToNumber(v))
    [] cast = "boolean" -> Flag(Truthy(v))
    [] cast = "plainDateToDate" -> Num(ToNumber(v) * DayLength)
    [] cast = "dateToPlainDate" -> Num(ToNumber(v) \div DayLength)
    [] cast = "plainDateToString" -> Text("day " \o ToString(ToNumber(v)))
    [] OTHER -> v

-----------------------------------------------------------------------------
(* A rule has a source, a target and a cast, and where they are set a       *)
(* default, an array index and enum values (None when they are not).        *)

Selected(v, index) ==   \* selectArrayValue; None when the index has no value
  IF index = None THEN v
  ELSE IF Tag(v) # "list" THEN IF index \in {0, -1} THEN v ELSE None
  ELSE LET k == (IF index < 0 THEN Len(v.list) + index ELSE index) + 1 IN
       IF k \in DOMAIN v.list THEN v.list[k] ELSE None

MappingValue(item, rule) ==
  LET v == IF rule.source \in DOMAIN item THEN Selected(item[rule.source], rule.index) ELSE None
  IN IF v \in {None, Null} /\ rule.default # None THEN rule.default ELSE v

Set(f, x, v) == (x :> v) @@ f

Kept(props) == [p \in DOMAIN props \cap {"$locale", "$draft"} |-> props[p]]

(* applyMappings                                                            *)
ApplyMappings(item, rules) ==
  IF rules = <<>> THEN item
  ELSE FoldLeft(LAMBDA result, rule :
                  LET v == MappingValue(item, rule) IN
                  IF v = None THEN result
                  ELSE Set(result, rule.target, IF v = Null THEN v ELSE Cast(rule.cast, v)),
                Kept(item), rules)

(* validateSourceItem: whether no cast has an invalid result.               *)
Validated(item, rules, target) ==
  \A k \in DOMAIN rules :
    LET rule == rules[k]
        v == MappingValue(item, rule)
        values == IF rule.values # None THEN rule.values
                  ELSE IF rule.target \in DOMAIN target THEN target[rule.target].values ELSE AnyText
        entries == IF Tag(v) = "list" THEN Range(v.list) ELSE {v}
    IN v \notin {None, Null} =>
         /\ rule.cast \in DateCasts \cup {"number"} => ToNumber(v) # NaN
         /\ rule.cast = "enum" /\ values # AnyText => \A x \in entries : ToText(x) \in values

(* mergeSchemaValues; a faulty variant keeps only the second's enum values. *)
LastValues(a, b) == IF b = AnyText THEN a ELSE b
MergedValues(a, b) == IF a = AnyText THEN b ELSE IF b = AnyText THEN a ELSE a \cup b
Merge(a, b) == Schema(a.types \cup b.types, MergedValues(a.values, b.values))

(* selectArraySchemaValue: lists become their elements.                     *)
SelectedSchema(schema, index) ==
  IF index = None THEN schema
  ELSE Schema({IF t \in DOMAIN ElementOf THEN ElementOf[t] ELSE t : t \in schema.types}, schema.values)

Optional(b) == IF b THEN {"OPTIONAL"} ELSE {}
CastType == ("string" :> "STRING") @@ ("number" :> "NUMBER") @@ ("boolean" :> "BOOLEAN")
            @@ ("plainDateToDate" :> "DATE") @@ ("dateToPlainDate" :> "PLAINDATE")
            @@ ("plainDateToString" :> "STRING")

(* defaultSchemaValue                                                       *)
DefaultSchema(rule) ==
  LET v == rule.default IN
  CASE v = Null -> Schema({"OPTIONAL"}, AnyText)
    [] v # Null /\ rule.cast \in DOMAIN CastType -> Schema({CastType[rule.cast]}, AnyText)
    [] v # Null /\ rule.cast \notin DOMAIN CastType /\ Tag(v) = "number" -> Schema({"NUMBER"}, AnyText)
    [] v # Null /\ rule.cast \notin DOMAIN CastType /\ Tag(v) = "flag" -> Schema({"BOOLEAN"}, AnyText)
    [] OTHER -> Schema({"ENUM"}, {ToText(v)})

(* castSchemaValue of a default that may replace the source's value.        *)
WithDefault(source, rule) ==
  LET own == IF rule.default = Null THEN source ELSE Schema(source.types \ {"OPTIONAL"}, source.values)
      fallback == DefaultSchema(rule)
      covered == \/ fallback.types \subseteq own.types
                    /\ ("ENUM" \notin fallback.types \/ "ENUM" \notin own.types)
                 \/ "ENUM" \in fallback.types /\ "STRING" \in own.types /\ "ENUM" \notin own.types
  IN IF covered THEN own ELSE Merge(own, fallback)

CastSchema(source, rule) ==
  LET selected == SelectedSchema(source, rule.index)
      optional == Optional(\/ rule.default = Null
                           \/ rule.default = None /\ "OPTIONAL" \in selected.types)
      listed == selected.types \cap {"STRINGS", "ENUMS"} # {}
      values == IF rule.values # None THEN rule.values
                ELSE IF selected.values = AnyText THEN {} ELSE selected.values
  IN CASE rule.cast \in DOMAIN CastType -> Schema({CastType[rule.cast]} \cup optional, AnyText)
       [] rule.cast = "enum" ->
            Schema({IF listed THEN "ENUMS" ELSE "ENUM"} \cup optional,
                   values \cup (IF rule.default \in {None, Null} THEN {} ELSE {ToText(rule.default)}))
       [] OTHER -> IF rule.default = None THEN selected ELSE WithDefault(selected, rule)

(* applyMappingsToSchema                                                    *)
ApplyToSchema(schema, rules) ==
  IF rules = <<>> THEN [p \in DOMAIN schema \ {"$ref"} |-> schema[p]]
  ELSE FoldLeft(LAMBDA result, rule :
                  IF rule.source = "$draft" \/ (rule.source \notin DOMAIN schema /\ rule.default = None)
                  THEN result
                  ELSE LET incoming == IF rule.source \in DOMAIN schema
                                       THEN CastSchema(schema[rule.source], rule)
                                       ELSE DefaultSchema(rule)
                       IN Set(result, rule.target, IF rule.target \in DOMAIN result
                                                   THEN Merge(result[rule.target], incoming)
                                                   ELSE incoming),
                Kept(schema), rules)

-----------------------------------------------------------------------------
(* autoWireMappings: for each property of the target the source of the best *)
(* score, the first of equals; exact names before synonyms, and no cast     *)
(* before a cast.                                                           *)
SafeCasts ==
  {<<"NUMBER", "STRING", "string">>, <<"NUMBERS", "STRINGS", "string">>,
   <<"BIGINT", "STRING", "string">>, <<"REF", "STRING", "string">>, <<"REFS", "STRINGS", "string">>,
   <<"BOOLEAN", "STRING", "string">>, <<"DATE", "STRING", "string">>,
   <<"PLAINDATE", "DATE", "plainDateToDate">>, <<"DATE", "PLAINDATE", "dateToPlainDate">>,
   <<"PLAINDATE", "STRING", "plainDateToString">>, <<"STRING", "ENUM", "enum">>,
   <<"STRINGS", "ENUMS", "enum">>, <<"ENUM", "STRING", "string">>, <<"ENUMS", "STRINGS", "string">>}

Synonyms == {{"name", "title"}, {"slug", "url"}}

(* safeCast and typeCompatibility: the cast, "" for none needed, or None.   *)
Compatibility(source, target) ==
  LET values == source \ {"OPTIONAL"}
      casts == {c \in SafeCasts : values = {c[1]} /\ c[2] \in target}
  IN CASE "OPTIONAL" \in source /\ "OPTIONAL" \notin target -> None
       [] ~("OPTIONAL" \in source /\ "OPTIONAL" \notin target) /\ values \subseteq target -> ""
       [] OTHER -> IF casts = {} THEN None ELSE (CHOOSE c \in casts : TRUE)[3]

Score(s, t, source, target) ==
  LET cast == Compatibility(source[s].types, target[t].types) IN
  CASE cast = None \/ (s # t /\ {s, t} \notin Synonyms) -> -1
    [] s = t /\ cast # None -> IF cast = "" THEN 3 ELSE 2
    [] OTHER -> IF cast = "" THEN 1 ELSE 0

Rule(s, t, cast) ==
  [source |-> s, target |-> t, cast |-> cast, default |-> None, index |-> None, values |-> None]

WiredRules(t, source, target) ==
  {Rule(s, t, Compatibility(source[s].types, target[t].types)) :
     s \in {x \in DOMAIN source : Score(x, t, source, target) >= 0
              /\ \A y \in DOMAIN source : Score(y, t, source, target) <= Score(x, t, source, target)}}

-----------------------------------------------------------------------------
(* The TypeScript of a schema value: propertyTypeToTs, a union of members.  *)
Ts(name) == [ts |-> name]
Literal(v) == [literal |-> v]
Literals(vs) == [literals |-> vs]

Members(type, values) ==
  CASE type = "OPTIONAL" -> {}
    [] type = "STRINGS" -> {Ts("string[]")}
    [] type = "NUMBERS" -> {Ts("number[]")}
    [] type \in {"STRING", "BIGINT", "PLAINDATE"} -> {Ts("string")}
    [] type \in {"NUMBER", "DATE"} -> {Ts("number")}
    [] type = "BOOLEAN" -> {Ts("boolean")}
    [] type = "REF" -> {Ts("identity"), Ts("string")}
    [] type = "REFS" -> {Ts("(identity | string)[]")}
    [] type = "ENUM" -> IF values \in {AnyText, {}} THEN {Ts("string")} ELSE {Literal(v) : v \in values}
    [] type = "ENUMS" -> IF values \in {AnyText, {}} THEN {Ts("string[]")} ELSE {Literals(values)}

TypeScript(schema) == UNION {Members(t, schema.values) : t \in schema.types}

(* What a query shows of a stored value: formatPlainDateResults.            *)
Shown(v, schema) ==
  IF "PLAINDATE" \in schema.types /\ Tag(v) = "number" THEN Cast("plainDateToString", v) ELSE v

MemberAdmits(m, v) ==
  LET All(tags) == Tag(v) = "list" /\ \A k \in DOMAIN v.list : Tag(v.list[k]) \in tags IN
  CASE Tag(m) = "literal" -> v = Text(m.literal)
    [] Tag(m) = "literals" -> All({"text"}) /\ \A k \in DOMAIN v.list : v.list[k].text \in m.literals
    [] Tag(m) = "ts" ->
         CASE m.ts = "string" -> Tag(v) = "text"
           [] m.ts = "number" -> Tag(v) = "number"
           [] m.ts = "boolean" -> Tag(v) = "flag"
           [] m.ts = "identity" -> Tag(v) = "ref"
           [] m.ts = "string[]" -> All({"text"})
           [] m.ts = "number[]" -> All({"number"})
           [] OTHER -> All({"ref", "text"})

(* generateTypeScript: the type of a collection is the union of its         *)
(* different inflow schemas; a required property has to be there.           *)
MemberOfUnion(item, schema) ==
  \A p \in DOMAIN schema :
    IF p \in DOMAIN item /\ item[p] # Null
    THEN \E m \in TypeScript(schema[p]) : MemberAdmits(m, Shown(item[p], schema[p]))
    ELSE "OPTIONAL" \in schema[p].types
ItemAdmitted(item, inflows) == \E schema \in inflows : MemberOfUnion(item, schema)

-----------------------------------------------------------------------------
(* An item that fits its source's schema and passes the validation fits,    *)
(* once mapped, the mapped schema of its inflow, also after its merge with   *)
(* the schema of another inflow of the collection, and the generated type   *)
(* of the application admits it.  Left out: an array index past the end of  *)
(* a list without a default, and an enum cast of other things than texts or *)
(* whose values nothing names.                                              *)
Indexed(item, rules) ==
  \A k \in DOMAIN rules :
    /\ rules[k].source \in DOMAIN item /\ rules[k].index # None /\ rules[k].default = None
         => Selected(item[rules[k].source], rules[k].index) # None
    /\ rules[k].cast = "enum" => rules[k].values # None

MappedItemsFit(item, source, rules, other) ==
  LET schema == ApplyToSchema(source, rules)
      mapped == ApplyMappings(item, rules)
  IN ItemFits(item, source) /\ Validated(item, rules, schema) /\ Indexed(item, rules)
       => /\ ItemFits(mapped, schema)
          /\ \A p \in DOMAIN mapped \cap DOMAIN other : Fits(mapped[p], Merge(schema[p], other[p]))
          /\ ItemAdmitted(mapped, {schema, other})

(* A rule that the auto-wiring proposes gives a value of the target's type   *)
(* for every item of the source that its validation lets pass.  Left out:   *)
(* the lists cast to a single text.                                         *)
WiredRulesFit(item, source, target) ==
  ItemFits(item, source) =>
    \A t \in DOMAIN target : \A rule \in WiredRules(t, source, target) :
      LET mapped == ApplyMappings(item, <<rule>>)
          v == IF t \in DOMAIN mapped THEN mapped[t] ELSE Null
      IN \/ ~Validated(item, <<rule>>, target)
         \/ rule.cast = "string" /\ source[rule.source].types \cap DOMAIN ElementOf # {}
         \/ Fits(v, Schema(target[t].types, AnyText))
=============================================================================
