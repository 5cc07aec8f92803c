------------------------------ MODULE MCRules ------------------------------
(***************************************************************************)
(* The pure rules, case by case: filters and queries, relations and files, *)
(* mappings and types.  The cases are small on purpose: what a rule can    *)
(* confuse (an absent and a null value, a quote in a text, two locales of   *)
(* one key, a deleted row, an empty list) is in them at least once.        *)
(***************************************************************************)
EXTENDS Subject, Integers, Sequences, TLC

CONSTANTS Null, Unset, On, Off, Throws, PageSizes, AnyText, None, DayLength,
          Ambiguous, Zero

Q == INSTANCE Relations   \* with Queries and Filters
T == INSTANCE Mappings
I == INSTANCE Incidents WITH Deliveries <- {"4", "5"}
L == INSTANCE Locales WITH
       Canonical <- ("de-AT" :> "de-AT") @@ ("en" :> "en") @@ ("x-own" :> "x-own")
                      @@ ("german" :> "german") @@ ("english" :> "english"),
       Alias <- ("german" :> "de") @@ ("english" :> "en"),
       Listed <- {"de-AT", "de", "en"}
D == INSTANCE Rendering
O == INSTANCE Optimizers
S == INSTANCE Sanity

String(t) == Q!String(t)
Number(n) == Q!Number(n)
Title == <<"title">>
Rank == <<"rank">>

-----------------------------------------------------------------------------
(* Filters: comparisons, links, and combinations nested on either side.     *)

FilterRows ==
  {(Q!Id :> Q!Identity("a", 1)) @@ (Q!InCol :> String(<<"a">>)) @@ (Title :> String(<<"x", "y">>))
     @@ (Rank :> Number(1)) @@ (<<"tags">> :> Q!List({String(<<"x">>)})),
   (Q!Id :> Q!Identity("b", 1)) @@ (Q!InCol :> String(<<"b">>)) @@ (Title :> String(<<"y">>))
     @@ (Rank :> Number(2)) @@ (<<"tags">> :> Q!List({})),
   (Q!Id :> Q!Identity("a", 2)) @@ (Q!InCol :> String(<<"a">>))}

FilterLinks ==
  {[from |-> Q!Identity("a", 1), prop |-> <<"author">>, to |-> Q!Identity("b", 1)],
   [from |-> Q!Identity("a", 2), prop |-> Null, to |-> Q!Identity("b", 1)]}

Compared(helper, field, v) == [helper |-> helper, field |-> field, value |-> v]
Linked(helper, prop, v) == [helper |-> helper, field |-> <<>>, prop |-> prop, value |-> v]

Leaves ==
  {Compared(<<"=">>, Title, String(<<"y">>)), Compared(<<"!", "=">>, Title, String(<<"y">>)),
   Compared(<<">">>, Rank, Number(1)), Compared(<<"<", "=">>, Rank, Number(1)),
   Compared(<<"~">>, Title, String(<<"x">>)), Compared(<<"!", "~">>, Title, String(<<"x">>)),
   Compared(<<"?", "=">>, <<"tags">>, String(<<"x">>)), Compared(<<"=">>, Title, Null),
   Compared(<<"!", "=">>, Rank, Null), Compared(<<"=">>, Q!Id, Q!Identity("a", 2)),
   Linked(<<"linksTo">>, <<"author">>, Q!Identity("b", 1)),
   Linked(<<"linkedFrom">>, Null, Q!Identity("a", 2))}

Combined(A, B) ==
  {[helper |-> h, field |-> <<>>, value |-> Null, parts |-> <<x, y>>] :
     h \in {<<"&", "&">>, <<"|", "|">>}, x \in A, y \in B}

FewLeaves == {Compared(<<"=">>, Title, String(<<"y">>)), Compared(<<">">>, Rank, Number(1)),
              Compared(<<"=">>, Title, Null)}
Filters == Leaves \cup Combined(Leaves, Leaves) \cup Combined(FewLeaves, Combined(FewLeaves, Leaves))

ChooseFilter == Choose("filter", Filters)

-----------------------------------------------------------------------------
(* Queries: collection a has a row for each key (slug) and locale, b has no *)
(* locales.                                                                 *)

Localized(id, slug, locale, title, rank, changed) ==
  (Q!Id :> Q!Identity("a", id)) @@ (Q!InCol :> String(<<"a">>)) @@ (<<"slug">> :> String(<<slug>>))
    @@ (Q!Locale :> String(<<locale>>)) @@ (Title :> String(<<title>>)) @@ (Rank :> Number(rank))
    @@ (Q!ChangedAt :> Number(changed))

Db ==
  [rows |-> {Localized(1, "x", "de", "a", 1, 1), Localized(2, "x", "en", "b", 2, 2),
             Localized(3, "y", "en", "a", 2, 1), Localized(4, "b", "de", "b", 1, 3),
             Localized(5, "a", "en", "x", 2, 1) @@ (Q!DeletedAt :> Number(1)),
             (Q!Id :> Q!Identity("b", 6)) @@ (Q!InCol :> String(<<"b">>)) @@ (Q!Locale :> Null)
               @@ (Title :> String(<<"a">>)) @@ (Q!ChangedAt :> Number(2))},
   links |-> {},
   i18n |-> (<<"a">> :> [key |-> <<"slug">>]) @@ (<<"b">> :> Unset)]

De == <<"de">>
En == <<"en">>
InTitle == <<"title", " ", "=", " ", Q!DQ, "a", Q!DQ>>
Either == <<"rank", " ", ">", " ", "1", " ", "|", "|", " ", "title", " ", "=", " ", Q!DQ, "b", Q!DQ>>
Cut == <<"rank", " ", ">">>
ByNumber == <<"$", "id", " ", "=", " ", "1">>
InDe == <<"$", "locale", " ", "=", " ", Q!DQ, "de", Q!DQ>>

Sorts == {Unset, <<[kind |-> "text", text |-> <<"-", "rank">>]>>,
          <<[kind |-> "desc", text |-> Title], [kind |-> "asc", text |-> Q!Id]>>}

Plain == [Q!NoQuery EXCEPT !.collection = "a"]
Bilingual == [defaultLocale |-> De, fallback |-> En]

(* How a query, withLocale, the client's settings and the server's meet.    *)
LocaleCases ==
  [q : {[Plain EXCEPT !.collection = c, !.filter = f, !.locale = l, !.fallback = b] :
          c \in {Unset, "a"}, f \in {<<>>, InDe}, l \in {Unset, Off, De}, b \in {Unset, On, Off, En}},
   app : [defaultLocale : {Unset, De}, fallback : {Unset, On, Off, En}],
   scope : {Q!NoScope} \cup [locale : {Off, De, En}, fallback : {Unset, On, Off, En}]]
ShapeCases ==
  [q : {[Plain EXCEPT !.collection = c, !.filter = f, !.sort = s, !.limit = l, !.fields = fs,
                      !.search = t, !.includeDeleted = d] :
          c \in {Unset, "b"}, f \in {<<>>, InTitle, Cut, ByNumber}, s \in Sorts, l \in {Unset, 2},
          fs \in {Unset, <<>>, <<Title, Rank>>}, t \in {Unset, <<"a">>}, d \in BOOLEAN},
   app : {Bilingual}, scope : {Q!NoScope}]

ChooseClient ==
  Choose("client", {c \in LocaleCases : c.scope.fallback = On => c.app.defaultLocale # Unset}
                   \cup ShapeCases)

FileCases ==
  {c \in [text : {<<"f", ".", "png">>, <<"f", ".", "jpg">>, <<"g", ".", "png">>, <<"x">>},
          other : {<<"x">>, <<"f", ".", "png">>}, files : {{}, {<<<<"f">>, <<"png">>>>}}] :
     c.other = <<"x">> \/ c.files # {}}
ChooseFile == Choose("file", FileCases)

(* The same call gives the same result with the embedded client and over    *)
(* HTTP (contfu.ts:236), the items' files under the base path of each.      *)
ClientsGiveTheSame ==
  /\ Is("client") => Q!ClientsAgree(subject.case.q, subject.case.app, subject.case.scope, Db)
  /\ Is("file") => LET c == subject.case
                       item == (<<"pic">> :> String(c.text)) @@ (<<"t">> :> String(c.other))
                   IN Q!FilesAgree(item, c.files, {<<"pic">>}, <<"/", "cdn">>)

ChoosePaged ==
  Choose("paged", {[Plain EXCEPT !.filter = f, !.sort = s, !.limit = l, !.locale = lo] :
                     f \in {<<>>, InTitle, Either}, s \in Sorts, l \in {1, 2}, lo \in {Unset, De, En}})
ChooseItems ==
  Choose("items", [page : {1}, pageSize : {Unset, 0, 1, 2, 3, 5}, includeDeleted : BOOLEAN,
                   onlyDeleted : BOOLEAN, collection : {Unset, "a"}, from : {Unset, 2},
                   propFilters : {{}, {[key |-> Title, op |-> "contains", value |-> String(<<"a">>)]}},
                   sortField : {"collection", Unset}, sortDirection : {"asc", Unset}])

(* Reading page after page shows every matching entry, and none twice, of   *)
(* findItems and of queryItems.                                             *)
PagesShowEverything ==
  /\ Is("paged") => Q!PagesAreComplete(subject.case, Bilingual, Db)
  /\ Is("items") => Q!ItemPagesAreComplete(subject.case, Db)

-----------------------------------------------------------------------------
(* Relations: titles with quotes, without a value, a link and a dangling    *)
(* one.                                                                     *)

Row(id, c, title, rank) ==
  (Q!Id :> Q!Identity(c, id)) @@ (Q!InCol :> String(<<c>>)) @@ (Title :> title) @@ (Rank :> rank)
    @@ (Q!ChangedAt :> Number(1)) @@ (Q!Locale :> Null)

Odd == String(<<"x", Q!DQ, "|">>)
Linked7 == [id |-> 7, from |-> Q!Identity("a", 1), prop |-> Rank, to |-> Q!Identity("b", 2)]
LinkedDb ==
  [rows |-> {Row(1, "a", String(<<"a">>), Number(7)), Row(2, "b", String(<<"a">>), Number(2)),
             Row(3, "b", Odd, Number(7)), Row(4, "b", Null, Q!Identity("b", 2)),
             Row(5, "a", Null, Number(8)), Row(6, "a", Odd, Number(2))},
   links |-> {}, linkRows |-> {Linked7}, refFields |-> {<<<<"a">>, Rank>>},
   i18n |-> (<<"a">> :> Unset) @@ (<<"b">> :> Unset)]

ChooseRelation ==
  Choose("relation", [item : LinkedDb.rows, c : {"a", "b"}, field : {Title, Rank, Q!Id},
                      path : {Title, Rank, Q!Id}])

(* A filter that the helpers build keeps exactly the rows that its parts    *)
(* mean together (filter-helpers.ts, lexer.ts, parser.ts, compiler.ts), and *)
(* the filter of a relation the items whose field equals the field of the   *)
(* item above: a text, a link's target, or nothing (resolve-relations.ts).  *)
FiltersAreMeant ==
  /\ Is("filter") => Q!FilterIsMeant(subject.case, FilterRows, FilterLinks)
  /\ Is("relation") => LET c == subject.case IN
                       Q!RelatedAreMatched(c.item, c.c, c.field, c.path, LinkedDb)

-----------------------------------------------------------------------------
(* Mappings: every type, with and without OPTIONAL, every cast, defaults,   *)
(* list indexes, enum values, a second rule with the same target, and the   *)
(* schema of another inflow.                                                *)

Schema(types) == T!Schema(types, IF types \cap {"ENUM", "ENUMS"} # {} THEN {"a", "1"} ELSE AnyText)
TypeSets == UNION {{{t}, {t, "OPTIONAL"}} :
                     t \in {"STRING", "STRINGS", "NUMBER", "NUMBERS", "BOOLEAN", "DATE", "PLAINDATE",
                            "ENUM", "ENUMS", "REF", "REFS"}}
            \cup {{"STRING", "NUMBER"}, {"NUMBERS", "STRING"}, {"ENUM", "NUMBER"}}
Texts == {"STRING", "STRINGS", "ENUM", "ENUMS", "OPTIONAL"}

Values == {Null, T!Text("a"), T!Text("1"), T!Text(""), T!Num(0), T!Num(13), T!Flag(TRUE), T!Ref("p"),
           T!Items(<<>>), T!Items(<<T!Text("a"), T!Text("1")>>), T!Items(<<T!Num(1), T!Num(2)>>),
           T!Items(<<T!Ref("p")>>)}

MapRule(cast, default, index, values) ==
  [source |-> "x", target |-> "y", cast |-> cast, default |-> default, index |-> index,
   values |-> values]
MapRules ==
  {MapRule(c, d, i, vs) : c \in {"", "string", "number", "boolean", "plainDateToDate",
                                 "dateToPlainDate", "plainDateToString", "enum"},
     d \in {None, Null, T!Text("b"), T!Num(2)}, i \in {None, -1}, vs \in {None, {"a"}}}
Second == {<<>>, <<[MapRule("", T!Text("z"), None, None) EXCEPT !.source = "w"]>>}

MapCases ==
  [source : {("x" :> Schema(ts)) @@ ("w" :> Schema({"STRING", "OPTIONAL"})) : ts \in TypeSets},
   item : {"x" :> v : v \in Values} \cup {("x" :> v) @@ ("w" :> T!Text("k")) : v \in {Null, T!Num(13)}},
   rule : MapRules, more : Second,
   other : {"y" :> T!Schema({"ENUM"}, {"q"}), "y" :> T!Schema({"NUMBER", "OPTIONAL"}, AnyText)}]
Sensible(c) == c.rule.cast = "enum" => c.source["x"].types \subseteq Texts
ChooseMapping ==
  Choose("mapping", {c \in MapCases : T!ItemFits(c.item, c.source) /\ Sensible(c)})

WireCases ==
  [source : {("name" :> Schema(a)) @@ ("title" :> Schema(b)) :
               a \in TypeSets, b \in {{"STRING"}, {"NUMBER", "OPTIONAL"}, {"STRINGS"}}},
   target : {"title" :> Schema(ts) : ts \in TypeSets},
   item : {("name" :> v) @@ ("title" :> w) :
             v \in Values, w \in {T!Text("a"), Null, T!Num(13), T!Items(<<T!Text("a")>>)}}]
ChooseWiring == Choose("wiring", {c \in WireCases : T!ItemFits(c.item, c.source)})

-----------------------------------------------------------------------------
(* Sanity schemas: a field of each type, alone or in a list of up to two    *)
(* members, with validations that require, that require nothing and that    *)
(* cannot be told; names for a type with rules, for references, for objects *)
(* within themselves, for each other, for two definitions and for a document.*)

Runs(calls, ends) == {[calls |-> calls, end |-> e] : e \in ends}
Validations ==
  Runs(<<>>, {"opaque"}) \cup Runs(<<"required">>, {"rule", "nothing", "throws", "context", "promise", "other"})
    \cup UNION {Runs(c, {"rule"}) : c \in {<<"optional">>, <<"required", "min">>, <<"required", "optional">>,
                                           <<"required", "custom">>, <<"required", "zeal">>}}
Required == [calls |-> <<"required", "min">>, end |-> "rule"]
To == ("to" :> <<"person", "tag">>)
Typed(t) == ("type" :> t)
Checked(def, v) == IF v = None THEN def ELSE ("validation" :> v) @@ def
Named(name, def) == ("name" :> name) @@ def
ReferenceTo ==
  {Typed("reference") @@ To, Typed("crossDatasetReference") @@ ("dataset" :> "B") @@ To}
    \cup {Typed("crossDatasetReference") @@ ("dataset" :> d) @@ ("project" :> p) @@ To :
            d \in {"A", "B"}, p \in {"P", "X"}}
    \cup {Typed("globalDocumentReference") @@ ("resource" :> x) @@ To :
            x \in {<<"P", "A">>, <<"P", "B">>, <<"X", "A">>}}
    \cup {Typed("globalDocumentReference") @@ To, Typed("reference")}
Fields == <<Named("t", Checked(Typed("string"), Required)), Named("n", Typed("number"))>>
Alone ==
  {Typed(t) : t \in {"string", "number", "date", "geopoint", "image", "block", "short", "link", "seo", "pair",
                     "loop", "dup", "person", "unknown", None}}
    \cup ReferenceTo \cup {Typed("object") @@ ("fields" :> Fields), Typed("link") @@ ("dataset" :> "A")}
Members ==
  {Typed(t) : t \in {"string", "url", "number", "date", "image", "block", "short", "link", "seo", "loop", "pair"}}
    \cup {None, Checked(Typed("string"), Required), Typed("reference") @@ To, Typed("globalDocumentReference") @@ To,
          Typed("object") @@ ("fields" :> Fields)}
Lists == {Typed("array")} \cup {Typed("array") @@ ("of" :> <<m>>) : m \in Members}
           \cup {Typed("array") @@ ("of" :> <<m, n>>) : m, n \in Members}
NamedTypes(v) ==
  <<Named("short", Checked(Typed("string"), v)),
    Named("link", Typed("crossDatasetReference") @@ ("dataset" :> "B") @@ To),
    Named("seo", Typed("object") @@ ("fields" :> Append(Fields,
                   Named("more", Typed("array") @@ ("of" :> <<Typed("seo")>>))))),
    Named("pair", Typed("array") @@ ("of" :> <<Typed("short"), Typed("text")>>)),
    Named("loop", Typed("loop2")), Named("loop2", Typed("loop")),
    Named("dup", Typed("string")), Named("dup", Typed("number")), Named("person", Typed("document"))>>
Few == {None, Required, [calls |-> <<"required", "zeal">>, end |-> "rule"]}
SanityCases ==
  [field : Alone, run : Validations \cup {None}, alias : Few, editor : {None, {"hidden"}}, project : {None, "P"}]
    \cup [field : Lists, run : Few, alias : {Required}, editor : {None}, project : {"P"}]
ChooseSanity == Choose("sanity", SanityCases)

(* A valid item, mapped by rules or by the wiring the code proposes, has    *)
(* the types its collection declares to the application (mapping-ops.ts,    *)
(* schemas.ts); and a Sanity field is declared as what it holds, as         *)
(* required only if it certainly is, and with a diagnostic for all that is  *)
(* lost (schema-normalization.ts).                                          *)
SchemasAreTrue ==
  /\ Is("mapping") => LET c == subject.case IN
                      T!MappedItemsFit(c.item, c.source, <<c.rule>> \o c.more, c.other)
  /\ Is("sanity") => LET c == subject.case
                         field == Named("x", Checked(c.field, c.run) @@ ("editor" :> c.editor))
                     IN S!SchemaIsTrue([fields |-> <<field>>], NamedTypes(c.alias), "A", c.project)
  /\ Is("wiring") => T!WiredRulesFit(subject.case.item, subject.case.source, subject.case.target)

-----------------------------------------------------------------------------
(* Incidents: two incidents at two times, current and legacy ones, whose    *)
(* details name one of two deliveries, or none, and one that is obsolete.    *)

Details(id) == <<None, "seven", id>>
Incident(type, message, delivery, snapshot, obsolete) ==
  [type |-> type, message |-> message, details |-> Details(delivery), snapshot |-> snapshot,
   obsolete |-> obsolete]
Snapshots == {None, <<1, FALSE>>, <<2, TRUE>>}
Incidents ==
  {Incident("SourceUnavailable", "m", d, s, FALSE) : d \in {None, "4", "5"}, s \in Snapshots}
    \cup {Incident("SourceUnavailable", "m", "4", None, TRUE),
          Incident("SyncError", "is unavailable", "4", <<1, FALSE>>, FALSE),
          Incident("SchemaIncompatible", "m", "4", None, TRUE)}
Two(x, y) == <<[id |-> "i"] @@ x, [id |-> "j"] @@ y>>
Pairs == {Two(x, y) : x, y \in Incidents}

ChoosePlans == Choose("plans", Pairs \X Pairs)

(* A plan takes up each incident once, and its id binds what executing it   *)
(* does, so that an acknowledged plan is not carried out on a delivery that *)
(* has changed since (incidents.ts).                                        *)
PlansBindWhatIsDone ==
  Is("plans") => I!PlanIsComplete(subject.case[1]) /\ I!PlanIdBinds(subject.case[1], subject.case[2])

-----------------------------------------------------------------------------
(* Locales: maps of up to three entries, targets that are locales or not.   *)

Raws == {L!Spelled(n, s) : n \in {"de-AT", "german", "x-own"}, s \in L!Spellings}
Targets == {L!Spelled("en", "capitals"), L!Spelled("x-own", "spaced"), L!Spelled("german", "plain"),
            L!Spelled("de-AT", "underscore")}
LocaleMaps ==
  {map \in UNION {[1..n -> [raw : Raws, locale : Targets]] : n \in 1..2}
           \cup {<<L!Entry(r, L!Spelled("en", "plain")), L!Entry(t, L!Spelled("x-own", "plain")),
                   L!Entry(u, L!Spelled("en", "plain"))>> : r, t, u \in Raws} :
     \A j, k \in DOMAIN map : map[j].raw = map[k].raw => j = k}

ChooseLocaleMap == Choose("locales", [map : LocaleMaps, active : {{}, {"en"}}])

(* A locale map that can be saved decides every spelling of the sources it  *)
(* names, and nothing else (i18n.ts).                                       *)
LocaleMapsDecide == Is("locales") => L!SavedMapDecides(subject.case.map, subject.case.active)

-----------------------------------------------------------------------------
(* Documents: each inline, alone and with a text, in each block, and blocks *)
(* in blocks, for pages with and without components and options of their    *)
(* own.                                                                     *)

Inlines == {<<"s", "t">>, <<"a", "t", "https:">>, <<"a", "t", "javascript:">>, <<"c", "t">>,
            <<"b", "t">>, <<"i", "t">>}
Image == <<"i", <<"f", "png">>, "alt">>
Block(letter, x) == <<letter, <<x, <<"s", "u">>>>>>
SmallBlocks == {Block(letter, x) : letter \in {"p", "2"}, x \in Inlines} \cup {<<"c", "ts", "code">>}
Around(n, m) ==
  {<<"q", <<n, m>>>>, <<"u", <<n>>, <<m>>>>, <<"o", <<m, n>>>>, <<"t", TRUE, <<<<<<n>>, <<m>>>>>>>>,
   <<"t", FALSE, <<<<<<m>>, <<>>>>, <<<<>>, <<n>>>>>>>>}
Outer == UNION {Around(n, <<"s", "v">>) : n \in Inlines \cup SmallBlocks}
Card(blocks) == <<"x", "Card", None, blocks>>
Nested == UNION {Around(n, <<"c", "v">>) : n \in Outer} \cup {Card(<<b, Image>>) : b \in Outer}

Options == {None, [imgExt |-> "avif", baseUrl |-> <<"cdn", "/">>, fileUrl |-> None],
            [imgExt |-> None, baseUrl |-> None, fileUrl |-> <<"media">>]}
Components == {{}, {"p", "ul", "pre"}, {"blockquote", "table", "img", "component"}, {"Card", "component"}}

ChooseDocument ==
  Choose("document", [blocks : {<<b, Image>> : b \in SmallBlocks \cup Outer} \cup {<<b>> : b \in Nested},
                      comps : Components, file : Options, context : Options])

(* Every text, mark and image of a document is in its place on the pages of *)
(* all adapters and in Markdown, the images with the URLs of the page's     *)
(* options; an image in a quote, list or table is not (images).             *)
DocumentsAreShown ==
  Is("document") =>
    LET c == subject.case IN
    /\ D!AdaptersShow(c.blocks, c.comps, c.file, c.context)
    /\ D!MarkdownShows(c.blocks, c.file)

(* Embedded images render consistently across sources                       *)
(* (docs/rich-content.md:24-28, :46-47), with the options of the context.              *)
ChooseImages ==
  Choose("images", {<<<<Image, b>>, o>> : b \in Around(Image, <<"s", "v">>), o \in Options \ {None}})
ImagesAreServed == Is("images") => D!ContextIsUsed(subject.case[1], subject.case[2])

-----------------------------------------------------------------------------
(* Media: rules with and without a base, for other collections, with lists  *)
(* of extensions, one to two presets of equal and of other formats, masters *)
(* in the download's format and in another, every encoder, and each picture *)
(* lost in turn.                                                            *)

ImageOpts(format, width, height, quality, rotate, crop) ==
  [format |-> format, width |-> width, height |-> height, fit |-> None, quality |-> quality,
   rotate |-> rotate, crop |-> crop, keepMetadata |-> Zero]
RuleOpts ==
  {ImageOpts(f, w, h, None, None, None) : f \in {None, "png", "avif"}, w \in {None, Zero, 4}, h \in {None, 3}}
    \cup {ImageOpts(f, 4, None, q, r, c) :
             f \in {None, "png", "avif"}, q \in {None, 9}, r \in {None, Zero, 1}, c \in {None, "c"}}
ImageRule(opts, include, exclude, collections) ==
  [mediaType |-> "image", opts |-> opts, include |-> include, exclude |-> exclude,
   collections |-> collections]
Presets == {ImageOpts("png", 2, None, None, None, None), ImageOpts("webp", 2, 2, 5, 1, None),
            ImageOpts(None, None, 2, None, None, None), ImageOpts("png", 2, None, 5, None, None)}
OneRule ==
  {<<ImageRule(o, None, None, None)>> : o \in RuleOpts}
    \cup {<<ImageRule(ImageOpts("jpeg", 1, None, None, None, None), i, x, cs),
            ImageRule(ImageOpts("webp", None, None, 7, 1, None), None, None, None)>> :
            i \in {None, {"png"}}, x \in {None, {"png"}}, cs \in {None, {"d"}, {"c"}}}
Masters(ext) == {None, ImageOpts(IF ext = "png" THEN "avif" ELSE "jpeg", None, None, 9, None, None)}
ImageCases(allRules) ==
  UNION {[rules : allRules, presets : {<<>>} \cup {<<p, q>> : p, q \in Presets}, config : Masters(ext),
          bun : {"absent", "works", "fails"}, ext : {ext}, lost : {{}, {1}, {2}, {1, 2}}] :
         ext \in {"png", "avif"}}
ChooseImage == Choose("image", {c \in ImageCases(OneRule) : O!Matched(c) # None})
(* Files no rule matches: there is none, for this kind, collection or name. *)
NoRules == {<<>>} \cup {<<ImageRule(ImageOpts("jpeg", 1, None, None, None, None), i, None, cs)>> :
                          i \in {None, {}}, cs \in {None, {"d"}}}
ChooseUnmatched == Choose("unmatched", {c \in ImageCases(NoRules) : O!Matched(c) = None})

TransformCases ==
  [img : {[ImageOpts(f, w, h, q, r, None) EXCEPT !.fit = fit] :
            f \in {"jpeg", "avif"}, w \in {None, 4}, h \in {None, 3}, q \in {None, 9},
            r \in {None, 1}, fit \in {None, "inside", "cover"}},
   bun : {"absent", "works", "fails"}, ext : {"png", "avif"}]
ChooseTransform == Choose("transform", TransformCases)

ChooseVideo ==
  Choose("video", [format : {None, "mp4"}, size : {None, Zero, <<1, 1>>}, fps : {None, Zero, 24},
                   seek : {None, Zero, 5}, width : {None, Zero, 8}, height : {None, 6}, bitrate : {None, Zero, 3}])

ContentTypes == {[kind |-> k, ext |-> None] : k \in {None, "octet-stream", "image", "text"}}
                \cup {[kind |-> "image", ext |-> "png"], [kind |-> "video", ext |-> "mp4"]}
ChooseDownload ==
  Choose("download", [type : ContentTypes, disposition : {None, "mp3", "bin"}, known : {None, "bin", "png"},
                      url : {None, "mp4"}, fallback : {"image", "video"}])

(* A rule gives the same pictures with either optimizer and encoder, each   *)
(* under the settings it was made with (m4k-optimizer.ts,                   *)
(* m4k-remote-optimizer.ts, mediaQueue.ts).                                 *)
OptimizersAgree ==
  LET c == subject.case IN
  /\ Is("image") => O!ImagesAgree(c)
  /\ Is("transform") => O!TransformsAgree(c.img, c.bun, c.ext)
  /\ Is("video") => O!VideosAgree(c)
  /\ Is("download") => O!DownloadsAreRecognised(c.type, c.disposition, c.known, c.url, c.fallback)

(* "Files that match no rule pass through untouched"                         *)
(* (packages/contfu/docs/media-optimization.md:79): not so for images, see   *)
(* the README.                                                              *)
UnmatchedPassThrough == Is("unmatched") => O!PassesThrough(subject.case)

(* A picture has the fit its preset or its URL names                         *)
(* (packages/contfu/docs/media-optimization.md:96, :104, :147): not so, see  *)
(* the README.                                                              *)
FitsAreKept ==
  Is("transform") => O!FitIsKept(subject.case.img, subject.case.bun, subject.case.ext)

-----------------------------------------------------------------------------
Init == subject = Nothing

Next == \/ ChooseFilter
        \/ ChooseClient
        \/ ChooseFile
        \/ ChoosePaged
        \/ ChooseItems
        \/ ChooseRelation
        \/ ChooseMapping
        \/ ChooseWiring
        \/ ChooseSanity
        \/ ChoosePlans
        \/ ChooseLocaleMap
        \/ ChooseDocument
        \/ ChooseImages
        \/ ChooseImage
        \/ ChooseUnmatched
        \/ ChooseTransform
        \/ ChooseVideo
        \/ ChooseDownload

Spec == Init /\ [][Next]_subject
=============================================================================
