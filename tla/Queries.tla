------------------------------ MODULE Queries ------------------------------
(***************************************************************************)
(* Queries on the local store: findItems and queryItems, and the two ways  *)
(* to reach findItems, the embedded client (contfu.ts) and the HTTP client *)
(* with the server's routes.  Filters are texts of module Filters.         *)
(*                                                                         *)
(* A row maps the names of its fields to values; a deleted row has a       *)
(* $deletedAt.  A store has its rows, links and, by collection, the i18n   *)
(* settings.  Options are records; Unset stands for undefined, On and Off  *)
(* for true and false.  Locales are texts, for they travel in URLs.        *)
(* Content, relations and included files are left out.                     *)
(***************************************************************************)
EXTENDS Filters

CONSTANTS Unset, On, Off,
          PageSizes   \* ALLOWED_PAGE_SIZES, scaled down

DefaultLimit == 20
Id == <<"$", "id">>
InCol == <<"$", "collection">>
ChangedAt == <<"$", "changedAt">>
DeletedAt == <<"$", "deletedAt">>
Locale == <<"$", "locale">>

Or(x, y) == IF x # Unset THEN x ELSE y   \* the operator ??

-----------------------------------------------------------------------------
(* The i18n plan of a query.                                               *)

RECURSIVE ReferencesLocale(_)
ReferencesLocale(ast) ==
  CASE ast.kind = "comparison" -> ast.field = Locale
    [] ast.kind \in {"and", "or"} -> ReferencesLocale(ast.left) \/ ReferencesLocale(ast.right)
    [] ast.kind = "group" -> ReferencesLocale(ast.expr)
    [] OTHER -> FALSE

(* resolveFallbackLocale                                                    *)
FallbackLocale(fallback, app, required) ==
  CASE fallback \in {Off, Unset} -> Unset
    [] fallback = On /\ app.defaultLocale = Unset -> IF required THEN Throws ELSE Unset
    [] fallback = On /\ app.defaultLocale # Unset -> app.defaultLocale
    [] OTHER -> fallback

(* buildI18nQueryPlan                                                       *)
Plan(q, app, scope, i18n, ast) ==
  LET requested == Or(q.locale, scope.locale)
      wanted == IF requested = Off THEN Unset ELSE Or(requested, app.defaultLocale)
      configured == IF requested = Off THEN Off
                    ELSE Or(q.fallback, Or(scope.fallback, app.fallback))
      fallback == FallbackLocale(configured, app, q.fallback = On)
  IN CASE i18n = Unset -> [key |-> Unset, wanted |-> Unset, fallback |-> Unset]
       [] i18n # Unset /\ ReferencesLocale(ast) ->
            [key |-> i18n.key, wanted |-> Unset, fallback |-> Unset]
       [] OTHER -> [key |-> i18n.key, wanted |-> wanted,
                    fallback |-> IF fallback = Throws THEN Throws
                                 ELSE IF Unset \in {wanted, fallback} \/ fallback = wanted
                                 THEN Unset ELSE fallback]

(* extractCollectionName: the first $collection = "..." of the filter.      *)
MarkAt(text, i) == IF i \in DOMAIN text THEN text[i] ELSE "end"
NamedAt(text, i) ==
  LET IsSpace(mark) == mark \in Spaces
      eq == RunEnd(text, i + 2, IsSpace)
      open == RunEnd(text, eq + 1, IsSpace)
      close == RunEnd(text, open + 1, LAMBDA mark : mark # DQ)
  IN IF /\ MarkAt(text, i) = "$" /\ MarkAt(text, i + 1) = "collection"
        /\ MarkAt(text, eq) = "=" /\ MarkAt(text, open) = DQ
        /\ MarkAt(text, close) = DQ /\ close > open + 1
     THEN SubSeq(text, open + 1, close - 1) ELSE Unset
ExtractCollection(text) ==
  LET named == {i \in DOMAIN text : NamedAt(text, i) # Unset} IN
  IF named = {} THEN Unset ELSE NamedAt(text, Min(named))

-----------------------------------------------------------------------------
(* findItems.                                                              *)

IsDeleted(row) == DeletedAt \in DOMAIN row

(* buildWhere                                                               *)
Where(q, plan, db, row) ==
  /\ CASE q.onlyDeleted -> IsDeleted(row)
       [] ~q.onlyDeleted /\ ~q.includeDeleted -> ~IsDeleted(row)
       [] OTHER -> TRUE
  /\ Kept(q.filter, row, db.links)
  /\ q.search # Unset => /\ Column(<<"title">>, row) # Null
                         /\ Within(q.search, row[<<"title">>].text)
  /\ plan.wanted # Unset => Column(Locale, row) \in {String(plan.wanted), String(plan.fallback)}

(* buildOrderBy.  A sort option is a text, whose - means descending, or a   *)
(* field with its direction.  RowId is the numeric part of an identity.     *)
RowId == <<"id">>
OrderColumn(field, row) ==
  IF field = RowId THEN Number(row[Id].identity[2]) ELSE Column(field, row)

Clause(field, desc) == [field |-> field, desc |-> desc]
SortClause(s) ==
  IF s.kind = "text" /\ s.text[1] = "-" THEN Clause(Tail(s.text), TRUE)
  ELSE Clause(s.text, s.kind = "desc")
OrderBy(sort) ==
  IF sort = Unset THEN <<Clause(ChangedAt, TRUE), Clause(RowId, FALSE)>>
  ELSE FlattenSeq([k \in DOMAIN sort |->
         LET c == SortClause(sort[k]) IN
         IF c.field = Id THEN <<Clause(InCol, c.desc), Clause(RowId, c.desc)>> ELSE <<c>>])
       \o <<Clause(RowId, FALSE)>>

(* SQLite orders NULL first.                                                *)
Before(x, y) == (x = Null /\ y # Null) \/ (x # Null /\ y # Null /\ Less(x, y))
Precedes(clauses, a, b) ==
  LET X(k) == OrderColumn(clauses[k].field, a)
      Y(k) == OrderColumn(clauses[k].field, b)
      Differ == {k \in DOMAIN clauses : Before(X(k), Y(k)) \/ Before(Y(k), X(k))}
  IN Differ # {} /\ LET k == Min(Differ) IN
                    IF clauses[k].desc THEN Before(Y(k), X(k)) ELSE Before(X(k), Y(k))

(* GROUP BY the key: the row of the wanted locale stands for its group.  A  *)
(* faulty variant takes any row of the group.                               *)
AnyOf(plan, group) == CHOOSE row \in group : TRUE
Preferred(plan, group) ==
  CHOOSE row \in group : \A other \in group : row[Locale] = String(plan.wanted)
                                              \/ other[Locale] # String(plan.wanted)

Page(s, offset, limit) == SubSeq(s, offset + 1, Min({offset + limit, Len(s)}))

(* pickRequestedFields, with the empty links every item gets.               *)
Picked(row, fields) ==
  [f \in {g \in DOMAIN row : fields = Unset \/ g \in Range(fields)} \cup {<<"links">>} |->
     IF f \in DOMAIN row THEN row[f] ELSE <<>>]

PlanFor(q, app, scope, db) ==
  LET collection == ExtractCollection(q.filter) IN
  Plan(q, app, scope, IF collection = Unset THEN Unset ELSE db.i18n[collection],
       Parse(Tokenize(q.filter)))

IsGrouped(plan) == plan.wanted # Unset /\ plan.fallback # Unset
KeyIn(plan, row) == Column(plan.key, row)
KeysIn(plan, found) == {KeyIn(plan, row) : row \in found}
Grouped(plan, found) ==
  IF IsGrouped(plan)
  THEN {Preferred(plan, {row \in found : KeyIn(plan, row) = key}) : key \in KeysIn(plan, found)}
  ELSE found
Sorted(rows, clauses) == SetToSortSeq(rows, LAMBDA a, b : Precedes(clauses, a, b))

Limit(q) == IF q.limit = Unset THEN DefaultLimit ELSE Max({1, q.limit})
Offset(q) == IF q.offset = Unset THEN 0 ELSE Max({0, q.offset})
Answer(q, plan, found) ==
  LET page == Page(Sorted(Grouped(plan, found), OrderBy(q.sort)), Offset(q), Limit(q)) IN
  IF \/ plan.fallback = Throws \/ IsRefused(q.filter)
     \/ IsGrouped(plan) /\ plan.key = Unset
  THEN Throws
  ELSE [items |-> [k \in DOMAIN page |-> Picked(page[k], q.fields)],
        total |-> IF IsGrouped(plan) THEN Cardinality(KeysIn(plan, found) \ {Null})
                  ELSE Cardinality(found),
        limit |-> Limit(q), offset |-> Offset(q)]

Planned(q, plan, db) == Answer(q, plan, {row \in db.rows : Where(q, plan, db, row)})
FindItems(q, app, scope, db) == Planned(q, PlanFor(q, app, scope, db), db)

-----------------------------------------------------------------------------
(* The embedded client: createLocalTypedClient.                            *)

Narrowed(q) ==
  [q EXCEPT !.filter = IF q.collection = Unset THEN @ ELSE InCollection(q.collection, @)]

Embedded(q, app, scope, db) == FindItems(Narrowed(q), app, scope, db)

-----------------------------------------------------------------------------
(* The HTTP client and the route it asks.  Parameters are texts, the        *)
(* numbers excepted; an absent one is Unset.                                *)

TextOfFlag(v) == CASE v = On -> <<"true">> [] v = Off -> <<"false">> [] OTHER -> v
FlagOfText(t) == CASE t = <<"true">> -> On [] t = <<"false">> -> Off [] OTHER -> t

JoinTexts(texts) ==
  FoldLeft(LAMBDA all, t : IF all = Unset THEN t ELSE all \o <<",">> \o t, Unset, texts)

RECURSIVE SplitText(_)
SplitText(text) ==
  LET comma == RunEnd(text, 1, LAMBDA mark : mark # ",") IN
  IF comma > Len(text) THEN <<text>>
  ELSE <<SubSeq(text, 1, comma - 1)>> \o SplitText(SubSeq(text, comma + 1, Len(text)))

SortText(s) == IF s.kind = "desc" THEN <<"-">> \o s.text ELSE s.text

(* serializeQueryParams                                                     *)
Params(q, locale, fallback) ==
  [q EXCEPT !.filter = IF @ = <<>> THEN Unset ELSE @,
            !.sort = IF @ \in {Unset, <<>>} THEN Unset
                     ELSE JoinTexts([k \in DOMAIN @ |-> SortText(@[k])]),
            !.fields = IF @ = Unset THEN @ ELSE IF @ = <<>> THEN <<>> ELSE JoinTexts(@),
            !.locale = TextOfFlag(locale),
            !.fallback = TextOfFlag(fallback)]

(* The callable of buildClient: what it sends.  The scope starts with the   *)
(* client's i18n settings; withLocale replaces its parts.                   *)
ClientScope(app, scope) ==
  [locale |-> Or(scope.locale, app.defaultLocale),
   fallback |-> Or(scope.fallback, app.fallback),
   explicit |-> scope.fallback # Unset]

ResolveFallbackParam(fallback, app, explicit) ==
  IF fallback = On THEN Or(app.defaultLocale, IF explicit THEN On ELSE Unset) ELSE fallback

(* A faulty variant does not resolve a fallback of true to the locale it    *)
(* stands for.                                                              *)
SentUnresolved(q, app, scope) ==
  LET own == ClientScope(app, scope) IN
  Params(q, Or(q.locale, own.locale), Or(q.fallback, own.fallback))

Sent(q, app, scope) ==
  LET own == ClientScope(app, scope)
      locale == Or(q.locale, own.locale)
      fallback == ResolveFallbackParam(Or(q.fallback, own.fallback), app,
                                       q.fallback # Unset \/ own.explicit)
  IN Params(q, locale,
            IF locale = Off /\ q.fallback = Unset /\ own.fallback # Off THEN Unset ELSE fallback)

(* deserializeQueryParams                                                   *)
Deserialized(params) ==
  [params EXCEPT !.filter = IF @ = Unset THEN <<>> ELSE @,
                 !.sort = IF @ = Unset THEN @
                          ELSE LET texts == SplitText(@) IN
                               [k \in DOMAIN texts |-> [kind |-> "text", text |-> texts[k]]],
                 !.fields = CASE @ = Unset -> Unset [] @ = <<>> -> <<>> [] OTHER -> SplitText(@),
                 !.locale = IF @ = <<"false">> THEN Off ELSE @,
                 !.fallback = FlagOfText(@)]

(* applyI18nDefaults                                                        *)
WithDefaults(q, params, server) ==
  [q EXCEPT !.locale = IF params.locale = Unset THEN server.defaultLocale ELSE @,
            !.fallback = IF params.fallback = Unset
                            /\ (server.fallback # On \/ server.defaultLocale # Unset)
                         THEN server.fallback ELSE @]

(* handleItems and handleCollectionItems: the collection is in the path.    *)
NoScope == [locale |-> Unset, fallback |-> Unset]
Handled(params, server, db) ==
  FindItems(Narrowed(WithDefaults(Deserialized(params), params, server)), server, NoScope, db)

OverHttp(q, app, scope, server, db) == Handled(Sent(q, app, scope), server, db)

-----------------------------------------------------------------------------
(* queryItems.                                                             *)

NormalizePage(n) == IF n = Unset \/ n < 1 THEN 1 ELSE n

Distance(a, b) == IF a < b THEN b - a ELSE a - b
NormalizePageSize(n) ==
  IF n \in {Unset, 0} THEN Min(PageSizes \ {Min(PageSizes)})
  ELSE LET nearest == {s \in PageSizes : \A t \in PageSizes : Distance(n, s) <= Distance(n, t)}
       IN Min(nearest)

(* buildPropFilter: the types must agree; a contains is for texts.          *)
PropHolds(f, row) ==
  LET x == Column(f.key, row) IN
  /\ x # Null
  /\ IF f.op = "eq" THEN DOMAIN x = DOMAIN f.value /\ x = f.value
     ELSE IsText(x) /\ Within(f.value.text, x.text)

ItemsWhere(in, row) ==
  /\ CASE in.onlyDeleted -> IsDeleted(row)
       [] ~in.onlyDeleted /\ ~in.includeDeleted -> ~IsDeleted(row)
       [] OTHER -> TRUE
  /\ in.collection # Unset => row[InCol] = String(<<in.collection>>)
  /\ in.from # Unset => row[ChangedAt].number >= in.from
  /\ \A f \in in.propFilters : PropHolds(f, row)

ItemsOrder(in) ==
  <<Clause(IF in.sortField = "collection" THEN InCol ELSE ChangedAt, in.sortDirection # "asc"),
    Clause(RowId, FALSE)>>

QueryItems(in, db) ==
  LET page == NormalizePage(in.page)
      size == NormalizePageSize(in.pageSize)
      found == {row \in db.rows : ItemsWhere(in, row)}
      sorted == Sorted(found, ItemsOrder(in))
  IN [items |-> Page(sorted, (page - 1) * size, size), total |-> Len(sorted), page |-> page,
      pageSize |-> size, totalPages |-> (Len(sorted) + size - 1) \div size]

-----------------------------------------------------------------------------
(* Reading on from one page to the next until the total is reached shows    *)
(* every matching entry once: of findItems, one row for each key that       *)
(* matches in the wanted or the fallback locale, and the wanted locale's    *)
(* row where there is one; of queryItems, every matching row (every row     *)
(* has its key, and one in each locale).                                    *)
PagesOf(size, total) == 1..((total + size - 1) \div size)
ReadAll(results, size) ==
  FlattenSeq([k \in PagesOf(size, results[1].total) |-> results[k].items])

Wants(row, q, app) ==
  LET locale == Or(q.locale, app.defaultLocale) IN
  /\ ~IsDeleted(row) /\ row[InCol] = String(<<q.collection>>)
  /\ q.filter = <<>> \/ Holds(Parse(Tokenize(q.filter)), row, {}) = TRUE
  /\ row[Locale] \in {String(locale), String(app.fallback)}

EachKeyIsShown(shown, visible, wanted) ==
  LET Key(row) == row[<<"slug">>] IN
  /\ IsInjective([k \in DOMAIN shown |-> Key(shown[k])])
  /\ {Key(shown[k]) : k \in DOMAIN shown} = {Key(row) : row \in visible}
  /\ \A k \in DOMAIN shown : shown[k][Locale] # wanted =>
       ~\E row \in visible : Key(row) = Key(shown[k]) /\ row[Locale] = wanted

PagesAreComplete(q, app, db) ==
  LET results == [k \in 1..Cardinality(db.rows) |->
                    Embedded([q EXCEPT !.offset = (k - 1) * q.limit], app, NoScope, db)]
  IN EachKeyIsShown(ReadAll(results, q.limit), {row \in db.rows : Wants(row, q, app)},
                    String(Or(q.locale, app.defaultLocale)))

EachRowIsShown(shown, total, rows) ==
  IsInjective(shown) /\ Range(shown) = rows /\ Len(shown) = total

ItemPagesAreComplete(in, db) ==
  LET results == [k \in 1..Cardinality(db.rows) |-> QueryItems([in EXCEPT !.page = k], db)] IN
  EachRowIsShown(FlattenSeq([k \in 1..results[1].totalPages |-> results[k].items]),
                 results[1].total, {row \in db.rows : ItemsWhere(in, row)})

(* The embedded client mirrors the HTTP client for seamless switching       *)
(* (contfu.ts:236): the same call, with the same i18n settings and at most  *)
(* one withLocale, has the same result, whether the server has none of the  *)
(* settings or the same.  Left out: texts with commas and an empty list as  *)
(* sort, and withLocale(..., true) without a default locale, where the two  *)
(* differ.                                                                  *)
ClientsAgree(q, app, scope, db) ==
  \A server \in {app, [defaultLocale |-> Unset, fallback |-> Unset]} :
    OverHttp(q, app, scope, server, db) = Embedded(q, app, scope, db)

(* docs/querying.md:65: sort is a comma-separated field list.               *)
SortListIsSplit(q, app, db) ==
  LET texts == SplitText(q.sort[1].text) IN
  Embedded(q, app, NoScope, db)
    = Embedded([q EXCEPT !.sort = [k \in DOMAIN texts |-> [kind |-> "text", text |-> texts[k]]]],
               app, NoScope, db)
=============================================================================
