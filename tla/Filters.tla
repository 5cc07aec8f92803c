------------------------------ MODULE Filters ------------------------------
(***************************************************************************)
(* Filters: the helpers that write them (core/src/filter-helpers.ts), and  *)
(* the lexer, the parser and the SQL of contfu/src/infra/filter.           *)
(*                                                                         *)
(* A text is a sequence of marks.  A mark is one character, but a word     *)
(* stands for all its letters; decimals are left out.  A field is the      *)
(* sequence of marks of its name.  A value is tagged with its type, which  *)
(* is what SQLite compares first; Null is a model value, and so is Throws,  *)
(* what a query with a filter that is refused gives.                        *)
(***************************************************************************)
EXTENDS Subject, Integers, Sequences, FiniteSets, SequencesExt

CONSTANTS Null, Throws

Escape == "\\"
DQ == "\""
Quotes == {DQ, "'"}
Digits == {"0", "1", "2", "3", "4", "5", "6", "7", "8", "9"}
Spaces == {" "}
TwoChar == {<<"!", "=">>, <<">", "=">>, <<"<", "=">>, <<"!", "~">>, <<"?", "=">>}
OneChar == {"=", ">", "<", "~"}
Brackets == {"(", ")", ",", "[", "]"}
Punctuation == Quotes \cup Spaces \cup OneChar \cup Brackets \cup {"!", "?", "&", "|", "$", Escape}
Keywords == {"true", "false", "null"}
SystemFields == {"id", "collection", "changedAt", "locale", "draft"}

String(v) == [text |-> v]
Number(n) == [number |-> n]
Identity(c, id) == [identity |-> <<c, id>>]
List(vs) == [list |-> vs]
IsText(v) == v # Null /\ DOMAIN v = {"text"}
IsNumber(v) == v # Null /\ DOMAIN v = {"number"}

DigitOf(d) == CHOOSE n \in 0..9 : ToString(n) = d
NumberOf(ds) == FoldLeft(LAMBDA n, d : 10 * n + DigitOf(d), 0, ds)

-----------------------------------------------------------------------------
(* The lexer: tokenize.                                                    *)

Token(type, value) == [type |-> type, value |-> value]

IsWord(mark) == mark \notin Punctuation \cup Digits \cup {"-"}

(* The first position from i on whose mark is not as wanted, or the end.    *)
RunEnd(text, i, Wanted(_)) ==
  Min({j \in i..(Len(text) + 1) : j = Len(text) + 1 \/ ~Wanted(text[j])})

IdentEnd(text, i) == RunEnd(text, i, LAMBDA mark : IsWord(mark) \/ mark \in Digits)

(* readString: to the quote that is not escaped, or to the end.             *)
RECURSIVE StringEnd(_, _, _)
StringEnd(text, i, quote) ==
  CASE i > Len(text) -> Len(text) + 1
    [] i <= Len(text) /\ text[i] = quote -> i
    [] i <= Len(text) /\ text[i] = Escape -> StringEnd(text, i + 2, quote)
    [] OTHER -> StringEnd(text, i + 1, quote)

RECURSIVE Unescaped(_)
Unescaped(s) ==
  CASE s = <<>> -> <<>>
    [] s # <<>> /\ Head(s) = Escape -> SubSeq(Tail(s), 1, Min({1, Len(s) - 1})) \o Unescaped(SubSeq(s, 3, Len(s)))
    [] OTHER -> <<Head(s)>> \o Unescaped(Tail(s))

(* An identity is the JSON of a collection and a positive number.           *)
IdentityEnd(text, i) ==
  Min({j \in i..Len(text) : text[j] = "]"
         /\ Cardinality({k \in i..j : text[k] = DQ}) % 2 = 0} \cup {Len(text)})
IsIdentity(s) ==
  /\ Len(s) >= 7 /\ s[2] = DQ /\ s[3] # DQ /\ s[4] = DQ /\ s[5] = ","
  /\ \A k \in 6..(Len(s) - 1) : s[k] \in Digits
  /\ NumberOf(SubSeq(s, 6, Len(s) - 1)) > 0

(* The token that starts at i and where the next one is looked for.         *)
Scanned(token, next) == [token |-> token, next |-> next]

Scan(text, i) ==
  LET mark == text[i]
      two == SubSeq(text, i, Min({i + 1, Len(text)}))
      word == SubSeq(text, i, IdentEnd(text, i + 1) - 1)
      digits == RunEnd(text, i + 1, LAMBDA m : m \in Digits)
  IN CASE mark = "[" ->
            LET j == IdentityEnd(text, i) IN
            Scanned(Token(IF IsIdentity(SubSeq(text, i, j)) THEN "identity" ELSE "error",
                          SubSeq(text, i, j)), j + 1)
       [] mark \in Quotes ->
            LET j == StringEnd(text, i + 1, mark) IN
            Scanned(Token("string", Unescaped(SubSeq(text, i + 1, j - 1))), j + 1)
       [] two \in TwoChar -> Scanned(Token("op", two), i + 2)
       [] two = <<"&", "&">> -> Scanned(Token("and", two), i + 2)
       [] two = <<"|", "|">> -> Scanned(Token("or", two), i + 2)
       [] two \notin TwoChar /\ mark \in OneChar -> Scanned(Token("op", <<mark>>), i + 1)
       [] mark \in {"(", ")", ","} -> Scanned(Token(mark, <<mark>>), i + 1)
       [] mark \in Digits \/ (mark = "-" /\ digits > i + 1) ->
            Scanned(Token("number", SubSeq(text, i, digits - 1)), digits)
       [] mark = "$" /\ Len(word) > 1 /\ IsWord(word[2]) ->
            Scanned(Token(IF Len(word) = 2 /\ word[2] \in SystemFields THEN "system" ELSE "error",
                          word), i + Len(word))
       [] IsWord(mark) ->
            Scanned(Token(IF Len(word) = 1 /\ mark \in Keywords THEN "keyword" ELSE "identifier",
                          word), i + Len(word))
       [] OTHER -> Scanned(Token("error", <<mark>>), i + 1)

RECURSIVE TokensFrom(_, _)
TokensFrom(text, i) ==
  CASE i > Len(text) -> <<>>
    [] i <= Len(text) /\ text[i] \in Spaces -> TokensFrom(text, i + 1)
    [] OTHER -> LET s == Scan(text, i) IN <<s.token>> \o TokensFrom(text, s.next)

Tokenize(text) == TokensFrom(text, 1)

-----------------------------------------------------------------------------
(* The parser: parseOr, parseAnd and parsePrimary give an AST and the       *)
(* position after it, which is 0 after an error.                            *)

Type(ts, i) == IF i \in DOMAIN ts THEN ts[i].type ELSE "end"

Failed == [ast |-> [kind |-> "error"], at |-> 0]
Parsed(ast, at) == [ast |-> ast, at |-> at]

ValueTypes == {"identity", "string", "number", "keyword"}

(* parseValue                                                               *)
ValueOf(token) ==
  LET v == token.value IN
  CASE token.type = "string" -> String(v)
    [] token.type = "number" -> IF v[1] = "-" THEN Number(-NumberOf(Tail(v)))
                                ELSE Number(NumberOf(v))
    [] token.type = "identity" -> Identity(v[3], NumberOf(SubSeq(v, 6, Len(v) - 1)))
    [] token.type = "keyword" /\ v = <<"null">> -> Null
    [] token.type = "keyword" /\ v # <<"null">> -> Number(IF v = <<"true">> THEN 1 ELSE 0)

(* The arguments of a function, between its parentheses, by commas.         *)
ArgTypes == {"identifier", "system", "string"}
AreArgs(ts) ==
  /\ ts = <<>> \/ Len(ts) % 2 = 1
  /\ \A k \in DOMAIN ts : IF k % 2 = 1 THEN ts[k].type \in ArgTypes ELSE ts[k].type = ","
ArgsOf(ts) == [k \in 1..((Len(ts) + 1) \div 2) |-> ts[2 * k - 1].value]

RECURSIVE ParseOr(_, _), ParseAnd(_, _), ParsePrimary(_, _), OrRest(_, _), AndRest(_, _)

Comparison(ts, i, node) ==
  IF Type(ts, i) = "op" /\ Type(ts, i + 1) \in ValueTypes
  THEN Parsed([op |-> ts[i].value, value |-> ValueOf(ts[i + 1])] @@ node, i + 2)
  ELSE Failed

ParsePrimary(ts, i) ==
  CASE Type(ts, i) = "(" ->
         LET e == ParseOr(ts, i + 1) IN
         IF Type(ts, e.at) = ")" THEN Parsed([kind |-> "group", expr |-> e.ast], e.at + 1)
         ELSE Failed
    [] Type(ts, i) \in {"identifier", "system"} /\ Type(ts, i + 1) = "(" ->
         LET close == RunEnd(ts, i + 2, LAMBDA t : t.type # ")")
             args == SubSeq(ts, i + 2, close - 1)
         IN IF close <= Len(ts) /\ AreArgs(args)
            THEN Comparison(ts, close + 1,
                            [kind |-> "function", name |-> ts[i].value, args |-> ArgsOf(args)])
            ELSE Failed
    [] Type(ts, i) \in {"identifier", "system"} /\ Type(ts, i + 1) # "(" ->
         Comparison(ts, i + 1, [kind |-> "comparison", field |-> ts[i].value])
    [] OTHER -> Failed

Joined(kind, left, right) ==
  IF right.at = 0 THEN Failed
  ELSE Parsed([kind |-> kind, left |-> left.ast, right |-> right.ast], right.at)

AndRest(ts, left) ==
  IF Type(ts, left.at) = "and"
  THEN AndRest(ts, Joined("and", left, ParsePrimary(ts, left.at + 1))) ELSE left

ParseAnd(ts, i) == AndRest(ts, ParsePrimary(ts, i))

OrRest(ts, left) ==
  IF Type(ts, left.at) = "or"
  THEN OrRest(ts, Joined("or", left, ParseAnd(ts, left.at + 1))) ELSE left

ParseOr(ts, i) == OrRest(ts, ParseAnd(ts, i))

(* parse: all tokens, or an error, which is thrown (also the lexer's).      *)
Parse(ts) ==
  LET e == ParseOr(ts, 1) IN
  IF e.at = Len(ts) + 1 /\ \A k \in DOMAIN ts : ts[k].type # "error" THEN e.ast ELSE Failed.ast

-----------------------------------------------------------------------------
(* The SQL of a filter, on a row and the links of the store.  A condition   *)
(* is TRUE, FALSE or Null; a row is kept when it is TRUE.                   *)

(* getColumn: a row is a function of field names; $draft defaults to 0.     *)
Column(field, row) ==
  CASE field \in DOMAIN row -> row[field]
    [] field \notin DOMAIN row /\ field = <<"$", "draft">> -> Number(0)
    [] OTHER -> Null

Collation == <<"a", "b", "de", "en", "x", "y">>
Position(mark) == Min({k \in DOMAIN Collation : Collation[k] = mark} \cup {Len(Collation) + 1})

(* Numbers are less than texts; texts are ordered by their first mark.      *)
Less(x, y) ==
  CASE IsNumber(x) -> IF IsNumber(y) THEN x.number < y.number ELSE TRUE
    [] IsText(x) -> IsText(y) /\ Position(x.text[1]) < Position(y.text[1])
    [] OTHER -> FALSE

Within(part, s) ==
  \E k \in 0..(Len(s) - Len(part)) : SubSeq(s, k + 1, k + Len(part)) = part

(* compileComparison                                                        *)
Compare(op, x, y) ==
  CASE op = <<"=">> /\ y = Null -> x = Null
    [] op = <<"!", "=">> /\ y = Null -> x # Null
    [] op = <<"?", "=">> -> x # Null /\ y \in x.list
    [] (op # <<"?", "=">> /\ x = Null) \/ (op \notin {<<"=">>, <<"!", "=">>, <<"?", "=">>} /\ y = Null)
         -> Null
    [] OTHER -> CASE op = <<"=">> -> x = y
                  [] op = <<"!", "=">> -> x # y
                  [] op = <<">">> -> Less(y, x)
                  [] op = <<">", "=">> -> ~Less(x, y)
                  [] op = <<"<">> -> Less(x, y)
                  [] op = <<"<", "=">> -> ~Less(y, x)
                  [] op = <<"~">> -> Within(y.text, x.text)
                  [] op = <<"!", "~">> -> ~Within(y.text, x.text)

(* Three-valued AND and OR.                                                 *)
Both(p, q) == CASE p = FALSE \/ q = FALSE -> FALSE [] p = TRUE /\ q = TRUE -> TRUE [] OTHER -> Null
Either(p, q) == CASE p = TRUE \/ q = TRUE -> TRUE [] p = FALSE /\ q = FALSE -> FALSE [] OTHER -> Null

PropOf(args) == IF args = <<>> THEN Null ELSE args[1]

(* parentExpr, basenameExpr and depthExpr: what ends with the last slash,   *)
(* what follows it, and the number of parts.                                *)
PathFunctions == {<<"parent">>, <<"basename">>, <<"depth">>}
LastSlash(path) == Max({k \in DOMAIN path : path[k] = "/"} \cup {0})
PathFunction(name, v) ==
  CASE v = Null -> IF name = <<"parent">> THEN String(<<>>) ELSE Null
    [] v # Null /\ name = <<"parent">> -> String(SubSeq(v.text, 1, LastSlash(v.text)))
    [] v # Null /\ name = <<"basename">> -> String(SubSeq(v.text, LastSlash(v.text) + 1, Len(v.text)))
    [] v # Null /\ name = <<"depth">> ->
         Number(Cardinality({k \in DOMAIN v.text : v.text[k] = "/"}) + 1)

(* compileFilter                                                            *)
RECURSIVE Holds(_, _, _)
Holds(ast, row, links) ==
  LET id == Column(<<"$", "id">>, row) IN
  CASE ast.kind = "comparison" -> Compare(ast.op, Column(ast.field, row), ast.value)
    [] ast.kind = "function" /\ ast.name = <<"linksTo">> ->
         [from |-> id, prop |-> PropOf(ast.args), to |-> ast.value] \in links
    [] ast.kind = "function" /\ ast.name = <<"linkedFrom">> ->
         [from |-> ast.value, prop |-> PropOf(ast.args), to |-> id] \in links
    [] ast.kind = "function" /\ ast.name \in PathFunctions ->
         Compare(ast.op, PathFunction(ast.name, Column(PropOf(ast.args), row)), ast.value)
    [] ast.kind = "and" -> Both(Holds(ast.left, row, links), Holds(ast.right, row, links))
    [] ast.kind = "or" -> Either(Holds(ast.left, row, links), Holds(ast.right, row, links))
    [] ast.kind = "group" -> Holds(ast.expr, row, links)

(* What is thrown at: a text that does not parse, a link to what is no      *)
(* identity, $id against another value, and an unknown function.            *)
IsIdentityValue(v) == v # Null /\ DOMAIN v = {"identity"}
RECURSIVE Refused(_)
Refused(ast) ==
  CASE ast.kind = "comparison" ->
         ast.field = <<"$", "id">> /\ ast.value # Null /\ ~IsIdentityValue(ast.value)
    [] ast.kind = "function" /\ ast.name \in {<<"linksTo">>, <<"linkedFrom">>} ->
         ~IsIdentityValue(ast.value)
    [] ast.kind = "function" /\ ast.name \notin {<<"linksTo">>, <<"linkedFrom">>} ->
         ast.name \notin PathFunctions
    [] ast.kind \in {"and", "or"} -> Refused(ast.left) \/ Refused(ast.right)
    [] ast.kind = "group" -> Refused(ast.expr)
    [] OTHER -> TRUE
IsRefused(text) == text # <<>> /\ Refused(Parse(Tokenize(text)))

(* Whether a query with this filter, if it is not refused, finds the row;   *)
(* no text is no filter.                                                    *)
Kept(text, row, links) == text = <<>> \/ Holds(Parse(Tokenize(text)), row, links) = TRUE

-----------------------------------------------------------------------------
(* The helpers.  An expression is a helper with its operands.               *)

DigitsOf(n) == <<ToString(n)>>  \* of one digit

(* formatValue                                                              *)
Format(v) ==
  CASE v = Null -> <<"null">>
    [] v # Null /\ DOMAIN v = {"identity"} ->
         <<"[", DQ, v.identity[1], DQ, ",">> \o DigitsOf(v.identity[2]) \o <<"]">>
    [] v # Null /\ IsText(v) -> <<DQ>> \o v.text \o <<DQ>>
    [] v # Null /\ IsNumber(v) -> DigitsOf(v.number)

PropArg(prop) == IF prop = Null THEN <<>> ELSE <<DQ>> \o prop \o <<DQ>>

(* Faulty variant: the parts are joined as they are.                        *)
Bare(text) == text
Wrapped(text) == <<"(">> \o text \o <<")">>

RECURSIVE TextOf(_)
TextOf(e) ==
  CASE e.helper \in {<<"linksTo">>, <<"linkedFrom">>} ->
         e.helper \o <<"(">> \o PropArg(e.prop) \o <<")", " ", "=", " ">> \o Format(e.value)
    [] e.helper \in {<<"&", "&">>, <<"|", "|">>} ->
         FoldLeft(LAMBDA text, part :
                    text \o (IF text = <<>> THEN <<>> ELSE <<" ">> \o e.helper \o <<" ">>)
                         \o Wrapped(TextOf(part)), <<>>, e.parts)
    [] OTHER -> e.field \o <<" ">> \o e.helper \o <<" ">> \o Format(e.value)

(* The query callable narrows a filter to its collection.                   *)
InCollection(c, text) ==
  <<"$", "collection", " ", "=", " ", DQ, c, DQ>>
    \o IF text = <<>> THEN <<>> ELSE <<" ", "&", "&", " ">> \o Wrapped(text)

-----------------------------------------------------------------------------
(* What the helpers' names say of a row.  A comparison with a missing       *)
(* property is not true, but for equality with null.                        *)
RECURSIVE Means(_, _, _)
Means(e, row, links) ==
  LET x == Column(e.field, row) y == e.value IN
  CASE e.helper = <<"&", "&">> -> \A k \in DOMAIN e.parts : Means(e.parts[k], row, links)
    [] e.helper = <<"|", "|">> -> \E k \in DOMAIN e.parts : Means(e.parts[k], row, links)
    [] e.helper = <<"linksTo">> -> [from |-> row[<<"$", "id">>], prop |-> e.prop, to |-> y] \in links
    [] e.helper = <<"linkedFrom">> -> [from |-> y, prop |-> e.prop, to |-> row[<<"$", "id">>]] \in links
    [] e.helper = <<"=">> -> x = y
    [] e.helper = <<"!", "=">> -> IF y = Null THEN x # Null ELSE x # Null /\ x # y
    [] e.helper = <<"?", "=">> -> x # Null /\ y \in x.list
    [] e.helper = <<">">> -> x # Null /\ Less(y, x)
    [] e.helper = <<"<", "=">> -> x # Null /\ ~Less(y, x)
    [] e.helper = <<"~">> -> x # Null /\ Within(y.text, x.text)
    [] e.helper = <<"!", "~">> -> x # Null /\ ~Within(y.text, x.text)

(* A filter built by the helpers, written out, lexed, parsed and compiled   *)
(* to SQL with its three values, keeps exactly the rows that the            *)
(* composition of its parts means, however they are nested, also when the   *)
(* callable narrows it to a collection (values without quotes).             *)
FilterIsMeant(e, rows, links) ==
  /\ ~IsRefused(TextOf(e))
  /\ \A row \in rows :
       /\ Kept(TextOf(e), row, links) = Means(e, row, links)
       /\ \A c \in {"a", "b"} :
            Kept(InCollection(c, TextOf(e)), row, links)
              = (row[<<"$", "collection">>] = String(<<c>>) /\ Means(e, row, links))
=============================================================================
