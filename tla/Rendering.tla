----------------------------- MODULE Rendering -----------------------------
(***************************************************************************)
(* Rich content on its way to the page: the string renderers of core       *)
(* (render.ts, markdown.ts) and the adapters of React, Vue, Solid, Svelte   *)
(* and Angular, each of which walks the same blocks on its own.             *)
(*                                                                         *)
(* A block or inline is the tuple of core/src/blocks.ts, a plain string     *)
(* <<"s", text>>.  HTML is the tree that a browser builds of it, so that    *)
(* escaping, which only keeps a text from being read as markup, does not    *)
(* show.  Markdown is a sequence of tokens: marked texts, line starts and   *)
(* line ends.  A reference to a file and a URL are sequences of parts; the  *)
(* components of a page are the keys that it overrides.                     *)
(***************************************************************************)
EXTENDS Integers, Sequences, SequencesExt, TLC

CONSTANT None   \* an option that is not set

-----------------------------------------------------------------------------
(* core/src/blocks.ts: some blocks share their letter with an inline.       *)

(* A faulty variant takes every code for an inline one.                     *)
IsCode(x) == x[1] = "c"
IsMonospace(x) == x[1] = "c" /\ Len(x) = 2
IsItalic(x) == x[1] = "i"
IsInline(x) == x[1] \in {"s", "a", "b"} \/ IsMonospace(x) \/ IsItalic(x)

SafeSchemes == {"http:", "https:", "mailto:", "tel:", "relative"}
IsSafe(href) == href \in SafeSchemes   \* the identity of an item is not

BuildFileUrl(canonical, opts) ==
  LET set(field) == opts # None /\ opts[field] # None
      id == Head(canonical)
      ext == IF set("imgExt") THEN opts.imgExt ELSE Last(canonical)
      base == IF set("baseUrl") THEN opts.baseUrl ELSE <<"/", "files">>
  IN IF id \in {"http://", "https://"} THEN canonical
     ELSE IF set("fileUrl") THEN opts.fileUrl \o <<id, ext>>
     ELSE (IF Last(base) = "/" THEN Front(base) ELSE base) \o <<"/", id, ".", ext>>

-----------------------------------------------------------------------------
(* HTML: elements with attributes and children.                             *)

Text(t) == [text |-> t]
El(tag, attrs, kids) == [tag |-> tag, attrs |-> attrs, kids |-> kids]
Plain(tag, kids) == <<El(<<"", tag>>, <<>>, kids)>>
Own(key, kids) == <<El(<<"own", key>>, <<>>, kids)>>
Img(url, alt) == <<El(<<"", "img">>, <<url, <<alt>>>>, <<>>)>>

Key == ("p" :> "p") @@ ("1" :> "h1") @@ ("2" :> "h2") @@ ("3" :> "h3") @@ ("q" :> "blockquote")
       @@ ("c" :> "pre") @@ ("u" :> "ul") @@ ("o" :> "ol") @@ ("t" :> "table") @@ ("i" :> "img")
       @@ ("x" :> "component")
Texts == {"p", "1", "2", "3"}
Items(block) == Tail(block)

RenderInline(x) ==
  CASE x[1] = "s" -> <<Text(x[2])>>
    [] x[1] = "a" -> IF IsSafe(x[3]) THEN <<El(<<"", "a">>, <<<<x[3]>>>>, <<Text(x[2])>>)>>
                     ELSE <<Text(x[2])>>
    [] IsMonospace(x) -> Plain("code", <<Text(x[2])>>)
    [] x[1] = "b" -> Plain("strong", <<Text(x[2])>>)
    [] IsItalic(x) -> Plain("em", <<Text(x[2])>>)
RenderInlines(xs) == FlattenSeq([k \in DOMAIN xs |-> RenderInline(xs[k])])

Code(block) == Plain("pre", <<El(<<"", "code">>, <<<<block[2]>>>>, <<Text(block[3])>>)>>)

Framed(key, comps, kids) == IF key \in comps THEN Own(key, kids) ELSE Plain(key, kids)

RECURSIVE RenderBlock(_, _, _)
RenderEach(blocks, comps, file) ==
  FlattenSeq([k \in DOMAIN blocks |-> RenderBlock(blocks[k], comps, file)])
RenderChildren(cs, comps, file) ==
  FlattenSeq([k \in DOMAIN cs |->
    IF IsInline(cs[k]) THEN RenderInline(cs[k]) ELSE RenderBlock(cs[k], comps, file)])
RenderBlock(block, comps, file) ==
  LET key == Key[block[1]]
      Kids(cs) == RenderChildren(cs, comps, file)
      Cell(r, cell) == El(<<"", IF block[2] /\ r = 1 THEN "th" ELSE "td">>, <<>>, Kids(cell))
  IN CASE block[1] \in Texts -> Framed(key, comps, RenderInlines(block[2]))
       [] block[1] = "q" -> Framed(key, comps, Kids(block[2]))
       [] block[1] = "c" -> IF key \in comps THEN Own(key, <<Text(block[3])>>) ELSE Code(block)
       [] block[1] \in {"u", "o"} ->
            Framed(key, comps, [k \in DOMAIN Items(block) |-> El(<<"", "li">>, <<>>, Kids(Items(block)[k]))])
       [] block[1] = "t" ->
            Framed(key, comps, [r \in DOMAIN block[3] |->
              El(<<"", "tr">>, <<>>, [c \in DOMAIN block[3][r] |-> Cell(r, block[3][r][c])])])
       [] block[1] = "i" -> IF key \in comps THEN Own(key, <<Text(block[3])>>)
                            ELSE Img(BuildFileUrl(block[2], file), block[3])
       [] block[1] = "x" -> LET kids == RenderEach(block[4], comps, file)
                            IN IF key \in comps THEN Own(key, kids) ELSE kids

(* Angular sets the HTML of core; its options may hold a file option, too.  *)
AngularBlocks(blocks, comps, file, context) ==
  LET used == IF file # None THEN file ELSE context
  IN RenderEach(blocks, comps, used)

-----------------------------------------------------------------------------
(* React.                                                                   *)

ReactInline(x) == RenderInline(x)

RECURSIVE ReactNode(_, _, _)
ReactNodes(blocks, comps, file) ==
  FlattenSeq([k \in DOMAIN blocks |-> ReactNode(blocks[k], comps, file)])
ReactChildren(cs, comps, file) ==
  FlattenSeq([k \in DOMAIN cs |->
    IF IsInline(cs[k]) THEN ReactInline(cs[k]) ELSE ReactNode(cs[k], comps, file)])
ReactItem(item, comps, file) == El(<<"", "li">>, <<>>, ReactChildren(item, comps, file))
ReactNode(block, comps, file) ==
  LET Kids(cs) == ReactChildren(cs, comps, file)
      Row(r) == LET tag == IF block[2] /\ r = 1 THEN "th" ELSE "td" IN
                El(<<"", "tr">>, <<>>,
                   [c \in DOMAIN block[3][r] |-> El(<<"", tag>>, <<>>, Kids(block[3][r][c]))])
  IN CASE block[1] \in Texts ->
            Framed(Key[block[1]], comps, FlattenSeq([k \in DOMAIN block[2] |-> ReactInline(block[2][k])]))
       [] block[1] = "q" -> Framed("blockquote", comps, Kids(block[2]))
       [] block[1] = "c" -> IF "pre" \in comps THEN Own("pre", <<Text(block[3])>>) ELSE Code(block)
       [] block[1] \in {"u", "o"} ->
            Framed(Key[block[1]], comps, [k \in DOMAIN Items(block) |-> ReactItem(Items(block)[k], comps, file)])
       [] block[1] = "t" -> Framed("table", comps, [r \in DOMAIN block[3] |-> Row(r)])
       [] block[1] = "i" -> IF "img" \in comps THEN Own("img", <<Text(block[3])>>)
                            ELSE Img(BuildFileUrl(block[2], file), block[3])
       [] block[1] = "x" -> LET children == ReactNodes(block[4], comps, file)
                            IN CASE block[2] \in comps -> Own(block[2], children)
                                 [] block[2] \notin comps /\ "component" \in comps ->
                                      Own("component", children)
                                 [] OTHER -> children

(* Blocks provides its file options when it has some; the nodes read the    *)
(* context.                                                                 *)
ReactBlocks(blocks, comps, file, context) ==
  ReactNodes(blocks, comps, IF file # None THEN file ELSE context)

-----------------------------------------------------------------------------
(* Vue.                                                                     *)

VueInline(x) == RenderInline(x)

RECURSIVE VueNode(_, _, _)
VueNodes(blocks, comps, file) ==
  FlattenSeq([k \in DOMAIN blocks |-> VueNode(blocks[k], comps, file)])
VueMixed(cs, comps, file) ==
  FlattenSeq([k \in DOMAIN cs |->
    IF IsInline(cs[k]) THEN VueInline(cs[k]) ELSE VueNode(cs[k], comps, file)])
VueNode(block, comps, file) ==
  LET own(key) == key \in comps
      Mixed(cs) == VueMixed(cs, comps, file)
      lis == [k \in 1..(Len(block) - 1) |-> El(<<"", "li">>, <<>>, Mixed(block[k + 1]))]
      Cell(r, c) == El(<<"", IF block[2] /\ r = 1 THEN "th" ELSE "td">>, <<>>, Mixed(block[3][r][c]))
      Renderer == IF own(block[2]) THEN block[2] ELSE "component"
  IN CASE block[1] \in Texts ->
            Framed(Key[block[1]], comps, FlattenSeq([k \in DOMAIN block[2] |-> VueInline(block[2][k])]))
       [] block[1] = "q" -> Framed("blockquote", comps, Mixed(block[2]))
       [] block[1] = "c" -> IF own("pre") THEN Own("pre", <<Text(block[3])>>) ELSE Code(block)
       [] block[1] \in {"u", "o"} -> Framed(Key[block[1]], comps, lis)
       [] block[1] = "t" ->
            Framed("table", comps, [r \in DOMAIN block[3] |->
              El(<<"", "tr">>, <<>>, [c \in DOMAIN block[3][r] |-> Cell(r, c)])])
       [] block[1] = "i" -> IF own("img") THEN Own("img", <<Text(block[3])>>)
                            ELSE Img(BuildFileUrl(block[2], file), block[3])
       [] block[1] = "x" -> LET children == VueNodes(block[4], comps, file)
                            IN IF own(Renderer) THEN Own(Renderer, children) ELSE children

VueBlocks(blocks, comps, file, injected) ==
  VueNodes(blocks, comps, IF file # None THEN file ELSE injected)

-----------------------------------------------------------------------------
(* Solid.                                                                   *)

SolidInline(x) == RenderInline(x)

RECURSIVE SolidNode(_, _, _, _)
SolidNodes(blocks, comps, file, context) ==
  FlattenSeq([k \in DOMAIN blocks |-> SolidNode(blocks[k], comps, file, context)])
SolidFor(cs, comps, file, context) ==
  FlattenSeq([k \in DOMAIN cs |->
    IF IsInline(cs[k]) THEN SolidInline(cs[k]) ELSE SolidNode(cs[k], comps, file, context)])
SolidNode(block, comps, props, context) ==
  LET file == IF props # None THEN props ELSE context
      For(cs) == SolidFor(cs, comps, file, context)
      Cells(row, tag) == [c \in DOMAIN row |-> El(<<"", tag>>, <<>>, For(row[c]))]
      Comp == {key \in {block[2], "component"} : key \in comps}
  IN CASE block[1] \in Texts ->
            Framed(Key[block[1]], comps, FlattenSeq([k \in DOMAIN block[2] |-> SolidInline(block[2][k])]))
       [] block[1] = "q" -> Framed("blockquote", comps, For(block[2]))
       [] block[1] = "c" -> IF "pre" \in comps THEN Own("pre", <<Text(block[3])>>) ELSE Code(block)
       [] block[1] \in {"u", "o"} ->
            Framed(Key[block[1]], comps, [k \in DOMAIN Items(block) |-> El(<<"", "li">>, <<>>, For(Items(block)[k]))])
       [] block[1] = "t" ->
            Framed("table", comps, [r \in DOMAIN block[3] |->
              El(<<"", "tr">>, <<>>, Cells(block[3][r], IF block[2] /\ r = 1 THEN "th" ELSE "td"))])
       [] block[1] = "i" -> IF "img" \in comps THEN Own("img", <<Text(block[3])>>)
                            ELSE Img(BuildFileUrl(block[2], file), block[3])
       [] block[1] = "x" /\ Comp = {} -> SolidNodes(block[4], comps, file, context)
       [] block[1] = "x" /\ Comp # {} -> Own(IF block[2] \in Comp THEN block[2] ELSE "component",
                                           SolidNodes(block[4], comps, file, context))

(* Blocks always provides its own file options, those that are not set too, *)
(* and so hides the context around it.                                      *)
SolidBlocks(blocks, comps, file, context) == SolidNodes(blocks, comps, file, file)

-----------------------------------------------------------------------------
(* Svelte, whose tables have a head and a body.                             *)

SvelteInline(x) == RenderInline(x)

RECURSIVE SvelteBlock(_, _, _)
SvelteChildren(blocks, comps, file) ==
  FlattenSeq([k \in DOMAIN blocks |-> SvelteBlock(blocks[k], comps, file)])
SvelteEach(cs, comps, file) ==
  FlattenSeq([k \in DOMAIN cs |->
    IF IsInline(cs[k]) THEN SvelteInline(cs[k]) ELSE SvelteBlock(cs[k], comps, file)])
SvelteRows(rows, tag, comps, file) ==
  [r \in DOMAIN rows |->
     El(<<"", "tr">>, <<>>, [c \in DOMAIN rows[r] |-> El(<<"", tag>>, <<>>, SvelteEach(rows[r][c], comps, file))])]
SvelteBlock(block, comps, file) ==
  LET Each(cs) == SvelteEach(cs, comps, file)
      head == IF block[2] /\ Len(block[3]) > 0
              THEN Plain("thead", SvelteRows(SubSeq(block[3], 1, 1), "th", comps, file)) ELSE <<>>
      body == Plain("tbody", SvelteRows(IF block[2] /\ block[3] # <<>> THEN Tail(block[3]) ELSE block[3],
                                        "td", comps, file))
      Renderer == IF block[2] \in comps THEN block[2] ELSE "component"
  IN CASE block[1] \in Texts ->
            Framed(Key[block[1]], comps, FlattenSeq([k \in DOMAIN block[2] |-> SvelteInline(block[2][k])]))
       [] block[1] = "q" -> Framed("blockquote", comps, Each(block[2]))
       [] block[1] = "c" -> IF "pre" \in comps THEN Own("pre", <<Text(block[3])>>) ELSE Code(block)
       [] block[1] \in {"u", "o"} ->
            Framed(Key[block[1]], comps, [k \in DOMAIN Items(block) |-> El(<<"", "li">>, <<>>, Each(Items(block)[k]))])
       [] block[1] = "t" -> Framed("table", comps, head \o body)
       [] block[1] = "i" -> IF "img" \in comps THEN Own("img", <<Text(block[3])>>)
                            ELSE Img(BuildFileUrl(block[2], file), block[3])
       [] block[1] = "x" -> LET children == SvelteChildren(block[4], comps, file)
                            IN IF Renderer \in comps THEN Own(Renderer, children) ELSE children

(* Every block sets a context that reads the options resolved above it.     *)
SvelteBlocks(blocks, comps, file, inherited) ==
  SvelteChildren(blocks, comps, IF file # None THEN file ELSE inherited)

-----------------------------------------------------------------------------
(* Markdown (core/src/markdown.ts): tokens, of which the marked texts are   *)
(* pairs.                                                                   *)

NL == <<"nl">>
Gap == <<NL, NL>>
TrimEnd(toks) == SubSeq(toks, 1, Max({0} \cup {k \in DOMAIN toks : toks[k] # NL}))
Between(parts, sep) ==
  FlattenSeq([k \in DOMAIN parts |-> (IF k = 1 THEN <<>> ELSE sep) \o parts[k]])

MarkdownInline(x) ==
  CASE x[1] = "s" -> <<<<"", x[2]>>>>
    [] x[1] = "a" -> <<<<IF IsSafe(x[3]) THEN "a" ELSE "", x[2]>>>>
    [] IsMonospace(x) -> <<<<"code", x[2]>>>>
    [] x[1] = "b" -> <<<<"strong", x[2]>>>>
    [] IsItalic(x) -> <<<<"em", x[2]>>>>

RECURSIVE MarkdownBlock(_, _)
MarkdownChildren(cs, file) ==
  FlattenSeq([k \in DOMAIN cs |->
    IF IsInline(cs[k]) THEN MarkdownInline(cs[k]) ELSE TrimEnd(MarkdownBlock(cs[k], file))])
MarkdownBlock(block, file) ==
  LET Inlines(xs) == FlattenSeq([k \in DOMAIN xs |-> MarkdownInline(xs[k])])
      Quoted(t) == IF t = NL THEN <<NL, <<">">>>> ELSE <<t>>
      Lines(lead) == Between([k \in DOMAIN Items(block) |->
                                <<lead>> \o MarkdownChildren(Items(block)[k], file)], <<NL>>)
      Row(r) == <<<<"|">>>> \o Between([c \in DOMAIN r |-> MarkdownChildren(r[c], file)], <<<<"|">>>>)
                  \o <<<<"|">>>>
      rows == [r \in DOMAIN block[3] |-> Row(block[3][r])]
      rule == [c \in 1..Len(block[3][1]) |-> <<"---">>]
  IN CASE block[1] = "p" -> Inlines(block[2]) \o Gap
       [] block[1] \in {"1", "2", "3"} -> <<<<"#">>>> \o Inlines(block[2]) \o Gap
       [] block[1] = "q" ->
            LET toks == MarkdownChildren(block[2], file)
            IN <<<<">">>>> \o FlattenSeq([k \in DOMAIN toks |-> Quoted(toks[k])]) \o Gap
       [] block[1] = "c" -> <<<<"fence">>, NL, <<"pre", block[3]>>, NL, <<"fence">>>> \o Gap
       [] block[1] = "u" -> Lines(<<"-">>) \o Gap
       [] block[1] = "o" -> Lines(<<"1.">>) \o Gap
       [] block[1] = "t" ->
            IF rows = <<>> THEN <<>>
            ELSE Between(IF block[2] THEN <<Head(rows), rule>> \o Tail(rows) ELSE rows, <<NL>>) \o Gap
       [] block[1] = "i" -> <<<<"img", BuildFileUrl(block[2], file)>>>> \o Gap
       [] block[1] = "x" -> FlattenSeq([k \in DOMAIN block[4] |-> MarkdownBlock(block[4][k], file)])
MarkdownBlocks(blocks, file) ==
  TrimEnd(FlattenSeq([k \in DOMAIN blocks |-> MarkdownBlock(blocks[k], file)]))

-----------------------------------------------------------------------------
(* What the reader of a document is to see: each text, and each image with  *)
(* its URL, in its place.  Items and cells are numbered in a place.         *)

Place(tag, k) == <<tag[1], tag[2], IF tag[2] \in {"li", "th", "td"} THEN k ELSE 0>>
Unseen == {"thead", "tbody"}

RECURSIVE Shown(_, _, _)
Shown(nodes, place, attrs) ==
  FlattenSeq([k \in DOMAIN nodes |->
    LET n == nodes[k] IN
    IF "text" \in DOMAIN n THEN <<[place |-> place, attrs |-> attrs, text |-> n.text]>>
    ELSE LET there == IF n.tag[2] \in Unseen THEN place ELSE Append(place, Place(n.tag, k))
         IN IF n.tag = <<"", "img">> THEN <<[place |-> there, attrs |-> n.attrs, text |-> ""]>>
            ELSE Shown(n.kids, there, n.attrs)])

IsMark(x) == x[1] \in {"s", "a", "b"} \/ (x[1] \in {"c", "i"} /\ Len(x) = 2)
Mark == ("a" :> "a") @@ ("c" :> "code") @@ ("b" :> "strong") @@ ("i" :> "em")

RECURSIVE Meant(_, _, _, _)
MeantAll(xs, comps, file, place) == FlattenSeq([k \in DOMAIN xs |-> Meant(xs[k], comps, file, place)])
Meant(x, comps, file, place) ==
  LET Under(key) == Append(place, <<IF key \in comps THEN "own" ELSE "", key, 0>>)
      At(there, attrs, t) == <<[place |-> there, attrs |-> attrs, text |-> t]>>
      Part(tag, k) == Append(Under(Key[x[1]]), <<"", tag, k>>)
      Cell(r, c) == Append(Append(Under("table"), <<"", "tr", 0>>),
                           <<"", IF x[2] /\ r = 1 THEN "th" ELSE "td", c>>)
  IN CASE IsMark(x) /\ (x[1] = "s" \/ (x[1] = "a" /\ ~IsSafe(x[3]))) -> At(place, <<>>, x[2])
       [] IsMark(x) /\ x[1] = "a" /\ IsSafe(x[3]) -> At(Append(place, <<"", "a", 0>>), <<<<x[3]>>>>, x[2])
       [] IsMark(x) /\ x[1] \in {"b", "c", "i"} -> At(Append(place, <<"", Mark[x[1]], 0>>), <<>>, x[2])
       [] x[1] = "c" /\ ~IsMark(x) ->
            IF "pre" \in comps THEN At(Under("pre"), <<>>, x[3])
            ELSE At(Append(Under("pre"), <<"", "code", 0>>), <<<<x[2]>>>>, x[3])
       [] x[1] = "i" /\ ~IsMark(x) ->
            IF "img" \in comps THEN At(Under("img"), <<>>, x[3])
            ELSE At(Under("img"), <<BuildFileUrl(x[2], file), <<x[3]>>>>, "")
       [] x[1] \in Texts \cup {"q"} -> MeantAll(x[2], comps, file, Under(Key[x[1]]))
       [] x[1] \in {"u", "o"} ->
            FlattenSeq([k \in DOMAIN Items(x) |-> MeantAll(Items(x)[k], comps, file, Part("li", k))])
       [] x[1] = "t" -> FlattenSeq([r \in DOMAIN x[3] |->
            FlattenSeq([c \in DOMAIN x[3][r] |-> MeantAll(x[3][r][c], comps, file, Cell(r, c))])])
       [] x[1] = "x" -> LET own == {key \in {x[2], "component"} : key \in comps}
                        IN MeantAll(x[4], comps, file,
                                    IF own = {} THEN place
                                    ELSE Under(IF x[2] \in own THEN x[2] ELSE "component"))

(* Every adapter shows the document, with the URLs of the options that the  *)
(* page uses; the components it overrides by name are not those of core.    *)
CoreKeys == {Key[letter] : letter \in DOMAIN Key}
Sees(nodes) == Shown(nodes, <<>>, <<>>)
AllShow(pages, angular, blocks, comps, used) ==
  /\ \A page \in pages : Sees(page) = MeantAll(blocks, comps, used, <<>>)
  /\ Sees(angular) = MeantAll(blocks, comps \cap CoreKeys, used, <<>>)

(* The page gives its options to Blocks, or in the context around it, or    *)
(* none; to Solid's Blocks it gives them in either case.                    *)
Used(file, context) == IF file # None THEN file ELSE context
AdaptersShow(blocks, comps, file, context) ==
  AllShow({ReactBlocks(blocks, comps, file, context), VueBlocks(blocks, comps, file, context),
           SolidBlocks(blocks, comps, Used(file, context), context),
           SvelteBlocks(blocks, comps, file, context)},
          AngularBlocks(blocks, comps \cap CoreKeys, file, context), blocks, comps, Used(file, context))

(* The same with options that are only in the context, for Solid, too.      *)
ContextIsUsed(blocks, context) ==
  /\ Sees(SolidBlocks(blocks, {}, None, context)) = MeantAll(blocks, {}, context, <<>>)
  /\ AdaptersShow(blocks, {}, None, context)

(* Markdown has the marked texts and the images of the document in order.   *)
MarkdownShows(blocks, file) ==
  LET marked == SelectSeq(MarkdownBlocks(blocks, file), LAMBDA t : Len(t) = 2)
      all == MeantAll(blocks, {}, file, <<>>)
      MarkOf(leaf) == IF leaf.place = <<>> THEN "" ELSE Last(leaf.place)[2]
  IN /\ Len(marked) = Len(all)
     /\ \A k \in DOMAIN all :
          CASE MarkOf(all[k]) = "img" -> marked[k] = <<"img", all[k].attrs[1]>>
            [] MarkOf(all[k]) \in {"a", "strong", "em"} -> marked[k] = <<MarkOf(all[k]), all[k].text>>
            [] MarkOf(all[k]) = "code" -> marked[k][1] \in {"code", "pre"} /\ marked[k][2] = all[k].text
            [] OTHER -> marked[k] = <<"", all[k].text>>
=============================================================================
