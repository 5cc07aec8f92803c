----------------------------- MODULE Relations -----------------------------
(***************************************************************************)
(* What a query adds to the items it found: related items (`with`), whose   *)
(* filters refer to the fields of the items above them, and included files. *)
(*                                                                         *)
(* A with clause maps names to entries [collection, filter, with], of       *)
(* which filter is a text; in it $1.title stands for a field of an item     *)
(* above.  A store also has the rows of its link table and the types of     *)
(* its fields.                                                              *)
(***************************************************************************)
EXTENDS Queries

-----------------------------------------------------------------------------
(* substitutePlaceholders.                                                 *)

Placeholder(level, path) == <<"$", ToString(level), ".">> \o path   \* createItemRef

(* $1.title or $1.$id: the length of the placeholder a text starts with.    *)
PlaceholderLength(text) ==
  IF MarkAt(text, 1) = "$" /\ MarkAt(text, 2) \in Digits /\ MarkAt(text, 3) = "."
  THEN IF MarkAt(text, 4) = "$" THEN 5 ELSE 4
  ELSE 0

(* JSON.stringify of a text; a faulty variant escapes nothing.              *)
BarelyQuoted(s) == <<DQ>> \o s \o <<DQ>>
Quoted(s) ==
  <<DQ>> \o FlattenSeq([k \in DOMAIN s |-> IF s[k] \in {DQ, Escape} THEN <<Escape, s[k]>>
                                           ELSE <<s[k]>>]) \o <<DQ>>

(* resolveLinkId: the target of a link the item holds in this field.        *)
LinkTarget(v, item, path, db) ==
  LET mine == {l \in db.linkRows : l.id = v.number /\ l.from = item[Id] /\ l.prop = path}
  IN IF mine = {} THEN Null ELSE (CHOOSE l \in mine : TRUE).to

IsRef(item, path, db) == <<item[InCol].text, path>> \in db.refFields

FieldText(item, path, db) ==
  LET v == Column(path, item) IN
  CASE v = Null -> Format(Null)
    [] v # Null /\ IsNumber(v) ->
         IF LinkTarget(v, item, path, db) # Null THEN Format(LinkTarget(v, item, path, db))
         ELSE IF IsRef(item, path, db) THEN Format(Null) ELSE Format(v)
    [] v # Null /\ IsText(v) -> Quoted(v.text)
    [] OTHER -> Format(v)

(* A level counts from the nearest item outwards.                           *)
AncestorAt(ancestors, level) ==
  LET k == Len(ancestors) + 1 - level IN
  IF k \in DOMAIN ancestors THEN ancestors[k] ELSE Null

RECURSIVE Substituted(_, _, _)
Substituted(text, ancestors, db) ==
  LET n == PlaceholderLength(text)
      path == SubSeq(text, 4, n)
      item == AncestorAt(ancestors, DigitOf(text[2]))
  IN CASE text = <<>> -> <<>>
       [] text # <<>> /\ n = 0 -> <<Head(text)>> \o Substituted(Tail(text), ancestors, db)
       [] OTHER -> (IF item = Null THEN <<DQ>> \o SubSeq(text, 1, n) \o <<DQ>>
                    ELSE FieldText(item, path, db))
                   \o Substituted(SubSeq(text, n + 1, Len(text)), ancestors, db)

-----------------------------------------------------------------------------
(* resolveRelations.  It calls findItems, which calls it with no ancestors: *)
(* the filter of a nested relation knows the nearest item above it only.    *)

NoQuery == [collection |-> Unset, filter |-> <<>>, search |-> Unset, sort |-> Unset,
            limit |-> Unset, offset |-> Unset, fields |-> Unset, locale |-> Unset,
            fallback |-> Unset, includeDeleted |-> FALSE, onlyDeleted |-> FALSE]

ItemsOf(answer) == IF answer = Throws THEN Throws ELSE answer.items
RelatedItems(item, entry, ancestors, db) ==
  LET filter == InCollection(entry.collection, entry.filter) IN
  ItemsOf(FindItems([NoQuery EXCEPT !.filter = Substituted(filter, Append(ancestors, item), db)],
                    NoScope @@ [defaultLocale |-> Unset], NoScope, db))

-----------------------------------------------------------------------------
(* Included files.  A text that names a file is its id, a dot and its       *)
(* extension.                                                               *)

File(id, ext, url) == [file |-> <<id, ext>>, url |-> url]
Dot(text) == Max({k \in DOMAIN text : text[k] = "."} \cup {0})
IsUrl(text) == MarkAt(text, 1) \in {"https", "/"}

(* normalizeFileMetadata of a text; Null when it cannot name a file.        *)
FileOfText(text, base) ==
  CASE IsUrl(text) -> [url |-> text]
    [] ~IsUrl(text) /\ Dot(text) \in 2..(Len(text) - 1) ->
         File(SubSeq(text, 1, Dot(text) - 1), SubSeq(text, Dot(text) + 1, Len(text)),
              base \o <<"/">> \o text)
    [] OTHER -> Null

(* hydrateFileRefs: texts become the item's files where they name one, and  *)
(* any file where the schema says so.                                       *)
FileForRef(text, files) ==
  LET exact == {f \in files : f.file[1] \o <<".">> \o f.file[2] = text}
      byId == {f \in files : Dot(text) > 1 /\ f.file[1] = SubSeq(text, 1, Dot(text) - 1)}
  IN CASE exact # {} -> CHOOSE f \in exact : TRUE
       [] exact = {} /\ byId # {} -> CHOOSE f \in byId : TRUE
       [] OTHER -> Null

OrElse(x, y) == IF x # Null THEN x ELSE y

Hydrated(item, files, fileFields, base) ==
  [f \in DOMAIN item |->
     IF ~IsText(item[f]) THEN item[f]
     ELSE OrElse(FileForRef(item[f].text, files),
                 OrElse(IF f \in fileFields THEN FileOfText(item[f].text, base) ELSE Null,
                        item[f]))]

(* What the HTTP client makes of the server's answer:                       *)
(* normalizeIncludedFileMetadata, with its own base path.                   *)
Rebased(v, base) ==
  IF "file" \in DOMAIN v
  THEN File(v.file[1], v.file[2], base \o <<"/">> \o v.file[1] \o <<".">> \o v.file[2])
  ELSE v
NormalizedFiles(item, base) ==
  [f \in DOMAIN item |->
     IF IsText(item[f]) THEN OrElse(FileOfText(item[f].text, base), item[f])
     ELSE Rebased(item[f], base)]

-----------------------------------------------------------------------------
(* The items of a relation are those whose field equals the field of the    *)
(* item above: the text itself, whatever quotes it has, the target of a     *)
(* link, and for a missing field or a dangling link the items without one.  *)
(* Only $id, which takes identities, throws at anything else.               *)
FieldOf(item, path, db) ==
  LET v == Column(path, item) IN
  CASE v # Null /\ IsNumber(v) /\ LinkTarget(v, item, path, db) # Null -> LinkTarget(v, item, path, db)
    [] v # Null /\ IsNumber(v) /\ LinkTarget(v, item, path, db) = Null ->
         IF IsRef(item, path, db) THEN Null ELSE v
    [] OTHER -> v

EqualTo(field, level, path) == field \o <<" ", "=", " ">> \o Placeholder(level, path)

Matching(c, field, value, db) ==
  {row \in db.rows : /\ ~IsDeleted(row) /\ row[InCol] = String(<<c>>)
                     /\ Column(field, row) = value}
Ids(items) == IF items = Throws THEN Throws ELSE {items[k][Id] : k \in DOMAIN items}

RelatedAreMatched(item, c, field, path, db) ==
  LET value == FieldOf(item, path, db) IN
  Ids(RelatedItems(item, [collection |-> c, filter |-> EqualTo(field, 1, path)], <<>>, db))
    = IF field = Id /\ value # Null /\ ~IsIdentityValue(value) THEN Throws
      ELSE {row[Id] : row \in Matching(c, field, value, db)}

(* The embedded client and the HTTP client give an item the same files,     *)
(* each under its own base path, if no other text has a dot or is a URL.    *)
FilesAgree(item, files, fileFields, base) ==
  LET At(b) == {File(f[1], f[2], b \o <<"/">> \o f[1] \o <<".">> \o f[2]) : f \in files} IN
  NormalizedFiles(Hydrated(item, At(<<"/", "files">>), fileFields, <<"/", "files">>), base)
    = Hydrated(item, At(base), fileFields, base)
=============================================================================
