------------------------------ MODULE Locales ------------------------------
(***************************************************************************)
(* The locale of a source's text: the user's locale map, made unambiguous   *)
(* when it is saved, and the automatic recognition (core/src/i18n.ts).      *)
(*                                                                         *)
(* A text is a name and its spelling: as it is, in capitals, with _ for -,  *)
(* or with spaces around it.  Canonical maps the names that are language    *)
(* tags to their canonical form, Alias the names of languages to the locale *)
(* they stand for, if it is a single one.  A map is the sequence of its     *)
(* entries.                                                                 *)
(***************************************************************************)
EXTENDS Subject, Sequences, SequencesExt, Functions

CONSTANTS None, Ambiguous, Throws,
          Canonical, Alias, Listed   \* Listed: BCP47_LOCALES

Spellings == {"plain", "capitals", "underscore", "spaced"}
Spelled(name, spelling) == [name |-> name, spelling |-> spelling]
Entry(raw, locale) == [raw |-> raw, locale |-> locale]

Trim(t) == IF t.spelling = "spaced" THEN Spelled(t.name, "plain") ELSE t
LookupKey(t) == t.name
LocaleOf(f, name) == IF name \in DOMAIN f THEN f[name] ELSE None

(* canonicalizeBcp47 does not know underscores or spaces.                   *)
Canonicalized(t) == IF t.spelling \in {"plain", "capitals"} THEN LocaleOf(Canonical, t.name) ELSE None

(* normalizeLocaleMap; a faulty variant only refuses the very same source.  *)
SameSource(entries, j, k) == j # k /\ Trim(entries[j].raw) = Trim(entries[k].raw)
Conflict(entries, j, k) ==
  /\ LookupKey(entries[j].raw) = LookupKey(entries[k].raw)
  /\ Trim(entries[j].raw) # Trim(entries[k].raw)

NormalizedMap(entries) ==
  IF \/ \E k \in DOMAIN entries : Canonicalized(Trim(entries[k].locale)) = None
     \/ \E j, k \in DOMAIN entries : Conflict(entries, j, k)
  THEN Throws
  ELSE FoldLeft(LAMBDA map, e :
                  Append(SelectSeq(map, LAMBDA x : x.raw # Trim(e.raw)),
                         Entry(Trim(e.raw), Spelled(Canonicalized(Trim(e.locale)), "plain"))),
                <<>>, entries)

(* resolveLocaleMapMatch: the same text, else the only one that differs in  *)
(* its spelling.                                                            *)
MapMatch(t, map) ==
  LET exact == {k \in DOMAIN map : map[k].raw = t}
      alike == {k \in DOMAIN map : LookupKey(map[k].raw) = LookupKey(t)}
  IN CASE exact # {} -> LocaleOf(Canonical, map[CHOOSE k \in exact : TRUE].locale.name)
       [] exact = {} /\ \E j, k \in alike : j # k -> Ambiguous
       [] exact = {} /\ alike # {} /\ (\A j, k \in alike : j = k) ->
            LocaleOf(Canonical, map[CHOOSE k \in alike : TRUE].locale.name)
       [] OTHER -> None

(* resolveAutomaticLocale                                                   *)
AutomaticLocale(t, active) ==
  LET canonical == LocaleOf(Canonical, t.name)
      alias == IF t.spelling \in {"plain", "capitals"} THEN LocaleOf(Alias, t.name) ELSE None
  IN CASE canonical \in Listed -> canonical
       [] canonical \notin Listed /\ alias # None /\ (active = {} \/ alias \in active) -> alias
       [] OTHER -> None

(* resolveSmartLocale                                                       *)
SmartLocale(raw, map, active) ==
  LET t == Trim(raw)
      mapped == MapMatch(t, map)
  IN CASE mapped = Ambiguous -> None
       [] mapped \notin {Ambiguous, None} -> mapped
       [] OTHER -> AutomaticLocale(t, active)

-----------------------------------------------------------------------------
(* A map that can be saved gives every spelling of its sources the target   *)
(* that the user last gave them, also where the automatic recognition would *)
(* say something else, and leaves every other text to that recognition.     *)
SavedMapDecides(entries, active) ==
  LET map == NormalizedMap(entries) IN
  map # Throws =>
    \A name \in DOMAIN Canonical \cup DOMAIN Alias, spelling \in Spellings :
      LET mine == {k \in DOMAIN entries : entries[k].raw.name = name}
          t == Spelled(name, spelling)
      IN IF mine = {} THEN SmartLocale(t, map, active) = AutomaticLocale(Trim(t), active)
         ELSE SmartLocale(t, map, active)
                = Canonical[entries[CHOOSE k \in mine : \A j \in mine : j <= k].locale.name]
=============================================================================
