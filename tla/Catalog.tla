------------------------------ MODULE Catalog -------------------------------
(***************************************************************************)
(* The translation store (src/i18n/store.rs): the YAML files of a          *)
(* directory per locale, flattened into entries, and how a key becomes     *)
(* text, for the error handler and for the function t() of the templates.  *)
(*                                                                         *)
(* A YAML value is [kind, text, map]: a string, a mapping of keys to       *)
(* values, or another scalar.  Keys are sequences of segments, the first   *)
(* one the file's; texts are sequences of words and of the two braces.  A  *)
(* file that does not parse makes load fail, and there is no store then.   *)
(***************************************************************************)
EXTENDS Integers, Sequences, SequencesExt, TLC

CONSTANTS
  Directory,       \* the entries of the locales directory: [name, is_dir, files]
                   \* with files [stem, ext, value]; empty if it does not exist
  PluralRules,     \* locale to its rule, from the counts to the categories
  DefaultLocale,
  MaxDepth         \* how deep files are nested; the parser has a limit

-----------------------------------------------------------------------------
PluralKeys == {"zero", "one", "two", "few", "many", "other"}

(* A mapping with "other" and no key that is not a category. *)
is_plural_entry(map) == "other" \in DOMAIN map /\ DOMAIN map \subseteq PluralKeys

(* The text of a key, if its value is one. *)
get_str(map, key) ==
  IF key \in DOMAIN map /\ map[key].kind = "string" THEN map[key].text ELSE <<>>

PlainEntry(text) == [forms |-> [other |-> text], plural |-> FALSE]

(* An "other" that is no text is empty; another form that is not is left   *)
(* out.                                                                    *)
PluralEntry(map) ==
  [forms |-> [k \in {"other"} \cup {k \in DOMAIN map : map[k].kind = "string"} |->
                get_str(map, k)],
   plural |-> TRUE]

is_branch(value) == value.kind = "mapping" /\ ~is_plural_entry(value.map)

(* What the keys of the mappings among some nodes lead to.  A node is a    *)
(* key with its value.                                                     *)
Deeper(nodes) ==
  UNION {{<<Append(n[1], k), n[2].map[k]>> : k \in DOMAIN n[2].map} :
           n \in {n \in nodes : is_branch(n[2])}}

(* The nodes below a value, by their depth. *)
Nodes(prefix, value) ==
  LET level[d \in 0 .. MaxDepth] ==
        IF d = 0 THEN {<<prefix, value>>} ELSE Deeper(level[d - 1]) IN
  level

(* Two files of a locale with one stem are read in no particular order;    *)
(* the keys of a mapping are texts; the parser refuses files that are      *)
(* nested too deep.                                                        *)
CatalogAssumption ==
  /\ \A d, e \in Directory : d.name = e.name => d = e
  /\ \A d \in Directory : \A f, g \in d.files :
       f.stem = g.stem /\ {f.ext, g.ext} \subseteq {"yaml", "yml"} => f = g
  /\ "en" \in DOMAIN PluralRules
  /\ MaxDepth \in Nat
  /\ \A d \in Directory : \A f \in d.files :
       /\ f.stem \in STRING
       /\ \A depth \in 0 .. MaxDepth : \A n \in Nodes(<<f.stem>>, f.value)[depth] :
            is_branch(n[2]) => DOMAIN n[2].map \subseteq STRING /\ depth < MaxDepth

EntryFor(value) ==
  IF value.kind = "string" THEN PlainEntry(value.text) ELSE PluralEntry(value.map)

is_entry(value) ==
  value.kind = "string" \/ (value.kind = "mapping" /\ is_plural_entry(value.map))

(* The entries of a value, as pairs of a key and an entry: the recursion   *)
(* goes down to the texts and plurals, and ignores other scalars.          *)
flatten_yaml(prefix, value) ==
  UNION {{<<n[1], EntryFor(n[2])>> : n \in {n \in Nodes(prefix, value)[d] : is_entry(n[2])}} :
           d \in 0 .. MaxDepth}

load_locale_dir(files) ==
  UNION {flatten_yaml(<<f.stem>>, f.value) : f \in {f \in files : f.ext \in {"yaml", "yml"}}}

(* The store: locale to key to entry. *)
translations ==
  LET dirs == {d \in Directory : d.is_dir}
      entries(l) == load_locale_dir((CHOOSE d \in dirs : d.name = l).files) IN
  [l \in {d.name : d \in dirs} |->
     [k \in {e[1] : e \in entries(l)} |-> (CHOOSE e \in entries(l) : e[1] = k)[2]]]

available_locales == DOMAIN translations

NoEntry == [forms |-> <<>>, plural |-> FALSE]

lookup(locale, key) ==
  IF locale \in available_locales /\ key \in DOMAIN translations[locale]
  THEN translations[locale][key] ELSE NoEntry

(* The locale's entry, else the default locale's. *)
EntryOf(locale, key) ==
  IF lookup(locale, key) # NoEntry THEN lookup(locale, key) ELSE lookup(DefaultLocale, key)

-----------------------------------------------------------------------------
(* The text with what is put for the brace at each place instead of the    *)
(* placeholder that it opens.  A brace that is not closed stays.           *)
ClosedAt(text, i) == SelectInSubSeq(text, i, Len(text), LAMBDA c : c = "}")

Replaced(text, put) ==
  LET from[i \in 1 .. Len(text) + 1] ==
        IF i > Len(text) THEN <<>>
        ELSE IF text[i] # "{" THEN <<text[i]>> \o from[i + 1]
        ELSE IF ClosedAt(text, i) = 0 THEN SubSeq(text, i, Len(text))
        ELSE put[i] \o from[ClosedAt(text, i) + 1] IN
  from[1]

(* The first keyword argument of that name replaces {name}; a placeholder  *)
(* of no argument stays, and of {} only the first brace does.              *)
interpolate(text, kwargs) ==
  LET key(i) == SubSeq(text, i + 1, ClosedAt(text, i) - 1)
      arg(i) == SelectInSeq(kwargs, LAMBDA kv : <<kv[1]>> = key(i)) IN
  Replaced(text,
    [i \in 1 .. Len(text) |->
       CASE key(i) = <<>> -> <<"{">>
         [] key(i) # <<>> /\ arg(i) # 0 -> <<kwargs[arg(i)][2]>>
         [] OTHER -> <<"{">> \o key(i) \o <<"}">>])

entry_to_string(entry) == entry.forms["other"]

translate(locale, key, kwargs) ==
  LET entry == EntryOf(locale, key) IN
  IF entry = NoEntry THEN key ELSE interpolate(entry_to_string(entry), kwargs)

(* Translator::t, of a translator for the locale. *)
t(locale, key, kwargs) == translate(locale, key, kwargs)

(* The rules of the locale that was asked for, not of the one that has the *)
(* entry; English rules for a locale without a directory or a rule.        *)
plural_category(locale, count) ==
  LET rules == IF locale \in available_locales \cap DOMAIN PluralRules
               THEN PluralRules[locale] ELSE PluralRules["en"] IN
  rules[IF count < 0 THEN 0 - count ELSE count]

translate_plural(locale, key, count, kwargs) ==
  LET entry == EntryOf(locale, key)
      category == plural_category(locale, count)
      form == IF entry.plural /\ category \in DOMAIN entry.forms THEN category ELSE "other" IN
  IF entry = NoEntry THEN key
  ELSE interpolate(entry.forms[form], Append(kwargs, <<"count", ToString(count)>>))

(* The function t() of the templates, with the locale of their context. *)
make_t_function(locale, key, count, kwargs) ==
  LET l == IF locale = "" THEN DefaultLocale ELSE locale IN
  IF count = {} THEN translate(l, key, kwargs)
  ELSE LET n == CHOOSE n \in count : TRUE IN
       translate_plural(l, key, n, Append(kwargs, <<"count", ToString(n)>>))

-----------------------------------------------------------------------------
(* What the files say, without the store: the value a key's path leads to. *)

Files(locale) ==
  UNION {d.files : d \in {d \in Directory : d.is_dir /\ d.name = locale}}

Nothing == [kind |-> "none", text |-> <<>>, map |-> <<>>]

Below(value, segment) ==
  IF is_branch(value) /\ segment \in DOMAIN value.map THEN value.map[segment] ELSE Nothing

(* The value that a path leads to. *)
Reached(value, path) ==
  LET after[i \in 0 .. Len(path)] ==
        IF i = 0 THEN value ELSE Below(after[i - 1], path[i]) IN
  after[Len(path)]

Written(locale, key) ==
  {v \in {Reached(f.value, Tail(key)) :
            f \in {f \in Files(locale) : f.stem = Head(key) /\ f.ext \in {"yaml", "yml"}}} :
     is_entry(v)}

(* The texts that may stand for a key: of the locale's value, else of the  *)
(* default locale's, with the arguments put in, else the key.  Of a        *)
(* plural, the form asked for, else its "other".                           *)
Says(locale, key, form, kwargs) ==
  LET own == Written(locale, key)
      values == IF own # {} THEN own ELSE Written(DefaultLocale, key)
      text(v) == IF v.kind = "string" THEN v.text
                 ELSE get_str(v.map, IF form \in DOMAIN v.map /\ v.map[form].kind = "string"
                                     THEN form ELSE "other") IN
  IF values = {} THEN {key} ELSE {interpolate(text(v), kwargs) : v \in values}
=============================================================================
