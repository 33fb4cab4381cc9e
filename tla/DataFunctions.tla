---------------------------- MODULE DataFunctions -----------------------------
(***************************************************************************)
(* The functions of modules Merging, Ranking and Words, each applied once  *)
(* to an input: what a request makes of the tags and the categories of a   *)
(* record, what a search answers, which texts a query finds.  The          *)
(* properties compare the result with what it should be, said without the  *)
(* steps of the code.                                                      *)
(***************************************************************************)
EXTENDS Merging, Ranking, Words

CONSTANTS
  Name, Value,  \* of tags
  Kind,         \* what may be known of a tag
  Category,
  Score,        \* scores of items
  Letter,
  Text,         \* texts of documents
  MaxList,      \* most tags, categories or profiles of a request or a record
  MaxItems      \* most items of an answer, of a search or of a rule

Tags == [name : Name, value : Value]
Names == Category \cup {Blank}

\* What the last word of a query may be.
Beginnings ==
  UNION {UNION {{SubSeq(text[i], 1, k) : k \in 1..Len(text[i])} : i \in DOMAIN text} : text \in Text}

ASSUME DataFunctionsAssumption ==
  /\ \A k \in Kind : k = Unknown \/ k \in [allowed : BOOLEAN, deleted : BOOLEAN, repeated : BOOLEAN]
  /\ Refused \notin Seq(Tags) \cup Seq(Names)
  /\ MaxList \in Nat
  /\ MaxItems \in Nat

ASSUME TextAssumption ==
  /\ Text \subseteq Seq(Seq(Letter) \ {<< >>})
  /\ \A word \in Beginnings : Stem(word) \in Seq(Letter)
  /\ \A word \in Beginnings : Len(word) >= MinStem => Len(Stem(word)) > MergeLimit

VARIABLES
  input,  \* what the function is applied to
  result  \* << >> before, and then << what it returns >>

vars == <<input, result>>

UpTo(max, S) == UNION {[1..n -> S] : n \in 0..max}
\* matched[second] is what a rule matches; of two rules, with the query as it is
\* or else with the corrected one.
Rule(Matched) == [weight : 0..MaxWeight, max_records : 0..MaxItems, matched : Matched]
AsTyped == {[second \in BOOLEAN |-> IF second THEN {} ELSE ids] : ids \in SUBSET Id}
Corrected == {[second \in BOOLEAN |-> IF second THEN ids ELSE {}] : ids \in SUBSET Id}
Fields == [lang : Value \cup {Blank}, price : Value \cup {Blank}, is_deleted : Value \cup {Blank}]

\* What the handlers may be asked to do.
TagInputs ==
  [what : {"tags"}, kinds : [Name -> Kind], idata : UpTo(MaxList, Tags),
   odata : UpTo(MaxList, Tags), merge : BOOLEAN]
CategoryInputs ==
  [what : {"categories"}, known : SUBSET Category, idata : UpTo(MaxList, Names),
   odata : UpTo(MaxList, Category), merge : BOOLEAN]
ProfileInputs ==
  [what : {"profiles"}, idata : UpTo(MaxList, Tags), odata : UpTo(MaxList, Tags), merge : BOOLEAN]
FieldInputs == [what : {"fields"}, rdata : Fields, tdata : Fields, merge : BOOLEAN]
SearchInputs ==
  [what : {"search"}, rules : UpTo(MaxRules, Rule(AsTyped)) \cup UpTo(MaxRules, Rule(Corrected)),
   score : [Id -> Score], items : 0..MaxItems]
TextInputs == [what : {"find"}, text : Text]

Init ==
  /\ result = << >>
  /\ \/ input \in TagInputs
     \/ input \in CategoryInputs
     \/ input \in ProfileInputs
     \/ input \in FieldInputs
     \/ input \in SearchInputs
     \/ input \in TextInputs

Is(what) == result = << >> /\ input.what = what /\ UNCHANGED input

MergeTags ==
  /\ Is("tags")
  /\ result' = << HandleUserTags(input.kinds, input.idata, input.odata, input.merge) >>

MergeCategories ==
  /\ Is("categories")
  /\ result' = << HandleUserCategories(input.known, input.idata, input.odata, input.merge) >>

MergeProfiles ==
  /\ Is("profiles")
  /\ result' = << HandleQueryProfiles(input.idata, input.odata, input.merge) >>

MergeFields ==
  /\ Is("fields")
  /\ result' = << MergeCategory(input.rdata, input.tdata, input.merge) >>

Search ==
  /\ Is("search")
  /\ result' = << Answer(SortRules(input.rules), input.score, input.items) >>

\* What is typed to find a text: some of its words, the last one perhaps not
\* to its end, and whether a space follows.
Typed(text) ==
  LET To(i, j, k) == SubSeq(text, i, j - 1) \o << SubSeq(text[j], 1, k) >>
  IN UNION {UNION {{<<To(i, j, k), FALSE>> : k \in 1..Len(text[j])} \cup {<<To(i, j, Len(text[j])), TRUE>>} :
                     i \in 1..j} : j \in DOMAIN text}

Find ==
  /\ Is("find")
  /\ result' = << {t \in Typed(input.text) : Finds(t[1], t[2], input.text, TRUE)} >>

Next == MergeTags \/ MergeCategories \/ MergeProfiles \/ MergeFields
  \/ Search \/ Find

Spec == Init /\ [][Next]_vars
-----------------------------------------------------------------------------
Done(what) == result # << >> /\ input.what = what

\* The places of tags, and what the tags of one place are worth.
Keys(tags) == {TagKey(input.kinds, tags[i]) : i \in DOMAIN tags}
LastAt(tags, key) == tags[Place(input.kinds, tags, key)].value
NoTwice(seq) == Cardinality(ToSet(seq)) = Len(seq)
Usable(tag) ==
  LET kind == input.kinds[tag.name]
  IN kind # Unknown /\ kind.allowed /\ ~kind.deleted

\* HandleUserTags: each place has one tag, with the last value the request has
\* for it, or else the one of the record; what was there stays in its place, and
\* a request sent again changes nothing.
\* (The record has one tag in each place before.)
TagsAreMerged ==
  LET old == IF input.merge THEN input.odata ELSE << >>
      given(key) == {i \in DOMAIN input.idata : /\ Usable(input.idata[i])
                                               /\ TagKey(input.kinds, input.idata[i]) = key}
      new == {TagKey(input.kinds, input.idata[i]) : i \in {j \in DOMAIN input.idata : Usable(input.idata[j])}}
      out == result[1]
  IN (Done("tags") /\ out # Refused /\ Cardinality(Keys(old)) = Len(old)) =>
       /\ Cardinality(Keys(out)) = Len(out)
       /\ Keys(out) = Keys(old) \cup new
       /\ \A key \in Keys(out) :
            LastAt(out, key) = IF key \in new THEN input.idata[Max(given(key))].value
                               ELSE LastAt(old, key)
       /\ Len(old) <= Len(out)
       /\ \A p \in DOMAIN old : TagKey(input.kinds, out[p]) = TagKey(input.kinds, old[p])
       /\ HandleUserTags(input.kinds, input.idata, out, TRUE) = out

\* HandleUserCategories: the result is the union, without blanks, what was there
\* stays in its place, and a category that is not known is there only if it was.
CategoriesAreMerged ==
  LET old == IF input.merge THEN input.odata ELSE << >>
      new == ToSet(input.idata) \ {Blank}
      out == result[1]
  IN (Done("categories") /\ NoTwice(old)) =>
       IF out = Refused THEN ~(new \subseteq input.known \cup ToSet(old))
       ELSE /\ ToSet(out) = ToSet(old) \cup new /\ NoTwice(out)
            /\ IsPrefix(old, out)
            /\ ToSet(out) \ ToSet(old) \subseteq input.known

\* The answer has at least one item, where there is one, and never more than 100.
Wanted == KeepInBound(input.items, 1, 100)

\* All that a rule finds in a pass, with the rule.
FoundBy(second) ==
  {f \in ToSet(input.rules) \X Id :
     f[2] \in ToSet(RuleSearch(f[1], second, input.score, Wanted))}

\* The answer is the best of what all the rules find: a heavier rule goes before,
\* then a score that is higher by margin or more.
BestBy(margin) ==
  LET found == IF FoundBy(FALSE) = {} THEN FoundBy(TRUE) ELSE FoundBy(FALSE)
      weight(id) == Max({f[1].weight : f \in {g \in found : g[2] = id}})
      better(a, b) == \/ weight(a) > weight(b)
                      \/ weight(a) = weight(b) /\ input.score[a] >= input.score[b] + margin
      out == result[1]
  IN Done("search") =>
       LET ids == {f[2] : f \in found}
       IN /\ Len(out) = Min({Wanted, Cardinality(ids)}) /\ NoTwice(out)
          /\ ToSet(out) \subseteq ids
          /\ \A k, l \in DOMAIN out : k < l => ~better(out[l], out[k])
          /\ \A k \in DOMAIN out, id \in ids \ ToSet(out) : ~better(id, out[k])

\* SearchByProfile leaves rules out and sorts by a rounded score, but of what all
\* the rules would find it answers the best, but for scores that differ by less
\* than the key can tell (1 / DR_BUFF_INT).
BestFirst == BestBy(Grain)

\* No two neighbours have the same stem, and no more than two words are joined.
Easy(q) ==
  LET s == StemQuery(q, FALSE)
  IN /\ \A i \in 1..(Len(q) - 1) : s[i] # s[i + 1]
     /\ Len(SplitMerge(s)) >= Len(q) - 1

\* The last word is not joined to the one before.
Apart(q) == Len(q) > 1 => ~Merges(StemQuery(q, FALSE)[Len(q) - 1], Last(q))

\* A text is found by any of its words, at every letter that is typed, although
\* the index and the query stem and join words each in their own way.
TextIsFound ==
  Done("find") =>
    \A t \in Typed(input.text) : (Easy(t[1]) /\ (t[2] \/ Apart(t[1]))) => t \in result[1]

\* The code does not promise the following.
\* Of two items that rules of one weight find, the one with the higher score goes first.
HigherGoesFirst == BestBy(1)

\* A text is found by all its words, in any language: only English is indexed
\* with stems, every query is stemmed.
EveryLanguageIsFound ==
  Done("find") => Finds(input.text, TRUE, input.text, FALSE)

\* A text is found by its words, however often one is repeated.
RepeatedIsFound ==
  Done("find") => <<input.text, TRUE>> \in result[1]

\* With merge, a profile of the request takes the place of the one of its type.
ProfileIsReplaced ==
  Done("profiles") => \A i \in DOMAIN input.idata :
    \E p \in ToSet(result[1]) : p \in ToSet(input.idata) /\ p.name = input.idata[i].name

\* With merge, what is blank in the request leaves the category as it was, and
\* what is not is taken.
BlankKeeps ==
  (Done("fields") /\ input.merge) =>
    \A f \in DOMAIN input.rdata :
      result[1][f] = IF input.rdata[f] = Blank THEN input.tdata[f] ELSE input.rdata[f]
=============================================================================
