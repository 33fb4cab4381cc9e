------------------------------- MODULE Merging --------------------------------
(***************************************************************************)
(* How the fields of a request that have several values become those of    *)
(* the record: HandleUserTags, HandleStrings, HandleUserCategories and     *)
(* HandleQueryProfiles.  With merge (W_UMERGE) they are added to those of  *)
(* the record, without it they replace them.                               *)
(*                                                                         *)
(* Abstractions: a tag is a name and a value; what TagDataService::Get     *)
(* says of a name is a record, or Unknown; the rules of a profile are in   *)
(* module Ranking.                                                         *)
(***************************************************************************)
EXTENDS Naturals, Sequences, FiniteSets, SequencesExt

CONSTANTS
  Unknown,  \* there is no such tag or category
  Blank,    \* an empty string
  Refused   \* the request is refused (BadDataException)

Tag(name, value) == [name |-> name, value |-> value]

-----------------------------------------------------------------------------
(* Tags.  kinds[n] is the definition of the tag n: [allowed, deleted,      *)
(* repeated].                                                              *)

\* usekey: where a tag goes.  One that may be repeated has a place for each value.
TagKey(kinds, tag) ==
  IF kinds[tag.name].repeated THEN <<tag.name, tag.value>> ELSE <<tag.name>>

\* kmap: the last tag of that key, 0 when there is none.
Place(kinds, tags, key) ==
  LET at == {i \in DOMAIN tags : TagKey(kinds, tags[i]) = key}
  IN IF at = {} THEN 0 ELSE CHOOSE i \in at : \A j \in at : j <= i

\* Mutant of PutTag: the value of a tag that is there is not changed.
PutTagOnce(kinds, tags, tag) ==
  LET kind == kinds[tag.name]
  IN IF kind = Unknown THEN tags
     ELSE IF kind.deleted \/ ~kind.allowed THEN tags
     ELSE IF Place(kinds, tags, TagKey(kinds, tag)) = 0 THEN Append(tags, tag) ELSE tags

\* One tag of the request: unknown, forbidden and deleted ones are passed over.
PutTag(kinds, tags, tag) ==
  LET kind == kinds[tag.name]
  IN IF kind = Unknown THEN tags
     ELSE IF kind.deleted \/ ~kind.allowed THEN tags
     ELSE LET i == Place(kinds, tags, TagKey(kinds, tag))
          IN IF i = 0 THEN Append(tags, tag) ELSE [tags EXCEPT ![i].value = tag.value]

HandleUserTags(kinds, idata, odata, merge) ==
  IF merge /\ \E i \in DOMAIN odata : kinds[odata[i].name] = Unknown THEN Refused
  ELSE FoldLeft(LAMBDA tags, tag : PutTag(kinds, tags, tag),
                IF merge THEN odata ELSE << >>, idata)

-----------------------------------------------------------------------------
(* Strings and categories.                                                 *)

\* Mutant of PutString: what is there already is added again.
PutStringTwice(strings, s) == IF s = Blank THEN strings ELSE Append(strings, s)

PutString(strings, s) ==
  IF s = Blank \/ s \in ToSet(strings) THEN strings ELSE Append(strings, s)

HandleStrings(idata, odata, merge) ==
  FoldLeft(PutString, IF merge THEN odata ELSE << >>, idata)

\* A category must exist (known) when it is added, not when it is there already.
HandleUserCategories(known, idata, odata, merge) ==
  LET before == IF merge THEN odata ELSE << >>
      new == ToSet(idata) \ (ToSet(before) \cup {Blank})
  IN IF new \subseteq known THEN HandleStrings(idata, odata, merge) ELSE Refused

-----------------------------------------------------------------------------
(* Profiles: one for each type of query, its name here.  With merge, one   *)
(* that is there already is not replaced.                                  *)

PutProfile(profiles, p) ==
  IF \E i \in DOMAIN profiles : profiles[i].name = p.name THEN profiles
  ELSE Append(profiles, p)

HandleQueryProfiles(idata, odata, merge) ==
  FoldLeft(PutProfile, IF merge THEN odata ELSE << >>, idata)

-----------------------------------------------------------------------------
(* The fields of a category that have one value (CategoryService).  The     *)
(* tests of price and is_deleted are the other way round: with merge, what  *)
(* the request sets is passed over and what it leaves blank is taken.       *)

MergeCategory(rdata, tdata, merge) ==
  [lang |-> IF merge /\ rdata.lang = Blank THEN tdata.lang ELSE rdata.lang,
   price |-> IF merge /\ rdata.price # Blank THEN tdata.price ELSE rdata.price,
   is_deleted |-> IF merge /\ rdata.is_deleted # Blank THEN tdata.is_deleted ELSE rdata.is_deleted]
=============================================================================
