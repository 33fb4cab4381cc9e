-------------------------------- MODULE Words ---------------------------------
(***************************************************************************)
(* The words a document is indexed by (IndexBase) and the words a query    *)
(* looks for (StemQuery, SplitMerge, GetQueryString).  The two are made by *)
(* different functions, and a document is found only when they meet: every *)
(* word of the query is required ("+").                                    *)
(*                                                                         *)
(* Abstractions: a text is the sequence of its words, as SplitWith makes   *)
(* it for both; a word is a sequence of letters; the stemmer is a constant *)
(* (it is the vendored KrovetzStemmer); no correction of spelling, and no  *)
(* filters besides the words.                                              *)
(***************************************************************************)
EXTENDS Naturals, Sequences, SequencesExt

CONSTANTS
  Stem(_),     \* StemWord
  MergeLimit,  \* XAP_MERGE_LIMIT
  MaxShin,     \* XAP_MAX_SHIN_LEN
  MinStem      \* XAP_MIN_STEM_LEN

ASSUME WordsAssumption ==
  /\ {MergeLimit, MaxShin, MinStem} \subseteq Nat
  /\ MergeLimit <= MaxShin
  /\ 2 * MergeLimit < MinStem

\* Terms with the prefix of whole words and the one of beginnings of words.
Full(word) == [prefix |-> "full", word |-> word]
Part(word) == [prefix |-> "part", word |-> word]

-----------------------------------------------------------------------------
(* Indexing.                                                               *)

\* Mutant of FullTerms: only words that are the same are taken together.
FullTermsOfSame(text, with_stem) ==
  LET N == DOMAIN text
      Stemmed == {i \in N : with_stem /\ Len(text[i]) >= MinStem}
      Shingled == {i \in N \ {1} : text[i] = text[i - 1]}
  IN {Full(text[i]) : i \in N} \cup {Full(Stem(text[i])) : i \in Stemmed}
       \cup {Full(text[i - 1] \o text[i]) : i \in Shingled}

\* IndexFullWords: each word, its stem, and it together with the one before
\* when they are the same or that one is short.
FullTerms(text, with_stem) ==
  LET N == DOMAIN text
      Stemmed == {i \in N : with_stem /\ Len(text[i]) >= MinStem}
      Shingled == {i \in N \ {1} : text[i] = text[i - 1] \/ Len(text[i - 1]) <= MaxShin}
  IN {Full(text[i]) : i \in N} \cup {Full(Stem(text[i])) : i \in Stemmed}
       \cup {Full(text[i - 1] \o text[i]) : i \in Shingled}

\* IndexWithPart: these, and each beginning of each word.
Terms(text, with_stem) ==
  FullTerms(text, with_stem) \cup
    UNION {{Part(SubSeq(text[i], 1, j)) : j \in 1..Len(text[i])} : i \in DOMAIN text}

-----------------------------------------------------------------------------
(* Querying.                                                               *)

\* StemQuery, whatever the language; notlast leaves the last word alone.
StemQuery(query, notlast) ==
  [i \in DOMAIN query |->
     IF Len(query[i]) >= MinStem /\ ~(notlast /\ i = Len(query))
     THEN Stem(query[i]) ELSE query[i]]

Merges(before, word) ==
  word = before \/ (Len(word) <= MergeLimit /\ Len(before) <= MergeLimit)

\* SplitMerge: a word joins the one before, as that one is by then.
Join(done, word) ==
  IF done # << >> /\ Merges(Last(done), word)
  THEN Append(Front(done), Last(done) \o word)
  ELSE Append(done, word)

SplitMerge(query) == FoldLeft(Join, << >>, query)

\* GetQueryString of what SearchByProfile makes of the query: full says that a
\* space follows the last word, which is looked for as a beginning otherwise.
QueryTerms(query, full) ==
  LET words == SplitMerge(StemQuery(query, ~full))
  IN {IF ~full /\ i = Len(words) THEN Part(words[i]) ELSE Full(words[i]) :
        i \in DOMAIN words}

Finds(query, full, text, english) == QueryTerms(query, full) \subseteq Terms(text, english)
=============================================================================
