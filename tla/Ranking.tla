------------------------------- MODULE Ranking --------------------------------
(***************************************************************************)
(* SearchBase::SearchByProfile: the rules of a search profile are tried    *)
(* from the heaviest to the lightest, and no more of them than fill the    *)
(* answer; what they find is put in the order of a key made of the weight  *)
(* of the rule, the score and the id (EncodeSortKey).  The rules were put  *)
(* in that order when the profile was written (HandleQueryProfiles).       *)
(*                                                                         *)
(* Abstractions: an item is its id; what the words and the place of a rule *)
(* match is given with the rule (modules Words, SearchIndex); scores are   *)
(* whole numbers of a step that is finer than the key's; all items are     *)
(* still in the database.                                                  *)
(***************************************************************************)
EXTENDS Integers, Sequences, FiniteSets, SequencesExt, FiniteSetsExt

CONSTANTS
  Id,         \* ids of items
  Grain,      \* steps of a score that make 1 / DR_BUFF_INT, the step of the key
  Wide,       \* 2^64: numbers in the key are unsigned
  MaxKey,     \* DR_BUFF_MAX: the largest id the key tells apart from others
  MaxRules,   \* ZPDS_MAX_PROFILE_RULES
  MaxWeight   \* ZPDS_MAX_RULE_WEIGHT

ASSUME RankingAssumption ==
  /\ Id \subseteq Nat \ {0} /\ IsFiniteSet(Id)
  /\ {Grain, Wide, MaxKey, MaxRules, MaxWeight} \subseteq Nat \ {0}

-----------------------------------------------------------------------------
(* The order of the rules of a profile.                                    *)

\* The elements of S from the first to the last by op, a strict total order: a
\* std::map goes through its keys like that.
Sorted(S, op(_, _)) ==
  CHOOSE f \in [1..Cardinality(S) -> S] : \A i, j \in DOMAIN f : i < j => op(f[i], f[j])

\* HandleQueryProfiles: from the heaviest to the lightest, those of one weight
\* as they came.  The keys of the map are one number for weight and place.
SortRules(rules) ==
  LET key(j) == MaxRules * MaxWeight + j - rules[j].weight * MaxRules
      order == Sorted(DOMAIN rules, LAMBDA i, j : key(i) < key(j))
  IN [k \in DOMAIN rules |-> rules[order[k]]]

-----------------------------------------------------------------------------
(* One rule.                                                               *)

KeepInBound(val, min, max) == IF val > min THEN (IF val < max THEN val ELSE max) ELSE min

\* RuleSearch with FindFull or FindNear: the best of what the rule matches, of
\* the query as it was typed or, as the second one, corrected.
RuleSearch(rule, second, score, items) ==
  LET best == Sorted(rule.matched[second], LAMBDA a, b : score[a] > score[b] \/ (score[a] = score[b] /\ a < b))
      wanted == KeepInBound(rule.max_records, 1, items)
  IN SubSeq(best, 1, Min({wanted, Len(best)}))

-----------------------------------------------------------------------------
(* The order of the answer.                                                *)

\* llround of a score times DR_BUFF_INT: the nearest number, from halves away from 0.
Round(s) ==
  IF s < 0 THEN -((Grain - 2 * s) \div (2 * Grain)) ELSE (Grain + 2 * s) \div (2 * Grain)

\* MakeSortKey of a double: scores that are near each other become one number,
\* those of 0 or less get no offset, and what is negative becomes a large number.
ScoreKey(s) == (Round(s) + IF s > 0 THEN Wide \div 2 - 1 ELSE 0) % Wide

\* MakeSortKey of an unsigned number.
NumberKey(n) == Min({n, MaxKey})

SortKey(weight, s, id) == <<weight, ScoreKey(s), NumberKey(id)>>

Before(a, b) ==
  \E k \in 1..3 : a[k] > b[k] /\ \A l \in 1..(k - 1) : a[l] = b[l]

-----------------------------------------------------------------------------
(* SearchByProfile.                                                        *)

\* Mutant of Stops: the answer is full, whatever the weights.
StopsWhenFull(before, rule, found, counter) == Cardinality(found) >= counter

\* The rules that are left are not tried.
Stops(before, rule, found, counter) ==
  before > rule.weight /\ Cardinality(found) >= counter

\* What no rule has found before gets a key; a key that is there already keeps
\* its item (std::map::emplace).
Keep(done, weight, score, id) ==
  LET key == SortKey(weight, score[id], id)
  IN IF id \in done.found THEN done
     ELSE [done EXCEPT
             !.found = @ \cup {id},
             !.keyed = IF \E e \in @ : e.key = key THEN @ ELSE @ \cup {[key |-> key, id |-> id]}]

Try(done, rule, second, score, counter) ==
  IF done.stopped \/ Stops(done.weight, rule, done.found, counter)
  THEN [done EXCEPT !.stopped = TRUE]
  ELSE [FoldLeft(LAMBDA d, id : Keep(d, rule.weight, score, id),
                 done, RuleSearch(rule, second, score, counter))
          EXCEPT !.weight = rule.weight]

\* One pass over the rules.
Pass(done, rules, second, score, counter) ==
  FoldLeft(LAMBDA d, rule : Try(d, rule, second, score, counter),
           [done EXCEPT !.stopped = FALSE], rules)

\* With the query as it is, and with the corrected one if nothing was found.
SearchByProfile(rules, score, items) ==
  LET counter == KeepInBound(items, 1, 100)
      first == Pass([found |-> {}, keyed |-> {}, weight |-> 0, stopped |-> FALSE],
                    rules, FALSE, score, counter)
      last == IF first.found = {} THEN Pass(first, rules, TRUE, score, counter) ELSE first
      order == Sorted(last.keyed, LAMBDA a, b : Before(a.key, b.key))
  IN [k \in 1..Len(order) |-> order[k].id]

\* CompletionQueryAction takes the first of them.
Answer(rules, score, items) ==
  LET all == SearchByProfile(rules, score, items)
  IN SubSeq(all, 1, Min({KeepInBound(items, 1, 100), Len(all)}))
=============================================================================
