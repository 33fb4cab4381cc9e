--------------------------- MODULE DataFunctionsProofs -------------------------
(***************************************************************************)
(* The properties of module DataFunctions for lists of any length.         *)
(*                                                                         *)
(* The functions are folds: loops over a list.  A fold is shown to have     *)
(* stages, what the loop has made of the list after each of its elements    *)
(* (FoldExists, StringStages, TagStages, JoinStages), and a fact about the  *)
(* loop is shown of every stage, from one to the next (InductionUpTo).      *)
(* The search is three orders, of the rules, of what a rule finds and of    *)
(* the keys (SortedExists), and two nested loops (KeepStages, PassStages).  *)
(***************************************************************************)
EXTENDS DataFunctions, FiniteSetTheorems, SequenceTheorems, WellFoundedInduction, TLAPS

-----------------------------------------------------------------------------
(* Induction and folds.                                                    *)

\* What holds at first and goes from each number to the next holds up to n.
LEMMA InductionUpTo ==
  ASSUME NEW n \in Nat, NEW S, 0 \in S, \A i \in 0..(n - 1) : i \in S => i + 1 \in S
  PROVE  \A i \in 0..n : i \in S
  <1> SUFFICES ASSUME NEW a \in 0..n, a \notin S PROVE FALSE
    OBVIOUS
  <1> DEFINE Bad == {k \in 0..n : k \notin S}
  <1>1. Bad \subseteq Nat /\ a \in Bad
    OBVIOUS
  <1>2. PICK k \in Bad : \A j \in Bad : ~(<<j, k>> \in OpToRel(<, Nat))
    BY <1>1, WFMin, NatLessThanWellFounded
  <1>3. k \in 0..n /\ k \notin S
    BY <1>1, <1>2
  <1>4. k \in Nat /\ k - 1 \in Nat /\ k - 1 < k /\ k - 1 \in 0..(n - 1)
    BY <1>3
  <1>5. <<k - 1, k>> \in OpToRel(<, Nat)
    BY <1>4 DEF OpToRel
  <1>6. k - 1 \notin Bad
    BY <1>2, <1>5
  <1>7. k - 1 \in S /\ (k - 1) + 1 = k
    BY <1>6, <1>4
  <1> QED
    BY <1>3, <1>4, <1>7

\* A nonempty set of numbers up to n has a largest one, and Max is it.
LEMMA MaxIsLargest ==
  ASSUME NEW n \in Nat, NEW S \in SUBSET (0..n), S # {}
  PROVE  Max(S) \in S /\ \A x \in S : Max(S) >= x
  <1> DEFINE Above == {k \in 0..n : \E x \in S : x >= n - k}
  <1>1. PICK a \in S : TRUE
    OBVIOUS
  <1>2. n \in Above
    BY <1>1
  <1>3. Above \subseteq Nat
    OBVIOUS
  <1>4. PICK k \in Above : \A j \in Above : ~(<<j, k>> \in OpToRel(<, Nat))
    BY <1>2, <1>3, WFMin, NatLessThanWellFounded
  <1>5. PICK x \in S : x >= n - k
    BY <1>4
  <1>6. \A y \in S : x >= y
    <2> SUFFICES ASSUME NEW y \in S, ~(x >= y) PROVE FALSE
      OBVIOUS
    <2>1. n - y \in 0..n /\ n - y < k /\ n - (n - y) = y
      BY <1>5
    <2>2. n - y \in Above
      BY <2>1
    <2>3. <<n - y, k>> \in OpToRel(<, Nat)
      BY <2>1 DEF OpToRel
    <2> QED
      BY <1>4, <2>2, <2>3
  <1> QED
    BY <1>5, <1>6 DEF Max

\* f is what MapThenFoldSet makes of the sets of elements of a list.
IsFold(f, base, g, n) ==
  f = [s \in SUBSET (1..n) |-> IF s = {} THEN base ELSE g[<<f[s \ {Max(s)}], Max(s)>>]]

\* There is such a function: from the one for n the one for n + 1 is made.
LEMMA FoldExists ==
  ASSUME NEW A, NEW base \in A, NEW n \in Nat, NEW g \in [A \X (1..n) -> A]
  PROVE  \E f \in [SUBSET (1..n) -> A] : IsFold(f, base, g, n)
  <1> DEFINE Good == {k \in 0..n : \E f \in [SUBSET (1..k) -> A] : IsFold(f, base, g, k)}
  <1>1. 0 \in Good
    <2> DEFINE f == [s \in SUBSET (1..0) |-> base]
    <2>1. f \in [SUBSET (1..0) -> A]
      OBVIOUS
    <2>2. \A s \in SUBSET (1..0) : s = {}
      OBVIOUS
    <2>3. IsFold(f, base, g, 0)
      BY <2>2 DEF IsFold
    <2> QED
      BY <2>1, <2>3
  <1>2. ASSUME NEW k \in 0..(n - 1), k \in Good PROVE k + 1 \in Good
    <2>1. PICK f \in [SUBSET (1..k) -> A] : IsFold(f, base, g, k)
      BY <1>2
    <2> DEFINE h == [s \in SUBSET (1..(k + 1)) |->
                       IF k + 1 \in s THEN g[<<f[s \ {k + 1}], k + 1>>] ELSE f[s]]
    <2>2. ASSUME NEW s \in SUBSET (1..(k + 1)), k + 1 \in s
          PROVE  /\ Max(s) = k + 1 /\ s \ {k + 1} \in SUBSET (1..k)
                 /\ h[s \ {k + 1}] = f[s \ {k + 1}]
      <3>1. Max(s) \in s /\ Max(s) >= k + 1
        BY <2>2, MaxIsLargest, k + 1 \in Nat, s \in SUBSET (0..(k + 1)), s # {}
      <3>2. Max(s) = k + 1 /\ s \ {k + 1} \in SUBSET (1..k)
        <4>1. Max(s) \in 1..(k + 1)
          BY <3>1
        <4>2. \A x \in s \ {k + 1} : x \in 1..k
          OBVIOUS
        <4> QED
          BY <3>1, <4>1, <4>2
      <3>3. s \ {k + 1} \in SUBSET (1..(k + 1)) /\ k + 1 \notin s \ {k + 1}
        OBVIOUS
      <3> QED
        BY <3>2, <3>3
    <2>3. ASSUME NEW s \in SUBSET (1..(k + 1)), k + 1 \notin s
          PROVE  s \in SUBSET (1..k)
      BY <2>3
    <2>4. h \in [SUBSET (1..(k + 1)) -> A]
      <3> SUFFICES ASSUME NEW s \in SUBSET (1..(k + 1)) PROVE h[s] \in A
        OBVIOUS
      <3>1. CASE k + 1 \in s
        <4>1. s \ {k + 1} \in SUBSET (1..k)
          BY <3>1, <2>2
        <4>2. f[s \ {k + 1}] \in A /\ k + 1 \in 1..n
          BY <4>1
        <4> QED
          BY <3>1, <4>2
      <3>2. CASE k + 1 \notin s
        BY <3>2, <2>3
      <3> QED
        BY <3>1, <3>2
    <2>5. ASSUME NEW s \in SUBSET (1..(k + 1))
          PROVE  h[s] = IF s = {} THEN base ELSE g[<<h[s \ {Max(s)}], Max(s)>>]
      <3>1. CASE k + 1 \in s
        BY <3>1, <2>2
      <3>2. CASE k + 1 \notin s /\ s # {}
        <4>1. s \in SUBSET (1..k)
          BY <3>2, <2>3
        <4>2. Max(s) \in s
          BY <3>2, <4>1, MaxIsLargest, s \in SUBSET (0..k), k \in Nat
        <4>3. s \ {Max(s)} \in SUBSET (1..k) /\ k + 1 \notin s \ {Max(s)}
          BY <4>1, <3>2
        <4>4. h[s \ {Max(s)}] = f[s \ {Max(s)}] /\ h[s] = f[s]
          BY <4>3, <4>1, <3>2
        <4> QED
          BY <4>1, <4>4, <3>2, <2>1 DEF IsFold
      <3>3. CASE s = {}
        <4>1. h[s] = f[s] /\ s \in SUBSET (1..k)
          BY <3>3
        <4> QED
          BY <4>1, <3>3, <2>1 DEF IsFold
      <3> QED
        BY <3>1, <3>2, <3>3
    <2>6. IsFold(h, base, g, k + 1)
      <3> HIDE DEF h
      <3> QED
        BY <2>4, <2>5 DEF IsFold
    <2> HIDE DEF h
    <2> QED
      BY <2>4, <2>6
  <1>3. n \in Good
    <2> HIDE DEF Good
    <2> QED
      BY <1>1, <1>2, InductionUpTo, n \in 0..n
  <1> QED
    BY <1>3

\* The sets FoldLeft comes to, from the whole list down, are the beginnings of it.
LEMMA LastOfRange ==
  ASSUME NEW n \in Nat, NEW i \in 1..n
  PROVE  1..i # {} /\ 1..i \in SUBSET (1..n) /\ Max(1..i) = i /\ (1..i) \ {i} = 1..(i - 1)
  <1>1. Max(1..i) \in 1..i /\ Max(1..i) >= i
    BY MaxIsLargest, i \in Nat, 1..i \in SUBSET (0..i), i \in 1..i
  <1> QED
    BY <1>1

-----------------------------------------------------------------------------
(* The inductive invariant: the input is one of its kind, and the result    *)
(* is what the function makes of it.                                        *)

Answered ==
  /\ input.what = "tags" => input \in TagInputs
  /\ input.what = "categories" => input \in CategoryInputs
  /\ input.what = "search" => input \in SearchInputs
  /\ input.what = "find" => input \in TextInputs
  /\ Done("tags") => result = << HandleUserTags(input.kinds, input.idata, input.odata, input.merge) >>
  /\ Done("categories") => result = << HandleUserCategories(input.known, input.idata, input.odata, input.merge) >>
  /\ Done("search") => result = << Answer(SortRules(input.rules), input.score, input.items) >>
  /\ Done("find") => result = << {t \in Typed(input.text) : Finds(t[1], t[2], input.text, TRUE)} >>

\* Once a handler has answered, the result is what its function makes of the
\* request, and the request is as it came (a request is handled once).
THEOREM SpecAnswered == Spec => []Answered
  <1>1. Init => Answered
    BY DEF Init, Answered, Done, TagInputs, CategoryInputs, ProfileInputs, FieldInputs,
       SearchInputs, TextInputs
  <1>2. ASSUME Answered, [Next]_vars PROVE Answered'
    <2>1. CASE MergeTags
      BY <1>2, <2>1 DEF Answered, MergeTags, Is, Done
    <2>2. CASE MergeCategories
      BY <1>2, <2>2 DEF Answered, MergeCategories, Is, Done
    <2>3. CASE MergeProfiles
      BY <1>2, <2>3 DEF Answered, MergeProfiles, Is, Done
    <2>4. CASE MergeFields
      BY <1>2, <2>4 DEF Answered, MergeFields, Is, Done
    <2>5. CASE Search
      BY <1>2, <2>5 DEF Answered, Search, Is, Done
    <2>6. CASE Find
      BY <1>2, <2>6 DEF Answered, Find, Is, Done
    <2>7. CASE UNCHANGED vars
      BY <1>2, <2>7 DEF Answered, vars, Done
    <2> QED
      BY <1>2, <2>1, <2>2, <2>3, <2>4, <2>5, <2>6, <2>7 DEF Next
  <1> QED
    BY <1>1, <1>2, PTL DEF Spec

-----------------------------------------------------------------------------
(* HandleStrings.                                                          *)

\* PutString keeps a list a list, and adds s at the end or nothing.
LEMMA PutStringAdds ==
  ASSUME NEW S, NEW list \in Seq(S), NEW s \in S
  PROVE  /\ PutString(list, s) \in Seq(S)
         /\ s = Blank \/ s \in ToSet(list) => PutString(list, s) = list
         /\ ~(s = Blank \/ s \in ToSet(list)) =>
              /\ PutString(list, s) = Append(list, s)
              /\ Len(PutString(list, s)) = Len(list) + 1
              /\ \A k \in 1..Len(list) : PutString(list, s)[k] = list[k]
              /\ PutString(list, s)[Len(list) + 1] = s
  BY DEF PutString

\* What HandleStrings has after each string of the request.
StringStages(t, S, before, idata) ==
  /\ t \in [0..Len(idata) -> Seq(S)] /\ t[0] = before
  /\ \A i \in 1..Len(idata) : t[i] = PutString(t[i - 1], idata[i])

LEMMA HandleStringsStages ==
  ASSUME NEW S, NEW before \in Seq(S), NEW idata \in Seq(S)
  PROVE  \E t : /\ StringStages(t, S, before, idata)
               /\ FoldLeft(PutString, before, idata) = t[Len(idata)]
  <1> DEFINE n == Len(idata)
             A == Seq(S)
             g == [x \in A \X (1..n) |-> PutString(x[1], idata[x[2]])]
             fold == CHOOSE iter : iter =
                       [s \in SUBSET (DOMAIN idata) |->
                          IF s = {} THEN before
                          ELSE PutString(iter[s \ {Max(s)}], idata[Max(s)])]
  <1>1. n \in Nat /\ DOMAIN idata = 1..n /\ \A i \in 1..n : idata[i] \in S
    OBVIOUS
  <1>2. g \in [A \X (1..n) -> A]
    <2> SUFFICES ASSUME NEW x \in A \X (1..n) PROVE PutString(x[1], idata[x[2]]) \in A
      OBVIOUS
    <2>1. x[1] \in Seq(S) /\ idata[x[2]] \in S
      BY <1>1
    <2> QED
      BY <2>1, PutStringAdds
  <1>3. PICK f \in [SUBSET (1..n) -> A] : IsFold(f, before, g, n)
    <2> HIDE DEF g, n
    <2> QED
      BY <1>1, <1>2, FoldExists
  <1>4. ASSUME NEW iter, NEW s \in SUBSET (1..n), s # {}, iter[s \ {Max(s)}] \in A
        PROVE  g[<<iter[s \ {Max(s)}], Max(s)>>] = PutString(iter[s \ {Max(s)}], idata[Max(s)])
    <2>1. Max(s) \in s
      BY <1>4, <1>1, MaxIsLargest, s \in SUBSET (0..n)
    <2> QED
      BY <1>4, <2>1
  <1>5. f = [s \in SUBSET (DOMAIN idata) |->
               IF s = {} THEN before ELSE PutString(f[s \ {Max(s)}], idata[Max(s)])]
    <2>1. \A s \in SUBSET (1..n) : f[s \ {Max(s)}] \in A
      OBVIOUS
    <2> HIDE DEF g, n, A
    <2> QED
      BY <1>1, <1>3, <1>4, <2>1 DEF IsFold
  <1>6. fold = [s \in SUBSET (DOMAIN idata) |->
                  IF s = {} THEN before ELSE PutString(fold[s \ {Max(s)}], idata[Max(s)])]
    BY <1>5
  <1>7. FoldLeft(PutString, before, idata) = fold[1..n]
    <2>1. FoldLeft(PutString, before, idata) = fold[DOMAIN idata]
      BY DEF FoldLeft, MapThenFoldSet
    <2> QED
      BY <2>1, <1>1
  <1> HIDE DEF fold
  <1> DEFINE t == [i \in 0..n |-> fold[1..i]]
  <1>8. t[0] = before
    BY <1>6, <1>1, 1..0 = {}
  <1>9. \A i \in 1..n : t[i] = PutString(t[i - 1], idata[i])
    <2> SUFFICES ASSUME NEW i \in 1..n PROVE fold[1..i] = PutString(fold[1..(i - 1)], idata[i])
      BY <1>1
    <2>1. 1..i # {} /\ 1..i \in SUBSET (1..n) /\ Max(1..i) = i /\ (1..i) \ {i} = 1..(i - 1)
      BY <1>1, LastOfRange
    <2> QED
      BY <2>1, <1>1, <1>6
  <1>10. t \in [0..n -> A]
    <2> DEFINE Good == {i \in 0..n : t[i] \in A}
    <2>1. 0 \in Good
      BY <1>8, <1>1
    <2>2. ASSUME NEW i \in 0..(n - 1), i \in Good PROVE i + 1 \in Good
      <3>1. i + 1 \in 1..n /\ (i + 1) - 1 = i /\ t[i] \in A /\ idata[i + 1] \in S
        BY <2>2, <1>1
      <3> HIDE DEF t
      <3>2. t[i + 1] = PutString(t[i], idata[i + 1])
        BY <1>9, <3>1
      <3> QED
        BY <3>1, <3>2, PutStringAdds
    <2> HIDE DEF Good
    <2>3. \A i \in 0..n : i \in Good
      BY <1>1, <2>1, <2>2, InductionUpTo
    <2> QED
      BY <2>3 DEF Good
  <1>11. t[n] = fold[1..n]
    BY <1>1
  <1> HIDE DEF t
  <1> QED
    BY <1>7, <1>8, <1>9, <1>10, <1>11 DEF StringStages

-----------------------------------------------------------------------------
(* CategoriesAreMerged.                                                    *)

Distinct(seq) == \A i, j \in DOMAIN seq : seq[i] = seq[j] => i = j

\* Counting the elements of a list tells whether one is there twice.
LEMMA DistinctIsCounted ==
  ASSUME NEW S, NEW seq \in Seq(S)
  PROVE  /\ IsFiniteSet(ToSet(seq)) /\ Cardinality(ToSet(seq)) <= Len(seq)
         /\ NoTwice(seq) <=> Distinct(seq)
  <1> DEFINE n == Len(seq)
             R == ToSet(seq)
             f == [i \in 1..n |-> seq[i]]
  <1>1. n \in Nat /\ DOMAIN seq = 1..n
    OBVIOUS
  <1>2. f \in Surjection(1..n, R)
    BY <1>1 DEF Surjection, ToSet
  <1>3. IsFiniteSet(1..n) /\ Cardinality(1..n) = n
    BY <1>1, FS_Interval, 1 \in Int, n \in Int
  <1>4. /\ IsFiniteSet(R) /\ Cardinality(R) <= Cardinality(1..n)
        /\ Cardinality(R) = Cardinality(1..n) <=> f \in Injection(1..n, R)
    <2> HIDE DEF f, n, R
    <2> QED
      BY <1>2, <1>3, FS_Surjection
  <1>5. f \in Injection(1..n, R) <=> Distinct(seq)
    <2>1. f \in [1..n -> R] /\ \A k \in 1..n : f[k] = seq[k]
      BY <1>2 DEF Surjection
    <2> HIDE DEF f, R, n
    <2>2. f \in Injection(1..n, R) <=> \A a, b \in 1..n : f[a] = f[b] => a = b
      BY <2>1 DEF Injection, IsInjective
    <2> QED
      BY <1>1, <2>1, <2>2 DEF Distinct
  <1> QED
    BY <1>3, <1>4, <1>5 DEF NoTwice

\* What HandleStrings has made of the first i strings of the request.
StringsMerged(list, before, idata, i) ==
  /\ Len(before) <= Len(list)
  /\ \A k \in 1..Len(before) : list[k] = before[k]
  /\ ToSet(list) = ToSet(before) \cup ({idata[j] : j \in 1..i} \ {Blank})
  /\ Distinct(before) => Distinct(list)

LEMMA StringMerged ==
  ASSUME NEW S, NEW before \in Seq(S), NEW idata \in Seq(S), NEW i \in 0..(Len(idata) - 1),
         NEW list \in Seq(S), StringsMerged(list, before, idata, i)
  PROVE  StringsMerged(PutString(list, idata[i + 1]), before, idata, i + 1)
  <1> DEFINE s == idata[i + 1]
             next == PutString(list, s)
  <1>1. i + 1 \in 1..Len(idata) /\ s \in S /\ Len(list) \in Nat /\ Len(before) \in Nat
    OBVIOUS
  <1>2. {idata[j] : j \in 1..(i + 1)} = {idata[j] : j \in 1..i} \cup {s}
    <2>1. 1..(i + 1) = (1..i) \cup {i + 1}
      OBVIOUS
    <2> QED
      BY <2>1
  <1>3. CASE s = Blank \/ s \in ToSet(list)
    <2>1. next = list
      BY <1>1, <1>3, PutStringAdds
    <2> QED
      BY <1>2, <1>3, <2>1 DEF StringsMerged
  <1>4. CASE ~(s = Blank \/ s \in ToSet(list))
    <2>1. /\ next \in Seq(S) /\ Len(next) = Len(list) + 1
          /\ \A k \in 1..Len(list) : next[k] = list[k]
          /\ next[Len(list) + 1] = s
      <3> HIDE DEF s
      <3> QED
        BY <1>1, <1>4, PutStringAdds
    <2>2. DOMAIN next = 1..(Len(list) + 1) /\ DOMAIN list = 1..Len(list)
      BY <2>1
    <2> HIDE DEF next
    <2>3. ToSet(next) = ToSet(list) \cup {s}
      <3>1. \A x \in ToSet(next) : x \in ToSet(list) \cup {s}
        BY <1>1, <2>1, <2>2 DEF ToSet
      <3>2. \A x \in ToSet(list) : x \in ToSet(next)
        BY <1>1, <2>1, <2>2 DEF ToSet
      <3>3. s \in ToSet(next)
        <4>1. Len(list) + 1 \in DOMAIN next
          BY <1>1, <2>2
        <4> QED
          BY <4>1, <2>1 DEF ToSet
      <3> QED
        BY <3>1, <3>2, <3>3
    <2>4. Distinct(list) => Distinct(next)
      <3>1. \A k \in 1..Len(list) : next[k] # s
        BY <2>1, <2>2, <1>4 DEF ToSet
      <3>2. \A k \in 1..(Len(list) + 1) : k \in 1..Len(list) \/ k = Len(list) + 1
        BY <1>1
      <3> QED
        BY <1>1, <2>1, <2>2, <3>1, <3>2 DEF Distinct
    <2>5. \A k \in 1..Len(before) : next[k] = before[k]
      <3>1. \A k \in 1..Len(before) : k \in 1..Len(list)
        BY <1>1 DEF StringsMerged
      <3> QED
        BY <2>1, <3>1 DEF StringsMerged
    <2>6. Len(before) <= Len(next)
      BY <1>1, <2>1 DEF StringsMerged
    <2>7. ToSet(next) = ToSet(before) \cup ({idata[j] : j \in 1..(i + 1)} \ {Blank})
      BY <1>2, <1>4, <2>3 DEF StringsMerged
    <2> QED
      BY <2>4, <2>5, <2>6, <2>7 DEF StringsMerged, next
  <1> QED
    BY <1>3, <1>4

\* The whole of HandleStrings.
LEMMA HandleStringsMerges ==
  ASSUME NEW S, NEW before \in Seq(S), NEW idata \in Seq(S)
  PROVE  /\ FoldLeft(PutString, before, idata) \in Seq(S)
         /\ StringsMerged(FoldLeft(PutString, before, idata), before, idata, Len(idata))
  <1> DEFINE n == Len(idata)
  <1>1. PICK t : StringStages(t, S, before, idata) /\ FoldLeft(PutString, before, idata) = t[n]
    BY HandleStringsStages
  <1>2. n \in Nat /\ n \in 0..n
    OBVIOUS
  <1>3. \A i \in 0..n : t[i] \in Seq(S)
    BY <1>1 DEF StringStages
  <1> DEFINE Good == {i \in 0..n : StringsMerged(t[i], before, idata, i)}
  <1>4. 0 \in Good
    <2>1. t[0] = before /\ 1..0 = {} /\ Len(before) <= Len(before)
      BY <1>1 DEF StringStages
    <2> QED
      BY <1>2, <2>1 DEF StringsMerged
  <1>5. ASSUME NEW i \in 0..(n - 1), i \in Good PROVE i + 1 \in Good
    <2>1. i \in 0..n /\ i + 1 \in 1..n /\ i + 1 \in 0..n /\ (i + 1) - 1 = i
      BY <1>2
    <2>2. t[i + 1] = PutString(t[i], idata[i + 1])
      BY <1>1, <2>1 DEF StringStages
    <2>3. StringsMerged(PutString(t[i], idata[i + 1]), before, idata, i + 1)
      BY <1>3, <1>5, <2>1, StringMerged
    <2> QED
      BY <2>1, <2>2, <2>3
  <1>6. n \in Good
    <2> HIDE DEF Good
    <2> QED
      BY <1>2, <1>4, <1>5, InductionUpTo
  <1> QED
    BY <1>1, <1>2, <1>3, <1>6

\* A list of at most MaxList elements is a sequence.
LEMMA UpToIsSeq ==
  ASSUME NEW max \in Nat, NEW S, NEW T, S \subseteq T
  PROVE  UpTo(max, S) \subseteq Seq(T)
  BY DEF UpTo

\* HandleUserCategories: what was there stays where it was, what is new is added
\* once, and one that is not known was there before or the request is refused.
THEOREM SpecCategoriesAreMerged == Spec => []CategoriesAreMerged
  <1>1. ASSUME Answered PROVE CategoriesAreMerged
    <2> DEFINE old == IF input.merge THEN input.odata ELSE << >>
               new == ToSet(input.idata) \ {Blank}
               out == result[1]
    <2> SUFFICES ASSUME Done("categories"), NoTwice(old)
                 PROVE  IF out = Refused THEN ~(new \subseteq input.known \cup ToSet(old))
                        ELSE /\ ToSet(out) = ToSet(old) \cup new /\ NoTwice(out)
                             /\ IsPrefix(old, out)
                             /\ ToSet(out) \ ToSet(old) \subseteq input.known
      BY DEF CategoriesAreMerged
    <2>1. /\ input \in CategoryInputs
          /\ out = HandleUserCategories(input.known, input.idata, input.odata, input.merge)
      BY <1>1 DEF Answered, Done
    <2>2. input.idata \in Seq(Names) /\ old \in Seq(Names)
      <3>1. UpTo(MaxList, Names) \subseteq Seq(Names) /\ UpTo(MaxList, Category) \subseteq Seq(Names)
        BY UpToIsSeq, DataFunctionsAssumption DEF Names
      <3> QED
        BY <2>1, <3>1 DEF CategoryInputs
    <2> DEFINE added == ToSet(input.idata) \ (ToSet(old) \cup {Blank})
               merged == FoldLeft(PutString, old, input.idata)
    <2>3. out = IF added \subseteq input.known THEN merged ELSE Refused
      BY <2>1 DEF HandleUserCategories, HandleStrings
    <2>4. merged \in Seq(Names) /\ StringsMerged(merged, old, input.idata, Len(input.idata))
      <3> HIDE DEF old
      <3> QED
        BY <2>2, HandleStringsMerges
    <2>5. merged # Refused
      BY <2>4, DataFunctionsAssumption
    <2>6. ToSet(merged) = ToSet(old) \cup new
      <3>1. {input.idata[j] : j \in 1..Len(input.idata)} = ToSet(input.idata)
        BY <2>2 DEF ToSet
      <3> QED
        BY <2>4, <3>1 DEF StringsMerged
    <2>7. NoTwice(merged)
      BY <2>2, <2>4, DistinctIsCounted DEF StringsMerged
    <2>8. IsPrefix(old, merged)
      <3> HIDE DEF old, merged
      <3>1. Len(old) \in Nat /\ Len(merged) \in Nat /\ Len(old) <= Len(merged)
            /\ \A k \in 1..Len(old) : merged[k] = old[k]
        BY <2>2, <2>4 DEF StringsMerged
      <3>2. SubSeq(old, 1, Len(old)) = SubSeq(merged, 1, Len(old))
        BY <2>2, <2>4, <3>1
      <3> QED
        BY <3>1, <3>2 DEF IsPrefix
    <2>9. CASE added \subseteq input.known
      <3>1. ToSet(merged) \ ToSet(old) \subseteq input.known
        BY <2>6, <2>9
      <3> HIDE DEF merged
      <3> QED
        BY <2>3, <2>5, <2>6, <2>7, <2>8, <2>9, <3>1
    <2>10. CASE ~(added \subseteq input.known)
      <3>1. ~(new \subseteq input.known \cup ToSet(old))
        BY <2>10
      <3> QED
        BY <2>3, <2>10, <3>1
    <2> QED
      BY <2>9, <2>10
  <1> QED
    BY <1>1, SpecAnswered, PTL

-----------------------------------------------------------------------------
(* HandleUserTags.                                                         *)

UsableTag(kinds, tag) ==
  /\ kinds[tag.name] # Unknown
  /\ kinds[tag.name].allowed /\ ~kinds[tag.name].deleted

\* Tags of one place have one name.
LEMMA SameKey ==
  ASSUME NEW kinds, NEW a \in Tags, NEW b \in Tags, TagKey(kinds, a) = TagKey(kinds, b)
  PROVE  a.name = b.name
  <1>1. TagKey(kinds, a)[1] = a.name /\ TagKey(kinds, b)[1] = b.name
    BY DEF TagKey
  <1> QED
    BY <1>1

\* kmap has the last tag of each place.
LEMMA PlaceIsLast ==
  ASSUME NEW kinds, NEW list \in Seq(Tags), NEW key
  PROVE  \/ Place(kinds, list, key) = 0 /\ \A k \in 1..Len(list) : TagKey(kinds, list[k]) # key
         \/ /\ Place(kinds, list, key) \in 1..Len(list)
            /\ TagKey(kinds, list[Place(kinds, list, key)]) = key
  <1> DEFINE at == {i \in DOMAIN list : TagKey(kinds, list[i]) = key}
  <1>1. DOMAIN list = 1..Len(list) /\ Len(list) \in Nat
    OBVIOUS
  <1>2. CASE at = {}
    BY <1>1, <1>2 DEF Place
  <1>3. CASE at # {}
    <2>1. at \in SUBSET (0..Len(list))
      BY <1>1
    <2>2. Max(at) \in at /\ \A x \in at : Max(at) >= x
      <3> HIDE DEF at
      <3> QED
        BY <1>1, <1>3, <2>1, MaxIsLargest
    <2>3. \A x \in at : x <= Max(at)
      <3> HIDE DEF at
      <3> QED
        BY <1>1, <2>1, <2>2
    <2>4. Place(kinds, list, key) = CHOOSE i \in at : \A j \in at : j <= i
      BY <1>3 DEF Place
    <2>5. Place(kinds, list, key) \in at
      <3> HIDE DEF at
      <3> QED
        BY <2>2, <2>3, <2>4
    <2> QED
      BY <1>1, <2>5
  <1> QED
    BY <1>2, <1>3

\* PutTag leaves the list alone, or adds the tag, or puts it in its place.
LEMMA PutTagPuts ==
  ASSUME NEW kinds, NEW list \in Seq(Tags), NEW tag \in Tags
  PROVE  /\ PutTag(kinds, list, tag) \in Seq(Tags)
         /\ ~UsableTag(kinds, tag) => PutTag(kinds, list, tag) = list
         /\ UsableTag(kinds, tag) =>
              \/ /\ \A k \in 1..Len(list) : TagKey(kinds, list[k]) # TagKey(kinds, tag)
                 /\ PutTag(kinds, list, tag) = Append(list, tag)
              \/ \E p \in 1..Len(list) :
                   /\ TagKey(kinds, list[p]) = TagKey(kinds, tag)
                   /\ PutTag(kinds, list, tag) = [list EXCEPT ![p] = tag]
  <1> DEFINE key == TagKey(kinds, tag)
             p == Place(kinds, list, key)
  <1>1. CASE ~UsableTag(kinds, tag)
    BY <1>1 DEF PutTag, UsableTag
  <1>2. CASE UsableTag(kinds, tag) /\ p = 0
    <2>1. PutTag(kinds, list, tag) = Append(list, tag)
      BY <1>2 DEF PutTag, UsableTag
    <2>2. \A k \in 1..Len(list) : TagKey(kinds, list[k]) # key
      BY <1>2, PlaceIsLast
    <2> QED
      BY <1>2, <2>1, <2>2
  <1>3. CASE UsableTag(kinds, tag) /\ p # 0
    <2>1. p \in 1..Len(list) /\ TagKey(kinds, list[p]) = key
      BY <1>3, PlaceIsLast
    <2>2. PutTag(kinds, list, tag) = [list EXCEPT ![p].value = tag.value]
      BY <1>3 DEF PutTag, UsableTag
    <2>3. list[p] \in Tags
      BY <2>1
    <2>4. [list[p] EXCEPT !.value = tag.value] = tag
      <3>1. TagKey(kinds, list[p]) = TagKey(kinds, tag)
        BY <2>1
      <3> DEFINE old == list[p]
      <3>2. old \in Tags /\ TagKey(kinds, old) = TagKey(kinds, tag)
        BY <2>3, <3>1
      <3> HIDE DEF old
      <3>3. old.name = tag.name
        BY <3>2, SameKey
      <3>4. [old EXCEPT !.value = tag.value] = tag
        BY <3>2, <3>3 DEF Tags
      <3> QED
        BY <3>4 DEF old
    <2>5. PutTag(kinds, list, tag) = [list EXCEPT ![p] = tag]
      <3> HIDE DEF p
      <3>1. [list EXCEPT ![p].value = tag.value] = [list EXCEPT ![p] = [list[p] EXCEPT !.value = tag.value]]
        OBVIOUS
      <3> QED
        BY <2>2, <2>4, <3>1
    <2>6. [list EXCEPT ![p] = tag] \in Seq(Tags)
      BY <2>1, ExceptSeq
    <2> QED
      BY <1>3, <2>1, <2>5, <2>6
  <1> QED
    BY <1>1, <1>2, <1>3

\* What HandleUserTags has after each tag of the request.
TagStages(t, kinds, before, idata) ==
  /\ t \in [0..Len(idata) -> Seq(Tags)] /\ t[0] = before
  /\ \A i \in 1..Len(idata) : t[i] = PutTag(kinds, t[i - 1], idata[i])

PutTags(kinds, before, idata) ==
  FoldLeft(LAMBDA tags, tag : PutTag(kinds, tags, tag), before, idata)

LEMMA HandleTagsStages ==
  ASSUME NEW kinds, NEW before \in Seq(Tags), NEW idata \in Seq(Tags)
  PROVE  \E t : TagStages(t, kinds, before, idata) /\ PutTags(kinds, before, idata) = t[Len(idata)]
  <1> DEFINE n == Len(idata)
             A == Seq(Tags)
             g == [x \in A \X (1..n) |-> PutTag(kinds, x[1], idata[x[2]])]
             fold == CHOOSE iter : iter =
                       [s \in SUBSET (DOMAIN idata) |->
                          IF s = {} THEN before
                          ELSE PutTag(kinds, iter[s \ {Max(s)}], idata[Max(s)])]
  <1>1. n \in Nat /\ DOMAIN idata = 1..n /\ \A i \in 1..n : idata[i] \in Tags
    OBVIOUS
  <1>2. g \in [A \X (1..n) -> A]
    <2> SUFFICES ASSUME NEW x \in A \X (1..n) PROVE PutTag(kinds, x[1], idata[x[2]]) \in A
      OBVIOUS
    <2>1. x[1] \in Seq(Tags) /\ idata[x[2]] \in Tags
      BY <1>1
    <2> QED
      BY <2>1, PutTagPuts
  <1>3. PICK f \in [SUBSET (1..n) -> A] : IsFold(f, before, g, n)
    <2> HIDE DEF g, n
    <2> QED
      BY <1>1, <1>2, FoldExists
  <1>4. ASSUME NEW iter, NEW s \in SUBSET (1..n), s # {}, iter[s \ {Max(s)}] \in A
        PROVE  g[<<iter[s \ {Max(s)}], Max(s)>>] = PutTag(kinds, iter[s \ {Max(s)}], idata[Max(s)])
    <2>1. Max(s) \in s
      BY <1>4, <1>1, MaxIsLargest, s \in SUBSET (0..n)
    <2> QED
      BY <1>4, <2>1
  <1>5. f = [s \in SUBSET (DOMAIN idata) |->
               IF s = {} THEN before ELSE PutTag(kinds, f[s \ {Max(s)}], idata[Max(s)])]
    <2>1. \A s \in SUBSET (1..n) : f[s \ {Max(s)}] \in A
      OBVIOUS
    <2> HIDE DEF g, n, A
    <2> QED
      BY <1>1, <1>3, <1>4, <2>1 DEF IsFold
  <1>6. fold = [s \in SUBSET (DOMAIN idata) |->
                  IF s = {} THEN before ELSE PutTag(kinds, fold[s \ {Max(s)}], idata[Max(s)])]
    BY <1>5
  <1>7. PutTags(kinds, before, idata) = fold[1..n]
    <2>1. PutTags(kinds, before, idata) = fold[DOMAIN idata]
      BY DEF PutTags, FoldLeft, MapThenFoldSet
    <2> QED
      BY <2>1, <1>1
  <1> HIDE DEF fold
  <1> DEFINE t == [i \in 0..n |-> fold[1..i]]
  <1>8. t[0] = before
    BY <1>6, <1>1, 1..0 = {}
  <1>9. \A i \in 1..n : t[i] = PutTag(kinds, t[i - 1], idata[i])
    <2> SUFFICES ASSUME NEW i \in 1..n PROVE fold[1..i] = PutTag(kinds, fold[1..(i - 1)], idata[i])
      BY <1>1
    <2>1. 1..i # {} /\ 1..i \in SUBSET (1..n) /\ Max(1..i) = i /\ (1..i) \ {i} = 1..(i - 1)
      BY <1>1, LastOfRange
    <2> QED
      BY <2>1, <1>1, <1>6
  <1>10. t \in [0..n -> A]
    <2> DEFINE Good == {i \in 0..n : t[i] \in A}
    <2>1. 0 \in Good
      BY <1>8, <1>1
    <2>2. ASSUME NEW i \in 0..(n - 1), i \in Good PROVE i + 1 \in Good
      <3>1. i + 1 \in 1..n /\ (i + 1) - 1 = i /\ t[i] \in A /\ idata[i + 1] \in Tags
        BY <2>2, <1>1
      <3> HIDE DEF t
      <3>2. t[i + 1] = PutTag(kinds, t[i], idata[i + 1])
        BY <1>9, <3>1
      <3> QED
        BY <3>1, <3>2, PutTagPuts
    <2> HIDE DEF Good
    <2>3. \A i \in 0..n : i \in Good
      BY <1>1, <2>1, <2>2, InductionUpTo
    <2> QED
      BY <2>3 DEF Good
  <1>11. t[n] = fold[1..n]
    BY <1>1
  <1> HIDE DEF t
  <1> QED
    BY <1>7, <1>8, <1>9, <1>10, <1>11 DEF TagStages

-----------------------------------------------------------------------------
(* TagsAreMerged.                                                          *)

\* The tags that count among the first i of the request.
UsedIn(kinds, idata, i) == {j \in 1..i : UsableTag(kinds, idata[j])}

OnePlaceEach(kinds, list) ==
  \A p, q \in DOMAIN list : TagKey(kinds, list[p]) = TagKey(kinds, list[q]) => p = q

\* What HandleUserTags has made of the first i tags of the request: those of the
\* record stay in their places, there is one tag in each place, and it is the
\* last one of the request for the place or else the one that was there.
TagsMerged(list, kinds, before, idata, used) ==
  /\ Len(before) <= Len(list)
  /\ \A k \in 1..Len(before) : TagKey(kinds, list[k]) = TagKey(kinds, before[k])
  /\ OnePlaceEach(kinds, list)
  /\ \A k \in 1..Len(list) :
       \/ \E q \in 1..Len(before) : TagKey(kinds, list[k]) = TagKey(kinds, before[q])
       \/ \E j \in used : TagKey(kinds, list[k]) = TagKey(kinds, idata[j])
  /\ \A j \in used :
       \E k \in 1..Len(list) : TagKey(kinds, list[k]) = TagKey(kinds, idata[j])
  /\ \A k \in 1..Len(list), j \in used :
       (/\ TagKey(kinds, idata[j]) = TagKey(kinds, list[k])
        /\ \A l \in used : TagKey(kinds, idata[l]) = TagKey(kinds, list[k]) => l <= j)
         => list[k] = idata[j]
  /\ \A k \in 1..Len(list), q \in 1..Len(before) :
       (/\ TagKey(kinds, before[q]) = TagKey(kinds, list[k])
        /\ \A l \in used : TagKey(kinds, idata[l]) # TagKey(kinds, list[k]))
         => list[k] = before[q]
  /\ (\A q \in 1..Len(before) : kinds[before[q].name] # Unknown) =>
       \A k \in 1..Len(list) : kinds[list[k].name] # Unknown

LEMMA TagMerged ==
  ASSUME NEW kinds, NEW before \in Seq(Tags), NEW idata \in Seq(Tags),
         NEW i \in 0..(Len(idata) - 1), NEW list \in Seq(Tags),
         TagsMerged(list, kinds, before, idata, UsedIn(kinds, idata, i))
  PROVE  TagsMerged(PutTag(kinds, list, idata[i + 1]), kinds, before, idata, UsedIn(kinds, idata, i + 1))
  <1> DEFINE tag == idata[i + 1]
             next == PutTag(kinds, list, tag)
             U == UsedIn(kinds, idata, i)
             V == UsedIn(kinds, idata, i + 1)
             K(x) == TagKey(kinds, x)
  <1>1. /\ i \in Nat /\ i + 1 \in 1..Len(idata) /\ tag \in Tags
        /\ Len(list) \in Nat /\ Len(before) \in Nat
        /\ DOMAIN list = 1..Len(list) /\ Len(before) <= Len(list)
    BY DEF TagsMerged
  <1>2. V = IF UsableTag(kinds, tag) THEN U \cup {i + 1} ELSE U
    <2>1. 1..(i + 1) = (1..i) \cup {i + 1}
      BY <1>1
    <2> QED
      BY <2>1 DEF UsedIn
  <1>3. \A l \in U : l \in Nat /\ l < i + 1
    BY <1>1 DEF UsedIn
  <1>4. CASE ~UsableTag(kinds, tag)
    <2>1. next = list
      BY <1>1, <1>4, PutTagPuts
    <2>2. V = U
      BY <1>2, <1>4
    <2> QED
      BY <2>1, <2>2
  <1>5. CASE /\ UsableTag(kinds, tag)
             /\ \A k \in 1..Len(list) : K(list[k]) # K(tag)
             /\ next = Append(list, tag)
    <2>1. /\ Len(next) = Len(list) + 1 /\ DOMAIN next = 1..(Len(list) + 1)
          /\ \A k \in 1..Len(list) : next[k] = list[k]
          /\ next[Len(list) + 1] = tag
      BY <1>1, <1>5
    <2>2. V = U \cup {i + 1} /\ kinds[tag.name] # Unknown
      BY <1>2, <1>5 DEF UsableTag
    <2>3. \A k \in 1..(Len(list) + 1) : k \in 1..Len(list) \/ k = Len(list) + 1
      BY <1>1
    <2>4. \A k \in 1..Len(before) : k \in 1..Len(list)
      BY <1>1
    <2>5. Len(list) + 1 \in 1..(Len(list) + 1) /\ \A k \in 1..Len(list) : k \in 1..(Len(list) + 1)
      BY <1>1
    <2>6. \A k \in 1..Len(list) : K(next[k]) = K(list[k]) /\ K(list[k]) # K(tag)
      BY <2>1, <1>5
    <2> HIDE DEF next, U, V, tag, K
    <2>7. Len(before) <= Len(next) /\ \A k \in 1..Len(before) : K(next[k]) = K(before[k])
      <3>1. \A k \in 1..Len(before) : K(list[k]) = K(before[k])
        BY DEF TagsMerged, K
      <3> QED
        BY <1>1, <2>1, <2>4, <2>6, <3>1
    <2>8. \A p, q \in DOMAIN next : K(next[p]) = K(next[q]) => p = q
      <3>1. \A p, q \in 1..Len(list) : K(list[p]) = K(list[q]) => p = q
        BY <1>1 DEF TagsMerged, OnePlaceEach, K
      <3> QED
        BY <2>1, <2>3, <2>6, <3>1
    <2>9. \A k \in 1..Len(next) :
            \/ \E q \in 1..Len(before) : K(next[k]) = K(before[q])
            \/ \E j \in V : K(next[k]) = K(idata[j])
      <3>1. \A k \in 1..Len(list) :
              \/ \E q \in 1..Len(before) : K(list[k]) = K(before[q])
              \/ \E j \in U : K(list[k]) = K(idata[j])
        BY DEF TagsMerged, K, U
      <3> QED
        BY <2>1, <2>2, <2>3, <3>1 DEF tag
    <2>10. \A j \in V : \E k \in 1..Len(next) : K(next[k]) = K(idata[j])
      <3>1. \A j \in U : \E k \in 1..Len(list) : K(list[k]) = K(idata[j])
        BY DEF TagsMerged, K, U
      <3> QED
        BY <2>1, <2>2, <2>5, <3>1 DEF tag
    <2>11. ASSUME NEW k \in 1..Len(next), NEW j \in V,
                  K(idata[j]) = K(next[k]), \A l \in V : K(idata[l]) = K(next[k]) => l <= j
           PROVE  next[k] = idata[j]
      <3>1. \A m \in 1..Len(list), h \in U :
              (K(idata[h]) = K(list[m]) /\ \A l \in U : K(idata[l]) = K(list[m]) => l <= h)
                => list[m] = idata[h]
        BY DEF TagsMerged, K, U
      <3>2. CASE k \in 1..Len(list)
        <4>1. next[k] = list[k] /\ j # i + 1
          BY <3>2, <2>1, <2>6, <2>11 DEF tag
        <4>2. j \in U /\ \A l \in U : K(idata[l]) = K(list[k]) => l <= j
          BY <4>1, <2>2, <2>11
        <4> QED
          BY <3>1, <3>2, <4>1, <4>2, <2>11
      <3>3. CASE k = Len(list) + 1
        <4>1. next[k] = tag /\ K(idata[i + 1]) = K(next[k]) /\ i + 1 \in V
          BY <3>3, <2>1, <2>2 DEF tag
        <4>2. i + 1 <= j
          BY <4>1, <2>11
        <4>3. j = i + 1
          BY <4>2, <2>2, <1>1, <1>3 DEF U
        <4> QED
          BY <4>1, <4>3 DEF tag
      <3> QED
        BY <2>1, <2>3, <3>2, <3>3
    <2>12. ASSUME NEW k \in 1..Len(next), NEW q \in 1..Len(before),
                  K(before[q]) = K(next[k]), \A l \in V : K(idata[l]) # K(next[k])
           PROVE  next[k] = before[q]
      <3>1. \A m \in 1..Len(list), h \in 1..Len(before) :
              (K(before[h]) = K(list[m]) /\ \A l \in U : K(idata[l]) # K(list[m]))
                => list[m] = before[h]
        BY DEF TagsMerged, K, U
      <3>2. k # Len(list) + 1
        BY <2>1, <2>2, <2>12 DEF tag
      <3>3. k \in 1..Len(list) /\ next[k] = list[k]
        BY <3>2, <2>1, <2>3
      <3> QED
        BY <3>1, <3>3, <2>2, <2>12
    <2>13. (\A q \in 1..Len(before) : kinds[before[q].name] # Unknown) =>
             \A k \in 1..Len(next) : kinds[next[k].name] # Unknown
      BY <2>1, <2>2, <2>3 DEF TagsMerged
    <2> QED
      BY <2>7, <2>8, <2>9, <2>10, <2>11, <2>12, <2>13 DEF TagsMerged, OnePlaceEach, K, V, next, tag
  <1>6. ASSUME UsableTag(kinds, tag),
               NEW p \in 1..Len(list), K(list[p]) = K(tag), next = [list EXCEPT ![p] = tag]
        PROVE  TagsMerged(next, kinds, before, idata, UsedIn(kinds, idata, i + 1))
    <2>1. /\ Len(next) = Len(list) /\ DOMAIN next = 1..Len(list)
          /\ \A k \in 1..Len(list) : next[k] = IF k = p THEN tag ELSE list[k]
      BY <1>1, <1>6
    <2>2. V = U \cup {i + 1} /\ kinds[tag.name] # Unknown
      BY <1>2, <1>6 DEF UsableTag
    <2>3. \A k \in 1..Len(before) : k \in 1..Len(list)
      BY <1>1
    <2>4. \A k \in 1..Len(list) : K(next[k]) = K(list[k])
      BY <2>1, <1>6
    <2>5. \A k, q \in 1..Len(list) : K(list[k]) = K(list[q]) => k = q
      BY <1>1 DEF TagsMerged, OnePlaceEach
    <2>6. K(list[p]) = K(tag)
      BY <1>6
    <2> HIDE DEF next, U, V, tag, K
    <2>7. Len(before) <= Len(next) /\ \A k \in 1..Len(before) : K(next[k]) = K(before[k])
      <3>1. \A k \in 1..Len(before) : K(list[k]) = K(before[k])
        BY DEF TagsMerged, K
      <3> QED
        BY <1>1, <2>1, <2>3, <2>4, <3>1
    <2>8. \A k, q \in DOMAIN next : K(next[k]) = K(next[q]) => k = q
      BY <2>1, <2>4, <2>5
    <2>9. \A k \in 1..Len(next) :
            \/ \E q \in 1..Len(before) : K(next[k]) = K(before[q])
            \/ \E j \in V : K(next[k]) = K(idata[j])
      <3>1. \A k \in 1..Len(list) :
              \/ \E q \in 1..Len(before) : K(list[k]) = K(before[q])
              \/ \E j \in U : K(list[k]) = K(idata[j])
        BY DEF TagsMerged, K, U
      <3> QED
        BY <2>1, <2>2, <2>4, <3>1
    <2>10. \A j \in V : \E k \in 1..Len(next) : K(next[k]) = K(idata[j])
      <3>1. \A j \in U : \E k \in 1..Len(list) : K(list[k]) = K(idata[j])
        BY DEF TagsMerged, K, U
      <3>2. K(next[p]) = K(idata[i + 1])
        BY <2>4, <2>6 DEF tag
      <3> QED
        BY <2>1, <2>2, <2>4, <3>1, <3>2
    <2>11. ASSUME NEW k \in 1..Len(next), NEW j \in V,
                  K(idata[j]) = K(next[k]), \A l \in V : K(idata[l]) = K(next[k]) => l <= j
           PROVE  next[k] = idata[j]
      <3>1. \A m \in 1..Len(list), h \in U :
              (K(idata[h]) = K(list[m]) /\ \A l \in U : K(idata[l]) = K(list[m]) => l <= h)
                => list[m] = idata[h]
        BY DEF TagsMerged, K, U
      <3>2. CASE k # p
        <4>1. next[k] = list[k] /\ k \in 1..Len(list)
          BY <3>2, <2>1
        <4>2. j # i + 1
          <5>1. K(list[k]) # K(list[p])
            BY <4>1, <3>2, <2>5
          <5> QED
            BY <4>1, <5>1, <2>6, <2>11 DEF tag
        <4>3. j \in U /\ \A l \in U : K(idata[l]) = K(list[k]) => l <= j
          BY <4>1, <4>2, <2>2, <2>11
        <4> QED
          BY <3>1, <4>1, <4>3, <2>11
      <3>3. CASE k = p
        <4>1. next[k] = tag /\ K(idata[i + 1]) = K(next[k]) /\ i + 1 \in V
          BY <3>3, <2>1, <2>2 DEF tag
        <4>2. i + 1 <= j
          BY <4>1, <2>11
        <4>3. j = i + 1
          BY <4>2, <2>2, <1>1, <1>3 DEF U
        <4> QED
          BY <4>1, <4>3 DEF tag
      <3> QED
        BY <3>2, <3>3
    <2>12. ASSUME NEW k \in 1..Len(next), NEW q \in 1..Len(before),
                  K(before[q]) = K(next[k]), \A l \in V : K(idata[l]) # K(next[k])
           PROVE  next[k] = before[q]
      <3>1. \A m \in 1..Len(list), h \in 1..Len(before) :
              (K(before[h]) = K(list[m]) /\ \A l \in U : K(idata[l]) # K(list[m]))
                => list[m] = before[h]
        BY DEF TagsMerged, K, U
      <3>2. k # p
        BY <2>1, <2>2, <2>12 DEF tag
      <3>3. k \in 1..Len(list) /\ next[k] = list[k]
        BY <3>2, <2>1
      <3> QED
        BY <3>1, <3>3, <2>2, <2>12
    <2>13. (\A q \in 1..Len(before) : kinds[before[q].name] # Unknown) =>
             \A k \in 1..Len(next) : kinds[next[k].name] # Unknown
      <3>1. (\A q \in 1..Len(before) : kinds[before[q].name] # Unknown) =>
              \A k \in 1..Len(list) : kinds[list[k].name] # Unknown
        BY DEF TagsMerged
      <3>2. \A k \in 1..Len(next) : k \in 1..Len(list) /\ (next[k] = tag \/ next[k] = list[k])
        BY <2>1
      <3> QED
        BY <2>2, <3>1, <3>2
    <2> QED
      BY <2>7, <2>8, <2>9, <2>10, <2>11, <2>12, <2>13 DEF TagsMerged, OnePlaceEach, K, V, next, tag
  <1> QED
    BY <1>1, <1>4, <1>5, <1>6, PutTagPuts

\* The whole of HandleUserTags.
LEMMA PutTagsMerge ==
  ASSUME NEW kinds, NEW before \in Seq(Tags), NEW idata \in Seq(Tags), OnePlaceEach(kinds, before)
  PROVE  /\ PutTags(kinds, before, idata) \in Seq(Tags)
         /\ TagsMerged(PutTags(kinds, before, idata), kinds, before, idata, UsedIn(kinds, idata, Len(idata)))
  <1> DEFINE n == Len(idata)
  <1>1. PICK t : TagStages(t, kinds, before, idata) /\ PutTags(kinds, before, idata) = t[n]
    BY HandleTagsStages
  <1>2. n \in Nat /\ n \in 0..n
    OBVIOUS
  <1>3. \A i \in 0..n : t[i] \in Seq(Tags)
    BY <1>1 DEF TagStages
  <1> DEFINE Good == {i \in 0..n : TagsMerged(t[i], kinds, before, idata, UsedIn(kinds, idata, i))}
  <1>4. 0 \in Good
    <2>1. t[0] = before /\ Len(before) <= Len(before) /\ DOMAIN before = 1..Len(before)
      BY <1>1 DEF TagStages
    <2>2. UsedIn(kinds, idata, 0) = {}
      BY DEF UsedIn
    <2>3. \A k, q \in 1..Len(before) :
            TagKey(kinds, before[q]) = TagKey(kinds, before[k]) => before[k] = before[q]
      BY <2>1 DEF OnePlaceEach
    <2> QED
      BY <1>2, <2>1, <2>2, <2>3 DEF TagsMerged
  <1>5. ASSUME NEW i \in 0..(n - 1), i \in Good PROVE i + 1 \in Good
    <2>1. i \in 0..n /\ i + 1 \in 1..n /\ i + 1 \in 0..n /\ (i + 1) - 1 = i
      BY <1>2
    <2>2. t[i + 1] = PutTag(kinds, t[i], idata[i + 1])
      BY <1>1, <2>1 DEF TagStages
    <2>3. TagsMerged(PutTag(kinds, t[i], idata[i + 1]), kinds, before, idata, UsedIn(kinds, idata, i + 1))
      BY <1>3, <1>5, <2>1, TagMerged
    <2> QED
      BY <2>1, <2>2, <2>3
  <1>6. n \in Good
    <2> HIDE DEF Good
    <2> QED
      BY <1>2, <1>4, <1>5, InductionUpTo
  <1> QED
    BY <1>1, <1>2, <1>3, <1>6

\* Of the places of a list some, at least one, have a last one.
LEMMA LastIsMax ==
  ASSUME NEW n \in Nat, NEW given \in SUBSET (1..n), given # {}
  PROVE  Max(given) \in given /\ \A l \in given : l <= Max(given)
  <1>1. Max(given) \in given /\ \A l \in given : Max(given) >= l
    BY MaxIsLargest, given \in SUBSET (0..n)
  <1>2. \A l \in given : l \in Nat
    OBVIOUS
  <1> QED
    BY <1>1, <1>2

\* A request handled once more leaves all as it is.
LEMMA PutTagsTwice ==
  ASSUME NEW kinds, NEW before \in Seq(Tags), NEW idata \in Seq(Tags), OnePlaceEach(kinds, before)
  PROVE  LET out == PutTags(kinds, before, idata) IN PutTags(kinds, out, idata) = out
  <1> DEFINE n == Len(idata)
             out == PutTags(kinds, before, idata)
             again == PutTags(kinds, out, idata)
             U == UsedIn(kinds, idata, n)
             K(x) == TagKey(kinds, x)
  <1>1. out \in Seq(Tags) /\ TagsMerged(out, kinds, before, idata, U)
    BY PutTagsMerge
  <1>2. OnePlaceEach(kinds, out)
    BY <1>1 DEF TagsMerged
  <1>3. again \in Seq(Tags) /\ TagsMerged(again, kinds, out, idata, U)
    <2> HIDE DEF out
    <2> QED
      BY <1>1, <1>2, PutTagsMerge
  <1> HIDE DEF out, again
  <1>4. /\ Len(out) \in Nat /\ Len(again) \in Nat /\ Len(out) <= Len(again)
        /\ DOMAIN out = 1..Len(out) /\ DOMAIN again = 1..Len(again)
    BY <1>1, <1>3 DEF TagsMerged
  <1>5. \A k \in 1..Len(out) : k \in 1..Len(again) /\ K(again[k]) = K(out[k])
    BY <1>3, <1>4 DEF TagsMerged
  <1>6. Len(again) = Len(out)
    <2>0. Len(out) \in Nat /\ Len(again) \in Nat /\ Len(out) <= Len(again)
      BY <1>4
    <2> SUFFICES ASSUME Len(out) < Len(again) PROVE FALSE
      BY <2>0
    <2> DEFINE z == Len(again)
    <2>1. z \in 1..Len(again) /\ z \notin 1..Len(out)
      BY <1>4
    <2>2. \E k \in 1..Len(out) : K(again[z]) = K(out[k])
      <3>1. CASE \E q \in 1..Len(out) : K(again[z]) = K(out[q])
        BY <3>1
      <3>2. CASE \E j \in U : K(again[z]) = K(idata[j])
        <4>1. \A j \in U : \E k \in 1..Len(out) : K(out[k]) = K(idata[j])
          BY <1>1 DEF TagsMerged
        <4> QED
          BY <3>2, <4>1
      <3> QED
        BY <2>1, <3>1, <3>2, <1>3 DEF TagsMerged
    <2>3. PICK k \in 1..Len(out) : K(again[z]) = K(out[k])
      BY <2>2
    <2>4. k \in 1..Len(again) /\ K(again[z]) = K(again[k])
      BY <2>3, <1>5
    <2>5. z = k
      BY <2>1, <2>4, <1>3, <1>4 DEF TagsMerged, OnePlaceEach
    <2> QED
      BY <2>1, <2>5
  <1>7. ASSUME NEW k \in 1..Len(out) PROVE again[k] = out[k]
    <2>1. k \in 1..Len(again) /\ K(again[k]) = K(out[k])
      BY <1>5
    <2>2. CASE \E j \in U : K(idata[j]) = K(out[k])
      <3> DEFINE given == {l \in U : K(idata[l]) = K(out[k])}
      <3>1. Max(given) \in given /\ \A l \in given : l <= Max(given)
        <4>1. n \in Nat /\ given \in SUBSET (1..n) /\ given # {}
          BY <2>2 DEF UsedIn
        <4> HIDE DEF given, n
        <4> QED
          BY <4>1, LastIsMax
      <3> DEFINE m == Max(given)
      <3>2. m \in U /\ K(idata[m]) = K(out[k]) /\ \A l \in U : K(idata[l]) = K(out[k]) => l <= m
        BY <3>1
      <3> HIDE DEF m
      <3>3. out[k] = idata[m]
        BY <1>1, <3>2 DEF TagsMerged
      <3>4. again[k] = idata[m]
        BY <1>3, <2>1, <3>2 DEF TagsMerged
      <3> QED
        BY <3>3, <3>4
    <2>3. CASE \A j \in U : K(idata[j]) # K(out[k])
      BY <1>3, <2>1, <2>3 DEF TagsMerged
    <2> QED
      BY <2>2, <2>3
  <1>8. again = out
    BY <1>1, <1>3, <1>6, <1>7, SeqEqual
  <1> QED
    BY <1>8 DEF again, out

\* Counting the places of the tags of a list tells whether two have the same.
LEMMA KeysAreCounted ==
  ASSUME NEW kinds, NEW list \in Seq(Tags)
  PROVE  Cardinality({TagKey(kinds, list[i]) : i \in DOMAIN list}) = Len(list)
           <=> OnePlaceEach(kinds, list)
  <1> DEFINE keys == {TagKey(kinds, list[i]) : i \in DOMAIN list}
             seq == [i \in 1..Len(list) |-> TagKey(kinds, list[i])]
  <1>1. DOMAIN list = 1..Len(list) /\ Len(list) \in Nat
    OBVIOUS
  <1>2. seq \in Seq(keys) /\ Len(seq) = Len(list) /\ DOMAIN seq = 1..Len(list)
    <2>1. \A i \in 1..Len(list) : TagKey(kinds, list[i]) \in keys
      BY <1>1
    <2> HIDE DEF keys
    <2>2. seq \in [1..Len(list) -> keys]
      BY <2>1
    <2> HIDE DEF seq
    <2>3. seq \in Seq(keys)
      BY <1>1, <2>2, SeqDef
    <2> QED
      BY <1>1, <2>2, <2>3
  <1>3. ToSet(seq) = keys
    BY <1>1, <1>2 DEF ToSet
  <1>4. \A i \in 1..Len(list) : seq[i] = TagKey(kinds, list[i])
    OBVIOUS
  <1> HIDE DEF seq, keys
  <1>5. NoTwice(seq) <=> Distinct(seq)
    BY <1>2, DistinctIsCounted
  <1>6. NoTwice(seq) <=> Cardinality(keys) = Len(list)
    BY <1>2, <1>3 DEF NoTwice
  <1>7. Distinct(seq) <=> OnePlaceEach(kinds, list)
    BY <1>1, <1>2, <1>4 DEF Distinct, OnePlaceEach
  <1> QED
    BY <1>5, <1>6, <1>7 DEF keys

\* The tag of a place, where no two tags have the same.
LEMMA PlaceIsThere ==
  ASSUME NEW kinds, NEW list \in Seq(Tags), OnePlaceEach(kinds, list), NEW k \in 1..Len(list)
  PROVE  Place(kinds, list, TagKey(kinds, list[k])) = k
  <1>1. DOMAIN list = 1..Len(list)
    OBVIOUS
  <1> QED
    BY <1>1, PlaceIsLast DEF OnePlaceEach

\* HandleUserTags: each place has one tag, with the last value the request has
\* for it or else the one of the record, what was there stays in its place, and a
\* request sent again (a retry after a lost answer) changes nothing.
THEOREM SpecTagsAreMerged == Spec => []TagsAreMerged
  <1>1. ASSUME Answered PROVE TagsAreMerged
    <2> DEFINE kinds == input.kinds
               idata == input.idata
               old == IF input.merge THEN input.odata ELSE << >>
               given(key) == {i \in DOMAIN idata : /\ Usable(idata[i])
                                                  /\ TagKey(kinds, idata[i]) = key}
               new == {TagKey(kinds, idata[i]) : i \in {j \in DOMAIN idata : Usable(idata[j])}}
               out == result[1]
               U == UsedIn(kinds, idata, Len(idata))
               K(x) == TagKey(kinds, x)
    <2> SUFFICES ASSUME Done("tags"), out # Refused, Cardinality(Keys(old)) = Len(old)
                 PROVE  /\ Cardinality(Keys(out)) = Len(out)
                        /\ Keys(out) = Keys(old) \cup new
                        /\ \A key \in Keys(out) :
                             LastAt(out, key) = IF key \in new THEN idata[Max(given(key))].value
                                                ELSE LastAt(old, key)
                        /\ Len(old) <= Len(out)
                        /\ \A p \in DOMAIN old : TagKey(kinds, out[p]) = TagKey(kinds, old[p])
                        /\ HandleUserTags(kinds, idata, out, TRUE) = out
      BY DEF TagsAreMerged
    <2>1. input \in TagInputs /\ out = HandleUserTags(kinds, idata, input.odata, input.merge)
      BY <1>1 DEF Answered, Done
    <2>2. idata \in Seq(Tags) /\ old \in Seq(Tags)
      <3>1. UpTo(MaxList, Tags) \subseteq Seq(Tags)
        BY UpToIsSeq, DataFunctionsAssumption
      <3> QED
        BY <2>1, <3>1 DEF TagInputs
    <2>3. out = PutTags(kinds, old, idata) /\ \A q \in 1..Len(old) : kinds[old[q].name] # Unknown
      <3>1. out = IF input.merge /\ \E i \in DOMAIN input.odata : kinds[input.odata[i].name] = Unknown
                  THEN Refused ELSE PutTags(kinds, old, idata)
        BY <2>1 DEF HandleUserTags, PutTags
      <3>2. ~(input.merge /\ \E i \in DOMAIN input.odata : kinds[input.odata[i].name] = Unknown)
        BY <3>1
      <3>3. out = PutTags(kinds, old, idata)
        BY <3>1, <3>2
      <3>4. DOMAIN old = 1..Len(old)
        BY <2>2
      <3>5. CASE input.merge
        BY <3>2, <3>3, <3>4, <3>5
      <3>6. CASE ~input.merge
        <4>1. old = << >> /\ Len(old) = 0
          BY <3>6
        <4> HIDE DEF old
        <4>2. 1..Len(old) = {}
          BY <4>1
        <4> QED
          BY <3>3, <4>2
      <3> QED
        BY <3>5, <3>6
    <2>4. Keys(old) = {TagKey(kinds, old[i]) : i \in DOMAIN old}
          /\ Keys(out) = {TagKey(kinds, out[i]) : i \in DOMAIN out}
      BY DEF Keys
    <2>5. OnePlaceEach(kinds, old)
      BY <2>2, <2>4, KeysAreCounted
    <2> HIDE DEF old
    <2>6. out \in Seq(Tags) /\ TagsMerged(out, kinds, old, idata, U)
      BY <2>2, <2>3, <2>5, PutTagsMerge
    <2>7. OnePlaceEach(kinds, out)
      BY <2>6 DEF TagsMerged
    <2>8. U = {i \in DOMAIN idata : Usable(idata[i])}
      BY <2>2 DEF UsedIn, Usable, UsableTag
    <2>9. /\ DOMAIN out = 1..Len(out) /\ DOMAIN old = 1..Len(old) /\ Len(old) \in Nat
          /\ Len(out) \in Nat /\ Len(old) <= Len(out) /\ DOMAIN idata = 1..Len(idata)
      BY <2>2, <2>6 DEF TagsMerged
    <2>10. new = {K(idata[j]) : j \in U}
      BY <2>8
    <2> HIDE DEF out, U, new, idata, kinds, K, given
    <2>11. Cardinality(Keys(out)) = Len(out)
      BY <2>4, <2>6, <2>7, KeysAreCounted DEF K
    <2>12. \A p \in DOMAIN old : TagKey(kinds, out[p]) = TagKey(kinds, old[p])
      BY <2>6, <2>9 DEF TagsMerged
    <2>13. Keys(out) = Keys(old) \cup new
      <3>1. ASSUME NEW k \in 1..Len(out) PROVE K(out[k]) \in Keys(old) \cup new
        <4>1. \/ \E q \in 1..Len(old) : K(out[k]) = K(old[q])
              \/ \E j \in U : K(out[k]) = K(idata[j])
          BY <2>6 DEF TagsMerged, K
        <4> QED
          BY <4>1, <2>4, <2>9, <2>10 DEF K
      <3>2. ASSUME NEW q \in 1..Len(old) PROVE K(old[q]) \in Keys(out)
        <4>1. q \in 1..Len(out) /\ K(out[q]) = K(old[q])
          BY <2>9, <2>12 DEF K
        <4> QED
          BY <4>1, <2>4, <2>9 DEF K
      <3>3. ASSUME NEW j \in U PROVE K(idata[j]) \in Keys(out)
        <4>1. PICK k \in 1..Len(out) : K(out[k]) = K(idata[j])
          BY <2>6 DEF TagsMerged, K
        <4> QED
          BY <4>1, <2>4, <2>9 DEF K
      <3> QED
        BY <3>1, <3>2, <3>3, <2>4, <2>9, <2>10 DEF K
    <2>14. ASSUME NEW key \in Keys(out)
           PROVE  LastAt(out, key) = IF key \in new THEN idata[Max(given(key))].value
                                     ELSE LastAt(old, key)
      <3>1. PICK k \in 1..Len(out) : key = K(out[k])
        BY <2>4, <2>9 DEF K
      <3>2. LastAt(out, key) = out[k].value
        <4>1. Place(kinds, out, key) = k
          BY <2>6, <2>7, <3>1, PlaceIsThere DEF K
        <4> QED
          BY <4>1 DEF LastAt, kinds
      <3>3. CASE key \in new
        <4> DEFINE m == Max(given(key))
        <4>1. /\ given(key) = {l \in U : K(idata[l]) = key}
              /\ given(key) \in SUBSET (1..Len(idata)) /\ given(key) # {} /\ Len(idata) \in Nat
          BY <2>2, <2>8, <2>9, <2>10, <3>3 DEF given, K
        <4>2. m \in given(key) /\ \A l \in given(key) : l <= m
          BY <4>1, LastIsMax
        <4>3. m \in U /\ K(idata[m]) = K(out[k]) /\ \A l \in U : K(idata[l]) = K(out[k]) => l <= m
          BY <3>1, <4>1, <4>2
        <4> HIDE DEF m
        <4>4. out[k] = idata[m]
          BY <2>6, <4>3 DEF TagsMerged, K
        <4> QED
          BY <3>2, <3>3, <4>4 DEF m
      <3>4. CASE key \notin new
        <4>1. \A l \in U : K(idata[l]) # K(out[k])
          BY <2>10, <3>1, <3>4
        <4>2. PICK q \in 1..Len(old) : K(out[k]) = K(old[q])
          BY <2>6, <4>1 DEF TagsMerged, K
        <4>3. out[k] = old[q]
          BY <2>6, <4>1, <4>2 DEF TagsMerged, K
        <4>4. Place(kinds, old, key) = q
          BY <2>2, <2>5, <3>1, <4>2, PlaceIsThere DEF K
        <4>5. LastAt(old, key) = old[q].value
          BY <4>4 DEF LastAt, kinds
        <4> QED
          BY <3>2, <3>4, <4>3, <4>5
      <3> QED
        BY <3>3, <3>4
    <2>15. HandleUserTags(kinds, idata, out, TRUE) = out
      <3>1. PutTags(kinds, out, idata) = out
        BY <2>2, <2>3, <2>5, PutTagsTwice
      <3>2. \A k \in DOMAIN out : kinds[out[k].name] # Unknown
        BY <2>3, <2>6, <2>9 DEF TagsMerged
      <3> QED
        BY <3>1, <3>2 DEF HandleUserTags, PutTags
    <2> QED
      BY <2>9, <2>11, <2>12, <2>13, <2>14, <2>15
  <1> QED
    BY <1>1, SpecAnswered, PTL

-----------------------------------------------------------------------------
(* SplitMerge.                                                             *)

\* Join adds the word to the list, or to the last of the list.
LEMMA JoinAdds ==
  ASSUME NEW L, NEW list \in Seq(Seq(L)), NEW word \in Seq(L)
  PROVE  /\ Join(list, word) \in Seq(Seq(L))
         /\ \/ /\ Join(list, word) = Append(list, word)
               /\ Len(Join(list, word)) = Len(list) + 1
               /\ Join(list, word)[Len(list) + 1] = word
               /\ \A k \in 1..Len(list) : Join(list, word)[k] = list[k]
               /\ Len(list) = 0 \/ ~Merges(list[Len(list)], word)
            \/ /\ Len(list) > 0 /\ Merges(list[Len(list)], word)
               /\ Len(Join(list, word)) = Len(list)
               /\ Join(list, word)[Len(list)] = list[Len(list)] \o word
               /\ \A k \in 1..(Len(list) - 1) : Join(list, word)[k] = list[k]
  <1> DEFINE n == Len(list)
  <1>1. CASE n > 0 /\ Merges(list[n], word)
    <2>1. n \in Nat /\ list[n] \in Seq(L) /\ \A k \in 1..(n - 1) : list[k] \in Seq(L)
      BY <1>1
    <2>2. /\ Front(list) \in Seq(Seq(L)) /\ Len(Front(list)) = n - 1
          /\ \A k \in 1..(n - 1) : Front(list)[k] = list[k]
      <3>1. /\ SubSeq(list, 1, n - 1) \in Seq(Seq(L))
            /\ Len(SubSeq(list, 1, n - 1)) = IF 1 <= n - 1 THEN (n - 1) - 1 + 1 ELSE 0
            /\ \A k \in 1..((n - 1) - 1 + 1) : SubSeq(list, 1, n - 1)[k] = list[1 + k - 1]
        BY <1>1, <2>1, SubSeqProperties, 1 \in Int, n - 1 \in Int
      <3>2. (n - 1) - 1 + 1 = n - 1 /\ \A k \in 1..(n - 1) : 1 + k - 1 = k
        BY <2>1
      <3> QED
        BY <1>1, <2>1, <3>1, <3>2 DEF Front
    <2>3. list[n] \o word \in Seq(L)
      BY <2>1
    <2>4. Join(list, word) = Append(Front(list), list[n] \o word)
      <3>1. list # << >>
        BY <1>1
      <3> QED
        BY <1>1, <3>1 DEF Join, Last
    <2> DEFINE join == Append(Front(list), list[n] \o word)
               both == list[n] \o word
               front == Front(list)
    <2>5. /\ join \in Seq(Seq(L)) /\ Len(join) = n /\ join[n] = both
          /\ \A k \in 1..(n - 1) : join[k] = list[k]
      <3>1. front \in Seq(Seq(L)) /\ both \in Seq(L) /\ Len(front) = n - 1
            /\ \A k \in 1..(n - 1) : front[k] = list[k]
        BY <2>2, <2>3
      <3> HIDE DEF both, front
      <3>2. /\ Append(front, both) \in Seq(Seq(L)) /\ Len(Append(front, both)) = n
            /\ Append(front, both)[n] = both
            /\ \A k \in 1..(n - 1) : Append(front, both)[k] = list[k]
        BY <2>1, <3>1
      <3> QED
        BY <3>2 DEF both, front
    <2> HIDE DEF join
    <2> QED
      BY <1>1, <2>4, <2>5 DEF join
  <1>2. CASE ~(n > 0 /\ Merges(list[n], word))
    <2>1. n \in Nat /\ (n = 0 <=> list = << >>)
      OBVIOUS
    <2>2. Join(list, word) = Append(list, word)
      BY <1>2, <2>1 DEF Join, Last
    <2> QED
      BY <1>2, <2>1, <2>2
  <1> QED
    BY <1>1, <1>2

LEMMA JoinType ==
  ASSUME NEW L, NEW list \in Seq(Seq(L)), NEW word \in Seq(L)
  PROVE  Join(list, word) \in Seq(Seq(L))
  BY JoinAdds

\* What SplitMerge has after each word of the query.
JoinStages(t, L, query) ==
  /\ t \in [0..Len(query) -> Seq(Seq(L))] /\ t[0] = << >>
  /\ \A i \in 1..Len(query) : t[i] = Join(t[i - 1], query[i])

LEMMA SplitMergeStages ==
  ASSUME NEW L, NEW query \in Seq(Seq(L))
  PROVE  \E t : JoinStages(t, L, query) /\ SplitMerge(query) = t[Len(query)]
  <1> DEFINE n == Len(query)
             A == Seq(Seq(L))
             g == [x \in A \X (1..n) |-> Join(x[1], query[x[2]])]
             fold == CHOOSE iter : iter =
                       [s \in SUBSET (DOMAIN query) |->
                          IF s = {} THEN << >>
                          ELSE Join(iter[s \ {Max(s)}], query[Max(s)])]
  <1>1. n \in Nat /\ DOMAIN query = 1..n /\ \A i \in 1..n : query[i] \in Seq(L)
    OBVIOUS
  <1>2. g \in [A \X (1..n) -> A] /\ << >> \in A
    <2> SUFFICES ASSUME NEW x \in A \X (1..n) PROVE Join(x[1], query[x[2]]) \in A
      OBVIOUS
    <2>1. x[1] \in A /\ query[x[2]] \in Seq(L)
      BY <1>1
    <2> QED
      BY <2>1, JoinType
  <1>3. PICK f \in [SUBSET (1..n) -> A] : IsFold(f, << >>, g, n)
    <2> HIDE DEF g, n, A
    <2> QED
      BY <1>1, <1>2, FoldExists
  <1>4. ASSUME NEW iter, NEW s \in SUBSET (1..n), s # {}, iter[s \ {Max(s)}] \in A
        PROVE  g[<<iter[s \ {Max(s)}], Max(s)>>] = Join(iter[s \ {Max(s)}], query[Max(s)])
    <2>1. Max(s) \in s
      BY <1>4, <1>1, MaxIsLargest, s \in SUBSET (0..n)
    <2> QED
      BY <1>4, <2>1
  <1>5. f = [s \in SUBSET (DOMAIN query) |->
               IF s = {} THEN << >> ELSE Join(f[s \ {Max(s)}], query[Max(s)])]
    <2>1. \A s \in SUBSET (1..n) : f[s \ {Max(s)}] \in A
      OBVIOUS
    <2> HIDE DEF g, n, A
    <2> QED
      BY <1>1, <1>3, <1>4, <2>1 DEF IsFold
  <1>6. fold = [s \in SUBSET (DOMAIN query) |->
                  IF s = {} THEN << >> ELSE Join(fold[s \ {Max(s)}], query[Max(s)])]
    BY <1>5
  <1>7. SplitMerge(query) = fold[1..n]
    <2>1. SplitMerge(query) = fold[DOMAIN query]
      BY DEF SplitMerge, FoldLeft, MapThenFoldSet
    <2> QED
      BY <2>1, <1>1
  <1> HIDE DEF fold
  <1> DEFINE t == [i \in 0..n |-> fold[1..i]]
  <1>8. t[0] = << >>
    BY <1>6, <1>1, 1..0 = {}
  <1>9. \A i \in 1..n : t[i] = Join(t[i - 1], query[i])
    <2> SUFFICES ASSUME NEW i \in 1..n PROVE fold[1..i] = Join(fold[1..(i - 1)], query[i])
      BY <1>1
    <2>1. 1..i # {} /\ 1..i \in SUBSET (1..n) /\ Max(1..i) = i /\ (1..i) \ {i} = 1..(i - 1)
      BY <1>1, LastOfRange
    <2> QED
      BY <2>1, <1>1, <1>6
  <1>10. t \in [0..n -> A]
    <2> DEFINE Good == {i \in 0..n : t[i] \in A}
    <2>1. 0 \in Good
      <3>1. 0 \in 0..n /\ << >> \in A
        BY <1>1, <1>2
      <3> HIDE DEF t, A, n
      <3> QED
        BY <1>8, <3>1
    <2>2. ASSUME NEW i \in 0..(n - 1), i \in Good PROVE i + 1 \in Good
      <3>1. i + 1 \in 1..n /\ (i + 1) - 1 = i /\ t[i] \in A /\ query[i + 1] \in Seq(L)
        BY <2>2, <1>1
      <3> HIDE DEF t
      <3>2. t[i + 1] = Join(t[i], query[i + 1])
        BY <1>9, <3>1
      <3> QED
        BY <3>1, <3>2, JoinType
    <2> HIDE DEF Good
    <2>3. \A i \in 0..n : i \in Good
      BY <1>1, <2>1, <2>2, InductionUpTo
    <2> QED
      BY <2>3 DEF Good
  <1>11. t[n] = fold[1..n]
    BY <1>1
  <1> HIDE DEF t
  <1> QED
    BY <1>7, <1>8, <1>9, <1>10, <1>11 DEF JoinStages

\* What SplitMerge has made of the first i of the words s, until it has joined a
\* second time: it has joined none, or the m-th and the one after it.
JoinedOnce(list, s, i) ==
  \/ Len(list) = i /\ \A k \in 1..i : list[k] = s[k]
  \/ /\ Len(list) = i - 1
     /\ \E m \in 1..(i - 1) :
          /\ Merges(s[m], s[m + 1]) /\ list[m] = s[m] \o s[m + 1]
          /\ \A k \in 1..(m - 1) : list[k] = s[k]
          /\ \A k \in (m + 1)..(i - 1) : list[k] = s[k + 1]
  \/ Len(list) < i - 1

LEMMA JoinedNext ==
  ASSUME NEW L, NEW s \in Seq(Seq(L)), NEW i \in 0..(Len(s) - 1), NEW list \in Seq(Seq(L)),
         JoinedOnce(list, s, i)
  PROVE  JoinedOnce(Join(list, s[i + 1]), s, i + 1)
  <1> DEFINE n == Len(list)
             next == Join(list, s[i + 1])
             word == s[i + 1]
  <1>0. word \in Seq(L)
    OBVIOUS
  <1>1. n \in Nat /\ i \in Nat
    OBVIOUS
  <1>2. Join(list, word) \in Seq(Seq(L))
    <2> HIDE DEF word
    <2> QED
      BY <1>0, JoinType
  <1>3. \/ /\ Len(next) = n + 1 /\ next[n + 1] = s[i + 1] /\ \A k \in 1..n : next[k] = list[k]
        \/ /\ n > 0 /\ Merges(list[n], s[i + 1]) /\ Len(next) = n
           /\ next[n] = list[n] \o s[i + 1] /\ \A k \in 1..(n - 1) : next[k] = list[k]
    <2> HIDE DEF word
    <2>1. \/ /\ Len(Join(list, word)) = Len(list) + 1
             /\ Join(list, word)[Len(list) + 1] = word
             /\ \A k \in 1..Len(list) : Join(list, word)[k] = list[k]
          \/ /\ Len(list) > 0 /\ Merges(list[Len(list)], word)
             /\ Len(Join(list, word)) = Len(list)
             /\ Join(list, word)[Len(list)] = list[Len(list)] \o word
             /\ \A k \in 1..(Len(list) - 1) : Join(list, word)[k] = list[k]
      BY <1>0, JoinAdds
    <2> QED
      BY <2>1 DEF word
  <1> HIDE DEF next, n
  <1>4. CASE n = i /\ \A k \in 1..i : list[k] = s[k]
    <2>1. CASE Len(next) = n + 1 /\ next[n + 1] = s[i + 1] /\ \A k \in 1..n : next[k] = list[k]
      <3>1. \A k \in 1..(i + 1) : k \in 1..i \/ k = i + 1
        BY <1>1
      <3>2. \A k \in 1..(i + 1) : next[k] = s[k]
        BY <1>4, <2>1, <3>1
      <3> QED
        BY <1>4, <2>1, <3>2 DEF JoinedOnce, next
    <2>2. CASE /\ n > 0 /\ Merges(list[n], s[i + 1]) /\ Len(next) = n
               /\ next[n] = list[n] \o s[i + 1] /\ \A k \in 1..(n - 1) : next[k] = list[k]
      <3>1. i \in 1..i /\ list[n] = s[i]
        BY <1>1, <1>4, <2>2
      <3>2. \A k \in 1..(i - 1) : k \in 1..i
        BY <1>1
      <3>3. \A k \in 1..(i - 1) : next[k] = s[k]
        BY <1>4, <2>2, <3>2
      <3>4. (i + 1)..i = {}
        BY <1>1
      <3>5. \A k \in (i + 1)..i : next[k] = s[k + 1]
        BY <3>4
      <3>6. Len(next) = (i + 1) - 1 /\ Merges(s[i], s[i + 1]) /\ next[i] = s[i] \o s[i + 1]
        BY <1>1, <1>4, <2>2, <3>1
      <3>7. (i + 1) - 1 = i
        BY <1>1
      <3>8. /\ Merges(s[i], s[i + 1]) /\ next[i] = s[i] \o s[i + 1]
            /\ \A k \in 1..(i - 1) : next[k] = s[k]
            /\ \A k \in (i + 1)..((i + 1) - 1) : next[k] = s[k + 1]
        BY <3>3, <3>5, <3>6, <3>7
      <3>9. i \in 1..((i + 1) - 1)
        BY <3>1, <3>7
      <3> QED
        BY <3>6, <3>8, <3>9 DEF JoinedOnce, next
    <2> QED
      BY <1>3, <2>1, <2>2
  <1>5. ASSUME n = i - 1,
               NEW m \in 1..(i - 1), Merges(s[m], s[m + 1]), list[m] = s[m] \o s[m + 1],
               \A k \in 1..(m - 1) : list[k] = s[k],
               \A k \in (m + 1)..(i - 1) : list[k] = s[k + 1]
        PROVE  JoinedOnce(next, s, i + 1)
    <2>1. CASE Len(next) = n + 1 /\ next[n + 1] = s[i + 1] /\ \A k \in 1..n : next[k] = list[k]
      <3>1. m \in 1..i /\ m \in 1..n /\ next[m] = s[m] \o s[m + 1]
        <4>1. m \in 1..i /\ m \in 1..n
          BY <1>1, <1>5
        <4>2. next[m] = list[m]
          BY <2>1, <4>1
        <4> QED
          BY <1>5, <4>1, <4>2
      <3>2. \A k \in 1..(m - 1) : next[k] = s[k]
        <4>1. \A k \in 1..(m - 1) : k \in 1..n
          BY <3>1, <1>1
        <4> QED
          BY <1>5, <2>1, <4>1
      <3>3. \A k \in (m + 1)..i : next[k] = s[k + 1]
        <4>1. \A k \in (m + 1)..i : (k \in (m + 1)..(i - 1) /\ k \in 1..n) \/ k = i
          BY <1>1, <1>5, <3>1
        <4>2. n + 1 = i
          BY <1>1, <1>5
        <4>3. next[i] = s[i + 1]
          BY <2>1, <4>2
        <4> QED
          BY <1>5, <2>1, <4>1, <4>3
      <3>4. Len(next) = (i + 1) - 1
        BY <1>1, <1>5, <2>1
      <3>5. (i + 1) - 1 = i
        BY <1>1
      <3>6. /\ Merges(s[m], s[m + 1]) /\ next[m] = s[m] \o s[m + 1]
            /\ \A k \in 1..(m - 1) : next[k] = s[k]
            /\ \A k \in (m + 1)..((i + 1) - 1) : next[k] = s[k + 1]
        BY <1>5, <3>1, <3>2, <3>3, <3>5
      <3>7. m \in 1..((i + 1) - 1)
        BY <3>1, <3>5
      <3> QED
        BY <3>4, <3>6, <3>7 DEF JoinedOnce
    <2>2. CASE Len(next) = n
      <3>1. Len(next) < (i + 1) - 1
        BY <1>1, <1>5, <2>2
      <3> QED
        BY <3>1 DEF JoinedOnce
    <2> QED
      BY <1>3, <2>1, <2>2
  <1>6. CASE n < i - 1
    <2>1. Len(next) = n + 1 \/ Len(next) = n
      BY <1>3
    <2>2. Len(next) < (i + 1) - 1
      BY <1>1, <1>6, <2>1
    <2> QED
      BY <2>2 DEF JoinedOnce, next
  <1> QED
    BY <1>4, <1>5, <1>6 DEF JoinedOnce, n, next

LEMMA StagesJoined ==
  ASSUME NEW L, NEW s \in Seq(Seq(L)), NEW t, JoinStages(t, L, s)
  PROVE  \A i \in 0..Len(s) : t[i] \in Seq(Seq(L)) /\ JoinedOnce(t[i], s, i)
  <1> DEFINE n == Len(s)
             Good == {i \in 0..n : JoinedOnce(t[i], s, i)}
  <1>0. n \in Nat
    OBVIOUS
  <1>1. n \in Nat /\ \A i \in 0..n : t[i] \in Seq(Seq(L))
    <2>1. t \in [0..n -> Seq(Seq(L))]
      BY DEF JoinStages
    <2> HIDE DEF n
    <2> QED
      BY <1>0, <2>1
  <1>2. 0 \in Good
    <2>1. t[0] = << >> /\ Len(t[0]) = 0 /\ 1..0 = {}
      BY DEF JoinStages
    <2>2. JoinedOnce(t[0], s, 0)
      BY <2>1 DEF JoinedOnce
    <2> HIDE DEF n
    <2> QED
      BY <1>0, <2>2
  <1>3. ASSUME NEW i \in 0..(n - 1), i \in Good PROVE i + 1 \in Good
    <2>1. i \in 0..n /\ i + 1 \in 1..n /\ i + 1 \in 0..n /\ (i + 1) - 1 = i
      BY <1>1
    <2>2. t[i + 1] = Join(t[i], s[i + 1])
      BY <2>1 DEF JoinStages
    <2>3. t[i] \in Seq(Seq(L)) /\ JoinedOnce(t[i], s, i)
      BY <1>1, <1>3, <2>1
    <2>4. JoinedOnce(Join(t[i], s[i + 1]), s, i + 1)
      BY <2>3, JoinedNext
    <2> QED
      BY <2>1, <2>2, <2>4
  <1> HIDE DEF Good
  <1>4. \A i \in 0..n : i \in Good
    BY <1>1, <1>2, <1>3, InductionUpTo
  <1> QED
    BY <1>1, <1>4 DEF Good

\* Queries that differ in the last word alone are joined alike up to there.
LEMMA SameStages ==
  ASSUME NEW n \in Nat, NEW t, NEW u, t[0] = << >>, u[0] = << >>,
         \A i \in 1..n : \E word : t[i] = Join(t[i - 1], word) /\ u[i] = Join(u[i - 1], word)
  PROVE  u[n] = t[n]
  <1> DEFINE Good == {i \in 0..n : u[i] = t[i]}
  <1>1. 0 \in Good
    OBVIOUS
  <1>2. ASSUME NEW i \in 0..(n - 1), i \in Good PROVE i + 1 \in Good
    <2>1. i + 1 \in 1..n /\ i + 1 \in 0..n /\ (i + 1) - 1 = i
      OBVIOUS
    <2> QED
      BY <1>2, <2>1
  <1>3. n \in Good
    <2> HIDE DEF Good
    <2> QED
      BY <1>1, <1>2, InductionUpTo, n \in 0..n
  <1> QED
    BY <1>3

-----------------------------------------------------------------------------
(* TextIsFound.                                                            *)

\* q is what is typed of the text from its a-th word on, its first words whole:
\* all of them or all but the last.
TypedFrom(q, whole, text, a) ==
  /\ q \in Seq(Seq(Letter)) /\ Len(q) > 0 /\ a \in Nat \ {0} /\ a + Len(q) - 1 <= Len(text)
  /\ whole \in (Len(q) - 1)..Len(q)
  /\ \A k \in 1..whole : q[k] = text[a + k - 1]
  /\ \E j \in 1..Len(text[a + Len(q) - 1]) : q[Len(q)] = SubSeq(text[a + Len(q) - 1], 1, j)

\* The words of texts are not empty.
LEMMA WordsOfText ==
  ASSUME NEW text \in Text
  PROVE  /\ text \in Seq(Seq(Letter)) /\ Len(text) \in Nat /\ DOMAIN text = 1..Len(text)
         /\ \A k \in 1..Len(text) : /\ text[k] \in Seq(Letter) /\ Len(text[k]) \in Nat \ {0}
                                    /\ SubSeq(text[k], 1, Len(text[k])) = text[k]
                                    /\ \A j \in 1..Len(text[k]) :
                                         /\ SubSeq(text[k], 1, j) \in Seq(Letter)
                                         /\ Len(SubSeq(text[k], 1, j)) = j
                                         /\ SubSeq(text[k], 1, j) \in Beginnings
  <1>1. text \in Seq(Seq(Letter) \ {<< >>})
    BY TextAssumption
  <1>2. Len(text) \in Nat /\ DOMAIN text = 1..Len(text) /\ \A k \in 1..Len(text) : text[k] \in Seq(Letter) \ {<< >>}
    BY <1>1
  <1>3. text \in Seq(Seq(Letter))
    BY <1>1, SeqMonotonic, Seq(Letter) \ {<< >>} \subseteq Seq(Letter)
  <1>4. ASSUME NEW k \in 1..Len(text)
        PROVE  /\ text[k] \in Seq(Letter) /\ Len(text[k]) \in Nat \ {0}
               /\ SubSeq(text[k], 1, Len(text[k])) = text[k]
               /\ \A j \in 1..Len(text[k]) :
                    /\ SubSeq(text[k], 1, j) \in Seq(Letter)
                    /\ Len(SubSeq(text[k], 1, j)) = j
                    /\ SubSeq(text[k], 1, j) \in Beginnings
    <2> DEFINE word == text[k]
    <2>1. word \in Seq(Letter) /\ word # << >>
      BY <1>2
    <2>2. \A j \in 1..Len(word) : SubSeq(word, 1, j) \in Beginnings
      BY <1>2 DEF Beginnings
    <2> HIDE DEF word
    <2>3. Len(word) \in Nat \ {0} /\ SubSeq(word, 1, Len(word)) = word
      BY <2>1, SubSeqFull, EmptySeq
    <2>4. ASSUME NEW j \in 1..Len(word)
          PROVE  SubSeq(word, 1, j) \in Seq(Letter) /\ Len(SubSeq(word, 1, j)) = j
      <3>1. j \in Int /\ 1 <= j /\ j - 1 + 1 = j /\ \A m \in 1..j : word[m] \in Letter
        BY <2>1
      <3>2. /\ SubSeq(word, 1, j) \in Seq(Letter)
            /\ Len(SubSeq(word, 1, j)) = IF 1 <= j THEN j - 1 + 1 ELSE 0
        BY <3>1, SubSeqProperties, 1 \in Int
      <3> QED
        BY <3>1, <3>2
    <2> QED
      BY <2>1, <2>2, <2>3, <2>4 DEF word
  <1> QED
    BY <1>2, <1>3, <1>4

LEMMA TypedIsFrom ==
  ASSUME NEW text \in Text, NEW t \in Typed(text)
  PROVE  /\ t[2] \in BOOLEAN
         /\ \E a : TypedFrom(t[1], IF t[2] THEN Len(t[1]) ELSE Len(t[1]) - 1, text, a)
  <1> DEFINE To(i, j, k) == SubSeq(text, i, j - 1) \o << SubSeq(text[j], 1, k) >>
             Here(i, j) == {<<To(i, j, k), FALSE>> : k \in 1..Len(text[j])} \cup {<<To(i, j, Len(text[j])), TRUE>>}
  <1>0. PICK j \in DOMAIN text : \E i \in 1..j : t \in Here(i, j)
    <2>1. t \in UNION {UNION {Here(i, j) : i \in 1..j} : j \in DOMAIN text}
      BY DEF Typed
    <2> HIDE DEF Here
    <2> QED
      BY <2>1
  <1>1. PICK i \in 1..j : t \in Here(i, j)
    BY <1>0
  <1>2. /\ text \in Seq(Seq(Letter)) /\ Len(text) \in Nat /\ j \in 1..Len(text) /\ i \in Nat \ {0}
        /\ Len(text[j]) \in Nat \ {0} /\ SubSeq(text[j], 1, Len(text[j])) = text[j]
        /\ \A k \in 1..Len(text[j]) : SubSeq(text[j], 1, k) \in Seq(Letter)
    BY <1>1, WordsOfText
  <1>3. Len(text[j]) \in 1..Len(text[j])
    BY <1>2
  <1>4. PICK k \in 1..Len(text[j]) :
          t[1] = To(i, j, k) /\ t[2] \in BOOLEAN /\ (t[2] => k = Len(text[j]))
    <2> HIDE DEF To
    <2>1. CASE t \in {<<To(i, j, k), FALSE>> : k \in 1..Len(text[j])}
      <3>1. PICK k \in 1..Len(text[j]) : t = <<To(i, j, k), FALSE>>
        BY <2>1
      <3>2. t[1] = To(i, j, k) /\ t[2] = FALSE
        BY <3>1
      <3> QED
        BY <3>2
    <2>2. CASE t = <<To(i, j, Len(text[j])), TRUE>>
      <3>1. t[1] = To(i, j, Len(text[j])) /\ t[2] = TRUE
        BY <2>2
      <3> QED
        BY <1>3, <3>1
    <2> QED
      BY <1>1, <2>1, <2>2
  <1> DEFINE before == SubSeq(text, i, j - 1)
             last == SubSeq(text[j], 1, k)
             q == before \o << last >>
  <1>5. last \in Seq(Letter) /\ (t[2] => last = text[j])
    BY <1>2, <1>4
  <1>6. /\ before \in Seq(Seq(Letter)) /\ Len(before) = j - i
        /\ \A m \in 1..(j - i) : before[m] = text[i + m - 1]
    <2>1. i \in Int /\ j - 1 \in Int /\ (j - 1) - i + 1 = j - i /\ (j - i = 0 <=> ~(i <= j - 1))
      BY <1>1, <1>2
    <2>2. \A m \in i..(j - 1) : text[m] \in Seq(Letter)
      <3>1. \A m \in i..(j - 1) : m \in 1..Len(text)
        BY <1>1, <1>2
      <3> QED
        BY <1>2, <3>1
    <2>3. /\ SubSeq(text, i, j - 1) \in Seq(Seq(Letter))
          /\ Len(SubSeq(text, i, j - 1)) = IF i <= j - 1 THEN (j - 1) - i + 1 ELSE 0
          /\ \A m \in 1..((j - 1) - i + 1) : SubSeq(text, i, j - 1)[m] = text[i + m - 1]
      BY <2>1, <2>2, SubSeqProperties
    <2> QED
      BY <2>1, <2>3
  <1> HIDE DEF before, last
  <1>7. /\ q \in Seq(Seq(Letter)) /\ Len(q) = (j - i) + 1 /\ q[Len(q)] = last
        /\ \A m \in 1..(j - i) : q[m] = before[m]
    <2>1. << last >> \in Seq(Seq(Letter)) /\ Len(<< last >>) = 1 /\ << last >>[1] = last
      BY <1>5
    <2> DEFINE one == << last >>
    <2>2. one \in Seq(Seq(Letter)) /\ Len(one) = 1 /\ one[1] = last
      BY <2>1
    <2> HIDE DEF one
    <2>3. /\ before \o one \in Seq(Seq(Letter)) /\ Len(before \o one) = Len(before) + Len(one)
          /\ \A m \in 1..(Len(before) + Len(one)) : (before \o one)[m] =
                     IF m <= Len(before) THEN before[m] ELSE one[m - Len(before)]
      BY <1>6, <2>2, ConcatProperties
    <2>4. j - i \in Nat /\ (j - i) + 1 - (j - i) = 1
      BY <1>1, <1>2
    <2>5. before \o one = q
      BY DEF one
    <2> HIDE DEF q
    <2>6. Len(q) = (j - i) + 1 /\ q \in Seq(Seq(Letter))
      BY <1>6, <2>2, <2>3, <2>4, <2>5
    <2>7. q[(j - i) + 1] = last
      BY <1>6, <2>2, <2>3, <2>4, <2>5
    <2>8. \A m \in 1..(j - i) : q[m] = before[m]
      BY <1>6, <2>2, <2>3, <2>4, <2>5
    <2> QED
      BY <2>6, <2>7, <2>8
  <1>8. i + Len(q) - 1 = j /\ Len(q) - 1 = j - i /\ Len(q) > 0
    <2>1. i \in Nat /\ j \in Nat /\ i <= j /\ Len(q) = (j - i) + 1
      BY <1>1, <1>2, <1>7
    <2> HIDE DEF q
    <2> QED
      BY <2>1
  <1>9. t[1] = q
    BY <1>4 DEF before, last
  <1> HIDE DEF q
  <1>10. \E m \in 1..Len(text[j]) : q[Len(q)] = SubSeq(text[j], 1, m)
    BY <1>4, <1>7 DEF last
  <1> DEFINE whole == IF t[2] THEN Len(q) ELSE Len(q) - 1
  <1>11. TypedFrom(q, whole, text, i)
    <2>1. \A m \in 1..(Len(q) - 1) : q[m] = text[i + m - 1]
      BY <1>6, <1>7, <1>8
    <2>2. \E m \in 1..Len(text[i + Len(q) - 1]) : q[Len(q)] = SubSeq(text[i + Len(q) - 1], 1, m)
      BY <1>8, <1>10
    <2>3. t[2] => q[Len(q)] = text[i + Len(q) - 1]
      BY <1>5, <1>7, <1>8
    <2>4. q \in Seq(Seq(Letter)) /\ Len(q) > 0 /\ i \in Nat \ {0} /\ i + Len(q) - 1 <= Len(text)
      BY <1>2, <1>7, <1>8
    <2>5. whole \in (Len(q) - 1)..Len(q) /\ (whole = Len(q) => t[2])
      BY <2>4, <1>4
    <2> HIDE DEF whole
    <2>6. \A m \in 1..whole : m \in 1..(Len(q) - 1) \/ (m = Len(q) /\ whole = Len(q))
      BY <2>4, <2>5
    <2>7. \A m \in 1..whole : q[m] = text[i + m - 1]
      BY <2>1, <2>3, <2>5, <2>6
    <2> QED
      BY <2>2, <2>4, <2>5, <2>7 DEF TypedFrom
  <1> QED
    BY <1>4, <1>9, <1>11

\* StemQuery leaves as many words as there were.
LEMMA StemmedWords ==
  ASSUME NEW text \in Text, NEW q, NEW whole, NEW a, TypedFrom(q, whole, text, a)
  PROVE  /\ StemQuery(q, FALSE) \in Seq(Seq(Letter)) /\ Len(StemQuery(q, FALSE)) = Len(q)
         /\ StemQuery(q, TRUE) = [StemQuery(q, FALSE) EXCEPT ![Len(q)] = q[Len(q)]]
         /\ Len(q) \in Nat \ {0} /\ DOMAIN q = 1..Len(q)
         /\ \A k \in 1..Len(q) :
              /\ q[k] \in Seq(Letter) /\ q[k] \in Beginnings /\ Len(q[k]) \in Nat
              /\ StemQuery(q, FALSE)[k] = IF Len(q[k]) >= MinStem THEN Stem(q[k]) ELSE q[k]
  <1> DEFINE n == Len(q)
             s == StemQuery(q, FALSE)
  <1>1. n \in Nat \ {0} /\ DOMAIN q = 1..n /\ \A k \in 1..n : q[k] \in Seq(Letter)
    BY DEF TypedFrom
  <1>2. ASSUME NEW k \in 1..n PROVE q[k] \in Beginnings
    <2>1. CASE k = n
      <3>1. a + n - 1 \in 1..Len(text)
        BY <1>1, WordsOfText DEF TypedFrom
      <3>2. PICK j \in 1..Len(text[a + n - 1]) : q[n] = SubSeq(text[a + n - 1], 1, j)
        BY DEF TypedFrom
      <3> QED
        BY <2>1, <3>1, <3>2, WordsOfText
    <2>2. CASE k # n
      <3>0. a \in Nat \ {0} /\ a + n - 1 <= Len(text) /\ Len(text) \in Nat
        BY WordsOfText DEF TypedFrom
      <3>1. k \in 1..(n - 1) /\ a + k - 1 \in 1..Len(text)
        <4> HIDE DEF n
        <4> QED
          BY <1>1, <2>2, <3>0
      <3>2. q[k] = text[a + k - 1]
        BY <3>1 DEF TypedFrom
      <3> DEFINE word == text[a + k - 1]
      <3>3. /\ Len(word) \in Nat \ {0} /\ SubSeq(word, 1, Len(word)) = word
            /\ \A j \in 1..Len(word) : SubSeq(word, 1, j) \in Beginnings
        BY <3>1, WordsOfText
      <3> HIDE DEF word
      <3>4. word \in Beginnings
        <4>1. Len(word) \in 1..Len(word)
          BY <3>3
        <4> QED
          BY <3>3, <4>1
      <3> QED
        BY <3>2, <3>4 DEF word
    <2> QED
      BY <2>1, <2>2
  <1>3. s = [k \in 1..n |-> IF Len(q[k]) >= MinStem THEN Stem(q[k]) ELSE q[k]]
    BY <1>1 DEF StemQuery
  <1>4. \A k \in 1..n : s[k] \in Seq(Letter)
    BY <1>1, <1>2, <1>3, TextAssumption
  <1>8. StemQuery(q, TRUE) = [s EXCEPT ![n] = q[n]]
    <2>1. StemQuery(q, TRUE) = [k \in 1..n |-> IF Len(q[k]) >= MinStem /\ k # n THEN Stem(q[k]) ELSE q[k]]
      BY <1>1 DEF StemQuery
    <2> HIDE DEF s, n
    <2> QED
      BY <1>3, <2>1
  <1>5. s \in [1..n -> Seq(Letter)]
    BY <1>3, <1>4
  <1> HIDE DEF s, n
  <1>6. s \in Seq(Seq(Letter)) /\ Len(s) = n
    BY <1>1, <1>5
  <1>7. \A k \in 1..n : Len(q[k]) \in Nat
    BY <1>1
  <1> QED
    BY <1>1, <1>2, <1>3, <1>6, <1>7, <1>8 DEF n, s

\* A word that is typed to its end, or its stem, is a term of the text.
LEMMA WordIsTerm ==
  ASSUME NEW text \in Text, NEW q, NEW whole, NEW a, TypedFrom(q, whole, text, a),
         NEW k \in 1..whole
  PROVE  /\ q[k] = text[a + k - 1] /\ a + k - 1 \in 1..Len(text)
         /\ Full(StemQuery(q, FALSE)[k]) \in Terms(text, TRUE)
  <1>0. Len(q) \in Nat \ {0} /\ k \in 1..Len(q)
    <2>1. Len(q) \in Nat \ {0}
      BY StemmedWords
    <2> QED
      BY <2>1 DEF TypedFrom
  <1>1. /\ Len(q) \in Nat \ {0} /\ k \in 1..Len(q)
        /\ StemQuery(q, FALSE)[k] = IF Len(q[k]) >= MinStem THEN Stem(q[k]) ELSE q[k]
    BY <1>0, StemmedWords
  <1>2. q[k] = text[a + k - 1]
    BY DEF TypedFrom
  <1>3. a + k - 1 \in 1..Len(text) /\ DOMAIN text = 1..Len(text)
    <2>1. a \in Nat \ {0} /\ a + Len(q) - 1 <= Len(text)
      BY DEF TypedFrom
    <2>2. Len(text) \in Nat /\ DOMAIN text = 1..Len(text)
      BY WordsOfText
    <2> QED
      BY <1>1, <2>1, <2>2
  <1>4. Full(StemQuery(q, FALSE)[k]) \in FullTerms(text, TRUE)
    <2> DEFINE i == a + k - 1
    <2>1. i \in DOMAIN text /\ q[k] = text[i]
      BY <1>2, <1>3
    <2> HIDE DEF i
    <2> QED
      BY <1>1, <2>1 DEF FullTerms
  <1> QED
    BY <1>2, <1>3, <1>4 DEF Terms

\* Two words that SplitMerge joins, and that are not the same, are indexed together.
LEMMA JoinedIsTerm ==
  ASSUME NEW text \in Text, NEW q, NEW whole, NEW a, TypedFrom(q, whole, text, a),
         NEW m \in 1..(whole - 1),
         Merges(StemQuery(q, FALSE)[m], StemQuery(q, FALSE)[m + 1]),
         StemQuery(q, FALSE)[m] # StemQuery(q, FALSE)[m + 1]
  PROVE  Full(StemQuery(q, FALSE)[m] \o StemQuery(q, FALSE)[m + 1]) \in Terms(text, TRUE)
  <1> DEFINE s == StemQuery(q, FALSE)
  <1>1. Len(q) \in Nat \ {0} /\ \A k \in 1..Len(q) : /\ q[k] \in Beginnings /\ Len(q[k]) \in Nat
                                                     /\ s[k] = IF Len(q[k]) >= MinStem THEN Stem(q[k]) ELSE q[k]
    BY StemmedWords
  <1>2. /\ m \in 1..Len(q) /\ m + 1 \in 1..Len(q) /\ m + 1 \in Nat
        /\ m \in 1..whole /\ m + 1 \in 1..whole
    <2>1. whole \in (Len(q) - 1)..Len(q)
      BY DEF TypedFrom
    <2> QED
      BY <1>1, <2>1
  <1>3. Len(s[m]) <= MergeLimit /\ Len(s[m + 1]) <= MergeLimit
    BY DEF Merges
  <1> HIDE DEF s
  <1>4. MergeLimit \in Nat /\ MaxShin \in Nat /\ MinStem \in Nat /\ MergeLimit <= MaxShin
    BY WordsAssumption
  <1>5. ASSUME NEW k \in 1..Len(q), Len(s[k]) <= MergeLimit PROVE s[k] = q[k]
    <2> SUFFICES ASSUME Len(q[k]) >= MinStem PROVE FALSE
      BY <1>1
    <2>1. s[k] = Stem(q[k]) /\ Len(Stem(q[k])) > MergeLimit
      BY <1>1, TextAssumption
    <2>2. Stem(q[k]) \in Seq(Letter)
      BY <1>1, TextAssumption
    <2>3. Len(Stem(q[k])) \in Nat
      BY <2>2
    <2> QED
      BY <1>4, <1>5, <2>1, <2>3
  <1>6. s[m] = q[m] /\ s[m + 1] = q[m + 1]
    BY <1>2, <1>3, <1>5
  <1> DEFINE i == a + (m + 1) - 1
  <1>7. /\ q[m + 1] = text[i] /\ i \in 1..Len(text)
        /\ q[m] = text[a + m - 1] /\ a + m - 1 \in 1..Len(text)
    <2>1. a \in Nat \ {0} /\ a + Len(q) - 1 <= Len(text) /\ Len(text) \in Nat
      BY WordsOfText DEF TypedFrom
    <2>2. i \in 1..Len(text) /\ a + m - 1 \in 1..Len(text)
      BY <1>1, <1>2, <2>1
    <2>3. \A k \in 1..whole : q[k] = text[a + k - 1]
      BY DEF TypedFrom
    <2> QED
      BY <1>2, <2>2, <2>3
  <1>8. a + m - 1 = i - 1 /\ i # 1 /\ i \in DOMAIN text
    <2>1. a \in Nat \ {0} /\ DOMAIN text = 1..Len(text)
      BY WordsOfText DEF TypedFrom
    <2> QED
      BY <1>7, <2>1
  <1> HIDE DEF i
  <1>9. Len(text[i - 1]) <= MaxShin
    <2>1. q[m] = text[i - 1] /\ Len(q[m]) <= MergeLimit /\ Len(q[m]) \in Nat
      BY <1>1, <1>2, <1>3, <1>6, <1>7, <1>8
    <2> QED
      BY <1>4, <2>1
  <1>10. Full(text[i - 1] \o text[i]) \in FullTerms(text, TRUE)
    BY <1>8, <1>9 DEF FullTerms
  <1> QED
    BY <1>6, <1>7, <1>8, <1>10 DEF Terms, s

\* What SplitMerge makes of the whole words, when it joins two at most, and no
\* two that are the same, is indexed.
LEMMA JoinedFound ==
  ASSUME NEW text \in Text, NEW q, NEW whole, NEW a, TypedFrom(q, whole, text, a),
         NEW s, s = StemQuery(q, FALSE), \A k \in 1..(Len(q) - 1) : s[k] # s[k + 1],
         NEW list, Len(list) \in Nat, JoinedOnce(list, s, whole), Len(list) >= whole - 1
  PROVE  \A k \in 1..Len(list) : Full(list[k]) \in Terms(text, TRUE)
  <1>1. whole \in Nat /\ whole <= Len(q) /\ Len(q) \in Nat
    BY StemmedWords DEF TypedFrom
  <1>2. \A k \in 1..whole : Full(s[k]) \in Terms(text, TRUE)
    BY WordIsTerm
  <1>3. CASE Len(list) = whole /\ \A k \in 1..whole : list[k] = s[k]
    BY <1>2, <1>3
  <1>4. ASSUME Len(list) = whole - 1, NEW m \in 1..(whole - 1),
               Merges(s[m], s[m + 1]), list[m] = s[m] \o s[m + 1],
               \A k \in 1..(m - 1) : list[k] = s[k],
               \A k \in (m + 1)..(whole - 1) : list[k] = s[k + 1]
        PROVE  \A k \in 1..Len(list) : Full(list[k]) \in Terms(text, TRUE)
    <2>1. m \in 1..(Len(q) - 1)
      BY <1>1
    <2>2. s[m] # s[m + 1]
      BY <2>1
    <2>3. Full(list[m]) \in Terms(text, TRUE)
      BY <1>4, <2>2, JoinedIsTerm
    <2>4. \A k \in 1..Len(list) : \/ k = m \/ (k \in 1..(m - 1) /\ k \in 1..whole)
                                  \/ (k \in (m + 1)..(whole - 1) /\ k + 1 \in 1..whole)
      BY <1>1, <1>4
    <2> QED
      BY <1>2, <1>4, <2>3, <2>4
  <1>5. ~(Len(list) < whole - 1)
    BY <1>1
  <1>6. \/ Len(list) = whole /\ \A k \in 1..whole : list[k] = s[k]
        \/ /\ Len(list) = whole - 1
           /\ \E m \in 1..(whole - 1) :
                /\ Merges(s[m], s[m + 1]) /\ list[m] = s[m] \o s[m + 1]
                /\ \A k \in 1..(m - 1) : list[k] = s[k]
                /\ \A k \in (m + 1)..(whole - 1) : list[k] = s[k + 1]
    BY <1>5 DEF JoinedOnce
  <1> QED
    BY <1>3, <1>4, <1>6

\* The last word is not joined when it is typed to a part, p, as it is not joined
\* when it is whole, the last of s.
LEMMA LastApart ==
  ASSUME NEW L, NEW s \in Seq(Seq(L)), NEW p \in Seq(L), NEW n \in Nat \ {0}, Len(s) = n,
         Len(p) < MinStem => s[n] = p,
         \A k \in 1..(n - 1) : s[k] # s[k + 1],
         n > 1 => ~Merges(s[n - 1], p),
         NEW list \in Seq(Seq(L)), list # << >>, JoinedOnce(list, s, n - 1),
         Len(list) >= n - 2, Len(list) = n - 2 => ~Merges(list[Len(list)], s[n])
  PROVE  ~Merges(list[Len(list)], p)
  <1> DEFINE last == list[Len(list)]
             w == s[n]
  <1>1. /\ n \in Nat \ {0} /\ Len(list) \in Nat \ {0} /\ last \in Seq(L)
        /\ p \in Seq(L) /\ Len(p) \in Nat /\ w \in Seq(L)
        /\ (Len(p) < MinStem => w = p)
        /\ \A k \in 1..n : s[k] \in Seq(L) /\ Len(s[k]) \in Nat
    <2>1. Len(list) \in Nat \ {0} /\ last \in Seq(L)
      BY EmptySeq
    <2>2. \A k \in 1..n : s[k] \in Seq(L)
      OBVIOUS
    <2>3. \A k \in 1..n : Len(s[k]) \in Nat
      BY <2>2
    <2>4. Len(p) \in Nat /\ n \in 1..n
      OBVIOUS
    <2> HIDE DEF last
    <2> QED
      BY <2>1, <2>2, <2>3, <2>4
  <1>2. n > 1 => ~Merges(s[n - 1], p)
    OBVIOUS
  <1>3. Len(list) >= n - 2 /\ (Len(list) = n - 2 => ~Merges(last, w))
    OBVIOUS
  <1>5. JoinedOnce(list, s, n - 1) /\ \A k \in 1..(n - 1) : s[k] # s[k + 1]
    OBVIOUS
  <1> HIDE DEF w
  <1>6. CASE Len(list) = n - 1 /\ \A k \in 1..(n - 1) : list[k] = s[k]
    <2>1. n > 1 /\ n - 1 \in 1..(n - 1)
      BY <1>1, <1>6
    <2> QED
      BY <1>2, <1>6, <2>1
  <1>7. ASSUME Len(list) = (n - 1) - 1, NEW m \in 1..((n - 1) - 1),
               Merges(s[m], s[m + 1]), list[m] = s[m] \o s[m + 1],
               \A k \in (m + 1)..((n - 1) - 1) : list[k] = s[k + 1]
        PROVE  ~Merges(last, p)
    <2>1. CASE m < n - 2
      <3>1. n - 2 \in (m + 1)..((n - 1) - 1) /\ (n - 2) + 1 = n - 1 /\ Len(list) = n - 2 /\ n > 1
        BY <1>1, <1>7, <2>1
      <3>2. last = s[n - 1]
        BY <1>7, <3>1
      <3> QED
        BY <1>2, <3>1, <3>2
    <2>2. CASE m = n - 2
      <3> SUFFICES ASSUME Merges(last, p) PROVE FALSE
        OBVIOUS
      <3>1. Len(list) = m /\ m \in 1..n /\ m + 1 \in 1..n /\ m \in 1..(n - 1)
        BY <1>1, <1>7, <2>2
      <3>2. last = s[m] \o s[m + 1]
        BY <1>7, <3>1
      <3>3. MergeLimit \in Nat /\ MinStem \in Nat /\ 2 * MergeLimit < MinStem
        BY WordsAssumption
      <3>4. s[m] # s[m + 1]
        BY <1>5, <3>1
      <3>5. Len(s[m]) <= MergeLimit /\ Len(s[m + 1]) <= MergeLimit
        BY <1>7, <3>4 DEF Merges
      <3>6. s[m] \in Seq(L) /\ s[m + 1] \in Seq(L) /\ Len(s[m]) \in Nat /\ Len(s[m + 1]) \in Nat
        BY <1>1, <3>1
      <3>7. Len(last) = Len(s[m]) + Len(s[m + 1])
        BY <3>2, <3>6
      <3>8. p = last \/ Len(p) <= MergeLimit
        BY DEF Merges
      <3>9. Len(p) < MinStem
        <4>1. Len(last) < MinStem
          <5> DEFINE x == Len(s[m])
                     y == Len(s[m + 1])
                     z == Len(last)
          <5>1. x \in Nat /\ y \in Nat /\ x <= MergeLimit /\ y <= MergeLimit /\ z = x + y
            BY <3>5, <3>6, <3>7
          <5> HIDE DEF x, y, z
          <5>2. z < MinStem
            BY <3>3, <5>1
          <5> QED
            BY <5>2 DEF z
        <4> QED
          BY <1>1, <3>3, <3>8, <4>1
      <3>10. w = p
        BY <1>1, <3>9
      <3>11. ~Merges(last, w)
        BY <1>3, <2>2, <3>1
      <3> QED
        BY <3>10, <3>11
    <2> QED
      BY <1>1, <2>1, <2>2
  <1>8. CASE Len(list) < (n - 1) - 1
    BY <1>1, <1>3, <1>8
  <1> QED
    BY <1>5, <1>6, <1>7, <1>8 DEF JoinedOnce

\* A query that is typed to its end, with a space after it.
LEMMA FoundWhole ==
  ASSUME NEW text \in Text, NEW q, NEW a, TypedFrom(q, Len(q), text, a), Easy(q)
  PROVE  Finds(q, TRUE, text, TRUE)
  <1> DEFINE s == StemQuery(q, FALSE)
             out == SplitMerge(s)
  <1>1. s \in Seq(Seq(Letter)) /\ Len(s) = Len(q) /\ Len(q) \in Nat \ {0}
    BY StemmedWords
  <1>2. (\A k \in 1..(Len(q) - 1) : s[k] # s[k + 1]) /\ Len(out) >= Len(q) - 1
    BY DEF Easy
  <1>3. out \in Seq(Seq(Letter)) /\ JoinedOnce(out, s, Len(q))
    <2> HIDE DEF s
    <2>1. PICK t : JoinStages(t, Letter, s) /\ SplitMerge(s) = t[Len(s)]
      BY <1>1, SplitMergeStages
    <2>2. t[Len(s)] \in Seq(Seq(Letter)) /\ JoinedOnce(t[Len(s)], s, Len(s))
      BY <1>1, <2>1, StagesJoined
    <2> QED
      BY <1>1, <2>1, <2>2
  <1>4. Len(out) \in Nat /\ DOMAIN out = 1..Len(out)
    <2> HIDE DEF out
    <2> QED
      BY <1>3
  <1>5. s = StemQuery(q, FALSE)
    OBVIOUS
  <1>6. QueryTerms(q, TRUE) = {Full(out[i]) : i \in 1..Len(out)}
    <2>1. StemQuery(q, ~TRUE) = s
      BY DEF StemQuery
    <2> QED
      BY <1>4, <2>1 DEF QueryTerms
  <1> HIDE DEF s, out
  <1>7. \A k \in 1..Len(out) : Full(out[k]) \in Terms(text, TRUE)
    BY <1>2, <1>3, <1>4, <1>5, JoinedFound
  <1> QED
    BY <1>6, <1>7 DEF Finds

\* A query that is still typed: its last word is looked for as a beginning.
LEMMA FoundPart ==
  ASSUME NEW text \in Text, NEW q, NEW a, TypedFrom(q, Len(q) - 1, text, a), Easy(q), Apart(q)
  PROVE  Finds(q, FALSE, text, TRUE)
  <1> DEFINE n == Len(q)
             s == StemQuery(q, FALSE)
             p == q[n]
             r == [s EXCEPT ![n] = p]
             out == SplitMerge(r)
  <1>1. /\ s \in Seq(Seq(Letter)) /\ Len(s) = n /\ n \in Nat \ {0} /\ p \in Seq(Letter)
        /\ (Len(p) < MinStem => s[n] = p) /\ StemQuery(q, TRUE) = r
    <2>1. /\ n \in Nat \ {0}
          /\ \A k \in 1..n : /\ q[k] \in Seq(Letter) /\ Len(q[k]) \in Nat
                             /\ s[k] = IF Len(q[k]) >= MinStem THEN Stem(q[k]) ELSE q[k]
      BY StemmedWords
    <2>2. s \in Seq(Seq(Letter)) /\ Len(s) = n /\ StemQuery(q, TRUE) = r
      BY StemmedWords
    <2> HIDE DEF n, s
    <2>3. p \in Seq(Letter) /\ Len(p) \in Nat /\ s[n] = IF Len(p) >= MinStem THEN Stem(p) ELSE p
      BY <2>1
    <2>4. MinStem \in Nat
      BY WordsAssumption
    <2>5. Len(p) < MinStem => s[n] = p
      BY <2>3, <2>4
    <2> QED
      BY <2>1, <2>2, <2>3, <2>5
  <1>2. (\A k \in 1..(n - 1) : s[k] # s[k + 1]) /\ Len(SplitMerge(s)) >= n - 1
    BY DEF Easy
  <1>3. n > 1 => ~Merges(s[n - 1], p)
    <2>1. Last(q) = p
      BY DEF Last
    <2> QED
      BY <2>1 DEF Apart
  <1>4. \E j \in 1..Len(text[a + n - 1]) : p = SubSeq(text[a + n - 1], 1, j)
    BY DEF TypedFrom
  <1>5. a + n - 1 \in DOMAIN text
    <2>1. a \in Nat \ {0} /\ a + n - 1 <= Len(text)
      BY DEF TypedFrom
    <2>2. DOMAIN text = 1..Len(text) /\ Len(text) \in Nat
      BY WordsOfText
    <2> HIDE DEF n
    <2> QED
      BY <1>1, <2>1, <2>2
  <1>6. Part(p) \in Terms(text, TRUE)
    <2> DEFINE i == a + n - 1
    <2> HIDE DEF p
    <2>1. i \in DOMAIN text /\ \E j \in 1..Len(text[i]) : p = SubSeq(text[i], 1, j)
      BY <1>4, <1>5
    <2> HIDE DEF i
    <2>2. PICK j \in 1..Len(text[i]) : p = SubSeq(text[i], 1, j)
      BY <2>1
    <2>3. Part(p) \in {Part(SubSeq(text[i], 1, l)) : l \in 1..Len(text[i])}
      BY <2>2
    <2>4. Part(p) \in UNION {{Part(SubSeq(text[w], 1, l)) : l \in 1..Len(text[w])} : w \in DOMAIN text}
      BY <2>1, <2>3
    <2> QED
      BY <2>4 DEF Terms
  <1>7. QueryTerms(q, FALSE) = {IF i = Len(out) THEN Part(out[i]) ELSE Full(out[i]) : i \in DOMAIN out}
    <2>1. StemQuery(q, ~FALSE) = r
      BY <1>1 DEF StemQuery
    <2> QED
      BY <2>1 DEF QueryTerms
  <1>8. s = StemQuery(q, FALSE) /\ TypedFrom(q, n - 1, text, a)
    OBVIOUS
  <1> HIDE DEF n, s, p
  <1>9. r \in Seq(Seq(Letter)) /\ Len(r) = n /\ r[n] = p /\ \A k \in 1..(n - 1) : r[k] = s[k]
    <2>1. s \in [1..n -> Seq(Letter)]
      BY <1>1
    <2>2. r \in [1..n -> Seq(Letter)]
      BY <1>1, <2>1
    <2> QED
      BY <1>1, <2>1, <2>2
  <1>10. PICK t : JoinStages(t, Letter, s) /\ SplitMerge(s) = t[n]
    BY <1>1, SplitMergeStages
  <1>11. PICK u : JoinStages(u, Letter, r) /\ out = u[n]
    <2> HIDE DEF r
    <2> QED
      BY <1>9, SplitMergeStages
  <1> HIDE DEF r
  <1> DEFINE list == t[n - 1]
  <1>12. u[n - 1] = list
    <2> DEFINE l == n - 1
    <2>1. l \in Nat /\ \A i \in 1..l : i \in 1..Len(s) /\ i \in 1..Len(r) /\ i \in 1..(n - 1)
      BY <1>1, <1>9
    <2>2. t[0] = << >> /\ u[0] = << >>
      BY <1>10, <1>11 DEF JoinStages
    <2>3. \A i \in 1..l : \E word : t[i] = Join(t[i - 1], word) /\ u[i] = Join(u[i - 1], word)
      <3>1. \A i \in 1..l : t[i] = Join(t[i - 1], s[i]) /\ u[i] = Join(u[i - 1], r[i]) /\ r[i] = s[i]
        BY <1>9, <1>10, <1>11, <2>1 DEF JoinStages
      <3> QED
        BY <3>1
    <2> HIDE DEF l
    <2>4. u[l] = t[l]
      BY <2>1, <2>2, <2>3, SameStages
    <2> QED
      BY <2>4 DEF l, list
  <1>13. n \in 1..n /\ n - 1 \in 0..n /\ n \in 0..n
    BY <1>1
  <1>14. t[n] = Join(list, s[n]) /\ out = Join(list, p)
    BY <1>1, <1>9, <1>10, <1>11, <1>12, <1>13 DEF JoinStages
  <1>15. list \in Seq(Seq(Letter)) /\ JoinedOnce(list, s, n - 1)
    BY <1>1, <1>10, <1>13, StagesJoined
  <1> HIDE DEF list
  <1>16. s[n] \in Seq(Letter) /\ Len(list) \in Nat
    BY <1>1, <1>13, <1>15
  <1>17. Len(list) >= n - 2 /\ (Len(list) > 0 /\ Len(list) = n - 2 => ~Merges(list[Len(list)], s[n]))
    <2> DEFINE w == s[n]
    <2>1. w \in Seq(Letter) /\ Len(Join(list, w)) >= n - 1
      BY <1>2, <1>10, <1>14, <1>16
    <2> HIDE DEF w
    <2>2. \/ /\ Len(Join(list, w)) = Len(list) + 1
             /\ Len(list) = 0 \/ ~Merges(list[Len(list)], w)
          \/ Len(Join(list, w)) = Len(list)
      BY <1>15, <2>1, JoinAdds
    <2>3. Len(list) >= n - 2 /\ (Len(list) > 0 /\ Len(list) = n - 2 => ~Merges(list[Len(list)], w))
      BY <1>1, <1>16, <2>1, <2>2
    <2> QED
      BY <2>3 DEF w
  <1>18. out = Append(list, p)
    <2>1. CASE list # << >>
      <3>1. Len(list) > 0
        BY <1>15, <2>1, EmptySeq
      <3>2. ~Merges(list[Len(list)], p)
        BY <1>1, <1>2, <1>3, <1>15, <1>17, <2>1, <3>1, LastApart
      <3> QED
        BY <1>14, <3>2 DEF Join, Last
    <2>2. CASE list = << >>
      BY <1>14, <2>2 DEF Join
    <2> QED
      BY <2>1, <2>2
  <1>19. \A k \in 1..Len(list) : Full(list[k]) \in Terms(text, TRUE)
    <2>1. Len(list) >= (n - 1) - 1 /\ Len(list) \in Nat
      BY <1>1, <1>16, <1>17
    <2>2. \A k \in 1..(Len(q) - 1) : s[k] # s[k + 1]
      BY <1>2 DEF n
    <2> QED
      BY <1>8, <1>15, <2>1, <2>2, JoinedFound
  <1>20. /\ Len(out) = Len(list) + 1 /\ out[Len(out)] = p /\ DOMAIN out = 1..(Len(list) + 1)
         /\ \A k \in 1..Len(list) : out[k] = list[k]
    BY <1>1, <1>15, <1>16, <1>18
  <1> HIDE DEF out
  <1>21. ASSUME NEW i \in DOMAIN out
         PROVE  (IF i = Len(out) THEN Part(out[i]) ELSE Full(out[i])) \in Terms(text, TRUE)
    <2>1. CASE i = Len(out)
      BY <1>6, <1>20, <2>1
    <2>2. CASE i # Len(out)
      <3>1. i \in 1..Len(list)
        BY <1>16, <1>20, <2>2
      <3> QED
        BY <1>19, <1>20, <2>2, <3>1
    <2> QED
      BY <2>1, <2>2
  <1> QED
    BY <1>7, <1>21 DEF Finds

\* A text is found by its words as they are typed, although IndexBase and
\* StemQuery stem and SplitMerge joins words each in its own way: for every
\* text, alphabet and stemmer that leaves stems longer than MergeLimit.
THEOREM SpecTextIsFound == Spec => []TextIsFound
  <1>1. Answered => TextIsFound
    <2> SUFFICES ASSUME Answered, Done("find"), NEW t \in Typed(input.text),
                        Easy(t[1]), t[2] \/ Apart(t[1])
                 PROVE  t \in result[1]
      BY DEF TextIsFound
    <2>1. input \in TextInputs /\ result = << {x \in Typed(input.text) : Finds(x[1], x[2], input.text, TRUE)} >>
      BY DEF Answered, Done
    <2>2. input.text \in Text
      BY <2>1 DEF TextInputs
    <2>3. t[2] \in BOOLEAN
      BY <2>2, TypedIsFrom
    <2>4. PICK a : TypedFrom(t[1], IF t[2] THEN Len(t[1]) ELSE Len(t[1]) - 1, input.text, a)
      BY <2>2, TypedIsFrom
    <2>5. Finds(t[1], t[2], input.text, TRUE)
      <3>1. CASE t[2] = TRUE
        <4>1. TypedFrom(t[1], Len(t[1]), input.text, a)
          BY <2>4, <3>1
        <4>2. Finds(t[1], TRUE, input.text, TRUE)
          BY <2>2, <4>1, FoundWhole
        <4> QED
          BY <3>1, <4>2
      <3>2. CASE t[2] = FALSE
        <4>1. TypedFrom(t[1], Len(t[1]) - 1, input.text, a) /\ Apart(t[1])
          BY <2>4, <3>2
        <4>2. Finds(t[1], FALSE, input.text, TRUE)
          BY <2>2, <4>1, FoundPart
        <4> QED
          BY <3>2, <4>2
      <3> QED
        BY <2>3, <3>1, <3>2
    <2> QED
      BY <2>1, <2>5
  <1> QED
    BY <1>1, SpecAnswered, PTL

-----------------------------------------------------------------------------
(* Sorted.                                                                 *)

\* A finite set that a relation orders has its elements in a row.
LEMMA SortedExists ==
  ASSUME NEW S, IsFiniteSet(S), NEW R,
         \A a, b \in S : a # b => <<a, b>> \in R \/ <<b, a>> \in R,
         \A a, b, c \in S : <<a, b>> \in R /\ <<b, c>> \in R => <<a, c>> \in R
  PROVE  \E f \in [1..Cardinality(S) -> S] :
           \A i, j \in 1..Cardinality(S) : i < j => <<f[i], f[j]>> \in R
  <1> DEFINE n == Cardinality(S)
  <1>1. n \in Nat /\ \E g : g \in Bijection(1..n, S)
    BY FS_CardinalityType DEF ExistsBijection
  <1>2. PICK g : g \in [1..n -> S] /\ \A i, j \in 1..n : i # j => g[i] # g[j]
    <2>1. PICK g : g \in Bijection(1..n, S)
      BY <1>1
    <2>2. g \in [1..n -> S] /\ \A i, j \in 1..n : g[i] = g[j] => i = j
      BY <2>1 DEF Bijection, Injection, IsInjective
    <2> QED
      BY <2>2
  <1> HIDE DEF n
  <1> DEFINE D(k) == {g[i] : i \in 1..k}
             IsRow(f, k) == f \in [1..k -> D(k)] /\ \A i, j \in 1..k : i < j => <<f[i], f[j]>> \in R
             Good == {k \in 0..n : \E f : IsRow(f, k)}
  <1>3. 0 \in Good
    <2> DEFINE none == [i \in 1..0 |-> 0]
    <2>1. IsRow(none, 0)
      OBVIOUS
    <2>2. 0 \in 0..n
      BY <1>1
    <2> HIDE DEF IsRow, none
    <2> QED
      BY <2>1, <2>2
  <1>4. ASSUME NEW k \in 0..(n - 1), k \in Good PROVE k + 1 \in Good
    <2>1. PICK f : IsRow(f, k)
      BY <1>4
    <2>2. k \in Nat /\ k + 1 \in 1..n /\ \A i \in 1..k : i \in 1..n /\ i \in 1..(k + 1)
      BY <1>1
    <2> DEFINE new == g[k + 1]
    <2>3. new \in S /\ \A i \in 1..k : f[i] \in S /\ f[i] # new /\ f[i] \in D(k + 1)
      <3>1. ASSUME NEW i \in 1..k PROVE f[i] \in S /\ f[i] # new /\ f[i] \in D(k + 1)
        <4>1. PICK j \in 1..k : f[i] = g[j]
          BY <2>1
        <4>2. j \in 1..n /\ j \in 1..(k + 1) /\ j # k + 1
          BY <2>2
        <4> QED
          BY <1>2, <2>2, <4>1, <4>2
      <3> QED
        BY <1>2, <2>2, <3>1
    <2>4. new \in D(k + 1)
      BY <2>2
    <2>5. \A i, j \in 1..k : i < j => <<f[i], f[j]>> \in R
      BY <2>1
    <2> HIDE DEF new, D
    <2> DEFINE Ahead == {i \in 0..k : i = 0 \/ <<f[i], new>> \in R}
               m == Max(Ahead)
    <2>6. m \in Ahead /\ \A i \in Ahead : i <= m
      <3>1. Ahead \in SUBSET (0..k) /\ 0 \in Ahead
        BY <2>2
      <3>2. m \in Ahead /\ \A i \in Ahead : m >= i
        <4> HIDE DEF Ahead
        <4> QED
          BY <2>2, <3>1, MaxIsLargest
      <3> QED
        BY <2>2, <3>2
    <2>7. m \in 0..k
      BY <2>6
    <2> HIDE DEF m
    <2>8. \A i \in 1..m : <<f[i], new>> \in R
      <3> SUFFICES ASSUME NEW i \in 1..m PROVE <<f[i], new>> \in R
        OBVIOUS
      <3>1. m \in 1..k /\ i \in 1..k /\ <<f[m], new>> \in R
        BY <2>2, <2>6, <2>7
      <3>2. CASE i = m
        BY <3>1, <3>2
      <3>3. CASE i # m
        <4>1. <<f[i], f[m]>> \in R
          BY <2>5, <3>1, <3>3
        <4> QED
          BY <2>3, <3>1, <4>1
      <3> QED
        BY <3>2, <3>3
    <2>9. \A i \in (m + 1)..k : <<new, f[i]>> \in R
      <3> SUFFICES ASSUME NEW i \in (m + 1)..k PROVE <<new, f[i]>> \in R
        OBVIOUS
      <3>1. i \in 1..k /\ i \in 0..k /\ ~(i <= m)
        BY <2>2, <2>7
      <3>2. <<f[i], new>> \notin R
        BY <2>6, <3>1
      <3> QED
        BY <2>3, <3>1, <3>2
    <2> DEFINE h == [i \in 1..(k + 1) |-> IF i <= m THEN f[i] ELSE IF i = m + 1 THEN new ELSE f[i - 1]]
    <2>10. ASSUME NEW i \in 1..(k + 1)
           PROVE  \/ i <= m /\ i \in 1..m /\ i \in 1..k /\ h[i] = f[i]
                  \/ i = m + 1 /\ h[i] = new
                  \/ i > m + 1 /\ i - 1 \in (m + 1)..k /\ i - 1 \in 1..k /\ h[i] = f[i - 1]
      BY <2>2, <2>7
    <2> HIDE DEF h, Ahead
    <2>11. h \in [1..(k + 1) -> D(k + 1)]
      <3>1. \A i \in 1..(k + 1) : h[i] \in D(k + 1)
        BY <2>3, <2>4, <2>10
      <3> QED
        BY <3>1 DEF h
    <2>12. ASSUME NEW i \in 1..(k + 1), NEW j \in 1..(k + 1), i < j PROVE <<h[i], h[j]>> \in R
      <3>0. i \in Nat /\ j \in Nat /\ m \in Nat
        BY <2>2, <2>7
      <3>1. CASE i <= m /\ i \in 1..m /\ i \in 1..k /\ h[i] = f[i]
        <4>1. CASE j <= m /\ j \in 1..k /\ h[j] = f[j]
          BY <2>5, <2>12, <3>1, <4>1
        <4>2. CASE j = m + 1 /\ h[j] = new
          BY <2>8, <3>1, <4>2
        <4>3. CASE j > m + 1 /\ j - 1 \in 1..k /\ h[j] = f[j - 1]
          <5>1. i < j - 1
            BY <3>0, <3>1, <4>3
          <5> QED
            BY <2>5, <3>1, <4>3, <5>1
        <4> QED
          BY <2>10, <4>1, <4>2, <4>3
      <3>2. CASE i = m + 1 /\ h[i] = new
        <4>1. j > m + 1
          BY <2>12, <3>2
        <4>2. j - 1 \in (m + 1)..k /\ h[j] = f[j - 1]
          BY <2>10, <3>0, <4>1
        <4> QED
          BY <2>9, <3>2, <4>2
      <3>3. CASE i > m + 1 /\ i - 1 \in 1..k /\ h[i] = f[i - 1]
        <4>1. j > m + 1 /\ i - 1 < j - 1
          BY <2>12, <3>0, <3>3
        <4>2. j - 1 \in 1..k /\ h[j] = f[j - 1]
          BY <2>10, <3>0, <4>1
        <4> QED
          BY <2>5, <3>3, <4>1, <4>2
      <3> QED
        BY <2>10, <3>1, <3>2, <3>3
    <2>13. IsRow(h, k + 1)
      BY <2>11, <2>12
    <2>14. k + 1 \in 0..n
      BY <2>2
    <2> HIDE DEF IsRow
    <2> QED
      BY <2>13, <2>14
  <1>5. n \in Good
    <2> HIDE DEF Good
    <2> QED
      BY <1>1, <1>3, <1>4, InductionUpTo, n \in 0..n
  <1>6. PICK f : IsRow(f, n)
    BY <1>5
  <1>7. f \in [1..n -> S]
    BY <1>2, <1>6
  <1> QED
    BY <1>6, <1>7 DEF n

\* A list of as many elements as S has, no two of them the same, has them all.
LEMMA RowHasAll ==
  ASSUME NEW S, IsFiniteSet(S), NEW f \in [1..Cardinality(S) -> S],
         \A i, j \in 1..Cardinality(S) : i < j => f[i] # f[j]
  PROVE  /\ f \in Seq(S) /\ Len(f) = Cardinality(S) /\ Cardinality(S) \in Nat
         /\ \A i, j \in 1..Cardinality(S) : f[i] = f[j] => i = j
         /\ \A s \in S : \E i \in 1..Cardinality(S) : f[i] = s
  <1> DEFINE n == Cardinality(S)
  <1>1. n \in Nat
    BY FS_CardinalityType
  <1>2. \A i, j \in 1..n : f[i] = f[j] => i = j
    <2> HIDE DEF n
    <2>1. \A i, j \in 1..n : i < j => f[i] # f[j]
      BY DEF n
    <2>2. \A i, j \in 1..n : i < j \/ j < i \/ i = j
      BY <1>1
    <2> QED
      BY <2>1, <2>2
  <1> HIDE DEF n
  <1>3. f \in Injection(1..n, S)
    <2>1. f \in [1..n -> S]
      BY DEF n
    <2> QED
      BY <1>2, <2>1 DEF Injection, IsInjective
  <1>4. IsFiniteSet(1..n) /\ Cardinality(1..n) = n
    BY <1>1, FS_Interval
  <1>5. f \in Surjection(1..n, S)
    BY <1>3, <1>4, FS_Injection DEF n
  <1>6. \A s \in S : \E i \in 1..n : f[i] = s
    BY <1>5 DEF Surjection
  <1>7. f \in [1..n -> S]
    BY DEF n
  <1>8. f \in Seq(S) /\ Len(f) = n
    BY <1>1, <1>7
  <1> QED
    BY <1>1, <1>2, <1>6, <1>8 DEF n

-----------------------------------------------------------------------------
(* SortRules.                                                              *)

\* The rules are all there, from the heaviest to the lightest.
LEMMA RulesAreSorted ==
  ASSUME NEW n \in 0..MaxRules, NEW M, NEW rules \in [1..n -> Rule(M)]
  PROVE  /\ SortRules(rules) \in [1..n -> Rule(M)] /\ ToSet(SortRules(rules)) = ToSet(rules)
         /\ \A i, j \in 1..n : i < j => SortRules(rules)[i].weight >= SortRules(rules)[j].weight
  <1> DEFINE key(j) == MaxRules * MaxWeight + j - rules[j].weight * MaxRules
             S == 1..n
             R == {p \in S \X S : key(p[1]) < key(p[2])}
             order == Sorted(S, LAMBDA i, j : key(i) < key(j))
  <1>1. MaxRules \in Nat /\ MaxWeight \in Nat /\ n \in Nat
    BY RankingAssumption
  <1>2. ASSUME NEW i \in S PROVE rules[i].weight \in Nat /\ key(i) \in Int
    <2>1. rules[i].weight \in Nat
      BY <1>1 DEF Rule
    <2> QED
      BY <1>1, <2>1
  <1>3. ASSUME NEW i \in S, NEW j \in S, rules[i].weight > rules[j].weight PROVE key(i) < key(j)
    <2> DEFINE a == rules[i].weight
               b == rules[j].weight
    <2>1. a \in Nat /\ b \in Nat /\ a > b
      BY <1>2, <1>3
    <2> HIDE DEF a, b
    <2>2. a * MaxRules >= b * MaxRules + MaxRules
      BY <1>1, <2>1
    <2> DEFINE x == a * MaxRules
               y == b * MaxRules
               z == MaxRules * MaxWeight
    <2>3. x \in Int /\ y \in Int /\ z \in Int /\ x >= y + MaxRules
      BY <1>1, <2>1, <2>2
    <2> HIDE DEF x, y, z
    <2>4. z + i - x < z + j - y
      BY <1>1, <2>3
    <2> QED
      BY <2>4 DEF a, b, x, y, z
  <1>4. ASSUME NEW i \in S, NEW j \in S, i # j PROVE key(i) < key(j) \/ key(j) < key(i)
    <2>1. CASE rules[i].weight = rules[j].weight
      <3> DEFINE x == rules[i].weight * MaxRules
                 z == MaxRules * MaxWeight
      <3>1. x \in Int /\ z \in Int
        BY <1>1, <1>2
      <3> HIDE DEF x, z
      <3>2. z + i - x < z + j - x \/ z + j - x < z + i - x
        BY <1>4, <3>1
      <3> QED
        BY <2>1, <3>2 DEF x, z
    <2>2. CASE rules[i].weight # rules[j].weight
      <3>1. rules[i].weight > rules[j].weight \/ rules[j].weight > rules[i].weight
        BY <1>2, <2>2
      <3> QED
        BY <1>3, <3>1
    <2> QED
      BY <2>1, <2>2
  <1> HIDE DEF key
  <1>5. IsFiniteSet(S) /\ Cardinality(S) = n
    BY <1>1, FS_Interval
  <1>6. \A i, j \in S : <<i, j>> \in R <=> key(i) < key(j)
    OBVIOUS
  <1>7. \A i, j \in S : i # j => <<i, j>> \in R \/ <<j, i>> \in R
    BY <1>4, <1>6
  <1>8. \A i, j, k \in S : <<i, j>> \in R /\ <<j, k>> \in R => <<i, k>> \in R
    BY <1>2, <1>6
  <1>9. \E f \in [1..n -> S] : \A i, j \in 1..n : i < j => key(f[i]) < key(f[j])
    <2> HIDE DEF R, S
    <2>1. PICK f \in [1..Cardinality(S) -> S] :
             \A i, j \in 1..Cardinality(S) : i < j => <<f[i], f[j]>> \in R
      BY <1>5, <1>7, <1>8, SortedExists
    <2> QED
      BY <1>5, <1>6, <2>1
  <1>10. order = CHOOSE f \in [1..n -> S] : \A i, j \in DOMAIN f : i < j => key(f[i]) < key(f[j])
    BY <1>5 DEF Sorted
  <1>11. order \in [1..n -> S] /\ \A i, j \in 1..n : i < j => key(order[i]) < key(order[j])
    <2> HIDE DEF order, S
    <2> QED
      BY <1>9, <1>10
  <1> HIDE DEF order
  <1>12. \A i \in S : \E k \in 1..n : order[k] = i
    <2>1. \A i, j \in 1..n : i < j => order[i] # order[j]
      BY <1>2, <1>11
    <2> HIDE DEF S
    <2>2. order \in [1..Cardinality(S) -> S] /\ \A i, j \in 1..Cardinality(S) : i < j => order[i] # order[j]
      BY <1>5, <1>11, <2>1
    <2>3. \A s \in S : \E i \in 1..Cardinality(S) : order[i] = s
      BY <1>5, <2>2, RowHasAll
    <2> QED
      BY <1>5, <2>3
  <1>13. SortRules(rules) = [k \in 1..n |-> rules[order[k]]]
    BY DEF SortRules, order, key
  <1>14. \A i, j \in 1..n : i < j => rules[order[i]].weight >= rules[order[j]].weight
    <2> SUFFICES ASSUME NEW i \in 1..n, NEW j \in 1..n, i < j,
                        ~(rules[order[i]].weight >= rules[order[j]].weight)
                 PROVE  FALSE
      OBVIOUS
    <2>1. order[i] \in S /\ order[j] \in S
      BY <1>11
    <2> DEFINE a == order[i]
               b == order[j]
    <2>2. key(a) < key(b) /\ a \in S /\ b \in S
      BY <1>11, <2>1
    <2>3. ~(rules[a].weight >= rules[b].weight)
      OBVIOUS
    <2> HIDE DEF a, b
    <2>6. rules[a].weight \in Nat /\ rules[b].weight \in Nat
      BY <1>2, <2>2
    <2>4. rules[b].weight > rules[a].weight
      BY <2>3, <2>6
    <2>5. key(b) < key(a)
      BY <1>3, <2>2, <2>4
    <2> QED
      BY <1>2, <2>2, <2>5
  <1>15. SortRules(rules) \in [1..n -> Rule(M)]
    BY <1>11, <1>13
  <1>16. ToSet(SortRules(rules)) = ToSet(rules)
    <2>1. ToSet(rules) = {rules[i] : i \in 1..n}
      BY DEF ToSet
    <2>2. ToSet(SortRules(rules)) = {rules[order[k]] : k \in 1..n}
      BY <1>13 DEF ToSet
    <2>3. ASSUME NEW k \in 1..n PROVE rules[order[k]] \in {rules[i] : i \in 1..n}
      BY <1>11
    <2>4. ASSUME NEW i \in 1..n PROVE rules[i] \in {rules[order[k]] : k \in 1..n}
      <3>1. PICK k \in 1..n : order[k] = i
        BY <1>12
      <3> QED
        BY <3>1
    <2> QED
      BY <2>1, <2>2, <2>3, <2>4
  <1> QED
    BY <1>13, <1>14, <1>15, <1>16

-----------------------------------------------------------------------------
(* RuleSearch.                                                             *)

\* The smaller of two numbers.
LEMMA MinOfTwo ==
  ASSUME NEW a \in Nat, NEW b \in Nat
  PROVE  Min({a, b}) = IF a <= b THEN a ELSE b
  <1> DEFINE m == IF a <= b THEN a ELSE b
  <1>1. m \in {a, b} /\ \A y \in {a, b} : m <= y
    OBVIOUS
  <1>2. \A x \in {a, b} : (\A y \in {a, b} : x <= y) => x = m
    OBVIOUS
  <1> HIDE DEF m
  <1>3. Min({a, b}) = m
    BY <1>1, <1>2 DEF Min
  <1> QED
    BY <1>3 DEF m

\* The first elements of a list.
LEMMA FirstOnes ==
  ASSUME NEW S, NEW list \in Seq(S), NEW k \in 0..Len(list)
  PROVE  /\ SubSeq(list, 1, k) \in Seq(S) /\ Len(SubSeq(list, 1, k)) = k
         /\ \A i \in 1..k : SubSeq(list, 1, k)[i] = list[i]
  <1>1. /\ SubSeq(list, 1, k) \in Seq(S)
        /\ Len(SubSeq(list, 1, k)) = IF 1 <= k THEN k - 1 + 1 ELSE 0
        /\ \A i \in 1..(k - 1 + 1) : SubSeq(list, 1, k)[i] = list[1 + i - 1]
    BY SubSeqProperties, 1 \in Int, k \in Int, \A i \in 1..k : list[i] \in S
  <1>2. k \in Nat /\ k - 1 + 1 = k /\ \A i \in 1..k : 1 + i - 1 = i
    OBVIOUS
  <1>3. Len(SubSeq(list, 1, k)) = k
    BY <1>1, <1>2
  <1> QED
    BY <1>1, <1>2, <1>3

\* KeepInBound returns a number within the bounds.
LEMMA BoundIsKept ==
  ASSUME NEW x \in Nat, NEW max \in Nat \ {0}
  PROVE  KeepInBound(x, 1, max) \in 1..max
  BY DEF KeepInBound

\* What a rule finds are items.
LEMMA RuleSearchFinds ==
  ASSUME Score \subseteq Int, NEW rule, NEW second, NEW score \in [Id -> Score],
         NEW items \in Nat \ {0}, rule.max_records \in Nat, rule.matched[second] \subseteq Id
  PROVE  RuleSearch(rule, second, score, items) \in Seq(Id)
  <1> DEFINE S == rule.matched[second]
             IsBetter(a, b) == score[a] > score[b] \/ (score[a] = score[b] /\ a < b)
             R == {p \in S \X S : IsBetter(p[1], p[2])}
             n == Cardinality(S)
             best == Sorted(S, LAMBDA a, b : score[a] > score[b] \/ (score[a] = score[b] /\ a < b))
             wanted == KeepInBound(rule.max_records, 1, items)
  <1>1. IsFiniteSet(S) /\ \A i \in S : i \in Nat /\ score[i] \in Int
    BY RankingAssumption, FS_Subset
  <1>2. \A i, j \in S : <<i, j>> \in R <=> IsBetter(i, j)
    OBVIOUS
  <1>3. n \in Nat
    BY <1>1, FS_CardinalityType
  <1> HIDE DEF S
  <1>4. \A i, j \in S : i # j => IsBetter(i, j) \/ IsBetter(j, i)
    BY <1>1
  <1>5. \A i, j, k \in S : IsBetter(i, j) /\ IsBetter(j, k) => IsBetter(i, k)
    BY <1>1
  <1>6. \A i \in S : ~IsBetter(i, i)
    BY <1>1
  <1>7. best = CHOOSE f \in [1..n -> S] : \A i, j \in DOMAIN f : i < j => IsBetter(f[i], f[j])
    BY DEF Sorted
  <1> HIDE DEF IsBetter, R, best, n
  <1>8. \A i, j \in S : i # j => <<i, j>> \in R \/ <<j, i>> \in R
    BY <1>2, <1>4
  <1>9. \A i, j, k \in S : <<i, j>> \in R /\ <<j, k>> \in R => <<i, k>> \in R
    BY <1>2, <1>5
  <1>10. \E f \in [1..n -> S] : \A i, j \in 1..n : i < j => IsBetter(f[i], f[j])
    <2>1. PICK f \in [1..Cardinality(S) -> S] :
             \A i, j \in 1..Cardinality(S) : i < j => <<f[i], f[j]>> \in R
      BY <1>1, <1>8, <1>9, SortedExists
    <2> QED
      BY <1>2, <2>1 DEF n
  <1>11. best \in [1..n -> S]
    BY <1>7, <1>10
  <1>12. best \in Seq(Id) /\ Len(best) = n
    <2>1. S \subseteq Id
      BY DEF S
    <2> QED
      BY <1>3, <1>11, <2>1
  <1>13. wanted \in Nat
    BY BoundIsKept
  <1>14. RuleSearch(rule, second, score, items) = SubSeq(best, 1, Min({wanted, Len(best)}))
    BY DEF RuleSearch, best, S
  <1>15. Min({wanted, Len(best)}) \in 0..Len(best)
    <2> HIDE DEF wanted
    <2> QED
      BY <1>3, <1>12, <1>13, MinOfTwo
  <1> DEFINE k == Min({wanted, Len(best)})
  <1>16. k \in 0..Len(best) /\ RuleSearch(rule, second, score, items) = SubSeq(best, 1, k)
    BY <1>14, <1>15
  <1> HIDE DEF wanted, k
  <1>17. SubSeq(best, 1, k) \in Seq(Id)
    BY <1>12, <1>16, FirstOnes
  <1> QED
    BY <1>16, <1>17

-----------------------------------------------------------------------------
(* One rule of a pass.                                                     *)

States ==
  [found : SUBSET Id, keyed : SUBSET [key : {SortKey(w, s, i) : w \in Nat, s \in Score, i \in Id}, id : Id],
   weight : Nat, stopped : BOOLEAN]

\* A new value of one field leaves the others.
LEMMA RecordOfState ==
  ASSUME NEW d \in States
  PROVE  /\ \A b \in BOOLEAN : LET e == [d EXCEPT !.stopped = b]
            IN e \in States /\ e.stopped = b /\ e.found = d.found /\ e.weight = d.weight /\ e.keyed = d.keyed
         /\ \A w \in Nat : LET e == [d EXCEPT !.weight = w]
            IN e \in States /\ e.stopped = d.stopped /\ e.found = d.found /\ e.weight = w /\ e.keyed = d.keyed
  <1> DEFINE Kept == SUBSET [key : {SortKey(v, s, j) : v \in Nat, s \in Score, j \in Id}, id : Id]
  <1>1. States = [found : SUBSET Id, keyed : Kept, weight : Nat, stopped : BOOLEAN]
    BY DEF States
  <1> HIDE DEF Kept
  <1> QED
    BY <1>1

\* The ids F with the keys they have when what finds i weighs weights[i].
KeyedOf(F, weights, score) ==
  {[key |-> SortKey(weights[i], score[i], i), id |-> i] : i \in F}

\* Keep keeps a state a state.
LEMMA KeepType ==
  ASSUME NEW d \in States, NEW w \in Nat, NEW score \in [Id -> Score], NEW i \in Id
  PROVE  /\ Keep(d, w, score, i) \in States
         /\ Keep(d, w, score, i).weight = d.weight /\ Keep(d, w, score, i).stopped = d.stopped
  <1> DEFINE KeySet == {SortKey(v, s, j) : v \in Nat, s \in Score, j \in Id}
             key == SortKey(w, score[i], i)
             keyed == IF \E e \in d.keyed : e.key = key THEN d.keyed ELSE d.keyed \cup {[key |-> key, id |-> i]}
  <1>1. key \in KeySet
    OBVIOUS
  <1>2. /\ d \in [found : SUBSET Id, keyed : SUBSET [key : KeySet, id : Id], weight : Nat, stopped : BOOLEAN]
        /\ States = [found : SUBSET Id, keyed : SUBSET [key : KeySet, id : Id], weight : Nat, stopped : BOOLEAN]
    BY DEF States
  <1>3. Keep(d, w, score, i) = IF i \in d.found THEN d
                               ELSE [d EXCEPT !.found = d.found \cup {i}, !.keyed = keyed]
    BY DEF Keep
  <1> HIDE DEF KeySet, key
  <1>4. keyed \in SUBSET [key : KeySet, id : Id] /\ d.found \cup {i} \in SUBSET Id
    BY <1>1, <1>2
  <1> HIDE DEF keyed
  <1> QED
    BY <1>2, <1>3, <1>4

\* Another item gets another key.
LEMMA KeepAdds ==
  ASSUME Id \subseteq 1..MaxKey, NEW d \in States, NEW score \in [Id -> Score], NEW i \in Id,
         NEW weights \in [Id -> Nat], d.keyed = KeyedOf(d.found, weights, score),
         NEW w, i \in d.found \/ weights[i] = w
  PROVE  /\ Keep(d, w, score, i).found = d.found \cup {i}
         /\ Keep(d, w, score, i).keyed = KeyedOf(d.found \cup {i}, weights, score)
  <1> DEFINE key(j) == SortKey(weights[j], score[j], j)
             next == Keep(d, w, score, i)
  <1>1. d.found \subseteq Id /\ DOMAIN d = {"found", "keyed", "weight", "stopped"}
    BY DEF States
  <1>2. ASSUME NEW j \in Id, NEW k \in Id, key(j) = key(k) PROVE j = k
    <2>1. NumberKey(j) = NumberKey(k)
      BY <1>2 DEF SortKey
    <2>2. j \in 1..MaxKey /\ k \in 1..MaxKey /\ MaxKey \in Nat
      BY RankingAssumption
    <2>3. NumberKey(j) = j /\ NumberKey(k) = k
      BY <2>2, MinOfTwo DEF NumberKey
    <2> QED
      BY <2>1, <2>3
  <1>3. CASE i \in d.found
    <2>1. next = d
      BY <1>3 DEF Keep
    <2>2. d.found \cup {i} = d.found
      BY <1>3
    <2> QED
      BY <2>1, <2>2
  <1>4. CASE i \notin d.found
    <2>1. ~\E e \in d.keyed : e.key = key(i)
      <3> SUFFICES ASSUME NEW e \in d.keyed, e.key = key(i) PROVE FALSE
        OBVIOUS
      <3>1. PICK j \in d.found : e = [key |-> key(j), id |-> j]
        BY DEF KeyedOf
      <3>2. key(j) = key(i) /\ j \in Id
        BY <1>1, <3>1
      <3> QED
        BY <1>2, <1>4, <3>1, <3>2
    <2>2. next = [d EXCEPT !.found = d.found \cup {i},
                           !.keyed = d.keyed \cup {[key |-> key(i), id |-> i]}]
      BY <1>4, <2>1 DEF Keep
    <2>3. next.found = d.found \cup {i} /\ next.keyed = d.keyed \cup {[key |-> key(i), id |-> i]}
      <3> HIDE DEF key
      <3> QED
        BY <1>1, <2>2 DEF States
    <2>4. KeyedOf(d.found \cup {i}, weights, score) = KeyedOf(d.found, weights, score) \cup {[key |-> key(i), id |-> i]}
      BY DEF KeyedOf
    <2> QED
      BY <2>3, <2>4
  <1> QED
    BY <1>3, <1>4

\* The state has the keys of what it has found.
Fits(d, weights, score) == d \in States /\ d.keyed = KeyedOf(d.found, weights, score)

\* Keep adds an item and its key.
IsKeptIn(d, w, score, i, weights) ==
  /\ Keep(d, w, score, i).found = d.found \cup {i}
  /\ Keep(d, w, score, i).keyed = KeyedOf(d.found \cup {i}, weights, score)

LEMMA KeepFits ==
  ASSUME Id \subseteq 1..MaxKey, NEW score \in [Id -> Score], NEW weights \in [Id -> Nat], NEW w \in Nat
  PROVE  \A d, i : i \in Id /\ Fits(d, weights, score) /\ (i \in d.found \/ weights[i] = w)
                     => IsKeptIn(d, w, score, i, weights)
  <1> SUFFICES ASSUME NEW d \in States, NEW i \in Id, d.keyed = KeyedOf(d.found, weights, score),
                      i \in d.found \/ weights[i] = w
               PROVE  /\ Keep(d, w, score, i).found = d.found \cup {i}
                      /\ Keep(d, w, score, i).keyed = KeyedOf(d.found \cup {i}, weights, score)
    BY DEF Fits, IsKeptIn
  <1> QED
    BY KeepAdds

\* What a rule has made of the state after each item it found.
KeepStages(t, w, score, done, list) ==
  /\ t \in [0..Len(list) -> States] /\ t[0] = done
  /\ \A i \in 1..Len(list) : t[i] = Keep(t[i - 1], w, score, list[i])

\* What a rule finds is kept in stages.
LEMMA RuleStages ==
  ASSUME NEW done \in States, NEW w \in Nat, NEW score \in [Id -> Score], NEW list \in Seq(Id)
  PROVE  \E t : /\ KeepStages(t, w, score, done, list)
               /\ FoldLeft(LAMBDA e, i : Keep(e, w, score, i), done, list) = t[Len(list)]
  <1> DEFINE n == Len(list)
             A == States
             g == [x \in A \X (1..n) |-> Keep(x[1], w, score, list[x[2]])]
             fold == CHOOSE iter : iter =
                       [s \in SUBSET (DOMAIN list) |->
                          IF s = {} THEN done
                          ELSE Keep(iter[s \ {Max(s)}], w, score, list[Max(s)])]
  <1>1. n \in Nat /\ DOMAIN list = 1..n /\ \A i \in 1..n : list[i] \in Id
    OBVIOUS
  <1>2. g \in [A \X (1..n) -> A]
    <2> SUFFICES ASSUME NEW x \in A \X (1..n) PROVE Keep(x[1], w, score, list[x[2]]) \in A
      OBVIOUS
    <2>1. x[1] \in States /\ list[x[2]] \in Id
      BY <1>1
    <2> QED
      BY <2>1, KeepType
  <1>3. PICK f \in [SUBSET (1..n) -> A] : IsFold(f, done, g, n)
    <2> HIDE DEF g, n
    <2> QED
      BY <1>1, <1>2, FoldExists
  <1>4. ASSUME NEW iter, NEW s \in SUBSET (1..n), s # {}, iter[s \ {Max(s)}] \in A
        PROVE  g[<<iter[s \ {Max(s)}], Max(s)>>] = Keep(iter[s \ {Max(s)}], w, score, list[Max(s)])
    <2>1. Max(s) \in s
      BY <1>4, <1>1, MaxIsLargest, s \in SUBSET (0..n)
    <2> QED
      BY <1>4, <2>1
  <1>5. f = [s \in SUBSET (DOMAIN list) |->
               IF s = {} THEN done ELSE Keep(f[s \ {Max(s)}], w, score, list[Max(s)])]
    <2>1. \A s \in SUBSET (1..n) : f[s \ {Max(s)}] \in A
      OBVIOUS
    <2> HIDE DEF g, n, A
    <2> QED
      BY <1>1, <1>3, <1>4, <2>1 DEF IsFold
  <1>6. fold = [s \in SUBSET (DOMAIN list) |->
                  IF s = {} THEN done ELSE Keep(fold[s \ {Max(s)}], w, score, list[Max(s)])]
    BY <1>5
  <1>7. FoldLeft(LAMBDA e, i : Keep(e, w, score, i), done, list) = fold[1..n]
    <2>1. FoldLeft(LAMBDA e, i : Keep(e, w, score, i), done, list) = fold[DOMAIN list]
      BY DEF FoldLeft, MapThenFoldSet
    <2> QED
      BY <2>1, <1>1
  <1> HIDE DEF fold
  <1> DEFINE t == [i \in 0..n |-> fold[1..i]]
  <1>8. t[0] = done
    BY <1>6, <1>1, 1..0 = {}
  <1>9. \A i \in 1..n : t[i] = Keep(t[i - 1], w, score, list[i])
    <2> SUFFICES ASSUME NEW i \in 1..n PROVE fold[1..i] = Keep(fold[1..(i - 1)], w, score, list[i])
      BY <1>1
    <2>1. 1..i # {} /\ 1..i \in SUBSET (1..n) /\ Max(1..i) = i /\ (1..i) \ {i} = 1..(i - 1)
      BY <1>1, LastOfRange
    <2> QED
      BY <2>1, <1>1, <1>6
  <1>10. t \in [0..n -> A]
    <2> DEFINE Good == {i \in 0..n : t[i] \in A}
    <2>1. 0 \in Good
      BY <1>8, <1>1
    <2>2. ASSUME NEW i \in 0..(n - 1), i \in Good PROVE i + 1 \in Good
      <3>1. i + 1 \in 1..n /\ (i + 1) - 1 = i /\ t[i] \in A /\ list[i + 1] \in Id
        BY <2>2, <1>1
      <3> HIDE DEF t
      <3>2. t[i + 1] = Keep(t[i], w, score, list[i + 1])
        BY <1>9, <3>1
      <3>3. Keep(t[i], w, score, list[i + 1]) \in States
        BY <3>1, KeepType
      <3> QED
        BY <3>1, <3>2, <3>3
    <2> HIDE DEF Good
    <2>3. \A i \in 0..n : i \in Good
      BY <1>1, <2>1, <2>2, InductionUpTo
    <2> QED
      BY <2>3 DEF Good
  <1>11. t[n] = fold[1..n]
    BY <1>1
  <1> HIDE DEF t
  <1> QED
    BY <1>7, <1>8, <1>9, <1>10, <1>11 DEF KeepStages

\* What a rule finds is kept with the weight of the first rule that finds it.
LEMMA RuleKeeps ==
  ASSUME Id \subseteq 1..MaxKey, NEW done \in States, NEW w \in Nat, NEW score \in [Id -> Score],
         NEW list \in Seq(Id), NEW weights \in [Id -> Nat],
         done.keyed = KeyedOf(done.found, weights, score),
         \A k \in 1..Len(list) : list[k] \notin done.found => weights[list[k]] = w
  PROVE  LET next == FoldLeft(LAMBDA e, i : Keep(e, w, score, i), done, list)
         IN /\ next \in States /\ next.stopped = done.stopped
            /\ next.found = done.found \cup {list[k] : k \in 1..Len(list)}
            /\ next.keyed = KeyedOf(next.found, weights, score)
  <1> DEFINE n == Len(list)
             next == FoldLeft(LAMBDA e, i : Keep(e, w, score, i), done, list)
             To(i) == done.found \cup {list[k] : k \in 1..i}
             IsKept(e, i) == /\ e \in States /\ e.stopped = done.stopped /\ e.found = To(i)
                             /\ e.keyed = KeyedOf(e.found, weights, score)
  <1>1. n \in Nat /\ \A i \in 1..n : list[i] \in Id
    OBVIOUS
  <1>2. PICK t : KeepStages(t, w, score, done, list) /\ next = t[n]
    BY RuleStages
  <1>3. /\ \A i \in 0..n : t[i] \in States
        /\ t[0] = done /\ \A i \in 1..n : t[i] = Keep(t[i - 1], w, score, list[i])
    BY <1>2 DEF KeepStages
  <1>4. \A k \in 1..n : list[k] \notin done.found => weights[list[k]] = w
    OBVIOUS
  <1> HIDE DEF n, next
  <1> DEFINE Good == {i \in 0..n : IsKept(t[i], i)}
  <1>5. 0 \in Good
    <2>1. To(0) = done.found
      OBVIOUS
    <2>2. IsKept(done, 0)
      BY <2>1
    <2> HIDE DEF IsKept
    <2> QED
      BY <1>1, <1>3, <2>2
  <1>6. ASSUME NEW i \in 0..(n - 1), i \in Good PROVE i + 1 \in Good
    <2> DEFINE d == t[i]
               id == list[i + 1]
    <2>1. i \in 0..n /\ i + 1 \in 1..n /\ i + 1 \in 0..n /\ (i + 1) - 1 = i
      BY <1>1
    <2>2. IsKept(d, i) /\ d \in States /\ id \in Id
      BY <1>1, <1>6, <2>1
    <2>3. t[i + 1] = Keep(d, w, score, id)
      BY <1>3, <2>1
    <2>4. To(i + 1) = To(i) \cup {id}
      <3>1. \A k \in 1..(i + 1) : k \in 1..i \/ k = i + 1
        BY <2>1
      <3>2. \A k \in 1..i : k \in 1..(i + 1)
        BY <2>1
      <3>3. i + 1 \in 1..(i + 1)
        BY <2>1
      <3> QED
        BY <3>1, <3>2, <3>3
    <2>5. id \in d.found \/ weights[id] = w
      BY <1>4, <2>1, <2>2
    <2> HIDE DEF d, id, To
    <2>6. Keep(d, w, score, id) \in States /\ Keep(d, w, score, id).stopped = d.stopped
      BY <2>2, KeepType
    <2>7. /\ Keep(d, w, score, id).found = d.found \cup {id}
          /\ Keep(d, w, score, id).keyed = KeyedOf(d.found \cup {id}, weights, score)
      <3>1. Fits(d, weights, score) /\ id \in Id
        BY <2>2 DEF Fits
      <3>2. IsKeptIn(d, w, score, id, weights)
        BY <2>5, <3>1, KeepFits
      <3> QED
        BY <3>2 DEF IsKeptIn
    <2>8. IsKept(Keep(d, w, score, id), i + 1)
      BY <2>2, <2>4, <2>6, <2>7
    <2> HIDE DEF IsKept
    <2> QED
      BY <2>1, <2>3, <2>8
  <1>7. n \in Good
    <2> HIDE DEF Good
    <2> QED
      BY <1>1, <1>5, <1>6, InductionUpTo, n \in 0..n
  <1>8. IsKept(next, n)
    BY <1>2, <1>7
  <1> QED
    BY <1>8 DEF n, next

\* What a rule makes of the state.
KeepAll(d, w, score, list) == FoldLeft(LAMBDA e, i : Keep(e, w, score, i), d, list)

\* A rule of weight w has kept the list.
IsKeptAll(next, d, list, weights, score) ==
  /\ next \in States /\ next.stopped = d.stopped
  /\ next.found = d.found \cup {list[k] : k \in 1..Len(list)}
  /\ next.keyed = KeyedOf(next.found, weights, score)

LEMMA RuleKeepsAll ==
  ASSUME Id \subseteq 1..MaxKey, NEW score \in [Id -> Score], NEW weights \in [Id -> Nat]
  PROVE  \A d, w, list :
           (/\ Fits(d, weights, score) /\ w \in Nat /\ list \in Seq(Id)
            /\ \A k \in 1..Len(list) : list[k] \notin d.found => weights[list[k]] = w)
             => IsKeptAll(KeepAll(d, w, score, list), d, list, weights, score)
  <1> SUFFICES ASSUME NEW d \in States, NEW w \in Nat, NEW list \in Seq(Id),
                      d.keyed = KeyedOf(d.found, weights, score),
                      \A k \in 1..Len(list) : list[k] \notin d.found => weights[list[k]] = w
               PROVE  LET next == FoldLeft(LAMBDA e, i : Keep(e, w, score, i), d, list)
                      IN /\ next \in States /\ next.stopped = d.stopped
                         /\ next.found = d.found \cup {list[k] : k \in 1..Len(list)}
                         /\ next.keyed = KeyedOf(next.found, weights, score)
    BY DEF Fits, IsKeptAll, KeepAll
  <1> QED
    BY RuleKeeps

\* A rule that is given to Try.
IsRule(rule) == rule.weight \in Nat /\ rule.max_records \in Nat /\ \A b \in BOOLEAN : rule.matched[b] \subseteq Id

\* What Try makes of d when the rule finds the ids F.
IsTried(e, d, rule, F, counter, weights, score) ==
  /\ Fits(e, weights, score)
  /\ IF d.stopped \/ Stops(d.weight, rule, d.found, counter)
     THEN e.stopped /\ e.found = d.found /\ e.weight = d.weight
     ELSE ~e.stopped /\ e.found = d.found \cup F /\ e.weight = rule.weight

\* Try keeps the keys of what is found, whether the rule is tried or not.
LEMMA TryFits ==
  ASSUME Id \subseteq 1..MaxKey, Score \subseteq Int, NEW score \in [Id -> Score], NEW weights \in [Id -> Nat],
         NEW counter \in Nat \ {0}, NEW second \in BOOLEAN
  PROVE  \A d, rule :
           LET F == ToSet(RuleSearch(rule, second, score, counter))
           IN (/\ Fits(d, weights, score) /\ IsRule(rule)
               /\ d.stopped \/ \A i \in F : i \in d.found \/ weights[i] = rule.weight)
                => IsTried(Try(d, rule, second, score, counter), d, rule, F, counter, weights, score)
  <1> SUFFICES ASSUME NEW d, NEW rule, Fits(d, weights, score), IsRule(rule),
                      d.stopped \/ \A i \in ToSet(RuleSearch(rule, second, score, counter)) :
                                     i \in d.found \/ weights[i] = rule.weight
               PROVE  IsTried(Try(d, rule, second, score, counter), d, rule,
                              ToSet(RuleSearch(rule, second, score, counter)), counter, weights, score)
    OBVIOUS
  <1> DEFINE list == RuleSearch(rule, second, score, counter)
             w == rule.weight
             next == KeepAll(d, w, score, list)
  <1>1. d \in States /\ d.keyed = KeyedOf(d.found, weights, score) /\ w \in Nat
    BY DEF Fits, IsRule
  <1>2. list \in Seq(Id)
    BY RuleSearchFinds DEF IsRule
  <1>3. /\ ToSet(list) = {list[k] : k \in 1..Len(list)}
        /\ d.stopped \/ \A i \in ToSet(list) : i \in d.found \/ weights[i] = w
    BY <1>2 DEF ToSet
  <1>4. Try(d, rule, second, score, counter) =
          IF d.stopped \/ Stops(d.weight, rule, d.found, counter)
          THEN [d EXCEPT !.stopped = TRUE] ELSE [next EXCEPT !.weight = w]
    BY DEF Try, KeepAll
  <1>5. ASSUME ~d.stopped
        PROVE  /\ next \in States /\ next.stopped = d.stopped /\ next.found = d.found \cup ToSet(list)
               /\ next.keyed = KeyedOf(next.found, weights, score)
    <2> HIDE DEF list, w
    <2>1. \A k \in 1..Len(list) : list[k] \notin d.found => weights[list[k]] = w
      BY <1>3, <1>5
    <2>2. IsKeptAll(next, d, list, weights, score)
      BY <1>1, <1>2, <2>1, RuleKeepsAll
    <2> QED
      BY <1>3, <2>2 DEF IsKeptAll
  <1> HIDE DEF next, list, w
  <1>6. CASE d.stopped \/ Stops(d.weight, rule, d.found, counter)
    <2> DEFINE e == [d EXCEPT !.stopped = TRUE]
    <2>1. Try(d, rule, second, score, counter) = e
      BY <1>4, <1>6
    <2>2. e \in States /\ e.stopped /\ e.found = d.found /\ e.weight = d.weight /\ e.keyed = d.keyed
      BY <1>1, RecordOfState
    <2> HIDE DEF e
    <2>3. Fits(e, weights, score)
      BY <1>1, <2>2 DEF Fits
    <2>4. IsTried(e, d, rule, ToSet(list), counter, weights, score)
      BY <1>6, <2>2, <2>3 DEF IsTried
    <2> QED
      BY <2>1, <2>4 DEF list
  <1>7. CASE ~(d.stopped \/ Stops(d.weight, rule, d.found, counter))
    <2> DEFINE e == [next EXCEPT !.weight = w]
    <2>1. Try(d, rule, second, score, counter) = e
      BY <1>4, <1>7
    <2>2. e \in States /\ e.stopped = next.stopped /\ e.found = next.found /\ e.weight = w /\ e.keyed = next.keyed
      BY <1>1, <1>5, <1>7, RecordOfState
    <2> HIDE DEF e
    <2>3. Fits(e, weights, score)
      BY <1>5, <1>7, <2>2 DEF Fits
    <2>4. e.found = d.found \cup ToSet(list) /\ ~e.stopped /\ e.weight = rule.weight
      BY <1>5, <1>7, <2>2 DEF w
    <2>5. IsTried(e, d, rule, ToSet(list), counter, weights, score)
      BY <1>7, <2>3, <2>4 DEF IsTried
    <2> QED
      BY <2>1, <2>5 DEF list
  <1> QED
    BY <1>6, <1>7

\* A rule keeps a state a state.
LEMMA KeepAllType ==
  ASSUME NEW d \in States, NEW w \in Nat, NEW score \in [Id -> Score], NEW list \in Seq(Id)
  PROVE  KeepAll(d, w, score, list) \in States
  <1>1. PICK t : /\ KeepStages(t, w, score, d, list)
                 /\ FoldLeft(LAMBDA e, i : Keep(e, w, score, i), d, list) = t[Len(list)]
    BY RuleStages
  <1>2. t \in [0..Len(list) -> States]
    BY <1>1 DEF KeepStages
  <1>3. Len(list) \in 0..Len(list)
    OBVIOUS
  <1>4. t[Len(list)] \in States
    BY <1>2, <1>3
  <1> QED
    BY <1>1, <1>4 DEF KeepAll

\* So does Try.
LEMMA TryType ==
  ASSUME Score \subseteq Int, NEW d \in States, NEW rule, IsRule(rule), NEW second \in BOOLEAN,
         NEW score \in [Id -> Score], NEW counter \in Nat \ {0}
  PROVE  Try(d, rule, second, score, counter) \in States
  <1> DEFINE list == RuleSearch(rule, second, score, counter)
             next == KeepAll(d, rule.weight, score, list)
  <1>1. list \in Seq(Id)
    BY RuleSearchFinds DEF IsRule
  <1>2. Try(d, rule, second, score, counter) =
          IF d.stopped \/ Stops(d.weight, rule, d.found, counter)
          THEN [d EXCEPT !.stopped = TRUE] ELSE [next EXCEPT !.weight = rule.weight]
    BY DEF Try, KeepAll
  <1> HIDE DEF list
  <1>3. next \in States /\ rule.weight \in Nat
    BY <1>1, KeepAllType DEF IsRule
  <1> HIDE DEF next
  <1>4. [d EXCEPT !.stopped = TRUE] \in States
    BY RecordOfState
  <1>5. [next EXCEPT !.weight = rule.weight] \in States
    BY <1>3, RecordOfState
  <1> QED
    BY <1>2, <1>4, <1>5

\* The rules are tried one after the other.
PassFrom(start, rules, second, score, counter) ==
  FoldLeft(LAMBDA d, rule : Try(d, rule, second, score, counter), start, rules)

\* The state of a pass after each rule.
PassStages(t, start, rules, second, score, counter) ==
  /\ t \in [0..Len(rules) -> States] /\ t[0] = start
  /\ \A i \in 1..Len(rules) : t[i] = Try(t[i - 1], rules[i], second, score, counter)

\* A pass has stages.
LEMMA StagesOfPass ==
  ASSUME Score \subseteq Int, NEW start \in States, NEW M, NEW rules \in Seq(M), \A r \in M : IsRule(r),
         NEW second \in BOOLEAN, NEW score \in [Id -> Score], NEW counter \in Nat \ {0}
  PROVE  \E t : /\ PassStages(t, start, rules, second, score, counter)
               /\ PassFrom(start, rules, second, score, counter) = t[Len(rules)]
  <1> DEFINE n == Len(rules)
             A == States
             g == [x \in A \X (1..n) |-> Try(x[1], rules[x[2]], second, score, counter)]
             fold == CHOOSE iter : iter =
                       [s \in SUBSET (DOMAIN rules) |->
                          IF s = {} THEN start
                          ELSE Try(iter[s \ {Max(s)}], rules[Max(s)], second, score, counter)]
  <1>1. n \in Nat /\ DOMAIN rules = 1..n /\ \A i \in 1..n : IsRule(rules[i])
    OBVIOUS
  <1>2. g \in [A \X (1..n) -> A]
    <2> SUFFICES ASSUME NEW x \in A \X (1..n) PROVE Try(x[1], rules[x[2]], second, score, counter) \in A
      OBVIOUS
    <2>1. x[1] \in States /\ IsRule(rules[x[2]])
      BY <1>1
    <2> QED
      BY <2>1, TryType
  <1>3. PICK f \in [SUBSET (1..n) -> A] : IsFold(f, start, g, n)
    <2> HIDE DEF g, n
    <2> QED
      BY <1>1, <1>2, FoldExists
  <1>4. ASSUME NEW iter, NEW s \in SUBSET (1..n), s # {}, iter[s \ {Max(s)}] \in A
        PROVE  g[<<iter[s \ {Max(s)}], Max(s)>>] = Try(iter[s \ {Max(s)}], rules[Max(s)], second, score, counter)
    <2>1. Max(s) \in s
      BY <1>4, <1>1, MaxIsLargest, s \in SUBSET (0..n)
    <2> QED
      BY <1>4, <2>1
  <1>5. f = [s \in SUBSET (DOMAIN rules) |->
               IF s = {} THEN start ELSE Try(f[s \ {Max(s)}], rules[Max(s)], second, score, counter)]
    <2>1. \A s \in SUBSET (1..n) : f[s \ {Max(s)}] \in A
      OBVIOUS
    <2> HIDE DEF g, n, A
    <2> QED
      BY <1>1, <1>3, <1>4, <2>1 DEF IsFold
  <1>6. fold = [s \in SUBSET (DOMAIN rules) |->
                  IF s = {} THEN start ELSE Try(fold[s \ {Max(s)}], rules[Max(s)], second, score, counter)]
    BY <1>5
  <1>7. FoldLeft(LAMBDA d, rule : Try(d, rule, second, score, counter), start, rules) = fold[1..n]
    <2>1. FoldLeft(LAMBDA d, rule : Try(d, rule, second, score, counter), start, rules) = fold[DOMAIN rules]
      BY DEF FoldLeft, MapThenFoldSet
    <2> QED
      BY <2>1, <1>1
  <1> HIDE DEF fold
  <1> DEFINE t == [i \in 0..n |-> fold[1..i]]
  <1>8. t[0] = start
    BY <1>6, <1>1, 1..0 = {}
  <1>9. \A i \in 1..n : t[i] = Try(t[i - 1], rules[i], second, score, counter)
    <2> SUFFICES ASSUME NEW i \in 1..n PROVE fold[1..i] = Try(fold[1..(i - 1)], rules[i], second, score, counter)
      BY <1>1
    <2>1. 1..i # {} /\ 1..i \in SUBSET (1..n) /\ Max(1..i) = i /\ (1..i) \ {i} = 1..(i - 1)
      BY <1>1, LastOfRange
    <2> QED
      BY <2>1, <1>1, <1>6
  <1>10. t \in [0..n -> A]
    <2> DEFINE Good == {i \in 0..n : t[i] \in A}
    <2>1. 0 \in Good
      BY <1>8, <1>1
    <2>2. ASSUME NEW i \in 0..(n - 1), i \in Good PROVE i + 1 \in Good
      <3>1. i + 1 \in 1..n /\ (i + 1) - 1 = i /\ t[i] \in A /\ IsRule(rules[i + 1])
        BY <2>2, <1>1
      <3> HIDE DEF t
      <3>2. t[i + 1] = Try(t[i], rules[i + 1], second, score, counter)
        BY <1>9, <3>1
      <3>3. Try(t[i], rules[i + 1], second, score, counter) \in States
        BY <3>1, TryType
      <3> QED
        BY <3>1, <3>2, <3>3
    <2> HIDE DEF Good
    <2>3. \A i \in 0..n : i \in Good
      BY <1>1, <2>1, <2>2, InductionUpTo
    <2> QED
      BY <2>3 DEF Good
  <1>11. t[n] = fold[1..n]
    BY <1>1
  <1> HIDE DEF t
  <1> QED
    BY <1>7, <1>8, <1>9, <1>10, <1>11 DEF PassStages, PassFrom

\* What the first m rules find, and the weight of the heaviest rule that finds
\* an item.  R[k] is what the k-th rule finds, w[k] is its weight.
FoundTo(R, m) == UNION {R[k] : k \in 1..m}
Finders(R, i) == {k \in DOMAIN R : i \in R[k]}
WeightsOf(R, w) == [i \in Id |-> IF Finders(R, i) = {} THEN 0 ELSE Max({w[k] : k \in Finders(R, i)})]

\* An item weighs as much as one rule that finds it, and no other weighs more.
LEMMA HeaviestFinder ==
  ASSUME NEW n \in Nat, NEW R \in [1..n -> SUBSET Id], NEW w \in [1..n -> 0..MaxWeight]
  PROVE  /\ WeightsOf(R, w) \in [Id -> Nat]
         /\ \A i \in Id, k \in 1..n : i \in R[k] => WeightsOf(R, w)[i] >= w[k]
         /\ \A i \in Id, m \in 1..n : i \in R[m] => \E k \in 1..n : i \in R[k] /\ WeightsOf(R, w)[i] = w[k]
  <1>1. MaxWeight \in Nat
    BY RankingAssumption
  <1>2. ASSUME NEW i \in Id, NEW m \in 1..n, i \in R[m]
        PROVE  /\ \A k \in 1..n : i \in R[k] => WeightsOf(R, w)[i] >= w[k]
               /\ \E k \in 1..n : i \in R[k] /\ WeightsOf(R, w)[i] = w[k]
    <2> DEFINE W == {w[k] : k \in Finders(R, i)}
               max == Max(W)
    <2>1. W \in SUBSET (0..MaxWeight) /\ w[m] \in W
      BY <1>2 DEF Finders
    <2>2. WeightsOf(R, w)[i] = max
      BY <1>2 DEF WeightsOf, Finders
    <2>3. max \in W /\ \A x \in W : max >= x
      <3> HIDE DEF W
      <3> QED
        BY <1>1, <2>1, MaxIsLargest
    <2> HIDE DEF max
    <2> QED
      BY <2>2, <2>3 DEF Finders
  <1>3. ASSUME NEW i \in Id PROVE WeightsOf(R, w)[i] \in Nat
    <2>1. CASE Finders(R, i) = {}
      BY <2>1 DEF WeightsOf
    <2>2. CASE Finders(R, i) # {}
      <3>1. PICK m \in 1..n : i \in R[m]
        BY <2>2 DEF Finders
      <3>2. PICK k \in 1..n : WeightsOf(R, w)[i] = w[k]
        BY <1>2, <3>1
      <3> QED
        BY <1>1, <3>2
    <2> QED
      BY <2>1, <2>2
  <1>4. WeightsOf(R, w) \in [Id -> Nat]
    <2>1. WeightsOf(R, w) = [i \in Id |-> WeightsOf(R, w)[i]]
      BY DEF WeightsOf
    <2> QED
      BY <1>3, <2>1
  <1> QED
    BY <1>2, <1>4

\* What the pass has found after i rules: all that they find or, when it has
\* stopped, all that is as heavy as the last it found, and enough.
IsPassed(d, R, w, i, counter) ==
  \E m \in 0..i :
    /\ d.found = FoundTo(R, m) /\ (m >= 1 => d.weight = w[m])
    /\ IF d.stopped THEN /\ m >= 1 /\ Cardinality(d.found) >= counter
                         /\ \A k \in (m + 1)..Len(w) : w[k] < w[m]
       ELSE m = i

\* The next rule keeps that, stopped or not.
LEMMA PassNext ==
  ASSUME NEW n \in Nat, NEW R \in [1..n -> SUBSET Id], NEW w \in [1..n -> 0..MaxWeight],
         \A k, l \in 1..n : k < l => w[k] >= w[l], NEW counter \in Nat \ {0},
         NEW i \in 0..(n - 1), NEW d, NEW e, NEW rule, rule.weight = w[i + 1],
         IsPassed(d, R, w, i, counter),
         IF d.stopped \/ Stops(d.weight, rule, d.found, counter)
         THEN e.stopped /\ e.found = d.found /\ e.weight = d.weight
         ELSE ~e.stopped /\ e.found = d.found \cup R[i + 1] /\ e.weight = rule.weight
  PROVE  IsPassed(e, R, w, i + 1, counter)
  <1>1. PICK m \in 0..i :
          /\ d.found = FoundTo(R, m) /\ (m >= 1 => d.weight = w[m])
          /\ IF d.stopped THEN /\ m >= 1 /\ Cardinality(d.found) >= counter
                               /\ \A k \in (m + 1)..n : w[k] < w[m]
             ELSE m = i
    BY Len(w) = n DEF IsPassed
  <1>2. i + 1 \in 1..n /\ m \in 0..(i + 1) /\ i + 1 \in 0..(i + 1) /\ Len(w) = n
    OBVIOUS
  <1>3. CASE d.stopped
    <2>1. e.stopped /\ e.found = d.found /\ e.weight = d.weight
      BY <1>3
    <2> QED
      BY <1>1, <1>2, <1>3, <2>1 DEF IsPassed
  <1>4. CASE ~d.stopped /\ Stops(d.weight, rule, d.found, counter)
    <2>1. e.stopped /\ e.found = d.found /\ e.weight = d.weight
      BY <1>4
    <2>2. m = i /\ Cardinality(d.found) >= counter /\ d.weight > w[i + 1]
      BY <1>1, <1>4 DEF Stops
    <2>3. m >= 1
      <3> SUFFICES ASSUME m = 0 PROVE FALSE
        OBVIOUS
      <3>1. d.found = {}
        BY <1>1 DEF FoundTo
      <3> QED
        BY <2>2, <3>1, FS_EmptySet
    <2>4. \A k \in (m + 1)..n : w[k] < w[m]
      <3> SUFFICES ASSUME NEW k \in (m + 1)..n PROVE w[k] < w[m]
        OBVIOUS
      <3>1. k \in 1..n /\ w[m] > w[i + 1] /\ m \in 1..n
        BY <1>1, <1>2, <2>2, <2>3
      <3>2. w[i + 1] >= w[k]
        <4>1. CASE k = i + 1
          BY <1>2, <4>1, RankingAssumption
        <4>2. CASE k # i + 1
          BY <1>2, <2>2, <3>1, <4>2
        <4> QED
          BY <4>1, <4>2
      <3> QED
        BY <1>2, <3>1, <3>2, RankingAssumption
    <2> QED
      BY <1>1, <1>2, <2>1, <2>2, <2>3, <2>4 DEF IsPassed
  <1>5. CASE ~(d.stopped \/ Stops(d.weight, rule, d.found, counter))
    <2>1. ~e.stopped /\ e.found = d.found \cup R[i + 1] /\ e.weight = w[i + 1]
      BY <1>5
    <2>2. m = i
      BY <1>1, <1>5
    <2>3. FoundTo(R, i + 1) = FoundTo(R, i) \cup R[i + 1]
      <3>1. \A k \in 1..(i + 1) : k \in 1..i \/ k = i + 1
        BY <1>2
      <3>2. \A k \in 1..i : k \in 1..(i + 1)
        BY <1>2
      <3>3. i + 1 \in 1..(i + 1)
        BY <1>2
      <3> QED
        BY <3>1, <3>2, <3>3 DEF FoundTo
    <2>4. e.found = FoundTo(R, i + 1)
      BY <1>1, <2>1, <2>2, <2>3
    <2> QED
      BY <1>2, <2>1, <2>4 DEF IsPassed
  <1> QED
    BY <1>3, <1>4, <1>5

\* What a pass ends with.
IsBestFound(F, all, weights, counter) ==
  /\ F \subseteq all
  /\ \/ F = all
     \/ /\ Cardinality(F) >= counter
        /\ \A a \in F, b \in all \ F : weights[a] > weights[b]
AllFound(R) == UNION {R[k] : k \in DOMAIN R}

\* The items that are left out when the pass stops weigh less than all it has.
LEMMA PassEnds ==
  ASSUME NEW n \in Nat, NEW R \in [1..n -> SUBSET Id], NEW w \in [1..n -> 0..MaxWeight],
         \A k, l \in 1..n : k < l => w[k] >= w[l], NEW counter \in Nat \ {0}, NEW d,
         IsPassed(d, R, w, n, counter)
  PROVE  IsBestFound(d.found, AllFound(R), WeightsOf(R, w), counter)
  <1> DEFINE all == AllFound(R)
             weights == WeightsOf(R, w)
  <1>1. PICK m \in 0..n :
          /\ d.found = FoundTo(R, m)
          /\ IF d.stopped THEN /\ m >= 1 /\ Cardinality(d.found) >= counter
                               /\ \A k \in (m + 1)..n : w[k] < w[m]
             ELSE m = n
    BY Len(w) = n DEF IsPassed
  <1>2. d.found \subseteq all
    BY <1>1 DEF FoundTo, AllFound
  <1>5. /\ weights \in [Id -> Nat] /\ \A i \in Id, k \in 1..n : i \in R[k] => weights[i] >= w[k]
        /\ \A i \in Id, k \in 1..n : i \in R[k] => \E j \in 1..n : i \in R[j] /\ weights[i] = w[j]
    BY HeaviestFinder
  <1>3. CASE ~d.stopped
    <2>1. d.found = all
      BY <1>1, <1>3 DEF FoundTo, AllFound
    <2> QED
      BY <2>1 DEF IsBestFound
  <1>4. CASE d.stopped
    <2>1. ASSUME NEW a \in d.found, NEW b \in all \ d.found PROVE weights[a] > weights[b]
      <3>1. PICK k \in 1..m : a \in R[k]
        BY <1>1 DEF FoundTo
      <3>2. PICK l \in 1..n : b \in R[l]
        BY DEF AllFound
      <3>3. k \in 1..n /\ a \in Id /\ b \in Id /\ m \in 1..n
        BY <1>1, <3>1, <3>2
      <3>4. weights[a] >= w[k] /\ weights \in [Id -> Nat]
        BY <1>5, <3>1, <3>3
      <3>5. PICK j \in 1..n : b \in R[j] /\ weights[b] = w[j]
        BY <1>5, <3>2, <3>3
      <3> HIDE DEF weights
      <3>6. j \notin 1..m
        BY <1>1, <3>5 DEF FoundTo
      <3>7. w[j] < w[m]
        BY <1>1, <1>4, <3>6
      <3>8. w[k] >= w[m]
        <4>1. CASE k = m
          BY <3>3, <4>1, RankingAssumption
        <4>2. CASE k # m
          BY <3>1, <3>3, <4>2
        <4> QED
          BY <4>1, <4>2
      <3> QED
        <4>1. w[k] \in Nat /\ w[m] \in Nat /\ w[j] \in Nat /\ weights[a] \in Nat
          BY <3>3, <3>4, RankingAssumption
        <4> QED
          BY <3>4, <3>5, <3>7, <3>8, <4>1
    <2> QED
      BY <1>1, <1>2, <1>4, <2>1 DEF IsBestFound
  <1> QED
    BY <1>3, <1>4

\* What the rules before have not found has the weight of the next one.
LEMMA WeightOfNew ==
  ASSUME NEW n \in Nat, NEW R \in [1..n -> SUBSET Id], NEW w \in [1..n -> 0..MaxWeight],
         \A k, l \in 1..n : k < l => w[k] >= w[l]
  PROVE  \A i \in 0..(n - 1), id \in Id :
           id \in R[i + 1] /\ id \notin FoundTo(R, i) => WeightsOf(R, w)[id] = w[i + 1]
  <1> SUFFICES ASSUME NEW i \in 0..(n - 1), NEW id \in R[i + 1], id \notin FoundTo(R, i)
               PROVE  WeightsOf(R, w)[id] = w[i + 1]
    OBVIOUS
  <1> DEFINE weights == WeightsOf(R, w)
  <1>1. i + 1 \in 1..n /\ id \in Id /\ MaxWeight \in Nat
    BY RankingAssumption
  <1>2. /\ weights \in [Id -> Nat] /\ \A x \in Id, k \in 1..n : x \in R[k] => weights[x] >= w[k]
        /\ \A x \in Id, k \in 1..n : x \in R[k] => \E j \in 1..n : x \in R[j] /\ weights[x] = w[j]
    BY HeaviestFinder
  <1> HIDE DEF weights
  <1>3. PICK j \in 1..n : id \in R[j] /\ weights[id] = w[j]
    BY <1>1, <1>2
  <1>4. j \notin 1..i
    BY <1>3 DEF FoundTo
  <1>5. w[i + 1] >= w[j]
    <2>1. CASE j = i + 1
      BY <1>1, <2>1
    <2>2. CASE j # i + 1
      BY <1>1, <1>4, <2>2
    <2> QED
      BY <2>1, <2>2
  <1>6. weights[id] >= w[i + 1]
    BY <1>1, <1>2
  <1> QED
    BY <1>1, <1>3, <1>5, <1>6 DEF weights

\* What the rules find and what they weigh.
FoundAt(rules, second, score, items) ==
  [k \in DOMAIN rules |-> ToSet(RuleSearch(rules[k], second, score, items))]
RuleWeights(rules) == [k \in DOMAIN rules |-> rules[k].weight]

\* What rules find are items, and their weights are numbers.
LEMMA FoundType ==
  ASSUME Score \subseteq Int, NEW n \in Nat, NEW M, NEW rules \in [1..n -> M],
         \A r \in M : IsRule(r) /\ r.weight \in 0..MaxWeight,
         NEW second \in BOOLEAN, NEW score \in [Id -> Score], NEW counter \in Nat \ {0}
  PROVE  LET R == FoundAt(rules, second, score, counter)
             w == RuleWeights(rules)
         IN /\ R \in [1..n -> SUBSET Id] /\ w \in [1..n -> 0..MaxWeight]
            /\ WeightsOf(R, w) \in [Id -> Nat]
  <1> DEFINE R == FoundAt(rules, second, score, counter)
             w == RuleWeights(rules)
  <1>1. /\ rules \in Seq(M) /\ Len(rules) = n /\ DOMAIN rules = 1..n
        /\ \A k \in 1..n : IsRule(rules[k]) /\ rules[k].weight \in 0..MaxWeight
    OBVIOUS
  <1>2. R \in [1..n -> SUBSET Id] /\ \A k \in 1..n : R[k] = ToSet(RuleSearch(rules[k], second, score, counter))
    <2>1. ASSUME NEW k \in 1..n PROVE ToSet(RuleSearch(rules[k], second, score, counter)) \in SUBSET Id
      <3> DEFINE list == RuleSearch(rules[k], second, score, counter)
      <3>1. rules[k].max_records \in Nat /\ rules[k].matched[second] \subseteq Id
        BY <1>1 DEF IsRule
      <3>2. list \in Seq(Id)
        BY <3>1, RuleSearchFinds
      <3> HIDE DEF list
      <3>3. ToSet(list) \in SUBSET Id
        BY <3>2 DEF ToSet
      <3> QED
        BY <3>3 DEF list
    <2> QED
      BY <1>1, <2>1 DEF FoundAt
  <1>3. w \in [1..n -> 0..MaxWeight] /\ \A k \in 1..n : w[k] = rules[k].weight
    BY <1>1 DEF RuleWeights
  <1> HIDE DEF R, w
  <1>4. WeightsOf(R, w) \in [Id -> Nat]
    BY <1>2, <1>3, HeaviestFinder
  <1> QED
    BY <1>2, <1>3, <1>4 DEF R, w

\* A pass keeps the best of what its rules find.
LEMMA PassFinds ==
  ASSUME Id \subseteq 1..MaxKey, Score \subseteq Int, NEW n \in Nat, NEW M, NEW rules \in [1..n -> M],
         \A r \in M : IsRule(r) /\ r.weight \in 0..MaxWeight,
         \A k, l \in 1..n : k < l => rules[k].weight >= rules[l].weight,
         NEW second \in BOOLEAN, NEW score \in [Id -> Score], NEW counter \in Nat \ {0},
         NEW done \in States, done.found = {}, done.keyed = {}
  PROVE  LET R == FoundAt(rules, second, score, counter)
             weights == WeightsOf(R, RuleWeights(rules))
             last == Pass(done, rules, second, score, counter)
         IN Fits(last, weights, score) /\ IsBestFound(last.found, AllFound(R), weights, counter)
  <1> DEFINE R == FoundAt(rules, second, score, counter)
             w == RuleWeights(rules)
             weights == WeightsOf(R, w)
             start == [done EXCEPT !.stopped = FALSE]
  <1>1. /\ rules \in Seq(M) /\ Len(rules) = n /\ DOMAIN rules = 1..n
        /\ \A k \in 1..n : IsRule(rules[k]) /\ rules[k].weight \in 0..MaxWeight
    OBVIOUS
  <1>2. R \in [1..n -> SUBSET Id] /\ w \in [1..n -> 0..MaxWeight] /\ weights \in [Id -> Nat]
    BY FoundType
  <1>3. /\ \A k \in 1..n : R[k] = ToSet(RuleSearch(rules[k], second, score, counter))
        /\ \A k \in 1..n : w[k] = rules[k].weight
    BY <1>1 DEF FoundAt, RuleWeights
  <1>4. \A k, l \in 1..n : k < l => w[k] >= w[l]
    BY <1>3
  <1> HIDE DEF R, w
  <1>5. weights \in [Id -> Nat]
    BY <1>2
  <1>6. start \in States /\ start.stopped = FALSE /\ start.found = {} /\ start.keyed = {}
    BY RecordOfState
  <1> HIDE DEF start
  <1>7. PICK t : /\ PassStages(t, start, rules, second, score, counter)
                 /\ PassFrom(start, rules, second, score, counter) = t[Len(rules)]
    <2>1. \A r \in M : IsRule(r)
      OBVIOUS
    <2> QED
      BY <1>1, <1>6, <2>1, StagesOfPass
  <1>8. Pass(done, rules, second, score, counter) = t[n]
    BY <1>1, <1>7 DEF Pass, PassFrom, start
  <1>9. t[0] = start /\ \A k \in 1..n : t[k] = Try(t[k - 1], rules[k], second, score, counter)
    BY <1>1, <1>7 DEF PassStages
  <1> DEFINE Good == {k \in 0..n : Fits(t[k], weights, score) /\ IsPassed(t[k], R, w, k, counter)}
  <1>10. 0 \in Good
    <2>1. Fits(start, weights, score)
      BY <1>6 DEF Fits, KeyedOf
    <2>2. start.found = FoundTo(R, 0)
      BY <1>6 DEF FoundTo
    <2>3. IsPassed(start, R, w, 0, counter)
      BY <1>6, <2>2 DEF IsPassed
    <2> QED
      BY <1>9, <2>1, <2>3
  <1>11. ASSUME NEW i \in 0..(n - 1), i \in Good PROVE i + 1 \in Good
    <2> DEFINE d == t[i]
               rule == rules[i + 1]
               e == Try(d, rule, second, score, counter)
    <2>1. i + 1 \in 1..n /\ (i + 1) - 1 = i /\ i + 1 \in 0..n
      OBVIOUS
    <2>2. Fits(d, weights, score) /\ IsPassed(d, R, w, i, counter) /\ IsRule(rule) /\ rule.weight = w[i + 1]
      BY <1>1, <1>3, <1>11, <2>1
    <2>3. t[i + 1] = e
      BY <1>9, <2>1
    <2>4. R[i + 1] = ToSet(RuleSearch(rule, second, score, counter))
      BY <1>3, <2>1
    <2> HIDE DEF d, rule
    <2>5. d.stopped \/ \A x \in R[i + 1] : x \in d.found \/ weights[x] = rule.weight
      <3> SUFFICES ASSUME ~d.stopped, NEW x \in R[i + 1], x \notin d.found PROVE weights[x] = rule.weight
        OBVIOUS
      <3>1. d.found = FoundTo(R, i)
        BY <2>2 DEF IsPassed
      <3>2. x \notin FoundTo(R, i)
        BY <3>1
      <3>3. weights[x] = w[i + 1]
        <4>1. \A j \in 0..(n - 1), id \in Id :
                id \in R[j + 1] /\ id \notin FoundTo(R, j) => weights[id] = w[j + 1]
          BY <1>2, <1>3, <1>4, WeightOfNew
        <4>2. x \in Id
          BY <1>2, <2>1
        <4> HIDE DEF weights
        <4> QED
          BY <3>2, <4>1, <4>2
      <3> QED
        BY <2>2, <3>3
    <2> HIDE DEF weights
    <2>6. IsTried(e, d, rule, R[i + 1], counter, weights, score)
      <3>1. d.stopped \/ \A x \in ToSet(RuleSearch(rule, second, score, counter)) :
                           x \in d.found \/ weights[x] = rule.weight
        BY <2>4, <2>5
      <3>2. IsTried(e, d, rule, ToSet(RuleSearch(rule, second, score, counter)), counter, weights, score)
        BY <1>5, <2>2, <3>1, TryFits
      <3> QED
        BY <2>4, <3>2
    <2> HIDE DEF e
    <2>7. Fits(e, weights, score)
      BY <2>6 DEF IsTried
    <2>8. IF d.stopped \/ Stops(d.weight, rule, d.found, counter)
          THEN e.stopped /\ e.found = d.found /\ e.weight = d.weight
          ELSE ~e.stopped /\ e.found = d.found \cup R[i + 1] /\ e.weight = rule.weight
      BY <2>6 DEF IsTried
    <2>9. IsPassed(e, R, w, i + 1, counter)
      BY <1>2, <1>3, <1>4, <2>2, <2>8, PassNext
    <2> QED
      BY <2>1, <2>3, <2>7, <2>9
  <1>12. n \in Good
    <2> HIDE DEF Good
    <2> QED
      BY <1>10, <1>11, InductionUpTo, n \in 0..n
  <1>13. IsBestFound(t[n].found, AllFound(R), weights, counter)
    BY <1>2, <1>3, <1>4, <1>12, PassEnds
  <1> QED
    BY <1>8, <1>12, <1>13 DEF R, w

-----------------------------------------------------------------------------
(* The order of the answer.                                                *)

\* A score that is not negative and has a place in the key, above the offset of
\* what is more than 0.
Fitting(s) == s \in Nat /\ Round(s) <= Wide \div 2

\* A number is rounded to one more if it is greater by what is rounded to.
LEMMA NextQuotient ==
  ASSUME NEW d \in Nat \ {0}, NEW x \in Nat, NEW y \in Nat, y >= x + d
  PROVE  x \div d \in Nat /\ y \div d \in Nat /\ y \div d > x \div d
  <1> DEFINE p == x \div d
             q == y \div d
             r == x % d
             t == y % d
  <1>1. p \in Nat /\ r \in 0..(d - 1) /\ x = d * p + r
    OBVIOUS
  <1>2. q \in Nat /\ t \in 0..(d - 1) /\ y = d * q + t
    OBVIOUS
  <1> HIDE DEF p, q, r, t
  <1>3. d * q > d * p
    <2>1. d * p \in Int /\ d * q \in Int
      BY <1>1, <1>2
    <2> HIDE <1>1, <1>2
    <2> QED
      BY <1>1, <1>2, <2>1
  <1>4. q > p
    BY <1>1, <1>2, <1>3
  <1> QED
    BY <1>1, <1>2, <1>4 DEF p, q

\* What MakeSortKey makes of a score that is higher by one step of the key is larger.
LEMMA ScoreKeyOrder ==
  ASSUME NEW s, NEW u, Fitting(s), Fitting(u)
  PROVE  ScoreKey(s) \in Nat /\ (s >= u + Grain => ScoreKey(s) > ScoreKey(u))
  <1> DEFINE h == Wide \div 2
             raw(x) == Round(x) + IF x > 0 THEN h - 1 ELSE 0
  <1>1. Wide \in Nat \ {0} /\ h \in Nat /\ 2 * h <= Wide /\ Grain \in Nat \ {0}
    <2>1. Wide \in Nat \ {0} /\ Grain \in Nat \ {0}
      BY RankingAssumption
    <2> QED
      BY <2>1
  <1>2. ScoreKey(s) = raw(s) % Wide /\ ScoreKey(u) = raw(u) % Wide
    BY DEF ScoreKey
  <1>3. /\ s \in Nat /\ u \in Nat /\ Round(s) <= h /\ Round(u) <= h
        /\ Round(s) = (Grain + 2 * s) \div (2 * Grain)
        /\ Round(u) = (Grain + 2 * u) \div (2 * Grain)
    BY DEF Fitting, Round
  <1> HIDE DEF h
  <1>4. ASSUME NEW x \in Nat
        PROVE  /\ (Grain + 2 * x) \div (2 * Grain) \in Nat
               /\ x = 0 => (Grain + 2 * x) \div (2 * Grain) = 0
    <2>1. 2 * Grain \in Nat \ {0} /\ Grain + 2 * x \in Nat /\ (Grain + 2 * x) + 2 * Grain \in Nat
      BY <1>1
    <2>2. (Grain + 2 * x) \div (2 * Grain) \in Nat
      BY <2>1, NextQuotient
    <2>3. ASSUME NEW g \in Nat \ {0} PROVE (g + 2 * 0) \div (2 * g) = 0
      OBVIOUS
    <2> QED
      BY <1>1, <2>2, <2>3
  <1>5. s >= u + Grain => Round(s) > Round(u)
    <2> SUFFICES ASSUME s >= u + Grain PROVE Round(s) > Round(u)
      OBVIOUS
    <2> DEFINE x == Grain + 2 * u
               y == Grain + 2 * s
               d == 2 * Grain
    <2>1. d \in Nat \ {0} /\ x \in Nat /\ y \in Nat /\ y >= x + d
      BY <1>1, <1>3
    <2>2. Round(s) = y \div d /\ Round(u) = x \div d
      BY <1>3
    <2> HIDE DEF x, y, d
    <2> QED
      BY <2>1, <2>2, NextQuotient
  <1>6. Round(s) \in Nat /\ Round(u) \in Nat /\ (s = 0 => Round(s) = 0) /\ (u = 0 => Round(u) = 0)
    BY <1>3, <1>4
  <1>7. CASE h = 0
    <2>1. Round(s) = 0 /\ Round(u) = 0
      BY <1>3, <1>6, <1>7
    <2>2. ~(s >= u + Grain)
      BY <1>5, <2>1
    <2>3. raw(s) \in Int
      BY <1>1, <1>6
    <2> HIDE DEF raw
    <2>4. raw(s) % Wide \in Nat
      BY <1>1, <2>3
    <2> QED
      BY <1>2, <2>2, <2>4
  <1>8. CASE h # 0
    <2>1. /\ raw(s) \in Nat /\ raw(s) < Wide /\ raw(u) \in Nat /\ raw(u) < Wide
          /\ s >= u + Grain => raw(s) > raw(u)
      <3> SUFFICES /\ raw(s) \in Nat /\ raw(s) < Wide /\ raw(u) \in Nat /\ raw(u) < Wide
                   /\ (Round(s) > Round(u) => raw(s) > raw(u))
        BY <1>5
      <3> DEFINE a == Round(s)
                 b == Round(u)
      <3>1. a \in 0..h /\ b \in 0..h /\ (s = 0 => a = 0) /\ (u = 0 => b = 0)
        BY <1>1, <1>3, <1>6
      <3> HIDE DEF a, b
      <3>2. s > 0 \/ s = 0
        BY <1>3
      <3>3. u > 0 \/ u = 0
        BY <1>3
      <3>4. /\ raw(s) = IF s > 0 THEN a + (h - 1) ELSE a
            /\ raw(u) = IF u > 0 THEN b + (h - 1) ELSE b
        BY <1>1, <1>6, <3>1 DEF a, b
      <3> HIDE DEF raw
      <3>5. /\ raw(s) \in Nat /\ raw(s) < Wide /\ raw(u) \in Nat /\ raw(u) < Wide
        BY <1>1, <1>8, <3>1, <3>4
      <3>6. a > b => raw(s) > raw(u)
        BY <1>1, <1>3, <1>8, <3>1, <3>2, <3>3, <3>4
      <3> QED
        BY <3>5, <3>6 DEF a, b
    <2> HIDE DEF raw
    <2>2. raw(s) % Wide = raw(s) /\ raw(u) % Wide = raw(u)
      BY <1>1, <2>1
    <2> QED
      BY <1>2, <2>1, <2>2
  <1> QED
    BY <1>7, <1>8

\* Before is the order of the parts of a key, the largest first.
LEMMA BeforeByParts ==
  ASSUME NEW a, NEW b
  PROVE  Before(a, b) <=> \/ a[1] > b[1]
                          \/ a[1] = b[1] /\ a[2] > b[2]
                          \/ a[1] = b[1] /\ a[2] = b[2] /\ a[3] > b[3]
  <1> DEFINE P(k) == a[k] > b[k] /\ \A l \in 1..(k - 1) : a[l] = b[l]
  <1>1. Before(a, b) <=> P(1) \/ P(2) \/ P(3)
    <2>1. 1..3 = {1, 2, 3}
      OBVIOUS
    <2>2. Before(a, b) <=> \E k \in 1..3 : P(k)
      BY DEF Before
    <2> HIDE DEF P
    <2> QED
      BY <2>1, <2>2
  <1>2. P(1) <=> a[1] > b[1]
    OBVIOUS
  <1>3. P(2) <=> a[2] > b[2] /\ a[1] = b[1]
    <2>1. 1..(2 - 1) = {1}
      OBVIOUS
    <2> QED
      BY <2>1
  <1>4. P(3) <=> a[3] > b[3] /\ a[1] = b[1] /\ a[2] = b[2]
    <2>1. 1..(3 - 1) = {1, 2}
      OBVIOUS
    <2> QED
      BY <2>1
  <1> HIDE DEF P
  <1> QED
    BY <1>1, <1>2, <1>3, <1>4

\* One item goes before another: it weighs more, or its score is rounded to more,
\* or it has the larger id.
Ahead(i, j, weights, score) ==
  \/ weights[i] > weights[j]
  \/ weights[i] = weights[j] /\ ScoreKey(score[i]) > ScoreKey(score[j])
  \/ weights[i] = weights[j] /\ ScoreKey(score[i]) = ScoreKey(score[j]) /\ i > j

\* A score that fits in the key has a number there.
LEMMA ScoreKeyType ==
  ASSUME \A x \in Score : Fitting(x), NEW score \in [Id -> Score], NEW i \in Id
  PROVE  ScoreKey(score[i]) \in Nat
  <1>1. Fitting(score[i])
    OBVIOUS
  <1> QED
    BY <1>1, ScoreKeyOrder

\* The keys of items have their order.
LEMMA BeforeIsAhead ==
  ASSUME Id \subseteq 1..MaxKey, \A x \in Score : Fitting(x), NEW score \in [Id -> Score],
         NEW weights \in [Id -> Nat], NEW i \in Id, NEW j \in Id
  PROVE  Before(SortKey(weights[i], score[i], i), SortKey(weights[j], score[j], j)) <=> Ahead(i, j, weights, score)
  <1>1. i \in 1..MaxKey /\ j \in 1..MaxKey /\ MaxKey \in Nat
    BY RankingAssumption
  <1>2. NumberKey(i) = i /\ NumberKey(j) = j
    BY <1>1, MinOfTwo DEF NumberKey
  <1> DEFINE a == SortKey(weights[i], score[i], i)
             b == SortKey(weights[j], score[j], j)
  <1>8. /\ a[1] = weights[i] /\ a[2] = ScoreKey(score[i]) /\ a[3] = i
        /\ b[1] = weights[j] /\ b[2] = ScoreKey(score[j]) /\ b[3] = j
    BY <1>2 DEF SortKey
  <1> HIDE DEF a, b
  <1>9. Before(a, b) <=> Ahead(i, j, weights, score)
    <2>1. Before(a, b) <=> \/ a[1] > b[1]
                           \/ a[1] = b[1] /\ a[2] > b[2]
                           \/ a[1] = b[1] /\ a[2] = b[2] /\ a[3] > b[3]
      BY BeforeByParts
    <2> QED
      BY <1>8, <2>1 DEF Ahead
  <1> QED
    BY <1>9 DEF a, b

\* That is a strict total order.
LEMMA AheadIsOrder ==
  ASSUME \A x \in Score : Fitting(x), NEW score \in [Id -> Score], NEW weights \in [Id -> Nat],
         NEW i \in Id, NEW j \in Id
  PROVE  /\ i # j => Ahead(i, j, weights, score) \/ Ahead(j, i, weights, score)
         /\ ~Ahead(i, i, weights, score)
         /\ \A k \in Id : Ahead(i, j, weights, score) /\ Ahead(j, k, weights, score) => Ahead(i, k, weights, score)
  <1> DEFINE number(k) == ScoreKey(score[k])
  <1>1. \A k \in Id : k \in Nat /\ number(k) \in Nat /\ weights[k] \in Nat
    BY RankingAssumption, ScoreKeyType
  <1>2. \A k, l \in Id : Ahead(k, l, weights, score) <=>
                           \/ weights[k] > weights[l]
                           \/ weights[k] = weights[l] /\ number(k) > number(l)
                           \/ weights[k] = weights[l] /\ number(k) = number(l) /\ k > l
    BY DEF Ahead
  <1> HIDE DEF number
  <1> QED
    BY <1>1, <1>2

\* All ids of F, one ahead of the next.
IsRanked(all, F, weights, score) ==
  /\ all \in Seq(F) /\ Len(all) = Cardinality(F)
  /\ \A k, l \in 1..Len(all) : k < l => Ahead(all[k], all[l], weights, score)
  /\ \A i \in F : \E k \in 1..Len(all) : all[k] = i

\* The items in the order of their keys.
InOrder(keyed) ==
  LET order == Sorted(keyed, LAMBDA a, b : Before(a.key, b.key))
  IN [k \in 1..Len(order) |-> order[k].id]

\* The order of the keys is the order of the items: no two keys are the same.
LEMMA KeysInOrder ==
  ASSUME Id \subseteq 1..MaxKey, \A x \in Score : Fitting(x), NEW score \in [Id -> Score],
         NEW weights \in [Id -> Nat], NEW F \in SUBSET Id
  PROVE  IsRanked(InOrder(KeyedOf(F, weights, score)), F, weights, score)
  <1> DEFINE K == KeyedOf(F, weights, score)
             key(i) == SortKey(weights[i], score[i], i)
             f == [i \in F |-> [key |-> key(i), id |-> i]]
             IsBefore(x, y) == Before(x.key, y.key)
             R == {p \in K \X K : IsBefore(p[1], p[2])}
             order == Sorted(K, LAMBDA a, b : Before(a.key, b.key))
             n == Cardinality(F)
  <1>1. IsFiniteSet(F) /\ n \in Nat
    BY RankingAssumption, FS_Subset, FS_CardinalityType
  <1>2. ASSUME NEW x \in K PROVE x.id \in F /\ x.id \in Id /\ x.key = key(x.id) /\ x = f[x.id]
    BY DEF KeyedOf
  <1>3. IsFiniteSet(K) /\ Cardinality(K) = n
    <2>1. f \in Surjection(F, K)
      <3>1. f \in [F -> K]
        BY DEF KeyedOf
      <3>2. \A x \in K : \E i \in F : f[i] = x
        BY <1>2
      <3> HIDE DEF f, K
      <3> QED
        BY <3>1, <3>2 DEF Surjection
    <2>2. \A i, j \in F : f[i] = f[j] => i = j
      <3>1. \A i \in F : f[i].id = i
        OBVIOUS
      <3> HIDE DEF f
      <3> QED
        BY <3>1
    <2> HIDE DEF f, K
    <2>3. f \in Bijection(F, K)
      BY <2>1, <2>2 DEF Bijection, Injection, Surjection, IsInjective
    <2>4. ExistsBijection(F, K)
      BY <2>3 DEF ExistsBijection
    <2> QED
      BY <1>1, <2>4, FS_Bijection
  <1>4. ASSUME NEW x \in K, NEW y \in K
        PROVE  IsBefore(x, y) <=> Ahead(x.id, y.id, weights, score)
    <2> DEFINE a == x.id
               b == y.id
    <2>1. a \in Id /\ b \in Id /\ x.key = key(a) /\ y.key = key(b)
      BY <1>2
    <2> HIDE DEF a, b
    <2>2. Before(key(a), key(b)) <=> Ahead(a, b, weights, score)
      BY <2>1, BeforeIsAhead
    <2>3. IsBefore(x, y) <=> Ahead(a, b, weights, score)
      BY <2>1, <2>2
    <2> QED
      BY <2>3 DEF a, b
  <1>6. \A x, y \in K : <<x, y>> \in R <=> Ahead(x.id, y.id, weights, score)
    <2>1. \A x, y \in K : <<x, y>> \in R <=> IsBefore(x, y)
      OBVIOUS
    <2> HIDE DEF IsBefore, R, K
    <2> QED
      BY <1>4, <2>1
  <1>7. \A x, y \in K : x # y => x.id # y.id
    <2> HIDE DEF f, K
    <2> QED
      BY <1>2
  <1>8. order = CHOOSE g \in [1..n -> K] : \A i, j \in DOMAIN g : i < j => IsBefore(g[i], g[j])
    BY <1>3 DEF Sorted
  <1> HIDE DEF K, R, f, key, order, IsBefore, n
  <1>9. \A x, y \in K : x # y => <<x, y>> \in R \/ <<y, x>> \in R
    <2> SUFFICES ASSUME NEW x \in K, NEW y \in K, x # y PROVE <<x, y>> \in R \/ <<y, x>> \in R
      OBVIOUS
    <2> DEFINE a == x.id
               b == y.id
    <2>1. a \in Id /\ b \in Id /\ a # b
      BY <1>2, <1>7
    <2> HIDE DEF a, b
    <2>2. Ahead(a, b, weights, score) \/ Ahead(b, a, weights, score)
      BY <2>1, AheadIsOrder
    <2> QED
      BY <1>6, <2>2 DEF a, b
  <1>10. \A x, y, z \in K : <<x, y>> \in R /\ <<y, z>> \in R => <<x, z>> \in R
    <2> SUFFICES ASSUME NEW x \in K, NEW y \in K, NEW z \in K, <<x, y>> \in R, <<y, z>> \in R
                 PROVE  <<x, z>> \in R
      OBVIOUS
    <2> DEFINE a == x.id
               b == y.id
               c == z.id
    <2>1. a \in Id /\ b \in Id /\ c \in Id /\ Ahead(a, b, weights, score) /\ Ahead(b, c, weights, score)
      BY <1>2, <1>6
    <2> HIDE DEF a, b, c
    <2>2. Ahead(a, c, weights, score)
      BY <2>1, AheadIsOrder
    <2> QED
      BY <1>6, <2>2 DEF a, c
  <1>11. \E g \in [1..n -> K] : \A i, j \in 1..n : i < j => IsBefore(g[i], g[j])
    <2>1. PICK g \in [1..Cardinality(K) -> K] :
             \A i, j \in 1..Cardinality(K) : i < j => <<g[i], g[j]>> \in R
      BY <1>3, <1>9, <1>10, SortedExists
    <2> QED
      BY <1>3, <1>4, <1>6, <2>1
  <1>12. order \in [1..n -> K] /\ \A i, j \in 1..n : i < j => IsBefore(order[i], order[j])
    BY <1>8, <1>11
  <1>13. \A i, j \in 1..n : i < j => Ahead(order[i].id, order[j].id, weights, score)
    BY <1>4, <1>12
  <1>14. \A x \in K : \E k \in 1..n : order[k] = x
    <2>1. \A i, j \in 1..n : i < j => order[i] # order[j]
      <3> SUFFICES ASSUME NEW i \in 1..n, NEW j \in 1..n, i < j, order[i] = order[j] PROVE FALSE
        OBVIOUS
      <3> DEFINE a == order[i].id
      <3>1. a \in Id /\ Ahead(a, a, weights, score)
        BY <1>2, <1>12, <1>13
      <3> HIDE DEF a
      <3> QED
        BY <3>1, AheadIsOrder
    <2>2. order \in [1..Cardinality(K) -> K] /\ \A i, j \in 1..Cardinality(K) : i < j => order[i] # order[j]
      BY <1>3, <1>12, <2>1
    <2>3. \A s \in K : \E i \in 1..Cardinality(K) : order[i] = s
      BY <1>3, <2>2, RowHasAll
    <2> QED
      BY <1>3, <2>3
  <1> DEFINE all == [k \in 1..n |-> order[k].id]
  <1>15. Len(order) = n
    BY <1>1, <1>12
  <1>16. InOrder(K) = all
    BY <1>15 DEF InOrder, order
  <1>17. all \in [1..n -> F] /\ Len(all) = n /\ all \in Seq(F)
    <2>1. \A k \in 1..n : order[k].id \in F
      BY <1>2, <1>12
    <2>2. all \in [1..n -> F]
      BY <2>1
    <2> HIDE DEF all
    <2> QED
      BY <1>1, <2>2
  <1>18. \A i \in F : \E k \in 1..n : all[k] = i
    <2> SUFFICES ASSUME NEW i \in F PROVE \E k \in 1..n : all[k] = i
      OBVIOUS
    <2>1. f[i] \in K /\ f[i].id = i
      BY DEF K, KeyedOf, f, key
    <2>2. PICK k \in 1..n : order[k] = f[i]
      BY <1>14, <2>1
    <2> QED
      BY <2>1, <2>2
  <1>19. \A k, l \in 1..n : k < l => Ahead(all[k], all[l], weights, score)
    BY <1>13
  <1> HIDE DEF all
  <1>20. IsRanked(all, F, weights, score)
    BY <1>17, <1>18, <1>19 DEF IsRanked, n
  <1> QED
    BY <1>16, <1>20 DEF K

-----------------------------------------------------------------------------
(* The answer.                                                             *)

\* The answer is the first counter ids of all that are found, and these are the
\* best of ids.
IsBest(out, ids, weights, score, counter) ==
  LET better(a, b) == weights[a] > weights[b] \/ (weights[a] = weights[b] /\ score[a] >= score[b] + Grain)
  IN /\ out \in Seq(Id) /\ Len(out) = Min({counter, Cardinality(ids)}) /\ NoTwice(out)
     /\ ToSet(out) \subseteq ids
     /\ \A k, l \in DOMAIN out : k < l => ~better(out[l], out[k])
     /\ \A k \in DOMAIN out, id \in ids \ ToSet(out) : ~better(id, out[k])

\* The first ones of all that a pass has found are the best of all items.
LEMMA FirstAreBest ==
  ASSUME \A x \in Score : Fitting(x), NEW score \in [Id -> Score], NEW weights \in [Id -> Nat], NEW F \in SUBSET Id,
         NEW ids \in SUBSET Id, NEW counter \in Nat \ {0}, NEW all, IsRanked(all, F, weights, score),
         IsBestFound(F, ids, weights, counter)
  PROVE  IsBest(SubSeq(all, 1, Min({counter, Len(all)})), ids, weights, score, counter)
  <1> DEFINE m == Min({counter, Len(all)})
             out == SubSeq(all, 1, m)
             better(a, b) == weights[a] > weights[b] \/ (weights[a] = weights[b] /\ score[a] >= score[b] + Grain)
  <1>1. /\ IsFiniteSet(F) /\ Cardinality(F) \in Nat /\ IsFiniteSet(ids) /\ Cardinality(ids) \in Nat
        /\ F \subseteq ids /\ Cardinality(F) <= Cardinality(ids)
    <2>1. F \subseteq ids
      BY DEF IsBestFound
    <2>2. IsFiniteSet(ids)
      BY RankingAssumption, FS_Subset
    <2> QED
      BY <2>1, <2>2, FS_Subset, FS_CardinalityType
  <1>2. /\ all \in Seq(F) /\ all \in Seq(Id) /\ Len(all) = Cardinality(F) /\ Len(all) \in Nat
        /\ \A k, l \in 1..Len(all) : k < l => Ahead(all[k], all[l], weights, score)
        /\ \A i \in F : \E k \in 1..Len(all) : all[k] = i
    BY <1>1 DEF IsRanked
  <1>3. m = (IF counter <= Len(all) THEN counter ELSE Len(all)) /\ m \in 0..Len(all)
    BY <1>2, MinOfTwo
  <1> HIDE DEF m
  <1>4. out \in Seq(Id) /\ Len(out) = m /\ \A k \in 1..m : out[k] = all[k] /\ out[k] \in F
    <2>1. out \in Seq(Id) /\ Len(out) = m /\ \A k \in 1..m : out[k] = all[k]
      BY <1>2, <1>3, FirstOnes
    <2>2. \A k \in 1..m : all[k] \in F
      BY <1>2, <1>3
    <2> QED
      BY <2>1, <2>2
  <1> HIDE DEF out, better
  <1>5. DOMAIN out = 1..m /\ ToSet(out) = {out[k] : k \in 1..m}
    <2>1. DOMAIN out = 1..m
      BY <1>4
    <2> QED
      BY <2>1 DEF ToSet
  <1>6. \A k, l \in 1..Len(all) : k < l => ~better(all[l], all[k]) /\ all[k] # all[l]
    <2> SUFFICES ASSUME NEW k \in 1..Len(all), NEW l \in 1..Len(all), k < l
                 PROVE  ~better(all[l], all[k]) /\ all[k] # all[l]
      OBVIOUS
    <2> DEFINE a == all[k]
               b == all[l]
    <2>1. a \in Id /\ b \in Id /\ Ahead(a, b, weights, score)
      BY <1>2
    <2> HIDE DEF a, b
    <2>2. /\ a \in Nat /\ b \in Nat /\ weights[a] \in Nat /\ weights[b] \in Nat
          /\ ScoreKey(score[a]) \in Nat /\ ScoreKey(score[b]) \in Nat
          /\ score[b] >= score[a] + Grain => ScoreKey(score[b]) > ScoreKey(score[a])
      <3>1. Fitting(score[a]) /\ Fitting(score[b])
        BY <2>1
      <3> QED
        BY <2>1, <3>1, ScoreKeyOrder, RankingAssumption
    <2>3. ~better(b, a) /\ a # b
      BY <2>1, <2>2 DEF Ahead, better
    <2> QED
      BY <2>3 DEF a, b
  <1>7. Len(out) = Min({counter, Cardinality(ids)})
    <2>1. Min({counter, Cardinality(ids)}) = IF counter <= Cardinality(ids) THEN counter ELSE Cardinality(ids)
      BY <1>1, MinOfTwo
    <2>2. F = ids \/ Cardinality(F) >= counter
      BY DEF IsBestFound
    <2> QED
      BY <1>1, <1>2, <1>3, <1>4, <2>1, <2>2
  <1>8. NoTwice(out)
    <2>1. \A k, l \in 1..m : k < l => out[k] # out[l]
      BY <1>3, <1>4, <1>6
    <2>2. \A k, l \in 1..m : k < l \/ l < k \/ k = l
      BY <1>3
    <2>3. Distinct(out)
      BY <1>5, <2>1, <2>2 DEF Distinct
    <2> QED
      BY <1>4, <2>3, DistinctIsCounted
  <1>9. ToSet(out) \subseteq ids
    BY <1>1, <1>4, <1>5
  <1>10. ASSUME NEW k \in DOMAIN out, NEW l \in DOMAIN out, k < l PROVE ~better(out[l], out[k])
    BY <1>3, <1>4, <1>5, <1>6, <1>10
  <1>11. ASSUME NEW k \in DOMAIN out, NEW id \in ids \ ToSet(out) PROVE ~better(id, out[k])
    <2>1. CASE id \in F
      <3>1. PICK l \in 1..Len(all) : all[l] = id
        BY <1>2, <2>1
      <3>2. l \notin 1..m
        BY <1>4, <1>5, <3>1
      <3>3. k < l /\ k \in 1..Len(all) /\ out[k] = all[k]
        BY <1>3, <1>4, <1>5, <3>1, <3>2
      <3> QED
        BY <1>6, <3>1, <3>3
    <2>2. CASE id \notin F
      <3> DEFINE a == out[k]
      <3>1. a \in F
        BY <1>4, <1>5
      <3>2. weights[a] > weights[id]
        BY <2>2, <3>1 DEF IsBestFound
      <3> HIDE DEF a
      <3>3. weights[a] \in Nat /\ weights[id] \in Nat
        BY <3>1
      <3>4. ~better(id, a)
        BY <3>2, <3>3 DEF better
      <3> QED
        BY <3>4 DEF a
    <2> QED
      BY <2>1, <2>2
  <1>12. IsBest(out, ids, weights, score, counter)
    BY <1>4, <1>7, <1>8, <1>9, <1>10, <1>11 DEF IsBest, better
  <1> QED
    BY <1>12 DEF out, m

\* SearchByProfile finds the best of what the rules of one of its passes find.
FindsBest(rules, score, items, counter) ==
  LET second == AllFound(FoundAt(rules, FALSE, score, counter)) = {}
      R == FoundAt(rules, second, score, counter)
      weights == WeightsOf(R, RuleWeights(rules))
  IN \E F : /\ IsBestFound(F, AllFound(R), weights, counter)
            /\ IsRanked(SearchByProfile(rules, score, items), F, weights, score)
            /\ F \in SUBSET Id /\ weights \in [Id -> Nat]

LEMMA SearchFinds ==
  ASSUME Id \subseteq 1..MaxKey, \A x \in Score : Fitting(x), NEW n \in Nat, NEW M, NEW rules \in [1..n -> M],
         \A r \in M : IsRule(r) /\ r.weight \in 0..MaxWeight,
         \A k, l \in 1..n : k < l => rules[k].weight >= rules[l].weight,
         NEW score \in [Id -> Score], NEW items \in Nat, NEW counter, counter = KeepInBound(items, 1, 100)
  PROVE  FindsBest(rules, score, items, counter)
  <1> DEFINE zero == [found |-> {}, keyed |-> {}, weight |-> 0, stopped |-> FALSE]
             first == Pass(zero, rules, FALSE, score, counter)
             last == IF first.found = {} THEN Pass(first, rules, TRUE, score, counter) ELSE first
             R(b) == FoundAt(rules, b, score, counter)
             weights(b) == WeightsOf(R(b), RuleWeights(rules))
             second == AllFound(R(FALSE)) = {}
  <1>1. counter \in Nat \ {0} /\ Score \subseteq Int
    <2>1. KeepInBound(items, 1, 100) \in 1..100
      BY BoundIsKept, 100 \in Nat \ {0}
    <2>2. counter \in Nat \ {0}
      <3>1. counter \in 1..100
        BY <2>1, Zenon
      <3>2. \A x \in 1..100 : x \in Nat \ {0}
        OBVIOUS
      <3> QED
        BY <3>1, <3>2, Zenon
    <2>3. Score \subseteq Int
      BY DEF Fitting
    <2> QED
      BY <2>2, <2>3
  <1>2. zero \in States /\ zero.found = {} /\ zero.keyed = {}
    <2> DEFINE Keyed == SUBSET [key : {SortKey(v, s, j) : v \in Nat, s \in Score, j \in Id}, id : Id]
    <2>1. {} \in Keyed
      OBVIOUS
    <2>2. States = [found : SUBSET Id, keyed : Keyed, weight : Nat, stopped : BOOLEAN]
      BY DEF States
    <2> HIDE DEF Keyed
    <2> QED
      BY <2>1, <2>2
  <1>3. SearchByProfile(rules, score, items) = InOrder(last.keyed)
    BY DEF SearchByProfile, InOrder
  <1> HIDE DEF zero
  <1>4. Fits(first, weights(FALSE), score) /\ IsBestFound(first.found, AllFound(R(FALSE)), weights(FALSE), counter)
    BY <1>1, <1>2, PassFinds
  <1> HIDE DEF first, R, weights
  <1>5. first.found = {} <=> second
    <2>1. Cardinality({}) = 0
      BY FS_EmptySet
    <2>2. /\ first.found \subseteq AllFound(R(FALSE))
          /\ first.found = AllFound(R(FALSE)) \/ Cardinality(first.found) >= counter
      BY <1>4 DEF IsBestFound
    <2>3. ASSUME first.found = {} PROVE AllFound(R(FALSE)) = {}
      <3>1. Cardinality(first.found) = 0
        BY <2>1, <2>3, Zenon
      <3>2. ~(Cardinality(first.found) >= counter)
        BY <1>1, <3>1
      <3> QED
        BY <2>2, <2>3, <3>2
    <2>4. ASSUME AllFound(R(FALSE)) = {} PROVE first.found = {}
      BY <2>2, <2>4
    <2> QED
      BY <2>3, <2>4
  <1>6. Fits(last, weights(second), score) /\ IsBestFound(last.found, AllFound(R(second)), weights(second), counter)
    <2>1. CASE first.found # {}
      <3>1. second = FALSE /\ last = first
        BY <1>5, <2>1
      <3> HIDE DEF last, second
      <3> QED
        BY <1>4, <3>1
    <2>2. CASE first.found = {}
      <3>1. second = TRUE /\ last = Pass(first, rules, TRUE, score, counter)
        BY <1>5, <2>2
      <3>2. first \in States /\ first.keyed = {}
        BY <1>4, <2>2 DEF Fits, KeyedOf
      <3>3. /\ Fits(Pass(first, rules, TRUE, score, counter), weights(TRUE), score)
            /\ IsBestFound(Pass(first, rules, TRUE, score, counter).found, AllFound(R(TRUE)), weights(TRUE), counter)
        BY <1>1, <2>2, <3>2, PassFinds DEF R, weights
      <3> HIDE DEF last, second
      <3> QED
        BY <3>1, <3>3
    <2> QED
      BY <2>1, <2>2
  <1>7. weights(second) \in [Id -> Nat]
    BY <1>1, FoundType DEF R, weights
  <1> HIDE DEF last, second
  <1> DEFINE F == last.found
  <1>8. F \in SUBSET Id /\ last.keyed = KeyedOf(F, weights(second), score)
    BY <1>6 DEF Fits, States
  <1> HIDE DEF F
  <1>9. IsRanked(InOrder(last.keyed), F, weights(second), score)
    BY <1>7, <1>8, KeysInOrder
  <1>10. IsBestFound(F, AllFound(R(second)), weights(second), counter)
    BY <1>6 DEF F
  <1> QED
    BY <1>3, <1>7, <1>8, <1>9, <1>10 DEF R, weights, second, FindsBest

\* The rules with what they find.
PairsOf(s, R) == UNION {{<<s[k], i>> : i \in R[k]} : k \in DOMAIN s}

\* That is what FoundBy has.
LEMMA FoundByRules ==
  ASSUME Score \subseteq Int, NEW n \in Nat, NEW M, NEW s \in [1..n -> M], \A r \in M : IsRule(r),
         ToSet(s) = ToSet(input.rules), NEW second \in BOOLEAN,
         FoundAt(s, second, input.score, Wanted) \in [1..n -> SUBSET Id]
  PROVE  FoundBy(second) = PairsOf(s, FoundAt(s, second, input.score, Wanted))
  <1> DEFINE Found(r) == ToSet(RuleSearch(r, second, input.score, Wanted))
             R == FoundAt(s, second, input.score, Wanted)
             pairs == UNION {{<<s[k], i>> : i \in R[k]} : k \in 1..n}
  <1>1. DOMAIN s = 1..n /\ ToSet(s) = {s[k] : k \in 1..n}
    BY DEF ToSet
  <1>2. \A k \in 1..n : R[k] = Found(s[k])
    BY <1>1 DEF FoundAt
  <1>3. FoundBy(second) = {f \in ToSet(s) \X Id : f[2] \in Found(f[1])}
    BY DEF FoundBy
  <1>6. R \in [1..n -> SUBSET Id]
    OBVIOUS
  <1> HIDE DEF Found, R
  <1>4. ASSUME NEW f \in pairs PROVE f \in FoundBy(second)
    <2>0. PICK k \in 1..n : f \in {<<s[k], i>> : i \in R[k]}
      BY <1>4
    <2>1. PICK i \in R[k] : f = <<s[k], i>>
      BY <2>0
    <2>2. f[1] = s[k] /\ f[2] = i /\ s[k] \in ToSet(s) /\ i \in Id /\ i \in Found(s[k])
      BY <1>1, <1>2, <1>6, <2>1
    <2> QED
      BY <1>3, <2>1, <2>2
  <1>5. ASSUME NEW f \in FoundBy(second) PROVE f \in pairs
    <2>1. f[1] \in ToSet(s) /\ f[2] \in Found(f[1]) /\ f = <<f[1], f[2]>>
      BY <1>3
    <2>2. PICK k \in 1..n : f[1] = s[k]
      BY <1>1, <2>1
    <2>3. f[2] \in R[k]
      BY <1>2, <2>1, <2>2
    <2> QED
      BY <2>1, <2>2, <2>3
  <1> QED
    BY <1>1, <1>4, <1>5 DEF PairsOf, R

\* BestFirst reads the ids and the weights from the pairs.
Agrees(found, s, R) ==
  /\ {f[2] : f \in found} = AllFound(R)
  /\ found = {} <=> AllFound(R) = {}
  /\ \A i \in AllFound(R) :
       Max({f[1].weight : f \in {g \in found : g[2] = i}}) = WeightsOf(R, RuleWeights(s))[i]

LEMMA PairsAgree ==
  ASSUME NEW n \in Nat, NEW M, NEW s \in [1..n -> M], NEW R \in [1..n -> SUBSET Id]
  PROVE  Agrees(PairsOf(s, R), s, R)
  <1> DEFINE found == PairsOf(s, R)
             P(k) == {<<s[k], i>> : i \in R[k]}
  <1>0. found = UNION {P(k) : k \in 1..n}
    BY DEF PairsOf
  <1>1. \A k \in 1..n : \A i \in R[k] : <<s[k], i>> \in found /\ <<s[k], i>>[1] = s[k] /\ <<s[k], i>>[2] = i
    <2> SUFFICES ASSUME NEW k \in 1..n, NEW i \in R[k] PROVE <<s[k], i>> \in found
      OBVIOUS
    <2>1. <<s[k], i>> \in P(k)
      OBVIOUS
    <2> HIDE DEF P, found
    <2> QED
      BY <1>0, <2>1
  <1>2. \A f \in found : \E k \in 1..n : \E i \in R[k] : f = <<s[k], i>> /\ f[1] = s[k] /\ f[2] = i
    <2> SUFFICES ASSUME NEW f \in found
                 PROVE  \E k \in 1..n : \E i \in R[k] : f = <<s[k], i>> /\ f[1] = s[k] /\ f[2] = i
      OBVIOUS
    <2>1. PICK k \in 1..n : f \in P(k)
      <3> HIDE DEF P, found
      <3> QED
        BY <1>0
    <2>2. PICK i \in R[k] : f = <<s[k], i>>
      BY <2>1
    <2> QED
      BY <2>2
  <1> HIDE DEF P, found
  <1>3. \A i : i \in AllFound(R) <=> \E k \in 1..n : i \in R[k]
    BY DEF AllFound
  <1>4. {f[2] : f \in found} = AllFound(R)
    <2>1. ASSUME NEW i \in AllFound(R) PROVE i \in {f[2] : f \in found}
      <3>1. PICK k \in 1..n : i \in R[k]
        BY <1>3
      <3> DEFINE f == <<s[k], i>>
      <3>2. f \in found /\ f[2] = i
        BY <1>1, <3>1
      <3> HIDE DEF f
      <3> QED
        BY <3>2
    <2>2. ASSUME NEW f \in found PROVE f[2] \in AllFound(R)
      BY <1>2, <1>3
    <2> QED
      BY <2>1, <2>2
  <1>5. ASSUME NEW i \in AllFound(R)
        PROVE  Max({f[1].weight : f \in {g \in found : g[2] = i}}) = WeightsOf(R, RuleWeights(s))[i]
    <2> DEFINE A == {f[1].weight : f \in {g \in found : g[2] = i}}
               B == {RuleWeights(s)[k] : k \in Finders(R, i)}
    <2>1. Finders(R, i) = {k \in 1..n : i \in R[k]} /\ \A k \in 1..n : RuleWeights(s)[k] = s[k].weight
      BY DEF Finders, RuleWeights
    <2>2. ASSUME NEW x \in A PROVE x \in B
      <3>1. PICK f \in found : f[2] = i /\ x = f[1].weight
        BY <2>2
      <3>2. PICK k \in 1..n : i \in R[k] /\ f[1] = s[k]
        BY <1>2, <3>1
      <3> QED
        BY <2>1, <3>1, <3>2
    <2>3. ASSUME NEW x \in B PROVE x \in A
      <3>1. PICK k \in 1..n : i \in R[k] /\ x = s[k].weight
        BY <2>1, <2>3
      <3> DEFINE f == <<s[k], i>>
      <3>2. f \in found /\ f[1] = s[k] /\ f[2] = i
        BY <1>1, <3>1
      <3> HIDE DEF f
      <3> QED
        BY <3>1, <3>2
    <2>4. A = B
      BY <2>2, <2>3
    <2>5. Finders(R, i) # {} /\ i \in Id
      BY <1>3, <2>1
    <2>6. WeightsOf(R, RuleWeights(s))[i] = Max(B)
      <3> HIDE DEF A
      <3> QED
        BY <2>5 DEF WeightsOf
    <2> HIDE DEF B
    <2> QED
      BY <2>4, <2>6
  <1>6. found = {} <=> AllFound(R) = {}
    <2>1. ASSUME NEW f \in found PROVE AllFound(R) # {}
      BY <1>4
    <2>2. ASSUME NEW i \in AllFound(R) PROVE found # {}
      BY <1>4
    <2> QED
      BY <2>1, <2>2
  <1> QED
    BY <1>4, <1>5, <1>6 DEF Agrees, found

\* The rules of a profile are rules, whatever they match.
LEMMA RulesOfProfile ==
  ASSUME NEW M, M = AsTyped \/ M = Corrected
  PROVE  \A r \in Rule(M) : IsRule(r) /\ r.weight \in 0..MaxWeight
  <1> SUFFICES ASSUME NEW r \in Rule(M) PROVE IsRule(r) /\ r.weight \in 0..MaxWeight
    OBVIOUS
  <1>1. r.weight \in 0..MaxWeight /\ r.max_records \in 0..MaxItems /\ r.matched \in M
    BY DEF Rule
  <1>2. M \subseteq [BOOLEAN -> SUBSET Id]
    BY DEF AsTyped, Corrected
  <1>3. r.matched \in [BOOLEAN -> SUBSET Id]
    BY <1>1, <1>2
  <1>4. \A b \in BOOLEAN : r.matched[b] \subseteq Id
    BY <1>3
  <1>5. MaxWeight \in Nat /\ MaxItems \in Nat
    BY RankingAssumption, DataFunctionsAssumption
  <1> QED
    BY <1>1, <1>4, <1>5 DEF IsRule

\* SearchByProfile leaves rules out, and the keys of the map are numbers made of
\* the weight, the rounded score and the id; yet of all that the rules find no item
\* goes behind, or is left out for, one that weighs less or weighs the same with a
\* score that is lower by the step of the key or more, for every set of items, rules
\* and scores, as long as ids are not larger than MaxKey and scores not negative and
\* not beyond the number of the key.  (With negative scores it does.)
THEOREM SpecBestFirst ==
  ASSUME Id \subseteq 1..MaxKey, \A x \in Score : Fitting(x)
  PROVE  Spec => []BestFirst
  <1>1. ASSUME Answered, Done("search") PROVE BestFirst
    <2> DEFINE s == SortRules(input.rules)
               score == input.score
               counter == Wanted
               R(b) == FoundAt(s, b, score, counter)
               second == AllFound(R(FALSE)) = {}
               weights == WeightsOf(R(second), RuleWeights(s))
               ids == AllFound(R(second))
               pairs(b) == PairsOf(s, R(b))
               found == IF FoundBy(FALSE) = {} THEN FoundBy(TRUE) ELSE FoundBy(FALSE)
               out == result[1]
    <2>1. input \in SearchInputs /\ out = Answer(s, score, input.items)
      BY <1>1 DEF Answered, Done
    <2>2. score \in [Id -> Score] /\ input.items \in Nat
      BY <2>1, DataFunctionsAssumption DEF SearchInputs
    <2>3. PICK M : (M = AsTyped \/ M = Corrected) /\ input.rules \in UpTo(MaxRules, Rule(M))
      BY <2>1 DEF SearchInputs
    <2>4. PICK n \in 0..MaxRules : input.rules \in [1..n -> Rule(M)]
      BY <2>3 DEF UpTo
    <2>5. \A r \in Rule(M) : IsRule(r) /\ r.weight \in 0..MaxWeight
      BY <2>3, RulesOfProfile
    <2>6. /\ s \in [1..n -> Rule(M)] /\ ToSet(s) = ToSet(input.rules)
          /\ \A k, l \in 1..n : k < l => s[k].weight >= s[l].weight
      BY <2>4, RulesAreSorted
    <2>7. counter = KeepInBound(input.items, 1, 100) /\ counter \in Nat \ {0} /\ n \in Nat
      <3>1. KeepInBound(input.items, 1, 100) \in 1..100
        BY <2>2, BoundIsKept, 100 \in Nat \ {0}
      <3>2. \A x \in 1..100 : x \in Nat \ {0}
        OBVIOUS
      <3>3. n \in Nat
        BY RankingAssumption
      <3> QED
        BY <3>1, <3>2, <3>3 DEF Wanted
    <2>8. Score \subseteq Int
      BY DEF Fitting
    <2> HIDE DEF s, score, counter
    <2>9. \A b \in BOOLEAN : R(b) \in [1..n -> SUBSET Id]
      BY <2>2, <2>5, <2>6, <2>7, <2>8, FoundType
    <2>10. PICK F : /\ IsBestFound(F, ids, weights, counter)
                    /\ IsRanked(SearchByProfile(s, score, input.items), F, weights, score)
                    /\ F \in SUBSET Id /\ weights \in [Id -> Nat]
      <3>1. FindsBest(s, score, input.items, counter)
        BY <2>2, <2>5, <2>6, <2>7, SearchFinds
      <3> QED
        BY <3>1 DEF FindsBest
    <2>11. \A b \in BOOLEAN : FoundBy(b) = pairs(b) /\ Agrees(pairs(b), s, R(b))
      <3> SUFFICES ASSUME NEW b \in BOOLEAN PROVE FoundBy(b) = pairs(b) /\ Agrees(pairs(b), s, R(b))
        OBVIOUS
      <3>1. R(b) \in [1..n -> SUBSET Id]
        BY <2>9
      <3>2. FoundBy(b) = pairs(b)
        <4>1. \A r \in Rule(M) : IsRule(r)
          BY <2>5
        <4>2. FoundAt(s, b, input.score, Wanted) \in [1..n -> SUBSET Id]
          BY <3>1 DEF score, counter
        <4>3. s \in [1..n -> Rule(M)] /\ ToSet(s) = ToSet(input.rules)
          BY <2>6
        <4>4. FoundBy(b) = PairsOf(s, FoundAt(s, b, input.score, Wanted))
          BY <2>7, <2>8, <4>1, <4>2, <4>3, FoundByRules
        <4> QED
          BY <4>4 DEF score, counter
      <3> HIDE DEF R
      <3>3. Agrees(pairs(b), s, R(b))
        BY <2>6, <2>7, <3>1, PairsAgree
      <3> QED
        BY <3>2, <3>3
    <2> HIDE DEF R, pairs
    <2>12. FoundBy(FALSE) = {} <=> second
      BY <2>11 DEF Agrees
    <2>13. second \in BOOLEAN /\ found = FoundBy(second)
      BY <2>12
    <2> HIDE DEF second, found, ids, weights
    <2>14. Agrees(found, s, R(second)) /\ R(second) \in [1..n -> SUBSET Id]
      BY <2>9, <2>11, <2>13
    <2>15. {f[2] : f \in found} = ids
      BY <2>14 DEF Agrees, ids
    <2>16. \A i \in ids : Max({f[1].weight : f \in {g \in found : g[2] = i}}) = weights[i]
      BY <2>14 DEF Agrees, ids, weights
    <2>17. ids \in SUBSET Id
      BY <2>14 DEF ids, AllFound
    <2> DEFINE all == SearchByProfile(s, score, input.items)
    <2>18. out = SubSeq(all, 1, Min({counter, Len(all)}))
      BY <2>1, <2>7 DEF Answer
    <2> HIDE DEF all, out
    <2>19. IsBest(out, ids, weights, score, counter)
      BY <2>2, <2>7, <2>8, <2>10, <2>17, <2>18, FirstAreBest DEF all
    <2> DEFINE weight(i) == Max({f[1].weight : f \in {g \in found : g[2] = i}})
               better(a, b) == \/ weight(a) > weight(b)
                               \/ weight(a) = weight(b) /\ score[a] >= score[b] + Grain
    <2>20. \A k \in DOMAIN out : out[k] \in ids
      BY <2>19 DEF IsBest, ToSet
    <2>21. \A a, b \in ids : better(a, b) <=> (weights[a] > weights[b] \/ (weights[a] = weights[b] /\ score[a] >= score[b] + Grain))
      BY <2>16
    <2> HIDE DEF better
    <2>22. \A k, l \in DOMAIN out : k < l => ~better(out[l], out[k])
      BY <2>19, <2>20, <2>21 DEF IsBest
    <2>23. \A k \in DOMAIN out, id \in ids \ ToSet(out) : ~better(id, out[k])
      BY <2>19, <2>20, <2>21 DEF IsBest
    <2>24. Len(out) = Min({counter, Cardinality(ids)}) /\ NoTwice(out) /\ ToSet(out) \subseteq ids
      BY <2>19 DEF IsBest
    <2> QED
      BY <2>15, <2>22, <2>23, <2>24 DEF BestFirst, BestBy, better, found, out, counter, score
  <1>2. Answered => BestFirst
    BY <1>1 DEF BestFirst, BestBy
  <1> QED
    BY <1>2, SpecAnswered, PTL
==============================================================================
