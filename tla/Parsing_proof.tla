----------------------------- MODULE Parsing_proof -----------------------------
(***************************************************************************)
(* What the parsers of Parsing answer, for structs and arrays of any size. *)
(* The fold of the semigroup and the order of an array are data of any     *)
(* length: facts about them are proved by looking at a smallest exception, *)
(* which LeastNatural gives.                                               *)
(***************************************************************************)
EXTENDS Parsing, FiniteSetTheorems, WellFoundedInduction, TLAPS

-----------------------------------------------------------------------------
(* Lemmas about numbers and sets of numbers.                               *)

LEMMA LeastNatural ==
  ASSUME NEW T \in SUBSET Nat, T # {}
  PROVE  \E m \in T : \A k \in T : m <= k
<1> DEFINE Less == OpToRel(<, Nat)
<1>1. IsWellFoundedOn(Less, Nat)
  BY NatLessThanWellFounded
<1>2. \A k, m \in Nat : k < m => <<k, m>> \in Less
  BY DEF OpToRel
<1> HIDE DEF Less
<1>3. PICK m \in T : \A k \in T : ~ (<<k, m>> \in Less)
  BY <1>1, WFMin
<1>4. ASSUME NEW k \in T PROVE m <= k
  <2>1. k \in Nat /\ m \in Nat /\ ~ (k < m)
    BY <1>2, <1>3
  <2> QED
    BY <2>1
<1> QED
  BY <1>4

\* A set of naturals that has 0, and the next of each it has, has them all.
LEMMA EveryNatural ==
  ASSUME NEW T, 0 \in T, \A n \in Nat : n \in T => n + 1 \in T
  PROVE  Nat \subseteq T
<1> SUFFICES ASSUME Nat \ T # {} PROVE FALSE
  OBVIOUS
<1>1. PICK m \in Nat \ T : \A k \in Nat \ T : m <= k
  BY LeastNatural
<1>2. m # 0 /\ m - 1 \in Nat /\ m - 1 \notin Nat \ T
  BY <1>1
<1> QED
  BY <1>2

LEMMA MinIs ==
  ASSUME NEW T \in SUBSET Nat, T # {}
  PROVE  Min(T) \in T /\ \A k \in T : Min(T) <= k
BY LeastNatural DEF Min

LEMMA MaxIs ==
  ASSUME NEW n \in Nat, NEW T \in SUBSET (1 .. n), T # {}
  PROVE  Max(T) \in T /\ \A k \in T : k <= Max(T)
<1> DEFINE D == {j \in Nat : n - j \in T}
<1>1. \A k \in T : n - k \in D
  <2> SUFFICES ASSUME NEW k \in T PROVE n - k \in D
    OBVIOUS
  <2>1. k \in 1 .. n /\ n - (n - k) = k
    OBVIOUS
  <2> QED
    BY <2>1
<1>2. D \in SUBSET Nat /\ D # {}
  BY <1>1
<1>3. PICK d \in D : \A e \in D : d <= e
  BY <1>2, LeastNatural
<1>4. n - d \in T /\ \A k \in T : n - d >= k
  <2>1. \A k \in T : d <= n - k
    BY <1>1, <1>3
  <2> QED
    BY <2>1
<1> QED
  BY <1>4 DEF Max

-----------------------------------------------------------------------------
(* The errors of a struct.                                                 *)

\* The dictionary of the errors of some keys.
Errors(struct, K) == [k \in K |-> struct[k].error]

LEMMA AddError ==
  ASSUME NEW struct, NEW K, NEW k
  PROVE  Spread(Errors(struct, K), Errors(struct, {k})) = Errors(struct, K \cup {k})
BY DEF Errors, Spread

\* The equation of a fold of Concat over a sequence, and that the fold is the
\* only function that solves it.
IsFold(f, base, seq) ==
  f = [s \in SUBSET DOMAIN seq |-> IF s = {} THEN base
         ELSE Concat(f[s \ {Max(s)}], seq[Max(s)])]

LEMMA FoldIs ==
  ASSUME NEW seq, NEW base, NEW solution, IsFold(solution, base, seq),
         \A other : IsFold(other, base, seq) => other = solution
  PROVE  FoldLeft(Concat, base, seq) = solution[DOMAIN seq]
BY DEF FoldLeft, MapThenFoldSet, IsFold

\* A key, then m others, with their errors, and all of them.
Keyed(struct, m, first, later, rest, all) ==
  /\ m \in Nat /\ DOMAIN rest = 1 .. m /\ first # MutualKey
  /\ \A i \in 1 .. m : later[i] # MutualKey /\ rest[i] = <<later[i], struct[later[i]].error>>
  /\ \A k : k \in all <=> k = first \/ \E i \in 1 .. m : later[i] = k

\* The fold of Concat puts every error under its key, and leaves a lone one
\* with its key beside it.
LEMMA FoldOfErrors ==
  ASSUME NEW struct, NEW m, NEW first, NEW keys, NEW rest, NEW all,
         Keyed(struct, m, first, keys, rest, all)
  PROVE  FoldLeft(Concat, <<first, struct[first].error>>, rest) =
           IF m = 0 THEN <<first, struct[first].error>>
           ELSE <<MutualKey, Dict(Errors(struct, all))>>
<1>0. /\ m \in Nat /\ DOMAIN rest = 1 .. m /\ first # MutualKey
      /\ \A i \in 1 .. m : keys[i] # MutualKey /\ rest[i] = <<keys[i], struct[keys[i]].error>>
  BY DEF Keyed
<1> USE <1>0
<1> DEFINE base == <<first, struct[first].error>>
           K(s) == {first} \cup {keys[i] : i \in s}
           solution == [s \in SUBSET (1 .. m) |->
                          IF s = {} THEN base ELSE <<MutualKey, Dict(Errors(struct, K(s)))>>]
<1>1. \A s \in SUBSET (1 .. m) : StructErr(solution[s]) = Errors(struct, K(s))
  <2> SUFFICES ASSUME NEW s \in SUBSET (1 .. m)
               PROVE  StructErr(solution[s]) = Errors(struct, K(s))
    OBVIOUS
  <2>1. CASE s = {}
    <3>1. solution[s] = base /\ K(s) = {first}
      BY <2>1
    <3>2. StructErr(base) = Errors(struct, {first})
      BY DEF StructErr, Errors
    <3> QED
      BY <3>1, <3>2
  <2>2. CASE s # {}
    <3>1. solution[s] = <<MutualKey, Dict(Errors(struct, K(s)))>>
      BY <2>2
    <3> QED
      BY <3>1 DEF StructErr, Dict
  <2> QED
    BY <2>1, <2>2
<1>2. \A s \in SUBSET (1 .. m) : \A i \in s :
        Concat(solution[s \ {i}], rest[i]) = <<MutualKey, Dict(Errors(struct, K(s)))>>
  <2> SUFFICES ASSUME NEW s \in SUBSET (1 .. m), NEW i \in s
               PROVE  Concat(solution[s \ {i}], rest[i]) = <<MutualKey, Dict(Errors(struct, K(s)))>>
    OBVIOUS
  <2>1. StructErr(solution[s \ {i}]) = Errors(struct, K(s \ {i}))
    BY <1>1
  <2>2. StructErr(rest[i]) = Errors(struct, {keys[i]})
    <3>1. keys[i] # MutualKey /\ rest[i] = <<keys[i], struct[keys[i]].error>>
      OBVIOUS
    <3> QED
      BY <3>1 DEF StructErr, Errors
  <2>3. K(s \ {i}) \cup {keys[i]} = K(s)
    OBVIOUS
  <2>4. Spread(Errors(struct, K(s \ {i})), Errors(struct, {keys[i]})) = Errors(struct, K(s))
    <3>1. Spread(Errors(struct, K(s \ {i})), Errors(struct, {keys[i]}))
            = Errors(struct, K(s \ {i}) \cup {keys[i]})
      <4> DEFINE others == K(s \ {i})
                 key == keys[i]
      <4> HIDE DEF others, key
      <4>1. Spread(Errors(struct, others), Errors(struct, {key})) = Errors(struct, others \cup {key})
        BY AddError
      <4> QED
        BY <4>1 DEF others, key
    <3> QED
      BY <2>3, <3>1
  <2> HIDE DEF solution, K
  <2> QED
    BY <2>1, <2>2, <2>4 DEF Concat
<1>3. \A s \in SUBSET (1 .. m) : s # {} => Max(s) \in s
  BY MaxIs
<1>4. IsFold(solution, base, rest)
  <2> SUFFICES ASSUME NEW s \in SUBSET (1 .. m), s # {}
               PROVE  solution[s] = Concat(solution[s \ {Max(s)}], rest[Max(s)])
    BY DEF IsFold
  <2> HIDE DEF solution
  <2>1. Concat(solution[s \ {Max(s)}], rest[Max(s)]) = <<MutualKey, Dict(Errors(struct, K(s)))>>
    BY <1>2, <1>3
  <2> QED
    BY <2>1 DEF solution
<1>5. ASSUME NEW other, IsFold(other, base, rest) PROVE other = solution
  <2> DEFINE Agree == {n \in Nat : \A s \in SUBSET (1 .. m) : s \subseteq 1 .. n => other[s] = solution[s]}
  <2>1. 0 \in Agree
    <3> SUFFICES ASSUME NEW s \in SUBSET (1 .. m), s \subseteq 1 .. 0 PROVE other[s] = solution[s]
      OBVIOUS
    <3>1. s = {}
      OBVIOUS
    <3> QED
      BY <1>5, <3>1 DEF IsFold
  <2>2. ASSUME NEW n \in Nat, n \in Agree PROVE n + 1 \in Agree
    <3>1. other[{}] = solution[{}]
      BY <2>1
    <3>2. ASSUME NEW s \in SUBSET (1 .. m), s \subseteq 1 .. (n + 1), s # {}
          PROVE  other[s] = solution[s]
      <4>1. Max(s) \in s /\ \A k \in s : k <= Max(s)
        BY <3>2, MaxIs
      <4>2. s \ {Max(s)} \subseteq 1 .. n
        <5> SUFFICES ASSUME NEW k \in s, k # Max(s) PROVE k \in 1 .. n
          OBVIOUS
        <5>1. k \in 1 .. (n + 1) /\ Max(s) \in 1 .. (n + 1) /\ k <= Max(s)
          BY <3>2, <4>1
        <5> QED
          BY <5>1
      <4>3. other[s \ {Max(s)}] = solution[s \ {Max(s)}]
        BY <2>2, <4>2
      <4>4. other[s] = Concat(other[s \ {Max(s)}], rest[Max(s)])
        BY <1>5, <3>2 DEF IsFold
      <4>5. solution[s] = Concat(solution[s \ {Max(s)}], rest[Max(s)])
        <5> HIDE DEF solution
        <5> QED
          BY <1>4, <3>2 DEF IsFold
      <4> QED
        BY <4>3, <4>4, <4>5
    <3>3. \A s \in SUBSET (1 .. m) : s \subseteq 1 .. (n + 1) => other[s] = solution[s]
      <4> HIDE DEF solution, Agree
      <4> QED
        BY <3>1, <3>2
    <3>4. n + 1 \in Nat
      OBVIOUS
    <3> DEFINE Same(k) == \A s \in SUBSET (1 .. m) : s \subseteq 1 .. k => other[s] = solution[s]
    <3>5. Same(n + 1) /\ Agree = {k \in Nat : Same(k)}
      BY <3>3
    <3> HIDE DEF Same, Agree
    <3> QED
      BY <3>4, <3>5
  <2>3. m \in Agree
    <3> HIDE DEF Agree
    <3> QED
      BY <2>1, <2>2, EveryNatural
  <2>4. \A s \in SUBSET (1 .. m) : other[s] = solution[s]
    BY <2>3
  <2> QED
    BY <1>5, <2>4 DEF IsFold
<1>6. FoldLeft(Concat, base, rest) = solution[1 .. m]
  <2> HIDE DEF solution, base
  <2> QED
    BY <1>4, <1>5, FoldIs
<1>7. 1 .. m = {} <=> m = 0
  OBVIOUS
<1>8. K(1 .. m) = all
  BY DEF Keyed
<1> QED
  BY <1>6, <1>7, <1>8

LEMMA SetToSeqIs ==
  ASSUME NEW S, IsFiniteSet(S)
  PROVE  /\ Cardinality(S) \in Nat
         /\ SetToSeq(S) \in [1 .. Cardinality(S) -> S]
         /\ \A i, j \in 1 .. Cardinality(S) : SetToSeq(S)[i] = SetToSeq(S)[j] => i = j
         /\ \A k \in S : \E i \in 1 .. Cardinality(S) : SetToSeq(S)[i] = k
<1> DEFINE n == Cardinality(S)
           f == SetToSeq(S)
<1>1. n \in Nat /\ ExistsBijection(1 .. n, S)
  BY FS_CardinalityType
<1>2. PICK g : g \in [1 .. n -> S] /\ IsInjective(g)
  BY <1>1 DEF ExistsBijection, Bijection, Injection
<1>3. f \in [1 .. n -> S] /\ IsInjective(f)
  BY <1>2 DEF SetToSeq
<1> HIDE DEF f
<1>4. f \in Injection(1 .. n, S)
  BY <1>3 DEF Injection
<1>5. Cardinality(1 .. n) = n
  <2>1. Cardinality(1 .. n) = IF 1 > n THEN 0 ELSE n - 1 + 1
    BY <1>1, FS_Interval
  <2> QED
    BY <1>1, <2>1
<1>6. f \in Surjection(1 .. n, S)
  BY <1>4, <1>5, FS_Injection
<1>7. \A k \in S : \E i \in 1 .. n : f[i] = k
  BY <1>6 DEF Surjection
<1>8. \A i, j \in 1 .. n : f[i] = f[j] => i = j
  BY <1>3 DEF IsInjective
<1> QED
  BY <1>1, <1>3, <1>7, <1>8 DEF f

\* structSummarizerParsing answers all values, or what Summary says of the
\* errors: every one under its field when two or more fail, and the lone one as it
\* is, however many fields there are and in whichever order they are visited.
THEOREM SummaryIsComplete ==
  ASSUME NEW struct, IsFiniteSet(DOMAIN struct), MutualKey \notin DOMAIN struct
  PROVE  StructSummarizerParsing(struct) =
           IF Failing(struct) = {} THEN Right([k \in DOMAIN struct |-> struct[k].value])
           ELSE Left(Summary(struct))
<1>1. CASE Failing(struct) = {}
  BY <1>1 DEF StructSummarizerParsing
<1>2. CASE Failing(struct) # {}
  <2> DEFINE F == Failing(struct)
             n == Cardinality(F)
             keys == SetToSeq(F)
             keyed == [i \in DOMAIN keys |-> <<keys[i], struct[keys[i]].error>>]
             first == keys[1]
             later == [i \in 1 .. n - 1 |-> keys[i + 1]]
  <2>1. F \subseteq DOMAIN struct /\ IsFiniteSet(F) /\ MutualKey \notin F
    BY FS_Subset DEF Failing
  <2> HIDE DEF F
  <2>2. /\ n \in Nat /\ keys \in [1 .. n -> F]
        /\ \A i, j \in 1 .. n : keys[i] = keys[j] => i = j
        /\ \A k \in F : \E i \in 1 .. n : keys[i] = k
    BY <2>1, SetToSeqIs
  <2> HIDE DEF n, keys
  <2>3. n >= 1 /\ first \in F
    BY <1>2, <2>2 DEF F
  <2>4. keyed \in Seq({<<k, struct[k].error>> : k \in F}) /\ Len(keyed) = n
    BY <2>2
  <2>5. Head(keyed) = <<first, struct[first].error>>
    BY <2>2, <2>3, <2>4
  <2>6. DOMAIN Tail(keyed) = 1 .. n - 1 /\ \A i \in 1 .. n - 1 : Tail(keyed)[i] = keyed[i + 1]
    BY <2>2, <2>3, <2>4
  <2>7. \A i \in 1 .. n - 1 : later[i] # MutualKey
                              /\ Tail(keyed)[i] = <<later[i], struct[later[i]].error>>
    BY <2>1, <2>2, <2>6
  <2>8. \A k : k \in F <=> k = first \/ \E i \in 1 .. n - 1 : later[i] = k
    <3>1. \A i \in 1 .. n - 1 : later[i] \in F
      BY <2>2
    <3>2. \A k \in F : k = first \/ \E i \in 1 .. n - 1 : later[i] = k
      <4> SUFFICES ASSUME NEW k \in F, k # first PROVE \E i \in 1 .. n - 1 : later[i] = k
        OBVIOUS
      <4>1. PICK i \in 1 .. n : keys[i] = k
        BY <2>2
      <4>2. i - 1 \in 1 .. n - 1 /\ later[i - 1] = k
        BY <2>2, <4>1
      <4> QED
        BY <4>2
    <3> QED
      BY <2>3, <3>1, <3>2
  <2>9. FoldLeft(Concat, Head(keyed), Tail(keyed)) =
          IF n - 1 = 0 THEN <<first, struct[first].error>>
          ELSE <<MutualKey, Dict(Errors(struct, F))>>
    <3> HIDE DEF later, keyed, first
    <3>1. n - 1 \in Nat /\ first # MutualKey
      BY <2>1, <2>2, <2>3
    <3> DEFINE m == n - 1
               rest == Tail(keyed)
    <3>2. Keyed(struct, m, first, later, rest, F)
      BY <2>6, <2>7, <2>8, <3>1 DEF Keyed
    <3> HIDE DEF m, rest
    <3>3. FoldLeft(Concat, <<first, struct[first].error>>, rest) =
            IF m = 0 THEN <<first, struct[first].error>> ELSE <<MutualKey, Dict(Errors(struct, F))>>
      BY <3>2, FoldOfErrors
    <3> QED
      BY <2>5, <3>3 DEF m, rest
  <2>10. FoldLeft(Concat, Head(keyed), Tail(keyed))[2] = Summary(struct)
    <3>1. CASE n = 1
      <4>1. F = {first}
        BY <2>2, <2>3, <3>1
      <4>2. Summary(struct) = struct[first].error
        BY <2>1, <4>1 DEF F, Summary
      <4> QED
        BY <2>9, <3>1, <4>2
    <3>2. CASE n # 1
      <4>1. keys[1] # keys[2] /\ keys[1] \in F /\ keys[2] \in F
        BY <2>2, <2>3, <3>2
      <4>2. \A k : F # {k}
        BY <4>1
      <4>3. Summary(struct) = Dict(Errors(struct, F))
        BY <4>2 DEF F, Summary, Errors
      <4> QED
        BY <2>2, <2>9, <3>2, <4>3
    <3> QED
      BY <3>1, <3>2
  <2>11. StructSummarizerParsing(struct) = Left(FoldLeft(Concat, Head(keyed), Tail(keyed))[2])
    BY <1>2 DEF StructSummarizerParsing, keys, F
  <2> QED
    BY <1>2, <2>10, <2>11
<1> QED
  BY <1>1, <1>2

-----------------------------------------------------------------------------
(* Arrays.                                                                 *)

\* The items that come before an item are as many as its index.
LEMMA PlaceOfIndex ==
  ASSUME NEW n \in Nat, NEW i \in 1 .. n
  PROVE  Cardinality({j \in 1 .. n : StrIntOrder(j - 1, i - 1)}) = i - 1
<1>1. {j \in 1 .. n : StrIntOrder(j - 1, i - 1)} = 1 .. i - 1
  <2>1. \A j \in Int : j \in 1 .. n /\ j - 1 < i - 1 <=> j \in 1 .. i - 1
    OBVIOUS
  <2> QED
    BY <2>1 DEF StrIntOrder
<1>2. Cardinality(1 .. i - 1) = IF 1 > i - 1 THEN 0 ELSE i - 1 - 1 + 1
  BY FS_Interval
<1>3. (IF 1 > i - 1 THEN 0 ELSE i - 1 - 1 + 1) = i - 1
  OBVIOUS
<1> QED
  BY <1>1, <1>2, <1>3

\* arrayParser answers all values in the order of the items, or refuses: with
\* the error of the one item that failed, or with those of all that failed, each
\* under its index, which is the order of the numbers and not that of their texts.
THEOREM ArrayParserIsComplete ==
  ASSUME NEW n \in Nat, NEW items, DOMAIN items = 1 .. n, n <= MaxIndex + 1
  PROVE  /\ ArrayParser(items).ok <=> \A i \in 1 .. n : items[i].ok
         /\ (\A i \in 1 .. n : items[i].ok) =>
              ArrayParser(items) = Right([i \in 1 .. n |-> items[i].value])
         /\ \A i \in 1 .. n : {j \in 1 .. n : ~ items[j].ok} = {i} =>
              ArrayParser(items) = Left(items[i].error)
         /\ \A i, j \in 1 .. n : i # j /\ ~ items[i].ok /\ ~ items[j].ok =>
              \E errors :
                /\ ArrayParser(items) = Left(Dict(errors))
                /\ DOMAIN errors = {ToString(k - 1) : k \in {l \in 1 .. n : ~ items[l].ok}}
                /\ \A k \in 1 .. n : ~ items[k].ok => errors[ToString(k - 1)] = items[k].error
<1> DEFINE key == [i \in DOMAIN items |-> ToString(i - 1)]
           index(k) == CHOOSE i \in DOMAIN items : key[i] = k
           struct == [k \in {key[i] : i \in DOMAIN items} |-> items[index(k)]]
           parsed == StructSummarizerParsing(struct)
           place(i) == CHOOSE j \in DOMAIN items :
                         Cardinality({k \in DOMAIN items : StrIntOrder(k - 1, j - 1)}) = i - 1
<1>1. \A i, j \in 1 .. n : key[i] = key[j] => i = j
  <2>1. \A i \in 1 .. n : i - 1 \in 0 .. MaxIndex
    BY ParsingAssumption
  <2>2. \A i, j \in 1 .. n : ToString(i - 1) = ToString(j - 1) => i - 1 = j - 1
    BY <2>1, ParsingAssumption
  <2> QED
    BY <2>2
<1>2. \A i \in 1 .. n : key[i] # MutualKey
  <2>1. \A i \in 1 .. n : i - 1 \in 0 .. MaxIndex
    BY ParsingAssumption
  <2> QED
    BY <2>1, ParsingAssumption
<1>3. \A i \in 1 .. n : index(key[i]) = i
  BY <1>1
<1>4. \A i \in 1 .. n : key[i] \in DOMAIN struct /\ struct[key[i]] = items[i]
  BY <1>3
<1>5. DOMAIN struct = {key[i] : i \in 1 .. n} /\ MutualKey \notin DOMAIN struct
  BY <1>2
<1>6. IsFiniteSet(DOMAIN struct)
  <2>1. IsFiniteSet(1 .. n)
    BY FS_Interval
  <2>2. key \in Surjection(1 .. n, DOMAIN struct)
    BY <1>5 DEF Surjection
  <2> QED
    BY <2>1, <2>2, FS_Surjection
<1>7. \A i \in 1 .. n : place(i) = i
  <2> SUFFICES ASSUME NEW i \in 1 .. n PROVE place(i) = i
    OBVIOUS
  <2>1. \A j \in 1 .. n : Cardinality({k \in DOMAIN items : StrIntOrder(k - 1, j - 1)}) = j - 1
    BY PlaceOfIndex
  <2>2. \A j \in 1 .. n : j - 1 = i - 1 <=> j = i
    OBVIOUS
  <2> QED
    BY <2>1, <2>2
<1>8. ArrayParser(items) = IF ~ parsed.ok THEN parsed
                           ELSE Right([i \in 1 .. n |-> parsed.value[key[place(i)]]])
  BY DEF ArrayParser
<1> HIDE DEF key, struct, index, place
<1>9. parsed = IF Failing(struct) = {} THEN Right([k \in DOMAIN struct |-> struct[k].value])
               ELSE Left(Summary(struct))
  BY <1>5, <1>6, SummaryIsComplete
<1> HIDE DEF parsed
<1>10. Failing(struct) = {key[i] : i \in {j \in 1 .. n : ~ items[j].ok}}
  BY <1>4, <1>5 DEF Failing
<1>11. CASE \A i \in 1 .. n : items[i].ok
  <2>1. parsed = Right([k \in DOMAIN struct |-> struct[k].value])
    BY <1>9, <1>10, <1>11
  <2>2. parsed.ok /\ \A i \in 1 .. n : parsed.value[key[place(i)]] = items[i].value
    BY <1>4, <1>7, <2>1 DEF Right
  <2>3. ArrayParser(items) = Right([i \in 1 .. n |-> items[i].value])
    BY <1>8, <2>2
  <2> QED
    BY <1>11, <2>3 DEF Right
<1>12. CASE \E i \in 1 .. n : ~ items[i].ok
  <2>1. ArrayParser(items) = Left(Summary(struct))
    <3>1. Failing(struct) # {}
      BY <1>10, <1>12
    <3>2. parsed = Left(Summary(struct)) /\ ~ parsed.ok
      BY <1>9, <3>1 DEF Left
    <3> QED
      BY <1>8, <3>2
  <2>2. ASSUME NEW i \in 1 .. n, {j \in 1 .. n : ~ items[j].ok} = {i}
        PROVE  Summary(struct) = items[i].error
    <3>1. Failing(struct) = {key[i]}
      BY <1>10, <2>2
    <3> QED
      BY <1>4, <3>1 DEF Summary
  <2>3. ASSUME NEW i \in 1 .. n, NEW j \in 1 .. n, i # j, ~ items[i].ok, ~ items[j].ok
        PROVE  \E errors :
                 /\ Summary(struct) = Dict(errors)
                 /\ DOMAIN errors = {key[k] : k \in {l \in 1 .. n : ~ items[l].ok}}
                 /\ \A k \in 1 .. n : ~ items[k].ok => errors[key[k]] = items[k].error
    <3> DEFINE errors == [k \in Failing(struct) |-> struct[k].error]
    <3>1. key[i] \in Failing(struct) /\ key[j] \in Failing(struct) /\ key[i] # key[j]
      BY <1>1, <1>10, <2>3
    <3>2. Summary(struct) = Dict(errors)
      BY <3>1 DEF Summary
    <3>3. \A k \in 1 .. n : ~ items[k].ok => errors[key[k]] = items[k].error
      BY <1>4, <1>10
    <3> QED
      BY <1>10, <3>2, <3>3
  <2>4. \A k \in 1 .. n : key[k] = ToString(k - 1)
    BY DEF key
  <2>5. {key[k] : k \in {l \in 1 .. n : ~ items[l].ok}} = {ToString(k - 1) : k \in {l \in 1 .. n : ~ items[l].ok}}
    BY <2>4
  <2>6. ~ ArrayParser(items).ok
    BY <2>1 DEF Left
  <2>7. ASSUME NEW i \in 1 .. n, NEW j \in 1 .. n, i # j, ~ items[i].ok, ~ items[j].ok
        PROVE  \E errors :
                 /\ ArrayParser(items) = Left(Dict(errors))
                 /\ DOMAIN errors = {ToString(k - 1) : k \in {l \in 1 .. n : ~ items[l].ok}}
                 /\ \A k \in 1 .. n : ~ items[k].ok => errors[ToString(k - 1)] = items[k].error
    <3>1. PICK errors :
            /\ Summary(struct) = Dict(errors)
            /\ DOMAIN errors = {key[k] : k \in {l \in 1 .. n : ~ items[l].ok}}
            /\ \A k \in 1 .. n : ~ items[k].ok => errors[key[k]] = items[k].error
      BY <2>3, <2>7
    <3>2. DOMAIN errors = {ToString(k - 1) : k \in {l \in 1 .. n : ~ items[l].ok}}
      BY <2>5, <3>1
    <3>3. \A k \in 1 .. n : ~ items[k].ok => errors[ToString(k - 1)] = items[k].error
      BY <2>4, <3>1
    <3> QED
      BY <2>1, <3>1, <3>2, <3>3
  <2> QED
    BY <1>12, <2>1, <2>2, <2>6, <2>7
<1> QED
  BY <1>11, <1>12
=============================================================================
