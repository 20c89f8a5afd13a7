----------------------------- MODULE DataProofs -----------------------------
(***************************************************************************)
(* Lemmas about the data the models are made of: sums over finite sets,      *)
(* lists with entries filtered out, added and swapped away.                  *)
(*                                                                         *)
(* What a fold or a recursive function computes takes induction, and the    *)
(* induction theorems of the library take the claim as an operator, which   *)
(* the provers cannot instantiate.  Here the claim is a set instead: that   *)
(* less-than is well-founded on Nat (WFMin) gives an induction over the     *)
(* elements of a set, and that one the others, over subsets and sequences.  *)
(***************************************************************************)
EXTENDS Lists, FiniteSetTheorems, WellFoundedInduction, TLAPS

(*****************************************************************************)
(* A set with 0 in it and the successor of each number in it has all of      *)
(* Nat: if not, the least number missing has a predecessor that is not.      *)
(*****************************************************************************)
LEMMA SetInduction ==
    ASSUME NEW S, 0 \in S, \A n \in Nat : n \in S => n + 1 \in S
    PROVE  Nat \subseteq S
<1> SUFFICES ASSUME NEW T, T = Nat \ S, T # {} PROVE FALSE
  OBVIOUS
<1> DEFINE R == {ss \in Nat \X Nat : ss[1] < ss[2]}
<1>1. IsWellFoundedOn(R, Nat)
  BY NatLessThanWellFounded DEF OpToRel
<1>2. \A x, y \in Nat : <<x, y>> \in R <=> x < y
  OBVIOUS
<1> HIDE DEF R
<1>3. PICK x \in T : \A y \in T : ~(<<y, x>> \in R)
  BY <1>1, WFMin
<1>4. x \in Nat /\ x # 0
  BY <1>3
<1>5. x - 1 \in Nat /\ x - 1 < x
  BY <1>4
<1>6. x - 1 \notin T
  BY <1>2, <1>3, <1>4, <1>5
<1>7. x \in S
  BY <1>5, <1>6, <1>4
<1> QED BY <1>3, <1>7

\* One element taken out of a set.
LEMMA OneLess ==
    ASSUME NEW S, IsFiniteSet(S), NEW x \in S, NEW n \in Nat, Cardinality(S) = n + 1
    PROVE  IsFiniteSet(S \ {x}) /\ Cardinality(S \ {x}) = n
<1>1. Cardinality(S \ {x}) = Cardinality(S) - 1 /\ IsFiniteSet(S \ {x})
  BY FS_RemoveElement
<1> QED BY <1>1

\* A family with the empty set in it, and with a set each set of one element more, has every
\* subset.
LEMMA FiniteSetInduction ==
    ASSUME NEW S, IsFiniteSet(S), NEW C, {} \in C,
           \A T \in SUBSET S : \A x \in S \ T : T \in C => T \cup {x} \in C
    PROVE  \A T \in SUBSET S : T \in C
<1> DEFINE N == {n \in Nat : \A T \in SUBSET S : Cardinality(T) = n => T \in C}
<1>1. \A T \in SUBSET S : IsFiniteSet(T) /\ Cardinality(T) \in Nat
  BY FS_Subset, FS_CardinalityType
<1>2. 0 \in N
  BY <1>1, FS_EmptySet
<1>3. ASSUME NEW n \in Nat, n \in N PROVE n + 1 \in N
  <2>1. ASSUME NEW T \in SUBSET S, Cardinality(T) = n + 1 PROVE T \in C
    <3>1. PICK x \in T : TRUE
      BY <1>1, <2>1, FS_EmptySet
    <3>2. Cardinality(T \ {x}) = n
      BY <1>1, <2>1, OneLess
    <3>3. T \ {x} \in C
      BY <1>3, <3>2
    <3>4. (T \ {x}) \cup {x} \in C
      BY <3>3
    <3>5. (T \ {x}) \cup {x} = T
      BY <3>1
    <3> QED BY <3>4, <3>5
  <2> QED BY <2>1
<1>4. Nat \subseteq N
  <2> HIDE DEF N
  <2> QED BY <1>2, <1>3, SetInduction
<1> QED BY <1>1, <1>4

\* A family with the empty sequence in it, and with a sequence each that is one entry longer, has
\* every sequence.
LEMMA SeqInduction ==
    ASSUME NEW S, NEW C, <<>> \in C, \A s \in Seq(S) : \A e \in S : s \in C => Append(s, e) \in C
    PROVE  Seq(S) \subseteq C
<1> DEFINE N == {n \in Nat : \A s \in Seq(S) : Len(s) = n => s \in C}
<1>1. 0 \in N
  <2>1. \A s \in Seq(S) : Len(s) = 0 => s = <<>>
    OBVIOUS
  <2> QED BY <2>1
<1>2. ASSUME NEW n \in Nat, n \in N PROVE n + 1 \in N
  <2> SUFFICES ASSUME NEW s \in Seq(S), Len(s) = n + 1 PROVE s \in C
    OBVIOUS
  <2> DEFINE t == [m \in 1..n |-> s[m]]
  <2>1. t \in Seq(S) /\ Len(t) = n /\ s[n + 1] \in S
    OBVIOUS
  <2>2. s = Append(t, s[n + 1])
    OBVIOUS
  <2>3. t \in C
    BY <1>2, <2>1
  <2> HIDE DEF t
  <2> QED BY <2>1, <2>2, <2>3
<1>3. Nat \subseteq N
  <2> HIDE DEF N
  <2> QED BY <1>1, <1>2, SetInduction
<1> QED BY <1>3

\* A set of numbers has its least.
LEMMA MinIs ==
    ASSUME NEW I, I \subseteq Nat, I # {}
    PROVE  Min(I) \in I
<1> DEFINE T == {1..i : i \in I}
<1>1. T \subseteq FiniteSubsetsOf(Nat) /\ T # {}
  <2>1. \A i \in Nat : IsFiniteSet(1..i) /\ 1..i \subseteq Nat
    BY FS_Interval
  <2> QED BY <2>1 DEF FiniteSubsetsOf
<1>2. \E x \in T : \A y \in T : <<y, x>> \notin StrictSubsetOrdering(Nat)
  BY <1>1, FS_StrictSubsetOrderingWellFounded, WFMin
<1>3. PICK m \in I : \A i \in I : <<1..i, 1..m>> \notin StrictSubsetOrdering(Nat)
  BY <1>2
<1>4. ASSUME NEW i \in I, i < m
      PROVE  <<1..i, 1..m>> \in StrictSubsetOrdering(Nat)
  <2>1. 1..i \in SUBSET Nat /\ 1..m \in SUBSET Nat /\ 1..i \subseteq 1..m
    BY <1>4
  <2>2. m \in 1..m /\ m \notin 1..i
    BY <1>4
  <2> QED BY <2>1, <2>2 DEF StrictSubsetOrdering
<1>5. ASSUME NEW i \in I PROVE m <= i
  <2>1. ~(i < m)
    BY <1>3, <1>4
  <2> QED BY <2>1
<1> QED BY <1>5 DEF Min

-----------------------------------------------------------------------------
(*****************************************************************************)
(* Sums.  SumFunctionOnSet is a fold, and that a recursive function: SumRec  *)
(* is the equation it is chosen by, solvable up to each cardinality in       *)
(* turn, and in one way.                                                     *)
(*****************************************************************************)
Chosen(s) == CHOOSE x \in s : TRUE

SumRec(f, D, g) ==
    g = [s \in D |-> IF s = {} THEN 0 ELSE f[Chosen(s)] + g[s \ {Chosen(s)}]]

LEMMA SumIsFold ==
    ASSUME NEW f, NEW S PROVE SumFunctionOnSet(f, S) = (CHOOSE g : SumRec(f, SUBSET S, g))[S]
BY DEF SumFunctionOnSet, FoldFunctionOnSet, MapThenFoldSet, SumRec, Chosen

LEMMA ChosenIsIn == \A s : s # {} => Chosen(s) \in s
BY DEF Chosen

Few(S, n) == {s \in SUBSET S : Cardinality(s) <= n}

LEMMA SumExists ==
    ASSUME NEW f, NEW S, IsFiniteSet(S)
    PROVE  \E g : SumRec(f, SUBSET S, g)
<1> DEFINE N == {n \in Nat : \E g : SumRec(f, Few(S, n), g)}
<1>1. \A s \in SUBSET S : IsFiniteSet(s) /\ Cardinality(s) \in Nat /\ Cardinality(s) <= Cardinality(S)
  BY FS_Subset, FS_CardinalityType
<1>2. 0 \in N
  <2> DEFINE g == [s \in Few(S, 0) |-> 0]
  <2>1. \A s \in Few(S, 0) : s = {}
    BY <1>1, FS_EmptySet DEF Few
  <2>2. SumRec(f, Few(S, 0), g)
    BY <2>1 DEF SumRec
  <2> QED BY <2>2
<1>3. ASSUME NEW n \in Nat, n \in N PROVE n + 1 \in N
  <2>1. PICK g : SumRec(f, Few(S, n), g)
    BY <1>3
  <2> DEFINE h == [s \in Few(S, n + 1) |-> IF s = {} THEN 0 ELSE f[Chosen(s)] + g[s \ {Chosen(s)}]]
  <2>2. \A s \in Few(S, n) : s \in Few(S, n + 1) /\ h[s] = g[s]
    <3>1. \A s \in Few(S, n) : s \in Few(S, n + 1)
      BY <1>1 DEF Few
    <3>2. \A s \in Few(S, n) : g[s] = IF s = {} THEN 0 ELSE f[Chosen(s)] + g[s \ {Chosen(s)}]
      BY <2>1 DEF SumRec
    <3> QED BY <3>1, <3>2
  <2>3. ASSUME NEW s \in Few(S, n + 1), s # {} PROVE s \ {Chosen(s)} \in Few(S, n)
    <3>1. Cardinality(s \ {Chosen(s)}) = Cardinality(s) - 1
      BY <1>1, <2>3, ChosenIsIn, FS_RemoveElement DEF Few
    <3> QED BY <1>1, <2>3, <3>1 DEF Few
  <2>4. \A s \in Few(S, n + 1) : s # {} => h[s \ {Chosen(s)}] = g[s \ {Chosen(s)}]
    BY <2>2, <2>3
  <2>5. SumRec(f, Few(S, n + 1), h)
    BY <2>4 DEF SumRec
  <2> QED BY <2>5
<1>4. Nat \subseteq N
  <2> HIDE DEF N
  <2> QED BY <1>2, <1>3, SetInduction
<1>5. Cardinality(S) \in Nat /\ Few(S, Cardinality(S)) = SUBSET S
  BY <1>1 DEF Few
<1> QED BY <1>4, <1>5

LEMMA SumUnique ==
    ASSUME NEW f, NEW S, IsFiniteSet(S), NEW T \in SUBSET S, NEW g, NEW h,
           SumRec(f, SUBSET S, g), SumRec(f, SUBSET T, h)
    PROVE  \A s \in SUBSET T : g[s] = h[s]
<1> DEFINE N == {n \in Nat : \A s \in SUBSET T : Cardinality(s) = n => g[s] = h[s]}
<1>1. \A s \in SUBSET T : IsFiniteSet(s) /\ Cardinality(s) \in Nat /\ s \in SUBSET S
  BY FS_Subset, FS_CardinalityType
<1>2. \A s \in SUBSET T : /\ g[s] = IF s = {} THEN 0 ELSE f[Chosen(s)] + g[s \ {Chosen(s)}]
                          /\ h[s] = IF s = {} THEN 0 ELSE f[Chosen(s)] + h[s \ {Chosen(s)}]
  BY <1>1 DEF SumRec
<1>3. 0 \in N
  BY <1>1, <1>2, FS_EmptySet
<1>4. ASSUME NEW n \in Nat, n \in N PROVE n + 1 \in N
  <2>1. ASSUME NEW s \in SUBSET T, Cardinality(s) = n + 1 PROVE g[s] = h[s]
    <3>1. s # {}
      BY <2>1, FS_EmptySet
    <3>2. Cardinality(s \ {Chosen(s)}) = n /\ s \ {Chosen(s)} \in SUBSET T
      BY <1>1, <2>1, <3>1, ChosenIsIn, OneLess
    <3>3. g[s \ {Chosen(s)}] = h[s \ {Chosen(s)}]
      BY <1>4, <3>2
    <3> QED BY <1>2, <3>1, <3>3
  <2> QED BY <2>1
<1>5. Nat \subseteq N
  <2> HIDE DEF N
  <2> QED BY <1>3, <1>4, SetInduction
<1> QED BY <1>1, <1>5

\* The sum by its own recursion.
LEMMA SumUnfolds ==
    ASSUME NEW f, NEW S, IsFiniteSet(S)
    PROVE  SumFunctionOnSet(f, S) =
              IF S = {} THEN 0 ELSE f[Chosen(S)] + SumFunctionOnSet(f, S \ {Chosen(S)})
<1> DEFINE g == CHOOSE g : SumRec(f, SUBSET S, g)
           T == S \ {Chosen(S)}
           h == CHOOSE h : SumRec(f, SUBSET T, h)
<1>1. IsFiniteSet(T) /\ T \in SUBSET S
  BY FS_Subset
<1>2. SumRec(f, SUBSET S, g) /\ SumRec(f, SUBSET T, h)
  BY <1>1, SumExists
<1>3. SumFunctionOnSet(f, S) = g[S] /\ SumFunctionOnSet(f, T) = h[T]
  BY SumIsFold
<1> HIDE DEF g, h, T
<1>4. g[T] = h[T]
  BY <1>2, <1>1, SumUnique
<1>5. g[S] = IF S = {} THEN 0 ELSE f[Chosen(S)] + g[T]
  BY <1>2 DEF SumRec, T
<1> QED BY <1>3, <1>4, <1>5 DEF T

\* Nothing sums to nothing.
LEMMA SumEmpty == \A f : SumFunctionOnSet(f, {}) = 0
BY SumUnfolds, FS_EmptySet

\* Naturals sum to a natural.
LEMMA SumType ==
    ASSUME NEW f, NEW S, IsFiniteSet(S), \A x \in S : f[x] \in Nat
    PROVE  \A T \in SUBSET S : SumFunctionOnSet(f, T) \in Nat
<1> DEFINE N == {n \in Nat : \A T \in SUBSET S :
                    Cardinality(T) = n => SumFunctionOnSet(f, T) \in Nat}
<1>1. \A T \in SUBSET S : IsFiniteSet(T) /\ Cardinality(T) \in Nat
  BY FS_Subset, FS_CardinalityType
<1>2. 0 \in N
  BY <1>1, SumEmpty, FS_EmptySet
<1>3. ASSUME NEW n \in Nat, n \in N PROVE n + 1 \in N
  <2>1. ASSUME NEW T \in SUBSET S, Cardinality(T) = n + 1 PROVE SumFunctionOnSet(f, T) \in Nat
    <3>1. T # {} /\ Chosen(T) \in T
      BY <2>1, FS_EmptySet, ChosenIsIn
    <3>2. Cardinality(T \ {Chosen(T)}) = n /\ T \ {Chosen(T)} \in SUBSET S
      BY <1>1, <2>1, <3>1, OneLess
    <3>3. SumFunctionOnSet(f, T \ {Chosen(T)}) \in Nat
      BY <1>3, <3>2
    <3>4. f[Chosen(T)] \in Nat
      BY <3>1
    <3>5. SumFunctionOnSet(f, T) = f[Chosen(T)] + SumFunctionOnSet(f, T \ {Chosen(T)})
      BY <1>1, <3>1, SumUnfolds
    <3> QED BY <3>3, <3>4, <3>5
  <2> QED BY <2>1
<1>4. Nat \subseteq N
  <2> HIDE DEF N
  <2> QED BY <1>2, <1>3, SetInduction
<1> QED BY <1>1, <1>4

\* Whichever element is taken first; the fold takes one of its own choice.
LEMMA SumAny ==
    ASSUME NEW f, NEW S, IsFiniteSet(S), \A x \in S : f[x] \in Nat
    PROVE  \A T \in SUBSET S : \A x \in T :
              SumFunctionOnSet(f, T) = f[x] + SumFunctionOnSet(f, T \ {x})
<1> DEFINE N == {n \in Nat : \A T \in SUBSET S : Cardinality(T) = n =>
                    \A x \in T : SumFunctionOnSet(f, T) = f[x] + SumFunctionOnSet(f, T \ {x})}
<1>1. \A T \in SUBSET S : IsFiniteSet(T) /\ Cardinality(T) \in Nat
  BY FS_Subset, FS_CardinalityType
<1>2. 0 \in N
  BY <1>1, FS_EmptySet
<1>3. ASSUME NEW n \in Nat, n \in N PROVE n + 1 \in N
  <2> SUFFICES ASSUME NEW T \in SUBSET S, Cardinality(T) = n + 1, NEW x \in T
               PROVE  SumFunctionOnSet(f, T) = f[x] + SumFunctionOnSet(f, T \ {x})
    OBVIOUS
  <2> DEFINE y == Chosen(T)
  <2>1. y \in T
    BY ChosenIsIn
  <2>2. SumFunctionOnSet(f, T) = f[y] + SumFunctionOnSet(f, T \ {y})
    BY <1>1, SumUnfolds
  <2> HIDE DEF y
  <2>3. CASE x = y
    BY <2>2, <2>3
  <2>4. CASE x # y
    <3>1. Cardinality(T \ {y}) = n /\ Cardinality(T \ {x}) = n
      BY <1>1, <2>1, OneLess
    <3>2. SumFunctionOnSet(f, T \ {y}) = f[x] + SumFunctionOnSet(f, (T \ {y}) \ {x})
      BY <1>3, <2>4, <3>1
    <3>3. SumFunctionOnSet(f, T \ {x}) = f[y] + SumFunctionOnSet(f, (T \ {x}) \ {y})
      BY <1>3, <2>1, <2>4, <3>1
    <3>4. (T \ {y}) \ {x} = (T \ {x}) \ {y}
      OBVIOUS
    <3>5. SumFunctionOnSet(f, T \ {x}) = f[y] + SumFunctionOnSet(f, (T \ {y}) \ {x})
      BY <3>3, <3>4
    <3>6. SumFunctionOnSet(f, (T \ {y}) \ {x}) \in Nat /\ f[x] \in Nat /\ f[y] \in Nat
      BY <2>1, SumType
    <3> QED BY <2>2, <3>2, <3>5, <3>6
  <2> QED BY <2>3, <2>4
<1>4. Nat \subseteq N
  <2> HIDE DEF N
  <2> QED BY <1>2, <1>3, SetInduction
<1> QED BY <1>1, <1>4

\* One element more.
LEMMA SumAdd ==
    ASSUME NEW f, NEW S, IsFiniteSet(S), NEW x, x \notin S, \A y \in S \cup {x} : f[y] \in Nat
    PROVE  SumFunctionOnSet(f, S \cup {x}) = f[x] + SumFunctionOnSet(f, S)
<1>1. IsFiniteSet(S \cup {x})
  BY FS_AddElement
<1>2. SumFunctionOnSet(f, S \cup {x}) = f[x] + SumFunctionOnSet(f, (S \cup {x}) \ {x})
  BY <1>1, SumAny
<1>3. (S \cup {x}) \ {x} = S
  OBVIOUS
<1> QED BY <1>2, <1>3

\* The same values have the same sum.
LEMMA SumSame ==
    ASSUME NEW f, NEW g, NEW S, IsFiniteSet(S), \A x \in S : f[x] \in Nat /\ g[x] = f[x]
    PROVE  SumFunctionOnSet(g, S) = SumFunctionOnSet(f, S)
<1> DEFINE C == {T \in SUBSET S : SumFunctionOnSet(g, T) = SumFunctionOnSet(f, T)}
<1>1. {} \in C
  BY SumEmpty
<1>2. ASSUME NEW T \in SUBSET S, NEW x \in S \ T, T \in C PROVE T \cup {x} \in C
  <2>1. IsFiniteSet(T)
    BY FS_Subset
  <2>2. SumFunctionOnSet(g, T \cup {x}) = g[x] + SumFunctionOnSet(g, T)
    BY <2>1, SumAdd
  <2>3. SumFunctionOnSet(f, T \cup {x}) = f[x] + SumFunctionOnSet(f, T)
    BY <2>1, SumAdd
  <2> QED BY <1>2, <2>2, <2>3
<1>3. S \in C
  <2> HIDE DEF C
  <2> QED BY <1>1, <1>2, FiniteSetInduction
<1> QED BY <1>3

\* One value changes.
LEMMA SumChanged ==
    ASSUME NEW f, NEW g, NEW S, IsFiniteSet(S), NEW x \in S, g[x] \in Nat, f[x] \in Nat,
           \A y \in S \ {x} : f[y] \in Nat /\ g[y] = f[y]
    PROVE  SumFunctionOnSet(g, S) + f[x] = SumFunctionOnSet(f, S) + g[x]
<1>1. IsFiniteSet(S \ {x})
  BY FS_Subset
<1>2. SumFunctionOnSet(g, S \ {x}) = SumFunctionOnSet(f, S \ {x})
  BY <1>1, SumSame
<1>3. SumFunctionOnSet(g, S) = g[x] + SumFunctionOnSet(g, S \ {x})
  BY SumAny
<1>4. SumFunctionOnSet(f, S) = f[x] + SumFunctionOnSet(f, S \ {x})
  BY SumAny
<1>5. SumFunctionOnSet(f, S \ {x}) \in Nat
  BY <1>1, SumType
<1> QED BY <1>2, <1>3, <1>4, <1>5

\* Zeros sum to zero.
LEMMA SumZero ==
    ASSUME NEW f, NEW S, IsFiniteSet(S), \A x \in S : f[x] = 0
    PROVE  SumFunctionOnSet(f, S) = 0
<1> DEFINE C == {T \in SUBSET S : SumFunctionOnSet(f, T) = 0}
<1>1. {} \in C
  BY SumEmpty
<1>2. ASSUME NEW T \in SUBSET S, NEW x \in S \ T, T \in C PROVE T \cup {x} \in C
  <2>1. SumFunctionOnSet(f, T \cup {x}) = f[x] + SumFunctionOnSet(f, T)
    BY FS_Subset, SumAdd
  <2> QED BY <1>2, <2>1
<1>3. S \in C
  <2> HIDE DEF C
  <2> QED BY <1>1, <1>2, FiniteSetInduction
<1> QED BY <1>3

\* Two sets that share nothing.
LEMMA SumUnion ==
    ASSUME NEW f, NEW S, NEW T, IsFiniteSet(S), IsFiniteSet(T), S \cap T = {},
           \A x \in S \cup T : f[x] \in Nat
    PROVE  SumFunctionOnSet(f, S \cup T) = SumFunctionOnSet(f, S) + SumFunctionOnSet(f, T)
<1> DEFINE C == {U \in SUBSET T :
                   SumFunctionOnSet(f, S \cup U) = SumFunctionOnSet(f, S) + SumFunctionOnSet(f, U)}
<1>1. {} \in C
  <2>1. SumFunctionOnSet(f, S) \in Nat /\ S \cup {} = S
    BY SumType
  <2> QED BY <2>1, SumEmpty
<1>2. ASSUME NEW U \in SUBSET T, NEW x \in T \ U, U \in C PROVE U \cup {x} \in C
  <2>1. IsFiniteSet(U) /\ IsFiniteSet(S \cup U)
    BY FS_Subset, FS_Union
  <2>2. SumFunctionOnSet(f, U \cup {x}) = f[x] + SumFunctionOnSet(f, U)
    BY <2>1, SumAdd
  <2>3. SumFunctionOnSet(f, (S \cup U) \cup {x}) = f[x] + SumFunctionOnSet(f, S \cup U)
    BY <2>1, SumAdd
  <2>4. (S \cup U) \cup {x} = S \cup (U \cup {x})
    OBVIOUS
  <2>5. f[x] \in Nat /\ SumFunctionOnSet(f, U) \in Nat /\ SumFunctionOnSet(f, S) \in Nat
    BY <2>1, SumType
  <2>6. SumFunctionOnSet(f, S \cup (U \cup {x})) = f[x] + SumFunctionOnSet(f, S \cup U)
    BY <2>3, <2>4
  <2>7. SumFunctionOnSet(f, S \cup U) = SumFunctionOnSet(f, S) + SumFunctionOnSet(f, U)
    BY <1>2
  <2>8. SumFunctionOnSet(f, S \cup (U \cup {x})) =
           SumFunctionOnSet(f, S) + SumFunctionOnSet(f, U \cup {x})
    BY <2>2, <2>5, <2>6, <2>7
  <2> QED BY <2>8
<1>3. T \in C
  <2> HIDE DEF C
  <2> QED BY <1>1, <1>2, FiniteSetInduction
<1> QED BY <1>3

\* Pairs with one left part: as many, and with the values of the right parts the same sum.  (A
\* product has a name of its own, or the provers cannot match the lemmas with their uses.)
Paired(d, S) == {d} \X S

LEMMA PairedCount ==
    ASSUME NEW S, IsFiniteSet(S), NEW d, NEW M, IsFiniteSet(M), S \cap Paired(d, M) = {}
    PROVE  /\ IsFiniteSet(S \cup Paired(d, M))
           /\ Cardinality(S \cup Paired(d, M)) = Cardinality(S) + Cardinality(M)
<1>1. IsFiniteSet({d}) /\ Cardinality({d}) = 1
  BY FS_Singleton
<1>2. IsFiniteSet(Paired(d, M)) /\ Cardinality(Paired(d, M)) = 1 * Cardinality(M)
  BY <1>1, FS_Product DEF Paired
<1>3. /\ IsFiniteSet(S \cup Paired(d, M))
      /\ Cardinality(S \cup Paired(d, M))
            = Cardinality(S) + Cardinality(Paired(d, M)) - Cardinality(S \cap Paired(d, M))
  BY <1>2, FS_Union
<1>4. Cardinality(S \cap Paired(d, M)) = 0
  BY FS_EmptySet
<1>5. Cardinality(S) \in Nat /\ Cardinality(M) \in Nat
  BY FS_CardinalityType
<1> QED BY <1>2, <1>3, <1>4, <1>5

LEMMA SumPaired ==
    ASSUME NEW f, NEW g, NEW d, NEW S, IsFiniteSet(S),
           \A x \in S : f[x] \in Nat /\ g[<<d, x>>] = f[x]
    PROVE  SumFunctionOnSet(g, Paired(d, S)) = SumFunctionOnSet(f, S)
<1> DEFINE C == {T \in SUBSET S :
                   IsFiniteSet({d} \X T) /\ SumFunctionOnSet(g, {d} \X T) = SumFunctionOnSet(f, T)}
<1>1. {} \in C
  BY SumEmpty, FS_EmptySet, {d} \X {} = {}
<1>2. ASSUME NEW T \in SUBSET S, NEW x \in S \ T, T \in C PROVE T \cup {x} \in C
  <2>1. {d} \X (T \cup {x}) = ({d} \X T) \cup {<<d, x>>} /\ <<d, x>> \notin {d} \X T
    OBVIOUS
  <2>2. IsFiniteSet({d} \X (T \cup {x}))
    <3>1. IsFiniteSet(({d} \X T) \cup {<<d, x>>})
      BY <1>2, FS_AddElement
    <3> QED BY <2>1, <3>1
  <2>3. SumFunctionOnSet(f, T \cup {x}) = f[x] + SumFunctionOnSet(f, T)
    BY FS_Subset, SumAdd
  <2>4. \A y \in ({d} \X T) \cup {<<d, x>>} : g[y] \in Nat
    OBVIOUS
  <2>5. SumFunctionOnSet(g, ({d} \X T) \cup {<<d, x>>}) = g[<<d, x>>] + SumFunctionOnSet(g, {d} \X T)
    BY <1>2, <2>1, <2>4, SumAdd
  <2> QED BY <1>2, <2>1, <2>2, <2>3, <2>5
<1>3. S \in C
  <2> HIDE DEF C
  <2> QED BY <1>1, <1>2, FiniteSetInduction
<1> QED BY <1>3 DEF Paired

-----------------------------------------------------------------------------
(*****************************************************************************)
(* Filters.  WithinRec is the equation that the function inside Within is    *)
(* chosen by.                                                                *)
(*****************************************************************************)
WithinRec(list, set, m, g) ==
    g = [n \in 0..m |-> IF n = 0 THEN <<>>
                        ELSE IF list[n] \in set THEN Append(g[n - 1], list[n]) ELSE g[n - 1]]

LEMMA WithinIsRec ==
    ASSUME NEW s, NEW T
    PROVE  Within(s, T) = (CHOOSE g : WithinRec(s, T, Len(s), g))[Len(s)]
BY DEF Within, WithinRec

LEMMA WithinExists ==
    ASSUME NEW s, NEW T, NEW m \in Nat
    PROVE  \E g : WithinRec(s, T, m, g)
<1> DEFINE N == {n \in Nat : \E g : WithinRec(s, T, n, g)}
<1>1. 0 \in N
  <2>1. WithinRec(s, T, 0, [n \in 0..0 |-> <<>>])
    BY DEF WithinRec
  <2> QED BY <2>1
<1>2. ASSUME NEW n \in Nat, n \in N PROVE n + 1 \in N
  <2>1. PICK g : WithinRec(s, T, n, g)
    BY <1>2
  <2> DEFINE h == [k \in 0..(n + 1) |->
                     IF k = 0 THEN <<>>
                     ELSE IF s[k] \in T THEN Append(g[k - 1], s[k]) ELSE g[k - 1]]
  <2>2. \A k \in 0..n : h[k] = g[k]
    <3>1. \A k \in 0..n : g[k] = IF k = 0 THEN <<>>
                                 ELSE IF s[k] \in T THEN Append(g[k - 1], s[k]) ELSE g[k - 1]
      BY <2>1 DEF WithinRec
    <3>2. \A k \in 0..n : k \in 0..(n + 1)
      OBVIOUS
    <3> QED BY <3>1, <3>2
  <2>3. \A k \in 0..(n + 1) : k # 0 => k - 1 \in 0..n
    OBVIOUS
  <2>4. WithinRec(s, T, n + 1, h)
    BY <2>2, <2>3 DEF WithinRec
  <2> QED BY <2>4
<1>3. Nat \subseteq N
  <2> HIDE DEF N
  <2> QED BY <1>1, <1>2, SetInduction
<1> QED BY <1>3

LEMMA WithinUnique ==
    ASSUME NEW s, NEW t, NEW T, NEW m \in Nat, NEW k \in 0..m, NEW g, NEW h,
           \A n \in 1..k : s[n] = t[n],
           WithinRec(s, T, m, g), WithinRec(t, T, k, h)
    PROVE  g[k] = h[k]
<1> DEFINE N == {n \in Nat : n <= k => g[n] = h[n]}
<1>1. \A n \in 0..k : /\ g[n] = IF n = 0 THEN <<>>
                                ELSE IF s[n] \in T THEN Append(g[n - 1], s[n]) ELSE g[n - 1]
                      /\ h[n] = IF n = 0 THEN <<>>
                                ELSE IF t[n] \in T THEN Append(h[n - 1], t[n]) ELSE h[n - 1]
  <2>1. \A n \in 0..m : g[n] = IF n = 0 THEN <<>>
                                ELSE IF s[n] \in T THEN Append(g[n - 1], s[n]) ELSE g[n - 1]
    BY DEF WithinRec
  <2>2. \A n \in 0..k : h[n] = IF n = 0 THEN <<>>
                                ELSE IF t[n] \in T THEN Append(h[n - 1], t[n]) ELSE h[n - 1]
    BY DEF WithinRec
  <2>3. \A n \in 0..k : n \in 0..m
    OBVIOUS
  <2> QED BY <2>1, <2>2, <2>3
<1>2. 0 \in N
  BY <1>1
<1>3. ASSUME NEW n \in Nat, n \in N PROVE n + 1 \in N
  <2> SUFFICES ASSUME n + 1 <= k PROVE g[n + 1] = h[n + 1]
    OBVIOUS
  <2>1. n + 1 \in 0..k /\ n + 1 # 0 /\ (n + 1) - 1 = n /\ g[n] = h[n] /\ s[n + 1] = t[n + 1]
    BY <1>3
  <2> QED BY <1>1, <2>1
<1>4. Nat \subseteq N
  <2> HIDE DEF N
  <2> QED BY <1>2, <1>3, SetInduction
<1> QED BY <1>4

LEMMA WithinNone == \A T : Within(<<>>, T) = <<>>
<1> TAKE T
<1>1. PICK g : WithinRec(<<>>, T, 0, g)
  BY WithinExists
<1> DEFINE h == CHOOSE h : WithinRec(<<>>, T, 0, h)
<1>2. WithinRec(<<>>, T, 0, h)
  BY <1>1
<1>3. Len(<<>>) = 0 /\ Within(<<>>, T) = h[Len(<<>>)]
  BY WithinIsRec
<1> HIDE DEF h
<1> QED BY <1>2, <1>3 DEF WithinRec

\* A filter of a list one entry longer.
LEMMA WithinAppend ==
    ASSUME NEW S, NEW s \in Seq(S), NEW e \in S, NEW T
    PROVE  Within(Append(s, e), T) =
              IF e \in T THEN Append(Within(s, T), e) ELSE Within(s, T)
<1> DEFINE t == Append(s, e)
           k == Len(s)
           h == CHOOSE h : WithinRec(s, T, k, h)
           g == CHOOSE g : WithinRec(t, T, k + 1, g)
<1>1. k \in Nat /\ Len(t) = k + 1 /\ t[k + 1] = e /\ \A n \in 1..k : t[n] = s[n]
  OBVIOUS
<1>2. Within(s, T) = h[k] /\ Within(t, T) = g[k + 1]
  BY <1>1, WithinIsRec
<1>3. WithinRec(s, T, k, h) /\ WithinRec(t, T, k + 1, g)
  <2>1. k \in Nat /\ k + 1 \in Nat
    BY <1>1
  <2>2. (\E f : WithinRec(s, T, k, f)) /\ (\E f : WithinRec(t, T, k + 1, f))
    <3> HIDE DEF t, k
    <3> QED BY <2>1, WithinExists
  <2> QED BY <2>2
<1> HIDE DEF t, k, h, g
<1>4. g[k] = h[k]
  BY <1>1, <1>3, WithinUnique
<1>5. g[k + 1] = IF t[k + 1] \in T THEN Append(g[k], t[k + 1]) ELSE g[k]
  <2>1. k + 1 \in 0..(k + 1) /\ k + 1 # 0 /\ (k + 1) - 1 = k
    BY <1>1
  <2> QED BY <1>3, <2>1 DEF WithinRec
<1>6. Within(t, T) = IF e \in T THEN Append(Within(s, T), e) ELSE Within(s, T)
  BY <1>1, <1>2, <1>4, <1>5
<1> QED BY <1>6 DEF t

-----------------------------------------------------------------------------
(*****************************************************************************)
(* What is in a list, and in which order: Ordered(s, Less) when every earlier *)
(* entry and every later one are a pair of Less.                             *)
(*****************************************************************************)
Ordered(s, Less) == \A m, n \in DOMAIN s : m < n => <<s[m], s[n]>> \in Less

LEMMA EmptyList == ToSet(<<>>) = {} /\ \A Less : Ordered(<<>>, Less)
BY DEF ToSet, Ordered

LEMMA AppendSet ==
    ASSUME NEW S, NEW s \in Seq(S), NEW e \in S
    PROVE  Append(s, e) \in Seq(S) /\ ToSet(Append(s, e)) = ToSet(s) \cup {e}
<1> DEFINE t == Append(s, e)
<1>1. /\ t \in Seq(S) /\ Len(s) \in Nat
      /\ DOMAIN t = 1..(Len(s) + 1) /\ DOMAIN s = 1..Len(s)
      /\ \A n \in 1..Len(s) : t[n] = s[n]
      /\ t[Len(s) + 1] = e
  OBVIOUS
<1> HIDE DEF t
<1>2. ASSUME NEW x \in ToSet(t) PROVE x \in ToSet(s) \cup {e}
  BY <1>1 DEF ToSet
<1>3. ASSUME NEW x \in ToSet(s) PROVE x \in ToSet(t)
  <2>1. PICK n \in DOMAIN s : s[n] = x
    BY DEF ToSet
  <2>2. n \in DOMAIN t /\ t[n] = x
    BY <1>1, <2>1
  <2> QED BY <2>2 DEF ToSet
<1>4. e \in ToSet(t)
  BY <1>1 DEF ToSet
<1> QED BY <1>1, <1>2, <1>3, <1>4 DEF t

LEMMA AppendOrdered ==
    ASSUME NEW S, NEW s \in Seq(S), NEW e \in S, NEW Less
    PROVE  Ordered(Append(s, e), Less)
              <=> Ordered(s, Less) /\ \A x \in ToSet(s) : <<x, e>> \in Less
<1> DEFINE t == Append(s, e)
<1>1. /\ Len(s) \in Nat /\ DOMAIN t = 1..(Len(s) + 1) /\ DOMAIN s = 1..Len(s)
      /\ \A n \in 1..Len(s) : t[n] = s[n]
      /\ t[Len(s) + 1] = e
  OBVIOUS
<1> HIDE DEF t
<1>2. ASSUME Ordered(t, Less) PROVE Ordered(s, Less) /\ \A x \in ToSet(s) : <<x, e>> \in Less
  <2>1. Ordered(s, Less)
    BY <1>1, <1>2 DEF Ordered
  <2>2. ASSUME NEW n \in DOMAIN s PROVE <<s[n], e>> \in Less
    <3>1. n < Len(s) + 1 /\ n \in DOMAIN t /\ Len(s) + 1 \in DOMAIN t /\ t[n] = s[n]
      BY <1>1
    <3> QED BY <1>1, <1>2, <3>1 DEF Ordered
  <2> QED BY <2>1, <2>2 DEF ToSet
<1>3. ASSUME Ordered(s, Less), \A x \in ToSet(s) : <<x, e>> \in Less,
             NEW m \in DOMAIN t, NEW n \in DOMAIN t, m < n
      PROVE  <<t[m], t[n]>> \in Less
  <2>1. m \in DOMAIN s /\ t[m] = s[m]
    BY <1>1, <1>3
  <2>2. CASE n \in DOMAIN s
    BY <1>1, <1>3, <2>1, <2>2 DEF Ordered
  <2>3. CASE n = Len(s) + 1
    BY <1>1, <1>3, <2>1, <2>3 DEF ToSet
  <2> QED BY <1>1, <2>2, <2>3
<1>4. (Ordered(s, Less) /\ \A x \in ToSet(s) : <<x, e>> \in Less) => Ordered(t, Less)
  BY <1>3 DEF Ordered
<1> QED BY <1>2, <1>4 DEF t

\* The head of a list and the rest of it.
LEMMA HeadAndTail ==
    ASSUME NEW S, NEW s \in Seq(S), s # <<>>
    PROVE  /\ Head(s) \in S /\ Tail(s) \in Seq(S) /\ Len(Tail(s)) = Len(s) - 1
           /\ ToSet(s) = {Head(s)} \cup ToSet(Tail(s))
<1> DEFINE t == Tail(s)
<1>1. /\ t \in Seq(S) /\ Len(s) \in Nat /\ Len(s) > 0 /\ Len(t) = Len(s) - 1
      /\ DOMAIN s = 1..Len(s) /\ DOMAIN t = 1..(Len(s) - 1)
      /\ \A n \in 1..(Len(s) - 1) : t[n] = s[n + 1]
      /\ Head(s) = s[1] /\ Head(s) \in S
  OBVIOUS
<1> HIDE DEF t
<1>2. ASSUME NEW n \in DOMAIN s PROVE s[n] \in {Head(s)} \cup ToSet(t)
  <2>1. CASE n = 1
    BY <1>1, <2>1
  <2>2. CASE n # 1
    <3>1. n - 1 \in DOMAIN t /\ t[n - 1] = s[n]
      BY <1>1, <2>2
    <3> QED BY <3>1 DEF ToSet
  <2> QED BY <2>1, <2>2
<1>3. ASSUME NEW n \in DOMAIN t PROVE t[n] \in ToSet(s)
  <2>1. n + 1 \in DOMAIN s /\ t[n] = s[n + 1]
    BY <1>1
  <2> QED BY <2>1 DEF ToSet
<1>4. Head(s) \in ToSet(s)
  BY <1>1 DEF ToSet
<1>5. ToSet(s) = {Head(s)} \cup ToSet(t)
  <2>1. ToSet(s) \subseteq {Head(s)} \cup ToSet(t)
    BY <1>2 DEF ToSet
  <2>2. ToSet(t) \subseteq ToSet(s)
    BY <1>3 DEF ToSet
  <2> QED BY <1>4, <2>1, <2>2
<1> QED BY <1>1, <1>5 DEF t

LEMMA TailOrdered ==
    ASSUME NEW S, NEW s \in Seq(S), s # <<>>, NEW Less, Ordered(s, Less)
    PROVE  Ordered(Tail(s), Less) /\ \A x \in ToSet(Tail(s)) : <<Head(s), x>> \in Less
<1> DEFINE t == Tail(s)
<1>1. /\ Len(s) \in Nat /\ Len(s) > 0
      /\ DOMAIN s = 1..Len(s) /\ DOMAIN t = 1..(Len(s) - 1)
      /\ \A n \in 1..(Len(s) - 1) : t[n] = s[n + 1]
      /\ Head(s) = s[1]
  OBVIOUS
<1> HIDE DEF t
<1>2. ASSUME NEW m \in DOMAIN t, NEW n \in DOMAIN t, m < n PROVE <<t[m], t[n]>> \in Less
  <2>1. m + 1 \in DOMAIN s /\ n + 1 \in DOMAIN s /\ m + 1 < n + 1 /\ t[m] = s[m + 1] /\ t[n] = s[n + 1]
    BY <1>1, <1>2
  <2> QED BY <2>1 DEF Ordered
<1>3. ASSUME NEW n \in DOMAIN t PROVE <<Head(s), t[n]>> \in Less
  <2>1. 1 \in DOMAIN s /\ n + 1 \in DOMAIN s /\ 1 < n + 1 /\ t[n] = s[n + 1]
    BY <1>1
  <2> QED BY <1>1, <2>1 DEF Ordered
<1>4. Ordered(t, Less) /\ \A x \in ToSet(t) : <<Head(s), x>> \in Less
  BY <1>2, <1>3 DEF Ordered, ToSet
<1> QED BY <1>4 DEF t

\* A filter keeps those of its set, in their order.
LEMMA WithinSet ==
    ASSUME NEW S, NEW s \in Seq(S), NEW T
    PROVE  /\ Within(s, T) \in Seq(S)
           /\ ToSet(Within(s, T)) = ToSet(s) \cap T
           /\ Len(Within(s, T)) <= Len(s)
<1> DEFINE C == {t \in Seq(S) : /\ Within(t, T) \in Seq(S)
                                /\ ToSet(Within(t, T)) = ToSet(t) \cap T
                                /\ Len(Within(t, T)) <= Len(t)}
<1>1. <<>> \in C
  <2>1. <<>> \in Seq(S) /\ Len(<<>>) <= Len(<<>>)
    OBVIOUS
  <2>2. ToSet(<<>>) = ToSet(<<>>) \cap T
    BY EmptyList
  <2> QED BY <2>1, <2>2, WithinNone
<1>2. ASSUME NEW t \in Seq(S), NEW e \in S, t \in C PROVE Append(t, e) \in C
  <2>1. Append(t, e) \in Seq(S) /\ ToSet(Append(t, e)) = ToSet(t) \cup {e} /\ Len(Append(t, e)) = Len(t) + 1
    BY AppendSet
  <2>2. /\ Within(t, T) \in Seq(S) /\ ToSet(Within(t, T)) = ToSet(t) \cap T
        /\ Len(Within(t, T)) <= Len(t)
    BY <1>2
  <2>3. CASE e \in T
    <3> DEFINE w == Within(t, T)
    <3>1. Within(Append(t, e), T) = Append(w, e)
      BY <2>3, WithinAppend
    <3>2. Append(w, e) \in Seq(S) /\ ToSet(Append(w, e)) = ToSet(w) \cup {e} /\ Len(Append(w, e)) = Len(w) + 1
      <4> HIDE DEF w
      <4>1. w \in Seq(S)
        BY <2>2 DEF w
      <4> QED BY <4>1, AppendSet
    <3>3. ToSet(w) \cup {e} = (ToSet(t) \cup {e}) \cap T
      BY <2>2, <2>3
    <3>4. Len(w) \in Nat /\ Len(t) \in Nat
      BY <2>2
    <3>5. Len(Append(w, e)) <= Len(Append(t, e))
      BY <2>1, <2>2, <3>2, <3>4
    <3>6. ToSet(Append(w, e)) = ToSet(Append(t, e)) \cap T
      BY <2>1, <3>2, <3>3
    <3> HIDE DEF w
    <3> QED BY <2>1, <3>1, <3>2, <3>5, <3>6
  <2>4. CASE e \notin T
    <3>1. Within(Append(t, e), T) = Within(t, T)
      BY <2>4, WithinAppend
    <3>2. ToSet(t) \cap T = (ToSet(t) \cup {e}) \cap T
      BY <2>4
    <3>3. Len(Within(t, T)) \in Nat /\ Len(t) \in Nat
      BY <2>2
    <3> QED BY <2>1, <2>2, <3>1, <3>2, <3>3
  <2> QED BY <2>3, <2>4
<1>3. s \in C
  <2> HIDE DEF C
  <2> QED BY <1>1, <1>2, SeqInduction
<1> QED BY <1>3

LEMMA WithinOrdered ==
    ASSUME NEW S, NEW s \in Seq(S), NEW T, NEW Less, Ordered(s, Less)
    PROVE  Ordered(Within(s, T), Less)
<1> DEFINE C == {t \in Seq(S) : Ordered(t, Less) => Ordered(Within(t, T), Less)}
<1>1. <<>> \in C
  BY WithinNone, EmptyList
<1>2. ASSUME NEW t \in Seq(S), NEW e \in S, t \in C PROVE Append(t, e) \in C
  <2> SUFFICES ASSUME Ordered(Append(t, e), Less) PROVE Ordered(Within(Append(t, e), T), Less)
    BY AppendSet
  <2>1. Ordered(t, Less) /\ \A x \in ToSet(t) : <<x, e>> \in Less
    BY AppendOrdered
  <2>2. Within(t, T) \in Seq(S) /\ ToSet(Within(t, T)) = ToSet(t) \cap T
    BY WithinSet
  <2>3. Ordered(Within(t, T), Less)
    BY <1>2, <2>1
  <2>4. Ordered(Append(Within(t, T), e), Less)
    <3> DEFINE w == Within(t, T)
    <3>1. w \in Seq(S) /\ Ordered(w, Less) /\ \A x \in ToSet(w) : <<x, e>> \in Less
      BY <2>1, <2>2, <2>3
    <3> HIDE DEF w
    <3>2. Ordered(Append(w, e), Less)
      BY <3>1, AppendOrdered
    <3> QED BY <3>2 DEF w
  <2> QED BY <2>3, <2>4, WithinAppend
<1>3. s \in C
  <2> HIDE DEF C
  <2> QED BY <1>1, <1>2, SeqInduction
<1> QED BY <1>3

LEMMA WithoutSet ==
    ASSUME NEW S, NEW s \in Seq(S), NEW T
    PROVE  /\ Without(s, T) \in Seq(S)
           /\ ToSet(Without(s, T)) = ToSet(s) \ T
           /\ Len(Without(s, T)) <= Len(s)
<1>1. ToSet(s) \cap (ToSet(s) \ T) = ToSet(s) \ T
  OBVIOUS
<1> QED BY <1>1, WithinSet DEF Without

LEMMA WithoutOrdered ==
    ASSUME NEW S, NEW s \in Seq(S), NEW T, NEW Less, Ordered(s, Less)
    PROVE  Ordered(Without(s, T), Less)
BY WithinOrdered DEF Without

-----------------------------------------------------------------------------
(*****************************************************************************)
(* Push and the swap-remove of forget: what they do to the set of entries,   *)
(* to their being distinct and to the length.                                *)
(*****************************************************************************)
LEMMA AppendEntry ==
    ASSUME NEW S, NEW s \in Seq(S), NEW e \in S, IsInjective(s), e \notin ToSet(s)
    PROVE  /\ Append(s, e) \in Seq(S)
           /\ Len(Append(s, e)) = Len(s) + 1
           /\ ToSet(Append(s, e)) = ToSet(s) \cup {e}
           /\ IsInjective(Append(s, e))
<1> DEFINE t == Append(s, e)
<1>1. /\ t \in Seq(S)
      /\ Len(t) = Len(s) + 1
      /\ DOMAIN t = 1..(Len(s) + 1)
      /\ DOMAIN s = 1..Len(s)
      /\ Len(s) \in Nat
  OBVIOUS
<1>2. /\ \A n \in 1..Len(s) : t[n] = s[n]
      /\ t[Len(s) + 1] = e
  OBVIOUS
<1> HIDE DEF t
<1>3. ToSet(t) = ToSet(s) \cup {e}
  <2>1. ASSUME NEW x \in ToSet(t) PROVE x \in ToSet(s) \cup {e}
    BY <1>1, <1>2 DEF ToSet
  <2>2. ASSUME NEW x \in ToSet(s) PROVE x \in ToSet(t)
    <3>1. PICK n \in DOMAIN s : s[n] = x
      BY DEF ToSet
    <3>2. n \in DOMAIN t /\ t[n] = x
      BY <1>1, <1>2, <3>1
    <3> QED BY <3>2 DEF ToSet
  <2>3. e \in ToSet(t)
    BY <1>1, <1>2 DEF ToSet
  <2> QED BY <2>1, <2>2, <2>3
<1>4. IsInjective(t)
  <2>1. ASSUME NEW m \in DOMAIN t, NEW n \in DOMAIN t, t[m] = t[n] PROVE m = n
    <3>1. CASE m \in DOMAIN s /\ n \in DOMAIN s
      BY <1>1, <1>2, <2>1, <3>1 DEF IsInjective
    <3>2. CASE m = Len(s) + 1 /\ n \in DOMAIN s
      BY <1>1, <1>2, <2>1, <3>2 DEF ToSet
    <3>3. CASE n = Len(s) + 1 /\ m \in DOMAIN s
      BY <1>1, <1>2, <2>1, <3>3 DEF ToSet
    <3> QED BY <1>1, <3>1, <3>2, <3>3
  <2> QED BY <2>1 DEF IsInjective
<1> QED BY <1>1, <1>3, <1>4 DEF t

LEMMA SwapRemoveEntry ==
    ASSUME NEW S, NEW s \in Seq(S), NEW n \in DOMAIN s, IsInjective(s)
    PROVE  /\ SwapRemove(s, n) \in Seq(S)
           /\ Len(SwapRemove(s, n)) = Len(s) - 1
           /\ ToSet(SwapRemove(s, n)) = ToSet(s) \ {s[n]}
           /\ IsInjective(SwapRemove(s, n))
<1> DEFINE t == SwapRemove(s, n)
           L == Len(s)
<1>1. L \in Nat /\ L >= 1 /\ n \in 1..L /\ DOMAIN s = 1..L
  OBVIOUS
<1>2. \A m \in 1..L : s[m] \in S
  OBVIOUS
<1>3. /\ DOMAIN t = 1..(L - 1)
      /\ \A m \in 1..(L - 1) : t[m] = IF m = n THEN s[L] ELSE s[m]
  BY DEF SwapRemove
<1>4. t \in Seq(S) /\ Len(t) = L - 1
  <2>1. t = [m \in 1..(L - 1) |-> t[m]] /\ \A m \in 1..(L - 1) : t[m] \in S
    BY <1>1, <1>2, <1>3 DEF SwapRemove
  <2>2. t \in [1..(L - 1) -> S]
    BY <2>1
  <2>3. L - 1 \in Nat
    BY <1>1
  <2> QED BY <2>2, <2>3
<1> HIDE DEF t
<1>5. ToSet(t) = ToSet(s) \ {s[n]}
  <2>1. ASSUME NEW x \in ToSet(t) PROVE x \in ToSet(s) \ {s[n]}
    <3>1. PICK m \in 1..(L - 1) : t[m] = x
      BY <1>3 DEF ToSet
    <3>2. CASE m = n
      BY <1>1, <1>3, <3>1, <3>2 DEF ToSet, IsInjective
    <3>3. CASE m # n
      BY <1>1, <1>3, <3>1, <3>3 DEF ToSet, IsInjective
    <3> QED BY <3>2, <3>3
  <2>2. ASSUME NEW x \in ToSet(s) \ {s[n]} PROVE x \in ToSet(t)
    <3>1. PICK m \in 1..L : s[m] = x
      BY <1>1 DEF ToSet
    <3>2. m # n
      BY <3>1
    <3>3. CASE m = L
      <4>1. n \in DOMAIN t /\ t[n] = x
        BY <1>1, <1>3, <3>1, <3>2, <3>3
      <4> QED BY <4>1 DEF ToSet
    <3>4. CASE m # L
      <4>1. m \in 1..(L - 1)
        <5> HIDE DEF L
        <5> QED BY <1>1, <3>4
      <4>2. m \in DOMAIN t /\ t[m] = x
        BY <1>3, <3>1, <3>2, <4>1
      <4> QED BY <4>2 DEF ToSet
    <3> QED BY <3>3, <3>4
  <2> QED BY <2>1, <2>2
<1>6. IsInjective(t)
  <2>1. ASSUME NEW j \in 1..(L - 1), NEW k \in 1..(L - 1), t[j] = t[k] PROVE j = k
    BY <1>1, <1>3, <2>1 DEF IsInjective
  <2> QED BY <1>3, <2>1 DEF IsInjective
<1> QED BY <1>4, <1>5, <1>6 DEF t

-----------------------------------------------------------------------------
(*****************************************************************************)
(* The same of the other lists without an entry twice: queues taken from at  *)
(* the front, put back to at the front, and cleared of some; and a stack.    *)
(*****************************************************************************)
Unequal(S) == {pair \in S \X S : pair[1] # pair[2]}

LEMMA InjectiveIsOrdered ==
    ASSUME NEW S, NEW s \in Seq(S)
    PROVE  IsInjective(s) <=> Ordered(s, Unequal(S))
<1>1. DOMAIN s = 1..Len(s) /\ Len(s) \in Nat /\ \A n \in DOMAIN s : s[n] \in S
  OBVIOUS
<1>2. \A m, n \in DOMAIN s : <<s[m], s[n]>> \in Unequal(S) <=> s[m] # s[n]
  BY <1>1 DEF Unequal
<1>3. ASSUME IsInjective(s) PROVE Ordered(s, Unequal(S))
  BY <1>1, <1>2, <1>3 DEF IsInjective, Ordered
<1>4. ASSUME Ordered(s, Unequal(S)), NEW m \in DOMAIN s, NEW n \in DOMAIN s, s[m] = s[n] PROVE m = n
  <2>1. ~(m < n) /\ ~(n < m)
    BY <1>2, <1>4 DEF Ordered
  <2> QED BY <1>1, <2>1
<1> QED BY <1>3, <1>4 DEF IsInjective

LEMMA TailEntry ==
    ASSUME NEW S, NEW s \in Seq(S), s # <<>>, IsInjective(s)
    PROVE  /\ Head(s) \in S /\ Head(s) \in ToSet(s)
           /\ Tail(s) \in Seq(S)
           /\ ToSet(Tail(s)) = ToSet(s) \ {Head(s)}
           /\ IsInjective(Tail(s))
<1>1. Head(s) \in S /\ Tail(s) \in Seq(S) /\ ToSet(s) = {Head(s)} \cup ToSet(Tail(s))
  BY HeadAndTail
<1>2. Ordered(Tail(s), Unequal(S)) /\ \A x \in ToSet(Tail(s)) : <<Head(s), x>> \in Unequal(S)
  BY InjectiveIsOrdered, TailOrdered
<1>3. Head(s) \notin ToSet(Tail(s))
  BY <1>2 DEF Unequal
<1> QED BY <1>1, <1>2, <1>3, InjectiveIsOrdered

LEMMA PutBackEntry ==
    ASSUME NEW S, NEW s \in Seq(S), NEW e \in S, IsInjective(s), e \notin ToSet(s)
    PROVE  /\ <<e>> \o s \in Seq(S)
           /\ ToSet(<<e>> \o s) = ToSet(s) \cup {e}
           /\ IsInjective(<<e>> \o s)
<1> DEFINE t == <<e>> \o s
<1>1. /\ t \in Seq(S) /\ Len(s) \in Nat
      /\ DOMAIN t = 1..(Len(s) + 1) /\ DOMAIN s = 1..Len(s)
  OBVIOUS
<1>2. t[1] = e /\ \A n \in 1..Len(s) : t[n + 1] = s[n]
  OBVIOUS
<1> HIDE DEF t
<1>3. \A n \in DOMAIN t : n # 1 => n - 1 \in 1..Len(s) /\ t[n] = s[n - 1]
  <2> SUFFICES ASSUME NEW n \in 1..(Len(s) + 1), n # 1 PROVE n - 1 \in 1..Len(s) /\ t[n] = s[n - 1]
    BY <1>1
  <2>1. n - 1 \in 1..Len(s) /\ (n - 1) + 1 = n
    BY <1>1
  <2> QED BY <1>2, <2>1
<1>4. ToSet(t) = ToSet(s) \cup {e}
  <2>1. ASSUME NEW x \in ToSet(t) PROVE x \in ToSet(s) \cup {e}
    BY <1>1, <1>2, <1>3 DEF ToSet
  <2>2. ASSUME NEW x \in ToSet(s) PROVE x \in ToSet(t)
    <3>1. PICK n \in 1..Len(s) : s[n] = x
      BY <1>1 DEF ToSet
    <3>2. n + 1 \in DOMAIN t /\ t[n + 1] = x
      BY <1>1, <1>2, <3>1
    <3> QED BY <3>2 DEF ToSet
  <2>3. e \in ToSet(t)
    BY <1>1, <1>2 DEF ToSet
  <2> QED BY <2>1, <2>2, <2>3
<1>5. ASSUME NEW m \in DOMAIN t, NEW n \in DOMAIN t, t[m] = t[n] PROVE m = n
  <2>1. \A k \in 1..Len(s) : s[k] # e
    BY <1>1 DEF ToSet
  <2>2. CASE m = 1 \/ n = 1
    BY <1>2, <1>3, <1>5, <2>1, <2>2
  <2>3. CASE m # 1 /\ n # 1
    <3>1. s[m - 1] = s[n - 1] /\ m - 1 \in DOMAIN s /\ n - 1 \in DOMAIN s
      BY <1>1, <1>3, <1>5, <2>3
    <3>2. m - 1 = n - 1
      BY <3>1 DEF IsInjective
    <3> QED BY <1>1, <3>2
  <2> QED BY <2>2, <2>3
<1> QED BY <1>1, <1>4, <1>5 DEF IsInjective, t

LEMMA WithoutEntries ==
    ASSUME NEW S, NEW s \in Seq(S), IsInjective(s), NEW T
    PROVE  /\ Without(s, T) \in Seq(S)
           /\ ToSet(Without(s, T)) = ToSet(s) \ T
           /\ IsInjective(Without(s, T))
<1>1. Without(s, T) \in Seq(S) /\ ToSet(Without(s, T)) = ToSet(s) \ T
  BY WithoutSet
<1>2. Ordered(Without(s, T), Unequal(S))
  BY InjectiveIsOrdered, WithoutOrdered
<1> QED BY <1>1, <1>2, InjectiveIsOrdered

LEMMA WithinEntries ==
    ASSUME NEW S, NEW s \in Seq(S), IsInjective(s), NEW T
    PROVE  /\ Within(s, T) \in Seq(S)
           /\ ToSet(Within(s, T)) = ToSet(s) \cap T
           /\ IsInjective(Within(s, T))
<1>1. Within(s, T) \in Seq(S) /\ ToSet(Within(s, T)) = ToSet(s) \cap T
  BY WithinSet
<1>2. Ordered(Within(s, T), Unequal(S))
  BY InjectiveIsOrdered, WithinOrdered
<1> QED BY <1>1, <1>2, InjectiveIsOrdered

LEMMA FrontAndLast ==
    ASSUME NEW S, NEW s \in Seq(S), s # <<>>
    PROVE  /\ Front(s) \in Seq(S) /\ Last(s) \in S
           /\ Len(Front(s)) = Len(s) - 1
           /\ s = Append(Front(s), Last(s))
<1>1. Len(s) \in Nat /\ Len(s) >= 1 /\ DOMAIN s = 1..Len(s)
  OBVIOUS
<1>2. Front(s) \in Seq(S) /\ Len(Front(s)) = Len(s) - 1 /\ \A n \in 1..(Len(s) - 1) : Front(s)[n] = s[n]
  BY <1>1 DEF Front
<1>3. Last(s) \in S /\ Last(s) = s[Len(s)]
  BY <1>1 DEF Last
<1> DEFINE f == Front(s)
           l == Last(s)
<1> HIDE DEF f, l
<1>4. s = Append(f, l)
  <2>1. f \in Seq(S) /\ l \in S /\ Len(f) = Len(s) - 1
    BY <1>2, <1>3 DEF f, l
  <2>2. Append(f, l) \in Seq(S) /\ Len(Append(f, l)) = Len(s)
    <3>1. Append(f, l) \in Seq(S) /\ Len(Append(f, l)) = Len(f) + 1
      BY <2>1
    <3> QED BY <1>1, <2>1, <3>1
  <2>3. \A n \in 1..Len(s) : s[n] = Append(f, l)[n]
    BY <1>1, <1>2, <1>3, <2>1 DEF f, l
  <2> QED BY <2>2, <2>3
<1> QED BY <1>2, <1>3, <1>4 DEF f, l

\* What is under what was pushed.
LEMMA FrontOfPushed ==
    ASSUME NEW S, NEW s \in Seq(S), NEW e \in S
    PROVE  Front(Append(s, e)) = s /\ Last(Append(s, e)) = e
<1> DEFINE t == Append(s, e)
           L == Len(s)
<1>1. /\ L \in Nat /\ t \in Seq(S) /\ Len(t) = L + 1 /\ t[L + 1] = e
      /\ \A n \in 1..L : t[n] = s[n]
      /\ DOMAIN s = 1..L
  OBVIOUS
<1> HIDE DEF t
<1>2. Front(t) \in Seq(S) /\ Len(Front(t)) = L /\ \A n \in 1..L : Front(t)[n] = t[n]
  BY <1>1 DEF Front
<1>3. Front(t) = s
  BY <1>1, <1>2
<1>4. Last(t) = e
  BY <1>1 DEF Last
<1> QED BY <1>3, <1>4 DEF t

LEMMA FunctionIsList ==
    ASSUME NEW S, NEW n \in Nat, NEW f \in [1..n -> S]
    PROVE  f \in Seq(S)
OBVIOUS

\* What two lists hold, one after the other.
LEMMA JoinedSet ==
    ASSUME NEW S, NEW a \in Seq(S), NEW b \in Seq(S)
    PROVE  ToSet(a \o b) = ToSet(a) \cup ToSet(b)
<1> DEFINE t == a \o b
<1>1. /\ t \in Seq(S) /\ Len(a) \in Nat /\ Len(b) \in Nat
      /\ DOMAIN t = 1..(Len(a) + Len(b)) /\ DOMAIN a = 1..Len(a) /\ DOMAIN b = 1..Len(b)
      /\ \A n \in 1..Len(a) : t[n] = a[n]
      /\ \A n \in (Len(a) + 1)..(Len(a) + Len(b)) : t[n] = b[n - Len(a)]
  OBVIOUS
<1> HIDE DEF t
<1>2. ASSUME NEW n \in DOMAIN t PROVE t[n] \in ToSet(a) \cup ToSet(b)
  <2>1. CASE n <= Len(a)
    BY <1>1, <2>1 DEF ToSet
  <2>2. CASE n > Len(a)
    <3>1. n - Len(a) \in DOMAIN b /\ t[n] = b[n - Len(a)]
      BY <1>1, <2>2
    <3> QED BY <3>1 DEF ToSet
  <2> QED BY <1>1, <2>1, <2>2
<1>3. ASSUME NEW n \in DOMAIN a PROVE a[n] \in ToSet(t)
  BY <1>1 DEF ToSet
<1>4. ASSUME NEW n \in DOMAIN b PROVE b[n] \in ToSet(t)
  <2>1. PICK m : m = n + Len(a)
    OBVIOUS
  <2>2. m \in DOMAIN t /\ t[m] = b[n]
    BY <1>1, <2>1
  <2> QED BY <2>2 DEF ToSet
<1>5. ToSet(t) = ToSet(a) \cup ToSet(b)
  BY <1>2, <1>3, <1>4 DEF ToSet
<1> QED BY <1>5 DEF t

\* A set written as a list, in some order.
LEMMA SetToSeqsEntries ==
    ASSUME NEW S, IsFiniteSet(S), NEW s \in SetToSeqs(S)
    PROVE  s \in Seq(S) /\ ToSet(s) = S /\ IsInjective(s) /\ Len(s) = Cardinality(S)
<1> DEFINE n == Cardinality(S)
<1>1. n \in Nat
  BY FS_CardinalityType
<1>2. s \in [1..n -> S] /\ \A a, b \in 1..n : a # b => s[a] # s[b]
  BY DEF SetToSeqs
<1>3. s \in Seq(S) /\ DOMAIN s = 1..n /\ Len(s) = n /\ IsInjective(s)
  BY <1>1, <1>2 DEF IsInjective
<1>4. s \in Injection(1..n, S)
  BY <1>2, <1>3 DEF Injection, IsInjective
<1>5. IsFiniteSet(1..n) /\ Cardinality(1..n) = n
  <2>1. \A m \in Nat : IsFiniteSet(1..m) /\ Cardinality(1..m) = m
    BY FS_Interval
  <2> QED BY <1>1, <2>1
<1>6. s \in Surjection(1..n, S)
  BY <1>4, <1>5, FS_Injection
<1> QED BY <1>3, <1>6 DEF ToSet, Surjection

\* A set written as a list.
LEMMA SetToSeqEntries ==
    ASSUME NEW S, IsFiniteSet(S)
    PROVE  SetToSeq(S) \in Seq(S) /\ ToSet(SetToSeq(S)) = S /\ IsInjective(SetToSeq(S))
<1> DEFINE n == Cardinality(S)
           f == SetToSeq(S)
<1>1. n \in Nat
  BY FS_CardinalityType
<1>2. PICK b : b \in Bijection(1..n, S)
  BY <1>1, FS_CardinalityType DEF ExistsBijection
<1>3. b \in [1..n -> S] /\ IsInjective(b)
  BY <1>2 DEF Bijection, Injection, IsInjective
<1>4. f \in [1..n -> S] /\ IsInjective(f)
  BY <1>3 DEF SetToSeq
<1> HIDE DEF f
<1>5. f \in Injection(1..n, S)
  BY <1>4 DEF Injection, IsInjective
<1>6. IsFiniteSet(1..n) /\ Cardinality(1..n) = n
  <2>1. \A m \in Nat : IsFiniteSet(1..m) /\ Cardinality(1..m) = m
    BY FS_Interval
  <2> QED BY <1>1, <2>1
<1>7. f \in Surjection(1..n, S)
  BY <1>5, <1>6, FS_Injection
<1>8. f \in Seq(S) /\ DOMAIN f = 1..n
  BY <1>1, <1>4
<1>9. ToSet(f) = S
  BY <1>7, <1>8 DEF ToSet, Surjection
<1> QED BY <1>4, <1>8, <1>9 DEF f

-----------------------------------------------------------------------------
(*****************************************************************************)
(* How many entries of a list are in a set, with repetitions.                *)
(*****************************************************************************)
CountIn(list, set) == Len(Within(list, set))
One(e, set) == IF e \in set THEN 1 ELSE 0

LEMMA CountType ==
    ASSUME NEW S, NEW s \in Seq(S), NEW T
    PROVE  /\ CountIn(s, T) \in Nat
           /\ CountIn(s, T) = 0 <=> ToSet(s) \cap T = {}
<1> DEFINE w == Within(s, T)
<1>1. w \in Seq(S) /\ ToSet(w) = ToSet(s) \cap T
  BY WithinSet
<1> HIDE DEF w
<1>2. Len(w) \in Nat /\ (Len(w) = 0 <=> w = <<>>) /\ DOMAIN w = 1..Len(w)
  BY <1>1
<1>3. w = <<>> <=> ToSet(w) = {}
  <2>1. w = <<>> => ToSet(w) = {}
    BY EmptyList
  <2>2. ASSUME w # <<>> PROVE ToSet(w) # {}
    <3>1. 1 \in DOMAIN w
      BY <1>2, <2>2
    <3> QED BY <3>1 DEF ToSet
  <2> QED BY <2>1, <2>2
<1> QED BY <1>1, <1>2, <1>3 DEF CountIn, w

LEMMA CountNone == \A T : CountIn(<<>>, T) = 0
BY WithinNone DEF CountIn

LEMMA CountAppend ==
    ASSUME NEW S, NEW s \in Seq(S), NEW e \in S, NEW T
    PROVE  CountIn(Append(s, e), T) = CountIn(s, T) + One(e, T)
<1> DEFINE w == Within(s, T)
<1>1. w \in Seq(S)
  BY WithinSet
<1>2. Within(Append(s, e), T) = IF e \in T THEN Append(w, e) ELSE w
  BY WithinAppend
<1> HIDE DEF w
<1>3. Len(Append(w, e)) = Len(w) + 1 /\ Len(w) \in Nat
  BY <1>1
<1> QED BY <1>2, <1>3 DEF CountIn, One, w

LEMMA CountJoin ==
    ASSUME NEW S, NEW s \in Seq(S), NEW t \in Seq(S), NEW T
    PROVE  CountIn(s \o t, T) = CountIn(s, T) + CountIn(t, T)
<1> DEFINE C == {u \in Seq(S) : CountIn(s \o u, T) = CountIn(s, T) + CountIn(u, T)}
<1>1. <<>> \in C
  <2>1. s \o <<>> = s /\ CountIn(s, T) \in Nat
    BY CountType
  <2> QED BY <2>1, CountNone
<1>2. ASSUME NEW u \in Seq(S), NEW e \in S, u \in C PROVE Append(u, e) \in C
  <2>1. s \o Append(u, e) = Append(s \o u, e) /\ s \o u \in Seq(S) /\ Append(u, e) \in Seq(S)
    OBVIOUS
  <2>2. CountIn(Append(s \o u, e), T) = CountIn(s \o u, T) + One(e, T)
    BY <2>1, CountAppend
  <2>3. CountIn(Append(u, e), T) = CountIn(u, T) + One(e, T)
    BY CountAppend
  <2>4. CountIn(s, T) \in Nat /\ CountIn(u, T) \in Nat /\ One(e, T) \in Nat
    BY CountType DEF One
  <2>5. CountIn(s \o u, T) = CountIn(s, T) + CountIn(u, T)
    BY <1>2
  <2> DEFINE v == Append(u, e)
  <2>6. CountIn(s \o v, T) = CountIn(s \o u, T) + One(e, T)
    BY <2>1, <2>2 DEF v
  <2>7. CountIn(v, T) = CountIn(u, T) + One(e, T) /\ v \in Seq(S)
    BY <2>1, <2>3 DEF v
  <2> HIDE DEF v
  <2>8. CountIn(s \o v, T) = CountIn(s, T) + CountIn(v, T)
    BY <2>4, <2>5, <2>6, <2>7
  <2>9. v \in C
    BY <2>7, <2>8
  <2> QED BY <2>9 DEF v
<1>3. t \in C
  <2> HIDE DEF C
  <2> QED BY <1>1, <1>2, SeqInduction
<1> QED BY <1>3

LEMMA CountOne == \A e, T : CountIn(<<e>>, T) = One(e, T)
<1> TAKE e, T
<1>1. <<>> \in Seq({e}) /\ e \in {e} /\ Append(<<>>, e) = <<e>>
  OBVIOUS
<1>2. CountIn(Append(<<>>, e), T) = CountIn(<<>>, T) + One(e, T)
  BY <1>1, CountAppend
<1> QED BY <1>1, <1>2, CountNone DEF One

LEMMA CountTail ==
    ASSUME NEW S, NEW s \in Seq(S), s # <<>>, NEW T
    PROVE  CountIn(s, T) = One(Head(s), T) + CountIn(Tail(s), T)
<1>1. Head(s) \in S /\ Tail(s) \in Seq(S) /\ s = <<Head(s)>> \o Tail(s) /\ <<Head(s)>> \in Seq(S)
  OBVIOUS
<1> DEFINE h == Head(s)
           t == Tail(s)
<1>2. CountIn(<<h>> \o t, T) = CountIn(<<h>>, T) + CountIn(t, T)
  BY <1>1, CountJoin
<1> QED BY <1>1, <1>2, CountOne

\* Lists of one length whose entries are, place by place, both in their sets or both not.
LEMMA CountAlike ==
    ASSUME NEW S, NEW s \in Seq(S), NEW T, NEW R, NEW t \in Seq(R), NEW U, Len(t) = Len(s),
           \A n \in 1..Len(s) : s[n] \in T <=> t[n] \in U
    PROVE  CountIn(s, T) = CountIn(t, U)
<1> DEFINE C == {v \in Seq(S) : \A w \in Seq(R) :
                   /\ Len(w) = Len(v)
                   /\ \A n \in 1..Len(v) : v[n] \in T <=> w[n] \in U
                   => CountIn(v, T) = CountIn(w, U)}
<1>1. <<>> \in C
  <2>1. \A w \in Seq(R) : Len(w) = Len(<<>>) => w = <<>>
    OBVIOUS
  <2>2. <<>> \in Seq(S) /\ CountIn(<<>>, T) = CountIn(<<>>, U)
    BY CountNone
  <2>3. ASSUME NEW w \in Seq(R), Len(w) = Len(<<>>) PROVE CountIn(<<>>, T) = CountIn(w, U)
    <3>1. w = <<>>
      BY <2>1, <2>3
    <3> QED BY <2>2, <3>1
  <2> QED BY <2>2, <2>3
<1>2. ASSUME NEW v \in Seq(S), NEW e \in S, v \in C PROVE Append(v, e) \in C
  <2> DEFINE x == Append(v, e)
  <2>1. /\ x \in Seq(S) /\ Len(x) = Len(v) + 1 /\ Len(v) \in Nat /\ x[Len(v) + 1] = e
        /\ \A n \in 1..Len(v) : x[n] = v[n]
    OBVIOUS
  <2> HIDE DEF x
  <2>2. ASSUME NEW w \in Seq(R), Len(w) = Len(x), \A n \in 1..Len(x) : x[n] \in T <=> w[n] \in U
        PROVE  CountIn(x, T) = CountIn(w, U)
    <3> DEFINE f == Front(w)
               l == Last(w)
    <3>1. w # <<>>
      BY <2>1, <2>2
    <3>2. f \in Seq(R) /\ l \in R /\ Len(f) = Len(v) /\ w = Append(f, l)
      <4>1. /\ Front(w) \in Seq(R) /\ Last(w) \in R /\ Len(Front(w)) = Len(w) - 1
            /\ w = Append(Front(w), Last(w))
        BY <3>1, FrontAndLast
      <4>2. Len(w) - 1 = Len(v)
        BY <2>1, <2>2
      <4> QED BY <4>1, <4>2
    <3> HIDE DEF f, l
    <3>3. w[Len(v) + 1] = l /\ \A n \in 1..Len(v) : w[n] = f[n]
      BY <3>2
    <3>4. e \in T <=> l \in U
      <4>1. Len(v) + 1 \in 1..Len(x)
        BY <2>1
      <4> QED BY <2>1, <2>2, <3>3, <4>1
    <3>5. \A n \in 1..Len(v) : v[n] \in T <=> f[n] \in U
      <4>1. \A n \in 1..Len(v) : n \in 1..Len(x)
        BY <2>1
      <4> QED BY <2>1, <2>2, <3>3, <4>1
    <3>6. CountIn(v, T) = CountIn(f, U)
      BY <1>2, <3>2, <3>5
    <3>7. CountIn(Append(v, e), T) = CountIn(v, T) + One(e, T)
      BY CountAppend
    <3>8. CountIn(Append(f, l), U) = CountIn(f, U) + One(l, U)
      BY <3>2, CountAppend
    <3> QED BY <3>2, <3>4, <3>6, <3>7, <3>8 DEF One, x
  <2> QED BY <2>1, <2>2 DEF x
<1>3. s \in C
  <2> HIDE DEF C
  <2> QED BY <1>1, <1>2, SeqInduction
<1> QED BY <1>3

\* A filtered list.
LEMMA CountWithin ==
    ASSUME NEW S, NEW s \in Seq(S), NEW T, NEW U
    PROVE  CountIn(Within(s, T), U) = CountIn(s, T \cap U)
<1> DEFINE C == {t \in Seq(S) : CountIn(Within(t, T), U) = CountIn(t, T \cap U)}
<1>1. <<>> \in C
  BY WithinNone, CountNone
<1>2. ASSUME NEW t \in Seq(S), NEW e \in S, t \in C PROVE Append(t, e) \in C
  <2> DEFINE w == Within(t, T)
  <2>1. w \in Seq(S) /\ Append(t, e) \in Seq(S)
    BY WithinSet
  <2>2. Within(Append(t, e), T) = IF e \in T THEN Append(w, e) ELSE w
    BY WithinAppend
  <2>3. CountIn(w, U) = CountIn(t, T \cap U)
    BY <1>2
  <2> HIDE DEF w
  <2>4. CountIn(Append(w, e), U) = CountIn(w, U) + One(e, U)
    BY <2>1, CountAppend
  <2>5. CountIn(Append(t, e), T \cap U) = CountIn(t, T \cap U) + One(e, T \cap U)
    BY CountAppend
  <2>6. CountIn(t, T \cap U) \in Nat
    BY CountType
  <2>7. CountIn(Within(Append(t, e), T), U) = CountIn(Append(t, e), T \cap U)
    <3>1. CASE e \in T
      <4>1. One(e, U) = One(e, T \cap U)
        BY <3>1 DEF One
      <4> QED BY <2>2, <2>3, <2>4, <2>5, <3>1, <4>1
    <3>2. CASE e \notin T
      <4>1. One(e, T \cap U) = 0
        BY <3>2 DEF One
      <4> QED BY <2>2, <2>3, <2>5, <2>6, <3>2, <4>1
    <3> QED BY <3>1, <3>2
  <2> QED BY <2>1, <2>7
<1>3. s \in C
  <2> HIDE DEF C
  <2> QED BY <1>1, <1>2, SeqInduction
<1> QED BY <1>3
-----------------------------------------------------------------------------
(*****************************************************************************)
(* Lists of lists, put one after the other.  FlattenRec is the equation that *)
(* the function inside FlattenSeq is chosen by.                              *)
(*****************************************************************************)
FlattenRec(lists, m, g) ==
    g = [i \in 1..m |-> IF i = 1 THEN lists[i] ELSE g[i - 1] \o lists[i]]

LEMMA FlattenIsRec ==
    ASSUME NEW s, Len(s) # 0
    PROVE  FlattenSeq(s) = (CHOOSE g : FlattenRec(s, Len(s), g))[Len(s)]
BY DEF FlattenSeq, FlattenRec

LEMMA FlattenExists ==
    ASSUME NEW s, NEW m \in Nat
    PROVE  \E g : FlattenRec(s, m, g)
<1> DEFINE N == {n \in Nat : \E g : FlattenRec(s, n, g)}
<1>1. 0 \in N
  <2>1. FlattenRec(s, 0, [n \in 1..0 |-> <<>>])
    BY DEF FlattenRec
  <2> QED BY <2>1
<1>2. ASSUME NEW n \in Nat, n \in N PROVE n + 1 \in N
  <2>1. PICK g : FlattenRec(s, n, g)
    BY <1>2
  <2> DEFINE h == [i \in 1..(n + 1) |-> IF i = 1 THEN s[i] ELSE g[i - 1] \o s[i]]
  <2>2. \A i \in 1..n : h[i] = g[i]
    <3>1. \A i \in 1..n : g[i] = IF i = 1 THEN s[i] ELSE g[i - 1] \o s[i]
      BY <2>1 DEF FlattenRec
    <3>2. \A i \in 1..n : i \in 1..(n + 1)
      OBVIOUS
    <3> QED BY <3>1, <3>2
  <2>3. \A i \in 1..(n + 1) : i # 1 => i - 1 \in 1..n
    OBVIOUS
  <2>4. FlattenRec(s, n + 1, h)
    BY <2>2, <2>3 DEF FlattenRec
  <2> QED BY <2>4
<1>3. Nat \subseteq N
  <2> HIDE DEF N
  <2> QED BY <1>1, <1>2, SetInduction
<1> QED BY <1>3

LEMMA FlattenUnique ==
    ASSUME NEW s, NEW t, NEW m \in Nat, NEW k \in 1..m, NEW g, NEW h,
           \A n \in 1..k : s[n] = t[n],
           FlattenRec(s, m, g), FlattenRec(t, k, h)
    PROVE  g[k] = h[k]
<1> DEFINE N == {n \in Nat : n # 0 /\ n <= k => g[n] = h[n]}
<1>1. \A n \in 1..k : /\ g[n] = IF n = 1 THEN s[n] ELSE g[n - 1] \o s[n]
                      /\ h[n] = IF n = 1 THEN t[n] ELSE h[n - 1] \o t[n]
  <2>1. \A n \in 1..m : g[n] = IF n = 1 THEN s[n] ELSE g[n - 1] \o s[n]
    BY DEF FlattenRec
  <2>2. \A n \in 1..k : h[n] = IF n = 1 THEN t[n] ELSE h[n - 1] \o t[n]
    BY DEF FlattenRec
  <2>3. \A n \in 1..k : n \in 1..m
    OBVIOUS
  <2> QED BY <2>1, <2>2, <2>3
<1>2. 0 \in N
  OBVIOUS
<1>3. ASSUME NEW n \in Nat, n \in N PROVE n + 1 \in N
  <2> SUFFICES ASSUME n + 1 <= k PROVE g[n + 1] = h[n + 1]
    OBVIOUS
  <2>1. n + 1 \in 1..k /\ (n + 1) - 1 = n /\ s[n + 1] = t[n + 1]
    OBVIOUS
  <2>2. n + 1 # 1 => g[n] = h[n]
    BY <1>3
  <2> QED BY <1>1, <2>1, <2>2
<1>4. Nat \subseteq N
  <2> HIDE DEF N
  <2> QED BY <1>2, <1>3, SetInduction
<1> QED BY <1>4

LEMMA FlattenAppend ==
    ASSUME NEW S, NEW w \in Seq(Seq(S)), NEW e \in Seq(S), FlattenSeq(w) \in Seq(S)
    PROVE  FlattenSeq(Append(w, e)) = FlattenSeq(w) \o e
<1> DEFINE t == Append(w, e)
           k == Len(w)
           h == CHOOSE h : FlattenRec(w, k, h)
           g == CHOOSE g : FlattenRec(t, k + 1, g)
<1>1. k \in Nat /\ Len(t) = k + 1 /\ t[k + 1] = e /\ \A n \in 1..k : t[n] = w[n]
  OBVIOUS
<1>2. FlattenRec(w, k, h) /\ FlattenRec(t, k + 1, g)
  <2>1. k \in Nat /\ k + 1 \in Nat
    BY <1>1
  <2>2. (\E f : FlattenRec(w, k, f)) /\ (\E f : FlattenRec(t, k + 1, f))
    <3> HIDE DEF t, k
    <3> QED BY <2>1, FlattenExists
  <2> QED BY <2>2
<1>3. FlattenSeq(t) = g[k + 1]
  <2>1. Len(t) # 0
    BY <1>1
  <2> QED BY <1>1, <2>1, FlattenIsRec
<1>4. k # 0 => FlattenSeq(w) = h[k]
  BY <1>1, FlattenIsRec
<1>5. k = 0 => FlattenSeq(w) = <<>>
  BY <1>1 DEF FlattenSeq
<1> HIDE DEF t, k, h, g
<1>6. g[k + 1] = IF k = 0 THEN e ELSE g[k] \o e
  <2> k \in Nat
    BY <1>1
  <2>1. k + 1 \in 1..(k + 1) /\ (k + 1 = 1 <=> k = 0) /\ (k + 1) - 1 = k
    OBVIOUS
  <2>2. \A i \in 1..(k + 1) : g[i] = IF i = 1 THEN t[i] ELSE g[i - 1] \o t[i]
    BY <1>2 DEF FlattenRec
  <2> QED BY <1>1, <2>1, <2>2
<1>7. k # 0 => g[k] = h[k]
  <2> SUFFICES ASSUME k # 0 PROVE g[k] = h[k]
    OBVIOUS
  <2>1. k + 1 \in Nat /\ k \in 1..(k + 1)
    BY <1>1
  <2> QED BY <1>1, <1>2, <2>1, FlattenUnique
<1>8. <<>> \o e = e
  OBVIOUS
<1>9. FlattenSeq(t) = FlattenSeq(w) \o e
  <2>1. CASE k = 0
    BY <1>3, <1>5, <1>6, <1>8, <2>1
  <2>2. CASE k # 0
    BY <1>3, <1>4, <1>6, <1>7, <2>2
  <2> QED BY <2>1, <2>2
<1> QED BY <1>9 DEF t

LEMMA FlattenNone == FlattenSeq(<<>>) = <<>>
BY DEF FlattenSeq

LEMMA FlattenType ==
    ASSUME NEW S, NEW w \in Seq(Seq(S))
    PROVE  FlattenSeq(w) \in Seq(S)
<1> DEFINE C == {v \in Seq(Seq(S)) : FlattenSeq(v) \in Seq(S)}
<1>1. <<>> \in C
  <2>1. <<>> \in Seq(S) /\ <<>> \in Seq(Seq(S))
    OBVIOUS
  <2> QED BY <2>1, FlattenNone
<1>2. ASSUME NEW v \in Seq(Seq(S)), NEW e \in Seq(S), v \in C PROVE Append(v, e) \in C
  <2>1. FlattenSeq(v) \in Seq(S)
    BY <1>2
  <2>2. FlattenSeq(Append(v, e)) = FlattenSeq(v) \o e
    BY <2>1, FlattenAppend
  <2>3. Append(v, e) \in Seq(Seq(S)) /\ FlattenSeq(v) \o e \in Seq(S)
    BY <2>1
  <2> QED BY <2>2, <2>3
<1>3. w \in C
  <2> HIDE DEF C
  <2> QED BY <1>1, <1>2, SeqInduction
<1> QED BY <1>3

\* What is in one of the lists is in all of them together.
LEMMA FlattenHas ==
    ASSUME NEW S, NEW w \in Seq(Seq(S))
    PROVE  \A n \in DOMAIN w : ToSet(w[n]) \subseteq ToSet(FlattenSeq(w))
<1> DEFINE C == {v \in Seq(Seq(S)) : \A n \in DOMAIN v : ToSet(v[n]) \subseteq ToSet(FlattenSeq(v))}
<1>1. <<>> \in C
  OBVIOUS
<1>2. ASSUME NEW v \in Seq(Seq(S)), NEW e \in Seq(S), v \in C PROVE Append(v, e) \in C
  <2> DEFINE t == Append(v, e)
  <2>1. /\ t \in Seq(Seq(S)) /\ Len(v) \in Nat /\ DOMAIN t = 1..(Len(v) + 1) /\ DOMAIN v = 1..Len(v)
        /\ t[Len(v) + 1] = e /\ \A n \in 1..Len(v) : t[n] = v[n]
    OBVIOUS
  <2>2. FlattenSeq(v) \in Seq(S)
    BY FlattenType
  <2>3. FlattenSeq(t) = FlattenSeq(v) \o e
    BY <2>2, FlattenAppend
  <2>4. ToSet(FlattenSeq(t)) = ToSet(FlattenSeq(v)) \cup ToSet(e)
    BY <2>2, <2>3, JoinedSet
  <2>5. \A n \in DOMAIN v : ToSet(v[n]) \subseteq ToSet(FlattenSeq(v))
    BY <1>2
  <2> HIDE DEF t
  <2>6. ASSUME NEW n \in DOMAIN t PROVE ToSet(t[n]) \subseteq ToSet(FlattenSeq(t))
    <3>1. CASE n \in DOMAIN v
      BY <2>1, <2>4, <2>5, <3>1
    <3>2. CASE n = Len(v) + 1
      BY <2>1, <2>4, <3>2
    <3> QED BY <2>1, <3>1, <3>2
  <2> QED BY <2>1, <2>6 DEF t
<1>3. Seq(Seq(S)) \subseteq C
  <2> HIDE DEF C
  <2> QED BY <1>1, <1>2, SeqInduction
<1> QED BY <1>3

\* How many of the entries of all lists are in a set.
LEMMA FlatCountAppend ==
    ASSUME NEW S, NEW w \in Seq(Seq(S)), NEW e \in Seq(S), NEW T
    PROVE  CountIn(FlattenSeq(Append(w, e)), T) = CountIn(FlattenSeq(w), T) + CountIn(e, T)
<1>1. FlattenSeq(w) \in Seq(S)
  BY FlattenType
<1>2. FlattenSeq(Append(w, e)) = FlattenSeq(w) \o e
  BY <1>1, FlattenAppend
<1>3. CountIn(FlattenSeq(w) \o e, T) = CountIn(FlattenSeq(w), T) + CountIn(e, T)
  BY <1>1, CountJoin
<1> QED BY <1>2, <1>3

LEMMA FlatCountTail ==
    ASSUME NEW S, NEW w \in Seq(Seq(S)), w # <<>>, NEW T
    PROVE  CountIn(FlattenSeq(w), T) = CountIn(Head(w), T) + CountIn(FlattenSeq(Tail(w)), T)
<1> DEFINE F(v) == CountIn(FlattenSeq(v), T)
           h == Head(w)
<1>1. h \in Seq(S) /\ Tail(w) \in Seq(Seq(S)) /\ w = <<h>> \o Tail(w)
  OBVIOUS
<1> HIDE DEF h
<1> DEFINE C == {v \in Seq(Seq(S)) : F(<<h>> \o v) = CountIn(h, T) + F(v)}
<1>2. \A v \in Seq(Seq(S)) : F(v) \in Nat
  BY FlattenType, CountType
<1>3. \A v \in Seq(Seq(S)) : \A e \in Seq(S) : F(Append(v, e)) = F(v) + CountIn(e, T)
  BY FlatCountAppend
<1>4. CountIn(h, T) \in Nat
  BY <1>1, CountType
<1>5. F(<<>>) = 0
  BY FlattenNone, CountNone
<1> HIDE DEF F
<1>6. <<>> \in C
  <2>1. <<h>> \o <<>> = Append(<<>>, h) /\ <<>> \in Seq(Seq(S))
    BY <1>1
  <2>2. F(Append(<<>>, h)) = F(<<>>) + CountIn(h, T)
    BY <1>1, <1>3, <2>1
  <2> QED BY <1>4, <1>5, <2>1, <2>2
<1>7. ASSUME NEW v \in Seq(Seq(S)), NEW e \in Seq(S), v \in C PROVE Append(v, e) \in C
  <2> DEFINE u == <<h>> \o v
             x == Append(v, e)
  <2>1. /\ <<h>> \o x = Append(u, e) /\ u \in Seq(Seq(S)) /\ x \in Seq(Seq(S))
    BY <1>1
  <2>2. F(u) = CountIn(h, T) + F(v)
    BY <1>7
  <2>3. F(x) = F(v) + CountIn(e, T)
    BY <1>3
  <2> HIDE DEF x, u
  <2>4. F(Append(u, e)) = F(u) + CountIn(e, T)
    BY <1>3, <2>1
  <2>5. CountIn(e, T) \in Nat /\ F(v) \in Nat
    BY <1>2, CountType
  <2>6. F(<<h>> \o x) = CountIn(h, T) + F(x)
    <3>1. F(<<h>> \o x) = F(u) + CountIn(e, T)
      BY <2>1, <2>4
    <3> QED BY <1>4, <2>2, <2>3, <2>5, <3>1
  <2>7. x \in C
    BY <2>1, <2>6
  <2> QED BY <2>7 DEF x
<1>8. Tail(w) \in C
  <2> HIDE DEF C
  <2> QED BY <1>1, <1>6, <1>7, SeqInduction
<1> QED BY <1>1, <1>8 DEF F, h

\* One list after another is in order when each is, and all of the first with all of the second.
LEMMA JoinedOrdered ==
    ASSUME NEW S, NEW a \in Seq(S), NEW b \in Seq(S), NEW Less
    PROVE  Ordered(a \o b, Less)
              <=> Ordered(a, Less) /\ Ordered(b, Less) /\ \A x \in ToSet(a), y \in ToSet(b) : <<x, y>> \in Less
<1> DEFINE t == a \o b
<1>1. /\ Len(a) \in Nat /\ Len(b) \in Nat
      /\ DOMAIN t = 1..(Len(a) + Len(b)) /\ DOMAIN a = 1..Len(a) /\ DOMAIN b = 1..Len(b)
      /\ \A n \in 1..Len(a) : t[n] = a[n]
      /\ \A n \in (Len(a) + 1)..(Len(a) + Len(b)) : t[n] = b[n - Len(a)]
  OBVIOUS
<1> HIDE DEF t
<1>2. \A n \in DOMAIN b : n + Len(a) \in DOMAIN t /\ t[n + Len(a)] = b[n]
  <2> SUFFICES ASSUME NEW n \in DOMAIN b PROVE n + Len(a) \in DOMAIN t /\ t[n + Len(a)] = b[n]
    OBVIOUS
  <2>1. PICK m : m = n + Len(a)
    OBVIOUS
  <2>2. m \in (Len(a) + 1)..(Len(a) + Len(b)) /\ m - Len(a) = n
    BY <1>1, <2>1
  <2> QED BY <1>1, <2>1, <2>2
<1>3. ASSUME Ordered(t, Less)
      PROVE  Ordered(a, Less) /\ Ordered(b, Less) /\ \A x \in ToSet(a), y \in ToSet(b) : <<x, y>> \in Less
  <2>1. Ordered(a, Less)
    BY <1>1, <1>3 DEF Ordered
  <2>2. ASSUME NEW m \in DOMAIN b, NEW n \in DOMAIN b, m < n PROVE <<b[m], b[n]>> \in Less
    <3>1. /\ m + Len(a) \in DOMAIN t /\ n + Len(a) \in DOMAIN t
          /\ t[m + Len(a)] = b[m] /\ t[n + Len(a)] = b[n]
      BY <1>2
    <3>2. m + Len(a) < n + Len(a)
      BY <1>1, <2>2
    <3> QED BY <1>3, <3>1, <3>2 DEF Ordered
  <2>3. ASSUME NEW m \in DOMAIN a, NEW n \in DOMAIN b PROVE <<a[m], b[n]>> \in Less
    <3>1. n + Len(a) \in DOMAIN t /\ t[n + Len(a)] = b[n] /\ m \in DOMAIN t /\ t[m] = a[m]
      BY <1>1, <1>2
    <3>2. m < n + Len(a)
      BY <1>1
    <3> QED BY <1>3, <3>1, <3>2 DEF Ordered
  <2> QED BY <2>1, <2>2, <2>3 DEF Ordered, ToSet
<1>4. ASSUME Ordered(a, Less), Ordered(b, Less), \A x \in ToSet(a), y \in ToSet(b) : <<x, y>> \in Less,
             NEW m \in DOMAIN t, NEW n \in DOMAIN t, m < n
      PROVE  <<t[m], t[n]>> \in Less
  <2>1. CASE n \in DOMAIN a
    BY <1>1, <1>4, <2>1 DEF Ordered
  <2>2. CASE n \notin DOMAIN a
    <3>1. n \in (Len(a) + 1)..(Len(a) + Len(b)) /\ n - Len(a) \in DOMAIN b /\ t[n] = b[n - Len(a)]
      <4>1. n \in 1..(Len(a) + Len(b)) /\ ~(n \in 1..Len(a))
        BY <1>1, <2>2
      <4>2. n \in (Len(a) + 1)..(Len(a) + Len(b)) /\ n - Len(a) \in 1..Len(b)
        BY <1>1, <4>1
      <4> QED BY <1>1, <4>2
    <3>2. CASE m \in DOMAIN a
      BY <1>1, <1>4, <3>1, <3>2 DEF ToSet
    <3>3. CASE m \notin DOMAIN a
      <4>1. m - Len(a) \in DOMAIN b /\ t[m] = b[m - Len(a)] /\ m - Len(a) < n - Len(a)
        BY <1>1, <1>4, <3>3
      <4> QED BY <1>4, <3>1, <4>1 DEF Ordered
    <3> QED BY <3>2, <3>3
  <2> QED BY <2>1, <2>2
<1>5. /\ Ordered(a, Less) /\ Ordered(b, Less) /\ (\A x \in ToSet(a), y \in ToSet(b) : <<x, y>> \in Less)
      => Ordered(t, Less)
  BY <1>4 DEF Ordered
<1> QED BY <1>3, <1>5 DEF t

-----------------------------------------------------------------------------
(*****************************************************************************)
(* Four lists that are one, stage after stage, and what moves from one stage *)
(* to the one before it.                                                     *)
(*****************************************************************************)
InLine(k, i, w, o) == (k \o i) \o (w \o o)
\* All of the one list are before all of the other.
AllBefore(a, b, Less) == \A x \in ToSet(a), y \in ToSet(b) : <<x, y>> \in Less

LEMMA LineParts ==
    ASSUME NEW S, NEW k \in Seq(S), NEW i \in Seq(S), NEW w \in Seq(S), NEW o \in Seq(S)
    PROVE  /\ InLine(k, i, w, o) \in Seq(S)
           /\ ToSet(InLine(k, i, w, o)) = ToSet(k) \cup ToSet(i) \cup ToSet(w) \cup ToSet(o)
           /\ \A Less : Ordered(InLine(k, i, w, o), Less) <=>
                 /\ Ordered(k, Less) /\ Ordered(i, Less) /\ Ordered(w, Less) /\ Ordered(o, Less)
                 /\ AllBefore(k, i, Less) /\ AllBefore(k, w, Less) /\ AllBefore(k, o, Less)
                 /\ AllBefore(i, w, Less) /\ AllBefore(i, o, Less) /\ AllBefore(w, o, Less)
<1> DEFINE a == k \o i
           b == w \o o
<1>1. a \in Seq(S) /\ b \in Seq(S) /\ InLine(k, i, w, o) = a \o b
  BY DEF InLine
<1>2. ToSet(a) = ToSet(k) \cup ToSet(i) /\ ToSet(b) = ToSet(w) \cup ToSet(o)
  BY JoinedSet
<1>3. \A Less : /\ Ordered(a, Less) <=> Ordered(k, Less) /\ Ordered(i, Less) /\ AllBefore(k, i, Less)
                /\ Ordered(b, Less) <=> Ordered(w, Less) /\ Ordered(o, Less) /\ AllBefore(w, o, Less)
  BY JoinedOrdered DEF AllBefore
<1> HIDE DEF a, b
<1>4. a \o b \in Seq(S) /\ ToSet(a \o b) = ToSet(a) \cup ToSet(b)
  BY <1>1, JoinedSet
<1>5. \A Less : Ordered(a \o b, Less) <=> Ordered(a, Less) /\ Ordered(b, Less) /\ AllBefore(a, b, Less)
  BY <1>1, JoinedOrdered DEF AllBefore
<1>6. \A Less : AllBefore(a, b, Less) <=> AllBefore(k, w, Less) /\ AllBefore(k, o, Less)
                                          /\ AllBefore(i, w, Less) /\ AllBefore(i, o, Less)
  BY <1>2 DEF AllBefore
<1> QED BY <1>1, <1>2, <1>3, <1>4, <1>5, <1>6

\* A list with entries left out.
Thinner(t, s) == ToSet(t) \subseteq ToSet(s) /\ \A Less : Ordered(s, Less) => Ordered(t, Less)

LEMMA ThinnerThings ==
    /\ \A s : Thinner(s, s) /\ Thinner(<<>>, s)
    /\ \A S : \A s \in Seq(S) : (s # <<>> => Thinner(Tail(s), s)) /\ \A T : Thinner(Within(s, T), s)
<1>1. \A s : Thinner(s, s) /\ Thinner(<<>>, s)
  BY EmptyList DEF Thinner
<1>2. ASSUME NEW S, NEW s \in Seq(S), s # <<>> PROVE Thinner(Tail(s), s)
  BY <1>2, HeadAndTail, TailOrdered DEF Thinner
<1>3. ASSUME NEW S, NEW s \in Seq(S), NEW T PROVE Thinner(Within(s, T), s)
  BY WithinSet, WithinOrdered DEF Thinner
<1> QED BY <1>1, <1>2, <1>3

LEMMA LineThinned ==
    ASSUME NEW S, NEW k \in Seq(S), NEW i \in Seq(S), NEW w \in Seq(S), NEW o \in Seq(S),
           NEW kk \in Seq(S), NEW ii \in Seq(S), NEW ww \in Seq(S), NEW oo \in Seq(S),
           Thinner(kk, k), Thinner(ii, i), Thinner(ww, w), Thinner(oo, o)
    PROVE  Thinner(InLine(kk, ii, ww, oo), InLine(k, i, w, o))
<1>1. ToSet(InLine(kk, ii, ww, oo)) \subseteq ToSet(InLine(k, i, w, o))
  BY LineParts DEF Thinner
<1>2. ASSUME NEW Less, Ordered(InLine(k, i, w, o), Less) PROVE Ordered(InLine(kk, ii, ww, oo), Less)
  <2>1. /\ Ordered(k, Less) /\ Ordered(i, Less) /\ Ordered(w, Less) /\ Ordered(o, Less)
        /\ AllBefore(k, i, Less) /\ AllBefore(k, w, Less) /\ AllBefore(k, o, Less)
        /\ AllBefore(i, w, Less) /\ AllBefore(i, o, Less) /\ AllBefore(w, o, Less)
    BY <1>2, LineParts
  <2>2. Ordered(kk, Less) /\ Ordered(ii, Less) /\ Ordered(ww, Less) /\ Ordered(oo, Less)
    BY <2>1 DEF Thinner
  <2>3. /\ AllBefore(kk, ii, Less) /\ AllBefore(kk, ww, Less) /\ AllBefore(kk, oo, Less)
        /\ AllBefore(ii, ww, Less) /\ AllBefore(ii, oo, Less) /\ AllBefore(ww, oo, Less)
    BY <2>1 DEF Thinner, AllBefore
  <2> QED BY <2>2, <2>3, LineParts
<1> QED BY <1>1, <1>2 DEF Thinner

LEMMA LineKept ==
    ASSUME NEW S, NEW k \in Seq(S), NEW i \in Seq(S), NEW w \in Seq(S), NEW o \in Seq(S), i # <<>>
    PROVE  InLine(Append(k, Head(i)), Tail(i), w, o) = InLine(k, i, w, o)
<1>1. Append(k, Head(i)) \o Tail(i) = k \o i
  OBVIOUS
<1> QED BY <1>1 DEF InLine

LEMMA LineReceived ==
    ASSUME NEW S, NEW k \in Seq(S), NEW i \in Seq(S), NEW w \in Seq(S), NEW o \in Seq(S),
           NEW p \in Seq(S), NEW r \in Seq(S)
    PROVE  InLine(k, i \o p, w \o r, o) = InLine(k, i, (p \o w) \o r, o)
<1>1. k \o (i \o p) = (k \o i) \o p
  OBVIOUS
<1>2. ((p \o w) \o r) \o o = p \o ((w \o r) \o o)
  <2>1. (p \o w) \o r = p \o (w \o r) /\ w \o r \in Seq(S)
    OBVIOUS
  <2> DEFINE x == w \o r
  <2> HIDE DEF x
  <2>2. (p \o x) \o o = p \o (x \o o)
    BY <2>1 DEF x
  <2> QED BY <2>1, <2>2 DEF x
<1> DEFINE a == k \o i
           b == (w \o r) \o o
<1>3. a \in Seq(S) /\ b \in Seq(S)
  OBVIOUS
<1> HIDE DEF a, b
<1>4. (a \o p) \o b = a \o (p \o b)
  BY <1>3
<1> QED BY <1>1, <1>2, <1>4 DEF InLine, a, b

LEMMA LineReported ==
    ASSUME NEW S, NEW k \in Seq(S), NEW i \in Seq(S), NEW w \in Seq(S), NEW o \in Seq(S)
    PROVE  InLine(k, i, w \o o, <<>>) = InLine(k, i, w \o <<>>, o)
<1>1. (w \o o) \o <<>> = (w \o <<>>) \o o
  OBVIOUS
<1> QED BY <1>1 DEF InLine

LEMMA LineSubmitted ==
    ASSUME NEW S, NEW k \in Seq(S), NEW w \in Seq(S), NEW o \in Seq(S)
    PROVE  InLine(k, w, <<>>, o) = InLine(k, <<>>, w, o)
<1>1. (k \o w) \o (<<>> \o o) = (k \o <<>>) \o (w \o o)
  OBVIOUS
<1> QED BY <1>1 DEF InLine

\* The first of the last stage goes to the end of the one before it, with another written in its
\* place.
LEMMA LinePosts ==
    ASSUME NEW S, NEW k \in Seq(S), NEW i \in Seq(S), NEW w \in Seq(S), NEW o \in Seq(S), NEW e \in S,
           NEW Less,
           Ordered(InLine(k, i, w, o), Less),
           \A x \in ToSet(k) \cup ToSet(i) \cup ToSet(w) : <<x, e>> \in Less,
           \A y \in ToSet(o) : <<e, y>> \in Less
    PROVE  Ordered(InLine(k, i, Append(w, e), o), Less)
<1> DEFINE v == Append(w, e)
<1>1. v \in Seq(S) /\ ToSet(v) = ToSet(w) \cup {e}
  BY AppendSet
<1>2. /\ Ordered(k, Less) /\ Ordered(i, Less) /\ Ordered(w, Less) /\ Ordered(o, Less)
      /\ AllBefore(k, i, Less) /\ AllBefore(k, w, Less) /\ AllBefore(k, o, Less)
      /\ AllBefore(i, w, Less) /\ AllBefore(i, o, Less) /\ AllBefore(w, o, Less)
  BY LineParts
<1>3. Ordered(v, Less)
  BY <1>2, AppendOrdered
<1> HIDE DEF v
<1>4. AllBefore(k, v, Less) /\ AllBefore(i, v, Less) /\ AllBefore(v, o, Less)
  BY <1>1, <1>2 DEF AllBefore
<1>5. Ordered(InLine(k, i, v, o), Less)
  BY <1>1, <1>2, <1>3, <1>4, LineParts
<1> QED BY <1>5 DEF v

\* What is in the last three stages is not before what is in the first, or first of the second.
LEMMA LineFront ==
    ASSUME NEW S, NEW k \in Seq(S), NEW i \in Seq(S), NEW w \in Seq(S), NEW o \in Seq(S), NEW Less,
           Ordered(InLine(k, i, w, o), Less), NEW m, m \in ToSet(k) \/ (i # <<>> /\ m = Head(i)),
           NEW x \in ToSet(i) \cup ToSet(w) \cup ToSet(o)
    PROVE  x = m \/ <<m, x>> \in Less
<1>1. /\ Ordered(i, Less) /\ AllBefore(k, i, Less) /\ AllBefore(k, w, Less) /\ AllBefore(k, o, Less)
      /\ AllBefore(i, w, Less) /\ AllBefore(i, o, Less)
  BY LineParts
<1>2. CASE m \in ToSet(k)
  BY <1>1, <1>2 DEF AllBefore
<1>3. CASE i # <<>> /\ m = Head(i)
  <2>1. ToSet(i) = {m} \cup ToSet(Tail(i))
    BY <1>3, HeadAndTail
  <2>2. \A y \in ToSet(Tail(i)) : <<m, y>> \in Less
    BY <1>1, <1>3, TailOrdered
  <2> QED BY <1>1, <2>1, <2>2 DEF AllBefore
<1> QED BY <1>2, <1>3

LEMMA ThinnerJoined ==
    ASSUME NEW S, NEW a \in Seq(S), NEW b \in Seq(S), NEW aa \in Seq(S), NEW bb \in Seq(S),
           Thinner(aa, a), Thinner(bb, b)
    PROVE  Thinner(aa \o bb, a \o b)
<1>1. ToSet(aa \o bb) \subseteq ToSet(a \o b)
  BY JoinedSet DEF Thinner
<1>2. ASSUME NEW Less, Ordered(a \o b, Less) PROVE Ordered(aa \o bb, Less)
  <2>1. Ordered(a, Less) /\ Ordered(b, Less) /\ \A x \in ToSet(a), y \in ToSet(b) : <<x, y>> \in Less
    BY <1>2, JoinedOrdered
  <2>2. Ordered(aa, Less) /\ Ordered(bb, Less) /\ \A x \in ToSet(aa), y \in ToSet(bb) : <<x, y>> \in Less
    BY <2>1 DEF Thinner
  <2> QED BY <2>2, JoinedOrdered
<1> QED BY <1>1, <1>2 DEF Thinner

LEMMA LineThinnedAtFront ==
    ASSUME NEW S, NEW k \in Seq(S), NEW i \in Seq(S), NEW w \in Seq(S), NEW o \in Seq(S),
           NEW kk \in Seq(S), NEW ii \in Seq(S), Thinner(kk \o ii, k \o i)
    PROVE  Thinner(InLine(kk, ii, w, o), InLine(k, i, w, o))
<1> DEFINE a == k \o i
           aa == kk \o ii
           b == w \o o
<1>1. a \in Seq(S) /\ aa \in Seq(S) /\ b \in Seq(S) /\ Thinner(b, b)
  BY ThinnerThings
<1>2. Thinner(aa, a)
  OBVIOUS
<1> HIDE DEF a, aa, b
<1>3. Thinner(aa \o b, a \o b)
  BY <1>1, <1>2, ThinnerJoined
<1> QED BY <1>3 DEF InLine, a, aa, b

\* A list loses entries, or has one of A put at its end.
Goes(t, s, A) == Thinner(t, s) \/ \E e \in A : t = Append(s, e)

\* In front a line gets thinner, or its sender says something.
LEMMA LineGoes ==
    ASSUME NEW S, NEW k \in Seq(S), NEW i \in Seq(S), NEW w \in Seq(S), NEW o \in Seq(S),
           NEW kk \in Seq(S), NEW ii \in Seq(S), NEW oo, NEW A, A \subseteq S,
           \/ Thinner(kk \o ii, k \o i) /\ oo = o
           \/ kk = k /\ ii = i /\ \E e \in A : oo = Append(o, e)
    PROVE  Goes(InLine(kk, ii, w, oo), InLine(k, i, w, o), A)
<1>1. CASE Thinner(kk \o ii, k \o i) /\ oo = o
  BY <1>1, LineThinnedAtFront DEF Goes
<1>2. ASSUME kk = k, ii = i, NEW e \in A, oo = Append(o, e)
      PROVE  Goes(InLine(kk, ii, w, oo), InLine(k, i, w, o), A)
  <2>1. w \o Append(o, e) = Append(w \o o, e)
    OBVIOUS
  <2> DEFINE c == k \o i
             d == w \o o
  <2>2. c \in Seq(S) /\ d \in Seq(S) /\ e \in S
    OBVIOUS
  <2> HIDE DEF c, d
  <2>3. c \o Append(d, e) = Append(c \o d, e)
    BY <2>2
  <2>4. InLine(kk, ii, w, oo) = Append(InLine(k, i, w, o), e)
    BY <1>2, <2>1, <2>3 DEF InLine, c, d
  <2> QED BY <2>4 DEF Goes
<1> QED BY <1>1, <1>2

LEMMA JoinedTwice ==
    ASSUME NEW S, NEW a \in Seq(S), NEW b \in Seq(S), NEW d \in Seq(S)
    PROVE  (a \o b) \o d = a \o (b \o d)
OBVIOUS

\* The first of a list of lists is in front of all the others.
LEMMA FlattenFirst ==
    ASSUME NEW S, NEW h \in Seq(S), NEW w \in Seq(Seq(S))
    PROVE  FlattenSeq(<<h>> \o w) = h \o FlattenSeq(w)
<1> DEFINE C == {v \in Seq(Seq(S)) : FlattenSeq(<<h>> \o v) = h \o FlattenSeq(v)}
<1>1. <<>> \in C
  <2>1. <<h>> \o <<>> = Append(<<>>, h) /\ <<>> \in Seq(Seq(S)) /\ <<>> \in Seq(S)
    OBVIOUS
  <2>2. FlattenSeq(Append(<<>>, h)) = <<>> \o h
    BY <2>1, FlattenNone, FlattenAppend
  <2>3. <<>> \o h = h /\ h \o <<>> = h
    OBVIOUS
  <2> QED BY <2>1, <2>2, <2>3, FlattenNone
<1>2. ASSUME NEW v \in Seq(Seq(S)), NEW e \in Seq(S), v \in C PROVE Append(v, e) \in C
  <2> DEFINE u == <<h>> \o v
             x == Append(v, e)
             f == FlattenSeq(v)
  <2>1. <<h>> \o x = Append(u, e) /\ u \in Seq(Seq(S)) /\ x \in Seq(Seq(S))
    OBVIOUS
  <2>2. FlattenSeq(u) = h \o f /\ f \in Seq(S)
    BY <1>2, FlattenType
  <2>3. FlattenSeq(x) = f \o e
    BY <2>2, FlattenAppend
  <2> HIDE DEF u, x, f
  <2>4. h \o f \in Seq(S)
    BY <2>2
  <2>5. FlattenSeq(Append(u, e)) = (h \o f) \o e
    BY <2>1, <2>2, <2>4, FlattenAppend
  <2>6. (h \o f) \o e = h \o (f \o e)
    BY <2>2, JoinedTwice
  <2>7. FlattenSeq(<<h>> \o x) = h \o FlattenSeq(x)
    BY <2>1, <2>3, <2>5, <2>6
  <2>8. x \in C
    BY <2>1, <2>7
  <2> QED BY <2>8 DEF x
<1>3. w \in C
  <2> HIDE DEF C
  <2> QED BY <1>1, <1>2, SeqInduction
<1> QED BY <1>3
=============================================================================
