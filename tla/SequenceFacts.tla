--------------------------- MODULE SequenceFacts ----------------------------
(***************************************************************************)
(* What Filter and the community module's FlattenSeq return, for every     *)
(* sequence.  Both are recursive functions over the prefixes of their      *)
(* argument, so the facts are proved by induction - in the form of the     *)
(* least-number principle, which needs no operator as a parameter: a set   *)
(* of counterexamples that is not empty has a smallest member.             *)
(***************************************************************************)
EXTENDS Filtering, SequencesExt, SequenceTheorems, WellFoundedInduction, TLAPS

\* A set of natural numbers that is not empty has a smallest member.
LEMMA Smallest ==
  ASSUME NEW T \in SUBSET Nat, T # {}
  PROVE  \E x \in T : \A y \in T : x <= y
<1>1. \A x, y \in Nat : x < y => <<x, y>> \in OpToRel(<, Nat)
  BY DEF OpToRel
<1>2. \E x \in T : \A y \in T : ~(<<y, x>> \in OpToRel(<, Nat))
  BY NatLessThanWellFounded, WFMin
<1>3. \E x \in T : \A y \in T : ~(y < x)
  BY <1>1, <1>2, Zenon
<1> QED BY <1>3

\* Appending to the second of two sequences is appending to both together.
LEMMA ConcatAppend ==
  ASSUME NEW T, NEW s \in Seq(T), NEW t \in Seq(T), NEW e \in T
  PROVE  s \o Append(t, e) = Append(s \o t, e)
<1>1. /\ <<e>> \in Seq(T) /\ s \o t \in Seq(T)
      /\ Append(t, e) = t \o <<e>>
  BY AppendIsConcat, ConcatProperties
<1>2. Append(s \o t, e) = (s \o t) \o <<e>>
  BY <1>1, AppendIsConcat
<1> QED BY <1>1, <1>2, ConcatAssociative

-----------------------------------------------------------------------------
(* Filter.                                                                 *)

\* f maps each length up to n to what is kept of that prefix of s.
KeptUpTo(f, s, S, n) ==
  f = [i \in 0..n |-> IF i = 0 THEN <<>>
                      ELSE IF s[i] \in S THEN Append(f[i - 1], s[i]) ELSE f[i - 1]]

\* What it says of one length.
LEMMA KeptStep ==
  ASSUME NEW f, NEW s, NEW S, NEW n \in Nat, KeptUpTo(f, s, S, n), NEW i \in 0..n
  PROVE  /\ i = 0 => f[i] = <<>>
         /\ i # 0 => /\ i - 1 \in 0..n
                     /\ s[i] \in S => f[i] = Append(f[i - 1], s[i])
                     /\ s[i] \notin S => f[i] = f[i - 1]
<1>1. f[i] = IF i = 0 THEN <<>>
             ELSE IF s[i] \in S THEN Append(f[i - 1], s[i]) ELSE f[i - 1]
  BY Zenon DEF KeptUpTo
<1>2. i # 0 => i - 1 \in 0..n
  OBVIOUS
<1> QED BY <1>1, <1>2, Zenon

\* There is such a function: one for a prefix is extended to the next.
LEMMA KeptExists ==
  ASSUME NEW s, NEW S
  PROVE  \A n \in Nat : \E f : KeptUpTo(f, s, S, n)
<1> DEFINE Bad == {n \in Nat : ~\E f : KeptUpTo(f, s, S, n)}
<1> SUFFICES ASSUME Bad # {} PROVE FALSE
  OBVIOUS
<1>1. PICK n \in Bad : \A m \in Bad : n <= m
  BY Smallest
<1>2. CASE n = 0
  <2>1. KeptUpTo([i \in 0..0 |-> <<>>], s, S, 0)
    BY DEF KeptUpTo
  <2> QED BY <1>2, <2>1
<1>3. CASE n # 0
  <2>1. PICK f : KeptUpTo(f, s, S, n - 1)
    BY <1>1, <1>3
  <2> DEFINE g == [i \in 0..n |-> IF i = n
                                  THEN IF s[n] \in S THEN Append(f[n - 1], s[n]) ELSE f[n - 1]
                                  ELSE f[i]]
  <2>2. n \in Nat /\ n - 1 \in 0..n /\ \A i \in 0..n : i # n => i \in 0..(n - 1) /\ (i # 0 => i - 1 \in 0..(n - 1))
    BY <1>3
  <2>3. /\ DOMAIN g = 0..n /\ g = [i \in 0..n |-> g[i]]
        /\ g[n] = IF s[n] \in S THEN Append(f[n - 1], s[n]) ELSE f[n - 1]
        /\ \A i \in 0..n : i # n => g[i] = f[i]
    BY <2>2
  <2> HIDE DEF g
  <2>4. n - 1 \in Nat
    BY <1>3, <2>2
  <2>5. ASSUME NEW i \in 0..n
        PROVE  g[i] = IF i = 0 THEN <<>>
                      ELSE IF s[i] \in S THEN Append(g[i - 1], s[i]) ELSE g[i - 1]
    <3>1. CASE i = n
      BY <1>3, <2>2, <2>3, <3>1
    <3>2. CASE i # n
      <4>1. i \in 0..(n - 1) /\ g[i] = f[i] /\ (i # 0 => i - 1 \in 0..n /\ i - 1 # n)
        BY <2>2, <2>3, <3>2
      <4>2. i # 0 => g[i - 1] = f[i - 1]
        BY <2>3, <4>1
      <4>3. /\ i = 0 => f[i] = <<>>
            /\ i # 0 => /\ s[i] \in S => f[i] = Append(f[i - 1], s[i])
                        /\ s[i] \notin S => f[i] = f[i - 1]
        BY <2>1, <2>4, <4>1, KeptStep
      <4> QED BY <4>1, <4>2, <4>3
    <3> QED BY <3>1, <3>2
  <2>6. KeptUpTo(g, s, S, n)
    BY <2>3, <2>5, Zenon DEF KeptUpTo
  <2> QED BY <2>6
<1> QED BY <1>2, <1>3

\* Filter(s, S) is the value of such a function, and each of its values is a
\* sequence over the same set as s.
LEMMA FilterIs ==
  ASSUME NEW T, NEW s \in Seq(T), NEW S
  PROVE  \E f : /\ KeptUpTo(f, s, S, Len(s)) /\ Filter(s, S) = f[Len(s)]
                /\ \A i \in 0..Len(s) : f[i] \in Seq(T)
<1> DEFINE f == CHOOSE f : KeptUpTo(f, s, S, Len(s))
<1>1. KeptUpTo(f, s, S, Len(s))
  BY KeptExists, LenProperties, Zenon
<1>2. Filter(s, S) = f[Len(s)]
  BY Zenon DEF Filter, KeptUpTo
<1> HIDE DEF f
<1> DEFINE Bad == {i \in 0..Len(s) : f[i] \notin Seq(T)}
<1>3. Bad = {}
  <2> SUFFICES ASSUME Bad # {} PROVE FALSE
    OBVIOUS
  <2>1. PICK i \in Bad : \A j \in Bad : i <= j
    <3>1. Bad \in SUBSET Nat
      OBVIOUS
    <3> HIDE DEF Bad
    <3> QED BY <3>1, Smallest
  <2>2. CASE i = 0
    BY <1>1, <2>2 DEF KeptUpTo
  <2>3. CASE i # 0
    <3>1. f[i - 1] \in Seq(T) /\ s[i] \in T
      BY <2>1, <2>3
    <3>2. f[i] = Append(f[i - 1], s[i]) \/ f[i] = f[i - 1]
      BY <1>1, <2>3, KeptStep, LenProperties, SMTT(40)
    <3>3. \A q \in Seq(T), e \in T : Append(q, e) \in Seq(T)
      OBVIOUS
    <3>4. Append(f[i - 1], s[i]) \in Seq(T)
      BY <3>1, <3>3, Zenon
    <3>5. f[i] \in Seq(T)
      BY <3>1, <3>2, <3>4, Zenon
    <3> QED BY <2>1, <3>5
  <2> QED BY <2>2, <2>3
<1> QED BY <1>1, <1>2, <1>3

\* What is kept of a sequence is a sequence over the same set.
THEOREM FilterType ==
  ASSUME NEW T, NEW s \in Seq(T), NEW S
  PROVE  Filter(s, S) \in Seq(T)
BY FilterIs, LenProperties

\* Nothing is left of nothing.
THEOREM FilterEmpty == ASSUME NEW S PROVE Filter(<<>>, S) = <<>>
<1>1. <<>> \in Seq({}) /\ Len(<<>>) = 0
  OBVIOUS
<1>2. PICK f : KeptUpTo(f, <<>>, S, 0) /\ Filter(<<>>, S) = f[0]
  BY <1>1, FilterIs
<1> QED BY <1>2 DEF KeptUpTo

\* One element more is kept or not.
THEOREM FilterAppend ==
  ASSUME NEW T, NEW s \in Seq(T), NEW e \in T, NEW S
  PROVE  Filter(Append(s, e), S) = IF e \in S THEN Append(Filter(s, S), e) ELSE Filter(s, S)
<1> DEFINE t == Append(s, e)
<1>1. /\ t \in Seq(T) /\ Len(s) \in Nat /\ Len(t) = Len(s) + 1 /\ t[Len(t)] = e
      /\ \A i \in 1..Len(s) : t[i] = s[i]
  OBVIOUS
<1> HIDE DEF t
<1>2. PICK f : KeptUpTo(f, s, S, Len(s)) /\ Filter(s, S) = f[Len(s)]
  BY FilterIs
<1>3. PICK g : KeptUpTo(g, t, S, Len(t)) /\ Filter(t, S) = g[Len(t)]
  BY <1>1, FilterIs
<1> DEFINE Bad == {i \in 0..Len(s) : f[i] # g[i]}
<1>4. Bad = {}
  <2> SUFFICES ASSUME Bad # {} PROVE FALSE
    OBVIOUS
  <2>1. PICK i \in Bad : \A j \in Bad : i <= j
    <3>1. Bad \in SUBSET Nat
      OBVIOUS
    <3> HIDE DEF Bad
    <3> QED BY <3>1, Smallest
  <2>2. CASE i = 0
    BY <1>1, <1>2, <1>3, <2>1, <2>2, KeptStep
  <2>3. CASE i # 0
    <3>1. f[i - 1] = g[i - 1] /\ t[i] = s[i] /\ i \in 0..Len(s) /\ i \in 0..Len(t)
      BY <1>1, <2>1, <2>3
    <3>2. /\ s[i] \in S => f[i] = Append(f[i - 1], s[i])
          /\ s[i] \notin S => f[i] = f[i - 1]
      BY <1>1, <1>2, <2>3, <3>1, KeptStep, SMTT(40)
    <3>3. /\ t[i] \in S => g[i] = Append(g[i - 1], t[i])
          /\ t[i] \notin S => g[i] = g[i - 1]
      BY <1>1, <1>3, <2>3, <3>1, KeptStep
    <3>4. f[i] = g[i]
      BY <3>1, <3>2, <3>3
    <3> QED BY <2>1, <3>4
  <2> QED BY <2>2, <2>3
<1>5. f[Len(s)] = g[Len(s)]
  BY <1>1, <1>4
<1>6. g[Len(t)] = IF e \in S THEN Append(g[Len(s)], e) ELSE g[Len(s)]
  <2>1. Len(t) \in Nat /\ Len(t) \in 0..Len(t) /\ Len(t) # 0 /\ Len(t) - 1 = Len(s)
    BY <1>1
  <2>2. /\ t[Len(t)] \in S => g[Len(t)] = Append(g[Len(t) - 1], t[Len(t)])
        /\ t[Len(t)] \notin S => g[Len(t)] = g[Len(t) - 1]
    BY <1>3, <2>1, KeptStep
  <2> QED BY <1>1, <2>1, <2>2
<1> QED BY <1>2, <1>3, <1>5, <1>6 DEF t

-----------------------------------------------------------------------------
(* Induction over sequences, and what follows with it.                     *)

\* A set that holds the empty sequence and, with a sequence, every sequence
\* that is longer by one element, holds all sequences.
THEOREM EverySequence ==
  ASSUME NEW T, NEW Good, <<>> \in Good,
         \A s \in Seq(T), e \in T : s \in Good => Append(s, e) \in Good
  PROVE  \A s \in Seq(T) : s \in Good
<1> DEFINE Bad == {n \in Nat : \E s \in Seq(T) : Len(s) = n /\ s \notin Good}
<1>1. Bad = {}
  <2> SUFFICES ASSUME Bad # {} PROVE FALSE
    OBVIOUS
  <2>1. PICK n \in Bad : \A m \in Bad : n <= m
    <3>1. Bad \in SUBSET Nat
      OBVIOUS
    <3> HIDE DEF Bad
    <3> QED BY <3>1, Smallest
  <2>2. PICK s \in Seq(T) : Len(s) = n /\ s \notin Good
    BY <2>1
  <2>3. PICK t \in Seq(T), e \in T : s = Append(t, e)
    BY <2>2, SequenceEmptyOrAppend
  <2>4. Len(t) \in Nat /\ Len(s) = Len(t) + 1
    BY <2>3, AppendProperties, LenProperties
  <2>5. t \notin Good
    BY <2>2, <2>3
  <2> QED BY <2>1, <2>2, <2>4, <2>5
<1>2. ASSUME NEW s \in Seq(T) PROVE s \in Good
  <2>1. Len(s) \in Nat
    BY LenProperties
  <2> QED BY <1>1, <2>1
<1> QED BY <1>2

\* The elements that are kept all belong to the set.
THEOREM FilterKeeps ==
  ASSUME NEW T, NEW S, NEW s \in Seq(T)
  PROVE  Filter(s, S) \in Seq(T \cap S)
<1> DEFINE Good == {t \in Seq(T) : Filter(t, S) \in Seq(T \cap S)}
<1>1. <<>> \in Good
  BY FilterEmpty, EmptySeq
<1>2. ASSUME NEW t \in Seq(T), NEW e \in T, t \in Good
      PROVE  Append(t, e) \in Good
  <2>1. Append(t, e) \in Seq(T) /\ Filter(t, S) \in Seq(T \cap S)
    BY <1>2, AppendProperties
  <2>2. CASE e \in S
    <3>1. Append(Filter(t, S), e) \in Seq(T \cap S)
      BY <2>1, <2>2, AppendProperties
    <3> QED BY <2>1, <2>2, <3>1, FilterAppend
  <2>3. CASE e \notin S
    BY <2>1, <2>3, FilterAppend
  <2> QED BY <2>2, <2>3
<1> HIDE DEF Good
<1>3. s \in Good
  BY <1>1, <1>2, EverySequence
<1> QED BY <1>3 DEF Good

\* Nothing is dropped from a sequence over the set.
THEOREM FilterAll ==
  ASSUME NEW S, NEW s \in Seq(S)
  PROVE  Filter(s, S) = s
<1> DEFINE Good == {t \in Seq(S) : Filter(t, S) = t}
<1>1. <<>> \in Good
  BY FilterEmpty, EmptySeq
<1>2. ASSUME NEW t \in Seq(S), NEW e \in S, t \in Good
      PROVE  Append(t, e) \in Good
  BY <1>2, FilterAppend, AppendProperties
<1> HIDE DEF Good
<1>3. s \in Good
  BY <1>1, <1>2, EverySequence
<1> QED BY <1>3 DEF Good

\* Two sequences are filtered apart or together.
THEOREM FilterConcat ==
  ASSUME NEW T, NEW S, NEW s \in Seq(T), NEW t \in Seq(T)
  PROVE  Filter(s \o t, S) = Filter(s, S) \o Filter(t, S)
<1> DEFINE Good == {u \in Seq(T) : Filter(s \o u, S) = Filter(s, S) \o Filter(u, S)}
<1>0. Filter(s, S) \in Seq(T)
  BY FilterType
<1>1. <<>> \in Good
  BY <1>0, FilterEmpty, EmptySeq, ConcatEmptySeq
<1>2. ASSUME NEW u \in Seq(T), NEW e \in T, u \in Good
      PROVE  Append(u, e) \in Good
  <2>1. /\ Filter(s \o u, S) = Filter(s, S) \o Filter(u, S) /\ Append(u, e) \in Seq(T)
        /\ Filter(u, S) \in Seq(T) /\ s \o u \in Seq(T)
    BY <1>2, AppendProperties, FilterType, ConcatProperties
  <2>2. s \o Append(u, e) = Append(s \o u, e)
    BY <2>1, ConcatAppend
  <2>3. CASE e \in S
    <3>1. Filter(s \o Append(u, e), S) = Append(Filter(s, S) \o Filter(u, S), e)
      BY <2>1, <2>2, <2>3, FilterAppend
    <3>2. Append(Filter(s, S) \o Filter(u, S), e) = Filter(s, S) \o Append(Filter(u, S), e)
      <4>1. \A x, y \in Seq(T) : x \o Append(y, e) = Append(x \o y, e)
        BY ConcatAppend
      <4> QED BY <1>0, <2>1, <4>1, Zenon
    <3> QED BY <2>1, <2>3, <3>1, <3>2, FilterAppend
  <2>4. CASE e \notin S
    <3>1. /\ Filter(Append(u, e), S) = Filter(u, S)
          /\ Filter(Append(s \o u, e), S) = Filter(s \o u, S)
      <4>1. \A x \in Seq(T) : Filter(Append(x, e), S) = Filter(x, S)
        BY <2>4, FilterAppend
      <4> QED BY <2>1, <4>1, Zenon
    <3> QED BY <2>1, <2>2, <3>1, Zenon
  <2> QED BY <2>3, <2>4
<1> HIDE DEF Good
<1>3. t \in Good
  BY <1>1, <1>2, EverySequence
<1> QED BY <1>3 DEF Good

-----------------------------------------------------------------------------
(* FlattenSeq.                                                             *)

Then(x, y) == x \o y

\* f maps each length up to n to the flattened prefix of q.
FlatUpTo(f, q, n) ==
  f = [i \in 1..n |-> IF i = 1 THEN q[i] ELSE Then(f[i - 1], q[i])]

\* What it says of one length.
LEMMA FlatStep ==
  ASSUME NEW f, NEW q, NEW n \in Nat, FlatUpTo(f, q, n), NEW i \in 1..n
  PROVE  /\ i = 1 => f[i] = q[i]
         /\ i # 1 => /\ i - 1 \in 1..n
                     /\ f[i] = Then(f[i - 1], q[i])
<1>1. f[i] = IF i = 1 THEN q[i] ELSE Then(f[i - 1], q[i])
  BY Zenon DEF FlatUpTo
<1>2. i # 1 => i - 1 \in 1..n
  OBVIOUS
<1> QED BY <1>1, <1>2, Zenon

\* The recursion of FlattenSeq has a solution for every length.
LEMMA FlatExists == ASSUME NEW q PROVE \A n \in Nat : \E f : FlatUpTo(f, q, n)
<1> DEFINE Bad == {n \in Nat : ~\E f : FlatUpTo(f, q, n)}
<1> SUFFICES ASSUME Bad # {} PROVE FALSE
  OBVIOUS
<1>1. PICK n \in Bad : \A m \in Bad : n <= m
  BY Smallest
<1>2. CASE n = 0
  <2>1. FlatUpTo([i \in 1..0 |-> <<>>], q, 0)
    BY DEF FlatUpTo
  <2> QED BY <1>2, <2>1
<1>3. CASE n # 0
  <2>1. PICK f : FlatUpTo(f, q, n - 1)
    BY <1>1, <1>3
  <2> DEFINE g == [i \in 1..n |-> IF i = n THEN IF n = 1 THEN q[n] ELSE Then(f[n - 1], q[n])
                                  ELSE f[i]]
  <2>2. /\ n \in Nat /\ n - 1 \in Nat /\ n \in 1..n
        /\ \A i \in 1..n : i # n => i \in 1..(n - 1)
        /\ n # 1 => n - 1 \in 1..n /\ n - 1 # n
    BY <1>3
  <2>3. /\ DOMAIN g = 1..n /\ g = [i \in 1..n |-> g[i]]
        /\ n = 1 => g[n] = q[n]
        /\ n # 1 => g[n] = Then(f[n - 1], q[n])
        /\ \A i \in 1..n : i # n => g[i] = f[i]
    BY <2>2
  <2> HIDE DEF g
  <2>5. ASSUME NEW i \in 1..n
        PROVE  g[i] = IF i = 1 THEN q[i] ELSE Then(g[i - 1], q[i])
    <3>1. CASE i = n
      BY <2>2, <2>3, <3>1
    <3>2. CASE i # n
      <4>1. i \in 1..(n - 1) /\ g[i] = f[i] /\ (i # 1 => i - 1 \in 1..n /\ i - 1 # n)
        BY <2>2, <2>3, <3>2
      <4>2. i # 1 => g[i - 1] = f[i - 1]
        BY <2>3, <4>1
      <4>3. /\ i = 1 => f[i] = q[i]
            /\ i # 1 => f[i] = Then(f[i - 1], q[i])
        BY <2>1, <2>2, <4>1, FlatStep
      <4> QED BY <4>1, <4>2, <4>3
    <3> QED BY <3>1, <3>2
  <2>6. FlatUpTo(g, q, n)
    BY <2>3, <2>5, Zenon DEF FlatUpTo
  <2> QED BY <2>6
<1> QED BY <1>2, <1>3

\* FlattenSeq is that solution.
LEMMA FlatIs ==
  ASSUME NEW T, NEW q \in Seq(T), Len(q) # 0
  PROVE  \E f : FlatUpTo(f, q, Len(q)) /\ FlattenSeq(q) = f[Len(q)]
<1> DEFINE f == CHOOSE f : FlatUpTo(f, q, Len(q))
<1>1. FlatUpTo(f, q, Len(q))
  BY FlatExists, LenProperties, Zenon
<1>2. FlattenSeq(q) = f[Len(q)]
  BY Zenon DEF FlattenSeq, FlatUpTo, Then
<1> HIDE DEF f
<1> QED BY <1>1, <1>2

\* Nothing to flatten gives nothing.
THEOREM FlattenEmpty == FlattenSeq(<<>>) = <<>>
<1>1. Len(<<>>) = 0
  OBVIOUS
<1> QED BY <1>1 DEF FlattenSeq

\* One sequence more comes at the end.
LEMMA FlattenAppendTo ==
  ASSUME NEW T, NEW q \in Seq(Seq(T)), NEW e \in Seq(T), FlattenSeq(q) \in Seq(T)
  PROVE  FlattenSeq(Append(q, e)) = FlattenSeq(q) \o e
<1> DEFINE t == Append(q, e)
<1>1. /\ t \in Seq(Seq(T)) /\ Len(q) \in Nat /\ Len(t) = Len(q) + 1 /\ t[Len(t)] = e
      /\ \A i \in 1..Len(q) : t[i] = q[i]
  OBVIOUS
<1> HIDE DEF t
<1>2. PICK g : FlatUpTo(g, t, Len(t)) /\ FlattenSeq(t) = g[Len(t)]
  BY <1>1, FlatIs
<1>3. Len(t) \in Nat /\ Len(t) \in 1..Len(t)
  BY <1>1
<1>4. CASE Len(q) = 0
  <2>1. q = <<>> /\ Len(t) = 1
    BY <1>1, <1>4, EmptySeq
  <2>2. g[Len(t)] = t[Len(t)]
    BY <1>2, <1>3, <2>1, FlatStep
  <2>3. <<>> \o e = e
    BY ConcatEmptySeq
  <2> QED BY <1>1, <1>2, <2>1, <2>2, <2>3, FlattenEmpty DEF t
<1>5. CASE Len(q) # 0
  <2>1. PICK f : FlatUpTo(f, q, Len(q)) /\ FlattenSeq(q) = f[Len(q)]
    BY <1>5, FlatIs
  <2> DEFINE Bad == {i \in 1..Len(q) : f[i] # g[i]}
  <2>2. Bad = {}
    <3> SUFFICES ASSUME Bad # {} PROVE FALSE
      OBVIOUS
    <3>1. PICK i \in Bad : \A j \in Bad : i <= j
      <4>1. Bad \in SUBSET Nat
        OBVIOUS
      <4> HIDE DEF Bad
      <4> QED BY <4>1, Smallest
    <3>2. t[i] = q[i] /\ i \in 1..Len(q) /\ i \in 1..Len(t) /\ (i # 1 => f[i - 1] = g[i - 1])
      BY <1>1, <3>1
    <3>3. /\ i = 1 => f[i] = q[i]
          /\ i # 1 => f[i] = Then(f[i - 1], q[i])
      BY <1>1, <2>1, <3>2, FlatStep
    <3>4. /\ i = 1 => g[i] = t[i]
          /\ i # 1 => g[i] = Then(g[i - 1], t[i])
      <4>1. \A j \in 1..Len(t) : /\ j = 1 => g[j] = t[j]
                                 /\ j # 1 => g[j] = Then(g[j - 1], t[j])
        BY <1>2, <1>3, FlatStep
      <4> QED BY <3>2, <4>1, Zenon
    <3>5. f[i] = g[i]
      BY <3>2, <3>3, <3>4
    <3> QED BY <3>1, <3>5
  <2>3. f[Len(q)] = g[Len(q)] /\ Len(t) # 1 /\ Len(t) - 1 = Len(q)
    <3>1. Len(q) \in 1..Len(q)
      BY <1>1, <1>5
    <3>2. f[Len(q)] = g[Len(q)]
      BY <2>2, <3>1
    <3> QED BY <1>1, <1>5, <3>2
  <2>4. g[Len(t)] = Then(g[Len(t) - 1], t[Len(t)])
    <3>1. \A i \in 1..Len(t) : i # 1 => g[i] = Then(g[i - 1], t[i])
      BY <1>2, <1>3, FlatStep
    <3> QED BY <1>3, <2>3, <3>1, Zenon
  <2>5. FlattenSeq(t) = Then(FlattenSeq(q), e)
    BY <1>1, <1>2, <2>1, <2>3, <2>4
  <2> QED BY <2>5 DEF t, Then
<1> QED BY <1>4, <1>5

\* A sequence of sequences over a set is flattened to one over that set.
THEOREM FlattenType ==
  ASSUME NEW T, NEW q \in Seq(Seq(T))
  PROVE  FlattenSeq(q) \in Seq(T)
<1> DEFINE Good == {p \in Seq(Seq(T)) : FlattenSeq(p) \in Seq(T)}
<1>1. <<>> \in Good
  BY FlattenEmpty, EmptySeq
<1>2. ASSUME NEW p \in Seq(Seq(T)), NEW e \in Seq(T), p \in Good
      PROVE  Append(p, e) \in Good
  <2>1. FlattenSeq(p) \in Seq(T) /\ Append(p, e) \in Seq(Seq(T))
    BY <1>2, AppendProperties
  <2>2. FlattenSeq(p) \o e \in Seq(T)
    BY <2>1, ConcatProperties
  <2> QED BY <2>1, <2>2, FlattenAppendTo
<1> HIDE DEF Good
<1>3. q \in Good
  BY <1>1, <1>2, EverySequence
<1> QED BY <1>3 DEF Good

\* A sequence appended comes last.
THEOREM FlattenAppend ==
  ASSUME NEW T, NEW q \in Seq(Seq(T)), NEW e \in Seq(T)
  PROVE  FlattenSeq(Append(q, e)) = FlattenSeq(q) \o e
BY FlattenType, FlattenAppendTo

\* Two sequences of sequences are flattened apart or together.
THEOREM FlattenConcat ==
  ASSUME NEW T, NEW q \in Seq(Seq(T)), NEW r \in Seq(Seq(T))
  PROVE  FlattenSeq(q \o r) = FlattenSeq(q) \o FlattenSeq(r)
<1> DEFINE Good == {p \in Seq(Seq(T)) : FlattenSeq(q \o p) = FlattenSeq(q) \o FlattenSeq(p)}
<1>0. FlattenSeq(q) \in Seq(T)
  BY FlattenType
<1>1. <<>> \in Good
  BY <1>0, FlattenEmpty, EmptySeq, ConcatEmptySeq
<1>2. ASSUME NEW p \in Seq(Seq(T)), NEW e \in Seq(T), p \in Good
      PROVE  Append(p, e) \in Good
  <2>1. /\ FlattenSeq(q \o p) = FlattenSeq(q) \o FlattenSeq(p)
        /\ Append(p, e) \in Seq(Seq(T)) /\ FlattenSeq(p) \in Seq(T)
        /\ q \o p \in Seq(Seq(T))
    BY <1>2, AppendProperties, FlattenType, ConcatProperties
  <2>2. q \o Append(p, e) = Append(q \o p, e)
    BY <2>1, ConcatAppend, SMTT(40)
  <2>3. FlattenSeq(Append(q \o p, e)) = (FlattenSeq(q) \o FlattenSeq(p)) \o e
    BY <2>1, FlattenAppend
  <2>4. (FlattenSeq(q) \o FlattenSeq(p)) \o e = FlattenSeq(q) \o (FlattenSeq(p) \o e)
    BY <1>0, <2>1, ConcatAssociative, SMTT(40)
  <2>5. FlattenSeq(Append(p, e)) = FlattenSeq(p) \o e
    BY FlattenAppend
  <2> QED BY <2>1, <2>2, <2>3, <2>4, <2>5
<1> HIDE DEF Good
<1>3. r \in Good
  BY <1>1, <1>2, EverySequence
<1> QED BY <1>3 DEF Good
=============================================================================
