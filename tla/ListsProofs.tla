------------------------------ MODULE ListsProofs ------------------------------
(***************************************************************************)
(* What Only and FlattenSeq do with members, repetitions and lengths.      *)
(* Induction over a list takes the least prefix for which a fact fails.    *)
(***************************************************************************)
EXTENDS Lists, SequencesExt, SequenceTheorems, FiniteSetTheorems,
        WellFoundedInduction, TLAPS

\* A set of naturals that is not empty has a least one.
LEMMA LeastOf ==
  ASSUME NEW S \in SUBSET Nat, S # {}
  PROVE  \E x \in S : \A y \in S : x <= y
<1>1. PICK x \in S : \A y \in S : <<y, x>> \notin OpToRel(<, Nat)
  BY WFMin, NatLessThanWellFounded
<1>2. ASSUME NEW y \in S PROVE x <= y
  <2>1. <<y, x>> \in Nat \X Nat /\ <<y, x>>[1] = y /\ <<y, x>>[2] = x
    OBVIOUS
  <2>2. <<y, x>> \notin {ss \in Nat \X Nat : ss[1] < ss[2]}
    BY <1>1 DEF OpToRel
  <2> QED BY <2>1, <2>2
<1> QED BY <1>2

Step(s, S, g, i) == IF i = 0 THEN <<>> ELSE IF s[i] \in S THEN Append(g[i - 1], s[i]) ELSE g[i - 1]

\* The prefixes of what Only keeps form a function.
LEMMA KeptExists ==
  ASSUME NEW s, NEW S, NEW n \in Nat
  PROVE  \E g : g = [i \in 0..n |-> Step(s, S, g, i)]
<1> DEFINE Bad == {m \in Nat : ~ \E g : g = [i \in 0..m |-> Step(s, S, g, i)]}
<1> SUFFICES ASSUME Bad # {} PROVE FALSE
  OBVIOUS
<1>1. PICK m \in Bad : \A k \in Bad : m <= k
  <2>1. Bad \in SUBSET Nat
    OBVIOUS
  <2> HIDE DEF Bad
  <2> QED BY <2>1, LeastOf
<1>2. CASE m = 0
  <2> DEFINE g == [i \in 0..0 |-> <<>>]
  <2>1. g = [i \in 0..0 |-> Step(s, S, g, i)]
    BY DEF Step
  <2> QED BY <1>1, <1>2, <2>1
<1>3. CASE m # 0
  <2>1. m - 1 \in Nat /\ m - 1 \notin Bad
    BY <1>1, <1>3
  <2>2. PICK f : f = [i \in 0..m - 1 |-> Step(s, S, f, i)]
    BY <2>1
  <2> DEFINE g == [i \in 0..m |-> Step(s, S, f, i)]
  <2>3. \A i \in 0..m - 1 : g[i] = f[i]
    <3>1. \A i \in 0..m - 1 : f[i] = Step(s, S, f, i)
      BY <2>2
    <3> QED BY <2>1, <3>1
  <2>4. \A i \in 0..m : Step(s, S, g, i) = Step(s, S, f, i)
    <3>1. \A i \in 0..m : i # 0 => i - 1 \in 0..m - 1
      BY <1>1
    <3> HIDE DEF g
    <3> QED BY <2>3, <3>1 DEF Step
  <2>5. g = [i \in 0..m |-> Step(s, S, g, i)]
    BY <2>4
  <2> QED BY <1>1, <2>5
<1> QED BY <1>2, <1>3

\* Only is the last of its steps.
LEMMA OnlySteps ==
  ASSUME NEW s, NEW S, Len(s) \in Nat
  PROVE  \E g : /\ \A i \in 0..Len(s) : g[i] = Step(s, S, g, i)
                /\ Only(s, S) = g[Len(s)]
<1> DEFINE kept == CHOOSE g : g = [i \in 0..Len(s) |-> Step(s, S, g, i)]
<1>1. kept = [i \in 0..Len(s) |-> Step(s, S, kept, i)]
  BY KeptExists
<1>2. Only(s, S) = kept[Len(s)]
  BY DEF Only, Step
<1> HIDE DEF kept
<1>3. \A i \in 0..Len(s) : kept[i] = Step(s, S, kept, i)
  BY <1>1
<1> QED BY <1>2, <1>3

\* The members of a list up to place n.
UpTo(s, n) == {s[j] : j \in 1..n}

\* One more place adds one member.
LEMMA UpToNext ==
  ASSUME NEW s, NEW n \in Nat, n # 0
  PROVE  UpTo(s, n) = UpTo(s, n - 1) \cup {s[n]}
<1>1. 1..n = (1..n - 1) \cup {n}
  OBVIOUS
<1> QED BY <1>1 DEF UpTo

\* What is appended is the one new member.
LEMMA UpToAppend ==
  ASSUME NEW S, NEW s \in Seq(S), NEW e \in S
  PROVE  UpTo(Append(s, e), Len(s) + 1) = UpTo(s, Len(s)) \cup {e}
<1>1. Append(s, e)[Len(s) + 1] = e /\ \A j \in 1..Len(s) : Append(s, e)[j] = s[j]
  BY AppendProperties
<1>2. Len(s) \in Nat
  BY LenProperties
<1> HIDE DEF UpTo
<1>3. UpTo(Append(s, e), Len(s) + 1) = UpTo(Append(s, e), Len(s)) \cup {e}
  <2> DEFINE n == Len(s) + 1
             a == Append(s, e)
  <2>1. n \in Nat /\ n # 0 /\ n - 1 = Len(s)
    BY <1>2
  <2>2. a[n] = e
    BY <1>1
  <2> HIDE DEF n, a
  <2>3. UpTo(a, n) = UpTo(a, n - 1) \cup {a[n]}
    BY <2>1, UpToNext
  <2>4. UpTo(a, n) = UpTo(a, Len(s)) \cup {e}
    BY <2>1, <2>2, <2>3
  <2> QED BY <2>4 DEF n, a
<1>4. UpTo(Append(s, e), Len(s)) = UpTo(s, Len(s))
  BY <1>1 DEF UpTo
<1> QED BY <1>3, <1>4

Distinct(s, n) == \A i, j \in 1..n : s[i] = s[j] => i = j

\* Only keeps the members of S, and no member twice that s has once.
LEMMA OnlyIs ==
  ASSUME NEW s, NEW S, Len(s) \in Nat
  PROVE  /\ Only(s, S) \in Seq(S)
         /\ UpTo(Only(s, S), Len(Only(s, S))) = UpTo(s, Len(s)) \cap S
         /\ Len(Only(s, S)) <= Len(s)
         /\ Distinct(s, Len(s)) => Distinct(Only(s, S), Len(Only(s, S)))
<1>1. PICK g : /\ \A i \in 0..Len(s) : g[i] = Step(s, S, g, i)
               /\ Only(s, S) = g[Len(s)]
  BY OnlySteps
<1> DEFINE Good(i) == /\ g[i] \in Seq(S)
                      /\ UpTo(g[i], Len(g[i])) = UpTo(s, i) \cap S
                      /\ Len(g[i]) <= i
                      /\ Distinct(s, Len(s)) => Distinct(g[i], Len(g[i]))
           Bad == {i \in 0..Len(s) : ~Good(i)}
<1>2. SUFFICES ASSUME Bad # {} PROVE FALSE
  <2>1. Len(s) \in 0..Len(s)
    OBVIOUS
  <2>2. Good(Len(s))
    BY <2>1
  <2> HIDE DEF Good
  <2>3. Good(Len(s)) => Good(Len(s))
    OBVIOUS
  <2> QED BY <1>1, <2>2 DEF Good
<1>3. PICK i \in Bad : \A k \in Bad : i <= k
  <2>1. Bad \in SUBSET Nat
    OBVIOUS
  <2> HIDE DEF Bad
  <2> QED BY <1>2, <2>1, LeastOf
<1>4. i \in 0..Len(s) /\ i \in Nat /\ ~Good(i)
  BY <1>3
<1>5. CASE i = 0
  <2>1. g[0] = <<>>
    BY <1>1, <1>4, <1>5 DEF Step
  <2>2. UpTo(<<>>, 0) = {} /\ UpTo(s, 0) = {}
    BY DEF UpTo
  <2>3. Good(0)
    BY <2>1, <2>2 DEF Distinct
  <2> QED BY <1>4, <1>5, <2>3
<1>6. CASE i # 0
  <2>1. i - 1 \in 0..Len(s) /\ i - 1 \in Nat /\ i - 1 \notin Bad
    BY <1>3, <1>4, <1>6
  <2>2. Good(i - 1)
    BY <2>1
  <2>3. UpTo(s, i) = UpTo(s, i - 1) \cup {s[i]}
    BY <1>4, <1>6, UpToNext
  <2>4. g[i] = IF s[i] \in S THEN Append(g[i - 1], s[i]) ELSE g[i - 1]
    BY <1>1, <1>4, <1>6 DEF Step
  <2>5. CASE s[i] \notin S
    BY <1>4, <2>1, <2>2, <2>3, <2>4, <2>5
  <2>6. CASE s[i] \in S
    <3> DEFINE p == g[i - 1]
               e == s[i]
    <3>1. p \in Seq(S) /\ UpTo(p, Len(p)) = UpTo(s, i - 1) \cap S /\ Len(p) <= i - 1
          /\ (Distinct(s, Len(s)) => Distinct(p, Len(p)))
      BY <2>2
    <3>2. g[i] = Append(p, e)
      BY <2>4, <2>6
    <3> HIDE DEF p
    <3>3. Append(p, e) \in Seq(S) /\ Len(Append(p, e)) = Len(p) + 1 /\ Len(p) \in Nat
      BY <2>6, <3>1, AppendProperties, LenProperties
    <3>4. UpTo(Append(p, e), Len(p) + 1) = UpTo(p, Len(p)) \cup {e}
      BY <2>6, <3>1, UpToAppend
    <3>5. Append(p, e)[Len(p) + 1] = e /\ \A j \in 1..Len(p) : Append(p, e)[j] = p[j]
      BY <2>6, <3>1, AppendProperties
    <3>6. ASSUME Distinct(s, Len(s)) PROVE Distinct(Append(p, e), Len(p) + 1)
      <4>1. \A j \in 1..Len(p) : p[j] \in UpTo(s, i - 1)
        BY <3>1 DEF UpTo
      <4>2. e \notin UpTo(s, i - 1)
        BY <1>4, <1>6, <3>6 DEF UpTo, Distinct
      <4>3. \A j \in 1..Len(p) : p[j] # e
        BY <4>1, <4>2
      <4>4. Distinct(p, Len(p))
        BY <3>1, <3>6
      <4>5. \A j \in 1..Len(p) + 1 : j \in 1..Len(p) \/ j = Len(p) + 1
        BY <3>3
      <4> HIDE DEF e
      <4> QED BY <3>5, <4>3, <4>4, <4>5 DEF Distinct
    <3>7. UpTo(g[i], Len(g[i])) = UpTo(s, i) \cap S
      BY <2>3, <2>6, <3>1, <3>2, <3>3, <3>4
    <3>8. Len(g[i]) <= i
      BY <1>4, <3>1, <3>2, <3>3
    <3> QED BY <1>4, <3>2, <3>3, <3>6, <3>7, <3>8
  <2> QED BY <2>5, <2>6
<1> QED BY <1>4, <1>5, <1>6

-----------------------------------------------------------------------------
(* The same and the other operations on lists, by their sets of members.   *)

\* The members of a list are those of all its places.
LEMMA MembersUpTo ==
  ASSUME NEW T, NEW s \in Seq(T)
  PROVE  /\ Len(s) \in Nat
         /\ ToSet(s) = UpTo(s, Len(s)) /\ ToSet(s) \subseteq T
         /\ IsInjective(s) <=> Distinct(s, Len(s))
<1>1. Len(s) \in Nat /\ DOMAIN s = 1..Len(s) /\ s \in [1..Len(s) -> T]
  BY LenProperties
<1> QED BY <1>1 DEF ToSet, UpTo, Distinct, IsInjective

\* Only keeps the members of S, in a list over S, and repeats none.
LEMMA OnlyMembers ==
  ASSUME NEW T, NEW s \in Seq(T), NEW S
  PROVE  /\ Only(s, S) \in Seq(S)
         /\ ToSet(Only(s, S)) = ToSet(s) \cap S
         /\ IsInjective(s) => IsInjective(Only(s, S))
<1>1. Len(s) \in Nat
  BY LenProperties
<1>2. /\ Only(s, S) \in Seq(S)
      /\ UpTo(Only(s, S), Len(Only(s, S))) = UpTo(s, Len(s)) \cap S
      /\ Distinct(s, Len(s)) => Distinct(Only(s, S), Len(Only(s, S)))
  BY <1>1, OnlyIs
<1> QED BY <1>2, MembersUpTo

\* Only the empty list has no member.
LEMMA NoMembers ==
  ASSUME NEW T, NEW s \in Seq(T)
  PROVE  s = <<>> <=> ToSet(s) = {}
<1>1. Len(s) \in Nat /\ DOMAIN s = 1..Len(s)
  BY LenProperties
<1>2. CASE s = <<>>
  BY <1>2 DEF ToSet
<1>3. CASE s # <<>>
  <2>1. 1 \in DOMAIN s
    BY <1>1, <1>3, EmptySeq
  <2>2. s[1] \in ToSet(s)
    BY <2>1 DEF ToSet
  <2> QED BY <1>3, <2>2
<1> QED BY <1>2, <1>3

\* Appending adds a member.
LEMMA AppendMembers ==
  ASSUME NEW T, NEW s \in Seq(T), NEW e \in T
  PROVE  /\ Append(s, e) \in Seq(T)
         /\ ToSet(Append(s, e)) = ToSet(s) \cup {e}
         /\ IsInjective(s) /\ e \notin ToSet(s) => IsInjective(Append(s, e))
<1>1. Append(s, e) \in Seq(T) /\ Len(Append(s, e)) = Len(s) + 1
  BY AppendProperties
<1>2. ToSet(Append(s, e)) = ToSet(s) \cup {e}
  <2>1. ToSet(Append(s, e)) = UpTo(Append(s, e), Len(s) + 1)
    BY <1>1, MembersUpTo
  <2>2. ToSet(s) = UpTo(s, Len(s))
    BY MembersUpTo
  <2>3. UpTo(Append(s, e), Len(s) + 1) = UpTo(s, Len(s)) \cup {e}
    BY UpToAppend
  <2> QED BY <2>1, <2>2, <2>3
<1>3. ASSUME IsInjective(s), e \notin ToSet(s) PROVE IsInjective(Append(s, e))
  <2>1. Distinct(s, Len(s)) /\ Len(s) \in Nat
    BY <1>3, MembersUpTo
  <2>2. \A j \in 1..Len(s) : s[j] # e
    BY <1>3, LenProperties DEF ToSet
  <2>3. Append(s, e)[Len(s) + 1] = e /\ \A j \in 1..Len(s) : Append(s, e)[j] = s[j]
    BY AppendProperties
  <2>4. \A j \in 1..Len(s) + 1 : j \in 1..Len(s) \/ j = Len(s) + 1
    BY <2>1
  <2>5. Distinct(Append(s, e), Len(s) + 1)
    BY <2>1, <2>2, <2>3, <2>4 DEF Distinct
  <2> QED BY <1>1, <2>5, MembersUpTo
<1> QED BY <1>1, <1>2, <1>3

\* The head of a list and the members of its tail.
LEMMA TailMembers ==
  ASSUME NEW T, NEW s \in Seq(T), s # <<>>
  PROVE  /\ Head(s) \in ToSet(s) /\ Head(s) = s[1] /\ Tail(s) \in Seq(T)
         /\ ToSet(s) = ToSet(Tail(s)) \cup {Head(s)}
         /\ IsInjective(s) => IsInjective(Tail(s)) /\ Head(s) \notin ToSet(Tail(s))
<1>1. Len(s) \in Nat \ {0} /\ DOMAIN s = 1..Len(s) /\ Head(s) = s[1]
  BY LenProperties, EmptySeq
<1>2. /\ Tail(s) \in Seq(T) /\ Len(Tail(s)) = Len(s) - 1
      /\ \A i \in 1..Len(s) - 1 : Tail(s)[i] = s[i + 1]
  BY HeadTailProperties
<1>3. DOMAIN Tail(s) = 1..Len(s) - 1
  BY <1>2, LenProperties
<1>4. \A i \in 1..Len(s) : i = 1 \/ (i - 1 \in 1..Len(s) - 1 /\ (i - 1) + 1 = i)
  BY <1>1
<1>5. \A i \in 1..Len(s) - 1 : i + 1 \in 1..Len(s) /\ i + 1 # 1
  BY <1>1
<1>6. ToSet(s) = ToSet(Tail(s)) \cup {Head(s)}
  <2>1. ASSUME NEW i \in 1..Len(s) PROVE s[i] \in ToSet(Tail(s)) \cup {Head(s)}
    <3>1. CASE i = 1
      BY <1>1, <3>1
    <3>2. CASE i # 1
      <4>1. i - 1 \in 1..Len(s) - 1 /\ (i - 1) + 1 = i
        BY <1>4, <3>2
      <4>2. Tail(s)[i - 1] = s[(i - 1) + 1]
        BY <1>2, <4>1
      <4>3. Tail(s)[i - 1] \in ToSet(Tail(s))
        BY <1>3, <4>1 DEF ToSet
      <4> QED BY <4>1, <4>2, <4>3
    <3> QED BY <3>1, <3>2
  <2>2. ASSUME NEW i \in 1..Len(s) - 1 PROVE Tail(s)[i] \in ToSet(s)
    BY <1>1, <1>2, <1>5 DEF ToSet
  <2>3. Head(s) \in ToSet(s)
    BY <1>1 DEF ToSet
  <2> QED BY <1>1, <1>3, <2>1, <2>2, <2>3 DEF ToSet
<1>7. ASSUME IsInjective(s) PROVE IsInjective(Tail(s)) /\ Head(s) \notin ToSet(Tail(s))
  <2>1. ASSUME NEW i \in 1..Len(s) - 1, NEW j \in 1..Len(s) - 1, Tail(s)[i] = Tail(s)[j]
        PROVE  i = j
    <3>1. s[i + 1] = s[j + 1] /\ i + 1 \in DOMAIN s /\ j + 1 \in DOMAIN s
      BY <1>1, <1>2, <1>5, <2>1
    <3>2. i + 1 = j + 1
      BY <1>7, <3>1 DEF IsInjective
    <3> QED BY <3>2
  <2>2. ASSUME NEW i \in 1..Len(s) - 1, Tail(s)[i] = s[1] PROVE FALSE
    <3>1. s[i + 1] = s[1] /\ i + 1 \in DOMAIN s /\ 1 \in DOMAIN s
      BY <1>1, <1>2, <1>5, <2>2
    <3>2. i + 1 = 1
      BY <1>7, <3>1 DEF IsInjective
    <3> QED BY <1>5, <3>2
  <2> QED BY <1>1, <1>3, <2>1, <2>2 DEF IsInjective, ToSet
<1> QED BY <1>1, <1>2, <1>6, <1>7

\* The first n members of a list without repetitions are n in number.
LEMMA PrefixMembers ==
  ASSUME NEW T, NEW s \in Seq(T), IsInjective(s), NEW n \in 0..Len(s)
  PROVE  /\ ToSet(SubSeq(s, 1, n)) \subseteq ToSet(s)
         /\ ToSet(SubSeq(s, 1, n)) = {s[i] : i \in 1..n}
         /\ IsFiniteSet(ToSet(SubSeq(s, 1, n)))
         /\ Cardinality(ToSet(SubSeq(s, 1, n))) = n
<1>1. Len(s) \in Nat /\ DOMAIN s = 1..Len(s) /\ s \in [1..Len(s) -> T]
  BY LenProperties
<1> DEFINE p == SubSeq(s, 1, n)
<1>2. p \in Seq(T) /\ Len(p) = n /\ \A i \in 1..n : p[i] = s[i]
  <2>1. \A i \in 1..n : s[i] \in T
    BY <1>1
  <2>2. /\ p \in Seq(T) /\ Len(p) = (IF 1 <= n THEN n - 1 + 1 ELSE 0)
        /\ \A i \in 1..n - 1 + 1 : p[i] = s[1 + i - 1]
    BY <1>1, <2>1, SubSeqProperties
  <2> HIDE DEF p
  <2>3. n - 1 + 1 = n /\ \A i \in 1..n : 1 + i - 1 = i
    BY <1>1
  <2> QED BY <1>1, <2>2, <2>3
<1>3. DOMAIN p = 1..n
  BY <1>2, LenProperties
<1>4. ToSet(p) \subseteq ToSet(s) /\ ToSet(p) = {s[i] : i \in 1..n}
  <2>1. ToSet(p) = {p[i] : i \in 1..n} /\ ToSet(s) = {s[i] : i \in 1..Len(s)}
    BY <1>1, <1>3 DEF ToSet
  <2>2. ToSet(p) = {s[i] : i \in 1..n}
    BY <1>2, <2>1
  <2> QED BY <1>1, <2>1, <2>2
<1>5. p \in Bijection(1..n, ToSet(p))
  <2>1. p \in [1..n -> ToSet(p)]
    BY <1>2, <1>3, LenProperties DEF ToSet
  <2>2. \A i, j \in 1..n : p[i] = p[j] => i = j
    BY <1>1, <1>2 DEF IsInjective
  <2>3. \A e \in ToSet(p) : \E i \in 1..n : p[i] = e
    BY <1>3 DEF ToSet
  <2> QED BY <1>3, <2>1, <2>2, <2>3 DEF Bijection, Injection, Surjection, IsInjective
<1>6. IsFiniteSet(1..n) /\ Cardinality(1..n) = n
  BY <1>1, FS_Interval
<1> HIDE DEF p
<1>7. IsFiniteSet(ToSet(p)) /\ Cardinality(ToSet(p)) = n
  BY <1>5, <1>6, FS_Bijection DEF ExistsBijection
<1> QED BY <1>4, <1>7 DEF p

\* A list that repeats nothing is as long as it has members.
LEMMA LengthIs ==
  ASSUME NEW T, NEW s \in Seq(T), IsInjective(s)
  PROVE  /\ Len(s) \in Nat
         /\ IsFiniteSet(ToSet(s)) /\ Cardinality(ToSet(s)) = Len(s)
<1>1. Len(s) \in Nat /\ Len(s) \in 0..Len(s) /\ DOMAIN s = 1..Len(s) /\ s \in [1..Len(s) -> T]
  BY LenProperties
<1> DEFINE p == SubSeq(s, 1, Len(s))
<1>2. p \in Seq(T) /\ Len(p) = Len(s) /\ \A i \in 1..Len(s) : p[i] = s[i]
  <2>1. /\ p \in Seq(T) /\ Len(p) = (IF 1 <= Len(s) THEN Len(s) - 1 + 1 ELSE 0)
        /\ \A i \in 1..Len(s) - 1 + 1 : p[i] = s[1 + i - 1]
    BY <1>1, SubSeqProperties
  <2> HIDE DEF p
  <2>2. Len(s) - 1 + 1 = Len(s) /\ \A i \in 1..Len(s) : 1 + i - 1 = i
    BY <1>1
  <2> QED BY <1>1, <2>1, <2>2
<1>3. ToSet(p) = ToSet(s)
  <2>1. DOMAIN p = 1..Len(s)
    BY <1>2, LenProperties
  <2> HIDE DEF p
  <2> QED BY <1>1, <1>2, <2>1 DEF ToSet
<1> QED BY <1>1, <1>3, PrefixMembers

\* What is left when the first n places are cut off.
LEMMA SuffixMembers ==
  ASSUME NEW T, NEW s \in Seq(T), IsInjective(s), NEW n \in 0..Len(s)
  PROVE  /\ SubSeq(s, n + 1, Len(s)) \in Seq(T)
         /\ Len(SubSeq(s, n + 1, Len(s))) = Len(s) - n
         /\ ToSet(SubSeq(s, n + 1, Len(s))) = ToSet(s) \ ToSet(SubSeq(s, 1, n))
         /\ IsInjective(SubSeq(s, n + 1, Len(s)))
<1>1. Len(s) \in Nat /\ DOMAIN s = 1..Len(s) /\ s \in [1..Len(s) -> T]
  BY LenProperties
<1> DEFINE p == SubSeq(s, 1, n)
           q == SubSeq(s, n + 1, Len(s))
           k == Len(s) - n
<1>2. /\ p \in Seq(T) /\ Len(p) = (IF 1 <= n THEN n - 1 + 1 ELSE 0)
      /\ \A i \in 1..n - 1 + 1 : p[i] = s[1 + i - 1]
  <2>1. \A i \in 1..n : s[i] \in T
    BY <1>1
  <2> QED BY <1>1, <2>1, SubSeqProperties
<1>3. /\ q \in Seq(T) /\ Len(q) = (IF n + 1 <= Len(s) THEN Len(s) - (n + 1) + 1 ELSE 0)
      /\ \A i \in 1..Len(s) - (n + 1) + 1 : q[i] = s[n + 1 + i - 1]
  <2>1. \A i \in n + 1..Len(s) : s[i] \in T
    BY <1>1
  <2> QED BY <1>1, <2>1, SubSeqProperties
<1> HIDE DEF p, q
<1>4. Len(p) = n /\ \A i \in 1..n : p[i] = s[i]
  <2>1. n - 1 + 1 = n /\ \A i \in 1..n : 1 + i - 1 = i
    BY <1>1
  <2> QED BY <1>1, <1>2, <2>1
<1>5. k \in Nat /\ Len(q) = k /\ \A i \in 1..k : q[i] = s[n + i]
  <2>1. k \in Nat /\ Len(s) - (n + 1) + 1 = k /\ \A i \in 1..k : n + 1 + i - 1 = n + i
    BY <1>1
  <2>2. Len(q) = k
    <3>1. Len(s) \in Nat
      BY <1>1
    <3>2. (n + 1 <= Len(s)) \/ (~(n + 1 <= Len(s)) /\ k = 0)
      BY <3>1
    <3> HIDE DEF k
    <3> QED BY <1>3, <2>1, <3>2
  <2>3. \A i \in 1..k : q[i] = s[n + 1 + i - 1]
    BY <1>3, <2>1
  <2> HIDE DEF k
  <2> QED BY <2>1, <2>2, <2>3
<1>6. DOMAIN p = 1..n /\ DOMAIN q = 1..k
  BY <1>2, <1>3, <1>4, <1>5, LenProperties
<1>7. ToSet(p) = {s[i] : i \in 1..n} /\ ToSet(q) = {s[n + i] : i \in 1..k}
  BY <1>4, <1>5, <1>6 DEF ToSet
<1>8. ToSet(q) = ToSet(s) \ ToSet(p)
  <2>1. ASSUME NEW e \in ToSet(q) PROVE e \in ToSet(s) \ ToSet(p)
    <3>1. PICK i \in 1..k : e = s[n + i]
      BY <1>7
    <3>2. n + i \in 1..Len(s) /\ \A j \in 1..n : j # n + i /\ j \in 1..Len(s)
      BY <1>1, <1>5
    <3>3. \A j \in 1..n : s[j] # s[n + i]
      BY <1>1, <3>2 DEF IsInjective
    <3> QED BY <1>1, <1>7, <3>1, <3>2, <3>3 DEF ToSet
  <2>2. ASSUME NEW e \in ToSet(s), e \notin ToSet(p) PROVE e \in ToSet(q)
    <3>1. PICK j \in 1..Len(s) : e = s[j]
      BY <1>1 DEF ToSet
    <3>2. j \notin 1..n
      BY <1>7, <2>2, <3>1
    <3>3. j - n \in 1..k /\ n + (j - n) = j
      BY <1>1, <1>5, <3>2
    <3> QED BY <1>7, <3>1, <3>3
  <2> QED BY <2>1, <2>2
<1>9. IsInjective(q)
  <2> SUFFICES ASSUME NEW i \in 1..k, NEW j \in 1..k, q[i] = q[j] PROVE i = j
    BY <1>6 DEF IsInjective
  <2>1. n + i \in 1..Len(s) /\ n + j \in 1..Len(s)
    BY <1>1, <1>5
  <2>2. s[n + i] = s[n + j]
    BY <1>5
  <2>3. n + i = n + j
    BY <1>1, <2>1, <2>2 DEF IsInjective
  <2> QED BY <1>1, <2>3
<1> QED BY <1>3, <1>5, <1>8, <1>9 DEF p, q

-----------------------------------------------------------------------------
(* Lists put one after the other.                                          *)

Join(ss, g, i) == IF i = 1 THEN ss[i] ELSE g[i - 1] \o ss[i]

\* The concatenations of the first lists form a function.
LEMMA JoinExists ==
  ASSUME NEW ss, NEW n \in Nat \ {0}
  PROVE  \E g : g = [i \in 1..n |-> Join(ss, g, i)]
<1> DEFINE Bad == {m \in Nat \ {0} : ~ \E g : g = [i \in 1..m |-> Join(ss, g, i)]}
<1> SUFFICES ASSUME Bad # {} PROVE FALSE
  OBVIOUS
<1>1. PICK m \in Bad : \A k \in Bad : m <= k
  <2>1. Bad \in SUBSET Nat
    OBVIOUS
  <2> HIDE DEF Bad
  <2> QED BY <2>1, LeastOf
<1>2. CASE m = 1
  <2> DEFINE g == [i \in 1..1 |-> ss[i]]
  <2>1. g = [i \in 1..1 |-> Join(ss, g, i)]
    BY DEF Join
  <2> QED BY <1>1, <1>2, <2>1
<1>3. CASE m # 1
  <2>1. m - 1 \in Nat \ {0} /\ m - 1 \notin Bad
    BY <1>1, <1>3
  <2>2. PICK f : f = [i \in 1..m - 1 |-> Join(ss, f, i)]
    BY <2>1
  <2> DEFINE g == [i \in 1..m |-> Join(ss, f, i)]
  <2>3. \A i \in 1..m - 1 : g[i] = f[i]
    <3>1. \A i \in 1..m - 1 : f[i] = Join(ss, f, i)
      BY <2>2
    <3> QED BY <2>1, <3>1
  <2>4. \A i \in 1..m : Join(ss, g, i) = Join(ss, f, i)
    <3>1. \A i \in 1..m : i # 1 => i - 1 \in 1..m - 1
      BY <1>1
    <3> HIDE DEF g
    <3> QED BY <2>3, <3>1 DEF Join
  <2>5. g = [i \in 1..m |-> Join(ss, g, i)]
    BY <2>4
  <2> QED BY <1>1, <2>5
<1> QED BY <1>2, <1>3

\* FlattenSeq is the last of its steps.
LEMMA JoinSteps ==
  ASSUME NEW ss, Len(ss) \in Nat \ {0}
  PROVE  \E g : /\ \A i \in 1..Len(ss) : g[i] = Join(ss, g, i)
                /\ FlattenSeq(ss) = g[Len(ss)]
<1> DEFINE flatten == CHOOSE g : g = [i \in 1..Len(ss) |-> Join(ss, g, i)]
<1>1. flatten = [i \in 1..Len(ss) |-> Join(ss, flatten, i)]
  BY JoinExists
<1>2. FlattenSeq(ss) = flatten[Len(ss)]
  BY DEF FlattenSeq, Join
<1> HIDE DEF flatten
<1>3. \A i \in 1..Len(ss) : flatten[i] = Join(ss, flatten, i)
  BY <1>1
<1> QED BY <1>2, <1>3

\* The members of a concatenation of two lists.
LEMMA JoinMembers ==
  ASSUME NEW T, NEW s \in Seq(T), NEW u \in Seq(T)
  PROVE  /\ s \o u \in Seq(T)
         /\ ToSet(s \o u) = ToSet(s) \cup ToSet(u)
         /\ IsInjective(s) /\ IsInjective(u) /\ ToSet(s) \cap ToSet(u) = {}
              => IsInjective(s \o u)
<1> DEFINE m == Len(s)
           n == Len(u)
           w == s \o u
<1>1. m \in Nat /\ n \in Nat /\ DOMAIN s = 1..m /\ DOMAIN u = 1..n
  BY LenProperties
<1>2. /\ w \in Seq(T) /\ Len(w) = m + n
      /\ \A i \in 1..m + n : w[i] = IF i <= m THEN s[i] ELSE u[i - m]
  BY ConcatProperties
<1>3. DOMAIN w = 1..m + n
  BY <1>2, LenProperties
<1> HIDE DEF w, m, n
<1>4. \A i \in 1..m : i \in 1..m + n /\ w[i] = s[i] /\ s[i] \in ToSet(s)
  <2> TAKE i \in 1..m
  <2>1. i \in 1..m + n /\ i <= m
    BY <1>1
  <2> QED BY <1>1, <1>2, <2>1 DEF ToSet
<1>5. \A j \in 1..n : m + j \in 1..m + n /\ w[m + j] = u[j] /\ u[j] \in ToSet(u)
  <2> TAKE j \in 1..n
  <2>1. m + j \in 1..m + n /\ ~ (m + j <= m) /\ (m + j) - m = j
    BY <1>1
  <2>2. w[m + j] = u[(m + j) - m]
    BY <1>2, <2>1
  <2> QED BY <1>1, <2>1, <2>2 DEF ToSet
<1>6. \A i \in 1..m + n : i \in 1..m \/ \E j \in 1..n : i = m + j
  <2> TAKE i \in 1..m + n
  <2>1. i \notin 1..m => i - m \in 1..n /\ i = m + (i - m)
    BY <1>1
  <2> QED BY <2>1
<1>7. ToSet(w) = ToSet(s) \cup ToSet(u)
  <2>1. ToSet(w) \subseteq ToSet(s) \cup ToSet(u)
    <3> SUFFICES ASSUME NEW i \in 1..m + n PROVE w[i] \in ToSet(s) \cup ToSet(u)
      BY <1>3 DEF ToSet
    <3> QED BY <1>4, <1>5, <1>6
  <2>2. \A i \in 1..m + n : w[i] \in ToSet(w)
    BY <1>3 DEF ToSet
  <2>3. \A i \in 1..m : s[i] \in ToSet(w)
    BY <1>4, <2>2
  <2>4. \A j \in 1..n : u[j] \in ToSet(w)
    BY <1>5, <2>2
  <2>5. ToSet(s) \subseteq ToSet(w)
    BY <1>1, <2>3 DEF ToSet
  <2>6. ToSet(u) \subseteq ToSet(w)
    BY <1>1, <2>4 DEF ToSet
  <2> QED BY <2>1, <2>5, <2>6
<1>8. ASSUME IsInjective(s), IsInjective(u), ToSet(s) \cap ToSet(u) = {}
      PROVE  IsInjective(w)
  <2>1. \A i, j \in 1..m : w[i] = w[j] => i = j
    BY <1>1, <1>4, <1>8 DEF IsInjective
  <2>2. \A i, j \in 1..n : w[m + i] = w[m + j] => m + i = m + j
    BY <1>1, <1>5, <1>8 DEF IsInjective
  <2>3. \A i \in 1..m, j \in 1..n : w[i] # w[m + j]
    BY <1>4, <1>5, <1>8
  <2> SUFFICES ASSUME NEW i \in 1..m + n, NEW j \in 1..m + n, w[i] = w[j]
               PROVE  i = j
    BY <1>3 DEF IsInjective
  <2>4. CASE i \in 1..m /\ j \in 1..m
    BY <2>1, <2>4
  <2>5. CASE i \in 1..m /\ j \notin 1..m
    BY <1>6, <2>3, <2>5
  <2>6. CASE i \notin 1..m /\ j \in 1..m
    BY <1>6, <2>3, <2>6
  <2>7. CASE i \notin 1..m /\ j \notin 1..m
    BY <1>6, <2>2, <2>7
  <2> QED BY <2>4, <2>5, <2>6, <2>7
<1> QED BY <1>2, <1>7, <1>8 DEF w

Apart(ss) == \A i, j \in DOMAIN ss : i # j => ToSet(ss[i]) \cap ToSet(ss[j]) = {}

\* The members of a concatenation of lists.
LEMMA FlattenMembers ==
  ASSUME NEW T, NEW ss \in Seq(Seq(T))
  PROVE  /\ FlattenSeq(ss) \in Seq(T)
         /\ ToSet(FlattenSeq(ss)) = UNION {ToSet(ss[i]) : i \in DOMAIN ss}
         /\ Apart(ss) /\ (\A i \in DOMAIN ss : IsInjective(ss[i]))
              => IsInjective(FlattenSeq(ss))
<1> DEFINE n == Len(ss)
           Clear == Apart(ss) /\ \A i \in 1..n : IsInjective(ss[i])
<1>1. n \in Nat /\ DOMAIN ss = 1..n /\ \A i \in 1..n : ss[i] \in Seq(T)
  BY LenProperties
<1>2. CASE n = 0
  <2>1. ss = <<>> /\ FlattenSeq(ss) = <<>>
    BY <1>2, EmptySeq DEF FlattenSeq
  <2>2. <<>> \in Seq(T) /\ DOMAIN <<>> = {}
    OBVIOUS
  <2>3. ToSet(<<>>) = {} /\ IsInjective(<<>>)
    BY <2>2 DEF ToSet, IsInjective
  <2>4. DOMAIN ss = {}
    BY <1>1, <1>2
  <2> QED BY <2>1, <2>2, <2>3, <2>4
<1>3. CASE n # 0
  <2>1. PICK g : /\ \A i \in 1..n : g[i] = Join(ss, g, i)
                 /\ FlattenSeq(ss) = g[n]
    BY <1>1, <1>3, JoinSteps
  <2> DEFINE Good(i) == /\ g[i] \in Seq(T)
                        /\ ToSet(g[i]) = UNION {ToSet(ss[j]) : j \in 1..i}
                        /\ Clear => IsInjective(g[i])
             Bad == {i \in 1..n : ~ Good(i)}
  <2>2. ASSUME Bad # {} PROVE FALSE
    <3>1. PICK i \in Bad : \A k \in Bad : i <= k
      <4>1. Bad \in SUBSET Nat
        OBVIOUS
      <4> HIDE DEF Bad
      <4> QED BY <2>2, <4>1, LeastOf
    <3>2. i \in 1..n /\ i \in Nat /\ ~ Good(i)
      BY <1>1, <3>1
    <3>3. CASE i = 1
      <4>1. g[1] = ss[1]
        BY <2>1, <3>2, <3>3 DEF Join
      <4>2. UNION {ToSet(ss[j]) : j \in 1..1} = ToSet(ss[1])
        <5>1. \A j \in 1..1 : j = 1
          OBVIOUS
        <5>2. 1 \in 1..1
          OBVIOUS
        <5> QED BY <5>1, <5>2
      <4> QED BY <1>1, <3>2, <3>3, <4>1, <4>2
    <3>4. CASE i # 1
      <4> DEFINE p == i - 1
      <4>1. p \in 1..n /\ p \in Nat /\ ~ (i <= p)
        BY <1>1, <3>2, <3>4
      <4>2. Good(p)
        BY <3>1, <4>1
      <4>3. g[i] = g[p] \o ss[i]
        BY <2>1, <3>2, <3>4 DEF Join
      <4>4. \A j \in 1..i : j \in 1..p \/ j = i
        BY <3>2
      <4>5. \A j \in 1..p : j \in 1..i /\ j \in 1..n /\ j # i
        BY <1>1, <3>2
      <4>6. i \in 1..i
        BY <3>2
      <4> HIDE DEF p, Clear
      <4>7. UNION {ToSet(ss[j]) : j \in 1..i}
                = (UNION {ToSet(ss[j]) : j \in 1..p}) \cup ToSet(ss[i])
        <5>1. 1..i = 1..p \cup {i}
          BY <4>4, <4>5, <4>6
        <5> QED BY <5>1
      <4>8. /\ g[p] \in Seq(T) /\ ToSet(g[p]) = UNION {ToSet(ss[j]) : j \in 1..p}
            /\ (Clear => IsInjective(g[p])) /\ ss[i] \in Seq(T)
        BY <1>1, <3>2, <4>2
      <4>9. /\ g[i] \in Seq(T) /\ ToSet(g[i]) = ToSet(g[p]) \cup ToSet(ss[i])
            /\ IsInjective(g[p]) /\ IsInjective(ss[i]) /\ ToSet(g[p]) \cap ToSet(ss[i]) = {}
                 => IsInjective(g[i])
        BY <4>3, <4>8, JoinMembers
      <4>10. Clear => IsInjective(ss[i]) /\ ToSet(g[p]) \cap ToSet(ss[i]) = {}
        <5>1. ASSUME Clear PROVE \A j \in 1..p : ToSet(ss[j]) \cap ToSet(ss[i]) = {}
          BY <1>1, <3>2, <4>5, <5>1 DEF Clear, Apart
        <5> QED BY <3>2, <4>8, <5>1 DEF Clear
      <4>11. Good(i)
        BY <4>7, <4>8, <4>9, <4>10
      <4> QED BY <3>2, <4>11
    <3> QED BY <3>3, <3>4
  <2>3. n \in 1..n
    BY <1>1, <1>3
  <2>4. Good(n)
    BY <2>2, <2>3
  <2> QED BY <1>1, <2>1, <2>4
<1> QED BY <1>2, <1>3
=============================================================================
