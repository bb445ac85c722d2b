----------------------------- MODULE SequenceFacts -----------------------------
(***************************************************************************)
(* Facts about the operators the models are built from, used by the proofs *)
(* of every component: the ends of a sequence, what is left when one entry  *)
(* is taken out, the reverse, the orders of a set, what a loop over a list *)
(* computes, by induction over its turns, and what a fold over a set does. *)
(***************************************************************************)
EXTENDS Integers, Sequences, FiniteSets, SequencesExt,
        SequenceTheorems, FiniteSetTheorems, WellFoundedInduction, TLAPS

\* Front and Last: m_CommandsList.back() and pop_back() of
\* UNDO_REDO_CONTAINER::PopCommand().
LEMMA FrontLast ==
    ASSUME NEW D, NEW s \in Seq(D), s # << >>
    PROVE  /\ Front(s) \in Seq(D)
           /\ Len(Front(s)) = Len(s) - 1
           /\ Last(s) \in D
<1>1. Len(s) \in Nat \ {0}
  BY EmptySeq
<1>2. s[Len(s)] \in D
  BY <1>1
<1>3. \A k \in 1 .. Len(s) - 1 : s[k] \in D
  <2> TAKE k \in 1 .. Len(s) - 1
  <2>1. k \in 1 .. Len(s)
    BY <1>1
  <2> QED  BY <2>1
<1>4. SubSeq(s, 1, Len(s) - 1) \in Seq(D)
  BY <1>1, <1>3, SubSeqProperties
<1>5. Len(SubSeq(s, 1, Len(s) - 1)) = Len(s) - 1
  <2> DEFINE n == Len(s) - 1
  <2>1. n \in Nat /\ 1 \in Int
    BY <1>1
  <2>2. \A k \in 1 .. n : s[k] \in D
    BY <1>3
  <2> HIDE DEF n
  <2>3. Len(SubSeq(s, 1, n)) = IF 1 <= n THEN n - 1 + 1 ELSE 0
    BY <2>1, <2>2, SubSeqProperties
  <2>4. Len(SubSeq(s, 1, n)) = n
    BY <2>1, <2>3
  <2> QED  BY <2>4 DEF n
<1> QED  BY <1>2, <1>4, <1>5 DEF Front, Last

\* What is left of a stack whose top is taken off is what was there.
LEMMA FrontAt ==
    ASSUME NEW D, NEW s \in Seq(D), s # << >>, NEW k \in 1 .. (Len(s) - 1)
    PROVE  Front(s)[k] = s[k]
<1>1. Len(s) \in Nat \ {0}
  BY EmptySeq
<1> DEFINE n == Len(s) - 1
<1>2. n \in Nat /\ k \in 1 .. n
  BY <1>1
<1>3. \A j \in 1 .. n : s[j] \in D
  BY <1>1
<1>4. Front(s) = SubSeq(s, 1, n)
  BY DEF Front
<1> HIDE DEF n
<1>5. SubSeq(s, 1, n) = [j \in 1 .. (1 + n - 1) |-> s[1 + j - 1]]
  BY <1>2
<1>6. k \in 1 .. (1 + n - 1) /\ 1 + k - 1 = k
  BY <1>2
<1> QED  BY <1>4, <1>5, <1>6

\* Front is a list even of the empty list.
LEMMA FrontType ==
    ASSUME NEW D, NEW s \in Seq(D)
    PROVE  Front(s) \in Seq(D)
<1>1. CASE s # << >>
  BY <1>1, FrontLast
<1>2. CASE s = << >>
  <2>1. 1 \in Int /\ Len(s) - 1 \in Int /\ Len(s) - 1 < 1
    BY <1>2
  <2>2. SubSeq(s, 1, Len(s) - 1) = << >>
    BY <2>1, SubSeqEmpty
  <2> QED  BY <2>2 DEF Front
<1> QED  BY <1>1, <1>2

\* A suffix of a list of commands.
LEMMA SuffixType ==
    ASSUME NEW D, NEW s \in Seq(D), NEW m \in Nat, m < Len(s)
    PROVE  /\ SubSeq(s, m + 1, Len(s)) \in Seq(D)
           /\ Len(SubSeq(s, m + 1, Len(s))) = Len(s) - m
<1>1. Len(s) \in Nat /\ m + 1 \in Int /\ Len(s) \in Int
  OBVIOUS
<1>2. \A k \in m + 1 .. Len(s) : s[k] \in D
  <2> TAKE k \in m + 1 .. Len(s)
  <2>1. k \in 1 .. Len(s)
    BY <1>1
  <2> QED  BY <2>1
<1>3. SubSeq(s, m + 1, Len(s)) \in Seq(D)
  BY <1>1, <1>2, SubSeqProperties
<1>4. Len(SubSeq(s, m + 1, Len(s))) = Len(s) - m
  BY <1>1, <1>2, SubSeqProperties
<1> QED  BY <1>3, <1>4

\* One entry is taken out: PICKED_ITEMS_LIST::RemovePicker().
LEMMA TakeOut ==
    ASSUME NEW D, NEW s \in Seq(D), NEW k \in 1 .. Len(s)
    PROVE  SubSeq(s, 1, k - 1) \o SubSeq(s, k + 1, Len(s)) \in Seq(D)
<1>1. Len(s) \in Nat /\ k \in Nat /\ k - 1 \in Int /\ k + 1 \in Int
  OBVIOUS
<1>2. SubSeq(s, 1, k - 1) \in Seq(D)
  <2>1. \A j \in 1 .. k - 1 : s[j] \in D
    <3> TAKE j \in 1 .. k - 1
    <3>1. j \in 1 .. Len(s)
      BY <1>1
    <3> QED  BY <3>1
  <2> QED  BY <1>1, <2>1, SubSeqProperties
<1>3. SubSeq(s, k + 1, Len(s)) \in Seq(D)
  <2>1. \A j \in k + 1 .. Len(s) : s[j] \in D
    <3> TAKE j \in k + 1 .. Len(s)
    <3>1. j \in 1 .. Len(s)
      BY <1>1
    <3> QED  BY <3>1
  <2> QED  BY <1>1, <2>1, SubSeqProperties
<1> QED  BY <1>2, <1>3, ConcatProperties

\* A list with one entry per number: the lines or pickers made from a list.
LEMMA TableType ==
    ASSUME NEW D, NEW n \in Nat, NEW f \in [1 .. n -> D]
    PROVE  f \in Seq(D) /\ Len(f) = n
  OBVIOUS

\* PICKED_ITEMS_LIST::ReversePickersListOrder()
LEMMA ReverseType ==
    ASSUME NEW D, NEW s \in Seq(D)
    PROVE  Reverse(s) \in Seq(D)
<1>1. Len(s) \in Nat
  OBVIOUS
<1>2. \A k \in 1 .. Len(s) : s[(Len(s) - k) + 1] \in D
  <2> TAKE k \in 1 .. Len(s)
  <2>1. (Len(s) - k) + 1 \in 1 .. Len(s)
    BY <1>1
  <2> QED  BY <2>1
<1> QED  BY <1>1, <1>2 DEF Reverse

\* The elements of a set in an order: the items that CommitRouting() takes, the
\* tools that a frame has from the start.
LEMMA SetInOrder ==
    ASSUME NEW S, IsFiniteSet(S)
    PROVE  /\ Len(SetToSeq(S)) \in Nat
           /\ SetToSeq(S) \in [1 .. Len(SetToSeq(S)) -> S]
           /\ IsInjective(SetToSeq(S)) /\ ToSet(SetToSeq(S)) = S
<1> DEFINE c == Cardinality(S)
           q == SetToSeq(S)
<1>1. c \in Nat /\ ExistsBijection(1 .. c, S)
  BY FS_CardinalityType
<1>2. PICK f : f \in Bijection(1 .. c, S)
  BY <1>1 DEF ExistsBijection
<1>3. f \in [1 .. c -> S] /\ IsInjective(f)
  BY <1>2 DEF Bijection, Injection, Surjection
<1>4. q \in [1 .. c -> S] /\ IsInjective(q)
  BY <1>3 DEF SetToSeq
<1>5. q \in Injection(1 .. c, S)
  BY <1>4 DEF Injection
<1>6. Cardinality(1 .. c) = c
  BY <1>1, FS_Interval
<1>7. q \in Surjection(1 .. c, S)
  BY <1>5, <1>6, FS_Injection
<1>8. Len(q) = c
  BY <1>1, <1>4
<1>9. ToSet(q) = S
  BY <1>4, <1>7 DEF ToSet, Surjection
<1> HIDE DEF c, q
<1> QED  BY <1>1, <1>4, <1>8, <1>9 DEF q

\* The orders in which the elements of a hash set can be met.
LEMMA OrderType ==
    ASSUME NEW D, NEW T \in SUBSET D, IsFiniteSet(T), NEW s \in SetToSeqs(T)
    PROVE  s \in Seq(D)
<1>1. Cardinality(T) \in Nat
  BY FS_CardinalityType
<1>2. s \in [1 .. Cardinality(T) -> T]
  BY DEF SetToSeqs
<1> QED  BY <1>1, <1>2

\* Induction over the natural numbers, for a set of good numbers: what the proofs
\* about loops of the code rest on (a property cannot be a parameter of a lemma here).
LEMMA NatSets ==
    ASSUME NEW S \in SUBSET Nat, 0 \in S, \A n \in S : n + 1 \in S
    PROVE  S = Nat
<1> DEFINE R == OpToRel(<, Nat)
           T == Nat \ S
<1>1. SUFFICES ASSUME T # {}
               PROVE  FALSE
  OBVIOUS
<1>2. PICK x \in T : \A y \in T : ~(<<y, x>> \in R)
  <2>1. IsWellFoundedOn(R, Nat)
    BY NatLessThanWellFounded
  <2> HIDE DEF R
  <2> QED  BY <1>1, <2>1, WFMin, Zenon
<1>3. x # 0 /\ x - 1 \in Nat /\ x - 1 < x
  OBVIOUS
<1>4. x - 1 \notin S
  BY <1>3
<1>5. <<x - 1, x>> \in R
  BY <1>3 DEF OpToRel
<1> QED  BY <1>2, <1>3, <1>4, <1>5

\* A set of positions has a first one.
LEMMA SmallestNat ==
    ASSUME NEW S \in SUBSET Nat, S # {}
    PROVE  \E m \in S : \A j \in S : m <= j
<1> SUFFICES ASSUME \A m \in S : \E j \in S : ~(m <= j)  PROVE FALSE
  OBVIOUS
<1> DEFINE T == {n \in Nat : \A j \in S : n <= j}
<1>1. T \in SUBSET Nat /\ 0 \in T
  OBVIOUS
<1>2. ASSUME NEW n \in T  PROVE n + 1 \in T
  <2>1. n \notin S
    OBVIOUS
  <2>2. \A j \in S : n <= j /\ n # j /\ j \in Nat /\ n \in Nat
    BY <2>1
  <2> QED  BY <2>2
<1>3. T = Nat
  <2> HIDE DEF T
  <2> QED  BY <1>1, <1>2, NatSets
<1>4. PICK s \in S : s \in Nat
  OBVIOUS
<1>5. s + 1 \in T
  BY <1>3, <1>4
<1> QED  BY <1>4, <1>5

\* The same for the turns of a loop over a list of n entries.
LEMMA IntervalSets ==
    ASSUME NEW n \in Nat, NEW S, 0 \in S,
           \A k \in 0 .. n - 1 : k \in S => k + 1 \in S
    PROVE  0 .. n \subseteq S
<1> DEFINE T == {k \in Nat : k \in S \/ k > n}
<1>1. 0 \in T
  OBVIOUS
<1>2. ASSUME NEW k \in T
      PROVE  k + 1 \in T
  <2>1. CASE k < n
    <3>1. k \in 0 .. n - 1 /\ k \in S
      BY <2>1
    <3> QED  BY <3>1
  <2>2. CASE k >= n
    BY <2>2
  <2> QED  BY <2>1, <2>2
<1>3. T = Nat
  BY <1>1, <1>2, NatSets
<1> QED  BY <1>3

\* F is what a loop computes from first on, whose k-th turn is g.
StepOn(n, Val, g) == g \in [(1 .. n) \X Val -> Val]
Loop(n, Val, first, g, F) ==
    F \in [0 .. n -> Val] /\ F[0] = first /\ \A k \in 1 .. n : F[k] = g[<<k, F[k - 1]>>]

\* Such a loop has a result: what RunQueue()'s callers collect in a queue.
LEMMA ByRecursion ==
    ASSUME NEW n \in Nat, NEW Val, NEW first \in Val, NEW g, StepOn(n, Val, g)
    PROVE  \E F : Loop(n, Val, first, g, F)
<1> USE DEF StepOn, Loop
<1> DEFINE Upto(m, F) == F = [k \in 0 .. m |-> IF k = 0 THEN first ELSE g[<<k, F[k - 1]>>]]
           S == {m \in 0 .. n : \E F \in [0 .. m -> Val] : Upto(m, F)}
<1>1. 0 \in S
  <2> DEFINE F == [k \in 0 .. 0 |-> first]
  <2>1. F \in [0 .. 0 -> Val] /\ Upto(0, F)
    OBVIOUS
  <2>2. 0 \in 0 .. n
    OBVIOUS
  <2> HIDE DEF F
  <2> HIDE DEF Upto
  <2> QED  BY <2>1, <2>2
<1>2. ASSUME NEW m \in 0 .. n - 1, m \in S
      PROVE  m + 1 \in S
  <2>1. PICK F \in [0 .. m -> Val] : Upto(m, F)
    BY <1>2
  <2> DEFINE G == [k \in 0 .. m + 1 |-> IF k = m + 1 THEN g[<<m + 1, F[m]>>] ELSE F[k]]
  <2>2. F[m] \in Val /\ m + 1 \in 1 .. n /\ m + 1 \in 0 .. n
    OBVIOUS
  <2>3. G \in [0 .. m + 1 -> Val]
    BY <2>2
  <2>4. ASSUME NEW k \in 0 .. m + 1
        PROVE  G[k] = IF k = 0 THEN first ELSE g[<<k, G[k - 1]>>]
    <3>1. CASE k = m + 1
      <4>1. k # 0 /\ k - 1 = m /\ m # m + 1 /\ m \in 0 .. m + 1
        BY <3>1
      <4>2. G[k - 1] = F[m] /\ G[k] = g[<<k, F[m]>>]
        BY <3>1, <4>1
      <4> QED  BY <4>1, <4>2
    <3>2. CASE k = 0
      BY <3>2, <2>1
    <3>3. CASE k \in 1 .. m
      <4>1. k - 1 \in 0 .. m /\ G[k - 1] = F[k - 1]
        BY <3>3
      <4>2. k \in 0 .. m /\ k # 0 /\ G[k] = F[k]
        BY <3>3
      <4>3. F[k] = g[<<k, F[k - 1]>>]
        BY <2>1, <4>2
      <4> QED  BY <4>1, <4>2, <4>3
    <3> QED  BY <3>1, <3>2, <3>3
  <2>5. Upto(m + 1, G)
    BY <2>4
  <2> HIDE DEF G
  <2> QED  BY <2>2, <2>3, <2>5
<1>3. 0 .. n \subseteq S
  BY <1>1, <1>2, IntervalSets
<1>4. PICK F \in [0 .. n -> Val] : Upto(n, F)
  <2>1. n \in S
    BY <1>3
  <2> QED  BY <2>1
<1>5. 0 \in 0 .. n /\ \A k \in 1 .. n : k \in 0 .. n /\ k # 0
  OBVIOUS
<1> QED  BY <1>4, <1>5

\* r has the entries of the first m of s that are in T, each once (at: where it was).
Selects(s, T, m, r) ==
    \E at \in [1 .. Len(r) -> 1 .. m] :
        /\ \A k \in 1 .. Len(r) : r[k] = s[at[k]]
        /\ \A k, l \in 1 .. Len(r) : at[k] = at[l] => k = l
        /\ \A i \in 1 .. m : s[i] \in T => \E k \in 1 .. Len(r) : at[k] = i

\* One more entry of the list is looked at, and kept or passed over.
LEMMA SelectionStep ==
    ASSUME NEW D, NEW s \in Seq(D), NEW T, NEW m \in 0 .. Len(s) - 1,
           NEW r \in Seq(D \cap T), Selects(s, T, m, r),
           NEW q, q = IF s[m + 1] \in T THEN Append(r, s[m + 1]) ELSE r
    PROVE  q \in Seq(D \cap T) /\ Selects(s, T, m + 1, q)
<1>1. m + 1 \in 1 .. Len(s) /\ s[m + 1] \in D /\ Len(r) \in Nat /\ m \in Nat
  OBVIOUS
<1>2. PICK at \in [1 .. Len(r) -> 1 .. m] :
        /\ \A k \in 1 .. Len(r) : r[k] = s[at[k]]
        /\ \A k, l \in 1 .. Len(r) : at[k] = at[l] => k = l
        /\ \A i \in 1 .. m : s[i] \in T => \E k \in 1 .. Len(r) : at[k] = i
  BY DEF Selects
<1>3. CASE s[m + 1] \notin T
  <2>1. at \in [1 .. Len(r) -> 1 .. m + 1]
    BY <1>1
  <2>2. \A i \in 1 .. m + 1 : s[i] \in T => i \in 1 .. m
    BY <1>1, <1>3
  <2> QED  BY <1>2, <1>3, <2>1, <2>2 DEF Selects
<1>4. CASE s[m + 1] \in T
  <2> DEFINE n == Len(r) + 1
             to == [k \in 1 .. n |-> IF k = n THEN m + 1 ELSE at[k]]
  <2>1. q = Append(r, s[m + 1]) /\ q \in Seq(D \cap T) /\ Len(q) = n
    BY <1>1, <1>4
  <2>2. ASSUME NEW k \in 1 .. Len(r)  PROVE q[k] = r[k] /\ to[k] = at[k] /\ to[k] \in 1 .. m
    <3>1. k \in 1 .. n /\ k # n
      BY <1>1
    <3>2. q[k] = r[k]
      BY <1>1, <2>1
    <3>3. to[k] = at[k]
      BY <3>1
    <3> QED  BY <3>2, <3>3
  <2>3. q[n] = s[m + 1] /\ to[n] = m + 1 /\ n \in 1 .. n
    BY <1>1, <2>1
  <2>4. \A k \in 1 .. n : k = n \/ k \in 1 .. Len(r)
    BY <1>1
  <2>5. to \in [1 .. n -> 1 .. m + 1]
    BY <1>1
  <2> HIDE DEF to, n
  <2>6. \A k \in 1 .. n : q[k] = s[to[k]]
    BY <1>2, <2>2, <2>3, <2>4
  <2>7. \A k, l \in 1 .. n : to[k] = to[l] => k = l
    <3>1. m + 1 \notin 1 .. m
      BY <1>1
    <3> QED  BY <1>2, <2>2, <2>3, <2>4, <3>1
  <2>8. \A i \in 1 .. m + 1 : s[i] \in T => \E k \in 1 .. n : to[k] = i
    <3> TAKE i \in 1 .. m + 1
    <3>1. CASE i = m + 1
      BY <2>3, <3>1
    <3>2. CASE i \in 1 .. m
      <4>1. \A k \in 1 .. Len(r) : k \in 1 .. n
        BY <1>1 DEF n
      <4> QED  BY <1>2, <2>2, <3>2, <4>1
    <3> QED  BY <1>1, <3>1, <3>2
  <2>9. /\ to \in [1 .. Len(q) -> 1 .. m + 1]
        /\ \A k \in 1 .. Len(q) : q[k] = s[to[k]]
        /\ \A k, l \in 1 .. Len(q) : to[k] = to[l] => k = l
        /\ \A i \in 1 .. m + 1 : s[i] \in T => \E k \in 1 .. Len(q) : to[k] = i
    BY <2>1, <2>5, <2>6, <2>7, <2>8, Zenon
  <2>10. Selects(s, T, m + 1, q)
    BY <2>9, Zenon DEF Selects
  <2> QED  BY <2>1, <2>10
<1> QED  BY <1>3, <1>4

\* The loop of DIALOG_PCM::OnApplyChangesClicked() that sorts the pending actions into
\* queues: it is defined, and what it keeps are the entries in T, each once.
LEMMA Selection ==
    ASSUME NEW D, NEW s \in Seq(D), NEW T
    PROVE  /\ \E F : F = [k \in 0 .. Len(s) |->
                            IF k = 0 THEN << >>
                            ELSE IF s[k] \in T THEN Append(F[k - 1], s[k]) ELSE F[k - 1]]
           /\ \A F : F = [k \in 0 .. Len(s) |->
                            IF k = 0 THEN << >>
                            ELSE IF s[k] \in T THEN Append(F[k - 1], s[k]) ELSE F[k - 1]]
                => /\ F[Len(s)] \in Seq(D \cap T)
                   /\ Selects(s, T, Len(s), F[Len(s)])
<1>1. Len(s) \in Nat /\ \A k \in 1 .. Len(s) : s[k] \in D
  OBVIOUS
<1>2. \E F : F = [k \in 0 .. Len(s) |->
                    IF k = 0 THEN << >>
                    ELSE IF s[k] \in T THEN Append(F[k - 1], s[k]) ELSE F[k - 1]]
  <2> DEFINE g == [z \in (1 .. Len(s)) \X Seq(D) |->
                      IF s[z[1]] \in T THEN Append(z[2], s[z[1]]) ELSE z[2]]
  <2>1. g \in [(1 .. Len(s)) \X Seq(D) -> Seq(D)]
    BY <1>1
  <2>2. << >> \in Seq(D)
    OBVIOUS
  <2>3. PICK F : Loop(Len(s), Seq(D), << >>, g, F)
    <3>1. StepOn(Len(s), Seq(D), g)
      BY <2>1 DEF StepOn
    <3> HIDE DEF g
    <3> QED  BY <1>1, <2>2, <3>1, ByRecursion, Zenon
  <2>4. \A k \in 0 .. Len(s) : k # 0 =>
            g[<<k, F[k - 1]>>] = IF s[k] \in T THEN Append(F[k - 1], s[k]) ELSE F[k - 1]
    <3> TAKE k \in 0 .. Len(s)
    <3> HAVE k # 0
    <3>1. k \in 1 .. Len(s) /\ k - 1 \in 0 .. Len(s)
      BY <1>1
    <3>2. F[k - 1] \in Seq(D)
      BY <2>3, <3>1 DEF Loop
    <3> QED  BY <3>1, <3>2
  <2>5. /\ F = [k \in 0 .. Len(s) |-> F[k]] /\ F[0] = << >>
        /\ \A k \in 0 .. Len(s) : k # 0 => F[k] = g[<<k, F[k - 1]>>]
    <3>1. \A k \in 0 .. Len(s) : k # 0 => k \in 1 .. Len(s)
      BY <1>1
    <3> HIDE DEF g
    <3>2. F \in [0 .. Len(s) -> Seq(D)] /\ F[0] = << >> /\ \A k \in 1 .. Len(s) : F[k] = g[<<k, F[k - 1]>>]
      BY <2>3, Zenon DEF Loop
    <3>3. F = [k \in 0 .. Len(s) |-> F[k]]
      BY <3>2
    <3> QED  BY <3>1, <3>2, <3>3, Zenon
  <2> HIDE DEF g
  <2>6. \A k \in 0 .. Len(s) :
            F[k] = IF k = 0 THEN << >>
                   ELSE IF s[k] \in T THEN Append(F[k - 1], s[k]) ELSE F[k - 1]
    BY <2>4, <2>5
  <2>7. F = [k \in 0 .. Len(s) |->
               IF k = 0 THEN << >>
               ELSE IF s[k] \in T THEN Append(F[k - 1], s[k]) ELSE F[k - 1]]
    BY <2>5, <2>6
  <2> QED  BY <2>7
<1>3. ASSUME NEW F,
             F = [k \in 0 .. Len(s) |->
                    IF k = 0 THEN << >>
                    ELSE IF s[k] \in T THEN Append(F[k - 1], s[k]) ELSE F[k - 1]]
      PROVE  F[Len(s)] \in Seq(D \cap T) /\ Selects(s, T, Len(s), F[Len(s)])
  <2> DEFINE S == {m \in 0 .. Len(s) : F[m] \in Seq(D \cap T) /\ Selects(s, T, m, F[m])}
  <2>1. 0 \in S
    <3>1. F[0] = << >> /\ 0 \in 0 .. Len(s)
      BY <1>1, <1>3
    <3>2. Selects(s, T, 0, << >>)
      <4>1. Len(<< >>) = 0 /\ 1 .. 0 = {}
        OBVIOUS
      <4>2. [k \in {} |-> k] \in [{} -> {}]
        OBVIOUS
      <4> QED  BY <4>1, <4>2 DEF Selects
    <3>3. << >> \in Seq(D \cap T)
      OBVIOUS
    <3> HIDE DEF Selects
    <3> QED  BY <3>1, <3>2, <3>3
  <2>2. ASSUME NEW m \in 0 .. Len(s) - 1, m \in S
        PROVE  m + 1 \in S
    <3>1. m + 1 \in 0 .. Len(s) /\ m + 1 # 0 /\ (m + 1) - 1 = m
      BY <1>1
    <3>2. F[m + 1] = IF s[m + 1] \in T THEN Append(F[m], s[m + 1]) ELSE F[m]
      BY <1>3, <3>1
    <3>3. F[m + 1] \in Seq(D \cap T) /\ Selects(s, T, m + 1, F[m + 1])
      BY <2>2, <3>2, SelectionStep
    <3> QED  BY <3>1, <3>3
  <2>3. 0 .. Len(s) \subseteq S
    <3> HIDE DEF S
    <3> QED  BY <1>1, <2>1, <2>2, IntervalSets
  <2> QED  BY <1>1, <2>3
<1> QED  BY <1>2, <1>3

-----------------------------------------------------------------------------
(* Folds over finite sets.                                                  *)

\* An element of each set but the empty one: FoldSet() takes the elements one by one.
Pick(T) == CHOOSE x \in T : TRUE

LEMMA PickOne ==
    ASSUME NEW S, IsFiniteSet(S), NEW T \in SUBSET S, T # {}
    PROVE  /\ Pick(T) \in T /\ T \ {Pick(T)} \in SUBSET S
           /\ IsFiniteSet(T) /\ Cardinality(T) \in Nat
           /\ Cardinality(T \ {Pick(T)}) = Cardinality(T) - 1
<1>1. Pick(T) \in T
  BY DEF Pick
<1>2. IsFiniteSet(T)
  BY FS_Subset
<1> QED  BY <1>1, <1>2, FS_RemoveElement, FS_CardinalityType

\* Induction over a finite set, in the order in which a fold takes its elements.
LEMMA FoldedSets ==
    ASSUME NEW S, IsFiniteSet(S), NEW Good, {} \in Good,
           \A T \in SUBSET S : T # {} /\ T \ {Pick(T)} \in Good => T \in Good
    PROVE  SUBSET S \subseteq Good
<1> DEFINE N == {n \in Nat : \A T \in SUBSET S : Cardinality(T) = n => T \in Good}
<1>1. 0 \in N
  <2>1. \A T \in SUBSET S : Cardinality(T) = 0 => T = {}
    BY FS_Subset, FS_EmptySet
  <2> QED  BY <2>1
<1>2. ASSUME NEW n \in N
      PROVE  n + 1 \in N
  <2>1. n \in Nat /\ n + 1 \in Nat /\ (n + 1) - 1 = n /\ n + 1 # 0
    OBVIOUS
  <2>2. ASSUME NEW T \in SUBSET S, Cardinality(T) = n + 1
        PROVE  T \in Good
    <3>1. T # {}
      BY <2>1, <2>2, FS_EmptySet
    <3>2. T \ {Pick(T)} \in SUBSET S /\ Cardinality(T \ {Pick(T)}) = n
      BY <2>1, <2>2, <3>1, PickOne
    <3>3. T \ {Pick(T)} \in Good
      BY <3>2
    <3> QED  BY <3>1, <3>3
  <2> QED  BY <2>1, <2>2
<1>3. N = Nat
  <2> HIDE DEF N
  <2>1. N \in SUBSET Nat
    BY DEF N
  <2> QED  BY <1>1, <1>2, <2>1, NatSets
<1>4. \A T \in SUBSET S : Cardinality(T) \in Nat
  BY FS_Subset, FS_CardinalityType
<1> QED  BY <1>3, <1>4

\* What a fold computes on the way: F[T] is the result for the elements of T.
StepOver(S, Val, g) == g \in [S \X Val -> Val]
FoldOver(S, Val, first, g, F) ==
    /\ F \in [SUBSET S -> Val] /\ F[{}] = first
    /\ \A T \in SUBSET S : T # {} => F[T] = g[<<Pick(T), F[T \ {Pick(T)}]>>]

LEMMA FoldExists ==
    ASSUME NEW S, IsFiniteSet(S), NEW Val, NEW first \in Val, NEW g, StepOver(S, Val, g)
    PROVE  \E F : FoldOver(S, Val, first, g, F)
<1> DEFINE Below(n) == {T \in SUBSET S : Cardinality(T) <= n}
           Upto(n, F) == /\ F \in [Below(n) -> Val] /\ F[{}] = first
                         /\ \A T \in Below(n) : T # {} => F[T] = g[<<Pick(T), F[T \ {Pick(T)}]>>]
           N == {n \in Nat : \E F : Upto(n, F)}
<1>1. \A T \in SUBSET S : Cardinality(T) \in Nat /\ (Cardinality(T) = 0 => T = {})
  BY FS_Subset, FS_CardinalityType, FS_EmptySet
<1>2. {} \in SUBSET S /\ Cardinality({}) = 0
  BY FS_EmptySet
<1>3. 0 \in N
  <2> DEFINE F == [T \in {{}} |-> first]
  <2>1. Below(0) = {{}}
    BY <1>1, <1>2
  <2>2. F \in [{{}} -> Val] /\ F[{}] = first
    OBVIOUS
  <2>3. Upto(0, F)
    <3> HIDE DEF F, Below
    <3> QED  BY <2>1, <2>2
  <2> HIDE DEF Upto
  <2> QED  BY <2>3
<1>4. ASSUME NEW n \in N
      PROVE  n + 1 \in N
  <2>1. n \in Nat /\ n + 1 \in Nat /\ ~(n + 1 <= n)
    OBVIOUS
  <2>2. PICK F : Upto(n, F)
    OBVIOUS
  <2>3. \A T \in Below(n + 1) : T # {} =>
            /\ Pick(T) \in S /\ T \ {Pick(T)} \in Below(n)
            /\ T \in Below(n) \/ Cardinality(T) = n + 1
    <3> TAKE T \in Below(n + 1)
    <3> HAVE T # {}
    <3>1. /\ Pick(T) \in S /\ T \ {Pick(T)} \in SUBSET S /\ Cardinality(T) \in Nat
          /\ Cardinality(T \ {Pick(T)}) = Cardinality(T) - 1
      BY PickOne
    <3> QED  BY <2>1, <3>1
  <2>4. Below(n) \subseteq Below(n + 1) /\ {} \in Below(n)
    BY <1>1, <1>2, <2>1
  <2> DEFINE G == [T \in Below(n + 1) |->
                      IF T \in Below(n) THEN F[T] ELSE g[<<Pick(T), F[T \ {Pick(T)}]>>]]
  <2>5. \A T \in Below(n) : F[T] \in Val
    BY <2>2
  <2>6. \A x \in S, v \in Val : g[<<x, v>>] \in Val
    BY DEF StepOver
  <2> HIDE DEF Below
  <2>7. \A T \in Below(n + 1) : T \notin Below(n) => T # {}
    BY <2>4
  <2>8. G \in [Below(n + 1) -> Val] /\ \A T \in Below(n) : G[T] = F[T]
    BY <2>3, <2>4, <2>5, <2>6, <2>7
  <2>9. \A T \in Below(n + 1) : T # {} => G[T] = g[<<Pick(T), F[T \ {Pick(T)}]>>]
    BY <2>2, <2>4
  <2> HIDE DEF G
  <2>10. Upto(n + 1, G)
    BY <2>2, <2>3, <2>4, <2>8, <2>9
  <2> QED  BY <2>1, <2>10
<1>5. N = Nat
  <2> HIDE DEF N
  <2>1. N \in SUBSET Nat
    BY DEF N
  <2> QED  BY <1>3, <1>4, <2>1, NatSets
<1>6. Cardinality(S) \in Nat
  BY FS_CardinalityType
<1>7. PICK F : Upto(Cardinality(S), F)
  BY <1>5, <1>6
<1>8. Below(Cardinality(S)) = SUBSET S
  BY FS_Subset
<1> HIDE DEF Below
<1> QED  BY <1>7, <1>8 DEF FoldOver

\* One more entry: what comes first stays in its place.
LEMMA AppendAt ==
    ASSUME NEW D, NEW s \in Seq(D), NEW e \in D
    PROVE  /\ Append(s, e) \in Seq(D) /\ Len(Append(s, e)) = Len(s) + 1 /\ Len(s) \in Nat
           /\ DOMAIN Append(s, e) = 1 .. (Len(s) + 1) /\ DOMAIN s = 1 .. Len(s)
           /\ \A k \in 1 .. Len(s) : Append(s, e)[k] = s[k]
           /\ Append(s, e)[Len(s) + 1] = e
           /\ ToSet(Append(s, e)) = ToSet(s) \cup {e}
<1> DEFINE r == Append(s, e)
<1>1. r \in Seq(D) /\ Len(r) = Len(s) + 1 /\ Len(s) \in Nat
      /\ DOMAIN r = 1 .. (Len(s) + 1) /\ DOMAIN s = 1 .. Len(s)
      /\ (\A k \in 1 .. Len(s) : r[k] = s[k]) /\ r[Len(s) + 1] = e
  OBVIOUS
<1> HIDE DEF r
<1>2. ToSet(r) = ToSet(s) \cup {e}
  <2>1. \A k \in 1 .. (Len(s) + 1) : k = Len(s) + 1 \/ k \in 1 .. Len(s)
    BY <1>1
  <2>2. Len(s) + 1 \in 1 .. (Len(s) + 1) /\ \A k \in 1 .. Len(s) : k \in 1 .. (Len(s) + 1)
    BY <1>1
  <2> QED  BY <1>1, <2>1, <2>2 DEF ToSet
<1> QED  BY <1>1, <1>2 DEF r

\* A sequence is its front and its last entry.
LEMMA FrontAndLast ==
    ASSUME NEW D, NEW s \in Seq(D), s # << >>
    PROVE  /\ s = Append(Front(s), Last(s)) /\ Front(s) \in Seq(D) /\ Last(s) \in D
           /\ Len(Front(s)) = Len(s) - 1
<1> DEFINE f == Front(s)
           r == Append(f, Last(s))
<1>1. f \in Seq(D) /\ Last(s) \in D /\ Len(f) = Len(s) - 1 /\ Len(s) \in Nat \ {0}
  BY FrontLast, EmptySeq
<1>2. \A k \in 1 .. (Len(s) - 1) : f[k] = s[k]
  BY FrontAt
<1>3. Last(s) = s[Len(s)]
  BY DEF Last
<1> HIDE DEF f
<1>4. r \in Seq(D) /\ Len(r) = Len(s) /\ r[Len(s)] = s[Len(s)]
  BY <1>1, <1>3
<1>5. \A k \in 1 .. (Len(s) - 1) : r[k] = s[k]
  BY <1>1, <1>2
<1> HIDE DEF r
<1>6. \A k \in 1 .. Len(s) : r[k] = s[k]
  BY <1>1, <1>4, <1>5
<1>7. r = s
  BY <1>4, <1>6
<1> QED  BY <1>1, <1>7 DEF r, f

\* A part of a sequence, entry by entry.
LEMMA PartAt ==
    ASSUME NEW D, NEW s \in Seq(D), NEW m \in 1 .. (Len(s) + 1), NEW n \in 0 .. Len(s), m <= n + 1
    PROVE  /\ SubSeq(s, m, n) \in Seq(D) /\ Len(SubSeq(s, m, n)) = n - m + 1
           /\ DOMAIN SubSeq(s, m, n) = 1 .. (n - m + 1)
           /\ \A k \in 1 .. (n - m + 1) : SubSeq(s, m, n)[k] = s[m + k - 1]
<1> DEFINE r == SubSeq(s, m, n)
           l == n - m + 1
<1>1. Len(s) \in Nat /\ l \in Nat /\ m \in Nat /\ n \in Nat
  OBVIOUS
<1>2. r = [k \in 1 .. l |-> s[m + k - 1]]
  <2>1. r = [k \in 1 .. (1 + n - m) |-> s[m + k - 1]]
    BY <1>1
  <2>2. 1 + n - m = l
    BY <1>1
  <2> HIDE DEF r, l
  <2> QED  BY <2>1, <2>2
<1>3. \A k \in 1 .. l : s[m + k - 1] \in D
  <2> TAKE k \in 1 .. l
  <2>1. m + k - 1 \in 1 .. Len(s)
    BY <1>1
  <2> QED  BY <2>1
<1> HIDE DEF r, l
<1>4. r \in Seq(D) /\ Len(r) = l
  BY <1>1, <1>2, <1>3, TableType
<1> QED  BY <1>2, <1>4 DEF r, l

\* The reverse has the same entries, from the end.
LEMMA ReverseAt ==
    ASSUME NEW D, NEW s \in Seq(D)
    PROVE  /\ Reverse(s) \in Seq(D) /\ Len(Reverse(s)) = Len(s) /\ Len(s) \in Nat
           /\ \A k \in 1 .. Len(s) : Reverse(s)[k] = s[Len(s) - k + 1]
           /\ ToSet(Reverse(s)) = ToSet(s)
<1>1. Reverse(s) \in Seq(D) /\ Len(s) \in Nat
  BY ReverseType
<1>2. DOMAIN Reverse(s) = 1 .. Len(s) /\ \A k \in 1 .. Len(s) : Reverse(s)[k] = s[Len(s) - k + 1]
  BY DEF Reverse
<1>3. Len(Reverse(s)) = Len(s)
  BY <1>1, <1>2
<1>4. \A k \in 1 .. Len(s) : Len(s) - k + 1 \in 1 .. Len(s) /\ Len(s) - (Len(s) - k + 1) + 1 = k
  BY <1>1
<1>5. ToSet(Reverse(s)) = ToSet(s)
  <2>1. ToSet(Reverse(s)) \subseteq ToSet(s)
    BY <1>2, <1>4 DEF ToSet
  <2>2. ASSUME NEW e \in ToSet(s)  PROVE e \in ToSet(Reverse(s))
    <3>1. PICK k \in 1 .. Len(s) : e = s[k]
      BY DEF ToSet
    <3>2. Len(s) - k + 1 \in DOMAIN Reverse(s) /\ Reverse(s)[Len(s) - k + 1] = e
      BY <1>2, <1>4, <3>1
    <3> QED  BY <3>2 DEF ToSet
  <2> QED  BY <2>1, <2>2
<1> QED  BY <1>1, <1>2, <1>3, <1>5

\* Two sequences are equal when their entries are.
LEMMA SameEntries ==
    ASSUME NEW D, NEW s \in Seq(D), NEW t \in Seq(D), Len(s) = Len(t), \A k \in 1 .. Len(s) : s[k] = t[k]
    PROVE  s = t
  OBVIOUS

\* The orders in which the elements of a hash set can be met: each of them once.
LEMMA OrderFacts ==
    ASSUME NEW T, IsFiniteSet(T), NEW s \in SetToSeqs(T)
    PROVE  /\ s \in Seq(T) /\ DOMAIN s = 1 .. Len(s) /\ Len(s) \in Nat /\ ToSet(s) = T
           /\ \A j, k \in 1 .. Len(s) : s[j] = s[k] => j = k
<1> DEFINE c == Cardinality(T)
<1>1. c \in Nat
  BY FS_CardinalityType
<1>2. s \in [1 .. c -> T] /\ \A j, k \in 1 .. c : j # k => s[j] # s[k]
  BY DEF SetToSeqs
<1>3. s \in Injection(1 .. c, T)
  BY <1>2 DEF Injection, IsInjective
<1>4. Cardinality(1 .. c) = c
  BY <1>1, FS_Interval
<1>5. s \in Surjection(1 .. c, T)
  BY <1>3, <1>4, FS_Injection
<1>6. ToSet(s) = T
  BY <1>2, <1>5 DEF ToSet, Surjection
<1> HIDE DEF c
<1>7. s \in Seq(T) /\ Len(s) = c
  BY <1>1, <1>2, TableType
<1> QED  BY <1>1, <1>2, <1>6, <1>7

\* A set whose elements are all equal.
LEMMA AtMostOne ==
    ASSUME NEW T, \A x, y \in T : x = y
    PROVE  Cardinality(T) <= 1
<1>1. CASE T = {}
  BY <1>1, FS_EmptySet
<1>2. CASE T # {}
  <2>1. PICK x : x \in T
    BY <1>2
  <2>2. T = {x}
    BY <2>1
  <2>3. Cardinality({x}) = 1
    BY FS_Singleton
  <2> QED  BY <2>2, <2>3
<1> QED  BY <1>1, <1>2

=============================================================================
