------------------------------ MODULE Induction ------------------------------
(***************************************************************************)
(* Induction on numbers and on sequences, stated for the set of the        *)
(* elements a property holds of.  Minimal counterexamples, which           *)
(* WellFoundedInduction gives for sets, take the place of its principles   *)
(* for predicates.                                                         *)
(***************************************************************************)
EXTENDS Integers, SequenceTheorems, WellFoundedInduction, TLAPS

\* < on the naturals as a set of pairs.
LOCAL Smaller == {p \in Nat \X Nat : p[1] < p[2]}

\* A set of naturals with an element has a least one.
LEMMA LeastElement ==
    ASSUME NEW T, T \subseteq Nat, T # {}
    PROVE  \E x \in T : \A y \in T : ~(y < x)
<1>1. Smaller = OpToRel(<, Nat)
    BY Zenon DEF OpToRel, Smaller
<1>2. IsWellFoundedOn(Smaller, Nat)
    BY <1>1, NatLessThanWellFounded, Zenon
<1>3. \E x \in T : \A y \in T : ~(<<y, x>> \in Smaller)
    BY <1>2, WFMin
<1>4. \A x \in Nat, y \in Nat : y < x => <<y, x>> \in Smaller
    BY DEF Smaller
<1> QED BY <1>3, <1>4

\* A set with 0 in it and the successor of each of its elements has every number.
LEMMA Induct ==
    ASSUME NEW S, S \subseteq Nat, 0 \in S, \A n \in S : n + 1 \in S
    PROVE  S = Nat
<1> SUFFICES ASSUME S # Nat
             PROVE  FALSE
    OBVIOUS
<1>1. PICK x \in Nat \ S : \A y \in Nat \ S : ~(y < x)
    BY LeastElement
<1>2. x - 1 \in Nat
    OBVIOUS
<1>3. x - 1 \in S
    BY <1>1, <1>2
<1>4. (x - 1) + 1 = x
    OBVIOUS
<1> QED BY <1>3, <1>4

\* A sequence is its first element before the others.
LEMMA HeadAndTail ==
    ASSUME NEW T, NEW s \in Seq(T), s # <<>>
    PROVE  s = <<Head(s)>> \o Tail(s)
<1>1. /\ Head(s) \in T /\ Tail(s) \in Seq(T) /\ Len(Tail(s)) = Len(s) - 1
      /\ \A i \in 1..Len(Tail(s)) : Tail(s)[i] = s[i + 1]
    BY HeadTailProperties
<1>2. Len(s) \in Nat \ {0} /\ Head(s) = s[1]
    BY EmptySeq
<1> DEFINE h == <<Head(s)>>
           t == h \o Tail(s)
<1>3. h \in Seq(T) /\ Len(h) = 1 /\ h[1] = Head(s)
    BY <1>1
<1> HIDE DEF h
<1>4. /\ t \in Seq(T) /\ Len(t) = 1 + Len(Tail(s))
      /\ \A i \in 1..(1 + Len(Tail(s))) : t[i] = IF i <= 1 THEN h[i] ELSE Tail(s)[i - 1]
    <2>1. /\ t \in Seq(T) /\ Len(t) = Len(h) + Len(Tail(s))
          /\ \A i \in 1..(Len(h) + Len(Tail(s))) :
                 t[i] = IF i <= Len(h) THEN h[i] ELSE Tail(s)[i - Len(h)]
        BY <1>1, <1>3, ConcatProperties
    <2> HIDE DEF t
    <2> QED BY <1>3, <2>1
<1>5. \A i \in 1..Len(s) : s[i] = t[i]
    <2> SUFFICES ASSUME NEW i \in 1..Len(s)
                 PROVE  s[i] = t[i]
        OBVIOUS
    <2>1. CASE i = 1
        BY <1>1, <1>2, <1>3, <1>4, <2>1
    <2>2. CASE i # 1
        <3>1. i - 1 \in 1..Len(Tail(s)) /\ (i - 1) + 1 = i
            BY <1>1, <1>2, <2>2
        <3>2. t[i] = Tail(s)[i - 1]
            BY <1>1, <1>2, <1>4, <2>2
        <3> QED BY <1>1, <3>1, <3>2
    <2> QED BY <2>1, <2>2
<1>6. Len(s) = Len(t)
    BY <1>1, <1>2, <1>4
<1> HIDE DEF t
<1> QED BY <1>4, <1>5, <1>6, SeqEqual

\* What an element put before a sequence gives.
LEMMA Prefixed ==
    ASSUME NEW T, NEW e \in T, NEW s \in Seq(T)
    PROVE  /\ <<e>> \o s \in Seq(T) /\ <<e>> \o s # <<>>
           /\ Len(<<e>> \o s) = Len(s) + 1
           /\ Head(<<e>> \o s) = e /\ Tail(<<e>> \o s) = s
           /\ \A i \in 1..Len(s) : (<<e>> \o s)[i + 1] = s[i]
<1> DEFINE h == <<e>>
           t == h \o s
<1>1. h \in Seq(T) /\ Len(h) = 1 /\ h[1] = e
    OBVIOUS
<1> HIDE DEF h
<1>2. /\ t \in Seq(T) /\ Len(t) = 1 + Len(s)
      /\ \A i \in 1..(1 + Len(s)) : t[i] = IF i <= 1 THEN h[i] ELSE s[i - 1]
    <2>1. /\ t \in Seq(T) /\ Len(t) = Len(h) + Len(s)
          /\ \A i \in 1..(Len(h) + Len(s)) : t[i] = IF i <= Len(h) THEN h[i] ELSE s[i - Len(h)]
        BY <1>1, ConcatProperties
    <2> HIDE DEF t
    <2> QED BY <1>1, <2>1
<1>3. Len(s) \in Nat
    OBVIOUS
<1> HIDE DEF t
<1>4. t # <<>> /\ Head(t) = e
    BY <1>1, <1>2, <1>3
<1>5. \A i \in 1..Len(s) : t[i + 1] = s[i]
    <2> SUFFICES ASSUME NEW i \in 1..Len(s)
                 PROVE  t[i + 1] = s[i]
        OBVIOUS
    <2>1. i + 1 \in 1..(1 + Len(s)) /\ ~(i + 1 <= 1) /\ (i + 1) - 1 = i
        BY <1>3
    <2> QED BY <1>2, <2>1
<1>6. Tail(t) = s
    <2>1. /\ Tail(t) \in Seq(T) /\ Len(Tail(t)) = Len(s)
          /\ \A i \in 1..Len(s) : Tail(t)[i] = t[i + 1]
        BY <1>2, <1>3, <1>4, HeadTailProperties
    <2> QED BY <1>5, <2>1, SeqEqual
<1> QED BY <1>2, <1>3, <1>4, <1>5, <1>6 DEF t, h

\* A set with the empty sequence in it and, with each of its elements, those
\* one element longer at the front has every sequence.
LEMMA InductSeq ==
    ASSUME NEW T, NEW S, S \subseteq Seq(T), <<>> \in S,
           \A e \in T, s \in S : <<e>> \o s \in S
    PROVE  S = Seq(T)
<1> DEFINE N == {n \in Nat : \A s \in Seq(T) : Len(s) = n => s \in S}
<1>1. 0 \in N
    BY EmptySeq
<1>2. ASSUME NEW n \in N
      PROVE  n + 1 \in N
    <2> SUFFICES ASSUME NEW s \in Seq(T), Len(s) = n + 1
                 PROVE  s \in S
        OBVIOUS
    <2>1. s # <<>>
        BY EmptySeq
    <2>2. Head(s) \in T /\ Tail(s) \in Seq(T) /\ Len(Tail(s)) = n
        BY <2>1, HeadTailProperties
    <2>3. Tail(s) \in S
        BY <2>2
    <2>4. s = <<Head(s)>> \o Tail(s)
        BY <2>1, HeadAndTail
    <2> QED BY <2>2, <2>3, <2>4
<1>3. N = Nat
    <2> HIDE DEF N
    <2>1. N \subseteq Nat
        BY DEF N
    <2> QED BY <1>1, <1>2, <2>1, Induct
<1>4. ASSUME NEW s \in Seq(T)
      PROVE  s \in S
    <2>1. Len(s) \in N
        BY <1>3
    <2> QED BY <2>1
<1> QED BY <1>4

-----------------------------------------------------------------------------
\* F solves F[s \in Seq(T)] == IF s = <<>> THEN v ELSE op[Head(s), F[Tail(s)]].
IsRecursion(F, T, V, v, op) ==
    /\ F \in [Seq(T) -> V]
    /\ \A s \in Seq(T) : F[s] = IF s = <<>> THEN v ELSE op[<<Head(s), F[Tail(s)]>>]

\* Every such recursion, on sequences from the front, has a solution.
LEMMA Recursion ==
    ASSUME NEW T, NEW V, NEW v \in V, NEW op \in [T \X V -> V]
    PROVE  \E F : IsRecursion(F, T, V, v, op)
<1> DEFINE Upto(n) == {s \in Seq(T) : Len(s) <= n}
           Unfold(h, s) == IF s = <<>> THEN v ELSE op[<<Head(s), h[Tail(s)]>>]
           Solves(h, n) == h \in [Upto(n) -> V] /\ \A s \in Upto(n) : h[s] = Unfold(h, s)
<1>1. ASSUME NEW n \in Nat, NEW s \in Upto(n + 1), s # <<>>
      PROVE  Head(s) \in T /\ Tail(s) \in Upto(n)
    <2>1. Head(s) \in T /\ Tail(s) \in Seq(T) /\ Len(Tail(s)) = Len(s) - 1
        BY <1>1, HeadTailProperties
    <2> QED BY <2>1
<1>2. \A n \in Nat : Upto(n) \subseteq Seq(T) /\ <<>> \in Upto(n) /\ Upto(n) \subseteq Upto(n + 1)
    BY EmptySeq
<1>3. \A s \in Seq(T) : Len(s) \in Nat /\ s \in Upto(Len(s))
    OBVIOUS
<1>4. \A n \in Nat : \A s \in Upto(n) : s # <<>> => Head(s) \in T /\ Tail(s) \in Upto(n)
    <2> SUFFICES ASSUME NEW n \in Nat, NEW s \in Upto(n), s # <<>>
                 PROVE  Head(s) \in T /\ Tail(s) \in Upto(n)
        OBVIOUS
    <2>1. Head(s) \in T /\ Tail(s) \in Seq(T) /\ Len(Tail(s)) = Len(s) - 1
        BY HeadTailProperties
    <2> QED BY <2>1
<1> HIDE DEF Upto
<1>5. \E h : Solves(h, 0)
    <2> DEFINE h == [s \in Upto(0) |-> v]
    <2>1. \A s \in Upto(0) : s = <<>>
        BY EmptySeq DEF Upto
    <2>2. h \in [Upto(0) -> V] /\ \A s \in Upto(0) : h[s] = v
        OBVIOUS
    <2>3. \A s \in Upto(0) : Unfold(h, s) = v
        BY <2>1
    <2> HIDE DEF h, Unfold
    <2>4. Solves(h, 0)
        BY <2>2, <2>3
    <2> QED BY <2>4
<1>6. ASSUME NEW n \in Nat, NEW h, Solves(h, n)
      PROVE  \E g : Solves(g, n + 1)
    <2> DEFINE g == [s \in Upto(n + 1) |-> Unfold(h, s)]
    <2>1. ASSUME NEW s \in Upto(n + 1), s # <<>>
          PROVE  /\ h[Tail(s)] \in V /\ op[<<Head(s), h[Tail(s)]>>] \in V
                 /\ g[Tail(s)] = h[Tail(s)]
        <3>1. Head(s) \in T /\ Tail(s) \in Upto(n) /\ Tail(s) \in Upto(n + 1)
            BY <1>1, <1>2, <2>1
        <3>2. h[Tail(s)] \in V /\ h[Tail(s)] = Unfold(h, Tail(s))
            BY <1>6, <3>1
        <3>3. g[Tail(s)] = Unfold(h, Tail(s))
            BY <3>1
        <3> QED BY <3>1, <3>2, <3>3
    <2>2. g \in [Upto(n + 1) -> V]
        BY <2>1
    <2>3. \A s \in Upto(n + 1) : g[s] = Unfold(g, s)
        <3> SUFFICES ASSUME NEW s \in Upto(n + 1)
                     PROVE  g[s] = Unfold(g, s)
            OBVIOUS
        <3>1. g[s] = Unfold(h, s)
            OBVIOUS
        <3> HIDE DEF g
        <3> QED BY <2>1, <3>1
    <2> HIDE DEF g
    <2> QED BY <2>2, <2>3
<1>7. \A n \in Nat : \E h : Solves(h, n)
    <2> DEFINE N == {n \in Nat : \E h : Solves(h, n)}
    <2> HIDE DEF Solves
    <2>1. 0 \in N /\ \A n \in N : n + 1 \in N
        BY <1>5, <1>6
    <2>2. N = Nat
        <3> HIDE DEF N
        <3>1. N \subseteq Nat
            BY DEF N
        <3> QED BY <2>1, <3>1, Induct
    <2> QED BY <2>2
<1>8. ASSUME NEW n \in Nat, NEW h, Solves(h, n), NEW m \in Nat, NEW g, Solves(g, m)
      PROVE  \A s \in Upto(n) \intersect Upto(m) : h[s] = g[s]
    <2> DEFINE S == {s \in Seq(T) : s \in Upto(n) /\ s \in Upto(m) => h[s] = g[s]}
    <2>1. <<>> \in S
        <3>1. <<>> \in Upto(n) /\ <<>> \in Upto(m) /\ <<>> \in Seq(T)
            BY <1>2
        <3>2. h[<<>>] = v /\ g[<<>>] = v
            BY <1>8, <3>1
        <3> QED BY <3>1, <3>2
    <2>2. ASSUME NEW e \in T, NEW s \in S
          PROVE  <<e>> \o s \in S
        <3> DEFINE all == <<e>> \o s
        <3>1. all \in Seq(T) /\ all # <<>> /\ Head(all) = e /\ Tail(all) = s
            BY Prefixed
        <3> HIDE DEF all
        <3> SUFFICES ASSUME all \in Upto(n), all \in Upto(m)
                     PROVE  h[all] = g[all]
            BY <3>1 DEF all
        <3>2. s \in Upto(n) /\ s \in Upto(m)
            BY <1>4, <3>1
        <3>3. h[s] = g[s]
            BY <3>2
        <3> QED BY <1>8, <3>1, <3>3
    <2>3. S = Seq(T)
        <3> HIDE DEF S
        <3>1. S \subseteq Seq(T)
            BY DEF S
        <3> QED BY <2>1, <2>2, <3>1, InductSeq
    <2> QED BY <1>2, <2>3
<1> DEFINE Solution(n) == CHOOSE h : Solves(h, n)
           F == [s \in Seq(T) |-> Solution(Len(s))[s]]
<1>9. \A n \in Nat : Solves(Solution(n), n)
    <2> HIDE DEF Solves
    <2> QED BY <1>7
<1>10. F \in [Seq(T) -> V]
    <2> SUFFICES ASSUME NEW s \in Seq(T)
                 PROVE  Solution(Len(s))[s] \in V
        OBVIOUS
    <2>1. Solves(Solution(Len(s)), Len(s)) /\ s \in Upto(Len(s))
        BY <1>3, <1>9
    <2> HIDE DEF Solution
    <2> QED BY <2>1
<1>11. ASSUME NEW s \in Seq(T)
       PROVE  F[s] = Unfold(F, s)
    <2>1. Solves(Solution(Len(s)), Len(s)) /\ s \in Upto(Len(s)) /\ F[s] = Solution(Len(s))[s]
        BY <1>3, <1>9
    <2>2. ASSUME s # <<>>
          PROVE  F[Tail(s)] = Solution(Len(s))[Tail(s)]
        <3>1. Tail(s) \in Seq(T) /\ Tail(s) \in Upto(Len(s)) /\ Tail(s) \in Upto(Len(Tail(s)))
            BY <1>2, <1>3, <1>4, <2>1, <2>2
        <3>2. Solves(Solution(Len(Tail(s))), Len(Tail(s)))
            BY <1>3, <1>9, <3>1
        <3>3. F[Tail(s)] = Solution(Len(Tail(s)))[Tail(s)]
            BY <3>1
        <3> HIDE DEF Solution, Solves, F
        <3> QED BY <1>3, <1>8, <2>1, <3>1, <3>2, <3>3
    <2> HIDE DEF Solution, F
    <2> QED BY <2>1, <2>2
<1> HIDE DEF F
<1>12. IsRecursion(F, T, V, v, op)
    BY <1>10, <1>11 DEF IsRecursion
<1> QED BY <1>12
=============================================================================
