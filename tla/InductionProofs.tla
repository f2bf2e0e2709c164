-------------------------- MODULE InductionProofs --------------------------
(***************************************************************************)
(* Induction over the natural numbers and over sequences, in a form that   *)
(* needs no operator parameter: a set of natural numbers that is not empty *)
(* has a smallest element.  With it, the equation of a recursive function  *)
(* (Recursion), and the lemmas about Strip and Without.                    *)
(***************************************************************************)
EXTENDS Stripping, SequencesExt, SequenceTheorems, WellFoundedInduction, TLAPS

LEMMA Least ==
  ASSUME NEW T \in SUBSET Nat, T # {}
  PROVE  \E n \in T : \A m \in T : n <= m
<1> DEFINE less == {p \in Nat \X Nat : p[1] < p[2]}
<1>1. less = OpToRel(<, Nat) BY DEF OpToRel
<1>2. IsWellFoundedOn(less, Nat) BY <1>1, NatLessThanWellFounded
<1> HIDE DEF less
<1>3. PICK x \in T : \A y \in T : ~(<<y, x>> \in less) BY <1>2, WFMin
<1>4. \A y \in T : <<y, x>> \in less <=> y < x BY DEF less
<1>5. \A y \in T : ~(y < x) BY <1>3, <1>4
<1>6. x \in Nat /\ \A y \in T : y \in Nat OBVIOUS
<1>7. \A y \in T : x <= y BY <1>5, <1>6
<1> QED BY <1>7

\* A set that has 0, and with n also n + 1 as long as n < k, has all of 0..k.
LEMMA Climb ==
  ASSUME NEW k \in Nat, NEW P, 0 \in P,
         \A n \in 0..k : n # k /\ n \in P => n + 1 \in P
  PROVE  \A n \in 0..k : n \in P
<1> DEFINE T == {n \in 0..k : n \notin P}
<1>1. SUFFICES ASSUME T # {} PROVE FALSE OBVIOUS
<1>2. T \in SUBSET Nat OBVIOUS
<1>3. PICK n \in T : \A m \in T : n <= m BY <1>1, <1>2, Least
<1>4. n \in 0..k /\ n \notin P /\ n # 0 OBVIOUS
<1>5. n - 1 \in 0..k /\ n - 1 # k /\ ~(n <= n - 1) BY <1>4
<1>6. n - 1 \in P BY <1>3, <1>5
<1>7. (n - 1) + 1 \in P BY <1>5, <1>6
<1>8. (n - 1) + 1 = n BY <1>4
<1> QED BY <1>4, <1>7, <1>8

\* f is the recursion along 0..k that starts at b.
Solves(f, k, b, step) == \A i \in 0..k : f[i] = IF i = 0 THEN b ELSE step[<<i, f[i-1]>>]

\* A recursion along 0..n whose steps stay in D has a solution: the CHOOSE that
\* a recursive function stands for chooses one.
LEMMA Recursion ==
  ASSUME NEW n \in Nat, NEW D, NEW b \in D, NEW step \in [(1..n) \X D -> D]
  PROVE  \E f \in [0..n -> D] : Solves(f, n, b, step)
<1> DEFINE P == {k \in 0..n : \E f \in [0..k -> D] : Solves(f, k, b, step)}
<1>1. 0 \in P
  <2>1. [i \in 0..0 |-> b] \in [0..0 -> D] /\ Solves([i \in 0..0 |-> b], 0, b, step) BY DEF Solves
  <2>2. \E f \in [0..0 -> D] : Solves(f, 0, b, step) BY <2>1
  <2> QED BY <2>2
<1>2. ASSUME NEW k \in 0..n, k # n, k \in P PROVE k + 1 \in P
  <2>1. PICK f \in [0..k -> D] : Solves(f, k, b, step) BY <1>2
  <2>2. k \in Nat /\ k + 1 \in 1..n /\ f[k] \in D BY <1>2, <2>1
  <2> DEFINE v == step[<<k + 1, f[k]>>]
             g == [i \in 0..(k+1) |-> IF i = k + 1 THEN v ELSE f[i]]
  <2>3. v \in D BY <2>2
  <2>4. \A i \in 0..(k+1) : i # k + 1 => i \in 0..k /\ f[i] \in D BY <2>1, <2>2
  <2> HIDE DEF v
  <2>5. g \in [0..(k+1) -> D] BY <2>3, <2>4
  <2>6. ASSUME NEW i \in 0..(k+1) PROVE g[i] = IF i = 0 THEN b ELSE step[<<i, g[i-1]>>]
    <3>1. CASE i = k + 1
      <4>1. i # 0 /\ i - 1 = k /\ k \in 0..(k+1) /\ k # k + 1 BY <3>1, <2>2
      <4>2. g[i] = v /\ g[i-1] = f[k] BY <3>1, <4>1
      <4> QED BY <3>1, <4>1, <4>2 DEF v
    <3>2. CASE i # k + 1
      <4>1. i \in 0..k /\ g[i] = f[i] BY <3>2, <2>4
      <4>2. i # 0 => i - 1 \in 0..(k+1) /\ i - 1 # k + 1 BY <4>1, <2>2
      <4>3. i # 0 => g[i-1] = f[i-1] BY <4>2
      <4>4. f[i] = IF i = 0 THEN b ELSE step[<<i, f[i-1]>>] BY <2>1, <4>1 DEF Solves
      <4> HIDE DEF g
      <4> QED BY <4>1, <4>3, <4>4
    <3> QED BY <3>1, <3>2
  <2>7. Solves(g, k + 1, b, step) BY <2>6 DEF Solves
  <2>8. k + 1 \in 0..n BY <2>2
  <2> HIDE DEF g
  <2> QED BY <2>5, <2>7, <2>8
<1>3. \A k \in 0..n : k \in P
  <2> HIDE DEF P
  <2> QED BY <1>1, <1>2, Climb
<1>4. n \in P BY <1>3
<1> QED BY <1>4

-----------------------------------------------------------------------------
\* f is the recursion of Strip up to index k.
Keeps(f, s, gone, k) ==
  \A i \in 0..k : f[i] = IF i = 0 THEN <<>>
                         ELSE IF s[i] \in gone THEN f[i-1] ELSE Append(f[i-1], s[i])

LEMMA KeepsExists ==
  ASSUME NEW S, NEW s \in Seq(S), NEW gone
  PROVE  \A k \in 0..Len(s) : \E f \in [0..k -> Seq(S)] : Keeps(f, s, gone, k)
<1> DEFINE P == {k \in 0..Len(s) : \E f \in [0..k -> Seq(S)] : Keeps(f, s, gone, k)}
<1>0. Len(s) \in Nat BY LenProperties
<1>1. 0 \in P
  <2>1. [i \in 0..0 |-> <<>>] \in [0..0 -> Seq(S)] OBVIOUS
  <2>2. Keeps([i \in 0..0 |-> <<>>], s, gone, 0) BY DEF Keeps
  <2> QED BY <1>0, <2>1, <2>2
<1>2. ASSUME NEW n \in 0..Len(s), n # Len(s), n \in P PROVE n + 1 \in P
  <2>1. PICK f \in [0..n -> Seq(S)] : Keeps(f, s, gone, n) BY <1>2
  <2>2. n \in Nat /\ n + 1 \in 1..Len(s) /\ s[n+1] \in S BY <1>0, <1>2, ElementOfSeq
  <2>3. f[n] \in Seq(S) BY <2>1, <2>2
  <2> DEFINE v == IF s[n+1] \in gone THEN f[n] ELSE Append(f[n], s[n+1])
             g == [i \in 0..(n+1) |-> IF i = n + 1 THEN v ELSE f[i]]
  <2>4. v \in Seq(S) BY <2>2, <2>3, AppendProperties
  <2>5. \A i \in 0..(n+1) : i # n + 1 => i \in 0..n /\ f[i] \in Seq(S) BY <2>1, <2>2
  <2> HIDE DEF v
  <2>6. g \in [0..(n+1) -> Seq(S)] BY <2>4, <2>5
  <2>7. ASSUME NEW i \in 0..(n+1)
        PROVE  g[i] = IF i = 0 THEN <<>>
                      ELSE IF s[i] \in gone THEN g[i-1] ELSE Append(g[i-1], s[i])
    <3>1. CASE i = n + 1
      <4>1. i # 0 /\ i - 1 = n /\ n \in 0..(n+1) /\ n # n + 1 BY <3>1, <2>2
      <4>2. g[i] = v /\ g[i-1] = f[n] BY <3>1, <4>1
      <4> QED BY <3>1, <4>1, <4>2 DEF v
    <3>2. CASE i # n + 1
      <4>1. i \in 0..n /\ g[i] = f[i] BY <3>2, <2>5
      <4>2. i # 0 => i - 1 \in 0..(n+1) /\ i - 1 # n + 1 BY <4>1, <2>2
      <4>3. i # 0 => g[i-1] = f[i-1] BY <4>2
      <4>4. f[i] = IF i = 0 THEN <<>>
                   ELSE IF s[i] \in gone THEN f[i-1] ELSE Append(f[i-1], s[i])
        BY <2>1, <4>1 DEF Keeps
      <4> HIDE DEF g
      <4> QED BY <4>1, <4>3, <4>4
    <3> QED BY <3>1, <3>2
  <2>8. Keeps(g, s, gone, n + 1) BY <2>7 DEF Keeps
  <2>9. n + 1 \in 0..Len(s) BY <2>2
  <2> QED BY <2>6, <2>8, <2>9
<1>3. \A n \in 0..Len(s) : n \in P BY <1>0, <1>1, <1>2, Climb
<1> QED BY <1>3

LEMMA KeepsUnique ==
  ASSUME NEW s, NEW gone, NEW k \in Nat, NEW f, NEW g,
         Keeps(f, s, gone, k), Keeps(g, s, gone, k)
  PROVE  \A i \in 0..k : f[i] = g[i]
<1> DEFINE P == {i \in 0..k : f[i] = g[i]}
<1>1. 0 \in P BY DEF Keeps
<1>2. ASSUME NEW n \in 0..k, n # k, n \in P PROVE n + 1 \in P
  <2>1. n + 1 \in 0..k /\ n + 1 # 0 /\ (n + 1) - 1 = n BY <1>2
  <2>2. f[n] = g[n] BY <1>2
  <2>3. f[n+1] = IF s[n+1] \in gone THEN f[n] ELSE Append(f[n], s[n+1]) BY <2>1 DEF Keeps
  <2>4. g[n+1] = IF s[n+1] \in gone THEN g[n] ELSE Append(g[n], s[n+1]) BY <2>1 DEF Keeps
  <2> QED BY <2>1, <2>2, <2>3, <2>4
<1>3. \A n \in 0..k : n \in P BY <1>1, <1>2, Climb
<1> QED BY <1>3

LEMMA StripIsKept ==
  ASSUME NEW S, NEW s \in Seq(S), NEW gone, NEW n \in Nat, n = Len(s)
  PROVE  \E f : f[n] \in Seq(S) /\ Keeps(f, s, gone, n) /\ Strip(s, gone) = f[n]
<1>0. n \in 0..Len(s) OBVIOUS
<1> DEFINE Body(f) == [i \in 0..Len(s) |->
                         IF i = 0 THEN <<>>
                         ELSE IF s[i] \in gone THEN f[i-1] ELSE Append(f[i-1], s[i])]
           kept == CHOOSE f : f = Body(f)
<1>1. PICK f \in [0..n -> Seq(S)] : Keeps(f, s, gone, n) BY <1>0, KeepsExists
<1>2. f = Body(f) BY <1>1 DEF Keeps
<1>3. kept = Body(kept) BY <1>2
<1>4. Strip(s, gone) = kept[Len(s)] BY DEF Strip
<1> HIDE DEF kept
<1>5. Keeps(kept, s, gone, n) BY <1>3 DEF Keeps
<1>6. kept[n] = f[n] /\ f[n] \in Seq(S) BY <1>0, <1>1, <1>5, KeepsUnique
<1> QED BY <1>1, <1>4, <1>6

-----------------------------------------------------------------------------
LEMMA StripType ==
  ASSUME NEW S, NEW s \in Seq(S), NEW gone PROVE Strip(s, gone) \in Seq(S)
<1>1. Len(s) \in Nat BY LenProperties
<1>2. PICK f : f[Len(s)] \in Seq(S) /\ Strip(s, gone) = f[Len(s)] BY <1>1, StripIsKept
<1> QED BY <1>1, <1>2

LEMMA StripEmpty == ASSUME NEW gone PROVE Strip(<<>>, gone) = <<>>
<1> DEFINE s == <<>>  n == 0
<1>1. s \in Seq(Nat) /\ n = Len(s) /\ n \in Nat BY EmptySeq
<1> HIDE DEF s, n
<1>2. PICK f : Keeps(f, s, gone, n) /\ Strip(s, gone) = f[n] BY <1>1, StripIsKept
<1> QED BY <1>2 DEF Keeps, s, n

\* One element more.
LEMMA StripAppend ==
  ASSUME NEW S, NEW s \in Seq(S), NEW e \in S, NEW gone
  PROVE  Strip(Append(s, e), gone) =
           IF e \in gone THEN Strip(s, gone) ELSE Append(Strip(s, gone), e)
<1> DEFINE t == Append(s, e)  n == Len(s)
<1>1. t \in Seq(S) /\ n + 1 = Len(t) /\ n \in Nat /\ t[n+1] = e /\ \A i \in 1..n : t[i] = s[i]
  BY AppendProperties, LenProperties
<1> HIDE DEF t
<1>2. PICK f : Keeps(f, s, gone, n) /\ Strip(s, gone) = f[n]
  BY <1>1, StripIsKept
<1>3. PICK g : Keeps(g, t, gone, n + 1) /\ Strip(t, gone) = g[n+1]
  <2>1. n + 1 \in Nat BY <1>1
  <2> QED BY <1>1, <2>1, StripIsKept
<1>4. Keeps(g, s, gone, n)
  <2> SUFFICES ASSUME NEW i \in 0..n
               PROVE  g[i] = IF i = 0 THEN <<>>
                             ELSE IF s[i] \in gone THEN g[i-1] ELSE Append(g[i-1], s[i])
    BY DEF Keeps
  <2>1. i \in 0..(n+1) /\ (i # 0 => t[i] = s[i]) BY <1>1
  <2>2. g[i] = IF i = 0 THEN <<>>
               ELSE IF t[i] \in gone THEN g[i-1] ELSE Append(g[i-1], t[i])
    BY <1>3, <2>1 DEF Keeps
  <2> QED BY <2>1, <2>2
<1>5. f[n] = g[n] BY <1>1, <1>2, <1>4, KeepsUnique
<1>6. n + 1 \in 0..(n+1) /\ n + 1 # 0 /\ (n + 1) - 1 = n BY <1>1
<1>7. g[n+1] = IF t[n+1] \in gone THEN g[n] ELSE Append(g[n], t[n+1])
  BY <1>3, <1>6 DEF Keeps
<1> QED BY <1>1, <1>2, <1>3, <1>5, <1>7 DEF t

\* Induction along a sequence: what holds of <<>>, and of Append(p, e) when it
\* holds of p, holds of s.
LEMMA SeqClimb ==
  ASSUME NEW S, NEW Q, <<>> \in Q,
         \A p \in Seq(S) : p \in Q => \A e \in S : Append(p, e) \in Q,
         NEW s \in Seq(S)
  PROVE  s \in Q
<1> DEFINE part(k) == SubSeq(s, 1, k)
           P == {k \in 0..Len(s) : part(k) \in Q}
<1>0. Len(s) \in Nat BY LenProperties
<1>1. 0 \in P
  <2>1. 1 \in Int /\ 0 \in Int /\ 0 < 1 OBVIOUS
  <2>2. part(0) = <<>> BY <2>1, SubSeqEmpty
  <2> HIDE DEF part
  <2> QED BY <1>0, <2>2
<1>2. ASSUME NEW k \in 0..Len(s), k # Len(s), k \in P PROVE k + 1 \in P
  <2>1. k \in Nat /\ k \in Int /\ k + 1 \in Int /\ 1 \in Int /\ k + 1 \in 1..Len(s)
    BY <1>0, <1>2
  <2>2. \A i \in 1..Len(s) : s[i] \in S BY ElementOfSeq
  <2>3. \A i \in 1..k : s[i] \in S BY <1>0, <2>1, <2>2
  <2>4. \A i \in 1..(k+1) : s[i] \in S BY <1>0, <2>1, <2>2
  <2>5. part(k) \in Seq(S) /\ Len(part(k)) = k /\ \A i \in 1..k : part(k)[i] = s[i]
    BY <2>1, <2>3, SubSeqProperties
  <2>6. part(k+1) \in Seq(S) /\ Len(part(k+1)) = k + 1 /\ \A i \in 1..(k+1) : part(k+1)[i] = s[i]
    BY <2>1, <2>4, SubSeqProperties
  <2>7. s[k+1] \in S BY <2>1, <2>2
  <2> DEFINE a == Append(part(k), s[k+1])
  <2>8. a \in Seq(S) /\ Len(a) = k + 1 /\ a[k+1] = s[k+1] /\ \A i \in 1..k : a[i] = part(k)[i]
    BY <2>5, <2>7, AppendProperties
  <2> HIDE DEF a, part
  <2>9. \A i \in 1..(k+1) : part(k+1)[i] = a[i] BY <2>1, <2>5, <2>6, <2>8
  <2>10. part(k+1) = a BY <2>6, <2>8, <2>9, SeqEqual
  <2>11. a \in Q BY <1>2, <2>5, <2>7 DEF a
  <2>12. k + 1 \in 0..Len(s) BY <2>1
  <2> QED BY <2>10, <2>11, <2>12
<1>3. \A n \in 0..Len(s) : n \in P BY <1>0, <1>1, <1>2, Climb
<1>4. part(Len(s)) = s BY SubSeqFull
<1>5. Len(s) \in P BY <1>0, <1>3
<1> QED BY <1>4, <1>5

LEMMA StripConcat ==
  ASSUME NEW S, NEW s \in Seq(S), NEW t \in Seq(S), NEW gone
  PROVE  Strip(s \o t, gone) = Strip(s, gone) \o Strip(t, gone)
<1> DEFINE Q == {u \in Seq(S) : Strip(s \o u, gone) = Strip(s, gone) \o Strip(u, gone)}
<1>0. Strip(s, gone) \in Seq(S) BY StripType
<1>1. <<>> \in Q
  <2>1. s \o <<>> = s /\ Strip(s, gone) \o <<>> = Strip(s, gone) BY <1>0, ConcatEmptySeq
  <2> QED BY <2>1, StripEmpty, EmptySeq
<1>2. ASSUME NEW p \in Seq(S), p \in Q, NEW e \in S PROVE Append(p, e) \in Q
  <2>1. <<e>> \in Seq(S) /\ Append(p, e) \in Seq(S) /\ s \o p \in Seq(S)
        /\ Strip(p, gone) \in Seq(S)
    BY AppendProperties, ConcatProperties, StripType
  <2>2. s \o Append(p, e) = Append(s \o p, e)
    BY <2>1, AppendIsConcat, ConcatAssociative
  <2>3. Strip(s \o p, gone) = Strip(s, gone) \o Strip(p, gone) BY <1>2
  <2> HIDE DEF Q
  <2>3a. ASSUME NEW u \in Seq(S)
         PROVE  Strip(Append(u, e), gone) =
                  IF e \in gone THEN Strip(u, gone) ELSE Append(Strip(u, gone), e)
    BY StripAppend
  <2>4. Strip(Append(s \o p, e), gone) =
          IF e \in gone THEN Strip(s \o p, gone) ELSE Append(Strip(s \o p, gone), e)
    BY <2>1, <2>3a
  <2>5. Strip(Append(p, e), gone) =
          IF e \in gone THEN Strip(p, gone) ELSE Append(Strip(p, gone), e)
    BY <2>3a
  <2>6. (Strip(s, gone) \o Strip(p, gone)) \o <<e>> = Strip(s, gone) \o (Strip(p, gone) \o <<e>>)
    BY <1>0, <2>1, ConcatAssociative, SMTT(60)
  <2>7. /\ Append(Strip(p, gone), e) = Strip(p, gone) \o <<e>>
        /\ Append(Strip(s, gone) \o Strip(p, gone), e) = (Strip(s, gone) \o Strip(p, gone)) \o <<e>>
    BY <1>0, <2>1, AppendIsConcat, ConcatProperties
  <2> QED BY <2>1, <2>2, <2>3, <2>4, <2>5, <2>6, <2>7 DEF Q
<1>3. t \in Q
  <2> HIDE DEF Q
  <2> QED BY <1>1, <1>2, SeqClimb
<1> QED BY <1>3

\* Strip takes out what is in gone and nothing else.
LEMMA StripRange ==
  ASSUME NEW S, NEW s \in Seq(S), NEW gone
  PROVE  {Strip(s, gone)[i] : i \in DOMAIN Strip(s, gone)} = {s[i] : i \in DOMAIN s} \ gone
<1> DEFINE Ran(u) == {u[i] : i \in DOMAIN u}
           Q == {u \in Seq(S) : Ran(Strip(u, gone)) = Ran(u) \ gone}
<1>1. <<>> \in Q
  <2>1. DOMAIN <<>> = {} /\ <<>> \in Seq(S) OBVIOUS
  <2>2. Ran(<<>>) = {} OBVIOUS
  <2> QED BY <2>1, <2>2, StripEmpty
<1>2. ASSUME NEW p \in Seq(S), p \in Q, NEW e \in S PROVE Append(p, e) \in Q
  <2>1. \A u \in Seq(S) : Ran(Append(u, e)) = Ran(u) \union {e}
    <3> SUFFICES ASSUME NEW u \in Seq(S) PROVE Ran(Append(u, e)) = Ran(u) \union {e} OBVIOUS
    <3>1. Append(u, e) \in Seq(S) /\ Len(u) \in Nat /\ DOMAIN u = 1..Len(u)
          /\ Len(Append(u, e)) = Len(u) + 1
          /\ Append(u, e)[Len(u)+1] = e /\ \A i \in 1..Len(u) : Append(u, e)[i] = u[i]
      BY AppendProperties, LenProperties
    <3> DEFINE v == Append(u, e)
    <3>2. DOMAIN v = 1..(Len(u)+1) BY <3>1, LenProperties
    <3> HIDE DEF v
    <3>3. v[Len(u)+1] = e /\ \A i \in 1..Len(u) : v[i] = u[i] BY <3>1 DEF v
    <3>4. Ran(v) = Ran(u) \union {e} BY <3>1, <3>2, <3>3
    <3> QED BY <3>4 DEF v
  <2>2. Strip(p, gone) \in Seq(S) /\ Append(p, e) \in Seq(S) BY StripType, AppendProperties
  <2>3. Ran(Strip(p, gone)) = Ran(p) \ gone BY <1>2
  <2>4. Strip(Append(p, e), gone) =
          IF e \in gone THEN Strip(p, gone) ELSE Append(Strip(p, gone), e)
    BY StripAppend
  <2> HIDE DEF Ran
  <2> QED BY <2>1, <2>2, <2>3, <2>4
<1>3. s \in Q
  <2> HIDE DEF Q
  <2> QED BY <1>1, <1>2, SeqClimb
<1> QED BY <1>3

\* What is left depends on what is kept, not on what stands in for the rest.
LEMMA StripReplace ==
  ASSUME NEW S, NEW n \in Nat, NEW s \in [1..n -> S], NEW t \in [1..n -> S], NEW A, NEW B,
         \A i \in 1..n : (s[i] \in A <=> t[i] \in B) /\ (s[i] \in A \/ s[i] = t[i])
  PROVE  Strip(s, A) = Strip(t, B)
<1>1. s \in Seq(S) /\ Len(s) = n /\ t \in Seq(S) /\ Len(t) = n OBVIOUS
<1>2. PICK f : Keeps(f, s, A, n) /\ Strip(s, A) = f[n] BY <1>1, StripIsKept
<1>3. PICK g : Keeps(g, t, B, n) /\ Strip(t, B) = g[n] BY <1>1, StripIsKept
<1>4. Keeps(g, s, A, n)
  <2> SUFFICES ASSUME NEW i \in 0..n
               PROVE  g[i] = IF i = 0 THEN <<>>
                             ELSE IF s[i] \in A THEN g[i-1] ELSE Append(g[i-1], s[i])
    BY DEF Keeps
  <2>1. g[i] = IF i = 0 THEN <<>>
               ELSE IF t[i] \in B THEN g[i-1] ELSE Append(g[i-1], t[i])
    BY <1>3 DEF Keeps
  <2> QED BY <2>1
<1>5. n \in 0..n /\ f[n] = g[n] BY <1>2, <1>4, KeepsUnique
<1> QED BY <1>2, <1>3, <1>5

\* Nothing is left of a sequence whose elements all go.
LEMMA StripAll ==
  ASSUME NEW S, NEW s \in Seq(S), NEW gone, \A i \in DOMAIN s : s[i] \in gone
  PROVE  Strip(s, gone) = <<>>
<1>1. Strip(s, gone) \in Seq(S) BY StripType
<1> DEFINE t == Strip(s, gone)
<1>2. {t[i] : i \in DOMAIN t} = {s[i] : i \in DOMAIN s} \ gone BY StripRange
<1> HIDE DEF t
<1>3. {t[i] : i \in DOMAIN t} = {} BY <1>2
<1>4. DOMAIN t = {} BY <1>3
<1>5. t \in Seq(S) BY <1>1 DEF t
<1>6. DOMAIN t = 1..Len(t) /\ Len(t) \in Nat BY <1>5, LenProperties
<1>7. Len(t) = 0
  <2>1. CASE Len(t) # 0
    <3>1. 1 \in 1..Len(t) BY <1>6, <2>1
    <3> QED BY <1>4, <1>6, <3>1
  <2> QED BY <2>1
<1>8. t = <<>> BY <1>5, <1>7, EmptySeq
<1> QED BY <1>8 DEF t

\* One Strip after another is one Strip.
LEMMA StripTwice ==
  ASSUME NEW S, NEW s \in Seq(S), NEW A, NEW B
  PROVE  Strip(Strip(s, A), B) = Strip(s, A \union B)
<1> DEFINE AB == A \union B
           Q == {u \in Seq(S) : Strip(Strip(u, A), B) = Strip(u, AB)}
<1>0. \A e : e \in AB <=> e \in A \/ e \in B OBVIOUS
<1> HIDE DEF AB
<1>1. <<>> \in Q BY StripEmpty, EmptySeq
<1>2. ASSUME NEW p \in Seq(S), p \in Q, NEW e \in S PROVE Append(p, e) \in Q
  <2>1. Append(p, e) \in Seq(S) BY AppendProperties
  <2>2. Strip(p, A) \in Seq(S) BY StripType
  <2>3. Strip(Append(p, e), A) = IF e \in A THEN Strip(p, A) ELSE Append(Strip(p, A), e)
    BY StripAppend
  <2>4. Strip(Append(p, e), AB) = IF e \in AB THEN Strip(p, AB) ELSE Append(Strip(p, AB), e)
    BY StripAppend
  <2>5. Strip(Append(Strip(p, A), e), B) =
          IF e \in B THEN Strip(Strip(p, A), B) ELSE Append(Strip(Strip(p, A), B), e)
    <3> DEFINE q == Strip(p, A)
    <3>1. q \in Seq(S) BY <2>2
    <3> HIDE DEF q
    <3>2. Strip(Append(q, e), B) = IF e \in B THEN Strip(q, B) ELSE Append(Strip(q, B), e)
      BY <3>1, StripAppend
    <3> QED BY <3>2 DEF q
  <2>6. Strip(Strip(p, A), B) = Strip(p, AB) BY <1>2
  <2>7. Strip(Strip(Append(p, e), A), B) = Strip(Append(p, e), AB)
    <3>1. CASE e \in A BY <3>1, <1>0, <2>3, <2>4, <2>6
    <3>2. CASE e \notin A BY <3>2, <1>0, <2>3, <2>4, <2>5, <2>6
    <3> QED BY <3>1, <3>2
  <2> QED BY <2>1, <2>7
<1>3. s \in Q
  <2> HIDE DEF Q
  <2> QED BY <1>1, <1>2, SeqClimb
<1> QED BY <1>3 DEF AB

---------------------------------------------------------------------------
(* RemoveAt and Without. *)
\* What vector_erase leaves.
LEMMA EntryRemoved ==
  ASSUME NEW S, NEW s \in Seq(S), NEW i \in DOMAIN s
  PROVE  /\ RemoveAt(s, i) \in Seq(S) /\ Len(RemoveAt(s, i)) = Len(s) - 1
         /\ \A k \in 1..(Len(s) - 1) : RemoveAt(s, i)[k] = s[IF k < i THEN k ELSE k + 1]
<1>0. DOMAIN s = 1..Len(s) /\ Len(s) \in Nat /\ i \in 1..Len(s) /\ \A j \in 1..Len(s) : s[j] \in S
  BY LenProperties, ElementOfSeq
<1> DEFINE f == SubSeq(s, 1, i - 1)  b == SubSeq(s, i + 1, Len(s))
<1>1. f \in Seq(S) /\ Len(f) = i - 1 /\ \A k \in 1..(i-1) : f[k] = s[k]
  <2>1. 1 \in Int /\ i - 1 \in Int /\ \A j \in 1..(i-1) : s[j] \in S BY <1>0
  <2>2. /\ f \in Seq(S) /\ Len(f) = IF 1 <= i - 1 THEN (i - 1) - 1 + 1 ELSE 0
        /\ \A k \in 1..((i-1)-1+1) : f[k] = s[1+k-1]
    BY <2>1, SubSeqProperties
  <2> QED BY <1>0, <2>2
<1>2. b \in Seq(S) /\ Len(b) = Len(s) - i /\ \A k \in 1..(Len(s)-i) : b[k] = s[i+k]
  <2>1. i + 1 \in Int /\ Len(s) \in Int /\ \A j \in (i+1)..Len(s) : s[j] \in S BY <1>0
  <2>2. /\ b \in Seq(S) /\ Len(b) = IF i + 1 <= Len(s) THEN Len(s) - (i+1) + 1 ELSE 0
        /\ \A k \in 1..(Len(s)-(i+1)+1) : b[k] = s[i+1+k-1]
    BY <2>1, SubSeqProperties
  <2>3. \A k \in 1..(Len(s)-i) : k \in 1..(Len(s)-(i+1)+1) /\ i+1+k-1 = i+k BY <1>0
  <2> QED BY <1>0, <2>2, <2>3
<1> HIDE DEF f, b
<1>3. /\ f \o b \in Seq(S) /\ Len(f \o b) = Len(f) + Len(b)
      /\ \A k \in 1..(Len(f)+Len(b)) : (f \o b)[k] = IF k <= Len(f) THEN f[k] ELSE b[k - Len(f)]
  BY <1>1, <1>2, ConcatProperties
<1>4. RemoveAt(s, i) = f \o b BY DEF RemoveAt, f, b
<1>5. ASSUME NEW k \in 1..(Len(s) - 1) PROVE (f \o b)[k] = s[IF k < i THEN k ELSE k + 1]
  <2>1. CASE k < i BY <2>1, <1>0, <1>1, <1>2, <1>3
  <2>2. CASE ~(k < i)
    <3>1. k - (i-1) \in 1..(Len(s)-i) /\ i + (k - (i-1)) = k + 1 /\ ~(k <= i - 1) /\ k \in 1..(i-1 + (Len(s)-i))
      BY <2>2, <1>0
    <3> QED BY <2>2, <3>1, <1>1, <1>2, <1>3, SMTT(60)
  <2> QED BY <2>1, <2>2
<1>6. Len(f \o b) = Len(s) - 1 BY <1>0, <1>1, <1>2, <1>3
<1> QED BY <1>3, <1>4, <1>5, <1>6

\* r holds elements of s, each place of s at most once: f says which.
Picked(r, s, f) == /\ f \in [1..Len(r) -> 1..Len(s)] /\ \A j, k \in 1..Len(r) : f[j] = f[k] => j = k
                   /\ \A k \in 1..Len(r) : r[k] = s[f[k]]
PicksOf(S, s) == {r \in Seq(S) : Len(r) <= Len(s) /\ \E f : Picked(r, s, f)}

\* Taking out of what was picked.
LEMMA PicksCompose ==
  ASSUME NEW S, NEW s \in Seq(S), NEW r \in PicksOf(S, s), NEW q \in PicksOf(S, r) PROVE q \in PicksOf(S, s)
<1>1. Len(s) \in Nat /\ Len(r) \in Nat /\ Len(q) \in Nat /\ r \in Seq(S) /\ q \in Seq(S) BY LenProperties DEF PicksOf
<1>2. PICK f : Picked(r, s, f) BY DEF PicksOf
<1>3. PICK g : Picked(q, r, g) BY DEF PicksOf
<1> DEFINE m == Len(q)  n == Len(r)  l == Len(s)
           h == [k \in 1..m |-> f[g[k]]]
<1>4. Len(q) <= Len(s)
  <2>1. Len(q) <= Len(r) /\ Len(r) <= Len(s) BY DEF PicksOf
  <2> QED BY <1>1, <2>1
<1>5. \A k \in 1..m : g[k] \in 1..n /\ f[g[k]] \in 1..l /\ q[k] = s[f[g[k]]] BY <1>2, <1>3 DEF Picked
<1>6. \A j, k \in 1..m : f[g[j]] = f[g[k]] => j = k BY <1>2, <1>3, <1>5 DEF Picked
<1>7. Picked(q, s, h) BY <1>5, <1>6 DEF Picked
<1> QED BY <1>1, <1>4, <1>7 DEF PicksOf

\* The last element fills the hole.
LEMMA SwapErased ==
  ASSUME NEW S, NEW s \in Seq(S), NEW i \in Nat
  PROVE  /\ SwapErase(s, i) \in PicksOf(S, s)
         /\ i \in DOMAIN s => /\ Len(SwapErase(s, i)) = Len(s) - 1
                              /\ \A k \in 1..(Len(s) - 1) : SwapErase(s, i)[k] = s[IF k = i THEN Len(s) ELSE k]
<1>0. DOMAIN s = 1..Len(s) /\ Len(s) \in Nat /\ \A j \in 1..Len(s) : s[j] \in S BY LenProperties, ElementOfSeq
<1>00. Len(s) \in Nat BY <1>0
<1> DEFINE t == IF i = Len(s) THEN s ELSE [s EXCEPT ![i] = s[Len(s)]]
           r == SubSeq(t, 1, Len(s) - 1)
           from(k) == IF k = i THEN Len(s) ELSE k
<1>1. SwapErase(s, i) = r BY DEF SwapErase
<1>2. \A k \in 1..(Len(s)-1) : t[k] = s[from(k)] /\ from(k) \in 1..Len(s) BY <1>0
<1> HIDE DEF t
<1>3. /\ r \in Seq(S) /\ Len(r) = (IF 1 <= Len(s) - 1 THEN Len(s) - 1 ELSE 0)
      /\ \A k \in 1..(Len(s)-1) : r[k] = t[k]
  <2>1. 1 \in Int /\ Len(s) - 1 \in Int /\ \A j \in 1..(Len(s)-1) : t[j] \in S BY <1>0, <1>2
  <2>2. /\ r \in Seq(S) /\ Len(r) = IF 1 <= Len(s) - 1 THEN (Len(s)-1) - 1 + 1 ELSE 0
        /\ \A k \in 1..((Len(s)-1)-1+1) : r[k] = t[1+k-1]
    BY <2>1, SubSeqProperties
  <2> QED BY <1>00, <2>2
<1> HIDE DEF r
<1>4. \A k \in 1..(Len(s)-1) : r[k] = s[from(k)] /\ from(k) \in 1..Len(s) BY <1>2, <1>3
<1>5. Len(r) \in Nat /\ Len(r) <= Len(s) /\ (Len(s) # 0 => Len(r) = Len(s) - 1) /\ 1..Len(r) \subseteq 1..(Len(s)-1)
  <2>1. Len(r) \in Nat BY <1>3, LenProperties
  <2> DEFINE m == Len(r)  n == Len(s)
  <2>2. m = (IF 1 <= n - 1 THEN n - 1 ELSE 0) /\ n \in Nat BY <1>00, <1>3
  <2> HIDE DEF m, n
  <2>3. m <= n /\ (n # 0 => m = n - 1) /\ 1..m \subseteq 1..(n-1) BY <2>2
  <2> QED BY <2>1, <2>3 DEF m, n
<1>6. \A j, k \in 1..(Len(s)-1) : from(j) = from(k) => j = k BY <1>00
<1>7. r \in PicksOf(S, s)
  <2> DEFINE f == [k \in 1..Len(r) |-> from(k)]
  <2> HIDE DEF from
  <2>1. Picked(r, s, f) BY <1>4, <1>5, <1>6 DEF Picked
  <2> QED BY <1>3, <1>5, <2>1 DEF PicksOf
<1>8. i \in DOMAIN s => Len(r) = Len(s) - 1
  <2>1. i \in DOMAIN s => Len(s) # 0 BY <1>0
  <2> QED BY <2>1, <1>5
<1> HIDE DEF from
<1> QED BY <1>1, <1>4, <1>7, <1>8 DEF from

\* The loops that take several out.
LEMMA WithoutPicks ==
  ASSUME NEW S, NEW s \in Seq(S), NEW gone
  PROVE  Without(s, gone) \in PicksOf(S, s)
<1> DEFINE n == Len(s)
           L == PicksOf(S, s)
           D == [s : L, i : Nat]
           b == [s |-> s, i |-> 1]
           step == [x \in (1..n) \X D |-> Looked(x[2], gone)]
<1>0. n \in Nat BY LenProperties
<1>1. s \in L
  <2>1. Picked(s, s, [k \in 1..n |-> k])
    <3> HIDE DEF n
    <3> QED BY DEF Picked, n
  <2> QED BY <1>0, <2>1 DEF PicksOf
<1>2. ASSUME NEW at \in D PROVE Looked(at, gone) \in D
  <2>1. at.s \in L /\ at.i \in Nat /\ at = [s |-> at.s, i |-> at.i] OBVIOUS
  <2>1a. at.s \in Seq(S) BY <2>1 DEF PicksOf
  <2>2. SwapErase(at.s, at.i) \in L
    <3>1. SwapErase(at.s, at.i) \in PicksOf(S, at.s) BY <2>1, <2>1a, SwapErased
    <3> QED BY <2>1, <3>1, PicksCompose
  <2> HIDE DEF L
  <2>3. [at EXCEPT !.s = SwapErase(@, at.i)] = [s |-> SwapErase(at.s, at.i), i |-> at.i] BY <2>1
  <2>4. [at EXCEPT !.i = @ + 1] = [s |-> at.s, i |-> at.i + 1] BY <2>1
  <2> HIDE DEF D
  <2>5. [s |-> SwapErase(at.s, at.i), i |-> at.i] \in D /\ [s |-> at.s, i |-> at.i + 1] \in D
    BY <2>1, <2>2 DEF D
  <2> QED BY <2>3, <2>4, <2>5 DEF Looked
<1>2a. b \in D BY <1>1
<1> HIDE DEF L
<1>3. step \in [(1..n) \X D -> D]
  <2> HIDE DEF D
  <2>1. \A x \in (1..n) \X D : x[2] \in D OBVIOUS
  <2> QED BY <1>2, <2>1
<1> DEFINE Body(f) == [m \in 0..n |-> IF m = 0 THEN b ELSE Looked(f[m-1], gone)]
           pass == CHOOSE f : f = Body(f)
<1>4. PICK f \in [0..n -> D] : Solves(f, n, b, step)
  <2> HIDE DEF D, b, step, n
  <2> QED BY <1>0, <1>2a, <1>3, Recursion
<1>5. f = Body(f)
  <2>1. \A m \in 0..n : m # 0 => m \in 1..n /\ m - 1 \in 0..n BY <1>0
  <2>2. \A m \in 0..n : m # 0 => f[m-1] \in D /\ step[<<m, f[m-1]>>] = Looked(f[m-1], gone)
    <3> HIDE DEF D
    <3>1. \A m \in 0..n : m # 0 => f[m-1] \in D BY <1>4, <2>1
    <3> QED BY <2>1, <3>1
  <2>3. \A m \in 0..n : f[m] = IF m = 0 THEN b ELSE step[<<m, f[m-1]>>] BY <1>4 DEF Solves
  <2>4. \A m \in 0..n : f[m] = IF m = 0 THEN b ELSE Looked(f[m-1], gone)
    <3> HIDE DEF D, b, step
    <3> QED BY <2>2, <2>3
  <2> HIDE DEF D, b, step
  <2> QED BY <1>4, <2>4
<1>6. pass = Body(pass) BY <1>5
<1>7. Without(s, gone) = pass[n].s BY DEF Without
<1>8. \A m \in 0..n : pass[m] = f[m]
  <2> HIDE DEF D, pass, b, step
  <2> DEFINE P == {m \in 0..n : pass[m] = f[m]}
  <2>1. \A m \in 0..n : /\ pass[m] = IF m = 0 THEN b ELSE Looked(pass[m-1], gone)
                        /\ f[m] = IF m = 0 THEN b ELSE Looked(f[m-1], gone)
    BY <1>5, <1>6
  <2>2. 0 \in P BY <1>0, <2>1
  <2>3. ASSUME NEW m \in 0..n, m # n, m \in P PROVE m + 1 \in P
    <3>1. m + 1 \in 0..n /\ m + 1 # 0 /\ (m + 1) - 1 = m BY <1>0, <2>3
    <3>2. pass[m] = f[m] BY <2>3
    <3>3. pass[m+1] = Looked(pass[m], gone) /\ f[m+1] = Looked(f[m], gone) BY <2>1, <3>1
    <3> QED BY <3>1, <3>2, <3>3
  <2>4. \A m \in 0..n : m \in P
    <3> HIDE DEF P, n
    <3> QED BY <1>0, <2>2, <2>3, Climb
  <2> QED BY <2>4
<1>9. n \in 0..n BY <1>0
<1>10. f[n] \in D BY <1>4, <1>9
<1> QED BY <1>7, <1>8, <1>9, <1>10 DEF L
===========================================================================
