----------------------------- MODULE PathProofs -----------------------------
(***************************************************************************)
(* What module Paths is checked for on small instances, proved for paths,  *)
(* escapes and prefixes of every length.                                   *)
(*                                                                         *)
(* Paths are taken apart and put together by folds over sequences.  The    *)
(* proofs go by induction on a sequence, which is derived here, for sets,  *)
(* from the least number of a set of numbers; that a fold makes one step   *)
(* per element follows from the definition of FoldLeft.                    *)
(***************************************************************************)
EXTENDS Paths, SequenceTheorems, WellFoundedInduction, TLAPS

-----------------------------------------------------------------------------
(* Induction.                                                              *)

(* Every set of numbers that is not empty has a least one.                 *)
LEMMA LeastNumber ==
    ASSUME NEW T, T \subseteq Nat, T # {}
    PROVE  \E n \in T : \A m \in T : n <= m
<1> DEFINE R == OpToRel(<, Nat)
<1>1. IsWellFoundedOn(R, Nat)
  BY NatLessThanWellFounded
<1>2. \A m, n \in Nat : m < n => <<m, n>> \in R
  BY DEF OpToRel
<1> HIDE DEF R
<1>3. PICK n \in T : \A m \in T : ~(<<m, n>> \in R)
  BY <1>1, WFMin
<1>4. ASSUME NEW m \in T PROVE n <= m
  <2>1. m \in Nat /\ n \in Nat
    OBVIOUS
  <2>2. ~(m < n)
    BY <1>2, <1>3, <2>1
  <2> QED
    BY <2>1, <2>2
<1> QED
  BY <1>4

(* Induction over the numbers, stated with a set.                          *)
LEMMA NumberInduction ==
    ASSUME NEW P, 0 \in P, \A n \in Nat : n \in P => n + 1 \in P
    PROVE  Nat \subseteq P
<1> SUFFICES ASSUME Nat \ P # {} PROVE FALSE
  OBVIOUS
<1>1. PICK n \in Nat \ P : \A m \in Nat \ P : n <= m
  BY LeastNumber
<1>2. n # 0 /\ n - 1 \in Nat
  OBVIOUS
<1>3. n - 1 \in P
  BY <1>1, <1>2
<1> QED
  BY <1>2, <1>3

(* Induction over sequences, stated with a set.                            *)
LEMMA SeqInduction ==
    ASSUME NEW S, NEW P, << >> \in P,
           \A s \in Seq(S), e \in S : s \in P => Append(s, e) \in P
    PROVE  Seq(S) \subseteq P
<1> DEFINE N == {n \in Nat : \A s \in Seq(S) : Len(s) = n => s \in P}
<1>1. 0 \in N
  <2> SUFFICES ASSUME NEW s \in Seq(S), Len(s) = 0 PROVE s \in P
    OBVIOUS
  <2>1. s = << >>
    BY EmptySeq
  <2> QED
    BY <2>1
<1>2. ASSUME NEW n \in Nat, n \in N PROVE n + 1 \in N
  <2> SUFFICES ASSUME NEW s \in Seq(S), Len(s) = n + 1 PROVE s \in P
    OBVIOUS
  <2>1. s # << >>
    BY <1>2
  <2>2. PICK t \in Seq(S), e \in S : s = Append(t, e)
    BY <2>1, SequenceEmptyOrAppend
  <2>3. Len(t) = n
    BY <1>2, <2>2, AppendProperties, LenProperties
  <2> QED
    BY <1>2, <2>2, <2>3
<1> HIDE DEF N
<1>3. Nat \subseteq N
  BY <1>1, <1>2, NumberInduction
<1> QED
  BY <1>3, LenProperties DEF N

-----------------------------------------------------------------------------
(* Sequences.                                                              *)

LEMMA FrontLast ==
    ASSUME NEW S, NEW s \in Seq(S), s # <<>>
    PROVE  Front(s) \in Seq(S) /\ Last(s) \in S /\ s = Append(Front(s), Last(s))
           /\ Len(Front(s)) = Len(s) - 1
<1>1. PICK t \in Seq(S), e \in S : s = Append(t, e)
  BY SequenceEmptyOrAppend
<1>2. Len(s) = Len(t) + 1 /\ s[Len(s)] = e /\ Len(t) \in Nat
      /\ \A i \in 1..Len(t) : s[i] = t[i] /\ t[i] \in S
  BY <1>1, AppendProperties, LenProperties
<1>3. Last(s) = e
  BY <1>2 DEF Last
<1>4. Front(s) \in Seq(S) /\ Len(Front(s)) = Len(t) /\ \A i \in 1..Len(t) : Front(s)[i] = t[i]
  BY <1>2, SubSeqProperties DEF Front
<1>5. Front(s) = t
  BY <1>4, SeqEqual
<1> QED
  BY <1>1, <1>2, <1>3, <1>5

(* A sequence and one more element.                                        *)
LEMMA AppendConcat ==
    ASSUME NEW S, NEW s \in Seq(S), NEW t \in Seq(S), NEW e \in S
    PROVE  /\ s \o Append(t, e) = Append(s \o t, e)
           /\ s \o <<e>> = Append(s, e)
           /\ s \o t \in Seq(S) /\ Append(s, e) \in Seq(S) /\ Append(s, e) # <<>>
<1>1. /\ <<e>> \in Seq(S) /\ Append(s, e) = s \o <<e>> /\ Append(t, e) = t \o <<e>>
      /\ s \o t \in Seq(S) /\ Append(s \o t, e) = (s \o t) \o <<e>>
  OBVIOUS
<1>2. (s \o t) \o <<e>> = s \o (t \o <<e>>)
  BY <1>1, ConcatAssociative
<1>3. Append(s, e) \in Seq(S) /\ Append(s, e) # <<>>
  BY AppendProperties
<1> QED
  BY <1>1, <1>2, <1>3

LEMMA FrontLastAppend ==
    ASSUME NEW S, NEW s \in Seq(S), NEW e \in S
    PROVE  Front(Append(s, e)) = s /\ Last(Append(s, e)) = e
<1> DEFINE t == Append(s, e)
<1>1. t \in Seq(S) /\ t # <<>> /\ Len(t) = Len(s) + 1 /\ t[Len(t)] = e
      /\ Len(s) \in Nat /\ \A i \in 1..Len(s) : t[i] = s[i]
  BY AppendProperties, LenProperties
<1>2. t = Append(Front(t), Last(t)) /\ Front(t) \in Seq(S) /\ Last(t) \in S
      /\ Len(Front(t)) = Len(t) - 1
  BY <1>1, FrontLast
<1> HIDE DEF t
<1>3. Last(t) = e
  BY <1>1 DEF Last
<1>4. \A i \in 1..Len(Front(t)) : Append(Front(t), Last(t))[i] = Front(t)[i]
  BY <1>2, AppendProperties
<1>5. Front(t) = s
  <2>1. Len(Front(t)) = Len(s) /\ \A i \in 1..Len(Front(t)) : Front(t)[i] = s[i]
    BY <1>1, <1>2, <1>4
  <2> QED
    BY <1>2, <2>1, SeqEqual
<1> QED
  BY <1>3, <1>5 DEF t

(* A prefix is what something is appended to.                              *)
LEMMA PrefixConcat ==
    ASSUME NEW S, NEW s \in Seq(S), NEW t \in Seq(S)
    PROVE  IsPrefix(s, t) <=> \E u \in Seq(S) : t = s \o u
<1>1. /\ Len(s) \in Nat /\ Len(t) \in Nat
      /\ \A i \in 1..Len(s) : s[i] \in S
      /\ \A i \in 1..Len(t) : t[i] \in S
  BY LenProperties
<1>2. SubSeq(s, 1, Len(s)) = s
  BY SubSeqFull
<1>3. ASSUME IsPrefix(s, t) PROVE \E u \in Seq(S) : t = s \o u
  <2>1. Len(s) <= Len(t) /\ s = SubSeq(t, 1, Len(s))
    BY <1>2, <1>3 DEF IsPrefix
  <2>2. SubSeq(t, 1, Len(s)) \o SubSeq(t, Len(s) + 1, Len(t)) = SubSeq(t, 1, Len(t))
    <3>1. 1 \in 1..Len(t)+1 /\ Len(s) \in 0..Len(t) /\ Len(t) \in Len(s)..Len(t) /\ 1 - 1 = 0
      BY <1>1, <2>1
    <3> QED
      BY <3>1, ConcatAdjacentSubSeq
  <2>3. SubSeq(t, Len(s) + 1, Len(t)) \in Seq(S)
    BY <1>1, SubSeqProperties
  <2>4. SubSeq(t, 1, Len(t)) = t
    BY SubSeqFull
  <2> QED
    BY <2>1, <2>2, <2>3, <2>4
<1>4. ASSUME NEW u \in Seq(S), t = s \o u PROVE IsPrefix(s, t)
  <2>1. Len(s) <= Len(t) /\ \A i \in 1..Len(s) : t[i] = s[i]
    BY <1>4, <1>1, ConcatProperties, LenProperties
  <2>2. /\ SubSeq(t, 1, Len(s)) \in Seq(S) /\ Len(SubSeq(t, 1, Len(s))) = Len(s)
        /\ \A i \in 1..Len(s) : SubSeq(t, 1, Len(s))[i] = t[i]
    BY <1>1, <2>1, SubSeqProperties
  <2>3. SubSeq(t, 1, Len(s)) = s
    BY <2>1, <2>2, SeqEqual
  <2> QED
    BY <1>2, <2>1, <2>3 DEF IsPrefix
<1> QED
  BY <1>3, <1>4

-----------------------------------------------------------------------------
(* Folds.  Their definition recurs over the sets of places of a sequence,
   and takes the last place of each.                                       *)

LEMMA MaxIs ==
    ASSUME NEW T, T \subseteq Int, NEW m \in T, \A y \in T : m >= y
    PROVE  Max(T) = m
<1>1. \E x \in T : \A y \in T : x >= y
  OBVIOUS
<1>2. Max(T) \in T /\ \A y \in T : Max(T) >= y
  BY <1>1, Zenon DEF Max
<1>3. PICK x : x = Max(T)
  OBVIOUS
<1>4. x \in Int /\ m \in Int /\ x >= m /\ m >= x
  BY <1>2, <1>3
<1>5. x = m
  BY <1>4
<1> QED
  BY <1>3, <1>5

(* The equation of a fold has a solution.                                  *)
IsFold(f, s, k, base, step, R) ==
    /\ f \in [SUBSET (1..k) -> R]
    /\ f[{}] = base
    /\ \A T \in SUBSET (1..k) :
          T # {} => f[T] = step[<<f[T \ {Max(T)}], s[Max(T)]>>]

LEMMA FoldExists ==
    ASSUME NEW S, NEW R, NEW s \in Seq(S), NEW base \in R, NEW step \in [R \X S -> R]
    PROVE  \E f : IsFold(f, s, Len(s), base, step, R)
<1> DEFINE Solves(f, k) == IsFold(f, s, k, base, step, R)
<1> DEFINE N == {k \in Nat : k <= Len(s) => \E f : Solves(f, k)}
<1> USE DEF IsFold
<1>1. 0 \in N
  <2>1. Solves([T \in SUBSET (1..0) |-> base], 0)
    <3>1. SUBSET (1..0) = {{}}
      OBVIOUS
    <3> QED
      BY <3>1
  <2> HIDE DEF Solves, IsFold
  <2> QED
    BY <2>1
<1>2. ASSUME NEW k \in Nat, k \in N PROVE k + 1 \in N
  <2> SUFFICES ASSUME k + 1 <= Len(s) PROVE \E f : Solves(f, k + 1)
    <3> HIDE DEF Solves, IsFold
    <3> QED
      BY <1>2
  <2>0. Len(s) \in Nat
    BY LenProperties
  <2>1. PICK f : Solves(f, k)
    <3> HIDE DEF Solves, IsFold
    <3> QED
      BY <1>2, <2>0
  <2> DEFINE g == [T \in SUBSET (1..k+1) |->
                     IF k + 1 \in T THEN step[<<f[T \ {k+1}], s[k+1]>>] ELSE f[T]]
  <2>2. s[k+1] \in S
    BY LenProperties
  <2>3. \A T \in SUBSET (1..k+1) : T \ {k+1} \in SUBSET (1..k)
    OBVIOUS
  <2>4. g \in [SUBSET (1..k+1) -> R]
    <3> SUFFICES ASSUME NEW T \in SUBSET (1..k+1) PROVE g[T] \in R
      OBVIOUS
    <3>1. f[T \ {k+1}] \in R
      BY <2>1, <2>3
    <3>2. CASE k + 1 \in T
      BY <2>2, <3>1, <3>2
    <3>3. CASE k + 1 \notin T
      <4>1. T \ {k+1} = T
        BY <3>3
      <4> QED
        BY <3>1, <3>3, <4>1
    <3> QED
      BY <3>2, <3>3
  <2>5. ASSUME NEW T \in SUBSET (1..k+1), T # {}
        PROVE  g[T] = step[<<g[T \ {Max(T)}], s[Max(T)]>>]
    <3>1. CASE k + 1 \in T
      <4>1. Max(T) = k + 1
        <5>1. T \subseteq Int /\ \A y \in T : k + 1 >= y
          OBVIOUS
        <5> QED
          BY <3>1, <5>1, MaxIs
      <4>2. g[T \ {k+1}] = f[T \ {k+1}]
        BY <2>3
      <4> QED
        BY <3>1, <4>1, <4>2
    <3>2. CASE k + 1 \notin T
      <4>1. T \in SUBSET (1..k) /\ T \ {Max(T)} \in SUBSET (1..k)
        BY <2>3, <3>2
      <4>2. g[T] = f[T] /\ g[T \ {Max(T)}] = f[T \ {Max(T)}]
        BY <3>2, <4>1
      <4> HIDE DEF g
      <4> QED
        BY <2>1, <2>5, <4>1, <4>2
    <3> QED
      BY <3>1, <3>2
  <2>6. g[{}] = base
    <3>1. {} \in SUBSET (1..k+1) /\ k + 1 \notin {}
      OBVIOUS
    <3> QED
      BY <2>1, <3>1
  <2> HIDE DEF g
  <2> QED
    BY <2>4, <2>5, <2>6
<1> HIDE DEF N, IsFold
<1>3. Len(s) \in N
  BY <1>1, <1>2, NumberInduction, LenProperties
<1> QED
  BY <1>3, LenProperties DEF N

(* A function that folds a sequence: its value for the first k places is the
   result of the first k steps.                                            *)
Folds(f, s, base, step, R) ==
    /\ f[{}] = base
    /\ \A T \in SUBSET DOMAIN s :
          T # {} /\ f[T \ {Max(T)}] \in R
              => f[T] = step[<<f[T \ {Max(T)}], s[Max(T)]>>]

LEMMA MaxIn ==
    ASSUME NEW k \in Nat, NEW T \in SUBSET (1..k), T # {}
    PROVE  Max(T) \in T
<1> DEFINE U == {n \in Nat : k - n \in T}
<1>1. U # {}
  <2>1. PICK x \in T : TRUE
    OBVIOUS
  <2>2. x \in 1..k
    OBVIOUS
  <2>3. k - x \in Nat /\ k - (k - x) = x
    BY <2>2
  <2> QED
    BY <2>1, <2>3
<1>2. PICK n \in U : \A m \in U : n <= m
  BY <1>1, LeastNumber
<1>3. k - n \in T
  OBVIOUS
<1>4. ASSUME NEW y \in T PROVE k - n >= y
  <2>1. y \in 1..k /\ n \in Nat
    OBVIOUS
  <2>2. k - y \in Nat /\ k - (k - y) = y
    BY <2>1
  <2>3. k - y \in U
    BY <2>2
  <2>4. n <= k - y
    BY <1>2, <2>3
  <2> QED
    BY <2>1, <2>4
<1>5. T \subseteq Int
  OBVIOUS
<1> QED
  BY <1>3, <1>4, <1>5, MaxIs

LEMMA MaxPlace ==
    ASSUME NEW S, NEW s \in Seq(S), NEW T \in SUBSET DOMAIN s, T # {}
    PROVE  s[Max(T)] \in S /\ T \ {Max(T)} \in SUBSET DOMAIN s
<1>1. Len(s) \in Nat /\ DOMAIN s = 1..Len(s)
  BY LenProperties
<1>2. Max(T) \in T
  BY <1>1, MaxIn
<1>3. Max(T) \in 1..Len(s)
  BY <1>1, <1>2
<1> QED
  BY <1>3, ElementOfSeq

LEMMA MaxUpTo ==
    ASSUME NEW k \in Nat
    PROVE  Max(1..k+1) = k + 1 /\ (1..k+1) \ {k+1} = 1..k /\ 1..k+1 # {}
<1>1. /\ 1..k+1 \subseteq Int /\ k + 1 \in 1..k+1
      /\ \A y \in 1..k+1 : k + 1 >= y
  OBVIOUS
<1>2. Max(1..k+1) = k + 1
  BY <1>1, MaxIs
<1>3. ASSUME NEW x PROVE x \in (1..k+1) \ {k+1} <=> x \in 1..k
  OBVIOUS
<1> QED
  BY <1>1, <1>2, <1>3

FoldOf(f, s, base, step, S, R) ==
    /\ s \in Seq(S)
    /\ base \in R
    /\ step \in [R \X S -> R]
    /\ Folds(f, s, base, step, R)

Final(f, s) == f[DOMAIN s]
Stepped(step, x, e) == step[<<x, e>>]

(* What is folded last is the last element.                                *)
LEMMA FoldAppend ==
    ASSUME NEW S, NEW R, NEW base, NEW step, NEW s, NEW e \in S, NEW f, NEW g,
           FoldOf(f, s, base, step, S, R), FoldOf(g, Append(s, e), base, step, S, R)
    PROVE  /\ Final(f, s) \in R
           /\ Final(g, Append(s, e)) = Stepped(step, Final(f, s), e)
<1>0. /\ s \in Seq(S) /\ base \in R /\ step \in [R \X S -> R]
      /\ Folds(f, s, base, step, R) /\ Folds(g, Append(s, e), base, step, R)
  BY DEF FoldOf
<1> DEFINE t == Append(s, e)
<1>1. /\ Len(s) \in Nat /\ DOMAIN s = 1..Len(s) /\ DOMAIN t = 1..Len(s)+1
      /\ t[Len(s)+1] = e /\ \A i \in 1..Len(s) : t[i] = s[i] /\ s[i] \in S
  BY <1>0, AppendProperties, LenProperties
<1> HIDE DEF t
<1> DEFINE N == {k \in Nat : k <= Len(s) => f[1..k] \in R /\ g[1..k] = f[1..k]}
<1>2. 0 \in N
  <2>1. 1..0 = {}
    OBVIOUS
  <2> QED
    BY <1>0, <2>1 DEF Folds, t
<1>3. ASSUME NEW k \in Nat, k \in N PROVE k + 1 \in N
  <2> SUFFICES ASSUME k + 1 <= Len(s) PROVE f[1..k+1] \in R /\ g[1..k+1] = f[1..k+1]
    OBVIOUS
  <2>1. f[1..k] \in R /\ g[1..k] = f[1..k]
    BY <1>1, <1>3
  <2>2. Max(1..k+1) = k + 1 /\ (1..k+1) \ {k+1} = 1..k /\ 1..k+1 # {}
    BY MaxUpTo
  <2>3. 1..k+1 \in SUBSET DOMAIN s /\ 1..k+1 \in SUBSET DOMAIN t /\ k + 1 \in 1..Len(s)
    BY <1>1
  <2>4. f[1..k+1] = step[<<f[1..k], s[k+1]>>]
    BY <1>0, <2>1, <2>2, <2>3 DEF Folds
  <2>5. g[1..k+1] = step[<<g[1..k], t[k+1]>>]
    BY <1>0, <2>1, <2>2, <2>3 DEF Folds, t
  <2>6. <<f[1..k], s[k+1]>> \in R \X S
    BY <1>1, <2>1, <2>3
  <2> QED
    BY <1>0, <1>1, <2>1, <2>3, <2>4, <2>5, <2>6
<1> HIDE DEF N
<1>4. Len(s) \in N
  BY <1>1, <1>2, <1>3, NumberInduction
<1>5. f[1..Len(s)] \in R /\ g[1..Len(s)] = f[1..Len(s)]
  BY <1>1, <1>4 DEF N
<1>6. /\ Max(1..Len(s)+1) = Len(s) + 1 /\ (1..Len(s)+1) \ {Len(s)+1} = 1..Len(s)
      /\ 1..Len(s)+1 # {}
  BY <1>1, MaxUpTo
<1>7. g[1..Len(s)+1] = step[<<g[1..Len(s)], t[Len(s)+1]>>]
  BY <1>0, <1>1, <1>5, <1>6 DEF Folds, t
<1> QED
  BY <1>1, <1>5, <1>7 DEF t, Final, Stepped

-----------------------------------------------------------------------------
LEMMA EmptyFold ==
    ASSUME NEW f, NEW base, NEW step, NEW R, Folds(f, <<>>, base, step, R)
    PROVE  Final(f, <<>>) = base
<1>1. DOMAIN <<>> = {}
  OBVIOUS
<1> QED
  BY <1>1 DEF Folds, Final

Segments == Seq(Seq(Chars))
SomeSegments == Segments \ {<<>>}

LEMMA ExtendedType ==
    ASSUME NEW S \in SomeSegments, NEW c \in Chars
    PROVE  Extended(S, c) \in SomeSegments
<1>1. /\ S \in Seq(Seq(Chars)) /\ Front(S) \in Seq(Seq(Chars)) /\ Last(S) \in Seq(Chars)
      /\ <<>> \in Seq(Chars)
  BY FrontLast, EmptySeq DEF SomeSegments, Segments
<1>2. Append(Last(S), c) \in Seq(Chars)
  BY <1>1, AppendProperties
<1>3. \A T \in Seq(Seq(Chars)), q \in Seq(Chars) : Append(T, q) \in SomeSegments
  <2> SUFFICES ASSUME NEW T \in Seq(Seq(Chars)), NEW q \in Seq(Chars)
               PROVE  Append(T, q) \in SomeSegments
    OBVIOUS
  <2>1. Append(T, q) \in Seq(Seq(Chars)) /\ Append(T, q) # <<>>
    BY AppendProperties
  <2> QED
    BY <2>1 DEF SomeSegments, Segments
<1> QED
  BY <1>1, <1>2, <1>3 DEF Extended

ExtendedStep == [x \in SomeSegments \X Chars |-> Extended(x[1], x[2])]

LEMMA ExtendedStepType ==
    /\ << <<>> >> \in SomeSegments
    /\ ExtendedStep \in [SomeSegments \X Chars -> SomeSegments]
    /\ \A r \in SomeSegments, c \in Chars : Stepped(ExtendedStep, r, c) = Extended(r, c)
<1>1. << <<>> >> \in SomeSegments
  BY EmptySeq DEF SomeSegments, Segments
<1> QED
  BY <1>1, ExtendedType DEF ExtendedStep, Stepped

SplitEquation(f, p) ==
    f = [T \in SUBSET DOMAIN p |->
           IF T = {} THEN << <<>> >> ELSE Extended(f[T \ {Max(T)}], p[Max(T)])]

LEMMA SplitIsFold ==
    ASSUME NEW p \in Seq(Chars)
    PROVE  \E f : /\ FoldOf(f, p, << <<>> >>, ExtendedStep, Chars, SomeSegments)
                  /\ Split(p) = Final(f, p)
<1>1. PICK g : IsFold(g, p, Len(p), << <<>> >>, ExtendedStep, SomeSegments)
  BY ExtendedStepType, FoldExists
<1>2. DOMAIN p = 1..Len(p) /\ Len(p) \in Nat
  BY LenProperties
<1>3. ASSUME NEW T \in SUBSET DOMAIN p, T # {}
      PROVE  p[Max(T)] \in Chars /\ T \ {Max(T)} \in SUBSET DOMAIN p
  BY <1>3, MaxPlace
<1>4. SplitEquation(g, p)
  <2>1. ASSUME NEW T \in SUBSET DOMAIN p, T # {}
        PROVE  g[T] = Extended(g[T \ {Max(T)}], p[Max(T)])
    <3>1. g[T \ {Max(T)}] \in SomeSegments
      BY <1>1, <1>2, <1>3, <2>1 DEF IsFold
    <3>2. g[T] = ExtendedStep[<<g[T \ {Max(T)}], p[Max(T)]>>]
      BY <1>1, <1>2, <2>1 DEF IsFold
    <3> QED
      BY <1>3, <2>1, <3>1, <3>2 DEF ExtendedStep
  <2> QED
    BY <1>1, <1>2, <2>1 DEF IsFold, SplitEquation
<1>5. PICK f : SplitEquation(f, p) /\ Split(p) = Final(f, p)
  <2>1. \E f : SplitEquation(f, p)
    BY <1>4
  <2> QED
    BY <2>1, Zenon DEF SplitEquation, Split, FoldLeft, MapThenFoldSet, Final
<1>6. Folds(f, p, << <<>> >>, ExtendedStep, SomeSegments)
  <2>1. f[{}] = << <<>> >>
    BY <1>5 DEF SplitEquation
  <2>2. ASSUME NEW T \in SUBSET DOMAIN p, T # {}, f[T \ {Max(T)}] \in SomeSegments
        PROVE  f[T] = ExtendedStep[<<f[T \ {Max(T)}], p[Max(T)]>>]
    <3>1. f[T] = Extended(f[T \ {Max(T)}], p[Max(T)])
      BY <1>5, <2>2 DEF SplitEquation
    <3> QED
      BY <1>3, <2>2, <3>1 DEF ExtendedStep
  <2> QED
    BY <2>1, <2>2 DEF Folds
<1> QED
  BY <1>5, <1>6, ExtendedStepType DEF FoldOf

(* Split, one character at a time.                                         *)
LEMMA SplitSteps ==
    /\ Split(<<>>) = << <<>> >>
    /\ \A p \in Seq(Chars) : Split(p) \in SomeSegments
    /\ \A p \in Seq(Chars), c \in Chars : Split(Append(p, c)) = Extended(Split(p), c)
<1>1. Split(<<>>) = << <<>> >>
  <2>1. <<>> \in Seq(Chars)
    OBVIOUS
  <2> QED
    BY <2>1, SplitIsFold, EmptyFold DEF FoldOf
<1>2. ASSUME NEW p \in Seq(Chars), NEW c \in Chars
      PROVE  Split(p) \in SomeSegments /\ Split(Append(p, c)) = Extended(Split(p), c)
  <2>1. Append(p, c) \in Seq(Chars)
    BY AppendProperties
  <2>2. PICK f : /\ FoldOf(f, p, << <<>> >>, ExtendedStep, Chars, SomeSegments)
                 /\ Split(p) = Final(f, p)
    BY SplitIsFold
  <2>3. PICK g : /\ FoldOf(g, Append(p, c), << <<>> >>, ExtendedStep, Chars, SomeSegments)
                 /\ Split(Append(p, c)) = Final(g, Append(p, c))
    BY <2>1, SplitIsFold
  <2>4. /\ Final(f, p) \in SomeSegments
        /\ Final(g, Append(p, c)) = Stepped(ExtendedStep, Final(f, p), c)
    BY <2>2, <2>3, FoldAppend
  <2>5. Stepped(ExtendedStep, Final(f, p), c) = Extended(Final(f, p), c)
    BY <2>4, ExtendedStepType
  <2> QED
    BY <2>2, <2>3, <2>4, <2>5
<1>3. "a" \in Chars
  BY DEF Chars
<1> QED
  BY <1>1, <1>2, <1>3

LEMMA TakenType ==
    ASSUME NEW steps \in Segments, NEW s \in Seq(Chars)
    PROVE  Taken(steps, s) \in Segments
<1>1. steps = <<>> \/ Front(steps) \in Segments
  BY FrontLast DEF Segments
<1>2. Append(steps, s) \in Segments
  BY AppendProperties DEF Segments
<1> QED
  BY <1>1, <1>2 DEF Taken

TakenStep == [x \in Segments \X Seq(Chars) |-> Taken(x[1], x[2])]

LEMMA TakenStepType ==
    /\ <<>> \in Segments
    /\ TakenStep \in [Segments \X Seq(Chars) -> Segments]
    /\ \A r \in Segments, c \in Seq(Chars) : Stepped(TakenStep, r, c) = Taken(r, c)
<1>1. <<>> \in Segments
  BY EmptySeq DEF Segments
<1> QED
  BY <1>1, TakenType DEF TakenStep, Stepped

ResolvedEquation(f, p) ==
    f = [T \in SUBSET DOMAIN p |->
           IF T = {} THEN <<>> ELSE Taken(f[T \ {Max(T)}], p[Max(T)])]

LEMMA ResolvedIsFold ==
    ASSUME NEW p \in Seq(Seq(Chars))
    PROVE  \E f : /\ FoldOf(f, p, <<>>, TakenStep, Seq(Chars), Segments)
                  /\ Resolved(p) = Final(f, p)
<1>1. PICK g : IsFold(g, p, Len(p), <<>>, TakenStep, Segments)
  BY TakenStepType, FoldExists
<1>2. DOMAIN p = 1..Len(p) /\ Len(p) \in Nat
  BY LenProperties
<1>3. ASSUME NEW T \in SUBSET DOMAIN p, T # {}
      PROVE  p[Max(T)] \in Seq(Chars) /\ T \ {Max(T)} \in SUBSET DOMAIN p
  BY <1>3, MaxPlace
<1>4. ResolvedEquation(g, p)
  <2>1. ASSUME NEW T \in SUBSET DOMAIN p, T # {}
        PROVE  g[T] = Taken(g[T \ {Max(T)}], p[Max(T)])
    <3>1. g[T \ {Max(T)}] \in Segments
      BY <1>1, <1>2, <1>3, <2>1 DEF IsFold
    <3>2. g[T] = TakenStep[<<g[T \ {Max(T)}], p[Max(T)]>>]
      BY <1>1, <1>2, <2>1 DEF IsFold
    <3> QED
      BY <1>3, <2>1, <3>1, <3>2 DEF TakenStep
  <2> QED
    BY <1>1, <1>2, <2>1 DEF IsFold, ResolvedEquation
<1>5. PICK f : ResolvedEquation(f, p) /\ Resolved(p) = Final(f, p)
  <2>1. \E f : ResolvedEquation(f, p)
    BY <1>4
  <2> QED
    BY <2>1, Zenon DEF ResolvedEquation, Resolved, FoldLeft, MapThenFoldSet, Final
<1>6. Folds(f, p, <<>>, TakenStep, Segments)
  <2>1. f[{}] = <<>>
    BY <1>5 DEF ResolvedEquation
  <2>2. ASSUME NEW T \in SUBSET DOMAIN p, T # {}, f[T \ {Max(T)}] \in Segments
        PROVE  f[T] = TakenStep[<<f[T \ {Max(T)}], p[Max(T)]>>]
    <3>1. f[T] = Taken(f[T \ {Max(T)}], p[Max(T)])
      BY <1>5, <2>2 DEF ResolvedEquation
    <3> QED
      BY <1>3, <2>2, <3>1 DEF TakenStep
  <2> QED
    BY <2>1, <2>2 DEF Folds
<1> QED
  BY <1>5, <1>6, TakenStepType DEF FoldOf

(* Resolved, one segment at a time.                                        *)
LEMMA ResolvedSteps ==
    /\ Resolved(<<>>) = <<>>
    /\ \A p \in Seq(Seq(Chars)) : Resolved(p) \in Segments
    /\ \A p \in Seq(Seq(Chars)), c \in Seq(Chars) : Resolved(Append(p, c)) = Taken(Resolved(p), c)
<1>1. Resolved(<<>>) = <<>>
  <2>1. <<>> \in Seq(Seq(Chars))
    OBVIOUS
  <2> QED
    BY <2>1, ResolvedIsFold, EmptyFold DEF FoldOf
<1>2. ASSUME NEW p \in Seq(Seq(Chars)), NEW c \in Seq(Chars)
      PROVE  Resolved(p) \in Segments /\ Resolved(Append(p, c)) = Taken(Resolved(p), c)
  <2>1. Append(p, c) \in Seq(Seq(Chars))
    BY AppendProperties
  <2>2. PICK f : /\ FoldOf(f, p, <<>>, TakenStep, Seq(Chars), Segments)
                 /\ Resolved(p) = Final(f, p)
    BY ResolvedIsFold
  <2>3. PICK g : /\ FoldOf(g, Append(p, c), <<>>, TakenStep, Seq(Chars), Segments)
                 /\ Resolved(Append(p, c)) = Final(g, Append(p, c))
    BY <2>1, ResolvedIsFold
  <2>4. /\ Final(f, p) \in Segments
        /\ Final(g, Append(p, c)) = Stepped(TakenStep, Final(f, p), c)
    BY <2>2, <2>3, FoldAppend
  <2>5. Stepped(TakenStep, Final(f, p), c) = Taken(Final(f, p), c)
    BY <2>4, TakenStepType
  <2> QED
    BY <2>2, <2>3, <2>4, <2>5
<1>3. <<>> \in Seq(Chars)
  BY DEF Chars
<1> QED
  BY <1>1, <1>2, <1>3

LEMMA JoinedType ==
    ASSUME NEW t \in Seq(Chars), NEW s \in Seq(Chars)
    PROVE  Joined(t, s) \in Seq(Chars)
<1>1. Root \in Seq(Chars)
  BY DEF Root, Chars
<1> QED
  BY <1>1, ConcatProperties DEF Joined

JoinedStep == [x \in Seq(Chars) \X Seq(Chars) |-> Joined(x[1], x[2])]

LEMMA JoinedStepType ==
    /\ <<>> \in Seq(Chars)
    /\ JoinedStep \in [Seq(Chars) \X Seq(Chars) -> Seq(Chars)]
    /\ \A r \in Seq(Chars), c \in Seq(Chars) : Stepped(JoinedStep, r, c) = Joined(r, c)
<1>1. <<>> \in Seq(Chars)
  BY EmptySeq
<1> QED
  BY <1>1, JoinedType DEF JoinedStep, Stepped

TextEquation(f, p) ==
    f = [T \in SUBSET DOMAIN p |->
           IF T = {} THEN <<>> ELSE Joined(f[T \ {Max(T)}], p[Max(T)])]

LEMMA TextIsFold ==
    ASSUME NEW p \in Seq(Seq(Chars))
    PROVE  \E f : /\ FoldOf(f, p, <<>>, JoinedStep, Seq(Chars), Seq(Chars))
                  /\ Text(p) = Final(f, p)
<1>1. PICK g : IsFold(g, p, Len(p), <<>>, JoinedStep, Seq(Chars))
  BY JoinedStepType, FoldExists
<1>2. DOMAIN p = 1..Len(p) /\ Len(p) \in Nat
  BY LenProperties
<1>3. ASSUME NEW T \in SUBSET DOMAIN p, T # {}
      PROVE  p[Max(T)] \in Seq(Chars) /\ T \ {Max(T)} \in SUBSET DOMAIN p
  BY <1>3, MaxPlace
<1>4. TextEquation(g, p)
  <2>1. ASSUME NEW T \in SUBSET DOMAIN p, T # {}
        PROVE  g[T] = Joined(g[T \ {Max(T)}], p[Max(T)])
    <3>1. g[T \ {Max(T)}] \in Seq(Chars)
      BY <1>1, <1>2, <1>3, <2>1 DEF IsFold
    <3>2. g[T] = JoinedStep[<<g[T \ {Max(T)}], p[Max(T)]>>]
      BY <1>1, <1>2, <2>1 DEF IsFold
    <3> QED
      BY <1>3, <2>1, <3>1, <3>2 DEF JoinedStep
  <2> QED
    BY <1>1, <1>2, <2>1 DEF IsFold, TextEquation
<1>5. PICK f : TextEquation(f, p) /\ Text(p) = Final(f, p)
  <2>1. \E f : TextEquation(f, p)
    BY <1>4
  <2> QED
    BY <2>1, Zenon DEF TextEquation, Text, FoldLeft, MapThenFoldSet, Final
<1>6. Folds(f, p, <<>>, JoinedStep, Seq(Chars))
  <2>1. f[{}] = <<>>
    BY <1>5 DEF TextEquation
  <2>2. ASSUME NEW T \in SUBSET DOMAIN p, T # {}, f[T \ {Max(T)}] \in Seq(Chars)
        PROVE  f[T] = JoinedStep[<<f[T \ {Max(T)}], p[Max(T)]>>]
    <3>1. f[T] = Joined(f[T \ {Max(T)}], p[Max(T)])
      BY <1>5, <2>2 DEF TextEquation
    <3> QED
      BY <1>3, <2>2, <3>1 DEF JoinedStep
  <2> QED
    BY <2>1, <2>2 DEF Folds
<1> QED
  BY <1>5, <1>6, JoinedStepType DEF FoldOf

(* Text, one segment at a time.                                            *)
LEMMA TextSteps ==
    /\ Text(<<>>) = <<>>
    /\ \A p \in Seq(Seq(Chars)) : Text(p) \in Seq(Chars)
    /\ \A p \in Seq(Seq(Chars)), c \in Seq(Chars) : Text(Append(p, c)) = Joined(Text(p), c)
<1>1. Text(<<>>) = <<>>
  <2>1. <<>> \in Seq(Seq(Chars))
    OBVIOUS
  <2> QED
    BY <2>1, TextIsFold, EmptyFold DEF FoldOf
<1>2. ASSUME NEW p \in Seq(Seq(Chars)), NEW c \in Seq(Chars)
      PROVE  Text(p) \in Seq(Chars) /\ Text(Append(p, c)) = Joined(Text(p), c)
  <2>1. Append(p, c) \in Seq(Seq(Chars))
    BY AppendProperties
  <2>2. PICK f : /\ FoldOf(f, p, <<>>, JoinedStep, Seq(Chars), Seq(Chars))
                 /\ Text(p) = Final(f, p)
    BY TextIsFold
  <2>3. PICK g : /\ FoldOf(g, Append(p, c), <<>>, JoinedStep, Seq(Chars), Seq(Chars))
                 /\ Text(Append(p, c)) = Final(g, Append(p, c))
    BY <2>1, TextIsFold
  <2>4. /\ Final(f, p) \in Seq(Chars)
        /\ Final(g, Append(p, c)) = Stepped(JoinedStep, Final(f, p), c)
    BY <2>2, <2>3, FoldAppend
  <2>5. Stepped(JoinedStep, Final(f, p), c) = Joined(Final(f, p), c)
    BY <2>4, JoinedStepType
  <2> QED
    BY <2>2, <2>3, <2>4, <2>5
<1>3. <<>> \in Seq(Chars)
  BY DEF Chars
<1> QED
  BY <1>1, <1>2, <1>3

-----------------------------------------------------------------------------
(* The characters of a segment.                                            *)
NoSlash == Chars \ {"/"}

LEMMA SegmentsAppend ==
    ASSUME NEW A \in Segments, NEW B \in Segments, NEW q \in Seq(Chars)
    PROVE  /\ A \o Append(B, q) = Append(A \o B, q)
           /\ A \o B \in Segments /\ A \o <<q>> = Append(A, q)
           /\ Append(A, q) \in SomeSegments
           /\ Front(Append(A, q)) = A /\ Last(Append(A, q)) = q
<1> DEFINE S == Seq(Chars)
<1>1. A \in Seq(S) /\ B \in Seq(S) /\ q \in S
  BY DEF Segments
<1> HIDE DEF S
<1>2. /\ A \o Append(B, q) = Append(A \o B, q)
      /\ A \o B \in Seq(S) /\ A \o <<q>> = Append(A, q)
      /\ Append(A, q) \in Seq(S) /\ Append(A, q) # <<>>
  BY <1>1, AppendConcat
<1>3. Front(Append(A, q)) = A /\ Last(Append(A, q)) = q
  BY <1>1, FrontLastAppend
<1> QED
  BY <1>2, <1>3 DEF S, Segments, SomeSegments

LEMMA ExtendedConcat ==
    ASSUME NEW A \in Segments, NEW B \in SomeSegments, NEW c \in Chars
    PROVE  Extended(A \o B, c) = A \o Extended(B, c)
<1>1. PICK T \in Segments, q \in Seq(Chars) : B = Append(T, q)
  BY SequenceEmptyOrAppend DEF SomeSegments, Segments
<1>2. /\ A \o B = Append(A \o T, q) /\ A \o T \in Segments /\ B \in Segments
      /\ Front(B) = T /\ Last(B) = q
  BY <1>1, SegmentsAppend DEF SomeSegments
<1>3. Front(A \o B) = A \o T /\ Last(A \o B) = q
  <2> DEFINE D == A \o T
  <2>1. A \o B = Append(D, q) /\ D \in Segments
    BY <1>2
  <2> HIDE DEF D
  <2>2. Front(Append(D, q)) = D /\ Last(Append(D, q)) = q
    BY <2>1, SegmentsAppend
  <2> QED
    BY <2>1, <2>2 DEF D
<1>4. ASSUME NEW e \in Seq(Chars)
      PROVE  /\ Append(A \o B, e) = A \o Append(B, e)
             /\ Append(A \o T, e) = A \o Append(T, e)
  <2>1. A \o Append(B, e) = Append(A \o B, e)
    BY <1>2, SegmentsAppend, Zenon
  <2>2. A \o Append(T, e) = Append(A \o T, e)
    BY SegmentsAppend, Zenon
  <2> QED
    BY <2>1, <2>2
<1>5. Append(q, c) \in Seq(Chars) /\ <<>> \in Seq(Chars)
  BY AppendProperties
<1> QED
  BY <1>2, <1>3, <1>4, <1>5 DEF Extended

(* A slash between two paths is a boundary between their segments.         *)
LEMMA SplitConcat ==
    ASSUME NEW p \in Seq(Chars), NEW q \in Seq(Chars)
    PROVE  Split((p \o Root) \o q) = Split(p) \o Split(q)
<1> DEFINE P == {r \in Seq(Chars) : Split((p \o Root) \o r) = Split(p) \o Split(r)}
<1>1. /\ "/" \in Chars /\ Root \in Seq(Chars) /\ p \o Root = Append(p, "/")
      /\ p \o Root \in Seq(Chars)
  BY AppendConcat DEF Root, Chars
<1>2. Split(p) \in Segments /\ Split(p) \in SomeSegments
  BY SplitSteps DEF SomeSegments
<1>3. <<>> \in P
  <2>1. (p \o Root) \o <<>> = Append(p, "/")
    BY <1>1, ConcatEmptySeq
  <2>2. Split(Append(p, "/")) = Append(Split(p), <<>>)
    BY <1>1, SplitSteps DEF Extended
  <2>3. Append(Split(p), <<>>) = Split(p) \o << <<>> >>
    BY <1>2, AppendConcat DEF Segments
  <2>4. Split(<<>>) = << <<>> >> /\ <<>> \in Seq(Chars)
    BY SplitSteps
  <2> QED
    BY <2>1, <2>2, <2>3, <2>4
<1>4. ASSUME NEW r \in Seq(Chars), NEW c \in Chars, r \in P PROVE Append(r, c) \in P
  <2>1. /\ (p \o Root) \o Append(r, c) = Append((p \o Root) \o r, c)
        /\ (p \o Root) \o r \in Seq(Chars) /\ Append(r, c) \in Seq(Chars)
    BY <1>1, AppendConcat
  <2>2. Split(Append((p \o Root) \o r, c)) = Extended(Split(p) \o Split(r), c)
    BY <1>4, <2>1, SplitSteps
  <2>3. Extended(Split(p) \o Split(r), c) = Split(p) \o Extended(Split(r), c)
    BY <1>2, SplitSteps, ExtendedConcat
  <2>4. Extended(Split(r), c) = Split(Append(r, c))
    BY SplitSteps
  <2> QED
    BY <2>1, <2>2, <2>3, <2>4
<1> HIDE DEF P
<1>5. Seq(Chars) \subseteq P
  BY <1>3, <1>4, SeqInduction
<1> QED
  BY <1>5 DEF P

(* What has no slash is one segment.                                       *)
LEMMA SplitNoSlash ==
    ASSUME NEW q \in Seq(NoSlash)
    PROVE  Split(q) = <<q>>
<1> DEFINE P == {r \in Seq(NoSlash) : Split(r) = <<r>>}
<1>1. <<>> \in P
  BY SplitSteps
<1>2. ASSUME NEW r \in Seq(NoSlash), NEW c \in NoSlash, r \in P
      PROVE  Append(r, c) \in P
  <2>1. r \in Seq(Chars) /\ c \in Chars /\ c # "/" /\ Append(r, c) \in Seq(NoSlash)
    <3>1. NoSlash \subseteq Chars
      BY DEF NoSlash
    <3> QED
      BY <3>1, SeqMonotonic, AppendProperties DEF NoSlash
  <2>2. Split(Append(r, c)) = Extended(<<r>>, c)
    BY <1>2, <2>1, SplitSteps
  <2>3. <<r>> = Append(<<>>, r) /\ <<>> \in Segments
    BY DEF Segments
  <2>4. Front(<<r>>) = <<>> /\ Last(<<r>>) = r
    BY <2>1, <2>3, SegmentsAppend
  <2>5. Extended(<<r>>, c) = Append(<<>>, Append(r, c))
    BY <2>1, <2>4 DEF Extended
  <2> QED
    BY <2>1, <2>2, <2>5
<1> HIDE DEF P
<1>3. Seq(NoSlash) \subseteq P
  BY <1>1, <1>2, SeqInduction
<1> QED
  BY <1>3 DEF P

(* The segments have the characters of the path, and no slash.             *)
LEMMA SplitChars ==
    ASSUME NEW C \in SUBSET Chars, NEW p \in Seq(C)
    PROVE  Split(p) \in Seq(Seq(C \ {"/"}))
<1> DEFINE P == {r \in Seq(C) : Split(r) \in Seq(Seq(C \ {"/"}))}
<1>1. <<>> \in P
  <2>1. <<>> \in Seq(C) /\ <<>> \in Seq(C \ {"/"})
    OBVIOUS
  <2>2. << <<>> >> \in Seq(Seq(C \ {"/"}))
    BY <2>1
  <2> QED
    BY <2>1, <2>2, SplitSteps
<1>2. ASSUME NEW r \in Seq(C), NEW c \in C, r \in P PROVE Append(r, c) \in P
  <2>1. r \in Seq(Chars) /\ c \in Chars /\ Append(r, c) \in Seq(C)
    BY SeqMonotonic, AppendProperties
  <2>2. Split(r) \in Seq(Seq(C \ {"/"})) /\ Split(r) # <<>>
    BY <1>2, <2>1, SplitSteps DEF SomeSegments
  <2>3. Front(Split(r)) \in Seq(Seq(C \ {"/"})) /\ Last(Split(r)) \in Seq(C \ {"/"})
    BY <2>2, FrontLast
  <2>4. Append(Split(r), <<>>) \in Seq(Seq(C \ {"/"}))
    BY <2>2, EmptySeq, AppendProperties
  <2>5. ASSUME c # "/"
        PROVE  Append(Front(Split(r)), Append(Last(Split(r)), c)) \in Seq(Seq(C \ {"/"}))
    <3>1. Append(Last(Split(r)), c) \in Seq(C \ {"/"})
      BY <2>3, <2>5, AppendProperties
    <3> QED
      BY <2>3, <3>1, AppendProperties
  <2>6. Split(Append(r, c)) = Extended(Split(r), c)
    BY <2>1, SplitSteps
  <2> QED
    BY <2>1, <2>4, <2>5, <2>6 DEF Extended
<1> HIDE DEF P
<1>3. Seq(C) \subseteq P
  BY <1>1, <1>2, SeqInduction
<1> QED
  BY <1>3 DEF P

LEMMA NoSlashSegments ==
    /\ Seq(NoSlash) \subseteq Seq(Chars)
    /\ Seq(Seq(NoSlash)) \subseteq Segments
<1>1. NoSlash \subseteq Chars
  BY DEF NoSlash
<1>2. Seq(NoSlash) \subseteq Seq(Chars)
  BY <1>1, SeqMonotonic
<1>3. Seq(Seq(NoSlash)) \subseteq Seq(Seq(Chars))
  BY <1>2, SeqMonotonic
<1> QED
  BY <1>2, <1>3 DEF Segments

(* The segments that are written are the segments that are read.           *)
LEMMA SplitText ==
    ASSUME NEW S \in Seq(Seq(NoSlash))
    PROVE  Split(Text(S)) = << <<>> >> \o S
<1> DEFINE P == {A \in Seq(Seq(NoSlash)) : Split(Text(A)) = << <<>> >> \o A}
<1>0. << <<>> >> \in Segments /\ <<>> \in Segments /\ Root \in Seq(Chars)
  BY DEF Segments, Root, Chars
<1>1. <<>> \in P
  <2>1. << <<>> >> \o <<>> = << <<>> >> /\ <<>> \in Seq(Seq(NoSlash))
    BY <1>0, ConcatEmptySeq DEF Segments
  <2> QED
    BY <2>1, TextSteps, SplitSteps
<1>2. ASSUME NEW A \in Seq(Seq(NoSlash)), NEW q \in Seq(NoSlash), A \in P
      PROVE  Append(A, q) \in P
  <2>1. /\ A \in Segments /\ q \in Seq(Chars) /\ Append(A, q) \in Seq(Seq(NoSlash))
        /\ Text(A) \in Seq(Chars)
    BY NoSlashSegments, AppendProperties, TextSteps DEF Segments
  <2>2. Text(Append(A, q)) = (Text(A) \o Root) \o q
    BY <2>1, TextSteps DEF Segments, Joined
  <2>3. Split((Text(A) \o Root) \o q) = Split(Text(A)) \o Split(q)
    BY <2>1, SplitConcat
  <2>4. Split(Text(A)) = << <<>> >> \o A /\ Split(q) = <<q>>
    BY <1>2, SplitNoSlash
  <2>5. << <<>> >> \o Append(A, q) = Append(<< <<>> >> \o A, q)
        /\ << <<>> >> \o A \in Segments
    BY <1>0, <2>1, SegmentsAppend, Zenon
  <2>6. (<< <<>> >> \o A) \o <<q>> = Append(<< <<>> >> \o A, q)
    BY <2>1, <2>5, SegmentsAppend, Zenon
  <2>7. Split(Text(Append(A, q))) = << <<>> >> \o Append(A, q)
    BY <2>2, <2>3, <2>4, <2>5, <2>6
  <2> QED
    BY <2>1, <2>7
<1> HIDE DEF P
<1>3. Seq(Seq(NoSlash)) \subseteq P
  BY <1>1, <1>2, SeqInduction
<1> QED
  BY <1>3 DEF P

(* The segments that are dropped or taken back.                            *)
Dots == {<<>>, <<".">>, <<".", ".">>}

(* What is resolved has no dots, and only segments that were there.        *)
LEMMA ResolvedKept ==
    ASSUME NEW D \in SUBSET Seq(Chars), NEW S \in Seq(D)
    PROVE  Resolved(S) \in Seq(D \ Dots)
<1> DEFINE P == {A \in Seq(D) : Resolved(A) \in Seq(D \ Dots)}
<1>1. <<>> \in P
  <2>1. <<>> \in Seq(D) /\ <<>> \in Seq(D \ Dots)
    OBVIOUS
  <2> QED
    BY <2>1, ResolvedSteps
<1>2. ASSUME NEW A \in Seq(D), NEW q \in D, A \in P PROVE Append(A, q) \in P
  <2>1. A \in Seq(Seq(Chars)) /\ q \in Seq(Chars) /\ Append(A, q) \in Seq(D)
    BY SeqMonotonic, AppendProperties
  <2>2. Resolved(Append(A, q)) = Taken(Resolved(A), q) /\ Resolved(A) \in Seq(D \ Dots)
    BY <1>2, <2>1, ResolvedSteps
  <2>3. Resolved(A) = <<>> \/ Front(Resolved(A)) \in Seq(D \ Dots)
    BY <2>2, FrontLast
  <2>4. q \notin Dots => Append(Resolved(A), q) \in Seq(D \ Dots)
    BY <2>2, AppendProperties
  <2>5. Taken(Resolved(A), q) \in Seq(D \ Dots)
    BY <2>2, <2>3, <2>4 DEF Taken, Dots
  <2> QED
    BY <2>1, <2>2, <2>5
<1> HIDE DEF P
<1>3. Seq(D) \subseteq P
  BY <1>1, <1>2, SeqInduction
<1> QED
  BY <1>3 DEF P

(* What has no dots is left as it is.                                      *)
LEMMA ResolvedPlain ==
    ASSUME NEW S \in Seq(Seq(Chars) \ Dots)
    PROVE  Resolved(S) = S
<1> DEFINE P == {A \in Seq(Seq(Chars) \ Dots) : Resolved(A) = A}
<1>1. <<>> \in P
  BY ResolvedSteps
<1>2. ASSUME NEW A \in Seq(Seq(Chars) \ Dots), NEW q \in Seq(Chars) \ Dots, A \in P
      PROVE  Append(A, q) \in P
  <2>1. A \in Seq(Seq(Chars)) /\ Append(A, q) \in Seq(Seq(Chars) \ Dots)
    BY SeqMonotonic, AppendProperties
  <2>2. Resolved(Append(A, q)) = Taken(A, q)
    BY <1>2, <2>1, ResolvedSteps
  <2>3. Taken(A, q) = Append(A, q)
    BY DEF Taken, Dots
  <2> QED
    BY <2>1, <2>2, <2>3
<1> HIDE DEF P
<1>3. Seq(Seq(Chars) \ Dots) \subseteq P
  BY <1>1, <1>2, SeqInduction
<1> QED
  BY <1>3 DEF P

(* An empty segment before the others changes nothing.                     *)
LEMMA ResolvedLeading ==
    ASSUME NEW S \in Segments
    PROVE  Resolved(<< <<>> >> \o S) = Resolved(S)
<1> DEFINE P == {A \in Segments : Resolved(<< <<>> >> \o A) = Resolved(A)}
<1>0. << <<>> >> \in Segments /\ <<>> \in Segments /\ <<>> \in Seq(Chars)
  BY DEF Segments
<1>1. <<>> \in P
  <2>1. << <<>> >> \o <<>> = << <<>> >> /\ << <<>> >> = Append(<<>>, <<>>)
    BY <1>0, ConcatEmptySeq DEF Segments
  <2>2. Resolved(Append(<<>>, <<>>)) = Taken(Resolved(<<>>), <<>>)
    BY <1>0, ResolvedSteps, Zenon DEF Segments
  <2>3. Taken(Resolved(<<>>), <<>>) = Resolved(<<>>)
    BY DEF Taken
  <2> QED
    BY <1>0, <2>1, <2>2, <2>3
<1>2. ASSUME NEW A \in Segments, NEW q \in Seq(Chars), A \in P PROVE Append(A, q) \in P
  <2>1. << <<>> >> \o Append(A, q) = Append(<< <<>> >> \o A, q)
        /\ << <<>> >> \o A \in Segments
    <3>1. PICK E \in Segments : E = << <<>> >>
      BY <1>0
    <3>2. E \o Append(A, q) = Append(E \o A, q) /\ E \o A \in Segments
      BY SegmentsAppend
    <3> QED
      BY <3>1, <3>2, Zenon
  <2>2. Append(A, q) \in Segments
    BY AppendProperties DEF Segments
  <2>3. Resolved(Append(A, q)) = Taken(Resolved(A), q)
    BY ResolvedSteps DEF Segments
  <2>4. Resolved(Append(<< <<>> >> \o A, q)) = Taken(Resolved(<< <<>> >> \o A), q)
    BY <2>1, ResolvedSteps, Zenon DEF Segments
  <2> QED
    BY <1>2, <2>1, <2>2, <2>3, <2>4
<1> HIDE DEF P
<1>3. Segments \subseteq P
  BY <1>1, <1>2, SeqInduction DEF Segments
<1> QED
  BY <1>3 DEF P

-----------------------------------------------------------------------------
LEMMA JoinConcat ==
    ASSUME NEW a \in Seq(Chars), NEW d \in Seq(Chars), NEW q \in Seq(Chars)
    PROVE  ((a \o d) \o Root) \o q = a \o ((d \o Root) \o q)
<1>1. Root \in Seq(Chars)
  BY DEF Root, Chars
<1>2. d \o Root \in Seq(Chars)
  BY <1>1, ConcatProperties
<1>3. (a \o d) \o Root = a \o (d \o Root)
  BY <1>1, ConcatAssociative
<1>4. PICK b \in Seq(Chars) : b = d \o Root
  BY <1>2
<1>5. (a \o b) \o q = a \o (b \o q)
  BY ConcatAssociative
<1> QED
  BY <1>3, <1>4, <1>5, Zenon

LEMMA TextConcat ==
    ASSUME NEW A \in Segments, NEW B \in Segments
    PROVE  Text(A \o B) = Text(A) \o Text(B)
<1> DEFINE P == {D \in Segments : Text(A \o D) = Text(A) \o Text(D)}
<1>0. <<>> \in Segments /\ Text(A) \in Seq(Chars) /\ Root \in Seq(Chars)
  BY TextSteps DEF Segments, Root, Chars
<1>1. <<>> \in P
  <2>1. A \o <<>> = A /\ Text(A) \o <<>> = Text(A)
    BY <1>0, ConcatEmptySeq DEF Segments
  <2> QED
    BY <1>0, <2>1, TextSteps
<1>2. ASSUME NEW D \in Segments, NEW q \in Seq(Chars), D \in P PROVE Append(D, q) \in P
  <2>1. A \o Append(D, q) = Append(A \o D, q) /\ A \o D \in Segments
    BY SegmentsAppend
  <2>2. Append(D, q) \in Segments /\ Text(D) \in Seq(Chars)
    BY AppendProperties, TextSteps DEF Segments
  <2>3. Text(Append(D, q)) = (Text(D) \o Root) \o q
    BY TextSteps DEF Segments, Joined
  <2>4. PICK E \in Segments : E = A \o D
    BY <2>1
  <2>5. Text(Append(E, q)) = (Text(E) \o Root) \o q
    BY TextSteps DEF Segments, Joined
  <2>6. ((Text(A) \o Text(D)) \o Root) \o q = Text(A) \o ((Text(D) \o Root) \o q)
    BY <1>0, <2>2, JoinConcat, Zenon
  <2>7. Text(E) = Text(A) \o Text(D)
    BY <1>2, <2>4
  <2> QED
    BY <2>1, <2>2, <2>3, <2>4, <2>5, <2>6, <2>7
<1> HIDE DEF P
<1>3. Segments \subseteq P
  BY <1>1, <1>2, SeqInduction DEF Segments
<1> QED
  BY <1>3 DEF P

LEMMA TextRooted ==
    ASSUME NEW S \in Segments, S # <<>>
    PROVE  \E r \in Seq(Chars) : Text(S) = Root \o r
<1> DEFINE P == {A \in Segments : A # <<>> => \E r \in Seq(Chars) : Text(A) = Root \o r}
<1>0. <<>> \in Segments /\ Root \in Seq(Chars)
  BY DEF Segments, Root, Chars
<1>1. <<>> \in P
  BY <1>0
<1>2. ASSUME NEW A \in Segments, NEW q \in Seq(Chars), A \in P PROVE Append(A, q) \in P
  <2>1. Append(A, q) \in Segments
    BY AppendProperties DEF Segments
  <2>2. Text(Append(A, q)) = (Text(A) \o Root) \o q
    BY TextSteps DEF Segments, Joined
  <2>3. CASE A = <<>>
    <3>1. Text(A) \o Root = Root
      BY <1>0, <2>3, TextSteps, ConcatEmptySeq
    <3> QED
      BY <2>1, <2>2, <3>1
  <2>4. CASE A # <<>>
    <3>1. PICK r \in Seq(Chars) : Text(A) = Root \o r
      BY <1>2, <2>4
    <3>2. (Root \o r) \o Root = Root \o (r \o Root) /\ r \o Root \in Seq(Chars)
      BY <1>0, ConcatAssociative, ConcatProperties
    <3>3. PICK u \in Seq(Chars) : u = r \o Root
      BY <3>2
    <3>4. (Root \o u) \o q = Root \o (u \o q) /\ u \o q \in Seq(Chars)
      BY <1>0, ConcatAssociative, ConcatProperties
    <3> QED
      BY <2>1, <2>2, <3>1, <3>2, <3>3, <3>4
  <2> QED
    BY <2>3, <2>4
<1> HIDE DEF P
<1>3. Segments \subseteq P
  BY <1>1, <1>2, SeqInduction DEF Segments
<1> QED
  BY <1>3 DEF P

LEMMA TextChars ==
    ASSUME NEW C \in SUBSET Chars, "/" \in C, NEW S \in Seq(Seq(C))
    PROVE  Text(S) \in Seq(C)
<1> DEFINE P == {A \in Seq(Seq(C)) : Text(A) \in Seq(C)}
<1>0. Root \in Seq(C) /\ <<>> \in Seq(C) /\ <<>> \in Seq(Seq(C))
  BY DEF Root
<1>1. <<>> \in P
  BY <1>0, TextSteps
<1>2. ASSUME NEW A \in Seq(Seq(C)), NEW q \in Seq(C), A \in P PROVE Append(A, q) \in P
  <2>1. Seq(C) \subseteq Seq(Chars)
    BY SeqMonotonic
  <2>2. A \in Seq(Seq(Chars)) /\ q \in Seq(Chars) /\ Append(A, q) \in Seq(Seq(C))
    BY <2>1, SeqMonotonic, AppendProperties
  <2>3. Text(Append(A, q)) = (Text(A) \o Root) \o q
    BY <2>2, TextSteps DEF Joined
  <2>4. Text(A) \in Seq(C)
    BY <1>2
  <2>5. Text(A) \o Root \in Seq(C)
    BY <1>0, <2>4, ConcatProperties
  <2>6. (Text(A) \o Root) \o q \in Seq(C)
    BY <2>5, ConcatProperties
  <2> QED
    BY <2>2, <2>3, <2>6
<1> HIDE DEF P
<1>3. Seq(Seq(C)) \subseteq P
  BY <1>1, <1>2, SeqInduction
<1> QED
  BY <1>3 DEF P

(* A slash before a path changes nothing about its segments.               *)
LEMMA ResolveRoot ==
    ASSUME NEW p \in Seq(Chars)
    PROVE  Resolve(Root \o p) = Resolve(p)
<1>1. <<>> \in Seq(Chars) /\ Root \in Seq(Chars) /\ <<>> \o Root = Root
  BY ConcatEmptySeq DEF Root, Chars
<1>2. Split((<<>> \o Root) \o p) = Split(<<>>) \o Split(p)
  BY <1>1, SplitConcat
<1>3. Split(Root \o p) = << <<>> >> \o Split(p) /\ Split(p) \in Segments
  BY <1>1, <1>2, SplitSteps DEF SomeSegments
<1> QED
  BY <1>3, ResolvedLeading DEF Resolve

(* The segments of a path are plain, and have no other characters.         *)
LEMMA ResolvePlain ==
    ASSUME NEW C \in SUBSET Chars, NEW p \in Seq(C)
    PROVE  Resolve(p) \in Seq(Seq(C \ {"/"}) \ Dots)
<1>1. Split(p) \in Seq(Seq(C \ {"/"}))
  BY SplitChars
<1>2. Seq(C \ {"/"}) \subseteq Seq(Chars)
  BY SeqMonotonic
<1> QED
  BY <1>1, <1>2, ResolvedKept DEF Resolve

(* The segments of a path.                                                 *)
PlainSegments == Seq(Seq(NoSlash) \ Dots)

LEMMA PlainTypes ==
    /\ PlainSegments \subseteq Segments
    /\ PlainSegments \subseteq Seq(Seq(NoSlash))
    /\ PlainSegments \subseteq Seq(Seq(Chars) \ Dots)
<1>1. /\ Seq(NoSlash) \ Dots \subseteq Seq(NoSlash)
      /\ Seq(NoSlash) \ Dots \subseteq Seq(Chars) \ Dots
  BY NoSlashSegments
<1>2. PlainSegments \subseteq Seq(Seq(NoSlash))
  BY <1>1, SeqMonotonic DEF PlainSegments
<1>3. PlainSegments \subseteq Seq(Seq(Chars) \ Dots)
  BY <1>1, SeqMonotonic DEF PlainSegments
<1> QED
  BY <1>2, <1>3, NoSlashSegments

LEMMA ResolveText ==
    ASSUME NEW S \in PlainSegments
    PROVE  Resolve(Text(S)) = S
<1>1. S \in Segments /\ S \in Seq(Seq(NoSlash)) /\ S \in Seq(Seq(Chars) \ Dots)
  BY PlainTypes
<1>2. Split(Text(S)) = << <<>> >> \o S
  BY <1>1, SplitText
<1>3. Resolved(<< <<>> >> \o S) = Resolved(S) /\ Resolved(S) = S
  BY <1>1, ResolvedLeading, ResolvedPlain
<1> QED
  BY <1>2, <1>3 DEF Resolve

LEMMA ResolveOfRoot == Resolve(Root) = <<>>
<1>1. <<>> \in Seq(Chars) /\ Root \in Seq(Chars) /\ Root \o <<>> = Root
  BY ConcatEmptySeq DEF Root, Chars
<1>2. Resolve(Root) = Resolve(<<>>)
  BY <1>1, ResolveRoot
<1>3. Split(<<>>) = << <<>> >> /\ << <<>> >> = Append(<<>>, <<>>) /\ <<>> \in Seq(Seq(Chars))
  BY SplitSteps
<1>4. Resolved(Append(<<>>, <<>>)) = Taken(<<>>, <<>>)
  BY <1>1, <1>3, ResolvedSteps, Zenon
<1> QED
  BY <1>2, <1>3, <1>4 DEF Resolve, Taken

(* A cleaned path has the segments of the path.                            *)
LEMMA ResolveClean ==
    ASSUME NEW p \in Seq(Chars)
    PROVE  /\ Resolve(p) \in PlainSegments
           /\ Clean(p) \in Seq(Chars)
           /\ Resolve(Clean(p)) = Resolve(p)
<1>1. Resolve(p) \in PlainSegments
  BY ResolvePlain DEF PlainSegments, NoSlash
<1>2. Text(Resolve(p)) \in Seq(Chars)
  BY <1>1, PlainTypes, TextSteps DEF Segments
<1>3. Root \in Seq(Chars)
  BY DEF Root, Chars
<1> QED
  BY <1>1, <1>2, <1>3, ResolveText, ResolveOfRoot DEF Clean

(* Cleaning a path a second time, with or without a slash before it, changes
   nothing: transport (CanonicalPath) and proxy (pathWithinPrefix) clean the
   path one after the other and mean the same path.                        *)
THEOREM CleanOnce ==
    ASSUME NEW p \in Seq(Chars)
    PROVE  /\ Clean(Root \o p) = Clean(p)
           /\ Clean(Clean(p)) = Clean(p)
           /\ Clean(Root \o Clean(p)) = Clean(p)
           /\ Canonical(p) = Clean(p)
<1>1. \A q \in Seq(Chars) : Clean(Root \o q) = Clean(q)
  BY ResolveRoot DEF Clean
<1>2. Clean(p) \in Seq(Chars) /\ Clean(Clean(p)) = Clean(p)
  BY ResolveClean DEF Clean
<1> QED
  BY <1>1, <1>2 DEF Canonical

LEMMA TextLong ==
    ASSUME NEW Q \in PlainSegments, Q # <<>>
    PROVE  /\ Text(Q) \in Seq(Chars)
           /\ Text(Q) # Root
           /\ Len(Text(Q)) > 0
<1>1. Q \in Segments
  BY PlainTypes
<1>2. PICK r \in Seq(Chars) : Text(Q) = Root \o r
  BY <1>1, TextRooted
<1>3. Root \in Seq(Chars) /\ Len(Root) = 1
  BY DEF Root, Chars
<1>4. Root \o r \in Seq(Chars) /\ Len(Root \o r) = Len(Root) + Len(r) /\ Len(r) \in Nat
  BY <1>3, ConcatProperties, LenProperties
<1>5. Text(Q) # Root
  BY ResolveText, ResolveOfRoot
<1> QED
  BY <1>2, <1>3, <1>4, <1>5

(* The text of a clean prefix, as the code compares it.                    *)
HasPrefix(a, b) ==
    \/ b = Root
    \/ a = b
    \/ IsPrefix(b \o Root, a)

CleanText(S) == IF S = <<>> THEN Root ELSE Text(S)

LEMMA PrefixOfText ==
    ASSUME NEW P \in PlainSegments, NEW Q \in PlainSegments, IsPrefix(Q, P)
    PROVE  HasPrefix(CleanText(P), CleanText(Q))
<1>1. P \in Segments /\ Q \in Segments
  BY PlainTypes
<1>2. PICK B \in Segments : P = Q \o B
  BY <1>1, PrefixConcat DEF Segments
<1>3. CASE Q = <<>>
  BY <1>3 DEF HasPrefix, CleanText
<1>4. CASE B = <<>>
  <2>1. P = Q
    BY <1>1, <1>2, <1>4, ConcatEmptySeq DEF Segments
  <2> QED
    BY <2>1 DEF HasPrefix
<1>5. CASE Q # <<>> /\ B # <<>>
  <2>1. P # <<>>
    BY <1>1, <1>2, <1>5, ConcatEqualIffEmpty DEF Segments
  <2>2. PICK r \in Seq(Chars) : Text(B) = Root \o r
    BY <1>5, TextRooted
  <2>3. Text(P) = Text(Q) \o (Root \o r) /\ Text(Q) \in Seq(Chars) /\ Text(P) \in Seq(Chars)
    BY <1>1, <1>2, <2>2, TextConcat, TextSteps DEF Segments
  <2>4. Root \in Seq(Chars)
    BY DEF Root, Chars
  <2>5. Text(P) = (Text(Q) \o Root) \o r /\ Text(Q) \o Root \in Seq(Chars)
    BY <2>3, <2>4, ConcatAssociative, ConcatProperties
  <2>6. IsPrefix(Text(Q) \o Root, Text(P))
    BY <2>3, <2>5, PrefixConcat
  <2> QED
    BY <1>5, <2>1, <2>6 DEF HasPrefix, CleanText
<1> QED
  BY <1>3, <1>4, <1>5

LEMMA SegmentsConcat ==
    ASSUME NEW A \in Segments, NEW B \in Segments, NEW D \in Segments
    PROVE  (A \o B) \o D = A \o (B \o D)
BY ConcatAssociative DEF Segments

LEMMA SegmentsCancel ==
    ASSUME NEW A \in Segments, NEW B \in Segments, NEW D \in Segments, A \o B = A \o D
    PROVE  B = D
BY ConcatSimplifications DEF Segments

LEMMA PrefixOfSegments ==
    ASSUME NEW P \in PlainSegments, NEW Q \in PlainSegments,
           HasPrefix(CleanText(P), CleanText(Q))
    PROVE  IsPrefix(Q, P)
<1>1. P \in Segments /\ Q \in Segments
  BY PlainTypes
<1>7. <<>> \in Segments /\ << <<>> >> \in Segments
  BY DEF Segments
<1>8. Root \in Seq(Chars) /\ Len(Root) \in Nat /\ ~(Len(Root) < 1) /\ ~(Len(Root) > 1)
  BY DEF Root, Chars
<1>2. ASSUME Q = <<>> PROVE IsPrefix(Q, P)
  <2>1. P = Q \o P
    BY <1>1, <1>2, <1>7, ConcatEmptySeq DEF Segments
  <2> QED
    BY <1>1, <1>7, <2>1, PrefixConcat DEF Segments
<1>3. ASSUME P = Q PROVE IsPrefix(Q, P)
  <2>1. P = Q \o <<>>
    BY <1>1, <1>3, <1>7, ConcatEmptySeq DEF Segments
  <2> QED
    BY <1>1, <1>7, <2>1, PrefixConcat DEF Segments
<1>4. CASE CleanText(Q) = Root
  BY <1>2, <1>4, TextLong DEF CleanText
<1>5. CASE CleanText(P) = CleanText(Q)
  <2>1. Resolve(CleanText(P)) = P /\ Resolve(CleanText(Q)) = Q
    BY ResolveText, ResolveOfRoot DEF CleanText
  <2> QED
    BY <1>3, <1>5, <2>1
<1>6. CASE IsPrefix(CleanText(Q) \o Root, CleanText(P)) /\ Q # <<>>
  <2>1. CleanText(Q) = Text(Q) /\ Text(Q) \in Seq(Chars) /\ Len(Text(Q)) > 0
    BY <1>6, TextLong DEF CleanText
  <2>2. CleanText(P) \in Seq(Chars)
    BY <1>1, <1>8, TextSteps DEF CleanText, Segments
  <2>3. /\ Text(Q) \o Root \in Seq(Chars)
        /\ Len(Text(Q) \o Root) = Len(Text(Q)) + Len(Root)
        /\ Len(Text(Q)) \in Nat
    BY <1>8, <2>1, ConcatProperties, LenProperties
  <2>4. PICK r \in Seq(Chars) : CleanText(P) = (Text(Q) \o Root) \o r
    BY <1>6, <2>1, <2>2, <2>3, PrefixConcat
  <2>5. P # <<>>
    <3>1. Len((Text(Q) \o Root) \o r) = Len(Text(Q) \o Root) + Len(r) /\ Len(r) \in Nat
      BY <2>3, ConcatProperties, LenProperties
    <3>2. Len(CleanText(P)) > 1
      BY <1>8, <2>1, <2>3, <2>4, <3>1
    <3>3. CleanText(P) # Root
      BY <1>8, <3>2
    <3> QED
      BY <3>3 DEF CleanText
  <2>6. Split((Text(Q) \o Root) \o r) = Split(Text(Q)) \o Split(r)
    BY <2>1, SplitConcat
  <2>7. Split(Text(Q)) = << <<>> >> \o Q /\ Split(CleanText(P)) = << <<>> >> \o P
    BY <2>5, PlainTypes, SplitText DEF CleanText
  <2>8. PICK B \in Segments : B = Split(r)
    BY SplitSteps DEF SomeSegments
  <2>9. << <<>> >> \o P = << <<>> >> \o (Q \o B) /\ Q \o B \in Segments
    <3>1. PICK E \in Segments : E = << <<>> >>
      BY <1>7
    <3>2. (E \o Q) \o B = E \o (Q \o B)
      BY <1>1, SegmentsConcat
    <3>3. Q \o B \in Segments
      BY <1>1, SegmentsAppend
    <3> QED
      BY <2>4, <2>6, <2>7, <2>8, <3>1, <3>2, <3>3
  <2>10. P = Q \o B
    <3>1. PICK E \in Segments : E = << <<>> >>
      BY <1>7
    <3>2. PICK D \in Segments : D = Q \o B
      BY <2>9
    <3>3. E \o P = E \o D => P = D
      BY <1>1, SegmentsCancel
    <3> QED
      BY <2>9, <3>1, <3>2, <3>3
  <2> QED
    BY <1>1, <2>10, PrefixConcat DEF Segments
<1> QED
  BY <1>2, <1>4, <1>5, <1>6 DEF HasPrefix

(* pathWithinPrefix compares texts, and says what a comparison of segments
   would say: for every path and every prefix, whatever their dots and
   slashes, the prefix is granted exactly if its resolved segments are the
   first resolved segments of the path.                                    *)
THEOREM WithinPrefixIsSegments ==
    ASSUME NEW path \in Seq(Chars), NEW prefixPath \in Seq(Chars)
    PROVE  WithinPrefix(path, prefixPath) <=> IsPrefix(Resolve(prefixPath), Resolve(path))
<1>1. /\ Clean(Root \o path) = CleanText(Resolve(path))
      /\ Clean(Root \o prefixPath) = CleanText(Resolve(prefixPath))
  BY CleanOnce DEF Clean, CleanText
<1>2. Resolve(path) \in PlainSegments /\ Resolve(prefixPath) \in PlainSegments
  BY ResolveClean
<1>3. WithinPrefix(path, prefixPath)
        <=> HasPrefix(CleanText(Resolve(path)), CleanText(Resolve(prefixPath)))
  BY <1>1 DEF WithinPrefix, HasPrefix
<1> QED
  BY <1>2, <1>3, PrefixOfText, PrefixOfSegments

-----------------------------------------------------------------------------
(* What is written on the wire is what is decoded.                         *)
LEMMA DecodeType ==
    ASSUME NEW w \in Seq(DOMAIN Unescaped)
    PROVE  Decode(w) \in Seq(Chars)
<1>1. \A c \in DOMAIN Unescaped : Unescaped[c] \in Chars
  BY DEF Unescaped, Chars
<1>2. DOMAIN w = 1..Len(w) /\ Len(w) \in Nat /\ \A i \in 1..Len(w) : w[i] \in DOMAIN Unescaped
  BY LenProperties
<1> QED
  BY <1>1, <1>2 DEF Decode

LEMMA DecodeEscaped ==
    ASSUME NEW raw, NEW p \in Seq(Chars)
    PROVE  Decode(EscapedPath(raw, p)) = p
<1>1. \A c \in Chars : Escaped[c] \in DOMAIN Unescaped /\ Unescaped[Escaped[c]] = c
  BY DEF Unescaped, Escaped, Chars
<1>2. DOMAIN p = 1..Len(p) /\ Len(p) \in Nat /\ \A i \in 1..Len(p) : p[i] \in Chars
  BY LenProperties
<1>3. Decode(Escape(p)) = p
  BY <1>1, <1>2 DEF Decode, Escape
<1> QED
  BY <1>3 DEF EscapedPath

(* A path that is not ambiguous stays so when it is cleaned.               *)
Unambiguous == Chars \ AmbiguousChars

LEMMA UnambiguousChars ==
    ASSUME NEW p \in Seq(Chars)
    PROVE  ~IsAmbiguous(p) <=> p \in Seq(Unambiguous)
<1>1. DOMAIN p = 1..Len(p) /\ Len(p) \in Nat /\ \A i \in 1..Len(p) : p[i] \in Chars
  BY LenProperties
<1>2. ASSUME ~IsAmbiguous(p) PROVE p \in Seq(Unambiguous)
  <2>1. \A i \in 1..Len(p) : p[i] \in Unambiguous
    BY <1>1, <1>2 DEF IsAmbiguous, Unambiguous
  <2> QED
    BY <1>1, <2>1
<1>3. ASSUME p \in Seq(Unambiguous) PROVE ~IsAmbiguous(p)
  <2>1. \A i \in 1..Len(p) : p[i] \in Unambiguous
    BY <1>3, LenProperties
  <2> QED
    BY <1>1, <2>1 DEF IsAmbiguous, Unambiguous
<1> QED
  BY <1>2, <1>3

LEMMA CleanUnambiguous ==
    ASSUME NEW p \in Seq(Chars), ~IsAmbiguous(p)
    PROVE  ~IsAmbiguous(Clean(p))
<1> DEFINE C == Unambiguous
<1>1. C \in SUBSET Chars /\ "/" \in C /\ p \in Seq(C)
  BY UnambiguousChars DEF Unambiguous, Chars, AmbiguousChars
<1> HIDE DEF C
<1>2. Resolve(p) \in Seq(Seq(C \ {"/"}) \ Dots)
  BY <1>1, ResolvePlain
<1>3. Seq(C \ {"/"}) \ Dots \subseteq Seq(C)
  <2>1. C \ {"/"} \subseteq C
    OBVIOUS
  <2> QED
    BY <2>1, SeqMonotonic
<1>4. Resolve(p) \in Seq(Seq(C))
  BY <1>2, <1>3, SeqMonotonic
<1>5. Text(Resolve(p)) \in Seq(C)
  BY <1>1, <1>4, TextChars
<1>6. Root \in Seq(C)
  BY <1>1 DEF Root
<1>7. Clean(p) \in Seq(C)
  BY <1>5, <1>6 DEF Clean
<1> QED
  BY <1>7, ResolveClean, UnambiguousChars DEF C

-----------------------------------------------------------------------------
TypeOK ==
    /\ stage \in {"received", "parsed", "refused", "allowed", "sent"}
    /\ wire \in Seq(DOMAIN Unescaped)
    /\ prefix \in Seq(Chars)
    /\ allowed \in BOOLEAN

(* What is signed is the path on the wire, cleaned, and it is unambiguous. *)
SignedIsClean ==
    stage \in {"parsed", "allowed", "sent"} =>
        /\ ~IsAmbiguous(Decode(wire))
        /\ signed = Clean(Decode(wire))

(* Nothing is allowed before it is decided, and nothing is sent that was not
   allowed.                                                                *)
AllowedInv ==
    /\ stage \in {"received", "parsed"} => ~allowed
    /\ stage \in {"allowed", "sent"} => allowed

PathInv ==
    /\ TypeOK
    /\ SignedIsClean
    /\ AllowedInv
    /\ DecisionFollowsSegments
    /\ TargetDecodesSigned

LEMMA InitTypes ==
    ASSUME NEW S, NEW n \in Nat
    PROVE  BoundedSeq(S, n) \subseteq Seq(S)
<1> SUFFICES ASSUME NEW s \in BoundedSeq(S, n) PROVE s \in Seq(S)
  OBVIOUS
<1>1. PICK m \in 0..n : s \in [1..m -> S]
  BY DEF BoundedSeq, SeqOf
<1> QED
  BY <1>1

LEMMA InitPathInv == Init => PathInv
<1> SUFFICES ASSUME Init PROVE PathInv
  OBVIOUS
<1>1. prefix \in Seq(Chars)
  BY InitTypes, BoundsAssumption DEF Init
<1>2. wire \in Seq(DOMAIN Unescaped)
  <2>1. CASE wire = <<>>
    BY <2>1
  <2>2. ASSUME NEW w \in BoundedSeq(DOMAIN Unescaped, MaxPath), wire = Root \o w
        PROVE  wire \in Seq(DOMAIN Unescaped)
    <3>1. w \in Seq(DOMAIN Unescaped)
      BY InitTypes, BoundsAssumption
    <3>2. Root \in Seq(DOMAIN Unescaped)
      BY DEF Root, Unescaped
    <3> QED
      BY <2>2, <3>1, <3>2, ConcatProperties
  <2> QED
    BY <2>1, <2>2 DEF Init
<1>3. stage = "received" /\ allowed = FALSE
  BY DEF Init
<1> QED
  BY <1>1, <1>2, <1>3 DEF PathInv, TypeOK, SignedIsClean, AllowedInv, DecisionFollowsSegments,
                          TargetDecodesSigned

LEMMA FromRequestPathInv == PathInv /\ FromRequest => PathInv'
<1> SUFFICES ASSUME PathInv, FromRequest PROVE PathInv'
  OBVIOUS
<1>1. TypeOK /\ stage = "received" /\ allowed = FALSE
  BY DEF PathInv, TypeOK, AllowedInv, FromRequest
<1>2. wire' = wire /\ prefix' = prefix /\ allowed' = FALSE /\ sent' = sent
  BY <1>1 DEF FromRequest
<1>3. Decode(wire) \in Seq(Chars)
  BY <1>1, DecodeType DEF TypeOK
<1>4. CASE IsAmbiguous(Decode(wire))
  <2>1. stage' = "refused"
    BY <1>4 DEF FromRequest
  <2> QED
    BY <1>1, <1>2, <1>4, <2>1 DEF PathInv, TypeOK, SignedIsClean, AllowedInv,
                                  DecisionFollowsSegments, TargetDecodesSigned
<1>5. CASE ~IsAmbiguous(Decode(wire))
  <2>1. stage' = "parsed" /\ signed' = Clean(Decode(wire))
    BY <1>3, <1>5, CleanOnce DEF FromRequest
  <2> QED
    BY <1>1, <1>2, <1>5, <2>1 DEF PathInv, TypeOK, SignedIsClean, AllowedInv,
                                  DecisionFollowsSegments, TargetDecodesSigned
<1> QED
  BY <1>4, <1>5

LEMMA MatchesPathInv == PathInv /\ Matches => PathInv'
<1> SUFFICES ASSUME PathInv, Matches PROVE PathInv'
  OBVIOUS
<1>1. TypeOK /\ ~IsAmbiguous(Decode(wire)) /\ signed = Clean(Decode(wire))
  BY DEF PathInv, SignedIsClean, Matches
<1>2. wire' = wire /\ prefix' = prefix /\ signed' = signed /\ sent' = sent
      /\ allowed' = (~IsAmbiguous(signed) /\ WithinPrefix(signed, prefix))
      /\ stage' = IF allowed' THEN "allowed" ELSE "refused"
  BY DEF Matches
<1>3. Decode(wire) \in Seq(Chars) /\ prefix \in Seq(Chars)
  BY <1>1, DecodeType DEF TypeOK
<1>4. /\ signed \in Seq(Chars) /\ Resolve(signed) = Resolve(Decode(wire))
      /\ ~IsAmbiguous(signed)
  BY <1>1, <1>3, ResolveClean, CleanUnambiguous
<1>5. WithinPrefix(signed, prefix) <=> IsPrefix(Resolve(prefix), Resolve(Decode(wire)))
  BY <1>3, <1>4, WithinPrefixIsSegments
<1>6. allowed' \in BOOLEAN /\ stage' \in {"allowed", "refused"}
  BY <1>2
<1>7. DecisionFollowsSegments'
  BY <1>1, <1>2, <1>4, <1>5 DEF DecisionFollowsSegments
<1> QED
  BY <1>1, <1>2, <1>6, <1>7 DEF PathInv, TypeOK, SignedIsClean, AllowedInv, TargetDecodesSigned

LEMMA ForwardPathInv == PathInv /\ Forward => PathInv'
<1> SUFFICES ASSUME PathInv, Forward PROVE PathInv'
  OBVIOUS
<1>1. TypeOK /\ ~IsAmbiguous(Decode(wire)) /\ signed = Clean(Decode(wire))
      /\ stage = "allowed"
  BY DEF PathInv, SignedIsClean, Forward
<1>2. wire' = wire /\ prefix' = prefix /\ signed' = signed /\ allowed' = allowed
      /\ stage' = "sent" /\ sent' = EscapedPath(RawPath(wire), signed)
  BY DEF Forward
<1>3. signed \in Seq(Chars)
  BY <1>1, DecodeType, ResolveClean DEF TypeOK
<1>4. Decode(sent') = signed
  BY <1>2, <1>3, DecodeEscaped
<1> QED
  BY <1>1, <1>2, <1>4 DEF PathInv, TypeOK, SignedIsClean, AllowedInv, DecisionFollowsSegments,
                          TargetDecodesSigned

(* PathInv holds in every state, for every bound on the lengths.           *)
THEOREM PathInvariance == Spec => []PathInv
<1>1. PathInv /\ [Next]_vars => PathInv'
  <2> SUFFICES ASSUME PathInv, [Next]_vars PROVE PathInv'
    OBVIOUS
  <2>1. CASE FromRequest
    BY <2>1, FromRequestPathInv
  <2>2. CASE Matches
    BY <2>2, MatchesPathInv
  <2>3. CASE Forward
    BY <2>3, ForwardPathInv
  <2>4. CASE UNCHANGED vars
    BY <2>4 DEF vars, PathInv, TypeOK, SignedIsClean, AllowedInv, DecisionFollowsSegments,
                TargetDecodesSigned
  <2> QED
    BY <2>1, <2>2, <2>3, <2>4 DEF Next, Done
<1> QED
  BY InitPathInv, <1>1, PTL DEF Spec

(* Of a call of any length and an entry of any length: it is allowed exactly
   if it is unambiguous and lies under the entry's prefix by segments.     *)
THEOREM DecisionsFollowSegments == Spec => []DecisionFollowsSegments
<1>1. PathInv => DecisionFollowsSegments
  BY DEF PathInv
<1> QED
  BY PathInvariance, <1>1, PTL

(* To clean a signed path again changes nothing: proxy matches the path that
   transport made and that is signed.                                      *)
THEOREM PathsAreMatchedAsSigned == Spec => []MatchedAsSigned
<1>1. PathInv => MatchedAsSigned
  <2> SUFFICES ASSUME PathInv, stage \in {"allowed", "sent"}
               PROVE  Clean(Root \o signed) = signed
    BY DEF MatchedAsSigned
  <2>1. signed = Clean(Decode(wire)) /\ Decode(wire) \in Seq(Chars)
    BY DecodeType DEF PathInv, SignedIsClean, TypeOK
  <2> QED
    BY <2>1, CleanOnce
<1> QED
  BY PathInvariance, <1>1, PTL

(* Whatever the agent escaped, the target decodes the path that was decided
   and signed.                                                             *)
THEOREM TargetsDecodeSigned == Spec => []TargetDecodesSigned
<1>1. PathInv => TargetDecodesSigned
  BY DEF PathInv
<1> QED
  BY PathInvariance, <1>1, PTL
(* From the entry to the wire: the path that the target decodes has the
   segments of the entry's prefix in front, and is clean, so that the target
   finds no double dot with which to leave what was granted.               *)
ReachesOnlyTheGranted ==
    stage = "sent" =>
        /\ IsPrefix(Resolve(prefix), Resolve(Decode(sent)))
        /\ Clean(Decode(sent)) = Decode(sent)

(* Whatever the agent wrote and escaped, what reaches the target lies, by
   segments, under the prefix of the entry that granted it.                *)
THEOREM TargetsStayWithinGrant == Spec => []ReachesOnlyTheGranted
<1>1. PathInv => ReachesOnlyTheGranted
  <2> SUFFICES ASSUME PathInv, stage = "sent"
               PROVE  /\ IsPrefix(Resolve(prefix), Resolve(signed))
                      /\ Clean(signed) = signed
    BY DEF ReachesOnlyTheGranted, PathInv, TargetDecodesSigned
  <2>1. signed = Clean(Decode(wire)) /\ Decode(wire) \in Seq(Chars)
    BY DecodeType DEF PathInv, SignedIsClean, TypeOK
  <2>2. IsPrefix(Resolve(prefix), Resolve(Decode(wire)))
    BY DEF PathInv, DecisionFollowsSegments, AllowedInv
  <2> QED
    BY <2>1, <2>2, ResolveClean, CleanOnce
<1> QED
  BY PathInvariance, <1>1, PTL
=============================================================================
