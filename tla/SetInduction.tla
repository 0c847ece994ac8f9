---------------------------- MODULE SetInduction ----------------------------
(***************************************************************************)
(* Induction with sets in the place of predicates, and what it gives on    *)
(* folds: FoldLeft, of any length, goes one element at a time.             *)
(***************************************************************************)
EXTENDS Naturals, SequencesExt, SequenceTheorems, WellFoundedInduction, TLAPS

LEMMA LeastNatural ==
  ASSUME NEW S, S \subseteq Nat, S # {}
  PROVE  \E x \in S : \A y \in S : x <= y
  <1> DEFINE R == {ss \in Nat \X Nat : ss[1] < ss[2]}
  <1>1. IsWellFoundedOn(R, Nat)
    BY NatLessThanWellFounded DEF OpToRel
  <1>2. \E x \in S : \A y \in S : <<y, x>> \notin R
    <2> HIDE DEF R
    <2> QED
      BY <1>1, WFMin
  <1>3. PICK x \in S : \A y \in S : <<y, x>> \notin R
    BY <1>2
  <1>4. \A y \in S : ~ (y < x)
    BY <1>3
  <1> QED
    BY <1>3, <1>4

LEMMA EveryNatural ==
  ASSUME NEW S, 0 \in S, \A n \in Nat : n \in S => n + 1 \in S
  PROVE  Nat \subseteq S
  <1> SUFFICES ASSUME Nat \ S # {} PROVE FALSE
    OBVIOUS
  <1>1. PICK x \in Nat \ S : \A y \in Nat \ S : x <= y
    <2>1. Nat \ S \subseteq Nat
      OBVIOUS
    <2> QED
      BY <2>1, LeastNatural
  <1>2. x # 0
    OBVIOUS
  <1>3. x - 1 \in Nat /\ x - 1 \in S
    BY <1>1, <1>2
  <1> QED
    BY <1>1, <1>3

\* A sequence is empty, or one element more than a sequence.
LEMMA EverySequence ==
  ASSUME NEW V, NEW P, <<>> \in P,
         \A q \in Seq(V), e \in V : q \in P => Append(q, e) \in P
  PROVE  Seq(V) \subseteq P
  <1> DEFINE Long == {n \in Nat : \A q \in Seq(V) : Len(q) = n => q \in P}
  <1>1. 0 \in Long
    <2>1. ASSUME NEW q \in Seq(V), Len(q) = 0 PROVE q \in P
      BY <2>1, EmptySeq
    <2> QED
      BY <2>1
  <1>2. ASSUME NEW n \in Nat, n \in Long PROVE n + 1 \in Long
    <2>1. ASSUME NEW q \in Seq(V), Len(q) = n + 1 PROVE q \in P
      <3>1. q # <<>>
        BY <2>1
      <3>2. PICK s \in Seq(V), e \in V : q = Append(s, e)
        BY <3>1, SequenceEmptyOrAppend
      <3>3. Len(q) = Len(s) + 1 /\ Len(s) \in Nat
        BY <3>2, AppendProperties, LenProperties
      <3>4. Len(s) = n
        BY <2>1, <3>3
      <3>5. s \in P
        BY <1>2, <3>4
      <3> QED
        BY <3>2, <3>5
    <2> QED
      BY <2>1
  <1>3. Nat \subseteq Long
    <2> HIDE DEF Long
    <2> QED
      BY <1>1, <1>2, EveryNatural
  <1>4. ASSUME NEW q \in Seq(V) PROVE q \in P
    <2>1. Len(q) \in Nat
      OBVIOUS
    <2> QED
      BY <1>3, <2>1
  <1> QED
    BY <1>4

-----------------------------------------------------------------------------
(* The two ends of a sequence.                                             *)

LEMMA DomainAppend ==
  ASSUME NEW V, NEW d \in Seq(V), NEW s \in V
  PROVE  DOMAIN Append(d, s) = 1 .. Len(d) + 1
  BY AppendProperties, LenProperties

LEMMA FrontAppend ==
  ASSUME NEW V, NEW d \in Seq(V), NEW s \in V
  PROVE  Front(Append(d, s)) = d
  <1>1. Front(Append(d, s)) = SubSeq(Append(d, s), 1, Len(d))
    <2>1. Len(Append(d, s)) - 1 = Len(d)
      BY AppendProperties, LenProperties
    <2> QED
      BY <2>1 DEF Front
  <1>2. Append(d, s) = d \o <<s>>
    BY AppendIsConcat
  <1> QED
    BY <1>1, <1>2, SubSeqOfConcat1, SubSeqFull

LEMMA LastAppend ==
  ASSUME NEW V, NEW d \in Seq(V), NEW s \in V
  PROVE  Last(Append(d, s)) = s
  BY AppendProperties DEF Last

LEMMA Single ==
  ASSUME NEW V, NEW e \in V
  PROVE  <<e>> \in Seq(V)
  OBVIOUS

LEMMA Pair ==
  ASSUME NEW V, NEW e \in V, NEW f \in V
  PROVE  <<e>> \o <<f>> = <<e, f>>
  <1>1. PICK s \in Seq(V), t \in Seq(V) : s = <<e>> /\ t = <<f>>
    BY Single
  <1>2. Len(s) = 1 /\ s[1] = e /\ Len(t) = 1 /\ t[1] = f
    BY <1>1
  <1>3. PICK q \in Seq(V) : q = s \o t
    BY ConcatProperties
  <1>4. /\ Len(s \o t) = Len(s) + Len(t)
        /\ \A i \in 1 .. Len(s) + Len(t) :
             (s \o t)[i] = IF i <= Len(s) THEN s[i] ELSE t[i - Len(s)]
    BY ConcatProperties
  <1>5. Len(q) = 2 /\ q[1] = e /\ q[2] = f
    <2>1. Len(q) = 2 /\ \A i \in 1 .. 2 : q[i] = IF i <= 1 THEN s[i] ELSE t[i - 1]
      BY <1>2, <1>3, <1>4
    <2> QED
      BY <1>2, <2>1
  <1>6. <<e, f>> \in Seq(V)
    BY DEF Seq
  <1>7. PICK p \in Seq(V) : p = <<e, f>>
    BY <1>6
  <1>8. Len(p) = 2 /\ p[1] = e /\ p[2] = f
    BY <1>7
  <1>9. \A i \in 1 .. 2 : q[i] = p[i]
    BY <1>5, <1>8
  <1>10. q = p
    BY <1>5, <1>8, <1>9, SeqEqual
  <1> QED
    BY <1>1, <1>3, <1>7, <1>10

LEMMA ConcatAppend ==
  ASSUME NEW V, NEW a \in Seq(V), NEW x \in Seq(V), NEW e \in V
  PROVE  a \o Append(x, e) = Append(a \o x, e)
  <1>1. a \o x \in Seq(V)
    BY ConcatProperties
  <1>2. Append(x, e) = x \o <<e>>
    BY AppendIsConcat
  <1>3. Append(a \o x, e) = (a \o x) \o <<e>>
    BY <1>1, AppendIsConcat
  <1>4. <<e>> \in Seq(V)
    OBVIOUS
  <1> QED
    BY <1>2, <1>3, <1>4, ConcatAssociative, SMTT(60)

LEMMA FrontAndLast ==
  ASSUME NEW V, NEW d \in Seq(V), d # <<>>
  PROVE  \E x \in Seq(V), e \in V : d = Append(x, e) /\ Front(d) = x /\ Last(d) = e
  <1>1. PICK x \in Seq(V), e \in V : d = Append(x, e)
    BY SequenceEmptyOrAppend
  <1>2. Front(d) = x
    BY <1>1, FrontAppend
  <1>3. Last(d) = e
    BY <1>1, LastAppend
  <1> QED
    BY <1>1, <1>2, <1>3

-----------------------------------------------------------------------------
(* Maxima.                                                                 *)

LEMMA MaxIs ==
  ASSUME NEW S, S \subseteq Nat, NEW m \in S, \A y \in S : m >= y
  PROVE  Max(S) = m
  <1>1. Max(S) \in S /\ \A y \in S : Max(S) >= y
    BY DEF Max
  <1>2. PICK x : x = Max(S)
    OBVIOUS
  <1>3. x \in S /\ \A y \in S : x >= y
    BY <1>1, <1>2
  <1>4. x = m
    BY <1>3
  <1> QED
    BY <1>2, <1>4

LEMMA MaxBelongs ==
  ASSUME NEW L \in Nat, NEW s \in SUBSET (1 .. L), s # {}
  PROVE  Max(s) \in s
  <1> DEFINE gaps == {n \in Nat : L - n \in s}
  <1>1. gaps # {}
    <2>1. PICK x : x \in s
      OBVIOUS
    <2>2. L - x \in Nat /\ L - (L - x) = x
      BY <2>1
    <2> QED
      BY <2>1, <2>2
  <1>2. PICK n \in gaps : \A m \in gaps : n <= m
    <2>1. gaps \subseteq Nat
      OBVIOUS
    <2> HIDE DEF gaps
    <2> QED
      BY <1>1, <2>1, LeastNatural
  <1>3. ASSUME NEW y \in s PROVE L - n >= y
    <2>1. L - y \in Nat /\ L - (L - y) = y
      OBVIOUS
    <2>2. L - y \in gaps
      BY <2>1
    <2> QED
      BY <1>2, <2>1, <2>2
  <1>4. L - n \in s /\ s \subseteq Nat
    BY <1>2
  <1>5. Max(s) = L - n
    BY <1>3, <1>4, MaxIs
  <1> QED
    BY <1>4, <1>5

LEMMA Intervals ==
  ASSUME NEW L \in Nat, NEW n \in 1 .. L
  PROVE  /\ n \in Nat /\ n - 1 \in Nat /\ n \in 0 .. L /\ n - 1 \in 0 .. L
         /\ 1 .. n \in SUBSET (1 .. L) /\ n \in 1 .. n
         /\ (1 .. n) \ {n} = 1 .. n - 1
         /\ Max(1 .. n) = n
  <1>1. n \in Nat /\ n - 1 \in Nat /\ n \in 0 .. L /\ n - 1 \in 0 .. L /\ n \in 1 .. n
    OBVIOUS
  <1>2. 1 .. n \in SUBSET (1 .. L) /\ (1 .. n) \ {n} = 1 .. n - 1
    OBVIOUS
  <1>3. 1 .. n \subseteq Nat /\ \A y \in 1 .. n : n >= y
    OBVIOUS
  <1>4. Max(1 .. n) = n
    BY <1>1, <1>3, MaxIs
  <1> QED
    BY <1>1, <1>2, <1>4

-----------------------------------------------------------------------------
(* The values a fold takes: F goes from a state and an element to a state. *)

Accumulates(h, b, F, q) ==
  \A s \in DOMAIN h : h[s] = IF s = {} THEN b ELSE F[h[s \ {Max(s)}], q[Max(s)]]

\* One element more.
LEMMA FoldExtends ==
  ASSUME NEW S, NEW V, NEW b \in S, NEW F \in [S \X V -> S],
         NEW q, NEW n \in Nat, q[n + 1] \in V,
         NEW g \in [SUBSET (1 .. n) -> S], Accumulates(g, b, F, q)
  PROVE  \E h \in [SUBSET (1 .. n + 1) -> S] : Accumulates(h, b, F, q)
  <1> DEFINE h == [s \in SUBSET (1 .. n + 1) |->
                     IF n + 1 \in s THEN F[g[s \ {n + 1}], q[n + 1]] ELSE g[s]]
  <1>1. DOMAIN h = SUBSET (1 .. n + 1) /\ DOMAIN g = SUBSET (1 .. n)
    OBVIOUS
  <1>2. ASSUME NEW s \in SUBSET (1 .. n + 1), n + 1 \in s
        PROVE  h[s] \in S /\ h[s] = F[h[s \ {Max(s)}], q[Max(s)]]
    <2>1. Max(s) = n + 1
      <3>1. s \subseteq Nat /\ \A y \in s : n + 1 >= y
        OBVIOUS
      <3> QED
        BY <1>2, <3>1, MaxIs
    <2>2. s \ {n + 1} \in SUBSET (1 .. n) /\ s \ {n + 1} \in SUBSET (1 .. n + 1)
      OBVIOUS
    <2>3. h[s \ {n + 1}] = g[s \ {n + 1}]
      BY <2>2
    <2>4. h[s] = F[g[s \ {n + 1}], q[n + 1]]
      BY <1>2
    <2>5. g[s \ {n + 1}] \in S
      BY <2>2
    <2>6. F[g[s \ {n + 1}], q[n + 1]] \in S
      BY <2>5
    <2> HIDE DEF h
    <2> QED
      BY <2>1, <2>3, <2>4, <2>6
  <1>3. ASSUME NEW s \in SUBSET (1 .. n + 1), n + 1 \notin s
        PROVE  /\ h[s] \in S
               /\ h[s] = IF s = {} THEN b ELSE F[h[s \ {Max(s)}], q[Max(s)]]
    <2>1. s \in SUBSET (1 .. n)
      BY <1>3
    <2>2. h[s] = g[s] /\ h[s \ {Max(s)}] = g[s \ {Max(s)}]
      BY <1>3
    <2>3. g[s] = IF s = {} THEN b ELSE F[g[s \ {Max(s)}], q[Max(s)]]
      BY <1>1, <2>1 DEF Accumulates
    <2>4. g[s] \in S
      BY <2>1
    <2> HIDE DEF h
    <2> QED
      BY <2>2, <2>3, <2>4
  <1>4. \A s \in SUBSET (1 .. n + 1) :
          /\ h[s] \in S
          /\ h[s] = IF s = {} THEN b ELSE F[h[s \ {Max(s)}], q[Max(s)]]
    <2> HIDE DEF h
    <2> QED
      BY <1>2, <1>3
  <1>5. Accumulates(h, b, F, q)
    <2> HIDE DEF h
    <2> QED
      BY <1>1, <1>4 DEF Accumulates
  <1>6. h \in [SUBSET (1 .. n + 1) -> S]
    <2>1. \A s \in SUBSET (1 .. n + 1) : h[s] \in S
      <3> HIDE DEF h
      <3> QED
        BY <1>4
    <2> QED
      BY <2>1
  <1> QED
    BY <1>5, <1>6

\* The function FoldLeft is defined by does exist.
LEMMA FoldExists ==
  ASSUME NEW S, NEW V, NEW b \in S, NEW F \in [S \X V -> S],
         NEW L \in Nat, NEW q, \A i \in 1 .. L : q[i] \in V
  PROVE  \E h \in [SUBSET (1 .. L) -> S] : Accumulates(h, b, F, q)
  <1> DEFINE Ups == {n \in Nat : n <= L =>
                       \E h \in [SUBSET (1 .. n) -> S] : Accumulates(h, b, F, q)}
  <1>1. 0 \in Ups
    <2> DEFINE h == [s \in SUBSET (1 .. 0) |-> b]
    <2>1. 1 .. 0 = {}
      OBVIOUS
    <2>2. h \in [SUBSET (1 .. 0) -> S] /\ Accumulates(h, b, F, q)
      BY <2>1 DEF Accumulates
    <2> QED
      BY <2>2
  <1>2. ASSUME NEW n \in Nat, n \in Ups PROVE n + 1 \in Ups
    <2>1. n + 1 \in Nat
      OBVIOUS
    <2>2. ASSUME n + 1 <= L
          PROVE  \E h \in [SUBSET (1 .. n + 1) -> S] : Accumulates(h, b, F, q)
      <3>1. n <= L /\ n + 1 \in 1 .. L
        BY <2>2
      <3>2. PICK g \in [SUBSET (1 .. n) -> S] : Accumulates(g, b, F, q)
        BY <1>2, <3>1
      <3>3. q[n + 1] \in V
        BY <3>1
      <3> QED
        BY <3>2, <3>3, FoldExtends
    <2> QED
      BY <2>1, <2>2
  <1>3. Nat \subseteq Ups
    <2> HIDE DEF Ups
    <2> QED
      BY <1>1, <1>2, EveryNatural
  <1>4. L <= L
    OBVIOUS
  <1> QED
    BY <1>3, <1>4

\* What a fold has come to after each element.
Chain(g, S, b, F, q, L) ==
  /\ g \in [0 .. L -> S]
  /\ g[0] = b
  /\ \A n \in 1 .. L : g[n] = F[g[n - 1], q[n]]

Steps(g, S, F, q, L) ==
  \A n \in 1 .. L : g[n - 1] \in S => g[n] = F[g[n - 1], q[n]]

\* Whatever starts where the fold starts, and takes its steps.
LEMMA IsChain ==
  ASSUME NEW S, NEW V, NEW b \in S, NEW F \in [S \X V -> S],
         NEW L \in Nat, NEW q, \A i \in 1 .. L : q[i] \in V,
         NEW g, g = [n \in 0 .. L |-> g[n]], g[0] = b, Steps(g, S, F, q, L)
  PROVE  Chain(g, S, b, F, q, L)
  <1> DEFINE Typed == {n \in Nat : n <= L => g[n] \in S}
  <1>1. 0 \in Typed
    OBVIOUS
  <1>2. ASSUME NEW n \in Nat, n \in Typed PROVE n + 1 \in Typed
    <2>0. n + 1 \in Nat
      OBVIOUS
    <2>1. ASSUME n + 1 <= L PROVE g[n + 1] \in S
      <3>1. n + 1 \in 1 .. L /\ (n + 1) - 1 = n /\ n <= L
        BY <2>1
      <3>2. g[n] \in S
        BY <1>2, <3>1
      <3>3. g[n + 1] = F[g[n], q[n + 1]]
        BY <3>1, <3>2 DEF Steps
      <3>4. q[n + 1] \in V
        BY <3>1
      <3> QED
        BY <3>2, <3>3, <3>4
    <2> QED
      BY <2>0, <2>1
  <1>3. Nat \subseteq Typed
    <2> HIDE DEF Typed
    <2> QED
      BY <1>1, <1>2, EveryNatural
  <1>4. \A n \in 0 .. L : g[n] \in S
    BY <1>3
  <1>5. g \in [0 .. L -> S]
    BY <1>4
  <1>6. ASSUME NEW n \in 1 .. L PROVE g[n] = F[g[n - 1], q[n]]
    <2>1. n - 1 \in 0 .. L
      OBVIOUS
    <2> QED
      BY <1>4, <2>1 DEF Steps
  <1> QED
    BY <1>5, <1>6 DEF Chain

\* What has the types a fold should have, and its values.
Fits(h, S, V, b, F, q, L) ==
  /\ h \in [SUBSET (1 .. L) -> S]
  /\ \A s \in SUBSET (1 .. L) :
       IF s = {} THEN h[s] = b
       ELSE /\ h[s \ {Max(s)}] \in S /\ q[Max(s)] \in V
            /\ h[s] = F[h[s \ {Max(s)}], q[Max(s)]]

\* What is defined as a fold is.
IsFold(k, S, V, b, F, q, L) ==
  \A s \in SUBSET (1 .. L) :
    IF s = {} THEN k[s] = b
    ELSE k[s \ {Max(s)}] \in S /\ q[Max(s)] \in V
           => k[s] = F[k[s \ {Max(s)}], q[Max(s)]]

Reaches(v, S, b, F, q, L) == \E g : Chain(g, S, b, F, q, L) /\ g[L] = v

\* There is one.
LEMMA FoldTyped ==
  ASSUME NEW S, NEW V, NEW b \in S, NEW F \in [S \X V -> S],
         NEW L \in Nat, NEW q, \A i \in 1 .. L : q[i] \in V
  PROVE  \E h : Fits(h, S, V, b, F, q, L)
  <1>1. PICK h \in [SUBSET (1 .. L) -> S] : Accumulates(h, b, F, q)
    BY FoldExists
  <1>2. ASSUME NEW s \in SUBSET (1 .. L), s # {}
        PROVE  /\ h[s \ {Max(s)}] \in S /\ q[Max(s)] \in V
               /\ h[s] = F[h[s \ {Max(s)}], q[Max(s)]]
    <2>1. Max(s) \in 1 .. L
      BY <1>2, MaxBelongs
    <2>2. s \ {Max(s)} \in SUBSET (1 .. L)
      OBVIOUS
    <2> QED
      BY <1>1, <1>2, <2>1, <2>2 DEF Accumulates
  <1>3. ASSUME NEW s \in SUBSET (1 .. L), s = {} PROVE h[s] = b
    BY <1>1, <1>3 DEF Accumulates
  <1> QED
    BY <1>1, <1>2, <1>3 DEF Fits

\* All of them take the steps, along the prefixes.
LEMMA FoldChains ==
  ASSUME NEW S, NEW V, NEW b \in S, NEW F \in [S \X V -> S],
         NEW L \in Nat, NEW q, \A i \in 1 .. L : q[i] \in V,
         NEW k, IsFold(k, S, V, b, F, q, L)
  PROVE  Reaches(k[1 .. L], S, b, F, q, L)
  <1> DEFINE g == [n \in 0 .. L |-> k[1 .. n]]
  <1>1. g[0] = b /\ g[L] = k[1 .. L]
    <2>1. 1 .. 0 = {} /\ 0 \in 0 .. L /\ L \in 0 .. L
      OBVIOUS
    <2>2. {} \in SUBSET (1 .. L)
      OBVIOUS
    <2>3. k[{}] = b
      BY <2>2 DEF IsFold
    <2> QED
      BY <2>1, <2>3
  <1>2. ASSUME NEW n \in 1 .. L, g[n - 1] \in S
        PROVE  g[n] = F[g[n - 1], q[n]]
    <2>1. /\ 1 .. n \in SUBSET (1 .. L) /\ n \in 1 .. n
          /\ n \in 0 .. L /\ n - 1 \in 0 .. L
      BY Intervals
    <2>2. (1 .. n) \ {n} = 1 .. n - 1 /\ Max(1 .. n) = n
      BY Intervals
    <2>3. k[1 .. n - 1] \in S
      BY <1>2, <2>1
    <2>4. 1 .. n # {}
      BY <2>1
    <2>5. k[1 .. n] = F[k[1 .. n - 1], q[n]]
      BY <2>1, <2>2, <2>3, <2>4 DEF IsFold
    <2> QED
      BY <2>1, <2>5
  <1>3. g = [n \in 0 .. L |-> g[n]]
    OBVIOUS
  <1> HIDE DEF g
  <1>4. Steps(g, S, F, q, L)
    BY <1>2 DEF Steps
  <1>5. Chain(g, S, b, F, q, L)
    BY <1>1, <1>3, <1>4, IsChain
  <1> QED
    BY <1>1, <1>5 DEF Reaches

\* The same for sequences.
Stepper(S, V) == [S \X V -> S]

LEMMA FoldFits ==
  ASSUME NEW S, NEW V, NEW b \in S, NEW F \in Stepper(S, V), NEW q \in Seq(V)
  PROVE  \E h : Fits(h, S, V, b, F, q, Len(q))
  <1>1. Len(q) \in Nat /\ \A i \in 1 .. Len(q) : q[i] \in V
    BY LenProperties, ElementOfSeq
  <1>2. F \in [S \X V -> S]
    BY DEF Stepper
  <1> QED
    BY <1>1, <1>2, FoldTyped

LEMMA FoldReaches ==
  ASSUME NEW S, NEW V, NEW b \in S, NEW F \in Stepper(S, V), NEW q \in Seq(V),
         NEW k, IsFold(k, S, V, b, F, q, Len(q))
  PROVE  Reaches(k[1 .. Len(q)], S, b, F, q, Len(q))
  <1>1. Len(q) \in Nat /\ \A i \in 1 .. Len(q) : q[i] \in V
    BY LenProperties, ElementOfSeq
  <1>2. F \in [S \X V -> S]
    BY DEF Stepper
  <1> QED
    BY <1>1, <1>2, FoldChains

LEMMA ReachesFirst ==
  ASSUME NEW S, NEW V, NEW b \in S, NEW F \in Stepper(S, V),
         NEW q, NEW v, Reaches(v, S, b, F, q, 0)
  PROVE  v = b
  BY DEF Reaches, Chain

LEMMA ReachesIn ==
  ASSUME NEW S, NEW V, NEW b \in S, NEW F \in Stepper(S, V), NEW q \in Seq(V),
         NEW v, Reaches(v, S, b, F, q, Len(q))
  PROVE  v \in S
  <1>1. PICK L \in Nat : L = Len(q)
    BY LenProperties
  <1>2. PICK g : g \in [0 .. L -> S] /\ g[L] = v
    BY <1>1 DEF Reaches, Chain
  <1>3. L \in 0 .. L
    OBVIOUS
  <1> QED
    BY <1>2, <1>3

ReachesBoth(v, w, S, b, F, q, e) ==
  Reaches(v, S, b, F, q, Len(q)) /\ Reaches(w, S, b, F, Append(q, e), Len(Append(q, e)))

Goes(F, v, e, w) == w = F[v, e]

\* One element more is one step more.
LEMMA ReachesNext ==
  ASSUME NEW S, NEW V, NEW b \in S, NEW F \in Stepper(S, V), NEW q \in Seq(V), NEW e \in V,
         NEW v, NEW w, ReachesBoth(v, w, S, b, F, q, e)
  PROVE  Goes(F, v, e, w)
  <1>0. PICK L \in Nat : L = Len(q)
    BY LenProperties
  <1>g. PICK g : Chain(g, S, b, F, q, L) /\ g[L] = v
    BY <1>0 DEF ReachesBoth, Reaches
  <1>k. PICK k : Chain(k, S, b, F, Append(q, e), L + 1) /\ k[L + 1] = w
    BY <1>0, AppendProperties DEF ReachesBoth, Reaches
  <1>1. /\ Len(Append(q, e)) = L + 1
        /\ \A i \in 1 .. L : Append(q, e)[i] = q[i]
        /\ Append(q, e)[L + 1] = e
    BY <1>0, AppendProperties
  <1>2. \A n \in 1 .. L : g[n] = F[g[n - 1], q[n]]
    BY <1>g DEF Chain
  <1>3. \A n \in 1 .. L + 1 : k[n] = F[k[n - 1], Append(q, e)[n]]
    BY <1>k DEF Chain
  <1>4. g[0] = b /\ k[0] = b
    BY <1>g, <1>k DEF Chain
  <1> DEFINE Same == {n \in Nat : n <= L => k[n] = g[n]}
  <1>5. 0 \in Same
    BY <1>4
  <1>6. ASSUME NEW n \in Nat, n \in Same PROVE n + 1 \in Same
    <2>0. n + 1 \in Nat
      OBVIOUS
    <2>1. ASSUME n + 1 <= L PROVE k[n + 1] = g[n + 1]
      <3>1. n + 1 \in 1 .. L /\ n + 1 \in 1 .. L + 1 /\ (n + 1) - 1 = n /\ n <= L
        BY <2>1
      <3>2. g[n + 1] = F[g[n], q[n + 1]]
        BY <1>2, <3>1
      <3>3. k[n + 1] = F[k[n], q[n + 1]]
        BY <1>1, <1>3, <3>1
      <3>4. k[n] = g[n]
        BY <1>6, <3>1
      <3> QED
        BY <3>2, <3>3, <3>4
    <2> QED
      BY <2>0, <2>1
  <1>7. Nat \subseteq Same
    <2> HIDE DEF Same
    <2> QED
      BY <1>5, <1>6, EveryNatural
  <1>8. k[L] = g[L]
    BY <1>7
  <1>9. L + 1 \in 1 .. L + 1 /\ (L + 1) - 1 = L
    OBVIOUS
  <1>10. k[L + 1] = F[k[L], e]
    BY <1>1, <1>3, <1>9
  <1> QED
    BY <1>1, <1>8, <1>10, <1>g, <1>k DEF Goes

-----------------------------------------------------------------------------
(* FlattenSeq, one sequence at a time.                                     *)

FlatFcn(V) == [x \in Seq(V) \X Seq(V) |-> x[1] \o x[2]]

LEMMA FlatFcnType ==
  ASSUME NEW V
  PROVE  /\ FlatFcn(V) \in Stepper(Seq(V), Seq(V))
         /\ \A d \in Seq(V), e \in Seq(V) : FlatFcn(V)[d, e] = d \o e
  <1>1. FlatFcn(V) \in Stepper(Seq(V), Seq(V))
    BY ConcatProperties DEF FlatFcn, Stepper
  <1>2. \A d \in Seq(V), e \in Seq(V) : FlatFcn(V)[d, e] = d \o e
    BY DEF FlatFcn
  <1> QED
    BY <1>1, <1>2

LEMMA FlatExists ==
  ASSUME NEW V, NEW q \in Seq(Seq(V))
  PROVE  \E g : Chain(g, Seq(V), <<>>, FlatFcn(V), q, Len(q))
  <1>1. <<>> \in Seq(V) /\ FlatFcn(V) \in Stepper(Seq(V), Seq(V))
    BY EmptySeq, FlatFcnType
  <1>2. PICK h : Fits(h, Seq(V), Seq(V), <<>>, FlatFcn(V), q, Len(q))
    BY <1>1, FoldFits
  <1>3. IsFold(h, Seq(V), Seq(V), <<>>, FlatFcn(V), q, Len(q))
    BY <1>2 DEF Fits, IsFold
  <1>4. Reaches(h[1 .. Len(q)], Seq(V), <<>>, FlatFcn(V), q, Len(q))
    BY <1>1, <1>3, FoldReaches
  <1> QED
    BY <1>4 DEF Reaches

LEMMA FlattenChain ==
  ASSUME NEW V, NEW q \in Seq(Seq(V))
  PROVE  Reaches(FlattenSeq(q), Seq(V), <<>>, FlatFcn(V), q, Len(q))
  <1> DEFINE P(f) == f = [i \in 1 .. Len(q) |->
                            IF i = 1 THEN q[i] ELSE f[i - 1] \o q[i]]
  <1>1. PICK g : Chain(g, Seq(V), <<>>, FlatFcn(V), q, Len(q))
    BY FlatExists
  <1>2. PICK L \in Nat : L = Len(q)
    BY LenProperties
  <1>3. \A i \in 1 .. L : q[i] \in Seq(V)
    BY <1>2, ElementOfSeq
  <1>4. ASSUME NEW n \in 1 .. L PROVE g[n] = g[n - 1] \o q[n] /\ g[n] \in Seq(V)
    <2>1. n \in 0 .. L /\ n - 1 \in 0 .. L
      OBVIOUS
    <2>2. g[n] \in Seq(V) /\ g[n - 1] \in Seq(V) /\ g[n] = FlatFcn(V)[g[n - 1], q[n]]
      BY <1>1, <1>2, <2>1 DEF Chain
    <2> QED
      BY <1>3, <2>2, FlatFcnType
  <1>5. CASE L = 0
    <2>1. FlattenSeq(q) = <<>>
      BY <1>2, <1>5, EmptySeq DEF FlattenSeq
    <2>2. g[0] = <<>>
      BY <1>1 DEF Chain
    <2> QED
      BY <1>1, <1>2, <1>5, <2>1, <2>2 DEF Reaches
  <1>6. CASE L # 0
    <2>1. g[1] = q[1]
      <3>1. 1 \in 1 .. L /\ 1 - 1 = 0
        BY <1>6
      <3>2. g[1] = <<>> \o q[1]
        BY <1>1, <1>4, <3>1 DEF Chain
      <3> QED
        BY <1>3, <3>1, <3>2, ConcatEmptySeq
    <2>2. P([i \in 1 .. L |-> g[i]])
      <3> DEFINE f == [i \in 1 .. L |-> g[i]]
      <3>1. ASSUME NEW i \in 1 .. L
            PROVE  g[i] = IF i = 1 THEN q[i] ELSE f[i - 1] \o q[i]
        <4>1. i # 1 => i - 1 \in 1 .. L
          OBVIOUS
        <4>2. i # 1 => f[i - 1] = g[i - 1]
          BY <4>1
        <4> HIDE DEF f
        <4> QED
          BY <1>4, <2>1, <4>2
      <3>2. f = [i \in 1 .. L |-> IF i = 1 THEN q[i] ELSE f[i - 1] \o q[i]]
        BY <3>1
      <3> QED
        BY <1>2, <3>2
    <2>3. PICK k : P(k) /\ FlattenSeq(q) = k[Len(q)]
      <3>1. P(CHOOSE f : P(f))
        BY <2>2, Zenon
      <3>2. FlattenSeq(q) = (CHOOSE f : P(f))[Len(q)]
        BY <1>2, <1>6 DEF FlattenSeq
      <3> QED
        BY <3>1, <3>2, Zenon
    <2> DEFINE Same == {n \in Nat : n + 1 <= L => k[n + 1] = g[n + 1]}
    <2>4. \A i \in 1 .. L : k[i] = IF i = 1 THEN q[i] ELSE k[i - 1] \o q[i]
      BY <1>2, <2>3
    <2>5. 0 \in Same
      <3>1. 0 + 1 = 1 /\ 1 \in 1 .. L
        BY <1>6
      <3> QED
        BY <2>1, <2>4, <3>1
    <2>6. ASSUME NEW n \in Nat, n \in Same PROVE n + 1 \in Same
      <3>1. ASSUME (n + 1) + 1 <= L PROVE k[(n + 1) + 1] = g[(n + 1) + 1]
        <4>1. PICK m \in 1 .. L :
                m = (n + 1) + 1 /\ m # 1 /\ m - 1 = n + 1 /\ n + 1 <= L
          BY <3>1
        <4>2. k[n + 1] = g[n + 1]
          BY <2>6, <4>1
        <4>3. k[m] = k[n + 1] \o q[m] /\ g[m] = g[n + 1] \o q[m]
          BY <1>4, <2>4, <4>1
        <4> QED
          BY <4>1, <4>2, <4>3
      <3>2. n + 1 \in Nat
        OBVIOUS
      <3> QED
        BY <3>1, <3>2
    <2>7. Nat \subseteq Same
      <3> HIDE DEF Same
      <3> QED
        BY <2>5, <2>6, EveryNatural
    <2>8. PICK m \in Nat : m + 1 = L
      <3>1. L - 1 \in Nat /\ (L - 1) + 1 = L
        BY <1>6
      <3> QED
        BY <3>1
    <2>9. k[L] = g[L]
      <3>1. m \in Same /\ m + 1 <= L
        BY <2>7, <2>8
      <3> QED
        BY <2>8, <3>1
    <2> QED
      BY <1>1, <1>2, <2>3, <2>9 DEF Reaches
  <1> QED
    BY <1>5, <1>6

LEMMA FlattenEmpty == FlattenSeq(<<>>) = <<>>
  BY EmptySeq DEF FlattenSeq

LEMMA FlattenType ==
  ASSUME NEW V, NEW q \in Seq(Seq(V))
  PROVE  FlattenSeq(q) \in Seq(V)
  <1>1. <<>> \in Seq(V) /\ FlatFcn(V) \in Stepper(Seq(V), Seq(V))
    BY EmptySeq, FlatFcnType
  <1>2. Reaches(FlattenSeq(q), Seq(V), <<>>, FlatFcn(V), q, Len(q))
    BY FlattenChain
  <1> QED
    BY <1>1, <1>2, ReachesIn

LEMMA FlattenAppend ==
  ASSUME NEW V, NEW q \in Seq(Seq(V)), NEW e \in Seq(V)
  PROVE  FlattenSeq(Append(q, e)) = FlattenSeq(q) \o e
  <1> DEFINE F == FlatFcn(V)
  <1>1. <<>> \in Seq(V) /\ F \in Stepper(Seq(V), Seq(V)) /\ Append(q, e) \in Seq(Seq(V))
    BY EmptySeq, FlatFcnType, AppendProperties
  <1>2. Reaches(FlattenSeq(q), Seq(V), <<>>, F, q, Len(q))
    BY FlattenChain
  <1>3. Reaches(FlattenSeq(Append(q, e)), Seq(V), <<>>, F, Append(q, e), Len(Append(q, e)))
    BY <1>1, FlattenChain
  <1>4. ReachesBoth(FlattenSeq(q), FlattenSeq(Append(q, e)), Seq(V), <<>>, F, q, e)
    BY <1>2, <1>3 DEF ReachesBoth
  <1>5. Goes(F, FlattenSeq(q), e, FlattenSeq(Append(q, e)))
    BY <1>1, <1>4, ReachesNext
  <1>6. FlattenSeq(q) \in Seq(V)
    BY FlattenType
  <1> QED
    BY <1>5, <1>6, FlatFcnType DEF Goes

-----------------------------------------------------------------------------
(* One sequence inside another.                                            *)

HasPart(V, q, f) == \E a, b \in Seq(V) : q = (a \o f) \o b

LEMMA MoreHasPart ==
  ASSUME NEW V, NEW q \in Seq(V), NEW e \in Seq(V), NEW f \in Seq(V), HasPart(V, q, f)
  PROVE  HasPart(V, q \o e, f)
  <1>1. PICK a \in Seq(V), b \in Seq(V) : q = (a \o f) \o b
    BY DEF HasPart
  <1>2. PICK y \in Seq(V) : y = a \o f
    BY ConcatProperties
  <1>3. (y \o b) \o e = y \o (b \o e)
    BY ConcatAssociative, SMTT(30)
  <1>4. b \o e \in Seq(V)
    BY ConcatProperties
  <1> QED
    BY <1>1, <1>2, <1>3, <1>4 DEF HasPart

LEMMA HasPartAt ==
  ASSUME NEW V, NEW q \in Seq(V), NEW f \in Seq(V), f # <<>>, HasPart(V, q, f)
  PROVE  \E j \in DOMAIN q : IsPrefix(f, SubSeq(q, j, Len(q)))
  <1>1. f \in Seq(V) /\ f # <<>>
    OBVIOUS
  <1>2. PICK a \in Seq(V), b \in Seq(V) : q = (a \o f) \o b
    BY DEF HasPart
  <1>3. PICK t \in Seq(V) : t = f \o b
    BY <1>1, ConcatProperties
  <1>4. q = a \o t
    BY <1>1, <1>2, <1>3, ConcatAssociative, SMTT(60)
  <1>5. PICK A \in Nat, F \in Nat, B \in Nat : A = Len(a) /\ F = Len(f) /\ B = Len(b)
    BY <1>1, LenProperties
  <1>6. F >= 1
    BY <1>1, <1>5, EmptySeq
  <1>7. Len(t) = F + B /\ Len(q) = A + F + B /\ DOMAIN q = 1 .. A + F + B
    <2>1. Len(t) = F + B
      BY <1>1, <1>3, <1>5, ConcatProperties
    <2>2. Len(q) = A + Len(t)
      BY <1>4, <1>5, ConcatProperties
    <2> QED
      BY <2>1, <2>2, LenProperties
  <1>8. A + 1 \in DOMAIN q
    BY <1>6, <1>7
  <1>9. SubSeq(q, A + 1, Len(q)) = t
    <2>1. PICK T \in Nat : T = F + B /\ T = Len(t) /\ T >= 1
      BY <1>6, <1>7
    <2>2. SubSeq(a \o t, A + 1, A + T) = SubSeq(t, (A + 1) - A, (A + T) - A)
      BY <1>5, <2>1, SubSeqOfConcat2
    <2>3. (A + 1) - A = 1 /\ (A + T) - A = T /\ Len(q) = A + T
      BY <1>7, <2>1
    <2>4. SubSeq(t, 1, T) = t
      BY <2>1, SubSeqFull
    <2> QED
      BY <1>4, <2>2, <2>3, <2>4
  <1>10. IsPrefix(f, t)
    <2>1. Len(f) <= Len(t)
      BY <1>5, <1>7
    <2>2. SubSeq(f \o b, 1, F) = SubSeq(f, 1, F)
      BY <1>1, <1>5, <1>6, SubSeqOfConcat1
    <2> QED
      BY <1>3, <1>5, <2>1, <2>2 DEF IsPrefix
  <1> QED
    BY <1>8, <1>9, <1>10

-----------------------------------------------------------------------------
(* Minima, and what stands before and after an element.                    *)

LEMMA MinIs ==
  ASSUME NEW S, S \subseteq Nat, NEW m \in S, \A y \in S : m <= y
  PROVE  Min(S) = m
  <1>1. Min(S) \in S /\ \A y \in S : Min(S) <= y
    BY DEF Min
  <1>2. PICK x : x = Min(S)
    OBVIOUS
  <1>3. x \in S /\ \A y \in S : x <= y
    BY <1>1, <1>2
  <1>4. x = m
    BY <1>3
  <1> QED
    BY <1>2, <1>4

LEMMA MinBelongs ==
  ASSUME NEW S, S \subseteq Nat, S # {}
  PROVE  Min(S) \in S /\ \A y \in S : Min(S) <= y
  <1>1. PICK m \in S : \A y \in S : m <= y
    BY LeastNatural
  <1>2. Min(S) = m
    BY <1>1, MinIs
  <1> QED
    BY <1>1, <1>2

LEMMA SubSeqType ==
  ASSUME NEW V, NEW q \in Seq(V), NEW m \in Nat \ {0}, NEW n \in Nat, n <= Len(q)
  PROVE  /\ SubSeq(q, m, n) \in Seq(V)
         /\ Len(SubSeq(q, m, n)) = IF m <= n THEN n - m + 1 ELSE 0
         /\ \A i \in 1 .. n - m + 1 : SubSeq(q, m, n)[i] = q[m + i - 1]
  <1>1. PICK L \in Nat : L = Len(q)
    BY LenProperties
  <1>2. \A i \in m .. n : i \in 1 .. L
    BY <1>1
  <1>3. \A i \in m .. n : q[i] \in V
    BY <1>1, <1>2, ElementOfSeq
  <1>4. m \in Int /\ n \in Int
    OBVIOUS
  <1> QED
    BY <1>3, <1>4, SubSeqProperties

\* k is where e stands in q, with a before it and b after it.
Splits(V, q, a, e, b, k) ==
  /\ q \in Seq(V) /\ k \in 1 .. Len(q) /\ k = Len(a) + 1 /\ Len(q) = k + Len(b)
  /\ \A i \in 1 .. Len(a) : q[i] = a[i]
  /\ q[k] = e /\ \A i \in 1 .. Len(b) : q[k + i] = b[i]
  /\ SubSeq(q, 1, k - 1) = a /\ SubSeq(q, k + 1, Len(q)) = b

LEMMA Around ==
  ASSUME NEW V, NEW a \in Seq(V), NEW e \in V, NEW b \in Seq(V)
  PROVE  Splits(V, (a \o <<e>>) \o b, a, e, b, Len(a) + 1)
  <1>1. PICK A \in Nat, B \in Nat, k \in Nat \ {0} : A = Len(a) /\ B = Len(b) /\ k = A + 1
    <2>1. Len(a) \in Nat /\ Len(b) \in Nat /\ Len(a) + 1 \in Nat \ {0}
      BY LenProperties
    <2> QED
      BY <2>1
  <1>2. PICK u : u = a \o <<e>>
    OBVIOUS
  <1>3. u \in Seq(V) /\ Len(u) = k /\ u[k] = e /\ \A i \in 1 .. A : u[i] = a[i]
    <2>1. u = Append(a, e)
      BY <1>2, AppendIsConcat
    <2> QED
      BY <1>1, <2>1, AppendProperties
  <1>4. PICK q : q = u \o b
    OBVIOUS
  <1>5. /\ q \in Seq(V) /\ Len(q) = k + B
        /\ \A i \in 1 .. k + B : q[i] = IF i <= k THEN u[i] ELSE b[i - k]
    <2>1. /\ u \o b \in Seq(V) /\ Len(u \o b) = Len(u) + Len(b)
          /\ \A i \in 1 .. Len(u) + Len(b) :
               (u \o b)[i] = IF i <= Len(u) THEN u[i] ELSE b[i - Len(u)]
      BY <1>3, ConcatProperties
    <2> QED
      BY <1>1, <1>3, <1>4, <2>1
  <1>6. q[k] = e /\ k \in 1 .. Len(q)
    <2>1. k \in 1 .. k + B
      OBVIOUS
    <2> QED
      BY <1>3, <1>5, <2>1
  <1>7. ASSUME NEW i \in 1 .. B PROVE q[k + i] = b[i]
    <2>1. PICK j \in 1 .. k + B : j = k + i /\ ~ (j <= k) /\ j - k = i
      OBVIOUS
    <2> QED
      BY <1>5, <2>1
  <1>a. ASSUME NEW i \in 1 .. A PROVE q[i] = a[i]
    <2>1. i \in 1 .. k + B /\ i <= k
      BY <1>1
    <2> QED
      BY <1>3, <1>5, <2>1
  <1>8. SubSeq(q, 1, A) = a
    <2>1. /\ SubSeq(q, 1, A) \in Seq(V) /\ Len(SubSeq(q, 1, A)) = A
          /\ \A i \in 1 .. A : SubSeq(q, 1, A)[i] = q[i]
      <3>1. 1 \in Nat \ {0} /\ A <= Len(q)
        BY <1>1, <1>5
      <3>2. /\ SubSeq(q, 1, A) \in Seq(V)
            /\ Len(SubSeq(q, 1, A)) = IF 1 <= A THEN A - 1 + 1 ELSE 0
            /\ \A i \in 1 .. A - 1 + 1 : SubSeq(q, 1, A)[i] = q[1 + i - 1]
        BY <1>5, <3>1, SubSeqType
      <3> QED
        BY <3>2
    <2> QED
      BY <1>1, <1>a, <2>1, SeqEqual
  <1>9. SubSeq(q, k + 1, Len(q)) = b
    <2>1. PICK m \in Nat \ {0}, n \in Nat : m = k + 1 /\ n = k + B /\ n = Len(q)
      BY <1>5
    <2>2. /\ SubSeq(q, m, n) \in Seq(V)
          /\ Len(SubSeq(q, m, n)) = IF m <= n THEN n - m + 1 ELSE 0
          /\ \A i \in 1 .. n - m + 1 : SubSeq(q, m, n)[i] = q[m + i - 1]
      BY <1>5, <2>1, SubSeqType
    <2>3. PICK x \in Seq(V) : x = SubSeq(q, m, n)
      BY <2>2
    <2>4. Len(x) = B /\ \A i \in 1 .. B : x[i] = q[k + i]
      BY <2>1, <2>2, <2>3
    <2>5. x = b
      BY <1>1, <1>7, <2>4, SeqEqual
    <2> QED
      BY <2>1, <2>3, <2>5
  <1>10. k - 1 = A
    BY <1>1
  <1> QED
    BY <1>1, <1>2, <1>4, <1>5, <1>6, <1>7, <1>8, <1>9, <1>10, <1>a DEF Splits

LEMMA SplitAt ==
  ASSUME NEW V, NEW q \in Seq(V), NEW k \in 1 .. Len(q)
  PROVE  /\ SubSeq(q, 1, k - 1) \in Seq(V) /\ SubSeq(q, k + 1, Len(q)) \in Seq(V)
         /\ q = (SubSeq(q, 1, k - 1) \o <<q[k]>>) \o SubSeq(q, k + 1, Len(q))
  <1>1. PICK L \in Nat : L = Len(q)
    BY LenProperties
  <1>2. \A i \in 1 .. L : q[i] \in V
    BY <1>1, ElementOfSeq
  <1>3. SubSeq(q, 1, k - 1) \in Seq(V) /\ SubSeq(q, k + 1, L) \in Seq(V)
    <2>1. k - 1 \in Int /\ k + 1 \in Int /\ L \in Int /\ k - 1 <= L /\ k + 1 >= 1
      BY <1>1
    <2>2. (\A i \in 1 .. k - 1 : q[i] \in V) /\ (\A i \in k + 1 .. L : q[i] \in V)
      BY <1>1, <1>2
    <2> QED
      BY <2>1, <2>2, SubSeqProperties
  <1>4. SubSeq(q, 1, k) = SubSeq(q, 1, k - 1) \o <<q[k]>>
    <2>1. 1 \in 1 .. Len(q) /\ k \in 1 .. Len(q)
      BY <1>1
    <2> QED
      BY <2>1, SubSeqRecursiveSecond
  <1>5. SubSeq(q, 1, k) \o SubSeq(q, k + 1, L) = SubSeq(q, 1, L)
    <2>1. 1 \in 1 .. Len(q) + 1 /\ k \in 1 - 1 .. Len(q) /\ L \in k .. Len(q)
      BY <1>1
    <2> QED
      BY <2>1, ConcatAdjacentSubSeq
  <1>6. SubSeq(q, 1, L) = q
    BY <1>1, SubSeqFull
  <1> QED
    BY <1>1, <1>3, <1>4, <1>5, <1>6

-----------------------------------------------------------------------------
(* Concatenations, grouped to the left.                                    *)

Regrouped(a, b, c, d) ==
  /\ (a \o b) \o (c \o d) = ((a \o b) \o c) \o d
  /\ a \o ((b \o c) \o d) = ((a \o b) \o c) \o d

LEMMA Regroup ==
  ASSUME NEW V, NEW a \in Seq(V), NEW b \in Seq(V), NEW c \in Seq(V), NEW d \in Seq(V)
  PROVE  Regrouped(a, b, c, d)
  <1>1. PICK v \in Seq(V) : v = a \o b
    BY ConcatProperties
  <1>2. (v \o c) \o d = v \o (c \o d)
    BY ConcatAssociative, SMTT(60)
  <1>3. PICK w \in Seq(V) : w = b \o c
    BY ConcatProperties
  <1>4. (a \o w) \o d = a \o (w \o d)
    BY ConcatAssociative, SMTT(60)
  <1>5. (a \o b) \o c = a \o (b \o c)
    BY ConcatAssociative, SMTT(60)
  <1> QED
    BY <1>1, <1>2, <1>3, <1>4, <1>5 DEF Regrouped
=============================================================================
