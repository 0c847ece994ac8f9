----------------------------- MODULE PathProofs -----------------------------
(***************************************************************************)
(* What internal/deploy/safety.go makes of a path, for paths of any length *)
(* and any links.                                                          *)
(***************************************************************************)
EXTENDS PathSafety, SetInduction

Cleaned(abs, q) == Clean([abs |-> abs, segs |-> q])

CleanFcn(abs) == [x \in Seq(Name) \X Name |-> CleanStep(abs, x[1], x[2])]

LEMMA CleanStepType ==
  ASSUME NEW abs \in BOOLEAN, NEW done \in Seq(Name), NEW s \in Name
  PROVE  CleanStep(abs, done, s) \in Seq(Name)
  <1>1. done # <<>> => Front(done) \in Seq(Name)
    BY DEF Front
  <1>2. Append(done, s) \in Seq(Name)
    BY AppendProperties
  <1>3. <<>> \in Seq(Name)
    BY EmptySeq
  <1> QED
    BY <1>1, <1>2, <1>3 DEF CleanStep

LEMMA CleanFcnType ==
  ASSUME NEW abs \in BOOLEAN
  PROVE  /\ CleanFcn(abs) \in Stepper(Seq(Name), Name)
         /\ \A d \in Seq(Name), e \in Name : CleanFcn(abs)[d, e] = CleanStep(abs, d, e)
  <1>1. CleanFcn(abs) \in Stepper(Seq(Name), Name)
    BY CleanStepType DEF CleanFcn, Stepper
  <1>2. \A d \in Seq(Name), e \in Name : CleanFcn(abs)[d, e] = CleanStep(abs, d, e)
    BY DEF CleanFcn
  <1> QED
    BY <1>1, <1>2

LEMMA CleanChain ==
  ASSUME NEW abs \in BOOLEAN, NEW q \in Seq(Name)
  PROVE  Reaches(Cleaned(abs, q), Seq(Name), <<>>, CleanFcn(abs), q, Len(q))
  <1> DEFINE F == CleanFcn(abs)
             P(h) == h = [s \in SUBSET DOMAIN q |->
                            IF s = {} THEN <<>> ELSE CleanStep(abs, h[s \ {Max(s)}], q[Max(s)])]
  <1>1. DOMAIN q = 1 .. Len(q)
    BY LenProperties
  <1>2. <<>> \in Seq(Name)
    BY EmptySeq
  <1>3. /\ F \in Stepper(Seq(Name), Name)
        /\ \A d \in Seq(Name), e \in Name : F[d, e] = CleanStep(abs, d, e)
    BY CleanFcnType
  <1> HIDE DEF F
  <1>4. PICK h : Fits(h, Seq(Name), Name, <<>>, F, q, Len(q))
    BY <1>2, <1>3, FoldFits
  <1>5. P(h)
    BY <1>1, <1>3, <1>4 DEF Fits
  <1>6. PICK k : P(k) /\ Cleaned(abs, q) = k[DOMAIN q]
    <2>1. P(CHOOSE x : P(x))
      BY <1>5, Zenon
    <2>2. Cleaned(abs, q) = (CHOOSE x : P(x))[DOMAIN q]
      BY DEF Cleaned, Clean, FoldLeft, MapThenFoldSet
    <2> QED
      BY <2>1, <2>2, Zenon
  <1>7. IsFold(k, Seq(Name), Name, <<>>, F, q, Len(q))
    BY <1>1, <1>3, <1>6 DEF IsFold
  <1>8. Reaches(k[1 .. Len(q)], Seq(Name), <<>>, F, q, Len(q))
    BY <1>2, <1>3, <1>7, FoldReaches
  <1> QED
    BY <1>1, <1>6, <1>8 DEF F

LEMMA CleanEmpty ==
  ASSUME NEW abs \in BOOLEAN
  PROVE  Cleaned(abs, <<>>) = <<>>
  <1>1. <<>> \in Seq(Name) /\ Len(<<>>) = 0
    BY EmptySeq
  <1>2. CleanFcn(abs) \in Stepper(Seq(Name), Name)
    BY CleanFcnType
  <1>3. Reaches(Cleaned(abs, <<>>), Seq(Name), <<>>, CleanFcn(abs), <<>>, Len(<<>>))
    BY <1>1, CleanChain
  <1>4. Reaches(Cleaned(abs, <<>>), Seq(Name), <<>>, CleanFcn(abs), <<>>, 0)
    BY <1>1, <1>3
  <1> QED
    BY <1>1, <1>2, <1>4, ReachesFirst

LEMMA CleanType ==
  ASSUME NEW abs \in BOOLEAN, NEW q \in Seq(Name)
  PROVE  Cleaned(abs, q) \in Seq(Name)
  <1>1. <<>> \in Seq(Name)
    BY EmptySeq
  <1>2. CleanFcn(abs) \in Stepper(Seq(Name), Name)
    BY CleanFcnType
  <1>3. Reaches(Cleaned(abs, q), Seq(Name), <<>>, CleanFcn(abs), q, Len(q))
    BY CleanChain
  <1> QED
    BY <1>1, <1>2, <1>3, ReachesIn

\* Clean, one segment at a time.
LEMMA CleanAppend ==
  ASSUME NEW abs \in BOOLEAN,
         NEW q \in Seq(Name), NEW e \in Name
  PROVE  Cleaned(abs, Append(q, e)) = CleanStep(abs, Cleaned(abs, q), e)
  <1> DEFINE F == CleanFcn(abs)
  <1>1. /\ F \in Stepper(Seq(Name), Name)
        /\ \A d \in Seq(Name), s \in Name : F[d, s] = CleanStep(abs, d, s)
    BY CleanFcnType
  <1>2. <<>> \in Seq(Name) /\ Append(q, e) \in Seq(Name)
    BY EmptySeq, AppendProperties
  <1>3. Reaches(Cleaned(abs, q), Seq(Name), <<>>, F, q, Len(q))
    BY CleanChain
  <1>4. Reaches(Cleaned(abs, Append(q, e)), Seq(Name), <<>>, F,
                Append(q, e), Len(Append(q, e)))
    BY <1>2, CleanChain
  <1> HIDE DEF F
  <1>5. ReachesBoth(Cleaned(abs, q), Cleaned(abs, Append(q, e)), Seq(Name), <<>>, F, q, e)
    BY <1>3, <1>4 DEF ReachesBoth
  <1>6. Goes(F, Cleaned(abs, q), e, Cleaned(abs, Append(q, e)))
    BY <1>1, <1>2, <1>5, ReachesNext
  <1> QED
    BY <1>1, <1>6, CleanType DEF Goes

-----------------------------------------------------------------------------
(* Walking.                                                                *)

\* A link, if there is one, leads to a place.
WellLinked(links) ==
  \A p \in DOMAIN links : links[p] \in Seq(Name) /\ IsPlace(links[p])

Entered(links, p) == IF p \in DOMAIN links THEN links[p] ELSE p

WalkStep(links, here, s) ==
  CASE s \in {"", "."} -> here
    [] s = ".." -> IF here = <<>> THEN here ELSE Front(here)
    [] OTHER -> Entered(links, Append(here, s))

WalkFcn(links) == [x \in Seq(Name) \X Name |-> WalkStep(links, x[1], x[2])]

LEMMA WalkFcnType ==
  ASSUME NEW links, WellLinked(links)
  PROVE  /\ WalkFcn(links) \in Stepper(Seq(Name), Name)
         /\ \A d \in Seq(Name), e \in Name : WalkFcn(links)[d, e] = WalkStep(links, d, e)
  <1>1. ASSUME NEW here \in Seq(Name), NEW s \in Name
        PROVE  WalkStep(links, here, s) \in Seq(Name)
    <2>1. here # <<>> => Front(here) \in Seq(Name)
      BY DEF Front
    <2>2. Append(here, s) \in Seq(Name)
      BY AppendProperties
    <2>3. Entered(links, Append(here, s)) \in Seq(Name)
      BY <2>2 DEF Entered, WellLinked
    <2> QED
      BY <2>1, <2>3 DEF WalkStep
  <1>2. WalkFcn(links) \in Stepper(Seq(Name), Name)
    BY <1>1 DEF WalkFcn, Stepper
  <1>3. \A d \in Seq(Name), e \in Name : WalkFcn(links)[d, e] = WalkStep(links, d, e)
    BY DEF WalkFcn
  <1> QED
    BY <1>2, <1>3

LEMMA WalkChain ==
  ASSUME NEW links, WellLinked(links), NEW from \in Seq(Name), NEW q \in Seq(Name)
  PROVE  Reaches(Walk(links, from, q), Seq(Name), from, WalkFcn(links), q, Len(q))
  <1> DEFINE F == WalkFcn(links)
             P(h) == h = [s \in SUBSET DOMAIN q |->
                            IF s = {} THEN from ELSE WalkStep(links, h[s \ {Max(s)}], q[Max(s)])]
  <1>1. DOMAIN q = 1 .. Len(q)
    BY LenProperties
  <1>2. from \in Seq(Name)
    BY EmptySeq
  <1>3. /\ F \in Stepper(Seq(Name), Name)
        /\ \A d \in Seq(Name), e \in Name : F[d, e] = WalkStep(links, d, e)
    BY WalkFcnType
  <1> HIDE DEF F
  <1>4. PICK h : Fits(h, Seq(Name), Name, from, F, q, Len(q))
    BY <1>2, <1>3, FoldFits
  <1>5. P(h)
    BY <1>1, <1>3, <1>4 DEF Fits
  <1>6. PICK k : P(k) /\ Walk(links, from, q) = k[DOMAIN q]
    <2>1. P(CHOOSE x : P(x))
      BY <1>5, Zenon
    <2>2. Walk(links, from, q) = (CHOOSE x : P(x))[DOMAIN q]
      BY DEF Walk, WalkStep, Entered, FoldLeft, MapThenFoldSet
    <2> QED
      BY <2>1, <2>2, Zenon
  <1>7. IsFold(k, Seq(Name), Name, from, F, q, Len(q))
    BY <1>1, <1>3, <1>6 DEF IsFold
  <1>8. Reaches(k[1 .. Len(q)], Seq(Name), from, F, q, Len(q))
    BY <1>2, <1>3, <1>7, FoldReaches
  <1> QED
    BY <1>1, <1>6, <1>8 DEF F

LEMMA WalkEmpty ==
  ASSUME NEW links, WellLinked(links), NEW from \in Seq(Name)
  PROVE  Walk(links, from, <<>>) = from
  <1>1. <<>> \in Seq(Name) /\ Len(<<>>) = 0
    BY EmptySeq
  <1>2. WalkFcn(links) \in Stepper(Seq(Name), Name)
    BY WalkFcnType
  <1>3. Reaches(Walk(links, from, <<>>), Seq(Name), from, WalkFcn(links), <<>>, Len(<<>>))
    BY <1>1, WalkChain
  <1>4. Reaches(Walk(links, from, <<>>), Seq(Name), from, WalkFcn(links), <<>>, 0)
    BY <1>1, <1>3
  <1> QED
    BY <1>1, <1>2, <1>4, ReachesFirst

LEMMA WalkType ==
  ASSUME NEW links, WellLinked(links), NEW from \in Seq(Name), NEW q \in Seq(Name)
  PROVE  Walk(links, from, q) \in Seq(Name)
  <1>1. <<>> \in Seq(Name)
    BY EmptySeq
  <1>2. WalkFcn(links) \in Stepper(Seq(Name), Name)
    BY WalkFcnType
  <1>3. Reaches(Walk(links, from, q), Seq(Name), from, WalkFcn(links), q, Len(q))
    BY WalkChain
  <1> QED
    BY <1>1, <1>2, <1>3, ReachesIn

\* Walk, one segment at a time.
LEMMA WalkAppend ==
  ASSUME NEW links, WellLinked(links), NEW from \in Seq(Name),
         NEW q \in Seq(Name), NEW e \in Name
  PROVE  Walk(links, from, Append(q, e)) = WalkStep(links, Walk(links, from, q), e)
  <1> DEFINE F == WalkFcn(links)
  <1>1. /\ F \in Stepper(Seq(Name), Name)
        /\ \A d \in Seq(Name), s \in Name : F[d, s] = WalkStep(links, d, s)
    BY WalkFcnType
  <1>2. <<>> \in Seq(Name) /\ Append(q, e) \in Seq(Name)
    BY EmptySeq, AppendProperties
  <1>3. Reaches(Walk(links, from, q), Seq(Name), from, F, q, Len(q))
    BY WalkChain
  <1>4. Reaches(Walk(links, from, Append(q, e)), Seq(Name), from, F,
                Append(q, e), Len(Append(q, e)))
    BY <1>2, WalkChain
  <1> HIDE DEF F
  <1>5. ReachesBoth(Walk(links, from, q), Walk(links, from, Append(q, e)), Seq(Name), from, F, q, e)
    BY <1>3, <1>4 DEF ReachesBoth
  <1>6. Goes(F, Walk(links, from, q), e, Walk(links, from, Append(q, e)))
    BY <1>1, <1>2, <1>5, ReachesNext
  <1> QED
    BY <1>1, <1>6, WalkType DEF Goes

-----------------------------------------------------------------------------
(* Places.                                                                 *)

LEMMA RootIsPlace == IsPlace(<<>>)
  <1>1. DOMAIN <<>> = {}
    OBVIOUS
  <1> QED
    BY <1>1 DEF IsPlace

LEMMA PlaceAppend ==
  ASSUME NEW d \in Seq(Name), NEW s \in Name
  PROVE  IsPlace(Append(d, s)) <=> IsPlace(d) /\ s \notin {"", ".", ".."}
  <1>1. PICK L \in Nat : L = Len(d) /\ DOMAIN d = 1 .. L
    BY LenProperties
  <1>2. DOMAIN Append(d, s) = 1 .. L + 1
    BY <1>1, DomainAppend
  <1>3. Append(d, s)[L + 1] = s
    BY <1>1, AppendProperties
  <1>4. \A i \in 1 .. L : Append(d, s)[i] = d[i]
    BY <1>1, AppendProperties
  <1>5. ASSUME IsPlace(Append(d, s)) PROVE IsPlace(d) /\ s \notin {"", ".", ".."}
    <2>1. ASSUME NEW i \in 1 .. L + 1 PROVE Append(d, s)[i] \notin {"", ".", ".."}
      BY <1>2, <1>5 DEF IsPlace
    <2>2. s \notin {"", ".", ".."}
      <3>1. L + 1 \in 1 .. L + 1
        OBVIOUS
      <3> QED
        BY <1>3, <2>1, <3>1
    <2>3. ASSUME NEW i \in 1 .. L PROVE d[i] \notin {"", ".", ".."}
      <3>1. i \in 1 .. L + 1
        OBVIOUS
      <3> QED
        BY <1>4, <2>1, <3>1
    <2> QED
      BY <1>1, <2>2, <2>3 DEF IsPlace
  <1>6. ASSUME IsPlace(d), s \notin {"", ".", ".."} PROVE IsPlace(Append(d, s))
    <2>1. ASSUME NEW i \in 1 .. L + 1 PROVE Append(d, s)[i] \notin {"", ".", ".."}
      <3>1. CASE i = L + 1
        BY <1>3, <1>6, <3>1
      <3>2. CASE i # L + 1
        <4>1. i \in 1 .. L
          BY <3>2
        <4> QED
          BY <1>1, <1>4, <1>6, <4>1 DEF IsPlace
      <3> QED
        BY <3>1, <3>2
    <2> QED
      BY <1>2, <2>1 DEF IsPlace
  <1> QED
    BY <1>5, <1>6

LEMMA PlaceFront ==
  ASSUME NEW d \in Seq(Name), IsPlace(d), d # <<>>
  PROVE  Front(d) \in Seq(Name) /\ IsPlace(Front(d)) /\ Last(d) # ".."
  <1>1. PICK x \in Seq(Name), e \in Name : d = Append(x, e) /\ Front(d) = x /\ Last(d) = e
    BY FrontAndLast
  <1> QED
    BY <1>1, PlaceAppend

\* Clean leaves nothing to clean in an absolute path.
LEMMA CleanIsPlace ==
  ASSUME NEW q \in Seq(Name)
  PROVE  Cleaned(TRUE, q) \in Seq(Name) /\ IsPlace(Cleaned(TRUE, q))
  <1> DEFINE P == {x \in Seq(Name) : IsPlace(Cleaned(TRUE, x))}
  <1>1. <<>> \in P
    BY EmptySeq, CleanEmpty, RootIsPlace
  <1>2. ASSUME NEW x \in Seq(Name), NEW e \in Name, x \in P PROVE Append(x, e) \in P
    <2>1. PICK d \in Seq(Name) : d = Cleaned(TRUE, x) /\ IsPlace(d)
      BY <1>2, CleanType
    <2>2. Cleaned(TRUE, Append(x, e)) = CleanStep(TRUE, d, e)
      BY <2>1, CleanAppend
    <2>3. IsPlace(CleanStep(TRUE, d, e))
      BY <2>1, RootIsPlace, PlaceAppend, PlaceFront DEF CleanStep
    <2> QED
      BY <2>2, <2>3, AppendProperties
  <1> HIDE DEF P
  <1>3. q \in P
    BY <1>1, <1>2, EverySequence
  <1> QED
    BY <1>3, CleanType DEF P

\* What path.Clean computes is where one gets to if there are no links (every
\* check of safety.go looks at cleaned paths).
THEOREM CleanIsWalk ==
  ASSUME NEW links, DOMAIN links = {}, NEW q \in Seq(Name)
  PROVE  Walk(links, <<>>, q) = Cleaned(TRUE, q)
  <1> DEFINE P == {x \in Seq(Name) : Walk(links, <<>>, x) = Cleaned(TRUE, x)}
  <1>0. WellLinked(links) /\ <<>> \in Seq(Name)
    BY EmptySeq DEF WellLinked
  <1>1. <<>> \in P
    BY <1>0, CleanEmpty, WalkEmpty
  <1>2. ASSUME NEW x \in Seq(Name), NEW e \in Name, x \in P PROVE Append(x, e) \in P
    <2>1. PICK d \in Seq(Name) : d = Cleaned(TRUE, x) /\ IsPlace(d)
      BY CleanIsPlace
    <2>2. Cleaned(TRUE, Append(x, e)) = CleanStep(TRUE, d, e)
      BY <2>1, CleanAppend
    <2>3. Walk(links, <<>>, Append(x, e)) = WalkStep(links, d, e)
      <3>1. Walk(links, <<>>, x) = d
        BY <1>2, <2>1
      <3>2. Walk(links, <<>>, Append(x, e)) = WalkStep(links, Walk(links, <<>>, x), e)
        BY <1>0, WalkAppend
      <3> QED
        BY <3>1, <3>2
    <2>4. WalkStep(links, d, e) = CleanStep(TRUE, d, e)
      BY <2>1, PlaceFront DEF CleanStep, WalkStep, Entered
    <2> QED
      BY <2>2, <2>3, <2>4, AppendProperties
  <1> HIDE DEF P
  <1>3. q \in P
    BY <1>1, <1>2, EverySequence
  <1> QED
    BY <1>3 DEF P

LEMMA CleanOfPlace ==
  ASSUME NEW q \in Seq(Name), IsPlace(q)
  PROVE  Cleaned(TRUE, q) = q
  <1> DEFINE P == {x \in Seq(Name) : IsPlace(x) => Cleaned(TRUE, x) = x}
  <1>1. <<>> \in P
    BY EmptySeq, CleanEmpty
  <1>2. ASSUME NEW x \in Seq(Name), NEW e \in Name, x \in P PROVE Append(x, e) \in P
    <2>1. Append(x, e) \in Seq(Name)
      BY AppendProperties
    <2>2. ASSUME IsPlace(Append(x, e)) PROVE Cleaned(TRUE, Append(x, e)) = Append(x, e)
      <3>1. IsPlace(x) /\ e \notin {"", ".", ".."}
        BY <2>2, PlaceAppend
      <3>2. Cleaned(TRUE, Append(x, e)) = CleanStep(TRUE, x, e)
        BY <1>2, <3>1, CleanAppend
      <3> QED
        BY <3>1, <3>2 DEF CleanStep
    <2> QED
      BY <2>1, <2>2
  <1> HIDE DEF P
  <1>3. q \in P
    BY <1>1, <1>2, EverySequence
  <1> QED
    BY <1>3 DEF P

\* One always is at a place.
LEMMA WalkIsPlace ==
  ASSUME NEW links, WellLinked(links), NEW from \in Seq(Name), IsPlace(from),
         NEW q \in Seq(Name)
  PROVE  Walk(links, from, q) \in Seq(Name) /\ IsPlace(Walk(links, from, q))
  <1> DEFINE P == {x \in Seq(Name) : IsPlace(Walk(links, from, x))}
  <1>1. <<>> \in P
    BY EmptySeq, WalkEmpty
  <1>2. ASSUME NEW x \in Seq(Name), NEW e \in Name, x \in P PROVE Append(x, e) \in P
    <2>1. PICK d \in Seq(Name) : d = Walk(links, from, x) /\ IsPlace(d)
      BY <1>2, WalkType
    <2>2. Walk(links, from, Append(x, e)) = WalkStep(links, d, e)
      BY <2>1, WalkAppend
    <2>3. IsPlace(WalkStep(links, d, e))
      BY <2>1, PlaceAppend, PlaceFront DEF WalkStep, Entered, WellLinked
    <2> QED
      BY <2>2, <2>3, AppendProperties
  <1> HIDE DEF P
  <1>3. q \in P
    BY <1>1, <1>2, EverySequence
  <1> QED
    BY <1>3, WalkType DEF P

\* To walk on is to walk all of it.
LEMMA WalkConcat ==
  ASSUME NEW links, WellLinked(links), NEW from \in Seq(Name),
         NEW a \in Seq(Name), NEW q \in Seq(Name)
  PROVE  Walk(links, from, a \o q) = Walk(links, Walk(links, from, a), q)
  <1> DEFINE here == Walk(links, from, a)
             P == {x \in Seq(Name) : Walk(links, from, a \o x) = Walk(links, here, x)}
  <1>0. here \in Seq(Name)
    BY WalkType
  <1>1. <<>> \in P
    <2>1. a \o <<>> = a /\ <<>> \in Seq(Name)
      BY ConcatEmptySeq, EmptySeq
    <2>2. Walk(links, here, <<>>) = here
      BY <1>0, WalkEmpty
    <2> QED
      BY <2>1, <2>2
  <1>2. ASSUME NEW x \in Seq(Name), NEW e \in Name, x \in P PROVE Append(x, e) \in P
    <2>1. a \o x \in Seq(Name) /\ Append(x, e) \in Seq(Name)
      BY ConcatProperties, AppendProperties
    <2>2. a \o Append(x, e) = Append(a \o x, e)
      BY ConcatAppend
    <2>3. Walk(links, from, Append(a \o x, e)) = WalkStep(links, Walk(links, from, a \o x), e)
      BY <2>1, WalkAppend
    <2>4. Walk(links, here, Append(x, e)) = WalkStep(links, Walk(links, here, x), e)
      BY <1>0, WalkAppend
    <2>5. Walk(links, from, a \o x) = Walk(links, here, x)
      BY <1>2
    <2>6. Walk(links, from, a \o Append(x, e)) = Walk(links, here, Append(x, e))
      BY <2>2, <2>3, <2>4, <2>5
    <2> QED
      BY <2>1, <2>6
  <1> HIDE DEF P
  <1>3. q \in P
    BY <1>1, <1>2, EverySequence
  <1> QED
    BY <1>3 DEF P

NoDotDot(q) == \A i \in DOMAIN q : q[i] # ".."

LEMMA NoDotDotAppend ==
  ASSUME NEW d \in Seq(Name), NEW s \in Name, NoDotDot(Append(d, s))
  PROVE  NoDotDot(d) /\ s # ".."
  <1>1. PICK L \in Nat : L = Len(d) /\ DOMAIN d = 1 .. L
    BY LenProperties
  <1>2. DOMAIN Append(d, s) = 1 .. L + 1
    BY <1>1, DomainAppend
  <1>3. Append(d, s)[L + 1] = s
    BY <1>1, AppendProperties
  <1>4. \A i \in 1 .. L : Append(d, s)[i] = d[i] /\ i \in 1 .. L + 1
    BY <1>1, AppendProperties
  <1>5. s # ".."
    <2>1. L + 1 \in 1 .. L + 1
      OBVIOUS
    <2> QED
      BY <1>2, <1>3, <2>1 DEF NoDotDot
  <1>6. ASSUME NEW i \in 1 .. L PROVE d[i] # ".."
    BY <1>2, <1>4 DEF NoDotDot
  <1> QED
    BY <1>1, <1>5, <1>6 DEF NoDotDot

\* Without "..", the clean path leads where the path leads, whatever the links:
\* validateTargetPath may judge one and the deploy use the other.
THEOREM CleanLeadsThere ==
  ASSUME NEW links, WellLinked(links), NEW q \in Seq(Name), NoDotDot(q)
  PROVE  Walk(links, <<>>, Cleaned(TRUE, q)) = Walk(links, <<>>, q)
  <1> DEFINE P == {x \in Seq(Name) :
                     NoDotDot(x) => Walk(links, <<>>, Cleaned(TRUE, x)) = Walk(links, <<>>, x)}
  <1>0. <<>> \in Seq(Name)
    BY EmptySeq
  <1>1. <<>> \in P
    <2>1. Cleaned(TRUE, <<>>) = <<>>
      BY CleanEmpty
    <2> QED
      BY <1>0, <2>1
  <1>2. ASSUME NEW x \in Seq(Name), NEW e \in Name, x \in P PROVE Append(x, e) \in P
    <2>1. Append(x, e) \in Seq(Name)
      BY AppendProperties
    <2>2. ASSUME NoDotDot(Append(x, e))
          PROVE  Walk(links, <<>>, Cleaned(TRUE, Append(x, e))) = Walk(links, <<>>, Append(x, e))
      <3>1. NoDotDot(x) /\ e # ".."
        BY <2>2, NoDotDotAppend
      <3>2. PICK d \in Seq(Name) : d = Cleaned(TRUE, x)
        BY CleanType
      <3>3. PICK here \in Seq(Name) : here = Walk(links, <<>>, x)
        BY <1>0, WalkType
      <3>4. Walk(links, <<>>, d) = here
        BY <1>2, <3>1, <3>2, <3>3
      <3>5. Cleaned(TRUE, Append(x, e)) = CleanStep(TRUE, d, e)
        BY <3>2, CleanAppend
      <3>6. Walk(links, <<>>, Append(x, e)) = WalkStep(links, here, e)
        BY <1>0, <3>3, WalkAppend
      <3>7. CASE e \in {"", "."}
        BY <3>4, <3>5, <3>6, <3>7 DEF CleanStep, WalkStep
      <3>8. CASE e \notin {"", "."}
        <4>1. CleanStep(TRUE, d, e) = Append(d, e)
          BY <3>1, <3>8 DEF CleanStep
        <4>2. Walk(links, <<>>, Append(d, e)) = WalkStep(links, Walk(links, <<>>, d), e)
          BY <1>0, WalkAppend
        <4> QED
          BY <3>4, <3>5, <3>6, <4>1, <4>2
      <3> QED
        BY <3>7, <3>8
    <2> QED
      BY <2>1, <2>2
  <1> HIDE DEF P
  <1>3. q \in P
    BY <1>1, <1>2, EverySequence
  <1> QED
    BY <1>3 DEF P

-----------------------------------------------------------------------------
(* The paths of an artifact.                                               *)

LEMMA AbsoluteClean ==
  ASSUME NEW p \in Paths, p.abs
  PROVE  Clean(p) = Cleaned(TRUE, p.segs) /\ p.segs \in Seq(Name)
  <1>1. p = [abs |-> TRUE, segs |-> p.segs] /\ p.segs \in Seq(Name)
    BY DEF Paths
  <1> QED
    BY <1>1 DEF Cleaned

LEMMA AtClean ==
  ASSUME NEW q \in Seq(Name), IsPlace(q)
  PROVE  Clean(At(q)) = q
  <1>1. Clean(At(q)) = Cleaned(TRUE, q)
    BY DEF At, Cleaned
  <1> QED
    BY <1>1, CleanOfPlace

LEMMA OtherSegments ==
  ASSUME NEW p \in Paths, NEW x \in Seq(Name)
  PROVE  [p EXCEPT !.segs = x] = [abs |-> p.abs, segs |-> x]
  BY DEF Paths

LEMMA PathIsRecord ==
  ASSUME NEW p \in Paths
  PROVE  p.abs \in BOOLEAN /\ p.segs \in Seq(Name) /\ Clean(p) = Cleaned(p.abs, p.segs)
  <1>1. p = [abs |-> p.abs, segs |-> p.segs] /\ p.segs \in Seq(Name) /\ p.abs \in BOOLEAN
    BY DEF Paths
  <1> QED
    BY <1>1 DEF Cleaned

\* The last segment is one name more, or nothing.
LEMMA LastSegment ==
  ASSUME NEW abs \in BOOLEAN, NEW x \in Seq(Name), NEW e \in Name, e # ".."
  PROVE  \/ Cleaned(abs, Append(x, e)) = Cleaned(abs, x)
         \/ /\ Cleaned(abs, Append(x, e)) # <<>>
            /\ Front(Cleaned(abs, Append(x, e))) = Cleaned(abs, x)
  <1>1. PICK d \in Seq(Name) : d = Cleaned(abs, x)
    BY CleanType
  <1>2. Cleaned(abs, Append(x, e)) = CleanStep(abs, d, e)
    BY <1>1, CleanAppend
  <1>3. CASE e \in {"", "."}
    BY <1>1, <1>2, <1>3 DEF CleanStep
  <1>4. CASE e \notin {"", "."}
    <2>1. CleanStep(abs, d, e) = Append(d, e)
      BY <1>4 DEF CleanStep
    <2>2. Front(Append(d, e)) = d
      BY FrontAppend
    <2>3. Append(d, e) # <<>>
      BY AppendProperties
    <2> QED
      BY <1>1, <1>2, <2>1, <2>2, <2>3
  <1> QED
    BY <1>3, <1>4

\* The directory a war clears is the one that was checked, unless the path ends
\* in a slash or a dot: then it is the path itself, which was checked as well
\* (validateRequest and warStrategy.Apply).
THEOREM ParentsAgree ==
  ASSUME NEW p \in Paths, NoDotDot(p.segs)
  PROVE  ClearedParent(p) \in {Clean(p), CheckedParent(p)}
  <1>1. p.segs \in Seq(Name) /\ Clean(p) = Cleaned(p.abs, p.segs)
    BY PathIsRecord
  <1>2. CASE p.segs = <<>>
    <2>1. [p EXCEPT !.segs = IF @ = <<>> THEN @ ELSE Front(@)] = p
      BY <1>2 DEF Paths
    <2> QED
      BY <2>1 DEF ClearedParent
  <1>3. CASE p.segs # <<>>
    <2>1. PICK x \in Seq(Name), e \in Name : p.segs = Append(x, e) /\ Front(p.segs) = x
      BY <1>1, <1>3, FrontAndLast
    <2>2. [p EXCEPT !.segs = IF @ = <<>> THEN @ ELSE Front(@)] = [p EXCEPT !.segs = x]
      BY <1>3, <2>1
    <2>3. ClearedParent(p) = Cleaned(p.abs, x)
      BY <2>2, OtherSegments DEF ClearedParent, Cleaned
    <2>4. e # ".."
      BY <2>1, NoDotDotAppend
    <2>5. \/ Cleaned(p.abs, p.segs) = Cleaned(p.abs, x)
          \/ /\ Cleaned(p.abs, p.segs) # <<>>
             /\ Front(Cleaned(p.abs, p.segs)) = Cleaned(p.abs, x)
      BY <2>1, <2>4, LastSegment, PathIsRecord
    <2> QED
      BY <1>1, <2>3, <2>5 DEF CheckedParent
  <1> QED
    BY <1>2, <1>3
=============================================================================
