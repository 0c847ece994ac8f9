---------------------------- MODULE RequestProofs ----------------------------
(***************************************************************************)
(* Proofs about one request, from the configuration and the annotations to *)
(* paths, units, commands and references: for paths, commands and names of *)
(* any length, and any links and roots. What the operators compute is had  *)
(* by induction with sets (module SetInduction); the invariant below says  *)
(* what each check has let through by the time its result is used.         *)
(***************************************************************************)
EXTENDS Request, PathProofs, FiniteSetTheorems

-----------------------------------------------------------------------------
(* The words of a command, for commands of any length.                     *)

Words == Seq(Name) \ {<<>>}

Readers == [words : Seq(Words), cur : Seq(Name), open : {"none", SQ, DQ}]

LEMMA FlushType ==
  ASSUME NEW r \in Readers
  PROVE  Flush(r) \in Readers
  <1>1. r.words \in Seq(Words) /\ r.cur \in Seq(Name) /\ r.open \in {"none", SQ, DQ}
    BY DEF Readers
  <1>2. r.cur # <<>> => Append(r.words, r.cur) \in Seq(Words)
    BY <1>1, AppendProperties DEF Words
  <1>3. ASSUME NEW w \in Seq(Words)
        PROVE  [r EXCEPT !.words = w, !.cur = <<>>] \in Readers
    BY EmptySeq DEF Readers
  <1>4. CASE r.cur = <<>>
    <2>1. Flush(r) = [r EXCEPT !.words = r.words, !.cur = <<>>]
      BY <1>4, Zenon DEF Flush
    <2> QED
      BY <1>1, <1>3, <2>1
  <1>5. CASE r.cur # <<>>
    <2>1. Flush(r) = [r EXCEPT !.words = Append(r.words, r.cur), !.cur = <<>>]
      BY <1>5, Zenon DEF Flush
    <2> QED
      BY <1>2, <1>3, <1>5, <2>1
  <1> QED
    BY <1>4, <1>5

LEMMA ReadCharType ==
  ASSUME NEW r \in Readers, NEW c \in Name
  PROVE  ReadChar(r, c) \in Readers
  <1>1. r.words \in Seq(Words) /\ r.cur \in Seq(Name) /\ r.open \in {"none", SQ, DQ}
    BY DEF Readers
  <1>2. c \in {SQ, DQ} => [r EXCEPT !.open = IF @ = c THEN "none" ELSE c] \in Readers
    BY <1>1 DEF Readers
  <1>3. [r EXCEPT !.cur = Append(@, c)] \in Readers
    BY <1>1, AppendProperties DEF Readers
  <1> QED
    BY <1>2, <1>3, FlushType DEF ReadChar

ReadFcn == [x \in Readers \X Name |-> ReadChar(x[1], x[2])]

LEMMA ReadAllType ==
  ASSUME NEW s \in Seq(Name)
  PROVE  ReadAll(s) \in Readers
  <1> DEFINE P(h) == h = [t \in SUBSET DOMAIN s |->
                            IF t = {} THEN Reader ELSE ReadChar(h[t \ {Max(t)}], s[Max(t)])]
  <1>1. DOMAIN s = 1 .. Len(s)
    BY LenProperties
  <1>2. Reader \in Readers
    BY EmptySeq DEF Reader, Readers
  <1>3. /\ ReadFcn \in Stepper(Readers, Name)
        /\ \A r \in Readers, c \in Name : ReadFcn[r, c] = ReadChar(r, c)
    BY ReadCharType DEF ReadFcn, Stepper
  <1>4. PICK h : Fits(h, Readers, Name, Reader, ReadFcn, s, Len(s))
    BY <1>2, <1>3, FoldFits
  <1>5. P(h)
    BY <1>1, <1>3, <1>4 DEF Fits
  <1>6. PICK k : P(k) /\ ReadAll(s) = k[DOMAIN s]
    <2>1. P(CHOOSE x : P(x))
      BY <1>5, Zenon
    <2>2. ReadAll(s) = (CHOOSE x : P(x))[DOMAIN s]
      BY DEF ReadAll, FoldLeft, MapThenFoldSet
    <2> QED
      BY <2>1, <2>2, Zenon
  <1>7. IsFold(k, Readers, Name, Reader, ReadFcn, s, Len(s))
    BY <1>1, <1>3, <1>6 DEF IsFold
  <1>8. Reaches(k[1 .. Len(s)], Readers, Reader, ReadFcn, s, Len(s))
    BY <1>2, <1>3, <1>7, FoldReaches
  <1>9. Reaches(ReadAll(s), Readers, Reader, ReadFcn, s, Len(s))
    BY <1>1, <1>6, <1>8
  <1> QED
    BY <1>2, <1>3, <1>9, ReachesIn

\* No word of a command is empty.
LEMMA WordsAreWords ==
  ASSUME NEW s \in Seq(Name)
  PROVE  parseShellCommand(s) \in Seq(Words)
  BY ReadAllType, FlushType DEF parseShellCommand, Readers

-----------------------------------------------------------------------------
(* Putting the file in, for words of any length.                           *)

PieceOf(c, file) == IF c = Placeholder THEN file ELSE <<c>>

Pieces(word, file) == [i \in DOMAIN word |-> PieceOf(word[i], file)]

LEMMA PutInPieces ==
  ASSUME NEW w, NEW file
  PROVE  PutIn(w, file) = FlattenSeq(Pieces(w, file))
  BY DEF PutIn, Pieces, PieceOf

LEMMA PiecesType ==
  ASSUME NEW w \in Seq(Name), NEW file \in Words
  PROVE  Pieces(w, file) \in Seq(Seq(Name))
  <1>1. PICK L \in Nat : L = Len(w) /\ DOMAIN w = 1 .. L
    BY LenProperties
  <1>2. ASSUME NEW i \in 1 .. L PROVE PieceOf(w[i], file) \in Seq(Name)
    <2>1. w[i] \in Name
      BY <1>1, ElementOfSeq
    <2> QED
      BY <2>1 DEF PieceOf, Words
  <1>3. Pieces(w, file) \in [1 .. L -> Seq(Name)]
    BY <1>1, <1>2 DEF Pieces
  <1> QED
    BY <1>3

LEMMA PiecesAppend ==
  ASSUME NEW w \in Seq(Name), NEW c \in Name, NEW file \in Words
  PROVE  Pieces(Append(w, c), file) = Append(Pieces(w, file), PieceOf(c, file))
  <1>1. PICK L \in Nat : L = Len(w) /\ DOMAIN w = 1 .. L
    BY LenProperties
  <1>2. DOMAIN Append(w, c) = 1 .. L + 1
    BY <1>1, DomainAppend
  <1>3. /\ \A i \in 1 .. L : Append(w, c)[i] = w[i]
        /\ Append(w, c)[L + 1] = c
    BY <1>1, AppendProperties
  <1>4. Pieces(w, file) \in Seq(Seq(Name)) /\ PieceOf(c, file) \in Seq(Name)
    BY PiecesType DEF PieceOf, Words
  <1>5. DOMAIN Pieces(w, file) = 1 .. L /\ Len(Pieces(w, file)) = L
    <2>1. DOMAIN Pieces(w, file) = 1 .. L
      BY <1>1 DEF Pieces
    <2> QED
      BY <1>4, <2>1, LenProperties
  <1>6. /\ DOMAIN Append(Pieces(w, file), PieceOf(c, file)) = 1 .. L + 1
        /\ \A i \in 1 .. L : Append(Pieces(w, file), PieceOf(c, file))[i] = Pieces(w, file)[i]
        /\ Append(Pieces(w, file), PieceOf(c, file))[L + 1] = PieceOf(c, file)
    BY <1>4, <1>5, AppendProperties, DomainAppend
  <1>7. \A i \in 1 .. L : Pieces(w, file)[i] = PieceOf(w[i], file)
    BY <1>1 DEF Pieces
  <1>8. DOMAIN Pieces(Append(w, c), file) = 1 .. L + 1
    BY <1>2 DEF Pieces
  <1>9. \A i \in 1 .. L + 1 :
          Pieces(Append(w, c), file)[i] = Append(Pieces(w, file), PieceOf(c, file))[i]
    <2>1. \A i \in 1 .. L + 1 : Pieces(Append(w, c), file)[i] = PieceOf(Append(w, c)[i], file)
      BY <1>2 DEF Pieces
    <2>2. \A i \in 1 .. L + 1 : i \in 1 .. L \/ i = L + 1
      OBVIOUS
    <2> QED
      BY <1>3, <1>6, <1>7, <2>1, <2>2
  <1>10. Append(w, c) \in Seq(Name)
    BY AppendProperties
  <1>11. /\ Pieces(Append(w, c), file) \in Seq(Seq(Name))
         /\ Append(Pieces(w, file), PieceOf(c, file)) \in Seq(Seq(Name))
    BY <1>4, <1>10, PiecesType, AppendProperties
  <1> QED
    BY <1>6, <1>8, <1>9, <1>11, SeqEqual

LEMMA PutInAppend ==
  ASSUME NEW w \in Seq(Name), NEW c \in Name, NEW file \in Words
  PROVE  /\ PutIn(w, file) \in Seq(Name) /\ PieceOf(c, file) \in Words
         /\ PutIn(Append(w, c), file) = PutIn(w, file) \o PieceOf(c, file)
  <1>1. PieceOf(c, file) \in Words
    BY DEF PieceOf, Words
  <1>2. Pieces(w, file) \in Seq(Seq(Name)) /\ PieceOf(c, file) \in Seq(Name)
    BY <1>1, PiecesType DEF Words
  <1>3. FlattenSeq(Append(Pieces(w, file), PieceOf(c, file)))
          = FlattenSeq(Pieces(w, file)) \o PieceOf(c, file)
    BY <1>2, FlattenAppend
  <1> QED
    BY <1>1, <1>2, <1>3, FlattenType, PutInPieces, PiecesAppend

PutWell(w, file) ==
  /\ w # <<>> => PutIn(w, file) # <<>>
  /\ Placeholder \in ToSet(w) => HasPart(Name, PutIn(w, file), file)

LEMMA ToSetAppend ==
  ASSUME NEW w \in Seq(Name), NEW c \in Name, NEW x \in ToSet(Append(w, c))
  PROVE  x \in ToSet(w) \/ x = c
  <1>1. PICK L \in Nat : L = Len(w) /\ DOMAIN w = 1 .. L
    BY LenProperties
  <1>2. DOMAIN Append(w, c) = 1 .. L + 1
    BY <1>1, DomainAppend
  <1>3. PICK i \in 1 .. L + 1 : x = Append(w, c)[i]
    BY <1>2 DEF ToSet
  <1>4. i \in 1 .. L \/ i = L + 1
    OBVIOUS
  <1>5. (i \in 1 .. L => x = w[i]) /\ (i = L + 1 => x = c)
    BY <1>1, <1>3, AppendProperties
  <1> QED
    BY <1>1, <1>4, <1>5 DEF ToSet

\* Nothing is lost: a word keeps a character for each of its own, and the
\* whole path for each placeholder.
LEMMA PutInWell ==
  ASSUME NEW file \in Words, NEW w \in Seq(Name)
  PROVE  PutWell(w, file)
  <1> DEFINE P == {x \in Seq(Name) : PutWell(x, file)}
  <1>1. <<>> \in P
    <2>1. ToSet(<<>>) = {} /\ <<>> \in Seq(Name)
      BY EmptySeq DEF ToSet
    <2> QED
      BY <2>1 DEF PutWell
  <1>2. ASSUME NEW x \in Seq(Name), NEW c \in Name, x \in P PROVE Append(x, c) \in P
    <2>1. PICK d \in Seq(Name) : d = PutIn(x, file)
      BY PutInAppend
    <2>2. PICK e \in Words : e = PieceOf(c, file) /\ PutIn(Append(x, c), file) = d \o e
      <3>1. PieceOf(c, file) \in Words
        BY PutInAppend
      <3>2. PutIn(Append(x, c), file) = PutIn(x, file) \o PieceOf(c, file)
        BY PutInAppend
      <3> QED
        BY <2>1, <3>1, <3>2
    <2>3. e \in Seq(Name) /\ e # <<>>
      BY DEF Words
    <2>4. d \o e # <<>>
      BY <2>3, ConcatEqualIffEmpty
    <2>5. ASSUME Placeholder \in ToSet(x) PROVE HasPart(Name, d \o e, file)
      <3>1. HasPart(Name, d, file) /\ file \in Seq(Name)
        BY <1>2, <2>1, <2>5 DEF PutWell, Words
      <3> QED
        BY <2>3, <3>1, MoreHasPart
    <2>6. ASSUME c = Placeholder PROVE HasPart(Name, d \o e, file)
      <3>1. e = file
        BY <2>2, <2>6 DEF PieceOf
      <3>2. d \o e \in Seq(Name) /\ <<>> \in Seq(Name)
        BY <2>3, ConcatProperties, EmptySeq
      <3>3. (d \o e) \o <<>> = d \o e
        BY <3>2, ConcatEmptySeq
      <3>4. d \o e = (d \o file) \o <<>>
        BY <3>1, <3>3
      <3> QED
        BY <3>2, <3>4 DEF HasPart
    <2>7. Placeholder \in ToSet(Append(x, c)) => HasPart(Name, d \o e, file)
      BY <2>5, <2>6, ToSetAppend
    <2>8. Append(x, c) \in Seq(Name)
      BY AppendProperties
    <2> QED
      BY <2>2, <2>4, <2>7, <2>8 DEF PutWell
  <1> HIDE DEF P
  <1>3. w \in P
    BY <1>1, <1>2, EverySequence
  <1> QED
    BY <1>3 DEF P

LEMMA FileIsWord == FileChars \in Words
  BY RequestAssumption DEF Words

LEMMA ArgvWords ==
  ASSUME NEW s \in Seq(Name), NEW i \in DOMAIN Argv(s, FileChars)
  PROVE  /\ i \in DOMAIN parseShellCommand(s) /\ parseShellCommand(s)[i] \in Words
         /\ Argv(s, FileChars)[i] = PutIn(parseShellCommand(s)[i], FileChars)
         /\ PutWell(parseShellCommand(s)[i], FileChars)
  <1>1. PICK words \in Seq(Words) : words = parseShellCommand(s)
    BY WordsAreWords
  <1>2. /\ i \in DOMAIN words
        /\ Argv(s, FileChars)[i] = PutIn(words[i], FileChars)
    BY <1>1 DEF Argv, applyTemplate
  <1>3. words[i] \in Words
    BY <1>1, <1>2, LenProperties, ElementOfSeq
  <1>4. PutWell(words[i], FileChars)
    <2>1. words[i] \in Seq(Name)
      BY <1>3 DEF Words
    <2> QED
      BY <2>1, FileIsWord, PutInWell
  <1> QED
    BY <1>1, <1>2, <1>3, <1>4

-----------------------------------------------------------------------------
(* References, read back: internal/config and internal/registry.           *)

\* The names, and what is written between them.
Letters == Name \union {Colon, Slash, "latest"}

LEMMA Separators ==
  /\ Colon \in Letters /\ Slash \in Letters /\ "latest" \in Letters /\ Colon # "latest"
  /\ <<Colon>> \in Seq(Letters) /\ <<Slash>> \in Seq(Letters) /\ <<"latest">> \in Seq(Letters)
  <1>1. Colon \in Letters /\ Slash \in Letters /\ "latest" \in Letters
    BY DEF Letters
  <1>2. Colon # "latest"
    BY DEF Colon
  <1> QED
    BY <1>1, <1>2, Single

LEMMA NamesAreLetters == Seq(Name) \subseteq Seq(Letters)
  <1>1. Name \subseteq Letters
    BY DEF Letters
  <1> QED
    BY <1>1

NoColon(s)  == Places(s, Colon) = {}
OneColon(s) == \A i, j \in Places(s, Colon) : i = j

LEMMA PlacesAre ==
  ASSUME NEW s \in Seq(Letters), NEW c
  PROVE  Places(s, c) \subseteq Nat /\ \A i \in Places(s, c) : i \in 1 .. Len(s) /\ s[i] = c
  BY LenProperties DEF Places

LEMMA FirstPlace ==
  ASSUME NEW s \in Seq(Letters), NEW c, NEW i \in 1 .. Len(s), s[i] = c
  PROVE  /\ IndexOf(s, c) \in 1 .. Len(s) /\ IndexOf(s, c) <= i
         /\ s[IndexOf(s, c)] = c
  <1>1. i \in Places(s, c)
    BY LenProperties DEF Places
  <1>2. Min(Places(s, c)) \in Places(s, c) /\ Min(Places(s, c)) <= i
    BY <1>1, PlacesAre, MinBelongs
  <1> QED
    BY <1>1, <1>2, PlacesAre DEF IndexOf

\* A tag without a colon stands behind the last one.
LEMMA LastPlace ==
  ASSUME NEW u \in Seq(Letters), NEW tag \in Seq(Letters), NoColon(tag)
  PROVE  LastIndexOf((u \o <<Colon>>) \o tag, Colon) = Len(u) + 1
  <1>1. PICK q : q = (u \o <<Colon>>) \o tag
    OBVIOUS
  <1>2. PICK k \in Nat : k = Len(u) + 1
    BY LenProperties
  <1>3. Splits(Letters, q, u, Colon, tag, k)
    BY <1>1, <1>2, Separators, Around
  <1>4. q \in Seq(Letters) /\ k \in Places(q, Colon)
    BY <1>3, LenProperties DEF Splits, Places
  <1>5. ASSUME NEW y \in Places(q, Colon) PROVE k >= y
    <2>1. y \in 1 .. Len(q) /\ q[y] = Colon
      BY <1>4, PlacesAre
    <2>2. ASSUME y > k PROVE FALSE
      <3>1. PICK T \in Nat : T = Len(tag) /\ Len(q) = k + T
        BY <1>3, LenProperties DEF Splits
      <3>2. PICK i \in 1 .. T : y = k + i
        <4>1. y - k \in 1 .. T /\ y = k + (y - k)
          BY <2>1, <2>2, <3>1
        <4> QED
          BY <4>1
      <3>3. tag[i] = Colon
        BY <1>3, <2>1, <3>1, <3>2 DEF Splits
      <3> QED
        BY <3>1, <3>3, LenProperties DEF NoColon, Places
    <2> QED
      BY <2>1, <2>2
  <1>6. Max(Places(q, Colon)) = k
    BY <1>4, <1>5, PlacesAre, MaxIs
  <1> QED
    BY <1>1, <1>2, <1>4, <1>6 DEF LastIndexOf

ReadsBack(full, repo, tag) ==
  /\ splitRef(full).tag = tag
  /\ (splitRef(full).host \o <<Slash>>) \o splitRef(full).path = repo

LEMMA ReadBack ==
  ASSUME NEW p \in Seq(Letters), NEW name \in Seq(Letters), NEW tag \in Seq(Letters), NoColon(tag)
  PROVE  ReadsBack((((p \o <<Slash>>) \o name) \o <<Colon>>) \o tag, (p \o <<Slash>>) \o name, tag)
  <1>1. PICK u : u = (p \o <<Slash>>) \o name
    OBVIOUS
  <1>2. PICK q : q = (u \o <<Colon>>) \o tag
    OBVIOUS
  <1>3. PICK P \in Nat : P = Len(p)
    BY LenProperties
  <1>4. Splits(Letters, u, p, Slash, name, P + 1)
    BY <1>1, <1>3, Separators, Around
  <1>5. u \in Seq(Letters) /\ P + 1 \in 1 .. Len(u) /\ u[P + 1] = Slash
    BY <1>4 DEF Splits
  <1>6. PICK U \in Nat : U = Len(u)
    BY <1>5, LenProperties
  <1>7. Splits(Letters, q, u, Colon, tag, U + 1)
    BY <1>2, <1>5, <1>6, Separators, Around
  <1>8. q \in Seq(Letters) /\ U + 1 \in 1 .. Len(q) /\ q[P + 1] = Slash /\ P + 1 \in 1 .. Len(q)
    BY <1>5, <1>6, <1>7 DEF Splits
  <1>9. LastIndexOf(q, Colon) = U + 1
    BY <1>2, <1>5, <1>6, LastPlace
  <1>10. IndexOf(q, Slash) <= P + 1 /\ IndexOf(q, Slash) \in 1 .. Len(q)
    BY <1>8, FirstPlace
  <1>11. HasTag(q)
    <2>1. P + 1 < U + 1
      BY <1>5, <1>6
    <2> QED
      BY <1>9, <1>10, <2>1 DEF HasTag
  <1>12. Untagged(q) = u /\ TagOf(q) = tag
    <2>1. SubSeq(q, 1, (U + 1) - 1) = u /\ SubSeq(q, (U + 1) + 1, Len(q)) = tag
      BY <1>7 DEF Splits
    <2> QED
      BY <1>9, <1>11, <2>1 DEF Untagged, TagOf, Before, After
  <1>13. PICK k \in 1 .. Len(u) : k = IndexOf(u, Slash) /\ u[k] = Slash
    BY <1>5, FirstPlace
  <1>14. u = (SubSeq(u, 1, k - 1) \o <<Slash>>) \o SubSeq(u, k + 1, Len(u))
    <2>1. u = (SubSeq(u, 1, k - 1) \o <<u[k]>>) \o SubSeq(u, k + 1, Len(u))
      BY <1>5, SplitAt
    <2> QED
      BY <1>13, <2>1
  <1>15. /\ splitRef(q).host = SubSeq(u, 1, k - 1) /\ splitRef(q).tag = tag
         /\ splitRef(q).path = SubSeq(u, k + 1, Len(u))
    BY <1>12, <1>13 DEF splitRef, Before, After
  <1>16. ReadsBack(q, u, tag)
    BY <1>14, <1>15, Zenon DEF ReadsBack
  <1> QED
    BY <1>1, <1>2, <1>16, Zenon

\* An entry is its name and its tag, or has no tag and gets the default.
EntryIs(entry, r) ==
  /\ r.name \in Seq(Letters) /\ r.tag \in Seq(Letters) /\ NoColon(r.tag)
  /\ \/ IndexOf(entry, Colon) = 0 /\ entry = r.name /\ r.tag = <<"latest">>
     \/ IndexOf(entry, Colon) # 0 /\ entry = (r.name \o <<Colon>>) \o r.tag

LEMMA ParsedEntry ==
  ASSUME NEW entry \in Seq(Letters), OneColon(entry)
  PROVE  EntryIs(entry, ParsedRepo(entry))
  <1>1. PICK i : i = IndexOf(entry, Colon)
    OBVIOUS
  <1>2. CASE i = 0
    <2>1. ParsedRepo(entry).name = entry /\ ParsedRepo(entry).tag = <<"latest">>
      BY <1>1, <1>2 DEF ParsedRepo, RepoRef
    <2>2. <<"latest">> \in Seq(Letters)
      BY Separators
    <2>3. NoColon(<<"latest">>)
      BY Separators DEF NoColon, Places
    <2> QED
      BY <1>1, <1>2, <2>1, <2>2, <2>3 DEF EntryIs
  <1>3. CASE i # 0
    <2>1. i \in Places(entry, Colon)
      <3>1. Places(entry, Colon) # {}
        BY <1>1, <1>3 DEF IndexOf
      <3> QED
        BY <1>1, <3>1, PlacesAre, MinBelongs DEF IndexOf
    <2>2. i \in 1 .. Len(entry) /\ entry[i] = Colon
      BY <2>1, PlacesAre
    <2>3. PICK n \in Seq(Letters), t \in Seq(Letters) : n = Before(entry, i) /\ t = After(entry, i)
      BY <2>2, SplitAt DEF Before, After
    <2>4. entry = (n \o <<Colon>>) \o t
      <3>1. entry = (SubSeq(entry, 1, i - 1) \o <<entry[i]>>) \o SubSeq(entry, i + 1, Len(entry))
        BY <2>2, SplitAt
      <3> QED
        BY <2>2, <2>3, <3>1 DEF Before, After
    <2>5. NoColon(t)
      <3>1. PICK k \in Nat, T \in Nat : k = Len(n) + 1 /\ T = Len(t)
        BY LenProperties
      <3>2. Splits(Letters, entry, n, Colon, t, k)
        BY <2>4, <3>1, Separators, Around
      <3>3. ASSUME NEW j \in 1 .. T, t[j] = Colon PROVE FALSE
        <4>1. /\ entry[k + j] = Colon /\ entry[k] = Colon
              /\ Len(entry) = k + T /\ k \in 1 .. Len(entry)
          BY <3>1, <3>2, <3>3 DEF Splits
        <4>2. k + j \in Places(entry, Colon) /\ k \in Places(entry, Colon)
          <5>1. k + j \in 1 .. Len(entry)
            BY <4>1
          <5> QED
            BY <4>1, <5>1, LenProperties DEF Places
        <4>3. k + j = k
          BY <4>2 DEF OneColon
        <4> QED
          BY <4>3
      <3> QED
        BY <3>1, <3>3, LenProperties DEF NoColon, Places
    <2>6. ParsedRepo(entry).name = n /\ ParsedRepo(entry).tag = t
      BY <1>1, <1>3, <2>3 DEF ParsedRepo, RepoRef
    <2> QED
      BY <1>1, <1>3, <2>4, <2>5, <2>6 DEF EntryIs
  <1> QED
    BY <1>2, <1>3

LEMMA TrimmedType ==
  ASSUME NEW prefix \in Seq(Letters)
  PROVE  Trimmed(prefix) \in Seq(Letters)
  <1>1. prefix # <<>> => Front(prefix) \in Seq(Letters)
    BY FrontAndLast
  <1> QED
    BY <1>1 DEF Trimmed

LEMMA EntryReadBack ==
  ASSUME NEW prefix \in Seq(Letters), NEW entry \in Seq(Letters), OneColon(entry)
  PROVE  LET r == ParsedRepo(entry)
         IN ReadsBack(FullRef(prefix, r), (Trimmed(prefix) \o <<Slash>>) \o r.name, r.tag)
  <1>1. PICK n \in Seq(Letters), t \in Seq(Letters) :
          n = ParsedRepo(entry).name /\ t = ParsedRepo(entry).tag /\ NoColon(t)
    BY ParsedEntry DEF EntryIs
  <1>2. PICK p \in Seq(Letters) : p = Trimmed(prefix)
    BY TrimmedType
  <1>3. ReadsBack((((p \o <<Slash>>) \o n) \o <<Colon>>) \o t, (p \o <<Slash>>) \o n, t)
    BY <1>1, Separators, ReadBack
  <1> QED
    BY <1>1, <1>2, <1>3, Zenon DEF FullRef

\* Logs go to the reference that their entry would be watched under.
LEMMA LogsTargetIs ==
  ASSUME NEW prefix \in Seq(Letters), NEW logs \in Seq(Letters), OneColon(logs)
  PROVE  LogsTarget(prefix, logs) = FullRef(prefix, ParsedRepo(logs))
  <1>1. PICK n \in Seq(Letters), t \in Seq(Letters) :
          n = ParsedRepo(logs).name /\ t = ParsedRepo(logs).tag /\ EntryIs(logs, ParsedRepo(logs))
    BY ParsedEntry DEF EntryIs
  <1>2. PICK p \in Seq(Letters) : p = Trimmed(prefix)
    BY TrimmedType
  <1>3. PICK u \in Seq(Letters) : u = p \o <<Slash>>
    BY Separators, ConcatProperties
  <1>4. FullRef(prefix, ParsedRepo(logs)) = ((u \o n) \o <<Colon>>) \o t
    BY <1>1, <1>2, <1>3, Zenon DEF FullRef
  <1>5. PICK c \in Seq(Letters) : c = <<Colon>>
    BY Separators
  <1>6. CASE IndexOf(logs, Colon) = 0
    <2>1. LogsTarget(prefix, logs) = (u \o logs) \o <<Colon, "latest">>
      BY <1>2, <1>3, <1>6, Zenon DEF LogsTarget
    <2>2. logs = n /\ t = <<"latest">>
      BY <1>1, <1>6 DEF EntryIs
    <2>3. c \o t = <<Colon, "latest">>
      BY <1>5, <2>2, Separators, Pair
    <2>0. Regrouped(u, n, c, t)
      BY Regroup
    <2>4. (u \o n) \o (c \o t) = ((u \o n) \o c) \o t
      BY <2>0, Zenon DEF Regrouped
    <2> QED
      BY <1>4, <1>5, <2>1, <2>2, <2>3, <2>4, Zenon
  <1>7. CASE IndexOf(logs, Colon) # 0
    <2>1. LogsTarget(prefix, logs) = u \o logs
      BY <1>2, <1>3, <1>7, Zenon DEF LogsTarget
    <2>2. logs = (n \o c) \o t
      BY <1>1, <1>5, <1>7 DEF EntryIs
    <2>0. Regrouped(u, n, c, t)
      BY Regroup
    <2>3. u \o ((n \o c) \o t) = ((u \o n) \o c) \o t
      BY <2>0, Zenon DEF Regrouped
    <2> QED
      BY <1>4, <1>5, <2>1, <2>2, <2>3, Zenon
  <1> QED
    BY <1>6, <1>7
-----------------------------------------------------------------------------
(* What the checks of internal/deploy/safety.go mean, for any path.        *)

LEMMA LinksAreWell == WellLinked(Links) /\ WellLinked(NoLinks) /\ DOMAIN NoLinks = {}
  <1>1. DOMAIN NoLinks = {}
    BY DEF NoLinks
  <1> QED
    BY <1>1, PathAssumption DEF WellLinked

\* Without links, the kernel goes where the name says.
LEMMA NamedIsClean ==
  ASSUME NEW p \in Paths, p.abs
  PROVE  Named(p) = Clean(p) /\ Clean(p) \in Seq(Name) /\ IsPlace(Clean(p))
  <1>1. Clean(p) = Cleaned(TRUE, p.segs) /\ p.segs \in Seq(Name)
    BY AbsoluteClean
  <1>2. Walk(NoLinks, <<>>, p.segs) = Cleaned(TRUE, p.segs)
    BY <1>1, LinksAreWell, CleanIsWalk
  <1> QED
    BY <1>1, <1>2, CleanIsPlace DEF Named

LEMMA DotsAreDots ==
  ASSUME NEW p, ~HasDots(p)
  PROVE  NoDotDot(p.segs)
  BY DEF HasDots, NoDotDot

\* A path without dots leads where its clean form leads.
LEMMA RealOfNamed ==
  ASSUME NEW p \in Paths, p.abs, ~HasDots(p)
  PROVE  Real(p) = Real(At(Named(p)))
  <1>1. Clean(p) = Cleaned(TRUE, p.segs) /\ p.segs \in Seq(Name)
    BY AbsoluteClean
  <1>2. Walk(Links, <<>>, Cleaned(TRUE, p.segs)) = Walk(Links, <<>>, p.segs)
    BY <1>1, LinksAreWell, DotsAreDots, CleanLeadsThere
  <1>3. At(Named(p)).segs = Cleaned(TRUE, p.segs)
    BY <1>1, NamedIsClean DEF At
  <1> QED
    BY <1>2, <1>3 DEF Real

\* The roots, as Config.validate keeps them.
LEMMA RootsAreNamed ==
  ASSUME NEW raw, raw \subseteq Paths, ValidRoots(raw)
  PROVE  /\ CleanRoots(raw) = {Named(r) : r \in raw}
         /\ \A q \in CleanRoots(raw) : q # <<>> /\ IsPlace(q)
  <1>1. ASSUME NEW r \in raw
        PROVE  Named(r) = Clean(r) /\ Clean(r) # <<>> /\ IsPlace(Clean(r))
    BY NamedIsClean DEF ValidRoots
  <1> QED
    BY <1>1 DEF CleanRoots

\* The allowlist, of names.
InSomeRoot(place, raw) == raw # {} => \E r \in raw : Under(place, Named(r))

LEMMA CheckedTarget ==
  ASSUME NEW p \in Paths, NEW raw, raw \subseteq Paths, ValidRoots(raw),
         validateTargetPath(p, CleanRoots(raw))
  PROVE  p.abs /\ ~HasDots(p) /\ ~Protected(Named(p)) /\ InSomeRoot(Named(p), raw)
  <1>1. p.abs /\ ~HasDots(p) /\ ~Protected(Clean(p))
    BY DEF validateTargetPath
  <1>2. Named(p) = Clean(p)
    BY <1>1, NamedIsClean
  <1>3. CleanRoots(raw) = {Named(r) : r \in raw}
    BY RootsAreNamed
  <1>4. ASSUME raw # {} PROVE \E r \in raw : Under(Clean(p), Named(r))
    <2>1. CleanRoots(raw) # {}
      BY <1>3, <1>4
    <2>2. PICK q \in CleanRoots(raw) : Under(Clean(p), q)
      BY <2>1 DEF validateTargetPath
    <2> QED
      BY <1>3, <2>2
  <1> QED
    BY <1>1, <1>2, <1>4 DEF InSomeRoot

LEMMA PlaceNamed ==
  ASSUME NEW q \in Seq(Name), IsPlace(q)
  PROVE  /\ At(q) \in Paths /\ At(q).abs /\ At(q).segs = q
         /\ Clean(At(q)) = q /\ Named(At(q)) = q
  <1>1. At(q) \in Paths /\ At(q).abs /\ At(q).segs = q
    BY DEF At, Paths
  <1> QED
    BY <1>1, AtClean, NamedIsClean

\* Two levels deep and no protected place: where something may be emptied.
MayBeCleared(place) == Len(place) >= 2 /\ ~Protected(place)

LEMMA CheckedClear ==
  ASSUME NEW q \in Seq(Name), IsPlace(q), NEW raw, raw \subseteq Paths, ValidRoots(raw),
         validateClearPath(At(q), CleanRoots(raw))
  PROVE  MayBeCleared(q) /\ InSomeRoot(q, raw)
  <1>1. /\ At(q) \in Paths /\ At(q).abs /\ At(q).segs = q
        /\ Clean(At(q)) = q /\ Named(At(q)) = q
    BY PlaceNamed
  <1>2. validateTargetPath(At(q), CleanRoots(raw)) /\ Len(q) >= 2
    BY <1>1 DEF validateClearPath
  <1>3. ~Protected(q) /\ InSomeRoot(q, raw)
    BY <1>1, <1>2, CheckedTarget
  <1> QED
    BY <1>2, <1>3 DEF MayBeCleared

\* The directory war clears is the one that was checked, or lies in it: all
\* the same it is a place where something may be emptied.
LEMMA WarClears ==
  ASSUME NEW p \in Paths, NEW raw, raw \subseteq Paths, ValidRoots(raw),
         validateTargetPath(p, CleanRoots(raw)),
         validateClearPath(At(CheckedParent(p)), CleanRoots(raw))
  PROVE  /\ ClearedParent(p) \in Seq(Name) /\ IsPlace(ClearedParent(p))
         /\ MayBeCleared(ClearedParent(p)) /\ InSomeRoot(ClearedParent(p), raw)
  <1>1. p.abs /\ ~HasDots(p) /\ ~Protected(Named(p)) /\ InSomeRoot(Named(p), raw)
    BY CheckedTarget
  <1>2. Named(p) = Clean(p) /\ Clean(p) \in Seq(Name) /\ IsPlace(Clean(p))
    BY <1>1, NamedIsClean
  <1>3. CheckedParent(p) \in Seq(Name) /\ IsPlace(CheckedParent(p))
    BY <1>2, RootIsPlace, PlaceFront, EmptySeq DEF CheckedParent
  <1>4. MayBeCleared(CheckedParent(p)) /\ InSomeRoot(CheckedParent(p), raw)
    BY <1>3, CheckedClear
  <1>5. MayBeCleared(Clean(p)) /\ InSomeRoot(Clean(p), raw)
    <2>1. Len(CheckedParent(p)) >= 2
      BY <1>4 DEF MayBeCleared
    <2>2. Clean(p) # <<>> /\ CheckedParent(p) = Front(Clean(p))
      BY <2>1, EmptySeq DEF CheckedParent
    <2>3. PICK x \in Seq(Name), e \in Name : Clean(p) = Append(x, e) /\ Front(Clean(p)) = x
      BY <1>2, <2>2, FrontAndLast
    <2>4. Len(Clean(p)) = Len(x) + 1 /\ Len(x) \in Nat
      BY <2>3, AppendProperties, LenProperties
    <2>5. Len(Clean(p)) >= 2
      BY <2>1, <2>2, <2>3, <2>4
    <2> QED
      BY <1>1, <1>2, <2>5 DEF MayBeCleared
  <1>6. ClearedParent(p) \in {Clean(p), CheckedParent(p)}
    BY <1>1, DotsAreDots, ParentsAgree
  <1> QED
    BY <1>2, <1>3, <1>4, <1>5, <1>6

LEMMA StaticClears ==
  ASSUME NEW p \in Paths, NEW raw, raw \subseteq Paths, ValidRoots(raw),
         validateTargetPath(p, CleanRoots(raw)),
         validateClearPath(At(Clean(p)), CleanRoots(raw))
  PROVE  MayBeCleared(Named(p)) /\ InSomeRoot(Named(p), raw)
  <1>1. p.abs
    BY CheckedTarget
  <1>2. Named(p) = Clean(p) /\ Clean(p) \in Seq(Name) /\ IsPlace(Clean(p))
    BY <1>1, NamedIsClean
  <1> QED
    BY <1>2, CheckedClear

\* What guardClearDir lets pass, the links lead to no protected place.
LEMMA GuardedClear ==
  ASSUME NEW p \in Paths, guardClearDir(p)
  PROVE  MayBeCleared(Real(p))
  <1>1. p.segs \in Seq(Name) /\ <<>> \in Seq(Name)
    BY PathIsRecord, EmptySeq
  <1>2. Real(p) \in Seq(Name) /\ IsPlace(Real(p))
    BY <1>1, LinksAreWell, RootIsPlace, WalkIsPlace DEF Real
  <1>3. Clean(At(Real(p))) = Real(p)
    BY <1>2, PlaceNamed
  <1>4. validateClearPath(At(Real(p)), {})
    BY DEF guardClearDir, Real
  <1> QED
    BY <1>3, <1>4 DEF validateClearPath, validateTargetPath, MayBeCleared

\* To be under a place is to begin with its names.
LEMMA UnderByNames ==
  ASSUME NEW q \in Seq(Name), NEW r \in Seq(Name)
  PROVE  Under(q, r) <=> Len(r) <= Len(q) /\ \A i \in 1 .. Len(r) : q[i] = r[i]
  <1>1. PICK Q \in Nat, R \in Nat : Q = Len(q) /\ R = Len(r)
    BY LenProperties
  <1>2. CASE R <= Q
    <2>1. /\ SubSeq(r, 1, R) \in Seq(Name) /\ Len(SubSeq(r, 1, R)) = R
          /\ \A i \in 1 .. R : SubSeq(r, 1, R)[i] = r[i]
      BY <1>1
    <2>2. /\ SubSeq(q, 1, R) \in Seq(Name) /\ Len(SubSeq(q, 1, R)) = R
          /\ \A i \in 1 .. R : SubSeq(q, 1, R)[i] = q[i]
      BY <1>1, <1>2
    <2>3. PICK s \in Seq(Name), t \in Seq(Name) : s = SubSeq(r, 1, R) /\ t = SubSeq(q, 1, R)
      BY <2>1, <2>2
    <2>4. s = t <=> \A i \in 1 .. R : s[i] = t[i]
      BY <2>1, <2>2, <2>3, SeqEqual
    <2> QED
      BY <1>1, <1>2, <2>1, <2>2, <2>3, <2>4 DEF Under, IsPrefix
  <1>3. CASE ~(R <= Q)
    BY <1>1, <1>3 DEF Under, IsPrefix
  <1> QED
    BY <1>2, <1>3

\* One name more: what was under a place still is, and what is under it now
\* was before, or is the place itself.
LEMMA UnderAppend ==
  ASSUME NEW q \in Seq(Name), NEW e \in Name, NEW r \in Seq(Name)
  PROVE  /\ Under(q, r) => Under(Append(q, e), r)
         /\ Under(Append(q, e), r) => Under(q, r) \/ Append(q, e) = r
  <1>1. PICK t \in Seq(Name) : t = Append(q, e)
    BY AppendProperties
  <1>2. PICK L \in Nat, R \in Nat : L = Len(q) /\ R = Len(r) /\ Len(t) = L + 1
    BY <1>1, AppendProperties, LenProperties
  <1>3. \A i \in 1 .. L : t[i] = q[i]
    BY <1>1, <1>2, AppendProperties
  <1>4. Under(q, r) <=> R <= L /\ \A i \in 1 .. R : q[i] = r[i]
    BY <1>2, UnderByNames
  <1>5. Under(t, r) <=> R <= L + 1 /\ \A i \in 1 .. R : t[i] = r[i]
    BY <1>2, UnderByNames
  <1>6. ASSUME Under(q, r) PROVE Under(t, r)
    BY <1>3, <1>4, <1>5, <1>6
  <1>7. ASSUME Under(t, r), R <= L PROVE Under(q, r)
    BY <1>3, <1>4, <1>5, <1>7
  <1>8. ASSUME Under(t, r), R = L + 1 PROVE t = r
    BY <1>2, <1>5, <1>8, SeqEqual, LenProperties
  <1>9. Under(t, r) => R <= L \/ R = L + 1
    BY <1>5
  <1> QED
    BY <1>1, <1>6, <1>7, <1>8, <1>9

LEMMA DirIsPlace == ArtifactDir \in Seq(Name) /\ IsPlace(ArtifactDir)
  <1>1. IsPlace(Walk(Links, <<>>, ArtifactDir))
    BY RequestAssumption, EmptySeq, LinksAreWell, RootIsPlace, WalkIsPlace
  <1> QED
    BY <1>1, RequestAssumption

\* A clean name in the artifact directory leads to a place in it: there is no
\* ".." left to leave it by, and the links it meets stay inside.
LEMMA CleanStaysInside ==
  ASSUME NEW q \in Seq(Name), IsPlace(q), Under(q, ArtifactDir)
  PROVE  Under(Walk(Links, <<>>, q), ArtifactDir)
  <1> DEFINE P == {x \in Seq(Name) : IsPlace(x) /\ Under(x, ArtifactDir) =>
                                        Under(Walk(Links, <<>>, x), ArtifactDir)}
  <1>0. <<>> \in Seq(Name) /\ WellLinked(Links)
    BY EmptySeq, LinksAreWell
  <1>1. <<>> \in P
    <2>1. Walk(Links, <<>>, <<>>) = <<>>
      BY <1>0, WalkEmpty
    <2> QED
      BY <1>0, <2>1
  <1>2. ASSUME NEW x \in Seq(Name), NEW e \in Name, x \in P PROVE Append(x, e) \in P
    <2>1. Append(x, e) \in Seq(Name)
      BY AppendProperties
    <2>2. ASSUME IsPlace(Append(x, e)), Under(Append(x, e), ArtifactDir)
          PROVE  Under(Walk(Links, <<>>, Append(x, e)), ArtifactDir)
      <3>1. IsPlace(x) /\ e \notin {"", ".", ".."}
        BY <2>2, PlaceAppend
      <3>2. CASE Append(x, e) = ArtifactDir
        <4>1. Walk(Links, <<>>, Append(x, e)) = Append(x, e)
          BY <3>2, RequestAssumption
        <4> QED
          BY <2>2, <4>1
      <3>3. CASE Under(x, ArtifactDir)
        <4>1. PICK d \in Seq(Name) : d = Walk(Links, <<>>, x)
          BY <1>0, WalkType
        <4>2. Under(d, ArtifactDir)
          BY <1>2, <3>1, <3>3, <4>1
        <4>3. Under(Append(d, e), ArtifactDir)
          BY <4>2, DirIsPlace, UnderAppend
        <4>4. Walk(Links, <<>>, Append(x, e)) = WalkStep(Links, d, e)
          BY <1>0, <4>1, WalkAppend
        <4>5. WalkStep(Links, d, e) = Entered(Links, Append(d, e))
          BY <3>1 DEF WalkStep
        <4>6. Append(d, e) \in DOMAIN Links => Under(Links[Append(d, e)], ArtifactDir)
          BY <4>3, RequestAssumption DEF LinksStayInside
        <4> QED
          BY <4>3, <4>4, <4>5, <4>6 DEF Entered
      <3>4. Under(x, ArtifactDir) \/ Append(x, e) = ArtifactDir
        BY <2>2, DirIsPlace, UnderAppend
      <3> QED
        BY <3>2, <3>3, <3>4
    <2> QED
      BY <2>1, <2>2
  <1> HIDE DEF P
  <1>3. q \in P
    BY <1>1, <1>2, EverySequence
  <1> QED
    BY <1>3 DEF P

LEMMA JoinIsPlace ==
  ASSUME NEW p \in Paths
  PROVE  Join(ArtifactDir, p) \in Seq(Name) /\ IsPlace(Join(ArtifactDir, p))
  <1>1. ArtifactDir \o p.segs \in Seq(Name)
    BY DirIsPlace, PathIsRecord, ConcatProperties
  <1>2. Join(ArtifactDir, p) = Cleaned(TRUE, ArtifactDir \o p.segs)
    BY DEF Join, At, Cleaned
  <1> QED
    BY <1>1, <1>2, CleanIsPlace

\* What securePathJoin hands out is such a name.
LEMMA JoinedInside ==
  ASSUME NEW p \in Paths, securePathJoin(ArtifactDir, p)
  PROVE  Under(Walk(Links, <<>>, Join(ArtifactDir, p)), ArtifactDir)
  <1>1. Join(ArtifactDir, p) \in Seq(Name) /\ IsPlace(Join(ArtifactDir, p))
    BY JoinIsPlace
  <1> QED
    BY <1>1, CleanStaysInside DEF securePathJoin

-----------------------------------------------------------------------------
(* The inductive invariant: what has been touched was asked for by the     *)
(* annotations, and every check before it has been passed.                 *)

Chosen == \E f \in Families : config \in f.configs /\ artifact \in f.artifacts

Early == {"load", "refused"}

\* What is known of the inputs at each stage.
Loaded ==
  /\ stage \notin Early =>
       /\ ValidConfig(config)
       /\ roots = CleanRoots(config.roots) /\ ref = ParsedRepo(config.entry)
  /\ roots # {} => ValidConfig(config) /\ roots = CleanRoots(config.roots)
  /\ ref = RepoRef(ref.name, ref.tag)

Parsed == stage \notin Early \union {"parse"} => Parses(artifact)

Checked == stage \notin Early \union {"parse", "validate"} => validateRequest(artifact)

Kinds ==
  /\ stage \in {"stop", "clear", "write"} => artifact.type \in {"jar", "war", "static"}
  /\ stage = "clear" => artifact.type \in {"war", "static"}

\* What was touched.
Opened ==
  \A r \in reads :
    \E p \in {artifact.pre, artifact.post, artifact.file, artifact.dir} :
      securePathJoin(ArtifactDir, p) /\ r = Join(ArtifactDir, p)

Emptied ==
  \A c \in cleared :
    /\ stage \in {"write", "post", "done"}
    /\ artifact.type \in {"war", "static"} /\ Clears(artifact)
    /\ c = ClearedDir(artifact) /\ guardClearDir(c)

Written ==
  \A t \in wrote :
    /\ stage \in {"post", "done"}
    /\ artifact.type \in {"jar", "war", "static"}
    /\ t = artifact.target

Called == \A m \in called : Parses(artifact) /\ m = Manager(artifact) /\ m # "none"

Ran == argv # <<>> => argv = Argv(artifact.command, FileChars)

RequestInv ==
  /\ Chosen /\ stage \in Stages
  /\ Loaded /\ Parsed /\ Checked /\ Kinds
  /\ Opened /\ Emptied /\ Written /\ Called /\ Ran

LEMMA RequestStarts == Init => RequestInv
  <1> SUFFICES ASSUME Init PROVE RequestInv
    OBVIOUS
  <1>1. ref = RepoRef(ref.name, ref.tag)
    BY DEF Init, RepoRef
  <1> QED
    BY <1>1 DEF Init, RequestInv, Chosen, Early, Stages, Loaded, Parsed, Checked, Kinds,
                Opened, Emptied, Written, Called, Ran


LEMMA RequestSteps == RequestInv /\ [Next]_vars => RequestInv'
  <1> SUFFICES ASSUME RequestInv, [Next]_vars PROVE RequestInv'
    OBVIOUS
  <1> USE DEF RequestInv, Chosen, Early, Stages, Loaded, Parsed, Checked, Kinds,
              Opened, Emptied, Written, Called, Ran, inputs, touched, vars
  <1>1. CASE UNCHANGED vars
    BY <1>1 DEF validateRequest
  <1>2. CASE Load
    <2>1. ref' = RepoRef(ref'.name, ref'.tag)
      BY <1>2 DEF Load, ParsedRepo, RepoRef
    <2> QED
      BY <1>2, <2>1 DEF Load
  <1>3. CASE LoadFails \/ ParseFails \/ ValidateFails \/ PreHookFails \/ OpenSourceFails
    BY <1>3 DEF LoadFails, ParseFails, ValidateFails, PreHookFails, OpenSourceFails, Refuse
  <1>4. CASE ClearFails \/ CommandFails
    BY <1>4 DEF ClearFails, CommandFails, Refuse
  <1>5. CASE Parse
    BY <1>5 DEF Parse
  <1>6. CASE Validate
    BY <1>6 DEF Validate, validateRequest
  <1>7. CASE PreHook
    BY <1>7 DEF PreHook, Hook, Open, validateRequest
  <1>8. CASE OpenSource
    BY <1>8 DEF OpenSource, Open, Source, validateRequest
  <1>9. CASE Stop
    BY <1>9 DEF Stop, Systemctl, validateRequest
  <1>10. CASE Clear
    BY <1>10 DEF Clear, validateRequest
  <1>11. CASE Write
    BY <1>11 DEF Write, Systemctl, validateRequest
  <1>12. CASE Command
    BY <1>12 DEF Command, validateRequest
  <1>13. CASE PostHook
    BY <1>13 DEF PostHook, Hook, Open, validateRequest
  <1>14. CASE PostHookFails
    BY <1>14 DEF PostHookFails, validateRequest
  <1> QED
    BY <1>1, <1>2, <1>3, <1>4, <1>5, <1>6, <1>7, <1>8, <1>9, <1>10, <1>11, <1>12, <1>13,
       <1>14 DEF Next

LEMMA InputsAreTyped ==
  ASSUME Chosen
  PROVE  /\ DOMAIN config = ConfigFields /\ config.roots \subseteq Paths
         /\ config.prefix \in Seq(Name) /\ config.entry \in Seq(Name)
         /\ config.logs \in Seq(Name)
         /\ DOMAIN artifact = ArtifactFields
         /\ artifact.file \in Paths /\ artifact.dir \in Paths /\ artifact.target \in Paths
         /\ artifact.pre \in Paths /\ artifact.post \in Paths
         /\ artifact.command \in Seq(Name)
         /\ artifact.manager \in Managers \union {""}
  BY RequestAssumption DEF Chosen

LEMMA RootsAreValid ==
  ASSUME RequestInv, stage \notin Early
  PROVE  /\ config.roots \subseteq Paths /\ ValidRoots(config.roots)
         /\ roots = CleanRoots(config.roots)
  BY InputsAreTyped DEF RequestInv, Loaded, ValidConfig

LEMMA InRootIsUnder ==
  ASSUME NEW place, InSomeRoot(place, config.roots)
  PROVE  UnderSomeRoot(place)
  BY DEF InSomeRoot, UnderSomeRoot

LEMMA TargetsAllowed == RequestInv => TargetsStayAllowed
  <1> SUFFICES ASSUME RequestInv, NEW t \in wrote
               PROVE  /\ t.abs /\ ~Protected(Named(t)) /\ UnderSomeRoot(Named(t))
                      /\ Real(t) = Real(At(Named(t)))
    BY DEF TargetsStayAllowed
  <1>1. t = artifact.target /\ t \in Paths
    BY InputsAreTyped DEF RequestInv, Written
  <1>2. stage \in {"post", "done"} /\ artifact.type \in {"jar", "war", "static"}
    BY DEF RequestInv, Written
  <1>3. validateTargetPath(t, roots)
    BY <1>1, <1>2 DEF RequestInv, Early, Checked, validateRequest
  <1>4. t.abs /\ ~HasDots(t) /\ ~Protected(Named(t)) /\ InSomeRoot(Named(t), config.roots)
    <2>1. /\ config.roots \subseteq Paths /\ ValidRoots(config.roots)
          /\ roots = CleanRoots(config.roots)
      BY <1>2, RootsAreValid DEF Early
    <2> QED
      BY <1>1, <1>3, <2>1, CheckedTarget
  <1> QED
    BY <1>1, <1>4, InRootIsUnder, RealOfNamed

LEMMA ClearsAllowed == RequestInv => ClearsStayAllowed
  <1> SUFFICES ASSUME RequestInv, NEW c \in cleared
               PROVE  /\ UnderSomeRoot(Named(c))
                      /\ MayBeCleared(Named(c)) /\ MayBeCleared(Real(c))
    BY DEF ClearsStayAllowed, MayBeCleared
  <1>1. /\ stage \in {"write", "post", "done"} /\ artifact.type \in {"war", "static"}
        /\ Clears(artifact) /\ c = ClearedDir(artifact) /\ guardClearDir(c)
    BY DEF RequestInv, Emptied
  <1>2. /\ config.roots \subseteq Paths /\ ValidRoots(config.roots)
        /\ roots = CleanRoots(config.roots)
    BY <1>1, RootsAreValid DEF Early
  <1>3. validateRequest(artifact)
    BY <1>1 DEF RequestInv, Early, Checked
  <1>4. PICK p \in Paths : p = artifact.target
    BY InputsAreTyped DEF RequestInv
  <1>5. CASE artifact.type = "war"
    <2>1. /\ validateTargetPath(p, CleanRoots(config.roots))
          /\ validateClearPath(At(CheckedParent(p)), CleanRoots(config.roots))
      BY <1>1, <1>2, <1>3, <1>4, <1>5 DEF validateRequest
    <2>2. /\ ClearedParent(p) \in Seq(Name) /\ IsPlace(ClearedParent(p))
          /\ MayBeCleared(ClearedParent(p)) /\ InSomeRoot(ClearedParent(p), config.roots)
      BY <1>2, <2>1, WarClears
    <2>3. c = At(ClearedParent(p))
      BY <1>1, <1>4, <1>5 DEF ClearedDir
    <2>4. c \in Paths /\ Named(c) = ClearedParent(p)
      BY <2>2, <2>3, PlaceNamed
    <2> QED
      BY <1>1, <2>2, <2>4, GuardedClear, InRootIsUnder
  <1>6. CASE artifact.type = "static"
    <2>1. /\ validateTargetPath(p, CleanRoots(config.roots))
          /\ validateClearPath(At(Clean(p)), CleanRoots(config.roots))
      BY <1>1, <1>2, <1>3, <1>4, <1>6 DEF validateRequest
    <2>2. MayBeCleared(Named(p)) /\ InSomeRoot(Named(p), config.roots)
      BY <1>2, <2>1, StaticClears
    <2>3. c = p
      BY <1>1, <1>4, <1>6 DEF ClearedDir
    <2> QED
      BY <1>1, <2>2, <2>3, GuardedClear, InRootIsUnder
  <1> QED
    BY <1>1, <1>5, <1>6

LEMMA ReadsInside == RequestInv => ReadsStayInside
  <1> SUFFICES ASSUME RequestInv, NEW r \in reads
               PROVE  Under(Walk(Links, <<>>, r), ArtifactDir)
    BY DEF ReadsStayInside
  <1>1. PICK p \in Paths : securePathJoin(ArtifactDir, p) /\ r = Join(ArtifactDir, p)
    BY InputsAreTyped DEF RequestInv, Opened
  <1> QED
    BY <1>1, JoinedInside

LEMMA NoPanic == RequestInv => NeverPanics
  <1> SUFFICES ASSUME RequestInv, NEW m \in called
               PROVE  m \in {"systemd", "systemd-user"}
    BY DEF NeverPanics
  <1>1. artifact.junk = {} /\ m = Manager(artifact) /\ m # "none"
    BY DEF RequestInv, Called, Parses
  <1>2. artifact.manager \in Managers \union {""}
    BY InputsAreTyped DEF RequestInv
  <1> QED
    BY <1>1, <1>2 DEF Manager, Managers

LEMMA OneArgument == RequestInv => FileStaysInOneArgument
  <1> DEFINE words == parseShellCommand(artifact.command)
  <1> SUFFICES ASSUME RequestInv, argv # <<>>
               PROVE  /\ DOMAIN argv = DOMAIN words
                      /\ \A i \in DOMAIN words :
                           Placeholder \in ToSet(words[i]) =>
                             \E j \in DOMAIN argv[i] :
                               IsPrefix(FileChars, SubSeq(argv[i], j, Len(argv[i])))
    BY DEF FileStaysInOneArgument
  <1>1. PICK s \in Seq(Name) : s = artifact.command
    BY InputsAreTyped DEF RequestInv
  <1>2. argv = Argv(s, FileChars) /\ words = parseShellCommand(s)
    BY <1>1 DEF RequestInv, Ran
  <1>3. DOMAIN argv = DOMAIN words
    BY <1>2 DEF Argv, applyTemplate
  <1> HIDE DEF words
  <1>4. ASSUME NEW i \in DOMAIN words, Placeholder \in ToSet(words[i])
        PROVE  \E j \in DOMAIN argv[i] : IsPrefix(FileChars, SubSeq(argv[i], j, Len(argv[i])))
    <2>1. /\ words[i] \in Words /\ argv[i] = PutIn(words[i], FileChars)
          /\ PutWell(words[i], FileChars)
      BY <1>2, <1>3, ArgvWords
    <2>2. HasPart(Name, argv[i], FileChars)
      BY <1>4, <2>1 DEF PutWell
    <2>3. words[i] \in Seq(Name)
      BY <2>1 DEF Words
    <2>4. argv[i] \in Seq(Name)
      <3>1. PutIn(words[i], FileChars) = FlattenSeq(Pieces(words[i], FileChars))
        BY PutInPieces
      <3>2. Pieces(words[i], FileChars) \in Seq(Seq(Name))
        BY <2>3, FileIsWord, PiecesType
      <3> QED
        BY <2>1, <3>1, <3>2, FlattenType
    <2> QED
      BY <2>2, <2>4, FileIsWord, HasPartAt DEF Words
  <1> QED
    BY <1>3, <1>4

\* A tag has no colon, so an entry with a tag has one colon.
SingleTags == \A f \in Families : \A c \in f.configs : OneColon(c.entry) /\ OneColon(c.logs)

LEMMA RefsBack ==
  ASSUME SingleTags
  PROVE  RequestInv => RefsAreReadBack
  <1> SUFFICES ASSUME RequestInv, stage \notin {"load", "refused"}
               PROVE  /\ Names(FullRef(config.prefix, ref), ref.name, ref.tag)
                      /\ LET l == ParsedRepo(config.logs) IN
                           config.logs # <<>> =>
                             Names(LogsTarget(config.prefix, config.logs), l.name, l.tag)
    BY DEF RefsAreReadBack
  <1>1. OneColon(config.entry) /\ OneColon(config.logs)
    BY DEF RequestInv, Chosen, SingleTags
  <1>2. PICK prefix \in Seq(Letters), entry \in Seq(Letters), logs \in Seq(Letters) :
          prefix = config.prefix /\ entry = config.entry /\ logs = config.logs
    BY InputsAreTyped, NamesAreLetters DEF RequestInv
  <1>3. ref = ParsedRepo(entry)
    BY <1>2 DEF RequestInv, Loaded, Early
  <1>4. ASSUME NEW full, NEW name, NEW tag,
               ReadsBack(full, (Trimmed(prefix) \o <<Slash>>) \o name, tag)
        PROVE  Names(full, name, tag)
    BY <1>2, <1>4, Zenon DEF ReadsBack, Names
  <1>5. Names(FullRef(prefix, ref), ref.name, ref.tag)
    <2>1. ReadsBack(FullRef(prefix, ref), (Trimmed(prefix) \o <<Slash>>) \o ref.name, ref.tag)
      BY <1>1, <1>2, <1>3, EntryReadBack
    <2> QED
      BY <1>4, <2>1
  <1>6. Names(LogsTarget(prefix, logs), ParsedRepo(logs).name, ParsedRepo(logs).tag)
    <2> DEFINE l == ParsedRepo(logs)
    <2>1. ReadsBack(FullRef(prefix, l), (Trimmed(prefix) \o <<Slash>>) \o l.name, l.tag)
      BY <1>1, <1>2, EntryReadBack
    <2>2. LogsTarget(prefix, logs) = FullRef(prefix, l)
      BY <1>1, <1>2, LogsTargetIs
    <2> QED
      BY <1>4, <2>1, <2>2
  <1> QED
    BY <1>2, <1>5, <1>6

LEMMA Typed == RequestInv => TypeOK
  <1> SUFFICES ASSUME RequestInv PROVE TypeOK
    OBVIOUS
  <1>1. \A r \in roots : r # <<>> /\ IsPlace(r)
    <2>1. roots # {} => /\ config.roots \subseteq Paths /\ ValidRoots(config.roots)
                        /\ roots = CleanRoots(config.roots)
      BY InputsAreTyped DEF RequestInv, Loaded, ValidConfig
    <2> QED
      BY <2>1, RootsAreNamed
  <1>2. DOMAIN ref = {"name", "tag"}
    BY DEF RequestInv, Loaded, RepoRef
  <1>3. Cardinality(cleared) <= 1
    <2>1. cleared \subseteq {ClearedDir(artifact)}
      BY DEF RequestInv, Emptied
    <2>2. IsFiniteSet({ClearedDir(artifact)}) /\ Cardinality({ClearedDir(artifact)}) = 1
      BY FS_Singleton
    <2>3. IsFiniteSet(cleared) /\ Cardinality(cleared) <= Cardinality({ClearedDir(artifact)})
      BY <2>1, <2>2, FS_Subset
    <2> QED
      BY <2>2, <2>3
  <1>4. called \subseteq Managers \union {"unknown"}
    <2>1. artifact.manager \in Managers \union {""}
      BY InputsAreTyped DEF RequestInv
    <2> QED
      BY <2>1 DEF RequestInv, Called, Manager, Managers
  <1>5. ASSUME NEW i \in DOMAIN argv PROVE argv[i] # <<>>
    <2>1. PICK s \in Seq(Name) : s = artifact.command
      BY InputsAreTyped DEF RequestInv
    <2>2. argv # <<>>
      BY <1>5
    <2>3. argv = Argv(s, FileChars)
      BY <2>1, <2>2 DEF RequestInv, Ran
    <2>4. /\ parseShellCommand(s)[i] \in Words
          /\ argv[i] = PutIn(parseShellCommand(s)[i], FileChars)
          /\ PutWell(parseShellCommand(s)[i], FileChars)
      BY <2>3, ArgvWords
    <2> QED
      BY <2>4 DEF PutWell, Words
  <1>6. stage \in Stages
    BY DEF RequestInv
  <1>7. ASSUME NEW r \in reads PROVE r \in Seq(Name)
    <2>1. PICK p \in Paths : r = Join(ArtifactDir, p)
      BY InputsAreTyped DEF RequestInv, Opened
    <2> QED
      BY <2>1, JoinIsPlace
  <1>8. wrote \subseteq {artifact.target}
    BY DEF RequestInv, Written
  <1> QED
    BY <1>1, <1>2, <1>3, <1>4, <1>5, <1>6, <1>7, <1>8 DEF TypeOK

-----------------------------------------------------------------------------
(* The theorems.                                                           *)

LEMMA RequestInvHolds == Spec => []RequestInv
  BY RequestStarts, RequestSteps, PTL DEF Spec

(***************************************************************************)
(* A deploy writes, by the name of it, to no protected place and under one *)
(* of the roots the operator wrote down, and the path as it is written     *)
(* leads where the checked one leads, whatever the path, the roots and the *)
(* links (validateRequest, validateTargetPath, Config.validate).           *)
(***************************************************************************)
THEOREM RequestTargets == Spec => []TargetsStayAllowed
  BY RequestInvHolds, TargetsAllowed, PTL

(***************************************************************************)
(* What a deploy empties is two levels deep, no protected place and under  *)
(* a root by its name, and still no protected place once its links are     *)
(* followed (validateClearPath, guardClearDir, warStrategy.Apply).         *)
(***************************************************************************)
THEOREM RequestClears == Spec => []ClearsStayAllowed
  BY RequestInvHolds, ClearsAllowed, PTL

(***************************************************************************)
(* What is read or executed lies inside the artifact directory once the    *)
(* links in the artifact have been followed, whatever the annotation says  *)
(* and however many links there are, as long as none of them leads out     *)
(* (securePathJoin, runHook, Apply).                                       *)
(***************************************************************************)
THEOREM RequestReads == Spec => []ReadsStayInside
  BY RequestInvHolds, ReadsInside, PTL

(***************************************************************************)
(* No annotations that Parse accepts make systemctlCmd panic (Parse,       *)
(* EffectiveServiceManager, stopService, startService).                    *)
(***************************************************************************)
THEOREM RequestNeverPanics == Spec => []NeverPanics
  BY RequestInvHolds, NoPanic, PTL

(***************************************************************************)
(* {file} stays part of one argument whatever characters the path has, and *)
(* the command has as many arguments as it was written with                *)
(* (parseShellCommand before applyTemplate).                               *)
(***************************************************************************)
THEOREM RequestFileInOneArgument == Spec => []FileStaysInOneArgument
  BY RequestInvHolds, OneArgument, PTL

(***************************************************************************)
(* The types: among them, that the roots a configuration is loaded with    *)
(* are clean and none of them is the root of the file system, and that no  *)
(* argument of a command that is run is empty (Config.validate,            *)
(* parseShellCommand).                                                     *)
(***************************************************************************)
THEOREM RequestTypes == Spec => []TypeOK
  BY RequestInvHolds, Typed, PTL

(***************************************************************************)
(* Under tags without a colon, the registry client reads from every        *)
(* reference the name and the tag the configuration was written with,      *)
(* whatever the prefix and its port (ParsedRepos, pushLogs, splitRef).     *)
(***************************************************************************)
THEOREM RequestRefs ==
  ASSUME SingleTags
  PROVE  Spec => []RefsAreReadBack
  <1>1. RequestInv => RefsAreReadBack
    BY RefsBack
  <1> QED
    BY <1>1, RequestInvHolds, PTL
=============================================================================
