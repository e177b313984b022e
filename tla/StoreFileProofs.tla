-------------------------- MODULE StoreFileProofs --------------------------
(***************************************************************************)
(* Proofs about StoreFile, for every set of loaders, keys, texts and       *)
(* questions: the parser accepts exactly the texts that are stores, a load *)
(* returns one whole version of the file, and the verdict of a command     *)
(* stands on that version.                                                 *)
(***************************************************************************)
EXTENDS StoreFile, TLAPS, WellFoundedInduction

(* Induction, and functions defined by it *)

\* A nonempty set of naturals has a least element.
LEMMA LeastNatural ==
  ASSUME NEW S \in SUBSET Nat, S # {}
  PROVE  \E m \in S : \A n \in S : m <= n
  <1>. DEFINE R == {ss \in Nat \X Nat : ss[1] < ss[2]}
  <1>1. IsWellFoundedOn(R, Nat)
    BY NatLessThanWellFounded DEF OpToRel
  <1>2. PICK m \in S : \A n \in S : ~ (<<n, m>> \in R)
    <2>. HIDE DEF R
    <2>. QED  BY <1>1, WFMin
  <1>3. ASSUME NEW n \in S PROVE m <= n
    <2>1. <<n, m>> \in Nat \X Nat
      OBVIOUS
    <2>2. ~ (n < m)
      BY <1>2, <2>1
    <2>. QED  BY <2>2
  <1>. QED  BY <1>3

\* What holds of 0, and of every successor, holds of every natural.
LEMMA SetInduction ==
  ASSUME NEW S, 0 \in S, \A n \in Nat : n \in S => n + 1 \in S
  PROVE  \A n \in Nat : n \in S
  <1>. SUFFICES ASSUME Nat \ S # {} PROVE FALSE
    OBVIOUS
  <1>1. PICK m \in Nat \ S : \A n \in Nat \ S : m <= n
    BY LeastNatural
  <1>2. m - 1 \in Nat /\ m - 1 \in S
    BY <1>1
  <1>. QED  BY <1>1, <1>2

\* f begins with a, and g tells each next value.
Recursion(V, a, g, f) ==
    f \in [Nat -> V] /\ f[0] = a /\ \A n \in Nat : f[n + 1] = g[n][f[n]]

\* A recursion over the naturals has a solution.
LEMMA RecursiveFunction ==
  ASSUME NEW V, NEW a \in V, NEW g \in [Nat -> [V -> V]]
  PROVE  \E f : Recursion(V, a, g, f)
  <1>. DEFINE Upto(n) == {f \in [0..n -> V] :
                             f[0] = a /\ \A i \in 0..(n - 1) : f[i + 1] = g[i][f[i]]}
              Ok == {n \in Nat : Upto(n) # {}}
  <1>1. 0 \in Ok
    <2>1. [i \in 0..0 |-> a] \in Upto(0)
      OBVIOUS
    <2>. QED  BY <2>1
  <1>2. ASSUME NEW n \in Nat, n \in Ok PROVE n + 1 \in Ok
    <2>1. PICK f \in Upto(n) : TRUE
      BY <1>2
    <2>. DEFINE h == [i \in 0..(n + 1) |-> IF i = n + 1 THEN g[n][f[n]] ELSE f[i]]
    <2>2. h \in Upto(n + 1)
      <3>1. f[n] \in V /\ g[n][f[n]] \in V
        BY <2>1
      <3>2. h \in [0..(n + 1) -> V]
        BY <2>1, <3>1
      <3>3. h[0] = a
        BY <2>1
      <3>4. ASSUME NEW i \in 0..n PROVE h[i + 1] = g[i][h[i]]
        BY <2>1
      <3>5. (n + 1) - 1 = n
        OBVIOUS
      <3>. HIDE DEF h
      <3>. QED  BY <3>2, <3>3, <3>4, <3>5
    <2>. HIDE DEF Upto, h
    <2>3. Upto(n + 1) # {} /\ n + 1 \in Nat
      BY <2>2
    <2>. QED  BY <2>3
  <1>3. \A n \in Nat : n \in Ok
    <2>. HIDE DEF Ok
    <2>. QED  BY <1>1, <1>2, SetInduction
  <1>. DEFINE F(n) == CHOOSE f \in Upto(n) : TRUE
  <1>4. \A n \in Nat : F(n) \in Upto(n)
    BY <1>3
  <1>5. ASSUME NEW n \in Nat, NEW m \in Nat, n <= m PROVE F(m)[n] = F(n)[n]
    <2>. DEFINE Same == {i \in Nat : i <= n => F(m)[i] = F(n)[i]}
    <2>1. 0 \in Same
      BY <1>4, <1>5
    <2>2. ASSUME NEW i \in Nat, i \in Same PROVE i + 1 \in Same
      <3>. SUFFICES ASSUME i + 1 <= n PROVE F(m)[i + 1] = F(n)[i + 1]
        OBVIOUS
      <3>1. F(m)[i + 1] = g[i][F(m)[i]] /\ F(n)[i + 1] = g[i][F(n)[i]]
        <4>. HIDE DEF F
        <4>. QED  BY <1>4, <1>5
      <3>2. F(m)[i] = F(n)[i]
        BY <2>2
      <3>. HIDE DEF F
      <3>. QED  BY <3>1, <3>2
    <2>3. n \in Same
      <3>. HIDE DEF Same
      <3>. QED  BY <2>1, <2>2, SetInduction
    <2>. QED  BY <2>3
  <1>. DEFINE f == [n \in Nat |-> F(n)[n]]
  <1>6. f \in [Nat -> V]
    <2>. HIDE DEF F
    <2>. QED  BY <1>4
  <1>7. f[0] = a
    <2>. HIDE DEF F
    <2>. QED  BY <1>4
  <1>8. ASSUME NEW n \in Nat PROVE f[n + 1] = g[n][f[n]]
    <2>1. F(n + 1)[n + 1] = g[n][F(n + 1)[n]]
      <3>. HIDE DEF F
      <3>. QED  BY <1>4
    <2>2. F(n + 1)[n] = F(n)[n]
      <3>. HIDE DEF F
      <3>. QED  BY <1>5
    <2>. QED  BY <2>1, <2>2
  <1>. HIDE DEF f
  <1>. QED  BY <1>6, <1>7, <1>8 DEF Recursion

-----------------------------------------------------------------------------
(* The parser *)

\* The n-th line after the header, and the entry it makes.
LineOf(units, n) == LineAt(units, 2 * n + 1)
EntryIn(units, n) == [kind |-> LineOf(units, n).kind, key |-> LineOf(units, n).key]

\* The first n lines are entries, without duplicates and not too many.
GoodLines(s, units, n) ==
    /\ n <= MaxEntries
    /\ \A i \in 1..n : IsEntryLine(s, LineOf(units, i))
    /\ \A i, j \in 1..n : EntryIn(units, i) = EntryIn(units, j) => i = j

\* One line more: it is added if it is an entry, new, and there is room.
LEMMA AddLineAdds ==
  ASSUME NEW s \in StoreKind, NEW line \in TextUnit, NEW entries \in Seq(Entry)
  PROVE  LET e == [kind |-> line.kind, key |-> line.key]
             ok == /\ IsEntryLine(s, line) /\ ~Contains(entries, line.kind, line.key)
                   /\ Len(entries) < MaxEntries
         IN  /\ ok => AddLine(s, entries, line) = Loaded(Append(entries, e))
             /\ ~ok => \E code \in Code \ {"ok"} : AddLine(s, entries, line) = Refused(code)
  <1>. DEFINE refusal == IF s = "trust" THEN TrustLineRefusal(line)
                                       ELSE RevocationLineRefusal(line)
              add == AddRefusal(s, entries, line.kind, line.key)
              isEntry == line.kind \in EntryKinds(s) /\ line.key \in Key /\ line.textOK
              room == ~Contains(entries, line.kind, line.key) /\ Len(entries) < MaxEntries
  <1>0. line.key \in Key \cup {Zero, NotHex} /\ Zero \notin Key /\ NotHex \notin Key /\ Zero # NotHex
        /\ Len(entries) \in Nat /\ MaxEntries \in Nat
    BY EntryStoreAssumption DEF TextUnit, Zero, NotHex
  <1>1. refusal \in Code /\ add \in Code
    BY DEF TrustLineRefusal, RevocationLineRefusal, AddRefusal, Code
  <1>2. ASSUME s = "trust" PROVE (refusal = "ok" /\ add = "ok") <=> (isEntry /\ room)
    <2>1. refusal = "ok" <=> line.kind = "issuer" /\ line.key # NotHex /\ line.textOK
      BY <1>2 DEF TrustLineRefusal, TextUnit
    <2>2. add = "ok" <=> line.key # Zero /\ room
      BY <1>0, <1>2 DEF AddRefusal
    <2>3. isEntry <=> refusal = "ok" /\ line.key # Zero
      BY <1>0, <1>2, <2>1 DEF EntryKinds
    <2>. QED  BY <2>1, <2>2, <2>3
  <1>3. ASSUME s = "revocation" PROVE (refusal = "ok" /\ add = "ok") <=> (isEntry /\ room)
    <2>1. refusal = "ok" <=> /\ line.kind \in {"token", "issuer"}
                             /\ line.key # NotHex /\ line.key # Zero /\ line.textOK
      BY <1>3 DEF RevocationLineRefusal, TextUnit, EntryKinds
    <2>2. add = "ok" <=> line.key # Zero /\ room
      BY <1>0, <1>3 DEF AddRefusal
    <2>3. isEntry <=> refusal = "ok"
      BY <1>0, <1>3, <2>1 DEF EntryKinds
    <2>. QED  BY <2>1, <2>2, <2>3
  <1>4. (refusal = "ok" /\ add = "ok") <=> (isEntry /\ room)
    BY <1>2, <1>3 DEF StoreKind
  <1>5. AddLine(s, entries, line) =
          IF refusal # "ok" THEN Refused(refusal)
          ELSE IF add = "ok" THEN Loaded(Append(entries, [kind |-> line.kind, key |-> line.key]))
          ELSE Refused(add)
    BY DEF AddLine, Add
  <1>. HIDE DEF refusal, add
  <1>. QED  BY <1>1, <1>4, <1>5 DEF IsEntryLine

\* What parsing leaves after each line.
LEMMA LinesOneByOne ==
  ASSUME NEW s \in StoreKind, NEW units \in Seq(TextUnit)
  PROVE  \E after :
            /\ after[0] = Loaded(<<>>)
            /\ \A n \in 1..Len(units) :
                  after[n] = IF after[n - 1].code # "ok" THEN after[n - 1]
                             ELSE AddLine(s, after[n - 1].entries, LineOf(units, n))
            /\ ParseLines(s, units) = after[(Len(units) - 1) \div 2]
  <1>. DEFINE K == {LineOf(units, n).key : n \in Nat}
              V == [code : Code, entries : Seq([kind : {"token", "issuer"}, key : K])]
              Step(v, n) == IF v.code # "ok" THEN v ELSE AddLine(s, v.entries, LineOf(units, n))
              g == [n \in Nat |-> [v \in V |-> Step(v, n + 1)]]
  <1>1. Loaded(<<>>) \in V
    BY DEF Loaded, Code
  <1>2. ASSUME NEW v \in V, NEW n \in Nat PROVE Step(v, n + 1) \in V
    <2>. DEFINE line == LineOf(units, n + 1)
    <2>1. CASE v.code # "ok"
      BY <2>1
    <2>2. CASE v.code = "ok"
      <3>1. \/ \E code \in Code : AddLine(s, v.entries, line) = Refused(code)
            \/ /\ line.kind \in {"token", "issuer"}
               /\ AddLine(s, v.entries, line) =
                    Loaded(Append(v.entries, [kind |-> line.kind, key |-> line.key]))
        <4>. HIDE DEF line
        <4>1. /\ TrustLineRefusal(line) \in Code /\ RevocationLineRefusal(line) \in Code
              /\ TrustLineRefusal(line) = "ok" => line.kind \in {"token", "issuer"}
              /\ RevocationLineRefusal(line) = "ok" => line.kind \in {"token", "issuer"}
          BY DEF TrustLineRefusal, RevocationLineRefusal, Code, EntryKinds
        <4>2. AddRefusal(s, v.entries, line.kind, line.key) \in Code
          BY DEF AddRefusal, Code
        <4>. QED  BY <4>1, <4>2 DEF AddLine, Add
      <3>2. line.key \in K
        OBVIOUS
      <3>3. \A code \in Code : Refused(code) \in V
        BY DEF Refused
      <3>4. ASSUME line.kind \in {"token", "issuer"}
            PROVE  Loaded(Append(v.entries, [kind |-> line.kind, key |-> line.key])) \in V
        <4>. HIDE DEF line, K
        <4>. QED  BY <3>2, <3>4 DEF Loaded, Code
      <3>. HIDE DEF line, V
      <3>5. Step(v, n + 1) = AddLine(s, v.entries, line)
        BY <2>2 DEF line
      <3>. HIDE DEF Step
      <3>. QED  BY <3>1, <3>3, <3>4, <3>5
    <2>. QED  BY <2>1, <2>2
  <1>3. g \in [Nat -> [V -> V]]
    <2>. HIDE DEF V, Step
    <2>. QED  BY <1>2
  <1>4. PICK f \in [Nat -> V] : f[0] = Loaded(<<>>) /\ \A n \in Nat : f[n + 1] = g[n][f[n]]
    <2>. DEFINE a == Loaded(<<>>)
    <2>. HIDE DEF V, g, a
    <2>1. a \in V
      BY <1>1 DEF a
    <2>2. \E f : Recursion(V, a, g, f)
      BY <1>3, <2>1, RecursiveFunction
    <2>. QED  BY <2>2 DEF a, Recursion
  <1>5. \A n \in Nat : f[n + 1] = Step(f[n], n + 1)
    <2>. HIDE DEF V, Step
    <2>. QED  BY <1>4
  <1>. DEFINE Body(h) == [n \in 0..Len(units) |->
                            IF n = 0 THEN Loaded(<<>>)
                            ELSE IF h[n - 1].code # "ok" THEN h[n - 1]
                            ELSE AddLine(s, h[n - 1].entries, LineAt(units, 2 * n + 1))]
              after == CHOOSE h : h = Body(h)
  <1>6. \E h : h = Body(h)
    <2>. DEFINE h == [n \in 0..Len(units) |-> f[n]]
    <2>1. ASSUME NEW n \in 0..Len(units) PROVE h[n] = Body(h)[n]
      <3>1. CASE n = 0
        BY <1>4, <3>1
      <3>2. CASE n # 0
        <4>1. n - 1 \in Nat /\ (n - 1) + 1 = n /\ n - 1 \in 0..Len(units)
          BY <3>2
        <4>2. f[n] = Step(f[n - 1], n)
          BY <1>5, <4>1
        <4>. QED  BY <3>2, <4>1, <4>2 DEF LineOf
      <3>. QED  BY <3>1, <3>2
    <2>2. h = Body(h)
      BY <2>1
    <2>. QED  BY <2>2
  <1>7. after = Body(after)
    <2>. HIDE DEF Body
    <2>. QED  BY <1>6
  <1>8. ParseLines(s, units) = after[(Len(units) - 1) \div 2]
    BY DEF ParseLines
  <1>9. after[0] = Loaded(<<>>) /\ \A n \in 1..Len(units) :
          after[n] = IF after[n - 1].code # "ok" THEN after[n - 1]
                     ELSE AddLine(s, after[n - 1].entries, LineOf(units, n))
    <2>. HIDE DEF after
    <2>. QED  BY <1>7 DEF LineOf
  <1>. HIDE DEF after
  <1>. QED  BY <1>8, <1>9

\* The entries of the first n lines.
EntriesUpto(units, n) == [i \in 1..n |-> EntryIn(units, i)]

\* A line of a text is a unit of it, or malformed.
LEMMA LineIsUnit ==
  ASSUME NEW units \in Seq(TextUnit), NEW n \in Nat, 2 * n + 1 <= Len(units)
  PROVE  LineOf(units, n) \in TextUnit
  <1>1. Malformed \in TextUnit
    BY DEF Malformed, Line, TextUnit
  <1>2. units[2 * n + 1] \in TextUnit
    OBVIOUS
  <1>. QED  BY <1>1, <1>2 DEF LineOf, LineAt

\* A line that is an entry makes an entry.
LEMMA LineIsEntry ==
  ASSUME NEW s \in StoreKind, NEW line, IsEntryLine(s, line)
  PROVE  [kind |-> line.kind, key |-> line.key] \in Entry
  BY DEF IsEntryLine, EntryKinds, Entry, StoreKind

\* After n lines there are n entries, or a refusal and nothing.
LEMMA LinesResult ==
  ASSUME NEW s \in StoreKind, NEW units \in Seq(TextUnit), NEW after,
         after[0] = Loaded(<<>>),
         \A n \in 1..Len(units) :
            after[n] = IF after[n - 1].code # "ok" THEN after[n - 1]
                       ELSE AddLine(s, after[n - 1].entries, LineOf(units, n)),
         NEW m \in Nat, 2 * m + 1 <= Len(units)
  PROVE  /\ GoodLines(s, units, m) => after[m] = Loaded(EntriesUpto(units, m))
         /\ ~GoodLines(s, units, m) => \E code \in Code \ {"ok"} : after[m] = Refused(code)
  <1>. DEFINE Right(n) ==
                /\ GoodLines(s, units, n) => after[n] = Loaded(EntriesUpto(units, n))
                /\ ~GoodLines(s, units, n) =>
                      \E code \in Code \ {"ok"} : after[n] = Refused(code)
              S == {n \in Nat : 2 * n + 1 <= Len(units) => Right(n)}
  <1>1. 0 \in S
    <2>1. GoodLines(s, units, 0)
      BY EntryStoreAssumption DEF GoodLines
    <2>2. EntriesUpto(units, 0) = <<>>
      BY DEF EntriesUpto
    <2>. QED  BY <2>1, <2>2
  <1>2. ASSUME NEW n \in Nat, n \in S PROVE n + 1 \in S
    <2>. SUFFICES ASSUME 2 * (n + 1) + 1 <= Len(units) PROVE Right(n + 1)
      OBVIOUS
    <2>0. /\ Len(units) \in Nat /\ 2 * n + 1 <= Len(units) /\ n + 1 \in 1..Len(units)
          /\ (n + 1) - 1 = n /\ MaxEntries \in Nat
      BY EntryStoreAssumption
    <2>. DEFINE line == LineOf(units, n + 1)
    <2>1. line \in TextUnit
      BY LineIsUnit
    <2>2. after[n + 1] = IF after[n].code # "ok" THEN after[n]
                         ELSE AddLine(s, after[n].entries, line)
      BY <2>0
    <2>3. GoodLines(s, units, n + 1) <=>
            /\ GoodLines(s, units, n) /\ n < MaxEntries /\ IsEntryLine(s, line)
            /\ \A i \in 1..n : EntryIn(units, i) # EntryIn(units, n + 1)
      <3>1. 1..(n + 1) = 1..n \cup {n + 1} /\ n + 1 \notin 1..n
        OBVIOUS
      <3>2. n + 1 <= MaxEntries <=> n <= MaxEntries /\ n < MaxEntries
        BY <2>0
      <3>. HIDE DEF Right, S
      <3>. QED  BY <3>1, <3>2 DEF GoodLines
    <2>4. CASE ~GoodLines(s, units, n)
      <3>1. PICK code \in Code \ {"ok"} : after[n] = Refused(code)
        BY <2>0, <2>4, <1>2
      <3>2. after[n + 1] = Refused(code)
        BY <2>2, <3>1 DEF Refused
      <3>. QED  BY <2>3, <2>4, <3>2
    <2>5. CASE GoodLines(s, units, n)
      <3>. DEFINE es == EntriesUpto(units, n)
      <3>1. after[n].code = "ok" /\ after[n].entries = es
        BY <2>0, <2>5, <1>2 DEF Loaded
      <3>2. after[n + 1] = AddLine(s, es, line)
        BY <2>2, <3>1
      <3>3. \A i \in 1..n : EntryIn(units, i) \in Entry
        BY <2>5, LineIsEntry DEF GoodLines, EntryIn
      <3>4. es \in Seq(Entry) /\ Len(es) = n
        BY <3>3 DEF EntriesUpto
      <3>5. Contains(es, line.kind, line.key) <=>
              \E i \in 1..n : EntryIn(units, i) = EntryIn(units, n + 1)
        BY <3>4 DEF Contains, EntriesUpto, EntryIn
      <3>6. IsEntryLine(s, line) => EntryIn(units, n + 1) \in Entry
        BY LineIsEntry DEF EntryIn
      <3>7. IsEntryLine(s, line) =>
              Append(es, EntryIn(units, n + 1)) = EntriesUpto(units, n + 1)
        BY <3>3, <3>6 DEF EntriesUpto
      <3>. HIDE DEF es, line, Right
      <3>8. CASE GoodLines(s, units, n + 1)
        <4>1. AddLine(s, es, line) = Loaded(Append(es, EntryIn(units, n + 1)))
          BY <2>1, <2>3, <3>4, <3>5, <3>8, AddLineAdds DEF EntryIn, line
        <4>. QED  BY <2>3, <3>2, <3>7, <3>8, <4>1 DEF Right
      <3>9. CASE ~GoodLines(s, units, n + 1)
        <4>1. \E code \in Code \ {"ok"} : AddLine(s, es, line) = Refused(code)
          BY <2>1, <2>3, <2>5, <3>4, <3>5, <3>9, AddLineAdds
        <4>. QED  BY <3>2, <3>9, <4>1 DEF Right
      <3>. QED  BY <3>8, <3>9
    <2>. QED  BY <2>4, <2>5
  <1>3. m \in S
    <2>. HIDE DEF S
    <2>. QED  BY <1>1, <1>2, SetInduction
  <1>. QED  BY <1>3

\* The lines of a text that is a store end where they should, and are what
\* the parser takes them for.
LEMMA GoodLinesAreStore ==
  ASSUME NEW s \in StoreKind, NEW units \in Seq(TextUnit), NEW m \in Nat,
         Len(units) = 2 * m + 2, Len(units) <= MaxUnits,
         units[1] = Header(s), units[2] = LF
  PROVE  /\ GoodLines(s, units, m) <=> IsStore(s, units)
         /\ GoodLines(s, units, m) => EntriesUpto(units, m) = EntriesOf(units)
  <1>0. /\ MaxEntries \in Nat /\ Len(units) \div 2 = m + 1 /\ Len(units) % 2 = 0
        /\ \A k \in 1..(2 * m + 2) : units[k] \in TextUnit
    BY EntryStoreAssumption
  <1>1. /\ \A line : IsEntryLine(s, line) => line # LF /\ line # Malformed
        /\ \A line \in TextUnit : IsEntryLine(s, line) =>
              line = [kind |-> line.kind, key |-> line.key, textOK |-> TRUE]
    <2>1. \A line : IsEntryLine(s, line) => line.kind \in {"token", "issuer"} /\ line.textOK
      BY DEF IsEntryLine, EntryKinds
    <2>2. LF.kind = "LF" /\ Malformed.kind = "malformed"
      BY DEF LF, Malformed, Line
    <2>3. \A line \in TextUnit : line.textOK =>
              line = [kind |-> line.kind, key |-> line.key, textOK |-> TRUE]
      BY DEF TextUnit
    <2>. QED  BY <2>1, <2>2, <2>3
  <1>2. ASSUME NEW i \in 1..m
        PROVE  /\ LineOf(units, i) = IF units[2 * i + 1] = LF \/ units[2 * i + 2] # LF
                                     THEN Malformed ELSE units[2 * i + 1]
               /\ 2 * i + 1 \in 1..(2 * m + 2)
    BY DEF LineOf, LineAt
  <1>3. ASSUME GoodLines(s, units, m)
        PROVE  IsStore(s, units) /\ EntriesUpto(units, m) = EntriesOf(units)
    <2>1. ASSUME NEW i \in 1..m
          PROVE  /\ LineOf(units, i) = units[2 * i + 1] /\ units[2 * i + 2] = LF
                 /\ IsEntryLine(s, units[2 * i + 1])
      BY <1>1, <1>2, <1>3 DEF GoodLines
    <2>2. \A i \in 1..(m + 1) : units[2 * i] = LF
      <3>. TAKE i \in 1..(m + 1)
      <3>1. CASE i = 1
        BY <3>1
      <3>2. CASE i # 1
        <4>1. i - 1 \in 1..m /\ 2 * (i - 1) + 2 = 2 * i
          BY <3>2
        <4>. QED  BY <2>1, <4>1
      <3>. QED  BY <3>1, <3>2
    <2>3. \A i \in 2..(m + 1) : IsEntryLine(s, units[2 * i - 1])
      <3>. TAKE i \in 2..(m + 1)
      <3>1. i - 1 \in 1..m /\ 2 * (i - 1) + 1 = 2 * i - 1
        OBVIOUS
      <3>. QED  BY <2>1, <3>1
    <2>4. \A i, j \in 2..(m + 1) : units[2 * i - 1] = units[2 * j - 1] => i = j
      <3>. TAKE i, j \in 2..(m + 1)
      <3>1. /\ i - 1 \in 1..m /\ 2 * (i - 1) + 1 = 2 * i - 1
            /\ j - 1 \in 1..m /\ 2 * (j - 1) + 1 = 2 * j - 1
        OBVIOUS
      <3>2. units[2 * i - 1] = units[2 * j - 1] => EntryIn(units, i - 1) = EntryIn(units, j - 1)
        BY <2>1, <3>1 DEF EntryIn
      <3>3. EntryIn(units, i - 1) = EntryIn(units, j - 1) => i - 1 = j - 1
        BY <1>3, <3>1 DEF GoodLines
      <3>. QED  BY <3>2, <3>3
    <2>5. m + 1 \in 1..(MaxEntries + 1)
      BY <1>0, <1>3 DEF GoodLines
    <2>6. EntriesUpto(units, m) = EntriesOf(units)
      BY <1>0, <2>1 DEF EntriesUpto, EntriesOf, EntryIn
    <2>. QED  BY <1>0, <2>2, <2>3, <2>4, <2>5, <2>6 DEF IsStore
  <1>4. ASSUME IsStore(s, units) PROVE GoodLines(s, units, m)
    <2>1. ASSUME NEW i \in 1..m
          PROVE  LineOf(units, i) = units[2 * i + 1] /\ IsEntryLine(s, units[2 * i + 1])
      <3>1. /\ i + 1 \in 2..(m + 1) /\ i + 1 \in 1..(m + 1) /\ 2 * (i + 1) - 1 = 2 * i + 1
            /\ 2 * (i + 1) = 2 * i + 2
        OBVIOUS
      <3>2. IsEntryLine(s, units[2 * i + 1]) /\ units[2 * i + 2] = LF
        BY <1>0, <1>4, <3>1 DEF IsStore
      <3>. QED  BY <1>1, <1>2, <3>2
    <2>2. ASSUME NEW i \in 1..m, NEW j \in 1..m, EntryIn(units, i) = EntryIn(units, j)
          PROVE  i = j
      <3>1. /\ i + 1 \in 2..(m + 1) /\ 2 * (i + 1) - 1 = 2 * i + 1
            /\ j + 1 \in 2..(m + 1) /\ 2 * (j + 1) - 1 = 2 * j + 1
        OBVIOUS
      <3>2. /\ units[2 * i + 1].kind = units[2 * j + 1].kind
            /\ units[2 * i + 1].key = units[2 * j + 1].key
        BY <2>1, <2>2 DEF EntryIn
      <3>3. units[2 * i + 1] = units[2 * j + 1]
        BY <1>0, <1>1, <1>2, <2>1, <3>2
      <3>4. i + 1 = j + 1
        BY <1>0, <1>4, <3>1, <3>3 DEF IsStore
      <3>. QED  BY <3>4
    <2>3. m <= MaxEntries
      BY <1>0, <1>4 DEF IsStore
    <2>. QED  BY <2>1, <2>2, <2>3 DEF GoodLines
  <1>. QED  BY <1>3, <1>4

\* A text the parser refuses before its lines is no store.
LEMMA StoreHasForm ==
  ASSUME NEW s \in StoreKind, NEW units \in Seq(TextUnit), IsStore(s, units)
  PROVE  /\ Len(units) <= MaxUnits /\ Len(units) >= 2 /\ Len(units) % 2 = 0
         /\ \A i \in DOMAIN units : units[i] # Forbidden
         /\ EndsInLF(units) /\ units[1] = Header(s) /\ units[2] = LF
  <1>. DEFINE lines == Len(units) \div 2
  <1>1. /\ lines \in Nat /\ lines >= 1 /\ Len(units) = 2 * lines /\ Len(units) <= MaxUnits
        /\ Len(units) % 2 = 0
    BY EntryStoreAssumption DEF IsStore
  <1>2. \A i \in 1..lines : units[2 * i] = LF
    BY DEF IsStore
  <1>3. units[1] = Header(s) /\ \A i \in 2..lines : IsEntryLine(s, units[2 * i - 1])
    BY DEF IsStore
  <1>. HIDE DEF lines
  <1>4. ASSUME NEW i \in DOMAIN units PROVE units[i] # Forbidden
    <2>1. \/ i = 1
          \/ \E k \in 1..lines : i = 2 * k
          \/ \E k \in 2..lines : i = 2 * k - 1
      <3>1. i \in 1..(2 * lines)
        BY <1>1
      <3>2. CASE i % 2 = 0
        <4>1. i \div 2 \in 1..lines /\ i = 2 * (i \div 2)
          BY <1>1, <3>1, <3>2
        <4>. QED  BY <4>1
      <3>3. CASE i % 2 = 1 /\ i # 1
        <4>1. (i + 1) \div 2 \in 2..lines /\ i = 2 * ((i + 1) \div 2) - 1
          BY <1>1, <3>1, <3>3
        <4>. QED  BY <4>1
      <3>. QED  BY <3>1, <3>2, <3>3
    <2>2. /\ Forbidden.kind = "forbidden" /\ LF.kind = "LF" /\ Header(s).kind = s
          /\ \A line : IsEntryLine(s, line) => line.kind \in {"token", "issuer"}
      BY DEF Forbidden, LF, Header, Line, IsEntryLine, EntryKinds
    <2>3. s # "forbidden"
      BY DEF StoreKind
    <2>. QED  BY <1>2, <1>3, <2>1, <2>2, <2>3
  <1>5. EndsInLF(units) /\ units[2] = LF
    <2>1. lines \in 1..lines /\ 1 \in 1..lines /\ 2 * 1 = 2
      BY <1>1
    <2>2. units[2 * lines] = LF /\ units[2 * 1] = LF
      BY <1>2, <2>1
    <2>. QED  BY <1>1, <2>1, <2>2 DEF EndsInLF
  <1>. QED  BY <1>1, <1>3, <1>4, <1>5

\* A refusal is a result, and leads to no "ok".
LEMMA RefusalIsResult ==
  ASSUME NEW code \in Code
  PROVE  Refused(code) \in Result /\ Refused(code).code = code /\ Refused(code).entries = <<>>
  <1>1. <<>> \in Seq(Entry) /\ Len(<<>>) = 0 /\ MaxEntries \in Nat
    BY EntryStoreAssumption
  <1>. QED  BY <1>1 DEF Refused, Result

\* qn_trust_store_parse_text and qn_revocation_store_parse_text accept exactly
\* the texts that are stores, of any length, and take their entries from them.
THEOREM ParserIsRight ==
  ASSUME NEW s \in StoreKind, NEW units \in Seq(TextUnit)
  PROVE  ParsesAsMeant(s, units) /\ ParseText(s, units) \in Result
  <1>. DEFINE early == \/ Len(units) > MaxUnits
                       \/ \E i \in DOMAIN units : units[i] = Forbidden
                       \/ ~EndsInLF(units)
                       \/ Len(units) < 2 \/ units[1] # Header(s) \/ units[2] # LF
              Refuses == \E code \in Code \ {"ok"} : ParseText(s, units) = Refused(code)
              Accepts == ParseText(s, units) = Loaded(EntriesOf(units))
  <1>0. MaxEntries \in Nat /\ MaxUnits \in Nat /\ Len(units) \in Nat
    BY EntryStoreAssumption
  <1>1. ASSUME Refuses, ~IsStore(s, units)
        PROVE  ParsesAsMeant(s, units) /\ ParseText(s, units) \in Result
    <2>1. PICK code \in Code \ {"ok"} : ParseText(s, units) = Refused(code)
      BY <1>1
    <2>. QED  BY <1>1, <2>1, RefusalIsResult DEF ParsesAsMeant
  <1>2. CASE early
    <2>1. Refuses
      BY <1>2 DEF ParseText, Code
    <2>2. ~IsStore(s, units)
      BY <1>0, <1>2, StoreHasForm
    <2>. HIDE DEF Refuses, early
    <2>. QED  BY <1>1, <2>1, <2>2
  <1>3. CASE ~early
    <2>. DEFINE m == (Len(units) - 1) \div 2
    <2>1. /\ Len(units) <= MaxUnits /\ Len(units) >= 2 /\ EndsInLF(units)
          /\ units[1] = Header(s) /\ units[2] = LF /\ ParseText(s, units) = ParseLines(s, units)
      BY <1>0, <1>3 DEF ParseText
    <2>2. m \in Nat /\ 2 * m + 1 <= Len(units)
          /\ (Len(units) = 2 * m + 2 \/ (Len(units) = 2 * m + 1 /\ m >= 1))
      BY <1>0, <2>1
    <2>. HIDE DEF m, early
    <2>3. /\ GoodLines(s, units, m) => ParseText(s, units) = Loaded(EntriesUpto(units, m))
          /\ ~GoodLines(s, units, m) => Refuses
      <3>1. PICK after :
              /\ after[0] = Loaded(<<>>)
              /\ \A n \in 1..Len(units) :
                    after[n] = IF after[n - 1].code # "ok" THEN after[n - 1]
                               ELSE AddLine(s, after[n - 1].entries, LineOf(units, n))
              /\ ParseLines(s, units) = after[m]
        BY LinesOneByOne DEF m
      <3>2. /\ GoodLines(s, units, m) => after[m] = Loaded(EntriesUpto(units, m))
            /\ ~GoodLines(s, units, m) => \E code \in Code \ {"ok"} : after[m] = Refused(code)
        BY <2>2, <3>1, LinesResult
      <3>. QED  BY <2>1, <3>1, <3>2
    <2>4. CASE Len(units) = 2 * m + 2
      <3>1. /\ GoodLines(s, units, m) <=> IsStore(s, units)
            /\ GoodLines(s, units, m) => EntriesUpto(units, m) = EntriesOf(units)
        BY <2>1, <2>2, <2>4, GoodLinesAreStore
      <3>2. CASE GoodLines(s, units, m)
        <4>1. EntriesOf(units) \in Seq(Entry) /\ Len(EntriesOf(units)) <= MaxEntries
          <5>1. \A i \in 1..m : EntryIn(units, i) \in Entry
            BY <3>2, LineIsEntry DEF GoodLines, EntryIn
          <5>2. EntriesUpto(units, m) \in Seq(Entry) /\ Len(EntriesUpto(units, m)) = m
            BY <2>2, <5>1 DEF EntriesUpto
          <5>. QED  BY <3>1, <3>2, <5>2 DEF GoodLines
        <4>2. Accepts /\ IsStore(s, units)
          BY <2>3, <3>1, <3>2
        <4>. QED  BY <4>1, <4>2 DEF ParsesAsMeant, Loaded, Result, Code
      <3>3. CASE ~GoodLines(s, units, m)
        <4>1. Refuses /\ ~IsStore(s, units)
          BY <2>3, <3>1, <3>3
        <4>. HIDE DEF Refuses
        <4>. QED  BY <1>1, <4>1
      <3>. QED  BY <3>2, <3>3
    <2>5. CASE Len(units) = 2 * m + 1 /\ m >= 1
      <3>1. LineOf(units, m) = Malformed
        BY <2>1, <2>2, <2>5 DEF LineOf, LineAt, EndsInLF
      <3>2. ~IsEntryLine(s, Malformed)
        BY DEF IsEntryLine, EntryKinds, Malformed, Line
      <3>3. m \in 1..m
        BY <2>2, <2>5
      <3>4. ~GoodLines(s, units, m)
        BY <3>1, <3>2, <3>3 DEF GoodLines
      <3>5. Refuses /\ ~IsStore(s, units)
        BY <2>2, <2>3, <2>5, <3>4, StoreHasForm
      <3>. HIDE DEF Refuses
      <3>. QED  BY <1>1, <3>5
    <2>. QED  BY <2>2, <2>4, <2>5
  <1>. QED  BY <1>2, <1>3

-----------------------------------------------------------------------------
(* Loading *)

\* While a load is under way and the file was not rewritten, what its
\* descriptor leads to is a version the path held since it began,
OpenInv(p) ==
    Begun(p) /\ calm[p] => ~rewriting /\ files[file[p]].units \in seen[p]

\* and what was read is the beginning of the version that was measured.
ReadInv(p) ==
    /\ pc[p] \in {"idle", "measure"} => data[p] = <<>>
    /\ pc[p] = "read" /\ calm[p] =>
           \E v \in seen[p] :
               /\ Len(v) = size[p] /\ Len(v) <= Len(files[file[p]].units)
               /\ \A i \in 1..size[p] : v[i] = files[file[p]].units[i]
               /\ \A i \in 1..Len(data[p]) : data[p][i] = v[i]

\* A verdict is about what was loaded, and that is a version.
VerdictInv(p) ==
    /\ answer[p].code = "ok" /\ calm[p] => \E v \in seen[p] : answer[p] = ParseText(store, v)
    /\ verdict[p] = "ok" => answer[p].code = "ok" /\ verdict[p] = Verdict(p, answer[p])
    /\ pc[p] # "done" => answer[p].code = "none" /\ verdict[p] = "none"

LoadInv(p) == OpenInv(p) /\ ReadInv(p) /\ VerdictInv(p)

IInv == TypeOK /\ \A p \in Loader : LoadInv(p)

\* A verdict is a code.
LEMMA VerdictIsCode ==
  ASSUME NEW p \in Loader, NEW loaded \in Result
  PROVE  Verdict(p, loaded) \in Code
  BY DEF Verdict, Resolve, Check, Code, Result

\* Nothing changed for q.
Same(q) ==
    /\ UNCHANGED <<store, files, named, rewriting, ask>>
    /\ pc'[q] = pc[q] /\ file'[q] = file[q] /\ size'[q] = size[q] /\ data'[q] = data[q]
    /\ answer'[q] = answer[q] /\ verdict'[q] = verdict[q]
    /\ seen'[q] = seen[q] /\ calm'[q] = calm[q]

\* A load is a matter of its loader alone.
LEMMA OthersSame ==
  ASSUME TypeOK, NEW p \in Loader, Load(p), NEW q \in Loader, q # p
  PROVE  Same(q)
  BY DEF TypeOK, Load, Open, NoFile, MeasureTrust, MeasureRevocation, Read, ShortRead, Parse,
         Fault, Finish, GoTo, Begin, adminVars, Same

\* Where nothing changed, the invariant holds as before.
LEMMA SameLoadInv ==
  ASSUME NEW q \in Loader, Same(q), LoadInv(q)
  PROVE  LoadInv(q)'
  <1>. USE DEF Same
  <1>1. Begun(q)' <=> Begun(q)
    BY DEF Begun
  <1>2. OpenInv(q)'
    BY <1>1 DEF LoadInv, OpenInv
  <1>3. ReadInv(q)'
    BY DEF LoadInv, ReadInv
  <1>4. VerdictInv(q)'
    BY DEF LoadInv, VerdictInv, Verdict
  <1>. QED  BY <1>2, <1>3, <1>4 DEF LoadInv

\* The initial states are typed, and no load has begun.
LEMMA InitInv == ASSUME Init PROVE IInv
  <1>1. TypeOK
    <2>1. PICK units \in First[store], loose \in BOOLEAN :
            files = [f \in File |-> [units |-> units, loose |-> loose]]
      BY DEF Init
    <2>2. files \in [File -> [units : Seq(TextUnit), loose : BOOLEAN]]
      BY <2>1, StoreFileAssumption DEF Init
    <2>3. answer \in [Loader -> Result] /\ verdict \in [Loader -> Code]
      BY RefusalIsResult DEF Init, Code
    <2>4. size \in [Loader -> 0..MaxUnits]
      BY EntryStoreAssumption DEF Init
    <2>5. /\ store \in StoreKind /\ named \in File \cup {None} /\ rewriting = FALSE
          /\ ask \in [Loader -> Question]
          /\ pc \in [Loader -> {"idle", "measure", "read", "done"}]
          /\ file \in [Loader -> File \cup {None}] /\ calm \in [Loader -> BOOLEAN]
      BY DEF Init
    <2>6. data \in [Loader -> Seq(TextUnit)] /\ seen \in [Loader -> SUBSET Seq(TextUnit)]
      BY DEF Init
    <2>7. \A p \in Loader : pc[p] = "idle" /\ Len(data[p]) = 0 /\ size[p] = 0
      BY DEF Init
    <2>. HIDE DEF Init
    <2>8. \A p \in Loader : /\ pc[p] \in {"measure", "read"} => file[p] # None
                            /\ Len(data[p]) <= size[p]
      BY <2>7
    <2>. QED  BY <2>2, <2>3, <2>4, <2>5, <2>6, <2>8 DEF TypeOK
  <1>2. ASSUME NEW p \in Loader PROVE LoadInv(p)
    BY DEF Init, LoadInv, OpenInv, ReadInv, VerdictInv, Begun, Refused
  <1>. QED  BY <1>1, <1>2 DEF IInv

\* A load of p that ends is typed, and as long as it ends with "ok" only with
\* a version, it keeps the invariant.
LEMMA FinishStep ==
  ASSUME IInv, NEW p \in Loader, NEW loaded \in Result, Finish(p, loaded),
         loaded.code = "ok" /\ calm[p] => \E v \in seen[p] : loaded = ParseText(store, v),
         UNCHANGED <<store, files, named, rewriting, ask, file, size, data, seen, calm>>
  PROVE  TypeOK' /\ LoadInv(p)'
  <1>1. TypeOK'
    <2>1. verdict' \in [Loader -> Code]
      BY VerdictIsCode DEF IInv, TypeOK, Finish
    <2>2. answer' \in [Loader -> Result] /\ pc' \in [Loader -> {"idle", "measure", "read", "done"}]
          /\ pc' = [pc EXCEPT ![p] = "done"]
      BY DEF IInv, TypeOK, Finish, GoTo
    <2>. QED  BY <2>1, <2>2 DEF IInv, TypeOK
  <1>2. /\ pc'[p] = "done" /\ answer'[p] = loaded /\ verdict'[p] = Verdict(p, loaded)
        /\ Verdict(p, loaded)' = Verdict(p, loaded)
    BY DEF IInv, TypeOK, Finish, GoTo, Verdict
  <1>3. Verdict(p, loaded) = "ok" => loaded.code = "ok"
    BY DEF Verdict
  <1>4. OpenInv(p)' /\ ReadInv(p)'
    BY <1>2 DEF OpenInv, ReadInv, Begun
  <1>5. VerdictInv(p)'
    <2>. HIDE DEF Finish
    <2>. QED  BY <1>2, <1>3 DEF VerdictInv, Verdict
  <1>. QED  BY <1>1, <1>4, <1>5 DEF LoadInv

\* The version the path leads to is a text.
LEMMA ContentIsText ==
  ASSUME TypeOK
  PROVE  Content \subseteq Seq(TextUnit)
  BY DEF TypeOK, Content

\* open: for a trust store, the load begins.
LEMMA OpenStep == ASSUME IInv, NEW p \in Loader, Open(p) PROVE TypeOK' /\ LoadInv(p)'
  <1>0. /\ pc[p] = "idle" /\ named # None /\ named \in File /\ pc' = [pc EXCEPT ![p] = "measure"]
        /\ file' = [file EXCEPT ![p] = named] /\ Content = {files[named].units}
        /\ UNCHANGED <<store, ask, size, data, answer, verdict, files, named, rewriting>>
        /\ \/ /\ store = "trust" /\ calm' = [calm EXCEPT ![p] = ~rewriting]
              /\ seen' = [seen EXCEPT ![p] = IF rewriting THEN {} ELSE Content]
           \/ store # "trust" /\ UNCHANGED <<seen, calm>>
    BY DEF Open, GoTo, Begin, adminVars, Content, IInv, TypeOK
  <1>1. TypeOK'
    <2>1. seen' \in [Loader -> SUBSET Seq(TextUnit)] /\ calm' \in [Loader -> BOOLEAN]
      <3>1. {} \in SUBSET Seq(TextUnit) /\ Content \in SUBSET Seq(TextUnit)
        BY ContentIsText DEF IInv
      <3>. HIDE DEF Content
      <3>2. rewriting \in BOOLEAN /\ seen \in [Loader -> SUBSET Seq(TextUnit)]
            /\ calm \in [Loader -> BOOLEAN]
        BY DEF IInv, TypeOK
      <3>. QED  BY <1>0, <3>1, <3>2
    <2>. QED  BY <1>0, <2>1 DEF IInv, TypeOK
  <1>2. pc'[p] = "measure" /\ file'[p] = named
    BY <1>0 DEF IInv, TypeOK
  <1>3. OpenInv(p)'
    <2>1. /\ store = "trust" => calm'[p] = ~rewriting
          /\ store = "trust" /\ ~rewriting => seen'[p] = {files[named].units}
      BY <1>0 DEF IInv, TypeOK
    <2>. QED  BY <1>0, <1>2, <2>1 DEF OpenInv, Begun
  <1>4. ReadInv(p)' /\ VerdictInv(p)'
    BY <1>0, <1>2 DEF ReadInv, VerdictInv, IInv, LoadInv
  <1>. QED  BY <1>1, <1>3, <1>4 DEF LoadInv

\* fseek, ftell: what is measured is a version.
LEMMA MeasureTrustStep ==
  ASSUME IInv, NEW p \in Loader, MeasureTrust(p) PROVE TypeOK' /\ LoadInv(p)'
  <1>. DEFINE length == Len(files[file[p]].units)
  <1>0. /\ pc[p] = "measure" /\ store = "trust" /\ length \in Nat /\ file[p] \in File
        /\ UNCHANGED <<store, ask, file, data, seen, calm, files, named, rewriting>>
    BY DEF MeasureTrust, adminVars, IInv, TypeOK
  <1>1. CASE length > MaxUnits
    <2>1. Finish(p, Refused("QN-E5111")) /\ UNCHANGED size
      BY <1>1 DEF MeasureTrust
    <2>2. Refused("QN-E5111") \in Result /\ Refused("QN-E5111").code # "ok"
      BY RefusalIsResult DEF Code
    <2>. QED  BY <1>0, <2>1, <2>2, FinishStep
  <1>2. CASE ~(length > MaxUnits)
    <2>1. /\ pc' = [pc EXCEPT ![p] = "read"] /\ size' = [size EXCEPT ![p] = length]
          /\ UNCHANGED <<answer, verdict>>
      BY <1>2 DEF MeasureTrust, GoTo
    <2>2. length \in 0..MaxUnits /\ MaxUnits \in Nat
      BY <1>0, <1>2, EntryStoreAssumption
    <2>3. TypeOK'
      BY <1>0, <2>1, <2>2 DEF IInv, TypeOK, LoadInv, ReadInv
    <2>4. pc'[p] = "read" /\ size'[p] = length
      BY <2>1 DEF IInv, TypeOK
    <2>5. OpenInv(p)'
      BY <1>0, <2>4 DEF OpenInv, Begun, IInv, LoadInv
    <2>6. ReadInv(p)'
      <3>1. data[p] = <<>> /\ (calm[p] => files[file[p]].units \in seen[p])
        BY <1>0 DEF IInv, LoadInv, ReadInv, OpenInv, Begun
      <3>. QED  BY <1>0, <2>4, <3>1 DEF ReadInv
    <2>7. VerdictInv(p)'
      BY <1>0, <2>1, <2>4 DEF VerdictInv, IInv, LoadInv
    <2>. QED  BY <2>3, <2>5, <2>6, <2>7 DEF LoadInv
  <1>. QED  BY <1>1, <1>2

\* fstat: only a file still in its place is measured, and the load begins.
LEMMA MeasureRevocationStep ==
  ASSUME IInv, NEW p \in Loader, MeasureRevocation(p) PROVE TypeOK' /\ LoadInv(p)'
  <1>. DEFINE length == Len(files[file[p]].units)
              refused == ~Safe(p) \/ length \notin 1..MaxUnits
              code == IF ~Safe(p) THEN "QN-E6106" ELSE IF length = 0 THEN "QN-E6103" ELSE "QN-E6102"
  <1>0. /\ pc[p] = "measure" /\ store = "revocation" /\ length \in Nat /\ file[p] \in File
        /\ UNCHANGED <<store, ask, file, data, files, named, rewriting>>
    BY DEF MeasureRevocation, adminVars, IInv, TypeOK
  <1>1. CASE refused
    <2>1. Finish(p, Refused(code)) /\ UNCHANGED <<size, seen, calm>>
      BY <1>1 DEF MeasureRevocation
    <2>2. Refused(code) \in Result /\ Refused(code).code # "ok"
      BY RefusalIsResult DEF Code
    <2>. HIDE DEF code, refused
    <2>. QED  BY <1>0, <2>1, <2>2, FinishStep
  <1>2. CASE ~refused
    <2>1. /\ pc' = [pc EXCEPT ![p] = "read"] /\ size' = [size EXCEPT ![p] = length]
          /\ calm' = [calm EXCEPT ![p] = ~rewriting]
          /\ seen' = [seen EXCEPT ![p] = IF rewriting THEN {} ELSE Content]
          /\ UNCHANGED <<answer, verdict>> /\ file[p] = named
      BY <1>2 DEF MeasureRevocation, GoTo, Begin, Safe
    <2>2. length \in 0..MaxUnits /\ Content = {files[file[p]].units}
      BY <1>0, <1>2, <2>1, StoreFileAssumption DEF Content
    <2>3. {} \in SUBSET Seq(TextUnit) /\ Content \in SUBSET Seq(TextUnit) /\ data[p] = <<>>
      BY <1>0, ContentIsText DEF IInv, LoadInv, ReadInv
    <2>. HIDE DEF refused, Content
    <2>4. TypeOK'
      <3>1. seen' \in [Loader -> SUBSET Seq(TextUnit)] /\ calm' \in [Loader -> BOOLEAN]
        BY <2>1, <2>3 DEF IInv, TypeOK
      <3>2. /\ pc' \in [Loader -> {"idle", "measure", "read", "done"}]
            /\ size' \in [Loader -> 0..MaxUnits]
            /\ \A q \in Loader : q # p => pc'[q] = pc[q] /\ size'[q] = size[q]
            /\ Len(data[p]) <= size'[p] /\ file[p] # None
        BY <1>0, <2>1, <2>2, <2>3, StoreFileAssumption DEF IInv, TypeOK
      <3>3. \A q \in Loader : /\ pc'[q] \in {"measure", "read"} => file[q] # None
                              /\ Len(data[q]) <= size'[q]
        BY <3>2 DEF IInv, TypeOK
      <3>. HIDE DEF length
      <3>. QED  BY <1>0, <2>1, <3>1, <3>2, <3>3 DEF IInv, TypeOK
    <2>5. /\ pc'[p] = "read" /\ size'[p] = length /\ calm'[p] = ~rewriting
          /\ ~rewriting => seen'[p] = {files[file[p]].units}
      BY <2>1, <2>2 DEF IInv, TypeOK
    <2>6. OpenInv(p)'
      BY <1>0, <2>5 DEF OpenInv, Begun
    <2>7. ReadInv(p)'
      <3>1. ASSUME calm'[p] PROVE files[file[p]].units \in seen'[p]
        BY <2>5, <3>1 DEF IInv, TypeOK
      <3>. QED  BY <1>0, <2>3, <2>5, <3>1 DEF ReadInv
    <2>8. VerdictInv(p)'
      BY <1>0, <2>1, <2>5 DEF VerdictInv, IInv, LoadInv
    <2>. QED  BY <2>4, <2>6, <2>7, <2>8 DEF LoadInv
  <1>. QED  BY <1>1, <1>2

\* The next byte is that of the version that was measured.
LEMMA ReadStep == ASSUME IInv, NEW p \in Loader, Read(p) PROVE TypeOK' /\ LoadInv(p)'
  <1>. DEFINE text == files[file[p]].units
              next == text[Len(data[p]) + 1]
  <1>0. /\ pc[p] = "read" /\ Len(data[p]) < size[p] /\ Len(data[p]) < Len(text)
        /\ data' = [data EXCEPT ![p] = Append(data[p], next)]
        /\ UNCHANGED <<store, pc, ask, file, size, answer, verdict, seen, calm, files, named,
                       rewriting>>
    BY DEF Read, adminVars
  <1>1. /\ text \in Seq(TextUnit) /\ data[p] \in Seq(TextUnit) /\ size[p] \in Nat
        /\ next \in TextUnit
    BY <1>0, EntryStoreAssumption DEF IInv, TypeOK
  <1>2. data'[p] = Append(data[p], next)
    BY <1>0 DEF IInv, TypeOK
  <1>3. Append(data[p], next) \in Seq(TextUnit) /\ Len(Append(data[p], next)) <= size[p]
    BY <1>0, <1>1
  <1>4. TypeOK'
    <2>. HIDE DEF next
    <2>. QED  BY <1>0, <1>2, <1>3 DEF IInv, TypeOK
  <1>5. OpenInv(p)' /\ VerdictInv(p)'
    BY <1>0 DEF IInv, LoadInv, OpenInv, VerdictInv, Begun
  <1>6. ReadInv(p)'
    <2>1. SUFFICES ASSUME calm[p] PROVE ReadInv(p)'
      BY <1>0 DEF ReadInv
    <2>2. PICK v \in seen[p] :
            /\ Len(v) = size[p] /\ Len(v) <= Len(text)
            /\ \A i \in 1..size[p] : v[i] = text[i]
            /\ \A i \in 1..Len(data[p]) : data[p][i] = v[i]
      BY <1>0, <2>1 DEF IInv, LoadInv, ReadInv
    <2>3. \A i \in 1..Len(data'[p]) : data'[p][i] = v[i]
      BY <1>0, <1>1, <1>2, <2>2
    <2>. HIDE DEF next
    <2>. QED  BY <1>0, <2>2, <2>3 DEF ReadInv
  <1>. QED  BY <1>4, <1>5, <1>6 DEF LoadInv

\* What was read in full is a version, and its parse the answer.
LEMMA ParseStep == ASSUME IInv, NEW p \in Loader, Parse(p) PROVE TypeOK' /\ LoadInv(p)'
  <1>0. /\ pc[p] = "read" /\ Len(data[p]) = size[p] /\ Finish(p, ParseText(store, data[p]))
        /\ UNCHANGED <<store, ask, file, size, data, seen, calm, files, named, rewriting>>
    BY DEF Parse, adminVars
  <1>1. store \in StoreKind /\ data[p] \in Seq(TextUnit) /\ seen[p] \subseteq Seq(TextUnit)
    BY DEF IInv, TypeOK
  <1>2. ASSUME calm[p] PROVE data[p] \in seen[p]
    <2>1. PICK v \in seen[p] : Len(v) = size[p] /\ \A i \in 1..Len(data[p]) : data[p][i] = v[i]
      BY <1>0, <1>2 DEF IInv, LoadInv, ReadInv
    <2>2. v = data[p]
      BY <1>0, <1>1, <2>1
    <2>. QED  BY <2>2
  <1>. QED  BY <1>0, <1>1, <1>2, ParserIsRight, FinishStep

\* A load without a file, cut short or failing is refused.
LEMMA RefusingStep ==
  ASSUME IInv, NEW p \in Loader, NoFile(p) \/ ShortRead(p) \/ Fault(p)
  PROVE  TypeOK' /\ LoadInv(p)'
  <1>1. /\ Finish(p, Refused(IOCode))
        /\ UNCHANGED <<store, ask, file, size, data, seen, calm, files, named, rewriting>>
    BY DEF NoFile, ShortRead, Fault, adminVars
  <1>2. Refused(IOCode) \in Result /\ Refused(IOCode).code # "ok"
    BY RefusalIsResult DEF IOCode, Code
  <1>. QED  BY <1>1, <1>2, FinishStep

\* Every step of a load keeps the invariant.
LEMMA LoadStep == ASSUME IInv, NEW p \in Loader, Load(p) PROVE IInv'
  <1>1. TypeOK' /\ LoadInv(p)'
    BY OpenStep, RefusingStep, MeasureTrustStep, MeasureRevocationStep, ReadStep, ParseStep DEF Load
  <1>2. ASSUME NEW q \in Loader, q # p PROVE LoadInv(q)'
    BY <1>2, OthersSame, SameLoadInv DEF IInv
  <1>. QED  BY <1>1, <1>2 DEF IInv

-----------------------------------------------------------------------------
(* The administrator *)

\* What an open file holds is left alone, or has become longer and is what
\* the path leads to; after a rewriting it does not matter.
Keeps(q) ==
    Begun(q) /\ calm'[q] =>
        \/ files'[file[q]] = files[file[q]]
        \/ /\ named' = file[q] /\ named' # None
           /\ \E u \in TextUnit : files'[file[q]].units = Append(files[file[q]].units, u)

\* The administrator changes neither the loads nor what is open of a file
\* that was replaced or removed, and the changes are noticed.
AdminSame ==
    /\ UNCHANGED <<store, pc, ask, file, size, data, answer, verdict>>
    /\ files' \in [File -> [units : Seq(TextUnit), loose : BOOLEAN]]
    /\ named' \in File \cup {None} /\ rewriting' \in BOOLEAN /\ (rewriting' => named' # None)
    /\ calm' = [p \in Loader |-> calm[p] /\ ~(Begun(p) /\ rewriting')]
    /\ seen' = [p \in Loader |-> IF ~calm'[p] THEN {}
                                 ELSE IF Begun(p) THEN seen[p] \cup Content' ELSE seen[p]]

Admin == Replace \/ Remove \/ Extend \/ Rewrite \/ Rewritten

\* Writing to a file leaves a file.
LEMMA WriteUnits ==
  ASSUME NEW f \in [units : Seq(TextUnit), loose : BOOLEAN], NEW t \in Seq(TextUnit)
  PROVE  /\ [f EXCEPT !.units = t] \in [units : Seq(TextUnit), loose : BOOLEAN]
         /\ [f EXCEPT !.units = t].units = t
  OBVIOUS

\* Every change of the administrator is of this kind.
LEMMA AdminKeeps ==
  ASSUME IInv, Admin
  PROVE  AdminSame /\ \A q \in Loader : Keeps(q)
  <1>0. /\ UNCHANGED <<store, pc, ask, file, size, data, answer, verdict>> /\ Notice
        /\ files \in [File -> [units : Seq(TextUnit), loose : BOOLEAN]] /\ store \in StoreKind
        /\ named \in File \cup {None} /\ rewriting \in BOOLEAN /\ (rewriting => named # None)
        /\ None \notin File
    BY StoreFileAssumption DEF Admin, Replace, Remove, Extend, Rewrite, Rewritten, loaderVars,
                               IInv, TypeOK
  <1>1. ASSUME NEW q \in Loader, Begun(q)
        PROVE  file[q] \in File /\ file[q] \in Held /\ (calm'[q] => ~rewriting')
    BY <1>0, <1>1 DEF Begun, Held, IInv, TypeOK, Notice
  <1>2. ASSUME Replace \/ Remove
        PROVE  /\ files' \in [File -> [units : Seq(TextUnit), loose : BOOLEAN]]
               /\ \A f \in Held \cap File : files'[f] = files[f]
               /\ named' \in File \cup {None} /\ rewriting' = FALSE
    <2>1. PICK new \in [units : Seq(TextUnit), loose : BOOLEAN] :
            /\ Reuse(new) /\ rewriting' = FALSE /\ named' \in File \cup {None}
      <3>1. CASE Replace
        BY <1>0, <3>1, StoreFileAssumption DEF Replace, Free
      <3>2. CASE Remove
        <4>1. [units |-> <<>>, loose |-> FALSE] \in [units : Seq(TextUnit), loose : BOOLEAN]
          OBVIOUS
        <4>2. Reuse([units |-> <<>>, loose |-> FALSE]) /\ rewriting' = FALSE /\ named' = None
          BY <3>2 DEF Remove
        <4>. QED  BY <4>1, <4>2
      <3>. QED  BY <1>2, <3>1, <3>2
    <2>. QED  BY <1>0, <2>1 DEF Reuse
  <1>3. ASSUME Extend
        PROVE  /\ files' \in [File -> [units : Seq(TextUnit), loose : BOOLEAN]]
               /\ UNCHANGED <<named, rewriting>>
               /\ \A f \in File : f # named => files'[f] = files[f]
               /\ \E u \in TextUnit : files'[named].units = Append(files[named].units, u)
    <2>1. named \in File /\ UNCHANGED <<named, rewriting>>
      BY <1>0, <1>3 DEF Extend
    <2>2. LF \in TextUnit /\ Header(store) \in TextUnit /\ Unit \subseteq TextUnit
      BY <1>0, StoreFileAssumption DEF LF, Header, Line, TextUnit, StoreKind
    <2>3. PICK u \in TextUnit : files' = [files EXCEPT ![named].units = Append(files[named].units, u)]
      BY <1>3, <2>2 DEF Extend
    <2>. DEFINE old == files[named]
                new == [old EXCEPT !.units = Append(old.units, u)]
    <2>4. old \in [units : Seq(TextUnit), loose : BOOLEAN]
      BY <1>0, <2>1
    <2>5. new \in [units : Seq(TextUnit), loose : BOOLEAN] /\ new.units = Append(old.units, u)
      <3>1. Append(old.units, u) \in Seq(TextUnit)
        BY <2>4
      <3>. HIDE DEF old
      <3>. QED  BY <2>4, <3>1, WriteUnits
    <2>6. files' = [files EXCEPT ![named] = new]
      BY <2>3
    <2>. HIDE DEF new, old
    <2>7. /\ files' \in [File -> [units : Seq(TextUnit), loose : BOOLEAN]]
          /\ files'[named] = new /\ \A f \in File : f # named => files'[f] = files[f]
      BY <1>0, <2>1, <2>5, <2>6
    <2>. QED  BY <2>1, <2>5, <2>7 DEF old
  <1>4. ASSUME Rewrite
        PROVE  /\ files' \in [File -> [units : Seq(TextUnit), loose : BOOLEAN]]
               /\ named' = named /\ named # None /\ rewriting' = TRUE
    <2>1. /\ files' = [files EXCEPT ![named] = [files[named] EXCEPT !.units = <<>>]]
          /\ named \in File /\ named' = named /\ rewriting' = TRUE
      BY <1>0, <1>4 DEF Rewrite
    <2>2. [files[named] EXCEPT !.units = <<>>] \in [units : Seq(TextUnit), loose : BOOLEAN]
      <3>1. files[named] \in [units : Seq(TextUnit), loose : BOOLEAN] /\ <<>> \in Seq(TextUnit)
        BY <1>0, <2>1
      <3>. QED  BY <3>1, WriteUnits
    <2>. QED  BY <1>0, <2>1, <2>2
  <1>5. ASSUME Rewritten PROVE UNCHANGED <<files, named>> /\ rewriting' = FALSE
    BY <1>5 DEF Rewritten
  <1>6. AdminSame
    <2>1. /\ files' \in [File -> [units : Seq(TextUnit), loose : BOOLEAN]]
          /\ named' \in File \cup {None} /\ rewriting' \in BOOLEAN
          /\ (rewriting' => named' # None)
      <3>1. CASE Replace \/ Remove
        BY <1>2, <3>1
      <3>2. CASE Extend
        BY <1>0, <1>3, <3>2
      <3>3. CASE Rewrite
        BY <1>0, <1>4, <3>3
      <3>4. CASE Rewritten
        BY <1>0, <1>5, <3>4
      <3>. QED  BY <3>1, <3>2, <3>3, <3>4 DEF Admin
    <2>. HIDE DEF Admin
    <2>. QED  BY <1>0, <2>1 DEF AdminSame, Notice
  <1>7. ASSUME NEW q \in Loader PROVE Keeps(q)
    BY <1>0, <1>1, <1>2, <1>3, <1>4, <1>5 DEF Keeps, Admin
  <1>. QED  BY <1>6, <1>7

\* So the invariant is kept.
LEMMA AdminStep == ASSUME IInv, Admin PROVE IInv'
  <1>0. AdminSame /\ \A q \in Loader : Keeps(q)
    BY AdminKeeps
  <1>. HIDE DEF Admin
  <1>1. TypeOK'
    <2>1. Content' \in SUBSET Seq(TextUnit)
      BY <1>0 DEF AdminSame, Content
    <2>2. seen' \in [Loader -> SUBSET Seq(TextUnit)] /\ calm' \in [Loader -> BOOLEAN]
      <3>. HIDE DEF Content
      <3>. QED  BY <1>0, <2>1 DEF AdminSame, IInv, TypeOK
    <2>. QED  BY <1>0, <2>2 DEF AdminSame, IInv, TypeOK
  <1>2. ASSUME NEW q \in Loader PROVE LoadInv(q)'
    <2>0. /\ UNCHANGED <<store, pc, ask, file, size, data, answer, verdict>>
          /\ calm'[q] => calm[q] /\ ~(Begun(q) /\ rewriting')
          /\ calm'[q] /\ Begun(q) => seen'[q] = seen[q] \cup Content'
          /\ calm'[q] /\ ~Begun(q) => seen'[q] = seen[q]
          /\ Begun(q)' = Begun(q) /\ Keeps(q)
      BY <1>0 DEF AdminSame, Begun
    <2>1. ASSUME calm'[q], Begun(q)
          PROVE  /\ ~rewriting' /\ calm[q] /\ files'[file[q]].units \in seen'[q]
                 /\ \/ files'[file[q]] = files[file[q]]
                    \/ \E u \in TextUnit :
                          files'[file[q]].units = Append(files[file[q]].units, u)
      <3>1. files[file[q]].units \in seen[q] /\ calm[q]
        BY <2>0, <2>1 DEF IInv, LoadInv, OpenInv
      <3>2. named' = file[q] /\ named' # None => files'[file[q]].units \in Content'
        BY DEF Content
      <3>. QED  BY <2>0, <2>1, <3>1, <3>2 DEF Keeps
    <2>2. OpenInv(q)'
      BY <2>0, <2>1 DEF OpenInv
    <2>3. ReadInv(q)'
      <3>1. SUFFICES ASSUME pc[q] = "read", calm'[q] PROVE ReadInv(q)'
        BY <2>0 DEF ReadInv, IInv, LoadInv
      <3>2. Begun(q) /\ files[file[q]].units \in Seq(TextUnit) /\ size[q] \in Nat
        BY <3>1, EntryStoreAssumption DEF Begun, IInv, TypeOK
      <3>3. PICK v \in seen[q] :
              /\ Len(v) = size[q] /\ Len(v) <= Len(files[file[q]].units)
              /\ \A i \in 1..size[q] : v[i] = files[file[q]].units[i]
              /\ \A i \in 1..Len(data[q]) : data[q][i] = v[i]
        BY <2>1, <3>1, <3>2 DEF IInv, LoadInv, ReadInv
      <3>4. /\ Len(v) <= Len(files'[file[q]].units)
            /\ \A i \in 1..size[q] : v[i] = files'[file[q]].units[i]
        BY <2>1, <3>1, <3>2, <3>3
      <3>5. v \in seen'[q]
        BY <2>0, <3>1, <3>2
      <3>. QED  BY <2>0, <3>1, <3>3, <3>4, <3>5 DEF ReadInv
    <2>4. VerdictInv(q)'
      <3>1. calm'[q] => calm[q] /\ seen[q] \subseteq seen'[q]
        BY <2>0
      <3>. QED  BY <2>0, <3>1 DEF IInv, LoadInv, VerdictInv, Verdict
    <2>. QED  BY <2>2, <2>3, <2>4 DEF LoadInv
  <1>. QED  BY <1>1, <1>2 DEF IInv

-----------------------------------------------------------------------------
(* The results *)

\* Every step preserves the invariant.
LEMMA IInvStep == ASSUME IInv, [Next]_vars PROVE IInv'
  <1>1. CASE \E p \in Loader : Load(p)
    BY <1>1, LoadStep
  <1>2. CASE Admin
    BY <1>2, AdminStep
  <1>3. CASE UNCHANGED vars
    <2>. USE <1>3 DEF vars
    <2>1. TypeOK'
      BY DEF IInv, TypeOK
    <2>2. ASSUME NEW q \in Loader PROVE LoadInv(q)'
      BY SameLoadInv DEF IInv, Same
    <2>. QED  BY <2>1, <2>2 DEF IInv
  <1>. QED  BY <1>1, <1>2, <1>3 DEF Next, Admin

\* The invariant holds in every reachable state.
THEOREM Invariance == Spec => []IInv
  <1>. QED  BY InitInv, IInvStep, PTL DEF Spec

\* Every reachable state is well typed: what was read is a text no longer than
\* what was measured, and an answer has no more entries than a store may have.
THEOREM TypeCorrect == Spec => []TypeOK
  <1>1. IInv => TypeOK
    BY DEF IInv
  <1>. QED  BY Invariance, <1>1, PTL

\* Whatever a load read, it accepts exactly the texts that are stores, and with
\* all their entries.
THEOREM Meaning == Spec => []LoadsAsMeant
  <1>1. IInv => LoadsAsMeant
    BY ParserIsRight DEF IInv, TypeOK, LoadsAsMeant
  <1>. QED  BY Invariance, <1>1, PTL

\* A command goes on only if one complete version of the store, which the path
\* held since the load began, trusts the issuer, or revokes neither the token
\* nor its issuer.
THEOREM Verdicts == Spec => []VerdictsStand
  <1>1. IInv => VerdictsStand
    <2>. SUFFICES ASSUME IInv, NEW p \in Loader, verdict[p] = "ok", calm[p]
                  PROVE  \E v \in seen[p] :
                            /\ IsStore(store, v)
                            /\ IF store = "trust" THEN Lists(v, "issuer", ask[p].issuer)
                               ELSE /\ ~Lists(v, "token", ask[p].token)
                                    /\ ~Lists(v, "issuer", ask[p].issuer)
      BY DEF VerdictsStand
    <2>1. answer[p].code = "ok" /\ Verdict(p, answer[p]) = "ok"
      BY DEF IInv, LoadInv, VerdictInv
    <2>2. PICK v \in seen[p] : answer[p] = ParseText(store, v)
      BY <2>1 DEF IInv, LoadInv, VerdictInv
    <2>3. IsStore(store, v) /\ answer[p].entries = EntriesOf(v)
      BY <2>1, <2>2, ParserIsRight DEF IInv, TypeOK, ParsesAsMeant
    <2>4. \A kind, key : Lists(v, kind, key) <=> Contains(answer[p].entries, kind, key)
      BY <2>3 DEF Lists, Contains
    <2>5. IF store = "trust" THEN Contains(answer[p].entries, "issuer", ask[p].issuer)
          ELSE /\ ~Contains(answer[p].entries, "token", ask[p].token)
               /\ ~Contains(answer[p].entries, "issuer", ask[p].issuer)
      BY <2>1 DEF Verdict, Resolve, Check
    <2>. QED  BY <2>3, <2>4, <2>5
  <1>. QED  BY Invariance, <1>1, PTL

-----------------------------------------------------------------------------
(* The refinement of StoreVersions *)

\* How far a load is, as seen from outside.
Stage == [p \in Loader |-> IF pc[p] = "done" THEN "done"
                           ELSE IF Begun(p) THEN "loading" ELSE "idle"]

\* What StoreVersions takes for parsing is parsing.
LEMMA SameParser ==
  ASSUME NEW s, NEW units
  PROVE  Versions!ParseText(s, units) = ParseText(s, units)
  BY DEF Versions!ParseText, Versions!ParseLines, Versions!LineAt, Versions!AddLine,
         Versions!TrustLineRefusal, Versions!RevocationLineRefusal, Versions!Add,
         Versions!AddRefusal, Versions!Contains, Versions!Loaded, Versions!Refused,
         Versions!LF, Versions!Malformed, Versions!Forbidden, Versions!Header, Versions!Line,
         Versions!Zero, Versions!NotHex, Versions!EndsInLF, Versions!EntryKinds,
         ParseText, ParseLines, LineAt, AddLine, TrustLineRefusal, RevocationLineRefusal,
         Add, AddRefusal, Contains, Loaded, Refused, LF, Malformed, Forbidden, Header, Line,
         Zero, NotHex, EndsInLF, EntryKinds

\* A load that ends without having changed anything else, ends with a refusal
\* or with a version.
LEMMA FinishRefines ==
  ASSUME IInv, NEW p \in Loader, NEW loaded, Finish(p, loaded), pc[p] # "done",
         UNCHANGED <<store, files, named, rewriting, seen, calm>>,
         \/ loaded.code # "ok" /\ loaded = Refused(loaded.code)
         \/ /\ pc[p] = "read"
            /\ loaded.code = "ok" /\ calm[p] => \E v \in seen[p] : loaded = ParseText(store, v)
  PROVE  Versions!Refuse(p) \/ Versions!Return(p)
  <1>1. /\ pc' = [pc EXCEPT ![p] = "done"] /\ answer' = [answer EXCEPT ![p] = loaded]
        /\ answer'[p] = loaded /\ pc \in [Loader -> {"idle", "measure", "read", "done"}]
    BY DEF Finish, GoTo, IInv, TypeOK
  <1>2. /\ Stage' = [Stage EXCEPT ![p] = "done"] /\ Stage[p] \in {"idle", "loading"}
        /\ pc[p] = "read" => Stage[p] = "loading"
    BY <1>1 DEF Stage, Begun
  <1>3. Content' = Content
    BY DEF Content
  <1>4. CASE loaded.code # "ok" /\ loaded = Refused(loaded.code)
    <2>. HIDE DEF Finish, Content
    <2>1. Versions!Refuse(p)
      BY <1>1, <1>2, <1>3, <1>4 DEF Versions!Refuse, Versions!Refused, Refused, Stage
    <2>. QED  BY <2>1
  <1>5. CASE /\ pc[p] = "read"
             /\ loaded.code = "ok" /\ calm[p] => \E v \in seen[p] : loaded = ParseText(store, v)
    <2>. HIDE DEF Finish, Content
    <2>1. Versions!Return(p)
      BY <1>1, <1>2, <1>3, <1>5, SameParser DEF Versions!Return, Stage
    <2>. QED  BY <2>1
  <1>. QED  BY <1>4, <1>5

\* A load begins, where its file is open or measured.
LEMMA BeginRefines ==
  ASSUME IInv, NEW p \in Loader, Begin(p), ~Begun(p), pc[p] \notin {"read", "done"},
         \/ store = "trust" /\ pc' = [pc EXCEPT ![p] = "measure"]
         \/ pc' = [pc EXCEPT ![p] = "read"],
         UNCHANGED <<store, files, named, rewriting, answer>>
  PROVE  Versions!Begin(p)
  <1>1. pc \in [Loader -> {"idle", "measure", "read", "done"}]
    BY DEF IInv, TypeOK
  <1>2. Stage' = [Stage EXCEPT ![p] = "loading"] /\ Stage[p] = "idle"
    BY <1>1 DEF Stage, Begun
  <1>3. Content' = Content
    BY DEF Content
  <1>. HIDE DEF Content
  <1>. QED  BY <1>2, <1>3 DEF Begin, Versions!Begin, Stage

\* What is not seen from outside.
LEMMA SilentStep ==
  ASSUME UNCHANGED <<store, files, named, rewriting, seen, calm, answer>>, Stage' = Stage
  PROVE  UNCHANGED Versions!vars
  <1>1. Content' = Content
    BY DEF Content
  <1>. HIDE DEF Content
  <1>. QED  BY <1>1 DEF Versions!vars, Stage

\* Each step of a load begins it, ends it, or is not seen.
LEMMA LoadRefines ==
  ASSUME IInv, NEW p \in Loader, Load(p)
  PROVE  Versions!Next \/ UNCHANGED Versions!vars
  <1>0. pc \in [Loader -> {"idle", "measure", "read", "done"}] /\ store \in StoreKind
    BY DEF IInv, TypeOK
  <1>1. ASSUME Versions!Begin(p) \/ Versions!Refuse(p) \/ Versions!Return(p) PROVE Versions!Next
    BY <1>1 DEF Versions!Next
  <1>2. CASE NoFile(p) \/ ShortRead(p) \/ Fault(p)
    <2>1. /\ Finish(p, Refused(IOCode)) /\ pc[p] # "done"
          /\ UNCHANGED <<store, files, named, rewriting, seen, calm>>
      BY <1>2 DEF NoFile, ShortRead, Fault, adminVars
    <2>2. Refused(IOCode).code # "ok" /\ Refused(IOCode) = Refused(Refused(IOCode).code)
      BY DEF Refused, IOCode
    <2>. QED  BY <1>1, <2>1, <2>2, FinishRefines
  <1>3. CASE Parse(p)
    <2>1. /\ pc[p] = "read" /\ Finish(p, ParseText(store, data[p]))
          /\ UNCHANGED <<store, files, named, rewriting, seen, calm>>
      BY <1>3 DEF Parse, adminVars
    <2>2. VerdictInv(p)' /\ answer'[p] = ParseText(store, data[p])
      BY <1>3, <2>1, LoadStep DEF Load, IInv, LoadInv, TypeOK, Finish
    <2>3. ParseText(store, data[p]).code = "ok" /\ calm[p] =>
            \E v \in seen[p] : ParseText(store, data[p]) = ParseText(store, v)
      BY <2>1, <2>2 DEF VerdictInv
    <2>. HIDE DEF Finish
    <2>. QED  BY <1>1, <2>1, <2>3, FinishRefines
  <1>4. CASE Open(p)
    <2>1. /\ pc[p] = "idle" /\ pc' = [pc EXCEPT ![p] = "measure"]
          /\ UNCHANGED <<store, files, named, rewriting, answer>>
          /\ IF store = "trust" THEN Begin(p) ELSE UNCHANGED <<seen, calm>>
      BY <1>4 DEF Open, GoTo, adminVars
    <2>2. CASE store = "trust"
      BY <1>1, <2>1, <2>2, BeginRefines DEF Begun
    <2>3. CASE store # "trust"
      <3>1. Stage' = Stage
        BY <1>0, <2>1, <2>3 DEF Stage, Begun
      <3>. QED  BY <2>1, <2>3, <3>1, SilentStep
    <2>. QED  BY <2>2, <2>3
  <1>5. CASE MeasureTrust(p)
    <2>1. /\ pc[p] = "measure" /\ store = "trust"
          /\ UNCHANGED <<store, files, named, rewriting, seen, calm>>
          /\ \/ Finish(p, Refused("QN-E5111"))
             \/ pc' = [pc EXCEPT ![p] = "read"] /\ UNCHANGED answer
      BY <1>5 DEF MeasureTrust, GoTo, adminVars
    <2>2. CASE Finish(p, Refused("QN-E5111"))
      <3>1. Refused("QN-E5111").code # "ok"
            /\ Refused("QN-E5111") = Refused(Refused("QN-E5111").code)
        BY DEF Refused
      <3>. QED  BY <1>1, <2>1, <2>2, <3>1, FinishRefines
    <2>3. CASE pc' = [pc EXCEPT ![p] = "read"] /\ UNCHANGED answer
      <3>1. Stage' = Stage
        BY <1>0, <2>1, <2>3 DEF Stage, Begun
      <3>. QED  BY <2>1, <2>3, <3>1, SilentStep
    <2>. QED  BY <2>1, <2>2, <2>3
  <1>6. CASE MeasureRevocation(p)
    <2>1. /\ pc[p] = "measure" /\ store = "revocation"
          /\ UNCHANGED <<store, files, named, rewriting>>
          /\ \/ /\ \E code \in {"QN-E6106", "QN-E6103", "QN-E6102"} : Finish(p, Refused(code))
                /\ UNCHANGED <<seen, calm>>
             \/ pc' = [pc EXCEPT ![p] = "read"] /\ Begin(p) /\ UNCHANGED answer
      BY <1>6 DEF MeasureRevocation, GoTo, adminVars
    <2>2. ASSUME NEW code \in {"QN-E6106", "QN-E6103", "QN-E6102"}, Finish(p, Refused(code)),
                 UNCHANGED <<seen, calm>>
          PROVE  Versions!Next
      <3>1. Refused(code).code # "ok" /\ Refused(code) = Refused(Refused(code).code)
        BY DEF Refused
      <3>. QED  BY <1>1, <2>1, <2>2, <3>1, FinishRefines
    <2>3. CASE pc' = [pc EXCEPT ![p] = "read"] /\ Begin(p) /\ UNCHANGED answer
      BY <1>1, <2>1, <2>3, BeginRefines DEF Begun
    <2>. QED  BY <2>1, <2>2, <2>3
  <1>7. CASE Read(p)
    <2>1. UNCHANGED <<store, files, named, rewriting, seen, calm, answer, pc>>
      BY <1>7 DEF Read, adminVars
    <2>. QED  BY <2>1, SilentStep DEF Stage, Begun
  <1>. QED  BY <1>2, <1>3, <1>4, <1>5, <1>6, <1>7 DEF Load

\* What the administrator does changes the file, and is noticed.
LEMMA AdminRefines ==
  ASSUME IInv, Admin
  PROVE  Versions!Next
  <1>1. AdminSame
    BY AdminKeeps
  <1>2. Stage' = Stage /\ \A p \in Loader : Begun(p) <=> Stage[p] = "loading"
    BY <1>1 DEF AdminSame, Stage, Begun
  <1>3. calm' = [p \in Loader |-> calm[p] /\ ~(Stage[p] = "loading" /\ rewriting')]
    BY <1>1, <1>2 DEF AdminSame
  <1>4. seen' = [p \in Loader |-> IF ~calm'[p] THEN {}
                                  ELSE IF Stage[p] = "loading" THEN seen[p] \cup Content'
                                  ELSE seen[p]]
    <2>. HIDE DEF Content
    <2>. QED  BY <1>1, <1>2 DEF AdminSame
  <1>. HIDE DEF Content, Admin
  <1>5. Versions!Change
    BY <1>1, <1>2, <1>3, <1>4 DEF Versions!Change, Stage, AdminSame
  <1>. QED  BY <1>5 DEF Versions!Next

\* Loading a store implements StoreVersions: it refuses, or returns at once
\* and whole a version that the path held since the load began.
THEOREM LoadingRefinement == Spec => ImplementsStoreVersions
  <1>1. Init => Versions!Init
    <2>. SUFFICES ASSUME Init PROVE Versions!Init
      OBVIOUS
    <2>1. Stage = [p \in Loader |-> "idle"]
      BY DEF Init, Stage, Begun
    <2>. QED  BY <2>1 DEF Init, Stage, Versions!Init, Versions!StoreKind, StoreKind,
                      Versions!Refused, Refused
  <1>2. IInv /\ [Next]_vars => [Versions!Next]_(Versions!vars)
    <2>. SUFFICES ASSUME IInv, [Next]_vars PROVE Versions!Next \/ UNCHANGED Versions!vars
      OBVIOUS
    <2>1. CASE \E p \in Loader : Load(p)
      BY <2>1, LoadRefines
    <2>2. CASE Admin
      BY <2>2, AdminRefines
    <2>3. CASE UNCHANGED vars
      BY <2>3, SilentStep DEF vars, Stage, Begun
    <2>. QED  BY <2>1, <2>2, <2>3 DEF Next, Admin
  <1>. QED  BY Invariance, <1>1, <1>2, PTL DEF Spec, ImplementsStoreVersions, Versions!Spec
=============================================================================
