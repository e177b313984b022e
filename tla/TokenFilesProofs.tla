-------------------------- MODULE TokenFilesProofs --------------------------
(***************************************************************************)
(* Proofs about the approval commands on their files (TokenFiles): for any *)
(* number of commands, with any command lines, on any key and token files  *)
(* that hold at first no seals but those of tokens that were sealed.       *)
(***************************************************************************)
EXTENDS TokenFiles, SequenceTheorems, TLAPS

-----------------------------------------------------------------------------
(* Cells *)

\* A sequence is a function on its indices.
LEMMA CellsForm ==
  ASSUME NEW s, IsCells(s)
  PROVE  Len(s) \in Nat /\ DOMAIN s = 1..Len(s)
  BY DEF IsCells

\* A sequence over some set is a sequence.
LEMMA CellsOver ==
  ASSUME NEW S, NEW s \in Seq(S)
  PROVE  IsCells(s)
  BY DEF IsCells

\* A function on 1..n is a sequence.
LEMMA CellsFunction ==
  ASSUME NEW n \in Nat, NEW s, s = [i \in 1..n |-> s[i]]
  PROVE  IsCells(s) /\ Len(s) = n
  <1>. DEFINE S == {s[i] : i \in DOMAIN s}
  <1>1. DOMAIN s = 1..n
    OBVIOUS
  <1>2. s \in [1..n -> S]
    BY <1>1
  <1>3. s \in Seq(S) /\ Len(s) = n
    BY <1>2
  <1>. QED  BY <1>3, CellsOver

\* Two sequences of one length with the same cells are the same.
LEMMA SameCells ==
  ASSUME NEW s, NEW t, IsCells(s), IsCells(t), Len(s) = Len(t),
         \A i \in 1..Len(s) : s[i] = t[i]
  PROVE  s = t
  <1>. DEFINE S == {s[i] : i \in DOMAIN s} \cup {t[i] : i \in DOMAIN t}
  <1>1. s \in Seq(S) /\ t \in Seq(S)
    BY DEF IsCells
  <1>. QED  BY <1>1, SeqEqual

\* Reading one cell more.
LEMMA CellsAppend ==
  ASSUME NEW s, NEW e, IsCells(s)
  PROVE  /\ IsCells(Append(s, e)) /\ Len(Append(s, e)) = Len(s) + 1
         /\ \A i \in 1..Len(s) : Append(s, e)[i] = s[i]
         /\ Append(s, e)[Len(s) + 1] = e
  <1>. DEFINE S == {s[i] : i \in DOMAIN s} \cup {e}
  <1>1. s \in Seq(S)
    BY DEF IsCells
  <1>2. e \in S
    OBVIOUS
  <1>. HIDE DEF S
  <1>3. /\ Append(s, e) \in Seq(S) /\ Len(Append(s, e)) = Len(s) + 1
        /\ \A i \in 1..Len(s) : Append(s, e)[i] = s[i]
        /\ Append(s, e)[Len(s) + 1] = e
    BY <1>1, <1>2, AppendProperties
  <1>4. IsCells(Append(s, e))
    BY <1>3, CellsOver
  <1>. QED  BY <1>3, <1>4

\* Sequences one after the other.
LEMMA CellsConcat ==
  ASSUME NEW s, NEW t, IsCells(s), IsCells(t)
  PROVE  /\ IsCells(s \o t) /\ Len(s \o t) = Len(s) + Len(t)
         /\ \A i \in 1..Len(s) : (s \o t)[i] = s[i]
         /\ \A i \in 1..Len(t) : (s \o t)[Len(s) + i] = t[i]
  <1>. DEFINE S == {s[i] : i \in DOMAIN s} \cup {t[i] : i \in DOMAIN t}
  <1>1. s \in Seq(S) /\ t \in Seq(S)
    BY DEF IsCells
  <1>. HIDE DEF S
  <1>2. /\ s \o t \in Seq(S) /\ Len(s \o t) = Len(s) + Len(t)
        /\ \A i \in 1..(Len(s) + Len(t)) :
             (s \o t)[i] = IF i <= Len(s) THEN s[i] ELSE t[i - Len(s)]
    BY <1>1, ConcatProperties
  <1>3. IsCells(s \o t)
    BY <1>2, CellsOver
  <1>4. Len(s) \in Nat /\ Len(t) \in Nat
    BY CellsForm
  <1>. QED  BY <1>2, <1>3, <1>4

\* Short sequences.
LEMMA CellsShort ==
  /\ IsCells(<<>>) /\ Len(<<>>) = 0
  /\ \A x : IsCells(<<x>>) /\ Len(<<x>>) = 1 /\ <<x>>[1] = x
  /\ \A x, y : /\ IsCells(<<x, y>>) /\ Len(<<x, y>>) = 2
               /\ <<x, y>>[1] = x /\ <<x, y>>[2] = y
  <1>1. IsCells(<<>>)
    BY DEF IsCells
  <1>2. ASSUME NEW x PROVE IsCells(<<x>>)
    <2>1. <<x>> \in Seq({x})
      OBVIOUS
    <2>. QED  BY <2>1, CellsOver
  <1>3. ASSUME NEW x, NEW y PROVE IsCells(<<x, y>>)
    <2>1. <<x, y>> \in Seq({x, y})
      OBVIOUS
    <2>. QED  BY <2>1, CellsOver
  <1>. QED  BY <1>1, <1>2, <1>3

\* Writing a cell: the file is a sequence again, and holds what it held, the
\* new cell and holes.
LEMMA PutForm ==
  ASSUME NEW cells, IsCells(cells), NEW i \in Nat, NEW cell, i >= 1
  PROVE  LET new == Put(cells, i, cell) IN
         /\ IsCells(new) /\ Len(new) = IF Len(cells) > i THEN Len(cells) ELSE i
         /\ new[i] = cell
         /\ \A k \in 1..Len(new) : k # i =>
              new[k] = IF k <= Len(cells) THEN cells[k] ELSE Hole
  <1>. DEFINE n == IF Len(cells) > i THEN Len(cells) ELSE i
              new == Put(cells, i, cell)
  <1>1. n \in Nat /\ i \in 1..n
    BY CellsForm
  <1>2. new = [k \in 1..n |-> IF k = i THEN cell ELSE IF k <= Len(cells) THEN cells[k] ELSE Hole]
    BY DEF Put
  <1>3. new = [k \in 1..n |-> new[k]]
    BY <1>2
  <1>4. IsCells(new) /\ Len(new) = n
    BY <1>1, <1>3, CellsFunction
  <1>5. \A k \in 1..n : new[k] = IF k = i THEN cell ELSE IF k <= Len(cells) THEN cells[k] ELSE Hole
    BY <1>2
  <1>. HIDE DEF new, n
  <1>6. /\ IsCells(new) /\ Len(new) = n
        /\ new[i] = cell
        /\ \A k \in 1..Len(new) : k # i =>
             new[k] = IF k <= Len(cells) THEN cells[k] ELSE Hole
    BY <1>1, <1>4, <1>5
  <1>. QED  BY <1>6 DEF new, n

-----------------------------------------------------------------------------
(* Tokens and their files *)

\* The scope and the window of a token give its fields.
LEMMA FieldsOf ==
  ASSUME NEW t, NEW x, Scope(t) = Scope(x), Window(t) = Window(x)
  PROVE  /\ t.format = x.format /\ t.issuer = x.issuer /\ t.cap = x.cap
         /\ t.source = x.source /\ t.issued = x.issued /\ t.expires = x.expires
         /\ t.nonce = x.nonce
  BY DEF Scope, Window

\* The cells of what a seal is computed over.
LEMMA PrefixForm ==
  ASSUME NEW t, IsCells(t.context)
  PROVE  /\ IsCells(Prefix(t)) /\ Len(Prefix(t)) = 2 + Len(t.context)
         /\ Prefix(t)[1] = Scope(t) /\ Prefix(t)[2] = Window(t)
         /\ \A i \in 1..Len(t.context) : Prefix(t)[2 + i] = t.context[i]
  <1>. DEFINE two == <<Scope(t), Window(t)>>
  <1>1. /\ IsCells(two) /\ Len(two) = 2 /\ two[1] = Scope(t) /\ two[2] = Window(t)
    BY CellsShort
  <1>2. Prefix(t) = two \o t.context
    BY DEF Prefix
  <1>3. Len(t.context) \in Nat
    BY CellsForm
  <1>. DEFINE context == t.context
  <1>. HIDE DEF two, context
  <1>4. /\ IsCells(two \o context) /\ Len(two \o context) = Len(two) + Len(context)
        /\ \A i \in 1..Len(two) : (two \o context)[i] = two[i]
        /\ \A i \in 1..Len(context) : (two \o context)[Len(two) + i] = context[i]
    <2>1. IsCells(context)
      BY DEF context
    <2>2. IsCells(two)
      BY <1>1
    <2>. QED  BY ONLY <2>1, <2>2, CellsConcat
  <1>. QED  BY <1>1, <1>2, <1>3, <1>4 DEF context

\* What is sealed determines every field of the token.
LEMMA PrefixDetermines ==
  ASSUME NEW t, NEW x, IsCells(t.context), IsCells(x.context), Prefix(t) = Prefix(x)
  PROVE  Scope(t) = Scope(x) /\ Window(t) = Window(x) /\ t.context = x.context
  <1>1. Scope(t) = Scope(x) /\ Window(t) = Window(x)
    BY PrefixForm
  <1>2. Len(t.context) \in Nat /\ Len(x.context) \in Nat
    BY CellsForm
  <1>3. Len(t.context) = Len(x.context)
    BY <1>2, PrefixForm
  <1>4. \A i \in 1..Len(t.context) : t.context[i] = x.context[i]
    BY <1>3, PrefixForm
  <1>. QED  BY <1>1, <1>3, <1>4, SameCells

\* A token whose seal is that of a token somebody made, and is over its own
\* fields, is that token.
LEMMA SealDetermines ==
  ASSUME NEW t, NEW x, NEW key, IsToken(x), IsCells(t.context),
         t = [format |-> t.format, issuer |-> t.issuer, cap |-> t.cap,
              source |-> t.source, issued |-> t.issued, expires |-> t.expires,
              nonce |-> t.nonce, context |-> t.context, seal |-> t.seal],
         t.seal = Seal(key, Prefix(t)), t.seal = x.seal
  PROVE  t = x
  <1>1. x.seal = Seal(x.seal.by, Prefix(x)) /\ IsCells(x.context)
    BY DEF IsToken
  <1>2. Prefix(t) = Prefix(x)
    BY <1>1 DEF Seal
  <1>3. Scope(t) = Scope(x) /\ Window(t) = Window(x) /\ t.context = x.context
    BY <1>1, <1>2, PrefixDetermines
  <1>4. x = [format |-> x.format, issuer |-> x.issuer, cap |-> x.cap,
             source |-> x.source, issued |-> x.issued, expires |-> x.expires,
             nonce |-> x.nonce, context |-> x.context, seal |-> x.seal]
    BY <1>1 DEF IsToken
  <1>. QED  BY <1>3, <1>4, FieldsOf

\* The cells of a token's file.
LEMMA EncodeForm ==
  ASSUME NEW scheme, NEW t, IsCells(t.context)
  PROVE  LET cells == Encode(scheme, t)  n == Len(t.context) IN
         /\ IsCells(cells) /\ n \in Nat
         /\ Len(cells) = IF scheme = "ed25519" THEN 3 + n ELSE 4 + n
         /\ cells[1] = Scope(t) /\ cells[2] = Window(t)
         /\ \A i \in 1..n : cells[2 + i] = t.context[i]
         /\ cells[3 + n] = t.seal
         /\ scheme # "ed25519" => cells[4 + n] = LF
  <1>. DEFINE n == Len(t.context)  end == IF scheme = "ed25519" THEN <<>> ELSE <<LF>>
              sealed == Prefix(t) \o <<t.seal>>
  <1>1. n \in Nat /\ IsCells(Prefix(t)) /\ Len(Prefix(t)) = 2 + n
    BY CellsForm, PrefixForm
  <1>2. /\ Prefix(t)[1] = Scope(t) /\ Prefix(t)[2] = Window(t)
        /\ \A i \in 1..n : Prefix(t)[2 + i] = t.context[i]
    BY PrefixForm
  <1>3. IsCells(<<t.seal>>) /\ Len(<<t.seal>>) = 1 /\ <<t.seal>>[1] = t.seal
    BY CellsShort
  <1>4. /\ IsCells(end) /\ Len(end) = IF scheme = "ed25519" THEN 0 ELSE 1
        /\ scheme # "ed25519" => end[1] = LF
    BY CellsShort
  <1>5. Encode(scheme, t) = sealed \o end
    BY DEF Encode, Prefix
  <1>. HIDE DEF n, end
  <1>6. /\ IsCells(sealed) /\ Len(sealed) = 3 + n
        /\ \A i \in 1..(2 + n) : sealed[i] = Prefix(t)[i]
        /\ sealed[3 + n] = t.seal
    BY <1>1, <1>3, CellsConcat
  <1>. HIDE DEF sealed
  <1>7. /\ IsCells(sealed \o end) /\ Len(sealed \o end) = 3 + n + Len(end)
        /\ \A i \in 1..(3 + n) : (sealed \o end)[i] = sealed[i]
        /\ \A i \in 1..Len(end) : (sealed \o end)[3 + n + i] = end[i]
    <2>1. /\ IsCells(sealed \o end) /\ Len(sealed \o end) = Len(sealed) + Len(end)
          /\ \A i \in 1..Len(sealed) : (sealed \o end)[i] = sealed[i]
          /\ \A i \in 1..Len(end) : (sealed \o end)[Len(sealed) + i] = end[i]
      <3>1. IsCells(sealed) /\ IsCells(end)
        BY <1>4, <1>6
      <3>. QED  BY ONLY <3>1, CellsConcat
    <2>2. Len(sealed) = 3 + n
      BY <1>6
    <2>. QED  BY <2>1, <2>2
  <1>8. /\ IsCells(sealed \o end) /\ n \in Nat
        /\ Len(sealed \o end) = IF scheme = "ed25519" THEN 3 + n ELSE 4 + n
        /\ (sealed \o end)[1] = Scope(t) /\ (sealed \o end)[2] = Window(t)
        /\ \A i \in 1..n : (sealed \o end)[2 + i] = t.context[i]
        /\ (sealed \o end)[3 + n] = t.seal
        /\ scheme # "ed25519" => (sealed \o end)[4 + n] = LF
    <2>1. ASSUME scheme # "ed25519" PROVE (sealed \o end)[4 + n] = LF
      <3>1. 1 \in 1..Len(end) /\ end[1] = LF /\ (3 + n) + 1 = 4 + n
        BY <1>1, <1>4, <2>1
      <3>. QED  BY <1>7, <3>1
    <2>2. (sealed \o end)[1] = Scope(t) /\ (sealed \o end)[2] = Window(t)
      BY <1>1, <1>2, <1>6, <1>7
    <2>3. ASSUME NEW i \in 1..n PROVE (sealed \o end)[2 + i] = t.context[i]
      <3>1. 2 + i \in 1..(2 + n) /\ 2 + i \in 1..(3 + n)
        BY <1>1
      <3>. QED  BY <1>2, <1>6, <1>7, <3>1
    <2>4. (sealed \o end)[3 + n] = t.seal
      BY <1>1, <1>6, <1>7
    <2>5. Len(sealed \o end) = IF scheme = "ed25519" THEN 3 + n ELSE 4 + n
      BY <1>1, <1>4, <1>7
    <2>. QED  BY <1>1, <1>7, <2>1, <2>2, <2>3, <2>4, <2>5
  <1>. QED  BY <1>5, <1>8 DEF n

\* The token a command makes is sealed over its own fields.
LEMMA NewTokenForm ==
  ASSUME NEW p, NEW j, NEW key, IsJob(j), j.role = "issue"
  PROVE  LET t == NewToken(p, j, key)  signed == j.scheme = "ed25519" IN
         /\ t.format = IF signed THEN "QNAT1" ELSE "V04"
         /\ t.issuer = IF signed THEN PublicOf(key) ELSE <<>>
         /\ t.cap = j.cap /\ t.source = j.program
         /\ t.issued = j.issued /\ t.expires = j.expires
         /\ t.context = IF signed THEN j.context ELSE <<>>
         /\ t.seal = Seal(IF signed THEN PublicOf(key) ELSE key, Prefix(t))
         /\ IsToken(t)
         /\ \A i \in DOMAIN t.context : t.context[i].kind = "context"
  <1>. DEFINE signed == j.scheme = "ed25519"
              plain == [format |-> IF signed THEN "QNAT1" ELSE "V04",
                       issuer |-> IF signed THEN PublicOf(key) ELSE <<>>,
                       cap |-> j.cap, source |-> j.program,
                       issued |-> j.issued, expires |-> j.expires,
                       nonce |-> IF j.nonce # "none" THEN j.nonce
                                 ELSE IF signed THEN p ELSE "derived",
                       context |-> IF signed THEN j.context ELSE <<>>,
                       seal |-> "none"]
              by == IF signed THEN PublicOf(key) ELSE key
              t == NewToken(p, j, key)
  <1>1. t = [plain EXCEPT !.seal = Seal(by, Prefix(plain))]
    BY DEF NewToken
  <1>2. /\ t.format = IF signed THEN "QNAT1" ELSE "V04"
        /\ t.issuer = IF signed THEN PublicOf(key) ELSE <<>>
        /\ t.cap = j.cap /\ t.source = j.program
        /\ t.issued = j.issued /\ t.expires = j.expires
        /\ t.nonce = plain.nonce
        /\ t.context = IF signed THEN j.context ELSE <<>>
        /\ t.seal = Seal(by, Prefix(plain))
    BY <1>1
  <1>3. t = [format |-> t.format, issuer |-> t.issuer, cap |-> t.cap,
             source |-> t.source, issued |-> t.issued, expires |-> t.expires,
             nonce |-> t.nonce, context |-> t.context, seal |-> t.seal]
    BY <1>1
  <1>4. Prefix(t) = Prefix(plain)
    BY <1>2 DEF Prefix, Scope, Window
  <1>5. t.seal.by = by
    BY <1>2 DEF Seal
  <1>6. /\ IsCells(t.context) /\ \A i \in DOMAIN t.context : t.context[i].kind = "context"
        /\ t.issued \in Nat /\ t.expires \in Nat
    <2>1. IsCells(<<>>) /\ DOMAIN <<>> = {}
      BY CellsShort
    <2>2. /\ j.issued \in Nat /\ j.expires \in Nat /\ IsCells(j.context)
          /\ \A i \in DOMAIN j.context : j.context[i].kind = "context"
      BY DEF IsJob
    <2>. HIDE DEF t, plain
    <2>. QED  BY <1>2, <2>1, <2>2
  <1>. HIDE DEF t, plain, by
  <1>7. t.seal = Seal(t.seal.by, Prefix(t))
    BY <1>2, <1>4, <1>5
  <1>8. IsToken(t)
    BY <1>3, <1>6, <1>7 DEF IsToken
  <1>9. t.seal = Seal(by, Prefix(t))
    BY <1>2, <1>4
  <1>. QED  BY <1>2, <1>6, <1>8, <1>9 DEF t, by

\* A signed file that decodes to a token has a cell for each piece of it.
LEMMA DecodedSigned ==
  ASSUME NEW cells, NEW T, IsTokenFile(cells, T), DecodeSigned(cells).code = "ok"
  PROVE  LET n == cells[2].length IN
         /\ DecodeSigned(cells).token = TokenOf(cells, n)
         /\ n \in Nat /\ Len(cells) = 3 + n /\ cells[1].kind = "scope"
  <1>1. /\ Len(cells) \in 3..(3 + MaxContext) /\ cells[1].kind = "scope" /\ SizeOK(cells)
        /\ DecodeSigned(cells) = Accepted(cells, cells[2].length)
    BY DEF DecodeSigned, Refused
  <1>2. Len(cells) \in Nat /\ DOMAIN cells = 1..Len(cells)
    BY CellsForm DEF IsTokenFile
  <1>3. 2 \in DOMAIN cells
    BY <1>1, <1>2, ApprovalTokenAssumption
  <1>4. cells[2].length \in Nat
    BY <1>3 DEF IsTokenFile
  <1>. QED  BY <1>1, <1>4 DEF Accepted, SizeOK

\* So does one with a MAC; it has no context.
LEMMA DecodedHmac ==
  ASSUME NEW cells, DecodeHmac(cells).code = "ok"
  PROVE  DecodeHmac(cells).token = TokenOf(cells, 0) /\ Len(cells) \in {3, 4}
  BY DEF DecodeHmac, Refused, Accepted

\* Either way, the seal of the token read is a cell of the file.
LEMMA DecodedToken ==
  ASSUME NEW cells, NEW T, NEW scheme, IsTokenFile(cells, T),
         Decode(scheme, cells).code = "ok"
  PROVE  LET t == Decode(scheme, cells).token IN
         /\ t = [format |-> t.format, issuer |-> t.issuer, cap |-> t.cap,
                 source |-> t.source, issued |-> t.issued, expires |-> t.expires,
                 nonce |-> t.nonce, context |-> t.context, seal |-> t.seal]
         /\ IsCells(t.context)
         /\ \E i \in DOMAIN cells : t.seal = cells[i]
  <1>1. Len(cells) \in Nat /\ DOMAIN cells = 1..Len(cells)
    BY CellsForm DEF IsTokenFile
  <1>2. PICK n \in Nat : Decode(scheme, cells).token = TokenOf(cells, n) /\ Len(cells) >= 3 + n
    <2>1. CASE scheme = "ed25519"
      BY <2>1, <1>1, DecodedSigned DEF Decode
    <2>2. CASE scheme # "ed25519"
      <3>1. Decode(scheme, cells) = DecodeHmac(cells)
        BY <2>2 DEF Decode
      <3>2. DecodeHmac(cells).token = TokenOf(cells, 0) /\ Len(cells) \in {3, 4}
        BY <3>1, DecodedHmac
      <3>3. Len(cells) >= 3 + 0 /\ 0 \in Nat
        BY <3>2
      <3>. QED  BY <3>1, <3>2, <3>3
    <2>. QED  BY <2>1, <2>2
  <1>. DEFINE t == TokenOf(cells, n)
  <1>3. t = [format |-> t.format, issuer |-> t.issuer, cap |-> t.cap,
             source |-> t.source, issued |-> t.issued, expires |-> t.expires,
             nonce |-> t.nonce, context |-> t.context, seal |-> t.seal]
    BY DEF TokenOf
  <1>4. t.context = SubSeq(cells, 3, 2 + n) /\ t.seal = cells[3 + n]
    BY DEF TokenOf
  <1>5. IsCells(t.context)
    <2>. DEFINE S == {cells[i] : i \in 3..(2 + n)}
    <2>1. \A i \in 3..(2 + n) : cells[i] \in S
      OBVIOUS
    <2>. HIDE DEF S, t
    <2>2. 3 \in Int /\ 2 + n \in Int
      OBVIOUS
    <2>3. SubSeq(cells, 3, 2 + n) \in Seq(S)
      BY <2>1, <2>2, SubSeqProperties
    <2>. QED  BY <1>4, <2>3, CellsOver
  <1>6. 3 + n \in DOMAIN cells
    BY <1>1, <1>2
  <1>. HIDE DEF t
  <1>. QED  BY <1>2, <1>3, <1>4, <1>5, <1>6 DEF t

-----------------------------------------------------------------------------
(* The inductive invariant *)

\* A file that is not open has no size and no cell written.
IdleInv == \A p \in Process : ~open[p] => size[p] = 0 /\ at[p] = 0

\* A command has read nothing of the files it comes to later.
UnreadInv ==
  \A p \in Process :
    /\ job[p].role = "keygen" /\ stage[p] < 3 => got[p]["public"] = <<>>
    /\ job[p].role = "verify" /\ stage[p] = 1 =>
         got[p]["public"] = <<>> /\ got[p]["secret"] = <<>>

\* Whatever is in a token file, or was read of one, its seals are those of
\* tokens that were sealed.
SealInv ==
  /\ IsTokenFile(content["token"], Sealed)
  /\ \A p \in Process : IsTokenFile(got[p]["token"], Sealed)

\* A token is made for a request that was granted.
GrantInv == \A p \in Process : HasIssued(p) => IssueRefusal(job[p]) = "ok"

\* A verifier that is through with the token file has decoded it, and one
\* that approves has verified it under the key it went by.
DecodeInv ==
  \A p \in Process : job[p].role = "verify" /\ stage[p] > 1 =>
    Decode(job[p].scheme, got[p]["token"]).code = "ok"
VerdictInv ==
  \A p \in Process : Verified(p) => VerifyWithKey(p, ReadToken(p), UsedKey(p)) = "ok"

\* What the checks of the file a command is at come to.
Refusal(p) == IF File(p) = "token" THEN TokenRefusal(p) ELSE KeyRefusal(p)

\* A verifier that refuses does so for what it read.
RefusalInv ==
  \A p \in Process : job[p].role = "verify" /\ outcome[p] \notin {"none", "ok", "io"} =>
    stage[p] \in DOMAIN Plan(job[p]) /\ outcome[p] = Refusal(p)

\* The first n cells of a sequence.
Start(cells, n) == [i \in 1..n |-> cells[i]]

KeyWriter(p) == job[p].role \in {"keygen", "derive"}
OnlyWriter(p) == KeyWriter(p) /\ \A q \in Process \ {p} : ~KeyWriter(q)

\* How far the only command that writes keys has come with them.
GenerateInv ==
  \A p \in Process : OnlyWriter(p) /\ job[p].role = "keygen" =>
    /\ stage[p] = 1 /\ open[p] => content["private"] = Start(Private(p), at[p])
    /\ stage[p] > 1 => content["private"] = Private(p)
    /\ stage[p] = 2 /\ open[p] => content["public"] = Start(PublicOf(Private(p)), at[p])
    /\ stage[p] > 2 => content["public"] = PublicOf(Private(p))
DeriveInv ==
  \A p \in Process : OnlyWriter(p) /\ job[p].role = "derive" =>
    LET read == got[p]["private"] IN
    /\ Len(read) <= Len(content["private"])
    /\ read = Start(content["private"], Len(read))
    /\ stage[p] = 1 /\ open[p] => size[p] = Len(content["private"])
    /\ stage[p] > 1 => read = content["private"]
    /\ stage[p] = 2 /\ open[p] => content["public"] = Start(PublicOf(read), at[p])
    /\ stage[p] > 2 => content["public"] = PublicOf(read)

\* A command that ended well is through with its plan.
EndInv == \A p \in Process : outcome[p] = "ok" => stage[p] = Len(Plan(job[p])) + 1

IInv ==
  /\ TypeOK /\ IdleInv /\ UnreadInv /\ SealInv /\ GrantInv /\ DecodeInv
  /\ VerdictInv /\ RefusalInv /\ GenerateInv /\ DeriveInv /\ EndInv

-----------------------------------------------------------------------------
(* Steps *)

\* The plan of each command.
LEMMA PlanForm ==
  ASSUME NEW j, IsJob(j)
  PROVE  /\ j.role = "none" => Plan(j) = <<>>
         /\ j.role = "keygen" =>
              Plan(j) = <<WriteFile("private"), WriteFile("public"), ReadFile("public")>>
         /\ j.role = "derive" => Plan(j) = <<ReadFile("private"), WriteFile("public")>>
         /\ j.role = "issue" /\ j.scheme = "ed25519" =>
              Plan(j) = <<ReadFile("private"), WriteFile("token")>>
         /\ j.role = "issue" /\ j.scheme = "hmac-sha256" =>
              Plan(j) = <<ReadFile("secret"), WriteFile("token")>>
         /\ j.role = "verify" /\ j.scheme = "hmac-sha256" =>
              Plan(j) = <<ReadFile("token"), ReadFile("secret")>>
         /\ j.role = "verify" /\ j.scheme = "ed25519" /\ j.keyFrom = "store" =>
              Plan(j) = <<ReadFile("token")>>
         /\ j.role = "verify" /\ j.scheme = "ed25519" /\ j.keyFrom # "store" =>
              Plan(j) = <<ReadFile("token"), ReadFile("public")>>
  BY DEF Plan

\* The files a command comes to, by what it is.
AtRead(r, scheme, from, n, f) ==
  \/ r = "keygen" /\ n = 3 /\ f = "public"
  \/ r = "derive" /\ n = 1 /\ f = "private"
  \/ r = "issue" /\ scheme = "ed25519" /\ n = 1 /\ f = "private"
  \/ r = "issue" /\ scheme = "hmac-sha256" /\ n = 1 /\ f = "secret"
  \/ r = "verify" /\ n = 1 /\ f = "token"
  \/ r = "verify" /\ scheme = "hmac-sha256" /\ n = 2 /\ f = "secret"
  \/ r = "verify" /\ scheme = "ed25519" /\ from # "store" /\ n = 2 /\ f = "public"
AtWrite(r, n, f) ==
  \/ r = "keygen" /\ n = 1 /\ f = "private"
  \/ r = "keygen" /\ n = 2 /\ f = "public"
  \/ r = "derive" /\ n = 2 /\ f = "public"
  \/ r = "issue" /\ n = 2 /\ f = "token"

\* Every step of every plan is one of these.
LEMMA PlanSteps ==
  ASSUME NEW j, IsJob(j)
  PROVE  /\ Len(Plan(j)) \in 0..3 /\ DOMAIN Plan(j) = 1..Len(Plan(j))
         /\ \A n \in DOMAIN Plan(j) :
              /\ Plan(j)[n].do \in {"read", "write"}
              /\ Plan(j)[n].do = "read" =>
                   AtRead(j.role, j.scheme, j.keyFrom, n, Plan(j)[n].file)
              /\ Plan(j)[n].do = "write" => AtWrite(j.role, n, Plan(j)[n].file)
  <1>1. j.role \in {"none", "keygen", "derive", "issue", "verify"}
    BY DEF IsJob, Role
  <1>2. CASE j.role = "none"
    BY <1>2, PlanForm
  <1>3. CASE j.role = "keygen"
    BY <1>3, PlanForm DEF ReadFile, WriteFile, AtRead, AtWrite
  <1>4. CASE j.role = "derive"
    BY <1>4, PlanForm DEF ReadFile, WriteFile, AtRead, AtWrite
  <1>5. CASE j.role = "issue"
    <2>1. j.scheme \in {"ed25519", "hmac-sha256"}
      BY <1>5 DEF IsJob, Scheme
    <2>2. CASE j.scheme = "ed25519"
      BY <1>5, <2>2, PlanForm DEF ReadFile, WriteFile, AtRead, AtWrite
    <2>3. CASE j.scheme = "hmac-sha256"
      BY <1>5, <2>3, PlanForm DEF ReadFile, WriteFile, AtRead, AtWrite
    <2>. QED  BY <2>1, <2>2, <2>3
  <1>6. CASE j.role = "verify"
    <2>1. j.scheme \in {"ed25519", "hmac-sha256"}
      BY <1>6 DEF IsJob, Scheme
    <2>2. CASE j.scheme = "hmac-sha256"
      BY <1>6, <2>2, PlanForm DEF ReadFile, WriteFile, AtRead, AtWrite
    <2>3. CASE j.scheme = "ed25519" /\ j.keyFrom = "store"
      BY <1>6, <2>3, PlanForm DEF ReadFile, WriteFile, AtRead, AtWrite
    <2>4. CASE j.scheme = "ed25519" /\ j.keyFrom # "store"
      BY <1>6, <2>4, PlanForm DEF ReadFile, WriteFile, AtRead, AtWrite
    <2>. QED  BY <2>1, <2>2, <2>3, <2>4
  <1>. QED  BY <1>1, <1>2, <1>3, <1>4, <1>5, <1>6

\* What the types say of the variables, apart from the places in the plans.
Typed ==
  /\ \A p \in Process : IsJob(job[p])
  /\ DOMAIN content = Path /\ \A f \in Path : IsCells(content[f])
  /\ stage \in [Process -> 1..4] /\ open \in [Process -> BOOLEAN]
  /\ size \in [Process -> Nat] /\ at \in [Process -> Nat]
  /\ DOMAIN got = Process /\ DOMAIN outcome = Process
  /\ \A p \in Process : DOMAIN got[p] = Path /\ \A f \in Path : IsCells(got[p][f])

PlacesOK ==
  \A p \in Process :
    /\ ~Ended(p) => stage[p] \in DOMAIN Plan(job[p])
    /\ Reading(p) => Len(got[p][File(p)]) <= size[p]
    /\ Writing(p) => at[p] <= Len(Output(p))

LEMMA TypeParts == TypeOK <=> Typed /\ PlacesOK
  BY DEF TypeOK, Typed, PlacesOK

\* Where a command is that reads or writes.
LEMMA Where ==
  ASSUME Typed, PlacesOK, NEW p \in Process
  PROVE  /\ ~Ended(p) => Reading(p) \/ Writing(p)
         /\ Reading(p) => /\ AtRead(job[p].role, job[p].scheme, job[p].keyFrom, stage[p], File(p))
                          /\ ~Ended(p) /\ ~Writing(p) /\ File(p) \in Path
         /\ Writing(p) => /\ AtWrite(job[p].role, stage[p], File(p))
                          /\ ~Ended(p) /\ ~Reading(p) /\ File(p) \in Path
  <1>1. IsJob(job[p])
    BY DEF Typed
  <1>2. ASSUME ~Ended(p) PROVE stage[p] \in DOMAIN Plan(job[p])
    BY <1>2 DEF PlacesOK
  <1>3. ASSUME ~Ended(p) PROVE Reading(p) \/ Writing(p)
    BY <1>1, <1>2, <1>3, PlanSteps DEF Reading, Writing
  <1>4. ASSUME Reading(p)
        PROVE  /\ AtRead(job[p].role, job[p].scheme, job[p].keyFrom, stage[p], File(p))
               /\ ~Ended(p) /\ ~Writing(p) /\ File(p) \in Path
    <2>1. ~Ended(p) /\ Plan(job[p])[stage[p]].do = "read"
      BY <1>4 DEF Reading
    <2>2. AtRead(job[p].role, job[p].scheme, job[p].keyFrom, stage[p], File(p))
      BY <1>1, <1>2, <2>1, PlanSteps DEF File
    <2>. QED  BY <2>1, <2>2 DEF AtRead, Path, Writing
  <1>5. ASSUME Writing(p)
        PROVE  /\ AtWrite(job[p].role, stage[p], File(p))
               /\ ~Ended(p) /\ ~Reading(p) /\ File(p) \in Path
    <2>1. ~Ended(p) /\ Plan(job[p])[stage[p]].do = "write"
      BY <1>5 DEF Writing
    <2>2. AtWrite(job[p].role, stage[p], File(p))
      BY <1>1, <1>2, <2>1, PlanSteps DEF File
    <2>. QED  BY <2>1, <2>2 DEF AtWrite, Path, Reading
  <1>. QED  BY <1>3, <1>4, <1>5

\* What a step leaves as it was of another command.
Untouched(q) ==
  /\ stage'[q] = stage[q] /\ open'[q] = open[q] /\ size'[q] = size[q]
  /\ at'[q] = at[q] /\ got'[q] = got[q] /\ outcome'[q] = outcome[q]

\* The state of a command and the questions about it depend on its own
\* variables.
LEMMA SameView ==
  ASSUME NEW q, job' = job, stage'[q] = stage[q], got'[q] = got[q], outcome'[q] = outcome[q]
  PROVE  /\ Ended(q)' = Ended(q) /\ File(q)' = File(q)
         /\ Reading(q)' = Reading(q) /\ Writing(q)' = Writing(q)
         /\ PrivateKey(q)' = PrivateKey(q) /\ IssuedToken(q)' = IssuedToken(q)
         /\ HasIssued(q)' = HasIssued(q) /\ Output(q)' = Output(q)
         /\ Verified(q)' = Verified(q) /\ ReadToken(q)' = ReadToken(q)
         /\ UsedKey(q)' = UsedKey(q) /\ TokenRefusal(q)' = TokenRefusal(q)
         /\ KeyRefusal(q)' = KeyRefusal(q)
         /\ \A token, key : VerifyWithKey(q, token, key)' = VerifyWithKey(q, token, key)
  <1>1. /\ Ended(q)' = Ended(q) /\ File(q)' = File(q)
        /\ HasIssued(q)' = HasIssued(q) /\ Verified(q)' = Verified(q)
        /\ ReadToken(q)' = ReadToken(q)
        /\ PrivateKey(q)' = PrivateKey(q) /\ IssuedToken(q)' = IssuedToken(q)
    BY DEF Ended, File, HasIssued, Verified, ReadToken, PrivateKey, IssuedToken
  <1>2. /\ Reading(q)' = Reading(q) /\ Writing(q)' = Writing(q)
    BY <1>1 DEF Reading, Writing
  <1>3. Output(q)' = Output(q)
    BY <1>1 DEF Output
  <1>4. UsedKey(q)' = UsedKey(q)
    BY <1>1 DEF UsedKey
  <1>5. \A token, key : VerifyWithKey(q, token, key)' = VerifyWithKey(q, token, key)
    BY DEF VerifyWithKey
  <1>6. TokenRefusal(q)' = TokenRefusal(q)
    BY DEF TokenRefusal, VerifyWithKey
  <1>7. KeyRefusal(q)' = KeyRefusal(q)
    BY <1>1 DEF KeyRefusal, VerifyWithKey
  <1>. QED  BY <1>1, <1>2, <1>3, <1>4, <1>5, <1>6, <1>7

\* What the end of a command changes.
LEMMA FinishEffect ==
  ASSUME Typed, NEW p \in Process, NEW code, Finish(p, code)
  PROVE  /\ stage' = stage /\ outcome'[p] = code /\ DOMAIN outcome' = Process
         /\ open'[p] = FALSE /\ size'[p] = 0 /\ at'[p] = 0
         /\ open' \in [Process -> BOOLEAN] /\ size' \in [Process -> Nat] /\ at' \in [Process -> Nat]
         /\ \A q \in Process \ {p} : /\ open'[q] = open[q] /\ size'[q] = size[q]
                                     /\ at'[q] = at[q] /\ outcome'[q] = outcome[q]
  <1>1. /\ open \in [Process -> BOOLEAN] /\ size \in [Process -> Nat] /\ at \in [Process -> Nat]
        /\ DOMAIN outcome = Process
    BY DEF Typed
  <1>2. /\ outcome' = [outcome EXCEPT ![p] = code] /\ stage' = stage
        /\ open' = [open EXCEPT ![p] = FALSE]
        /\ size' = [size EXCEPT ![p] = 0] /\ at' = [at EXCEPT ![p] = 0]
    BY DEF Finish, Close
  <1>. QED  BY <1>1, <1>2

\* What going on to the next file changes.
LEMMA AdvanceEffect ==
  ASSUME Typed, PlacesOK, NEW p \in Process, ~Ended(p), Advance(p)
  PROVE  /\ stage'[p] = stage[p] + 1 /\ stage' \in [Process -> 1..4]
         /\ stage[p] \in 1..Len(Plan(job[p]))
         /\ outcome'[p] = IF stage[p] = Len(Plan(job[p])) THEN "ok" ELSE "none"
         /\ DOMAIN outcome' = Process
         /\ open'[p] = FALSE /\ size'[p] = 0 /\ at'[p] = 0
         /\ open' \in [Process -> BOOLEAN] /\ size' \in [Process -> Nat] /\ at' \in [Process -> Nat]
         /\ \A q \in Process \ {p} : /\ stage'[q] = stage[q]
                                     /\ open'[q] = open[q] /\ size'[q] = size[q]
                                     /\ at'[q] = at[q] /\ outcome'[q] = outcome[q]
  <1>1. /\ open \in [Process -> BOOLEAN] /\ size \in [Process -> Nat] /\ at \in [Process -> Nat]
        /\ DOMAIN outcome = Process /\ stage \in [Process -> 1..4] /\ IsJob(job[p])
    BY DEF Typed
  <1>2. /\ outcome' = [outcome EXCEPT ![p] = IF stage[p] = Len(Plan(job[p])) THEN "ok" ELSE @]
        /\ stage' = [stage EXCEPT ![p] = @ + 1]
        /\ open' = [open EXCEPT ![p] = FALSE]
        /\ size' = [size EXCEPT ![p] = 0] /\ at' = [at EXCEPT ![p] = 0]
    BY DEF Advance, Close
  <1>3. stage[p] \in DOMAIN Plan(job[p]) /\ outcome[p] = "none"
    BY DEF PlacesOK, Ended
  <1>4. stage[p] \in 1..Len(Plan(job[p])) /\ Len(Plan(job[p])) \in 0..3
    BY <1>1, <1>3, PlanSteps
  <1>5. stage[p] + 1 \in 1..4
    <2>. DEFINE m == Len(Plan(job[p]))  n == stage[p]
    <2>1. n \in 1..m /\ m \in 0..3
      BY <1>4
    <2>. HIDE DEF m, n
    <2>2. n + 1 \in 1..4
      BY <2>1
    <2>. QED  BY <2>2 DEF n
  <1>6. stage' \in [Process -> 1..4] /\ stage'[p] = stage[p] + 1
    BY <1>1, <1>2, <1>5
  <1>7. outcome'[p] = IF stage[p] = Len(Plan(job[p])) THEN "ok" ELSE "none"
    BY <1>1, <1>2, <1>3
  <1>8. DOMAIN outcome' = Process
    BY <1>1, <1>2
  <1>. QED  BY <1>1, <1>2, <1>4, <1>6, <1>7, <1>8

\* What opening a file to read changes.
LEMMA OpenToReadEffect ==
  ASSUME Typed, PlacesOK, NEW p \in Process, OpenToRead(p)
  PROVE  /\ Reading(p) /\ ~open[p] /\ File(p) \in Path
         /\ UNCHANGED <<job, content, stage, at, got, outcome>>
         /\ open'[p] = TRUE /\ open' \in [Process -> BOOLEAN]
         /\ size'[p] = Len(content[File(p)]) /\ size' \in [Process -> Nat]
         /\ \A q \in Process \ {p} : open'[q] = open[q] /\ size'[q] = size[q]
  <1>1. Reading(p) /\ ~open[p] /\ File(p) \in Path
    BY Where DEF OpenToRead
  <1>2. /\ open \in [Process -> BOOLEAN] /\ size \in [Process -> Nat] /\ Len(content[File(p)]) \in Nat
    BY <1>1, CellsForm DEF Typed
  <1>3. /\ open' = [open EXCEPT ![p] = TRUE]
        /\ size' = [size EXCEPT ![p] = Len(content[File(p)])]
        /\ UNCHANGED <<job, content, stage, at, got, outcome>>
    BY DEF OpenToRead
  <1>. QED  BY <1>1, <1>2, <1>3

\* What reading a cell changes.
LEMMA ReadCellEffect ==
  ASSUME Typed, PlacesOK, NEW p \in Process, ReadCell(p)
  PROVE  LET f == File(p)  read == got[p][f] IN
         /\ Reading(p) /\ open[p] /\ f \in Path
         /\ UNCHANGED <<job, content, stage, open, size, at, outcome>>
         /\ Len(read) \in Nat /\ Len(read) < size[p] /\ Len(read) + 1 \in 1..Len(content[f])
         /\ DOMAIN got' = Process /\ DOMAIN got'[p] = Path
         /\ got'[p][f] = Append(read, content[f][Len(read) + 1])
         /\ \A g \in Path \ {f} : got'[p][g] = got[p][g]
         /\ \A q \in Process \ {p} : got'[q] = got[q]
  <1>. DEFINE f == File(p)  read == got[p][f]
  <1>1. Reading(p) /\ open[p] /\ f \in Path
    BY Where DEF ReadCell
  <1>2. /\ UNCHANGED <<job, content, stage, open, size, at, outcome>>
        /\ Len(read) < size[p] /\ Len(read) < Len(content[f])
        /\ got' = [got EXCEPT ![p][f] = Append(@, content[f][Len(read) + 1])]
    BY DEF ReadCell
  <1>3. DOMAIN got = Process /\ DOMAIN got[p] = Path
    BY DEF Typed
  <1>4. Len(read) \in Nat /\ Len(content[f]) \in Nat
    BY <1>1, CellsForm DEF Typed
  <1>. HIDE DEF f
  <1>5. Len(read) + 1 \in 1..Len(content[f])
    BY <1>2, <1>4
  <1>6. /\ DOMAIN got' = Process /\ DOMAIN got'[p] = Path
        /\ got'[p][f] = Append(read, content[f][Len(read) + 1])
        /\ \A g \in Path \ {f} : got'[p][g] = got[p][g]
        /\ \A q \in Process \ {p} : got'[q] = got[q]
    BY <1>1, <1>2, <1>3
  <1>. QED  BY <1>1, <1>2, <1>4, <1>5, <1>6 DEF f

\* What opening a file to write changes: it is cut to nothing.
LEMMA OpenToWriteEffect ==
  ASSUME Typed, PlacesOK, NEW p \in Process, OpenToWrite(p)
  PROVE  /\ Writing(p) /\ ~open[p] /\ File(p) \in Path
         /\ UNCHANGED <<job, stage, size, at, got, outcome>>
         /\ open'[p] = TRUE /\ open' \in [Process -> BOOLEAN]
         /\ \A q \in Process \ {p} : open'[q] = open[q]
         /\ DOMAIN content' = Path /\ content'[File(p)] = <<>>
         /\ \A g \in Path \ {File(p)} : content'[g] = content[g]
  <1>1. Writing(p) /\ ~open[p] /\ File(p) \in Path
    BY Where DEF OpenToWrite
  <1>2. open \in [Process -> BOOLEAN] /\ DOMAIN content = Path
    BY DEF Typed
  <1>3. /\ open' = [open EXCEPT ![p] = TRUE]
        /\ content' = [content EXCEPT ![File(p)] = <<>>]
        /\ UNCHANGED <<job, stage, size, at, got, outcome>>
    BY DEF OpenToWrite
  <1>. QED  BY <1>1, <1>2, <1>3

\* What writing a cell changes.
LEMMA WriteCellEffect ==
  ASSUME Typed, PlacesOK, NEW p \in Process, WriteCell(p)
  PROVE  LET f == File(p)  i == at[p] + 1 IN
         /\ Writing(p) /\ open[p] /\ f \in Path
         /\ UNCHANGED <<job, stage, open, size, got, outcome>>
         /\ at[p] \in Nat /\ at[p] < Len(Output(p))
         /\ at'[p] = i /\ at' \in [Process -> Nat]
         /\ \A q \in Process \ {p} : at'[q] = at[q]
         /\ DOMAIN content' = Path /\ content'[f] = Put(content[f], i, Output(p)[i])
         /\ \A g \in Path \ {f} : content'[g] = content[g]
  <1>1. Writing(p) /\ open[p] /\ File(p) \in Path
    BY Where DEF WriteCell
  <1>2. at \in [Process -> Nat] /\ DOMAIN content = Path
    BY DEF Typed
  <1>. DEFINE f == File(p)  i == at[p] + 1  new == Put(content[f], i, Output(p)[i])
  <1>3. /\ at' = [at EXCEPT ![p] = @ + 1]
        /\ content' = [content EXCEPT ![f] = new]
        /\ at[p] < Len(Output(p))
        /\ UNCHANGED <<job, stage, open, size, got, outcome>>
    BY DEF WriteCell
  <1>. HIDE DEF f, new
  <1>4. content'[f] = new /\ DOMAIN content' = Path /\ \A g \in Path \ {f} : content'[g] = content[g]
    BY <1>1, <1>2, <1>3 DEF f
  <1>5. at[p] \in Nat /\ at'[p] = i /\ at' \in [Process -> Nat]
        /\ \A q \in Process \ {p} : at'[q] = at[q]
    BY <1>2, <1>3
  <1>. QED  BY <1>1, <1>3, <1>4, <1>5 DEF f, new

\* What a step does not touch: of the other commands nothing but the files.
LEMMA OthersUntouched ==
  ASSUME Typed, PlacesOK, NEW p \in Process, NEW q \in Process \ {p},
         \/ OpenToRead(p) \/ ReadCell(p) \/ ReadShort(p) \/ Loaded(p)
         \/ OpenToWrite(p) \/ WriteCell(p) \/ Written(p) \/ Fail(p)
  PROVE  job' = job /\ Untouched(q)
  <1>1. CASE OpenToRead(p)
    BY <1>1, OpenToReadEffect DEF Untouched
  <1>2. CASE ReadCell(p)
    BY <1>2, ReadCellEffect DEF Untouched
  <1>3. CASE ReadShort(p)
    <2>1. Finish(p, "io") /\ UNCHANGED <<job, content, got>>
      BY <1>3 DEF ReadShort
    <2>. QED  BY <2>1, FinishEffect DEF Untouched
  <1>4. CASE Loaded(p)
    <2>1. /\ UNCHANGED <<job, content, got>> /\ Reading(p)
          /\ Advance(p) \/ \E code : Finish(p, code)
      BY <1>4 DEF Loaded
    <2>2. ~Ended(p)
      BY <2>1 DEF Reading
    <2>. QED  BY <2>1, <2>2, FinishEffect, AdvanceEffect DEF Untouched
  <1>5. CASE OpenToWrite(p)
    BY <1>5, OpenToWriteEffect DEF Untouched
  <1>6. CASE WriteCell(p)
    BY <1>6, WriteCellEffect DEF Untouched
  <1>7. CASE Written(p)
    <2>1. UNCHANGED <<job, content, got>> /\ Writing(p) /\ Advance(p)
      BY <1>7 DEF Written
    <2>2. ~Ended(p)
      BY <2>1 DEF Writing
    <2>. QED  BY <2>1, <2>2, AdvanceEffect DEF Untouched
  <1>8. CASE Fail(p)
    <2>1. Finish(p, "io") /\ UNCHANGED <<job, content, got>>
      BY <1>8 DEF Fail
    <2>. QED  BY <2>1, FinishEffect DEF Untouched
  <1>. QED  BY <1>1, <1>2, <1>3, <1>4, <1>5, <1>6, <1>7, <1>8

\* Stages and ends are all that the place of a command depends on.
LEMMA SamePlace ==
  ASSUME NEW q, job' = job, stage'[q] = stage[q], outcome'[q] = outcome[q]
  PROVE  /\ Ended(q)' = Ended(q) /\ File(q)' = File(q)
         /\ Reading(q)' = Reading(q) /\ Writing(q)' = Writing(q)
  <1>1. Ended(q)' = Ended(q) /\ File(q)' = File(q)
    BY DEF Ended, File
  <1>. QED  BY <1>1 DEF Reading, Writing

\* No refusal is one of the words for a command that has not ended or failed.
LEMMA RefusalCodes ==
  ASSUME NEW p
  PROVE  TokenRefusal(p) # "none" /\ KeyRefusal(p) # "none"
  <1>1. ASSUME NEW scheme, NEW t, NEW program, NEW now, NEW key
        PROVE  Verify(scheme, t, program, now, key) # "none"
    BY DEF Verify, VerifySigned, VerifyHmac
  <1>2. ASSUME NEW scheme, NEW cells PROVE Decode(scheme, cells).code # "none"
    <2>1. DecodeSigned(cells).code # "none"
      BY DEF DecodeSigned, Refused, Accepted
    <2>2. DecodeHmac(cells).code # "none"
      BY DEF DecodeHmac, Refused, Accepted
    <2>. QED  BY <2>1, <2>2 DEF Decode
  <1>3. ASSUME NEW j PROVE IssueRefusal(j) # "none"
    BY DEF IssueRefusal, IssueSignedRefusal, IssueHmacRefusal
  <1>4. TokenRefusal(p) # "none"
    BY <1>1, <1>2 DEF TokenRefusal, VerifyWithKey
  <1>5. KeyRefusal(p) # "none"
    BY <1>1, <1>3 DEF KeyRefusal, VerifyWithKey
  <1>. QED  BY <1>4, <1>5

\* What a command that goes through the checks of a file does next.
LEMMA LoadedCases ==
  ASSUME NEW p \in Process, Loaded(p)
  PROVE  /\ Reading(p) /\ open[p] /\ Len(got[p][File(p)]) = size[p]
         /\ UNCHANGED <<job, content, got>>
         /\ \/ Refusal(p) = "ok" /\ Advance(p)
            \/ Refusal(p) \notin {"ok", "none"} /\ Finish(p, Refusal(p))
  <1>1. /\ Reading(p) /\ open[p] /\ Len(got[p][File(p)]) = size[p]
        /\ UNCHANGED <<job, content, got>>
    BY DEF Loaded
  <1>2. IF Refusal(p) = "ok" THEN Advance(p) ELSE Finish(p, Refusal(p))
    BY DEF Loaded, Refusal
  <1>3. Refusal(p) # "none"
    BY RefusalCodes DEF Refusal
  <1>. QED  BY <1>1, <1>2, <1>3

\* The four ways a command can step: it stops, goes on to its next file, or
\* opens, reads or writes the one it is at.
LEMMA StepCases ==
  ASSUME NEW p \in Process,
         \/ OpenToRead(p) \/ ReadCell(p) \/ ReadShort(p) \/ Loaded(p)
         \/ OpenToWrite(p) \/ WriteCell(p) \/ Written(p) \/ Fail(p)
  PROVE  \/ OpenToRead(p) \/ ReadCell(p) \/ OpenToWrite(p) \/ WriteCell(p)
         \/ /\ ~Ended(p) /\ UNCHANGED <<job, content, got>>
            /\ \E code : code # "none" /\ Finish(p, code)
         \/ /\ ~Ended(p) /\ UNCHANGED <<job, content, got>>
            /\ Advance(p)
  <1>1. ASSUME ReadShort(p) \/ Fail(p)
        PROVE  /\ ~Ended(p) /\ UNCHANGED <<job, content, got>>
               /\ \E code : code # "none" /\ Finish(p, code)
    <2>1. ~Ended(p) /\ UNCHANGED <<job, content, got>> /\ Finish(p, "io")
      BY <1>1 DEF ReadShort, Fail, Reading
    <2>. QED  BY <2>1
  <1>2. ASSUME Loaded(p)
        PROVE  /\ ~Ended(p) /\ UNCHANGED <<job, content, got>>
               /\ \/ Advance(p)
                  \/ \E code : code # "none" /\ Finish(p, code)
    <2>1. Reading(p) => ~Ended(p)
      BY DEF Reading
    <2>. QED  BY <1>2, <2>1, LoadedCases
  <1>3. ASSUME Written(p) PROVE ~Ended(p) /\ UNCHANGED <<job, content, got>> /\ Advance(p)
    BY <1>3 DEF Written, Writing
  <1>. QED  BY <1>1, <1>2, <1>3

\* Keys are sequences of a fixed length.
LEMMA KeyForm ==
  ASSUME NEW x
  PROVE  /\ IsCells(Private(x)) /\ IsCells(PublicOf(x))
         /\ Len(PublicOf(x)) = KeySize
  <1>1. KeySize \in Nat
    BY ApprovalTokenAssumption
  <1>2. Private(x) = [i \in 1..KeySize |-> Private(x)[i]]
    BY DEF Private
  <1>3. PublicOf(x) = [i \in 1..KeySize |-> PublicOf(x)[i]]
    BY DEF PublicOf
  <1>. QED  BY <1>1, <1>2, <1>3, CellsFunction

\* What a command writes is a sequence of cells.
LEMMA OutputForm ==
  ASSUME Typed, NEW p \in Process
  PROVE  /\ IsCells(PrivateKey(p)) /\ IsCells(PublicOf(PrivateKey(p)))
         /\ Len(PublicOf(PrivateKey(p))) = KeySize
         /\ job[p].role = "issue" => IsCells(Encode(job[p].scheme, IssuedToken(p)))
  <1>1. IsJob(job[p]) /\ IsCells(got[p]["private"])
    BY DEF Typed, Path
  <1>5. IsCells(PrivateKey(p))
    BY <1>1, KeyForm DEF PrivateKey
  <1>6. ASSUME job[p].role = "issue" PROVE IsCells(Encode(job[p].scheme, IssuedToken(p)))
    <2>1. IsToken(IssuedToken(p))
      BY <1>1, <1>6, NewTokenForm DEF IssuedToken
    <2>2. IsCells(IssuedToken(p).context)
      BY <2>1 DEF IsToken
    <2>. QED  BY <2>2, EncodeForm
  <1>. QED  BY <1>5, <1>6, KeyForm

\* The types are kept.
LEMMA TypedKept ==
  ASSUME Typed, PlacesOK, [Next]_vars
  PROVE  Typed'
  <1>1. CASE UNCHANGED vars
    BY <1>1 DEF vars, Typed
  <1>2. ASSUME NEW p \in Process,
               \/ OpenToRead(p) \/ ReadCell(p) \/ ReadShort(p) \/ Loaded(p)
               \/ OpenToWrite(p) \/ WriteCell(p) \/ Written(p) \/ Fail(p)
        PROVE  Typed'
    <2>1. /\ \A q \in Process : IsJob(job[q])
          /\ DOMAIN content = Path /\ \A f \in Path : IsCells(content[f])
          /\ stage \in [Process -> 1..4] /\ open \in [Process -> BOOLEAN]
          /\ size \in [Process -> Nat] /\ at \in [Process -> Nat]
          /\ DOMAIN got = Process /\ DOMAIN outcome = Process
          /\ \A q \in Process : DOMAIN got[q] = Path /\ \A f \in Path : IsCells(got[q][f])
      BY DEF Typed
    <2>2. CASE OpenToRead(p)
      BY <2>1, <2>2, OpenToReadEffect DEF Typed
    <2>3. CASE ReadCell(p)
      <3>. DEFINE f == File(p)  cell == content[f][Len(got[p][f]) + 1]
      <3>1. /\ UNCHANGED <<job, content, stage, open, size, at, outcome>>
            /\ DOMAIN got' = Process /\ DOMAIN got'[p] = Path /\ f \in Path
            /\ got'[p][f] = Append(got[p][f], cell)
            /\ \A g \in Path \ {f} : got'[p][g] = got[p][g]
            /\ \A q \in Process \ {p} : got'[q] = got[q]
        BY <2>3, ReadCellEffect
      <3>. HIDE DEF f, cell
      <3>2. IsCells(got[p][f])
        BY <2>1, <3>1
      <3>3. IsCells(got'[p][f])
        BY <3>1, <3>2, CellsAppend
      <3>4. \A q \in Process : DOMAIN got'[q] = Path /\ \A g \in Path : IsCells(got'[q][g])
        BY <2>1, <3>1, <3>3
      <3>. QED  BY <2>1, <3>1, <3>4 DEF Typed
    <2>4. CASE OpenToWrite(p)
      <3>1. /\ UNCHANGED <<job, stage, size, at, got, outcome>> /\ open' \in [Process -> BOOLEAN]
            /\ DOMAIN content' = Path /\ content'[File(p)] = <<>>
            /\ \A g \in Path \ {File(p)} : content'[g] = content[g]
        BY <2>4, OpenToWriteEffect
      <3>2. \A g \in Path : IsCells(content'[g])
        BY <2>1, <3>1, CellsShort
      <3>. QED  BY <2>1, <3>1, <3>2 DEF Typed
    <2>5. CASE WriteCell(p)
      <3>. DEFINE f == File(p)  cell == Output(p)[at[p] + 1]
      <3>1. /\ UNCHANGED <<job, stage, open, size, got, outcome>> /\ at' \in [Process -> Nat]
            /\ DOMAIN content' = Path /\ f \in Path /\ at[p] \in Nat
            /\ content'[f] = Put(content[f], at[p] + 1, cell)
            /\ \A g \in Path \ {f} : content'[g] = content[g]
        BY <2>5, WriteCellEffect
      <3>. HIDE DEF f, cell
      <3>2. IsCells(content[f]) /\ at[p] + 1 \in Nat /\ at[p] + 1 >= 1
        BY <2>1, <3>1
      <3>3. IsCells(content'[f])
        BY <3>1, <3>2, PutForm
      <3>4. \A g \in Path : IsCells(content'[g])
        BY <2>1, <3>1, <3>3
      <3>. QED  BY <2>1, <3>1, <3>4 DEF Typed
    <2>6. ASSUME UNCHANGED <<job, content, got>>, NEW code, Finish(p, code) PROVE Typed'
      BY <2>1, <2>6, FinishEffect DEF Typed
    <2>7. ASSUME UNCHANGED <<job, content, got>>, ~Ended(p), Advance(p) PROVE Typed'
      BY <2>1, <2>7, AdvanceEffect DEF Typed
    <2>. QED  BY <1>2, <2>2, <2>3, <2>4, <2>5, <2>6, <2>7, StepCases
  <1>. QED  BY <1>1, <1>2 DEF Next

\* A command stays at a step of its plan, has read no more than it measured
\* and written no more than there is to write.
LEMMA PlacesKept ==
  ASSUME Typed, PlacesOK, IdleInv, UnreadInv, [Next]_vars
  PROVE  PlacesOK'
  <1>1. CASE UNCHANGED vars
    <2>1. job' = job /\ stage' = stage /\ got' = got /\ outcome' = outcome /\ size' = size /\ at' = at
      BY <1>1 DEF vars
    <2>2. ASSUME NEW q \in Process
          PROVE  /\ Ended(q)' = Ended(q) /\ File(q)' = File(q) /\ Output(q)' = Output(q)
                 /\ Reading(q)' = Reading(q) /\ Writing(q)' = Writing(q)
      BY <2>1, SameView
    <2>. QED  BY <2>1, <2>2 DEF PlacesOK
  <1>2. ASSUME NEW p \in Process,
               \/ OpenToRead(p) \/ ReadCell(p) \/ ReadShort(p) \/ Loaded(p)
               \/ OpenToWrite(p) \/ WriteCell(p) \/ Written(p) \/ Fail(p)
        PROVE  PlacesOK'
    <2>. DEFINE Place(q) ==
           /\ ~Ended(q) => stage[q] \in DOMAIN Plan(job[q])
           /\ Reading(q) => Len(got[q][File(q)]) <= size[q]
           /\ Writing(q) => at[q] <= Len(Output(q))
    <2>1. ASSUME NEW q \in Process \ {p} PROVE Place(q)'
      <3>1. job' = job /\ Untouched(q)
        BY <1>2, OthersUntouched
      <3>2. /\ Ended(q)' = Ended(q) /\ File(q)' = File(q) /\ Output(q)' = Output(q)
            /\ Reading(q)' = Reading(q) /\ Writing(q)' = Writing(q)
        BY <3>1, SameView DEF Untouched
      <3>. QED  BY <3>1, <3>2 DEF PlacesOK, Untouched
    <2>2. Place(p)
      BY DEF PlacesOK
    <2>3. /\ size[p] \in Nat /\ at[p] \in Nat /\ IsJob(job[p]) /\ stage[p] \in 1..4
          /\ \A f \in Path : IsCells(got[p][f])
      BY DEF Typed
    <2>4. ASSUME OpenToRead(p) PROVE Place(p)'
      <3>1. /\ UNCHANGED <<job, content, stage, at, got, outcome>>
            /\ Reading(p) /\ ~open[p] /\ File(p) \in Path
            /\ size'[p] = Len(content[File(p)])
        BY <2>4, OpenToReadEffect
      <3>2. /\ Ended(p)' = Ended(p) /\ File(p)' = File(p)
            /\ Reading(p)' = Reading(p) /\ Writing(p)' = Writing(p)
        BY <3>1, SamePlace
      <3>3. ~Writing(p)
        BY <3>1, Where
      <3>4. Len(got[p][File(p)]) <= 0
        BY <2>2, <3>1 DEF IdleInv
      <3>5. Len(content[File(p)]) \in Nat /\ Len(got[p][File(p)]) \in Nat
        BY <3>1, CellsForm DEF Typed
      <3>. QED  BY <2>2, <3>1, <3>2, <3>3, <3>4, <3>5
    <2>5. ASSUME ReadCell(p) PROVE Place(p)'
      <3>1. /\ UNCHANGED <<job, content, stage, open, size, at, outcome>>
            /\ Reading(p) /\ File(p) \in Path /\ Len(got[p][File(p)]) < size[p]
            /\ got'[p][File(p)]
                 = Append(got[p][File(p)], content[File(p)][Len(got[p][File(p)]) + 1])
        BY <2>5, ReadCellEffect
      <3>2. /\ Ended(p)' = Ended(p) /\ File(p)' = File(p)
            /\ Reading(p)' = Reading(p) /\ Writing(p)' = Writing(p)
        BY <3>1, SamePlace
      <3>3. ~Writing(p)
        BY <3>1, Where
      <3>4. IsCells(got[p][File(p)])
        BY <2>3, <3>1
      <3>5. Len(got'[p][File(p)]) = Len(got[p][File(p)]) + 1 /\ Len(got[p][File(p)]) \in Nat
        BY <3>1, <3>4, CellsAppend, CellsForm
      <3>6. Len(got'[p][File(p)]) <= size[p]
        BY <2>3, <3>1, <3>5
      <3>. QED  BY <2>2, <3>1, <3>2, <3>3, <3>6
    <2>6. ASSUME OpenToWrite(p) PROVE Place(p)'
      <3>1. UNCHANGED <<job, stage, size, at, got, outcome>>
        BY <2>6, OpenToWriteEffect
      <3>2. /\ Ended(p)' = Ended(p) /\ File(p)' = File(p) /\ Output(p)' = Output(p)
            /\ Reading(p)' = Reading(p) /\ Writing(p)' = Writing(p)
        BY <3>1, SameView
      <3>. QED  BY <2>2, <3>1, <3>2
    <2>7. ASSUME WriteCell(p) PROVE Place(p)'
      <3>1. /\ UNCHANGED <<job, stage, open, size, got, outcome>>
            /\ Writing(p) /\ at'[p] = at[p] + 1 /\ at[p] < Len(Output(p))
        BY <2>7, WriteCellEffect
      <3>2. /\ Ended(p)' = Ended(p) /\ File(p)' = File(p) /\ Output(p)' = Output(p)
            /\ Reading(p)' = Reading(p) /\ Writing(p)' = Writing(p)
        BY <3>1, SameView
      <3>3. ~Reading(p) /\ AtWrite(job[p].role, stage[p], File(p))
        BY <3>1, Where
      <3>4. Len(Output(p)) \in Nat
        <4>1. IsCells(Output(p))
          BY <3>3, OutputForm DEF AtWrite, Output
        <4>. QED  BY <4>1, CellsForm
      <3>5. at[p] + 1 <= Len(Output(p))
        BY <2>3, <3>1, <3>4
      <3>. QED  BY <2>2, <3>1, <3>2, <3>3, <3>5
    <2>8. ASSUME NEW code, code # "none", Finish(p, code), UNCHANGED <<job, content, got>>
          PROVE  Place(p)'
      <3>1. Ended(p)'
        BY <2>8, FinishEffect DEF Ended
      <3>. QED  BY <3>1 DEF Reading, Writing
    <2>9. ASSUME ~Ended(p), UNCHANGED <<job, content, got>>, Advance(p) PROVE Place(p)'
      <3>1. /\ stage'[p] = stage[p] + 1 /\ stage[p] \in 1..Len(Plan(job[p]))
            /\ outcome'[p] = IF stage[p] = Len(Plan(job[p])) THEN "ok" ELSE "none"
            /\ size'[p] = 0 /\ at'[p] = 0
        BY <2>9, AdvanceEffect
      <3>2. /\ Len(Plan(job[p])) \in 0..3 /\ DOMAIN Plan(job[p]) = 1..Len(Plan(job[p]))
        BY <2>3, PlanSteps
      <3>3. ASSUME ~Ended(p)' PROVE stage'[p] \in DOMAIN Plan(job[p])
        <4>. DEFINE m == Len(Plan(job[p]))
        <4>1. stage[p] # m
          BY <3>1, <3>3 DEF Ended
        <4>2. m \in 0..3 /\ stage[p] \in 1..m
          BY <3>1, <3>2
        <4>. HIDE DEF m
        <4>3. stage[p] + 1 \in 1..m
          BY <4>1, <4>2
        <4>. QED  BY <3>1, <3>2, <4>3 DEF m
      <3>4. ASSUME Reading(p)' PROVE Len(got'[p][File(p)']) <= size'[p]
        <4>1. ~Ended(p)' /\ Plan(job[p])[stage'[p]].do = "read"
          BY <2>9, <3>4 DEF Reading
        <4>2. stage'[p] \in DOMAIN Plan(job[p]) /\ File(p)' = Plan(job[p])[stage'[p]].file
          BY <2>9, <3>3, <4>1 DEF File
        <4>3. AtRead(job[p].role, job[p].scheme, job[p].keyFrom, stage'[p], File(p)')
          BY <2>3, <4>1, <4>2, PlanSteps
        <4>4. got[p][File(p)'] = <<>>
          BY <2>3, <3>1, <4>3 DEF UnreadInv, AtRead
        <4>. QED  BY <2>9, <3>1, <4>4, CellsShort
      <3>5. ASSUME Writing(p)' PROVE at'[p] <= Len(Output(p)')
        <4>1. ~Ended(p)' /\ Plan(job[p])[stage'[p]].do = "write"
          BY <2>9, <3>5 DEF Writing
        <4>2. stage'[p] \in DOMAIN Plan(job[p]) /\ File(p)' = Plan(job[p])[stage'[p]].file
          BY <2>9, <3>3, <4>1 DEF File
        <4>3. AtWrite(job[p].role, stage'[p], File(p)')
          BY <2>3, <4>1, <4>2, PlanSteps
        <4>4. Output(p)' = IF File(p)' = "private" THEN PrivateKey(p)
                           ELSE IF File(p)' = "public" THEN PublicOf(PrivateKey(p))
                           ELSE Encode(job[p].scheme, IssuedToken(p))
          BY <2>9 DEF Output, PrivateKey, IssuedToken
        <4>5. IsCells(Output(p)')
          BY <4>3, <4>4, OutputForm DEF AtWrite
        <4>. QED  BY <3>1, <4>5, CellsForm
      <3>. QED  BY <2>9, <3>3, <3>4, <3>5
    <2>10. Place(p)'
      BY <1>2, <2>4, <2>5, <2>6, <2>7, <2>8, <2>9, StepCases
    <2>11. \A q \in Process : Place(q)'
      BY <2>1, <2>10
    <2>. QED  BY <2>11 DEF PlacesOK
  <1>. QED  BY <1>1, <1>2 DEF Next

\* A file that is closed has no size, and none of it is written.
LEMMA IdleKept ==
  ASSUME Typed, PlacesOK, IdleInv, [Next]_vars
  PROVE  IdleInv'
  <1>1. CASE UNCHANGED vars
    BY <1>1 DEF vars, IdleInv
  <1>2. ASSUME NEW p \in Process,
               \/ OpenToRead(p) \/ ReadCell(p) \/ ReadShort(p) \/ Loaded(p)
               \/ OpenToWrite(p) \/ WriteCell(p) \/ Written(p) \/ Fail(p)
        PROVE  IdleInv'
    <2>1. ASSUME NEW q \in Process \ {p} PROVE ~open'[q] => size'[q] = 0 /\ at'[q] = 0
      BY <1>2, OthersUntouched DEF Untouched, IdleInv
    <2>2. ASSUME OpenToRead(p) \/ ReadCell(p) \/ OpenToWrite(p) \/ WriteCell(p) PROVE open'[p]
      BY <2>2, OpenToReadEffect, ReadCellEffect, OpenToWriteEffect, WriteCellEffect
    <2>3. ASSUME NEW code, Finish(p, code) PROVE size'[p] = 0 /\ at'[p] = 0
      BY <2>3, FinishEffect
    <2>4. ASSUME ~Ended(p), Advance(p) PROVE size'[p] = 0 /\ at'[p] = 0
      BY <2>4, AdvanceEffect
    <2>5. ~open'[p] => size'[p] = 0 /\ at'[p] = 0
      BY <1>2, <2>2, <2>3, <2>4, StepCases
    <2>. QED  BY <2>1, <2>5 DEF IdleInv
  <1>. QED  BY <1>1, <1>2 DEF Next

\* What a command comes to later it has not read.
LEMMA UnreadKept ==
  ASSUME Typed, PlacesOK, UnreadInv, [Next]_vars
  PROVE  UnreadInv'
  <1>1. CASE UNCHANGED vars
    BY <1>1 DEF vars, UnreadInv
  <1>2. ASSUME NEW p \in Process,
               \/ OpenToRead(p) \/ ReadCell(p) \/ ReadShort(p) \/ Loaded(p)
               \/ OpenToWrite(p) \/ WriteCell(p) \/ Written(p) \/ Fail(p)
        PROVE  UnreadInv'
    <2>. DEFINE Unread(q) ==
           /\ job[q].role = "keygen" /\ stage[q] < 3 => got[q]["public"] = <<>>
           /\ job[q].role = "verify" /\ stage[q] = 1 =>
                got[q]["public"] = <<>> /\ got[q]["secret"] = <<>>
    <2>1. ASSUME NEW q \in Process \ {p} PROVE Unread(q)'
      BY <1>2, OthersUntouched DEF Untouched, UnreadInv
    <2>2. Unread(p) /\ stage[p] \in 1..4
      BY DEF UnreadInv, Typed
    <2>3. ASSUME ReadCell(p) PROVE Unread(p)'
      <3>1. /\ UNCHANGED <<job, stage>> /\ Reading(p)
            /\ \A g \in Path \ {File(p)} : got'[p][g] = got[p][g]
        BY <2>3, ReadCellEffect
      <3>2. AtRead(job[p].role, job[p].scheme, job[p].keyFrom, stage[p], File(p))
        BY <3>1, Where
      <3>. QED  BY <2>2, <3>1, <3>2 DEF AtRead, Path
    <2>4. ASSUME OpenToRead(p) \/ OpenToWrite(p) \/ WriteCell(p) PROVE Unread(p)'
      <3>1. UNCHANGED <<job, stage, got>>
        BY <2>4, OpenToReadEffect, OpenToWriteEffect, WriteCellEffect
      <3>. QED  BY <2>2, <3>1
    <2>5. ASSUME NEW code, Finish(p, code), UNCHANGED <<job, content, got>> PROVE Unread(p)'
      BY <2>2, <2>5, FinishEffect
    <2>6. ASSUME ~Ended(p), UNCHANGED <<job, content, got>>, Advance(p) PROVE Unread(p)'
      <3>1. stage'[p] = stage[p] + 1
        BY <2>6, AdvanceEffect
      <3>. QED  BY <2>2, <2>6, <3>1
    <2>7. Unread(p)'
      BY <1>2, <2>3, <2>4, <2>5, <2>6, StepCases
    <2>8. \A q \in Process : Unread(q)'
      BY <2>1, <2>7
    <2>. QED  BY <2>8 DEF UnreadInv
  <1>. QED  BY <1>1, <1>2 DEF Next

\* A step as its command sees it.
Quiet(p) == UNCHANGED <<job, stage, got, outcome>>
Passes(p) ==
  /\ Reading(p) /\ open[p] /\ Len(got[p][File(p)]) = size[p] /\ Refusal(p) = "ok"
  /\ Advance(p) /\ UNCHANGED <<job, content, got>>
Fails(p) == ~Ended(p) /\ Finish(p, "io") /\ UNCHANGED <<job, content, got>>
Refuses(p) ==
  /\ Reading(p) /\ Refusal(p) \notin {"ok", "none"}
  /\ Finish(p, Refusal(p)) /\ UNCHANGED <<job, content, got>>

LEMMA ViewCases ==
  ASSUME Typed, PlacesOK, NEW p \in Process,
         \/ OpenToRead(p) \/ ReadCell(p) \/ ReadShort(p) \/ Loaded(p)
         \/ OpenToWrite(p) \/ WriteCell(p) \/ Written(p) \/ Fail(p)
  PROVE  Quiet(p) \/ ReadCell(p) \/ Written(p) \/ Passes(p) \/ Fails(p) \/ Refuses(p)
  <1>1. ASSUME OpenToRead(p) \/ OpenToWrite(p) \/ WriteCell(p) PROVE Quiet(p)
    BY <1>1, OpenToReadEffect, OpenToWriteEffect, WriteCellEffect DEF Quiet
  <1>2. ASSUME ReadShort(p) \/ Fail(p) PROVE Fails(p)
    BY <1>2 DEF Fails, ReadShort, Fail, Reading
  <1>3. ASSUME Loaded(p) PROVE Passes(p) \/ Refuses(p)
    BY <1>3, LoadedCases DEF Passes, Refuses
  <1>. QED  BY <1>1, <1>2, <1>3

\* What the steps do to the stage and the outcome of the command itself.
LEMMA ViewEffect ==
  ASSUME Typed, PlacesOK, NEW p \in Process
  PROVE  /\ Fails(p) => stage' = stage /\ outcome'[p] = "io" /\ UNCHANGED <<job, got>>
         /\ Refuses(p) => /\ stage' = stage /\ outcome'[p] = Refusal(p) /\ UNCHANGED <<job, got>>
                          /\ Reading(p) /\ ~Ended(p) /\ Refusal(p) \notin {"ok", "none"}
                          /\ stage[p] \in DOMAIN Plan(job[p])
         /\ Passes(p) \/ Written(p) =>
              /\ stage'[p] = stage[p] + 1 /\ stage[p] \in 1..Len(Plan(job[p]))
              /\ outcome'[p] = IF stage[p] = Len(Plan(job[p])) THEN "ok" ELSE "none"
              /\ UNCHANGED <<job, got>> /\ ~Ended(p)
         /\ Passes(p) =>
              /\ Refusal(p) = "ok"
              /\ AtRead(job[p].role, job[p].scheme, job[p].keyFrom, stage[p], File(p))
         /\ Written(p) => AtWrite(job[p].role, stage[p], File(p))
  <1>1. ASSUME Fails(p) PROVE stage' = stage /\ outcome'[p] = "io" /\ UNCHANGED <<job, got>>
    BY <1>1, FinishEffect DEF Fails
  <1>2. ASSUME Refuses(p)
        PROVE  /\ stage' = stage /\ outcome'[p] = Refusal(p) /\ UNCHANGED <<job, got>>
               /\ Reading(p) /\ ~Ended(p) /\ Refusal(p) \notin {"ok", "none"}
               /\ stage[p] \in DOMAIN Plan(job[p])
    <2>1. /\ Reading(p) /\ Refusal(p) \notin {"ok", "none"}
          /\ Finish(p, Refusal(p)) /\ UNCHANGED <<job, content, got>>
      BY <1>2 DEF Refuses
    <2>2. ~Ended(p)
      BY <2>1 DEF Reading
    <2>. QED  BY <2>1, <2>2, FinishEffect DEF PlacesOK
  <1>3. ASSUME Passes(p) \/ Written(p)
        PROVE  /\ stage'[p] = stage[p] + 1 /\ stage[p] \in 1..Len(Plan(job[p]))
               /\ outcome'[p] = IF stage[p] = Len(Plan(job[p])) THEN "ok" ELSE "none"
               /\ UNCHANGED <<job, got>> /\ ~Ended(p)
    <2>1. ~Ended(p) /\ Advance(p) /\ UNCHANGED <<job, content, got>>
      BY <1>3 DEF Passes, Written, Reading, Writing
    <2>. QED  BY <2>1, AdvanceEffect
  <1>4. ASSUME Passes(p)
        PROVE  /\ Refusal(p) = "ok"
               /\ AtRead(job[p].role, job[p].scheme, job[p].keyFrom, stage[p], File(p))
    BY <1>4, Where DEF Passes
  <1>5. ASSUME Written(p) PROVE AtWrite(job[p].role, stage[p], File(p))
    BY <1>5, Where DEF Written
  <1>. QED  BY <1>1, <1>2, <1>3, <1>4, <1>5

\* A command that reads a cell reads it into the file it is at.
LEMMA ReadCellView ==
  ASSUME Typed, PlacesOK, NEW p \in Process, ReadCell(p)
  PROVE  /\ UNCHANGED <<job, stage, outcome>> /\ outcome[p] = "none"
         /\ AtRead(job[p].role, job[p].scheme, job[p].keyFrom, stage[p], File(p))
         /\ \A g \in Path \ {File(p)} : got'[p][g] = got[p][g]
  <1>1. /\ UNCHANGED <<job, stage, outcome>> /\ Reading(p)
        /\ \A g \in Path \ {File(p)} : got'[p][g] = got[p][g]
    BY ReadCellEffect
  <1>2. ~Ended(p)
    BY <1>1 DEF Reading
  <1>. QED  BY <1>1, <1>2, Where DEF Ended

\* Only granted requests are issued.
LEMMA GrantKept ==
  ASSUME Typed, PlacesOK, GrantInv, [Next]_vars
  PROVE  GrantInv'
  <1>1. CASE UNCHANGED vars
    BY <1>1 DEF vars, GrantInv, HasIssued
  <1>2. ASSUME NEW p \in Process,
               \/ OpenToRead(p) \/ ReadCell(p) \/ ReadShort(p) \/ Loaded(p)
               \/ OpenToWrite(p) \/ WriteCell(p) \/ Written(p) \/ Fail(p)
        PROVE  GrantInv'
    <2>. DEFINE Granted(q) == HasIssued(q) => IssueRefusal(job[q]) = "ok"
    <2>1. ASSUME NEW q \in Process \ {p} PROVE Granted(q)'
      BY <1>2, OthersUntouched DEF Untouched, GrantInv, HasIssued
    <2>2. Granted(p)
      BY DEF GrantInv
    <2>3. ASSUME UNCHANGED <<job, stage>> PROVE Granted(p)'
      BY <2>2, <2>3 DEF HasIssued
    <2>4. ASSUME Passes(p) PROVE Granted(p)'
      <3>1. /\ Refusal(p) = "ok" /\ job' = job
            /\ AtRead(job[p].role, job[p].scheme, job[p].keyFrom, stage[p], File(p))
        BY <2>4, ViewEffect
      <3>2. job[p].role = "issue" => IssueRefusal(job[p]) = "ok"
        BY <3>1 DEF AtRead, Refusal, KeyRefusal
      <3>. QED  BY <3>1, <3>2 DEF HasIssued
    <2>5. ASSUME Written(p) PROVE Granted(p)'
      <3>1. AtWrite(job[p].role, stage[p], File(p)) /\ job' = job
        BY <2>5, ViewEffect
      <3>2. job[p].role = "issue" => HasIssued(p)
        BY <3>1 DEF AtWrite, HasIssued
      <3>. QED  BY <2>2, <3>1, <3>2 DEF HasIssued
    <2>6. Granted(p)'
      <3>1. Quiet(p) \/ ReadCell(p) \/ Fails(p) \/ Refuses(p) => UNCHANGED <<job, stage>>
        BY ViewEffect, ReadCellView DEF Quiet
      <3>. QED  BY <1>2, <2>3, <2>4, <2>5, <3>1, ViewCases
    <2>7. \A q \in Process : Granted(q)'
      BY <2>1, <2>6
    <2>. QED  BY <2>7 DEF GrantInv
  <1>. QED  BY <1>1, <1>2 DEF Next

\* A command ends well only at the end of its plan.
LEMMA EndKept ==
  ASSUME Typed, PlacesOK, EndInv, [Next]_vars
  PROVE  EndInv'
  <1>1. CASE UNCHANGED vars
    BY <1>1 DEF vars, EndInv
  <1>2. ASSUME NEW p \in Process,
               \/ OpenToRead(p) \/ ReadCell(p) \/ ReadShort(p) \/ Loaded(p)
               \/ OpenToWrite(p) \/ WriteCell(p) \/ Written(p) \/ Fail(p)
        PROVE  EndInv'
    <2>. DEFINE End(q) == outcome[q] = "ok" => stage[q] = Len(Plan(job[q])) + 1
    <2>1. ASSUME NEW q \in Process \ {p} PROVE End(q)'
      BY <1>2, OthersUntouched DEF Untouched, EndInv
    <2>2. End(p)
      BY DEF EndInv
    <2>3. ASSUME UNCHANGED <<job, stage, outcome>> PROVE End(p)'
      BY <2>2, <2>3
    <2>4. ASSUME Passes(p) \/ Written(p) PROVE End(p)'
      BY <2>4, ViewEffect
    <2>5. ASSUME Fails(p) \/ Refuses(p) PROVE outcome'[p] # "ok"
      BY <2>5, ViewEffect
    <2>6. End(p)'
      <3>1. Quiet(p) \/ ReadCell(p) => UNCHANGED <<job, stage, outcome>>
        BY ReadCellView DEF Quiet
      <3>. QED  BY <1>2, <2>3, <2>4, <2>5, <3>1, ViewCases
    <2>7. \A q \in Process : End(q)'
      BY <2>1, <2>6
    <2>. QED  BY <2>7 DEF EndInv
  <1>. QED  BY <1>1, <1>2 DEF Next

\* What a verifier decoded it keeps.
LEMMA DecodeKept ==
  ASSUME Typed, PlacesOK, DecodeInv, [Next]_vars
  PROVE  DecodeInv'
  <1>1. CASE UNCHANGED vars
    BY <1>1 DEF vars, DecodeInv
  <1>2. ASSUME NEW p \in Process,
               \/ OpenToRead(p) \/ ReadCell(p) \/ ReadShort(p) \/ Loaded(p)
               \/ OpenToWrite(p) \/ WriteCell(p) \/ Written(p) \/ Fail(p)
        PROVE  DecodeInv'
    <2>. DEFINE Decoded(q) == job[q].role = "verify" /\ stage[q] > 1 =>
                                Decode(job[q].scheme, got[q]["token"]).code = "ok"
    <2>1. ASSUME NEW q \in Process \ {p} PROVE Decoded(q)'
      BY <1>2, OthersUntouched DEF Untouched, DecodeInv
    <2>2. Decoded(p)
      BY DEF DecodeInv
    <2>3. ASSUME UNCHANGED <<job, stage, got>> PROVE Decoded(p)'
      BY <2>2, <2>3
    <2>4. ASSUME ReadCell(p) PROVE Decoded(p)'
      <3>1. /\ UNCHANGED <<job, stage>>
            /\ AtRead(job[p].role, job[p].scheme, job[p].keyFrom, stage[p], File(p))
            /\ \A g \in Path \ {File(p)} : got'[p][g] = got[p][g]
        BY <2>4, ReadCellView
      <3>2. job[p].role = "verify" /\ stage[p] > 1 => File(p) # "token"
        BY <3>1 DEF AtRead
      <3>3. "token" \in Path
        BY DEF Path
      <3>. QED  BY <2>2, <3>1, <3>2, <3>3
    <2>5. ASSUME Passes(p) PROVE Decoded(p)'
      <3>1. /\ Refusal(p) = "ok" /\ job' = job /\ got' = got
            /\ AtRead(job[p].role, job[p].scheme, job[p].keyFrom, stage[p], File(p))
        BY <2>5, ViewEffect
      <3>2. CASE File(p) = "token"
        BY <3>1, <3>2 DEF Refusal, TokenRefusal
      <3>3. CASE File(p) # "token" /\ job[p].role = "verify"
        BY <2>2, <3>1, <3>3 DEF AtRead
      <3>. QED  BY <3>1, <3>2, <3>3
    <2>6. ASSUME Written(p) PROVE Decoded(p)'
      <3>1. AtWrite(job[p].role, stage[p], File(p)) /\ job' = job
        BY <2>6, ViewEffect
      <3>. QED  BY <3>1 DEF AtWrite
    <2>7. Decoded(p)'
      <3>1. Quiet(p) \/ Fails(p) \/ Refuses(p) => UNCHANGED <<job, stage, got>>
        BY ViewEffect DEF Quiet
      <3>. QED  BY <1>2, <2>3, <2>4, <2>5, <2>6, <3>1, ViewCases
    <2>8. \A q \in Process : Decoded(q)'
      BY <2>1, <2>7
    <2>. QED  BY <2>8 DEF DecodeInv
  <1>. QED  BY <1>1, <1>2 DEF Next

\* Whoever approves has verified, under the key it went by.
LEMMA VerdictKept ==
  ASSUME Typed, PlacesOK, VerdictInv, [Next]_vars
  PROVE  VerdictInv'
  <1>1. CASE UNCHANGED vars
    <2>1. job' = job /\ stage' = stage /\ got' = got /\ outcome' = outcome
      BY <1>1 DEF vars
    <2>. QED  BY <2>1, SameView DEF VerdictInv, Verified, ReadToken, UsedKey, VerifyWithKey
  <1>2. ASSUME NEW p \in Process,
               \/ OpenToRead(p) \/ ReadCell(p) \/ ReadShort(p) \/ Loaded(p)
               \/ OpenToWrite(p) \/ WriteCell(p) \/ Written(p) \/ Fail(p)
        PROVE  VerdictInv'
    <2>. DEFINE Verdict(q) == Verified(q) => VerifyWithKey(q, ReadToken(q), UsedKey(q)) = "ok"
    <2>1. ASSUME NEW q \in Process, UNCHANGED job, stage'[q] = stage[q],
                 got'[q] = got[q], outcome'[q] = outcome[q]
          PROVE  Verdict(q)'
      <3>1. Verdict(q)
        BY DEF VerdictInv
      <3>. QED  BY <2>1, <3>1 DEF Verified, ReadToken, UsedKey, VerifyWithKey
    <2>2. ASSUME NEW q \in Process \ {p} PROVE Verdict(q)'
      BY <1>2, <2>1, OthersUntouched DEF Untouched
    <2>3. ASSUME outcome'[p] # "ok" PROVE Verdict(p)'
      BY <2>3 DEF Verified
    <2>4. ASSUME Passes(p) PROVE Verdict(p)'
      <3>1. /\ Refusal(p) = "ok" /\ job' = job /\ got' = got
            /\ AtRead(job[p].role, job[p].scheme, job[p].keyFrom, stage[p], File(p))
            /\ outcome'[p] = IF stage[p] = Len(Plan(job[p])) THEN "ok" ELSE "none"
        BY <2>4, ViewEffect
      <3>2. SUFFICES ASSUME job[p].role = "verify", stage[p] = Len(Plan(job[p]))
                     PROVE  VerifyWithKey(p, ReadToken(p), UsedKey(p)) = "ok"
        BY <3>1 DEF Verified, ReadToken, UsedKey, VerifyWithKey
      <3>3. IsJob(job[p]) /\ job[p].scheme \in {"ed25519", "hmac-sha256"}
        BY <3>2 DEF Typed, IsJob, Scheme
      <3>4. CASE File(p) = "token"
        <4>1. stage[p] = 1
          BY <3>1, <3>2, <3>4 DEF AtRead
        <4>2. job[p].scheme = "ed25519" /\ job[p].keyFrom = "store"
          <5>1. ASSUME NEW f, Plan(job[p]) = <<ReadFile("token"), ReadFile(f)>> PROVE FALSE
            <6>. DEFINE n == Len(Plan(job[p]))
            <6>1. n = 2 /\ stage[p] = n
              BY <3>2, <5>1, CellsShort
            <6>. HIDE DEF n
            <6>. QED  BY <4>1, <6>1
          <5>2. job[p].scheme # "hmac-sha256"
            BY <3>2, <3>3, <5>1, PlanForm
          <5>3. job[p].keyFrom = "store"
            BY <3>2, <3>3, <5>1, <5>2, PlanForm
          <5>. QED  BY <3>3, <5>2, <5>3
        <4>3. TokenRefusal(p) = "ok"
          BY <3>1, <3>4 DEF Refusal
        <4>4. VerifyWithKey(p, ReadToken(p), ReadToken(p).issuer) = "ok"
          BY <4>2, <4>3 DEF TokenRefusal, ReadToken
        <4>. QED  BY <4>2, <4>4 DEF UsedKey
      <3>5. CASE File(p) # "token"
        <4>1. \/ job[p].scheme = "hmac-sha256" /\ File(p) = "secret"
              \/ job[p].scheme = "ed25519" /\ job[p].keyFrom # "store" /\ File(p) = "public"
          BY <3>1, <3>2, <3>5 DEF AtRead
        <4>2. KeyRefusal(p) = "ok"
          BY <3>1, <3>5 DEF Refusal
        <4>3. VerifyWithKey(p, ReadToken(p), got[p][File(p)]) = "ok"
          BY <3>2, <4>2 DEF KeyRefusal, ReadToken
        <4>. QED  BY <4>1, <4>3 DEF UsedKey
      <3>. QED  BY <3>4, <3>5
    <2>5. ASSUME Written(p) PROVE Verdict(p)'
      <3>1. AtWrite(job[p].role, stage[p], File(p)) /\ job' = job
        BY <2>5, ViewEffect
      <3>. QED  BY <3>1 DEF AtWrite, Verified
    <2>6. Verdict(p)'
      <3>1. ReadCell(p) \/ Fails(p) \/ Refuses(p) => outcome'[p] # "ok"
        BY ViewEffect, ReadCellView
      <3>2. Quiet(p) => Verdict(p)'
        BY <2>1 DEF Quiet
      <3>. QED  BY <1>2, <2>3, <2>4, <2>5, <3>1, <3>2, ViewCases
    <2>7. \A q \in Process : Verdict(q)'
      BY <2>2, <2>6
    <2>. QED  BY <2>7 DEF VerdictInv
  <1>. QED  BY <1>1, <1>2 DEF Next

\* Whoever refuses has its reason in what it read.
LEMMA RefusalKept ==
  ASSUME Typed, PlacesOK, RefusalInv, [Next]_vars
  PROVE  RefusalInv'
  <1>. DEFINE Reasoned(q) ==
         job[q].role = "verify" /\ outcome[q] \notin {"none", "ok", "io"} =>
           stage[q] \in DOMAIN Plan(job[q]) /\ outcome[q] = Refusal(q)
  <1>1. ASSUME NEW q \in Process, UNCHANGED job, stage'[q] = stage[q],
               got'[q] = got[q], outcome'[q] = outcome[q]
        PROVE  Reasoned(q)'
    <2>1. Reasoned(q)
      BY DEF RefusalInv
    <2>2. Refusal(q)' = Refusal(q)
      BY <1>1, SameView DEF Refusal
    <2>. QED  BY <1>1, <2>1, <2>2
  <1>2. CASE UNCHANGED vars
    <2>1. \A q \in Process : Reasoned(q)'
      BY <1>1, <1>2 DEF vars
    <2>. QED  BY <2>1 DEF RefusalInv
  <1>3. ASSUME NEW p \in Process,
               \/ OpenToRead(p) \/ ReadCell(p) \/ ReadShort(p) \/ Loaded(p)
               \/ OpenToWrite(p) \/ WriteCell(p) \/ Written(p) \/ Fail(p)
        PROVE  RefusalInv'
    <2>1. ASSUME NEW q \in Process \ {p} PROVE Reasoned(q)'
      <3>1. job' = job /\ Untouched(q)
        BY <1>3, OthersUntouched
      <3>. QED  BY <1>1, <3>1 DEF Untouched
    <2>2. ASSUME outcome'[p] \in {"none", "ok", "io"} PROVE Reasoned(p)'
      BY <2>2
    <2>3. ASSUME Refuses(p) PROVE Reasoned(p)'
      <3>1. /\ stage' = stage /\ outcome'[p] = Refusal(p) /\ UNCHANGED <<job, got>>
            /\ stage[p] \in DOMAIN Plan(job[p])
        BY <2>3, ViewEffect
      <3>2. Refusal(p)' = Refusal(p)
        BY <3>1 DEF Refusal, File, TokenRefusal, KeyRefusal, VerifyWithKey
      <3>. QED  BY <3>1, <3>2
    <2>4. Reasoned(p)'
      <3>1. ReadCell(p) \/ Fails(p) \/ Passes(p) \/ Written(p)
              => outcome'[p] \in {"none", "ok", "io"}
        BY ViewEffect, ReadCellView
      <3>2. Quiet(p) => Reasoned(p)'
        BY <1>1 DEF Quiet
      <3>. QED  BY <1>3, <2>2, <2>3, <3>1, <3>2, ViewCases
    <2>5. \A q \in Process : Reasoned(q)'
      BY <2>1, <2>4
    <2>. QED  BY <2>5 DEF RefusalInv
  <1>. QED  BY <1>2, <1>3 DEF Next

-----------------------------------------------------------------------------
(* Seals *)

\* A cell that may stand at place i of a token file.
CellOK(i, cell, tokens) ==
  /\ cell.kind = "seal" => \E t \in tokens : cell = t.seal
  /\ i = 1 /\ cell.kind = "scope" =>
      cell = [kind |-> "scope", format |-> cell.format, issuer |-> cell.issuer,
              cap |-> cell.cap, source |-> cell.source]
  /\ i = 2 => /\ cell = [kind |-> "window", issued |-> cell.issued,
                         expires |-> cell.expires, nonce |-> cell.nonce,
                         length |-> cell.length]
              /\ cell.length \in Nat

LEMMA FileCells ==
  ASSUME NEW cells, NEW tokens
  PROVE  IsTokenFile(cells, tokens)
           <=> IsCells(cells) /\ \A i \in DOMAIN cells : CellOK(i, cells[i], tokens)
  BY DEF IsTokenFile, CellOK

\* More tokens may be sealed.
LEMMA FileStays ==
  ASSUME NEW cells, NEW few, NEW many, few \subseteq many, IsTokenFile(cells, few)
  PROVE  IsTokenFile(cells, many)
  <1>1. ASSUME NEW i, NEW cell, CellOK(i, cell, few) PROVE CellOK(i, cell, many)
    BY <1>1 DEF CellOK
  <1>. QED  BY <1>1, FileCells

\* Cells that are no seals.
LEMMA PlainCells ==
  ASSUME NEW tokens
  PROVE  /\ \A i : CellOK(i, Hole, tokens)
         /\ \A t : CellOK(1, Scope(t), tokens)
         /\ \A t : IsCells(t.context) => CellOK(2, Window(t), tokens)
         /\ \A i, cell : i \notin {1, 2} /\ cell.kind # "seal" => CellOK(i, cell, tokens)
  <1>1. \A i : CellOK(i, Hole, tokens)
    BY DEF CellOK, Hole
  <1>2. \A t : CellOK(1, Scope(t), tokens)
    BY DEF CellOK, Scope
  <1>3. ASSUME NEW t, IsCells(t.context) PROVE CellOK(2, Window(t), tokens)
    <2>1. Len(t.context) \in Nat
      BY <1>3, CellsForm
    <2>. QED  BY <2>1 DEF CellOK, Window
  <1>4. \A i, cell : i \notin {1, 2} /\ cell.kind # "seal" => CellOK(i, cell, tokens)
    BY DEF CellOK
  <1>. QED  BY <1>1, <1>2, <1>3, <1>4

\* The cells that issuing writes, one by one.
LEMMA EncodedCells ==
  ASSUME NEW tokens, NEW scheme, NEW t \in tokens, IsToken(t),
         \A i \in DOMAIN t.context : t.context[i].kind = "context",
         NEW k \in 1..Len(Encode(scheme, t))
  PROVE  CellOK(k, Encode(scheme, t)[k], tokens)
  <1>. DEFINE n == Len(t.context)  cells == Encode(scheme, t)
  <1>1. IsCells(t.context)
    BY DEF IsToken
  <1>2. /\ IsCells(cells) /\ n \in Nat
        /\ Len(cells) = IF scheme = "ed25519" THEN 3 + n ELSE 4 + n
        /\ cells[1] = Scope(t) /\ cells[2] = Window(t)
        /\ \A i \in 1..n : cells[2 + i] = t.context[i]
        /\ cells[3 + n] = t.seal
        /\ scheme # "ed25519" => cells[4 + n] = LF
    BY <1>1, EncodeForm
  <1>3. DOMAIN t.context = 1..n
    BY <1>1, CellsForm
  <1>4. k \in 1..Len(cells)
    OBVIOUS
  <1>. HIDE DEF n, cells
  <1>5. ASSUME k = 1 PROVE CellOK(k, cells[k], tokens)
    BY <1>2, <1>5, PlainCells
  <1>6. ASSUME k = 2 PROVE CellOK(k, cells[k], tokens)
    BY <1>1, <1>2, <1>6, PlainCells
  <1>7. ASSUME k \in 3..(2 + n) PROVE CellOK(k, cells[k], tokens)
    <2>1. k - 2 \in 1..n /\ 2 + (k - 2) = k
      BY <1>2, <1>7
    <2>2. cells[k] = t.context[k - 2]
      BY <1>2, <2>1
    <2>3. cells[k].kind = "context"
      BY <1>3, <2>1, <2>2
    <2>4. k \notin {1, 2}
      BY <1>2, <1>7
    <2>. QED  BY <2>3, <2>4, PlainCells
  <1>8. ASSUME k = 3 + n PROVE CellOK(k, cells[k], tokens)
    <2>1. k \notin {1, 2}
      BY <1>2, <1>8
    <2>2. cells[k] = t.seal
      BY <1>2, <1>8
    <2>. QED  BY <2>1, <2>2 DEF CellOK
  <1>9. ASSUME k = 4 + n /\ scheme # "ed25519" PROVE CellOK(k, cells[k], tokens)
    <2>1. k \notin {1, 2}
      BY <1>2, <1>9
    <2>2. cells[k].kind # "seal"
      BY <1>2, <1>9 DEF LF
    <2>. QED  BY <2>1, <2>2, PlainCells
  <1>10. k = 1 \/ k = 2 \/ k \in 3..(2 + n) \/ k = 3 + n \/ (k = 4 + n /\ scheme # "ed25519")
    BY <1>2, <1>4
  <1>11. CellOK(k, cells[k], tokens)
    BY <1>5, <1>6, <1>7, <1>8, <1>9, <1>10
  <1>. QED  BY <1>11 DEF cells

\* Writing such a cell keeps the file one, and so does reading one.
LEMMA PutFile ==
  ASSUME NEW tokens, NEW cells, IsTokenFile(cells, tokens), NEW i \in Nat, i >= 1,
         NEW cell, CellOK(i, cell, tokens)
  PROVE  IsTokenFile(Put(cells, i, cell), tokens)
  <1>. DEFINE new == Put(cells, i, cell)
  <1>1. IsCells(cells) /\ \A k \in DOMAIN cells : CellOK(k, cells[k], tokens)
    BY FileCells
  <1>2. /\ IsCells(new) /\ new[i] = cell
        /\ \A k \in 1..Len(new) : k # i =>
             new[k] = IF k <= Len(cells) THEN cells[k] ELSE Hole
    BY <1>1, PutForm
  <1>3. DOMAIN cells = 1..Len(cells) /\ Len(cells) \in Nat
    BY <1>1, CellsForm
  <1>. HIDE DEF new
  <1>4. DOMAIN new = 1..Len(new) /\ Len(new) \in Nat
    BY <1>2, CellsForm
  <1>5. ASSUME NEW k \in DOMAIN new PROVE CellOK(k, new[k], tokens)
    <2>1. CASE k = i
      BY <1>2, <2>1
    <2>2. CASE k # i /\ k <= Len(cells)
      BY <1>1, <1>2, <1>3, <1>4, <2>2
    <2>3. CASE k # i /\ ~(k <= Len(cells))
      BY <1>2, <1>4, <2>3, PlainCells
    <2>. QED  BY <2>1, <2>2, <2>3
  <1>6. IsTokenFile(new, tokens)
    BY <1>2, <1>5, FileCells
  <1>. QED  BY <1>6 DEF new

LEMMA AppendFile ==
  ASSUME NEW tokens, NEW cells, IsTokenFile(cells, tokens),
         NEW cell, CellOK(Len(cells) + 1, cell, tokens)
  PROVE  IsTokenFile(Append(cells, cell), tokens)
  <1>. DEFINE new == Append(cells, cell)
  <1>1. IsCells(cells) /\ \A k \in DOMAIN cells : CellOK(k, cells[k], tokens)
    BY FileCells
  <1>2. /\ IsCells(new) /\ Len(new) = Len(cells) + 1
        /\ \A i \in 1..Len(cells) : new[i] = cells[i]
        /\ new[Len(cells) + 1] = cell
    BY <1>1, CellsAppend
  <1>3. DOMAIN cells = 1..Len(cells) /\ Len(cells) \in Nat
    BY <1>1, CellsForm
  <1>. HIDE DEF new
  <1>4. DOMAIN new = 1..Len(new) /\ Len(new) \in Nat
    BY <1>2, CellsForm
  <1>5. ASSUME NEW k \in DOMAIN new PROVE CellOK(k, new[k], tokens)
    <2>1. CASE k = Len(cells) + 1
      BY <1>2, <2>1
    <2>2. CASE k # Len(cells) + 1
      <3>1. k \in 1..Len(cells)
        BY <1>2, <1>3, <1>4, <2>2
      <3>. QED  BY <1>1, <1>2, <1>3, <3>1
    <2>. QED  BY <2>1, <2>2
  <1>6. IsTokenFile(new, tokens)
    BY <1>2, <1>5, FileCells
  <1>. QED  BY <1>6 DEF new

LEMMA EmptyFile ==
  ASSUME NEW tokens
  PROVE  IsTokenFile(<<>>, tokens)
  <1>1. IsCells(<<>>) /\ DOMAIN <<>> = {}
    BY CellsShort
  <1>. QED  BY <1>1 DEF IsTokenFile

\* A token that was sealed stays one: its command reads no key any more.
LEMMA SealedGrows ==
  ASSUME Typed, PlacesOK, [Next]_vars
  PROVE  Sealed \subseteq Sealed'
  <1>. SUFFICES ASSUME NEW q \in Process, HasIssued(q)
                PROVE  HasIssued(q)' /\ IssuedToken(q)' = IssuedToken(q)
    BY DEF Sealed
  <1>1. CASE UNCHANGED vars
    BY <1>1 DEF vars, HasIssued, IssuedToken
  <1>2. ASSUME NEW p \in Process,
               \/ OpenToRead(p) \/ ReadCell(p) \/ ReadShort(p) \/ Loaded(p)
               \/ OpenToWrite(p) \/ WriteCell(p) \/ Written(p) \/ Fail(p)
        PROVE  HasIssued(q)' /\ IssuedToken(q)' = IssuedToken(q)
    <2>1. job[q].role = "issue" /\ stage[q] > 1 /\ stage[q] \in 1..4
      BY DEF HasIssued, Typed
    <2>2. ASSUME job' = job, got'[q] = got[q], stage'[q] = stage[q] \/ stage'[q] = stage[q] + 1
          PROVE  HasIssued(q)' /\ IssuedToken(q)' = IssuedToken(q)
      BY <2>1, <2>2 DEF HasIssued, IssuedToken
    <2>3. CASE p # q
      BY <1>2, <2>2, <2>3, OthersUntouched DEF Untouched
    <2>4. CASE p = q
      <3>1. ~ReadCell(q)
        BY <2>1, ReadCellView DEF AtRead
      <3>2. Quiet(q) \/ Written(q) \/ Passes(q) \/ Fails(q) \/ Refuses(q)
        BY <1>2, <2>4, <3>1, ViewCases
      <3>3. /\ job' = job /\ got'[q] = got[q]
            /\ stage'[q] = stage[q] \/ stage'[q] = stage[q] + 1
        BY <3>2, ViewEffect DEF Quiet
      <3>. QED  BY <2>2, <3>3
    <2>. QED  BY <2>3, <2>4
  <1>. QED  BY <1>1, <1>2 DEF Next

\* No step makes a seal but that of a token its command was to issue.
LEMMA SealKept ==
  ASSUME Typed, PlacesOK, SealInv, [Next]_vars
  PROVE  SealInv'
  <1>1. Sealed \subseteq Sealed'
    BY SealedGrows
  <1>2. /\ IsTokenFile(content["token"], Sealed')
        /\ \A q \in Process : IsTokenFile(got[q]["token"], Sealed')
    BY <1>1, FileStays DEF SealInv
  <1>3. ASSUME content'["token"] = content["token"], \A q \in Process : got'[q]["token"] = got[q]["token"]
        PROVE  SealInv'
    BY <1>2, <1>3 DEF SealInv
  <1>4. CASE UNCHANGED vars
    BY <1>3, <1>4 DEF vars
  <1>5. ASSUME NEW p \in Process,
               \/ OpenToRead(p) \/ ReadCell(p) \/ ReadShort(p) \/ Loaded(p)
               \/ OpenToWrite(p) \/ WriteCell(p) \/ Written(p) \/ Fail(p)
        PROVE  SealInv'
    <2>1. "token" \in Path
      BY DEF Path
    <2>2. ASSUME UNCHANGED <<content, got>> PROVE SealInv'
      BY <1>3, <2>2
    <2>3. CASE ReadCell(p)
      <3>. DEFINE f == File(p)  read == got[p][f]  cell == content[f][Len(read) + 1]
      <3>1. /\ content' = content /\ f \in Path
            /\ Len(read) \in Nat /\ Len(read) + 1 \in 1..Len(content[f])
            /\ got'[p][f] = Append(read, cell)
            /\ \A g \in Path \ {f} : got'[p][g] = got[p][g]
            /\ \A q \in Process \ {p} : got'[q] = got[q]
        BY <2>3, ReadCellEffect
      <3>2. CASE f = "token"
        <4>1. DOMAIN content["token"] = 1..Len(content["token"])
          BY CellsForm, <2>1 DEF Typed
        <4>2. CellOK(Len(read) + 1, cell, Sealed')
          <5>1. \A i \in DOMAIN content["token"] : CellOK(i, content["token"][i], Sealed')
            BY <1>2, FileCells
          <5>. QED  BY <3>1, <3>2, <4>1, <5>1
        <4>3. IsTokenFile(read, Sealed')
          BY <1>2, <3>2
        <4>. HIDE DEF read, cell, f
        <4>4. IsTokenFile(Append(read, cell), Sealed')
          BY <4>2, <4>3, AppendFile
        <4>5. \A q \in Process : IsTokenFile(got'[q]["token"], Sealed')
          BY <1>2, <3>1, <3>2, <4>4
        <4>. QED  BY <1>2, <3>1, <4>5 DEF SealInv
      <3>3. CASE f # "token"
        BY <1>3, <2>1, <3>1, <3>3
      <3>. QED  BY <3>2, <3>3
    <2>4. CASE OpenToWrite(p)
      <3>1. /\ got' = got /\ content'[File(p)] = <<>>
            /\ \A g \in Path \ {File(p)} : content'[g] = content[g]
        BY <2>4, OpenToWriteEffect
      <3>2. IsTokenFile(content'["token"], Sealed')
        BY <1>2, <2>1, <3>1, EmptyFile
      <3>. QED  BY <1>2, <3>1, <3>2 DEF SealInv
    <2>5. CASE WriteCell(p)
      <3>. DEFINE i == at[p] + 1  cell == Output(p)[i]
      <3>1. /\ got' = got /\ Writing(p) /\ at[p] \in Nat /\ at[p] < Len(Output(p))
            /\ content'[File(p)] = Put(content[File(p)], i, cell)
            /\ \A g \in Path \ {File(p)} : content'[g] = content[g]
        BY <2>5, WriteCellEffect
      <3>2. CASE File(p) = "token"
        <4>1. job[p].role = "issue" /\ stage[p] = 2
          BY <3>1, <3>2, Where DEF AtWrite
        <4>2. IssuedToken(p) \in Sealed'
          BY <1>1, <4>1 DEF Sealed, HasIssued
        <4>3. /\ IsToken(IssuedToken(p))
              /\ \A k \in DOMAIN IssuedToken(p).context : IssuedToken(p).context[k].kind = "context"
          <5>1. IsJob(job[p])
            BY DEF Typed
          <5>. QED  BY <4>1, <5>1, NewTokenForm DEF IssuedToken
        <4>4. Output(p) = Encode(job[p].scheme, IssuedToken(p))
          BY <3>2 DEF Output
        <4>5. Len(Encode(job[p].scheme, IssuedToken(p))) \in Nat
          BY <4>1, OutputForm, CellsForm
        <4>6. i \in 1..Len(Encode(job[p].scheme, IssuedToken(p)))
          BY <3>1, <4>4, <4>5
        <4>7. CellOK(i, cell, Sealed')
          BY <4>2, <4>3, <4>4, <4>6, EncodedCells
        <4>8. i \in Nat /\ i >= 1
          BY <3>1
        <4>. HIDE DEF i, cell
        <4>9. IsTokenFile(Put(content["token"], i, cell), Sealed')
          BY <1>2, <4>7, <4>8, PutFile
        <4>. QED  BY <1>2, <3>1, <3>2, <4>9 DEF SealInv
      <3>3. CASE File(p) # "token"
        BY <1>3, <2>1, <3>1, <3>3
      <3>. QED  BY <3>2, <3>3
    <2>6. OpenToRead(p) => UNCHANGED <<content, got>>
      BY OpenToReadEffect
    <2>. QED  BY <1>5, <2>2, <2>3, <2>4, <2>5, <2>6, StepCases
  <1>. QED  BY <1>4, <1>5 DEF Next

-----------------------------------------------------------------------------
(* Key pairs *)

\* The first cells of a sequence, all of them, and one more.
LEMMA StartForm ==
  ASSUME NEW s, NEW n \in Nat
  PROVE  /\ IsCells(Start(s, n)) /\ Len(Start(s, n)) = n
         /\ \A i \in 1..n : Start(s, n)[i] = s[i]
  <1>1. Start(s, n) = [i \in 1..n |-> Start(s, n)[i]] /\ \A i \in 1..n : Start(s, n)[i] = s[i]
    BY DEF Start
  <1>. QED  BY <1>1, CellsFunction

LEMMA StartAll ==
  ASSUME NEW s, IsCells(s)
  PROVE  Start(s, Len(s)) = s
  <1>1. Len(s) \in Nat
    BY CellsForm
  <1>2. /\ IsCells(Start(s, Len(s))) /\ Len(Start(s, Len(s))) = Len(s)
        /\ \A i \in 1..Len(s) : Start(s, Len(s))[i] = s[i]
    BY <1>1, StartForm
  <1>. QED  BY <1>2, SameCells

LEMMA StartGrows ==
  ASSUME NEW s, NEW n \in Nat
  PROVE  /\ Put(Start(s, n), n + 1, s[n + 1]) = Start(s, n + 1)
         /\ Append(Start(s, n), s[n + 1]) = Start(s, n + 1)
  <1>. DEFINE some == Start(s, n)  more == Start(s, n + 1)  new == Put(some, n + 1, s[n + 1])
              longer == Append(some, s[n + 1])
  <1>1. /\ IsCells(some) /\ Len(some) = n /\ \A i \in 1..n : some[i] = s[i]
        /\ IsCells(more) /\ Len(more) = n + 1 /\ \A i \in 1..(n + 1) : more[i] = s[i]
    BY StartForm
  <1>2. /\ IsCells(new) /\ Len(new) = IF Len(some) > n + 1 THEN Len(some) ELSE n + 1
        /\ new[n + 1] = s[n + 1]
        /\ \A k \in 1..Len(new) : k # n + 1 =>
             new[k] = IF k <= Len(some) THEN some[k] ELSE Hole
    BY <1>1, PutForm
  <1>3. /\ IsCells(longer) /\ Len(longer) = Len(some) + 1
        /\ \A i \in 1..Len(some) : longer[i] = some[i]
        /\ longer[Len(some) + 1] = s[n + 1]
    BY <1>1, CellsAppend
  <1>. HIDE DEF some, more, new, longer
  <1>4. new = more
    <2>1. Len(new) = n + 1
      BY <1>1, <1>2
    <2>2. ASSUME NEW k \in 1..(n + 1) PROVE new[k] = more[k]
      BY <1>1, <1>2, <2>1
    <2>. QED  BY <1>1, <1>2, <2>1, <2>2, SameCells
  <1>5. longer = more
    <2>1. Len(longer) = n + 1
      BY <1>1, <1>3
    <2>2. ASSUME NEW k \in 1..(n + 1) PROVE longer[k] = more[k]
      <3>1. k \in 1..n \/ k = n + 1
        OBVIOUS
      <3>. QED  BY <1>1, <1>3, <3>1
    <2>. QED  BY <1>1, <1>3, <2>1, <2>2, SameCells
  <1>. QED  BY <1>4, <1>5 DEF some, more, new, longer

\* Writing a key file: it is cut, grows by the cells of the key, and is the
\* key in the end.
LEMMA KeyWriting ==
  ASSUME Typed, PlacesOK, IdleInv, NEW p \in Process, KeyWriter(p)
  PROVE  LET f == File(p)  key == Output(p) IN
         /\ OpenToWrite(p) => content'[f] = Start(key, at'[p])
         /\ WriteCell(p) /\ content[f] = Start(key, at[p]) => content'[f] = Start(key, at'[p])
         /\ Written(p) /\ content[f] = Start(key, at[p]) => content[f] = key
  <1>. DEFINE f == File(p)  key == Output(p)
  <1>1. ASSUME OpenToWrite(p) PROVE content'[f] = Start(key, at'[p])
    <2>1. content'[f] = <<>> /\ ~open[p] /\ at' = at
      BY <1>1, OpenToWriteEffect
    <2>2. at'[p] = 0
      BY <2>1 DEF IdleInv
    <2>3. IsCells(Start(key, 0)) /\ Len(Start(key, 0)) = 0
      BY StartForm
    <2>4. IsCells(<<>>) /\ Len(<<>>) = 0
      BY CellsShort
    <2>5. Start(key, 0) = <<>>
      <3>1. \A i \in 1..0 : Start(key, 0)[i] = <<>>[i]
        OBVIOUS
      <3>. HIDE DEF key
      <3>. QED  BY <2>3, <2>4, <3>1, SameCells
    <2>. QED  BY <2>1, <2>2, <2>5
  <1>2. ASSUME WriteCell(p), content[f] = Start(key, at[p])
        PROVE  content'[f] = Start(key, at'[p])
    <2>1. /\ content'[f] = Put(content[f], at[p] + 1, key[at[p] + 1])
          /\ at[p] \in Nat /\ at'[p] = at[p] + 1
      BY <1>2, WriteCellEffect
    <2>. QED  BY <1>2, <2>1, StartGrows
  <1>3. ASSUME Written(p), content[f] = Start(key, at[p]) PROVE content[f] = key
    <2>1. at[p] = Len(key) /\ AtWrite(job[p].role, stage[p], f)
      BY <1>3, Where DEF Written
    <2>2. IsCells(key)
      BY <2>1, OutputForm DEF AtWrite, Output, KeyWriter
    <2>. QED  BY <1>3, <2>1, <2>2, StartAll
  <1>. QED  BY <1>1, <1>2, <1>3

\* A command that does not write keys leaves both key files alone.
LEMMA KeysLeft ==
  ASSUME Typed, PlacesOK, NEW p \in Process, ~KeyWriter(p),
         \/ OpenToRead(p) \/ ReadCell(p) \/ ReadShort(p) \/ Loaded(p)
         \/ OpenToWrite(p) \/ WriteCell(p) \/ Written(p) \/ Fail(p)
  PROVE  content'["private"] = content["private"] /\ content'["public"] = content["public"]
  <1>1. ASSUME OpenToWrite(p) \/ WriteCell(p)
        PROVE  content'["private"] = content["private"] /\ content'["public"] = content["public"]
    <2>1. Writing(p) /\ \A g \in Path \ {File(p)} : content'[g] = content[g]
      BY <1>1, OpenToWriteEffect, WriteCellEffect
    <2>2. File(p) = "token"
      BY <2>1, Where DEF AtWrite, KeyWriter
    <2>. QED  BY <2>1, <2>2 DEF Path
  <1>2. OpenToRead(p) \/ ReadCell(p) => content' = content
    BY OpenToReadEffect, ReadCellEffect
  <1>. QED  BY <1>1, <1>2, StepCases

\* How far a key generation has come, step by step.
LEMMA GenerateKept ==
  ASSUME Typed, PlacesOK, IdleInv, GenerateInv, [Next]_vars
  PROVE  GenerateInv'
  <1>. DEFINE Generated(p) ==
         /\ stage[p] = 1 /\ open[p] => content["private"] = Start(Private(p), at[p])
         /\ stage[p] > 1 => content["private"] = Private(p)
         /\ stage[p] = 2 /\ open[p] => content["public"] = Start(PublicOf(Private(p)), at[p])
         /\ stage[p] > 2 => content["public"] = PublicOf(Private(p))
  <1>1. job' = job
    <2>1. ASSUME NEW p \in Process,
               \/ OpenToRead(p) \/ ReadCell(p) \/ ReadShort(p) \/ Loaded(p)
               \/ OpenToWrite(p) \/ WriteCell(p) \/ Written(p) \/ Fail(p)
          PROVE  job' = job
      BY <2>1, StepCases DEF OpenToRead, ReadCell, OpenToWrite, WriteCell
    <2>. QED  BY <2>1 DEF Next, vars
  <1>2. SUFFICES ASSUME NEW p \in Process, OnlyWriter(p), job[p].role = "keygen"
                 PROVE  Generated(p)'
    BY <1>1 DEF GenerateInv, OnlyWriter, KeyWriter
  <1>3. Generated(p) /\ stage[p] \in 1..4 /\ at[p] \in Nat /\ KeyWriter(p)
    BY <1>2 DEF GenerateInv, Typed, OnlyWriter
  <1>4. ASSUME stage'[p] = stage[p], open'[p] = open[p] \/ ~open'[p], at'[p] = at[p] \/ ~open'[p],
               content'["private"] = content["private"], content'["public"] = content["public"]
        PROVE  Generated(p)'
    BY <1>3, <1>4
  <1>5. CASE UNCHANGED vars
    BY <1>4, <1>5 DEF vars
  <1>6. ASSUME NEW q \in Process,
               \/ OpenToRead(q) \/ ReadCell(q) \/ ReadShort(q) \/ Loaded(q)
               \/ OpenToWrite(q) \/ WriteCell(q) \/ Written(q) \/ Fail(q)
        PROVE  Generated(p)'
    <2>1. CASE q # p
      <3>1. ~KeyWriter(q)
        BY <1>2, <2>1 DEF OnlyWriter
      <3>2. content'["private"] = content["private"] /\ content'["public"] = content["public"]
        BY <1>6, <3>1, KeysLeft
      <3>. QED  BY <1>4, <1>6, <2>1, <3>2, OthersUntouched DEF Untouched
    <2>2. ASSUME AtWrite(job[p].role, stage[p], File(p))
          PROVE  \/ stage[p] = 1 /\ File(p) = "private" /\ Output(p) = Private(p)
                 \/ stage[p] = 2 /\ File(p) = "public" /\ Output(p) = PublicOf(Private(p))
      BY <1>2, <2>2 DEF AtWrite, Output, PrivateKey
    <2>3. ASSUME OpenToWrite(p) \/ WriteCell(p) PROVE Generated(p)'
      <3>1. /\ Writing(p) /\ stage' = stage /\ open'[p] = TRUE
            /\ WriteCell(p) => open[p]
            /\ \A g \in Path \ {File(p)} : content'[g] = content[g]
        BY <2>3, OpenToWriteEffect, WriteCellEffect
      <3>2. \/ stage[p] = 1 /\ File(p) = "private" /\ Output(p) = Private(p)
            \/ stage[p] = 2 /\ File(p) = "public" /\ Output(p) = PublicOf(Private(p))
        BY <2>2, <3>1, Where
      <3>3. WriteCell(p) => content[File(p)] = Start(Output(p), at[p])
        BY <1>3, <3>1, <3>2
      <3>4. content'[File(p)] = Start(Output(p), at'[p])
        BY <1>3, <2>3, <3>3, KeyWriting
      <3>5. CASE stage[p] = 1
        BY <3>1, <3>2, <3>4, <3>5
      <3>6. CASE stage[p] = 2
        BY <1>3, <3>1, <3>2, <3>4, <3>6 DEF Path
      <3>. QED  BY <3>2, <3>5, <3>6
    <2>4. ASSUME Written(p) PROVE Generated(p)'
      <3>1. content' = content /\ open[p]
        BY <2>4 DEF Written
      <3>2. /\ stage'[p] = stage[p] + 1 /\ AtWrite(job[p].role, stage[p], File(p))
        BY <2>4, ViewEffect
      <3>3. ~open'[p]
        BY <2>4, AdvanceEffect DEF Written, Writing
      <3>4. content[File(p)] = Start(Output(p), at[p])
        BY <1>3, <2>2, <3>1, <3>2
      <3>5. content[File(p)] = Output(p)
        BY <1>3, <2>4, <3>4, KeyWriting
      <3>. QED  BY <1>3, <2>2, <3>1, <3>2, <3>3, <3>5
    <2>5. ASSUME Passes(p) PROVE Generated(p)'
      <3>1. stage'[p] = stage[p] + 1 /\ stage[p] = 3 /\ content' = content
        BY <1>2, <2>5, ViewEffect DEF Passes, AtRead
      <3>. QED  BY <1>3, <3>1
    <2>6. ASSUME OpenToRead(p) \/ ReadCell(p) PROVE Generated(p)'
      <3>1. Reading(p) /\ UNCHANGED <<stage, content>>
        BY <2>6, OpenToReadEffect, ReadCellEffect
      <3>2. stage[p] = 3
        BY <1>2, <3>1, Where DEF AtRead
      <3>. QED  BY <1>3, <3>1, <3>2
    <2>7. ASSUME Fails(p) \/ Refuses(p) PROVE Generated(p)'
      <3>1. stage' = stage /\ ~open'[p] /\ content' = content
        BY <2>7, FinishEffect DEF Fails, Refuses
      <3>. QED  BY <1>4, <3>1
    <2>8. CASE q = p
      <3>1. \/ OpenToRead(p) \/ ReadCell(p) \/ OpenToWrite(p) \/ WriteCell(p)
            \/ Written(p) \/ Passes(p) \/ Fails(p) \/ Refuses(p)
        BY <1>6, <2>8, LoadedCases DEF Passes, Refuses, Fails, ReadShort, Fail, Reading
      <3>. QED  BY <2>3, <2>4, <2>5, <2>6, <2>7, <3>1
    <2>. QED  BY <2>1, <2>8
  <1>. QED  BY <1>5, <1>6 DEF Next

\* How far a derivation has come, step by step.
LEMMA DeriveKept ==
  ASSUME Typed, PlacesOK, IdleInv, DeriveInv, [Next]_vars
  PROVE  DeriveInv'
  <1>. DEFINE Derived(p) ==
         /\ Len(got[p]["private"]) <= Len(content["private"])
         /\ got[p]["private"] = Start(content["private"], Len(got[p]["private"]))
         /\ stage[p] = 1 /\ open[p] => size[p] = Len(content["private"])
         /\ stage[p] > 1 => got[p]["private"] = content["private"]
         /\ stage[p] = 2 /\ open[p] =>
              content["public"] = Start(PublicOf(got[p]["private"]), at[p])
         /\ stage[p] > 2 => content["public"] = PublicOf(got[p]["private"])
  <1>1. job' = job
    <2>1. ASSUME NEW p \in Process,
               \/ OpenToRead(p) \/ ReadCell(p) \/ ReadShort(p) \/ Loaded(p)
               \/ OpenToWrite(p) \/ WriteCell(p) \/ Written(p) \/ Fail(p)
          PROVE  job' = job
      BY <2>1, StepCases DEF OpenToRead, ReadCell, OpenToWrite, WriteCell
    <2>. QED  BY <2>1 DEF Next, vars
  <1>2. SUFFICES ASSUME NEW p \in Process, OnlyWriter(p), job[p].role = "derive"
                 PROVE  Derived(p)'
    BY <1>1 DEF DeriveInv, OnlyWriter, KeyWriter
  <1>3. /\ Derived(p) /\ stage[p] \in 1..4 /\ KeyWriter(p)
        /\ IsCells(content["private"]) /\ IsCells(got[p]["private"])
    BY <1>2 DEF DeriveInv, Typed, OnlyWriter, Path
  <1>4. ASSUME stage'[p] = stage[p], got'[p] = got[p],
               (open'[p] = open[p] /\ at'[p] = at[p] /\ size'[p] = size[p]) \/ ~open'[p],
               content'["private"] = content["private"], content'["public"] = content["public"]
        PROVE  Derived(p)'
    BY <1>3, <1>4
  <1>5. CASE UNCHANGED vars
    BY <1>4, <1>5 DEF vars
  <1>6. ASSUME NEW q \in Process,
               \/ OpenToRead(q) \/ ReadCell(q) \/ ReadShort(q) \/ Loaded(q)
               \/ OpenToWrite(q) \/ WriteCell(q) \/ Written(q) \/ Fail(q)
        PROVE  Derived(p)'
    <2>1. CASE q # p
      <3>1. ~KeyWriter(q)
        BY <1>2, <2>1 DEF OnlyWriter
      <3>2. content'["private"] = content["private"] /\ content'["public"] = content["public"]
        BY <1>6, <3>1, KeysLeft
      <3>. QED  BY <1>4, <1>6, <2>1, <3>2, OthersUntouched DEF Untouched
    <2>2. ASSUME AtWrite(job[p].role, stage[p], File(p))
          PROVE  /\ stage[p] = 2 /\ File(p) = "public"
                 /\ Output(p) = PublicOf(got[p]["private"])
      BY <1>2, <2>2 DEF AtWrite, Output, PrivateKey
    <2>3. ASSUME OpenToWrite(p) \/ WriteCell(p) PROVE Derived(p)'
      <3>1. /\ Writing(p) /\ stage' = stage /\ open'[p] = TRUE
            /\ WriteCell(p) => open[p]
            /\ got' = got /\ \A g \in Path \ {File(p)} : content'[g] = content[g]
        BY <2>3, OpenToWriteEffect, WriteCellEffect
      <3>2. stage[p] = 2 /\ File(p) = "public" /\ Output(p) = PublicOf(got[p]["private"])
        BY <2>2, <3>1, Where
      <3>3. WriteCell(p) => content[File(p)] = Start(Output(p), at[p])
        BY <1>3, <3>1, <3>2
      <3>4. content'[File(p)] = Start(Output(p), at'[p])
        BY <1>3, <2>3, <3>3, KeyWriting
      <3>5. content'["private"] = content["private"]
        BY <3>1, <3>2 DEF Path
      <3>. QED  BY <1>3, <3>1, <3>2, <3>4, <3>5
    <2>4. ASSUME Written(p) PROVE Derived(p)'
      <3>1. content' = content /\ got' = got /\ open[p]
        BY <2>4 DEF Written
      <3>2. /\ stage'[p] = stage[p] + 1 /\ AtWrite(job[p].role, stage[p], File(p))
        BY <2>4, ViewEffect
      <3>3. ~open'[p]
        BY <2>4, AdvanceEffect DEF Written, Writing
      <3>4. content[File(p)] = Start(Output(p), at[p])
        BY <1>3, <2>2, <3>1, <3>2
      <3>5. content[File(p)] = Output(p)
        BY <1>3, <2>4, <3>4, KeyWriting
      <3>. QED  BY <1>3, <2>2, <3>1, <3>2, <3>3, <3>5
    <2>5. ASSUME Passes(p) PROVE Derived(p)'
      <3>1. /\ open[p] /\ Len(got[p][File(p)]) = size[p] /\ UNCHANGED <<content, got>>
            /\ Reading(p) /\ Advance(p)
        BY <2>5 DEF Passes
      <3>2. stage'[p] = stage[p] + 1 /\ stage[p] = 1 /\ File(p) = "private"
        BY <1>2, <2>5, ViewEffect DEF AtRead
      <3>3. ~open'[p]
        BY <3>1, AdvanceEffect DEF Reading
      <3>4. Len(got[p]["private"]) = Len(content["private"])
        BY <1>3, <3>1, <3>2
      <3>5. got[p]["private"] = content["private"]
        BY <1>3, <3>4, StartAll
      <3>. QED  BY <1>3, <3>1, <3>2, <3>3, <3>5
    <2>6. ASSUME OpenToRead(p) PROVE Derived(p)'
      <3>1. /\ Reading(p) /\ UNCHANGED <<stage, content, got>>
            /\ size'[p] = Len(content[File(p)])
        BY <2>6, OpenToReadEffect
      <3>2. stage[p] = 1 /\ File(p) = "private"
        BY <1>2, <3>1, Where DEF AtRead
      <3>. QED  BY <1>3, <3>1, <3>2
    <2>7. ASSUME ReadCell(p) PROVE Derived(p)'
      <3>. DEFINE read == got[p]["private"]  n == Len(read)  key == content["private"]
      <3>1. /\ Reading(p) /\ UNCHANGED <<stage, content, open, size>>
        BY <2>7, ReadCellEffect
      <3>2. stage[p] = 1 /\ File(p) = "private"
        BY <1>2, <3>1, Where DEF AtRead
      <3>3. n \in Nat /\ n + 1 \in 1..Len(key) /\ got'[p]["private"] = Append(read, key[n + 1])
        BY <2>7, <3>2, ReadCellEffect
      <3>4. read = Start(key, n) /\ Len(key) \in Nat
        BY <1>3, CellsForm
      <3>. HIDE DEF read, n, key
      <3>5. got'[p]["private"] = Start(key, n + 1)
        BY <3>3, <3>4, StartGrows
      <3>6. n + 1 <= Len(key) /\ Len(got'[p]["private"]) = n + 1
        BY <3>3, <3>4, <3>5, StartForm
      <3>. QED  BY <1>3, <3>1, <3>2, <3>5, <3>6 DEF key
    <2>8. ASSUME Fails(p) \/ Refuses(p) PROVE Derived(p)'
      <3>1. stage' = stage /\ ~open'[p] /\ content' = content /\ got' = got
        BY <2>8, FinishEffect DEF Fails, Refuses
      <3>. QED  BY <1>4, <3>1
    <2>9. CASE q = p
      <3>1. \/ OpenToRead(p) \/ ReadCell(p) \/ OpenToWrite(p) \/ WriteCell(p)
            \/ Written(p) \/ Passes(p) \/ Fails(p) \/ Refuses(p)
        BY <1>6, <2>9, LoadedCases DEF Passes, Refuses, Fails, ReadShort, Fail, Reading
      <3>. QED  BY <2>3, <2>4, <2>5, <2>6, <2>7, <2>8, <3>1
    <2>. QED  BY <2>1, <2>9
  <1>. QED  BY <1>5, <1>6 DEF Next

-----------------------------------------------------------------------------
(* The invariant holds *)

\* It holds when the commands start.
LEMMA InitInv ==
  ASSUME Init
  PROVE  IInv
  <1>1. PICK s \in Scene : job = s.job /\ content = s.content
    BY DEF Init
  <1>2. /\ stage = [p \in Process |-> 1] /\ open = [p \in Process |-> FALSE]
        /\ size = [p \in Process |-> 0] /\ at = [p \in Process |-> 0]
        /\ got = [p \in Process |-> [f \in Path |-> <<>>]]
        /\ outcome = [p \in Process |-> "none"]
    BY DEF Init
  <1>3. /\ \A p \in Process : IsJob(job[p])
        /\ DOMAIN content = Path /\ \A f \in Path : IsCells(content[f])
        /\ IsTokenFile(content["token"], Foreign)
    BY <1>1, TokenFilesAssumption
  <1>4. \A p \in Process : /\ stage[p] = 1 /\ ~open[p] /\ size[p] = 0 /\ at[p] = 0
                           /\ DOMAIN got[p] = Path /\ outcome[p] = "none"
                           /\ \A f \in Path : got[p][f] = <<>>
    BY <1>2
  <1>5. Typed
    BY <1>2, <1>3, <1>4, CellsShort DEF Typed
  <1>6. PlacesOK
    <2>. SUFFICES ASSUME NEW p \in Process
                  PROVE  /\ ~Ended(p) => stage[p] \in DOMAIN Plan(job[p])
                         /\ Reading(p) => Len(got[p][File(p)]) <= size[p]
                         /\ Writing(p) => at[p] <= Len(Output(p))
      BY DEF PlacesOK
    <2>1. IsJob(job[p]) /\ stage[p] = 1
      BY <1>3, <1>4
    <2>2. ASSUME ~Ended(p) PROVE 1 \in DOMAIN Plan(job[p])
      <3>1. job[p].role \in {"keygen", "derive", "issue", "verify"}
        BY <2>1, <2>2 DEF Ended, IsJob, Role
      <3>2. \/ \E a : Plan(job[p]) = <<a>>
            \/ \E a, b : Plan(job[p]) = <<a, b>>
            \/ \E a, b, c : Plan(job[p]) = <<a, b, c>>
        <4>1. job[p].role \in {"issue", "verify"} => job[p].scheme \in {"ed25519", "hmac-sha256"}
          BY <2>1 DEF IsJob, Scheme
        <4>. QED  BY <2>1, <3>1, <4>1, PlanForm
      <3>3. \A a, b, c : /\ 1 \in DOMAIN <<a>> /\ 1 \in DOMAIN <<a, b>>
                         /\ 1 \in DOMAIN <<a, b, c>>
        OBVIOUS
      <3>. QED  BY <3>2, <3>3
    <2>3. ASSUME Reading(p) PROVE Len(got[p][File(p)]) <= size[p]
      <3>1. ~Ended(p) /\ Plan(job[p])[1].do = "read" /\ File(p) = Plan(job[p])[1].file
        BY <2>1, <2>3 DEF Reading, File
      <3>2. AtRead(job[p].role, job[p].scheme, job[p].keyFrom, 1, File(p))
        BY <2>1, <2>2, <3>1, PlanSteps
      <3>3. got[p][File(p)] = <<>>
        BY <1>4, <3>2 DEF AtRead, Path
      <3>. QED  BY <1>4, <3>3, CellsShort
    <2>4. ASSUME Writing(p) PROVE at[p] <= Len(Output(p))
      <3>1. ~Ended(p) /\ Plan(job[p])[1].do = "write" /\ File(p) = Plan(job[p])[1].file
        BY <2>1, <2>4 DEF Writing, File
      <3>2. AtWrite(job[p].role, 1, File(p))
        BY <2>1, <2>2, <3>1, PlanSteps
      <3>3. Len(Output(p)) \in Nat
        BY <1>5, <3>2, OutputForm, CellsForm DEF AtWrite, Output
      <3>. QED  BY <1>4, <3>3
    <2>. QED  BY <2>1, <2>2, <2>3, <2>4
  <1>7. IdleInv
    BY <1>4 DEF IdleInv
  <1>8. UnreadInv
    BY <1>4 DEF UnreadInv, Path
  <1>9. SealInv
    <2>1. IsTokenFile(content["token"], Sealed)
      BY <1>3, FileStays DEF Sealed
    <2>2. \A p \in Process : got[p]["token"] = <<>>
      BY <1>4 DEF Path
    <2>. QED  BY <2>1, <2>2, EmptyFile DEF SealInv
  <1>10. GrantInv /\ DecodeInv
    BY <1>4 DEF GrantInv, HasIssued, DecodeInv
  <1>11. VerdictInv /\ RefusalInv /\ EndInv
    BY <1>4 DEF VerdictInv, Verified, RefusalInv, EndInv
  <1>12. GenerateInv
    BY <1>4 DEF GenerateInv
  <1>13. DeriveInv
    <2>. SUFFICES ASSUME NEW p \in Process
                  PROVE  /\ Len(got[p]["private"]) <= Len(content["private"])
                         /\ got[p]["private"] = Start(content["private"], Len(got[p]["private"]))
      BY <1>4 DEF DeriveInv
    <2>1. got[p]["private"] = <<>> /\ IsCells(content["private"])
      BY <1>3, <1>4 DEF Path
    <2>2. Len(content["private"]) \in Nat /\ IsCells(<<>>) /\ Len(<<>>) = 0
      BY <2>1, CellsForm, CellsShort
    <2>3. IsCells(Start(content["private"], 0)) /\ Len(Start(content["private"], 0)) = 0
      BY StartForm
    <2>4. Start(content["private"], 0) = <<>>
      <3>. DEFINE none == Start(content["private"], 0)
      <3>1. \A i \in 1..0 : none[i] = <<>>[i]
        OBVIOUS
      <3>. HIDE DEF none
      <3>2. IsCells(none) /\ Len(none) = 0
        BY <2>3 DEF none
      <3>3. none = <<>>
        BY <2>2, <3>1, <3>2, SameCells
      <3>. QED  BY <3>3 DEF none
    <2>. QED  BY <2>1, <2>2, <2>4
  <1>. QED  BY <1>5, <1>6, <1>7, <1>8, <1>9, <1>10, <1>11, <1>12, <1>13, TypeParts DEF IInv

\* Every step keeps it.
LEMMA NextInv ==
  ASSUME IInv, [Next]_vars
  PROVE  IInv'
  <1>1. Typed /\ PlacesOK
    BY TypeParts DEF IInv
  <1>2. Typed' /\ PlacesOK'
    BY <1>1, TypedKept, PlacesKept DEF IInv
  <1>3. TypeOK'
    BY <1>2 DEF TypeOK, Typed, PlacesOK
  <1>4. IdleInv' /\ UnreadInv' /\ SealInv'
    BY <1>1, IdleKept, UnreadKept, SealKept DEF IInv
  <1>5. GrantInv' /\ DecodeInv' /\ VerdictInv' /\ RefusalInv' /\ EndInv'
    BY <1>1, GrantKept, DecodeKept, VerdictKept, RefusalKept, EndKept DEF IInv
  <1>6. GenerateInv' /\ DeriveInv'
    BY <1>1, GenerateKept, DeriveKept DEF IInv
  <1>. QED  BY <1>3, <1>4, <1>5, <1>6 DEF IInv

\* The invariant holds of every behaviour.
THEOREM Invariance == Spec => []IInv
  <1>1. Init => IInv
    BY InitInv
  <1>2. IInv /\ [Next]_vars => IInv'
    BY NextInv
  <1>. QED  BY <1>1, <1>2, PTL DEF Spec

\* The variables keep their types: a command is at a step of its plan, has
\* read no more than the size it measured and written no more than there is.
THEOREM TypeCorrect == Spec => []TypeOK
  <1>1. IInv => TypeOK
    BY DEF IInv
  <1>. QED  BY <1>1, Invariance, PTL

-----------------------------------------------------------------------------
(* What approval promises *)

\* What a positive answer of verification says.
LEMMA VerifyOK ==
  ASSUME NEW scheme, NEW t, NEW program, NEW now, NEW key,
         Verify(scheme, t, program, now, key) = "ok"
  PROVE  /\ t.seal = Seal(key, Prefix(t)) /\ Eligible(t.cap) /\ t.source = program
         /\ t.issued # 0 /\ ~(now < t.issued) /\ ~(now > t.expires)
  BY DEF Verify, VerifySigned, VerifyHmac, SignedTimesOK, HmacTimesOK

\* Everything that was sealed is a token made with its key.
LEMMA SealedTokens ==
  ASSUME Typed
  PROVE  \A x \in Sealed : IsToken(x)
  <1>1. ASSUME NEW q \in Process, HasIssued(q) PROVE IsToken(IssuedToken(q))
    <2>1. IsJob(job[q]) /\ job[q].role = "issue"
      BY <1>1 DEF Typed, HasIssued
    <2>. QED  BY <2>1, NewTokenForm DEF IssuedToken
  <1>. QED  BY <1>1, TokenFilesAssumption DEF Sealed

\* A verifier that approved has decoded its token.
LEMMA VerifiedDecoded ==
  ASSUME IInv, NEW p \in Process, Verified(p)
  PROVE  /\ Decode(job[p].scheme, got[p]["token"]).code = "ok"
         /\ IsTokenFile(got[p]["token"], Sealed)
         /\ Verify(job[p].scheme, ReadToken(p), job[p].program, job[p].now, UsedKey(p)) = "ok"
  <1>1. job[p].role = "verify" /\ outcome[p] = "ok" /\ Typed /\ PlacesOK
    BY TypeParts DEF Verified, IInv
  <1>2. IsJob(job[p]) /\ stage[p] \in 1..4
    BY <1>1 DEF Typed
  <1>3. stage[p] > 1
    <2>. DEFINE n == Len(Plan(job[p]))
    <2>1. stage[p] = n + 1
      BY <1>1 DEF IInv, EndInv
    <2>2. n \in 0..3 /\ n # 0
      <3>1. job[p].scheme \in {"ed25519", "hmac-sha256"}
        BY <1>1, <1>2 DEF IsJob, Scheme
      <3>2. \/ \E x : Plan(job[p]) = <<x>>
            \/ \E x, y : Plan(job[p]) = <<x, y>>
        BY <1>1, <1>2, <3>1, PlanForm
      <3>3. n # 0
        BY <3>2, CellsShort
      <3>. QED  BY <1>2, <3>3, PlanSteps
    <2>. HIDE DEF n
    <2>. QED  BY <1>2, <2>1, <2>2
  <1>4. Decode(job[p].scheme, got[p]["token"]).code = "ok"
    BY <1>1, <1>3 DEF IInv, DecodeInv
  <1>5. VerifyWithKey(p, ReadToken(p), UsedKey(p)) = "ok"
    BY DEF IInv, VerdictInv
  <1>6. IsTokenFile(got[p]["token"], Sealed)
    BY DEF IInv, SealInv
  <1>. QED  BY <1>4, <1>5, <1>6 DEF VerifyWithKey

\* An approval rests on a token that was sealed, with just this capability,
\* program, window and nonce, under the key the verifier went by, however the
\* writes and reads of all commands interleave and wherever they fail.
THEOREM AsIssued == Spec => []ApprovedAsIssued
  <1>1. ASSUME IInv PROVE ApprovedAsIssued
    <2>. SUFFICES ASSUME NEW p \in Process, Verified(p)
                  PROVE  LET t == ReadToken(p) IN
                         /\ t \in Sealed /\ t.seal.by = UsedKey(p)
                         /\ t.cap \in GatedCaps /\ t.source = job[p].program
                         /\ t.issued \in 1..job[p].now /\ job[p].now <= t.expires
      BY DEF ApprovedAsIssued
    <2>. DEFINE t == ReadToken(p)  cells == got[p]["token"]
    <2>1. /\ Decode(job[p].scheme, cells).code = "ok" /\ IsTokenFile(cells, Sealed)
          /\ Verify(job[p].scheme, t, job[p].program, job[p].now, UsedKey(p)) = "ok"
      BY <1>1, VerifiedDecoded
    <2>2. /\ t = [format |-> t.format, issuer |-> t.issuer, cap |-> t.cap,
                  source |-> t.source, issued |-> t.issued, expires |-> t.expires,
                  nonce |-> t.nonce, context |-> t.context, seal |-> t.seal]
          /\ IsCells(t.context)
          /\ \E i \in DOMAIN cells : t.seal = cells[i]
      BY <2>1, DecodedToken DEF ReadToken
    <2>3. /\ t.seal = Seal(UsedKey(p), Prefix(t)) /\ Eligible(t.cap)
          /\ t.source = job[p].program
          /\ t.issued # 0 /\ ~(job[p].now < t.issued) /\ ~(job[p].now > t.expires)
      BY <2>1, VerifyOK
    <2>. HIDE DEF t, cells
    <2>4. t.seal.kind = "seal" /\ t.seal.by = UsedKey(p)
      BY <2>3 DEF Seal
    <2>5. PICK x \in Sealed : t.seal = x.seal
      BY <2>1, <2>2, <2>4 DEF IsTokenFile
    <2>6. Typed /\ job[p].role = "verify"
      BY <1>1, TypeParts DEF IInv, Verified
    <2>7. IsToken(x)
      BY <2>6, SealedTokens
    <2>8. t = x
      BY <2>2, <2>3, <2>5, <2>7, SealDetermines
    <2>9. t.issued \in Nat /\ t.expires \in Nat /\ job[p].now \in Nat
      BY <2>6, <2>7, <2>8 DEF IsToken, Typed, IsJob
    <2>10. t.issued \in 1..job[p].now /\ job[p].now <= t.expires
      BY <2>3, <2>9
    <2>11. t.cap \in GatedCaps
      BY <2>3 DEF Eligible
    <2>. QED  BY <2>3, <2>4, <2>5, <2>8, <2>10, <2>11 DEF t
  <1>. QED  BY <1>1, Invariance, PTL

\* A signed token is approved from one file only, the one written for it.
THEOREM OneFile == Spec => []OneFilePerApproval
  <1>1. ASSUME IInv PROVE OneFilePerApproval
    <2>. SUFFICES ASSUME NEW p \in Process, Verified(p), job[p].scheme = "ed25519"
                  PROVE  got[p]["token"] = Encode("ed25519", ReadToken(p))
      BY DEF OneFilePerApproval
    <2>. DEFINE t == ReadToken(p)  cells == got[p]["token"]  n == cells[2].length
                file == Encode("ed25519", t)
    <2>1. DecodeSigned(cells).code = "ok" /\ IsTokenFile(cells, Sealed)
      BY <1>1, VerifiedDecoded DEF Decode
    <2>2. /\ t = TokenOf(cells, n) /\ n \in Nat /\ Len(cells) = 3 + n
          /\ cells[1].kind = "scope"
      BY <2>1, DecodedSigned DEF ReadToken, Decode
    <2>3. IsCells(cells) /\ DOMAIN cells = 1..(3 + n)
      <3>1. IsCells(cells)
        BY <2>1 DEF IsTokenFile
      <3>. QED  BY <2>2, <3>1, CellsForm
    <2>4. /\ t.format = cells[1].format /\ t.issuer = cells[1].issuer /\ t.cap = cells[1].cap
          /\ t.source = cells[1].source /\ t.issued = cells[2].issued
          /\ t.expires = cells[2].expires /\ t.nonce = cells[2].nonce
          /\ t.context = SubSeq(cells, 3, 2 + n) /\ t.seal = cells[3 + n]
      BY <2>2 DEF TokenOf
    <2>. HIDE DEF t, cells, n
    <2>5. /\ IsCells(t.context) /\ Len(t.context) = n
          /\ \A i \in 1..n : t.context[i] = cells[2 + i]
      <3>. DEFINE S == {cells[i] : i \in 3..(2 + n)}
      <3>1. 3 \in Int /\ 2 + n \in Int /\ \A i \in 3..(2 + n) : cells[i] \in S
        BY <2>2
      <3>. HIDE DEF S
      <3>2. /\ SubSeq(cells, 3, 2 + n) \in Seq(S)
            /\ Len(SubSeq(cells, 3, 2 + n)) = IF 3 <= 2 + n THEN (2 + n) - 3 + 1 ELSE 0
            /\ \A i \in 1..((2 + n) - 3 + 1) : SubSeq(cells, 3, 2 + n)[i] = cells[3 + i - 1]
        BY <3>1, SubSeqProperties
      <3>3. IsCells(t.context)
        BY <2>4, <3>2, CellsOver
      <3>4. Len(t.context) = n
        BY <2>2, <2>4, <3>2
      <3>5. ASSUME NEW i \in 1..n PROVE t.context[i] = cells[2 + i]
        <4>1. i \in 1..((2 + n) - 3 + 1) /\ 3 + i - 1 = 2 + i
          BY <2>2
        <4>. QED  BY <2>4, <3>2, <4>1
      <3>. QED  BY <3>3, <3>4, <3>5
    <2>6. 1 \in DOMAIN cells /\ 2 \in DOMAIN cells
      BY <2>2, <2>3
    <2>7. cells[1] = Scope(t)
      <3>1. cells[1] = [kind |-> "scope", format |-> cells[1].format,
                        issuer |-> cells[1].issuer, cap |-> cells[1].cap,
                        source |-> cells[1].source]
        BY <2>1, <2>2, <2>6 DEF IsTokenFile
      <3>. QED  BY <2>4, <3>1 DEF Scope
    <2>8. cells[2] = Window(t)
      <3>1. cells[2] = [kind |-> "window", issued |-> cells[2].issued,
                        expires |-> cells[2].expires, nonce |-> cells[2].nonce,
                        length |-> cells[2].length]
        BY <2>1, <2>6 DEF IsTokenFile
      <3>2. cells[2].length = Len(t.context)
        BY <2>5 DEF n
      <3>. QED  BY <2>4, <3>1, <3>2 DEF Window
    <2>9. /\ IsCells(file) /\ Len(file) = 3 + n
          /\ file[1] = Scope(t) /\ file[2] = Window(t)
          /\ \A i \in 1..n : file[2 + i] = t.context[i]
          /\ file[3 + n] = t.seal
      BY <2>5, EncodeForm
    <2>. HIDE DEF file
    <2>10. ASSUME NEW i \in 1..(3 + n) PROVE cells[i] = file[i]
      <3>1. CASE i = 1 \/ i = 2
        BY <2>7, <2>8, <2>9, <3>1
      <3>2. CASE i \in 3..(2 + n)
        <4>1. i - 2 \in 1..n /\ 2 + (i - 2) = i
          BY <2>2, <3>2
        <4>. QED  BY <2>5, <2>9, <4>1
      <3>3. CASE i = 3 + n
        BY <2>4, <2>9, <3>3
      <3>4. i = 1 \/ i = 2 \/ i \in 3..(2 + n) \/ i = 3 + n
        BY <2>2
      <3>. QED  BY <3>1, <3>2, <3>3, <3>4
    <2>11. cells = file
      BY <2>2, <2>3, <2>9, <2>10, SameCells
    <2>. QED  BY <2>11 DEF cells, file, t
  <1>. QED  BY <1>1, Invariance, PTL

\* Reading the file of a token gives that token back.
LEMMA DecodeEncoded ==
  ASSUME NEW scheme \in Scheme, NEW t, IsToken(t), t.cap \in GatedCaps, t.issued # 0,
         scheme = "ed25519" => t.format = "QNAT1" /\ Len(t.context) <= MaxContext,
         scheme = "hmac-sha256" => t.format = "V04" /\ t.context = <<>>
  PROVE  LET read == Decode(scheme, Encode(scheme, t)) IN read.code = "ok" /\ read.token = t
  <1>. DEFINE n == Len(t.context)  cells == Encode(scheme, t)
  <1>1. IsCells(t.context)
    BY DEF IsToken
  <1>2. /\ IsCells(cells) /\ n \in Nat
        /\ Len(cells) = IF scheme = "ed25519" THEN 3 + n ELSE 4 + n
        /\ cells[1] = Scope(t) /\ cells[2] = Window(t)
        /\ \A i \in 1..n : cells[2 + i] = t.context[i]
        /\ cells[3 + n] = t.seal
        /\ scheme # "ed25519" => cells[4 + n] = LF
    BY <1>1, EncodeForm
  <1>3. t = [format |-> t.format, issuer |-> t.issuer, cap |-> t.cap,
             source |-> t.source, issued |-> t.issued, expires |-> t.expires,
             nonce |-> t.nonce, context |-> t.context, seal |-> t.seal]
        /\ t.seal.kind = "seal"
    BY DEF IsToken, Seal
  <1>4. Window(t).length = n
    BY DEF Window
  <1>. HIDE DEF n, cells
  <1>5. SubSeq(cells, 3, 2 + n) = t.context
    <2>. DEFINE S == {cells[i] : i \in 3..(2 + n)}  sub == SubSeq(cells, 3, 2 + n)
    <2>1. 3 \in Int /\ 2 + n \in Int /\ \A i \in 3..(2 + n) : cells[i] \in S
      BY <1>2
    <2>. HIDE DEF S
    <2>2. /\ sub \in Seq(S)
          /\ Len(sub) = IF 3 <= 2 + n THEN (2 + n) - 3 + 1 ELSE 0
          /\ \A i \in 1..((2 + n) - 3 + 1) : sub[i] = cells[3 + i - 1]
      BY <2>1, SubSeqProperties
    <2>. HIDE DEF sub
    <2>3. IsCells(sub) /\ Len(sub) = n
      BY <1>2, <2>2, CellsOver
    <2>4. ASSUME NEW i \in 1..n PROVE sub[i] = t.context[i]
      <3>1. i \in 1..((2 + n) - 3 + 1) /\ 3 + i - 1 = 2 + i
        BY <1>2
      <3>. QED  BY <1>2, <2>2, <3>1
    <2>5. sub = t.context
      BY <1>1, <2>3, <2>4, SameCells DEF n
    <2>. QED  BY <2>5 DEF sub
  <1>6. TokenOf(cells, n) = t
    BY <1>2, <1>3, <1>5 DEF TokenOf, Scope, Window
  <1>7. t.cap \in StableCaps /\ t.cap \in Known
    BY ApprovalTokenAssumption DEF Known
  <1>8. MaxContext \in Nat
    BY ApprovalTokenAssumption
  <1>9. ASSUME scheme = "ed25519"
        PROVE  LET read == Decode(scheme, cells) IN read.code = "ok" /\ read.token = t
    <2>1. Len(cells) = 3 + n /\ n <= MaxContext
      BY <1>2, <1>9 DEF n
    <2>2. Len(cells) \in 3..(3 + MaxContext)
      BY <1>2, <1>8, <2>1
    <2>3. /\ cells[1].kind = "scope" /\ cells[1].format = "QNAT1"
          /\ cells[1].cap \in StableCaps
      BY <1>2, <1>7, <1>9 DEF Scope
    <2>4. cells[2].length = n
      BY <1>2, <1>4
    <2>5. SizeOK(cells) /\ ~(cells[2].length > MaxContext)
      BY <1>2, <1>8, <2>1, <2>4 DEF SizeOK
    <2>6. DecodeSigned(cells) = Accepted(cells, n)
      BY <2>2, <2>3, <2>4, <2>5 DEF DecodeSigned
    <2>. QED  BY <1>6, <1>9, <2>6 DEF Decode, Accepted
  <1>10. ASSUME scheme # "ed25519"
         PROVE  LET read == Decode(scheme, cells) IN read.code = "ok" /\ read.token = t
    <2>1. scheme = "hmac-sha256"
      BY <1>10 DEF Scheme
    <2>2. n = 0
      BY <2>1, CellsShort DEF n
    <2>3. Len(cells) = 4 /\ cells[4] = LF /\ cells[3] = t.seal
      BY <1>2, <1>10, <2>2
    <2>4. /\ cells[1].kind = "scope" /\ cells[1].format = "V04" /\ cells[1].cap \in Known
          /\ cells[3].kind = "seal"
      BY <1>2, <1>3, <1>7, <2>1, <2>3 DEF Scope
    <2>5. cells[2] # Hole
      BY <1>2 DEF Window, Hole
    <2>6. DecodeHmac(cells) = Accepted(cells, 0)
      BY <2>3, <2>4, <2>5 DEF DecodeHmac
    <2>. QED  BY <1>6, <1>10, <2>2, <2>6 DEF Decode, Accepted
  <1>11. LET read == Decode(scheme, cells) IN read.code = "ok" /\ read.token = t
    BY <1>9, <1>10
  <1>. QED  BY <1>11 DEF cells

\* Issuing promises what verifying keeps: a token that a command issued and
\* that is read whole is accepted under its key, for its program and inside
\* its window, unless a call fails.
THEOREM Honoured == Spec => []IssuedIsHonoured
  <1>1. ASSUME IInv PROVE IssuedIsHonoured
    <2>. SUFFICES ASSUME NEW p \in Process, NEW q \in Process,
                         job[p].role = "verify", HasIssued(q),
                         job[q].scheme = job[p].scheme,
                         got[p]["token"] = Encode(job[q].scheme, IssuedToken(q)),
                         UsedKey(p) = IssuedToken(q).seal.by,
                         job[p].keyFrom = "store" => UsedKey(p) \in job[p].trusted,
                         job[p].program = job[q].program,
                         job[p].now \in job[q].issued..job[q].expires,
                         job[q].scheme = "hmac-sha256" => Len(UsedKey(p)) \in SecretSizes,
                         outcome[p] \notin {"none", "ok", "io"}
                  PROVE  FALSE
      BY DEF IssuedIsHonoured
    <2>. DEFINE x == IssuedToken(q)  j == job[q]  scheme == job[p].scheme
                signed == j.scheme = "ed25519"
                key == got[q][IF j.scheme = "ed25519" THEN "private" ELSE "secret"]
    <2>1. Typed /\ PlacesOK
      BY <1>1, TypeParts DEF IInv
    <2>2. IsJob(j) /\ j.role = "issue" /\ IsJob(job[p])
      BY <2>1 DEF Typed, HasIssued
    <2>3. scheme \in Scheme /\ scheme \in {"ed25519", "hmac-sha256"} /\ j.scheme = scheme
      BY <2>2 DEF IsJob, Scheme
    <2>4. /\ x.format = IF signed THEN "QNAT1" ELSE "V04"
          /\ x.issuer = IF signed THEN PublicOf(key) ELSE <<>>
          /\ x.cap = j.cap /\ x.source = j.program
          /\ x.issued = j.issued /\ x.expires = j.expires
          /\ x.context = IF signed THEN j.context ELSE <<>>
          /\ x.seal = Seal(IF signed THEN PublicOf(key) ELSE key, Prefix(x))
          /\ IsToken(x)
      BY <2>2, NewTokenForm DEF IssuedToken
    <2>5. IssueRefusal(j) = "ok"
      BY <1>1 DEF IInv, GrantInv
    <2>. HIDE DEF x, key
    <2>6. x.seal.by = UsedKey(p) /\ x.seal = Seal(UsedKey(p), Prefix(x))
          /\ UsedKey(p) = IF signed THEN PublicOf(key) ELSE key
      <3>1. x.seal.by = UsedKey(p)
        BY DEF x
      <3>2. x.seal.by = IF signed THEN PublicOf(key) ELSE key
        BY <2>4 DEF Seal
      <3>. QED  BY <2>4, <3>1, <3>2
    <2>7. /\ Eligible(j.cap) /\ j.issued # 0 /\ j.expires > j.issued
          /\ signed => /\ j.cap \in j.program.caps /\ SignedTimesOK(j.issued, j.expires)
                       /\ ~(Len(j.context) > MaxContext)
      <3>1. CASE signed
        BY <2>5, <3>1 DEF IssueRefusal, IssueSignedRefusal, SignedTimesOK
      <3>2. CASE ~signed
        BY <2>5, <3>2 DEF IssueRefusal, IssueHmacRefusal, HmacTimesOK
      <3>. QED  BY <3>1, <3>2
    <2>8. /\ j.issued \in Nat /\ j.expires \in Nat /\ job[p].now \in Nat
          /\ ~(job[p].now < j.issued) /\ ~(job[p].now > j.expires)
      BY <2>2 DEF IsJob
    <2>9. Decode(scheme, got[p]["token"]).code = "ok" /\ ReadToken(p) = x
      <3>1. x.cap \in GatedCaps /\ x.issued # 0
        BY <2>4, <2>7 DEF Eligible
      <3>2. scheme = "ed25519" => x.format = "QNAT1" /\ Len(x.context) <= MaxContext
        <4>1. ASSUME scheme = "ed25519" PROVE Len(j.context) \in Nat
          BY <2>2, CellsForm DEF IsJob
        <4>2. MaxContext \in Nat
          BY ApprovalTokenAssumption
        <4>. QED  BY <2>3, <2>4, <2>7, <4>1, <4>2
      <3>3. scheme = "hmac-sha256" => x.format = "V04" /\ x.context = <<>>
        BY <2>3, <2>4
      <3>4. got[p]["token"] = Encode(scheme, x)
        BY <2>3 DEF x
      <3>. QED  BY <2>3, <2>4, <3>1, <3>2, <3>3, <3>4, DecodeEncoded DEF ReadToken
    <2>10. VerifyWithKey(p, x, UsedKey(p)) = "ok"
      <3>1. CASE signed
        <4>1. UsedKey(p) = x.issuer /\ x.cap \in job[p].program.caps
          BY <2>4, <2>6, <2>7, <3>1
        <4>2. VerifySigned(x, job[p].program, job[p].now, UsedKey(p)) = "ok"
          BY <2>4, <2>6, <2>7, <2>8, <3>1, <4>1 DEF VerifySigned
        <4>. QED  BY <2>3, <3>1, <4>2 DEF VerifyWithKey, Verify
      <3>2. CASE ~signed
        <4>1. VerifyHmac(x, job[p].program, job[p].now, UsedKey(p)) = "ok"
          BY <2>4, <2>6, <2>7, <2>8 DEF VerifyHmac, HmacTimesOK
        <4>. QED  BY <2>3, <3>2, <4>1 DEF VerifyWithKey, Verify
      <3>. QED  BY <3>1, <3>2
    <2>11. outcome[p] = Refusal(p) /\ stage[p] \in DOMAIN Plan(job[p])
      BY <1>1 DEF IInv, RefusalInv
    <2>12. AtRead("verify", scheme, job[p].keyFrom, stage[p], File(p))
      BY <2>2, <2>11, PlanSteps DEF AtWrite, File
    <2>13. CASE File(p) = "token"
      <3>1. ASSUME job[p].keyFrom = "store", signed PROVE UsedKey(p) = x.issuer
        BY <2>4, <2>6, <3>1
      <3>2. TokenRefusal(p) = "ok"
        <4>1. Decode(job[p].scheme, got[p]["token"]).token = x
          BY <2>9 DEF ReadToken
        <4>2. job[p].keyFrom = "store" => signed
          BY <2>2, <2>3 DEF IsJob
        <4>. QED  BY <2>9, <2>10, <3>1, <4>1, <4>2 DEF TokenRefusal
      <3>. QED  BY <2>11, <2>13, <3>2 DEF Refusal
    <2>14. CASE File(p) # "token"
      <3>1. UsedKey(p) = got[p][File(p)]
        BY <2>12, <2>14 DEF AtRead, UsedKey
      <3>2. /\ File(p) # "secret" => Len(UsedKey(p)) = KeySize
            /\ File(p) = "secret" => Len(UsedKey(p)) \in SecretSizes
        <4>1. File(p) # "secret" => signed
          BY <2>3, <2>12, <2>14 DEF AtRead
        <4>2. File(p) = "secret" => scheme = "hmac-sha256"
          BY <2>12, <2>14 DEF AtRead
        <4>. QED  BY <2>3, <2>6, <4>1, <4>2, KeyForm
      <3>3. KeyRefusal(p) = "ok"
        BY <2>3, <2>9, <2>10, <2>14, <3>1, <3>2 DEF KeyRefusal, ReadToken
      <3>. QED  BY <2>11, <2>14, <3>3 DEF Refusal
    <2>. QED  BY <2>13, <2>14
  <1>. QED  BY <1>1, Invariance, PTL

\* A command that says it wrote a key pair, or derived a public key, leaves
\* two files that belong together, if no other command wrote keys.
THEOREM KeyPairs == Spec => []KeysBelongTogether
  <1>1. ASSUME IInv PROVE KeysBelongTogether
    <2>. SUFFICES ASSUME NEW p \in Process, job[p].role \in {"keygen", "derive"},
                         outcome[p] = "ok", OnlyWriter(p)
                  PROVE  content["public"] = PublicOf(content["private"])
      BY DEF KeysBelongTogether, OnlyWriter, KeyWriter
    <2>1. IsJob(job[p]) /\ stage[p] = Len(Plan(job[p])) + 1
      BY <1>1, TypeParts DEF IInv, Typed, EndInv
    <2>2. CASE job[p].role = "keygen"
      <3>1. Plan(job[p]) = <<WriteFile("private"), WriteFile("public"), ReadFile("public")>>
        BY <2>1, <2>2, PlanForm
      <3>2. stage[p] = 4
        BY <2>1, <3>1
      <3>. QED  BY <1>1, <2>2, <3>2 DEF IInv, GenerateInv
    <2>3. CASE job[p].role = "derive"
      <3>1. Plan(job[p]) = <<ReadFile("private"), WriteFile("public")>>
        BY <2>1, <2>3, PlanForm
      <3>2. stage[p] = 3
        BY <2>1, <3>1
      <3>. QED  BY <1>1, <2>3, <3>2 DEF IInv, DeriveInv
    <2>. QED  BY <2>2, <2>3
  <1>. QED  BY <1>1, Invariance, PTL
=============================================================================
