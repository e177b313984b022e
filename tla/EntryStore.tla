----------------------------- MODULE EntryStore -----------------------------
(***************************************************************************)
(* The trust store (src/trust_store.c, src/trust_store_file.c) and the     *)
(* revocation store (src/revocation_store.c): entries in memory, the text  *)
(* they are parsed from, and the questions they answer.                    *)
(*                                                                         *)
(* A text is a sequence of units: the bytes of a line, and the LF that     *)
(* ends it.  What a line says is a record: its kind, the key or digest,    *)
(* and whether its label or reason is acceptable.  A fingerprint stands    *)
(* for the public key it is the digest of.                                 *)
(***************************************************************************)
EXTENDS Naturals, Sequences

CONSTANTS
    Key,                    \* fingerprints and token digests
    MaxEntries,             \* QN_TRUST_STORE_MAX_ISSUERS, QN_REVOCATION_MAX_ENTRIES
    MaxUnits                \* the limit on the size of a file

StoreKind == {"trust", "revocation"}
Zero == "zero"
NotHex == "notHex"

ASSUME EntryStoreAssumption ==
    /\ MaxEntries \in Nat \ {0} /\ MaxUnits \in Nat \ {0}
    /\ Zero \notin Key /\ NotHex \notin Key

Line(kind, key, textOK) == [kind |-> kind, key |-> key, textOK |-> textOK]
LF == Line("LF", Zero, TRUE)
Forbidden == Line("forbidden", Zero, TRUE)             \* a NUL or a CR
Malformed == Line("malformed", Zero, TRUE)
Header(store) == Line(store, Zero, TRUE)        \* QNTS1, QNRV1

TextUnit ==
    [kind : {"LF", "forbidden", "malformed", "trust", "revocation", "token", "issuer"},
     key : Key \cup {Zero, NotHex}, textOK : BOOLEAN]

EntryKinds(store) == IF store = "trust" THEN {"issuer"} ELSE {"token", "issuer"}
Entry == [kind : {"token", "issuer"}, key : Key]

\* What loading a store returns: "ok" and the entries, or an error code.
Loaded(entries) == [code |-> "ok", entries |-> entries]
Refused(code) == [code |-> code, entries |-> <<>>]

Code ==
    {"none", "ok", "QN-E5101", "QN-E5102", "QN-E5103", "QN-E5104", "QN-E5111", "QN-E5112",
     "QN-E5113", "QN-E5114", "QN-E5115", "QN-E5116", "QN-E5117", "QN-E6101", "QN-E6102",
     "QN-E6103", "QN-E6104", "QN-E6105", "QN-E6106", "QN-E6107", "QN-E6108"}

Result == {r \in [code : Code, entries : Seq(Entry)] : Len(r.entries) <= MaxEntries}

-----------------------------------------------------------------------------
(* Entries in memory *)

\* find_issuer, find_entry: an occupied slot of that kind and digest.
Contains(entries, kind, key) ==
    \E i \in DOMAIN entries : entries[i] = [kind |-> kind, key |-> key]

\* Mutant of AddRefusal: an issuer's entry hides the token's with the digest.
AddRefusalAnyKind(store, entries, kind, key) ==
    IF key = Zero THEN IF store = "trust" THEN "QN-E5101" ELSE "QN-E6101"
    ELSE IF \E k \in {"token", "issuer"} : Contains(entries, k, key)
    THEN IF store = "trust" THEN "QN-E5102" ELSE "QN-E6104"
    ELSE IF Len(entries) >= MaxEntries
    THEN IF store = "trust" THEN "QN-E5103" ELSE "QN-E6105"
    ELSE "ok"

\* The checks of qn_trust_store_add and add_entry, in their order.
AddRefusal(store, entries, kind, key) ==
    IF key = Zero THEN IF store = "trust" THEN "QN-E5101" ELSE "QN-E6101"
    ELSE IF Contains(entries, kind, key)
    THEN IF store = "trust" THEN "QN-E5102" ELSE "QN-E6104"
    ELSE IF Len(entries) >= MaxEntries
    THEN IF store = "trust" THEN "QN-E5103" ELSE "QN-E6105"
    ELSE "ok"

\* They take the first free slot, which is the one after the last entry:
\* nothing removes entries.
Add(store, entries, kind, key) ==
    LET refusal == AddRefusal(store, entries, kind, key) IN
    IF refusal = "ok" THEN Loaded(Append(entries, [kind |-> kind, key |-> key]))
                      ELSE Refused(refusal)

\* qn_trust_store_resolve: the verdict on an issuer of a loaded store.
Resolve(entries, issuer) ==
    IF Contains(entries, "issuer", issuer) THEN "ok" ELSE "QN-E5104"

\* qn_revocation_store_check: the token is looked up before its issuer.
Check(entries, token, issuer) ==
    IF Contains(entries, "token", token) THEN "QN-E6107"
    ELSE IF Contains(entries, "issuer", issuer) THEN "QN-E6108" ELSE "ok"

-----------------------------------------------------------------------------
(* Parsing *)

\* What the parser checks of a line before it adds the entry.
TrustLineRefusal(line) ==
    IF line.kind # "issuer" THEN "QN-E5114"
    ELSE IF line.key = NotHex THEN "QN-E5115"
    ELSE IF ~line.textOK THEN "QN-E5116" ELSE "ok"

RevocationLineRefusal(line) ==
    IF line.kind \notin EntryKinds("revocation") THEN "QN-E6103"
    ELSE IF line.key = NotHex THEN "QN-E6103"
    ELSE IF line.key = Zero THEN "QN-E6101"
    ELSE IF ~line.textOK THEN "QN-E6103" ELSE "ok"

AddLine(store, entries, line) ==
    LET refusal == IF store = "trust" THEN TrustLineRefusal(line)
                                      ELSE RevocationLineRefusal(line)
    IN  IF refusal # "ok" THEN Refused(refusal)
        ELSE Add(store, entries, line.kind, line.key)

\* The bytes up to the next LF: nothing, if the LF comes at once, and no
\* known record if what was written as two lines runs together.
LineAt(units, at) ==
    IF units[at] = LF \/ (at < Len(units) /\ units[at + 1] # LF)
    THEN Malformed ELSE units[at]

\* The loop over the lines after the header: its result after n lines.
ParseLines(store, units) ==
    LET after[n \in 0..Len(units)] ==
        IF n = 0 THEN Loaded(<<>>)
        ELSE IF after[n - 1].code # "ok" THEN after[n - 1]
        ELSE AddLine(store, after[n - 1].entries, LineAt(units, 2 * n + 1))
    IN  after[(Len(units) - 1) \div 2]

EndsInLF(units) == Len(units) > 0 /\ units[Len(units)] = LF

\* qn_trust_store_parse_text, qn_revocation_store_parse_text.
ParseText(store, units) ==
    IF Len(units) > MaxUnits
    THEN Refused(IF store = "trust" THEN "QN-E5111" ELSE "QN-E6102")
    ELSE IF \E i \in DOMAIN units : units[i] = Forbidden
    THEN Refused(IF store = "trust" THEN "QN-E5112" ELSE "QN-E6103")
    ELSE IF ~EndsInLF(units)
    THEN Refused(IF store = "trust" THEN "QN-E5114" ELSE "QN-E6103")
    ELSE IF Len(units) < 2 \/ units[1] # Header(store) \/ units[2] # LF
    THEN Refused(IF store = "trust" THEN "QN-E5113" ELSE "QN-E6103")
    ELSE ParseLines(store, units)

-----------------------------------------------------------------------------
(* Reference: which texts are stores, and of what *)

IsEntryLine(store, line) ==
    line.kind \in EntryKinds(store) /\ line.key \in Key /\ line.textOK

\* A header and entries, each followed by its LF, without duplicates.
IsStore(store, units) ==
    LET lines == Len(units) \div 2
    IN  /\ Len(units) % 2 = 0 /\ lines \in 1..(MaxEntries + 1)
        /\ Len(units) <= MaxUnits
        /\ \A i \in 1..lines : units[2 * i] = LF
        /\ units[1] = Header(store)
        /\ \A i \in 2..lines : IsEntryLine(store, units[2 * i - 1])
        /\ \A i, j \in 2..lines : units[2 * i - 1] = units[2 * j - 1] => i = j

EntriesOf(units) ==
    [i \in 1..(Len(units) \div 2 - 1) |->
        [kind |-> units[2 * i + 1].kind, key |-> units[2 * i + 1].key]]

\* Parsing accepts the stores and nothing else, and takes from them the
\* entries they list, none lost and none twice.
ParsesAsMeant(store, units) ==
    /\ ParseText(store, units).code = "ok" <=> IsStore(store, units)
    /\ ParseText(store, units).entries =
           IF IsStore(store, units) THEN EntriesOf(units) ELSE <<>>
=============================================================================
