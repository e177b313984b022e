---------------------------- MODULE MCStoreFile ----------------------------
(***************************************************************************)
(* Instances of StoreFile for TLC.                                         *)
(***************************************************************************)
EXTENDS StoreFile, TLC

CONSTANTS a, b

Keys == {a, b}
Questions == {[token |-> a, issuer |-> b]}

Lines ==
    {Line(kind, key, TRUE) : kind \in {"token", "issuer"}, key \in Keys}
    \cup {Line("issuer", Zero, TRUE), Line("issuer", NotHex, TRUE),
          Line("issuer", a, FALSE), Forbidden, Malformed}

Headed(s, lines) ==
    <<Header(s), LF>> \o
        [i \in 1..(2 * Len(lines)) |-> IF i % 2 = 1 THEN lines[(i + 1) \div 2] ELSE LF]

Token(k) == Line("token", k, TRUE)
Issuer(k) == Line("issuer", k, TRUE)

\* Lines of each kind, two entries that agree in part, stores filled and one too
\* many, a cut at the end, and texts without the header.
FirstTexts ==
    LET lists == {<<>>, <<Issuer(a), Issuer(b), Issuer(a)>>, <<Issuer(a), Token(a), Token(b)>>}
                 \cup {<<Issuer(a), line>> : line \in {Issuer(a), Issuer(b), Token(a)}}
                 \cup {<<line>> : line \in Lines \ {Token(b), Issuer(b)}}
    IN  [s \in StoreKind |->
            {Headed(s, l) : l \in lists}
            \cup {<<>>, <<LF, LF>>, <<Issuer(b), LF>>, <<Header(s), LF, Issuer(b)>>}]

\* What an administrator puts in its place: what bears on the question.
Texts == [trust |-> {Headed("trust", <<Issuer(b)>>), Headed("trust", <<>>)},
          revocation |-> {Headed("revocation", <<Token(a)>>), Headed("revocation", <<>>)}]

Units == {Issuer(b)}

Symmetry == Permutations(File)
=============================================================================
