---------------------------- MODULE MCTokenFiles ----------------------------
(***************************************************************************)
(* Instances of TokenFiles for TLC: three commands.                        *)
(***************************************************************************)
EXTENDS TokenFiles

CONSTANTS a, b, c           \* commands
CONSTANTS k                 \* a key that is there from the start
CONSTANTS quantum, scalar, model, file, shell     \* capabilities

Processes == {a, b, c}
Safe == {quantum, scalar}
Gated == {model, file}
Blocked == {shell}
Stable == {quantum, model, file, shell}     \* not compute.u32_scalar

Program == [name |-> "program", caps |-> {quantum, model, file, shell}]
Other == [name |-> "other", caps |-> {quantum, file}]

Nothing == [role |-> "none"]
Keygen == [role |-> "keygen"]
Derive == [role |-> "derive"]

Issue(scheme) ==
    [role |-> "issue", scheme |-> scheme, cap |-> model, program |-> Program,
     issued |-> 1, expires |-> 2, nonce |-> "none", context |-> <<>>]
Longer(scheme) ==
    [Issue(scheme) EXCEPT !.cap = file, !.expires = 3, !.nonce = "given",
                          !.context = IF scheme = "ed25519" THEN <<Piece(1)>> ELSE <<>>]
Question(scheme) ==
    [role |-> "verify", scheme |-> scheme, program |-> Program, now |-> 2,
     keyFrom |-> "keyFile", trusted |-> {}]

\* Requests that differ from an acceptable one in one respect.
Requests(scheme) ==
    LET r == Issue(scheme) IN
    {r} \cup {[r EXCEPT !.cap = x] : x \in {quantum, scalar, file, shell}}
    \cup {[r EXCEPT !.cap = file, !.program = Other]}
    \cup {[r EXCEPT !.program = Other], [r EXCEPT !.nonce = "malformed"]}
    \cup {[r EXCEPT !.issued = t[1], !.expires = t[2]] :
              t \in {<<0, 2>>, <<2, 2>>, <<2, 3>>, <<2, 4>>, <<4, 5>>}}
    \cup (IF scheme = "ed25519"
          THEN {[r EXCEPT !.context = x] : x \in {<<Piece(1)>>, <<Piece(1), Piece(2)>>}}
          ELSE {})

Questions(scheme) ==
    LET q == Question(scheme) IN
    {[q EXCEPT !.now = t] : t \in 0..4} \cup {[q EXCEPT !.program = Other]}
    \cup (IF scheme = "ed25519"
          THEN {[q EXCEPT !.keyFrom = "store", !.trusted = s] :
                    s \in {{}, {PublicOf(Private(k))}}}
          ELSE {})

\* Tokens that were sealed with the key, but not by these commands.
ForeignToken(scheme) ==
    LET key == Private(k) IN
    {NewToken(a, r, key) : r \in
        Requests(scheme) \cup {[Longer(scheme) EXCEPT !.cap = shell]}}
ForeignTokens == ForeignToken("ed25519") \cup ForeignToken("hmac-sha256")

\* Files that they are in, and one whose format was changed after sealing.
ForeignFiles(scheme) ==
    {Encode(scheme, t) : t \in ForeignToken(scheme)}
    \cup (IF scheme = "ed25519"
          THEN {Encode(scheme, [NewToken(a, Issue(scheme), Private(k)) EXCEPT !.format = "QNAT2"])}
          ELSE {})

Keys == [f \in Path |->
    IF f \in {"private", "secret"} THEN Private(k)
    ELSE IF f = "public" THEN PublicOf(Private(k)) ELSE <<>>]

Jobs(x, y, z) == [p \in Processes |-> IF p = a THEN x ELSE IF p = b THEN y ELSE z]
InPlace(x, y, z) == [job |-> Jobs(x, y, z), content |-> Keys]

Scenes ==
    \* Two commands issue into one file, and one verifies.
    {InPlace(Issue(s), Longer(s), [Question(s) EXCEPT !.now = t]) : s \in Scheme, t \in 2..3}
    \* Keys are made or derived while others use them.
    \cup {InPlace(x, Issue("ed25519"), Question("ed25519")) : x \in {Keygen, Derive}}
    \cup {InPlace(Keygen, Keygen, Issue("ed25519")), InPlace(Keygen, Derive, Nothing)}
    \* Every request meets every question.
    \cup UNION {{InPlace(r, Nothing, q) : r \in Requests(s), q \in Questions(s)} : s \in Scheme}
    \* Files of other tools, and secrets of any size.
    \cup UNION {{[job |-> Jobs(Nothing, Nothing, q), content |-> [Keys EXCEPT !["token"] = x]] :
                  q \in Questions(s), x \in ForeignFiles(s)} : s \in Scheme}
    \cup {[job |-> Jobs(Issue("hmac-sha256"), Nothing, Question("hmac-sha256")),
           content |-> [Keys EXCEPT !["secret"] = s]] :
              s \in {<<>>, Private(k) \o Private(k)}}
    \cup {[job |-> Jobs(Issue("ed25519"), Derive, Question("ed25519")),
           content |-> [Keys EXCEPT !["private"] = s]] :
              s \in {<<>>, Private(k) \o Private(k)}}
=============================================================================
