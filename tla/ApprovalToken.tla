---------------------------- MODULE ApprovalToken ----------------------------
(***************************************************************************)
(* Approval tokens and their files: the Ed25519 tokens of                  *)
(* src/signed_approval.c and the HMAC tokens of src/approval.c.            *)
(*                                                                         *)
(* A file is a sequence of cells, the pieces a write may put on disk one   *)
(* after the other: the scope (magic, issuer, capability, source), the     *)
(* window (times, nonce, length of the context), the pieces of the context *)
(* and the seal (signature or MAC), which names the key and the very cells *)
(* it is computed over.  HMAC files end with a line feed.  The digest of a *)
(* token is that of its file: all the cells.                               *)
(***************************************************************************)
EXTENDS Naturals, Sequences, CapabilityGuard

CONSTANTS
    StableCaps,             \* capabilities with an identifier in signed tokens
    KeySize,                \* cells of an Ed25519 key: 32 bytes
    SecretSizes,            \* cells of an HMAC key: 16 to 4096 bytes
    MaxContext,             \* QN_SIGNED_APPROVAL_CONTEXT_MAX
    TimeLimit               \* INT64_MAX

ASSUME ApprovalTokenAssumption ==
    /\ GatedCaps \subseteq StableCaps /\ StableCaps \subseteq Known
    /\ KeySize \in Nat \ {0} /\ SecretSizes \subseteq Nat \ {0}
    /\ MaxContext \in Nat /\ TimeLimit \in Nat

Scheme == {"ed25519", "hmac-sha256"}

Scope(t) == [kind |-> "scope", format |-> t.format, issuer |-> t.issuer,
             cap |-> t.cap, source |-> t.source]
Window(t) == [kind |-> "window", issued |-> t.issued, expires |-> t.expires,
              nonce |-> t.nonce, length |-> Len(t.context)]
Piece(i) == [kind |-> "context", piece |-> i]
LF == [kind |-> "LF"]

\* What a write past the end leaves in between: zero bytes.
Hole == [kind |-> "window", issued |-> 0, expires |-> 0, nonce |-> "zero", length |-> 0]

\* Keys: one made of the halves of two others is a key of its own.
Private(name) == [i \in 1..KeySize |-> [kind |-> "private", of |-> name, half |-> i]]
PublicOf(private) == [i \in 1..KeySize |-> [kind |-> "public", of |-> private, half |-> i]]

Seal(key, cells) == [kind |-> "seal", by |-> key, of |-> cells]

\* Mutant of Prefix: the scope is not signed.
PrefixWithoutScope(t) == <<Window(t)>> \o t.context

\* encode_prefix, build_payload: what the seal is computed over.
Prefix(t) == <<Scope(t), Window(t)>> \o t.context

\* qn_signed_approval_write, qn_approval_write.
Encode(scheme, t) ==
    <<Scope(t), Window(t)>> \o t.context \o <<t.seal>>
        \o IF scheme = "ed25519" THEN <<>> ELSE <<LF>>

\* Any sequence.
IsCells(cells) == cells \in Seq({cells[i] : i \in DOMAIN cells})

\* A token as whoever has the key makes it: its seal is over its own fields.
IsToken(t) ==
    /\ t = [format |-> t.format, issuer |-> t.issuer, cap |-> t.cap, source |-> t.source,
            issued |-> t.issued, expires |-> t.expires, nonce |-> t.nonce,
            context |-> t.context, seal |-> Seal(t.seal.by, Prefix(t))]
    /\ t.issued \in Nat /\ t.expires \in Nat /\ IsCells(t.context)

-----------------------------------------------------------------------------
(* Issuing *)

SignedTimesOK(issued, expires) ==
    issued # 0 /\ expires > issued /\ issued <= TimeLimit /\ expires <= TimeLimit

\* Mutant of IssueSignedRefusal: times beyond what verification accepts.
IssueSignedRefusalAnyLimit(j) ==
    IF j.nonce = "malformed" THEN "QN-E5004"
    ELSE IF ~Eligible(j.cap) THEN "QN-E5010"
    ELSE IF j.cap \notin j.program.caps THEN "QN-E5009"
    ELSE IF j.issued = 0 \/ j.expires <= j.issued THEN "QN-E5004"
    ELSE IF Len(j.context) > MaxContext THEN "QN-E5012" ELSE "ok"

\* The checks of issue-ed25519 and qn_signed_approval_issue, once the key
\* is loaded.
IssueSignedRefusal(j) ==
    IF j.nonce = "malformed" THEN "QN-E5004"
    ELSE IF j.cap \notin StableCaps THEN "QN-E5009"
    ELSE IF ~Eligible(j.cap) THEN "QN-E5010"
    ELSE IF j.cap \notin j.program.caps THEN "QN-E5009"
    ELSE IF ~SignedTimesOK(j.issued, j.expires) THEN "QN-E5004"
    ELSE IF Len(j.context) > MaxContext THEN "QN-E5012" ELSE "ok"

HmacTimesOK(issued, expires) == issued # 0 /\ expires > issued

\* qn_approval_create: the capability need not be one the program requests.
IssueHmacRefusal(j) ==
    IF ~Eligible(j.cap) THEN "QN-E-APPROVAL-006"
    ELSE IF ~HmacTimesOK(j.issued, j.expires) THEN "QN-E-APPROVAL-002"
    ELSE IF j.nonce = "malformed" THEN "QN-E-APPROVAL-009" ELSE "ok"

IssueRefusal(j) ==
    IF j.scheme = "ed25519" THEN IssueSignedRefusal(j) ELSE IssueHmacRefusal(j)

\* The token made for job j of process p with the key it loaded.  Without a
\* given nonce, a signed token has a random one and an HMAC token one that
\* its other fields determine.  (A nonce stands for what of it is kept.)
NewToken(p, j, key) ==
    LET signed == j.scheme = "ed25519"
        open == [format |-> IF signed THEN "QNAT1" ELSE "V04",
                 issuer |-> IF signed THEN PublicOf(key) ELSE <<>>,
                 cap |-> j.cap, source |-> j.program,
                 issued |-> j.issued, expires |-> j.expires,
                 nonce |-> IF j.nonce # "none" THEN j.nonce
                           ELSE IF signed THEN p ELSE "derived",
                 context |-> IF signed THEN j.context ELSE <<>>,
                 seal |-> "none"]
    IN  [open EXCEPT !.seal = Seal(IF signed THEN PublicOf(key) ELSE key, Prefix(open))]

-----------------------------------------------------------------------------
(* Reading *)

Refused(code) == [code |-> code]

\* The token that a scope, a window and n context cells spell.
TokenOf(cells, n) ==
    [format |-> cells[1].format, issuer |-> cells[1].issuer, cap |-> cells[1].cap,
     source |-> cells[1].source, issued |-> cells[2].issued,
     expires |-> cells[2].expires, nonce |-> cells[2].nonce,
     context |-> SubSeq(cells, 3, 2 + n), seal |-> cells[3 + n]]

Accepted(cells, n) == [code |-> "ok", token |-> TokenOf(cells, n)]

\* Mutant of SizeOK: trailing cells are ignored.
SizeAtLeast(cells) == Len(cells) >= 3 + cells[2].length

SizeOK(cells) == Len(cells) = 3 + cells[2].length

\* qn_signed_approval_read.
DecodeSigned(cells) ==
    IF Len(cells) \notin 3..(3 + MaxContext) THEN Refused("QN-E5004")
    ELSE IF cells[1].kind # "scope" THEN Refused("QN-E5005")
    ELSE IF cells[1].format # "QNAT1" THEN Refused("QN-E5005")
    ELSE IF cells[1].cap \notin StableCaps THEN Refused("QN-E5009")
    ELSE IF cells[2].length > MaxContext THEN Refused("QN-E5012")
    ELSE IF ~SizeOK(cells) THEN Refused("QN-E5004")
    ELSE Accepted(cells, cells[2].length)

\* qn_approval_read: the lines in their order, and nothing after them.  The
\* last line feed may be missing.
DecodeHmac(cells) ==
    IF /\ Len(cells) = 3 \/ (Len(cells) = 4 /\ cells[4] = LF)
       /\ cells[1].kind = "scope" /\ cells[2] # Hole /\ cells[3].kind = "seal"
    THEN IF cells[1].format = "V04" /\ cells[1].cap \in Known
         THEN Accepted(cells, 0) ELSE Refused("QN-E-APPROVAL-010")
    ELSE Refused("QN-E-APPROVAL-010")

Decode(scheme, cells) == IF scheme = "ed25519" THEN DecodeSigned(cells) ELSE DecodeHmac(cells)

-----------------------------------------------------------------------------
(* Verifying *)

\* qn_signed_approval_verify.
VerifySigned(t, program, now, public) ==
    IF public # t.issuer THEN "QN-E5003"
    ELSE IF t.seal # Seal(public, Prefix(t)) THEN "QN-E5002"
    ELSE IF ~Eligible(t.cap) THEN "QN-E5010"
    ELSE IF ~SignedTimesOK(t.issued, t.expires) THEN "QN-E5004"
    ELSE IF now < t.issued THEN "QN-E5007"
    ELSE IF now > t.expires THEN "QN-E5006"
    ELSE IF t.source # program THEN "QN-E5008"
    ELSE IF t.cap \notin program.caps THEN "QN-E5009" ELSE "ok"

\* qn_approval_verify.
VerifyHmac(t, program, now, secret) ==
    IF ~Eligible(t.cap) THEN "QN-E-APPROVAL-006"
    ELSE IF ~HmacTimesOK(t.issued, t.expires) \/ now < t.issued THEN "QN-E-APPROVAL-002"
    ELSE IF now > t.expires THEN "QN-E-APPROVAL-005"
    ELSE IF t.source # program THEN "QN-E-APPROVAL-003"
    ELSE IF t.seal # Seal(secret, Prefix(t)) THEN "QN-E-APPROVAL-004" ELSE "ok"

Verify(scheme, t, program, now, key) ==
    IF scheme = "ed25519" THEN VerifySigned(t, program, now, key)
                          ELSE VerifyHmac(t, program, now, key)
=============================================================================
