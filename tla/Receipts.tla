------------------------------ MODULE Receipts ------------------------------
(***************************************************************************)
(* internal/receipt: what is signed of a receipt, and when a signature     *)
(* verifies.  A text is the sequence of its bytes.  A time counts quarters *)
(* of a microsecond: enough to lie on, below, half-way to and above the    *)
(* microseconds that timestamptz can hold.                                 *)
(***************************************************************************)
EXTENDS Integers, Sequences

Microsecond == 4

(* Slip: the fraction is cut off.                                          *)
TruncateTime(t) == Microsecond * (t \div Microsecond)

(* normalizeTime: Time.Round, half a microsecond goes up.                  *)
NormalizeTime(t) == Microsecond * ((t + 2) \div Microsecond)

UnixMicro(t) == t \div Microsecond

(* What a timestamptz column keeps of a time: the nearest microsecond, and
   of two that are equally near either one.                                *)
Column(t) ==
    LET below == Microsecond * (t \div Microsecond)
    IN  {u \in {below, below + Microsecond} : u - t \in -2..2}

(* Slip: the bytes of the text alone.                                      *)
FieldBare(s) == s

(* writeField: the length, then the text.  The eight bytes of a length or a
   time are one element here.                                              *)
Field(s) == <<Len(s)>> \o s

(* canonicalBytes, without the constant prefix.                            *)
CanonicalBytes(r) ==
    Field(r.id) \o Field(r.agent) \o Field(r.method) \o Field(r.host)
    \o Field(r.path) \o <<IF r.allowed THEN 1 ELSE 0>> \o Field(r.reason)
    \o <<UnixMicro(NormalizeTime(r.issuedAt))>>

Normalized(r) == [r EXCEPT !.issuedAt = NormalizeTime(r.issuedAt)]

(* An Ed25519 signature stands for the key that made it and the bytes it is
   of; a key id names one key.                                             *)
Signature(key, r) == <<key, CanonicalBytes(r)>>

(* Slip: the time is rounded for the signature only.                       *)
SignUnrounded(key, r) ==
    [receipt |-> r, keyId |-> key, signature |-> Signature(key, r)]

Sign(key, r) ==
    [receipt |-> Normalized(r), keyId |-> key,
     signature |-> Signature(key, Normalized(r))]

Verify(key, sr) == sr.signature = Signature(key, sr.receipt)
=============================================================================
