---------------------------- MODULE AuditProofs ----------------------------
(***************************************************************************)
(* What modules Receipts and Audit are checked for on small instances,     *)
(* proved for texts of every length, every time, and every number of       *)
(* calls, agents, keys and limits.                                         *)
(***************************************************************************)
EXTENDS Audit, SequenceTheorems, TLAPS

-----------------------------------------------------------------------------
(* The signed bytes can be read back: a field from the front of a sequence is
   the length that it says it is.                                          *)

(* Concatenation and the sequence of one element, under a name, so that a
   proof can reason about them without looking into them.                  *)
Cat(s, t) == s \o t
One(n) == <<n>>

LEMMA CatSeq ==
    ASSUME NEW s \in Seq(Int), NEW t \in Seq(Int)
    PROVE  /\ Cat(s, t) \in Seq(Int) /\ Len(Cat(s, t)) = Len(s) + Len(t)
           /\ \A i \in 1..Len(s) + Len(t) :
                 Cat(s, t)[i] = IF i <= Len(s) THEN s[i] ELSE t[i - Len(s)]
  BY ConcatProperties DEF Cat

LEMMA CatAssociative ==
    ASSUME NEW s \in Seq(Int), NEW t \in Seq(Int), NEW u \in Seq(Int)
    PROVE  Cat(Cat(s, t), u) = Cat(s, Cat(t, u))
  BY ConcatAssociative DEF Cat

LEMMA SameLength ==
    ASSUME NEW a \in Seq(Int), NEW b \in Seq(Int), NEW x \in Seq(Int), NEW y \in Seq(Int),
           Len(a) = Len(b), Cat(a, x) = Cat(b, y)
    PROVE  a = b /\ x = y
<1>1. Len(a) \in Nat /\ Len(x) \in Nat /\ Len(y) \in Nat
  OBVIOUS
<1>2. /\ Len(Cat(a, x)) = Len(a) + Len(x)
      /\ \A i \in 1..Len(a) + Len(x) :
            Cat(a, x)[i] = IF i <= Len(a) THEN a[i] ELSE x[i - Len(a)]
  BY CatSeq
<1>3. /\ Len(Cat(b, y)) = Len(b) + Len(y)
      /\ \A i \in 1..Len(b) + Len(y) :
            Cat(b, y)[i] = IF i <= Len(b) THEN b[i] ELSE y[i - Len(b)]
  BY CatSeq
<1>4. Len(x) = Len(y)
  BY <1>1, <1>2, <1>3
<1>5. ASSUME NEW i \in 1..Len(a) PROVE a[i] = b[i]
  <2>1. i \in 1..Len(a) + Len(x) /\ i <= Len(a)
    BY <1>1
  <2> QED
    BY <1>2, <1>3, <1>4, <2>1
<1>6. ASSUME NEW i \in 1..Len(x) PROVE x[i] = y[i]
  <2>1. /\ i + Len(a) \in 1..Len(a) + Len(x) /\ ~(i + Len(a) <= Len(a))
        /\ (i + Len(a)) - Len(a) = i
    BY <1>1
  <2> QED
    BY <1>2, <1>3, <1>4, <2>1
<1> QED
  BY <1>4, <1>5, <1>6, SeqEqual

LEMMA OneSeq ==
    ASSUME NEW n \in Int
    PROVE  One(n) \in Seq(Int) /\ Len(One(n)) = 1 /\ One(n)[1] = n
  BY DEF One

LEMMA OneThenRest ==
    ASSUME NEW m \in Int, NEW n \in Int, NEW x \in Seq(Int), NEW y \in Seq(Int),
           Cat(One(m), x) = Cat(One(n), y)
    PROVE  m = n /\ x = y
<1>1. One(m) = One(n) /\ x = y
  BY OneSeq, SameLength
<1> QED
  BY <1>1, OneSeq

LEMMA FieldIsCat ==
    ASSUME NEW s \in Seq(Nat)
    PROVE  /\ Field(s) = Cat(One(Len(s)), s) /\ Field(s) \in Seq(Int)
           /\ s \in Seq(Int) /\ Len(s) \in Int
<1>1. s \in Seq(Int) /\ Len(s) \in Int
  OBVIOUS
<1>2. Field(s) = Cat(One(Len(s)), s)
  BY DEF Field, Cat, One
<1> QED
  BY <1>1, <1>2, OneSeq, CatSeq

LEMMA FieldThenRest ==
    ASSUME NEW a \in Seq(Nat), NEW b \in Seq(Nat), NEW x \in Seq(Int), NEW y \in Seq(Int),
           Cat(Field(a), x) = Cat(Field(b), y)
    PROVE  a = b /\ x = y
<1>1. /\ a \in Seq(Int) /\ b \in Seq(Int) /\ Len(a) \in Int /\ Len(b) \in Int
      /\ Field(a) = Cat(One(Len(a)), a) /\ Field(b) = Cat(One(Len(b)), b)
  BY FieldIsCat
<1>2. Cat(Field(a), x) = Cat(One(Len(a)), Cat(a, x))
  BY <1>1, OneSeq, CatAssociative
<1>3. Cat(Field(b), y) = Cat(One(Len(b)), Cat(b, y))
  BY <1>1, OneSeq, CatAssociative
<1>4. Cat(a, x) \in Seq(Int) /\ Cat(b, y) \in Seq(Int)
  BY <1>1, CatSeq
<1> DEFINE m == Len(a)
           n == Len(b)
           u == Cat(a, x)
           v == Cat(b, y)
<1>5. /\ m \in Int /\ n \in Int /\ u \in Seq(Int) /\ v \in Seq(Int)
      /\ Cat(One(m), u) = Cat(One(n), v)
  BY <1>1, <1>2, <1>3, <1>4
<1>6. m = n /\ u = v
  <2> HIDE DEF m, n, u, v
  <2> QED
    BY <1>5, OneThenRest
<1> QED
  BY <1>1, <1>6, SameLength

-----------------------------------------------------------------------------
(* What of a receipt goes into its bytes is of the type it should be.      *)
WellTyped(r) ==
    /\ r.id \in Seq(Nat) /\ r.agent \in Seq(Nat) /\ r.method \in Seq(Nat)
    /\ r.host \in Seq(Nat) /\ r.path \in Seq(Nat) /\ r.reason \in Seq(Nat)
    /\ r.allowed \in BOOLEAN /\ r.issuedAt \in Int

(* A rounded time stays as it is when it is rounded again, and in a column. *)
LEMMA TimeArithmetic ==
    ASSUME NEW t \in Int
    PROVE  /\ NormalizeTime(t) \in Int /\ UnixMicro(NormalizeTime(t)) \in Int
           /\ NormalizeTime(t) = Microsecond * UnixMicro(NormalizeTime(t))
           /\ NormalizeTime(NormalizeTime(t)) = NormalizeTime(t)
           /\ Column(NormalizeTime(t)) = {NormalizeTime(t)}
<1> DEFINE k == (t + 2) \div 4
<1>1. k \in Int
  OBVIOUS
<1>2. NormalizeTime(t) = 4 * k
  BY DEF NormalizeTime, Microsecond
<1> HIDE DEF k
<1>3. (4 * k) \div 4 = k /\ (4 * k + 2) \div 4 = k
  BY <1>1
<1>4. Column(4 * k) = {4 * k}
  BY <1>1, <1>3 DEF Column, Microsecond
<1> QED
  BY <1>1, <1>2, <1>3, <1>4 DEF NormalizeTime, UnixMicro, Microsecond

(* The signed bytes from each part on, read from the front.                *)
FromTime(r) == One(UnixMicro(NormalizeTime(r.issuedAt)))
FromReason(r) == Cat(Field(r.reason), FromTime(r))
FromAllowed(r) == Cat(One(IF r.allowed THEN 1 ELSE 0), FromReason(r))
FromPath(r) == Cat(Field(r.path), FromAllowed(r))
FromHost(r) == Cat(Field(r.host), FromPath(r))
FromMethod(r) == Cat(Field(r.method), FromHost(r))
FromAgent(r) == Cat(Field(r.agent), FromMethod(r))
FromId(r) == Cat(Field(r.id), FromAgent(r))

LEMMA PartsAreBytes ==
    ASSUME NEW r, WellTyped(r)
    PROVE  /\ FromTime(r) \in Seq(Int) /\ FromReason(r) \in Seq(Int)
           /\ FromAllowed(r) \in Seq(Int) /\ FromPath(r) \in Seq(Int)
           /\ FromHost(r) \in Seq(Int) /\ FromMethod(r) \in Seq(Int)
           /\ FromAgent(r) \in Seq(Int) /\ FromId(r) = CanonicalBytes(r)
           /\ CanonicalBytes(r) \in Seq(Int)
<1> DEFINE t == FromTime(r)
           b == One(IF r.allowed THEN 1 ELSE 0)
           fi == Field(r.id)
           fa == Field(r.agent)
           fm == Field(r.method)
           fh == Field(r.host)
           fp == Field(r.path)
           fr == Field(r.reason)
           p2 == Cat(fi, fa)
           p3 == Cat(p2, fm)
           p4 == Cat(p3, fh)
           p5 == Cat(p4, fp)
           p6 == Cat(p5, b)
<1>1. (IF r.allowed THEN 1 ELSE 0) \in Int
  OBVIOUS
<1>2. b \in Seq(Int) /\ t \in Seq(Int)
  BY <1>1, TimeArithmetic, OneSeq DEF FromTime, WellTyped
<1>3. /\ fi \in Seq(Int) /\ fa \in Seq(Int) /\ fm \in Seq(Int)
      /\ fh \in Seq(Int) /\ fp \in Seq(Int) /\ fr \in Seq(Int)
  BY FieldIsCat DEF WellTyped
<1>4. CanonicalBytes(r) = Cat(Cat(p6, fr), t)
  BY DEF CanonicalBytes, Cat, One, FromTime
<1>5. /\ FromReason(r) = Cat(fr, t) /\ FromAllowed(r) = Cat(b, FromReason(r))
      /\ FromPath(r) = Cat(fp, FromAllowed(r)) /\ FromHost(r) = Cat(fh, FromPath(r))
      /\ FromMethod(r) = Cat(fm, FromHost(r)) /\ FromAgent(r) = Cat(fa, FromMethod(r))
      /\ FromId(r) = Cat(fi, FromAgent(r))
  BY DEF FromReason, FromAllowed, FromPath, FromHost, FromMethod, FromAgent, FromId
<1> HIDE DEF t, b, fi, fa, fm, fh, fp, fr
<1>6. /\ t \in Seq(Int) /\ FromReason(r) \in Seq(Int)
      /\ FromAllowed(r) \in Seq(Int) /\ FromPath(r) \in Seq(Int)
      /\ FromHost(r) \in Seq(Int) /\ FromMethod(r) \in Seq(Int)
      /\ FromAgent(r) \in Seq(Int)
  BY <1>2, <1>3, <1>5, CatSeq
<1>7. /\ p2 \in Seq(Int) /\ p3 \in Seq(Int) /\ p4 \in Seq(Int)
      /\ p5 \in Seq(Int) /\ p6 \in Seq(Int)
  BY <1>2, <1>3, CatSeq
<1>8. Cat(Cat(p6, fr), t) = Cat(p6, FromReason(r))
  BY <1>2, <1>3, <1>5, <1>7, CatAssociative
<1>9. Cat(p6, FromReason(r)) = Cat(p5, FromAllowed(r))
  BY <1>2, <1>5, <1>6, <1>7, CatAssociative
<1>10. Cat(p5, FromAllowed(r)) = Cat(p4, FromPath(r))
  BY <1>3, <1>5, <1>6, <1>7, CatAssociative
<1>11. Cat(p4, FromPath(r)) = Cat(p3, FromHost(r))
  BY <1>3, <1>5, <1>6, <1>7, CatAssociative
<1>12. Cat(p3, FromHost(r)) = Cat(p2, FromMethod(r))
  BY <1>3, <1>5, <1>6, <1>7, CatAssociative
<1>13. Cat(p2, FromMethod(r)) = Cat(fi, FromAgent(r))
  BY <1>3, <1>5, <1>6, CatAssociative
<1>14. CanonicalBytes(r) = FromId(r)
  BY <1>4, <1>5, <1>8, <1>9, <1>10, <1>11, <1>12, <1>13
<1>15. FromId(r) \in Seq(Int)
  BY <1>3, <1>5, <1>6, CatSeq
<1> QED
  BY <1>6, <1>14, <1>15 DEF t

(* Two receipts with the same signed bytes agree in everything but the part of
   their times that is rounded away.                                       *)
LEMMA BytesNameOneReceipt ==
    ASSUME NEW r, NEW s, WellTyped(r), WellTyped(s), CanonicalBytes(r) = CanonicalBytes(s)
    PROVE  /\ r.id = s.id /\ r.agent = s.agent /\ r.method = s.method /\ r.host = s.host
           /\ r.path = s.path /\ r.reason = s.reason /\ r.allowed = s.allowed
           /\ NormalizeTime(r.issuedAt) = NormalizeTime(s.issuedAt)
<1>1. /\ FromTime(r) \in Seq(Int) /\ FromReason(r) \in Seq(Int)
      /\ FromAllowed(r) \in Seq(Int) /\ FromPath(r) \in Seq(Int)
      /\ FromHost(r) \in Seq(Int) /\ FromMethod(r) \in Seq(Int)
      /\ FromAgent(r) \in Seq(Int)
      /\ FromTime(s) \in Seq(Int) /\ FromReason(s) \in Seq(Int)
      /\ FromAllowed(s) \in Seq(Int) /\ FromPath(s) \in Seq(Int)
      /\ FromHost(s) \in Seq(Int) /\ FromMethod(s) \in Seq(Int)
      /\ FromAgent(s) \in Seq(Int)
  BY PartsAreBytes
<1>2. FromId(r) = FromId(s)
  BY PartsAreBytes
<1>3. r.id = s.id /\ FromAgent(r) = FromAgent(s)
  <2> DEFINE a == r.id
             b == s.id
             x == FromAgent(r)
             y == FromAgent(s)
  <2>1. /\ a \in Seq(Nat) /\ b \in Seq(Nat) /\ x \in Seq(Int) /\ y \in Seq(Int)
        /\ Cat(Field(a), x) = Cat(Field(b), y)
    BY <1>1, <1>2 DEF WellTyped, FromId
  <2> HIDE DEF a, b, x, y
  <2>2. a = b /\ x = y
    BY <2>1, FieldThenRest
  <2> QED
    BY <2>2 DEF a, b, x, y
<1>4. r.agent = s.agent /\ FromMethod(r) = FromMethod(s)
  <2> DEFINE a == r.agent
             b == s.agent
             x == FromMethod(r)
             y == FromMethod(s)
  <2>1. /\ a \in Seq(Nat) /\ b \in Seq(Nat) /\ x \in Seq(Int) /\ y \in Seq(Int)
        /\ Cat(Field(a), x) = Cat(Field(b), y)
    BY <1>1, <1>3 DEF WellTyped, FromAgent
  <2> HIDE DEF a, b, x, y
  <2>2. a = b /\ x = y
    BY <2>1, FieldThenRest
  <2> QED
    BY <2>2 DEF a, b, x, y
<1>5. r.method = s.method /\ FromHost(r) = FromHost(s)
  <2> DEFINE a == r.method
             b == s.method
             x == FromHost(r)
             y == FromHost(s)
  <2>1. /\ a \in Seq(Nat) /\ b \in Seq(Nat) /\ x \in Seq(Int) /\ y \in Seq(Int)
        /\ Cat(Field(a), x) = Cat(Field(b), y)
    BY <1>1, <1>4 DEF WellTyped, FromMethod
  <2> HIDE DEF a, b, x, y
  <2>2. a = b /\ x = y
    BY <2>1, FieldThenRest
  <2> QED
    BY <2>2 DEF a, b, x, y
<1>6. r.host = s.host /\ FromPath(r) = FromPath(s)
  <2> DEFINE a == r.host
             b == s.host
             x == FromPath(r)
             y == FromPath(s)
  <2>1. /\ a \in Seq(Nat) /\ b \in Seq(Nat) /\ x \in Seq(Int) /\ y \in Seq(Int)
        /\ Cat(Field(a), x) = Cat(Field(b), y)
    BY <1>1, <1>5 DEF WellTyped, FromHost
  <2> HIDE DEF a, b, x, y
  <2>2. a = b /\ x = y
    BY <2>1, FieldThenRest
  <2> QED
    BY <2>2 DEF a, b, x, y
<1>7. r.path = s.path /\ FromAllowed(r) = FromAllowed(s)
  <2> DEFINE a == r.path
             b == s.path
             x == FromAllowed(r)
             y == FromAllowed(s)
  <2>1. /\ a \in Seq(Nat) /\ b \in Seq(Nat) /\ x \in Seq(Int) /\ y \in Seq(Int)
        /\ Cat(Field(a), x) = Cat(Field(b), y)
    BY <1>1, <1>6 DEF WellTyped, FromPath
  <2> HIDE DEF a, b, x, y
  <2>2. a = b /\ x = y
    BY <2>1, FieldThenRest
  <2> QED
    BY <2>2 DEF a, b, x, y
<1>8. /\ (IF r.allowed THEN 1 ELSE 0) = (IF s.allowed THEN 1 ELSE 0)
      /\ FromReason(r) = FromReason(s)
  <2> DEFINE m == IF r.allowed THEN 1 ELSE 0
             n == IF s.allowed THEN 1 ELSE 0
  <2>1. /\ m \in Int /\ n \in Int
        /\ Cat(One(m), FromReason(r)) = Cat(One(n), FromReason(s))
    BY <1>7 DEF FromAllowed
  <2> HIDE DEF m, n
  <2>2. m = n /\ FromReason(r) = FromReason(s)
    BY <1>1, <2>1, OneThenRest
  <2> QED
    BY <2>2 DEF m, n
<1>9. r.allowed = s.allowed
  BY <1>8 DEF WellTyped
<1>10. r.reason = s.reason /\ FromTime(r) = FromTime(s)
  <2> DEFINE a == r.reason
             b == s.reason
             x == FromTime(r)
             y == FromTime(s)
  <2>1. /\ a \in Seq(Nat) /\ b \in Seq(Nat) /\ x \in Seq(Int) /\ y \in Seq(Int)
        /\ Cat(Field(a), x) = Cat(Field(b), y)
    BY <1>1, <1>8 DEF WellTyped, FromReason
  <2> HIDE DEF a, b, x, y
  <2>2. a = b /\ x = y
    BY <2>1, FieldThenRest
  <2> QED
    BY <2>2 DEF a, b, x, y
<1>11. UnixMicro(NormalizeTime(r.issuedAt)) = UnixMicro(NormalizeTime(s.issuedAt))
  <2> DEFINE m == UnixMicro(NormalizeTime(r.issuedAt))
             n == UnixMicro(NormalizeTime(s.issuedAt))
  <2>1. m \in Int /\ n \in Int /\ One(m) = One(n)
    BY <1>10, TimeArithmetic DEF FromTime, WellTyped
  <2> HIDE DEF m, n
  <2>2. m = n
    BY <2>1, OneSeq
  <2> QED
    BY <2>2 DEF m, n
<1>12. NormalizeTime(r.issuedAt) = NormalizeTime(s.issuedAt)
  <2>1. /\ NormalizeTime(r.issuedAt) = Microsecond * UnixMicro(NormalizeTime(r.issuedAt))
        /\ NormalizeTime(s.issuedAt) = Microsecond * UnixMicro(NormalizeTime(s.issuedAt))
    BY TimeArithmetic DEF WellTyped
  <2> QED
    BY <1>11, <2>1
<1> QED
  BY <1>3, <1>4, <1>5, <1>6, <1>7, <1>9, <1>10, <1>12

-----------------------------------------------------------------------------
(* A receipt that was signed with a key: its signature is of what it says, and
   the column that it is stored in leaves its time as it is.               *)
Proper(sr) ==
    /\ sr \in SignedReceipt(Keys) /\ Verify(sr.keyId, sr)
    /\ NormalizeTime(At(sr)) = At(sr) /\ Column(At(sr)) = {At(sr)}

Decided == {"allowed", "denied"}

(* The table holds proper receipts only, a handler that has signed holds one
   of its own call, and a decision that was reported is the stored one.    *)
TableInv == \A sr \in table : Proper(sr)

SignedInv ==
    \A c \in Calls :
        pc[c] \in Decided \cup {"insert"} => /\ Proper(signed[c])
                                             /\ signed[c].receipt.id = NewId(c)

ReportedInv ==
    \A c \in Calls :
        pc[c] \in Decided => /\ signed[c] \in table
                             /\ signed[c].receipt.allowed = (pc[c] = "allowed")

AuditInv ==
    TypeOK /\ TableInv /\ SignedInv /\ ReportedInv /\ DecisionsAreAuditable

LEMMA TypedIsWellTyped ==
    ASSUME NEW r \in ReceiptType
    PROVE  WellTyped(r)
  BY DEF ReceiptType, WellTyped

LEMMA SignIsProper ==
    ASSUME NEW key, NEW r \in ReceiptType
    PROVE  /\ Sign(key, r) \in SignedReceipt({key})
           /\ key \in Keys => Proper(Sign(key, r))
           /\ Sign(key, r).receipt.id = r.id /\ Sign(key, r).receipt.allowed = r.allowed
<1> DEFINE n == Normalized(r)
<1>1. /\ n \in ReceiptType /\ n.issuedAt = NormalizeTime(r.issuedAt)
      /\ n.id = r.id /\ n.allowed = r.allowed
  BY TimeArithmetic DEF Normalized, ReceiptType
<1>2. /\ NormalizeTime(n.issuedAt) = n.issuedAt
      /\ Column(n.issuedAt) = {n.issuedAt}
  BY <1>1, TimeArithmetic DEF ReceiptType
<1>3. CanonicalBytes(n) \in Seq(Int)
  BY <1>1, TypedIsWellTyped, PartsAreBytes
<1> HIDE DEF n
<1>4. Sign(key, r) = [receipt |-> n, keyId |-> key, signature |-> <<key, CanonicalBytes(n)>>]
  BY DEF Sign, Signature, n
<1>5. \A K : key \in K => Sign(key, r) \in SignedReceipt(K)
  BY <1>1, <1>3, <1>4 DEF SignedReceipt
<1> QED
  BY <1>1, <1>2, <1>4, <1>5 DEF Proper, Verify, Signature, At

(* What the table keeps of a proper receipt is the receipt.                *)
LEMMA StoredAsSigned ==
    ASSUME NEW sr, Proper(sr), NEW t \in Column(sr.receipt.issuedAt)
    PROVE  [sr EXCEPT !.receipt.issuedAt = t] = sr
<1>1. t = sr.receipt.issuedAt
  BY DEF Proper, At
<1>2. sr \in [receipt : ReceiptType, keyId : Keys, signature : Keys \X Seq(Int)]
  BY DEF Proper, SignedReceipt
<1> QED
  BY <1>1, <1>2 DEF ReceiptType

-----------------------------------------------------------------------------
LEMMA InitAuditInv == Init => AuditInv
<1> SUFFICES ASSUME Init PROVE AuditInv
  OBVIOUS
<1>1. NoReceipt \in SignedReceipt({NoKey})
  <2> DEFINE r == [id |-> << >>, agent |-> << >>, method |-> << >>, host |-> << >>,
                   path |-> << >>, allowed |-> FALSE, reason |-> << >>, issuedAt |-> 0]
  <2>1. r \in ReceiptType
    BY DEF ReceiptType
  <2> QED
    BY <2>1, SignIsProper DEF NoReceipt
<1>2. TypeOK
  BY <1>1 DEF Init, TypeOK, SignedReceipt, NoAnswer
<1> QED
  BY <1>2 DEF Init, AuditInv, TableInv, SignedInv, ReportedInv, DecisionsAreAuditable,
              NoAnswer, Decided

(* While there is no answer, none can be wrong.                            *)
LEMMA NoAnswerInv ==
    ASSUME answer = NoAnswer, UNCHANGED answer
    PROVE  /\ DecisionsAreAuditable'
           /\ answer'.status \in {0, 200, 400, 405, 500} /\ answer'.rows \in Seq(table')
  BY DEF NoAnswer, DecisionsAreAuditable

(* A request is refused, or decided and signed.                            *)
LEMMA HandleInv ==
    ASSUME NEW c \in Calls, AuditInv, answer = NoAnswer, Handle(c)
    PROVE  AuditInv'
<1> USE DEF AuditInv
<1>1. /\ pc[c] = "idle" /\ UNCHANGED <<signer, table, answer>>
      /\ signer \in Keys
  BY DEF Handle, Running, TypeOK
<1>2. DecisionsAreAuditable' /\ TableInv'
  BY <1>1, NoAnswerInv DEF TableInv
<1>3. CASE pc' = [pc EXCEPT ![c] = "refused"] /\ UNCHANGED signed
  <2>1. TypeOK'
    BY <1>1, <1>3, NoAnswerInv DEF TypeOK
  <2>2. SignedInv' /\ ReportedInv'
    BY <1>1, <1>3 DEF SignedInv, ReportedInv, Decided, TypeOK
  <2> QED
    BY <1>2, <2>1, <2>2
<1>4. ASSUME NEW allowed \in BOOLEAN, NEW now \in Times,
             signed' = [signed EXCEPT ![c] =
                 Sign(signer, [id |-> NewId(c), agent |-> Caller[c], method |-> Method,
                               host |-> Host, path |-> Path, allowed |-> allowed,
                               reason |-> Reason[allowed], issuedAt |-> now])],
             pc' = [pc EXCEPT ![c] = "insert"]
      PROVE  AuditInv'
  <2> DEFINE r == [id |-> NewId(c), agent |-> Caller[c], method |-> Method,
                   host |-> Host, path |-> Path, allowed |-> allowed,
                   reason |-> Reason[allowed], issuedAt |-> now]
             sr == Sign(signer, r)
  <2>1. NewId(c) \in Seq(Nat)
    BY TextsAssumption DEF NewId
  <2>2. /\ Caller[c] \in Seq(Nat) /\ Method \in Seq(Nat) /\ Host \in Seq(Nat)
        /\ Path \in Seq(Nat) /\ Reason[allowed] \in Seq(Nat) /\ now \in Int
    BY TextsAssumption, LimitsAssumption
  <2>3. r \in ReceiptType /\ r.id = NewId(c)
    BY <2>1, <2>2 DEF ReceiptType
  <2>4. signed' = [signed EXCEPT ![c] = sr]
    BY <1>4
  <2> HIDE DEF r
  <2>5. Proper(sr) /\ sr.receipt.id = NewId(c)
    BY <1>1, <2>3, SignIsProper
  <2> HIDE DEF sr
  <2>6. signed' \in [Calls -> SignedReceipt(Keys \cup {NoKey})]
    BY <2>4, <2>5 DEF TypeOK, Proper, SignedReceipt
  <2>7. TypeOK'
    BY <1>1, <1>4, <2>6, NoAnswerInv DEF TypeOK
  <2>8. SignedInv'
    BY <1>4, <2>4, <2>5 DEF SignedInv, TypeOK
  <2>9. ReportedInv'
    BY <1>1, <1>4, <2>4 DEF ReportedInv, Decided, TypeOK
  <2> QED
    BY <1>2, <2>7, <2>8, <2>9
<1> QED
  BY <1>3, <1>4 DEF Handle

(* The receipt is stored, or not; only what was stored is reported.        *)
LEMMA InsertInv ==
    ASSUME NEW c \in Calls, AuditInv, answer = NoAnswer, InsertReceipt(c)
    PROVE  AuditInv'
<1> USE DEF AuditInv
<1>1. PICK ok \in BOOLEAN, applied \in BOOLEAN, t \in Column(signed[c].receipt.issuedAt) :
         /\ ok => applied
         /\ table' = IF applied
                     THEN table \cup {[signed[c] EXCEPT !.receipt.issuedAt = t]}
                     ELSE table
         /\ pc' = [pc EXCEPT ![c] = Outcome(c, ok)]
  BY DEF InsertReceipt
<1>2. pc[c] = "insert" /\ UNCHANGED <<signer, signed, answer>>
  BY DEF InsertReceipt
<1>3. Proper(signed[c])
  BY <1>2 DEF SignedInv
<1>4. table' = IF applied THEN table \cup {signed[c]} ELSE table
  BY <1>1, <1>3, StoredAsSigned
<1>5. DecisionsAreAuditable'
  BY <1>2, NoAnswerInv
<1>6. Outcome(c, ok) \in Decided \cup {"failed"}
  BY DEF Outcome, Decided
<1>7. TypeOK'
  <2>1. pc' \in [Calls -> {"idle", "insert", "allowed", "denied", "refused", "failed", "dead"}]
    BY <1>1, <1>6 DEF TypeOK, Decided
  <2>2. table' \subseteq SignedReceipt(Keys)
    BY <1>3, <1>4 DEF TypeOK, Proper
  <2> QED
    BY <1>2, <2>1, <2>2, NoAnswerInv DEF TypeOK
<1>8. TableInv'
  BY <1>3, <1>4 DEF TableInv
<1>9. SignedInv'
  BY <1>1, <1>2 DEF SignedInv, TypeOK
<1>10. ASSUME NEW d \in Calls, pc'[d] \in Decided
       PROVE  /\ signed[d] \in table'
              /\ signed[d].receipt.allowed = (pc'[d] = "allowed")
  <2>1. CASE d # c
    BY <1>1, <1>4, <1>10, <2>1 DEF TypeOK, ReportedInv
  <2>2. CASE d = c
    <3> DEFINE yes == signed[c].receipt.allowed
    <3>1. yes \in BOOLEAN
      BY <1>3 DEF Proper, SignedReceipt, ReceiptType
    <3>2. ok /\ pc'[c] = IF yes THEN "allowed" ELSE "denied"
      BY <1>1, <1>10, <2>2 DEF Outcome, Decided, TypeOK
    <3>3. signed[c] \in table'
      BY <1>1, <1>4, <3>2
    <3> HIDE DEF yes
    <3>4. yes = (pc'[c] = "allowed")
      BY <3>1, <3>2
    <3> QED
      BY <2>2, <3>3, <3>4 DEF yes
  <2> QED
    BY <2>1, <2>2
<1>11. ReportedInv'
  BY <1>2, <1>10 DEF ReportedInv
<1> QED
  BY <1>5, <1>7, <1>8, <1>9, <1>11

(* The number of receipts that the API asks the table for.                 *)
LEMMA LimitAsked ==
    ASSUME NEW raw \in RawLimits \cup {NoLimit, NotANumber}, ~BadLimit(raw)
    PROVE  ParseLimit(raw) = Asked(raw) /\ ParseLimit(raw) \in Nat \ {0}
  BY LimitsAssumption DEF BadLimit, ParseLimit, Asked

(* An answer holds every reported decision that it has room for.           *)
LEMMA HandleReceiptsInv ==
    ASSUME AuditInv, answer = NoAnswer, HandleReceipts
    PROVE  AuditInv'
<1> USE DEF AuditInv
<1>1. UNCHANGED <<signer, pc, signed, table>>
  BY DEF HandleReceipts
<1>2. ASSUME NEW status \in {400, 405, 500}, Refuse(status) PROVE AuditInv'
  <2>1. answer'.status = status /\ answer'.rows = << >>
    BY <1>2 DEF Refuse, NoAnswer
  <2>2. << >> \in Seq(table')
    OBVIOUS
  <2>3. /\ answer'.status \in {0, 200, 400, 405, 500}
        /\ answer'.rows \in Seq(table')
    BY <1>2, <2>1, <2>2
  <2>4. TypeOK'
    BY <1>1, <2>3 DEF TypeOK
  <2>5. DecisionsAreAuditable'
    BY <2>1 DEF DecisionsAreAuditable
  <2> QED
    BY <1>1, <2>4, <2>5 DEF TableInv, SignedInv, ReportedInv
<1>3. ASSUME NEW a, NEW raw \in RawLimits \cup {NoLimit, NotANumber},
             ~BadLimit(raw),
             NEW rows \in ReceiptsByAgent(a, ParseLimit(raw)),
             answer' = [status |-> 200, agent |-> a, limit |-> raw, rows |-> rows]
      PROVE  AuditInv'
  <2> DEFINE S == {sr \in table : sr.receipt.agent = a}
             n == ParseLimit(raw)
  <2>1. n = Asked(raw) /\ n \in Nat \ {0}
    BY <1>3, LimitAsked
  <2>2. /\ rows \in UNION {[1..k -> S] : k \in 0..n}
        /\ Len(rows) = n \/ Range(rows) = S
        /\ \A sr \in S \ Range(rows), i \in DOMAIN rows : At(rows[i]) >= At(sr)
    BY <1>3 DEF ReceiptsByAgent, NewestFirst, Limited
  <2>3. rows \in Seq(S)
    BY <2>1, <2>2, SeqDef
  <2>4. TypeOK'
    <3>1. rows \in Seq(table)
      BY <2>3, SeqMonotonic
    <3> QED
      BY <1>1, <1>3, <3>1 DEF TypeOK
  <2>5. /\ Len(rows) <= Asked(raw)
        /\ \A i \in DOMAIN rows : rows[i].receipt.agent = a
    <3>1. PICK k \in 0..n : rows \in [1..k -> S]
      BY <2>2
    <3>2. k \in Nat /\ k <= n /\ Len(rows) = k
      BY <2>1, <3>1
    <3> QED
      BY <2>1, <3>1, <3>2
  <2>6. Len(rows) = n => rows # << >>
    BY <2>1
  <2>7. ASSUME NEW c \in Calls, pc[c] \in Decided, signed[c].receipt.agent = a
        PROVE  \/ \E i \in DOMAIN rows :
                     /\ rows[i].receipt.id = <<c>>
                     /\ rows[i].receipt.allowed = (pc[c] = "allowed")
               \/ /\ rows # << >> /\ Len(rows) = Asked(raw)
                  /\ \A i \in DOMAIN rows : At(rows[i]) >= At(signed[c])
    <3>1. /\ signed[c] \in S /\ signed[c].receipt.id = <<c>>
          /\ signed[c].receipt.allowed = (pc[c] = "allowed")
      BY <2>7 DEF NewId, SignedInv, ReportedInv
    <3>2. CASE signed[c] \in Range(rows)
      <4>1. PICK i \in DOMAIN rows : rows[i] = signed[c]
        BY <3>2 DEF Range
      <4> QED
        BY <3>1, <4>1
    <3>3. CASE signed[c] \notin Range(rows)
      BY <2>1, <2>2, <2>6, <3>1, <3>3
    <3> QED
      BY <3>2, <3>3
  <2>8. DecisionsAreAuditable'
    <3>1. answer'.agent = a /\ answer'.limit = raw /\ answer'.rows = rows
      BY <1>3
    <3>2. /\ Len(answer'.rows) <= Asked(answer'.limit)
          /\ \A i \in DOMAIN answer'.rows : answer'.rows[i].receipt.agent = answer'.agent
      BY <2>5, <3>1
    <3>3. ASSUME NEW c \in Calls, pc'[c] \in Decided, signed'[c].receipt.agent = answer'.agent
          PROVE  \/ \E i \in DOMAIN answer'.rows :
                       /\ answer'.rows[i].receipt.id = <<c>>
                       /\ answer'.rows[i].receipt.allowed = (pc'[c] = "allowed")
                 \/ /\ answer'.rows # << >> /\ Len(answer'.rows) = Asked(answer'.limit)
                    /\ \A i \in DOMAIN answer'.rows : At(answer'.rows[i]) >= At(signed'[c])
      BY <1>1, <2>7, <3>1, <3>3
    <3> QED
      BY <3>2, <3>3 DEF DecisionsAreAuditable, Decided, At, Asked
  <2> QED
    BY <1>1, <2>4, <2>8 DEF TableInv, SignedInv, ReportedInv
<1> QED
  BY <1>2, <1>3 DEF HandleReceipts

LEMMA NextAuditInv == AuditInv /\ [Next]_vars => AuditInv'
<1> SUFFICES ASSUME AuditInv, [Next]_vars PROVE AuditInv'
  OBVIOUS
<1> USE DEF AuditInv
<1>1. CASE answer = NoAnswer /\ Start
  <2>1. signer' \in Keys \cup {NoKey} /\ UNCHANGED <<pc, signed, table, answer>>
    BY <1>1 DEF Start, NewSignerFromSeed
  <2>2. TypeOK'
    BY <2>1 DEF TypeOK
  <2> QED
    BY <1>1, <2>1, <2>2, NoAnswerInv DEF TableInv, SignedInv, ReportedInv
<1>2. CASE answer = NoAnswer /\ Stop
  <2>1. /\ signer' = NoKey /\ UNCHANGED <<signed, table, answer>>
        /\ pc' = [c \in Calls |-> IF pc[c] = "insert" THEN "dead" ELSE pc[c]]
    BY <1>2 DEF Stop
  <2>2. TypeOK'
    BY <2>1 DEF TypeOK
  <2>3. SignedInv' /\ ReportedInv'
    BY <2>1 DEF SignedInv, ReportedInv, Decided
  <2> QED
    BY <1>2, <2>1, <2>2, <2>3, NoAnswerInv DEF TableInv
<1>3. CASE answer = NoAnswer /\ HandleReceipts
  BY <1>3, HandleReceiptsInv DEF AuditInv
<1>4. ASSUME answer = NoAnswer, NEW c \in Calls, Handle(c) \/ InsertReceipt(c)
      PROVE  AuditInv'
  BY <1>4, HandleInv, InsertInv DEF AuditInv
<1>5. CASE Answered
  <2>1. UNCHANGED <<signer, pc, signed, table>>
    BY <1>5 DEF Answered
  <2>2. answer'.status = 0 /\ answer'.rows = << >>
    BY <1>5 DEF Answered, NoAnswer
  <2>3. << >> \in Seq(table')
    OBVIOUS
  <2>4. /\ answer'.status \in {0, 200, 400, 405, 500}
        /\ answer'.rows \in Seq(table')
    BY <2>2, <2>3
  <2>5. TypeOK'
    BY <2>1, <2>4 DEF TypeOK
  <2>6. DecisionsAreAuditable'
    BY <2>2 DEF DecisionsAreAuditable
  <2> QED
    BY <2>1, <2>5, <2>6 DEF TableInv, SignedInv, ReportedInv
<1>6. CASE UNCHANGED vars
  <2>1. TypeOK'
    BY <1>6 DEF vars, TypeOK
  <2>2. DecisionsAreAuditable'
    BY <1>6 DEF vars, DecisionsAreAuditable, At
  <2> QED
    BY <1>6, <2>1, <2>2 DEF vars, TableInv, SignedInv, ReportedInv
<1> QED
  BY <1>1, <1>2, <1>3, <1>4, <1>5, <1>6 DEF Next

(* The invariant holds in every reachable state.                           *)
THEOREM AuditInvariance == Spec => []AuditInv
  BY InitAuditInv, NextAuditInv, PTL DEF Spec

(* Keys, calls, receipts and answers are always of their types.            *)
THEOREM AuditTypeCorrect == Spec => []TypeOK
<1>1. AuditInv => TypeOK
  BY DEF AuditInv
<1> QED
  BY <1>1, AuditInvariance, PTL

(* Every stored receipt verifies under the key it names, at whatever time it
   was issued and whatever keys the process has had since.                 *)
THEOREM EvidenceAlwaysVerifies == Spec => []EvidenceVerifies
<1>1. AuditInv => EvidenceVerifies
  BY DEF AuditInv, TableInv, Proper, EvidenceVerifies
<1> QED
  BY <1>1, AuditInvariance, PTL

(* No two receipts that differ share their signed bytes: texts of whatever
   length cannot be moved over their borders.                              *)
THEOREM SignatureAlwaysNamesOneReceipt == Spec => []SignatureNamesOneReceipt
<1>1. AuditInv => SignatureNamesOneReceipt
  <2> SUFFICES ASSUME AuditInv, NEW sr \in table,
                      NEW h \in Texts, NEW p \in Texts, NEW w \in Texts,
                      NEW d \in BOOLEAN, NEW t \in Times,
                      Verify(sr.keyId,
                             [sr EXCEPT !.receipt =
                                 [sr.receipt EXCEPT !.host = h, !.path = p, !.allowed = d,
                                                    !.reason = w, !.issuedAt = t]])
               PROVE  Normalized([sr.receipt EXCEPT !.host = h, !.path = p, !.allowed = d,
                                                    !.reason = w, !.issuedAt = t])
                         = sr.receipt
    BY DEF SignatureNamesOneReceipt
  <2> DEFINE r == [sr.receipt EXCEPT !.host = h, !.path = p, !.allowed = d,
                                     !.reason = w, !.issuedAt = t]
  <2>1. Proper(sr) /\ sr.receipt \in ReceiptType
    BY DEF AuditInv, TableInv, Proper, SignedReceipt
  <2>2. /\ h \in Seq(Nat) /\ p \in Seq(Nat) /\ w \in Seq(Nat) /\ t \in Int
    BY TextsAssumption, LimitsAssumption
  <2>3. r \in ReceiptType
    BY <2>1, <2>2 DEF ReceiptType
  <2>4. sr.signature = Signature(sr.keyId, sr.receipt)
    BY <2>1 DEF Proper, Verify
  <2>5. sr.signature = Signature(sr.keyId, r)
    BY <2>1 DEF Verify, Proper, SignedReceipt
  <2>6. Normalized(r) = [r EXCEPT !.issuedAt = NormalizeTime(r.issuedAt)]
    BY DEF Normalized
  <2> HIDE DEF r
  <2>7. CanonicalBytes(r) = CanonicalBytes(sr.receipt)
    BY <2>4, <2>5 DEF Signature
  <2>8. /\ r.id = sr.receipt.id /\ r.agent = sr.receipt.agent
        /\ r.method = sr.receipt.method /\ r.host = sr.receipt.host
        /\ r.path = sr.receipt.path /\ r.reason = sr.receipt.reason
        /\ r.allowed = sr.receipt.allowed
        /\ NormalizeTime(r.issuedAt) = NormalizeTime(sr.receipt.issuedAt)
    BY <2>1, <2>3, <2>7, TypedIsWellTyped, BytesNameOneReceipt
  <2>9. NormalizeTime(sr.receipt.issuedAt) = sr.receipt.issuedAt
    BY <2>1 DEF Proper, At
  <2>10. Normalized(r) = sr.receipt
    BY <2>1, <2>3, <2>6, <2>8, <2>9 DEF ReceiptType
  <2> QED
    BY <2>10 DEF r
<1> QED
  BY <1>1, AuditInvariance, PTL

(* Every decision that was reported is in every later answer of the read API
   about its agent, unless the answer is full of receipts no older.        *)
THEOREM DecisionsAreAlwaysAuditable == Spec => []DecisionsAreAuditable
<1>1. AuditInv => DecisionsAreAuditable
  BY DEF AuditInv
<1> QED
  BY <1>1, AuditInvariance, PTL
=============================================================================
