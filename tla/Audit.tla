------------------------------- MODULE Audit -------------------------------
(***************************************************************************)
(* The life of the evidence: mediators sign receipts and store them, the   *)
(* read API (internal/api, receipts.go) lists those of an agent, newest    *)
(* first and up to a limit, and whoever reads one verifies it.  The        *)
(* process may end and start again, with the same key or another.         *)
(***************************************************************************)
EXTENDS Receipts, Functions

CONSTANTS
    Calls,          \* numbers of the calls mediated
    Caller,         \* the agent id of each call: a text that is not empty
    Method, Host, Path,     \* the texts of the one target that is called
    Reason,         \* the text that explains a decision: [BOOLEAN -> texts]
    Texts,          \* the texts that a receipt is compared with
    Keys,           \* the seeds that make a key
    NoKey,          \* a missing or malformed seed
    RawLimits,      \* the numbers that a reader may give as limit
    NoLimit, NotANumber,    \* the parameter is absent, is not a number
    DefaultLimit, MaxLimit,
    Times,          \* the times that the wall clock may show
    StoreFails      \* whether statements may fail

ASSUME KeysAssumption == NoKey \notin Keys
ASSUME TextsAssumption ==
    /\ Calls \subseteq Nat /\ Caller \in [Calls -> Seq(Nat) \ {<< >>}]
    /\ Method \in Seq(Nat) /\ Host \in Seq(Nat) /\ Path \in Seq(Nat)
    /\ Reason \in [BOOLEAN -> Seq(Nat)] /\ Texts \subseteq Seq(Nat)
ASSUME LimitsAssumption ==
    /\ DefaultLimit \in Nat \ {0} /\ MaxLimit \in Nat /\ DefaultLimit <= MaxLimit
    /\ RawLimits \subseteq Int /\ Times \subseteq Nat /\ StoreFails \in BOOLEAN

VARIABLES
    signer,     \* the key of the running process; NoKey if none runs
    pc,         \* where Mediator.Handle is in each call
    signed,     \* the receipt that the handler of a call has signed
    table,      \* action_receipts
    answer      \* the response that the read API gives in this step

vars == <<signer, pc, signed, table, answer>>

NoAnswer == [status |-> 0, agent |-> << >>, limit |-> NoLimit, rows |-> << >>]

(* Slip: the gateway serves without a key.                                 *)
RunningAnyhow == TRUE

Running == signer # NoKey

-----------------------------------------------------------------------------
(* A fresh id, made before it is signed.                                   *)
NewId(c) == <<c>>

(* NewSignerFromSeed: no key without a well-formed seed.                   *)
NewSignerFromSeed(seed) == IF seed \in Keys THEN seed ELSE NoKey

(* main: without its configuration and a key the process ends at once.     *)
Start ==
    /\ ~Running
    /\ \E seed \in Keys \cup {NoKey} : signer' = NewSignerFromSeed(seed)
    /\ UNCHANGED <<pc, signed, table, answer>>

(* The process ends; so do its handlers.                                   *)
Stop ==
    /\ Running
    /\ signer' = NoKey
    /\ pc' = [c \in Calls |-> IF pc[c] = "insert" THEN "dead" ELSE pc[c]]
    /\ UNCHANGED <<signed, table, answer>>

(* Mediator.Handle up to the signature: a request that cannot be evaluated
   is refused without a receipt, any other is decided and signed.          *)
Handle(c) ==
    /\ Running /\ pc[c] = "idle"
    /\ \/ pc' = [pc EXCEPT ![c] = "refused"] /\ UNCHANGED signed
       \/ /\ \E allowed \in BOOLEAN, now \in Times :
               signed' = [signed EXCEPT ![c] =
                   Sign(signer, [id |-> NewId(c), agent |-> Caller[c], method |-> Method,
                                 host |-> Host, path |-> Path, allowed |-> allowed,
                                 reason |-> Reason[allowed], issuedAt |-> now])]
          /\ pc' = [pc EXCEPT ![c] = "insert"]
    /\ UNCHANGED <<signer, table, answer>>

(* Slip: the caller is told the decision, stored or not.                   *)
OutcomeLenient(c, ok) == IF signed[c].receipt.allowed THEN "allowed" ELSE "denied"

(* What Handle returns: an error, or the decision that was stored.         *)
Outcome(c, ok) ==
    IF ~ok THEN "failed" ELSE IF signed[c].receipt.allowed THEN "allowed" ELSE "denied"

(* InsertReceipt: an INSERT of the signed receipt, which is refused without
   an id.  It may be lost, or applied without an answer.                   *)
InsertReceipt(c) ==
    LET sr == signed[c] IN
    /\ pc[c] = "insert"
    /\ \E ok, applied \in BOOLEAN, t \in Column(sr.receipt.issuedAt) :
         /\ ok => applied
         /\ ok \/ StoreFails \/ sr.receipt.id = << >>
         /\ applied => sr.receipt.id # << >>
         /\ table' = IF applied
                     THEN table \cup {[sr EXCEPT !.receipt.issuedAt = t]}
                     ELSE table
         /\ pc' = [pc EXCEPT ![c] = Outcome(c, ok)]
    /\ UNCHANGED <<signer, signed, answer>>

-----------------------------------------------------------------------------
(* Slip: zero is taken for a limit.                                        *)
BadLimitNegative(raw) == raw = NotANumber \/ (raw # NoLimit /\ raw < 0)

(* parseLimit: its error, and the limit that it makes of any other value.  *)
BadLimit(raw) == raw = NotANumber \/ (raw # NoLimit /\ raw <= 0)

(* Slip: the cap is forgotten.                                             *)
ParseLimitUncapped(raw) == IF raw = NoLimit THEN DefaultLimit ELSE raw

ParseLimit(raw) ==
    IF raw = NoLimit THEN DefaultLimit ELSE IF raw > MaxLimit THEN MaxLimit ELSE raw

At(sr) == sr.receipt.issuedAt

(* At most n of the rows, and fewer only if there are no more.             *)
Limited(S, n) ==
    {rows \in UNION {[1..k -> S] : k \in 0..n} :
       IsInjective(rows) /\ (Len(rows) = n \/ Range(rows) = S)}

(* Slip: ascending order.                                                  *)
OldestFirst(S, n) ==
    {rows \in Limited(S, n) :
       /\ \A i, j \in DOMAIN rows : i < j => At(rows[i]) <= At(rows[j])
       /\ \A sr \in S \ Range(rows), i \in DOMAIN rows : At(rows[i]) <= At(sr)}

(* ORDER BY issued_at DESC LIMIT n: rows of one time come in any order.    *)
NewestFirst(S, n) ==
    {rows \in Limited(S, n) :
       /\ \A i, j \in DOMAIN rows : i < j => At(rows[i]) >= At(rows[j])
       /\ \A sr \in S \ Range(rows), i \in DOMAIN rows : At(rows[i]) >= At(sr)}

ReceiptsByAgent(a, n) == NewestFirst({sr \in table : sr.receipt.agent = a}, n)

Refuse(status) == answer' = [NoAnswer EXCEPT !.status = status]

(* GET /api/v1/receipts.  An agent id is mandatory.                        *)
HandleReceipts ==
    /\ Running
    /\ \/ Refuse(405)
       \/ \E a \in Range(Caller) \cup {<< >>}, raw \in RawLimits \cup {NoLimit, NotANumber} :
            IF a = << >> \/ BadLimit(raw) THEN Refuse(400)
            ELSE \/ StoreFails /\ Refuse(500)
                 \/ \E rows \in ReceiptsByAgent(a, ParseLimit(raw)) :
                      answer' = [status |-> 200, agent |-> a, limit |-> raw,
                                 rows |-> rows]
    /\ UNCHANGED <<signer, pc, signed, table>>

(* The reader has its answer.                                              *)
Answered ==
    /\ answer # NoAnswer
    /\ answer' = NoAnswer
    /\ UNCHANGED <<signer, pc, signed, table>>

-----------------------------------------------------------------------------
NoReceipt == Sign(NoKey, [id |-> << >>, agent |-> << >>, method |-> << >>,
                          host |-> << >>, path |-> << >>, allowed |-> FALSE,
                          reason |-> << >>, issuedAt |-> 0])

Init ==
    /\ signer = NoKey
    /\ pc = [c \in Calls |-> "idle"]
    /\ signed = [c \in Calls |-> NoReceipt]
    /\ table = {}
    /\ answer = NoAnswer

Next ==
    \/ /\ answer = NoAnswer
       /\ Start \/ Stop \/ HandleReceipts \/ \E c \in Calls : Handle(c) \/ InsertReceipt(c)
    \/ Answered

Spec == Init /\ [][Next]_vars

-----------------------------------------------------------------------------
ReceiptType ==
    [id : Seq(Nat), agent : Seq(Nat), method : Seq(Nat), host : Seq(Nat),
     path : Seq(Nat), allowed : BOOLEAN, reason : Seq(Nat), issuedAt : Int]

SignedReceipt(K) == [receipt : ReceiptType, keyId : K, signature : K \X Seq(Int)]

(* The values the variables may take.                                      *)
TypeOK ==
    /\ signer \in Keys \cup {NoKey}
    /\ pc \in [Calls -> {"idle", "insert", "allowed", "denied", "refused", "failed",
                         "dead"}]
    /\ signed \in [Calls -> SignedReceipt(Keys \cup {NoKey})]
    /\ table \subseteq SignedReceipt(Keys)
    /\ answer.status \in {0, 200, 400, 405, 500}
    /\ answer.rows \in Seq(table)

(* Stored evidence is evidence: every receipt that is read back from the
   table verifies under the key that it names, whatever its time was before
   it was rounded and whatever key the process has by now (receipt.go,
   Sign; receipts.go, InsertReceipt).                                      *)
EvidenceVerifies ==
    \A sr \in table : Verify(sr.keyId, sr)

(* A signature is evidence of one call only: no other receipt, with the
   borders of its texts moved, the decision turned or another time, verifies
   with the signature of a stored one (receipt.go, canonicalBytes).        *)
SignatureNamesOneReceipt ==
    \A sr \in table :
        \A h, p, w \in Texts, d \in BOOLEAN, t \in Times :
            LET r == [sr.receipt EXCEPT !.host = h, !.path = p, !.allowed = d,
                                        !.reason = w, !.issuedAt = t]
            IN  Verify(sr.keyId, [sr EXCEPT !.receipt = r])
                    => Normalized(r) = sr.receipt

(* How many receipts a reader may expect.                                  *)
Asked(raw) ==
    IF raw = NoLimit THEN DefaultLimit ELSE IF raw < MaxLimit THEN raw ELSE MaxLimit

(* Every decision that was reported can be audited: its receipt, saying just
   that decision, is in every later answer of the read API that asks for its
   agent, unless the answer is as long as asked for, or as long as answers
   may be, with receipts that are no older.  An answer is never longer, and
   holds no other agent's receipts (mediator.go, Handle; api.go,
   handleReceipts, parseLimit).                                            *)
DecisionsAreAuditable ==
    answer.status = 200 =>
        /\ Len(answer.rows) <= Asked(answer.limit)
        /\ \A i \in DOMAIN answer.rows : answer.rows[i].receipt.agent = answer.agent
        /\ \A c \in Calls :
             /\ pc[c] \in {"allowed", "denied"}
             /\ signed[c].receipt.agent = answer.agent
             => \/ \E i \in DOMAIN answer.rows :
                      /\ answer.rows[i].receipt.id = <<c>>
                      /\ answer.rows[i].receipt.allowed = (pc[c] = "allowed")
                \/ /\ answer.rows # << >> /\ Len(answer.rows) = Asked(answer.limit)
                   /\ \A i \in DOMAIN answer.rows :
                         At(answer.rows[i]) >= At(signed[c])
=============================================================================
