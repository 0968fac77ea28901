----------------------------- MODULE Mediator -----------------------------
(***************************************************************************)
(* internal/mediator, with the deny-by-default decision of internal/proxy  *)
(* and the request parsing of internal/transport that it calls: a request  *)
(* is parsed, decided with two reads of the database, and signed evidence  *)
(* of the decision is stored before the caller learns it.                  *)
(*                                                                         *)
(* A target stands for a canonical (method, host, path), an allowlist      *)
(* entry for the targets it matches.  Signing is a pure step here: the     *)
(* error paths of crypto/rand and of a Signer without a key cannot be      *)
(* taken by a process that has started (Go 1.25, receipt.NewSignerFromSeed)*)
(***************************************************************************)
EXTENDS Store

CONSTANTS
    Targets,    \* the canonical targets that requests name
    Ambiguous   \* a path that FromRequest refuses to canonicalize

ASSUME TargetsAssumption == Ambiguous \notin Targets

VARIABLES
    req,        \* the request of a call
    decision,   \* Decision.Allowed as the handler of a call knows it
    receipts,   \* action_receipts
    allowlist   \* agent_allowlist: the targets each agent may call

Request == [source : Sources \cup {NoSource}, target : Targets \cup {Ambiguous}]

Receipt == [id : Calls, source : Sources, target : Targets, allowed : BOOLEAN]

mediatorVars == <<req, decision, receipts, allowlist>>

-----------------------------------------------------------------------------
(* Slip: a path without a canonical form is evaluated all the same.        *)
ArriveLax(c) ==
    /\ pc[c] = "idle"
    /\ \E r \in Request :
         /\ req' = [req EXCEPT ![c] = r]
         /\ Goto(c, IF r.source = NoSource THEN "record" ELSE "status")
    /\ UNCHANGED <<gone, clock, revokedAt, decision, receipts, allowlist>>

(* A request comes in.  One without an agent id, or whose path has no one
   canonical form, is denied and leaves no receipt.                        *)
Arrive(c) ==
    /\ pc[c] = "idle"
    /\ \E r \in Request :
         /\ req' = [req EXCEPT ![c] = r]
         /\ Goto(c, IF r.source = NoSource \/ r.target = Ambiguous
                    THEN "record" ELSE "status")
    /\ UNCHANGED <<gone, clock, revokedAt, decision, receipts, allowlist>>

(* Slip: only what is permitted is signed.                                 *)
DecideUnsigned(c, allowed) ==
    /\ decision' = [decision EXCEPT ![c] = allowed]
    /\ Goto(c, IF allowed THEN "receipt" ELSE "record")

(* Enforcer.Evaluate has decided.                                          *)
Decide(c, allowed) ==
    /\ decision' = [decision EXCEPT ![c] = allowed]
    /\ Goto(c, "receipt")

(* Slip: the status is not looked at.                                      *)
MayCallUnchecked(o, s) == o = "ok" /\ Registered(s)

(* Only a registered agent that is not revoked gets as far as its
   allowlist; an unknown or malformed id is an error of the read.          *)
MayCall(o, s) == o = "ok" /\ Registered(s) /\ ~Revoked(s)

AgentStatus(c) ==
    /\ pc[c] = "status"
    /\ \E o \in Outcomes(c) :
         /\ Statement(c, o)
         /\ IF MayCall(o, req[c].source)
            THEN Goto(c, "allowlist") /\ UNCHANGED decision
            ELSE Decide(c, FALSE)
    /\ UNCHANGED <<clock, revokedAt, req, receipts, allowlist>>

(* The targets that the agent's rows in agent_allowlist match.             *)
AllowedTargets(s) == {t \in Targets : <<Row[s], t>> \in allowlist}

Allowlist(c) ==
    /\ pc[c] = "allowlist"
    /\ \E o \in Outcomes(c) :
         /\ Statement(c, o)
         /\ Decide(c, o = "ok" /\ req[c].target \in AllowedTargets(req[c].source))
    /\ UNCHANGED <<clock, revokedAt, req, receipts, allowlist>>

(* The signed evidence of what was decided.                                *)
Evidence(c) == [id |-> c, source |-> req[c].source, target |-> req[c].target,
                allowed |-> decision[c]]

(* INSERT INTO action_receipts                                             *)
WithEvidence(c) == receipts \cup {Evidence(c)}

(* Slip: a failed insert is only logged and the decision stands.           *)
InsertReceiptLenient(c) ==
    /\ pc[c] = "receipt"
    /\ \E o \in Outcomes(c) :
         /\ Statement(c, o)
         /\ receipts' = IF Applied(o) THEN WithEvidence(c) ELSE receipts
         /\ Goto(c, IF decision[c] THEN "forward" ELSE "record")
    /\ UNCHANGED <<clock, revokedAt, req, decision, allowlist>>

(* Slip: a failed insert is tried again until it succeeds.                 *)
InsertReceiptStubborn(c) ==
    /\ pc[c] = "receipt"
    /\ \E o \in Outcomes(c) :
         /\ Statement(c, o)
         /\ receipts' = IF Applied(o) THEN WithEvidence(c) ELSE receipts
         /\ IF o # "ok" THEN UNCHANGED pc
            ELSE Goto(c, IF decision[c] THEN "forward" ELSE "record")
    /\ UNCHANGED <<clock, revokedAt, req, decision, allowlist>>

(* Fail-closed: without the stored receipt the call is denied, whatever was
   decided; the caller acts on the decision that Handle returns.           *)
InsertReceipt(c) ==
    /\ pc[c] = "receipt"
    /\ \E o \in Outcomes(c) :
         /\ Statement(c, o)
         /\ receipts' = IF Applied(o) THEN WithEvidence(c) ELSE receipts
         /\ decision' = [decision EXCEPT ![c] = @ /\ o = "ok"]
         /\ Goto(c, IF decision'[c] THEN "forward" ELSE "record")
    /\ UNCHANGED <<clock, revokedAt, req, allowlist>>

MediatorStep(c) == AgentStatus(c) \/ Allowlist(c) \/ InsertReceipt(c)

(* An operator edits agent_allowlist in the database; no code here does.   *)
EditAllowlist ==
    /\ "policy" \in Faults
    /\ \E entry \in Agents \X Targets :
         allowlist' = IF entry \in allowlist THEN allowlist \ {entry}
                                             ELSE allowlist \cup {entry}
    /\ UNCHANGED <<pc, gone, clock, revokedAt, req, decision, receipts>>

MediatorInit ==
    /\ req = [c \in Calls |-> [source |-> NoSource, target |-> Ambiguous]]
    /\ decision = [c \in Calls |-> FALSE]
    /\ receipts = {}
    /\ allowlist \in SUBSET (Agents \X Targets)
=============================================================================
