---------------------------- MODULE EgressProofs ----------------------------
(***************************************************************************)
(* Every behaviour of the gateway is one of module Egress: the initial     *)
(* states map to initial states, and every step to a step or a stutter.    *)
(***************************************************************************)
EXTENDS GatewayProofs

-----------------------------------------------------------------------------
(* The phase of a call follows from where it is; what it promises to other
   calls is untouched when only one call moves.                            *)

Phases == [c \in Calls |-> Phase(c)]
Whos == [c \in Calls |-> Who(c)]
Whats == [c \in Calls |-> req[c].target]

LEMMA PhaseOfDenied ==
    ASSUME AskedInv, NEW c \in Calls, ev[c].source # NoSource
    PROVE  Phase(c) = "refused"
  BY DEF AskedInv, Denied, Past, Phase

LEMMA PhasesStep ==
    ASSUME NEW c \in Calls, ev' = ev,
           \A d \in Calls \ {c} : pc'[d] = pc[d] /\ decision'[d] = decision[d]
    PROVE  Phases' = [Phases EXCEPT ![c] = Phase(c)']
<1>1. \A d \in Calls \ {c} : Phase(d)' = Phase(d)
  BY DEF Phase
<1> QED
  BY <1>1 DEF Phases

LEMMA NamesStay ==
    ASSUME req' = req
    PROVE  Whos' = Whos /\ Whats' = Whats
  BY DEF Whos, Whats, Who

(* What a step changes nothing of, in the terms of Egress.                 *)
LEMMA Stutter ==
    ASSUME Phases' = Phases, req' = req, allowlist' = allowlist,
           receipts' = receipts, revokedAt' = revokedAt
    PROVE  UNCHANGED Promise!egressVars
<1>1. Attested' = Attested /\ CutAgents' = CutAgents
  BY DEF Attested, CutAgents
<1> QED
  BY <1>1, NamesStay DEF Promise!egressVars, Phases, Whos, Whats

-----------------------------------------------------------------------------
(* Each step of the gateway as a step of Egress.                           *)

LEMMA ArriveOpens ==
    ASSUME NEW c \in Calls, GatewayInv, Arrive(c),
           UNCHANGED <<trips, alerts, ev, now, seen, result>>
    PROVE  Promise!Open(c)
<1> USE DEF GatewayInv, GatewayTypeOK
<1>1. \A d \in Calls \ {c} : pc'[d] = pc[d] /\ decision'[d] = decision[d] /\ req'[d] = req[d]
  BY MediatorStepFrame
<1>2. Phases[c] = "new" /\ Phase(c)' \in {"open", "refused"}
  BY DEF Arrive, Goto, Phases, Phase
<1>3. Phases' = [Phases EXCEPT ![c] = "open"] \/ Phases' = [Phases EXCEPT ![c] = "refused"]
  BY <1>1, <1>2, PhasesStep
<1>4. \A d \in Calls \ {c} : Whos'[d] = Whos[d] /\ Whats'[d] = Whats[d]
  BY <1>1 DEF Whos, Whats, Who
<1>5. allowlist' = allowlist /\ Attested' = Attested /\ CutAgents' = CutAgents
  BY DEF Arrive, Attested, CutAgents
<1> QED
  BY <1>2, <1>3, <1>4, <1>5 DEF Promise!Open, Promise!Move, Phases, Whos, Whats

LEMMA AgentStatusAdmits ==
    ASSUME NEW c \in Calls, GatewayInv, AgentStatus(c),
           UNCHANGED <<trips, alerts, ev, now, seen, result>>
    PROVE  Promise!Admit(c) \/ Promise!Refuse(c)
<1> USE DEF GatewayInv, GatewayTypeOK
<1>1. Phases' = [Phases EXCEPT ![c] = Phase(c)']
  BY PhasesStep DEF AgentStatus, Decide, Goto
<1>2. UNCHANGED <<req, allowlist, receipts, revokedAt>>
  BY DEF AgentStatus, Decide
<1>3. Attested' = Attested /\ CutAgents' = CutAgents /\ Whos' = Whos /\ Whats' = Whats
  BY <1>2, NamesStay DEF Attested, CutAgents
<1>4. Phases[c] = "open"
  BY DEF AgentStatus, Phases, Phase
<1>5. CASE Phase(c)' = "admitted" /\ Registered(req[c].source) /\ ~Revoked(req[c].source)
  <2>1. req[c].source # NoSource
    BY SourcesAssumption DEF AgentStatus, AskedInv, Undecided
  <2>2. Whos[c] \in Agents \ CutAgents
    BY <1>5, <2>1 DEF Whos, Who, CutAgents, Registered, Revoked
  <2> QED
    BY <1>1, <1>2, <1>3, <1>4, <1>5, <2>2
    DEF Promise!Admit, Promise!Move, Phases, Whos, Whats
<1>6. CASE Phase(c)' = "refused"
  BY <1>1, <1>2, <1>3, <1>4, <1>6 DEF Promise!Refuse, Promise!Move, Phases, Whos, Whats
<1> QED
  BY <1>5, <1>6 DEF AgentStatus, MayCall, Decide, Goto, Phase

LEMMA AllowlistApproves ==
    ASSUME NEW c \in Calls, GatewayInv, Allowlist(c),
           UNCHANGED <<trips, alerts, ev, now, seen, result>>
    PROVE  Promise!Approve(c) \/ Promise!Refuse(c)
<1> USE DEF GatewayInv, GatewayTypeOK
<1>1. Phases' = [Phases EXCEPT ![c] = Phase(c)']
  BY PhasesStep DEF Allowlist, Decide, Goto
<1>2. UNCHANGED <<req, allowlist, receipts, revokedAt>>
  BY DEF Allowlist, Decide
<1>3. Attested' = Attested /\ CutAgents' = CutAgents /\ Whos' = Whos /\ Whats' = Whats
  BY <1>2, NamesStay DEF Attested, CutAgents
<1>4. Phases[c] = "admitted"
  BY DEF Allowlist, Phases, Phase
<1>5. CASE Phase(c)' = "approved" /\ req[c].target \in AllowedTargets(req[c].source)
  <2>1. req[c].source # NoSource
    BY SourcesAssumption DEF Allowlist, AskedInv, Undecided
  <2>2. <<Whos[c], Whats[c]>> \in allowlist
    BY <1>5, <2>1 DEF Whos, Whats, Who, AllowedTargets
  <2> QED
    BY <1>1, <1>2, <1>3, <1>4, <1>5, <2>2
    DEF Promise!Approve, Promise!Move, Phases, Whos, Whats
<1>6. CASE Phase(c)' = "refused"
  BY <1>1, <1>2, <1>3, <1>4, <1>6 DEF Promise!Refuse, Promise!Move, Phases, Whos, Whats
<1>7. PICK o \in Outcomes(c) :
        Decide(c, o = "ok" /\ req[c].target \in AllowedTargets(req[c].source))
  BY DEF Allowlist
<1> QED
  BY <1>5, <1>6, <1>7 DEF Decide, Goto, Phase

(* The receipt of an approved call is its permission; that of a refused one
   is no permission.                                                       *)
LEMMA InsertReceiptAttests ==
    ASSUME NEW c \in Calls, GatewayInv, InsertReceipt(c),
           UNCHANGED <<trips, alerts, ev, now, seen, result>>
    PROVE  Promise!Attest(c) \/ Promise!Refuse(c) \/ UNCHANGED Promise!egressVars
<1> USE DEF GatewayInv, GatewayTypeOK
<1>1. PICK o \in Outcomes(c) :
        /\ receipts' = IF Applied(o) THEN WithEvidence(c) ELSE receipts
        /\ decision' = [decision EXCEPT ![c] = @ /\ o = "ok"]
        /\ pc' = [pc EXCEPT ![c] = IF decision'[c] THEN "forward" ELSE "record"]
  BY DEF InsertReceipt, Goto
<1>2. UNCHANGED <<req, allowlist, revokedAt>> /\ pc[c] = "receipt"
  BY DEF InsertReceipt
<1>3. CutAgents' = CutAgents /\ Whos' = Whos /\ Whats' = Whats
  BY <1>2, NamesStay DEF CutAgents
<1>4. Phases' = [Phases EXCEPT ![c] = Phase(c)']
  BY <1>1, PhasesStep
<1>5. decision'[c] = (decision[c] /\ o = "ok")
  BY <1>1
<1>6. Phase(c)' = IF decision[c] /\ o = "ok" THEN "approved" ELSE "refused"
  BY <1>1, <1>5 DEF Phase
<1>7. CASE ~decision[c]
  <2>1. ~Evidence(c).allowed
    BY <1>7 DEF Evidence
  <2>2. Attested' = Attested
    BY <1>1, <2>1 DEF Attested, WithEvidence
  <2>3. Phases[c] = "refused" /\ Phase(c)' = "refused"
    BY <1>2, <1>6, <1>7 DEF Phases, Phase
  <2>4. Phases' = Phases
    BY <1>4, <2>3 DEF Phases
  <2> QED
    BY <1>2, <1>3, <2>2, <2>4 DEF Promise!egressVars, Phases, Whos, Whats
<1>8. CASE decision[c]
  <2>1. Phases[c] = "approved"
    BY <1>2, <1>8 DEF Phases, Phase
  <2>2. req[c].source # NoSource
    BY <1>2, SourcesAssumption DEF AskedInv, Undecided
  <2>3. CASE Applied(o)
    <3>1. Evidence(c).allowed /\ receipts' = receipts \cup {Evidence(c)}
      BY <1>1, <1>8, <2>3 DEF Evidence, WithEvidence
    <3>2. /\ Evidence(c).id = c
          /\ Row[Evidence(c).source] = Whos[c]
          /\ Evidence(c).target = Whats[c]
      BY <2>2 DEF Evidence, Whos, Whats, Who
    <3>3. Attested' = Attested \cup {<<c, Whos[c], Whats[c]>>}
      BY <3>1, <3>2 DEF Attested
    <3>4. Phases' \in {Phases, [Phases EXCEPT ![c] = "refused"]}
      BY <1>4, <1>6, <1>8, <2>1 DEF Phases
    <3> QED
      BY <1>2, <1>3, <2>1, <3>3, <3>4 DEF Promise!Attest, Phases, Whos, Whats
  <2>4. CASE ~Applied(o)
    <3>1. Attested' = Attested
      BY <1>1, <2>4 DEF Attested
    <3>2. Phases' = [Phases EXCEPT ![c] = "refused"]
      BY <1>4, <1>6, <2>4 DEF Applied
    <3> QED
      BY <1>2, <1>3, <2>1, <3>1, <3>2
      DEF Promise!Refuse, Promise!Move, Phases, Whos, Whats
  <2> QED
    BY <2>3, <2>4
<1> QED
  BY <1>7, <1>8

(* A call that was refused stays so while its denial is handled; the engine
   cuts an agent on account of two refused calls.                          *)
LEMMA DenialStutters ==
    ASSUME NEW c \in Calls, GatewayInv, RecordDenial(c) \/ WriteDenied(c)
    PROVE  UNCHANGED Promise!egressVars
<1> USE DEF GatewayInv, GatewayTypeOK, mediatorVars
<1>1. \A d \in Calls \ {c} : pc'[d] = pc[d] /\ decision'[d] = decision[d] /\ ev'[d] = ev[d]
  BY DEF RecordDenial, WriteDenied, Begin, Return, Goto, DataTypeOK
<1>2. Phase(c) = "refused" /\ Phase(c)' = "refused"
  BY DEF RecordDenial, WriteDenied, Begin, Return, Goto, Phase
<1>3. Phases' = Phases
  BY <1>1, <1>2 DEF Phases, Phase
<1> QED
  BY <1>3, Stutter DEF RecordDenial, WriteDenied, Begin

LEMMA EngineStepCuts ==
    ASSUME NEW c \in Calls, GatewayInv, GatewayInv', EngineStep(c), UNCHANGED mediatorVars
    PROVE  (\E a \in Agents : Promise!Cut(a)) \/ UNCHANGED Promise!egressVars
<1> USE GatewayTypeOKShape DEF GatewayInv, mediatorVars
<1>1. ev' = ev /\ \A d \in Calls \ {c} : pc'[d] = pc[d]
  BY EngineStepFrame
<1>2. Phases' = Phases
  <2>1. Phase(c) = "refused" /\ Phase(c)' = "refused"
    BY EngineStepFrame DEF Past, Phase
  <2> QED
    BY <1>1, <2>1 DEF Phases, Phase
<1>3. CASE revokedAt' = revokedAt
  BY <1>2, <1>3, Stutter
<1>4. ASSUME NEW a \in Agents, revokedAt' = [revokedAt EXCEPT ![a] = now[c]],
             revokedAt[a] = NotCut
      PROVE  Promise!Cut(a)
  <2>1. CutAgents' = CutAgents \cup {a} /\ a \notin CutAgents /\ revokedAt'[a] # NotCut
    BY <1>4 DEF CutAgents, Shape, NotCut
  <2>2. PICK d, e \in Calls : /\ ev[d].id # ev[e].id
                              /\ ev[d].source = ev[e].source
                              /\ ev[d].source \in Sources /\ Row[ev[d].source] = a
    BY <1>1, <2>1 DEF IInv, RevocationGrounded
  <2>3. ev[d].source # NoSource /\ ev[e].source # NoSource
    BY <2>2, SourcesAssumption
  <2>4. d # e /\ ev[d].source = req[d].source /\ ev[e].source = req[e].source
    BY <2>2, <2>3 DEF AskedInv
  <2>5. /\ Phases[d] = "refused" /\ Phases[e] = "refused"
        /\ Whos[d] = a /\ Whos[e] = a
    BY <2>2, <2>3, <2>4, PhaseOfDenied DEF Phases, Whos, Who
  <2>6. Attested' = Attested /\ Whos' = Whos /\ Whats' = Whats
    BY NamesStay DEF Attested
  <2> QED
    BY <1>2, <2>1, <2>4, <2>5, <2>6 DEF Promise!Cut, Phases, Whos, Whats
<1>5. CASE revokedAt' # revokedAt
  <2> DEFINE s == ev[c].source
  <2>1. revokedAt' = RevokedBy(s, now[c])
    BY <1>5 DEF EngineStep, InsertTripEvent, ReadClock, TripsBySource, UpdateAlert,
                InsertAlert, RevokeAgent, AgentExists
  <2>2. /\ Row[s] \in Agents /\ revokedAt[Row[s]] = NotCut
        /\ revokedAt' = [revokedAt EXCEPT ![Row[s]] = now[c]]
    BY <1>5, <2>1 DEF RevokedBy, Registered, Revoked
  <2> QED
    BY <1>4, <2>2
<1> QED
  BY <1>3, <1>5

LEMMA ForwardReleases ==
    ASSUME NEW c \in Calls, GatewayInv, Forward(c)
    PROVE  Promise!Release(c) \/ Promise!Abandon
<1> USE DEF GatewayInv, GatewayTypeOK, mediatorVars
<1>1. Phases' = [Phases EXCEPT ![c] = Phase(c)']
  BY PhasesStep DEF Forward, Goto
<1>2. UNCHANGED <<req, allowlist, receipts, revokedAt>>
  BY DEF Forward
<1>3. Attested' = Attested /\ CutAgents' = CutAgents /\ Whos' = Whos /\ Whats' = Whats
  BY <1>2, NamesStay DEF Attested, CutAgents
<1>4. Phases[c] = "approved"
  BY DEF Forward, Phases, Phase
<1>5. CASE Phase(c)' = "released"
  <2>1. req[c].source # NoSource /\ decision[c] /\ Evidence(c) \in receipts
    BY SourcesAssumption DEF Forward, AskedInv, Undecided
  <2>2. <<Evidence(c).id, Row[Evidence(c).source], Evidence(c).target>> \in Attested
    BY <2>1 DEF Attested, Evidence
  <2>3. <<c, Whos[c], Whats[c]>> \in Attested
    BY <2>1, <2>2 DEF Evidence, Whos, Whats, Who
  <2> QED
    BY <1>1, <1>2, <1>3, <1>4, <1>5, <2>3
    DEF Promise!Release, Promise!Move, Phases, Whos, Whats
<1>6. CASE Phase(c)' = "abandoned"
  <2>1. Phases' = [d \in Calls |-> IF d \in {c} THEN "abandoned" ELSE Phases[d]]
    BY <1>1, <1>6 DEF Phases
  <2>2. {c} \in SUBSET {d \in Calls : Phases[d] \notin {"new", "released"}}
    BY <1>4
  <2> QED
    BY <1>2, <1>3, <2>1, <2>2 DEF Promise!Abandon, Phases, Whos, Whats
<1> QED
  BY <1>5, <1>6 DEF Forward, Goto, Phase

(* The end of the process abandons the calls that were not refused yet.    *)
LEMMA CrashAbandons ==
    ASSUME GatewayInv, Crash,
           UNCHANGED <<trips, alerts, ev, now, seen, result>>, UNCHANGED mediatorVars
    PROVE  Promise!Abandon
<1> USE DEF GatewayInv, GatewayTypeOK, mediatorVars
<1> DEFINE C == {c \in Calls : InFlight(c) /\ ev[c].source = NoSource}
<1>1. ASSUME NEW c \in Calls
      PROVE  Phase(c)' = IF c \in C THEN "abandoned" ELSE Phase(c)
  <2>1. CASE InFlight(c)
    <3>1. pc'[c] = "dead"
      BY <2>1 DEF Crash
    <3>2. Phase(c)' = IF ev[c].source = NoSource THEN "abandoned" ELSE "refused"
      BY <3>1 DEF Phase
    <3> QED
      BY <2>1, <3>2, PhaseOfDenied
  <2>2. CASE ~InFlight(c)
    BY <2>2 DEF Crash, Phase
  <2> QED
    BY <2>1, <2>2
<1>2. Phases' = [c \in Calls |-> IF c \in C THEN "abandoned" ELSE Phases[c]]
  BY <1>1 DEF Phases
<1>3. C \in SUBSET {c \in Calls : Phases[c] \notin {"new", "released"}}
  BY DEF InFlight, Settled, Phases, Phase
<1>4. Attested' = Attested /\ CutAgents' = CutAgents /\ Whos' = Whos /\ Whats' = Whats
  BY NamesStay DEF Attested, CutAgents, Crash
<1> QED
  BY <1>2, <1>3, <1>4 DEF Promise!Abandon, Phases, Whos, Whats

-----------------------------------------------------------------------------
LEMMA InitEgress == GatewayInit => Promise!EgressInit
<1> SUFFICES ASSUME GatewayInit PROVE Promise!EgressInit
  OBVIOUS
<1>1. \A c \in Calls : Phase(c) = "new" /\ Who(c) = NoAgent /\ req[c].target = Ambiguous
  BY DEF GatewayInit, Init, StoreInit, MediatorInit, Phase, Who
<1>2. Attested = {} /\ CutAgents = {} /\ allowlist \subseteq Agents \X Targets
  BY DEF GatewayInit, Init, StoreInit, MediatorInit, Attested, CutAgents
<1> QED
  BY <1>1, <1>2 DEF Promise!EgressInit

LEMMA NextEgress ==
    GatewayInv /\ GatewayInv' /\ [GatewayNext]_allVars
        => [Promise!EgressNext]_(Promise!egressVars)
<1> SUFFICES ASSUME GatewayInv, GatewayInv', [GatewayNext]_allVars
             PROVE  Promise!EgressNext \/ UNCHANGED Promise!egressVars
  OBVIOUS
<1> USE DEF mediatorVars
<1>1. ASSUME NEW c \in Calls,
             Arrive(c) \/ MediatorStep(c),
             UNCHANGED <<trips, alerts, ev, now, seen, result>>
      PROVE  Promise!EgressNext \/ UNCHANGED Promise!egressVars
  BY <1>1, ArriveOpens, AgentStatusAdmits, AllowlistApproves, InsertReceiptAttests
  DEF MediatorStep, Promise!EgressNext
<1>2. ASSUME NEW c \in Calls, RecordDenial(c) \/ WriteDenied(c)
      PROVE  UNCHANGED Promise!egressVars
  BY <1>2, DenialStutters
<1>3. ASSUME NEW c \in Calls, EngineStep(c), UNCHANGED mediatorVars
      PROVE  Promise!EgressNext \/ UNCHANGED Promise!egressVars
  BY <1>3, EngineStepCuts DEF Promise!EgressNext
<1>4. ASSUME NEW c \in Calls, Forward(c) PROVE Promise!EgressNext
  BY <1>4, ForwardReleases DEF Promise!EgressNext
<1>5. CASE Environment /\ UNCHANGED mediatorVars
  <2>1. CASE Crash /\ UNCHANGED <<trips, alerts, ev, now, seen, result>>
    BY <1>5, <2>1, CrashAbandons DEF Promise!EgressNext
  <2>2. CASE UNCHANGED <<pc, ev, revokedAt>>
    <3>1. Phases' = Phases
      BY <1>5, <2>2 DEF Phases, Phase
    <3> QED
      BY <1>5, <2>2, <3>1, Stutter
  <2> QED
    BY <1>5, <2>1, <2>2 DEF Environment, Tick, HangUp, CloseAlert
<1>6. CASE EditAllowlist /\ UNCHANGED <<trips, alerts, ev, now, seen, result>>
  <2>1. allowlist' \in SUBSET (Agents \X Targets)
    BY DEF GatewayInv, GatewayTypeOK
  <2>2. Phases' = Phases /\ Attested' = Attested /\ CutAgents' = CutAgents
    BY <1>6 DEF EditAllowlist, Phases, Phase, Attested, CutAgents
  <2>3. Whos' = Whos /\ Whats' = Whats
    BY <1>6, NamesStay DEF EditAllowlist
  <2>4. Promise!Regrant
    BY <2>1, <2>2, <2>3 DEF Promise!Regrant, Phases, Whos, Whats
  <2> QED
    BY <2>4 DEF Promise!EgressNext
<1>7. CASE UNCHANGED allVars
  <2>1. Phases' = Phases
    BY <1>7 DEF allVars, vars, Phases, Phase
  <2> QED
    BY <1>7, <2>1, Stutter DEF allVars, vars
<1> QED
  BY <1>1, <1>2, <1>3, <1>4, <1>5, <1>6, <1>7 DEF GatewayNext, ServeStep, DecideStep, GatewayRest

(* The gateway implements Egress: for any number of calls, agents and targets,
   under every interleaving, failure and crash, a call leaves only after its
   agent was found uncut, its target granted and its permission stored, and an
   agent is cut only for two refused calls of its own.                     *)
THEOREM GatewayImplementsEgress == GatewaySpec => KeepsPromise
  BY InitEgress, GatewayInvariance, NextEgress, PTL
  DEF GatewaySpec, KeepsPromise, Promise!EgressSpec
=============================================================================
