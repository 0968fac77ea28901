--------------------------- MODULE GatewayProofs ---------------------------
(***************************************************************************)
(* What module Gateway is checked for on small instances, proved for every *)
(* number of calls, sources, agents and targets and for every window.  The *)
(* engine's part of the argument is taken from module EnforceProofs.       *)
(***************************************************************************)
EXTENDS Gateway, EnforceProofs

-----------------------------------------------------------------------------
(* What the calls have been asked: a call that is being decided names an
   agent and an unambiguous target, one that may leave was allowed with
   evidence stored, and the event of a denial names its own call's agent.  *)
Undecided == {"status", "allowlist", "receipt", "forward"}
Denied == Past \cup {"insert", "handled", "denied", "dead"}

AskedInv ==
    /\ \A c \in Calls :
          pc[c] \in Undecided => /\ req[c].source \in Sources
                                 /\ req[c].target \in Targets
    /\ \A c \in Calls : pc[c] = "forward" => decision[c] /\ Evidence(c) \in receipts
    /\ \A c \in Calls :
          ev[c].source # NoSource => /\ ev[c].source = req[c].source
                                     /\ ev[c].id = c
                                     /\ pc[c] \in Denied

GatewayInv == GatewayTypeOK /\ AskedInv /\ IInv

LEMMA GatewayTypeOKShape == GatewayTypeOK => Shape
  BY DataTypeOKShape DEF GatewayTypeOK

-----------------------------------------------------------------------------
(* Types.                                                                  *)

LEMMA InitGatewayTypeOK == GatewayInit => GatewayTypeOK
<1> SUFFICES ASSUME GatewayInit PROVE GatewayTypeOK
  OBVIOUS
<1>1. DataTypeOK
  BY TimeAssumption
  DEF GatewayInit, Init, StoreInit, EngineInit, DataTypeOK, Event, Alert, NoAlert, NotCut
<1> QED
  BY <1>1 DEF GatewayInit, Init, StoreInit, MediatorInit, GatewayTypeOK, Request

(* A step before the decision, the evidence included.                      *)
LEMMA MediatorStepTypeOK ==
    ASSUME NEW c \in Calls, GatewayTypeOK, AskedInv,
           Arrive(c) \/ MediatorStep(c),
           UNCHANGED <<trips, alerts, ev, now, seen, result>>
    PROVE  GatewayTypeOK'
<1>1. DataTypeOK'
  BY DEF Arrive, MediatorStep, AgentStatus, Allowlist, InsertReceipt, Statement,
         GatewayTypeOK, DataTypeOK
<1>2. CASE Arrive(c)
  BY <1>1, <1>2 DEF Arrive, Goto, GatewayTypeOK
<1>3. CASE AgentStatus(c)
  BY <1>1, <1>3 DEF AgentStatus, Decide, Goto, GatewayTypeOK
<1>4. CASE Allowlist(c)
  <2>1. PICK b \in BOOLEAN : Decide(c, b)
    BY <1>4 DEF Allowlist
  <2> QED
    BY <1>1, <1>4, <2>1 DEF Allowlist, Decide, Goto, GatewayTypeOK
<1>5. CASE InsertReceipt(c)
  <2>1. Evidence(c) \in Receipt
    BY <1>5 DEF InsertReceipt, AskedInv, Undecided, Evidence, Receipt, GatewayTypeOK
  <2>2. receipts' \subseteq Receipt
    BY <1>5, <2>1 DEF InsertReceipt, WithEvidence, GatewayTypeOK
  <2>3. PICK o \in Outcomes(c) :
          /\ decision' = [decision EXCEPT ![c] = @ /\ o = "ok"]
          /\ Goto(c, IF decision'[c] THEN "forward" ELSE "record")
    BY <1>5 DEF InsertReceipt
  <2>4. decision' \in [Calls -> BOOLEAN]
    BY <2>3 DEF GatewayTypeOK
  <2> QED
    BY <1>1, <1>5, <2>2, <2>3, <2>4 DEF InsertReceipt, Goto, GatewayTypeOK
<1> QED
  BY <1>2, <1>3, <1>4, <1>5 DEF MediatorStep

(* The event of a denial.                                                  *)
Denial(c) == [id |-> c, source |-> req[c].source, at |-> clock]

LEMMA DenialEvent ==
    ASSUME NEW c \in Calls, GatewayTypeOK
    PROVE  Denial(c) \in Event
  BY TimeAssumption DEF Denial, Event, GatewayTypeOK, DataTypeOK, Request

LEMMA NextGatewayTypeOK == GatewayTypeOK /\ AskedInv /\ [GatewayNext]_allVars => GatewayTypeOK'
<1> SUFFICES ASSUME GatewayTypeOK, AskedInv, [GatewayNext]_allVars PROVE GatewayTypeOK'
  OBVIOUS
<1> USE GatewayTypeOKShape DEF mediatorVars
<1>1. ASSUME NEW c \in Calls,
             Arrive(c) \/ MediatorStep(c),
             UNCHANGED <<trips, alerts, ev, now, seen, result>>
      PROVE  GatewayTypeOK'
  BY <1>1, MediatorStepTypeOK
<1>2. ASSUME NEW c \in Calls, RecordDenial(c) PROVE GatewayTypeOK'
  <2>1. Begin(c, Denial(c)) /\ UNCHANGED mediatorVars
    BY <1>2 DEF RecordDenial, Denial
  <2>2. DataTypeOK'
    BY <2>1, DenialEvent, BeginDataTypeOK DEF GatewayTypeOK
  <2> QED
    BY <2>1, <2>2 DEF Begin, Return, Goto, GatewayTypeOK
<1>3. ASSUME NEW c \in Calls, EngineStep(c), UNCHANGED mediatorVars PROVE GatewayTypeOK'
  <2>1. DataTypeOK'
    BY <1>3, EngineStepDataTypeOK DEF GatewayTypeOK
  <2> QED
    BY <1>3, <2>1, EngineStepFrame DEF GatewayTypeOK, Past
<1>4. ASSUME NEW c \in Calls, WriteDenied(c) \/ Forward(c) PROVE GatewayTypeOK'
  BY <1>4 DEF WriteDenied, Forward, Goto, GatewayTypeOK, DataTypeOK
<1>5. CASE Environment /\ UNCHANGED mediatorVars
  <2>1. DataTypeOK'
    BY <1>5, EnvironmentDataTypeOK DEF GatewayTypeOK
  <2> QED
    BY <1>5, <2>1 DEF Environment, Tick, Crash, HangUp, CloseAlert, GatewayTypeOK
<1>6. CASE EditAllowlist /\ UNCHANGED <<trips, alerts, ev, now, seen, result>>
  BY <1>6 DEF EditAllowlist, GatewayTypeOK, DataTypeOK
<1>7. CASE UNCHANGED allVars
  BY <1>7 DEF allVars, vars, GatewayTypeOK, DataTypeOK
<1> QED
  BY <1>1, <1>2, <1>3, <1>4, <1>5, <1>6, <1>7 DEF GatewayNext, ServeStep, DecideStep, GatewayRest

-----------------------------------------------------------------------------
(* The invariant.                                                          *)

LEMMA InitGatewayInv == GatewayInit => GatewayInv
<1> SUFFICES ASSUME GatewayInit PROVE GatewayInv
  OBVIOUS
<1>1. AskedInv
  BY DEF GatewayInit, Init, StoreInit, EngineInit, AskedInv, Undecided
<1> QED
  BY <1>1, InitGatewayTypeOK, InitIInv DEF GatewayInit, GatewayInv

(* A call that is waiting has no event yet.                                *)
LEMMA WaitingHasNoEvent ==
    ASSUME IInv, NEW c \in Calls, Waiting(c)
    PROVE  ev[c].source = NoSource
  BY DEF IInv, EventsInv

(* A step before the decision leaves every other call alone.               *)
LEMMA MediatorStepFrame ==
    ASSUME NEW c \in Calls, GatewayTypeOK, AskedInv, Arrive(c) \/ MediatorStep(c)
    PROVE  /\ Waiting(c) /\ Waiting(c)'
           /\ revokedAt' = revokedAt /\ receipts \subseteq receipts'
           /\ \A d \in Calls \ {c} : /\ pc'[d] = pc[d] /\ req'[d] = req[d]
                                     /\ decision'[d] = decision[d]
           /\ pc'[c] \in Undecided =>
                 req'[c].source \in Sources /\ req'[c].target \in Targets
           /\ pc'[c] = "forward" => decision'[c] /\ Evidence(c)' \in receipts'
<1> USE DEF Goto, Waiting, Undecided, GatewayTypeOK
<1>1. CASE Arrive(c)
  <2>1. PICK r \in Request :
          /\ req' = [req EXCEPT ![c] = r]
          /\ pc' = [pc EXCEPT ![c] = IF r.source = NoSource \/ r.target = Ambiguous
                                     THEN "record" ELSE "status"]
    BY <1>1 DEF Arrive
  <2> QED
    BY <1>1, <2>1 DEF Arrive, Request
<1>2. CASE AgentStatus(c)
  BY <1>2 DEF AgentStatus, Decide, AskedInv
<1>3. CASE Allowlist(c)
  BY <1>3 DEF Allowlist, Decide, AskedInv
<1>4. CASE InsertReceipt(c)
  <2>1. PICK o \in Outcomes(c) :
          /\ receipts' = IF Applied(o) THEN WithEvidence(c) ELSE receipts
          /\ decision' = [decision EXCEPT ![c] = @ /\ o = "ok"]
          /\ pc' = [pc EXCEPT ![c] = IF decision'[c] THEN "forward" ELSE "record"]
    BY <1>4 DEF InsertReceipt
  <2>2. decision'[c] = (decision[c] /\ o = "ok")
    BY <2>1
  <2>3. req' = req /\ pc[c] = "receipt" /\ revokedAt' = revokedAt
    BY <1>4 DEF InsertReceipt
  <2>4. pc'[c] = "forward" => decision[c] /\ decision'[c] /\ o = "ok"
    BY <2>1, <2>2
  <2>5. pc'[c] = "forward" => Evidence(c)' = Evidence(c) /\ Evidence(c) \in receipts'
    BY <2>1, <2>2, <2>3, <2>4 DEF Evidence, Applied, WithEvidence
  <2>6. receipts \subseteq receipts' /\ pc'[c] \in {"forward", "record"}
    BY <2>1 DEF WithEvidence
  <2> QED
    BY <2>1, <2>3, <2>4, <2>5, <2>6 DEF AskedInv
<1> QED
  BY <1>1, <1>2, <1>3, <1>4 DEF MediatorStep

LEMMA MediatorStepInv ==
    ASSUME NEW c \in Calls, GatewayInv, Arrive(c) \/ MediatorStep(c),
           UNCHANGED <<trips, alerts, ev, now, seen, result>>
    PROVE  AskedInv' /\ IInv'
<1> USE MediatorStepFrame DEF GatewayInv
<1>1. AskedInv'
  <2>1. \A d \in Calls \ {c} : Evidence(d)' = Evidence(d)
    BY DEF Evidence
  <2>2. \A d \in Calls : ev'[d].source # NoSource => d # c
    BY WaitingHasNoEvent
  <2> QED
    BY <2>1, <2>2 DEF AskedInv
<1>2. IInv'
  BY QuietIInv DEF Idles
<1> QED
  BY <1>1, <1>2

LEMMA NextGatewayInv == GatewayInv /\ [GatewayNext]_allVars => GatewayInv'
<1> SUFFICES ASSUME GatewayInv, [GatewayNext]_allVars PROVE AskedInv' /\ IInv'
  BY NextGatewayTypeOK DEF GatewayInv
<1> USE GatewayTypeOKShape DEF GatewayInv, mediatorVars
<1>1. ASSUME NEW c \in Calls,
             Arrive(c) \/ MediatorStep(c),
             UNCHANGED <<trips, alerts, ev, now, seen, result>>
      PROVE  AskedInv' /\ IInv'
  BY <1>1, MediatorStepInv
<1>2. ASSUME NEW c \in Calls, RecordDenial(c) PROVE AskedInv' /\ IInv'
  <2>1. Begin(c, Denial(c)) /\ UNCHANGED mediatorVars
    BY <1>2 DEF RecordDenial, Denial
  <2>2. Waiting(c)
    BY <1>2 DEF RecordDenial, Waiting
  <2>3. IInv'
    BY <2>1, <2>2, DenialEvent, BeginIInv DEF Denial
  <2>4. AskedInv'
    BY <2>1 DEF Begin, Return, Goto, Denial, Shape, AskedInv, Evidence, Undecided, Denied
  <2> QED
    BY <2>3, <2>4
<1>3. ASSUME NEW c \in Calls, EngineStep(c), UNCHANGED mediatorVars
      PROVE  AskedInv' /\ IInv'
  <2>1. AskedInv'
    BY <1>3, EngineStepFrame DEF AskedInv, Evidence, Undecided, Denied, Past
  <2> QED
    BY <1>3, <2>1, EngineStepIInv
<1>4. ASSUME NEW c \in Calls, WriteDenied(c) \/ Forward(c) PROVE AskedInv' /\ IInv'
  <2>1. /\ pc' = [pc EXCEPT ![c] = pc'[c]]
        /\ \/ pc[c] = "handled" /\ pc'[c] = "denied"
           \/ pc[c] = "forward" /\ pc'[c] \in {"released", "unsent"}
    BY <1>4 DEF WriteDenied, Forward, Goto, Shape
  <2>2. UNCHANGED <<revokedAt, trips, ev, now, seen, result, req, decision, receipts>>
    BY <1>4 DEF WriteDenied, Forward
  <2>3. AskedInv'
    BY <2>1, <2>2 DEF AskedInv, Evidence, Undecided, Denied, Past, Shape
  <2>4. IInv'
    BY <2>1, <2>2, QuietIInv DEF Idles, Waiting, Shape
  <2> QED
    BY <2>3, <2>4
<1>5. CASE Environment /\ UNCHANGED mediatorVars
  <2>1. ev' = ev /\ \A c \in Calls : pc'[c] = pc[c] \/ pc'[c] = "dead"
    BY <1>5 DEF Environment, Tick, Crash, HangUp, CloseAlert
  <2>2. AskedInv'
    BY <1>5, <2>1 DEF AskedInv, Evidence, Undecided, Denied
  <2> QED
    BY <1>5, <2>2, EnvironmentIInv
<1>6. CASE EditAllowlist /\ UNCHANGED <<trips, alerts, ev, now, seen, result>>
  BY <1>6, QuietIInv DEF EditAllowlist, AskedInv, Evidence, Idles
<1>7. CASE UNCHANGED allVars
  BY <1>7, QuietIInv DEF allVars, vars, AskedInv, Evidence, Idles
<1> QED
  BY <1>1, <1>2, <1>3, <1>4, <1>5, <1>6, <1>7 DEF GatewayNext, ServeStep, DecideStep, GatewayRest

(* The gateway's state is always of its type: the labels of mediator and
   engine, and only receipts of calls that name an agent and a target.     *)
THEOREM GatewayTypeCorrect == GatewaySpec => []GatewayTypeOK
<1>1. GatewayInv => GatewayTypeOK
  BY DEF GatewayInv
<1> QED
  BY <1>1, InitGatewayInv, NextGatewayInv, PTL DEF GatewaySpec

(* The invariant holds in every reachable state of the gateway.            *)
THEOREM GatewayInvariance == GatewaySpec => []GatewayInv
  BY InitGatewayInv, NextGatewayInv, PTL DEF GatewaySpec

(* Two denials of one source within the window, that is of one agent id as
   the header spells it, that were handled without an error cut its agent
   before both clients have their answer, however many calls are decided,
   denied, lost or cut short meanwhile.                                    *)
THEOREM SecondDenialAlwaysCuts == GatewaySpec => []SecondDenialCuts
<1>1. GatewayInv => SecondDenialCuts
  <2> SUFFICES ASSUME GatewayInv, NEW c \in Calls, NEW d \in Calls,
                      Completed(c), Completed(d), SameCampaign(c, d),
                      Registered(req[c].source)
               PROVE  Revoked(req[c].source)
    BY DEF SecondDenialCuts
  <2>1. ev[c].source # NoSource
    BY DEF GatewayInv, IInv, HandlingInv, EventsInv, HasStored
  <2>2. ev[c].source = req[c].source
    BY <2>1 DEF GatewayInv, AskedInv
  <2> QED
    BY <2>2, IInvNoEscape DEF GatewayInv, NoCampaignEscapes
<1> QED
  BY <1>1, GatewayInvariance, PTL

LEMMA NextGatewayFollowed ==
    ASSUME GatewayInv, [GatewayNext]_allVars,
           NEW c \in Calls, NEW d \in Calls, Followed(c, d)
    PROVE  Followed(c, d)'
<1> USE GatewayTypeOKShape DEF GatewayInv
<1>1. ASSUME NEW b \in Calls, Arrive(b) \/ MediatorStep(b),
             UNCHANGED <<trips, alerts, ev, now, seen, result>>
      PROVE  Followed(c, d)'
  <2>1. \A x \in Calls : Idles(x)
    BY <1>1, MediatorStepFrame DEF Idles
  <2> QED
    BY <1>1, <2>1, QuietFollowed
<1>2. ASSUME NEW b \in Calls, RecordDenial(b) PROVE Followed(c, d)'
  <2>1. Begin(b, Denial(b)) /\ Waiting(b)
    BY <1>2 DEF RecordDenial, Denial, Waiting
  <2> QED
    BY <2>1, DenialEvent, BeginFollowed
<1>3. ASSUME NEW b \in Calls, EngineStep(b) PROVE Followed(c, d)'
  BY <1>3, EngineStepFollowed
<1>4. ASSUME NEW b \in Calls, WriteDenied(b) \/ Forward(b) PROVE Followed(c, d)'
  <2>1. \A x \in Calls : Idles(x)
    BY <1>4 DEF WriteDenied, Forward, Goto, Shape, Idles, Waiting
  <2>2. UNCHANGED <<trips, ev, now, seen, result>>
    BY <1>4 DEF WriteDenied, Forward
  <2> QED
    BY <2>1, <2>2, QuietFollowed
<1>5. CASE Environment
  BY <1>5, EnvironmentFollowed
<1>6. CASE EditAllowlist /\ UNCHANGED <<trips, alerts, ev, now, seen, result>>
  BY <1>6, QuietFollowed DEF EditAllowlist, Idles
<1>7. CASE UNCHANGED allVars
  BY <1>7, QuietFollowed DEF allVars, vars, Idles
<1> QED
  BY <1>1, <1>2, <1>3, <1>4, <1>5, <1>6, <1>7 DEF GatewayNext, ServeStep, DecideStep, GatewayRest

(* In the gateway too, a campaign that no handler finished is made up for by
   the next denial of its source.                                          *)
THEOREM NextDenialCuts == GatewaySpec => NextTripCuts
<1>1. ASSUME NEW c \in Calls, NEW d \in Calls \ {c}
      PROVE  GatewaySpec => [](Follows(c, d) => []MadeUpFor(c, d))
  <2>1. GatewayInv /\ Follows(c, d) => Followed(c, d)
    BY FollowsFollowed DEF GatewayInv
  <2>2. GatewayInv /\ Followed(c, d) /\ [GatewayNext]_allVars => Followed(c, d)'
    BY NextGatewayFollowed
  <2>3. GatewayInv /\ Followed(c, d) => MadeUpFor(c, d)
    BY FollowedMadeUpFor DEF GatewayInv
  <2> QED
    BY <2>1, <2>2, <2>3, GatewayInvariance, PTL DEF GatewaySpec
<1> QED
  BY <1>1 DEF NextTripCuts, MadeUpFor
=============================================================================
