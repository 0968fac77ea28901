---------------------------- MODULE LegitProofs ----------------------------
(***************************************************************************)
(* Zero false positives of the gateway, proved for every number of calls,  *)
(* agents and targets: while the store works, no trip is without its       *)
(* signed receipt, and while the allowlist stands, no agent is cut whose   *)
(* calls it permits, whatever clients, clocks and processes do.  And what  *)
(* AlertProofs proves of the engine alone, proved of the engine in the     *)
(* gateway, under all faults.                                              *)
(***************************************************************************)
EXTENDS GatewayProofs, AlertProofs

-----------------------------------------------------------------------------
(* The receipt of a refused call, and a call that the allowlist permits.   *)
Refusal(c) == [id |-> c, source |-> req[c].source, target |-> req[c].target,
               allowed |-> FALSE]

Permitted(c) ==
    /\ req[c].source \in Sources
    /\ <<Row[req[c].source], req[c].target>> \in allowlist

(* While the allowlist stands, a permitted call is only refused to an agent
   that has been cut before.                                               *)
RefusedRightly(c) ==
    "policy" \notin Faults /\ Permitted(c) => Revoked(req[c].source)

Grounded(c) ==
    /\ req[c].target # Ambiguous => Refusal(c) \in receipts
    /\ RefusedRightly(c)

(* A refusal has its grounds from the decision to the trip, unless the client
   has gone: then nothing more of the call reaches the database.           *)
GroundInv ==
    /\ \A c \in Calls :
          pc[c] = "receipt" /\ c \notin gone /\ ~decision[c] => RefusedRightly(c)
    /\ \A c \in Calls :
          pc[c] \in {"record", "insert"} /\ c \notin gone /\ req[c].source # NoSource
              => Grounded(c)
    /\ \A e \in trips : Grounded(e.id)
    /\ "policy" \notin Faults =>
          \A a \in Agents :
              revokedAt[a] # NotCut =>
                  \E c \in CallsOf(a) : <<a, req[c].target>> \notin allowlist

-----------------------------------------------------------------------------
(* Without store faults a statement succeeds unless its client has gone, and
   is not applied for a client that had gone before.                       *)
LEMMA StatementGone ==
    ASSUME "store" \notin Faults, NEW c \in Calls, NEW o \in Outcomes(c), Statement(c, o)
    PROVE  /\ gone \subseteq gone'
           /\ o = "ok" \/ c \in gone'
           /\ Applied(o) => c \notin gone
  BY DEF Outcomes, Statement, Applied

(* What every step of the gateway leaves as it is.                         *)
Kept ==
    /\ gone \subseteq gone'
    /\ receipts \subseteq receipts'
    /\ \A a \in Agents : revokedAt[a] # NotCut => revokedAt'[a] = revokedAt[a]
    /\ "policy" \notin Faults => allowlist' = allowlist
    /\ \A c \in Calls : pc[c] # "idle" => pc'[c] # "idle" /\ req'[c] = req[c]

LEMMA GatewayKeeps ==
    ASSUME "store" \notin Faults, GatewayInv, [GatewayNext]_allVars
    PROVE  Kept
<1> USE GatewayTypeOKShape DEF GatewayInv, mediatorVars
<1>1. ASSUME NEW c \in Calls, Arrive(c) PROVE Kept
  BY <1>1 DEF Arrive, Goto, Kept, GatewayTypeOK
<1>2. ASSUME NEW c \in Calls, MediatorStep(c) PROVE Kept
  <2>1. gone \subseteq gone' /\ UNCHANGED <<req, allowlist>>
    BY <1>2 DEF MediatorStep, AgentStatus, Allowlist, InsertReceipt, Statement
  <2> QED
    BY <1>2, <2>1, MediatorStepFrame DEF Kept, Waiting, MediatorStep, AgentStatus,
       Allowlist, InsertReceipt, Decide, Goto, GatewayTypeOK
<1>3. ASSUME NEW c \in Calls, RecordDenial(c) PROVE Kept
  BY <1>3 DEF RecordDenial, Begin, Goto, Return, Kept, GatewayTypeOK
<1>4. ASSUME NEW c \in Calls, EngineStep(c), UNCHANGED mediatorVars PROVE Kept
  <2>1. gone \subseteq gone'
    BY <1>4 DEF EngineStep, InsertTripEvent, ReadClock, TripsBySource, UpdateAlert,
                InsertAlert, RevokeAgent, AgentExists, Statement
  <2> QED
    BY <1>4, <2>1, EngineStepFrame DEF Kept, Past
<1>5. ASSUME NEW c \in Calls, WriteDenied(c) \/ Forward(c) PROVE Kept
  BY <1>5 DEF WriteDenied, Forward, Goto, Kept, GatewayTypeOK
<1>6. CASE Environment /\ UNCHANGED mediatorVars
  BY <1>6 DEF Environment, Tick, Crash, HangUp, CloseAlert, Kept, GatewayTypeOK, InFlight
<1>7. CASE EditAllowlist
  BY <1>7 DEF EditAllowlist, Kept
<1>8. CASE UNCHANGED allVars
  BY <1>8 DEF allVars, vars, Kept
<1> QED
  BY <1>1, <1>2, <1>3, <1>4, <1>5, <1>6, <1>7, <1>8 DEF GatewayNext, ServeStep, DecideStep, GatewayRest

(* So a refusal that has its grounds keeps them.                           *)
LEMMA GroundsStay ==
    ASSUME GatewayInv, Kept, NEW c \in Calls, req'[c] = req[c]
    PROVE  /\ RefusedRightly(c) => RefusedRightly(c)'
           /\ Grounded(c) => Grounded(c)'
<1>1. \A s \in Sources : Row[s] \in Agents /\ Revoked(s) => Revoked(s)'
  BY DEF Kept, Revoked
<1>2. RefusedRightly(c) => RefusedRightly(c)'
  <2> SUFFICES ASSUME RefusedRightly(c), "policy" \notin Faults, Permitted(c)'
               PROVE  Revoked(req[c].source)'
    BY DEF RefusedRightly
  <2>1. Permitted(c) /\ Row[req[c].source] \in Agents
    BY DEF Kept, Permitted, GatewayInv, GatewayTypeOK
  <2> QED
    BY <1>1, <2>1 DEF RefusedRightly, Permitted
<1>3. Refusal(c)' = Refusal(c)
  BY DEF Refusal
<1> QED
  BY <1>2, <1>3 DEF Grounded, Kept

-----------------------------------------------------------------------------
(* A stored trip is the denial of the call that it is named after.         *)
LEMMA TripIsDenial ==
    ASSUME GatewayInv, NEW e \in trips
    PROVE  /\ e.id \in Calls /\ e = ev[e.id]
           /\ e.source = req[e.id].source /\ e.source \in Sources
           /\ pc[e.id] # "idle"
<1>1. PICK c \in Calls : ev[c] = e /\ e.source # NoSource
  BY DEF GatewayInv, IInv, EventsInv
<1>2. ev[c].id = c /\ ev[c].source = req[c].source /\ pc[c] \in Denied
  BY <1>1 DEF GatewayInv, AskedInv
<1>3. ev[c].source \in Sources
  BY <1>1, GatewayTypeOKShape DEF GatewayInv, Shape, Event
<1> QED
  BY <1>1, <1>2, <1>3 DEF Denied, Past

(* A call is decided: it is refused for what the database said, or its client
   has gone.                                                               *)
LEMMA DecidedRightly ==
    ASSUME "store" \notin Faults, GatewayInv, Kept, GroundInv,
           NEW c \in Calls, AgentStatus(c) \/ Allowlist(c),
           pc'[c] = "receipt", c \notin gone', ~decision'[c]
    PROVE  RefusedRightly(c)'
<1> USE DEF GatewayInv, GatewayTypeOK
<1>1. req' = req /\ revokedAt' = revokedAt /\ allowlist' = allowlist
  BY DEF AgentStatus, Allowlist
<1> SUFFICES ASSUME Permitted(c) PROVE Revoked(req[c].source)
  BY <1>1 DEF RefusedRightly, Permitted, Revoked
<1>2. Registered(req[c].source) /\ req[c].target \in AllowedTargets(req[c].source)
  BY DEF Permitted, Registered, AllowedTargets
<1>3. CASE AgentStatus(c)
  <2>1. PICK o \in Outcomes(c) :
          /\ Statement(c, o)
          /\ IF MayCall(o, req[c].source) THEN Goto(c, "allowlist") /\ UNCHANGED decision
                                          ELSE Decide(c, FALSE)
    BY <1>3 DEF AgentStatus
  <2>2. o = "ok" /\ ~MayCall(o, req[c].source)
    BY <2>1, StatementGone DEF Goto
  <2> QED
    BY <1>2, <2>2 DEF MayCall
<1>4. CASE Allowlist(c)
  <2>1. PICK o \in Outcomes(c) :
          /\ Statement(c, o)
          /\ Decide(c, o = "ok" /\ req[c].target \in AllowedTargets(req[c].source))
    BY <1>4 DEF Allowlist
  <2>2. o = "ok"
    BY <2>1, StatementGone
  <2> QED
    BY <1>2, <2>1, <2>2 DEF Decide
<1> QED
  BY <1>3, <1>4

(* A call that is refused with its client still there has its receipt.     *)
LEMMA RefusedWithReceipt ==
    ASSUME "store" \notin Faults, GatewayInv, Kept, GroundInv,
           NEW c \in Calls, InsertReceipt(c), pc'[c] = "record", c \notin gone'
    PROVE  Grounded(c)'
<1> USE DEF GatewayInv, GatewayTypeOK
<1>1. PICK o \in Outcomes(c) :
        /\ Statement(c, o)
        /\ receipts' = IF Applied(o) THEN WithEvidence(c) ELSE receipts
        /\ decision' = [decision EXCEPT ![c] = @ /\ o = "ok"]
        /\ pc' = [pc EXCEPT ![c] = IF decision'[c] THEN "forward" ELSE "record"]
  BY DEF InsertReceipt, Goto
<1>2. o = "ok" /\ c \notin gone
  BY <1>1, StatementGone DEF Kept
<1>3. ~decision[c] /\ pc[c] = "receipt" /\ req' = req
  BY <1>1, <1>2 DEF InsertReceipt
<1>4. Refusal(c) \in receipts'
  BY <1>1, <1>2, <1>3 DEF Applied, WithEvidence, Evidence, Refusal
<1>5. RefusedRightly(c)'
  BY <1>2, <1>3, GroundsStay DEF GroundInv
<1> QED
  BY <1>3, <1>4, <1>5 DEF Grounded, Refusal

(* What a call was before it is about to be recorded or to store its trip.  *)
LEMMA RecordedAfter ==
    ASSUME GatewayInv, [GatewayNext]_allVars,
           NEW c \in Calls, pc'[c] \in {"record", "insert"}
    PROVE  \/ pc[c] \in {"record", "insert"}
           \/ Arrive(c)
           \/ InsertReceipt(c) /\ pc'[c] = "record"
<1> USE GatewayTypeOKShape DEF GatewayInv, GatewayTypeOK
<1>1. ASSUME NEW d \in Calls, d # c, Arrive(d) \/ ServeStep(d) PROVE pc'[c] = pc[c]
  <2>1. CASE Arrive(d) \/ MediatorStep(d)
    BY <1>1, <2>1, MediatorStepFrame
  <2>2. CASE EngineStep(d)
    BY <1>1, <2>2, EngineStepFrame
  <2> QED
    BY <1>1, <2>1, <2>2 DEF ServeStep, DecideStep, RecordDenial, WriteDenied, Forward, Begin, Return, Goto
<1>2. CASE Arrive(c) \/ ServeStep(c)
  <2>1. CASE EngineStep(c)
    BY <2>1, EngineStepFrame DEF Past
  <2>2. CASE AgentStatus(c) \/ Allowlist(c)
    BY <2>2 DEF AgentStatus, Allowlist, Decide, Goto
  <2>3. CASE InsertReceipt(c)
    BY <2>3 DEF InsertReceipt, Goto
  <2> QED
    BY <1>2, <2>1, <2>2, <2>3 DEF ServeStep, DecideStep, MediatorStep, RecordDenial, WriteDenied,
                                  Forward, Goto
<1>3. CASE Environment
  BY <1>3 DEF Environment, Tick, Crash, HangUp, CloseAlert
<1>4. CASE EditAllowlist
  BY <1>4 DEF EditAllowlist
<1>5. CASE UNCHANGED allVars
  BY <1>5 DEF allVars, vars
<1> QED
  BY <1>1, <1>2, <1>3, <1>4, <1>5 DEF GatewayNext, GatewayRest

(* And what it was before it is about to have its receipt stored.          *)
LEMMA DecidedAfter ==
    ASSUME GatewayInv, [GatewayNext]_allVars, NEW c \in Calls, pc'[c] = "receipt"
    PROVE  \/ pc[c] = "receipt" /\ decision'[c] = decision[c]
           \/ AgentStatus(c) \/ Allowlist(c)
<1> USE GatewayTypeOKShape DEF GatewayInv, GatewayTypeOK, mediatorVars
<1>1. ASSUME NEW d \in Calls, d # c, Arrive(d) \/ ServeStep(d)
      PROVE  pc'[c] = pc[c] /\ decision'[c] = decision[c]
  <2>1. CASE Arrive(d) \/ MediatorStep(d)
    BY <1>1, <2>1, MediatorStepFrame
  <2>2. CASE EngineStep(d) /\ UNCHANGED mediatorVars
    BY <1>1, <2>2, EngineStepFrame
  <2> QED
    BY <1>1, <2>1, <2>2 DEF ServeStep, DecideStep, RecordDenial, WriteDenied, Forward, Begin, Return, Goto
<1>2. CASE Arrive(c) \/ ServeStep(c)
  <2>1. CASE EngineStep(c)
    BY <2>1, EngineStepFrame DEF Past
  <2>2. CASE Arrive(c)
    BY <2>2 DEF Arrive, Goto
  <2>3. CASE InsertReceipt(c)
    BY <2>3 DEF InsertReceipt, Goto
  <2>4. CASE RecordDenial(c)
    BY <2>4 DEF RecordDenial, Begin, Return, Goto
  <2> QED
    BY <1>2, <2>1, <2>2, <2>3, <2>4 DEF ServeStep, DecideStep, MediatorStep, WriteDenied, Forward, Goto
<1>3. CASE Environment /\ UNCHANGED mediatorVars
  BY <1>3 DEF Environment, Tick, Crash, HangUp, CloseAlert
<1>4. CASE EditAllowlist
  BY <1>4 DEF EditAllowlist
<1>5. CASE UNCHANGED allVars
  BY <1>5 DEF allVars, vars
<1> QED
  BY <1>1, <1>2, <1>3, <1>4, <1>5 DEF GatewayNext, GatewayRest

(* Only the engine stores a trip or cuts an agent.                         *)
LEMMA HeldAgainst ==
    ASSUME GatewayInv, [GatewayNext]_allVars
    PROVE  \/ trips' = trips /\ revokedAt' = revokedAt
           \/ \E c \in Calls : InsertTripEvent(c) /\ revokedAt' = revokedAt
           \/ \E c \in Calls : EngineStep(c) /\ trips' = trips
<1> USE DEF mediatorVars
<1>1. ASSUME NEW c \in Calls, Arrive(c) \/ MediatorStep(c),
             UNCHANGED <<trips, alerts, ev, now, seen, result>>
      PROVE  trips' = trips /\ revokedAt' = revokedAt
  BY <1>1, MediatorStepFrame DEF GatewayInv
<1>2. ASSUME NEW c \in Calls, RecordDenial(c) \/ WriteDenied(c) \/ Forward(c)
      PROVE  trips' = trips /\ revokedAt' = revokedAt
  BY <1>2 DEF RecordDenial, WriteDenied, Forward, Begin
<1>3. ASSUME NEW c \in Calls, EngineStep(c)
      PROVE  (InsertTripEvent(c) /\ revokedAt' = revokedAt) \/ trips' = trips
  BY <1>3 DEF EngineStep, InsertTripEvent, ReadClock, TripsBySource, UpdateAlert,
              InsertAlert, RevokeAgent, AgentExists
<1>4. CASE Environment
  BY <1>4 DEF Environment, Tick, Crash, HangUp, CloseAlert
<1>5. CASE EditAllowlist /\ UNCHANGED <<trips, alerts, ev, now, seen, result>>
  BY <1>5 DEF EditAllowlist
<1>6. CASE UNCHANGED allVars
  BY <1>6 DEF allVars, vars
<1> QED
  BY <1>1, <1>2, <1>3, <1>4, <1>5, <1>6 DEF GatewayNext, ServeStep, DecideStep, GatewayRest

-----------------------------------------------------------------------------
LEMMA InitGroundInv == GatewayInit => GroundInv
  BY DEF GatewayInit, Init, StoreInit, EngineInit, GroundInv

(* A call that is about to be recorded or to store its trip.               *)
LEMMA NextRecorded ==
    ASSUME "store" \notin Faults, GatewayInv, GatewayInv', GroundInv, Kept,
           [GatewayNext]_allVars,
           NEW c \in Calls, pc'[c] \in {"record", "insert"}, c \notin gone',
           req'[c].source # NoSource
    PROVE  Grounded(c)'
<1>1. CASE pc[c] \in {"record", "insert"}
  <2>1. c \notin gone /\ req'[c] = req[c]
    BY <1>1 DEF Kept
  <2> QED
    BY <1>1, <2>1, GroundsStay DEF GroundInv
<1>2. CASE Arrive(c)
  <2>1. PICK r \in Request :
          /\ req' = [req EXCEPT ![c] = r]
          /\ pc' = [pc EXCEPT ![c] = IF r.source = NoSource \/ r.target = Ambiguous
                                     THEN "record" ELSE "status"]
    BY <1>2 DEF Arrive, Goto
  <2>2. req'[c].target = Ambiguous
    BY <2>1 DEF GatewayInv, GatewayTypeOK
  <2>3. <<Row[req'[c].source], Ambiguous>> \notin allowlist'
    BY TargetsAssumption DEF GatewayInv, GatewayTypeOK
  <2> QED
    BY <2>2, <2>3 DEF Grounded, RefusedRightly, Permitted
<1>3. CASE InsertReceipt(c) /\ pc'[c] = "record"
  BY <1>3, RefusedWithReceipt
<1> QED
  BY <1>1, <1>2, <1>3, RecordedAfter

(* A stored trip.                                                          *)
LEMMA NextTrips ==
    ASSUME "store" \notin Faults, GatewayInv, GatewayInv', GroundInv, Kept,
           [GatewayNext]_allVars, NEW e \in trips'
    PROVE  Grounded(e.id)'
<1>1. CASE e \in trips
  <2>1. e.id \in Calls /\ req'[e.id] = req[e.id]
    BY <1>1, TripIsDenial DEF Kept
  <2> QED
    BY <1>1, <2>1, GroundsStay DEF GroundInv
<1>2. CASE e \notin trips
  <2>1. PICK c \in Calls : InsertTripEvent(c)
    BY <1>2, HeldAgainst
  <2>2. PICK o \in Outcomes(c) :
          Statement(c, o) /\ trips' = IF Applied(o) THEN Recorded(c) ELSE trips
    BY <2>1 DEF InsertTripEvent
  <2>3. Applied(o) /\ e = ev[c]
    BY <1>2, <2>2 DEF Recorded
  <2>4. c \notin gone /\ pc[c] = "insert"
    BY <2>1, <2>2, <2>3, StatementGone DEF InsertTripEvent
  <2>5. ev[c].id = c /\ req[c].source # NoSource
    BY <2>4 DEF GatewayInv, IInv, HandlingInv, AskedInv
  <2>6. req'[c] = req[c]
    BY <2>4 DEF Kept
  <2> QED
    BY <2>3, <2>4, <2>5, <2>6, GroundsStay DEF GroundInv
<1> QED
  BY <1>1, <1>2

(* A cut agent: the two trips that it was cut for are refusals, and before it
   was cut a permitted call was not refused.                               *)
LEMMA NextCut ==
    ASSUME "policy" \notin Faults, GatewayInv, GatewayInv', GroundInv, Kept,
           [GatewayNext]_allVars,
           NEW a \in Agents, revokedAt'[a] # NotCut
    PROVE  \E c \in CallsOf(a)' : <<a, req'[c].target>> \notin allowlist'
<1>1. allowlist' = allowlist
  BY DEF Kept
<1>2. CASE revokedAt[a] # NotCut
  <2>1. PICK c \in CallsOf(a) : <<a, req[c].target>> \notin allowlist
    BY <1>2 DEF GroundInv
  <2>2. c \in CallsOf(a)' /\ req'[c] = req[c]
    BY <2>1 DEF CallsOf, Who, Kept
  <2> QED
    BY <1>1, <2>1, <2>2
<1>3. CASE revokedAt[a] = NotCut
  <2>1. trips' = trips /\ \E c \in Calls : EngineStep(c)
    BY <1>3, HeldAgainst
  <2>2. ev' = ev
    BY <2>1, GatewayTypeOKShape, EngineStepFrame DEF GatewayInv
  <2>3. PICK x \in Calls : ev[x] \in trips /\ ev[x].source \in Sources /\ Row[ev[x].source] = a
    BY <2>1, <2>2 DEF GatewayInv, IInv, RevocationGrounded
  <2> DEFINE c == ev[x].id
  <2>4. /\ c \in Calls /\ req[c].source \in Sources /\ Row[req[c].source] = a
        /\ pc[c] # "idle"
    BY <2>3, TripIsDenial
  <2>5. ~Permitted(c)
    BY <1>3, <2>3, <2>4 DEF GroundInv, Grounded, RefusedRightly, Revoked
  <2>6. <<a, req[c].target>> \notin allowlist
    BY <2>4, <2>5 DEF Permitted
  <2>7. req'[c] = req[c] /\ pc'[c] # "idle"
    BY <2>4 DEF Kept
  <2>8. c \in CallsOf(a)'
    BY <2>4, <2>7, SourcesAssumption DEF CallsOf, Who
  <2> QED
    BY <1>1, <2>6, <2>7, <2>8
<1> QED
  BY <1>2, <1>3

LEMMA NextGroundInv ==
    ASSUME "store" \notin Faults, GatewayInv, GatewayInv', GroundInv,
           [GatewayNext]_allVars
    PROVE  GroundInv'
<1>1. Kept
  BY GatewayKeeps
<1>2. ASSUME NEW c \in Calls, pc'[c] = "receipt", c \notin gone', ~decision'[c]
      PROVE  RefusedRightly(c)'
  <2>1. CASE pc[c] = "receipt" /\ decision'[c] = decision[c]
    <3>1. c \notin gone /\ req'[c] = req[c]
      BY <1>1, <1>2, <2>1 DEF Kept
    <3> QED
      BY <1>1, <1>2, <2>1, <3>1, GroundsStay DEF GroundInv
  <2>2. CASE AgentStatus(c) \/ Allowlist(c)
    BY <1>1, <1>2, <2>2, DecidedRightly
  <2> QED
    BY <1>2, <2>1, <2>2, DecidedAfter
<1>3. \A c \in Calls :
         pc'[c] \in {"record", "insert"} /\ c \notin gone' /\ req'[c].source # NoSource
             => Grounded(c)'
  BY <1>1, NextRecorded
<1>4. \A e \in trips' : Grounded(e.id)'
  BY <1>1, NextTrips
<1>5. "policy" \notin Faults =>
         \A a \in Agents :
             revokedAt'[a] # NotCut =>
                 \E c \in CallsOf(a)' : <<a, req'[c].target>> \notin allowlist'
  BY <1>1, NextCut
<1> QED
  BY <1>2, <1>3, <1>4, <1>5 DEF GroundInv

(* While no statement fails, the invariant holds in every reachable state of
   the gateway.                                                            *)
THEOREM GroundInvariance ==
    ASSUME "store" \notin Faults
    PROVE  GatewaySpec => [](GatewayInv /\ GroundInv)
<1>1. GatewayInit => GatewayInv /\ GroundInv
  BY InitGatewayInv, InitGroundInv
<1>2. GatewayInv /\ GroundInv /\ [GatewayNext]_allVars => (GatewayInv /\ GroundInv)'
  BY NextGatewayInv, NextGroundInv
<1> QED
  BY <1>1, <1>2, PTL DEF GatewaySpec

(* While no statement fails, every stored trip stands for a request whose
   refusal has its signed receipt in the table, however late its client hung
   up and whenever the process died.                                       *)
THEOREM TripsAreEvidenced ==
    ASSUME "store" \notin Faults
    PROVE  GatewaySpec => []TripsHaveReceipts
<1>1. GatewayInv /\ GroundInv => TripsHaveReceipts
  <2> SUFFICES ASSUME GatewayInv, GroundInv, NEW e \in trips, req[e.id].target # Ambiguous
               PROVE  \E r \in receipts :
                         /\ r.id = e.id /\ ~r.allowed
                         /\ r.source = e.source /\ r.target = req[e.id].target
    BY DEF TripsHaveReceipts
  <2>1. Refusal(e.id) \in receipts /\ e.source = req[e.id].source
    BY TripIsDenial DEF GroundInv, Grounded
  <2> QED
    BY <2>1 DEF Refusal
<1> QED
  BY <1>1, GroundInvariance, PTL

(* While no statement fails and the allowlist stands, no agent is cut off that
   has only made calls its allowlist permits, whatever its clients and the
   processes do.                                                           *)
THEOREM LegitIsNeverCut ==
    ASSUME "store" \notin Faults, "policy" \notin Faults
    PROVE  GatewaySpec => []LegitNeverCut
<1>1. GatewayInv /\ GroundInv => LegitNeverCut
  BY DEF GroundInv, LegitNeverCut
<1> QED
  BY <1>1, GroundInvariance, PTL
(* Whoever is cut can be shown why: two of its calls were refused, and the
   signed receipt of each is in the table, unless the call had no canonical
   path to be signed.                                                      *)
CutsHaveReceipts ==
    \A a \in Agents :
        revokedAt[a] # NotCut =>
            \E c, d \in CallsOf(a) :
                /\ c # d
                /\ \A x \in {c, d} : req[x].target # Ambiguous => Refusal(x) \in receipts

(* While no statement fails, every revocation is backed by the signed receipts
   of two different refused calls of that agent.                           *)
THEOREM CutsAreEvidenced ==
    ASSUME "store" \notin Faults
    PROVE  GatewaySpec => []CutsHaveReceipts
<1>1. GatewayInv /\ GroundInv => CutsHaveReceipts
  <2> SUFFICES ASSUME GatewayInv, GroundInv, NEW a \in Agents, revokedAt[a] # NotCut
               PROVE  \E c, d \in CallsOf(a) :
                         /\ c # d
                         /\ \A x \in {c, d} :
                               req[x].target # Ambiguous => Refusal(x) \in receipts
    BY DEF CutsHaveReceipts
  <2>1. PICK e, f \in trips : /\ e.id # f.id
                              /\ e.source = f.source
                              /\ e.source \in Sources /\ Row[e.source] = a
    BY DEF GatewayInv, IInv, RevocationGrounded
  <2>2. ASSUME NEW g \in {e, f}
        PROVE  /\ g.id \in CallsOf(a)
               /\ req[g.id].target # Ambiguous => Refusal(g.id) \in receipts
    <3>1. g \in trips /\ Row[g.source] = a
      BY <2>1
    <3>2. /\ g.id \in Calls /\ g.source = req[g.id].source /\ g.source \in Sources
          /\ pc[g.id] # "idle"
      BY <3>1, TripIsDenial
    <3>3. g.id \in CallsOf(a)
      BY <3>1, <3>2, SourcesAssumption DEF CallsOf, Who
    <3> QED
      BY <3>1, <3>3 DEF GroundInv, Grounded
  <2> QED
    BY <2>1, <2>2
<1> QED
  BY <1>1, GroundInvariance, PTL

-----------------------------------------------------------------------------
(* The engine inside the gateway.  The lemmas are those of AlertProofs, for
   the labels of the whole handler.                                        *)

LEMMA GatewayAlertsShape == GatewayTypeOK => AlertsShape
  BY DEF GatewayTypeOK, DataTypeOK, AlertsShape

LEMMA NextGatewayReportInv ==
    GatewayInv /\ ReportInv /\ [GatewayNext]_allVars => ReportInv'
<1> SUFFICES ASSUME GatewayInv, ReportInv, [GatewayNext]_allVars PROVE ReportInv'
  OBVIOUS
<1> USE GatewayTypeOKShape, GatewayAlertsShape DEF GatewayInv
<1>1. ASSUME NEW c \in Calls,
             Arrive(c) \/ MediatorStep(c),
             UNCHANGED <<trips, alerts, ev, now, seen, result>>
      PROVE  ReportInv'
  BY <1>1, MediatorStepFrame, QuietReportInv DEF Idles
<1>2. ASSUME NEW c \in Calls, RecordDenial(c) PROVE ReportInv'
  <2>1. Begin(c, Denial(c)) /\ Waiting(c)
    BY <1>2 DEF RecordDenial, Denial, Waiting
  <2> QED
    BY <2>1, DenialEvent, BeginReportInv
<1>3. ASSUME NEW c \in Calls, EngineStep(c) PROVE ReportInv'
  BY <1>3, EngineStepReportInv
<1>4. ASSUME NEW c \in Calls, WriteDenied(c) \/ Forward(c) PROVE ReportInv'
  <2>1. \A d \in Calls : Idles(d)
    BY <1>4 DEF WriteDenied, Forward, Goto, Idles, Waiting, Shape
  <2> QED
    BY <1>4, <2>1, QuietReportInv DEF WriteDenied, Forward
<1>5. CASE Environment
  BY <1>5, EnvironmentReportInv
<1>6. CASE EditAllowlist /\ UNCHANGED <<trips, alerts, ev, now, seen, result>>
  BY <1>6, QuietReportInv DEF EditAllowlist, Idles
<1>7. CASE UNCHANGED allVars
  BY <1>7, QuietReportInv DEF allVars, vars, Idles
<1> QED
  BY <1>1, <1>2, <1>3, <1>4, <1>5, <1>6, <1>7 DEF GatewayNext, ServeStep, DecideStep, GatewayRest

(* What is decided, signed, forwarded and answered writes no verdict.      *)
LEMMA NextGatewayVerdicts ==
    GatewayInv /\ ReportInv /\ [GatewayNext]_allVars
        => [Verdict!VerdictNext]_(Verdict!verdictVars)
<1> SUFFICES ASSUME GatewayInv, ReportInv, [GatewayNext]_allVars
             PROVE  Verdict!VerdictNext \/ UNCHANGED Verdict!verdictVars
  OBVIOUS
<1> USE GatewayTypeOKShape, GatewayAlertsShape DEF GatewayInv
<1>1. ASSUME NEW c \in Calls,
             Arrive(c) \/ MediatorStep(c),
             UNCHANGED <<trips, alerts, ev, now, seen, result>>
      PROVE  UNCHANGED Verdict!verdictVars
  BY <1>1, MediatorStepFrame, JudgesNothing
<1>2. ASSUME NEW c \in Calls, RecordDenial(c) \/ WriteDenied(c) \/ Forward(c)
      PROVE  UNCHANGED Verdict!verdictVars
  BY <1>2, JudgesNothing DEF RecordDenial, WriteDenied, Forward, Begin
<1>3. ASSUME NEW c \in Calls, EngineStep(c)
      PROVE  Verdict!VerdictNext \/ UNCHANGED Verdict!verdictVars
  BY <1>3, EngineStepJudges
<1>4. CASE Environment
  BY <1>4, EnvironmentJudges
<1>5. CASE EditAllowlist /\ UNCHANGED <<trips, alerts, ev, now, seen, result>>
  BY <1>5, JudgesNothing DEF EditAllowlist
<1>6. CASE UNCHANGED allVars
  BY <1>6, JudgesNothing DEF allVars, vars
<1> QED
  BY <1>1, <1>2, <1>3, <1>4, <1>5, <1>6 DEF GatewayNext, ServeStep, DecideStep, GatewayRest

(* What the engine knows of its alerts holds in every reachable state of the
   gateway, under all faults.                                              *)
THEOREM GatewayReportInvariance == GatewaySpec => [](GatewayInv /\ ReportInv)
<1>1. GatewayInit => GatewayInv /\ ReportInv
  BY InitGatewayInv, InitReportInv DEF GatewayInit
<1>2. GatewayInv /\ ReportInv /\ [GatewayNext]_allVars => (GatewayInv /\ ReportInv)'
  BY NextGatewayInv, NextGatewayReportInv
<1> QED
  BY <1>1, <1>2, PTL DEF GatewaySpec

(* The gateway implements Verdicts: no agent is cut but once, for two stored
   denials of one source within the window, after an alert of the source,
   whatever mediator, clients, operators and processes do meanwhile.       *)
THEOREM GatewayKeepsToVerdicts == GatewaySpec => KeepsToVerdicts
<1>1. GatewayInit => Verdict!VerdictInit
  BY InitVerdicts DEF GatewayInit
<1> QED
  BY <1>1, GatewayReportInvariance, NextGatewayVerdicts, PTL
  DEF GatewaySpec, KeepsToVerdicts, Verdict!VerdictSpec

(* A denial that the engine handled without an error has left an alert of its
   agent, and every Critical alert has two stored denials behind it, also
   while the same handlers serve calls that are permitted.                 *)
THEOREM DenialsRaiseAlerts == GatewaySpec => [](TripRaisesAlert /\ CriticalGrounded)
<1>1. ReportInv => TripRaisesAlert /\ CriticalGrounded
  BY DEF ReportInv, AlertedInv, Alerted, TripRaisesAlert
<1> QED
  BY <1>1, GatewayReportInvariance, PTL
=============================================================================
