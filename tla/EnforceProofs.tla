--------------------------- MODULE EnforceProofs ---------------------------
(***************************************************************************)
(* What module Enforce is checked for on small instances, proved for every *)
(* number of handlers, sources and agents and for every window.            *)
(***************************************************************************)
EXTENDS Enforce, TLAPS

-----------------------------------------------------------------------------
(* What a step of a handler changes.                                       *)

(* Where a handler is once its insert has succeeded, until it returns.     *)
Past == {"now", "trips", "alert", "newalert", "revoke", "exists"}

(* The types these proofs need, which hold of the engine alone and inside
   the gateway.                                                            *)
Shape ==
    /\ DOMAIN pc = Calls /\ DOMAIN result = Calls
    /\ revokedAt \in [Agents -> Int]
    /\ trips \subseteq Event
    /\ ev \in [Calls -> Event]
    /\ now \in [Calls -> Nat]
    /\ seen \in [Calls -> SUBSET Event]

LEMMA DataTypeOKShape == DataTypeOK /\ DOMAIN pc = Calls => Shape
<1> SUFFICES ASSUME DataTypeOK, DOMAIN pc = Calls PROVE Shape
  OBVIOUS
<1>1. revokedAt \in [Agents -> Int] /\ now \in [Calls -> Nat]
  BY TimeAssumption DEF DataTypeOK, NotCut
<1> QED
  BY <1>1 DEF DataTypeOK, Shape

LEMMA TypeOKShape == TypeOK => Shape
  BY DataTypeOKShape DEF TypeOK

(* What a step of a handler leaves alone: other handlers, its own event, the
   stored trips and the first revocation of every agent.                   *)
LEMMA EngineStepFrame ==
    ASSUME NEW c \in Calls, Shape, EngineStep(c)
    PROVE  /\ ev' = ev
           /\ pc[c] \in Past \cup {"insert"}
           /\ pc'[c] \in Past \cup {"handled"}
           /\ pc' = [pc EXCEPT ![c] = pc'[c]]
           /\ \A d \in Calls \ {c} : /\ pc'[d] = pc[d] /\ result'[d] = result[d]
                                     /\ seen'[d] = seen[d] /\ now'[d] = now[d]
           /\ pc'[c] # "handled" => result' = result
           /\ trips \subseteq trips'
           /\ \A a \in Agents : revokedAt[a] # NotCut => revokedAt'[a] = revokedAt[a]
<1> USE DEF Shape, Goto, Return, Past
<1>1. CASE InsertTripEvent(c)
  BY <1>1 DEF InsertTripEvent, Recorded
<1>2. CASE ReadClock(c)
  BY <1>2 DEF ReadClock
<1>3. CASE TripsBySource(c)
  BY <1>3 DEF TripsBySource
<1>4. CASE UpdateAlert(c)
  BY <1>4 DEF UpdateAlert, AlertWritten
<1>5. CASE InsertAlert(c)
  BY <1>5 DEF InsertAlert, AlertWritten
<1>6. CASE RevokeAgent(c)
  <2>1. \A a \in Agents : revokedAt[a] # NotCut => revokedAt'[a] = revokedAt[a]
    BY <1>6 DEF RevokeAgent, RevokedBy, Registered, Revoked
  <2> QED
    BY <1>6, <2>1 DEF RevokeAgent
<1>7. CASE AgentExists(c)
  BY <1>7 DEF AgentExists
<1> QED
  BY <1>1, <1>2, <1>3, <1>4, <1>5, <1>6, <1>7 DEF EngineStep

-----------------------------------------------------------------------------
(* Types.                                                                  *)

LEMMA InitTypeOK == Init => TypeOK
  BY TimeAssumption DEF Init, StoreInit, EngineInit, TypeOK, DataTypeOK, Event,
                        Alert, NoAlert, NotCut

(* Every step of a handler keeps the data in their types.                  *)
LEMMA EngineStepDataTypeOK ==
    ASSUME NEW c \in Calls, DataTypeOK, EngineStep(c)
    PROVE  DataTypeOK'
<1> USE TimeAssumption, RowAssumption
<1>1. CASE InsertTripEvent(c)
  <2>1. Recorded(c) \in SUBSET Event
    BY DEF Recorded, DataTypeOK
  <2> QED
    BY <1>1, <2>1 DEF InsertTripEvent, Statement, Goto, Return, DataTypeOK
<1>2. CASE ReadClock(c)
  BY <1>2 DEF ReadClock, Goto, DataTypeOK
<1>3. CASE TripsBySource(c)
  <2>1. InWindow(ev[c].source, now[c]) \in SUBSET Event
    BY DEF InWindow, DataTypeOK
  <2>2. \/ seen' = seen
        \/ seen' = [seen EXCEPT ![c] = InWindow(ev[c].source, now[c])]
    BY <1>3 DEF TripsBySource
  <2>3. seen' \in [Calls -> SUBSET Event]
    BY <2>1, <2>2 DEF DataTypeOK
  <2>4. result' \in {result} \cup {[result EXCEPT ![c] = r] : r \in {"quiet", "error"}}
    BY <1>3 DEF TripsBySource, Return
  <2>5. result' \in [Calls -> {"none", "error", "quiet", "revoked",
                               "unregistered", "uncut"}]
    BY <2>4 DEF DataTypeOK
  <2>6. gone' \subseteq Calls /\ UNCHANGED <<clock, revokedAt, trips, alerts, ev, now>>
    BY <1>3 DEF TripsBySource, Statement, DataTypeOK
  <2> QED
    BY <2>3, <2>5, <2>6 DEF DataTypeOK
<1>4. CASE UpdateAlert(c)
  <2>1. Severity(seen[c]) \in {"High", "Critical"}
    BY DEF Severity
  <2>2. alerts' \in [Calls -> Alert]
    <3> DEFINE updated == [k \in Calls |->
                             IF k \in OpenAlerts(ev[c].source)
                             THEN [alerts[k] EXCEPT !.severity = Severity(seen[c])]
                             ELSE alerts[k]]
    <3>1. alerts' \in {alerts, updated}
      BY <1>4 DEF UpdateAlert
    <3>2. \A k \in Calls : updated[k] \in Alert
      BY <2>1 DEF DataTypeOK, Alert
    <3> QED
      BY <3>1, <3>2 DEF DataTypeOK
  <2>3. result' \in {result} \cup {[result EXCEPT ![c] = r] : r \in {"quiet", "error"}}
    BY <1>4 DEF UpdateAlert, AlertWritten, Return
  <2> QED
    BY <1>4, <2>2, <2>3 DEF UpdateAlert, Statement, DataTypeOK
<1>5. CASE InsertAlert(c)
  <2>1. Severity(seen[c]) \in {"High", "Critical"}
    BY DEF Severity
  <2>2. ev[c].source \in Sources \cup {NoSource}
    BY DEF DataTypeOK, Event
  <2> DEFINE row == [source |-> ev[c].source, severity |-> Severity(seen[c]),
                     status |-> "open"]
  <2>3. row \in Alert
    BY <2>1, <2>2 DEF Alert
  <2>4. \/ alerts' = alerts
        \/ alerts' = [alerts EXCEPT ![c] = row]
    BY <1>5 DEF InsertAlert
  <2>5. alerts' \in [Calls -> Alert]
    BY <2>3, <2>4 DEF DataTypeOK
  <2>6. result' \in {result} \cup {[result EXCEPT ![c] = r] : r \in {"quiet", "error"}}
    BY <1>5 DEF InsertAlert, AlertWritten, Return
  <2> QED
    BY <1>5, <2>5, <2>6 DEF InsertAlert, Statement, DataTypeOK
<1>6. CASE RevokeAgent(c)
  <2>1. now[c] \in 0..MaxTime
    BY DEF DataTypeOK
  <2>2. RevokedBy(ev[c].source, now[c]) \in [Agents -> {NotCut} \cup 0..MaxTime]
    BY <2>1 DEF RevokedBy, Registered, DataTypeOK
  <2> QED
    BY <1>6, <2>2 DEF RevokeAgent, Statement, Goto, Return, DataTypeOK
<1>7. CASE AgentExists(c)
  BY <1>7 DEF AgentExists, Statement, Goto, Return, DataTypeOK
<1> QED
  BY <1>1, <1>2, <1>3, <1>4, <1>5, <1>6, <1>7 DEF EngineStep

LEMMA EngineStepTypeOK ==
    ASSUME NEW c \in Calls, TypeOK, EngineStep(c)
    PROVE  TypeOK'
  BY EngineStepDataTypeOK, TypeOKShape, EngineStepFrame DEF TypeOK, Past

(* So does the call of Handle, and everything outside the handlers.        *)
LEMMA BeginDataTypeOK ==
    ASSUME NEW c \in Calls, NEW e \in Event, DataTypeOK, Begin(c, e)
    PROVE  DataTypeOK'
  BY DEF Begin, Return, DataTypeOK

LEMMA BeginTypeOK ==
    ASSUME NEW c \in Calls, NEW e \in Event, TypeOK, Begin(c, e)
    PROVE  TypeOK'
  BY BeginDataTypeOK DEF Begin, Goto, Return, TypeOK

LEMMA EnvironmentDataTypeOK == DataTypeOK /\ Environment => DataTypeOK'
<1> SUFFICES ASSUME DataTypeOK, Environment PROVE DataTypeOK'
  OBVIOUS
<1>1. ASSUME Tick \/ Crash \/ \E c \in Calls : HangUp(c),
             UNCHANGED <<trips, alerts, ev, now, seen, result>>
      PROVE  DataTypeOK'
  <2>1. gone' \subseteq Calls /\ clock' \in 0..MaxTime /\ revokedAt' = revokedAt
    BY <1>1, TimeAssumption DEF Tick, Crash, HangUp, DataTypeOK
  <2> QED
    BY <1>1, <2>1 DEF DataTypeOK
<1>2. ASSUME NEW k \in Calls, CloseAlert(k) PROVE DataTypeOK'
  <2>1. alerts' \in [Calls -> Alert]
    BY <1>2 DEF CloseAlert, DataTypeOK, Alert
  <2> QED
    BY <1>2, <2>1 DEF CloseAlert, DataTypeOK
<1> QED
  BY <1>1, <1>2 DEF Environment

LEMMA EnvironmentTypeOK == TypeOK /\ Environment => TypeOK'
  BY EnvironmentDataTypeOK
  DEF Environment, Tick, Crash, HangUp, CloseAlert, TypeOK

LEMMA NextTypeOK == TypeOK /\ [Next]_vars => TypeOK'
<1> SUFFICES ASSUME TypeOK, [Next]_vars PROVE TypeOK'
  OBVIOUS
<1>1. ASSUME NEW c \in Calls, Deliver(c) PROVE TypeOK'
  <2>1. PICK s \in Sources \cup {NoSource}, at \in 0..MaxTime :
          Begin(c, [id |-> c, source |-> s, at |-> at])
    BY <1>1 DEF Deliver
  <2>2. [id |-> c, source |-> s, at |-> at] \in Event
    BY TimeAssumption DEF Event
  <2> QED
    BY <2>1, <2>2, BeginTypeOK
<1>2. ASSUME NEW c \in Calls, Redeliver(c) PROVE TypeOK'
  <2>1. PICK d \in Calls : Begin(c, ev[d])
    BY <1>2 DEF Redeliver
  <2>2. ev[d] \in Event
    BY DEF TypeOK, DataTypeOK
  <2> QED
    BY <2>1, <2>2, BeginTypeOK
<1>3. ASSUME NEW c \in Calls, EngineStep(c) PROVE TypeOK'
  BY <1>3, EngineStepTypeOK
<1>4. CASE Environment
  BY <1>4, EnvironmentTypeOK
<1>5. CASE UNCHANGED vars
  BY <1>5 DEF vars, TypeOK, DataTypeOK
<1> QED
  BY <1>1, <1>2, <1>3, <1>4, <1>5 DEF Next, Rest

(* The engine's state is always of its type: every handler is at a statement
   of Handle, and what it stores are events, alerts and times.             *)
THEOREM TypeCorrect == Spec => []TypeOK
  BY InitTypeOK, NextTypeOK, PTL DEF Spec

-----------------------------------------------------------------------------
(* The inductive invariant behind NoCampaignEscapes and RevocationGrounded.
   It says where events come from, that a handler which is past its insert
   has its trip in the table, that of two handlers past their read one has
   seen the trips of both, and what a handler has done by its last steps.  *)

HasStored(c) == pc[c] \in Past \/ Completed(c)
HasRead(c) == pc[c] \in Past \ {"now", "trips"} \/ Completed(c)

(* A handler that has not been given its event yet.                        *)
Waiting(c) == pc[c] \in {"idle", "find", "status", "allowlist", "receipt", "record", "forward"}

EventsInv ==
    /\ \A c, d \in Calls :
          ev[c].source # NoSource /\ ev[d].source # NoSource /\ ev[c].id = ev[d].id
              => ev[c] = ev[d]
    /\ \A e \in trips : e.source # NoSource /\ \E c \in Calls : ev[c] = e
    /\ \A c, d \in Calls :
          ev[c].source = NoSource /\ ev[d].source # NoSource => ev[d].id # c
    /\ \A c \in Calls : Waiting(c) => ev[c].source = NoSource

HandlingInv ==
    /\ \A c \in Calls : pc[c] \in Past \cup {"insert"} => ev[c].source # NoSource
    /\ \A c \in Calls : result[c] # "none" => pc[c] \in {"handled", "denied", "dead"}
    /\ \A c \in Calls : HasStored(c) => ev[c] \in trips

ReadingInv ==
    /\ \A c \in Calls :
          HasRead(c) => \A e \in seen[c] : e \in trips /\ e.source = ev[c].source
    /\ \A c, d \in Calls :
          HasRead(c) /\ HasRead(d) /\ SameCampaign(c, d)
              => {ev[c], ev[d]} \subseteq seen[c] \/ {ev[c], ev[d]} \subseteq seen[d]

CuttingInv ==
    /\ \A c \in Calls : pc[c] \in {"revoke", "exists"} => IsCampaign(seen[c])
    /\ \A c \in Calls :
          pc[c] = "exists" /\ Registered(ev[c].source) => Revoked(ev[c].source)
    /\ \A c \in Calls : result[c] = "quiet" => ~IsCampaign(seen[c])
    /\ \A c \in Calls :
          result[c] = "revoked" => Registered(ev[c].source) /\ Revoked(ev[c].source)
    /\ \A c \in Calls : result[c] = "unregistered" => ~Registered(ev[c].source)

IInv == EventsInv /\ HandlingInv /\ ReadingInv /\ CuttingInv /\ RevocationGrounded

-----------------------------------------------------------------------------
(* A step of a handler preserves each part of the invariant.               *)

LEMMA EngineStepEvents ==
    ASSUME NEW c \in Calls, Shape, EngineStep(c), EventsInv, HandlingInv
    PROVE  EventsInv'
<1>1. ev' = ev
  BY EngineStepFrame
<1>2. \A d \in Calls : Waiting(d)' => Waiting(d)
  BY EngineStepFrame DEF Waiting, Past, Shape
<1>3. trips' \subseteq trips \cup {ev[c]}
  BY DEF EngineStep, InsertTripEvent, Recorded, ReadClock, TripsBySource,
         UpdateAlert, InsertAlert, RevokeAgent, AgentExists
<1>4. ev[c].source # NoSource
  BY EngineStepFrame DEF HandlingInv
<1> QED
  BY <1>1, <1>2, <1>3, <1>4 DEF EventsInv

LEMMA EngineStepHandling ==
    ASSUME NEW c \in Calls, Shape, EngineStep(c), EventsInv, HandlingInv
    PROVE  HandlingInv'
<1>1. \A d \in Calls : pc'[d] \in Past \cup {"insert"} => pc[d] \in Past \cup {"insert"}
  BY EngineStepFrame
<1>2. \A d \in Calls : result'[d] # "none" => pc'[d] \in {"handled", "denied", "dead"}
  <2>1. pc[c] \notin {"handled", "denied", "dead"}
    BY EngineStepFrame DEF Past
  <2>2. result[c] = "none"
    BY <2>1 DEF HandlingInv
  <2> QED
    BY <2>2, EngineStepFrame DEF HandlingInv
<1>3. ASSUME NEW d \in Calls, HasStored(d)' PROVE ev'[d] \in trips'
  <2>1. CASE d # c \/ HasStored(d)
    <3>1. HasStored(d)
      BY <1>3, <2>1, EngineStepFrame DEF HasStored, Completed
    <3> QED
      BY <3>1, EngineStepFrame DEF HandlingInv
  <2>2. CASE d = c /\ ~HasStored(d)
    <3>1. pc[c] = "insert"
      BY <2>2, EngineStepFrame DEF HasStored
    <3>2. InsertTripEvent(c)
      BY <3>1 DEF EngineStep, ReadClock, TripsBySource, UpdateAlert, InsertAlert,
                  RevokeAgent, AgentExists
    <3>3. trips' = Recorded(c)
      BY <1>3, <2>2, <3>2 DEF InsertTripEvent, HasStored, Completed, Goto, Return,
                              Past, Applied, Shape
    <3>4. ev[c] \in Recorded(c)
      <4>1. ev[c].source # NoSource
        BY <3>1 DEF HandlingInv
      <4> QED
        BY <4>1 DEF Recorded, EventsInv
    <3> QED
      BY <2>2, <3>3, <3>4, EngineStepFrame
  <2> QED
    BY <2>1, <2>2
<1> QED
  BY <1>1, <1>2, <1>3, EngineStepFrame DEF HandlingInv

(* A handler past its read either was there before the step or has just read
   the table, its own trip being in it.                                    *)
LEMMA EngineStepRead ==
    ASSUME NEW c \in Calls, Shape, EngineStep(c), HandlingInv,
           NEW d \in Calls, HasRead(d)'
    PROVE  /\ now'[d] = now[d]
           /\ \/ HasRead(d) /\ seen'[d] = seen[d]
              \/ d = c /\ HasStored(c) /\ seen'[c] = InWindow(ev[c].source, now[c])
<1>1. CASE d # c
  BY <1>1, EngineStepFrame DEF HasRead, Completed
<1>2. CASE d = c
  <2> USE DEF Shape, Goto, Return, Past, HasRead, HasStored, Completed
  <2>1. result[c] = "none"
    BY EngineStepFrame DEF HandlingInv
  <2>2. CASE InsertTripEvent(c)
    BY <1>2, <2>1, <2>2 DEF InsertTripEvent
  <2>3. CASE ReadClock(c)
    BY <1>2, <2>1, <2>3 DEF ReadClock
  <2>4. CASE TripsBySource(c)
    BY <1>2, <2>1, <2>4 DEF TripsBySource
  <2>5. CASE UpdateAlert(c)
    BY <1>2, <2>5 DEF UpdateAlert
  <2>6. CASE InsertAlert(c)
    BY <1>2, <2>6 DEF InsertAlert
  <2>7. CASE RevokeAgent(c)
    BY <1>2, <2>7 DEF RevokeAgent
  <2>8. CASE AgentExists(c)
    BY <1>2, <2>8 DEF AgentExists
  <2> QED
    BY <2>2, <2>3, <2>4, <2>5, <2>6, <2>7, <2>8 DEF EngineStep
<1> QED
  BY <1>1, <1>2

LEMMA EngineStepReading ==
    ASSUME NEW c \in Calls, Shape, EngineStep(c), HandlingInv, ReadingInv
    PROVE  ReadingInv'
<1>1. ev' = ev /\ trips \subseteq trips'
  BY EngineStepFrame
<1>2. ASSUME NEW d \in Calls, HasRead(d)', NEW e \in seen'[d]
      PROVE  e \in trips' /\ e.source = ev'[d].source
  BY <1>1, <1>2, EngineStepRead DEF ReadingInv, InWindow
<1>3. ASSUME NEW d \in Calls, NEW e \in Calls,
             HasRead(d)', HasRead(e)', SameCampaign(d, e)'
      PROVE  {ev'[d], ev'[e]} \subseteq seen'[d] \/ {ev'[d], ev'[e]} \subseteq seen'[e]
  <2>1. SameCampaign(d, e) /\ d # e
    BY <1>1, <1>3, EngineStepRead DEF SameCampaign
  <2>2. \A x \in {d, e} : HasRead(x) => ev[x] \in trips
    BY DEF HasRead, HasStored, HandlingInv
  <2>3. CASE HasRead(d) /\ seen'[d] = seen[d] /\ HasRead(e) /\ seen'[e] = seen[e]
    BY <1>1, <2>1, <2>3 DEF ReadingInv
  <2>4. CASE d = c /\ HasStored(c) /\ seen'[c] = InWindow(ev[c].source, now[c])
    <3>1. ev[c] \in trips /\ ev[e] \in trips
      BY <1>3, <2>1, <2>2, <2>4, EngineStepRead DEF HandlingInv
    <3> QED
      BY <1>1, <2>1, <2>4, <3>1 DEF SameCampaign, InWindow
  <2>5. CASE e = c /\ HasStored(c) /\ seen'[c] = InWindow(ev[c].source, now[c])
    <3>1. ev[c] \in trips /\ ev[d] \in trips
      BY <1>3, <2>1, <2>2, <2>5, EngineStepRead DEF HandlingInv
    <3> QED
      BY <1>1, <2>1, <2>5, <3>1 DEF SameCampaign, InWindow
  <2> QED
    BY <1>3, <2>3, <2>4, <2>5, EngineStepRead
<1> QED
  BY <1>2, <1>3 DEF ReadingInv

LEMMA EngineStepCutting ==
    ASSUME NEW c \in Calls, Shape, EngineStep(c), EventsInv, HandlingInv, CuttingInv
    PROVE  CuttingInv'
<1>1. ev' = ev
  BY EngineStepFrame
<1>2. \A d \in Calls : pc[d] = "exists" \/ Completed(d) => ev[d].source \in Sources
  <2>1. \A d \in Calls : pc[d] = "exists" \/ Completed(d) => ev[d].source # NoSource
    BY DEF HandlingInv, EventsInv, HasStored, Past
  <2> QED
    BY <2>1 DEF Shape, Event
<1>3. \A s \in Sources : Registered(s) /\ Revoked(s) => Revoked(s)'
  BY EngineStepFrame DEF Registered, Revoked
<1> DEFINE Cutting(d) ==
             /\ pc[d] \in {"revoke", "exists"} => IsCampaign(seen[d])
             /\ pc[d] = "exists" /\ Registered(ev[d].source) => Revoked(ev[d].source)
             /\ result[d] = "quiet" => ~IsCampaign(seen[d])
             /\ result[d] = "revoked" => Registered(ev[d].source) /\ Revoked(ev[d].source)
             /\ result[d] = "unregistered" => ~Registered(ev[d].source)
<1>4. \A d \in Calls : Cutting(d)
  BY DEF CuttingInv
<1>5. ASSUME NEW d \in Calls \ {c} PROVE Cutting(d)'
  <2>1. pc'[d] = pc[d] /\ result'[d] = result[d] /\ seen'[d] = seen[d] /\ ev'[d] = ev[d]
    BY <1>1, EngineStepFrame
  <2>2. Registered(ev[d].source)' <=> Registered(ev[d].source)
    BY <2>1 DEF Registered
  <2>3. Cutting(d)
    BY <1>4
  <2>4. (pc[d] = "exists" \/ result[d] = "revoked")
          /\ Registered(ev[d].source) /\ Revoked(ev[d].source) => Revoked(ev[d].source)'
    BY <1>1, <1>2, <1>3 DEF Completed
  <2> QED
    BY <2>1, <2>2, <2>3, <2>4 DEF IsCampaign
<1>6. Cutting(c)'
  <2>1. result[c] = "none"
    BY EngineStepFrame DEF HandlingInv, Past
  <2>2. Cutting(c)
    BY <1>4
  <2> USE DEF Shape, Goto, Return
  <2>3. CASE InsertTripEvent(c)
    BY <2>1, <2>3 DEF InsertTripEvent
  <2>4. CASE ReadClock(c)
    BY <2>1, <2>4 DEF ReadClock
  <2>5. CASE TripsBySource(c)
    BY <2>1, <2>5 DEF TripsBySource, IsCampaign
  <2>6. CASE UpdateAlert(c)
    BY <2>1, <2>6 DEF UpdateAlert, AlertWritten, Severity, IsCampaign
  <2>7. CASE InsertAlert(c)
    BY <2>1, <2>7 DEF InsertAlert, AlertWritten, Severity, IsCampaign
  <2>8. CASE RevokeAgent(c)
    <3> DEFINE s == ev[c].source
    <3>1. s \in Sources /\ now[c] \in Nat
      BY <2>8, EngineStepFrame DEF HandlingInv, Event, RevokeAgent
    <3>2. IsCampaign(seen'[c])
      BY <2>2, <2>8 DEF RevokeAgent, IsCampaign
    <3>3. pc'[c] = "exists" => result'[c] = "none" /\ (Registered(s) => Revoked(s)')
      BY <2>1, <2>8, <3>1, <1>3 DEF RevokeAgent
    <3>4. result'[c] = "revoked" => Registered(s) /\ Revoked(s)'
      <4>1. CASE Registered(s) /\ ~Revoked(s) /\ revokedAt' = RevokedBy(s, now[c])
        <5>1. revokedAt'[Row[s]] = now[c]
          BY <4>1 DEF RevokedBy, Registered
        <5> QED
          BY <1>1, <3>1, <4>1, <5>1 DEF Revoked, NotCut
      <4> QED
        BY <2>1, <2>8, <4>1 DEF RevokeAgent, Applied
    <3> QED
      BY <2>1, <2>8, <3>2, <3>3, <3>4, <1>1 DEF RevokeAgent, Registered
  <2>9. CASE AgentExists(c)
    BY <1>1, <1>2, <1>3, <2>1, <2>2, <2>9 DEF AgentExists, Registered, Revoked
  <2> QED
    BY <2>3, <2>4, <2>5, <2>6, <2>7, <2>8, <2>9 DEF EngineStep
<1> QED
  BY <1>5, <1>6 DEF CuttingInv

LEMMA EngineStepGrounded ==
    ASSUME NEW c \in Calls, Shape, EngineStep(c), IInv
    PROVE  RevocationGrounded'
<1>1. ev' = ev /\ trips \subseteq trips'
  BY EngineStepFrame
<1>2. ASSUME NEW a \in Agents, revokedAt'[a] # NotCut
      PROVE  \E d, e \in Calls : /\ ev[d].id # ev[e].id
                                 /\ ev[d].source = ev[e].source
                                 /\ ev[d].source \in Sources /\ Row[ev[d].source] = a
                                 /\ {ev[d], ev[e]} \subseteq trips
  <2>1. CASE revokedAt[a] # NotCut
    BY <2>1 DEF IInv, RevocationGrounded
  <2>2. CASE revokedAt[a] = NotCut
    <3> DEFINE s == ev[c].source
    <3>1. RevokeAgent(c) /\ revokedAt' = RevokedBy(s, now[c])
      BY <1>2, <2>2 DEF EngineStep, InsertTripEvent, ReadClock, TripsBySource,
                        UpdateAlert, InsertAlert, RevokeAgent, AgentExists
    <3>2. Row[s] = a
      BY <1>2, <2>2, <3>1 DEF RevokedBy, Registered, Shape
    <3>3. s \in Sources
      BY EngineStepFrame DEF IInv, HandlingInv, Shape, Event
    <3>4. PICK x, y \in seen[c] : x.id # y.id
      BY <3>1 DEF IInv, CuttingInv, IsCampaign, RevokeAgent
    <3>5. HasRead(c)
      BY <3>1 DEF RevokeAgent, HasRead, Past
    <3>6. /\ x \in trips /\ x.source = s
          /\ y \in trips /\ y.source = s
      BY <3>5 DEF IInv, ReadingInv
    <3>7. PICK d, e \in Calls : ev[d] = x /\ ev[e] = y
      BY <3>6 DEF IInv, EventsInv
    <3> QED
      BY <3>2, <3>3, <3>4, <3>6, <3>7
  <2> QED
    BY <2>1, <2>2
<1> QED
  BY <1>1, <1>2 DEF RevocationGrounded

(* A handler that is given its event, a fresh one or one delivered before,
   preserves the invariant.                                                *)
LEMMA BeginIInv ==
    ASSUME NEW c \in Calls, NEW e \in Event, Shape, IInv, Waiting(c),
           e.id = c \/ \E d \in Calls : e = ev[d],
           Begin(c, e)
    PROVE  IInv'
<1> USE DEF Begin, Goto, Return, Shape
<1>1. /\ ev' = [ev EXCEPT ![c] = e]
      /\ UNCHANGED <<gone, clock, revokedAt, trips, alerts, now, seen>>
      /\ \A d \in Calls \ {c} : pc'[d] = pc[d] /\ result'[d] = result[d]
      /\ pc'[c] \in {"insert", "handled"}
      /\ result'[c] \in {result[c], "error"}
      /\ pc'[c] = "insert" => e.source # NoSource /\ result'[c] = result[c]
  OBVIOUS
<1>2. ev[c].source = NoSource /\ result[c] = "none"
  BY DEF IInv, EventsInv, HandlingInv, Waiting
<1>3. EventsInv'
  BY <1>1, <1>2 DEF IInv, EventsInv, Waiting, Event
<1>4. ~HasStored(c)' /\ ~HasRead(c)'
  BY <1>1, <1>2 DEF HasStored, HasRead, Completed, Past
<1>5. \A d \in Calls \ {c} : /\ ev'[d] = ev[d]
                             /\ HasStored(d)' <=> HasStored(d)
                             /\ HasRead(d)' <=> HasRead(d)
  BY <1>1 DEF HasStored, HasRead, Completed
<1>6. HandlingInv'
  BY <1>1, <1>2, <1>4, <1>5 DEF IInv, HandlingInv, Past
<1>7. ReadingInv'
  BY <1>1, <1>4, <1>5 DEF IInv, ReadingInv, SameCampaign
<1>8. CuttingInv'
  BY <1>1, <1>2, <1>5 DEF IInv, CuttingInv, Registered, Revoked, IsCampaign
<1>9. RevocationGrounded'
  BY <1>1, <1>2, SourcesAssumption DEF IInv, RevocationGrounded
<1> QED
  BY <1>3, <1>6, <1>7, <1>8, <1>9 DEF IInv

(* Steps that move no handler of the engine forward leave what handlers have
   read, stored and returned: time, hang-ups, the end of the process, an
   operator, and all that happens to a call before it is denied or after.  *)
Idles(c) ==
    \/ pc'[c] = pc[c]
    \/ pc'[c] \in {"denied", "dead"}
    \/ Waiting(c) /\ (Waiting(c)' \/ pc'[c] \in {"released", "unsent", "handled"})

LEMMA QuietIInv ==
    ASSUME IInv,
           UNCHANGED <<revokedAt, trips, ev, now, seen, result>>,
           \A c \in Calls : Idles(c)
    PROVE  IInv'
<1>1. \A c \in Calls : /\ HasStored(c)' => HasStored(c)
                       /\ HasRead(c)' => HasRead(c)
                       /\ Waiting(c)' => Waiting(c)
                       /\ pc'[c] \in Past \cup {"insert"} => pc'[c] = pc[c]
  BY DEF HasStored, HasRead, Waiting, Completed, Past, Idles
<1>2. EventsInv'
  BY <1>1 DEF IInv, EventsInv
<1>3. HandlingInv'
  <2>1. \A c \in Calls : result'[c] # "none" => pc'[c] \in {"handled", "denied", "dead"}
    BY DEF IInv, HandlingInv, Idles, Waiting
  <2> QED
    BY <1>1, <2>1 DEF IInv, HandlingInv
<1>4. ReadingInv'
  BY <1>1 DEF IInv, ReadingInv, SameCampaign
<1>5. CuttingInv'
  BY <1>1 DEF IInv, CuttingInv, Registered, Revoked, IsCampaign, Past
<1>6. RevocationGrounded'
  BY DEF IInv, RevocationGrounded
<1> QED
  BY <1>2, <1>3, <1>4, <1>5, <1>6 DEF IInv

LEMMA EngineStepIInv ==
    ASSUME NEW c \in Calls, Shape, EngineStep(c), IInv
    PROVE  IInv'
  BY EngineStepEvents, EngineStepHandling, EngineStepReading, EngineStepCutting,
     EngineStepGrounded DEF IInv

LEMMA EnvironmentIInv == IInv /\ Environment => IInv'
<1> SUFFICES ASSUME IInv, Environment PROVE IInv'
  OBVIOUS
<1>1. UNCHANGED <<revokedAt, trips, ev, now, seen, result>>
  BY DEF Environment, Tick, Crash, HangUp, CloseAlert
<1>2. \A c \in Calls : Idles(c)
  BY DEF Environment, Tick, Crash, HangUp, CloseAlert, Idles
<1> QED
  BY <1>1, <1>2, QuietIInv

LEMMA InitIInv == Init => IInv
  BY SourcesAssumption
  DEF Init, StoreInit, EngineInit, IInv, EventsInv, HandlingInv, ReadingInv,
      CuttingInv, RevocationGrounded, HasStored, HasRead, Completed, Past, Waiting

LEMMA NextIInv == TypeOK /\ IInv /\ [Next]_vars => IInv'
<1> SUFFICES ASSUME TypeOK, IInv, [Next]_vars PROVE IInv'
  OBVIOUS
<1> USE TypeOKShape
<1>1. ASSUME NEW c \in Calls, Deliver(c) PROVE IInv'
  <2>1. PICK s \in Sources \cup {NoSource}, at \in 0..MaxTime :
          Begin(c, [id |-> c, source |-> s, at |-> at])
    BY <1>1 DEF Deliver
  <2>2. [id |-> c, source |-> s, at |-> at] \in Event
    BY TimeAssumption DEF Event
  <2>3. Waiting(c)
    BY <1>1 DEF Deliver, Waiting
  <2> QED
    BY <2>1, <2>2, <2>3, BeginIInv
<1>2. ASSUME NEW c \in Calls, Redeliver(c) PROVE IInv'
  <2>1. PICK d \in Calls : Begin(c, ev[d])
    BY <1>2 DEF Redeliver
  <2>2. ev[d] \in Event
    BY DEF TypeOK, DataTypeOK
  <2>3. Waiting(c)
    BY <1>2 DEF Redeliver, Waiting
  <2> QED
    BY <2>1, <2>2, <2>3, BeginIInv
<1>3. ASSUME NEW c \in Calls, EngineStep(c) PROVE IInv'
  BY <1>3, EngineStepIInv
<1>4. CASE Environment
  BY <1>4, EnvironmentIInv
<1>5. CASE UNCHANGED vars
  BY <1>5, QuietIInv DEF vars, Idles
<1> QED
  BY <1>1, <1>2, <1>3, <1>4, <1>5 DEF Next, Rest

(* The invariant holds in every reachable state of the engine.             *)
THEOREM Invariance == Spec => []IInv
<1>1. Spec => [](TypeOK /\ IInv)
  BY InitTypeOK, InitIInv, NextTypeOK, NextIInv, PTL DEF Spec
<1> QED
  BY <1>1, PTL

-----------------------------------------------------------------------------
(* Of two handlers that have both read, the one that read last has seen both
   trips; it found a campaign and did not return before the agent was cut. *)
LEMMA IInvNoEscape == IInv => NoCampaignEscapes
<1> SUFFICES ASSUME IInv, NEW c \in Calls, NEW d \in Calls,
                    Completed(c), Completed(d), SameCampaign(c, d),
                    Registered(ev[c].source)
             PROVE  Revoked(ev[c].source)
  BY DEF NoCampaignEscapes
<1>1. {ev[c], ev[d]} \subseteq seen[c] \/ {ev[c], ev[d]} \subseteq seen[d]
  BY DEF IInv, ReadingInv, HasRead
<1>2. PICK x \in {c, d} : IsCampaign(seen[x])
  BY <1>1 DEF IsCampaign, SameCampaign
<1>3. ev[x].source = ev[c].source
  BY DEF SameCampaign
<1>4. result[x] = "revoked"
  BY <1>2, <1>3 DEF IInv, CuttingInv, Completed
<1> QED
  BY <1>3, <1>4 DEF IInv, CuttingInv

(* No interleaving of any number of handlers lets a campaign escape: when the
   handlers of two trips of one source within the window have returned
   without an error, the agent it names is revoked.                        *)
THEOREM CampaignsNeverEscape == Spec => []NoCampaignEscapes
  BY Invariance, IInvNoEscape, PTL

(* No agent is ever revoked without two different stored observations of one
   of its names, whatever is redelivered, lost, or repeated.               *)
THEOREM RevocationsAreGrounded == Spec => []RevocationGrounded
<1>1. IInv => RevocationGrounded
  BY DEF IInv
<1> QED
  BY <1>1, Invariance, PTL

(* The moment of an agent's first revocation never changes.                *)
THEOREM FirstRevocationStays == Spec => FirstRevocationKept
<1> DEFINE Kept == \A a \in Agents : revokedAt[a] # NotCut => revokedAt'[a] = revokedAt[a]
<1>1. TypeOK /\ [Next]_vars => [Kept]_vars
  <2> SUFFICES ASSUME TypeOK, [Next]_vars PROVE Kept
    OBVIOUS
  <2> USE TypeOKShape
  <2>1. ASSUME NEW c \in Calls, EngineStep(c) PROVE Kept
    BY <2>1, EngineStepFrame
  <2>2. ASSUME NEW c \in Calls, Deliver(c) \/ Redeliver(c) PROVE Kept
    BY <2>2 DEF Deliver, Redeliver, Begin
  <2>3. CASE Environment
    BY <2>3 DEF Environment, Tick, Crash, HangUp, CloseAlert
  <2>4. CASE UNCHANGED vars
    BY <2>4 DEF vars
  <2> QED
    BY <2>1, <2>2, <2>3, <2>4 DEF Next, Rest
<1> QED
  BY <1>1, TypeCorrect, PTL DEF Spec, FirstRevocationKept

-----------------------------------------------------------------------------
(* What becomes of a handler that follows a stored trip: whatever happens to
   the other handler, it finds that trip when it reads.                    *)
InTime(c, e) == e.at >= now[c] - Window

Followed(c, d) ==
    /\ ev[d] \in trips
    /\ ev[d].source = ev[c].source /\ ev[d].id # ev[c].id
    /\ ev[c].source # NoSource
    /\ HasRead(c) => \A x \in {c, d} : InTime(c, ev[x]) => ev[x] \in seen[c]

LEMMA FollowsFollowed ==
    ASSUME IInv, NEW c \in Calls, NEW d \in Calls, Follows(c, d)
    PROVE  Followed(c, d)
<1>1. ev[c].source # NoSource /\ result[c] = "none"
  BY DEF Follows, IInv, HandlingInv
<1>2. ~HasRead(c)
  BY <1>1 DEF Follows, HasRead, Completed, Past
<1> QED
  BY <1>1, <1>2 DEF Follows, Followed

LEMMA EngineStepFollowed ==
    ASSUME NEW e \in Calls, Shape, IInv, EngineStep(e),
           NEW c \in Calls, NEW d \in Calls, Followed(c, d)
    PROVE  Followed(c, d)'
<1>1. ev' = ev /\ trips \subseteq trips'
  BY EngineStepFrame
<1>2. ASSUME HasRead(c)', NEW x \in {c, d}, InTime(c, ev[x])' PROVE ev[x] \in seen'[c]
  <2>1. now'[c] = now[c]
    BY <1>2, EngineStepRead DEF IInv
  <2>2. InTime(c, ev[x])
    BY <1>1, <1>2, <2>1 DEF InTime
  <2>3. CASE HasRead(c) /\ seen'[c] = seen[c]
    BY <2>2, <2>3 DEF Followed
  <2>4. CASE c = e /\ HasStored(e) /\ seen'[e] = InWindow(ev[e].source, now[e])
    <3>1. ev[x] \in trips /\ ev[x].source = ev[c].source
      BY <2>4 DEF Followed, IInv, HandlingInv
    <3> QED
      BY <2>2, <2>4, <3>1 DEF InTime, InWindow
  <2> QED
    BY <1>2, <2>3, <2>4, EngineStepRead DEF IInv
<1> QED
  BY <1>1, <1>2 DEF Followed

(* Beginnings and everything outside the handlers leave it alone.          *)
LEMMA BeginFollowed ==
    ASSUME NEW b \in Calls, NEW e \in Event, Shape, IInv, Waiting(b), Begin(b, e),
           NEW c \in Calls, NEW d \in Calls, Followed(c, d)
    PROVE  Followed(c, d)'
<1> USE DEF Begin, Goto, Return, Shape
<1>1. b # c /\ b # d
  BY DEF Followed, IInv, EventsInv
<1>2. /\ ev'[c] = ev[c] /\ ev'[d] = ev[d]
      /\ pc'[c] = pc[c] /\ result'[c] = result[c]
      /\ UNCHANGED <<trips, now, seen>>
  BY <1>1
<1> QED
  BY <1>2 DEF Followed, HasRead, Completed, InTime

LEMMA QuietFollowed ==
    ASSUME UNCHANGED <<trips, ev, now, seen, result>>, \A c \in Calls : Idles(c),
           NEW c \in Calls, NEW d \in Calls, Followed(c, d)
    PROVE  Followed(c, d)'
<1>1. HasRead(c)' => HasRead(c)
  BY DEF HasRead, Completed, Past, Idles, Waiting
<1> QED
  BY <1>1 DEF Followed, InTime

LEMMA EnvironmentFollowed ==
    ASSUME Environment, NEW c \in Calls, NEW d \in Calls, Followed(c, d)
    PROVE  Followed(c, d)'
<1>1. UNCHANGED <<trips, ev, now, seen, result>> /\ \A x \in Calls : Idles(x)
  BY DEF Environment, Tick, Crash, HangUp, CloseAlert, Idles
<1> QED
  BY <1>1, QuietFollowed

(* What NextTripCuts says of two handlers that follow one another.         *)
MadeUpFor(c, d) ==
    /\ Completed(c) /\ Registered(ev[c].source)
    /\ \A x \in {c, d} : ev[x].at >= now[c] - Window
    => Revoked(ev[c].source)

LEMMA FollowedMadeUpFor ==
    ASSUME IInv, NEW c \in Calls, NEW d \in Calls, Followed(c, d)
    PROVE  MadeUpFor(c, d)
<1> SUFFICES ASSUME Completed(c), Registered(ev[c].source),
                    \A x \in {c, d} : InTime(c, ev[x])
             PROVE  Revoked(ev[c].source)
  BY DEF MadeUpFor, InTime
<1>1. {ev[c], ev[d]} \subseteq seen[c]
  BY DEF Followed, HasRead
<1>2. IsCampaign(seen[c])
  BY <1>1 DEF IsCampaign, Followed
<1> QED
  BY <1>2 DEF IInv, CuttingInv, Completed

LEMMA NextFollowed ==
    ASSUME TypeOK, IInv, [Next]_vars,
           NEW c \in Calls, NEW d \in Calls, Followed(c, d)
    PROVE  Followed(c, d)'
<1> USE TypeOKShape
<1>1. ASSUME NEW b \in Calls, Deliver(b) \/ Redeliver(b) PROVE Followed(c, d)'
  <2>1. CASE Deliver(b)
    <3>1. PICK s \in Sources \cup {NoSource}, at \in 0..MaxTime :
            Begin(b, [id |-> b, source |-> s, at |-> at])
      BY <2>1 DEF Deliver
    <3>2. [id |-> b, source |-> s, at |-> at] \in Event
      BY TimeAssumption DEF Event
    <3>3. Waiting(b)
      BY <2>1 DEF Deliver, Waiting
    <3> QED
      BY <3>1, <3>2, <3>3, BeginFollowed
  <2>2. CASE Redeliver(b)
    <3>1. PICK e \in Calls : Begin(b, ev[e])
      BY <2>2 DEF Redeliver
    <3>2. ev[e] \in Event
      BY DEF TypeOK, DataTypeOK
    <3>3. Waiting(b)
      BY <2>2 DEF Redeliver, Waiting
    <3> QED
      BY <3>1, <3>2, <3>3, BeginFollowed
  <2> QED
    BY <1>1, <2>1, <2>2
<1>2. ASSUME NEW b \in Calls, EngineStep(b) PROVE Followed(c, d)'
  BY <1>2, EngineStepFollowed
<1>3. CASE Environment
  BY <1>3, EnvironmentFollowed
<1>4. CASE UNCHANGED vars
  BY <1>4, QuietFollowed DEF vars, Idles
<1> QED
  BY <1>1, <1>2, <1>3, <1>4 DEF Next, Rest

(* A campaign that no handler finished, because of failures, hang-ups or the
   end of the process, is made up for by the next trip of its source.      *)
THEOREM NextTripAlwaysCuts == Spec => NextTripCuts
<1>1. ASSUME NEW c \in Calls, NEW d \in Calls \ {c}
      PROVE  Spec => [](Follows(c, d) => []MadeUpFor(c, d))
  <2>1. IInv /\ Follows(c, d) => Followed(c, d)
    BY FollowsFollowed
  <2>2. TypeOK /\ IInv /\ Followed(c, d) /\ [Next]_vars => Followed(c, d)'
    BY NextFollowed
  <2>3. IInv /\ Followed(c, d) => MadeUpFor(c, d)
    BY FollowedMadeUpFor
  <2> QED
    BY <2>1, <2>2, <2>3, TypeCorrect, Invariance, PTL DEF Spec
<1> QED
  BY <1>1 DEF NextTripCuts, MadeUpFor
=============================================================================
