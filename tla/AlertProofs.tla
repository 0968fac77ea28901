---------------------------- MODULE AlertProofs ----------------------------
(***************************************************************************)
(* What the engine tells about its revocations, proved for every number of *)
(* handlers, sources and agents and for every window: the dates agree with *)
(* the evidence, Critical alerts have their grounds, and no trip is        *)
(* handled without an alert.                                               *)
(***************************************************************************)
EXTENDS EnforceProofs

-----------------------------------------------------------------------------
(* The trips that a handler has read lie in the window of its now.         *)
WindowInv ==
    \A c \in Calls : HasRead(c) => \A e \in seen[c] : e.at >= now[c] - Window

TimelyInv == WindowInv /\ RevocationTimely

LEMMA EngineStepWindow ==
    ASSUME NEW c \in Calls, Shape, EngineStep(c), HandlingInv, WindowInv
    PROVE  WindowInv'
<1> SUFFICES ASSUME NEW d \in Calls, HasRead(d)', NEW e \in seen'[d]
             PROVE  e.at >= now'[d] - Window
  BY DEF WindowInv
<1>1. CASE HasRead(d) /\ seen'[d] = seen[d]
  BY <1>1, EngineStepRead DEF WindowInv
<1>2. CASE d = c /\ seen'[c] = InWindow(ev[c].source, now[c])
  BY <1>2, EngineStepRead DEF InWindow
<1> QED
  BY <1>1, <1>2, EngineStepRead

(* An agent that is cut by this step is cut for two trips that its handler
   has read.                                                               *)
LEMMA EngineStepTimely ==
    ASSUME NEW c \in Calls, Shape, EngineStep(c), IInv, TimelyInv
    PROVE  RevocationTimely'
<1>1. trips \subseteq trips'
  BY EngineStepFrame
<1>2. ASSUME NEW a \in Agents, revokedAt'[a] # NotCut
      PROVE  \E e, f \in trips : /\ e.id # f.id
                                 /\ e.source = f.source
                                 /\ e.source \in Sources /\ Row[e.source] = a
                                 /\ e.at >= revokedAt'[a] - Window
                                 /\ f.at >= revokedAt'[a] - Window
  <2>1. CASE revokedAt[a] # NotCut
    BY <2>1, EngineStepFrame DEF TimelyInv, RevocationTimely
  <2>2. CASE revokedAt[a] = NotCut
    <3> DEFINE s == ev[c].source
    <3>1. RevokeAgent(c) /\ revokedAt' = RevokedBy(s, now[c])
      BY <1>2, <2>2 DEF EngineStep, InsertTripEvent, ReadClock, TripsBySource,
                        UpdateAlert, InsertAlert, RevokeAgent, AgentExists
    <3>2. Row[s] = a /\ revokedAt'[a] = now[c]
      BY <1>2, <2>2, <3>1 DEF RevokedBy, Registered, Shape
    <3>3. s \in Sources
      BY EngineStepFrame DEF IInv, HandlingInv, Shape, Event
    <3>4. PICK x, y \in seen[c] : x.id # y.id
      BY <3>1 DEF IInv, CuttingInv, IsCampaign, RevokeAgent
    <3>5. HasRead(c)
      BY <3>1 DEF RevokeAgent, HasRead, Past
    <3>6. /\ x \in trips /\ x.source = s
          /\ y \in trips /\ y.source = s
      BY <3>5 DEF IInv, ReadingInv
    <3>7. x.at >= now[c] - Window /\ y.at >= now[c] - Window
      BY <3>5 DEF TimelyInv, WindowInv
    <3> QED
      BY <3>2, <3>3, <3>4, <3>6, <3>7
  <2> QED
    BY <2>1, <2>2
<1> QED
  BY <1>1, <1>2 DEF RevocationTimely

-----------------------------------------------------------------------------
(* The row that a handler inserted is of its own source, and a handler that
   has written its alert, or is done with a trip it has read, has left one.*)
Alerted(s) == \E k \in Calls : alerts[k].source = s

AlertedInv ==
    /\ \A k \in Calls : alerts[k].source \in {NoSource, ev[k].source}
    /\ \A c \in Calls :
          \/ pc[c] \in {"revoke", "exists"}
          \/ Completed(c) /\ ev[c] \in seen[c]
          => Alerted(ev[c].source)

AlertsShape == alerts \in [Calls -> Alert]

(* No step of a handler takes the last alert of a source away.             *)
LEMMA EngineStepAlerts ==
    ASSUME NEW c \in Calls, Shape, AlertsShape, EngineStep(c), IInv, AlertedInv
    PROVE  /\ \A k \in Calls : alerts'[k].source \in {NoSource, ev[k].source}
           /\ \A s \in Sources : Alerted(s) => Alerted(s)'
<1>1. ev[c].source \in Sources
  BY EngineStepFrame DEF IInv, HandlingInv, Shape, Event
<1> USE DEF Shape, AlertsShape
<1>2. CASE UpdateAlert(c)
  <2>1. \A k \in Calls : alerts'[k].source = alerts[k].source
    BY <1>2 DEF UpdateAlert, Alert
  <2> QED
    BY <2>1 DEF AlertedInv, Alerted
<1>3. CASE InsertAlert(c)
  <2>1. \A k \in Calls : \/ alerts'[k].source = alerts[k].source
                         \/ k = c /\ alerts'[k].source = ev[c].source
    BY <1>3 DEF InsertAlert
  <2> QED
    BY <2>1, <1>1, SourcesAssumption DEF AlertedInv, Alerted
<1>4. CASE alerts' = alerts
  BY <1>4 DEF AlertedInv, Alerted
<1> QED
  BY <1>2, <1>3, <1>4 DEF EngineStep, InsertTripEvent, ReadClock, TripsBySource,
                          RevokeAgent, AgentExists

(* The handler reaches its revocation, or a quiet end after it has read its
   trip, through one of the two statements of UpsertAlert.                 *)
LEMMA EngineStepLeavesAlert ==
    ASSUME NEW c \in Calls, Shape, AlertsShape, EngineStep(c), IInv, AlertedInv,
           \/ pc'[c] \in {"revoke", "exists"}
           \/ Completed(c)' /\ ev[c] \in seen'[c]
    PROVE  Alerted(ev[c].source)'
<1>1. ev' = ev /\ ev[c].source \in Sources
  BY EngineStepFrame DEF IInv, HandlingInv, Shape, Event
<1>2. result[c] = "none"
  BY EngineStepFrame DEF IInv, HandlingInv, Past
<1> USE DEF Shape, AlertsShape, Goto, Return, Completed
<1>3. CASE InsertTripEvent(c)
  BY <1>2, <1>3 DEF InsertTripEvent
<1>4. CASE ReadClock(c)
  BY <1>2, <1>4 DEF ReadClock
<1>5. CASE TripsBySource(c)
  BY <1>2, <1>5 DEF TripsBySource
<1>6. CASE UpdateAlert(c)
  <2>1. OpenAlerts(ev[c].source) # {}
    BY <1>2, <1>6 DEF UpdateAlert
  <2>2. Alerted(ev[c].source)
    BY <2>1 DEF OpenAlerts, Alerted
  <2> QED
    BY <1>1, <2>2, EngineStepAlerts DEF Alerted
<1>7. CASE InsertAlert(c)
  <2>1. alerts'[c].source = ev[c].source
    BY <1>2, <1>7 DEF InsertAlert, Applied
  <2> QED
    BY <1>1, <2>1 DEF Alerted
<1>8. CASE RevokeAgent(c) \/ AgentExists(c)
  <2>1. Alerted(ev[c].source)
    BY <1>8 DEF AlertedInv, RevokeAgent, AgentExists
  <2> QED
    BY <1>1, <2>1, EngineStepAlerts DEF Alerted
<1> QED
  BY <1>3, <1>4, <1>5, <1>6, <1>7, <1>8 DEF EngineStep

LEMMA EngineStepAlerted ==
    ASSUME NEW c \in Calls, Shape, AlertsShape, EngineStep(c), IInv, AlertedInv
    PROVE  AlertedInv'
<1>1. ev' = ev
  BY EngineStepFrame
<1>2. ASSUME NEW d \in Calls,
             \/ pc'[d] \in {"revoke", "exists"}
             \/ Completed(d)' /\ ev[d] \in seen'[d]
      PROVE  Alerted(ev[d].source)'
  <2>1. CASE d = c
    BY <1>2, <2>1, EngineStepLeavesAlert
  <2>2. CASE d # c
    <3>1. pc[d] \in {"revoke", "exists"} \/ (Completed(d) /\ ev[d] \in seen[d])
      <4>1. pc'[d] = pc[d] /\ result'[d] = result[d] /\ seen'[d] = seen[d]
        BY <2>2, EngineStepFrame
      <4> QED
        BY <1>2, <4>1 DEF Completed
    <3>2. ev[d].source \in Sources
      BY <3>1 DEF IInv, HandlingInv, EventsInv, HasStored, Past, Shape, Event
    <3> QED
      BY <1>1, <3>1, <3>2, EngineStepAlerts DEF AlertedInv, Alerted
  <2> QED
    BY <2>1, <2>2
<1>3. \A d \in Calls : Completed(d)' /\ ev'[d] \in seen'[d] => Completed(d)' /\ ev[d] \in seen'[d]
  BY <1>1
<1> QED
  BY <1>1, <1>2, <1>3, EngineStepAlerts DEF AlertedInv, Alerted

(* A Critical row is written by a handler that has read two trips of the
   row's source.                                                           *)
LEMMA EngineStepCritical ==
    ASSUME NEW c \in Calls, Shape, AlertsShape, EngineStep(c), IInv, CriticalGrounded
    PROVE  CriticalGrounded'
<1> USE DEF Shape, AlertsShape
<1>1. trips \subseteq trips'
  BY EngineStepFrame
<1>2. ASSUME NEW k \in Calls, alerts'[k].severity = "Critical"
      PROVE  IsCampaign({e \in trips : e.source = alerts'[k].source})
  <2>1. CASE alerts'[k] = alerts[k]
    BY <1>2, <2>1 DEF CriticalGrounded
  <2>2. CASE alerts'[k] # alerts[k]
    <3>1. /\ pc[c] \in {"alert", "newalert"}
          /\ alerts'[k].source = ev[c].source
          /\ alerts'[k].severity = Severity(seen[c])
      <4>1. CASE UpdateAlert(c)
        BY <2>2, <4>1 DEF UpdateAlert, OpenAlerts, Alert
      <4>2. CASE InsertAlert(c)
        BY <2>2, <4>2 DEF InsertAlert
      <4> QED
        BY <2>2, <4>1, <4>2 DEF EngineStep, InsertTripEvent, ReadClock, TripsBySource,
                                RevokeAgent, AgentExists
    <3>2. IsCampaign(seen[c])
      BY <1>2, <3>1 DEF Severity
    <3>3. \A e \in seen[c] : e \in trips /\ e.source = ev[c].source
      BY <3>1 DEF IInv, ReadingInv, HasRead, Past
    <3> QED
      BY <3>1, <3>2, <3>3 DEF IsCampaign
  <2> QED
    BY <2>1, <2>2
<1> QED
  BY <1>1, <1>2 DEF CriticalGrounded, IsCampaign

-----------------------------------------------------------------------------
ReportInv == TimelyInv /\ AlertedInv /\ CriticalGrounded

LEMMA InitReportInv == Init => ReportInv
  BY SourcesAssumption
  DEF Init, StoreInit, EngineInit, ReportInv, TimelyInv, WindowInv, RevocationTimely,
      AlertedInv, CriticalGrounded, NoAlert, HasRead, Past, Completed

(* A handler that is given its event has read and written nothing.         *)
LEMMA BeginReportInv ==
    ASSUME NEW c \in Calls, NEW e \in Event, Shape, IInv, ReportInv, Waiting(c),
           Begin(c, e)
    PROVE  ReportInv'
<1> USE DEF Begin, Goto, Return, Shape
<1>1. /\ ev' = [ev EXCEPT ![c] = e]
      /\ UNCHANGED <<revokedAt, trips, alerts, now, seen>>
      /\ \A d \in Calls \ {c} : pc'[d] = pc[d] /\ result'[d] = result[d]
      /\ pc'[c] \in {"insert", "handled"}
      /\ result'[c] \in {result[c], "error"}
  OBVIOUS
<1>2. ev[c].source = NoSource /\ result[c] = "none"
  BY DEF IInv, EventsInv, HandlingInv, Waiting
<1>3. ~HasRead(c)' /\ ~Completed(c)'
  BY <1>1, <1>2 DEF HasRead, Completed, Past
<1>4. \A d \in Calls \ {c} : /\ ev'[d] = ev[d]
                             /\ HasRead(d)' <=> HasRead(d)
                             /\ Completed(d)' <=> Completed(d)
  BY <1>1 DEF HasRead, Completed
<1>5. TimelyInv'
  BY <1>1, <1>3, <1>4 DEF ReportInv, TimelyInv, WindowInv, RevocationTimely
<1>6. AlertedInv'
  BY <1>1, <1>2, <1>3, <1>4 DEF ReportInv, AlertedInv, Alerted
<1>7. CriticalGrounded'
  BY <1>1 DEF ReportInv, CriticalGrounded, IsCampaign
<1> QED
  BY <1>5, <1>6, <1>7 DEF ReportInv

(* Steps that move no handler forward, and operators who close alerts.     *)
LEMMA QuietReportInv ==
    ASSUME ReportInv,
           UNCHANGED <<revokedAt, trips, ev, now, seen, result>>,
           \A k \in Calls : /\ alerts'[k].source = alerts[k].source
                            /\ alerts'[k].severity = alerts[k].severity,
           \A c \in Calls : Idles(c)
    PROVE  ReportInv'
<1>1. \A c \in Calls : /\ HasRead(c)' => HasRead(c)
                       /\ pc'[c] \in Past => pc'[c] = pc[c]
                       /\ Completed(c)' <=> Completed(c)
  BY DEF HasRead, Completed, Past, Idles, Waiting
<1>2. TimelyInv'
  BY <1>1 DEF ReportInv, TimelyInv, WindowInv, RevocationTimely
<1>3. AlertedInv'
  BY <1>1 DEF ReportInv, AlertedInv, Alerted, Past
<1>4. CriticalGrounded'
  BY DEF ReportInv, CriticalGrounded, IsCampaign
<1> QED
  BY <1>2, <1>3, <1>4 DEF ReportInv

LEMMA EngineStepReportInv ==
    ASSUME NEW c \in Calls, Shape, AlertsShape, EngineStep(c), IInv, ReportInv
    PROVE  ReportInv'
  BY EngineStepWindow, EngineStepTimely, EngineStepAlerted, EngineStepCritical
  DEF ReportInv, TimelyInv, IInv

LEMMA EnvironmentReportInv == AlertsShape /\ ReportInv /\ Environment => ReportInv'
<1> SUFFICES ASSUME AlertsShape, ReportInv, Environment PROVE ReportInv'
  OBVIOUS
<1>1. UNCHANGED <<revokedAt, trips, ev, now, seen, result>>
  BY DEF Environment, Tick, Crash, HangUp, CloseAlert
<1>2. \A c \in Calls : Idles(c)
  BY DEF Environment, Tick, Crash, HangUp, CloseAlert, Idles
<1>3. \A k \in Calls : /\ alerts'[k].source = alerts[k].source
                       /\ alerts'[k].severity = alerts[k].severity
  BY DEF Environment, Tick, Crash, HangUp, CloseAlert, AlertsShape, Alert
<1> QED
  BY <1>1, <1>2, <1>3, QuietReportInv

LEMMA NextReportInv == TypeOK /\ IInv /\ ReportInv /\ [Next]_vars => ReportInv'
<1> SUFFICES ASSUME TypeOK, IInv, ReportInv, [Next]_vars PROVE ReportInv'
  OBVIOUS
<1>0. Shape /\ AlertsShape
  BY TypeOKShape DEF TypeOK, DataTypeOK, AlertsShape
<1>1. ASSUME NEW c \in Calls, Deliver(c) PROVE ReportInv'
  <2>1. PICK s \in Sources \cup {NoSource}, at \in 0..MaxTime :
          Begin(c, [id |-> c, source |-> s, at |-> at])
    BY <1>1 DEF Deliver
  <2>2. [id |-> c, source |-> s, at |-> at] \in Event
    BY TimeAssumption DEF Event
  <2>3. Waiting(c)
    BY <1>1 DEF Deliver, Waiting
  <2> QED
    BY <1>0, <2>1, <2>2, <2>3, BeginReportInv
<1>2. ASSUME NEW c \in Calls, Redeliver(c) PROVE ReportInv'
  <2>1. PICK d \in Calls : Begin(c, ev[d])
    BY <1>2 DEF Redeliver
  <2>2. ev[d] \in Event
    BY DEF TypeOK, DataTypeOK
  <2>3. Waiting(c)
    BY <1>2 DEF Redeliver, Waiting
  <2> QED
    BY <1>0, <2>1, <2>2, <2>3, BeginReportInv
<1>3. ASSUME NEW c \in Calls, EngineStep(c) PROVE ReportInv'
  BY <1>0, <1>3, EngineStepReportInv
<1>4. CASE Environment
  BY <1>0, <1>4, EnvironmentReportInv
<1>5. CASE UNCHANGED vars
  BY <1>5, QuietReportInv DEF vars, Idles
<1> QED
  BY <1>1, <1>2, <1>3, <1>4, <1>5 DEF Next, Rest

(* The invariant that follows each handler's alert holds in every reachable
   state of the engine.                                                    *)
THEOREM ReportInvariance == Spec => []ReportInv
<1>1. Spec => [](TypeOK /\ IInv)
  BY TypeCorrect, Invariance, PTL
<1> QED
  BY <1>1, InitReportInv, NextReportInv, PTL DEF Spec

(* The trips that an agent is cut for lie within the window before its
   revoked_at, in whatever order sensors and handlers read their clocks.   *)
THEOREM RevocationsAreTimely == Spec => []RevocationTimely
<1>1. ReportInv => RevocationTimely
  BY DEF ReportInv, TimelyInv
<1> QED
  BY <1>1, ReportInvariance, PTL

(* Every Critical alert has two different stored trips of its source behind
   it, also when several handlers and operators write its row.             *)
THEOREM CriticalsAreGrounded == Spec => []CriticalGrounded
<1>1. ReportInv => CriticalGrounded
  BY DEF ReportInv
<1> QED
  BY <1>1, ReportInvariance, PTL

(* No trip that was handled without an error goes without an alert of its
   source, whichever alerts of it were closed before or meanwhile.         *)
THEOREM TripsRaiseAlerts == Spec => []TripRaisesAlert
<1>1. ReportInv => TripRaisesAlert
  BY DEF ReportInv, AlertedInv, Alerted, TripRaisesAlert
<1> QED
  BY <1>1, ReportInvariance, PTL
-----------------------------------------------------------------------------
(* Each step of the engine as a step of Verdicts.                          *)

(* Sources without an alert of theirs have none after a step that writes no
   alert.                                                                  *)
LEMMA WarnedStays ==
    ASSUME \A k \in Calls : alerts'[k].source = alerts[k].source
    PROVE  Warned' = Warned
  BY DEF Warned

LEMMA JudgesNothing ==
    ASSUME UNCHANGED <<trips, revokedAt>>,
           \A k \in Calls : alerts'[k].source = alerts[k].source
    PROVE  UNCHANGED Verdict!verdictVars
  BY WarnedStays DEF Verdict!verdictVars

(* A trip that is stored has a source and an id that no stored trip has.   *)
LEMMA InsertRecords ==
    ASSUME NEW c \in Calls, Shape, InsertTripEvent(c), IInv
    PROVE  Verdict!Record \/ UNCHANGED Verdict!verdictVars
<1>1. UNCHANGED <<revokedAt, alerts>> /\ Warned' = Warned
  BY WarnedStays DEF InsertTripEvent
<1>2. PICK o \in Outcomes(c) : trips' = IF Applied(o) THEN Recorded(c) ELSE trips
  BY DEF InsertTripEvent
<1>3. CASE trips' = trips
  BY <1>1, <1>3, JudgesNothing
<1>4. CASE trips' = trips \cup {ev[c]} /\ \A e \in trips : e.id # ev[c].id
  <2>1. ev[c] \in Verdict!Observed
    BY DEF InsertTripEvent, IInv, HandlingInv, Shape, Event, Past, Verdict!Observed
  <2> QED
    BY <1>1, <1>4, <2>1 DEF Verdict!Record
<1> QED
  BY <1>2, <1>3, <1>4 DEF Recorded

(* An alert is inserted by a handler that has stored a trip of its source. *)
LEMMA InsertWarns ==
    ASSUME NEW c \in Calls, Shape, AlertsShape, InsertAlert(c), IInv, AlertedInv
    PROVE  Verdict!Warn \/ UNCHANGED Verdict!verdictVars
<1> USE DEF Shape, AlertsShape
<1>1. UNCHANGED <<revokedAt, trips>>
  BY DEF InsertAlert
<1>2. CASE alerts' = alerts
  BY <1>1, <1>2, JudgesNothing
<1>3. CASE alerts'[c].source = ev[c].source
           /\ \A k \in Calls \ {c} : alerts'[k] = alerts[k]
  <2>1. ev[c] \in trips /\ ev[c].source \in Sources
    BY DEF InsertAlert, IInv, EventsInv, HandlingInv, HasStored, Past, Event
  <2>2. alerts[c].source \in {NoSource, ev[c].source}
    BY DEF AlertedInv
  <2>3. Warned' = Warned \cup {ev[c].source}
    BY <1>3, <2>1, <2>2, SourcesAssumption DEF Warned
  <2> QED
    BY <1>1, <2>1, <2>3 DEF Verdict!Warn
<1> QED
  BY <1>2, <1>3 DEF InsertAlert

(* An agent is cut by a handler that has read two trips of its source within
   the window and has left an alert.                                       *)
LEMMA RevokeCuts ==
    ASSUME NEW c \in Calls, Shape, RevokeAgent(c), IInv, ReportInv
    PROVE  (\E a \in Agents : Verdict!Cut(a)) \/ UNCHANGED Verdict!verdictVars
<1> DEFINE s == ev[c].source
<1>1. UNCHANGED <<trips, alerts>> /\ Warned' = Warned /\ pc[c] = "revoke"
  BY WarnedStays DEF RevokeAgent
<1>2. CASE revokedAt' = revokedAt
  BY <1>1, <1>2, JudgesNothing
<1>3. CASE Registered(s) /\ ~Revoked(s) /\ revokedAt' = [revokedAt EXCEPT ![Row[s]] = now[c]]
  <2> DEFINE a == Row[s]
  <2>1. a \in Agents /\ revokedAt[a] = NotCut /\ revokedAt'[a] = now[c]
    BY <1>3 DEF Registered, Revoked, Shape
  <2>2. s \in Sources /\ HasRead(c)
    BY <1>1 DEF IInv, HandlingInv, Shape, Event, HasRead, Past
  <2>3. PICK x, y \in seen[c] : x.id # y.id
    BY <1>1 DEF IInv, CuttingInv, IsCampaign
  <2>4. /\ x \in trips /\ x.source = s
        /\ y \in trips /\ y.source = s
    BY <2>2 DEF IInv, ReadingInv
  <2>5. x.at >= now[c] - Window /\ y.at >= now[c] - Window
    BY <2>2 DEF ReportInv, TimelyInv, WindowInv
  <2>6. s \in Warned
    <3>1. PICK k \in Calls : alerts[k].source = s
      BY <1>1 DEF ReportInv, AlertedInv, Alerted
    <3> QED
      BY <2>2, <3>1, SourcesAssumption DEF Warned
  <2>7. Verdict!Offence(a, now[c])
    BY <2>3, <2>4, <2>5, <2>6 DEF Verdict!Offence
  <2>8. now[c] \in Int
    BY <2>1 DEF Shape
  <2>9. Verdict!Cut(a)
    BY <1>1, <1>3, <2>1, <2>7, <2>8 DEF Verdict!Cut
  <2> QED
    BY <2>1, <2>9
<1> QED
  BY <1>2, <1>3 DEF RevokeAgent, RevokedBy

LEMMA EngineStepJudges ==
    ASSUME NEW c \in Calls, Shape, AlertsShape, EngineStep(c), IInv, ReportInv
    PROVE  Verdict!VerdictNext \/ UNCHANGED Verdict!verdictVars
<1> USE DEF Verdict!VerdictNext
<1>1. CASE InsertTripEvent(c)
  BY <1>1, InsertRecords
<1>2. CASE UpdateAlert(c)
  <2>1. \A k \in Calls : alerts'[k].source = alerts[k].source
    BY <1>2 DEF UpdateAlert, Alert, AlertsShape
  <2> QED
    BY <1>2, <2>1, JudgesNothing DEF UpdateAlert
<1>3. CASE InsertAlert(c)
  BY <1>3, InsertWarns DEF ReportInv
<1>4. CASE RevokeAgent(c)
  BY <1>4, RevokeCuts
<1>5. CASE ReadClock(c) \/ TripsBySource(c) \/ AgentExists(c)
  BY <1>5, JudgesNothing DEF ReadClock, TripsBySource, AgentExists
<1> QED
  BY <1>1, <1>2, <1>3, <1>4, <1>5 DEF EngineStep

(* What else happens to the tables is an operator who closes an alert.     *)
LEMMA EnvironmentJudges ==
    ASSUME AlertsShape, Environment
    PROVE  UNCHANGED Verdict!verdictVars
<1>1. \A k \in Calls : alerts'[k].source = alerts[k].source
  BY DEF Environment, Tick, Crash, HangUp, CloseAlert, AlertsShape, Alert
<1> QED
  BY <1>1, JudgesNothing DEF Environment, Tick, Crash, HangUp, CloseAlert

LEMMA InitVerdicts == Init => Verdict!VerdictInit
  BY DEF Init, StoreInit, EngineInit, NoAlert, Warned, Verdict!VerdictInit

LEMMA NextVerdicts ==
    TypeOK /\ IInv /\ ReportInv /\ [Next]_vars
        => [Verdict!VerdictNext]_(Verdict!verdictVars)
<1> SUFFICES ASSUME TypeOK, IInv, ReportInv, [Next]_vars
             PROVE  Verdict!VerdictNext \/ UNCHANGED Verdict!verdictVars
  OBVIOUS
<1>1. Shape /\ AlertsShape
  BY TypeOKShape DEF TypeOK, DataTypeOK, AlertsShape
<1>2. ASSUME NEW c \in Calls, Deliver(c) \/ Redeliver(c)
      PROVE  UNCHANGED Verdict!verdictVars
  BY <1>2, JudgesNothing DEF Deliver, Redeliver, Begin
<1>3. CASE UNCHANGED vars
  BY <1>3, JudgesNothing DEF vars
<1> QED
  BY <1>1, <1>2, <1>3, EngineStepJudges, EnvironmentJudges DEF Next, Rest

(* The engine implements Verdicts: however many handlers race, fail, die or
   handle an event again, every trip is stored once and for good, and every
   revocation is the first of its agent, rests on two stored trips of one
   source within the window, and comes after the alert.                    *)
THEOREM EngineKeepsToVerdicts == Spec => KeepsToVerdicts
<1>1. Spec => [](TypeOK /\ IInv /\ ReportInv)
  BY TypeCorrect, Invariance, ReportInvariance, PTL
<1> QED
  BY <1>1, InitVerdicts, NextVerdicts, PTL DEF Spec, KeepsToVerdicts, Verdict!VerdictSpec
=============================================================================
