---------------------------- MODULE SensorProofs ----------------------------
(***************************************************************************)
(* What module Sensors is checked for on small instances, proved for every *)
(* number of observations, traps, tools and agents.  The engine's part of  *)
(* the argument is taken from modules EnforceProofs and AlertProofs.       *)
(***************************************************************************)
EXTENDS Sensors, AlertProofs

-----------------------------------------------------------------------------
(* A trap that was handed out has a row with its name, names are unique among
   the rows, and what had been retired stays so.                           *)
TrapsInv ==
    /\ \A h \in Traps :
          handed[h] # NoTool => tools[h].status # "none" /\ tools[h].name = handed[h]
    /\ \A g, h \in Traps : Stands(g) /\ Stands(h) /\ tools[g].name = tools[h].name => g = h

(* What a handler knows of its observation: which traps the called tool stood
   for, that the event it decoded has a cause, and, if it decoded none, that
   there was none.                                                         *)
ObservedInv ==
    \A c \in Calls :
        /\ obs[c].retired \subseteq Retired
        /\ \A h \in obs[c].bait : obs[c].tool # NoTool => handed[h] = obs[c].tool
        /\ pc[c] = "find" => /\ obs[c].kind = "call" /\ obs[c].tool # NoTool
                             /\ obs[c].poison = {}
        /\ pc[c] = "handled" /\ result[c] = "none" =>
              obs[c].bait \subseteq Retired /\ obs[c].poison = {}

(* A decoded event is named after its handler and has a cause.             *)
DecodedInv ==
    \A c \in Calls :
        ev[c].source # NoSource =>
            /\ ev[c].id = c /\ ev[c].source = obs[c].source
            /\ Caused(c)
            /\ obs[c].kind = "call" => tools[trapOf[c]].status # "none"

(* Whatever an engine that read its trips returns, its trip is stored.     *)
StoredInv ==
    \A c \in Calls : result[c] \notin {"none", "error"} => ev[c] \in trips

SensorInv ==
    /\ SensorTypeOK /\ IInv
    /\ TrapsInv /\ ObservedInv /\ DecodedInv /\ StoredInv /\ TripsKeepTheirTrap

LEMMA SensorTypeOKShape == SensorTypeOK => Shape
  BY DataTypeOKShape DEF SensorTypeOK

LEMMA InitSensorInv == SensorInit => SensorInv
<1> SUFFICES ASSUME SensorInit PROVE SensorInv
  OBVIOUS
<1>1. DataTypeOK
  BY TimeAssumption DEF SensorInit, Init, StoreInit, EngineInit, DataTypeOK, Event,
                        Alert, NoAlert, NotCut
<1>2. SensorTypeOK
  BY <1>1, TimeAssumption
  DEF SensorInit, Init, StoreInit, EngineInit, SensorTypeOK, NoTrapRow, Observation
<1>3. TrapsInv /\ ObservedInv /\ DecodedInv /\ StoredInv /\ TripsKeepTheirTrap
  BY DEF SensorInit, Init, StoreInit, EngineInit, TrapsInv, ObservedInv, DecodedInv,
         StoredInv, TripsKeepTheirTrap, NoTrapRow, Stands, Retired
<1> QED
  BY <1>2, <1>3, InitIInv DEF SensorInit, SensorInv

-----------------------------------------------------------------------------
(* A handler whose trip the database refuses returns an error.             *)
LEMMA RefuseIInv ==
    ASSUME NEW c \in Calls, Shape, IInv, RefuseTrip(c)
    PROVE  IInv'
<1> USE DEF Shape, RefuseTrip, Return, Goto
<1>1. /\ pc[c] = "insert" /\ pc'[c] = "handled" /\ result'[c] = "error"
      /\ \A d \in Calls \ {c} : pc'[d] = pc[d] /\ result'[d] = result[d]
      /\ UNCHANGED <<revokedAt, trips, ev, now, seen>>
  OBVIOUS
<1>2. ~HasStored(c)' /\ ~HasRead(c)' /\ ~Waiting(c)'
  BY <1>1 DEF HasStored, HasRead, Completed, Past, Waiting
<1>3. \A d \in Calls \ {c} : /\ HasStored(d)' <=> HasStored(d)
                             /\ HasRead(d)' <=> HasRead(d)
                             /\ Waiting(d)' <=> Waiting(d)
  BY <1>1 DEF HasStored, HasRead, Completed, Waiting
<1>4. EventsInv'
  BY <1>1, <1>2, <1>3 DEF IInv, EventsInv
<1>5. HandlingInv'
  BY <1>1, <1>2, <1>3 DEF IInv, HandlingInv, Past
<1>6. ReadingInv'
  BY <1>1, <1>2, <1>3 DEF IInv, ReadingInv, SameCampaign
<1>7. CuttingInv'
  BY <1>1 DEF IInv, CuttingInv, Registered, Revoked, IsCampaign
<1>8. RevocationGrounded'
  BY <1>1 DEF IInv, RevocationGrounded
<1> QED
  BY <1>4, <1>5, <1>6, <1>7, <1>8 DEF IInv

(* Decoding: what a handler of an observation does before the engine.      *)
Decoding(c) ==
    /\ pc[c] \in {"idle", "find"}
    /\ UNCHANGED <<gone, clock, revokedAt, trips, alerts, now, seen, tools, handed>>
    /\ \A d \in Calls \ {c} : obs'[d] = obs[d] /\ trapOf'[d] = trapOf[d]
    /\ obs' \in [Calls -> Observation] /\ trapOf' \in [Calls -> Traps \cup {NoTrap}]
    /\ \/ /\ pc' = [pc EXCEPT ![c] = "find"]
          /\ UNCHANGED <<result, ev, trapOf>>
          /\ obs'[c].kind = "call" /\ obs'[c].tool # NoTool /\ obs'[c].poison = {}
       \/ /\ NotATrip(c)
          /\ obs'[c].bait \subseteq Retired /\ obs'[c].poison = {}
       \/ Undecoded(c)
       \/ \E h \in Traps \cup {NoTrap} :
            /\ Decoded(c, obs'[c], h)
            /\ IF obs'[c].kind = "description"
               THEN obs'[c].poison # {}
               ELSE h \in Traps \ obs'[c].retired /\ tools[h].name = obs'[c].tool
            /\ obs'[c].kind = "call" => tools[h].status # "none"
    /\ obs'[c].retired \subseteq Retired
    /\ \A h \in obs'[c].bait : obs'[c].tool # NoTool => handed[h] = obs'[c].tool

LEMMA ObserveDecodes ==
    ASSUME NEW c \in Calls, SensorInv, Observe(c)
    PROVE  Decoding(c)
<1> USE DEF SensorInv, SensorTypeOK
<1>1. PICK o \in Observation :
         /\ o.bait = IF o.kind = "call" THEN Handed(o.tool) \ Retired ELSE {}
         /\ o.retired = IF o.kind = "call" THEN Retired ELSE {}
         /\ o.kind = "call" => o.poison = {}
         /\ obs' = [obs EXCEPT ![c] = o]
         /\ IF o.tool = NoTool THEN Undecoded(c)
            ELSE IF o.kind = "call"
                 THEN Goto(c, "find") /\ UNCHANGED <<result, ev, trapOf>>
            ELSE IF Scan(o.poison) THEN Decoded(c, o, NoTrap) ELSE NotATrip(c)
  BY DEF Observe
<1>2. /\ pc[c] = "idle" /\ obs'[c] = o /\ obs' \in [Calls -> Observation]
      /\ UNCHANGED <<gone, clock, revokedAt, trips, alerts, now, seen, tools, handed>>
      /\ \A d \in Calls \ {c} : obs'[d] = obs[d] /\ trapOf'[d] = trapOf[d]
      /\ trapOf' \in [Calls -> Traps \cup {NoTrap}]
  BY <1>1 DEF Observe, Undecoded, Decoded, NotATrip
<1>3. /\ o.retired \subseteq Retired
      /\ \A h \in o.bait : o.tool # NoTool => handed[h] = o.tool
  BY <1>1 DEF Handed
<1>4. o.kind \in {"call", "description"}
  BY DEF Observation
<1>5. CASE o.tool = NoTool
  <2>1. Undecoded(c)
    BY <1>1, <1>5 DEF Undecoded, Return, Goto
  <2> QED
    BY <1>2, <1>3, <2>1 DEF Decoding
<1>6. CASE o.tool # NoTool /\ o.kind = "call"
  <2>1. pc' = [pc EXCEPT ![c] = "find"] /\ UNCHANGED <<result, ev, trapOf>>
    BY <1>1, <1>6 DEF Goto
  <2> QED
    BY <1>1, <1>2, <1>3, <1>6, <2>1 DEF Decoding
<1>7. CASE o.tool # NoTool /\ o.kind = "description" /\ Scan(o.poison)
  BY <1>1, <1>2, <1>3, <1>7 DEF Decoding, Scan
<1>8. CASE o.tool # NoTool /\ o.kind = "description" /\ ~Scan(o.poison)
  BY <1>1, <1>2, <1>3, <1>8 DEF Decoding, Scan
<1> QED
  BY <1>4, <1>5, <1>6, <1>7, <1>8

(* A trap that is found live has never been retired; one that was handed out
   and never retired is the only one of its name.                          *)
LEMMA FindDecodes ==
    ASSUME NEW c \in Calls, SensorInv, FindByName(c)
    PROVE  Decoding(c)
<1> USE DEF SensorInv, SensorTypeOK
<1>1. PICK ok \in BOOLEAN : LookedUp(c, ok)
  BY DEF FindByName
<1>2. /\ pc[c] = "find" /\ obs' = obs
      /\ UNCHANGED <<gone, clock, revokedAt, trips, alerts, now, seen, tools, handed>>
      /\ \A d \in Calls \ {c} : trapOf'[d] = trapOf[d]
      /\ trapOf' \in [Calls -> Traps \cup {NoTrap}]
  BY <1>1 DEF FindByName, LookedUp, Undecoded, Decoded, NotATrip, Named
<1>3. /\ obs[c].kind = "call" /\ obs[c].tool # NoTool /\ obs[c].poison = {}
      /\ obs[c].retired \subseteq Retired
      /\ \A h \in obs[c].bait : handed[h] = obs[c].tool
  BY <1>2 DEF ObservedInv
<1>4. \A h \in obs[c].bait \ Retired : h \in Named(obs[c].tool) /\ tools[h].status = "live"
  BY <1>3 DEF TrapsInv, Retired, Named, Stands, Observation
<1>5. CASE Undecoded(c)
  BY <1>2, <1>3, <1>5 DEF Decoding
<1>6. CASE Named(obs[c].tool) = {} /\ NotATrip(c)
  BY <1>2, <1>3, <1>4, <1>6 DEF Decoding
<1>7. ASSUME NEW h \in Named(obs[c].tool), tools[h].status # "live", NotATrip(c)
      PROVE  Decoding(c)
  <2>1. obs[c].bait \subseteq Retired
    BY <1>4, <1>7 DEF TrapsInv, Named, Observation
  <2> QED
    BY <1>2, <1>3, <1>7, <2>1 DEF Decoding
<1>8. ASSUME NEW h \in Named(obs[c].tool), tools[h].status = "live", Decoded(c, obs[c], h)
      PROVE  Decoding(c)
  <2>1. h \in Traps \ obs[c].retired /\ tools[h].name = obs[c].tool
    BY <1>3, <1>8 DEF Named, Retired
  <2> QED
    BY <1>2, <1>3, <1>8, <2>1 DEF Decoding
<1> QED
  BY <1>1, <1>5, <1>6, <1>7, <1>8 DEF LookedUp

-----------------------------------------------------------------------------
(* Each kind of step preserves the invariant.                              *)

LEMMA DecodingEngine ==
    ASSUME NEW c \in Calls, SensorInv, Decoding(c)
    PROVE  /\ SensorTypeOK' /\ IInv'
           /\ pc' = [pc EXCEPT ![c] = pc'[c]]
           /\ \A d \in Calls \ {c} : result'[d] = result[d] /\ ev'[d] = ev[d]
           /\ result[c] = "none" /\ result'[c] \in {"none", "error"}
           /\ pc'[c] = "find" => /\ obs'[c].kind = "call" /\ obs'[c].tool # NoTool
                                 /\ obs'[c].poison = {}
           /\ pc'[c] = "handled" /\ result'[c] = "none" =>
                 obs'[c].bait \subseteq Retired /\ obs'[c].poison = {}
           /\ ev'[c].source # NoSource =>
                 /\ ev'[c].id = c /\ ev'[c].source = obs'[c].source
                 /\ Caused(c)'
                 /\ obs'[c].kind = "call" => tools'[trapOf'[c]].status # "none"
<1> USE SensorTypeOKShape DEF SensorInv, Shape
<1>1. /\ ev[c].source = NoSource /\ result[c] = "none" /\ Waiting(c)
      /\ ev[c] \in Event /\ pc[c] \in {"idle", "find"}
      /\ DOMAIN ev = Calls /\ DOMAIN result = Calls
  BY DEF Decoding, Waiting, IInv, EventsInv, HandlingInv
<1>2. CASE pc' = [pc EXCEPT ![c] = "find"] /\ UNCHANGED <<result, ev, trapOf>>
           /\ obs'[c].kind = "call" /\ obs'[c].tool # NoTool /\ obs'[c].poison = {}
  <2>1. IInv'
    BY <1>1, <1>2, QuietIInv DEF Idles, Waiting, Decoding
  <2>2. SensorTypeOK'
    BY <1>2 DEF Decoding, SensorTypeOK, DataTypeOK
  <2> QED
    BY <1>1, <1>2, <2>1, <2>2
<1>3. CASE NotATrip(c) /\ obs'[c].bait \subseteq Retired /\ obs'[c].poison = {}
  <2>1. IInv'
    BY <1>1, <1>3, QuietIInv DEF Idles, Decoding, NotATrip, Goto
  <2>2. SensorTypeOK'
    BY <1>3 DEF Decoding, SensorTypeOK, DataTypeOK, NotATrip, Goto
  <2> QED
    BY <1>1, <1>3, <2>1, <2>2 DEF NotATrip, Goto
<1>4. CASE Undecoded(c)
  <2>1. Begin(c, ev[c])
    BY <1>1, <1>4 DEF Undecoded, Begin, Decoding
  <2>2. IInv'
    BY <1>1, <2>1, BeginIInv
  <2>3. SensorTypeOK'
    BY <1>1, <1>4, <2>1, BeginDataTypeOK DEF Undecoded, Return, Goto, Decoding, SensorTypeOK
  <2> QED
    BY <1>1, <1>4, <2>2, <2>3 DEF Undecoded, Return, Goto
<1>5. ASSUME NEW h \in Traps \cup {NoTrap}, Decoded(c, obs'[c], h),
             IF obs'[c].kind = "description"
             THEN obs'[c].poison # {}
             ELSE h \in Traps \ obs'[c].retired /\ tools[h].name = obs'[c].tool,
             obs'[c].kind = "call" => tools[h].status # "none"
      PROVE  /\ SensorTypeOK' /\ IInv'
             /\ pc' = [pc EXCEPT ![c] = pc'[c]]
             /\ \A d \in Calls \ {c} : result'[d] = result[d] /\ ev'[d] = ev[d]
             /\ result'[c] \in {"none", "error"}
             /\ pc'[c] = "insert" \/ (result'[c] = "error" /\ pc'[c] = "handled")
             /\ ev'[c].source # NoSource =>
                   /\ ev'[c].id = c /\ ev'[c].source = obs'[c].source
                   /\ Caused(c)'
                   /\ obs'[c].kind = "call" => tools'[trapOf'[c]].status # "none"
  <2> DEFINE e == [id |-> c, source |-> obs'[c].source, at |-> obs'[c].at]
  <2>1. obs'[c] \in Observation /\ tools' = tools
    BY DEF Decoding
  <2>2. e \in Event
    BY <2>1, TimeAssumption DEF Event, Observation
  <2>3. Begin(c, e) /\ trapOf' = [trapOf EXCEPT ![c] = h]
    BY <1>5 DEF Decoded
  <2>4. IInv'
    BY <1>1, <2>2, <2>3, BeginIInv
  <2>5. /\ pc' = [pc EXCEPT ![c] = pc'[c]]
        /\ \/ pc'[c] = "insert" /\ result' = result
           \/ pc'[c] = "handled" /\ result' = [result EXCEPT ![c] = "error"]
        /\ ev' = [ev EXCEPT ![c] = e]
    BY <2>3 DEF Begin, Return, Goto
  <2>6. DataTypeOK'
    BY <2>2, <2>3, BeginDataTypeOK DEF SensorTypeOK
  <2>7. SensorTypeOK'
    BY <2>5, <2>6 DEF SensorTypeOK, Decoding
  <2>8. trapOf'[c] = h
    BY <2>3 DEF SensorTypeOK
  <2>9. Caused(c)'
    BY <1>5, <2>1, <2>8 DEF Caused
  <2> QED
    BY <1>1, <1>5, <2>1, <2>4, <2>5, <2>7, <2>8, <2>9
<1> QED
  BY <1>1, <1>2, <1>3, <1>4, <1>5 DEF Decoding

LEMMA DecodingInv ==
    ASSUME NEW c \in Calls, SensorInv, Decoding(c)
    PROVE  SensorInv'
<1> USE DecodingEngine DEF SensorInv
<1>1. /\ UNCHANGED <<trips, tools, handed>> /\ Retired' = Retired
      /\ \A d \in Calls \ {c} : obs'[d] = obs[d] /\ trapOf'[d] = trapOf[d]
  BY DEF Decoding, Retired
<1>2. TrapsInv'
  BY <1>1 DEF TrapsInv, Stands
<1>3. ObservedInv'
  <2>1. /\ obs'[c].retired \subseteq Retired
        /\ \A h \in obs'[c].bait : obs'[c].tool # NoTool => handed[h] = obs'[c].tool
    BY DEF Decoding
  <2>2. \A d \in Calls \ {c} : pc'[d] = pc[d]
    BY DEF SensorTypeOK
  <2> QED
    BY <1>1, <2>1, <2>2 DEF ObservedInv
<1>4. \A d \in Calls \ {c} : Caused(d)' <=> Caused(d)
  BY <1>1 DEF Caused
<1>5. DecodedInv'
  BY <1>1, <1>4 DEF DecodedInv
<1>6. StoredInv'
  BY <1>1 DEF StoredInv
<1>7. TripsKeepTheirTrap'
  <2>1. ASSUME NEW e \in trips PROVE e.id \in Calls \ {c}
    <3>1. PICK d \in Calls : ev[d] = e /\ e.source # NoSource
      BY DEF IInv, EventsInv
    <3>2. d # c
      BY <3>1 DEF Decoding, IInv, EventsInv, Waiting
    <3> QED
      BY <3>1, <3>2 DEF DecodedInv
  <2> QED
    BY <1>1, <2>1 DEF TripsKeepTheirTrap, Stands
<1> QED
  BY <1>2, <1>3, <1>5, <1>6, <1>7

(* A handler that returns says what it returns, and has stored its trip if it
   got past the insert.                                                    *)
LEMMA EngineReturns ==
    ASSUME NEW c \in Calls, Shape, IInv, EngineStep(c)
    PROVE  /\ pc'[c] = "handled" => result'[c] # "none"
           /\ result'[c] \notin {"none", "error"} => ev[c] \in trips
           /\ trips' # trips => pc[c] = "insert"
           /\ trips' \subseteq trips \cup {ev[c]}
<1> USE DEF Shape, Return, Goto, AlertWritten
<1>1. pc[c] \in Past \cup {"insert"} /\ result[c] = "none"
  BY EngineStepFrame DEF IInv, HandlingInv, Past
<1>2. CASE InsertTripEvent(c)
  <2>1. result'[c] \in {"none", "error"} /\ pc'[c] = "handled" => result'[c] # "none"
    BY <1>1, <1>2 DEF InsertTripEvent
  <2>2. result'[c] \in {"none", "error"}
    BY <1>1, <1>2 DEF InsertTripEvent
  <2> QED
    BY <1>2, <2>1, <2>2 DEF InsertTripEvent, Recorded
<1>3. CASE ~InsertTripEvent(c)
  <2>1. pc[c] # "insert" /\ trips' = trips
    BY <1>3 DEF EngineStep, InsertTripEvent, ReadClock, TripsBySource, UpdateAlert,
                InsertAlert, RevokeAgent, AgentExists
  <2>2. ev[c] \in trips
    BY <1>1, <2>1 DEF IInv, HandlingInv, HasStored
  <2>3. pc'[c] = "handled" => result'[c] # "none"
    BY <1>1, <1>3 DEF EngineStep, ReadClock, TripsBySource, UpdateAlert,
                      InsertAlert, RevokeAgent, AgentExists
  <2> QED
    BY <2>1, <2>2, <2>3
<1> QED
  BY <1>2, <1>3

(* Steps that leave observations and traps alone.                          *)
LEMMA HandlingSensorInv ==
    ASSUME SensorInv, SensorTypeOK', IInv', UNCHANGED sensorVars, ev' = ev,
           trips \subseteq trips',
           \A c \in Calls : /\ pc'[c] = "find" => pc[c] = "find"
                            /\ pc'[c] = "handled" /\ result'[c] = "none" =>
                                  pc[c] = "handled" /\ result[c] = "none"
                            /\ result'[c] \notin {"none", "error"} => ev[c] \in trips',
           \A e \in trips' : \/ e \in trips
                             \/ \E c \in Calls : e = ev[c] /\ KnownTrap(c)
    PROVE  SensorInv'
<1> USE DEF SensorInv, sensorVars
<1>1. TrapsInv'
  BY DEF TrapsInv, Stands
<1>2. ObservedInv'
  BY DEF ObservedInv, Retired
<1>3. DecodedInv'
  BY DEF DecodedInv, Caused
<1>4. StoredInv'
  BY DEF StoredInv
<1>5. TripsKeepTheirTrap'
  <2> SUFFICES ASSUME NEW e \in trips', obs[e.id].kind = "call"
               PROVE  /\ trapOf[e.id] \in Traps /\ Stands(trapOf[e.id])
                      /\ tools[trapOf[e.id]].name = obs[e.id].tool
    BY DEF TripsKeepTheirTrap, Stands
  <2>1. CASE e \in trips
    BY <2>1 DEF TripsKeepTheirTrap
  <2>2. CASE \E c \in Calls : e = ev[c] /\ KnownTrap(c)
    <3>1. PICK c \in Calls : e = ev[c] /\ KnownTrap(c)
      BY <2>2
    <3>2. e.source # NoSource
      BY DEF IInv, EventsInv
    <3>3. e.id = c /\ Caused(c)
      BY <3>1, <3>2 DEF DecodedInv
    <3>4. trapOf[c] \in Traps /\ tools[trapOf[c]].name = obs[c].tool
      BY <3>3 DEF Caused
    <3> QED
      BY <3>1, <3>3, <3>4, TrapsAssumption DEF KnownTrap
  <2> QED
    BY <2>1, <2>2
<1> QED
  BY <1>1, <1>2, <1>3, <1>4, <1>5

LEMMA EngineSensorInv ==
    ASSUME NEW c \in Calls, SensorInv, EngineStep(c), UNCHANGED sensorVars,
           pc[c] = "insert" => KnownTrap(c)
    PROVE  SensorInv'
<1> USE SensorTypeOKShape DEF SensorInv
<1>1. /\ ev' = ev /\ trips \subseteq trips' /\ pc' = [pc EXCEPT ![c] = pc'[c]]
      /\ \A d \in Calls \ {c} : pc'[d] = pc[d] /\ result'[d] = result[d]
      /\ pc'[c] \in Past \cup {"handled"}
  BY EngineStepFrame
<1>2. IInv'
  BY EngineStepIInv
<1>3. SensorTypeOK'
  BY <1>1, EngineStepDataTypeOK DEF SensorTypeOK, Past, sensorVars
<1>4. \A d \in Calls : /\ pc'[d] = "find" => pc[d] = "find"
                       /\ pc'[d] = "handled" /\ result'[d] = "none" =>
                             pc[d] = "handled" /\ result[d] = "none"
                       /\ result'[d] \notin {"none", "error"} => ev[d] \in trips'
  BY <1>1, EngineReturns DEF StoredInv, Past
<1>5. \A e \in trips' : e \in trips \/ \E d \in Calls : e = ev[d] /\ KnownTrap(d)
  BY EngineReturns
<1> QED
  BY <1>1, <1>2, <1>3, <1>4, <1>5, HandlingSensorInv

LEMMA RefuseSensorInv ==
    ASSUME NEW c \in Calls, SensorInv, RefuseTrip(c)
    PROVE  SensorInv'
<1> USE SensorTypeOKShape DEF SensorInv
<1>1. /\ pc' = [pc EXCEPT ![c] = "handled"] /\ result' = [result EXCEPT ![c] = "error"]
      /\ UNCHANGED <<gone, clock, revokedAt, trips, alerts, ev, now, seen, sensorVars>>
  BY DEF RefuseTrip, Return, Goto
<1>2. IInv'
  BY RefuseIInv
<1>3. SensorTypeOK'
  BY <1>1 DEF SensorTypeOK, DataTypeOK, sensorVars
<1>4. \A d \in Calls : /\ pc'[d] = "find" => pc[d] = "find"
                       /\ pc'[d] = "handled" /\ result'[d] = "none" =>
                             pc[d] = "handled" /\ result[d] = "none"
                       /\ result'[d] \notin {"none", "error"} => ev[d] \in trips'
  BY <1>1 DEF StoredInv, SensorTypeOK, DataTypeOK
<1> QED
  BY <1>1, <1>2, <1>3, <1>4, HandlingSensorInv

LEMMA OutsideSensorInv ==
    ASSUME SensorInv, (Environment /\ UNCHANGED sensorVars) \/ UNCHANGED allVars
    PROVE  SensorInv'
<1> USE SensorTypeOKShape DEF SensorInv
<1>1. /\ UNCHANGED <<ev, trips, result, sensorVars>>
      /\ \A c \in Calls : pc'[c] = pc[c] \/ pc'[c] = "dead"
  BY DEF Environment, Tick, Crash, HangUp, CloseAlert, allVars, vars
<1>2. IInv'
  BY EnvironmentIInv, QuietIInv DEF Idles, allVars, vars
<1>3. SensorTypeOK'
  <2>1. CASE Environment /\ UNCHANGED sensorVars
    <3>1. DataTypeOK'
      BY <2>1, EnvironmentDataTypeOK DEF SensorTypeOK
    <3> QED
      BY <2>1, <3>1 DEF Environment, Tick, Crash, HangUp, CloseAlert, SensorTypeOK, sensorVars
  <2>2. CASE UNCHANGED allVars
    BY <2>2 DEF allVars, vars, sensorVars, SensorTypeOK, DataTypeOK
  <2> QED
    BY <2>1, <2>2
<1> QED
  BY <1>1, <1>2, <1>3, HandlingSensorInv DEF StoredInv

(* Traps come and go: a trap keeps its name, and its row while a trip refers
   to it.                                                                  *)
LEMMA TrapsSensorInv ==
    ASSUME NEW h \in Traps, SensorInv, Provision(h) \/ Withdraw(h), UNCHANGED vars
    PROVE  SensorInv'
<1> USE DEF SensorInv
<1>1. IInv'
  BY QuietIInv DEF vars, Idles
<1>2. DataTypeOK'
  BY DEF vars, DataTypeOK, SensorTypeOK
<1>3. /\ UNCHANGED <<obs, trapOf>>
      /\ \A g \in Traps \ {h} : tools'[g] = tools[g] /\ handed'[g] = handed[g]
      /\ handed'[h] # handed[h] => handed[h] = NoTool
      /\ tools[h].status # "none" =>
            tools'[h].status # "none" /\ tools'[h].name = tools[h].name
      /\ h \in Retired => h \in Retired'
      /\ \A e \in trips : trapOf[e.id] = h /\ Stands(h) => Stands(h)'
      /\ tools' \in [Traps -> [name : Tools \cup {NoTool},
                               status : {"none", "live", "retired", "deleted"}]]
      /\ handed' \in [Traps -> Tools \cup {NoTool}]
  <2>1. CASE Provision(h)
    BY <2>1 DEF Provision, HandedOut, SensorTypeOK, Retired, Stands
  <2>2. CASE Withdraw(h)
    BY <2>2 DEF Withdraw, SensorTypeOK, Retired, Stands
  <2> QED
    BY <2>1, <2>2
<1>4. SensorTypeOK'
  BY <1>2, <1>3 DEF SensorTypeOK, vars
<1>5. TrapsInv'
  <2>1. CASE Provision(h)
    BY <2>1, TrapsAssumption DEF Provision, HandedOut, SensorTypeOK, TrapsInv, Stands, Named
  <2>2. CASE Withdraw(h)
    BY <2>2 DEF Withdraw, SensorTypeOK, TrapsInv, Stands
  <2> QED
    BY <2>1, <2>2
<1>6. Retired \subseteq Retired'
  BY <1>3 DEF Retired
<1>7. ObservedInv'
  <2>1. \A c \in Calls : obs[c].bait \subseteq Traps
    BY DEF SensorTypeOK, Observation
  <2> QED
    BY <1>3, <1>6, <2>1 DEF ObservedInv, vars
<1>8. DecodedInv'
  <2>1. ASSUME NEW c \in Calls, ev[c].source # NoSource
        PROVE  /\ Caused(c)'
               /\ obs[c].kind = "call" => tools'[trapOf[c]].status # "none"
    <3>1. /\ Caused(c)
          /\ obs[c].kind = "call" => tools[trapOf[c]].status # "none"
      BY <2>1 DEF DecodedInv
    <3>2. obs[c].kind \in {"call", "description"}
      BY DEF SensorTypeOK, Observation
    <3> QED
      BY <1>3, <3>1, <3>2 DEF Caused
  <2> QED
    BY <1>3, <2>1 DEF DecodedInv, vars
<1>9. StoredInv'
  BY DEF StoredInv, vars
<1>10. TripsKeepTheirTrap'
  <2> SUFFICES ASSUME NEW e \in trips, obs[e.id].kind = "call"
               PROVE  /\ trapOf[e.id] \in Traps /\ Stands(trapOf[e.id])'
                      /\ tools'[trapOf[e.id]].name = obs[e.id].tool
    BY <1>3 DEF TripsKeepTheirTrap, vars, Stands
  <2>1. /\ trapOf[e.id] \in Traps /\ Stands(trapOf[e.id])
        /\ tools[trapOf[e.id]].name = obs[e.id].tool
    BY DEF TripsKeepTheirTrap
  <2> QED
    BY <1>3, <2>1 DEF Stands
<1> QED
  BY <1>1, <1>4, <1>5, <1>7, <1>8, <1>9, <1>10

LEMMA NextSensorInv == SensorInv /\ [SensorNext]_allVars => SensorInv'
<1> SUFFICES ASSUME SensorInv, [SensorNext]_allVars PROVE SensorInv'
  OBVIOUS
<1>1. ASSUME NEW c \in Calls, Observe(c) \/ FindByName(c) PROVE SensorInv'
  BY <1>1, ObserveDecodes, FindDecodes, DecodingInv
<1>2. ASSUME NEW c \in Calls, RefuseTrip(c) PROVE SensorInv'
  BY <1>2, RefuseSensorInv
<1>3. ASSUME NEW c \in Calls, pc[c] = "insert" => KnownTrap(c), EngineStep(c),
             UNCHANGED sensorVars
      PROVE  SensorInv'
  BY <1>3, EngineSensorInv
<1>4. ASSUME NEW h \in Traps, Provision(h) \/ Withdraw(h), UNCHANGED vars
      PROVE  SensorInv'
  BY <1>4, TrapsSensorInv
<1>5. CASE (Environment /\ UNCHANGED sensorVars) \/ UNCHANGED allVars
  BY <1>5, OutsideSensorInv
<1> QED
  BY <1>1, <1>2, <1>3, <1>4, <1>5 DEF SensorNext, SensorRest

(* The invariant holds in every reachable state of the sensors.            *)
THEOREM SensorInvariance == SensorSpec => []SensorInv
  BY InitSensorInv, NextSensorInv, PTL DEF SensorSpec

(* The state of traps, observations and engine is always of its type.      *)
THEOREM SensorTypeCorrect == SensorSpec => []SensorTypeOK
<1>1. SensorInv => SensorTypeOK
  BY DEF SensorInv
<1> QED
  BY <1>1, SensorInvariance, PTL

(* A trip in the table always tells which fake tool was called, whatever is
   withdrawn before or after it is stored.                                 *)
THEOREM TripsAlwaysKeepTheirTrap == SensorSpec => []TripsKeepTheirTrap
<1>1. SensorInv => TripsKeepTheirTrap
  BY DEF SensorInv
<1> QED
  BY <1>1, SensorInvariance, PTL

(* No agent is ever cut on account of a call of a real or retired tool, or of
   a clean description, whatever fails, races or is redelivered.           *)
THEOREM CutsAlwaysHaveCause == SensorSpec => []CutsHaveCause
<1>1. SensorInv => CutsHaveCause
  <2> SUFFICES ASSUME SensorInv, NEW a \in Agents, revokedAt[a] # NotCut
               PROVE  \E c, d \in Calls :
                         /\ c # d
                         /\ \A x \in {c, d} : /\ Caused(x)
                                              /\ obs[x].source \in Sources
                                              /\ Row[obs[x].source] = a
    BY DEF CutsHaveCause
  <2>1. PICK c, d \in Calls :
           /\ ev[c].id # ev[d].id /\ ev[c].source = ev[d].source
           /\ ev[c].source \in Sources /\ Row[ev[c].source] = a
    BY DEF SensorInv, IInv, RevocationGrounded
  <2>2. \A x \in {c, d} : Caused(x) /\ ev[x].source = obs[x].source
    BY <2>1, SourcesAssumption DEF SensorInv, DecodedInv
  <2> QED
    BY <2>1, <2>2
<1> QED
  BY <1>1, SensorInvariance, PTL

(* No hit is ever swallowed: it is stored as a trip of its agent, or its
   handler reports an error.                                               *)
THEOREM HitsAreAlwaysTripsOrErrors == SensorSpec => []HitsAreTripsOrErrors
<1>1. SensorInv => HitsAreTripsOrErrors
  <2> SUFFICES ASSUME SensorInv, NEW c \in Calls,
                      pc[c] = "handled", result[c] # "error",
                      (obs[c].bait \ Retired) # {} \/ obs[c].poison # {}
               PROVE  ev[c] \in trips /\ ev[c].source = obs[c].source
    BY DEF HitsAreTripsOrErrors
  <2>1. result[c] # "none"
    BY DEF SensorInv, ObservedInv
  <2>2. ev[c] \in trips
    BY <2>1 DEF SensorInv, StoredInv
  <2>3. ev[c].source # NoSource
    BY <2>2 DEF SensorInv, IInv, EventsInv
  <2> QED
    BY <2>2, <2>3 DEF SensorInv, DecodedInv
<1> QED
  BY <1>1, SensorInvariance, PTL
-----------------------------------------------------------------------------
(* The engine behind the sensors.                                          *)

LEMMA SensorAlertsShape == SensorTypeOK => AlertsShape
  BY DEF SensorTypeOK, DataTypeOK, AlertsShape

(* A handler that decodes has read nothing and written nothing; it ends, or
   goes on with the event it has decoded.                                  *)
LEMMA DecodingReportInv ==
    ASSUME NEW c \in Calls, SensorInv, ReportInv, Decoding(c)
    PROVE  ReportInv'
<1> USE SensorTypeOKShape DEF SensorInv, Shape
<1>1. /\ Waiting(c) /\ ev[c].source = NoSource /\ ev[c] \in Event
      /\ UNCHANGED <<gone, clock, revokedAt, trips, alerts, now, seen>>
  BY DEF Decoding, Waiting, IInv, EventsInv
<1>2. CASE pc' = [pc EXCEPT ![c] = "find"] /\ UNCHANGED <<result, ev, trapOf>>
  BY <1>1, <1>2, QuietReportInv DEF Idles, Waiting
<1>3. CASE NotATrip(c)
  BY <1>1, <1>3, QuietReportInv DEF Idles, NotATrip, Goto
<1>4. CASE Undecoded(c)
  <2>1. Begin(c, ev[c])
    BY <1>1, <1>4 DEF Undecoded, Begin
  <2> QED
    BY <1>1, <2>1, BeginReportInv
<1>5. ASSUME NEW h \in Traps \cup {NoTrap}, Decoded(c, obs'[c], h) PROVE ReportInv'
  <2> DEFINE e == [id |-> c, source |-> obs'[c].source, at |-> obs'[c].at]
  <2>1. e \in Event
    BY TimeAssumption DEF Decoding, Event, Observation
  <2>2. Begin(c, e)
    BY <1>5 DEF Decoded
  <2> QED
    BY <1>1, <2>1, <2>2, BeginReportInv
<1> QED
  BY <1>2, <1>3, <1>4, <1>5 DEF Decoding

LEMMA RefuseReportInv ==
    ASSUME NEW c \in Calls, SensorInv, ReportInv, RefuseTrip(c)
    PROVE  ReportInv'
<1> USE SensorTypeOKShape DEF SensorInv, Shape
<1>1. /\ pc[c] = "insert" /\ pc'[c] = "handled" /\ result'[c] = "error"
      /\ \A d \in Calls \ {c} : pc'[d] = pc[d] /\ result'[d] = result[d]
      /\ UNCHANGED <<revokedAt, trips, alerts, ev, now, seen>>
  BY DEF RefuseTrip, Return, Goto
<1>2. \A d \in Calls : /\ HasRead(d)' => HasRead(d)
                       /\ Completed(d)' => Completed(d)
                       /\ pc'[d] \in {"revoke", "exists"} => pc'[d] = pc[d]
  BY <1>1 DEF HasRead, Completed, Past
<1>3. TimelyInv'
  BY <1>1, <1>2 DEF ReportInv, TimelyInv, WindowInv, RevocationTimely
<1>4. AlertedInv'
  BY <1>1, <1>2 DEF ReportInv, AlertedInv, Alerted
<1>5. CriticalGrounded'
  BY <1>1 DEF ReportInv, CriticalGrounded, IsCampaign
<1> QED
  BY <1>3, <1>4, <1>5 DEF ReportInv

LEMMA NextSensorReportInv ==
    SensorInv /\ ReportInv /\ [SensorNext]_allVars => ReportInv'
<1> SUFFICES ASSUME SensorInv, ReportInv, [SensorNext]_allVars PROVE ReportInv'
  OBVIOUS
<1> USE SensorTypeOKShape, SensorAlertsShape DEF SensorInv
<1>1. ASSUME NEW c \in Calls, Observe(c) \/ FindByName(c) PROVE ReportInv'
  BY <1>1, ObserveDecodes, FindDecodes, DecodingReportInv
<1>2. ASSUME NEW c \in Calls, RefuseTrip(c) PROVE ReportInv'
  BY <1>2, RefuseReportInv
<1>3. ASSUME NEW c \in Calls, EngineStep(c) PROVE ReportInv'
  BY <1>3, EngineStepReportInv
<1>4. CASE UNCHANGED vars
  BY <1>4, QuietReportInv DEF vars, Idles
<1>5. CASE Environment
  BY <1>5, EnvironmentReportInv
<1> QED
  BY <1>1, <1>2, <1>3, <1>4, <1>5 DEF SensorNext, SensorRest, allVars

LEMMA NextSensorVerdicts ==
    SensorInv /\ ReportInv /\ [SensorNext]_allVars
        => [Verdict!VerdictNext]_(Verdict!verdictVars)
<1> SUFFICES ASSUME SensorInv, ReportInv, [SensorNext]_allVars
             PROVE  Verdict!VerdictNext \/ UNCHANGED Verdict!verdictVars
  OBVIOUS
<1> USE SensorTypeOKShape, SensorAlertsShape DEF SensorInv
<1>1. ASSUME NEW c \in Calls, Observe(c) \/ FindByName(c) \/ RefuseTrip(c)
      PROVE  UNCHANGED Verdict!verdictVars
  BY <1>1, JudgesNothing DEF Observe, FindByName, RefuseTrip
<1>2. ASSUME NEW c \in Calls, EngineStep(c)
      PROVE  Verdict!VerdictNext \/ UNCHANGED Verdict!verdictVars
  BY <1>2, EngineStepJudges
<1>3. CASE UNCHANGED vars
  BY <1>3, JudgesNothing DEF vars
<1>4. CASE Environment
  BY <1>4, EnvironmentJudges
<1> QED
  BY <1>1, <1>2, <1>3, <1>4 DEF SensorNext, SensorRest, allVars

(* What the engine knows of its alerts holds behind the sensors too.       *)
THEOREM SensorReportInvariance == SensorSpec => [](SensorInv /\ ReportInv)
<1>1. SensorInit => SensorInv /\ ReportInv
  BY InitSensorInv, InitReportInv DEF SensorInit
<1>2. SensorInv /\ ReportInv /\ [SensorNext]_allVars => (SensorInv /\ ReportInv)'
  BY NextSensorInv, NextSensorReportInv
<1> QED
  BY <1>1, <1>2, PTL DEF SensorSpec

(* The sensors implement Verdicts: no agent is cut but once, for two stored
   observations of one source within the window, after an alert of the
   source, whatever is decoded, refused or withdrawn meanwhile.            *)
THEOREM SensorsKeepToVerdicts == SensorSpec => KeepsToVerdicts
<1>1. SensorInit => Verdict!VerdictInit
  BY InitVerdicts DEF SensorInit
<1> QED
  BY <1>1, SensorReportInvariance, NextSensorVerdicts, PTL
  DEF SensorSpec, KeepsToVerdicts, Verdict!VerdictSpec

(* Two hits of one source that were handled without an error leave its agent
   cut, and each of them an alert, whatever races, fails or is redelivered. *)
THEOREM HitsAreNeverForgotten == SensorSpec => [](NoCampaignEscapes /\ TripRaisesAlert)
<1>1. SensorInv /\ ReportInv => NoCampaignEscapes /\ TripRaisesAlert
  BY IInvNoEscape DEF SensorInv, ReportInv, AlertedInv, Alerted, TripRaisesAlert
<1> QED
  BY <1>1, SensorReportInvariance, PTL
=============================================================================
