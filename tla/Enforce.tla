------------------------------ MODULE Enforce ------------------------------
(***************************************************************************)
(* internal/enforce: Engine.Handle turns a TripEvent into an alert and, if *)
(* the source has tripped twice within the window, into the revocation of  *)
(* the agent.  Several invocations run concurrently, one statement at a    *)
(* time, with no lock and no transaction around them.                      *)
(*                                                                         *)
(* Specification Spec runs the engine alone, fed by a sensor that delivers *)
(* fresh events and redelivers old ones; module Gateway feeds the same     *)
(* actions with the calls it denies.                                       *)
(***************************************************************************)
EXTENDS Store

VARIABLES
    trips,      \* trip_events
    alerts,     \* alerts: the row that the handler of a call inserted
    ev,         \* the TripEvent a handler was given
    now,        \* the handler's now
    seen,       \* the trips the handler read
    result      \* what Handle returned

engineVars == <<now, seen, result>>
vars == <<pc, gone, clock, revokedAt, trips, alerts, ev, now, seen, result>>

Event == [id : Calls, source : Sources \cup {NoSource}, at : Int]

Alert == [source : Sources \cup {NoSource},
          severity : {"none", "High", "Critical"},
          status : {"none", "open", "closed"}]

NoAlert == [source |-> NoSource, severity |-> "none", status |-> "none"]

(* gokturk-core's correlate.Evaluate, given the trips of one source: no
   trip, no alert; one trip, High; two or more, one Critical.              *)
IsCampaign(T) == \E e, f \in T : e.id # f.id

(* Slip: one trip is enough.                                               *)
SeverityHasty(T) == "Critical"

(* One trip, High; a campaign, Critical.                                   *)
Severity(T) == IF IsCampaign(T) THEN "Critical" ELSE "High"

-----------------------------------------------------------------------------
(* Handle returns.  "quiet" is a nil error and no Critical alert, "revoked"
   AgentRevoked, "unregistered" and "uncut" a RevokeErr.                   *)
Return(c, r) == Goto(c, "handled") /\ result' = [result EXCEPT ![c] = r]

(* Handle is called; an event without a source is refused.                 *)
Begin(c, e) ==
    /\ ev' = [ev EXCEPT ![c] = e]
    /\ IF e.source = NoSource
       THEN Return(c, "error")
       ELSE Goto(c, "insert") /\ UNCHANGED result
    /\ UNCHANGED <<gone, clock, revokedAt, trips, alerts, now, seen>>

(* Slip: the event id is not unique, and every insert makes a row.         *)
RecordedAgain(c) == trips \cup {[ev[c] EXCEPT !.id = c]}

(* INSERT INTO trip_events ... ON CONFLICT (event_id) DO NOTHING           *)
Recorded(c) ==
    IF \E e \in trips : e.id = ev[c].id THEN trips ELSE trips \cup {ev[c]}

InsertTripEvent(c) ==
    /\ pc[c] = "insert"
    /\ \E o \in Outcomes(c) :
         /\ Statement(c, o)
         /\ trips' = IF Applied(o) THEN Recorded(c) ELSE trips
         /\ IF o = "ok"
            THEN Goto(c, "now") /\ UNCHANGED result
            ELSE Return(c, "error")
    /\ UNCHANGED <<clock, revokedAt, alerts, ev, now, seen>>

(* Slip: the start of the window is kept for now.                          *)
ReadClockShifted(c) ==
    /\ pc[c] = "now"
    /\ now' = [now EXCEPT ![c] = clock - Window]
    /\ Goto(c, "trips")
    /\ UNCHANGED <<gone, clock, revokedAt, trips, alerts, ev, seen, result>>

(* now := e.now()                                                          *)
ReadClock(c) ==
    /\ pc[c] = "now"
    /\ now' = [now EXCEPT ![c] = clock]
    /\ Goto(c, "trips")
    /\ UNCHANGED <<gone, clock, revokedAt, trips, alerts, ev, seen, result>>

(* Slips: the window's first instant is left out; the source is forgotten;
   the window is never looked at.                                          *)
InWindowExclusive(s, at) == {e \in trips : e.source = s /\ e.at > at - Window}
InWindowAnySource(s, at) == {e \in trips : e.at >= at - Window}
InWindowEver(s, at) == {e \in trips : e.source = s}

(* The trips of the source that the window still covers, and whether they
   call for an alert.                                                      *)
InWindow(s, at) == {e \in trips : e.source = s /\ e.at >= at - Window}

TripsBySource(c) ==
    /\ pc[c] = "trips"
    /\ \E o \in Outcomes(c) :
         /\ Statement(c, o)
         /\ IF o = "ok"
            THEN /\ seen' = [seen EXCEPT ![c] = InWindow(ev[c].source, now[c])]
                 /\ IF seen'[c] = {}
                    THEN Return(c, "quiet")
                    ELSE Goto(c, "alert") /\ UNCHANGED result
            ELSE Return(c, "error") /\ UNCHANGED seen
    /\ UNCHANGED <<clock, revokedAt, trips, alerts, ev, now>>

(* Slip: the agent is not revoked if somebody alarmed already.             *)
AlertWrittenOnce(c) ==
    IF /\ Severity(seen[c]) = "Critical"
       /\ ~\E k \in Calls : /\ alerts[k].source = ev[c].source
                            /\ alerts[k].severity = "Critical"
    THEN Goto(c, "revoke") /\ UNCHANGED result
    ELSE Return(c, "quiet")

(* The alert is written: a Critical one leads to the revocation.           *)
AlertWritten(c) ==
    IF Severity(seen[c]) = "Critical"
    THEN Goto(c, "revoke") /\ UNCHANGED result
    ELSE Return(c, "quiet")

(* The first statement of UpsertAlert: UPDATE alerts SET severity ...
   WHERE source = ... AND status = 'open' RETURNING id.  No row, and the
   second statement follows.  The slip forgets the source.                 *)
OpenAlertsOfAll(s) == {k \in Calls : alerts[k].status = "open"}
OpenAlerts(s) == {k \in Calls : alerts[k].source = s /\ alerts[k].status = "open"}

UpdateAlert(c) ==
    LET open == OpenAlerts(ev[c].source) IN
    /\ pc[c] = "alert"
    /\ \E o \in Outcomes(c) :
         /\ Statement(c, o)
         /\ alerts' = IF Applied(o)
                      THEN [k \in Calls |->
                              IF k \in open
                              THEN [alerts[k] EXCEPT !.severity = Severity(seen[c])]
                              ELSE alerts[k]]
                      ELSE alerts
         /\ IF o # "ok" THEN Return(c, "error")
            ELSE IF open = {} THEN Goto(c, "newalert") /\ UNCHANGED result
            ELSE AlertWritten(c)
    /\ UNCHANGED <<clock, revokedAt, trips, ev, now, seen>>

(* Slip: an alert that could not be written is only logged.                *)
InsertAlertLenient(c) ==
    /\ pc[c] = "newalert"
    /\ \E o \in Outcomes(c) :
         /\ Statement(c, o)
         /\ alerts' = IF Applied(o)
                      THEN [alerts EXCEPT ![c] =
                              [source |-> ev[c].source,
                               severity |-> Severity(seen[c]),
                               status |-> "open"]]
                      ELSE alerts
         /\ AlertWritten(c)
    /\ UNCHANGED <<clock, revokedAt, trips, ev, now, seen>>

(* The second statement of UpsertAlert: INSERT INTO alerts.                *)
InsertAlert(c) ==
    /\ pc[c] = "newalert"
    /\ \E o \in Outcomes(c) :
         /\ Statement(c, o)
         /\ alerts' = IF Applied(o)
                      THEN [alerts EXCEPT ![c] =
                              [source |-> ev[c].source,
                               severity |-> Severity(seen[c]),
                               status |-> "open"]]
                      ELSE alerts
         /\ IF o = "ok" THEN AlertWritten(c) ELSE Return(c, "error")
    /\ UNCHANGED <<clock, revokedAt, trips, ev, now, seen>>

(* The UPDATE of RevokeAgent.  It cannot be executed for a source that is
   not a uuid; if it touches no row the existence check follows.           *)
RevokeAgent(c) ==
    LET s == ev[c].source IN
    /\ pc[c] = "revoke"
    /\ \E o \in Outcomes(c) :
         /\ Statement(c, o)
         /\ revokedAt' = IF Applied(o) THEN RevokedBy(s, now[c]) ELSE revokedAt
         /\ IF o # "ok" \/ Row[s] = NotUuid THEN Return(c, "uncut")
            ELSE IF Registered(s) /\ ~Revoked(s) THEN Return(c, "revoked")
            ELSE Goto(c, "exists") /\ UNCHANGED result
    /\ UNCHANGED <<clock, trips, alerts, ev, now, seen>>

(* SELECT EXISTS: already revoked is a success, no such agent is not.      *)
AgentExists(c) ==
    /\ pc[c] = "exists"
    /\ \E o \in Outcomes(c) :
         /\ Statement(c, o)
         /\ Return(c, IF o # "ok" THEN "uncut"
                      ELSE IF Registered(ev[c].source) THEN "revoked"
                      ELSE "unregistered")
    /\ UNCHANGED <<clock, revokedAt, trips, alerts, ev, now, seen>>

EngineStep(c) ==
    \/ InsertTripEvent(c)
    \/ ReadClock(c)
    \/ TripsBySource(c)
    \/ UpdateAlert(c)
    \/ InsertAlert(c)
    \/ RevokeAgent(c)
    \/ AgentExists(c)

-----------------------------------------------------------------------------
(* A sensor calls Handle with a fresh event id and the time of its own
   observation, which need not agree with the clock of the process.        *)
Deliver(c) ==
    /\ pc[c] = "idle"
    /\ \E s \in Sources \cup {NoSource}, at \in 0..MaxTime :
         Begin(c, [id |-> c, source |-> s, at |-> at])

(* An event that was delivered before is delivered again.                  *)
Redeliver(c) ==
    /\ pc[c] = "idle"
    /\ \E d \in Calls : pc[d] # "idle" /\ Begin(c, ev[d])

(* An operator acknowledges or closes an alert in the database, which no
   code here does: it is no longer open.                                   *)
CloseAlert(k) ==
    /\ "triage" \in Faults
    /\ alerts[k].status = "open"
    /\ alerts' = [alerts EXCEPT ![k].status = "closed"]
    /\ UNCHANGED <<pc, gone, clock, revokedAt, trips, ev, now, seen, result>>

EngineInit ==
    /\ trips = {}
    /\ alerts = [c \in Calls |-> NoAlert]
    /\ ev = [c \in Calls |-> [id |-> c, source |-> NoSource, at |-> 0]]
    /\ now = [c \in Calls |-> 0]
    /\ seen = [c \in Calls |-> {}]
    /\ result = [c \in Calls |-> "none"]

Init == StoreInit /\ EngineInit

(* What happens to the engine from outside its handlers.                   *)
Environment ==
    \/ (Tick \/ Crash \/ \E c \in Calls : HangUp(c))
       /\ UNCHANGED <<trips, alerts, ev, now, seen, result>>
    \/ \E k \in Calls : CloseAlert(k)

(* Every call has been handled and the clock is at its bound.              *)
Rest ==
    /\ \A c \in Calls : pc[c] \in {"handled", "dead"}
    /\ clock = MaxTime
    /\ UNCHANGED vars

Next ==
    \/ \E c \in Calls : Deliver(c) \/ Redeliver(c) \/ EngineStep(c)
    \/ Environment
    \/ Rest

Spec == Init /\ [][Next]_vars

-----------------------------------------------------------------------------
(* The values the variables may take.                                      *)
DataTypeOK ==
    /\ gone \subseteq Calls
    /\ clock \in 0..MaxTime
    /\ revokedAt \in [Agents -> {NotCut} \cup 0..MaxTime]
    /\ trips \subseteq Event
    /\ alerts \in [Calls -> Alert]
    /\ ev \in [Calls -> Event]
    /\ now \in [Calls -> 0..MaxTime]
    /\ seen \in [Calls -> SUBSET Event]
    /\ result \in [Calls -> {"none", "error", "quiet", "revoked",
                             "unregistered", "uncut"}]

TypeOK ==
    /\ pc \in [Calls -> {"idle", "insert", "now", "trips", "alert", "newalert",
                         "revoke", "exists", "handled", "dead"}]
    /\ DataTypeOK

(* Handle returned without an error and without a failed revocation.       *)
Completed(c) == result[c] \in {"quiet", "revoked", "unregistered"}

(* The calls c and d brought two observations of one source that each
   other's window covers.                                                  *)
SameCampaign(c, d) ==
    /\ ev[c].source = ev[d].source
    /\ ev[c].id # ev[d].id
    /\ \A x, y \in {c, d} : ev[x].at >= now[y] - Window

(* No campaign escapes between two racing handlers: once both handlers of
   two trips of one source, spelled alike, within the window have returned
   without an error, the agent that the source names is revoked, in whatever
   order their statements interleaved (enforce.go, Handle: insert first,
   read afterwards).                                                       *)
NoCampaignEscapes ==
    \A c, d \in Calls :
        /\ Completed(c) /\ Completed(d)
        /\ SameCampaign(c, d)
        /\ Registered(ev[c].source)
        => Revoked(ev[c].source)

(* An agent is revoked only on the evidence of two different observations
   attributed to it, both stored: one event that is redelivered, or handled
   twice concurrently, never adds up to a campaign (event_id UNIQUE, ON
   CONFLICT DO NOTHING).                                                   *)
RevocationGrounded ==
    \A a \in Agents :
        revokedAt[a] # NotCut =>
            \E c, d \in Calls :
                /\ ev[c].id # ev[d].id
                /\ ev[c].source = ev[d].source
                /\ ev[c].source \in Sources /\ Row[ev[c].source] = a
                /\ {ev[c], ev[d]} \subseteq trips

(* Old observations do not add up to a campaign: the two trips that an agent
   is cut for both lie within the window before its revoked_at, although the
   sensors' clocks, the insertions and the reading of the clock in Handle
   come in any order (enforce.go, now; postgres.go, TripsBySource).        *)
RevocationTimely ==
    \A a \in Agents :
        revokedAt[a] # NotCut =>
            \E e, f \in trips :
                /\ e.id # f.id
                /\ e.source = f.source
                /\ e.source \in Sources /\ Row[e.source] = a
                /\ e.at >= revokedAt[a] - Window
                /\ f.at >= revokedAt[a] - Window

(* So are the alerts that the panel shows: a Critical row has two different
   stored trips of its source behind it, whoever wrote it last.            *)
CriticalGrounded ==
    \A k \in Calls :
        alerts[k].severity = "Critical" =>
            IsCampaign({e \in trips : e.source = alerts[k].source})

(* A trip that was handled without an error has left an alert of its own
   source in the table, open or closed, and never only an update of the
   alert of another source (postgres.go, UpsertAlert).                     *)
TripRaisesAlert ==
    \A c \in Calls :
        Completed(c) /\ ev[c] \in seen[c] =>
            \E k \in Calls : alerts[k].source = ev[c].source

(* The moment of the first revocation is evidence: no later alarm, and no
   handler that decided before it, moves or clears it (RevokeAgent).       *)
FirstRevocationKept ==
    [][\A a \in Agents : revokedAt[a] # NotCut => revokedAt'[a] = revokedAt[a]]_vars

(* The sources that have or had an alert: rows are updated, never deleted.  *)
Warned == {alerts[k].source : k \in Calls} \ {NoSource}

Verdict == INSTANCE Verdicts WITH
    recorded <- trips,
    warned <- Warned,
    cutAt <- revokedAt

(* The engine implements what Verdicts promises, whoever calls it: trips are
   stored once each and stay, and an agent is cut once, on two stored trips
   of one source within the window, and never before the source has its
   alert (enforce.go, Handle: insert, read, alert, then revoke).           *)
KeepsToVerdicts == Verdict!VerdictSpec

(* The handler has stored its trip and read its clock.                     *)
Stored(c) == pc[c] \in {"trips", "alert", "newalert", "revoke", "exists"} \/ Completed(c)

(* The handler of c will do no more for the agent: it has failed, or died.  *)
GaveUp(c) == result[c] \in {"error", "uncut"} \/ pc[c] = "dead"

(* Two stored trips of one source within the window lead to the revocation
   of the agent it names, unless one of their two handlers returns an error
   or fails to revoke, or its process ends. The caller drops a failed
   revocation (gateway.go:159), so that the log line of the engine is all
   there is of it.                                                         *)
CampaignIsCut ==
    \A c \in Calls : \A d \in Calls \ {c} :
        (/\ Stored(c) /\ Stored(d) /\ SameCampaign(c, d)
         /\ ev[c].source \in Sources /\ Registered(ev[c].source))
        ~> \/ /\ ev[c].source \in Sources /\ Registered(ev[c].source)
              /\ Revoked(ev[c].source)
           \/ GaveUp(c) \/ GaveUp(d)

(* The handler of c is about to store a trip, and another one of its source,
   that of d, is stored already.                                           *)
Follows(c, d) ==
    /\ pc[c] = "insert" /\ ev[d] \in trips
    /\ ev[d].source = ev[c].source /\ ev[d].id # ev[c].id

(* A stored trip counts whatever became of the handler that stored it.  If
   that one failed, could not revoke, or died with its process before the
   agent was cut, the next trip of the source makes up for it: its handler
   does not return without an error before the agent is cut, unless one of
   the two trips has left the window (enforce.go, Handle: what was begun is
   resumed by nothing else).                                               *)
NextTripCuts ==
    \A c \in Calls : \A d \in Calls \ {c} :
        [](Follows(c, d) =>
            [](/\ Completed(c) /\ Registered(ev[c].source)
               /\ \A x \in {c, d} : ev[x].at >= now[c] - Window
               => Revoked(ev[c].source)))

-----------------------------------------------------------------------------
(* One alert per source stays open: postgres.go says of UpsertAlert that an
   alarm remains a single row per source.                                  *)
OneOpenAlertPerSource ==
    \A j, k \in Calls :
        /\ alerts[j].status = "open" /\ alerts[k].status = "open"
        /\ alerts[j].source = alerts[k].source
        => j = k

(* Two trips of one source show as a Critical alert once their handlers have
   returned: enforce.go says "two or more of one source, one Critical".    *)
CampaignShowsCritical ==
    \A c, d \in Calls :
        /\ \A x \in Calls : ~InFlight(x) \/ pc[x] = "handled"
        /\ Completed(c) /\ Completed(d) /\ SameCampaign(c, d)
        => \E k \in Calls : /\ alerts[k].source = ev[c].source
                            /\ alerts[k].severity = "Critical"
=============================================================================
