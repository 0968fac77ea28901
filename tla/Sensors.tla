------------------------------ MODULE Sensors ------------------------------
(***************************************************************************)
(* The two sensors in front of the engine.  internal/honeypot provisions   *)
(* fake tools and decodes tool calls: a call of a fake tool is a trip.     *)
(* internal/detect decodes tool descriptions: a poisoned one is a trip.    *)
(* A goroutine decodes one observation and hands the event, if there is    *)
(* one, to Engine.Handle, as internal/store/e2e_test.go wires them.        *)
(* Operators retire and delete fake tools in the database meanwhile.       *)
(***************************************************************************)
EXTENDS Enforce

CONSTANTS
    Tools,      \* the names of tools, real or fake
    NoTool,     \* an observation that does not parse or names no tool
    Traps,      \* the ids that Provision may give
    NoTrap      \* trap_id IS NULL

ASSUME TrapsAssumption == NoTool \notin Tools /\ NoTrap \notin Traps

VARIABLES
    tools,      \* honeypot_tools
    handed,     \* the name of each trap that Provision has returned
    obs,        \* what each handler decodes
    trapOf      \* trip_events.trap_id of the event that a handler decoded

sensorVars == <<tools, handed, obs, trapOf>>
allVars == <<vars, sensorVars>>

(* The fields of a description that Scan goes through: the one text, and
   the lists param_docs and annotations, which it treats alike.            *)
Fields == {"description", "list"}

(* bait and retired are no part of an observation: the traps that the called
   tool stood for, and those that were retired, when it was called.        *)
Observation ==
    [kind : {"call", "description"}, tool : Tools \cup {NoTool},
     source : Sources \cup {NoSource}, at : 0..MaxTime, poison : SUBSET Fields,
     bait : SUBSET Traps, retired : SUBSET Traps]

NoTrapRow == [name |-> NoTool, status |-> "none"]

Stands(h) == tools[h].status \in {"live", "retired"}
Named(n) == {h \in Traps : Stands(h) /\ tools[h].name = n}
Handed(n) == {h \in Traps : handed[h] = n}
Retired == {h \in Traps : tools[h].status \in {"retired", "deleted"}}

-----------------------------------------------------------------------------
(* Slip: Provision hands the trap out although Create failed.              *)
HandedOutAnyhow(h, n, created) == [handed EXCEPT ![h] = n]

(* Provision returns the trap once Create has written it.                  *)
HandedOut(h, n, created) == IF created THEN [handed EXCEPT ![h] = n] ELSE handed

(* Provision: INSERT INTO honeypot_tools, whose name is UNIQUE.            *)
Provision(h) ==
    /\ tools[h].status = "none" /\ handed[h] = NoTool
    /\ \E n \in Tools, ok, applied \in BOOLEAN :
         /\ ok => applied
         /\ applied => Named(n) = {}
         /\ ok \/ "store" \in Faults \/ Named(n) # {}
         /\ tools' = IF applied
                     THEN [tools EXCEPT ![h] = [name |-> n, status |-> "live"]]
                     ELSE tools
         /\ handed' = HandedOut(h, n, ok)
    /\ UNCHANGED <<obs, trapOf>>

(* An operator retires a trap, or deletes its row, which the foreign key of
   trip_events forbids while a trip refers to it; no code here does.       *)
Withdraw(h) ==
    /\ Stands(h)
    /\ \/ tools[h].status = "live" /\ tools' = [tools EXCEPT ![h].status = "retired"]
       \/ /\ \A e \in trips : trapOf[e.id] # h
          /\ tools' = [tools EXCEPT ![h].status = "deleted"]
    /\ UNCHANGED <<handed, obs, trapOf>>

-----------------------------------------------------------------------------
(* Scan: some pattern matches in some field.                               *)
Scan(poison) == poison # {}

(* Decode returns: no event with an error, no event because there was no
   trip (trap.ErrNotATrip), or an event with a fresh id, however often the
   observation was decoded before.  Slip: it names the tool as its source. *)
Undecoded(c) == Return(c, "error") /\ UNCHANGED <<ev, trapOf>>
NotATrip(c) == Goto(c, "handled") /\ UNCHANGED <<result, ev, trapOf>>
DecodedByTool(c, o, h) ==
    /\ Begin(c, [id |-> c, source |-> o.tool, at |-> o.at])
    /\ trapOf' = [trapOf EXCEPT ![c] = h]
Decoded(c, o, h) ==
    /\ Begin(c, [id |-> c, source |-> o.source, at |-> o.at])
    /\ trapOf' = [trapOf EXCEPT ![c] = h]

(* A sensor passes what it saw to the decoder of its kind.  A description is
   decoded on the spot, the tool that was called is looked up.             *)
Observe(c) ==
    /\ pc[c] = "idle"
    /\ \E o \in Observation :
         /\ o.bait = IF o.kind = "call" THEN Handed(o.tool) \ Retired ELSE {}
         /\ o.retired = IF o.kind = "call" THEN Retired ELSE {}
         /\ o.kind = "call" => o.poison = {}
         /\ obs' = [obs EXCEPT ![c] = o]
         /\ IF o.tool = NoTool THEN Undecoded(c)
            ELSE IF o.kind = "call"
                 THEN Goto(c, "find") /\ UNCHANGED <<result, ev, trapOf>>
            ELSE IF Scan(o.poison) THEN Decoded(c, o, NoTrap) ELSE NotATrip(c)
    /\ UNCHANGED <<gone, clock, revokedAt, trips, alerts, now, seen, tools, handed>>

(* Slips: a failed query is no trip; a retired trap is one.                *)
LookedUpLenient(c, ok) ==
    IF ~ok \/ Named(obs[c].tool) = {} THEN NotATrip(c)
    ELSE \E h \in Named(obs[c].tool) :
            IF tools[h].status = "live" THEN Decoded(c, obs[c], h) ELSE NotATrip(c)
LookedUpRetired(c, ok) ==
    IF ~ok THEN Undecoded(c)
    ELSE IF Named(obs[c].tool) = {} THEN NotATrip(c)
    ELSE \E h \in Named(obs[c].tool) : Decoded(c, obs[c], h)

(* The rest of Decode, once FindByName has returned.                       *)
LookedUp(c, ok) ==
    IF ~ok THEN Undecoded(c)
    ELSE IF Named(obs[c].tool) = {} THEN NotATrip(c)
    ELSE \E h \in Named(obs[c].tool) :
            IF tools[h].status = "live" THEN Decoded(c, obs[c], h) ELSE NotATrip(c)

(* FindByName runs under context.Background().                             *)
FindByName(c) ==
    /\ pc[c] = "find"
    /\ \E ok \in BOOLEAN : (ok \/ "store" \in Faults) /\ LookedUp(c, ok)
    /\ UNCHANGED <<gone, clock, revokedAt, trips, alerts, now, seen, tools, handed, obs>>

(* Slip: trip_events has no foreign key.                                   *)
AnyTrap(c) == TRUE

(* The foreign key of trip_events: no trap, or one that has a row.         *)
KnownTrap(c) == trapOf[c] \in {NoTrap} \cup {h \in Traps : Stands(h)}

(* The INSERT of a trip whose trap was deleted since is refused.           *)
RefuseTrip(c) ==
    /\ pc[c] = "insert" /\ ~KnownTrap(c)
    /\ Return(c, "error")
    /\ UNCHANGED <<gone, clock, revokedAt, trips, alerts, ev, now, seen, sensorVars>>

SensorInit ==
    /\ Init
    /\ tools = [h \in Traps |-> NoTrapRow]
    /\ handed = [h \in Traps |-> NoTool]
    /\ obs = [c \in Calls |-> [kind |-> "call", tool |-> NoTool, source |-> NoSource,
                               at |-> 0, poison |-> {}, bait |-> {}, retired |-> {}]]
    /\ trapOf = [c \in Calls |-> NoTrap]

SensorRest ==
    /\ \A c \in Calls : pc[c] \in {"handled", "dead"}
    /\ clock = MaxTime
    /\ UNCHANGED allVars

SensorNext ==
    \/ \E c \in Calls :
          \/ Observe(c) \/ FindByName(c) \/ RefuseTrip(c)
          \/ /\ pc[c] = "insert" => KnownTrap(c)
             /\ EngineStep(c) /\ UNCHANGED sensorVars
    \/ \E h \in Traps : (Provision(h) \/ Withdraw(h)) /\ UNCHANGED vars
    \/ Environment /\ UNCHANGED sensorVars
    \/ SensorRest

SensorSpec == SensorInit /\ [][SensorNext]_allVars

-----------------------------------------------------------------------------
(* The values the variables may take.                                      *)
SensorTypeOK ==
    /\ pc \in [Calls -> {"idle", "find", "insert", "now", "trips", "alert", "newalert",
                         "revoke", "exists", "handled", "dead"}]
    /\ DataTypeOK
    /\ tools \in [Traps -> [name : Tools \cup {NoTool},
                            status : {"none", "live", "retired", "deleted"}]]
    /\ handed \in [Traps -> Tools \cup {NoTool}]
    /\ obs \in [Calls -> Observation]
    /\ trapOf \in [Calls -> Traps \cup {NoTrap}]

(* What makes an observation a trip: a pattern in a description, or a call of
   a tool that was a trap and had not been retired when it was called.     *)
Caused(c) ==
    IF obs[c].kind = "description"
    THEN obs[c].poison # {}
    ELSE /\ trapOf[c] \in Traps \ obs[c].retired
         /\ tools[trapOf[c]].name = obs[c].tool

(* Zero false positives of the sensors: an agent is cut only on account of
   two observations that both had a cause, each of its own agent; calls of
   real or retired tools and clean descriptions never count, whatever fails
   on the way (honeypot.go and detect/decoder.go, ErrNotATrip).            *)
CutsHaveCause ==
    \A a \in Agents :
        revokedAt[a] # NotCut =>
            \E c, d \in Calls :
                /\ c # d
                /\ \A x \in {c, d} : /\ Caused(x)
                                     /\ obs[x].source \in Sources
                                     /\ Row[obs[x].source] = a

(* No hit is swallowed: a call of a trap that was handed out and still has
   not been retired, or a poisoned description, is stored as a trip unless
   its handler reports an error, whatever was provisioned or withdrawn
   meanwhile and whichever statement failed (Provision, FindByName).       *)
HitsAreTripsOrErrors ==
    \A c \in Calls :
        /\ pc[c] = "handled" /\ result[c] # "error"
        /\ (obs[c].bait \ Retired) # {} \/ obs[c].poison # {}
        => ev[c] \in trips /\ ev[c].source = obs[c].source

(* A stored trip tells which fake tool was called: its trap has a row, with
   the name that the agent called, although rows are deleted while trips are
   on their way to the table (migrations/00003, 00004).                    *)
TripsKeepTheirTrap ==
    \A e \in trips :
        obs[e.id].kind = "call" =>
            /\ trapOf[e.id] \in Traps /\ Stands(trapOf[e.id])
            /\ tools[trapOf[e.id]].name = obs[e.id].tool
=============================================================================
