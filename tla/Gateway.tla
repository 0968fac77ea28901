------------------------------ MODULE Gateway ------------------------------
(***************************************************************************)
(* internal/gateway: the egress proxy.  Every request passes the mediator; *)
(* an allowed one is forwarded, a denied one is turned into a TripEvent,   *)
(* handled by the enforcement engine in the same goroutine, and answered   *)
(* with 403.  Requests are served concurrently over the same database.     *)
(***************************************************************************)
EXTENDS Mediator, Enforce

allVars == <<vars, mediatorVars>>

(* recordDenial: a fresh event that names the agent of the request.        *)
RecordDenial(c) ==
    /\ pc[c] = "record"
    /\ Begin(c, [id |-> c, source |-> req[c].source, at |-> clock])
    /\ UNCHANGED mediatorVars

(* What the engine returned is at most logged; the client gets its 403.    *)
WriteDenied(c) ==
    /\ pc[c] = "handled"
    /\ Goto(c, "denied")
    /\ UNCHANGED <<gone, clock, revokedAt, trips, alerts, ev, now, seen, result>>
    /\ UNCHANGED mediatorVars

(* Slip: a request that could not be forwarded is recorded like a denial.  *)
ForwardRecordsFailure(c) ==
    /\ pc[c] = "forward"
    /\ \/ c \notin gone /\ Goto(c, "released")
       \/ Goto(c, "record")
    /\ UNCHANGED <<gone, clock, revokedAt, trips, alerts, ev, now, seen, result>>
    /\ UNCHANGED mediatorVars

(* The reverse proxy sends the request to the approved target, unless the
   client has gone or no connection to the target can be made.  A request
   that was sent is released, whether the target answers it, fails it or
   stays silent: nothing that the handler waits for after that changes the
   state.                                                                  *)
Forward(c) ==
    /\ pc[c] = "forward"
    /\ \/ c \notin gone /\ Goto(c, "released")
       \/ Goto(c, "unsent")
    /\ UNCHANGED <<gone, clock, revokedAt, trips, alerts, ev, now, seen, result>>
    /\ UNCHANGED mediatorVars

(* The steps that the goroutine of c takes once the request is read, up to
   the answer of a denied one or the forwarding of an allowed one.         *)
DecideStep(c) ==
    \/ MediatorStep(c) /\ UNCHANGED <<trips, alerts, ev, now, seen, result>>
    \/ RecordDenial(c)
    \/ EngineStep(c) /\ UNCHANGED mediatorVars
    \/ WriteDenied(c)

ServeStep(c) == DecideStep(c) \/ Forward(c)

GatewayInit == Init /\ MediatorInit

(* Every call has been answered and the clock is at its bound.             *)
GatewayRest ==
    /\ \A c \in Calls : pc[c] # "idle" /\ ~InFlight(c)
    /\ clock = MaxTime
    /\ UNCHANGED allVars

GatewayNext ==
    \/ \E c \in Calls :
          \/ Arrive(c) /\ UNCHANGED <<trips, alerts, ev, now, seen, result>>
          \/ ServeStep(c)
    \/ Environment /\ UNCHANGED mediatorVars
    \/ EditAllowlist /\ UNCHANGED <<trips, alerts, ev, now, seen, result>>
    \/ GatewayRest

GatewaySpec == GatewayInit /\ [][GatewayNext]_allVars

(* net/http runs every handler, and every statement comes back with an
   answer or an error.  Forward has no fairness: neither the transport nor
   the context of the request bounds the time that a target may take.      *)
FairGatewaySpec == GatewaySpec /\ \A c \in Calls : WF_allVars(DecideStep(c))

-----------------------------------------------------------------------------
(* The values the variables may take.                                      *)
GatewayTypeOK ==
    /\ pc \in [Calls -> {"idle", "status", "allowlist", "receipt", "record",
                         "insert", "now", "trips", "alert", "newalert", "revoke",
                         "exists", "handled", "forward", "denied", "released",
                         "unsent", "dead"}]
    /\ DataTypeOK
    /\ req \in [Calls -> Request]
    /\ decision \in [Calls -> BOOLEAN]
    /\ receipts \subseteq Receipt
    /\ allowlist \subseteq Agents \X Targets

(* How far a call has come in the terms of module Egress.  A call that died
   after its denial was handed to the engine has been refused.             *)
Phase(c) ==
    CASE pc[c] = "idle" -> "new"
      [] pc[c] = "status" -> "open"
      [] pc[c] = "allowlist" -> "admitted"
      [] pc[c] = "receipt" -> IF decision[c] THEN "approved" ELSE "refused"
      [] pc[c] = "forward" -> "approved"
      [] pc[c] = "released" -> "released"
      [] pc[c] = "unsent" -> "abandoned"
      [] pc[c] = "dead" -> IF ev[c].source = NoSource THEN "abandoned" ELSE "refused"
      [] OTHER -> "refused"

Who(c) == IF req[c].source = NoSource THEN NoAgent ELSE Row[req[c].source]

Attested == {<<r.id, Row[r.source], r.target>> : r \in {x \in receipts : x.allowed}}

CutAgents == {a \in Agents : revokedAt[a] # NotCut}

Promise == INSTANCE Egress WITH
    phase <- [c \in Calls |-> Phase(c)],
    who <- [c \in Calls |-> Who(c)],
    what <- [c \in Calls |-> req[c].target],
    granted <- allowlist,
    attested <- Attested,
    cut <- CutAgents,
    Nobody <- NoAgent,
    Nothing <- Ambiguous

(* The gateway implements what Egress promises: whatever the interleaving,
   the failures and the crashes, a call that leaves was admitted while its
   agent was not cut, was on the allowlist, and has its permission stored;
   and an agent is cut only for two refused calls of its own.              *)
KeepsPromise == Promise!EgressSpec

(* The calls that name agent a, in whichever spelling.                     *)
CallsOf(a) == {c \in Calls : pc[c] # "idle" /\ Who(c) = a}

(* Zero false positives: an agent that only ever makes calls that its
   allowlist permits is never cut off, also if clients hang up while their
   calls are being decided (PROJECT_PLAN.md, definition of done 3).        *)
LegitNeverCut ==
    \A a \in Agents :
        (\A c \in CallsOf(a) : <<a, req[c].target>> \in allowlist)
            => revokedAt[a] = NotCut

(* A denial that the engine handled without an error is never forgotten: a
   second one of the same source within the window finds it, and the agent
   of the source is cut by the time both clients have their 403.  The source
   is the agent id as the header spells it: denials under two spellings of
   one id are denials of two sources, and are not added up (gateway.go,
   recordDenial; postgres.go, TripsBySource).                              *)
SecondDenialCuts ==
    \A c, d \in Calls :
        /\ pc[c] = "denied" /\ pc[d] = "denied"
        /\ Completed(c) /\ Completed(d)
        /\ SameCampaign(c, d)
        => ~Registered(req[c].source) \/ Revoked(req[c].source)

(* What is held against an agent is evidence: a stored trip stands for a
   request whose refusal has its signed receipt in the table, however late
   its client hung up.  Two cases are excepted: the receipt that the store
   fails to take, and the request that was never evaluated, because its path
   has no canonical form (mediator.go, Handle; gateway.go, ServeHTTP).     *)
TripsHaveReceipts ==
    "store" \notin Faults =>
        \A e \in trips :
            req[e.id].target # Ambiguous =>
                \E r \in receipts :
                    /\ r.id = e.id /\ ~r.allowed
                    /\ r.source = e.source /\ r.target = req[e.id].target

(* Every request that is read is decided: it reaches the reverse proxy, or
   has its 403, or ends with its process, however many of the statements on
   its way fail.  How long the target then takes is not bounded: New gives
   the reverse proxy http.DefaultTransport, which waits for a response
   without a timeout (gateway.go), and main.go limits only the reading of
   headers.                                                                *)
EveryCallDecided ==
    \A c \in Calls :
        pc[c] \in {"status", "record"} ~> pc[c] = "forward" \/ ~InFlight(c)

-----------------------------------------------------------------------------
(* Revocation stops all outgoing calls of the agent: postgres.go says so of
   RevokeAgent.                                                            *)
NothingLeavesAfterCut ==
    [][\A c \in Calls :
          pc[c] = "forward" /\ pc'[c] = "released" => ~Revoked(req[c].source)]_allVars
=============================================================================
