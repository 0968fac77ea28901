------------------------------- MODULE Store -------------------------------
(***************************************************************************)
(* The PostgreSQL database as the goroutines of the gateway see it, and    *)
(* the agents table, which the proxy reads and the enforcement engine      *)
(* writes.  A goroutine serves one call: an HTTP request of an agent in    *)
(* module Gateway, an invocation of Engine.Handle in module Enforce.       *)
(*                                                                         *)
(* Every statement of internal/store is its own transaction                *)
(* (sql.DB without BeginTx), so a statement is one atomic step, and       *)
(* anything may happen between two statements of one call.                 *)
(***************************************************************************)
EXTENDS Integers

CONSTANTS
    Calls,      \* the calls served, each by a goroutine of its own
    Sources,    \* the values of the agent id header that are not empty
    NoSource,   \* the empty agent id
    Agents,     \* the rows of the agents table
    NoAgent,    \* a well-formed uuid that no row has
    NotUuid,    \* a text PostgreSQL cannot read as a uuid
    Row,        \* the agents row that a source names in "WHERE id = $1"
    Window,     \* the correlation window (enforce.DefaultWindow)
    MaxTime,    \* bound on the clock
    Faults      \* the disturbances a run admits

(* agents.id is a uuid and trip_events.source a text: two sources may name
   one row, and a source may name none.                                    *)
ASSUME RowAssumption == Row \in [Sources -> Agents \cup {NoAgent, NotUuid}]
ASSUME AgentsAssumption == NoAgent \notin Agents /\ NotUuid \notin Agents
ASSUME SourcesAssumption == NoSource \notin Sources
ASSUME TimeAssumption == Window \in Nat /\ MaxTime \in Nat
ASSUME FaultsAssumption ==
    Faults \subseteq {"store", "hangup", "crash", "triage", "policy"}

VARIABLES
    pc,         \* where each call is in its handler
    gone,       \* the calls whose request context is cancelled
    clock,      \* time.Now of the process, in steps that matter to Window
    revokedAt   \* agents.revoked_at

NotCut == -1    \* revoked_at IS NULL

(* A handler that has not begun or has ended.                              *)
Settled == {"idle", "denied", "released", "unsent", "dead"}
InFlight(c) == pc[c] \notin Settled

Goto(c, label) == pc' = [pc EXCEPT ![c] = label]

-----------------------------------------------------------------------------
(* The outcomes of a statement: it succeeds; it is lost (error, nothing
   applied); it is applied but the answer is an error, because the
   connection broke ("unsure") or the client hung up meanwhile ("cut").
   A cancelled context fails every later statement before it is sent.      *)
Outcomes(c) ==
    IF c \in gone
    THEN {"lost"}
    ELSE {"ok"} \cup (IF "store" \in Faults THEN {"lost", "unsure"} ELSE {})
                \cup (IF "hangup" \in Faults THEN {"cut"} ELSE {})

Applied(o) == o # "lost"

Statement(c, o) ==
    /\ o \in Outcomes(c)
    /\ gone' = IF o = "cut" THEN gone \cup {c} ELSE gone

(* The agents row of a source, and what AgentStatus reads in it.           *)
Registered(s) == Row[s] \in Agents
Revoked(s) == revokedAt[Row[s]] # NotCut

(* Slip: a later alarm moves the revocation.                               *)
RevokedAgain(s, at) ==
    IF Registered(s) THEN [revokedAt EXCEPT ![Row[s]] = at] ELSE revokedAt

(* UPDATE agents SET revoked_at = at WHERE id = s AND revoked_at IS NULL   *)
RevokedBy(s, at) ==
    IF Registered(s) /\ ~Revoked(s)
    THEN [revokedAt EXCEPT ![Row[s]] = at]
    ELSE revokedAt

-----------------------------------------------------------------------------
StoreInit ==
    /\ pc = [c \in Calls |-> "idle"]
    /\ gone = {}
    /\ clock = 0
    /\ revokedAt = [a \in Agents |-> NotCut]

(* Time passes, up to the bound.                                           *)
Tick ==
    /\ clock < MaxTime
    /\ clock' = clock + 1
    /\ UNCHANGED <<pc, gone, revokedAt>>

(* The client of c closes its connection: net/http cancels r.Context().    *)
HangUp(c) ==
    /\ "hangup" \in Faults
    /\ InFlight(c) /\ c \notin gone
    /\ gone' = gone \cup {c}
    /\ UNCHANGED <<pc, clock, revokedAt>>

(* The process ends with handlers still running: a listener failed, or the
   5 s of the graceful shutdown ran out.  Idle calls are served by the next
   process; the database keeps what was applied.                           *)
Crash ==
    /\ "crash" \in Faults
    /\ \E c \in Calls : InFlight(c)
    /\ pc' = [c \in Calls |-> IF InFlight(c) THEN "dead" ELSE pc[c]]
    /\ UNCHANGED <<gone, clock, revokedAt>>
=============================================================================
