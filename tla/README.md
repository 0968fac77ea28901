# TLA+ specifications of gokkalkan

GÖKKALKAN is an egress gateway for AI agents. An agent sends its outgoing HTTP
calls to the gateway; a call leaves only if the agent is registered and not
revoked, an allowlist entry matches, and a signed receipt of the decision has
been stored. Every denied call is a *trip*; honeypot tools and poisoned tool
descriptions make trips too. An engine correlates trips: the second one of a
source within thirty minutes (`enforce.go:29`) is a campaign, and a campaign revokes the agent.

This directory specifies that behaviour, checks it with TLC on small instances,
and proves part of it with TLAPS for instances of every size. All paths below are
relative to the repository (`src/` is its root).

## 1. Inventory

| Component | State | Operations | Module | Status |
|---|---|---|---|---|
| enforcement engine, `internal/enforce/enforce.go` | none of its own; locals of a running `Handle` (`now`, the trips read) | `Handle` | `Enforce` | modelled |
| store, `internal/store/postgres.go` | tables `agents`, `agent_allowlist`, `trip_events`, `alerts`, `honeypot_tools` | `AgentStatus`, `Allowlist`, `Create`, `FindByName`, `InsertTripEvent`, `TripsBySource`, `UpsertAlert`, `RevokeAgent`; `Alerts` | `Store`, `Enforce`, `Mediator`, `Sensors` | partly: not `Alerts`, the listing of the panel |
| receipt store, `internal/store/receipts.go` | table `action_receipts` | `InsertReceipt`, `ReceiptsByAgent` | `Mediator`, `Audit` | modelled |
| mediator, `internal/mediator/mediator.go` | locals of a running `Handle` | `Handle` | `Mediator`, `Audit` | modelled |
| decision, `internal/proxy/proxy.go` | none | `Evaluate`, `matches`, `pathWithinPrefix` | `Mediator`, `Paths` | partly: not the comparison of methods and hosts without regard to case |
| transport, `internal/transport/normalize.go` | none | `FromRequest`, `CanonicalPath` | `Mediator`, `Paths` | partly: not the host's cut at its first colon |
| gateway, `internal/gateway/gateway.go` | none | `ServeHTTP`, `forward`, `recordDenial`, `writeDenied` | `Gateway`, `Egress`, `Paths` | modelled |
| receipts, `internal/receipt/receipt.go` | a key | `NewSignerFromSeed`, `Sign`, `Verify`, `canonicalBytes`, `normalizeTime` | `Receipts`, `Audit` | modelled |
| read API, `internal/api/api.go` | none | `handleReceipts`, `handleAlerts`, `/healthz` | `Audit` | partly: `handleReceipts` and `parseLimit` |
| honeypot provider and decoder, `internal/honeypot` | `honeypot_tools` | `Provision`, `Decode` | `Sensors` | modelled |
| poisoning detector, `internal/detect` | none | `Scan`, `Decode` | `Sensors` | partly: which text a regular expression matches is an input |
| process, `cmd/gokkalkan/main.go` | two HTTP servers, a key | start, `serve`, shutdown | `Store`, `Audit` | partly: start, its refusals and the end; not the order and budget of the two shutdowns |
| configuration, `internal/config` | read once at start | `Load` | `Audit` | partly: the missing seed; the rest is defaults |
| `gokturk-core` (`trap`, `correlate`) | none | `correlate.Evaluate`, `trap.Decoder` | `Enforce`, `Sensors` | external: modelled from its use and from the tests here |

### How the parts interact

`net/http` runs a goroutine for each request. It calls, one after another and
under the context of the request:

    gateway.ServeHTTP
      mediator.Handle        transport.FromRequest                (no I/O)
                             proxy.Evaluate: AgentStatus          statement 1
                                             Allowlist            statement 2
                             receipt.Sign                         (no I/O)
                             InsertReceipt                        statement 3
      allowed:  forward      the reverse proxy sends the request
      denied:   recordDenial
                enforce.Handle: InsertTripEvent                   statement 4
                                now()
                                TripsBySource                     statement 5
                                correlate.Evaluate                (no I/O)
                                UpsertAlert: UPDATE, INSERT       statements 6, 7
                                RevokeAgent: UPDATE, SELECT       statements 8, 9
                writeDenied  403

A reader of the evidence calls `api.handleReceipts`, which reads `action_receipts`
by agent, newest first. A sensor passes what it saw to a decoder:

    honeypot.Decode  FindByName                       a call of a tool
    detect.Decode    Scan (no I/O)                    a description of a tool
      a hit:  enforce.Handle                          statements 4-9
    honeypot.Provision  Create                        a new fake tool

The goroutines share nothing but the database. No two statements are in one
transaction, there is no lock, no queue and no retry. Revocation reaches the
other requests only through `agents.revoked_at`, which statement 1 reads.

### What is hard here

* **Interleaving.** Two denials of one source run statements 4–9 concurrently.
  Each must find the other, or neither raises the campaign. `enforce.go` relies on
  the order "insert, then read".
* **Stale reads.** The status read by statement 1 is used after statements 2
  and 3; the trips read by statement 5 decide what statements 6–9 write.
* **Partial failure.** Any statement may be lost, or be committed while its answer
  is lost. A client that hangs up cancels the context of all later statements.
  The process may end between any two.
* **Fail-closed with consequences.** Every failure before `forward` is a denial,
  every denial is a trip, two trips revoke. What must not count against an agent
  is the point of the "zero false positives" of `PROJECT_PLAN.md`.
* **Things that go while they are needed.** A fake tool is retired or deleted
  between its call, its lookup and the insert of its trip; a process ends and its
  successor has another key, while the receipts of the first are still read.
* **Boundaries.** The window is closed at its start; times come from different
  clocks (the sensor's and the process's).

The hazards, each at its line and with the properties that watch it, are listed in
`PROJECT.json`.

### What makes each component correct

* engine: no campaign escapes (`NoCampaignEscapes`, `CampaignIsCut`), one that its
  handlers left unfinished is cut by the next trip (`NextTripCuts`), none is made up (`RevocationGrounded`, `CriticalGrounded`) or put together from old observations
  (`RevocationTimely`), the first revocation stays (`FirstRevocationKept`), a trip
  leaves an alert of its own source (`TripRaisesAlert`), and all this in the order recorded, warned of, cut (`KeepsToVerdicts`).
* mediator and decision: nothing leaves without a live permission and stored
  evidence (`KeepsPromise`).
* gateway: the two composed; legitimate agents are never cut (`LegitNeverCut`), what
  is held against one is evidence (`TripsHaveReceipts`), two denials of one source cut
  (`SecondDenialCuts`), every request is decided (`EveryCallDecided`).
* transport and path matching: what is decided, signed and sent is one path
  (`DecisionFollowsSegments`, `MatchedAsSigned`, `TargetDecodesSigned`).
* receipts, receipt store and read API: a stored receipt verifies
  (`EvidenceVerifies`), for one call only (`SignatureNamesOneReceipt`), and a
  reported decision can be read back, in answers that keep to what was asked for and
  to the cap (`DecisionsAreAuditable`).
* sensors: no hit is swallowed (`HitsAreTripsOrErrors`), nothing else cuts an agent
  (`CutsHaveCause`), and a trip tells which trap it was (`TripsKeepTheirTrap`).

## 2. Modules

    Verdicts               what the engine promises
    Store                  the agents table, the clock, statements, process end
      Enforce              Engine.Handle, its callers, and Spec
        EnforceProofs      theorems about Spec
          AlertProofs      more of them: alerts and the window
        Sensors            honeypot and detector in front of Enforce: SensorSpec
          SensorProofs     theorems about SensorSpec (also EXTENDS AlertProofs)
      Mediator             mediator.Handle with proxy and transport
        Gateway            Mediator and Enforce composed: GatewaySpec
          GatewayProofs    theorems about GatewaySpec (also EXTENDS EnforceProofs)
            EgressProofs   the proof that Gateway implements Egress
            LegitProofs    evidence of every trip, no false positives, and the
                           engine inside the gateway (also EXTENDS AlertProofs)
    Egress                 what the gateway promises
    Paths                  the path of a call: parsed, decided, signed, sent
      PathProofs           theorems about it, for paths of every length
    Receipts               what is signed of a receipt, and when it verifies
      Audit                receipts signed, stored, read back: Spec
        AuditProofs        theorems about that Spec
    MCEnforce, MCGateway, MCAudit, MCSensors    the small instances

### Store

A *call* is one run of a handler in a goroutine of its own. `pc[c]` is the label of
the statement that call `c` makes next. `Statement(c, o)` is a statement with its
outcome `o`:

| outcome | meaning | database changed | the code sees |
|---|---|---|---|
| `ok` | done | yes | nil |
| `lost` | refused or not sent | no | error |
| `unsure` | the connection broke after the commit | yes | error |
| `cut` | the client hung up while it ran | yes | error, and so for every later statement |

`gone` holds the calls whose context is cancelled. `Faults` selects what a run
admits: `store` (lost, unsure), `hangup`, `crash`, `triage` (an operator closes an
alert), `policy` (an operator edits the allowlist). `Crash` ends every handler that
is running: `serve` returns an error, or the five seconds that both servers share
at shutdown run out (`main.go`). The database keeps what was applied.

`agents.id` is a `uuid`, `trip_events.source` a `text`. `Row` maps a source to
the row it names; several spellings may name one row, a well-formed id may name
none (`NoAgent`), a text may be no uuid at all (`NotUuid`, the statement fails).

### Enforce

One action per statement of `Engine.Handle`: `InsertTripEvent`, `ReadClock` (the
`e.now()` between two statements), `TripsBySource`, `UpdateAlert` and `InsertAlert`
(the two statements of `UpsertAlert`), `RevokeAgent` and `AgentExists` (the two of
`RevokeAgent`). `Return` records what `Handle` returns: `quiet`, `revoked`,
`unregistered` (`RevokeErr` for an unknown agent), `uncut` (another `RevokeErr`),
`error`. In `Spec` a sensor calls `Handle` with fresh events (`Deliver`), whose
`observed_at` is its own and any time within the bound, or repeats an event
(`Redeliver`).

### Verdicts

The abstract specification of the engine knows nothing of handlers. An observation is
recorded, once per id and for good; the source of a recorded one may be warned of; and
an agent is cut off once, on two recorded observations of one source that names it, both
within the window before the cut, when that source has been warned of.
`Enforce!Verdict` maps the tables to it: `trip_events`, the sources that have or had an
alert, and `revoked_at`. `KeepsToVerdicts` is the refinement, of `Spec`, of `GatewaySpec`
and of `SensorSpec`: the mapping does not look at handlers, so the three are the same
formula.

### Mediator, Gateway

`Arrive` is `transport.FromRequest`, `AgentStatus` and `Allowlist` are
`proxy.Evaluate`, `InsertReceipt` is the rest of `mediator.Handle` with its
fail-closed rule. A target stands for a canonical method, host and path; an
allowlist entry for the targets it matches. `Gateway` composes `MediatorStep` and
`EngineStep` with `RecordDenial` and `WriteDenied` to `DecideStep`, all that a goroutine
does until the call is denied or forwarded, and with `Forward`. A forwarded call is
`released` once it is sent, whatever the target makes of it, and `unsent` when no
connection can be made or its client has gone. A call's whole life is in one `pc`,
because one goroutine runs it.

### Egress

The abstract specification knows nothing of statements. A call is opened,
admitted (its agent is not cut *at this moment*), approved (its target is granted
*at this moment*), attested and released; or refused; an agent is cut once two of
its calls were refused. A call that is not sent, or whose process ends, is
abandoned. `Gateway!Promise` maps the detailed state to it and
`KeepsPromise` is the refinement. The mapping counts a call whose handler died
inside the engine as refused, since its denial had been decided.

### Paths

`Mediator` treats a target as one value. `Paths` follows the path inside it through
the four packages that handle it: `net/url` decodes the request line (external),
`FromRequest` refuses an ambiguous path or makes it canonical, `Matches` compares it
with the prefix of an allowlist entry, `Forward` writes it into the URL that the
reverse proxy sends. Paths are sequences of characters because boundaries are the
question: `a` stands for any character that means nothing, `.` and `/` for
themselves, and `%2e` *as a character of a decoded path* for everything that must
not be left in one (escaped metacharacters, a backslash, a NUL). On the wire there
are the escapes of the slash, the dot and, doubly escaped, the dot. `path.Clean` is three
folds: `Split` into segments, `Resolved` for dots and double dots, `Text` to put the
rest together. No definition is recursive, so that they can be proved about.

### Receipts and Audit

`Mediator` knows a receipt as a record and its signature not at all. `Receipts` has
what is signed: `CanonicalBytes` is the sequence of length-prefixed fields, the byte
of the decision and the microseconds, in the order of `canonicalBytes`; a text is
the sequence of its bytes, a length or a time is one element where the code writes
eight bytes. Times count quarters of a microsecond, so that they lie on, below, half
way to and above what `timestamptz` holds; `NormalizeTime` rounds as `Time.Round`
does, and `Column` is what PostgreSQL may keep of a time that is handed to it.

`Audit` is the life of the evidence. `Handle` and `InsertReceipt` are
`mediator.Handle` up to its signature and from there, with the statement that may be
lost or applied without an answer; `HandleReceipts` is the read API with `parseLimit`
(`BadLimit` refuses, `ParseLimit` caps) and `ReceiptsByAgent`: rows of one time come in any order, and the limit cuts. `Start`
refuses to run without a well-formed seed; `Stop` ends the handlers in flight, and the
next `Start` may have another key.

### Sensors

`Provision` is the provider with its `INSERT`, which a taken name refuses, and
`Withdraw` the operator who retires or deletes a fake tool. `Observe` gives a handler
an observation and decodes what can be decoded on the spot; `FindByName` is the
lookup and the rest of `honeypot.Decode`. From then on the handler is one of `Enforce`.
`RefuseTrip` is the foreign key of `trip_events`: a trip whose trap was deleted
meanwhile is an error of `Handle`. `obs[c].bait` and `obs[c].retired` remember, for
the properties, which traps the tool stood for when it was called; no action of the
code reads them.

The mutated forms of definitions that the checks substitute stand before the
definition they change, and are called slips in the comments.

## 3. What the checks show

| Run | Instance | Properties | What it shows |
|---|---|---|---|
| `enforce_race` | 3 handlers, 2 spellings of 1 agent, window 1, clock 0..2 | `TypeOK`, `NoCampaignEscapes`, `RevocationTimely`, `FirstRevocationKept`, `KeepsToVerdicts` | The races of `Handle` while the window expires; the engine implements `Verdicts` |
| `enforce_faults` | 3 handlers; a registered and a malformed source; all faults, window 0 | `NoCampaignEscapes`, `RevocationGrounded`, `CriticalGrounded`, `TripRaisesAlert` | The same under failures, with redelivery |
| `gateway_race` | 3 requests of 1 agent, whose id has 2 spellings; hang-ups | `GatewayTypeOK`, `SecondDenialCuts`, `LegitNeverCut`, `TripsHaveReceipts`, `KeepsPromise`, `KeepsToVerdicts` | The composition implements `Egress` and `Verdicts`, cuts after two handled denials of one spelling and for nothing less, and has signed evidence of every trip |
| `gateway_faults` | 2 requests, a registered and an unknown agent, store faults, hang-ups, process end, allowlist edits; fair | `KeepsPromise`, `EveryCallDecided`, `NextTripCuts`, `CampaignIsCut` | The refinement holds under every failure, every request is decided, and a stored campaign of one source ends in a revocation unless a handler of it fails or dies, which the next trip makes up for |
| `paths` | request paths of up to 5 characters and escapes, prefixes of up to 3 | `DecisionFollowsSegments`, `MatchedAsSigned`, `TargetDecodesSigned` | The decision agrees with its definition on segments, and one path is matched, signed and decoded by the target |
| `audit` | 3 calls of 2 agents, 2 keys, a time on and one between microseconds, limits absent, malformed, zero and beyond the cap, statements fail | `TypeOK`, `EvidenceVerifies`, `SignatureNamesOneReceipt`, `DecisionsAreAuditable` | Stored evidence verifies for one call only, and reported decisions can be read back in answers within the cap |
| `sensors` | 2 observations, 2 traps, 2 names, store faults, process end | `SensorTypeOK`, `CutsHaveCause`, `HitsAreTripsOrErrors`, `TripsKeepTheirTrap`, `KeepsToVerdicts` | Hits become trips or errors, nothing else cuts an agent, and the engine still implements `Verdicts` |
| `enforce_two_alerts` | 2 handlers | `OneOpenAlertPerSource` | **violated**, see below |
| `enforce_downgrade` | 2 handlers | `CampaignShowsCritical` | **violated** |
| `gateway_cut_race` | 3 requests, 2 targets | `NothingLeavesAfterCut` | **violated** |
| `gateway_legit_store` | 2 requests, store faults | `LegitNeverCut` | **violated** |
| `paths_wire` | request paths of up to 4, prefixes of up to 1 | `TargetSplitsSigned` | **violated** |

### Bounds

Three calls are the least that show a campaign (two) together with a third party:
a late handler, a redelivery, a call already admitted. Two calls are enough where
the property is about two and the faults multiply the states. `NextTripCuts` is one of
these: a handler that died after it stored its trip, and the next one. The theorem
`NextTripAlwaysCuts` has it for any number. One agent under two names shows aliasing,
in `enforce_race` and `gateway_race`; agents do not interact otherwise. With `Window = 1` and the
clock up to 2, an event can be exactly on the edge of the window, beyond it, and
ahead of the clock. Runs with `MaxTime = 0` ask questions in which time plays no
part: all trips are in the window. Paths of five characters hold two segments with
a double dot between them, or a name and its extension; a prefix of three holds a name
and a dot segment, is rooted or not, and may be empty.

In `audit`, the default length of an answer and its cap are 1, so that two calls of one
agent overflow it and a limit of 3 has to be cut down; the third call, of another agent, and
their order show that an answer leaves the other
agent out. The bytes of the texts are 1 and 2, so that a text can be
mistaken for a length or for the byte of the decision, and 2 quarters of a microsecond
are half way. In `sensors`, two observations are a campaign, and two traps with two
names let a name be given again after its first trap was deleted. Time plays no part
there (`MaxTime = 0`).

Symmetry of the calls, and in `gateway_race` of the two spellings, is used only in runs
without liveness properties. Deadlock is checked in every run: `Rest`, `GatewayRest`
and `SensorRest` are the only stuttering steps, allowed once every call is done (in
`Paths`, `Done`; a process of `Audit` can always start or stop).

### Fairness

`FairGatewaySpec` assumes weak fairness of each call's own steps up to its decision
(`DecideStep`): the Go scheduler runs each runnable goroutine, and PostgreSQL answers or
fails each statement (the driver turns a broken connection into an error). `Forward` has
no fairness: the reverse proxy uses `http.DefaultTransport`, which waits for a target
without a bound (`gateway.go:77-79`), and no timeout covers the handler
(`main.go:97-101`). A call that is forwarded may stay in flight, and `EveryCallDecided`
ends where forwarding begins. No outcome is assumed fair:
statements may fail for ever. Arrivals, time, faults and operators have no fairness.

### Disagreements with the documentation

* `enforce_two_alerts`: `UpsertAlert` updates, then inserts, without transaction
  or unique index. Two first trips that interleave leave two open rows for one
  source; the comment on `UpsertAlert` needs a single one.
* `enforce_downgrade`: a handler that read one trip may write `High` after the
  handler that read two wrote `Critical`. The agent is revoked, but no alert says
  that there was a campaign.
* `gateway_cut_race`: a call that passed statement 1 before the revocation is
  forwarded after it. `RevokeAgent` is documented as stopping all outgoing calls.
  What does hold is in `Egress`: the agent was uncut when the call was admitted.
* `gateway_legit_store`: when receipts cannot be stored for a moment but trips can,
  two permitted calls are denied, counted as unauthorized access, and revoke their
  agent for good. `LegitNeverCut` holds for hang-ups (`gateway_race`) because
  the cancelled context also keeps the trip from being stored.
* `paths_wire`: `forward` replaces `URL.Path` and keeps `URL.RawPath`. If the path of
  the request is canonical already but was written with escapes, `net/url` writes
  those escapes to the target: `/a%2fa` is decided and signed as `/a/a` and sent as
  `/a%2fa`. The target decodes the same characters (`TargetDecodesSigned`), but finds
  one segment where two were signed.

## 4. What is proved

`EnforceProofs` proves for every set of calls, sources and agents, every `Row`,
window, clock bound and selection of faults (the named assumptions of `Store`):

* `TypeCorrect`: `Spec => []TypeOK`.
* `CampaignsNeverEscape`: `Spec => []NoCampaignEscapes`.
* `RevocationsAreGrounded`: `Spec => []RevocationGrounded`.
* `FirstRevocationStays`: `Spec => FirstRevocationKept`.
* `NextTripAlwaysCuts`: `Spec => NextTripCuts`.

`NoCampaignEscapes` speaks only of handlers that have returned and is not
inductive. `IInv` strengthens it:

* `EventsInv`: equal event ids mean equal events, and every stored trip was given
  to some handler. Without it, `ON CONFLICT DO NOTHING` could drop a
  *different* trip under an id that is already taken.
* `HandlingInv`: a handler past its insert has its trip stored; one that has not
  returned has no result.
* `ReadingInv`: what a handler read was stored, and **of any two handlers of one
  campaign that have both read, at least one has read both trips**. This is the
  argument for insert-before-read: the one that reads last finds the other's trip,
  because both were stored before either of them read.
* `CuttingInv`: a handler that read a campaign cannot return without error unless
  the agent is revoked or does not exist, and revocation is never undone.
* `RevocationGrounded` itself.

`NextTripCuts` is about behaviours that pass through a state in which a handler is about
to store a trip and another trip of its source is stored (`Follows`). From there on
`Followed` is kept by every step: the other trip stays stored, and once the handler has read,
it has read each of the two that its window covers. With `CuttingInv`, a handler that has
read both cannot return without an error before the agent is cut.

The lemmas are stated over `Shape`, the part of the types the steps rely on, and over
the labels of the engine only. Those about a handler's step (`EngineStepIInv`), the
beginning of one (`BeginIInv`) and steps that move none (`QuietIInv`) therefore
apply to the gateway as well.

`GatewayProofs` uses them to prove, for every set of calls, sources, agents and
targets:

* `GatewayTypeCorrect`: `GatewaySpec => []GatewayTypeOK`.
* `SecondDenialAlwaysCuts`: `GatewaySpec => []SecondDenialCuts`.
* `NextDenialCuts`: `GatewaySpec => NextTripCuts`.

Its invariant `GatewayInv` adds `AskedInv` to the types and `IInv`: a call that is being
decided names an agent and an unambiguous target (so its receipt is of its type), a
call about to leave was allowed and has its evidence stored, and an event is the
denial of its own call, with the agent of that call.

`EgressProofs` proves `GatewayImplementsEgress`: `GatewaySpec => KeepsPromise`, the
refinement. One lemma per action names the step of `Egress` it is (`ArriveOpens`,
`AgentStatusAdmits`, `AllowlistApproves`, `InsertReceiptAttests`, `EngineStepCuts`,
`ForwardReleases`, `CrashAbandons`; `DenialStutters`, `Stutter`). The step that cuts an
agent needs `RevocationGrounded` of the state it reaches: two stored events with
different ids and one source are two refused calls of that agent, by `AskedInv`.

`AlertProofs` adds, for the same `Spec` and from `Invariance`:

* `RevocationsAreTimely`: `Spec => []RevocationTimely`.
* `CriticalsAreGrounded`: `Spec => []CriticalGrounded`.
* `TripsRaiseAlerts`: `Spec => []TripRaisesAlert`.
* `EngineKeepsToVerdicts`: `Spec => KeepsToVerdicts`, the refinement of `Verdicts`.

Its invariant `ReportInv` says that what a handler read lies within the window before
its clock (`WindowInv`: the clock is read before the trips, and an agent is cut with
that clock), and that a handler past its alert's statements leaves an alert of its
source (`AlertedInv`: rows are updated or closed, but neither deleted nor given to another source). The refinement
has one lemma per statement that writes a table: `InsertRecords`, `InsertWarns`,
`RevokeCuts`. The last needs all of it: the handler has read two trips (`CuttingInv`) that
are stored (`ReadingInv`) and lie within the window (`WindowInv`), and has left an alert
(`AlertedInv`). Everything else stutters (`JudgesNothing`).

`LegitProofs` proves for the gateway, under the named assumptions of each theorem:

* `TripsAreEvidenced`: if `Faults` has no `"store"`, `GatewaySpec => []TripsHaveReceipts`.
* `LegitIsNeverCut`: if it has no `"policy"` either, `GatewaySpec => []LegitNeverCut`.
* `CutsAreEvidenced`: if it has no `"store"`, every revocation is backed by the signed
  receipts of two refused calls of that agent (`CutsHaveReceipts`, stated in
  `LegitProofs`), unless their paths could not be signed.

`GroundInv` follows a refusal from the decision to the trip: its receipt is stored and
the allowlist does not permit the call, or its agent was cut before, **unless its client has
gone**. That exception is the point: a cancelled context makes `Handle` of the mediator
fail for a permitted call, but cancels the insert of its trip too. The assumption
about the store is needed, as `gateway_legit_store` shows; the one about the policy is,
because a call refused before it was permitted would count. Section 5 names a failure of
the store that the assumption excludes and that no fault of the database is needed for.

`LegitProofs` also takes the lemmas of `AlertProofs` into the gateway, under all faults:

* `GatewayKeepsToVerdicts`: `GatewaySpec => KeepsToVerdicts`.
* `DenialsRaiseAlerts`: `GatewaySpec => [](TripRaisesAlert /\ CriticalGrounded)`.

`SensorProofs` proves for every number of observations, traps and names, under
all faults:

* `SensorTypeCorrect`: `SensorSpec => []SensorTypeOK`.
* `CutsAlwaysHaveCause`: `SensorSpec => []CutsHaveCause`.
* `HitsAreAlwaysTripsOrErrors`: `SensorSpec => []HitsAreTripsOrErrors`.
* `TripsAlwaysKeepTheirTrap`: `SensorSpec => []TripsKeepTheirTrap`.
* `SensorsKeepToVerdicts`: `SensorSpec => KeepsToVerdicts`.
* `HitsAreNeverForgotten`: `SensorSpec => [](NoCampaignEscapes /\ TripRaisesAlert)`.

`SensorInv` takes `IInv` of the engine and adds: a trap that was handed out has, or had, a
row of its name, and names are unique among the rows that stand (`TrapsInv`); a handler
without a result had nothing to report (`ObservedInv`); an event that was decoded has
its cause (`DecodedInv`); an engine that did not return an error has stored the trip
(`StoredInv`). `CutsHaveCause` follows from the engine's `RevocationGrounded`: the two
events behind a revocation are those of two handlers.

`AuditProofs` proves for every number of calls, agents, keys, limits and times, and for
texts of every length:

* `AuditTypeCorrect`: `Spec => []TypeOK`.
* `EvidenceAlwaysVerifies`: `Spec => []EvidenceVerifies`.
* `SignatureAlwaysNamesOneReceipt`: `Spec => []SignatureNamesOneReceipt`.
* `DecisionsAreAlwaysAuditable`: `Spec => []DecisionsAreAuditable`.

Its invariant `AuditInv`: what is in the table is *proper* (`TableInv`: it verifies, and
rounding its time again changes nothing, neither in `Sign` nor in the column), so is what
a handler has signed (`SignedInv`), and a reported decision is that of a stored receipt
(`ReportedInv`). The third theorem rests on `BytesNameOneReceipt`, that `CanonicalBytes` is
injective: fields are read off the front one by one, each as long as its length says,
which needs no induction because a receipt has a fixed number of fields.

`PathProofs` proves for request paths, escapes and prefixes of every length:

* `DecisionsFollowSegments`: `Spec => []DecisionFollowsSegments`.
* `PathsAreMatchedAsSigned`: `Spec => []MatchedAsSigned`.
* `TargetsDecodeSigned`: `Spec => []TargetDecodesSigned`.
* `TargetsStayWithinGrant`: what the target decodes is clean and lies, by segments, under
  the prefix of the entry (`ReachesOnlyTheGranted`, stated in `PathProofs`).
* `WithinPrefixIsSegments`: the comparison of texts in `pathWithinPrefix` says of *every*
  path and prefix, reachable or not, what a comparison of their resolved segments says.
* `CleanOnce`: cleaning a path again changes nothing.

Its invariant `PathInv` adds to the types that what was signed is the cleaned path of the
request and had one meaning (`SignedIsClean`), and that nothing is allowed before it is
decided or sent without being allowed (`AllowedInv`). The work is in the operators. The induction theorems of the
library have an operator as a parameter, which the provers cannot instantiate; so
induction over sequences is derived for *sets* (`LeastNumber`, from the well-foundedness
of `<`, then `NumberInduction` and `SeqInduction`), and that a fold makes one step
per element follows from the definition of `FoldLeft` (`SplitSteps`, `ResolvedSteps`,
`TextSteps`). With them: splitting the text of some plain segments gives them back
(`SplitText`), so `Resolve(Clean(p)) = Resolve(p)` (`ResolveClean`); and the text of one
list of segments with a slash begins the text of another exactly if the list begins the
other (`PrefixOfText`, `PrefixOfSegments`), which is why the code may compare texts.

Only model-checked: liveness (`EveryCallDecided`, `CampaignIsCut`), which is out of
the prover's reach here, as is anything with `ENABLED`. Every safety property that a
passing run checks is stated by a theorem.

## 5. Abstractions

* A signature is the key with the bytes it signs: ed25519 and SHA-256 are taken as
  injective, and base64 and hex with them. Signing always succeeds: since Go 1.24 `crypto/rand` does not return errors, and
  a process without a valid key does not start.
* Reasons, techniques, titles, raw payloads and log lines are left out.
* The primary keys of trips and alerts are the calls that made them.
* What a statement does with its data is that it succeeds or fails as `Faults` admits, not
  that some data always fails. One case of this is real: a byte of the path that is not
  UTF-8 (`%ff`) is refused by PostgreSQL as `text`, so that `InsertReceipt` fails for such a
  call every time, while the trip of the denial is stored, since `json.Marshal` replaces the
  byte. It is a lost receipt of `"store"`, and thus outside `LegitNeverCut` and
  `TripsHaveReceipts` as `gateway_race` checks them, and outside `TripsAreEvidenced`,
  `LegitIsNeverCut` and `CutsAreEvidenced`; `gateway_legit_store` shows what it leads to.
* Trips are correlated by the text of their source, as the code does (`postgres.go:158`), and
  the properties are stated per source. `agents.id` is a `uuid`, so that two spellings of an
  id name one agent with two sources: a denial under each does not cut it.
* A failed revocation is the engine's to report: `CampaignIsCut` excuses a handler that
  could not revoke, of which the gateway keeps no trace (`gateway.go:159` drops
  `RevokeErr`) beyond the engine's log line. `NextTripCuts` says what repairs it.
* A statement is atomic, as PostgreSQL's read-committed single statements on one
  row, or reading one snapshot, are. A plain SELECT may miss rows that commit during
  its execution: that is the order "read, then insert".
* `time.Now` is a counter that may advance between any two steps. It does not go
  back.
* In `Spec` of `Enforce` the engine is fed with every event a sensor can produce;
  `Sensors` restricts them to those that the decoders do produce.
* What a generated fake tool is called and described as is data: names are chosen
  freely from `Tools`. A description has one text and one list of texts, because
  `Scan` treats `param_docs` and `annotations` alike.
* No code of the repository retires or deletes a fake tool, or edits the allowlist; the
  schema and the decoder provide for it. An operator does it in the models.

### Not modelled

* `handleAlerts` and `Store.Alerts`: a listing without a filter, with the same
  `parseLimit` as the receipts and no promise of its own.
* The order of the two shutdowns and their common five seconds (`main.go`): all that a
  request can see of it is that its handler goes on or ends, which `Crash` and `Stop`
  admit at any moment. `/healthz` reads nothing that changes.
* The patterns of `detect.go`: regular expressions over text.
* The host's cut at its first colon, and methods and hosts being compared without
  regard to case: single pure expressions, in which no order or failure plays a part.
* Whether one observation that is decoded twice should count twice: `honeypot.Decode`
  gives each decoding an event id of its own, so that it does. Nothing in the repository
  says whether sensors repeat themselves, so there is no statement to check.
* Deployment, CI and tests.

## 6. Plan

Done, in this order: `Store`, `Enforce`, `MCEnforce`, `Mediator`, `Gateway`, `Egress`,
`MCGateway`, `EnforceProofs`, `Paths`, `GatewayProofs`, `EgressProofs`; then `Receipts`,
`Audit`, `Sensors`, and the proofs about alerts, evidence and sensors; then `PathProofs`,
and `Verdicts` with its three refinements.

Left, in this order:

1. The authority of a request in `Paths`: host and port as they are decided, signed and
   sent, against RFC 3986.
2. `Mediator` and `Audit` share `InsertReceipt`; a refinement of the first's receipts by
   the second's would state that they are one table.
