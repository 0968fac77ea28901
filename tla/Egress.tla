------------------------------ MODULE Egress ------------------------------
(***************************************************************************)
(* What the gateway promises, without statements, races or failures: a     *)
(* call leaves the plane only after its agent was found uncut, its target  *)
(* was found granted and evidence of the permission was stored, in this    *)
(* order and each at one moment of the call's life; and an agent is cut    *)
(* for good, and only on account of two of its calls that were refused.    *)
(* Module Gateway implements this specification.                           *)
(***************************************************************************)
EXTENDS Integers

CONSTANTS Calls, Agents, Targets, Nobody, Nothing

VARIABLES
    phase,      \* how far each call has come
    who,        \* the agent of a call; not in Agents if it names none
    what,       \* the target of a call
    granted,    \* the <<agent, target>> pairs that are allowed
    attested,   \* the <<call, agent, target>> whose permission is stored
    cut         \* the agents that are cut off

egressVars == <<phase, who, what, granted, attested, cut>>

Phases == {"new", "open", "admitted", "approved", "released", "refused", "abandoned"}

EgressInit ==
    /\ phase = [c \in Calls |-> "new"]
    /\ who = [c \in Calls |-> Nobody]
    /\ what = [c \in Calls |-> Nothing]
    /\ granted \subseteq Agents \X Targets
    /\ attested = {}
    /\ cut = {}

Move(c, from, to) == phase[c] \in from /\ phase' = [phase EXCEPT ![c] = to]

(* A call arrives.  Some name no agent or no target and are refused at once. *)
Open(c) ==
    /\ \/ Move(c, {"new"}, "open")
       \/ Move(c, {"new"}, "refused")
    /\ \A d \in Calls \ {c} : who'[d] = who[d] /\ what'[d] = what[d]
    /\ UNCHANGED <<granted, attested, cut>>

(* The agent of the call is known and not cut off at this moment.          *)
Admit(c) ==
    /\ Move(c, {"open"}, "admitted")
    /\ who[c] \in Agents \ cut
    /\ UNCHANGED <<who, what, granted, attested, cut>>

(* The target is granted to the agent at this moment.                      *)
Approve(c) ==
    /\ Move(c, {"admitted"}, "approved")
    /\ <<who[c], what[c]>> \in granted
    /\ UNCHANGED <<who, what, granted, attested, cut>>

(* The permission is stored as evidence, also of a call refused since.     *)
Attest(c) ==
    /\ phase[c] = "approved"
    /\ attested' = attested \cup {<<c, who[c], what[c]>>}
    /\ phase' \in {phase, [phase EXCEPT ![c] = "refused"]}
    /\ UNCHANGED <<who, what, granted, cut>>

(* The call leaves for the target that was approved.                       *)
Release(c) ==
    /\ Move(c, {"approved"}, "released")
    /\ <<c, who[c], what[c]>> \in attested
    /\ UNCHANGED <<who, what, granted, attested, cut>>

Refuse(c) ==
    /\ Move(c, {"open", "admitted", "approved"}, "refused")
    /\ UNCHANGED <<who, what, granted, attested, cut>>

(* Calls end unsent: the target cannot be reached, the client has gone, or
   the process ends.                                                       *)
Abandon ==
    /\ \E C \in SUBSET {c \in Calls : phase[c] \notin {"new", "released"}} :
         phase' = [c \in Calls |-> IF c \in C THEN "abandoned" ELSE phase[c]]
    /\ UNCHANGED <<who, what, granted, attested, cut>>

Cut(a) ==
    /\ a \notin cut
    /\ \E c, d \in Calls : /\ c # d
                           /\ phase[c] = "refused" /\ phase[d] = "refused"
                           /\ who[c] = a /\ who[d] = a
    /\ cut' = cut \cup {a}
    /\ UNCHANGED <<phase, who, what, granted, attested>>

Regrant ==
    /\ granted' \in SUBSET (Agents \X Targets)
    /\ UNCHANGED <<phase, who, what, attested, cut>>

EgressNext ==
    \/ \E c \in Calls : \/ Open(c) \/ Admit(c) \/ Approve(c) \/ Attest(c)
                        \/ Release(c) \/ Refuse(c)
    \/ Abandon
    \/ \E a \in Agents : Cut(a)
    \/ Regrant

EgressSpec == EgressInit /\ [][EgressNext]_egressVars
=============================================================================
