------------------------------ MODULE Verdicts ------------------------------
(***************************************************************************)
(* What the enforcement engine promises, without handlers, statements or   *)
(* failures: observations are recorded once each and never lost, warned of *)
(* only when recorded, and an agent is cut off once, on two recorded       *)
(* observations of one source of its own, not older than the window, that  *)
(* has been warned of before.                                              *)
(*                                                                         *)
(* Module Enforce implements it, alone as well as inside the gateway and   *)
(* behind the sensors.                                                     *)
(***************************************************************************)
EXTENDS Integers

CONSTANTS Calls, Sources, Agents, Row, Window, NotCut

VARIABLES
    recorded,   \* the observations that count
    warned,     \* the sources that have had an alert
    cutAt       \* when each agent was cut off

verdictVars == <<recorded, warned, cutAt>>

Observed == [id : Calls, source : Sources, at : Int]

VerdictInit ==
    /\ recorded = {}
    /\ warned = {}
    /\ cutAt = [a \in Agents |-> NotCut]

(* An observation is recorded, unless one of its id has been.              *)
Record ==
    /\ \E e \in recorded' :
         /\ e \in Observed
         /\ \A f \in recorded : f.id # e.id
         /\ recorded' = recorded \cup {e}
    /\ UNCHANGED <<warned, cutAt>>

(* The source of a recorded observation has an alert.                      *)
Warn ==
    /\ \E e \in recorded : warned' = warned \cup {e.source}
    /\ UNCHANGED <<recorded, cutAt>>

(* What an agent may be cut for at time t.                                 *)
Offence(a, t) ==
    \E e, f \in recorded :
        /\ e.id # f.id
        /\ e.source = f.source /\ e.source \in warned
        /\ Row[e.source] = a
        /\ e.at >= t - Window /\ f.at >= t - Window

(* An agent is cut off, for good.                                          *)
Cut(a) ==
    /\ cutAt[a] = NotCut
    /\ cutAt' = [cutAt EXCEPT ![a] = cutAt'[a]]
    /\ cutAt'[a] \in Int
    /\ Offence(a, cutAt'[a])
    /\ UNCHANGED <<recorded, warned>>

VerdictNext ==
    \/ Record
    \/ Warn
    \/ \E a \in Agents : Cut(a)

VerdictSpec == VerdictInit /\ [][VerdictNext]_verdictVars
=============================================================================
