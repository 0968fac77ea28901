----------------------------- MODULE MCGateway -----------------------------
(***************************************************************************)
(* Small instances of module Gateway.                                      *)
(***************************************************************************)
EXTENDS Gateway, TLC

CONSTANTS c1, c2, c3, s1, s2, a1, t1, t2

SingleRow == s1 :> a1

(* Two spellings of one agent's id.                                        *)
AliasedRow == s1 :> a1 @@ s2 :> a1

(* An agent, and an id that no row has.                                    *)
StrangerRow == s1 :> a1 @@ s2 :> NoAgent

CallSymmetry == Permutations(Calls)

(* The spellings may be exchanged too, since they name the same row.       *)
SpellingSymmetry == CallSymmetry \cup Permutations(Sources)
=============================================================================
