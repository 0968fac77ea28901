----------------------------- MODULE MCEnforce -----------------------------
(***************************************************************************)
(* Small instances of module Enforce.                                      *)
(***************************************************************************)
EXTENDS Enforce, TLC

CONSTANTS c1, c2, c3, s1, s2, s3, a1

(* One agent with two spellings of its uuid.                               *)
AliasedRow == s1 :> a1 @@ s2 :> a1

SingleRow == s1 :> a1

(* An agent, and a text that is no uuid.                                   *)
MalformedRow == s1 :> a1 @@ s3 :> NotUuid

CallSymmetry == Permutations(Calls)
=============================================================================
