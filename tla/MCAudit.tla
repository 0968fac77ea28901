------------------------------ MODULE MCAudit ------------------------------
(***************************************************************************)
(* A small instance of module Audit.  The bytes are 1 and 2, so that a text *)
(* may be mistaken for a length or for the byte of a decision.             *)
(***************************************************************************)
EXTENDS Audit, TLC

OneByte == <<1>>
TwoBytes == <<1, 1>>
TwoAgents == <<<<1>>, <<1>>, <<2>>>>
SomeTexts == {<<1>>, <<1, 1>>}
Explained == [allowed \in BOOLEAN |-> IF allowed THEN <<1>> ELSE <<2>>]
SomeLimits == {0, 3}

KeySymmetry == Permutations(Keys)
=============================================================================
