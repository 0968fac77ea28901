----------------------------- MODULE MCSensors -----------------------------
(***************************************************************************)
(* A small instance of module Sensors.                                     *)
(***************************************************************************)
EXTENDS Sensors, TLC

CONSTANTS s1, a1

SingleRow == s1 :> a1

SensorSymmetry == Permutations(Calls) \cup Permutations(Traps) \cup Permutations(Tools)
=============================================================================
