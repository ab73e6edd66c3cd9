-------------------------- MODULE MCGatewaySessions --------------------------
(***************************************************************************)
(* One user's sessions.  Tokens and gateways are interchangeable, and so   *)
(* are the requests a gateway handles.                                     *)
(***************************************************************************)
EXTENDS GatewaySessions, TLC

CONSTANTS g1, g2, r1, r2, j1, j2, j3

MCSymmetry == Permutations(Gateways) \cup Permutations(Requests) \cup Permutations(Tokens)
=============================================================================
