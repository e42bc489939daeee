------------------------------- MODULE MCPyth -------------------------------
(***************************************************************************)
(* A range of instants short enough to overflow at both ends, and quotes   *)
(* on both sides of every limit.                                           *)
(***************************************************************************)
EXTENDS Pyth

MCFirstInstant == -8
MCRawPrices == {-1, 1, 2, 7, 30}
MCExponents == {-3, -2, 0, 1}
=============================================================================
