----------------------------- MODULE MCStartup ------------------------------
(***************************************************************************)
(* An instance of Startup for TLC. The interfaces are interchangeable; the *)
(* protocols are the three with a handler of their own, the ends of the    *)
(* range, and some between.                                                *)
(***************************************************************************)
EXTENDS Startup

MCProtocols == {0, 1, 6, 17, 58, 254, 255}

InterfaceSymmetry == Permutations(Interfaces)
=============================================================================
