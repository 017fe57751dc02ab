---------------------------- MODULE MCGatewayHA ----------------------------
(* The HA protocol with two chassis and one or two gateway ports; the other *)
(* constants are in the .cfg files.                                         *)
EXTENDS GatewayHA, TLC

AllRows    == LRP \X Chassis
RowsOfOne  == LRP \X {1}
Ports      == Permutations(LRP)
=============================================================================
