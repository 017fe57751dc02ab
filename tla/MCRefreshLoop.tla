--------------------------- MODULE MCRefreshLoop ---------------------------
(* RefreshLoop with a chassisredirect table, a debounced one and Gateway_Chassis. *)
EXTENDS RefreshLoop

CONSTANTS Chassisredirect, NAT, Gateway_Chassis

MCReadOrder == <<Chassisredirect, NAT>>
MCUrgent    == {Chassisredirect}
MCDirect    == {Gateway_Chassis}
AfterStart  == Serving \cup {"down"}
InMainLoop  == {"select", "reconcile", "down"}
=============================================================================
