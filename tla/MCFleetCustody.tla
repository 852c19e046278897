--------------------------- MODULE MCFleetCustody ---------------------------
EXTENDS MCFleetServer, FleetCustody
=============================================================================
