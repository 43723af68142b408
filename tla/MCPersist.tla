------------------------------ MODULE MCPersist ------------------------------
(* persist_lighthouse_data on its own, for TLC. *)
EXTENDS Localization

MCStations == {<<0, 1>>, <<16>>}
=============================================================================
