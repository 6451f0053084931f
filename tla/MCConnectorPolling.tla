------------------------- MODULE MCConnectorPolling -------------------------
(* Instances of ConnectorPolling for TLC. *)
EXTENDS ConnectorPolling
CONSTANTS c1, c2

OneGap == {<<c1, 1>>}
OneReject == {<<c2, 1>>}
OnePoison == {<<c1, 1>>}
=============================================================================
