--------------------------- MODULE GatewayErrors ---------------------------
(***************************************************************************)
(* How a failure at an auction site travels back to the backend.  The      *)
(* gateway's own client raises an exception; the gateway's router turns it *)
(* into a response with an error header (_invoke_connector); the backend's *)
(* client turns the header into an exception again (_raise_gateway_error); *)
(* the connection service answers the owner (_raise_connect_exception) or  *)
(* decides what becomes of the connection (_execute_live_operation).       *)
(***************************************************************************)

\* What the gateway's client runs into, and the header the router answers
\* with.  "configuration" has no header in the Copart router.
CopartHeader ==
  [login_rejected  |-> "upstream_rejected",
   credentials     |-> "invalid_credentials",
   session_invalid |-> "auth_invalid",
   challenge       |-> "challenge_failed",
   rate_limited    |-> "rate_limited",
   unavailable     |-> "unavailable",
   malformed       |-> "malformed_response",
   configuration   |-> "none"]

IaaiHeader ==
  [waf             |-> "upstream_rejected",
   credentials     |-> "invalid_credentials",
   session_invalid |-> "auth_invalid",
   refresh_error   |-> "auth_invalid",
   unavailable     |-> "unavailable",
   malformed       |-> "malformed_response",
   configuration   |-> "configuration_error"]

\* What the backend's client raises on a header.  A header it does not know
\* counts as an unreachable gateway for Copart ("none" and "unavailable" are
\* such), as a misconfigured one for IAAI.
CopartRaised ==
  [upstream_rejected   |-> "GatewayUpstream",
   invalid_credentials |-> "Authentication",
   auth_invalid        |-> "SessionInvalid",
   challenge_failed    |-> "Challenge",
   rate_limited        |-> "RateLimit",
   malformed_response  |-> "GatewayMalformed",
   unavailable         |-> "GatewayUnavailable",
   none                |-> "GatewayUnavailable"]

IaaiRaised ==
  [upstream_rejected   |-> "Waf",
   invalid_credentials |-> "Authentication",
   auth_invalid        |-> "SessionInvalid",
   malformed_response  |-> "IaaiMalformed",
   unavailable         |-> "GatewayUnavailable",
   configuration_error |-> "Configuration"]

\* The status a connect request is answered with: 502 also for whatever the
\* service does not list, a session refused while it is verified included.
ConnectAnswer(e) ==
  IF e = "Authentication" THEN 401
  ELSE IF e = "RateLimit" THEN 429
  ELSE IF e \in {"GatewayUnavailable", "Configuration", "IaaiMalformed"} THEN 503
  ELSE 502

IaaiConnectAnswer(f) == ConnectAnswer(IaaiRaised[IaaiHeader[f]])

CopartConnectAnswer(f) == ConnectAnswer(CopartRaised[CopartHeader[f]])

\* Mutated form: an unreachable gateway is taken for a dead session.
GivesUpOnOutage(e) == e \in {"SessionInvalid", "GatewayUnavailable"}

\* A live operation gives the session up on one kind of exception only; every
\* other one reaches the caller and leaves the connection alone.
GivesUp(e) == e = "SessionInvalid"

IaaiGivesUp(f) == GivesUp(IaaiRaised[IaaiHeader[f]])

CopartGivesUp(f) == GivesUp(CopartRaised[CopartHeader[f]])
=============================================================================
