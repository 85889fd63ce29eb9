--------------------------- MODULE MCDashboard ---------------------------
(* One page, one ticker with two prices, a poll cycle and test alerts.     *)
EXTENDS Dashboard

CONSTANTS poll, admin, test, none, low, high

MCPrices == {low, high}
=============================================================================
