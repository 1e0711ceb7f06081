----------------------------- MODULE MCFetchQueue -----------------------------
(* Data queries and API requests, two of them of one panel (same request id);
   further API requests are those that renew the session. *)
EXTENDS FetchQueue

CONSTANTS d1, d2, d3, Panel

MCRequestId == [r \in Requests |-> IF r \in {d1, d3} THEN Panel ELSE NoId]
MCPing == [r \in Requests |-> <<"ping", r>>]
=============================================================================
