------------------------- MODULE GatewayRefinement -------------------------
(***************************************************************************)
(* The gateway's pipeline implements GatewayContract: what a client and an *)
(* upstream can see of a request in a state of Gateway.                    *)
(***************************************************************************)
EXTENDS Gateway

PhaseOf(r) ==
    CASE pc[r] = "idle"  -> "absent"
      [] pc[r] = "proxy" -> "forwarded"
      [] pc[r] = "done"  -> "answered"
      [] pc[r] \in {"cancelled", "panicked"} -> "gone"
      [] OTHER -> "pending"

AnswererOf(r) ==
    IF response[r].by \in {"nobody", "upstream", "error"} THEN response[r].by ELSE "gateway"

PhaseMap     == [r \in Requests |-> PhaseOf(r)]
AnsweredMap  == [r \in Requests |-> [by |-> AnswererOf(r), status |-> response[r].status]]
AllowanceMap == [r \in Requests |-> plan[r].max]

AnswerStatus == Statuses \cup {204, 401, 404, 429, 500, 502}

Contract == INSTANCE GatewayContract WITH
    Allowances <- Budgets,
    phase      <- PhaseMap,
    answered   <- AnsweredMap,
    allowance  <- AllowanceMap,
    effects    <- executed

\* The pipeline keeps the contract: whatever retries, timeouts, dropped clients and late
\* executions do, a request is answered once, by the gateway alone without ever reaching an
\* upstream, or after forwarding; the upstream executes it at most max_attempts times, a
\* relayed answer follows an execution, and 502 means that there will be none
\* (handle_request, ProxyClient::proxy).
ImplementsContract == Contract!Spec
=============================================================================
