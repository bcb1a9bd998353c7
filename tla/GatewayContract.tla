-------------------------- MODULE GatewayContract --------------------------
(***************************************************************************)
(* What the gateway promises a client and an upstream, without any of its  *)
(* mechanism: no routes, layers, attempts or caches.  A request is either  *)
(* answered by the gateway alone and then has no effect upstream, or it is *)
(* forwarded with an allowance: the number of times an upstream may at the *)
(* most come to execute it, now or after the client has its answer.  It is *)
(* answered at most once.                                                  *)
(***************************************************************************)
EXTENDS Naturals

CONSTANTS
    Requests,       \* requests clients send
    Allowances,     \* how often an upstream may execute one
    AnswerStatus    \* statuses of answers

VARIABLES
    phase,      \* phase[r]: what has become of request r
    answered,   \* answered[r]: who answered it, and with which status
    allowance,  \* allowance[r]: how often it may be executed upstream
    effects     \* effects[r]: how often it was

contractVars == <<phase, answered, allowance, effects>>

Nobody == [by |-> "nobody", status |-> 0]

Init ==
    /\ phase = [r \in Requests |-> "absent"]
    /\ answered = [r \in Requests |-> Nobody]
    /\ allowance = [r \in Requests |-> 0]
    /\ effects = [r \in Requests |-> 0]

Move(r, from, to) ==
    /\ phase[r] = from
    /\ phase' = [phase EXCEPT ![r] = to]

Receive(r) ==
    /\ Move(r, "absent", "pending")
    /\ UNCHANGED <<answered, allowance, effects>>

Forward(r) ==
    /\ Move(r, "pending", "forwarded")
    /\ \E n \in Allowances : allowance' = [allowance EXCEPT ![r] = n]
    /\ UNCHANGED <<answered, effects>>

AnswerWith(r, by) ==
    \E status \in AnswerStatus :
        answered' = [answered EXCEPT ![r] = [by |-> by, status |-> status]]

\* The gateway answers without an upstream.
AnswerLocally(r) ==
    /\ Move(r, "pending", "answered")
    /\ AnswerWith(r, "gateway")
    /\ UNCHANGED <<allowance, effects>>

\* An upstream's response is relayed: it has executed the request.
AnswerRelayed(r) ==
    /\ Move(r, "forwarded", "answered")
    /\ effects[r] >= 1
    /\ AnswerWith(r, "upstream")
    /\ UNCHANGED <<allowance, effects>>

\* The forwarding failed, whatever the upstream has done or will do.  502 promises that it
\* has done and will do nothing.
AnswerError(r) ==
    /\ Move(r, "forwarded", "answered")
    /\ AnswerWith(r, "error")
    /\ answered'[r].status = 502 => allowance[r] = 0
    /\ UNCHANGED <<allowance, effects>>

\* The request ends without an answer: its client goes away, or its handler panics.
Leave(r) ==
    /\ Move(r, "pending", "gone") \/ Move(r, "forwarded", "gone")
    /\ UNCHANGED <<answered, allowance, effects>>

\* An upstream executes the request.
Effect(r) ==
    /\ effects[r] < allowance[r]
    /\ effects' = [effects EXCEPT ![r] = @ + 1]
    /\ UNCHANGED <<phase, answered, allowance>>

Next ==
    \E r \in Requests :
        \/ Receive(r) \/ Forward(r)
        \/ AnswerLocally(r) \/ AnswerRelayed(r) \/ AnswerError(r)
        \/ Leave(r) \/ Effect(r)

Spec == Init /\ [][Next]_contractVars
=============================================================================
