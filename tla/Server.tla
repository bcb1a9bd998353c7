------------------------------- MODULE Server ------------------------------
(***************************************************************************)
(* The process around the pipeline: main (src/main.rs), the accept loop    *)
(* and serve_connection (src/gateway.rs), the TLS acceptor (src/tls.rs),   *)
(* the active-connections gauge and the metrics server (src/metrics.rs).   *)
(* Every connection has a task of its own; what handle_request does with a *)
(* request is the module Gateway, here it is under way ("busy") until it   *)
(* returns, panics or is dropped.  A connection's task is free for another *)
(* connection once it has ended.                                           *)
(***************************************************************************)
EXTENDS Naturals, Sequences, FiniteSetsExt

CONSTANTS
    Conns,      \* connections to the gateway that may exist at a time
    Scrapers,   \* connections to the metrics server that may exist at a time
    Configs,    \* tls and metrics sections the process may be started with
    Offers,     \* ALPN protocol sets of the clients; {} is a client without ALPN
    MaxPanics   \* bound on the number of handlers that panic

\* tls: absent or disabled, enabled, enabled with client_auth.
Config == [tls : {"off", "on", "client_auth"}, metrics : BOOLEAN]

ASSUME ServerAssumption ==
    /\ IsFiniteSet(Conns)
    /\ Configs \subseteq Config
    /\ Offers \subseteq SUBSET STRING
    /\ MaxPanics \in Nat

VARIABLES
    config,     \* the configuration; it never changes
    process,    \* whether main is before, in or after its accept loop
    conn,       \* conn[c]: what the task of connection c is doing
    client,     \* client[c]: ALPN offer of its client, and whether the client is still there
    alpn,       \* alpn[c]: the protocol agreed in its handshake
    failed,     \* failed[c]: why hyper gave up on what the client sent, if it did
    gauge,      \* gateway_active_connections
    panics,     \* handlers that have panicked so far
    exporter,   \* the metrics server's task
    text        \* text[s]: the gauge in the text rendered for metrics connection s; {}
                \* if there is no such connection

srvVars == <<config, process, conn, client, alpn, failed, gauge, panics, exporter, text>>

Live == {c \in Conns : conn[c] # "none"}

NoClient == [offer |-> {}, there |-> FALSE]

SrvTypeOK ==
    /\ config \in Configs
    /\ process \in {"starting", "running", "exited"}
    /\ conn \in [Conns -> {"none", "handshake", "open", "busy"}]
    /\ client \in [Conns -> [offer : Offers \cup {{}}, there : BOOLEAN]]
    /\ alpn \in [Conns -> {"none", "h2", "http/1.1"}]
    /\ failed \in [Conns -> {"no", "malformed", "version"}]
    /\ gauge \in Nat
    /\ panics \in 0..MaxPanics
    /\ exporter \in {"off", "binding", "up", "ended"}
    /\ text \in [Scrapers -> SUBSET Nat]

SrvInit ==
    /\ config \in Configs
    /\ process = "starting"
    /\ conn = [c \in Conns |-> "none"]
    /\ client = [c \in Conns |-> NoClient]
    /\ alpn = [c \in Conns |-> "none"]
    /\ failed = [c \in Conns |-> "no"]
    /\ gauge = 0
    /\ panics = 0
    /\ exporter = "off"
    /\ text = [s \in Scrapers |-> {}]

-----------------------------------------------------------------------------
(* Start and end of the process.                                           *)

\* main returns an error, or run() does: the runtime is dropped with all its tasks.
Exit ==
    /\ process' = "exited"
    /\ conn' = [c \in Conns |-> "none"]
    /\ client' = [c \in Conns |-> NoClient]
    /\ alpn' = [c \in Conns |-> "none"]
    /\ failed' = [c \in Conns |-> "no"]
    /\ gauge' = 0
    /\ exporter' = "off"
    /\ text' = [s \in Scrapers |-> {}]
    /\ UNCHANGED <<config, panics>>

\* A config that does not load, Gateway::new failing (certificates, keys, layers), or the
\* listen address in use.
StartFails ==
    /\ process = "starting"
    /\ Exit

\* bind succeeds; the metrics server is spawned if it is configured.
Listen ==
    /\ process = "starting"
    /\ process' = "running"
    /\ exporter' = IF config.metrics THEN "binding" ELSE "off"
    /\ UNCHANGED <<config, conn, client, alpn, failed, gauge, panics, text>>

\* listener.accept().await? : any error of accept ends run().
AcceptError ==
    /\ process = "running"
    /\ Exit

-----------------------------------------------------------------------------
(* Connections.                                                            *)

\* record_active_connections(delta); without an exporter no recorder is installed.
Record(value) == gauge' = IF config.metrics THEN value ELSE gauge

Accept(c, offer) ==
    /\ process = "running"
    /\ conn[c] = "none"
    /\ conn' = [conn EXCEPT ![c] = IF config.tls = "off" THEN "open" ELSE "handshake"]
    /\ client' = [client EXCEPT ![c] = [offer |-> offer, there |-> TRUE]]
    /\ Record(gauge + 1)
    /\ UNCHANGED <<config, process, alpn, failed, panics, exporter, text>>

\* The task of c ends and its connection is closed.
EndTask(c) ==
    /\ conn' = [conn EXCEPT ![c] = "none"]
    /\ client' = [client EXCEPT ![c] = NoClient]
    /\ alpn' = [alpn EXCEPT ![c] = "none"]
    /\ failed' = [failed EXCEPT ![c] = "no"]
    /\ UNCHANGED <<config, process, exporter, text>>

\* create_tls_acceptor: client_auth builds the config anew, without the protocols.
AlpnProtocols == IF config.tls = "on" THEN <<"h2", "http/1.1">> ELSE <<>>

\* The places, in the server's list, of the protocols that the client offers too.
Common(c) == {i \in DOMAIN AlpnProtocols : AlpnProtocols[i] \in client[c].offer}

\* External: rustls takes the first of the server's protocols that the client offers.
Agreed(c) == IF Common(c) = {} THEN "none" ELSE AlpnProtocols[Min(Common(c))]

\* External: it refuses a client that offers protocols, none of which the server has.
NoProtocol(c) == AlpnProtocols # <<>> /\ client[c].offer # {} /\ Common(c) = {}

HandshakeOk(c) ==
    /\ conn[c] = "handshake"
    /\ client[c].there
    /\ ~ NoProtocol(c)
    /\ conn' = [conn EXCEPT ![c] = "open"]
    /\ alpn' = [alpn EXCEPT ![c] = Agreed(c)]
    /\ UNCHANGED <<config, process, client, failed, gauge, panics, exporter, text>>

\* Fault: a failed handshake returns from the task at once.
HandshakeFailsReturns(c) ==
    /\ conn[c] = "handshake"
    /\ EndTask(c)
    /\ UNCHANGED <<gauge, panics>>

\* Fault: a failed handshake is taken off the gauge in its own branch as well.
HandshakeFailsTwice(c) ==
    /\ conn[c] = "handshake"
    /\ EndTask(c)
    /\ Record(gauge - 2)
    /\ UNCHANGED panics

\* No common protocol, no or a bad client certificate, garbage, or the client is gone.
HandshakeFails(c) ==
    /\ conn[c] = "handshake"
    /\ EndTask(c)
    /\ Record(gauge - 1)
    /\ UNCHANGED panics

\* The client may send another request.
Listening(c) == conn[c] = "open" /\ client[c].there /\ failed[c] = "no"

\* Bytes that are no request of the agreed protocol: serve_connection returns Err.
Malformed(c) ==
    /\ Listening(c)
    /\ failed' = [failed EXCEPT ![c] = "malformed"]
    /\ UNCHANGED <<config, process, conn, client, alpn, gauge, panics, exporter, text>>

\* A client that agreed on h2 sends the preface of HTTP/2: http1::Builder's connection
\* returns Err.
PrefaceH2(c) ==
    /\ Listening(c)
    /\ alpn[c] = "h2"
    /\ failed' = [failed EXCEPT ![c] = "version"]
    /\ UNCHANGED <<config, process, conn, client, alpn, gauge, panics, exporter, text>>

\* A request of HTTP/1: handle_request is called.
ReadRequest(c) ==
    /\ Listening(c)
    /\ alpn[c] # "h2"
    /\ conn' = [conn EXCEPT ![c] = "busy"]
    /\ UNCHANGED <<config, process, client, alpn, failed, gauge, panics, exporter, text>>

\* handle_request returns and the response is written.
Respond(c) ==
    /\ conn[c] = "busy"
    /\ conn' = [conn EXCEPT ![c] = "open"]
    /\ UNCHANGED <<config, process, client, alpn, failed, gauge, panics, exporter, text>>

\* handle_request panics (a cached response whose status is none, gateway.rs:366): the
\* task ends before record_active_connections(-1).
HandlerPanics(c) ==
    /\ conn[c] = "busy"
    /\ panics < MaxPanics
    /\ panics' = panics + 1
    /\ EndTask(c)
    /\ UNCHANGED gauge

\* The client closes its connection, at any time.
ClientLeaves(c) ==
    /\ conn[c] # "none"
    /\ client[c].there
    /\ client' = [client EXCEPT ![c].there = FALSE]
    /\ UNCHANGED <<config, process, conn, alpn, failed, gauge, panics, exporter, text>>

\* Fault: the end of the client's stream is only looked at between two requests.
CloseWhenIdle(c) ==
    /\ conn[c] = "open"
    /\ failed[c] # "no" \/ ~ client[c].there
    /\ EndTask(c)
    /\ Record(gauge - 1)
    /\ UNCHANGED panics

\* serve_connection returns: the client is gone (a request under way is dropped) or sent
\* what is no request.
Close(c) ==
    /\ conn[c] \in {"open", "busy"}
    /\ failed[c] # "no" \/ ~ client[c].there
    /\ EndTask(c)
    /\ Record(gauge - 1)
    /\ UNCHANGED panics

-----------------------------------------------------------------------------
(* The metrics server.                                                     *)

MetricsBind ==
    /\ exporter = "binding"
    /\ exporter' = "up"
    /\ UNCHANGED <<config, process, conn, client, alpn, failed, gauge, panics, text>>

\* bind or accept fails: serve() returns, the error is logged, the gateway goes on.
MetricsError ==
    /\ exporter \in {"binding", "up"}
    /\ exporter' = "ended"
    /\ UNCHANGED <<config, process, conn, client, alpn, failed, gauge, panics, text>>

\* The text is rendered when the connection is accepted; every request on the connection
\* is answered with it.
MetricsAccept(s) ==
    /\ exporter = "up"
    /\ text[s] = {}
    /\ text' = [text EXCEPT ![s] = {gauge}]
    /\ UNCHANGED <<config, process, conn, client, alpn, failed, gauge, panics, exporter>>

\* The connection's task goes on after serve() has returned, until its client leaves.
MetricsClose(s) ==
    /\ text[s] # {}
    /\ text' = [text EXCEPT ![s] = {}]
    /\ UNCHANGED <<config, process, conn, client, alpn, failed, gauge, panics, exporter>>

-----------------------------------------------------------------------------

\* The process has ended.
Stopped ==
    /\ process = "exited"
    /\ UNCHANGED srvVars

SrvNext ==
    \/ StartFails \/ Listen \/ AcceptError
    \/ \E c \in Conns :
          \/ \E offer \in Offers : Accept(c, offer)
          \/ HandshakeOk(c) \/ HandshakeFails(c)
          \/ ReadRequest(c) \/ Malformed(c) \/ PrefaceH2(c)
          \/ Respond(c) \/ HandlerPanics(c)
          \/ ClientLeaves(c) \/ Close(c)
    \/ MetricsBind \/ MetricsError
    \/ \E s \in Scrapers : MetricsAccept(s) \/ MetricsClose(s)
    \/ Stopped

SrvSpec == SrvInit /\ [][SrvNext]_srvVars

\* tokio polls the task of a connection when its socket reports the end of the stream.
\* Neither a client nor a handler is obliged to anything.
SrvFairness ==
    \A c \in Conns :
        /\ WF_srvVars(~ client[c].there /\ HandshakeFails(c))
        /\ WF_srvVars(Close(c))

FairSrvSpec == SrvSpec /\ SrvFairness

-----------------------------------------------------------------------------

\* gateway_active_connections is the number of connection tasks plus one for every handler
\* that panicked: whatever way a connection ends (refused handshake, bad request, client
\* gone in the middle of a request), it is taken off the gauge exactly once, and only a
\* panic leaks (gateway.rs:205-227).
GaugeExact ==
    process = "running" =>
        gauge = IF config.metrics THEN Cardinality(Live) + panics ELSE 0

\* The task of a connection whose client has gone comes to its end, be it in the handshake,
\* between two requests or with a handler that never returns (gateway.rs:208-227,
\* serve_connection).
LeaversAreForgotten ==
    \A c \in Conns :
        (conn[c] # "none" /\ ~ client[c].there) ~> (conn[c] = "none" \/ client[c].there)

\* tls.rs:25 "Configure ALPN for HTTP/2 and HTTP/1.1": a client that speaks the protocol it
\* agreed on in the handshake is served.  serve_connection only knows HTTP/1 (gateway.rs:459)
\* and gives up on the others.
ServedAsAgreed == \A c \in Conns : failed[c] # "version"
=============================================================================
