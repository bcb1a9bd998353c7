---------------------------- MODULE ServerProofs ---------------------------
(***************************************************************************)
(* Server's safety properties for every number of connections, scrapers    *)
(* and panics, every configuration and every client.  The gauge is a sum   *)
(* that no handler sees as a whole: the proof keeps it equal to the number *)
(* of connection tasks from the first accept to the end of the process,    *)
(* one connection more or less at a step.                                  *)
(***************************************************************************)
EXTENDS Server, FiniteSetTheorems, TLAPS

\* What the gauge shows: without an exporter no recorder is installed.
Shows(n) == IF config.metrics THEN n ELSE 0

\* Before the accept loop nothing has happened, after it no task is left; in between the
\* gauge is exact.
GaugeInv ==
    /\ process = "starting" => Live = {} /\ panics = 0
    /\ process = "exited" => Live = {}
    /\ gauge = Shows(Cardinality(Live) + (IF process = "exited" THEN 0 ELSE panics))

\* The inductive invariant.
SrvInv == SrvTypeOK /\ GaugeInv

-----------------------------------------------------------------------------

\* The connection tasks are finitely many.
LEMMA LiveFinite == IsFiniteSet(Live) /\ Cardinality(Live) \in Nat
<1>1. Live \subseteq Conns
  BY DEF Live
<1>2. IsFiniteSet(Live)
  BY <1>1, ServerAssumption, FS_Subset
<1> QED
  BY <1>2, FS_CardinalityType

\* A connection that is accepted makes one task more.
LEMMA LiveAccepted ==
    ASSUME NEW c \in Conns, conn[c] = "none",
           \A d \in Conns : (conn'[d] # "none") <=> (d = c \/ conn[d] # "none")
    PROVE  Cardinality(Live') = Cardinality(Live) + 1
<1>1. Live' = Live \cup {c} /\ c \notin Live
  BY DEF Live
<1> QED
  BY <1>1, LiveFinite, FS_AddElement

\* A task that ends makes one less; there was one.
LEMMA LiveEnded ==
    ASSUME NEW c \in Conns, conn[c] # "none",
           \A d \in Conns : (conn'[d] # "none") <=> (d # c /\ conn[d] # "none")
    PROVE  Cardinality(Live') = Cardinality(Live) - 1 /\ Cardinality(Live) >= 1
<1>1. Live' = Live \ {c} /\ c \in Live
  BY DEF Live
<1>2. Cardinality(Live') = Cardinality(Live) - 1
  BY <1>1, LiveFinite, FS_RemoveElement
<1>3. Cardinality(Live) # 0
  BY <1>1, LiveFinite, FS_EmptySet
<1> QED
  BY <1>2, <1>3, LiveFinite

\* A task that goes on is neither one more nor one less.
LEMMA LiveKept ==
    ASSUME \A d \in Conns : (conn'[d] # "none") <=> (conn[d] # "none")
    PROVE  Live' = Live
BY DEF Live

\* The protocol agreed on is one of the server's, or none.
LEMMA AgreedType ==
    ASSUME NEW c \in Conns
    PROVE  Agreed(c) \in {"none", "h2", "http/1.1"}
<1>1. CASE Common(c) = {}
  BY <1>1 DEF Agreed
<1>2. CASE Common(c) # {}
  <2>1. config.tls = "on" /\ AlpnProtocols = <<"h2", "http/1.1">>
    BY <1>2 DEF Common, AlpnProtocols
  <2>2. Common(c) \subseteq {1, 2}
    BY <2>1 DEF Common
  <2>3. PICK i \in Common(c) : \A j \in Common(c) : i =< j
    BY <1>2, <2>2
  <2>4. Min(Common(c)) \in Common(c)
    BY <2>3 DEF Min
  <2> QED
    BY <1>2, <2>1, <2>2, <2>4 DEF Agreed
<1> QED
  BY <1>1, <1>2

\* A client that leaves keeps its offer.
LEMMA LeftType ==
    ASSUME NEW S, NEW r \in [offer : S, there : BOOLEAN]
    PROVE  [r EXCEPT !.there = FALSE] \in [offer : S, there : BOOLEAN]
OBVIOUS

-----------------------------------------------------------------------------

\* SrvInv holds when main starts.
LEMMA SrvInitInv == SrvInit => SrvInv
<1> SUFFICES ASSUME SrvInit PROVE SrvInv
  OBVIOUS
<1>1. SrvTypeOK
  BY ServerAssumption DEF SrvInit, SrvTypeOK, NoClient
<1>2. Live = {}
  BY DEF SrvInit, Live
<1>3. GaugeInv
  BY <1>2, FS_EmptySet DEF SrvInit, GaugeInv, Shows
<1> QED
  BY <1>1, <1>3 DEF SrvInv

\* The process ends and takes everything with it.
LEMMA ExitInv == ASSUME SrvInv, Exit PROVE SrvInv'
<1>1. SrvTypeOK'
  BY DEF SrvInv, SrvTypeOK, Exit, NoClient
<1>2. Live' = {}
  BY DEF Exit, Live
<1>3. GaugeInv'
  BY <1>2, FS_EmptySet DEF Exit, GaugeInv, Shows
<1> QED
  BY <1>1, <1>3 DEF SrvInv

\* Accept adds one to the gauge.
LEMMA AcceptInv ==
    ASSUME SrvInv, NEW c \in Conns, NEW offer \in Offers, Accept(c, offer)
    PROVE  SrvInv'
<1> USE DEF SrvInv
<1>1. gauge + 1 \in Nat /\ Record(gauge + 1) /\ text' = text
  BY DEF SrvTypeOK, Accept
<1>2. SrvTypeOK'
  BY <1>1 DEF SrvTypeOK, Accept, Record
<1>3. Cardinality(Live') = Cardinality(Live) + 1
  <2>1. conn[c] = "none" /\ \A d \in Conns : (conn'[d] # "none") <=> (d = c \/ conn[d] # "none")
    BY DEF Accept, SrvTypeOK
  <2> QED
    BY <2>1, LiveAccepted
<1>4. GaugeInv'
  BY <1>1, <1>3, LiveFinite DEF GaugeInv, Shows, Accept, Record, SrvTypeOK
<1> QED
  BY <1>2, <1>4

\* A connection that ends through the end of its task is taken off the gauge; a panic is
\* not, and is counted.
LEMMA EndTaskInv ==
    ASSUME SrvInv, NEW c \in Conns, conn[c] # "none", EndTask(c),
           \/ Record(gauge - 1) /\ panics' = panics
           \/ panics < MaxPanics /\ panics' = panics + 1 /\ UNCHANGED gauge
    PROVE  SrvInv'
<1> USE DEF SrvInv
<1>1. Cardinality(Live') = Cardinality(Live) - 1 /\ Cardinality(Live) >= 1
  <2>1. \A d \in Conns : (conn'[d] # "none") <=> (d # c /\ conn[d] # "none")
    BY DEF EndTask, SrvTypeOK
  <2> QED
    BY <2>1, LiveEnded
<1>2. process = "running" /\ process' = process /\ config' = config /\ text' = text
  <2>1. c \in Live
    BY DEF Live
  <2> QED
    BY <2>1 DEF EndTask, SrvTypeOK, GaugeInv
<1>3. gauge = Shows(Cardinality(Live) + panics)
  BY <1>2 DEF GaugeInv
<1>4. CASE Record(gauge - 1) /\ panics' = panics
  <2>1. gauge' = Shows(Cardinality(Live) - 1 + panics) /\ gauge' \in Nat
    BY <1>1, <1>3, <1>4, LiveFinite, ServerAssumption DEF Record, Shows, SrvTypeOK
  <2>2. SrvTypeOK'
    BY <1>2, <1>4, <2>1 DEF SrvTypeOK, EndTask, NoClient
  <2>3. GaugeInv'
    BY <1>1, <1>2, <1>4, <2>1 DEF GaugeInv, Shows
  <2> QED
    BY <2>2, <2>3
<1>5. CASE panics < MaxPanics /\ panics' = panics + 1 /\ UNCHANGED gauge
  <2>1. SrvTypeOK'
    BY <1>2, <1>5, ServerAssumption DEF SrvTypeOK, EndTask, NoClient
  <2>2. GaugeInv'
    BY <1>1, <1>2, <1>3, <1>5, LiveFinite DEF GaugeInv, Shows, SrvTypeOK
  <2> QED
    BY <2>1, <2>2
<1> QED
  BY <1>4, <1>5

\* A step that neither begins nor ends a connection leaves the gauge alone.
LEMMA QuietInv ==
    ASSUME SrvInv, SrvTypeOK', Live' = Live,
           UNCHANGED <<config, process, gauge, panics>>
    PROVE  SrvInv'
BY DEF SrvInv, GaugeInv, Shows

\* Every step keeps SrvInv.
LEMMA SrvNextInv == SrvInv /\ [SrvNext]_srvVars => SrvInv'
<1> SUFFICES ASSUME SrvInv, [SrvNext]_srvVars PROVE SrvInv'
  OBVIOUS
<1> SrvTypeOK
  BY DEF SrvInv
<1>1. CASE StartFails \/ AcceptError
  BY <1>1, ExitInv DEF StartFails, AcceptError
<1>2. CASE Listen
  BY <1>2 DEF Listen, SrvInv, SrvTypeOK, GaugeInv, Shows, Live
<1>3. ASSUME NEW c \in Conns, NEW offer \in Offers, Accept(c, offer) PROVE SrvInv'
  BY <1>3, AcceptInv
<1>4. ASSUME NEW c \in Conns, HandshakeFails(c) \/ Close(c) \/ HandlerPanics(c) PROVE SrvInv'
  <2>1. conn[c] # "none" /\ EndTask(c)
    BY <1>4 DEF HandshakeFails, Close, HandlerPanics
  <2>2. \/ Record(gauge - 1) /\ panics' = panics
        \/ panics < MaxPanics /\ panics' = panics + 1 /\ UNCHANGED gauge
    BY <1>4 DEF HandshakeFails, Close, HandlerPanics
  <2> QED
    BY <2>1, <2>2, EndTaskInv
<1>5. ASSUME NEW c \in Conns, HandshakeOk(c) \/ ReadRequest(c) \/ Respond(c) PROVE SrvInv'
  <2>1. UNCHANGED <<config, process, gauge, panics>>
    BY <1>5 DEF HandshakeOk, ReadRequest, Respond
  <2>2. SrvTypeOK'
    <3>1. CASE HandshakeOk(c)
      BY <3>1, AgreedType DEF HandshakeOk, SrvTypeOK
    <3>2. CASE ReadRequest(c) \/ Respond(c)
      BY <3>2 DEF ReadRequest, Respond, SrvTypeOK
    <3> QED
      BY <1>5, <3>1, <3>2
  <2>3. \A d \in Conns : (conn'[d] # "none") <=> (conn[d] # "none")
    BY <1>5 DEF HandshakeOk, ReadRequest, Respond, Listening, SrvTypeOK
  <2> QED
    BY <2>1, <2>2, <2>3, LiveKept, QuietInv
<1>6. ASSUME NEW c \in Conns, Malformed(c) \/ PrefaceH2(c) \/ ClientLeaves(c) PROVE SrvInv'
  <2>1. UNCHANGED <<config, process, conn, gauge, panics>>
    BY <1>6 DEF Malformed, PrefaceH2, ClientLeaves
  <2>2. SrvTypeOK'
    <3>1. CASE Malformed(c) \/ PrefaceH2(c)
      BY <3>1 DEF Malformed, PrefaceH2, SrvTypeOK
    <3>2. CASE ClientLeaves(c)
      <4>1. client' \in [Conns -> [offer : Offers \cup {{}}, there : BOOLEAN]]
        <5>1. client[c] \in [offer : Offers \cup {{}}, there : BOOLEAN]
          BY DEF SrvTypeOK
        <5>2. [client[c] EXCEPT !.there = FALSE] \in [offer : Offers \cup {{}}, there : BOOLEAN]
          BY <5>1, LeftType, Zenon
        <5> QED
          BY <3>2, <5>2 DEF ClientLeaves, SrvTypeOK
      <4> QED
        BY <3>2, <4>1 DEF ClientLeaves, SrvTypeOK
    <3> QED
      BY <1>6, <3>1, <3>2
  <2> QED
    BY <2>1, <2>2, LiveKept, QuietInv
<1>7. CASE MetricsBind \/ MetricsError
  <2>1. UNCHANGED <<config, process, conn, gauge, panics>>
    BY <1>7 DEF MetricsBind, MetricsError
  <2>2. SrvTypeOK'
    BY <1>7 DEF MetricsBind, MetricsError, SrvTypeOK
  <2> QED
    BY <2>1, <2>2, LiveKept, QuietInv
<1>8. ASSUME NEW s \in Scrapers, MetricsAccept(s) \/ MetricsClose(s) PROVE SrvInv'
  <2>1. SrvTypeOK'
    BY <1>8 DEF MetricsAccept, MetricsClose, SrvInv, SrvTypeOK
  <2>2. UNCHANGED <<config, process, conn, gauge, panics>>
    BY <1>8 DEF MetricsAccept, MetricsClose
  <2>3. GaugeInv'
    BY <2>2, LiveKept DEF SrvInv, GaugeInv, Shows
  <2> QED
    BY <2>1, <2>3 DEF SrvInv
<1>9. CASE UNCHANGED srvVars
  <2>1. UNCHANGED <<config, process, conn, gauge, panics>> /\ SrvTypeOK'
    BY <1>9 DEF srvVars, SrvTypeOK
  <2> QED
    BY <2>1, LiveKept, QuietInv
<1> QED
  BY <1>1, <1>2, <1>3, <1>4, <1>5, <1>6, <1>7, <1>8, <1>9 DEF SrvNext, Stopped

\* SrvInv holds in every state the process reaches.
LEMMA SrvInvariant == SrvSpec => []SrvInv
BY SrvInitInv, SrvNextInv, PTL DEF SrvSpec

\* Every variable keeps its type: in particular the gauge never goes below zero.
THEOREM SrvTypesHold == SrvSpec => []SrvTypeOK
<1>1. SrvInv => SrvTypeOK
  BY DEF SrvInv
<1> QED
  BY <1>1, SrvInvariant, PTL

\* In a running process the gauge is the number of connection tasks plus the number of
\* handlers that panicked, for every number of connections and in whatever way each of
\* them ends (gateway.rs:205-227).
THEOREM GaugeIsExact == SrvSpec => []GaugeExact
<1>1. SrvInv => GaugeExact
  BY DEF SrvInv, GaugeInv, GaugeExact, Shows
<1> QED
  BY <1>1, SrvInvariant, PTL

-----------------------------------------------------------------------------
(* Clients that have gone: the safety half of LeaversAreForgotten.         *)

Gone(c) == conn[c] # "none" /\ ~ client[c].there

\* How far the task of a connection is from its end when its client has gone.
TaskLeft(c) ==
    CASE conn[c] = "busy" -> 2
      [] conn[c] = "none" -> 0
      [] OTHER            -> 1

\* What a step does to the task of a client that has gone: nothing, or it comes closer to its
\* end.
RunsOut(c) ==
    /\ conn'[c] = "none" \/ Gone(c)'
    /\ UNCHANGED conn[c] \/ TaskLeft(c)' < TaskLeft(c)

\* Whatever a step does to the task of c alone.
LEMMA StepRunsOut ==
    ASSUME SrvInv, NEW c \in Conns, Gone(c), NEW d \in Conns,
           \/ \E offer \in Offers : Accept(d, offer)
           \/ HandshakeOk(d) \/ HandshakeFails(d)
           \/ ReadRequest(d) \/ Malformed(d) \/ PrefaceH2(d)
           \/ Respond(d) \/ HandlerPanics(d)
           \/ ClientLeaves(d) \/ Close(d)
    PROVE  RunsOut(c)
<1>1. /\ conn \in [Conns -> {"none", "handshake", "open", "busy"}]
      /\ client \in [Conns -> [offer : Offers \cup {{}}, there : BOOLEAN]]
  BY DEF SrvInv, SrvTypeOK
<1>2. CASE d # c
  <2>1. conn'[c] = conn[c] /\ client'[c] = client[c]
    BY <1>1, <1>2 DEF Accept, HandshakeOk, HandshakeFails, ReadRequest, Malformed, PrefaceH2,
        Respond, HandlerPanics, ClientLeaves, Close, EndTask
  <2> QED
    BY <2>1 DEF RunsOut, Gone
<1>3. CASE d = c
  <2>1. conn[c] # "none" /\ ~ client[c].there
    BY DEF Gone
  <2>2. CASE EndTask(c)
    <3>1. conn'[c] = "none"
      BY <1>1, <2>2 DEF EndTask
    <3> QED
      BY <2>1, <3>1 DEF RunsOut, TaskLeft
  <2>3. CASE Respond(c)
    <3>1. conn[c] = "busy" /\ conn'[c] = "open" /\ client' = client
      BY <1>1, <2>3 DEF Respond
    <3> QED
      BY <2>1, <3>1 DEF RunsOut, Gone, TaskLeft
  <2> QED
    BY <1>3, <2>1, <2>2, <2>3 DEF Accept, HandshakeOk, HandshakeFails, ReadRequest, Malformed,
       PrefaceH2, HandlerPanics, ClientLeaves, Close, Listening
<1> QED
  BY <1>2, <1>3

\* A connection whose client has gone is only ever ended: no handshake succeeds on it and no
\* request is begun, a handler under way is the last, and its task is free for another
\* connection only when it has ended, for every number of connections (gateway.rs:208-227).
THEOREM LeaversRunOut == SrvSpec => [][\A c \in Conns : Gone(c) => RunsOut(c)]_srvVars
<1>1. ASSUME SrvInv, [SrvNext]_srvVars
      PROVE  [\A c \in Conns : Gone(c) => RunsOut(c)]_srvVars
  <2> SUFFICES ASSUME SrvNext, NEW c \in Conns, Gone(c) PROVE RunsOut(c)
    BY <1>1
  <2>1. ASSUME UNCHANGED <<conn, client>> PROVE RunsOut(c)
    BY <2>1 DEF RunsOut, Gone
  <2>2. CASE Listen \/ MetricsBind \/ MetricsError \/ Stopped
    BY <2>1, <2>2 DEF Listen, MetricsBind, MetricsError, Stopped, srvVars
  <2>3. ASSUME NEW s \in Scrapers, MetricsAccept(s) \/ MetricsClose(s) PROVE RunsOut(c)
    BY <2>1, <2>3 DEF MetricsAccept, MetricsClose
  <2>4. CASE StartFails \/ AcceptError
    <3>1. conn'[c] = "none" /\ conn[c] \in {"handshake", "open", "busy"}
      BY <1>1, <2>4 DEF StartFails, AcceptError, Exit, Gone, SrvInv, SrvTypeOK
    <3> QED
      BY <3>1 DEF RunsOut, TaskLeft
  <2> QED
    BY <1>1, <2>2, <2>3, <2>4, StepRunsOut DEF SrvNext
<1> QED
  BY <1>1, SrvInvariant, PTL DEF SrvSpec

-----------------------------------------------------------------------------
(* The protocol of a connection.                                           *)

\* Without TLS, and with client certificates, no protocol is agreed on.
NothingAgreed ==
    config.tls # "on" => \A c \in Conns : alpn[c] = "none" /\ failed[c] # "version"

\* NothingAgreed is kept by every step.
LEMMA NothingAgreedKept == SrvInv /\ NothingAgreed /\ [SrvNext]_srvVars => NothingAgreed'
<1> SUFFICES ASSUME SrvInv, NothingAgreed, [SrvNext]_srvVars, config'.tls # "on", NEW d \in Conns
             PROVE  alpn'[d] = "none" /\ failed'[d] # "version"
  BY DEF NothingAgreed
<1>1. /\ alpn \in [Conns -> {"none", "h2", "http/1.1"}]
      /\ failed \in [Conns -> {"no", "malformed", "version"}]
  BY DEF SrvInv, SrvTypeOK
<1>2. config' = config
  BY DEF SrvNext, StartFails, Listen, AcceptError, Exit, Accept, HandshakeOk, HandshakeFails,
     ReadRequest, Malformed, PrefaceH2, Respond, HandlerPanics, ClientLeaves, Close, EndTask,
     MetricsBind, MetricsError, MetricsAccept, MetricsClose, Stopped, srvVars
<1>3. \A c \in Conns : alpn[c] = "none" /\ failed[c] # "version"
  BY <1>2 DEF NothingAgreed
<1>4. CASE StartFails \/ AcceptError
  BY <1>4 DEF StartFails, AcceptError, Exit
<1>5. ASSUME UNCHANGED <<alpn, failed>> PROVE alpn'[d] = "none" /\ failed'[d] # "version"
  BY <1>3, <1>5
<1>6. CASE Listen \/ MetricsBind \/ MetricsError \/ Stopped \/ UNCHANGED srvVars
  BY <1>5, <1>6 DEF Listen, MetricsBind, MetricsError, Stopped, srvVars
<1>7. ASSUME NEW s \in Scrapers, MetricsAccept(s) \/ MetricsClose(s)
      PROVE  alpn'[d] = "none" /\ failed'[d] # "version"
  BY <1>5, <1>7 DEF MetricsAccept, MetricsClose
<1>8. ASSUME NEW c \in Conns,
             \/ \E offer \in Offers : Accept(c, offer)
             \/ ReadRequest(c) \/ Respond(c) \/ ClientLeaves(c)
      PROVE  alpn'[d] = "none" /\ failed'[d] # "version"
  BY <1>5, <1>8 DEF Accept, ReadRequest, Respond, ClientLeaves
<1>9. ASSUME NEW c \in Conns, HandshakeFails(c) \/ HandlerPanics(c) \/ Close(c)
      PROVE  alpn'[d] = "none" /\ failed'[d] # "version"
  BY <1>1, <1>3, <1>9 DEF HandshakeFails, HandlerPanics, Close, EndTask
<1>10. ASSUME NEW c \in Conns, Malformed(c) \/ PrefaceH2(c)
       PROVE  alpn'[d] = "none" /\ failed'[d] # "version"
  BY <1>1, <1>3, <1>10 DEF Malformed, PrefaceH2
<1>11. ASSUME NEW c \in Conns, HandshakeOk(c)
       PROVE  alpn'[d] = "none" /\ failed'[d] # "version"
  <2>1. Common(c) = {}
    BY <1>2 DEF Common, AlpnProtocols
  <2>2. Agreed(c) = "none"
    BY <2>1 DEF Agreed
  <2> QED
    BY <1>1, <1>3, <1>11, <2>2 DEF HandshakeOk
<1> QED
  BY <1>4, <1>6, <1>7, <1>8, <1>9, <1>10, <1>11 DEF SrvNext

\* The run `alpn` shows that a client may be given up for speaking the protocol it agreed on.
\* It takes TLS without client certificates: in plain HTTP, and with client_auth, where the
\* configuration is built anew without the ALPN protocols, ServedAsAgreed holds
\* (tls.rs:25, 48, gateway.rs:459).
THEOREM AlpnNeedsPlainTls == SrvSpec => [](config.tls # "on" => ServedAsAgreed)
<1>1. SrvInit => NothingAgreed
  BY DEF SrvInit, NothingAgreed
<1>2. NothingAgreed => (config.tls # "on" => ServedAsAgreed)
  BY DEF NothingAgreed, ServedAsAgreed
<1> QED
  BY <1>1, <1>2, SrvInvariant, NothingAgreedKept, PTL DEF SrvSpec
=============================================================================
