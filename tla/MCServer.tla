------------------------------ MODULE MCServer -----------------------------
(***************************************************************************)
(* Configurations and clients for model checking Server.                   *)
(***************************************************************************)
EXTENDS Server

MCConfigs == Config

\* Clients without ALPN, of HTTP/1 only, of both, and of neither.
MCOffers == {{}, {"http/1.1"}, {"h2", "http/1.1"}, {"acme-tls/1"}}

TlsConfigs == {[tls |-> "on", metrics |-> FALSE]}
=============================================================================
