----------------------------- MODULE MCService -----------------------------
(* An ingestor or a media service, stopped by two signals.                  *)
EXTENDS Service, TLC

CONSTANTS SIGTERM, SIGINT

=============================================================================
