----------------------------- MODULE MCContainer -----------------------------
\* The container with the grace period of the kasm and vnc connectors
\* (plugins/connectors/*/manifest.toml: stop_grace_period = "30s").
EXTENDS Container
=============================================================================
