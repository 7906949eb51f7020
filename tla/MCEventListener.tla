-------------------------- MODULE MCEventListener ---------------------------
\* Two sessions that are accepted and one that connects, on a listener without
\* threads or with two of them.
EXTENDS EventListener
=============================================================================
