------------------------------- MODULE MCChat -------------------------------
EXTENDS Chat, MCOrchestrator
=============================================================================
