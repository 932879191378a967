---------------------------- MODULE MCAgentLink ----------------------------
\* One agent that connects over up to three connections at a time.
EXTENDS AgentLink
=============================================================================
