-------------------------- MODULE MCPipeInstances --------------------------
EXTENDS PipeInstances
=============================================================================
