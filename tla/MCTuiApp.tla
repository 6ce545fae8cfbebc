------------------------------ MODULE MCTuiApp ------------------------------
EXTENDS TuiApp

CONSTANTS a, b

MCServers == <<a, b>>

=============================================================================
