-------------------------- MODULE MCGroupRebalance --------------------------
EXTENDS GroupRebalance
=============================================================================
