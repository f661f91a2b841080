------------------------------- MODULE MCJoin -------------------------------
EXTENDS Join
=============================================================================
