------------------------------ MODULE MCOffload ------------------------------
EXTENDS Offload
=============================================================================
