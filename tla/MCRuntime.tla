------------------------------ MODULE MCRuntime ------------------------------
EXTENDS Runtime

CONSTANTS e1, e2

TwoExecutors == <<e1, e2>>
OneExecutor  == <<e1>>

=============================================================================
