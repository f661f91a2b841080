---------------------------- MODULE MCReadiness ----------------------------
EXTENDS Readiness, TLC

CONSTANTS a, b, s

\* Tasks a and b share the stream.
Shared == (a :> s) @@ (b :> s)

=============================================================================
