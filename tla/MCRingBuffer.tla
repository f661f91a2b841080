---- MODULE MCRingBuffer ----
EXTENDS RingBufferDiscipline
====
