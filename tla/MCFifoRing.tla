----------------------------- MODULE MCFifoRing -----------------------------
EXTENDS FifoRing

=============================================================================
