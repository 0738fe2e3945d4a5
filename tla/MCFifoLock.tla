----------------------------- MODULE MCFifoLock -----------------------------
EXTENDS FifoLock, TLC

SamplerSymmetry == Permutations(Samplers)

=============================================================================
