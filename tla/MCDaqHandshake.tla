--------------------------- MODULE MCDaqHandshake ---------------------------
EXTENDS DaqHandshake

=============================================================================
