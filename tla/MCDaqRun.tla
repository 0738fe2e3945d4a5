------------------------------ MODULE MCDaqRun ------------------------------
EXTENDS DaqRun

=============================================================================
