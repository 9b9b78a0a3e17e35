---------------------------- MODULE MCTimeouts ----------------------------
EXTENDS Timeouts
=============================================================================
