--------------------------- MODULE MCAsyncQueue ---------------------------
EXTENDS AsyncQueue
=============================================================================
