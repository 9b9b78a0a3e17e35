----------------------------- MODULE MCMsgSock -----------------------------
EXTENDS MsgSock

\* An empty message, one of the largest size, one that is too long, a fragment.
Lengths == <<0, 2, 3, 0>>
Lasts == <<TRUE, TRUE, TRUE, FALSE>>
=============================================================================
