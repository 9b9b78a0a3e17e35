----------------------------- MODULE MCPollset -----------------------------
EXTENDS Pollset, TLC

Symmetry == Permutations(Fd)

\* Every kind of callback.
AllUses == Side \X {"every", "once"}
=============================================================================
