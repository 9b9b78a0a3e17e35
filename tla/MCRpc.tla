------------------------------- MODULE MCRpc -------------------------------
EXTENDS Rpc

\* Two calls that may be served late, one that ends the connection behind them; one
\* that is not answered, before one that is served and one that is refused.
KindsOfCalls == {<<"good", "misread", "long">>, <<"malformed", "good", "refused">>}
=============================================================================
