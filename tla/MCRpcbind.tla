------------------------------ MODULE MCRpcbind -----------------------------
EXTENDS Rpcbind

CONSTANTS k4, k6

\* A host with an IPv6 and an IPv4 address, in the order getaddrinfo tells them.
AddressesUsed == <<k6, k4>>
=============================================================================
