------------------------------- MODULE MCSrpc -------------------------------
EXTENDS Srpc

Asks(prog, vers, decodes, method, readable, size) ==
  [prog |-> prog, vers |-> vers, decodes |-> decodes, method |-> method,
   readable |-> readable, size |-> size]

\* Programs 1 (versions 1 and 2) and 2 (version 1).
ServicesUsed == {<<1, 1>>, <<1, 2>>, <<2, 1>>}

\* One request for every branch of the server, and a reply of more than 16 MiB.
RequestsUsed ==
  {Asks(1, 1, TRUE, "returns", TRUE, 28), Asks(1, 1, TRUE, "returns", TRUE, 16777216),
   Asks(1, 2, TRUE, "returns", FALSE, 28), Asks(2, 1, FALSE, "returns", TRUE, 28),
   Asks(1, 1, TRUE, "refuses", TRUE, 28), Asks(2, 1, TRUE, "dies", TRUE, 28),
   Asks(1, 1, TRUE, "absent", TRUE, 28), Asks(2, 2, TRUE, "returns", TRUE, 28),
   Asks(3, 1, TRUE, "returns", TRUE, 28)}
=============================================================================
