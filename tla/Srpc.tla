------------------------------- MODULE Srpc -------------------------------
(***************************************************************************)
(* Synchronous RPC (srpc.h, srpc.cc): a client that calls and waits, and a *)
(* srpc_server (server.cc, srpc.h) that serves one message after the       *)
(* other, over a stream socket that both of them read and write blocking.  *)
(*                                                                         *)
(* A read or a write may be interrupted by a signal: fullread and          *)
(* write_message take that for an error (pollset.cc installs its handlers  *)
(* without SA_RESTART).  A client whose read failed may call again, and    *)
(* then begins to read where it stopped, perhaps in the middle of a        *)
(* message, whose words it takes for lengths and bodies: such a message is *)
(* called torn here, wherever in it the reader is.                         *)
(***************************************************************************)
EXTENDS Integers, Sequences, SequencesExt

CONSTANTS
  Services,   \* servers_: the pairs <<prog, vers>> that are registered
  Requests,   \* what a call may ask for
  MaxCalls,   \* bound: calls, which are numbered as their xids are
  MaxFaults   \* bound: interrupted reads and writes

Call == 1..MaxCalls

(***************************************************************************)
(* decodes: the arguments are of the types the server expects; method:     *)
(* what the method does then; readable: the client can decode the result;  *)
(* size: the size of the reply that carries it.                            *)
(***************************************************************************)
Method == {"absent", "returns", "refuses", "dies"}
Request == [prog : Nat, vers : Nat, decodes : BOOLEAN, method : Method,
            readable : BOOLEAN, size : Nat]

ASSUME SrpcAssumption ==
  /\ Services \subseteq Nat \X Nat
  /\ Requests \subseteq Request
  /\ MaxCalls \in Nat /\ MaxFaults \in Nat

VARIABLES
  xid_counter,         \* the last xid; also the number of calls made
  client, server,      \* what each of them is doing
  toServer, toClient,  \* the messages under way
  current,             \* the message the server has read last
  asked, answers,      \* per call, what for and how it ended
  executed,            \* per call, how often its method has run
  faults               \* interrupted reads and writes so far

wire == <<toServer, toClient>>
history == <<asked, executed>>
vars == <<xid_counter, client, server, wire, current, history, answers, faults>>

Small == 24
Pending == [what |-> "pending"]
Nobody == [xid |-> 0]

Init ==
  /\ xid_counter = 0 /\ client = "idle" /\ server = "reading"
  /\ toServer = << >> /\ toClient = << >> /\ current = Nobody
  /\ asked = << >> /\ answers = << >> /\ executed = << >>
  /\ faults = 0

----------------------------------------------------------------------------
(***************************************************************************)
(* Messages and the reading of them.                                       *)
(***************************************************************************)
Message(m, size) == [msg |-> m, size |-> size, torn |-> FALSE]

\* len & 3, before swap32le: the first byte of the word, in which the mark of
\* the last fragment is 128, decides.
BadLength(size) == (128 + size \div 16777216) % 4 # 0

\* The first message of s when a part of it has been read.
Torn(s) == IF s = << >> THEN s ELSE <<[Head(s) EXCEPT !.torn = TRUE]>> \o Tail(s)

\* What may be left of s after up to four bytes out of its first message, which may
\* be its last bytes and the first of the next, and after any number of bytes.
WordRead(s) == {Torn(s), Tail(s), Torn(Tail(s))}
BytesRead(s) == Suffixes(s) \cup {Torn(t) : t \in Suffixes(s)}

Fault == faults < MaxFaults /\ faults' = faults + 1

----------------------------------------------------------------------------
(***************************************************************************)
(* The client: invoke.                                                     *)
(***************************************************************************)
Result(m) == [what |-> "result", of |-> m.call]
Refusal(m) == [what |-> "refused", of |-> m.call, stat |-> m.stat]
Failure == [what |-> "error"]
Forgery == [what |-> "forged"]  \* a result or refusal made of bytes out of replies

Ends(answer) ==
  /\ client' = "idle" /\ answers' = [answers EXCEPT ![xid_counter] = answer]

\* prepare_call, write_message.  A write fails if it is interrupted or the server has
\* gone; one that stops half-way fails the assertion, and ends the program, as the
\* signal SIGPIPE does.
Invoke(r) ==
  /\ client = "idle" /\ xid_counter < MaxCalls
  /\ xid_counter' = xid_counter + 1
  /\ asked' = Append(asked, r) /\ executed' = Append(executed, 0)
  /\ \/ /\ toServer' = Append(toServer,
                              Message([xid |-> xid_counter', call |-> xid_counter'], Small))
        /\ client' = "reading" /\ answers' = Append(answers, Pending)
        /\ UNCHANGED faults
     \/ /\ Fault \/ (server = "gone" /\ UNCHANGED faults)
        /\ \/ UNCHANGED client /\ answers' = Append(answers, Failure)
           \/ client' = "gone" /\ answers' = Append(answers, Pending)
        /\ UNCHANGED toServer
  /\ UNCHANGED <<server, toClient, current>>

\* Variant: any reply that comes is the reply.
ReceiveAny(m) ==
  Ends(IF m.stat # "SUCCESS" THEN Refusal(m)
       ELSE IF ~asked[m.call].readable THEN Failure
       ELSE Result(m))

\* check_call_hdr, which throws xdr_call_error, then the xid, then the result.
Receive(m) ==
  Ends(IF m.stat # "SUCCESS" THEN Refusal(m)
       ELSE IF m.xid # xid_counter \/ ~asked[m.call].readable THEN Failure
       ELSE Result(m))

\* read_message at the beginning of a message.
ClientReads ==
  /\ client = "reading" /\ toClient # << >> /\ ~Head(toClient).torn
  /\ IF BadLength(Head(toClient).size)
     THEN Ends(Failure) /\ toClient' = Torn(toClient)
     ELSE Receive(Head(toClient).msg) /\ toClient' = Tail(toClient)
  /\ UNCHANGED <<xid_counter, server, toServer, current, history, faults>>

\* read_message elsewhere.  A word that is no multiple of four or has no mark of the
\* last fragment throws; any other is the length of a message, and if less than a word
\* is left the client waits for the rest of it.
Misreads ==
  /\ client = "reading" /\ toClient # << >> /\ Head(toClient).torn
  /\ toClient' \in WordRead(toClient)
  /\ Ends(Failure) \/ (client' = "astray" /\ UNCHANGED answers)
  /\ UNCHANGED <<xid_counter, server, toServer, current, history, faults>>

\* There are as many bytes as the client takes its message to have (a server that has
\* gone may have sent a part of one more reply), and they are no reply, or one.
Swallows ==
  /\ client = "astray"
  /\ toClient' \in BytesRead(toClient)
  /\ Ends(Failure) \/ ((toClient # << >> \/ server = "gone") /\ Ends(Forgery))
  /\ UNCHANGED <<xid_counter, server, toServer, current, history, faults>>

\* read fails, perhaps not at once.
Interrupted ==
  /\ Fault /\ Ends(Failure)
  /\ \/ client = "reading" /\ toClient' \in {toClient, Torn(toClient)}
     \/ client = "reading" /\ toClient # << >> /\ Head(toClient).torn
                           /\ toClient' \in WordRead(toClient)
     \/ client = "astray" /\ toClient' \in BytesRead(toClient)
  /\ UNCHANGED <<xid_counter, server, toServer, current, history>>

\* The server's socket is closed, and there is no more to read: a reply that was under
\* way may have been lost with requests that the server had not read.
EndOfFile ==
  /\ client \in {"reading", "astray"} /\ server = "gone"
  /\ toClient' = << >> /\ Ends(Failure)
  /\ UNCHANGED <<xid_counter, server, toServer, current, history, faults>>

----------------------------------------------------------------------------
(***************************************************************************)
(* The server: run, which an exception ends, and then its socket is        *)
(* closed.                                                                 *)
(***************************************************************************)
ServerReads ==
  /\ server = "reading" /\ toServer # << >>
  /\ toServer' = Tail(toServer)
  /\ IF BadLength(Head(toServer).size)
     THEN server' = "gone" /\ UNCHANGED current
     ELSE server' = "message" /\ current' = Head(toServer).msg
  /\ UNCHANGED <<xid_counter, client, toClient, history, answers, faults>>

\* The read is interrupted, or there will be nothing more to read.
ServerFails ==
  /\ server = "reading" /\ server' = "gone"
  /\ Fault \/ (client = "gone" /\ toServer = << >> /\ UNCHANGED faults)
  /\ UNCHANGED <<xid_counter, client, wire, current, history, answers>>

served == asked[current.call]
Registered == <<served.prog, served.vers>> \in Services
Called == served.method # "absent" /\ served.decodes
Versions(prog) == {s[2] : s \in {x \in Services : x[1] = prog}}

Replying(stat) == [xid |-> current.xid, call |-> current.call, stat |-> stat]
Reply(stat, size) ==
  /\ toClient' = Append(toClient, Message(Replying(stat), size)) /\ server' = "reading"

Executes == executed' = [executed EXCEPT ![current.call] = @ + 1]

\* Variant: the message is followed by another for its version.
RefuseTwice ==
  /\ ~Registered
  /\ toClient' = toClient \o <<Message(Replying("PROG_UNAVAIL"), Small),
                               Message(Replying("PROG_MISMATCH"), Small)>>
  /\ server' = "reading" /\ UNCHANGED <<executed, faults>>

\* Variant: nothing is said about a program that is not there.
RefuseSilently ==
  /\ ~Registered
  /\ IF Versions(served.prog) = {} THEN server' = "reading" /\ UNCHANGED toClient
     ELSE Reply("PROG_MISMATCH", Small)
  /\ UNCHANGED <<executed, faults>>

\* rpc_server_base::dispatch: no such program, no such version of it.
Refuse ==
  /\ ~Registered
  /\ Reply(IF Versions(served.prog) = {} THEN "PROG_UNAVAIL" ELSE "PROG_MISMATCH", Small)
  /\ UNCHANGED <<executed, faults>>

\* srpc_service::process and dispatch: the method is not called.
Decline ==
  /\ Registered
  /\ \/ served.method = "absent" /\ Reply("PROC_UNAVAIL", Small)
     \/ served.method # "absent" /\ ~served.decodes /\ Reply("GARBAGE_ARGS", Small)
  /\ UNCHANGED <<executed, faults>>

\* The method is called; an xdr_runtime_error of it is answered in dispatch.
Serve ==
  /\ Registered /\ Called
  /\ Executes
  /\ \/ served.method = "returns" /\ Reply("SUCCESS", served.size)
     \/ served.method = "refuses" /\ Reply("GARBAGE_ARGS", Small)
     \/ served.method = "dies" /\ server' = "gone" /\ UNCHANGED toClient
  /\ UNCHANGED faults

Processed == served.method \in {"absent", "returns"} \/ ~served.decodes

\* The reply cannot be written.  Within process, dispatch takes this for garbage
\* arguments and replies again; anywhere else, or if that fails too, it ends run; and
\* the assertion ends the program if a part of the reply is written.
ReplyFails ==
  /\ Fault /\ (~Registered \/ Processed \/ served.method = "refuses")
  /\ IF Registered /\ Called THEN Executes ELSE UNCHANGED executed
  /\ \/ Registered /\ Processed /\ Reply("GARBAGE_ARGS", Small)
     \/ server' = "gone" /\ UNCHANGED toClient

Dispatch ==
  /\ server = "message"
  /\ Refuse \/ Decline \/ Serve \/ ReplyFails
  /\ current' = Nobody
  /\ UNCHANGED <<xid_counter, client, toServer, asked, answers>>

----------------------------------------------------------------------------
Client == ClientReads \/ Misreads \/ Swallows \/ Interrupted \/ EndOfFile
Server == ServerReads \/ ServerFails \/ Dispatch
Next == (\E r \in Requests : Invoke(r)) \/ Client \/ Server

\* Both sides go on reading and serving; a call need not be made, and what a client
\* waits for that was led astray need not come.
Fairness ==
  /\ WF_vars(ClientReads \/ Misreads) /\ WF_vars(EndOfFile)
  /\ WF_vars(ServerReads) /\ WF_vars(Dispatch)
Spec == Init /\ [][Next]_vars /\ Fairness

----------------------------------------------------------------------------
TypeOK ==
  /\ xid_counter \in 0..MaxCalls /\ faults \in 0..MaxFaults
  /\ client \in {"idle", "reading", "astray", "gone"}
  /\ server \in {"reading", "message", "gone"}
  /\ {Len(asked), Len(answers), Len(executed)} = {xid_counter}

(***************************************************************************)
(* A call that returns returns its own result, and its method has run just *)
(* once: late replies to earlier calls that failed, which lie in the       *)
(* stream before its own, are never taken for it (srpc.h:64), nor is the   *)
(* rest of a torn one, unless its bytes happen to be a reply themselves.   *)
(* No method runs twice for a call.                                        *)
(***************************************************************************)
OwnResultOnce ==
  /\ TypeOK
  /\ \A c \in DOMAIN answers :
       /\ executed[c] <= 1
       /\ answers[c].what = "result" => answers[c].of = c /\ executed[c] = 1

\* What the server promises a call, if nothing gets in its way.
Promise(c, r) ==
  IF <<r.prog, r.vers>> \notin Services THEN
         [what |-> "refused", of |-> c,
          stat |-> IF \E s \in Services : s[1] = r.prog THEN "PROG_MISMATCH" ELSE "PROG_UNAVAIL"]
  ELSE IF r.method = "absent" THEN [what |-> "refused", of |-> c, stat |-> "PROC_UNAVAIL"]
  ELSE IF ~r.decodes \/ r.method = "refuses" THEN [what |-> "refused", of |-> c, stat |-> "GARBAGE_ARGS"]
  ELSE IF r.readable THEN [what |-> "result", of |-> c]
  ELSE Failure

Disturbed ==
  \/ faults > 0 \/ server = "gone"
  \/ \E c \in DOMAIN asked : BadLength(asked[c].size)

(***************************************************************************)
(* Without a signal, a dead server or a very large result, client and      *)
(* server stay in step: every call ends as the server's dispatch promises, *)
(* whatever happened to the calls before it (server.cc:78, srpc.h:121).    *)
(***************************************************************************)
InStep ==
  ~Disturbed =>
    /\ \A c \in DOMAIN answers : answers[c] \in {Pending, Promise(c, asked[c])}
    /\ client = "idle" => toClient = << >>

(***************************************************************************)
(* Every call ends, with its result, a refusal or an exception, whatever   *)
(* is asked for and whatever fails, unless a word in the middle of a torn  *)
(* message was taken for a length (srpc.cc:38).                            *)
(***************************************************************************)
CallsEnd == client = "reading" ~> client \in {"idle", "astray"}
=============================================================================
