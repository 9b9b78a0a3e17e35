-------------------------------- MODULE Rpc --------------------------------
(***************************************************************************)
(* RPC over one connection.  The client: an rpc_sock (msgsock.h,           *)
(* msgsock.cc) and the calls an asynchronous_client_base (arpc.h) sends    *)
(* through it.  The server: the connection of an rpc_tcp_listener          *)
(* (server.h, server.cc) with services whose methods answer through        *)
(* reply_cb (arpc.h), at once or later.  Between them two msg_socks carry  *)
(* messages as module Channel says, until the connection breaks.           *)
(*                                                                         *)
(* Each side runs in one thread.  Callbacks of the client are run in the   *)
(* middle of rpc_sock's functions, and may call these again; stack has the *)
(* functions that wait for a callback, the innermost first.                *)
(***************************************************************************)
EXTENDS Integers, Sequences, FiniteSets, TLC, SequencesExt

CONSTANTS
  MaxCalls,       \* bound: calls the client makes; they are numbered
  Kinds,          \* what the server may make of them, call by call
  Byte            \* a byte has the values 0..Byte-1, an xid is two bytes

Call == 1..MaxCalls
Kind == {"good", "misread", "refused", "malformed", "long"}

ASSUME RpcAssumption ==
  /\ MaxCalls \in Nat
  /\ Kinds \subseteq [1..MaxCalls -> Kind]
  /\ Byte \in Nat \ {0}

VARIABLES
  xid_, calls_,   \* rpc_sock; the keys of calls_ are xids in the order of the wire
  sock,           \* the client's rpc_sock: "open", "deleting" or "deleted"
  stack,          \* functions of rpc_sock that wait for a callback
  crashed,        \* the client used a null pointer or a deleted rpc_sock
  link,           \* the connection is up
  requests, replies,  \* messages on their way
  conn,           \* the server's rpc_sock exists
  held,           \* requests whose reply_cb a method has kept
  kind,           \* per call: what the server makes of it
  made,           \* calls made so far
  executed, answers, threw, lost  \* history

client == <<xid_, calls_, sock, stack, crashed>>
network == <<link, requests, replies>>
server == <<conn, held>>
history == <<kind, made, executed, answers, threw, lost>>
vars == <<client, network, server, history>>

----------------------------------------------------------------------------
(***************************************************************************)
(* Data.                                                                   *)
(***************************************************************************)
Xid == 0..Byte * Byte - 1

\* The word as a little-endian machine reads it from the wire.
Swap(x) == (x % Byte) * Byte + x \div Byte

issued == 1..made

Request == [xid : Xid, call : Call]
Reply == [xid : Xid, call : Call, what : {"result", "error"}]
What == {"result", "error", "network", "garbage"}
NoCalls == [w \in {} |-> 0]

\* A function that waits: recv_msg with a reply ("reply"), abort_all_calls called by
\* recv_msg ("end") or by the destructor ("delete"), recv_call(nullptr) ("servcb").
\* call: the calls (one or none) whose callback runs; left: the calls still to abort;
\* again: cb was called from the handler of an exception.
Frame == [why : {"reply", "end", "delete", "servcb"}, call : SUBSET Call,
          left : SUBSET Call, again : BOOLEAN]
Waiting(why, call, left, again) ==
  [why |-> why, call |-> call, left |-> left, again |-> again]

top == Head(stack)
Replace(f) == stack' = <<f>> \o Tail(stack)

TypeOK ==
  /\ xid_ \in Xid
  /\ DOMAIN calls_ \subseteq Xid /\ Range(calls_) \subseteq Call
  /\ sock \in {"open", "deleting", "deleted"}
  /\ stack \in Seq(Frame) /\ Len(stack) <= 2
  /\ {crashed, link, conn} \subseteq BOOLEAN
  /\ requests \in Seq(Request) /\ replies \in Seq(Reply)
  /\ held \subseteq Request
  /\ kind \in Kinds /\ made \in 0..MaxCalls /\ executed \in Seq(Call)
  /\ threw \subseteq issued /\ lost \subseteq issued
  /\ answers \in [Call -> Seq([what : What, of : Call])]

Init ==
  /\ xid_ = 0 /\ calls_ = NoCalls
  /\ sock = "open" /\ stack = <<>> /\ crashed = FALSE
  /\ link = TRUE /\ requests = <<>> /\ replies = <<>>
  /\ conn = TRUE /\ held = {}
  /\ kind \in Kinds /\ made = 0 /\ executed = <<>> /\ answers = [c \in Call |-> <<>>]
  /\ threw = {} /\ lost = {}

----------------------------------------------------------------------------
(***************************************************************************)
(* The network.                                                            *)
(***************************************************************************)
\* Of what was sent while the connection was up, a part arrives.
Break ==
  /\ link
  /\ link' = FALSE
  /\ requests' \in Prefixes(requests) /\ replies' \in Prefixes(replies)
  /\ UNCHANGED <<client, server, history>>

SendReplies(s) ==
  /\ replies' = IF link THEN replies \o s ELSE replies
  /\ UNCHANGED link

----------------------------------------------------------------------------
(***************************************************************************)
(* The client's program, outside poll and in callbacks.                    *)
(***************************************************************************)
UserCode ==
  /\ ~crashed
  /\ stack # <<>> => top.call # {} \/ top.why = "servcb"

\* Variant: xid_ is incremented only if it is in use.
GetXidLazily ==
  LET x(k) == (xid_ + k) % (Byte * Byte)
      Found(k) == x(k) \notin DOMAIN calls_
  IN x(CHOOSE k \in 0..Byte * Byte : Found(k) /\ \A j \in 0..k - 1 : ~Found(j))

\* get_xid: looks for the xid in the order of the host; 0 ends the search.
get_xid ==
  LET x(k) == (xid_ + k) % (Byte * Byte)
      Found(k) == x(k) \notin DOMAIN calls_ \/ x(k) = 0
  IN x(CHOOSE k \in 1..Byte * Byte : Found(k) /\ \A j \in 1..k - 1 : ~Found(j))

\* send_call: emplace does nothing if the key is there.
SendCall(x, c) ==
  calls_' = [w \in DOMAIN calls_ \cup {Swap(x)} |-> IF w \in DOMAIN calls_ THEN calls_[w] ELSE c]

\* asynchronous_client_base::invoke.
Invoke ==
  /\ UserCode /\ sock # "deleted"
  /\ made < MaxCalls
  /\ made' = made + 1
  /\ xid_' = get_xid
  /\ SendCall(xid_', made')
  /\ requests' = IF link THEN Append(requests, [xid |-> xid_', call |-> made']) ELSE requests
  /\ UNCHANGED <<sock, stack, crashed, link, replies, server,
                 kind, executed, answers, threw, lost>>

\* Variant: the calls are copied.
AbortAllCallsKeeping(why, rest) ==
  /\ stack' = <<Waiting(why, {}, Range(calls_), FALSE)>> \o rest
  /\ UNCHANGED calls_

\* abort_all_calls: the calls are moved out of calls_.
AbortAllCalls(why, rest) ==
  /\ stack' = <<Waiting(why, {}, Range(calls_), FALSE)>> \o rest
  /\ calls_' = NoCalls

\* ~rpc_sock, called by the program.
Delete ==
  /\ UserCode /\ sock = "open"
  /\ sock' = "deleting"
  /\ AbortAllCalls("delete", stack)
  /\ UNCHANGED <<xid_, crashed, network, server, history>>

----------------------------------------------------------------------------
(***************************************************************************)
(* The client's rpc_sock.                                                  *)
(***************************************************************************)
Answered(c, a) == answers' = [answers EXCEPT ![c] = Append(@, a)]

\* Variant: the call stays in calls_.
EraseNothing(w) == UNCHANGED calls_

Erase(w) == calls_' = [v \in DOMAIN calls_ \ {w} |-> calls_[v]]

\* recv_msg with a reply, and the callback that invoke gave to send_call.  A reply to
\* an unknown call is ignored; one that cannot be decoded is garbage.
ReceiveReply ==
  /\ ~crashed /\ sock = "open" /\ stack = <<>>
  /\ replies # <<>>
  /\ replies' = Tail(replies)
  /\ LET m == Head(replies)
         garbage == m.what = "result" /\ kind[m.call] = "misread"
     IN IF Swap(m.xid) \in DOMAIN calls_
        THEN /\ Erase(Swap(m.xid))
             /\ stack' = <<Waiting("reply", {calls_[Swap(m.xid)]}, {}, garbage)>>
             /\ Answered(calls_[Swap(m.xid)],
                         [what |-> IF garbage THEN "garbage" ELSE m.what, of |-> m.call])
        ELSE UNCHANGED <<calls_, stack, answers>>
  /\ UNCHANGED <<xid_, sock, crashed, link, requests, server,
                 kind, made, executed, threw, lost>>

\* Variant: only the server's callback is told.
ConnectionEndsQuietly ==
  /\ ~crashed /\ sock = "open" /\ stack = <<>>
  /\ ~link /\ replies = <<>>
  /\ stack' = <<Waiting("end", {}, {}, FALSE)>>
  /\ UNCHANGED <<xid_, calls_, sock, crashed, network, server, history>>

\* recv_msg(nullptr), in every round after the end of the stream.
ConnectionEnds ==
  /\ ~crashed /\ sock = "open" /\ stack = <<>>
  /\ ~link /\ replies = <<>>
  /\ AbortAllCalls("end", <<>>)
  /\ UNCHANGED <<xid_, sock, crashed, network, server, history>>

Aborting == ~crashed /\ stack # <<>> /\ top.why \in {"end", "delete"} /\ top.call = {}

\* The loop of abort_all_calls, in the map's order.
AbortNext ==
  /\ Aborting
  /\ \E c \in top.left :
       /\ Replace(Waiting(top.why, {c}, top.left \ {c}, FALSE))
       /\ Answered(c, [what |-> "network", of |-> c])
  /\ UNCHANGED <<xid_, calls_, sock, crashed, network, server,
                 kind, made, executed, threw, lost>>

\* The end of ~rpc_sock: its members go, calls made meanwhile with them.
DeleteDone ==
  /\ Aborting /\ top.why = "delete" /\ top.left = {}
  /\ stack' = Tail(stack)
  /\ sock' = "deleted"
  /\ lost' = lost \cup Range(calls_) /\ calls_' = NoCalls
  /\ link' = FALSE /\ requests' \in Prefixes(requests) /\ replies' = <<>>
  /\ UNCHANGED <<xid_, crashed, server, kind, made, executed, answers, threw>>

\* recv_call(nullptr) after abort_all_calls, with the servcb_ that the program has set
\* by now (if any): it reads servcb_ of an rpc_sock that may be gone, and a message
\* that is not there if servcb_ is empty.
EndDone ==
  /\ Aborting /\ top.why = "end" /\ top.left = {}
  /\ \/ sock = "open" /\ Replace(Waiting("servcb", {}, {}, FALSE)) /\ UNCHANGED crashed
     \/ crashed' = TRUE /\ UNCHANGED stack
  /\ UNCHANGED <<xid_, calls_, sock, network, server, history>>

Called == ~crashed /\ stack # <<>> /\ (top.call # {} \/ top.why = "servcb")

\* Back from a callback: abort_all_calls goes on, the others are through.
CallbackReturns ==
  /\ Called
  /\ IF top.why \in {"end", "delete"}
     THEN Replace(Waiting(top.why, {}, top.left, FALSE))
     ELSE stack' = Tail(stack)
  /\ UNCHANGED <<xid_, calls_, sock, crashed, network, server, history>>

\* An xdr_runtime_error from a callback: abort_all_calls goes on; invoke's callback
\* calls cb again, with GARBAGE_RES; otherwise it leaves poll.
CallbackThrows ==
  /\ Called
  /\ CASE top.why \in {"end", "delete"} ->
            /\ Replace(Waiting(top.why, {}, top.left, FALSE))
            /\ UNCHANGED <<answers, threw>>
       [] top.why = "reply" /\ ~top.again ->
            /\ Replace(Waiting("reply", top.call, {}, TRUE))
            /\ \E c \in top.call : Answered(c, [what |-> "garbage", of |-> c])
            /\ threw' = threw \cup top.call
       [] OTHER ->
            /\ stack' = <<>>
            /\ UNCHANGED <<answers, threw>>
  /\ UNCHANGED <<xid_, calls_, sock, crashed, network, server,
                 kind, made, executed, lost>>

----------------------------------------------------------------------------
(***************************************************************************)
(* The server.                                                             *)
(***************************************************************************)
Error(r) == [xid |-> r.xid, call |-> r.call, what |-> "error"]
Result(r) == [xid |-> r.xid, call |-> r.call, what |-> "result"]
Reached(k) == conn /\ requests # <<>> /\ kind[Head(requests).call] \in k

\* dispatch: a header that cannot be decoded, or is not a call, is ignored.
IgnoreCall ==
  /\ Reached({"malformed"})
  /\ requests' = Tail(requests)
  /\ UNCHANGED <<client, link, replies, server, history>>

\* dispatch and process: another version of RPC, an unknown program, version or
\* procedure, arguments that cannot be decoded.
RefuseCall ==
  /\ Reached({"refused"})
  /\ requests' = Tail(requests)
  /\ SendReplies(<<Error(Head(requests))>>)
  /\ UNCHANGED <<client, server, history>>

\* The method replies, keeps reply_cb, or drops it, whose destructor then rejects the
\* call; if it throws an xdr_runtime_error dispatch replies (too).
ServeCall(does, throws) ==
  /\ Reached({"good", "misread"})
  /\ requests' = Tail(requests)
  /\ LET r == Head(requests)
         sent == CASE does = "replies" -> <<Result(r)>>
                   [] does = "keeps" -> <<>>
                   [] does = "drops" -> <<Error(r)>>
     IN /\ SendReplies(IF throws THEN Append(sent, Error(r)) ELSE sent)
        /\ held' = IF does = "keeps" THEN held \cup {r} ELSE held
        /\ executed' = Append(executed, r.call)
  /\ UNCHANGED <<client, conn, kind, made, answers, threw, lost>>

\* A reply_cb that was kept is called, or dropped.  Without conn it has a pointer to
\* an rpc_sock that was deleted, and what it does to it does not reach the client.
LateReply(r) ==
  /\ r \in held
  /\ held' = held \ {r}
  /\ IF conn THEN \E m \in {Result(r), Error(r)} : SendReplies(<<m>>)
             ELSE UNCHANGED <<link, replies>>
  /\ UNCHANGED <<client, requests, conn, history>>

\* receive_cb(nullptr): session_free, in which the session drops the reply_cbs that it
\* holds, so that their calls are rejected (others may be held elsewhere), then the
\* rpc_sock is deleted.
FreeConnection ==
  /\ conn' = FALSE
  /\ link' = FALSE /\ requests' = <<>>
  /\ \E dropped \in SUBSET held :
       /\ held' = held \ dropped
       /\ LET errors == [k \in DOMAIN SetToSeq(dropped) |-> Error(SetToSeq(dropped)[k])]
          IN replies' \in Prefixes(IF link THEN replies \o errors ELSE replies)

\* The stream has ended, or has a message of more than maxmsglen_ bytes.
ServerEnd ==
  /\ conn
  /\ (requests = <<>> /\ ~link) \/ Reached({"long"})
  /\ FreeConnection
  /\ UNCHANGED <<client, history>>

----------------------------------------------------------------------------
Program == Invoke \/ Delete \/ CallbackThrows

Client == ReceiveReply \/ ConnectionEnds \/ AbortNext \/ DeleteDone \/ EndDone \/ CallbackReturns

Server ==
  \/ IgnoreCall \/ RefuseCall \/ ServerEnd
  \/ \E does \in {"replies", "keeps", "drops"}, throws \in BOOLEAN : ServeCall(does, throws)

Next == Program \/ Client \/ Server \/ Break \/ \E r \in held : LateReply(r)

(***************************************************************************)
(* Both programs poll, callbacks and methods end, and a reply_cb is not    *)
(* kept for ever.                                                          *)
(***************************************************************************)
Fairness ==
  /\ WF_vars(Client)
  /\ WF_vars(Server)
  /\ \A c \in Call : WF_vars(\E r \in held : r.call = c /\ LateReply(r))

Spec == Init /\ [][Next]_vars /\ Fairness

----------------------------------------------------------------------------
(***************************************************************************)
(* Properties.                                                             *)
(***************************************************************************)

\* A callback is called once, and a second time only if it threw an
\* xdr_runtime_error; a server that replies twice (a method that throws) does not
\* change that.
AnsweredOnce == \A c \in Call : Len(answers[c]) <= IF c \in threw THEN 2 ELSE 1

\* No call is forgotten: it is answered, or in calls_, or abort_all_calls has it, or
\* it was made while its rpc_sock was being destroyed.  (With it, the state has its
\* type.)
Kept(c) == IF c \in Range(calls_) \/ \E k \in DOMAIN stack : c \in stack[k].left THEN 1 ELSE 0
NoneForgotten ==
  /\ TypeOK
  /\ \A c \in issued :
       Kept(c) + (IF answers[c] # <<>> THEN 1 ELSE 0) + (IF c \in lost THEN 1 ELSE 0) = 1

\* Every call gets the answer to this call, executed at most once.
RemoteCalls == INSTANCE Calls
  WITH answer <- [c \in Call |-> IF answers[c] = <<>> THEN [what |-> "none", of |-> c]
                                                     ELSE Head(answers[c])]
AnsweredAsCalled == RemoteCalls!Spec

\* Every call is answered, unless the server ignored it, it was made in a destructor,
\* or the client crashed.
AllAnswered ==
  []<>(\A c \in issued : answers[c] # <<>> \/ c \in lost \/ kind[c] = "malformed" \/ crashed)

\* "incoming call but no server": a client that has no server callback lives on when
\* its connection ends.
SurvivesEnd == ~crashed

=============================================================================
