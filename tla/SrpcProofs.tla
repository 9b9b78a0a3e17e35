------------------------------ MODULE SrpcProofs ------------------------------
(***************************************************************************)
(* For every set of services and requests, any number of calls and of      *)
(* interrupted reads and writes: a synchronous call that returns returns   *)
(* its own result, of a method that has run once, or one that is made of   *)
(* the bytes of torn replies; and client and server stay in step while     *)
(* nothing disturbs them.                                                  *)
(***************************************************************************)
EXTENDS Srpc, SequenceTheorems, TLAPS

\* What is in the messages under way, and what is known about a call.
Asking == [xid : Call, call : Call]
Stat == {"SUCCESS", "PROG_UNAVAIL", "PROG_MISMATCH", "PROC_UNAVAIL", "GARBAGE_ARGS"}
Replies == [xid : Call, call : Call, stat : Stat]
Wire == [msg : Asking \cup Replies, size : Nat, torn : BOOLEAN]
Answer == [what : {"pending", "error", "forged"}] \cup [what : {"result"}, of : Call]
            \cup [what : {"refused"}, of : Call, stat : Stat]

Types ==
  /\ TypeOK
  /\ asked \in Seq(Requests) /\ executed \in Seq({0, 1}) /\ answers \in Seq(Answer)
  /\ toServer \in Seq(Wire) /\ toClient \in Seq(Wire)
  /\ client # "idle" => xid_counter > 0

\* The calls whose messages are under way to the server have not been executed, and
\* are different calls; so is the one the server is at.
Waits(m) == m.call \in 1..xid_counter /\ m.xid = m.call /\ executed[m.call] = 0
Distinct ==
  /\ \A k \in 1..Len(toServer) : Waits(toServer[k].msg)
  /\ \A j, k \in 1..Len(toServer) :
       j # k => toServer[j].msg.call # toServer[k].msg.call
  /\ server = "message" =>
       /\ Waits(current)
       /\ \A k \in 1..Len(toServer) : toServer[k].msg.call # current.call

\* A reply names its call, and one with a result comes of an execution.
Honest ==
  \A k \in 1..Len(toClient) :
    LET m == toClient[k].msg
    IN  /\ m.call \in 1..xid_counter /\ m.xid = m.call /\ m.stat \in Stat
        /\ m.stat = "SUCCESS" => executed[m.call] = 1

Own == \A c \in 1..xid_counter :
         answers[c].what = "result" => answers[c].of = c /\ executed[c] = 1

IInv == Types /\ Distinct /\ Honest /\ Own

----------------------------------------------------------------------------
(***************************************************************************)
(* Messages.                                                               *)
(***************************************************************************)
LEMMA MessageType ==
  ASSUME NEW m \in Asking \cup Replies, NEW size \in Nat
  PROVE  /\ Message(m, size) \in Wire /\ Message(m, size).msg = m
         /\ Message(m, size).size = size /\ ~Message(m, size).torn
BY DEF Message, Wire

\* t is s with message m appended.
Extends(t, s, m) ==
  /\ t \in Seq(Wire) /\ Len(t) = Len(s) + 1
  /\ \A k \in 1..Len(s) : t[k] = s[k]
  /\ t[Len(s) + 1].msg = m

LEMMA Appends ==
  ASSUME NEW s \in Seq(Wire), NEW m \in Asking \cup Replies, NEW size \in Nat
  PROVE  Extends(Append(s, Message(m, size)), s, m)
<1> DEFINE M == Message(m, size)
<1>1. M \in Wire /\ M.msg = m
  BY MessageType
<1> HIDE DEF M
<1>2. Extends(Append(s, M), s, m)
  BY <1>1 DEF Extends
<1> QED
  BY <1>2 DEF M

\* t is a part of s, some of its messages torn.
PartOf(t, s) ==
  /\ t \in Seq(Wire)
  /\ \A k \in 1..Len(t) : \E j \in 1..Len(s) : t[k].msg = s[j].msg

LEMMA PartOfPart ==
  ASSUME NEW s, NEW t, NEW u, PartOf(t, s), PartOf(u, t)
  PROVE  PartOf(u, s)
BY DEF PartOf

LEMMA TailIsPart ==
  ASSUME NEW s \in Seq(Wire), s # << >>
  PROVE  PartOf(Tail(s), s)
<1>1. Tail(s) \in Seq(Wire) /\ Len(Tail(s)) = Len(s) - 1 /\ Len(s) \in Nat
  OBVIOUS
<1>2. ASSUME NEW k \in 1..Len(Tail(s))
      PROVE  k + 1 \in 1..Len(s) /\ Tail(s)[k] = s[k + 1]
  BY <1>1
<1> QED
  BY <1>1, <1>2 DEF PartOf

LEMMA TornIsPart ==
  ASSUME NEW s \in Seq(Wire)
  PROVE  PartOf(Torn(s), s)
<1>1. CASE s = << >>
  BY <1>1 DEF PartOf, Torn
<1>2. CASE s # << >>
  <2> DEFINE w == [Head(s) EXCEPT !.torn = TRUE]
  <2>1. Head(s) \in Wire /\ Head(s) = s[1] /\ 1 \in 1..Len(s)
    BY <1>2
  <2>2. w \in Wire /\ w.msg = s[1].msg
    BY <2>1 DEF Wire
  <2> HIDE DEF w
  <2>3. /\ Tail(s) \in Seq(Wire) /\ <<w>> \in Seq(Wire) /\ Len(<<w>>) = 1 /\ <<w>>[1] = w
        /\ Len(Tail(s)) = Len(s) - 1 /\ Len(s) \in Nat
        /\ \A k \in 1..Len(s) : k > 1 => k - 1 \in 1..Len(Tail(s)) /\ Tail(s)[k - 1] = s[k]
    BY <1>2, <2>2
  <2> DEFINE t == <<w>> \o Tail(s)
  <2>4. /\ t \in Seq(Wire) /\ Len(t) = Len(s)
        /\ \A k \in 1..Len(s) : t[k] = IF k <= 1 THEN <<w>>[k] ELSE Tail(s)[k - 1]
    BY <2>3, ConcatProperties
  <2> HIDE DEF t
  <2>5. ASSUME NEW k \in 1..Len(t)
        PROVE  t[k].msg = s[k].msg /\ k \in 1..Len(s)
    <3>1. CASE k = 1
      BY <2>1, <2>2, <2>3, <2>4, <3>1
    <3>2. CASE k > 1
      BY <2>3, <2>4, <3>2
    <3> QED
      BY <2>3, <2>4, <3>1, <3>2
  <2>6. PartOf(t, s)
    BY <2>4, <2>5 DEF PartOf
  <2> QED
    BY <1>2, <2>6 DEF Torn, t, w
<1> QED
  BY <1>1, <1>2

LEMMA SuffixIsPart ==
  ASSUME NEW s \in Seq(Wire), NEW t \in Suffixes(s)
  PROVE  PartOf(t, s)
<1>1. CASE t = << >>
  BY <1>1 DEF PartOf
<1>2. ASSUME NEW l \in 1..Len(s), t = SubSeq(s, l, Len(s))
      PROVE  PartOf(t, s)
  <2>1. /\ t \in Seq(Wire) /\ Len(t) = Len(s) - l + 1 /\ Len(s) \in Nat
        /\ \A k \in 1..Len(t) : t[k] = s[l + k - 1]
    BY <1>2
  <2>2. \A k \in 1..Len(t) : l + k - 1 \in 1..Len(s)
    BY <2>1
  <2> QED
    BY <2>1, <2>2 DEF PartOf
<1> QED
  BY <1>1, <1>2 DEF Suffixes

\* A client that reads leaves a part of the stream.
LEMMA ReadsPart ==
  ASSUME NEW s \in Seq(Wire), NEW t,
         t \in {s, Torn(s)} \cup BytesRead(s) \/ (s # << >> /\ t \in WordRead(s))
  PROVE  PartOf(t, s)
<1>1. PartOf(s, s) /\ PartOf(Torn(s), s)
  <2>1. PartOf(s, s)
    BY DEF PartOf
  <2> QED
    BY <2>1, TornIsPart
<1>2. ASSUME NEW u \in Suffixes(s)  PROVE PartOf(u, s) /\ PartOf(Torn(u), s)
  <2>1. PartOf(u, s) /\ u \in Seq(Wire)
    BY SuffixIsPart DEF PartOf
  <2> QED
    BY <2>1, TornIsPart, PartOfPart
<1>3. ASSUME s # << >>  PROVE PartOf(Tail(s), s) /\ PartOf(Torn(Tail(s)), s)
  <2>1. PartOf(Tail(s), s) /\ Tail(s) \in Seq(Wire)
    BY <1>3, TailIsPart DEF PartOf
  <2> QED
    BY <2>1, TornIsPart, PartOfPart
<1> QED
  BY <1>1, <1>2, <1>3 DEF BytesRead, WordRead

----------------------------------------------------------------------------
(***************************************************************************)
(* Steps.                                                                  *)
(***************************************************************************)
LEMMA InitIInv == Init => IInv
<1> SUFFICES ASSUME Init  PROVE IInv
  OBVIOUS
<1>1. Types
  <2>1. /\ asked = << >> /\ answers = << >> /\ executed = << >> /\ xid_counter = 0 /\ faults = 0
        /\ toServer = << >> /\ toClient = << >> /\ client = "idle" /\ server = "reading"
    BY DEF Init
  <2>2. Len(asked) = xid_counter /\ Len(answers) = xid_counter /\ Len(executed) = xid_counter
    BY <2>1
  <2>3. TypeOK
    BY <2>1, <2>2, SrpcAssumption DEF TypeOK
  <2> QED
    BY <2>1, <2>3 DEF Types
<1>2. Distinct /\ Honest /\ Own
  BY DEF Init, Distinct, Honest, Own
<1> QED
  BY <1>1, <1>2 DEF IInv

LEMMA Lengths ==
  ASSUME Types
  PROVE  /\ Len(asked) = xid_counter /\ Len(answers) = xid_counter /\ Len(executed) = xid_counter
         /\ xid_counter \in Nat /\ 1..xid_counter \subseteq Call
<1>1. {Len(asked), Len(answers), Len(executed)} = {xid_counter}
      /\ xid_counter \in 0..MaxCalls
  BY DEF Types, TypeOK
<1>2. Len(asked) = xid_counter /\ Len(answers) = xid_counter /\ Len(executed) = xid_counter
  BY <1>1, Zenon
<1> QED
  BY <1>1, <1>2, SrpcAssumption DEF Call

LEMMA InvokeStep ==
  ASSUME IInv, NEW r \in Requests, Invoke(r)
  PROVE  IInv'
<1> DEFINE c == xid_counter + 1
           m == [xid |-> c, call |-> c]
<1>1. /\ client = "idle" /\ xid_counter < MaxCalls /\ xid_counter' = c
      /\ asked' = Append(asked, r) /\ executed' = Append(executed, 0)
      /\ UNCHANGED <<server, toClient, current>>
      /\ faults' \in 0..MaxFaults
      /\ \E a \in {Pending, Failure} : answers' = Append(answers, a)
      /\ client' \in {"idle", "reading", "gone"}
      /\ UNCHANGED toServer \/ toServer' = Append(toServer, Message(m, Small))
  <2>1. faults \in 0..MaxFaults
    BY DEF IInv, Types, TypeOK
  <2>2. CASE /\ toServer' = Append(toServer, Message([xid |-> xid_counter', call |-> xid_counter'], Small))
             /\ client' = "reading" /\ answers' = Append(answers, Pending) /\ UNCHANGED faults
    BY <2>1, <2>2 DEF Invoke
  <2>3. CASE /\ Fault \/ (server = "gone" /\ UNCHANGED faults)
             /\ \/ UNCHANGED client /\ answers' = Append(answers, Failure)
                \/ client' = "gone" /\ answers' = Append(answers, Pending)
             /\ UNCHANGED toServer
    BY <2>1, <2>3, SrpcAssumption DEF Invoke, Fault
  <2> QED
    BY <2>2, <2>3 DEF Invoke
<1>2. /\ Types /\ Distinct /\ Honest /\ Own
      /\ Len(asked) = xid_counter /\ Len(answers) = xid_counter /\ Len(executed) = xid_counter
      /\ xid_counter \in Nat /\ c \in Call
  BY <1>1, Lengths, SrpcAssumption DEF IInv, Call
<1>3. m \in Asking
  BY <1>2 DEF Asking
<1>4. /\ asked' \in Seq(Requests) /\ Len(asked') = c
      /\ executed' \in Seq({0, 1}) /\ Len(executed') = c
      /\ \A k \in 1..xid_counter : executed'[k] = executed[k]
      /\ executed'[c] = 0
  BY <1>1, <1>2 DEF Types
<1>5. /\ answers' \in Seq(Answer) /\ Len(answers') = c
      /\ \A k \in 1..xid_counter : answers'[k] = answers[k]
      /\ answers'[c].what # "result"
  <2>1. PICK a \in {Pending, Failure} : answers' = Append(answers, a)
    BY <1>1
  <2>2. a \in Answer /\ a.what # "result"
    BY DEF Pending, Failure, Answer
  <2> QED
    BY <1>2, <2>1, <2>2 DEF Types
<1>6. /\ toServer' \in Seq(Wire)
      /\ \A k \in 1..Len(toServer) : toServer'[k] = toServer[k]
      /\ \A k \in 1..Len(toServer') :
           k \in 1..Len(toServer) \/ (k = Len(toServer) + 1 /\ toServer'[k].msg = m)
  <2>1. toServer \in Seq(Wire)
    BY <1>2 DEF Types
  <2>2. CASE toServer' = Append(toServer, Message(m, Small))
    <3>1. Small \in Nat /\ m \in Asking \cup Replies
      BY <1>3 DEF Small
    <3> HIDE DEF m
    <3>2. Extends(toServer', toServer, m)
      BY <2>1, <2>2, <3>1, Appends
    <3> QED
      BY <2>1, <3>2 DEF Extends
  <2>3. CASE UNCHANGED toServer
    BY <2>1, <2>3
  <2> QED
    BY <1>1, <2>2, <2>3
<1>7. Types'
  BY <1>1, <1>2, <1>4, <1>5, <1>6, SrpcAssumption DEF Types, TypeOK, Call
<1>8. Distinct'
  <2>1. \A k \in 1..Len(toServer') :
          \/ k \in 1..Len(toServer) /\ toServer'[k].msg = toServer[k].msg
             /\ toServer[k].msg.call \in 1..xid_counter
          \/ k = Len(toServer) + 1 /\ toServer'[k].msg = m
    BY <1>2, <1>6 DEF Distinct, Waits, Types
  <2>2. m.call = c /\ m.xid = c
    OBVIOUS
  <2> HIDE DEF m
  <2>3. \A k \in 1..Len(toServer') : Waits(toServer[k].msg)'
    BY <1>1, <1>2, <1>4, <2>1, <2>2, SMTT(30) DEF Distinct, Waits
  <2>4. \A j, k \in 1..Len(toServer') : j # k => toServer'[j].msg.call # toServer'[k].msg.call
    <3> TAKE j, k \in 1..Len(toServer')
    <3> HAVE j # k
    <3>1. CASE j \in 1..Len(toServer) /\ k \in 1..Len(toServer)
      BY <1>2, <1>6, <3>1 DEF Distinct, Types
    <3>2. CASE j = Len(toServer) + 1 \/ k = Len(toServer) + 1
      BY <1>2, <2>1, <2>2, <3>2, SMTT(30) DEF Types
    <3> QED
      BY <2>1, <3>1, <3>2
  <2>5. server' = "message" =>
          /\ Waits(current)'
          /\ \A k \in 1..Len(toServer') : toServer'[k].msg.call # current'.call
    BY <1>1, <1>2, <1>4, <2>1, <2>2, SMTT(30) DEF Distinct, Waits
  <2> QED
    BY <2>3, <2>4, <2>5 DEF Distinct
<1>9. Honest'
  <2>1. ASSUME NEW k \in 1..Len(toClient)
        PROVE  /\ toClient[k].msg.call \in 1..c /\ toClient[k].msg.xid = toClient[k].msg.call
               /\ toClient[k].msg.stat \in Stat
               /\ toClient[k].msg.stat = "SUCCESS" => executed'[toClient[k].msg.call] = 1
    <3>1. /\ toClient[k].msg.call \in 1..xid_counter /\ toClient[k].msg.xid = toClient[k].msg.call
          /\ toClient[k].msg.stat \in Stat
          /\ toClient[k].msg.stat = "SUCCESS" => executed[toClient[k].msg.call] = 1
      BY <1>2, <2>1 DEF Honest
    <3> QED
      BY <1>2, <1>4, <3>1
  <2> QED
    BY <1>1, <2>1 DEF Honest
<1>10. Own'
  <2> SUFFICES ASSUME NEW k \in 1..c, answers'[k].what = "result"
               PROVE  answers'[k].of = k /\ executed'[k] = 1
    BY <1>1 DEF Own
  <2>1. k \in 1..xid_counter
    BY <1>2, <1>5
  <2> QED
    BY <1>2, <1>4, <1>5, <2>1 DEF Own
<1> QED
  BY <1>7, <1>8, <1>9, <1>10 DEF IInv

\* A call ends.
LEMMA EndStep ==
  ASSUME Types, client # "idle", NEW a \in Answer, Ends(a)
  PROVE  /\ client' = "idle" /\ answers' \in Seq(Answer) /\ Len(answers') = Len(answers)
         /\ answers'[xid_counter] = a
         /\ \A k \in 1..xid_counter : k # xid_counter => answers'[k] = answers[k]
<1>1. /\ answers \in Seq(Answer) /\ Len(answers) = xid_counter /\ xid_counter \in 1..Len(answers)
      /\ client' = "idle" /\ answers' = [answers EXCEPT ![xid_counter] = a]
  BY Lengths DEF Types, Ends
<1> QED
  BY <1>1

\* What a reply that is read makes of the call.
LEMMA ReceiveStep ==
  ASSUME Types, NEW m, Receive(m), m.call \in 1..xid_counter, m.xid = m.call,
         m.stat \in Stat, m.stat = "SUCCESS" => executed[m.call] = 1
  PROVE  \E a \in Answer :
           Ends(a) /\ (a.what = "result" => a.of = xid_counter /\ executed[xid_counter] = 1)
<1>1. m.call \in Call
  BY Lengths
<1>2. CASE m.stat # "SUCCESS"
  <2>1. Ends(Refusal(m))
    BY <1>2 DEF Receive
  <2>2. Refusal(m) \in Answer /\ Refusal(m).what # "result"
    BY <1>1 DEF Refusal, Answer
  <2> QED
    BY <2>1, <2>2
<1>3. CASE m.stat = "SUCCESS" /\ (m.xid # xid_counter \/ ~asked[m.call].readable)
  <2>1. Ends(Failure)
    BY <1>3 DEF Receive
  <2>2. Failure \in Answer /\ Failure.what # "result"
    BY DEF Failure, Answer
  <2> QED
    BY <2>1, <2>2
<1>4. CASE m.stat = "SUCCESS" /\ m.xid = xid_counter /\ asked[m.call].readable
  <2>1. Ends(Result(m))
    BY <1>4 DEF Receive
  <2>2. Result(m) \in Answer /\ Result(m).of = xid_counter /\ executed[xid_counter] = 1
    BY <1>1, <1>4 DEF Result, Answer
  <2> QED
    BY <2>1, <2>2
<1> QED
  BY <1>2, <1>3, <1>4

\* A step of the client that ends its call, or leads it astray.
LEMMA ClientStep ==
  ASSUME IInv, client # "idle",
         UNCHANGED <<xid_counter, server, toServer, current, history>>, faults' \in 0..MaxFaults,
         PartOf(toClient', toClient),
         \/ client' = "astray" /\ UNCHANGED answers
         \/ \E a \in Answer :
              Ends(a) /\ (a.what = "result" => a.of = xid_counter /\ executed[xid_counter] = 1)
  PROVE  IInv'
<1>1. /\ Types /\ Distinct /\ Honest /\ Own
      /\ Len(asked) = xid_counter /\ Len(answers) = xid_counter /\ Len(executed) = xid_counter
      /\ UNCHANGED <<asked, executed>>
  BY Lengths DEF IInv, history
<1>2. /\ client' \in {"astray", "idle"} /\ answers' \in Seq(Answer) /\ Len(answers') = xid_counter
      /\ \A c \in 1..xid_counter :
           answers'[c].what = "result" => answers'[c].of = c /\ executed[c] = 1
  <2>1. CASE client' = "astray" /\ UNCHANGED answers
    BY <1>1, <2>1 DEF Types, Own
  <2>2. ASSUME NEW a \in Answer, Ends(a),
               a.what = "result" => a.of = xid_counter /\ executed[xid_counter] = 1
        PROVE  /\ client' \in {"astray", "idle"} /\ answers' \in Seq(Answer)
               /\ Len(answers') = xid_counter
               /\ \A c \in 1..xid_counter :
                    answers'[c].what = "result" => answers'[c].of = c /\ executed[c] = 1
    <3>1. /\ client' = "idle" /\ answers' \in Seq(Answer) /\ Len(answers') = Len(answers)
          /\ answers'[xid_counter] = a
          /\ \A k \in 1..xid_counter : k # xid_counter => answers'[k] = answers[k]
      BY <1>1, <2>2, EndStep
    <3> QED
      BY <1>1, <2>2, <3>1 DEF Own
  <2> QED
    BY <2>1, <2>2
<1>3. Types'
  BY <1>1, <1>2 DEF Types, TypeOK, PartOf
<1>4. Distinct'
  BY <1>1 DEF Distinct, Waits
<1>5. Honest'
  <2>1. \A k \in 1..Len(toClient') : \E j \in 1..Len(toClient) : toClient'[k].msg = toClient[j].msg
    BY DEF PartOf
  <2> QED
    BY <1>1, <2>1 DEF Honest
<1>6. Own'
  BY <1>1, <1>2 DEF Own
<1> QED
  BY <1>3, <1>4, <1>5, <1>6 DEF IInv

\* An exception, or a result that is none, ends a call as it may.
LEMMA FailsOrForges ==
  /\ Failure \in Answer /\ Failure.what # "result"
  /\ Forgery \in Answer /\ Forgery.what # "result"
BY DEF Failure, Forgery, Answer

LEMMA ClientReadsStep ==
  ASSUME IInv, ClientReads
  PROVE  IInv'
<1>1. /\ client # "idle" /\ toClient # << >> /\ toClient \in Seq(Wire)
      /\ UNCHANGED <<xid_counter, server, toServer, current, history, faults>>
      /\ Types /\ Honest /\ faults' \in 0..MaxFaults
  BY DEF ClientReads, IInv, Types, TypeOK
<1>2. PartOf(toClient', toClient)
  <2>1. toClient' \in {Torn(toClient), Tail(toClient)}
    BY DEF ClientReads
  <2> QED
    BY <1>1, <2>1, TornIsPart, TailIsPart
<1>3. CASE BadLength(Head(toClient).size)
  <2>1. Ends(Failure)
    BY <1>3 DEF ClientReads
  <2> QED
    BY <1>1, <1>2, <2>1, ClientStep, FailsOrForges
<1>4. CASE ~BadLength(Head(toClient).size)
  <2> DEFINE m == Head(toClient).msg
  <2>1. Receive(m)
    BY <1>4 DEF ClientReads
  <2>2. /\ m.call \in 1..xid_counter /\ m.xid = m.call /\ m.stat \in Stat
        /\ m.stat = "SUCCESS" => executed[m.call] = 1
    <3>1. 1 \in 1..Len(toClient) /\ Head(toClient) = toClient[1]
      BY <1>1
    <3> QED
      BY <1>1, <3>1 DEF Honest
  <2> HIDE DEF m
  <2>3. PICK a \in Answer :
          Ends(a) /\ (a.what = "result" => a.of = xid_counter /\ executed[xid_counter] = 1)
    BY <1>1, <2>1, <2>2, ReceiveStep
  <2> QED
    BY <1>1, <1>2, <2>3, ClientStep
<1> QED
  BY <1>3, <1>4

\* A read elsewhere than at the beginning of a message, a failed one, or the end.
LEMMA ClientFailsStep ==
  ASSUME IInv, Misreads \/ Swallows \/ Interrupted \/ EndOfFile
  PROVE  IInv'
<1>1. /\ client # "idle" /\ toClient \in Seq(Wire) /\ faults' \in 0..MaxFaults
      /\ UNCHANGED <<xid_counter, server, toServer, current, history>>
  BY SrpcAssumption DEF Misreads, Swallows, Interrupted, EndOfFile, Fault, IInv, Types, TypeOK
<1>2. PartOf(toClient', toClient)
  <2>1. CASE toClient' = << >>
    BY <2>1 DEF PartOf
  <2>2. CASE toClient' # << >>
    <3>1. \/ toClient' \in {toClient, Torn(toClient)} \cup BytesRead(toClient)
          \/ toClient # << >> /\ toClient' \in WordRead(toClient)
      BY <2>2 DEF Misreads, Swallows, Interrupted, EndOfFile
    <3> QED
      BY <1>1, <3>1, ReadsPart
  <2> QED
    BY <2>1, <2>2
<1>3. \/ client' = "astray" /\ UNCHANGED answers
      \/ \E a \in {Failure, Forgery} : Ends(a)
  BY DEF Misreads, Swallows, Interrupted, EndOfFile
<1>4. \/ client' = "astray" /\ UNCHANGED answers
      \/ \E a \in Answer :
           Ends(a) /\ (a.what = "result" => a.of = xid_counter /\ executed[xid_counter] = 1)
  BY <1>3, FailsOrForges
<1> QED
  BY <1>1, <1>2, <1>4, ClientStep

LEMMA ServerReadsStep ==
  ASSUME IInv, ServerReads
  PROVE  IInv'
<1>1. /\ server = "reading" /\ toServer # << >> /\ toServer' = Tail(toServer)
      /\ \/ server' = "gone" /\ UNCHANGED current
         \/ server' = "message" /\ current' = Head(toServer).msg
      /\ UNCHANGED <<xid_counter, client, toClient, asked, executed, answers, faults>>
      /\ Types /\ Distinct /\ Honest /\ Own
  BY DEF ServerReads, IInv, history
<1>2. /\ toServer' \in Seq(Wire) /\ Head(toServer) = toServer[1] /\ 1 \in 1..Len(toServer)
      /\ \A k \in 1..Len(toServer') :
           k + 1 \in 1..Len(toServer) /\ toServer'[k] = toServer[k + 1] /\ k + 1 # 1
  <2>1. toServer \in Seq(Wire)
    BY <1>1 DEF Types
  <2>2. toServer' \in Seq(Wire) /\ Len(toServer') = Len(toServer) - 1 /\ Len(toServer) \in Nat
    BY <1>1, <2>1
  <2> QED
    BY <1>1, <2>1, <2>2
<1>3. Types'
  BY <1>1, <1>2 DEF Types, TypeOK
<1>4. Distinct'
  <2>1. \A k \in 1..Len(toServer') :
          LET m == toServer'[k].msg
          IN  m.call \in 1..xid_counter /\ m.xid = m.call /\ executed[m.call] = 0
    BY <1>1, <1>2 DEF Distinct, Waits
  <2>2. \A j, k \in 1..Len(toServer') : j # k => toServer'[j].msg.call # toServer'[k].msg.call
    <3> TAKE j, k \in 1..Len(toServer')
    <3>1. j # k => j + 1 # k + 1
      OBVIOUS
    <3> QED
      BY <1>1, <1>2, <3>1 DEF Distinct
  <2>3. server' = "message" =>
          /\ current'.call \in 1..xid_counter /\ current'.xid = current'.call
          /\ executed[current'.call] = 0
          /\ \A k \in 1..Len(toServer') : toServer'[k].msg.call # current'.call
    <3> SUFFICES ASSUME server' = "message"
                 PROVE  /\ current'.call \in 1..xid_counter /\ current'.xid = current'.call
                        /\ executed[current'.call] = 0
                        /\ \A k \in 1..Len(toServer') : toServer'[k].msg.call # current'.call
      OBVIOUS
    <3>1. current' = toServer[1].msg
      BY <1>1, <1>2
    <3> QED
      BY <1>1, <1>2, <3>1 DEF Distinct, Waits
  <2> QED
    BY <1>1, <2>1, <2>2, <2>3 DEF Distinct, Waits
<1>5. Honest' /\ Own'
  BY <1>1 DEF Honest, Own
<1> QED
  BY <1>3, <1>4, <1>5 DEF IInv

LEMMA ServerFailsStep ==
  ASSUME IInv, ServerFails
  PROVE  IInv'
<1>1. /\ server' = "gone" /\ faults' \in 0..MaxFaults
      /\ UNCHANGED <<xid_counter, client, toServer, toClient, current, asked, executed, answers>>
  BY SrpcAssumption DEF ServerFails, Fault, IInv, Types, TypeOK, wire, history
<1>2. Types'
  BY <1>1 DEF IInv, Types, TypeOK
<1>3. Distinct' /\ Honest' /\ Own'
  BY <1>1 DEF IInv, Distinct, Waits, Honest, Own
<1> QED
  BY <1>2, <1>3 DEF IInv

(***************************************************************************)
(* What dispatch does: the method runs or not, and a reply is sent or not; *)
(* one that says SUCCESS is sent only if the method has run.               *)
(***************************************************************************)
Answers(stat, size) ==
  /\ toClient' = Append(toClient, Message(Replying(stat), size))
  /\ stat \in Stat /\ size \in Nat /\ (stat = "SUCCESS" => Executes)

LEMMA DispatchDoes ==
  ASSUME IInv, Dispatch
  PROVE  /\ server = "message" /\ server' \in {"reading", "gone"} /\ faults' \in 0..MaxFaults
         /\ UNCHANGED <<xid_counter, client, toServer, asked, answers>>
         /\ UNCHANGED executed \/ Executes
         /\ UNCHANGED toClient \/ \E stat, size : Answers(stat, size)
<1>1. /\ server = "message" /\ UNCHANGED <<xid_counter, client, toServer, asked, answers>>
      /\ faults \in 0..MaxFaults
  BY DEF Dispatch, IInv, Types, TypeOK
<1>2. Small \in Nat
  BY DEF Small
<1>3. CASE Refuse
  <2>1. PICK stat \in {"PROG_UNAVAIL", "PROG_MISMATCH"} : Reply(stat, Small)
    BY <1>3 DEF Refuse
  <2>2. stat \in Stat /\ stat # "SUCCESS" /\ toClient' = Append(toClient, Message(Replying(stat), Small))
    BY <2>1 DEF Reply, Stat
  <2>3. Answers(stat, Small)
    BY <1>2, <2>2, Zenon DEF Answers
  <2> QED
    BY <1>1, <1>3, <2>1, <2>3 DEF Refuse, Reply
<1>4. CASE Decline
  <2>1. PICK stat \in {"PROC_UNAVAIL", "GARBAGE_ARGS"} : Reply(stat, Small)
    BY <1>4 DEF Decline
  <2>2. stat \in Stat /\ stat # "SUCCESS" /\ toClient' = Append(toClient, Message(Replying(stat), Small))
    BY <2>1 DEF Reply, Stat
  <2>3. Answers(stat, Small)
    BY <1>2, <2>2, Zenon DEF Answers
  <2> QED
    BY <1>1, <1>4, <2>1, <2>3 DEF Decline, Reply
<1>5. CASE Serve
  <2>1. CASE Reply("SUCCESS", served.size)
    <3>1. served.size \in Nat
      <4>1. current.call \in 1..Len(asked)
        BY <1>1, Lengths DEF IInv, Distinct, Waits
      <4>2. served \in Request
        BY <4>1, SrpcAssumption DEF IInv, Types, served
      <4> QED
        BY <4>2 DEF Request
    <3>2. "SUCCESS" \in Stat /\ Executes
            /\ toClient' = Append(toClient, Message(Replying("SUCCESS"), served.size))
      BY <1>5, <2>1 DEF Serve, Reply, Stat
    <3>3. Answers("SUCCESS", served.size)
      BY <3>1, <3>2, Zenon DEF Answers
    <3> QED
      BY <1>1, <1>5, <2>1, <3>2, <3>3 DEF Serve, Reply
  <2>2. CASE Reply("GARBAGE_ARGS", Small)
    <3>1. /\ "GARBAGE_ARGS" \in Stat /\ "GARBAGE_ARGS" # "SUCCESS"
          /\ toClient' = Append(toClient, Message(Replying("GARBAGE_ARGS"), Small))
      BY <2>2 DEF Reply, Stat
    <3>2. Answers("GARBAGE_ARGS", Small)
      BY <1>2, <3>1, Zenon DEF Answers
    <3> QED
      BY <1>1, <1>5, <2>2, <3>2 DEF Serve, Reply
  <2>3. CASE server' = "gone" /\ UNCHANGED toClient
    BY <1>1, <1>5, <2>3 DEF Serve
  <2> QED
    BY <1>5, <2>1, <2>2, <2>3 DEF Serve
<1>6. CASE ReplyFails
  <2>1. faults' \in 0..MaxFaults /\ (UNCHANGED executed \/ Executes)
    BY <1>1, <1>6, SrpcAssumption DEF ReplyFails, Fault
  <2>2. CASE Reply("GARBAGE_ARGS", Small)
    <3>1. /\ "GARBAGE_ARGS" \in Stat /\ "GARBAGE_ARGS" # "SUCCESS"
          /\ toClient' = Append(toClient, Message(Replying("GARBAGE_ARGS"), Small))
      BY <2>2 DEF Reply, Stat
    <3>2. Answers("GARBAGE_ARGS", Small)
      BY <1>2, <3>1, Zenon DEF Answers
    <3> QED
      BY <1>1, <2>1, <2>2, <3>2 DEF Reply
  <2>3. CASE server' = "gone" /\ UNCHANGED toClient
    BY <1>1, <2>1, <2>3
  <2> QED
    BY <1>6, <2>2, <2>3 DEF ReplyFails
<1> QED
  BY <1>3, <1>4, <1>5, <1>6 DEF Dispatch

LEMMA DispatchStep ==
  ASSUME IInv, Dispatch
  PROVE  IInv'
<1> DEFINE c == current.call
<1>1. /\ server = "message" /\ server' \in {"reading", "gone"} /\ faults' \in 0..MaxFaults
      /\ UNCHANGED <<xid_counter, client, toServer, asked, answers>>
      /\ UNCHANGED executed \/ Executes
      /\ UNCHANGED toClient \/ \E stat, size : Answers(stat, size)
  BY DispatchDoes
<1>2. /\ Types /\ Distinct /\ Honest /\ Own
      /\ Len(executed) = xid_counter /\ Len(answers) = xid_counter
      /\ c \in 1..xid_counter /\ c \in Call /\ current.xid = c /\ executed[c] = 0
  BY <1>1, Lengths DEF IInv, Distinct, Waits
<1>3. /\ executed' \in Seq({0, 1}) /\ Len(executed') = xid_counter
      /\ \A k \in 1..xid_counter : k # c => executed'[k] = executed[k]
      /\ \A k \in 1..xid_counter : executed[k] = 1 => executed'[k] = 1
      /\ Executes => executed'[c] = 1
  <2>1. CASE Executes
    <3>1. executed' = [executed EXCEPT ![c] = 1]
      BY <1>2, <2>1 DEF Executes, Types
    <3> HIDE DEF c
    <3> QED
      BY <1>2, <3>1 DEF Types
  <2>2. CASE UNCHANGED executed /\ ~Executes
    BY <1>2, <2>2 DEF Types
  <2> QED
    BY <1>1, <2>1, <2>2
<1>4. toClient' \in Seq(Wire) /\ Honest'
  <2>1. toClient \in Seq(Wire)
    BY <1>2 DEF Types
  <2>2. CASE UNCHANGED toClient
    BY <1>1, <1>2, <1>3, <2>1, <2>2 DEF Honest
  <2>3. ASSUME NEW stat, NEW size, Answers(stat, size)
        PROVE  toClient' \in Seq(Wire) /\ Honest'
    <3> DEFINE m == Replying(stat)
    <3>1. /\ toClient' = Append(toClient, Message(m, size)) /\ size \in Nat
          /\ stat \in Stat /\ (stat = "SUCCESS" => executed'[c] = 1)
      BY <1>3, <2>3 DEF Answers
    <3>2. m \in Replies /\ m.call = c /\ m.xid = c /\ m.stat = stat
      BY <1>2, <3>1 DEF Replies, Replying
    <3> HIDE DEF m
    <3>3. Extends(toClient', toClient, m)
      BY <2>1, <3>1, <3>2, Appends
    <3>4. /\ toClient' \in Seq(Wire)
          /\ \A k \in 1..Len(toClient) : toClient'[k] = toClient[k]
          /\ \A k \in 1..Len(toClient') : k \in 1..Len(toClient) \/ toClient'[k].msg = m
      BY <2>1, <3>3 DEF Extends
    <3>5. ASSUME NEW k \in 1..Len(toClient')
          PROVE  /\ toClient'[k].msg.call \in 1..xid_counter
                 /\ toClient'[k].msg.xid = toClient'[k].msg.call
                 /\ toClient'[k].msg.stat \in Stat
                 /\ toClient'[k].msg.stat = "SUCCESS" => executed'[toClient'[k].msg.call] = 1
      <4>1. CASE k \in 1..Len(toClient)
        <5>1. /\ toClient[k].msg.call \in 1..xid_counter
              /\ toClient[k].msg.xid = toClient[k].msg.call
              /\ toClient[k].msg.stat \in Stat
              /\ toClient[k].msg.stat = "SUCCESS" => executed[toClient[k].msg.call] = 1
          BY <1>2, <4>1 DEF Honest
        <5> QED
          BY <1>3, <3>4, <4>1, <5>1
      <4>2. CASE toClient'[k].msg = m
        BY <1>2, <3>1, <3>2, <4>2
      <4> QED
        BY <3>4, <4>1, <4>2
    <3>6. Honest'
      BY <1>1, <3>5 DEF Honest
    <3> QED
      BY <3>4, <3>6
  <2> QED
    BY <1>1, <2>2, <2>3
<1>5. Types'
  BY <1>1, <1>2, <1>3, <1>4, Lengths DEF Types, TypeOK
<1>6. Distinct'
  BY <1>1, <1>2, <1>3 DEF Distinct, Waits
<1>7. Own'
  BY <1>1, <1>2, <1>3 DEF Own
<1> QED
  BY <1>4, <1>5, <1>6, <1>7 DEF IInv

LEMMA NextIInv == IInv /\ [Next]_vars => IInv'
<1> SUFFICES ASSUME IInv, [Next]_vars  PROVE IInv'
  OBVIOUS
<1>1. CASE UNCHANGED vars
  BY <1>1 DEF vars, wire, history, IInv, Types, TypeOK, Distinct, Waits, Honest, Own
<1> QED
  BY <1>1, InvokeStep, ClientReadsStep, ClientFailsStep, ServerReadsStep, ServerFailsStep,
     DispatchStep DEF Next, Client, Server

----------------------------------------------------------------------------
(***************************************************************************)
(* A call that returns returns its own result, and its method has run just *)
(* once, however many earlier calls failed half-way and left their replies *)
(* in the stream (srpc.h:64), unless it returns what happens to be a reply *)
(* among the bytes of a torn one (Forgery); no method runs twice.          *)
(***************************************************************************)
THEOREM ResultsAreOwn == Spec => []OwnResultOnce
<1>1. IInv => OwnResultOnce
  <2> SUFFICES ASSUME IInv, NEW c \in DOMAIN answers
               PROVE  /\ executed[c] <= 1
                      /\ answers[c].what = "result" => answers[c].of = c /\ executed[c] = 1
    BY DEF IInv, Types, OwnResultOnce
  <2>1. c \in 1..xid_counter /\ executed[c] \in {0, 1}
    BY Lengths DEF IInv, Types
  <2> QED
    BY <2>1 DEF IInv, Own
<1> QED
  BY <1>1, InitIInv, NextIInv, PTL DEF Spec

----------------------------------------------------------------------------
(***************************************************************************)
(* Client and server in step: one message is under way, or none.           *)
(***************************************************************************)
Lone(s, c) ==
  Len(s) = 1 /\ ~s[1].torn /\ ~BadLength(s[1].size) /\ s[1].msg.call = c

\* The client takes from a reply what the server promises to a call c for r.
Outcome(m, r) == IF m.stat # "SUCCESS" THEN Refusal(m)
                 ELSE IF ~r.readable THEN Failure
                 ELSE Result(m)
Keeps(m, c, r) == Outcome(m, r) = Promise(c, r)

Quiet == client = "idle" /\ server = "reading" /\ toServer = << >> /\ toClient = << >>
Calls == /\ client = "reading" /\ server = "reading" /\ toClient = << >>
         /\ Lone(toServer, xid_counter)
Serves == /\ client = "reading" /\ server = "message" /\ toServer = << >> /\ toClient = << >>
          /\ current.call = xid_counter
Tells == /\ client = "reading" /\ server = "reading" /\ toServer = << >>
         /\ Lone(toClient, xid_counter)
         /\ Keeps(toClient[1].msg, xid_counter, asked[xid_counter])

Promised == \A c \in 1..xid_counter : answers[c] \in {Pending, Promise(c, asked[c])}

SInv == ~Disturbed => Promised /\ (Quiet \/ Calls \/ Serves \/ Tells)

\* What has been disturbed stays so.
LEMMA Calm ==
  ASSUME IInv, [Next]_vars, ~Disturbed'
  PROVE  ~Disturbed /\ faults' = faults /\ ~Fault /\ server' # "gone" /\ server # "gone"
<1>1. faults' \in Nat /\ faults \in Nat /\ ~(faults' > 0) /\ server' # "gone"
  <2>1. IInv'
    BY NextIInv
  <2> QED
    BY <2>1, SrpcAssumption DEF IInv, Types, TypeOK, Disturbed
<1>2. ~Fault
  BY <1>1 DEF Fault
<1>3. faults' = faults
  BY <1>2 DEF Next, Client, Server, Invoke, ClientReads, Misreads, Swallows, Interrupted, EndOfFile,
              ServerReads, ServerFails, Dispatch, Refuse, Decline, Serve, ReplyFails, vars
<1>4. server # "gone"
  BY <1>1 DEF Next, Client, Server, Invoke, ClientReads, Misreads, Swallows, Interrupted, EndOfFile,
              ServerReads, ServerFails, Dispatch, vars
<1>5. ASSUME NEW c \in DOMAIN asked
      PROVE  c \in DOMAIN asked' /\ asked'[c] = asked[c]
  <2>1. CASE \E r \in Requests : Invoke(r)
    <3>1. PICK r \in Requests : asked' = Append(asked, r)
      BY <2>1 DEF Invoke
    <3>2. asked \in Seq(Requests)
      BY DEF IInv, Types
    <3> QED
      BY <3>1, <3>2
  <2>2. CASE ~(\E r \in Requests : Invoke(r))
    <3>1. UNCHANGED asked
      BY <2>2 DEF Next, Client, Server, ClientReads, Misreads, Swallows, Interrupted, EndOfFile,
                  ServerReads, ServerFails, Dispatch, history, vars
    <3> QED
      BY <3>1
  <2> QED
    BY <2>1, <2>2
<1>6. ~Disturbed
  BY <1>1, <1>3, <1>4, <1>5 DEF Disturbed
<1> QED
  BY <1>1, <1>2, <1>3, <1>4, <1>6

\* A message of call c that is sent where nothing is under way is alone there.
LEMMA Starts ==
  ASSUME NEW m \in Asking \cup Replies, NEW size \in Nat, ~BadLength(size)
  PROVE  LET s == Append(<< >>, Message(m, size)) IN Lone(s, m.call) /\ s[1].msg = m
<1> DEFINE M == Message(m, size)
<1>1. M \in Wire /\ M.msg = m /\ M.size = size /\ ~M.torn
  BY MessageType
<1> HIDE DEF M
<1>2. Lone(Append(<< >>, M), m.call) /\ Append(<< >>, M)[1].msg = m
  BY <1>1 DEF Lone
<1> QED
  BY <1>2 DEF M

\* Who takes a message that is alone leaves nothing.
LEMMA Taken ==
  ASSUME NEW s \in Seq(Wire), NEW c, Lone(s, c)
  PROVE  /\ s # << >> /\ Head(s) = s[1] /\ Tail(s) = << >>
         /\ ~Head(s).torn /\ ~BadLength(Head(s).size) /\ Head(s).msg.call = c
<1>1. Len(s) = 1 /\ ~s[1].torn /\ ~BadLength(s[1].size) /\ s[1].msg.call = c
  BY DEF Lone
<1>2. s # << >>
  BY <1>1
<1>3. Head(s) = s[1] /\ Tail(s) \in Seq(Wire) /\ Len(Tail(s)) = 0
  BY <1>1, <1>2
<1>4. Tail(s) = << >>
  <2> DEFINE t == Tail(s)
  <2>1. t \in Seq(Wire) /\ Len(t) = 0
    BY <1>3
  <2> HIDE DEF t
  <2>2. t = << >>
    BY <2>1, EmptySeq
  <2> QED
    BY <2>2 DEF t
<1> QED
  BY <1>1, <1>2, <1>3, <1>4

LEMMA SmallFits == Small \in Nat /\ ~BadLength(Small)
  BY DEF Small, BadLength

LEMMA SInvInit == Init => SInv
<1> SUFFICES ASSUME Init  PROVE Promised /\ Quiet
  BY DEF SInv
<1> QED
  BY DEF Init, Promised, Quiet

\* What the invariants say of an undisturbed state, in the form that the steps need.
LEMMA Undisturbed ==
  ASSUME IInv, SInv, ~Disturbed
  PROVE  /\ asked \in Seq(Requests) /\ Len(asked) = xid_counter
         /\ answers \in Seq(Answer) /\ Len(answers) = xid_counter
         /\ executed \in Seq({0, 1}) /\ Len(executed) = xid_counter
         /\ toServer \in Seq(Wire) /\ toClient \in Seq(Wire)
         /\ xid_counter \in Nat /\ xid_counter <= MaxCalls /\ MaxCalls \in Nat
         /\ client # "idle" => xid_counter \in 1..xid_counter /\ xid_counter \in Call
         /\ Promised /\ (Quiet \/ Calls \/ Serves \/ Tells)
<1>1. /\ Types /\ Promised /\ (Quiet \/ Calls \/ Serves \/ Tells)
      /\ Len(asked) = xid_counter /\ Len(answers) = xid_counter /\ Len(executed) = xid_counter
      /\ xid_counter \in Nat /\ 1..xid_counter \subseteq Call
  BY Lengths DEF IInv, SInv
<1>2. /\ asked \in Seq(Requests) /\ answers \in Seq(Answer) /\ executed \in Seq({0, 1})
      /\ toServer \in Seq(Wire) /\ toClient \in Seq(Wire) /\ xid_counter \in 0..MaxCalls
      /\ client # "idle" => xid_counter > 0
  BY <1>1 DEF Types, TypeOK
<1> QED
  BY <1>1, <1>2, SrpcAssumption

LEMMA InvokeKeeps ==
  ASSUME IInv, SInv, ~Disturbed, ~Fault, server # "gone", NEW r \in Requests, Invoke(r)
  PROVE  Promised' /\ Calls'
<1> DEFINE c == xid_counter + 1
           m == [xid |-> c, call |-> c]
<1>1. /\ client = "idle" /\ xid_counter < MaxCalls /\ xid_counter' = c
      /\ asked' = Append(asked, r) /\ answers' = Append(answers, Pending)
      /\ client' = "reading" /\ toServer' = Append(toServer, Message(m, Small))
      /\ UNCHANGED <<server, toClient>>
  BY DEF Invoke
<1>2. /\ asked \in Seq(Requests) /\ Len(asked) = xid_counter
      /\ answers \in Seq(Answer) /\ Len(answers) = xid_counter
      /\ xid_counter \in Nat /\ MaxCalls \in Nat /\ Promised
      /\ Quiet \/ Calls \/ Serves \/ Tells
  BY Undisturbed
<1>3. Quiet
  BY <1>1, <1>2 DEF Calls, Serves, Tells
<1>4. m \in Asking /\ m.call = c
  BY <1>1, <1>2 DEF Asking, Call
<1> HIDE DEF m
<1>5. Lone(toServer', c)
  <2>1. m \in Asking \cup Replies
    BY <1>4
  <2>2. LET s == Append(<< >>, Message(m, Small)) IN Lone(s, m.call) /\ s[1].msg = m
    BY <2>1, Starts, SmallFits
  <2>3. toServer' = Append(<< >>, Message(m, Small))
    BY <1>1, <1>3, Zenon DEF Quiet
  <2> QED
    BY <1>4, <2>2, <2>3, Zenon
<1>6. Calls'
  BY <1>1, <1>3, <1>5, Zenon DEF Quiet, Calls

<1>7. Promised'
  <2> SUFFICES ASSUME NEW k \in 1..c
               PROVE  answers'[k] \in {Pending, Promise(k, asked'[k])}
    BY <1>1 DEF Promised
  <2>1. CASE k = c
    <3>1. answers'[k] = Pending
      BY <1>1, <1>2, <2>1, AppendProperties
    <3> QED
      BY <3>1
  <2>2. CASE k # c
    <3>1. k \in 1..xid_counter
      BY <1>2, <2>2
    <3>2. answers'[k] = answers[k] /\ asked'[k] = asked[k]
      BY <1>1, <1>2, <3>1
    <3> QED
      BY <1>2, <3>1, <3>2 DEF Promised
  <2> QED
    BY <2>1, <2>2
<1> QED
  BY <1>6, <1>7

LEMMA ClientReadsKeeps ==
  ASSUME IInv, SInv, ~Disturbed, ClientReads
  PROVE  Promised' /\ Quiet'
<1> DEFINE c == xid_counter
           m == toClient[1].msg
<1>1. /\ client = "reading" /\ toClient # << >>
      /\ UNCHANGED <<xid_counter, server, toServer, asked, executed>>
  BY DEF ClientReads, history
<1>2. /\ answers \in Seq(Answer) /\ Len(answers) = c /\ Promised
      /\ toClient \in Seq(Wire) /\ c \in 1..c
      /\ Quiet \/ Calls \/ Serves \/ Tells
  BY <1>1, Undisturbed
<1>3. Tells
  BY <1>1, <1>2 DEF Quiet, Calls, Serves
<1>4. /\ server = "reading" /\ toServer = << >> /\ Lone(toClient, c)
      /\ Keeps(m, c, asked[c])
  BY <1>3 DEF Tells
<1>5. /\ Head(toClient) = toClient[1] /\ Tail(toClient) = << >>
      /\ ~BadLength(Head(toClient).size) /\ m.call = c
  BY <1>2, <1>4, Taken
<1>6. Receive(m) /\ toClient' = << >>
  BY <1>5 DEF ClientReads
<1>7. m.xid = c
  <2>1. 1 \in 1..Len(toClient)
    BY <1>4 DEF Lone
  <2> QED
    BY <1>5, <2>1 DEF IInv, Honest
<1> HIDE DEF m
<1>8. Ends(Outcome(m, asked[c]))
  BY <1>5, <1>6, <1>7 DEF Receive, Outcome
<1>9. client' = "idle" /\ answers' = [answers EXCEPT ![c] = Promise(c, asked[c])]
  BY <1>4, <1>8 DEF Ends, Keeps
<1>10. Quiet'
  BY <1>1, <1>4, <1>6, <1>9 DEF Quiet
<1>11. Promised'
  <2> SUFFICES ASSUME NEW k \in 1..c
               PROVE  answers'[k] \in {Pending, Promise(k, asked[k])}
    BY <1>1 DEF Promised
  <2>1. DOMAIN answers = 1..c
    BY <1>2
  <2>2. answers'[k] = IF k = c THEN Promise(c, asked[c]) ELSE answers[k]
    BY <1>9, <2>1
  <2> QED
    BY <1>2, <2>2 DEF Promised
<1> QED
  BY <1>10, <1>11

LEMMA ServerReadsKeeps ==
  ASSUME IInv, SInv, ~Disturbed, ServerReads
  PROVE  Promised' /\ Serves'
<1>1. /\ server = "reading" /\ toServer # << >> /\ toServer' = Tail(toServer)
      /\ UNCHANGED <<xid_counter, client, toClient, asked, answers>>
  BY DEF ServerReads, history
<1>2. /\ Promised /\ toServer \in Seq(Wire)
      /\ Quiet \/ Calls \/ Serves \/ Tells
  BY Undisturbed
<1>3. Calls
  BY <1>1, <1>2 DEF Quiet, Serves, Tells
<1>4. client = "reading" /\ toClient = << >> /\ Lone(toServer, xid_counter)
  BY <1>3 DEF Calls
<1>5. /\ Tail(toServer) = << >> /\ ~BadLength(Head(toServer).size)
      /\ Head(toServer).msg.call = xid_counter
  BY <1>2, <1>4, Taken
<1>6. server' = "message" /\ current'.call = xid_counter
  BY <1>5 DEF ServerReads
<1>7. Promised'
  BY <1>1, <1>2, Zenon DEF Promised
<1>8. Serves'
  BY <1>1, <1>4, <1>5, <1>6 DEF Serves
<1> QED
  BY <1>7, <1>8

\* Nothing is torn, so that nothing is misread.
LEMMA NothingTorn ==
  ASSUME IInv, SInv, ~Disturbed
  PROVE  ~Misreads /\ ~Swallows
<1>1. toClient \in Seq(Wire) /\ (Quiet \/ Calls \/ Serves \/ Tells)
  BY Undisturbed
<1>2. client # "astray"
  BY <1>1 DEF Quiet, Calls, Serves, Tells
<1>3. toClient # << >> => ~Head(toClient).torn
  <2>1. CASE Tells
    <3>1. Lone(toClient, xid_counter)
      BY <2>1 DEF Tells
    <3> QED
      BY <1>1, <3>1, Taken
  <2> QED
    BY <1>1, <2>1 DEF Quiet, Calls, Serves
<1> QED
  BY <1>2, <1>3 DEF Misreads, Swallows

\* What dispatch replies is what is promised.
LEMMA DispatchKeeps ==
  ASSUME IInv, SInv, ~Disturbed, ~Fault, server' # "gone", Dispatch
  PROVE  Promised' /\ Tells'
<1> DEFINE c == xid_counter
           r == asked[c]
<1>1. server = "message" /\ UNCHANGED <<xid_counter, client, toServer, asked, answers>>
  BY DEF Dispatch
<1>2. /\ Promised
      /\ Quiet \/ Calls \/ Serves \/ Tells
      /\ asked \in Seq(Requests) /\ Len(asked) = c
      /\ c \in Nat /\ (client # "idle" => c \in 1..c /\ c \in Call)
  BY Undisturbed
<1>3. Serves
  BY <1>1, <1>2 DEF Quiet, Calls, Tells
<1>4. /\ client = "reading" /\ toServer = << >> /\ toClient = << >> /\ current.call = c
      /\ c \in 1..c /\ c \in Call
  BY <1>2, <1>3 DEF Serves
<1>5. current.xid = c
  BY <1>1, <1>4 DEF IInv, Distinct, Waits
<1>6. r \in Request /\ r.size \in Nat /\ ~BadLength(r.size) /\ served = r
  <2>1. r \in Request
    BY <1>2, <1>4, SrpcAssumption
  <2>2. c \in DOMAIN asked
    BY <1>2, <1>4
  <2> QED
    BY <1>4, <2>1, <2>2 DEF Request, Disturbed, served
<1> HIDE DEF r
<1>7. PICK stat \in Stat, size \in Nat :
        /\ Reply(stat, size) /\ ~BadLength(size)
        /\ Outcome(Replying(stat), r) = Promise(c, r)
  <2>1. Versions(r.prog) = {} <=> ~\E s \in Services : s[1] = r.prog
    BY DEF Versions
  <2>2. \A stat : Replying(stat).call = c /\ Replying(stat).stat = stat
    BY <1>4 DEF Replying
  <2>3. CASE Refuse
    <3> DEFINE stat == IF Versions(r.prog) = {} THEN "PROG_UNAVAIL" ELSE "PROG_MISMATCH"
    <3>1. Reply(stat, Small) /\ stat \in Stat /\ stat # "SUCCESS"
      BY <1>6, <2>3 DEF Refuse, Stat
    <3>2. Promise(c, r) = [what |-> "refused", of |-> c, stat |-> stat]
      BY <1>6, <2>1, <2>3 DEF Refuse, Registered, Promise
    <3> HIDE DEF stat
    <3>3. Outcome(Replying(stat), r) = Promise(c, r)
      BY <2>2, <3>1, <3>2 DEF Outcome, Refusal
    <3> QED
      BY <3>1, <3>3, SmallFits
  <2>4. CASE Decline
    <3>1. PICK stat \in {"PROC_UNAVAIL", "GARBAGE_ARGS"} :
            /\ Reply(stat, Small)
            /\ stat = "PROC_UNAVAIL" => r.method = "absent"
            /\ stat = "GARBAGE_ARGS" => r.method # "absent" /\ ~r.decodes
      BY <1>6, <2>4 DEF Decline
    <3>2. Promise(c, r) = [what |-> "refused", of |-> c, stat |-> stat]
      BY <1>6, <2>4, <3>1 DEF Decline, Registered, Promise
    <3>3. Outcome(Replying(stat), r) = Promise(c, r)
      BY <2>2, <3>1, <3>2 DEF Outcome, Refusal
    <3>4. stat \in Stat
      BY <3>1 DEF Stat
    <3> QED
      BY <3>1, <3>3, <3>4, SmallFits
  <2>5. CASE Serve
    <3>1. /\ <<r.prog, r.vers>> \in Services /\ r.method # "absent" /\ r.decodes
      BY <1>6, <2>5 DEF Serve, Registered, Called
    <3>2. CASE r.method = "returns" /\ Reply("SUCCESS", r.size)
      <4>1. Promise(c, r) = IF r.readable THEN [what |-> "result", of |-> c] ELSE Failure
        BY <3>1, <3>2 DEF Promise
      <4>2. Outcome(Replying("SUCCESS"), r) = Promise(c, r)
        BY <2>2, <4>1 DEF Outcome, Result
      <4>3. "SUCCESS" \in Stat
        BY DEF Stat
      <4> QED
        BY <1>6, <3>2, <4>2, <4>3
    <3>3. CASE r.method = "refuses" /\ Reply("GARBAGE_ARGS", Small)
      <4>1. Promise(c, r) = [what |-> "refused", of |-> c, stat |-> "GARBAGE_ARGS"]
        BY <3>1, <3>3 DEF Promise
      <4>2. Outcome(Replying("GARBAGE_ARGS"), r) = Promise(c, r)
        BY <2>2, <4>1 DEF Outcome, Refusal
      <4>3. "GARBAGE_ARGS" \in Stat
        BY DEF Stat
      <4> QED
        BY <3>3, <4>2, <4>3, SmallFits
    <3> QED
      BY <1>6, <2>5, <3>2, <3>3 DEF Serve
  <2> QED
    BY <2>3, <2>4, <2>5 DEF Dispatch, ReplyFails
<1> DEFINE m == Replying(stat)
<1>8. m \in Replies /\ m.call = c
  BY <1>4, <1>5 DEF Replying, Replies
<1>9. /\ server' = "reading" /\ toClient' = Append(<< >>, Message(m, size))
      /\ Outcome(m, r) = Promise(c, r)
  BY <1>4, <1>7 DEF Reply
<1> HIDE DEF m
<1>10. Lone(toClient', c) /\ toClient'[1].msg = m
  <2>1. m \in Asking \cup Replies
    BY <1>8
  <2>2. LET s == Append(<< >>, Message(m, size)) IN Lone(s, m.call) /\ s[1].msg = m
    BY <1>7, <2>1, Starts
  <2> QED
    BY <1>8, <1>9, <2>2, Zenon
<1>11. Tells'
  <2>1. asked'[xid_counter'] = r /\ client' = "reading" /\ toServer' = << >>
    BY <1>1, <1>4 DEF r
  <2> QED
    BY <1>1, <1>9, <1>10, <2>1, Zenon DEF Tells, Keeps
<1>12. Promised'
  BY <1>1, <1>2, Zenon DEF Promised
<1> QED
  BY <1>11, <1>12

LEMMA SInvNext == IInv /\ SInv /\ [Next]_vars => SInv'
<1> SUFFICES ASSUME IInv, SInv, [Next]_vars, ~Disturbed'
             PROVE  Promised' /\ (Quiet \/ Calls \/ Serves \/ Tells)'
  BY DEF SInv
<1>1. ~Disturbed /\ ~Fault /\ server # "gone" /\ server' # "gone"
  BY Calm
<1>2. CASE \E r \in Requests : Invoke(r)
  BY <1>1, <1>2, InvokeKeeps
<1>3. CASE ClientReads
  BY <1>1, <1>3, ClientReadsKeeps
<1>4. CASE ServerReads
  BY <1>1, <1>4, ServerReadsKeeps
<1>5. CASE Dispatch
  BY <1>1, <1>5, DispatchKeeps
<1>6. CASE UNCHANGED vars
  BY <1>1, <1>6 DEF SInv, Promised, Quiet, Calls, Serves, Tells, vars, wire, history
<1>7. ~Interrupted /\ ~EndOfFile /\ ~Misreads /\ ~Swallows
  BY <1>1, NothingTorn DEF Interrupted, EndOfFile
<1>8. ~ServerFails
  BY <1>1 DEF ServerFails
<1> QED
  BY <1>2, <1>3, <1>4, <1>5, <1>6, <1>7, <1>8 DEF Next, Client, Server

(***************************************************************************)
(* Without a signal, a dead server or a very large result every call ends  *)
(* as the server's dispatch promises, and nothing of it is left in the     *)
(* stream for the next (server.cc:78, srpc.h:121).                         *)
(***************************************************************************)
THEOREM StaysInStep == Spec => []InStep
<1>1. IInv /\ SInv => InStep
  <2> SUFFICES ASSUME IInv, SInv, ~Disturbed
               PROVE  /\ \A c \in DOMAIN answers : answers[c] \in {Pending, Promise(c, asked[c])}
                      /\ client = "idle" => toClient = << >>
    BY DEF InStep
  <2>1. DOMAIN answers = 1..xid_counter /\ Promised /\ (Quiet \/ Calls \/ Serves \/ Tells)
    BY Undisturbed
  <2> QED
    BY <2>1 DEF Promised, Quiet, Calls, Serves, Tells
<1> QED
  BY <1>1, InitIInv, NextIInv, SInvInit, SInvNext, PTL DEF Spec
=============================================================================
