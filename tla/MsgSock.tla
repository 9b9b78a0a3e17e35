------------------------------ MODULE MsgSock ------------------------------
(***************************************************************************)
(* xdr::msg_sock (msgsock.h, msgsock.cc): messages over a stream socket.   *)
(* One msg_sock sends, another, in a process of its own, receives; between *)
(* them the kernel keeps a bounded stream of bytes.  (A msg_sock does      *)
(* both; its two directions share nothing but the descriptor.)             *)
(*                                                                         *)
(* A frame is a length word of LenBytes bytes and a body.  A byte is a     *)
(* pair <<frame, position>>, so that a byte read at the wrong place is     *)
(* seen for what it is.  A message fragment is what another implementation *)
(* may send.                                                               *)
(***************************************************************************)
EXTENDS Integers, Sequences, SequencesExt

CONSTANTS
  Frame,          \* the frames that are sent
  len, last,      \* per frame: bytes of its body; FALSE for a message fragment
  LenBytes,       \* sizeof nextlen_
  MaxLen,         \* maxmsglen_ of the receiver
  MaxIov,         \* maxiov: messages handed to one writev
  SockBuf,        \* bytes the kernel keeps for the stream
  MaxPut          \* bound: messages sent

ASSUME MsgSockAssumption ==
  /\ {LenBytes, MaxIov, SockBuf} \subseteq Nat \ {0}
  /\ {MaxLen, MaxPut} \subseteq Nat
  /\ len \in [Frame -> Nat] /\ last \in [Frame -> BOOLEAN]

VARIABLES
  wqueue_, wsize_, wstart_, wfail_,
  wcb,            \* the sender's Write callback is registered
  wopen,          \* the sender exists
  stream,         \* bytes in the kernel
  rcb_,           \* the receiver's callback is not empty
  armed,          \* the receiver's Read callback is registered
  rdmsg_,         \* size of the message being read, or NoMsg
  got,            \* the rdpos_ bytes read of the message and the next length word
  pc,             \* receiver: "poll", "input", "length", "callback" or "gone"
  round, after,   \* input's loop counter; where it goes on after the callback
  destroyed,      \* *destroyed_
  put, taken, received,  \* history: frames put, how many arrived, what rcb_ got
  ended, threw           \* history: rcb_ was given a null pointer; it threw

sender == <<wqueue_, wsize_, wstart_, wfail_, wcb, wopen, put>>
object == <<rcb_, armed, destroyed>>
buffer == <<rdmsg_, got>>
history == <<taken, received, ended, threw>>
vars == <<sender, stream, object, buffer, pc, round, after, history>>

NoMsg == -1

----------------------------------------------------------------------------
(***************************************************************************)
(* Bytes.                                                                  *)
(***************************************************************************)
raw_size(f) == LenBytes + len[f]
Raw(f) == [k \in 1..raw_size(f) |-> <<f, k>>]
Body(f) == SubSeq(Raw(f), LenBytes + 1, raw_size(f))
Queue == UNION {[1..n -> Frame] : n \in 0..MaxPut}

\* The bytes of a queue of frames.
Bytes == [q \in Queue |-> FlattenSeq([k \in DOMAIN q |-> Raw(q[k])])]
First(s, n) == SubSeq(s, 1, IF n < Len(s) THEN n ELSE Len(s))
Behind(s, n) == SubSeq(s, n + 1, Len(s))

\* nextlen(): the length word that has been read, as the frame that it announces.
nextlen == Head(got)[1]

Byte == UNION {{<<f, k>> : k \in 1..raw_size(f)} : f \in Frame}

TypeOK ==
  /\ wqueue_ \in Seq(Frame) /\ wsize_ \in Nat /\ wstart_ \in Nat
  /\ {wfail_, wcb, wopen, rcb_, armed, destroyed, ended, threw} \subseteq BOOLEAN
  /\ stream \in Seq(Byte) /\ Len(stream) <= SockBuf
  /\ rdmsg_ \in {NoMsg} \cup 1..MaxLen
  /\ got \in Seq(Byte)
  /\ Len(got) < (IF rdmsg_ = NoMsg THEN 0 ELSE rdmsg_) + LenBytes + 1
  /\ pc \in {"poll", "input", "length", "callback", "gone"}
  /\ round \in 0..3 /\ after \in {"length", "input", "poll"}
  /\ put \in Seq(Frame) /\ taken \in 0..Len(put) /\ received \in Seq(Seq(Byte))

Init ==
  /\ wqueue_ = <<>> /\ wsize_ = 0 /\ wstart_ = 0 /\ wfail_ = FALSE
  /\ wcb = FALSE /\ wopen = TRUE
  /\ stream = <<>>
  /\ rcb_ \in BOOLEAN /\ armed = rcb_ /\ destroyed = FALSE
  /\ rdmsg_ = NoMsg /\ got = <<>>
  /\ pc = "poll" /\ round = 0 /\ after = "poll"
  /\ put = <<>> /\ taken = 0 /\ received = <<>>
  /\ ended = FALSE /\ threw = FALSE

----------------------------------------------------------------------------
(***************************************************************************)
(* The sender.                                                             *)
(***************************************************************************)
\* Variant: what is written of the message at the front is forgotten.
PopKeepingStart(q, n) ==
  LET k == CHOOSE j \in 0..Len(q) :
             /\ Len(Bytes[First(q, j)]) <= wstart_ + n
             /\ j < Len(q) => Len(Bytes[First(q, j + 1)]) > wstart_ + n
  IN wqueue_' = Behind(q, k) /\ wstart_' = 0

\* pop_wbytes(n): whole messages leave the queue, wstart_ is what is written of the
\* next one.
pop_wbytes(q, n) ==
  LET k == CHOOSE j \in 0..Len(q) :
             /\ Len(Bytes[First(q, j)]) <= wstart_ + n
             /\ j < Len(q) => Len(Bytes[First(q, j + 1)]) > wstart_ + n
  IN wqueue_' = Behind(q, k) /\ wstart_' = wstart_ + n - Len(Bytes[First(q, k)])

\* Variant: the Write callback stays.
ArmWriteForGood(cbset) == wcb' = (wcb \/ wsize_' # 0)

\* The end of output: the Write callback is there while something is queued.
ArmWrite(cbset) ==
  wcb' = IF wsize_' # 0 /\ ~cbset THEN TRUE
         ELSE IF wsize_' = 0 /\ cbset THEN FALSE ELSE wcb

\* output(cbset) with queue q of size bytes.  A refused write (EAGAIN) returns
\* at once, whether or not there is a Write callback.
Writes(q, size, cbset) ==
  /\ pc # "gone"
  /\ LET offered == Behind(Bytes[First(q, MaxIov)], wstart_)
     IN \E n \in 1..Len(offered) :
          /\ Len(stream) + n <= SockBuf
          /\ stream' = stream \o First(offered, n)
          /\ wsize_' = size - n
          /\ pop_wbytes(q, n)
  /\ ArmWrite(cbset)
  /\ UNCHANGED wfail_

Refused(q, size) ==
  /\ pc # "gone"
  /\ Len(stream) = SockBuf
  /\ wqueue_' = q /\ wsize_' = size
  /\ UNCHANGED <<stream, wstart_, wfail_, wcb>>

Fails ==
  /\ pc = "gone"
  /\ wfail_' = TRUE
  /\ wqueue_' = <<>> /\ wsize_' = 0 /\ wstart_' = 0
  /\ UNCHANGED <<stream, wcb>>

output(q, size, cbset) == Writes(q, size, cbset) \/ Refused(q, size) \/ Fails

\* putmsg: only a message that finds the queue empty is written at once.
putmsg(f) ==
  /\ wopen /\ ~wfail_
  /\ Len(put) < MaxPut
  /\ put' = Append(put, f)
  /\ LET q == Append(wqueue_, f)
         size == wsize_ + raw_size(f)
     IN IF wsize_ = 0
        THEN output(q, size, FALSE)
        ELSE /\ wqueue_' = q /\ wsize_' = size
             /\ UNCHANGED <<stream, wstart_, wfail_, wcb>>
  /\ UNCHANGED <<wopen, object, buffer, pc, round, after, history>>

\* The Write callback.
WriteReady ==
  /\ wopen /\ wcb
  /\ Len(stream) < SockBuf \/ pc = "gone"
  /\ output(wqueue_, wsize_, TRUE)
  /\ UNCHANGED <<wopen, put, object, buffer, pc, round, after, history>>

\* The sender is destroyed; what it has queued goes with it.
DestroySender ==
  /\ wopen
  /\ wopen' = FALSE /\ wcb' = FALSE
  /\ wqueue_' = <<>> /\ wsize_' = 0 /\ wstart_' = 0
  /\ UNCHANGED <<wfail_, put, stream, object, buffer, pc, round, after, history>>

----------------------------------------------------------------------------
(***************************************************************************)
(* The receiver: input.                                                    *)
(***************************************************************************)
receiver == <<object, buffer, history>>

\* Variant: the Read callback is a ReadOnce.
InputOnce ==
  /\ pc = "poll" /\ armed
  /\ stream # <<>> \/ ~wopen
  /\ pc' = "input" /\ round' = 0
  /\ armed' = FALSE
  /\ UNCHANGED <<sender, stream, rcb_, destroyed, buffer, history, after>>

\* The socket is readable, or at its end, and there is a Read callback.
Input ==
  /\ pc = "poll" /\ armed
  /\ stream # <<>> \/ ~wopen
  /\ pc' = "input" /\ round' = 0
  /\ UNCHANGED <<sender, stream, receiver, after>>

\* Back to poll; input's locals are gone.
Return == pc' = "poll" /\ round' = 0 /\ after' = "poll"

Call(then) == pc' = "callback" /\ after' = then /\ UNCHANGED round

\* rcb_(m): calling an empty function throws, and m is gone.
CallRcb(m, then) ==
  /\ taken' = taken + 1
  /\ IF rcb_ THEN Call(then) /\ received' = Append(received, m) /\ UNCHANGED threw
             ELSE Return /\ threw' = TRUE /\ UNCHANGED received
  /\ UNCHANGED ended

CallRcbNull(then) ==
  /\ IF rcb_ THEN Call(then) /\ ended' = TRUE /\ UNCHANGED threw
             ELSE Return /\ threw' = TRUE /\ UNCHANGED ended
  /\ UNCHANGED <<taken, received>>

\* The loop is left after three messages.
LeaveInput ==
  /\ pc = "input" /\ round = 3
  /\ Return
  /\ UNCHANGED <<sender, stream, receiver>>

\* How many bytes the loop asks for: the rest of the message and the next length
\* word, or the rest of a length word.
Wanted == (IF rdmsg_ = NoMsg THEN 0 ELSE rdmsg_) + LenBytes - Len(got)

\* A length word that was read and not dealt with is looked at again.
ReadNothing ==
  /\ pc = "input" /\ round < 3
  /\ Wanted = 0
  /\ pc' = "length"
  /\ UNCHANGED <<sender, stream, receiver, round, after>>

WouldBlock ==
  /\ pc = "input" /\ round < 3
  /\ Wanted > 0 /\ stream = <<>> /\ wopen
  /\ Return
  /\ UNCHANGED <<sender, stream, receiver>>

EndOfFile ==
  /\ pc = "input" /\ round < 3
  /\ Wanted > 0 /\ stream = <<>> /\ ~wopen
  /\ CallRcbNull("poll")
  /\ UNCHANGED <<sender, stream, object, buffer>>

\* Variant: what was read behind the message is dropped with it.
ReadDroppingRest ==
  /\ pc = "input" /\ round < 3
  /\ Wanted > 0 /\ stream # <<>>
  /\ stream' = Behind(stream, Wanted)
  /\ LET all == got \o First(stream, Wanted)
     IN IF rdmsg_ # NoMsg /\ Len(all) >= rdmsg_
        THEN /\ got' = <<>> /\ rdmsg_' = NoMsg
             /\ CallRcb(First(all, rdmsg_), "length")
        ELSE /\ got' = all /\ pc' = "length"
             /\ UNCHANGED <<rdmsg_, round, after, history>>
  /\ UNCHANGED <<sender, object>>

\* read or readv returns what there is; a message that is complete goes to rcb_.
Read ==
  /\ pc = "input" /\ round < 3
  /\ Wanted > 0 /\ stream # <<>>
  /\ stream' = Behind(stream, Wanted)
  /\ LET all == got \o First(stream, Wanted)
     IN IF rdmsg_ # NoMsg /\ Len(all) >= rdmsg_
        THEN /\ got' = Behind(all, rdmsg_) /\ rdmsg_' = NoMsg
             /\ CallRcb(First(all, rdmsg_), "length")
        ELSE /\ got' = all /\ pc' = "length"
             /\ UNCHANGED <<rdmsg_, round, after, history>>
  /\ UNCHANGED <<sender, object>>

\* The rest of the loop body: if the length word is complete, it decides.
LengthKnown == rdmsg_ = NoMsg /\ Len(got) = LenBytes

LengthMissing ==
  /\ pc = "length" /\ ~LengthKnown
  /\ Return
  /\ UNCHANGED <<sender, stream, receiver>>

\* "message fragments unimplemented"
Fragment ==
  /\ pc = "length" /\ LengthKnown
  /\ ~last[nextlen]
  /\ CallRcbNull("poll")
  /\ UNCHANGED <<sender, stream, object, buffer>>

EmptyMessage ==
  /\ pc = "length" /\ LengthKnown
  /\ last[nextlen] /\ len[nextlen] = 0
  /\ got' = <<>>
  /\ CallRcb(<<>>, "input")
  /\ UNCHANGED <<sender, stream, object, rdmsg_>>

StartMessage ==
  /\ pc = "length" /\ LengthKnown
  /\ last[nextlen] /\ len[nextlen] \in 1..MaxLen
  /\ rdmsg_' = len[nextlen] /\ got' = <<>>
  /\ pc' = "input" /\ round' = round + 1
  /\ UNCHANGED <<sender, stream, object, after, history>>

\* message_t::alloc throws bad_alloc.
NoMemory ==
  /\ pc = "length" /\ LengthKnown
  /\ last[nextlen] /\ len[nextlen] \in 1..MaxLen
  /\ CallRcbNull("input")
  /\ UNCHANGED <<sender, stream, object, buffer>>

TooLong ==
  /\ pc = "length" /\ LengthKnown
  /\ last[nextlen] /\ len[nextlen] > MaxLen
  /\ armed' = FALSE
  /\ CallRcbNull("input")
  /\ UNCHANGED <<sender, stream, rcb_, destroyed, buffer>>

----------------------------------------------------------------------------
(***************************************************************************)
(* The receiver's program, between polls and in rcb_.                      *)
(***************************************************************************)
setrcb(on) ==
  /\ pc \in {"poll", "callback"} /\ ~destroyed
  /\ rcb_' = on /\ armed' = on
  /\ UNCHANGED <<sender, stream, destroyed, buffer, pc, round, after, history>>

\* ~msg_sock; the members of a destroyed object mean nothing any more.
Destroy ==
  /\ pc \in {"poll", "callback"} /\ ~destroyed
  /\ destroyed' = TRUE /\ rcb_' = FALSE /\ armed' = FALSE
  /\ rdmsg_' = NoMsg /\ got' = <<>> /\ stream' = <<>>
  /\ pc' = IF pc = "poll" THEN "gone" ELSE pc
  /\ UNCHANGED <<sender, round, after, history>>

\* Variant: *destroyed is not looked at after the callback.
CallbackReturnsBlindly ==
  /\ pc = "callback"
  /\ pc' = after
  /\ round' = CASE pc' = "input" -> round + 1 [] pc' = "length" -> round [] OTHER -> 0
  /\ after' = "poll"
  /\ UNCHANGED <<sender, stream, receiver>>

\* rcb_ returns; input goes on unless the msg_sock was destroyed.
CallbackReturns ==
  /\ pc = "callback"
  /\ pc' = IF destroyed THEN "gone" ELSE after
  /\ round' = CASE pc' = "input" -> round + 1 [] pc' = "length" -> round [] OTHER -> 0
  /\ after' = "poll"
  /\ UNCHANGED <<sender, stream, receiver>>

CallbackThrows ==
  /\ pc = "callback"
  /\ pc' = IF destroyed THEN "gone" ELSE "poll"
  /\ round' = 0 /\ after' = "poll"
  /\ threw' = TRUE
  /\ UNCHANGED <<sender, stream, object, buffer, taken, received, ended>>

----------------------------------------------------------------------------
Sender == (\E f \in Frame : putmsg(f)) \/ WriteReady \/ DestroySender

Receives ==
  \/ Input \/ LeaveInput \/ ReadNothing \/ WouldBlock \/ EndOfFile \/ Read
  \/ LengthMissing \/ Fragment \/ EmptyMessage \/ StartMessage \/ NoMemory \/ TooLong
  \/ CallbackReturns

Program == (\E on \in BOOLEAN : setrcb(on)) \/ Destroy \/ CallbackThrows

Next == Sender \/ Receives \/ Program

(***************************************************************************)
(* Both sides poll; callbacks end.  Nobody has to put, destroy or throw.   *)
(***************************************************************************)
Fairness == WF_vars(WriteReady) /\ WF_vars(Receives)

Spec == Init /\ [][Next]_vars /\ Fairness

----------------------------------------------------------------------------
(***************************************************************************)
(* Properties.                                                             *)
(***************************************************************************)

\* wsize_, which decides about the Write callback and which putmsg takes for "the
\* queue is empty", is the number of bytes that are queued and not written;
\* wstart_ lies within the first message.  (pop_wbytes: assert (n <= wsize_).)
\* With it, the state has its type.
WsizeCounts ==
  /\ TypeOK
  /\ wsize_ = Len(Bytes[wqueue_]) - wstart_
  /\ wqueue_ = <<>> => wstart_ = 0
  /\ wqueue_ # <<>> => wstart_ < raw_size(Head(wqueue_))

\* No byte is lost, doubled or moved on its way: what input has read and not yet
\* handed on, what the kernel has and what output has still to write are together
\* the frames that were put and have not arrived.
StreamIntact ==
  wopen /\ ~wfail_ /\ ~destroyed =>
    LET rest == got \o stream \o Behind(Bytes[wqueue_], wstart_)
        due == Bytes[Behind(put, taken)]
    IN rest = IF rdmsg_ = NoMsg THEN due ELSE Behind(due, LenBytes)

\* input touches no member after its callback destroyed the msg_sock.
NoUseAfterDestroy == destroyed => pc \in {"callback", "gone"}

\* The Write callback is registered only while something is queued, or poll would
\* spin; and something queued has a Write callback, unless the socket did not take
\* a byte of the first message of the queue.
Stalled == wsize_ # 0 /\ ~wcb
WriteArmed ==
  /\ wcb => wsize_ # 0 \/ wfail_
  /\ Stalled => wstart_ = 0

\* The receiver gets whole messages, in order, each once.
AbstractChannel == INSTANCE Channel
  WITH Msg <- {Body(f) : f \in Frame},
       waiting <- [k \in 1..(Len(put) - taken) |-> Body(put[taken + k])],
       received <- received,
       listening <- rcb_
InOrderIntact == AbstractChannel!Spec

\* What was put arrives, unless one of the ends was destroyed, the receiver was
\* told of a failure, is mute or threw, or the sender stalled.
Excused == ~wopen \/ wfail_ \/ destroyed \/ ended \/ threw \/ ~rcb_ \/ Stalled
AllArrive == []<>(taken = Len(put) \/ Excused)

\* "Send and receive a series of delimited messages on a stream socket": whatever
\* is queued will be written, because there is a Write callback for it.
NeverStalls == ~Stalled

=============================================================================
