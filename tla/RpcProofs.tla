----------------------------- MODULE RpcProofs -----------------------------
(***************************************************************************)
(* For any number of calls and whatever the server makes of them, xids of  *)
(* any width: a callback gets one answer; until xids come round no call is *)
(* forgotten, and Rpc implements Calls; and where sessions drop what they  *)
(* hold, no reply_cb outlives its connection.                              *)
(***************************************************************************)
EXTENDS Rpc, SequenceTheorems, FiniteSetTheorems, TLAPS

\* A call that waits for its answer.
Left(k) == stack[k].left
Waits(c) == c \in Range(calls_) \/ \E k \in 1..Len(stack) : c \in Left(k)

\* calls_ is a map from xids; rpc_sock's functions nest only for the destructor, and
\* only abort_all_calls has calls left.
Shape ==
  /\ calls_ = [v \in DOMAIN calls_ |-> calls_[v]]
  /\ IsFiniteSet(held)
  /\ sock = "open" => Len(stack) <= 1
  /\ \A k \in 1..Len(stack) :
       /\ k < Len(stack) => stack[k].why = "delete"
       /\ stack[k].why \in {"reply", "servcb"} => Left(k) = {}

\* No call waits in two places.
OnePlace ==
  /\ \A v, w \in DOMAIN calls_ : calls_[v] = calls_[w] => v = w
  /\ \A k \in 1..Len(stack) : Left(k) \cap Range(calls_) = {}
  /\ \A j, k \in 1..Len(stack) : j # k => Left(j) \cap Left(k) = {}

\* A call that waits, and one that was not made, has no answer.
Unanswered ==
  /\ \A c \in Call : Waits(c) => c \in issued /\ answers[c] = << >>
  /\ \A c \in Call : c > made => answers[c] = << >>

\* A call whose callback may be called again has had one answer.
Answering ==
  \A k \in 1..Len(stack) :
    stack[k].why = "reply" /\ ~stack[k].again =>
      \A c \in stack[k].call : Len(answers[c]) = 1

IInv == TypeOK /\ Shape /\ OnePlace /\ Unanswered /\ Answering /\ AnsweredOnce

\* Until xid_ comes round, the xids of the calls that wait are behind it.
NoWrap == [][made' # made => xid_' > xid_]_vars
Behind == \A v \in DOMAIN calls_ : \E x \in 0..xid_ : v = Swap(x)

\* Every call that was made waits, is answered or lost.
Somewhere ==
  /\ \A c \in issued : Waits(c) \/ answers[c] # << >> \/ c \in lost
  /\ \A c \in lost : c \in issued /\ ~Waits(c) /\ answers[c] = << >>

JInv == Behind /\ Somewhere

----------------------------------------------------------------------------
(***************************************************************************)
(* Sequences.                                                              *)
(***************************************************************************)
LEMMA PrefixType ==
  ASSUME NEW S, NEW s \in Seq(S), NEW t \in Prefixes(s)
  PROVE  t \in Seq(S)
<1>1. PICK l \in 0..Len(s) : t = SubSeq(s, 1, l)
  BY DEF Prefixes
<1>2. \A i \in 1..l : s[i] \in S
  OBVIOUS
<1> QED
  BY <1>1, <1>2, SubSeqProperties

LEMMA SetToSeqType ==
  ASSUME NEW S, IsFiniteSet(S)
  PROVE  SetToSeq(S) \in Seq(S)
<1>1. Cardinality(S) \in Nat /\ ExistsBijection(1..Cardinality(S), S)
  BY FS_CardinalityType
<1>2. PICK f \in [1..Cardinality(S) -> S] : IsInjective(f)
  BY <1>1, Zenon DEF ExistsBijection, Bijection, Injection
<1>3. SetToSeq(S) \in [1..Cardinality(S) -> S]
  BY <1>2, Zenon DEF SetToSeq
<1> QED
  BY <1>1, <1>3

LEMMA AtMostOne ==
  ASSUME NEW S, NEW s \in Seq(S), Len(s) <= 1
  PROVE  \/ s = << >> /\ Len(s) = 0
         \/ s # << >> /\ Len(s) = 1
<1>1. Len(s) \in Nat /\ (s = << >> <=> Len(s) = 0)
  BY EmptySeq
<1>2. Len(s) = 0 \/ Len(s) = 1
  <2>1. \A n \in Nat : n <= 1 => n = 0 \/ n = 1
    OBVIOUS
  <2> QED
    BY <1>1, <2>1, Zenon
<1> QED
  BY <1>1, <1>2

LEMMA Pushes ==
  ASSUME NEW S, NEW s \in Seq(S), NEW f \in S
  PROVE  /\ << f >> \o s \in Seq(S) /\ Len(<< f >> \o s) = Len(s) + 1
         /\ (<< f >> \o s)[1] = f
         /\ \A k \in 1..Len(s) : (<< f >> \o s)[k + 1] = s[k]
<1>1. << f >> \in Seq(S) /\ Len(<< f >>) = 1 /\ << f >>[1] = f
  OBVIOUS
<1>2. /\ << f >> \o s \in Seq(S) /\ Len(<< f >> \o s) = Len(<< f >>) + Len(s)
      /\ \A k \in 1..Len(<< f >>) + Len(s) :
           (<< f >> \o s)[k] = IF k <= Len(<< f >>) THEN << f >>[k] ELSE s[k - Len(<< f >>)]
  BY <1>1, ConcatProperties
<1> QED
  BY <1>1, <1>2

----------------------------------------------------------------------------
(***************************************************************************)
(* The stack.                                                              *)
(***************************************************************************)
\* Its frame f at the top is new, another in the place of the top, or gone.
Pushed(u, s, f) ==
  /\ u \in Seq(Frame) /\ Len(u) = Len(s) + 1 /\ u[1] = f
  /\ \A k \in 1..Len(s) : u[k + 1] = s[k]
Replaced(u, s, f) ==
  /\ u \in Seq(Frame) /\ Len(u) = Len(s) /\ Len(s) > 0 /\ u[1] = f
  /\ \A k \in 2..Len(s) : u[k] = s[k]
Popped(u, s) ==
  /\ u \in Seq(Frame) /\ Len(u) = Len(s) - 1 /\ Len(s) > 0
  /\ \A k \in 1..Len(u) : u[k] = s[k + 1]

LEMMA PushStack ==
  ASSUME NEW s \in Seq(Frame), NEW f \in Frame
  PROVE  Pushed(<< f >> \o s, s, f)
<1> DEFINE u == << f >> \o s
<1>1. /\ u \in Seq(Frame) /\ Len(u) = Len(s) + 1 /\ u[1] = f
      /\ \A k \in 1..Len(s) : u[k + 1] = s[k]
  BY Pushes
<1> HIDE DEF u
<1>2. Pushed(u, s, f)
  BY <1>1 DEF Pushed
<1> QED
  BY <1>2 DEF u

LEMMA PopStack ==
  ASSUME NEW s \in Seq(Frame), s # << >>
  PROVE  Popped(Tail(s), s)
  BY DEF Popped

LEMMA ReplaceStack ==
  ASSUME stack \in Seq(Frame), stack # << >>, NEW f \in Frame, Replace(f)
  PROVE  Replaced(stack', stack, f)
<1>1. Popped(Tail(stack), stack)
  BY PopStack
<1> DEFINE t == Tail(stack)
           u == << f >> \o t
<1>2. t \in Seq(Frame) /\ Len(t) = Len(stack) - 1 /\ Len(stack) > 0
      /\ \A k \in 1..Len(t) : t[k] = stack[k + 1]
  BY <1>1 DEF Popped
<1> HIDE DEF t
<1>3. Pushed(u, t, f)
  BY <1>2, PushStack
<1>4. stack' = u
  BY DEF Replace, t
<1> HIDE DEF u
<1>5. /\ u \in Seq(Frame) /\ Len(u) = Len(t) + 1 /\ u[1] = f
      /\ \A k \in 1..Len(t) : u[k + 1] = t[k]
  BY <1>3 DEF Pushed
<1>6. ASSUME NEW k \in 2..Len(stack)
      PROVE  u[k] = stack[k]
  <2>1. k - 1 \in 1..Len(t) /\ (k - 1) + 1 = k
    BY <1>2
  <2> QED
    BY <1>2, <1>5, <2>1
<1> QED
  BY <1>2, <1>4, <1>5, <1>6 DEF Replaced

LEMMA FrameType ==
  ASSUME NEW why \in {"reply", "end", "delete", "servcb"}, NEW call \in SUBSET Call,
         NEW left \in SUBSET Call, NEW again \in BOOLEAN
  PROVE  /\ Waiting(why, call, left, again) \in Frame
         /\ Waiting(why, call, left, again).why = why
         /\ Waiting(why, call, left, again).call = call
         /\ Waiting(why, call, left, again).left = left
         /\ Waiting(why, call, left, again).again = again
  BY DEF Waiting, Frame

LEMMA TopType ==
  ASSUME stack \in Seq(Frame), stack # << >>
  PROVE  /\ top = stack[1] /\ 1 \in 1..Len(stack) /\ top \in Frame
         /\ top.why \in {"reply", "end", "delete", "servcb"}
         /\ top.call \in SUBSET Call /\ top.left \in SUBSET Call /\ top.again \in BOOLEAN
<1>1. top = stack[1] /\ 1 \in 1..Len(stack) /\ stack[1] \in Frame
  BY DEF top
<1> QED
  BY <1>1 DEF Frame

----------------------------------------------------------------------------
(***************************************************************************)
(* Answers.                                                                *)
(***************************************************************************)
Answer == [what : What, of : Call]

LEMMA AnswerType ==
  ASSUME answers \in [Call -> Seq(Answer)], NEW c \in Call, NEW a \in Answer, Answered(c, a)
  PROVE  /\ answers' \in [Call -> Seq(Answer)]
         /\ Len(answers'[c]) = Len(answers[c]) + 1 /\ answers'[c] # << >>
         /\ \A b \in Call \ {c} : answers'[b] = answers[b]
<1>1. answers[c] \in Seq(Answer) /\ answers' = [answers EXCEPT ![c] = Append(answers[c], a)]
  BY DEF Answered
<1>2. /\ Append(answers[c], a) \in Seq(Answer) /\ Append(answers[c], a) # << >>
      /\ Len(Append(answers[c], a)) = Len(answers[c]) + 1
  BY <1>1, AppendProperties
<1> QED
  BY <1>1, <1>2

\* Three ways for everything but the client's calls to change.
LEMMA ServerSideStep ==
  ASSUME IInv, UNCHANGED <<client, kind, made, answers, threw, lost>>,
         requests' \in Seq(Request), replies' \in Seq(Reply), held' \subseteq Request,
         IsFiniteSet(held'), executed' \in Seq(Call),
         link' \in BOOLEAN, conn' \in BOOLEAN
  PROVE  IInv'
<1>1. /\ UNCHANGED <<xid_, calls_, sock, stack, crashed>>
  BY DEF client
<1>2. TypeOK'
  BY <1>1 DEF IInv, TypeOK, issued
<1> QED
  BY <1>1, <1>2 DEF IInv, Shape, OnePlace, Unanswered, Answering, AnsweredOnce, Left, Waits, issued

----------------------------------------------------------------------------
(***************************************************************************)
(* The network and the server.                                             *)
(***************************************************************************)
LEMMA MessageTypes ==
  ASSUME IInv
  PROVE  /\ requests \in Seq(Request) /\ replies \in Seq(Reply) /\ held \subseteq Request
         /\ IsFiniteSet(held) /\ executed \in Seq(Call)
         /\ link \in BOOLEAN /\ conn \in BOOLEAN
  BY DEF IInv, TypeOK, Shape

LEMMA SendType ==
  ASSUME IInv, NEW s \in Seq(Reply), SendReplies(s)
  PROVE  replies' \in Seq(Reply) /\ link' \in BOOLEAN
<1>1. replies \o s \in Seq(Reply)
  BY MessageTypes, ConcatProperties
<1> QED
  BY <1>1, MessageTypes DEF SendReplies

LEMMA MessageOf ==
  ASSUME NEW r \in Request
  PROVE  Error(r) \in Reply /\ Result(r) \in Reply /\ r.call \in Call
  BY DEF Request, Reply, Error, Result

LEMMA FirstRequest ==
  ASSUME IInv, requests # << >>
  PROVE  Head(requests) \in Request /\ Tail(requests) \in Seq(Request)
  BY MessageTypes

LEMMA BreakStep ==
  ASSUME IInv, Break
  PROVE  IInv'
<1>1. requests' \in Seq(Request) /\ replies' \in Seq(Reply)
  BY MessageTypes, PrefixType DEF Break
<1> QED
  BY <1>1, MessageTypes, ServerSideStep DEF Break, server, history

LEMMA IgnoreCallStep ==
  ASSUME IInv, IgnoreCall
  PROVE  IInv'
<1>1. requests' \in Seq(Request)
  BY FirstRequest DEF IgnoreCall, Reached
<1> QED
  BY <1>1, MessageTypes, ServerSideStep DEF IgnoreCall, server, history

LEMMA RefuseCallStep ==
  ASSUME IInv, RefuseCall
  PROVE  IInv'
<1>1. requests' \in Seq(Request) /\ Head(requests) \in Request
  BY FirstRequest DEF RefuseCall, Reached
<1>2. << Error(Head(requests)) >> \in Seq(Reply)
  BY <1>1, MessageOf
<1>3. replies' \in Seq(Reply) /\ link' \in BOOLEAN
  BY <1>2, SendType DEF RefuseCall
<1> QED
  BY <1>1, <1>3, MessageTypes, ServerSideStep DEF RefuseCall, server, history

LEMMA ServeCallStep ==
  ASSUME IInv, NEW does \in {"replies", "keeps", "drops"}, NEW throws \in BOOLEAN,
         ServeCall(does, throws)
  PROVE  IInv'
<1> DEFINE r == Head(requests)
           sent == CASE does = "replies" -> << Result(r) >>
                     [] does = "keeps" -> << >>
                     [] does = "drops" -> << Error(r) >>
<1>1. requests' \in Seq(Request) /\ r \in Request
  BY FirstRequest DEF ServeCall, Reached
<1>2. /\ SendReplies(IF throws THEN Append(sent, Error(r)) ELSE sent)
      /\ held' = IF does = "keeps" THEN held \cup {r} ELSE held
      /\ executed' = Append(executed, r.call)
      /\ UNCHANGED <<client, conn, kind, made, answers, threw, lost>>
  BY DEF ServeCall
<1> HIDE DEF r
<1>3. Error(r) \in Reply /\ Result(r) \in Reply /\ r.call \in Call
  BY <1>1, MessageOf
<1>4. sent \in Seq(Reply)
  <2>1. << Result(r) >> \in Seq(Reply) /\ << Error(r) >> \in Seq(Reply) /\ << >> \in Seq(Reply)
    BY <1>3
  <2> QED
    BY <2>1
<1> HIDE DEF sent
<1>5. (IF throws THEN Append(sent, Error(r)) ELSE sent) \in Seq(Reply)
  BY <1>3, <1>4
<1>6. replies' \in Seq(Reply) /\ link' \in BOOLEAN
  BY <1>2, <1>5, SendType
<1>7. held' \subseteq Request /\ IsFiniteSet(held')
  <2>1. IsFiniteSet(held \cup {r})
    BY MessageTypes, FS_AddElement
  <2> QED
    BY <1>1, <1>2, <2>1, MessageTypes
<1>8. executed' \in Seq(Call)
  BY <1>2, <1>3, MessageTypes
<1> QED
  BY <1>1, <1>2, <1>6, <1>7, <1>8, MessageTypes, ServerSideStep

LEMMA LateReplyStep ==
  ASSUME IInv, NEW r \in held, LateReply(r)
  PROVE  IInv'
<1>1. held' \subseteq Request /\ IsFiniteSet(held')
  <2>1. IsFiniteSet(held \ {r})
    BY MessageTypes, FS_RemoveElement
  <2> QED
    BY <2>1, MessageTypes DEF LateReply
<1>2. replies' \in Seq(Reply) /\ link' \in BOOLEAN
  <2>1. CASE conn
    <3>1. PICK m \in {Result(r), Error(r)} : SendReplies(<< m >>)
      BY <2>1 DEF LateReply
    <3>2. << m >> \in Seq(Reply)
      BY <3>1, MessageOf, MessageTypes
    <3> QED
      BY <2>1, <3>1, <3>2, SendType, MessageTypes DEF LateReply
  <2>2. CASE ~conn
    BY <2>2, MessageTypes DEF LateReply
  <2> QED
    BY <2>1, <2>2
<1> QED
  BY <1>1, <1>2, MessageTypes, ServerSideStep DEF LateReply, history

LEMMA ServerEndStep ==
  ASSUME IInv, ServerEnd
  PROVE  IInv'
<1>0. PICK dropped \in SUBSET held :
        /\ held' = held \ dropped
        /\ LET errors == [k \in DOMAIN SetToSeq(dropped) |-> Error(SetToSeq(dropped)[k])]
           IN replies' \in Prefixes(IF link THEN replies \o errors ELSE replies)
  BY DEF ServerEnd, FreeConnection
<1> DEFINE s == SetToSeq(dropped)
           errors == [k \in DOMAIN s |-> Error(s[k])]
<1>1. /\ conn' = FALSE /\ held' = held \ dropped
      /\ link' = FALSE /\ requests' = << >> /\ UNCHANGED <<client, history>>
      /\ replies' \in Prefixes(IF link THEN replies \o errors ELSE replies)
  BY <1>0 DEF ServerEnd, FreeConnection
<1>2. s \in Seq(dropped) /\ dropped \subseteq Request
  <2>1. IsFiniteSet(dropped)
    BY MessageTypes, FS_Subset
  <2> QED
    BY <2>1, MessageTypes, SetToSeqType
<1> HIDE DEF s
<1>3. errors \in Seq(Reply)
  <2>1. \A k \in 1..Len(s) : Error(s[k]) \in Reply
    BY <1>2, MessageOf
  <2>2. DOMAIN s = 1..Len(s) /\ Len(s) \in Nat
    BY <1>2
  <2>3. errors \in [1..Len(s) -> Reply]
    BY <2>1, <2>2
  <2> QED
    BY <2>2, <2>3
<1> HIDE DEF errors
<1>4. (IF link THEN replies \o errors ELSE replies) \in Seq(Reply)
  BY <1>3, MessageTypes, ConcatProperties
<1>5. replies' \in Seq(Reply)
  BY <1>1, <1>4, PrefixType
<1>6. held' \subseteq Request /\ IsFiniteSet(held')
  <2>1. IsFiniteSet(held \ dropped)
    BY MessageTypes, FS_Difference
  <2> QED
    BY <1>1, <2>1, MessageTypes
<1>7. /\ UNCHANGED <<client, kind, made, answers, threw, lost>>
      /\ requests' \in Seq(Request) /\ executed' \in Seq(Call)
      /\ conn' \in BOOLEAN /\ link' \in BOOLEAN
  <2>1. UNCHANGED <<client, kind, made, executed, answers, threw, lost>>
    BY <1>1, Zenon DEF history
  <2>2. requests' \in Seq(Request)
    BY <1>1
  <2>3. conn' \in BOOLEAN /\ link' \in BOOLEAN
    BY <1>1
  <2> QED
    BY <2>1, <2>2, <2>3, MessageTypes
<1> QED
  BY <1>5, <1>6, <1>7, ServerSideStep

----------------------------------------------------------------------------
(***************************************************************************)
(* Xids.                                                                   *)
(***************************************************************************)
LEMMA Bytes ==
  ASSUME NEW x \in Xid
  PROVE  /\ x % Byte \in 0..Byte - 1 /\ x \div Byte \in 0..Byte - 1
         /\ x = Byte * (x \div Byte) + (x % Byte)
<1> DEFINE q == x \div Byte
           r == x % Byte
<1>1. Byte \in Nat /\ Byte > 0 /\ x \in Nat /\ x < Byte * Byte
  BY RpcAssumption DEF Xid
<1>2. q \in Nat /\ r \in 0..Byte - 1 /\ x = Byte * q + r
  BY <1>1
<1>3. q = x \div Byte /\ r = x % Byte
  OBVIOUS
<1> HIDE DEF q, r
<1>4. q < Byte
  <2> SUFFICES ASSUME q >= Byte  PROVE FALSE
    BY <1>1, <1>2
  <2>1. Byte * q >= Byte * Byte
    BY <1>1, <1>2
  <2> QED
    BY <1>1, <1>2, <2>1
<1>5. r \in 0..Byte - 1 /\ q \in 0..Byte - 1 /\ x = Byte * q + r
  BY <1>1, <1>2, <1>4
<1> QED
  BY <1>3, <1>5

LEMMA SwapType ==
  ASSUME NEW x \in Xid
  PROVE  Swap(x) \in Xid
<1> DEFINE q == x \div Byte
           r == x % Byte
<1>1. q \in 0..Byte - 1 /\ r \in 0..Byte - 1 /\ Byte \in Nat
  BY Bytes, RpcAssumption
<1> HIDE DEF q, r
<1>2. r * Byte <= (Byte - 1) * Byte /\ r * Byte \in Nat
  BY <1>1
<1>3. r * Byte + q \in 0..Byte * Byte - 1
  BY <1>1, <1>2
<1> QED
  BY <1>3 DEF Swap, Xid, q, r

\* The search ends, at 0 at the latest.
LEMMA GetXid ==
  ASSUME xid_ \in Xid
  PROVE  get_xid \in Xid
<1> DEFINE N == Byte * Byte
           x(k) == (xid_ + k) % (Byte * Byte)
           Found(k) == x(k) \notin DOMAIN calls_ \/ x(k) = 0
           K == {k \in 1..N : Found(k)}
<1>1. N \in Nat /\ N > 0 /\ xid_ \in 0..N - 1
  BY RpcAssumption DEF Xid
<1>2. K \subseteq Nat /\ K # {}
  <2>1. N - xid_ \in 1..N /\ xid_ + (N - xid_) = N
    BY <1>1
  <2>2. N % N = 0
    <3> HIDE DEF N
    <3> QED
      BY <1>1
  <2>3. x(N - xid_) = 0
    BY <2>1, <2>2
  <2>4. N - xid_ \in K
    BY <2>1, <2>3
  <2>5. 1..N \subseteq Nat
    BY <1>1
  <2> QED
    BY <2>4, <2>5
<1>3. \E k \in K : \A j \in K : ~(j < k)
  <2>1. \E k \in K : \A j \in K : ~(<< j, k >> \in OpToRel(<, Nat))
    <3> HIDE DEF K
    <3> QED
      BY <1>2, WFMin, NatLessThanWellFounded, Zenon
  <2> HIDE DEF K
  <2> QED
    BY <1>2, <2>1, Zenon DEF OpToRel
<1>4. \E k \in 1..N : Found(k) /\ \A j \in 1..k - 1 : ~Found(j)
  <2>1. PICK k \in K : \A j \in K : ~(j < k)
    BY <1>3
  <2>2. k \in 1..N /\ Found(k)
    OBVIOUS
  <2>3. ASSUME NEW j \in 1..k - 1  PROVE ~Found(j)
    <3>1. j \in 1..N /\ j < k
      BY <1>1, <2>2
    <3>2. j \notin K
      BY <2>1, <3>1
    <3> QED
      BY <3>1, <3>2
  <2> QED
    BY <2>2, <2>3
<1>5. PICK k \in 1..N : get_xid = x(k)
  <2> DEFINE m == CHOOSE k \in 1..N : Found(k) /\ \A j \in 1..k - 1 : ~Found(j)
  <2>1. get_xid = x(m)
    BY DEF get_xid
  <2>2. m \in 1..N
    BY <1>4, Zenon
  <2> QED
    BY <2>1, <2>2
<1>6. (xid_ + k) % N \in 0..N - 1
  <2> HIDE DEF N
  <2> QED
    BY <1>1
<1> QED
  BY <1>5, <1>6 DEF Xid

----------------------------------------------------------------------------
(***************************************************************************)
(* The client.                                                             *)
(***************************************************************************)
\* What the client leaves alone.
notClient == <<conn, held, kind, executed>>

LEMMA ClientTypes ==
  ASSUME IInv
  PROVE  /\ xid_ \in Xid /\ DOMAIN calls_ \subseteq Xid /\ Range(calls_) \subseteq Call
         /\ calls_ = [v \in DOMAIN calls_ |-> calls_[v]]
         /\ stack \in Seq(Frame) /\ Len(stack) <= 2 /\ crashed \in BOOLEAN
         /\ made \in 0..MaxCalls /\ threw \subseteq issued /\ lost \subseteq issued
         /\ answers \in [Call -> Seq(Answer)]
  BY DEF IInv, TypeOK, Shape, Answer

LEMMA ClientSideType ==
  ASSUME IInv, UNCHANGED notClient,
         xid_' \in Xid, DOMAIN calls_' \subseteq Xid, Range(calls_)' \subseteq Call,
         sock' \in {"open", "deleting", "deleted"},
         stack' \in Seq(Frame), Len(stack') <= 2,
         crashed' \in BOOLEAN, link' \in BOOLEAN,
         requests' \in Seq(Request), replies' \in Seq(Reply),
         made' \in 0..MaxCalls, threw' \subseteq 1..made', lost' \subseteq 1..made',
         answers' \in [Call -> Seq(Answer)]
  PROVE  TypeOK'
  BY DEF notClient, IInv, TypeOK, issued, Answer

\* The top of the stack is replaced: nobody waits who did not.
LEMMA ReplaceKeeps ==
  ASSUME IInv, stack # << >>, NEW f \in Frame, Replace(f), f.left \subseteq top.left,
         f.why = top.why \/ Len(stack) = 1,
         f.why \in {"reply", "servcb"} => f.left = {},
         UNCHANGED <<calls_, sock, held>>
  PROVE  /\ Replaced(stack', stack, f) /\ stack' \in Seq(Frame) /\ Len(stack') = Len(stack)
         /\ Shape' /\ OnePlace'
         /\ \A c : Waits(c)' => Waits(c)
         /\ \A k \in 1..Len(stack) : k = 1 \/ k \in 2..Len(stack)
<1>1. Replaced(stack', stack, f)
  BY ClientTypes, ReplaceStack
<1>2. /\ stack' \in Seq(Frame) /\ Len(stack') = Len(stack) /\ Len(stack) > 0 /\ stack'[1] = f
      /\ \A k \in 2..Len(stack) : stack'[k] = stack[k]
      /\ \A k \in 1..Len(stack) : k = 1 \/ k \in 2..Len(stack)
      /\ top = stack[1] /\ 1 \in 1..Len(stack)
  BY <1>1, ClientTypes, TopType DEF Replaced
<1>3. \A k \in 1..Len(stack) : stack'[k].left \subseteq stack[k].left
  BY <1>2
<1>4. Shape'
  BY <1>2 DEF IInv, Shape, Left
<1>5. OnePlace'
  BY <1>2, <1>3 DEF IInv, OnePlace, Left, Range
<1>6. \A c : Waits(c)' => Waits(c)
  BY <1>2, <1>3 DEF Waits, Left, Range
<1> QED
  BY <1>1, <1>2, <1>4, <1>5, <1>6

\* It is taken off.
LEMMA PopKeeps ==
  ASSUME IInv, stack # << >>, stack' = Tail(stack),
         UNCHANGED calls_ \/ calls_' = NoCalls,
         sock' = "open" => sock = "open", UNCHANGED held
  PROVE  /\ Popped(stack', stack) /\ stack' \in Seq(Frame) /\ Len(stack') <= 2
         /\ DOMAIN calls_' \subseteq Xid /\ Range(calls_)' \subseteq Range(calls_)
         /\ Shape' /\ OnePlace'
         /\ \A c : Waits(c)' => Waits(c)
<1>1. Popped(stack', stack)
  BY ClientTypes, PopStack
<1>2. /\ stack' \in Seq(Frame) /\ Len(stack') = Len(stack) - 1 /\ Len(stack) > 0
      /\ \A k \in 1..Len(stack') : stack'[k] = stack[k + 1] /\ k + 1 \in 1..Len(stack)
  BY <1>1, ClientTypes DEF Popped
<1>3. /\ DOMAIN calls_' \subseteq DOMAIN calls_
      /\ \A v \in DOMAIN calls_' : calls_'[v] = calls_[v]
      /\ calls_' = [v \in DOMAIN calls_' |-> calls_'[v]]
  <2>1. CASE UNCHANGED calls_
    BY <2>1, ClientTypes
  <2>2. CASE calls_' = NoCalls
    BY <2>2 DEF NoCalls
  <2> QED
    BY <2>1, <2>2
<1>4. DOMAIN calls_' \subseteq Xid /\ Range(calls_)' \subseteq Range(calls_)
  BY <1>3, ClientTypes DEF Range
<1>5. Shape'
  BY <1>2, <1>3, ClientTypes DEF IInv, Shape, Left
<1>6. OnePlace'
  <2>1. \A v, w \in DOMAIN calls_' : calls_'[v] = calls_'[w] => v = w
    BY <1>3 DEF IInv, OnePlace
  <2>2. \A k \in 1..Len(stack') : stack'[k].left \cap Range(calls_)' = {}
    BY <1>2, <1>4 DEF IInv, OnePlace, Left
  <2>3. \A j, k \in 1..Len(stack') : j # k => stack'[j].left \cap stack'[k].left = {}
    <3> TAKE j, k \in 1..Len(stack')
    <3> HAVE j # k
    <3>1. j + 1 # k + 1
      OBVIOUS
    <3> QED
      BY <1>2, <3>1 DEF IInv, OnePlace, Left
  <2> QED
    BY <2>1, <2>2, <2>3 DEF OnePlace, Left
<1>7. \A c : Waits(c)' => Waits(c)
  BY <1>2, <1>4 DEF Waits, Left
<1> QED
  BY <1>1, <1>2, <1>4, <1>5, <1>6, <1>7, ClientTypes

\* Where nothing is answered and no call is made.
LEMMA QuietStep ==
  ASSUME IInv, TypeOK', Shape', OnePlace', \A c : Waits(c)' => Waits(c),
         UNCHANGED <<made, answers, threw>>,
         \A k \in 1..Len(stack') :
           stack'[k].why = "reply" =>
             \E j \in 1..Len(stack) : stack'[k] = stack[j]
  PROVE  IInv'
<1>1. Unanswered'
  BY DEF IInv, Unanswered, issued
<1>2. Answering' /\ AnsweredOnce'
  BY DEF IInv, Answering, AnsweredOnce
<1> QED
  BY <1>1, <1>2 DEF IInv

LEMMA TopOfStack ==
  ASSUME IInv, stack # << >>
  PROVE  /\ top = stack[1] /\ 1 \in 1..Len(stack) /\ top \in Frame
         /\ top.why \in {"reply", "end", "delete", "servcb"}
         /\ top.call \in SUBSET Call /\ top.left \in SUBSET Call /\ top.again \in BOOLEAN
         /\ \A c \in top.left : Waits(c) /\ c \in issued /\ answers[c] = << >>
         /\ top.why = "reply" \/ top.why = "servcb" => Len(stack) = 1 /\ top.left = {}
<1>1. /\ top = stack[1] /\ 1 \in 1..Len(stack) /\ top \in Frame
      /\ top.why \in {"reply", "end", "delete", "servcb"}
      /\ top.call \in SUBSET Call /\ top.left \in SUBSET Call /\ top.again \in BOOLEAN
  BY ClientTypes, TopType
<1>2. \A c \in top.left : Waits(c) /\ c \in issued /\ answers[c] = << >>
  BY <1>1 DEF IInv, Unanswered, Waits, Left
<1>3. top.why = "reply" \/ top.why = "servcb" => Len(stack) = 1 /\ top.left = {}
  <2>1. /\ stack[1].why \in {"reply", "servcb"} => stack[1].left = {}
        /\ 1 < Len(stack) => stack[1].why = "delete"
    BY <1>1 DEF IInv, Shape, Left
  <2>2. Len(stack) = 1 \/ 1 < Len(stack)
    BY <1>1, ClientTypes, SMTT(30)
  <2>3. top = stack[1]
    BY <1>1
  <2> HAVE top.why = "reply" \/ top.why = "servcb"
  <2>4. stack[1].why \in {"reply", "servcb"} /\ stack[1].why # "delete"
    BY <2>3
  <2>5. top.left = {}
    BY <2>1, <2>3, <2>4, Zenon
  <2>6. Len(stack) = 1
    BY <2>1, <2>2, <2>4, Zenon
  <2> QED
    BY <2>5, <2>6, Zenon
<1> QED
  BY <1>1, <1>2, <1>3

LEMMA AbortNextStep ==
  ASSUME IInv, AbortNext
  PROVE  IInv'
<1>1. stack # << >> /\ top.why \in {"end", "delete"}
  BY DEF AbortNext, Aborting
<1>2. PICK c \in top.left : /\ Replace(Waiting(top.why, {c}, top.left \ {c}, FALSE))
                            /\ Answered(c, [what |-> "network", of |-> c])
  BY DEF AbortNext
<1>3. /\ UNCHANGED <<calls_, sock, held, made, threw>> /\ UNCHANGED notClient
      /\ UNCHANGED <<xid_, crashed, link, requests, replies, lost>>
  BY DEF AbortNext, notClient, network, server
<1> DEFINE f == Waiting(top.why, {c}, top.left \ {c}, FALSE)
<1>4. /\ c \in Call /\ Waits(c) /\ c \in issued /\ answers[c] = << >>
      /\ top = stack[1] /\ 1 \in 1..Len(stack)
      /\ f \in Frame /\ f.why = top.why /\ f.left = top.left \ {c} /\ f.call = {c}
  <2>1. /\ top.left \in SUBSET Call /\ top.why \in {"reply", "end", "delete", "servcb"}
        /\ c \in Call /\ Waits(c) /\ c \in issued /\ answers[c] = << >>
        /\ top = stack[1] /\ 1 \in 1..Len(stack)
    BY <1>1, TopOfStack
  <2>2. {c} \in SUBSET Call /\ top.left \ {c} \in SUBSET Call /\ FALSE \in BOOLEAN
    BY <2>1
  <2>3. f \in Frame /\ f.why = top.why /\ f.left = top.left \ {c} /\ f.call = {c}
    BY <2>1, <2>2 DEF Waiting, Frame
  <2> QED
    BY <2>1, <2>3
<1> HIDE DEF f
<1>5. /\ Replaced(stack', stack, f) /\ stack' \in Seq(Frame) /\ Len(stack') = Len(stack)
      /\ Shape' /\ OnePlace' /\ \A b : Waits(b)' => Waits(b)
      /\ \A k \in 1..Len(stack) : k = 1 \/ k \in 2..Len(stack)
  <2>1. Replace(f) /\ f.left \subseteq top.left /\ (f.why \in {"reply", "servcb"} => f.left = {})
    BY <1>1, <1>2, <1>4 DEF f
  <2> QED
    BY <1>1, <1>3, <1>4, <2>1, ReplaceKeeps
<1>6. /\ answers' \in [Call -> Seq(Answer)] /\ Len(answers'[c]) = 1
      /\ \A b \in Call \ {c} : answers'[b] = answers[b]
  <2>1. [what |-> "network", of |-> c] \in Answer
    BY <1>4 DEF Answer, What
  <2>2. Len(answers[c]) = 0
    BY <1>4
  <2>3. answers \in [Call -> Seq(Answer)] /\ c \in Call
    BY <1>4, ClientTypes
  <2>4. /\ answers' \in [Call -> Seq(Answer)] /\ Len(answers'[c]) = Len(answers[c]) + 1
        /\ \A b \in Call \ {c} : answers'[b] = answers[b]
    BY <1>2, <2>1, <2>3, AnswerType
  <2> QED
    BY <2>2, <2>4
<1>7. ~Waits(c)'
  <2>1. c \notin Range(calls_)
    BY <1>2, <1>4 DEF IInv, OnePlace, Left
  <2>2. c \notin stack'[1].left
    BY <1>4, <1>5 DEF Replaced
  <2>3. \A k \in 2..Len(stack) : c \notin stack'[k].left
    <3> TAKE k \in 2..Len(stack)
    <3>1. k \in 1..Len(stack) /\ k # 1
      OBVIOUS
    <3>2. stack'[k] = stack[k]
      BY <1>5 DEF Replaced
    <3>3. stack[1].left \cap stack[k].left = {}
      BY <1>4, <3>1 DEF IInv, OnePlace, Left
    <3> QED
      BY <1>2, <1>4, <3>2, <3>3
  <2> QED
    BY <1>3, <1>5, <2>1, <2>2, <2>3 DEF Waits, Left, Range
<1>8. TypeOK'
  <2>1. Range(calls_)' = Range(calls_)
    BY <1>3 DEF Range
  <2> QED
    BY <1>3, <1>5, <1>6, <2>1, ClientTypes, MessageTypes, ClientSideType
       DEF issued, IInv, TypeOK
<1>9. Unanswered'
  <2>1. \A b \in Call : Waits(b)' => b \in issued' /\ answers'[b] = << >>
    <3> TAKE b \in Call
    <3> HAVE Waits(b)'
    <3>1. b # c /\ Waits(b)
      BY <1>5, <1>7
    <3> QED
      BY <1>3, <1>6, <3>1 DEF IInv, Unanswered, issued
  <2>2. \A b \in Call : b > made' => answers'[b] = << >>
    BY <1>3, <1>4, <1>6, ClientTypes DEF IInv, Unanswered, issued
  <2> QED
    BY <2>1, <2>2 DEF Unanswered
<1>10. Answering'
  <2> SUFFICES ASSUME NEW k \in 1..Len(stack'),
                      stack'[k].why = "reply" /\ ~stack'[k].again,
                      NEW b \in stack'[k].call
               PROVE  Len(answers'[b]) = 1
    BY DEF Answering
  <2>1. stack'[1].why # "reply"
    BY <1>1, <1>4, <1>5 DEF Replaced
  <2>2. k \in 2..Len(stack) /\ stack'[k] = stack[k] /\ k \in 1..Len(stack)
    BY <1>5, <2>1 DEF Replaced
  <2>3. stack[k] \in Frame
    BY <2>2, ClientTypes
  <2>4. b \in Call
    BY <2>2, <2>3 DEF Frame
  <2>5. Len(answers[b]) = 1
    BY <2>2 DEF IInv, Answering
  <2> QED
    BY <1>6, <2>4, <2>5
<1>11. AnsweredOnce'
  <2> SUFFICES ASSUME NEW b \in Call
               PROVE  Len(answers'[b]) <= IF b \in threw' THEN 2 ELSE 1
    BY DEF AnsweredOnce
  <2>1. CASE b = c
    <3>1. Len(answers'[b]) = 1
      BY <1>6, <2>1
    <3> QED
      BY <3>1
  <2>2. CASE b # c
    <3>1. Len(answers[b]) <= IF b \in threw THEN 2 ELSE 1
      BY DEF IInv, AnsweredOnce
    <3> QED
      BY <1>3, <1>6, <2>2, <3>1
  <2> QED
    BY <2>1, <2>2
<1> QED
  BY <1>5, <1>8, <1>9, <1>10, <1>11 DEF IInv
\* One that waited for a callback goes on.
LEMMA GoesOn ==
  ASSUME IInv, stack # << >>, NEW f \in Frame, Replace(f), f.left \subseteq top.left,
         f.why = top.why \/ Len(stack) = 1, f.why # "reply",
         f.why = "servcb" => f.left = {},
         UNCHANGED <<xid_, calls_, sock, crashed>>, UNCHANGED network, UNCHANGED server,
         UNCHANGED history
  PROVE  IInv'
<1>1. /\ UNCHANGED <<calls_, sock, held, made, threw>> /\ UNCHANGED notClient
      /\ UNCHANGED <<xid_, crashed, link, requests, replies, lost, answers>>
  BY DEF notClient, network, server, history
<1>2. /\ Replaced(stack', stack, f) /\ stack' \in Seq(Frame) /\ Len(stack') = Len(stack)
      /\ Shape' /\ OnePlace' /\ \A b : Waits(b)' => Waits(b)
      /\ \A k \in 1..Len(stack) : k = 1 \/ k \in 2..Len(stack)
  BY <1>1, ReplaceKeeps
<1>3. Range(calls_)' = Range(calls_)
  BY <1>1 DEF Range
<1>4. TypeOK'
  BY <1>1, <1>2, <1>3, ClientTypes, MessageTypes, ClientSideType DEF issued, IInv, TypeOK
<1>5. ASSUME NEW k \in 1..Len(stack'), stack'[k].why = "reply"
      PROVE  \E j \in 1..Len(stack) : stack'[k] = stack[j]
  <2>1. k # 1
    BY <1>2, <1>5 DEF Replaced
  <2>2. k \in 2..Len(stack) /\ k \in 1..Len(stack)
    BY <1>2, <2>1
  <2> QED
    BY <1>2, <2>2 DEF Replaced
<1> QED
  BY <1>1, <1>2, <1>4, <1>5, QuietStep

\* One is through.
LEMMA Through ==
  ASSUME IInv, stack # << >>, stack' = Tail(stack),
         UNCHANGED calls_ \/ calls_' = NoCalls,
         sock' \in {"open", "deleting", "deleted"}, sock' = "open" => sock = "open",
         link' \in BOOLEAN, requests' \in Seq(Request), replies' \in Seq(Reply),
         lost' \subseteq issued,
         UNCHANGED <<xid_, crashed, made, threw, answers>>, UNCHANGED notClient
  PROVE  IInv'
<1>1. UNCHANGED held
  BY DEF notClient
<1>2. /\ Popped(stack', stack) /\ stack' \in Seq(Frame) /\ Len(stack') <= 2
      /\ DOMAIN calls_' \subseteq Xid /\ Range(calls_)' \subseteq Range(calls_)
      /\ Shape' /\ OnePlace'
      /\ \A c : Waits(c)' => Waits(c)
  BY <1>1, PopKeeps
<1>3. TypeOK'
  <2>1. Range(calls_)' \subseteq Call /\ threw' \subseteq 1..made' /\ lost' \subseteq 1..made'
    BY <1>2, ClientTypes DEF issued
  <2> QED
    BY <1>2, <2>1, ClientTypes, ClientSideType
<1>4. ASSUME NEW k \in 1..Len(stack')
      PROVE  \E j \in 1..Len(stack) : stack'[k] = stack[j]
  <2>1. k + 1 \in 1..Len(stack) /\ stack'[k] = stack[k + 1]
    BY <1>2, ClientTypes DEF Popped
  <2> QED
    BY <2>1
<1> QED
  BY <1>2, <1>3, <1>4, QuietStep

LEMMA CallbackReturnsStep ==
  ASSUME IInv, CallbackReturns
  PROVE  IInv'
<1>1. /\ stack # << >> /\ UNCHANGED <<xid_, calls_, sock, crashed>> /\ UNCHANGED network
      /\ UNCHANGED server /\ UNCHANGED history
  BY DEF CallbackReturns, Called
<1>2. CASE top.why \in {"end", "delete"}
  <2> DEFINE f == Waiting(top.why, {}, top.left, FALSE)
  <2>1. f \in Frame /\ f.why = top.why /\ f.left = top.left
    BY <1>1, TopOfStack DEF Waiting, Frame
  <2>2. Replace(f)
    BY <1>2 DEF CallbackReturns
  <2> HIDE DEF f
  <2> QED
    BY <1>1, <1>2, <2>1, <2>2, GoesOn
<1>3. CASE top.why \notin {"end", "delete"}
  <2>1. stack' = Tail(stack)
    BY <1>3 DEF CallbackReturns
  <2>2. /\ UNCHANGED <<link, requests, replies, lost, made, threw, answers>>
        /\ UNCHANGED notClient
    BY <1>1 DEF network, server, history, notClient
  <2>3. sock \in {"open", "deleting", "deleted"}
    BY DEF IInv, TypeOK
  <2> QED
    BY <1>1, <2>1, <2>2, <2>3, ClientTypes, MessageTypes, Through
<1> QED
  BY <1>2, <1>3

LEMMA EndDoneStep ==
  ASSUME IInv, EndDone
  PROVE  IInv'
<1>1. /\ stack # << >> /\ top.why = "end" /\ top.left = {}
      /\ UNCHANGED <<xid_, calls_, sock>> /\ UNCHANGED network
      /\ UNCHANGED server /\ UNCHANGED history
  BY DEF EndDone, Aborting
<1>2. CASE sock = "open" /\ Replace(Waiting("servcb", {}, {}, FALSE)) /\ UNCHANGED crashed
  <2> DEFINE f == Waiting("servcb", {}, {}, FALSE)
  <2>1. f \in Frame /\ f.why = "servcb" /\ f.left = {}
    BY DEF Waiting, Frame
  <2>2. Len(stack) = 1
    <3>1. Len(stack) <= 1
      BY <1>2 DEF IInv, Shape
    <3> QED
      BY <1>1, <3>1, ClientTypes, AtMostOne, Zenon
  <2>3. Replace(f)
    BY <1>2
  <2> HIDE DEF f
  <2> QED
    BY <1>1, <1>2, <2>1, <2>2, <2>3, GoesOn
<1>3. CASE crashed' = TRUE /\ UNCHANGED stack
  <2>1. TypeOK'
    BY <1>1, <1>3 DEF IInv, TypeOK, issued, network, server, history
  <2> QED
    BY <1>1, <1>3, <2>1 DEF IInv, Shape, OnePlace, Unanswered, Answering, AnsweredOnce,
                            Left, Waits, issued, network, server, history
<1> QED
  BY <1>2, <1>3 DEF EndDone

LEMMA DeleteDoneStep ==
  ASSUME IInv, DeleteDone
  PROVE  IInv'
<1>1. /\ stack # << >> /\ stack' = Tail(stack) /\ calls_' = NoCalls
      /\ sock' = "deleted" /\ link' = FALSE /\ replies' = << >>
      /\ requests' \in Prefixes(requests) /\ lost' = lost \cup Range(calls_)
      /\ UNCHANGED <<xid_, crashed, made, threw, answers>> /\ UNCHANGED notClient
  BY DEF DeleteDone, Aborting, server, notClient
<1>2. requests' \in Seq(Request) /\ replies' \in Seq(Reply)
  BY <1>1, MessageTypes, PrefixType
<1>3. Range(calls_) \subseteq issued
  BY ClientTypes DEF IInv, Unanswered, Waits
<1>4. lost' \subseteq issued
  BY <1>1, <1>3, ClientTypes
<1>5. /\ sock' \in {"open", "deleting", "deleted"} /\ (sock' = "open" => sock = "open")
      /\ link' \in BOOLEAN
  BY <1>1
<1> QED
  BY <1>1, <1>2, <1>4, <1>5, Through

LEMMA AbortStep ==
  ASSUME IInv, NEW why \in {"end", "delete"}, AbortAllCalls(why, stack),
         Len(stack) <= 1, stack = << >> \/ why = "delete",
         sock' \in {"open", "deleting"}, sock' = "open" => stack = << >>,
         UNCHANGED <<xid_, crashed>>, UNCHANGED network, UNCHANGED server, UNCHANGED history
  PROVE  IInv'
<1>1. /\ UNCHANGED <<xid_, crashed, made, threw, answers, link, requests, replies, lost, held>>
      /\ UNCHANGED notClient
  BY DEF network, server, history, notClient
<1> DEFINE f == Waiting(why, {}, Range(calls_), FALSE)
<1>2. f \in Frame /\ f.why = why /\ f.left = Range(calls_)
  BY ClientTypes DEF Waiting, Frame
<1>3. stack' = << f >> \o stack /\ calls_' = NoCalls
  BY DEF AbortAllCalls
<1> HIDE DEF f
<1>4. /\ stack' \in Seq(Frame) /\ Len(stack') = Len(stack) + 1 /\ stack'[1] = f
      /\ \A k \in 1..Len(stack) : stack'[k + 1] = stack[k]
  BY <1>2, <1>3, PushStack, ClientTypes DEF Pushed
<1>5. /\ Len(stack') <= 2 /\ 1 \in 1..Len(stack')
      /\ \A k \in 1..Len(stack') : \/ k = 1
                                   \/ k = 2 /\ 1 \in 1..Len(stack) /\ stack'[k] = stack[1]
  <2>1. Len(stack) = 0 \/ Len(stack) = 1
    BY ClientTypes, AtMostOne, Zenon
  <2>2. CASE Len(stack) = 0
    BY <1>4, <2>2
  <2>3. CASE Len(stack) = 1
    <3>1. Len(stack') = 2 /\ 1 \in 1..Len(stack) /\ stack'[1 + 1] = stack[1]
      BY <1>4, <2>3
    <3> QED
      BY <3>1, <2>3
  <2> QED
    BY <2>1, <2>2, <2>3
<1>6. DOMAIN calls_' = {} /\ Range(calls_)' = {} /\ calls_' = [v \in DOMAIN calls_' |-> calls_'[v]]
  BY <1>3 DEF NoCalls, Range
<1>7. TypeOK'
  <2>1. threw' \subseteq 1..made' /\ lost' \subseteq 1..made'
    BY <1>1, ClientTypes DEF issued
  <2> QED
    BY <1>1, <1>4, <1>5, <1>6, <2>1, ClientTypes, MessageTypes, ClientSideType
<1>8. Shape'
  <2>1. sock' = "open" => Len(stack') <= 1
    BY <1>4
  <2>2. ASSUME NEW k \in 1..Len(stack')
        PROVE  /\ k < Len(stack') => stack'[k].why = "delete"
               /\ stack'[k].why \in {"reply", "servcb"} => stack'[k].left = {}
    <3>1. CASE k = 1
      <4>1. stack # << >> => why = "delete"
        OBVIOUS
      <4>2. 1 < Len(stack') => stack # << >>
        BY <1>4, ClientTypes
      <4> QED
        BY <1>2, <1>4, <3>1, <4>1, <4>2
    <3>2. CASE k = 2 /\ 1 \in 1..Len(stack) /\ stack'[k] = stack[1]
      <4>1. ~(k < Len(stack'))
        BY <1>5, <3>2, <1>4
      <4> QED
        BY <3>2, <4>1 DEF IInv, Shape, Left
    <3> QED
      BY <1>5, <3>1, <3>2
  <2> QED
    BY <1>1, <1>6, <2>1, <2>2 DEF IInv, Shape, Left
<1>9. \A k \in 1..Len(stack') : \/ stack'[k].left = Range(calls_)
                                \/ k = 2 /\ stack'[k].left = stack[1].left
  BY <1>2, <1>4, <1>5
<1>10. stack # << >> => stack[1].left \cap Range(calls_) = {}
  BY ClientTypes DEF IInv, OnePlace, Left
<1>11. OnePlace'
  <2>1. ASSUME NEW j \in 1..Len(stack'), NEW k \in 1..Len(stack'), j # k
        PROVE  stack'[j].left \cap stack'[k].left = {}
    <3>1. stack # << >>
      BY <1>4, <1>5, <2>1, ClientTypes
    <3>2. \/ j = 1 /\ k = 2 /\ stack'[k] = stack[1]
          \/ j = 2 /\ k = 1 /\ stack'[j] = stack[1]
      BY <1>5, <2>1
    <3> QED
      BY <1>2, <1>4, <1>10, <3>1, <3>2
  <2> QED
    BY <1>6, <2>1 DEF OnePlace, Left
<1>12. \A c : Waits(c)' => Waits(c)
  <2>1. stack # << >> => 1 \in 1..Len(stack)
    BY ClientTypes
  <2> QED
    BY <1>5, <1>6, <1>9, <2>1 DEF Waits, Left
<1>13. ASSUME NEW k \in 1..Len(stack'), stack'[k].why = "reply"
       PROVE  \E j \in 1..Len(stack) : stack'[k] = stack[j]
  <2>1. k # 1
    BY <1>2, <1>4, <1>13
  <2> QED
    BY <1>5, <2>1
<1> QED
  BY <1>1, <1>7, <1>8, <1>11, <1>12, <1>13, QuietStep

LEMMA DeleteStep ==
  ASSUME IInv, Delete
  PROVE  IInv'
<1>1. /\ sock = "open" /\ sock' = "deleting" /\ AbortAllCalls("delete", stack)
      /\ UNCHANGED <<xid_, crashed>> /\ UNCHANGED network /\ UNCHANGED server
      /\ UNCHANGED history
  BY DEF Delete
<1>2. Len(stack) <= 1
  BY <1>1 DEF IInv, Shape
<1> QED
  BY <1>1, <1>2, AbortStep

LEMMA ConnectionEndsStep ==
  ASSUME IInv, ConnectionEnds
  PROVE  IInv'
<1>1. /\ sock = "open" /\ sock' = sock /\ stack = << >> /\ AbortAllCalls("end", stack)
      /\ UNCHANGED <<xid_, crashed>> /\ UNCHANGED network /\ UNCHANGED server
      /\ UNCHANGED history
  BY DEF ConnectionEnds
<1>2. Len(stack) <= 1
  BY <1>1
<1> QED
  BY <1>1, <1>2, AbortStep

LEMMA CallbackThrowsStep ==
  ASSUME IInv, CallbackThrows
  PROVE  IInv'
<1>1. /\ stack # << >> /\ (top.call # {} \/ top.why = "servcb")
      /\ UNCHANGED <<xid_, calls_, sock, crashed>> /\ UNCHANGED network
      /\ UNCHANGED server /\ UNCHANGED <<kind, made, executed, lost>>
  BY DEF CallbackThrows, Called
<1>2. CASE top.why \in {"end", "delete"}
  <2> DEFINE f == Waiting(top.why, {}, top.left, FALSE)
  <2>1. f \in Frame /\ f.why = top.why /\ f.left = top.left
    BY <1>1, TopOfStack DEF Waiting, Frame
  <2>2. Replace(f) /\ UNCHANGED <<answers, threw>>
    BY <1>2 DEF CallbackThrows
  <2>3. UNCHANGED history
    BY <1>1, <2>2 DEF history
  <2> HIDE DEF f
  <2> QED
    BY <1>1, <1>2, <2>1, <2>2, <2>3, GoesOn
<1>3. CASE top.why = "reply" /\ ~top.again
  <2> DEFINE f == Waiting("reply", top.call, {}, TRUE)
  <2>1. PICK c \in top.call : Answered(c, [what |-> "garbage", of |-> c])
    BY <1>3 DEF CallbackThrows
  <2>2. f \in Frame /\ f.why = "reply" /\ f.call = top.call /\ f.left = {} /\ f.again = TRUE
    BY <1>1, TopOfStack DEF Waiting, Frame
  <2>3. Replace(f) /\ threw' = threw \cup top.call
    BY <1>3 DEF CallbackThrows
  <2> HIDE DEF f
  <2>4. /\ UNCHANGED <<calls_, sock, held, made, lost, xid_, crashed, link, requests, replies>>
        /\ UNCHANGED notClient
    BY <1>1 DEF network, server, notClient
  <2>5. /\ top = stack[1] /\ 1 \in 1..Len(stack) /\ Len(stack) = 1
        /\ top.call \in SUBSET Call /\ top.left = {}
    BY <1>1, <1>3, TopOfStack
  <2>6. /\ Replaced(stack', stack, f) /\ stack' \in Seq(Frame) /\ Len(stack') = Len(stack)
        /\ Shape' /\ OnePlace' /\ \A b : Waits(b)' => Waits(b)
    <3>1. f.left \subseteq top.left /\ f.why = top.why
      BY <1>3, <2>2
    <3> QED
      BY <1>1, <2>2, <2>3, <2>4, <3>1, ReplaceKeeps
  <2>7. \A b \in top.call : b \in Call /\ Len(answers[b]) = 1 /\ answers[b] # << >>
    BY <1>3, <2>5 DEF IInv, Answering
  <2>8. top.call \subseteq issued
    <3>1. \A b \in top.call : ~(b > made)
      BY <2>7 DEF IInv, Unanswered
    <3> QED
      BY <2>7, <3>1, ClientTypes DEF issued, Call
  <2>9. /\ answers' \in [Call -> Seq(Answer)] /\ Len(answers'[c]) = 2 /\ answers'[c] # << >>
        /\ \A b \in Call \ {c} : answers'[b] = answers[b]
    <3>1. [what |-> "garbage", of |-> c] \in Answer
      BY <2>7 DEF Answer, What
    <3>2. answers \in [Call -> Seq(Answer)] /\ c \in Call /\ Len(answers[c]) = 1
      BY <2>7, ClientTypes
    <3>3. /\ answers' \in [Call -> Seq(Answer)] /\ Len(answers'[c]) = Len(answers[c]) + 1
          /\ answers'[c] # << >>
          /\ \A b \in Call \ {c} : answers'[b] = answers[b]
      BY <2>1, <3>1, <3>2, AnswerType
    <3> QED
      BY <3>2, <3>3
  <2>10. TypeOK'
    <3>1. Range(calls_)' \subseteq Call
      BY <2>4, ClientTypes DEF Range
    <3>2. threw' \subseteq 1..made' /\ lost' \subseteq 1..made'
      BY <2>3, <2>4, <2>8, ClientTypes DEF issued
    <3>3. Len(stack') <= 2
      BY <2>6, ClientTypes
    <3>4. sock' \in {"open", "deleting", "deleted"}
      BY <2>4 DEF IInv, TypeOK
    <3> QED
      BY <2>4, <2>6, <2>9, <3>1, <3>2, <3>3, <3>4, ClientTypes, MessageTypes, ClientSideType
  <2>11. Unanswered'
    <3>1. \A b \in Call : Waits(b) => b # c
      BY <2>7 DEF IInv, Unanswered
    <3>2. \A b \in Call : b > made => b # c
      BY <2>7 DEF IInv, Unanswered
    <3> QED
      BY <2>4, <2>6, <2>9, <3>1, <3>2 DEF IInv, Unanswered, issued
  <2>12. Answering'
    <3>1. \A k \in 1..Len(stack') : k = 1
      BY <2>5, <2>6
    <3>2. stack'[1].again = TRUE
      BY <2>2, <2>6 DEF Replaced
    <3> QED
      BY <3>1, <3>2 DEF Answering
  <2>13. AnsweredOnce'
    <3> SUFFICES ASSUME NEW b \in Call
                 PROVE  Len(answers'[b]) <= IF b \in threw' THEN 2 ELSE 1
      BY DEF AnsweredOnce
    <3>1. CASE b = c
      <4>1. Len(answers'[b]) = 2 /\ b \in threw'
        BY <2>1, <2>3, <2>9, <3>1
      <4> QED
        BY <4>1
    <3>2. CASE b # c
      <4>1. Len(answers[b]) <= IF b \in threw THEN 2 ELSE 1
        BY DEF IInv, AnsweredOnce
      <4>2. answers'[b] = answers[b] /\ (b \in threw => b \in threw')
        BY <2>3, <2>9, <3>2
      <4>3. Len(answers[b]) \in Nat
        BY ClientTypes
      <4> QED
        BY <4>1, <4>2, <4>3
    <3> QED
      BY <3>1, <3>2
  <2> QED
    BY <2>6, <2>10, <2>11, <2>12, <2>13 DEF IInv
<1>4. CASE top.why \notin {"end", "delete"} /\ ~(top.why = "reply" /\ ~top.again)
  <2>1. stack' = << >> /\ UNCHANGED <<answers, threw>>
    BY <1>4 DEF CallbackThrows
  <2>2. Len(stack) = 1
    BY <1>1, <1>4, TopOfStack
  <2>3. stack' = Tail(stack)
    <3>1. Tail(stack) \in Seq(Frame) /\ Len(Tail(stack)) = 0
      BY <1>1, <2>2, ClientTypes, HeadTailProperties
    <3>2. Tail(stack) = << >>
      BY <3>1, EmptySeq
    <3> QED
      BY <2>1, <3>2
  <2>4. /\ UNCHANGED <<link, requests, replies, lost, made, threw, answers>>
        /\ UNCHANGED notClient
    BY <1>1, <2>1 DEF network, server, notClient
  <2>5. sock \in {"open", "deleting", "deleted"}
    BY DEF IInv, TypeOK
  <2> QED
    BY <1>1, <2>3, <2>4, <2>5, ClientTypes, MessageTypes, Through
<1> QED
  BY <1>2, <1>3, <1>4

LEMMA ReceiveReplyStep ==
  ASSUME IInv, ReceiveReply
  PROVE  IInv'
<1> DEFINE m == Head(replies)
           w == Swap(m.xid)
           g == m.what = "result" /\ kind[m.call] = "misread"
<1>1. /\ sock = "open" /\ stack = << >> /\ replies # << >> /\ replies' = Tail(replies)
      /\ UNCHANGED <<xid_, sock, crashed, link, requests, made, threw, lost>>
      /\ UNCHANGED notClient /\ UNCHANGED held
  BY DEF ReceiveReply, server, notClient
<1>2. replies' \in Seq(Reply) /\ m \in Reply
  BY <1>1, MessageTypes
<1>3. sock' \in {"open", "deleting", "deleted"} /\ link' \in BOOLEAN /\ requests' \in Seq(Request)
      /\ crashed' \in BOOLEAN /\ xid_' \in Xid /\ made' \in 0..MaxCalls
      /\ threw' \subseteq 1..made' /\ lost' \subseteq 1..made'
  <2>1. sock \in {"open", "deleting", "deleted"}
    BY DEF IInv, TypeOK
  <2> QED
    BY <1>1, <2>1, MessageTypes, ClientTypes DEF issued
<1>4. CASE w \in DOMAIN calls_
  <2> DEFINE c == calls_[w]
             f == Waiting("reply", {c}, {}, g)
             a == [what |-> IF g THEN "garbage" ELSE m.what, of |-> m.call]
  <2>1. Erase(w) /\ stack' = << f >> /\ Answered(c, a)
    BY <1>4 DEF ReceiveReply
  <2>2. c \in Call /\ c \in Range(calls_)
    BY <1>4, ClientTypes DEF Range
  <2>3. f \in Frame /\ f.why = "reply" /\ f.call = {c} /\ f.left = {}
    <3>1. g \in BOOLEAN
      OBVIOUS
    <3> HIDE DEF g, c
    <3> QED
      BY <2>2, <3>1 DEF Waiting, Frame
  <2>4. a \in Answer
    <3>1. m.what \in {"result", "error"} /\ m.call \in Call
      BY <1>2 DEF Reply
    <3> HIDE DEF g, m
    <3> QED
      BY <3>1 DEF Answer, What
  <2>5. c \in issued /\ answers[c] = << >> /\ Len(answers[c]) = 0
    BY <2>2 DEF IInv, Unanswered, Waits
  <2>6. /\ answers' \in [Call -> Seq(Answer)] /\ Len(answers'[c]) = 1
        /\ \A b \in Call \ {c} : answers'[b] = answers[b]
    <3> HIDE DEF a, c
    <3>1. answers \in [Call -> Seq(Answer)]
      BY ClientTypes
    <3>2. /\ answers' \in [Call -> Seq(Answer)] /\ Len(answers'[c]) = Len(answers[c]) + 1
          /\ \A b \in Call \ {c} : answers'[b] = answers[b]
      BY <2>1, <2>2, <2>4, <3>1, AnswerType
    <3> QED
      BY <2>5, <3>2
  <2>7. /\ DOMAIN calls_' = DOMAIN calls_ \ {w}
        /\ \A v \in DOMAIN calls_' : calls_'[v] = calls_[v]
        /\ calls_' = [v \in DOMAIN calls_' |-> calls_'[v]]
    <3> HIDE DEF w
    <3> QED
      BY <2>1 DEF Erase
  <2>8. \A v \in DOMAIN calls_' : v \in DOMAIN calls_ /\ calls_[v] # c
    BY <1>4, <2>7 DEF IInv, OnePlace
  <2>9. Range(calls_)' \subseteq Range(calls_) \ {c} /\ DOMAIN calls_' \subseteq Xid
    BY <2>7, <2>8, ClientTypes DEF Range
  <2> HIDE DEF c, f, a, w, g, m
  <2>10. /\ stack' \in Seq(Frame) /\ Len(stack') = 1 /\ stack'[1] = f
         /\ \A k \in 1..Len(stack') : k = 1
    BY <2>1, <2>3
  <2>11. TypeOK'
    <3>1. Range(calls_)' \subseteq Call /\ Len(stack') <= 2
      BY <2>9, <2>10, ClientTypes
    <3> QED
      BY <1>1, <1>2, <1>3, <2>6, <2>9, <2>10, <3>1, ClientSideType
  <2>12. Shape'
    BY <1>1, <2>3, <2>7, <2>10 DEF IInv, Shape, Left
  <2>13. OnePlace'
    <3>1. \A v, u \in DOMAIN calls_' : calls_'[v] = calls_'[u] => v = u
      BY <2>7, <2>8 DEF IInv, OnePlace
    <3>2. \A k \in 1..Len(stack') : stack'[k].left = {}
      BY <2>3, <2>10
    <3> QED
      BY <3>1, <3>2 DEF OnePlace, Left
  <2>14. \A b : Waits(b)' => Waits(b) /\ b # c
    BY <2>3, <2>9, <2>10 DEF Waits, Left
  <2>15. Unanswered'
    <3>1. \A b \in Call : b > made => b # c
      BY <2>5, ClientTypes DEF issued
    <3> QED
      BY <1>1, <2>6, <2>14, <3>1 DEF IInv, Unanswered, issued
  <2>16. Answering'
    BY <2>3, <2>6, <2>10 DEF Answering
  <2>17. AnsweredOnce'
    <3> SUFFICES ASSUME NEW b \in Call
                 PROVE  Len(answers'[b]) <= IF b \in threw' THEN 2 ELSE 1
      BY DEF AnsweredOnce
    <3>1. CASE b = c
      <4>1. Len(answers'[b]) = 1
        BY <2>6, <3>1
      <4> QED
        BY <4>1
    <3>2. CASE b # c
      <4>1. Len(answers[b]) <= IF b \in threw THEN 2 ELSE 1
        BY DEF IInv, AnsweredOnce
      <4> QED
        BY <1>1, <2>6, <3>2, <4>1
    <3> QED
      BY <3>1, <3>2
  <2> QED
    BY <2>11, <2>12, <2>13, <2>15, <2>16, <2>17 DEF IInv
<1>5. CASE w \notin DOMAIN calls_
  <2>1. UNCHANGED <<calls_, stack, answers>>
    BY <1>5 DEF ReceiveReply
  <2>2. Range(calls_)' = Range(calls_)
    BY <2>1 DEF Range
  <2>3. TypeOK'
    BY <1>1, <1>2, <1>3, <2>1, <2>2, ClientTypes, ClientSideType
  <2>4. Shape' /\ OnePlace' /\ \A b : Waits(b)' => Waits(b)
    BY <1>1, <2>1, <2>2 DEF IInv, Shape, OnePlace, Waits, Left
  <2>5. \A k \in 1..Len(stack') : \E j \in 1..Len(stack) : stack'[k] = stack[j]
    BY <2>1
  <2> QED
    BY <1>1, <2>1, <2>3, <2>4, <2>5, QuietStep
<1> QED
  BY <1>4, <1>5

\* What send_call does to calls_.
LEMMA SendCallKeeps ==
  ASSUME NEW x, NEW c, SendCall(x, c)
  PROVE  /\ DOMAIN calls_' = DOMAIN calls_ \cup {Swap(x)}
         /\ calls_' = [v \in DOMAIN calls_' |-> calls_'[v]]
         /\ \A v \in DOMAIN calls_ : calls_'[v] = calls_[v]
         /\ Swap(x) \notin DOMAIN calls_ => calls_'[Swap(x)] = c
<1> DEFINE w == Swap(x)
<1>1. calls_' = [v \in DOMAIN calls_ \cup {w} |-> IF v \in DOMAIN calls_ THEN calls_[v] ELSE c]
  BY DEF SendCall
<1> HIDE DEF w
<1>2. /\ DOMAIN calls_' = DOMAIN calls_ \cup {w}
      /\ calls_' = [v \in DOMAIN calls_' |-> calls_'[v]]
      /\ \A v \in DOMAIN calls_ : calls_'[v] = calls_[v]
      /\ w \notin DOMAIN calls_ => calls_'[w] = c
  BY <1>1
<1> QED
  BY <1>2 DEF w

LEMMA InvokeStep ==
  ASSUME IInv, Invoke
  PROVE  IInv'
<1> DEFINE x == xid_'
           c == made'
           w == Swap(x)
<1>1. /\ made < MaxCalls /\ made' = made + 1 /\ x = get_xid /\ SendCall(x, c)
      /\ requests' = IF link THEN Append(requests, [xid |-> x, call |-> c]) ELSE requests
      /\ UNCHANGED <<sock, stack, crashed, link, replies, answers, threw, lost>>
      /\ UNCHANGED held /\ UNCHANGED notClient
  BY DEF Invoke, server, notClient
<1>2. /\ MaxCalls \in Nat /\ made \in 0..MaxCalls /\ c \in 1..MaxCalls /\ c \in Call
      /\ c = made + 1 /\ c \notin issued /\ issued \subseteq issued' /\ c \in issued'
  BY <1>1, ClientTypes, RpcAssumption DEF issued, Call
<1>3. x \in Xid /\ w \in Xid
  BY <1>1, GetXid, SwapType, ClientTypes
<1>4. c \notin Range(calls_) /\ answers[c] = << >> /\ ~Waits(c)
  BY <1>2 DEF IInv, Unanswered, Waits
<1>5. /\ DOMAIN calls_' \subseteq DOMAIN calls_ \cup {w}
      /\ \A v \in DOMAIN calls_' : \/ v \in DOMAIN calls_ /\ calls_'[v] = calls_[v]
                                   \/ v = w /\ calls_'[v] = c
      /\ calls_' = [v \in DOMAIN calls_' |-> calls_'[v]]
  <2> HIDE DEF x, c
  <2> QED
    BY <1>1, SendCallKeeps
<1> HIDE DEF x, c, w
<1>6. Range(calls_)' \subseteq Range(calls_) \cup {c} /\ DOMAIN calls_' \subseteq Xid
  BY <1>3, <1>5, ClientTypes DEF Range
<1>7. requests' \in Seq(Request)
  <2>1. [xid |-> x, call |-> c] \in Request
    BY <1>2, <1>3 DEF Request
  <2> QED
    BY <1>1, <2>1, MessageTypes
<1>8. TypeOK'
  <2>1. Range(calls_)' \subseteq Call
    BY <1>2, <1>6, ClientTypes
  <2>2. xid_' \in Xid /\ made' \in 0..MaxCalls
    BY <1>2, <1>3 DEF x, c
  <2>3. threw' \subseteq 1..made' /\ lost' \subseteq 1..made'
    BY <1>1, <1>2, ClientTypes DEF issued
  <2>4. sock' \in {"open", "deleting", "deleted"}
    BY <1>1 DEF IInv, TypeOK
  <2> QED
    BY <1>1, <1>6, <1>7, <2>1, <2>2, <2>3, <2>4, ClientTypes, MessageTypes, ClientSideType
<1>9. Shape'
  BY <1>1, <1>5 DEF IInv, Shape, Left
<1>10. OnePlace'
  <2>1. \A v, u \in DOMAIN calls_' : calls_'[v] = calls_'[u] => v = u
    <3>1. \A v \in DOMAIN calls_ : calls_[v] # c
      BY <1>4 DEF Range
    <3> QED
      BY <1>5, <3>1 DEF IInv, OnePlace
  <2>2. \A k \in 1..Len(stack) : c \notin stack[k].left
    BY <1>4 DEF Waits, Left
  <2> QED
    BY <1>1, <1>6, <2>1, <2>2 DEF IInv, OnePlace, Left
<1>11. \A b : Waits(b)' => Waits(b) \/ b = c
  BY <1>1, <1>6 DEF Waits, Left
<1>12. Unanswered'
  <2>1. \A b \in Call : b > made' => b > made
    BY <1>2 DEF Call, c
  <2> QED
    BY <1>1, <1>2, <1>4, <1>11, <2>1 DEF IInv, Unanswered
<1>13. Answering' /\ AnsweredOnce'
  BY <1>1 DEF IInv, Answering, AnsweredOnce
<1> QED
  BY <1>8, <1>9, <1>10, <1>12, <1>13 DEF IInv

----------------------------------------------------------------------------
(***************************************************************************)
(* The invariant.                                                          *)
(***************************************************************************)
LEMMA InitIInv ==
  ASSUME Init
  PROVE  IInv
<1>1. /\ xid_ = 0 /\ calls_ = NoCalls /\ sock = "open" /\ stack = << >> /\ crashed = FALSE
      /\ link = TRUE /\ requests = << >> /\ replies = << >> /\ conn = TRUE /\ held = {}
      /\ kind \in Kinds /\ made = 0 /\ executed = << >> /\ answers = [c \in Call |-> << >>]
      /\ threw = {} /\ lost = {}
  BY DEF Init
<1>2. /\ DOMAIN calls_ = {} /\ Range(calls_) = {} /\ calls_ = [v \in DOMAIN calls_ |-> calls_[v]]
  BY <1>1 DEF NoCalls, Range
<1>3. Len(stack) = 0 /\ 1..Len(stack) = {}
  BY <1>1
<1>4. TypeOK
  <2>1. xid_ \in Xid /\ made \in 0..MaxCalls
    <3>1. Byte * Byte > 0 /\ Byte * Byte \in Nat
      BY RpcAssumption
    <3> QED
      BY <1>1, <3>1, RpcAssumption DEF Xid
  <2>2. stack \in Seq(Frame) /\ Len(stack) <= 2
    BY <1>1, <1>3
  <2>3. {crashed, link, conn} \subseteq BOOLEAN
    BY <1>1
  <2>4. answers \in [Call -> Seq([what : What, of : Call])]
    BY <1>1
  <2>5. requests \in Seq(Request) /\ replies \in Seq(Reply) /\ executed \in Seq(Call)
    BY <1>1
  <2> QED
    BY <1>1, <1>2, <2>1, <2>2, <2>3, <2>4, <2>5 DEF TypeOK
<1>5. Shape
  BY <1>1, <1>2, <1>3, FS_EmptySet DEF Shape
<1>6. OnePlace /\ Answering
  BY <1>2, <1>3 DEF OnePlace, Answering
<1>7. Unanswered
  BY <1>1, <1>2, <1>3 DEF Unanswered, Waits
<1>8. AnsweredOnce
  BY <1>1 DEF AnsweredOnce
<1> QED
  BY <1>4, <1>5, <1>6, <1>7, <1>8 DEF IInv

LEMMA NextIInv ==
  ASSUME IInv, [Next]_vars
  PROVE  IInv'
<1>1. CASE Program
  BY <1>1, InvokeStep, DeleteStep, CallbackThrowsStep DEF Program
<1>2. CASE Client
  BY <1>2, ReceiveReplyStep, ConnectionEndsStep, AbortNextStep, DeleteDoneStep, EndDoneStep,
     CallbackReturnsStep DEF Client
<1>3. CASE Server
  BY <1>3, IgnoreCallStep, RefuseCallStep, ServerEndStep, ServeCallStep DEF Server
<1>4. CASE Break
  BY <1>4, BreakStep
<1>5. CASE \E r \in held : LateReply(r)
  BY <1>5, LateReplyStep
<1>6. CASE UNCHANGED vars
  <2>1. /\ UNCHANGED <<client, kind, made, answers, threw, lost>>
        /\ UNCHANGED <<requests, replies, held, executed, link, conn>>
    BY <1>6, Zenon DEF vars, network, server, history
  <2> QED
    BY <2>1, MessageTypes, ServerSideStep
<1> QED
  BY <1>1, <1>2, <1>3, <1>4, <1>5, <1>6 DEF Next

\* A callback of the client is called once, and again only if it threw: a reply takes
\* its call out of calls_, abort_all_calls those that are left, and neither finds one
\* that the other had.
THEOREM OneAnswer == Spec => []AnsweredOnce
<1>1. Init => IInv
  BY InitIInv
<1>2. IInv /\ [Next]_vars => IInv'
  BY NextIInv
<1>3. IInv => AnsweredOnce
  BY DEF IInv
<1> QED
  BY <1>1, <1>2, <1>3, PTL DEF Spec

----------------------------------------------------------------------------
(***************************************************************************)
(* Until xids come round.                                                  *)
(***************************************************************************)
LEMMA Digits ==
  ASSUME NEW B \in Nat, NEW r \in 0..B - 1, NEW q \in 0..B - 1,
         NEW s \in 0..B - 1, NEW p \in 0..B - 1, r * B + q = s * B + p
  PROVE  r = s /\ q = p
<1>1. ASSUME NEW i \in 0..B - 1, NEW j \in 0..B - 1, NEW m \in 0..B - 1, NEW n \in 0..B - 1,
             i < j, i * B + m = j * B + n
      PROVE  FALSE
  <2>1. (i + 1) * B <= j * B /\ (i + 1) * B = i * B + B
    BY <1>1
  <2> QED
    BY <1>1, <2>1
<1>2. ~(r < s) /\ ~(s < r)
  BY <1>1
<1> QED
  BY <1>2

LEMMA SwapInjective ==
  ASSUME NEW x \in Xid, NEW y \in Xid, Swap(x) = Swap(y)
  PROVE  x = y
<1> DEFINE q == x \div Byte
           r == x % Byte
           p == y \div Byte
           s == y % Byte
<1>1. /\ q \in 0..Byte - 1 /\ r \in 0..Byte - 1 /\ x = Byte * q + r
      /\ p \in 0..Byte - 1 /\ s \in 0..Byte - 1 /\ y = Byte * p + s
  BY Bytes
<1>2. r * Byte + q = s * Byte + p
  BY DEF Swap
<1> HIDE DEF q, r, p, s
<1>3. r = s /\ q = p
  BY <1>1, <1>2, Digits, RpcAssumption
<1> QED
  BY <1>1, <1>3

LEMMA KeptIsWaits ==
  ASSUME IInv, JInv
  PROVE  NoneForgotten
<1>1. DOMAIN stack = 1..Len(stack)
  BY ClientTypes
<1>2. \A c : Kept(c) = IF Waits(c) THEN 1 ELSE 0
  BY <1>1 DEF Kept, Waits, Left
<1>3. ASSUME NEW c \in issued
      PROVE  Kept(c) + (IF answers[c] # << >> THEN 1 ELSE 0) + (IF c \in lost THEN 1 ELSE 0) = 1
  <2>1. c \in Call
    BY <1>3, ClientTypes, RpcAssumption DEF issued, Call
  <2>2. Waits(c) => answers[c] = << >>
    BY <2>1 DEF IInv, Unanswered
  <2>3. c \in lost => ~Waits(c) /\ answers[c] = << >>
    BY DEF JInv, Somewhere
  <2>4. Waits(c) \/ answers[c] # << >> \/ c \in lost
    BY <1>3 DEF JInv, Somewhere
  <2> QED
    BY <1>2, <2>2, <2>3, <2>4
<1> QED
  BY <1>3 DEF NoneForgotten, IInv

\* What waits goes on waiting.
LEMMA SameWait ==
  ASSUME IInv, JInv, UNCHANGED <<xid_, made, answers, lost>>,
         DOMAIN calls_' \subseteq DOMAIN calls_,
         \A c : Waits(c)' <=> Waits(c)
  PROVE  JInv'
<1>1. Behind'
  BY DEF JInv, Behind
<1>2. Somewhere'
  BY DEF JInv, Somewhere, issued
<1> QED
  BY <1>1, <1>2 DEF JInv

\* One call is answered.
LEMMA OneAnswered ==
  ASSUME IInv, JInv, UNCHANGED <<xid_, made, lost>>,
         DOMAIN calls_' \subseteq DOMAIN calls_,
         NEW c \in Call, Waits(c) \/ answers[c] # << >>, ~Waits(c)', answers'[c] # << >>,
         \A b \in Call \ {c} : answers'[b] = answers[b] /\ (Waits(b)' <=> Waits(b))
  PROVE  JInv'
<1>1. Behind'
  BY DEF JInv, Behind
<1>2. issued' = issued /\ issued \subseteq Call
  BY ClientTypes, RpcAssumption DEF issued, Call
<1>3. c \notin lost
  BY DEF JInv, Somewhere
<1>4. Somewhere'
  <2>1. \A b \in issued' : Waits(b)' \/ answers'[b] # << >> \/ b \in lost'
    BY <1>2 DEF JInv, Somewhere
  <2>2. \A b \in lost' : b \in issued' /\ ~Waits(b)' /\ answers'[b] = << >>
    BY <1>2, <1>3, ClientTypes DEF JInv, Somewhere
  <2> QED
    BY <2>1, <2>2 DEF Somewhere
<1> QED
  BY <1>1, <1>4 DEF JInv

LEMMA InvokeWaits ==
  ASSUME IInv, JInv, Invoke, xid_' > xid_
  PROVE  JInv'
<1> DEFINE x == xid_'
           c == made'
           w == Swap(x)
<1>1. /\ made < MaxCalls /\ made' = made + 1 /\ x = get_xid /\ SendCall(x, c)
      /\ UNCHANGED <<stack, answers, lost>>
  BY DEF Invoke
<1>2. /\ made \in 0..MaxCalls /\ MaxCalls \in Nat /\ c = made + 1 /\ c \notin issued
      /\ c \in Call /\ issued' = issued \cup {c}
  BY <1>1, ClientTypes, RpcAssumption DEF issued, Call
<1>3. x \in Xid /\ xid_ \in Xid /\ xid_ < x
  BY <1>1, GetXid, ClientTypes
<1>4. Xid \subseteq Nat /\ \A y \in 0..xid_ : y \in Xid /\ y # x
  BY <1>3, RpcAssumption DEF Xid
<1>5. w \notin DOMAIN calls_
  <2> SUFFICES ASSUME w \in DOMAIN calls_  PROVE FALSE
    OBVIOUS
  <2>1. PICK y \in 0..xid_ : w = Swap(y)
    BY DEF JInv, Behind
  <2>2. y \in Xid /\ y # x
    BY <1>4
  <2> QED
    BY <1>3, <2>1, <2>2, SwapInjective
<1>6. /\ DOMAIN calls_' = DOMAIN calls_ \cup {w} /\ calls_'[w] = c
      /\ \A v \in DOMAIN calls_ : calls_'[v] = calls_[v]
  BY <1>1, <1>5, SendCallKeeps
<1> HIDE DEF w, c
<1>7. Behind'
  <2>1. ASSUME NEW v \in DOMAIN calls_'
        PROVE  \E y \in 0..x : v = Swap(y)
    <3>1. CASE v = w
      <4>1. x \in 0..x
        BY <1>3, <1>4
      <4> QED
        BY <3>1, <4>1 DEF w
    <3>2. CASE v \in DOMAIN calls_
      <4>1. PICK y \in 0..xid_ : v = Swap(y)
        BY <3>2 DEF JInv, Behind
      <4>2. y \in 0..x
        BY <1>3, <1>4
      <4> QED
        BY <4>1, <4>2
    <3> QED
      BY <1>6, <3>1, <3>2
  <2> QED
    BY <2>1 DEF Behind
<1>8. Range(calls_)' = Range(calls_) \cup {c}
  BY <1>5, <1>6 DEF Range
<1>9. \A b : Waits(b)' <=> Waits(b) \/ b = c
  BY <1>1, <1>8 DEF Waits, Left
<1>10. Somewhere'
  <2>1. \A b \in issued' : Waits(b)' \/ answers'[b] # << >> \/ b \in lost'
    BY <1>1, <1>2, <1>9 DEF JInv, Somewhere
  <2>2. \A b \in lost' : b \in issued' /\ ~Waits(b)' /\ answers'[b] = << >>
    BY <1>1, <1>2, <1>9 DEF JInv, Somewhere
  <2> QED
    BY <2>1, <2>2 DEF Somewhere
<1> QED
  BY <1>7, <1>10 DEF JInv

\* The top of the stack gives up some of the calls left, or none.
LEMMA ReplaceWaits ==
  ASSUME IInv, stack # << >>, NEW f \in Frame, Replace(f), UNCHANGED calls_,
         f.left \subseteq top.left
  PROVE  \A c : Waits(c)' <=> Waits(c) /\ (c \in f.left \/ c \notin top.left)
<1>1. Replaced(stack', stack, f)
  BY ClientTypes, ReplaceStack
<1>2. /\ Len(stack') = Len(stack) /\ stack'[1] = f /\ top = stack[1] /\ 1 \in 1..Len(stack)
      /\ \A k \in 2..Len(stack) : stack'[k] = stack[k]
  BY <1>1, TopOfStack DEF Replaced
<1>3. Range(calls_)' = Range(calls_)
  BY DEF Range
<1> SUFFICES ASSUME NEW c
             PROVE  Waits(c)' <=> Waits(c) /\ (c \in f.left \/ c \notin top.left)
  OBVIOUS
<1>4. \A k \in 1..Len(stack) : k = 1 \/ (k \in 2..Len(stack) /\ k # 1)
  BY ClientTypes
<1>5. \A k \in 2..Len(stack) : k \in 1..Len(stack)
  OBVIOUS
<1>6. ASSUME Waits(c)'  PROVE Waits(c) /\ (c \in f.left \/ c \notin top.left)
  <2>1. CASE c \in Range(calls_)
    <3>1. c \notin top.left
      BY <1>2, <2>1 DEF IInv, OnePlace, Left
    <3> QED
      BY <2>1, <3>1 DEF Waits
  <2>2. CASE \E k \in 1..Len(stack) : c \in stack'[k].left
    <3>1. PICK k \in 1..Len(stack) : c \in stack'[k].left
      BY <2>2
    <3>2. CASE k = 1
      BY <1>2, <3>1, <3>2 DEF Waits, Left
    <3>3. CASE k \in 2..Len(stack) /\ k # 1
      <4>1. c \in stack[k].left /\ stack[k].left \cap stack[1].left = {}
        BY <1>2, <3>1, <3>3 DEF IInv, OnePlace, Left
      <4> QED
        BY <1>2, <4>1 DEF Waits, Left
    <3> QED
      BY <1>4, <3>2, <3>3
  <2> QED
    BY <1>2, <1>3, <1>6, <2>1, <2>2 DEF Waits, Left
<1>7. ASSUME Waits(c), c \in f.left \/ c \notin top.left  PROVE Waits(c)'
  <2>1. CASE c \in Range(calls_)
    BY <1>3, <2>1 DEF Waits
  <2>2. CASE c \in f.left
    BY <1>2, <2>2 DEF Waits, Left
  <2>3. CASE c \notin f.left /\ c \notin Range(calls_)
    <3>1. PICK k \in 1..Len(stack) : c \in stack[k].left
      BY <1>7, <2>3 DEF Waits, Left
    <3>2. k \in 2..Len(stack)
      BY <1>2, <1>4, <1>7, <2>3, <3>1
    <3> QED
      BY <1>2, <3>1, <3>2 DEF Waits, Left
  <2> QED
    BY <2>1, <2>2, <2>3
<1> QED
  BY <1>6, <1>7

LEMMA PopLeft ==
  ASSUME IInv, stack # << >>, stack' = Tail(stack), top.left = {}
  PROVE  \A c : (\E k \in 1..Len(stack') : c \in stack'[k].left)
                  <=> \E k \in 1..Len(stack) : c \in stack[k].left
<1>1. Popped(stack', stack)
  BY ClientTypes, PopStack
<1>2. /\ Len(stack') = Len(stack) - 1 /\ Len(stack) \in Nat /\ top = stack[1]
      /\ \A k \in 1..Len(stack') : stack'[k] = stack[k + 1]
  BY <1>1, ClientTypes, TopOfStack DEF Popped
<1> SUFFICES ASSUME NEW c
             PROVE  (\E k \in 1..Len(stack') : c \in stack'[k].left)
                      <=> \E k \in 1..Len(stack) : c \in stack[k].left
  OBVIOUS
<1>3. ASSUME NEW k \in 1..Len(stack'), c \in stack'[k].left
      PROVE  \E j \in 1..Len(stack) : c \in stack[j].left
  <2>1. k + 1 \in 1..Len(stack) /\ c \in stack[k + 1].left
    BY <1>2, <1>3
  <2> QED
    BY <2>1
<1>4. ASSUME NEW k \in 1..Len(stack), c \in stack[k].left
      PROVE  \E j \in 1..Len(stack') : c \in stack'[j].left
  <2>1. k # 1
    BY <1>2, <1>4
  <2>2. k - 1 \in 1..Len(stack') /\ (k - 1) + 1 = k
    BY <1>2, <2>1
  <2>3. c \in stack'[k - 1].left
    BY <1>2, <1>4, <2>2
  <2> QED
    BY <2>2, <2>3
<1> QED
  BY <1>3, <1>4

LEMMA AbortWaits ==
  ASSUME IInv, JInv, NEW why \in {"end", "delete"}, AbortAllCalls(why, stack),
         UNCHANGED xid_, UNCHANGED history
  PROVE  JInv'
<1>1. UNCHANGED <<made, answers, lost>>
  BY DEF history
<1> DEFINE f == Waiting(why, {}, Range(calls_), FALSE)
<1>2. f \in Frame /\ f.left = Range(calls_)
  BY ClientTypes DEF Waiting, Frame
<1>3. stack' = << f >> \o stack /\ calls_' = NoCalls
  BY DEF AbortAllCalls
<1> HIDE DEF f
<1>4. /\ Len(stack') = Len(stack) + 1 /\ stack'[1] = f /\ Len(stack) \in Nat
      /\ \A k \in 1..Len(stack) : stack'[k + 1] = stack[k]
  BY <1>2, <1>3, PushStack, ClientTypes DEF Pushed
<1>5. DOMAIN calls_' = {} /\ Range(calls_)' = {}
  BY <1>3 DEF NoCalls, Range
<1>6. ASSUME NEW c  PROVE Waits(c)' <=> Waits(c)
  <2>1. ASSUME Waits(c)'  PROVE Waits(c)
    <3>1. PICK k \in 1..Len(stack') : c \in stack'[k].left
      BY <1>5, <2>1 DEF Waits, Left
    <3>2. CASE k = 1
      BY <1>2, <1>4, <3>1, <3>2 DEF Waits
    <3>3. CASE k # 1
      <4>1. k - 1 \in 1..Len(stack) /\ (k - 1) + 1 = k
        BY <1>4, <3>3
      <4>2. c \in stack[k - 1].left
        BY <1>4, <3>1, <4>1
      <4> QED
        BY <4>1, <4>2 DEF Waits, Left
    <3> QED
      BY <3>2, <3>3
  <2>2. CASE c \in Range(calls_)
    <3>1. 1 \in 1..Len(stack')
      BY <1>4
    <3> QED
      BY <1>2, <1>4, <2>2, <3>1 DEF Waits, Left
  <2>3. ASSUME NEW k \in 1..Len(stack), c \in stack[k].left  PROVE Waits(c)'
    <3>1. k + 1 \in 1..Len(stack') /\ c \in stack'[k + 1].left
      BY <1>4, <2>3
    <3> QED
      BY <3>1 DEF Waits, Left
  <2> QED
    BY <2>1, <2>2, <2>3 DEF Waits, Left
<1> QED
  BY <1>1, <1>5, <1>6, SameWait

LEMMA AbortNextWaits ==
  ASSUME IInv, JInv, AbortNext
  PROVE  JInv'
<1>1. stack # << >> /\ UNCHANGED <<xid_, calls_, made, lost>>
  BY DEF AbortNext, Aborting
<1>2. PICK c \in top.left : /\ Replace(Waiting(top.why, {c}, top.left \ {c}, FALSE))
                            /\ Answered(c, [what |-> "network", of |-> c])
  BY DEF AbortNext
<1> DEFINE f == Waiting(top.why, {c}, top.left \ {c}, FALSE)
<1>3. c \in Call /\ Waits(c) /\ f \in Frame /\ f.left = top.left \ {c} /\ Replace(f)
  <2>1. top.left \in SUBSET Call /\ top.why \in {"reply", "end", "delete", "servcb"} /\ Waits(c)
    BY <1>1, <1>2, TopOfStack
  <2>2. {c} \in SUBSET Call /\ top.left \ {c} \in SUBSET Call /\ c \in Call
    BY <1>2, <2>1
  <2> QED
    BY <1>2, <2>1, <2>2 DEF Waiting, Frame
<1> HIDE DEF f
<1>4. \A b : Waits(b)' <=> Waits(b) /\ b # c
  <2>1. f.left \subseteq top.left
    BY <1>3
  <2>2. \A b : Waits(b)' <=> Waits(b) /\ (b \in f.left \/ b \notin top.left)
    BY <1>1, <1>3, <2>1, ReplaceWaits
  <2> QED
    BY <1>2, <1>3, <2>2
<1>5. answers'[c] # << >> /\ \A b \in Call \ {c} : answers'[b] = answers[b]
  <2>1. [what |-> "network", of |-> c] \in Answer
    BY <1>3 DEF Answer, What
  <2> QED
    BY <1>2, <1>3, <2>1, ClientTypes, AnswerType
<1>6. ~Waits(c)' /\ \A b \in Call \ {c} : Waits(b)' <=> Waits(b)
  BY <1>4
<1> QED
  BY <1>1, <1>3, <1>5, <1>6, OneAnswered

LEMMA ReceiveReplyWaits ==
  ASSUME IInv, JInv, ReceiveReply
  PROVE  JInv'
<1> DEFINE m == Head(replies)
           w == Swap(m.xid)
           g == m.what = "result" /\ kind[m.call] = "misread"
<1>1. stack = << >> /\ replies # << >> /\ UNCHANGED <<xid_, made, lost>>
  BY DEF ReceiveReply
<1>2. CASE w \in DOMAIN calls_
  <2> PICK c : c = calls_[w]
    OBVIOUS
  <2> DEFINE f == Waiting("reply", {c}, {}, g)
             a == [what |-> IF g THEN "garbage" ELSE m.what, of |-> m.call]
  <2>1. Erase(w) /\ stack' = << f >> /\ Answered(c, a)
    BY <1>2 DEF ReceiveReply
  <2>2. f.left = {} /\ a \in Answer
    <3>1. m \in Reply
      BY <1>1, MessageTypes
    <3>2. m.what \in {"result", "error"} /\ m.call \in Call
      BY <3>1 DEF Reply
    <3> HIDE DEF g, m
    <3> QED
      BY <3>2 DEF Answer, What, Waiting
  <2>3. /\ DOMAIN calls_' = DOMAIN calls_ \ {w}
        /\ \A v \in DOMAIN calls_' : calls_'[v] = calls_[v]
    <3> HIDE DEF w
    <3> QED
      BY <2>1 DEF Erase
  <2>4. c \in Call /\ c \in Range(calls_) /\ Waits(c)
    BY <1>2, ClientTypes DEF Range, Waits
  <2>5. \A v \in DOMAIN calls_ : v # w => calls_[v] # c
    BY <1>2 DEF IInv, OnePlace
  <2>6. Range(calls_)' = Range(calls_) \ {c}
    BY <2>3, <2>5 DEF Range
  <2> HIDE DEF f, a, w, m, g
  <2>7. \A b : Waits(b)' <=> Waits(b) /\ b # c
    <3>1. Len(stack) = 0 /\ Len(stack') = 1 /\ stack'[1] = f
      BY <1>1, <2>1
    <3> QED
      BY <2>2, <2>6, <3>1 DEF Waits, Left
  <2>8. answers'[c] # << >> /\ \A b \in Call \ {c} : answers'[b] = answers[b]
    BY <2>1, <2>2, <2>4, ClientTypes, AnswerType
  <2>9. ~Waits(c)' /\ \A b \in Call \ {c} : Waits(b)' <=> Waits(b)
    BY <2>7
  <2>10. DOMAIN calls_' \subseteq DOMAIN calls_
    BY <2>3
  <2> QED
    BY <1>1, <2>4, <2>8, <2>9, <2>10, OneAnswered
<1>3. CASE w \notin DOMAIN calls_
  <2>1. UNCHANGED <<calls_, stack, answers>>
    BY <1>3 DEF ReceiveReply
  <2>2. \A c : Waits(c)' <=> Waits(c)
    BY <2>1 DEF Waits, Left, Range
  <2> QED
    BY <1>1, <2>1, <2>2, SameWait
<1> QED
  BY <1>2, <1>3

\* The top of the stack keeps the calls left.
LEMMA KeepsWaits ==
  ASSUME IInv, JInv, stack # << >>, NEW f \in Frame, Replace(f), f.left = top.left,
         UNCHANGED <<xid_, calls_, made, answers, lost>>
  PROVE  JInv'
<1>1. \A c : Waits(c)' <=> Waits(c)
  BY ReplaceWaits
<1> QED
  BY <1>1, SameWait

LEMMA PopWaits ==
  ASSUME IInv, JInv, stack # << >>, stack' = Tail(stack), top.left = {},
         UNCHANGED <<xid_, calls_, made, answers, lost>>
  PROVE  JInv'
<1>1. \A c : Waits(c)' <=> Waits(c)
  BY PopLeft DEF Waits, Left, Range
<1> QED
  BY <1>1, SameWait

LEMMA CallbackReturnsWaits ==
  ASSUME IInv, JInv, CallbackReturns
  PROVE  JInv'
<1>1. stack # << >> /\ UNCHANGED <<xid_, calls_, made, answers, lost>>
  BY DEF CallbackReturns, Called, history
<1>2. CASE top.why \in {"end", "delete"}
  <2> DEFINE f == Waiting(top.why, {}, top.left, FALSE)
  <2>1. f \in Frame /\ f.left = top.left
    BY <1>1, TopOfStack DEF Waiting, Frame
  <2>2. Replace(f)
    BY <1>2 DEF CallbackReturns
  <2> HIDE DEF f
  <2> QED
    BY <1>1, <2>1, <2>2, KeepsWaits
<1>3. CASE top.why \notin {"end", "delete"}
  <2>1. stack' = Tail(stack) /\ top.left = {}
    BY <1>1, <1>3, TopOfStack DEF CallbackReturns
  <2> QED
    BY <1>1, <2>1, PopWaits
<1> QED
  BY <1>2, <1>3

LEMMA EndDoneWaits ==
  ASSUME IInv, JInv, EndDone
  PROVE  JInv'
<1>1. /\ stack # << >> /\ top.left = {}
      /\ UNCHANGED <<xid_, calls_, made, answers, lost>>
  BY DEF EndDone, Aborting, history
<1>2. CASE Replace(Waiting("servcb", {}, {}, FALSE))
  <2> DEFINE f == Waiting("servcb", {}, {}, FALSE)
  <2>1. f \in Frame /\ f.left = {} /\ Replace(f)
    BY <1>2 DEF Waiting, Frame
  <2> HIDE DEF f
  <2> QED
    BY <1>1, <2>1, KeepsWaits
<1>3. CASE UNCHANGED stack
  <2>1. \A c : Waits(c)' <=> Waits(c)
    BY <1>1, <1>3 DEF Waits, Left, Range
  <2> QED
    BY <1>1, <2>1, SameWait
<1> QED
  BY <1>2, <1>3 DEF EndDone

\* What is left in calls_ is lost.
LEMMA DeleteDoneWaits ==
  ASSUME IInv, JInv, DeleteDone
  PROVE  JInv'
<1>1. /\ stack # << >> /\ top.left = {} /\ stack' = Tail(stack) /\ calls_' = NoCalls
      /\ lost' = lost \cup Range(calls_) /\ UNCHANGED <<xid_, made, answers>>
  BY DEF DeleteDone, Aborting
<1>2. DOMAIN calls_' = {} /\ Range(calls_)' = {}
  BY <1>1 DEF NoCalls, Range
<1>3. \A c : Waits(c)' <=> \E k \in 1..Len(stack) : c \in Left(k)
  BY <1>1, <1>2, PopLeft DEF Waits, Left
<1>4. \A c \in Range(calls_) : /\ c \in issued /\ answers[c] = << >>
                               /\ \A k \in 1..Len(stack) : c \notin Left(k)
  BY ClientTypes DEF IInv, Unanswered, Waits, OnePlace
<1>5. Somewhere'
  <2>1. \A c \in issued' : Waits(c)' \/ answers'[c] # << >> \/ c \in lost'
    BY <1>1, <1>3 DEF JInv, Somewhere, Waits, issued
  <2>2. \A c \in lost' : c \in issued' /\ ~Waits(c)' /\ answers'[c] = << >>
    BY <1>1, <1>3, <1>4 DEF JInv, Somewhere, Waits, issued
  <2> QED
    BY <2>1, <2>2 DEF Somewhere
<1> QED
  BY <1>2, <1>5 DEF JInv, Behind

LEMMA CallbackThrowsWaits ==
  ASSUME IInv, JInv, CallbackThrows
  PROVE  JInv'
<1>1. stack # << >> /\ UNCHANGED <<xid_, calls_, made, lost>>
  BY DEF CallbackThrows, Called
<1>2. CASE top.why \in {"end", "delete"}
  <2> DEFINE f == Waiting(top.why, {}, top.left, FALSE)
  <2>1. f \in Frame /\ f.left = top.left
    BY <1>1, TopOfStack DEF Waiting, Frame
  <2>2. Replace(f) /\ UNCHANGED answers
    BY <1>2 DEF CallbackThrows
  <2> HIDE DEF f
  <2> QED
    BY <1>1, <2>1, <2>2, KeepsWaits
<1>3. CASE top.why = "reply" /\ ~top.again
  <2> DEFINE f == Waiting("reply", top.call, {}, TRUE)
  <2>1. PICK c \in top.call : Answered(c, [what |-> "garbage", of |-> c])
    BY <1>3 DEF CallbackThrows
  <2>2. f \in Frame /\ f.left = {} /\ top.left = {}
    BY <1>1, <1>3, TopOfStack DEF Waiting, Frame
  <2>3. Replace(f)
    BY <1>3 DEF CallbackThrows
  <2> HIDE DEF f
  <2>4. \A b : Waits(b)' <=> Waits(b)
    BY <1>1, <2>2, <2>3, ReplaceWaits
  <2>5. c \in Call /\ Len(answers[c]) = 1 /\ answers[c] # << >>
    BY <1>1, <1>3, TopOfStack DEF IInv, Answering
  <2>6. ~Waits(c)
    BY <2>5 DEF IInv, Unanswered
  <2>7. answers'[c] # << >> /\ \A b \in Call \ {c} : answers'[b] = answers[b]
    <3>1. [what |-> "garbage", of |-> c] \in Answer
      BY <2>5 DEF Answer, What
    <3> QED
      BY <2>1, <2>5, <3>1, ClientTypes, AnswerType
  <2> QED
    BY <1>1, <2>4, <2>5, <2>6, <2>7, OneAnswered
<1>4. CASE top.why \notin {"end", "delete"} /\ ~(top.why = "reply" /\ ~top.again)
  <2>1. stack' = << >> /\ UNCHANGED answers
    BY <1>4 DEF CallbackThrows
  <2>2. Len(stack) = 1 /\ top.left = {}
    BY <1>1, <1>4, TopOfStack
  <2>3. stack' = Tail(stack)
    <3>1. Tail(stack) \in Seq(Frame) /\ Len(Tail(stack)) = 0
      BY <1>1, <2>2, ClientTypes, HeadTailProperties
    <3>2. Tail(stack) = << >>
      BY <3>1, EmptySeq
    <3> QED
      BY <2>1, <3>2
  <2> QED
    BY <1>1, <2>1, <2>2, <2>3, PopWaits
<1> QED
  BY <1>2, <1>3, <1>4

LEMMA NextJInv ==
  ASSUME IInv, JInv, [Next]_vars, [made' # made => xid_' > xid_]_vars
  PROVE  JInv'
<1>1. CASE Program
  <2>1. CASE Invoke
    <3>1. made' # made
      BY <2>1, ClientTypes, RpcAssumption DEF Invoke
    <3>2. xid_' > xid_
      BY <3>1, Zenon DEF vars, history
    <3> QED
      BY <2>1, <3>2, InvokeWaits
  <2>2. CASE Delete
    BY <2>2, AbortWaits DEF Delete
  <2> QED
    BY <1>1, <2>1, <2>2, CallbackThrowsWaits DEF Program
<1>2. CASE Client
  <2>1. CASE ConnectionEnds
    <3>1. stack = << >> /\ AbortAllCalls("end", stack) /\ UNCHANGED xid_ /\ UNCHANGED history
      BY <2>1 DEF ConnectionEnds
    <3> QED
      BY <3>1, AbortWaits
  <2> QED
    BY <1>2, <2>1, ReceiveReplyWaits, AbortNextWaits, DeleteDoneWaits, EndDoneWaits,
       CallbackReturnsWaits DEF Client
<1>3. CASE Server \/ Break \/ (\E r \in held : LateReply(r)) \/ UNCHANGED vars
  <2>1. UNCHANGED <<xid_, calls_, stack, made, answers, lost>>
    BY <1>3, Zenon DEF Server, IgnoreCall, RefuseCall, ServerEnd, ServeCall, Break, LateReply,
                       vars, client, history
  <2>2. \A c : Waits(c)' <=> Waits(c)
    BY <2>1 DEF Waits, Left, Range
  <2> QED
    BY <2>1, <2>2, SameWait
<1> QED
  BY <1>1, <1>2, <1>3 DEF Next

\* No call is forgotten as long as xid_ only grows: its xid is not that of a call that
\* waits, so send_call finds its place in calls_ free.  (Once it comes round, get_xid
\* can hand out an xid in use, because it looks for it in the order of the host.)
THEOREM CallsKept == (Spec /\ NoWrap) => []NoneForgotten
<1>1. Init => IInv
  BY InitIInv
<1>2. Init => JInv
  <2> SUFFICES ASSUME Init  PROVE JInv
    OBVIOUS
  <2>1. DOMAIN calls_ = {} /\ made = 0 /\ lost = {}
    BY DEF Init, NoCalls
  <2> QED
    BY <2>1 DEF JInv, Behind, Somewhere, issued
<1>3. IInv /\ [Next]_vars => IInv'
  BY NextIInv
<1>4. IInv /\ JInv /\ [Next]_vars /\ [made' # made => xid_' > xid_]_vars => JInv'
  BY NextJInv
<1>5. IInv /\ JInv => NoneForgotten
  BY KeptIsWaits
<1> QED
  BY <1>1, <1>2, <1>3, <1>4, <1>5, PTL DEF Spec, NoWrap

----------------------------------------------------------------------------
(***************************************************************************)
(* Messages.                                                               *)
(***************************************************************************)
\* A message names a call that was made; a call that waits under its xid is this call.
Messages == ToSet(requests) \cup held \cup ToSet(replies)
Known(m) ==
  /\ m.xid <= xid_ /\ m.call \in issued
  /\ Swap(m.xid) \in DOMAIN calls_ => calls_[Swap(m.xid)] = m.call

\* No call is executed twice; results and what is kept are of calls that were.
Once(s) == \A i, j \in 1..Len(s) : s[i].call = s[j].call => i = j
Executed(c) == c \in ToSet(executed)
Served ==
  /\ Once(requests) /\ \A r \in ToSet(requests) : ~Executed(r.call)
  /\ \A r \in held : Executed(r.call)
  /\ \A m \in ToSet(replies) : m.what = "result" => Executed(m.call)
  /\ \A c \in ToSet(executed) : c \in issued

KInv == (\A m \in Messages : Known(m)) /\ Served

LEMMA PrefixPart ==
  ASSUME NEW S, NEW s \in Seq(S), NEW t \in Prefixes(s)
  PROVE  ToSet(t) \subseteq ToSet(s) /\ (Once(s) => Once(t))
<1>1. PICK l \in 0..Len(s) : t = SubSeq(s, 1, l)
  BY DEF Prefixes
<1>2. Len(t) = l /\ \A i \in 1..l : t[i] = s[i] /\ i \in 1..Len(s)
  BY <1>1, SubSeqProperties
<1>3. DOMAIN t = 1..l /\ DOMAIN s = 1..Len(s)
  BY <1>1, <1>2, SubSeqProperties
<1> QED
  BY <1>2, <1>3 DEF ToSet, Once

LEMMA TailPart ==
  ASSUME NEW S, NEW s \in Seq(S), s # << >>
  PROVE  /\ ToSet(Tail(s)) \subseteq ToSet(s) /\ Head(s) \in ToSet(s)
         /\ Once(s) => Once(Tail(s)) /\ \A m \in ToSet(Tail(s)) : m.call # Head(s).call
<1> DEFINE t == Tail(s)
<1>1. /\ t \in Seq(S) /\ Len(t) = Len(s) - 1 /\ Len(s) \in Nat /\ Len(s) > 0
      /\ \A i \in 1..Len(t) : t[i] = s[i + 1]
      /\ Head(s) = s[1]
  OBVIOUS
<1> HIDE DEF t
<1>2. DOMAIN t = 1..Len(t) /\ DOMAIN s = 1..Len(s) /\ 1 \in 1..Len(s)
  BY <1>1
<1>3. \A i \in 1..Len(t) : i + 1 \in 1..Len(s) /\ i + 1 # 1
  BY <1>1
<1>4. ToSet(t) \subseteq ToSet(s) /\ Head(s) \in ToSet(s)
  BY <1>1, <1>2, <1>3 DEF ToSet
<1>5. ASSUME Once(s)  PROVE Once(t) /\ \A m \in ToSet(t) : m.call # Head(s).call
  <2>1. Once(t)
    <3> SUFFICES ASSUME NEW i \in 1..Len(t), NEW j \in 1..Len(t), t[i].call = t[j].call
                 PROVE  i = j
      BY DEF Once
    <3>1. i + 1 = j + 1
      BY <1>1, <1>3, <1>5 DEF Once
    <3> QED
      BY <3>1
  <2>2. \A m \in ToSet(t) : m.call # Head(s).call
    BY <1>1, <1>2, <1>3, <1>5 DEF Once, ToSet
  <2> QED
    BY <2>1, <2>2
<1> QED
  BY <1>4, <1>5 DEF t

LEMMA ConcatPart ==
  ASSUME NEW S, NEW s \in Seq(S), NEW t \in Seq(S)
  PROVE  ToSet(s \o t) \subseteq ToSet(s) \cup ToSet(t)
<1>1. /\ DOMAIN (s \o t) = 1..Len(s) + Len(t)
      /\ \A k \in 1..Len(s) + Len(t) :
           (s \o t)[k] = IF k <= Len(s) THEN s[k] ELSE t[k - Len(s)]
  BY ConcatProperties
<1>2. DOMAIN s = 1..Len(s) /\ DOMAIN t = 1..Len(t) /\ Len(s) \in Nat /\ Len(t) \in Nat
  OBVIOUS
<1>3. ASSUME NEW k \in 1..Len(s) + Len(t)
      PROVE  (s \o t)[k] \in ToSet(s) \cup ToSet(t)
  <2>1. CASE k <= Len(s)
    <3>1. k \in 1..Len(s)
      BY <1>2, <2>1
    <3> QED
      BY <1>1, <1>2, <2>1, <3>1 DEF ToSet
  <2>2. CASE ~(k <= Len(s))
    <3>1. k - Len(s) \in 1..Len(t)
      BY <1>2, <2>2
    <3> QED
      BY <1>1, <1>2, <2>2, <3>1 DEF ToSet
  <2> QED
    BY <2>1, <2>2
<1> QED
  BY <1>1, <1>3 DEF ToSet

LEMMA AppendPart ==
  ASSUME NEW S, NEW s \in Seq(S), NEW e \in S
  PROVE  /\ ToSet(Append(s, e)) = ToSet(s) \cup {e}
         /\ Once(s) /\ (\A m \in ToSet(s) : m.call # e.call) => Once(Append(s, e))
<1> DEFINE t == Append(s, e)
<1>1. /\ Len(t) = Len(s) + 1 /\ Len(s) \in Nat /\ t[Len(s) + 1] = e
      /\ \A i \in 1..Len(s) : t[i] = s[i]
      /\ DOMAIN t = 1..Len(t) /\ DOMAIN s = 1..Len(s)
  BY AppendProperties
<1> HIDE DEF t
<1>2. \A i \in 1..Len(t) : i \in 1..Len(s) \/ i = Len(s) + 1
  BY <1>1
<1>3. ToSet(t) = ToSet(s) \cup {e}
  <2>1. Len(s) + 1 \in 1..Len(t) /\ \A i \in 1..Len(s) : i \in 1..Len(t)
    BY <1>1
  <2> QED
    BY <1>1, <1>2, <2>1 DEF ToSet
<1>4. ASSUME Once(s), \A m \in ToSet(s) : m.call # e.call  PROVE Once(t)
  <2>1. \A i \in 1..Len(s) : s[i].call # e.call
    BY <1>1, <1>4 DEF ToSet
  <2> QED
    BY <1>1, <1>2, <1>4, <2>1 DEF Once
<1> QED
  BY <1>3, <1>4 DEF t

\* Nothing is sent but what answers what was there.
Answers(m) ==
  \E r \in held \cup ToSet(requests) :
    m = Error(r) \/ (m = Result(r) /\ Executed(r.call)')

LEMMA MessagesStep ==
  ASSUME KInv, UNCHANGED <<xid_, made>>,
         DOMAIN calls_' \subseteq DOMAIN calls_, \A v \in DOMAIN calls_' : calls_'[v] = calls_[v],
         ToSet(requests)' \subseteq ToSet(requests), Once(requests)',
         \A r \in held' : r \in held \/ r \in ToSet(requests),
         \A m \in ToSet(replies)' : m \in ToSet(replies) \/ Answers(m),
         ToSet(executed) \subseteq ToSet(executed)', ToSet(executed)' \subseteq issued,
         \A r \in ToSet(requests)' : ~Executed(r.call)', \A r \in held' : Executed(r.call)'
  PROVE  KInv'
<1>1. \A m \in Messages' : \E n \in Messages : m.xid = n.xid /\ m.call = n.call
  BY DEF Messages, Answers, Error, Result
<1>2. \A m \in Messages' : Known(m)'
  <2> SUFFICES ASSUME NEW m \in Messages'  PROVE Known(m)'
    OBVIOUS
  <2>1. PICK n \in Messages : m.xid = n.xid /\ m.call = n.call
    BY <1>1
  <2>2. Known(n)
    BY DEF KInv
  <2>3. m.xid <= xid_' /\ m.call \in issued'
    BY <2>1, <2>2 DEF Known, issued
  <2>4. Swap(m.xid) \in DOMAIN calls_' => calls_'[Swap(m.xid)] = m.call
    BY <2>1, <2>2 DEF Known
  <2> QED
    BY <2>3, <2>4 DEF Known
<1>3. \A m \in ToSet(replies)' : m.what = "result" => Executed(m.call)'
  BY DEF Answers, Error, Result, KInv, Served, Executed
<1>4. Served'
  BY <1>3 DEF Served, issued
<1> QED
  BY <1>2, <1>4 DEF KInv

LEMMA KTypes ==
  ASSUME IInv
  PROVE  /\ requests \in Seq(Request) /\ replies \in Seq(Reply) /\ executed \in Seq(Call)
         /\ ToSet(requests) \subseteq Request /\ ToSet(replies) \subseteq Reply
         /\ held \subseteq Request
  BY MessageTypes DEF ToSet

LEMMA KFacts ==
  ASSUME KInv
  PROVE  /\ Once(requests) /\ \A r \in ToSet(requests) : ~Executed(r.call) /\ r.call \in issued
         /\ \A r \in held : Executed(r.call)
         /\ \A m \in ToSet(replies) : m.what = "result" => Executed(m.call)
         /\ ToSet(executed) \subseteq issued
  BY DEF KInv, Served, Messages, Known

\* Steps that take messages away, and calls from calls_.
LEMMA FewerMessages ==
  ASSUME IInv, KInv, UNCHANGED <<xid_, made, executed, held>>,
         DOMAIN calls_' \subseteq DOMAIN calls_, \A v \in DOMAIN calls_' : calls_'[v] = calls_[v],
         ToSet(requests)' \subseteq ToSet(requests), Once(requests)',
         ToSet(replies)' \subseteq ToSet(replies)
  PROVE  KInv'
<1>1. \A c : Executed(c)' <=> Executed(c)
  BY DEF Executed
<1>2. ToSet(executed) \subseteq ToSet(executed)' /\ ToSet(executed)' \subseteq issued
  BY KFacts
<1>3. /\ \A r \in ToSet(requests)' : ~Executed(r.call)'
      /\ \A r \in held' : Executed(r.call)'
  BY <1>1, KFacts
<1> QED
  BY <1>2, <1>3, MessagesStep

LEMMA ClientMessages ==
  ASSUME IInv, KInv, Client \/ Delete \/ CallbackThrows
  PROVE  KInv'
<1>1. UNCHANGED <<xid_, made, executed, held>>
  BY Zenon DEF Client, Delete, CallbackThrows, ReceiveReply, ConnectionEnds, AbortNext,
               DeleteDone, EndDone, CallbackReturns, network, server, history
<1>2. requests' = requests \/ requests' \in Prefixes(requests)
  BY Zenon DEF Client, Delete, CallbackThrows, ReceiveReply, ConnectionEnds, AbortNext,
               DeleteDone, EndDone, CallbackReturns, network, server, history
<1>3. replies' = replies \/ (replies # << >> /\ replies' = Tail(replies)) \/ replies' = << >>
  BY Zenon DEF Client, Delete, CallbackThrows, ReceiveReply, ConnectionEnds, AbortNext,
               DeleteDone, EndDone, CallbackReturns, network, server, history
<1>4. UNCHANGED calls_ \/ calls_' = NoCalls \/ \E w : Erase(w)
  BY Zenon DEF Client, Delete, CallbackThrows, ReceiveReply, ConnectionEnds, AbortNext,
               AbortAllCalls, DeleteDone, EndDone, CallbackReturns, network, server, history
<1>5. ToSet(requests)' \subseteq ToSet(requests) /\ Once(requests)'
  BY <1>2, KTypes, KFacts, PrefixPart
<1>6. ToSet(replies)' \subseteq ToSet(replies)
  <2>1. CASE replies' = replies
    BY <2>1
  <2>2. CASE replies # << >> /\ replies' = Tail(replies)
    BY <2>2, KTypes, TailPart
  <2>3. CASE replies' = << >>
    BY <2>3 DEF ToSet
  <2> QED
    BY <1>3, <2>1, <2>2, <2>3
<1>7. DOMAIN calls_' \subseteq DOMAIN calls_ /\ \A v \in DOMAIN calls_' : calls_'[v] = calls_[v]
  BY <1>4 DEF NoCalls, Erase
<1> QED
  BY <1>1, <1>5, <1>6, <1>7, FewerMessages

LEMMA BreakMessages ==
  ASSUME IInv, KInv, Break
  PROVE  KInv'
<1>1. /\ requests' \in Prefixes(requests) /\ replies' \in Prefixes(replies)
      /\ UNCHANGED <<xid_, calls_, made, executed, held>>
  BY DEF Break, client, server, history
<1>2. /\ ToSet(requests)' \subseteq ToSet(requests) /\ Once(requests)'
      /\ ToSet(replies)' \subseteq ToSet(replies)
  BY <1>1, KTypes, KFacts, PrefixPart
<1> QED
  BY <1>1, <1>2, FewerMessages

\* What goes into replies answers something.
LEMMA SendMessages ==
  ASSUME IInv, NEW s \in Seq(Reply), SendReplies(s), \A m \in ToSet(s) : Answers(m)
  PROVE  \A m \in ToSet(replies)' : m \in ToSet(replies) \/ Answers(m)
<1>1. ToSet(replies \o s) \subseteq ToSet(replies) \cup ToSet(s)
  BY KTypes, ConcatPart
<1> QED
  BY <1>1 DEF SendReplies

LEMMA IgnoreCallMessages ==
  ASSUME IInv, KInv, IgnoreCall
  PROVE  KInv'
<1>1. /\ requests # << >> /\ requests' = Tail(requests)
      /\ UNCHANGED <<xid_, calls_, made, executed, held, replies>>
  BY DEF IgnoreCall, Reached, client, server, history
<1>2. ToSet(requests)' \subseteq ToSet(requests) /\ Once(requests)'
  BY <1>1, KTypes, KFacts, TailPart
<1> QED
  BY <1>1, <1>2, FewerMessages

LEMMA RefuseCallMessages ==
  ASSUME IInv, KInv, RefuseCall
  PROVE  KInv'
<1>1. /\ requests # << >> /\ requests' = Tail(requests) /\ SendReplies(<< Error(Head(requests)) >>)
      /\ UNCHANGED <<xid_, calls_, made, executed, held>>
  BY DEF RefuseCall, Reached, client, server, history
<1>2. /\ ToSet(requests)' \subseteq ToSet(requests) /\ Once(requests)'
      /\ Head(requests) \in ToSet(requests) /\ Head(requests) \in Request
  BY <1>1, KTypes, KFacts, TailPart
<1>3. /\ << Error(Head(requests)) >> \in Seq(Reply)
      /\ \A m \in ToSet(<< Error(Head(requests)) >>) : Answers(m)
  BY <1>2, MessageOf DEF ToSet, Answers
<1>4. \A m \in ToSet(replies)' : m \in ToSet(replies) \/ Answers(m)
  BY <1>1, <1>3, SendMessages
<1>5. \A c : Executed(c)' <=> Executed(c)
  BY <1>1 DEF Executed
<1>6. /\ ToSet(executed) \subseteq ToSet(executed)' /\ ToSet(executed)' \subseteq issued
      /\ \A r \in ToSet(requests)' : ~Executed(r.call)'
      /\ \A r \in held' : Executed(r.call)' /\ r \in held
  BY <1>1, <1>2, <1>5, KFacts
<1> QED
  BY <1>1, <1>2, <1>4, <1>6, MessagesStep

LEMMA ServeCallMessages ==
  ASSUME IInv, KInv, NEW does \in {"replies", "keeps", "drops"}, NEW throws \in BOOLEAN,
         ServeCall(does, throws)
  PROVE  KInv'
<1> DEFINE r == Head(requests)
           sent == CASE does = "replies" -> << Result(r) >>
                     [] does = "keeps" -> << >>
                     [] does = "drops" -> << Error(r) >>
<1>1. /\ requests # << >> /\ requests' = Tail(requests)
      /\ SendReplies(IF throws THEN Append(sent, Error(r)) ELSE sent)
      /\ held' = IF does = "keeps" THEN held \cup {r} ELSE held
      /\ executed' = Append(executed, r.call)
      /\ UNCHANGED <<xid_, calls_, made>>
  BY DEF ServeCall, Reached, client
<1>2. /\ ToSet(requests)' \subseteq ToSet(requests) /\ Once(requests)'
      /\ r \in ToSet(requests) /\ r \in Request /\ \A m \in ToSet(requests)' : m.call # r.call
  BY <1>1, KTypes, KFacts, TailPart
<1> HIDE DEF r
<1>3. /\ Error(r) \in Reply /\ Result(r) \in Reply /\ r.call \in Call
  BY <1>2, MessageOf
<1>4. ToSet(executed)' = ToSet(executed) \cup {r.call}
  BY <1>1, <1>3, KTypes, AppendPart
<1>5. Answers(Error(r)) /\ Answers(Result(r))
  BY <1>2, <1>4 DEF Answers, Executed
<1>6. sent \in Seq(Reply) /\ \A m \in ToSet(sent) : Answers(m)
  <2>1. CASE does = "replies"
    <3>1. sent = << Result(r) >>
      BY <2>1
    <3> QED
      BY <1>3, <1>5, <3>1 DEF ToSet
  <2>2. CASE does = "keeps"
    <3>1. sent = << >>
      BY <2>2
    <3> QED
      BY <3>1 DEF ToSet
  <2>3. CASE does = "drops"
    <3>1. sent = << Error(r) >>
      BY <2>3
    <3> QED
      BY <1>3, <1>5, <3>1 DEF ToSet
  <2> QED
    BY <2>1, <2>2, <2>3
<1> HIDE DEF sent
<1>7. \A m \in ToSet(replies)' : m \in ToSet(replies) \/ Answers(m)
  <2> DEFINE s == IF throws THEN Append(sent, Error(r)) ELSE sent
  <2>1. s \in Seq(Reply)
    BY <1>3, <1>6
  <2>2. ToSet(s) \subseteq ToSet(sent) \cup {Error(r)}
    BY <1>3, <1>6, AppendPart
  <2>3. SendReplies(s)
    BY <1>1
  <2> HIDE DEF s
  <2> QED
    BY <1>5, <1>6, <2>1, <2>2, <2>3, SendMessages
<1>8. /\ ToSet(executed) \subseteq ToSet(executed)' /\ ToSet(executed)' \subseteq issued
      /\ \A m \in ToSet(requests)' : ~Executed(m.call)'
      /\ \A m \in held' : Executed(m.call)' /\ (m \in held \/ m \in ToSet(requests))
  BY <1>1, <1>2, <1>4, KFacts DEF Executed
<1> QED
  BY <1>1, <1>2, <1>7, <1>8, MessagesStep

LEMMA LateReplyMessages ==
  ASSUME IInv, KInv, NEW r \in held, LateReply(r)
  PROVE  KInv'
<1>1. /\ held' = held \ {r} /\ UNCHANGED <<xid_, calls_, made, requests, executed>>
  BY DEF LateReply, client, history
<1>2. \A c : Executed(c)' <=> Executed(c)
  BY <1>1 DEF Executed
<1>3. Answers(Error(r)) /\ Answers(Result(r))
  BY <1>2, KFacts DEF Answers
<1>4. \A m \in ToSet(replies)' : m \in ToSet(replies) \/ Answers(m)
  <2>1. CASE conn
    <3>1. PICK m \in {Result(r), Error(r)} : SendReplies(<< m >>)
      BY <2>1 DEF LateReply
    <3>2. << m >> \in Seq(Reply) /\ \A n \in ToSet(<< m >>) : Answers(n)
      BY <1>3, <3>1, MessageOf, KTypes DEF ToSet
    <3> QED
      BY <3>1, <3>2, SendMessages
  <2>2. CASE ~conn
    BY <2>2 DEF LateReply
  <2> QED
    BY <2>1, <2>2
<1>5. /\ ToSet(requests)' \subseteq ToSet(requests) /\ Once(requests)'
      /\ ToSet(executed) \subseteq ToSet(executed)' /\ ToSet(executed)' \subseteq issued
      /\ \A m \in ToSet(requests)' : ~Executed(m.call)'
      /\ \A m \in held' : Executed(m.call)' /\ m \in held
  BY <1>1, <1>2, KFacts
<1> QED
  BY <1>1, <1>4, <1>5, MessagesStep

LEMMA ServerEndMessages ==
  ASSUME IInv, KInv, ServerEnd
  PROVE  KInv'
<1>0. PICK dropped \in SUBSET held :
        /\ held' = held \ dropped
        /\ LET errors == [k \in DOMAIN SetToSeq(dropped) |-> Error(SetToSeq(dropped)[k])]
           IN replies' \in Prefixes(IF link THEN replies \o errors ELSE replies)
  BY DEF ServerEnd, FreeConnection
<1> DEFINE s == SetToSeq(dropped)
           errors == [k \in DOMAIN s |-> Error(s[k])]
           all == IF link THEN replies \o errors ELSE replies
<1>1. /\ held' \subseteq held /\ requests' = << >> /\ replies' \in Prefixes(all)
      /\ UNCHANGED <<xid_, calls_, made, executed>>
  BY <1>0 DEF ServerEnd, FreeConnection, client, history
<1>2. s \in Seq(dropped)
  BY MessageTypes, FS_Subset, SetToSeqType
<1> HIDE DEF s
<1>3. errors \in Seq(Reply) /\ \A m \in ToSet(errors) : Answers(m)
  <2>1. DOMAIN s = 1..Len(s) /\ Len(s) \in Nat /\ \A k \in 1..Len(s) : s[k] \in dropped
    BY <1>2
  <2>2. \A k \in 1..Len(s) : Error(s[k]) \in Reply /\ Answers(Error(s[k]))
    BY <2>1, KTypes, MessageOf DEF Answers
  <2>3. errors \in [1..Len(s) -> Reply]
    BY <2>1, <2>2
  <2>4. errors \in Seq(Reply)
    BY <2>1, <2>3
  <2> QED
    BY <2>1, <2>2, <2>4 DEF ToSet
<1> HIDE DEF errors
<1>4. all \in Seq(Reply) /\ \A m \in ToSet(all) : m \in ToSet(replies) \/ Answers(m)
  <2>1. replies \o errors \in Seq(Reply)
    BY <1>3, KTypes, ConcatProperties
  <2>2. ToSet(replies \o errors) \subseteq ToSet(replies) \cup ToSet(errors)
    BY <1>3, KTypes, ConcatPart
  <2> QED
    BY <1>3, <2>1, <2>2, KTypes
<1> HIDE DEF all
<1>5. \A m \in ToSet(replies)' : m \in ToSet(replies) \/ Answers(m)
  BY <1>1, <1>4, PrefixPart
<1>6. \A c : Executed(c)' <=> Executed(c)
  BY <1>1 DEF Executed
<1>7. ToSet(requests)' = {} /\ Once(requests)'
  BY <1>1 DEF ToSet, Once
<1>8. /\ ToSet(executed) \subseteq ToSet(executed)' /\ ToSet(executed)' \subseteq issued
      /\ \A m \in held' : Executed(m.call)' /\ m \in held
  BY <1>1, <1>6, KFacts
<1> QED
  BY <1>1, <1>5, <1>7, <1>8, MessagesStep

LEMMA InvokeMessages ==
  ASSUME IInv, JInv, KInv, Invoke, xid_' > xid_
  PROVE  KInv'
<1> DEFINE x == xid_'
           c == made'
           q == [xid |-> x, call |-> c]
<1>1. /\ made < MaxCalls /\ made' = made + 1 /\ x = get_xid /\ SendCall(x, c)
      /\ requests' = IF link THEN Append(requests, q) ELSE requests
      /\ UNCHANGED <<replies, held, executed>>
  BY DEF Invoke, server
<1>2. /\ made \in 0..MaxCalls /\ MaxCalls \in Nat /\ c = made + 1 /\ c \notin issued
      /\ c \in Call /\ issued' = issued \cup {c}
  BY <1>1, ClientTypes, RpcAssumption DEF issued, Call
<1>3. x \in Xid /\ xid_ \in Xid /\ xid_ < x /\ Xid \subseteq Nat
  BY <1>1, GetXid, ClientTypes, RpcAssumption DEF Xid
<1>4. q \in Request /\ q.xid = x /\ q.call = c
  BY <1>2, <1>3 DEF Request
<1> HIDE DEF q
<1>5. /\ DOMAIN calls_' = DOMAIN calls_ \cup {Swap(x)}
      /\ \A v \in DOMAIN calls_ : calls_'[v] = calls_[v]
  BY <1>1, SendCallKeeps
<1>6. Swap(x) \notin DOMAIN calls_
  <2> SUFFICES ASSUME Swap(x) \in DOMAIN calls_  PROVE FALSE
    OBVIOUS
  <2>1. PICK y \in 0..xid_ : Swap(x) = Swap(y)
    BY DEF JInv, Behind
  <2>2. y \in Xid /\ y # x
    BY <1>3, RpcAssumption DEF Xid
  <2> QED
    BY <1>3, <2>1, <2>2, SwapInjective
<1>7. calls_'[Swap(x)] = c
  BY <1>1, <1>6, SendCallKeeps
<1>8. ToSet(requests)' \subseteq ToSet(requests) \cup {q}
  BY <1>1, <1>4, KTypes, AppendPart
<1>9. Once(requests)'
  <2>1. \A m \in ToSet(requests) : m.call # q.call
    BY <1>2, <1>4, KFacts
  <2> QED
    BY <1>1, <1>4, <2>1, KTypes, KFacts, AppendPart
<1>10. \A d : Executed(d)' <=> Executed(d)
  BY <1>1 DEF Executed
<1>11. ASSUME NEW m \in Messages'  PROVE Known(m)'
  <2>1. CASE m = q
    <3>1. m.xid <= xid_' /\ m.call \in issued' /\ calls_'[Swap(m.xid)] = m.call
      BY <1>2, <1>3, <1>4, <1>7, <2>1
    <3> QED
      BY <3>1 DEF Known
  <2>2. CASE m \in Messages
    <3>1. Known(m)
      BY <2>2 DEF KInv
    <3>2. m.xid \in Xid
      <4>1. m \in Request \/ m \in Reply
        BY <2>2, KTypes DEF Messages
      <4> QED
        BY <4>1 DEF Request, Reply
    <3>3. m.xid <= x /\ m.xid # x
      <4>1. m.xid <= xid_ /\ m.xid \in Nat /\ xid_ \in Nat /\ x \in Nat
        BY <1>3, <3>1, <3>2, Zenon DEF Known
      <4>2. \A i, j, k \in Nat : i <= j /\ j < k => i <= k /\ i # k
        OBVIOUS
      <4> QED
        BY <1>3, <4>1, <4>2, Zenon
    <3>4. Swap(m.xid) # Swap(x)
      BY <1>3, <3>2, <3>3, SwapInjective
    <3>5. Swap(m.xid) \in DOMAIN calls_' => calls_'[Swap(m.xid)] = m.call
      BY <1>5, <3>1, <3>4 DEF Known
    <3> QED
      BY <1>2, <3>1, <3>3, <3>5 DEF Known
  <2> QED
    BY <1>1, <1>8, <2>1, <2>2 DEF Messages
<1>12. Served'
  <2>1. \A r \in ToSet(requests)' : ~Executed(r.call)'
    BY <1>2, <1>4, <1>8, <1>10, KFacts DEF Executed
  <2> QED
    BY <1>1, <1>2, <1>9, <1>10, <2>1, KFacts DEF Served
<1> QED
  BY <1>11, <1>12 DEF KInv

LEMMA NextKInv ==
  ASSUME IInv, JInv, KInv, [Next]_vars, [made' # made => xid_' > xid_]_vars
  PROVE  KInv'
<1>1. CASE Invoke
  <2>1. made' # made
    BY <1>1, ClientTypes, RpcAssumption DEF Invoke
  <2>2. xid_' > xid_
    BY <2>1, Zenon DEF vars, history
  <2> QED
    BY <1>1, <2>2, InvokeMessages
<1>2. CASE Client \/ Delete \/ CallbackThrows
  BY <1>2, ClientMessages
<1>3. CASE Server
  BY <1>3, IgnoreCallMessages, RefuseCallMessages, ServerEndMessages, ServeCallMessages
     DEF Server
<1>4. CASE Break
  BY <1>4, BreakMessages
<1>5. CASE \E r \in held : LateReply(r)
  BY <1>5, LateReplyMessages
<1>6. CASE UNCHANGED vars
  <2>1. UNCHANGED <<xid_, calls_, made, executed, held, requests, replies>>
    BY <1>6, Zenon DEF vars, client, network, server, history
  <2>2. Once(requests)' /\ ToSet(requests)' = ToSet(requests) /\ ToSet(replies)' = ToSet(replies)
    BY <2>1, KFacts
  <2> QED
    BY <2>1, <2>2, FewerMessages
<1> QED
  BY <1>1, <1>2, <1>3, <1>4, <1>5, <1>6 DEF Next, Program

----------------------------------------------------------------------------
(***************************************************************************)
(* Calls.                                                                  *)
(***************************************************************************)
\* The answer that Calls knows.
first(c) == IF answers[c] = << >> THEN [what |-> "none", of |-> c] ELSE Head(answers[c])

LEMMA SameSet == RemoteCalls!ToSet(executed) = ToSet(executed)
BY DEF RemoteCalls!ToSet, ToSet

LEMMA SameCalls ==
  ASSUME UNCHANGED <<made, executed>>, \A c \in Call : first(c)' = first(c)
  PROVE  UNCHANGED RemoteCalls!vars
<1>1. issued' = issued
  BY DEF issued
<1>2. [c \in Call |-> first(c)]' = [c \in Call |-> first(c)]
  OBVIOUS
<1> QED
  BY <1>1, <1>2 DEF RemoteCalls!vars, first

\* A call gets its first answer.
LEMMA FirstAnswer ==
  ASSUME IInv, UNCHANGED <<made, executed>>, NEW c \in Call, NEW a \in Answer, Answered(c, a),
         c \in issued, answers[c] = << >>, a.of = c, a.what = "result" => Executed(c)
  PROVE  RemoteCalls!Next
<1> DEFINE old == [b \in Call |-> first(b)]
           new == [b \in Call |-> first(b)']
<1>1. answers \in [Call -> Seq(Answer)]
  BY ClientTypes
<1>2. answers' = [answers EXCEPT ![c] = Append(answers[c], a)]
  BY DEF Answered
<1>3. Append(<< >>, a) # << >> /\ Head(Append(<< >>, a)) = a
  OBVIOUS
<1>4. first(c)' = a
  BY <1>1, <1>2, <1>3 DEF first
<1>5. \A b \in Call \ {c} : first(b)' = first(b)
  BY <1>1, <1>2 DEF first
<1>6. first(c) = [what |-> "none", of |-> c]
  BY DEF first
<1>7. a = [what |-> a.what, of |-> c] /\ a.what \in What
  BY DEF Answer
<1>8. [first(c) EXCEPT !.what = a.what] = a
  BY <1>6, <1>7
<1>9. new = [old EXCEPT ![c] = [first(c) EXCEPT !.what = a.what]]
  BY <1>4, <1>5, <1>8
<1>10. RemoteCalls!Answer(c, a.what)
  <2>1. issued' = issued
    BY DEF issued
  <2>2. old[c] = first(c) /\ old[c].what = "none"
    BY <1>6
  <2>3. new = [old EXCEPT ![c].what = a.what]
    BY <1>9, <2>2
  <2> QED
    BY <2>1, <2>2, <2>3, SameSet, Zenon DEF RemoteCalls!Answer, first, Executed
<1> QED
  BY <1>7, <1>10 DEF RemoteCalls!Next

\* An answer after the first one.
LEMMA LaterAnswer ==
  ASSUME IInv, UNCHANGED <<made, executed>>, NEW c \in Call, NEW a \in Answer, Answered(c, a),
         answers[c] # << >>
  PROVE  UNCHANGED RemoteCalls!vars
<1>1. answers \in [Call -> Seq(Answer)]
  BY ClientTypes
<1>2. answers' = [answers EXCEPT ![c] = Append(answers[c], a)]
  BY DEF Answered
<1>3. answers[c] \in Seq(Answer)
  BY <1>1
<1>4. Append(answers[c], a) # << >> /\ Head(Append(answers[c], a)) = Head(answers[c])
  <2> DEFINE s == answers[c]
  <2>1. s \in Seq(Answer) /\ s # << >>
    BY <1>3
  <2> HIDE DEF s
  <2>2. Append(s, a) # << >> /\ Head(Append(s, a)) = Head(s)
    BY <2>1
  <2> QED
    BY <2>2 DEF s
<1>5. \A b \in Call : first(b)' = first(b)
  BY <1>1, <1>2, <1>4 DEF first
<1> QED
  BY <1>5, SameCalls

LEMMA InvokeRefines ==
  ASSUME IInv, Invoke
  PROVE  RemoteCalls!Next
<1>1. made < MaxCalls /\ made' = made + 1 /\ UNCHANGED <<executed, answers>>
  BY DEF Invoke
<1>2. made' \in Call /\ made' \notin issued /\ issued' = issued \cup {made'}
  BY <1>1, ClientTypes, RpcAssumption DEF issued, Call
<1>3. RemoteCalls!Issue(made')
  BY <1>1, <1>2 DEF RemoteCalls!Issue
<1> QED
  BY <1>2, <1>3 DEF RemoteCalls!Next

LEMMA ServeCallRefines ==
  ASSUME IInv, KInv, NEW does \in {"replies", "keeps", "drops"}, NEW throws \in BOOLEAN,
         ServeCall(does, throws)
  PROVE  RemoteCalls!Next
<1> DEFINE c == Head(requests).call
<1>1. /\ requests # << >> /\ executed' = Append(executed, c) /\ UNCHANGED <<made, answers>>
  BY DEF ServeCall, Reached
<1>2. Head(requests) \in Request /\ Head(requests) \in ToSet(requests)
  BY <1>1, KTypes, TailPart
<1>3. c \in Call /\ c \in issued /\ c \notin ToSet(executed)
  BY <1>2, MessageOf, KFacts DEF Executed
<1> HIDE DEF c
<1>4. RemoteCalls!Execute(c)
  <2>1. UNCHANGED issued /\ UNCHANGED [b \in Call |-> first(b)]
    BY <1>1 DEF issued, first
  <2> QED
    BY <1>1, <1>3, <2>1, SameSet, Zenon DEF RemoteCalls!Execute, first
<1> QED
  BY <1>3, <1>4 DEF RemoteCalls!Next

LEMMA AbortNextRefines ==
  ASSUME IInv, AbortNext
  PROVE  RemoteCalls!Next
<1>1. stack # << >> /\ UNCHANGED <<made, executed>>
  BY DEF AbortNext, Aborting
<1>2. PICK c \in top.left : Answered(c, [what |-> "network", of |-> c])
  BY DEF AbortNext
<1>3. c \in Call /\ c \in issued /\ answers[c] = << >>
  BY <1>1, <1>2, TopOfStack
<1> DEFINE a == [what |-> "network", of |-> c]
<1>4. a \in Answer /\ a.of = c /\ a.what # "result"
  BY <1>3 DEF Answer, What
<1> HIDE DEF a
<1>5. Answered(c, a)
  BY <1>2 DEF a
<1> QED
  BY <1>1, <1>3, <1>4, <1>5, FirstAnswer

LEMMA ReceiveReplyRefines ==
  ASSUME IInv, KInv, ReceiveReply
  PROVE  RemoteCalls!Next \/ UNCHANGED RemoteCalls!vars
<1> DEFINE m == Head(replies)
           w == Swap(m.xid)
           g == m.what = "result" /\ kind[m.call] = "misread"
           a == [what |-> IF g THEN "garbage" ELSE m.what, of |-> m.call]
<1>1. replies # << >> /\ UNCHANGED <<made, executed>>
  BY DEF ReceiveReply
<1>2. m \in ToSet(replies) /\ m \in Reply
  BY <1>1, KTypes, TailPart
<1>3. m.what \in {"result", "error"} /\ m.call \in Call
  BY <1>2 DEF Reply
<1>4. CASE w \in DOMAIN calls_
  <2>1. Answered(calls_[w], a)
    BY <1>4 DEF ReceiveReply
  <2>2. calls_[w] = m.call
    BY <1>2, <1>4 DEF KInv, Messages, Known
  <2>3. m.call \in issued /\ answers[m.call] = << >>
    BY <1>3, <1>4, <2>2 DEF IInv, Unanswered, Waits, Range
  <2>4. m.what = "result" => Executed(m.call)
    BY <1>2, KFacts
  <2> HIDE DEF m, w, g
  <2>5. a \in Answer /\ a.of = m.call /\ (a.what = "result" => m.what = "result")
    BY <1>3 DEF Answer, What
  <2> HIDE DEF a
  <2> QED
    BY <1>1, <1>3, <2>1, <2>2, <2>3, <2>4, <2>5, FirstAnswer
<1>5. CASE w \notin DOMAIN calls_
  <2>1. UNCHANGED answers
    BY <1>5 DEF ReceiveReply
  <2>2. \A c \in Call : first(c)' = first(c)
    BY <2>1 DEF first
  <2> QED
    BY <1>1, <2>2, SameCalls
<1> QED
  BY <1>4, <1>5

LEMMA CallbackThrowsRefines ==
  ASSUME IInv, CallbackThrows
  PROVE  UNCHANGED RemoteCalls!vars
<1>1. stack # << >> /\ UNCHANGED <<made, executed>>
  BY DEF CallbackThrows, Called
<1>2. CASE UNCHANGED answers
  <2>1. \A c \in Call : first(c)' = first(c)
    BY <1>2 DEF first
  <2> QED
    BY <1>1, <2>1, SameCalls
<1>3. CASE top.why = "reply" /\ ~top.again
  <2>1. PICK c \in top.call : Answered(c, [what |-> "garbage", of |-> c])
    BY <1>3 DEF CallbackThrows
  <2>2. c \in Call /\ Len(answers[c]) = 1 /\ answers[c] # << >>
    BY <1>1, <1>3, TopOfStack DEF IInv, Answering
  <2>3. [what |-> "garbage", of |-> c] \in Answer
    BY <2>2 DEF Answer, What
  <2> QED
    BY <1>1, <2>1, <2>2, <2>3, LaterAnswer
<1> QED
  BY <1>2, <1>3 DEF CallbackThrows

LEMMA NextRefines ==
  ASSUME IInv, KInv, [Next]_vars
  PROVE  RemoteCalls!Next \/ UNCHANGED RemoteCalls!vars
<1>1. CASE Invoke
  BY <1>1, InvokeRefines
<1>2. CASE \E does \in {"replies", "keeps", "drops"}, throws \in BOOLEAN : ServeCall(does, throws)
  BY <1>2, ServeCallRefines
<1>3. CASE AbortNext
  BY <1>3, AbortNextRefines
<1>4. CASE ReceiveReply
  BY <1>4, ReceiveReplyRefines
<1>5. CASE CallbackThrows
  BY <1>5, CallbackThrowsRefines
<1>6. CASE \/ Delete \/ ConnectionEnds \/ DeleteDone \/ EndDone \/ CallbackReturns
           \/ IgnoreCall \/ RefuseCall \/ ServerEnd \/ Break \/ (\E r \in held : LateReply(r))
           \/ UNCHANGED vars
  <2>1. UNCHANGED <<made, executed, answers>>
    BY <1>6, Zenon DEF Delete, ConnectionEnds, DeleteDone, EndDone, CallbackReturns, IgnoreCall,
                       RefuseCall, ServerEnd, Break, LateReply, vars, history
  <2>2. \A c \in Call : first(c)' = first(c)
    BY <2>1 DEF first
  <2> QED
    BY <2>1, <2>2, SameCalls
<1> QED
  BY <1>1, <1>2, <1>3, <1>4, <1>5, <1>6 DEF Next, Program, Client, Server

LEMMA InitRefines ==
  ASSUME Init
  PROVE  KInv /\ RemoteCalls!Init
<1>1. /\ requests = << >> /\ replies = << >> /\ held = {} /\ executed = << >> /\ made = 0
      /\ answers = [c \in Call |-> << >>]
  BY DEF Init
<1>2. ToSet(requests) = {} /\ ToSet(replies) = {} /\ ToSet(executed) = {} /\ Once(requests)
  BY <1>1 DEF ToSet, Once
<1>3. KInv
  BY <1>1, <1>2 DEF KInv, Messages, Served
<1>4. issued = {}
  BY <1>1 DEF issued
<1>5. RemoteCalls!Init
  BY <1>1, <1>4 DEF RemoteCalls!Init
<1> QED
  BY <1>3, <1>5

\* As long as xid_ only grows, Rpc implements Calls: a request is executed at most once,
\* and the answer that a callback gets first is of its own call, a result only of a
\* call that was executed; late, doubled and unknown replies change nothing of that.
THEOREM Implements == (Spec /\ NoWrap) => AnsweredAsCalled
<1>1. Init => IInv /\ JInv
  <2> SUFFICES ASSUME Init  PROVE IInv /\ JInv
    OBVIOUS
  <2>1. DOMAIN calls_ = {} /\ made = 0 /\ lost = {}
    BY DEF Init, NoCalls
  <2>2. JInv
    BY <2>1 DEF JInv, Behind, Somewhere, issued
  <2> QED
    BY <2>2, InitIInv
<1>2. Init => KInv /\ RemoteCalls!Init
  BY InitRefines
<1>3. IInv /\ [Next]_vars => IInv'
  BY NextIInv
<1>4. IInv /\ JInv /\ [Next]_vars /\ [made' # made => xid_' > xid_]_vars => JInv'
  BY NextJInv
<1>5. IInv /\ JInv /\ KInv /\ [Next]_vars /\ [made' # made => xid_' > xid_]_vars => KInv'
  BY NextKInv
<1>6. IInv /\ KInv /\ [Next]_vars => [RemoteCalls!Next]_(RemoteCalls!vars)
  BY NextRefines
<1> QED
  BY <1>1, <1>2, <1>3, <1>4, <1>5, <1>6, PTL
  DEF Spec, NoWrap, AnsweredAsCalled, RemoteCalls!Spec

=============================================================================
