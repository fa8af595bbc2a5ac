----------------------------- MODULE EchoProofs -----------------------------
(***************************************************************************)
(* The stream of responses that the client of the echo program cuts into   *)
(* frames, and the verdict of its main, for every number of requests and   *)
(* every size of the socket buffers.                                       *)
(***************************************************************************)
EXTENDS Echo, SequenceTheorems, TLAPS

(***************************************************************************)
(* The inductive invariant.                                                *)
(***************************************************************************)
Fragment == Nat \X {1, 2}

\* The fragment at place k of the stream of requests, the stop frame behind
\* them included; the stream of responses is the same without the stop frame.
IsAt(f, k) ==
  IF k > 2 * Requests THEN f = <<0, 1>>
  ELSE \E id \in 1 .. Requests, j \in {1, 2} : k = 2 * id - 2 + j /\ f = <<id, j>>

\* A piece of that stream that begins behind place p.
Runs(s, p) == \A i \in 1 .. Len(s) : IsAt(s[i], p + i)

\* How many fragments the handler has read, the sender has handed over and
\* the handler has written.
Read    == 2 * request + (IF handler = "body" THEN 1 ELSE 0)
Handed  == Read + Len(up) + Len(pending)
Written == 2 * processed + Len(carry) + Len(down)

EchoTypes ==
  /\ sent \in Nat /\ processed \in Nat /\ request \in Nat
  /\ sender \in {"none", "next", "send", "flush", "returned"}
  /\ failed \subseteq {"server", "client", "sender", "receiver"}
  /\ impl \in {"netring", "stdlib"}

\* Whether the handler is one that reads.
Reads == handler \in {"none", "header", "body", "write", "write rest"}

\* What is on the way of the requests, ...
UpRuns == Runs(up, Read) /\ Runs(pending, Read + Len(up))

\* ... and how far the sender has come.
Counts ==
  /\ Handed <= 2 * sent \/ (sent = Requests /\ Handed = 2 * Requests + 1)
  /\ sender \in {"none", "next"} => Handed = 2 * sent
  /\ sender = "send" => Handed = 2 * sent - 2
  /\ sender = "flush" => sent = Requests /\ Handed = 2 * Requests + 1

\* The way of the requests, as long as somebody reads them.
UpInv ==
  /\ up \in Seq(Fragment) /\ pending \in Seq(Fragment)
  /\ sent <= Requests
  /\ sender = "none" => sent = 0
  /\ sender = "send" => sent # 0
  /\ Reads => UpRuns /\ Counts

\* What is on the way of the responses, ...
DownRuns == Runs(carry, 2 * processed) /\ Runs(down, 2 * processed + Len(carry))

\* ... and how far the handler has come.
Served ==
  /\ Written <= 2 * request
  /\ handler = "none" => request = 0
  /\ handler \in {"none", "header", "body"} => Written = 2 * request
  /\ handler = "write" => Written = 2 * request - 2
  /\ handler = "write rest" => Written = 2 * request - 1
  /\ handler = "body" => request < Requests

\* The way of the responses.
DownInv ==
  /\ carry \in Seq(Fragment) /\ down \in Seq(Fragment)
  /\ DownRuns
  /\ request <= sent
  /\ Served

\* The receiver, and the IDs without a response.  A response that it refuses is
\* counted and its ID stays.
AnswerInv ==
  /\ receiver # "refused" => sequences = processed + 1 .. sent
  /\ receiver = "loop" => Len(carry) < 2 \/ processed = Requests
  /\ receiver = "recv" => Len(carry) < 2 /\ processed < Requests
  /\ receiver = "none" => carry = << >> /\ processed = 0
  /\ receiver = "returned" => failed # {} \/ processed = Requests
  /\ receiver = "refused" => faulty /\ (impl = "netring" => "receiver" \in failed)

\* Who has ended, and how.
EndInv ==
  /\ client \in {"barrier", "connect"} => sender = "none" /\ receiver = "none"
  /\ client \in {"closed", "finish"} \/ (client = "returned" /\ "client" \notin failed)
       => WorkDone /\ {"sender", "receiver"} \cap failed = {}
  /\ noMoreRequests => WorkDone
  /\ client = "exited" => "client" \in failed
  /\ listener = "closed" => Cancelled \/ noMoreRequests
  /\ server \in {"accept", "look"} => listener \in {"open", "closed"}

\* As long as nothing went wrong.
SoundInv ==
  ~faulty =>
    /\ failed = {} /\ ~late /\ ~clientErrors /\ handler # "report"
    /\ hungUp => handler = "returned"
    /\ handler = "returned" =>
         /\ sent = Requests /\ request = Requests /\ Written = 2 * request
         /\ pending = << >> /\ sender \in {"flush", "returned"}

EInv == EchoTypes /\ UpInv /\ DownInv /\ AnswerInv /\ EndInv /\ SoundInv

(***************************************************************************)
(* Pieces of the stream.                                                   *)
(***************************************************************************)

\* A piece becomes longer at its end.
LEMMA RunsAppend ==
  ASSUME NEW s \in Seq(Fragment), NEW p \in Nat, Runs(s, p),
         NEW f \in Fragment, IsAt(f, p + Len(s) + 1)
  PROVE  /\ Append(s, f) \in Seq(Fragment) /\ Len(Append(s, f)) = Len(s) + 1
         /\ Runs(Append(s, f), p)
<1> DEFINE t == Append(s, f)
<1>1. /\ t \in Seq(Fragment) /\ Len(t) = Len(s) + 1 /\ t[Len(s) + 1] = f
      /\ \A i \in 1 .. Len(s) : t[i] = s[i]
  BY AppendProperties
<1> HIDE DEF t
<1>2. ASSUME NEW i \in 1 .. Len(t) PROVE IsAt(t[i], p + i)
  <2>1. CASE i \in 1 .. Len(s)
    BY <1>1, <2>1 DEF Runs
  <2>2. CASE i = Len(s) + 1
    <3>1. p + i = p + Len(s) + 1
      BY <2>2
    <3> QED
      BY <1>1, <2>2, <3>1
  <2> QED
    BY <1>1, <2>1, <2>2
<1> QED
  BY <1>1, <1>2 DEF Runs, t

\* It loses its first fragment.
LEMMA RunsTail ==
  ASSUME NEW s \in Seq(Fragment), NEW p \in Nat, Runs(s, p), s # << >>
  PROVE  /\ Head(s) \in Fragment /\ IsAt(Head(s), p + 1)
         /\ Tail(s) \in Seq(Fragment) /\ Len(Tail(s)) = Len(s) - 1 /\ Len(s) \in Nat \ {0}
         /\ Runs(Tail(s), p + 1)
<1>1. Len(s) \in Nat \ {0} /\ Head(s) = s[1]
  BY EmptySeq
<1>2. /\ Head(s) \in Fragment /\ Tail(s) \in Seq(Fragment) /\ Len(Tail(s)) = Len(s) - 1
      /\ \A i \in 1 .. Len(Tail(s)) : Tail(s)[i] = s[i + 1]
  BY HeadTailProperties
<1>3. IsAt(Head(s), p + 1)
  BY <1>1 DEF Runs
<1>4. ASSUME NEW i \in 1 .. Len(Tail(s)) PROVE IsAt(Tail(s)[i], p + 1 + i)
  <2> DEFINE j == i + 1
  <2>1. j \in 1 .. Len(s) /\ p + 1 + i = p + j
    BY <1>1, <1>2
  <2>2. Tail(s)[i] = s[j]
    BY <1>2
  <2> HIDE DEF j
  <2>3. IsAt(s[j], p + j)
    BY <2>1 DEF Runs
  <2> QED
    BY <2>1, <2>2, <2>3
<1> QED
  BY <1>1, <1>2, <1>3, <1>4 DEF Runs

\* It is cut into two.
LEMMA RunsFirst ==
  ASSUME NEW s \in Seq(Fragment), NEW p \in Nat, Runs(s, p), NEW n \in 0 .. Len(s)
  PROVE  /\ SubSeq(s, 1, n) \in Seq(Fragment) /\ Len(SubSeq(s, 1, n)) = n
         /\ Runs(SubSeq(s, 1, n), p)
<1>1. \A i \in 1 .. n : s[i] \in Fragment
  BY ElementOfSeq
<1> DEFINE t == SubSeq(s, 1, n)
<1>2. /\ t \in Seq(Fragment) /\ Len(t) = (IF 1 <= n THEN n - 1 + 1 ELSE 0)
      /\ \A i \in 1 .. n - 1 + 1 : t[i] = s[1 + i - 1]
  BY <1>1, SubSeqProperties
<1> HIDE DEF t
<1>3. Len(t) = n /\ \A i \in 1 .. n : t[i] = s[i]
  BY <1>2
<1> QED
  BY <1>2, <1>3 DEF Runs, t

\* The second part begins where the first one ends.
LEMMA RunsRest ==
  ASSUME NEW s \in Seq(Fragment), NEW p \in Nat, Runs(s, p), NEW n \in 0 .. Len(s)
  PROVE  /\ SubSeq(s, n + 1, Len(s)) \in Seq(Fragment)
         /\ Len(SubSeq(s, n + 1, Len(s))) = Len(s) - n
         /\ Runs(SubSeq(s, n + 1, Len(s)), p + n)
<1>1. \A i \in n + 1 .. Len(s) : s[i] \in Fragment
  BY ElementOfSeq
<1> DEFINE m == n + 1
           l == Len(s)
           t == SubSeq(s, m, l)
<1>0. m \in Int /\ l \in Nat /\ m = n + 1 /\ l = Len(s)
  OBVIOUS
<1>2. /\ t \in Seq(Fragment) /\ Len(t) = (IF m <= l THEN l - m + 1 ELSE 0)
      /\ \A i \in 1 .. l - m + 1 : t[i] = s[m + i - 1]
  <2> HIDE DEF m, l
  <2> QED
    BY <1>0, <1>1, SubSeqProperties
<1> HIDE DEF t, m, l
<1>3. Len(t) = l - n
  BY <1>0, <1>2
<1>4. ASSUME NEW i \in 1 .. l - n PROVE IsAt(t[i], p + n + i)
  <2> DEFINE j == n + i
  <2>1. j \in 1 .. Len(s) /\ m + i - 1 = j /\ p + n + i = p + j /\ i \in 1 .. l - m + 1
    BY <1>0
  <2> HIDE DEF j
  <2>2. t[i] = s[j] /\ IsAt(s[j], p + j)
    BY <1>2, <2>1 DEF Runs
  <2> QED
    BY <2>1, <2>2
<1> QED
  BY <1>0, <1>2, <1>3, <1>4 DEF Runs, t, m, l

\* Two pieces are joined.
LEMMA RunsConcat ==
  ASSUME NEW s \in Seq(Fragment), NEW t \in Seq(Fragment), NEW p \in Nat,
         Runs(s, p), Runs(t, p + Len(s))
  PROVE  /\ s \o t \in Seq(Fragment) /\ Len(s \o t) = Len(s) + Len(t)
         /\ Runs(s \o t, p)
<1> DEFINE u == s \o t
<1>1. /\ u \in Seq(Fragment) /\ Len(u) = Len(s) + Len(t)
      /\ \A i \in 1 .. Len(s) + Len(t) : u[i] = IF i <= Len(s) THEN s[i] ELSE t[i - Len(s)]
  BY ConcatProperties
<1> HIDE DEF u
<1>2. Len(s) \in Nat /\ Len(t) \in Nat
  OBVIOUS
<1>3. ASSUME NEW i \in 1 .. Len(u) PROVE IsAt(u[i], p + i)
  <2>1. CASE i <= Len(s)
    BY <1>1, <1>2, <2>1 DEF Runs
  <2>2. CASE ~(i <= Len(s))
    <3> DEFINE j == i - Len(s)
    <3>1. j \in 1 .. Len(t) /\ p + i = p + Len(s) + j
      BY <1>1, <1>2, <2>2
    <3>2. u[i] = t[j]
      BY <1>1, <1>2, <2>2
    <3> HIDE DEF j
    <3>3. IsAt(t[j], p + Len(s) + j)
      BY <3>1 DEF Runs
    <3> QED
      BY <3>1, <3>2, <3>3
  <2> QED
    BY <2>1, <2>2
<1> QED
  BY <1>1, <1>3 DEF Runs, u

\* What is where in the stream.
LEMMA Places ==
  ASSUME NEW n \in Nat
  PROVE  /\ \A f : IsAt(f, 2 * n + 1) => f = IF n < Requests THEN <<n + 1, 1>> ELSE <<0, 1>>
         /\ \A f : n < Requests /\ IsAt(f, 2 * n + 2) => f = <<n + 1, 2>>
         /\ n < Requests => IsAt(<<n + 1, 1>>, 2 * n + 1) /\ IsAt(<<n + 1, 2>>, 2 * n + 2)
         /\ IsAt(<<0, 1>>, 2 * Requests + 1)
<1> USE RequestsAssumption
<1>1. ASSUME NEW f, IsAt(f, 2 * n + 1)
      PROVE  f = IF n < Requests THEN <<n + 1, 1>> ELSE <<0, 1>>
  <2>1. CASE n < Requests
    <3>1. ~ (2 * n + 1 > 2 * Requests)
      BY <2>1
    <3>2. PICK id \in 1 .. Requests, j \in {1, 2} : 2 * n + 1 = 2 * id - 2 + j /\ f = <<id, j>>
      BY <1>1, <3>1 DEF IsAt
    <3>3. j = 1 /\ id = n + 1
      BY <3>2
    <3> QED
      BY <2>1, <3>2, <3>3
  <2>2. CASE ~ (n < Requests)
    <3>1. 2 * n + 1 > 2 * Requests
      BY <2>2
    <3> QED
      BY <1>1, <2>2, <3>1 DEF IsAt
  <2> QED
    BY <2>1, <2>2
<1>2. ASSUME NEW f, n < Requests, IsAt(f, 2 * n + 2) PROVE f = <<n + 1, 2>>
  <2>1. ~ (2 * n + 2 > 2 * Requests)
    BY <1>2
  <2>2. PICK id \in 1 .. Requests, j \in {1, 2} : 2 * n + 2 = 2 * id - 2 + j /\ f = <<id, j>>
    BY <1>2, <2>1 DEF IsAt
  <2>3. j = 2 /\ id = n + 1
    BY <2>2
  <2> QED
    BY <2>2, <2>3
<1>3. ASSUME n < Requests PROVE IsAt(<<n + 1, 1>>, 2 * n + 1) /\ IsAt(<<n + 1, 2>>, 2 * n + 2)
  <2> DEFINE id == n + 1
  <2>1. /\ id \in 1 .. Requests /\ 1 \in {1, 2} /\ 2 \in {1, 2}
        /\ 2 * n + 1 = 2 * id - 2 + 1 /\ 2 * n + 2 = 2 * id - 2 + 2
        /\ ~ (2 * n + 1 > 2 * Requests) /\ ~ (2 * n + 2 > 2 * Requests)
    BY <1>3
  <2> HIDE DEF id
  <2>2. IsAt(<<id, 1>>, 2 * n + 1) /\ IsAt(<<id, 2>>, 2 * n + 2)
    BY <2>1 DEF IsAt
  <2> QED
    BY <2>2 DEF id
<1>4. IsAt(<<0, 1>>, 2 * Requests + 1)
  <2>1. 2 * Requests + 1 > 2 * Requests
    OBVIOUS
  <2> QED
    BY <2>1 DEF IsAt
<1> QED
  BY <1>1, <1>2, <1>3, <1>4

\* WriteResponse, the beginning or the rest of the frame.
LEMMA WriteEffect ==
  ASSUME NEW k \in {1, 2}, WriteResponse(k)
  PROVE  /\ \/ k = 1 /\ handler = "write" /\ handler' = "write rest"
            \/ k = 2 /\ handler = "write rest" /\ handler' = "header"
         /\ handler \in {"write", "write rest"} /\ handler' \in {"write rest", "header"}
         /\ down' = Append(down, <<request, k>>)
         /\ UNCHANGED <<sent, sender, pending, request, up>>
         /\ UNCHANGED <<carry, processed, receiver, sequences, failed, hungUp>>
         /\ UNCHANGED <<serverVars, clientVars, faultVars>>
<1>1. /\ handler = <<"write", "write rest">>[k] /\ handler' = <<"write rest", "header">>[k]
      /\ down' = Append(down, <<request, k>>)
      /\ UNCHANGED <<serverVars, clientVars, workVars, failed, request, hungUp, up, faultVars>>
  BY DEF WriteResponse, Serve, OthersThanHandler
<1>2. UNCHANGED workVars
  BY <1>1
<1>5. /\ UNCHANGED <<sent, sender, pending>>
      /\ UNCHANGED <<carry, processed, receiver, sequences>>
  BY <1>2 DEF workVars, sendVars, recvVars
<1>6. CASE k = 1
  BY <1>1, <1>5, <1>6
<1>7. CASE k = 2
  BY <1>1, <1>5, <1>7
<1> QED
  BY <1>6, <1>7

(***************************************************************************)
(* The way of the requests.                                                *)
(***************************************************************************)
upVars == <<sent, sender, pending, handler, request, up>>

\* The steps that do something to them.
LEMMA UpSteps ==
  ASSUME [Next]_vars
  PROVE  \/ Accept \/ ReadHeader \/ ReadBody \/ (\E k \in {1, 2} : WriteResponse(k))
         \/ ServeFails \/ ReportError
         \/ StoreRequest \/ SendRequest \/ SendStop \/ Flush \/ SenderCancelled \/ SenderFails
         \/ Transfer \/ Connect
         \/ UNCHANGED upVars
<1> USE DEF upVars, serverVars, handleVars, clientVars, sendVars, recvVars, workVars, faultVars,
            OthersThanServer, OthersThanHandler, OthersThanReceiver, OthersThanClient
<1>1. CASE UNCHANGED vars
  BY <1>1 DEF vars
<1>2. CASE Listen \/ LookAtErrors \/ AcceptFails \/ CloseListener \/ ListenFails
  BY <1>2 DEF Listen, LookAtErrors, AcceptFails, CloseListener, CloseListenerWhen, ListenFails
<1>3. CASE Receiver
  <2>1. ASSUME NEW n, Recv(n) PROVE UNCHANGED upVars
    BY <2>1 DEF Recv
  <2> QED
    BY <1>3, <2>1 DEF Receiver, ReceiverGoesOn, RecvFails, TakeFrame, FramesDone, CheckEmpty
<1>6. CASE ServerTimeLower
  BY <1>6 DEF ServerTimeLower
<1>4. CASE PassBarrier \/ GiveUp \/ WorkFailed \/ StdlibDone \/ CloseConn \/ StopPoller \/ NetringDone
  BY <1>4 DEF PassBarrier, GiveUp, WorkFailed, StdlibDone, CloseConn, StopPoller, NetringDone
<1>5. CASE ConnectFails \/ PollerWaits \/ PollerStops \/ TimePasses
  BY <1>5 DEF ConnectFails, PollerWaits, PollerStops, TimePasses
<1> QED
  BY <1>1, <1>2, <1>3, <1>4, <1>5, <1>6 DEF Next, Server, Handler, Sender, Client, Fault

\* The types of what the sender and the handler keep.
LEMMA UpFacts ==
  ASSUME EchoTypes, UpInv
  PROVE  /\ sent \in 0 .. Requests /\ Requests \in Nat \ {0} /\ request \in Nat /\ Read \in Nat
         /\ up \in Seq(Fragment) /\ Len(up) \in Nat
         /\ pending \in Seq(Fragment) /\ Len(pending) \in Nat
         /\ Handed \in Nat /\ Handed = Read + Len(up) + Len(pending)
         /\ << >> \in Seq(Fragment) /\ Len(<< >>) = 0
<1>1. Read \in Nat
  BY DEF EchoTypes, Read
<1>2. /\ up \in Seq(Fragment) /\ Len(up) \in Nat
      /\ pending \in Seq(Fragment) /\ Len(pending) \in Nat
  BY DEF UpInv
<1>3. sent \in 0 .. Requests /\ Requests \in Nat \ {0} /\ request \in Nat
  BY RequestsAssumption DEF EchoTypes, UpInv
<1>4. << >> \in Seq(Fragment) /\ Len(<< >>) = 0
  BY EmptySeq
<1> QED
  BY <1>1, <1>2, <1>3, <1>4 DEF Handed

\* Nothing is moved, and at most the handler does something else.
LEMMA UpStays ==
  ASSUME UpInv, UNCHANGED <<sent, sender, pending, up>>, Reads' => Reads /\ Read' = Read
  PROVE  UpInv'
<1>1. Reads' => Handed' = Handed
  BY DEF Handed
<1>2. Reads' => UpRuns' /\ Counts'
  BY <1>1 DEF UpInv, UpRuns, Counts
<1> QED
  BY <1>2 DEF UpInv

\* ReadHeader, after which the handler goes on or is done.
LEMMA UpReadHeader ==
  ASSUME EchoTypes, UpInv, ReadHeader
  PROVE  UpInv'
<1>t. /\ sent \in 0 .. Requests /\ request \in Nat /\ Read \in Nat
      /\ up \in Seq(Fragment) /\ Len(up) \in Nat
      /\ pending \in Seq(Fragment) /\ Len(pending) \in Nat
  BY UpFacts
<1>1. /\ handler = "header" /\ up # << >> /\ up' = Tail(up)
      /\ handler' \in {"returned", "body"}
      /\ UNCHANGED <<sent, sender, pending, request>>
  BY DEF ReadHeader, Serve, OthersThanHandler, workVars, sendVars
<1>2. Reads /\ UpRuns /\ Counts
  BY <1>1 DEF Reads, UpInv
<1>3. /\ Runs(Tail(up), Read + 1) /\ Tail(up) \in Seq(Fragment) /\ Len(Tail(up)) = Len(up) - 1
  BY <1>t, <1>1, <1>2, RunsTail DEF UpRuns
<1>4. Reads' => handler' = "body"
  BY <1>1 DEF Reads
<1>5. ASSUME handler' = "body" PROVE UpRuns' /\ Counts'
  <2>1. Read' = Read + 1
    BY <1>t, <1>1, <1>5 DEF Read
  <2>2. Len(up') = Len(up) - 1 /\ Len(pending') = Len(pending)
    BY <1>1, <1>3
  <2>3. Read' + Len(up') = Read + Len(up)
    BY <1>t, <2>1, <2>2
  <2>4. Handed' = Handed
    BY <2>2, <2>3 DEF Handed
  <2>5. UpRuns'
    BY <1>1, <1>2, <1>3, <2>1, <2>3 DEF UpRuns
  <2>6. Counts'
    BY <1>1, <1>2, <2>4 DEF Counts
  <2> QED
    BY <2>5, <2>6
<1> QED
  BY <1>1, <1>3, <1>4, <1>5 DEF UpInv

\* ReadBody: the request it reads is the next one.
LEMMA UpReadBody ==
  ASSUME EchoTypes, UpInv, DownInv, ReadBody
  PROVE  UpInv' /\ request' = request + 1 /\ request + 1 <= sent
<1>t. /\ sent \in 0 .. Requests /\ request \in Nat /\ Read \in Nat
      /\ up \in Seq(Fragment) /\ Len(up) \in Nat
      /\ pending \in Seq(Fragment) /\ Len(pending) \in Nat
      /\ Handed = Read + Len(up) + Len(pending) /\ Requests \in Nat
  BY UpFacts
<1>1. /\ handler = "body" /\ handler' = "write" /\ up # << >> /\ up' = Tail(up)
      /\ request' = Head(up)[1] /\ UNCHANGED <<sent, sender, pending>>
  BY DEF ReadBody, Serve, OthersThanHandler, workVars, sendVars
<1>2. Reads /\ UpRuns /\ Counts
  BY <1>1 DEF Reads, UpInv
<1>3. /\ Runs(Tail(up), Read + 1) /\ Tail(up) \in Seq(Fragment) /\ Len(Tail(up)) = Len(up) - 1
      /\ IsAt(Head(up), Read + 1) /\ Len(up) # 0
  BY <1>t, <1>1, <1>2, RunsTail DEF UpRuns
<1>4. Read = 2 * request + 1 /\ Read + 1 = 2 * request + 2
  BY <1>t, <1>1 DEF Read
<1>5. request < Requests
  BY <1>1 DEF DownInv, Served
<1>6. Head(up) = <<request + 1, 2>>
  BY <1>t, <1>3, <1>4, <1>5, Places
<1>7. request' = request + 1
  BY <1>1, <1>6
<1>8. request + 1 <= sent
  <2>1. Handed >= 2 * request + 2
    BY <1>t, <1>3, <1>4
  <2>2. Handed <= 2 * sent \/ sent = Requests
    BY <1>2 DEF Counts
  <2> QED
    BY <1>t, <1>5, <2>1, <2>2
<1>9. Read' = Read + 1
  <2>1. Read' = 2 * request'
    BY <1>t, <1>1, <1>7 DEF Read
  <2> QED
    BY <1>t, <1>4, <1>7, <2>1
<1>10. Len(up') = Len(up) - 1 /\ Len(pending') = Len(pending)
  BY <1>1, <1>3
<1>11. Read' + Len(up') = Read + Len(up)
  BY <1>t, <1>9, <1>10
<1>12. Handed' = Handed
  BY <1>10, <1>11 DEF Handed
<1>13. UpRuns'
  BY <1>1, <1>2, <1>3, <1>9, <1>11 DEF UpRuns
<1>14. Counts'
  BY <1>1, <1>2, <1>12 DEF Counts
<1> QED
  BY <1>1, <1>3, <1>7, <1>8, <1>13, <1>14 DEF UpInv

\* StoreRequest takes the next request.
LEMMA UpStoreRequest ==
  ASSUME EchoTypes, UpInv, StoreRequest
  PROVE  UpInv'
<1>t. sent \in 0 .. Requests /\ Requests \in Nat
  BY UpFacts
<1>1. /\ sent < Requests /\ sender = "next" /\ sender' = "send" /\ sent' = sent + 1
      /\ UNCHANGED <<pending, handler, request, up>>
  BY DEF StoreRequest, SenderGoto, OthersThanSender, handleVars
<1>2. Read' = Read /\ Handed' = Handed /\ Reads' = Reads
  BY <1>1 DEF Read, Handed, Reads
<1>3. ASSUME Reads PROVE Handed' = 2 * sent' - 2 /\ Handed' <= 2 * sent'
  <2>1. Handed = 2 * sent
    BY <1>1, <1>3 DEF UpInv, Counts
  <2> QED
    BY <1>t, <1>1, <1>2, <2>1
<1>4. Reads' => UpRuns'
  BY <1>1, <1>2 DEF UpInv, UpRuns
<1>5. Reads' => Counts'
  BY <1>1, <1>2, <1>3 DEF Counts
<1>6. sent' <= Requests /\ sent' # 0
  BY <1>t, <1>1
<1> QED
  BY <1>1, <1>4, <1>5, <1>6 DEF UpInv

\* SendRequest hands over the two fragments of the request it took.
LEMMA UpSendRequest ==
  ASSUME EchoTypes, UpInv, SendRequest
  PROVE  UpInv'
<1>t. /\ sent \in 0 .. Requests /\ Requests \in Nat /\ Read \in Nat /\ Len(up) \in Nat
      /\ Handed = Read + Len(up) + Len(pending) /\ Len(<< >>) = 0
  BY UpFacts
<1>1. /\ pending = << >> /\ sender = "send" /\ sender' = "next"
      /\ pending' = <<<<sent, 1>>, <<sent, 2>>>>
      /\ UNCHANGED <<sent, handler, request, up>>
  BY DEF SendRequest, SenderGoto, OthersThanSender, handleVars, Frame
<1>2. /\ pending' \in Seq(Fragment) /\ Len(pending') = 2
      /\ pending'[1] = <<sent, 1>> /\ pending'[2] = <<sent, 2>>
  <2>1. <<sent, 1>> \in Fragment /\ <<sent, 2>> \in Fragment
    BY <1>t DEF Fragment
  <2> QED
    BY <1>1, <2>1
<1>3. Read' = Read /\ Reads' = Reads
  BY <1>1 DEF Read, Reads
<1>4. sent # 0
  BY <1>1 DEF UpInv
<1>5. ASSUME Reads PROVE UpRuns' /\ Counts'
  <2>1. Handed = 2 * sent - 2
    BY <1>1, <1>5 DEF UpInv, Counts
  <2>2. Read + Len(up) = 2 * sent - 2
    BY <1>t, <1>1, <2>1
  <2>3. Handed' = 2 * sent
    <3>1. Handed' = Read + Len(up) + 2
      BY <1>1, <1>2, <1>3 DEF Handed
    <3> QED
      BY <1>t, <2>2, <3>1
  <2>4. IsAt(<<sent, 1>>, 2 * sent - 2 + 1) /\ IsAt(<<sent, 2>>, 2 * sent - 2 + 2)
    <3> DEFINE n == sent - 1
    <3>1. /\ n \in Nat /\ n < Requests /\ n + 1 = sent
          /\ 2 * n + 1 = 2 * sent - 2 + 1 /\ 2 * n + 2 = 2 * sent - 2 + 2
      BY <1>t, <1>4
    <3> HIDE DEF n
    <3> QED
      BY <3>1, Places
  <2>5. Runs(pending', 2 * sent - 2)
    <3> SUFFICES ASSUME NEW i \in 1 .. 2 PROVE IsAt(pending'[i], 2 * sent - 2 + i)
      BY <1>2 DEF Runs
    <3>1. i = 1 \/ i = 2
      OBVIOUS
    <3> QED
      BY <1>2, <2>4, <3>1
  <2>6. UpRuns'
    BY <1>1, <1>3, <1>5, <2>2, <2>5 DEF UpInv, UpRuns
  <2>7. Handed' <= 2 * sent
    BY <1>t, <2>3
  <2>8. Counts'
    BY <1>1, <2>3, <2>7 DEF Counts
  <2> QED
    BY <2>6, <2>8
<1> QED
  BY <1>1, <1>2, <1>3, <1>5 DEF UpInv

\* SendStop hands over the stop frame behind the last request.
LEMMA UpSendStop ==
  ASSUME EchoTypes, UpInv, SendStop
  PROVE  UpInv'
<1>t. /\ sent \in 0 .. Requests /\ Requests \in Nat /\ Read \in Nat /\ Len(up) \in Nat
      /\ Handed = Read + Len(up) + Len(pending) /\ Len(<< >>) = 0
  BY UpFacts
<1>1. /\ sent = Requests /\ pending = << >> /\ sender = "next" /\ sender' = "flush"
      /\ pending' = <<<<0, 1>>>> /\ UNCHANGED <<sent, handler, request, up>>
  BY DEF SendStop, SenderGoto, OthersThanSender, handleVars, StopFrame
<1>2. pending' \in Seq(Fragment) /\ Len(pending') = 1 /\ pending'[1] = <<0, 1>>
  <2>1. <<0, 1>> \in Fragment
    BY DEF Fragment
  <2> QED
    BY <1>1, <2>1
<1>3. Read' = Read /\ Reads' = Reads
  BY <1>1 DEF Read, Reads
<1>4. ASSUME Reads PROVE UpRuns' /\ Counts'
  <2>1. Handed = 2 * sent
    BY <1>1, <1>4 DEF UpInv, Counts
  <2>2. Read + Len(up) = 2 * Requests
    BY <1>t, <1>1, <2>1
  <2>3. Handed' = 2 * Requests + 1
    <3>1. Handed' = Read + Len(up) + 1
      BY <1>1, <1>2, <1>3 DEF Handed
    <3> QED
      BY <2>2, <3>1
  <2>4. IsAt(<<0, 1>>, 2 * Requests + 1)
    BY <1>t, Places
  <2>5. Runs(pending', 2 * Requests)
    <3> SUFFICES ASSUME NEW i \in 1 .. 1 PROVE IsAt(pending'[i], 2 * Requests + i)
      BY <1>2 DEF Runs
    <3>1. i = 1
      OBVIOUS
    <3> QED
      BY <1>2, <2>4, <3>1
  <2>6. UpRuns'
    BY <1>1, <1>3, <1>4, <2>2, <2>5 DEF UpInv, UpRuns
  <2>7. Counts'
    BY <1>1, <2>3 DEF Counts
  <2> QED
    BY <2>6, <2>7
<1> QED
  BY <1>1, <1>2, <1>3, <1>4 DEF UpInv

\* Transfer moves one fragment on.
LEMMA UpTransfer ==
  ASSUME EchoTypes, UpInv, Transfer
  PROVE  UpInv'
<1>t. /\ Read \in Nat /\ up \in Seq(Fragment) /\ Len(up) \in Nat
      /\ pending \in Seq(Fragment) /\ Len(pending) \in Nat
  BY UpFacts
<1>1. /\ pending # << >> /\ up' = Append(up, Head(pending)) /\ pending' = Tail(pending)
      /\ UNCHANGED <<sent, sender, handler, request>>
  BY DEF Transfer, handleVars
<1>2. Head(pending) \in Fragment /\ Tail(pending) \in Seq(Fragment)
  BY <1>t, <1>1, HeadTailProperties
<1>3. up' \in Seq(Fragment)
  BY <1>t, <1>1, <1>2, AppendProperties
<1>4. Read' = Read /\ Reads' = Reads
  BY <1>1 DEF Read, Reads
<1>5. ASSUME Reads PROVE UpRuns' /\ Counts'
  <2> DEFINE p == Read + Len(up)
  <2>1. p \in Nat /\ p = Read + Len(up) /\ Runs(pending, p) /\ Runs(up, Read) /\ Counts
    BY <1>t, <1>5 DEF UpInv, UpRuns
  <2> HIDE DEF p
  <2>2. IsAt(Head(pending), p + 1) /\ Runs(pending', p + 1) /\ Len(pending') = Len(pending) - 1
    BY <1>t, <1>1, <2>1, RunsTail
  <2>3. Read + Len(up) + 1 = p + 1
    BY <2>1
  <2>4. Runs(up', Read) /\ Len(up') = Len(up) + 1
    BY <1>t, <1>1, <1>2, <2>1, <2>2, <2>3, RunsAppend
  <2>5. Read + Len(up') = p + 1 /\ Read + Len(up') + Len(pending') = p + Len(pending)
    BY <1>t, <2>1, <2>2, <2>4
  <2>6. Handed' = Handed
    BY <1>4, <2>1, <2>5 DEF Handed
  <2>7. UpRuns'
    BY <1>4, <2>2, <2>4, <2>5 DEF UpRuns
  <2>8. Counts'
    BY <1>1, <2>1, <2>6 DEF Counts
  <2> QED
    BY <2>7, <2>8
<1> QED
  BY <1>1, <1>2, <1>3, <1>4, <1>5 DEF UpInv

\* Every step.
LEMMA UpStep ==
  ASSUME EchoTypes, UpInv, DownInv, EndInv, [Next]_vars
  PROVE  UpInv'
<1>1. CASE UNCHANGED upVars
  <2>1. Reads' = Reads /\ Read' = Read
    BY <1>1 DEF upVars, Reads, Read
  <2> QED
    BY <1>1, <2>1, UpStays DEF upVars
<1>2. CASE Accept
  <2>1. /\ handler = "none" /\ handler' = "header" /\ UNCHANGED <<sent, sender, pending, request, up>>
    BY <1>2 DEF Accept, clientVars, workVars, sendVars
  <2>2. Reads /\ Read' = Read
    BY <2>1 DEF Read, Reads
  <2> QED
    BY <2>1, <2>2, UpStays
<1>3. ASSUME NEW k \in {1, 2}, WriteResponse(k) PROVE UpInv'
  <2>1. /\ handler \in {"write", "write rest"} /\ handler' \in {"write rest", "header"}
        /\ UNCHANGED <<sent, sender, pending, request, up>>
    BY <1>3, WriteEffect, Zenon
  <2>2. Reads /\ Read' = Read
    BY <2>1 DEF Read, Reads
  <2> QED
    BY <2>1, <2>2, UpStays
<1>4. CASE ServeFails \/ ReportError
  <2>1. handler' \in {"report", "returned"} /\ UNCHANGED <<sent, sender, pending, up>>
    BY <1>4 DEF ServeFails, ReportError, Serve, OthersThanHandler, clientVars, workVars, sendVars
  <2>2. ~Reads'
    BY <2>1 DEF Reads
  <2> QED
    BY <2>1, <2>2, UpStays
<1>5. CASE Flush \/ SenderCancelled \/ SenderFails
  <2>1. sender' = "returned" /\ UNCHANGED <<sent, pending, handler, request, up>>
    BY <1>5 DEF Flush, SenderCancelled, SenderFails, SenderGoto, OthersThanSender, handleVars
  <2>2. Read' = Read /\ Handed' = Handed /\ Reads' = Reads
    BY <2>1 DEF Read, Handed, Reads
  <2>3. Reads' => UpRuns' /\ Counts'
    BY <2>1, <2>2 DEF UpInv, UpRuns, Counts
  <2> QED
    BY <2>1, <2>3 DEF UpInv
<1>6. CASE Connect
  <2>1. /\ client = "connect" /\ sender' = "next" /\ UNCHANGED <<sent, pending, handler, request, up>>
    BY <1>6 DEF Connect, ClientGoto, OthersThanClient, handleVars
  <2>2. sender = "none"
    BY <2>1 DEF EndInv
  <2>3. Read' = Read /\ Handed' = Handed /\ Reads' = Reads
    BY <2>1 DEF Read, Handed, Reads
  <2>4. Reads' => UpRuns' /\ Counts'
    BY <2>1, <2>2, <2>3 DEF UpInv, UpRuns, Counts
  <2> QED
    BY <2>1, <2>4 DEF UpInv
<1> QED
  BY UpSteps, <1>1, <1>2, <1>3, <1>4, <1>5, <1>6, UpReadHeader, UpReadBody, UpStoreRequest,
     UpSendRequest, UpSendStop, UpTransfer

(***************************************************************************)
(* The way of the responses.                                               *)
(***************************************************************************)

\* What every step but six does to it: ReadHeader, ReadBody, WriteResponse,
\* Recv, TakeFrame and ServerTimeLower.
LEMMA DownSteps ==
  ASSUME [Next]_vars
  PROVE  \/ ReadHeader \/ ReadBody \/ (\E k \in {1, 2} : WriteResponse(k))
         \/ (\E n \in 1 .. Room : Recv(n)) \/ TakeFrame \/ ServerTimeLower
         \/ /\ UNCHANGED <<carry, down, processed, request>>
            /\ sent' = sent \/ sent' = sent + 1
            /\ handler' = handler \/ (handler = "none" /\ handler' = "header")
                 \/ handler' \in {"report", "returned"}
<1> USE DEF serverVars, handleVars, clientVars, sendVars, recvVars, workVars, faultVars,
            OthersThanServer, OthersThanHandler, OthersThanSender, OthersThanReceiver,
            OthersThanClient
<1>1. CASE UNCHANGED vars
  BY <1>1 DEF vars
<1>2. CASE Listen \/ Accept \/ LookAtErrors \/ AcceptFails \/ CloseListener \/ ListenFails
  BY <1>2 DEF Listen, Accept, LookAtErrors, AcceptFails, CloseListener, CloseListenerWhen,
              ListenFails
<1>3. CASE Sender
  BY <1>3 DEF Sender, StoreRequest, SendRequest, SendStop, Flush, SenderCancelled, SenderFails
<1>4. CASE Transfer \/ ReceiverGoesOn \/ RecvFails \/ FramesDone \/ CheckEmpty
  BY <1>4 DEF Transfer, ReceiverGoesOn, RecvFails, FramesDone, CheckEmpty
<1>5. CASE PassBarrier \/ Connect \/ GiveUp \/ WorkFailed \/ StdlibDone \/ CloseConn
            \/ StopPoller \/ NetringDone
  BY <1>5 DEF PassBarrier, Connect, GiveUp, WorkFailed, StdlibDone, CloseConn, StopPoller,
              NetringDone
<1>6. CASE ConnectFails \/ PollerWaits \/ PollerStops \/ TimePasses
  BY <1>6 DEF ConnectFails, PollerWaits, PollerStops, TimePasses
<1>7. CASE ServeFails \/ ReportError
  BY <1>7 DEF ServeFails, ReportError, Serve
<1> QED
  BY <1>1, <1>2, <1>3, <1>4, <1>5, <1>6, <1>7 DEF Next, Server, Handler, Receiver, Client, Fault

\* The types of what the handler and the receiver keep.
LEMMA DownFacts ==
  ASSUME EchoTypes, UpInv, DownInv
  PROVE  /\ sent \in 0 .. Requests /\ Requests \in Nat /\ request \in Nat /\ processed \in Nat
         /\ carry \in Seq(Fragment) /\ Len(carry) \in Nat
         /\ down \in Seq(Fragment) /\ Len(down) \in Nat
         /\ Written \in Nat /\ Written = 2 * processed + Len(carry) + Len(down)
         /\ Written <= 2 * request /\ request <= sent
<1>1. processed \in Nat
  BY DEF EchoTypes
<1>2. /\ carry \in Seq(Fragment) /\ Len(carry) \in Nat
      /\ down \in Seq(Fragment) /\ Len(down) \in Nat
  BY DEF DownInv
<1>3. Written <= 2 * request /\ request <= sent
  BY DEF DownInv, Served
<1>4. sent \in 0 .. Requests /\ Requests \in Nat /\ request \in Nat
  BY UpFacts
<1> QED
  BY <1>1, <1>2, <1>3, <1>4 DEF Written

\* ReadHeader: the handler goes on only when there is a next request, and
\* what it takes for the end is the stop frame behind the last one.
LEMMA HeaderRead ==
  ASSUME EchoTypes, UpInv, ReadHeader
  PROVE  /\ handler = "header" /\ UNCHANGED <<carry, down, processed, request, sent>>
         /\ \/ handler' = "body" /\ request < Requests
            \/ /\ handler' = "returned" /\ ~ (request < Requests) /\ sent = Requests
               /\ Handed = 2 * Requests + 1 /\ Handed >= 2 * request + 1
               /\ Read = 2 * request /\ Len(up) >= 1
<1>t. /\ sent \in 0 .. Requests /\ Requests \in Nat /\ request \in Nat /\ Read \in Nat
      /\ up \in Seq(Fragment) /\ Len(up) \in Nat /\ Len(pending) \in Nat
      /\ Handed = Read + Len(up) + Len(pending)
  BY UpFacts
<1>1. /\ handler = "header" /\ up # << >>
      /\ handler' = IF Head(up)[1] = 0 THEN "returned" ELSE "body"
      /\ UNCHANGED <<carry, down, processed, request, sent>>
  BY DEF ReadHeader, Serve, OthersThanHandler, workVars, sendVars, recvVars
<1>2. Reads /\ UpRuns /\ Counts
  BY <1>1 DEF Reads, UpInv
<1>3. IsAt(Head(up), Read + 1) /\ Len(up) >= 1
  BY <1>t, <1>1, <1>2, RunsTail DEF UpRuns
<1>4. Read = 2 * request
  BY <1>t, <1>1 DEF Read
<1>5. Head(up) = IF request < Requests THEN <<request + 1, 1>> ELSE <<0, 1>>
  BY <1>t, <1>3, <1>4, Places
<1>6. Head(up)[1] = IF request < Requests THEN request + 1 ELSE 0
  BY <1>5
<1>7. CASE request < Requests
  <2>1. Head(up)[1] # 0
    BY <1>t, <1>6, <1>7
  <2> QED
    BY <1>1, <1>7, <2>1
<1>8. CASE ~ (request < Requests)
  <2>1. Handed >= 2 * request + 1
    BY <1>t, <1>3, <1>4
  <2>2. Handed >= 2 * Requests + 1
    BY <1>t, <1>8, <2>1
  <2>3. Handed <= 2 * sent \/ (sent = Requests /\ Handed = 2 * Requests + 1)
    BY <1>2 DEF Counts
  <2>4. ~ (Handed <= 2 * sent)
    BY <1>t, <2>2
  <2> QED
    BY <1>1, <1>3, <1>4, <1>6, <1>8, <2>1, <2>3, <2>4
<1> QED
  BY <1>7, <1>8

\* WriteResponse puts the next fragment of the stream behind the others.
LEMMA DownWrite ==
  ASSUME EchoTypes, UpInv, DownInv, NEW k \in {1, 2}, WriteResponse(k)
  PROVE  DownInv'
<1>t. /\ sent \in 0 .. Requests /\ Requests \in Nat /\ request \in Nat /\ processed \in Nat
      /\ carry \in Seq(Fragment) /\ Len(carry) \in Nat
      /\ down \in Seq(Fragment) /\ Len(down) \in Nat
      /\ Written = 2 * processed + Len(carry) + Len(down) /\ Written \in Nat
      /\ request <= sent
  BY DownFacts
<1>1. /\ \/ k = 1 /\ handler = "write" /\ handler' = "write rest"
         \/ k = 2 /\ handler = "write rest" /\ handler' = "header"
      /\ down' = Append(down, <<request, k>>)
      /\ UNCHANGED <<sent, carry, processed, request>>
  BY WriteEffect, Zenon
<1>2. DownRuns /\ Served
  BY DEF DownInv
<1>n. /\ request \in Nat /\ processed \in Nat /\ Len(carry) \in Nat /\ Len(down) \in Nat
      /\ Written = 2 * processed + Len(carry) + Len(down) /\ Written \in Nat
  BY <1>t
<1>s. UNCHANGED <<sent, carry, processed, request>>
  BY <1>1
<1>3. Written = 2 * request - 3 + k
  <2>1. (k = 1 /\ Written = 2 * request - 2) \/ (k = 2 /\ Written = 2 * request - 1)
    BY <1>1, <1>2 DEF Served
  <2> QED
    BY <1>n, <2>1
<1>4. request \in 1 .. Requests
  BY <1>t, <1>3
<1>5. <<request, k>> \in Fragment
  BY <1>t DEF Fragment
<1>6. IsAt(<<request, k>>, Written + 1)
  <2> DEFINE n == request - 1
  <2>1. n \in Nat /\ n < Requests /\ n + 1 = request
    BY <1>t, <1>4
  <2>2. k = 1 => Written + 1 = 2 * n + 1
    BY <1>t, <1>3, <2>1
  <2>3. k = 2 => Written + 1 = 2 * n + 2
    BY <1>t, <1>3, <2>1
  <2>4. k = 1 \/ k = 2
    OBVIOUS
  <2> HIDE DEF n
  <2>5. IsAt(<<request, 1>>, 2 * n + 1) /\ IsAt(<<request, 2>>, 2 * n + 2)
    BY <2>1, Places
  <2> QED
    BY <2>2, <2>3, <2>4, <2>5
<1>7. down' \in Seq(Fragment) /\ Len(down') = Len(down) + 1 /\ Runs(down', 2 * processed + Len(carry))
  <2> DEFINE p == 2 * processed + Len(carry)
             f == <<request, k>>
  <2>1. p \in Nat /\ Written + 1 = p + Len(down) + 1
    BY <1>n
  <2>2. Runs(down, p)
    BY <1>2 DEF DownRuns
  <2>3. f \in Fragment /\ IsAt(f, Written + 1) /\ down' = Append(down, f)
    BY <1>1, <1>5, <1>6
  <2> HIDE DEF p, f
  <2>4. down' \in Seq(Fragment) /\ Len(down') = Len(down) + 1 /\ Runs(down', p)
    BY <1>t, <2>1, <2>2, <2>3, RunsAppend
  <2> QED
    BY <2>4 DEF p
<1>8. Written' = Written + 1
  <2>1. Written' = 2 * processed + Len(carry) + Len(down')
    BY <1>s DEF Written
  <2> QED
    BY <1>n, <1>7, <2>1
<1>9. DownRuns'
  BY <1>1, <1>2, <1>7 DEF DownRuns
<1>10. Served'
  <2>1. k = 1 => Written' = 2 * request - 1
    BY <1>t, <1>3, <1>8
  <2>2. k = 2 => Written' = 2 * request
    BY <1>t, <1>3, <1>8
  <2>3. Written' <= 2 * request
    <3>1. k = 1 \/ k = 2
      OBVIOUS
    <3> QED
      BY <1>n, <2>1, <2>2, <3>1
  <2> QED
    BY <1>1, <2>1, <2>2, <2>3 DEF Served
<1> QED
  BY <1>t, <1>1, <1>7, <1>9, <1>10 DEF DownInv

\* Recv cuts the stream at another place.
LEMMA DownRecv ==
  ASSUME EchoTypes, UpInv, DownInv, NEW n \in Nat, Recv(n)
  PROVE  DownInv' /\ Written' = Written
<1>t. /\ processed \in Nat /\ carry \in Seq(Fragment) /\ Len(carry) \in Nat
      /\ down \in Seq(Fragment) /\ Len(down) \in Nat
      /\ Written = 2 * processed + Len(carry) + Len(down)
  BY DownFacts
<1>1. /\ n \in 0 .. Len(down)
      /\ carry' = carry \o SubSeq(down, 1, n) /\ down' = SubSeq(down, n + 1, Len(down))
      /\ UNCHANGED <<sent, processed, request, handler>>
  BY <1>t DEF Recv, OthersThanReceiver, handleVars, sendVars
<1>n. processed \in Nat /\ Len(carry) \in Nat /\ Len(down) \in Nat /\ n \in Nat
  BY <1>t
<1>2. DownRuns /\ Served
  BY DEF DownInv
<1> DEFINE p == 2 * processed
           q == p + Len(carry)
           a == SubSeq(down, 1, n)
<1>3. p \in Nat /\ q \in Nat /\ q = p + Len(carry) /\ Runs(carry, p) /\ Runs(down, q)
  BY <1>t, <1>2 DEF DownRuns
<1> HIDE DEF p, q
<1>4. a \in Seq(Fragment) /\ Len(a) = n /\ Runs(a, q)
  BY <1>t, <1>1, <1>3, RunsFirst
<1>5. down' \in Seq(Fragment) /\ Len(down') = Len(down) - n /\ Runs(down', q + n)
  BY <1>t, <1>1, <1>3, RunsRest
<1>6. carry' = carry \o a
  BY <1>1
<1> HIDE DEF a
<1>7. carry' \in Seq(Fragment) /\ Len(carry') = Len(carry) + n /\ Runs(carry', p)
  BY <1>t, <1>3, <1>4, <1>6, RunsConcat
<1>8. 2 * processed' = p /\ 2 * processed' + Len(carry') = q + n
  <2>1. processed' = processed /\ Len(carry') = Len(carry) + n
    BY <1>1, <1>7
  <2>2. p + Len(carry') = q + n
    BY <1>n, <1>3, <2>1
  <2> QED
    BY <2>1, <2>2 DEF p
<1>9. DownRuns'
  BY <1>5, <1>7, <1>8 DEF DownRuns
<1>10. Written' = Written
  <2>1. /\ Len(down') = Len(down) - n /\ Len(carry') = Len(carry) + n
        /\ processed' = processed
    BY <1>1, <1>5, <1>7
  <2> QED
    BY <1>n, <2>1 DEF Written
<1>11. Served'
  BY <1>1, <1>2, <1>10 DEF Served
<1> QED
  BY <1>1, <1>5, <1>7, <1>9, <1>10, <1>11 DEF DownInv

\* TakeFrame and ServerTimeLower take two fragments, a frame, from the carry.
LEMMA DownTake ==
  ASSUME EchoTypes, UpInv, DownInv, TakeFrame \/ ServerTimeLower
  PROVE  DownInv' /\ Written' = Written
<1>t. /\ processed \in Nat /\ carry \in Seq(Fragment) /\ Len(carry) \in Nat
      /\ down \in Seq(Fragment) /\ Len(down) \in Nat
      /\ Written = 2 * processed + Len(carry) + Len(down)
  BY DownFacts
<1>1. /\ 2 \in 0 .. Len(carry)
      /\ carry' = SubSeq(carry, 3, Len(carry)) /\ processed' = processed + 1
      /\ UNCHANGED <<down, sent, request, handler>>
  BY <1>t DEF TakeFrame, ServerTimeLower, HasFrame, OthersThanReceiver, handleVars, sendVars
<1>2. DownRuns /\ Served
  BY DEF DownInv
<1>3. carry' \in Seq(Fragment) /\ Len(carry') = Len(carry) - 2 /\ Runs(carry', 2 * processed + 2)
  <2> DEFINE p == 2 * processed
             m == 2
             l == m + 1
  <2>1. p \in Nat /\ Runs(carry, p) /\ m \in 0 .. Len(carry) /\ carry' = SubSeq(carry, m + 1, Len(carry))
    BY <1>t, <1>1, <1>2 DEF DownRuns
  <2> HIDE DEF p, m
  <2>2. carry' \in Seq(Fragment) /\ Len(carry') = Len(carry) - m /\ Runs(carry', p + m)
    BY <1>t, <2>1, RunsRest
  <2> QED
    BY <2>2 DEF p, m
<1>4. /\ 2 * processed' = 2 * processed + 2
      /\ 2 * processed' + Len(carry') = 2 * processed + Len(carry)
  <2>1. processed' = processed + 1 /\ Len(carry') = Len(carry) - 2 /\ Len(carry) \in Nat
    BY <1>t, <1>1, <1>3
  <2>2. processed \in Nat
    BY <1>t
  <2> QED
    BY <2>1, <2>2
<1>5. DownRuns'
  BY <1>1, <1>2, <1>3, <1>4 DEF DownRuns
<1>6. Written' = Written
  BY <1>t, <1>1, <1>4 DEF Written
<1>7. Served'
  BY <1>1, <1>2, <1>6 DEF Served
<1> QED
  BY <1>1, <1>3, <1>5, <1>6, <1>7 DEF DownInv

\* Every step.
LEMMA DownStep ==
  ASSUME EchoTypes, UpInv, DownInv, [Next]_vars
  PROVE  DownInv'
<1>t. sent \in Nat /\ request \in Nat /\ request <= sent /\ Requests \in Nat
  BY DownFacts
<1>0. DownRuns /\ Served /\ carry \in Seq(Fragment) /\ down \in Seq(Fragment)
  BY DEF DownInv
<1>1. CASE ReadHeader
  <2>1. /\ handler = "header" /\ UNCHANGED <<carry, down, processed, request, sent>>
        /\ (handler' = "returned" \/ (handler' = "body" /\ request < Requests))
    BY <1>1, HeaderRead
  <2>2. DownRuns' /\ Written' = Written
    BY <1>0, <2>1 DEF DownRuns, Written
  <2>3. Served'
    BY <1>0, <2>1, <2>2 DEF Served
  <2> QED
    BY <1>0, <1>t, <2>1, <2>2, <2>3 DEF DownInv
<1>2. CASE ReadBody
  <2>1. request' = request + 1 /\ request + 1 <= sent
    BY <1>2, UpReadBody
  <2>2. handler = "body" /\ handler' = "write" /\ UNCHANGED <<carry, down, processed, sent>>
    BY <1>2 DEF ReadBody, Serve, OthersThanHandler, workVars, sendVars, recvVars
  <2>3. DownRuns' /\ Written' = Written
    BY <1>0, <2>2 DEF DownRuns, Written
  <2>4. Written = 2 * request
    BY <1>0, <2>2 DEF Served
  <2>5. Written' = 2 * request' - 2 /\ Written' <= 2 * request'
    BY <1>t, <2>1, <2>3, <2>4
  <2>6. Served'
    BY <2>2, <2>5 DEF Served
  <2> QED
    BY <1>0, <1>t, <2>1, <2>2, <2>3, <2>6 DEF DownInv
<1>3. ASSUME NEW k \in {1, 2}, WriteResponse(k) PROVE DownInv'
  BY <1>3, DownWrite
<1>4. ASSUME NEW n \in 1 .. Room, Recv(n) PROVE DownInv'
  BY <1>4, DownRecv, RoomAssumption
<1>5. CASE TakeFrame \/ ServerTimeLower
  BY <1>5, DownTake
<1>6. CASE /\ UNCHANGED <<carry, down, processed, request>>
           /\ sent' = sent \/ sent' = sent + 1
           /\ handler' = handler \/ (handler = "none" /\ handler' = "header")
                \/ handler' \in {"report", "returned"}
  <2>1. DownRuns' /\ Written' = Written
    BY <1>0, <1>6 DEF DownRuns, Written
  <2>2. Served'
    BY <1>0, <1>6, <2>1 DEF Served
  <2>3. request' <= sent'
    BY <1>t, <1>6
  <2> QED
    BY <1>0, <1>6, <2>1, <2>2, <2>3 DEF DownInv
<1> QED
  BY DownSteps, <1>1, <1>2, <1>3, <1>4, <1>5, <1>6

(***************************************************************************)
(* The receiver.                                                           *)
(***************************************************************************)

\* The frame at the beginning of the carry is the response to the next
\* request, which was stored and has not been answered.
LEMMA NextFrame ==
  ASSUME EchoTypes, UpInv, DownInv, AnswerInv, receiver = "frames", HasFrame
  PROVE  /\ carry[1] = <<processed + 1, 1>> /\ carry[2] = <<processed + 1, 2>>
         /\ carry[1][1] = processed + 1
         /\ processed + 1 <= sent /\ processed + 1 \in sequences
<1>t. /\ sent \in 0 .. Requests /\ Requests \in Nat /\ request \in Nat /\ processed \in Nat
      /\ Len(carry) \in Nat /\ Len(down) \in Nat
      /\ Written = 2 * processed + Len(carry) + Len(down)
      /\ Written <= 2 * request /\ request <= sent
  BY DownFacts
<1>1. Len(carry) >= 2 /\ processed < Requests
  BY DEF HasFrame
<1>2. processed + 1 <= sent
  BY <1>t, <1>1
<1>3. processed + 1 \in sequences
  BY <1>t, <1>2 DEF AnswerInv
<1>4. IsAt(carry[1], 2 * processed + 1) /\ IsAt(carry[2], 2 * processed + 2)
  <2>1. 1 \in 1 .. Len(carry) /\ 2 \in 1 .. Len(carry)
    BY <1>t, <1>1
  <2>2. Runs(carry, 2 * processed)
    BY DEF DownInv, DownRuns
  <2> QED
    BY <2>1, <2>2 DEF Runs
<1>5. carry[1] = <<processed + 1, 1>> /\ carry[2] = <<processed + 1, 2>>
  BY <1>t, <1>1, <1>4, Places
<1> QED
  BY <1>2, <1>3, <1>5

\* TakeFrame: it is no unknown ID.
LEMMA TakeEffect ==
  ASSUME EchoTypes, UpInv, DownInv, AnswerInv, TakeFrame
  PROVE  /\ receiver = "frames" /\ receiver' = "frames"
         /\ processed' = processed + 1 /\ sequences' = sequences \ {processed + 1}
         /\ processed + 1 <= sent
         /\ UNCHANGED <<failed, sent>>
<1>1. carry[1][1] = processed + 1 /\ processed + 1 <= sent /\ processed + 1 \in sequences
  BY NextFrame DEF TakeFrame, ReceiverGoto
<1> QED
  BY <1>1 DEF TakeFrame, ReceiverGoto, OthersThanReceiver, sendVars

\* ServerTimeLower: netringClient returns an error.
LEMMA RefuseEffect ==
  ASSUME ServerTimeLower
  PROVE  /\ receiver = "frames" /\ receiver' = "refused" /\ faulty' /\ impl' = impl
         /\ failed' = failed \/ failed' = failed \cup {"receiver"}
         /\ impl = "netring" => "receiver" \in failed'
<1>1. /\ receiver = "frames" /\ receiver' = "refused" /\ faulty' /\ impl' = impl
      /\ failed' \in Complaints
  BY DEF ServerTimeLower, ReceiverGoto, clientVars
<1>2. CASE impl = "stdlib"
  BY <1>1, <1>2 DEF Complaints
<1>3. CASE impl # "stdlib"
  <2>1. failed' = failed \cup {"receiver"}
    BY <1>1, <1>3 DEF Complaints
  <2> QED
    BY <1>1, <2>1
<1> QED
  BY <1>2, <1>3

\* The steps that do something to the receiver or the IDs.
LEMMA AnswerSteps ==
  ASSUME [Next]_vars
  PROVE  \/ StoreRequest \/ Connect
         \/ ReceiverGoesOn \/ (\E n \in 1 .. Room : Recv(n)) \/ RecvFails
         \/ TakeFrame \/ FramesDone \/ CheckEmpty \/ ServerTimeLower
         \/ /\ UNCHANGED <<sequences, processed, sent, carry, receiver, impl>>
            /\ failed \subseteq failed' /\ (faulty => faulty')
<1> USE DEF serverVars, handleVars, clientVars, sendVars, recvVars, workVars, faultVars,
            OthersThanServer, OthersThanHandler, OthersThanSender, OthersThanReceiver,
            OthersThanClient, Fail
<1>1. CASE UNCHANGED vars
  BY <1>1 DEF vars
<1>2. CASE Listen \/ Accept \/ AcceptFails \/ CloseListener \/ ListenFails
  BY <1>2 DEF Listen, Accept, AcceptFails, CloseListener, CloseListenerWhen, ListenFails
<1>8. CASE LookAtErrors
  BY <1>8 DEF LookAtErrors
<1>3. CASE SendRequest \/ SendStop \/ Flush \/ SenderCancelled \/ SenderFails
  BY <1>3 DEF SendRequest, SendStop, Flush, SenderCancelled, SenderFails
<1>4. CASE Transfer
  BY <1>4 DEF Transfer
<1>5. CASE PassBarrier \/ GiveUp \/ WorkFailed \/ StdlibDone \/ CloseConn
            \/ StopPoller \/ NetringDone
  BY <1>5 DEF PassBarrier, GiveUp, WorkFailed, StdlibDone, CloseConn, StopPoller, NetringDone
<1>6. CASE ConnectFails \/ PollerWaits \/ PollerStops \/ TimePasses
  BY <1>6 DEF ConnectFails, PollerWaits, PollerStops, TimePasses
<1>7. CASE ReadHeader \/ ReadBody \/ ServeFails \/ ReportError
  BY <1>7 DEF ReadHeader, ReadBody, ServeFails, ReportError
<1>9. ASSUME NEW k \in {1, 2}, WriteResponse(k)
      PROVE  UNCHANGED <<sequences, processed, sent, carry, receiver, impl, failed, faulty>>
  BY <1>9 DEF WriteResponse
<1> QED
  BY <1>1, <1>2, <1>3, <1>4, <1>5, <1>6, <1>7, <1>8, <1>9
  DEF Next, Server, Handler, Sender, Receiver, Client, Fault

\* Every step.
LEMMA AnswerStep ==
  ASSUME EchoTypes, UpInv, DownInv, AnswerInv, EndInv, [Next]_vars
  PROVE  AnswerInv'
<1>t. /\ sent \in Nat /\ Requests \in Nat /\ processed \in Nat /\ Len(carry) \in Nat
      /\ processed <= sent /\ processed <= Requests
  <2>1. /\ sent \in 0 .. Requests /\ Requests \in Nat /\ request \in Nat /\ processed \in Nat
        /\ Len(carry) \in Nat /\ Len(down) \in Nat
        /\ Written = 2 * processed + Len(carry) + Len(down)
        /\ Written <= 2 * request /\ request <= sent
    BY DownFacts
  <2> QED
    BY <2>1
<1>0. receiver # "refused" => sequences = processed + 1 .. sent
  BY DEF AnswerInv
<1>1. CASE StoreRequest
  <2>1. /\ sent' = sent + 1 /\ sequences' = sequences \cup {sent + 1}
        /\ UNCHANGED <<processed, carry, receiver, failed, impl, faulty>>
    BY <1>1 DEF StoreRequest, OthersThanSender, recvVars, clientVars, faultVars
  <2>2. (processed + 1 .. sent) \cup {sent + 1} = processed + 1 .. sent + 1
    BY <1>t
  <2> QED
    BY <1>0, <2>1, <2>2 DEF AnswerInv
<1>2. CASE Connect
  <2>1. /\ client = "connect" /\ receiver' = "loop"
        /\ UNCHANGED <<sequences, processed, sent, carry, failed>>
    BY <1>2 DEF Connect, ClientGoto, OthersThanClient
  <2>2. carry = << >> /\ receiver = "none"
    BY <2>1 DEF EndInv, AnswerInv
  <2>3. Len(carry) = 0
    BY <2>2, EmptySeq
  <2> QED
    BY <1>0, <2>1, <2>2, <2>3 DEF AnswerInv
<1>3. CASE ReceiverGoesOn
  <2>1. /\ receiver = "loop" /\ processed < Requests
        /\ receiver' = IF failed # {} THEN "returned" ELSE "recv"
        /\ UNCHANGED <<sequences, processed, sent, carry, failed>>
    BY <1>3 DEF ReceiverGoesOn, ReceiverGoto, OthersThanReceiver, sendVars, WorkCancelled
  <2>2. Len(carry) < 2
    BY <1>t, <2>1 DEF AnswerInv
  <2> QED
    BY <1>0, <2>1, <2>2 DEF AnswerInv
<1>4. ASSUME NEW n \in 1 .. Room, Recv(n) PROVE AnswerInv'
  <2>1. receiver = "recv" /\ receiver' = "frames" /\ UNCHANGED <<sequences, processed, sent>>
    BY <1>4 DEF Recv, ReceiverGoto, OthersThanReceiver, sendVars
  <2> QED
    BY <1>0, <2>1 DEF AnswerInv
<1>5. CASE RecvFails
  <2>1. /\ receiver = "recv" /\ receiver' = "returned" /\ failed' # {}
        /\ UNCHANGED <<sequences, processed, sent, carry>>
    BY <1>5 DEF RecvFails, ReceiverGoto, OthersThanReceiver, sendVars, Fail
  <2> QED
    BY <1>0, <2>1 DEF AnswerInv
<1>6. CASE TakeFrame
  <2>1. /\ receiver = "frames" /\ receiver' = "frames" /\ processed' = processed + 1
        /\ sequences' = sequences \ {processed + 1} /\ processed + 1 <= sent /\ sent' = sent
    BY <1>6, TakeEffect
  <2>2. (processed + 1 .. sent) \ {processed + 1} = processed + 1 + 1 .. sent
    BY <1>t
  <2> QED
    BY <1>0, <2>1, <2>2 DEF AnswerInv
<1>7. CASE FramesDone
  <2>1. /\ receiver = "frames" /\ receiver' = "loop" /\ ~ (Len(carry) >= 2 /\ processed < Requests)
        /\ UNCHANGED <<sequences, processed, sent, carry, failed>>
    BY <1>7 DEF FramesDone, HasFrame, ReceiverGoto, OthersThanReceiver, sendVars
  <2>2. Len(carry) < 2 \/ processed = Requests
    BY <1>t, <2>1
  <2> QED
    BY <1>0, <2>1, <2>2 DEF AnswerInv
<1>8. CASE CheckEmpty
  <2>1. /\ receiver = "loop" /\ receiver' = "returned" /\ processed = Requests
        /\ UNCHANGED <<sequences, processed, sent, carry>>
    BY <1>8 DEF CheckEmpty, ReceiverGoto, OthersThanReceiver, sendVars
  <2> QED
    BY <1>0, <2>1 DEF AnswerInv
<1>9. CASE /\ UNCHANGED <<sequences, processed, sent, carry, receiver, impl>>
           /\ failed \subseteq failed' /\ (faulty => faulty')
  <2>1. (failed # {} => failed' # {}) /\ ("receiver" \in failed => "receiver" \in failed')
    BY <1>9
  <2> QED
    BY <1>9, <2>1 DEF AnswerInv
<1>10. CASE ServerTimeLower
  <2>1. receiver' = "refused" /\ faulty' /\ (impl' = "netring" => "receiver" \in failed')
    BY <1>10, RefuseEffect
  <2> QED
    BY <2>1 DEF AnswerInv
<1> QED
  BY AnswerSteps, <1>1, <1>2, <1>3, <1>4, <1>5, <1>6, <1>7, <1>8, <1>9, <1>10

(***************************************************************************)
(* Who has ended.                                                          *)
(***************************************************************************)

\* A worker that has not returned takes a step.
LEMMA EndWorks ==
  ASSUME EndInv,
         sender \notin {"none", "returned"} \/ receiver \notin {"none", "returned", "refused"},
         UNCHANGED <<client, noMoreRequests, listener, server>>, failed \subseteq failed'
  PROVE  EndInv'
<1>1. ~WorkDone /\ client \notin {"barrier", "connect"}
  BY DEF WorkDone, EndInv
<1>2. ~noMoreRequests /\ client \notin {"closed", "finish"}
  BY <1>1 DEF EndInv
<1>3. Cancelled => Cancelled'
  BY DEF Cancelled
<1>4. client = "returned" => "client" \in failed'
  BY <1>1 DEF EndInv
<1>5. client = "exited" => "client" \in failed'
  BY DEF EndInv
<1>6. listener = "closed" => Cancelled
  BY <1>2 DEF EndInv
<1> QED
  BY <1>1, <1>2, <1>3, <1>4, <1>5, <1>6 DEF EndInv

\* The others do not touch the client and its workers.
LEMMA EndOthers ==
  ASSUME EndInv, UNCHANGED <<client, sender, receiver, noMoreRequests>>,
         failed' = failed \/ failed' = failed \cup {"server"},
         listener' = "closed" => listener = "closed" \/ Cancelled \/ noMoreRequests,
         server' \in {"accept", "look"} => listener' \in {"open", "closed"}
  PROVE  EndInv'
<1>1. WorkDone' = WorkDone
  BY DEF WorkDone
<1>2. Cancelled => Cancelled'
  BY DEF Cancelled
<1>3. {"sender", "receiver"} \cap failed' = {"sender", "receiver"} \cap failed
      /\ ("client" \in failed' <=> "client" \in failed)
  OBVIOUS
<1> QED
  BY <1>1, <1>2, <1>3 DEF EndInv

\* The steps of the sender and of the receiver.
LEMMA EndWorkers ==
  ASSUME EchoTypes, UpInv, DownInv, AnswerInv, EndInv, Sender \/ Receiver \/ ServerTimeLower
  PROVE  EndInv'
<1>1. CASE Sender
  <2>1. /\ sender \in {"next", "send", "flush"} /\ failed \subseteq failed'
        /\ UNCHANGED <<serverVars, clientVars>>
    BY <1>1 DEF Sender, StoreRequest, SendRequest, SendStop, Flush, SenderCancelled, SenderFails,
                SenderGoto, OthersThanSender, Fail
  <2> QED
    BY <2>1, EndWorks DEF serverVars, clientVars
<1>2. CASE Receiver
  <2>1. receiver \in {"loop", "recv", "frames"} /\ failed \subseteq failed'
        /\ UNCHANGED <<serverVars, clientVars>>
    <3>1. ASSUME NEW n \in 1 .. Room, Recv(n)
          PROVE  receiver = "recv" /\ failed' = failed /\ UNCHANGED <<serverVars, clientVars>>
      BY <3>1 DEF Recv, ReceiverGoto, OthersThanReceiver
    <3>2. CASE TakeFrame
      BY <3>2, TakeEffect DEF TakeFrame, OthersThanReceiver
    <3>3. CASE ReceiverGoesOn \/ RecvFails \/ FramesDone
      BY <3>3 DEF ReceiverGoesOn, RecvFails, FramesDone, ReceiverGoto, OthersThanReceiver, Fail
    <3>4. CASE CheckEmpty
      BY <3>4 DEF CheckEmpty, ReceiverGoto, OthersThanReceiver
    <3> QED
      BY <1>2, <3>1, <3>2, <3>3, <3>4 DEF Receiver
  <2> QED
    BY <2>1, EndWorks DEF serverVars, clientVars
<1>3. CASE ServerTimeLower
  <2>1. receiver = "frames" /\ failed \subseteq failed' /\ UNCHANGED <<serverVars, clientVars>>
    BY <1>3, RefuseEffect DEF ServerTimeLower
  <2> QED
    BY <2>1, EndWorks DEF serverVars, clientVars
<1> QED
  BY <1>1, <1>2, <1>3

\* The steps of the client.
LEMMA EndClient ==
  ASSUME EndInv, Client \/ ConnectFails \/ PollerWaits \/ PollerStops
  PROVE  EndInv'
<1> USE DEF ClientGoto, OthersThanClient, serverVars, handleVars
<1>1. CASE PassBarrier
  <2>1. /\ client = "barrier" /\ client' = "connect"
        /\ UNCHANGED <<sender, receiver, failed, noMoreRequests, listener, server>>
    BY <1>1 DEF PassBarrier
  <2> QED
    BY <2>1 DEF EndInv, WorkDone, Cancelled
<1>2. CASE Connect
  <2>1. /\ client = "connect" /\ client' = "work" /\ listener = "open"
        /\ UNCHANGED <<failed, noMoreRequests, listener, server>>
    BY <1>2 DEF Connect
  <2>2. ~noMoreRequests
    BY <2>1 DEF EndInv, WorkDone
  <2> QED
    BY <2>1, <2>2 DEF EndInv
<1>3. CASE ConnectFails \/ GiveUp \/ WorkFailed
  <2>1. /\ client \in {"connect", "work"} /\ client' \in {"returned", "exited"}
        /\ failed' = failed \cup {"client"}
        /\ UNCHANGED <<sender, receiver, noMoreRequests, listener, server>>
    BY <1>3 DEF ConnectFails, GiveUp, WorkFailed, Fail
  <2>2. "client" \in failed' /\ Cancelled'
    BY <2>1 DEF Cancelled
  <2> QED
    BY <2>1, <2>2 DEF EndInv, WorkDone
<1>4. CASE StdlibDone \/ CloseConn
  <2>1. /\ WorkDone /\ {"sender", "receiver"} \cap failed = {} /\ client' \in {"returned", "closed"}
        /\ noMoreRequests' = noMoreRequests \/ noMoreRequests' = TRUE
        /\ UNCHANGED <<sender, receiver, failed, listener, server>>
    BY <1>4 DEF StdlibDone, CloseConn
  <2>2. WorkDone' /\ Cancelled' = Cancelled
    BY <2>1 DEF WorkDone, Cancelled
  <2> QED
    BY <2>1, <2>2 DEF EndInv
<1>5. CASE StopPoller \/ NetringDone
  <2>1. /\ client \in {"closed", "finish"} /\ client' \in {"returned", "finish"}
        /\ noMoreRequests' = noMoreRequests \/ noMoreRequests' = TRUE
        /\ UNCHANGED <<sender, receiver, failed, listener, server>>
    BY <1>5 DEF StopPoller, NetringDone
  <2>2. WorkDone /\ {"sender", "receiver"} \cap failed = {}
    BY <2>1 DEF EndInv
  <2>3. WorkDone' /\ Cancelled' = Cancelled
    BY <2>1, <2>2 DEF WorkDone, Cancelled
  <2> QED
    BY <2>1, <2>2, <2>3 DEF EndInv
<1>6. CASE PollerWaits \/ PollerStops
  <2>1. UNCHANGED <<client, sender, receiver, failed, noMoreRequests, listener, server>>
    BY <1>6 DEF PollerWaits, PollerStops
  <2> QED
    BY <2>1 DEF EndInv, WorkDone, Cancelled
<1> QED
  BY <1>1, <1>2, <1>3, <1>4, <1>5, <1>6 DEF Client

\* The steps of the server and of the handler, of the socket and of time.
LEMMA EndServer ==
  ASSUME EndInv,
         \/ Listen \/ ListenFails \/ Accept \/ LookAtErrors \/ AcceptFails \/ CloseListener
         \/ Handler \/ ServeFails \/ Transfer \/ TimePasses
  PROVE  EndInv'
<1>0. /\ server \in {"accept", "look"} => listener \in {"open", "closed"}
      /\ listener = "closed" => Cancelled \/ noMoreRequests
  BY DEF EndInv
<1> USE DEF handleVars, clientVars, sendVars, recvVars, workVars, OthersThanServer, Fail
<1>1. CASE Listen
  <2>1. /\ UNCHANGED <<client, sender, receiver, noMoreRequests, failed>>
        /\ listener' = "open"
    BY <1>1 DEF Listen
  <2> QED
    BY <2>1, EndOthers
<1>2. CASE ListenFails
  <2>1. /\ UNCHANGED <<client, sender, receiver, noMoreRequests, listener>>
        /\ failed' = failed \cup {"server"} /\ server' = "returned"
    BY <1>2 DEF ListenFails
  <2> QED
    BY <2>1, EndOthers
<1>3. CASE Accept
  <2>1. /\ UNCHANGED <<client, sender, receiver, noMoreRequests, listener, failed>>
        /\ server = "accept" /\ server' = "look"
    BY <1>3 DEF Accept
  <2> QED
    BY <1>0, <2>1, EndOthers
<1>4. CASE LookAtErrors
  <2>1. /\ UNCHANGED <<client, sender, receiver, noMoreRequests, listener>>
        /\ failed' = failed \/ failed' = failed \cup {"server"}
        /\ server = "look"
    BY <1>4 DEF LookAtErrors
  <2> QED
    BY <1>0, <2>1, EndOthers
<1>5. CASE AcceptFails
  <2>1. /\ UNCHANGED <<client, sender, receiver, noMoreRequests, listener>>
        /\ failed' = failed \/ failed' = failed \cup {"server"}
        /\ server' = "returned"
    BY <1>5 DEF AcceptFails
  <2> QED
    BY <2>1, EndOthers
<1>6. CASE CloseListener
  <2>1. /\ UNCHANGED <<client, sender, receiver, noMoreRequests, failed, server>>
        /\ Cancelled \/ noMoreRequests
        /\ listener' = "closed"
    BY <1>6 DEF CloseListener, CloseListenerWhen
  <2> QED
    BY <2>1, EndOthers
<1>7. CASE Handler \/ ServeFails
  <2>1. UNCHANGED <<client, sender, receiver, noMoreRequests, failed, server, listener>>
    <3>1. ASSUME NEW k \in {1, 2}, WriteResponse(k)
          PROVE  UNCHANGED <<client, sender, receiver, noMoreRequests, failed, server, listener>>
      BY <3>1 DEF WriteResponse, OthersThanHandler, serverVars
    <3> QED
      BY <1>7, <3>1 DEF Handler, ReadHeader, ReadBody, ReportError, ServeFails, OthersThanHandler,
                        serverVars
  <2> QED
    BY <1>0, <2>1, EndOthers
<1>8. CASE Transfer \/ TimePasses
  <2>1. UNCHANGED <<client, sender, receiver, noMoreRequests, failed, server, listener>>
    BY <1>8 DEF Transfer, TimePasses, serverVars
  <2> QED
    BY <1>0, <2>1, EndOthers
<1> QED
  BY <1>1, <1>2, <1>3, <1>4, <1>5, <1>6, <1>7, <1>8

\* Every step.
LEMMA EndStep ==
  ASSUME EchoTypes, UpInv, DownInv, AnswerInv, EndInv, [Next]_vars
  PROVE  EndInv'
<1>1. CASE UNCHANGED vars
  <2>1. UNCHANGED <<client, sender, receiver, failed, noMoreRequests, listener, server>>
    BY <1>1 DEF vars, serverVars, clientVars, workVars, sendVars, recvVars
  <2> QED
    BY <2>1 DEF EndInv, WorkDone, Cancelled
<1>2. CASE Next
  <2>1. \/ Sender \/ Receiver \/ ServerTimeLower
        \/ Client \/ ConnectFails \/ PollerWaits \/ PollerStops
        \/ Listen \/ ListenFails \/ Accept \/ LookAtErrors \/ AcceptFails \/ CloseListener
        \/ Handler \/ ServeFails \/ Transfer \/ TimePasses
    BY <1>2 DEF Next, Server, Fault
  <2> QED
    BY <2>1, EndWorkers, EndClient, EndServer
<1> QED
  BY <1>1, <1>2

(***************************************************************************)
(* As long as nothing went wrong.                                          *)
(***************************************************************************)

\* At most the sender ends.
LEMMA SoundStays ==
  ASSUME SoundInv,
         ~faulty' => ~faulty,
         UNCHANGED <<late, clientErrors, handler, hungUp, sent, request, pending>>,
         ~faulty => failed' = failed,
         Written' = Written, sender' = sender \/ sender' = "returned"
  PROVE  SoundInv'
BY DEF SoundInv

\* The handler does not end.
LEMMA SoundBefore ==
  ASSUME SoundInv, ~faulty' => ~faulty, UNCHANGED <<late, clientErrors, hungUp>>,
         ~faulty => failed' = failed /\ handler # "returned"
                      /\ handler' \notin {"returned", "report"}
  PROVE  SoundInv'
BY DEF SoundInv

\* The steps of the server, and of time.
LEMMA SoundServer ==
  ASSUME EchoTypes, UpInv, DownInv, AnswerInv, EndInv, SoundInv,
         \/ Listen \/ ListenFails \/ Accept \/ LookAtErrors \/ AcceptFails \/ CloseListener
         \/ TimePasses
  PROVE  SoundInv'
<1> USE DEF serverVars, handleVars, clientVars, sendVars, recvVars, workVars, faultVars,
            OthersThanServer
<1>1. CASE Listen
  <2>1. /\ UNCHANGED <<late, faulty, clientErrors, handler, hungUp, sent, request, pending, failed, sender>>
        /\ UNCHANGED <<processed, carry, down>>
    BY <1>1 DEF Listen
  <2>2. Written' = Written
    BY <2>1 DEF Written
  <2> QED
    BY <2>1, <2>2, SoundStays
<1>2. CASE ListenFails \/ TimePasses
  <2>1. faulty'
    BY <1>2 DEF ListenFails, TimePasses
  <2> QED
    BY <2>1 DEF SoundInv
<1>3. CASE Accept
  <2>1. /\ handler = "none" /\ handler' = "header"
        /\ UNCHANGED <<late, faulty, clientErrors, hungUp, failed>>
    BY <1>3 DEF Accept
  <2> QED
    BY <2>1, SoundBefore
<1>4. CASE LookAtErrors
  <2>1. /\ UNCHANGED <<late, faulty, handler, hungUp, sent, request, pending, sender>>
        /\ UNCHANGED <<processed, carry, down>>
        /\ ~clientErrors => failed' = failed
        /\ clientErrors' = FALSE
    BY <1>4 DEF LookAtErrors
  <2>2. Written' = Written
    BY <2>1 DEF Written
  <2> QED
    BY <2>1, <2>2 DEF SoundInv
<1>5. CASE AcceptFails
  <2>1. /\ UNCHANGED <<late, clientErrors, handler, hungUp, sent, request, pending, sender>>
        /\ UNCHANGED <<processed, carry, down>>
        /\ Expected => failed' = failed
        /\ server = "accept"
        /\ ~faulty' => ~faulty /\ listener # "open"
        /\ faulty' = (faulty \/ listener = "open")
    BY <1>5 DEF AcceptFails
  <2>2. CASE listener = "open"
    BY <2>1, <2>2 DEF SoundInv
  <2>3. CASE listener # "open"
    <3>1. listener = "closed"
      BY <2>1, <2>3 DEF EndInv
    <3>2. Expected
      BY <3>1 DEF EndInv, Expected
    <3>3. Written' = Written
      BY <2>1 DEF Written
    <3> QED
      BY <2>1, <3>2, <3>3, SoundStays
  <2> QED
    BY <2>2, <2>3
<1>6. CASE CloseListener
  <2>1. /\ UNCHANGED <<late, faulty, clientErrors, handler, sent, request, pending, failed, sender>>
        /\ UNCHANGED <<processed, carry, down>>
        /\ Cancelled \/ noMoreRequests
        /\ hungUp' = (hungUp \/ (sender # "none" /\ handler = "none"))
    BY <1>6 DEF CloseListener, CloseListenerWhen
  <2>2. Written' = Written
    BY <2>1 DEF Written
  <2>3. ASSUME ~faulty PROVE handler # "none"
    <3>1. noMoreRequests /\ failed = {}
      BY <2>1, <2>3 DEF SoundInv, Cancelled
    <3>2. processed = Requests
      BY <2>3, <3>1 DEF EndInv, WorkDone, AnswerInv
    <3>3. /\ Requests \in Nat \ {0} /\ processed \in Nat /\ Len(carry) \in Nat /\ Len(down) \in Nat
          /\ Written = 2 * processed + Len(carry) + Len(down) /\ Written <= 2 * request
      BY DownFacts, RequestsAssumption
    <3>4. request # 0
      BY <3>2, <3>3
    <3> QED
      BY <3>4 DEF DownInv, Served
  <2> QED
    BY <2>1, <2>2, <2>3 DEF SoundInv
<1> QED
  BY <1>1, <1>2, <1>3, <1>4, <1>5, <1>6

\* The steps of the handler: it closes the connection after the last answer.
LEMMA SoundHandler ==
  ASSUME EchoTypes, UpInv, DownInv, SoundInv, Handler \/ ServeFails
  PROVE  SoundInv'
<1> USE DEF serverVars, clientVars, sendVars, recvVars, workVars, faultVars, OthersThanHandler
<1>1. CASE ReadHeader
  <2>1. /\ UNCHANGED <<late, faulty, clientErrors, sent, pending, failed, sender>>
        /\ UNCHANGED <<processed, carry, down, request>>
        /\ handler' = "body" => hungUp' = FALSE
        /\ handler = "header"
    BY <1>1 DEF ReadHeader, Serve
  <2>2. CASE handler' = "body"
    BY <2>1, <2>2 DEF SoundInv
  <2>3. CASE handler' # "body"
    <3>1. /\ handler' = "returned" /\ ~ (request < Requests) /\ sent = Requests
          /\ Handed = 2 * Requests + 1 /\ Read = 2 * request /\ Len(up) >= 1
      BY <1>1, <2>3, HeaderRead
    <3>2. /\ Requests \in Nat /\ request \in Nat /\ Len(up) \in Nat /\ Len(pending) \in Nat
          /\ pending \in Seq(Fragment) /\ Handed = Read + Len(up) + Len(pending)
      BY UpFacts
    <3>3. request <= sent
      BY DEF DownInv
    <3>4. request = Requests
      BY <3>1, <3>2, <3>3
    <3>5. Len(pending) = 0
      BY <3>1, <3>2, <3>4
    <3>6. pending = << >>
      BY <3>2, <3>5, EmptySeq
    <3>7. sender \in {"flush", "returned"}
      <4>1. Counts
        BY <2>1 DEF UpInv, Reads
      <4>2. Handed # 2 * sent /\ Handed # 2 * sent - 2
        BY <3>1, <3>2
      <4> QED
        BY <4>1, <4>2 DEF Counts, EchoTypes
    <3>8. Written' = Written /\ Written = 2 * request
      BY <2>1 DEF Written, DownInv, Served
    <3> QED
      BY <2>1, <3>1, <3>4, <3>6, <3>7, <3>8 DEF SoundInv
  <2> QED
    BY <2>2, <2>3
<1>2. CASE ReadBody
  <2>1. /\ handler = "body" /\ handler' = "write"
        /\ UNCHANGED <<late, faulty, clientErrors, hungUp, failed>>
    BY <1>2 DEF ReadBody, Serve
  <2> QED
    BY <2>1, SoundBefore
<1>3. ASSUME NEW k \in {1, 2}, WriteResponse(k) PROVE SoundInv'
  <2>1. /\ handler \in {"write", "write rest"} /\ handler' \in {"write rest", "header"}
        /\ UNCHANGED <<serverVars, clientVars, faultVars>> /\ hungUp' = hungUp /\ failed' = failed
    BY <1>3, WriteEffect, Zenon
  <2>2. UNCHANGED <<late, faulty, clientErrors, hungUp>>
    BY <2>1
  <2>3. handler \notin {"returned", "report"} /\ handler' \notin {"returned", "report"}
    BY <2>1
  <2>4. failed' = failed
    BY <2>1
  <2> QED
    BY <2>2, <2>3, <2>4, SoundBefore
<1>4. CASE ServeFails
  <2>1. faulty'
    BY <1>4 DEF ServeFails
  <2> QED
    BY <2>1 DEF SoundInv
<1>5. CASE ReportError
  <2>1. handler = "report" /\ faulty' = faulty
    BY <1>5 DEF ReportError, Serve
  <2> QED
    BY <2>1 DEF SoundInv
<1> QED
  BY <1>1, <1>2, <1>3, <1>4, <1>5 DEF Handler

\* The steps of the sender and of the socket.
LEMMA SoundSender ==
  ASSUME EchoTypes, SoundInv, Sender \/ Transfer
  PROVE  SoundInv'
<1> USE DEF serverVars, handleVars, recvVars, faultVars, OthersThanSender
<1>1. CASE StoreRequest \/ SendRequest \/ SendStop
  <2>1. /\ UNCHANGED <<late, faulty, clientErrors, hungUp, failed, handler>>
        /\ sender \in {"next", "send"}
    BY <1>1 DEF StoreRequest, SendRequest, SendStop, SenderGoto
  <2>2. ~faulty => handler \notin {"returned", "report"}
    BY <2>1 DEF SoundInv
  <2> QED
    BY <2>1, <2>2, SoundBefore
<1>2. CASE Flush
  <2>1. /\ UNCHANGED <<late, faulty, clientErrors, handler, hungUp, sent, request, pending, failed>>
        /\ UNCHANGED <<processed, carry, down>>
        /\ sender' = "returned"
    BY <1>2 DEF Flush, SenderGoto
  <2>2. Written' = Written
    BY <2>1 DEF Written
  <2> QED
    BY <2>1, <2>2, SoundStays
<1>3. CASE SenderCancelled
  <2>1. failed # {} /\ faulty' = faulty
    BY <1>3 DEF SenderCancelled, WorkCancelled
  <2> QED
    BY <2>1 DEF SoundInv
<1>4. CASE SenderFails
  <2>1. (late \/ hungUp) /\ pending # << >> /\ faulty' = faulty
    BY <1>4 DEF SenderFails
  <2> QED
    BY <2>1 DEF SoundInv
<1>5. CASE Transfer
  <2>1. /\ UNCHANGED <<late, faulty, clientErrors, hungUp, failed, handler>>
        /\ pending # << >>
    BY <1>5 DEF Transfer
  <2>2. ~faulty => handler \notin {"returned", "report"}
    BY <2>1 DEF SoundInv
  <2> QED
    BY <2>1, <2>2, SoundBefore
<1> QED
  BY <1>1, <1>2, <1>3, <1>4, <1>5 DEF Sender

\* The steps of the receiver: the stream does not end before it has every
\* response, and then no ID is left.
LEMMA SoundReceiver ==
  ASSUME EchoTypes, UpInv, DownInv, AnswerInv, SoundInv, Receiver \/ ServerTimeLower
  PROVE  SoundInv'
<1> USE DEF serverVars, handleVars, clientVars, sendVars, faultVars, OthersThanReceiver
<1>1. CASE ReceiverGoesOn \/ FramesDone
  <2>1. /\ UNCHANGED <<late, faulty, clientErrors, handler, hungUp, sent, request, pending, failed, sender>>
        /\ UNCHANGED <<processed, carry, down>>
    BY <1>1 DEF ReceiverGoesOn, FramesDone
  <2>2. Written' = Written
    BY <2>1 DEF Written
  <2> QED
    BY <2>1, <2>2, SoundStays
<1>2. ASSUME NEW n \in 1 .. Room, Recv(n) PROVE SoundInv'
  <2>1. UNCHANGED <<late, faulty, clientErrors, handler, hungUp, sent, request, pending, failed, sender>>
    BY <1>2 DEF Recv
  <2>2. Written' = Written
    BY <1>2, DownRecv, RoomAssumption
  <2> QED
    BY <2>1, <2>2, SoundStays
<1>3. CASE RecvFails
  <2>1. /\ late \/ (hungUp /\ (down = << >> \/ faulty))
        /\ receiver = "recv" /\ faulty' = faulty
    BY <1>3 DEF RecvFails, ReceiverGoto
  <2>2. ASSUME ~faulty PROVE FALSE
    <3>1. /\ down = << >> /\ sent = Requests /\ request = Requests /\ Written = 2 * request
      BY <2>1, <2>2 DEF SoundInv
    <3>2. Len(carry) < 2 /\ processed < Requests
      BY <2>1 DEF AnswerInv
    <3>3. /\ Requests \in Nat /\ processed \in Nat /\ Len(carry) \in Nat /\ Len(down) \in Nat
          /\ Written = 2 * processed + Len(carry) + Len(down)
      BY DownFacts
    <3>4. Len(down) = 0
      BY <3>1, EmptySeq
    <3> QED
      BY <3>1, <3>2, <3>3, <3>4
  <2> QED
    BY <2>1, <2>2 DEF SoundInv
<1>4. CASE TakeFrame
  <2>1. UNCHANGED <<late, faulty, clientErrors, handler, hungUp, sent, request, pending, sender>>
    BY <1>4 DEF TakeFrame
  <2>2. Written' = Written
    BY <1>4, DownTake
  <2>3. failed' = failed
    BY <1>4, TakeEffect
  <2> QED
    BY <2>1, <2>2, <2>3, SoundStays
<1>5. CASE CheckEmpty
  <2>1. /\ UNCHANGED <<late, faulty, clientErrors, handler, hungUp, sent, request, pending, sender>>
        /\ UNCHANGED <<processed, carry, down>>
        /\ processed = Requests
        /\ sequences = {} => failed' = failed
    BY <1>5 DEF CheckEmpty
  <2>2. sequences = {}
    <3>1. sent \in 0 .. Requests /\ Requests \in Nat
      BY UpFacts
    <3>2. receiver # "refused"
      BY <1>5 DEF CheckEmpty, ReceiverGoto
    <3> QED
      BY <2>1, <3>1, <3>2 DEF AnswerInv
  <2>3. Written' = Written
    BY <2>1 DEF Written
  <2> QED
    BY <2>1, <2>2, <2>3, SoundStays
<1>6. CASE ServerTimeLower
  <2>1. faulty'
    BY <1>6, RefuseEffect
  <2> QED
    BY <2>1 DEF SoundInv
<1> QED
  BY <1>1, <1>2, <1>3, <1>4, <1>5, <1>6 DEF Receiver

\* The steps of the client.
LEMMA SoundClient ==
  ASSUME EchoTypes, UpInv, EndInv, SoundInv, Client \/ ConnectFails \/ PollerWaits \/ PollerStops
  PROVE  SoundInv'
<1> USE DEF serverVars, handleVars, OthersThanClient, ClientGoto
<1>1. CASE \/ PassBarrier \/ StdlibDone \/ CloseConn \/ StopPoller \/ NetringDone
           \/ PollerWaits \/ PollerStops
  <2>1. /\ UNCHANGED <<late, faulty, clientErrors, handler, hungUp, sent, request, pending, failed, sender>>
        /\ UNCHANGED <<processed, carry, down>>
    BY <1>1 DEF PassBarrier, StdlibDone, CloseConn, StopPoller, NetringDone, PollerWaits,
                PollerStops
  <2>2. Written' = Written
    BY <2>1 DEF Written
  <2> QED
    BY <2>1, <2>2, SoundStays
<1>2. CASE Connect
  <2>1. /\ client = "connect"
        /\ UNCHANGED <<late, faulty, clientErrors, handler, hungUp, failed>>
    BY <1>2 DEF Connect
  <2>2. sender = "none"
    BY <2>1 DEF EndInv
  <2>3. ~faulty => handler \notin {"returned", "report"}
    BY <2>2 DEF SoundInv
  <2> QED
    BY <2>1, <2>3, SoundBefore
<1>3. CASE ConnectFails
  <2>1. faulty'
    BY <1>3 DEF ConnectFails
  <2> QED
    BY <2>1 DEF SoundInv
<1>4. CASE GiveUp \/ WorkFailed
  <2>1. faulty' = faulty /\ (late \/ failed # {})
    BY <1>4 DEF GiveUp, WorkFailed, Cancelled
  <2> QED
    BY <2>1 DEF SoundInv
<1> QED
  BY <1>1, <1>2, <1>3, <1>4 DEF Client

\* Every step.
LEMMA SoundStep ==
  ASSUME EInv, [Next]_vars
  PROVE  SoundInv'
<1> USE DEF EInv
<1>1. CASE UNCHANGED vars
  <2>1. /\ UNCHANGED <<late, faulty, clientErrors, handler, hungUp, sent, request, pending, failed, sender>>
        /\ UNCHANGED <<processed, carry, down>>
    BY <1>1 DEF vars, serverVars, handleVars, workVars, sendVars, recvVars, faultVars
  <2>2. Written' = Written
    BY <2>1 DEF Written
  <2> QED
    BY <2>1, <2>2, SoundStays
<1>2. CASE Next
  <2>1. \/ Sender \/ Transfer \/ Receiver \/ ServerTimeLower
        \/ Client \/ ConnectFails \/ PollerWaits \/ PollerStops
        \/ Listen \/ ListenFails \/ Accept \/ LookAtErrors \/ AcceptFails \/ CloseListener
        \/ TimePasses \/ Handler \/ ServeFails
    BY <1>2 DEF Next, Server, Fault
  <2> QED
    BY <2>1, SoundSender, SoundReceiver, SoundClient, SoundServer, SoundHandler
<1> QED
  BY <1>1, <1>2

(***************************************************************************)
(* The theorems.                                                           *)
(***************************************************************************)

\* The types: the counters only count, and the errors are of the four
\* goroutines.
LEMMA TypesStep ==
  ASSUME EInv, [Next]_vars
  PROVE  EchoTypes'
<1> USE DEF serverVars, handleVars, clientVars, sendVars, recvVars, workVars, faultVars,
            OthersThanServer, OthersThanHandler, OthersThanSender, OthersThanReceiver,
            OthersThanClient, Fail
<1>0. EchoTypes
  BY DEF EInv
<1>1. sent' \in Nat /\ sender' \in {"none", "next", "send", "flush", "returned"}
  <2>1. UNCHANGED <<sent, sender>> \/ Sender \/ Connect
    BY UpSteps DEF upVars, Accept, ReadHeader, ReadBody, WriteResponse, ServeFails, ReportError,
                   Transfer, Sender
  <2>2. CASE UNCHANGED <<sent, sender>>
    BY <1>0, <2>2 DEF EchoTypes
  <2>3. CASE Sender
    BY <1>0, <2>3 DEF EchoTypes, Sender, StoreRequest, SendRequest, SendStop, Flush,
                      SenderCancelled, SenderFails, SenderGoto
  <2>4. CASE Connect
    BY <1>0, <2>4 DEF EchoTypes, Connect
  <2> QED
    BY <2>1, <2>2, <2>3, <2>4
<1>2. processed' \in Nat /\ request' \in Nat
  <2>1. CASE ReadBody
    <3>1. request' = request + 1
      BY <2>1, UpReadBody DEF EInv
    <3>2. processed' = processed
      BY <2>1 DEF ReadBody
    <3> QED
      BY <1>0, <3>1, <3>2 DEF EchoTypes
  <2>2. ASSUME NEW k \in {1, 2}, WriteResponse(k) PROVE UNCHANGED <<processed, request>>
    BY <2>2, WriteEffect, Zenon
  <2>3. ASSUME NEW n \in 1 .. Room, Recv(n) PROVE UNCHANGED <<processed, request>>
    BY <2>3 DEF Recv
  <2>4. CASE ReadHeader
    BY <1>0, <2>4 DEF ReadHeader, EchoTypes
  <2>5. CASE TakeFrame \/ ServerTimeLower
    BY <1>0, <2>5 DEF TakeFrame, ServerTimeLower, EchoTypes
  <2>6. CASE UNCHANGED <<processed, request>>
    BY <1>0, <2>6 DEF EchoTypes
  <2> QED
    BY DownSteps, <2>1, <2>2, <2>3, <2>4, <2>5, <2>6
<1>3. failed' \subseteq {"server", "client", "sender", "receiver"}
  <2>1. failed \subseteq {"server", "client", "sender", "receiver"}
    BY <1>0 DEF EchoTypes
  <2>2. CASE UNCHANGED vars
    BY <2>1, <2>2 DEF vars
  <2>3. CASE Listen \/ ListenFails \/ Accept \/ CloseListener
    BY <2>1, <2>3 DEF Listen, ListenFails, Accept, CloseListener, CloseListenerWhen
  <2>4. CASE LookAtErrors \/ AcceptFails
    BY <2>1, <2>4 DEF LookAtErrors, AcceptFails
  <2>5. CASE Handler \/ ServeFails
    <3>1. ASSUME NEW k \in {1, 2}, WriteResponse(k) PROVE failed' = failed
      BY <3>1, WriteEffect, Zenon
    <3> QED
      BY <2>1, <2>5, <3>1 DEF Handler, ReadHeader, ReadBody, ReportError, ServeFails
  <2>6. CASE Sender \/ Transfer \/ TimePasses
    BY <2>1, <2>6 DEF Sender, StoreRequest, SendRequest, SendStop, Flush, SenderCancelled,
                      SenderFails, Transfer, TimePasses
  <2>7. CASE Receiver
    <3>1. ASSUME NEW n \in 1 .. Room, Recv(n) PROVE failed' = failed
      BY <3>1 DEF Recv
    <3>2. CASE CheckEmpty
      BY <2>1, <3>2 DEF CheckEmpty
    <3>4. CASE TakeFrame
      BY <2>1, <3>4, TakeEffect DEF EInv
    <3>3. CASE ReceiverGoesOn \/ RecvFails \/ FramesDone
      BY <2>1, <3>3 DEF ReceiverGoesOn, RecvFails, FramesDone
    <3> QED
      BY <2>1, <2>7, <3>1, <3>2, <3>3, <3>4 DEF Receiver
  <2>9. CASE ServerTimeLower
    BY <2>1, <2>9, RefuseEffect
  <2>8. CASE Client \/ ConnectFails \/ PollerWaits \/ PollerStops
    BY <2>1, <2>8 DEF Client, PassBarrier, Connect, GiveUp, WorkFailed, StdlibDone, CloseConn,
                      StopPoller, NetringDone, ConnectFails, PollerWaits, PollerStops
  <2> QED
    BY <2>2, <2>3, <2>4, <2>5, <2>6, <2>7, <2>8, <2>9 DEF Next, Server, Fault
<1>4. impl' = impl
  <2>1. UNCHANGED <<sequences, processed, sent, carry, receiver, impl>> => impl' = impl
    OBVIOUS
  <2>2. CASE StoreRequest \/ Connect
    BY <2>2 DEF StoreRequest, Connect
  <2>3. CASE ReceiverGoesOn \/ RecvFails \/ FramesDone \/ CheckEmpty
    BY <2>3 DEF ReceiverGoesOn, RecvFails, FramesDone, CheckEmpty
  <2>4. CASE TakeFrame \/ ServerTimeLower
    BY <2>4 DEF TakeFrame, ServerTimeLower
  <2>5. ASSUME NEW n \in 1 .. Room, Recv(n) PROVE impl' = impl
    BY <2>5 DEF Recv
  <2> QED
    BY AnswerSteps, <2>1, <2>2, <2>3, <2>4, <2>5
<1> QED
  BY <1>0, <1>1, <1>2, <1>3, <1>4 DEF EchoTypes

\* The state the program begins in.
LEMMA EInvInit == Init => EInv
<1> SUFFICES ASSUME Init PROVE EInv
  OBVIOUS
<1>1. /\ << >> \in Seq(Fragment) /\ Len(<< >>) = 0 /\ \A p : Runs(<< >>, p)
  BY EmptySeq DEF Runs
<1>2. Requests \in Nat \ {0}
  BY RequestsAssumption
<1>3. /\ up = << >> /\ pending = << >> /\ carry = << >> /\ down = << >>
      /\ sent = 0 /\ processed = 0 /\ request = 0
      /\ handler = "none" /\ sender = "none" /\ receiver = "none" /\ sequences = {}
      /\ failed = {} /\ impl \in {"netring", "stdlib"}
  BY DEF Init
<1>4. EchoTypes
  BY <1>3 DEF EchoTypes
<1>5. Read = 0 /\ Handed = 0 /\ Written = 0
  BY <1>1, <1>3 DEF Read, Handed, Written
<1>6. UpInv
  BY <1>1, <1>2, <1>3, <1>5 DEF UpInv, UpRuns, Counts
<1>7. DownInv
  BY <1>1, <1>2, <1>3, <1>5 DEF DownInv, DownRuns, Served
<1>8. AnswerInv
  BY <1>1, <1>3 DEF AnswerInv
<1>9. EndInv /\ SoundInv
  BY DEF Init, EndInv, SoundInv
<1> QED
  BY <1>4, <1>6, <1>7, <1>8, <1>9 DEF EInv

\* The invariant holds in every state.
THEOREM Invariance == Spec => []EInv
<1>1. EInv /\ [Next]_vars => EInv'
  <2> SUFFICES ASSUME EInv, [Next]_vars PROVE EInv'
    OBVIOUS
  <2>1. EchoTypes /\ UpInv /\ DownInv /\ AnswerInv /\ EndInv /\ SoundInv
    BY DEF EInv
  <2>2. EchoTypes' /\ SoundInv'
    BY TypesStep, SoundStep
  <2>3. UpInv' /\ DownInv' /\ AnswerInv' /\ EndInv'
    BY <2>1, UpStep, DownStep, AnswerStep, EndStep
  <2> QED
    BY <2>2, <2>3 DEF EInv
<1> QED
  BY EInvInit, <1>1, PTL DEF Spec

\* Frames stay aligned however the stream is cut into views, and whatever
\* the sizes of the buffers are, a response comes once and only for an ID
\* that was stored: "unknown sequence ID" is never the client's answer.
THEOREM OnlyKnownResponses == Spec => []ResponsesKnown
<1>1. EInv => ResponsesKnown
  <2> SUFFICES ASSUME EInv, receiver = "frames", HasFrame
               PROVE  carry[1][1] \in sequences /\ SubSeq(carry, 1, 2) = Frame(carry[1][1])
    BY DEF ResponsesKnown
  <2>1. /\ carry[1] = <<processed + 1, 1>> /\ carry[2] = <<processed + 1, 2>>
        /\ carry[1][1] = processed + 1 /\ processed + 1 \in sequences
    BY NextFrame DEF EInv
  <2>2. carry \in Seq(Fragment) /\ 2 \in 0 .. Len(carry)
    BY DEF EInv, DownInv, HasFrame
  <2> DEFINE t == SubSeq(carry, 1, 2)
  <2>3. /\ t \in Seq(Fragment) /\ Len(t) = 2 /\ t[1] = carry[1] /\ t[2] = carry[2]
    BY <2>2
  <2> HIDE DEF t
  <2>4. t = <<carry[1], carry[2]>>
    BY <2>3
  <2> QED
    BY <2>1, <2>4 DEF Frame, t
<1> QED
  BY Invariance, <1>1, PTL

\* main reports no error only when every request was answered or stdlibClient
\* has refused a response, whose error it wraps as nil; and an error only when
\* something went wrong.
THEOREM VerdictIsTrue == Spec => []Verdict
<1>1. EInv => Verdict
  <2> SUFFICES ASSUME EInv, Stopped PROVE Verdict
    BY DEF Verdict
  <2>1. CASE failed \cap {"server", "client"} # {}
    <3>1. faulty
      BY <2>1 DEF EInv, SoundInv
    <3> QED
      BY <2>1, <3>1 DEF Verdict
  <2>2. CASE failed \cap {"server", "client"} = {}
    <3>1. client = "returned" /\ "client" \notin failed
      BY <2>2 DEF Stopped, EInv, EndInv
    <3>2. WorkDone /\ {"sender", "receiver"} \cap failed = {}
      BY <3>1 DEF EInv, EndInv
    <3>3. failed = {}
      BY <2>2, <3>2 DEF EInv, EchoTypes
    <3>4. CASE receiver = "refused"
      <4>1. impl = "stdlib"
        BY <3>3, <3>4 DEF EInv, AnswerInv, EchoTypes
      <4> QED
        BY <2>2, <3>4, <4>1 DEF Verdict
    <3>5. CASE receiver = "returned"
      <4>1. processed = Requests
        BY <3>3, <3>5 DEF EInv, AnswerInv
      <4>2. sent \in 0 .. Requests /\ Requests \in Nat
        BY UpFacts DEF EInv
      <4>3. sequences = {}
        BY <3>5, <4>1, <4>2 DEF EInv, AnswerInv
      <4> QED
        BY <2>2, <4>1, <4>3 DEF Verdict
    <3> QED
      BY <3>2, <3>4, <3>5 DEF WorkDone
  <2> QED
    BY <2>1, <2>2
<1> QED
  BY Invariance, <1>1, PTL
=============================================================================
