-------------------------------- MODULE Echo -------------------------------
(***************************************************************************)
(* The echo program: a server, a client and main's errgroup around them.   *)
(*                                                                         *)
(* The client stores the ID of each request, sends it, and after the last  *)
(* one a stop frame; its receiver puts the responses together again from   *)
(* what Recv returns.  The client is netringClient or stdlibClient.        *)
(*                                                                         *)
(* A frame is two fragments, <<id, 1>> and <<id, 2>>, its header or its    *)
(* beginning and the rest; the stop frame is the fragment <<0, 1>>.  A     *)
(* send is done fragment by fragment as the socket has room.  The ring     *)
(* does what SendPath, ParkWake and BufRing say it should.                 *)
(***************************************************************************)
EXTENDS Integers, Sequences

CONSTANTS
  Requests,  \* requestsNo
  Room       \* fragments that each direction of the connection holds

ASSUME RequestsAssumption == Requests \in Nat \ {0}
ASSUME RoomAssumption == Room \in Nat \ {0}

VARIABLES
  impl,       \* "netring" or "stdlib", the flag -client
  server,     \* where main's server goroutine is
  listener,   \* "none", "open", "closed"
  clientErrors, \* whether an error waits in that channel
  handler,    \* where the goroutine of the connection is
  request,    \* the ID it is answering
  client,     \* where main's client goroutine is
  sender,     \* where its sender is
  sent,       \* the requests it has taken from the RequestBuilder
  pending,    \* what it has sent and the socket has not taken
  receiver,   \* where its receiver is, "refused": returned for a bad response
  carry,      \* the bytes that are not a frame yet
  processed,  \* frames it has verified
  sequences,  \* IDs without a response
  poller,     \* "spins", "waits": in WaitEvents, "gone"
  up, down,   \* what is on the way to the server and to the client
  hungUp,     \* whether the server has closed its end
  barrier,    \* whether that channel is closed
  noMoreRequests, \* and this one
  failed,     \* the goroutines that have returned an error
  late,       \* whether the deadlines have passed
  faulty      \* whether anything went wrong

serverVars == <<server, listener, clientErrors, barrier>>
handleVars == <<handler, request, hungUp>>
clientVars == <<impl, client, noMoreRequests, poller>>
sendVars   == <<sender, sent, pending>>
recvVars   == <<receiver, carry, processed>>
workVars   == <<sendVars, recvVars, sequences>>
faultVars  == <<late, faulty>>
vars == <<serverVars, handleVars, clientVars, workVars, up, down, failed, faultVars>>

Init ==
  /\ impl \in {"netring", "stdlib"}
  /\ server = "listen" /\ listener = "none" /\ clientErrors = FALSE /\ barrier = FALSE
  /\ handler = "none" /\ request = 0 /\ hungUp = FALSE
  /\ client = "barrier" /\ noMoreRequests = FALSE /\ poller = "spins"
  /\ sender = "none" /\ sent = 0 /\ pending = << >>
  /\ receiver = "none" /\ carry = << >> /\ processed = 0
  /\ sequences = {}
  /\ up = << >> /\ down = << >>
  /\ failed = {}
  /\ late = FALSE /\ faulty = FALSE

Frame(id) == <<<<id, 1>>, <<id, 2>>>>
StopFrame == <<<<0, 1>>>>

\* The contexts of the two errgroups, of main's and of the workload's.
Cancelled     == failed \cap {"server", "client"} # {}
WorkCancelled == failed # {}
Fail(who)     == failed' = failed \cup {who}

\* Time passes the ten seconds of every deadline.
TimePasses ==
  /\ ~late
  /\ late' = TRUE
  /\ faulty' = TRUE
  /\ UNCHANGED <<serverVars, handleVars, clientVars, workVars, up, down, failed>>

(***************************************************************************)
(* main's server goroutine, and the one that closes the listener.          *)
(***************************************************************************)
OthersThanServer == <<handleVars, clientVars, workVars, up, down>>

Listen ==
  /\ server = "listen"
  /\ listener' = "open"
  /\ barrier' = TRUE
  /\ server' = "accept"
  /\ UNCHANGED <<clientErrors, OthersThanServer, failed, faultVars>>

ListenFails ==
  /\ server = "listen"
  /\ server' = "returned"
  /\ Fail("server")
  /\ faulty' = TRUE
  /\ UNCHANGED <<listener, clientErrors, barrier, OthersThanServer, late>>

CloseListenerWhen(ended) ==
  /\ listener = "open"
  /\ ended
  /\ listener' = "closed"
  /\ hungUp' = (hungUp \/ (sender # "none" /\ handler = "none"))
  /\ UNCHANGED <<server, clientErrors, barrier, handler, request, clientVars, workVars,
                 up, down, failed, faultVars>>

\* Mutant of CloseListener: it waits for an error only.
CloseListenerOnError == CloseListenerWhen(Cancelled)

\* A connection that was not accepted goes with the listener.
CloseListener == CloseListenerWhen(Cancelled \/ noMoreRequests)

Accept ==
  /\ server = "accept"
  /\ listener = "open"
  /\ sender # "none"
  /\ handler = "none"
  /\ handler' = "header"
  /\ server' = "look"
  /\ UNCHANGED <<listener, clientErrors, barrier, request, hungUp, clientVars, workVars,
                 up, down, failed, faultVars>>

\* clientErrors is looked at once after each connection.
LookAtErrors ==
  /\ server = "look"
  /\ server' = IF clientErrors THEN "returned" ELSE "accept"
  /\ failed' = IF clientErrors THEN failed \cup {"server"} ELSE failed
  /\ clientErrors' = FALSE
  /\ UNCHANGED <<listener, barrier, OthersThanServer, faultVars>>

\* Mutant of Expected: an error of Accept is an error.
ExpectedNever == FALSE

\* Whether the end of the listener was wanted.
Expected == Cancelled \/ noMoreRequests

\* Accept returns an error, because the listener is closed, or another one;
\* the second is only one when nobody wanted the end.
AcceptFails ==
  /\ server = "accept"
  /\ server' = "returned"
  /\ faulty' = (faulty \/ listener = "open")
  /\ failed' = IF Expected THEN failed ELSE failed \cup {"server"}
  /\ UNCHANGED <<listener, clientErrors, barrier, OthersThanServer, late>>

(***************************************************************************)
(* handleRequest.                                                          *)
(***************************************************************************)
Serve(from, to) == handler = from /\ handler' = to

OthersThanHandler == <<serverVars, clientVars, workVars, failed>>

\* A ping, or the stop frame, after which the connection is closed.
ReadHeader ==
  /\ up # << >>
  /\ Serve("header", IF Head(up)[1] = 0 THEN "returned" ELSE "body")
  /\ hungUp' = (Head(up)[1] = 0)
  /\ up' = Tail(up)
  /\ UNCHANGED <<OthersThanHandler, request, down, faultVars>>

ReadBody ==
  /\ up # << >>
  /\ Serve("body", "write")
  /\ request' = Head(up)[1]
  /\ up' = Tail(up)
  /\ UNCHANGED <<OthersThanHandler, hungUp, down, faultVars>>

\* The write blocks as long as the client's side is full.
WriteResponse(k) ==
  /\ k \in {1, 2}
  /\ Len(down) < Room
  /\ Serve(<<"write", "write rest">>[k], <<"write rest", "header">>[k])
  /\ down' = Append(down, <<request, k>>)
  /\ UNCHANGED <<OthersThanHandler, request, hungUp, up, faultVars>>

\* The read deadline, or a request it does not like: one from the future,
\* when the clock is set back.  The connection is closed ...
ServeFails ==
  /\ handler \in {"header", "body", "write", "write rest"}
  /\ handler' = "report"
  /\ hungUp' = TRUE
  /\ faulty' = TRUE
  /\ UNCHANGED <<OthersThanHandler, request, up, down, late>>

\* ... and then the error is put where nobody looks after the Accept.
ReportError ==
  /\ Serve("report", "returned")
  /\ clientErrors' = TRUE
  /\ UNCHANGED <<server, listener, barrier, request, hungUp, clientVars, workVars, up, down,
                 failed, faultVars>>

(***************************************************************************)
(* The sender.  The next send waits for the one before.                    *)
(***************************************************************************)
SenderGoto(from, to) == sender = from /\ sender' = to

OthersThanSender == <<serverVars, handleVars, clientVars, recvVars, up, down, faultVars>>

StoreRequest ==
  /\ ~WorkCancelled
  /\ sent < Requests
  /\ SenderGoto("next", "send")
  /\ sent' = sent + 1
  /\ sequences' = sequences \cup {sent + 1}
  /\ UNCHANGED <<OthersThanSender, pending, failed>>

SendRequest ==
  /\ pending = << >>
  /\ SenderGoto("send", "next")
  /\ pending' = Frame(sent)
  /\ UNCHANGED <<OthersThanSender, sent, sequences, failed>>

SendStop ==
  /\ sent = Requests
  /\ pending = << >>
  /\ SenderGoto("next", "flush")
  /\ pending' = StopFrame
  /\ UNCHANGED <<OthersThanSender, sent, sequences, failed>>

Flush ==
  /\ pending = << >>
  /\ SenderGoto("flush", "returned")
  /\ UNCHANGED <<OthersThanSender, sent, pending, sequences, failed>>

SenderCancelled ==
  /\ WorkCancelled
  /\ sent < Requests
  /\ SenderGoto("next", "returned")
  /\ UNCHANGED <<OthersThanSender, sent, pending, sequences, failed>>

\* A send fails when the server is gone or takes nothing for ten seconds.
SenderFails ==
  /\ late \/ hungUp
  /\ pending # << >>
  /\ \/ SenderGoto("send", "returned")
     \/ SenderGoto("flush", "returned")
     \/ sent = Requests /\ SenderGoto("next", "returned")
  /\ Fail("sender")
  /\ UNCHANGED <<OthersThanSender, sent, pending, sequences>>

\* The socket takes a fragment (external).
Transfer ==
  /\ pending # << >>
  /\ Len(up) < Room
  /\ up' = Append(up, Head(pending))
  /\ pending' = Tail(pending)
  /\ UNCHANGED <<serverVars, handleVars, clientVars, sender, sent, recvVars, sequences,
                 down, failed, faultVars>>

(***************************************************************************)
(* The receiver.                                                           *)
(***************************************************************************)
ReceiverGoto(from, to) == receiver = from /\ receiver' = to

OthersThanReceiver == <<serverVars, handleVars, clientVars, sendVars, up, faultVars>>

ReceiverGoesOn ==
  /\ processed < Requests
  /\ ReceiverGoto("loop", IF WorkCancelled THEN "returned" ELSE "recv")
  /\ UNCHANGED <<OthersThanReceiver, carry, processed, sequences, down, failed>>

\* Mutant of Recv: what was left over from the last view is forgotten.
RecvForgetful(n) ==
  /\ n \in 1 .. Len(down)
  /\ ReceiverGoto("recv", "frames")
  /\ carry' = SubSeq(down, 1, n)
  /\ down' = SubSeq(down, n + 1, Len(down))
  /\ UNCHANGED <<OthersThanReceiver, processed, sequences, failed>>

\* A view of any length, appended to what was left over from the last one.
Recv(n) ==
  /\ n \in 1 .. Len(down)
  /\ ReceiverGoto("recv", "frames")
  /\ carry' = carry \o SubSeq(down, 1, n)
  /\ down' = SubSeq(down, n + 1, Len(down))
  /\ UNCHANGED <<OthersThanReceiver, processed, sequences, failed>>

\* The end of the stream comes early, or an error.
RecvFails ==
  /\ late \/ (hungUp /\ (down = << >> \/ faulty))
  /\ ReceiverGoto("recv", "returned")
  /\ Fail("receiver")
  /\ UNCHANGED <<OthersThanReceiver, carry, processed, sequences, down>>

HasFrame == Len(carry) >= 2 /\ processed < Requests

\* What becomes of a response that is refused: stdlibClient wraps an error that
\* is nil there, and what beer.Wrap (external) makes of it is left open.
Complaints ==
  {failed \cup {"receiver"}} \cup (IF impl = "stdlib" THEN {failed} ELSE {})

TakeFrame ==
  LET id    == carry[1][1]
      known == id \in sequences
  IN
  /\ HasFrame
  /\ ReceiverGoto("frames", IF known THEN "frames" ELSE "refused")
  /\ carry' = SubSeq(carry, 3, Len(carry))
  /\ processed' = processed + 1
  /\ sequences' = sequences \ {id}
  /\ failed' \in IF known THEN {failed} ELSE Complaints
  /\ UNCHANGED <<OthersThanReceiver, down>>

\* The server's time is lower than that of the request: the clock was set back
\* between the two times the server looks at it.
ServerTimeLower ==
  /\ HasFrame
  /\ carry[1][1] \in sequences
  /\ ReceiverGoto("frames", "refused")
  /\ carry' = SubSeq(carry, 3, Len(carry))
  /\ processed' = processed + 1
  /\ failed' \in Complaints
  /\ faulty' = TRUE
  /\ UNCHANGED <<serverVars, handleVars, clientVars, sendVars, sequences, up, down, late>>

FramesDone ==
  /\ ~HasFrame
  /\ ReceiverGoto("frames", "loop")
  /\ UNCHANGED <<OthersThanReceiver, carry, processed, sequences, down, failed>>

CheckEmpty ==
  /\ processed = Requests
  /\ ReceiverGoto("loop", "returned")
  /\ failed' = IF sequences = {} THEN failed ELSE failed \cup {"receiver"}
  /\ UNCHANGED <<OthersThanReceiver, carry, processed, sequences, down>>

(***************************************************************************)
(* main's client goroutine.                                                *)
(***************************************************************************)
ClientGoto(from, to) == client = from /\ client' = to

OthersThanClient == <<serverVars, handleVars, impl, sent, pending, carry, processed, sequences,
                      up, down, late>>

PassBarrier ==
  /\ barrier
  /\ ClientGoto("barrier", "connect")
  /\ UNCHANGED <<OthersThanClient, noMoreRequests, poller, sender, receiver, failed,
                 faulty>>

Connect ==
  /\ listener = "open"
  /\ ClientGoto("connect", "work")
  /\ sender' = "next"
  /\ receiver' = "loop"
  /\ UNCHANGED <<OthersThanClient, noMoreRequests, poller, failed, faulty>>

\* This, or one of the calls before it, fails; stdlibClient exits.
ConnectFails ==
  /\ ClientGoto("connect", IF impl = "stdlib" THEN "exited" ELSE "returned")
  /\ Fail("client")
  /\ faulty' = TRUE
  /\ UNCHANGED <<OthersThanClient, noMoreRequests, poller, sender, receiver>>

WorkDone == sender = "returned" /\ receiver \in {"returned", "refused"}

\* netringClient does not wait for its workers when the context is cancelled
\* or the watchdog barks.
GiveUp ==
  /\ impl = "netring"
  /\ late \/ Cancelled
  /\ ClientGoto("work", "returned")
  /\ Fail("client")
  /\ UNCHANGED <<OthersThanClient, noMoreRequests, poller, sender, receiver, faulty>>

WorkFailed ==
  /\ WorkDone
  /\ {"sender", "receiver"} \cap failed # {}
  /\ ClientGoto("work", "returned")
  /\ Fail("client")
  /\ UNCHANGED <<OthersThanClient, noMoreRequests, poller, sender, receiver, faulty>>

StdlibDone ==
  /\ impl = "stdlib"
  /\ WorkDone
  /\ {"sender", "receiver"} \cap failed = {}
  /\ ClientGoto("work", "returned")
  /\ noMoreRequests' = TRUE
  /\ UNCHANGED <<OthersThanClient, poller, sender, receiver, failed, faulty>>

\* The teardown of netringClient: Close of the descriptor returns, ...
CloseConn ==
  /\ impl = "netring"
  /\ WorkDone
  /\ {"sender", "receiver"} \cap failed = {}
  /\ ClientGoto("work", "closed")
  /\ UNCHANGED <<OthersThanClient, noMoreRequests, poller, sender, receiver, failed,
                 faulty>>

\* ... the poller finds nothing for a while, sees no stop, and waits, ...
PollerWaits ==
  /\ client = "closed"
  /\ poller' = "waits"
  /\ UNCHANGED <<OthersThanClient, client, noMoreRequests, sender, receiver, failed,
                 faulty>>

\* ... stop is set, ...
StopPoller ==
  /\ ClientGoto("closed", "finish")
  /\ UNCHANGED <<OthersThanClient, noMoreRequests, poller, sender, receiver, failed,
                 faulty>>

\* ... which the poller sees if it is not waiting, ...
PollerStops ==
  /\ client = "finish"
  /\ poller = "spins"
  /\ poller' = "gone"
  /\ UNCHANGED <<OthersThanClient, client, noMoreRequests, sender, receiver, failed,
                 faulty>>

\* ... and Stop.
NetringDone ==
  /\ poller = "gone"
  /\ ClientGoto("finish", "returned")
  /\ noMoreRequests' = TRUE
  /\ UNCHANGED <<OthersThanClient, poller, sender, receiver, failed, faulty>>

(***************************************************************************)
(* Specification.  When main returns the process is gone.                  *)
(***************************************************************************)
Stopped == client = "exited" \/ (client = "returned" /\ server = "returned")

Server == Listen \/ Accept \/ LookAtErrors \/ (listener = "closed" /\ AcceptFails)
Handler == ReadHeader \/ ReadBody \/ (\E k \in {1, 2} : WriteResponse(k)) \/ ReportError
Sender ==
  StoreRequest \/ SendRequest \/ SendStop \/ Flush \/ SenderCancelled \/ SenderFails
Receiver ==
  \/ ReceiverGoesOn \/ (\E n \in 1 .. Room : Recv(n)) \/ RecvFails
  \/ TakeFrame \/ FramesDone \/ CheckEmpty
Client ==
  \/ PassBarrier \/ Connect \/ (listener = "closed" /\ ConnectFails)
  \/ GiveUp \/ WorkFailed \/ StdlibDone \/ CloseConn \/ StopPoller \/ NetringDone

\* What goes wrong when it pleases; no fairness.
Fault ==
  \/ TimePasses \/ ListenFails \/ AcceptFails \/ ServeFails \/ ServerTimeLower \/ ConnectFails

Next ==
  /\ ~Stopped
  /\ \/ Server \/ CloseListener \/ Handler
     \/ Client \/ PollerWaits \/ PollerStops
     \/ Sender \/ Transfer \/ Receiver
     \/ Fault

Spec == Init /\ [][Next]_vars

\* The goroutines and the socket go on.  Time need not pass and nothing has
\* to go wrong, so that no step is owed to a deadline or a fault.
FairSpec ==
  /\ Spec
  /\ WF_vars(~Stopped /\ Server)
  /\ WF_vars(~Stopped /\ CloseListener)
  /\ WF_vars(~Stopped /\ Handler)
  /\ WF_vars(~Stopped /\ Sender)
  /\ WF_vars(~Stopped /\ Transfer)
  /\ WF_vars(~Stopped /\ Receiver)
  /\ WF_vars(~Stopped /\ Client)
  /\ WF_vars(~Stopped /\ PollerStops)

(***************************************************************************)
(* Properties.                                                             *)
(***************************************************************************)

\* Frames stay aligned however the stream is cut into views, and a response
\* is never there before its ID is stored, nor twice: no ping, however fast,
\* is answered with "unknown sequence ID" or "sent deleted sequence id again".
ResponsesKnown ==
  receiver = "frames" /\ HasFrame =>
    /\ carry[1][1] \in sequences
    /\ SubSeq(carry, 1, 2) = Frame(carry[1][1])

\* When main reports no error every request was answered, although both
\* workers return nil when their context is cancelled, unless stdlibClient has
\* refused a response with the nil error it wraps; and when main reports an
\* error something did go wrong: the orderly end, in which the listener is
\* closed under the Accept, is not taken for an error.
Verdict ==
  Stopped => IF failed \cap {"server", "client"} = {}
             THEN \/ processed = Requests /\ sequences = {}
                  \/ impl = "stdlib" /\ receiver = "refused"
             ELSE faulty

\* Where the program does hang: the client waits for a barrier that a failed
\* Listen leaves closed to it, or for a poller that no event wakes any more.
Hangs ==
  \/ "server" \in failed /\ ~barrier
  \/ client = "finish" /\ poller = "waits"

\* Where only a deadline goes on: a read or a write of stdlibClient waits for a
\* peer after main's context was cancelled, or a send of either client does
\* after its receiver has refused a response.  There the program does not do
\* what its protocol says, that any error "means everything stops right now".
WaitsForDeadline ==
  /\ ~late
  /\ (impl = "stdlib" /\ Cancelled) \/ receiver = "refused"

\* Without a fault the program ends after the last response, however small the
\* buffers are and never by a deadline; and an error of one side brings down
\* the other, for netringClient at once.
EverythingStops == <>[](Stopped \/ Hangs \/ WaitsForDeadline)
=============================================================================
