------------------------------ MODULE McpClient ------------------------------
(***************************************************************************)
(* McpClient: crates/agentverify-mcp/src/client.rs and transport.rs.       *)
(*                                                                         *)
(* Each caller makes one request.  There is no reader task: every waiting  *)
(* caller tries to read the transport, and routes the responses of others  *)
(* to them.  A step ends where the code awaits: the two locks, the         *)
(* transport's reader lock, the transport itself.  A message of the stdio  *)
(* transport is a line that may arrive in parts; a read that is given up   *)
(* half-way, because the response came from another caller or the deadline *)
(* passed, loses the part it has read.  The channel transport has no       *)
(* partial reads.                                                          *)
(*                                                                         *)
(* A caller is inside one of the client's methods: initialize goes on to   *)
(* record the capabilities and to notify the server, the others decode the *)
(* result and return.                                                      *)
(*                                                                         *)
(* The server is external: it answers a request once, or never, in any     *)
(* order, may send notifications, requests of its own, responses to nobody *)
(* and lines that do not parse, repeat a response, and exit.               *)
(***************************************************************************)
EXTENDS McpProtocol, Sequences

CONSTANTS Callers,
          Method,          \* the method each caller is inside
          Replies,         \* external: the lines the server may answer a method with
          Peer,            \* the other half of a channel transport is kept
          Stdio,           \* StdioTransport, not ChannelTransport
          Capacity,        \* NOTIFICATION_QUEUE_CAPACITY
          MaxUnsolicited,  \* bound on the messages nobody asked for
          MaxWire          \* bound on the messages the transport holds

ASSUME ConfigAssumption == Stdio \in BOOLEAN /\ Peer \in BOOLEAN /\ Capacity \in Nat
ASSUME MethodAssumption == Method \in [Callers -> Methods]
ASSUME BoundAssumption == MaxUnsolicited \in Nat /\ MaxWire \in Nat

VARIABLES
    next_request_id,
    pending_requests,  \* the ids that have a response_tx in the map
    connected,
    notifications,     \* length of the notification queue
    server_capabilities,
    pc,                \* where each caller is
    id,                \* request_id of each caller, 0 before it has one
    slot,              \* the response its oneshot channel holds, or EmptyLine
    msg,               \* the message it is dispatching, or EmptyLine
    result,            \* how its call ended: "None" until then
    got,               \* the response its request ended with, or EmptyLine
    reading,           \* the caller that holds the lock of the reader
    torn,              \* it has read a part of the first message
    requests,          \* external: the requests the server has received
    answered,          \* external: its responses to them
    wire,              \* external: messages on their way to the client
    unsolicited,       \* external: messages sent on the server's own account
    cut                \* history: a read or a dispatch was given up half-way

client == <<next_request_id, pending_requests, connected, notifications, server_capabilities>>
server == <<requests, answered, unsolicited>>
reader == <<reading, torn>>
vars == <<client, pc, id, slot, msg, result, got, reader, server, wire, cut>>

Nobody == "Nobody"
ASSUME NobodyAssumption == Nobody \notin Callers
Unknown == {"None"}   \* server_capabilities before initialize

\* An id that is not a number, or null, is 0: it equals no request's id.
Notification == Line(JsonRpcNotification, 0, Null)
ServerRequest == Line(JsonRpcRequest, 0, Null)
StrayError == Line(Error, 0, Null)
Garbage == Line({"jsonrpc"}, 0, Null)
EndOfFile == EmptyLine

\* connect, with_channel_peer and with_channel_transport, which drops the peer.
InitialWire == IF Stdio \/ Peer THEN <<>> ELSE <<EndOfFile>>

TransportInit ==
    /\ connected = TRUE
    /\ reading = Nobody
    /\ torn = FALSE
    /\ wire = InitialWire

Init ==
    /\ TransportInit
    /\ next_request_id = 1
    /\ pending_requests = {}
    /\ notifications = 0
    /\ server_capabilities = Unknown
    /\ pc = [c \in Callers |-> "start"]
    /\ id = [c \in Callers |-> 0]
    /\ slot = [c \in Callers |-> EmptyLine]
    /\ msg = [c \in Callers |-> EmptyLine]
    /\ result = [c \in Callers |-> "None"]
    /\ got = [c \in Callers |-> EmptyLine]
    /\ requests = {} /\ answered = {} /\ unsolicited = 0
    /\ cut = FALSE

Go(c, from, to) == pc[c] = from /\ pc' = [pc EXCEPT ![c] = to]
Drop(c) == msg' = [msg EXCEPT ![c] = EmptyLine]

\* request() has an outcome; what is left is to give up the pending slot.
End(c, from, what, response) ==
    /\ Go(c, from, "cleanup")
    /\ result' = [result EXCEPT ![c] = what]
    /\ got' = [got EXCEPT ![c] = response]

\* Mutant of StopReading: the lock of the reader stays with a caller that left.
StopReadingKeepsLock(c) == UNCHANGED <<reader, wire>>

\* The recv future is dropped.
StopReading(c) ==
    /\ reading' = IF reading = c THEN Nobody ELSE reading
    /\ torn' = (torn /\ reading # c)
    /\ wire' = IF torn /\ reading = c THEN <<Garbage>> \o Tail(wire) ELSE wire

TearsOff(c) == torn /\ reading = c

-----------------------------------------------------------------------------
\* request

AllocateId(c) ==
    /\ Go(c, "start", "register")
    /\ id' = [id EXCEPT ![c] = next_request_id]
    /\ next_request_id' = next_request_id + 1
    /\ UNCHANGED <<pending_requests, connected, notifications, server_capabilities, slot, msg, result, got, reader, server, wire, cut>>

Register(c) ==
    /\ Go(c, "register", "send")
    /\ pending_requests' = pending_requests \cup {id[c]}
    /\ UNCHANGED <<next_request_id, connected, notifications, server_capabilities, id, slot, msg, result, got, reader, server, wire, cut>>

Running == EndOfFile \notin {wire[i] : i \in DOMAIN wire}

\* A pipe may still take what a server that is gone will not read.
Sends == connected /\ (Stdio \/ Running)
MaySendFail == ~connected \/ ~Running

Send(c) ==
    /\ Sends
    /\ Go(c, "send", "select")
    /\ requests' = requests \cup {id[c]}
    /\ UNCHANGED <<client, id, slot, msg, result, got, reader, answered, unsolicited, wire, cut>>

SendFails(c) ==
    /\ MaySendFail
    /\ End(c, "send", "Error", EmptyLine)
    /\ UNCHANGED <<client, id, slot, msg, reader, server, wire, cut>>

\* The errors of McpClientError that the code returns, those of the transport and of
\* the channel as one; it never returns NotInitialized or CapabilityNotSupported.
McpClientErrors == {"Error", "Timeout", "JsonRpc", "InvalidResponse"}

\* What the typed call makes of the outcome of request.
Returned(c) ==
    IF result[c] # "Response" THEN result[c]
    ELSE IF Decode(got[c]) = "error" THEN "JsonRpc"
    ELSE IF ~FromValue(Method[c], got[c].result) THEN "InvalidResponse"
    ELSE IF Method[c] = "initialize" THEN "Response"
    ELSE "Ok"

\* Mutant of Cleanup: a request that failed keeps its slot.
CleanupOnSuccess(c) ==
    /\ Go(c, "cleanup", IF Returned(c) = "Response" THEN "negotiated" ELSE "done")
    /\ pending_requests' = IF result[c] = "Response" THEN pending_requests \ {id[c]} ELSE pending_requests
    /\ result' = [result EXCEPT ![c] = Returned(c)]
    /\ UNCHANGED <<next_request_id, connected, notifications, server_capabilities, id, slot, msg, got, reader, server, wire, cut>>

Cleanup(c) ==
    /\ Go(c, "cleanup", IF Returned(c) = "Response" THEN "negotiated" ELSE "done")
    /\ pending_requests' = pending_requests \ {id[c]}
    /\ result' = [result EXCEPT ![c] = Returned(c)]
    /\ UNCHANGED <<next_request_id, connected, notifications, server_capabilities, id, slot, msg, got, reader, server, wire, cut>>

-----------------------------------------------------------------------------
\* initialize, once the server has answered

StoreCapabilities(c) ==
    /\ Go(c, "negotiated", "notify")
    /\ server_capabilities' = ServerCapabilities(got[c].result)
    /\ UNCHANGED <<next_request_id, pending_requests, connected, notifications, id, slot, msg, result, got, reader, server, wire, cut>>

Notify(c, sent) ==
    /\ IF sent THEN Sends ELSE MaySendFail
    /\ Go(c, "notify", "done")
    /\ result' = [result EXCEPT ![c] = IF sent THEN "Ok" ELSE "Error"]
    /\ UNCHANGED <<client, id, slot, msg, got, reader, server, wire, cut>>

-----------------------------------------------------------------------------
\* await_response: one iteration of its loop selects between the oneshot
\* channel and recv_message

StartRecv(c) ==
    /\ connected
    /\ Go(c, "select", "waiting")
    /\ UNCHANGED <<client, id, slot, msg, result, got, reader, server, wire, cut>>

RecvRefused(c) ==
    /\ ~connected
    /\ End(c, "select", "Error", EmptyLine)
    /\ UNCHANGED <<client, id, slot, msg, reader, server, wire, cut>>

Correlated(c) ==
    /\ slot[c] # EmptyLine
    /\ \E from \in {"select", "waiting"} : End(c, from, "Response", slot[c])
    /\ StopReading(c)
    /\ cut' = (cut \/ TearsOff(c))
    /\ UNCHANGED <<client, id, slot, msg, server>>

LockReader(c) ==
    /\ pc[c] = "waiting" /\ reading = Nobody
    /\ reading' = c
    /\ UNCHANGED <<client, pc, id, slot, msg, result, got, torn, server, wire, cut>>

Readable(c) == reading = c /\ pc[c] = "waiting" /\ wire # <<>>
Incoming == Head(wire)

ReadPart(c) ==
    /\ Stdio /\ Readable(c) /\ Incoming # EndOfFile /\ ~torn
    /\ torn' = TRUE
    /\ UNCHANGED <<client, pc, id, slot, msg, result, got, reading, server, wire, cut>>

\* recv returns the first message and with it the lock.
Receive(c, kinds) ==
    /\ Readable(c) /\ Decode(Incoming) \in kinds
    /\ wire' = IF Incoming = EndOfFile THEN wire ELSE Tail(wire)
    /\ reading' = Nobody /\ torn' = FALSE

Responses == {"success", "error"}

\* A line that does not parse, or the end of the stream.
ReceiveError(c) ==
    /\ Receive(c, {"unparsable"})
    /\ End(c, "waiting", "Error", EmptyLine)
    /\ UNCHANGED <<client, id, slot, msg, server, cut>>

\* Mutant of ReceiveOwn: the first response that comes is taken.
ReceiveAny(c) ==
    /\ Receive(c, Responses)
    /\ End(c, "waiting", "Response", Incoming)
    /\ UNCHANGED <<client, id, slot, msg, server, cut>>

ReceiveOwn(c) ==
    /\ Receive(c, Responses) /\ Incoming.id = id[c]
    /\ End(c, "waiting", "Response", Incoming)
    /\ UNCHANGED <<client, id, slot, msg, server, cut>>

\* try_send: a full queue drops the notification.
ReceiveNotification(c) ==
    /\ Receive(c, {"notification"})
    /\ Go(c, "waiting", "select")
    /\ notifications' = IF notifications < Capacity THEN notifications + 1 ELSE notifications
    /\ UNCHANGED <<next_request_id, pending_requests, connected, server_capabilities, id, slot, msg, result, got, server, cut>>

\* Mutant of ReceiveOther: what is not the caller's own is skipped.
ReceiveOtherSkipped(c) ==
    /\ \/ Receive(c, Responses) /\ Incoming.id \notin {0, id[c]}
       \/ Receive(c, {"request"})
    /\ Go(c, "waiting", "select")
    /\ UNCHANGED <<client, id, slot, msg, result, got, server, cut>>

\* A message whose dispatch awaits: a response of another caller, the lock of
\* pending_requests; a request of the server, the transport.
ReceiveOther(c) ==
    /\ \/ Receive(c, Responses) /\ Incoming.id \notin {0, id[c]}
       \/ Receive(c, {"request"})
    /\ msg' = [msg EXCEPT ![c] = Incoming]
    /\ Go(c, "waiting", "dispatch")
    /\ UNCHANGED <<client, id, slot, result, got, server, cut>>

\* A response whose id is not a number belongs to nobody.
ReceiveStray(c) ==
    /\ Receive(c, Responses) /\ Incoming.id = 0
    /\ Go(c, "waiting", "select")
    /\ UNCHANGED <<client, id, slot, msg, result, got, server, cut>>

\* Mutant of Route: the slot is taken and the response not sent.
RouteForgets(c) ==
    /\ Go(c, "dispatch", "select") /\ Decode(msg[c]) \in Responses
    /\ pending_requests' = pending_requests \ {msg[c].id}
    /\ Drop(c)
    /\ UNCHANGED <<next_request_id, connected, notifications, server_capabilities, id, slot, result, got, reader, server, wire, cut>>

\* take_pending and the send on the oneshot channel; stale responses are dropped.
Route(c) ==
    /\ Go(c, "dispatch", "select") /\ Decode(msg[c]) \in Responses
    /\ pending_requests' = pending_requests \ {msg[c].id}
    /\ slot' = [d \in Callers |-> IF id[d] = msg[c].id /\ id[d] \in pending_requests
                                  THEN msg[c] ELSE slot[d]]
    /\ Drop(c)
    /\ UNCHANGED <<next_request_id, connected, notifications, server_capabilities, id, result, got, reader, server, wire, cut>>

\* reject_request, whose errors are ignored.
Reject(c) ==
    /\ Go(c, "dispatch", "select") /\ Decode(msg[c]) = "request"
    /\ Drop(c)
    /\ UNCHANGED <<client, id, slot, result, got, reader, server, wire, cut>>

Timeout(c) ==
    /\ \E from \in {"select", "waiting", "dispatch"} : End(c, from, "Timeout", EmptyLine)
    /\ StopReading(c)
    /\ cut' = (cut \/ TearsOff(c) \/ Decode(msg[c]) \in Responses)
    /\ Drop(c)
    /\ UNCHANGED <<client, id, slot, server>>

-----------------------------------------------------------------------------
\* next_notification and shutdown

TakeNotification ==
    /\ notifications > 0
    /\ notifications' = notifications - 1
    /\ UNCHANGED <<next_request_id, pending_requests, connected, server_capabilities, pc, id, slot, msg, result, got, reader, server, wire, cut>>

Shutdown ==
    /\ connected
    /\ connected' = FALSE
    /\ UNCHANGED <<next_request_id, pending_requests, notifications, server_capabilities, pc, id, slot, msg, result, got, reader, server, wire, cut>>

-----------------------------------------------------------------------------
\* External: the server

Emit(m) == Running /\ Len(wire) < MaxWire /\ wire' = Append(wire, m)

Answered(i) == \E line \in answered : line.id = i

Answer(i) ==
    /\ ~Answered(i)
    /\ \E c \in Callers : id[c] = i /\ \E reply \in Replies[Method[c]] :
          LET line == [reply EXCEPT !.id = i]
          IN  answered' = answered \cup {line} /\ Emit(line)
    /\ UNCHANGED <<client, pc, id, slot, msg, result, got, reader, requests, unsolicited, cut>>

\* Garbage is a line that is empty or does not parse.
Unsolicited ==
    {Notification, ServerRequest, StrayError} \cup answered
        \cup (IF Stdio THEN {Garbage} ELSE {})

SendUnsolicited ==
    /\ unsolicited < MaxUnsolicited
    /\ unsolicited' = unsolicited + 1
    /\ \E m \in Unsolicited : Emit(m)
    /\ UNCHANGED <<client, pc, id, slot, msg, result, got, reader, requests, answered, cut>>

Exit ==
    /\ Emit(EndOfFile)
    /\ UNCHANGED <<client, pc, id, slot, msg, result, got, reader, server, cut>>

-----------------------------------------------------------------------------
AllDone ==
    /\ \A c \in Callers : pc[c] = "done"
    /\ UNCHANGED vars

CallerStep(c) ==
    \/ AllocateId(c) \/ Register(c) \/ Send(c) \/ SendFails(c) \/ Cleanup(c)
    \/ StartRecv(c) \/ RecvRefused(c) \/ Correlated(c) \/ LockReader(c) \/ ReadPart(c)
    \/ ReceiveError(c) \/ ReceiveOwn(c) \/ ReceiveNotification(c) \/ ReceiveOther(c)
    \/ ReceiveStray(c) \/ Route(c) \/ Reject(c)
    \/ StoreCapabilities(c) \/ \E sent \in BOOLEAN : Notify(c, sent)

Next ==
    \/ \E c \in Callers : CallerStep(c) \/ Timeout(c)
    \/ TakeNotification \/ Shutdown
    \/ \E i \in requests : Answer(i)
    \/ SendUnsolicited \/ Exit
    \/ AllDone

Spec == Init /\ [][Next]_vars

\* Every request is a task that the runtime polls; deadlines may be far away.
FairSpec == Spec /\ \A c \in Callers : WF_vars(CallerStep(c))

-----------------------------------------------------------------------------
\* Properties

InFlight(c) == pc[c] \in {"send", "select", "waiting", "dispatch", "cleanup"}
Waiting(c) == pc[c] \in {"select", "waiting", "dispatch"}
Carried(line) ==
    \/ line \in {wire[n] : n \in DOMAIN wire}
    \/ \E c \in Callers : line \in {slot[c], got[c], msg[c]}

Lines == [has : SUBSET {"jsonrpc", "id", "method", "result", "error"}, id : Nat,
          result : {Null} \cup {reply.result : reply \in UNION {Replies[m] : m \in Methods}}]

\* What answers a request is a response: other lines are among the unsolicited ones.
ASSUME RepliesAssumption ==
    \A m \in Methods : \A reply \in Replies[m] : reply \in Lines /\ Decode(reply) \in Responses

\* Every variable keeps its shape; only a waiting caller reads.
TypeOK ==
    /\ next_request_id \in Nat \ {0}
    /\ pending_requests \subseteq Nat
    /\ connected \in BOOLEAN
    /\ notifications \in 0..Capacity
    /\ server_capabilities \in {Unknown} \cup SUBSET Capabilities
    /\ pc \in [Callers -> {"start", "register", "send", "select", "waiting", "dispatch",
                           "cleanup", "negotiated", "notify", "done"}]
    /\ id \in [Callers -> Nat]
    /\ slot \in [Callers -> Lines]
    /\ msg \in [Callers -> Lines]
    /\ result \in [Callers -> {"None", "Response", "Ok"} \cup McpClientErrors]
    /\ got \in [Callers -> Lines]
    /\ reading \in Callers \cup {Nobody}
    /\ torn \in BOOLEAN
    /\ \A c \in Callers : reading = c => pc[c] = "waiting"
    /\ requests \subseteq Nat /\ answered \subseteq Lines
    /\ unsolicited \in 0..MaxUnsolicited
    /\ wire \in Seq(Lines)
    /\ cut \in BOOLEAN

\* The response a caller gets is the server's to its own request, whoever read it,
\* however late, and even if the server repeats itself; a call that succeeds has
\* a result of the type its method promises, and server_capabilities are those
\* the server declared.
OwnResponse ==
    /\ \A c \in Callers :
          /\ got[c] # EmptyLine => got[c] \in answered /\ got[c].id = id[c]
          /\ result[c] = "Ok" => FromValue(Method[c], got[c].result)
    /\ server_capabilities # Unknown =>
          \E c \in Callers : /\ Method[c] = "initialize" /\ got[c] # EmptyLine
                             /\ server_capabilities = ServerCapabilities(got[c].result)

\* await_response: "the only sender is this client's own pending slot, which
\* outlives the wait, so this cannot fire while a request is in flight".
ChannelOpen ==
    \A c \in Callers : Waiting(c) => id[c] \in pending_requests \/ slot[c] # EmptyLine

\* "Whatever the outcome, this request no longer owns its slot": the map holds no
\* more than the requests in flight.
NoLeak == \A i \in pending_requests : \E c \in Callers : id[c] = i /\ InFlight(c)

\* request: "responses belonging to other in-flight requests are handed to their
\* owner".  As long as no read and no dispatch was given up half-way, the response
\* to a caller that still waits is not lost: it is on the wire, in a caller's
\* hand, in the oneshot channel or returned.
ResponseKept ==
    ~cut => \A c \in Callers : Waiting(c) /\ Answered(id[c]) =>
        \E line \in answered : line.id = id[c] /\ Carried(line)

\* A caller whose request was answered does not wait for ever on the callers that
\* read before it, even if no deadline ever passes.
AnswerArrives ==
    \A c \in Callers : Waiting(c) /\ Answered(id[c]) ~> ~Waiting(c) \/ cut

=============================================================================
