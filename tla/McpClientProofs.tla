-------------------------- MODULE McpClientProofs --------------------------
(***************************************************************************)
(* Theorems about McpClient, for any number of callers, every transport    *)
(* and whatever the server answers, repeats, tears or leaves out.          *)
(***************************************************************************)
EXTENDS McpClient, SequenceTheorems, TLAPS

-----------------------------------------------------------------------------
\* Sequences and lines

Elems(s) == {s[n] : n \in DOMAIN s}

\* Taking the first message off leaves the others.
LEMMA ElemsOfTail ==
    ASSUME NEW S, NEW s \in Seq(S), s # <<>>
    PROVE  /\ Head(s) \in S /\ Tail(s) \in Seq(S)
           /\ Elems(s) = {Head(s)} \cup Elems(Tail(s))
  <1>1. /\ Head(s) \in S /\ Tail(s) \in Seq(S) /\ Len(s) \in Nat \ {0}
        /\ Len(Tail(s)) = Len(s) - 1 /\ Head(s) = s[1]
        /\ \A i \in 1 .. Len(Tail(s)) : Tail(s)[i] = s[i+1]
    BY HeadTailProperties, LenProperties, EmptySeq
  <1>2. DOMAIN s = 1 .. Len(s) /\ DOMAIN Tail(s) = 1 .. (Len(s) - 1)
    BY <1>1, LenProperties
  <1>3. ASSUME NEW n \in DOMAIN s PROVE s[n] \in {Head(s)} \cup Elems(Tail(s))
    <2>1. CASE n = 1
      BY <1>1, <2>1
    <2>2. CASE n # 1
      <3>1. n - 1 \in DOMAIN Tail(s) /\ Tail(s)[n - 1] = s[n]
        BY <1>1, <1>2, <2>2
      <3> QED
        BY <3>1 DEF Elems
    <2> QED
      BY <2>1, <2>2
  <1>4. ASSUME NEW n \in DOMAIN Tail(s) PROVE Tail(s)[n] \in Elems(s)
    <2>1. n + 1 \in DOMAIN s /\ Tail(s)[n] = s[n + 1]
      BY <1>1, <1>2
    <2> QED
      BY <2>1 DEF Elems
  <1>5. Head(s) \in Elems(s)
    BY <1>1, <1>2 DEF Elems
  <1> QED
    BY <1>1, <1>3, <1>4, <1>5 DEF Elems

\* Appending a message adds it.
LEMMA ElemsOfAppend ==
    ASSUME NEW S, NEW s \in Seq(S), NEW e \in S
    PROVE  Append(s, e) \in Seq(S) /\ Elems(Append(s, e)) = Elems(s) \cup {e}
  <1>1. /\ Append(s, e) \in Seq(S) /\ Len(s) \in Nat
        /\ DOMAIN Append(s, e) = 1 .. (Len(s) + 1) /\ DOMAIN s = 1 .. Len(s)
        /\ \A i \in 1 .. Len(s) : Append(s, e)[i] = s[i]
        /\ Append(s, e)[Len(s) + 1] = e
    BY AppendProperties, LenProperties
  <1>2. ASSUME NEW n \in DOMAIN Append(s, e) PROVE Append(s, e)[n] \in Elems(s) \cup {e}
    BY <1>1 DEF Elems
  <1>3. ASSUME NEW n \in DOMAIN s PROVE s[n] \in Elems(Append(s, e))
    <2>1. n \in DOMAIN Append(s, e) /\ Append(s, e)[n] = s[n]
      BY <1>1
    <2> QED
      BY <2>1 DEF Elems
  <1>4. e \in Elems(Append(s, e))
    <2>1. Len(s) + 1 \in DOMAIN Append(s, e)
      BY <1>1
    <2> QED
      BY <1>1, <2>1 DEF Elems
  <1> QED
    BY <1>1, <1>2, <1>3, <1>4 DEF Elems

\* A read that is given up puts a line that does not parse in the place of the first.
LEMMA ElemsOfTorn ==
    ASSUME NEW S, NEW s \in Seq(S), s # <<>>, NEW e \in S
    PROVE  /\ <<e>> \o Tail(s) \in Seq(S)
           /\ Elems(<<e>> \o Tail(s)) = {e} \cup Elems(Tail(s))
  <1> DEFINE t == Tail(s)
             u == <<e>> \o t
  <1>1. t \in Seq(S)
    BY ElemsOfTail
  <1>2. <<e>> \in Seq(S) /\ Len(<<e>>) = 1 /\ <<e>>[1] = e
    OBVIOUS
  <1>3. /\ u \in Seq(S) /\ Len(t) \in Nat
        /\ DOMAIN u = 1 .. (Len(t) + 1) /\ DOMAIN t = 1 .. Len(t)
        /\ u[1] = e /\ \A i \in 1 .. Len(t) : u[i + 1] = t[i]
    <2> HIDE DEF t
    <2>1. u \in Seq(S) /\ Len(u) = 1 + Len(t)
      BY <1>1, <1>2, ConcatProperties
    <2>2. \A i \in 1 .. Len(u) : u[i] = IF i <= 1 THEN <<e>>[i] ELSE t[i - 1]
      BY <1>1, <1>2, <2>1, ConcatProperties
    <2>3. Len(t) \in Nat /\ DOMAIN t = 1 .. Len(t) /\ DOMAIN u = 1 .. Len(u)
      BY <1>1, <2>1, LenProperties
    <2> QED
      BY <1>2, <2>1, <2>2, <2>3
  <1> HIDE DEF t, u
  <1>4. ASSUME NEW n \in DOMAIN u PROVE u[n] \in {e} \cup Elems(t)
    <2>1. CASE n = 1
      BY <1>3, <2>1
    <2>2. CASE n # 1
      <3>1. n - 1 \in DOMAIN t /\ u[n] = t[n - 1]
        BY <1>3, <2>2
      <3> QED
        BY <3>1 DEF Elems
    <2> QED
      BY <2>1, <2>2
  <1>5. ASSUME NEW n \in DOMAIN t PROVE t[n] \in Elems(u)
    <2>1. n + 1 \in DOMAIN u /\ u[n + 1] = t[n]
      BY <1>3
    <2> QED
      BY <2>1 DEF Elems
  <1>6. e \in Elems(u)
    BY <1>3 DEF Elems
  <1>7. u \in Seq(S) /\ Elems(u) = {e} \cup Elems(t)
    BY <1>3, <1>4, <1>5, <1>6 DEF Elems
  <1> QED
    BY <1>7 DEF t, u

\* The lines the model builds itself.
LEMMA KnownLines ==
    /\ {EmptyLine, Notification, ServerRequest, StrayError, Garbage} \subseteq Lines
    /\ \A line \in {EmptyLine, Notification, ServerRequest, StrayError, Garbage} : line.id = 0
  BY DEF Lines, EmptyLine, Notification, ServerRequest, StrayError, Garbage, Line,
         JsonRpcNotification, JsonRpcRequest, Error

\* Nothing is in an empty line.
LEMMA EmptyIsUnparsable == Decode(EmptyLine) = "unparsable" /\ Decode(Garbage) = "unparsable"
  BY DEF Decode, EmptyLine, Garbage, Line, JsonRpcRequest, JsonRpcNotification, Success, Error

\* The server's answer to request i.
LEMMA AnswerIsResponse ==
    ASSUME NEW m \in Methods, NEW reply \in Replies[m], NEW i \in Nat
    PROVE  /\ [reply EXCEPT !.id = i] \in Lines
           /\ [reply EXCEPT !.id = i].id = i
           /\ Decode([reply EXCEPT !.id = i]) \in Responses
  <1>1. reply \in Lines /\ Decode(reply) \in Responses
    BY RepliesAssumption
  <1>2. [reply EXCEPT !.id = i] \in Lines
    BY <1>1 DEF Lines
  <1>3. [reply EXCEPT !.id = i].id = i /\ [reply EXCEPT !.id = i].has = reply.has
    BY <1>1 DEF Lines
  <1> QED
    BY <1>1, <1>2, <1>3 DEF Decode

-----------------------------------------------------------------------------
\* Type correctness

\* A part of a message has been read only if there is a message.
Typed == TypeOK /\ (torn => wire # <<>>)

\* What a step does to the wire: nothing, or it takes the first message off, or it
\* tears it, or it puts one at the end.
LEMMA StopReadingEffect ==
    ASSUME Typed, NEW c \in Callers, StopReading(c)
    PROVE  /\ wire' \in Seq(Lines) /\ torn' \in BOOLEAN /\ reading' \in Callers \cup {Nobody}
           /\ torn' => wire' # <<>>
           /\ reading' # c
           /\ \A d \in Callers : reading' = d => reading = d
           /\ Elems(wire') \subseteq Elems(wire) \cup {Garbage}
           /\ ~TearsOff(c) => wire' = wire
  <1>1. CASE TearsOff(c)
    <2>1. wire \in Seq(Lines) /\ wire # <<>> /\ Garbage \in Lines
      BY <1>1, KnownLines DEF Typed, TypeOK, TearsOff
    <2>2. wire' = <<Garbage>> \o Tail(wire)
      BY <1>1 DEF StopReading, TearsOff
    <2>3. wire' \in Seq(Lines) /\ Elems(wire') = {Garbage} \cup Elems(Tail(wire))
      BY <2>1, <2>2, ElemsOfTorn
    <2>4. Elems(Tail(wire)) \subseteq Elems(wire)
      BY <2>1, ElemsOfTail
    <2> QED
      BY <1>1, <2>3, <2>4, NobodyAssumption DEF StopReading, TearsOff, Typed, TypeOK
  <1>2. CASE ~TearsOff(c)
    BY <1>2, NobodyAssumption DEF StopReading, TearsOff, Typed, TypeOK
  <1> QED
    BY <1>1, <1>2

LEMMA ReceiveEffect ==
    ASSUME Typed, NEW c \in Callers, NEW kinds, Receive(c, kinds)
    PROVE  /\ wire' \in Seq(Lines) /\ torn' = FALSE /\ reading' = Nobody
           /\ pc[c] = "waiting" /\ reading = c
           /\ Incoming \in Lines /\ Incoming \in Elems(wire) /\ Decode(Incoming) \in kinds
           /\ Elems(wire') \subseteq Elems(wire)
           /\ \A line \in Elems(wire) : line \in Elems(wire') \/ line = Incoming
  <1>1. wire \in Seq(Lines) /\ wire # <<>>
    BY DEF Receive, Readable, Typed, TypeOK
  <1>2. /\ Incoming \in Lines /\ Tail(wire) \in Seq(Lines)
        /\ Elems(wire) = {Incoming} \cup Elems(Tail(wire))
    BY <1>1, ElemsOfTail DEF Incoming
  <1> QED
    BY <1>1, <1>2 DEF Receive, Readable

LEMMA EmitEffect ==
    ASSUME Typed, NEW m \in Lines, Emit(m)
    PROVE  wire' \in Seq(Lines) /\ wire' # <<>> /\ Elems(wire') = Elems(wire) \cup {m}
  <1>1. wire' \in Seq(Lines) /\ Elems(wire') = Elems(wire) \cup {m}
    BY ElemsOfAppend DEF Emit, Typed, TypeOK
  <1>2. m \in Elems(wire')
    BY <1>1
  <1>3. Elems(<<>>) = {}
    BY DEF Elems
  <1> QED
    BY <1>1, <1>2, <1>3

LEMMA AnswerEffect ==
    ASSUME Typed, NEW i \in requests, Answer(i)
    PROVE  \E line \in Lines : /\ line.id = i /\ Decode(line) \in Responses
                               /\ answered' = answered \cup {line} /\ Emit(line)
  <1>1. i \in Nat
    BY DEF Typed, TypeOK
  <1>2. PICK c \in Callers : \E reply \in Replies[Method[c]] :
             /\ answered' = answered \cup {[reply EXCEPT !.id = i]}
             /\ Emit([reply EXCEPT !.id = i])
    BY DEF Answer
  <1>3. PICK reply \in Replies[Method[c]] :
             /\ answered' = answered \cup {[reply EXCEPT !.id = i]}
             /\ Emit([reply EXCEPT !.id = i])
    BY <1>2
  <1>4. Method[c] \in Methods
    BY MethodAssumption
  <1> QED
    BY <1>1, <1>3, <1>4, AnswerIsResponse

LEMMA TypeInductive == Typed /\ [Next]_vars => Typed'
  <1> SUFFICES ASSUME Typed, [Next]_vars PROVE Typed'
    OBVIOUS
  <1>0. EmptyLine \in Lines
    BY KnownLines
  <1>a. ASSUME NEW c \in Callers, Register(c) PROVE pending_requests' \subseteq Nat
    <2>1. pending_requests \subseteq Nat /\ id[c] \in Nat
      BY DEF Typed, TypeOK
    <2>2. pending_requests' = pending_requests \cup {id[c]}
      BY <1>a DEF Register
    <2> QED
      BY <2>1, <2>2
  <1>b. ASSUME NEW c \in Callers, Send(c) PROVE requests' \subseteq Nat
    <2>1. requests \subseteq Nat /\ id[c] \in Nat
      BY DEF Typed, TypeOK
    <2>2. requests' = requests \cup {id[c]}
      BY <1>b DEF Send
    <2> QED
      BY <2>1, <2>2
  <1> USE <1>0, ConfigAssumption, BoundAssumption, NobodyAssumption
      DEF Typed, TypeOK, Go, Drop, End, client, server, reader, McpClientErrors
  <1> HIDE DEF Lines, EmptyLine, Nobody, Unknown, Decode
  <1>1. CASE UNCHANGED vars
    BY <1>1 DEF vars
  <1>2. ASSUME NEW c \in Callers, AllocateId(c) PROVE Typed'
    BY <1>2 DEF AllocateId
  <1>3. ASSUME NEW c \in Callers, Register(c) PROVE Typed'
    BY <1>3, <1>a DEF Register
  <1>4. ASSUME NEW c \in Callers, Send(c) PROVE Typed'
    BY <1>4, <1>b DEF Send
  <1>5. ASSUME NEW c \in Callers, SendFails(c) PROVE Typed'
    BY <1>5 DEF SendFails
  <1>6. ASSUME NEW c \in Callers, Cleanup(c) PROVE Typed'
    <2>1. Returned(c) \in {"None", "Response", "Ok"} \cup McpClientErrors
      BY DEF Returned
    <2> QED
      BY <1>6, <2>1 DEF Cleanup
  <1>7. ASSUME NEW c \in Callers, StartRecv(c) PROVE Typed'
    BY <1>7 DEF StartRecv
  <1>8. ASSUME NEW c \in Callers, RecvRefused(c) PROVE Typed'
    BY <1>8 DEF RecvRefused
  <1>9. ASSUME NEW c \in Callers, Correlated(c) PROVE Typed'
    <2>1. /\ wire' \in Seq(Lines) /\ torn' \in BOOLEAN /\ reading' \in Callers \cup {Nobody}
          /\ torn' => wire' # <<>>
          /\ reading' # c
          /\ \A d \in Callers : reading' = d => reading = d
      BY <1>9, StopReadingEffect DEF Correlated
    <2>2. cut' \in BOOLEAN
      BY <1>9 DEF Correlated, TearsOff
    <2> QED
      BY <1>9, <2>1, <2>2 DEF Correlated
  <1>10. ASSUME NEW c \in Callers, LockReader(c) PROVE Typed'
    BY <1>10 DEF LockReader
  <1>11. ASSUME NEW c \in Callers, ReadPart(c) PROVE Typed'
    BY <1>11 DEF ReadPart, Readable
  <1>12. ASSUME NEW c \in Callers, ReceiveError(c) PROVE Typed'
    <2>1. wire' \in Seq(Lines) /\ torn' = FALSE /\ reading' = Nobody
      BY <1>12, ReceiveEffect DEF ReceiveError
    <2> QED
      BY <1>12, <2>1 DEF ReceiveError
  <1>13. ASSUME NEW c \in Callers, ReceiveOwn(c) PROVE Typed'
    <2>1. wire' \in Seq(Lines) /\ torn' = FALSE /\ reading' = Nobody /\ Incoming \in Lines
      BY <1>13, ReceiveEffect DEF ReceiveOwn
    <2> QED
      BY <1>13, <2>1 DEF ReceiveOwn
  <1>14. ASSUME NEW c \in Callers, ReceiveNotification(c) PROVE Typed'
    <2>1. wire' \in Seq(Lines) /\ torn' = FALSE /\ reading' = Nobody
      BY <1>14, ReceiveEffect DEF ReceiveNotification
    <2>2. notifications' \in 0..Capacity
      BY <1>14 DEF ReceiveNotification
    <2> QED
      BY <1>14, <2>1, <2>2 DEF ReceiveNotification
  <1>15. ASSUME NEW c \in Callers, ReceiveOther(c) PROVE Typed'
    <2>1. wire' \in Seq(Lines) /\ torn' = FALSE /\ reading' = Nobody /\ Incoming \in Lines
      BY <1>15, ReceiveEffect DEF ReceiveOther
    <2> QED
      BY <1>15, <2>1 DEF ReceiveOther
  <1>16. ASSUME NEW c \in Callers, ReceiveStray(c) PROVE Typed'
    <2>1. wire' \in Seq(Lines) /\ torn' = FALSE /\ reading' = Nobody
      BY <1>16, ReceiveEffect DEF ReceiveStray
    <2> QED
      BY <1>16, <2>1 DEF ReceiveStray
  <1>17. ASSUME NEW c \in Callers, Route(c) PROVE Typed'
    BY <1>17 DEF Route
  <1>18. ASSUME NEW c \in Callers, Reject(c) PROVE Typed'
    BY <1>18 DEF Reject
  <1>19. ASSUME NEW c \in Callers, StoreCapabilities(c) PROVE Typed'
    BY <1>19 DEF StoreCapabilities, ServerCapabilities
  <1>20. ASSUME NEW c \in Callers, NEW sent \in BOOLEAN, Notify(c, sent) PROVE Typed'
    BY <1>20 DEF Notify
  <1>21. ASSUME NEW c \in Callers, Timeout(c) PROVE Typed'
    <2>1. /\ wire' \in Seq(Lines) /\ torn' \in BOOLEAN /\ reading' \in Callers \cup {Nobody}
          /\ torn' => wire' # <<>>
          /\ reading' # c
          /\ \A d \in Callers : reading' = d => reading = d
      BY <1>21, StopReadingEffect DEF Timeout
    <2>2. cut' \in BOOLEAN
      BY <1>21 DEF Timeout, TearsOff
    <2> QED
      BY <1>21, <2>1, <2>2 DEF Timeout
  <1>22. CASE TakeNotification \/ Shutdown
    <2>1. CASE TakeNotification
      <3>1. notifications' \in 0..Capacity
        BY <2>1 DEF TakeNotification
      <3> QED
        BY <2>1, <3>1 DEF TakeNotification
    <2>2. CASE Shutdown
      BY <2>2 DEF Shutdown
    <2> QED
      BY <1>22, <2>1, <2>2
  <1>23. ASSUME NEW i \in requests, Answer(i) PROVE Typed'
    <2>1. PICK line \in Lines : answered' = answered \cup {line} /\ Emit(line)
      BY <1>23, AnswerEffect
    <2>2. wire' \in Seq(Lines) /\ wire' # <<>>
      BY <2>1, EmitEffect
    <2> QED
      BY <1>23, <2>1, <2>2 DEF Answer
  <1>24. CASE SendUnsolicited
    <2>1. PICK m \in Unsolicited : Emit(m)
      BY <1>24 DEF SendUnsolicited
    <2>2. m \in Lines
      BY KnownLines DEF Unsolicited
    <2>3. wire' \in Seq(Lines) /\ wire' # <<>>
      BY <2>1, <2>2, EmitEffect
    <2> QED
      BY <1>24, <2>3 DEF SendUnsolicited
  <1>25. CASE Exit
    <2>1. wire' \in Seq(Lines) /\ wire' # <<>>
      BY <1>25, EmitEffect DEF Exit, EndOfFile
    <2> QED
      BY <1>25, <2>1 DEF Exit
  <1>26. CASE AllDone
    BY <1>1, <1>26 DEF AllDone
  <1> HIDE DEF Typed, TypeOK, Go, Drop, End, client, server, reader, McpClientErrors
  <1> QED
    BY <1>1, <1>2, <1>3, <1>4, <1>5, <1>6, <1>7, <1>8, <1>9, <1>10, <1>11, <1>12, <1>13, <1>14,
       <1>15, <1>16, <1>17, <1>18, <1>19, <1>20, <1>21, <1>22, <1>23, <1>24, <1>25, <1>26
       DEF Next, CallerStep

LEMMA AlwaysTyped == Spec => []Typed
  <1>1. Init => Typed
    <2> SUFFICES ASSUME Init PROVE Typed
      OBVIOUS
    <2>1. wire \in Seq(Lines)
      BY KnownLines DEF Init, TransportInit, InitialWire, EndOfFile
    <2>2. EmptyLine \in Lines
      BY KnownLines
    <2>3. server_capabilities \in {Unknown} \cup SUBSET Capabilities
      BY DEF Init
    <2>4. /\ notifications \in 0..Capacity /\ unsolicited \in 0..MaxUnsolicited
          /\ next_request_id \in Nat \ {0}
      BY ConfigAssumption, BoundAssumption DEF Init
    <2>5. /\ id \in [Callers -> Nat] /\ slot \in [Callers -> Lines] /\ msg \in [Callers -> Lines]
          /\ got \in [Callers -> Lines]
      BY <2>2 DEF Init
    <2>6. ~torn /\ \A c \in Callers : reading # c
      BY NobodyAssumption DEF Init, TransportInit
    <2> HIDE DEF Lines, EmptyLine, Unknown
    <2> QED
      BY <2>1, <2>3, <2>4, <2>5, <2>6 DEF Init, TransportInit, Typed, TypeOK, McpClientErrors
  <1> QED
    BY <1>1, TypeInductive, PTL DEF Spec

\* Whatever lines arrive, every variable keeps its shape, and only a caller that is
\* waiting has the lock of the reader: nobody leaves with it.
THEOREM TypeCorrect == Spec => []TypeOK
  <1>1. Typed => TypeOK
    BY DEF Typed
  <1> QED
    BY <1>1, AlwaysTyped, PTL

-----------------------------------------------------------------------------
\* Who owns which request id

\* The steps of caller c, from its place to the next, that leave the ids, the map
\* of pending requests and the oneshot channels alone.
Between(c) ==
    /\ UNCHANGED <<next_request_id, pending_requests, id, slot>>
    /\ \/ pc[c] = "send" /\ pc' = [pc EXCEPT ![c] = "select"]
       \/ InFlight(c) /\ pc[c] # "cleanup" /\ pc' = [pc EXCEPT ![c] = "cleanup"]
       \/ pc[c] = "select" /\ pc' = [pc EXCEPT ![c] = "waiting"]
       \/ pc[c] = "waiting" /\ pc' = [pc EXCEPT ![c] = "select"]
       \/ pc[c] = "waiting" /\ pc' = [pc EXCEPT ![c] = "dispatch"]
       \/ pc[c] = "dispatch" /\ pc' = [pc EXCEPT ![c] = "select"]
       \/ pc[c] = "negotiated" /\ pc' = [pc EXCEPT ![c] = "notify"]
       \/ pc[c] = "notify" /\ pc' = [pc EXCEPT ![c] = "done"]
       \/ pc' = pc

\* Every other step of a caller is one of the four that touch them.
LEMMA CallerStepKinds ==
    ASSUME NEW c \in Callers, CallerStep(c) \/ Timeout(c)
    PROVE  AllocateId(c) \/ Register(c) \/ Cleanup(c) \/ Route(c) \/ Between(c)
  <1> USE DEF Between, InFlight, Go, End, client
  <1>1. ASSUME Send(c) \/ SendFails(c) \/ StartRecv(c) \/ RecvRefused(c) \/ LockReader(c) \/ ReadPart(c)
        PROVE Between(c)
    BY <1>1 DEF Send, SendFails, StartRecv, RecvRefused, LockReader, ReadPart
  <1>2. ASSUME Correlated(c) \/ ReceiveError(c) \/ ReceiveOwn(c) \/ Timeout(c)
        PROVE Between(c)
    BY <1>2 DEF Correlated, ReceiveError, ReceiveOwn, Timeout
  <1>3. ASSUME ReceiveNotification(c) \/ ReceiveOther(c) \/ ReceiveStray(c) \/ Reject(c)
        PROVE Between(c)
    BY <1>3 DEF ReceiveNotification, ReceiveOther, ReceiveStray, Reject
  <1>4. ASSUME StoreCapabilities(c) \/ \E sent \in BOOLEAN : Notify(c, sent)
        PROVE Between(c)
    BY <1>4 DEF StoreCapabilities, Notify
  <1> HIDE DEF Between, InFlight, Go, End, client
  <1> QED
    BY <1>1, <1>2, <1>3, <1>4 DEF CallerStep

\* The steps that are not a caller's leave the callers where they are.
LEMMA OtherStepKinds ==
    ASSUME TakeNotification \/ Shutdown \/ (\E i \in requests : Answer(i)) \/ SendUnsolicited
           \/ Exit \/ AllDone \/ UNCHANGED vars
    PROVE  UNCHANGED <<next_request_id, pending_requests, id, pc, slot, msg, result, got, server_capabilities>>
  BY DEF TakeNotification, Shutdown, Answer, SendUnsolicited, Exit, AllDone, vars, client

\* A caller has an id from AllocateId on, different from everybody's, and the map
\* holds only ids of requests in flight.
Ids ==
    /\ \A c \in Callers : pc[c] = "start" <=> id[c] = 0
    /\ \A c \in Callers : id[c] < next_request_id
    /\ \A c, d \in Callers : id[c] = id[d] /\ id[c] # 0 => c = d
    /\ NoLeak

LEMMA IdsInductive == Typed /\ Ids /\ [Next]_vars => Ids'
  <1> SUFFICES ASSUME Typed, Ids, [Next]_vars PROVE Ids'
    OBVIOUS
  <1>0. /\ next_request_id \in Nat \ {0} /\ id \in [Callers -> Nat]
        /\ DOMAIN pc = Callers /\ pc = [c \in Callers |-> pc[c]]
    BY DEF Typed, TypeOK
  <1> USE <1>0 DEF Ids, NoLeak, InFlight, Go
  <1>1. ASSUME NEW c \in Callers, AllocateId(c) PROVE Ids'
    <2>1. /\ pc[c] = "start" /\ id[c] = 0 /\ next_request_id' = next_request_id + 1
          /\ pc' = [pc EXCEPT ![c] = "register"] /\ id' = [id EXCEPT ![c] = next_request_id]
          /\ UNCHANGED pending_requests
      BY <1>1 DEF AllocateId
    <2>2. \A d \in Callers : (pc[d] = "start" <=> id[d] = 0)'
      BY <2>1
    <2>3. \A d \in Callers : (id[d] < next_request_id)'
      BY <2>1
    <2>4. \A d, e \in Callers : (id[d] = id[e] /\ id[d] # 0 => d = e)'
      BY <2>1
    <2>5. NoLeak'
      BY <2>1
    <2> QED
      BY <2>2, <2>3, <2>4, <2>5
  <1>2. ASSUME NEW c \in Callers, Register(c) PROVE Ids'
    BY <1>2 DEF Register
  <1>3. ASSUME NEW c \in Callers, Cleanup(c) PROVE Ids'
    BY <1>3 DEF Cleanup
  <1>4. ASSUME NEW c \in Callers, Route(c) PROVE Ids'
    BY <1>4 DEF Route
  <1>5. ASSUME NEW c \in Callers, Between(c) PROVE Ids'
    BY <1>5 DEF Between
  <1>6. CASE UNCHANGED <<next_request_id, pending_requests, id, pc>>
    BY <1>6
  <1> HIDE DEF Ids, NoLeak, InFlight, Go
  <1> QED
    BY <1>1, <1>2, <1>3, <1>4, <1>5, <1>6, CallerStepKinds, OtherStepKinds DEF Next

LEMMA AlwaysIds == Spec => []Ids
  <1>1. Init => Ids
    BY DEF Init, Ids, NoLeak
  <1> QED
    BY <1>1, IdsInductive, AlwaysTyped, PTL DEF Spec

\* However a request ends, by its response, an error or its deadline, it gives its
\* slot in the map back: the map never holds more than the requests in flight.
THEOREM PendingNeverLeaks == Spec => []NoLeak
  <1>1. Ids => NoLeak
    BY DEF Ids
  <1> QED
    BY <1>1, AlwaysIds, PTL

-----------------------------------------------------------------------------
\* Where the lines a caller sees come from

\* A line with an id was sent by the server as the answer to the request of that id:
\* on the wire, in the hand of the caller that read it, in a oneshot channel, or
\* returned.
Sourced ==
    /\ \A line \in Elems(wire) : line.id # 0 => line \in answered
    /\ \A c \in Callers :
          /\ msg[c].id # 0 => msg[c] \in answered
          /\ slot[c] # EmptyLine => slot[c] \in answered /\ slot[c].id = id[c] /\ id[c] # 0
          /\ got[c] # EmptyLine => got[c] \in answered /\ got[c].id = id[c] /\ id[c] # 0

\* A caller has a message in hand only while it dispatches it, and has an outcome only
\* after its wait; a response that is accepted has the type of the method.
Phases ==
    \A c \in Callers :
       /\ pc[c] # "dispatch" => msg[c] = EmptyLine
       /\ pc[c] \in {"start", "register", "send", "select", "waiting", "dispatch"} =>
             got[c] = EmptyLine /\ result[c] = "None"
       /\ pc[c] = "cleanup" =>
             result[c] # "Ok" /\ (result[c] = "Response" => got[c] # EmptyLine)
       /\ pc[c] \in {"negotiated", "notify"} =>
             /\ Method[c] = "initialize" /\ got[c] # EmptyLine
             /\ FromValue(Method[c], got[c].result)
       /\ result[c] = "Ok" => FromValue(Method[c], got[c].result)

Declared ==
    server_capabilities # Unknown =>
          \E c \in Callers : /\ Method[c] = "initialize" /\ got[c] # EmptyLine
                             /\ server_capabilities = ServerCapabilities(got[c].result)

Delivery == Sourced /\ Phases /\ Declared

LEMMA DeliveryInductive == Typed /\ Ids /\ Delivery /\ [Next]_vars => Delivery'
  <1> SUFFICES ASSUME Typed, Ids, Delivery, [Next]_vars PROVE Delivery'
    OBVIOUS
  <1>0. /\ pc = [d \in Callers |-> pc[d]] /\ id = [d \in Callers |-> id[d]]
        /\ slot = [d \in Callers |-> slot[d]] /\ msg = [d \in Callers |-> msg[d]]
        /\ got = [d \in Callers |-> got[d]] /\ result = [d \in Callers |-> result[d]]
    BY DEF Typed, TypeOK
  <1>z. EmptyLine.id = 0 /\ Garbage.id = 0
    BY KnownLines
  <1>i. \A d \in Callers : pc[d] = "start" <=> id[d] = 0
    BY DEF Ids
  <1> USE <1>0, <1>z, <1>i DEF Delivery, Sourced, Phases, Declared, Go, Drop, End, client, server
  <1> HIDE DEF Elems, EmptyLine, Garbage, Decode, FromValue, Unknown, ServerCapabilities
  <1>1. ASSUME NEW c \in Callers, AllocateId(c) PROVE Delivery'
    BY <1>1 DEF AllocateId, Ids, Typed, TypeOK
  <1>2. ASSUME NEW c \in Callers, Register(c) \/ Send(c) PROVE Delivery'
    BY <1>2 DEF Register, Send
  <1>3. ASSUME NEW c \in Callers, StartRecv(c) \/ LockReader(c) \/ ReadPart(c) PROVE Delivery'
    BY <1>3 DEF StartRecv, LockReader, ReadPart
  <1>4. ASSUME NEW c \in Callers, SendFails(c) \/ RecvRefused(c) PROVE Delivery'
    BY <1>4 DEF SendFails, RecvRefused
  <1>5. ASSUME NEW c \in Callers, ReceiveError(c) PROVE Delivery'
    <2>1. Elems(wire') \subseteq Elems(wire)
      BY <1>5, ReceiveEffect DEF ReceiveError
    <2> QED
      BY <1>5, <2>1 DEF ReceiveError
  <1>6. ASSUME NEW c \in Callers, Timeout(c) PROVE Delivery'
    <2>1. Elems(wire') \subseteq Elems(wire) \cup {Garbage}
      BY <1>6, StopReadingEffect DEF Timeout
    <2>2. /\ pc[c] \in {"select", "waiting", "dispatch"}
          /\ pc' = [pc EXCEPT ![c] = "cleanup"] /\ result' = [result EXCEPT ![c] = "Timeout"]
          /\ got' = [got EXCEPT ![c] = EmptyLine] /\ msg' = [msg EXCEPT ![c] = EmptyLine]
          /\ UNCHANGED <<id, slot, answered, server_capabilities>>
      BY <1>6 DEF Timeout
    <2>3. Sourced'
      BY <2>1, <2>2
    <2>4. Phases'
      BY <2>2
    <2>5. Declared'
      BY <2>2
    <2> QED
      BY <2>3, <2>4, <2>5
  <1>7. ASSUME NEW c \in Callers, Correlated(c) PROVE Delivery'
    <2>1. Elems(wire') \subseteq Elems(wire) \cup {Garbage}
      BY <1>7, StopReadingEffect DEF Correlated
    <2>2. /\ pc[c] \in {"select", "waiting"} /\ slot[c] # EmptyLine
          /\ pc' = [pc EXCEPT ![c] = "cleanup"] /\ result' = [result EXCEPT ![c] = "Response"]
          /\ got' = [got EXCEPT ![c] = slot[c]]
          /\ UNCHANGED <<id, slot, msg, answered, server_capabilities>>
      BY <1>7 DEF Correlated
    <2>3. Sourced'
      BY <2>1, <2>2
    <2>4. Phases'
      BY <2>2
    <2>5. Declared'
      BY <2>2
    <2> QED
      BY <2>3, <2>4, <2>5
  <1>8. ASSUME NEW c \in Callers, ReceiveOwn(c) PROVE Delivery'
    <2>1. Elems(wire') \subseteq Elems(wire) /\ Incoming \in Elems(wire)
      BY <1>8, ReceiveEffect DEF ReceiveOwn
    <2>2. /\ pc[c] = "waiting" /\ Incoming.id = id[c]
          /\ pc' = [pc EXCEPT ![c] = "cleanup"] /\ result' = [result EXCEPT ![c] = "Response"]
          /\ got' = [got EXCEPT ![c] = Incoming]
          /\ UNCHANGED <<id, slot, msg, answered, server_capabilities>>
      BY <1>8 DEF ReceiveOwn
    <2>3. Incoming \in answered /\ Incoming # EmptyLine /\ id[c] # 0
      BY <2>1, <2>2
    <2>4. Sourced'
      BY <2>1, <2>2, <2>3
    <2>5. Phases'
      BY <2>2, <2>3
    <2>6. Declared'
      BY <2>2, <2>3
    <2> QED
      BY <2>4, <2>5, <2>6
  <1>9. ASSUME NEW c \in Callers, ReceiveNotification(c) \/ ReceiveStray(c) PROVE Delivery'
    <2>1. Elems(wire') \subseteq Elems(wire)
      BY <1>9, ReceiveEffect DEF ReceiveNotification, ReceiveStray
    <2> QED
      BY <1>9, <2>1 DEF ReceiveNotification, ReceiveStray
  <1>10. ASSUME NEW c \in Callers, ReceiveOther(c) PROVE Delivery'
    <2>1. Elems(wire') \subseteq Elems(wire) /\ Incoming \in Elems(wire)
      BY <1>10, ReceiveEffect DEF ReceiveOther
    <2> QED
      BY <1>10, <2>1 DEF ReceiveOther
  <1>11. ASSUME NEW c \in Callers, Route(c) PROVE Delivery'
    BY <1>11 DEF Route, Ids, NoLeak, InFlight
  <1>12. ASSUME NEW c \in Callers, Reject(c) PROVE Delivery'
    BY <1>12 DEF Reject
  <1>13. ASSUME NEW c \in Callers, Cleanup(c) PROVE Delivery'
    BY <1>13 DEF Cleanup, Returned
  <1>14. ASSUME NEW c \in Callers, StoreCapabilities(c) PROVE Delivery'
    BY <1>14 DEF StoreCapabilities
  <1>15. ASSUME NEW c \in Callers, NEW sent \in BOOLEAN, Notify(c, sent) PROVE Delivery'
    BY <1>15 DEF Notify
  <1>16. CASE TakeNotification \/ Shutdown \/ AllDone \/ UNCHANGED vars
    BY <1>16 DEF TakeNotification, Shutdown, AllDone, vars
  <1>17. ASSUME NEW i \in requests, Answer(i) PROVE Delivery'
    <2>1. PICK line \in Lines : answered' = answered \cup {line} /\ Emit(line)
      BY <1>17, AnswerEffect
    <2>2. Elems(wire') = Elems(wire) \cup {line}
      BY <2>1, EmitEffect
    <2> QED
      BY <1>17, <2>1, <2>2 DEF Answer
  <1>18. CASE SendUnsolicited
    <2>1. PICK m \in Unsolicited : Emit(m)
      BY <1>18 DEF SendUnsolicited
    <2>2. m \in Lines /\ (m.id # 0 => m \in answered)
      BY KnownLines DEF Unsolicited, Typed, TypeOK
    <2>3. Elems(wire') = Elems(wire) \cup {m}
      BY <2>1, <2>2, EmitEffect
    <2> QED
      BY <1>18, <2>2, <2>3 DEF SendUnsolicited
  <1>19. CASE Exit
    <2>1. Elems(wire') = Elems(wire) \cup {EmptyLine}
      BY <1>19, EmitEffect, KnownLines DEF Exit, EndOfFile
    <2> QED
      BY <1>19, <2>1 DEF Exit
  <1> HIDE DEF Delivery, Sourced, Phases, Declared, Go, Drop, End, client, server
  <1> QED
    BY <1>1, <1>2, <1>3, <1>4, <1>5, <1>6, <1>7, <1>8, <1>9, <1>10, <1>11, <1>12, <1>13, <1>14,
       <1>15, <1>16, <1>17, <1>18, <1>19 DEF Next, CallerStep

LEMMA AlwaysDelivery == Spec => []Delivery
  <1>1. Init => Delivery
    <2> SUFFICES ASSUME Init PROVE Delivery
      OBVIOUS
    <2>1. Elems(wire) \subseteq {EmptyLine} /\ EmptyLine.id = 0
      BY KnownLines DEF Init, TransportInit, InitialWire, EndOfFile, Elems
    <2> HIDE DEF EmptyLine, Unknown, FromValue
    <2> QED
      BY <2>1 DEF Init, Delivery, Sourced, Phases, Declared
  <1> QED
    BY <1>1, DeliveryInductive, AlwaysIds, AlwaysTyped, PTL DEF Spec

\* Whoever reads the transport, a caller is given the server's answer to its own
\* request and no other, of the type its method promises.
THEOREM OwnResponses == Spec => []OwnResponse
  <1>1. Delivery => OwnResponse
    BY DEF Delivery, Sourced, Phases, Declared, OwnResponse
  <1> QED
    BY <1>1, AlwaysDelivery, PTL

-----------------------------------------------------------------------------
\* The oneshot channel

\* ChannelOpen already from the moment the request is registered.
RegisteredOrAnswered ==
    \A c \in Callers :
        Waiting(c) \/ pc[c] = "send" => id[c] \in pending_requests \/ slot[c] # EmptyLine

LEMMA ChannelInductive ==
    Typed /\ Ids /\ RegisteredOrAnswered /\ [Next]_vars => RegisteredOrAnswered'
  <1> SUFFICES ASSUME Typed, Ids, RegisteredOrAnswered, [Next]_vars PROVE RegisteredOrAnswered'
    OBVIOUS
  <1>0. /\ pc = [d \in Callers |-> pc[d]] /\ id = [d \in Callers |-> id[d]]
        /\ slot = [d \in Callers |-> slot[d]]
    BY DEF Typed, TypeOK
  <1>i. /\ \A d \in Callers : pc[d] = "start" <=> id[d] = 0
        /\ \A c, d \in Callers : id[c] = id[d] /\ id[c] # 0 => c = d
    BY DEF Ids
  <1>z. EmptyLine.id = 0
    BY KnownLines
  <1> USE <1>0, <1>i, <1>z DEF RegisteredOrAnswered, Waiting, Go
  <1> HIDE DEF EmptyLine
  <1>1. ASSUME NEW c \in Callers, AllocateId(c) PROVE RegisteredOrAnswered'
    BY <1>1 DEF AllocateId
  <1>2. ASSUME NEW c \in Callers, Register(c) PROVE RegisteredOrAnswered'
    BY <1>2 DEF Register
  <1>3. ASSUME NEW c \in Callers, Cleanup(c) PROVE RegisteredOrAnswered'
    BY <1>3 DEF Cleanup
  <1>4. ASSUME NEW c \in Callers, Route(c) PROVE RegisteredOrAnswered'
    BY <1>4 DEF Route, Drop
  <1>5. ASSUME NEW c \in Callers, Between(c) PROVE RegisteredOrAnswered'
    BY <1>5 DEF Between, InFlight
  <1>6. CASE UNCHANGED <<pending_requests, id, pc, slot>>
    BY <1>6
  <1> HIDE DEF RegisteredOrAnswered, Waiting, Go
  <1> QED
    BY <1>1, <1>2, <1>3, <1>4, <1>5, <1>6, CallerStepKinds, OtherStepKinds DEF Next

LEMMA AlwaysRegistered == Spec => []RegisteredOrAnswered
  <1>1. Init => RegisteredOrAnswered
    BY DEF Init, RegisteredOrAnswered, Waiting
  <1> QED
    BY <1>1, ChannelInductive, AlwaysIds, AlwaysTyped, PTL DEF Spec

\* The sender of a oneshot channel is not dropped while its receiver waits: the
\* slot is taken by nobody but a caller that puts the response in.
THEOREM ChannelsStayOpen == Spec => []ChannelOpen
  <1>1. RegisteredOrAnswered => ChannelOpen
    BY DEF RegisteredOrAnswered, ChannelOpen
  <1> QED
    BY <1>1, AlwaysRegistered, PTL

-----------------------------------------------------------------------------
\* No response is lost

\* The server answers what was sent, once, with a response.
Answers ==
    /\ \A line \in answered : line.id \in requests /\ Decode(line) \in Responses
    /\ \A l, m \in answered : l.id = m.id => l = m
    /\ \A i \in requests : \E c \in Callers : id[c] = i /\ pc[c] \notin {"start", "register", "send"}

LEMMA AnswersInductive == Typed /\ Ids /\ Answers /\ [Next]_vars => Answers'
  <1> SUFFICES ASSUME Typed, Ids, Answers, [Next]_vars PROVE Answers'
    OBVIOUS
  <1>0. /\ pc = [d \in Callers |-> pc[d]] /\ id = [d \in Callers |-> id[d]]
        /\ \A d \in Callers : pc[d] = "start" <=> id[d] = 0
    BY DEF Typed, TypeOK, Ids
  <1> USE <1>0 DEF Answers
  <1> HIDE DEF Decode, Responses, Lines
  <1>1. ASSUME NEW c \in Callers, Send(c) PROVE Answers'
    BY <1>1 DEF Send, Go
  <1>2. ASSUME NEW i \in requests, Answer(i) PROVE Answers'
    <2>1. PICK line \in Lines : /\ line.id = i /\ Decode(line) \in Responses
                                /\ answered' = answered \cup {line}
      BY <1>2, AnswerEffect
    <2>2. \A m \in answered : m.id # i
      BY <1>2 DEF Answer, Answered
    <2> QED
      BY <1>2, <2>1, <2>2 DEF Answer
  <1>3. ASSUME NEW c \in Callers, AllocateId(c) \/ Register(c) \/ Cleanup(c) \/ Route(c) \/ Between(c),
               UNCHANGED <<requests, answered>>
        PROVE Answers'
    BY <1>3 DEF AllocateId, Register, Cleanup, Route, Between, Go, InFlight
  <1>4. CASE UNCHANGED <<id, pc, requests, answered>>
    BY <1>4
  <1>5. ASSUME NEW c \in Callers, CallerStep(c) \/ Timeout(c) PROVE Send(c) \/ UNCHANGED <<requests, answered>>
    BY <1>5 DEF CallerStep, Timeout, AllocateId, Register, SendFails, Cleanup, StartRecv, RecvRefused,
       Correlated, LockReader, ReadPart, ReceiveError, ReceiveOwn, ReceiveNotification, ReceiveOther,
       ReceiveStray, Route, Reject, StoreCapabilities, Notify, server
  <1>6. CASE TakeNotification \/ Shutdown \/ SendUnsolicited \/ Exit \/ AllDone \/ UNCHANGED vars
    BY <1>4, <1>6 DEF TakeNotification, Shutdown, SendUnsolicited, Exit, AllDone, vars, client, server
  <1> HIDE DEF Answers
  <1> QED
    BY <1>1, <1>2, <1>3, <1>5, <1>6, CallerStepKinds DEF Next

LEMMA AlwaysAnswers == Spec => []Answers
  <1>1. Init => Answers
    BY DEF Init, Answers
  <1> QED
    BY <1>1, AnswersInductive, AlwaysIds, AlwaysTyped, PTL DEF Spec

\* A response that is somewhere stays somewhere, unless the read or the dispatch of
\* it is given up, or a caller routes it.
LEMMA CarriedStays ==
    ASSUME Typed, Ids, Delivery, Answers, Next, NEW line \in answered, Carried(line), ~cut'
    PROVE  Carried(line)' \/ \E c \in Callers : Route(c) /\ msg[c] = line
  <1>0. /\ slot = [d \in Callers |-> slot[d]] /\ msg = [d \in Callers |-> msg[d]]
        /\ got = [d \in Callers |-> got[d]]
    BY DEF Typed, TypeOK
  <1>1. Decode(line) \in Responses /\ line.id # 0 /\ line # EmptyLine
    BY EmptyIsUnparsable DEF Answers, Responses, Ids
  <1>2. \A d \in Callers : pc[d] # "dispatch" => msg[d] = EmptyLine
    BY DEF Delivery, Phases
  <1>3. \A d \in Callers : Waiting(d) \/ pc[d] = "send" => got[d] = EmptyLine
    BY DEF Delivery, Phases, Waiting
  <1>4. Carried(line) <=> \/ line \in Elems(wire)
                          \/ \E c \in Callers : line = slot[c] \/ line = got[c] \/ line = msg[c]
    BY DEF Carried, Elems
  <1>5. Carried(line)' <=> \/ line \in Elems(wire')
                           \/ \E c \in Callers : line = slot'[c] \/ line = got'[c] \/ line = msg'[c]
    BY DEF Carried, Elems
  <1> USE <1>0, <1>1, <1>2, <1>3, <1>4, <1>5 DEF Go, End, Drop, client, server, Waiting
  <1> HIDE DEF Carried, Elems, EmptyLine, Decode
  <1>6. ASSUME UNCHANGED <<slot, got, msg, wire>> PROVE Carried(line)'
    BY <1>6
  <1>7. ASSUME UNCHANGED <<slot, got, msg>>, Elems(wire) \subseteq Elems(wire') PROVE Carried(line)'
    BY <1>7
  <1>8. ASSUME NEW c \in Callers, SendFails(c) \/ RecvRefused(c) PROVE Carried(line)'
    BY <1>8 DEF SendFails, RecvRefused
  <1>9. ASSUME NEW c \in Callers, NEW kinds, Receive(c, kinds)
        PROVE line \in Elems(wire) => line \in Elems(wire') \/ (line = Incoming /\ Decode(line) \in kinds)
    <2>1. Decode(Incoming) \in kinds /\ \A l \in Elems(wire) : l \in Elems(wire') \/ l = Incoming
      BY ONLY Typed, <1>9, ReceiveEffect
    <2> QED
      BY ONLY <2>1
  <1>10. ASSUME NEW c \in Callers, ReceiveError(c) PROVE Carried(line)'
    BY <1>9, <1>10 DEF ReceiveError, Responses
  <1>11. ASSUME NEW c \in Callers, ReceiveOwn(c) PROVE Carried(line)'
    BY <1>9, <1>11 DEF ReceiveOwn
  <1>12. ASSUME NEW c \in Callers, ReceiveNotification(c) PROVE Carried(line)'
    BY <1>9, <1>12 DEF ReceiveNotification, Responses
  <1>13. ASSUME NEW c \in Callers, ReceiveStray(c) PROVE Carried(line)'
    BY <1>9, <1>13 DEF ReceiveStray
  <1>14. ASSUME NEW c \in Callers, ReceiveOther(c) PROVE Carried(line)'
    <2>1. /\ pc[c] = "waiting" /\ msg' = [msg EXCEPT ![c] = Incoming] /\ UNCHANGED <<slot, got>>
      BY <1>14 DEF ReceiveOther
    <2>2. line \in Elems(wire) => line \in Elems(wire') \/ line = Incoming
      BY <1>9, <1>14 DEF ReceiveOther
    <2> QED
      BY <2>1, <2>2
  <1>15. ASSUME NEW c \in Callers, Correlated(c) PROVE Carried(line)'
    <2>1. wire' = wire
      BY <1>15, StopReadingEffect DEF Correlated
    <2> QED
      BY <1>15, <2>1 DEF Correlated
  <1>16. ASSUME NEW c \in Callers, Timeout(c) PROVE Carried(line)'
    <2>1. wire' = wire /\ Decode(msg[c]) \notin Responses
      BY <1>16, StopReadingEffect DEF Timeout
    <2> QED
      BY <1>16, <2>1 DEF Timeout
  <1>17. ASSUME NEW c \in Callers, Reject(c) PROVE Carried(line)'
    BY <1>17 DEF Reject, Responses, reader
  <1>18. ASSUME NEW c \in Callers, Route(c), msg[c] # line PROVE Carried(line)'
    <2>1. /\ msg' = [msg EXCEPT ![c] = EmptyLine] /\ UNCHANGED <<got, wire>>
          /\ \A d \in Callers : slot'[d] = IF id[d] = msg[c].id /\ id[d] \in pending_requests
                                           THEN msg[c] ELSE slot[d]
      BY <1>18 DEF Route
    <2>2. ASSUME NEW d \in Callers, slot[d] = line PROVE slot'[d] = line
      <3>1. line.id = id[d] /\ id[d] # 0
        BY <2>2 DEF Delivery, Sourced
      <3>2. CASE id[d] = msg[c].id
        <4>1. msg[c] \in answered
          BY <3>1, <3>2 DEF Delivery, Sourced
        <4> QED
          BY <1>18, <3>1, <3>2, <4>1 DEF Answers
      <3>3. CASE id[d] # msg[c].id
        BY <2>1, <2>2, <3>3
      <3> QED
        BY <3>2, <3>3
    <2> QED
      BY <1>18, <2>1, <2>2
  <1>19. ASSUME NEW m \in Lines, Emit(m) PROVE Elems(wire) \subseteq Elems(wire')
    BY <1>19, EmitEffect
  <1>20. ASSUME NEW i \in requests, Answer(i) PROVE Carried(line)'
    <2>1. Elems(wire) \subseteq Elems(wire')
      BY <1>19, <1>20, AnswerEffect
    <2> QED
      BY <1>7, <1>20, <2>1 DEF Answer
  <1>21. CASE SendUnsolicited
    <2>1. Unsolicited \subseteq Lines
      BY KnownLines DEF Unsolicited, Typed, TypeOK
    <2>2. Elems(wire) \subseteq Elems(wire')
      BY <1>19, <1>21, <2>1 DEF SendUnsolicited
    <2> QED
      BY <1>7, <1>21, <2>2 DEF SendUnsolicited
  <1>22. CASE Exit
    <2>1. EndOfFile \in Lines
      BY KnownLines DEF EndOfFile
    <2>2. Elems(wire) \subseteq Elems(wire')
      BY <1>19, <1>22, <2>1 DEF Exit
    <2> QED
      BY <1>7, <1>22, <2>2 DEF Exit
  <1>23. ASSUME NEW c \in Callers,
               \/ AllocateId(c) \/ Register(c) \/ Send(c) \/ Cleanup(c) \/ StartRecv(c) \/ LockReader(c)
               \/ ReadPart(c) \/ StoreCapabilities(c) \/ \E sent \in BOOLEAN : Notify(c, sent)
         PROVE Carried(line)'
    BY <1>6, <1>23 DEF AllocateId, Register, Send, Cleanup, StartRecv, LockReader, ReadPart,
       StoreCapabilities, Notify, reader
  <1>24. CASE TakeNotification \/ Shutdown \/ AllDone
    BY <1>6, <1>24 DEF TakeNotification, Shutdown, AllDone, vars, reader
  <1> HIDE DEF Go, End, Drop, client, server, Waiting
  <1> QED
    BY <1>8, <1>10, <1>11, <1>12, <1>13, <1>14, <1>15, <1>16, <1>17, <1>18, <1>20, <1>21, <1>22,
       <1>23, <1>24 DEF Next, CallerStep

\* The response to a caller that waits is somewhere, as long as nothing was cut.
LEMMA KeptInductive ==
    Typed /\ Ids /\ Delivery /\ Answers /\ RegisteredOrAnswered /\ ResponseKept /\ [Next]_vars
        => ResponseKept'
  <1> SUFFICES ASSUME Typed, Ids, Delivery, Answers, RegisteredOrAnswered, ResponseKept, [Next]_vars,
                      ~cut', NEW d \in Callers, Waiting(d)', Answered(id[d])'
               PROVE  \E line \in answered' : line.id = id'[d] /\ Carried(line)'
    BY DEF ResponseKept
  <1>1. CASE UNCHANGED vars
    <2>1. ~cut /\ Waiting(d) /\ Answered(id[d])
      BY <1>1 DEF vars, server, Waiting, Answered
    <2>2. PICK line \in answered : line.id = id[d] /\ Carried(line)
      BY <2>1 DEF ResponseKept
    <2> QED
      BY <1>1, <2>2 DEF vars, server, Carried
  <1>2. CASE Next
    <2>a. answered \subseteq answered'
      BY <1>2 DEF Next, CallerStep, Timeout, AllocateId, Register, Send, SendFails, Cleanup, StartRecv,
         RecvRefused, Correlated, LockReader, ReadPart, ReceiveError, ReceiveOwn, ReceiveNotification,
         ReceiveOther, ReceiveStray, Route, Reject, StoreCapabilities, Notify, TakeNotification,
         Shutdown, Answer, SendUnsolicited, Exit, AllDone, vars, server
    <2>b. ~cut
      <3>1. ASSUME NEW c \in Callers, CallerStep(c) \/ Timeout(c) PROVE ~cut
        BY <3>1 DEF CallerStep, Timeout, AllocateId, Register, Send, SendFails, Cleanup, StartRecv,
           RecvRefused, Correlated, LockReader, ReadPart, ReceiveError, ReceiveOwn,
           ReceiveNotification, ReceiveOther, ReceiveStray, Route, Reject, StoreCapabilities, Notify
      <3>2. CASE ~(\E c \in Callers : CallerStep(c) \/ Timeout(c))
        BY <1>2, <3>2 DEF Next, TakeNotification, Shutdown, Answer, SendUnsolicited, Exit, AllDone, vars
      <3> QED
        BY <3>1, <3>2
    <2>1. ~cut /\ answered \subseteq answered'
      BY <2>a, <2>b
    \* Only Send starts a wait, and its request cannot have been answered.
    <2>2. \/ Waiting(d) /\ id'[d] = id[d]
          \/ Send(d) /\ id'[d] = id[d]
      <3>1. ASSUME NEW c \in Callers, CallerStep(c) \/ Timeout(c), ~Waiting(d)
            PROVE  Send(d)
        <4>1. pc = [e \in Callers |-> pc[e]] /\ pc[d] \notin {"select", "waiting", "dispatch"}
              /\ pc'[d] \in {"select", "waiting", "dispatch"}
          BY <3>1 DEF Typed, TypeOK, Waiting
        <4>2. CASE AllocateId(c) \/ Register(c) \/ Cleanup(c) \/ Route(c)
          BY <4>1, <4>2 DEF AllocateId, Register, Cleanup, Route, Go
        <4>3. CASE Between(c)
          <5>1. d = c /\ pc[c] = "send" /\ pc'[c] = "select"
            BY <4>1, <4>3 DEF Between, InFlight
          <5> QED
            BY <3>1, <5>1, <4>1 DEF CallerStep, Timeout, AllocateId, Register, SendFails, Cleanup, StartRecv,
               RecvRefused, Correlated, LockReader, ReadPart, ReceiveError, ReceiveOwn,
               ReceiveNotification, ReceiveOther, ReceiveStray, Route, Reject, StoreCapabilities,
               Notify, Go, End
        <4> QED
          BY <3>1, <4>2, <4>3, CallerStepKinds
      <3>2. ASSUME UNCHANGED pc PROVE Waiting(d)
        BY <3>2 DEF Waiting
      <3>3. Waiting(d) \/ Send(d)
        BY <1>2, <3>1, <3>2, OtherStepKinds DEF Next, Waiting
      <3>4. id'[d] = id[d]
        <4>1. ASSUME NEW c \in Callers, AllocateId(c) PROVE id'[d] = id[d]
          BY <3>3, <4>1 DEF AllocateId, Send, Waiting, Go, Typed, TypeOK
        <4> QED
          BY <1>2, <4>1, CallerStepKinds, OtherStepKinds DEF Next, Register, Cleanup, Route, Between
      <3> QED
        BY <3>3, <3>4
    <2>3. CASE Answered(id[d]) /\ Waiting(d) /\ id'[d] = id[d]
      <3>1. PICK line \in answered : line.id = id[d] /\ Carried(line)
        BY <2>1, <2>3 DEF ResponseKept
      <3>2. CASE Carried(line)'
        BY <2>1, <2>3, <3>1, <3>2
      <3>3. ASSUME NEW c \in Callers, Route(c), msg[c] = line
            PROVE  \E l \in answered' : l.id = id'[d] /\ Carried(l)'
        <4>1. slot'[d] = IF id[d] = line.id /\ id[d] \in pending_requests THEN line ELSE slot[d]
          BY <3>3 DEF Route
        <4>2. slot'[d] \in answered /\ slot'[d].id = id[d]
          BY <2>3, <3>1, <4>1 DEF RegisteredOrAnswered, Delivery, Sourced
        <4>3. \A l : l = slot'[d] => Carried(l)'
          BY DEF Carried
        <4> QED
          BY <2>1, <2>3, <4>2, <4>3
      <3> QED
        BY <1>2, <3>1, <3>2, <3>3, CarriedStays
    <2>4. CASE ~Answered(id[d]) /\ id'[d] = id[d]
      <3>1. answered' # answered
        BY <2>4 DEF Answered
      <3>2. PICK i \in requests : Answer(i)
        BY <1>2, <3>1 DEF Next, CallerStep, Timeout, AllocateId, Register, Send, SendFails, Cleanup,
           StartRecv, RecvRefused, Correlated, LockReader, ReadPart, ReceiveError, ReceiveOwn,
           ReceiveNotification, ReceiveOther, ReceiveStray, Route, Reject, StoreCapabilities, Notify,
           TakeNotification, Shutdown, SendUnsolicited, Exit, AllDone, vars, server
      <3>3. PICK line \in Lines : answered' = answered \cup {line} /\ Emit(line)
        BY <3>2, AnswerEffect
      <3>4. line.id = id[d]
        BY <2>4, <3>3 DEF Answered
      <3>5. line \in Elems(wire')
        BY <3>3, EmitEffect
      <3>6. Carried(line)'
        BY <3>5 DEF Carried, Elems
      <3> QED
        BY <2>4, <3>3, <3>4, <3>6
    <2>5. CASE Send(d)
      <3>1. pc[d] = "send" /\ UNCHANGED <<id, answered>>
        BY <2>5 DEF Send, Go
      <3>2. id[d] \notin requests
        BY <3>1 DEF Answers, Ids
      <3>3. ~Answered(id[d])
        BY <3>2 DEF Answers, Answered
      <3> QED
        BY <3>1, <3>3 DEF Answered
    <2> QED
      BY <2>2, <2>3, <2>4, <2>5
  <1> QED
    BY <1>1, <1>2

\* As long as no read and no dispatch was given up half-way, the response to a caller
\* that waits is on the wire, in the hand of a caller or in its channel: callers
\* that read for each other lose nothing.
THEOREM ResponsesAreKept == Spec => []ResponseKept
  <1>1. Init => ResponseKept
    BY DEF Init, ResponseKept, Waiting
  <1> QED
    BY <1>1, KeptInductive, AlwaysTyped, AlwaysIds, AlwaysDelivery, AlwaysAnswers, AlwaysRegistered,
       PTL DEF Spec

=============================================================================
