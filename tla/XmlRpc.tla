------------------------------- MODULE XmlRpc -------------------------------
(***************************************************************************)
(* The XML-RPC server and its clients (server.py, client.py). The server   *)
(* has a thread per connection; a connection carries the requests of its   *)
(* client one after the other, and recv gives the bytes in pieces of any   *)
(* size. A thread keeps what it has not parsed in buffer, decodes all of   *)
(* it after every piece, and throws it away after every request.           *)
(*                                                                         *)
(* The bytes are abstracted to the units a piece may end between: the      *)
(* request line ("P"), the rest of the headers up to the empty line ("H"), *)
(* and the body: the XML document, in plain bytes ("b") and the two bytes  *)
(* of a character that takes two ("u", "U"), and the blanks that           *)
(* Content-Length may count after the document's last tag ("s").           *)
(***************************************************************************)
EXTENDS Integers, Sequences, FiniteSets

CONSTANTS
  Client,
  Pipelined,   \* those that send all their requests before they read: not client.py
  Stream,      \* Stream[c]: the units of all the requests c will send
  Quits,       \* those that may leave, or die, at any time
  Does         \* Does[c]: what comes of the calls of c, in order

Unit == [kind : {"P", "H", "b", "u", "U", "s"}, of : Nat \ {0}]

\* arity: fewer or more parameters than the procedure has; type: it runs into
\* a TypeError itself; bad: the XML does not parse
Outcome == {"value", "unknown", "arity", "type", "raises", "bad"}

\* the units of a call are together and in the order of the calls, at most one of
\* them is a request line, and blanks come last; a body that does not parse goes
\* wrong before its last tag, so no beginning of it parses either
ASSUME XmlRpcAssumption ==
  /\ Pipelined \subseteq Client /\ Quits \subseteq Client
  /\ Does \in [Client -> Seq(Outcome)]
  /\ Stream \in [Client -> Seq(Unit)]
  /\ \A c \in Client : \A i, j \in DOMAIN Stream[c] :
       /\ Stream[c][i].of \in DOMAIN Does[c]
       /\ i < j => Stream[c][i].of <= Stream[c][j].of
       /\ Stream[c][i].kind = "P" /\ Stream[c][j].kind = "P"
            /\ Stream[c][i].of = Stream[c][j].of => i = j
       /\ i < j /\ Stream[c][i].kind = "s" /\ Stream[c][i].of = Stream[c][j].of
            => Stream[c][j].kind = "s"
       /\ Stream[c][i].kind = "s" => Does[c][Stream[c][i].of] # "bad"

Waiting == Client \ Pipelined

\* client.py begins every request with its request line
ASSUME WaitersAssumption ==
  \A c \in Waiting : \A i \in DOMAIN Stream[c] :
    i = 1 \/ Stream[c][i - 1].of # Stream[c][i].of => Stream[c][i].kind = "P"

VARIABLES
  running,    \* Server.running
  serving,    \* where the thread in serve stands
  conn,       \* conn[c]: the connection of c
  gone,       \* gone[c]: c has closed its end, or died
  written,    \* written[c]: how many units of Stream[c] have been sent
  received,   \* received[c]: how many the server's thread has taken with recv
  from,       \* from[c]: buffer holds the units after this one
  thread,     \* thread[c]: where administrar_cliente stands
  current,    \* current[c]: the call it is about
  replies,    \* replies[c]: what it has sent, in order
  asked, runs, got   \* as in RemoteCall

network == <<conn, gone, written>>
server  == <<running, serving, received, from, thread, current, replies, runs>>
client  == <<asked, got>>
vars    == <<network, server, client>>

(* the clients that wait, as callers in the sense of RemoteCall *)
RC == INSTANCE RemoteCall WITH
        Caller <- Waiting,
        asked  <- [c \in Waiting |-> asked[c]],
        runs   <- [c \in Waiting |-> runs[c]],
        got    <- [c \in Waiting |-> got[c]]

Init ==
  /\ running = TRUE /\ serving = "accept"
  /\ conn = [c \in Client |-> "none"]
  /\ gone = [c \in Client |-> FALSE]
  /\ written = [c \in Client |-> 0]
  /\ received = [c \in Client |-> 0]
  /\ from = [c \in Client |-> 0]
  /\ thread = [c \in Client |-> "none"]
  /\ current = [c \in Client |-> 0]
  /\ replies = [c \in Client |-> <<>>]
  /\ asked = [c \in Client |-> 0]
  /\ runs = [c \in Client |-> {}]
  /\ got = [c \in Client |-> <<>>]

-----------------------------------------------------------------------------
(* The thread that accepts: serve and close *)

Connect(c) ==
  /\ conn[c] = "none" /\ serving # "ended"
  /\ conn' = [conn EXCEPT ![c] = "queued"]
  /\ UNCHANGED <<gone, written, server, client>>

Accept(c) ==
  /\ serving = "accept" /\ conn[c] = "queued"
  /\ conn' = [conn EXCEPT ![c] = "open"]
  /\ thread' = [thread EXCEPT ![c] = "headers"]
  /\ serving' = "top"
  /\ UNCHANGED <<gone, written, running, received, from, current, replies, runs, client>>

\* whoever is still queued when the thread in serve ends is reset
EndServe ==
  /\ serving' = "ended"
  /\ conn' = [c \in Client |-> IF conn[c] = "queued" THEN "reset" ELSE conn[c]]

\* the test of running
Serve ==
  /\ serving = "top"
  /\ \/ running /\ serving' = "accept" /\ UNCHANGED conn
     \/ ~running /\ EndServe
  /\ UNCHANGED <<gone, written, running, received, from, thread, current, replies, runs, client>>

\* OSError: the socket was closed between the test and the call of accept
AcceptFails ==
  /\ serving = "accept" /\ ~running
  /\ EndServe
  /\ UNCHANGED <<gone, written, running, received, from, thread, current, replies, runs, client>>

\* closing the socket does not wake a thread that is blocked in accept
Close ==
  /\ running
  /\ running' = FALSE
  /\ UNCHANGED <<network, serving, received, from, thread, current, replies, runs, client>>

-----------------------------------------------------------------------------
(* A thread of the server: administrar_cliente *)

HeadersIn(c, i) == \E k \in from[c] + 1 .. i : Stream[c][k].kind = "H"

\* buffer.decode: the units up to i neither begin nor end inside a character
Decodes(c, i) ==
  /\ Stream[c][i].kind # "u"
  /\ Stream[c][from[c] + 1].kind # "U"

\* Faults: one byte more, or less, than Content-Length.
OneMoreByte(c, k, i) == \A j \in DOMAIN Stream[c] : Stream[c][j].of = k => j < i
OneByteLess(c, k, i) == \A j \in DOMAIN Stream[c] : Stream[c][j].of = k => j <= i + 1

\* the XML document of call k is among the first i units: they parse if it does
Document(c, k, i) ==
  \A j \in DOMAIN Stream[c] : Stream[c][j].of = k /\ Stream[c][j].kind # "s" => j <= i

\* Content-Length: the last unit of call k is among the first i
EnoughBody(c, k, i) == \A j \in DOMAIN Stream[c] : Stream[c][j].of = k => j <= i

\* what is answered, and whether the thread goes on; it does not if the answer
\* is one of those that break, or if nobody is there any more
Reply(c, k, says, goesOn) ==
  \/ /\ replies' = [replies EXCEPT ![c] = Append(@, [of |-> k, says |-> says])]
     /\ thread' = [thread EXCEPT ![c] = IF goesOn THEN "headers" ELSE "done"]
     /\ conn' = [conn EXCEPT ![c] = IF goesOn THEN @ ELSE "closed"]
  \/ /\ gone[c]
     /\ thread' = [thread EXCEPT ![c] = "done"]
     /\ conn' = [conn EXCEPT ![c] = "closed"]
     /\ UNCHANGED replies

\* Faults: the buffer is kept, or one byte of it, or a byte to come is dropped too.
NotEmptied(c, i)    == UNCHANGED from
KeepsLastByte(c, i) == from' = [from EXCEPT ![c] = i - 1]
OneByteAhead(c, i)  == from' = [from EXCEPT ![c] = i + 1]

\* buffer = b""
EmptyBuffer(c, i) == from' = [from EXCEPT ![c] = i]

\* after recv has filled the buffer up to unit i
TakeHeaders(c, i) ==
  LET first == Stream[c][from[c] + 1]
  IN  \/ /\ ~Decodes(c, i)
         /\ Reply(c, first.of, "fault", FALSE)
         /\ EmptyBuffer(c, i) /\ UNCHANGED current
      \/ /\ Decodes(c, i) /\ ~HeadersIn(c, i)
         /\ UNCHANGED <<conn, thread, from, current, replies>>
      \/ \* not a POST: 405, which has no Content-Length
         /\ Decodes(c, i) /\ HeadersIn(c, i) /\ first.kind # "P"
         /\ Reply(c, first.of, "fault", FALSE)
         /\ UNCHANGED <<from, current>>
      \/ /\ Decodes(c, i) /\ HeadersIn(c, i) /\ first.kind = "P"
         /\ current' = [current EXCEPT ![c] = first.of]
         /\ thread' = [thread EXCEPT ![c] = IF EnoughBody(c, first.of, i) THEN "parse" ELSE "body"]
         /\ UNCHANGED <<conn, from, replies>>

RecvHeaders(c) ==
  /\ thread[c] = "headers"
  /\ \E i \in received[c] + 1 .. written[c] :
       received' = [received EXCEPT ![c] = i] /\ TakeHeaders(c, i)
  /\ UNCHANGED <<gone, written, running, serving, runs, client>>

\* the body is collected as bytes, whatever its pieces
RecvBody(c) ==
  /\ thread[c] = "body"
  /\ \E i \in received[c] + 1 .. written[c] :
       /\ received' = [received EXCEPT ![c] = i]
       /\ thread' = [thread EXCEPT ![c] = IF EnoughBody(c, current[c], i) THEN "parse" ELSE "body"]
  /\ UNCHANGED <<network, running, serving, from, current, replies, runs, client>>

\* Fault: within a body the thread waits for more.
OnlyBetweenRequests(c) ==
  /\ gone[c] /\ received[c] = written[c] /\ thread[c] = "headers"
  /\ thread' = [thread EXCEPT ![c] = "done"]
  /\ conn' = [conn EXCEPT ![c] = "closed"]
  /\ UNCHANGED <<gone, written, running, serving, received, from, current, replies, runs, client>>

\* recv returns nothing: between requests the thread ends, within a body it goes
\* on with what it has, without comparing it with Content-Length. That parses if
\* only blanks are missing; otherwise it does not parse, or does not even decode.
RecvNothing(c) ==
  /\ gone[c] /\ received[c] = written[c]
  /\ \/ /\ thread[c] = "headers"
        /\ thread' = [thread EXCEPT ![c] = "done"]
        /\ conn' = [conn EXCEPT ![c] = "closed"]
        /\ UNCHANGED <<from, replies>>
     \/ /\ thread[c] = "body" /\ Document(c, current[c], received[c])
        /\ thread' = [thread EXCEPT ![c] = "parse"]
        /\ UNCHANGED <<conn, from, replies>>
     \/ /\ thread[c] = "body" /\ ~Document(c, current[c], received[c])
        /\ Reply(c, current[c], "fault", Stream[c][received[c]].kind # "u")
        /\ EmptyBuffer(c, received[c])
  /\ UNCHANGED <<gone, written, running, serving, received, current, runs, client>>

\* the procedure runs unless its name or the number of its parameters is wrong
Executes(d) == d \in {"value", "type", "raises"}

\* what has been collected, Content-Length bytes or all there will be, is parsed and
\* dispatched; anything else that recv had brought is lost with the buffer
Execute(c) ==
  LET k == current[c]
      d == Does[c][k]
  IN  /\ thread[c] = "parse"
      /\ runs' = [runs EXCEPT ![c] = IF Executes(d) THEN @ \cup {k} ELSE @]
      /\ Reply(c, k, IF d = "value" THEN "value" ELSE "fault", TRUE)
      /\ EmptyBuffer(c, received[c])
      /\ UNCHANGED <<gone, written, running, serving, received, current, client>>

-----------------------------------------------------------------------------
(* A client: method, in Client.__getattr__ *)

InCall(c) == asked[c] > Len(got[c])

\* sendall; on a connection the server has closed or reset it may still succeed
Call(c) ==
  /\ conn[c] # "none" /\ ~gone[c] /\ ~InCall(c)
  /\ asked[c] < Len(Does[c])
  /\ "exception" \notin {got[c][k] : k \in DOMAIN got[c]}
  /\ asked' = [asked EXCEPT ![c] = @ + 1]
  /\ written' = [written EXCEPT ![c] =
       Cardinality({i \in DOMAIN Stream[c] : Stream[c][i].of <= asked[c] + 1 \/ c \in Pipelined})]
  /\ UNCHANGED <<conn, gone, server, got>>

Comes(c, r) ==
  /\ got' = [got EXCEPT ![c] = Append(@, r)]
  /\ UNCHANGED <<network, server, asked>>

Answer(c) == replies[c][Len(got[c]) + 1]

\* the answer is read until Content-Length bytes have come: the pieces it comes
\* in make no difference, for the client decodes only the whole
RecvAnswer(c) ==
  /\ InCall(c) /\ ~gone[c] /\ Len(replies[c]) > Len(got[c])
  /\ Comes(c, Answer(c).says)

\* nothing more will come, and response_body was never assigned
NoAnswer(c) ==
  /\ InCall(c) /\ ~gone[c] /\ conn[c] \in {"closed", "reset"}
  /\ Len(replies[c]) <= Len(got[c])
  /\ Comes(c, "exception")

\* the client closes its socket after its calls, or dies, with part of what it
\* was sending still unsent
Leave(c) ==
  /\ c \in Quits /\ conn[c] # "none" /\ ~gone[c]
  /\ gone' = [gone EXCEPT ![c] = TRUE]
  /\ \E n \in received[c] .. written[c] : written' = [written EXCEPT ![c] = n]
  /\ UNCHANGED <<conn, server, client>>

-----------------------------------------------------------------------------

Thread(c) == RecvHeaders(c) \/ RecvBody(c) \/ RecvNothing(c) \/ Execute(c)
Caller(c) == RecvAnswer(c) \/ NoAnswer(c)

Next ==
  \/ Serve \/ AcceptFails \/ Close
  \/ \E c \in Client :
       Connect(c) \/ Accept(c) \/ Thread(c) \/ Call(c) \/ Caller(c) \/ Leave(c)

Spec == Init /\ [][Next]_vars

(***************************************************************************)
(* Fairness: a thread that can go on goes on, bytes that were sent are     *)
(* received, procedures return; nobody has to connect, call or leave.      *)
(***************************************************************************)
FairSpec ==
  /\ Spec
  /\ WF_vars(Serve)
  /\ \A c \in Client : WF_vars(Accept(c)) /\ WF_vars(Thread(c)) /\ WF_vars(Caller(c))

-----------------------------------------------------------------------------
(* Properties *)

\* Type correctness: the counters of a connection are in order, a thread is
\* about a call of its client.
TypeOK ==
  /\ running \in BOOLEAN /\ serving \in {"accept", "top", "ended"}
  /\ conn \in [Client -> {"none", "queued", "open", "closed", "reset"}]
  /\ gone \in [Client -> BOOLEAN]
  /\ thread \in [Client -> {"none", "headers", "body", "parse", "done"}]
  /\ \A c \in Client :
       /\ from[c] \in Nat /\ received[c] \in Nat /\ written[c] \in Nat
       /\ from[c] <= received[c] /\ received[c] <= written[c]
       /\ written[c] <= Len(Stream[c])
       /\ current[c] \in DOMAIN Does[c] \cup {0}
       /\ asked[c] \in 0 .. Len(Does[c])
       /\ runs[c] \subseteq DOMAIN Does[c]
       /\ got[c] \in Seq({"value", "fault", "exception"})
       /\ replies[c] \in Seq([of : DOMAIN Does[c], says : {"value", "fault"}])

\* A procedure runs only for a request whose document has come whole: never for
\* one that its client left unfinished, but for blanks after the last tag, which
\* are not waited for when the client has gone, although Content-Length counts
\* them.
OnlyWholeRequests ==
  \A c \in Client : \A k \in runs[c] : \A j \in DOMAIN Stream[c] :
    Stream[c][j].of = k => j <= received[c] \/ (gone[c] /\ Stream[c][j].kind = "s")

\* No request is executed or answered twice, and answers keep the order of the
\* requests, also when requests are sent ahead and some are thrown away.
AnsweredOnceInOrder ==
  \A c \in Client : \A i, j \in DOMAIN replies[c] :
    i < j => replies[c][i].of < replies[c][j].of

Expected(c, k) == IF Does[c][k] = "value" THEN "value" ELSE "fault"
Multibyte(c, k) == \E i \in DOMAIN Stream[c] : Stream[c][i].of <= k /\ Stream[c][i].kind = "u"

\* A client that waits for its answers gets the right one to every call, unless
\* a call so far had a character of several bytes (a piece that ends inside one
\* does not decode) or the server was closed: however the bytes are cut, and
\* although the buffer is thrown away after every request.
WaitersAreAnswered ==
  \A c \in Waiting : \A k \in DOMAIN got[c] :
    Multibyte(c, k) \/ ~running \/ got[c][k] = Expected(c, k)

\* For the clients that wait the pair implements RemoteCall: at most one run per
\* call, in its time, and no value without it.
ImplementsRemoteCall == RC!Spec

\* A call of a client that waits comes back: with its value, a fault or an
\* exception, unless the client leaves.
CallsReturn ==
  \A c \in Waiting : InCall(c) ~> (~InCall(c) \/ gone[c])

\* The thread of a client that has gone ends: connections are not kept.
ThreadsEnd ==
  \A c \in Client : gone[c] /\ conn[c] = "open" ~> thread[c] = "done"
=============================================================================
