---------------------------- MODULE XmlRpcProofs ----------------------------
(***************************************************************************)
(* Proofs about XmlRpc, for any clients, requests and ways to cut them:    *)
(* the pair keeps the promise of RemoteCall to the clients that wait, and  *)
(* what a thread of the server never does, whoever its client is.          *)
(***************************************************************************)
EXTENDS XmlRpc, FiniteSetTheorems, SequenceTheorems, TLAPS

Says == {"value", "fault", "exception"}

Answers == Seq([of : Nat, says : {"value", "fault"}])

Functions ==
  /\ running \in BOOLEAN /\ serving \in {"accept", "top", "ended"}
  /\ conn \in [Client -> {"none", "queued", "open", "closed", "reset"}]
  /\ gone \in [Client -> BOOLEAN]
  /\ thread \in [Client -> {"none", "headers", "body", "parse", "done"}]
  /\ from \in [Client -> Nat] /\ received \in [Client -> Nat] /\ written \in [Client -> Nat]
  /\ current \in [Client -> Nat] /\ asked \in [Client -> Nat]
  /\ runs \in [Client -> SUBSET Nat]
  /\ got \in [Client -> Seq(Says)]
  /\ replies \in [Client -> Answers]

Bounds(c) ==
  /\ from[c] <= received[c] /\ received[c] <= written[c] /\ written[c] <= Len(Stream[c])
  /\ current[c] \in DOMAIN Does[c] \cup {0}
  /\ asked[c] <= Len(Does[c])
  /\ runs[c] \subseteq DOMAIN Does[c]
  /\ \A i \in DOMAIN replies[c] : replies[c][i].of \in DOMAIN Does[c]

\* a thread has a connection that is open, and closes it when it ends
Lines(c) ==
  /\ thread[c] \in {"headers", "body", "parse"} <=> conn[c] = "open"
  /\ thread[c] = "done" <=> conn[c] = "closed"

\* the thread works on the call whose bytes the buffer begins with, ...
Working(c) ==
  thread[c] \in {"body", "parse"} =>
    from[c] < received[c] /\ current[c] = Stream[c][from[c] + 1].of

\* ... and parses it when it is whole, or when only blanks are missing for good
Parsing(c) ==
  thread[c] = "parse" =>
    \/ EnoughBody(c, current[c], received[c])
    \/ gone[c] /\ received[c] = written[c] /\ Document(c, current[c], received[c])

\* the calls that have run or were answered, and a thread that can still answer
Settled(c) == runs[c] \cup {replies[c][i].of : i \in DOMAIN replies[c]}
Alive(c) == thread[c] # "done" /\ (thread[c] = "headers" /\ gone[c] => received[c] # written[c])

\* what is in the buffer or still to come is of calls after all of those
InOrder(c) ==
  Alive(c) => \A k \in Settled(c) : \A j \in from[c] + 1 .. Len(Stream[c]) : k < Stream[c][j].of

OnceInOrder(c) == \A i, j \in DOMAIN replies[c] : i < j => replies[c][i].of < replies[c][j].of

\* call k has come whole with the first i units, or if its client has left, but for
\* its blanks
Came(c, k, i, left) ==
  \A j \in DOMAIN Stream[c] :
    Stream[c][j].of = k => j <= i \/ (left /\ Stream[c][j].kind = "s")

WholeRan(c) == \A k \in runs[c] : Came(c, k, received[c], gone[c])

ValueRan(c) == \A i \in DOMAIN replies[c] : replies[c][i].says = "value" => replies[c][i].of \in runs[c]

Failed(c) == \E k \in DOMAIN got[c] : got[c][k] = "exception"

\* A client that waits: its answers are those to its calls, one by one, and what it
\* has sent and the server has not dealt with is the call it waits for.
OneByOne(c) ==
  /\ Len(got[c]) <= asked[c] /\ asked[c] <= Len(got[c]) + 1
  /\ \A i \in DOMAIN replies[c] : replies[c][i].of = i
  /\ Len(replies[c]) <= asked[c]
  /\ Alive(c) => \A j \in from[c] + 1 .. written[c] :
                   Stream[c][j].of = asked[c] /\ Len(replies[c]) + 1 = asked[c]
  /\ ~Failed(c) => Len(got[c]) <= Len(replies[c])
  /\ Failed(c) => conn[c] \in {"closed", "reset"}
  /\ ~gone[c] => written[c] = Cardinality({i \in DOMAIN Stream[c] : Stream[c][i].of <= asked[c]})

Connection(c) ==
  /\ Bounds(c) /\ Lines(c) /\ Working(c) /\ Parsing(c)
  /\ InOrder(c) /\ OnceInOrder(c) /\ WholeRan(c) /\ ValueRan(c)
  /\ c \in Waiting => OneByOne(c)

IInv == Functions /\ \A c \in Client : Connection(c)

connectionVars(c) ==
  <<conn[c], gone[c], written[c], received[c], from[c], thread[c], current[c], replies[c],
    asked[c], runs[c], got[c]>>

-----------------------------------------------------------------------------
LEMMA StreamFacts ==
  ASSUME NEW c \in Client
  PROVE  /\ Len(Stream[c]) \in Nat /\ DOMAIN Stream[c] = 1 .. Len(Stream[c])
         /\ Len(Does[c]) \in Nat /\ DOMAIN Does[c] = 1 .. Len(Does[c])
         /\ \A i \in 1 .. Len(Stream[c]) :
              Stream[c][i].of \in Nat \ {0} /\ Stream[c][i].of \in DOMAIN Does[c]
         /\ \A i, j \in 1 .. Len(Stream[c]) : i <= j => Stream[c][i].of <= Stream[c][j].of
<1>1. Stream[c] \in Seq(Unit) /\ Does[c] \in Seq(Outcome)
  BY XmlRpcAssumption
<1>2. \A i \in 1 .. Len(Stream[c]) : Stream[c][i].of \in Nat \ {0}
  <2>1. \A i \in 1 .. Len(Stream[c]) : Stream[c][i] \in Unit
    BY <1>1
  <2> QED
    BY <2>1 DEF Unit
<1> QED
  BY <1>1, <1>2, XmlRpcAssumption

\* The units of the calls up to m are the first ones.
LEMMA FirstUnits ==
  ASSUME NEW c \in Client, NEW m \in Nat
  PROVE  LET S == {i \in DOMAIN Stream[c] : Stream[c][i].of <= m}
         IN  /\ Cardinality(S) \in Nat /\ Cardinality(S) <= Len(Stream[c])
             /\ S = 1 .. Cardinality(S)
<1> DEFINE S == {i \in DOMAIN Stream[c] : Stream[c][i].of <= m}
           L == Len(Stream[c])
<1>1. /\ L \in Nat /\ S \subseteq 1 .. L
      /\ \A i, j \in 1 .. L : i <= j /\ j \in S => i \in S
  BY StreamFacts
<1> HIDE DEF S, L
<1>2. IsFiniteSet(1 .. L) /\ Cardinality(1 .. L) = L
  BY <1>1, FS_Interval
<1>3. IsFiniteSet(S) /\ Cardinality(S) <= L
  BY <1>1, <1>2, FS_Subset
<1>4. Cardinality(S) \in Nat
  BY <1>3, FS_CardinalityType
<1>5. S \subseteq 1 .. Cardinality(S)
  <2> SUFFICES ASSUME NEW i \in S
               PROVE  i \in 1 .. Cardinality(S)
    OBVIOUS
  <2>1. i \in Nat /\ 1 <= i /\ 1 .. i \subseteq S
    BY <1>1
  <2>2. Cardinality(1 .. i) = i
    BY <2>1, FS_Interval
  <2>3. Cardinality(1 .. i) <= Cardinality(S)
    BY <2>1, <1>3, FS_Subset
  <2> QED
    BY <1>4, <2>1, <2>2, <2>3
<1>6. IsFiniteSet(1 .. Cardinality(S)) /\ Cardinality(1 .. Cardinality(S)) = Cardinality(S)
  BY <1>4, FS_Interval
<1>7. S = 1 .. Cardinality(S)
  BY <1>5, <1>6, FS_Subset
<1> QED
  BY <1>3, <1>4, <1>7 DEF S, L

LEMMA AnswersFacts ==
  ASSUME NEW r \in Answers
  PROVE  /\ Len(r) \in Nat /\ DOMAIN r = 1 .. Len(r)
         /\ \A i \in 1 .. Len(r) : r[i].of \in Nat /\ r[i].says \in {"value", "fault"}
<1>1. /\ Len(r) \in Nat /\ DOMAIN r = 1 .. Len(r)
      /\ \A i \in 1 .. Len(r) : r[i] \in [of : Nat, says : {"value", "fault"}]
  <2> DEFINE R == [of : Nat, says : {"value", "fault"}]
  <2>1. r \in Seq(R)
    BY DEF Answers
  <2> HIDE DEF R
  <2>2. Len(r) \in Nat /\ r \in [1 .. Len(r) -> R]
    BY <2>1, LenProperties
  <2>3. DOMAIN r = 1 .. Len(r) /\ \A i \in 1 .. Len(r) : r[i] \in R
    BY <2>2
  <2> QED
    BY <2>2, <2>3 DEF R
<1> QED
  BY <1>1

LEMMA OneMoreAnswer ==
  ASSUME NEW r \in Answers, NEW k, NEW says
  PROVE  LET s == Append(r, [of |-> k, says |-> says])
         IN  /\ Len(s) = Len(r) + 1 /\ DOMAIN s = 1 .. Len(r) + 1
             /\ \A i \in 1 .. Len(r) : s[i] = r[i]
             /\ s[Len(r) + 1].of = k /\ s[Len(r) + 1].says = says
<1> DEFINE x == [of |-> k, says |-> says]
           S == {r[i] : i \in 1 .. Len(r)} \cup {x}
<1>1. r \in Seq(S) /\ x \in S
  BY DEF Answers
<1>2. x.of = k /\ x.says = says
  OBVIOUS
<1> HIDE DEF x, S
<1>3. /\ Append(r, x) \in Seq(S) /\ Len(Append(r, x)) = Len(r) + 1
      /\ \A i \in 1 .. Len(r) : Append(r, x)[i] = r[i]
      /\ Append(r, x)[Len(r) + 1] = x
  BY <1>1, AppendProperties
<1>4. DOMAIN Append(r, x) = 1 .. Len(r) + 1
  BY <1>3, LenProperties
<1> QED
  BY <1>2, <1>3, <1>4 DEF x

LEMMA SameConnection ==
  ASSUME NEW c \in Client, Connection(c), UNCHANGED connectionVars(c)
  PROVE  Connection(c)'
BY DEF connectionVars, Connection, Bounds, Lines, Working, Parsing, EnoughBody, Document, Came,
       Settled, Alive, InOrder, OnceInOrder, WholeRan, ValueRan, OneByOne, Failed

\* A step about one client keeps the invariant if it does for that client.
LEMMA OneClient ==
  ASSUME IInv, NEW c \in Client, Functions', Connection(c)',
         \A d \in Client \ {c} : UNCHANGED connectionVars(d)
  PROVE  IInv'
BY SameConnection DEF IInv

(***************************************************************************)
(* The step all others lead to: the thread answers call k, or finds that   *)
(* nobody is there, and is rid of what it has read or ends.                *)
(***************************************************************************)
LEMMA Answered ==
  ASSUME IInv, NEW c \in Client, NEW k, NEW says \in {"value", "fault"}, NEW goesOn \in BOOLEAN,
         Reply(c, k, says, goesOn),
         conn[c] = "open", Alive(c),
         from[c] < received'[c], k = Stream[c][from[c] + 1].of,
         received[c] <= received'[c], received'[c] <= written[c],
         from'[c] \in {from[c], received'[c]},
         goesOn => /\ from'[c] = received'[c]
                   /\ EnoughBody(c, k, received'[c]) \/ (gone[c] /\ received'[c] = written[c]),
         runs'[c] = runs[c] \/ (runs'[c] = runs[c] \cup {k} /\ Came(c, k, received'[c], gone[c])),
         says = "value" => k \in runs'[c],
         Functions', UNCHANGED <<current[c], gone[c], written[c], asked[c], got[c]>>
  PROVE  Connection(c)'
<1> DEFINE n == Len(replies[c])
           b == from[c] + 1
<1>1. /\ Functions /\ Connection(c)
  BY DEF IInv
<1>2. /\ b \in 1 .. Len(Stream[c]) /\ b \in from[c] + 1 .. written[c]
      /\ from[c] \in Nat /\ received[c] \in Nat /\ received'[c] \in Nat /\ written[c] \in Nat
      /\ from'[c] \in Nat /\ Len(Stream[c]) \in Nat
      /\ k \in Nat /\ k \in DOMAIN Does[c]
      /\ written[c] <= Len(Stream[c])
  <2>1. from[c] \in Nat /\ received[c] \in Nat /\ written[c] \in Nat
    BY <1>1 DEF Functions
  <2>2. received'[c] \in Nat /\ from'[c] \in Nat
    BY DEF Functions
  <2>3. Len(Stream[c]) \in Nat
    BY StreamFacts
  <2>4. written[c] <= Len(Stream[c])
    BY <1>1 DEF Connection, Bounds
  <2>5. b \in 1 .. Len(Stream[c]) /\ b \in from[c] + 1 .. written[c]
    BY <2>1, <2>2, <2>3, <2>4
  <2> QED
    BY <2>1, <2>2, <2>3, <2>4, <2>5, StreamFacts
<1>3. /\ replies[c] \in Answers
      /\ n \in Nat /\ DOMAIN replies[c] = 1 .. n
      /\ \A i \in 1 .. n : replies[c][i].of \in Nat
  <2>1. replies[c] \in Answers
    BY <1>1 DEF Functions
  <2> QED
    BY <2>1, AnswersFacts
<1>4. \/ /\ replies'[c] = Append(replies[c], [of |-> k, says |-> says])
         /\ thread'[c] = (IF goesOn THEN "headers" ELSE "done")
         /\ conn'[c] = (IF goesOn THEN "open" ELSE "closed")
      \/ /\ replies'[c] = replies[c] /\ thread'[c] = "done" /\ conn'[c] = "closed"
  BY <1>1 DEF Reply, Functions
<1>5. \/ replies'[c] = replies[c] /\ thread'[c] = "done"
      \/ /\ Len(replies'[c]) = n + 1 /\ DOMAIN replies'[c] = 1 .. n + 1
         /\ \A i \in 1 .. n : replies'[c][i] = replies[c][i]
         /\ replies'[c][n + 1].of = k /\ replies'[c][n + 1].says = says
  BY <1>3, <1>4, OneMoreAnswer
<1>6. /\ \A x \in runs[c] : x < k
      /\ \A i \in 1 .. n : replies[c][i].of < k
  <2>1. InOrder(c)
    BY <1>1 DEF Connection
  <2>2. ASSUME NEW x \in Settled(c)
        PROVE  x < k
    BY <2>1, <2>2, <1>2 DEF InOrder
  <2> QED
    BY <2>2, <1>3 DEF Settled
<1>7. Bounds(c)'
  <2>1. Bounds(c)
    BY <1>1 DEF Connection
  <2>2. \A i \in DOMAIN replies'[c] : replies'[c][i].of \in DOMAIN Does[c]
    <3>1. CASE replies'[c] = replies[c]
      BY <2>1, <3>1 DEF Bounds
    <3>2. CASE DOMAIN replies'[c] = 1 .. n + 1 /\ replies'[c][n + 1].of = k
               /\ \A i \in 1 .. n : replies'[c][i] = replies[c][i]
      <4> SUFFICES ASSUME NEW i \in 1 .. n + 1
                   PROVE  replies'[c][i].of \in DOMAIN Does[c]
        BY <3>2
      <4>1. i = n + 1 \/ i \in 1 .. n
        BY <1>3
      <4> QED
        BY <1>2, <1>3, <2>1, <3>2, <4>1 DEF Bounds
    <3> QED
      BY <1>5, <3>1, <3>2
  <2>3. runs'[c] \subseteq DOMAIN Does[c]
    BY <1>2, <2>1 DEF Bounds
  <2>4. from'[c] <= received'[c] /\ received'[c] <= written'[c] /\ written'[c] <= Len(Stream[c])
    BY <1>2, <2>1 DEF Bounds
  <2> QED
    BY <2>1, <2>2, <2>3, <2>4 DEF Bounds
<1>8. Lines(c)' /\ Working(c)' /\ Parsing(c)'
  BY <1>4 DEF Lines, Working, Parsing
<1>9. InOrder(c)'
  <2> SUFFICES ASSUME Alive(c)', NEW x \in Settled(c)',
                      NEW j \in from'[c] + 1 .. Len(Stream[c])
               PROVE  x < Stream[c][j].of
    BY DEF InOrder
  <2>1. goesOn /\ thread'[c] = "headers" /\ ~(gone[c] /\ received'[c] = written[c])
    BY <1>4 DEF Alive
  <2>2. j \in 1 .. Len(Stream[c]) /\ b <= j /\ j > received'[c]
    BY <1>2, <2>1
  <2>3. Stream[c][j].of \in Nat /\ k <= Stream[c][j].of
    BY <1>2, <2>2, StreamFacts
  <2>4. Stream[c][j].of # k
    BY <1>2, <2>1, <2>2, StreamFacts DEF EnoughBody, Document, Came
  <2>5. x = k \/ x \in runs[c] \/ \E i \in 1 .. n : x = replies[c][i].of
    <3>1. CASE x \in runs'[c]
      BY <3>1
    <3>2. CASE x \notin runs'[c]
      <4>1. PICK i \in DOMAIN replies'[c] : x = replies'[c][i].of
        BY <3>2 DEF Settled
      <4>2. DOMAIN replies'[c] = 1 .. n + 1 /\ replies'[c][n + 1].of = k
            /\ \A h \in 1 .. n : replies'[c][h] = replies[c][h]
        BY <1>5, <2>1
      <4>3. i = n + 1 \/ i \in 1 .. n
        BY <1>3, <4>2
      <4> QED
        BY <4>1, <4>2, <4>3
    <3> QED
      BY <3>1, <3>2
  <2>6. x \in Nat /\ x <= k
    <3>1. runs[c] \in SUBSET Nat
      BY <1>1 DEF Functions
    <3>2. CASE x = k
      BY <1>2, <3>2
    <3>3. CASE x \in runs[c]
      BY <1>2, <1>6, <3>1, <3>3
    <3>4. CASE \E i \in 1 .. n : x = replies[c][i].of
      <4>1. PICK i \in 1 .. n : x = replies[c][i].of
        BY <3>4
      <4>2. x \in Nat /\ x < k
        BY <1>3, <1>6, <4>1
      <4> QED
        BY <1>2, <4>2
    <3> QED
      BY <2>5, <3>2, <3>3, <3>4
  <2>7. k < Stream[c][j].of
    BY <1>2, <2>3, <2>4
  <2>8. \A y, z, w \in Nat : y <= z /\ z < w => y < w
    OBVIOUS
  <2>9. k \in Nat
    BY <1>2
  <2> QED
    BY <2>3, <2>6, <2>7, <2>8, <2>9
<1>10. OnceInOrder(c)'
  <2>1. OnceInOrder(c)
    BY <1>1 DEF Connection
  <2>2. CASE replies'[c] = replies[c]
    BY <2>1, <2>2 DEF OnceInOrder
  <2>3. CASE DOMAIN replies'[c] = 1 .. n + 1 /\ replies'[c][n + 1].of = k
             /\ \A h \in 1 .. n : replies'[c][h] = replies[c][h]
    <3> SUFFICES ASSUME NEW i \in 1 .. n + 1, NEW j \in 1 .. n + 1, i < j
                 PROVE  replies'[c][i].of < replies'[c][j].of
      BY <2>3 DEF OnceInOrder
    <3> n \in Nat
      BY <1>3
    <3> HIDE DEF n
    <3>1. i \in 1 .. n /\ (j = n + 1 \/ j \in 1 .. n)
      OBVIOUS
    <3> QED
      BY <1>3, <1>6, <2>1, <2>3, <3>1 DEF OnceInOrder
  <2> QED
    BY <1>5, <2>2, <2>3
<1>11. WholeRan(c)'
  <2> SUFFICES ASSUME NEW x \in runs'[c], NEW j \in DOMAIN Stream[c], Stream[c][j].of = x
               PROVE  j <= received'[c] \/ (gone[c] /\ Stream[c][j].kind = "s")
    BY DEF WholeRan, Came
  <2>1. x \in runs[c] => j <= received[c] \/ (gone[c] /\ Stream[c][j].kind = "s")
    BY <1>1 DEF Connection, WholeRan, Came
  <2>2. CASE x \in runs[c]
    <3>1. j \in Nat
      BY StreamFacts
    <3>2. CASE j <= received[c]
      BY <1>2, <3>1, <3>2
    <3> QED
      BY <2>1, <2>2, <3>2
  <2>3. CASE x \notin runs[c]
    BY <2>3 DEF Came
  <2> QED
    BY <2>2, <2>3
<1>12. ValueRan(c)'
  <2>1. ValueRan(c) /\ runs[c] \subseteq runs'[c]
    BY <1>1 DEF Connection
  <2>2. CASE replies'[c] = replies[c]
    BY <2>1, <2>2 DEF ValueRan
  <2>3. CASE DOMAIN replies'[c] = 1 .. n + 1 /\ replies'[c][n + 1].of = k
             /\ replies'[c][n + 1].says = says
             /\ \A h \in 1 .. n : replies'[c][h] = replies[c][h]
    <3> SUFFICES ASSUME NEW i \in 1 .. n + 1, replies'[c][i].says = "value"
                 PROVE  replies'[c][i].of \in runs'[c]
      BY <2>3 DEF ValueRan
    <3>1. i = n + 1 \/ i \in 1 .. n
      BY <1>3
    <3> QED
      BY <1>3, <2>1, <2>3, <3>1 DEF ValueRan
  <2> QED
    BY <1>5, <2>2, <2>3
<1>13. ASSUME c \in Waiting
       PROVE  OneByOne(c)'
  <2>1. OneByOne(c) /\ ~Failed(c) /\ Failed(c)' = Failed(c)
    BY <1>1, <1>13 DEF Connection, OneByOne, Failed
  <2>2. k = asked[c] /\ n + 1 = asked[c]
    BY <1>2, <2>1 DEF OneByOne
  <2>3. got[c] \in Seq(Says) /\ Len(got[c]) \in Nat /\ asked[c] \in Nat
    BY <1>1 DEF Functions
  <2>4. /\ \A i \in DOMAIN replies'[c] : replies'[c][i].of = i
        /\ Len(replies'[c]) <= asked[c]
        /\ Len(got[c]) <= Len(replies'[c])
    <3>1. CASE replies'[c] = replies[c]
      BY <1>3, <2>1, <2>3, <3>1 DEF OneByOne
    <3>2. CASE Len(replies'[c]) = n + 1 /\ DOMAIN replies'[c] = 1 .. n + 1
               /\ replies'[c][n + 1].of = k
               /\ \A h \in 1 .. n : replies'[c][h] = replies[c][h]
      <4>1. ASSUME NEW i \in 1 .. n + 1
            PROVE  replies'[c][i].of = i
        <5>1. i = n + 1 \/ i \in 1 .. n
          BY <1>3
        <5> QED
          BY <1>3, <2>1, <2>2, <3>2, <5>1 DEF OneByOne
      <4>2. Len(got[c]) <= n
        BY <2>1 DEF OneByOne
      <4> QED
        BY <1>3, <2>2, <2>3, <3>2, <4>1, <4>2
    <3> QED
      BY <1>5, <3>1, <3>2
  <2>5. ASSUME Alive(c)', NEW j \in from'[c] + 1 .. written[c]
        PROVE  FALSE
    <3>1. goesOn /\ thread'[c] = "headers" /\ ~(gone[c] /\ received'[c] = written[c])
      BY <1>4, <2>5 DEF Alive
    <3>2. j \in from[c] + 1 .. written[c] /\ j > received'[c] /\ j \in 1 .. Len(Stream[c])
      BY <1>2, <2>5, <3>1
    <3>3. Stream[c][j].of = k
      BY <2>1, <2>2, <3>2 DEF OneByOne
    <3> QED
      BY <1>2, <3>1, <3>2, <3>3, StreamFacts DEF EnoughBody, Document, Came
  <2> QED
    BY <2>1, <2>4, <2>5 DEF OneByOne
<1> QED
  BY <1>7, <1>8, <1>9, <1>10, <1>11, <1>12, <1>13 DEF Connection, Waiting

-----------------------------------------------------------------------------
(***************************************************************************)
(* The steps of a thread of the server.                                    *)
(***************************************************************************)
\* what a step about c leaves alone
LEMMA OthersLeftAlone ==
  ASSUME IInv, NEW c \in Client, Functions',
         \/ Accept(c) \/ Connect(c) \/ Thread(c) \/ Call(c) \/ Caller(c) \/ Leave(c)
  PROVE  \A d \in Client \ {c} : UNCHANGED connectionVars(d)
<1> SUFFICES ASSUME NEW d \in Client \ {c}
             PROVE  UNCHANGED connectionVars(d)
  OBVIOUS
<1>1. Functions
  BY DEF IInv
<1>2. ASSUME NEW k, NEW says, NEW goesOn, Reply(c, k, says, goesOn)
      PROVE  UNCHANGED <<conn[d], thread[d], replies[d]>>
  BY <1>1, <1>2 DEF Reply, Functions
<1>3. ASSUME NEW i, EmptyBuffer(c, i)
      PROVE  UNCHANGED from[d]
  BY <1>1, <1>3 DEF EmptyBuffer, Functions
<1>4. ASSUME NEW i, TakeHeaders(c, i)
      PROVE  UNCHANGED <<conn[d], thread[d], replies[d], from[d], current[d]>>
  BY <1>1, <1>2, <1>3, <1>4 DEF TakeHeaders, Functions
<1>5. CASE RecvHeaders(c)
  BY <1>1, <1>4, <1>5 DEF RecvHeaders, connectionVars, Functions, client
<1>6. CASE RecvBody(c)
  BY <1>1, <1>6 DEF RecvBody, connectionVars, Functions, client, network
<1>7. CASE RecvNothing(c)
  BY <1>1, <1>2, <1>3, <1>7 DEF RecvNothing, connectionVars, Functions, client
<1>8. CASE Execute(c)
  BY <1>1, <1>2, <1>3, <1>8 DEF Execute, connectionVars, Functions, client
<1>9. CASE Accept(c) \/ Connect(c)
  BY <1>1, <1>9 DEF Accept, Connect, connectionVars, Functions, client, server
<1>10. CASE Call(c) \/ Leave(c)
  BY <1>1, <1>10 DEF Call, Leave, connectionVars, Functions, client, server
<1>11. CASE Caller(c)
  BY <1>1, <1>11 DEF Caller, RecvAnswer, NoAnswer, Comes, connectionVars, Functions, network, server
<1> QED
  BY <1>5, <1>6, <1>7, <1>8, <1>9, <1>10, <1>11 DEF Thread

LEMMA ReplyTypes ==
  ASSUME Functions, NEW c \in Client, NEW k \in Nat, NEW says \in {"value", "fault"},
         NEW goesOn \in BOOLEAN, Reply(c, k, says, goesOn)
  PROVE  /\ conn' \in [Client -> {"none", "queued", "open", "closed", "reset"}]
         /\ thread' \in [Client -> {"none", "headers", "body", "parse", "done"}]
         /\ replies' \in [Client -> Answers]
<1> DEFINE x == [of |-> k, says |-> says]
           R == [of : Nat, says : {"value", "fault"}]
<1>1. replies[c] \in Seq(R) /\ x \in R
  BY DEF Functions, Answers
<1> HIDE DEF x, R
<1>2. Append(replies[c], x) \in Seq(R)
  BY <1>1, AppendProperties
<1>3. Append(replies[c], x) \in Answers
  BY <1>2 DEF Answers, R
<1>4. replies' = [replies EXCEPT ![c] = Append(replies[c], x)] \/ replies' = replies
  BY DEF Reply, x, Functions
<1>5. replies' \in [Client -> Answers]
  BY <1>3, <1>4 DEF Functions
<1> QED
  BY <1>5 DEF Reply, Functions

LEMMA ExecuteKeeps ==
  ASSUME IInv, NEW c \in Client, Execute(c)
  PROVE  Functions' /\ Connection(c)'
<1> DEFINE k == current[c]
           says == IF Does[c][k] = "value" THEN "value" ELSE "fault"
<1>1. Functions /\ Connection(c)
  BY DEF IInv
<1>2. /\ Reply(c, k, says, TRUE) /\ EmptyBuffer(c, received[c])
      /\ runs' = [runs EXCEPT ![c] = IF Executes(Does[c][k]) THEN @ \cup {k} ELSE @]
      /\ UNCHANGED <<gone, written, running, serving, received, current, asked, got>>
      /\ thread[c] = "parse"
  BY DEF Execute, client
<1>3. /\ from[c] < received[c] /\ k = Stream[c][from[c] + 1].of
      /\ \/ EnoughBody(c, k, received[c])
         \/ gone[c] /\ received[c] = written[c] /\ Document(c, k, received[c])
      /\ conn[c] = "open"
  BY <1>1, <1>2 DEF Connection, Working, Parsing, Lines
<1>4. /\ k \in Nat /\ says \in {"value", "fault"}
      /\ runs' \in [Client -> SUBSET Nat]
      /\ from' \in [Client -> Nat] /\ from'[c] = received[c]
  BY <1>1, <1>2 DEF Functions, EmptyBuffer
<1> HIDE DEF k
<1>5. Functions'
  BY <1>1, <1>2, <1>4, ReplyTypes DEF Functions
<1>6. /\ runs'[c] = runs[c] \/ (runs'[c] = runs[c] \cup {k} /\ Came(c, k, received'[c], gone[c]))
      /\ says = "value" => k \in runs'[c]
      /\ EnoughBody(c, k, received'[c]) \/ (gone[c] /\ received'[c] = written[c])
  <2>1. Came(c, k, received'[c], gone[c]) BY <1>2, <1>3 DEF EnoughBody, Document, Came
  <2> QED BY <1>1, <1>2, <1>3, <2>1 DEF Functions, Executes
<1>7. /\ Alive(c) /\ received[c] <= received'[c] /\ received'[c] <= written[c]
      /\ from[c] < received'[c] /\ from'[c] = received'[c]
  BY <1>1, <1>2, <1>3, <1>4 DEF Alive, Connection, Bounds, Functions
<1> HIDE DEF says
<1>8. UNCHANGED <<current[c], gone[c], written[c], asked[c], got[c]>>
  BY <1>2
<1>9. Connection(c)'
  BY <1>2, <1>3, <1>4, <1>5, <1>6, <1>7, <1>8, Answered
<1> QED
  BY <1>5, <1>9

\* A thread that only reads on: the bounds move, nothing is settled.
LEMMA ReadsOn ==
  ASSUME IInv, NEW c \in Client, conn[c] = "open", Alive(c), Functions',
         received[c] <= received'[c], received'[c] <= written[c],
         thread'[c] \in {"headers", "body", "parse"},
         current'[c] \in DOMAIN Does[c] \cup {0},
         Working(c)', Parsing(c)',
         UNCHANGED <<conn[c], gone[c], written[c], from[c], replies[c], asked[c], runs[c], got[c]>>
  PROVE  Connection(c)'
<1>1. Connection(c) /\ Functions
  BY DEF IInv
<1>2. /\ received[c] \in Nat /\ received'[c] \in Nat /\ written[c] \in Nat /\ from[c] \in Nat
  BY <1>1 DEF Functions
<1>3. Bounds(c)'
  BY <1>1, <1>2 DEF Connection, Bounds
<1>4. Lines(c)'
  BY <1>1 DEF Connection, Lines
<1>5. InOrder(c)' /\ OnceInOrder(c)' /\ ValueRan(c)'
  BY <1>1 DEF Connection, InOrder, OnceInOrder, ValueRan, Settled
<1>6. WholeRan(c)'
  <2> SUFFICES ASSUME NEW k \in runs[c], NEW j \in DOMAIN Stream[c], Stream[c][j].of = k
               PROVE  j <= received'[c] \/ (gone[c] /\ Stream[c][j].kind = "s")
    BY DEF WholeRan, Came
  <2>1. j \in Nat /\ (j <= received[c] \/ (gone[c] /\ Stream[c][j].kind = "s"))
    BY <1>1, StreamFacts DEF Connection, WholeRan, Came
  <2> QED
    BY <1>2, <2>1
<1>7. c \in Waiting => OneByOne(c)'
  BY <1>1 DEF Connection, OneByOne, Failed
<1> QED
  BY <1>3, <1>4, <1>5, <1>6, <1>7 DEF Connection, Waiting

LEMMA RecvNothingKeeps ==
  ASSUME IInv, NEW c \in Client, RecvNothing(c)
  PROVE  Functions' /\ Connection(c)'
<1>1. Functions /\ Connection(c)
  BY DEF IInv
<1>2. /\ gone[c] /\ received[c] = written[c] /\ received[c] \in Nat
      /\ UNCHANGED <<gone, written, running, serving, received, current, runs, asked, got>>
  BY <1>1 DEF RecvNothing, client, Functions
<1>3. CASE /\ thread[c] = "headers"
           /\ thread' = [thread EXCEPT ![c] = "done"]
           /\ conn' = [conn EXCEPT ![c] = "closed"]
           /\ UNCHANGED <<from, replies>>
  <2>1. Functions'
    BY <1>1, <1>2, <1>3 DEF Functions
  <2>2. thread'[c] = "done" /\ conn'[c] = "closed" /\ conn[c] = "open"
    BY <1>1, <1>3 DEF Functions, Connection, Lines
  <2>3. Connection(c)'
    BY <1>1, <1>2, <1>3, <2>2
    DEF Connection, Bounds, Lines, Working, Parsing, EnoughBody, Document, Came, Alive,
        InOrder, OnceInOrder, WholeRan, ValueRan, OneByOne, Failed
  <2> QED
    BY <2>1, <2>3
<1>4. CASE /\ thread[c] = "body" /\ ~Document(c, current[c], received[c])
           /\ Reply(c, current[c], "fault", Stream[c][received[c]].kind # "u")
           /\ EmptyBuffer(c, received[c])
  <2> DEFINE k == current[c]
             goesOn == Stream[c][received[c]].kind # "u"
  <2>1. from[c] < received[c] /\ k = Stream[c][from[c] + 1].of /\ conn[c] = "open"
    BY <1>1, <1>4 DEF Connection, Working, Lines
  <2>2. k \in Nat /\ goesOn \in BOOLEAN /\ from' \in [Client -> Nat] /\ from'[c] = received[c]
    BY <1>1, <1>2, <1>4 DEF Functions, EmptyBuffer
  <2>3. Reply(c, k, "fault", goesOn)
    BY <1>4
  <2>4. Alive(c) /\ received'[c] = received[c] /\ received[c] <= written[c]
    BY <1>1, <1>2, <1>4 DEF Alive, Connection, Bounds, Functions
  <2>5. UNCHANGED <<current[c], gone[c], written[c], asked[c], got[c], runs[c]>>
    BY <1>2
  <2> HIDE DEF k, goesOn
  <2>6. Functions'
    BY <1>1, <1>2, <2>2, <2>3, ReplyTypes DEF Functions
  <2>7. Connection(c)'
    BY <1>2, <2>1, <2>2, <2>3, <2>4, <2>5, <2>6, Answered
  <2> QED
    BY <2>6, <2>7
<1>5. CASE /\ thread[c] = "body" /\ Document(c, current[c], received[c])
           /\ thread' = [thread EXCEPT ![c] = "parse"]
           /\ UNCHANGED <<conn, from, replies>>
  <2>1. Functions' /\ thread'[c] = "parse"
    BY <1>1, <1>2, <1>5 DEF Functions
  <2>2. Working(c)' /\ Parsing(c)'
    BY <1>1, <1>2, <1>5, <2>1 DEF Connection, Working, Parsing, EnoughBody, Document
  <2>3. conn[c] = "open" /\ Alive(c) /\ received[c] <= written[c]
        /\ current[c] \in DOMAIN Does[c] \cup {0}
    BY <1>1, <1>5 DEF Connection, Lines, Alive, Bounds
  <2>4. /\ UNCHANGED <<conn[c], from[c], replies[c]>>
        /\ UNCHANGED <<gone[c], written[c], asked[c], runs[c], got[c], received[c], current[c]>>
    BY <1>2, <1>5
  <2>5. received[c] <= received'[c] /\ received'[c] <= written[c]
    BY <1>2, <2>4
  <2>6. Connection(c)'
    BY <2>1, <2>2, <2>3, <2>4, <2>5, ReadsOn
  <2> QED
    BY <2>1, <2>6
<1> QED
  BY <1>3, <1>4, <1>5 DEF RecvNothing

LEMMA RecvHeadersKeeps ==
  ASSUME IInv, NEW c \in Client, RecvHeaders(c)
  PROVE  Functions' /\ Connection(c)'
<1>1. Functions /\ Connection(c)
  BY DEF IInv
<1>2. PICK i \in received[c] + 1 .. written[c] :
        received' = [received EXCEPT ![c] = i] /\ TakeHeaders(c, i)
  BY DEF RecvHeaders
<1> DEFINE first == Stream[c][from[c] + 1]
           k == first.of
<1>3. /\ thread[c] = "headers"
      /\ UNCHANGED <<gone, written, running, serving, runs, asked, got>>
  BY DEF RecvHeaders, client
<1>4. /\ received[c] \in Nat /\ written[c] \in Nat /\ from[c] \in Nat /\ i \in Nat
      /\ from[c] < i /\ received[c] <= i /\ i <= written[c] /\ received[c] # written[c]
      /\ from[c] + 1 \in 1 .. Len(Stream[c])
      /\ received' \in [Client -> Nat] /\ received'[c] = i
  <2>1. received[c] \in Nat /\ written[c] \in Nat /\ from[c] \in Nat /\ i \in Nat
    BY <1>1 DEF Functions
  <2>2. from[c] <= received[c] /\ written[c] <= Len(Stream[c]) /\ Len(Stream[c]) \in Nat
    BY <1>1, StreamFacts DEF Connection, Bounds
  <2>3. received' \in [Client -> Nat] /\ received'[c] = i
    BY <1>1, <1>2, <2>1 DEF Functions
  <2> QED
    BY <2>1, <2>2, <2>3
<1>5. k \in Nat /\ k \in DOMAIN Does[c]
  BY <1>4, StreamFacts
<1>6. Alive(c) /\ conn[c] = "open"
  BY <1>1, <1>3, <1>4 DEF Alive, Connection, Lines
<1>7. CASE Reply(c, k, "fault", FALSE) /\ current' = current
           /\ (EmptyBuffer(c, i) \/ from' = from)
  <2>1. from' \in [Client -> Nat] /\ from'[c] \in {from[c], received'[c]}
    BY <1>1, <1>4, <1>7 DEF Functions, EmptyBuffer
  <2>2. Functions'
    BY <1>1, <1>3, <1>4, <1>5, <1>7, <2>1, ReplyTypes DEF Functions
  <2>3. /\ from[c] < received'[c] /\ received[c] <= received'[c] /\ received'[c] <= written[c]
        /\ UNCHANGED <<current[c], gone[c], written[c], asked[c], got[c], runs[c]>>
    BY <1>3, <1>4, <1>7
  <2> HIDE DEF k
  <2>4. k = Stream[c][from[c] + 1].of
    BY DEF k
  <2>5. Connection(c)'
    BY <1>6, <1>7, <2>1, <2>2, <2>3, <2>4, Answered
  <2> QED
    BY <2>2, <2>5
<1>8. CASE UNCHANGED <<conn, thread, from, current, replies>>
  <2>1. Functions'
    BY <1>1, <1>3, <1>4, <1>8 DEF Functions
  <2>2. Working(c)' /\ Parsing(c)' /\ current'[c] \in DOMAIN Does[c] \cup {0}
    BY <1>1, <1>3, <1>8 DEF Working, Parsing, Connection, Bounds
  <2>3. Connection(c)'
    BY <1>3, <1>4, <1>6, <1>8, <2>1, <2>2, ReadsOn
  <2> QED
    BY <2>1, <2>3
<1>9. CASE /\ current' = [current EXCEPT ![c] = k]
           /\ thread' = [thread EXCEPT ![c] = IF EnoughBody(c, k, i) THEN "parse" ELSE "body"]
           /\ UNCHANGED <<conn, from, replies>>
  <2>1. Functions'
    BY <1>1, <1>3, <1>4, <1>5, <1>9 DEF Functions
  <2>2. current'[c] = k /\ thread'[c] = IF EnoughBody(c, k, i) THEN "parse" ELSE "body"
    BY <1>1, <1>9 DEF Functions
  <2>3. Working(c)' /\ Parsing(c)' /\ current'[c] \in DOMAIN Does[c] \cup {0}
    BY <1>4, <1>5, <1>9, <2>2 DEF Working, Parsing, EnoughBody, Document, Came
  <2>4. Connection(c)'
    BY <1>3, <1>4, <1>6, <1>9, <2>1, <2>2, <2>3, ReadsOn
  <2> QED
    BY <2>1, <2>4
<1> QED
  BY <1>2, <1>7, <1>8, <1>9 DEF TakeHeaders

LEMMA RecvBodyKeeps ==
  ASSUME IInv, NEW c \in Client, RecvBody(c)
  PROVE  Functions' /\ Connection(c)'
<1>1. Functions /\ Connection(c)
  BY DEF IInv
<1>2. PICK i \in received[c] + 1 .. written[c] :
        /\ received' = [received EXCEPT ![c] = i]
        /\ thread' = [thread EXCEPT ![c] = IF EnoughBody(c, current[c], i) THEN "parse" ELSE "body"]
  BY DEF RecvBody
<1>3. /\ thread[c] = "body"
      /\ UNCHANGED <<conn, gone, written, running, serving, from, current, replies, runs, asked, got>>
  BY DEF RecvBody, network, client
<1>4. /\ received[c] \in Nat /\ written[c] \in Nat /\ i \in Nat /\ from[c] \in Nat
      /\ received[c] <= i /\ i <= written[c]
      /\ received'[c] = i
      /\ thread'[c] = IF EnoughBody(c, current[c], i) THEN "parse" ELSE "body"
  BY <1>1, <1>2 DEF Functions
<1>5. Functions'
  BY <1>1, <1>2, <1>3, <1>4 DEF Functions
<1>6. from[c] < received[c] /\ current[c] = Stream[c][from[c] + 1].of
  BY <1>1, <1>3 DEF Connection, Working
<1>7. Working(c)' /\ Parsing(c)'
  BY <1>3, <1>4, <1>6 DEF Working, Parsing, EnoughBody, Document, Came
<1>8. Alive(c) /\ conn[c] = "open" /\ current'[c] \in DOMAIN Does[c] \cup {0}
  BY <1>1, <1>3 DEF Alive, Connection, Lines, Bounds
<1>9. Connection(c)'
  BY <1>3, <1>4, <1>5, <1>7, <1>8, ReadsOn
<1> QED
  BY <1>5, <1>9

-----------------------------------------------------------------------------
(***************************************************************************)
(* The steps of the accepting thread and of the clients.                   *)
(***************************************************************************)
LEMMA ConnectKeeps ==
  ASSUME IInv, NEW c \in Client, Connect(c)
  PROVE  Functions' /\ Connection(c)'
<1>1. Functions /\ Connection(c)
  BY DEF IInv
<1>2. /\ conn[c] = "none" /\ conn' = [conn EXCEPT ![c] = "queued"]
      /\ UNCHANGED <<gone, written, running, serving, received, from, thread, current, replies,
                     runs, asked, got>>
  BY DEF Connect, server, client
<1>3. Functions' /\ conn'[c] = "queued"
  BY <1>1, <1>2 DEF Functions
<1>4. Connection(c)'
  BY <1>1, <1>2, <1>3
  DEF Connection, Bounds, Lines, Working, Parsing, EnoughBody, Document, Came, Alive, InOrder,
      Settled, OnceInOrder, WholeRan, ValueRan, OneByOne, Failed
<1> QED
  BY <1>3, <1>4

LEMMA AcceptKeeps ==
  ASSUME IInv, NEW c \in Client, Accept(c)
  PROVE  Functions' /\ Connection(c)'
<1>1. Functions /\ Connection(c)
  BY DEF IInv
<1>2. /\ conn[c] = "queued" /\ conn' = [conn EXCEPT ![c] = "open"]
      /\ thread' = [thread EXCEPT ![c] = "headers"]
      /\ serving' = "top"
      /\ UNCHANGED <<gone, written, running, received, from, current, replies, runs, asked, got>>
  BY DEF Accept, client
<1>3. Functions' /\ conn'[c] = "open" /\ thread'[c] = "headers"
  BY <1>1, <1>2 DEF Functions
<1>4. Alive(c) /\ (c \in Waiting => ~Failed(c))
  BY <1>1, <1>2 DEF Alive, Connection, Lines, OneByOne, Functions
<1>5. Bounds(c)' /\ Lines(c)' /\ Working(c)' /\ Parsing(c)'
  BY <1>1, <1>2, <1>3 DEF Connection, Bounds, Lines, Working, Parsing
<1>6. InOrder(c)' /\ OnceInOrder(c)' /\ WholeRan(c)' /\ ValueRan(c)'
  BY <1>1, <1>2, <1>4
  DEF Connection, InOrder, Settled, OnceInOrder, WholeRan, EnoughBody, Document, Came, ValueRan
<1>7. c \in Waiting => OneByOne(c)'
  BY <1>1, <1>2, <1>4 DEF Connection, OneByOne, Failed
<1>8. Connection(c)'
  BY <1>5, <1>6, <1>7 DEF Connection, Waiting
<1> QED
  BY <1>3, <1>8

LEMMA ServeKeeps ==
  ASSUME IInv, Serve \/ AcceptFails
  PROVE  IInv'
<1>1. Functions
  BY DEF IInv
<1>2. /\ serving' \in {"accept", "ended"}
      /\ \/ UNCHANGED conn
         \/ conn' = [c \in Client |-> IF conn[c] = "queued" THEN "reset" ELSE conn[c]]
      /\ UNCHANGED <<gone, written, running, received, from, thread, current, replies, runs,
                     asked, got>>
  BY DEF Serve, AcceptFails, EndServe, client
<1>3. Functions'
  BY <1>1, <1>2 DEF Functions
<1>4. ASSUME NEW c \in Client
      PROVE  Connection(c)'
  <2>1. Connection(c)
    BY DEF IInv
  <2>2. conn'[c] = conn[c] \/ (conn[c] = "queued" /\ conn'[c] = "reset")
    BY <1>2
  <2> QED
    BY <1>2, <2>1, <2>2
    DEF Connection, Bounds, Lines, Working, Parsing, EnoughBody, Document, Came, Alive,
        InOrder, Settled, OnceInOrder, WholeRan, ValueRan, OneByOne, Failed
<1> QED
  BY <1>3, <1>4 DEF IInv

LEMMA CloseKeeps ==
  ASSUME IInv, Close \/ UNCHANGED vars
  PROVE  IInv'
<1>1. /\ running' \in BOOLEAN
      /\ UNCHANGED <<conn, gone, written, serving, received, from, thread, current, replies, runs,
                     asked, got>>
  BY DEF Close, vars, network, server, client, IInv, Functions
<1>2. Functions'
  BY <1>1 DEF IInv, Functions
<1>3. \A c \in Client : Connection(c)'
  BY <1>1, SameConnection DEF IInv, connectionVars
<1> QED
  BY <1>2, <1>3 DEF IInv

\* A client that waits has had all answers, so that the next request finds the
\* thread's buffer empty.
LEMMA CallKeeps ==
  ASSUME IInv, NEW c \in Client, Call(c)
  PROVE  Functions' /\ Connection(c)'
<1> DEFINE m == asked[c] + 1
           n == Cardinality({i \in DOMAIN Stream[c] : Stream[c][i].of <= m \/ c \in Pipelined})
<1>1. Functions /\ Connection(c)
  BY DEF IInv
<1>2. /\ ~gone[c] /\ asked[c] < Len(Does[c]) /\ ~Failed(c) /\ asked[c] <= Len(got[c])
      /\ asked' = [asked EXCEPT ![c] = m]
      /\ written' = [written EXCEPT ![c] = n]
      /\ UNCHANGED <<conn, gone, running, serving, received, from, thread, current, replies, runs,
                     got>>
  <2>1. asked[c] \in Nat /\ Len(got[c]) \in Nat
    BY <1>1 DEF Functions
  <2> QED
    BY <2>1 DEF Call, InCall, server, Failed
<1>3. /\ asked[c] \in Nat /\ m \in Nat /\ from[c] \in Nat /\ received[c] \in Nat
      /\ written[c] \in Nat /\ Len(got[c]) \in Nat
      /\ Len(Stream[c]) \in Nat /\ Len(Does[c]) \in Nat
      /\ written[c] <= Len(Stream[c])
  BY <1>1, StreamFacts DEF Functions, Connection, Bounds
<1>4. n \in Nat /\ n <= Len(Stream[c]) /\ written[c] <= n
  <2>1. CASE c \in Pipelined
    <3>1. {i \in DOMAIN Stream[c] : Stream[c][i].of <= m \/ c \in Pipelined} = 1 .. Len(Stream[c])
      BY <2>1, StreamFacts
    <3>2. n = Cardinality(1 .. Len(Stream[c]))
      BY <3>1
    <3> DEFINE L == Len(Stream[c])
    <3>3. L \in Nat
      BY <1>3
    <3> HIDE DEF n, L
    <3>4. Cardinality(1 .. L) = L
      BY <3>3, FS_Interval
    <3>5. n = L
      BY <3>2, <3>4 DEF L
    <3> QED
      BY <1>3, <3>5 DEF L
  <2>2. CASE c \notin Pipelined
    <3> DEFINE o == Cardinality({i \in DOMAIN Stream[c] : Stream[c][i].of <= asked[c]})
    <3>1. n = Cardinality({i \in DOMAIN Stream[c] : Stream[c][i].of <= m})
      BY <2>2
    <3>2. n \in Nat /\ n <= Len(Stream[c]) /\ {i \in DOMAIN Stream[c] : Stream[c][i].of <= m} = 1 .. n
      BY <1>3, <3>1, FirstUnits
    <3>3. o \in Nat /\ {i \in DOMAIN Stream[c] : Stream[c][i].of <= asked[c]} = 1 .. o
      BY <1>3, FirstUnits
    <3>4. written[c] = o
      BY <1>1, <1>2, <2>2 DEF Connection, OneByOne, Waiting
    <3> HIDE DEF o, n
    <3>5. 1 .. o \subseteq 1 .. n
      <4> SUFFICES ASSUME NEW i \in 1 .. o
                   PROVE  i \in {h \in DOMAIN Stream[c] : Stream[c][h].of <= m}
        BY <3>2
      <4>1. i \in DOMAIN Stream[c] /\ Stream[c][i].of <= asked[c]
        BY <3>3
      <4>2. Stream[c][i].of \in Nat
        BY <4>1, StreamFacts
      <4> QED
        BY <1>3, <4>1, <4>2
    <3> QED
      BY <3>2, <3>3, <3>4, <3>5
  <2> QED
    BY <2>1, <2>2
<1> HIDE DEF n
<1>5. Functions' /\ asked'[c] = m /\ written'[c] = n
  BY <1>1, <1>2, <1>3, <1>4 DEF Functions
<1>6. Bounds(c)'
  BY <1>1, <1>2, <1>3, <1>4, <1>5 DEF Connection, Bounds
<1>7. /\ Lines(c)' /\ Working(c)' /\ Parsing(c)' /\ InOrder(c)' /\ OnceInOrder(c)'
      /\ WholeRan(c)' /\ ValueRan(c)'
  BY <1>1, <1>2
  DEF Connection, Lines, Working, Parsing, EnoughBody, Document, Came, Alive, InOrder, Settled,
      OnceInOrder, WholeRan, ValueRan
<1>8. ASSUME c \in Waiting
      PROVE  OneByOne(c)'
  <2>1. OneByOne(c) /\ Failed(c)' = Failed(c)
    BY <1>1, <1>2, <1>8 DEF Connection, Failed
  <2>2. replies[c] \in Answers /\ Len(replies[c]) \in Nat
    BY <1>1, AnswersFacts DEF Functions
  <2>3. /\ Len(got[c]) = asked[c] /\ Len(replies[c]) = asked[c]
    BY <1>2, <1>3, <2>1, <2>2 DEF OneByOne
  <2>4. written[c] = Cardinality({i \in DOMAIN Stream[c] : Stream[c][i].of <= asked[c]})
    BY <1>2, <2>1 DEF OneByOne
  <2>5. {i \in DOMAIN Stream[c] : Stream[c][i].of <= asked[c]} = 1 .. written[c]
    BY <1>3, <2>4, FirstUnits
  <2>6. n = Cardinality({i \in DOMAIN Stream[c] : Stream[c][i].of <= m})
    BY <1>8 DEF n, Waiting
  <2>7. {i \in DOMAIN Stream[c] : Stream[c][i].of <= m} = 1 .. n
    BY <1>3, <2>6, FirstUnits
  <2>8. ASSUME Alive(c), NEW j \in from[c] + 1 .. n
        PROVE  Stream[c][j].of = m
    <3>1. j \in 1 .. n /\ j \in 1 .. Len(Stream[c])
      BY <1>3, <1>4, <2>8
    <3>2. Stream[c][j].of <= m /\ Stream[c][j].of \in Nat
      BY <2>7, <3>1, StreamFacts
    <3>3. j \notin 1 .. written[c]
      <4>1. Stream[c][j].of # asked[c] \/ j \notin from[c] + 1 .. written[c]
        BY <2>1, <2>2, <2>3, <2>8, <1>3 DEF OneByOne
      <4>2. j \notin from[c] + 1 .. written[c]
        BY <1>3, <2>1, <2>2, <2>3, <2>8 DEF OneByOne
      <4> QED
        BY <1>3, <1>4, <2>8, <4>2
    <3>4. ~(Stream[c][j].of <= asked[c])
      BY <2>5, <3>1, <3>3, StreamFacts
    <3> QED
      BY <1>3, <3>2, <3>4
  <2>9. Alive(c)' = Alive(c)
    BY <1>2 DEF Alive
  <2>10. Len(got[c]) <= m /\ m <= Len(got[c]) + 1 /\ Len(replies[c]) <= m /\ Len(replies[c]) + 1 = m
    BY <1>3, <2>2, <2>3
  <2> HIDE DEF m
  <2> QED
    BY <1>2, <1>5, <2>1, <2>6, <2>8, <2>9, <2>10 DEF OneByOne
<1> QED
  BY <1>5, <1>6, <1>7, <1>8 DEF Connection, Waiting

LEMMA CallerKeeps ==
  ASSUME IInv, NEW c \in Client, Caller(c)
  PROVE  Functions' /\ Connection(c)'
<1>1. Functions /\ Connection(c)
  BY DEF IInv
<1>2. PICK r \in Says :
        /\ got' = [got EXCEPT ![c] = Append(@, r)]
        /\ r = "exception" => conn[c] \in {"closed", "reset"}
        /\ r # "exception" => Len(replies[c]) > Len(got[c])
        /\ InCall(c)
  <2>1. CASE RecvAnswer(c)
    <3>1. replies[c] \in Answers /\ got[c] \in Seq(Says)
      BY <1>1 DEF Functions
    <3>2. Len(got[c]) + 1 \in 1 .. Len(replies[c])
      BY <2>1, <3>1, AnswersFacts DEF RecvAnswer
    <3>3. Answer(c).says \in {"value", "fault"}
      BY <3>1, <3>2, AnswersFacts DEF Answer
    <3> QED
      BY <2>1, <3>3 DEF RecvAnswer, Comes, Says
  <2>2. CASE NoAnswer(c)
    BY <2>2 DEF NoAnswer, Comes, Says
  <2> QED
    BY <2>1, <2>2 DEF Caller
<1>3. UNCHANGED <<conn, gone, written, running, serving, received, from, thread, current, replies,
                  runs, asked>>
  BY DEF Caller, RecvAnswer, NoAnswer, Comes, network, server
<1> DEFINE g == got[c]
<1>4. /\ g \in Seq(Says) /\ Len(g) \in Nat /\ asked[c] \in Nat /\ Len(replies[c]) \in Nat
      /\ got'[c] = Append(g, r)
  BY <1>1, <1>2, AnswersFacts DEF Functions
<1>5. /\ Append(g, r) \in Seq(Says) /\ Len(Append(g, r)) = Len(g) + 1
      /\ DOMAIN Append(g, r) = 1 .. Len(g) + 1
      /\ \A i \in 1 .. Len(g) : Append(g, r)[i] = g[i]
      /\ Append(g, r)[Len(g) + 1] = r
  BY <1>4, AppendProperties, LenProperties
<1>6. Functions'
  BY <1>1, <1>2, <1>3, <1>5 DEF Functions
<1>7. /\ Bounds(c)' /\ Lines(c)' /\ Working(c)' /\ Parsing(c)' /\ InOrder(c)' /\ OnceInOrder(c)'
      /\ WholeRan(c)' /\ ValueRan(c)'
  BY <1>1, <1>3
  DEF Connection, Bounds, Lines, Working, Parsing, EnoughBody, Document, Came, Alive, InOrder,
      Settled, OnceInOrder, WholeRan, ValueRan
<1>8. ASSUME c \in Waiting
      PROVE  OneByOne(c)'
  <2>1. OneByOne(c)
    BY <1>1, <1>8 DEF Connection
  <2>2. asked[c] > Len(g) /\ Len(got'[c]) = Len(g) + 1
    BY <1>2, <1>4, <1>5 DEF InCall
  <2>3. Len(got'[c]) <= asked[c] /\ asked[c] <= Len(got'[c]) + 1
    BY <1>4, <2>1, <2>2 DEF OneByOne
  <2>4. Failed(c)' <=> Failed(c) \/ r = "exception"
    <3>1. DOMAIN g = 1 .. Len(g)
      BY <1>4
    <3> QED
      BY <1>4, <1>5, <3>1 DEF Failed
  <2>5. ~Failed(c)' => Len(got'[c]) <= Len(replies[c])
    BY <1>2, <1>4, <2>2, <2>4
  <2>6. Failed(c)' => conn[c] \in {"closed", "reset"}
    BY <1>2, <2>1, <2>4 DEF OneByOne
  <2>7. Alive(c)' = Alive(c)
    BY <1>3 DEF Alive
  <2> QED
    BY <1>3, <2>1, <2>3, <2>5, <2>6, <2>7 DEF OneByOne
<1> QED
  BY <1>6, <1>7, <1>8 DEF Connection, Waiting

LEMMA LeaveKeeps ==
  ASSUME IInv, NEW c \in Client, Leave(c)
  PROVE  Functions' /\ Connection(c)'
<1>1. Functions /\ Connection(c)
  BY DEF IInv
<1>2. PICK n \in received[c] .. written[c] : written' = [written EXCEPT ![c] = n]
  BY DEF Leave
<1>3. /\ ~gone[c] /\ gone' = [gone EXCEPT ![c] = TRUE]
      /\ UNCHANGED <<conn, running, serving, received, from, thread, current, replies, runs,
                     asked, got>>
  BY DEF Leave, server, client
<1>4. /\ received[c] \in Nat /\ written[c] \in Nat /\ n \in Nat /\ from[c] \in Nat
      /\ received[c] <= n /\ n <= written[c] /\ written'[c] = n /\ gone'[c] = TRUE
  BY <1>1, <1>2, <1>3 DEF Functions
<1>5. Functions'
  BY <1>1, <1>2, <1>3, <1>4 DEF Functions
<1>6. Alive(c)' => Alive(c)
  BY <1>3 DEF Alive
<1>7. Bounds(c)'
  BY <1>1, <1>3, <1>4, StreamFacts DEF Connection, Bounds
<1>8. /\ Lines(c)' /\ Working(c)' /\ Parsing(c)' /\ InOrder(c)' /\ OnceInOrder(c)'
      /\ WholeRan(c)' /\ ValueRan(c)'
  BY <1>1, <1>3, <1>6
  DEF Connection, Lines, Working, Parsing, EnoughBody, Document, Came, InOrder, Settled,
      OnceInOrder, WholeRan, ValueRan
<1>9. ASSUME c \in Waiting
      PROVE  OneByOne(c)'
  <2>1. OneByOne(c)
    BY <1>1, <1>9 DEF Connection
  <2>2. \A j \in from[c] + 1 .. n : j \in from[c] + 1 .. written[c]
    BY <1>4
  <2> QED
    BY <1>3, <1>4, <1>6, <2>1, <2>2 DEF OneByOne, Failed
<1> QED
  BY <1>5, <1>7, <1>8, <1>9 DEF Connection, Waiting

-----------------------------------------------------------------------------
LEMMA InitKeeps == Init => IInv
<1> SUFFICES ASSUME Init
             PROVE  IInv
  OBVIOUS
<1>1. Functions
  BY DEF Init, Functions, Answers
<1>2. ASSUME NEW c \in Client
      PROVE  Connection(c)
  <2>1. /\ conn[c] = "none" /\ thread[c] = "none" /\ gone[c] = FALSE
        /\ from[c] = 0 /\ received[c] = 0 /\ written[c] = 0 /\ current[c] = 0 /\ asked[c] = 0
        /\ runs[c] = {} /\ got[c] = <<>> /\ replies[c] = <<>>
    BY <1>2 DEF Init
  <2>2. Len(Stream[c]) \in Nat /\ Len(Does[c]) \in Nat
    BY StreamFacts
  <2>3. 0 = Cardinality({i \in DOMAIN Stream[c] : Stream[c][i].of <= 0})
    <3>1. {i \in DOMAIN Stream[c] : Stream[c][i].of <= 0} = {}
      BY StreamFacts
    <3> QED
      BY <3>1, FS_EmptySet
  <2> QED
    BY <2>1, <2>2, <2>3
    DEF Connection, Bounds, Lines, Working, Parsing, Alive, InOrder, Settled, OnceInOrder,
        WholeRan, ValueRan, OneByOne, Failed
<1> QED
  BY <1>1, <1>2 DEF IInv

LEMMA NextKeeps ==
  ASSUME IInv, [Next]_vars
  PROVE  IInv'
<1>1. ASSUME NEW c \in Client,
             Connect(c) \/ Accept(c) \/ Thread(c) \/ Call(c) \/ Caller(c) \/ Leave(c)
      PROVE  IInv'
  <2>1. Functions' /\ Connection(c)'
    BY <1>1, ConnectKeeps, AcceptKeeps, RecvHeadersKeeps, RecvBodyKeeps, RecvNothingKeeps,
       ExecuteKeeps, CallKeeps, CallerKeeps, LeaveKeeps DEF Thread
  <2> QED
    BY <1>1, <2>1, OthersLeftAlone, OneClient
<1> QED
  BY <1>1, ServeKeeps, CloseKeeps DEF Next

\* The state of every connection stays in order, whatever the clients do.
THEOREM Invariance == Spec => []IInv
  BY InitKeeps, NextKeeps, PTL DEF Spec

\* Every variable keeps its type.
THEOREM Typing == Spec => []TypeOK
<1>1. IInv => TypeOK
  <2> SUFFICES ASSUME IInv, NEW c \in Client
               PROVE  /\ from[c] \in Nat /\ received[c] \in Nat /\ written[c] \in Nat
                      /\ from[c] <= received[c] /\ received[c] <= written[c]
                      /\ written[c] <= Len(Stream[c])
                      /\ current[c] \in DOMAIN Does[c] \cup {0}
                      /\ asked[c] \in 0 .. Len(Does[c])
                      /\ runs[c] \subseteq DOMAIN Does[c]
                      /\ got[c] \in Seq(Says)
                      /\ replies[c] \in Seq([of : DOMAIN Does[c], says : {"value", "fault"}])
    BY DEF TypeOK, IInv, Functions, Says
  <2>1. Bounds(c) /\ Functions
    BY DEF IInv, Connection
  <2>2. /\ from[c] \in Nat /\ received[c] \in Nat /\ written[c] \in Nat /\ asked[c] \in Nat
        /\ got[c] \in Seq(Says) /\ replies[c] \in Answers
    BY <2>1 DEF Functions
  <2>3. asked[c] \in 0 .. Len(Does[c])
    BY <2>1, <2>2, StreamFacts DEF Bounds
  <2>4. replies[c] \in Seq([of : DOMAIN Does[c], says : {"value", "fault"}])
    <3> DEFINE R == [of : DOMAIN Does[c], says : {"value", "fault"}]
               Q == [of : Nat, says : {"value", "fault"}]
    <3>1. replies[c] \in Seq(Q)
      BY <2>2 DEF Answers
    <3>2. Len(replies[c]) \in Nat /\ replies[c] \in [1 .. Len(replies[c]) -> Q]
      <4> HIDE DEF Q
      <4> QED
        BY <3>1, LenProperties
    <3>3. \A i \in 1 .. Len(replies[c]) : replies[c][i] \in R
      <4> SUFFICES ASSUME NEW i \in 1 .. Len(replies[c])
                   PROVE  replies[c][i] \in R
        OBVIOUS
      <4>1. replies[c][i] \in Q /\ i \in DOMAIN replies[c]
        BY <3>2
      <4>2. replies[c][i].of \in DOMAIN Does[c]
        BY <2>1, <4>1 DEF Bounds
      <4> QED
        BY <4>1, <4>2
    <3> HIDE DEF R, Q
    <3>4. replies[c] \in [1 .. Len(replies[c]) -> R]
      BY <3>2, <3>3
    <3>5. replies[c] \in Seq(R)
      BY <3>2, <3>4
    <3> QED
      BY <3>5 DEF R
  <2> QED
    BY <2>1, <2>2, <2>3, <2>4 DEF Bounds
<1> QED
  BY <1>1, Invariance, PTL

\* A procedure never runs for a request whose document has not come whole, however
\* the bytes are cut and whenever a client leaves; and while its client is there,
\* for none of which any byte is missing.
THEOREM NothingUnfinishedRuns == Spec => []OnlyWholeRequests
<1>1. IInv => OnlyWholeRequests
  BY DEF IInv, Connection, WholeRan, EnoughBody, Document, Came, OnlyWholeRequests
<1> QED
  BY <1>1, Invariance, PTL

\* Answers keep the order of the requests and no request has two, also for clients
\* that send ahead.
THEOREM AnswersInOrder == Spec => []AnsweredOnceInOrder
<1>1. IInv => AnsweredOnceInOrder
  BY DEF IInv, Connection, OnceInOrder, AnsweredOnceInOrder
<1> QED
  BY <1>1, Invariance, PTL

-----------------------------------------------------------------------------
(***************************************************************************)
(* The answers to clients that wait are right. The thread's buffer begins  *)
(* where a request does, so that it ends only over a character it cannot   *)
(* decode, or a client that has gone.                                      *)
(***************************************************************************)
RightSoFar(c) ==
  /\ \A i \in DOMAIN replies[c] :
       gone[c] \/ Multibyte(c, i) \/ replies[c][i].says = Expected(c, i)
  /\ Alive(c) /\ from[c] # 0 /\ from[c] < Len(Stream[c]) =>
       Stream[c][from[c]].of # Stream[c][from[c] + 1].of
  /\ thread[c] = "done" => gone[c] \/ Multibyte(c, asked[c])
  /\ conn[c] = "reset" => ~running
  /\ \A k \in DOMAIN got[c] : Multibyte(c, k) \/ ~running \/ got[c][k] = Expected(c, k)

AllRight == \A c \in Waiting : RightSoFar(c)

LEMMA SameRight ==
  ASSUME NEW c \in Client, RightSoFar(c), UNCHANGED connectionVars(c),
         running' = running \/ ~running'
  PROVE  RightSoFar(c)'
BY DEF connectionVars, RightSoFar, Alive

\* where a thread that serves a client that waits stands
LEMMA AtCall ==
  ASSUME IInv, NEW c \in Waiting, Alive(c), conn[c] = "open",
         NEW i \in Nat, from[c] < i, i <= written[c]
  PROVE  /\ c \in Client
         /\ asked[c] \in Nat \ {0} /\ asked[c] = Len(replies[c]) + 1
         /\ from[c] \in Nat /\ from[c] + 1 \in 1 .. Len(Stream[c]) /\ i \in 1 .. Len(Stream[c])
         /\ \A j \in from[c] + 1 .. i : Stream[c][j].of = asked[c]
<1>1. Functions /\ Connection(c) /\ OneByOne(c) /\ c \in Client
  BY DEF IInv, Connection, Waiting
<1>2. /\ from[c] \in Nat /\ written[c] \in Nat /\ Len(Stream[c]) \in Nat
      /\ written[c] <= Len(Stream[c]) /\ asked[c] \in Nat /\ Len(replies[c]) \in Nat
  BY <1>1, StreamFacts, AnswersFacts DEF Functions, Connection, Bounds
<1>3. /\ i \in from[c] + 1 .. written[c] /\ i \in 1 .. Len(Stream[c])
      /\ from[c] + 1 \in 1 .. Len(Stream[c])
      /\ \A j \in from[c] + 1 .. i : j \in from[c] + 1 .. written[c]
  BY <1>2
<1> QED
  BY <1>1, <1>2, <1>3 DEF OneByOne

LEMMA ReplyRight ==
  ASSUME IInv, NEW c \in Waiting, RightSoFar(c), conn[c] = "open",
         NEW k \in Nat, NEW says, NEW goesOn \in BOOLEAN,
         Reply(c, k, says, goesOn), k = asked[c], k = Len(replies[c]) + 1,
         gone[c] \/ Multibyte(c, k) \/ (says = Expected(c, k) /\ goesOn),
         Alive(c)' /\ from'[c] # 0 /\ from'[c] < Len(Stream[c]) =>
           Stream[c][from'[c]].of # Stream[c][from'[c] + 1].of,
         UNCHANGED <<running, gone[c], asked[c], got[c]>>
  PROVE  RightSoFar(c)'
<1> DEFINE n == Len(replies[c])
<1>1. Functions /\ c \in Client
  BY DEF IInv, Waiting
<1>2. replies[c] \in Answers /\ n \in Nat /\ DOMAIN replies[c] = 1 .. n
  BY <1>1, AnswersFacts DEF Functions
<1>3. \/ /\ replies'[c] = Append(replies[c], [of |-> k, says |-> says])
         /\ thread'[c] = (IF goesOn THEN "headers" ELSE "done")
         /\ conn'[c] = (IF goesOn THEN "open" ELSE "closed")
      \/ gone[c] /\ replies'[c] = replies[c] /\ thread'[c] = "done" /\ conn'[c] = "closed"
  BY <1>1 DEF Reply, Functions
<1>4. \A i \in DOMAIN replies'[c] :
        gone[c] \/ Multibyte(c, i) \/ replies'[c][i].says = Expected(c, i)
  <2>1. CASE gone[c]
    BY <2>1
  <2>2. CASE ~gone[c]
    <3>1. /\ DOMAIN replies'[c] = 1 .. n + 1
          /\ \A i \in 1 .. n : replies'[c][i] = replies[c][i]
          /\ replies'[c][n + 1].says = says
      BY <1>2, <1>3, <2>2, OneMoreAnswer
    <3> SUFFICES ASSUME NEW i \in 1 .. n + 1
                 PROVE  Multibyte(c, i) \/ replies'[c][i].says = Expected(c, i)
      BY <3>1
    <3>2. CASE i = n + 1
      BY <2>2, <3>1, <3>2 DEF RightSoFar
    <3>3. CASE i # n + 1
      <4>1. i \in 1 .. n
        BY <1>2, <3>3
      <4> QED
        BY <1>2, <2>2, <3>1, <4>1 DEF RightSoFar
    <3> QED
      BY <3>2, <3>3
  <2> QED
    BY <2>1, <2>2
<1>5. thread'[c] = "done" => gone[c] \/ Multibyte(c, asked[c])
  BY <1>3
<1>6. conn'[c] # "reset"
  BY <1>3
<1> QED
  BY <1>4, <1>5, <1>6 DEF RightSoFar

\* One action about a client that waits.
LEMMA ThreadRight ==
  ASSUME IInv, NEW c \in Waiting, RightSoFar(c), Thread(c)
  PROVE  RightSoFar(c)'
<1>1. Functions /\ Connection(c) /\ c \in Client
  BY DEF IInv, Waiting
<1>2. received[c] \in Nat /\ written[c] \in Nat /\ from[c] \in Nat /\ Len(Stream[c]) \in Nat
  BY <1>1, StreamFacts DEF Functions
<1>3. CASE RecvHeaders(c)
  <2>1. PICK i \in received[c] + 1 .. written[c] :
          received' = [received EXCEPT ![c] = i] /\ TakeHeaders(c, i)
    BY <1>3 DEF RecvHeaders
  <2> DEFINE first == Stream[c][from[c] + 1]
             k == first.of
  <2>2. thread[c] = "headers" /\ UNCHANGED <<running, gone, asked, got>>
    BY <1>3 DEF RecvHeaders, client
  <2>3. i \in Nat /\ from[c] < i /\ i <= written[c] /\ received[c] # written[c]
    BY <1>1, <1>2, <2>1 DEF Connection, Bounds
  <2>4. Alive(c) /\ conn[c] = "open"
    BY <1>1, <2>2, <2>3 DEF Alive, Connection, Lines
  <2>5. /\ asked[c] \in Nat \ {0} /\ asked[c] = Len(replies[c]) + 1
        /\ from[c] + 1 \in 1 .. Len(Stream[c]) /\ i \in 1 .. Len(Stream[c])
        /\ \A j \in from[c] + 1 .. i : Stream[c][j].of = asked[c]
    BY <2>3, <2>4, AtCall
  <2>6. k = asked[c] /\ Stream[c][i].of = asked[c]
    BY <1>2, <2>3, <2>5
  <2>7. first.kind = "P"
    <3>1. from[c] + 1 = 1 \/ Stream[c][from[c]].of # first.of
      BY <1>2, <2>4, <2>5 DEF RightSoFar
    <3> DEFINE h == from[c] + 1
    <3>2. h \in DOMAIN Stream[c] /\ h - 1 = from[c]
      <4>1. h \in 1 .. Len(Stream[c]) /\ h - 1 = from[c]
        BY <1>2, <2>5
      <4> HIDE DEF h
      <4> QED
        BY <1>1, <4>1, StreamFacts
    <3>3. h = 1 \/ Stream[c][h - 1].of # Stream[c][h].of
      BY <3>1, <3>2
    <3>4. first = Stream[c][h]
      OBVIOUS
    <3> HIDE DEF h, first
    <3>5. \A j \in DOMAIN Stream[c] :
            j = 1 \/ Stream[c][j - 1].of # Stream[c][j].of => Stream[c][j].kind = "P"
      BY WaitersAssumption
    <3>6. Stream[c][h].kind = "P"
      BY <3>2, <3>3, <3>5
    <3> QED
      BY <3>4, <3>6
  <2>8. CASE ~Decodes(c, i) /\ Reply(c, k, "fault", FALSE)
    <3>1. Stream[c][i].kind = "u"
      BY <2>7, <2>8 DEF Decodes
    <3>2. Multibyte(c, k)
      BY <1>1, <2>5, <2>6, <3>1, StreamFacts DEF Multibyte
    <3>3. ~Alive(c)'
      BY <1>1, <2>8 DEF Reply, Alive, Functions
    <3>4. UNCHANGED <<running, gone[c], asked[c], got[c]>>
      BY <2>2
    <3> HIDE DEF k
    <3> QED
      BY <2>4, <2>5, <2>6, <2>8, <3>2, <3>3, <3>4, ReplyRight
  <2>9. CASE UNCHANGED <<conn, from, replies>> /\ thread'[c] # "done"
    <3>1. Alive(c)' => Alive(c)
      BY <2>4
    <3> QED
      BY <2>2, <2>9, <3>1 DEF RightSoFar
  <2>10. TakeHeaders(c, i) => \/ ~Decodes(c, i) /\ Reply(c, k, "fault", FALSE)
                              \/ UNCHANGED <<conn, from, replies>> /\ thread'[c] # "done"
    BY <1>1, <2>2, <2>7 DEF TakeHeaders, Functions
  <2> QED
    BY <2>1, <2>8, <2>9, <2>10
<1>4. CASE RecvBody(c)
  <2>1. /\ UNCHANGED <<conn, from, replies, running, gone, asked, got>>
        /\ thread[c] = "body" /\ thread'[c] # "done"
    BY <1>1, <1>4 DEF RecvBody, network, client, Functions
  <2>2. Alive(c)
    BY <2>1 DEF Alive
  <2> QED
    BY <2>1, <2>2 DEF RightSoFar
<1>5. CASE RecvNothing(c)
  <2>1. gone[c] /\ received[c] = written[c] /\ UNCHANGED <<running, gone, asked, got, received, written>>
    BY <1>5 DEF RecvNothing, client
  <2>2. CASE thread'[c] = "parse"
    <3>1. thread[c] = "body" /\ UNCHANGED <<conn, from, replies>>
      BY <1>1, <1>5, <2>2 DEF RecvNothing, Reply, Functions
    <3>2. Alive(c)
      BY <3>1 DEF Alive
    <3> QED
      BY <2>1, <2>2, <3>1, <3>2 DEF RightSoFar
  <2>3. CASE thread'[c] # "parse"
    <3>1. thread'[c] \in {"headers", "done"} /\ conn'[c] # "reset"
      BY <1>1, <1>5, <2>3 DEF RecvNothing, Reply, Functions, Connection, Lines
    <3>2. ~Alive(c)'
      BY <2>1, <3>1 DEF Alive
    <3> QED
      BY <2>1, <3>1, <3>2 DEF RightSoFar
  <2> QED
    BY <2>2, <2>3
<1>6. CASE Execute(c)
  <2> DEFINE k == current[c]
             says == IF Does[c][k] = "value" THEN "value" ELSE "fault"
  <2>1. /\ Reply(c, k, says, TRUE) /\ EmptyBuffer(c, received[c]) /\ thread[c] = "parse"
        /\ UNCHANGED <<running, gone, asked, got>>
    BY <1>6 DEF Execute, client
  <2>2. /\ from[c] < received[c] /\ received[c] <= written[c] /\ conn[c] = "open" /\ Alive(c)
        /\ k = Stream[c][from[c] + 1].of
        /\ EnoughBody(c, k, received[c]) \/ (gone[c] /\ received[c] = written[c])
    BY <1>1, <2>1 DEF Connection, Bounds, Lines, Working, Parsing, Alive
  <2>3. /\ asked[c] \in Nat \ {0} /\ asked[c] = Len(replies[c]) + 1
        /\ received[c] \in 1 .. Len(Stream[c])
        /\ \A j \in from[c] + 1 .. received[c] : Stream[c][j].of = asked[c]
    BY <1>2, <2>2, AtCall
  <2>4. k = asked[c] /\ Stream[c][received[c]].of = k
    BY <1>2, <2>2, <2>3
  <2>5. from'[c] = received[c]
    BY <1>1, <2>1 DEF EmptyBuffer, Functions
  <2>6. Alive(c)' /\ received[c] < Len(Stream[c]) => Stream[c][received[c] + 1].of # k
    <3>0. Alive(c)' => ~(gone[c] /\ received[c] = written[c])
      BY <1>1, <1>6, <2>1 DEF Execute, Reply, Alive, Functions
    <3>1. received[c] < Len(Stream[c]) => received[c] + 1 \in DOMAIN Stream[c]
      BY <1>1, <1>2, StreamFacts
    <3> QED
      BY <1>2, <2>2, <3>0, <3>1 DEF EnoughBody
  <2>7. says = Expected(c, k)
    BY DEF Expected
  <2>8. UNCHANGED <<running, gone[c], asked[c], got[c]>>
    BY <2>1
  <2> HIDE DEF k, says
  <2> QED
    BY <2>1, <2>2, <2>3, <2>4, <2>5, <2>6, <2>7, <2>8, ReplyRight
<1> QED
  BY <1>3, <1>4, <1>5, <1>6 DEF Thread

LEMMA ClientRight ==
  ASSUME IInv, NEW c \in Waiting, RightSoFar(c),
         Connect(c) \/ Accept(c) \/ Call(c) \/ Caller(c) \/ Leave(c)
  PROVE  RightSoFar(c)'
<1>1. Functions /\ Connection(c) /\ OneByOne(c) /\ c \in Client
  BY DEF IInv, Connection, Waiting
<1>2. \A a, b \in Nat : a <= b /\ Multibyte(c, a) => Multibyte(c, b)
  <2> SUFFICES ASSUME NEW a \in Nat, NEW b \in Nat, a <= b,
                      NEW i \in DOMAIN Stream[c], Stream[c][i].of <= a, Stream[c][i].kind = "u"
               PROVE  Multibyte(c, b)
    BY DEF Multibyte
  <2>1. Stream[c][i].of \in Nat
    BY <1>1, StreamFacts
  <2>2. Stream[c][i].of <= b
    BY <2>1
  <2> QED
    BY <2>2 DEF Multibyte
<1>3. CASE Connect(c) \/ Accept(c) \/ Leave(c)
  <2>1. /\ UNCHANGED <<running, from, replies, asked, got>>
        /\ gone[c] => gone'[c]
    BY <1>1, <1>3 DEF Connect, Accept, Leave, server, client, Functions
  <2>2. conn'[c] = "reset" => conn[c] = "reset"
    BY <1>1, <1>3 DEF Connect, Accept, Leave, Functions
  <2>3. thread'[c] = thread[c] \/ (thread'[c] = "headers" /\ thread[c] = "none")
    BY <1>1, <1>3 DEF Connect, Accept, Leave, server, Functions, Connection, Lines
  <2>4. Alive(c)' => Alive(c)
    <3>1. thread'[c] # "done" => thread[c] # "done"
      BY <2>3
    <3>2. CASE Leave(c)
      BY <3>1, <3>2 DEF Alive, Leave
    <3>3. CASE Connect(c) \/ Accept(c)
      BY <1>1, <2>3, <3>3 DEF Alive, Connect, Accept, server
    <3> QED
      BY <1>3, <3>2, <3>3
  <2>5. thread'[c] = "done" => thread[c] = "done"
    BY <2>3
  <2> QED
    BY <2>1, <2>2, <2>4, <2>5 DEF RightSoFar
<1>4. CASE Call(c)
  <2>1. /\ UNCHANGED <<running, conn, gone, from, thread, received, replies, got>> /\ ~gone[c]
        /\ asked'[c] = asked[c] + 1 /\ asked[c] \in Nat
    BY <1>1, <1>4 DEF Call, server, Functions
  <2>2. Multibyte(c, asked[c]) => Multibyte(c, asked'[c])
    BY <1>2, <2>1
  <2>3. Alive(c)' => Alive(c)
    BY <2>1 DEF Alive
  <2> QED
    BY <2>1, <2>2, <2>3 DEF RightSoFar
<1>5. CASE Caller(c)
  <2> DEFINE g == got[c]
             k == Len(g) + 1
  <2>1. /\ UNCHANGED <<running, conn, gone, from, thread, received, written, replies, asked>>
        /\ InCall(c) /\ ~gone[c]
    BY <1>5 DEF Caller, RecvAnswer, NoAnswer, Comes, network, server
  <2>2. g \in Seq(Says) /\ Len(g) \in Nat /\ asked[c] \in Nat
        /\ replies[c] \in Answers /\ Len(replies[c]) \in Nat
    BY <1>1, AnswersFacts DEF Functions
  <2>3. asked[c] = k
    BY <1>1, <2>1, <2>2 DEF OneByOne, InCall
  <2>4. PICK r \in Says : got' = [got EXCEPT ![c] = Append(@, r)]
                          /\ (Multibyte(c, k) \/ ~running \/ r = Expected(c, k))
    <3>1. CASE RecvAnswer(c)
      <4>1. k \in 1 .. Len(replies[c]) /\ DOMAIN replies[c] = 1 .. Len(replies[c])
        BY <2>2, <3>1, AnswersFacts DEF RecvAnswer
      <4>2. Answer(c).says \in Says
        BY <2>2, <4>1, AnswersFacts DEF Answer, Says
      <4>3. Multibyte(c, k) \/ Answer(c).says = Expected(c, k)
        BY <2>1, <4>1 DEF RightSoFar, Answer
      <4> QED
        BY <3>1, <4>2, <4>3 DEF RecvAnswer, Comes
    <3>2. CASE NoAnswer(c)
      <4>1. conn[c] = "closed" \/ conn[c] = "reset"
        BY <3>2 DEF NoAnswer
      <4>2. Multibyte(c, k) \/ ~running
        BY <1>1, <2>1, <2>3, <4>1 DEF Connection, Lines, RightSoFar
      <4> QED
        BY <3>2, <4>2 DEF NoAnswer, Comes, Says
    <3> QED
      BY <1>5, <3>1, <3>2 DEF Caller
  <2>5. got'[c] = Append(g, r)
    BY <1>1, <2>4 DEF Functions
  <2>6. /\ DOMAIN Append(g, r) = 1 .. k /\ Append(g, r)[k] = r
        /\ \A i \in 1 .. Len(g) : Append(g, r)[i] = g[i]
        /\ DOMAIN g = 1 .. Len(g)
    BY <2>2, AppendProperties, LenProperties
  <2>7. \A i \in 1 .. k : i = k \/ i \in 1 .. Len(g)
    BY <2>2
  <2>8. \A i \in DOMAIN got'[c] : Multibyte(c, i) \/ ~running \/ got'[c][i] = Expected(c, i)
    BY <2>4, <2>5, <2>6, <2>7 DEF RightSoFar
  <2>9. Alive(c)' => Alive(c)
    BY <2>1 DEF Alive
  <2> QED
    BY <2>1, <2>8, <2>9 DEF RightSoFar
<1> QED
  BY <1>3, <1>4, <1>5

LEMMA AllRightKept ==
  ASSUME IInv, AllRight, [Next]_vars
  PROVE  AllRight'
<1> SUFFICES ASSUME NEW d \in Waiting
             PROVE  RightSoFar(d)'
  BY DEF AllRight
<1>1. RightSoFar(d) /\ d \in Client
  BY DEF AllRight, Waiting
<1>2. CASE Serve \/ AcceptFails
  <2>1. /\ UNCHANGED <<running, gone, received, written, from, thread, replies, asked, got>>
        /\ \/ UNCHANGED conn
           \/ ~running /\ conn' = [c \in Client |-> IF conn[c] = "queued" THEN "reset" ELSE conn[c]]
    BY <1>2 DEF Serve, AcceptFails, EndServe, client
  <2>2. conn'[d] = "reset" => ~running \/ conn[d] = "reset"
    BY <1>1, <2>1
  <2> QED
    BY <1>1, <2>1, <2>2 DEF RightSoFar, Alive
<1>3. CASE Close \/ UNCHANGED vars
  <2>1. UNCHANGED connectionVars(d) /\ (running' = running \/ ~running')
    BY <1>3 DEF Close, vars, network, server, client, connectionVars
  <2> QED
    BY <1>1, <2>1, SameRight
<1>4. ASSUME NEW c \in Client,
             Connect(c) \/ Accept(c) \/ Thread(c) \/ Call(c) \/ Caller(c) \/ Leave(c)
      PROVE  RightSoFar(d)'
  <2>1. CASE c = d
    BY <1>1, <1>4, <2>1, ThreadRight, ClientRight
  <2>2. CASE c # d
    <3>1. UNCHANGED connectionVars(d)
      BY <1>1, <1>4, <2>2, NextKeeps, OthersLeftAlone DEF Next, IInv
    <3>2. running' = running
      BY <1>4
      DEF Connect, Accept, Thread, RecvHeaders, RecvBody, RecvNothing, Execute, Call, Caller,
          RecvAnswer, NoAnswer, Comes, Leave, server
    <3> QED
      BY <1>1, <3>1, <3>2, SameRight
  <2> QED
    BY <2>1, <2>2
<1> QED
  BY <1>2, <1>3, <1>4 DEF Next

\* A client that waits gets the right answer to every call, however the bytes are
\* cut and whatever is thrown away with the buffer, unless a character of several
\* bytes was among them or the server was closed.
THEOREM RightAnswers == Spec => []WaitersAreAnswered
<1>1. Init => AllRight
  BY DEF Init, AllRight, RightSoFar, Waiting, Alive
<1>2. IInv /\ AllRight /\ [Next]_vars => AllRight'
  BY AllRightKept
<1>3. AllRight => WaitersAreAnswered
  BY DEF AllRight, RightSoFar, WaitersAreAnswered
<1>4. Spec => []AllRight
  BY <1>1, <1>2, Invariance, PTL DEF Spec
<1> QED
  BY <1>3, <1>4, PTL

-----------------------------------------------------------------------------
(***************************************************************************)
(* Refinement: what a step looks like to the clients that wait.            *)
(***************************************************************************)
callVars == <<asked, runs, got>>

LEMMA SameCalls ==
  ASSUME \A c \in Waiting : UNCHANGED <<asked[c], runs[c], got[c]>>
  PROVE  UNCHANGED <<[c \in Waiting |-> asked[c]], [c \in Waiting |-> runs[c]],
                     [c \in Waiting |-> got[c]]>>
  OBVIOUS

LEMMA CallIsAsk ==
  ASSUME IInv, NEW c \in Waiting, Call(c)
  PROVE  RC!Ask(c)
<1>1. /\ asked[c] \in Nat /\ Len(got[c]) \in Nat /\ Len(got[c]) <= asked[c]
      /\ asked \in [Client -> Nat] /\ Waiting \subseteq Client
  <2>1. Functions /\ OneByOne(c) /\ c \in Client /\ Waiting \subseteq Client
    BY DEF IInv, Connection, Waiting
  <2>2. got[c] \in Seq(Says) /\ asked \in [Client -> Nat] /\ asked[c] \in Nat
    BY <2>1 DEF Functions
  <2> QED
    BY <2>1, <2>2 DEF OneByOne
<1>2. /\ asked' = [asked EXCEPT ![c] = @ + 1] /\ UNCHANGED <<runs, got>>
      /\ asked[c] = Len(got[c])
  BY <1>1 DEF Call, InCall, server
<1> QED
  BY <1>1, <1>2 DEF RC!Ask

LEMMA ExecuteIsRun ==
  ASSUME IInv, NEW c \in Waiting, Execute(c)
  PROVE  RC!Run(c) \/ UNCHANGED callVars
<1> DEFINE k == current[c]
<1>1. Functions /\ Connection(c) /\ OneByOne(c) /\ c \in Client /\ Waiting \subseteq Client
  BY DEF IInv, Connection, Waiting
<1>2. /\ runs' = [runs EXCEPT ![c] = IF Executes(Does[c][k]) THEN @ \cup {k} ELSE @]
      /\ UNCHANGED <<asked, got>> /\ thread[c] = "parse"
  BY DEF Execute, client
<1>3. CASE ~Executes(Does[c][k])
  BY <1>1, <1>2, <1>3 DEF callVars, Functions
<1>4. CASE Executes(Does[c][k])
  <2>1. /\ from[c] < received[c] /\ k = Stream[c][from[c] + 1].of /\ conn[c] = "open" /\ Alive(c)
    BY <1>1, <1>2 DEF Connection, Working, Lines, Alive
  <2>2. /\ from[c] + 1 \in from[c] + 1 .. written[c]
        /\ from[c] + 1 \in from[c] + 1 .. Len(Stream[c])
    <3>1. from[c] \in Nat /\ received[c] \in Nat /\ written[c] \in Nat /\ Len(Stream[c]) \in Nat
      BY <1>1, StreamFacts DEF Functions
    <3>2. received[c] <= written[c] /\ written[c] <= Len(Stream[c])
      BY <1>1 DEF Connection, Bounds
    <3> QED
      BY <2>1, <3>1, <3>2
  <2>3. k = asked[c] /\ Len(replies[c]) + 1 = asked[c] /\ Len(got[c]) <= Len(replies[c])
    BY <1>1, <2>1, <2>2 DEF OneByOne
  <2>4. k \notin runs[c]
    <3>1. InOrder(c)
      BY <1>1 DEF Connection
    <3>2. \A x \in runs[c] : x < k
      BY <2>1, <2>2, <3>1 DEF InOrder, Settled
    <3>3. k \in Nat
      BY <1>1 DEF Functions
    <3> QED
      BY <3>2, <3>3
  <2>5. asked[c] > Len(got[c])
    <3>1. asked[c] \in Nat /\ Len(got[c]) \in Nat /\ Len(replies[c]) \in Nat
      BY <1>1, AnswersFacts DEF Functions
    <3> QED
      BY <2>3, <3>1
  <2>6. runs' = [runs EXCEPT ![c] = @ \cup {asked[c]}] /\ runs \in [Client -> SUBSET Nat]
    BY <1>1, <1>2, <1>4, <2>3 DEF Functions
  <2> QED
    BY <1>1, <1>2, <2>3, <2>4, <2>5, <2>6 DEF RC!Run
<1> QED
  BY <1>3, <1>4

LEMMA CallerIsReturn ==
  ASSUME IInv, NEW c \in Waiting, Caller(c)
  PROVE  RC!Return(c)
<1>1. Functions /\ Connection(c) /\ OneByOne(c) /\ c \in Client /\ Waiting \subseteq Client
  BY DEF IInv, Connection, Waiting
<1>2. /\ asked[c] \in Nat /\ Len(got[c]) \in Nat /\ got \in [Client -> Seq(Says)]
      /\ Len(got[c]) <= asked[c] /\ asked[c] <= Len(got[c]) + 1
  BY <1>1 DEF Functions, OneByOne
<1>3. InCall(c) /\ UNCHANGED <<asked, runs>>
  BY DEF Caller, RecvAnswer, NoAnswer, Comes, server
<1>4. asked[c] > Len(got[c]) /\ asked[c] = Len(got[c]) + 1
  BY <1>2, <1>3 DEF InCall
<1>5. PICK r \in Says : /\ got' = [got EXCEPT ![c] = Append(@, r)]
                        /\ r = "value" => asked[c] \in runs[c]
  <2>1. CASE RecvAnswer(c)
    <3>1. replies[c] \in Answers
      BY <1>1 DEF Functions
    <3>2. asked[c] \in 1 .. Len(replies[c]) /\ DOMAIN replies[c] = 1 .. Len(replies[c])
      BY <1>2, <1>4, <2>1, <3>1, AnswersFacts DEF RecvAnswer
    <3>3. Answer(c) = replies[c][asked[c]] /\ Answer(c).says \in Says
      BY <1>4, <3>1, <3>2, AnswersFacts DEF Answer, Says
    <3>4. replies[c][asked[c]].of = asked[c]
      BY <1>1, <3>2 DEF OneByOne
    <3>5. Answer(c).says = "value" => asked[c] \in runs[c]
      BY <1>1, <3>2, <3>3, <3>4 DEF Connection, ValueRan
    <3> QED
      BY <2>1, <3>3, <3>5 DEF RecvAnswer, Comes
  <2>2. CASE NoAnswer(c)
    BY <2>2 DEF NoAnswer, Comes, Says
  <2> QED
    BY <2>1, <2>2 DEF Caller
<1> QED
  BY <1>1, <1>2, <1>3, <1>4, <1>5 DEF RC!Return, Says

\* Only calls, executions and answers show.
LEMMA OthersStutter ==
  ASSUME IInv, NEW c \in Client,
         \/ Connect(c) \/ Accept(c) \/ Leave(c)
         \/ RecvHeaders(c) \/ RecvBody(c) \/ RecvNothing(c)
         \/ c \notin Waiting /\ (Execute(c) \/ Call(c) \/ Caller(c))
  PROVE  \A d \in Waiting : UNCHANGED <<asked[d], runs[d], got[d]>>
<1>1. CASE \/ Connect(c) \/ Accept(c) \/ Leave(c)
           \/ RecvHeaders(c) \/ RecvBody(c) \/ RecvNothing(c)
  BY <1>1 DEF Connect, Accept, Leave, RecvHeaders, RecvBody, RecvNothing, client, server
<1>2. CASE c \notin Waiting /\ (Execute(c) \/ Call(c) \/ Caller(c))
  <2>1. Functions' /\ (Thread(c) \/ Call(c) \/ Caller(c))
    BY <1>2, ExecuteKeeps, CallKeeps, CallerKeeps DEF Thread
  <2>2. \A d \in Client \ {c} : UNCHANGED connectionVars(d)
    BY <2>1, OthersLeftAlone
  <2> QED
    BY <1>2, <2>2 DEF connectionVars, Waiting
<1> QED
  BY <1>1, <1>2

LEMMA StepSimulates ==
  ASSUME IInv, [Next]_vars
  PROVE  RC!Next \/ UNCHANGED <<[c \in Waiting |-> asked[c]], [c \in Waiting |-> runs[c]],
                                [c \in Waiting |-> got[c]]>>
<1>1. CASE Serve \/ AcceptFails \/ Close \/ UNCHANGED vars
  BY <1>1, SameCalls DEF Serve, AcceptFails, Close, vars, client, server
<1>2. ASSUME NEW c \in Client,
             \/ Connect(c) \/ Accept(c) \/ Leave(c)
             \/ RecvHeaders(c) \/ RecvBody(c) \/ RecvNothing(c)
             \/ c \notin Waiting /\ (Execute(c) \/ Call(c) \/ Caller(c))
      PROVE  UNCHANGED <<[d \in Waiting |-> asked[d]], [d \in Waiting |-> runs[d]],
                         [d \in Waiting |-> got[d]]>>
  BY <1>2, OthersStutter, SameCalls
<1>3. ASSUME NEW c \in Waiting, Execute(c) \/ Call(c) \/ Caller(c)
      PROVE  RC!Next \/ UNCHANGED <<[d \in Waiting |-> asked[d]], [d \in Waiting |-> runs[d]],
                                    [d \in Waiting |-> got[d]]>>
  <2>1. CASE Call(c) \/ Caller(c)
    BY <2>1, CallIsAsk, CallerIsReturn DEF RC!Next
  <2>2. CASE Execute(c)
    BY <2>2, ExecuteIsRun, SameCalls DEF RC!Next, callVars
  <2> QED
    BY <1>3, <2>1, <2>2
<1> QED
  BY <1>1, <1>2, <1>3 DEF Next, Thread

\* For the clients that wait, server and client together implement RemoteCall, for
\* any requests, pieces and departures: at most one run for a call, while it is
\* waited for, and no value without it.
THEOREM Refinement == Spec => ImplementsRemoteCall
<1>1. Init => RC!Init
  BY DEF Init, RC!Init, Waiting
<1>2. IInv /\ [Next]_vars => [RC!Next]_<<[c \in Waiting |-> asked[c]], [c \in Waiting |-> runs[c]],
                                         [c \in Waiting |-> got[c]]>>
  BY StepSimulates
<1> QED
  BY <1>1, <1>2, Invariance, PTL DEF Spec, ImplementsRemoteCall, RC!Spec
=============================================================================
