----------------------------- MODULE ProfileProofs ----------------------------
(***************************************************************************)
(* What Profile promises about the connection and the writes for every set *)
(* of users and names, and however often the connection breaks.            *)
(* ConnectionIsTended is inductive as it stands.  That an acknowledged     *)
(* write is never undone needs to know what is under way on the connection *)
(* and in which order.                                                      *)
(***************************************************************************)
EXTENDS Profile, DataLemmas

-------------------------------------------------------------------------------
(* The connection. *)

(* At first. *)
LEMMA TendedInit == PInit => ConnectionIsTended
  BY DEF PInit, DBInit, ConnectionIsTended, connected

(* A lost connection leaves a client that will try again unless it is
   interrupted. *)
LEMMA TendedDisconnect ==
  ASSUME ConnectionIsTended, HasConnection, onDisconnect, UNCHANGED <<fetches, attempt>>
  PROVE  ConnectionIsTended'
  BY DEF ConnectionIsTended, HasConnection, onDisconnect, tryScheduleReconnect, connected

(* What the app asks for touches neither the connection nor the tokens, and
   sends only on a connection. *)
LEMMA TendedRequests ==
  ASSUME ConnectionIsTended, UNCHANGED <<connection, fetches, attempt, down>>,
         ~connected => UNCHANGED up
  PROVE  ConnectionIsTended'
  BY DEF ConnectionIsTended, connection, connected

(* Steps of the client. *)
LEMMA TendedInternal ==
  ASSUME ConnectionIsTended, Internal
  PROVE  ConnectionIsTended'
<1>1. CASE open
  BY <1>1 DEF open, ConnectionIsTended, tryScheduleReconnect, connected, tokens, wire
<1>2. CASE interrupt
  <2>1. CASE HasConnection
    BY <1>2, <2>1, TendedDisconnect DEF interrupt, tokens
  <2>2. CASE ~HasConnection
    BY <1>2, <2>2
    DEF interrupt, ConnectionIsTended, HasConnection, connected, tokens, wire, onDisconnect
  <2> QED BY <2>1, <2>2
<1>3. CASE resume
  BY <1>3 DEF resume, ConnectionIsTended, tryScheduleReconnect, connected, tokens, wire
<1>4. CASE enteringForeground
  BY <1>4
  DEF enteringForeground, ConnectionIsTended, tryScheduleReconnect, connected, tokens, wire
<1>5. CASE RetryFires
  BY <1>5 DEF RetryFires, ConnectionIsTended, connected, wire
<1>6. CASE TokenFetched
  BY <1>6 DEF TokenFetched, ConnectionIsTended, connected, wire
<1>7. CASE TokenFailed
  BY <1>7 DEF TokenFailed, ConnectionIsTended, tryScheduleReconnect, connected, wire
<1>8. CASE Drop
  BY <1>8, TendedDisconnect DEF Drop, tokens
<1>9. CASE onAuthRevoked
  BY <1>9, TendedDisconnect DEF onAuthRevoked, connected, HasConnection
<1>10. CASE onKill
  BY <1>10, TendedDisconnect DEF onKill, tokens
<1>11. CASE onReady
  BY <1>11 DEF onReady, ConnectionIsTended, connected, tokens
<1>12. CASE refreshAuthToken
  BY <1>12, TendedRequests DEF refreshAuthToken
<1>13. CASE GetTimeout
  BY <1>13, TendedRequests DEF GetTimeout, tokens, wire
<1>14. CASE Serve
  BY <1>14 DEF Serve, Answer, ConnectionIsTended, connection, connected, tokens
<1>15. CASE AuthAnswered
  <2>1. HasConnection
    BY <1>15 DEF AuthAnswered, Arrives, ConnectionIsTended, connected, HasConnection
  <2>2. CASE Head(down).ok
    BY <1>15, <2>1, <2>2
    DEF AuthAnswered, Arrives, ConnectionIsTended, connected, HasConnection
  <2>3. CASE ~Head(down).ok
    BY <1>15, <2>1, <2>3, TendedDisconnect DEF AuthAnswered
  <2> QED BY <2>2, <2>3
<1>16. CASE PutAnswered
  BY <1>16 DEF PutAnswered, Arrives, ConnectionIsTended, connection, connected, tokens
<1> QED
  BY <1>1, <1>2, <1>3, <1>4, <1>5, <1>6, <1>7, <1>8, <1>9, <1>10, <1>11, <1>12, <1>13,
     <1>14, <1>15, <1>16 DEF Internal

(* Steps that leave the connection alone. *)
LEMMA TendedUnchanged ==
  ASSUME ConnectionIsTended, UNCHANGED dbvars
  PROVE  ConnectionIsTended'
  BY DEF ConnectionIsTended, dbvars, connection, tokens, wire, connected

(* A read. *)
LEMMA TendedGet ==
  ASSUME NEW path, ConnectionIsTended, getDataAtPath(path)
  PROVE  ConnectionIsTended'
  BY TendedRequests DEF getDataAtPath, canSend, connected, tokens

(* The app's read. *)
LEMMA TendedGetUsername ==
  ASSUME NEW user, ConnectionIsTended, getUsername(user)
  PROVE  ConnectionIsTended'
  BY TendedUnchanged, TendedGet DEF getUsername

(* Steps of the app. *)
LEMMA TendedApp ==
  ASSUME ConnectionIsTended, App
  PROVE  ConnectionIsTended'
<1>1. ASSUME NEW user \in Users, viewDidLoad(user)
      PROVE  ConnectionIsTended'
  BY <1>1, TendedGetUsername DEF viewDidLoad
<1>2. CASE firebaseOp
  <2>1. CASE currentUser = None
    BY <1>2, <2>1, TendedUnchanged DEF firebaseOp, updateUsername
  <2>2. CASE currentUser # None
    BY <1>2, <2>2, TendedRequests
    DEF firebaseOp, updateUsername, mergeData, canSend, connected, tokens
  <2> QED BY <2>1, <2>2
<1>3. CASE TimerFires
  BY <1>3, TendedGetUsername DEF TimerFires
<1>4. CASE openSettings \/ textFieldDidChangeSelection \/ saveChangesButtonTapped
             \/ alertOk \/ Back \/ logoutButtonTapped
  BY <1>4, TendedUnchanged
  DEF openSettings, textFieldDidChangeSelection, saveChangesButtonTapped, alertOk, Back,
      logoutButtonTapped
<1> QED BY <1>1, <1>2, <1>3, <1>4 DEF App

(* FPersistentConnection's assertions about its states hold and a client that
   should reconnect is about to, for any number of users, requests, lost
   connections, interruptions and late tokens. *)
THEOREM ConnectionTended == PSpec => []ConnectionIsTended
<1>1. ConnectionIsTended /\ [PNext]_pvars => ConnectionIsTended'
  <2> SUFFICES ASSUME ConnectionIsTended, [PNext]_pvars
               PROVE  ConnectionIsTended'
    OBVIOUS
  <2>1. CASE App
    BY <2>1, TendedApp
  <2>2. CASE UsernameArrives
    BY <2>2
    DEF UsernameArrives, GetAnswered, Arrives, ConnectionIsTended, connection, connected,
        tokens
  <2>3. CASE Internal
    BY <2>3, TendedInternal
  <2>4. CASE UNCHANGED pvars
    BY <2>4, TendedUnchanged DEF pvars
  <2> QED BY <2>1, <2>2, <2>3, <2>4 DEF PNext
<1> QED BY <1>1, TendedInit, PTL DEF PSpec

-------------------------------------------------------------------------------
(* Types. *)

Put == [n : Nat, path : Paths, value : Values]
Get == [n : Nat, path : Paths, sent : BOOLEAN, timer : BOOLEAN]
ReadRequest == [kind : {"get"}, n : Nat, path : Paths]
Request ==
  [kind : {"auth"}, restore : BOOLEAN] \cup [kind : {"put"}, put : Put] \cup ReadRequest
Response == [request : Request, ok : BOOLEAN, value : Values \cup {None}]
Written == [n : Nat, value : Values \cup {None}]
Operation == [name : LongNames, visible : BOOLEAN]

ConnectionStates ==
  {"Disconnected", "GettingToken", "Connecting", "Authenticating", "Connected"}

LinkTypeOK ==
  /\ connectionState \in ConnectionStates
  /\ scheduledRetry \in BOOLEAN
  /\ attempt \in Nat /\ fetches \subseteq Nat
  /\ authToken \in BOOLEAN
  /\ interruptReasons \subseteq {"waiting_for_open", "repo_interrupt", "server_kill"}
  /\ events \in Nat

QueueTypeOK ==
  /\ outstandingPuts \in Seq(Put) /\ outstandingGets \in Seq(Get)
  /\ putCounter \in Nat /\ getCounter \in Nat
  /\ up \in Seq(Request) /\ down \in Seq(Response)

DataTypeOK ==
  /\ server \in [Paths -> Written]
  /\ acked \in [Paths -> Nat]

DBTypeOK == LinkTypeOK /\ QueueTypeOK /\ DataTypeOK

(* Only who has seen a table has a uid, names to save and timers. *)
AppTypeOK ==
  /\ uid \in Users \cup {None} /\ currentUser \in Users \cup {None}
  /\ screen \in {"start", "table", "settings", "login"}
  /\ screen # "start" => uid \in Users
  /\ screen = "start" => operations = <<>> /\ timers = <<>>
  /\ username \in Names /\ field \in Names
  /\ saveEnabled \in BOOLEAN /\ alert \in BOOLEAN
  /\ operations \in Seq(Operation) /\ timers \in Seq(BOOLEAN)

(* Every variable of the client and of the app has its type. *)
PTypeOK == DBTypeOK /\ AppTypeOK

-------------------------------------------------------------------------------
(* What is under way: the answers that are coming and then the requests that
   are not served yet are in the order in which the requests were sent. *)
PipeOf(d, u) ==
  [i \in 1..(Len(d) + Len(u)) |-> IF i <= Len(d) THEN d[i].request ELSE u[i - Len(d)]]
Pipe == PipeOf(down, up)

IsPut(request) == request.kind = "put"
IsRestore(request) == request.kind = "auth" /\ request.restore

(* Writes are under way and outstanding in the order in which they were made,
   and one that is either was made after those acknowledged. *)
WritesInOrder ==
  /\ \A i, j \in DOMAIN Pipe :
       i < j /\ IsPut(Pipe[i]) /\ IsPut(Pipe[j]) => Pipe[i].put.n < Pipe[j].put.n
  /\ \A i, j \in DOMAIN outstandingPuts :
       i < j => outstandingPuts[i].n < outstandingPuts[j].n
  /\ \A i \in DOMAIN Pipe : IsPut(Pipe[i]) =>
       Pipe[i].put.n <= putCounter /\ acked[Pipe[i].put.path] < Pipe[i].put.n
  /\ \A i \in DOMAIN outstandingPuts :
       /\ outstandingPuts[i].n <= putCounter
       /\ acked[outstandingPuts[i].path] < outstandingPuts[i].n
  /\ \A p \in Paths : acked[p] <= putCounter

(* A write with the answer "done" was done. *)
AnswersAreTrue ==
  \A i \in DOMAIN down : IsPut(down[i].request) /\ down[i].ok =>
    down[i].request.put.n <= server[down[i].request.put.path].n

(* The state is restored once on a connection, before any write is sent on it:
   from then on all that is outstanding is under way. *)
RestoredOnce ==
  /\ \A i \in DOMAIN Pipe :
       IsRestore(Pipe[i]) => i = 1 /\ connectionState = "Authenticating"
  /\ connectionState = "Authenticating" =>
       /\ Pipe # <<>> /\ IsRestore(Pipe[1])
       /\ \A i \in DOMAIN Pipe : ~IsPut(Pipe[i])
  /\ connectionState = "Connected" =>
       \A i \in DOMAIN outstandingPuts : \E j \in DOMAIN Pipe :
         IsPut(Pipe[j]) /\ Pipe[j].put.n = outstandingPuts[i].n

WireInv == WritesInOrder /\ AnswersAreTrue /\ RestoredOnce

-------------------------------------------------------------------------------
(* Sequences. *)

(* The sequence without its n-th element. *)
LEMMA RemovedAtIs ==
  ASSUME NEW S, NEW s \in Seq(S), NEW i \in DOMAIN s
  PROVE  /\ RemovedAt(s, i) \in Seq(S)
         /\ Len(RemovedAt(s, i)) = Len(s) - 1
         /\ \A j \in 1..(Len(s) - 1) : RemovedAt(s, i)[j] = s[IF j < i THEN j ELSE j + 1]
<1>1. i \in 1..Len(s) /\ Len(s) \in Nat
  OBVIOUS
<1> DEFINE a == SubSeq(s, 1, i - 1)
           b == SubSeq(s, i + 1, Len(s))
<1>2. /\ a \in Seq(S) /\ Len(a) = i - 1
      /\ \A j \in 1..(i - 1) : a[j] = s[j]
  BY <1>1
<1>3. /\ b \in Seq(S) /\ Len(b) = Len(s) - i
      /\ \A j \in 1..(Len(s) - i) : b[j] = s[i + j]
  BY <1>1
<1> HIDE DEF a, b
<1>4. /\ a \o b \in Seq(S) /\ Len(a \o b) = Len(s) - 1
      /\ \A j \in 1..(Len(s) - 1) : (a \o b)[j] = IF j < i THEN s[j] ELSE s[j + 1]
  <2>1. a \o b \in Seq(S) /\ Len(a \o b) = Len(s) - 1
    BY <1>1, <1>2, <1>3
  <2>2. ASSUME NEW j \in 1..(Len(s) - 1), j < i PROVE (a \o b)[j] = s[j]
    BY <1>1, <1>2, <1>3, <2>2
  <2>3. ASSUME NEW j \in 1..(Len(s) - 1), ~(j < i) PROVE (a \o b)[j] = s[j + 1]
    <3>1. (a \o b)[j] = b[j - (i - 1)] /\ j - (i - 1) \in 1..(Len(s) - i)
      BY <1>1, <1>2, <1>3, <2>3
    <3> QED BY <1>1, <1>3, <3>1
  <2> QED BY <2>1, <2>2, <2>3
<1> QED BY <1>4 DEF RemovedAt, a, b

(* The writes that are left when one is answered. *)
LEMMA RemovedIs ==
  ASSUME NEW S, NEW s \in Seq(S), NEW n
  PROVE  \/ Removed(s, n) = s /\ \A i \in DOMAIN s : s[i].n # n
         \/ \E i \in DOMAIN s : s[i].n = n /\ Removed(s, n) = RemovedAt(s, i)
  BY DEF Removed

(* Reads that are marked as sent are reads. *)
LEMMA SentIs ==
  ASSUME NEW gets \in Seq(Get)
  PROVE  Sent(gets) \in Seq(Get)
<1>1. ASSUME NEW get \in Get PROVE [get EXCEPT !.sent = TRUE] \in Get
  BY DEF Get
<1>2. \A i \in 1..Len(gets) : gets[i] \in Get
  OBVIOUS
<1>3. \A i \in 1..Len(gets) : [gets[i] EXCEPT !.sent = TRUE] \in Get
  BY <1>1, <1>2
<1> HIDE DEF Get
<1>4. Sent(gets) \in [1..Len(gets) -> Get]
  BY <1>3 DEF Sent
<1> QED BY <1>4

(* The requests that restoreState sends for the writes. *)
LEMMA PutRequestsAre ==
  ASSUME NEW puts \in Seq(Put)
  PROVE  /\ PutRequests(puts) \in Seq(Request) /\ Len(PutRequests(puts)) = Len(puts)
         /\ \A i \in 1..Len(puts) : PutRequests(puts)[i] = PutRequest(puts[i])
<1>1. \A i \in 1..Len(puts) : PutRequest(puts[i]) \in Request
  BY DEF PutRequest, Request
<1> QED BY <1>1 DEF PutRequests

(* The requests that are sent for reads are requests for reads: by induction
   over the reads. *)
LEMMA GetRequestsAre ==
  ASSUME NEW gets \in Seq(Get)
  PROVE  GetRequests(gets) \in Seq(ReadRequest)
<1> DEFINE N == Len(gets)
           S == Seq(ReadRequest)
           h == [x \in S \X (1..N) |->
                   IF gets[x[2]].sent THEN x[1] ELSE Append(x[1], GetRequest(gets[x[2]]))]
           Next(f) == [i \in 0..N |->
                        IF i = 0 THEN <<>>
                        ELSE IF gets[i].sent THEN f[i - 1]
                        ELSE Append(f[i - 1], GetRequest(gets[i]))]
<1>1. ASSUME NEW i \in 1..N PROVE GetRequest(gets[i]) \in ReadRequest
  <2>1. gets[i] \in Get
    OBVIOUS
  <2> QED BY <2>1 DEF Get, GetRequest, ReadRequest
<1>2. h \in [S \X (1..N) -> S]
  <2>1. ASSUME NEW x \in S \X (1..N)
        PROVE  (IF gets[x[2]].sent THEN x[1] ELSE Append(x[1], GetRequest(gets[x[2]]))) \in S
    BY <1>1
  <2> QED BY <2>1
<1>3. PICK f \in [0..N -> S] : Approximates(f, N, <<>>, h)
  <2>1. N \in Nat /\ <<>> \in S
    OBVIOUS
  <2> HIDE DEF N, S, h
  <2> QED BY <1>2, <2>1, RecursionExists
<1>4. f = Next(f)
  <2>1. ASSUME NEW i \in 1..N
        PROVE  h[<<f[i - 1], i>>] = IF gets[i].sent THEN f[i - 1]
                                    ELSE Append(f[i - 1], GetRequest(gets[i]))
    <3>1. f[i - 1] \in S
      OBVIOUS
    <3> QED BY <3>1
  <2>2. f[0] = <<>> /\ \A i \in 1..N : f[i] = h[<<f[i - 1], i>>]
    BY <1>3 DEF Approximates
  <2>3. ASSUME NEW i \in 0..N PROVE f[i] = Next(f)[i]
    <3>1. CASE i = 0
      BY <2>2, <3>1
    <3>2. CASE i # 0
      <4>1. i \in 1..N
        BY <3>2
      <4> HIDE DEF h
      <4> QED BY <2>1, <2>2, <3>2, <4>1
    <3> QED BY <3>1, <3>2
  <2> HIDE DEF N, S, h
  <2> QED BY <2>3
<1> DEFINE g == CHOOSE f_1 : f_1 = Next(f_1)
<1>5. g = Next(g)
  BY <1>4
<1> HIDE DEF g
<1>6. ASSUME NEW i \in Nat, i <= N => g[i] \in S
      PROVE  i + 1 <= N => g[i + 1] \in S
  <2> SUFFICES ASSUME i + 1 <= N PROVE g[i + 1] \in S
    OBVIOUS
  <2>1. i + 1 \in 1..N /\ g[i] \in S
    BY <1>6
  <2>2. g[i + 1] = IF gets[i + 1].sent THEN g[i] ELSE Append(g[i], GetRequest(gets[i + 1]))
    <3>1. g[i + 1] = Next(g)[i + 1]
      BY <1>5
    <3>2. i + 1 # 0 /\ i + 1 \in 0..N /\ (i + 1) - 1 = i
      BY <2>1
    <3> QED BY <3>1, <3>2
  <2> QED BY <1>1, <2>1, <2>2
<1>7. g[0] \in S
  BY <1>5
<1> DEFINE T == {i \in Nat : i <= N => g[i] \in S}
<1>8. Nat \subseteq T
  <2>1. 0 \in T /\ \A i \in Nat : i \in T => i + 1 \in T
    BY <1>6, <1>7
  <2> HIDE DEF T
  <2> QED BY <2>1, InductionOnSets
<1>9. g[N] \in S
  BY <1>8
<1> QED BY <1>9, Zenon DEF GetRequests, g

-------------------------------------------------------------------------------
(* Every step keeps the types. *)

(* Types at first. *)
LEMMA TypesInit == PInit => PTypeOK
<1> SUFFICES ASSUME PInit PROVE PTypeOK
  OBVIOUS
<1> USE DEF PInit, DBInit
<1>1. LinkTypeOK
  BY DEF LinkTypeOK, ConnectionStates
<1>2. QueueTypeOK
  BY DEF QueueTypeOK
<1>3. DataTypeOK
  BY DEF DataTypeOK, NoData, Written
<1>4. operations \in Seq(Operation) /\ timers \in Seq(BOOLEAN)
  OBVIOUS
<1>5. AppTypeOK
  BY <1>4 DEF AppTypeOK, Names
<1> QED BY <1>1, <1>2, <1>3, <1>5 DEF PTypeOK, DBTypeOK

(* The connection and its tokens. *)
LEMMA LinkIsTyped ==
  ASSUME LinkTypeOK, Internal \/ UsernameArrives
  PROVE  LinkTypeOK'
<1> USE DEF LinkTypeOK
<1>1. CASE open \/ resume \/ enteringForeground
  BY <1>1 DEF open, resume, enteringForeground, tryScheduleReconnect, tokens
<1>2. CASE interrupt \/ Drop \/ onAuthRevoked \/ onKill
  <2>1. events' \in Nat
    BY <1>2 DEF interrupt, Drop, onAuthRevoked, onKill, Event
  <2>2. scheduledRetry' \in BOOLEAN /\ connectionState' \in ConnectionStates
    BY <1>2
    DEF interrupt, Drop, onAuthRevoked, onKill, onDisconnect, tryScheduleReconnect,
        ConnectionStates
  <2> QED BY <1>2, <2>1, <2>2 DEF interrupt, Drop, onAuthRevoked, onKill, tokens
<1>3. CASE RetryFires
  <2>1. attempt' \in Nat /\ fetches' \subseteq Nat
    BY <1>3 DEF RetryFires
  <2> QED BY <1>3, <2>1 DEF RetryFires, ConnectionStates
<1>4. CASE TokenFetched
  BY <1>4 DEF TokenFetched, ConnectionStates
<1>5. CASE TokenFailed
  <2>1. events' \in Nat /\ scheduledRetry' \in BOOLEAN
    BY <1>5 DEF TokenFailed, Event, tryScheduleReconnect
  <2> QED BY <1>5, <2>1 DEF TokenFailed, ConnectionStates
<1>6. CASE onReady \/ GetTimeout \/ PutAnswered \/ UsernameArrives
  BY <1>6
  DEF onReady, GetTimeout, PutAnswered, UsernameArrives, GetAnswered, ConnectionStates,
      connection, tokens
<1>7. CASE refreshAuthToken
  BY <1>7 DEF refreshAuthToken, Event, connection
<1>8. CASE Serve
  <2>1. events' \in Nat
    <3>1. Event \/ UNCHANGED events
      BY <1>8 DEF Serve
    <3> QED BY <3>1 DEF Event
  <2> QED BY <1>8, <2>1 DEF Serve, connection, tokens
<1>9. CASE AuthAnswered
  BY <1>9 DEF AuthAnswered, onDisconnect, tryScheduleReconnect, ConnectionStates
<1> QED
  BY <1>1, <1>2, <1>3, <1>4, <1>5, <1>6, <1>7, <1>8, <1>9 DEF Internal

(* Requests. *)
LEMMA RequestsAreTyped ==
  /\ \A b \in BOOLEAN : AuthRequest(b) \in Request
  /\ \A p \in Put : PutRequest(p) \in Request
  /\ \A g \in Get : GetRequest(g) \in Request
  BY DEF AuthRequest, PutRequest, GetRequest, Request, ReadRequest, Get

(* restoreState. *)
LEMMA RestoreIsTyped ==
  ASSUME QueueTypeOK, restoreState
  PROVE  up' \in Seq(Request) /\ outstandingGets' \in Seq(Get)
<1>1. GetRequests(outstandingGets) \in Seq(Request)
  BY GetRequestsAre DEF QueueTypeOK, Request
<1>2. PutRequests(outstandingPuts) \in Seq(Request)
  BY PutRequestsAre DEF QueueTypeOK
<1>3. up \in Seq(Request) /\ Sent(outstandingGets) \in Seq(Get)
  BY SentIs DEF QueueTypeOK
<1> QED BY <1>1, <1>2, <1>3 DEF restoreState

(* An answer of the server. *)
LEMMA AnswerIsTyped ==
  ASSUME QueueTypeOK, up # <<>>, NEW ok \in BOOLEAN, NEW value \in Values \cup {None},
         Answer(ok, value)
  PROVE  up' \in Seq(Request) /\ down' \in Seq(Response)
<1>1. Head(up) \in Request /\ Tail(up) \in Seq(Request)
  BY DEF QueueTypeOK
<1>2. [request |-> Head(up), ok |-> ok, value |-> value] \in Response
  BY <1>1 DEF Response
<1>3. down \in Seq(Response)
  BY DEF QueueTypeOK
<1> QED BY <1>1, <1>2, <1>3 DEF Answer

(* The server's step. *)
LEMMA ServeIsTyped ==
  ASSUME QueueTypeOK, DataTypeOK, Serve
  PROVE  QueueTypeOK' /\ DataTypeOK'
<1>1. Head(up) \in Request
  BY DEF Serve, QueueTypeOK
<1>2. server' \in [Paths -> Written]
  <2>1. CASE Head(up).kind = "put"
    <3>1. Head(up).put \in Put
      BY <1>1, <2>1 DEF Request, ReadRequest
    <3>2. [n |-> Head(up).put.n, value |-> Head(up).put.value] \in Written
      BY <3>1 DEF Put, Written
    <3> QED BY <2>1, <3>2 DEF Serve, DataTypeOK
  <2>2. CASE Head(up).kind # "put"
    BY <2>2 DEF Serve, DataTypeOK
  <2> QED BY <2>1, <2>2
<1>3. up' \in Seq(Request) /\ down' \in Seq(Response)
  <2>1. CASE Head(up).kind # "get"
    BY <2>1, AnswerIsTyped DEF Serve
  <2>2. CASE Head(up).kind = "get"
    <3>1. Head(up).path \in Paths
      BY <1>1, <2>2 DEF Request, ReadRequest
    <3>2. server[Head(up).path].value \in Values \cup {None}
      BY <3>1 DEF DataTypeOK, Written
    <3> QED BY <2>2, <3>2, AnswerIsTyped DEF Serve
  <2> QED BY <2>1, <2>2
<1> QED BY <1>2, <1>3 DEF Serve, QueueTypeOK, DataTypeOK, requests

(* What is left of a queue. *)
LEMMA TailIsTyped ==
  ASSUME QueueTypeOK, down # <<>>
  PROVE  /\ Head(down) \in Response /\ Head(down).request \in Request
         /\ Tail(down) \in Seq(Response)
<1>1. Head(down) \in Response /\ Tail(down) \in Seq(Response)
  BY DEF QueueTypeOK
<1> QED BY <1>1 DEF Response

(* The answer to a write names a write. *)
LEMMA AnsweredPut ==
  ASSUME QueueTypeOK, Arrives("put")
  PROVE  Head(down).request.put \in Put
  BY TailIsTyped DEF Arrives, Request, ReadRequest

(* The writes that are left. *)
LEMMA RemovedIsTyped ==
  ASSUME NEW S, NEW s \in Seq(S), NEW n
  PROVE  Removed(s, n) \in Seq(S)
<1>1. CASE Removed(s, n) = s
  BY <1>1
<1>2. CASE \E i \in DOMAIN s : Removed(s, n) = RemovedAt(s, i)
  BY <1>2, RemovedAtIs
<1> QED BY <1>1, <1>2, RemovedIs

(* The answer to a read. *)
LEMMA GetAnsweredIsTyped ==
  ASSUME QueueTypeOK, GetAnswered
  PROVE  QueueTypeOK'
<1>1. Removed(outstandingGets, Head(down).request.n) \in Seq(Get)
  BY RemovedIsTyped DEF QueueTypeOK
<1> QED BY <1>1, TailIsTyped DEF GetAnswered, Arrives, QueueTypeOK

(* Steps of the client. *)
LEMMA InternalIsTyped ==
  ASSUME QueueTypeOK, DataTypeOK, Internal
  PROVE  QueueTypeOK' /\ DataTypeOK'
<1>1. CASE open \/ resume \/ enteringForeground \/ RetryFires \/ TokenFetched \/ TokenFailed
  BY <1>1
  DEF open, resume, enteringForeground, RetryFires, TokenFetched, TokenFailed, QueueTypeOK,
      DataTypeOK, requests, wire
<1>2. CASE interrupt \/ Drop \/ onAuthRevoked \/ onKill
  <2>1. UNCHANGED wire \/ (up' = <<>> /\ down' = <<>>)
    BY <1>2 DEF interrupt, Drop, onAuthRevoked, onKill, onDisconnect
  <2>2. UNCHANGED <<requests, server, acked>>
    BY <1>2 DEF interrupt, Drop, onAuthRevoked, onKill
  <2>3. up' \in Seq(Request) /\ down' \in Seq(Response)
    BY <2>1, EmptyIsSeq, Zenon DEF QueueTypeOK, wire
  <2> QED BY <2>2, <2>3 DEF QueueTypeOK, DataTypeOK, requests
<1>3. CASE onReady
  <2>1. up' \in Seq(Request) /\ outstandingGets' \in Seq(Get)
    <3>1. AuthRequest(TRUE) \in Request /\ up \in Seq(Request)
      BY RequestsAreTyped DEF QueueTypeOK
    <3>2. Append(up, AuthRequest(TRUE)) \in Seq(Request)
      BY <3>1, AppendIsSeq, Zenon
    <3> QED BY <1>3, <3>2, RestoreIsTyped DEF onReady, QueueTypeOK
  <2> QED BY <1>3, <2>1 DEF onReady, QueueTypeOK, DataTypeOK
<1>4. CASE refreshAuthToken
  <2>1. AuthRequest(FALSE) \in Request /\ up \in Seq(Request)
    BY RequestsAreTyped DEF QueueTypeOK
  <2>2. Append(up, AuthRequest(FALSE)) \in Seq(Request)
    BY <2>1, AppendIsSeq, Zenon
  <2> QED BY <1>4, <2>2 DEF refreshAuthToken, QueueTypeOK, DataTypeOK, requests
<1>5. CASE GetTimeout
  <2>1. outstandingGets' \in Seq(Get)
    BY <1>5, RemovedAtIs DEF GetTimeout, QueueTypeOK
  <2> QED BY <1>5, <2>1 DEF GetTimeout, QueueTypeOK, DataTypeOK, wire
<1>6. CASE Serve
  BY <1>6, ServeIsTyped
<1>7. CASE AuthAnswered
  <2>1. down # <<>>
    BY <1>7 DEF AuthAnswered, Arrives
  <2>2. CASE Head(down).ok
    <3>1. up' \in Seq(Request) /\ outstandingGets' \in Seq(Get)
      BY <1>7, <2>2, RestoreIsTyped DEF AuthAnswered, QueueTypeOK
    <3> QED BY <1>7, <2>1, <2>2, <3>1, TailIsTyped DEF AuthAnswered, QueueTypeOK, DataTypeOK
  <2>3. CASE ~Head(down).ok
    <3>1. up' \in Seq(Request) /\ down' \in Seq(Response)
      BY <1>7, <2>3, EmptyIsSeq, Zenon DEF AuthAnswered, onDisconnect
    <3> QED BY <1>7, <2>3, <3>1 DEF AuthAnswered, QueueTypeOK, DataTypeOK
  <2> QED BY <2>2, <2>3
<1>8. CASE PutAnswered
  <2>1. Head(down).request.put \in Put /\ down # <<>>
    BY <1>8, AnsweredPut DEF PutAnswered, Arrives
  <2>2. outstandingPuts' \in Seq(Put)
    BY <1>8, RemovedIsTyped DEF PutAnswered, QueueTypeOK
  <2>3. acked' \in [Paths -> Nat]
    BY <1>8, <2>1 DEF PutAnswered, DataTypeOK, Put
  <2> QED BY <1>8, <2>1, <2>2, <2>3, TailIsTyped DEF PutAnswered, QueueTypeOK, DataTypeOK
<1> QED
  BY <1>1, <1>2, <1>3, <1>4, <1>5, <1>6, <1>7, <1>8 DEF Internal

(* What the app asks of the client. *)
LEMMA MergeIsTyped ==
  ASSUME DBTypeOK, NEW path \in Paths, NEW value \in Values, mergeData(path, value)
  PROVE  DBTypeOK'
<1> DEFINE put == [n |-> putCounter + 1, path |-> path, value |-> value]
<1>1. put \in Put
  BY DEF Put, DBTypeOK, QueueTypeOK
<1>2. PutRequest(put) \in Request
  BY <1>1, RequestsAreTyped
<1> HIDE DEF put
<1>3. up \in Seq(Request) /\ outstandingPuts \in Seq(Put)
  BY DEF DBTypeOK, QueueTypeOK
<1>4. Append(up, PutRequest(put)) \in Seq(Request) /\ Append(outstandingPuts, put) \in Seq(Put)
  BY <1>1, <1>2, <1>3, AppendIsSeq
<1>5. up' \in Seq(Request) /\ outstandingPuts' \in Seq(Put)
  BY <1>3, <1>4 DEF mergeData, put
<1> QED
  BY <1>5 DEF mergeData, DBTypeOK, LinkTypeOK, QueueTypeOK, DataTypeOK, connection, tokens

(* A read. *)
LEMMA ReadIsTyped ==
  ASSUME DBTypeOK, NEW path \in Paths, getDataAtPath(path)
  PROVE  DBTypeOK'
<1> DEFINE get == [n |-> getCounter + 1, path |-> path, sent |-> canSend, timer |-> ~connected]
<1>1. get \in Get
  BY DEF Get, DBTypeOK, QueueTypeOK, canSend, connected
<1>2. GetRequest(get) \in Request
  BY <1>1, RequestsAreTyped
<1> HIDE DEF get
<1>3. up \in Seq(Request) /\ outstandingGets \in Seq(Get)
  BY DEF DBTypeOK, QueueTypeOK
<1>4. Append(up, GetRequest(get)) \in Seq(Request) /\ Append(outstandingGets, get) \in Seq(Get)
  BY <1>1, <1>2, <1>3, AppendIsSeq
<1>5. up' \in Seq(Request) /\ outstandingGets' \in Seq(Get)
  BY <1>3, <1>4 DEF getDataAtPath, get
<1> QED
  BY <1>5 DEF getDataAtPath, DBTypeOK, LinkTypeOK, QueueTypeOK, DataTypeOK, connection, tokens

(* Steps that leave the client alone. *)
LEMMA UnchangedIsTyped ==
  ASSUME DBTypeOK, UNCHANGED dbvars
  PROVE  DBTypeOK'
  BY DEF DBTypeOK, LinkTypeOK, QueueTypeOK, DataTypeOK, dbvars, connection, tokens, requests,
         wire

(* The last write under way exists. *)
LEMMA LastPendingIsTyped ==
  ASSUME DBTypeOK, NEW path, PendingAt(path) # {}
  PROVE  LastPending(path).value \in Values
<1>1. outstandingPuts \in Seq(Put) /\ Len(outstandingPuts) \in Nat
  BY DEF DBTypeOK, QueueTypeOK
<1>2. PendingAt(path) \subseteq DOMAIN outstandingPuts
  BY DEF PendingAt
<1>3. PendingAt(path) \subseteq 0..Len(outstandingPuts)
  BY <1>1, <1>2
<1>4. \E i \in PendingAt(path) : \A j \in PendingAt(path) : j <= i
  BY <1>1, <1>3, GreatestNatural
<1>5. LastPending(path) \in Put
  <2>1. (CHOOSE i \in PendingAt(path) : \A j \in PendingAt(path) : j <= i) \in PendingAt(path)
    BY <1>4
  <2>2. \A i \in PendingAt(path) : outstandingPuts[i] \in Put
    BY <1>1, <1>2
  <2> QED BY <2>1, <2>2 DEF LastPending
<1> QED BY <1>5 DEF Put

(* The app's read. *)
LEMMA GetUsernameIsTyped ==
  ASSUME DBTypeOK, username \in Names, NEW user \in Users, getUsername(user)
  PROVE  DBTypeOK' /\ username' \in Names
<1>1. CASE PendingAt(user) # {}
  BY <1>1, LastPendingIsTyped, UnchangedIsTyped, ProfileAssumption DEF getUsername, Names
<1>2. CASE PendingAt(user) = {}
  BY <1>2, ReadIsTyped, ProfileAssumption DEF getUsername
<1> QED BY <1>1, <1>2

(* The screens. *)
LEMMA LeaveIsTyped ==
  ASSUME operations \in Seq(Operation), timers \in Seq(BOOLEAN), Leave
  PROVE  operations' \in Seq(Operation) /\ timers' \in Seq(BOOLEAN)
<1>1. ASSUME NEW o \in Operation PROVE [o EXCEPT !.visible = FALSE] \in Operation
  BY DEF Operation
<1>2. \A i \in 1..Len(operations) : operations[i] \in Operation
  OBVIOUS
<1>3. operations' \in [1..Len(operations) -> Operation]
  BY <1>1, <1>2, DOMAIN operations = 1..Len(operations), Zenon DEF Leave
<1>4. timers' \in [1..Len(timers) -> BOOLEAN]
  BY DEF Leave
<1>5. Len(operations) \in Nat /\ Len(timers) \in Nat
  OBVIOUS
<1> QED BY <1>3, <1>4, <1>5, FunctionIsSeq

(* Steps of the app. *)
LEMMA AppIsTyped ==
  ASSUME PTypeOK, App
  PROVE  PTypeOK'
<1> USE DEF PTypeOK
<1>1. ASSUME NEW user \in Users, viewDidLoad(user)
      PROVE  PTypeOK'
  <2>1. DBTypeOK' /\ username' \in Names
    BY <1>1, GetUsernameIsTyped DEF viewDidLoad, AppTypeOK
  <2>2. uid' \in Users /\ currentUser' \in Users \cup {None}
    BY <1>1 DEF viewDidLoad
  <2> QED BY <1>1, <2>1, <2>2 DEF viewDidLoad, AppTypeOK, form
<1>2. CASE openSettings \/ textFieldDidChangeSelection \/ alertOk
  <2>1. DBTypeOK'
    BY <1>2, UnchangedIsTyped DEF openSettings, textFieldDidChangeSelection, alertOk
  <2>2. field' \in Names
    BY <1>2 DEF openSettings, textFieldDidChangeSelection, alertOk, AppTypeOK, form
  <2>3. saveEnabled' \in BOOLEAN /\ alert' \in BOOLEAN
    <3>1. saveEnabled' \in {FALSE} \cup {(username \in LongNames)} =>
            saveEnabled' \in BOOLEAN
      <4>1. ASSUME NEW b \in BOOLEAN, NEW x \in {FALSE} \cup {b} PROVE x \in BOOLEAN
        OBVIOUS
      <4>2. (username \in LongNames) \in BOOLEAN
        OBVIOUS
      <4> QED BY <4>1, <4>2, Zenon
    <3>2. saveEnabled' = (field' \in LongNames) => saveEnabled' \in BOOLEAN
      OBVIOUS
    <3> QED BY <1>2, <3>1, <3>2
      DEF openSettings, textFieldDidChangeSelection, alertOk, AppTypeOK, form
  <2> QED BY <1>2, <2>1, <2>2, <2>3
    DEF openSettings, textFieldDidChangeSelection, alertOk, AppTypeOK
<1>3. CASE saveChangesButtonTapped
  <2>1. field \in LongNames
    BY <1>3 DEF saveChangesButtonTapped, AppTypeOK, Names
  <2>2. [name |-> field, visible |-> TRUE] \in Operation
    BY <2>1 DEF Operation
  <2>3. operations' \in Seq(Operation)
    BY <1>3, <2>2, AppendIsSeq DEF saveChangesButtonTapped, AppTypeOK
  <2> QED BY <1>3, <2>3, UnchangedIsTyped DEF saveChangesButtonTapped, AppTypeOK, form
<1>4. CASE firebaseOp
  <2>1. operations \in Seq(Operation) /\ operations # <<>>
    BY <1>4 DEF firebaseOp, AppTypeOK
  <2>2. Head(operations) \in Operation /\ Tail(operations) \in Seq(Operation)
    BY <2>1
  <2>3. Head(operations).name \in LongNames /\ Head(operations).visible \in BOOLEAN
    BY <2>2 DEF Operation
  <2>4. DBTypeOK'
    <3>1. CASE currentUser = None
      BY <1>4, <3>1, UnchangedIsTyped DEF firebaseOp, updateUsername
    <3>2. CASE currentUser # None
      <4>1. currentUser \in Paths /\ Head(operations).name \in Values
        BY <2>3, <3>2, ProfileAssumption DEF AppTypeOK
      <4> QED BY <1>4, <3>2, <4>1, MergeIsTyped DEF firebaseOp, updateUsername
    <3> QED BY <3>1, <3>2
  <2>5. timers' \in Seq(BOOLEAN)
    BY <1>4, <2>3, AppendIsSeq DEF firebaseOp, AppTypeOK
  <2> QED BY <1>4, <2>1, <2>2, <2>4, <2>5 DEF firebaseOp, AppTypeOK, form
<1>5. CASE TimerFires
  <2>1. timers \in Seq(BOOLEAN) /\ timers # <<>>
    BY <1>5 DEF TimerFires, AppTypeOK
  <2>2. Head(timers) \in BOOLEAN /\ Tail(timers) \in Seq(BOOLEAN)
    BY <2>1
  <2>3. uid \in Users
    BY <2>1 DEF AppTypeOK
  <2>4. DBTypeOK' /\ username' \in Names
    BY <1>5, <2>3, GetUsernameIsTyped DEF TimerFires, AppTypeOK
  <2>5. alert' \in BOOLEAN
    BY <1>5 DEF TimerFires
  <2> QED BY <1>5, <2>1, <2>2, <2>4, <2>5 DEF TimerFires, AppTypeOK, form
<1>6. CASE Back \/ logoutButtonTapped
  <2>1. operations' \in Seq(Operation) /\ timers' \in Seq(BOOLEAN)
    BY <1>6, LeaveIsTyped DEF Back, logoutButtonTapped, AppTypeOK
  <2>2. screen = "settings" /\ screen' \in {"table", "login"}
    BY <1>6 DEF Back, logoutButtonTapped
  <2> QED
    BY <1>6, <2>1, <2>2, UnchangedIsTyped DEF Back, logoutButtonTapped, AppTypeOK, Names
<1> QED BY <1>1, <1>2, <1>3, <1>4, <1>5, <1>6 DEF App

(* A username that arrives. *)
LEMMA UsernameArrivesIsTyped ==
  ASSUME PTypeOK, UsernameArrives
  PROVE  PTypeOK'
<1>1. DBTypeOK'
  BY LinkIsTyped, GetAnsweredIsTyped
  DEF UsernameArrives, PTypeOK, DBTypeOK, GetAnswered, DataTypeOK
<1>2. Head(down) \in Response
  BY TailIsTyped DEF UsernameArrives, GetAnswered, Arrives, PTypeOK, DBTypeOK
<1>3. username' \in Names
  BY <1>2, ProfileAssumption DEF UsernameArrives, Response, PTypeOK, AppTypeOK, Names
<1> QED BY <1>1, <1>3 DEF UsernameArrives, PTypeOK, AppTypeOK, form

(* Every step keeps the types. *)
LEMMA TypesStep ==
  ASSUME PTypeOK, [PNext]_pvars
  PROVE  PTypeOK'
<1>1. CASE App
  BY <1>1, AppIsTyped
<1>2. CASE UsernameArrives
  BY <1>2, UsernameArrivesIsTyped
<1>3. CASE Internal /\ UNCHANGED app
  BY <1>3, LinkIsTyped, InternalIsTyped DEF PTypeOK, DBTypeOK, AppTypeOK, app
<1>4. CASE UNCHANGED pvars
  BY <1>4, UnchangedIsTyped DEF pvars, PTypeOK, AppTypeOK, app
<1> QED BY <1>1, <1>2, <1>3, <1>4 DEF PNext

(* The client and the app are type-correct: in particular a read or a write
   is never made for nobody. *)
THEOREM ProfileTypes == PSpec => []PTypeOK
  BY TypesInit, TypesStep, PTL DEF PSpec

-------------------------------------------------------------------------------
(* How the steps change what is under way. *)

(* The requests on their way, in the order they will be answered in. *)
LEMMA PipeIs ==
  ASSUME NEW d \in Seq(Response), NEW u \in Seq(Request)
  PROVE  /\ PipeOf(d, u) \in Seq(Request)
         /\ DOMAIN PipeOf(d, u) = 1..(Len(d) + Len(u))
         /\ Len(PipeOf(d, u)) = Len(d) + Len(u)
         /\ \A i \in 1..Len(d) : PipeOf(d, u)[i] = d[i].request
         /\ \A i \in 1..Len(u) : PipeOf(d, u)[Len(d) + i] = u[i]
<1>1. Len(d) \in Nat /\ Len(u) \in Nat /\ Len(d) + Len(u) \in Nat
  OBVIOUS
<1>2. ASSUME NEW i \in 1..Len(d) PROVE d[i].request \in Request /\ PipeOf(d, u)[i] = d[i].request
  <2>1. d[i] \in Response
    OBVIOUS
  <2>2. i \in 1..(Len(d) + Len(u)) /\ i <= Len(d)
    BY <1>1
  <2> QED BY <2>1, <2>2 DEF Response, PipeOf
<1>3. ASSUME NEW i \in 1..Len(u) PROVE u[i] \in Request /\ PipeOf(d, u)[Len(d) + i] = u[i]
  <2>1. Len(d) + i \in 1..(Len(d) + Len(u)) /\ ~(Len(d) + i <= Len(d)) /\ (Len(d) + i) - Len(d) = i
    BY <1>1
  <2> QED BY <2>1 DEF PipeOf
<1>4. ASSUME NEW i \in 1..(Len(d) + Len(u)) PROVE PipeOf(d, u)[i] \in Request
  <2>1. CASE i <= Len(d)
    BY <1>1, <1>2, <2>1
  <2>2. CASE ~(i <= Len(d))
    <3>1. i - Len(d) \in 1..Len(u) /\ Len(d) + (i - Len(d)) = i
      BY <1>1, <2>2
    <3> QED BY <1>3, <3>1
  <2> QED BY <2>1, <2>2
<1>5. DOMAIN PipeOf(d, u) = 1..(Len(d) + Len(u))
  BY DEF PipeOf
<1>6. PipeOf(d, u) \in [1..(Len(d) + Len(u)) -> Request]
  BY <1>4 DEF PipeOf
<1>7. PipeOf(d, u) \in Seq(Request)
  BY <1>1, <1>6, FunctionIsSeq
<1> QED BY <1>1, <1>2, <1>3, <1>5, <1>7

(* The server moves a request to the answers: the order stays. *)
LEMMA PipeServed ==
  ASSUME NEW d \in Seq(Response), NEW u \in Seq(Request), u # <<>>, NEW r \in Response,
         r.request = Head(u)
  PROVE  PipeOf(Append(d, r), Tail(u)) = PipeOf(d, u)
<1> DEFINE d2 == Append(d, r)
           u2 == Tail(u)
<1>1. d2 \in Seq(Response) /\ Len(d2) = Len(d) + 1 /\ \A i \in 1..Len(d) : d2[i] = d[i]
  OBVIOUS
<1>2. d2[Len(d) + 1] = r
  OBVIOUS
<1>3. u2 \in Seq(Request) /\ Len(u2) = Len(u) - 1 /\ \A i \in 1..(Len(u) - 1) : u2[i] = u[i + 1]
  OBVIOUS
<1>4. Head(u) = u[1] /\ Len(u) \in Nat \ {0} /\ Len(d) \in Nat
  OBVIOUS
<1> HIDE DEF d2, u2
<1>5. Len(d2) + Len(u2) = Len(d) + Len(u)
  BY <1>1, <1>3, <1>4
<1>6. ASSUME NEW i \in 1..(Len(d) + Len(u)) PROVE PipeOf(d2, u2)[i] = PipeOf(d, u)[i]
  <2>1. PipeOf(d2, u2)[i] = IF i <= Len(d2) THEN d2[i].request ELSE u2[i - Len(d2)]
    BY <1>5 DEF PipeOf
  <2>2. PipeOf(d, u)[i] = IF i <= Len(d) THEN d[i].request ELSE u[i - Len(d)]
    BY DEF PipeOf
  <2>3. CASE i <= Len(d)
    <3>1. i \in 1..Len(d) /\ i <= Len(d2)
      BY <1>1, <1>4, <2>3
    <3> QED BY <1>1, <2>1, <2>2, <3>1
  <2>4. CASE i = Len(d) + 1
    <3>1. i <= Len(d2) /\ ~(i <= Len(d)) /\ i - Len(d) = 1
      BY <1>1, <1>4, <2>4
    <3> QED BY <1>2, <1>4, <2>1, <2>2, <2>4, <3>1
  <2>5. CASE i > Len(d) + 1
    <3>1. /\ ~(i <= Len(d2)) /\ ~(i <= Len(d)) /\ i - Len(d2) \in 1..(Len(u) - 1)
          /\ (i - Len(d2)) + 1 = i - Len(d)
      BY <1>1, <1>4, <2>5
    <3>2. u2[i - Len(d2)] = u[(i - Len(d2)) + 1]
      BY <1>3, <3>1
    <3> QED BY <2>1, <2>2, <3>1, <3>2
  <2> QED BY <1>4, <2>3, <2>4, <2>5
<1>7. PipeOf(d2, u2) = PipeOf(d, u)
  <2>1. /\ DOMAIN PipeOf(d2, u2) = 1..(Len(d) + Len(u))
        /\ DOMAIN PipeOf(d, u) = 1..(Len(d) + Len(u))
    BY <1>5 DEF PipeOf
  <2> QED BY <1>6, <2>1 DEF PipeOf
<1> QED BY <1>7 DEF d2, u2

(* A request that is sent comes last. *)
LEMMA PipeSent ==
  ASSUME NEW d \in Seq(Response), NEW u \in Seq(Request), NEW r \in Request
  PROVE  LET p == PipeOf(d, u)
             q == PipeOf(d, Append(u, r))
         IN  /\ DOMAIN q = 1..(Len(p) + 1) /\ q[Len(p) + 1] = r
             /\ \A i \in DOMAIN p : q[i] = p[i]
<1> DEFINE v == Append(u, r)
<1>1. /\ v \in Seq(Request) /\ Len(v) = Len(u) + 1 /\ v[Len(u) + 1] = r
      /\ \A i \in 1..Len(u) : v[i] = u[i]
  OBVIOUS
<1>2. Len(d) \in Nat /\ Len(u) \in Nat
  OBVIOUS
<1> HIDE DEF v
<1>3. /\ Len(PipeOf(d, u)) = Len(d) + Len(u)
      /\ DOMAIN PipeOf(d, u) = 1..(Len(d) + Len(u))
      /\ DOMAIN PipeOf(d, v) = 1..(Len(d) + Len(u) + 1)
  BY <1>1, <1>2, PipeIs
<1>4. PipeOf(d, v)[Len(d) + (Len(u) + 1)] = r
  <2>1. Len(u) + 1 \in 1..Len(v)
    BY <1>1, <1>2
  <2> QED BY <1>1, <2>1, PipeIs
<1>5. ASSUME NEW i \in 1..(Len(d) + Len(u)) PROVE PipeOf(d, v)[i] = PipeOf(d, u)[i]
  <2>1. i \in 1..(Len(d) + Len(v)) /\ (~(i <= Len(d)) => i - Len(d) \in 1..Len(u))
    BY <1>1, <1>2
  <2> QED BY <1>1, <2>1 DEF PipeOf
<1>6. Len(d) + (Len(u) + 1) = Len(d) + Len(u) + 1
  BY <1>2
<1> QED BY <1>3, <1>4, <1>5, <1>6 DEF v

(* One that is answered came first. *)
LEMMA PipeAnswered ==
  ASSUME NEW d \in Seq(Response), NEW u \in Seq(Request), d # <<>>
  PROVE  LET p == PipeOf(d, u)
             q == PipeOf(Tail(d), u)
         IN  /\ p[1] = Head(d).request /\ Len(p) >= 1
             /\ DOMAIN q = 1..(Len(p) - 1)
             /\ \A i \in DOMAIN q : q[i] = p[i + 1]
<1> DEFINE e == Tail(d)
<1>1. /\ e \in Seq(Response) /\ Len(e) = Len(d) - 1
      /\ \A i \in 1..(Len(d) - 1) : e[i] = d[i + 1]
  OBVIOUS
<1>2. Head(d) = d[1] /\ Len(d) \in Nat \ {0} /\ Len(u) \in Nat
  OBVIOUS
<1> HIDE DEF e
<1>3. /\ Len(PipeOf(d, u)) = Len(d) + Len(u) /\ PipeOf(d, u)[1] = d[1].request
      /\ DOMAIN PipeOf(e, u) = 1..(Len(d) - 1 + Len(u))
  <2>1. 1 \in 1..Len(d)
    BY <1>2
  <2>2. DOMAIN PipeOf(e, u) = 1..(Len(e) + Len(u))
    BY DEF PipeOf
  <2> QED BY <1>1, <2>1, <2>2, PipeIs
<1>4. ASSUME NEW i \in 1..(Len(d) - 1 + Len(u)) PROVE PipeOf(e, u)[i] = PipeOf(d, u)[i + 1]
  <2>1. /\ i + 1 \in 1..(Len(d) + Len(u)) /\ i \in 1..(Len(e) + Len(u))
        /\ (i <= Len(e)) <=> (i + 1 <= Len(d))
        /\ i - Len(e) = (i + 1) - Len(d)
        /\ i <= Len(e) => i \in 1..(Len(d) - 1)
    BY <1>1, <1>2
  <2> QED BY <1>1, <2>1 DEF PipeOf
<1> QED BY <1>2, <1>3, <1>4 DEF e

-------------------------------------------------------------------------------
(* Every step keeps the order. *)

(* At first. *)
LEMMA WireInit == PInit => WireInv /\ AckedIsNotUndone
<1> SUFFICES ASSUME PInit PROVE WireInv /\ AckedIsNotUndone
  OBVIOUS
<1>1. DOMAIN Pipe = {}
  BY DEF PInit, DBInit, Pipe, PipeOf
<1> QED
  BY <1>1 DEF PInit, DBInit, WireInv, WritesInOrder, AnswersAreTrue, RestoredOnce, NoData,
              AckedIsNotUndone

(* Steps that leave writes and wire alone. *)
LEMMA WireSame ==
  ASSUME WireInv,
         UNCHANGED <<connectionState, outstandingPuts, putCounter, up, down, server, acked>>
  PROVE  WireInv'
<1>1. Pipe' = Pipe
  BY DEF Pipe
<1> QED BY <1>1 DEF WireInv, WritesInOrder, AnswersAreTrue, RestoredOnce

(* Without a connection nothing is under way. *)
LEMMA WireIdle ==
  ASSUME WireInv, up' = <<>>, down' = <<>>, ~connected',
         UNCHANGED <<outstandingPuts, putCounter, acked>>
  PROVE  WireInv'
<1>1. DOMAIN Pipe' = {}
  BY DEF Pipe, PipeOf
<1> QED
  BY <1>1 DEF WireInv, WritesInOrder, AnswersAreTrue, RestoredOnce, connected

(* A request that is neither a write nor the one that restores the state. *)
Plain(request) == ~IsPut(request) /\ ~IsRestore(request)

(* A request that is no write is sent. *)
LEMMA WireSend ==
  ASSUME WireInv, QueueTypeOK, NEW r \in Request, Plain(r), up' = Append(up, r),
         UNCHANGED <<connectionState, outstandingPuts, putCounter, down, server, acked>>
  PROVE  WireInv'
<1>1. /\ DOMAIN Pipe' = 1..(Len(Pipe) + 1) /\ Pipe'[Len(Pipe) + 1] = r
      /\ \A i \in DOMAIN Pipe : Pipe'[i] = Pipe[i]
  BY PipeSent DEF QueueTypeOK, Pipe
<1>2. DOMAIN Pipe = 1..Len(Pipe) /\ Len(Pipe) \in Nat
  BY PipeIs DEF QueueTypeOK, Pipe
<1>3. Pipe # <<>> => Pipe' # <<>>
  BY <1>1, <1>2
<1> HIDE DEF Pipe
<1>4. WritesInOrder'
  BY <1>1, <1>2 DEF WireInv, WritesInOrder, Plain
<1>5. AnswersAreTrue'
  BY DEF WireInv, AnswersAreTrue
<1>6. RestoredOnce'
  BY <1>1, <1>2, <1>3 DEF WireInv, RestoredOnce, Plain
<1> QED BY <1>4, <1>5, <1>6 DEF WireInv

(* A new write. *)
LEMMA WireMerge ==
  ASSUME WireInv, DBTypeOK, NEW path \in Paths, NEW value \in Values,
         mergeData(path, value)
  PROVE  WireInv'
<1> DEFINE put == [n |-> putCounter + 1, path |-> path, value |-> value]
<1>1. put \in Put /\ put.n = putCounter + 1 /\ put.path = path
  BY DEF Put, DBTypeOK, QueueTypeOK
<1>2. /\ putCounter' = putCounter + 1 /\ outstandingPuts' = Append(outstandingPuts, put)
      /\ up' = IF canSend THEN Append(up, PutRequest(put)) ELSE up
      /\ UNCHANGED <<connectionState, down, server, acked>>
  BY DEF mergeData, connection
<1> HIDE DEF put
<1>3. /\ outstandingPuts \in Seq(Put) /\ Len(outstandingPuts) \in Nat
      /\ DOMAIN outstandingPuts' = 1..(Len(outstandingPuts) + 1)
      /\ outstandingPuts'[Len(outstandingPuts) + 1] = put
      /\ \A i \in 1..Len(outstandingPuts) : outstandingPuts'[i] = outstandingPuts[i]
      /\ DOMAIN outstandingPuts = 1..Len(outstandingPuts)
  BY <1>1, <1>2 DEF DBTypeOK, QueueTypeOK
<1>4. putCounter \in Nat /\ acked \in [Paths -> Nat]
  BY DEF DBTypeOK, QueueTypeOK, DataTypeOK
<1>5. DOMAIN Pipe = 1..Len(Pipe) /\ Len(Pipe) \in Nat /\ Pipe \in Seq(Request)
  BY PipeIs DEF DBTypeOK, QueueTypeOK, Pipe
<1>6. ASSUME NEW i \in DOMAIN Pipe, IsPut(Pipe[i]) PROVE Pipe[i].put \in Put
  <2>1. Pipe[i] \in Request
    BY <1>5
  <2> QED BY <1>6, <2>1 DEF IsPut, Request, ReadRequest
<1>7. ASSUME NEW p \in Put PROVE p.n \in Nat /\ p.path \in Paths
  BY DEF Put
<1>8. \A i \in 1..Len(outstandingPuts) : outstandingPuts[i] \in Put
  BY <1>3
<1>9. AnswersAreTrue'
  BY <1>2 DEF WireInv, AnswersAreTrue
<1>10. CASE canSend
  <2>1. PutRequest(put) \in Request
    BY <1>1, RequestsAreTyped
  <2>2. /\ DOMAIN Pipe' = 1..(Len(Pipe) + 1) /\ Pipe'[Len(Pipe) + 1] = PutRequest(put)
        /\ \A i \in DOMAIN Pipe : Pipe'[i] = Pipe[i]
    BY <1>2, <1>10, <2>1, PipeSent DEF DBTypeOK, QueueTypeOK, Pipe
  <2>3. /\ IsPut(PutRequest(put)) /\ PutRequest(put).put = put /\ ~IsRestore(PutRequest(put))
    BY DEF IsPut, IsRestore, PutRequest
  <2> HIDE DEF Pipe
  <2>4. WritesInOrder'
    <3>1. ASSUME NEW i \in DOMAIN Pipe', NEW j \in DOMAIN Pipe', i < j, IsPut(Pipe'[i]),
                 IsPut(Pipe'[j])
          PROVE  Pipe'[i].put.n < Pipe'[j].put.n
      <4>1. i \in DOMAIN Pipe
        BY <1>5, <2>2, <3>1
      <4>2. CASE j \in DOMAIN Pipe
        BY <2>2, <3>1, <4>1, <4>2 DEF WireInv, WritesInOrder
      <4>3. CASE j = Len(Pipe) + 1
        <5>1. Pipe[i].put.n <= putCounter /\ Pipe[i].put.n \in Nat
          BY <1>6, <1>7, <2>2, <3>1, <4>1 DEF WireInv, WritesInOrder
        <5> QED BY <1>1, <1>4, <2>2, <2>3, <4>1, <4>3, <5>1
      <4> QED BY <1>5, <2>2, <4>2, <4>3
    <3>2. ASSUME NEW i \in DOMAIN Pipe', IsPut(Pipe'[i])
          PROVE  /\ Pipe'[i].put.n <= putCounter'
                 /\ acked'[Pipe'[i].put.path] < Pipe'[i].put.n
      <4>1. CASE i \in DOMAIN Pipe
        <5>1. /\ Pipe[i].put.n <= putCounter /\ acked[Pipe[i].put.path] < Pipe[i].put.n
              /\ Pipe[i].put.n \in Nat
          BY <1>6, <1>7, <2>2, <3>2, <4>1 DEF WireInv, WritesInOrder
        <5> QED BY <1>2, <1>4, <2>2, <4>1, <5>1
      <4>2. CASE i = Len(Pipe) + 1
        <5>1. acked[path] <= putCounter /\ acked[path] \in Nat
          BY <1>4 DEF WireInv, WritesInOrder
        <5> QED BY <1>1, <1>2, <1>4, <2>2, <2>3, <4>2, <5>1
      <4> QED BY <1>5, <2>2, <4>1, <4>2
    <3>3. WritesInOrder!2'
      BY <1>1, <1>3, <1>4, <1>7, <1>8 DEF WireInv, WritesInOrder
    <3>4. WritesInOrder!4'
      BY <1>1, <1>2, <1>3, <1>4, <1>7, <1>8 DEF WireInv, WritesInOrder
    <3>5. WritesInOrder!5'
      BY <1>2, <1>4 DEF WireInv, WritesInOrder
    <3> QED BY <3>1, <3>2, <3>3, <3>4, <3>5 DEF WritesInOrder
  <2>5. RestoredOnce'
    <3>1. ASSUME NEW i \in DOMAIN Pipe' PROVE ~IsRestore(Pipe'[i])
      <4>1. CASE i \in DOMAIN Pipe
        BY <1>10, <2>2, <4>1 DEF WireInv, RestoredOnce, canSend
      <4>2. CASE i = Len(Pipe) + 1
        BY <2>2, <2>3, <4>2
      <4> QED BY <1>5, <2>2, <4>1, <4>2
    <3>2. ASSUME NEW i \in DOMAIN outstandingPuts'
          PROVE  \E j \in DOMAIN Pipe' : IsPut(Pipe'[j]) /\ Pipe'[j].put.n = outstandingPuts'[i].n
      <4>1. CASE i \in DOMAIN outstandingPuts
        <5>1. PICK j \in DOMAIN Pipe : IsPut(Pipe[j]) /\ Pipe[j].put.n = outstandingPuts[i].n
          BY <1>10, <4>1 DEF WireInv, RestoredOnce, canSend
        <5>2. j \in DOMAIN Pipe' /\ Pipe'[j] = Pipe[j] /\ outstandingPuts'[i] = outstandingPuts[i]
          BY <1>3, <1>5, <2>2, <4>1
        <5> QED BY <5>1, <5>2
      <4>2. CASE i = Len(outstandingPuts) + 1
        <5>1. Len(Pipe) + 1 \in DOMAIN Pipe'
          BY <1>5, <2>2
        <5> QED BY <1>3, <2>2, <2>3, <4>2, <5>1
      <4> QED BY <1>3, <4>1, <4>2
    <3>3. connectionState' = "Connected"
      BY <1>2, <1>10 DEF canSend
    <3> QED BY <3>1, <3>2, <3>3 DEF RestoredOnce
  <2> QED BY <1>9, <2>4, <2>5 DEF WireInv
<1>11. CASE ~canSend
  <2>1. Pipe' = Pipe
    BY <1>2, <1>11 DEF Pipe
  <2> HIDE DEF Pipe
  <2>2. WritesInOrder'
    <3>1. WritesInOrder!1' /\ WritesInOrder!2'
      BY <1>1, <1>3, <1>4, <1>7, <1>8, <2>1 DEF WireInv, WritesInOrder
    <3>2. WritesInOrder!3'
      BY <1>2, <1>4, <1>6, <1>7, <2>1 DEF WireInv, WritesInOrder
    <3>3. WritesInOrder!4'
      BY <1>1, <1>2, <1>3, <1>4, <1>7, <1>8 DEF WireInv, WritesInOrder
    <3>4. WritesInOrder!5'
      BY <1>2, <1>4 DEF WireInv, WritesInOrder
    <3> QED BY <3>1, <3>2, <3>3, <3>4 DEF WritesInOrder
  <2>3. RestoredOnce'
    BY <1>2, <1>11, <2>1 DEF WireInv, RestoredOnce, canSend
  <2> QED BY <1>9, <2>2, <2>3 DEF WireInv
<1> QED BY <1>10, <1>11

(* The writes on their way and the outstanding ones have numbers and places. *)
LEMMA PutsAreTyped ==
  ASSUME DBTypeOK
  PROVE  /\ DOMAIN Pipe = 1..Len(Pipe) /\ Len(Pipe) \in Nat
         /\ \A i \in DOMAIN Pipe : IsPut(Pipe[i]) =>
              Pipe[i].put.n \in Nat /\ Pipe[i].put.path \in Paths
         /\ DOMAIN outstandingPuts = 1..Len(outstandingPuts) /\ Len(outstandingPuts) \in Nat
         /\ \A i \in DOMAIN outstandingPuts :
              outstandingPuts[i].n \in Nat /\ outstandingPuts[i].path \in Paths
         /\ \A p \in Paths : acked[p] \in Nat /\ server[p].n \in Nat
<1>1. Pipe \in Seq(Request) /\ outstandingPuts \in Seq(Put)
  BY PipeIs DEF DBTypeOK, QueueTypeOK, Pipe
<1>2. \A r \in Request : IsPut(r) => r.put \in Put
  BY DEF IsPut, Request, ReadRequest
<1>3. \A p \in Put : p.n \in Nat /\ p.path \in Paths
  BY DEF Put
<1>4. \A w \in Written : w.n \in Nat
  BY DEF Written
<1>5. \A p \in Paths : acked[p] \in Nat /\ server[p].n \in Nat
  BY <1>4 DEF DBTypeOK, DataTypeOK
<1> HIDE DEF Pipe
<1>6. DOMAIN Pipe = 1..Len(Pipe) /\ Len(Pipe) \in Nat
  BY <1>1
<1>7. DOMAIN outstandingPuts = 1..Len(outstandingPuts) /\ Len(outstandingPuts) \in Nat
  BY <1>1
<1>8. \A i \in DOMAIN Pipe : Pipe[i] \in Request
  BY <1>1
<1>9. \A i \in DOMAIN outstandingPuts : outstandingPuts[i] \in Put
  BY <1>1
<1> QED BY <1>2, <1>3, <1>5, <1>6, <1>7, <1>8, <1>9

(* The server applies the oldest of the writes under way: it is newer than all
   that were acknowledged and all that are answered. *)
LEMMA WireServe ==
  ASSUME WireInv, AckedIsNotUndone, DBTypeOK, Serve
  PROVE  WireInv' /\ AckedIsNotUndone'
<1>0. PICK ok \in BOOLEAN : \E value : Answer(ok, value)
  BY Zenon DEF Serve
<1>1. PICK value : Answer(ok, value)
  BY <1>0, Zenon
<1> DEFINE r == [request |-> Head(up), ok |-> ok, value |-> value]
<1>2. /\ up \in Seq(Request) /\ up # <<>> /\ down \in Seq(Response) /\ down' \in Seq(Response)
      /\ Head(up) \in Request /\ Len(down) \in Nat
  <2>1. up # <<>> /\ up \in Seq(Request) /\ down \in Seq(Response)
    BY DEF Serve, DBTypeOK, QueueTypeOK
  <2>2. QueueTypeOK'
    BY ServeIsTyped DEF DBTypeOK
  <2>3. down' \in Seq(Response)
    BY <2>2 DEF QueueTypeOK
  <2> QED BY <2>1, <2>3
<1>3. r.request = Head(up) /\ r.ok = ok /\ down' = Append(down, r) /\ up' = Tail(up)
  BY <1>1 DEF Answer
<1> HIDE DEF r
<1>4. r \in Response
  <2>1. Len(down) + 1 \in DOMAIN down' /\ down'[Len(down) + 1] = r
    BY <1>2, <1>3
  <2> QED BY <1>2, <2>1
<1>5. Pipe' = Pipe
  BY <1>2, <1>3, <1>4, PipeServed DEF Pipe
<1>6. /\ DOMAIN down = 1..Len(down) /\ DOMAIN down' = 1..(Len(down) + 1)
      /\ \A i \in DOMAIN down : down'[i] = down[i] /\ Pipe[i] = down[i].request /\ i \in DOMAIN Pipe
      /\ down'[Len(down) + 1] = r /\ Len(down) + 1 \in DOMAIN Pipe
      /\ Pipe[Len(down) + 1] = Head(up)
  <2>1. /\ DOMAIN down = 1..Len(down) /\ DOMAIN down' = 1..(Len(down) + 1)
        /\ \A i \in DOMAIN down : down'[i] = down[i]
        /\ down'[Len(down) + 1] = r
    BY <1>2, <1>3, <1>4
  <2>2. 1 \in 1..Len(up) /\ up[1] = Head(up) /\ Len(up) \in Nat
    BY <1>2
  <2>3. DOMAIN Pipe = 1..(Len(down) + Len(up)) /\ \A i \in 1..Len(down) : Pipe[i] = down[i].request
    BY <1>2, PipeIs DEF Pipe
  <2>4. Pipe[Len(down) + 1] = up[1]
    BY <1>2, <2>2, PipeIs DEF Pipe
  <2> QED BY <1>2, <2>1, <2>2, <2>3, <2>4
<1> HIDE DEF Pipe
<1>7. UNCHANGED <<connectionState, outstandingPuts, putCounter, acked>>
  BY DEF Serve, connection, requests
<1>8. WritesInOrder' /\ RestoredOnce'
  BY <1>5, <1>7 DEF WireInv, WritesInOrder, RestoredOnce
<1>9. CASE UNCHANGED server /\ ~(IsPut(Head(up)) /\ ok)
  <2>1. AnswersAreTrue'
    BY <1>3, <1>6, <1>9 DEF WireInv, AnswersAreTrue
  <2>2. AckedIsNotUndone'
    BY <1>7, <1>9 DEF AckedIsNotUndone
  <2> QED BY <1>8, <2>1, <2>2 DEF WireInv
<1>10. CASE /\ IsPut(Head(up))
            /\ server' = [server EXCEPT ![Head(up).put.path] =
                            [n |-> Head(up).put.n, value |-> Head(up).put.value]]
  <2> DEFINE put == Head(up).put
  <2>1. put.path \in Paths /\ put.n \in Nat /\ acked[put.path] < put.n
    BY <1>6, <1>10, PutsAreTyped DEF WireInv, WritesInOrder
  <2>2. server'[put.path].n = put.n /\ \A p \in Paths : p # put.path => server'[p] = server[p]
    BY <1>10, <2>1 DEF DBTypeOK, DataTypeOK
  <2>3. AckedIsNotUndone'
    BY <1>7, <2>1, <2>2, PutsAreTyped DEF AckedIsNotUndone
  <2>4. AnswersAreTrue'
    <3> SUFFICES ASSUME NEW i \in DOMAIN down', IsPut(down'[i].request), down'[i].ok
                 PROVE  down'[i].request.put.n <= server'[down'[i].request.put.path].n
      BY DEF AnswersAreTrue
    <3>1. CASE i = Len(down) + 1
      BY <1>3, <1>6, <2>1, <2>2, <3>1
    <3>2. CASE i \in DOMAIN down
      <4>1. IsPut(Pipe[i]) /\ i < Len(down) + 1 /\ i \in DOMAIN Pipe /\ Pipe[i] = down'[i].request
        BY <1>2, <1>6, <3>2
      <4>2. Pipe[i].put.n < put.n /\ Pipe[i].put.n \in Nat /\ Pipe[i].put.path \in Paths
        BY <1>6, <1>10, <4>1, PutsAreTyped DEF WireInv, WritesInOrder
      <4>3. Pipe[i].put.n <= server[Pipe[i].put.path].n
        BY <1>6, <3>2, <4>1 DEF WireInv, AnswersAreTrue
      <4> QED BY <2>1, <2>2, <4>1, <4>2, <4>3
    <3> QED BY <1>6, <3>1, <3>2
  <2> QED BY <1>8, <2>3, <2>4 DEF WireInv
<1>11. \/ UNCHANGED server /\ ~(IsPut(Head(up)) /\ ok)
       \/ /\ IsPut(Head(up))
          /\ server' = [server EXCEPT ![Head(up).put.path] =
                          [n |-> Head(up).put.n, value |-> Head(up).put.value]]
  <2>1. ASSUME NEW b \in BOOLEAN, NEW v, Answer(b, v) PROVE b = ok
    <3>1. down' = Append(down, [request |-> Head(up), ok |-> b, value |-> v])
      BY <2>1 DEF Answer
    <3>2. down'[Len(down) + 1] = [request |-> Head(up), ok |-> b, value |-> v]
      BY <1>2, <3>1
    <3> QED BY <1>3, <1>6, <3>2
  <2> QED BY <2>1 DEF Serve, IsPut
<1> QED BY <1>9, <1>10, <1>11

(* An answer: what is under way loses its first request. *)
LEMMA PipeTail ==
  ASSUME DBTypeOK, down # <<>>, down' = Tail(down), UNCHANGED up
  PROVE  /\ Len(Pipe) >= 1 /\ Pipe[1] = Head(down).request
         /\ DOMAIN Pipe' = 1..(Len(Pipe) - 1)
         /\ \A i \in DOMAIN Pipe' : Pipe'[i] = Pipe[i + 1] /\ i + 1 \in DOMAIN Pipe
         /\ DOMAIN down' = 1..(Len(down) - 1)
         /\ \A i \in DOMAIN down' : down'[i] = down[i + 1] /\ i + 1 \in DOMAIN down
<1>1. down \in Seq(Response) /\ up \in Seq(Request)
  BY DEF DBTypeOK, QueueTypeOK
<1>2. /\ Len(Pipe) >= 1 /\ Pipe[1] = Head(down).request
      /\ DOMAIN Pipe' = 1..(Len(Pipe) - 1)
      /\ \A i \in DOMAIN Pipe' : Pipe'[i] = Pipe[i + 1]
  BY <1>1, PipeAnswered DEF Pipe
<1>3. /\ DOMAIN down' = 1..(Len(down) - 1)
      /\ \A i \in DOMAIN down' : down'[i] = down[i + 1] /\ i + 1 \in DOMAIN down
  BY <1>1
<1>4. DOMAIN Pipe = 1..Len(Pipe) /\ Len(Pipe) \in Nat
  BY PutsAreTyped
<1> HIDE DEF Pipe
<1>5. \A i \in DOMAIN Pipe' : i + 1 \in DOMAIN Pipe
  BY <1>2, <1>4
<1> QED BY <1>2, <1>3, <1>5

(* The answer to a plain request on a connection that is restored. *)
LEMMA WireAnswered ==
  ASSUME WireInv, DBTypeOK, connected, down # <<>>, Plain(Head(down).request),
         down' = Tail(down), connectionState' \in {connectionState, "Connected"},
         UNCHANGED <<up, outstandingPuts, putCounter, server, acked>>
  PROVE  WireInv'
<1> USE PipeTail, PutsAreTyped
<1>1. connectionState = "Connected" /\ connectionState' = "Connected"
  BY DEF WireInv, RestoredOnce, connected, Plain
<1> HIDE DEF Pipe
<1>2. WritesInOrder'
  <2>1. ASSUME NEW i \in DOMAIN Pipe', NEW j \in DOMAIN Pipe', i < j,
               IsPut(Pipe'[i]), IsPut(Pipe'[j])
        PROVE  Pipe'[i].put.n < Pipe'[j].put.n
    <3>1. /\ Pipe'[i] = Pipe[i + 1] /\ i + 1 \in DOMAIN Pipe
          /\ Pipe'[j] = Pipe[j + 1] /\ j + 1 \in DOMAIN Pipe /\ i + 1 < j + 1
      BY <2>1
    <3> QED BY <2>1, <3>1 DEF WireInv, WritesInOrder
  <2>2. ASSUME NEW i \in DOMAIN Pipe', IsPut(Pipe'[i])
        PROVE  Pipe'[i].put.n <= putCounter /\ acked[Pipe'[i].put.path] < Pipe'[i].put.n
    <3>1. Pipe'[i] = Pipe[i + 1] /\ i + 1 \in DOMAIN Pipe
      OBVIOUS
    <3> QED BY <2>2, <3>1 DEF WireInv, WritesInOrder
  <2> QED BY <2>1, <2>2 DEF WireInv, WritesInOrder
<1>3. AnswersAreTrue'
  BY DEF WireInv, AnswersAreTrue
<1>4. RestoredOnce'
  <2>1. \A i \in DOMAIN Pipe' : ~IsRestore(Pipe'[i])
    BY <1>1 DEF WireInv, RestoredOnce
  <2>2. ASSUME NEW i \in DOMAIN outstandingPuts'
        PROVE  \E j \in DOMAIN Pipe' : IsPut(Pipe'[j]) /\ Pipe'[j].put.n = outstandingPuts'[i].n
    <3>1. PICK j \in DOMAIN Pipe : IsPut(Pipe[j]) /\ Pipe[j].put.n = outstandingPuts[i].n
      BY <1>1 DEF WireInv, RestoredOnce
    <3>2. j # 1
      BY <3>1 DEF Plain
    <3>3. j - 1 \in DOMAIN Pipe' /\ Pipe'[j - 1] = Pipe[j]
      BY <3>2
    <3> QED BY <3>1, <3>3
  <2> QED BY <1>1, <2>1, <2>2 DEF RestoredOnce
<1> QED BY <1>2, <1>3, <1>4 DEF WireInv

(* The answer to a write: the oldest of those under way, and so of those
   outstanding. *)
LEMMA WirePutAnswered ==
  ASSUME WireInv, AckedIsNotUndone, DBTypeOK, connected, PutAnswered
  PROVE  WireInv' /\ AckedIsNotUndone'
<1> DEFINE put == Head(down).request.put
<1>1. /\ down # <<>> /\ IsPut(Head(down).request) /\ down' = Tail(down)
      /\ UNCHANGED <<connectionState, up, putCounter, server>>
      /\ outstandingPuts' = Removed(outstandingPuts, put.n)
      /\ acked' = IF Head(down).ok THEN [acked EXCEPT ![put.path] = put.n] ELSE acked
  BY DEF PutAnswered, Arrives, IsPut, connection
<1>2. /\ Len(Pipe) >= 1 /\ Pipe[1] = Head(down).request
      /\ DOMAIN Pipe' = 1..(Len(Pipe) - 1)
      /\ \A i \in DOMAIN Pipe' : Pipe'[i] = Pipe[i + 1] /\ i + 1 \in DOMAIN Pipe
      /\ DOMAIN down' = 1..(Len(down) - 1)
      /\ \A i \in DOMAIN down' : down'[i] = down[i + 1] /\ i + 1 \in DOMAIN down
  BY <1>1, PipeTail
<1> HIDE DEF Pipe
<1>3. connectionState = "Connected" /\ 1 \in DOMAIN Pipe
  BY <1>1, <1>2, PutsAreTyped DEF WireInv, RestoredOnce, connected
<1>4. put.n \in Nat /\ put.path \in Paths /\ put.n <= putCounter /\ acked[put.path] < put.n
  BY <1>1, <1>2, <1>3, PutsAreTyped DEF WireInv, WritesInOrder
<1>5. ASSUME NEW i \in DOMAIN Pipe, IsPut(Pipe[i]), i # 1
      PROVE  put.n < Pipe[i].put.n /\ Pipe[i].put.n \in Nat
  <2>1. 1 < i
    BY <1>5, PutsAreTyped
  <2> QED BY <1>1, <1>2, <1>3, <1>5, <2>1, PutsAreTyped DEF WireInv, WritesInOrder
<1>6. ASSUME NEW i \in DOMAIN outstandingPuts, outstandingPuts[i].n # put.n
      PROVE  \E j \in DOMAIN Pipe : /\ j # 1 /\ IsPut(Pipe[j])
                                    /\ Pipe[j].put.n = outstandingPuts[i].n
  BY <1>1, <1>2, <1>3, <1>6 DEF WireInv, RestoredOnce
<1>7. \A i \in DOMAIN outstandingPuts : outstandingPuts[i].n # put.n => put.n < outstandingPuts[i].n
  BY <1>5, <1>6
(* What is left of the writes: those with another number, in order. *)
<1>8. /\ \A i, j \in DOMAIN outstandingPuts' :
            i < j => outstandingPuts'[i].n < outstandingPuts'[j].n
      /\ \A i \in DOMAIN outstandingPuts' : \E k \in DOMAIN outstandingPuts :
            outstandingPuts'[i] = outstandingPuts[k] /\ outstandingPuts[k].n # put.n
  <2>1. outstandingPuts \in Seq(Put)
    BY DEF DBTypeOK, QueueTypeOK
  <2>2. CASE outstandingPuts' = outstandingPuts /\ \A i \in DOMAIN outstandingPuts : outstandingPuts[i].n # put.n
    BY <2>2 DEF WireInv, WritesInOrder
  <2>3. CASE \E i \in DOMAIN outstandingPuts :
                outstandingPuts[i].n = put.n /\ outstandingPuts' = RemovedAt(outstandingPuts, i)
    <3>1. PICK d \in DOMAIN outstandingPuts :
                 outstandingPuts[d].n = put.n /\ outstandingPuts' = RemovedAt(outstandingPuts, d)
      BY <2>3
    <3> DEFINE m(i) == IF i < d THEN i ELSE i + 1
    <3>2. /\ DOMAIN outstandingPuts' = 1..(Len(outstandingPuts) - 1)
          /\ \A i \in DOMAIN outstandingPuts' : outstandingPuts'[i] = outstandingPuts[m(i)]
      <4>1. /\ outstandingPuts' \in Seq(Put) /\ Len(outstandingPuts') = Len(outstandingPuts) - 1
            /\ \A i \in 1..(Len(outstandingPuts) - 1) : outstandingPuts'[i] = outstandingPuts[m(i)]
        BY <2>1, <3>1, RemovedAtIs
      <4>2. DOMAIN outstandingPuts' = 1..Len(outstandingPuts')
        BY <4>1
      <4> QED BY <4>1, <4>2
    <3>3. ASSUME NEW i \in DOMAIN outstandingPuts'
          PROVE  m(i) \in DOMAIN outstandingPuts /\ m(i) # d
      BY <3>1, <3>2, PutsAreTyped
    <3>4. ASSUME NEW i \in DOMAIN outstandingPuts', NEW j \in DOMAIN outstandingPuts', i < j
          PROVE  m(i) < m(j)
      BY <3>1, <3>2, <3>4, PutsAreTyped
    <3>5. ASSUME NEW k \in DOMAIN outstandingPuts, k # d PROVE outstandingPuts[k].n # put.n
      <4>1. k < d \/ d < k
        BY <3>1, <3>5, PutsAreTyped
      <4> QED BY <3>1, <4>1, PutsAreTyped DEF WireInv, WritesInOrder
    <3> HIDE DEF m
    <3> QED BY <3>2, <3>3, <3>4, <3>5 DEF WireInv, WritesInOrder
  <2> QED BY <1>1, <2>1, <2>2, <2>3, RemovedIs
<1>9. \A p \in Paths : acked'[p] = acked[p] \/ (p = put.path /\ acked'[p] = put.n /\ Head(down).ok)
  BY <1>1, <1>4 DEF DBTypeOK, DataTypeOK
<1>10. WritesInOrder'
  <2>1. ASSUME NEW i \in DOMAIN Pipe', NEW j \in DOMAIN Pipe', i < j, IsPut(Pipe'[i]),
               IsPut(Pipe'[j])
        PROVE  Pipe'[i].put.n < Pipe'[j].put.n
    <3>1. i + 1 \in DOMAIN Pipe /\ j + 1 \in DOMAIN Pipe /\ i + 1 < j + 1
      BY <1>2, <2>1, PutsAreTyped
    <3> QED BY <1>2, <2>1, <3>1 DEF WireInv, WritesInOrder
  <2>2. WritesInOrder!2'
    BY <1>8
  <2>3. ASSUME NEW i \in DOMAIN Pipe', IsPut(Pipe'[i])
        PROVE  Pipe'[i].put.n <= putCounter' /\ acked'[Pipe'[i].put.path] < Pipe'[i].put.n
    <3>1. /\ i + 1 \in DOMAIN Pipe /\ i + 1 # 1 /\ Pipe'[i] = Pipe[i + 1] /\ IsPut(Pipe[i + 1])
      BY <1>2, <2>3, PutsAreTyped
    <3>2. put.n < Pipe[i + 1].put.n
      BY <1>5, <3>1
    <3>3. /\ Pipe[i + 1].put.n <= putCounter /\ Pipe[i + 1].put.path \in Paths
          /\ acked[Pipe[i + 1].put.path] < Pipe[i + 1].put.n
      BY <3>1, PutsAreTyped DEF WireInv, WritesInOrder
    <3> QED BY <1>1, <1>9, <3>1, <3>2, <3>3
  <2>4. ASSUME NEW i \in DOMAIN outstandingPuts'
        PROVE  /\ outstandingPuts'[i].n <= putCounter'
               /\ acked'[outstandingPuts'[i].path] < outstandingPuts'[i].n
    <3>1. PICK k \in DOMAIN outstandingPuts :
            outstandingPuts'[i] = outstandingPuts[k] /\ outstandingPuts[k].n # put.n
      BY <1>8
    <3>2. put.n < outstandingPuts[k].n
      BY <1>7, <3>1
    <3>3. /\ outstandingPuts[k].n <= putCounter /\ outstandingPuts[k].path \in Paths
          /\ acked[outstandingPuts[k].path] < outstandingPuts[k].n
      BY PutsAreTyped DEF WireInv, WritesInOrder
    <3> QED BY <1>1, <1>9, <3>1, <3>2, <3>3
  <2>5. WritesInOrder!5'
    BY <1>1, <1>4, <1>9 DEF WireInv, WritesInOrder
  <2> QED BY <2>1, <2>2, <2>3, <2>4, <2>5 DEF WritesInOrder
<1>11. AnswersAreTrue'
  BY <1>1, <1>2 DEF WireInv, AnswersAreTrue
<1>12. RestoredOnce'
  <2>1. \A i \in DOMAIN Pipe' : ~IsRestore(Pipe'[i])
    BY <1>2, <1>3 DEF WireInv, RestoredOnce
  <2>2. ASSUME NEW i \in DOMAIN outstandingPuts'
        PROVE  \E j \in DOMAIN Pipe' : IsPut(Pipe'[j]) /\ Pipe'[j].put.n = outstandingPuts'[i].n
    <3>1. PICK k \in DOMAIN outstandingPuts :
            outstandingPuts'[i] = outstandingPuts[k] /\ outstandingPuts[k].n # put.n
      BY <1>8
    <3>2. PICK j \in DOMAIN Pipe : /\ j # 1 /\ IsPut(Pipe[j])
                                   /\ Pipe[j].put.n = outstandingPuts[k].n
      BY <1>6, <3>1
    <3>3. j - 1 \in DOMAIN Pipe' /\ (j - 1) + 1 = j
      BY <1>2, <3>2, PutsAreTyped
    <3>4. Pipe'[j - 1] = Pipe[j]
      BY <1>2, <3>3
    <3> QED BY <3>1, <3>2, <3>3, <3>4
  <2> QED BY <1>1, <1>3, <2>1, <2>2 DEF RestoredOnce
<1>13. AckedIsNotUndone'
  <2>1. Head(down).ok => put.n <= server[put.path].n
    <3>1. 1 \in DOMAIN down /\ Head(down) = down[1]
      BY <1>1 DEF DBTypeOK, QueueTypeOK
    <3> QED BY <1>1, <3>1 DEF WireInv, AnswersAreTrue
  <2> QED BY <1>1, <1>9, <2>1 DEF AckedIsNotUndone
<1> QED BY <1>10, <1>11, <1>12, <1>13 DEF WireInv

(* The state is restored behind plain requests: all outstanding writes are
   under way, in order. *)
LEMMA WireRestored ==
  ASSUME WireInv, DBTypeOK, restoreState, connectionState' = "Connected",
         down' \in Seq(Response), \A i \in DOMAIN down' : Plain(down'[i].request),
         \A i \in DOMAIN up : Plain(up[i]),
         UNCHANGED <<outstandingPuts, putCounter, acked>>
  PROVE  WireInv'
<1> DEFINE d == down'
           a == PutRequests(outstandingPuts)
           b == GetRequests(outstandingGets)
           k == Len(d) + Len(up)
           N == Len(outstandingPuts)
<1>1. /\ outstandingPuts \in Seq(Put) /\ up \in Seq(Request) /\ outstandingGets \in Seq(Get)
      /\ N \in Nat /\ Len(d) \in Nat /\ Len(up) \in Nat
  BY DEF DBTypeOK, QueueTypeOK
<1>2. a \in Seq(Request) /\ Len(a) = N /\ \A i \in 1..N : a[i] = PutRequest(outstandingPuts[i])
  BY <1>1, PutRequestsAre
<1>3. b \in Seq(ReadRequest) /\ b \in Seq(Request) /\ Len(b) \in Nat
  BY <1>1, GetRequestsAre DEF Request
<1>4. up' = (up \o a) \o b
  BY DEF restoreState
<1> HIDE DEF a, b
<1>5. /\ up' \in Seq(Request) /\ Len(up') = Len(up) + N + Len(b)
      /\ \A i \in 1..Len(up) : up'[i] = up[i]
      /\ \A i \in 1..N : up'[Len(up) + i] = a[i]
      /\ \A i \in 1..Len(b) : up'[Len(up) + N + i] = b[i]
  <2>1. /\ up \o a \in Seq(Request) /\ Len(up \o a) = Len(up) + Len(a)
        /\ \A i \in 1..Len(up) : (up \o a)[i] = up[i]
        /\ \A i \in 1..Len(a) : (up \o a)[Len(up) + i] = a[i]
    <3>1. up \in Seq(Request) /\ a \in Seq(Request)
      BY <1>1, <1>2
    <3> QED BY <3>1, ConcatIs
  <2> DEFINE c == up \o a
  <2>2. /\ c \o b \in Seq(Request) /\ Len(c \o b) = Len(c) + Len(b)
        /\ \A i \in 1..Len(c) : (c \o b)[i] = c[i]
        /\ \A i \in 1..Len(b) : (c \o b)[Len(c) + i] = b[i]
    <3>1. c \in Seq(Request) /\ b \in Seq(Request)
      BY <1>3, <2>1
    <3> HIDE DEF c
    <3> QED BY <3>1, ConcatIs
  <2> HIDE DEF c
  <2>3. \A i \in 1..N : Len(up) + i \in 1..Len(c)
    BY <1>1, <1>2, <2>1 DEF c
  <2>4. \A i \in 1..Len(up) : i \in 1..Len(c)
    BY <1>1, <1>2, <2>1 DEF c
  <2> QED BY <1>2, <1>4, <2>1, <2>2, <2>3, <2>4 DEF c
<1>6. /\ DOMAIN Pipe' = 1..(k + N + Len(b))
      /\ \A i \in 1..Len(d) : Pipe'[i] = d[i].request
      /\ \A i \in 1..Len(up') : Pipe'[Len(d) + i] = up'[i]
  <2>1. /\ DOMAIN Pipe' = 1..(Len(d) + Len(up'))
        /\ \A i \in 1..Len(d) : Pipe'[i] = d[i].request
        /\ \A i \in 1..Len(up') : Pipe'[Len(d) + i] = up'[i]
    BY <1>5, PipeIs DEF Pipe
  <2>2. Len(d) + Len(up') = k + N + Len(b)
    BY <1>1, <1>3, <1>5
  <2> QED BY <2>1, <2>2
<1> HIDE DEF Pipe
<1>7. ASSUME NEW i \in 1..k PROVE Plain(Pipe'[i])
  <2>1. CASE i <= Len(d)
    <3>1. i \in DOMAIN down' /\ i \in 1..Len(d)
      BY <2>1, <1>1
    <3> QED BY <1>6, <3>1
  <2>2. CASE i > Len(d)
    <3> DEFINE j == i - Len(d)
    <3>1. j \in 1..Len(up) /\ j \in 1..Len(up') /\ i = Len(d) + j /\ j \in DOMAIN up
      BY <1>1, <1>3, <1>5, <2>2
    <3> HIDE DEF j
    <3> QED BY <1>5, <1>6, <3>1
  <2> QED BY <1>1, <2>1, <2>2
<1>8. ASSUME NEW i \in 1..N
      PROVE  /\ k + i \in DOMAIN Pipe' /\ IsPut(Pipe'[k + i]) /\ ~IsRestore(Pipe'[k + i])
             /\ Pipe'[k + i].put = outstandingPuts[i]
  <2>1. Len(up) + i \in 1..Len(up') /\ k + i \in 1..(k + N + Len(b)) /\ Len(d) + (Len(up) + i) = k + i
    BY <1>1, <1>3, <1>5
  <2>2. Pipe'[k + i] = PutRequest(outstandingPuts[i])
    BY <1>2, <1>5, <1>6, <2>1
  <2> QED BY <1>6, <2>1, <2>2 DEF PutRequest, IsPut, IsRestore
<1>9. ASSUME NEW i \in 1..Len(b) PROVE Plain(Pipe'[k + N + i])
  <2>1. /\ Len(up) + N + i \in 1..Len(up') /\ Len(d) + (Len(up) + N + i) = k + N + i
    BY <1>1, <1>3, <1>5
  <2>2. Pipe'[k + N + i] = up'[Len(up) + N + i] /\ up'[Len(up) + N + i] = b[i]
    <3>1. up'[Len(up) + N + i] = b[i]
      BY <1>5
    <3>2. Pipe'[Len(d) + (Len(up) + N + i)] = up'[Len(up) + N + i]
      BY <1>6, <2>1
    <3> QED BY <2>1, <3>1, <3>2
  <2>3. b[i] \in ReadRequest
    BY <1>3
  <2> QED BY <2>2, <2>3 DEF ReadRequest, Plain, IsPut, IsRestore
<1>10. k \in Nat
  BY <1>1
<1> HIDE DEF k, d, N
<1>11. ASSUME NEW i \in DOMAIN Pipe'
       PROVE  Plain(Pipe'[i]) \/ \E j \in 1..N : i = k + j
  <2>1. CASE i <= k
    BY <1>6, <1>7, <1>10, <2>1
  <2>2. CASE i > k /\ i <= k + N
    <3>1. i - k \in 1..N /\ i = k + (i - k)
      BY <1>1, <1>6, <1>10, <2>2
    <3> QED BY <3>1
  <2>3. CASE i > k + N
    <3>1. i - (k + N) \in 1..Len(b) /\ k + N + (i - (k + N)) = i
      BY <1>1, <1>3, <1>6, <1>10, <2>3
    <3> QED BY <1>9, <3>1
  <2> QED BY <1>1, <1>6, <1>10, <2>1, <2>2, <2>3
<1>12. DOMAIN outstandingPuts = 1..N
  BY <1>1 DEF N
<1>13. WritesInOrder'
  <2>1. ASSUME NEW i \in DOMAIN Pipe', NEW j \in DOMAIN Pipe', i < j, IsPut(Pipe'[i]),
               IsPut(Pipe'[j])
        PROVE  Pipe'[i].put.n < Pipe'[j].put.n
    <3>1. PICK x \in 1..N : i = k + x
      BY <1>11, <2>1 DEF Plain
    <3>2. PICK y \in 1..N : j = k + y
      BY <1>11, <2>1 DEF Plain
    <3>3. x < y
      BY <1>1, <1>10, <2>1, <3>1, <3>2
    <3>4. outstandingPuts[x].n < outstandingPuts[y].n
      BY <1>12, <3>3 DEF WireInv, WritesInOrder
    <3> QED BY <1>8, <3>1, <3>2, <3>4
  <2>2. ASSUME NEW i \in DOMAIN Pipe', IsPut(Pipe'[i])
        PROVE  Pipe'[i].put.n <= putCounter' /\ acked'[Pipe'[i].put.path] < Pipe'[i].put.n
    <3>1. PICK x \in 1..N : i = k + x
      BY <1>11, <2>2 DEF Plain
    <3> QED BY <1>8, <1>12, <3>1 DEF WireInv, WritesInOrder
  <2> QED BY <2>1, <2>2 DEF WireInv, WritesInOrder
<1>14. AnswersAreTrue'
  BY DEF AnswersAreTrue, Plain
<1>15. RestoredOnce'
  <2>1. ASSUME NEW i \in DOMAIN Pipe' PROVE ~IsRestore(Pipe'[i])
    BY <1>8, <1>11 DEF Plain
  <2>2. ASSUME NEW i \in DOMAIN outstandingPuts'
        PROVE  \E j \in DOMAIN Pipe' : IsPut(Pipe'[j]) /\ Pipe'[j].put.n = outstandingPuts'[i].n
    BY <1>8, <1>12
  <2> QED BY <2>1, <2>2 DEF RestoredOnce
<1> QED BY <1>13, <1>14, <1>15 DEF WireInv

(* A new connection. *)
LEMMA WireOnReady ==
  ASSUME WireInv, DBTypeOK, ConnectionIsTended, onReady
  PROVE  WireInv'
<1>1. up = <<>> /\ down = <<>> /\ UNCHANGED <<outstandingPuts, putCounter, down, server, acked>>
  BY DEF onReady, ConnectionIsTended, connected
<1>2. CASE ~authToken
  <2>1. restoreState /\ connectionState' = "Connected"
    BY <1>2 DEF onReady
  <2>2. down' \in Seq(Response) /\ DOMAIN down' = {} /\ DOMAIN up = {}
    BY <1>1, EmptyIsSeq
  <2> QED BY <1>1, <2>1, <2>2, WireRestored
<1>3. CASE authToken
  <2> DEFINE r == AuthRequest(TRUE)
  <2>1. connectionState' = "Authenticating" /\ up' = Append(up, r)
    BY <1>3 DEF onReady
  <2>2. r \in Request /\ IsRestore(r) /\ ~IsPut(r)
    BY RequestsAreTyped DEF AuthRequest, IsRestore, IsPut
  <2> HIDE DEF r
  <2>3. Len(up) = 0 /\ Len(down) = 0 /\ up \in Seq(Request) /\ down \in Seq(Response)
    BY <1>1, EmptyIsSeq
  <2>4. Len(Pipe) = 0
    <3>1. Len(Pipe) = Len(down) + Len(up)
      BY <2>3, PipeIs DEF Pipe
    <3> QED BY <2>3, <3>1
  <2>5. DOMAIN Pipe' = 1..1 /\ Pipe'[1] = r
    <3>1. DOMAIN Pipe' = 1..(Len(Pipe) + 1) /\ Pipe'[Len(Pipe) + 1] = r
      BY <1>1, <2>1, <2>2, <2>3, PipeSent DEF Pipe
    <3> QED BY <2>4, <3>1
  <2>6. Pipe' # <<>> /\ \A i \in DOMAIN Pipe' : i = 1
    BY <2>5
  <2> HIDE DEF Pipe
  <2>7. AnswersAreTrue'
    BY <1>1 DEF AnswersAreTrue
  <2>8. WritesInOrder'
    BY <1>1, <2>2, <2>5, <2>6 DEF WireInv, WritesInOrder
  <2>9. RestoredOnce'
    BY <2>1, <2>2, <2>5, <2>6 DEF RestoredOnce
  <2> QED BY <2>7, <2>8, <2>9 DEF WireInv
<1> QED BY <1>2, <1>3

(* The answer to the authentication, after which all writes are sent again. *)
LEMMA WireAuthAnswered ==
  ASSUME WireInv, DBTypeOK, ConnectionIsTended, AuthAnswered
  PROVE  WireInv'
<1>1. /\ down # <<>> /\ Head(down).request.kind = "auth" /\ connected
      /\ UNCHANGED <<outstandingPuts, putCounter, server, acked>>
  BY DEF AuthAnswered, Arrives, ConnectionIsTended
<1>2. CASE ~Head(down).ok
  BY <1>1, <1>2, WireIdle DEF AuthAnswered, onDisconnect, connected
<1>3. CASE Head(down).ok /\ ~Head(down).request.restore
  BY <1>1, <1>3, WireAnswered DEF AuthAnswered, Plain, IsPut, IsRestore
<1>4. CASE Head(down).ok /\ Head(down).request.restore
  <2>1. down' = Tail(down) /\ restoreState /\ connectionState' = "Connected"
    BY <1>4 DEF AuthAnswered
  <2>2. down \in Seq(Response) /\ up \in Seq(Request) /\ Len(up) \in Nat /\ Len(down) \in Nat \ {0}
    BY <1>1 DEF DBTypeOK, QueueTypeOK
  <2>3. /\ DOMAIN Pipe = 1..(Len(down) + Len(up))
        /\ \A i \in 1..Len(down) : Pipe[i] = down[i].request
        /\ \A i \in 1..Len(up) : Pipe[Len(down) + i] = up[i]
    BY <2>2, PipeIs DEF Pipe
  <2>4. Head(down) = down[1] /\ 1 \in DOMAIN Pipe /\ IsRestore(Pipe[1])
    BY <1>1, <1>4, <2>2, <2>3 DEF IsRestore
  <2> HIDE DEF Pipe
  <2>5. \A i \in DOMAIN Pipe : i # 1 => Plain(Pipe[i])
    BY <2>4 DEF WireInv, RestoredOnce, Plain
  <2>6. down' \in Seq(Response) /\ \A i \in DOMAIN down' : Plain(down'[i].request)
    <3>1. /\ down' \in Seq(Response) /\ DOMAIN down' = 1..(Len(down) - 1)
          /\ \A i \in DOMAIN down' : down'[i] = down[i + 1]
      BY <1>1, <2>1, <2>2
    <3>2. ASSUME NEW i \in DOMAIN down' PROVE Plain(down'[i].request)
      <4>1. i + 1 \in 1..Len(down) /\ i + 1 # 1 /\ i + 1 \in DOMAIN Pipe
        BY <2>2, <2>3, <3>1
      <4> QED BY <2>3, <2>5, <3>1, <4>1
    <3> QED BY <3>1, <3>2
  <2>7. ASSUME NEW i \in DOMAIN up PROVE Plain(up[i])
    <3>1. i \in 1..Len(up) /\ Len(down) + i \in DOMAIN Pipe /\ Len(down) + i # 1
      BY <2>2, <2>3
    <3> QED BY <2>3, <2>5, <3>1
  <2> QED BY <1>1, <2>1, <2>6, <2>7, WireRestored
<1> QED BY <1>2, <1>3, <1>4

(* Steps of the client. *)
LEMMA WireInternal ==
  ASSUME WireInv, AckedIsNotUndone, DBTypeOK, ConnectionIsTended, Internal
  PROVE  WireInv' /\ AckedIsNotUndone'
<1>1. CASE open \/ resume \/ enteringForeground \/ GetTimeout
  BY <1>1, WireSame
  DEF open, resume, enteringForeground, GetTimeout, requests, wire, connection, AckedIsNotUndone
<1>2. CASE interrupt \/ Drop \/ onAuthRevoked \/ onKill \/ RetryFires \/ TokenFailed
  <2>1. ~connected' /\ UNCHANGED <<outstandingPuts, putCounter, acked, server>>
    BY <1>2
    DEF interrupt, Drop, onAuthRevoked, onKill, RetryFires, TokenFailed, onDisconnect,
        connected, requests
  <2>2. up' = <<>> /\ down' = <<>>
    BY <1>2
    DEF interrupt, Drop, onAuthRevoked, onKill, RetryFires, TokenFailed, onDisconnect,
        connected, HasConnection, ConnectionIsTended, wire
  <2> QED BY <2>1, <2>2, WireIdle DEF AckedIsNotUndone
<1>3. CASE TokenFetched
  <2>1. UNCHANGED <<outstandingPuts, putCounter, up, down, server, acked>>
    BY <1>3 DEF TokenFetched, requests, wire
  <2>2. CASE UNCHANGED connectionState
    BY <2>1, <2>2, WireSame DEF AckedIsNotUndone
  <2>3. CASE connectionState = "GettingToken" /\ connectionState' = "Connecting"
    BY <2>1, <2>3, WireIdle DEF AckedIsNotUndone, ConnectionIsTended, connected
  <2> QED BY <1>3, <2>2, <2>3 DEF TokenFetched
<1>4. CASE onReady
  BY <1>4, WireOnReady DEF onReady, AckedIsNotUndone
<1>5. CASE refreshAuthToken
  <2>1. UNCHANGED <<connectionState, outstandingPuts, putCounter, down, server, acked>>
    BY <1>5 DEF refreshAuthToken, connection, requests
  <2>2. AuthRequest(FALSE) \in Request /\ Plain(AuthRequest(FALSE))
    BY RequestsAreTyped DEF AuthRequest, Plain, IsPut, IsRestore
  <2>3. up' = up \/ up' = Append(up, AuthRequest(FALSE))
    BY <1>5 DEF refreshAuthToken
  <2> DEFINE r == AuthRequest(FALSE)
  <2> HIDE DEF r
  <2>4. WireInv'
    BY <2>1, <2>2, <2>3, WireSame, WireSend DEF DBTypeOK, r
  <2> QED BY <2>1, <2>4 DEF AckedIsNotUndone
<1>6. CASE Serve
  BY <1>6, WireServe
<1>7. CASE AuthAnswered
  BY <1>7, WireAuthAnswered DEF AuthAnswered, AckedIsNotUndone
<1>8. CASE PutAnswered
  <2>1. connected
    BY <1>8 DEF PutAnswered, Arrives, ConnectionIsTended
  <2> QED BY <1>8, <2>1, WirePutAnswered
<1> QED
  BY <1>1, <1>2, <1>3, <1>4, <1>5, <1>6, <1>7, <1>8 DEF Internal

(* Steps that leave the client alone. *)
LEMMA WireUnchanged ==
  ASSUME WireInv, AckedIsNotUndone, UNCHANGED dbvars
  PROVE  WireInv' /\ AckedIsNotUndone'
  BY WireSame DEF dbvars, connection, requests, wire, AckedIsNotUndone

(* The app's read. *)
LEMMA WireGetUsername ==
  ASSUME WireInv, AckedIsNotUndone, DBTypeOK, NEW user \in Users, getUsername(user)
  PROVE  WireInv' /\ AckedIsNotUndone'
<1>1. CASE PendingAt(user) # {}
  BY <1>1, WireUnchanged DEF getUsername
<1>2. CASE PendingAt(user) = {}
  <2> DEFINE get == [n |-> getCounter + 1, path |-> user, sent |-> canSend, timer |-> ~connected]
             r == GetRequest(get)
  <2>1. get \in Get
    BY ProfileAssumption DEF Get, DBTypeOK, QueueTypeOK, canSend, connected
  <2>2. r \in Request /\ Plain(r)
    BY <2>1, RequestsAreTyped DEF GetRequest, Plain, IsPut, IsRestore
  <2>3. /\ up' = up \/ up' = Append(up, r)
        /\ UNCHANGED <<connectionState, outstandingPuts, putCounter, down, server, acked>>
    BY <1>2 DEF getUsername, getDataAtPath, connection
  <2> HIDE DEF r
  <2>4. WireInv'
    BY <2>2, <2>3, WireSame, WireSend DEF DBTypeOK
  <2> QED BY <2>3, <2>4 DEF AckedIsNotUndone
<1> QED BY <1>1, <1>2

(* Steps of the app. *)
LEMMA WireApp ==
  ASSUME WireInv, AckedIsNotUndone, PTypeOK, App
  PROVE  WireInv' /\ AckedIsNotUndone'
<1>1. ASSUME NEW user \in Users, viewDidLoad(user)
      PROVE  WireInv' /\ AckedIsNotUndone'
  BY <1>1, WireGetUsername DEF viewDidLoad, PTypeOK
<1>2. CASE firebaseOp
  <2>1. CASE currentUser = None
    BY <1>2, <2>1, WireUnchanged DEF firebaseOp, updateUsername
  <2>2. CASE currentUser # None
    <3>1. Head(operations) \in Operation
      BY <1>2 DEF firebaseOp, PTypeOK, AppTypeOK
    <3>2. currentUser \in Paths /\ Head(operations).name \in Values
      BY <2>2, <3>1, ProfileAssumption DEF PTypeOK, AppTypeOK, Operation
    <3>3. mergeData(currentUser, Head(operations).name)
      BY <1>2, <2>2 DEF firebaseOp, updateUsername
    <3>4. WireInv'
      BY <3>2, <3>3, WireMerge DEF PTypeOK
    <3> QED BY <3>3, <3>4 DEF mergeData, AckedIsNotUndone
  <2> QED BY <2>1, <2>2
<1>3. CASE TimerFires
  <2>1. uid \in Users
    BY <1>3 DEF TimerFires, PTypeOK, AppTypeOK
  <2> QED BY <1>3, <2>1, WireGetUsername DEF TimerFires, PTypeOK
<1>4. CASE openSettings \/ textFieldDidChangeSelection \/ saveChangesButtonTapped
             \/ alertOk \/ Back \/ logoutButtonTapped
  BY <1>4, WireUnchanged
  DEF openSettings, textFieldDidChangeSelection, saveChangesButtonTapped, alertOk, Back,
      logoutButtonTapped
<1> QED BY <1>1, <1>2, <1>3, <1>4 DEF App

(* However often writes are sent again, a write that was acknowledged is never
   undone by an older one, for any number of users, writes and lost
   connections: writes are under way in the order in which they were made. *)
THEOREM AckedNotUndone == PSpec => []AckedIsNotUndone
<1> DEFINE Inv == WireInv /\ AckedIsNotUndone
<1>1. Inv /\ PTypeOK /\ ConnectionIsTended /\ [PNext]_pvars => Inv'
  <2> SUFFICES ASSUME Inv, PTypeOK, ConnectionIsTended, [PNext]_pvars
               PROVE  Inv'
    OBVIOUS
  <2>1. CASE App
    BY <2>1, WireApp
  <2>2. CASE UsernameArrives
    <3>1. GetAnswered /\ connected
      BY <2>2 DEF UsernameArrives, GetAnswered, Arrives, ConnectionIsTended
    <3>2. Plain(Head(down).request)
      BY <3>1 DEF GetAnswered, Arrives, Plain, IsPut, IsRestore
    <3>3. WireInv'
      BY <3>1, <3>2, WireAnswered DEF GetAnswered, Arrives, connection, PTypeOK
    <3> QED BY <3>1, <3>3 DEF GetAnswered, AckedIsNotUndone
  <2>3. CASE Internal
    BY <2>3, WireInternal DEF PTypeOK
  <2>4. CASE UNCHANGED pvars
    BY <2>4, WireUnchanged DEF pvars
  <2> QED BY <2>1, <2>2, <2>3, <2>4 DEF PNext
<1>2. PInit => Inv
  BY WireInit
<1> QED BY <1>1, <1>2, ProfileTypes, ConnectionTended, PTL DEF PSpec
===============================================================================
