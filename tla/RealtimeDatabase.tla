--------------------------- MODULE RealtimeDatabase ---------------------------
(***************************************************************************)
(* The Realtime Database client: FPersistentConnection with the writes and *)
(* reads that wait for answers, its reconnection by way of a new token, and *)
(* the part of FRepo that answers a read from the writes still under way.  *)
(* Everything runs on one queue, a block at a time.  The app makes merges  *)
(* and single reads; it has no listeners, transactions or onDisconnect      *)
(* operations, and it does not turn persistence on.                         *)
(***************************************************************************)
EXTENDS Integers, Sequences

CONSTANTS
  Paths,          \* the places in the database that are written and read
  Values,         \* what is written
  None,           \* nil; the value of a place without data
  MaxPuts,        \* bound: writes
  MaxGets,        \* bound: reads that are not answered from writes under way
  MaxEvents       \* bound: lost connections, refused tokens, a shutdown,
                  \* calls of goOffline and changes of the token

ASSUME RealtimeDatabaseAssumption ==
  /\ None \notin Values
  /\ {MaxPuts, MaxGets, MaxEvents} \subseteq Nat

VARIABLES
  connectionState,   \* the states of the enumeration ConnectionState
  scheduledRetry,    \* the retry helper has a block to run
  fetches,           \* attempts to fetch a token that are under way
  attempt,           \* currentFetchTokenAttempt
  authToken,         \* there is a token
  interruptReasons,
  outstandingPuts,   \* in the order of their indexes
  outstandingGets,   \* likewise
  putCounter, getCounter,
  up,                \* requests sent on this connection, not yet served
  down,              \* answers on their way
  server,            \* for each place the last write applied to it
  acked,             \* for each place the last write acknowledged as done
  events

connection == <<connectionState, scheduledRetry, interruptReasons>>
tokens == <<fetches, attempt, authToken>>
requests == <<outstandingPuts, outstandingGets, putCounter, getCounter>>
wire == <<up, down>>
dbvars == <<connection, tokens, requests, wire, server, acked, events>>

NoData == [n |-> 0, value |-> None]

DBInit ==
  /\ connectionState = "Disconnected"
  /\ scheduledRetry = FALSE
  /\ fetches = {}
  /\ attempt = 0
  /\ authToken = FALSE
  /\ interruptReasons = {"waiting_for_open"}
  /\ outstandingPuts = <<>>
  /\ outstandingGets = <<>>
  /\ putCounter = 0
  /\ getCounter = 0
  /\ up = <<>>
  /\ down = <<>>
  /\ server = [p \in Paths |-> NoData]
  /\ acked = [p \in Paths |-> 0]
  /\ events = 0

-------------------------------------------------------------------------------
(* The connection. *)

connected == connectionState \in {"Authenticating", "Connected"}
canSend == connectionState = "Connected"
HasConnection == connectionState \in {"Connecting", "Authenticating", "Connected"}

Event == events < MaxEvents /\ events' = events + 1

(* tryScheduleReconnect: the helper keeps one block, the last. *)
tryScheduleReconnect ==
  scheduledRetry' = (scheduledRetry \/ interruptReasons' = {})

(* The callbacks are dropped with the connection; nobody will answer. *)
onDisconnect ==
  /\ connectionState' = "Disconnected"
  /\ up' = <<>>
  /\ down' = <<>>
  /\ tryScheduleReconnect

open ==
  /\ "waiting_for_open" \in interruptReasons
  /\ interruptReasons' = interruptReasons \ {"waiting_for_open"}
  /\ IF connectionState = "Disconnected" THEN tryScheduleReconnect
                                         ELSE UNCHANGED scheduledRetry
  /\ UNCHANGED <<connectionState, tokens, requests, wire, server, acked, events>>

(* A slip to rule out: an interruption forgets the attempt in the timer. *)
interruptKeepsTimer ==
  /\ Event
  /\ interruptReasons' = interruptReasons \cup {"repo_interrupt"}
  /\ \/ HasConnection /\ onDisconnect
     \/ /\ ~HasConnection
        /\ connectionState' = "Disconnected"
        /\ UNCHANGED <<scheduledRetry, wire>>
  /\ UNCHANGED <<tokens, requests, server, acked>>

(* goOffline: a connection is closed, an attempt is called off. *)
interrupt ==
  /\ Event
  /\ interruptReasons' = interruptReasons \cup {"repo_interrupt"}
  /\ \/ HasConnection /\ onDisconnect
     \/ /\ ~HasConnection
        /\ connectionState' = "Disconnected"
        /\ scheduledRetry' = FALSE
        /\ UNCHANGED wire
  /\ UNCHANGED <<tokens, requests, server, acked>>

(* goOnline. *)
resume ==
  /\ "repo_interrupt" \in interruptReasons
  /\ interruptReasons' = interruptReasons \ {"repo_interrupt"}
  /\ IF connectionState = "Disconnected" THEN tryScheduleReconnect
                                         ELSE UNCHANGED scheduledRetry
  /\ UNCHANGED <<connectionState, tokens, requests, wire, server, acked, events>>

(* The app comes to the foreground, or the network can be reached again. *)
enteringForeground ==
  /\ connectionState = "Disconnected"
  /\ UNCHANGED interruptReasons
  /\ tryScheduleReconnect
  /\ UNCHANGED <<connectionState, tokens, requests, wire, server, acked, events>>

(* The block of tryScheduleReconnect, after the helper's delay. *)
RetryFires ==
  /\ scheduledRetry
  /\ scheduledRetry' = FALSE
  /\ connectionState' = "GettingToken"
  /\ attempt' = attempt + 1
  /\ fetches' = fetches \cup {attempt'}
  /\ UNCHANGED <<authToken, interruptReasons, requests, wire, server, acked, events>>

(* A token, or nil for nobody: the connection is opened, unless it was
   interrupted.  Only the latest attempt counts. *)
TokenFetched ==
  \E t \in fetches :
    /\ fetches' = fetches \ {t}
    /\ \/ /\ t = attempt /\ connectionState = "GettingToken"
          /\ authToken' \in BOOLEAN
          /\ connectionState' = "Connecting"
       \/ /\ t # attempt \/ connectionState # "GettingToken"
          /\ UNCHANGED <<authToken, connectionState>>
    /\ UNCHANGED <<scheduledRetry, attempt, interruptReasons, requests, wire, server,
                   acked, events>>

TokenFailed ==
  /\ attempt \in fetches
  /\ Event
  /\ fetches' = fetches \ {attempt}
  /\ connectionState' = "Disconnected"
  /\ UNCHANGED interruptReasons
  /\ tryScheduleReconnect
  /\ UNCHANGED <<attempt, authToken, requests, wire, server, acked>>

(* The connection is lost, or could not be made. *)
Drop ==
  /\ HasConnection
  /\ Event
  /\ UNCHANGED interruptReasons
  /\ onDisconnect
  /\ UNCHANGED <<tokens, requests, server, acked>>

(* onAuthRevoked: the token is given up with the connection. *)
onAuthRevoked ==
  /\ connected
  /\ Event
  /\ authToken' = FALSE
  /\ UNCHANGED interruptReasons
  /\ onDisconnect
  /\ UNCHANGED <<fetches, attempt, requests, server, acked>>

(* onKill: the server wants no other connection. *)
onKill ==
  /\ HasConnection
  /\ Event
  /\ interruptReasons' = interruptReasons \cup {"server_kill"}
  /\ onDisconnect
  /\ UNCHANGED <<tokens, requests, server, acked>>

-------------------------------------------------------------------------------
(* Requests. *)

AuthRequest(restore) == [kind |-> "auth", restore |-> restore]
PutRequest(p) == [kind |-> "put", put |-> p]
GetRequest(g) == [kind |-> "get", n |-> g.n, path |-> g.path]

Sent(gets) == [i \in DOMAIN gets |-> [gets[i] EXCEPT !.sent = TRUE]]
PutRequests(puts) == [i \in DOMAIN puts |-> PutRequest(puts[i])]

(* Those that were never sent. *)
GetRequests(gets) ==
  LET upTo[i \in 0..Len(gets)] ==
        IF i = 0 THEN <<>>
        ELSE IF gets[i].sent THEN upTo[i - 1] ELSE Append(upTo[i - 1], GetRequest(gets[i]))
  IN upTo[Len(gets)]

(* removeObjectForKey, of a dictionary kept in the order of its keys. *)
RemovedAt(s, i) == SubSeq(s, 1, i - 1) \o SubSeq(s, i + 1, Len(s))
Removed(s, n) ==
  IF \E i \in DOMAIN s : s[i].n = n
  THEN RemovedAt(s, CHOOSE i \in DOMAIN s : s[i].n = n) ELSE s

Backwards(s) == [i \in DOMAIN s |-> s[Len(s) + 1 - i]]

(* Two slips to rule out: writes are sent again in no order, or not at all. *)
restoreStateUnsorted ==
  /\ up' = up \o PutRequests(Backwards(outstandingPuts)) \o GetRequests(outstandingGets)
  /\ outstandingGets' = Sent(outstandingGets)
restoreStateReadsOnly ==
  /\ up' = up \o GetRequests(outstandingGets)
  /\ outstandingGets' = Sent(outstandingGets)

(* restoreState: all writes again, and the reads that were never sent. *)
restoreState ==
  /\ up' = up \o PutRequests(outstandingPuts) \o GetRequests(outstandingGets)
  /\ outstandingGets' = Sent(outstandingGets)

(* onReady, restoreAuth. *)
onReady ==
  /\ connectionState = "Connecting"
  /\ \/ /\ ~authToken
        /\ connectionState' = "Connected"
        /\ restoreState
     \/ /\ authToken
        /\ connectionState' = "Authenticating"
        /\ up' = Append(up, AuthRequest(TRUE))
        /\ UNCHANGED outstandingGets
  /\ UNCHANGED <<scheduledRetry, interruptReasons, tokens, outstandingPuts, putCounter,
                 getCounter, down, server, acked, events>>

(* refreshAuthToken, when Firebase Auth has another token or none.  Taking
   the token back (sendUnauth) asks for no answer and is not seen here. *)
refreshAuthToken ==
  /\ Event
  /\ authToken' \in BOOLEAN
  /\ up' = IF connected /\ authToken' THEN Append(up, AuthRequest(FALSE)) ELSE up
  /\ UNCHANGED <<connection, fetches, attempt, requests, down, server, acked>>

(* putInternal. *)
mergeData(path, value) ==
  LET put == [n |-> putCounter + 1, path |-> path, value |-> value] IN
  /\ putCounter < MaxPuts
  /\ putCounter' = putCounter + 1
  /\ outstandingPuts' = Append(outstandingPuts, put)
  /\ up' = IF canSend THEN Append(up, PutRequest(put)) ELSE up
  /\ UNCHANGED <<connection, tokens, outstandingGets, getCounter, down, server, acked,
                 events>>

(* getDataAtPath: without a connection the read has a deadline. *)
getDataAtPath(path) ==
  LET get == [n |-> getCounter + 1, path |-> path, sent |-> canSend, timer |-> ~connected]
  IN
  /\ getCounter < MaxGets
  /\ getCounter' = getCounter + 1
  /\ outstandingGets' = Append(outstandingGets, get)
  /\ up' = IF canSend THEN Append(up, GetRequest(get)) ELSE up
  /\ UNCHANGED <<connection, tokens, outstandingPuts, putCounter, down, server, acked,
                 events>>

(* The deadline passes: only a read that was never sent is given up. *)
GetTimeout ==
  \E i \in DOMAIN outstandingGets :
    /\ outstandingGets[i].timer /\ ~outstandingGets[i].sent
    /\ outstandingGets' = RemovedAt(outstandingGets, i)
    /\ UNCHANGED <<connection, tokens, outstandingPuts, putCounter, getCounter, wire,
                   server, acked, events>>

-------------------------------------------------------------------------------
(* The server, which serves a connection in order. *)

Answer(ok, value) ==
  /\ down' = Append(down, [request |-> Head(up), ok |-> ok, value |-> value])
  /\ up' = Tail(up)

Serve ==
  /\ up # <<>>
  /\ \/ /\ Head(up).kind = "auth"
        /\ \/ Answer(TRUE, None) /\ UNCHANGED events
           \/ Event /\ Answer(FALSE, None)
        /\ UNCHANGED server
     \/ /\ Head(up).kind = "put"
        /\ \/ /\ server' = [server EXCEPT ![Head(up).put.path] =
                              [n |-> Head(up).put.n, value |-> Head(up).put.value]]
              /\ Answer(TRUE, None)
           \/ Answer(FALSE, None) /\ UNCHANGED server
        /\ UNCHANGED events
     \/ /\ Head(up).kind = "get"
        /\ \/ Answer(TRUE, server[Head(up).path].value)
           \/ Answer(FALSE, None)
        /\ UNCHANGED <<server, events>>
  /\ UNCHANGED <<connection, tokens, requests, acked>>

-------------------------------------------------------------------------------
(* Its answers: the callbacks of onDataMessage. *)

Arrives(kind) == down # <<>> /\ Head(down).request.kind = kind

(* sendAuth: restores the state the first time; a refusal ends the
   connection. *)
AuthAnswered ==
  /\ Arrives("auth")
  /\ UNCHANGED interruptReasons
  /\ \/ /\ Head(down).ok
        /\ connectionState' = "Connected"
        /\ down' = Tail(down)
        /\ IF Head(down).request.restore THEN restoreState
                                         ELSE UNCHANGED <<up, outstandingGets>>
        /\ UNCHANGED <<authToken, scheduledRetry>>
     \/ /\ ~Head(down).ok
        /\ authToken' = FALSE
        /\ onDisconnect
        /\ UNCHANGED outstandingGets
  /\ UNCHANGED <<fetches, attempt, outstandingPuts, putCounter, getCounter, server, acked,
                 events>>

(* sendPut: the write is no longer outstanding, done or not. *)
PutAnswered ==
  LET put == Head(down).request.put IN
  /\ Arrives("put")
  /\ down' = Tail(down)
  /\ outstandingPuts' = Removed(outstandingPuts, put.n)
  /\ acked' = IF Head(down).ok THEN [acked EXCEPT ![put.path] = put.n] ELSE acked
  /\ UNCHANGED <<connection, tokens, outstandingGets, putCounter, getCounter, up, server,
                 events>>

(* sendGet. *)
GetAnswered ==
  /\ Arrives("get")
  /\ down' = Tail(down)
  /\ outstandingGets' = Removed(outstandingGets, Head(down).request.n)
  /\ UNCHANGED <<connection, tokens, outstandingPuts, putCounter, getCounter, up, server,
                 acked, events>>

-------------------------------------------------------------------------------
(* What the client does by itself, apart from answering reads. *)
Internal ==
  \/ open \/ interrupt \/ resume \/ enteringForeground \/ RetryFires
  \/ TokenFetched \/ TokenFailed \/ Drop \/ onAuthRevoked \/ onKill \/ onReady
  \/ refreshAuthToken \/ GetTimeout \/ Serve \/ AuthAnswered \/ PutAnswered

-------------------------------------------------------------------------------
(* Properties. *)

(* What the NSAsserts of FPersistentConnection and the exception of
   FConnection say: an attempt to connect starts from "Disconnected", a token
   is awaited or was called off, and nothing is sent without a connection.
   And nobody is forgotten: a client that should reconnect is about to. *)
ConnectionIsTended ==
  /\ scheduledRetry => connectionState = "Disconnected" /\ interruptReasons = {}
  /\ attempt \in fetches => connectionState \in {"GettingToken", "Disconnected"}
  /\ connectionState = "GettingToken" => attempt \in fetches
  /\ ~connected => up = <<>> /\ down = <<>>
  /\ connectionState = "Disconnected" /\ interruptReasons = {} => scheduledRetry

(* However often writes are sent again, one that was acknowledged is never
   undone by one that was made before it. *)
AckedIsNotUndone == \A p \in Paths : acked[p] <= server[p].n

(* A read that was sent on a connection that is gone. *)
Lost(get) ==
  /\ get.sent
  /\ \A i \in DOMAIN up : ~(up[i].kind = "get" /\ up[i].n = get.n)
  /\ \A i \in DOMAIN down : ~(down[i].request.kind = "get" /\ down[i].request.n = get.n)

NoneButLost == \A i \in DOMAIN outstandingGets : Lost(outstandingGets[i])

(* If the client is not kept offline, it answers all the writes and reads it
   has been given, again and again, but for the reads that were lost with
   their connection. *)
RequestsAreAnswered ==
  <>[](interruptReasons = {}) => []<>(outstandingPuts = <<>> /\ NoneButLost)

(* FIRDatabaseQuery.h of getDataWithCompletionBlock: the block "should be
   called with the most up-to-date value of this query, or an error". *)
ReadsAreAnswered ==
  <>[](interruptReasons = {}) => []<>(outstandingGets = <<>>)
===============================================================================
