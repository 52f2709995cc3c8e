-------------------------- MODULE StratumSessions --------------------------
(***************************************************************************)
(* Stratum connections and sessions (pool/network.go, session.go,          *)
(* responses.go, server.go).                                               *)
(*                                                                         *)
(* Every accepted connection has a goroutine that reads requests and       *)
(* answers them.  mining.authorize enters the client into the session map, *)
(* from which the listener goroutine sends each new work to every miner.   *)
(* The map has no lock: the Go runtime may end the process when it meets   *)
(* two goroutines in it.  Nor has the reply to mining.authorize, which     *)
(* reads the work and sends it while the listener may do the same.         *)
(*                                                                         *)
(* Work is known by its number.  A submission changes nothing here: see    *)
(* PoolWork and ShareBuffer.                                               *)
(***************************************************************************)
EXTENDS Naturals, FiniteSets, Functions

CONSTANTS
    Connections,    \* connections that miners try to make, a natural number
    Extranonces,    \* values of extranonce1
    NoExtranonce,
    MaxConnections, \* config.MaxConnections
    MaxSubscribes,  \* bound on mining.subscribe
    MaxWork         \* bound on refreshes of the work

ASSUME StratumAssumption ==
    /\ {Connections, MaxConnections, MaxSubscribes, MaxWork} \subseteq Nat
    /\ NoExtranonce \notin Extranonces

Conns == 1 .. Connections     \* in the order in which they are accepted
NoId == 0           \* the session id "" of a client that has not subscribed

VARIABLES
    numberOfConnections,
    extranonces,    \* those in use
    client,         \* of each connection: see Client
    gone,           \* miners that have closed or are no longer heard of
    sessions,       \* session id -> connection
    subscribes,     \* session ids drawn so far
    work,           \* pool.workCache
    broadcast,      \* the listener: stage, work, and the ids of this round
    up              \* the process is running

clients == <<numberOfConnections, extranonces, client, sessions, subscribes>>
listener == <<work, broadcast>>
vars == <<clients, gone, listener, up>>

Client == [stage : {"none", "reading", "authorizing", "sending", "ended"},
           sessionID : 0 .. MaxSubscribes,
           extranonce1 : Extranonces \cup {NoExtranonce},
           login : BOOLEAN,         \* authorised
           early : BOOLEAN,         \* authorised before it subscribed
           broken : BOOLEAN,        \* its encoder keeps a write error
           work : 0 .. MaxWork + 1, \* read for the answer to its login
           got : 0 .. MaxWork + 1,  \* the last work its miner was sent
           overtaken : BOOLEAN,     \* which is older than one sent before
           forgotten : BOOLEAN]     \* its end was noticed

NoClient == [stage |-> "none", sessionID |-> NoId, extranonce1 |-> NoExtranonce,
             login |-> FALSE, early |-> FALSE, broken |-> FALSE, work |-> 0,
             got |-> 0, overtaken |-> FALSE, forgotten |-> FALSE]
NoSessions == [id \in {} |-> NoId]

Init ==
    /\ numberOfConnections = 0
    /\ extranonces = {}
    /\ client = [c \in Conns |-> NoClient]
    /\ gone = {}
    /\ sessions = NoSessions
    /\ subscribes = 0
    /\ work = 1
    /\ broadcast = [stage |-> "fetched", work |-> 0, owed |-> {}, visited |-> {}]
    /\ up = TRUE

-----------------------------------------------------------------------------
(* listenForConnections *)

UniqueExtranonceMutant == Extranonces
UniqueExtranonce == Extranonces \ extranonces

HasRoom == numberOfConnections <= MaxConnections

\* uniqueExtranonce draws until the value is new; which one does not matter.
Accept(c) ==
    /\ up
    /\ c = numberOfConnections + 1
    /\ HasRoom
    /\ UniqueExtranonce # {}
    /\ LET e == CHOOSE e \in UniqueExtranonce : TRUE
       IN  /\ extranonces' = extranonces \cup {e}
           /\ client' = [client EXCEPT ![c].stage = "reading", ![c].extranonce1 = e]
    /\ numberOfConnections' = c
    /\ UNCHANGED <<gone, sessions, subscribes, listener, up>>

\* The miner closes the connection, or is no longer heard of.
Leave(c) ==
    /\ up
    /\ client[c].stage # "none"
    /\ gone' = gone \cup {c}
    /\ UNCHANGED <<clients, listener, up>>

-----------------------------------------------------------------------------
(* handleStratumConnection and respondToStratumClient: a step of the
   goroutine of c *)

Reads(c) == up /\ client[c].stage = "reading"
ClientStep == UNCHANGED <<numberOfConnections, extranonces, gone, listener, up>>

\* The goroutine ends.  The connection is not closed.
EndedMutant(c, forgotten) == NoClient
Ended(c, forgotten) ==
    [NoClient EXCEPT !.stage = "ended", !.extranonce1 = client[c].extranonce1,
                     !.sessionID = client[c].sessionID, !.forgotten = forgotten]
Set(c, record) == client' = [client EXCEPT ![c] = record]

\* An error that the encoder has kept ends the goroutine with its next answer.
Answer(c, record) ==
    Set(c, IF client[c].broken THEN Ended(c, FALSE) ELSE record)

\* Each mining.subscribe draws a new session id.
Subscribe(c) ==
    /\ Reads(c) /\ c \notin gone
    /\ subscribes < MaxSubscribes
    /\ subscribes' = subscribes + 1
    /\ Answer(c, [client[c] EXCEPT !.sessionID = subscribes'])
    /\ ClientStep
    /\ UNCHANGED sessions

\* addSession, and the first two of the three packets of the answer
AddSessionMutant(c) == [id \in {client[c].sessionID} |-> c]
AddSession(c) ==
    [id \in DOMAIN sessions \cup {client[c].sessionID} |->
        IF id = client[c].sessionID THEN c ELSE sessions[id]]

Authorize(c) ==
    /\ Reads(c) /\ c \notin gone
    /\ sessions' = AddSession(c)
    /\ Answer(c, [client[c] EXCEPT
          !.login = TRUE, !.stage = "authorizing",
          !.early = (@ \/ client[c].sessionID = NoId)])
    /\ ClientStep
    /\ UNCHANGED subscribes

\* generateWorkFromCache(false) ...
ReadWork(c) ==
    /\ up /\ client[c].stage = "authorizing"
    /\ Set(c, [client[c] EXCEPT !.stage = "sending", !.work = work])
    /\ ClientStep
    /\ UNCHANGED <<sessions, subscribes>>

\* A write to a connection whose peer is gone may fail; the encoder keeps the
\* error.
Delivers(c) == ~client[c].broken
BreaksMutant(c) == ~client[c].broken /\ c \in gone
Breaks(c) == client[c].broken \/ c \in gone

\* ... and mining.notify, the third packet
SendWork(c) ==
    /\ up /\ client[c].stage = "sending"
    /\ \/ /\ Delivers(c)
          /\ Set(c, [client[c] EXCEPT
                !.stage = "reading", !.work = 0, !.got = client[c].work,
                !.overtaken = client[c].work < work])
       \/ Breaks(c) /\ Set(c, Ended(c, FALSE))
    /\ ClientStep
    /\ UNCHANGED <<sessions, subscribes>>

\* removeSession of the id that the client has now
RemoveSessionMutant(c) == sessions
RemoveSession(c) ==
    [id \in DOMAIN sessions \ {client[c].sessionID} |-> sessions[id]]

\* io.EOF, or a line longer than the buffer, which "bans" the client
Forget(c) ==
    /\ Reads(c)
    /\ Set(c, Ended(c, TRUE))
    /\ sessions' = RemoveSession(c)
    /\ ClientStep
    /\ UNCHANGED subscribes

\* A read error or timeout, a malformed or unknown request, a login that is
\* refused, an answer that cannot be sent: the goroutine ends, the session and
\* the connection stay.
Fail(c) ==
    /\ Reads(c)
    /\ Set(c, Ended(c, FALSE))
    /\ ClientStep
    /\ UNCHANGED <<sessions, subscribes>>

\* What the process knew ends with it.
Die ==
    /\ up' = FALSE
    /\ numberOfConnections' = 0
    /\ extranonces' = {}
    /\ client' = [d \in Conns |-> NoClient]
    /\ sessions' = NoSessions
    /\ gone' = {}
    /\ UNCHANGED <<subscribes, listener>>

\* A login without a rig, "address" instead of "address.rig", indexes out of
\* range, as does a submission with too few parameters; nothing recovers.
Panic(c) ==
    /\ Reads(c) /\ c \notin gone
    /\ Die

\* The runtime notices two goroutines in the session map, one of them writing.
ConcurrentMapAccess(c) ==
    /\ Reads(c)
    /\ \/ broadcast.stage = "notify"
       \/ \E d \in Conns \ {c} : Reads(d)
    /\ Die

-----------------------------------------------------------------------------
(* The listener: listenForBlockNotifications *)

ListenerStep == up /\ UNCHANGED <<numberOfConnections, extranonces, gone,
                                  sessions, subscribes, up>>

\* fetchRpcBlockTemplatesAndCacheWork, see PoolWork
Refresh ==
    /\ broadcast.stage = "wait"
    /\ work <= MaxWork
    /\ work' = work + 1
    /\ broadcast' = [broadcast EXCEPT !.stage = "fetched"]
    /\ ListenerStep
    /\ UNCHANGED client

\* generateWorkFromCache(true); the range over the map begins
BroadcastWork ==
    /\ broadcast.stage = "fetched"
    /\ broadcast' = [stage |-> "notify", work |-> work,
                     owed |-> DOMAIN sessions, visited |-> {}]
    /\ ListenerStep
    /\ UNCHANGED <<work, client>>

\* An entry that is added while the range goes on may be visited or not.
Notify(id) ==
    /\ broadcast.stage = "notify"
    /\ id \in DOMAIN sessions \ broadcast.visited
    /\ broadcast' = [broadcast EXCEPT !.visited = @ \cup {id}]
    /\ LET c == sessions[id]
       IN  \/ client[c].stage = "ended" /\ UNCHANGED client
           \/ /\ client[c].stage # "ended" /\ Delivers(c)
              /\ Set(c, [client[c] EXCEPT !.got = broadcast.work, !.overtaken = FALSE])
           \/ /\ client[c].stage # "ended" /\ Breaks(c)
              /\ Set(c, [client[c] EXCEPT !.broken = TRUE])
    /\ ListenerStep
    /\ UNCHANGED work

Owed == (broadcast.owed \cap DOMAIN sessions) \ broadcast.visited

BroadcastEnds ==
    /\ broadcast.stage = "notify"
    /\ Owed = {}
    /\ broadcast' = [broadcast EXCEPT !.stage = "wait", !.owed = {}, !.visited = {}]
    /\ ListenerStep
    /\ UNCHANGED <<work, client>>

-----------------------------------------------------------------------------
Broadcast ==
    \/ BroadcastWork
    \/ \E id \in 0 .. MaxSubscribes : Notify(id)
    \/ BroadcastEnds

Next ==
    \/ \E c \in Conns : Accept(c)
    \/ \E c \in Conns : Leave(c)
    \/ \E c \in Conns : Subscribe(c)
    \/ \E c \in Conns : Authorize(c)
    \/ \E c \in Conns : ReadWork(c)
    \/ \E c \in Conns : SendWork(c)
    \/ \E c \in Conns : Forget(c)
    \/ \E c \in Conns : Fail(c)
    \/ \E c \in Conns : Panic(c)
    \/ \E c \in Conns : ConcurrentMapAccess(c)
    \/ Refresh
    \/ BroadcastWork
    \/ \E id \in 0 .. MaxSubscribes : Notify(id)
    \/ BroadcastEnds

\* A write returns at the latest at the deadline of the connection.
Spec == Init /\ [][Next]_vars /\ WF_vars(Broadcast)

-----------------------------------------------------------------------------
(* Properties *)

\* The session map holds accepted connections under ids that were drawn, and
\* every accepted connection is counted (network.go:70-78, session.go:12).
TypeOK ==
    /\ client \in [Conns -> Client]
    /\ numberOfConnections = Cardinality({c \in Conns : client[c].stage # "none"})
    /\ extranonces \subseteq Extranonces
    /\ DOMAIN sessions \subseteq 0 .. subscribes
    /\ \A id \in DOMAIN sessions : client[sessions[id]].stage # "none"
    /\ broadcast.stage \in {"wait", "fetched", "notify"}

\* No two connections mine with the same extranonce1, and there is room for
\* one connection more than the limit (network.go:43, extraNonce.go:10-27).
UniqueWithinLimit ==
    LET accepted == {c \in Conns : client[c].stage # "none"}
    IN  /\ Cardinality(accepted) <= MaxConnections + 1
        /\ \A c, d \in accepted :
              client[c].extranonce1 = client[d].extranonce1 => c = d

\* Between two refreshes every miner that logged in and is still listened to
\* works on the latest work, unless the reply to its login was sent after a
\* newer broadcast, or it logged in before it subscribed and shares the empty
\* session id (server.go:118-125, responses.go:164-183, session.go:12).
Mining(c) ==
    /\ client[c].stage = "reading" /\ client[c].login
    /\ ~client[c].broken /\ c \notin gone
LatestWork ==
    up /\ broadcast.stage = "wait" =>
        \A c \in Conns :
            Mining(c) => \/ client[c].got = work
                         \/ client[c].overtaken
                         \/ client[c].early

\* A miner whose disconnection was noticed keeps no session, except under an
\* id it had before it subscribed again (network.go:104-112,
\* responses.go:89).
EndedIsForgotten ==
    \A id \in DOMAIN sessions :
        LET c == client[sessions[id]]
        IN  c.forgotten => id # c.sessionID

\* However many miners come, leave and fail to read, the listener gets through
\* its round and back to the notifications (server.go:82-104, 118-125).
ListenerReturns == broadcast.stage = "notify" ~> broadcast.stage = "wait" \/ ~up

=============================================================================
