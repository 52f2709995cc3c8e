---------------------------- MODULE StratumProofs ----------------------------
(***************************************************************************)
(* Theorems about connections and sessions: types, the limit and the       *)
(* extranonces, who is sent the latest work, and who is forgotten.         *)
(***************************************************************************)
EXTENDS StratumSessions, FiniteSetTheorems, TLAPS

Accepted == {c \in Conns : client[c].stage # "none"}

(* The connections are accepted in order, sessions belong to connections   *)
(* that were accepted, and work is a number of a refresh.                  *)
TypeInv ==
    /\ client \in [Conns -> Client]
    /\ numberOfConnections \in 0 .. Connections
    /\ Accepted = 1 .. numberOfConnections
    /\ \A c \in Conns : client[c].sessionID <= subscribes
    /\ extranonces \subseteq Extranonces
    /\ gone \subseteq Conns
    /\ subscribes \in 0 .. MaxSubscribes
    /\ DOMAIN sessions \subseteq 0 .. subscribes
    /\ \A id \in DOMAIN sessions : sessions[id] \in Accepted
    /\ work \in 1 .. MaxWork + 1
    /\ broadcast.stage \in {"wait", "fetched", "notify"}
    /\ broadcast.work \in 0 .. work

LEMMA TypeInit == Init => TypeInv
BY StratumAssumption DEF Init, TypeInv, Accepted, Client, NoClient, NoSessions, Conns, NoId

LEMMA NoClientIsClient == NoClient \in Client
BY StratumAssumption DEF NoClient, Client, NoId

LEMMA EndedIsClient ==
    ASSUME TypeInv, NEW c \in Conns, NEW forgotten \in BOOLEAN
    PROVE  /\ Ended(c, forgotten) \in Client
           /\ Ended(c, forgotten).stage = "ended"
           /\ Ended(c, forgotten).extranonce1 = client[c].extranonce1
           /\ Ended(c, forgotten).sessionID = client[c].sessionID
           /\ Ended(c, forgotten).forgotten = forgotten
<1>1. client[c] \in Client
  BY DEF TypeInv
<1> QED
  BY <1>1, NoClientIsClient DEF Ended, Client

(* One client's record is replaced. *)
SetTyped ==
    /\ client' \in [Conns -> Client]
    /\ Accepted' = Accepted
    /\ \A d \in Conns : client'[d].sessionID <= subscribes'

LEMMA SetOne ==
    ASSUME TypeInv, NEW c \in Accepted, NEW r \in Client, Set(c, r),
           r.stage # "none", subscribes' \in {subscribes, subscribes + 1},
           r.sessionID <= subscribes'
    PROVE  SetTyped
<1>1. /\ c \in Conns
      /\ client' \in [Conns -> Client]
      /\ client'[c] = r
      /\ \A d \in Conns \ {c} : client'[d] = client[d]
  BY DEF TypeInv, Set, Accepted
<1>2. \A d \in Conns : client[d].sessionID \in Nat /\ client[d].sessionID <= subscribes
  BY DEF TypeInv, Client
<1> QED
  BY <1>1, <1>2 DEF TypeInv, Accepted, SetTyped

LEMMA Known ==
    ASSUME TypeInv, NEW c \in Conns, client[c].stage # "none"
    PROVE  /\ c \in Accepted
           /\ client[c] \in Client
           /\ client[c].sessionID \in 0 .. subscribes
BY DEF TypeInv, Accepted, Client

LEMMA SetEnded ==
    ASSUME TypeInv, NEW c \in Conns, client[c].stage # "none", NEW forgotten \in BOOLEAN,
           Set(c, Ended(c, forgotten)), subscribes' \in {subscribes, subscribes + 1}
    PROVE  SetTyped
<1> DEFINE r == Ended(c, forgotten)
<1>1. c \in Accepted /\ client[c].sessionID \in 0 .. subscribes /\ subscribes \in Nat
  BY Known DEF TypeInv
<1>2. r \in Client /\ r.stage = "ended" /\ r.sessionID = client[c].sessionID
  BY EndedIsClient
<1> HIDE DEF r
<1>3. r.sessionID <= subscribes' /\ r.stage # "none"
  BY <1>1, <1>2
<1>4. Set(c, r)
  BY DEF r
<1> QED
  BY <1>1, <1>2, <1>3, <1>4, SetOne

LEMMA TypeStep == TypeInv /\ [Next]_vars => TypeInv'
<1> SUFFICES ASSUME TypeInv, [Next]_vars
             PROVE  TypeInv'
  OBVIOUS
<1> USE StratumAssumption DEF Conns, NoId
<1>1. ASSUME NEW c \in Conns, Accept(c)
      PROVE  TypeInv'
  <2> DEFINE e == CHOOSE e \in UniqueExtranonce : TRUE
             r == [client[c] EXCEPT !.stage = "reading", !.extranonce1 = e]
  <2>1. e \in Extranonces
    BY <1>1 DEF Accept, UniqueExtranonce
  <2>2. client[c] \in Client
    BY DEF TypeInv
  <2> HIDE DEF e
  <2>3. r \in Client /\ r.stage # "none" /\ r.sessionID = client[c].sessionID
    BY <2>1, <2>2 DEF Client
  <2>4. client' = [client EXCEPT ![c] = r]
    BY <1>1 DEF Accept, e
  <2> HIDE DEF r
  <2>5. /\ client' \in [Conns -> Client]
        /\ \A d \in Conns : client'[d].sessionID <= subscribes
    BY <2>3, <2>4 DEF TypeInv
  <2>6. Accepted' = Accepted \cup {c}
    BY <2>3, <2>4 DEF TypeInv, Accepted
  <2>7. /\ numberOfConnections' = c /\ c = numberOfConnections + 1
        /\ extranonces' = extranonces \cup {e}
        /\ UNCHANGED <<gone, sessions, subscribes, work, broadcast>>
    BY <1>1 DEF Accept, listener, e
  <2> QED
    BY <2>1, <2>5, <2>6, <2>7 DEF TypeInv
<1>2. ASSUME NEW c \in Conns, Leave(c)
      PROVE  TypeInv'
  BY <1>2 DEF TypeInv, Leave, Accepted, clients, listener
<1>3. ASSUME NEW c \in Conns, Subscribe(c)
      PROVE  TypeInv'
  <2> DEFINE r == [client[c] EXCEPT !.sessionID = subscribes + 1]
  <2>1. c \in Accepted /\ client[c] \in Client /\ client[c].sessionID \in 0 .. subscribes
    BY <1>3, Known DEF Subscribe, Reads
  <2>2. subscribes' = subscribes + 1 /\ subscribes + 1 \in 1 .. MaxSubscribes
    BY <1>3 DEF TypeInv, Subscribe
  <2>3. r \in Client /\ r.stage = client[c].stage /\ r.sessionID = subscribes + 1
    BY <2>1, <2>2 DEF Client
  <2>4. r.stage # "none"
    BY <1>3, <2>3 DEF Subscribe, Reads
  <2>5. Set(c, r) \/ Set(c, Ended(c, FALSE))
    BY <1>3, <2>2 DEF Subscribe, Answer
  <2>6. UNCHANGED <<numberOfConnections, extranonces, gone, sessions, work, broadcast>>
    BY <1>3 DEF Subscribe, ClientStep, listener
  <2> HIDE DEF r
  <2>7. SetTyped
    <3>1. CASE Set(c, r)
      BY <2>1, <2>2, <2>3, <2>4, <3>1, SetOne
    <3>2. CASE Set(c, Ended(c, FALSE))
      BY <2>1, <2>2, <3>2, SetEnded DEF Accepted
    <3> QED
      BY <2>5, <3>1, <3>2
  <2> QED
    BY <2>2, <2>6, <2>7 DEF TypeInv, SetTyped
<1>4. ASSUME NEW c \in Conns, Authorize(c)
      PROVE  TypeInv'
  <2> DEFINE r == [client[c] EXCEPT !.login = TRUE, !.stage = "authorizing",
                      !.early = (@ \/ client[c].sessionID = NoId)]
  <2>1. c \in Accepted /\ client[c] \in Client /\ client[c].sessionID \in 0 .. subscribes
    BY <1>4, Known DEF Authorize, Reads
  <2>2. (client[c].early \/ client[c].sessionID = NoId) \in BOOLEAN
    OBVIOUS
  <2>3. r \in Client /\ r.stage = "authorizing" /\ r.sessionID = client[c].sessionID
    BY <2>1, <2>2 DEF Client
  <2>4. Set(c, r) \/ Set(c, Ended(c, FALSE))
    BY <1>4 DEF Authorize, Answer
  <2>5. /\ UNCHANGED <<numberOfConnections, extranonces, gone, subscribes, work, broadcast>>
        /\ sessions' = AddSession(c)
    BY <1>4 DEF Authorize, ClientStep, listener
  <2> HIDE DEF r
  <2>6. SetTyped
    <3>1. CASE Set(c, r)
      BY <2>1, <2>3, <2>5, <3>1, SetOne
    <3>2. CASE Set(c, Ended(c, FALSE))
      BY <2>1, <2>5, <3>2, SetEnded DEF Accepted
    <3> QED
      BY <2>4, <3>1, <3>2
  <2> QED
    BY <2>1, <2>5, <2>6 DEF TypeInv, SetTyped, AddSession
<1>5. ASSUME NEW c \in Conns, ReadWork(c)
      PROVE  TypeInv'
  <2> DEFINE r == [client[c] EXCEPT !.stage = "sending", !.work = work]
  <2>1. c \in Accepted /\ client[c] \in Client /\ client[c].sessionID \in 0 .. subscribes
    BY <1>5, Known DEF ReadWork
  <2>2. work \in 0 .. MaxWork + 1
    BY DEF TypeInv
  <2>3. r \in Client /\ r.stage = "sending" /\ r.sessionID = client[c].sessionID
    BY <2>1, <2>2 DEF Client
  <2>4. Set(c, r)
    BY <1>5 DEF ReadWork
  <2>5. UNCHANGED <<numberOfConnections, extranonces, gone, sessions, subscribes, work, broadcast>>
    BY <1>5 DEF ReadWork, ClientStep, listener
  <2> HIDE DEF r
  <2>6. SetTyped
    BY <2>1, <2>3, <2>4, <2>5, SetOne
  <2> QED
    BY <2>5, <2>6 DEF TypeInv, SetTyped
<1>6. ASSUME NEW c \in Conns, SendWork(c)
      PROVE  TypeInv'
  <2> DEFINE late == client[c].work < work
             r == [client[c] EXCEPT !.stage = "reading", !.work = 0,
                      !.got = client[c].work, !.overtaken = late]
  <2>1. c \in Accepted /\ client[c] \in Client /\ client[c].sessionID \in 0 .. subscribes
    BY <1>6, Known DEF SendWork
  <2>2. late \in BOOLEAN /\ 0 \in 0 .. MaxWork + 1
    OBVIOUS
  <2>3. r \in Client /\ r.stage = "reading" /\ r.sessionID = client[c].sessionID
    <3> HIDE DEF late
    <3> DEFINE s == [client[c] EXCEPT !.work = 0, !.got = client[c].work]
    <3>1. s \in Client /\ s.sessionID = client[c].sessionID
      BY <2>1, <2>2 DEF Client
    <3>2. r = [s EXCEPT !.stage = "reading", !.overtaken = late]
      BY <2>1 DEF Client
    <3> HIDE DEF s, r
    <3> QED
      BY <2>2, <3>1, <3>2 DEF Client
  <2>4. Set(c, r) \/ Set(c, Ended(c, FALSE))
    BY <1>6 DEF SendWork
  <2>5. UNCHANGED <<numberOfConnections, extranonces, gone, sessions, subscribes, work, broadcast>>
    BY <1>6 DEF SendWork, ClientStep, listener
  <2> HIDE DEF r
  <2>6. SetTyped
    <3>1. CASE Set(c, r)
      BY <2>1, <2>3, <2>5, <3>1, SetOne
    <3>2. CASE Set(c, Ended(c, FALSE))
      BY <2>1, <2>5, <3>2, SetEnded DEF Accepted
    <3> QED
      BY <2>4, <3>1, <3>2
  <2> QED
    BY <2>5, <2>6 DEF TypeInv, SetTyped
<1>7. ASSUME NEW c \in Conns, Forget(c) \/ Fail(c)
      PROVE  TypeInv'
  <2>1. c \in Accepted /\ client[c] \in Client /\ client[c].sessionID \in 0 .. subscribes
    BY <1>7, Known DEF Forget, Fail, Reads
  <2>2. Set(c, Ended(c, TRUE)) \/ Set(c, Ended(c, FALSE))
    BY <1>7 DEF Forget, Fail
  <2>3. /\ UNCHANGED <<numberOfConnections, extranonces, gone, subscribes, work, broadcast>>
        /\ sessions' \in {sessions, RemoveSession(c)}
    BY <1>7 DEF Forget, Fail, ClientStep, listener
  <2>4. SetTyped
    BY <2>1, <2>2, <2>3, SetEnded DEF Accepted
  <2> QED
    BY <2>3, <2>4 DEF TypeInv, SetTyped, RemoveSession
<1>9. CASE Die
  BY <1>9 DEF TypeInv, Die, Accepted, Client, NoClient, NoSessions, listener
<1>10. CASE Refresh
  BY <1>10 DEF TypeInv, Refresh, ListenerStep, Accepted
<1>11. CASE BroadcastWork
  BY <1>11 DEF TypeInv, BroadcastWork, ListenerStep, Accepted
<1>12. ASSUME NEW id \in 0 .. MaxSubscribes, Notify(id)
       PROVE  TypeInv'
  <2> DEFINE c == sessions[id]
  <2>1. c \in Conns /\ client[c].stage # "none"
    BY <1>12 DEF TypeInv, Notify, Accepted
  <2>2. c \in Accepted /\ client[c] \in Client /\ client[c].sessionID \in 0 .. subscribes
    BY <2>1, Known
  <2>3. /\ UNCHANGED <<numberOfConnections, extranonces, gone, sessions, subscribes, work>>
        /\ broadcast' = [broadcast EXCEPT !.visited = @ \cup {id}]
        /\ broadcast.work \in 0 .. MaxWork + 1
    BY <1>12 DEF TypeInv, Notify, ListenerStep
  <2>4. CASE UNCHANGED client
    BY <2>3, <2>4 DEF TypeInv, Accepted
  <2>5. ASSUME NEW r \in {[client[c] EXCEPT !.got = broadcast.work, !.overtaken = FALSE],
                          [client[c] EXCEPT !.broken = TRUE]},
               Set(c, r)
        PROVE  TypeInv'
    <3> HIDE DEF c
    <3>1. r \in Client /\ r.stage = client[c].stage /\ r.sessionID = client[c].sessionID
      BY <2>2, <2>3, <2>5 DEF Client
    <3>2. SetTyped
      BY <2>1, <2>2, <2>3, <2>5, <3>1, SetOne
    <3> QED
      BY <2>3, <3>2 DEF TypeInv, SetTyped
  <2> QED
    BY <1>12, <2>4, <2>5 DEF Notify
<1>13. CASE BroadcastEnds
  BY <1>13 DEF TypeInv, BroadcastEnds, ListenerStep, Accepted
<1>14. CASE UNCHANGED vars
  BY <1>14 DEF TypeInv, vars, clients, listener, Accepted
<1> QED
  BY <1>1, <1>2, <1>3, <1>4, <1>5, <1>6, <1>7, <1>9, <1>10, <1>11, <1>12,
     <1>13, <1>14 DEF Next, Panic, ConcurrentMapAccess

LEMMA Typed == Spec => []TypeInv
BY TypeInit, TypeStep, PTL DEF Spec

LEMMA TypeInvIsTypeOK == TypeInv => TypeOK
<1> SUFFICES ASSUME TypeInv
             PROVE  TypeOK
  OBVIOUS
<1>1. numberOfConnections = Cardinality(Accepted)
  BY FS_Interval DEF TypeInv
<1> QED
  BY <1>1 DEF TypeInv, TypeOK, Accepted

(* The session map holds connections that were accepted, and each of those *)
(* is counted, whatever ends and whatever the listener does meanwhile      *)
(* (network.go:70-78: the counter is never lowered; session.go).           *)
THEOREM TypeCorrect == Spec => []TypeOK
BY Typed, TypeInvIsTypeOK, PTL

-----------------------------------------------------------------------------
(* What the actions do to the record of a client *)

Others(c) == \A d \in Conns \ {c} : client'[d] = client[d]

SameAddress(c) ==
    /\ client'[c].sessionID = client[c].sessionID
    /\ client'[c].extranonce1 = client[c].extranonce1

SameLogin(c) ==
    /\ client'[c].login = client[c].login
    /\ client'[c].early = client[c].early
    /\ client'[c].forgotten = client[c].forgotten

SameWork(c) ==
    /\ client'[c].broken = client[c].broken
    /\ client'[c].got = client[c].got
    /\ client'[c].overtaken = client[c].overtaken

HasEnded(c, forgotten) ==
    /\ SameAddress(c)
    /\ client'[c].stage = "ended"
    /\ ~client'[c].login
    /\ client'[c].forgotten = forgotten

LEMMA SetEffect ==
    ASSUME TypeInv, NEW c \in Conns, NEW r, Set(c, r)
    PROVE  client'[c] = r /\ Others(c)
BY DEF TypeInv, Set, Others

LEMMA EndedEffect ==
    ASSUME TypeInv, NEW c \in Conns, NEW forgotten \in BOOLEAN,
           Set(c, Ended(c, forgotten))
    PROVE  HasEnded(c, forgotten) /\ Others(c)
<1>1. Ended(c, forgotten).login = FALSE
  BY DEF Ended, NoClient
<1> QED
  BY <1>1, SetEffect, EndedIsClient DEF HasEnded, SameAddress

LEMMA SubscribeEffect ==
    ASSUME TypeInv, NEW c \in Conns, Subscribe(c)
    PROVE  /\ client[c].stage = "reading" /\ Others(c)
           /\ \/ /\ client'[c].stage = "reading"
                 /\ client'[c].sessionID = subscribes + 1
                 /\ client'[c].extranonce1 = client[c].extranonce1
                 /\ SameLogin(c) /\ SameWork(c)
              \/ HasEnded(c, FALSE)
<1> DEFINE r == [client[c] EXCEPT !.sessionID = subscribes + 1]
<1>1. client[c] \in Client /\ client[c].stage = "reading" /\ subscribes' = subscribes + 1
  BY DEF TypeInv, Subscribe, Reads
<1>2. CASE Set(c, Ended(c, FALSE))
  BY <1>1, <1>2, EndedEffect
<1>3. CASE Set(c, r)
  <2>1. client'[c] = r /\ Others(c)
    BY <1>3, SetEffect
  <2> QED
    BY <1>1, <2>1 DEF SameLogin, SameWork, Client
<1> QED
  BY <1>1, <1>2, <1>3 DEF Subscribe, Answer

LEMMA AuthorizeEffect ==
    ASSUME TypeInv, NEW c \in Conns, Authorize(c)
    PROVE  /\ client[c].stage = "reading" /\ Others(c) /\ SameAddress(c)
           /\ \/ /\ client'[c].stage = "authorizing"
                 /\ client'[c].login
                 /\ client'[c].early = (client[c].early \/ client[c].sessionID = NoId)
                 /\ client'[c].forgotten = client[c].forgotten
                 /\ SameWork(c)
              \/ HasEnded(c, FALSE)
<1> DEFINE early == client[c].early \/ client[c].sessionID = NoId
           r == [client[c] EXCEPT !.login = TRUE, !.stage = "authorizing", !.early = early]
<1>1. client[c] \in Client /\ client[c].stage = "reading"
  BY DEF TypeInv, Authorize, Reads
<1>2. CASE Set(c, Ended(c, FALSE))
  BY <1>1, <1>2, EndedEffect DEF HasEnded
<1>3. CASE Set(c, r)
  <2>1. client'[c] = r /\ Others(c)
    BY <1>3, SetEffect
  <2> HIDE DEF early
  <2>2. r.early = early /\ r.stage = "authorizing" /\ r.login
        /\ r.sessionID = client[c].sessionID /\ r.extranonce1 = client[c].extranonce1
        /\ r.forgotten = client[c].forgotten /\ r.broken = client[c].broken
        /\ r.got = client[c].got /\ r.overtaken = client[c].overtaken
    BY <1>1 DEF Client
  <2> HIDE DEF r
  <2> QED
    BY <1>1, <2>1, <2>2 DEF SameAddress, SameWork, early
<1> QED
  BY <1>1, <1>2, <1>3 DEF Authorize, Answer

LEMMA ReadWorkEffect ==
    ASSUME TypeInv, NEW c \in Conns, ReadWork(c)
    PROVE  /\ client[c].stage = "authorizing" /\ Others(c)
           /\ client'[c].stage = "sending" /\ client'[c].work = work
           /\ SameAddress(c) /\ SameLogin(c) /\ SameWork(c)
<1>1. client[c] \in Client /\ client[c].stage = "authorizing"
  BY DEF TypeInv, ReadWork
<1>2. client'[c] = [client[c] EXCEPT !.stage = "sending", !.work = work] /\ Others(c)
  BY SetEffect DEF ReadWork
<1> QED
  BY <1>1, <1>2 DEF SameAddress, SameLogin, SameWork, Client

LEMMA SendWorkEffect ==
    ASSUME TypeInv, NEW c \in Conns, SendWork(c)
    PROVE  /\ client[c].stage = "sending" /\ Others(c) /\ SameAddress(c)
           /\ \/ /\ client'[c].stage = "reading"
                 /\ client'[c].got = client[c].work
                 /\ client'[c].overtaken = (client[c].work < work)
                 /\ SameLogin(c)
              \/ HasEnded(c, FALSE)
<1> DEFINE late == client[c].work < work
           r == [client[c] EXCEPT !.stage = "reading", !.work = 0,
                    !.got = client[c].work, !.overtaken = late]
<1>1. client[c] \in Client /\ client[c].stage = "sending"
  BY DEF TypeInv, SendWork
<1>2. CASE Set(c, Ended(c, FALSE))
  BY <1>1, <1>2, EndedEffect DEF HasEnded
<1>3. CASE Set(c, r)
  <2>1. client'[c] = r /\ Others(c)
    BY <1>3, SetEffect
  <2> HIDE DEF late
  <2>2. r.overtaken = late /\ r.stage = "reading" /\ r.got = client[c].work
        /\ r.sessionID = client[c].sessionID /\ r.extranonce1 = client[c].extranonce1
        /\ r.forgotten = client[c].forgotten /\ r.login = client[c].login
        /\ r.early = client[c].early
    BY <1>1 DEF Client
  <2> HIDE DEF r
  <2> QED
    BY <1>1, <2>1, <2>2 DEF SameAddress, SameLogin, late
<1> QED
  BY <1>1, <1>2, <1>3 DEF SendWork

LEMMA NotifyEffect ==
    ASSUME TypeInv, NEW id \in 0 .. MaxSubscribes, Notify(id),
           NEW c, c = sessions[id]
    PROVE  /\ c \in Conns /\ id \in DOMAIN sessions /\ Others(c)
           /\ client'[c].stage = client[c].stage /\ client[c].stage # "none"
           /\ client'[c].work = client[c].work
           /\ SameAddress(c) /\ SameLogin(c)
           /\ \/ client[c].stage = "ended"
              \/ client'[c].got = broadcast.work
              \/ client'[c].broken
<1>1. c \in Conns /\ client[c] \in Client /\ client[c].stage # "none" /\ id \in DOMAIN sessions
  BY DEF TypeInv, Notify, Accepted
<1>2. CASE UNCHANGED client /\ client[c].stage = "ended"
  BY <1>1, <1>2 DEF Others, SameAddress, SameLogin
<1>3. CASE Set(c, [client[c] EXCEPT !.got = broadcast.work, !.overtaken = FALSE])
  <2>1. client'[c] = [client[c] EXCEPT !.got = broadcast.work, !.overtaken = FALSE] /\ Others(c)
    BY <1>1, <1>3, SetEffect
  <2> QED
    BY <1>1, <2>1 DEF SameAddress, SameLogin, Client
<1>4. CASE Set(c, [client[c] EXCEPT !.broken = TRUE])
  <2>1. client'[c] = [client[c] EXCEPT !.broken = TRUE] /\ Others(c)
    BY <1>1, <1>4, SetEffect
  <2> QED
    BY <1>1, <2>1 DEF SameAddress, SameLogin, Client
<1> QED
  BY <1>1, <1>2, <1>3, <1>4 DEF Notify

LEMMA AcceptEffect ==
    ASSUME TypeInv, NEW c \in Conns, Accept(c)
    PROVE  /\ client[c].stage = "none" /\ Others(c)
           /\ client'[c].stage = "reading" /\ client'[c].sessionID = client[c].sessionID
           /\ client'[c].extranonce1 \in UniqueExtranonce
           /\ extranonces' = extranonces \cup {client'[c].extranonce1}
           /\ SameLogin(c) /\ SameWork(c)
<1> DEFINE e == CHOOSE e \in UniqueExtranonce : TRUE
           r == [client[c] EXCEPT !.stage = "reading", !.extranonce1 = e]
<1>1. client[c] \in Client /\ c \notin Accepted
  BY DEF TypeInv, Accept
<1>2. e \in UniqueExtranonce /\ extranonces' = extranonces \cup {e}
  BY DEF Accept
<1>3. client' = [client EXCEPT ![c] = r]
  BY DEF Accept
<1> HIDE DEF e
<1>4. client'[c] = r /\ Others(c)
  BY <1>3 DEF TypeInv, Others
<1> QED
  BY <1>1, <1>2, <1>4 DEF Accepted, SameLogin, SameWork, Client

\* Forget and Fail
LEMMA EndEffect ==
    ASSUME TypeInv, NEW c \in Conns, Forget(c) \/ Fail(c)
    PROVE  /\ client[c].stage = "reading" /\ Others(c)
           /\ \/ HasEnded(c, TRUE) /\ sessions' = RemoveSession(c)
              \/ HasEnded(c, FALSE) /\ sessions' = sessions
BY EndedEffect DEF Forget, Fail, Reads

-----------------------------------------------------------------------------
(* No two connections mine with the same extranonce *)

UniqueInv ==
    /\ numberOfConnections <= MaxConnections + 1
    /\ \A c \in Accepted : client[c].extranonce1 \in extranonces
    /\ \A c, d \in Accepted :
          client[c].extranonce1 = client[d].extranonce1 => c = d

LEMMA UniqueInit == Init => UniqueInv
BY StratumAssumption DEF Init, UniqueInv, Accepted, NoClient

\* A step that accepts no connection leaves the extranonces as they are.
ExtranoncesKept ==
    /\ UNCHANGED <<numberOfConnections, extranonces>>
    /\ \A c \in Conns : client'[c].extranonce1 = client[c].extranonce1

LEMMA UniqueKept == TypeInv /\ TypeInv' /\ UniqueInv /\ ExtranoncesKept => UniqueInv'
<1> SUFFICES ASSUME TypeInv, TypeInv', UniqueInv, ExtranoncesKept
             PROVE  UniqueInv'
  OBVIOUS
<1>1. Accepted' = Accepted /\ Accepted \subseteq Conns
  BY DEF TypeInv, ExtranoncesKept, Accepted
<1> QED
  BY <1>1 DEF UniqueInv, ExtranoncesKept

LEMMA UniqueStep == TypeInv /\ TypeInv' /\ UniqueInv /\ [Next]_vars => UniqueInv'
<1> SUFFICES ASSUME TypeInv, TypeInv', UniqueInv, [Next]_vars
             PROVE  UniqueInv'
  OBVIOUS
<1>1. ASSUME NEW c \in Conns, Accept(c)
      PROVE  UniqueInv'
  <2>1. /\ Accepted = 1 .. numberOfConnections /\ numberOfConnections \in Nat
        /\ Accepted' = 1 .. c /\ c = numberOfConnections + 1
        /\ numberOfConnections' = c /\ numberOfConnections <= MaxConnections
    BY <1>1 DEF TypeInv, Accept, HasRoom
  <2>2. Accepted' = Accepted \cup {c} /\ c \notin Accepted /\ Accepted \subseteq Conns
    BY <2>1 DEF Accepted
  <2>3. /\ \A d \in Accepted : client'[d].extranonce1 = client[d].extranonce1
        /\ client'[c].extranonce1 \notin extranonces
        /\ extranonces' = extranonces \cup {client'[c].extranonce1}
    BY <1>1, <2>2, AcceptEffect DEF Others, UniqueExtranonce
  <2> QED
    BY <2>1, <2>2, <2>3, StratumAssumption DEF UniqueInv
<1>2. CASE Die
  <2>1. numberOfConnections' = 0 /\ Accepted' = {}
    BY <1>2 DEF Die, TypeInv
  <2> QED
    BY <2>1, StratumAssumption DEF UniqueInv
<1>3. ASSUME NEW c \in Conns, Leave(c) \/ Subscribe(c) \/ Authorize(c) \/ ReadWork(c)
                              \/ SendWork(c) \/ Forget(c) \/ Fail(c)
      PROVE  UniqueInv'
  <2>1. UNCHANGED <<numberOfConnections, extranonces>>
    BY <1>3 DEF Leave, clients, Subscribe, Authorize, ReadWork, SendWork, Forget, Fail, ClientStep
  <2>2. CASE Leave(c)
    BY <2>1, <2>2, UniqueKept DEF Leave, clients, ExtranoncesKept
  <2>3. CASE ~Leave(c)
    <3>1. Others(c) /\ client'[c].extranonce1 = client[c].extranonce1
      BY <1>3, <2>3, SubscribeEffect, AuthorizeEffect, ReadWorkEffect, SendWorkEffect,
         EndEffect DEF HasEnded, SameAddress
    <3> QED
      BY <2>1, <3>1, UniqueKept DEF Others, ExtranoncesKept
  <2> QED
    BY <2>2, <2>3
<1>4. ASSUME NEW id \in 0 .. MaxSubscribes, Notify(id)
      PROVE  UniqueInv'
  <2>1. UNCHANGED <<numberOfConnections, extranonces>>
    BY <1>4 DEF Notify, ListenerStep
  <2> QED
    BY <1>4, <2>1, NotifyEffect, UniqueKept DEF ExtranoncesKept, Others, SameAddress
<1>5. CASE Refresh \/ BroadcastWork \/ BroadcastEnds \/ UNCHANGED vars
  BY <1>5, UniqueKept DEF ExtranoncesKept, Refresh, BroadcastWork, BroadcastEnds, ListenerStep,
     vars, clients
<1> QED
  BY <1>1, <1>2, <1>3, <1>4, <1>5 DEF Next, Panic, ConcurrentMapAccess

LEMMA Unique == Spec => []UniqueInv
BY UniqueInit, UniqueStep, Typed, PTL DEF Spec

LEMMA UniqueInvIsUnique == TypeInv /\ UniqueInv => UniqueWithinLimit
<1> SUFFICES ASSUME TypeInv, UniqueInv
             PROVE  UniqueWithinLimit
  OBVIOUS
<1>1. Cardinality(Accepted) = numberOfConnections
  BY FS_Interval DEF TypeInv
<1> QED
  BY <1>1 DEF UniqueInv, UniqueWithinLimit, Accepted

(* However many miners connect, leave and come back, no two of them search *)
(* the same part of the nonce space, and the limit on connections is       *)
(* exceeded by one at most (uniqueExtranonce and the > in network.go).     *)
THEOREM UniqueCorrect == Spec => []UniqueWithinLimit
BY Typed, Unique, UniqueInvIsUnique, PTL

-----------------------------------------------------------------------------
(* Who is forgotten *)

ForgottenInv ==
    /\ \A c \in Conns : client[c].forgotten => client[c].stage = "ended"
    /\ \A id \in DOMAIN sessions :
          client[sessions[id]].forgotten => id # client[sessions[id]].sessionID

LEMMA ForgottenInit == Init => ForgottenInv
BY DEF Init, ForgottenInv, NoClient, NoSessions

\* A step that notices no end leaves the session of one that was noticed.
EndsKept ==
    \A c \in Conns :
        client'[c].forgotten => /\ client[c].forgotten
                                /\ client'[c].stage = client[c].stage
                                /\ client'[c].sessionID = client[c].sessionID

LEMMA ForgottenKept ==
    ASSUME TypeInv, ForgottenInv, EndsKept, UNCHANGED sessions
    PROVE  ForgottenInv'
<1>1. \A id \in DOMAIN sessions : sessions[id] \in Conns
  BY DEF TypeInv, Accepted
<1> QED
  BY <1>1 DEF ForgottenInv, EndsKept

LEMMA ForgottenStep == TypeInv /\ ForgottenInv /\ [Next]_vars => ForgottenInv'
<1> SUFFICES ASSUME TypeInv, ForgottenInv, [Next]_vars
             PROVE  ForgottenInv'
  OBVIOUS
<1>0. \A id \in DOMAIN sessions : sessions[id] \in Conns
  BY DEF TypeInv, Accepted
<1>1. ASSUME NEW c \in Conns, Accept(c)
      PROVE  ForgottenInv'
  <2>1. EndsKept
    BY <1>1, AcceptEffect DEF EndsKept, Others, SameLogin, ForgottenInv
  <2> QED
    BY <1>1, <2>1, ForgottenKept DEF Accept
<1>2. CASE Die
  BY <1>2 DEF Die, ForgottenInv, NoClient, NoSessions
<1>3. ASSUME NEW c \in Conns, Subscribe(c) \/ ReadWork(c) \/ SendWork(c)
      PROVE  ForgottenInv'
  <2>1. EndsKept
    BY <1>3, SubscribeEffect, ReadWorkEffect, SendWorkEffect
       DEF EndsKept, Others, SameLogin, HasEnded, ForgottenInv
  <2> QED
    BY <1>3, <2>1, ForgottenKept DEF Subscribe, ReadWork, SendWork
<1>4. ASSUME NEW c \in Conns, Authorize(c)
      PROVE  ForgottenInv'
  <2>1. Others(c) /\ ~client'[c].forgotten
    BY <1>4, AuthorizeEffect DEF HasEnded, ForgottenInv
  <2>2. \A id \in DOMAIN sessions' :
           sessions'[id] = c \/ (id \in DOMAIN sessions /\ sessions'[id] = sessions[id])
    BY <1>4 DEF Authorize, AddSession
  <2> QED
    BY <1>0, <2>1, <2>2 DEF ForgottenInv, Others
<1>5. ASSUME NEW c \in Conns, Forget(c) \/ Fail(c)
      PROVE  ForgottenInv'
  <2>1. Others(c) /\ client'[c].stage = "ended" /\ client'[c].sessionID = client[c].sessionID
    BY <1>5, EndEffect DEF HasEnded, SameAddress
  <2>2. CASE client'[c].forgotten /\ sessions' = RemoveSession(c)
    <3>1. \A id \in DOMAIN sessions' : /\ id \in DOMAIN sessions /\ sessions'[id] = sessions[id]
                                       /\ id # client[c].sessionID
      BY <2>2 DEF RemoveSession
    <3> QED
      BY <1>0, <2>1, <3>1 DEF ForgottenInv, Others
  <2>3. CASE ~client'[c].forgotten /\ sessions' = sessions
    BY <1>0, <2>1, <2>3 DEF ForgottenInv, Others
  <2> QED
    BY <1>5, <2>2, <2>3, EndEffect DEF HasEnded
<1>6. ASSUME NEW id \in 0 .. MaxSubscribes, Notify(id)
      PROVE  ForgottenInv'
  <2>1. EndsKept
    BY <1>6, NotifyEffect DEF EndsKept, Others, SameLogin, SameAddress
  <2> QED
    BY <1>6, <2>1, ForgottenKept DEF Notify, ListenerStep
<1>7. CASE (\E c \in Conns : Leave(c)) \/ Refresh \/ BroadcastWork \/ BroadcastEnds \/ UNCHANGED vars
  BY <1>7, ForgottenKept DEF EndsKept, Leave, Refresh, BroadcastWork, BroadcastEnds,
     ListenerStep, vars, clients
<1> QED
  BY <1>1, <1>2, <1>3, <1>4, <1>5, <1>6, <1>7 DEF Next, Panic, ConcurrentMapAccess

(* Once the disconnection of a miner was noticed, the broadcast no longer  *)
(* finds it under the id it had last (removeSession in network.go).        *)
THEOREM ForgottenCorrect == Spec => []EndedIsForgotten
<1>1. ForgottenInv => EndedIsForgotten
  BY DEF ForgottenInv, EndedIsForgotten
<1> QED
  BY <1>1, ForgottenInit, ForgottenStep, Typed, PTL DEF Spec

-----------------------------------------------------------------------------
(* Who is in the session map *)

\* A session id is drawn for one connection; what is entered under it stays
\* that connection's; and who logged in after it had subscribed is entered.
Listed(c) == \E id \in DOMAIN sessions : id # NoId /\ sessions[id] = c

SessionInv ==
    /\ \A c, d \in Conns :
          client[c].sessionID # NoId /\ client[c].sessionID = client[d].sessionID => c = d
    /\ \A id \in DOMAIN sessions, c \in Conns :
          id # NoId /\ client[c].sessionID = id => sessions[id] = c
    /\ \A c \in Conns : client[c].login /\ ~client[c].early => Listed(c)
    /\ \A c \in Conns : client[c].stage = "none" => ~client[c].login

LEMMA SessionInit == Init => SessionInv
BY DEF Init, SessionInv, NoClient, NoSessions

SessionsKept ==
    /\ UNCHANGED sessions
    /\ \A c \in Conns :
          /\ client'[c].sessionID = client[c].sessionID
          /\ client'[c].login => client[c].login /\ client'[c].early = client[c].early
          /\ client'[c].stage = "none" => client[c].stage = "none"

LEMMA SessionKept ==
    ASSUME SessionInv, SessionsKept
    PROVE  SessionInv'
BY DEF SessionInv, SessionsKept, Listed

LEMMA SessionStep == TypeInv /\ SessionInv /\ [Next]_vars => SessionInv'
<1> SUFFICES ASSUME TypeInv, SessionInv, [Next]_vars
             PROVE  SessionInv'
  OBVIOUS
<1>0. /\ \A id \in DOMAIN sessions : sessions[id] \in Conns /\ id \in 0 .. subscribes
      /\ \A c \in Conns : client[c].sessionID \in 0 .. subscribes
      /\ subscribes \in Nat
  BY DEF TypeInv, Accepted, Client
<1>1. ASSUME NEW c \in Conns, Accept(c) \/ ReadWork(c) \/ SendWork(c) \/ Fail(c)
      PROVE  SessionInv'
  <2>1. SessionsKept
    <3>1. UNCHANGED sessions
      BY <1>1 DEF Accept, ReadWork, SendWork, Fail
    <3>2. CASE Accept(c)
      BY <1>1, <3>1, <3>2, AcceptEffect DEF SessionsKept, Others, SameLogin
    <3>3. CASE ReadWork(c)
      BY <1>1, <3>1, <3>3, ReadWorkEffect DEF SessionsKept, Others, SameLogin, SameAddress
    <3>4. CASE SendWork(c)
      BY <1>1, <3>1, <3>4, SendWorkEffect DEF SessionsKept, Others, SameLogin, SameAddress, HasEnded
    <3>5. CASE Fail(c)
      BY <1>1, <3>1, <3>5, EndEffect DEF SessionsKept, Others, SameAddress, HasEnded
    <3> QED
      BY <1>1, <3>2, <3>3, <3>4, <3>5
  <2> QED
    BY <2>1, SessionKept
<1>2. CASE Die
  BY <1>2 DEF Die, SessionInv, NoClient, NoSessions
<1>3. ASSUME NEW c \in Conns, Subscribe(c)
      PROVE  SessionInv'
  <2>1. Others(c) /\ UNCHANGED sessions /\ client[c].stage = "reading"
    BY <1>3, SubscribeEffect DEF Subscribe
  <2>2. CASE HasEnded(c, FALSE)
    BY <2>1, <2>2, SessionKept DEF SessionsKept, HasEnded, SameAddress, Others
  <2>3. CASE /\ client'[c].stage = "reading" /\ client'[c].sessionID = subscribes + 1
             /\ SameLogin(c)
    <3>1. /\ \A d \in Conns : client[d].sessionID # subscribes + 1
          /\ \A id \in DOMAIN sessions : id # subscribes + 1
      BY <1>0
    <3> QED
      BY <2>1, <2>3, <3>1 DEF SessionInv, Listed, Others, SameLogin
  <2> QED
    BY <1>3, <2>2, <2>3, SubscribeEffect
<1>4. ASSUME NEW c \in Conns, Authorize(c)
      PROVE  SessionInv'
  <2>1. /\ Others(c) /\ SameAddress(c)
        /\ client'[c].stage # "none"
        /\ client'[c].login => /\ client'[c].early = (client[c].early \/ client[c].sessionID = NoId)
    BY <1>4, AuthorizeEffect DEF HasEnded
  <2>2. /\ DOMAIN sessions' = DOMAIN sessions \cup {client[c].sessionID}
        /\ sessions'[client[c].sessionID] = c
        /\ \A id \in DOMAIN sessions : id # client[c].sessionID => sessions'[id] = sessions[id]
    BY <1>4 DEF Authorize, AddSession
  <2>3. \A id \in DOMAIN sessions : id # NoId => sessions'[id] = sessions[id]
    BY <2>2 DEF SessionInv
  <2>4. \A d \in Conns : Listed(d) => Listed(d)'
    BY <2>2, <2>3 DEF Listed
  <2>5. client[c].sessionID # NoId => Listed(c)'
    BY <2>2 DEF Listed
  <2>6. \A d \in Conns : client'[d].login /\ ~client'[d].early => Listed(d)'
    BY <2>1, <2>4, <2>5 DEF SessionInv, Others
  <2>7. \A d \in Conns : client'[d].sessionID = client[d].sessionID
    BY <2>1 DEF Others, SameAddress
  <2>8. \A id \in DOMAIN sessions', d \in Conns :
           id # NoId /\ client'[d].sessionID = id => sessions'[id] = d
    BY <2>2, <2>7 DEF SessionInv
  <2>9. \A d \in Conns : client'[d].stage = "none" => ~client'[d].login
    BY <2>1 DEF SessionInv, Others
  <2> QED
    BY <2>6, <2>7, <2>8, <2>9 DEF SessionInv
<1>5. ASSUME NEW c \in Conns, Forget(c)
      PROVE  SessionInv'
  <2>1. Others(c) /\ SameAddress(c) /\ client'[c].stage = "ended" /\ ~client'[c].login
    BY <1>5, EndEffect DEF HasEnded
  <2>2. /\ DOMAIN sessions' = DOMAIN sessions \ {client[c].sessionID}
        /\ \A id \in DOMAIN sessions' : sessions'[id] = sessions[id]
    BY <1>5 DEF Forget, RemoveSession
  <2>3. \A d \in Conns \ {c} : Listed(d) => Listed(d)'
    BY <2>2 DEF Listed, SessionInv
  <2>4. \A d \in Conns : client'[d].sessionID = client[d].sessionID
    BY <2>1 DEF Others, SameAddress
  <2> QED
    BY <2>1, <2>2, <2>3, <2>4 DEF SessionInv, Others
<1>6. ASSUME NEW id \in 0 .. MaxSubscribes, Notify(id)
      PROVE  SessionInv'
  <2>1. UNCHANGED sessions
    BY <1>6 DEF Notify, ListenerStep
  <2> QED
    BY <1>6, <2>1, NotifyEffect, SessionKept
       DEF SessionsKept, Others, SameLogin, SameAddress
<1>7. CASE (\E c \in Conns : Leave(c)) \/ Refresh \/ BroadcastWork \/ BroadcastEnds \/ UNCHANGED vars
  BY <1>7, SessionKept DEF SessionsKept, Leave, Refresh, BroadcastWork, BroadcastEnds,
     ListenerStep, vars, clients
<1> QED
  BY <1>1, <1>2, <1>3, <1>4, <1>5, <1>6, <1>7 DEF Next, Panic, ConcurrentMapAccess

-----------------------------------------------------------------------------
(* Who works on the latest work *)

\* What the round still owes a miner
IsOwed(c) == \E id \in Owed : id # NoId /\ sessions[id] = c

Current(c) == client[c].got = work \/ client[c].overtaken \/ client[c].early

WorkInv ==
    /\ \A c \in Conns : client[c].stage = "sending" => client[c].work <= work
    /\ broadcast.stage = "notify" => broadcast.work = work
    /\ broadcast.stage = "wait" => \A c \in Conns : Mining(c) => Current(c)
    /\ broadcast.stage = "notify" => \A c \in Conns : Mining(c) => Current(c) \/ IsOwed(c)

LEMMA WorkInit == Init => WorkInv
BY DEF Init, WorkInv, NoClient

\* A step of a goroutine of c leaves the others and the listener alone.
LEMMA WorkKept ==
    ASSUME WorkInv, NEW c \in Conns, Others(c), UNCHANGED <<work, broadcast>>,
           gone \subseteq gone',
           client'[c].stage = "sending" => client'[c].work <= work,
           Mining(c)' => Current(c)' \/ (Mining(c) /\ (Current(c) => Current(c)')),
           \A d \in Conns : Mining(d)' /\ IsOwed(d) => IsOwed(d)'
    PROVE  WorkInv'
<1>1. \A d \in Conns : /\ client'[d].stage = "sending" => client'[d].work <= work
                       /\ Mining(d)' => Current(d)' \/ (Mining(d) /\ (Current(d) => Current(d)'))
  BY DEF WorkInv, Others, Mining, Current
<1> QED
  BY <1>1 DEF WorkInv

LEMMA WorkStep == TypeInv /\ SessionInv /\ WorkInv /\ [Next]_vars => WorkInv'
<1> SUFFICES ASSUME TypeInv, SessionInv, WorkInv, [Next]_vars
             PROVE  WorkInv'
  OBVIOUS
<1>0. /\ \A c \in Conns : client[c].work \in Nat
      /\ work \in Nat
  BY StratumAssumption DEF TypeInv, Client
<1>1. ASSUME NEW c \in Conns, Accept(c)
      PROVE  WorkInv'
  <2>1. ~client'[c].login /\ client'[c].stage = "reading" /\ Others(c)
    BY <1>1, AcceptEffect DEF SessionInv, SameLogin
  <2>2. UNCHANGED <<work, broadcast, gone, sessions>>
    BY <1>1 DEF Accept, listener
  <2> QED
    BY <2>1, <2>2, WorkKept DEF Mining, IsOwed, Owed
<1>2. ASSUME NEW c \in Conns, Leave(c)
      PROVE  WorkInv'
  <2>1. Others(c) /\ UNCHANGED <<work, broadcast, sessions, client>> /\ gone \subseteq gone'
    BY <1>2 DEF Leave, clients, listener, Others
  <2> QED
    BY <2>1, WorkKept DEF WorkInv, Mining, Current, IsOwed, Owed
<1>3. ASSUME NEW c \in Conns, Subscribe(c)
      PROVE  WorkInv'
  <2>1. UNCHANGED <<work, broadcast, gone, sessions>>
    BY <1>3 DEF Subscribe, ClientStep, listener
  <2>2. Others(c) /\ client'[c].stage # "sending"
    BY <1>3, SubscribeEffect DEF HasEnded
  <2>3. Mining(c)' => Mining(c) /\ (Current(c) => Current(c)')
    BY <1>3, <2>1, SubscribeEffect DEF HasEnded, Mining, Current, SameLogin, SameWork
  <2> QED
    BY <2>1, <2>2, <2>3, WorkKept DEF IsOwed, Owed
<1>4. ASSUME NEW c \in Conns, Authorize(c)
      PROVE  WorkInv'
  <2>1. Others(c) /\ client'[c].stage \in {"authorizing", "ended"}
    BY <1>4, AuthorizeEffect DEF HasEnded
  <2>2. UNCHANGED <<work, broadcast, gone>>
    BY <1>4 DEF Authorize, ClientStep, listener
  <2>3. DOMAIN sessions \subseteq DOMAIN sessions'
    BY <1>4 DEF Authorize, AddSession
  <2>4. \A id \in DOMAIN sessions : id # NoId => sessions'[id] = sessions[id]
    BY <1>4 DEF Authorize, AddSession, SessionInv
  <2>5. \A d \in Conns : IsOwed(d) => IsOwed(d)'
    BY <2>2, <2>3, <2>4 DEF IsOwed, Owed
  <2>6. ~Mining(c)'
    BY <2>1 DEF Mining
  <2> QED
    BY <2>1, <2>2, <2>5, <2>6, WorkKept
<1>5. ASSUME NEW c \in Conns, ReadWork(c)
      PROVE  WorkInv'
  <2>1. UNCHANGED <<work, broadcast, gone, sessions>>
    BY <1>5 DEF ReadWork, ClientStep, listener
  <2>2. Others(c) /\ client'[c].stage = "sending" /\ client'[c].work = work
    BY <1>5, ReadWorkEffect
  <2>3. ~Mining(c)'
    BY <2>2 DEF Mining
  <2> QED
    BY <1>0, <2>1, <2>2, <2>3, WorkKept DEF IsOwed, Owed
<1>6. ASSUME NEW c \in Conns, SendWork(c)
      PROVE  WorkInv'
  <2>1. UNCHANGED <<work, broadcast, gone, sessions>>
    BY <1>6 DEF SendWork, ClientStep, listener
  <2>2. Others(c) /\ client'[c].stage # "sending"
    BY <1>6, SendWorkEffect DEF HasEnded
  <2>3. Mining(c)' => Current(c)'
    <3>1. client[c].work <= work
      BY <1>6, SendWorkEffect DEF WorkInv
    <3>2. client[c].work = work \/ client[c].work < work
      BY <1>0, <3>1
    <3> QED
      BY <1>6, <2>1, <3>2, SendWorkEffect DEF HasEnded, Mining, Current
  <2> QED
    BY <2>1, <2>2, <2>3, WorkKept DEF IsOwed, Owed
<1>7. ASSUME NEW c \in Conns, Forget(c) \/ Fail(c)
      PROVE  WorkInv'
  <2>1. UNCHANGED <<work, broadcast, gone>>
    BY <1>7 DEF Forget, Fail, ClientStep, listener
  <2>2. Others(c) /\ client'[c].stage = "ended"
    BY <1>7, EndEffect DEF HasEnded
  <2>3. \A d \in Conns \ {c} : IsOwed(d) => IsOwed(d)'
    <3>1. CASE sessions' = sessions
      BY <2>1, <3>1 DEF IsOwed, Owed
    <3>2. CASE sessions' = RemoveSession(c)
      <4>1. /\ DOMAIN sessions' = DOMAIN sessions \ {client[c].sessionID}
            /\ \A id \in DOMAIN sessions' : sessions'[id] = sessions[id]
        BY <3>2 DEF RemoveSession
      <4>2. \A id \in DOMAIN sessions :
               id # NoId /\ id = client[c].sessionID => sessions[id] = c
        BY DEF SessionInv
      <4> QED
        BY <2>1, <4>1, <4>2 DEF IsOwed, Owed
    <3> QED
      BY <1>7, <3>1, <3>2, EndEffect
  <2>4. ~Mining(c)'
    BY <2>2 DEF Mining
  <2> QED
    BY <2>1, <2>2, <2>3, <2>4, WorkKept
<1>8. CASE Die
  BY <1>8 DEF Die, WorkInv, NoClient, Mining, listener
<1>9. CASE Refresh
  <2>1. /\ broadcast'.stage = "fetched" /\ work' = work + 1 /\ UNCHANGED client
    BY <1>9 DEF Refresh, TypeInv
  <2> QED
    BY <1>0, <2>1 DEF WorkInv
<1>10. CASE BroadcastWork
  <2>1. /\ broadcast'.stage = "notify" /\ broadcast'.work = work
        /\ broadcast'.owed = DOMAIN sessions /\ broadcast'.visited = {}
        /\ UNCHANGED <<work, client, gone, sessions>>
    BY <1>10 DEF BroadcastWork, ListenerStep
  <2>2. Owed' = DOMAIN sessions
    BY <2>1 DEF Owed
  <2>3. \A c \in Conns : Mining(c)' => client[c].early \/ IsOwed(c)'
    BY <2>1, <2>2 DEF SessionInv, Listed, IsOwed, Mining
  <2> QED
    BY <2>1, <2>3 DEF WorkInv, Current
<1>11. ASSUME NEW id \in 0 .. MaxSubscribes, Notify(id)
       PROVE  WorkInv'
  <2>0. PICK c \in Conns : c = sessions[id]
    BY <1>11, NotifyEffect
  <2>1. /\ broadcast.stage = "notify"
        /\ UNCHANGED <<work, gone, sessions>>
        /\ broadcast' = [broadcast EXCEPT !.visited = @ \cup {id}]
    BY <1>11 DEF Notify, ListenerStep
  <2>2. /\ Others(c) /\ client'[c].stage = client[c].stage
        /\ client'[c].work = client[c].work /\ SameLogin(c)
        /\ client[c].stage = "ended" \/ client'[c].got = broadcast.work \/ client'[c].broken
    BY <1>11, <2>0, NotifyEffect
  <2>3. /\ broadcast'.stage = "notify" /\ broadcast'.work = broadcast.work
        /\ Owed' = Owed \ {id}
    BY <2>1 DEF Owed
  <2>4. Mining(c)' => Current(c)'
    BY <2>1, <2>2 DEF Mining, Current, WorkInv
  <2>5. \A d \in Conns \ {c} : /\ Mining(d)' => Mining(d)
                               /\ Current(d) => Current(d)'
                               /\ IsOwed(d) => IsOwed(d)'
    BY <2>0, <2>1, <2>2, <2>3 DEF Mining, Current, IsOwed, Others
  <2>6. \A d \in Conns : client'[d].stage = "sending" => client'[d].work <= work
    BY <2>2 DEF Others, WorkInv
  <2> QED
    BY <2>1, <2>3, <2>4, <2>5, <2>6 DEF WorkInv
<1>12. CASE BroadcastEnds
  <2>1. /\ broadcast.stage = "notify" /\ broadcast'.stage = "wait" /\ Owed = {}
        /\ UNCHANGED <<work, client, gone, sessions>>
    BY <1>12 DEF BroadcastEnds, ListenerStep
  <2>2. \A c \in Conns : Mining(c)' => Current(c)'
    BY <2>1 DEF WorkInv, Mining, Current, IsOwed
  <2> QED
    BY <2>1, <2>2 DEF WorkInv
<1>13. CASE UNCHANGED vars
  BY <1>13 DEF WorkInv, Mining, Current, IsOwed, Owed, vars, clients, listener
<1> QED
  BY <1>1, <1>2, <1>3, <1>4, <1>5, <1>6, <1>7, <1>8, <1>9, <1>10, <1>11, <1>12, <1>13
     DEF Next, Panic, ConcurrentMapAccess

(* Whatever the order in which miners log in and the listener refreshes,   *)
(* when it waits for the next block nobody who logged in as the protocol   *)
(* says, and whose login was not answered late, is left on older work (the *)
(* reply to mining.authorize against broadcastWork in server.go).          *)
THEOREM LatestWorkCorrect == Spec => []LatestWork
<1>1. WorkInv => LatestWork
  BY DEF WorkInv, LatestWork, Current
<1>2. Spec => []SessionInv
  BY SessionInit, SessionStep, Typed, PTL DEF Spec
<1> QED
  BY <1>1, <1>2, WorkInit, WorkStep, Typed, PTL DEF Spec

=============================================================================
