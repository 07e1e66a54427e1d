----------------------------- MODULE PoolProofs -----------------------------
(***************************************************************************)
(* The connection pool of module Pool, for any callers, services, servers  *)
(* and cases: one discovery and one subscription at a time for a service,  *)
(* no client lost, and a cache that follows the registry.                  *)
(*                                                                         *)
(* The first is m_connMutex, which a caller holds from the look at the     *)
(* cache to the new client.  The second needs the order of the messages:   *)
(* for every address that is in an answer, a publication or the cache, and *)
(* no longer in the registry, the publication of its end comes later on    *)
(* the same connection, unless it went before the subscription or under a  *)
(* wrong name (unseen).  The registry forgets what is unseen when it       *)
(* answers the next discovery: that is right because the discovery is the  *)
(* only one under way and the cache of its service is empty until its      *)
(* answer comes.  And a publication may overtake an answer that is         *)
(* computed and not sent: that does no harm because the receiving fiber    *)
(* then waits for m_connMutex, which the caller that waits for the answer  *)
(* holds.                                                                  *)
(***************************************************************************)
EXTENDS Pool, TLAPS

Addresses == {e[2] : e \in Entries}

Request == [type : {"discover", "subscribe"}, service : Services, addresses : {{}}]
Notice == [type : {"discovered", "subscribed", "join", "quit"}, service : Services,
           addresses : SUBSET Addresses]

PcType ==
    /\ pc \in [Callers \cup {Recv, User} ->
                 {"read", "ready", "call", "use", "use own", "again", "look", "await",
                  "subscribe", "select", "callback", "done", "wild"}]
    /\ \A c \in Callers : pc[c] \notin {"read", "ready", "callback"}

CallerType ==
    /\ load \in Loads
    /\ using \in [Callers -> Callers \cup {None}]
    /\ client \in [Callers -> [address : Addresses \cup {None}, open : BOOLEAN]]
    /\ answer \in [Callers -> {<<>>} \cup {<<as>> : as \in SUBSET Addresses}]

MapType ==
    /\ conns \in [Services -> Callers \cup {None}]
    /\ cache \in [Services -> SUBSET Addresses]
    /\ discoverHandle \in [Services -> Callers \cup {None}]
    /\ subHandle \subseteq Services
    /\ subscribed \subseteq Services

FlowType ==
    /\ chan \in Seq(Request) /\ toRegistry \in Seq(Request) /\ toPool \in Seq(Notice)
    /\ reply \in {<<>>} \cup {<<m>> : m \in Notice}

HandType == pc[Recv] = "callback" => publication \in Notice

RegistryType ==
    /\ open \in BOOLEAN /\ registryOpen \in BOOLEAN
    /\ directory \subseteq Entries

TypeOK == PcType /\ CallerType /\ MapType /\ FlowType /\ HandType /\ RegistryType

-----------------------------------------------------------------------------
(* The callers *)

\* The caller c is where it needs m_connMutex.
Locked(c) == pc[c] \in {"look", "await", "subscribe", "select"}

LockInv == \A c \in Callers : Locked(c) => connMutex = c

NoClient == \A c \in Callers : Locked(c) => conns[Name(c)] = None

NoCallback == \A c \in Callers : pc[c] = "subscribe" => Name(c) \notin subHandle

NoAddress == \A c \in Callers : pc[c] = "await" => cache[Name(c)] = {}

NoAnswer == \A c \in Callers : pc[c] \in {"call", "use", "again", "look"} => answer[c] = <<>>

\* Who waits in discover() is in m_discover_handle, until a close(), and nobody else is.
WaitInv ==
    /\ \A c \in Callers : pc[c] = "await" /\ open => discoverHandle[Name(c)] = c
    /\ \A n \in Services : discoverHandle[n] # None =>
          LET c == discoverHandle[n] IN open /\ pc[c] = "await" /\ Name(c) = n

CallInv ==
    /\ LockInv
    /\ NoClient
    /\ NoCallback
    /\ NoAddress
    /\ NoAnswer
    /\ WaitInv

-----------------------------------------------------------------------------
(* The messages *)

\* The positions of the messages of one type.
Kind(q, type) == {i \in 1..Len(q) : q[i].type = type}

\* The services for which a caller is in discover() and has no answer yet.
Waited == {Name(c) : c \in {d \in Callers : pc[d] = "await" /\ answer[d] = <<>>}}

\* There is one discovery under way at most, and its caller waits for it.
AskInv ==
    open =>
      /\ \A i \in Kind(chan, "discover") : chan[i].service \in Waited
      /\ \A i \in Kind(toRegistry, "discover") : toRegistry[i].service \in Waited
      /\ \A i \in Kind(reply, "discovered") : reply[i].service \in Waited
      /\ \A i \in Kind(toPool, "discovered") : toPool[i].service \in Waited
      /\ \A i, j \in Kind(chan, "discover") : i = j
      /\ \A i, j \in Kind(toRegistry, "discover") : i = j
      /\ \A i, j \in Kind(toPool, "discovered") : i = j
      /\ Kind(chan, "discover") = {} \/ Kind(toRegistry, "discover") = {}
      /\ Kind(chan, "discover") = {} \/ Kind(reply, "discovered") = {}
      /\ Kind(chan, "discover") = {} \/ Kind(toPool, "discovered") = {}
      /\ Kind(toRegistry, "discover") = {} \/ Kind(reply, "discovered") = {}
      /\ Kind(toRegistry, "discover") = {} \/ Kind(toPool, "discovered") = {}
      /\ Kind(reply, "discovered") = {} \/ Kind(toPool, "discovered") = {}

\* The messages of these types are about services of the set S.
About(q, types, S) == \A i \in 1..Len(q) : q[i].type \in types => q[i].service \in S

\* What the registry publishes has a callback.
SubscribeInv ==
    /\ subscribed \subseteq subHandle
    /\ About(chan, {"subscribe"}, subHandle)
    /\ About(toRegistry, {"subscribe"}, subHandle)
    /\ About(toPool, {"join", "quit"}, subscribed)
    /\ About(reply, {"join", "quit"}, {})
    /\ pc[Recv] = "callback" => publication.service \in subscribed

\* The end of address a of service n is in q, behind the first k messages.
QuitAfter(q, k, n, a) ==
    \E i \in 1..Len(q) : i > k /\ q[i] = Message("quit", n, {a})

QuitInHand(n, a) == pc[Recv] = "callback" /\ publication = Message("quit", n, {a})

\* Address a of service n is there, or its end is behind the first k messages.
Follows(k, n, a) == <<n, a>> \in directory \cup unseen \/ QuitAfter(toPool, k, n, a)

\* What the pool believes of address a of service n is true, or will be taken back.
Tracked(n, a) == Follows(0, n, a) \/ QuitInHand(n, a)

\* The receiving fiber comes to a callback before it comes to message i: while a caller
\* waits for that message it does not come to it.
Unread(i) ==
    \/ pc[Recv] = "callback"
    \/ \E j \in 1..Len(toPool) : j < i /\ toPool[j].type \in {"join", "quit"}

\* An answer is on its way, behind the first k messages.
Answering(k) == Kind(reply, "discovered") # {} \/ \E i \in Kind(toPool, "discovered") : i > k

\* So it is for what is on its way, with regard to what comes behind.
MessagesTracked ==
    /\ \A i \in Kind(toPool, "discovered") :
          Unread(i) \/ \A a \in toPool[i].addresses : Follows(i, toPool[i].service, a)
    /\ \A i \in Kind(toPool, "join") :
          Answering(i) \/ \A a \in toPool[i].addresses : Follows(i, toPool[i].service, a)

ReplyTracked ==
    \A i \in Kind(reply, "discovered") :
        \/ Unread(Len(toPool) + 1)
        \/ \A a \in reply[i].addresses : <<reply[i].service, a>> \in directory \cup unseen

HandTracked ==
    pc[Recv] = "callback" /\ publication.type = "join" =>
        \/ Answering(0)
        \/ \A a \in publication.addresses : Follows(0, publication.service, a)

AnswerTracked ==
    \A c \in Callers : pc[c] = "await" /\ answer[c] # <<>> =>
        \A a \in answer[c][1] : Tracked(Name(c), a)

CacheTracked == \A n \in Services : \A a \in cache[n] : Tracked(n, a)

FollowInv ==
    open /\ registryOpen =>
        MessagesTracked /\ ReplyTracked /\ HandTracked /\ AnswerTracked /\ CacheTracked

IInv ==
    /\ TypeOK
    /\ CallInv
    /\ AskInv
    /\ SubscribeInv
    /\ FollowInv

-----------------------------------------------------------------------------
(* Types *)

LEMMA AppendElements ==
    ASSUME NEW S, NEW q \in Seq(S), NEW e \in S
    PROVE  /\ Append(q, e) \in Seq(S)
           /\ Len(Append(q, e)) = Len(q) + 1
           /\ \A i \in 1..Len(q) : Append(q, e)[i] = q[i]
           /\ Append(q, e)[Len(q) + 1] = e
OBVIOUS

LEMMA TailElements ==
    ASSUME NEW S, NEW q \in Seq(S), q # <<>>
    PROVE  /\ Head(q) \in S /\ Tail(q) \in Seq(S)
           /\ Len(q) \in Nat \ {0}
           /\ Len(Tail(q)) = Len(q) - 1
           /\ \A i \in 1..Len(Tail(q)) : Tail(q)[i] = q[i + 1]
           /\ Head(q) = q[1]
OBVIOUS

\* What callers, the registry and the servers put into messages.
LEMMA MessageTypes ==
    ASSUME TypeOK
    PROVE  /\ \A c \in Callers : Name(c) \in Services
           /\ \A n \in Services : Offering(n) \in SUBSET Addresses
           /\ \A e \in Entries : e[1] \in Services /\ e[2] \in Addresses
           /\ \A n \in Services : /\ Message("discover", n, {}) \in Request
                                  /\ Message("subscribe", n, {}) \in Request
                                  /\ Message("subscribed", n, {}) \in Notice
           /\ \A n \in Services : \A as \in SUBSET Addresses :
                 /\ Message("discovered", n, as) \in Notice
                 /\ Message("join", n, as) \in Notice
                 /\ Message("quit", n, as) \in Notice
<1>1. load \in [callers : SUBSET Callers, service : [Callers -> Services],
                registered : SUBSET Entries, changes : SUBSET Entries, closes : BOOLEAN]
  BY LoadsAssumption DEF TypeOK, CallerType
<1>2. \A c \in Callers : Name(c) \in Services
  BY <1>1 DEF Name
<1>3. \A e \in Entries : e[1] \in Services /\ e[2] \in Addresses
  BY DEF Services, Addresses
<1>4. \A n \in Services : Offering(n) \in SUBSET Addresses
  BY <1>3 DEF Offering, TypeOK, RegistryType
<1>5. \A n \in Services : /\ Message("discover", n, {}) \in Request
                          /\ Message("subscribe", n, {}) \in Request
                          /\ Message("subscribed", n, {}) \in Notice
  BY DEF Message, Request, Notice
<1>6. ASSUME NEW n \in Services, NEW as \in SUBSET Addresses
      PROVE  /\ Message("discovered", n, as) \in Notice
             /\ Message("join", n, as) \in Notice
             /\ Message("quit", n, as) \in Notice
  BY DEF Message, Notice
<1>. QED
  BY <1>2, <1>3, <1>4, <1>5, <1>6

LEMMA TypeInit == Init => TypeOK
<1> SUFFICES ASSUME Init PROVE TypeOK
  OBVIOUS
<1>1. load \in [callers : SUBSET Callers, service : [Callers -> Services],
                registered : SUBSET Entries, changes : SUBSET Entries, closes : BOOLEAN]
  BY LoadsAssumption DEF Init
<1>2. FlowType
  BY DEF Init, FlowType
<1>7. HandType
  BY FibersAssumption DEF Init, HandType
<1>3. PcType
  BY FibersAssumption DEF Init, PcType
<1>4. CallerType
  BY DEF Init, CallerType
<1>5. MapType
  BY DEF Init, MapType
<1>6. RegistryType
  BY <1>1 DEF Init, RegistryType
<1>. QED
  BY <1>2, <1>3, <1>4, <1>5, <1>6, <1>7 DEF TypeOK

\* Every step keeps the types.
LEMMA TypeNext == TypeOK /\ [Next]_vars => TypeOK'
<1> SUFFICES ASSUME TypeOK, [Next]_vars
             PROVE  TypeOK'
  OBVIOUS
<1> USE FibersAssumption DEF Goto, callers, locks, maps, pool, registry
<1>0. PcType /\ CallerType /\ MapType /\ FlowType /\ HandType /\ RegistryType
  BY DEF TypeOK
<1>a. \A c \in Callers : Name(c) \in Services
  BY MessageTypes
<1>1. ASSUME NEW c \in Callers, Enter(c) PROVE TypeOK'
  <2>1. /\ pc[c] = "call"
        /\ pc' = [pc EXCEPT ![c] = "use"] \/ pc' = [pc EXCEPT ![c] = "look"]
        /\ UNCHANGED using \/ /\ using' = [using EXCEPT ![c] = conns[Name(c)]]
                              /\ conns[Name(c)] # None
        /\ UNCHANGED <<load, client, result, answer, subMutex, maps, pool, registry, alive>>
    BY <1>1 DEF Enter
  <2>2. PcType'
    BY <1>0, <2>1 DEF PcType
  <2>3. using' \in [Callers -> Callers \cup {None}]
    BY <1>0, <1>a, <2>1 DEF CallerType, MapType
  <2>4. CallerType'
    BY <1>0, <2>1, <2>3 DEF CallerType
  <2>5. MapType' /\ FlowType' /\ RegistryType'
    BY <1>0, <2>1 DEF MapType, FlowType, RegistryType
  <2>6. HandType'
    BY <1>0, <2>1 DEF HandType, PcType
  <2>. QED
    BY <2>2, <2>4, <2>5, <2>6 DEF TypeOK
<1>2. ASSUME NEW c \in Callers, Use(c) PROVE TypeOK'
  <2>1. /\ pc' = [pc EXCEPT ![c] = "done"] \/ pc' = [pc EXCEPT ![c] = "again"]
        /\ client' = client \/ client' = [client EXCEPT ![c].open = FALSE]
        /\ UNCHANGED <<load, using, answer, locks, maps, pool, registry, alive>>
    BY <1>2 DEF Use
  <2>2. PcType'
    BY <1>0, <2>1 DEF PcType
  <2>5. client' \in [Callers -> [address : Addresses \cup {None}, open : BOOLEAN]]
    <3>1. client \in [Callers -> [address : Addresses \cup {None}, open : BOOLEAN]]
      BY <1>0 DEF CallerType
    <3>2. [client EXCEPT ![c].open = FALSE]
             \in [Callers -> [address : Addresses \cup {None}, open : BOOLEAN]]
      BY <3>1
    <3>. QED
      BY <2>1, <3>1, <3>2
  <2>3. CallerType' /\ MapType' /\ FlowType' /\ RegistryType'
    BY <1>0, <2>1, <2>5 DEF CallerType, MapType, FlowType, RegistryType
  <2>4. HandType'
    BY <1>0, <2>1 DEF HandType, PcType
  <2>. QED
    BY <2>2, <2>3, <2>4 DEF TypeOK
<1>3. ASSUME NEW c \in Callers, Again(c) PROVE TypeOK'
  <2>1. /\ pc' = [pc EXCEPT ![c] = "look"]
        /\ \E gone : cache' = [cache EXCEPT ![Name(c)] = @ \ gone]
        /\ client' = IF conns[Name(c)] = None THEN client ELSE Released(conns[Name(c)])
        /\ conns' = [conns EXCEPT ![Name(c)] = None]
        /\ UNCHANGED <<load, using, answer, subMutex, subHandle, discoverHandle, pool, registry,
                       alive>>
    BY <1>3 DEF Again
  <2>2. PcType'
    BY <1>0, <2>1 DEF PcType
  <2>3. cache' \in [Services -> SUBSET Addresses]
    <3>1. PICK gone : cache' = [cache EXCEPT ![Name(c)] = @ \ gone]
      BY <2>1
    <3>2. cache[Name(c)] \ gone \in SUBSET Addresses
      BY <1>0, <1>a DEF MapType
    <3>. QED
      BY <1>0, <3>1, <3>2 DEF MapType
  <2>4. MapType'
    BY <1>0, <2>1, <2>3 DEF MapType
  <2>5. client' \in [Callers -> [address : Addresses \cup {None}, open : BOOLEAN]]
    <3>1. client \in [Callers -> [address : Addresses \cup {None}, open : BOOLEAN]]
      BY <1>0 DEF CallerType
    <3>2. ASSUME NEW k \in Callers
          PROVE  Released(k) \in [Callers -> [address : Addresses \cup {None}, open : BOOLEAN]]
      <4>1. (client[k].open /\ pc[k] = "use own") \in BOOLEAN
        OBVIOUS
      <4>. QED
        BY <3>1, <4>1 DEF Released
    <3>3. conns[Name(c)] \in Callers \cup {None}
      BY <1>0, <1>a DEF MapType
    <3>. QED
      BY <2>1, <3>1, <3>2, <3>3
  <2>6. CallerType' /\ FlowType' /\ RegistryType'
    BY <1>0, <2>1, <2>5 DEF CallerType, FlowType, RegistryType
  <2>7. HandType'
    BY <1>0, <2>1 DEF HandType, PcType
  <2>. QED
    BY <2>2, <2>4, <2>6, <2>7 DEF TypeOK
<1>4. ASSUME NEW c \in Callers, Discover(c) PROVE TypeOK'
  <2>1. /\ pc' = [pc EXCEPT ![c] = "await"] \/ pc' = [pc EXCEPT ![c] = "done"]
        /\ \/ UNCHANGED discoverHandle
           \/ discoverHandle' = [discoverHandle EXCEPT ![Name(c)] = IF @ = None THEN c ELSE @]
        /\ UNCHANGED chan \/ chan' = Append(chan, Message("discover", Name(c), {}))
        /\ UNCHANGED <<load, using, client, answer, subMutex, conns, cache, subHandle, open,
                       publication, registry, alive>>
    BY <1>4 DEF Discover, Return
  <2>2. PcType'
    BY <1>0, <2>1 DEF PcType
  <2>3. MapType'
    BY <1>0, <1>a, <2>1 DEF MapType
  <2>4. Append(chan, Message("discover", Name(c), {})) \in Seq(Request)
    <3>1. Message("discover", Name(c), {}) \in Request /\ chan \in Seq(Request)
      BY <1>0, <1>a, MessageTypes DEF FlowType
    <3>. QED
      BY <3>1, AppendElements
  <2>5. FlowType'
    BY <1>0, <2>1, <2>4 DEF FlowType
  <2>6. CallerType' /\ RegistryType'
    BY <1>0, <2>1 DEF CallerType, RegistryType
  <2>7. HandType'
    BY <1>0, <2>1 DEF HandType, PcType
  <2>. QED
    BY <2>2, <2>3, <2>5, <2>6, <2>7 DEF TypeOK
<1>5. ASSUME NEW c \in Callers, Answered(c) PROVE TypeOK'
  <2>1. /\ answer[c] # <<>>
        /\ \E to \in {"done", "select", "subscribe"} : pc' = [pc EXCEPT ![c] = to]
        /\ discoverHandle' = [discoverHandle EXCEPT ![Name(c)] = None]
        /\ UNCHANGED cache \/ cache' = [cache EXCEPT ![Name(c)] = answer[c][1]]
        /\ UNCHANGED <<load, using, client, answer, subMutex, conns, subHandle, pool, registry,
                       alive>>
    BY <1>5 DEF Answered, Return
  <2>2. PcType'
    BY <1>0, <2>1 DEF PcType
  <2>3. answer[c][1] \in SUBSET Addresses
    BY <1>0, <2>1 DEF CallerType
  <2>4. cache' \in [Services -> SUBSET Addresses]
    BY <1>0, <2>1, <2>3 DEF MapType
  <2>5. MapType'
    BY <1>0, <2>1, <2>4 DEF MapType
  <2>6. CallerType' /\ FlowType' /\ RegistryType'
    BY <1>0, <2>1 DEF CallerType, FlowType, RegistryType
  <2>7. HandType'
    BY <1>0, <2>1 DEF HandType, PcType
  <2>. QED
    BY <2>2, <2>5, <2>6, <2>7 DEF TypeOK
<1>6. ASSUME NEW c \in Callers, Subscribe(c) PROVE TypeOK'
  <2>1. /\ pc' = [pc EXCEPT ![c] = "select"]
        /\ subHandle' = subHandle \cup {Name(c)}
        /\ UNCHANGED chan \/ chan' = Append(chan, Message("subscribe", Name(c), {}))
        /\ UNCHANGED <<load, callers, locks, conns, cache, discoverHandle, open, publication,
                       registry, alive>>
    BY <1>6 DEF Subscribe
  <2>2. PcType'
    BY <1>0, <2>1 DEF PcType
  <2>3. MapType'
    BY <1>0, <1>a, <2>1 DEF MapType
  <2>4. Append(chan, Message("subscribe", Name(c), {})) \in Seq(Request)
    <3>1. Message("subscribe", Name(c), {}) \in Request /\ chan \in Seq(Request)
      BY <1>0, <1>a, MessageTypes DEF FlowType
    <3>. QED
      BY <3>1, AppendElements
  <2>5. FlowType'
    BY <1>0, <2>1, <2>4 DEF FlowType
  <2>6. CallerType' /\ RegistryType'
    BY <1>0, <2>1 DEF CallerType, RegistryType
  <2>7. HandType'
    BY <1>0, <2>1 DEF HandType, PcType
  <2>. QED
    BY <2>2, <2>3, <2>5, <2>6, <2>7 DEF TypeOK
<1>7. ASSUME NEW c \in Callers, Select(c) PROVE TypeOK'
  <2>1. PICK a \in cache[Name(c)] :
          /\ pc' = [pc EXCEPT ![c] = "use own"] \/ pc' = [pc EXCEPT ![c] = "done"]
          /\ \/ UNCHANGED client
             \/ client' = [client EXCEPT ![c] = [address |-> a, open |-> TRUE]]
          /\ \/ UNCHANGED conns
             \/ conns' = [conns EXCEPT ![Name(c)] = IF @ = None THEN c ELSE @]
          /\ UNCHANGED using \/ using' = [using EXCEPT ![c] = c]
          /\ UNCHANGED <<load, answer, subMutex, cache, subHandle, discoverHandle, pool,
                         registry, alive>>
    BY <1>7 DEF Select, Return
  <2>2. PcType'
    BY <1>0, <2>1 DEF PcType
  <2>3. [address |-> a, open |-> TRUE] \in [address : Addresses \cup {None}, open : BOOLEAN]
    BY <1>0, <1>a DEF MapType
  <2>4. client' \in [Callers -> [address : Addresses \cup {None}, open : BOOLEAN]]
    <3>1. client \in [Callers -> [address : Addresses \cup {None}, open : BOOLEAN]]
      BY <1>0 DEF CallerType
    <3>2. \/ UNCHANGED client
          \/ client' = [client EXCEPT ![c] = [address |-> a, open |-> TRUE]]
      BY <2>1
    <3>. QED
      BY <2>3, <3>1, <3>2
  <2>5. CallerType'
    BY <1>0, <2>1, <2>4 DEF CallerType
  <2>6. MapType'
    <3>1. conns' \in [Services -> Callers \cup {None}]
      <4>1. \/ UNCHANGED conns
            \/ conns' = [conns EXCEPT ![Name(c)] = IF @ = None THEN c ELSE @]
        BY <2>1
      <4>. QED
        BY <1>0, <1>a, <4>1 DEF MapType
    <3>. QED
      BY <1>0, <2>1, <3>1 DEF MapType
  <2>7. FlowType' /\ RegistryType'
    BY <1>0, <2>1 DEF FlowType, RegistryType
  <2>8. HandType'
    BY <1>0, <2>1 DEF HandType, PcType
  <2>. QED
    BY <2>2, <2>5, <2>6, <2>7, <2>8 DEF TypeOK
<1>8. ASSUME NEW c \in Callers, ClientCloses(c) PROVE TypeOK'
  <2>1. CallerType'
    BY <1>0, <1>8 DEF ClientCloses, CallerType
  <2>2. PcType' /\ MapType' /\ FlowType' /\ HandType' /\ RegistryType'
    BY <1>0, <1>8 DEF ClientCloses, PcType, MapType, FlowType, HandType, RegistryType
  <2>. QED
    BY <2>1, <2>2 DEF TypeOK
<1>19. ASSUME NEW c \in Callers, Dangle(c) PROVE TypeOK'
  <2>1. PcType' /\ HandType'
    BY <1>0, <1>19 DEF Dangle, PcType, HandType
  <2>2. CallerType' /\ MapType' /\ FlowType' /\ RegistryType'
    BY <1>0, <1>19 DEF Dangle, CallerType, MapType, FlowType, RegistryType
  <2>. QED
    BY <2>1, <2>2 DEF TypeOK
<1>9. CASE RecvMessage
  <2> DEFINE m == Head(toPool)
             c == discoverHandle[m.service]
  <2>1. /\ \/ UNCHANGED answer
           \/ c # None /\ answer' = [answer EXCEPT ![c] = <<m.addresses>>]
        /\ \/ pc[Recv] = "read" /\ UNCHANGED <<pc, publication>>
           \/ pc' = [pc EXCEPT ![Recv] = "callback"] /\ publication' = m
        /\ toPool # <<>> /\ toPool' = Tail(toPool)
        /\ UNCHANGED <<load, using, client, result, connMutex, maps, open, chan, toRegistry, reply,
                       registryOpen, subscribed, directory, came, unseen, alive>>
    <3>1. \/ UNCHANGED answer
          \/ c # None /\ answer' = [answer EXCEPT ![c] = <<m.addresses>>]
      BY <1>9 DEF RecvMessage
    <3>2. \/ pc[Recv] = "read" /\ UNCHANGED <<pc, publication>>
          \/ pc' = [pc EXCEPT ![Recv] = "callback"] /\ publication' = m
      BY <1>9 DEF RecvMessage
    <3>. QED
      BY <1>9, <3>1, <3>2 DEF RecvMessage
  <2>2. m \in Notice /\ Tail(toPool) \in Seq(Notice)
    BY <1>0, <2>1, TailElements DEF FlowType
  <2>3. m.service \in Services /\ m.addresses \in SUBSET Addresses
    BY <2>2 DEF Notice
  <2>4. c \in Callers \cup {None}
    BY <1>0, <2>3 DEF MapType
  <2>5. PcType'
    BY <1>0, <2>1 DEF PcType
  <2>6. answer' \in [Callers -> {<<>>} \cup {<<as>> : as \in SUBSET Addresses}]
    <3> DEFINE A == {<<>>} \cup {<<as>> : as \in SUBSET Addresses}
    <3>1. answer \in [Callers -> A]
      BY <1>0 DEF CallerType
    <3>2. <<m.addresses>> \in A
      BY <2>3
    <3>3. \/ UNCHANGED answer
          \/ c # None /\ answer' = [answer EXCEPT ![c] = <<m.addresses>>]
      BY <2>1
    <3> HIDE DEF A, m, c
    <3>4. c # None => c \in Callers
      BY <2>4
    <3>5. answer' \in [Callers -> A]
      BY <3>1, <3>2, <3>3, <3>4
    <3>. QED
      BY <3>5 DEF A
  <2>7. CallerType'
    BY <1>0, <2>1, <2>6 DEF CallerType
  <2>8. FlowType'
    BY <1>0, <2>1, <2>2 DEF FlowType
  <2>9. HandType'
    BY <1>0, <2>1, <2>2 DEF HandType, PcType
  <2>10. MapType' /\ RegistryType'
    BY <1>0, <2>1 DEF MapType, RegistryType
  <2>. QED
    BY <2>5, <2>7, <2>8, <2>9, <2>10 DEF TypeOK
<1>10. CASE Callback
  <2>1. PcType'
    BY <1>0, <1>10 DEF Callback, PcType
  <2>2. publication.service \in Services /\ publication.addresses \in SUBSET Addresses
    BY <1>0, <1>10 DEF Callback, HandType, Notice
  <2>3. MapType'
    BY <1>0, <1>10, <2>2 DEF Callback, MapType
  <2>4. HandType'
    BY <1>0, <1>10 DEF Callback, HandType, PcType
  <2>5. CallerType' /\ FlowType' /\ RegistryType'
    BY <1>0, <1>10 DEF Callback, CallerType, FlowType, RegistryType
  <2>. QED
    BY <2>1, <2>3, <2>4, <2>5 DEF TypeOK
<1>11. CASE Send
  <2>1. chan # <<>> /\ chan' = Tail(chan)
    BY <1>11 DEF Send
  <2>2. Head(chan) \in Request /\ Tail(chan) \in Seq(Request)
    BY <1>0, <2>1, TailElements DEF FlowType
  <2>3. toRegistry' \in Seq(Request)
    BY <1>0, <1>11, <2>2, AppendElements DEF Send, FlowType
  <2>4. FlowType'
    BY <1>0, <1>11, <2>1, <2>2, <2>3 DEF Send, FlowType
  <2>5. PcType' /\ CallerType' /\ MapType' /\ HandType' /\ RegistryType'
    BY <1>0, <1>11 DEF Send, PcType, CallerType, MapType, HandType, RegistryType
  <2>. QED
    BY <2>4, <2>5 DEF TypeOK
<1>12. CASE RegistryServes
  <2> DEFINE m == Head(toRegistry)
  <2>1. /\ toRegistry # <<>> /\ toRegistry' = Tail(toRegistry)
        /\ subscribed' = subscribed \/ subscribed' = subscribed \cup {m.service}
        /\ \/ reply' = <<Message("discovered", m.service, Offering(m.service))>>
           \/ reply' = <<Message("subscribed", m.service, {})>>
        /\ UNCHANGED <<pc, load, callers, locks, maps, pool, toPool, registryOpen, directory,
                       came, alive>>
    BY <1>12 DEF RegistryServes
  <2>2. m \in Request /\ Tail(toRegistry) \in Seq(Request)
    BY <1>0, <2>1, TailElements DEF FlowType
  <2>3. m.service \in Services
    BY <2>2 DEF Request
  <2>4. /\ Message("discovered", m.service, Offering(m.service)) \in Notice
        /\ Message("subscribed", m.service, {}) \in Notice
    BY <2>3, MessageTypes
  <2>5. reply' \in {<<>>} \cup {<<e>> : e \in Notice}
    BY <2>1, <2>4
  <2>6. FlowType'
    BY <1>0, <2>1, <2>2, <2>5 DEF FlowType
  <2>7. MapType'
    BY <1>0, <2>1, <2>3 DEF MapType
  <2>8. PcType' /\ CallerType' /\ HandType' /\ RegistryType'
    BY <1>0, <2>1 DEF PcType, CallerType, HandType, RegistryType
  <2>. QED
    BY <2>6, <2>7, <2>8 DEF TypeOK
<1>20. CASE RegistryResponds
  <2>1. reply[1] \in Notice
    BY <1>0, <1>20 DEF RegistryResponds, FlowType
  <2>2. Append(toPool, reply[1]) \in Seq(Notice)
    BY <1>0, <2>1, AppendElements DEF FlowType
  <2>3. FlowType'
    BY <1>0, <1>20, <2>2 DEF RegistryResponds, FlowType
  <2>4. PcType' /\ CallerType' /\ MapType' /\ HandType' /\ RegistryType'
    BY <1>0, <1>20 DEF RegistryResponds, PcType, CallerType, MapType, HandType, RegistryType
  <2>. QED
    BY <2>3, <2>4 DEF TypeOK
<1>13. CASE RegistryEnds
  <2>1. <<>> \in Seq(Request) /\ <<>> \in Seq(Notice)
    OBVIOUS
  <2>2. FlowType'
    BY <1>0, <1>13, <2>1 DEF RegistryEnds, FlowType
  <2>3. RegistryType'
    BY <1>0, <1>13 DEF RegistryEnds, RegistryType
  <2>4. PcType' /\ CallerType' /\ MapType' /\ HandType'
    BY <1>0, <1>13 DEF RegistryEnds, PcType, CallerType, MapType, HandType
  <2>. QED
    BY <2>2, <2>3, <2>4 DEF TypeOK
<1>14. ASSUME NEW f \in {User, Recv}, Close(f) PROVE TypeOK'
  <2>1. /\ pc' = [pc EXCEPT ![f] = "done", ![Recv] = IF @ = "read" THEN "done" ELSE @]
        /\ open' = FALSE /\ chan' = <<>>
        /\ discoverHandle' = [n \in Services |-> None]
        /\ UNCHANGED <<load, callers, locks, conns, cache, subHandle, publication, registry,
                       alive>>
    BY <1>14 DEF Close
  <2>2. PcType'
    BY <1>0, <2>1 DEF PcType
  <2>3. MapType'
    BY <1>0, <2>1 DEF MapType
  <2>4. <<>> \in Seq(Request)
    OBVIOUS
  <2>5. FlowType'
    BY <1>0, <2>1, <2>4 DEF FlowType
  <2>6. CallerType' /\ RegistryType'
    BY <1>0, <2>1 DEF CallerType, RegistryType
  <2>7. HandType'
    BY <1>0, <2>1 DEF HandType, PcType
  <2>. QED
    BY <2>2, <2>3, <2>5, <2>6, <2>7 DEF TypeOK
<1>15. ASSUME NEW e \in Entries, Join(e) PROVE TypeOK'
  <2>1. Message("join", e[1], {e[2]}) \in Notice
    BY MessageTypes
  <2>2. toPool' \in Seq(Notice)
    BY <1>0, <1>15, <2>1, AppendElements DEF Join, Publish, FlowType
  <2>3. FlowType'
    BY <1>0, <1>15, <2>2 DEF Join, FlowType
  <2>4. RegistryType'
    BY <1>0, <1>15 DEF Join, RegistryType
  <2>5. PcType' /\ CallerType' /\ MapType' /\ HandType'
    BY <1>0, <1>15 DEF Join, PcType, CallerType, MapType, HandType
  <2>. QED
    BY <2>3, <2>4, <2>5 DEF TypeOK
<1>16. ASSUME NEW e \in Entries, Quit(e) PROVE TypeOK'
  <2>1. Message("quit", e[1], {e[2]}) \in Notice
    BY MessageTypes
  <2>6. toPool' = toPool \/ toPool' = Append(toPool, Message("quit", e[1], {e[2]}))
    BY <1>16 DEF Quit, Publish
  <2>2. toPool' \in Seq(Notice)
    BY <1>0, <2>1, <2>6, AppendElements DEF FlowType
  <2>3. FlowType'
    BY <1>0, <1>16, <2>2 DEF Quit, FlowType
  <2>4. RegistryType'
    BY <1>0, <1>16 DEF Quit, RegistryType
  <2>5. PcType' /\ CallerType' /\ MapType' /\ HandType'
    BY <1>0, <1>16 DEF Quit, PcType, CallerType, MapType, HandType
  <2>. QED
    BY <2>3, <2>4, <2>5 DEF TypeOK
<1>17. ASSUME NEW a \in alive, ServerEnds(a) PROVE TypeOK'
  BY <1>0, <1>17
  DEF ServerEnds, TypeOK, PcType, CallerType, MapType, FlowType, HandType, RegistryType
<1>18. CASE UNCHANGED vars
  BY <1>0, <1>18
  DEF vars, TypeOK, PcType, CallerType, MapType, FlowType, HandType, RegistryType
<1>. QED
  BY <1>1, <1>2, <1>3, <1>4, <1>5, <1>6, <1>7, <1>8, <1>9, <1>10, <1>11, <1>12, <1>13, <1>14,
     <1>15, <1>16, <1>17, <1>18, <1>19, <1>20 DEF Next, Step, CallStep

-----------------------------------------------------------------------------
(* The callers *)

LEMMA CallInit == TypeOK /\ Init => CallInv
<1> SUFFICES ASSUME TypeOK, Init PROVE CallInv
  OBVIOUS
<1>1. \A c \in Callers : pc[c] \in {"call", "done"}
  BY FibersAssumption DEF Init
<1>2. \A c \in Callers : ~Locked(c) /\ connMutex # c
  BY <1>1, FibersAssumption DEF Init, Locked
<1>3. LockInv /\ NoClient /\ NoCallback /\ NoAddress
  BY <1>1, <1>2 DEF LockInv, NoClient, NoCallback, NoAddress
<1>4. NoAnswer /\ WaitInv
  BY <1>1 DEF Init, NoAnswer, WaitInv
<1>. QED
  BY <1>3, <1>4 DEF CallInv

\* Of two callers one at most is between its look at the cache and its new client,
\* and a service has no one to answer while nobody waits.
LEMMA OneLocked ==
    ASSUME TypeOK, CallInv
    PROVE  /\ \A c, d \in Callers : Locked(c) /\ Locked(d) => c = d
           /\ connMutex = None => \A c \in Callers : ~Locked(c)
           /\ \A c \in Callers : Locked(c) =>
                 \A n \in Services : discoverHandle[n] # None =>
                    discoverHandle[n] = c /\ n = Name(c) /\ pc[c] = "await"
<1>1. \A c, d \in Callers : Locked(c) /\ Locked(d) => c = d
  BY DEF CallInv, LockInv
<1>2. connMutex = None => \A c \in Callers : ~Locked(c)
  BY FibersAssumption DEF CallInv, LockInv
<1>3. ASSUME NEW c \in Callers, Locked(c), NEW n \in Services, discoverHandle[n] # None
      PROVE  discoverHandle[n] = c /\ n = Name(c) /\ pc[c] = "await"
  <2>1. discoverHandle[n] \in Callers
    BY <1>3 DEF TypeOK, MapType
  <2>2. pc[discoverHandle[n]] = "await" /\ Name(discoverHandle[n]) = n
    BY <1>3 DEF CallInv, WaitInv
  <2>3. discoverHandle[n] = c
    BY <1>1, <1>3, <2>1, <2>2 DEF Locked
  <2>. QED
    BY <2>2, <2>3
<1>. QED
  BY <1>1, <1>2, <1>3

\* Nobody begins or ends to wait.
LEMMA WaitKept ==
    ASSUME MapType, WaitInv, load' = load, open' = open, discoverHandle' = discoverHandle,
           \A c \in Callers : pc[c] = "await" <=> pc'[c] = "await"
    PROVE  WaitInv'
<1>1. \A c \in Callers : pc'[c] = "await" /\ open' => discoverHandle'[Name(c)'] = c
  BY DEF WaitInv, Name
<1>2. ASSUME NEW n \in Services, discoverHandle[n] # None
      PROVE  LET c == discoverHandle[n]
             IN  open' /\ pc'[c] = "await" /\ load'.service[c] = n
  <2>1. discoverHandle[n] \in Callers
    BY <1>2 DEF MapType
  <2>2. open /\ pc[discoverHandle[n]] = "await" /\ Name(discoverHandle[n]) = n
    BY <1>2 DEF WaitInv
  <2>. QED
    BY <2>1, <2>2 DEF Name
<1>. QED
  BY <1>1, <1>2 DEF WaitInv, Name

\* Every step keeps what callers rely on.
LEMMA CallNext == TypeOK /\ CallInv /\ [Next]_vars => CallInv'
<1> SUFFICES ASSUME TypeOK, CallInv, [Next]_vars
             PROVE  CallInv'
  OBVIOUS
<1> USE FibersAssumption DEF Goto, callers, locks, maps, pool, registry
<1>0. PcType /\ CallerType /\ MapType /\ FlowType
  BY DEF TypeOK
<1>a. \A c \in Callers : Name(c) \in Services
  BY MessageTypes
<1>b. LockInv /\ NoClient /\ NoCallback /\ NoAddress /\ NoAnswer /\ WaitInv
  BY DEF CallInv
<1>1. ASSUME NEW c \in Callers, Enter(c) PROVE CallInv'
  <2>1. /\ connMutex = None /\ pc[c] = "call"
        /\ \/ /\ pc' = [pc EXCEPT ![c] = "use"] /\ UNCHANGED connMutex
           \/ /\ pc' = [pc EXCEPT ![c] = "look"] /\ connMutex' = c
              /\ conns[Name(c)] = None
        /\ UNCHANGED <<load, answer, conns, cache, subHandle, discoverHandle, open>>
    BY <1>1 DEF Enter
  <2>2. \A d \in Callers : ~Locked(d)
    BY <2>1, OneLocked
  <2>3. LockInv'
    BY <1>0, <2>1, <2>2 DEF LockInv, Locked, PcType
  <2>4. NoClient' /\ NoCallback' /\ NoAddress'
    BY <1>0, <2>1, <2>2 DEF NoClient, NoCallback, NoAddress, Locked, PcType, Name
  <2>5. NoAnswer'
    BY <1>0, <1>b, <2>1 DEF NoAnswer, PcType
  <2>6. \A d \in Callers : pc[d] = "await" <=> pc'[d] = "await"
    BY <1>0, <2>1 DEF PcType
  <2>7. WaitInv'
    BY <1>0, <1>b, <2>1, <2>6, WaitKept
  <2>. QED
    BY <2>3, <2>4, <2>5, <2>7 DEF CallInv
<1>2. ASSUME NEW c \in Callers, Use(c) PROVE CallInv'
  <2>1. /\ \/ pc[c] \in {"use", "use own"} /\ pc' = [pc EXCEPT ![c] = "done"]
           \/ pc[c] = "use" /\ pc' = [pc EXCEPT ![c] = "again"]
        /\ UNCHANGED <<load, answer, connMutex, conns, cache, subHandle, discoverHandle, open>>
    BY <1>2 DEF Use
  <2>2. \A d \in Callers : /\ Locked(d)' <=> Locked(d)
                           /\ pc[d] = "await" <=> pc'[d] = "await"
                           /\ pc[d] = "subscribe" <=> pc'[d] = "subscribe"
    BY <1>0, <2>1 DEF Locked, PcType
  <2>3. LockInv' /\ NoClient' /\ NoCallback' /\ NoAddress'
    BY <1>b, <2>1, <2>2 DEF LockInv, NoClient, NoCallback, NoAddress, Name
  <2>4. NoAnswer'
    BY <1>0, <1>b, <2>1 DEF NoAnswer, PcType
  <2>5. WaitInv'
    BY <1>0, <1>b, <2>1, <2>2, WaitKept
  <2>. QED
    BY <2>3, <2>4, <2>5 DEF CallInv
<1>3. ASSUME NEW c \in Callers, Again(c) PROVE CallInv'
  <2>1. /\ connMutex = None /\ pc[c] = "again"
        /\ pc' = [pc EXCEPT ![c] = "look"] /\ connMutex' = c
        /\ conns' = [conns EXCEPT ![Name(c)] = None]
        /\ UNCHANGED <<load, answer, subHandle, discoverHandle, open>>
    BY <1>3 DEF Again
  <2>2. \A d \in Callers : ~Locked(d)
    BY <2>1, OneLocked
  <2>3. LockInv'
    BY <1>0, <2>1, <2>2 DEF LockInv, Locked, PcType
  <2>4. NoClient'
    BY <1>0, <1>a, <2>1, <2>2 DEF NoClient, Locked, PcType, Name, MapType
  <2>5. NoCallback' /\ NoAddress'
    BY <1>0, <2>1, <2>2 DEF NoCallback, NoAddress, Locked, PcType, Name
  <2>6. NoAnswer'
    BY <1>0, <1>b, <2>1 DEF NoAnswer, PcType
  <2>7. \A d \in Callers : pc[d] = "await" <=> pc'[d] = "await"
    BY <1>0, <2>1 DEF PcType
  <2>8. WaitInv'
    BY <1>0, <1>b, <2>1, <2>7, WaitKept
  <2>. QED
    BY <2>3, <2>4, <2>5, <2>6, <2>8 DEF CallInv
<1>4. ASSUME NEW c \in Callers, Discover(c) PROVE CallInv'
  <2>1. /\ cache[Name(c)] = {} /\ pc[c] = "look"
        /\ UNCHANGED <<load, answer, conns, cache, subHandle, open>>
    BY <1>4 DEF Discover, Return
  <2>2. /\ Locked(c)
        /\ \A d \in Callers \ {c} : ~Locked(d)
        /\ \A n \in Services : discoverHandle[n] = None
    BY <2>1, OneLocked DEF Locked
  <2>3. CASE open
    <3>1. /\ pc' = [pc EXCEPT ![c] = "await"] /\ UNCHANGED connMutex
          /\ discoverHandle' = [discoverHandle EXCEPT ![Name(c)] = c]
      BY <1>4, <1>a, <2>2, <2>3 DEF Discover, Return
    <3>2. LockInv' /\ NoClient'
      BY <1>0, <1>b, <2>1, <2>2, <3>1 DEF LockInv, NoClient, Locked, PcType, Name
    <3>3. NoCallback' /\ NoAddress'
      BY <1>0, <1>b, <2>1, <2>2, <3>1 DEF NoCallback, NoAddress, Locked, PcType, Name
    <3>4. NoAnswer'
      BY <1>0, <1>b, <2>1, <3>1 DEF NoAnswer, PcType
    <3>5. WaitInv'
      BY <1>0, <1>a, <2>1, <2>2, <2>3, <3>1 DEF WaitInv, Locked, PcType, Name, MapType
    <3>. QED
      BY <3>2, <3>3, <3>4, <3>5 DEF CallInv
  <2>4. CASE ~open
    <3>1. pc' = [pc EXCEPT ![c] = "done"] /\ connMutex' = None /\ UNCHANGED discoverHandle
      BY <1>4, <2>4 DEF Discover, Return
    <3>2. LockInv' /\ NoClient' /\ NoCallback' /\ NoAddress'
      BY <1>0, <2>2, <3>1 DEF LockInv, NoClient, NoCallback, NoAddress, Locked, PcType
    <3>3. NoAnswer' /\ WaitInv'
      BY <1>0, <1>b, <2>1, <2>2, <2>4, <3>1 DEF NoAnswer, WaitInv, PcType
    <3>. QED
      BY <3>2, <3>3 DEF CallInv
  <2>. QED
    BY <2>3, <2>4
<1>5. ASSUME NEW c \in Callers, Answered(c) PROVE CallInv'
  <2>1. /\ pc[c] = "await"
        /\ discoverHandle' = [discoverHandle EXCEPT ![Name(c)] = None]
        /\ \/ pc' = [pc EXCEPT ![c] = "done"] /\ connMutex' = None
           \/ /\ UNCHANGED connMutex
              /\ \/ pc' = [pc EXCEPT ![c] = "select"]
                 \/ pc' = [pc EXCEPT ![c] = "subscribe"] /\ Name(c) \notin subHandle
        /\ UNCHANGED <<load, answer, conns, subHandle, open>>
    BY <1>5 DEF Answered, Return
  <2>2. /\ Locked(c)
        /\ \A d \in Callers \ {c} : ~Locked(d)
        /\ \A n \in Services \ {Name(c)} : discoverHandle[n] = None
    BY <2>1, OneLocked DEF Locked
  <2>3. LockInv'
    BY <1>0, <1>b, <2>1, <2>2 DEF LockInv, Locked, PcType
  <2>4. NoClient' /\ NoCallback' /\ NoAddress'
    BY <1>0, <1>b, <2>1, <2>2 DEF NoClient, NoCallback, NoAddress, Locked, PcType, Name
  <2>5. NoAnswer'
    BY <1>0, <1>b, <2>1 DEF NoAnswer, PcType
  <2>6. WaitInv'
    BY <1>0, <1>a, <2>1, <2>2 DEF WaitInv, Locked, PcType, MapType
  <2>. QED
    BY <2>3, <2>4, <2>5, <2>6 DEF CallInv
<1>6. ASSUME NEW c \in Callers, Subscribe(c) PROVE CallInv'
  <2>1. /\ pc[c] = "subscribe" /\ pc' = [pc EXCEPT ![c] = "select"]
        /\ UNCHANGED <<load, answer, connMutex, conns, cache, discoverHandle, open>>
    BY <1>6 DEF Subscribe
  <2>2. Locked(c) /\ \A d \in Callers \ {c} : ~Locked(d)
    BY <2>1, OneLocked DEF Locked
  <2>3. LockInv' /\ NoClient'
    BY <1>0, <1>b, <2>1, <2>2 DEF LockInv, NoClient, Locked, PcType, Name
  <2>4. NoCallback' /\ NoAddress'
    BY <1>0, <2>1, <2>2 DEF NoCallback, NoAddress, Locked, PcType
  <2>5. NoAnswer' /\ WaitInv'
    <3>1. \A d \in Callers : pc[d] = "await" <=> pc'[d] = "await"
      BY <1>0, <2>1 DEF PcType
    <3>2. WaitInv'
      BY <1>0, <1>b, <2>1, <3>1, WaitKept
    <3>. QED
      BY <1>0, <1>b, <2>1, <3>2 DEF NoAnswer, PcType
  <2>. QED
    BY <2>3, <2>4, <2>5 DEF CallInv
<1>7. ASSUME NEW c \in Callers, Select(c) PROVE CallInv'
  <2>1. /\ pc[c] \in {"look", "select"}
        /\ pc' = [pc EXCEPT ![c] = "use own"] \/ pc' = [pc EXCEPT ![c] = "done"]
        /\ connMutex' = None
        /\ UNCHANGED <<load, answer, cache, subHandle, discoverHandle, open>>
    BY <1>7 DEF Select, Return
  <2>2. Locked(c) /\ \A d \in Callers \ {c} : ~Locked(d)
    BY <2>1, OneLocked DEF Locked
  <2>3. \A d \in Callers : ~Locked(d)'
    BY <1>0, <2>1, <2>2 DEF Locked, PcType
  <2>4. LockInv' /\ NoClient' /\ NoCallback' /\ NoAddress'
    BY <2>1, <2>3 DEF LockInv, NoClient, NoCallback, NoAddress, Locked
  <2>5. NoAnswer' /\ WaitInv'
    <3>1. \A d \in Callers : pc[d] = "await" <=> pc'[d] = "await"
      BY <1>0, <2>1 DEF PcType
    <3>2. WaitInv'
      BY <1>0, <1>b, <2>1, <3>1, WaitKept
    <3>. QED
      BY <1>0, <1>b, <2>1, <3>2 DEF NoAnswer, PcType
  <2>. QED
    BY <2>4, <2>5 DEF CallInv
<1>13. ASSUME NEW c \in Callers, Dangle(c) PROVE CallInv'
  <2>1. /\ pc' = [pc EXCEPT ![c] = "wild"]
        /\ UNCHANGED <<load, answer, connMutex, conns, cache, subHandle, discoverHandle, open>>
        /\ pc[c] # "await" \/ discoverHandle[Name(c)] # c
    BY <1>13 DEF Dangle
  <2>2. \A d \in Callers : /\ Locked(d)' => Locked(d)
                           /\ pc'[d] \in {"await", "subscribe"} => pc'[d] = pc[d]
    BY <1>0, <2>1 DEF Locked, PcType
  <2>3. LockInv' /\ NoClient' /\ NoCallback' /\ NoAddress'
    BY <1>b, <2>1, <2>2 DEF LockInv, NoClient, NoCallback, NoAddress, Name
  <2>4. NoAnswer'
    BY <1>0, <1>b, <2>1 DEF NoAnswer, PcType
  <2>5. \A d \in Callers : pc'[d] = "await" /\ open' => discoverHandle'[Name(d)'] = d
    BY <1>b, <2>1, <2>2 DEF WaitInv, Name
  <2>6. ASSUME NEW n \in Services, NEW d \in Callers, discoverHandle[n] = d
        PROVE  open' /\ pc'[d] = "await" /\ Name(d)' = n
    <3>1. open /\ pc[d] = "await" /\ Name(d) = n
      BY <1>b, <2>6, FibersAssumption DEF WaitInv
    <3>2. d # c
      BY <2>1, <2>6, <3>1
    <3>. QED
      BY <1>0, <2>1, <3>1, <3>2 DEF PcType, Name
  <2>7. WaitInv'
    BY <1>0, <2>1, <2>5, <2>6 DEF WaitInv, MapType, Name
  <2>. QED
    BY <2>3, <2>4, <2>7 DEF CallInv
<1>8. CASE RecvMessage
  <2> DEFINE m == Head(toPool)
             w == discoverHandle[m.service]
  <2>1. /\ \/ UNCHANGED answer
           \/ w # None /\ answer' = [answer EXCEPT ![w] = <<m.addresses>>]
        /\ toPool # <<>>
    BY <1>8 DEF RecvMessage
  <2>2. /\ UNCHANGED pc \/ pc' = [pc EXCEPT ![Recv] = "callback"]
        /\ UNCHANGED <<load, connMutex, conns, cache, subHandle, discoverHandle, open>>
    BY <1>8 DEF RecvMessage
  <2>3. m.service \in Services
    <3>1. m \in Notice
      BY <1>0, <2>1, TailElements DEF FlowType
    <3>. QED
      BY <3>1 DEF Notice
  <2>4. w # None => w \in Callers /\ pc[w] = "await"
    BY <1>0, <1>b, <2>3 DEF MapType, WaitInv
  <2>5. \A c \in Callers : pc'[c] = pc[c]
    BY <1>0, <2>2 DEF PcType
  <2>6. NoAnswer'
    BY <1>0, <1>b, <2>1, <2>4, <2>5 DEF NoAnswer, CallerType
  <2>7. LockInv' /\ NoClient' /\ NoCallback' /\ NoAddress'
    BY <1>b, <2>2, <2>5 DEF LockInv, NoClient, NoCallback, NoAddress, Locked, Name
  <2>8. WaitInv'
    BY <1>0, <1>b, <2>2, <2>5 DEF WaitInv, Name, MapType
  <2>. QED
    BY <2>6, <2>7, <2>8 DEF CallInv
<1>9. CASE Callback
  <2>1. /\ connMutex = None
        /\ pc' = [pc EXCEPT ![Recv] = "read"]
        /\ UNCHANGED <<load, answer, connMutex, conns, subHandle, discoverHandle, open>>
    BY <1>9 DEF Callback
  <2>2. \A c \in Callers : pc'[c] = pc[c] /\ ~Locked(c)
    BY <1>0, <2>1, OneLocked DEF PcType
  <2>3. LockInv' /\ NoClient' /\ NoCallback' /\ NoAddress' /\ NoAnswer'
    BY <1>b, <2>1, <2>2 DEF LockInv, NoClient, NoCallback, NoAddress, NoAnswer, Locked, Name
  <2>4. WaitInv'
    BY <1>0, <1>b, <2>1, <2>2 DEF WaitInv, Name, MapType
  <2>. QED
    BY <2>3, <2>4 DEF CallInv
<1>10. ASSUME NEW f \in {User, Recv}, Close(f) PROVE CallInv'
  <2>1. /\ pc' = [pc EXCEPT ![f] = "done", ![Recv] = IF @ = "read" THEN "done" ELSE @]
        /\ open' = FALSE
        /\ discoverHandle' = [n \in Services |-> None]
        /\ UNCHANGED <<load, answer, connMutex, conns, cache, subHandle>>
    BY <1>10 DEF Close
  <2>2. \A c \in Callers : pc'[c] = pc[c]
    BY <1>0, <2>1 DEF PcType
  <2>3. LockInv' /\ NoClient' /\ NoCallback' /\ NoAddress' /\ NoAnswer'
    BY <1>b, <2>1, <2>2 DEF LockInv, NoClient, NoCallback, NoAddress, NoAnswer, Locked, Name
  <2>4. WaitInv'
    BY <2>1 DEF WaitInv
  <2>. QED
    BY <2>3, <2>4 DEF CallInv
<1>11. CASE UNCHANGED <<pc, load, answer, connMutex, conns, cache, subHandle, discoverHandle,
                        open>>
  <2>1. LockInv' /\ NoClient' /\ NoCallback' /\ NoAddress' /\ NoAnswer'
    BY <1>b, <1>11 DEF LockInv, NoClient, NoCallback, NoAddress, NoAnswer, Locked, Name
  <2>2. WaitInv'
    BY <1>b, <1>11 DEF WaitInv, Name
  <2>. QED
    BY <2>1, <2>2 DEF CallInv
<1>12. \/ \E c \in Callers : CallStep(c) \/ Dangle(c)
       \/ RecvMessage \/ Callback \/ \E f \in {User, Recv} : Close(f)
       \/ UNCHANGED <<pc, load, answer, connMutex, conns, cache, subHandle, discoverHandle,
                      open>>
  BY DEF Next, Step, vars, ClientCloses, Send, RegistryServes, RegistryResponds, RegistryEnds,
         Join, Quit, ServerEnds
<1>. QED
  BY <1>1, <1>2, <1>3, <1>4, <1>5, <1>6, <1>7, <1>8, <1>9, <1>10, <1>11, <1>12, <1>13
  DEF CallStep

-----------------------------------------------------------------------------
(* The messages *)

LEMMA KindAppend ==
    ASSUME NEW S, NEW q \in Seq(S), NEW e, e \in S, NEW type
    PROVE  /\ Kind(Append(q, e), type) =
                 Kind(q, type) \cup (IF e.type = type THEN {Len(q) + 1} ELSE {})
           /\ Append(q, e)[Len(q) + 1] = e
BY DEF Kind

LEMMA KindAppendOther ==
    ASSUME NEW S, NEW q \in Seq(S), NEW e \in S, NEW type, e.type # type
    PROVE  Kind(Append(q, e), type) = Kind(q, type)
BY DEF Kind

LEMMA KindKept ==
    ASSUME NEW S, NEW q \in Seq(S), NEW e \in S, NEW type, NEW i \in Kind(q, type)
    PROVE  Append(q, e)[i] = q[i]
BY DEF Kind

LEMMA KindTail ==
    ASSUME NEW S, NEW q \in Seq(S), q # <<>>, NEW type
    PROVE  /\ \A i \in Kind(Tail(q), type) : /\ i \in Nat \ {0}
                                             /\ i + 1 \in Kind(q, type)
                                             /\ Tail(q)[i] = q[i + 1]
           /\ Head(q).type = type => 1 \in Kind(q, type)
BY DEF Kind

LEMMA KindOne ==
    ASSUME NEW e, NEW type
    PROVE  /\ Kind(<<e>>, type) = IF e.type = type THEN {1} ELSE {}
           /\ Kind(<<>>, type) = {}
BY DEF Kind

\* Nothing is under way when nobody waits.
LEMMA Quiet ==
    ASSUME AskInv, open, \A c \in Callers : pc[c] = "await" => answer[c] # <<>>
    PROVE  /\ Kind(chan, "discover") = {} /\ Kind(toRegistry, "discover") = {}
           /\ Kind(reply, "discovered") = {} /\ Kind(toPool, "discovered") = {}
BY DEF AskInv, Waited

LEMMA AskInit == Init => AskInv
BY DEF Init, AskInv, Kind

\* Every step keeps discoveries one by one.
LEMMA AskNext == TypeOK /\ CallInv /\ AskInv /\ [Next]_vars => AskInv'
<1> SUFFICES ASSUME TypeOK, CallInv, AskInv, [Next]_vars, open'
             PROVE  AskInv'
  BY DEF AskInv
<1> USE FibersAssumption DEF Goto, callers, locks, maps, pool, registry
<1>0. PcType /\ CallerType /\ MapType /\ FlowType
  BY DEF TypeOK
<1>a. \A c \in Callers : Name(c) \in Services
  BY MessageTypes
<1>b. chan \in Seq(Request) /\ toRegistry \in Seq(Request) /\ toPool \in Seq(Notice)
  BY <1>0 DEF FlowType
<1>f. reply = <<>> \/ \E m \in Notice : reply = <<m>>
  BY <1>0 DEF FlowType
\* A caller that comes to its answer, or has not asked: nobody waits.
<1>c. ASSUME NEW c \in Callers, Locked(c), pc[c] = "await" => answer[c] # <<>>, open
      PROVE  /\ Kind(chan, "discover") = {} /\ Kind(toRegistry, "discover") = {}
             /\ Kind(reply, "discovered") = {} /\ Kind(toPool, "discovered") = {}
  <2>1. \A d \in Callers : pc[d] = "await" => d = c
    BY <1>c, OneLocked DEF Locked
  <2>. QED
    BY <1>c, <2>1, Quiet
\* A step that leaves the discoveries and those who wait alone.
<1>d. ASSUME UNCHANGED <<load, open, answer>>,
             \A c \in Callers : pc[c] = "await" <=> pc'[c] = "await"
      PROVE  Waited \subseteq Waited'
  BY <1>d DEF Waited, Name
<1>e. ASSUME UNCHANGED <<load, open, answer, chan, toRegistry, reply, toPool>>,
             \A c \in Callers : pc[c] = "await" <=> pc'[c] = "await"
      PROVE  AskInv'
  BY <1>e DEF AskInv, Waited, Name, Kind
<1>1. ASSUME NEW c \in Callers,
             Enter(c) \/ Use(c) \/ Again(c) \/ Select(c) \/ ClientCloses(c)
      PROVE  AskInv'
  <2>1. UNCHANGED <<load, open, answer, chan, toRegistry, reply, toPool>>
    BY <1>1 DEF Enter, Use, Again, Select, ClientCloses
  <2>2. \A d \in Callers : pc[d] = "await" <=> pc'[d] = "await"
    BY <1>0, <1>1 DEF Enter, Use, Again, Select, ClientCloses, Return, PcType
  <2>. QED
    BY <1>e, <2>1, <2>2
<1>2. ASSUME NEW c \in Callers, Discover(c) PROVE AskInv'
  <2>1. /\ open /\ pc[c] = "look" /\ pc' = [pc EXCEPT ![c] = "await"]
        /\ chan' = Append(chan, Message("discover", Name(c), {}))
        /\ UNCHANGED <<load, answer, toRegistry, reply, toPool>>
    BY <1>2 DEF Discover, Return
  <2>2. /\ Kind(chan, "discover") = {} /\ Kind(toRegistry, "discover") = {}
        /\ Kind(reply, "discovered") = {} /\ Kind(toPool, "discovered") = {}
    BY <1>c, <2>1 DEF Locked
  <2>3. answer'[c] = <<>> /\ pc'[c] = "await"
    BY <1>0, <2>1 DEF PcType, CallInv, NoAnswer
  <2>4. Message("discover", Name(c), {}) \in Request
    BY <1>a, MessageTypes
  <2>5. /\ Kind(chan', "discover") \subseteq {Len(chan) + 1}
        /\ chan'[Len(chan) + 1].service = Name(c)
    BY <1>b, <2>1, <2>2, <2>4, KindAppend DEF Message
  <2>6. Name(c) \in Waited'
    BY <2>1, <2>3 DEF Waited, Name
  <2>7. \A i \in Kind(chan', "discover") : chan'[i].service \in Waited'
    BY <2>1, <2>5, <2>6 DEF Name
  <2>. QED
    BY <2>1, <2>2, <2>5, <2>7 DEF AskInv
<1>3. ASSUME NEW c \in Callers, Answered(c) PROVE AskInv'
  <2>1. /\ open /\ pc[c] = "await" /\ answer[c] # <<>>
        /\ UNCHANGED <<chan, toRegistry, reply, toPool>>
    BY <1>3 DEF Answered
  <2>2. /\ Kind(chan, "discover") = {} /\ Kind(toRegistry, "discover") = {}
        /\ Kind(reply, "discovered") = {} /\ Kind(toPool, "discovered") = {}
    BY <1>c, <2>1 DEF Locked
  <2>. QED
    BY <2>1, <2>2 DEF AskInv
<1>4. ASSUME NEW c \in Callers, Subscribe(c) PROVE AskInv'
  <2>1. /\ open /\ pc[c] = "subscribe"
        /\ chan' = Append(chan, Message("subscribe", Name(c), {}))
        /\ UNCHANGED <<toRegistry, reply, toPool>>
    BY <1>4 DEF Subscribe
  <2>2. /\ Kind(chan, "discover") = {} /\ Kind(toRegistry, "discover") = {}
        /\ Kind(reply, "discovered") = {} /\ Kind(toPool, "discovered") = {}
    BY <1>c, <2>1 DEF Locked
  <2>3. Message("subscribe", Name(c), {}) \in Request
    BY <1>a, MessageTypes
  <2>4. Kind(chan', "discover") = {}
    BY <1>b, <2>1, <2>2, <2>3, KindAppend DEF Message
  <2>. QED
    BY <2>1, <2>2, <2>4 DEF AskInv
<1>5. CASE RecvMessage
  <2> DEFINE m == Head(toPool)
             w == discoverHandle[m.service]
  <2>1. /\ open /\ toPool # <<>> /\ toPool' = Tail(toPool)
        /\ UNCHANGED <<load, open, chan, toRegistry, reply>>
    BY <1>5 DEF RecvMessage
  <2>2. \A c \in Callers : pc'[c] = pc[c]
    BY <1>0, <1>5 DEF RecvMessage, PcType
  <2>3. \A i \in Kind(toPool', "discovered") : /\ i \in Nat \ {0}
                                               /\ i + 1 \in Kind(toPool, "discovered")
                                               /\ toPool'[i] = toPool[i + 1]
    BY <1>b, <2>1, KindTail
  <2>4. CASE m.type = "discovered"
    <3>1. 1 \in Kind(toPool, "discovered")
      BY <1>b, <2>1, <2>4, KindTail
    <3>2. Kind(toPool', "discovered") = {}
      BY <2>1, <2>3, <3>1 DEF AskInv
    <3>3. /\ Kind(chan, "discover") = {} /\ Kind(toRegistry, "discover") = {}
          /\ Kind(reply, "discovered") = {}
      BY <2>1, <3>1 DEF AskInv
    <3>. QED
      BY <2>1, <3>2, <3>3 DEF AskInv
  <2>5. CASE m.type # "discovered"
    <3>1. UNCHANGED answer
      BY <1>5, <2>5 DEF RecvMessage
    <3>2. Waited \subseteq Waited'
      BY <2>1, <2>2, <3>1 DEF Waited, Name
    <3>3. \A i \in Kind(toPool', "discovered") : toPool'[i].service \in Waited'
      BY <2>1, <2>3, <3>2 DEF AskInv
    <3>4. \A i, j \in Kind(toPool', "discovered") : i = j
      BY <2>1, <2>3 DEF AskInv
    <3>5. Kind(toPool', "discovered") = {} \/ Kind(toPool, "discovered") # {}
      BY <2>3
    <3>. QED
      BY <2>1, <3>2, <3>3, <3>4, <3>5 DEF AskInv
  <2>. QED
    BY <2>4, <2>5
<1>6. CASE Callback
  <2>1. UNCHANGED <<load, open, answer, chan, toRegistry, reply, toPool>>
    BY <1>6 DEF Callback
  <2>2. \A d \in Callers : pc[d] = "await" <=> pc'[d] = "await"
    BY <1>0, <1>6 DEF Callback, PcType
  <2>. QED
    BY <1>e, <2>1, <2>2
<1>7. CASE Send
  <2>0. PICK m \in Request : m = Head(chan) /\ m = chan[1]
    BY <1>7, <1>b, TailElements DEF Send
  <2>1. /\ open /\ chan # <<>> /\ chan' = Tail(chan)
        /\ toRegistry' = toRegistry \/ toRegistry' = Append(toRegistry, m)
        /\ UNCHANGED <<pc, load, answer, reply, toPool, open>>
    BY <1>7, <2>0 DEF Send
  <2>2. \A i \in Kind(chan', "discover") : /\ i \in Nat \ {0}
                                           /\ i + 1 \in Kind(chan, "discover")
                                           /\ chan'[i] = chan[i + 1]
    BY <1>b, <2>1, KindTail
  <2>4. Waited \subseteq Waited'
    BY <2>1 DEF Waited, Name
  <2>5. CASE m.type = "discover"
    <3>1. 1 \in Kind(chan, "discover")
      BY <1>b, <2>0, <2>1, <2>5, KindTail
    <3>2. Kind(chan', "discover") = {}
      BY <2>1, <2>2, <3>1 DEF AskInv
    <3>3. /\ Kind(toRegistry, "discover") = {} /\ Kind(reply, "discovered") = {}
          /\ Kind(toPool, "discovered") = {}
      BY <2>1, <3>1 DEF AskInv
    <3>4. m.service \in Waited'
      BY <2>1, <2>0, <2>4, <3>1 DEF AskInv
    <3>5. /\ Kind(toRegistry', "discover") \subseteq {Len(toRegistry) + 1}
          /\ \A i \in Kind(toRegistry', "discover") : toRegistry'[i] = m
      <4>1. CASE toRegistry' = toRegistry
        BY <3>3, <4>1
      <4>2. CASE toRegistry' = Append(toRegistry, m)
        BY <1>b, <2>0, <3>3, <4>2, KindAppend
      <4>. QED
        BY <2>1, <4>1, <4>2
    <3>. QED
      BY <2>1, <3>2, <3>3, <3>4, <3>5 DEF AskInv
  <2>6. CASE m.type # "discover"
    <3>1. /\ Kind(toRegistry', "discover") = Kind(toRegistry, "discover")
          /\ \A i \in Kind(toRegistry, "discover") : toRegistry'[i] = toRegistry[i]
      <4>1. CASE toRegistry' = toRegistry
        BY <4>1
      <4>2. CASE toRegistry' = Append(toRegistry, m)
        <5>1. Kind(toRegistry', "discover") = Kind(toRegistry, "discover")
          BY <1>b, <2>0, <2>6, <4>2, KindAppendOther
        <5>2. \A i \in Kind(toRegistry, "discover") : toRegistry'[i] = toRegistry[i]
          <6>1. m \in Request
            BY <2>0
          <6>2. \A i \in Kind(toRegistry, "discover") :
                   Append(toRegistry, m)[i] = toRegistry[i]
            BY <1>b, <6>1, KindKept
          <6>. QED
            BY <4>2, <6>2
        <5>. QED
          BY <5>1, <5>2
      <4>. QED
        BY <2>1, <4>1, <4>2
    <3>2. \A i \in Kind(chan', "discover") : chan'[i].service \in Waited'
      BY <2>1, <2>2, <2>4 DEF AskInv
    <3>3. \A i, j \in Kind(chan', "discover") : i = j
      BY <2>1, <2>2 DEF AskInv
    <3>4. Kind(chan', "discover") = {} \/ Kind(chan, "discover") # {}
      BY <2>2
    <3>5. /\ \A i \in Kind(toRegistry', "discover") : toRegistry'[i].service \in Waited'
          /\ \A i \in Kind(reply', "discovered") : reply'[i].service \in Waited'
          /\ \A i \in Kind(toPool', "discovered") : toPool'[i].service \in Waited'
      BY <2>1, <2>4, <3>1 DEF AskInv
    <3>. QED
      BY <2>1, <3>1, <3>2, <3>3, <3>4, <3>5 DEF AskInv
  <2>. QED
    BY <2>5, <2>6
<1>8. CASE RegistryServes
  <2>0. PICK m \in Request : m = Head(toRegistry) /\ m = toRegistry[1]
    BY <1>8, <1>b, TailElements DEF RegistryServes
  <2>1. /\ open /\ toRegistry # <<>> /\ toRegistry' = Tail(toRegistry)
        /\ UNCHANGED <<pc, load, answer, chan, toPool, open>>
    BY <1>8 DEF RegistryServes
  <2>2. \A i \in Kind(toRegistry', "discover") : /\ i \in Nat \ {0}
                                                 /\ i + 1 \in Kind(toRegistry, "discover")
                                                 /\ toRegistry'[i] = toRegistry[i + 1]
    BY <1>b, <2>1, KindTail
  <2>4. Waited \subseteq Waited'
    BY <2>1 DEF Waited, Name
  <2>5. m.service \in Services
    BY DEF Request
  <2>6. CASE m.type = "discover"
    <3> DEFINE e == Message("discovered", m.service, Offering(m.service))
    <3>1. 1 \in Kind(toRegistry, "discover")
      BY <1>b, <2>0, <2>1, <2>6, KindTail
    <3>2. Kind(toRegistry', "discover") = {}
      BY <2>1, <2>2, <3>1 DEF AskInv
    <3>3. Kind(chan, "discover") = {} /\ Kind(toPool, "discovered") = {}
      BY <2>1, <3>1 DEF AskInv
    <3>4. m.service \in Waited'
      BY <2>1, <2>0, <2>4, <3>1 DEF AskInv
    <3>5. reply' = <<e>>
      BY <1>8, <2>0, <2>6 DEF RegistryServes
    <3>6. \A i \in Kind(reply', "discovered") : reply'[i] = e
      BY <3>5 DEF Kind
    <3>7. e.service = m.service
      BY DEF Message
    <3>8. \A i \in Kind(reply', "discovered") : reply'[i].service \in Waited'
      BY <3>4, <3>6, <3>7
    <3>. QED
      BY <2>1, <3>2, <3>3, <3>8 DEF AskInv
  <2>7. CASE m.type = "subscribe"
    <3>1. Kind(reply', "discovered") = {}
      BY <1>8, <2>0, <2>7, KindOne DEF RegistryServes, Message
    <3>3. \A i \in Kind(toRegistry', "discover") : toRegistry'[i].service \in Waited'
      BY <2>1, <2>2, <2>4 DEF AskInv
    <3>4. \A i, j \in Kind(toRegistry', "discover") : i = j
      BY <2>1, <2>2 DEF AskInv
    <3>5. Kind(toRegistry', "discover") = {} \/ Kind(toRegistry, "discover") # {}
      BY <2>2
    <3>6. /\ \A i \in Kind(chan', "discover") : chan'[i].service \in Waited'
          /\ \A i \in Kind(toPool', "discovered") : toPool'[i].service \in Waited'
      BY <2>1, <2>4 DEF AskInv
    <3>. QED
      BY <2>1, <3>1, <3>3, <3>4, <3>5, <3>6 DEF AskInv
  <2>. QED
    BY <2>6, <2>7 DEF Request
<1>14. CASE RegistryResponds
  <2>0. PICK m \in Notice : reply = <<m>>
    BY <1>14, <1>f DEF RegistryResponds
  <2>1. /\ open /\ toPool' = Append(toPool, m) /\ reply' = <<>>
        /\ UNCHANGED <<pc, load, answer, chan, toRegistry, open>>
    BY <1>14, <2>0 DEF RegistryResponds
  <2>2. Waited \subseteq Waited' /\ Kind(reply', "discovered") = {}
    BY <2>1, KindOne DEF Waited, Name
  <2>3. \A i \in Kind(chan', "discover") : chan'[i].service \in Waited'
    BY <2>1, <2>2 DEF AskInv
  <2>4. \A i \in Kind(toRegistry', "discover") : toRegistry'[i].service \in Waited'
    BY <2>1, <2>2 DEF AskInv
  <2>5. CASE m.type = "discovered"
    <3>1. 1 \in Kind(reply, "discovered") /\ reply[1] = m
      BY <2>0, <2>5 DEF Kind
    <3>2. /\ Kind(chan, "discover") = {} /\ Kind(toRegistry, "discover") = {}
          /\ Kind(toPool, "discovered") = {} /\ m.service \in Waited'
      BY <2>1, <2>2, <3>1 DEF AskInv
    <3>3. /\ Kind(toPool', "discovered") \subseteq {Len(toPool) + 1}
          /\ \A i \in Kind(toPool', "discovered") : toPool'[i] = m
      BY <1>b, <2>1, <3>2, KindAppend
    <3>. QED
      BY <2>1, <2>2, <3>2, <3>3 DEF AskInv
  <2>6. CASE m.type # "discovered"
    <3>1. Kind(toPool', "discovered") = Kind(toPool, "discovered")
      BY <1>b, <2>1, <2>6, KindAppendOther
    <3>2. \A i \in Kind(toPool, "discovered") : toPool'[i] = toPool[i]
      BY <1>b, <2>1, KindKept
    <3>3. \A i \in Kind(toPool', "discovered") : toPool'[i].service \in Waited'
      BY <2>1, <2>2, <3>1, <3>2 DEF AskInv
    <3>. QED
      BY <2>1, <2>2, <2>3, <2>4, <3>1, <3>3 DEF AskInv
  <2>. QED
    BY <2>5, <2>6
<1>9. CASE RegistryEnds
  <2>1. UNCHANGED <<pc, load, answer, chan, open>>
    BY <1>9 DEF RegistryEnds
  <2>2. Kind(toRegistry', "discover") = {} /\ Kind(reply', "discovered") = {}
    BY <1>9 DEF RegistryEnds, Kind
  <2>3. toPool' = toPool \/ Kind(toPool', "discovered") = {}
    BY <1>9 DEF RegistryEnds, Kind
  <2>4. Waited \subseteq Waited'
    BY <2>1 DEF Waited, Name
  <2>. QED
    BY <2>1, <2>2, <2>3, <2>4 DEF AskInv
<1>10. ASSUME NEW e \in Entries, Join(e) \/ Quit(e) PROVE AskInv'
  <2>1. UNCHANGED <<pc, load, answer, chan, toRegistry, reply, open>>
    BY <1>10 DEF Join, Quit
  <2>2. /\ Kind(toPool', "discovered") = Kind(toPool, "discovered")
        /\ \A i \in Kind(toPool, "discovered") : toPool'[i] = toPool[i]
    <3>1. CASE toPool' = toPool
      BY <3>1
    <3>2. ASSUME NEW t \in {"join", "quit"}, toPool' = Append(toPool, Message(t, e[1], {e[2]}))
          PROVE  /\ Kind(toPool', "discovered") = Kind(toPool, "discovered")
                 /\ \A i \in Kind(toPool, "discovered") : toPool'[i] = toPool[i]
      <4>1. PICK m \in Notice : m.type # "discovered" /\ toPool' = Append(toPool, m)
        BY <3>2, MessageTypes DEF Message
      <4>2. Kind(toPool', "discovered") = Kind(toPool, "discovered")
        BY <1>b, <4>1, KindAppendOther
      <4>3. \A i \in Kind(toPool, "discovered") : toPool'[i] = toPool[i]
        BY <1>b, <4>1, KindKept
      <4>. QED
        BY <4>2, <4>3
    <3>. QED
      BY <1>10, <3>1, <3>2 DEF Join, Quit, Publish
  <2>3. Waited \subseteq Waited'
    BY <2>1 DEF Waited, Name
  <2>. QED
    BY <2>1, <2>2, <2>3 DEF AskInv
<1>13. ASSUME NEW c \in Callers, Dangle(c) PROVE AskInv'
  <2>1. /\ pc' = [pc EXCEPT ![c] = "wild"]
        /\ pc[c] = "await" => answer[c] # <<>>
        /\ UNCHANGED <<load, open, answer, chan, toRegistry, reply, toPool>>
    BY <1>13 DEF Dangle
  <2>3. ASSUME NEW d \in Callers, pc[d] = "await", answer[d] = <<>> PROVE pc'[d] = "await"
    <3>1. d # c
      BY <2>1, <2>3
    <3>. QED
      BY <1>0, <2>1, <2>3, <3>1 DEF PcType
  <2>2. Waited \subseteq Waited'
    BY <2>1, <2>3 DEF Waited, Name
  <2>. QED
    BY <2>1, <2>2 DEF AskInv, Kind
<1>11. CASE UNCHANGED <<pc, load, open, answer, chan, toRegistry, reply, toPool>>
  BY <1>e, <1>11
<1>12. \/ \E c \in Callers : CallStep(c) \/ Dangle(c) \/ ClientCloses(c)
       \/ RecvMessage \/ Callback \/ Send
       \/ RegistryServes \/ RegistryResponds \/ RegistryEnds
       \/ \E e \in Entries : Join(e) \/ Quit(e)
       \/ UNCHANGED <<pc, load, open, answer, chan, toRegistry, reply, toPool>>
  BY DEF Next, Step, vars, ServerEnds, Close
<1>. QED
  BY <1>1, <1>2, <1>3, <1>4, <1>5, <1>6, <1>7, <1>8, <1>9, <1>10, <1>11, <1>12, <1>13, <1>14
  DEF CallStep

-----------------------------------------------------------------------------
(* The subscriptions *)

LEMMA AboutAppend ==
    ASSUME NEW X, NEW q \in Seq(X), NEW e \in X, NEW types, NEW S,
           About(q, types, S), e.type \in types => e.service \in S
    PROVE  About(Append(q, e), types, S)
<1>1. \A i \in 1..Len(q) + 1 : i \in 1..Len(q) \/ i = Len(q) + 1
  OBVIOUS
<1>. QED
  BY <1>1, AppendElements DEF About

LEMMA AboutTail ==
    ASSUME NEW X, NEW q \in Seq(X), q # <<>>, NEW types, NEW S, About(q, types, S)
    PROVE  /\ About(Tail(q), types, S)
           /\ Head(q).type \in types => Head(q).service \in S
BY DEF About

LEMMA AboutMore ==
    ASSUME NEW q, NEW types, NEW S, NEW T, About(q, types, S), S \subseteq T
    PROVE  About(q, types, T)
BY DEF About

LEMMA SubscribeInit == Init => SubscribeInv
BY FibersAssumption DEF Init, SubscribeInv, About

\* Every step keeps the subscriptions and their callbacks together.
LEMMA SubscribeNext == TypeOK /\ SubscribeInv /\ [Next]_vars => SubscribeInv'
<1> SUFFICES ASSUME TypeOK, SubscribeInv, [Next]_vars
             PROVE  SubscribeInv'
  OBVIOUS
<1> USE FibersAssumption DEF Goto, callers, locks, maps, pool, registry
<1>0. PcType /\ CallerType /\ MapType /\ FlowType
  BY DEF TypeOK
<1>a. \A c \in Callers : Name(c) \in Services
  BY MessageTypes
<1>b. chan \in Seq(Request) /\ toRegistry \in Seq(Request) /\ toPool \in Seq(Notice)
  BY <1>0 DEF FlowType
<1>f. reply = <<>> \/ \E m \in Notice : reply = <<m>>
  BY <1>0 DEF FlowType
<1>c. /\ subscribed \subseteq subHandle
      /\ About(chan, {"subscribe"}, subHandle)
      /\ About(toRegistry, {"subscribe"}, subHandle)
      /\ About(toPool, {"join", "quit"}, subscribed)
      /\ About(reply, {"join", "quit"}, {})
      /\ pc[Recv] = "callback" => publication.service \in subscribed
  BY DEF SubscribeInv
<1>1. ASSUME NEW c \in Callers,
             \/ Enter(c) \/ Use(c) \/ Again(c) \/ Answered(c) \/ Select(c)
             \/ Dangle(c) \/ ClientCloses(c)
      PROVE  SubscribeInv'
  <2>1. /\ pc'[Recv] = pc[Recv]
        /\ UNCHANGED <<chan, toRegistry, reply, toPool, subHandle, subscribed, publication>>
    BY <1>0, <1>1
    DEF Enter, Use, Again, Answered, Select, Dangle, ClientCloses, Return, PcType
  <2>. QED
    BY <1>c, <2>1 DEF SubscribeInv
<1>2. ASSUME NEW c \in Callers, Discover(c) PROVE SubscribeInv'
  <2>1. /\ pc'[Recv] = pc[Recv]
        /\ UNCHANGED chan \/ chan' = Append(chan, Message("discover", Name(c), {}))
        /\ UNCHANGED <<toRegistry, reply, toPool, subHandle, subscribed, publication>>
    BY <1>0, <1>2 DEF Discover, Return, PcType
  <2>2. PICK m \in Request : m.type = "discover" /\ (UNCHANGED chan \/ chan' = Append(chan, m))
    BY <1>a, <2>1, MessageTypes DEF Message
  <2>3. About(chan', {"subscribe"}, subHandle)
    BY <1>b, <1>c, <2>2, AboutAppend
  <2>. QED
    BY <1>c, <2>1, <2>3 DEF SubscribeInv
<1>3. ASSUME NEW c \in Callers, Subscribe(c) PROVE SubscribeInv'
  <2>1. /\ pc'[Recv] = pc[Recv] /\ subHandle' = subHandle \cup {Name(c)}
        /\ UNCHANGED chan \/ chan' = Append(chan, Message("subscribe", Name(c), {}))
        /\ UNCHANGED <<toRegistry, reply, toPool, subscribed, publication>>
    BY <1>0, <1>3 DEF Subscribe, PcType
  <2>2. PICK m \in Request : /\ m.service \in subHandle'
                             /\ UNCHANGED chan \/ chan' = Append(chan, m)
    BY <1>a, <2>1, MessageTypes DEF Message
  <2>3. About(chan, {"subscribe"}, subHandle') /\ About(toRegistry, {"subscribe"}, subHandle')
    BY <1>c, <2>1, AboutMore
  <2>4. About(chan', {"subscribe"}, subHandle')
    BY <1>b, <2>2, <2>3, AboutAppend
  <2>. QED
    BY <1>c, <2>1, <2>3, <2>4 DEF SubscribeInv
<1>4. CASE RecvMessage
  <2>1. PICK m : m = Head(toPool)
    OBVIOUS
  <2>2. /\ toPool # <<>> /\ toPool' = Tail(toPool)
        /\ \/ UNCHANGED <<pc, publication>>
           \/ publication' = m /\ m.type \in {"join", "quit"}
        /\ UNCHANGED <<chan, toRegistry, reply, subHandle, subscribed>>
    BY <1>4, <2>1 DEF RecvMessage
  <2>3. /\ About(toPool', {"join", "quit"}, subscribed)
        /\ m.type \in {"join", "quit"} => m.service \in subscribed
    BY <1>b, <1>c, <2>1, <2>2, AboutTail
  <2>. QED
    BY <1>c, <2>2, <2>3 DEF SubscribeInv
<1>5. CASE Callback
  <2>1. pc'[Recv] = "read" /\ UNCHANGED <<chan, toRegistry, reply, toPool, subHandle, subscribed>>
    BY <1>0, <1>5 DEF Callback, PcType
  <2>. QED
    BY <1>c, <2>1 DEF SubscribeInv
<1>6. CASE Send
  <2>1. PICK m \in Request : m = Head(chan)
    BY <1>6, <1>b, TailElements DEF Send
  <2>2. /\ chan # <<>> /\ chan' = Tail(chan)
        /\ toRegistry' = toRegistry \/ toRegistry' = Append(toRegistry, m)
        /\ UNCHANGED <<pc, reply, toPool, subHandle, subscribed, publication>>
    BY <1>6, <2>1 DEF Send
  <2>3. /\ About(chan', {"subscribe"}, subHandle)
        /\ m.type \in {"subscribe"} => m.service \in subHandle
    BY <1>b, <1>c, <2>1, <2>2, AboutTail
  <2>4. About(toRegistry', {"subscribe"}, subHandle)
    BY <1>b, <1>c, <2>1, <2>2, <2>3, AboutAppend
  <2>. QED
    BY <1>c, <2>2, <2>3, <2>4 DEF SubscribeInv
<1>7. CASE RegistryServes
  <2>1. PICK m \in Request : m = Head(toRegistry)
    BY <1>7, <1>b, TailElements DEF RegistryServes
  <2>2. /\ toRegistry # <<>> /\ toRegistry' = Tail(toRegistry)
        /\ \/ /\ reply' = <<Message("discovered", m.service, Offering(m.service))>>
              /\ subscribed' = subscribed
           \/ /\ reply' = <<Message("subscribed", m.service, {})>>
              /\ m.type = "subscribe" /\ subscribed' = subscribed \cup {m.service}
        /\ UNCHANGED <<pc, chan, toPool, subHandle, publication>>
    BY <1>7, <2>1 DEF RegistryServes
  <2>4. About(reply', {"join", "quit"}, {})
    BY <2>2 DEF Message, About
  <2>5. /\ About(toRegistry', {"subscribe"}, subHandle)
        /\ m.type \in {"subscribe"} => m.service \in subHandle
    BY <1>b, <1>c, <2>1, <2>2, AboutTail
  <2>6. subscribed \subseteq subscribed' /\ subscribed' \subseteq subHandle
    BY <1>c, <2>2, <2>5
  <2>7. About(toPool, {"join", "quit"}, subscribed')
    BY <1>c, <2>6, AboutMore
  <2>. QED
    BY <1>c, <2>2, <2>4, <2>5, <2>6, <2>7 DEF SubscribeInv
<1>13. CASE RegistryResponds
  <2>1. PICK m \in Notice : reply = <<m>> /\ reply' = <<>> /\ toPool' = Append(toPool, m)
    BY <1>13, <1>f DEF RegistryResponds
  <2>2. m.type \notin {"join", "quit"}
    BY <1>c, <2>1 DEF About
  <2>3. About(toPool', {"join", "quit"}, subscribed)
    BY <1>b, <1>c, <2>1, <2>2, AboutAppend
  <2>4. About(reply', {"join", "quit"}, {})
    BY <2>1 DEF About
  <2>. QED
    BY <1>13, <1>c, <2>3, <2>4 DEF RegistryResponds, SubscribeInv
<1>8. CASE RegistryEnds
  <2>1. \A types, S : About(<<>>, types, S)
    BY DEF About
  <2>2. /\ toRegistry' = <<>> /\ reply' = <<>> /\ toPool' \in {toPool, <<>>}
        /\ UNCHANGED <<pc, chan, subHandle, subscribed, publication>>
    BY <1>8 DEF RegistryEnds
  <2>. QED
    BY <1>c, <2>1, <2>2 DEF SubscribeInv
<1>9. ASSUME NEW f \in {User, Recv}, Close(f) PROVE SubscribeInv'
  <2>1. \A types, S : About(<<>>, types, S)
    BY DEF About
  <2>2. /\ pc'[Recv] = "callback" => pc[Recv] = "callback"
        /\ chan' = <<>>
        /\ UNCHANGED <<toRegistry, reply, toPool, subHandle, subscribed, publication>>
    BY <1>0, <1>9 DEF Close, PcType
  <2>. QED
    BY <1>c, <2>1, <2>2 DEF SubscribeInv
<1>10. ASSUME NEW e \in Entries, Join(e) \/ Quit(e) PROVE SubscribeInv'
  <2>1. UNCHANGED <<pc, chan, toRegistry, reply, subHandle, subscribed, publication>>
    BY <1>10 DEF Join, Quit
  <2>2. About(toPool', {"join", "quit"}, subscribed)
    <3>1. CASE toPool' = toPool
      BY <1>c, <3>1
    <3>2. ASSUME NEW t \in {"join", "quit"}, toPool' = Append(toPool, Message(t, e[1], {e[2]})),
                 e[1] \in subscribed
          PROVE  About(toPool', {"join", "quit"}, subscribed)
      <4>1. PICK m \in Notice : m.service = e[1] /\ toPool' = Append(toPool, m)
        BY <3>2, MessageTypes DEF Message
      <4>. QED
        BY <1>b, <1>c, <3>2, <4>1, AboutAppend
    <3>. QED
      BY <1>10, <3>1, <3>2 DEF Join, Quit, Publish
  <2>. QED
    BY <1>c, <2>1, <2>2 DEF SubscribeInv
<1>11. CASE UNCHANGED <<pc, chan, toRegistry, reply, toPool, subHandle, subscribed, publication>>
  BY <1>c, <1>11 DEF SubscribeInv
<1>12. \/ \E c \in Callers : CallStep(c) \/ Dangle(c) \/ ClientCloses(c)
       \/ RecvMessage \/ Callback \/ Send
       \/ RegistryServes \/ RegistryResponds \/ RegistryEnds
       \/ \E f \in {User, Recv} : Close(f)
       \/ \E e \in Entries : Join(e) \/ Quit(e)
       \/ UNCHANGED <<pc, chan, toRegistry, reply, toPool, subHandle, subscribed, publication>>
  BY DEF Next, Step, vars, ServerEnds
<1>. QED
  BY <1>1, <1>2, <1>3, <1>4, <1>5, <1>6, <1>7, <1>8, <1>9, <1>10, <1>11, <1>12, <1>13
  DEF CallStep

-----------------------------------------------------------------------------
(* The cache *)

LEMMA FollowInit == TypeOK /\ Init => FollowInv
<1> SUFFICES ASSUME TypeOK, Init PROVE FollowInv
  OBVIOUS
<1>1. MessagesTracked /\ ReplyTracked
  BY DEF Init, MessagesTracked, ReplyTracked, Kind
<1>2. HandTracked
  BY FibersAssumption DEF Init, HandTracked
<1>3. AnswerTracked
  BY DEF Init, AnswerTracked
<1>4. CacheTracked
  BY DEF Init, CacheTracked
<1>. QED
  BY <1>1, <1>2, <1>3, <1>4 DEF FollowInv

\* What has been promised stays promised behind a new message.
LEMMA QuitAppend ==
    ASSUME toPool \in Seq(Notice), NEW e \in Notice, toPool' = Append(toPool, e),
           NEW k \in Nat, NEW n, NEW a
    PROVE  /\ QuitAfter(toPool, k, n, a) => QuitAfter(toPool', k, n, a)
           /\ k <= Len(toPool) /\ e = Message("quit", n, {a}) => QuitAfter(toPool', k, n, a)
<1>1. /\ Len(toPool) \in Nat /\ Len(toPool') = Len(toPool) + 1
      /\ \A i \in 1..Len(toPool) : toPool'[i] = toPool[i]
      /\ toPool'[Len(toPool) + 1] = e
  BY AppendElements
<1>2. QuitAfter(toPool, k, n, a) => QuitAfter(toPool', k, n, a)
  BY <1>1 DEF QuitAfter, Message
<1>3. ASSUME k <= Len(toPool), e = Message("quit", n, {a}) PROVE QuitAfter(toPool', k, n, a)
  <2>1. Len(toPool) + 1 \in 1..Len(toPool') /\ Len(toPool) + 1 > k
    BY <1>1, <1>3
  <2>. QED
    BY <1>1, <1>3, <2>1 DEF QuitAfter, Message
<1>. QED
  BY <1>2, <1>3

LEMMA QuitTail ==
    ASSUME toPool \in Seq(Notice), toPool # <<>>, toPool' = Tail(toPool), NEW n, NEW a
    PROVE  /\ \A k \in Nat : QuitAfter(toPool, k + 1, n, a) => QuitAfter(toPool', k, n, a)
           /\ QuitAfter(toPool, 0, n, a) =>
                 QuitAfter(toPool', 0, n, a) \/ Head(toPool) = Message("quit", n, {a})
<1>1. /\ Len(toPool) \in Nat \ {0} /\ Len(toPool') = Len(toPool) - 1
      /\ \A i \in 1..Len(toPool') : toPool'[i] = toPool[i + 1]
      /\ Head(toPool) = toPool[1]
  BY TailElements
<1>2. ASSUME NEW k \in Nat, QuitAfter(toPool, k + 1, n, a) PROVE QuitAfter(toPool', k, n, a)
  <2>1. PICK i \in 1..Len(toPool) : i > k + 1 /\ toPool[i] = Message("quit", n, {a})
    BY <1>2 DEF QuitAfter
  <2>2. i - 1 \in 1..Len(toPool') /\ i - 1 > k /\ (i - 1) + 1 = i
    BY <1>1, <2>1
  <2>3. toPool'[i - 1] = toPool[i]
    BY <1>1, <2>2
  <2>. QED
    BY <2>1, <2>2, <2>3 DEF QuitAfter, Message
<1>3. ASSUME QuitAfter(toPool, 0, n, a), Head(toPool) # Message("quit", n, {a})
      PROVE  QuitAfter(toPool, 1, n, a)
  BY <1>1, <1>3 DEF QuitAfter
<1>. QED
  BY <1>2, <1>3

\* A new message at the end takes no promise back, and the receiving fiber waits no less.
LEMMA FlowAppend ==
    ASSUME toPool \in Seq(Notice), NEW e \in Notice, toPool' = Append(toPool, e)
    PROVE  /\ Len(toPool) \in Nat /\ Len(toPool') = Len(toPool) + 1
           /\ \A i \in 1..Len(toPool) : toPool'[i] = toPool[i]
           /\ \A i : pc'[Recv] = pc[Recv] /\ Unread(i) => Unread(i)'
           /\ \A k \in Nat : \A n, a : QuitAfter(toPool, k, n, a) => QuitAfter(toPool', k, n, a)
           /\ \A k \in Nat : reply' = reply /\ Answering(k) => Answering(k)'
<1>1. /\ Len(toPool) \in Nat /\ Len(toPool') = Len(toPool) + 1
      /\ \A i \in 1..Len(toPool) : toPool'[i] = toPool[i]
  BY AppendElements
<1>2. \A i : pc'[Recv] = pc[Recv] /\ Unread(i) => Unread(i)'
  BY <1>1 DEF Unread
<1>3. \A k \in Nat : \A n, a : QuitAfter(toPool, k, n, a) => QuitAfter(toPool', k, n, a)
  BY QuitAppend
<1>4. \A k \in Nat : reply' = reply /\ Answering(k) => Answering(k)'
  BY <1>1 DEF Answering, Kind
<1>. QED
  BY <1>1, <1>2, <1>3, <1>4

\* Nothing of this is disturbed while the connection stays as it is.
LEMMA FlowKept ==
    ASSUME toPool' = toPool
    PROVE  /\ \A i : pc'[Recv] = pc[Recv] => (Unread(i)' <=> Unread(i))
           /\ \A k, n, a : QuitAfter(toPool', k, n, a) <=> QuitAfter(toPool, k, n, a)
           /\ \A k : reply' = reply => (Answering(k)' <=> Answering(k))
BY DEF Unread, QuitAfter, Message, Answering, Kind

\* A step that leaves the connection and the registry alone, and brings nothing new to
\* the pool.
LEMMA FollowKept ==
    ASSUME TypeOK, FollowInv, pc'[Recv] = pc[Recv], load' = load, toPool' = toPool,
           reply' = reply, directory' = directory, unseen' = unseen,
           publication' = publication, open' = open, registryOpen' = registryOpen,
           answer' = answer,
           \A c \in Callers : pc'[c] = "await" /\ answer[c] # <<>> => pc[c] = "await",
           \A n \in Services : \A a \in cache'[n] :
              \/ a \in cache[n]
              \/ \E c \in Callers : /\ pc[c] = "await" /\ answer[c] # <<>>
                                    /\ Name(c) = n /\ a \in answer[c][1]
    PROVE  FollowInv'
<1> SUFFICES ASSUME open, registryOpen
             PROVE  /\ MessagesTracked' /\ ReplyTracked' /\ HandTracked'
                    /\ AnswerTracked' /\ CacheTracked'
  BY DEF FollowInv
<1>0. MessagesTracked /\ ReplyTracked /\ HandTracked /\ AnswerTracked /\ CacheTracked
  BY DEF FollowInv
<1>1. /\ \A k, n, a : Follows(k, n, a)' <=> Follows(k, n, a)
      /\ \A i : Unread(i)' <=> Unread(i)
      /\ \A k : Answering(k)' <=> Answering(k)
  BY FlowKept DEF Follows
<1>2. \A n, a : Tracked(n, a)' <=> Tracked(n, a)
  BY <1>1 DEF Tracked, QuitInHand, Message
<1>3. MessagesTracked' /\ ReplyTracked'
  BY <1>0, <1>1 DEF MessagesTracked, ReplyTracked, Kind
<1>4. HandTracked'
  BY <1>0, <1>1 DEF HandTracked
<1>5. AnswerTracked'
  BY <1>0, <1>2 DEF AnswerTracked, Name
<1>6. CacheTracked'
  BY <1>0, <1>2 DEF CacheTracked, AnswerTracked
<1>. QED
  BY <1>3, <1>4, <1>5, <1>6

\* A step of the registry, with a new message or without.
LEMMA FollowMore ==
    ASSUME TypeOK, FollowInv, pc' = pc, load' = load, publication' = publication,
           answer' = answer, cache' = cache, open, registryOpen,
           MessagesTracked', ReplyTracked', HandTracked',
           \A n \in Services : \A a : Tracked(n, a) =>
              \/ Tracked(n, a)'
              \/ cache[n] = {} /\ \A c \in Callers : pc[c] = "await" /\ Name(c) = n =>
                                     answer[c] = <<>>
    PROVE  FollowInv'
<1>0. AnswerTracked /\ CacheTracked
  BY DEF FollowInv
<1>a. \A c \in Callers : Name(c) \in Services
  BY MessageTypes
<1>1. AnswerTracked'
  BY <1>0, <1>a DEF AnswerTracked, Name
<1>2. CacheTracked'
  BY <1>0 DEF CacheTracked
<1>. QED
  BY <1>1, <1>2 DEF FollowInv

\* Another server's end or beginning: what a message promised the registry keeps, or a
\* later message takes back.
LEMMA FollowPublished ==
    ASSUME TypeOK, FollowInv, pc' = pc, load' = load, publication' = publication,
           answer' = answer, cache' = cache, open, registryOpen, reply' = reply,
           \/ toPool' = toPool
           \/ \E m \in Notice : /\ toPool' = Append(toPool, m) /\ m.type \in {"join", "quit"}
                                /\ m.type = "join" => \A a \in m.addresses :
                                      <<m.service, a>> \in directory',
           \A k \in 0..Len(toPool) : \A n, a : Follows(k, n, a) => Follows(k, n, a)',
           \A n, a : <<n, a>> \in directory \cup unseen =>
              \/ <<n, a>> \in directory' \cup unseen'
              \/ \E m \in Notice : m.type = "quit" /\ toPool' = Append(toPool, m)
    PROVE  FollowInv'
<1>0. MessagesTracked /\ ReplyTracked /\ HandTracked
  BY DEF FollowInv
<1>a. toPool \in Seq(Notice)
  BY DEF TypeOK, FlowType
<1>b. /\ Len(toPool) \in Nat
      /\ \A type : \A i \in Kind(toPool, type) : i \in 0..Len(toPool) /\ i \in Nat
  BY <1>a DEF Kind
<1>1. /\ \A i : Unread(i) => Unread(i)'
      /\ \A k \in Nat : Answering(k) => Answering(k)'
  BY <1>a, FlowKept, FlowAppend
<1>2. ASSUME NEW i \in Kind(toPool', "discovered")
      PROVE  (Unread(i) \/ \A a \in toPool[i].addresses : Follows(i, toPool[i].service, a))'
  <2>1. i \in Kind(toPool, "discovered") /\ toPool'[i] = toPool[i]
    <3>1. CASE toPool' = toPool
      BY <1>2, <3>1
    <3>2. ASSUME NEW m \in Notice, toPool' = Append(toPool, m), m.type \in {"join", "quit"}
          PROVE  i \in Kind(toPool, "discovered") /\ toPool'[i] = toPool[i]
      <4>1. i \in Kind(toPool, "discovered")
        BY <1>a, <1>2, <3>2, KindAppendOther
      <4>. QED
        BY <1>a, <3>2, <4>1, KindKept
    <3>. QED
      BY <3>1, <3>2
  <2>. QED
    BY <1>0, <1>1, <1>b, <2>1 DEF MessagesTracked
<1>3. ASSUME NEW i \in Kind(toPool', "join")
      PROVE  (Answering(i) \/ \A a \in toPool[i].addresses : Follows(i, toPool[i].service, a))'
  <2>1. CASE i \in Kind(toPool, "join") /\ toPool'[i] = toPool[i]
    BY <1>0, <1>1, <1>b, <2>1 DEF MessagesTracked
  <2>2. CASE ~(i \in Kind(toPool, "join") /\ toPool'[i] = toPool[i])
    <3>1. toPool' # toPool
      BY <1>3, <2>2
    <3>2. PICK m \in Notice : /\ toPool' = Append(toPool, m)
                              /\ m.type = "join" => \A a \in m.addresses :
                                    <<m.service, a>> \in directory'
      BY <3>1
    <3>3. toPool'[i] = m /\ m.type = "join"
      BY <1>a, <1>3, <2>2, <3>2, AppendElements DEF Kind
    <3>. QED
      BY <3>2, <3>3 DEF Follows
  <2>. QED
    BY <2>1, <2>2
<1>4. MessagesTracked'
  BY <1>2, <1>3 DEF MessagesTracked
<1>5. ReplyTracked'
  <2>1. Unread(Len(toPool) + 1) => Unread(Len(toPool) + 1)'
    <3>1. \/ toPool' = toPool
          \/ /\ Len(toPool') = Len(toPool) + 1
             /\ \A i \in 1..Len(toPool) : toPool'[i] = toPool[i]
      BY <1>a, FlowAppend
    <3>. QED
      BY <1>b, <3>1 DEF Unread
  <2>2. ASSUME NEW m \in Notice, m.type = "quit", toPool' = Append(toPool, m)
        PROVE  Unread(Len(toPool) + 1)'
    <3>2. Len(toPool') = Len(toPool) + 1 /\ toPool'[Len(toPool) + 1] = m
      BY <1>a, <2>2, AppendElements
    <3>. QED
      BY <1>b, <2>2, <3>2 DEF Unread
  <2>3. ASSUME NEW i \in Kind(reply, "discovered")
        PROVE  \/ Unread(Len(toPool) + 1)'
               \/ \A a \in reply[i].addresses : <<reply[i].service, a>> \in directory' \cup unseen'
    BY <1>0, <2>1, <2>2 DEF ReplyTracked
  <2>. QED
    BY <2>3 DEF ReplyTracked, Kind
<1>6. HandTracked'
  BY <1>0, <1>1, <1>b DEF HandTracked
<1>7. \A n \in Services : \A a : Tracked(n, a) => Tracked(n, a)'
  BY <1>b DEF Tracked, QuitInHand, Message
<1>. QED
  BY <1>4, <1>5, <1>6, <1>7, FollowMore

\* Every step keeps the cache behind the registry.
LEMMA FollowNext ==
    TypeOK /\ CallInv /\ AskInv /\ SubscribeInv /\ FollowInv /\ [Next]_vars => FollowInv'
<1> SUFFICES ASSUME TypeOK, CallInv, AskInv, SubscribeInv, FollowInv, [Next]_vars,
                    open', registryOpen'
             PROVE  FollowInv'
  BY DEF FollowInv
<1> USE FibersAssumption DEF Goto, callers, locks, maps, pool, registry
<1>0. PcType /\ CallerType /\ MapType /\ FlowType
  BY DEF TypeOK
<1>a. \A c \in Callers : Name(c) \in Services
  BY MessageTypes
<1>b. toRegistry \in Seq(Request) /\ toPool \in Seq(Notice)
  BY <1>0 DEF FlowType
<1>f. reply = <<>> \/ \E m \in Notice : reply = <<m>>
  BY <1>0 DEF FlowType
<1>c. LockInv /\ NoClient /\ NoCallback /\ NoAddress /\ NoAnswer /\ WaitInv
  BY DEF CallInv
\* While both ends are open.
<1>d. open /\ registryOpen =>
         MessagesTracked /\ ReplyTracked /\ HandTracked /\ AnswerTracked /\ CacheTracked
  BY DEF FollowInv
<1>1. ASSUME NEW c \in Callers,
             \/ Enter(c) \/ Use(c) \/ Again(c) \/ Discover(c) \/ Subscribe(c) \/ Select(c)
             \/ Dangle(c) \/ ClientCloses(c)
      PROVE  FollowInv'
  <2>1. /\ load' = load /\ toPool' = toPool /\ directory' = directory /\ unseen' = unseen
        /\ publication' = publication /\ open' = open /\ registryOpen' = registryOpen
        /\ answer' = answer /\ reply' = reply
    BY <1>1 DEF Enter, Use, Again, Discover, Subscribe, Select, Dangle, ClientCloses
  <2>2. pc'[Recv] = pc[Recv]
    BY <1>0, <1>1
    DEF Enter, Use, Again, Discover, Subscribe, Select, Dangle, ClientCloses, Return, PcType
  <2>3. \A d \in Callers : pc'[d] = "await" => pc[d] = "await" \/ pc[d] = "look"
    BY <1>0, <1>1
    DEF Enter, Use, Again, Discover, Subscribe, Select, Dangle, ClientCloses, Return, PcType
  <2>4. \A d \in Callers : pc'[d] = "await" /\ answer[d] # <<>> => pc[d] = "await"
    BY <1>c, <2>3 DEF NoAnswer
  <2>5. \A n \in Services : cache'[n] \subseteq cache[n]
    <3>1. CASE Again(c)
      <4>1. PICK gone : cache' = [cache EXCEPT ![Name(c)] = @ \ gone]
        BY <3>1 DEF Again
      <4>. QED
        BY <1>0, <1>a, <4>1 DEF MapType
    <3>2. CASE ~Again(c)
      BY <1>1, <3>2 DEF Enter, Use, Discover, Subscribe, Select, Dangle, ClientCloses
    <3>. QED
      BY <3>1, <3>2
  <2>. QED
    BY <2>1, <2>2, <2>4, <2>5, FollowKept
<1>2. ASSUME NEW c \in Callers, Answered(c) PROVE FollowInv'
  <2>1. /\ load' = load /\ toPool' = toPool /\ directory' = directory /\ unseen' = unseen
        /\ publication' = publication /\ open' = open /\ registryOpen' = registryOpen
        /\ answer' = answer /\ reply' = reply /\ pc[c] = "await" /\ answer[c] # <<>>
        /\ cache' = cache \/ cache' = [cache EXCEPT ![Name(c)] = answer[c][1]]
    BY <1>2 DEF Answered
  <2>2. pc'[Recv] = pc[Recv] /\ \A d \in Callers : pc'[d] = "await" => pc[d] = "await"
    BY <1>0, <1>2 DEF Answered, Return, PcType
  <2>3. \A n \in Services :
           cache'[n] = cache[n] \/ (n = Name(c) /\ cache'[n] = answer[c][1])
    <3>1. CASE cache' = cache
      BY <3>1
    <3>2. CASE cache' = [cache EXCEPT ![Name(c)] = answer[c][1]]
      BY <1>0, <1>a, <3>2 DEF MapType
    <3>. QED
      BY <2>1, <3>1, <3>2
  <2>. QED
    BY <2>1, <2>2, <2>3, FollowKept
<1>3. CASE RecvMessage
  <2>1. PICK m \in Notice : m = Head(toPool) /\ m = toPool[1]
    BY <1>3, <1>b, TailElements DEF RecvMessage
  <2> DEFINE w == discoverHandle[m.service]
  <2>2. /\ toPool # <<>> /\ toPool' = Tail(toPool)
        /\ UNCHANGED <<load, cache, open, registryOpen, directory, unseen, reply>>
    BY <1>3 DEF RecvMessage
  <2>3. /\ \/ UNCHANGED answer
           \/ /\ m.type = "discovered" /\ w # None
              /\ answer' = [answer EXCEPT ![w] = <<m.addresses>>]
    BY <1>3, <2>1 DEF RecvMessage
  <2>4. /\ pc[Recv] = "read"
        /\ IF m.type \in {"join", "quit"} /\ m.service \in subHandle
           THEN pc' = [pc EXCEPT ![Recv] = "callback"] /\ publication' = m
           ELSE UNCHANGED <<pc, publication>>
    BY <1>3, <2>1 DEF RecvMessage
  <2>5. MessagesTracked /\ ReplyTracked /\ AnswerTracked /\ CacheTracked
    BY <1>d, <2>2
  <2>6. \A c \in Callers : pc'[c] = pc[c]
    BY <1>0, <2>4 DEF PcType
  <2>7. \A n, a :
           /\ \A k \in Nat : QuitAfter(toPool, k + 1, n, a) => QuitAfter(toPool', k, n, a)
           /\ QuitAfter(toPool, 0, n, a) =>
                 QuitAfter(toPool', 0, n, a) \/ m = Message("quit", n, {a})
    BY <1>b, <2>1, <2>2, QuitTail
  <2>8. 1 \in 1..Len(toPool)
    BY <1>b, <2>2, TailElements
  \* A publication that is read goes to its callback.
  <2>9. \A n, a : m = Message("quit", n, {a}) => QuitInHand(n, a)'
    <3>1. ASSUME NEW n, NEW a, m = Message("quit", n, {a}) PROVE QuitInHand(n, a)'
      <4>1. m.type = "quit"
        BY <3>1 DEF Message
      <4>2. m.service \in subHandle
        BY <2>1, <2>8, <4>1 DEF SubscribeInv, About
      <4>3. pc'[Recv] = "callback" /\ publication' = m
        BY <1>0, <2>4, <4>1, <4>2 DEF PcType
      <4>. QED
        BY <3>1, <4>3 DEF QuitInHand, Message
    <3>. QED
      BY <3>1
  <2>10. \A n, a : Tracked(n, a) => Tracked(n, a)'
    <3>1. \A n, a : ~QuitInHand(n, a)
      BY <2>4 DEF QuitInHand
    <3>. QED
      BY <2>2, <2>7, <2>9, <3>1 DEF Tracked, Follows
  <2>20. /\ Len(toPool) \in Nat \ {0} /\ Len(toPool') = Len(toPool) - 1
         /\ \A i \in 1..Len(toPool') : toPool'[i] = toPool[i + 1]
    BY <1>b, <2>2, TailElements
  <2>21. \A n, a : \A k \in Nat : Follows(k + 1, n, a) => Follows(k, n, a)'
    BY <2>2, <2>7 DEF Follows
  \* The publication that comes first is read, or comes first still.
  <2>22. ASSUME NEW i \in Nat, Unread(i + 1) PROVE Unread(i)'
    <3>1. PICK k \in 1..Len(toPool) : k < i + 1 /\ toPool[k].type \in {"join", "quit"}
      BY <2>4, <2>22 DEF Unread
    <3>2. CASE k = 1
      <4>1. m.service \in subHandle
        BY <2>1, <2>8, <3>1, <3>2 DEF SubscribeInv, About
      <4>2. pc'[Recv] = "callback"
        BY <1>0, <2>1, <2>4, <3>1, <3>2, <4>1 DEF PcType
      <4>. QED
        BY <4>2 DEF Unread
    <3>3. CASE k # 1
      <4>1. k - 1 \in 1..Len(toPool') /\ toPool'[k - 1] = toPool[k] /\ k - 1 < i
        <5>1. k - 1 \in 1..Len(toPool') /\ (k - 1) + 1 = k /\ k - 1 < i
          BY <2>20, <3>1, <3>3
        <5>. QED
          BY <2>20, <5>1
      <4>. QED
        BY <3>1, <4>1 DEF Unread
    <3>. QED
      BY <3>2, <3>3
  <2>23. ASSUME NEW i \in Nat, Answering(i + 1) PROVE Answering(i)'
    <3>1. CASE Kind(reply, "discovered") # {}
      BY <2>2, <3>1 DEF Answering
    <3>2. CASE Kind(reply, "discovered") = {}
      <4>1. PICK k \in Kind(toPool, "discovered") : k > i + 1
        BY <2>23, <3>2 DEF Answering
      <4>2. k - 1 \in 1..Len(toPool') /\ (k - 1) + 1 = k /\ k - 1 > i
        BY <2>20, <4>1 DEF Kind
      <4>3. toPool'[k - 1] = toPool[k]
        BY <2>20, <4>2
      <4>. QED
        BY <4>1, <4>2, <4>3 DEF Answering, Kind
    <3>. QED
      BY <3>1, <3>2
  <2>24. ASSUME NEW type, NEW i \in Kind(toPool', type)
         PROVE  i \in Nat /\ i + 1 \in Kind(toPool, type) /\ toPool'[i] = toPool[i + 1]
    BY <1>b, <2>2, <2>24, KindTail
  <2>11. MessagesTracked'
    <3>1. ASSUME NEW i \in Kind(toPool', "discovered")
          PROVE  (Unread(i) \/ \A a \in toPool[i].addresses : Follows(i, toPool[i].service, a))'
      <4>1. \/ Unread(i + 1)
            \/ \A a \in toPool'[i].addresses : Follows(i + 1, toPool'[i].service, a)
        BY <2>5, <2>24, <3>1 DEF MessagesTracked
      <4>. QED
        BY <2>21, <2>22, <2>24, <3>1, <4>1
    <3>2. ASSUME NEW i \in Kind(toPool', "join")
          PROVE  (Answering(i) \/ \A a \in toPool[i].addresses : Follows(i, toPool[i].service, a))'
      <4>1. \/ Answering(i + 1)
            \/ \A a \in toPool'[i].addresses : Follows(i + 1, toPool'[i].service, a)
        BY <2>5, <2>24, <3>2 DEF MessagesTracked
      <4>. QED
        BY <2>21, <2>23, <2>24, <3>2, <4>1
    <3>. QED
      BY <3>1, <3>2 DEF MessagesTracked
  <2>25. ReplyTracked'
    <3>1. Unread(Len(toPool) + 1) => Unread(Len(toPool) + 1)'
      <4>1. PICK l \in Nat : l = Len(toPool) /\ l = Len(toPool') + 1
        BY <2>20
      <4>2. Unread(l + 1) => Unread(l)'
        BY <2>22
      <4>. QED
        BY <4>1, <4>2 DEF Unread
    <3>. QED
      BY <2>2, <2>5, <3>1 DEF ReplyTracked, Kind
  <2>12. HandTracked'
    <3>1. ASSUME pc'[Recv] = "callback", publication'.type = "join"
          PROVE  (\/ Answering(0)
                  \/ \A a \in publication.addresses : Follows(0, publication.service, a))'
      <4>1. publication' = m /\ m.type = "join"
        BY <2>4, <3>1
      <4>2. 1 \in Kind(toPool, "join")
        BY <2>1, <2>8, <4>1 DEF Kind
      <4>3. Answering(0 + 1) \/ \A a \in m.addresses : Follows(0 + 1, m.service, a)
        BY <2>1, <2>5, <4>2 DEF MessagesTracked
      <4>. QED
        BY <2>21, <2>23, <4>1, <4>3
    <3>. QED
      BY <3>1 DEF HandTracked
  <2>13. AnswerTracked'
    <3>1. ASSUME NEW c \in Callers, pc[c] = "await", answer'[c] # <<>>,
                 NEW a \in answer'[c][1]
          PROVE  Tracked(Name(c), a)
      <4>1. CASE answer'[c] = answer[c]
        BY <2>5, <3>1, <4>1 DEF AnswerTracked
      <4>2. CASE answer'[c] # answer[c]
        <5>1. m.type = "discovered" /\ w # None /\ c = w /\ answer'[c] = <<m.addresses>>
          BY <1>0, <2>3, <4>2 DEF CallerType
        <5>2. m.service \in Services
          BY DEF Notice
        <5>3. Name(c) = m.service
          BY <1>c, <5>1, <5>2 DEF WaitInv
        <5>4. 1 \in Kind(toPool, "discovered")
          BY <2>1, <2>8, <5>1 DEF Kind
        <5>5. a \in m.addresses
          BY <3>1, <5>1
        <5>8. ~Unread(1)
          BY <2>4, <2>20 DEF Unread
        <5>6. Follows(1, m.service, a)
          BY <2>1, <2>5, <5>4, <5>5, <5>8 DEF MessagesTracked
        <5>7. QuitAfter(toPool, 1, m.service, a) => QuitAfter(toPool, 0, m.service, a)
          BY DEF QuitAfter
        <5>. QED
          BY <5>3, <5>6, <5>7 DEF Tracked, Follows
      <4>. QED
        BY <4>1, <4>2
    <3>2. \A c \in Callers : Name(c)' = Name(c)
      BY <2>2 DEF Name
    <3>3. ASSUME NEW c \in Callers, pc'[c] = "await", answer'[c] # <<>>,
                 NEW a \in answer'[c][1]
          PROVE  Tracked(Name(c), a)'
      <4>1. PICK n : n = Name(c)
        OBVIOUS
      <4>2. Tracked(n, a)'
        BY <2>6, <2>10, <3>1, <3>3, <4>1
      <4>. QED
        BY <3>2, <4>1, <4>2
    <3>. QED
      BY <3>3 DEF AnswerTracked
  <2>14. CacheTracked'
    BY <2>2, <2>5, <2>10 DEF CacheTracked
  <2>. QED
    BY <2>11, <2>12, <2>13, <2>14, <2>25 DEF FollowInv
<1>4. CASE Callback
  <2>1. /\ connMutex = None /\ pc[Recv] = "callback" /\ pc' = [pc EXCEPT ![Recv] = "read"]
        /\ cache' = [cache EXCEPT ![publication.service] =
                        IF publication.type = "join" THEN @ \cup publication.addresses
                        ELSE @ \ publication.addresses]
        /\ UNCHANGED <<load, answer, open, registryOpen, reply, toPool, directory, unseen>>
    BY <1>4 DEF Callback
  <2>2. MessagesTracked /\ HandTracked /\ CacheTracked
    BY <1>d, <2>1
  <2>3. \A k, n, a : Follows(k, n, a)' <=> Follows(k, n, a)
    BY <2>1, FlowKept DEF Follows
  \* Nobody waits for an answer.
  <2>10. Kind(reply, "discovered") = {} /\ Kind(toPool, "discovered") = {}
    <3>1. \A c \in Callers : pc[c] # "await"
      BY <2>1, OneLocked DEF Locked
    <3>. QED
      BY <2>1, <3>1, Quiet
  <2>11. \A k : ~Answering(k)
    BY <2>10 DEF Answering
  <2>4. MessagesTracked' /\ ReplyTracked'
    <3>1. Kind(toPool', "discovered") = {} /\ Kind(reply', "discovered") = {}
      BY <2>1, <2>10
    <3>2. \A i \in Kind(toPool', "join") : \A a \in toPool'[i].addresses :
             Follows(i, toPool[i].service, a)
      BY <2>1, <2>2, <2>11 DEF MessagesTracked
    <3>3. ASSUME NEW i \in Kind(toPool', "join")
          PROVE  (\A a \in toPool[i].addresses : Follows(i, toPool[i].service, a))'
      BY <2>1, <2>3, <3>2, <3>3
    <3>. QED
      BY <3>1, <3>3 DEF MessagesTracked, ReplyTracked
  <2>5. pc'[Recv] = "read" /\ \A c \in Callers : pc'[c] = pc[c]
    BY <1>0, <2>1 DEF PcType
  <2>6. HandTracked'
    BY <2>5 DEF HandTracked
  <2>7. AnswerTracked'
    BY <2>1, <2>5, OneLocked DEF AnswerTracked, Locked
  <2>8. ASSUME NEW n \in Services, NEW a \in cache'[n] PROVE Tracked(n, a)'
    <3>1. CASE a \in cache[n]
      <4>1. Tracked(n, a)
        BY <2>2, <3>1 DEF CacheTracked
      <4>2. ~QuitInHand(n, a)
        <5>1. SUFFICES ASSUME publication = Message("quit", n, {a}) PROVE FALSE
          BY DEF QuitInHand
        <5>2. publication.type = "quit" /\ publication.service = n
              /\ publication.addresses = {a}
          BY <5>1 DEF Message
        <5>. QED
          BY <1>0, <2>1, <2>8, <5>2 DEF MapType
      <4>. QED
        BY <2>3, <4>1, <4>2 DEF Tracked
    <3>2. CASE a \notin cache[n]
      <4>1. n = publication.service /\ publication.type = "join" /\ a \in publication.addresses
        BY <1>0, <2>1, <2>8, <3>2 DEF MapType
      <4>2. Follows(0, n, a)
        BY <2>1, <2>2, <2>11, <4>1 DEF HandTracked
      <4>. QED
        BY <2>3, <4>2 DEF Tracked
    <3>. QED
      BY <3>1, <3>2
  <2>9. CacheTracked'
    BY <2>8 DEF CacheTracked
  <2>. QED
    BY <2>4, <2>6, <2>7, <2>9 DEF FollowInv
<1>5. CASE Send
  <2>1. /\ pc' = pc /\ load' = load /\ toPool' = toPool /\ directory' = directory
        /\ unseen' = unseen /\ publication' = publication /\ open' = open
        /\ registryOpen' = registryOpen /\ answer' = answer /\ cache' = cache
        /\ reply' = reply
    BY <1>5 DEF Send
  <2>. QED
    BY <2>1, FollowKept
<1>6. CASE RegistryServes
  <2>1. PICK m \in Request : m = Head(toRegistry) /\ m = toRegistry[1]
    BY <1>6, <1>b, TailElements DEF RegistryServes
  <2>2. /\ toRegistry # <<>> /\ open /\ registryOpen /\ reply = <<>> /\ toPool' = toPool
        /\ pc' = pc /\ load' = load /\ publication' = publication /\ answer' = answer
        /\ cache' = cache /\ directory' = directory
    BY <1>6 DEF RegistryServes
  <2>3. MessagesTracked /\ HandTracked
    BY <1>d, <2>2
  <2>4. m.service \in Services
    BY DEF Request
  <2>7. \A i : Unread(i)' <=> Unread(i)
    BY <2>2, FlowKept
  <2>8. \A k, n, a : QuitAfter(toPool', k, n, a) <=> QuitAfter(toPool, k, n, a)
    BY <2>2, FlowKept
  <2>5. CASE m.type = "discover"
    <3>1. PICK e \in Notice :
            /\ e = Message("discovered", m.service, Offering(m.service))
            /\ reply' = <<e>>
            /\ unseen' = {d \in unseen : d[1] # m.service}
      BY <1>6, <2>1, <2>4, <2>5, MessageTypes DEF RegistryServes
    <3>2. 1 \in Kind(toRegistry, "discover")
      BY <1>b, <2>1, <2>2, <2>5, KindTail
    <3>3. Kind(toPool, "discovered") = {} /\ m.service \in Waited
      BY <2>1, <2>2, <3>2 DEF AskInv
    <3>4. PICK c \in Callers : pc[c] = "await" /\ answer[c] = <<>> /\ Name(c) = m.service
      BY <3>3 DEF Waited
    <3>5. cache[m.service] = {} /\ \A d \in Callers : pc[d] = "await" => d = c
      BY <1>c, <3>4, OneLocked DEF NoAddress, Locked
    <3>6. Kind(reply', "discovered") = {1} /\ reply'[1] = e
      BY <3>1, KindOne DEF Message
    <3>7. \A k : Answering(k)'
      BY <3>6 DEF Answering
    <3>8. \A a \in e.addresses : <<e.service, a>> \in directory
      BY <1>0, <3>1, EntriesAssumption DEF Message, Offering, TypeOK, RegistryType
    <3>13. MessagesTracked' /\ HandTracked'
      BY <2>2, <3>3, <3>7 DEF MessagesTracked, HandTracked
    <3>14. ReplyTracked'
      BY <2>2, <3>6, <3>8 DEF ReplyTracked
    <3>15. \A n \in Services : \A a : n # m.service /\ Tracked(n, a) => Tracked(n, a)'
      BY <2>2, <2>8, <3>1 DEF Tracked, Follows, QuitInHand, Message
    <3>16. \A n \in Services : \A a : Tracked(n, a) =>
              \/ Tracked(n, a)'
              \/ cache[n] = {} /\ \A d \in Callers : pc[d] = "await" /\ Name(d) = n =>
                                     answer[d] = <<>>
      BY <3>4, <3>5, <3>15
    <3>. QED
      BY <2>2, <3>13, <3>14, <3>16, FollowMore
  <2>6. CASE m.type = "subscribe"
    <3>1. Kind(reply', "discovered") = {} /\ unseen' = unseen
      BY <1>6, <2>1, <2>6, KindOne DEF RegistryServes, Message
    <3>2. Kind(reply, "discovered") = {}
      BY <2>2, KindOne
    <3>3. \A k, n, a : Follows(k, n, a)' <=> Follows(k, n, a)
      BY <2>2, <2>8, <3>1 DEF Follows
    <3>4. \A k : Answering(k)' <=> Answering(k)
      BY <2>2, <3>1, <3>2 DEF Answering, Kind
    <3>5. MessagesTracked'
      BY <2>2, <2>3, <2>7, <3>3, <3>4 DEF MessagesTracked, Kind
    <3>6. HandTracked' /\ ReplyTracked'
      BY <2>2, <2>3, <3>1, <3>3, <3>4 DEF HandTracked, ReplyTracked
    <3>7. \A n \in Services : \A a : Tracked(n, a) => Tracked(n, a)'
      BY <2>2, <3>3 DEF Tracked, QuitInHand, Message
    <3>. QED
      BY <2>2, <3>5, <3>6, <3>7, FollowMore
  <2>. QED
    BY <2>5, <2>6 DEF Request
<1>11. CASE RegistryResponds
  <2>1. PICK m \in Notice : reply = <<m>>
    BY <1>11, <1>f DEF RegistryResponds
  <2>2. /\ toPool' = Append(toPool, m) /\ reply' = <<>> /\ open /\ registryOpen
        /\ pc' = pc /\ load' = load /\ publication' = publication /\ answer' = answer
        /\ cache' = cache /\ directory' = directory /\ unseen' = unseen
    BY <1>11, <2>1 DEF RegistryResponds
  <2>3. MessagesTracked /\ ReplyTracked /\ HandTracked
    BY <1>d, <2>2
  <2>4. /\ Len(toPool) \in Nat /\ Len(toPool') = Len(toPool) + 1
        /\ \A i : Unread(i) => Unread(i)'
        /\ \A k \in Nat : \A n, a : Follows(k, n, a) => Follows(k, n, a)'
    BY <1>b, <2>2, FlowAppend DEF Follows
  <2>5. m.type = "discovered" => 1 \in Kind(reply, "discovered") /\ reply[1] = m
    BY <2>1 DEF Kind
  <2>6. /\ \A i \in Kind(toPool', "discovered") :
              \/ i \in Kind(toPool, "discovered") /\ toPool'[i] = toPool[i]
              \/ i = Len(toPool) + 1 /\ toPool'[i] = m /\ m.type = "discovered"
        /\ m.type = "discovered" => Len(toPool) + 1 \in Kind(toPool', "discovered")
        /\ \A i \in Kind(toPool, "discovered") : i \in Kind(toPool', "discovered")
    <3>1. Kind(toPool', "discovered") =
             Kind(toPool, "discovered")
                \cup (IF m.type = "discovered" THEN {Len(toPool) + 1} ELSE {})
      BY <1>b, <2>2, KindAppend
    <3>2. toPool'[Len(toPool) + 1] = m
      BY <1>b, <2>2, AppendElements
    <3>3. \A i \in Kind(toPool, "discovered") : toPool'[i] = toPool[i]
      BY <1>b, <2>2, KindKept
    <3>. QED
      BY <3>1, <3>2, <3>3
  <2>7. \A i \in Kind(toPool', "join") :
           i \in Kind(toPool, "join") /\ toPool'[i] = toPool[i] /\ i \in 0..Len(toPool) /\ i \in Nat
    <3>1. m.type # "join"
      BY <2>1 DEF SubscribeInv, About
    <3>2. Kind(toPool', "join") = Kind(toPool, "join")
      BY <1>b, <2>2, <3>1, KindAppendOther
    <3>3. \A i \in Kind(toPool, "join") : toPool'[i] = toPool[i]
      BY <1>b, <2>2, KindKept
    <3>. QED
      BY <2>4, <3>2, <3>3 DEF Kind
  <2>8. ASSUME NEW k \in 0..Len(toPool), Answering(k) PROVE Answering(k)'
    <3>1. CASE Kind(reply, "discovered") # {}
      <4>1. m.type = "discovered"
        BY <2>1, <3>1, KindOne
      <4>2. Len(toPool) + 1 > k
        BY <2>4
      <4>. QED
        BY <2>6, <4>1, <4>2 DEF Answering
    <3>2. CASE Kind(reply, "discovered") = {}
      <4>1. PICK i \in Kind(toPool, "discovered") : i > k
        BY <2>8, <3>2 DEF Answering
      <4>. QED
        BY <2>6, <4>1 DEF Answering
    <3>. QED
      BY <3>1, <3>2
  <2>9. ASSUME NEW i \in Kind(toPool', "discovered")
        PROVE  (Unread(i) \/ \A a \in toPool[i].addresses : Follows(i, toPool[i].service, a))'
    <3>1. CASE i \in Kind(toPool, "discovered") /\ toPool'[i] = toPool[i]
      <4>1. i \in Nat
        BY <3>1 DEF Kind
      <4>. QED
        BY <2>3, <2>4, <3>1, <4>1 DEF MessagesTracked
    <3>2. CASE i = Len(toPool) + 1 /\ toPool'[i] = m /\ m.type = "discovered"
      <4>1. \/ Unread(Len(toPool) + 1)
            \/ \A a \in m.addresses : <<m.service, a>> \in directory \cup unseen
        BY <2>3, <2>5, <3>2 DEF ReplyTracked
      <4>. QED
        BY <2>2, <2>4, <3>2, <4>1 DEF Follows
    <3>. QED
      BY <2>6, <2>9, <3>1, <3>2
  <2>10. ASSUME NEW i \in Kind(toPool', "join")
         PROVE  (Answering(i) \/ \A a \in toPool[i].addresses : Follows(i, toPool[i].service, a))'
    BY <2>3, <2>4, <2>7, <2>8, <2>10 DEF MessagesTracked
  <2>11. MessagesTracked'
    BY <2>9, <2>10 DEF MessagesTracked
  <2>12. ReplyTracked'
    BY <2>2, KindOne DEF ReplyTracked
  <2>13. HandTracked'
    <3>1. 0 \in 0..Len(toPool) /\ 0 \in Nat
      BY <2>4
    <3>. QED
      BY <2>2, <2>3, <2>4, <2>8, <3>1 DEF HandTracked
  <2>14. \A n \in Services : \A a : Tracked(n, a) => Tracked(n, a)'
    BY <2>2, <2>4 DEF Tracked, QuitInHand, Message
  <2>. QED
    BY <2>2, <2>11, <2>12, <2>13, <2>14, FollowMore
<1>7. ASSUME NEW e \in Entries, Join(e) PROVE FollowInv'
  <2>1. /\ open /\ registryOpen /\ pc' = pc /\ load' = load /\ publication' = publication
        /\ answer' = answer /\ cache' = cache /\ unseen' = unseen /\ reply' = reply
        /\ directory' = directory \cup {e} /\ e = <<e[1], e[2]>>
    BY <1>7, EntriesAssumption DEF Join
  <2>2. PICK m \in Notice : m = Message("join", e[1], {e[2]})
    BY MessageTypes
  <2>3. m.type = "join" /\ \A a \in m.addresses : <<m.service, a>> \in directory'
    BY <2>1, <2>2 DEF Message
  <2>4. toPool' = toPool \/ toPool' = Append(toPool, m)
    BY <1>7, <2>2 DEF Join, Publish
  <2>5. \A k \in 0..Len(toPool) : \A n, a : Follows(k, n, a) => Follows(k, n, a)'
    BY <1>b, <2>1, <2>4, FlowKept, FlowAppend DEF Follows
  <2>6. \A n, a : <<n, a>> \in directory \cup unseen => <<n, a>> \in directory' \cup unseen'
    BY <2>1
  <2>. QED
    BY <2>1, <2>3, <2>4, <2>5, <2>6, FollowPublished
<1>8. ASSUME NEW e \in Entries, Quit(e) PROVE FollowInv'
  <2>1. /\ open /\ registryOpen /\ pc' = pc /\ load' = load /\ publication' = publication
        /\ answer' = answer /\ cache' = cache /\ reply' = reply
        /\ directory' = directory \ {e} /\ e = <<e[1], e[2]>>
    BY <1>8, EntriesAssumption DEF Quit
  <2>2. PICK m \in Notice : m = Message("quit", e[1], {e[2]})
    BY MessageTypes
  <2>3. m.type = "quit"
    BY <2>2 DEF Message
  <2>4. \/ toPool' = Append(toPool, m) /\ unseen' = unseen
        \/ toPool' = toPool /\ unseen' = unseen \cup {e}
    BY <1>8, <2>1, <2>2 DEF Quit, Publish
  <2>5. ASSUME NEW k \in 0..Len(toPool), NEW n, NEW a, Follows(k, n, a)
        PROVE  Follows(k, n, a)'
    <3>1. QuitAfter(toPool, k, n, a) => QuitAfter(toPool', k, n, a)
      BY <1>b, <2>4, FlowKept, FlowAppend
    <3>2. CASE <<n, a>> = e /\ toPool' = Append(toPool, m)
      <4>1. m = Message("quit", n, {a}) /\ k \in Nat /\ k <= Len(toPool)
        <5>1. n = e[1] /\ a = e[2]
          BY <3>2
        <5>. QED
          BY <1>b, <2>2, <5>1
      <4>. QED
        BY <1>b, <3>2, <4>1, QuitAppend DEF Follows
    <3>3. CASE ~(<<n, a>> = e /\ toPool' = Append(toPool, m))
      BY <2>1, <2>4, <2>5, <3>1, <3>3 DEF Follows
    <3>. QED
      BY <3>2, <3>3
  <2>6. \A n, a : <<n, a>> \in directory \cup unseen =>
           <<n, a>> \in directory' \cup unseen' \/ toPool' = Append(toPool, m)
    BY <2>1, <2>4
  <2>. QED
    BY <2>1, <2>3, <2>4, <2>5, <2>6, FollowPublished
<1>9. CASE UNCHANGED <<pc, load, cache, answer, reply, toPool, directory, unseen, publication,
                       open, registryOpen>>
  BY <1>9, FollowKept
<1>10. \/ \E c \in Callers : CallStep(c) \/ Dangle(c) \/ ClientCloses(c)
       \/ RecvMessage \/ Callback \/ Send \/ RegistryServes \/ RegistryResponds
       \/ \E e \in Entries : Join(e) \/ Quit(e)
       \/ UNCHANGED <<pc, load, cache, answer, reply, toPool, directory, unseen, publication,
                      open, registryOpen>>
  BY DEF Next, Step, vars, ServerEnds, Close, RegistryEnds
<1>. QED
  BY <1>1, <1>2, <1>3, <1>4, <1>5, <1>6, <1>7, <1>8, <1>9, <1>10, <1>11 DEF CallStep

-----------------------------------------------------------------------------
(* Theorems *)

\* The strengthening that both properties need: who holds m_connMutex or has registered a
\* channel to wait on, what is under way between the pool and the registry and in which
\* order, and what the maps hold meanwhile (rpc_connection_pool.h:108-152,
\* rpc_connection_pool.cc:204-289).
THEOREM InductiveInvariant == Spec => []IInv
<1>1. Init => IInv
  BY TypeInit, CallInit, AskInit, SubscribeInit, FollowInit DEF IInv
<1>2. IInv /\ [Next]_vars => IInv'
  BY TypeNext, CallNext, AskNext, SubscribeNext, FollowNext DEF IInv
<1>. QED
  BY <1>1, <1>2, PTL DEF Spec

\* Every variable keeps its type: a message names a service, the cache holds addresses
\* that servers have, a waiting caller is a fiber of call().
THEOREM TypeCorrect == Spec => []TypeOK
<1>1. IInv => TypeOK
  BY DEF IInv
<1>. QED
  BY <1>1, InductiveInvariant, PTL

\* However many callers ask for a service at once, with servers that come and go, the
\* registry that ends and the pool closed under them: one discovers, subscribes and
\* connects, and none of the emplace() finds an element that is there
\* (rpc_connection_pool.h:108-152, rpc_connection_pool.cc:204-261).
THEOREM OneOfEachAlways == Spec => []OneOfEach
<1>1. IInv => OneOfEach
  <2> SUFFICES ASSUME IInv PROVE OneOfEach
    OBVIOUS
  <2>1. TypeOK /\ CallInv
    BY DEF IInv
  <2>2. \A c \in Callers : pc[c] = "look" => discoverHandle[Name(c)] = None
    BY <2>1, OneLocked, MessageTypes DEF Locked
  <2>. QED
    BY <2>1, <2>2 DEF OneOfEach, CallInv, NoCallback, NoClient, WaitInv, Locked
<1>. QED
  BY <1>1, InductiveInvariant, PTL

\* However the publications, the answers and the callers interleave, also while the
\* registry has computed an answer and not sent it, an address whose server the registry
\* has removed is in the cache only with the publication that takes it away still to come,
\* unless that went before the subscription or under a name read from an erased element
\* (rpc_connection_pool.cc:204-289, rpc_service_register.cc:140, 199-201).
THEOREM CacheFollowsAlways == Spec => []CacheFollows
<1>1. IInv => CacheFollows
  <2> SUFFICES ASSUME IInv, open, registryOpen, NEW n \in Services, NEW a \in cache[n],
                      <<n, a>> \notin directory, <<n, a>> \notin unseen
               PROVE  \/ \E i \in DOMAIN toPool : toPool[i] = Message("quit", n, {a})
                      \/ publication = Message("quit", n, {a})
    BY DEF CacheFollows
  <2>1. Tracked(n, a)
    BY DEF IInv, FollowInv, CacheTracked
  <2>2. DOMAIN toPool = 1..Len(toPool)
    BY DEF IInv, TypeOK, FlowType
  <2>. QED
    BY <2>1, <2>2 DEF Tracked, Follows, QuitAfter, QuitInHand
<1>. QED
  BY <1>1, InductiveInvariant, PTL
=============================================================================
