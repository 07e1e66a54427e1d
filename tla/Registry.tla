------------------------------ MODULE Registry ------------------------------
(***************************************************************************)
(* RpcServiceRegistry (rpc/rpc_service_register.cc, rpc_service_registry.h)*)
(* with the RpcServers that register with it and the clients that ask.     *)
(* Each connection has a fiber in handleClient(), which handles a request  *)
(* at a time.  A server may end, crash without a word (its session then    *)
(* ends by the heartbeat timer) and come back in another session.          *)
(*                                                                         *)
(* m_mutex is a CoMutex, a lock for any one fiber.  m_sub_mtx is never     *)
(* held from one step of the model to the next: what one publication sends *)
(* goes to different sessions, so that its sends are one step.             *)
(***************************************************************************)
EXTENDS Integers, Sequences, FiniteSets, Functions

CONSTANTS
    Providers,      \* sessions of RpcServers
    Consumers,      \* sessions of clients
    Offers,         \* Offers[p]: the keys of m_handlers of the server of p, in order
    Asks,           \* Asks[c]: the requests of c, in order
    Places,         \* the cases to look at: the address of the server of each provider
    None            \* nullptr, and no fiber

Sessions == Providers \cup Consumers

VARIABLES
    address,        \* the case: the address of the server of each provider
    connection,     \* connection[x]: "none", "open", or "gone" at the other end
    next,           \* next[x]: the next request of x
    toRegistry,     \* toRegistry[x]: the request under way, if any
    sent,           \* sent[x]: the messages sent to x, in order
    fiber,          \* fiber[x]: where handleClient() is
    message,        \* message[x]: its locals request and response
    providerAddr,   \* providerAddr[x]: the local of that name
    its,            \* its[x]: the elements that handleUnregisterService() has still to erase
    services,       \* m_services
    iters,          \* m_iters: address -> elements of m_services, by their iterators
    mutex,          \* the fiber that holds m_mutex, or None
    subscribes      \* m_subscribes: pairs of a key and a session

peers == <<connection, next, toRegistry>>
local == <<message, providerAddr, its>>
maps == <<services, iters, mutex, subscribes>>
vars == <<address, peers, sent, fiber, local, maps>>

Message(type, service) == [type |-> type, service |-> service, addresses |-> {}]

\* The services that are offered, the services that are asked for, and the addresses.
Offered == UNION {Range(Offers[p]) : p \in Providers}
Asked == {m.service : m \in UNION {Range(Asks[c]) : c \in Consumers}}
Addresses == UNION {Range(a) : a \in Places}

ASSUME SessionsAssumption == Providers \cap Consumers = {} /\ None \notin Sessions
\* m_handlers is a map: a server does not offer a service twice.
ASSUME OffersAssumption ==
    \A p \in Providers : Offers[p] \in Seq(Range(Offers[p])) /\ IsInjective(Offers[p])
ASSUME AsksAssumption ==
    \A c \in Consumers :
        /\ Asks[c] \in Seq(Range(Asks[c]))
        /\ \A m \in Range(Asks[c]) :
              m.type \in {"subscribe", "discover"} /\ m = Message(m.type, m.service)
ASSUME PlacesAssumption ==
    \A a \in Places : DOMAIN a = Providers /\ \A p \in Providers : a[p] # None

\* What start() of a server or a client sends, in order.
Requests(x) ==
    IF x \in Consumers THEN Asks[x]
    ELSE [i \in 1..Len(Offers[x]) |-> Message("register", Offers[x][i])]

Init ==
    /\ address \in Places
    /\ connection = [x \in Sessions |-> "none"]
    /\ next = [x \in Sessions |-> 1]
    /\ toRegistry = [x \in Sessions |-> <<>>]
    /\ sent = [x \in Sessions |-> <<>>]
    /\ fiber = [x \in Sessions |-> "none"]
    /\ message = [x \in Sessions |-> Message("none", None)]
    /\ providerAddr = [x \in Sessions |-> None] /\ its = [x \in Sessions |-> <<>>]
    /\ services = {} /\ iters = <<>> /\ mutex = None /\ subscribes = {}

-----------------------------------------------------------------------------
(* The servers and clients *)

\* A server is there once at a time: it comes back when its last session has
\* ended for it.  bindRegistry() connects and says where the server is.
Connect(x) ==
    /\ connection[x] = "none"
    /\ x \in Providers =>
         \A y \in Providers : address[y] = address[x] => connection[y] # "open"
    /\ connection' = [connection EXCEPT ![x] = "open"]
    /\ fiber' = [fiber EXCEPT ![x] = "recv"]
    /\ toRegistry' = IF x \in Consumers THEN toRegistry
                     ELSE [toRegistry EXCEPT ![x] = <<Message("provider", None)>>]
    /\ UNCHANGED <<address, next, sent, local, maps>>

\* A request follows the answer to the one before.  Heartbeats only reset the timer
\* and acknowledgements of publications are ignored: neither is among the requests.
Ask(x) ==
    /\ connection[x] = "open" /\ next[x] <= Len(Requests(x))
    /\ fiber[x] = "recv" /\ toRegistry[x] = <<>>
    /\ toRegistry' = [toRegistry EXCEPT ![x] = <<Requests(x)[next[x]]>>]
    /\ next' = [next EXCEPT ![x] = @ + 1]
    /\ UNCHANGED <<address, connection, sent, fiber, local, maps>>

\* The peer closes the connection, or crashes without a word.  What it was sent is
\* nobody's any more.
Leave(x) ==
    /\ connection[x] = "open"
    /\ connection' = [connection EXCEPT ![x] = "gone"]
    /\ sent' = [sent EXCEPT ![x] = <<>>]
    /\ UNCHANGED <<address, next, toRegistry, fiber, local, maps>>

-----------------------------------------------------------------------------
(* The registry *)

Send(x, m) == IF connection[x] = "open" THEN Append(sent[x], m) ELSE sent[x]

Handler(type) ==
    CASE type \in {"register", "discover", "subscribe"} -> type
      [] OTHER -> "recv"

\* recvProtocol() and the switch; handleProvider() is the case RPC_PROVIDER.
Receive(x) ==
    /\ fiber[x] = "recv" /\ toRegistry[x] # <<>>
    /\ LET m == Head(toRegistry[x])
       IN  /\ fiber' = [fiber EXCEPT ![x] = Handler(m.type)]
           /\ message' = [message EXCEPT ![x] = m]
           /\ providerAddr' = IF m.type = "provider"
                              THEN [providerAddr EXCEPT ![x] = address[x]] ELSE providerAddr
    /\ toRegistry' = [toRegistry EXCEPT ![x] = Tail(@)]
    /\ UNCHANGED <<address, connection, next, sent, its, maps>>

\* Mutant of End: nothing is unregistered.
EndOnly(x) ==
    /\ fiber[x] = "recv" /\ connection[x] = "gone"
    /\ fiber' = [fiber EXCEPT ![x] = "end"]
    /\ toRegistry' = [toRegistry EXCEPT ![x] = <<>>]
    /\ UNCHANGED <<address, connection, next, sent, local, maps>>

\* recvProtocol() is nullptr: the end of the stream, or the timer of update() has
\* closed the socket, with or without the last request.  A live peer sends a
\* heartbeat in time.
End(x) ==
    /\ fiber[x] = "recv" /\ connection[x] = "gone"
    /\ fiber' = [fiber EXCEPT ![x] = IF providerAddr[x] = None THEN "end" ELSE "unregister"]
    /\ toRegistry' = [toRegistry EXCEPT ![x] = <<>>]
    /\ UNCHANGED <<address, connection, next, sent, local, maps>>

\* handleRegisterService() up to lock.unlock().
Register(x) ==
    /\ fiber[x] = "register" /\ mutex = None
    /\ LET e == [service |-> message[x].service, address |-> providerAddr[x], session |-> x]
           old == IF e.address \in DOMAIN iters THEN iters[e.address] ELSE <<>>
       IN  /\ services' = services \cup {e}
           /\ iters' = [a \in DOMAIN iters \cup {e.address} |->
                            IF a = e.address THEN Append(old, e) ELSE iters[a]]
           /\ message' = [message EXCEPT ![x].type = "join", ![x].addresses = {e.address}]
    /\ fiber' = [fiber EXCEPT ![x] = "publish"]
    /\ UNCHANGED <<address, peers, sent, providerAddr, its, mutex, subscribes>>

\* handleUnregisterService(): m_mutex is held to its end.
Unregister(x) ==
    /\ fiber[x] = "unregister" /\ mutex = None
    /\ IF providerAddr[x] \in DOMAIN iters
       THEN /\ mutex' = x
            /\ its' = [its EXCEPT ![x] = iters[providerAddr[x]]]
            /\ fiber' = [fiber EXCEPT ![x] = "erase"]
       ELSE fiber' = [fiber EXCEPT ![x] = "end"] /\ UNCHANGED <<mutex, its>>
    /\ UNCHANGED <<address, peers, sent, message, providerAddr, services, iters, subscribes>>

\* Line 201 reads the name through the iterator that line 198 has erased: the key
\* is the name, or what else is in the memory, which is nobody's key.
EraseNext(x) ==
    /\ fiber[x] = "erase" /\ its[x] # <<>>
    /\ services' = services \ {Head(its[x])}
    /\ \E key \in {Head(its[x]).service, None} :
         message' = [message EXCEPT ![x] =
                        [type |-> "quit", service |-> key, addresses |-> {providerAddr[x]}]]
    /\ its' = [its EXCEPT ![x] = Tail(@)]
    /\ fiber' = [fiber EXCEPT ![x] = "publish"]
    /\ UNCHANGED <<address, peers, sent, providerAddr, iters, mutex, subscribes>>

\* Mutant of EraseAddress: line 203 is missing.
EraseNoAddress(x) ==
    /\ fiber[x] = "erase" /\ its[x] = <<>>
    /\ mutex' = None
    /\ fiber' = [fiber EXCEPT ![x] = "end"]
    /\ UNCHANGED <<address, peers, sent, local, services, iters, subscribes>>

EraseAddress(x) ==
    /\ fiber[x] = "erase" /\ its[x] = <<>>
    /\ iters' = Restrict(iters, DOMAIN iters \ {providerAddr[x]})
    /\ mutex' = None
    /\ fiber' = [fiber EXCEPT ![x] = "end"]
    /\ UNCHANGED <<address, peers, sent, local, services, subscribes>>

AfterPublish(x) ==
    fiber' = [fiber EXCEPT ![x] = IF message[x].type = "quit" THEN "erase" ELSE "respond"]

\* publish() looks for any subscriber, drops m_sub_mtx, ...
PublishLook(x) ==
    /\ fiber[x] = "publish"
    /\ IF subscribes = {} THEN AfterPublish(x) ELSE fiber' = [fiber EXCEPT ![x] = "send"]
    /\ UNCHANGED <<address, peers, sent, local, maps>>

\* ... and takes it again to send.
PublishSend(x) ==
    /\ fiber[x] = "send"
    /\ sent' = [y \in Sessions |->
                   IF <<message[x].service, y>> \in subscribes
                   THEN Send(y, message[x]) ELSE sent[y]]
    /\ AfterPublish(x)
    /\ UNCHANGED <<address, peers, local, maps>>

Offering(service) == {e.address : e \in {d \in services : d.service = service}}

\* Mutant of Discover: without m_mutex.
DiscoverUnlocked(x) ==
    /\ fiber[x] = "discover"
    /\ message' = [message EXCEPT ![x].type = "discovered",
                                  ![x].addresses = Offering(message[x].service)]
    /\ fiber' = [fiber EXCEPT ![x] = "respond"]
    /\ UNCHANGED <<address, peers, sent, providerAddr, its, maps>>

\* handleDiscoverService(); no address is the answer RPC_NO_METHOD.
Discover(x) ==
    /\ fiber[x] = "discover" /\ mutex = None
    /\ message' = [message EXCEPT ![x].type = "discovered",
                                  ![x].addresses = Offering(message[x].service)]
    /\ fiber' = [fiber EXCEPT ![x] = "respond"]
    /\ UNCHANGED <<address, peers, sent, providerAddr, its, maps>>

Subscribe(x) ==
    /\ fiber[x] = "subscribe"
    /\ subscribes' = subscribes \cup {<<message[x].service, x>>}
    /\ message' = [message EXCEPT ![x].type = "subscribed"]
    /\ fiber' = [fiber EXCEPT ![x] = "respond"]
    /\ UNCHANGED <<address, peers, sent, providerAddr, its, services, iters, mutex>>

\* Line 140.  A message to a peer that has gone is lost.
Respond(x) ==
    /\ fiber[x] = "respond"
    /\ sent' = [sent EXCEPT ![x] =
                   Send(x, [message[x] EXCEPT !.type = IF @ = "join" THEN "registered" ELSE @])]
    /\ message' = [message EXCEPT ![x] = Message("none", None)]
    /\ fiber' = [fiber EXCEPT ![x] = "recv"]
    /\ UNCHANGED <<address, peers, providerAddr, its, maps>>

\* Mutant of Clean: the test is the wrong way round.
CleanConnected ==
    /\ subscribes' = {s \in subscribes : connection[s[2]] # "open"}
    /\ subscribes' # subscribes
    /\ UNCHANGED <<address, peers, sent, fiber, local, services, iters, mutex>>

\* The fiber of the constructor, every 5 s: a session is gone with its fiber.
Clean ==
    /\ subscribes' = {s \in subscribes : fiber[s[2]] # "end"}
    /\ subscribes' # subscribes
    /\ UNCHANGED <<address, peers, sent, fiber, local, services, iters, mutex>>

-----------------------------------------------------------------------------

FiberStep(x) ==
    \/ Receive(x) \/ End(x) \/ Register(x) \/ Unregister(x) \/ EraseNext(x) \/ EraseAddress(x)
    \/ PublishLook(x) \/ PublishSend(x) \/ Discover(x) \/ Subscribe(x) \/ Respond(x)

Next ==
    \/ \E x \in Sessions : Connect(x) \/ Ask(x) \/ Leave(x)
    \/ \E x \in Sessions : FiberStep(x)
    \/ Clean

Spec == Init /\ [][Next]_vars

\* The fibers of the registry run, and a session whose peer is gone ends.
FairSpec == Spec /\ \A x \in Sessions : WF_vars(FiberStep(x))

-----------------------------------------------------------------------------

\* m_services and m_iters have the same elements whenever m_mutex is free, and an
\* element that is about to be erased is there, whoever registered it and whatever
\* sessions of the same address have come and gone (lines 165-168, 189-203).
MapsInStep ==
    /\ mutex = None =>
         /\ services = UNION {Range(iters[a]) : a \in DOMAIN iters}
         /\ \A a \in DOMAIN iters : \A e \in Range(iters[a]) : e.address = a
    /\ \A x \in Sessions : Range(its[x]) \subseteq services

\* What a client makes of what it is sent: of a service, answers and joins add
\* addresses and quits remove them.
Says(m, e) == m.service = e.service /\ e.address \in m.addresses

Sees(c, e) ==
    \E i \in DOMAIN sent[c] :
        /\ Says(sent[c][i], e) /\ sent[c][i].type # "quit"
        /\ \A j \in DOMAIN sent[c] : Says(sent[c][j], e) /\ sent[c][j].type = "quit" => j < i

\* c has subscribed to the service, and then discovered it.
Follows(c, service) ==
    \E i, j \in DOMAIN sent[c] :
        /\ i < j /\ sent[c][i].service = service /\ sent[c][j].service = service
        /\ sent[c][i].type = "subscribed" /\ sent[c][j].type = "discovered"

\* A client that subscribes and then discovers misses no server: every one that is
\* registered is in what it has been sent, or a fiber is about to publish it,
\* although the answer and the publications come from different fibers and publish()
\* drops its lock between the look and the sending (rpc_service_registry.h:41-65).
NobodyMissed ==
    \A c \in Consumers : \A e \in services :
        connection[c] = "open" /\ Follows(c, e.service) /\ mutex = None =>
            \/ Sees(c, e)
            \/ fiber[e.session] \in {"publish", "send"}
                 /\ message[e.session].service = e.service

\* A server whose session has ended, or that has crashed, is removed with everything
\* it offered (rpc_service_register.cc:71-86, 100-107).
GoneAreRemoved ==
    \A p \in Providers :
        connection[p] = "gone" ~> fiber[p] = "end" /\ \A e \in services : e.session # p

-----------------------------------------------------------------------------

\* An address goes when its fiber takes m_mutex: nobody reads the maps in between.
Directory == services \ UNION {Range(its[x]) : x \in Sessions}

Answers ==
    [c \in Consumers |-> IF message[c].type = "discovered" THEN message[c].addresses ELSE None]

Abstract == INSTANCE AbstractRegistry WITH
    Entries <- [service : Offered, address : Addresses, session : Providers],
    Names <- Asked,
    Askers <- Consumers,
    NoAnswer <- None,
    directory <- Directory,
    answer <- Answers

\* The registry is a directory: an address goes with everything at once, and no
\* answer shows a part of that (rpc_service_register.cc:187-212).
ImplementsRegistry == Abstract!Spec
=============================================================================
