-------------------------------- MODULE Pool --------------------------------
(***************************************************************************)
(* RpcConnectionPool (rpc/rpc_connection_pool.h, .cc): fibers that call    *)
(* services by name, the receiving and the sending fiber of the connection *)
(* to the registry, and the registry as the module Registry shows it to    *)
(* be: a directory whose one handler for the pool answers what it is asked *)
(* in order, while the handlers of other connections publish to the pool.  *)
(* The clients the pool makes are what RpcClient promises, sessions that   *)
(* answer until they close, and then fail.  A fiber that uses what another *)
(* has destroyed may do anything: "wild" ends the behaviour.              *)
(*                                                                         *)
(* m_connMutex and m_sub_mtx are CoMutexes; m_discover_mutex is never held *)
(* from one step of the model to the next.  m_chan has room for all there  *)
(* is to send.                                                             *)
(***************************************************************************)
EXTENDS Integers, Sequences, FiniteSets, Functions

CONSTANTS
    Callers,    \* fibers in call(), one call each
    Recv, User, \* the fibers of handleRecv() and of the owner, who closes the pool
    Entries,    \* what servers register: pairs of a service and an address
    None,       \* no fiber and no client
    Loads       \* the cases to look at: who calls which service, what is registered at first,
                \* what joins or quits, whether the registry or the pool may close

Services == {e[1] : e \in Entries}

ASSUME FibersAssumption ==
    Recv # User /\ Callers \cap {Recv, User, None} = {} /\ None \notin {Recv, User}
ASSUME EntriesAssumption == \A e \in Entries : e = <<e[1], e[2]>>
ASSUME LoadsAssumption ==
    Loads \subseteq [callers : SUBSET Callers, service : [Callers -> Services],
                    registered : SUBSET Entries, changes : SUBSET Entries, closes : BOOLEAN]

VARIABLES
    pc,         \* where each fiber is
    load,       \* the case
    using,      \* using[c]: the client c calls on, named for the caller that made it
    client,     \* client[c]: the RpcClient c has made: its address, and whether it is open
    result,     \* result[c]: what call() returns
    answer,     \* answer[c]: recvChan of discover(), empty or a set of addresses
    connMutex, subMutex,    \* the fibers that hold m_connMutex and m_sub_mtx, or None
    conns,      \* m_conns: service -> client
    cache,      \* m_serviceCache, as sets: how often an address occurs only weighs the choice
    subHandle,  \* the keys of m_subHandle
    discoverHandle, \* m_discover_handle: service -> the caller that waits
    open,       \* ~m_isClose, and m_registry is there
    chan,       \* m_chan
    publication,    \* what handlePublish() works on
    toRegistry, toPool, \* the two directions of the connection
    reply,      \* what the registry has computed and not sent: empty, or a message
    registryOpen,   \* the registry has not closed its end
    subscribed, \* the services whose changes the registry publishes to the pool
    directory,  \* the entries of the registry
    alive,      \* the addresses whose server runs
    came,       \* the entries that have been registered so far
    unseen      \* the entries removed since the last answer and before the subscription,
                \* or published under a name that is not theirs

callers == <<using, client, result, answer>>
locks == <<connMutex, subMutex>>
maps == <<conns, cache, subHandle, discoverHandle>>
pool == <<open, chan, publication>>
registry == <<toRegistry, toPool, reply, registryOpen, subscribed, directory, came, unseen>>
vars == <<pc, load, callers, locks, maps, pool, registry, alive>>

Message(type, service, addresses) ==
    [type |-> type, service |-> service, addresses |-> addresses]

Init ==
    /\ load \in Loads
    /\ pc = [f \in Callers \cup {Recv, User} |->
                CASE f = Recv -> "read" [] f = User -> "ready"
                  [] f \in load.callers -> "call" [] OTHER -> "done"]
    /\ using = [c \in Callers |-> None]
    /\ client = [c \in Callers |-> [address |-> None, open |-> FALSE]]
    /\ result = [c \in Callers |-> None] /\ answer = [c \in Callers |-> <<>>]
    /\ connMutex = None /\ subMutex = None
    /\ conns = [n \in Services |-> None] /\ cache = [n \in Services |-> {}]
    /\ subHandle = {} /\ discoverHandle = [n \in Services |-> None]
    /\ open = TRUE /\ chan = <<>> /\ publication = None
    /\ toRegistry = <<>> /\ toPool = <<>> /\ reply = <<>> /\ registryOpen = TRUE /\ subscribed = {}
    /\ directory = load.registered /\ came = load.registered /\ unseen = {}
    /\ alive = {e[2] : e \in load.registered \cup load.changes}

Goto(f, from, to) == pc[f] = from /\ pc' = [pc EXCEPT ![f] = to]

-----------------------------------------------------------------------------
(* call() *)

Name(c) == load.service[c]

\* Lines 82-90: a connection of the pool is used without the lock.
Enter(c) ==
    /\ connMutex = None
    /\ IF conns[Name(c)] # None
       THEN /\ Goto(c, "call", "use")
            /\ using' = [using EXCEPT ![c] = conns[Name(c)]]
            /\ UNCHANGED connMutex
       ELSE /\ Goto(c, "call", "look")
            /\ connMutex' = c
            /\ UNCHANGED using
    /\ UNCHANGED <<load, client, result, answer, subMutex, maps, pool, registry, alive>>

\* The client k when the element of its service has gone from m_conns: destroyed, and so
\* closed, unless call() has it in a local pointer.
Released(k) == [client EXCEPT ![k].open = @ /\ pc[k] = "use own"]

\* The call on a client, of the pool or just made.  A client that is the caller's own and
\* no longer the pool's goes with the caller's pointer.
Use(c) ==
    LET k == client[using[c]]
    IN  /\ \/ /\ k.open /\ k.address \in alive
              /\ pc[c] \in {"use", "use own"}
              /\ pc' = [pc EXCEPT ![c] = "done"]
              /\ result' = [result EXCEPT ![c] = "answered"]
           \/ /\ ~k.open
              /\ \/ Goto(c, "use", "again") /\ UNCHANGED result
                 \/ Goto(c, "use own", "done") /\ result' = [result EXCEPT ![c] = "closed"]
        /\ client' = IF pc[c] = "use own" /\ conns[Name(c)] # c
                     THEN [client EXCEPT ![c].open = FALSE] ELSE client
        /\ UNCHANGED <<load, using, answer, locks, maps, pool, registry, alive>>

\* Lines 97-101.  The iterator is from before the call: when another caller has
\* erased its element meanwhile the address it gives is whatever is there.  What is
\* erased is the element of the name, of whatever client.
Again(c) ==
    /\ connMutex = None
    /\ Goto(c, "again", "look")
    /\ connMutex' = c
    /\ LET dead == {client[using[c]].address}
       IN  \E gone \in IF conns[Name(c)] = using[c] THEN {dead} ELSE {dead, {}} :
             cache' = [cache EXCEPT ![Name(c)] = @ \ gone]
    /\ client' = IF conns[Name(c)] = None THEN client ELSE Released(conns[Name(c)])
    /\ conns' = [conns EXCEPT ![Name(c)] = None]
    /\ UNCHANGED <<load, using, result, answer, subMutex, subHandle, discoverHandle, pool,
                   registry, alive>>

\* What may happen instead of the steps above and of Answered when another fiber has
\* destroyed what the caller holds: the element of m_conns its iterator denotes and
\* the client it is in (lines 91, 100), or the entry of m_discover_handle (.cc:232).
Dangle(c) ==
    /\ \/ pc[c] \in {"use", "again"} /\ conns[Name(c)] # using[c]
       \/ pc[c] = "await" /\ answer[c] # <<>> /\ discoverHandle[Name(c)] # c
    /\ pc' = [pc EXCEPT ![c] = "wild"]
    /\ UNCHANGED <<load, callers, locks, maps, pool, registry, alive>>

\* The result of call(), and the end of the scope of its lock.
Return(c, from, r) ==
    /\ Goto(c, from, "done")
    /\ result' = [result EXCEPT ![c] = r]
    /\ connMutex' = None

\* Lines 108-117, and discover() up to its wait: m_connMutex is held.
Discover(c) ==
    /\ cache[Name(c)] = {}
    /\ \/ /\ open
          /\ Goto(c, "look", "await")
          /\ discoverHandle' = [discoverHandle EXCEPT ![Name(c)] = IF @ = None THEN c ELSE @]
          /\ chan' = Append(chan, Message("discover", Name(c), {}))
          /\ UNCHANGED <<result, connMutex>>
       \/ /\ ~open
          /\ Return(c, "look", "registry closed")
          /\ UNCHANGED <<discoverHandle, chan>>
    /\ UNCHANGED <<load, using, client, answer, subMutex, conns, cache, subHandle, open,
                   publication, registry, alive>>

\* Mutant of Answered: the entry stays.
AnsweredKeeping(c) ==
    /\ pc[c] = "await" /\ answer[c] # <<>>
    /\ IF answer[c][1] = {}
       THEN Return(c, "await", "no method") /\ UNCHANGED cache
       ELSE /\ pc' = [pc EXCEPT ![c] = IF Name(c) \in subHandle THEN "select" ELSE "subscribe"]
            /\ cache' = [cache EXCEPT ![Name(c)] = answer[c][1]]
            /\ UNCHANGED <<result, connMutex>>
    /\ UNCHANGED <<load, using, client, answer, subMutex, conns, subHandle, discoverHandle,
                   pool, registry, alive>>

\* Lines 223-261 of rpc_connection_pool.cc.  After a close() the entry is gone, and
\* the iterator that is erased is no iterator any more: it has no effect here.
Answered(c) ==
    /\ pc[c] = "await" /\ answer[c] # <<>>
    /\ discoverHandle' = [discoverHandle EXCEPT ![Name(c)] = None]
    /\ IF answer[c][1] = {}
       THEN Return(c, "await", "no method") /\ UNCHANGED cache
       ELSE /\ pc' = [pc EXCEPT ![c] = IF Name(c) \in subHandle THEN "select" ELSE "subscribe"]
            /\ cache' = [cache EXCEPT ![Name(c)] = answer[c][1]]
            /\ UNCHANGED <<result, connMutex>>
    /\ UNCHANGED <<load, using, client, answer, subMutex, conns, subHandle, pool, registry,
                   alive>>

\* subscribe(): the callback, then the request.
Subscribe(c) ==
    /\ subMutex = None
    /\ Goto(c, "subscribe", "select")
    /\ subHandle' = subHandle \cup {Name(c)}
    /\ chan' = IF open THEN Append(chan, Message("subscribe", Name(c), {})) ELSE chan
    /\ UNCHANGED <<load, callers, locks, conns, cache, discoverHandle, open, publication,
                   registry, alive>>

\* Lines 128-152: any address, and connect() to it.
Select(c) ==
    \E a \in cache[Name(c)] :
      /\ \/ pc[c] = "look" \/ pc[c] = "select"
      /\ \/ /\ a \in alive
            /\ pc' = [pc EXCEPT ![c] = "use own"]
            /\ client' = [client EXCEPT ![c] = [address |-> a, open |-> TRUE]]
            /\ conns' = [conns EXCEPT ![Name(c)] = IF @ = None THEN c ELSE @]
            /\ using' = [using EXCEPT ![c] = c]
            /\ connMutex' = None
            /\ UNCHANGED result
         \/ a \notin alive /\ Return(c, pc[c], "fail") /\ UNCHANGED <<client, conns, using>>
      /\ UNCHANGED <<load, answer, subMutex, cache, subHandle, discoverHandle, pool, registry,
                     alive>>

-----------------------------------------------------------------------------
(* handleRecv(), handleSend() and close() *)


\* handleServiceDiscover(), or handlePublish() up to the callback.
RecvMessage ==
    /\ open /\ toPool # <<>>
    /\ LET m == Head(toPool)
           c == discoverHandle[m.service]
       IN  /\ answer' = IF m.type = "discovered" /\ c # None
                        THEN [answer EXCEPT ![c] = <<m.addresses>>] ELSE answer
           /\ IF m.type \in {"join", "quit"} /\ m.service \in subHandle
              THEN Goto(Recv, "read", "callback") /\ subMutex' = Recv /\ publication' = m
              ELSE pc[Recv] = "read" /\ UNCHANGED <<pc, subMutex, publication>>
    /\ toPool' = Tail(toPool)
    /\ UNCHANGED <<load, using, client, result, connMutex, maps, open, chan, toRegistry, reply,
                   registryOpen, subscribed, directory, came, unseen, alive>>

\* Mutant of Callback: a quit is ignored.
CallbackJoins ==
    /\ connMutex = None
    /\ Goto(Recv, "callback", "read")
    /\ cache' = [cache EXCEPT ![publication.service] =
                    IF publication.type = "join" THEN @ \cup publication.addresses ELSE @]
    /\ subMutex' = None /\ publication' = None
    /\ UNCHANGED <<load, callers, connMutex, conns, subHandle, discoverHandle, open, chan,
                   registry, alive>>

\* Lines 265-289.  The acknowledgement says nothing to the registry.
Callback ==
    /\ connMutex = None
    /\ Goto(Recv, "callback", "read")
    /\ cache' = [cache EXCEPT ![publication.service] =
                    IF publication.type = "join" THEN @ \cup publication.addresses
                    ELSE @ \ publication.addresses]
    /\ subMutex' = None /\ publication' = None
    /\ UNCHANGED <<load, callers, connMutex, conns, subHandle, discoverHandle, open, chan,
                   registry, alive>>

\* close(), by the owner, or by handleRecv() at the end of the stream.  Who waits in
\* discover() is not told.  A receiving fiber that waits is not resumed any more.
Close(f) ==
    /\ \/ f = User /\ load.closes /\ pc[User] = "ready"
       \/ f = Recv /\ pc[Recv] = "read" /\ open /\ ~registryOpen /\ toPool = <<>>
    /\ pc' = [pc EXCEPT ![f] = "done", ![Recv] = IF @ = "read" THEN "done" ELSE @]
    /\ open' = FALSE /\ chan' = <<>>
    /\ discoverHandle' = [n \in Services |-> None]
    /\ UNCHANGED <<load, callers, locks, conns, cache, subHandle, publication, registry, alive>>

Send ==
    /\ chan # <<>>
    /\ chan' = Tail(chan)
    /\ toRegistry' = IF registryOpen THEN Append(toRegistry, Head(chan)) ELSE toRegistry
    /\ UNCHANGED <<pc, load, callers, locks, maps, open, publication, toPool, reply,
                   registryOpen, subscribed, directory, came, unseen, alive>>

-----------------------------------------------------------------------------
(* The registry, the servers and the clients *)

Offering(n) == {e[2] : e \in {d \in directory : d[1] = n}}

\* The handler of the pool's connection computes an answer; what others publish may
\* overtake it.
RegistryServes ==
    /\ registryOpen /\ toRegistry # <<>> /\ reply = <<>>
    /\ toRegistry' = Tail(toRegistry)
    /\ LET m == Head(toRegistry)
       IN  \/ /\ m.type = "discover"
              /\ reply' = <<Message("discovered", m.service, Offering(m.service))>>
              /\ unseen' = {e \in unseen : e[1] # m.service}
              /\ UNCHANGED subscribed
           \/ /\ m.type = "subscribe"
              /\ reply' = <<Message("subscribed", m.service, {})>>
              /\ subscribed' = subscribed \cup {m.service}
              /\ UNCHANGED unseen
    /\ UNCHANGED <<pc, load, callers, locks, maps, pool, toPool, registryOpen, directory, came,
                   alive>>

RegistryResponds ==
    /\ reply # <<>>
    /\ toPool' = Append(toPool, reply[1])
    /\ reply' = <<>>
    /\ UNCHANGED <<pc, load, callers, locks, maps, pool, toRegistry, registryOpen, subscribed,
                   directory, came, unseen, alive>>

Publish(type, e) ==
    toPool' = IF registryOpen /\ open /\ e[1] \in subscribed
              THEN Append(toPool, Message(type, e[1], {e[2]})) ELSE toPool

Join(e) ==
    /\ e \in load.changes \ came /\ e[2] \in alive
    /\ directory' = directory \cup {e} /\ came' = came \cup {e}
    /\ Publish("join", e)
    /\ UNCHANGED <<pc, load, callers, locks, maps, pool, toRegistry, reply, registryOpen,
                   subscribed, unseen, alive>>

\* The name is read from the element that line 199 has erased: it is there still, or the
\* name that is published is nobody's.
Quit(e) ==
    /\ e \in load.changes /\ e \in directory /\ e[2] \notin alive
    /\ directory' = directory \ {e}
    /\ \/ /\ e[1] \in subscribed
          /\ Publish("quit", e)
          /\ UNCHANGED unseen
       \/ unseen' = unseen \cup {e} /\ UNCHANGED toPool
    /\ UNCHANGED <<pc, load, callers, locks, maps, pool, toRegistry, reply, registryOpen,
                   subscribed, came, alive>>

ServerEnds(a) ==
    /\ alive' = alive \ {a}
    /\ UNCHANGED <<pc, load, callers, locks, maps, pool, registry>>

\* The client notices, by its stream or by its heartbeat.
ClientCloses(c) ==
    /\ client[c].open /\ client[c].address \notin alive
    /\ client' = [client EXCEPT ![c].open = FALSE]
    /\ UNCHANGED <<pc, load, using, result, answer, locks, maps, pool, registry, alive>>

RegistryEnds ==
    /\ load.closes /\ registryOpen
    /\ registryOpen' = FALSE /\ toRegistry' = <<>> /\ reply' = <<>>
    /\ toPool' \in {toPool, <<>>}
    /\ UNCHANGED <<pc, load, callers, locks, maps, pool, subscribed, directory, came, unseen,
                   alive>>

-----------------------------------------------------------------------------

CallStep(c) ==
    \/ Enter(c) \/ Again(c) \/ Discover(c) \/ Answered(c) \/ Subscribe(c) \/ Select(c)
    \/ using[c] # None /\ Use(c)

Step ==
    \/ \E c \in Callers : CallStep(c) \/ Dangle(c) \/ ClientCloses(c)
    \/ RecvMessage \/ Callback \/ Send
    \/ RegistryServes \/ RegistryResponds \/ RegistryEnds
    \/ \E f \in {User, Recv} : Close(f)
    \/ \E e \in Entries : Join(e) \/ Quit(e)
    \/ \E a \in alive : ServerEnds(a)

\* A fiber has used what is destroyed: there is no next step to speak of.
Wild == \E c \in Callers : pc[c] = "wild"

Next == ~Wild /\ Step

Spec == Init /\ [][Next]_vars

\* Fibers run, the registry serves and a client notices the end of its server.
FairSpec ==
    /\ Spec
    /\ \A c \in Callers : WF_vars(~Wild /\ CallStep(c)) /\ WF_vars(~Wild /\ ClientCloses(c))
    /\ WF_vars(~Wild /\ RecvMessage) /\ WF_vars(~Wild /\ Callback)
    /\ WF_vars(~Wild /\ Close(Recv)) /\ WF_vars(~Wild /\ Send)
    /\ WF_vars(~Wild /\ RegistryServes) /\ WF_vars(~Wild /\ RegistryResponds)

-----------------------------------------------------------------------------

\* m_connMutex is held across the discovery and the connect(): no service is
\* subscribed twice ("duplicated subscribe" is never hit), an emplace() never finds
\* an older entry, of another caller that waits or of a connection that would be lost
\* with its new client (rpc_connection_pool.h:117, 144, 163; .cc:211, 261).
OneOfEach ==
    \A c \in Callers :
        /\ pc[c] = "subscribe" => Name(c) \notin subHandle
        /\ pc[c] \in {"look", "await", "subscribe", "select"} => conns[Name(c)] = None
        /\ pc[c] = "await" /\ open => discoverHandle[Name(c)] = c
        /\ pc[c] = "look" => discoverHandle[Name(c)] = None

\* An address that its server has left for good goes from the cache: the publication is
\* on its way to the callback.  Not when the address was removed in the gap between the
\* answer and the subscription, nor when the registry published its end under a name it
\* read from an erased element (rpc_connection_pool.cc:261-289,
\* rpc_service_register.cc:199-201).
CacheFollows ==
    \A n \in Services : \A a \in cache[n] :
        registryOpen /\ open /\ <<n, a>> \notin directory =>
            \/ <<n, a>> \in unseen
            \/ \E i \in DOMAIN toPool : toPool[i] = Message("quit", n, {a})
            \/ publication = Message("quit", n, {a})

\* A caller that holds m_connMutex waits for the receiving fiber, and that fiber waits in
\* a callback for m_connMutex; or the pool was closed under a discovery.
Blocked ==
    \E d \in Callers :
        \/ pc[d] = "await" /\ answer[d] = <<>> /\ (pc[Recv] = "callback" \/ ~open)
        \/ pc[d] = "subscribe" /\ pc[Recv] = "callback"

=============================================================================
