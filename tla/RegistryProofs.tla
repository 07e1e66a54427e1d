--------------------------- MODULE RegistryProofs ---------------------------
(***************************************************************************)
(* The registry of module Registry, for any servers and clients: its two   *)
(* maps stay in step, and it is a directory.                               *)
(*                                                                         *)
(* Whoever unregisters holds m_mutex from the first element it erases to   *)
(* the erasure of the address, so that what m_services has of that address *)
(* meanwhile is what that fiber has still to erase.  That an element is    *)
(* erased from both maps needs that a session registers a service once:    *)
(* each request of a server is for the next key of its map of handlers.    *)
(*                                                                         *)
(* A client that follows a service has heard of every server of it, or is  *)
(* about to: the answer to its discovery was computed when it was a        *)
(* subscriber, and whoever registers later publishes before anything else. *)
(***************************************************************************)
EXTENDS Registry, TLAPS

Entry == [service : Offered, address : Addresses, session : Providers]

Protocol == [type : {"none", "provider", "register", "discover", "subscribe", "join", "quit",
                     "discovered", "subscribed", "registered"},
             service : Offered \cup Asked \cup {None}, addresses : SUBSET Addresses]

PeerType ==
    /\ address \in Places
    /\ connection \in [Sessions -> {"none", "open", "gone"}]
    /\ next \in [Sessions -> Nat \ {0}]
    /\ toRegistry \in [Sessions -> Seq(Protocol)]

LocalType ==
    /\ fiber \in [Sessions -> {"none", "recv", "register", "discover", "subscribe", "publish",
                               "send", "respond", "unregister", "erase", "end"}]
    /\ message \in [Sessions -> Protocol]
    /\ providerAddr \in [Sessions -> Addresses \cup {None}]
    /\ its \in [Sessions -> Seq(Entry)]

MapType ==
    /\ services \subseteq Entry
    /\ DOMAIN iters \subseteq Addresses
    /\ iters \in [DOMAIN iters -> Seq(Entry)]
    /\ mutex \in Sessions \cup {None}

TypeOK == PeerType /\ LocalType /\ MapType

-----------------------------------------------------------------------------
(* The requests *)

\* What x registers next, once it has said where it is.
Registers(x, service) ==
    /\ x \in Providers /\ providerAddr[x] = address[x]
    /\ next[x] - 1 \in 1..Len(Offers[x]) /\ service = Offers[x][next[x] - 1]

Requested(x) ==
    toRegistry[x] # <<>> =>
        /\ fiber[x] = "recv" /\ Len(toRegistry[x]) = 1
        /\ LET m == toRegistry[x][1]
           IN  \/ m.type = "provider" /\ x \in Providers
               \/ m.type = "register" /\ Registers(x, m.service)
               \/ m.type \in {"subscribe", "discover"} /\ x \in Consumers /\ m.service \in Asked

RequestInv == \A x \in Sessions : Requested(x)

Handled(x) ==
    /\ fiber[x] \in {"none", "recv"} => message[x].type \in {"none", "provider"}
    /\ fiber[x] = "register" => Registers(x, message[x].service)
    /\ fiber[x] \in {"publish", "send"} => message[x].type \in {"join", "quit"}
    /\ message[x].type \in {"join", "quit"} => x \in Providers
    /\ fiber[x] \in {"discover", "subscribe"} =>
          x \in Consumers /\ message[x].type = fiber[x] /\ message[x].service \in Asked
    /\ fiber[x] \in {"unregister", "erase"} => providerAddr[x] # None

FiberInv == \A x \in Sessions : Handled(x)

\* A server says where it is before anything else.
Placed(x) ==
    /\ providerAddr[x] # None => x \in Providers /\ providerAddr[x] = address[x]
    /\ connection[x] = "none" <=> fiber[x] = "none"
    /\ x \in Providers /\ fiber[x] \notin {"none", "end"} =>
          \/ providerAddr[x] = address[x]
          \/ toRegistry[x] # <<>> /\ toRegistry[x][1].type = "provider"

PlaceInv == \A x \in Sessions : Placed(x)

-----------------------------------------------------------------------------
(* The maps *)

\* The fiber of x is between its two erasures.
Unregisters(x) ==
    \/ fiber[x] = "erase"
    \/ fiber[x] \in {"publish", "send"} /\ message[x].type = "quit"

LockInv ==
    /\ \A x \in Sessions : mutex = x <=> Unregisters(x)
    /\ \A x \in Sessions : its[x] # <<>> => mutex = x

\* The request of x to register its next service has not come to m_services.
Pending(x) ==
    \/ fiber[x] = "register"
    \/ toRegistry[x] # <<>> /\ toRegistry[x][1].type = "register"

\* The element e comes from an earlier request of its session.
Old(e) ==
    \E i \in 1..Len(Offers[e.session]) :
        /\ e.service = Offers[e.session][i] /\ i < next[e.session]
        /\ Pending(e.session) => i < next[e.session] - 1

Held(e) == \E a \in DOMAIN iters : e \in Range(iters[a])

FreshInv == \A e \in Entry : Held(e) => Old(e)

\* The elements s are of the address a, each of them once.
Distinct(s, a) ==
    /\ \A i \in 1..Len(s) : s[i].address = a
    /\ \A i, j \in 1..Len(s) : s[i] = s[j] => i = j

\* The element e is in the list of its address, or still to be erased by the fiber
\* that unregisters that address.
Kept(e) ==
    /\ e.address \in DOMAIN iters
    /\ \/ /\ \A x \in Sessions : mutex = x => e.address # providerAddr[x]
          /\ e \in Range(iters[e.address])
       \/ \E x \in Sessions : e \in Range(its[x])

ListInv == \A a \in DOMAIN iters : Distinct(iters[a], a)

EraseInv ==
    \A x \in Sessions :
        /\ its[x] # <<>> => Distinct(its[x], providerAddr[x])
        /\ mutex = x => providerAddr[x] \in DOMAIN iters

MapInv == ListInv /\ EraseInv /\ \A e \in Entry : e \in services <=> Kept(e)

IInv ==
    /\ TypeOK
    /\ RequestInv
    /\ FiberInv
    /\ PlaceInv
    /\ LockInv
    /\ FreshInv
    /\ MapInv

-----------------------------------------------------------------------------
(* Facts about the constants and sequences *)

LEMMA Disjoint == \A x \in Sessions : x \in Providers <=> x \notin Consumers
BY SessionsAssumption DEF Sessions

LEMMA Offer ==
    ASSUME NEW p \in Providers
    PROVE  /\ Len(Offers[p]) \in Nat
           /\ \A i \in 1..Len(Offers[p]) : Offers[p][i] \in Offered
           /\ \A i, j \in 1..Len(Offers[p]) : Offers[p][i] = Offers[p][j] => i = j
<1>1. Offers[p] \in Seq(Range(Offers[p])) /\ IsInjective(Offers[p])
  BY OffersAssumption
<1>2. Range(Offers[p]) \subseteq Offered
  BY DEF Offered
<1>3. PICK S : S = Range(Offers[p])
  OBVIOUS
<1>4. Len(Offers[p]) \in Nat /\ \A i \in 1..Len(Offers[p]) : Offers[p][i] \in S
  BY <1>1, <1>3
<1>5. DOMAIN Offers[p] = 1..Len(Offers[p])
  BY <1>1
<1>. QED
  BY <1>1, <1>2, <1>3, <1>4, <1>5 DEF IsInjective

LEMMA Request ==
    ASSUME NEW c \in Consumers
    PROVE  /\ Len(Asks[c]) \in Nat
           /\ \A i \in 1..Len(Asks[c]) :
                 /\ Asks[c][i].type \in {"subscribe", "discover"}
                 /\ Asks[c][i].service \in Asked
                 /\ Asks[c][i] = Message(Asks[c][i].type, Asks[c][i].service)
<1>1. PICK S : S = Range(Asks[c])
  OBVIOUS
<1>2. /\ Asks[c] \in Seq(S)
      /\ \A m \in S : m.type \in {"subscribe", "discover"} /\ m = Message(m.type, m.service)
  BY <1>1, AsksAssumption
<1>3. \A m \in S : m.service \in Asked
  BY <1>1 DEF Asked
<1>4. Len(Asks[c]) \in Nat /\ \A i \in 1..Len(Asks[c]) : Asks[c][i] \in S
  BY <1>2
<1>. QED
  BY <1>2, <1>3, <1>4

LEMMA Place ==
    ASSUME address \in Places, NEW p \in Providers
    PROVE  address[p] \in Addresses /\ address[p] # None
BY PlacesAssumption DEF Addresses, Range

\* What the peers send.
LEMMA Sent ==
    /\ Message("provider", None) \in Protocol /\ Message("none", None) \in Protocol
    /\ \A type \in {"register", "subscribe", "discover"}, n \in Offered \cup Asked :
          Message(type, n) \in Protocol
BY DEF Message, Protocol

LEMMA HeadTail ==
    ASSUME NEW S, NEW q \in Seq(S), q # <<>>
    PROVE  /\ Head(q) \in S /\ Tail(q) \in Seq(S) /\ Head(q) = q[1]
           /\ Len(q) \in Nat \ {0} /\ Len(Tail(q)) = Len(q) - 1
           /\ \A i \in 1..Len(Tail(q)) : Tail(q)[i] = q[i + 1]
OBVIOUS

LEMMA RangeSeq ==
    ASSUME NEW S, NEW q \in Seq(S)
    PROVE  Range(q) = {q[i] : i \in 1..Len(q)}
BY DEF Range

LEMMA RangeAppend ==
    ASSUME NEW S, NEW q \in Seq(S), NEW e \in S
    PROVE  Range(Append(q, e)) = Range(q) \cup {e}
<1>1. Append(q, e) \in Seq(S) /\ Len(Append(q, e)) = Len(q) + 1 /\ Len(q) \in Nat
  OBVIOUS
<1>2. /\ \A i \in 1..Len(q) : Append(q, e)[i] = q[i]
      /\ Append(q, e)[Len(q) + 1] = e
  OBVIOUS
<1>3. Range(Append(q, e)) = {Append(q, e)[i] : i \in 1..Len(Append(q, e))}
  BY <1>1, RangeSeq
<1>4. 1..Len(Append(q, e)) = 1..Len(q) \cup {Len(q) + 1}
  BY <1>1
<1>. QED
  BY <1>1, <1>2, <1>3, <1>4, RangeSeq

LEMMA RangeTail ==
    ASSUME NEW S, NEW q \in Seq(S), q # <<>>
    PROVE  Range(q) = {Head(q)} \cup Range(Tail(q))
<1>1. /\ Range(q) = {q[i] : i \in 1..Len(q)}
      /\ Range(Tail(q)) = {Tail(q)[i] : i \in 1..Len(Tail(q))}
  <2>1. PICK t \in Seq(S) : t = Tail(q)
    BY HeadTail
  <2>. QED
    BY <2>1, RangeSeq
<1>2. \A i \in 1..Len(q) : i = 1 \/ (i - 1 \in 1..Len(Tail(q)) /\ Tail(q)[i - 1] = q[i])
  BY HeadTail
<1>3. \A i \in 1..Len(Tail(q)) : i + 1 \in 1..Len(q) /\ Tail(q)[i] = q[i + 1]
  BY HeadTail
<1>4. 1 \in 1..Len(q) /\ Head(q) = q[1]
  BY HeadTail
<1>5. Range(q) \subseteq {Head(q)} \cup Range(Tail(q))
  BY <1>1, <1>2, <1>4
<1>6. {Head(q)} \cup Range(Tail(q)) \subseteq Range(q)
  BY <1>1, <1>3, <1>4
<1>. QED
  BY <1>5, <1>6

-----------------------------------------------------------------------------
(* Types *)

LEMMA TypeInit == Init => TypeOK
<1> SUFFICES ASSUME Init PROVE TypeOK
  OBVIOUS
<1>1. PeerType
  BY DEF Init, PeerType
<1>2. LocalType
  BY Sent DEF Init, LocalType
<1>3. MapType
  BY DEF Init, MapType
<1>. QED
  BY <1>1, <1>2, <1>3 DEF TypeOK

\* Every step keeps the types.
LEMMA TypeNext == TypeOK /\ RequestInv /\ FiberInv /\ LockInv /\ [Next]_vars => TypeOK'
<1> SUFFICES ASSUME TypeOK, RequestInv, FiberInv, LockInv, [Next]_vars
             PROVE  TypeOK'
  OBVIOUS
<1> USE DEF peers, local, maps
<1>0. PeerType /\ LocalType /\ MapType
  BY DEF TypeOK
<1>1. ASSUME NEW x \in Sessions, Connect(x) PROVE TypeOK'
  <2>1. \/ toRegistry' = toRegistry
        \/ toRegistry' = [toRegistry EXCEPT ![x] = <<Message("provider", None)>>]
    BY <1>1 DEF Connect
  <2>2. <<Message("provider", None)>> \in Seq(Protocol)
    BY Sent
  <2>3. toRegistry' \in [Sessions -> Seq(Protocol)]
    BY <1>0, <2>1, <2>2 DEF PeerType
  <2>4. PeerType'
    BY <1>0, <1>1, <2>3 DEF Connect, PeerType
  <2>5. LocalType' /\ MapType'
    BY <1>0, <1>1 DEF Connect, LocalType, MapType
  <2>. QED
    BY <2>4, <2>5 DEF TypeOK
<1>2. ASSUME NEW x \in Sessions, Ask(x) PROVE TypeOK'
  <2>1. PICK m : /\ m = Requests(x)[next[x]]
                 /\ toRegistry' = [toRegistry EXCEPT ![x] = <<m>>]
    BY <1>2 DEF Ask
  <2>2. next[x] <= Len(Requests(x)) /\ next[x] \in Nat \ {0}
    BY <1>0, <1>2 DEF Ask, PeerType
  <2>3. m \in Protocol
    <3>1. CASE x \in Consumers
      <4>1. m = Asks[x][next[x]] /\ next[x] \in 1..Len(Asks[x])
        BY <2>1, <2>2, <3>1, Request DEF Requests
      <4>. QED
        BY <3>1, <4>1, Request, Sent
    <3>2. CASE x \in Providers
      <4>1. Len(Requests(x)) = Len(Offers[x])
        BY <3>2, Disjoint, Offer DEF Requests
      <4>2. next[x] \in 1..Len(Offers[x])
        BY <2>2, <3>2, <4>1, Offer
      <4>3. m = Message("register", Offers[x][next[x]])
        BY <2>1, <3>2, <4>2, Disjoint DEF Requests
      <4>. QED
        BY <3>2, <4>2, <4>3, Offer, Sent
    <3>. QED
      BY <3>1, <3>2 DEF Sessions
  <2>4. toRegistry' \in [Sessions -> Seq(Protocol)]
    <3>1. <<m>> \in Seq(Protocol)
      BY <2>3
    <3>. QED
      BY <1>0, <2>1, <3>1 DEF PeerType
  <2>5. PeerType'
    BY <1>0, <1>2, <2>4 DEF Ask, PeerType
  <2>6. LocalType' /\ MapType'
    BY <1>0, <1>2 DEF Ask, LocalType, MapType
  <2>. QED
    BY <2>5, <2>6 DEF TypeOK
<1>3. ASSUME NEW x \in Sessions, Leave(x) PROVE TypeOK'
  <2>1. PeerType'
    BY <1>0, <1>3 DEF Leave, PeerType
  <2>2. LocalType' /\ MapType'
    BY <1>0, <1>3 DEF Leave, LocalType, MapType
  <2>. QED
    BY <2>1, <2>2 DEF TypeOK
<1>4. ASSUME NEW x \in Sessions, Receive(x) PROVE TypeOK'
  <2>1. PICK m : m = Head(toRegistry[x])
    OBVIOUS
  <2>2. /\ fiber' = [fiber EXCEPT ![x] = Handler(m.type)]
        /\ message' = [message EXCEPT ![x] = m]
        /\ \/ providerAddr' = providerAddr
           \/ m.type = "provider" /\ providerAddr' = [providerAddr EXCEPT ![x] = address[x]]
        /\ toRegistry[x] # <<>> /\ toRegistry' = [toRegistry EXCEPT ![x] = Tail(@)]
        /\ UNCHANGED <<address, connection, next, sent, its, maps>>
    BY <1>4, <2>1 DEF Receive
  <2>3. toRegistry[x] \in Seq(Protocol)
    BY <1>0 DEF PeerType
  <2>4. m \in Protocol /\ m = toRegistry[x][1] /\ Tail(toRegistry[x]) \in Seq(Protocol)
    BY <2>1, <2>2, <2>3, HeadTail
  <2>5. PeerType'
    BY <1>0, <2>2, <2>4 DEF PeerType
  <2>6. m.type = "provider" => address[x] \in Addresses
    <3>1. m.type = "provider" => x \in Providers
      BY <2>2, <2>4 DEF RequestInv, Requested
    <3>. QED
      BY <1>0, <3>1, Place DEF PeerType
  <2>7. providerAddr' \in [Sessions -> Addresses \cup {None}]
    BY <1>0, <2>2, <2>6 DEF LocalType
  <2>8. Handler(m.type) \in {"register", "discover", "subscribe", "recv"}
    BY DEF Handler
  <2>9. LocalType'
    BY <1>0, <2>2, <2>4, <2>7, <2>8 DEF LocalType
  <2>10. MapType'
    BY <1>0, <2>2 DEF MapType
  <2>. QED
    BY <2>5, <2>9, <2>10 DEF TypeOK
<1>5. ASSUME NEW x \in Sessions, End(x) PROVE TypeOK'
  <2>1. <<>> \in Seq(Protocol)
    OBVIOUS
  <2>2. PeerType'
    BY <1>0, <1>5, <2>1 DEF End, PeerType
  <2>3. LocalType' /\ MapType'
    BY <1>0, <1>5 DEF End, LocalType, MapType
  <2>. QED
    BY <2>2, <2>3 DEF TypeOK
<1>6. ASSUME NEW x \in Sessions, Register(x) PROVE TypeOK'
  <2>1. PICK e : e = [service |-> message[x].service, address |-> providerAddr[x], session |-> x]
    OBVIOUS
  <2>2. PICK old : old = IF e.address \in DOMAIN iters THEN iters[e.address] ELSE <<>>
    OBVIOUS
  <2>3. /\ fiber[x] = "register" /\ fiber' = [fiber EXCEPT ![x] = "publish"]
        /\ services' = services \cup {e}
        /\ iters' = [a \in DOMAIN iters \cup {e.address} |->
                         IF a = e.address THEN Append(old, e) ELSE iters[a]]
        /\ message' = [message EXCEPT ![x].type = "join", ![x].addresses = {e.address}]
        /\ UNCHANGED <<address, peers, sent, providerAddr, its, mutex, subscribes>>
    BY <1>6, <2>1, <2>2 DEF Register
  <2>4. Registers(x, message[x].service)
    BY <2>3 DEF FiberInv, Handled
  <2>5. e \in Entry /\ e.address \in Addresses
    BY <1>0, <2>1, <2>4, Offer, Place DEF Registers, PeerType, Entry
  <2>6. old \in Seq(Entry)
    BY <1>0, <2>2 DEF MapType
  <2>7. Append(old, e) \in Seq(Entry)
    BY <2>5, <2>6
  <2>8. MapType'
    BY <1>0, <2>3, <2>5, <2>7 DEF MapType
  <2>9. message[x] \in Protocol
    BY <1>0 DEF LocalType
  <2>10. [message[x] EXCEPT !.type = "join", !.addresses = {e.address}] \in Protocol
    BY <2>5, <2>9 DEF Protocol
  <2>11. message' = [message EXCEPT ![x] =
                        [message[x] EXCEPT !.type = "join", !.addresses = {e.address}]]
    BY <1>0, <2>3 DEF LocalType
  <2>12. LocalType'
    BY <1>0, <2>3, <2>10, <2>11 DEF LocalType
  <2>13. PeerType'
    BY <1>0, <2>3 DEF PeerType
  <2>. QED
    BY <2>8, <2>12, <2>13 DEF TypeOK
<1>7. ASSUME NEW x \in Sessions, Unregister(x) PROVE TypeOK'
  <2>1. its' \in [Sessions -> Seq(Entry)]
    <3>1. CASE providerAddr[x] \in DOMAIN iters
      <4>1. iters[providerAddr[x]] \in Seq(Entry)
        BY <1>0, <3>1 DEF MapType
      <4>. QED
        BY <1>0, <1>7, <3>1, <4>1 DEF Unregister, LocalType
    <3>2. CASE providerAddr[x] \notin DOMAIN iters
      BY <1>0, <1>7, <3>2 DEF Unregister, LocalType
    <3>. QED
      BY <3>1, <3>2
  <2>2. LocalType'
    BY <1>0, <1>7, <2>1 DEF Unregister, LocalType
  <2>3. PeerType' /\ MapType'
    BY <1>0, <1>7 DEF Unregister, PeerType, MapType
  <2>. QED
    BY <2>2, <2>3 DEF TypeOK
<1>8. ASSUME NEW x \in Sessions, EraseNext(x) PROVE TypeOK'
  <2>1. /\ fiber[x] = "erase" /\ its[x] # <<>>
        /\ services' = services \ {Head(its[x])}
        /\ its' = [its EXCEPT ![x] = Tail(@)]
        /\ fiber' = [fiber EXCEPT ![x] = "publish"]
        /\ UNCHANGED <<address, peers, sent, providerAddr, iters, mutex, subscribes>>
    BY <1>8 DEF EraseNext
  <2>2. its[x] \in Seq(Entry)
    BY <1>0 DEF LocalType
  <2>3. Head(its[x]) \in Entry /\ Tail(its[x]) \in Seq(Entry)
    BY <2>1, <2>2, HeadTail
  <2>4. PICK m : /\ m \in Protocol
                 /\ message' = [message EXCEPT ![x] = m]
    <3>1. PICK key \in {Head(its[x]).service, None} :
            message' = [message EXCEPT ![x] = [type |-> "quit", service |-> key,
                                               addresses |-> {providerAddr[x]}]]
      BY <1>8 DEF EraseNext
    <3>2. key \in Offered \cup {None}
      BY <2>3 DEF Entry
    <3>3. providerAddr[x] \in Addresses
      BY <1>0, <2>1 DEF FiberInv, Handled, LocalType
    <3>4. [type |-> "quit", service |-> key, addresses |-> {providerAddr[x]}] \in Protocol
      BY <3>2, <3>3 DEF Protocol
    <3>. QED
      BY <3>1, <3>4
  <2>5. LocalType'
    BY <1>0, <2>1, <2>3, <2>4 DEF LocalType
  <2>6. PeerType' /\ MapType'
    BY <1>0, <2>1 DEF PeerType, MapType
  <2>. QED
    BY <2>5, <2>6 DEF TypeOK
<1>9. ASSUME NEW x \in Sessions, EraseAddress(x) PROVE TypeOK'
  <2>1. MapType'
    BY <1>0, <1>9 DEF EraseAddress, MapType, Restrict
  <2>2. PeerType' /\ LocalType'
    BY <1>0, <1>9 DEF EraseAddress, PeerType, LocalType
  <2>. QED
    BY <2>1, <2>2 DEF TypeOK
<1>10. ASSUME NEW x \in Sessions, PublishLook(x) \/ PublishSend(x) PROVE TypeOK'
  <2>1. /\ \E to \in {"erase", "respond", "send"} : fiber' = [fiber EXCEPT ![x] = to]
        /\ UNCHANGED <<address, peers, local, maps>>
    BY <1>10 DEF PublishLook, PublishSend, AfterPublish
  <2>2. PeerType' /\ LocalType' /\ MapType'
    BY <1>0, <2>1 DEF PeerType, LocalType, MapType
  <2>. QED
    BY <2>2 DEF TypeOK
<1>11. ASSUME NEW x \in Sessions, Discover(x) \/ Subscribe(x) \/ Respond(x) PROVE TypeOK'
  <2>1. message[x] \in Protocol
    BY <1>0 DEF LocalType
  <2>2. Offering(message[x].service) \in SUBSET Addresses
    BY <1>0 DEF Offering, MapType, Entry
  <2>3. PICK m \in Protocol : message' = [message EXCEPT ![x] = m]
    <3>1. CASE Discover(x)
      <4>1. [message[x] EXCEPT !.type = "discovered",
                               !.addresses = Offering(message[x].service)] \in Protocol
        BY <2>1, <2>2 DEF Protocol
      <4>2. message' = [message EXCEPT ![x] =
                [message[x] EXCEPT !.type = "discovered",
                                   !.addresses = Offering(message[x].service)]]
        BY <1>0, <3>1 DEF Discover, LocalType
      <4>. QED
        BY <4>1, <4>2
    <3>2. CASE Subscribe(x)
      <4>1. [message[x] EXCEPT !.type = "subscribed"] \in Protocol
        BY <2>1 DEF Protocol
      <4>2. message' = [message EXCEPT ![x] = [message[x] EXCEPT !.type = "subscribed"]]
        BY <1>0, <3>2 DEF Subscribe, LocalType
      <4>. QED
        BY <4>1, <4>2
    <3>3. CASE Respond(x)
      BY <3>3, Sent DEF Respond
    <3>. QED
      BY <1>11, <3>1, <3>2, <3>3
  <2>4. /\ fiber' = [fiber EXCEPT ![x] = "recv"] \/ fiber' = [fiber EXCEPT ![x] = "respond"]
        /\ UNCHANGED <<address, peers, providerAddr, its, services, iters, mutex>>
    BY <1>11 DEF Discover, Subscribe, Respond
  <2>5. LocalType'
    BY <1>0, <2>3, <2>4 DEF LocalType
  <2>6. PeerType' /\ MapType'
    BY <1>0, <2>4 DEF PeerType, MapType
  <2>. QED
    BY <2>5, <2>6 DEF TypeOK
<1>12. CASE UNCHANGED <<address, connection, next, toRegistry, fiber, message, providerAddr, its,
                        services, iters, mutex>>
  BY <1>0, <1>12 DEF TypeOK, PeerType, LocalType, MapType
<1>13. \/ \E x \in Sessions : Connect(x) \/ Ask(x) \/ Leave(x) \/ FiberStep(x)
       \/ UNCHANGED <<address, connection, next, toRegistry, fiber, message, providerAddr, its,
                      services, iters, mutex>>
  BY DEF Next, vars, Clean
<1>. QED
  BY <1>1, <1>2, <1>3, <1>4, <1>5, <1>6, <1>7, <1>8, <1>9, <1>10, <1>11, <1>12, <1>13
  DEF FiberStep

-----------------------------------------------------------------------------
(* The peers *)

LEMMA PeerInit == Init => RequestInv /\ FiberInv /\ PlaceInv
<1> SUFFICES ASSUME Init, NEW x \in Sessions PROVE Requested(x) /\ Handled(x) /\ Placed(x)
  BY DEF RequestInv, FiberInv, PlaceInv
<1>. QED
  BY DEF Init, Requested, Handled, Placed, Message

\* A session that a step is not about.
Alone(x) ==
    /\ next'[x] = next[x] /\ toRegistry'[x] = toRegistry[x] /\ fiber'[x] = fiber[x]
    /\ message'[x] = message[x] /\ providerAddr'[x] = providerAddr[x]
    /\ connection'[x] = "none" <=> connection[x] = "none"

LEMMA PeerKept ==
    ASSUME NEW x \in Sessions, Requested(x), Handled(x), Placed(x), address' = address, Alone(x)
    PROVE  Requested(x)' /\ Handled(x)' /\ Placed(x)'
BY DEF Alone, Requested, Handled, Placed, Registers

\* The session x makes a step in which it keeps place, connection and requests.
LEMMA HandlerStep ==
    ASSUME NEW x \in Sessions, Requested(x), Placed(x),
           fiber[x] \notin {"none", "recv", "end"},
           address' = address, connection' = connection, next' = next,
           toRegistry' = toRegistry, providerAddr' = providerAddr,
           fiber'[x] # "none", Handled(x)'
    PROVE  Requested(x)' /\ Handled(x)' /\ Placed(x)'
BY DEF Requested, Placed, Registers

LEMMA PeerNext ==
    TypeOK /\ RequestInv /\ FiberInv /\ PlaceInv /\ [Next]_vars =>
        RequestInv' /\ FiberInv' /\ PlaceInv'
<1> SUFFICES ASSUME TypeOK, RequestInv, FiberInv, PlaceInv, [Next]_vars
             PROVE  \A x \in Sessions : Requested(x)' /\ Handled(x)' /\ Placed(x)'
  BY DEF RequestInv, FiberInv, PlaceInv
<1> USE DEF peers, local, maps
<1>0. PeerType /\ LocalType /\ MapType
  BY DEF TypeOK
<1>a. \A x \in Sessions : Requested(x) /\ Handled(x) /\ Placed(x)
  BY DEF RequestInv, FiberInv, PlaceInv
<1>b. ASSUME NEW x \in Sessions, address' = address,
             \A y \in Sessions \ {x} : Alone(y),
             Requested(x)' /\ Handled(x)' /\ Placed(x)'
      PROVE  \A y \in Sessions : Requested(y)' /\ Handled(y)' /\ Placed(y)'
  <2>1. ASSUME NEW y \in Sessions, y # x PROVE Requested(y)' /\ Handled(y)' /\ Placed(y)'
    BY <1>a, <1>b, <2>1, PeerKept
  <2>. QED
    BY <1>b, <2>1
<1>1. ASSUME NEW x \in Sessions, Connect(x)
      PROVE  \A y \in Sessions : Requested(y)' /\ Handled(y)' /\ Placed(y)'
  <2>1. /\ connection[x] = "none" /\ connection' = [connection EXCEPT ![x] = "open"]
        /\ fiber' = [fiber EXCEPT ![x] = "recv"]
        /\ toRegistry' = IF x \in Consumers THEN toRegistry
                         ELSE [toRegistry EXCEPT ![x] = <<Message("provider", None)>>]
        /\ UNCHANGED <<address, next, message, providerAddr>>
    BY <1>1 DEF Connect
  <2>2. fiber[x] = "none" /\ toRegistry[x] = <<>>
    BY <1>a, <2>1 DEF Placed, Requested
  <2>3. Requested(x)' /\ Placed(x)'
    <3>1. CASE x \in Consumers
      BY <1>0, <1>a, <2>1, <2>2, <3>1, Disjoint DEF Requested, Placed, PeerType, LocalType
    <3>2. CASE x \in Providers
      <4>1. toRegistry'[x] = <<Message("provider", None)>>
        BY <1>0, <2>1, <3>2, Disjoint DEF PeerType
      <4>2. PICK m : m = Message("provider", None)
        OBVIOUS
      <4>3. toRegistry'[x] = <<m>> /\ m.type = "provider"
        BY <4>1, <4>2 DEF Message
      <4>4. fiber'[x] = "recv" /\ connection'[x] = "open"
        BY <1>0, <2>1 DEF PeerType, LocalType
      <4>5. Requested(x)'
        BY <3>2, <4>3, <4>4 DEF Requested
      <4>6. Placed(x)'
        BY <1>a, <2>1, <3>2, <4>3, <4>4 DEF Placed
      <4>. QED
        BY <4>5, <4>6
    <3>. QED
      BY <3>1, <3>2 DEF Sessions
  <2>4. Handled(x)'
    BY <1>0, <1>a, <2>1, <2>2 DEF Handled, LocalType
  <2>5. \A y \in Sessions \ {x} : Alone(y)
    BY <1>0, <2>1 DEF Alone, PeerType, LocalType
  <2>. QED
    BY <1>b, <2>1, <2>3, <2>4, <2>5
<1>2. ASSUME NEW x \in Sessions, Ask(x)
      PROVE  \A y \in Sessions : Requested(y)' /\ Handled(y)' /\ Placed(y)'
  <2>1. /\ connection[x] = "open" /\ fiber[x] = "recv" /\ toRegistry[x] = <<>>
        /\ next[x] <= Len(Requests(x))
        /\ toRegistry' = [toRegistry EXCEPT ![x] = <<Requests(x)[next[x]]>>]
        /\ next' = [next EXCEPT ![x] = @ + 1]
        /\ UNCHANGED <<address, connection, fiber, message, providerAddr>>
    BY <1>2 DEF Ask
  <2>2. /\ toRegistry'[x] = <<Requests(x)[next[x]]>>
        /\ next[x] \in Nat \ {0} /\ next'[x] = next[x] + 1
    BY <1>0, <2>1 DEF PeerType
  <2>3. ASSUME x \in Consumers PROVE Requested(x)' /\ Handled(x)' /\ Placed(x)'
    <3>1. next[x] \in 1..Len(Asks[x]) /\ toRegistry'[x] = <<Asks[x][next[x]]>>
      BY <2>1, <2>2, <2>3, Request DEF Requests
    <3>2. PICK m : /\ toRegistry'[x] = <<m>> /\ m.type \in {"subscribe", "discover"}
                   /\ m.service \in Asked
      BY <2>3, <3>1, Request
    <3>3. Requested(x)'
      BY <2>1, <2>3, <3>2 DEF Requested
    <3>4. Handled(x)'
      BY <1>a, <2>1 DEF Handled
    <3>5. Placed(x)'
      BY <1>a, <2>1, <2>3, Disjoint DEF Placed
    <3>. QED
      BY <3>3, <3>4, <3>5
  <2>4. ASSUME x \in Providers PROVE Requested(x)' /\ Handled(x)' /\ Placed(x)'
    <3>1. x \notin Consumers
      BY <2>4, Disjoint
    <3>2. Len(Requests(x)) = Len(Offers[x])
      BY <2>4, <3>1, Offer DEF Requests
    <3>3. next[x] \in 1..Len(Offers[x])
      BY <2>1, <2>2, <2>4, <3>2, Offer
    <3>4. PICK n : n = Offers[x][next[x]]
      OBVIOUS
    <3>5. PICK m : m = Message("register", n)
      OBVIOUS
    <3>6. toRegistry'[x] = <<m>> /\ m.type = "register" /\ m.service = n
      BY <2>2, <3>1, <3>3, <3>4, <3>5 DEF Requests, Message
    <3>7. providerAddr[x] = address[x]
      BY <1>a, <2>1, <2>4 DEF Placed
    <3>8. next'[x] - 1 = next[x]
      BY <2>2
    <3>9. Registers(x, n)'
      BY <2>1, <2>4, <3>3, <3>4, <3>7, <3>8 DEF Registers
    <3>10. Requested(x)'
      <4>1. Len(toRegistry'[x]) = 1 /\ toRegistry'[x][1] = m /\ fiber'[x] = "recv"
        BY <2>1, <3>6
      <4>2. Registers(x, toRegistry[x][1].service)'
        BY <3>6, <3>9, <4>1 DEF Registers
      <4>. QED
        BY <3>6, <4>1, <4>2 DEF Requested
    <3>11. Handled(x)'
      BY <1>a, <2>1 DEF Handled
    <3>12. Placed(x)'
      BY <1>a, <2>1, <2>4, <3>7 DEF Placed
    <3>. QED
      BY <3>10, <3>11, <3>12
  <2>5. \A y \in Sessions \ {x} : Alone(y)
    BY <1>0, <2>1 DEF Alone, PeerType, LocalType
  <2>. QED
    BY <1>b, <2>1, <2>3, <2>4, <2>5 DEF Sessions
<1>3. ASSUME NEW x \in Sessions, Leave(x)
      PROVE  \A y \in Sessions : Requested(y)' /\ Handled(y)' /\ Placed(y)'
  <2>1. /\ address' = address
        /\ \A y \in Sessions : Alone(y)
    BY <1>0, <1>3 DEF Leave, Alone, PeerType
  <2>. QED
    BY <1>a, <2>1, PeerKept
<1>4. ASSUME NEW x \in Sessions, Receive(x)
      PROVE  \A y \in Sessions : Requested(y)' /\ Handled(y)' /\ Placed(y)'
  <2>1. PICK m : m = Head(toRegistry[x])
    OBVIOUS
  <2>2. /\ fiber[x] = "recv" /\ toRegistry[x] # <<>>
        /\ fiber' = [fiber EXCEPT ![x] = Handler(m.type)]
        /\ message' = [message EXCEPT ![x] = m]
        /\ providerAddr' = IF m.type = "provider"
                           THEN [providerAddr EXCEPT ![x] = address[x]] ELSE providerAddr
        /\ toRegistry' = [toRegistry EXCEPT ![x] = Tail(@)]
        /\ UNCHANGED <<address, connection, next>>
    BY <1>4, <2>1 DEF Receive
  <2>3. toRegistry[x] \in Seq(Protocol)
    BY <1>0 DEF PeerType
  <2>4. /\ m = toRegistry[x][1] /\ Len(toRegistry[x]) = 1
        /\ \/ m.type = "provider" /\ x \in Providers
           \/ m.type = "register" /\ Registers(x, m.service)
           \/ m.type \in {"subscribe", "discover"} /\ x \in Consumers /\ m.service \in Asked
    BY <1>a, <2>1, <2>2, <2>3, HeadTail DEF Requested
  <2>5. toRegistry'[x] = <<>>
    BY <1>0, <2>2, <2>3, <2>4 DEF PeerType
  <2>6. /\ message'[x] = m /\ fiber'[x] = Handler(m.type) /\ connection'[x] # "none"
        /\ m.type # "provider" => providerAddr'[x] = providerAddr[x]
        /\ m.type = "provider" => providerAddr'[x] = address[x]
    BY <1>0, <1>a, <2>2 DEF LocalType, Placed
  <2>7. Requested(x)'
    BY <2>5 DEF Requested
  <2>8. ASSUME m.type = "provider" PROVE Requested(x)' /\ Handled(x)' /\ Placed(x)'
    <3>1. fiber'[x] = "recv" /\ x \in Providers
      BY <1>a, <2>2, <2>4, <2>6, <2>8, Disjoint DEF Handler
    <3>2. Handled(x)'
      BY <2>6, <2>8, <3>1 DEF Handled
    <3>3. Placed(x)'
      BY <2>2, <2>6, <2>8, <3>1 DEF Placed
    <3>. QED
      BY <2>7, <3>2, <3>3
  <2>9. ASSUME m.type = "register", Registers(x, m.service) PROVE Requested(x)' /\ Handled(x)' /\ Placed(x)'
    <3>1. fiber'[x] = "register"
      BY <2>6, <2>9 DEF Handler
    <3>2. Registers(x, message[x].service)'
      BY <2>2, <2>6, <2>9 DEF Registers
    <3>3. Handled(x)'
      BY <2>6, <2>9, <3>1, <3>2 DEF Handled
    <3>4. Placed(x)'
      BY <1>a, <2>2, <2>6, <2>9, <3>1 DEF Placed, Registers
    <3>. QED
      BY <2>7, <3>3, <3>4
  <2>10. ASSUME m.type \in {"subscribe", "discover"}, x \in Consumers, m.service \in Asked
         PROVE  Requested(x)' /\ Handled(x)' /\ Placed(x)'
    <3>1. fiber'[x] = m.type
      BY <2>6, <2>10 DEF Handler
    <3>2. x \notin Providers
      BY <2>10, Disjoint
    <3>3. Handled(x)'
      BY <2>6, <2>10, <3>1 DEF Handled
    <3>4. Placed(x)'
      BY <1>a, <2>2, <2>6, <2>10, <3>1, <3>2 DEF Placed
    <3>. QED
      BY <2>7, <3>3, <3>4
  <2>11. \A y \in Sessions \ {x} : Alone(y)
    BY <1>0, <2>2 DEF Alone, PeerType, LocalType
  <2>. QED
    BY <1>b, <2>2, <2>4, <2>7, <2>8, <2>9, <2>10, <2>11
<1>5. ASSUME NEW x \in Sessions, End(x)
      PROVE  \A y \in Sessions : Requested(y)' /\ Handled(y)' /\ Placed(y)'
  <2>1. /\ fiber[x] = "recv"
        /\ fiber' = [fiber EXCEPT ![x] = IF providerAddr[x] = None THEN "end" ELSE "unregister"]
        /\ toRegistry' = [toRegistry EXCEPT ![x] = <<>>]
        /\ UNCHANGED <<address, connection, next, message, providerAddr>>
    BY <1>5 DEF End
  <2>2. /\ toRegistry'[x] = <<>>
        /\ fiber'[x] = IF providerAddr[x] = None THEN "end" ELSE "unregister"
    BY <1>0, <2>1 DEF PeerType, LocalType
  <2>3. Requested(x)' /\ Handled(x)' /\ Placed(x)'
    BY <1>a, <2>1, <2>2 DEF Requested, Handled, Placed
  <2>4. \A y \in Sessions \ {x} : Alone(y)
    BY <1>0, <2>1 DEF Alone, PeerType, LocalType
  <2>. QED
    BY <1>b, <2>1, <2>3, <2>4
<1>6. ASSUME NEW x \in Sessions,
             \/ Register(x) \/ Unregister(x) \/ EraseNext(x) \/ EraseAddress(x)
             \/ PublishLook(x) \/ PublishSend(x) \/ Discover(x) \/ Subscribe(x) \/ Respond(x)
      PROVE  \A y \in Sessions : Requested(y)' /\ Handled(y)' /\ Placed(y)'
  <2>1. /\ fiber[x] \notin {"none", "recv", "end"}
        /\ address' = address /\ connection' = connection /\ next' = next
        /\ toRegistry' = toRegistry /\ providerAddr' = providerAddr
    BY <1>6 DEF Register, Unregister, EraseNext, EraseAddress, PublishLook, PublishSend,
                Discover, Subscribe, Respond
  <2>2. PICK to \in {"publish", "erase", "end", "send", "respond", "recv"} :
          fiber' = [fiber EXCEPT ![x] = to]
    BY <1>6 DEF Register, Unregister, EraseNext, EraseAddress, PublishLook, PublishSend,
                AfterPublish, Discover, Subscribe, Respond
  <2>7. \A y \in Sessions \ {x} : message'[y] = message[y]
    <3>1. CASE Register(x)
      BY <1>0, <3>1 DEF Register, LocalType
    <3>2. CASE Unregister(x) \/ EraseAddress(x) \/ PublishLook(x) \/ PublishSend(x)
      BY <3>2 DEF Unregister, EraseAddress, PublishLook, PublishSend
    <3>3. CASE EraseNext(x)
      BY <1>0, <3>3 DEF EraseNext, LocalType
    <3>4. CASE Discover(x) \/ Subscribe(x) \/ Respond(x)
      BY <1>0, <3>4 DEF Discover, Subscribe, Respond, LocalType
    <3>. QED
      BY <1>6, <3>1, <3>2, <3>3, <3>4
  <2>3. Handled(x)'
    <3>0. Handled(x) /\ Placed(x) /\ message[x] \in Protocol
      BY <1>0, <1>a DEF LocalType
    <3>1. CASE Register(x)
      <4>1. message'[x].type = "join" /\ fiber'[x] = "publish" /\ x \in Providers
        BY <1>0, <3>0, <3>1 DEF Register, LocalType, Handled, Registers, Protocol
      <4>. QED
        BY <4>1 DEF Handled
    <3>2. CASE Unregister(x)
      <4>1. message' = message /\ fiber'[x] \in {"erase", "end"} /\ fiber[x] = "unregister"
        BY <1>0, <3>2 DEF Unregister, LocalType
      <4>. QED
        BY <2>1, <3>0, <4>1 DEF Handled
    <3>3. CASE EraseNext(x)
      <4>1. message'[x].type = "quit" /\ fiber'[x] = "publish" /\ fiber[x] = "erase"
        BY <1>0, <3>3 DEF EraseNext, LocalType
      <4>. QED
        BY <3>0, <4>1 DEF Handled, Placed
    <3>4. CASE EraseAddress(x)
      <4>1. message' = message /\ fiber'[x] = "end"
        BY <1>0, <3>4 DEF EraseAddress, LocalType
      <4>. QED
        BY <3>0, <4>1 DEF Handled
    <3>5. CASE PublishLook(x) \/ PublishSend(x)
      <4>1. /\ message' = message /\ fiber[x] \in {"publish", "send"}
            /\ fiber'[x] \in {"erase", "send", "respond"}
        BY <1>0, <3>5 DEF PublishLook, PublishSend, AfterPublish, LocalType
      <4>2. x \in Providers /\ toRegistry[x] = <<>>
        BY <1>a, <3>0, <4>1 DEF Handled, Requested
      <4>3. providerAddr[x] = address[x]
        BY <3>0, <4>1, <4>2 DEF Placed
      <4>4. providerAddr[x] # None
        BY <1>0, <4>2, <4>3, Place DEF PeerType
      <4>. QED
        BY <2>1, <3>0, <4>1, <4>4 DEF Handled
    <3>6. CASE Discover(x) \/ Subscribe(x) \/ Respond(x)
      <4>1. /\ message'[x].type \notin {"join", "quit"}
            /\ fiber'[x] = "respond" \/ (fiber'[x] = "recv" /\ message'[x].type = "none")
        BY <1>0, <3>0, <3>6 DEF Discover, Subscribe, Respond, LocalType, Protocol, Message
      <4>. QED
        BY <4>1 DEF Handled
    <3>. QED
      BY <1>6, <3>1, <3>2, <3>3, <3>4, <3>5, <3>6
  <2>4. fiber'[x] # "none" /\ \A y \in Sessions \ {x} : fiber'[y] = fiber[y]
    BY <1>0, <2>2 DEF LocalType
  <2>5. Requested(x)' /\ Handled(x)' /\ Placed(x)'
    BY <1>a, <2>1, <2>3, <2>4, HandlerStep
  <2>6. \A y \in Sessions \ {x} : Alone(y)
    BY <2>1, <2>7, <2>4 DEF Alone
  <2>. QED
    BY <1>b, <2>1, <2>5, <2>6
<1>7. CASE UNCHANGED <<address, connection, next, toRegistry, fiber, message, providerAddr>>
  BY <1>a, <1>7, PeerKept DEF Alone
<1>8. \/ \E x \in Sessions : Connect(x) \/ Ask(x) \/ Leave(x) \/ FiberStep(x)
      \/ UNCHANGED <<address, connection, next, toRegistry, fiber, message, providerAddr>>
  BY DEF Next, vars, Clean
<1>. QED
  BY <1>1, <1>2, <1>3, <1>4, <1>5, <1>6, <1>7, <1>8 DEF FiberStep

-----------------------------------------------------------------------------
(* The lock *)

LockOf(x) ==
    /\ mutex = x <=> Unregisters(x)
    /\ its[x] # <<>> => mutex = x

LEMMA LockInit == Init => LockInv
<1> SUFFICES ASSUME Init, NEW x \in Sessions PROVE LockOf(x)
  BY DEF LockInv, LockOf
<1>. QED
  BY SessionsAssumption DEF Init, LockOf, Unregisters, Message

LEMMA LockNext == TypeOK /\ RequestInv /\ FiberInv /\ PlaceInv /\ LockInv /\ [Next]_vars => LockInv'
<1> SUFFICES ASSUME TypeOK, RequestInv, FiberInv, PlaceInv, LockInv, [Next]_vars
             PROVE  \A x \in Sessions : LockOf(x)'
  BY DEF LockInv, LockOf
<1> USE DEF peers, local, maps
<1>0. PeerType /\ LocalType /\ MapType
  BY DEF TypeOK
<1>a. \A x \in Sessions : LockOf(x)
  BY DEF LockInv, LockOf
<1>b. ASSUME mutex' = mutex, its' = its, \A x \in Sessions : Unregisters(x)' <=> Unregisters(x)
      PROVE  \A x \in Sessions : LockOf(x)'
  BY <1>a, <1>b DEF LockOf
<1>1. ASSUME NEW x \in Sessions, Connect(x) \/ Ask(x) \/ Leave(x) \/ Receive(x) \/ End(x)
      PROVE  \A y \in Sessions : LockOf(y)'
  <2>1. fiber[x] \in {"none", "recv"} \/ fiber' = fiber
    BY <1>1 DEF PlaceInv, Placed, Connect, Ask, Leave, Receive, End
  <2>2. \/ fiber' = fiber /\ message' = message
        \/ /\ fiber[x] \in {"none", "recv"}
           /\ fiber'[x] \notin {"erase", "publish", "send"}
           /\ \A y \in Sessions \ {x} : fiber'[y] = fiber[y] /\ message'[y] = message[y]
    BY <1>0, <1>1, <2>1 DEF LocalType, Connect, Ask, Leave, Receive, End, Handler
  <2>3. mutex' = mutex /\ its' = its
    BY <1>1 DEF Connect, Ask, Leave, Receive, End
  <2>. QED
    BY <1>b, <2>2, <2>3 DEF Unregisters
<1>2. ASSUME NEW x \in Sessions,
             \/ Register(x) \/ PublishLook(x) \/ PublishSend(x)
             \/ Discover(x) \/ Subscribe(x) \/ Respond(x)
      PROVE  \A y \in Sessions : LockOf(y)'
  <2>1. mutex' = mutex /\ its' = its
    BY <1>2 DEF Register, PublishLook, PublishSend, Discover, Subscribe, Respond
  <2>2. \A y \in Sessions \ {x} : fiber'[y] = fiber[y]
    BY <1>0, <1>2 DEF LocalType, Register, PublishLook, PublishSend, AfterPublish, Discover,
                      Subscribe, Respond
  <2>3. \A y \in Sessions \ {x} : message'[y] = message[y]
    BY <1>0, <1>2 DEF LocalType, Register, PublishLook, PublishSend, Discover, Subscribe, Respond
  <2>4. Unregisters(x)' <=> Unregisters(x)
    <3>1. CASE Register(x)
      BY <1>0, <3>1 DEF Register, LocalType, Unregisters, Protocol
    <3>2. CASE PublishLook(x) \/ PublishSend(x)
      BY <1>0, <3>2 DEF PublishLook, PublishSend, AfterPublish, LocalType, Unregisters
    <3>3. CASE Discover(x) \/ Subscribe(x) \/ Respond(x)
      BY <1>0, <3>3 DEF Discover, Subscribe, Respond, LocalType, Unregisters
    <3>. QED
      BY <1>2, <3>1, <3>2, <3>3
  <2>. QED
    BY <1>b, <2>1, <2>2, <2>3, <2>4 DEF Unregisters
<1>3. ASSUME NEW x \in Sessions, Unregister(x) PROVE \A y \in Sessions : LockOf(y)'
  <2>1. /\ fiber[x] = "unregister" /\ mutex = None /\ message' = message
        /\ \/ /\ mutex' = x /\ fiber' = [fiber EXCEPT ![x] = "erase"]
              /\ its' = [its EXCEPT ![x] = iters[providerAddr[x]]]
           \/ fiber' = [fiber EXCEPT ![x] = "end"] /\ mutex' = None /\ its' = its
    BY <1>3 DEF Unregister
  <2>2. ASSUME NEW y \in Sessions, y # x PROVE LockOf(y)'
    <3>1. ~Unregisters(y) /\ its[y] = <<>>
      BY <1>a, <2>1, SessionsAssumption DEF LockOf
    <3>2. fiber'[y] = fiber[y] /\ message'[y] = message[y] /\ its'[y] = its[y]
      BY <1>0, <2>1, <2>2 DEF LocalType
    <3>3. mutex' # y
      BY <2>1, <2>2, SessionsAssumption
    <3>. QED
      BY <3>1, <3>2, <3>3 DEF LockOf, Unregisters
  <2>3. LockOf(x)'
    <3>1. ~Unregisters(x) /\ its[x] = <<>>
      BY <1>a, <2>1, SessionsAssumption DEF LockOf
    <3>. QED
      BY <1>0, <2>1, <3>1, SessionsAssumption DEF LocalType, LockOf, Unregisters
  <2>. QED
    BY <2>2, <2>3
<1>4. ASSUME NEW x \in Sessions, EraseNext(x) PROVE \A y \in Sessions : LockOf(y)'
  <2>1. /\ fiber[x] = "erase" /\ its[x] # <<>> /\ mutex' = mutex
        /\ its' = [its EXCEPT ![x] = Tail(@)] /\ fiber' = [fiber EXCEPT ![x] = "publish"]
    BY <1>4 DEF EraseNext
  <2>2. /\ message'[x].type = "quit"
        /\ \A y \in Sessions \ {x} : message'[y] = message[y]
    BY <1>0, <1>4 DEF EraseNext, LocalType
  <2>3. mutex = x
    BY <1>a, <2>1 DEF LockOf
  <2>4. LockOf(x)'
    BY <1>0, <2>1, <2>2, <2>3 DEF LocalType, LockOf, Unregisters
  <2>5. ASSUME NEW y \in Sessions, y # x PROVE LockOf(y)'
    <3>1. fiber'[y] = fiber[y] /\ message'[y] = message[y] /\ its'[y] = its[y]
      BY <1>0, <2>1, <2>2, <2>5 DEF LocalType
    <3>. QED
      BY <1>a, <2>1, <3>1 DEF LockOf, Unregisters
  <2>. QED
    BY <2>4, <2>5
<1>5. ASSUME NEW x \in Sessions, EraseAddress(x) PROVE \A y \in Sessions : LockOf(y)'
  <2>1. /\ fiber[x] = "erase" /\ its[x] = <<>> /\ mutex' = None
        /\ its' = its /\ fiber' = [fiber EXCEPT ![x] = "end"] /\ message' = message
    BY <1>5 DEF EraseAddress
  <2>2. mutex = x
    BY <1>a, <2>1 DEF LockOf, Unregisters
  <2>3. LockOf(x)'
    BY <1>0, <2>1, SessionsAssumption DEF LocalType, LockOf, Unregisters
  <2>4. ASSUME NEW y \in Sessions, y # x PROVE LockOf(y)'
    <3>1. ~Unregisters(y) /\ its[y] = <<>>
      BY <1>a, <2>2, <2>4 DEF LockOf
    <3>2. fiber'[y] = fiber[y] /\ message'[y] = message[y] /\ its'[y] = its[y] /\ mutex' # y
      BY <1>0, <2>1, <2>4, SessionsAssumption DEF LocalType
    <3>. QED
      BY <3>1, <3>2 DEF LockOf, Unregisters
  <2>. QED
    BY <2>3, <2>4
<1>6. CASE UNCHANGED <<fiber, message, mutex, its>>
  BY <1>b, <1>6 DEF Unregisters
<1>7. \/ \E x \in Sessions : Connect(x) \/ Ask(x) \/ Leave(x) \/ FiberStep(x)
      \/ UNCHANGED <<fiber, message, mutex, its>>
  BY DEF Next, vars, Clean
<1>. QED
  BY <1>1, <1>2, <1>3, <1>4, <1>5, <1>6, <1>7 DEF FiberStep

-----------------------------------------------------------------------------
(* A service is registered once *)

LEMMA FreshInit == Init => FreshInv
BY DEF Init, FreshInv, Held

\* The requests of y go on: a new one comes when none is pending.
GoesOn(y) ==
    \/ next'[y] = next[y] /\ (Pending(y)' => Pending(y))
    \/ next'[y] = next[y] + 1 /\ ~Pending(y)

LEMMA OldKept ==
    ASSUME PeerType, NEW e \in Entry, Old(e), GoesOn(e.session)
    PROVE  Old(e)'
<1>1. PICK y \in Sessions : y = e.session
  BY DEF Entry, Sessions
<1>2. PICK i \in 1..Len(Offers[y]) :
        e.service = Offers[y][i] /\ i < next[y] /\ (Pending(y) => i < next[y] - 1)
  BY <1>1 DEF Old
<1>3. next[y] \in Nat /\ i \in Nat
  BY <1>1, Offer DEF PeerType, Entry
<1>4. i < next'[y] /\ (Pending(y)' => i < next'[y] - 1)
  BY <1>1, <1>2, <1>3 DEF GoesOn
<1>5. Pending(e.session)' <=> Pending(y)'
  BY <1>1 DEF Pending
<1>. QED
  BY <1>1, <1>2, <1>4, <1>5 DEF Old

LEMMA FreshNext ==
    TypeOK /\ RequestInv /\ FiberInv /\ PlaceInv /\ FreshInv /\ [Next]_vars => FreshInv'
<1> SUFFICES ASSUME TypeOK, RequestInv, FiberInv, PlaceInv, FreshInv, [Next]_vars
             PROVE  FreshInv'
  OBVIOUS
<1> USE DEF peers, local, maps
<1>0. PeerType /\ LocalType /\ MapType
  BY DEF TypeOK
<1>a. ASSUME \A y \in Sessions : GoesOn(y), \A e \in Entry : Held(e)' => Held(e)
      PROVE  FreshInv'
  <2>1. \A e \in Entry : e.session \in Sessions
    BY DEF Entry, Sessions
  <2>. QED
    BY <1>0, <1>a, <2>1, OldKept DEF FreshInv
<1>b. ASSUME NEW x \in Sessions, GoesOn(x), iters' = iters, next' = next,
             \A y \in Sessions \ {x} : fiber'[y] = fiber[y] /\ toRegistry'[y] = toRegistry[y]
      PROVE  FreshInv'
  <2>1. \A y \in Sessions : GoesOn(y)
    BY <1>b DEF GoesOn, Pending
  <2>2. \A e \in Entry : Held(e)' => Held(e)
    BY <1>b DEF Held
  <2>. QED
    BY <1>a, <2>1, <2>2
<1>1. ASSUME NEW x \in Sessions, Connect(x) PROVE FreshInv'
  <2>1. /\ connection[x] = "none" /\ fiber' = [fiber EXCEPT ![x] = "recv"]
        /\ toRegistry' = IF x \in Consumers THEN toRegistry
                         ELSE [toRegistry EXCEPT ![x] = <<Message("provider", None)>>]
        /\ next' = next /\ iters' = iters
    BY <1>1 DEF Connect
  <2>2. toRegistry[x] = <<>>
    BY <2>1 DEF PlaceInv, Placed, RequestInv, Requested
  <2>3. toRegistry'[x] = <<>> \/ toRegistry'[x][1].type = "provider"
    BY <1>0, <2>1, <2>2 DEF PeerType, Message
  <2>4. GoesOn(x)
    BY <1>0, <2>1, <2>3 DEF LocalType, GoesOn, Pending
  <2>. QED
    BY <1>0, <1>b, <2>1, <2>4 DEF PeerType, LocalType
<1>2. ASSUME NEW x \in Sessions, Ask(x) PROVE FreshInv'
  <2>1. /\ fiber[x] = "recv" /\ toRegistry[x] = <<>>
        /\ \A y \in Sessions \ {x} : toRegistry'[y] = toRegistry[y] /\ next'[y] = next[y]
        /\ next'[x] = next[x] + 1 /\ fiber' = fiber /\ iters' = iters
    BY <1>0, <1>2 DEF Ask, PeerType
  <2>2. \A y \in Sessions : GoesOn(y)
    BY <2>1 DEF GoesOn, Pending
  <2>. QED
    BY <1>a, <2>1, <2>2 DEF Held
<1>3. ASSUME NEW x \in Sessions, Receive(x) PROVE FreshInv'
  <2>1. PICK m : m = Head(toRegistry[x])
    OBVIOUS
  <2>2. /\ toRegistry[x] # <<>> /\ fiber' = [fiber EXCEPT ![x] = Handler(m.type)]
        /\ toRegistry' = [toRegistry EXCEPT ![x] = Tail(@)]
        /\ next' = next /\ iters' = iters
    BY <1>3, <2>1 DEF Receive
  <2>3. toRegistry[x] \in Seq(Protocol) /\ Len(toRegistry[x]) = 1
    BY <1>0, <2>2 DEF PeerType, RequestInv, Requested
  <2>4. m = toRegistry[x][1] /\ toRegistry'[x] = <<>> /\ fiber'[x] = Handler(m.type)
    <3>1. m = toRegistry[x][1]
      BY <2>1, <2>2, <2>3, HeadTail
    <3>2. toRegistry'[x] = <<>>
      BY <1>0, <2>2, <2>3 DEF PeerType
    <3>3. fiber'[x] = Handler(m.type)
      BY <1>0, <2>2 DEF LocalType
    <3>. QED
      BY <3>1, <3>2, <3>3
  <2>5. fiber'[x] = "register" => m.type = "register"
    BY <2>4 DEF Handler
  <2>6. GoesOn(x)
    BY <2>2, <2>4, <2>5 DEF GoesOn, Pending
  <2>. QED
    BY <1>0, <1>b, <2>2, <2>6 DEF PeerType, LocalType
<1>4. ASSUME NEW x \in Sessions, End(x) PROVE FreshInv'
  <2>1. /\ fiber' = [fiber EXCEPT ![x] = IF providerAddr[x] = None THEN "end" ELSE "unregister"]
        /\ toRegistry' = [toRegistry EXCEPT ![x] = <<>>] /\ next' = next /\ iters' = iters
    BY <1>4 DEF End
  <2>2. toRegistry'[x] = <<>> /\ fiber'[x] # "register"
    BY <1>0, <2>1 DEF PeerType, LocalType
  <2>3. GoesOn(x)
    BY <2>1, <2>2 DEF GoesOn, Pending
  <2>. QED
    BY <1>0, <1>b, <2>1, <2>3 DEF PeerType, LocalType
<1>5. ASSUME NEW x \in Sessions, Register(x) PROVE FreshInv'
  <2>1. PICK e : e = [service |-> message[x].service, address |-> providerAddr[x], session |-> x]
    OBVIOUS
  <2>2. PICK old : old = IF e.address \in DOMAIN iters THEN iters[e.address] ELSE <<>>
    OBVIOUS
  <2>3. /\ fiber[x] = "register" /\ fiber' = [fiber EXCEPT ![x] = "publish"]
        /\ iters' = [a \in DOMAIN iters \cup {e.address} |->
                         IF a = e.address THEN Append(old, e) ELSE iters[a]]
        /\ next' = next /\ toRegistry' = toRegistry
    BY <1>5, <2>1, <2>2 DEF Register
  <2>4. Registers(x, e.service) /\ toRegistry[x] = <<>>
    BY <2>1, <2>3 DEF FiberInv, Handled, RequestInv, Requested
  <2>5. e \in Entry
    BY <1>0, <2>1, <2>4, Offer, Place DEF Registers, PeerType, Entry
  <2>6. old \in Seq(Entry)
    BY <1>0, <2>2 DEF MapType
  <2>7. Range(Append(old, e)) = Range(old) \cup {e}
    BY <2>5, <2>6, RangeAppend
  <2>8. ~Pending(x)' /\ \A y \in Sessions : GoesOn(y)
    BY <1>0, <2>3, <2>4 DEF LocalType, GoesOn, Pending
  <2>9. Old(e)'
    <3>1. next[x] \in Nat /\ e.session = x
      BY <1>0, <2>1 DEF PeerType
    <3>2. PICK i \in 1..Len(Offers[x]) : i = next[x] - 1 /\ e.service = Offers[x][i]
      BY <2>4 DEF Registers
    <3>3. i < next'[x] /\ ~Pending(e.session)'
      BY <2>3, <2>8, <3>1, <3>2 DEF Pending
    <3>. QED
      BY <3>1, <3>2, <3>3 DEF Old
  <2>10. ASSUME NEW d \in Entry, Held(d)' PROVE d = e \/ Held(d)
    <3>1. PICK a \in DOMAIN iters' : d \in Range(iters'[a])
      BY <2>10 DEF Held
    <3>2. CASE a = e.address
      <4>1. d \in Range(old) \cup {e}
        BY <2>3, <2>7, <3>1, <3>2
      <4>2. Range(old) = {old[i] : i \in 1..Len(old)}
        BY <2>6, RangeSeq
      <4>3. e.address \notin DOMAIN iters => d \notin Range(old)
        BY <2>2, <4>2
      <4>. QED
        BY <2>2, <4>1, <4>3 DEF Held
    <3>3. CASE a # e.address
      BY <2>3, <3>1, <3>3 DEF Held
    <3>. QED
      BY <3>2, <3>3
  <2>11. \A d \in Entry : d.session \in Sessions
    BY DEF Entry, Sessions
  <2>. QED
    BY <1>0, <2>8, <2>9, <2>10, <2>11, OldKept DEF FreshInv
<1>6. ASSUME NEW x \in Sessions,
             \/ Unregister(x) \/ EraseNext(x) \/ PublishLook(x) \/ PublishSend(x)
             \/ Discover(x) \/ Subscribe(x) \/ Respond(x)
      PROVE  FreshInv'
  <2>1. next' = next /\ toRegistry' = toRegistry /\ iters' = iters
    BY <1>6 DEF Unregister, EraseNext, PublishLook, PublishSend, Discover, Subscribe, Respond
  <2>2. PICK to \in {"publish", "erase", "end", "send", "respond", "recv"} :
          fiber' = [fiber EXCEPT ![x] = to]
    BY <1>6 DEF Unregister, EraseNext, PublishLook, PublishSend, AfterPublish, Discover,
                Subscribe, Respond
  <2>3. GoesOn(x) /\ \A y \in Sessions \ {x} : fiber'[y] = fiber[y]
    BY <1>0, <2>1, <2>2 DEF LocalType, GoesOn, Pending
  <2>. QED
    BY <1>b, <2>1, <2>3
<1>7. ASSUME NEW x \in Sessions, EraseAddress(x) PROVE FreshInv'
  <2>1. /\ next' = next /\ toRegistry' = toRegistry
        /\ iters' = Restrict(iters, DOMAIN iters \ {providerAddr[x]})
        /\ fiber' = [fiber EXCEPT ![x] = "end"]
    BY <1>7 DEF EraseAddress
  <2>2. \A e \in Entry : Held(e)' => Held(e)
    BY <2>1 DEF Held, Restrict
  <2>3. \A y \in Sessions : GoesOn(y)
    BY <1>0, <2>1 DEF LocalType, GoesOn, Pending
  <2>. QED
    BY <1>a, <2>2, <2>3
<1>8. CASE UNCHANGED <<next, toRegistry, fiber, iters>>
  BY <1>a, <1>8 DEF GoesOn, Pending, Held
<1>9. \/ \E x \in Sessions : Connect(x) \/ Ask(x) \/ FiberStep(x)
      \/ UNCHANGED <<next, toRegistry, fiber, iters>>
  BY DEF Next, vars, Clean, Leave
<1>. QED
  BY <1>1, <1>2, <1>3, <1>4, <1>5, <1>6, <1>7, <1>8, <1>9 DEF FiberStep

-----------------------------------------------------------------------------
(* The maps are in step *)

LEMMA InRange ==
    ASSUME NEW q \in Seq(Entry), NEW e, e \in Range(q)
    PROVE  \E i \in 1..Len(q) : q[i] = e
<1>1. Range(q) = {q[i] : i \in 1..Len(q)}
  BY RangeSeq
<1>. QED
  BY <1>1

LEMMA DistinctAddress ==
    ASSUME NEW q \in Seq(Entry), NEW a, Distinct(q, a), NEW e \in Range(q)
    PROVE  e.address = a
BY InRange DEF Distinct

LEMMA DistinctAppend ==
    ASSUME NEW q \in Seq(Entry), NEW e \in Entry, Distinct(q, e.address), e \notin Range(q)
    PROVE  Distinct(Append(q, e), e.address)
<1>1. /\ Len(Append(q, e)) = Len(q) + 1 /\ Len(q) \in Nat /\ Append(q, e)[Len(q) + 1] = e
      /\ \A i \in 1..Len(q) : Append(q, e)[i] = q[i]
  OBVIOUS
<1>2. Range(q) = {q[i] : i \in 1..Len(q)}
  BY RangeSeq
<1>3. \A i \in 1..Len(q) : q[i] # e
  BY <1>2
<1>4. \A i \in 1..Len(Append(q, e)) : i \in 1..Len(q) \/ i = Len(q) + 1
  BY <1>1
<1>. QED
  BY <1>1, <1>3, <1>4 DEF Distinct

LEMMA DistinctTail ==
    ASSUME NEW q \in Seq(Entry), q # <<>>, NEW a, Distinct(q, a)
    PROVE  /\ Distinct(Tail(q), a)
           /\ Head(q).address = a /\ Head(q) \notin Range(Tail(q))
<1>1. PICK t \in Seq(Entry) : t = Tail(q)
  BY HeadTail
<1>2. /\ Head(q) = q[1] /\ Len(q) \in Nat \ {0} /\ Len(t) = Len(q) - 1
      /\ \A i \in 1..Len(t) : t[i] = q[i + 1]
  BY <1>1, HeadTail
<1>3. \A i \in 1..Len(t) : i + 1 \in 1..Len(q) /\ i + 1 # 1
  BY <1>2
<1>4. 1 \in 1..Len(q)
  BY <1>2
<1>5. \A i \in 1..Len(t) : t[i].address = a /\ t[i] # Head(q)
  BY <1>2, <1>3, <1>4 DEF Distinct
<1>6. \A i, j \in 1..Len(t) : t[i] = t[j] => i = j
  <2>1. TAKE i, j \in 1..Len(t)
  <2>2. t[i] = t[j] => i + 1 = j + 1
    BY <1>2, <1>3 DEF Distinct
  <2>. QED
    BY <2>2
<1>7. Head(q) \notin Range(t)
  BY <1>5, InRange
<1>8. Head(q).address = a
  BY <1>2, <1>4 DEF Distinct
<1>. QED
  BY <1>1, <1>5, <1>6, <1>7, <1>8 DEF Distinct

LEMMA NoneInRange == \A e : e \notin Range(<<>>)
<1>1. <<>> \in Seq(Entry) /\ Len(<<>>) = 0
  OBVIOUS
<1>2. Range(<<>>) = {<<>>[i] : i \in 1..Len(<<>>)}
  BY <1>1, RangeSeq
<1>. QED
  BY <1>1, <1>2

LEMMA MapInit == Init => MapInv
<1> SUFFICES ASSUME Init PROVE MapInv
  OBVIOUS
<1>1. ListInv
  BY DEF Init, ListInv
<1>2. EraseInv
  BY SessionsAssumption DEF Init, EraseInv
<1>3. \A e \in Entry : ~Kept(e) /\ e \notin services
  BY DEF Init, Kept
<1>. QED
  BY <1>1, <1>2, <1>3 DEF MapInv

\* While m_mutex is free, the maps are in step.
LEMMA FreeMaps ==
    ASSUME TypeOK, LockInv, MapInv, mutex = None
    PROVE  /\ \A x \in Sessions : its[x] = <<>> /\ mutex # x
           /\ \A e \in Entry : e \in services <=>
                 e.address \in DOMAIN iters /\ e \in Range(iters[e.address])
<1>1. \A x \in Sessions : its[x] = <<>> /\ mutex # x
  BY SessionsAssumption DEF LockInv
<1>2. \A x \in Sessions : \A e : e \notin Range(its[x])
  BY <1>1, NoneInRange
<1>. QED
  BY <1>1, <1>2 DEF MapInv, Kept

\* While x holds it, x alone has elements to erase.
LEMMA HeldMaps ==
    ASSUME TypeOK, LockInv, MapInv, NEW x \in Sessions, mutex = x
    PROVE  /\ \A y \in Sessions \ {x} : its[y] = <<>> /\ mutex # y
           /\ \A e \in Entry : e \in services <=>
                 /\ e.address \in DOMAIN iters
                 /\ \/ e.address # providerAddr[x] /\ e \in Range(iters[e.address])
                    \/ e \in Range(its[x])
<1>1. \A y \in Sessions \ {x} : its[y] = <<>> /\ mutex # y
  BY DEF LockInv
<1>2. \A y \in Sessions \ {x} : \A e : e \notin Range(its[y])
  BY <1>1, NoneInRange
<1>3. \A e \in Entry : Kept(e) <=>
         /\ e.address \in DOMAIN iters
         /\ \/ e.address # providerAddr[x] /\ e \in Range(iters[e.address])
            \/ e \in Range(its[x])
  BY <1>1, <1>2 DEF Kept
<1>. QED
  BY <1>1, <1>3 DEF MapInv

LEMMA MapNext == IInv /\ [Next]_vars => MapInv'
<1> SUFFICES ASSUME IInv, [Next]_vars PROVE MapInv'
  OBVIOUS
<1> USE DEF peers, local, maps
<1>0. TypeOK /\ PeerType /\ LocalType /\ MapType /\ LockInv /\ MapInv
  BY DEF IInv, TypeOK
<1>a. ASSUME services' = services, iters' = iters, mutex' = mutex, its' = its,
             \A y \in Sessions : mutex = y => providerAddr'[y] = providerAddr[y]
      PROVE  MapInv'
  <2>1. ListInv'
    BY <1>0, <1>a DEF MapInv, ListInv
  <2>2. EraseInv'
    BY <1>0, <1>a DEF MapInv, EraseInv, LockInv
  <2>3. \A e \in Entry : Kept(e)' <=> Kept(e)
    BY <1>a DEF Kept
  <2>. QED
    BY <1>0, <1>a, <2>1, <2>2, <2>3 DEF MapInv
<1>1. ASSUME NEW x \in Sessions,
             \/ Connect(x) \/ Ask(x) \/ Leave(x) \/ End(x) \/ PublishLook(x) \/ PublishSend(x)
             \/ Discover(x) \/ Subscribe(x) \/ Respond(x)
      PROVE  MapInv'
  <2>1. UNCHANGED <<services, iters, mutex, its, providerAddr>>
    BY <1>1 DEF Connect, Ask, Leave, End, PublishLook, PublishSend, Discover, Subscribe, Respond
  <2>. QED
    BY <1>a, <2>1
<1>2. ASSUME NEW x \in Sessions, Receive(x) PROVE MapInv'
  <2>1. /\ fiber[x] = "recv" /\ UNCHANGED <<services, iters, mutex, its>>
        /\ \A y \in Sessions \ {x} : providerAddr'[y] = providerAddr[y]
    BY <1>0, <1>2 DEF Receive, LocalType
  <2>2. mutex # x
    BY <1>0, <2>1 DEF LockInv, Unregisters
  <2>. QED
    BY <1>a, <2>1, <2>2
<1>3. ASSUME NEW x \in Sessions, Register(x) PROVE MapInv'
  <2>1. PICK e : e = [service |-> message[x].service, address |-> providerAddr[x], session |-> x]
    OBVIOUS
  <2>2. PICK old : old = IF e.address \in DOMAIN iters THEN iters[e.address] ELSE <<>>
    OBVIOUS
  <2>3. /\ fiber[x] = "register" /\ mutex = None /\ services' = services \cup {e}
        /\ iters' = [a \in DOMAIN iters \cup {e.address} |->
                         IF a = e.address THEN Append(old, e) ELSE iters[a]]
        /\ UNCHANGED <<mutex, its, providerAddr>>
    BY <1>3, <2>1, <2>2 DEF Register
  <2>4. Registers(x, e.service)
    BY <2>1, <2>3 DEF IInv, FiberInv, Handled
  <2>5. e \in Entry
    BY <1>0, <2>1, <2>4, Offer, Place DEF Registers, PeerType, Entry
  <2>6. old \in Seq(Entry) /\ Distinct(old, e.address)
    BY <1>0, <2>2 DEF MapType, MapInv, ListInv, Distinct
  <2>7. e \notin Range(old)
    <3>1. ASSUME e \in Range(old) PROVE FALSE
      <4>1. e.address \in DOMAIN iters
        BY <2>2, <3>1, NoneInRange
      <4>2. Held(e)
        BY <2>2, <3>1, <4>1 DEF Held
      <4>3. Old(e) /\ e.session = x /\ Pending(x)
        BY <2>1, <2>3, <2>5, <4>2 DEF IInv, FreshInv, Pending
      <4>4. PICK i \in 1..Len(Offers[x]) : e.service = Offers[x][i] /\ i < next[x] - 1
        BY <4>3 DEF Old
      <4>5. next[x] - 1 \in 1..Len(Offers[x]) /\ e.service = Offers[x][next[x] - 1]
        BY <2>4 DEF Registers
      <4>6. x \in Providers
        BY <2>4 DEF Registers
      <4>7. i = next[x] - 1
        BY <4>4, <4>5, <4>6, Offer
      <4>8. next[x] - 1 \in Int
        BY <1>0 DEF PeerType
      <4>. QED
        BY <4>4, <4>7, <4>8
    <3>. QED
      BY <3>1
  <2>8. Distinct(Append(old, e), e.address) /\ Range(Append(old, e)) = Range(old) \cup {e}
    BY <2>5, <2>6, <2>7, DistinctAppend, RangeAppend
  <2>9. ListInv'
    BY <1>0, <2>3, <2>8 DEF MapInv, ListInv
  <2>10. \A y \in Sessions : its[y] = <<>> /\ mutex # y
    BY <1>0, <2>3, FreeMaps
  <2>11. EraseInv'
    BY <2>3, <2>10 DEF EraseInv
  <2>12. ASSUME NEW d \in Entry PROVE d \in services' <=> Kept(d)'
    <3>1. d \in services <=> d.address \in DOMAIN iters /\ d \in Range(iters[d.address])
      BY <1>0, <2>3, FreeMaps
    <3>2. \A y \in Sessions : mutex' # y /\ d \notin Range(its'[y])
      BY <2>3, <2>10, NoneInRange
    <3>3. Kept(d)' <=> d.address \in DOMAIN iters' /\ d \in Range(iters'[d.address])
      BY <3>2 DEF Kept
    <3>4. CASE d.address = e.address
      <4>1. Kept(d)' <=> d = e \/ d \in Range(old)
        BY <2>3, <2>8, <3>3, <3>4
      <4>2. d \in Range(old) <=> d.address \in DOMAIN iters /\ d \in Range(iters[d.address])
        BY <2>2, <3>4, NoneInRange
      <4>. QED
        BY <2>3, <3>1, <4>1, <4>2
    <3>5. CASE d.address # e.address
      BY <2>3, <3>1, <3>3, <3>5
    <3>. QED
      BY <3>4, <3>5
  <2>. QED
    BY <2>9, <2>11, <2>12 DEF MapInv
<1>4. ASSUME NEW x \in Sessions, Unregister(x) PROVE MapInv'
  <2>1. /\ mutex = None /\ UNCHANGED <<services, iters, providerAddr>>
        /\ \/ /\ providerAddr[x] \in DOMAIN iters /\ mutex' = x
              /\ its' = [its EXCEPT ![x] = iters[providerAddr[x]]]
           \/ mutex' = mutex /\ its' = its
    BY <1>4 DEF Unregister
  <2>2. CASE mutex' = mutex /\ its' = its
    BY <1>a, <2>1, <2>2
  <2>3. CASE /\ providerAddr[x] \in DOMAIN iters /\ mutex' = x
             /\ its' = [its EXCEPT ![x] = iters[providerAddr[x]]]
    <3>1. PICK s \in Seq(Entry) : s = iters[providerAddr[x]]
      BY <1>0, <2>3 DEF MapType
    <3>2. /\ its'[x] = s /\ \A y \in Sessions \ {x} : its'[y] = <<>>
          /\ \A y \in Sessions : mutex' = y <=> y = x
      BY <1>0, <2>1, <2>3, <3>1, FreeMaps DEF LocalType
    <3>3. Distinct(s, providerAddr[x])
      BY <1>0, <2>3, <3>1 DEF MapInv, ListInv
    <3>4. ListInv' /\ EraseInv'
      BY <1>0, <2>1, <2>3, <3>2, <3>3 DEF MapInv, ListInv, EraseInv
    <3>5. ASSUME NEW e \in Entry PROVE e \in services' <=> Kept(e)'
      <4>1. e \in services <=> e.address \in DOMAIN iters /\ e \in Range(iters[e.address])
        BY <1>0, <2>1, FreeMaps
      <4>2. Kept(e)' <=>
              /\ e.address \in DOMAIN iters
              /\ \/ e.address # providerAddr[x] /\ e \in Range(iters[e.address])
                 \/ e \in Range(s)
        BY <2>1, <3>2, NoneInRange DEF Kept
      <4>3. e \in Range(s) => e.address = providerAddr[x]
        BY <3>3, DistinctAddress
      <4>. QED
        BY <2>1, <2>3, <3>1, <4>1, <4>2, <4>3
    <3>. QED
      BY <3>4, <3>5 DEF MapInv
  <2>. QED
    BY <2>1, <2>2, <2>3
<1>5. ASSUME NEW x \in Sessions, EraseNext(x) PROVE MapInv'
  <2>1. /\ fiber[x] = "erase" /\ its[x] # <<>>
        /\ services' = services \ {Head(its[x])} /\ its' = [its EXCEPT ![x] = Tail(@)]
        /\ UNCHANGED <<iters, mutex, providerAddr>>
    BY <1>5 DEF EraseNext
  <2>2. mutex = x
    BY <1>0, <2>1 DEF LockInv
  <2>3. PICK s \in Seq(Entry) : s = its[x]
    BY <1>0 DEF LocalType
  <2>4. Distinct(s, providerAddr[x])
    BY <1>0, <2>1, <2>3 DEF MapInv, EraseInv
  <2>5. PICK t : t = Tail(s)
    OBVIOUS
  <2>6. PICK h : h = Head(s)
    OBVIOUS
  <2>7. /\ Distinct(t, providerAddr[x]) /\ h.address = providerAddr[x] /\ h \notin Range(t)
        /\ Range(s) = {h} \cup Range(t)
    BY <2>1, <2>3, <2>4, <2>5, <2>6, DistinctTail, RangeTail
  <2>8. /\ its'[x] = t /\ \A y \in Sessions \ {x} : its'[y] = <<>>
        /\ \A y \in Sessions : mutex' = y <=> y = x
    BY <1>0, <2>1, <2>2, <2>3, <2>5, HeldMaps DEF LocalType
  <2>9. ListInv' /\ EraseInv'
    BY <1>0, <2>1, <2>7, <2>8 DEF MapInv, ListInv, EraseInv
  <2>10. ASSUME NEW e \in Entry PROVE e \in services' <=> Kept(e)'
    <3>1. e \in services <=>
            /\ e.address \in DOMAIN iters
            /\ \/ e.address # providerAddr[x] /\ e \in Range(iters[e.address])
               \/ e \in Range(s)
      BY <1>0, <2>2, <2>3, HeldMaps
    <3>2. Kept(e)' <=>
            /\ e.address \in DOMAIN iters
            /\ \/ e.address # providerAddr[x] /\ e \in Range(iters[e.address])
               \/ e \in Range(t)
      BY <2>1, <2>8, NoneInRange DEF Kept
    <3>. QED
      BY <2>1, <2>3, <2>6, <2>7, <3>1, <3>2
  <2>. QED
    BY <2>9, <2>10 DEF MapInv
<1>6. ASSUME NEW x \in Sessions, EraseAddress(x) PROVE MapInv'
  <2>1. /\ fiber[x] = "erase" /\ its[x] = <<>> /\ mutex' = None
        /\ iters' = Restrict(iters, DOMAIN iters \ {providerAddr[x]})
        /\ UNCHANGED <<services, its, providerAddr>>
    BY <1>6 DEF EraseAddress
  <2>2. mutex = x
    BY <1>0, <2>1 DEF LockInv, Unregisters
  <2>3. \A y \in Sessions : its'[y] = <<>> /\ mutex' # y
    BY <1>0, <2>1, <2>2, HeldMaps, SessionsAssumption
  <2>4. /\ DOMAIN iters' = DOMAIN iters \ {providerAddr[x]}
        /\ \A a \in DOMAIN iters' : iters'[a] = iters[a]
    BY <2>1 DEF Restrict
  <2>5. ListInv' /\ EraseInv'
    BY <1>0, <2>3, <2>4 DEF MapInv, ListInv, EraseInv
  <2>6. ASSUME NEW e \in Entry PROVE e \in services' <=> Kept(e)'
    <3>1. e \in services <=>
            /\ e.address \in DOMAIN iters
            /\ e.address # providerAddr[x] /\ e \in Range(iters[e.address])
      BY <1>0, <2>1, <2>2, HeldMaps, NoneInRange
    <3>2. Kept(e)' <=> e.address \in DOMAIN iters' /\ e \in Range(iters'[e.address])
      BY <2>3, NoneInRange DEF Kept
    <3>. QED
      BY <2>1, <2>4, <3>1, <3>2
  <2>. QED
    BY <2>5, <2>6 DEF MapInv
<1>7. CASE UNCHANGED <<services, iters, mutex, its, providerAddr>>
  BY <1>a, <1>7
<1>8. \/ \E x \in Sessions : Connect(x) \/ Ask(x) \/ Leave(x) \/ FiberStep(x)
      \/ UNCHANGED <<services, iters, mutex, its, providerAddr>>
  BY DEF Next, vars, Clean
<1>. QED
  BY <1>1, <1>2, <1>3, <1>4, <1>5, <1>6, <1>7, <1>8 DEF FiberStep

-----------------------------------------------------------------------------
(* Theorems *)

\* The strengthening that the theorems rest on: requests come one by one and once, a
\* fiber between its two erasures holds m_mutex, and the maps agree but for what that
\* fiber has still to erase (rpc_service_register.cc:71-117, 150-212).
THEOREM InductiveInvariant == Spec => []IInv
<1>1. Init => IInv
  BY TypeInit, PeerInit, LockInit, FreshInit, MapInit DEF IInv
<1>2. IInv /\ [Next]_vars => IInv'
  BY TypeNext, PeerNext, LockNext, FreshNext, MapNext DEF IInv
<1>. QED
  BY <1>1, <1>2, PTL DEF Spec

\* The state of the registry has its types: what a session is sent to do always has a
\* service and an address of the configuration.
THEOREM TypeCorrect == Spec => []TypeOK
<1>1. IInv => TypeOK
  BY DEF IInv
<1>. QED
  BY <1>1, InductiveInvariant, PTL

\* Whatever servers register, crash and come back, m_services and m_iters have the same
\* elements whenever m_mutex is free, and handleUnregisterService() erases only what is
\* there (rpc_service_register.cc:165-168, 189-203).
THEOREM MapsAlwaysInStep == Spec => []MapsInStep
<1>1. IInv => MapsInStep
  <2> SUFFICES ASSUME IInv PROVE MapsInStep
    OBVIOUS
  <2>0. TypeOK /\ LocalType /\ MapType /\ LockInv /\ MapInv
    BY DEF IInv, TypeOK
  <2>1. ASSUME mutex = None
        PROVE  /\ services = UNION {Range(iters[a]) : a \in DOMAIN iters}
               /\ \A a \in DOMAIN iters : \A e \in Range(iters[a]) : e.address = a
    <3>1. \A a \in DOMAIN iters : \A e \in Range(iters[a]) : e \in Entry /\ e.address = a
      <4>1. TAKE a \in DOMAIN iters
      <4>2. iters[a] \in Seq(Entry) /\ Distinct(iters[a], a)
        BY <2>0 DEF MapType, MapInv, ListInv
      <4>3. PICK s \in Seq(Entry) : s = iters[a]
        BY <4>2
      <4>4. \A e \in Range(s) : e \in Entry
        BY InRange
      <4>. QED
        BY <4>2, <4>3, <4>4, DistinctAddress
    <3>2. \A e \in Entry : e \in services <=>
             e.address \in DOMAIN iters /\ e \in Range(iters[e.address])
      BY <2>0, <2>1, FreeMaps
    <3>3. services \subseteq Entry
      BY <2>0 DEF MapType
    <3>. QED
      BY <3>1, <3>2, <3>3
  <2>2. ASSUME NEW x \in Sessions, NEW e \in Range(its[x]) PROVE e \in services
    <3>1. PICK s \in Seq(Entry) : s = its[x]
      BY <2>0 DEF LocalType
    <3>2. e \in Entry /\ its[x] # <<>>
      BY <2>2, <3>1, InRange, NoneInRange
    <3>3. mutex = x
      BY <2>0, <3>2 DEF LockInv
    <3>4. e.address = providerAddr[x] /\ providerAddr[x] \in DOMAIN iters
      BY <2>0, <2>2, <3>1, <3>2, <3>3, DistinctAddress DEF MapInv, EraseInv
    <3>. QED
      BY <2>0, <2>2, <3>2, <3>3, <3>4, HeldMaps
  <2>. QED
    BY <2>1, <2>2 DEF MapsInStep
<1>. QED
  BY <1>1, InductiveInvariant, PTL

-----------------------------------------------------------------------------
(* The registry is a directory *)

LEMMA FreeDirectory ==
    ASSUME TypeOK, LockInv, mutex = None
    PROVE  Directory = services
<1>1. \A x \in Sessions : its[x] = <<>>
  BY SessionsAssumption DEF LockInv
<1>. QED
  BY <1>1, NoneInRange DEF Directory

\* What a step of x does to the answers: nothing, unless it is one that x is sent.
LEMMA AnswersKept ==
    ASSUME NEW x \in Sessions, \A y \in Sessions \ {x} : message'[y] = message[y],
           \/ message'[x] = message[x] \/ x \notin Consumers
           \/ message'[x].type # "discovered" /\ message[x].type # "discovered"
    PROVE  Answers' = Answers
BY DEF Answers, Sessions

\* An element that is erased was not in the directory any more.
LEMMA EraseKeeps ==
    ASSUME TypeOK, LockInv, MapInv, NEW x \in Sessions, EraseNext(x)
    PROVE  Directory' = Directory
<1>0. LocalType
  BY DEF TypeOK
<1>1. /\ fiber[x] = "erase" /\ its[x] # <<>> /\ mutex' = mutex
      /\ services' = services \ {Head(its[x])} /\ its' = [its EXCEPT ![x] = Tail(@)]
  BY DEF EraseNext
<1>2. mutex = x
  BY <1>0, <1>1 DEF LockInv
<1>3. PICK s \in Seq(Entry) : s = its[x]
  BY <1>0 DEF LocalType
<1>4. PICK t : t = Tail(s)
  OBVIOUS
<1>5. PICK h : h = Head(s)
  OBVIOUS
<1>6. Range(s) = {h} \cup Range(t)
  BY <1>1, <1>3, <1>4, <1>5, RangeTail
<1>7. \A y \in Sessions \ {x} : its[y] = <<>> /\ its'[y] = <<>>
  BY <1>0, <1>1, <1>2, HeldMaps DEF LocalType
<1>8. its'[x] = t
  BY <1>0, <1>1, <1>3, <1>4 DEF LocalType
<1>9. Directory = services \ Range(s) /\ Directory' = services' \ Range(t)
  BY <1>3, <1>7, <1>8, NoneInRange DEF Directory
<1>. QED
  BY <1>1, <1>3, <1>5, <1>6, <1>9

LEMMA StepSimulated == IInv /\ [Next]_vars => [Abstract!Next]_<<Directory, Answers>>
<1> SUFFICES ASSUME IInv, [Next]_vars PROVE [Abstract!Next]_<<Directory, Answers>>
  OBVIOUS
<1> USE DEF peers, local, maps
<1>0. TypeOK /\ PeerType /\ LocalType /\ MapType /\ LockInv /\ MapInv
  BY DEF IInv, TypeOK
<1>a. \A x \in Sessions : Requested(x) /\ Handled(x) /\ Placed(x)
  BY DEF IInv, RequestInv, FiberInv, PlaceInv
<1>1. ASSUME NEW x \in Sessions,
             \/ Connect(x) \/ Ask(x) \/ Leave(x) \/ End(x) \/ PublishLook(x) \/ PublishSend(x)
      PROVE  UNCHANGED <<Directory, Answers>>
  <2>1. UNCHANGED <<services, its, message>>
    BY <1>1 DEF Connect, Ask, Leave, End, PublishLook, PublishSend
  <2>. QED
    BY <2>1 DEF Directory, Answers
<1>2. ASSUME NEW x \in Sessions, Receive(x) PROVE UNCHANGED <<Directory, Answers>>
  <2>1. PICK m : m = Head(toRegistry[x])
    OBVIOUS
  <2>2. /\ fiber[x] = "recv" /\ toRegistry[x] # <<>> /\ message' = [message EXCEPT ![x] = m]
        /\ UNCHANGED <<services, its>>
    BY <1>2, <2>1 DEF Receive
  <2>3. toRegistry[x] \in Seq(Protocol) /\ m = toRegistry[x][1]
    BY <1>0, <2>1, <2>2, HeadTail DEF PeerType
  <2>4. m.type # "discovered" /\ message[x].type # "discovered"
    BY <1>a, <2>2, <2>3 DEF Requested, Handled
  <2>5. message'[x] = m /\ \A y \in Sessions \ {x} : message'[y] = message[y]
    BY <1>0, <2>2 DEF LocalType
  <2>6. Answers' = Answers
    BY <2>4, <2>5, AnswersKept
  <2>. QED
    BY <2>2, <2>6 DEF Directory
<1>3. ASSUME NEW x \in Sessions, Register(x) PROVE Abstract!Next
  <2>1. PICK e : e = [service |-> message[x].service, address |-> providerAddr[x], session |-> x]
    OBVIOUS
  <2>2. /\ fiber[x] = "register" /\ mutex = None /\ services' = services \cup {e}
        /\ its' = its
    BY <1>3, <2>1 DEF Register
  <2>3. Registers(x, e.service)
    BY <1>a, <2>1, <2>2 DEF Handled
  <2>4. e \in Entry
    BY <1>0, <2>1, <2>3, Offer, Place DEF Registers, PeerType, Entry
  <2>5. \A y \in Sessions \ {x} : message'[y] = message[y]
    BY <1>0, <1>3 DEF Register, LocalType
  <2>6. Answers' = Answers
    BY <2>3, <2>5, AnswersKept, Disjoint DEF Registers
  <2>7. Directory = services /\ Directory' = services'
    <3>1. \A y \in Sessions : its[y] = <<>> /\ its'[y] = <<>>
      BY <1>0, <2>2, FreeMaps
    <3>. QED
      BY <3>1, NoneInRange DEF Directory
  <2>8. Abstract!Add(e)
    BY <2>2, <2>6, <2>7 DEF Abstract!Add
  <2>. QED
    BY <2>4, <2>8 DEF Abstract!Next, Entry
<1>4. ASSUME NEW x \in Sessions, Unregister(x) PROVE [Abstract!Next]_<<Directory, Answers>>
  <2>1. /\ mutex = None /\ UNCHANGED <<services, message>>
        /\ \/ /\ providerAddr[x] \in DOMAIN iters /\ mutex' = x
              /\ its' = [its EXCEPT ![x] = iters[providerAddr[x]]]
           \/ its' = its
    BY <1>4 DEF Unregister
  <2>2. Answers' = Answers
    BY <2>1 DEF Answers
  <2>3. CASE its' = its
    BY <2>1, <2>2, <2>3 DEF Directory
  <2>4. CASE /\ providerAddr[x] \in DOMAIN iters /\ mutex' = x
             /\ its' = [its EXCEPT ![x] = iters[providerAddr[x]]]
    <3>1. PICK s \in Seq(Entry) : s = iters[providerAddr[x]]
      BY <1>0, <2>4 DEF MapType
    <3>2. its'[x] = s /\ \A y \in Sessions \ {x} : its'[y] = <<>>
      BY <1>0, <2>1, <2>4, <3>1, FreeMaps DEF LocalType
    <3>3. Directory = services
      BY <1>0, <2>1, FreeDirectory
    <3>4. Directory' = services' \ Range(its'[x])
      BY <3>2, NoneInRange DEF Directory
    <3>5. \A e \in services : e \in Range(s) <=> e.address = providerAddr[x]
      <4>1. TAKE e \in services
      <4>2. e \in Entry /\ e.address \in DOMAIN iters /\ e \in Range(iters[e.address])
        BY <1>0, <2>1, FreeMaps DEF MapType
      <4>3. Distinct(s, providerAddr[x])
        BY <1>0, <2>4, <3>1 DEF MapInv, ListInv
      <4>4. e \in Range(s) => e.address = providerAddr[x]
        BY <4>3, DistinctAddress
      <4>. QED
        BY <3>1, <4>2, <4>4
    <3>6. Directory' = {e \in Directory : e.address # providerAddr[x]}
      BY <2>1, <3>2, <3>3, <3>4, <3>5
    <3>7. CASE \A e \in services : e.address # providerAddr[x]
      BY <2>2, <3>3, <3>6, <3>7
    <3>8. CASE \E e \in services : e.address = providerAddr[x]
      <4>1. PICK e \in services : e.address = providerAddr[x]
        BY <3>8
      <4>2. e \in Entry
        BY <1>0 DEF MapType
      <4>3. Abstract!RemoveAddress(e.address)
        BY <2>2, <3>6, <4>1 DEF Abstract!RemoveAddress
      <4>. QED
        BY <4>2, <4>3 DEF Abstract!Next, Entry
    <3>. QED
      BY <3>7, <3>8
  <2>. QED
    BY <2>1, <2>3, <2>4
<1>5. ASSUME NEW x \in Sessions, EraseNext(x) PROVE UNCHANGED <<Directory, Answers>>
  <2>1. Directory' = Directory
    BY <1>0, <1>5, EraseKeeps
  <2>2. fiber[x] = "erase"
    BY <1>5 DEF EraseNext
  <2>3. x \in Providers
    BY <1>a, <2>2 DEF Handled, Placed
  <2>4. \A y \in Sessions \ {x} : message'[y] = message[y]
    BY <1>0, <1>5 DEF EraseNext, LocalType
  <2>5. Answers' = Answers
    BY <2>3, <2>4, AnswersKept, Disjoint
  <2>. QED
    BY <2>1, <2>5
<1>6. ASSUME NEW x \in Sessions, EraseAddress(x) PROVE UNCHANGED <<Directory, Answers>>
  <2>1. UNCHANGED <<services, its, message>>
    BY <1>6 DEF EraseAddress
  <2>. QED
    BY <2>1 DEF Directory, Answers
<1>7. ASSUME NEW x \in Sessions, Discover(x) PROVE Abstract!Next
  <2>1. PICK n : n = message[x].service
    OBVIOUS
  <2>2. /\ fiber[x] = "discover" /\ mutex = None
        /\ message' = [message EXCEPT ![x].type = "discovered", ![x].addresses = Offering(n)]
        /\ UNCHANGED <<services, its>>
    BY <1>7, <2>1 DEF Discover
  <2>3. x \in Consumers /\ n \in Asked
    BY <1>a, <2>1, <2>2 DEF Handled
  <2>4. Directory = services /\ Directory' = Directory
    BY <1>0, <2>2, FreeDirectory DEF Directory
  <2>5. Abstract!Offering(n) = Offering(n)
    BY <2>4 DEF Abstract!Offering, Offering
  <2>6. /\ message'[x].type = "discovered" /\ message'[x].addresses = Offering(n)
        /\ \A y \in Sessions \ {x} : message'[y] = message[y]
    BY <1>0, <2>2 DEF LocalType, Protocol
  <2>7. Answers' = [Answers EXCEPT ![x] = Offering(n)]
    BY <2>3, <2>6 DEF Answers, Sessions
  <2>8. Abstract!Answer(x, n)
    BY <2>4, <2>5, <2>7 DEF Abstract!Answer
  <2>. QED
    BY <2>3, <2>8 DEF Abstract!Next
<1>8. ASSUME NEW x \in Sessions, Subscribe(x) PROVE UNCHANGED <<Directory, Answers>>
  <2>1. /\ fiber[x] = "subscribe" /\ message' = [message EXCEPT ![x].type = "subscribed"]
        /\ UNCHANGED <<services, its>>
    BY <1>8 DEF Subscribe
  <2>2. message[x].type = "subscribe"
    BY <1>a, <2>1 DEF Handled
  <2>3. message'[x].type = "subscribed" /\ \A y \in Sessions \ {x} : message'[y] = message[y]
    BY <1>0, <2>1 DEF LocalType, Protocol
  <2>4. Answers' = Answers
    BY <2>2, <2>3, AnswersKept
  <2>. QED
    BY <2>1, <2>4 DEF Directory
<1>9. ASSUME NEW x \in Sessions, Respond(x) PROVE [Abstract!Next]_<<Directory, Answers>>
  <2>1. message' = [message EXCEPT ![x] = Message("none", None)] /\ UNCHANGED <<services, its>>
    BY <1>9 DEF Respond
  <2>2. Directory' = Directory
    BY <2>1 DEF Directory
  <2>3. /\ message'[x].type = "none"
        /\ \A y \in Sessions \ {x} : message'[y] = message[y]
    BY <1>0, <2>1 DEF LocalType, Message
  <2>4. CASE x \in Consumers
    <3>1. Answers' = [Answers EXCEPT ![x] = None]
      BY <2>3, <2>4 DEF Answers, Sessions
    <3>2. Abstract!Deliver(x)
      BY <2>2, <3>1 DEF Abstract!Deliver
    <3>. QED
      BY <2>4, <3>2 DEF Abstract!Next
  <2>5. CASE x \notin Consumers
    <3>1. Answers' = Answers
      BY <2>3, <2>5, AnswersKept
    <3>. QED
      BY <2>2, <3>1
  <2>. QED
    BY <2>4, <2>5
<1>10. CASE UNCHANGED <<services, its, message>>
  BY <1>10 DEF Directory, Answers
<1>11. \/ \E x \in Sessions : Connect(x) \/ Ask(x) \/ Leave(x) \/ FiberStep(x)
       \/ UNCHANGED <<services, its, message>>
  BY DEF Next, vars, Clean
<1>. QED
  BY <1>1, <1>2, <1>3, <1>4, <1>5, <1>6, <1>7, <1>8, <1>9, <1>10, <1>11 DEF FiberStep

\* The registry implements the directory: an address goes with everything it offers at
\* once, although it is erased key by key with publications between, and every answer is
\* the directory of one moment (rpc_service_register.cc:187-204, 206-249).
THEOREM RegistryImplemented == Spec => ImplementsRegistry
<1>1. Init => Abstract!Init
  BY DEF Init, Abstract!Init, Directory, Answers, Message, Sessions
<1>. QED
  BY <1>1, InductiveInvariant, StepSimulated, PTL DEF Spec, ImplementsRegistry, Abstract!Spec
-----------------------------------------------------------------------------
(* What the clients hear *)

SentType == sent \in [Sessions -> Seq(Protocol)]

\* What is sent depends on the connection, and what a quit is about on the fiber.
Linked(x) ==
    /\ connection[x] = "none" => sent[x] = <<>>
    /\ fiber[x] \in {"unregister", "end"} \/ Unregisters(x) => connection[x] = "gone"
    /\ fiber[x] \in {"publish", "send"} /\ message[x].type = "quit" =>
          message[x].addresses = {providerAddr[x]}

LinkInv == \A x \in Sessions : Linked(x)

\* Who has been told that it is a subscriber, or is about to be, is one.
Subscribed(c) ==
    /\ \A i \in 1..Len(sent[c]) :
          sent[c][i].type = "subscribed" => <<sent[c][i].service, c>> \in subscribes
    /\ message[c].type = "subscribed" => <<message[c].service, c>> \in subscribes

SubscribeInv == \A c \in Consumers : connection[c] = "open" => Subscribed(c)

\* A fiber is about to publish that e has come.
Joining(e) ==
    /\ fiber[e.session] \in {"publish", "send"}
    /\ message[e.session].type = "join" /\ Says(message[e.session], e)

\* c knows of e or will: it follows the service of e, or the answer that makes it do
\* so is computed and not sent.
Told(c, e) ==
    /\ Follows(c, e.service) => Sees(c, e) \/ Joining(e)
    /\ message[c].type = "discovered" /\ message[c].service = e.service
         /\ <<e.service, c>> \in subscribes =>
              Sees(c, e) \/ Joining(e) \/ e.address \in message[c].addresses

ToldInv == \A c \in Consumers : \A e \in Directory : connection[c] = "open" => Told(c, e)

HearInv == SentType /\ LinkInv /\ SubscribeInv /\ ToldInv

LEMMA MessageFields ==
    ASSUME NEW m \in Protocol
    PROVE  /\ m.type \in {"none", "provider", "register", "discover", "subscribe", "join", "quit",
                          "discovered", "subscribed", "registered"}
           /\ m.service \in Offered \cup Asked \cup {None} /\ m.addresses \in SUBSET Addresses
BY DEF Protocol

LEMMA SeqAppend ==
    ASSUME NEW S, NEW q \in Seq(S), NEW m \in S
    PROVE  /\ Append(q, m) \in Seq(S) /\ Len(q) \in Nat /\ Len(Append(q, m)) = Len(q) + 1
           /\ DOMAIN q = 1..Len(q) /\ DOMAIN Append(q, m) = 1..(Len(q) + 1)
           /\ \A i \in 1..Len(q) : Append(q, m)[i] = q[i]
           /\ Append(q, m)[Len(q) + 1] = m
OBVIOUS

\* What another message makes of what c knows.
LEMMA Hears ==
    ASSUME NEW c \in Consumers, NEW e, NEW q \in Seq(Protocol), NEW m \in Protocol,
           sent[c] = q, sent'[c] = Append(q, m)
    PROVE  /\ m.type # "quit" /\ Says(m, e) => Sees(c, e)'
           /\ Sees(c, e) /\ ~(m.type = "quit" /\ Says(m, e)) => Sees(c, e)'
           /\ Follows(c, e.service)' =>
                 \/ Follows(c, e.service)
                 \/ /\ m.type = "discovered" /\ m.service = e.service
                    /\ \E i \in 1..Len(q) : q[i].type = "subscribed" /\ q[i].service = e.service
<1>1. PICK n \in Nat : n = Len(q)
  BY SeqAppend
<1>2. PICK r : r = Append(q, m)
  OBVIOUS
<1>3. /\ DOMAIN q = 1..n /\ DOMAIN r = 1..(n + 1)
      /\ r[n + 1] = m /\ \A i \in 1..n : r[i] = q[i]
  BY <1>1, <1>2, SeqAppend
<1>4. sent'[c] = r
  BY <1>2
<1>5. ASSUME m.type # "quit", Says(m, e) PROVE Sees(c, e)'
  <2>1. n + 1 \in 1..(n + 1) /\ Says(r[n + 1], e) /\ r[n + 1].type # "quit"
    BY <1>3, <1>5
  <2>2. \A j \in 1..(n + 1) : Says(r[j], e) /\ r[j].type = "quit" => j < n + 1
    BY <1>3, <1>5
  <2>. QED
    BY <1>3, <1>4, <2>1, <2>2 DEF Sees, Says
<1>6. ASSUME Sees(c, e), ~(m.type = "quit" /\ Says(m, e)) PROVE Sees(c, e)'
  <2>1. PICK i \in 1..n :
           /\ Says(q[i], e) /\ q[i].type # "quit"
           /\ \A j \in 1..n : Says(q[j], e) /\ q[j].type = "quit" => j < i
    BY <1>3, <1>6 DEF Sees
  <2>2. i \in 1..(n + 1) /\ Says(r[i], e) /\ r[i].type # "quit"
    BY <1>3, <2>1
  <2>3. \A j \in 1..(n + 1) : Says(r[j], e) /\ r[j].type = "quit" => j < i
    <3>1. TAKE j \in 1..(n + 1)
    <3>2. j \in 1..n \/ j = n + 1
      BY <1>1
    <3>. QED
      BY <1>3, <1>6, <2>1, <3>2
  <2>. QED
    BY <1>3, <1>4, <2>2, <2>3 DEF Sees, Says
<1>7. ASSUME Follows(c, e.service)'
      PROVE  \/ Follows(c, e.service)
             \/ /\ m.type = "discovered" /\ m.service = e.service
                /\ \E i \in 1..Len(q) : q[i].type = "subscribed" /\ q[i].service = e.service
  <2>1. PICK i \in 1..(n + 1), j \in 1..(n + 1) :
           /\ i < j /\ r[i].service = e.service /\ r[j].service = e.service
           /\ r[i].type = "subscribed" /\ r[j].type = "discovered"
    BY <1>3, <1>4, <1>7 DEF Follows
  <2>2. i \in 1..n /\ r[i] = q[i]
    BY <1>3, <2>1
  <2>3. CASE j = n + 1
    BY <1>1, <1>3, <2>1, <2>2, <2>3
  <2>4. CASE j \in 1..n
    BY <1>3, <2>1, <2>2, <2>4 DEF Follows
  <2>. QED
    BY <2>3, <2>4
<1>. QED
  BY <1>5, <1>6, <1>7

\* A session that is sent nothing knows what it knew.
LEMMA HearsNothing ==
    ASSUME NEW c \in Consumers, NEW e, sent'[c] = sent[c]
    PROVE  Sees(c, e)' = Sees(c, e) /\ Follows(c, e.service)' = Follows(c, e.service)
BY DEF Sees, Follows, Says

LEMMA ToldKept ==
    ASSUME NEW c \in Consumers, NEW e, Told(c, e), sent'[c] = sent[c],
           Joining(e) => Joining(e)',
           \/ message'[c].type # "discovered"
           \/ /\ message'[c] = message[c]
              /\ <<e.service, c>> \in subscribes' => <<e.service, c>> \in subscribes
    PROVE  Told(c, e)'
<1>1. Sees(c, e)' = Sees(c, e) /\ Follows(c, e.service)' = Follows(c, e.service)
  BY HearsNothing
<1>2. Follows(c, e.service)' => Sees(c, e)' \/ Joining(e)'
  BY <1>1 DEF Told
<1>3. ASSUME message'[c] = message[c],
             <<e.service, c>> \in subscribes' => <<e.service, c>> \in subscribes,
             message'[c].type = "discovered", message'[c].service = e.service,
             <<e.service, c>> \in subscribes'
      PROVE  Sees(c, e)' \/ Joining(e)' \/ e.address \in message'[c].addresses
  BY <1>1, <1>3 DEF Told
<1>. QED
  BY <1>2, <1>3 DEF Told

LEMMA JoiningKept ==
    ASSUME NEW e, fiber'[e.session] = fiber[e.session], message'[e.session] = message[e.session]
    PROVE  Joining(e)' = Joining(e)
BY DEF Joining, Says

\* What has been erased for good is no more in the directory than before.
LEMMA DirectoryShrinks ==
    ASSUME IInv, NEW x \in Sessions, Unregister(x) \/ EraseNext(x)
    PROVE  Directory' \subseteq Directory
<1>0. TypeOK /\ LocalType /\ MapType /\ LockInv /\ MapInv
  BY DEF IInv, TypeOK
<1>1. CASE Unregister(x)
  <2>1. mutex = None /\ services' = services
    BY <1>1 DEF Unregister
  <2>2. Directory = services
    BY <1>0, <2>1, FreeDirectory
  <2>. QED
    BY <2>1, <2>2 DEF Directory
<1>2. CASE EraseNext(x)
  BY <1>0, <1>2, EraseKeeps
<1>. QED
  BY <1>1, <1>2

\* While x publishes a quit, what the registry offers is at other addresses.
LEMMA QuitElsewhere ==
    ASSUME IInv, NEW x \in Sessions, mutex = x, NEW e \in Directory
    PROVE  e.address # providerAddr[x]
<1>0. TypeOK /\ LocalType /\ MapType /\ LockInv /\ MapInv
  BY DEF IInv, TypeOK
<1>1. e \in services /\ e \in Entry /\ e \notin Range(its[x])
  BY <1>0 DEF Directory, MapType
<1>. QED
  BY <1>0, <1>1, HeldMaps

LEMMA HearInit == Init => HearInv
<1> SUFFICES ASSUME Init PROVE HearInv
  OBVIOUS
<1>1. SentType /\ LinkInv
  BY DEF Init, SentType, LinkInv, Linked, Unregisters
<1>2. \A c \in Consumers : connection[c] # "open"
  BY DEF Init, Sessions
<1>. QED
  BY <1>1, <1>2 DEF HearInv, SubscribeInv, ToldInv

\* What a session is sent, step by step: nothing, a publication or an answer.
LEMMA SentStep ==
    ASSUME TypeOK, SentType, NEW x \in Sessions, Next
    PROVE  \/ sent'[x] = sent[x]
           \/ sent'[x] = <<>> /\ connection'[x] = "gone"
           \/ connection[x] = "open" /\ \E m \in Protocol : sent'[x] = Append(sent[x], m)
<1> USE DEF peers, local, maps
<1>0. message \in [Sessions -> Protocol] /\ connection \in [Sessions -> {"none", "open", "gone"}]
      /\ sent \in [Sessions -> Seq(Protocol)]
  BY DEF TypeOK, LocalType, PeerType, SentType
<1>1. ASSUME NEW y \in Sessions, Leave(y)
      PROVE  sent'[x] = sent[x] \/ (sent'[x] = <<>> /\ connection'[x] = "gone")
  BY <1>0, <1>1 DEF Leave
<1>2. ASSUME NEW y \in Sessions, PublishSend(y)
      PROVE  \/ sent'[x] = sent[x]
             \/ connection[x] = "open" /\ \E m \in Protocol : sent'[x] = Append(sent[x], m)
  BY <1>0, <1>2 DEF PublishSend, Send
<1>3. ASSUME NEW y \in Sessions, Respond(y)
      PROVE  \/ sent'[x] = sent[x]
             \/ connection[x] = "open" /\ \E m \in Protocol : sent'[x] = Append(sent[x], m)
  <2>1. PICK t : t = IF message[y].type = "join" THEN "registered" ELSE message[y].type
    OBVIOUS
  <2>2. PICK m : m = [message[y] EXCEPT !.type = t]
    OBVIOUS
  <2>3. m \in Protocol
    BY <1>0, <2>1, <2>2 DEF Protocol
  <2>4. m = [message[y] EXCEPT !.type = IF @ = "join" THEN "registered" ELSE @]
    BY <1>0, <2>1, <2>2 DEF Protocol
  <2>5. sent' = [sent EXCEPT ![y] = Send(y, m)]
    BY <1>3, <2>4 DEF Respond
  <2>. QED
    BY <1>0, <2>3, <2>5 DEF Send
<1>4. ASSUME NEW y \in Sessions,
             \/ Connect(y) \/ Ask(y) \/ Receive(y) \/ End(y) \/ Register(y) \/ Unregister(y)
             \/ EraseNext(y) \/ EraseAddress(y) \/ PublishLook(y) \/ Discover(y) \/ Subscribe(y)
      PROVE  sent' = sent
  BY <1>4 DEF Connect, Ask, Receive, End, Register, Unregister, EraseNext, EraseAddress,
              PublishLook, Discover, Subscribe
<1>5. CASE Clean
  BY <1>5 DEF Clean
<1>. QED
  BY <1>1, <1>2, <1>3, <1>4, <1>5 DEF Next, FiberStep

LEMMA SentNext == TypeOK /\ SentType /\ [Next]_vars => SentType'
<1> SUFFICES ASSUME TypeOK, SentType, [Next]_vars PROVE SentType'
  OBVIOUS
<1>1. CASE UNCHANGED vars
  BY <1>1 DEF vars, SentType
<1>2. CASE Next
  <2>1. sent \in [Sessions -> Seq(Protocol)]
    BY DEF SentType
  <2>2. \A x \in Sessions : sent'[x] \in Seq(Protocol)
    <3>1. TAKE x \in Sessions
    <3>2. sent[x] \in Seq(Protocol) /\ <<>> \in Seq(Protocol)
      BY <2>1
    <3>3. \A m \in Protocol : Append(sent[x], m) \in Seq(Protocol)
      BY <3>2, SeqAppend
    <3>. QED
      BY <1>2, <3>2, <3>3, SentStep
  <2>3. sent' = [x \in Sessions |-> sent'[x]]
    BY <1>2, <2>1 DEF Next, FiberStep, Connect, Ask, Leave, Receive, End, Register, Unregister,
       EraseNext, EraseAddress, PublishLook, PublishSend, Discover, Subscribe, Respond, Clean
  <2>. QED
    BY <2>2, <2>3 DEF SentType
<1>. QED
  BY <1>1, <1>2

LEMMA LinkNext == IInv /\ SentType /\ LinkInv /\ [Next]_vars => LinkInv'
<1> SUFFICES ASSUME IInv, SentType, LinkInv, [Next]_vars, NEW x \in Sessions PROVE Linked(x)'
  BY DEF LinkInv
<1> USE DEF peers, local, maps
<1>0. TypeOK /\ Linked(x) /\ Placed(x) /\ Handled(x)
  BY DEF IInv, LinkInv, PlaceInv, FiberInv
<1>a. /\ connection \in [Sessions -> {"none", "open", "gone"}] /\ message \in [Sessions -> Protocol]
      /\ fiber \in [Sessions -> {"none", "recv", "register", "discover", "subscribe", "publish",
                               "send", "respond", "unregister", "erase", "end"}]
  BY <1>0 DEF TypeOK, PeerType, LocalType
<1>1. CASE UNCHANGED vars
  BY <1>0, <1>1 DEF vars, Linked, Unregisters
<1>2. CASE Next
  <2> DEFINE P == /\ connection'[x] = "none" => connection[x] = "none"
                  /\ fiber'[x] \in {"unregister", "end"} \/ Unregisters(x)' =>
                        connection'[x] = "gone"
                  /\ fiber'[x] \in {"publish", "send"} /\ message'[x].type = "quit" =>
                        message'[x].addresses = {providerAddr'[x]}
  <2>1. ASSUME NEW y \in Sessions, Connect(y) PROVE P
    BY <1>0, <1>a, <2>1 DEF Connect, Linked, Placed, Handled, Unregisters
  <2>2. ASSUME NEW y \in Sessions, Ask(y) PROVE P
    BY <1>0, <1>a, <2>2 DEF Ask, Linked, Placed, Handled, Unregisters
  <2>3. ASSUME NEW y \in Sessions, Leave(y) PROVE P
    BY <1>0, <1>a, <2>3 DEF Leave, Linked, Placed, Handled, Unregisters
  <2>4. ASSUME NEW y \in Sessions, Receive(y) PROVE P
    BY <1>0, <1>a, <2>4 DEF Receive, Linked, Placed, Handled, Unregisters, Handler
  <2>5. ASSUME NEW y \in Sessions, End(y) PROVE P
    BY <1>0, <1>a, <2>5 DEF End, Linked, Placed, Handled, Unregisters
  <2>6. ASSUME NEW y \in Sessions, Register(y) PROVE P
    BY <1>0, <1>a, <2>6 DEF Register, Linked, Placed, Handled, Unregisters, Protocol
  <2>7. ASSUME NEW y \in Sessions, Unregister(y) PROVE P
    BY <1>0, <1>a, <2>7 DEF Unregister, Linked, Placed, Handled, Unregisters
  <2>8. ASSUME NEW y \in Sessions, EraseNext(y) PROVE P
    BY <1>0, <1>a, <2>8 DEF EraseNext, Linked, Placed, Handled, Unregisters
  <2>9. ASSUME NEW y \in Sessions, EraseAddress(y) PROVE P
    BY <1>0, <1>a, <2>9 DEF EraseAddress, Linked, Placed, Handled, Unregisters
  <2>10. ASSUME NEW y \in Sessions, PublishLook(y) PROVE P
    BY <1>0, <1>a, <2>10 DEF PublishLook, Linked, Placed, Handled, Unregisters, AfterPublish
  <2>11. ASSUME NEW y \in Sessions, PublishSend(y) PROVE P
    BY <1>0, <1>a, <2>11 DEF PublishSend, Linked, Placed, Handled, Unregisters, AfterPublish
  <2>12. ASSUME NEW y \in Sessions, Discover(y) PROVE P
    BY <1>0, <1>a, <2>12 DEF Discover, Linked, Placed, Handled, Unregisters, Protocol
  <2>13. ASSUME NEW y \in Sessions, Subscribe(y) PROVE P
    BY <1>0, <1>a, <2>13 DEF Subscribe, Linked, Placed, Handled, Unregisters, Protocol
  <2>14. ASSUME NEW y \in Sessions, Respond(y) PROVE P
    BY <1>0, <1>a, <2>14 DEF Respond, Linked, Placed, Handled, Unregisters, Message
  <2>15. ASSUME Clean PROVE P
    BY <1>0, <1>a, <2>15 DEF Clean, Linked, Unregisters
  <2>16. P
    <3>1. \/ Clean
          \/ \E y \in Sessions :
                \/ Connect(y) \/ Ask(y) \/ Leave(y) \/ Receive(y) \/ End(y) \/ Register(y)
                \/ Unregister(y) \/ EraseNext(y) \/ EraseAddress(y) \/ PublishLook(y)
                \/ PublishSend(y) \/ Discover(y) \/ Subscribe(y) \/ Respond(y)
      BY <1>2 DEF Next, FiberStep
    <3>2. CASE Clean
      BY <2>15, <3>2
    <3>3. ASSUME NEW y \in Sessions,
                 \/ Connect(y) \/ Ask(y) \/ Leave(y) \/ Receive(y) \/ End(y) \/ Register(y)
                 \/ Unregister(y) \/ EraseNext(y) \/ EraseAddress(y) \/ PublishLook(y)
                 \/ PublishSend(y) \/ Discover(y) \/ Subscribe(y) \/ Respond(y)
          PROVE  P
      BY <3>3, <2>1, <2>2, <2>3, <2>4, <2>5, <2>6, <2>7, <2>8, <2>9, <2>10, <2>11, <2>12, <2>13,
         <2>14
    <3>. QED
      BY <3>1, <3>2, <3>3
  <2>17. connection'[x] = "none" => sent'[x] = <<>>
    BY <1>0, <1>2, <2>16, SentStep DEF Linked
  <2>. QED
    BY <2>16, <2>17 DEF Linked
<1>. QED
  BY <1>1, <1>2

LEMMA SubscribeNext == IInv /\ SentType /\ LinkInv /\ SubscribeInv /\ [Next]_vars => SubscribeInv'
<1> SUFFICES ASSUME IInv, SentType, LinkInv, SubscribeInv, [Next]_vars,
                    NEW c \in Consumers, connection'[c] = "open"
             PROVE  Subscribed(c)'
  BY DEF SubscribeInv
<1> USE DEF peers, local, maps
<1>0. /\ TypeOK /\ c \in Sessions /\ Linked(c) /\ Placed(c) /\ Handled(c)
      /\ connection[c] = "open" => Subscribed(c)
  BY DEF IInv, LinkInv, PlaceInv, FiberInv, SubscribeInv, Sessions
<1>a. /\ connection \in [Sessions -> {"none", "open", "gone"}] /\ message \in [Sessions -> Protocol]
      /\ sent \in [Sessions -> Seq(Protocol)]
  BY <1>0 DEF TypeOK, PeerType, LocalType, SentType
<1>1. ASSUME sent'[c] = sent[c], message'[c] = message[c] \/ message'[c].type # "subscribed",
             subscribes \subseteq subscribes', connection[c] = "open"
      PROVE  Subscribed(c)'
  BY <1>0, <1>1 DEF Subscribed
<1>2. CASE UNCHANGED vars
  BY <1>1, <1>2 DEF vars
<1>3. ASSUME NEW x \in Sessions, Connect(x) PROVE Subscribed(c)'
  <2>1. CASE x = c
    <3>1. connection[c] = "none" /\ sent'[c] = <<>> /\ message'[c].type # "subscribed"
      BY <1>0, <1>3, <2>1 DEF Connect, Linked, Placed, Handled
    <3>2. Len(sent'[c]) = 0
      BY <3>1
    <3>. QED
      BY <3>1, <3>2 DEF Subscribed
  <2>2. CASE x # c
    BY <1>1, <1>3, <1>a, <2>2 DEF Connect
  <2>. QED
    BY <2>1, <2>2
<1>4. ASSUME NEW x \in Sessions, Leave(x) PROVE Subscribed(c)'
  BY <1>1, <1>4, <1>a DEF Leave
<1>5. ASSUME NEW x \in Sessions,
             \/ Ask(x) \/ End(x) \/ Unregister(x) \/ EraseAddress(x) \/ PublishLook(x)
      PROVE  Subscribed(c)'
  BY <1>1, <1>5 DEF Ask, End, Unregister, EraseAddress, PublishLook
<1>6. ASSUME NEW x \in Sessions, Receive(x) PROVE Subscribed(c)'
  <2>1. PICK m : m = Head(toRegistry[x])
    OBVIOUS
  <2>2. /\ toRegistry[x] # <<>> /\ message' = [message EXCEPT ![x] = m]
        /\ UNCHANGED <<connection, sent, subscribes>>
    BY <1>6, <2>1 DEF Receive
  <2>3. toRegistry[x] \in Seq(Protocol)
    BY <1>0 DEF TypeOK, PeerType
  <2>4. m = toRegistry[x][1]
    BY <2>1, <2>2, <2>3, HeadTail
  <2>5. m.type # "subscribed"
    BY <2>2, <2>4 DEF IInv, RequestInv, Requested
  <2>. QED
    BY <1>1, <1>a, <2>2, <2>5
<1>7. ASSUME NEW x \in Sessions, Register(x) \/ EraseNext(x) \/ Discover(x) PROVE Subscribed(c)'
  <2>1. /\ UNCHANGED <<connection, sent, subscribes>>
        /\ message'[c] = message[c] \/ message'[c].type # "subscribed"
    <3>1. CASE Register(x)
      <4>1. PICK a : message' = [message EXCEPT ![x].type = "join", ![x].addresses = a]
        BY <3>1 DEF Register
      <4>2. message'[c] = message[c] \/ message'[c].type = "join"
        BY <1>0, <1>a, <4>1 DEF Protocol
      <4>. QED
        BY <3>1, <4>2 DEF Register
    <3>2. CASE EraseNext(x)
      BY <3>2, <1>a DEF EraseNext
    <3>3. CASE Discover(x)
      <4>1. PICK a : message' = [message EXCEPT ![x].type = "discovered", ![x].addresses = a]
        BY <3>3 DEF Discover
      <4>2. message'[c] = message[c] \/ message'[c].type = "discovered"
        BY <1>0, <1>a, <4>1 DEF Protocol
      <4>. QED
        BY <3>3, <4>2 DEF Discover
    <3>. QED
      BY <1>7, <3>1, <3>2, <3>3
  <2>. QED
    BY <1>1, <2>1
<1>8. ASSUME NEW x \in Sessions, Subscribe(x) PROVE Subscribed(c)'
  <2>1. /\ UNCHANGED <<connection, sent>> /\ subscribes' = subscribes \cup {<<message[x].service, x>>}
        /\ message' = [message EXCEPT ![x].type = "subscribed"]
    BY <1>8 DEF Subscribe
  <2>2. CASE x # c
    BY <1>1, <1>a, <2>1, <2>2
  <2>3. CASE x = c
    <3>1. message'[c].service = message[c].service
      BY <1>a, <2>1, <2>3 DEF Protocol
    <3>. QED
      BY <1>0, <2>1, <2>3, <3>1 DEF Subscribed
  <2>. QED
    BY <2>2, <2>3
<1>9. ASSUME NEW x \in Sessions, PublishSend(x) PROVE Subscribed(c)'
  <2>1. /\ UNCHANGED <<connection, message, subscribes>>
        /\ message[x].type \in {"join", "quit"} /\ message[x] \in Protocol
        /\ sent'[c] = sent[c] \/ sent'[c] = Append(sent[c], message[x])
    BY <1>0, <1>9, <1>a DEF PublishSend, Send, IInv, FiberInv, Handled
  <2>2. CASE sent'[c] = sent[c]
    BY <1>1, <2>1, <2>2
  <2>3. CASE sent'[c] = Append(sent[c], message[x])
    <3>1. PICK q \in Seq(Protocol), m \in Protocol : q = sent[c] /\ m = message[x]
      BY <1>0, <1>a, <2>1
    <3>2. PICK r : r = Append(q, m)
      OBVIOUS
    <3>3. /\ Len(q) \in Nat /\ Len(r) = Len(q) + 1 /\ r[Len(q) + 1] = m
          /\ \A i \in 1..Len(q) : r[i] = q[i]
      BY <3>1, <3>2, SeqAppend
    <3>4. \A i \in 1..Len(r) : r[i].type = "subscribed" => i \in 1..Len(q) /\ r[i] = q[i]
      BY <2>1, <3>1, <3>3
    <3>5. sent'[c] = r
      BY <2>3, <3>1, <3>2
    <3>. QED
      BY <1>0, <2>1, <3>1, <3>4, <3>5 DEF Subscribed
  <2>. QED
    BY <2>1, <2>2, <2>3
<1>10. ASSUME NEW x \in Sessions, Respond(x) PROVE Subscribed(c)'
  <2>1. PICK m : m = [message[x] EXCEPT !.type = IF @ = "join" THEN "registered" ELSE @]
    OBVIOUS
  <2>2. /\ UNCHANGED <<connection, subscribes>>
        /\ sent' = [sent EXCEPT ![x] = Send(x, m)]
        /\ message' = [message EXCEPT ![x] = Message("none", None)]
    BY <1>10, <2>1 DEF Respond
  <2>3. CASE x # c
    BY <1>1, <1>0, <1>a, <2>2, <2>3
  <2>4. CASE x = c
    <3>1. /\ m \in Protocol
          /\ m.type = "subscribed" => message[c].type = "subscribed" /\ m.service = message[c].service
      BY <1>0, <1>a, <2>1, <2>4 DEF Protocol
    <3>2. PICK q \in Seq(Protocol) : q = sent[c]
      BY <1>0, <1>a
    <3>3. PICK r : r = Append(q, m)
      OBVIOUS
    <3>4. /\ Len(q) \in Nat /\ Len(r) = Len(q) + 1 /\ r[Len(q) + 1] = m
          /\ \A i \in 1..Len(q) : r[i] = q[i]
      BY <3>1, <3>3, SeqAppend
    <3>5. sent'[c] = r /\ message'[c].type # "subscribed"
      BY <1>0, <1>a, <2>2, <2>4, <3>2, <3>3 DEF Send, Message
    <3>6. \A i \in 1..Len(r) : r[i].type = "subscribed" =>
             \/ i \in 1..Len(q) /\ r[i] = q[i]
             \/ message[c].type = "subscribed" /\ r[i].service = message[c].service
      BY <3>1, <3>4
    <3>. QED
      BY <1>0, <2>2, <3>2, <3>5, <3>6 DEF Subscribed
  <2>. QED
    BY <2>3, <2>4
<1>11. CASE Clean
  <2>1. UNCHANGED <<connection, sent, message>> /\ fiber[c] # "end"
    BY <1>0, <1>11 DEF Clean, Linked
  <2>2. \A n : <<n, c>> \in subscribes => <<n, c>> \in subscribes'
    BY <1>11, <2>1 DEF Clean
  <2>. QED
    BY <1>0, <2>1, <2>2 DEF Subscribed
<1>. QED
  BY <1>2, <1>3, <1>4, <1>5, <1>6, <1>7, <1>8, <1>9, <1>10, <1>11 DEF Next, FiberStep

\* A step of a fiber that is not about to publish leaves what others are about to publish.
LEMMA JoiningElsewhere ==
    ASSUME NEW x \in Sessions, fiber[x] \notin {"publish", "send"}, NEW e,
           e.session # x => fiber'[e.session] = fiber[e.session]
                              /\ message'[e.session] = message[e.session]
    PROVE  Joining(e) => Joining(e)'
BY JoiningKept DEF Joining

\* Whoever follows a service subscribes to it.
LEMMA FollowerSubscribed ==
    ASSUME SentType, NEW c \in Consumers, Subscribed(c), NEW n, Follows(c, n)
    PROVE  <<n, c>> \in subscribes
<1>1. PICK q \in Seq(Protocol) : q = sent[c]
  BY DEF SentType, Sessions
<1>2. DOMAIN q = 1..Len(q)
  OBVIOUS
<1>. QED
  BY <1>1, <1>2 DEF Follows, Subscribed

LEMMA ToldNext == IInv /\ TypeOK' /\ HearInv /\ [Next]_vars => ToldInv'
<1> SUFFICES ASSUME IInv, TypeOK', HearInv, [Next]_vars,
                    NEW c \in Consumers, NEW e \in Directory', connection'[c] = "open"
             PROVE  Told(c, e)'
  BY DEF ToldInv
<1> USE DEF peers, local, maps
<1>0. /\ TypeOK /\ PeerType /\ LocalType /\ MapType /\ LockInv /\ MapInv /\ SentType
      /\ c \in Sessions /\ c \notin Providers /\ Linked(c) /\ Placed(c) /\ Handled(c)
      /\ connection[c] = "open" => Subscribed(c)
  BY Disjoint DEF IInv, TypeOK, HearInv, LinkInv, PlaceInv, FiberInv, SubscribeInv, Sessions
<1>a. /\ connection \in [Sessions -> {"none", "open", "gone"}] /\ message \in [Sessions -> Protocol]
      /\ sent \in [Sessions -> Seq(Protocol)]
      /\ fiber \in [Sessions -> {"none", "recv", "register", "discover", "subscribe", "publish",
                               "send", "respond", "unregister", "erase", "end"}]
  BY <1>0 DEF PeerType, LocalType, SentType
<1>b. e \in Entry /\ e.session \in Sessions /\ e.session # c
  BY <1>0 DEF Directory, TypeOK, MapType, Entry, Sessions
<1>c. ASSUME e \in Directory, connection[c] = "open" PROVE Told(c, e)
  BY <1>c DEF HearInv, ToldInv
<1>1. ASSUME UNCHANGED <<services, its, sent>>, connection[c] = "open",
             Joining(e) => Joining(e)',
             \/ message'[c].type # "discovered"
             \/ /\ message'[c] = message[c]
                /\ <<e.service, c>> \in subscribes' => <<e.service, c>> \in subscribes
      PROVE  Told(c, e)'
  <2>1. e \in Directory
    BY <1>1 DEF Directory
  <2>. QED
    BY <1>1, <1>c, <2>1, ToldKept
<1>2. CASE UNCHANGED vars
  <2>1. Joining(e)' = Joining(e)
    BY <1>2, JoiningKept DEF vars
  <2>. QED
    BY <1>1, <1>2, <2>1 DEF vars
<1>3. ASSUME NEW x \in Sessions, Connect(x) PROVE Told(c, e)'
  <2>1. CASE x = c
    <3>1. connection[c] = "none" /\ sent'[c] = <<>> /\ message'[c].type # "discovered"
      BY <1>0, <1>3, <2>1 DEF Connect, Linked, Placed, Handled
    <3>2. ~Follows(c, e.service)'
      BY <3>1 DEF Follows
    <3>. QED
      BY <3>1, <3>2 DEF Told
  <2>2. CASE x # c
    <3>1. /\ connection[x] = "none" /\ fiber' = [fiber EXCEPT ![x] = "recv"]
          /\ connection[c] = "open" /\ UNCHANGED <<services, its, sent, message, subscribes>>
      BY <1>3, <1>a, <2>2 DEF Connect
    <3>2. fiber[x] = "none"
      BY <3>1 DEF IInv, PlaceInv, Placed
    <3>3. Joining(e) => Joining(e)'
      BY <1>a, <1>b, <3>1, <3>2, JoiningElsewhere
    <3>. QED
      BY <1>1, <3>1, <3>3
  <2>. QED
    BY <2>1, <2>2
<1>4. ASSUME NEW x \in Sessions, Ask(x) PROVE Told(c, e)'
  <2>1. UNCHANGED <<connection, services, its, sent, message, subscribes, fiber>>
    BY <1>4 DEF Ask
  <2>2. Joining(e)' = Joining(e)
    BY <2>1, JoiningKept
  <2>. QED
    BY <1>1, <2>1, <2>2
<1>5. ASSUME NEW x \in Sessions, Leave(x) PROVE Told(c, e)'
  <2>1. /\ UNCHANGED <<services, its, message, subscribes, fiber>>
        /\ connection[c] = "open" /\ sent'[c] = sent[c]
    BY <1>0, <1>5, <1>a DEF Leave
  <2>2. Joining(e)' = Joining(e)
    BY <2>1, JoiningKept
  <2>3. e \in Directory
    BY <2>1 DEF Directory
  <2>. QED
    BY <1>c, <2>1, <2>2, <2>3, ToldKept
<1>6. ASSUME NEW x \in Sessions, End(x) \/ EraseAddress(x) PROVE Told(c, e)'
  <2>1. /\ UNCHANGED <<connection, services, its, sent, message, subscribes>>
        /\ fiber[x] \in {"recv", "erase"} /\ \A y \in Sessions \ {x} : fiber'[y] = fiber[y]
    BY <1>6, <1>a DEF End, EraseAddress
  <2>2. Joining(e) => Joining(e)'
    BY <1>b, <2>1, JoiningElsewhere
  <2>. QED
    BY <1>1, <2>1, <2>2
<1>7. ASSUME NEW x \in Sessions, Receive(x) PROVE Told(c, e)'
  <2>1. PICK m : m = Head(toRegistry[x])
    OBVIOUS
  <2>2. /\ toRegistry[x] # <<>> /\ message' = [message EXCEPT ![x] = m] /\ fiber[x] = "recv"
        /\ fiber' = [fiber EXCEPT ![x] = Handler(m.type)]
        /\ UNCHANGED <<connection, sent, subscribes, services, its>>
    BY <1>7, <2>1 DEF Receive
  <2>3. toRegistry[x] \in Seq(Protocol)
    BY <1>0 DEF PeerType
  <2>4. m = toRegistry[x][1]
    BY <2>1, <2>2, <2>3, HeadTail
  <2>5. m.type # "discovered"
    BY <2>2, <2>4 DEF IInv, RequestInv, Requested
  <2>6. Joining(e) => Joining(e)'
    BY <1>a, <1>b, <2>2, JoiningElsewhere
  <2>. QED
    BY <1>1, <1>0, <1>a, <2>2, <2>5, <2>6
<1>8. ASSUME NEW x \in Sessions, Unregister(x) \/ EraseNext(x) PROVE Told(c, e)'
  <2>1. /\ UNCHANGED <<connection, sent, subscribes>> /\ fiber[x] \in {"unregister", "erase"}
        /\ \A y \in Sessions \ {x} : fiber'[y] = fiber[y] /\ message'[y] = message[y]
        /\ x # c => message'[c] = message[c]
    BY <1>0, <1>8, <1>a DEF Unregister, EraseNext
  <2>2. x # c
    BY <1>0, <2>1 DEF Handled, Placed
  <2>3. e \in Directory
    BY <1>8, DirectoryShrinks
  <2>4. Joining(e) => Joining(e)'
    BY <1>b, <2>1, JoiningElsewhere
  <2>. QED
    BY <1>c, <2>1, <2>2, <2>3, <2>4, ToldKept
<1>9. ASSUME NEW x \in Sessions, Register(x) PROVE Told(c, e)'
  <2>1. PICK d : d = [service |-> message[x].service, address |-> providerAddr[x], session |-> x]
    OBVIOUS
  <2>2. /\ fiber[x] = "register" /\ services' = services \cup {d}
        /\ fiber' = [fiber EXCEPT ![x] = "publish"]
        /\ message' = [message EXCEPT ![x].type = "join", ![x].addresses = {d.address}]
        /\ UNCHANGED <<connection, sent, its, subscribes>>
    BY <1>9, <2>1 DEF Register
  <2>3. x # c
    BY <1>0, <2>2 DEF Handled, Registers
  <2>4. /\ \A y \in Sessions \ {x} : fiber'[y] = fiber[y] /\ message'[y] = message[y]
        /\ fiber'[x] = "publish" /\ message'[x].type = "join"
        /\ message'[x].service = message[x].service /\ message'[x].addresses = {d.address}
    BY <1>a, <2>2 DEF Protocol
  <2>5. CASE e = d
    <3>1. Joining(e)'
      BY <2>1, <2>4, <2>5 DEF Joining, Says
    <3>. QED
      BY <3>1 DEF Told
  <2>6. CASE e # d
    <3>1. e \in Directory
      BY <2>2, <2>6 DEF Directory
    <3>2. Joining(e) => Joining(e)'
      BY <1>b, <2>2, <2>4, JoiningElsewhere
    <3>. QED
      BY <1>0, <1>c, <2>2, <2>3, <2>4, <3>1, <3>2, ToldKept
  <2>. QED
    BY <2>5, <2>6
<1>10. ASSUME NEW x \in Sessions, PublishLook(x) PROVE Told(c, e)'
  <2>1. /\ UNCHANGED <<connection, services, its, sent, message, subscribes>>
        /\ \A y \in Sessions \ {x} : fiber'[y] = fiber[y]
        /\ subscribes = {} \/ fiber'[x] = "send"
        /\ fiber[x] = "publish"
    BY <1>10, <1>a DEF PublishLook, AfterPublish
  <2>2. CASE subscribes = {}
    <3>1. ~Follows(c, e.service)
      BY <1>0, <2>1, <2>2, FollowerSubscribed
    <3>2. ~Follows(c, e.service)' /\ <<e.service, c>> \notin subscribes'
      BY <2>1, <2>2, <3>1, HearsNothing
    <3>. QED
      BY <3>2 DEF Told
  <2>3. CASE fiber'[x] = "send"
    <3>1. Joining(e) => Joining(e)'
      BY <1>b, <2>1, <2>3 DEF Joining, Says
    <3>. QED
      BY <1>1, <2>1, <3>1
  <2>. QED
    BY <2>1, <2>2, <2>3
<1>11. ASSUME NEW x \in Sessions, PublishSend(x) PROVE Told(c, e)'
  <2>1. PICK q \in Seq(Protocol), m \in Protocol : q = sent[c] /\ m = message[x]
    BY <1>0, <1>a
  <2>2. /\ UNCHANGED <<connection, services, its, message, subscribes>> /\ connection[c] = "open"
        /\ \A y \in Sessions \ {x} : fiber'[y] = fiber[y]
        /\ fiber[x] = "send"
        /\ sent'[c] = IF <<m.service, c>> \in subscribes THEN Append(q, m) ELSE q
    BY <1>0, <1>11, <1>a, <2>1 DEF PublishSend, AfterPublish, Send
  <2>3. m.type \in {"join", "quit"}
    BY <2>1, <2>2 DEF IInv, FiberInv, Handled
  <2>4. e \in Directory
    BY <2>2 DEF Directory
  <2>5. Told(c, e) /\ Subscribed(c)
    BY <1>0, <1>c, <2>2, <2>4
  <2>6. m.type = "quit" => ~Says(m, e)
    <3>1. SUFFICES ASSUME m.type = "quit" PROVE ~Says(m, e)
      OBVIOUS
    <3>2. mutex = x /\ m.addresses = {providerAddr[x]}
      BY <1>0, <2>1, <2>2, <3>1 DEF LockInv, Unregisters, HearInv, LinkInv, Linked
    <3>3. e.address # providerAddr[x]
      BY <2>4, <3>2, QuitElsewhere
    <3>. QED
      BY <3>2, <3>3 DEF Says
  <2>7. Sees(c, e) => Sees(c, e)'
    BY <2>1, <2>2, <2>6, Hears, HearsNothing
  <2>8. Follows(c, e.service)' => Follows(c, e.service)
    <3>1. CASE sent'[c] = sent[c]
      BY <3>1, HearsNothing
    <3>2. CASE sent'[c] = Append(q, m)
      <4>1. m.type # "discovered"
        BY <2>3
      <4>. QED
        BY <2>1, <3>2, <4>1, Hears
    <3>. QED
      BY <2>1, <2>2, <3>1, <3>2
  <2>9. Joining(e) /\ <<e.service, c>> \in subscribes => Joining(e)' \/ Sees(c, e)'
    <3>1. CASE e.session # x
      BY <1>b, <2>2, <3>1, JoiningKept
    <3>2. CASE e.session = x
      <4>1. SUFFICES ASSUME Joining(e), <<e.service, c>> \in subscribes PROVE Sees(c, e)'
        OBVIOUS
      <4>2. m.type = "join" /\ Says(m, e)
        BY <2>1, <3>2, <4>1 DEF Joining
      <4>3. sent'[c] = Append(q, m)
        BY <2>2, <4>1, <4>2 DEF Says
      <4>. QED
        BY <2>1, <4>2, <4>3, Hears
    <3>. QED
      BY <3>1, <3>2
  <2>10. Follows(c, e.service)' => Sees(c, e)' \/ Joining(e)'
    BY <1>0, <2>5, <2>7, <2>8, <2>9, FollowerSubscribed DEF Told
  <2>11. ASSUME message'[c].type = "discovered", message'[c].service = e.service,
                <<e.service, c>> \in subscribes'
         PROVE  Sees(c, e)' \/ Joining(e)' \/ e.address \in message'[c].addresses
    BY <2>2, <2>5, <2>7, <2>9, <2>11 DEF Told
  <2>. QED
    BY <2>10, <2>11 DEF Told
<1>12. ASSUME NEW x \in Sessions, Discover(x) PROVE Told(c, e)'
  <2>1. PICK a : a = Offering(message[x].service)
    OBVIOUS
  <2>2. /\ fiber[x] = "discover" /\ mutex = None
        /\ message' = [message EXCEPT ![x].type = "discovered", ![x].addresses = a]
        /\ fiber' = [fiber EXCEPT ![x] = "respond"]
        /\ UNCHANGED <<connection, services, its, sent, subscribes>>
    BY <1>12, <2>1 DEF Discover
  <2>3. /\ \A y \in Sessions \ {x} : fiber'[y] = fiber[y] /\ message'[y] = message[y]
        /\ message'[x].service = message[x].service /\ message'[x].addresses = a
    BY <1>a, <2>2 DEF Protocol
  <2>4. Joining(e) => Joining(e)'
    BY <1>b, <2>2, <2>3, JoiningElsewhere
  <2>5. CASE x # c
    BY <1>0, <1>1, <2>2, <2>3, <2>4, <2>5
  <2>6. CASE x = c
    <3>1. e \in Directory /\ e \in services
      BY <2>2 DEF Directory
    <3>2. Told(c, e)
      BY <1>c, <2>2, <3>1
    <3>3. Follows(c, e.service)' => Sees(c, e)' \/ Joining(e)'
      BY <2>2, <2>4, <3>2, HearsNothing DEF Told
    <3>4. message'[c].service = e.service => e.address \in message'[c].addresses
      BY <2>1, <2>3, <2>6, <3>1 DEF Offering
    <3>. QED
      BY <3>3, <3>4 DEF Told
  <2>. QED
    BY <2>5, <2>6
<1>13. ASSUME NEW x \in Sessions, Subscribe(x) PROVE Told(c, e)'
  <2>1. /\ UNCHANGED <<connection, services, its, sent>> /\ fiber[x] = "subscribe"
        /\ subscribes' = subscribes \cup {<<message[x].service, x>>}
        /\ message' = [message EXCEPT ![x].type = "subscribed"]
        /\ fiber' = [fiber EXCEPT ![x] = "respond"]
    BY <1>13 DEF Subscribe
  <2>2. /\ \A y \in Sessions \ {x} : fiber'[y] = fiber[y] /\ message'[y] = message[y]
        /\ message'[x].type = "subscribed"
    BY <1>a, <2>1 DEF Protocol
  <2>3. Joining(e) => Joining(e)'
    BY <1>b, <2>1, <2>2, JoiningElsewhere
  <2>4. x = c \/ (<<e.service, c>> \in subscribes' => <<e.service, c>> \in subscribes)
    BY <2>1
  <2>. QED
    BY <1>0, <1>1, <2>1, <2>2, <2>3, <2>4
<1>14. ASSUME NEW x \in Sessions, Respond(x) PROVE Told(c, e)'
  <2>1. PICK m : m = [message[x] EXCEPT !.type = IF @ = "join" THEN "registered" ELSE @]
    OBVIOUS
  <2>2. /\ UNCHANGED <<connection, subscribes, services, its>> /\ fiber[x] = "respond"
        /\ sent' = [sent EXCEPT ![x] = Send(x, m)]
        /\ message' = [message EXCEPT ![x] = Message("none", None)]
        /\ fiber' = [fiber EXCEPT ![x] = "recv"]
    BY <1>14, <2>1 DEF Respond
  <2>3. \A y \in Sessions \ {x} : fiber'[y] = fiber[y] /\ message'[y] = message[y]
    BY <1>a, <2>2
  <2>4. Joining(e) => Joining(e)'
    BY <1>b, <2>2, <2>3, JoiningElsewhere
  <2>5. e \in Directory /\ Told(c, e) /\ Subscribed(c)
    BY <1>0, <1>c, <2>2 DEF Directory
  <2>6. CASE x # c
    <3>1. sent'[c] = sent[c] /\ message'[c] = message[c]
      BY <1>0, <1>a, <2>2, <2>6
    <3>. QED
      BY <2>2, <2>4, <2>5, <3>1, ToldKept
  <2>7. CASE x = c
    <3>1. /\ m \in Protocol /\ m.type # "quit"
          /\ m.type = "discovered" => /\ message[c].type = "discovered"
                                      /\ m.service = message[c].service
                                      /\ m.addresses = message[c].addresses
      BY <1>0, <1>a, <2>1, <2>7 DEF Protocol, Handled
    <3>2. PICK q \in Seq(Protocol) : q = sent[c]
      BY <1>0, <1>a
    <3>3. sent'[c] = Append(q, m) /\ message'[c].type = "none"
      BY <1>0, <1>a, <2>2, <2>7, <3>2 DEF Send, Message
    <3>4. ASSUME Follows(c, e.service)' PROVE Sees(c, e)' \/ Joining(e)'
      <4>1. Sees(c, e) => Sees(c, e)'
        BY <3>1, <3>2, <3>3, Hears
      <4>2. CASE Follows(c, e.service)
        BY <2>4, <2>5, <4>1, <4>2 DEF Told
      <4>3. CASE /\ m.type = "discovered" /\ m.service = e.service
                 /\ \E i \in 1..Len(q) : q[i].type = "subscribed" /\ q[i].service = e.service
        <5>1. <<e.service, c>> \in subscribes
          BY <2>5, <3>2, <4>3 DEF Subscribed
        <5>2. Sees(c, e) \/ Joining(e) \/ e.address \in m.addresses
          BY <2>5, <3>1, <4>3, <5>1 DEF Told
        <5>3. e.address \in m.addresses => Sees(c, e)'
          BY <3>1, <3>2, <3>3, <4>3, Hears DEF Says
        <5>. QED
          BY <2>4, <4>1, <5>2, <5>3
      <4>. QED
        BY <3>1, <3>2, <3>3, <3>4, <4>2, <4>3, Hears
    <3>. QED
      BY <3>3, <3>4 DEF Told
  <2>. QED
    BY <2>6, <2>7
<1>15. CASE Clean
  <2>1. UNCHANGED <<connection, services, its, sent, message, fiber>> /\ subscribes' \subseteq subscribes
    BY <1>15 DEF Clean
  <2>2. Joining(e)' = Joining(e)
    BY <2>1, JoiningKept
  <2>. QED
    BY <1>1, <2>1, <2>2
<1>. QED
  BY <1>2, <1>3, <1>4, <1>5, <1>6, <1>7, <1>8, <1>9, <1>10, <1>11, <1>12, <1>13, <1>14, <1>15
  DEF Next, FiberStep

\* A client that has subscribed to a service and then discovered it misses no server, for
\* any clients, servers and requests: a server that comes between the answer and the
\* subscription is in one of them, although they are made by different fibers and publish()
\* drops its lock between the look and the sending (rpc_service_registry.h:41-65).
THEOREM NobodyEverMissed == Spec => []NobodyMissed
<1>1. Init => HearInv
  BY HearInit
<1>2. IInv /\ IInv' /\ HearInv /\ [Next]_vars => HearInv'
  BY SentNext, LinkNext, SubscribeNext, ToldNext DEF IInv, HearInv
<1>3. IInv /\ HearInv => NobodyMissed
  <2>1. SUFFICES ASSUME IInv, HearInv, NEW c \in Consumers, NEW e \in services,
                        connection[c] = "open", Follows(c, e.service), mutex = None
                 PROVE  \/ Sees(c, e)
                        \/ fiber[e.session] \in {"publish", "send"}
                             /\ message[e.session].service = e.service
    BY DEF NobodyMissed
  <2>2. Directory = services
    BY <2>1, FreeDirectory DEF IInv
  <2>3. Told(c, e)
    BY <2>1, <2>2 DEF HearInv, ToldInv
  <2>. QED
    BY <2>1, <2>3 DEF Told, Joining, Says
<1>. QED
  BY <1>1, <1>2, <1>3, InductiveInvariant, PTL DEF Spec
=============================================================================
