-------------------------- MODULE AbstractRegistry --------------------------
(***************************************************************************)
(* What the registry promises: a directory of who offers which service at  *)
(* which address, from which an address goes with all it offered at once,  *)
(* and whose answers show the directory as it was at one moment.           *)
(***************************************************************************)
CONSTANTS
    Entries,    \* records with service, address and session
    Names,      \* the services one may ask for
    Askers,     \* who asks
    NoAnswer

VARIABLES
    directory,  \* the entries there are
    answer      \* answer[c]: the answer that is on its way to c, or NoAnswer

Offering(service) == {e.address : e \in {d \in directory : d.service = service}}

Init == directory = {} /\ answer = [c \in Askers |-> NoAnswer]

Add(e) == directory' = directory \cup {e} /\ UNCHANGED answer

RemoveAddress(a) ==
    directory' = {e \in directory : e.address # a} /\ UNCHANGED answer

Answer(c, service) ==
    answer' = [answer EXCEPT ![c] = Offering(service)] /\ UNCHANGED directory

Deliver(c) == answer' = [answer EXCEPT ![c] = NoAnswer] /\ UNCHANGED directory

Next ==
    \/ \E e \in Entries : Add(e) \/ RemoveAddress(e.address)
    \/ \E c \in Askers : Deliver(c) \/ \E n \in Names : Answer(c, n)

Spec == Init /\ [][Next]_<<directory, answer>>
=============================================================================
