----------------------------- MODULE ByteArray ------------------------------
(***************************************************************************)
(* ByteArray (base/bytearray.h, bytearray.cc): a chain of nodes of one     *)
(* size, the node m_cur the cursor is in, and m_position, of which the     *)
(* code takes only the offset in that node.  Nothing guards m_cur: each    *)
(* operation has to leave it where m_position says, and null exactly at    *)
(* the end of the capacity.                                                *)
(***************************************************************************)
EXTENDS Integers, Sequences

CONSTANTS
    BaseSize,   \* m_baseSize
    Junk,       \* what new char[] holds
    Null        \* the null pointer

ASSUME BaseSizeAssumption == BaseSize \in Nat \ {0} /\ Null \notin Nat

VARIABLES
    nodes,      \* the chain from m_root on: the bytes of each node
    cur,        \* m_cur: the number of a node, or Null
    position,   \* m_position
    size,       \* m_size
    data        \* the bytes the last operation put or took: its buffer

buffer == <<nodes, cur, position, size, data>>

Node == [o \in 0..BaseSize - 1 |-> Junk]     \* Node(m_baseSize)

Init ==
    /\ nodes = <<Node>>
    /\ cur = 1 /\ position = 0 /\ size = 0 /\ data = <<>>

Capacity == BaseSize * Len(nodes)       \* m_capacity
ReadSize == size - position             \* getReadSize()
Larger(a, b) == IF a > b THEN a ELSE b

\* The node s nodes after node k of a chain, as the loops find it by next.
Follow(chain, k, s) == IF k # Null /\ k + s <= Len(chain) THEN k + s ELSE Null

\* The n bytes from the cursor on, as read() and the iovecs of getReadBuffers()
\* have them: from m_cur, and from the offset of m_position.
Offset == position % BaseSize
Behind(n) ==
    [i \in 1..n |-> nodes[cur + (Offset + i - 1) \div BaseSize][(Offset + i - 1) % BaseSize]]

\* addCapacity(): the chain and m_cur, with room for n bytes.
Added(n) ==
    LET count == (n - (Capacity - position) + BaseSize - 1) \div BaseSize
    IN  IF n <= Capacity - position THEN [chain |-> nodes, cur |-> cur]
        ELSE [chain |-> nodes \o [k \in 1..count |-> Node],
              cur |-> IF Capacity = position THEN Len(nodes) + 1 ELSE cur]

\* The chain with the bytes d from node k and the offset on.
Stored(chain, k, d) ==
    [j \in DOMAIN chain |-> [o \in 0..BaseSize - 1 |->
        LET i == BaseSize * (j - k) + o - Offset + 1
        IN  IF i \in DOMAIN d THEN d[i] ELSE chain[j][o]]]

\* write()
Write(d) ==
    LET a == Added(Len(d))
    IN  /\ d # <<>>
        /\ nodes' = Stored(a.chain, a.cur, d)
        /\ cur' = Follow(a.chain, a.cur, (Offset + Len(d)) \div BaseSize)
        /\ position' = position + Len(d)
        /\ size' = Larger(size, position + Len(d))
        /\ data' = d

\* read(), which throws when there is too little.  read() of nothing with m_cur null
\* follows the null pointer: n is not 0.
Read(n) ==
    /\ n \in 1..ReadSize
    /\ data' = Behind(n)
    /\ cur' = Follow(nodes, cur, (Offset + n) \div BaseSize)
    /\ position' = position + n
    /\ UNCHANGED <<nodes, size>>

\* toString(), the only use of read() with a position, which is m_position.
AsString ==
    /\ data' = Behind(ReadSize)
    /\ UNCHANGED <<nodes, cur, position, size>>

\* Mutant of Seat: the node is the one that ends at v.
SeatBefore(chain, v) == IF v = 0 THEN 1 ELSE (v - 1) \div BaseSize + 1

\* The loop of setPosition(): it steps over a node that ends at v.
Seat(chain, v) == Follow(chain, 1, v \div BaseSize)

\* setPosition(), which throws when v is beyond the capacity.
SetPosition(v) ==
    /\ v \in 0..Capacity
    /\ position' = v
    /\ size' = Larger(size, v)
    /\ cur' = Seat(nodes, v)
    /\ UNCHANGED <<nodes, data>>

\* getWriteBuffers() for n bytes; SocketStream::read() stores the bytes d that have
\* come and sets the position behind them.
Fill(n, d) ==
    LET a == Added(n)
    IN  /\ d # <<>> /\ Len(d) <= n
        /\ nodes' = Stored(a.chain, a.cur, d)
        /\ position' = position + Len(d)
        /\ size' = Larger(size, position + Len(d))
        /\ cur' = Seat(a.chain, position + Len(d))
        /\ data' = d

\* getReadBuffers() for n bytes; SocketStream::write() sends k of them.
Drain(n, k) ==
    /\ n > 0 /\ k \in 1..(IF n > ReadSize THEN ReadSize ELSE n)
    /\ data' = Behind(k)
    /\ position' = position + k
    /\ cur' = Seat(nodes, position + k)
    /\ UNCHANGED <<nodes, size>>

\* The bytes up to m_size, by the position alone.
Content == [i \in 1..size |-> nodes[(i - 1) \div BaseSize + 1][(i - 1) % BaseSize]]

-----------------------------------------------------------------------------

\* m_cur is the node of m_position, and null at the end of the capacity only,
\* whatever sequence of writes, reads, seeks and transfers led there
\* (bytearray.cc:92, 135, 386-396, 498).
CursorInStep ==
    /\ cur = Follow(nodes, 1, position \div BaseSize)
    /\ position \in 0..size /\ size \in 0..Capacity

Abstract == INSTANCE AbstractBuffer WITH
    content <- Content, offset <- position, moved <- data

\* The chain is a flat sequence of bytes: what is taken is what was put there,
\* across the borders of nodes and with the bytes around it untouched.
ImplementsBuffer == [][Abstract!Next]_buffer
=============================================================================
