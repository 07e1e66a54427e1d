----------------------------- MODULE Serializer -----------------------------
(***************************************************************************)
(* Serializer (rpc/serializer.h) and Result (rpc/rpc.h) over ByteArray:    *)
(* one side writes values, the other makes a Serializer of the bytes that  *)
(* have come and reads values of the same types.  The widths are           *)
(* constants: GroupBits is 7 and IntBits 32 or 64 in the code, a byte has  *)
(* GroupBits + 1 bits, and a fixed number has two bytes.                   *)
(*                                                                         *)
(* A scalar is a number of type "byte", "fixed" (big endian), "uint"       *)
(* (varint) or "int" (zigzag and varint), or a "string" of bytes.  A       *)
(* compound value is a "container" (list, vector, set, map...: its size,   *)
(* then the scalars of its elements), a "tuple" or a "result".             *)
(***************************************************************************)
EXTENDS ByteArray, FiniteSetsExt, SequencesExt

CONSTANTS
    GroupBits, IntBits,
    Scripts,    \* the values that are written, in order: the cases to look at
    RawData,    \* the bytes of the cases that use the ByteArray itself
    MaxSize     \* the bytes such a case holds at most

VARIABLES
    script,     \* the case: the values, or <<>> for the use of the ByteArray itself
    written,    \* how many values have been written
    received,   \* the values that have been read
    state       \* "raw", "write", "read", or "failed" when a read has thrown

vars == <<buffer, script, written, received, state>>

Number(type, n) == [type |-> type, n |-> n]
String(bytes) == [type |-> "string", bytes |-> bytes]

-----------------------------------------------------------------------------
(* Scalars to bytes and back *)

Half == 2 ^ (IntBits - 1)
Group == 2 ^ GroupBits

\* Mutant of Zigzag: a negative number keeps its sign bit only.
ZigzagOff(v) == IF v < 0 THEN (2 * (-v) + 1) % (2 * Half) ELSE 2 * v

\* EncodeZigzag32() and -64(): arithmetic modulo 2 ^ IntBits, so that -Half is right too.
Zigzag(v) == IF v < 0 THEN (2 * (-v) - 1) % (2 * Half) ELSE (2 * v) % (2 * Half)

\* (v >> 1) ^ -(v & 1)
Unzigzag(u) == IF u % 2 = 0 THEN u \div 2 ELSE -(u \div 2) - 1

\* writeUint32() and -64(): groups from the lowest, the top bit on all but the last.
Varint(u) ==
    LET n == CHOOSE k \in 1..IntBits : u < Group ^ k /\ (k > 1 => u >= Group ^ (k - 1))
    IN  [i \in 1..n |-> ((u \div Group ^ (i - 1)) % Group) + (IF i < n THEN Group ELSE 0)]

Bytes(s) ==
    CASE s.type = "byte" -> <<s.n>>
      [] s.type = "fixed" -> <<s.n \div (2 * Group), s.n % (2 * Group)>>
      [] s.type = "uint" -> Varint(s.n)
      [] s.type = "int" -> Varint(Zigzag(s.n))
      [] s.type = "string" -> Varint(Len(s.bytes)) \o s.bytes

\* The scalars operator<< writes for a value.
Parts(x) ==
    CASE x.type = "container" ->
            <<Number("uint", Len(x.parts) \div Len(x.of))>> \o x.parts
      [] x.type = "tuple" -> x.parts
      [] x.type = "result" -> <<Number("fixed", x.code), String(x.msg), x.val>>
      [] OTHER -> <<x>>

Encode(x) == FlattenSeq([i \in DOMAIN Parts(x) |-> Bytes(Parts(x)[i])])

(* Reading goes through states: the bytes that are left, the scalars so far,  *)
(* and whether nothing has been thrown.                                       *)

Failed(s) == [s EXCEPT !.ok = FALSE]

\* readUint32() and -64(): groups up to a byte without the top bit, or until the
\* shift has passed the width; what is shifted out is lost.
ReadUint(type, s) ==
    LET groups == (IntBits + GroupBits - 1) \div GroupBits
        most == Min({Len(s.rest), groups})
        ends == {i \in 1..most : s.rest[i] < Group}
        n == IF ends = {} THEN most ELSE Min(ends)
        u == FoldLeft(LAMBDA a, i : a + ((s.rest[i] % Group) * Group ^ (i - 1)), 0,
                      [i \in 1..n |-> i]) % (2 * Half)
    IN  IF ends = {} /\ most < groups THEN Failed(s)
        ELSE [s EXCEPT !.rest = SubSeq(@, n + 1, Len(@)),
                       !.got = Append(@, Number(type, IF type = "int" THEN Unzigzag(u) ELSE u))]

\* n bytes as one scalar.  A string of length 0 at the end of the capacity makes
\* read() follow a null pointer.
ReadBytes(type, n, s) ==
    IF Len(s.rest) < n \/ (n = 0 /\ s.rest = <<>> /\ size = Capacity) THEN Failed(s)
    ELSE LET b == SubSeq(s.rest, 1, n)
         IN  [s EXCEPT !.rest = SubSeq(@, n + 1, Len(@)),
                       !.got = Append(@,
                            CASE type = "byte" -> Number(type, b[1])
                              [] type = "fixed" -> Number(type, b[1] * 2 * Group + b[2])
                              [] type = "string" -> String(b))]

\* The scalar read last, taken back.
Popped(s) == [s EXCEPT !.got = Front(@)]

\* Serializer::read()
ReadScalar(type, s) ==
    IF ~s.ok THEN s
    ELSE CASE type = "byte" -> ReadBytes(type, 1, s)
           [] type = "fixed" -> ReadBytes(type, 2, s)
           [] type \in {"uint", "int"} -> ReadUint(type, s)
           [] type = "string" ->
                LET l == ReadUint("uint", s)
                IN  IF l.ok THEN ReadBytes(type, Last(l.got).n, Popped(l)) ELSE l

ReadScalars(types, s) == FoldLeft(LAMBDA t, type : ReadScalar(type, t), s, types)

\* operator>> of a value of the type of x: the scalars that are read, in order.
ReadValue(x, s) ==
    LET first == ReadScalar("uint", s)
        head == ReadScalars(<<"fixed", "string">>, s)
    IN  CASE x.type = "container" /\ first.ok ->
               ReadScalars(FlattenSeq([i \in 1..Last(first.got).n |-> x.of]), first)
          [] x.type = "container" /\ ~first.ok -> first
          [] x.type = "tuple" -> ReadScalars(x.of, s)
          [] x.type = "result" /\ head.ok /\ head.got[1].n = 0 -> ReadScalar(x.val.type, head)
          [] x.type = "result" /\ (~head.ok \/ head.got[1].n # 0) -> head
          [] OTHER -> ReadScalar(x.type, s)

\* What a reader should make of x: the value of a Result comes only with success.
Expected(x) == IF x.type = "result" /\ x.code # 0 THEN Front(Parts(x)) ELSE Parts(x)

-----------------------------------------------------------------------------

SInit ==
    /\ Init
    /\ script \in Scripts
    /\ written = 0 /\ received = <<>>
    /\ state = IF script = <<>> THEN "raw" ELSE "write"

\* operator<<: the writes of its scalars, one after another.
Serialize ==
    /\ state = "write" /\ written < Len(script)
    /\ Write(Encode(script[written + 1]))
    /\ written' = written + 1
    /\ UNCHANGED <<script, received, state>>

\* reset() and toString() on one side; on the other, a Serializer of the content, or
\* of the first n bytes if the sender's types were others.
Transfer(n) ==
    LET count == IF n = 0 THEN 1 ELSE (n + BaseSize - 1) \div BaseSize
    IN  /\ state = "write" /\ written = Len(script)
        /\ nodes' = [k \in 1..count |-> [o \in 0..BaseSize - 1 |->
                        LET i == BaseSize * (k - 1) + o + 1
                        IN  IF i <= n THEN Content[i] ELSE Junk]]
        /\ cur' = 1 /\ position' = 0 /\ size' = n /\ data' = SubSeq(Content, 1, n)
        /\ state' = "read"
        /\ UNCHANGED <<script, written, received>>

\* operator>>.  A read that throws leaves the cursor where it is.
Deserialize ==
    LET x == script[Len(received) + 1]
        s == ReadValue(x, [rest |-> Behind(ReadSize), got |-> <<>>, ok |-> TRUE])
        n == ReadSize - Len(s.rest)
    IN  /\ state = "read" /\ Len(received) < Len(script)
        /\ position' = position + n
        /\ cur' = Follow(nodes, cur, (Offset + n) \div BaseSize)
        /\ data' = Behind(n)
        /\ state' = IF s.ok THEN "read" ELSE "failed"
        /\ received' = IF s.ok THEN Append(received, s.got) ELSE received
        /\ UNCHANGED <<nodes, size, script, written>>

\* The ByteArray as a stream and its users have it.
Raw ==
    /\ state = "raw"
    /\ \/ \E d \in RawData : position + Len(d) <= MaxSize /\ Write(d)
       \/ \E n \in 1..MaxSize : Read(n)
       \/ AsString
       \/ \E v \in 0..MaxSize : SetPosition(v)
       \/ \E d \in RawData : \E n \in Len(d)..Len(d) + 1 :
            position + n <= MaxSize /\ Fill(n, d)
       \/ \E n \in 1..MaxSize : \E k \in 1..n : Drain(n, k)
    /\ UNCHANGED <<script, written, received, state>>

SNext == Serialize \/ (\E n \in 0..size : Transfer(n)) \/ Deserialize \/ Raw

SSpec == SInit /\ [][SNext]_vars

-----------------------------------------------------------------------------

\* Values come out as they went in, across the borders of nodes and at the ends of the
\* ranges: whatever was read before a failure is right, and a read fails only where
\* bytes are missing, or at an empty string that ends the content and the capacity
\* (serializer.h:84, bytearray.cc:127, 662-745).
ReadBack ==
    LET sent == FlattenSeq([i \in DOMAIN script |-> Expected(script[i])])
    IN  /\ \A i \in DOMAIN received : received[i] = Expected(script[i])
        /\ state = "failed" =>
             \/ size < Len(FlattenSeq([i \in DOMAIN sent |-> Bytes(sent[i])]))
             \/ size = Capacity /\ Last(sent) = String(<<>>)
=============================================================================
