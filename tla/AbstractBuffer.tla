--------------------------- MODULE AbstractBuffer ---------------------------
(***************************************************************************)
(* What ByteArray promises: a flat sequence of bytes with a cursor.        *)
(***************************************************************************)
EXTENDS Integers, Sequences

CONSTANT Junk       \* a byte nobody has written

VARIABLES
    content,    \* the bytes
    offset,     \* the cursor: how many bytes are before it
    moved       \* the bytes the last operation put, or took

Longest(a, b) == IF a > b THEN a ELSE b

Init == content = <<>> /\ offset = 0 /\ moved = <<>>

\* Bytes go over those behind the cursor and lengthen the sequence.
Put ==
    /\ content' = [i \in 1..Longest(Len(content), offset + Len(moved')) |->
                      IF i \in offset + 1..offset + Len(moved')
                      THEN moved'[i - offset] ELSE content[i]]
    /\ offset' = offset + Len(moved')

Take ==
    /\ offset + Len(moved') <= Len(content)
    /\ moved' = SubSeq(content, offset + 1, offset + Len(moved'))
    /\ offset' \in {offset, offset + Len(moved')}
    /\ UNCHANGED content

Seek ==
    /\ content' = [i \in 1..Longest(Len(content), offset') |->
                      IF i <= Len(content) THEN content[i] ELSE Junk]
    /\ UNCHANGED moved

\* A new buffer of the bytes given.
Make == content' = moved' /\ offset' = 0

Next == Put \/ Take \/ Seek \/ Make

Spec == Init /\ [][Next]_<<content, offset, moved>>
=============================================================================
