------------------------------ MODULE FlatBytes ------------------------------
(***************************************************************************)
(* What ByteArray promises: a string of bytes with a position, at which    *)
(* bytes are written over what is there, or behind the end, and read.      *)
(***************************************************************************)
EXTENDS Naturals, Sequences

VARIABLES
  bytes, position,
  passed     \* the bytes the last operation was given or has returned
vars == <<bytes, position, passed>>

Init == bytes = << >> /\ position = 0 /\ passed = << >>

Put ==
  /\ position' = position + Len(passed')
  /\ bytes' = SubSeq(bytes, 1, position) \o passed'
                \o SubSeq(bytes, position' + 1, Len(bytes))

Get ==
  /\ position' \in position..Len(bytes)
  /\ passed' = SubSeq(bytes, position + 1, position')
  /\ UNCHANGED bytes

\* Reading to the end without moving.
Peek == passed' = SubSeq(bytes, position + 1, Len(bytes)) /\ UNCHANGED <<bytes, position>>

\* The bytes between the old end and a position behind it are anything.
Seek ==
  /\ position' \in Nat
  /\ Len(bytes') = IF position' > Len(bytes) THEN position' ELSE Len(bytes)
  /\ SubSeq(bytes', 1, Len(bytes)) = bytes
  /\ UNCHANGED passed

Clear == bytes' = << >> /\ position' = 0 /\ UNCHANGED passed

Next == Put \/ Get \/ Peek \/ Seek \/ Clear

Spec == Init /\ [][Next]_vars
=============================================================================
