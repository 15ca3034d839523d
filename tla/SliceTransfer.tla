--------------------------- MODULE SliceTransfer ----------------------------
(***************************************************************************)
(* What ZeroCopy::copy_slice promises: the target receives a growing prefix *)
(* of the slice, in order and without gap or repetition, never a byte past  *)
(* its end, and the call returns as soon as the prefix is the whole slice.  *)
(***************************************************************************)
EXTENDS Integers, Sequences

VARIABLES status,    \* "idle", "copying", "ok" or "err"
          want,      \* the slice: a record with fields position and len
          delivered  \* the file offsets of the bytes the target received, in order

vars == <<status, want, delivered>>

\* The offsets of n bytes from offset on.
Bytes(offset, n) == [i \in 1 .. n |-> offset + i - 1]

Init == status = "idle" /\ delivered = << >>

\* The slice is settled before the copy begins.
Start ==
  /\ status = "idle" /\ status' \in {"idle", "copying"}
  /\ status' = "copying" => want' = want
  /\ delivered' = delivered

Deliver ==
  /\ status = "copying"
  /\ \E n \in Len(delivered) .. want.len :
       /\ delivered' = Bytes(want.position, n)
       /\ status' \in IF n < want.len THEN {"copying", "ok", "err"} ELSE {"ok", "err"}
  /\ want' = want

Next == Start \/ Deliver

Spec == Init /\ [][Next]_vars
=============================================================================
