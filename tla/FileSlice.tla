----------------------------- MODULE FileSlice ------------------------------
(***************************************************************************)
(* AsyncFileSlice (src/src/file_slice.rs) and the AsyncFileExtension that   *)
(* makes one (src/src/fs/extension.rs).  A slice is a raw descriptor with   *)
(* a position and a length; the file behind it belongs to everybody, so its *)
(* length may change at any moment.                                         *)
(***************************************************************************)
EXTENDS Integers

CONSTANTS MaxU64,          \* u64::MAX, the width of positions and lengths
          Numbers,         \* bound: the positions and lengths callers ask for
          MaxFileLen,      \* bound on the length of the file
          OverflowChecks,  \* whether the build panics on overflow (debug) or wraps (release)
          None             \* Option::None

ASSUME FileSliceAssumption ==
  /\ MaxU64 \in Nat /\ Numbers \subseteq 0 .. MaxU64
  /\ MaxFileLen \in 0 .. MaxU64
  /\ OverflowChecks \in BOOLEAN
  /\ None \notin Int

VARIABLES pc,       \* control of the caller
          fileLen,  \* length of the file
          lowLen,   \* history: the least length since the caller began
          request,  \* the arguments of as_slice and the length metadata() returned
          slice     \* the slice, and whether as_slice checked it

sliceVars == <<pc, fileLen, lowLen, request, slice>>

U64 == 0 .. MaxU64

SliceTypeOK ==
  /\ fileLen \in 0 .. MaxFileLen /\ lowLen \in 0 .. MaxFileLen
  /\ request \in [position : U64, desired : U64 \cup {None}, len : U64]
  /\ slice \in [position : U64, len : U64, checked : BOOLEAN]

SliceInit ==
  /\ pc = "idle"
  /\ fileLen \in 0 .. MaxFileLen /\ lowLen = fileLen
  /\ request = [position |-> 0, desired |-> None, len |-> 0]
  /\ slice = [position |-> 0, len |-> 0, checked |-> FALSE]

\* Another handle truncates or extends the file.
FileChange ==
  /\ fileLen' \in 0 .. MaxFileLen
  /\ lowLen' = IF fileLen' < lowLen THEN fileLen' ELSE lowLen
  /\ UNCHANGED <<pc, request, slice>>

\* raw_slice: no check at all.
RawSlice(position, len) ==
  /\ pc = "idle" /\ pc' = "sliced"
  /\ slice' = [position |-> position, len |-> len, checked |-> FALSE]
  /\ lowLen' = fileLen
  /\ UNCHANGED <<fileLen, request>>

\* as_slice: the length is read through an await ...
AsSliceMetadata(position, desired) ==
  /\ pc = "idle" /\ pc' = "measured"
  /\ request' = [position |-> position, desired |-> desired, len |-> fileLen]
  /\ lowLen' = fileLen
  /\ UNCHANGED <<fileLen, slice>>

AsSliceMetadataFails ==
  /\ pc = "idle" /\ pc' = "io_error"
  /\ UNCHANGED <<fileLen, lowLen, request, slice>>

\* u64 addition in a build without overflow checks.
U64Add(a, b) == IF a + b > MaxU64 THEN a + b - (MaxU64 + 1) ELSE a + b

\* ... and the arguments are checked against it.
Verdict(r) ==
  IF r.position >= r.len THEN "position_error"
  ELSE IF r.desired = None THEN "sliced"
  ELSE IF OverflowChecks /\ r.position + r.desired > MaxU64 THEN "panicked"
  ELSE IF U64Add(r.position, r.desired) >= r.len THEN "bytes_error"
  ELSE "sliced"

\* Mutant: the rest of the file counted from its beginning.
SliceLenFromStart(r) == IF r.desired = None THEN r.len ELSE r.desired

SliceLen(r) == IF r.desired = None THEN r.len - r.position ELSE r.desired

AsSliceReturn ==
  /\ pc = "measured" /\ pc' = Verdict(request)
  /\ slice' = IF pc' = "sliced"
              THEN [position |-> request.position, len |-> SliceLen(request), checked |-> TRUE]
              ELSE slice
  /\ UNCHANGED <<fileLen, lowLen, request>>

SliceNext ==
  \/ \E position, len \in Numbers : RawSlice(position, len)
  \/ \E position \in Numbers, desired \in Numbers \cup {None} : AsSliceMetadata(position, desired)
  \/ AsSliceMetadataFails
  \/ AsSliceReturn
  \/ FileChange

---------------------------------------------------------------------------
\* A slice that as_slice returned lies inside the file it measured: the check
\* of lines 63-68 leaves no request beyond the end through.
CheckedSliceInsideFile ==
  slice.checked => slice.position + slice.len <= request.len
=============================================================================
