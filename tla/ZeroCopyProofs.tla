--------------------------- MODULE ZeroCopyProofs ---------------------------
(***************************************************************************)
(* Proofs about FileSlice and ZeroCopy for every file length, slice, socket *)
(* capacity and platform.                                                   *)
(***************************************************************************)
EXTENDS ZeroCopy, SequenceTheorems, TLAPS

USE FileSliceAssumption, ZeroCopyAssumption

\* The slice operations keep the types of the slice state, and move the caller
\* between the outcomes of as_slice.
LEMMA SliceTyping ==
  ASSUME SliceTypeOK, SliceNext
  PROVE  SliceTypeOK'
<1> USE DEF SliceTypeOK, U64
<1>1. ASSUME NEW position \in Numbers, NEW len \in Numbers, RawSlice(position, len)
      PROVE  SliceTypeOK'
  BY <1>1 DEF RawSlice
<1>2. ASSUME NEW position \in Numbers, NEW desired \in Numbers \cup {None},
             AsSliceMetadata(position, desired)
      PROVE  SliceTypeOK'
  BY <1>2 DEF AsSliceMetadata
<1>3. CASE AsSliceMetadataFails
  BY <1>3 DEF AsSliceMetadataFails
<1>4. CASE AsSliceReturn
  BY <1>4 DEF AsSliceReturn, Verdict, SliceLen, U64Add
<1>5. CASE FileChange
  BY <1>5 DEF FileChange
<1> QED BY <1>1, <1>2, <1>3, <1>4, <1>5 DEF SliceNext

\* Two consecutive runs of offsets make one run.
LEMMA RunsJoin ==
  ASSUME NEW p \in Nat, NEW k \in Nat, NEW n \in Nat
  PROVE  /\ Bytes(p, k) \o Bytes(p + k, n) = Bytes(p, k + n)
         /\ Bytes(p, k) \in Seq(Nat)
         /\ Len(Bytes(p, k)) = k
<1> DEFINE s == Bytes(p, k)
           t == Bytes(p + k, n)
           r == Bytes(p, k + n)
<1> USE DEF Bytes
<1>1. s \in Seq(Nat) /\ t \in Seq(Nat) /\ r \in Seq(Nat)
  OBVIOUS
<1>2. Len(s) = k /\ Len(t) = n /\ Len(r) = k + n
  OBVIOUS
<1>3. s \o t \in Seq(Nat) /\ Len(s \o t) = k + n
  BY <1>1, <1>2
<1>4. \A i \in 1 .. k + n : (s \o t)[i] = r[i]
  BY <1>1, <1>2
<1>5. s \o t = r
  <2> HIDE DEF s, t, r
  <2> QED BY <1>1, <1>2, <1>3, <1>4, SeqEqual
<1> QED BY <1>1, <1>2, <1>5

---------------------------------------------------------------------------
\* The inductive invariant: the prefix property, the history of the file's length, a
\* socket that is untouched until the copy begins, and a loop that goes on only while
\* something is left of the slice: a count of zero would mean all of the file to macOS.
CopyInv ==
  /\ CopyTypeOK
  /\ lowLen <= fileLen
  /\ ~Copying /\ pc # "panicked" => sent = << >>
  /\ pc \in {"loop", "sleep"} => total_transferred < slice.len \/ slice.len = 0
  /\ DeliveredIsSlicePrefix
  /\ ShortMeansFileWasShort

LEMMA CopyInvInit == Init => CopyInv
<1> SUFFICES ASSUME Init PROVE CopyInv
  OBVIOUS
<1>1. SliceTypeOK
  BY DEF Init, SliceInit, SliceTypeOK, U64
<1> QED BY <1>1 DEF Init, SliceInit, CopyInv, CopyTypeOK, Copying, DeliveredIsSlicePrefix, ShortMeansFileWasShort

\* What an iteration that moves n bytes does to the counters and the socket.
LEMMA MovedKeepsPrefix ==
  ASSUME CopyInv, pc = "loop", NEW n \in 0 .. MaxFileLen, n <= Left, Moved(n),
         total_transferred' = total_transferred + n,
         current_offset' = current_offset + n,
         pc' \in {"loop", "sleep", "ok", "err"}
  PROVE  CopyTypeOK' /\ lowLen' <= fileLen' /\ DeliveredIsSlicePrefix'
<1>1. /\ slice.position \in Nat /\ slice.len \in Nat /\ total_transferred \in Nat
      /\ fileLen \in Nat /\ lowLen <= fileLen /\ current_offset \in Nat
  BY DEF CopyInv, CopyTypeOK, SliceTypeOK, U64
<1>2. /\ sent = Bytes(slice.position, total_transferred)
      /\ current_offset = slice.position + total_transferred
      /\ total_transferred <= slice.len \/ ToEndOfFile
      /\ total_transferred < slice.len \/ slice.len = 0
  BY DEF CopyInv, DeliveredIsSlicePrefix, Copying
<1>3. total_transferred + n <= slice.len \/ ToEndOfFile
  BY <1>1, <1>2 DEF Left, Asked, to_be_transfer, ToEndOfFile
<1>4. sent' = Bytes(slice.position, total_transferred + n)
  <2>1. n \in Nat
    OBVIOUS
  <2>2. Bytes(slice.position, total_transferred) \o Bytes(slice.position + total_transferred, n)
          = Bytes(slice.position, total_transferred + n)
    BY <1>1, <2>1, RunsJoin
  <2> QED BY <1>2, <2>2 DEF Moved
<1>5. sent' \in Seq(Nat) /\ Len(sent') = total_transferred + n /\ Len(sent) = total_transferred
  <2>1. total_transferred + n \in Nat
    BY <1>1
  <2>2. Bytes(slice.position, total_transferred + n) \in Seq(Nat)
    BY <1>1, <2>1, RunsJoin
  <2>3. Len(Bytes(slice.position, total_transferred + n)) = total_transferred + n
    BY <1>1, <2>1, RunsJoin
  <2>4. Len(Bytes(slice.position, total_transferred)) = total_transferred
    BY <1>1, RunsJoin
  <2> QED BY <1>2, <1>4, <2>2, <2>3, <2>4
<1>6. CopyTypeOK'
  BY <1>1, <1>5 DEF CopyInv, CopyTypeOK, SliceTypeOK, Moved
<1>7. lowLen' <= fileLen'
  BY <1>1 DEF Moved
<1>8. DeliveredIsSlicePrefix'
  BY <1>1, <1>2, <1>3, <1>4, current_offset' = slice.position + (total_transferred + n)
     DEF DeliveredIsSlicePrefix, Moved, ToEndOfFile
<1> QED BY <1>6, <1>7, <1>8

\* Until the copy begins the slice operations leave the copy alone; once it
\* has begun the only one still possible is a change of the file's length.
LEMMA SliceStepKeepsCopyInv ==
  ASSUME CopyInv, SliceNext, UNCHANGED copyVars
  PROVE  CopyInv'
<1> USE DEF copyVars, Copying
<1>1. SliceTypeOK'
  BY SliceTyping DEF CopyInv, CopyTypeOK
<1>2. fileLen \in Nat /\ lowLen \in Nat /\ lowLen <= fileLen
  BY DEF CopyInv, CopyTypeOK, SliceTypeOK
<1>3. CASE FileChange
  <2>1. lowLen' <= fileLen' /\ lowLen' <= lowLen /\ lowLen' \in Nat
    BY <1>2, <1>3 DEF FileChange
  <2>2. ShortMeansFileWasShort'
    BY <1>2, <1>3, <2>1 DEF FileChange, CopyInv, CopyTypeOK, SliceTypeOK, U64, ShortMeansFileWasShort
  <2> QED BY <1>1, <1>3, <2>1, <2>2 DEF FileChange, CopyInv, CopyTypeOK, DeliveredIsSlicePrefix, ToEndOfFile
<1>4. CASE ~FileChange
  <2>1. /\ pc \in {"idle", "measured"}
        /\ pc' \in {"measured", "sliced", "position_error", "bytes_error", "io_error", "panicked"}
        /\ fileLen' = fileLen /\ lowLen' \in {lowLen, fileLen}
    BY <1>4 DEF SliceNext, RawSlice, AsSliceMetadata, AsSliceMetadataFails, AsSliceReturn, Verdict
  <2> QED BY <1>1, <1>2, <2>1 DEF CopyInv, CopyTypeOK, DeliveredIsSlicePrefix, ShortMeansFileWasShort
<1> QED BY <1>3, <1>4

LEMMA CopyInvNext == CopyInv /\ [Next]_vars => CopyInv'
<1> SUFFICES ASSUME CopyInv, [Next]_vars PROVE CopyInv'
  OBVIOUS
<1>1. CASE SliceNext /\ UNCHANGED copyVars
  BY <1>1, SliceStepKeepsCopyInv
<1>2. CASE CopySlice
  <2>1. slice.position \in Nat /\ slice.len \in Nat
    BY DEF CopyInv, CopyTypeOK, SliceTypeOK, U64
  <2>2. sent = << >> /\ << >> = Bytes(slice.position, 0)
    BY <1>2 DEF CopySlice, CopyInv, Copying, Bytes
  <2> QED BY <1>2, <2>1, <2>2
       DEF CopySlice, CopyInv, CopyTypeOK, SliceTypeOK, Copying, DeliveredIsSlicePrefix, ShortMeansFileWasShort
<1>3. ASSUME NEW n \in 0 .. MaxFileLen, Transfer(n) \/ Again(n) \/ Fail(n)
      PROVE  CopyInv'
  <2>1. /\ fileLen \in Nat /\ lowLen \in Nat /\ slice.len \in Nat /\ slice.position \in Nat
        /\ total_transferred \in Nat /\ current_offset \in Nat /\ lowLen <= fileLen
        /\ Left \in Nat
    BY DEF CopyInv, CopyTypeOK, SliceTypeOK, U64, Left, Asked, to_be_transfer
  <2>2. n <= Left
    BY <1>3, <2>1 DEF Transfer, Again, Fail, SendfileOk, SendfileAgain, SendfileFailed
  <2>3. /\ pc = "loop" /\ Moved(n) /\ pc' \in {"loop", "sleep", "ok", "err"}
        /\ total_transferred' = total_transferred + n /\ current_offset' = current_offset + n
    BY <1>3 DEF Transfer, Again, Fail
  <2>4. CopyTypeOK' /\ lowLen' <= fileLen' /\ DeliveredIsSlicePrefix'
    BY <2>2, <2>3, MovedKeepsPrefix
  <2>5. ASSUME pc' = "ok", total_transferred' < slice.len
        PROVE  lowLen <= slice.position + total_transferred'
    <3>1. Transfer(n) /\ n = 0
      BY <1>3, <2>5 DEF Transfer, Again, Fail
    <3>2. fileLen <= current_offset
      BY <2>1, <2>5, <3>1 DEF Transfer, SendfileOk, Left, Asked, to_be_transfer
    <3> QED BY <2>1, <2>3, <3>1, <3>2 DEF CopyInv, DeliveredIsSlicePrefix, Copying
  <2>6. pc' \in {"loop", "sleep"} => total_transferred' < slice.len \/ slice.len = 0
    <3>1. CASE Transfer(n)
      BY <3>1 DEF Transfer
    <3>2. CASE Again(n)
      <4>1. n < Left
        BY <3>2 DEF Again, SendfileAgain
      <4> QED BY <2>1, <2>3, <4>1 DEF Left, Asked, to_be_transfer, CopyInv
    <3>3. CASE Fail(n)
      BY <3>3 DEF Fail
    <3> QED BY <1>3, <3>1, <3>2, <3>3
  <2> QED BY <2>3, <2>4, <2>5, <2>6 DEF CopyInv, ShortMeansFileWasShort, Moved, Copying
<1>4. CASE SleepOver
  BY <1>4 DEF SleepOver, CopyInv, CopyTypeOK, SliceTypeOK, Copying, DeliveredIsSlicePrefix,
              ShortMeansFileWasShort, copyVars, ToEndOfFile
<1>5. CASE PeerReads
  <2>1. drained' \in 0 .. Len(sent')
    BY <1>5 DEF PeerReads, CopyInv, CopyTypeOK
  <2> QED BY <1>5, <2>1 DEF PeerReads, CopyInv, CopyTypeOK, SliceTypeOK, Copying, DeliveredIsSlicePrefix,
              ShortMeansFileWasShort, sliceVars, ToEndOfFile
<1>6. CASE UNCHANGED vars
  BY <1>6 DEF vars, sliceVars, copyVars, CopyInv, CopyTypeOK, SliceTypeOK, Copying,
              DeliveredIsSlicePrefix, ShortMeansFileWasShort, ToEndOfFile
<1>7. CASE UnderflowPanics
  BY <1>7 DEF UnderflowPanics, CopyInv, CopyTypeOK, SliceTypeOK, Copying, DeliveredIsSlicePrefix,
              ShortMeansFileWasShort, copyVars
<1> QED BY <1>1, <1>2, <1>3, <1>4, <1>5, <1>6, <1>7 DEF Next, Iteration, Progress

\* The types, the prefix property of the bytes delivered and the meaning of a short Ok
\* hold for every file, slice, socket and platform; the bytes of an empty slice on macOS
\* go on up to the end of the file, which the prefix property says.
THEOREM CopyCorrect ==
  Spec => [](CopyTypeOK /\ DeliveredIsSlicePrefix /\ ShortMeansFileWasShort)
<1>1. CopyInv => CopyTypeOK /\ DeliveredIsSlicePrefix /\ ShortMeansFileWasShort
  BY DEF CopyInv
<1> QED BY <1>1, CopyInvInit, CopyInvNext, PTL DEF Spec

\* copy_slice returns Ok with less than the slice only if the file was too short for it: its loop
\* leaves nothing behind for want of another round, whatever sendfile takes at a time.
THEOREM ShortCopyMeansShortFile == Spec => []ShortMeansFileWasShort
<1> QED BY CopyCorrect, PTL

---------------------------------------------------------------------------
\* A checked slice lies inside the length that as_slice measured.
CheckedInv ==
  /\ CheckedSliceInsideFile
  /\ slice.checked => pc \notin {"idle", "measured"}

LEMMA CheckedInvNext ==
  ASSUME OverflowChecks, CopyInv, CheckedInv, [Next]_vars
  PROVE  CheckedInv'
<1> USE DEF CheckedInv, CheckedSliceInsideFile
<1>1. CASE UNCHANGED <<request, slice>>
  <2>1. pc \notin {"idle", "measured"} => pc' \notin {"idle", "measured"}
    BY DEF Next, SliceNext, RawSlice, AsSliceMetadata, AsSliceMetadataFails, AsSliceReturn, FileChange,
           Verdict, CopySlice, Iteration, Progress, Transfer, Again, Fail, SleepOver, PeerReads,
           UnderflowPanics, vars, sliceVars
  <2> QED BY <1>1, <2>1
<1>2. CASE AsSliceReturn
  <2>1. CASE pc' = "sliced"
    BY <1>2, <2>1 DEF AsSliceReturn, Verdict, SliceLen, U64Add, CopyInv, CopyTypeOK, SliceTypeOK, U64
  <2>2. CASE pc' # "sliced"
    BY <1>2, <2>2 DEF AsSliceReturn
  <2> QED BY <2>1, <2>2
<1>3. ASSUME NEW position \in Numbers, NEW len \in Numbers, RawSlice(position, len)
      PROVE  CheckedInv'
  BY <1>3 DEF RawSlice
<1>4. ASSUME NEW position \in Numbers, NEW desired \in Numbers \cup {None},
             AsSliceMetadata(position, desired)
      PROVE  CheckedInv'
  BY <1>4 DEF AsSliceMetadata
<1>5. \/ UNCHANGED <<request, slice>> \/ AsSliceReturn
      \/ \E position, len \in Numbers : RawSlice(position, len)
      \/ \E position \in Numbers, desired \in Numbers \cup {None} : AsSliceMetadata(position, desired)
  BY DEF Next, SliceNext, AsSliceMetadataFails, FileChange, CopySlice, Iteration, Progress, Transfer, Again, Fail,
         Moved, SleepOver, PeerReads, UnderflowPanics, vars, sliceVars
<1> QED BY <1>1, <1>2, <1>3, <1>4, <1>5

\* In a build with overflow checks as_slice never returns a slice beyond the
\* file it measured, and copy_slice then copies all of it unless the file has
\* been truncated in between, and nothing more unless it is empty and the platform macOS.
THEOREM CheckedSliceIsCopiedWhole ==
  ASSUME OverflowChecks
  PROVE  Spec => [](CheckedSliceInsideFile /\ UnshrunkFileIsCopiedWhole)
<1>1. Init => CheckedInv
  BY DEF Init, SliceInit, CheckedInv, CheckedSliceInsideFile
<1>2. CopyInv /\ CheckedInv /\ [Next]_vars => CheckedInv'
  BY CheckedInvNext
<1>3. CopyInv /\ CheckedInv => CheckedSliceInsideFile /\ UnshrunkFileIsCopiedWhole
  <2> SUFFICES ASSUME CopyInv, CheckedInv, pc = "ok", slice.checked, lowLen = request.len
               PROVE  total_transferred = slice.len \/ ToEndOfFile
    BY DEF CheckedInv, UnshrunkFileIsCopiedWhole
  <2>1. /\ slice.position \in Nat /\ slice.len \in Nat /\ request.len \in Nat
        /\ total_transferred \in Nat
    BY DEF CopyInv, CopyTypeOK, SliceTypeOK, U64
  <2>2. slice.position + slice.len <= lowLen
    BY DEF CheckedInv, CheckedSliceInsideFile
  <2>3. total_transferred <= slice.len \/ ToEndOfFile
    BY DEF CopyInv, DeliveredIsSlicePrefix, Copying
  <2> QED BY <2>1, <2>2, <2>3 DEF CopyInv, ShortMeansFileWasShort
<1> QED BY <1>1, <1>2, <1>3, CopyInvInit, CopyInvNext, PTL DEF Spec

---------------------------------------------------------------------------
\* copy_slice implements the abstract transfer: each iteration of the loop
\* delivers a longer prefix of the slice and returns once it is whole.  The copy of an
\* empty slice on macOS is no step of it.
THEOREM CopyRefinesTransfer == Spec => ImplementsTransfer
<1>1. Init => Abstract!Init
  BY DEF Init, SliceInit, Abstract!Init, Status, Delivered, Copying
<1>2. CopyInv /\ CopyInv' /\ [Next]_vars => [Abstract!Next]_Abstract!vars
  <2> SUFFICES ASSUME CopyInv, CopyInv', [Next]_vars PROVE [Abstract!Next]_Abstract!vars
    OBVIOUS
  <2> USE DEF Status, Delivered, ToEndOfFile, Copying, Abstract!vars
  <2>1. CASE SliceNext /\ UNCHANGED copyVars
    <3>1. CASE FileChange
      BY <2>1, <3>1 DEF FileChange, copyVars
    <3>2. CASE ~FileChange
      <4>1. /\ pc \in {"idle", "measured"}
            /\ pc' \in {"measured", "sliced", "position_error", "bytes_error", "io_error", "panicked"}
        BY <2>1, <3>2 DEF SliceNext, RawSlice, AsSliceMetadata, AsSliceMetadataFails, AsSliceReturn, Verdict
      <4>2. Delivered = << >> /\ Delivered' = << >>
        BY <2>1, <4>1 DEF copyVars, CopyInv
      <4>3. Status = "idle" /\ Status' = "idle"
        BY <4>1
      <4> QED BY <4>2, <4>3 DEF Abstract!Next, Abstract!Start
    <3> QED BY <3>1, <3>2
  <2>2. CASE CopySlice
    BY <2>2 DEF CopySlice, Abstract!Next, Abstract!Start
  <2>3. ASSUME NEW n \in 0 .. MaxFileLen, Transfer(n) \/ Again(n) \/ Fail(n), ToEndOfFile
        PROVE  UNCHANGED Abstract!vars
    BY <2>3 DEF Transfer, Again, Fail, Moved
  <2>4. ASSUME NEW n \in 0 .. MaxFileLen, Transfer(n) \/ Again(n) \/ Fail(n), ~ToEndOfFile
        PROVE  Abstract!Deliver
    <3>1. /\ pc = "loop" /\ pc' \in {"loop", "sleep", "ok", "err"} /\ slice' = slice
          /\ total_transferred' = total_transferred + n /\ platform' = platform
          /\ Delivered = sent /\ Delivered' = sent' /\ ~ToEndOfFile'
      BY <2>4 DEF Transfer, Again, Fail, Moved
    <3>2. /\ total_transferred \in Nat /\ slice.position \in Nat /\ slice.len \in Nat
          /\ current_offset \in Nat /\ fileLen \in Nat
      BY DEF CopyInv, CopyTypeOK, SliceTypeOK, U64
    <3>3. Len(sent) = total_transferred
      <4>1. sent = Bytes(slice.position, total_transferred)
        BY <3>1 DEF CopyInv, DeliveredIsSlicePrefix
      <4>2. Len(Bytes(slice.position, total_transferred)) = total_transferred
        BY <3>2, RunsJoin
      <4> QED BY <4>1, <4>2
    <3>4. sent' = Bytes(slice.position, total_transferred') /\ total_transferred' <= slice.len
      BY <3>1, <2>4 DEF CopyInv, DeliveredIsSlicePrefix
    <3>5. total_transferred' \in Len(sent) .. slice.len
      BY <3>1, <3>2, <3>3, <3>4
    <3>6. total_transferred' >= slice.len => pc' \in {"ok", "err"}
      <4>1. CASE Transfer(n)
        BY <3>1, <3>2, <4>1 DEF Transfer
      <4>2. CASE Again(n)
        <5>1. n < Left
          BY <4>2 DEF Again, SendfileAgain
        <5> QED BY <2>4, <3>1, <3>2, <5>1 DEF Left, Asked, to_be_transfer, CopyInv, DeliveredIsSlicePrefix
      <4>3. CASE Fail(n)
        BY <4>3 DEF Fail
      <4> QED BY <2>4, <4>1, <4>2, <4>3
    <3>7. sent' = Abstract!Bytes(slice.position, total_transferred')
      BY <3>4 DEF Bytes, Abstract!Bytes
    <3>8. Status = "copying" /\ Status' \in {"copying", "ok", "err"}
      BY <2>4, <3>1
    <3>9. Status' \in IF total_transferred' < slice.len THEN {"copying", "ok", "err"} ELSE {"ok", "err"}
      BY <3>1, <3>2, <3>4, <3>6, <3>8
    <3> HIDE DEF Status, Delivered
    <3> QED BY <3>1, <3>5, <3>7, <3>8, <3>9 DEF Abstract!Deliver
  <2>5. CASE SleepOver
    BY <2>5 DEF SleepOver, copyVars
  <2>6. CASE PeerReads
    BY <2>6 DEF PeerReads, sliceVars
  <2>7. CASE UNCHANGED vars
    BY <2>7 DEF vars, sliceVars, copyVars
  <2>8. CASE UnderflowPanics
    <3>1. ToEndOfFile
      BY <2>8 DEF UnderflowPanics, Underflows, to_be_transfer, CopyInv, CopyTypeOK, SliceTypeOK, U64,
                  DeliveredIsSlicePrefix
    <3> QED BY <2>8, <3>1 DEF UnderflowPanics, copyVars
  <2> HIDE DEF Status, Delivered
  <2> QED BY <2>1, <2>2, <2>3, <2>4, <2>5, <2>6, <2>7, <2>8 DEF Next, Iteration, Progress, Abstract!Next
<1> QED BY <1>1, <1>2, CopyInvInit, CopyInvNext, PTL DEF Spec, ImplementsTransfer, Abstract!Spec
=============================================================================
