------------------------------ MODULE ZeroCopy ------------------------------
(***************************************************************************)
(* ZeroCopy::copy_slice, src/src/zero_copy.rs: a blocking closure moves the *)
(* bytes of a file slice to a socket with sendfile(2), in a loop that copes *)
(* with short transfers, a full socket buffer (EAGAIN) and the end of file. *)
(* The file may change and the peer may drain the socket between any two    *)
(* iterations.  A byte is identified by its offset in the file.             *)
(***************************************************************************)
EXTENDS FileSlice, Sequences

CONSTANTS Platforms,  \* the cfg(target_os) branches to explore
          Capacity    \* bound: bytes the socket holds before sendfile would block

ASSUME ZeroCopyAssumption ==
  Platforms \subseteq {"linux", "macos"} /\ Capacity \in Nat \ {0}

VARIABLES platform,  \* the branch that is compiled
          total_transferred, current_offset,  \* the locals of the closure
          sent,     \* offsets of the bytes the socket accepted, in order
          drained   \* how many of them the peer has read

copyVars == <<platform, total_transferred, current_offset, sent, drained>>
vars == <<sliceVars, copyVars>>

\* The closure's counters and the socket stay within the widths of their types.
CopyTypeOK ==
  /\ pc \in {"idle", "measured", "sliced", "position_error", "bytes_error", "io_error", "panicked",
             "loop", "sleep", "ok", "err"}
  /\ SliceTypeOK /\ platform \in Platforms
  /\ total_transferred \in Nat /\ current_offset \in Nat
  /\ sent \in Seq(Nat)
  /\ drained \in 0 .. Len(sent)

Init ==
  /\ SliceInit /\ platform \in Platforms
  /\ total_transferred = 0 /\ current_offset = 0
  /\ sent = << >> /\ drained = 0

PeerReads ==
  /\ drained < Len(sent)
  /\ drained' = drained + 1
  /\ UNCHANGED <<sliceVars, platform, total_transferred, current_offset, sent>>

\* copy_slice starts the closure.
CopySlice ==
  /\ pc = "sliced" /\ pc' = "loop"
  /\ total_transferred' = 0
  /\ current_offset' = slice.position
  /\ UNCHANGED <<fileLen, lowLen, request, slice, platform, sent, drained>>

---------------------------------------------------------------------------
\* Mutant: every call asks for the whole slice again.
to_be_transfer_all == slice.len

to_be_transfer == slice.len - total_transferred

\* The subtraction is one of u64: where the build checks for overflow an iteration that
\* follows more bytes than the slice has panics, elsewhere its count is negative.
Underflows == to_be_transfer < 0 /\ OverflowChecks

\* sendfile(2): what the kernel can move now.  To macOS a count of zero means all up to
\* the end of the file.
Asked == IF platform = "macos" /\ to_be_transfer = 0 THEN MaxFileLen ELSE to_be_transfer
Left == IF current_offset < fileLen /\ Asked > 0
        THEN IF Asked < fileLen - current_offset THEN Asked ELSE fileLen - current_offset
        ELSE 0
Room == Capacity - (Len(sent) - drained)

\* The numbers of bytes a successful call may report: 0 only when nothing is left.
SendfileOk == IF Left = 0 THEN {0} ELSE {n \in 1 .. Left : n <= Room}

\* The number of bytes moved by a call that reports EAGAIN, if one may.  Linux
\* does when it could move nothing; macOS also when it moved what there was room for.
SendfileAgain == {n \in {Room} : n < Left /\ (platform = "linux" => n = 0)}

\* The numbers of bytes moved by a call that fails for another reason.
SendfileFailed == IF platform = "linux" THEN {0} ELSE {n \in 0 .. Left : n <= Room}

\* The offsets of n bytes from offset on.
Bytes(offset, n) == [i \in 1 .. n |-> offset + i - 1]

\* The kernel takes n bytes from current_offset.
Moved(n) ==
  /\ sent' = sent \o Bytes(current_offset, n)
  /\ UNCHANGED <<platform, drained, fileLen, lowLen, request, slice>>

\* Mutant: an iteration that moves fewer bytes than asked for ends the copy.
TransferOnce(n) ==
  /\ pc = "loop" /\ ~Underflows /\ n \in SendfileOk
  /\ Moved(n)
  /\ total_transferred' = total_transferred + n
  /\ current_offset' = current_offset + n
  /\ pc' = "ok"

\* Mutant: zero bytes are not taken for the end of the file.
TransferNoEof(n) ==
  /\ pc = "loop" /\ ~Underflows /\ n \in SendfileOk
  /\ Moved(n)
  /\ total_transferred' = total_transferred + n
  /\ current_offset' = current_offset + n
  /\ pc' = IF total_transferred' < slice.len THEN "loop" ELSE "ok"

\* One iteration that moves n bytes.
Transfer(n) ==
  /\ pc = "loop" /\ ~Underflows /\ n \in SendfileOk
  /\ Moved(n)
  /\ total_transferred' = total_transferred + n
  /\ current_offset' = current_offset + n
  /\ pc' = IF n > 0 /\ total_transferred' < slice.len THEN "loop" ELSE "ok"

\* Mutant: the count that comes with EAGAIN is forgotten.
AgainForgets(n) ==
  /\ pc = "loop" /\ ~Underflows /\ n \in SendfileAgain
  /\ Moved(n)
  /\ UNCHANGED <<total_transferred, current_offset>>
  /\ pc' = "sleep"

\* EAGAIN: count what was moved, sleep 10 ms in the closure, try again.
Again(n) ==
  /\ pc = "loop" /\ ~Underflows /\ n \in SendfileAgain
  /\ Moved(n)
  /\ total_transferred' = total_transferred + n
  /\ current_offset' = current_offset + n
  /\ pc' = "sleep"

SleepOver ==
  /\ pc = "sleep" /\ pc' = "loop"
  /\ UNCHANGED <<fileLen, lowLen, request, slice, copyVars>>

\* Any other errno: the caller is told of the error and not of the bytes.
Fail(n) ==
  /\ pc = "loop" /\ ~Underflows /\ n \in SendfileFailed
  /\ Moved(n)
  /\ total_transferred' = total_transferred + n
  /\ current_offset' = current_offset + n
  /\ pc' = "err"

\* The panic of the closure reaches the caller, who awaits it.
UnderflowPanics ==
  /\ pc = "loop" /\ Underflows
  /\ pc' = "panicked"
  /\ UNCHANGED <<fileLen, lowLen, request, slice, copyVars>>

---------------------------------------------------------------------------
Progress == UnderflowPanics \/ \E n \in 0 .. MaxFileLen : Transfer(n) \/ Again(n)
Iteration == Progress \/ \E n \in 0 .. MaxFileLen : Fail(n)

Next ==
  \/ SliceNext /\ UNCHANGED copyVars
  \/ CopySlice
  \/ Iteration
  \/ SleepOver
  \/ PeerReads

Spec == Init /\ [][Next]_vars

\* The closure has a thread of its own, and the peer keeps reading.  An error
\* is never owed.
FairSpec == Spec /\ WF_vars(Progress) /\ WF_vars(SleepOver) /\ WF_vars(PeerReads)

---------------------------------------------------------------------------
Copying == pc \in {"loop", "sleep", "ok", "err"}

\* The copies that sendfile takes for copies up to the end of the file: those of an
\* empty slice on macOS.
ToEndOfFile == platform = "macos" /\ slice.len = 0

\* Whatever mix of short transfers, EAGAIN, errors and file changes happens, the
\* bytes the target received are the first total_transferred bytes from the slice's
\* position on, in order, and no more than the slice has, unless the slice is empty
\* and the platform macOS, where they go on up to the end of the file.
DeliveredIsSlicePrefix ==
  Copying => /\ sent = Bytes(slice.position, total_transferred)
             /\ current_offset = slice.position + total_transferred
             /\ total_transferred <= slice.len \/ ToEndOfFile

\* copy_slice returns Ok with fewer bytes than the slice has only when the file
\* was, at some moment of the call, too short to supply the next byte.
ShortMeansFileWasShort ==
  pc = "ok" /\ total_transferred < slice.len => lowLen <= slice.position + total_transferred

\* A slice from as_slice is copied whole, and nothing more unless it is empty and the
\* platform macOS, when the file has not been truncated since it was measured.
UnshrunkFileIsCopiedWhole ==
  pc = "ok" /\ slice.checked /\ lowLen = request.len => total_transferred = slice.len \/ ToEndOfFile

\* A copy that has begun returns, if the peer keeps reading; only one of an empty slice
\* on macOS may panic instead.
CopyTerminates == pc = "loop" ~> pc \in {"ok", "err"} \/ (pc = "panicked" /\ ToEndOfFile)

Status ==
  IF ~Copying \/ ToEndOfFile THEN "idle"
  ELSE IF pc \in {"ok", "err"} THEN pc ELSE "copying"

\* A copy up to the end of the file is none of the promised transfers.
Delivered == IF ToEndOfFile THEN << >> ELSE sent

Abstract == INSTANCE SliceTransfer WITH status <- Status, want <- slice, delivered <- Delivered

\* copy_slice implements the transfer that its callers rely on, but for an empty slice
\* on macOS.
ImplementsTransfer == Abstract!Spec
=============================================================================
