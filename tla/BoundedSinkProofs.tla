------------------------- MODULE BoundedSinkProofs --------------------------
(***************************************************************************)
(* Proofs about BoundedFileSink for every max_len, every length of file and *)
(* buffer and every capacity of the pipe below it.                          *)
(***************************************************************************)
EXTENDS BoundedSink, TLAPS

USE BoundedSinkAssumption

\* Lengths are natural numbers, and max_len is one of the values an option has.
SinkTypeOK ==
  /\ sink \in {"closed", "write", "read", "append"}
  /\ max_len \in MaxLens \cup {None}
  /\ fileLen \in Nat /\ current_len \in Nat /\ todo \in Nat /\ buffer \in Nat
  /\ orphans \in Nat /\ opened \in Nat /\ lost \in Nat /\ accepted \in Nat /\ base \in Nat
  /\ failed \in BOOLEAN /\ early \in BOOLEAN

\* What is left of a dropped sink is an orphan, and there are none beside a sink
\* that began without them.
PipesSettled ==
  /\ sink = "closed" => todo = 0 /\ buffer = 0 /\ ~failed
  /\ failed => buffer = 0
  /\ Settled => orphans = 0

\* Room was asked for before a byte was counted, and the rest of a write_all still
\* has it.
RoomForTheRest ==
  sink # "closed" =>
    /\ opened <= current_len
    /\ max_len # None /\ (current_len > opened \/ todo > 0) => current_len + todo <= max_len

\* Unless a write failed, what was accepted since the last flush is in the pipe or
\* beyond the place where the file ended then.
NothingMissing == Settled /\ ~failed => fileLen + buffer = base + accepted

\* The inductive invariant.
SinkInv ==
  /\ SinkTypeOK
  /\ PipesSettled
  /\ RoomForTheRest
  /\ CountedBytesAccounted
  /\ NothingMissing

LEMMA SinkInvInit == Init => SinkInv
<1> SUFFICES ASSUME Init
             PROVE  SinkInv
  OBVIOUS
<1>1. ~failed /\ failed \in BOOLEAN /\ early \in BOOLEAN
  BY Zenon DEF Init
<1> QED
  BY <1>1 DEF Init, SinkInv, SinkTypeOK, PipesSettled, RoomForTheRest, NothingMissing,
              CountedBytesAccounted, Settled

\* early says whether bytes of sinks before were still out.
LEMMA OpenNotesOrphans ==
  ASSUME NEW mode, NEW len, Open(mode, len)
  PROVE  (early' <=> orphans > 0) /\ early' \in BOOLEAN
<1>1. early' = (orphans > 0)
  BY DEF Open
<1>2. (orphans > 0) \in BOOLEAN
  OBVIOUS
<1> QED BY <1>1, <1>2, Zenon

LEMMA SinkInvNext == SinkInv /\ [Next]_vars => SinkInv'
<1> SUFFICES ASSUME SinkInv, [Next]_vars
             PROVE  SinkInv'
  OBVIOUS
<1> USE DEF SinkInv, SinkTypeOK, PipesSettled, RoomForTheRest, NothingMissing,
            CountedBytesAccounted, Settled, vars, fileVars, sinkVars, flushVars
<1>1. CASE UNCHANGED vars
  BY <1>1
<1>2. CASE create
  <2>1. Open("write", 0) /\ fileLen' = 0
    BY <1>2 DEF create
  <2>2. (early' <=> orphans > 0) /\ early' \in BOOLEAN
    BY <2>1, OpenNotesOrphans
  <2> QED BY <2>1, <2>2 DEF Open
<1>3. CASE open_write \/ open_append
  <2>1. PICK mode \in {"read", "append"} : Open(mode, fileLen) /\ UNCHANGED fileLen
    BY <1>3 DEF open_write, open_append
  <2>2. (early' <=> orphans > 0) /\ early' \in BOOLEAN
    BY <2>1, OpenNotesOrphans
  <2> QED BY <2>1, <2>2 DEF Open
<1>4. ASSUME NEW n \in Sizes, WriteAll(n)
      PROVE  SinkInv'
  BY <1>4 DEF WriteAll, can_be_appended
<1>5. ASSUME NEW k \in 1 .. Pipe, poll_write(k)
      PROVE  SinkInv'
  BY <1>5 DEF poll_write
<1>6. CASE poll_writeFails \/ WriteDropped
  BY <1>6 DEF poll_writeFails, WriteDropped
<1>7. ASSUME NEW k \in 1 .. Pipe, Background(k)
      PROVE  SinkInv'
  BY <1>7 DEF Background
<1>8. CASE BackgroundFails
  BY <1>8 DEF BackgroundFails
<1>9. CASE poll_flush
  BY <1>9 DEF poll_flush, Flushed
<1>10. CASE poll_flushFails
  BY <1>10 DEF poll_flushFails, Flushed
<1>11. CASE Close
  <2>1. ~failed' /\ failed' \in BOOLEAN
    BY <1>11, Zenon DEF Close
  <2> QED BY <1>11, <2>1 DEF Close
<1>12. ASSUME NEW k \in 1 .. orphans, NEW written \in BOOLEAN, Orphaned(k, written)
       PROVE  SinkInv'
  BY <1>12 DEF Orphaned
<1> QED
  BY <1>1, <1>2, <1>3, <1>4, <1>5, <1>6, <1>7, <1>8, <1>9, <1>10, <1>11, <1>12
     DEF Next, Write, Drain

\* get_current_len counts every byte of the file and of the pipe, and no byte but
\* these and the ones that failed writes lost.
THEOREM CountAccountsForBytes == Spec => []CountedBytesAccounted
<1>1. SinkInv => CountedBytesAccounted
  BY DEF SinkInv
<1> QED BY <1>1, SinkInvInit, SinkInvNext, PTL DEF Spec

\* can_be_appended keeps the file within max_len, for a user who asks it first.
THEOREM FileStaysWithinMax == Spec => []NeverBeyondMax
<1>1. SinkInv => NeverBeyondMax
  BY DEF SinkInv, SinkTypeOK, RoomForTheRest, CountedBytesAccounted, NeverBeyondMax, Settled
<1> QED BY <1>1, SinkInvInit, SinkInvNext, PTL DEF Spec

\* An Ok of poll_flush vouches for every byte accepted since the last flush.
THEOREM FlushVouchesForBytes == Spec => FlushOkMeansWritten
<1>1. SinkInv => [poll_flush /\ Settled => fileLen = base + accepted]_vars
  BY DEF SinkInv, SinkTypeOK, NothingMissing, poll_flush, Settled
<1> QED BY <1>1, SinkInvInit, SinkInvNext, PTL DEF Spec, FlushOkMeansWritten
=============================================================================
