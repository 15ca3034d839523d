---------------------------- MODULE BoundedSink -----------------------------
(***************************************************************************)
(* BoundedFileSink, src/src/fs/bounded.rs: a writer that counts in          *)
(* current_len what it was given, so that its user can keep a file below    *)
(* max_len.  The async_fs::File underneath takes bytes into a pipe that a   *)
(* background thread empties into the file, so a byte that poll_write       *)
(* accepted is in the pipe, in the file, or lost with a failed write.  One  *)
(* sink at a time is open on the path, and its user asks can_be_appended    *)
(* before each write_all.  A sink that is dropped without a flush leaves    *)
(* bytes behind that may reach the file when the next one is open.          *)
(***************************************************************************)
EXTENDS Integers

CONSTANTS MaxLens,     \* bound: values of BoundedFileOption::max_len, None among them
          Sizes,       \* bound: lengths of the buffers written
          MaxFileLen,  \* bound on current_len when there is no max_len
          Pipe,        \* bound: capacity of async_fs's pipe
          MaxOrphans,  \* bound on the bytes that dropped sinks leave behind
          DiskErrors,  \* whether writes to a file open for writing may fail
          None         \* Option::None

ASSUME BoundedSinkAssumption ==
  /\ MaxLens \subseteq Nat \cup {None} /\ Sizes \subseteq Nat \ {0}
  /\ {MaxFileLen, MaxOrphans} \subseteq Nat /\ Pipe \in Nat \ {0} /\ None \notin Int
  /\ DiskErrors \in BOOLEAN

VARIABLES fileLen,      \* length of the file
          sink,         \* "closed", or the mode the File was opened in
          max_len, current_len,
          todo,         \* bytes of the current write_all not accepted yet
          buffer,       \* bytes in the pipe
          failed,       \* the background thread met an error nobody was told of
          orphans,      \* bytes in the pipes of dropped sinks
          early,        \* history: there were some when the sink was made
          opened,       \* history: length of the file when the sink was made
          lost,         \* history: accepted bytes that failed writes threw away
          accepted, base  \* history: bytes accepted, and the file's length, at the last flush

fileVars == <<fileLen, buffer, failed, lost, orphans>>
sinkVars == <<sink, max_len, opened, early>>
flushVars == <<accepted, base>>
vars == <<fileVars, sinkVars, current_len, todo, flushVars>>

Init ==
  /\ fileLen \in 0 .. 1 /\ sink = "closed" /\ max_len = None
  /\ current_len = 0 /\ todo = 0 /\ buffer = 0 /\ failed = FALSE
  /\ opened = 0 /\ lost = 0 /\ accepted = 0 /\ base = 0
  /\ orphans = 0 /\ early = FALSE

---------------------------------------------------------------------------
\* A sink over a File opened in mode, which starts to count at len.
Open(mode, len) ==
  /\ sink = "closed" /\ sink' = mode
  /\ max_len' \in MaxLens
  /\ current_len' = len /\ opened' = len
  /\ lost' = 0 /\ accepted' = 0 /\ base' = len
  /\ early' = (orphans > 0)
  /\ UNCHANGED <<todo, buffer, failed, orphans>>

\* File::create truncates.
create == Open("write", 0) /\ fileLen' = 0

\* File::open opens for reading only.
open_write == Open("read", fileLen) /\ UNCHANGED fileLen

\* Mutant: the bytes that are in the file already are not counted.
open_appendFromZero == Open("append", 0) /\ UNCHANGED fileLen

open_append == Open("append", fileLen) /\ UNCHANGED fileLen

\* Mutant: the length of the buffer is left out.
can_be_appendedNow(n) == max_len # None => current_len <= max_len

can_be_appended(n) == max_len # None => current_len + n <= max_len

\* The user's write_all of n bytes, asked for first as the type's doc wants.
WriteAll(n) ==
  /\ sink # "closed" /\ todo = 0
  /\ can_be_appended(n)
  /\ max_len = None => current_len + n <= MaxFileLen   \* bound
  /\ todo' = n
  /\ UNCHANGED <<fileVars, sinkVars, current_len, flushVars>>

\* poll_write: the File takes k bytes of what is left, and they are counted.
poll_write(k) ==
  /\ k \in 1 .. todo /\ ~failed /\ buffer + k <= Pipe
  /\ buffer' = buffer + k /\ todo' = todo - k
  /\ current_len' = current_len + k /\ accepted' = accepted + k
  /\ UNCHANGED <<fileLen, failed, lost, orphans, sinkVars, base>>

\* The pipe is closed by a failed write: nothing is taken and write_all gives up.
poll_writeFails ==
  /\ todo > 0 /\ failed /\ todo' = 0
  /\ UNCHANGED <<fileVars, sinkVars, current_len, flushVars>>

\* The future of write_all is dropped half way.
WriteDropped ==
  /\ todo > 0 /\ todo' = 0
  /\ UNCHANGED <<fileVars, sinkVars, current_len, flushVars>>

---------------------------------------------------------------------------
\* The background thread writes k bytes at the end of the file ...
Background(k) ==
  /\ sink \in {"write", "append"} /\ k \in 1 .. buffer
  /\ fileLen' = fileLen + k /\ buffer' = buffer - k
  /\ UNCHANGED <<failed, lost, orphans, sinkVars, current_len, todo, flushVars>>

\* ... or fails, always when the File is open for reading only, and what the pipe
\* holds is gone.
BackgroundFails ==
  /\ buffer > 0 /\ (sink = "read" \/ DiskErrors)
  /\ lost' = lost + buffer /\ buffer' = 0 /\ failed' = TRUE
  /\ UNCHANGED <<fileLen, orphans, sinkVars, current_len, todo, flushVars>>

\* A new count begins when a flush has returned.
Flushed ==
  /\ accepted' = 0 /\ base' = fileLen
  /\ UNCHANGED <<fileLen, buffer, lost, orphans, sinkVars, current_len, todo>>

\* Mutant: the error of the background thread is not asked for.
poll_flushBlindly ==
  /\ sink # "closed" /\ todo = 0 /\ buffer = 0
  /\ failed' = FALSE
  /\ Flushed

\* poll_flush, and poll_close which flushes first: Pending until the pipe is empty.
poll_flush ==
  /\ sink # "closed" /\ todo = 0 /\ buffer = 0 /\ ~failed
  /\ failed' = FALSE
  /\ Flushed

\* The error of the background thread is handed over once and then forgotten.
poll_flushFails ==
  /\ sink # "closed" /\ todo = 0 /\ failed
  /\ failed' = FALSE
  /\ Flushed

\* The sink is dropped, flushed or not: nobody waits for the pipe of a dropped File,
\* nor asks for its error ...
Close ==
  /\ sink # "closed" /\ todo = 0 /\ sink' = "closed"
  /\ orphans' = orphans + (IF sink = "read" THEN 0 ELSE buffer) /\ orphans' <= MaxOrphans
  /\ buffer' = 0 /\ failed' = FALSE
  /\ UNCHANGED <<fileLen, lost, max_len, opened, early, current_len, todo, flushVars>>

\* ... but what is in it is still written, or not.
Orphaned(k, written) ==
  /\ k \in 1 .. orphans /\ orphans' = orphans - k
  /\ fileLen' = fileLen + (IF written THEN k ELSE 0)
  /\ UNCHANGED <<buffer, failed, lost, sinkVars, current_len, todo, flushVars>>

---------------------------------------------------------------------------
Write == \E k \in 1 .. Pipe : poll_write(k)
Drain == \E k \in 1 .. Pipe : Background(k)

Next ==
  \/ create \/ open_write \/ open_append
  \/ \E n \in Sizes : WriteAll(n)
  \/ Write \/ poll_writeFails \/ WriteDropped
  \/ Drain \/ BackgroundFails
  \/ poll_flush \/ poll_flushFails \/ Close
  \/ \E k \in 1 .. orphans, written \in BOOLEAN : Orphaned(k, written)

Spec == Init /\ [][Next]_vars

---------------------------------------------------------------------------
\* A sink is open, and all bytes of the ones before were out when it was made.
Settled == sink # "closed" /\ ~early

\* Every byte that current_len counts is in the file, in the pipe, or was lost
\* with a failed write: get_current_len never falls behind the file.
CountedBytesAccounted == Settled => current_len = fileLen + buffer + lost

\* A user who asks can_be_appended first never makes the file longer than max_len,
\* however write_all is cut up, dropped or delayed and whichever sinks were dropped
\* before, if their bytes were out.
NeverBeyondMax == Settled /\ max_len # None /\ fileLen > opened => fileLen <= max_len

\* A flush that returns Ok vouches for every byte accepted since the flush before,
\* and for none that a sink before left behind.
FlushOkMeansWritten == [][poll_flush /\ Settled => fileLen = base + accepted]_vars

\* bounded.rs line 51: the sink tracks how many bytes it has written.  The run that
\* refutes it has no disk errors: only the File that open_write opened for reading fails.
TracksBytesWritten == Settled /\ buffer = 0 => current_len = fileLen
=============================================================================
