----------------------------- MODULE MmapFlush ------------------------------
(***************************************************************************)
(* MemoryMappedMutFile, src/src/fs/mmap.rs: a writable mapping behind an    *)
(* Arc<RwLock<..>> that is written in memory and flushed by closures on the *)
(* blocking pool.  The kernel may write a page back at any time, and the    *)
(* machine may crash, which leaves what reached the disk.  A page is a      *)
(* version number: the number of the write that touched it last.            *)
(***************************************************************************)
EXTENDS Integers

CONSTANTS Users,      \* tasks that share the mapping
          Len,        \* bound on the length of the file, in pages
          MaxWrites,  \* bound on the number of writes
          None

ASSUME MmapFlushAssumption == Len \in Nat \ {0} /\ MaxWrites \in Nat /\ None \notin Users

VARIABLES mem, disk,  \* per page, the version in memory and on disk
          writes,     \* number of writes so far
          lock,       \* the holder of the write lock, or None
          poisoned,   \* the lock was dropped by a panic
          pc, range, sync,  \* per user: control, the pages it flushes, flush or flush_async
          before,     \* history, per user: the versions when it called the flush that is to keep them
          durable     \* history, per page: the latest version a returned flush vouches for

callVars == <<range, sync, before>>
vars == <<mem, disk, writes, lock, poisoned, pc, callVars, durable>>

\* A task that holds a guard may call flush, which then waits for that guard.
Readers == {"reader", "reader_waiting"}
Writers == {"guard", "guard_waiting"}

\* A write lock can be had: no writer has it, and no reader.
Free == lock = None /\ \A v \in Users : pc[v] \notin Readers

Pages == 1 .. Len
Versions == [Pages -> 0 .. MaxWrites]
NoVersions == [i \in Pages |-> 0]
NoRange == {}

\* The arguments of u's flush are gone with the closure.
Forget(u) ==
  /\ range' = [range EXCEPT ![u] = NoRange]
  /\ sync' = [sync EXCEPT ![u] = TRUE]
  /\ before' = [before EXCEPT ![u] = NoVersions]

\* Pages hold versions that were written, the lock has at most one holder.
TypeOK ==
  /\ mem \in Versions /\ disk \in Versions /\ durable \in Versions
  /\ writes \in 0 .. MaxWrites
  /\ lock \in Users \cup {None} /\ poisoned \in BOOLEAN
  /\ pc \in [Users -> {"idle", "waiting", "syncing", "panicked"} \cup Readers \cup Writers]
  /\ range \in [Users -> SUBSET Pages] /\ sync \in [Users -> BOOLEAN]
  /\ before \in [Users -> Versions]

Fresh(pages) ==
  /\ mem = pages
  /\ lock = None /\ poisoned = FALSE
  /\ pc = [u \in Users |-> "idle"]
  /\ range = [u \in Users |-> NoRange] /\ sync = [u \in Users |-> TRUE]
  /\ before = [u \in Users |-> NoVersions]

\* create(): the mapping of a file, in memory as on disk.
Init ==
  /\ disk = [i \in Pages |-> 0] /\ durable = disk /\ writes = 0
  /\ Fresh(disk)

---------------------------------------------------------------------------
\* write_bytes in bounds: the lock is taken and dropped within the call.
write_bytes(u, pages) ==
  /\ pc[u] = "idle" /\ Free /\ ~poisoned
  /\ writes < MaxWrites /\ writes' = writes + 1
  /\ mem' = [i \in Pages |-> IF i \in pages THEN writes' ELSE mem[i]]
  /\ UNCHANGED <<disk, lock, poisoned, pc, callVars, durable>>

\* Mutant: a write out of bounds makes the mapping longer.
write_bytesGrows(u) ==
  /\ pc[u] = "idle" /\ Free /\ ~poisoned
  /\ writes < MaxWrites /\ writes' = writes + 1
  /\ mem' = [i \in 1 .. Len + 1 |-> IF i \in Pages THEN mem[i] ELSE writes']
  /\ UNCHANGED <<disk, lock, poisoned, pc, callVars, durable>>

\* write_bytes out of bounds: the slice panics before a byte is copied, with the
\* guard alive.
write_bytesPanics(u) ==
  /\ pc[u] = "idle" /\ Free /\ ~poisoned
  /\ pc' = [pc EXCEPT ![u] = "panicked"] /\ poisoned' = TRUE
  /\ UNCHANGED <<mem, disk, writes, lock, callVars, durable>>

\* read().unwrap() or write().unwrap() on a poisoned lock, in inner, in mut_inner or
\* in a flush closure, whose panic reaches the task that awaits it.
LockPoisoned(u) ==
  /\ pc[u] \in {"idle", "waiting"} /\ lock = None /\ poisoned
  /\ pc[u] = "waiting" => Free
  /\ pc' = [pc EXCEPT ![u] = "panicked"]
  /\ UNCHANGED <<mem, disk, writes, lock, poisoned, callVars, durable>>

\* inner: the caller reads through a guard that other readers may share.
inner(u) ==
  /\ pc[u] = "idle" /\ lock = None /\ ~poisoned
  /\ pc' = [pc EXCEPT ![u] = "reader"]
  /\ UNCHANGED <<mem, disk, writes, lock, poisoned, callVars, durable>>

\* mut_inner: the caller writes through the guard and keeps it for a while.
mut_inner(u, pages) ==
  /\ pc[u] = "idle" /\ Free /\ ~poisoned
  /\ writes < MaxWrites /\ writes' = writes + 1
  /\ mem' = [i \in Pages |-> IF i \in pages THEN writes' ELSE mem[i]]
  /\ lock' = u /\ pc' = [pc EXCEPT ![u] = "guard"]
  /\ UNCHANGED <<disk, poisoned, callVars, durable>>

DropGuard(u) ==
  /\ pc[u] \in {"reader", "guard"}
  /\ lock' = IF pc[u] = "guard" THEN None ELSE lock
  /\ pc' = [pc EXCEPT ![u] = "idle"]
  /\ UNCHANGED <<mem, disk, writes, poisoned, callVars, durable>>

---------------------------------------------------------------------------
\* flush_ft, flush_range_ft and flush_async_ft: a closure is spawned ...
flush(u, pages, synchronous) ==
  /\ pc[u] = "idle" /\ pc' = [pc EXCEPT ![u] = "waiting"]
  /\ range' = [range EXCEPT ![u] = pages]
  /\ sync' = [sync EXCEPT ![u] = synchronous]
  /\ before' = [before EXCEPT ![u] =
                  [i \in Pages |-> IF synchronous /\ i \in pages THEN mem[i] ELSE 0]]
  /\ UNCHANGED <<mem, disk, writes, lock, poisoned, durable>>

\* A task calls it with a guard of its own alive: the closure never gets the lock from
\* the task that awaits it, and its arguments do not matter.
flushHoldingGuard(u) ==
  /\ \/ pc[u] = "reader" /\ pc' = [pc EXCEPT ![u] = "reader_waiting"]
     \/ pc[u] = "guard" /\ pc' = [pc EXCEPT ![u] = "guard_waiting"]
  /\ UNCHANGED <<mem, disk, writes, lock, poisoned, callVars, durable>>

\* ... that takes the write lock ...
FlushLocks(u) ==
  /\ pc[u] = "waiting" /\ Free /\ ~poisoned
  /\ lock' = u /\ pc' = [pc EXCEPT ![u] = "syncing"]
  /\ UNCHANGED <<mem, disk, writes, poisoned, callVars, durable>>

\* Mutant: flush_ft only starts the write-back, as flush_async does.
FlushReturnsEarly(u) ==
  /\ pc[u] = "syncing"
  /\ durable' = [i \in Pages |-> IF before[u][i] > durable[i] THEN before[u][i] ELSE durable[i]]
  /\ lock' = None /\ pc' = [pc EXCEPT ![u] = "idle"]
  /\ Forget(u)
  /\ UNCHANGED <<mem, disk, writes, poisoned>>

\* Mutant: the lock is kept.
FlushReturnsLocked(u) ==
  /\ pc[u] = "syncing"
  /\ disk' = [i \in Pages |-> IF sync[u] /\ i \in range[u] THEN mem[i] ELSE disk[i]]
  /\ durable' = [i \in Pages |-> IF before[u][i] > durable[i] THEN before[u][i] ELSE durable[i]]
  /\ pc' = [pc EXCEPT ![u] = "idle"]
  /\ Forget(u)
  /\ UNCHANGED <<mem, writes, lock, poisoned>>

\* ... and returns Ok when msync has, which waits for the disk only if synchronous.
FlushReturns(u) ==
  /\ pc[u] = "syncing"
  /\ disk' = [i \in Pages |-> IF sync[u] /\ i \in range[u] THEN mem[i] ELSE disk[i]]
  /\ durable' = [i \in Pages |-> IF before[u][i] > durable[i] THEN before[u][i] ELSE durable[i]]
  /\ lock' = None /\ pc' = [pc EXCEPT ![u] = "idle"]
  /\ Forget(u)
  /\ UNCHANGED <<mem, writes, poisoned>>

\* msync fails: an error, and no promise.
FlushFails(u) ==
  /\ pc[u] = "syncing"
  /\ lock' = None /\ pc' = [pc EXCEPT ![u] = "idle"]
  /\ Forget(u)
  /\ UNCHANGED <<mem, disk, writes, poisoned, durable>>

\* The future is dropped before its closure has a thread: the closure never runs.
\* (One that runs already goes on, and its caller is then another user.)
FlushDropped(u) ==
  /\ \/ pc[u] = "waiting" /\ pc' = [pc EXCEPT ![u] = "idle"]
     \/ pc[u] = "reader_waiting" /\ pc' = [pc EXCEPT ![u] = "reader"]
     \/ pc[u] = "guard_waiting" /\ pc' = [pc EXCEPT ![u] = "guard"]
  /\ Forget(u)
  /\ UNCHANGED <<mem, disk, writes, lock, poisoned, durable>>

---------------------------------------------------------------------------
WriteBack(i) ==
  /\ disk[i] # mem[i]
  /\ disk' = [disk EXCEPT ![i] = mem[i]]
  /\ UNCHANGED <<mem, writes, lock, poisoned, pc, callVars, durable>>

\* The program starts over.
Restart ==
  /\ lock' = None /\ poisoned' = FALSE
  /\ pc' = [u \in Users |-> "idle"]
  /\ range' = [u \in Users |-> NoRange] /\ sync' = [u \in Users |-> TRUE]
  /\ before' = [u \in Users |-> NoVersions]
  /\ UNCHANGED <<writes, durable>>

Flush(u) == FlushLocks(u) \/ FlushReturns(u) \/ FlushFails(u) \/ LockPoisoned(u)

\* The steps of u with a mapping of these pages, of which the file has the present ones.
UserStep(u, pages, present) ==
  \/ \E i \in present : write_bytes(u, {i})
  \/ write_bytesPanics(u) \/ inner(u) \/ mut_inner(u, present) \/ DropGuard(u)
  \/ flush(u, pages, TRUE) \/ flush(u, pages, FALSE)
  \/ \E i \in pages : flush(u, {i}, TRUE)
  \/ flushHoldingGuard(u)
  \/ Flush(u) \/ FlushDropped(u)

---------------------------------------------------------------------------
\* What was written before a synchronous flush was called survives every crash once
\* the flush has returned Ok, whatever was written while it waited or ran, and every
\* other call on the path, unless one asked for a length that leaves the page out.
FlushedSurvives == \A i \in Pages : durable[i] <= disk[i] /\ durable[i] <= mem[i]

\* A flush that was called without a guard returns or panics, once the others leave
\* the mapping alone: the lock is not a queue, and nobody is kept from overtaking.
\* One that waits for a guard of its own task never does.
FlushEnds ==
  \A u \in Users :
    <>[](\A v \in Users \ {u} : pc[v] \in {"idle", "panicked"})
      => (pc[u] = "waiting" ~> pc[u] # "waiting")
=============================================================================
