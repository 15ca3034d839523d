--------------------------- MODULE MmapFileProofs ---------------------------
(***************************************************************************)
(* Proofs about memory mapped files for any number of users and callers,    *)
(* pages and writes, and any length of the file that is found.              *)
(***************************************************************************)
EXTENDS MmapFile, TLAPS

USE MmapFlushAssumption, MmapFileAssumption

\* Versions only age on their way: what a flush vouches for is on disk, what is on
\* disk was in memory, and memory holds what was there when a flush was called that
\* will write it.
VersionsOrdered ==
  /\ \A i \in Pages : durable[i] <= disk[i] /\ disk[i] <= mem[i] /\ mem[i] <= writes
  /\ \A u \in Users, i \in Pages : before[u][i] <= mem[i]
  /\ \A u \in Users, i \in Pages : before[u][i] > 0 => sync[u] = TRUE /\ i \in range[u]

PagesInv == TypeOK /\ VersionsOrdered

\* The file is there once it was opened, has a length once that was looked at or
\* set, and the caller whose mapping is used never goes the way of open.  While the
\* calls agree, a mapping only sees the file grow, to the length they agree on.
CallInv(c) ==
  /\ call[c] # "idle" => fileLen # None
  /\ call[c] = "sized" => 0 < fileLen
  /\ call[c] \in {"created", "opened", "empty"} => asked[c] \in Lens
  /\ call[c] = "mapped" => 0 < mapLen[c] /\ (common # 0 => mapLen[c] <= fileLen)
  /\ c = Owner => /\ call[c] \notin {"opened", "empty"}
                  /\ call[c] \in {"sized", "mapped"} => common # None
                  /\ call[c] = "mapped" /\ common # 0 => mapLen[c] = common

\* The inductive invariant.  Only pages that the file has hold anything.
MmapInv ==
  /\ MmapTypeOK
  /\ VersionsOrdered
  /\ \A i \in Pages : mem[i] > 0 => Has(fileLen, i)
  /\ common \notin {0, None} => fileLen = common
  /\ \A c \in Callers : CallInv(c)

---------------------------------------------------------------------------
\* The users of a mapping keep the versions in order, and write only to pages that
\* are present.
LEMMA UserStepKeepsPages ==
  ASSUME PagesInv, NEW u \in Users, NEW mapped \in SUBSET Pages, NEW present \in SUBSET Pages,
         UserStep(u, mapped, present)
  PROVE  PagesInv' /\ \A i \in Pages : mem'[i] = mem[i] \/ i \in present
<1> DEFINE Kept == PagesInv' /\ \A i \in Pages : mem'[i] = mem[i] \/ i \in present
<1> SUFFICES Kept
  OBVIOUS
<1> USE DEF PagesInv, TypeOK, VersionsOrdered, Versions, Readers, Writers
<1>1. ASSUME NEW i \in present, write_bytes(u, {i})
      PROVE  Kept
  BY <1>1 DEF write_bytes, callVars
<1>2. CASE write_bytesPanics(u)
  BY <1>2 DEF write_bytesPanics, callVars
<1>3. CASE LockPoisoned(u) \/ inner(u)
  BY <1>3 DEF LockPoisoned, inner, callVars
<1>4. CASE mut_inner(u, present)
  BY <1>4 DEF mut_inner, callVars
<1>5. CASE DropGuard(u)
  BY <1>5 DEF DropGuard, callVars
<1>6. ASSUME NEW pages \in SUBSET Pages, NEW synchronous \in BOOLEAN, flush(u, pages, synchronous)
      PROVE  Kept
  BY <1>6 DEF flush
<1>7. CASE FlushLocks(u)
  BY <1>7 DEF FlushLocks, callVars
<1>8. CASE FlushReturns(u)
  BY <1>8 DEF FlushReturns, Forget, NoVersions, NoRange
<1>9. CASE FlushFails(u)
  BY <1>9 DEF FlushFails, Forget, NoVersions, NoRange
<1>10. CASE FlushDropped(u)
  <2>1. /\ Forget(u) /\ UNCHANGED <<mem, disk, writes, lock, poisoned, durable>>
        /\ \E label \in {"idle", "reader", "guard"} : pc' = [pc EXCEPT ![u] = label]
    BY <1>10 DEF FlushDropped
  <2> QED BY <2>1 DEF Forget, NoVersions, NoRange
<1>11. CASE flushHoldingGuard(u)
  BY <1>11 DEF flushHoldingGuard, callVars
<1>12. mapped \in SUBSET Pages /\ \A i \in mapped : {i} \in SUBSET Pages
  OBVIOUS
<1> HIDE DEF Kept
<1> QED
  BY <1>1, <1>2, <1>3, <1>4, <1>5, <1>6, <1>7, <1>8, <1>9, <1>10, <1>11, <1>12 DEF UserStep, Flush

\* The kernel may write a page back at any time.
LEMMA WriteBackKeepsPages ==
  ASSUME PagesInv, NEW i \in Pages, WriteBack(i)
  PROVE  PagesInv' /\ mem' = mem
BY DEF PagesInv, TypeOK, VersionsOrdered, Versions, WriteBack, callVars

\* A program that starts over finds the versions in order, if the pages it finds are
\* between what was promised and what was written.
LEMMA RestartKeepsPages ==
  ASSUME PagesInv, Restart, mem' \in Versions, disk' \in Versions,
         \A i \in Pages : durable[i] <= disk'[i] /\ disk'[i] <= mem'[i] /\ mem'[i] <= writes
  PROVE  PagesInv'
<1> USE DEF PagesInv, TypeOK, VersionsOrdered, Versions
<1>1. before' \in [Users -> Versions] /\ \A u \in Users, i \in Pages : before'[u][i] = 0
  BY DEF Restart, NoVersions
<1>2. ~poisoned' /\ poisoned' \in BOOLEAN /\ sync' \in [Users -> BOOLEAN]
  BY Zenon DEF Restart
<1>3. range' \in [Users -> SUBSET Pages]
  BY DEF Restart, NoRange
<1>4. TypeOK'
  BY <1>1, <1>2, <1>3 DEF Restart
<1>5. VersionsOrdered'
  BY <1>1 DEF Restart
<1> QED BY <1>4, <1>5

\* The pages that are left after a cut keep their versions.
LEMMA CutVersions ==
  ASSUME NEW n \in 0 .. Len \cup {None}, NEW pages \in Versions
  PROVE  /\ CutTo(n, pages) \in Versions
         /\ \A i \in Pages : CutTo(n, pages)[i] = IF Has(n, i) THEN pages[i] ELSE 0
BY DEF CutTo, Versions

---------------------------------------------------------------------------
\* Giving the file a length cuts memory, disk and promises alike.
LEMMA GiveLengthKeepsPages ==
  ASSUME MmapInv, NEW c \in Callers, GiveLength(c)
  PROVE  PagesInv' /\ \A i \in Pages : mem'[i] > 0 => Has(fileLen', i)
<1> DEFINE n == asked[c]
<1> USE DEF MmapInv, MmapTypeOK, TypeOK, VersionsOrdered
<1>1. n \in 0 .. Len \cup {None}
  OBVIOUS
<1>2. /\ fileLen' = n /\ mem' = CutTo(n, mem) /\ disk' = CutTo(n, disk) /\ durable' = CutTo(n, durable)
      /\ before' = [u \in Users |-> CutTo(n, before[u])]
      /\ UNCHANGED <<writes, lock, poisoned, pc, range, sync>>
  BY DEF GiveLength, SetLen
<1> HIDE DEF n
<1>3. /\ mem' \in Versions /\ disk' \in Versions /\ durable' \in Versions
      /\ \A i \in Pages : /\ mem'[i] = IF Has(n, i) THEN mem[i] ELSE 0
                          /\ disk'[i] = IF Has(n, i) THEN disk[i] ELSE 0
                          /\ durable'[i] = IF Has(n, i) THEN durable[i] ELSE 0
  BY <1>1, <1>2, CutVersions
<1>4. /\ before' \in [Users -> Versions]
      /\ \A u \in Users, i \in Pages : before'[u][i] = IF Has(n, i) THEN before[u][i] ELSE 0
  BY <1>1, <1>2, CutVersions
<1>5. TypeOK'
  BY <1>2, <1>3, <1>4
<1>6. VersionsOrdered'
  <2>1. mem \in [Pages -> Nat] /\ disk \in [Pages -> Nat] /\ durable \in [Pages -> Nat] /\ writes \in Nat
        /\ \A u \in Users, i \in Pages : before[u][i] \in Nat
    BY DEF Versions
  <2>2. \A i \in Pages : durable'[i] <= disk'[i] /\ disk'[i] <= mem'[i] /\ mem'[i] <= writes'
    BY <1>2, <1>3, <2>1
  <2>3. \A u \in Users, i \in Pages : before'[u][i] <= mem'[i] /\ (before'[u][i] > 0 => before[u][i] > 0)
    BY <1>3, <1>4, <2>1
  <2> QED BY <1>2, <2>2, <2>3
<1> QED BY <1>2, <1>3, <1>5, <1>6 DEF PagesInv

LEMMA MmapInvInit == MmapInit => MmapInv
<1> SUFFICES ASSUME MmapInit
             PROVE  MmapInv
  OBVIOUS
<1>1. NoVersions \in Versions /\ (\A i \in Pages : NoVersions[i] = 0)
  BY DEF NoVersions, Versions
<1>2. mem = NoVersions /\ disk = NoVersions /\ durable = NoVersions /\ writes = 0
  BY DEF MmapInit, Init, Fresh, NoVersions
<1>3. before \in [Users -> Versions] /\ \A u \in Users, i \in Pages : before[u][i] = 0
  BY <1>1 DEF MmapInit, Init, Fresh
<1>4. poisoned \in BOOLEAN /\ sync \in [Users -> BOOLEAN]
  BY Zenon DEF MmapInit, Init, Fresh
<1>5. TypeOK
  BY <1>1, <1>2, <1>3, <1>4 DEF MmapInit, Init, Fresh, TypeOK, NoRange
<1>6. VersionsOrdered
  BY <1>1, <1>2, <1>3 DEF VersionsOrdered
<1>7. MmapTypeOK
  BY <1>5 DEF MmapInit, MmapTypeOK
<1>8. \A c \in Callers : CallInv(c)
  BY DEF MmapInit, CallInv
<1>9. \A i \in Pages : ~(mem[i] > 0)
  BY <1>1, <1>2
<1> QED BY <1>6, <1>7, <1>8, <1>9 DEF MmapInv, MmapInit

LEMMA MmapInvNext == MmapInv /\ [MmapNext]_mmapVars => MmapInv'
<1> SUFFICES ASSUME MmapInv, [MmapNext]_mmapVars
             PROVE  MmapInv'
  OBVIOUS
<1> USE DEF MmapInv, MmapTypeOK
<1>1. UNCHANGED vars => PagesInv' /\ UNCHANGED mem
  BY DEF vars, callVars, PagesInv, TypeOK, VersionsOrdered
<1>2. CASE UNCHANGED mmapVars
  BY <1>1, <1>2 DEF mmapVars, fileVars, callerVars, PagesInv, CallInv, Has
<1>3. ASSUME NEW c \in Callers, NEW len \in Lens, create(c, len)
      PROVE  MmapInv'
  <2>1. CASE fileLen = None
    <3>1. \A i \in Pages : mem[i] = 0 /\ disk[i] = 0
      BY <2>1 DEF TypeOK, Versions, VersionsOrdered, Has
    <3>2. CutTo(0, mem) = mem /\ CutTo(0, disk) = disk
      BY <3>1 DEF CutTo, TypeOK, Versions
    <3>3. UNCHANGED vars /\ fileLen' = 0
      BY <1>3, <2>1, <3>2 DEF create, SetLen, vars, callVars
    <3> QED BY <1>1, <1>3, <2>1, <3>1, <3>3 DEF create, Goto, PagesInv, CallInv, Has
  <2>2. CASE fileLen # None
    <3>1. UNCHANGED vars /\ fileLen' = fileLen
      BY <1>3, <2>2 DEF create, vars, callVars
    <3> QED BY <1>1, <1>3, <2>2, <3>1 DEF create, Goto, PagesInv, CallInv, Has
  <2> QED BY <2>1, <2>2
<1>4. ASSUME NEW c \in Callers, CreateSetLen(c) \/ OpenSetLen(c)
      PROVE  MmapInv'
  <2>1. PagesInv' /\ \A i \in Pages : mem'[i] > 0 => Has(fileLen', i)
    BY <1>4, GiveLengthKeepsPages DEF CreateSetLen, OpenSetLen
  <2>2. asked[c] \in Lens /\ fileLen # None /\ fileLen' = asked[c] /\ mapLen' = mapLen
    BY <1>4 DEF CreateSetLen, OpenSetLen, GiveLength, SetLen, CallInv
  <2>3. common' # 0 => common' = asked[c] /\ common \in {None, asked[c]} /\ fileLen <= asked[c]
    BY <1>4, <2>2 DEF CreateSetLen, OpenSetLen, GiveLength
  <2>4. common' \in {0, asked[c]}
    BY <1>4 DEF CreateSetLen, OpenSetLen, GiveLength
  <2> QED BY <1>4, <2>1, <2>2, <2>3, <2>4 DEF CreateSetLen, OpenSetLen, GiveLength, Goto, PagesInv, CallInv
<1>5. ASSUME NEW c \in Callers, NEW len \in Lens, open(c, len)
      PROVE  MmapInv'
  BY <1>1, <1>5 DEF open, Goto, PagesInv, CallInv, Has
<1>6. ASSUME NEW c \in Callers, OpenMetadata(c) \/ Fails(c)
      PROVE  MmapInv'
  BY <1>1, <1>6 DEF OpenMetadata, Fails, Goto, PagesInv, CallInv, Has
<1>7. ASSUME NEW c \in Callers, Map(c)
      PROVE  MmapInv'
  BY <1>1, <1>7 DEF Map, Goto, PagesInv, CallInv, Has
<1>8. ASSUME NEW c \in Callers, Drop(c)
      PROVE  MmapInv'
  BY <1>1, <1>8 DEF Drop, Goto, PagesInv, CallInv, Has
<1>9. ASSUME NEW u \in Users, Using(UserStep(u, Mapped, Present))
      PROVE  MmapInv'
  <2>1. Mapped \in SUBSET Pages /\ Present \in SUBSET Pages
    BY DEF Mapped, Present, Pages
  <2>2. PagesInv' /\ \A i \in Pages : mem'[i] = mem[i] \/ i \in Present
    BY <1>9, <2>1, UserStepKeepsPages DEF Using, PagesInv
  <2> QED BY <1>9, <2>2 DEF Using, fileVars, callerVars, PagesInv, CallInv, Present, Has
<1>10. ASSUME NEW i \in Pages, WriteBack(i), UNCHANGED fileVars
       PROVE  MmapInv'
  BY <1>10, WriteBackKeepsPages DEF fileVars, callerVars, PagesInv, CallInv, Has
<1>11. ASSUME NEW n \in 0 .. Len \cup {None}, Again(n), PagesInv',
              \A i \in Pages : mem'[i] > 0 => Has(n, i)
       PROVE  MmapInv'
  BY <1>11 DEF Again, PagesInv, CallInv
<1>12. CASE MmapCrash
  <2>1. PICK n \in {fileLen} \cup Existing :
          /\ \A i \in Pages : durable[i] > 0 => Has(n, i)
          /\ mem' = CutTo(n, disk) /\ disk' = CutTo(n, disk)
          /\ Again(n)
    BY <1>12 DEF MmapCrash
  <2>2. n \in 0 .. Len \cup {None}
    OBVIOUS
  <2>3. /\ mem' \in Versions /\ disk' \in Versions
        /\ \A i \in Pages : mem'[i] = disk'[i] /\ disk'[i] = IF Has(n, i) THEN disk[i] ELSE 0
    BY <2>1, <2>2, CutVersions DEF TypeOK
  <2>4. \A i \in Pages : durable[i] <= disk'[i] /\ disk'[i] <= mem'[i] /\ mem'[i] <= writes
    <3>1. disk \in [Pages -> Nat] /\ durable \in [Pages -> Nat] /\ mem \in [Pages -> Nat] /\ writes \in Nat
      BY DEF TypeOK, Versions
    <3>2. \A i \in Pages : durable[i] <= disk[i] /\ disk[i] <= writes
      BY <3>1 DEF VersionsOrdered
    <3> QED BY <2>1, <2>3, <3>1, <3>2
  <2>5. PagesInv'
    BY <2>1, <2>3, <2>4, RestartKeepsPages DEF PagesInv, Again
  <2>6. \A i \in Pages : mem'[i] > 0 => Has(n, i)
    BY <2>3
  <2> QED BY <2>1, <2>2, <2>5, <2>6, <1>11
<1>13. CASE Sigbus
  <2>1. Again(fileLen) /\ UNCHANGED <<mem, disk>> /\ Restart
    BY <1>13 DEF Sigbus, Again
  <2>2. \A i \in Pages : durable[i] <= disk'[i] /\ disk'[i] <= mem'[i] /\ mem'[i] <= writes
    BY <2>1 DEF VersionsOrdered
  <2>3. mem' \in Versions /\ disk' \in Versions
    BY <2>1 DEF TypeOK
  <2>4. PagesInv'
    BY <2>1, <2>2, <2>3, RestartKeepsPages DEF PagesInv
  <2> QED BY <2>1, <2>4, <1>11
<1> QED
  BY <1>2, <1>3, <1>4, <1>5, <1>6, <1>7, <1>8, <1>9, <1>10, <1>12, <1>13 DEF MmapNext

\* Pages, locks, calls and lengths have the values the code can give them.
THEOREM MmapTyped == MmapSpec => []MmapTypeOK
<1>1. MmapInv => MmapTypeOK
  BY DEF MmapInv
<1> QED BY <1>1, MmapInvInit, MmapInvNext, PTL DEF MmapSpec

\* What was written before flush_ft or flush_range_ft was called survives every
\* crash after its Ok, and every create or open of the same path, except in the pages
\* that one of them asked to leave out.
THEOREM FlushedBytesSurvive == MmapSpec => []FlushedSurvives
<1>1. MmapInv => FlushedSurvives
  BY DEF MmapInv, MmapTypeOK, TypeOK, Versions, VersionsOrdered, FlushedSurvives
<1> QED BY <1>1, MmapInvInit, MmapInvNext, PTL DEF MmapSpec

\* A mapping that create or open returned is never empty; it lies within the file as long
\* as it lives if all calls that give the file a length give it the same and find it no
\* longer, and the one of create then has that length.
THEOREM MappingsStayInsideFile == MmapSpec => []MappingInsideFile
<1>1. MmapInv => MappingInsideFile
  BY DEF MmapInv, CallInv, MappingInsideFile
<1> QED BY <1>1, MmapInvInit, MmapInvNext, PTL DEF MmapSpec
=============================================================================
