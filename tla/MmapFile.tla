------------------------------ MODULE MmapFile ------------------------------
(***************************************************************************)
(* How a mapping comes to be, src/src/fs/mmap.rs, around its use in         *)
(* MmapFlush.  MemoryMappedMutFile::create and MemoryMappedFile::open run on *)
(* the blocking pool as several system calls on one path.  One caller makes *)
(* the mapping that the users of MmapFlush share; others create or open     *)
(* the same path meanwhile, with lengths of their own.  The mappings share  *)
(* the kernel's pages, and a page of a mapping that the file no longer has  *)
(* cannot be touched: the process dies of a SIGBUS.                         *)
(***************************************************************************)
EXTENDS MmapFlush

CONSTANTS Callers,   \* calls of create and open
          Owner,     \* the one whose mapping is used
          Lens,      \* bound: the lengths that callers ask for, in pages
          Existing   \* lengths of a file that is there already, None if it may be missing

ASSUME MmapFileAssumption ==
  /\ Owner \in Callers /\ Lens \subseteq 1 .. Len
  /\ Existing \subseteq 0 .. Len \cup {None} /\ None \notin Int

VARIABLES fileLen,  \* length of the file in pages, None while there is none
          call, asked, mapLen,  \* per caller: control, the length still to be given, that of its mapping
          common  \* history: the length that all calls gave the file, None before the first,
                  \* 0 once they differed or found it longer

callerVars == <<call, asked, mapLen>>
fileVars == <<fileLen, callerVars, common>>
mmapVars == <<vars, fileVars>>

\* The file and its mappings have lengths, the calls are at one of their steps.
MmapTypeOK ==
  /\ TypeOK
  /\ fileLen \in 0 .. Len \cup {None} /\ common \in 0 .. Len \cup {None}
  /\ call \in [Callers -> {"idle", "created", "opened", "empty", "sized", "mapped"}]
  /\ asked \in [Callers -> 0 .. Len] /\ mapLen \in [Callers -> 0 .. Len]

MmapInit ==
  /\ Init
  /\ fileLen \in Existing /\ common = None
  /\ call = [c \in Callers |-> "idle"]
  /\ asked = [c \in Callers |-> 0] /\ mapLen = [c \in Callers |-> 0]

Goto(c, label) == call' = [call EXCEPT ![c] = label]

\* A file of n pages has page i.
Has(n, i) == n # None /\ i <= n

\* The versions of those pages that a file of n pages has; the others are zero.
CutTo(n, pages) == [i \in Pages |-> IF Has(n, i) THEN pages[i] ELSE 0]

\* The file gets n pages: the pages beyond are gone, new ones are zero.
SetLen(n) ==
  /\ fileLen' = n
  /\ mem' = CutTo(n, mem) /\ disk' = CutTo(n, disk)
  /\ UNCHANGED <<writes, lock, poisoned, pc, range, sync>>

\* The caller gives the file the length it was called with, whatever it has.  Nobody
\* vouches for a page that this leaves out.
GiveLength(c) ==
  /\ SetLen(asked[c])
  /\ durable' = CutTo(asked[c], durable)
  /\ before' = [u \in Users |-> CutTo(asked[c], before[u])]
  /\ common' = IF common \in {None, asked[c]} /\ (fileLen # None => fileLen <= asked[c])
               THEN asked[c] ELSE 0
  /\ asked' = [asked EXCEPT ![c] = 0]

---------------------------------------------------------------------------
\* Mutant: create truncates the file it finds.
createTruncates(c, len) ==
  /\ call[c] = "idle" /\ Goto(c, "created")
  /\ asked' = [asked EXCEPT ![c] = len]
  /\ SetLen(0)
  /\ UNCHANGED <<durable, before, mapLen, common>>

\* create: the file is opened, or made empty, but not truncated ...
create(c, len) ==
  /\ call[c] = "idle" /\ Goto(c, "created")
  /\ asked' = [asked EXCEPT ![c] = len]
  /\ IF fileLen = None THEN SetLen(0) ELSE UNCHANGED <<fileLen, mem, disk, writes, lock, poisoned,
                                                     pc, range, sync>>
  /\ UNCHANGED <<durable, before, mapLen, common>>

\* ... and given its length, whatever it was.
CreateSetLen(c) ==
  /\ call[c] = "created" /\ Goto(c, "sized")
  /\ GiveLength(c)
  /\ UNCHANGED mapLen

\* open: a file that is missing, or cannot be opened, is a panic of the closure.
open(c, min_len) ==
  /\ call[c] = "idle" /\ c # Owner
  /\ fileLen # None /\ Goto(c, "opened")
  /\ asked' = [asked EXCEPT ![c] = min_len]
  /\ UNCHANGED <<vars, fileLen, mapLen, common>>

\* Only an empty file will be given the minimum length.
OpenMetadata(c) ==
  /\ call[c] = "opened" /\ Goto(c, IF fileLen = 0 THEN "empty" ELSE "sized")
  /\ asked' = [asked EXCEPT ![c] = IF fileLen = 0 THEN asked[c] ELSE 0]
  /\ UNCHANGED <<vars, fileLen, mapLen, common>>

\* It is given even if the file has grown since it was looked at.
OpenSetLen(c) ==
  /\ call[c] = "empty" /\ Goto(c, "sized")
  /\ GiveLength(c)
  /\ UNCHANGED mapLen

\* A system call fails: a panic where the file is opened or looked at, else an error.  The
\* file stays as it is, and the caller may come again.
Fails(c) ==
  /\ call[c] \in {"created", "opened", "empty", "sized"} /\ Goto(c, "idle")
  /\ asked' = [asked EXCEPT ![c] = 0]
  /\ UNCHANGED <<vars, fileLen, mapLen, common>>

\* Mmap::map, MmapMut::map_mut: the whole file as it is now.
Map(c) ==
  /\ call[c] = "sized" /\ Goto(c, "mapped")
  /\ mapLen' = [mapLen EXCEPT ![c] = fileLen]
  /\ UNCHANGED <<vars, fileLen, asked, common>>

\* The mapping is dropped, the shared one when its users are done.
Drop(c) ==
  /\ call[c] = "mapped" /\ Goto(c, "idle")
  /\ c = Owner => \A u \in Users : pc[u] = "idle"
  /\ mapLen' = [mapLen EXCEPT ![c] = 0]
  /\ UNCHANGED <<vars, fileLen, asked, common>>

---------------------------------------------------------------------------
\* The program starts over and finds n pages.
Again(n) ==
  /\ Restart
  /\ fileLen' = n /\ common' = None
  /\ call' = [c \in Callers |-> "idle"]
  /\ asked' = [c \in Callers |-> 0] /\ mapLen' = [c \in Callers |-> 0]

\* The machine stops, between any two of these steps.  The file has what reached the
\* disk; a length that no flush has followed may be lost, and the file made with it.
MmapCrash ==
  \E n \in {fileLen} \cup Existing :
    /\ \A i \in Pages : durable[i] > 0 => Has(n, i)
    /\ mem' = CutTo(n, disk) /\ disk' = CutTo(n, disk)
    /\ Again(n)

\* A page is touched that the file no longer has: the process dies, the kernel's pages stay.
Sigbus ==
  /\ \E c \in Callers : call[c] = "mapped" /\ fileLen < mapLen[c]
  /\ UNCHANGED <<mem, disk>>
  /\ Again(fileLen)

\* The shared mapping is used.
Using(A) == call[Owner] = "mapped" /\ A /\ UNCHANGED fileVars

Mapped == 1 .. mapLen[Owner]
Present == {i \in Mapped : Has(fileLen, i)}

MmapNext ==
  \/ \E c \in Callers, len \in Lens : create(c, len) \/ open(c, len)
  \/ \E c \in Callers :
       \/ CreateSetLen(c) \/ OpenMetadata(c) \/ OpenSetLen(c)
       \/ Map(c) \/ Fails(c) \/ Drop(c)
  \/ \E u \in Users : Using(UserStep(u, Mapped, Present))
  \/ \E i \in Pages : WriteBack(i) /\ UNCHANGED fileVars
  \/ MmapCrash \/ Sigbus

\* The blocking pool runs the flush closures and a guard is dropped in the end.
MmapSpec ==
  /\ MmapInit /\ [][MmapNext]_mmapVars
  /\ \A u \in Users : /\ WF_mmapVars(Using(DropGuard(u)))
                      /\ WF_mmapVars(Using(pc[u] \in {"waiting", "syncing"} /\ Flush(u)))

---------------------------------------------------------------------------
\* No mapping that create or open returned is empty: a call that finds the file half
\* made by another, or by one that a crash or an error ended, does not go without.  As
\* long as the calls agree on the length, a mapping lies within the file while it lives,
\* so that no touch is a SIGBUS, and the one of create has the length asked for.
MappingInsideFile ==
  \A c \in Callers :
    call[c] = "mapped" => /\ 0 < mapLen[c]
                          /\ common # 0 => /\ mapLen[c] <= fileLen
                                           /\ c = Owner => mapLen[c] = common
=============================================================================
