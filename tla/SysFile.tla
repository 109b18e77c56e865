------------------------------ MODULE SysFile --------------------------------
(***************************************************************************)
(* The file system calls (sysfile.c, file.c, namex and iput of fs.c) of    *)
(* several processes, each of which runs a program: a sequence of calls,   *)
(* with the results that its author takes to be possible.                  *)
(*                                                                         *)
(* A step begins where a sleep lock is waited for or one of the spinlocks  *)
(* icache.lock and ftable.lock is taken, and ends before the next such     *)
(* place.  What lies between is protected by the inode locks held.  That   *)
(* begin_op and end_op bracket an atomic group is a property of Log.       *)
(***************************************************************************)
EXTENDS Fs

CONSTANTS
  NPROC,          \* process slots
  NOFILE,         \* descriptors of a process
  NFILE,          \* entries of the file table
  PIPESIZE,       \* words in a pipe
  MaxGroup        \* words that filewrite puts into one transaction

ASSUME TablesAssumption == {NPROC, NOFILE, NFILE, PIPESIZE, MaxGroup} \subseteq Nat

Procs == 1 .. NPROC
Files == 1 .. NFILE
Fds   == 0 .. NOFILE - 1
Init0 == None                        \* the parent of who has none: process init

VARIABLES
  fs,             \* module Fs
  ftable,         \* the file table
  pipes,          \* by entry of the read end: what is in the pipe, and which ends are open
  user,           \* by process: state, parent, the rest of its program, what it has seen,
                  \* ofile, cwd, in a transaction?
  kern,           \* by process: place in the kernel and locals
  failed,         \* processes that saw a result they hold impossible
  lost            \* history: inodes whose entry was in a directory when it was freed

vars == <<fs, ftable, pipes, user, kern, failed, lost>>

NoFile == [type |-> "none", ref |-> 0, ip |-> None, off |-> 0,
           readable |-> FALSE, writable |-> FALSE, pipe |-> None]
NoPipe == [words |-> <<>>, readopen |-> FALSE, writeopen |-> FALSE]
NoPath == [abs |-> FALSE, names |-> <<>>]

\* at, ip, dp and put are the pointers to cache entries that the call owns:
\* namex's ip, ip and dp of sysfile.c, and the argument of iput.
Idle == [pc |-> "user", path |-> NoPath, parent |-> FALSE, then |-> "", else |-> "",
         at |-> None, ip |-> None, dp |-> None, name |-> "",
         put |-> None, after |-> "", ret |-> 0, words |-> <<>>]
Unborn == [st |-> "unused", parent |-> Init0, prog |-> <<>>, seen |-> <<>>,
           ofile |-> [d \in Fds |-> None], cwd |-> None, inop |-> FALSE]

\* What user code may pass: reads of a number of words, writes of words, and programs of
\* calls for its children; and what the first processes run.
AreCalls(calls, texts) ==
  \A i \in calls : /\ i.op = "read" => i.n \in Nat
                   /\ i.op = "write" => i.words \in Seq(texts)
                   /\ i.op = "fork" => i.child \in Seq(calls)
ArePrograms(programs, calls) == programs \in Seq(Seq(calls)) /\ Len(programs) <= NPROC

\* The disk and what is cached of it: numbers of inodes, blocks and processes.
Typed(f) ==
  /\ f.dinode = [i \in Inums |-> f.dinode[i]] /\ \A i \in Inums : IsCopy(f.dinode[i])
  /\ f.data = [b \in Blocks |-> f.data[b]] /\ \A b \in Blocks : IsBlock(f.data[b])
  /\ f.bitmap \subseteq Blocks
  /\ \A s \in Slots : /\ IsCopy(f.icache[s].copy)
                      /\ f.icache[s].inum \in InumOrNone /\ f.icache[s].lock \in Procs \cup {None}
                      /\ f.icache[s].ref > 0 => f.icache[s].inum \in Inums

\* What mkfs has made, or an earlier kernel has left.
IsFileSystem(image) == IsImage(image) /\ Typed(image) /\ Laid(image) /\ ROOTINO \in Inums

\* The first processes have the root as current directory; programs[p] is what p runs.
Start(image, programs) ==
  /\ fs = [image EXCEPT !.icache[1] =
             [@ EXCEPT !.inum = ROOTINO, !.ref = Len(programs)]]
  /\ ftable = [f \in Files |-> NoFile] /\ pipes = [f \in Files |-> NoPipe]
  /\ user = [p \in Procs |->
       IF p <= Len(programs)
       THEN [Unborn EXCEPT !.st = "running", !.prog = programs[p], !.cwd = 1] ELSE Unborn]
  /\ kern = [p \in Procs |-> Idle]
  /\ failed = {} /\ lost = {}

Up == fs.panic = ""
At(p, place) == Up /\ user[p].st = "running" /\ kern[p].pc = place
Cur(p)       == Head(user[p].prog)
Calling(p, op) == At(p, "user") /\ user[p].prog # <<>> /\ Cur(p).op = op
Step(p, locals) == kern' = [kern EXCEPT ![p] = locals]

-----------------------------------------------------------------------------
(* Return to the program, which looks at the result.                       *)

\* A call that says "all" is made again until it returns nothing.
Again(p, v) == "all" \in DOMAIN Cur(p) /\ v > 0

Agrees(p, v, words) ==
  \/ Again(p, v)
  \/ /\ v \in Cur(p).want
     /\ "data" \in DOMAIN Cur(p) => user[p].seen \o words \in Cur(p).data

\* u: what the call changed of its process, besides the transaction it ends.
ReturnWith(p, u, v, words) ==
  /\ user' = [user EXCEPT ![p] =
       [u EXCEPT !.inop = FALSE,
                 !.prog = IF Again(p, v) THEN @ ELSE Tail(@),
                 !.seen = IF Again(p, v) THEN @ \o words ELSE <<>>]]
  /\ kern' = [kern EXCEPT ![p] = Idle]
  /\ failed' = IF Agrees(p, v, words) THEN failed ELSE failed \cup {p}
Return(p, v) == ReturnWith(p, user[p], v, <<>>)

\* iput(s), and then on from the place `after`; "return" gives ret to the program.
Iput(k, s, after) == [k EXCEPT !.pc = "iput", !.put = s, !.after = after]
IputReturn(k, s, v) == [Iput(k, s, "return") EXCEPT !.ret = v]

-----------------------------------------------------------------------------
(* namex                                                                   *)

StartInode(f, p, path) == IF path.abs THEN Iget(f, ROOTINO) ELSE Idup(f, user[p].cwd)
StartSlot(f, p, path)  == IF path.abs THEN SlotFor(f, ROOTINO) ELSE user[p].cwd

\* then: where to go on with the inode found (in ip, or in dp when the parent was
\* asked for); else: where to go on without.
Namex(k, p, path, parent, then, else) ==
  [k EXCEPT !.pc = "walk", !.path = path, !.parent = parent,
            !.then = then, !.else = else, !.at = StartSlot(fs, p, path)]

NamexFound(k, name) ==
  IF k.parent THEN [k EXCEPT !.pc = k.then, !.dp = k.at, !.at = None, !.name = name, !.path = NoPath]
  ELSE [k EXCEPT !.pc = k.then, !.ip = k.at, !.at = None, !.path = NoPath]

\* One element of the path, or its end.
Walk(p) ==
  LET k == kern[p] IN
  /\ At(p, "walk")
  /\ IF k.path.names = <<>>
     THEN /\ UNCHANGED fs
          /\ Step(p, IF k.parent THEN Iput([k EXCEPT !.at = None], k.at, k.else)
                     ELSE NamexFound(k, ""))
     ELSE /\ LockFree(fs, k.at)
          /\ LET f     == Ilock(fs, k.at, p)
                 g     == Iunlock(f, k.at)
                 name  == Head(k.path.names)
                 inum  == Dirlookup(f, k.at, name)
                 leave == Iput([k EXCEPT !.at = None], k.at, k.else)
             IN IF f.panic # "" THEN fs' = f /\ UNCHANGED kern
                ELSE IF f.icache[k.at].copy.type # "dir" THEN fs' = g /\ Step(p, leave)
                ELSE IF k.parent /\ Len(k.path.names) = 1
                     THEN fs' = g /\ Step(p, NamexFound(k, name))
                ELSE IF inum = None THEN fs' = g /\ Step(p, leave)
                ELSE /\ fs' = Iget(g, inum)
                     /\ Step(p, Iput([k EXCEPT !.at = SlotFor(g, inum), !.path.names = Tail(@)],
                                     k.at, "walk"))
  /\ UNCHANGED <<ftable, pipes, user, failed, lost>>

-----------------------------------------------------------------------------
(* iput                                                                    *)

LastUse(ip) == ip.valid /\ ip.copy.nlink = 0 /\ ip.ref = 1

\* With the lock held: is this the last use of an inode without links?
IputTest(p) ==
  LET s == kern[p].put IN
  /\ At(p, "iput") /\ LockFree(fs, s)
  /\ IF LastUse(fs.icache[s])
     THEN /\ fs' = [fs EXCEPT !.icache[s].lock = p]
          /\ Step(p, [kern[p] EXCEPT !.pc = "iputFree"])
     ELSE /\ UNCHANGED fs
          /\ Step(p, [kern[p] EXCEPT !.pc = "iputUnref"])
  /\ UNCHANGED <<ftable, pipes, user, failed, lost>>

EntriesOf(f, s) ==
  IF f.icache[s].copy.type # "dir" THEN {}
  ELSE {Readi(f, s, off)[1] : off \in {o \in Offsets(f, s) : o >= 2}} \ {None}

\* itrunc and type = 0, which the disk sees.
IputFree(p) ==
  LET s == kern[p].put IN
  /\ At(p, "iputFree")
  /\ fs' = Iupdate([Itrunc(fs, s) EXCEPT !.icache[s].copy.type = "free"], s)
  /\ lost' = lost \cup EntriesOf(fs, s)
  /\ Step(p, [kern[p] EXCEPT !.pc = "iputClear"])
  /\ UNCHANGED <<ftable, pipes, user, failed>>

IputClear_EarlyUnlock(p) ==                                          \* mutant
  /\ At(p, "iputClear")
  /\ fs' = Iunlock(fs, kern[p].put)
  /\ Step(p, [kern[p] EXCEPT !.pc = "iputUnref"])
  /\ UNCHANGED <<ftable, pipes, user, failed, lost>>

\* valid = 0 and the end of the lock.
IputClear(p) ==
  LET s == kern[p].put IN
  /\ At(p, "iputClear")
  /\ fs' = Iunlock([fs EXCEPT !.icache[s].valid = FALSE], s)
  /\ Step(p, [kern[p] EXCEPT !.pc = "iputUnref"])
  /\ UNCHANGED <<ftable, pipes, user, failed, lost>>

IputUnref(p) ==
  LET k == kern[p] IN
  /\ At(p, "iputUnref")
  /\ fs' = Unref(fs, k.put)
  /\ IF k.after = "return" THEN Return(p, k.ret)
     ELSE /\ Step(p, [k EXCEPT !.pc = k.after, !.put = None])
          /\ UNCHANGED <<user, failed>>
  /\ UNCHANGED <<ftable, pipes, lost>>

-----------------------------------------------------------------------------
(* Calls that begin with a path                                            *)

PathCalls == {"open", "mkdir", "mknod", "unlink", "link", "chdir", "exec"}
Creates(i) == i.op \in {"mkdir", "mknod"} \/ (i.op = "open" /\ i.create)
NewType(i) == CASE i.op = "mkdir" -> "dir" [] i.op = "mknod" -> "dev" [] OTHER -> "file"
WantsParent(i) == Creates(i) \/ i.op = "unlink"
Target(i) == IF Creates(i) THEN "create" ELSE i.op

\* begin_op and the start of namex.
PathCall(p) ==
  LET i == Cur(p) IN
  /\ At(p, "user") /\ user[p].prog # <<>> /\ i.op \in PathCalls
  /\ fs' = StartInode(fs, p, i.path)
  /\ user' = [user EXCEPT ![p].inop = TRUE]
  /\ Step(p, Namex(kern[p], p, i.path, WantsParent(i), Target(i), "fail"))
  /\ UNCHANGED <<ftable, pipes, failed, lost>>

\* end_op and return -1.
Fail(p) ==
  /\ At(p, "fail")
  /\ Return(p, -1)
  /\ UNCHANGED <<fs, ftable, pipes, lost>>

\* iunlockput(s) of the state f, in which p holds the lock of s, then return v.
UnlockPutReturn(p, f, k, s, v) ==
  /\ fs' = Iunlock(f, s)
  /\ Step(p, IputReturn(k, s, v))
  /\ UNCHANGED <<user, failed>>

-----------------------------------------------------------------------------
(* open and create                                                         *)

FreeFile == {f \in Files : ftable[f].ref = 0}
FreeFd(p) == {d \in Fds : user[p].ofile[d] = None}

\* filealloc, fdalloc and the rest of sys_open, with the lock of ip held in f.
OpenFd(p, f) ==
  LET k == kern[p]  i == Cur(p) IN
  IF FreeFile = {} \/ FreeFd(p) = {}
  THEN /\ UnlockPutReturn(p, f, [k EXCEPT !.ip = None], k.ip, -1)
       /\ UNCHANGED ftable
  ELSE /\ fs' = Iunlock(f, k.ip)
       /\ ftable' = [ftable EXCEPT ![Min(FreeFile)] =
            [NoFile EXCEPT !.type = "inode", !.ref = 1, !.ip = k.ip,
                           !.readable = (i.mode # "wronly"), !.writable = (i.mode # "rdonly")]]
       /\ ReturnWith(p, [user[p] EXCEPT !.ofile[Min(FreeFd(p))] = Min(FreeFile)],
                     Min(FreeFd(p)), <<>>)

\* sys_open without O_CREATE.
OpenInode(p) ==
  LET k == kern[p]  f == Ilock(fs, k.ip, p) IN
  /\ At(p, "open") /\ LockFree(fs, k.ip)
  /\ IF f.panic # "" THEN fs' = f /\ UNCHANGED <<ftable, user, kern, failed>>
     ELSE IF f.icache[k.ip].copy.type = "dir" /\ Cur(p).mode # "rdonly"
     THEN UnlockPutReturn(p, f, [k EXCEPT !.ip = None], k.ip, -1) /\ UNCHANGED ftable
     ELSE OpenFd(p, f)
  /\ UNCHANGED <<pipes, lost>>

OpenCreated(p) ==
  /\ At(p, "openCreated")
  /\ OpenFd(p, fs)
  /\ UNCHANGED <<pipes, lost>>

\* create: the parent is locked and searched.
Create(p) ==
  LET k    == kern[p]
      f    == Ilock(fs, k.dp, p)
      inum == Dirlookup(f, k.dp, k.name)
      g    == Iunlock(f, k.dp)
  IN
  /\ At(p, "create") /\ LockFree(fs, k.dp)
  /\ IF f.panic # "" THEN fs' = f /\ UNCHANGED kern
     ELSE IF inum # None
     THEN /\ fs' = Iget(g, inum)
          /\ Step(p, Iput([k EXCEPT !.ip = SlotFor(g, inum), !.dp = None], k.dp, "createOld"))
     ELSE /\ fs' = f
          /\ Step(p, [k EXCEPT !.pc = "createAlloc"])
  /\ UNCHANGED <<ftable, pipes, user, failed, lost>>

\* The name is there.
CreateOld(p) ==
  LET k == kern[p]  f == Ilock(fs, k.ip, p) IN
  /\ At(p, "createOld") /\ LockFree(fs, k.ip)
  /\ IF f.panic # "" THEN fs' = f /\ UNCHANGED <<user, kern, failed>>
     ELSE IF NewType(Cur(p)) = "file" /\ f.icache[k.ip].copy.type = "file"
     THEN fs' = f /\ Step(p, [k EXCEPT !.pc = "openCreated"]) /\ UNCHANGED <<user, failed>>
     ELSE UnlockPutReturn(p, f, [k EXCEPT !.ip = None], k.ip, -1)
  /\ UNCHANGED <<ftable, pipes, lost>>

\* ialloc, with the iget of the new inode.
CreateAlloc(p) ==
  LET f == Ialloc(fs, NewType(Cur(p))) IN
  /\ At(p, "createAlloc")
  /\ IF f.panic # "" THEN fs' = f /\ UNCHANGED kern
     ELSE /\ fs' = Iget(f, IallocNum(fs))
          /\ Step(p, [kern[p] EXCEPT !.pc = "createInit", !.ip = SlotFor(f, IallocNum(fs))])
  /\ UNCHANGED <<ftable, pipes, user, failed, lost>>

\* "." and ".." of a new directory ip, and the link that ".." is to dp.
Dots(f, ip, dp) ==
  LET g == Iupdate([f EXCEPT !.icache[dp].copy.nlink = @ + 1], dp) IN
  Dirlink(Dirlink(g, ip, ".", f.icache[ip].inum), ip, "..", f.icache[dp].inum)

CreateInit(p) ==
  LET k == kern[p]
      f == Ilock(fs, k.ip, p)
      g == Iupdate([f EXCEPT !.icache[k.ip].copy.nlink = 1], k.ip)
      h == IF NewType(Cur(p)) = "dir" THEN Dots(g, k.ip, k.dp) ELSE g
      e == Dirlink(h, k.dp, k.name, f.icache[k.ip].inum)
  IN
  /\ At(p, "createInit") /\ LockFree(fs, k.ip)
  /\ IF f.panic # "" THEN fs' = f /\ UNCHANGED kern
     ELSE /\ fs' = Iunlock(e, k.dp)
          /\ Step(p, Iput([k EXCEPT !.dp = None], k.dp,
                          IF Cur(p).op = "open" THEN "openCreated" ELSE "created"))
  /\ UNCHANGED <<ftable, pipes, user, failed, lost>>

\* The end of sys_mkdir and sys_mknod: ip is still locked.
Created(p) ==
  LET k == kern[p] IN
  /\ At(p, "created")
  /\ UnlockPutReturn(p, fs, [k EXCEPT !.ip = None], k.ip, 0)
  /\ UNCHANGED <<ftable, pipes, lost>>

-----------------------------------------------------------------------------
(* unlink                                                                  *)

Unlinkable_Any(name) == TRUE                                         \* mutant
Unlinkable(name) == name \notin {".", ".."}

Unlink(p) ==
  LET k    == kern[p]
      f    == Ilock(fs, k.dp, p)
      inum == Dirlookup(f, k.dp, k.name)
  IN
  /\ At(p, "unlink") /\ LockFree(fs, k.dp)
  /\ IF f.panic # "" THEN fs' = f /\ UNCHANGED <<user, kern, failed>>
     ELSE IF ~Unlinkable(k.name) \/ inum = None
     THEN UnlockPutReturn(p, f, [k EXCEPT !.dp = None], k.dp, -1)
     ELSE /\ fs' = Iget(f, inum)
          /\ Step(p, [k EXCEPT !.pc = "unlinkInode", !.ip = SlotFor(f, inum)])
          /\ UNCHANGED <<user, failed>>
  /\ UNCHANGED <<ftable, pipes, lost>>

Unlinked(f, s) == Iupdate([f EXCEPT !.icache[s].copy.nlink = @ - 1], s)

Erase_KeepsLink(f, k, off) == Writei(f, k.dp, off, Zero)    \* mutant: the link of ".." stays

\* The entry is erased; its inode's link goes in the next step but one.
Erase(f, k, off) ==
  LET g == Writei(f, k.dp, off, Zero) IN
  IF f.icache[k.ip].copy.type = "dir"
  THEN Iupdate([g EXCEPT !.icache[k.dp].copy.nlink = @ - 1], k.dp) ELSE g

UnlinkInode(p) ==
  LET k   == kern[p]
      f   == Ilock(fs, k.ip, p)
      off == Min(Found(f, k.dp, k.name))
  IN
  /\ At(p, "unlinkInode") /\ LockFree(fs, k.ip)
  /\ IF f.panic # "" THEN fs' = f /\ UNCHANGED kern
     ELSE IF f.icache[k.ip].copy.nlink < 1
     THEN fs' = Panic(f, "unlink: nlink < 1") /\ UNCHANGED kern
     ELSE IF f.icache[k.ip].copy.type = "dir" /\ ~Isdirempty(f, k.ip)
     THEN /\ fs' = Iunlock(f, k.ip)
          /\ Step(p, Iput([k EXCEPT !.ip = None], k.ip, "unlinkBad"))
     ELSE /\ fs' = Iunlock(Erase(f, k, off), k.dp)
          /\ Step(p, Iput([k EXCEPT !.dp = None], k.dp, "unlinkDone"))
  /\ UNCHANGED <<ftable, pipes, user, failed, lost>>

UnlinkBad(p) ==
  LET k == kern[p] IN
  /\ At(p, "unlinkBad")
  /\ UnlockPutReturn(p, fs, [k EXCEPT !.dp = None], k.dp, -1)
  /\ UNCHANGED <<ftable, pipes, lost>>

UnlinkDone(p) ==
  LET k == kern[p]
      f == Unlinked(fs, k.ip)
  IN
  /\ At(p, "unlinkDone")
  /\ UnlockPutReturn(p, f, [k EXCEPT !.ip = None], k.ip, 0)
  /\ UNCHANGED <<ftable, pipes, lost>>

-----------------------------------------------------------------------------
(* link                                                                    *)

\* The link is counted before the new name is looked up.
LinkOld(p) ==
  LET k == kern[p]
      f == Ilock(fs, k.ip, p)
      g == Iupdate([f EXCEPT !.icache[k.ip].copy.nlink = @ + 1], k.ip)
  IN
  /\ At(p, "link") /\ LockFree(fs, k.ip)
  /\ IF f.panic # "" THEN fs' = f /\ UNCHANGED <<user, kern, failed>>
     ELSE IF f.icache[k.ip].copy.type = "dir"
     THEN UnlockPutReturn(p, f, [k EXCEPT !.ip = None], k.ip, -1)
     ELSE /\ fs' = Iunlock(g, k.ip)
          /\ Step(p, [k EXCEPT !.pc = "linkNew"])
          /\ UNCHANGED <<user, failed>>
  /\ UNCHANGED <<ftable, pipes, lost>>

LinkNew(p) ==
  /\ At(p, "linkNew")
  /\ fs' = StartInode(fs, p, Cur(p).new)
  /\ Step(p, Namex(kern[p], p, Cur(p).new, TRUE, "linkDir", "linkBad"))
  /\ UNCHANGED <<ftable, pipes, user, failed, lost>>

\* dirlink: a name that is there is looked up and put again with dp locked.
LinkDir(p) ==
  LET k    == kern[p]
      f    == Ilock(fs, k.dp, p)
      inum == Dirlookup(f, k.dp, k.name)
      g    == Dirlink(f, k.dp, k.name, f.icache[k.ip].inum)
  IN
  /\ At(p, "linkDir") /\ LockFree(fs, k.dp)
  /\ IF f.panic # "" THEN fs' = f /\ UNCHANGED kern
     ELSE IF inum # None
     THEN /\ fs' = Iget(f, inum)
          /\ Step(p, Iput(k, SlotFor(f, inum), "linkExists"))
     ELSE /\ fs' = Iunlock(g, k.dp)
          /\ Step(p, Iput([k EXCEPT !.dp = None], k.dp, "linked"))
  /\ UNCHANGED <<ftable, pipes, user, failed, lost>>

LinkExists(p) ==
  LET k == kern[p] IN
  /\ At(p, "linkExists")
  /\ fs' = Iunlock(fs, k.dp)
  /\ Step(p, Iput([k EXCEPT !.dp = None], k.dp, "linkBad"))
  /\ UNCHANGED <<ftable, pipes, user, failed, lost>>

Linked(p) ==
  LET k == kern[p] IN
  /\ At(p, "linked")
  /\ Step(p, IputReturn([k EXCEPT !.ip = None], k.ip, 0))
  /\ UNCHANGED <<fs, ftable, pipes, user, failed, lost>>

LinkBad(p) ==
  LET k == kern[p]
      f == Ilock(fs, k.ip, p)
  IN
  /\ At(p, "linkBad") /\ LockFree(fs, k.ip)
  /\ UnlockPutReturn(p, Unlinked(f, k.ip), [k EXCEPT !.ip = None], k.ip, -1)
  /\ UNCHANGED <<ftable, pipes, lost>>

-----------------------------------------------------------------------------
(* chdir and exec                                                          *)

Chdir(p) ==
  LET k == kern[p]
      f == Ilock(fs, k.ip, p)
  IN
  /\ At(p, "chdir") /\ LockFree(fs, k.ip)
  /\ IF f.panic # "" THEN fs' = f /\ UNCHANGED <<user, kern, failed>>
     ELSE IF f.icache[k.ip].copy.type # "dir"
     THEN UnlockPutReturn(p, f, [k EXCEPT !.ip = None], k.ip, -1)
     ELSE /\ fs' = Iunlock(f, k.ip)
          /\ Step(p, Iput(k, user[p].cwd, "chdirSet"))
          /\ user' = [user EXCEPT ![p].cwd = None]
          /\ UNCHANGED failed
  /\ UNCHANGED <<ftable, pipes, lost>>

ChdirSet(p) ==
  /\ At(p, "chdirSet")
  /\ ReturnWith(p, [user[p] EXCEPT !.cwd = kern[p].ip], 0, <<>>)
  /\ UNCHANGED <<fs, ftable, pipes, lost>>

\* The file system side of exec: what is not a file is no program.  The image that
\* is loaded is the rest of the program text.
Exec(p) ==
  LET k == kern[p]
      f == Ilock(fs, k.ip, p)
  IN
  /\ At(p, "exec") /\ LockFree(fs, k.ip)
  /\ IF f.panic # "" THEN fs' = f /\ UNCHANGED <<user, kern, failed>>
     ELSE UnlockPutReturn(p, f, [k EXCEPT !.ip = None], k.ip,
                          IF f.icache[k.ip].copy.type = "file" THEN 0 ELSE -1)
  /\ UNCHANGED <<ftable, pipes, lost>>

-----------------------------------------------------------------------------
(* Descriptors                                                             *)

FileOf(p) == user[p].ofile[Cur(p).fd]
HasFile(p) == Cur(p).fd \in Fds /\ FileOf(p) # None
BadFd(p) == Return(p, -1) /\ UNCHANGED <<fs, ftable, pipes, lost>>

\* What is left of a pipe when an end of file f is closed.
PipeWithout(f) ==
  LET e == ftable[f] IN
  IF e.writable THEN [pipes EXCEPT ![e.pipe].writeopen = FALSE]
  ELSE [pipes EXCEPT ![e.pipe].readopen = FALSE]

Fileclose(f) ==
  IF ftable[f].ref > 1 THEN [ftable EXCEPT ![f].ref = @ - 1] ELSE [ftable EXCEPT ![f] = NoFile]

Closes(f, type) == ftable[f].ref = 1 /\ ftable[f].type = type

\* fileclose(f) by p, whose record becomes u; then on from the place given.
CloseThen(p, u, f, place) ==
  /\ ftable' = Fileclose(f)
  /\ pipes' = IF Closes(f, "pipe") THEN PipeWithout(f) ELSE pipes
  /\ IF Closes(f, "inode")
     THEN /\ user' = [user EXCEPT ![p] = [u EXCEPT !.inop = TRUE]]
          /\ Step(p, Iput(kern[p], ftable[f].ip, place))
          /\ UNCHANGED failed
     ELSE IF place = "return" THEN ReturnWith(p, u, 0, <<>>)
     ELSE /\ user' = [user EXCEPT ![p] = u]
          /\ Step(p, [kern[p] EXCEPT !.pc = place])
          /\ UNCHANGED failed
  /\ UNCHANGED <<fs, lost>>

Close(p) ==
  /\ Calling(p, "close")
  /\ IF HasFile(p)
     THEN CloseThen(p, [user[p] EXCEPT !.ofile[Cur(p).fd] = None], FileOf(p), "return")
     ELSE BadFd(p)

Dup(p) ==
  /\ Calling(p, "dup")
  /\ IF ~HasFile(p) \/ FreeFd(p) = {} THEN BadFd(p)
     ELSE /\ ftable' = [ftable EXCEPT ![FileOf(p)].ref = @ + 1]
          /\ ReturnWith(p, [user[p] EXCEPT !.ofile[Min(FreeFd(p))] = FileOf(p)],
                        Min(FreeFd(p)), <<>>)
          /\ UNCHANGED <<fs, pipes, lost>>

\* The number of links that the program finds in struct stat.
Fstat(p) ==
  LET s == ftable[FileOf(p)].ip
      f == Ilock(fs, s, p)
  IN
  /\ Calling(p, "fstat")
  /\ IF ~HasFile(p) \/ ftable[FileOf(p)].type # "inode" THEN BadFd(p)
     ELSE /\ LockFree(fs, s)
          /\ fs' = Iunlock(f, s)
          /\ Return(p, f.icache[s].copy.nlink)
          /\ UNCHANGED <<ftable, pipes, lost>>

\* readi of up to n words at off.  Nobody types at the console, the one device: a
\* process that reads it waits for ever.
ReadWords(f, s, off, n) ==
  [i \in 1 .. Max({0, Min({n, f.icache[s].copy.size - off})}) |-> Readi(f, s, off + i - 1)[2]]

ReadInode(p) ==
  LET e     == ftable[FileOf(p)]
      f     == Ilock(fs, e.ip, p)
      words == ReadWords(f, e.ip, e.off, Cur(p).n)
  IN
  /\ Calling(p, "read")
  /\ HasFile(p) /\ e.readable /\ e.type = "inode"
  /\ LockFree(fs, e.ip) /\ f.icache[e.ip].copy.type # "dev"
  /\ fs' = Iunlock(f, e.ip)
  /\ ftable' = [ftable EXCEPT ![FileOf(p)].off = @ + Len(words)]
  /\ ReturnWith(p, user[p], Len(words), words)
  /\ UNCHANGED <<pipes, lost>>

ReadRefused(p) ==
  /\ Calling(p, "read")
  /\ ~HasFile(p) \/ ~ftable[FileOf(p)].readable
  /\ BadFd(p)

\* filewrite: one transaction for each MaxGroup words; words is what is left of them.
WriteInode(p) ==
  LET e     == ftable[FileOf(p)]
      f     == Ilock(fs, e.ip, p)
      todo  == IF kern[p].words = <<>> THEN Cur(p).words ELSE kern[p].words
      n     == Min({Len(todo), MaxGroup})
      group == [i \in 1 .. n |-> <<0, todo[i]>>]
      g     == WriteWords(f, e.ip, e.off, group)
      fits  == MayWrite(f, e.ip, e.off, n)
  IN
  /\ Calling(p, "write")
  /\ HasFile(p) /\ e.writable /\ e.type = "inode"
  /\ LockFree(fs, e.ip) /\ f.icache[e.ip].copy.type # "dev"
  /\ IF ~fits THEN fs' = Iunlock(f, e.ip) /\ Return(p, -1) /\ UNCHANGED ftable
     ELSE /\ fs' = Iunlock(g, e.ip)
          /\ ftable' = [ftable EXCEPT ![FileOf(p)].off = @ + n]
          /\ IF n = Len(todo) THEN Return(p, Len(Cur(p).words))
             ELSE /\ Step(p, [kern[p] EXCEPT !.words = SubSeq(todo, n + 1, Len(todo))])
                  /\ UNCHANGED <<user, failed>>
  /\ UNCHANGED <<pipes, lost>>

\* The console takes everything.
WriteDevice(p) ==
  LET e == ftable[FileOf(p)]
      f == Ilock(fs, e.ip, p)
  IN
  /\ Calling(p, "write")
  /\ HasFile(p) /\ e.writable /\ e.type = "inode"
  /\ LockFree(fs, e.ip) /\ f.icache[e.ip].copy.type = "dev"
  /\ fs' = Iunlock(f, e.ip)
  /\ Return(p, Len(Cur(p).words))
  /\ UNCHANGED <<ftable, pipes, lost>>

WriteRefused(p) ==
  /\ Calling(p, "write")
  /\ ~HasFile(p) \/ ~ftable[FileOf(p)].writable
  /\ BadFd(p)

-----------------------------------------------------------------------------
(* Pipes; module Pipe has their ring and their sleepers.                   *)

PipeCall(p) ==
  LET r == Min(FreeFile)  w == Min(FreeFile \ {r})
      a == Min(FreeFd(p)) b == Min(FreeFd(p) \ {a})
      End(readable) == [NoFile EXCEPT !.type = "pipe", !.ref = 1, !.pipe = r,
                                      !.readable = readable, !.writable = ~readable]
  IN
  /\ Calling(p, "pipe")
  /\ IF Cardinality(FreeFile) < 2 \/ Cardinality(FreeFd(p)) < 2 THEN BadFd(p)
     ELSE /\ ftable' = [ftable EXCEPT ![r] = End(TRUE), ![w] = End(FALSE)]
          /\ pipes' = [pipes EXCEPT ![r] = [words |-> <<>>, readopen |-> TRUE, writeopen |-> TRUE]]
          /\ ReturnWith(p, [user[p] EXCEPT !.ofile[a] = r, !.ofile[b] = w], 0, <<>>)
          /\ UNCHANGED <<fs, lost>>

ReadPipe(p) ==
  LET e == ftable[FileOf(p)]
      q == pipes[e.pipe].words
      n == Min({Cur(p).n, Len(q)})
  IN
  /\ Calling(p, "read")
  /\ HasFile(p) /\ e.readable /\ e.type = "pipe"
  /\ q # <<>> \/ ~pipes[e.pipe].writeopen
  /\ pipes' = [pipes EXCEPT ![e.pipe].words = SubSeq(q, n + 1, Len(q))]
  /\ ReturnWith(p, user[p], n, SubSeq(q, 1, n))
  /\ UNCHANGED <<fs, ftable, lost>>

\* As many words as there is room for, and again when there is room.
WritePipe(p) ==
  LET e    == ftable[FileOf(p)]
      q    == pipes[e.pipe].words
      todo == IF kern[p].words = <<>> THEN Cur(p).words ELSE kern[p].words
      n    == Min({Len(todo), PIPESIZE - Len(q)})
  IN
  /\ Calling(p, "write")
  /\ HasFile(p) /\ e.writable /\ e.type = "pipe"
  /\ n > 0 \/ ~pipes[e.pipe].readopen
  /\ pipes' = [pipes EXCEPT ![e.pipe].words = q \o SubSeq(todo, 1, n)]
  /\ IF n = Len(todo) THEN Return(p, Len(Cur(p).words))
     ELSE IF ~pipes[e.pipe].readopen THEN Return(p, -1)
     ELSE /\ Step(p, [kern[p] EXCEPT !.words = SubSeq(todo, n + 1, Len(todo))])
          /\ UNCHANGED <<user, failed>>
  /\ UNCHANGED <<fs, ftable, lost>>

-----------------------------------------------------------------------------
(* fork, exit, wait: what they do to files.  Module Proc has the rest.     *)

Fork(p) ==
  LET free == {q \in Procs : user[q].st = "unused"}
      q    == Min(free)
  IN
  /\ Calling(p, "fork")
  /\ IF free = {} THEN BadFd(p)
     ELSE /\ ftable' = [f \in Files |->
               [ftable[f] EXCEPT !.ref = @ + Cardinality({d \in Fds : user[p].ofile[d] = f})]]
          /\ fs' = Idup(fs, user[p].cwd)
          /\ user' = [user EXCEPT
               ![p].prog = Tail(@),
               ![q] = [user[p] EXCEPT !.parent = p, !.prog = Cur(p).child]]
          /\ failed' = IF q \in Cur(p).want THEN failed ELSE failed \cup {p}
          /\ UNCHANGED <<pipes, kern, lost>>

OpenFds(p) == {d \in Fds : user[p].ofile[d] # None}

\* exit, when the program has ended: one descriptor at a time, then the directory.
ExitClose(p) ==
  LET d == Min(OpenFds(p)) IN
  /\ At(p, "user") /\ user[p].prog = <<>> /\ OpenFds(p) # {}
  /\ CloseThen(p, [user[p] EXCEPT !.ofile[d] = None], user[p].ofile[d], "exitNext")

\* The end_op of fileclose.
ExitNext(p) ==
  /\ At(p, "exitNext")
  /\ user' = [user EXCEPT ![p].inop = FALSE]
  /\ Step(p, Idle)
  /\ UNCHANGED <<fs, ftable, pipes, failed, lost>>

ExitCwd(p) ==
  /\ At(p, "user") /\ user[p].prog = <<>> /\ OpenFds(p) = {}
  /\ user' = [user EXCEPT ![p].cwd = None, ![p].inop = TRUE]
  /\ Step(p, Iput(kern[p], user[p].cwd, "exited"))
  /\ UNCHANGED <<fs, ftable, pipes, failed, lost>>

\* Children go to init, which waits for those that are zombies.
Exited(p) ==
  /\ At(p, "exited")
  /\ user' = [q \in Procs |->
       IF q = p THEN IF user[p].parent = Init0 THEN Unborn
                     ELSE [Unborn EXCEPT !.st = "zombie", !.parent = user[p].parent]
       ELSE IF user[q].parent # p \/ user[q].st = "unused" THEN user[q]
       ELSE IF user[q].st = "zombie" THEN Unborn
       ELSE [user[q] EXCEPT !.parent = Init0]]
  /\ Step(p, Idle)
  /\ UNCHANGED <<fs, ftable, pipes, failed, lost>>

ChildrenOf(p) == {q \in Procs : user[q].st # "unused" /\ user[q].parent = p}

Wait(p) ==
  /\ Calling(p, "wait")
  /\ IF ChildrenOf(p) = {} THEN BadFd(p)
     ELSE \E q \in ChildrenOf(p) :
            /\ user[q].st = "zombie"
            /\ user' = [user EXCEPT ![p].prog = Tail(@), ![q] = Unborn]
            /\ failed' = IF q \in Cur(p).want THEN failed ELSE failed \cup {p}
            /\ UNCHANGED <<fs, ftable, pipes, kern, lost>>

\* A process between two transactions of one write goes on with it, killed or not.
Midway(q) ==
  kern[q].pc # "user" \/ (kern[q].words # <<>> /\ ftable[FileOf(q)].type = "inode")

\* kill, of all children: each exits when it comes back from its call, at once when it
\* runs in user mode or waits at a pipe.
Kill(p) ==
  LET victims == {q \in ChildrenOf(p) : user[q].st = "running"} IN
  /\ Calling(p, "kill")
  /\ user' = [q \in Procs |->
       IF q = p THEN [user[q] EXCEPT !.prog = Tail(@)]
       ELSE IF q \in victims THEN [user[q] EXCEPT !.prog =
              IF Midway(q) /\ @ # <<>> THEN SubSeq(@, 1, 1) ELSE <<>>]
       ELSE user[q]]
  /\ kern' = [q \in Procs |-> IF q \in victims /\ ~Midway(q) THEN Idle ELSE kern[q]]
  /\ UNCHANGED <<fs, ftable, pipes, failed, lost>>

-----------------------------------------------------------------------------
Next == \E p \in Procs :
  \/ Walk(p) \/ IputTest(p) \/ IputFree(p) \/ IputClear(p) \/ IputUnref(p)
  \/ PathCall(p) \/ Fail(p)
  \/ OpenInode(p) \/ OpenCreated(p)
  \/ Create(p) \/ CreateOld(p) \/ CreateAlloc(p) \/ CreateInit(p) \/ Created(p)
  \/ Unlink(p) \/ UnlinkInode(p) \/ UnlinkBad(p) \/ UnlinkDone(p)
  \/ LinkOld(p) \/ LinkNew(p) \/ LinkDir(p) \/ LinkExists(p) \/ Linked(p) \/ LinkBad(p)
  \/ Chdir(p) \/ ChdirSet(p) \/ Exec(p)
  \/ Close(p) \/ Dup(p) \/ Fstat(p)
  \/ ReadInode(p) \/ ReadRefused(p) \/ WriteInode(p) \/ WriteDevice(p) \/ WriteRefused(p)
  \/ PipeCall(p) \/ ReadPipe(p) \/ WritePipe(p)
  \/ Fork(p) \/ ExitClose(p) \/ ExitNext(p) \/ ExitCwd(p) \/ Exited(p) \/ Wait(p) \/ Kill(p)

-----------------------------------------------------------------------------
(* Properties                                                              *)

Places == {"user", "walk", "iput", "iputFree", "iputClear", "iputUnref", "fail", "open",
           "openCreated", "create", "createOld", "createAlloc", "createInit", "created",
           "unlink", "unlinkInode", "unlinkBad", "unlinkDone", "link", "linkNew", "linkDir",
           "linkExists", "linked", "linkBad", "chdir", "chdirSet", "exec", "exitNext", "exited"}
Locked(p) == {s \in Slots : fs.icache[s].lock = p}
SlotOrNone == Slots \cup {None}

\* The variables hold what the C types allow: pointers of the tables, counts that are
\* not negative, offsets within the largest file (struct inode, file, proc).
TypeOK ==
  /\ Typed(fs) /\ \A s \in Slots : fs.icache[s].ref \in Nat
  /\ \A f \in Files : ftable[f].ref \in Nat /\ ftable[f].ip \in SlotOrNone
                      /\ ftable[f].off \in 0 .. MaxSize
  /\ \A f \in Files : Len(pipes[f].words) <= PIPESIZE
  /\ \A p \in Procs : /\ user[p].ofile \in [Fds -> Files \cup {None}]
                      /\ user[p].cwd \in SlotOrNone
                      /\ kern[p].pc \in Places
                      /\ {kern[p].at, kern[p].ip, kern[p].dp, kern[p].put} \subseteq SlotOrNone

Owners(s) ==
  Cardinality({f \in Files : ftable[f].ref > 0 /\ ftable[f].type = "inode" /\ ftable[f].ip = s})
  + Cardinality({p \in Procs : user[p].cwd = s})
  + Cardinality({pf \in Procs \X {"at", "ip", "dp", "put"} : kern[pf[1]][pf[2]] = s})

\* Every pointer to a cache entry is counted once, on every path out of every call, the
\* failing ones included, and no count is left behind (the ip->ref of iget, idup and
\* iput); and a file is open as long as descriptors name it, over fork, dup, close and
\* exit (file.c).
CountsAgree ==
  /\ \A s \in Slots : fs.icache[s].ref = Owners(s)
  /\ \A f \in Files :
       ftable[f].ref = Cardinality({pd \in Procs \X Fds : user[pd[1]].ofile[pd[2]] = f})

\* What the disk holds of directories: triples of directory, offset and i-number.
DiskWord(d, off) ==
  fs.data[Address(fs, fs.dinode[d], off \div BSIZE)][off % BSIZE]
Entries ==
  LET places == {do \in {i \in Inums : fs.dinode[i].type = "dir"} \X (0 .. MAXFILE * BSIZE - 1) :
                   do[2] < fs.dinode[do[1]].size}
  IN {e \in {<<do[1], do[2], DiskWord(do[1], do[2])[1]>> : do \in places} : e[3] # None}
Quiet == Up /\ \A p \in Procs : ~user[p].inop

\* Between transactions the link count of an inode is the number of names it has, and
\* of the ".." entries of the directories that have a name.  An inode that lost its
\* name with the directory that held it is not counted rightly any more (lost): unlink
\* leaves no name in a directory, but open can put one into a directory that was
\* removed (sysfile.c: create, unlink, link).  No count becomes negative.
LinksCounted ==
  /\ \A s \in Slots : fs.icache[s].copy.nlink >= 0
  /\ Quiet =>
    LET entries == Entries
        names   == {e \in entries : e[2] >= 2}
        named   == {e[3] : e \in names} \cup {ROOTINO}
        parents == {e \in entries : e[2] = 1 /\ e[1] \in named}
        Links(i) == Cardinality({e \in names \cup parents : e[3] = i})
    IN \A i \in Inums \ lost :
         IF fs.dinode[i].type = "free" THEN Links(i) = 0
         ELSE fs.dinode[i].nlink = Links(i)

\* "If that was the last reference and the inode has no links to it, free the inode (and
\* its content) on disk" (fs.c:328-330): no inode is left that has neither.
LastPutFrees ==
  Quiet => \A i \in Inums :
    fs.dinode[i].type # "free" /\ fs.dinode[i].nlink = 0 => Cached(fs, i) # {}

\* What is valid in the cache and not being worked on is what the disk has: iupdate "must
\* be called after every change to an ip->xxx field" (fs.c:217), and iput's valid = 0 may
\* come after the inode has been allocated again.
CacheCurrent ==
  \A s \in Slots :
    LET ip == fs.icache[s] IN
    ip.ref > 0 /\ ip.valid /\ LockFree(fs, s) => ip.copy = fs.dinode[ip.inum]

\* What the disk holds is a file system, and the cache agrees with it: every block has one
\* owner, a file has the blocks below its size, and no number is out of range, up to a
\* panic, which leaves the transaction it comes in to the log.
DiskSound == TypeOK /\ CacheCurrent /\ (Up => Laid(fs))

\* An inode is in one cache entry at most, over iget's search, its recycling of entries
\* and the puts between them: two entries would be two locks.
CachedOnce ==
  \A s, t \in Slots :
    s # t /\ fs.icache[s].ref > 0 /\ fs.icache[t].ref > 0 =>
      fs.icache[s].inum # fs.icache[t].inum

\* An inode lock is held within a call only, so every path out of a call gives back what
\* it took; and on an entry that is counted, which iget does not recycle.
LocksKept ==
  Up => \A s \in Slots, p \in Procs :
          fs.icache[s].lock = p => kern[p].pc # "user" /\ fs.icache[s].ref > 0

\* "All calls to iput() must be inside a transaction in case it has to free the inode"
\* (fs.c:331-333).
IputInTransaction == \A p \in Procs : kern[p].put # None => user[p].inop

\* What memory holds of inodes and files agrees with the pointers to it, and inodes are
\* put where they may be freed.
InodesSound == CountsAgree /\ CachedOnce /\ LocksKept /\ IputInTransaction

\* With programs that leave inodes and cache entries to spare (ialloc and iget panic
\* without) the kernel stops in two cases only: when "the file system runs out of
\* blocks" (usertests.c:1644); and when a path goes through the ".." of a directory
\* that was removed meanwhile, and whose parent was removed too and is free (ilock,
\* fs.c:309-310). Without a ".." nobody comes to a freed inode.
PanicsAreKnown ==
  ~Up => \/ fs.panic = "balloc: out of blocks" /\ Blocks \subseteq fs.bitmap
         \/ /\ fs.panic = "ilock: no type"
            /\ \E p \in Procs : /\ kern[p].pc # "user"
                                /\ Cur(p).op \in PathCalls
                                /\ ".." \in ToSet(Cur(p).path.names)
                                /\ \E s \in Locked(p) : fs.icache[s].copy.type = "free"

\* Every result is one that the program's author expects.
ProgramsAgree == failed = {}

\* The cache entry whose lock p waits for.
Awaits(p) ==
  LET k == kern[p] IN
  CASE k.pc = "walk" /\ k.path.names # <<>> -> k.at
    [] k.pc = "iput" -> k.put
    [] k.pc \in {"open", "createOld", "createInit", "unlinkInode", "link", "linkBad",
                 "chdir", "exec"} -> k.ip
    [] k.pc \in {"create", "unlink", "linkDir"} -> k.dp
    [] OTHER -> None
WaitsFor(p, q) == Awaits(p) # None /\ fs.icache[Awaits(p)].lock = q
Ring(S) == S # {} /\ \A p \in S : \E q \in S : WaitsFor(p, q)

\* Locks are taken from the root towards the leaves, in every call, but for the one that
\* iput takes (fs.c:334): where processes wait for each other's inode locks in a ring,
\* one of them puts an inode while it holds another.  There are such rings: create and
\* unlink put the parent directory with the child locked.
CyclesGoThroughIput ==
  Up => \A S \in SUBSET Procs :
          Ring(S) => \E p \in S : kern[p].pc = "iput" /\ Locked(p) # {}
=============================================================================
