--------------------------------- MODULE Fs ---------------------------------
(***************************************************************************)
(* The file system calls of kernel/sysfile.c and kernel/file.c on the      *)
(* inode table of kernel/fs.c, made by processes that run scripts.         *)
(*                                                                         *)
(* An action is what a process does between two points where another one   *)
(* can interfere: it takes one inode's sleep-lock (and possibly keeps it), *)
(* or is one critical section of itable.lock, ftable.lock or log.lock.     *)
(* A call runs inside a transaction of AtomicDisk: disk is what reads see  *)
(* and durable is what a crash leaves, the disk at the last moment when no *)
(* transaction was open.  The wait for log space is in Log.  An entry of   *)
(* itable is known by its inode number; the table has room for all of      *)
(* them.  Devices have a valid major number.                               *)
(***************************************************************************)
EXTENDS Inode

CONSTANTS NPROC,       \* processes
          NFILE,       \* size of ftable
          NOFILE,      \* descriptors of a process
          WMAX,        \* units that filewrite() writes in one transaction
          Programs,    \* scripts of the first process
          MaxCrashes,
          InitDisk     \* what mkfs made

ASSUME FsAssumption ==
  /\ {NPROC, NFILE, NOFILE, WMAX} \subseteq Nat \ {0}
  /\ MaxCrashes \in Nat

\* mkfs writes every inode of the table.
ASSUME DiskAssumption == DOMAIN InitDisk = {"dino", "blk", "used"} /\ DOMAIN InitDisk.dino = Inums

Procs == 1..NPROC
Files == 1..NFILE
Fds == 0..NOFILE - 1

VARIABLES
  disk, durable,
  ino,     \* itable: ref, valid, lock (its holder or 0) and n, the copy of the dinode
  file,    \* ftable: ref, ip, off, mode
  ofile, cwd, par,  \* fields of struct proc
  out,     \* processes inside a transaction
  pc, loc, \* where each process is, and its locals
  prog,    \* what is left of its script
  wrong,   \* calls whose result the script does not expect
  lost,    \* inodes that were entered into a removed directory
  panic, crashes

vars == <<disk, durable, ino, file, ofile, cwd, par, out, pc, loc, prog, wrong,
          lost, panic, crashes>>
files == <<file, ofile>>
world == <<durable, par, prog, wrong, lost, panic, crashes>>

Fail == <<"fail">>
Ok == <<"ok">>

NoFile == [ref |-> 0, ip |-> 0, off |-> 0, mode |-> {}]
\* cur, path, parent, found, miss: namex() and where it returns to;
\* puts, then: inodes to iput() and what follows; rest: what filewrite() has left.
NoLoc == [cur |-> 0, path |-> <<>>, parent |-> FALSE, found |-> "none", miss |-> "none",
          ip |-> 0, dp |-> 0, name |-> "none", f |-> 0, puts |-> <<>>, then |-> "none",
          res |-> Fail, rest |-> <<>>, scan |-> 0]

Init ==
  /\ disk = InitDisk /\ durable = InitDisk
  /\ ino = [i \in Inums |-> [ref |-> IF i = ROOTINO THEN 1 ELSE 0, valid |-> FALSE,
                             lock |-> 0, n |-> Fresh("free")]]
  /\ file = [f \in Files |-> NoFile]
  /\ ofile = [p \in Procs |-> [fd \in Fds |-> 0]]
  /\ cwd = [p \in Procs |-> IF p = 1 THEN ROOTINO ELSE 0]
  /\ par = [p \in Procs |-> 0]
  /\ out = {}
  /\ pc = [p \in Procs |-> IF p = 1 THEN "user" ELSE "unused"]
  /\ loc = [p \in Procs |-> NoLoc]
  /\ \E s \in Programs : prog = [p \in Procs |-> IF p = 1 THEN s ELSE <<>>]
  /\ wrong = {} /\ lost = {} /\ panic = "none" /\ crashes = 0

At(p, l) == panic = "none" /\ pc[p] = l
Call(p) == Head(prog[p])
Calls(p, ops) == At(p, "user") /\ prog[p] # <<>> /\ Call(p).op \in ops
Goto(p, l) == pc' = [pc EXCEPT ![p] = l]
Keep(p, l) == loc' = [loc EXCEPT ![p] = l]

-----------------------------------------------------------------------------
\* The inode table.

\* iget() and idup() on table t.
Iget(t, i) == [t EXCEPT ![i].ref = @ + 1, ![i].valid = @ /\ t[i].ref > 0]

\* What the in-memory copy holds once ilock() has filled it.
Load(i) == IF ino[i].valid THEN ino[i].n ELSE disk.dino[i]

\* The table after ilock(i) by p, with the copy changed to m; p = 0 if the lock is
\* released again in the same action.
Hold(t, p, i, m) == [t EXCEPT ![i].lock = p, ![i].valid = TRUE, ![i].n = m]
Iunlock(t, i) == [t EXCEPT ![i].lock = 0]

\* The inode that p is about to ilock(), or 0.
Wants(p) ==
  LET l == loc[p] IN
  CASE pc[p] = "walk" /\ l.path # <<>> -> l.cur
    [] pc[p] \in {"open_lock", "create_old", "create_new", "link_ip", "link_bad",
                  "unlink_ip", "chdir_ip", "reclaim"} -> l.ip
    [] pc[p] \in {"create_dir", "link_dir", "unlink_dir"} -> l.dp
    [] pc[p] \in {"read", "write"} -> file[l.f].ip
    [] OTHER -> 0

\* p is at l and gets the lock.
Ilock(p, l) ==
  /\ At(p, l)
  /\ Wants(p) # 0
  /\ ino[Wants(p)].lock = 0
  /\ Load(Wants(p)).type # "free"

\* ilock() of an inode that is free on disk.
NoType(p) ==
  /\ panic = "none" /\ Wants(p) # 0
  /\ ino[Wants(p)].lock = 0 /\ Load(Wants(p)).type = "free"
  /\ panic' = "ilock: no type"
  /\ UNCHANGED <<disk, durable, ino, files, cwd, par, out, pc, loc, prog, wrong, lost, crashes>>

\* Mutant: the entry stays valid.
IputFree_Valid(t, i) == [t EXCEPT ![i].lock = 0, ![i].n = Fresh("free")]
\* The entry of an inode that iput() has freed on disk.
IputFree(t, i) == [t EXCEPT ![i].lock = 0, ![i].valid = FALSE, ![i].n = Fresh("free")]

\* iput() frees the inode on disk: no link and no other reference.
Unused(i) == ino[i].ref = 1 /\ ino[i].valid /\ ino[i].n.nlink = 0

\* iput(): one critical section of itable.lock, or the start of freeing the inode.
IputStart(p) ==
  LET i == Head(loc[p].puts) IN
  /\ At(p, "put")
  /\ \/ /\ Unused(i)
        /\ IF ino[i].lock = 0
           THEN ino' = [ino EXCEPT ![i].lock = p] /\ Goto(p, "put_free") /\ UNCHANGED panic
           ELSE panic' = "iput: locked" /\ UNCHANGED <<ino, pc>>
        /\ UNCHANGED loc
     \/ /\ ~Unused(i)
        /\ ino' = [ino EXCEPT ![i].ref = @ - 1]
        /\ Keep(p, [loc[p] EXCEPT !.puts = Tail(@)])
        /\ Goto(p, IF Len(loc[p].puts) = 1 THEN loc[p].then ELSE "put")
        /\ UNCHANGED panic
  /\ UNCHANGED <<disk, durable, files, cwd, par, out, prog, wrong, lost, crashes>>

\* itrunc(), type = 0, iupdate(), valid = 0, releasesleep().
IputTrunc(p) ==
  LET i == Head(loc[p].puts)
      d == Itrunc(disk, i, ino[i].n).d
  IN
  /\ At(p, "put_free")
  /\ IF Truncated(disk, ino[i].n) \subseteq disk.used
     THEN disk' = Iupdate(d, i, Fresh("free")) /\ UNCHANGED panic
     ELSE panic' = "freeing free block" /\ UNCHANGED disk
  /\ ino' = IputFree(ino, i)
  /\ Goto(p, "put_last")
  /\ UNCHANGED <<durable, files, cwd, par, out, loc, prog, wrong, lost, crashes>>

\* The last critical section of iput().
IputLast(p) ==
  /\ At(p, "put_last")
  /\ ino' = [ino EXCEPT ![Head(loc[p].puts)].ref = @ - 1]
  /\ Keep(p, [loc[p] EXCEPT !.puts = Tail(@)])
  /\ Goto(p, IF Len(loc[p].puts) = 1 THEN loc[p].then ELSE "put")
  /\ UNCHANGED <<disk, files, cwd, out, world>>

\* Locals l with i given up, and what follows.
PutThen(l, i, then) == [l EXCEPT !.puts = <<i>>, !.then = then]

-----------------------------------------------------------------------------
\* Transactions and results.

\* The script goes on after result r.
Result(p, r) ==
  /\ prog' = [prog EXCEPT ![p] = IF @ = <<>> THEN <<>> ELSE Tail(@)]
  /\ wrong' = IF prog[p] = <<>> \/ Call(p).exp = {} \/ r \in Call(p).exp
              THEN wrong ELSE wrong \cup {<<p, Call(p).op, r>>}

\* end_op(): the last transaction commits them all.
EndOp(p) ==
  /\ out' = out \ {p}
  /\ durable' = IF out = {p} THEN disk ELSE durable

\* The end of a call that is a transaction; a process without a current directory
\* is at the end of kexit().
EndCall(p) ==
  /\ At(p, "end")
  /\ EndOp(p)
  /\ Result(p, loc[p].res)
  /\ Keep(p, NoLoc)
  /\ Goto(p, IF cwd[p] = 0 THEN "zombie" ELSE "user")
  /\ UNCHANGED <<disk, ino, files, cwd, par, panic, lost, crashes>>

-----------------------------------------------------------------------------
\* Path names.

\* The first DIRSIZ characters of a path element: "n15" stands for a name one
\* character longer than "n14", which has DIRSIZ.
Elem(name) == IF name = "n15" THEN "n14" ELSE name

Absolute(path) == path # <<>> /\ path[1] = "/"
\* Where namex() starts.
Start(p, path) == IF Absolute(path) THEN ROOTINO ELSE cwd[p]

\* Locals for namex(path) that goes on at found or at miss.
Namex(p, l, path, parent, found, miss) ==
  [l EXCEPT !.cur = Start(p, path),
            !.path = IF Absolute(path) THEN Tail(path) ELSE path,
            !.parent = parent, !.found = found, !.miss = miss]

\* The loop of namex() is over: "/" or "" has no parent.
NamexDone(p) ==
  LET l == loc[p] IN
  /\ At(p, "walk") /\ l.path = <<>>
  /\ IF l.parent
     THEN Keep(p, PutThen([l EXCEPT !.cur = 0], l.cur, l.miss)) /\ Goto(p, "put")
     ELSE Keep(p, [l EXCEPT !.ip = l.cur, !.cur = 0]) /\ Goto(p, l.found)
  /\ UNCHANGED <<disk, ino, files, cwd, out, world>>

\* One turn of the loop: lock, look the next element up, unlock and put.
NamexStep(p) ==
  LET l == loc[p]
      i == l.cur
      m == Load(i)
      t == Hold(ino, 0, i, m)
      name == Elem(Head(l.path))
      next == Dirlookup(disk, m, name)
  IN
  /\ Ilock(p, "walk")
  /\ \/ /\ m.type # "dir" \/ (next = 0 /\ ~(l.parent /\ Len(l.path) = 1))
        /\ ino' = t
        /\ Keep(p, PutThen([l EXCEPT !.cur = 0], i, l.miss))
        /\ Goto(p, "put")
     \/ /\ m.type = "dir" /\ l.parent /\ Len(l.path) = 1
        /\ ino' = t
        /\ Keep(p, [l EXCEPT !.dp = i, !.cur = 0, !.name = name])
        /\ Goto(p, l.found)
     \/ /\ m.type = "dir" /\ ~(l.parent /\ Len(l.path) = 1) /\ next # 0
        /\ ino' = Iget(t, next)
        /\ Keep(p, PutThen([l EXCEPT !.cur = next, !.path = Tail(@)], i, "walk"))
        /\ Goto(p, "put")
  /\ UNCHANGED <<disk, files, cwd, out, world>>

\* The start of the calls that take a path: begin_op() and namei() or nameiparent().
PathCall(p) ==
  LET c == Call(p)
      creates == c.op \in {"mkdir", "mknod"} \/ (c.op = "open" /\ "create" \in c.mode)
      found == CASE creates -> "create_dir"
                 [] c.op = "open" /\ ~creates -> "open_lock"
                 [] c.op = "unlink" -> "unlink_dir"
                 [] c.op = "link" -> "link_ip"
                 [] c.op = "chdir" -> "chdir_ip"
  IN
  /\ Calls(p, {"open", "mkdir", "mknod", "unlink", "link", "chdir"})
  /\ out' = out \cup {p}
  /\ ino' = Iget(ino, Start(p, c.path))
  /\ Keep(p, Namex(p, NoLoc, c.path, creates \/ c.op = "unlink", found, "end"))
  /\ Goto(p, "walk")
  /\ UNCHANGED <<disk, files, cwd, world>>

-----------------------------------------------------------------------------
\* create(), for open(O_CREATE), mkdir() and mknod().

TypeOf(c) == CASE c.op = "mkdir" -> "dir" [] c.op = "mknod" -> "dev" [] OTHER -> "file"

\* The inodes that ialloc() may take; it takes the first.
FreeInodes == {i \in Inums : disk.dino[i].type = "free"}

\* The parent is locked and searched; a new inode is allocated under its lock.
CreateDir(p) ==
  LET l == loc[p]
      m == Load(l.dp)
      old == Dirlookup(disk, m, l.name)
      new == Min(FreeInodes)
  IN
  /\ Ilock(p, "create_dir")
  /\ \/ /\ old # 0
        /\ ino' = Iget(Hold(ino, 0, l.dp, m), old)
        /\ Keep(p, PutThen([l EXCEPT !.ip = old, !.dp = 0], l.dp, "create_old"))
        /\ Goto(p, "put") /\ UNCHANGED disk
     \/ /\ old = 0 /\ FreeInodes = {}
        /\ ino' = Hold(ino, 0, l.dp, m)
        /\ Keep(p, PutThen([l EXCEPT !.dp = 0], l.dp, "end"))
        /\ Goto(p, "put") /\ UNCHANGED disk
     \/ /\ old = 0 /\ FreeInodes # {}
        /\ disk' = [disk EXCEPT !.dino[new] = Fresh(TypeOf(Call(p)))]
        /\ ino' = Iget(Hold(ino, p, l.dp, m), new)
        /\ Keep(p, [l EXCEPT !.ip = new])
        /\ Goto(p, "create_new")
  /\ UNCHANGED <<files, cwd, out, world>>

\* The name exists: open() may use a file or a device, nothing else is created.
CreateOld(p) ==
  LET l == loc[p]
      m == Load(l.ip)
  IN
  /\ Ilock(p, "create_old")
  /\ \/ /\ Call(p).op = "open" /\ m.type \in {"file", "dev"}
        /\ ino' = Hold(ino, p, l.ip, m)
        /\ Goto(p, "open_alloc") /\ UNCHANGED loc
     \/ /\ ~(Call(p).op = "open" /\ m.type \in {"file", "dev"})
        /\ ino' = Hold(ino, 0, l.ip, m)
        /\ Keep(p, PutThen([l EXCEPT !.ip = 0], l.ip, "end"))
        /\ Goto(p, "put")
  /\ UNCHANGED <<disk, files, cwd, out, world>>

\* The disk and the inode after "." and ".." were written into a new directory.
Dots(d, m, i, parent) ==
  IF m.type # "dir" THEN [d |-> d, m |-> m, ok |-> TRUE]
  ELSE With(Dirlink(d, m, i, ".", i), LAMBDA r :
              IF r.ok THEN Dirlink(r.d, r.m, i, "..", parent) ELSE r)

\* The link count of an inode whose creation failed.
Undo(m) == [m EXCEPT !.nlink = 0]

\* Neither create() nor link() looks at the link count of the directory.
Stray(dp, ip) == IF Load(dp).nlink = 0 THEN lost \cup {ip} ELSE lost

\* The new inode is locked, filled and entered into its parent, which is locked too.
CreateNew(p) ==
  LET l == loc[p]
      m == [Load(l.ip) EXCEPT !.nlink = 1]
      Par(n) == [n EXCEPT !.nlink = IF m.type = "dir" THEN @ + 1 ELSE @]
  IN
  /\ Ilock(p, "create_new")
  /\ \E a \in {Dots(Iupdate(disk, l.ip, m), m, l.ip, l.dp)} :
     \E b \in {IF a.ok THEN Dirlink(a.d, ino[l.dp].n, l.dp, l.name, l.ip)
              ELSE [d |-> a.d, m |-> ino[l.dp].n, ok |-> FALSE]} :
     \/ /\ b.ok
        /\ disk' = Iupdate(b.d, l.dp, Par(b.m))
        /\ ino' = Hold(Hold(ino, p, l.ip, a.m), 0, l.dp, Par(b.m))
        /\ Keep(p, PutThen([l EXCEPT !.dp = 0], l.dp,
                           IF Call(p).op = "open" THEN "open_alloc" ELSE "create_done"))
        /\ lost' = Stray(l.dp, l.ip)
     \/ /\ ~b.ok
        /\ UNCHANGED lost
        /\ disk' = Iupdate(b.d, l.ip, Undo(a.m))
        /\ ino' = Hold(Hold(ino, 0, l.ip, Undo(a.m)), p, l.dp, b.m)
        /\ Keep(p, PutThen([l EXCEPT !.ip = 0], l.ip, "unlock_dp"))
  /\ Goto(p, "put")
  /\ UNCHANGED <<files, cwd, out, durable, par, prog, wrong, panic, crashes>>

\* iunlockput(ip) at the end of mkdir() and mknod().
CreateDone(p) ==
  LET l == loc[p] IN
  /\ At(p, "create_done")
  /\ ino' = Iunlock(ino, l.ip)
  /\ Keep(p, [PutThen(l, l.ip, "end") EXCEPT !.ip = 0, !.res = Ok])
  /\ Goto(p, "put")
  /\ UNCHANGED <<disk, files, cwd, out, world>>

\* iunlockput(dp) at the end of a failed create() or unlink().
UnlockDp(p) ==
  LET l == loc[p] IN
  /\ At(p, "unlock_dp")
  /\ ino' = Iunlock(ino, l.dp)
  /\ Keep(p, PutThen([l EXCEPT !.dp = 0], l.dp, "end"))
  /\ Goto(p, "put")
  /\ UNCHANGED <<disk, files, cwd, out, world>>

-----------------------------------------------------------------------------
\* open().

\* A directory can only be opened for reading.
OpenLock(p) ==
  LET l == loc[p]
      m == Load(l.ip)
      refused == m.type = "dir" /\ Call(p).mode # {}
  IN
  /\ Ilock(p, "open_lock")
  /\ ino' = Hold(ino, IF refused THEN 0 ELSE p, l.ip, m)
  /\ Goto(p, IF refused THEN "put" ELSE "open_alloc")
  /\ Keep(p, IF refused THEN PutThen([l EXCEPT !.ip = 0], l.ip, "end") ELSE l)
  /\ UNCHANGED <<disk, files, cwd, out, world>>

FreeFiles == {f \in Files : file[f].ref = 0}
FreeFds(p) == {fd \in Fds : ofile[p][fd] = 0}

\* filealloc() and fdalloc(); a file structure without a descriptor is given back.
OpenAlloc(p) ==
  LET l == loc[p]
      f == Min(FreeFiles)
  IN
  /\ At(p, "open_alloc")
  /\ \/ /\ FreeFiles # {} /\ FreeFds(p) # {}
        /\ file' = [file EXCEPT ![f].ref = 1]
        /\ ofile' = [ofile EXCEPT ![p][Min(FreeFds(p))] = f]
        /\ Keep(p, [l EXCEPT !.f = f])
        /\ Goto(p, "open_done") /\ UNCHANGED ino
     \/ /\ FreeFiles = {} \/ FreeFds(p) = {}
        /\ ino' = Iunlock(ino, l.ip)
        /\ Keep(p, PutThen([l EXCEPT !.ip = 0], l.ip, "end"))
        /\ Goto(p, "put") /\ UNCHANGED files
  /\ UNCHANGED <<disk, cwd, out, world>>

\* The file structure is filled in, and the file truncated if asked.
OpenDone(p) ==
  LET l == loc[p]
      m == ino[l.ip].n
      trunc == "trunc" \in Call(p).mode /\ m.type = "file"
      t == Itrunc(disk, l.ip, m)
  IN
  /\ At(p, "open_done")
  /\ file' = [file EXCEPT ![l.f] = [ref |-> 1, ip |-> l.ip, off |-> 0, mode |-> Call(p).mode]]
  /\ disk' = IF trunc THEN t.d ELSE disk
  /\ ino' = Hold(ino, 0, l.ip, IF trunc THEN t.m ELSE m)
  /\ Keep(p, [l EXCEPT !.ip = 0, !.res = Ok])
  /\ Goto(p, "end")
  /\ UNCHANGED <<ofile, cwd, out, world>>

-----------------------------------------------------------------------------
\* link().

\* The link is counted before it is made.
LinkIp(p) ==
  LET l == loc[p]
      m == Load(l.ip)
      e == [m EXCEPT !.nlink = @ + 1]
      new == Call(p).path2
  IN
  /\ Ilock(p, "link_ip")
  /\ \/ /\ m.type = "dir"
        /\ ino' = Hold(ino, 0, l.ip, m)
        /\ Keep(p, PutThen([l EXCEPT !.ip = 0], l.ip, "end"))
        /\ Goto(p, "put") /\ UNCHANGED disk
     \/ /\ m.type # "dir"
        /\ disk' = Iupdate(disk, l.ip, e)
        /\ ino' = Iget(Hold(ino, 0, l.ip, e), Start(p, new))
        /\ Keep(p, Namex(p, l, new, TRUE, "link_dir", "link_bad"))
        /\ Goto(p, "walk")
  /\ UNCHANGED <<files, cwd, out, world>>

\* Mutant: the linked inode is not put.
LinkPuts_Dir(dp, ip) == <<dp>>
\* iunlockput(dp) and iput(ip).
LinkPuts(dp, ip) == <<dp, ip>>

\* The entry is made in the new parent.
LinkDir(p) ==
  LET l == loc[p] IN
  /\ Ilock(p, "link_dir")
  /\ \E r \in {Dirlink(disk, Load(l.dp), l.dp, l.name, l.ip)} :
       /\ disk' = r.d
       /\ ino' = Hold(ino, 0, l.dp, r.m)
       /\ Keep(p, IF r.ok
                  THEN [l EXCEPT !.puts = LinkPuts(l.dp, l.ip), !.then = "end",
                                 !.dp = 0, !.ip = 0, !.res = Ok]
                  ELSE PutThen([l EXCEPT !.dp = 0], l.dp, "link_bad"))
       /\ lost' = IF r.ok THEN Stray(l.dp, l.ip) ELSE lost
  /\ Goto(p, "put")
  /\ UNCHANGED <<files, cwd, out, durable, par, prog, wrong, panic, crashes>>

\* Mutant: the count is not taken back.
Unlinked_Not(m) == m
\* The link count goes down by one.
Unlinked(m) == [m EXCEPT !.nlink = @ - 1]

\* No new name: the count is taken back.
LinkBad(p) ==
  LET l == loc[p]
      m == Unlinked(Load(l.ip))
  IN
  /\ Ilock(p, "link_bad")
  /\ disk' = Iupdate(disk, l.ip, m)
  /\ ino' = Hold(ino, 0, l.ip, m)
  /\ Keep(p, PutThen([l EXCEPT !.ip = 0], l.ip, "end"))
  /\ Goto(p, "put")
  /\ UNCHANGED <<files, cwd, out, world>>

-----------------------------------------------------------------------------
\* unlink().

\* Mutant: "." and ".." can be removed.
Refused_Never(name, ip) == ip = 0
\* The names that unlink() does not remove.
Refused(name, ip) == name \in {".", ".."} \/ ip = 0

\* The parent is locked and searched.
UnlinkDir(p) ==
  LET l == loc[p]
      m == Load(l.dp)
      ip == Dirlookup(disk, m, l.name)
  IN
  /\ Ilock(p, "unlink_dir")
  /\ \/ /\ Refused(l.name, ip)
        /\ ino' = Hold(ino, 0, l.dp, m)
        /\ Keep(p, PutThen([l EXCEPT !.dp = 0], l.dp, "end"))
        /\ Goto(p, "put")
     \/ /\ ~Refused(l.name, ip)
        /\ ino' = Iget(Hold(ino, p, l.dp, m), ip)
        /\ Keep(p, [l EXCEPT !.ip = ip])
        /\ Goto(p, "unlink_ip")
  /\ UNCHANGED <<disk, files, cwd, out, world>>

\* Only an empty directory is removed.
MayRemove(m) == m.type = "dir" => IsDirEmpty(disk, m)

\* The inode is locked under its parent's lock; the entry goes, and with a
\* directory the link of its "..".
UnlinkIp(p) ==
  LET l == loc[p]
      m == Load(l.ip)
      Par(n) == [n EXCEPT !.nlink = IF m.type = "dir" THEN @ - 1 ELSE @]
  IN
  /\ Ilock(p, "unlink_ip")
  /\ \/ /\ m.nlink < 1
        /\ panic' = "unlink: nlink < 1"
        /\ UNCHANGED <<disk, ino, pc, loc>>
     \/ /\ m.nlink >= 1 /\ ~MayRemove(m)
        /\ ino' = Hold(ino, 0, l.ip, m)
        /\ Keep(p, PutThen([l EXCEPT !.ip = 0], l.ip, "unlock_dp"))
        /\ Goto(p, "put") /\ UNCHANGED <<disk, panic>>
     \/ /\ m.nlink >= 1 /\ MayRemove(m)
        /\ \E w \in {ClearEntry(disk, ino[l.dp].n, l.dp, l.name)} :
             /\ disk' = Iupdate(w.d, l.dp, Par(w.m))
             /\ ino' = Hold(Hold(ino, p, l.ip, m), 0, l.dp, Par(w.m))
        /\ Keep(p, PutThen([l EXCEPT !.dp = 0], l.dp, "unlink_drop"))
        /\ Goto(p, "put") /\ UNCHANGED panic
  /\ UNCHANGED <<durable, files, cwd, par, out, prog, wrong, lost, crashes>>

\* The link count goes down, and iput() may free the inode.
UnlinkDrop(p) ==
  LET l == loc[p]
      m == Unlinked(ino[l.ip].n)
  IN
  /\ At(p, "unlink_drop")
  /\ disk' = Iupdate(disk, l.ip, m)
  /\ ino' = Hold(ino, 0, l.ip, m)
  /\ Keep(p, [PutThen(l, l.ip, "end") EXCEPT !.ip = 0, !.res = Ok])
  /\ Goto(p, "put")
  /\ UNCHANGED <<files, cwd, out, world>>

-----------------------------------------------------------------------------
\* chdir().

\* p->cwd, which only p uses, changes before its old value is put.
ChdirIp(p) ==
  LET l == loc[p]
      m == Load(l.ip)
  IN
  /\ Ilock(p, "chdir_ip")
  /\ ino' = Hold(ino, 0, l.ip, m)
  /\ Goto(p, "put")
  /\ \/ /\ m.type = "dir"
        /\ cwd' = [cwd EXCEPT ![p] = l.ip]
        /\ Keep(p, [PutThen(l, cwd[p], "end") EXCEPT !.ip = 0, !.res = Ok])
     \/ /\ m.type # "dir"
        /\ Keep(p, PutThen([l EXCEPT !.ip = 0], l.ip, "end"))
        /\ UNCHANGED cwd
  /\ UNCHANGED <<disk, files, out, world>>

-----------------------------------------------------------------------------
\* Calls on descriptors.

\* A call that ends at once with result r.
Return(p, r) == Result(p, r) /\ UNCHANGED <<pc, loc>>

\* argfd().
File(p) == IF Call(p).fd \in Fds THEN ofile[p][Call(p).fd] ELSE 0

BadFd(p) ==
  /\ Calls(p, {"close", "dup", "read", "fstat", "write"}) /\ File(p) = 0
  /\ Return(p, Fail)
  /\ UNCHANGED <<disk, durable, ino, files, cwd, par, out, panic, lost, crashes>>

\* fileclose() of descriptor fd: the last reference puts the inode in a transaction.
FileClose(p, fd) ==
  LET f == ofile[p][fd]
      last == file[f].ref = 1
  IN
  /\ ofile' = [ofile EXCEPT ![p][fd] = 0]
  /\ file' = [file EXCEPT ![f] = IF last THEN NoFile ELSE [file[f] EXCEPT !.ref = @ - 1]]
  /\ IF last
     THEN /\ out' = out \cup {p}
          /\ Keep(p, [PutThen(NoLoc, file[f].ip, "end") EXCEPT !.res = Ok])
          /\ Goto(p, "put")
          /\ UNCHANGED <<prog, wrong>>
     ELSE Return(p, Ok) /\ UNCHANGED out
  /\ UNCHANGED <<disk, durable, ino, cwd, par, panic, lost, crashes>>

Close(p) == Calls(p, {"close"}) /\ File(p) # 0 /\ FileClose(p, Call(p).fd)

\* fdalloc(), then filedup().
Dup(p) ==
  /\ Calls(p, {"dup"}) /\ File(p) # 0
  /\ IF FreeFds(p) = {}
     THEN Return(p, Fail) /\ UNCHANGED files
     ELSE /\ ofile' = [ofile EXCEPT ![p][Min(FreeFds(p))] = File(p)]
          /\ file' = [file EXCEPT ![File(p)].ref = @ + 1]
          /\ Return(p, Ok)
  /\ UNCHANGED <<disk, durable, ino, cwd, par, out, panic, lost, crashes>>

Readable(f) == "w" \notin f.mode
Writable(f) == f.mode \cap {"w", "rw"} # {}

\* The checks of fileread(), filestat() and filewrite(), with the first begin_op().
FileCall(p) ==
  LET c == Call(p)
      f == file[File(p)]
      refused == (c.op = "read" /\ ~Readable(f)) \/ (c.op = "write" /\ ~Writable(f))
  IN
  /\ Calls(p, {"read", "fstat", "write"}) /\ File(p) # 0
  /\ \/ refused /\ Return(p, Fail) /\ UNCHANGED out
     \/ /\ ~refused
        /\ Keep(p, [NoLoc EXCEPT !.f = File(p), !.rest = c.data])
        /\ Goto(p, IF c.op = "write" THEN "write" ELSE "read")
        /\ out' = IF c.op = "write" THEN out \cup {p} ELSE out
        /\ UNCHANGED <<prog, wrong>>
  /\ UNCHANGED <<disk, durable, ino, files, cwd, par, panic, lost, crashes>>

\* fileread() and filestat() under the inode lock; no transaction.
Read(p) ==
  LET f == file[loc[p].f]
      m == Load(f.ip)
      r == Readi(disk, m, f.off, Call(p).n)
      stat == Call(p).op = "fstat"
  IN
  /\ Ilock(p, "read")
  /\ ino' = Hold(ino, 0, f.ip, m)
  /\ file' = [file EXCEPT ![loc[p].f].off = IF stat THEN @ ELSE @ + Len(r)]
  /\ Result(p, IF stat THEN <<m.type>> ELSE [k \in DOMAIN r |-> r[k][1]])
  /\ Keep(p, NoLoc) /\ Goto(p, "user")
  /\ UNCHANGED <<disk, durable, ofile, cwd, par, out, panic, lost, crashes>>

\* Mutant: the offset is not moved.
Moved_Not(off, n) == off
\* The shared offset after a write that returned n.
Moved(off, n) == IF n > 0 THEN off + n ELSE off

\* One turn of the loop of filewrite(): at most WMAX units in a transaction.
Write(p) ==
  LET l == loc[p]
      f == file[l.f]
      n1 == Min({Len(l.rest), WMAX})
  IN
  /\ Ilock(p, "write")
  /\ \E w \in {Writei(disk, Load(f.ip), f.ip, f.off, SubSeq(l.rest, 1, n1), Call(p).ok)} :
       /\ disk' = w.d
       /\ ino' = Hold(ino, 0, f.ip, w.m)
       /\ file' = [file EXCEPT ![l.f].off = Moved(@, w.n)]
       /\ Keep(p, [l EXCEPT !.rest = SubSeq(@, n1 + 1, Len(@)),
                            !.res = IF w.n = n1 THEN Ok ELSE Fail])
       /\ Goto(p, IF w.n = n1 /\ Len(l.rest) > n1 THEN "write_more" ELSE "end")
  /\ UNCHANGED <<ofile, cwd, out, world>>

\* end_op() between two transactions of a long write.
WriteMore(p) ==
  /\ At(p, "write_more")
  /\ EndOp(p) /\ Goto(p, "write_begin")
  /\ UNCHANGED <<disk, ino, files, cwd, par, loc, prog, wrong, panic, lost, crashes>>

\* begin_op() of the next one.
WriteBegin(p) ==
  /\ At(p, "write_begin")
  /\ out' = out \cup {p} /\ Goto(p, "write")
  /\ UNCHANGED <<disk, ino, files, cwd, loc, world>>

-----------------------------------------------------------------------------
\* The file part of kfork(), kexit() and kwait().

\* References that the descriptors of p add to file f.
Shares(p, f) == Cardinality({fd \in Fds : ofile[p][fd] = f})

Fork(p) ==
  LET free == {q \in Procs : pc[q] = "unused"}
      q == Min(free)
  IN
  /\ Calls(p, {"fork"}) /\ free # {}
  /\ file' = [f \in Files |-> [file[f] EXCEPT !.ref = @ + Shares(p, f)]]
  /\ ofile' = [ofile EXCEPT ![q] = ofile[p]]
  /\ ino' = Iget(ino, cwd[p])
  /\ cwd' = [cwd EXCEPT ![q] = cwd[p]]
  /\ par' = [par EXCEPT ![q] = p]
  /\ prog' = [prog EXCEPT ![p] = Tail(@), ![q] = Call(p).child]
  /\ Goto(q, "user")
  /\ UNCHANGED <<disk, durable, out, loc, wrong, panic, lost, crashes>>

\* kexit() closes the descriptors one by one, then puts the current directory.
Exit(p) ==
  LET open == {fd \in Fds : ofile[p][fd] # 0} IN
  /\ At(p, "user") /\ prog[p] = <<>>
  /\ \/ open # {} /\ FileClose(p, Min(open))
     \/ /\ open = {}
        /\ out' = out \cup {p}
        /\ Keep(p, PutThen(NoLoc, cwd[p], "end"))
        /\ Goto(p, "put")
        /\ cwd' = [cwd EXCEPT ![p] = 0]
        /\ UNCHANGED <<disk, ino, files, world>>

Wait(p) ==
  LET zombies == {q \in Procs : par[q] = p /\ pc[q] = "zombie"} IN
  /\ Calls(p, {"wait"}) /\ zombies # {}
  /\ pc' = [pc EXCEPT ![Min(zombies)] = "unused"]
  /\ par' = [par EXCEPT ![Min(zombies)] = 0]
  /\ Result(p, Ok)
  /\ UNCHANGED <<disk, durable, ino, files, cwd, out, loc, panic, lost, crashes>>

-----------------------------------------------------------------------------
\* Crash and recovery.

\* Memory is lost and the log is replayed: the disk is what was durable.
Crash ==
  /\ panic = "none" /\ crashes < MaxCrashes
  /\ crashes' = crashes + 1
  /\ disk' = durable
  /\ ino' = [i \in Inums |-> [ref |-> 0, valid |-> FALSE, lock |-> 0, n |-> Fresh("free")]]
  /\ file' = [f \in Files |-> NoFile]
  /\ ofile' = [p \in Procs |-> [fd \in Fds |-> 0]]
  /\ cwd' = [p \in Procs |-> 0]
  /\ par' = [p \in Procs |-> 0]
  /\ out' = {}
  /\ pc' = [p \in Procs |-> IF p = 1 THEN "boot" ELSE "unused"]
  /\ loc' = [p \in Procs |-> NoLoc]
  /\ prog' = [p \in Procs |-> <<>>]
  /\ UNCHANGED <<durable, wrong, lost, panic>>

\* Mutant: directories are not reclaimed.
Orphan_Files(d) == d.type = "file" /\ d.nlink = 0
\* A dinode that is allocated and has no name.
Orphan(d) == d.type # "free" /\ d.nlink = 0

\* ireclaim(): the next orphan is found and referenced, in a new transaction.
Reclaim(p) ==
  LET orphans == {i \in Inums : i > loc[p].scan /\ Orphan(disk.dino[i])} IN
  /\ At(p, "boot")
  /\ \/ /\ orphans # {}
        /\ ino' = Iget(ino, Min(orphans))
        /\ out' = out \cup {p}
        /\ Keep(p, [NoLoc EXCEPT !.ip = Min(orphans), !.scan = Min(orphans)])
        /\ Goto(p, "reclaim")
     \/ orphans = {} /\ Goto(p, "up") /\ UNCHANGED <<ino, out, loc>>
  /\ UNCHANGED <<disk, files, cwd, world>>

\* ilock() fills the entry, so that iput() sees the link count.
ReclaimLoad(p) ==
  LET l == loc[p] IN
  /\ Ilock(p, "reclaim")
  /\ ino' = Hold(ino, 0, l.ip, Load(l.ip))
  /\ Keep(p, PutThen([l EXCEPT !.ip = 0], l.ip, "reclaim_end"))
  /\ Goto(p, "put")
  /\ UNCHANGED <<disk, files, cwd, out, world>>

ReclaimEnd(p) ==
  /\ At(p, "reclaim_end")
  /\ EndOp(p) /\ Goto(p, "boot")
  /\ UNCHANGED <<disk, ino, files, cwd, par, loc, prog, wrong, panic, lost, crashes>>

-----------------------------------------------------------------------------
Step(p) ==
  \/ NoType(p) \/ IputStart(p) \/ IputTrunc(p) \/ IputLast(p) \/ EndCall(p)
  \/ NamexDone(p) \/ NamexStep(p) \/ PathCall(p)
  \/ CreateDir(p) \/ CreateOld(p) \/ CreateNew(p) \/ CreateDone(p) \/ UnlockDp(p)
  \/ OpenLock(p) \/ OpenAlloc(p) \/ OpenDone(p)
  \/ LinkIp(p) \/ LinkDir(p) \/ LinkBad(p)
  \/ UnlinkDir(p) \/ UnlinkIp(p) \/ UnlinkDrop(p) \/ ChdirIp(p)
  \/ BadFd(p) \/ Close(p) \/ Dup(p) \/ FileCall(p) \/ Read(p)
  \/ Write(p) \/ WriteMore(p) \/ WriteBegin(p)
  \/ Fork(p) \/ Exit(p) \/ Wait(p)
  \/ Reclaim(p) \/ ReclaimLoad(p) \/ ReclaimEnd(p)

\* Every process has left the kernel for good, or the kernel has stopped.
Finished ==
  \/ panic # "none"
  \/ \A p \in Procs : \/ pc[p] \in {"unused", "zombie", "up"}
                      \/ pc[p] = "user" /\ prog[p] # <<>> /\ Call(p).op = "pause"

Stop == Finished /\ UNCHANGED vars

Next == (\E p \in Procs : Step(p)) \/ Crash \/ Stop

Spec == Init /\ [][Next]_vars

-----------------------------------------------------------------------------
\* Properties.

Allocated(d) == {i \in Inums : d.dino[i].type # "free"}

\* The entries of directory i, "." and ".." excepted, as sets of offsets.
Entries(d, i) ==
  IF d.dino[i].type # "dir" THEN {}
  ELSE {off \in 2..d.dino[i].size - 1 : UnitAt(d, d.dino[i], off)[2] # 0}

\* The entries of all directories: <<directory, offset, name, inode>>.
Names(d) ==
  UNION {{<<i, o>> \o UnitAt(d, d.dino[i], o) : o \in Entries(d, i)} : i \in Inums}

\* References to inode i: current directories, open files and locals of calls.
\* A process that frees an inode counts as one until its last iput() step.
Pointers(i) ==
  Cardinality({x \in Procs \X {"cur", "ip", "dp"} : loc[x[1]][x[2]] = i})
    + Cardinality(UNION {{<<p, k>> : k \in {n \in DOMAIN loc[p].puts : loc[p].puts[n] = i}}
                          : p \in Procs})
    + Cardinality({p \in Procs : cwd[p] = i})
    + Cardinality({f \in Files : file[f].ref > 0 /\ file[f].ip = i})

\* ip->ref counts exactly the pointers to the table entry, on every error path of
\* every call: no reference leaks (the inode would never be freed) and none is
\* dropped twice.
RefsCounted == panic = "none" => \A i \in Inums : ino[i].ref = Pointers(i)

\* The bitmap has exactly the blocks that the allocated inodes own, and no block
\* has two owners, whatever failed half way: on the disk that reads see and on the
\* one a crash would leave.
BlocksOwned ==
  panic = "none" => \A d \in {disk, durable} :
    LET owns == UNION {{i} \X Owned(d, d.dino[i]) : i \in Allocated(d)} IN
    /\ d.used = {o[2] : o \in owns}
    /\ Cardinality(owns) = Cardinality(d.used)

\* What a crash would leave is a tree: the link count of an inode is the number of
\* its names, and for a directory of its subdirectories too (their ".."), an entry of a directory
\* names an allocated inode, and a name occurs once in a directory.  Transactions
\* keep this although link() counts the link in one step and makes it in another,
\* unlink() the reverse, and create() may fail in the middle.  Inodes entered into a
\* removed directory are excepted.
DurableTree ==
  LET names == Names(durable)
      subdirs == {x \in names : durable.dino[x[4]].type = "dir"}
  IN
  /\ \A i \in Allocated(durable) \ lost :
       durable.dino[i].nlink = Cardinality({x \in names : x[4] = i})
                                 + Cardinality({x \in subdirs : x[1] = i})
                                 + (IF i = ROOTINO THEN 1 ELSE 0)
  /\ \A x \in names : x[4] \in Allocated(durable) /\ x[3] \notin {".", ".."}
  /\ Cardinality({<<x[1], x[3]>> : x \in names}) = Cardinality(names)

\* The path element that led p's walk to where it is, "none" at its start.
LookedUp(p) ==
  LET path == IF loc[p].found = "link_dir" THEN Call(p).path2 ELSE Call(p).path
      k == Len(path) - Len(loc[p].path)
  IN  IF k = 0 THEN "none" ELSE path[k]

\* An inode that something refers to is not freed under it: open files, current
\* directories and entries of live directories have an allocated inode, whatever
\* races with the last iput().  No assertion of the kernel fails, except ilock()'s
\* for an inode that a path walk reached as "..": the ".." of a removed directory
\* outlives the directory it names.
InUseAllocated ==
  /\ \A f \in Files : file[f].ref > 0 /\ file[f].ip # 0 => file[f].ip \in Allocated(disk)
  /\ \A p \in Procs : cwd[p] # 0 => cwd[p] \in Allocated(disk)
  /\ \A x \in Names(disk) : x[4] \in Allocated(disk)
  /\ \/ panic = "none"
     \/ /\ panic = "ilock: no type"
        /\ \E p \in Procs : /\ pc[p] \in {"walk", "open_lock", "chdir_ip", "link_ip"}
                           /\ Wants(p) # 0 /\ Load(Wants(p)).type = "free"
                           /\ LookedUp(p) = ".."

\* After the recovery of ireclaim() no inode without a name is left on the disk:
\* what was open and unlinked at the crash is free again.
OrphansReclaimed ==
  \A p \in Procs : pc[p] = "up" => \A i \in Allocated(disk) : disk.dino[i].nlink # 0

\* The processes that p waits for: the holder of the inode lock it wants.
WaitsFor(p) == IF Wants(p) = 0 THEN 0 ELSE ino[Wants(p)].lock

\* iput() never finds the inode it frees locked, which is why it may take the lock
\* under itable.lock, as its comment says.
IputUnlocked ==
  \A p \in Procs, i \in Inums :
    At(p, "put") /\ Head(loc[p].puts) = i /\ Unused(i) => ino[i].lock = 0

\* Inode locks are taken in the order of the tree, so that no set of processes
\* waits for each other, and iput() does not wait for one at all.
NoLockCycle ==
  /\ \A S \in SUBSET Procs : S # {} => \E p \in S : WaitsFor(p) \notin S
  /\ IputUnlocked

\* Every call of the scripts returns what its script says it must: the expectations
\* are those of the tests of user/usertests.c that the scripts follow.
ResultsExpected == wrong = {}
=============================================================================
