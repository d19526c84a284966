--------------------------------- MODULE Files ---------------------------------
(***************************************************************************)
(* Path names and open files: fs/namei.c, the mounts of fs/super.c and the *)
(* calls of fs/open.c, fs/fcntl.c and fs/stat.c, down to the counts of the *)
(* inodes in memory.                                                       *)
(*                                                                         *)
(* A call goes from one place where it may sleep to the next.  A directory *)
(* is a function from names to inodes; its blocks, the times, and reads    *)
(* that fail are left out.  Whether the mode of an inode permits an access *)
(* is left open, and so is what a path is after a symbolic link: the       *)
(* kernel then goes on to read it in its own memory.                       *)
(***************************************************************************)
EXTENDS Integers, Sequences, FiniteSets, FiniteSetsExt, SequencesExt

CONSTANTS Tasks, Inodes, NR_OPEN, NR_FILE,
          Kind, Device,             \* of each inode at first; its kind is Free if it is not in use
          Content,                  \* the entries of each directory
          Target,                   \* the path in the symbolic links
          Paths,                    \* the paths that calls are made with
          Elsewhere,                \* what is found in the kernel where a path should be
          RootInode, MountedRoot,
          Overlap                   \* a task may run while another one sleeps in a call

VARIABLES
  inode_table,   \* i_count, i_nlinks and kind of each inode
  entries,       \* the contents of the directories
  s_imount,      \* the inode that the second device is mounted on
  root, pwd,
  filp,          \* the descriptors of a task: numbers of open files
  file_table,    \* f_count and f_inode
  call           \* the call a task is in, and how far it is

filesVars == <<inode_table, entries, s_imount, root, pwd, filp, file_table, call>>
tableVars == <<filp, file_table>>
dirVars == <<root, pwd, s_imount>>

Free == "free"
None == "none"
Fds == 1..NR_OPEN
FileNrs == 1..NR_FILE
NoInode == [count |-> 0, nlinks |-> 0, kind |-> Free]
NoFile == [count |-> 0, inode |-> None]
Idle == [op |-> None, at |-> "idle", path |-> <<>>, dir |-> None, inode |-> None, old |-> None,
         user |-> TRUE, nested |-> FALSE, more |-> FALSE, fd |-> 0]

ASSUME FilesAssumption ==
  /\ NR_OPEN \in Nat /\ NR_FILE \in Nat /\ Overlap \in BOOLEAN
  /\ IsFiniteSet(Tasks) /\ IsFiniteSet(Inodes) /\ None \notin Inodes

(* The directories of each device form a tree, as mkfs leaves them and the *)
(* calls keep them: a directory is named once, in its parent.              *)
Dots == {".", ".."}
ASSUME TreeAssumption ==
  /\ DOMAIN Content = Inodes
  /\ {RootInode, MountedRoot} \subseteq Inodes /\ Device[RootInode] # Device[MountedRoot]
  /\ \A i \in {RootInode, MountedRoot} : Kind[i] = "dir" /\ Content[i][".."] = i
  /\ \A i \in Inodes : Kind[i] # Free => \E d \in Inodes : \E n \in DOMAIN Content[d] : Content[d][n] = i
  /\ \A d \in Inodes :
       /\ IsFiniteSet(DOMAIN Content[d])
       /\ Kind[d] = "dir" =>
            LET up == Content[d][".."] IN
            /\ Dots \subseteq DOMAIN Content[d] /\ Content[d]["."] = d /\ Kind[up] = "dir"
            /\ up # d => \E n \in DOMAIN Content[up] \ Dots : Content[up][n] = d
       /\ \A n \in DOMAIN Content[d] :
            LET i == Content[d][n] IN
            /\ Kind[d] = "dir" /\ i \in Inodes /\ Kind[i] # Free /\ Device[i] = Device[d]
            /\ n \notin Dots /\ Kind[i] = "dir" =>
                 /\ i # d /\ Content[i][".."] = d
                 /\ \A m \in DOMAIN Content[d] \ (Dots \cup {n}) : Content[d][m] # i

Entries(i) == {dn \in Inodes \X UNION {DOMAIN entries[d] : d \in Inodes} :
                 dn[2] \in DOMAIN entries[dn[1]] /\ entries[dn[1]][dn[2]] = i}

(* mount_root, and the forks that follow it: the root is used twice by its *)
(* super block and twice by each task.                                     *)
FilesInit ==
  /\ entries = Content
  /\ inode_table = [i \in Inodes |-> [count |-> IF i = RootInode THEN 2 + 2 * Cardinality(Tasks) ELSE 0,
                                      nlinks |-> Cardinality(Entries(i)), kind |-> Kind[i]]]
  /\ s_imount = None
  /\ root = [t \in Tasks |-> RootInode] /\ pwd = root
  /\ filp = [t \in Tasks |-> [fd \in Fds |-> 0]]
  /\ file_table = [f \in FileNrs |-> NoFile]
  /\ call = [t \in Tasks |-> Idle]

-----------------------------------------------------------------------------
(* The inodes in memory; T is the table.                                   *)
Get(T, i) == [T EXCEPT ![i].count = @ + 1]
iput(T, i) == IF T[i].count > 1 THEN [T EXCEPT ![i].count = @ - 1]
              ELSE IF T[i].nlinks = 0 THEN [T EXCEPT ![i] = NoInode]
              ELSE [T EXCEPT ![i].count = @ - 1]
iput2(T, i, j) == iput(iput(T, i), j)

(* iget crosses to the root of what is mounted on the inode.               *)
Crossed(i) == IF s_imount = i THEN MountedRoot ELSE i

IsRoot(i) == i \in {RootInode, MountedRoot}
Permits(i, answer) == inode_table[i].nlinks > 0 /\ answer
IsDir(i) == inode_table[i].kind = "dir"

(* find_entry: .. is the directory itself at the root of the task, and at  *)
(* the root of a device it is that of the inode that is mounted on.  There *)
(* the entry is looked for in a block that is no directory's.              *)
Upwards(d) == IF d = MountedRoot THEN s_imount ELSE d
MovedTo(t, d, name) == IF name = ".." /\ d # root[t] /\ IsRoot(d) THEN Upwards(d) ELSE d
Moved_kept(T, d, e) == IF e = d THEN T ELSE Get(T, e)    \* mutant: the old directory is not put
Moved(T, d, e) == IF e = d THEN T ELSE Get(iput(T, d), e)
Found(t, d, name) ==
  LET e == MovedTo(t, d, name)
      n == IF name = ".." /\ d = root[t] THEN "." ELSE name
  IN  IF IsDir(e) /\ n \in DOMAIN entries[e] THEN entries[e][n] ELSE None

-----------------------------------------------------------------------------
(* A call begins with its path; what it is for counts when the lookup is   *)
(* done.  An open has a descriptor and a file by then.                     *)
MayRun(t) == call[t] = Idle /\ (Overlap \/ \A u \in Tasks : call[u] = Idle)
Base(T, t, c, p) ==
  \E b \in {root[t], pwd[t]} :
    /\ inode_table' = Get(T, b)
    /\ call' = [call EXCEPT ![t] = [c EXCEPT !.at = "walk", !.path = p, !.dir = b]]

Lookup(t) ==
  /\ MayRun(t)
  /\ \E op \in {"namei", "lnamei", "dir_namei"}, p \in Paths : Base(inode_table, t, [Idle EXCEPT !.op = op], p)
  /\ UNCHANGED <<entries, dirVars, tableVars>>

FreeFds(t) == {fd \in Fds : filp[t][fd] = 0}
FreeFiles == {f \in FileNrs : file_table[f].count = 0}
Open(t) ==
  /\ MayRun(t) /\ FreeFds(t) # {} /\ FreeFiles # {}
  /\ filp' = [filp EXCEPT ![t][Min(FreeFds(t))] = Min(FreeFiles)]
  /\ file_table' = [file_table EXCEPT ![Min(FreeFiles)].count = 1]
  /\ \E p \in Paths : Base(inode_table, t, [Idle EXCEPT !.op = "open", !.fd = Min(FreeFds(t))], p)
  /\ UNCHANGED <<entries, dirVars>>

(* A call ends, an open that failed without its descriptor and file.       *)
Failed(t) ==
  /\ call' = [call EXCEPT ![t] = Idle]
  /\ IF call[t].fd = 0 THEN UNCHANGED tableVars
     ELSE /\ file_table' = [file_table EXCEPT ![filp[t][call[t].fd]] = NoFile]
          /\ filp' = [filp EXCEPT ![t][call[t].fd] = 0]
Fails(t, T) == Failed(t) /\ inode_table' = T /\ UNCHANGED <<entries, dirVars>>
Opened(t, T, i) ==
  /\ inode_table' = T
  /\ file_table' = [file_table EXCEPT ![filp[t][call[t].fd]].inode = i]
  /\ call' = [call EXCEPT ![t] = Idle]
  /\ UNCHANGED <<entries, dirVars, filp>>
Goes(t, T, c) == /\ inode_table' = T /\ call' = [call EXCEPT ![t] = c]
                 /\ UNCHANGED <<entries, dirVars, tableVars>>

(* A lookup fails; sys_link then has the old inode to put.                 *)
NotFound(t, T) == Fails(t, IF call[t].old = None THEN T ELSE iput(T, call[t].old))

(* The loop of get_dir.                                                    *)
At(t, where) == call[t].at = where
NotThrough(t) ==
  /\ At(t, "walk")
  /\ \E answer \in BOOLEAN : ~(IsDir(call[t].dir) /\ Permits(call[t].dir, answer))
  /\ NotFound(t, iput(inode_table, call[t].dir))

Enters(t, c, name) ==
  LET d == MovedTo(t, c.dir, name)  i == Found(t, c.dir, name)
      T == Moved(inode_table, c.dir, d)
  IN  IF i = None THEN NotFound(t, iput(T, d))
      ELSE Goes(t, T, [c EXCEPT !.at = "iget", !.dir = d, !.inode = i])

Walk(t) ==
  /\ At(t, "walk") /\ Len(call[t].path) > 1
  /\ IsDir(call[t].dir) /\ Permits(call[t].dir, TRUE)
  /\ Enters(t, call[t], Head(call[t].path))

(* dir_namei goes over the whole path again for the last name.             *)
LastName(t) ==
  /\ At(t, "walk") /\ Len(call[t].path) = 1
  /\ IsDir(call[t].dir) /\ Permits(call[t].dir, TRUE)
  /\ \E p \in IF call[t].user \/ call[t].nested THEN {call[t].path} ELSE {<<Last(q)>> : q \in Elsewhere} :
       Goes(t, inode_table, [call[t] EXCEPT !.at = "base", !.path = p])

(* _namei has an inode: a path that led through it goes on behind it.      *)
Has(t, T, c, i) ==
  IF c.nested /\ c.more
  THEN \E p \in Elsewhere : Goes(t, T, [c EXCEPT !.at = "walk", !.dir = i, !.path = p, !.inode = None, !.nested = FALSE])
  ELSE Goes(t, T, [c EXCEPT !.at = "got", !.inode = i, !.dir = None, !.nested = FALSE])

Names(t) == call[t].nested \/ call[t].op \in {"namei", "lnamei", "mount"}
Name(t) ==
  /\ At(t, "base") /\ Names(t)
  /\ LET c == call[t] IN
       IF c.path[1] = "" THEN Has(t, inode_table, c, c.dir) ELSE Enters(t, c, c.path[1])

(* iget, and follow_link where the code calls it.  A second link in a call *)
(* is not followed: the fs register points to the kernel by then.          *)
Follows(c) == Len(c.path) > 1 \/ (~c.nested /\ c.op # "lnamei")
Onwards(t, T, c, i) ==
  IF Len(c.path) > 1 THEN Goes(t, T, [c EXCEPT !.at = "walk", !.dir = i, !.inode = None, !.path = Tail(@)])
                     ELSE Has(t, T, c, i)
Iget(t) ==
  /\ At(t, "iget")
  /\ LET c == call[t]  i == Crossed(c.inode)  T == Get(inode_table, i)
     IN  IF ~Follows(c) \/ inode_table[i].kind # "link" THEN Onwards(t, iput(T, c.dir), c, i)
         ELSE IF ~c.user THEN NotFound(t, iput2(T, c.dir, i))
         ELSE Goes(t, iput(T, i), [c EXCEPT !.at = "walk", !.path = Target, !.inode = None,
                                    !.user = FALSE, !.nested = TRUE, !.more = Len(c.path) > 1])

-----------------------------------------------------------------------------
(* The calls that have the inode of their path.  One that finds the inode  *)
(* is not of its kind puts it and fails; to the tables it is like stat.    *)
Got(t, ops) == At(t, "got") /\ call[t].op \in ops
Stat(t) == Got(t, {"namei", "lnamei"}) /\ Fails(t, iput(inode_table, call[t].inode))

ChDir(t) ==
  /\ Got(t, {"namei"})
  /\ LET i == call[t].inode IN
     /\ IsDir(i)
     /\ \/ /\ inode_table' = iput(inode_table, pwd[t])
           /\ pwd' = [pwd EXCEPT ![t] = i] /\ UNCHANGED root
        \/ /\ inode_table' = iput(inode_table, root[t])
           /\ root' = [root EXCEPT ![t] = i] /\ UNCHANGED pwd
  /\ Failed(t) /\ UNCHANGED <<entries, s_imount>>

(* sys_umount: nothing of the device may be in use.                       *)
InUse(T) == \E i \in Inodes : Device[i] = Device[MountedRoot] /\ T[i].count > 0
Umount(t) ==
  /\ Got(t, {"namei"}) /\ s_imount # None
  /\ inode_table[call[t].inode].kind = "blk"
  /\ LET T == iput(inode_table, call[t].inode) IN
       /\ ~InUse(T)
       /\ inode_table' = iput(T, s_imount) /\ s_imount' = None
  /\ Failed(t) /\ UNCHANGED <<entries, root, pwd>>

(* sys_mount looks up the device, and then the inode to mount it on, which *)
(* has to be that of a block device (and not, as is the intention, a       *)
(* directory).                                                             *)
MountDevice(t) ==
  /\ Got(t, {"namei"})
  /\ inode_table[call[t].inode].kind = "blk"
  /\ \E p \in IF call[t].user THEN Paths ELSE Elsewhere :
       Base(iput(inode_table, call[t].inode), t, [Idle EXCEPT !.op = "mount", !.user = call[t].user], p)
  /\ UNCHANGED <<entries, dirVars, tableVars>>

Mount(t) ==
  /\ Got(t, {"mount"})
  /\ LET i == call[t].inode IN
     IF inode_table[i].count # 1 \/ IsRoot(i) \/ inode_table[i].kind # "blk" \/ s_imount # None
     THEN Fails(t, iput(inode_table, i))
     ELSE /\ s_imount' = i
          /\ Failed(t) /\ UNCHANGED <<inode_table, entries, root, pwd>>

LinkOld(t) ==
  /\ Got(t, {"namei"}) /\ ~IsDir(call[t].inode)
  /\ \E p \in IF call[t].user THEN Paths ELSE Elsewhere :
       Base(inode_table, t, [Idle EXCEPT !.op = "link", !.old = call[t].inode, !.user = call[t].user], p)
  /\ UNCHANGED <<entries, dirVars, tableVars>>

-----------------------------------------------------------------------------
(* The calls that have a directory and a name in it.  add_entry refuses    *)
(* every name that is not empty: nothing is ever created, and an inode     *)
(* that was taken for it is given back, its count of links at 0.           *)
InBase(t, op) == At(t, "base") /\ ~call[t].nested /\ call[t].op = op
Unused(d) == {i \in Inodes : inode_table[i].kind = Free /\ Device[i] = Device[d]}
GivenBack_linked(T, i, kind) == iput([T EXCEPT ![i] = [count |-> 1, nlinks |-> 1, kind |-> kind]], i)   \* mutant: i_nlinks is not counted down
GivenBack(T, i, kind) == iput([T EXCEPT ![i] = [count |-> 1, nlinks |-> 0, kind |-> kind]], i)
Create(t) ==      \* sys_mknod, sys_mkdir, sys_symlink and open_namei
  /\ InBase(t, "dir_namei") \/ InBase(t, "open")
  /\ LET c == call[t]  d == MovedTo(t, c.dir, c.path[1])  T == Moved(inode_table, c.dir, d) IN
       /\ c.op = "open" => c.path[1] # "" /\ Found(t, c.dir, c.path[1]) = None
       /\ \/ Fails(t, iput(T, d))
          \/ \E i \in Unused(d), kind \in {"file", "dir", "link"} :
               c.path[1] # "" /\ Fails(t, iput(GivenBack(T, i, kind), d))

Link(t) ==
  /\ InBase(t, "link")
  /\ LET c == call[t]  d == MovedTo(t, c.dir, c.path[1]) IN
       Fails(t, iput2(Moved(inode_table, c.dir, d), d, c.old))

(* A directory is opened for reading only.                                 *)
OpenDir(t) ==
  /\ InBase(t, "open") /\ call[t].path[1] = ""
  /\ \/ Opened(t, inode_table, call[t].dir)
     \/ Fails(t, iput(inode_table, call[t].dir))

OpenOld(t) ==
  /\ InBase(t, "open") /\ call[t].path[1] # ""
  /\ LET c == call[t]  d == MovedTo(t, c.dir, c.path[1]) IN
       \/ Enters(t, c, c.path[1])
       \/ Fails(t, iput(Moved(inode_table, c.dir, d), d))       \* O_EXCL

(* sys_open: what permission, the mode, or check_char_dev refuses.         *)
OpenGot(t) ==
  /\ Got(t, {"open"})
  /\ \/ Fails(t, iput(inode_table, call[t].inode))
     \/ Permits(call[t].inode, TRUE) /\ Opened(t, inode_table, call[t].inode)

Victim(t) ==
  /\ InBase(t, "dir_namei")
  /\ LET c == call[t]  d == MovedTo(t, c.dir, c.path[1])  i == Found(t, c.dir, c.path[1])
         T == Moved(inode_table, c.dir, d)
     IN  c.path[1] # "" /\ i # None /\ Permits(c.dir, TRUE)
         /\ Goes(t, T, [c EXCEPT !.at = "victim", !.dir = d, !.inode = i])

Without(f, name) == [n \in DOMAIN f \ {name} |-> f[n]]
Gone(t, T, cleared) == /\ inode_table' = T /\ entries' = cleared
                       /\ Failed(t) /\ UNCHANGED dirVars
Unlink(t) ==
  /\ At(t, "victim")
  /\ LET c == call[t]  i == Crossed(c.inode)
         T == Get(inode_table, i)
         n == IF T[i].nlinks = 0 THEN 0 ELSE T[i].nlinks - 1
     IN  \/ Fails(t, iput2(T, c.dir, i))
         \/ T[i].kind # "dir" /\ Gone(t, iput2([T EXCEPT ![i].nlinks = n], i, c.dir),
                                      [entries EXCEPT ![c.dir] = Without(@, c.path[1])])

Empty == <<>>    \* what the inode of a removed directory still has
Unparented(T, d) == [T EXCEPT ![d].nlinks = @ - 1]
Rmdir(t) ==
  /\ At(t, "victim")
  /\ LET c == call[t]  i == Crossed(c.inode)
         T == Get(inode_table, i)
     IN  /\ Device[i] = Device[c.dir] /\ T[i].count = 1 /\ i # c.dir
         /\ T[i].kind = "dir" /\ DOMAIN entries[i] = {".", ".."}
         /\ Gone(t, iput2(Unparented([T EXCEPT ![i].nlinks = 0], c.dir), c.dir, i),
                 [entries EXCEPT ![c.dir] = Without(@, c.path[1]), ![i] = Empty])

-----------------------------------------------------------------------------
(* Descriptors.                                                            *)
Closed(F, T, f) ==     \* sys_close of a file: the open files and the inodes after it
  IF F[f].count > 1 THEN <<[F EXCEPT ![f].count = @ - 1], T>>
                    ELSE <<[F EXCEPT ![f] = NoFile], iput(T, F[f].inode)>>
Close(t) ==
  /\ MayRun(t)
  /\ \E fd \in Fds : /\ filp[t][fd] # 0
                     /\ filp' = [filp EXCEPT ![t][fd] = 0]
                     /\ file_table' = Closed(file_table, inode_table, filp[t][fd])[1]
                     /\ inode_table' = Closed(file_table, inode_table, filp[t][fd])[2]
  /\ UNCHANGED <<entries, dirVars, call>>

(* dupfd takes the first free descriptor from arg on; sys_dup2 closes that *)
(* one first, even if it is the one that is duplicated.                    *)
Dup(t) ==
  /\ MayRun(t)
  /\ \E fd, arg \in Fds :
       LET free == {n \in FreeFds(t) : n >= arg} IN
       /\ filp[t][fd] # 0 /\ free # {}
       /\ filp' = [filp EXCEPT ![t][Min(free)] = filp[t][fd]]
       /\ file_table' = [file_table EXCEPT ![filp[t][fd]].count = @ + 1]
  /\ UNCHANGED <<inode_table, entries, dirVars, call>>

Dup2(t) ==
  /\ MayRun(t)
  /\ \E fd, new \in Fds :
       /\ filp[t][fd] # 0 /\ filp[t][new] # 0
       /\ LET after == Closed(file_table, inode_table, filp[t][new]) IN
            /\ inode_table' = after[2]
            /\ IF fd = new THEN filp' = [filp EXCEPT ![t][new] = 0] /\ file_table' = after[1]
               ELSE /\ filp' = [filp EXCEPT ![t][new] = filp[t][fd]]
                    /\ file_table' = [after[1] EXCEPT ![filp[t][fd]].count = @ + 1]
  /\ UNCHANGED <<entries, dirVars, call>>

FilesNext ==
  \E t \in Tasks :
    \/ Lookup(t) \/ Open(t) \/ NotThrough(t) \/ Walk(t) \/ LastName(t) \/ Name(t) \/ Iget(t)
    \/ Stat(t) \/ ChDir(t) \/ Umount(t) \/ MountDevice(t) \/ Mount(t) \/ LinkOld(t)
    \/ Create(t) \/ Link(t) \/ OpenDir(t) \/ OpenOld(t) \/ OpenGot(t)
    \/ Victim(t) \/ Unlink(t) \/ Rmdir(t)
    \/ Close(t) \/ Dup(t) \/ Dup2(t)

FilesSpec == FilesInit /\ [][FilesNext]_filesVars

-----------------------------------------------------------------------------
(* An inode in memory is counted once for everything that holds it: the    *)
(* directories of the tasks, open files, mounts, and the calls under way,  *)
(* whatever way those end.                                                 *)
Holders(i) ==
  (IF i = RootInode THEN 2 ELSE 0)
  + Cardinality({t \in Tasks : root[t] = i}) + Cardinality({t \in Tasks : pwd[t] = i})
  + Cardinality({f \in FileNrs : file_table[f].inode = i})
  + (IF s_imount = i THEN 1 ELSE 0)
  + Cardinality({t \in Tasks : call[t].dir = i})
  + Cardinality({t \in Tasks : At(t, "got") /\ call[t].inode = i})
  + Cardinality({t \in Tasks : call[t].old = i})
InodesCounted == \A i \in Inodes : inode_table[i].count = Holders(i)

(* Every inode in use has as many links as entries, and one that has none  *)
(* is in use only while somebody holds it.                                 *)
LinksCounted ==
  \A i \in Inodes :
    /\ inode_table[i].nlinks = Cardinality(Entries(i))
    /\ inode_table[i].kind # Free => inode_table[i].nlinks > 0 \/ inode_table[i].count > 0

=============================================================================
