------------------------------ MODULE Files_proofs ------------------------------
(***************************************************************************)
(* The counts of inodes and of links, for any tree of directories, any     *)
(* tasks and any paths, while one call on names is under way at a time.    *)
(***************************************************************************)
EXTENDS Files, WellFoundedInduction, FiniteSetTheorems, TLAPS

(* Tables of inodes.  Nothing on the second device is in use while it is   *)
(* not mounted.                                                            *)
KindSet == {Free, "file", "dir", "link"} \cup {Kind[i] : i \in Inodes}
Tables == [Inodes -> [count : Int, nlinks : Int, kind : KindSet]]
Mounted(i) == s_imount # None \/ Device[i] # Device[MountedRoot]
Sound(T) ==
  /\ T \in Tables
  /\ \A i \in Inodes :
       /\ T[i].count >= 0 /\ T[i].nlinks >= 0 /\ T[i].kind \in {Kind[i], Free}
       /\ T[i].count > 0 => Mounted(i)
       /\ T[i].kind = Free => T[i].count = 0 /\ T[i].nlinks = 0
       /\ T[i].kind # Free => T[i].count > 0 \/ T[i].nlinks > 0

(* U has the counts and links of T, but for n users of j.                  *)
Alters(T, U, j, n) ==
  /\ Sound(U)
  /\ \A i \in Inodes : /\ U[i].count = T[i].count + (IF i = j THEN n ELSE 0)
                       /\ U[i].nlinks = T[i].nlinks

LEMMA GetAlters ==
  ASSUME NEW T, Sound(T), NEW j \in Inodes, T[j].kind # Free, Mounted(j)
  PROVE  Alters(T, Get(T, j), j, 1)
<1> DEFINE U == Get(T, j)
<1>1. U \in Tables
  BY DEF Sound, Tables, Get
<1>2. \A i \in Inodes : /\ U[i].count = T[i].count + (IF i = j THEN 1 ELSE 0)
                        /\ U[i].nlinks = T[i].nlinks /\ U[i].kind = T[i].kind
  BY DEF Sound, Tables, Get
<1> HIDE DEF U
<1>3. Sound(U)
  BY <1>1, <1>2 DEF Sound, Tables
<1>4. QED BY <1>2, <1>3 DEF Alters, U

LEMMA PutAlters ==
  ASSUME NEW T, Sound(T), NEW j \in Inodes, T[j].count > 0
  PROVE  Alters(T, iput(T, j), j, -1)
<1> DEFINE U == iput(T, j)
<1>1. U \in Tables
  BY DEF Sound, Tables, iput, NoInode, KindSet
<1>2. \A i \in Inodes : /\ U[i].count = T[i].count + (IF i = j THEN -1 ELSE 0)
                        /\ U[i].nlinks = T[i].nlinks
                        /\ U[i].kind = IF i = j /\ T[j].count = 1 /\ T[j].nlinks = 0 THEN Free ELSE T[i].kind
  BY DEF Sound, Tables, iput, NoInode
<1> HIDE DEF U
<1>3. Sound(U)
  BY <1>1, <1>2 DEF Sound, Tables
<1>4. QED BY <1>2, <1>3 DEF Alters, U

(* An inode that is in use is nobody's free one, and can be used again.    *)
LEMMA InUseInode ==
  ASSUME NEW T, Sound(T), NEW j \in Inodes, T[j].count > 0
  PROVE  T[j].kind # Free /\ Mounted(j) /\ T[j].kind = Kind[j]
BY DEF Sound

LEMMA GivenBackAlters ==
  ASSUME NEW T, Sound(T), NEW j \in Inodes, T[j].kind = Free, NEW kind \in {"file", "dir", "link"}
  PROVE  Alters(T, GivenBack(T, j, kind), j, 0)
<1> DEFINE N == [count |-> 1, nlinks |-> 0, kind |-> kind]
           V == [T EXCEPT ![j] = N]
           U == GivenBack(T, j, kind)
<1>1. U = [V EXCEPT ![j] = NoInode] /\ DOMAIN V = Inodes
  BY DEF GivenBack, iput, Sound, Tables
<1>2. U = [T EXCEPT ![j] = NoInode]
  BY <1>1 DEF Sound, Tables
<1>3. U \in Tables
  BY <1>2 DEF Sound, Tables, NoInode, KindSet
<1>4. \A i \in Inodes : /\ U[i].count = T[i].count
                        /\ U[i].nlinks = T[i].nlinks /\ U[i].kind = T[i].kind
  BY <1>2 DEF Sound, Tables, NoInode
<1> HIDE DEF U
<1>5. Sound(U)
  BY <1>3, <1>4 DEF Sound, Tables
<1>6. QED BY <1>4, <1>5 DEF Alters, U, Sound, Tables

-----------------------------------------------------------------------------
(* The invariant.                                                          *)

(* What a call that is under way has: a directory, then an inode; between  *)
(* a look-up and the iget that follows, the number that is in an entry.    *)
CallOk(c) ==
  /\ DOMAIN c = DOMAIN Idle
  /\ c.at = "idle" => c = Idle
  /\ c.at # "idle" =>
       \/ c.at \in {"walk", "base", "iget", "victim"} /\ c.dir \in Inodes
       \/ c.at = "got" /\ c.dir = None /\ c.inode \in Inodes
  /\ c.at = "iget" => \E n \in DOMAIN entries[c.dir] : entries[c.dir][n] = c.inode
  /\ c.at = "victim" => c.op = "dir_namei" /\ Kind[c.dir] = "dir"
  /\ c.at = "victim" => \/ c.path[1] = ".." /\ c.inode = c.dir
                        \/ c.path[1] \in DOMAIN entries[c.dir] /\ entries[c.dir][c.path[1]] = c.inode
  /\ c.old \in Inodes \cup {None} /\ (c.op = "link" <=> c.old # None)
  /\ c.fd \in Fds \cup {0} /\ (c.op = "open" <=> c.fd # 0)
CallsOk == /\ DOMAIN call = Tasks
           /\ \A t \in Tasks : CallOk(call[t])
           /\ \A t, u \in Tasks : call[t] # Idle /\ call[u] # Idle => t = u

(* A file is used by as many descriptors as it counts; it has an inode,    *)
(* but while it is being opened, when it has one descriptor.               *)
Uses(f) == {tf \in Tasks \X Fds : filp[tf[1]][tf[2]] = f}
Opening(f) == \E t \in Tasks : call[t].fd # 0 /\ filp[t][call[t].fd] = f
FilesOk ==
  /\ filp \in [Tasks -> [Fds -> FileNrs \cup {0}]]
  /\ file_table \in [FileNrs -> [count : Nat, inode : Inodes \cup {None}]]
  /\ \A t \in Tasks : call[t].fd # 0 => filp[t][call[t].fd] # 0
  /\ \A f \in FileNrs :
       /\ file_table[f].count = Cardinality(Uses(f))
       /\ Opening(f) => file_table[f].count = 1
       /\ file_table[f].inode = None <=> (file_table[f].count = 0 \/ Opening(f))

(* Entries are only taken away, a directory's all at once and with the one *)
(* that names it, when nothing is named in it any more.                    *)
DirsOk ==
  /\ DOMAIN entries = Inodes
  /\ \A d \in Inodes : \A n \in DOMAIN entries[d] : n \in DOMAIN Content[d] /\ entries[d][n] = Content[d][n]
  /\ \A d \in Inodes : Kind[d] = "dir" =>
       /\ Dots \subseteq DOMAIN entries[d] \/ (DOMAIN entries[d] = {} /\ Entries(d) = {})
       /\ Content[d][".."] = d => Dots \subseteq DOMAIN entries[d]
       /\ \A p \in Inodes : \A n \in DOMAIN Content[p] \ Dots :
            Content[p][n] = d => (n \in DOMAIN entries[p] <=> DOMAIN entries[d] # {})
PlacesOk ==
  /\ root \in [Tasks -> Inodes] /\ pwd \in [Tasks -> Inodes]
  /\ s_imount \in Inodes \cup {None}
  /\ s_imount # None => Kind[s_imount] = "blk" /\ Device[s_imount] # Device[MountedRoot]
LinksExact == \A i \in Inodes : inode_table[i].nlinks = Cardinality(Entries(i))
FInv == Sound(inode_table) /\ CallsOk /\ FilesOk /\ DirsOk /\ PlacesOk /\ InodesCounted /\ LinksExact

-----------------------------------------------------------------------------
(* Holders, when at most one task and one file change.                     *)
LEMMA Recount ==
  ASSUME NEW S, IsFiniteSet(S), NEW A \in SUBSET S, NEW B \in SUBSET S, NEW t, A \ {t} = B \ {t}
  PROVE  /\ Cardinality(A) \in Nat /\ Cardinality(B) \in Nat
         /\ Cardinality(A) >= IF t \in A THEN 1 ELSE 0
         /\ Cardinality(B) = Cardinality(A) - (IF t \in A THEN 1 ELSE 0) + (IF t \in B THEN 1 ELSE 0)
<1> DEFINE C == A \ {t}
<1>1. IsFiniteSet(A) /\ IsFiniteSet(B) /\ IsFiniteSet(C)
  BY FS_Subset
<1>2. /\ Cardinality(C) = IF t \in A THEN Cardinality(A) - 1 ELSE Cardinality(A)
      /\ Cardinality(C) = IF t \in B THEN Cardinality(B) - 1 ELSE Cardinality(B)
  BY <1>1, FS_RemoveElement
<1>3. Cardinality(A) \in Nat /\ Cardinality(B) \in Nat /\ Cardinality(C) \in Nat
  BY <1>1, FS_CardinalityType
<1> QED BY <1>2, <1>3

PlaceHolds(t, i) == (IF root[t] = i THEN 1 ELSE 0) + (IF pwd[t] = i THEN 1 ELSE 0)
CallHolds(c, i) ==
  (IF c.dir = i THEN 1 ELSE 0) + (IF c.at = "got" /\ c.inode = i THEN 1 ELSE 0) + (IF c.old = i THEN 1 ELSE 0)
FileHolds(f, i) == IF f \in FileNrs /\ file_table[f].inode = i THEN 1 ELSE 0
MountHolds(i) == IF s_imount = i THEN 1 ELSE 0
Holds(t, f, i) == PlaceHolds(t, i) + CallHolds(call[t], i) + FileHolds(f, i) + MountHolds(i)

LEMMA HoldersBound ==
  ASSUME NEW t \in Tasks, NEW f, NEW i
  PROVE  Holders(i) \in Nat /\ Holders(i) >= Holds(t, f, i)
<1> DEFINE R == {u \in Tasks : root[u] = i}  P == {u \in Tasks : pwd[u] = i}
           F == {g \in FileNrs : file_table[g].inode = i}
           D == {u \in Tasks : call[u].dir = i}
           G == {u \in Tasks : call[u].at = "got" /\ call[u].inode = i}
           O == {u \in Tasks : call[u].old = i}
           r == Cardinality(R)  p == Cardinality(P)  ff == Cardinality(F)
           d == Cardinality(D)  g == Cardinality(G)  o == Cardinality(O)
<1>1. IsFiniteSet(Tasks) /\ IsFiniteSet(FileNrs)
  <2>1. NR_FILE \in Int /\ IsFiniteSet(Tasks)
    BY FilesAssumption
  <2> QED BY <2>1, FS_Interval DEF FileNrs
<1>2. /\ R \in SUBSET Tasks /\ P \in SUBSET Tasks /\ D \in SUBSET Tasks
      /\ G \in SUBSET Tasks /\ O \in SUBSET Tasks /\ F \in SUBSET FileNrs
  OBVIOUS
<1>3. /\ t \in R <=> root[t] = i
      /\ t \in P <=> pwd[t] = i
      /\ t \in D <=> call[t].dir = i
      /\ t \in G <=> call[t].at = "got" /\ call[t].inode = i
      /\ t \in O <=> call[t].old = i
      /\ f \in F <=> f \in FileNrs /\ file_table[f].inode = i
  OBVIOUS
<1>4. Holders(i) = (IF i = RootInode THEN 2 ELSE 0) + r + p + ff + MountHolds(i) + d + g + o
  BY DEF Holders, MountHolds, At
<1> HIDE DEF R, P, F, D, G, O
<1>5. /\ r \in Nat /\ r >= (IF root[t] = i THEN 1 ELSE 0)
      /\ p \in Nat /\ p >= (IF pwd[t] = i THEN 1 ELSE 0)
      /\ d \in Nat /\ d >= (IF call[t].dir = i THEN 1 ELSE 0)
      /\ g \in Nat /\ g >= (IF call[t].at = "got" /\ call[t].inode = i THEN 1 ELSE 0)
      /\ o \in Nat /\ o >= (IF call[t].old = i THEN 1 ELSE 0)
      /\ ff \in Nat /\ ff >= FileHolds(f, i)
  BY <1>1, <1>2, <1>3, Recount DEF FileHolds
<1> HIDE DEF r, p, ff, d, g, o
<1>6. FileHolds(f, i) \in Nat /\ MountHolds(i) \in Nat
  BY DEF FileHolds, MountHolds
<1> QED BY <1>4, <1>5, <1>6 DEF Holds, PlaceHolds, CallHolds

LEMMA HoldersStep ==
  ASSUME NEW t \in Tasks, NEW f, NEW i,
         \A u \in Tasks \ {t} : root'[u] = root[u] /\ pwd'[u] = pwd[u] /\ call'[u] = call[u],
         \A g \in FileNrs \ {f} : file_table'[g].inode = file_table[g].inode
  PROVE  /\ Holders(i) \in Nat /\ Holders(i) >= Holds(t, f, i)
         /\ Holders(i)' = Holders(i) - Holds(t, f, i) + Holds(t, f, i)'
<1> DEFINE R == {u \in Tasks : root[u] = i}  P == {u \in Tasks : pwd[u] = i}
           F == {g \in FileNrs : file_table[g].inode = i}
           D == {u \in Tasks : call[u].dir = i}
           G == {u \in Tasks : call[u].at = "got" /\ call[u].inode = i}
           O == {u \in Tasks : call[u].old = i}
           r == Cardinality(R)  p == Cardinality(P)  ff == Cardinality(F)
           d == Cardinality(D)  g == Cardinality(G)  o == Cardinality(O)
           A(x, X) == x \in X
<1>1. IsFiniteSet(Tasks) /\ IsFiniteSet(FileNrs)
  <2>1. NR_FILE \in Int /\ IsFiniteSet(Tasks)
    BY FilesAssumption
  <2> QED BY <2>1, FS_Interval DEF FileNrs
<1>2. /\ R \in SUBSET Tasks /\ P \in SUBSET Tasks /\ D \in SUBSET Tasks
      /\ G \in SUBSET Tasks /\ O \in SUBSET Tasks /\ F \in SUBSET FileNrs
      /\ R' \in SUBSET Tasks /\ P' \in SUBSET Tasks /\ D' \in SUBSET Tasks
      /\ G' \in SUBSET Tasks /\ O' \in SUBSET Tasks /\ F' \in SUBSET FileNrs
  OBVIOUS
<1>3. /\ R \ {t} = R' \ {t} /\ P \ {t} = P' \ {t} /\ D \ {t} = D' \ {t}
      /\ G \ {t} = G' \ {t} /\ O \ {t} = O' \ {t} /\ F \ {f} = F' \ {f}
  OBVIOUS
<1>4. /\ t \in R <=> root[t] = i
      /\ t \in P <=> pwd[t] = i
      /\ t \in D <=> call[t].dir = i
      /\ t \in G <=> call[t].at = "got" /\ call[t].inode = i
      /\ t \in O <=> call[t].old = i
      /\ f \in F <=> f \in FileNrs /\ file_table[f].inode = i
      /\ t \in R' <=> root'[t] = i
      /\ t \in P' <=> pwd'[t] = i
      /\ t \in D' <=> call'[t].dir = i
      /\ t \in G' <=> call'[t].at = "got" /\ call'[t].inode = i
      /\ t \in O' <=> call'[t].old = i
      /\ f \in F' <=> f \in FileNrs /\ file_table'[f].inode = i
  OBVIOUS
<1>5. /\ Holders(i) = (IF i = RootInode THEN 2 ELSE 0) + r + p + ff + MountHolds(i) + d + g + o
      /\ Holders(i)' = (IF i = RootInode THEN 2 ELSE 0) + r' + p' + ff' + MountHolds(i)' + d' + g' + o'
  BY DEF Holders, MountHolds, At
<1> HIDE DEF R, P, F, D, G, O
<1>6. /\ r \in Nat /\ r' \in Nat /\ r >= (IF root[t] = i THEN 1 ELSE 0)
      /\ r' = r - (IF root[t] = i THEN 1 ELSE 0) + (IF root'[t] = i THEN 1 ELSE 0)
  BY <1>1, <1>2, <1>3, <1>4, Recount
<1>7. /\ p \in Nat /\ p' \in Nat /\ p >= (IF pwd[t] = i THEN 1 ELSE 0)
      /\ p' = p - (IF pwd[t] = i THEN 1 ELSE 0) + (IF pwd'[t] = i THEN 1 ELSE 0)
  BY <1>1, <1>2, <1>3, <1>4, Recount
<1>8. /\ d \in Nat /\ d' \in Nat /\ d >= (IF call[t].dir = i THEN 1 ELSE 0)
      /\ d' = d - (IF call[t].dir = i THEN 1 ELSE 0) + (IF call'[t].dir = i THEN 1 ELSE 0)
  BY <1>1, <1>2, <1>3, <1>4, Recount
<1>9. /\ g \in Nat /\ g' \in Nat /\ g >= (IF call[t].at = "got" /\ call[t].inode = i THEN 1 ELSE 0)
      /\ g' = g - (IF call[t].at = "got" /\ call[t].inode = i THEN 1 ELSE 0)
                + (IF call'[t].at = "got" /\ call'[t].inode = i THEN 1 ELSE 0)
  BY <1>1, <1>2, <1>3, <1>4, Recount
<1>10. /\ o \in Nat /\ o' \in Nat /\ o >= (IF call[t].old = i THEN 1 ELSE 0)
       /\ o' = o - (IF call[t].old = i THEN 1 ELSE 0) + (IF call'[t].old = i THEN 1 ELSE 0)
  BY <1>1, <1>2, <1>3, <1>4, Recount
<1>11. /\ ff \in Nat /\ ff' \in Nat /\ ff >= FileHolds(f, i)
       /\ ff' = ff - FileHolds(f, i) + FileHolds(f, i)'
  BY <1>1, <1>2, <1>3, <1>4, Recount DEF FileHolds
<1> HIDE DEF r, p, ff, d, g, o
<1>12. FileHolds(f, i) \in Nat /\ FileHolds(f, i)' \in Nat /\ MountHolds(i) \in Nat /\ MountHolds(i)' \in Nat
  BY DEF FileHolds, MountHolds
<1> QED BY <1>5, <1>6, <1>7, <1>8, <1>9, <1>10, <1>11, <1>12 DEF Holds, PlaceHolds, CallHolds

-----------------------------------------------------------------------------
(* One call at a time.                                                     *)
Alone(t) == \A u \in Tasks \ {t} : call[u] = Idle

LEMMA IdleIs ==
  /\ DOMAIN Idle = {"op", "at", "path", "dir", "inode", "old", "user", "nested", "more", "fd"}
  /\ Idle.op = None /\ Idle.at = "idle" /\ Idle.dir = None /\ Idle.inode = None
  /\ Idle.old = None /\ Idle.fd = 0
  /\ None # "link" /\ None # "open"
BY DEF Idle, None

LEMMA IdleOk ==
  CallOk(Idle) /\ CallOk(Idle)'
BY IdleIs DEF CallOk

LEMMA NobodyElse ==
  ASSUME CallsOk, NEW t \in Tasks, call[t] # Idle \/ (MayRun(t) /\ ~Overlap)
  PROVE  Alone(t)
BY DEF CallsOk, Alone, MayRun

LEMMA CallsAfter ==
  ASSUME CallsOk, NEW t \in Tasks, Alone(t), NEW c, call' = [call EXCEPT ![t] = c], CallOk(c)'
  PROVE  CallsOk' /\ call'[t] = c /\ \A u \in Tasks \ {t} : call'[u] = call[u]
<1>1. DOMAIN call' = Tasks /\ call'[t] = c /\ \A u \in Tasks \ {t} : call'[u] = Idle /\ call[u] = Idle
  BY DEF CallsOk, Alone
<1>2. \A u \in Tasks : CallOk(call[u])'
  <2> TAKE u \in Tasks
  <2>1. CASE u = t
    BY <1>1, <2>1 DEF CallOk
  <2>2. CASE u # t
    <3>1. call'[u] = Idle
      BY <1>1, <2>2
    <3> QED BY <3>1, IdleOk DEF CallOk
  <2> QED BY <2>1, <2>2
<1> QED BY <1>1, <1>2 DEF CallsOk

(* What a directory has in it when nothing is taken away.                  *)
LEMMA DirsSame ==
  ASSUME DirsOk, entries' = entries
  PROVE  DirsOk' /\ \A i \in Inodes : Entries(i)' = Entries(i)
BY DEF DirsOk, Entries

LEMMA FilesSame ==
  ASSUME FilesOk, NEW t \in Tasks, UNCHANGED tableVars, call'[t].fd = call[t].fd,
         \A u \in Tasks \ {t} : call'[u] = call[u]
  PROVE  FilesOk'
<1>1. \A u \in Tasks : call'[u].fd = call[u].fd
  OBVIOUS
<1>2. \A f \in FileNrs : Uses(f)' = Uses(f) /\ (Opening(f)' <=> Opening(f))
  BY <1>1 DEF Uses, Opening, tableVars
<1> QED BY <1>1, <1>2 DEF FilesOk, tableVars

(* A step that changes places, files and calls in one task: the counts.    *)
LEMMA CountsAfter ==
  ASSUME InodesCounted, NEW t \in Tasks, NEW f,
         \A u \in Tasks \ {t} : root'[u] = root[u] /\ pwd'[u] = pwd[u] /\ call'[u] = call[u],
         \A g \in FileNrs \ {f} : file_table'[g].inode = file_table[g].inode,
         \A i \in Inodes : inode_table'[i].count = inode_table[i].count - Holds(t, f, i) + Holds(t, f, i)'
  PROVE  InodesCounted'
BY HoldersStep DEF InodesCounted

(* A call goes on: from what it had to what c has.                         *)
Settles(T, c, d) ==
  /\ Sound(T)
  /\ \A i \in Inodes : /\ T[i].nlinks = inode_table[i].nlinks
                       /\ T[i].count = inode_table[i].count - CallHolds(c, i) + CallHolds(d, i)

LEMMA GoesOn ==
  ASSUME FInv, NEW t \in Tasks, Alone(t), NEW T, NEW c, Goes(t, T, c),
         CallOk(c), c.fd = call[t].fd, Settles(T, call[t], c)
  PROVE  FInv'
<1>1. /\ inode_table' = T /\ call' = [call EXCEPT ![t] = c] /\ entries' = entries
      /\ root' = root /\ pwd' = pwd /\ s_imount' = s_imount /\ UNCHANGED tableVars
      /\ filp' = filp /\ file_table' = file_table
  BY DEF Goes, dirVars, tableVars
<1>2. CallOk(c)'
  BY <1>1 DEF CallOk
<1>3. CallsOk' /\ call'[t] = c /\ \A u \in Tasks \ {t} : call'[u] = call[u]
  BY <1>1, <1>2, CallsAfter DEF FInv
<1>4. FilesOk'
  BY <1>1, <1>3, FilesSame DEF FInv
<1>5. DirsOk' /\ \A i \in Inodes : Entries(i)' = Entries(i)
  BY <1>1, DirsSame DEF FInv
<1>6. LinksExact'
  BY <1>1, <1>5 DEF LinksExact, FInv, Settles
<1>7. Sound(inode_table)' /\ PlacesOk'
  BY <1>1 DEF FInv, Settles, Sound, Mounted, Tables, PlacesOk
<1>8. \A i \in Inodes : inode_table'[i].count = inode_table[i].count - Holds(t, 0, i) + Holds(t, 0, i)'
  <2> TAKE i \in Inodes
  <2>1. PlaceHolds(t, i)' = PlaceHolds(t, i) /\ FileHolds(0, i)' = FileHolds(0, i) /\ MountHolds(i)' = MountHolds(i)
    BY <1>1 DEF PlaceHolds, FileHolds, MountHolds
  <2>2. CallHolds(call[t], i)' = CallHolds(c, i)
    BY <1>3 DEF CallHolds
  <2>3. /\ PlaceHolds(t, i) \in Int /\ FileHolds(0, i) \in Int /\ MountHolds(i) \in Int
        /\ CallHolds(call[t], i) \in Int /\ CallHolds(c, i) \in Int /\ inode_table[i].count \in Int
    BY DEF PlaceHolds, FileHolds, MountHolds, CallHolds, FInv, Sound, Tables
  <2> QED BY <1>1, <2>1, <2>2, <2>3 DEF Settles, Holds
<1>9. InodesCounted'
  BY <1>1, <1>3, <1>8, CountsAfter DEF FInv
<1> QED BY <1>3, <1>4, <1>5, <1>6, <1>7, <1>9 DEF FInv

(* A descriptor that gets another file.                                    *)
LEMMA UsesAfter ==
  ASSUME NEW t \in Tasks, NEW fd \in Fds, NEW v, NEW f,
         filp'[t][fd] = v, \A u \in Tasks, n \in Fds : u # t \/ n # fd => filp'[u][n] = filp[u][n]
  PROVE  /\ Cardinality(Uses(f)) \in Nat /\ Cardinality(Uses(f))' \in Nat
         /\ Cardinality(Uses(f)) >= IF filp[t][fd] = f THEN 1 ELSE 0
         /\ Cardinality(Uses(f))' = Cardinality(Uses(f)) - (IF filp[t][fd] = f THEN 1 ELSE 0) + (IF v = f THEN 1 ELSE 0)
<1> DEFINE A == Uses(f)  B == Uses(f)'  S == Tasks \X Fds  p == <<t, fd>>
<1>1. IsFiniteSet(S)
  <2>1. NR_OPEN \in Int /\ IsFiniteSet(Tasks)
    BY FilesAssumption
  <2>2. IsFiniteSet(Fds)
    BY <2>1, FS_Interval DEF Fds
  <2> QED BY <2>1, <2>2, FS_Product
<1>2. \A u \in Tasks, n \in Fds : <<u, n>> # p => filp'[u][n] = filp[u][n]
  OBVIOUS
<1>3. A \in SUBSET S /\ B \in SUBSET S
  BY DEF Uses
<1>4. A \ {p} = B \ {p}
  BY <1>2 DEF Uses
<1>5. (p \in A <=> filp[t][fd] = f) /\ (p \in B <=> v = f)
  BY <1>2 DEF Uses
<1>6. Cardinality(Uses(f))' = Cardinality(B)
  OBVIOUS
<1> HIDE DEF A, B, S, p
<1>7. /\ Cardinality(A) \in Nat /\ Cardinality(B) \in Nat
      /\ Cardinality(A) >= IF p \in A THEN 1 ELSE 0
      /\ Cardinality(B) = Cardinality(A) - (IF p \in A THEN 1 ELSE 0) + (IF p \in B THEN 1 ELSE 0)
  BY <1>1, <1>3, <1>4, Recount
<1> QED BY <1>5, <1>6, <1>7 DEF A

(* Only a task in an open has a file without an inode.                     *)
LEMMA OpeningIs ==
  ASSUME CallsOk, NEW t \in Tasks, Alone(t), NEW f
  PROVE  Opening(f) <=> call[t].fd # 0 /\ filp[t][call[t].fd] = f
BY IdleIs DEF Opening, Alone

LEMMA FailedFiles ==
  ASSUME FInv, NEW t \in Tasks, Alone(t), Failed(t)
  PROVE  /\ CallsOk' /\ FilesOk' /\ call'[t] = Idle /\ \A u \in Tasks \ {t} : call'[u] = call[u]
         /\ \A g \in FileNrs : file_table'[g].inode = file_table[g].inode
<1>1. /\ call' = [call EXCEPT ![t] = Idle] /\ CallsOk /\ FilesOk
  BY DEF Failed, FInv
<1>2. CallsOk' /\ call'[t] = Idle /\ \A u \in Tasks \ {t} : call'[u] = call[u]
  BY <1>1, IdleOk, CallsAfter
<1>3. CASE call[t].fd = 0
  <2>1. UNCHANGED tableVars /\ file_table' = file_table /\ call'[t].fd = call[t].fd
    BY <1>2, <1>3, IdleIs DEF Failed, tableVars
  <2> QED BY <1>1, <1>2, <2>1, FilesSame
<1>4. CASE call[t].fd # 0
  <2> DEFINE fd == call[t].fd  f == filp[t][fd]
  <2>1. /\ file_table' = [file_table EXCEPT ![f] = NoFile]
        /\ filp' = [filp EXCEPT ![t][fd] = 0]
    BY <1>4 DEF Failed
  <2>2. fd \in Fds /\ f \in FileNrs /\ Opening(f)
    BY <1>1, <1>4, OpeningIs DEF CallsOk, CallOk, FilesOk
  <2>3. file_table[f].count = 1 /\ file_table[f].inode = None
    BY <1>1, <2>2 DEF FilesOk
  <2>4. \A u \in Tasks : call'[u].fd = 0
    BY <1>2, IdleIs DEF Alone
  <2>5. \A g \in FileNrs : ~Opening(g)' /\ (g # f => ~Opening(g))
    BY <1>1, <2>4, OpeningIs DEF Opening
  <2>6. \A g \in FileNrs : Cardinality(Uses(g))' = Cardinality(Uses(g)) - (IF f = g THEN 1 ELSE 0)
    <3> TAKE g \in FileNrs
    <3>1. 0 \in FileNrs \cup {0} /\ 0 # g
      BY DEF FileNrs
    <3> HIDE DEF fd
    <3>2. /\ Cardinality(Uses(g)) \in Nat
          /\ Cardinality(Uses(g))' = Cardinality(Uses(g)) - (IF filp[t][fd] = g THEN 1 ELSE 0) + (IF 0 = g THEN 1 ELSE 0)
      <4>1. fd \in Fds /\ filp'[t][fd] = 0 /\ \A u \in Tasks, n \in Fds : u # t \/ n # fd => filp'[u][n] = filp[u][n]
        BY <1>1, <2>1, <2>2 DEF FilesOk
      <4> HIDE DEF f
      <4> QED BY <4>1, UsesAfter
    <3> QED BY <3>1, <3>2
  <2>7. /\ file_table'[f] = NoFile /\ \A g \in FileNrs : g # f => file_table'[g] = file_table[g]
        /\ file_table' \in [FileNrs -> [count : Nat, inode : Inodes \cup {None}]]
        /\ filp' \in [Tasks -> [Fds -> FileNrs \cup {0}]]
    BY <1>1, <2>1, <2>2 DEF FilesOk, NoFile
  <2>8. FilesOk'
    <3>1. \A g \in FileNrs : file_table'[g].count = Cardinality(Uses(g))'
      BY <1>1, <2>3, <2>6, <2>7 DEF FilesOk, NoFile
    <3>2. \A g \in FileNrs : file_table'[g].inode = None <=> file_table'[g].count = 0 \/ Opening(g)'
      <4> TAKE g \in FileNrs
      <4>1. CASE g = f
        BY <2>7, <4>1 DEF NoFile
      <4>2. CASE g # f
        BY <1>1, <2>5, <2>7, <4>2 DEF FilesOk
      <4> QED BY <4>1, <4>2
    <3> QED BY <2>4, <2>5, <2>7, <3>1, <3>2 DEF FilesOk
  <2> QED BY <1>2, <2>3, <2>7, <2>8 DEF NoFile
<1> QED BY <1>3, <1>4

(* A call ends without an open file.                                       *)
LEMMA EndsWith ==
  ASSUME FInv, NEW t \in Tasks, Alone(t), Failed(t), PlacesOk', DirsOk', LinksExact', Sound(inode_table)',
         \A u \in Tasks \ {t} : root'[u] = root[u] /\ pwd'[u] = pwd[u],
         \A i \in Inodes : inode_table'[i].count = inode_table[i].count - CallHolds(call[t], i)
                             - PlaceHolds(t, i) + PlaceHolds(t, i)' - MountHolds(i) + MountHolds(i)'
  PROVE  FInv'
<1>1. /\ CallsOk' /\ FilesOk' /\ call'[t] = Idle /\ \A u \in Tasks \ {t} : call'[u] = call[u]
      /\ \A g \in FileNrs : file_table'[g].inode = file_table[g].inode
  BY FailedFiles
<1>2. \A i \in Inodes : inode_table'[i].count = inode_table[i].count - Holds(t, 0, i) + Holds(t, 0, i)'
  <2> TAKE i \in Inodes
  <2>1. FileHolds(0, i) = 0 /\ FileHolds(0, i)' = 0
    BY DEF FileHolds, FileNrs
  <2>2. i # None
    BY FilesAssumption
  <2>3. CallHolds(call[t], i)' = 0
    BY <1>1, <2>2, IdleIs DEF CallHolds
  <2>4. /\ PlaceHolds(t, i) \in Int /\ MountHolds(i) \in Int /\ PlaceHolds(t, i)' \in Int /\ MountHolds(i)' \in Int
        /\ CallHolds(call[t], i) \in Int /\ inode_table[i].count \in Int
    BY DEF PlaceHolds, MountHolds, CallHolds, FInv, Sound, Tables
  <2> QED BY <2>1, <2>3, <2>4 DEF Holds
<1>3. InodesCounted'
  BY <1>1, <1>2, CountsAfter DEF FInv
<1> QED BY <1>1, <1>3 DEF FInv

LEMMA FailsWell ==
  ASSUME FInv, NEW t \in Tasks, Alone(t), NEW T, Fails(t, T), Settles(T, call[t], Idle)
  PROVE  FInv'
<1>1. /\ Failed(t) /\ inode_table' = T /\ entries' = entries
      /\ root' = root /\ pwd' = pwd /\ s_imount' = s_imount
  BY DEF Fails, dirVars
<1>2. DirsOk' /\ LinksExact'
  BY <1>1, DirsSame DEF FInv, LinksExact, Settles
<1>3. PlacesOk' /\ Sound(inode_table)'
  BY <1>1 DEF FInv, Settles, Sound, Mounted, Tables, PlacesOk
<1>4. \A i \in Inodes : inode_table'[i].count = inode_table[i].count - CallHolds(call[t], i)
                             - PlaceHolds(t, i) + PlaceHolds(t, i)' - MountHolds(i) + MountHolds(i)'
  <2> TAKE i \in Inodes
  <2>1. i # None
    BY FilesAssumption
  <2>2. CallHolds(Idle, i) = 0
    BY <2>1, IdleIs DEF CallHolds
  <2>3. PlaceHolds(t, i)' = PlaceHolds(t, i) /\ MountHolds(i)' = MountHolds(i)
    BY <1>1 DEF PlaceHolds, MountHolds
  <2>4. /\ PlaceHolds(t, i) \in Int /\ MountHolds(i) \in Int
        /\ CallHolds(call[t], i) \in Int /\ inode_table[i].count \in Int
    BY DEF PlaceHolds, MountHolds, CallHolds, FInv, Sound, Tables
  <2> QED BY <1>1, <2>2, <2>3, <2>4 DEF Settles
<1> QED BY <1>1, <1>2, <1>3, <1>4, EndsWith

(* An open succeeds.                                                       *)
LEMMA OpensWell ==
  ASSUME FInv, NEW t \in Tasks, Alone(t), NEW T, NEW i \in Inodes, Opened(t, T, i), call[t].op = "open", Sound(T),
         \A j \in Inodes : /\ T[j].nlinks = inode_table[j].nlinks
                           /\ T[j].count = inode_table[j].count - CallHolds(call[t], j) + (IF i = j THEN 1 ELSE 0)
  PROVE  FInv'
<1>0. call[t].fd # 0 /\ filp[t][call[t].fd] \in FileNrs
  BY DEF FInv, CallsOk, CallOk, FilesOk
<1> PICK f \in FileNrs : f = filp[t][call[t].fd]
  BY <1>0
<1>1. /\ inode_table' = T /\ file_table' = [file_table EXCEPT ![f].inode = i]
      /\ call' = [call EXCEPT ![t] = Idle] /\ entries' = entries /\ filp' = filp
      /\ root' = root /\ pwd' = pwd /\ s_imount' = s_imount
  BY DEF Opened, dirVars
<1>2. CallsOk' /\ call'[t] = Idle /\ \A u \in Tasks \ {t} : call'[u] = call[u]
  BY <1>1, IdleOk, CallsAfter DEF FInv
<1>3. call[t].fd # 0 /\ f \in FileNrs /\ Opening(f)
  BY <1>0, OpeningIs DEF FInv
<1>4. file_table[f].count = 1 /\ file_table[f].inode = None
  BY <1>3 DEF FInv, FilesOk
<1>5. /\ file_table' \in [FileNrs -> [count : Nat, inode : Inodes \cup {None}]]
      /\ file_table'[f].inode = i /\ file_table'[f].count = 1
      /\ \A g \in FileNrs \ {f} : file_table'[g] = file_table[g]
  BY <1>1, <1>3, <1>4 DEF FInv, FilesOk
<1>6. \A u \in Tasks : call'[u].fd = 0
  BY <1>2, IdleIs DEF Alone
<1>7. \A g \in FileNrs : ~Opening(g)' /\ (g # f => ~Opening(g)) /\ Uses(g)' = Uses(g)
  BY <1>1, <1>6, OpeningIs DEF Opening, FInv, Uses
<1>8. FilesOk'
  <2>1. \A g \in FileNrs : /\ file_table'[g].count = Cardinality(Uses(g))'
                           /\ file_table'[g].inode = None <=> file_table'[g].count = 0
    <3> TAKE g \in FileNrs
    <3>1. i # None
      BY FilesAssumption
    <3>2. CASE g = f
      BY <1>4, <1>5, <1>7, <3>1, <3>2 DEF FInv, FilesOk
    <3>3. CASE g # f
      BY <1>5, <1>7, <3>3 DEF FInv, FilesOk
    <3> QED BY <3>2, <3>3
  <2> QED BY <1>1, <1>5, <1>6, <1>7, <2>1 DEF FInv, FilesOk
<1>9. DirsOk' /\ LinksExact'
  BY <1>1, DirsSame DEF FInv, LinksExact
<1>10. PlacesOk' /\ Sound(inode_table)'
  BY <1>1 DEF FInv, Sound, Mounted, Tables, PlacesOk
<1>11. \A j \in Inodes : inode_table'[j].count = inode_table[j].count - Holds(t, f, j) + Holds(t, f, j)'
  <2> TAKE j \in Inodes
  <2>1. j # None
    BY FilesAssumption
  <2>2. FileHolds(f, j) = 0 /\ FileHolds(f, j)' = IF i = j THEN 1 ELSE 0
    BY <1>3, <1>4, <1>5, <2>1 DEF FileHolds
  <2>3. CallHolds(call[t], j)' = 0 /\ PlaceHolds(t, j)' = PlaceHolds(t, j) /\ MountHolds(j)' = MountHolds(j)
    BY <1>1, <1>2, <2>1, IdleIs DEF CallHolds, PlaceHolds, MountHolds
  <2>4. /\ PlaceHolds(t, j) \in Int /\ MountHolds(j) \in Int
        /\ CallHolds(call[t], j) \in Int /\ inode_table[j].count \in Int
    BY DEF PlaceHolds, MountHolds, CallHolds, FInv, Sound, Tables
  <2> QED BY <1>1, <2>2, <2>3, <2>4 DEF Holds
<1>12. InodesCounted'
  <2>1. \A u \in Tasks \ {t} : root'[u] = root[u] /\ pwd'[u] = pwd[u] /\ call'[u] = call[u]
    BY <1>1, <1>2
  <2>2. \A g \in FileNrs \ {f} : file_table'[g].inode = file_table[g].inode
    BY <1>5
  <2>3. InodesCounted
    BY DEF FInv
  <2> QED BY <1>11, <2>1, <2>2, <2>3, CountsAfter
<1> QED BY <1>2, <1>8, <1>9, <1>10, <1>12 DEF FInv

-----------------------------------------------------------------------------
(* What is in directories, and what a look-up finds.                       *)
LEMMA CountHeld ==
  ASSUME FInv, NEW t \in Tasks, NEW i \in Inodes
  PROVE  inode_table[i].count >= CallHolds(call[t], i) + PlaceHolds(t, i) + MountHolds(i)
<1>1. Holders(i) \in Nat /\ Holders(i) >= Holds(t, 0, i) /\ inode_table[i].count = Holders(i)
  BY HoldersBound DEF FInv, InodesCounted
<1>2. /\ FileHolds(0, i) = 0
      /\ CallHolds(call[t], i) \in Int /\ PlaceHolds(t, i) \in Int /\ MountHolds(i) \in Int
  BY DEF FileHolds, FileNrs, CallHolds, PlaceHolds, MountHolds
<1> QED BY <1>1, <1>2 DEF Holds

LEMMA NamesFinite ==
  ASSUME DirsOk
  PROVE  IsFiniteSet(Inodes \X UNION {DOMAIN entries[d] : d \in Inodes})
<1> DEFINE f == [d \in Inodes |-> DOMAIN entries[d]]  S == {DOMAIN entries[d] : d \in Inodes}
<1>1. IsFiniteSet(Inodes)
  BY FilesAssumption
<1>2. f \in Surjection(Inodes, S)
  BY DEF Surjection
<1>3. IsFiniteSet(S)
  <2> HIDE DEF f, S
  <2> QED BY <1>1, <1>2, FS_Surjection
<1>4. \A A \in S : IsFiniteSet(A)
  <2> TAKE A \in S
  <2> PICK d \in Inodes : A = DOMAIN entries[d]
    OBVIOUS
  <2>1. IsFiniteSet(DOMAIN Content[d])
    BY TreeAssumption
  <2>2. A \in SUBSET DOMAIN Content[d]
    BY DEF DirsOk
  <2> QED BY <2>1, <2>2, FS_Subset
<1>5. IsFiniteSet(UNION S)
  <2> HIDE DEF S
  <2> QED BY <1>3, <1>4, FS_UNION
<1> QED
  <2> HIDE DEF S
  <2>1. IsFiniteSet(Inodes \X UNION S)
    BY <1>1, <1>5, FS_Product
  <2> QED BY <2>1 DEF S

LEMMA EntriesFinite ==
  ASSUME DirsOk, NEW i
  PROVE  IsFiniteSet(Entries(i)) /\ Cardinality(Entries(i)) \in Nat
<1> DEFINE S == Inodes \X UNION {DOMAIN entries[d] : d \in Inodes}
<1>1. Entries(i) \in SUBSET S
  BY DEF Entries
<1>2. IsFiniteSet(S)
  BY NamesFinite
<1> HIDE DEF S
<1>3. IsFiniteSet(Entries(i))
  BY <1>1, <1>2, FS_Subset
<1> QED BY <1>3, FS_CardinalityType

LEMMA EntriesAre ==
  ASSUME NEW i, NEW d \in Inodes, NEW n
  PROVE  <<d, n>> \in Entries(i) <=> n \in DOMAIN entries[d] /\ entries[d][n] = i
BY DEF Entries

(* What is in a directory is an inode in use, on the same device.          *)
LEMMA EntryInode ==
  ASSUME FInv, NEW d \in Inodes, NEW n \in DOMAIN entries[d]
  PROVE  LET i == entries[d][n] IN
         /\ i \in Inodes /\ inode_table[i].kind = Kind[i] /\ Kind[i] # Free /\ Device[i] = Device[d]
         /\ Kind[d] = "dir" /\ inode_table[i].nlinks > 0 /\ i = Content[d][n] /\ n \in DOMAIN Content[d]
<1> DEFINE i == entries[d][n]
<1>1. n \in DOMAIN Content[d] /\ i = Content[d][n]
  BY DEF FInv, DirsOk
<1>2. i \in Inodes /\ Kind[i] # Free /\ Device[i] = Device[d] /\ Kind[d] = "dir"
  BY <1>1, TreeAssumption
<1>3. <<d, n>> \in Entries(i)
  BY EntriesAre
<1> HIDE DEF i
<1>4. IsFiniteSet(Entries(i)) /\ Cardinality(Entries(i)) \in Nat /\ Cardinality(Entries(i)) # 0
  <2>1. IsFiniteSet(Entries(i)) /\ Cardinality(Entries(i)) \in Nat
    BY EntriesFinite DEF FInv
  <2>2. Entries(i) # {}
    BY <1>3
  <2> QED BY <2>1, <2>2, FS_EmptySet
<1>5. inode_table[i].nlinks > 0
  BY <1>2, <1>4 DEF FInv, LinksExact
<1>6. inode_table[i].kind = Kind[i]
  BY <1>2, <1>5 DEF FInv, Sound
<1> QED BY <1>1, <1>2, <1>5, <1>6 DEF i

LEMMA RootsStay ==
  ASSUME FInv, NEW i \in {RootInode, MountedRoot}
  PROVE  i \in Inodes /\ inode_table[i].kind = "dir" /\ Dots \subseteq DOMAIN entries[i]
<1>1. i \in Inodes /\ Kind[i] = "dir" /\ Content[i][".."] = i
  BY TreeAssumption
<1>2. "." \in Dots /\ ".." \in Dots
  BY DEF Dots
<1>3. Dots \subseteq DOMAIN entries[i]
  BY <1>1 DEF FInv, DirsOk
<1>4. entries[i][".."] = i
  BY <1>1, <1>2, <1>3 DEF FInv, DirsOk
<1> QED BY <1>1, <1>2, <1>3, <1>4, EntryInode

LEMMA CrossedInode ==
  ASSUME FInv, NEW i \in Inodes, inode_table[i].kind # Free, Mounted(i)
  PROVE  /\ Crossed(i) \in Inodes /\ inode_table[Crossed(i)].kind # Free /\ Mounted(Crossed(i))
         /\ Crossed(i) # i => i = s_imount /\ Crossed(i) = MountedRoot
<1>1. CASE s_imount = i
  <2>1. s_imount # None
    BY <1>1, FilesAssumption
  <2> QED BY <1>1, <2>1, RootsStay DEF Crossed, Mounted, Free
<1>2. CASE s_imount # i
  BY <1>2 DEF Crossed
<1> QED BY <1>1, <1>2

(* find_entry, .. included: the directory it has in the end, and what it   *)
(* finds.  A mount point has no entries, so what is found is in the        *)
(* directory it began with.                                                *)
LEMMA MovedInode ==
  ASSUME FInv, NEW t \in Tasks, NEW d \in Inodes, inode_table[d].count > 0, NEW name
  PROVE  LET e == MovedTo(t, d, name) IN
         /\ e \in Inodes /\ inode_table[e].count > 0
         /\ e # d => e = s_imount
<1>1. CASE MovedTo(t, d, name) = d
  BY <1>1
<1>2. CASE MovedTo(t, d, name) # d
  <2>1. d = MountedRoot /\ MovedTo(t, d, name) = s_imount
    BY <1>2 DEF MovedTo, Upwards
  <2>2. Mounted(d)
    BY DEF FInv, Sound
  <2>3. s_imount \in Inodes
    BY <2>1, <2>2, FilesAssumption DEF Mounted, FInv, PlacesOk
  <2>4. MountHolds(s_imount) = 1 /\ PlaceHolds(t, s_imount) >= 0 /\ CallHolds(call[t], s_imount) >= 0
        /\ PlaceHolds(t, s_imount) \in Int /\ CallHolds(call[t], s_imount) \in Int
    BY DEF MountHolds, PlaceHolds, CallHolds
  <2>5. inode_table[s_imount].count >= CallHolds(call[t], s_imount) + PlaceHolds(t, s_imount) + MountHolds(s_imount)
    BY <2>3, CountHeld
  <2>6. inode_table[s_imount].count \in Int
    BY <2>3 DEF FInv, Sound, Tables
  <2> QED BY <2>1, <2>3, <2>4, <2>5, <2>6
<1> QED BY <1>1, <1>2

LEMMA MovedTable ==
  ASSUME NEW T, Sound(T), NEW d \in Inodes, NEW e \in Inodes, T[d].count > 0, T[e].count > 0
  PROVE  /\ Sound(Moved(T, d, e))
         /\ \A i \in Inodes : /\ Moved(T, d, e)[i].nlinks = T[i].nlinks
                              /\ Moved(T, d, e)[i].count =
                                   T[i].count - (IF d = i THEN 1 ELSE 0) + (IF e = i THEN 1 ELSE 0)
<1>0. \A i \in Inodes : T[i].count \in Int
  BY DEF Sound, Tables
<1>1. CASE e = d
  BY <1>0, <1>1 DEF Moved
<1>2. CASE e # d
  <2> DEFINE U == iput(T, d)
  <2>1. Alters(T, U, d, -1)
    BY PutAlters
  <2> HIDE DEF U
  <2>2. U[e].count > 0 /\ Sound(U)
    BY <1>2, <2>1 DEF Alters, Sound, Tables
  <2>3. U[e].kind # Free /\ Mounted(e)
    BY <2>2, InUseInode
  <2>4. Alters(U, Get(U, e), e, 1)
    BY <2>2, <2>3, GetAlters
  <2>5. Moved(T, d, e) = Get(U, e)
    BY <1>2 DEF Moved, U
  <2> QED BY <1>0, <1>2, <2>1, <2>4, <2>5 DEF Alters
<1> QED BY <1>1, <1>2

LEMMA FoundInode ==
  ASSUME FInv, NEW t \in Tasks, NEW d \in Inodes, inode_table[d].count > 0, NEW name, Found(t, d, name) # None
  PROVE  /\ MovedTo(t, d, name) = d
         /\ \E n \in DOMAIN entries[d] : entries[d][n] = Found(t, d, name)
         /\ \/ name = ".." /\ Found(t, d, name) = d
            \/ name \in DOMAIN entries[d] /\ entries[d][name] = Found(t, d, name)
<1> DEFINE e == MovedTo(t, d, name)  n == IF name = ".." /\ d = root[t] THEN "." ELSE name
<1>1. IsDir(e) /\ n \in DOMAIN entries[e] /\ Found(t, d, name) = entries[e][n]
  BY DEF Found
<1>2. e \in Inodes /\ inode_table[e].count > 0 /\ (e # d => e = s_imount)
  BY MovedInode
<1>3. e = d
  <2>1. Kind[e] = "dir"
    BY <1>1, <1>2 DEF IsDir, FInv, Sound, Free
  <2>2. e # d => e # None
    BY <1>2, FilesAssumption
  <2> QED BY <1>2, <2>1, <2>2 DEF FInv, PlacesOk
<1>4. CASE name = ".." /\ d = root[t]
  <2>1. n = "." /\ entries[d]["."] = Content[d]["."] /\ "." \in DOMAIN Content[d]
    BY <1>1, <1>3, <1>4 DEF FInv, DirsOk
  <2>2. Kind[d] = "dir"
    BY <2>1, TreeAssumption
  <2>3. Content[d]["."] = d
    BY <2>2, TreeAssumption
  <2> QED BY <1>1, <1>3, <1>4, <2>1, <2>3
<1>5. CASE ~(name = ".." /\ d = root[t])
  BY <1>1, <1>3, <1>5
<1> QED BY <1>3, <1>4, <1>5

-----------------------------------------------------------------------------
(* The steps of calls.  A call has its directory, or its inode, and sys_link *)
(* the inode it links.                                                     *)
InDir(c) == c.at \in {"walk", "base", "iget", "victim"}
Is(i, j) == IF i = j THEN 1 ELSE 0

LEMMA CallHoldsIs ==
  ASSUME NEW c, CallOk(c), NEW i \in Inodes
  PROVE  /\ InDir(c) => c.dir \in Inodes /\ CallHolds(c, i) = Is(c.dir, i) + Is(c.old, i)
         /\ c.at = "got" => c.inode \in Inodes /\ CallHolds(c, i) = Is(c.inode, i) + Is(c.old, i)
         /\ c = Idle => CallHolds(c, i) = 0
<1>1. None # i
  BY FilesAssumption
<1> QED BY <1>1, IdleIs DEF CallOk, InDir, CallHolds, Is

LEMMA HeldHere ==
  ASSUME FInv, NEW t \in Tasks, NEW i \in Inodes
  PROVE  /\ inode_table[i].count \in Int /\ inode_table[i].count >= 0
         /\ InDir(call[t]) => inode_table[i].count >= Is(call[t].dir, i) + Is(call[t].old, i) + Is(root[t], i) + Is(pwd[t], i)
         /\ At(t, "got") => inode_table[i].count >= Is(call[t].inode, i) + Is(call[t].old, i) + Is(root[t], i) + Is(pwd[t], i)
         /\ inode_table[i].count >= Is(root[t], i) + Is(pwd[t], i) + Is(s_imount, i)
<1>1. inode_table[i].count \in Int /\ inode_table[i].count >= 0
  BY DEF FInv, Sound, Tables
<1>2. CallOk(call[t])
  BY DEF FInv, CallsOk
<1>3. inode_table[i].count >= CallHolds(call[t], i) + PlaceHolds(t, i) + MountHolds(i)
  BY CountHeld
<1>4. PlaceHolds(t, i) = Is(root[t], i) + Is(pwd[t], i) /\ MountHolds(i) = Is(s_imount, i) /\ CallHolds(call[t], i) >= 0
      /\ CallHolds(call[t], i) \in Int
  BY DEF PlaceHolds, MountHolds, Is, CallHolds
<1>5. \A a, b : Is(a, b) \in 0..1
  BY DEF Is
<1> QED
  BY <1>1, <1>2, <1>3, <1>4, <1>5, CallHoldsIs DEF At

(* A call ends in which a directory is put, and what sys_link has.         *)
LEMMA LosesDir ==
  ASSUME FInv, NEW t \in Tasks, InDir(call[t]), NEW e \in Inodes, NEW T, Sound(T),
         \A i \in Inodes : /\ T[i].nlinks = inode_table[i].nlinks
                           /\ T[i].count = inode_table[i].count - Is(call[t].dir, i) + Is(e, i),
         NotFound(t, iput(T, e))
  PROVE  FInv'
<1> DEFINE c == call[t]  U == iput(T, e)  V == IF c.old = None THEN U ELSE iput(U, c.old)
<1>1. CallOk(c) /\ Alone(t)
  <2>1. c # Idle
    BY IdleIs DEF InDir
  <2> QED BY <2>1, NobodyElse DEF FInv, CallsOk
<1>2. \A i, j : Is(i, j) \in 0..1 /\ Is(i, i) = 1 /\ (i # j => Is(i, j) = 0)
  BY DEF Is
<1>3. \A i \in Inodes : inode_table[i].count \in Int /\ inode_table[i].count >= Is(c.dir, i) + Is(c.old, i)
  <2> TAKE i \in Inodes
  <2> HIDE DEF c
  <2>1. inode_table[i].count \in Int /\ inode_table[i].count >= Is(c.dir, i) + Is(c.old, i) + Is(root[t], i) + Is(pwd[t], i)
    BY HeldHere DEF c
  <2> QED BY <1>2, <2>1
<1>4. T[e].count > 0
  BY <1>2, <1>3
<1>5. Alters(T, U, e, -1)
  BY <1>4, PutAlters
<1> HIDE DEF U
<1>6. \A i \in Inodes : U[i].nlinks = inode_table[i].nlinks /\ U[i].count = inode_table[i].count - Is(c.dir, i)
  BY <1>2, <1>3, <1>5 DEF Alters, Is
<1>7. c.old \in Inodes \cup {None} /\ None \notin Inodes
  BY <1>1, FilesAssumption DEF CallOk
<1>8. Sound(V) /\ \A i \in Inodes : V[i].nlinks = inode_table[i].nlinks
                                    /\ V[i].count = inode_table[i].count - Is(c.dir, i) - Is(c.old, i)
  <2>1. CASE c.old = None
    BY <1>2, <1>3, <1>5, <1>6, <1>7, <2>1 DEF Alters
  <2>2. CASE c.old # None
    <3>1. U[c.old].count > 0
      BY <1>2, <1>3, <1>6, <1>7, <2>2
    <3>2. Alters(U, V, c.old, -1)
      BY <1>5, <1>7, <2>2, <3>1, PutAlters DEF Alters
    <3> QED BY <1>2, <1>3, <1>6, <3>2 DEF Alters, Is
  <2> QED BY <2>1, <2>2
<1>9. Fails(t, V)
  BY DEF NotFound, U
<1> HIDE DEF V
<1>10. Settles(V, c, Idle)
  <2>1. \A i \in Inodes : CallHolds(c, i) = Is(c.dir, i) + Is(c.old, i) /\ CallHolds(Idle, i) = 0
    BY <1>1, IdleOk, CallHoldsIs
  <2> HIDE DEF c
  <2> QED BY <1>2, <1>3, <1>8, <2>1 DEF Settles
<1> QED BY <1>1, <1>9, <1>10, FailsWell

LEMMA IsFacts ==
  \A i, j : Is(i, j) \in 0..1 /\ Is(i, i) = 1 /\ (i # j => Is(i, j) = 0)
BY DEF Is

(* The call of a task that is in one.                                      *)
LEMMA InCall ==
  ASSUME FInv, NEW t \in Tasks, call[t].at # "idle"
  PROVE  CallOk(call[t]) /\ Alone(t)
<1>1. call[t] # Idle
  BY IdleIs
<1> QED BY <1>1, NobodyElse DEF FInv, CallsOk

LEMMA LosesInode ==
  ASSUME FInv, NEW t \in Tasks, At(t, "got"), call[t].old = None, Fails(t, iput(inode_table, call[t].inode))
  PROVE  FInv'
<1> DEFINE c == call[t]  U == iput(inode_table, c.inode)
<1>1. CallOk(c) /\ Alone(t)
  BY InCall DEF At
<1>2. c.inode \in Inodes
  BY <1>1 DEF CallOk, At
<1>3. inode_table[c.inode].count > 0
  <2>1. inode_table[c.inode].count >= Is(c.inode, c.inode) + Is(c.old, c.inode) + Is(root[t], c.inode) + Is(pwd[t], c.inode)
    BY <1>2, HeldHere
  <2>2. inode_table[c.inode].count \in Int
    BY <1>2, HeldHere
  <2> QED BY <2>1, <2>2, IsFacts
<1>4. Alters(inode_table, U, c.inode, -1)
  BY <1>2, <1>3, PutAlters DEF FInv
<1> HIDE DEF U
<1>5. Settles(U, c, Idle)
  <2>1. \A i \in Inodes : CallHolds(c, i) = Is(c.inode, i) + Is(c.old, i) /\ CallHolds(Idle, i) = 0
    BY <1>1, IdleOk, CallHoldsIs DEF At
  <2>2. \A i \in Inodes : inode_table[i].count \in Int /\ Is(c.old, i) = 0
    BY HeldHere, FilesAssumption, IsFacts
  <2> HIDE DEF c
  <2> QED BY <1>4, <2>1, <2>2 DEF Settles, Alters, Is
<1> QED BY <1>1, <1>5, FailsWell DEF U

(* A call begins, or goes over to its second path, at the root or the      *)
(* directory of its task.                                                  *)
LEMMA Begins ==
  ASSUME FInv, NEW t \in Tasks, Alone(t), NEW T, NEW c, NEW p, Base(T, t, c, p),
         UNCHANGED <<entries, dirVars, tableVars>>,
         DOMAIN c = DOMAIN Idle, c.old \in Inodes \cup {None}, c.op = "link" <=> c.old # None,
         c.fd = call[t].fd, c.op = "open" <=> c.fd # 0, Sound(T),
         \A i \in Inodes : /\ T[i].nlinks = inode_table[i].nlinks
                           /\ T[i].count = inode_table[i].count - CallHolds(call[t], i) + Is(c.old, i),
         T[root[t]].count > 0, T[pwd[t]].count > 0
  PROVE  FInv'
<1>1. PICK b \in {root[t], pwd[t]} : /\ inode_table' = Get(T, b)
                                     /\ call' = [call EXCEPT ![t] = [c EXCEPT !.at = "walk", !.path = p, !.dir = b]]
  BY DEF Base
<1>2. b \in Inodes /\ T[b].count > 0
  BY DEF FInv, PlacesOk
<1> DEFINE d == [c EXCEPT !.at = "walk", !.path = p, !.dir = b]  U == Get(T, b)
<1>3. Alters(T, U, b, 1)
  BY <1>2, InUseInode, GetAlters
<1>4. DOMAIN d = DOMAIN Idle /\ d.at = "walk" /\ d.dir = b /\ d.old = c.old /\ d.fd = c.fd /\ d.op = c.op
  BY IdleIs
<1>5. Goes(t, U, d)
  BY <1>1 DEF Goes
<1> HIDE DEF d, U
<1>6. CallOk(d)
  <2>1. d.fd \in Fds \cup {0}
    BY <1>4 DEF FInv, CallsOk, CallOk
  <2> QED BY <1>2, <1>4, <2>1 DEF CallOk
<1>7. Settles(U, call[t], d)
  <2> SUFFICES ASSUME NEW i \in Inodes
               PROVE  /\ U[i].nlinks = inode_table[i].nlinks
                      /\ U[i].count = inode_table[i].count - CallHolds(call[t], i) + CallHolds(d, i)
    BY <1>3 DEF Settles, Alters
  <2>1. CallHolds(d, i) = Is(b, i) + Is(c.old, i)
    BY <1>4, <1>6, CallHoldsIs DEF InDir
  <2>2. inode_table[i].count \in Int /\ CallHolds(call[t], i) \in Int /\ Is(c.old, i) \in Int
    BY HeldHere, IsFacts DEF CallHolds
  <2> QED BY <1>3, <2>1, <2>2 DEF Alters, Is
<1> QED BY <1>4, <1>5, <1>6, <1>7, GoesOn

(* A call that is in a directory has put it, and has another inode now.    *)
LEMMA GoesHolding ==
  ASSUME FInv, NEW t \in Tasks, InDir(call[t]), NEW T, Sound(T), NEW i \in Inodes,
         \A j \in Inodes : /\ T[j].nlinks = inode_table[j].nlinks
                           /\ T[j].count = inode_table[j].count - Is(call[t].dir, j) + Is(i, j),
         NEW d, Goes(t, T, d), CallOk(d), d.fd = call[t].fd, d.old = call[t].old,
         (InDir(d) /\ d.dir = i) \/ (d.at = "got" /\ d.inode = i)
  PROVE  FInv'
<1> DEFINE c == call[t]
<1>1. CallOk(c) /\ Alone(t)
  BY InCall DEF InDir
<1>2. Settles(T, c, d)
  <2> SUFFICES ASSUME NEW j \in Inodes
               PROVE  T[j].count = inode_table[j].count - CallHolds(c, j) + CallHolds(d, j)
    BY DEF Settles
  <2>1. CallHolds(d, j) = Is(i, j) + Is(c.old, j)
    <3>1. CASE InDir(d) /\ d.dir = i
      BY <3>1, CallHoldsIs
    <3>2. CASE d.at = "got" /\ d.inode = i
      BY <3>2, CallHoldsIs
    <3> QED BY <3>1, <3>2
  <2>2. CallHolds(c, j) = Is(c.dir, j) + Is(c.old, j)
    BY <1>1, CallHoldsIs
  <2>3. inode_table[j].count \in Int
    BY HeldHere
  <2> HIDE DEF c
  <2>4. T[j].count = inode_table[j].count - Is(c.dir, j) + Is(i, j)
    BY DEF c
  <2>5. Is(i, j) \in Int /\ Is(c.old, j) \in Int /\ Is(c.dir, j) \in Int
    BY IsFacts
  <2> QED BY <2>1, <2>2, <2>3, <2>4, <2>5
<1> QED BY <1>1, <1>2, GoesOn

LEMMA WalksOn ==
  ASSUME FInv, NEW t \in Tasks, InDir(call[t]), NEW T, Sound(T), NEW i \in Inodes,
         \A j \in Inodes : /\ T[j].nlinks = inode_table[j].nlinks
                           /\ T[j].count = inode_table[j].count - Is(call[t].dir, j) + Is(i, j),
         NEW d, Goes(t, T, d), DOMAIN d = DOMAIN Idle, d.at = "walk", d.dir = i,
         d.old = call[t].old, d.fd = call[t].fd, d.op = call[t].op
  PROVE  FInv'
<1>1. CallOk(d) /\ InDir(d)
  BY InCall DEF CallOk, InDir
<1> QED BY <1>1, GoesHolding

(* _namei has an inode, in T with its directory put.                       *)
LEMMA HasWell ==
  ASSUME FInv, NEW t \in Tasks, InDir(call[t]), NEW T, Sound(T), NEW i \in Inodes,
         \A j \in Inodes : /\ T[j].nlinks = inode_table[j].nlinks
                           /\ T[j].count = inode_table[j].count - Is(call[t].dir, j) + Is(i, j),
         Has(t, T, call[t], i)
  PROVE  FInv'
<1> DEFINE c == call[t]
<1>1. CallOk(c)
  BY InCall DEF InDir
<1>2. ASSUME NEW p, Goes(t, T, [c EXCEPT !.at = "walk", !.dir = i, !.path = p, !.inode = None, !.nested = FALSE])
      PROVE  FInv'
  <2> DEFINE d == [c EXCEPT !.at = "walk", !.dir = i, !.path = p, !.inode = None, !.nested = FALSE]
  <2>1. DOMAIN d = DOMAIN Idle /\ d.at = "walk" /\ d.dir = i /\ d.old = c.old /\ d.fd = c.fd /\ d.op = c.op
    BY <1>1, IdleIs DEF CallOk
  <2>2. Goes(t, T, d)
    BY <1>2
  <2> HIDE DEF d
  <2> QED BY <2>1, <2>2, WalksOn
<1>3. ASSUME Goes(t, T, [c EXCEPT !.at = "got", !.inode = i, !.dir = None, !.nested = FALSE])
      PROVE  FInv'
  <2> DEFINE d == [c EXCEPT !.at = "got", !.inode = i, !.dir = None, !.nested = FALSE]
  <2>1. DOMAIN d = DOMAIN Idle /\ d.at = "got" /\ d.dir = None /\ d.inode = i /\ d.old = c.old /\ d.fd = c.fd /\ d.op = c.op
    BY <1>1, IdleIs DEF CallOk
  <2>2. Goes(t, T, d)
    BY <1>3
  <2> HIDE DEF d
  <2>3. CallOk(d)
    BY <1>1, <2>1 DEF CallOk
  <2> QED BY <2>1, <2>2, <2>3, GoesHolding
<1> QED BY <1>2, <1>3 DEF Has

(* A directory that is held can be gone on from, and what it has in it     *)
(* can be used.                                                            *)
LEMMA DirInUse ==
  ASSUME FInv, NEW t \in Tasks, InDir(call[t])
  PROVE  /\ CallOk(call[t]) /\ Alone(t) /\ call[t].dir \in Inodes /\ inode_table[call[t].dir].count > 0
         /\ inode_table[call[t].dir].kind # Free /\ Mounted(call[t].dir)
<1>1. CallOk(call[t]) /\ Alone(t)
  BY InCall DEF InDir
<1>2. call[t].dir \in Inodes
  BY <1>1 DEF CallOk, InDir
<1> PICK d \in Inodes : d = call[t].dir
  BY <1>2
<1>3. inode_table[d].count \in Int /\ inode_table[d].count >= Is(d, d) + Is(call[t].old, d) + Is(root[t], d) + Is(pwd[t], d)
  BY HeldHere
<1>4. inode_table[d].count > 0
  BY <1>3, IsFacts
<1> QED BY <1>1, <1>4, InUseInode DEF FInv

(* Looking up a name ends the call or goes on to iget.                     *)
LEMMA EntersWell ==
  ASSUME FInv, NEW t \in Tasks, InDir(call[t]), NEW name, Enters(t, call[t], name)
  PROVE  FInv'
<1> DEFINE c == call[t]  d == MovedTo(t, c.dir, name)  i == Found(t, c.dir, name)  T == Moved(inode_table, c.dir, d)
<1>1. /\ CallOk(c) /\ Alone(t) /\ c.dir \in Inodes /\ inode_table[c.dir].count > 0
  BY DirInUse
<1>2. d \in Inodes /\ inode_table[d].count > 0
  BY <1>1, MovedInode
<1>3. CASE i = None
  <2>1. NotFound(t, iput(T, d))
    BY <1>3 DEF Enters
  <2>2. /\ Sound(T)
        /\ \A j \in Inodes : /\ T[j].nlinks = inode_table[j].nlinks
                             /\ T[j].count = inode_table[j].count - Is(c.dir, j) + Is(d, j)
    <3> HIDE DEF d
    <3> QED BY <1>1, <1>2, MovedTable DEF FInv, Is
  <2> HIDE DEF T, d
  <2> QED BY <1>2, <2>1, <2>2, LosesDir
<1>4. CASE i # None
  <2>1. d = c.dir /\ \E n \in DOMAIN entries[c.dir] : entries[c.dir][n] = i
    BY <1>1, <1>4, FoundInode
  <2>2. T = inode_table
    BY <2>1 DEF Moved
  <2> DEFINE e == [c EXCEPT !.at = "iget", !.dir = d, !.inode = i]
  <2>3. Goes(t, inode_table, e)
    BY <1>4, <2>2 DEF Enters
  <2>4. DOMAIN e = DOMAIN Idle /\ e.at = "iget" /\ e.dir = c.dir /\ e.inode = i
        /\ e.old = c.old /\ e.fd = c.fd /\ e.op = c.op
    BY <1>1, <2>1, IdleIs DEF CallOk
  <2> HIDE DEF e
  <2>5. CallOk(e)
    BY <1>1, <2>1, <2>4 DEF CallOk
  <2>6. Settles(inode_table, c, e)
    <3> SUFFICES ASSUME NEW j \in Inodes
                 PROVE  inode_table[j].count = inode_table[j].count - CallHolds(c, j) + CallHolds(e, j)
      BY DEF Settles, FInv
    <3>1. CallHolds(e, j) = Is(c.dir, j) + Is(c.old, j)
      BY <2>4, <2>5, CallHoldsIs DEF InDir
    <3>2. CallHolds(c, j) = Is(c.dir, j) + Is(c.old, j)
      BY <1>1, CallHoldsIs
    <3>3. inode_table[j].count \in Int /\ CallHolds(c, j) \in Int
      BY HeldHere DEF CallHolds
    <3> QED BY <3>1, <3>2, <3>3
  <2> QED BY <1>1, <2>3, <2>4, <2>5, <2>6, GoesOn
<1> QED BY <1>3, <1>4

LEMMA PlacesInUse ==
  ASSUME FInv, NEW t \in Tasks
  PROVE  /\ root[t] \in Inodes /\ inode_table[root[t]].count > 0
         /\ pwd[t] \in Inodes /\ inode_table[pwd[t]].count > 0
<1>1. root[t] \in Inodes /\ pwd[t] \in Inodes
  BY DEF FInv, PlacesOk
<1>2. \A b \in {root[t], pwd[t]} : inode_table[b].count > 0
  <2> TAKE b \in {root[t], pwd[t]}
  <2>1. inode_table[b].count \in Int /\ inode_table[b].count >= Is(root[t], b) + Is(pwd[t], b) + Is(s_imount, b)
    BY <1>1, HeldHere
  <2> QED BY <2>1, IsFacts
<1> QED BY <1>1, <1>2

-----------------------------------------------------------------------------
(* Every action keeps the invariant.                                       *)
LEMMA LookupKeeps ==
  ASSUME FInv, ~Overlap, NEW t \in Tasks, Lookup(t)
  PROVE  FInv'
<1>1. call[t] = Idle /\ Alone(t)
  BY NobodyElse DEF Lookup, MayRun, FInv
<1>2. PICK op \in {"namei", "lnamei", "dir_namei"}, p \in Paths : Base(inode_table, t, [Idle EXCEPT !.op = op], p)
  BY DEF Lookup
<1> DEFINE c == [Idle EXCEPT !.op = op]
<1>3. DOMAIN c = DOMAIN Idle /\ c.old = None /\ c.fd = 0 /\ c.op = op
  BY IdleIs
<1>4. UNCHANGED <<entries, dirVars, tableVars>> /\ Base(inode_table, t, c, p)
  BY <1>2 DEF Lookup
<1> HIDE DEF c
<1>5. \A i \in Inodes : inode_table[i].count = inode_table[i].count - CallHolds(call[t], i) + Is(c.old, i)
  <2> TAKE i \in Inodes
  <2>1. CallHolds(call[t], i) = 0 /\ inode_table[i].count \in Int
    BY <1>1, IdleOk, CallHoldsIs, HeldHere
  <2> QED BY <1>3, <2>1, FilesAssumption, IsFacts
<1>6. c.op # "link" /\ c.op # "open" /\ c.fd = call[t].fd /\ Sound(inode_table)
  BY <1>1, <1>3, IdleIs DEF FInv
<1> QED BY <1>1, <1>3, <1>4, <1>5, <1>6, PlacesInUse, Begins

LEMMA NotThroughKeeps ==
  ASSUME FInv, NEW t \in Tasks, NotThrough(t)
  PROVE  FInv'
<1>1. InDir(call[t]) /\ NotFound(t, iput(inode_table, call[t].dir))
  BY DEF NotThrough, At, InDir
<1>2. call[t].dir \in Inodes
  BY <1>1, DirInUse
<1>3. \A i \in Inodes : inode_table[i].count = inode_table[i].count - Is(call[t].dir, i) + Is(call[t].dir, i)
  BY HeldHere, IsFacts
<1> QED BY <1>1, <1>2, <1>3, LosesDir DEF FInv

LEMMA WalkKeeps ==
  ASSUME FInv, NEW t \in Tasks, Walk(t)
  PROVE  FInv'
<1>1. InDir(call[t]) /\ Enters(t, call[t], Head(call[t].path))
  BY DEF Walk, At, InDir
<1> QED BY <1>1, EntersWell

LEMMA LastNameKeeps ==
  ASSUME FInv, NEW t \in Tasks, LastName(t)
  PROVE  FInv'
<1>1. InDir(call[t])
  BY DEF LastName, At, InDir
<1>2. CallOk(call[t]) /\ Alone(t) /\ call[t].dir \in Inodes
  BY <1>1, DirInUse
<1>3. PICK p : Goes(t, inode_table, [call[t] EXCEPT !.at = "base", !.path = p])
  BY DEF LastName
<1> DEFINE c == call[t]  d == [c EXCEPT !.at = "base", !.path = p]
<1>4. DOMAIN d = DOMAIN Idle /\ d.at = "base" /\ d.dir = c.dir /\ d.old = c.old /\ d.fd = c.fd /\ d.op = c.op
  BY <1>2, IdleIs DEF CallOk
<1>5. Goes(t, inode_table, d)
  BY <1>3
<1> HIDE DEF d
<1>6. CallOk(d)
  BY <1>2, <1>4 DEF CallOk
<1>7. Settles(inode_table, c, d)
  <2> SUFFICES ASSUME NEW i \in Inodes
               PROVE  inode_table[i].count = inode_table[i].count - CallHolds(c, i) + CallHolds(d, i)
    BY DEF Settles, FInv
  <2>1. CallHolds(d, i) = Is(c.dir, i) + Is(c.old, i) /\ CallHolds(c, i) = Is(c.dir, i) + Is(c.old, i)
    BY <1>1, <1>2, <1>4, <1>6, CallHoldsIs DEF InDir
  <2>2. inode_table[i].count \in Int /\ CallHolds(c, i) \in Int
    BY HeldHere DEF CallHolds
  <2> QED BY <2>1, <2>2
<1> QED BY <1>2, <1>4, <1>5, <1>6, <1>7, GoesOn

LEMMA NameKeeps ==
  ASSUME FInv, NEW t \in Tasks, Name(t)
  PROVE  FInv'
<1>1. InDir(call[t])
  BY DEF Name, At, InDir
<1>2. call[t].dir \in Inodes
  BY <1>1, DirInUse
<1>3. CASE call[t].path[1] = "" /\ Has(t, inode_table, call[t], call[t].dir)
  <2>1. \A i \in Inodes : inode_table[i].count = inode_table[i].count - Is(call[t].dir, i) + Is(call[t].dir, i)
    BY HeldHere, IsFacts
  <2>2. Sound(inode_table)
    BY DEF FInv
  <2>3. PICK d \in Inodes : d = call[t].dir
    BY <1>2
  <2>4. /\ Has(t, inode_table, call[t], d)
        /\ \A j \in Inodes : /\ inode_table[j].nlinks = inode_table[j].nlinks
                             /\ inode_table[j].count = inode_table[j].count - Is(call[t].dir, j) + Is(d, j)
    BY <1>3, <2>1, <2>3
  <2> QED BY <1>1, <2>2, <2>4, HasWell
<1>4. CASE Enters(t, call[t], call[t].path[1])
  BY <1>1, <1>4, EntersWell
<1> QED BY <1>3, <1>4 DEF Name

(* The inode that a found number stands for is taken and the directory put. *)
LEMMA FoundInUse ==
  ASSUME FInv, NEW t \in Tasks, InDir(call[t]), NEW n \in DOMAIN entries[call[t].dir], entries[call[t].dir][n] = call[t].inode
  PROVE  LET i == call[t].inode IN
         /\ i \in Inodes /\ inode_table[i].kind = Kind[i] /\ Kind[i] # Free /\ Mounted(i)
         /\ Device[i] = Device[call[t].dir] /\ Kind[call[t].dir] = "dir" /\ inode_table[i].nlinks > 0
         /\ i = Content[call[t].dir][n] /\ n \in DOMAIN Content[call[t].dir]
<1> PICK d \in Inodes : d = call[t].dir
  BY DirInUse
<1>1. Mounted(d)
  BY DirInUse
<1> QED BY <1>1, EntryInode DEF Mounted

LEMMA TakenTable ==
  ASSUME FInv, NEW t \in Tasks, InDir(call[t]), NEW i \in Inodes, inode_table[i].kind # Free, Mounted(i)
  PROVE  LET T == Get(inode_table, i)  U == iput(T, call[t].dir)  V == iput(T, i) IN
         /\ Alters(inode_table, T, i, 1) /\ T[call[t].dir].count > 0
         /\ Sound(U) /\ Sound(V)
         /\ \A j \in Inodes : /\ U[j].nlinks = inode_table[j].nlinks /\ V[j].nlinks = inode_table[j].nlinks
                              /\ U[j].count = inode_table[j].count - Is(call[t].dir, j) + Is(i, j)
                              /\ V[j].count = inode_table[j].count
<1> PICK d \in Inodes : d = call[t].dir
  BY DirInUse
<1>1. inode_table[d].count > 0 /\ \A j \in Inodes : inode_table[j].count \in Int
  BY DirInUse, HeldHere
<1> DEFINE T == Get(inode_table, i)  U == iput(T, d)  V == iput(T, i)
<1>2. Alters(inode_table, T, i, 1)
  BY GetAlters DEF FInv
<1> HIDE DEF T
<1>3. T[d].count > 0 /\ T[i].count > 0 /\ Sound(T)
  <2>1. inode_table[i].count >= 0
    BY HeldHere
  <2> QED BY <1>1, <1>2, <2>1 DEF Alters
<1>4. Alters(T, U, d, -1) /\ Alters(T, V, i, -1)
  BY <1>3, PutAlters
<1> HIDE DEF U, V
<1>5. Sound(U) /\ Sound(V)
  BY <1>4 DEF Alters
<1>6. \A j \in Inodes : /\ U[j].nlinks = inode_table[j].nlinks /\ V[j].nlinks = inode_table[j].nlinks
                        /\ U[j].count = inode_table[j].count - Is(d, j) + Is(i, j)
                        /\ V[j].count = inode_table[j].count
  BY <1>1, <1>2, <1>4 DEF Alters, Is
<1> QED BY <1>2, <1>3, <1>5, <1>6 DEF T, U, V

LEMMA IgetKeeps ==
  ASSUME FInv, NEW t \in Tasks, Iget(t)
  PROVE  FInv'
<1> DEFINE c == call[t]
<1>1. InDir(c) /\ CallOk(c) /\ c.at = "iget"
  BY InCall DEF Iget, At, InDir
<1>2. PICK n \in DOMAIN entries[c.dir] : entries[c.dir][n] = c.inode
  BY <1>1 DEF CallOk
<1>3. c.inode \in Inodes /\ inode_table[c.inode].kind # Free /\ Mounted(c.inode)
  BY <1>1, <1>2, FoundInUse
<1>4. PICK i \in Inodes : i = Crossed(c.inode) /\ inode_table[i].kind # Free /\ Mounted(i)
  BY <1>3, CrossedInode
<1>5. PICK d \in Inodes : d = c.dir
  BY <1>1, DirInUse
<1> DEFINE T == Get(inode_table, i)  U == iput(T, d)  V == iput(T, i)
<1>6. /\ Sound(U) /\ Sound(V)
      /\ \A j \in Inodes : /\ U[j].nlinks = inode_table[j].nlinks /\ V[j].nlinks = inode_table[j].nlinks
                           /\ U[j].count = inode_table[j].count - Is(c.dir, j) + Is(i, j)
                           /\ V[j].count = inode_table[j].count - Is(c.dir, j) + Is(d, j)
  <2>1. \A j \in Inodes : inode_table[j].count \in Int
    BY HeldHere
  <2> QED BY <1>1, <1>4, <1>5, <2>1, TakenTable, IsFacts
<1>7. CASE Onwards(t, U, c, i)
  <2> HIDE DEF U
  <2>1. CASE Len(c.path) > 1
    <3> DEFINE e == [c EXCEPT !.at = "walk", !.dir = i, !.inode = None, !.path = Tail(@)]
    <3>1. Goes(t, U, e)
      BY <1>7, <2>1 DEF Onwards
    <3>2. DOMAIN e = DOMAIN Idle /\ e.at = "walk" /\ e.dir = i /\ e.old = c.old /\ e.fd = c.fd /\ e.op = c.op
      BY <1>1, IdleIs DEF CallOk
    <3> HIDE DEF e
    <3> QED BY <1>1, <1>6, <3>1, <3>2, WalksOn
  <2>2. CASE ~(Len(c.path) > 1)
    <3>1. Has(t, U, c, i)
      BY <1>7, <2>2 DEF Onwards
    <3> QED BY <1>1, <1>6, <3>1, HasWell
  <2> QED BY <2>1, <2>2
<1>8. CASE NotFound(t, iput(U, i))
  <2> HIDE DEF U
  <2> QED BY <1>1, <1>6, <1>8, LosesDir
<1>9. CASE Goes(t, V, [c EXCEPT !.at = "walk", !.path = Target, !.inode = None,
                                !.user = FALSE, !.nested = TRUE, !.more = Len(c.path) > 1])
  <2> HIDE DEF V
  <2> DEFINE e == [c EXCEPT !.at = "walk", !.path = Target, !.inode = None,
                            !.user = FALSE, !.nested = TRUE, !.more = Len(c.path) > 1]
  <2>1. Goes(t, V, e)
    BY <1>9
  <2>2. DOMAIN e = DOMAIN Idle /\ e.at = "walk" /\ e.dir = d /\ e.old = c.old /\ e.fd = c.fd /\ e.op = c.op
    BY <1>1, <1>5, IdleIs DEF CallOk
  <2> HIDE DEF e
  <2> QED BY <1>1, <1>6, <2>1, <2>2, WalksOn
<1> QED BY <1>4, <1>5, <1>7, <1>8, <1>9 DEF Iget, iput2

LEMMA GotInode ==
  ASSUME FInv, NEW t \in Tasks, At(t, "got")
  PROVE  /\ CallOk(call[t]) /\ Alone(t) /\ call[t].inode \in Inodes /\ call[t].dir = None
         /\ \A j \in Inodes : /\ CallHolds(call[t], j) = Is(call[t].inode, j) + Is(call[t].old, j)
                              /\ inode_table[j].count \in Int
                              /\ inode_table[j].count >= Is(call[t].inode, j) + Is(call[t].old, j)
                                                         + Is(root[t], j) + Is(pwd[t], j) + Is(s_imount, j)
<1>1. CallOk(call[t]) /\ Alone(t)
  BY InCall DEF At
<1>2. call[t].inode \in Inodes /\ call[t].dir = None
  BY <1>1 DEF CallOk, At
<1>3. ASSUME NEW j \in Inodes
      PROVE  /\ CallHolds(call[t], j) = Is(call[t].inode, j) + Is(call[t].old, j)
             /\ inode_table[j].count \in Int
             /\ inode_table[j].count >= Is(call[t].inode, j) + Is(call[t].old, j)
                                        + Is(root[t], j) + Is(pwd[t], j) + Is(s_imount, j)
  <2>1. CallHolds(call[t], j) = Is(call[t].inode, j) + Is(call[t].old, j)
    BY <1>1, CallHoldsIs DEF At
  <2>2. inode_table[j].count \in Int
    BY HeldHere
  <2>3. inode_table[j].count >= CallHolds(call[t], j) + PlaceHolds(t, j) + MountHolds(j)
    BY CountHeld
  <2>4. PlaceHolds(t, j) = Is(root[t], j) + Is(pwd[t], j) /\ MountHolds(j) = Is(s_imount, j)
    BY DEF PlaceHolds, MountHolds, Is
  <2>5. \A a, b : Is(a, b) \in Int
    BY IsFacts
  <2> QED BY <2>1, <2>2, <2>3, <2>4, <2>5
<1> QED BY <1>1, <1>2, <1>3

LEMMA StatKeeps ==
  ASSUME FInv, NEW t \in Tasks, Stat(t)
  PROVE  FInv'
<1>1. At(t, "got") /\ call[t].op # "link" /\ Fails(t, iput(inode_table, call[t].inode))
  BY DEF Stat, Got
<1>2. call[t].old = None
  BY <1>1, GotInode DEF CallOk
<1> QED BY <1>1, <1>2, LosesInode

LEMMA ChDirKeeps ==
  ASSUME FInv, NEW t \in Tasks, ChDir(t)
  PROVE  FInv'
<1>1. At(t, "got") /\ call[t].op # "link" /\ Failed(t) /\ entries' = entries /\ s_imount' = s_imount
  BY DEF ChDir, Got
<1>2. PICK i \in Inodes : i = call[t].inode
  BY <1>1, GotInode
<1>3. /\ Alone(t) /\ call[t].old = None
      /\ \A j \in Inodes : CallHolds(call[t], j) = Is(i, j) /\ inode_table[j].count \in Int
  <2>1. Alone(t) /\ call[t].old = None
    BY <1>1, GotInode DEF CallOk
  <2>2. \A j \in Inodes : Is(call[t].old, j) = 0 /\ Is(i, j) \in Int
    BY <2>1, FilesAssumption, IsFacts
  <2> QED BY <1>1, <1>2, <2>1, <2>2, GotInode
<1>4. PICK b \in Inodes :
        /\ inode_table' = iput(inode_table, b) /\ inode_table[b].count > 0
        /\ \/ b = pwd[t] /\ pwd' = [pwd EXCEPT ![t] = i] /\ root' = root
           \/ b = root[t] /\ root' = [root EXCEPT ![t] = i] /\ pwd' = pwd
  BY <1>2, PlacesInUse DEF ChDir
<1>5. Alters(inode_table, inode_table', b, -1)
  BY <1>4, PutAlters DEF FInv
<1>6. DirsOk' /\ LinksExact'
  <2>1. DirsOk' /\ \A j \in Inodes : Entries(j)' = Entries(j)
    BY <1>1, DirsSame DEF FInv
  <2> QED BY <1>5, <2>1 DEF FInv, LinksExact, Alters
<1>7. PlacesOk' /\ \A u \in Tasks \ {t} : root'[u] = root[u] /\ pwd'[u] = pwd[u]
  BY <1>1, <1>4 DEF FInv, PlacesOk
<1>8. Sound(inode_table)'
  BY <1>1, <1>5 DEF Alters, Sound, Mounted, Tables
<1>9. \A j \in Inodes : inode_table'[j].count = inode_table[j].count - CallHolds(call[t], j)
                             - PlaceHolds(t, j) + PlaceHolds(t, j)' - MountHolds(j) + MountHolds(j)'
  <2> TAKE j \in Inodes
  <2>1. MountHolds(j)' = MountHolds(j) /\ MountHolds(j) \in Int
    BY <1>1 DEF MountHolds
  <2>2. PlaceHolds(t, j)' = PlaceHolds(t, j) - Is(b, j) + Is(i, j) /\ PlaceHolds(t, j) \in Int
    BY <1>4 DEF PlaceHolds, Is, FInv, PlacesOk
  <2>3. inode_table'[j].count = inode_table[j].count - Is(b, j)
    BY <1>3, <1>5 DEF Alters, Is
  <2>4. Is(b, j) \in Int /\ Is(i, j) \in Int
    BY IsFacts
  <2> QED BY <1>3, <2>1, <2>2, <2>3, <2>4
<1> QED BY <1>1, <1>3, <1>6, <1>7, <1>8, <1>9, EndsWith

LEMMA UmountKeeps ==
  ASSUME FInv, NEW t \in Tasks, Umount(t)
  PROVE  FInv'
<1>1. /\ At(t, "got") /\ call[t].op # "link" /\ Failed(t)
      /\ entries' = entries /\ root' = root /\ pwd' = pwd /\ s_imount' = None /\ s_imount # None
  BY DEF Umount, Got
<1>2. PICK i \in Inodes : i = call[t].inode
  BY <1>1, GotInode
<1>3. PICK m \in Inodes : m = s_imount
  BY <1>1 DEF FInv, PlacesOk
<1>4. /\ Alone(t) /\ call[t].old = None
      /\ \A j \in Inodes : CallHolds(call[t], j) = Is(i, j) /\ inode_table[j].count \in Int
                           /\ inode_table[j].count >= Is(i, j) + Is(m, j)
  <2>1. Alone(t) /\ call[t].old = None
    BY <1>1, GotInode DEF CallOk
  <2>2. \A j \in Inodes : Is(call[t].old, j) = 0 /\ Is(i, j) \in 0..1 /\ Is(m, j) \in 0..1
                          /\ Is(root[t], j) \in 0..1 /\ Is(pwd[t], j) \in 0..1
    BY <2>1, FilesAssumption, IsFacts
  <2> QED BY <1>1, <1>2, <1>3, <2>1, <2>2, GotInode
<1> DEFINE T == iput(inode_table, i)  U == iput(T, m)
<1>5. inode_table' = U /\ ~InUse(T)
  BY <1>2, <1>3 DEF Umount
<1>6. Alters(inode_table, T, i, -1)
  <2>1. inode_table[i].count > 0
    BY <1>4, IsFacts
  <2> QED BY <2>1, PutAlters DEF FInv
<1> HIDE DEF T
<1>7. Alters(T, U, m, -1)
  <2>1. T[m].count > 0
    <3>1. inode_table[m].count \in Int /\ inode_table[m].count >= Is(i, m) + Is(m, m) /\ Is(m, m) = 1
      BY <1>4, IsFacts
    <3> QED BY <1>6, <3>1 DEF Alters, Is
  <2> QED BY <1>6, <2>1, PutAlters DEF Alters
<1> HIDE DEF U
<1>8. \A j \in Inodes : U[j].nlinks = inode_table[j].nlinks /\ U[j].count = inode_table[j].count - Is(i, j) - Is(m, j)
                        /\ U[j].count <= T[j].count /\ T[j].count \in Int /\ U[j].count \in Int
  BY <1>4, <1>6, <1>7 DEF Alters, Is
<1>9. DirsOk' /\ LinksExact'
  <2>1. DirsOk' /\ \A j \in Inodes : Entries(j)' = Entries(j)
    BY <1>1, DirsSame DEF FInv
  <2> QED BY <1>5, <1>8, <2>1 DEF FInv, LinksExact
<1>10. PlacesOk'
  BY <1>1 DEF FInv, PlacesOk
<1>11. Sound(inode_table)'
  <2>1. \A j \in Inodes : U[j].count > 0 => Device[j] # Device[MountedRoot]
    BY <1>5, <1>8 DEF InUse
  <2> QED BY <1>5, <1>7, <2>1 DEF Alters, Sound, Mounted, Tables
<1>12. \A j \in Inodes : inode_table'[j].count = inode_table[j].count - CallHolds(call[t], j)
                             - PlaceHolds(t, j) + PlaceHolds(t, j)' - MountHolds(j) + MountHolds(j)'
  <2> TAKE j \in Inodes
  <2>1. MountHolds(j)' = 0 /\ MountHolds(j) = Is(m, j)
    BY <1>1, <1>3, FilesAssumption DEF MountHolds, Is
  <2>2. PlaceHolds(t, j)' = PlaceHolds(t, j) /\ PlaceHolds(t, j) \in Int
    BY <1>1 DEF PlaceHolds
  <2>3. Is(m, j) \in Int /\ Is(i, j) \in Int
    BY IsFacts
  <2> QED BY <1>4, <1>5, <1>8, <2>1, <2>2, <2>3
<1> QED BY <1>1, <1>4, <1>9, <1>10, <1>11, <1>12, EndsWith

LEMMA MountDeviceKeeps ==
  ASSUME FInv, NEW t \in Tasks, MountDevice(t)
  PROVE  FInv'
<1>1. At(t, "got") /\ call[t].op = "namei" /\ UNCHANGED <<entries, dirVars, tableVars>>
  BY DEF MountDevice, Got
<1>2. PICK i \in Inodes : i = call[t].inode
  BY <1>1, GotInode
<1>3. PICK p : Base(iput(inode_table, i), t, [Idle EXCEPT !.op = "mount", !.user = call[t].user], p)
  BY <1>2 DEF MountDevice
<1> DEFINE c == [Idle EXCEPT !.op = "mount", !.user = call[t].user]  T == iput(inode_table, i)
<1>4. DOMAIN c = DOMAIN Idle /\ c.old = None /\ c.fd = 0 /\ c.op = "mount"
  BY IdleIs
<1>5. Base(T, t, c, p)
  BY <1>3
<1> HIDE DEF c
<1>6. Alone(t) /\ call[t].old = None /\ call[t].fd = 0
  BY <1>1, GotInode DEF CallOk
<1>7. \A j \in Inodes : CallHolds(call[t], j) = Is(i, j) /\ inode_table[j].count \in Int
                        /\ inode_table[j].count >= Is(i, j) + Is(root[t], j) + Is(pwd[t], j)
  <2>1. \A j \in Inodes : Is(call[t].old, j) = 0 /\ Is(i, j) \in 0..1 /\ Is(s_imount, j) \in 0..1
                          /\ Is(root[t], j) \in 0..1 /\ Is(pwd[t], j) \in 0..1
    BY <1>6, FilesAssumption, IsFacts
  <2> QED BY <1>1, <1>2, <2>1, GotInode
<1>8. Alters(inode_table, T, i, -1)
  <2>1. inode_table[i].count > 0
    BY <1>7, IsFacts
  <2> QED BY <2>1, PutAlters DEF FInv
<1> HIDE DEF T
<1>9. T[root[t]].count > 0 /\ T[pwd[t]].count > 0
  <2> SUFFICES ASSUME NEW b \in {root[t], pwd[t]}
               PROVE  T[b].count > 0
    OBVIOUS
  <2>1. b \in Inodes
    BY PlacesInUse
  <2>2. inode_table[b].count \in Int /\ inode_table[b].count >= Is(i, b) + 1
    <3>1. Is(root[t], b) + Is(pwd[t], b) >= 1
      BY DEF Is
    <3>2. Is(i, b) \in Int /\ Is(root[t], b) \in Int /\ Is(pwd[t], b) \in Int
      BY IsFacts
    <3>3. inode_table[b].count \in Int /\ inode_table[b].count >= Is(i, b) + Is(root[t], b) + Is(pwd[t], b)
      BY <1>7, <2>1
    <3> QED BY <3>1, <3>2, <3>3
  <2> QED BY <1>8, <2>1, <2>2 DEF Alters, Is
<1>10. \A j \in Inodes : /\ T[j].nlinks = inode_table[j].nlinks
                         /\ T[j].count = inode_table[j].count - CallHolds(call[t], j) + Is(c.old, j)
  <2> TAKE j \in Inodes
  <2>1. Is(c.old, j) = 0
    BY <1>4, FilesAssumption, IsFacts
  <2> QED BY <1>7, <1>8, <2>1 DEF Alters, Is
<1>11. c.op # "link" /\ c.op # "open" /\ Sound(T)
  BY <1>4, <1>8 DEF Alters
<1> QED BY <1>1, <1>4, <1>5, <1>6, <1>9, <1>10, <1>11, Begins

LEMMA MountKeeps ==
  ASSUME FInv, NEW t \in Tasks, Mount(t)
  PROVE  FInv'
<1>1. At(t, "got") /\ call[t].op = "mount"
  BY DEF Mount, Got
<1>2. PICK i \in Inodes : i = call[t].inode
  BY <1>1, GotInode
<1>3. Alone(t) /\ call[t].old = None
  BY <1>1, GotInode DEF CallOk
<1>4. CASE Fails(t, iput(inode_table, call[t].inode))
  BY <1>1, <1>3, <1>4, LosesInode
<1>5. CASE /\ s_imount' = i /\ Failed(t) /\ UNCHANGED <<inode_table, entries, root, pwd>>
           /\ inode_table[i].kind = "blk" /\ s_imount = None
  <2>1. \A j \in Inodes : CallHolds(call[t], j) = Is(i, j) /\ inode_table[j].count \in Int
                          /\ inode_table[j].count >= Is(i, j)
    <3>1. \A j \in Inodes : Is(call[t].old, j) = 0 /\ Is(i, j) \in 0..1 /\ Is(s_imount, j) \in 0..1
                            /\ Is(root[t], j) \in 0..1 /\ Is(pwd[t], j) \in 0..1
      BY <1>3, FilesAssumption, IsFacts
    <3> QED BY <1>1, <1>2, <3>1, GotInode
  <2>2. inode_table[i].count > 0
    BY <2>1, IsFacts
  <2>3. Kind[i] = "blk" /\ Device[i] # Device[MountedRoot]
    BY <1>5, <2>2 DEF FInv, Sound, Free, Mounted
  <2>4. DirsOk' /\ LinksExact'
    BY <1>5, DirsSame DEF FInv, LinksExact
  <2>5. PlacesOk'
    BY <1>5, <2>3 DEF FInv, PlacesOk
  <2>6. Sound(inode_table)'
    <3>1. s_imount' # None
      BY <1>5, FilesAssumption
    <3> QED BY <1>5, <3>1 DEF FInv, Sound, Mounted, Tables
  <2>7. \A j \in Inodes : inode_table'[j].count = inode_table[j].count - CallHolds(call[t], j)
                             - PlaceHolds(t, j) + PlaceHolds(t, j)' - MountHolds(j) + MountHolds(j)'
    <3> TAKE j \in Inodes
    <3>1. MountHolds(j)' = Is(i, j) /\ MountHolds(j) = 0
      BY <1>5, FilesAssumption DEF MountHolds, Is
    <3>2. PlaceHolds(t, j)' = PlaceHolds(t, j) /\ PlaceHolds(t, j) \in Int
      BY <1>5 DEF PlaceHolds
    <3>3. Is(i, j) \in Int
      BY IsFacts
    <3> QED BY <1>5, <2>1, <3>1, <3>2, <3>3
  <2>8. \A u \in Tasks \ {t} : root'[u] = root[u] /\ pwd'[u] = pwd[u]
    BY <1>5
  <2> QED BY <1>3, <1>5, <2>4, <2>5, <2>6, <2>7, <2>8, EndsWith
<1> QED BY <1>2, <1>4, <1>5 DEF Mount

LEMMA LinkOldKeeps ==
  ASSUME FInv, NEW t \in Tasks, LinkOld(t)
  PROVE  FInv'
<1>1. At(t, "got") /\ call[t].op = "namei" /\ UNCHANGED <<entries, dirVars, tableVars>>
  BY DEF LinkOld, Got
<1>2. PICK i \in Inodes : i = call[t].inode
  BY <1>1, GotInode
<1>3. PICK p : Base(inode_table, t, [Idle EXCEPT !.op = "link", !.old = i, !.user = call[t].user], p)
  BY <1>2 DEF LinkOld
<1> DEFINE c == [Idle EXCEPT !.op = "link", !.old = i, !.user = call[t].user]
<1>4. DOMAIN c = DOMAIN Idle /\ c.old = i /\ c.fd = 0 /\ c.op = "link"
  BY IdleIs
<1>5. Base(inode_table, t, c, p)
  BY <1>3
<1> HIDE DEF c
<1>6. Alone(t) /\ call[t].old = None /\ call[t].fd = 0 /\ i # None
  BY <1>1, GotInode, FilesAssumption DEF CallOk
<1>7. \A j \in Inodes : inode_table[j].count = inode_table[j].count - CallHolds(call[t], j) + Is(c.old, j)
  <2> TAKE j \in Inodes
  <2>1. CallHolds(call[t], j) = Is(i, j) + Is(call[t].old, j) /\ inode_table[j].count \in Int
    BY <1>1, <1>2, GotInode
  <2>2. Is(call[t].old, j) = 0 /\ Is(i, j) \in Int
    BY <1>6, FilesAssumption, IsFacts
  <2> QED BY <1>4, <2>1, <2>2
<1>8. c.op # "open" /\ Sound(inode_table)
  BY <1>4 DEF FInv
<1> QED BY <1>1, <1>4, <1>5, <1>6, <1>7, <1>8, PlacesInUse, Begins

LEMMA MovedHere ==
  ASSUME FInv, NEW t \in Tasks, InDir(call[t]), NEW name
  PROVE  LET d == MovedTo(t, call[t].dir, name)  T == Moved(inode_table, call[t].dir, d) IN
         /\ d \in Inodes /\ inode_table[d].count > 0 /\ Sound(T)
         /\ \A j \in Inodes : /\ T[j].nlinks = inode_table[j].nlinks
                              /\ T[j].count = inode_table[j].count - Is(call[t].dir, j) + Is(d, j)
<1> PICK b \in Inodes : b = call[t].dir
  BY DirInUse
<1>1. inode_table[b].count > 0
  BY DirInUse
<1> DEFINE d == MovedTo(t, b, name)
<1>2. d \in Inodes /\ inode_table[d].count > 0
  BY <1>1, MovedInode
<1> HIDE DEF d
<1>3. /\ Sound(Moved(inode_table, b, d))
      /\ \A j \in Inodes : /\ Moved(inode_table, b, d)[j].nlinks = inode_table[j].nlinks
                           /\ Moved(inode_table, b, d)[j].count = inode_table[j].count - Is(b, j) + Is(d, j)
  BY <1>1, <1>2, MovedTable DEF FInv, Is
<1> QED BY <1>2, <1>3 DEF d

LEMMA NoOld ==
  ASSUME FInv, NEW t \in Tasks, call[t].at # "idle", call[t].op # "link"
  PROVE  call[t].old = None /\ \A T : NotFound(t, T) <=> Fails(t, T)
<1>1. call[t].old = None
  BY InCall DEF CallOk
<1> QED BY <1>1 DEF NotFound

LEMMA CreateKeeps ==
  ASSUME FInv, NEW t \in Tasks, Create(t)
  PROVE  FInv'
<1> DEFINE c == call[t]
<1>1. InDir(c) /\ c.op # "link" /\ c.at # "idle"
  BY DEF Create, InBase, At, InDir
<1>2. PICK d : d = MovedTo(t, c.dir, c.path[1])
  OBVIOUS
<1>3. PICK T : T = Moved(inode_table, c.dir, d)
  OBVIOUS
<1>4. /\ d \in Inodes /\ inode_table[d].count > 0 /\ Sound(T)
      /\ \A j \in Inodes : /\ T[j].nlinks = inode_table[j].nlinks
                           /\ T[j].count = inode_table[j].count - Is(c.dir, j) + Is(d, j)
  BY <1>1, <1>2, <1>3, MovedHere
<1>5. CASE Fails(t, iput(T, d))
  <2>1. NotFound(t, iput(T, d))
    BY <1>1, <1>5, NoOld
  <2> QED BY <1>1, <1>4, <2>1, LosesDir
<1>6. ASSUME NEW i \in Unused(d), NEW kind \in {"file", "dir", "link"}, Fails(t, iput(GivenBack(T, i, kind), d))
      PROVE  FInv'
  <2> DEFINE G == GivenBack(T, i, kind)
  <2>1. i \in Inodes /\ inode_table[i].count = 0 /\ inode_table[i].nlinks = 0
    BY <1>6 DEF Unused, FInv, Sound
  <2>2. c.dir # i /\ d # i
    BY <1>1, <1>4, <2>1, DirInUse
  <2>3. T[i].count = 0 /\ T[i].nlinks = 0
    BY <1>4, <2>1, <2>2, IsFacts
  <2>4. T[i].kind = Free
    BY <1>4, <2>1, <2>3 DEF Sound
  <2>5. Alters(T, G, i, 0)
    BY <1>4, <2>1, <2>4, GivenBackAlters
  <2>6. NotFound(t, iput(G, d))
    BY <1>1, <1>6, NoOld
  <2> HIDE DEF G
  <2>7. /\ Sound(G)
        /\ \A j \in Inodes : /\ G[j].nlinks = inode_table[j].nlinks
                             /\ G[j].count = inode_table[j].count - Is(c.dir, j) + Is(d, j)
    <3>1. \A j \in Inodes : T[j].count \in Int
      BY <1>4 DEF Sound, Tables
    <3> QED BY <1>4, <2>5, <3>1 DEF Alters
  <2> QED BY <1>1, <1>4, <2>6, <2>7, LosesDir
<1> QED BY <1>2, <1>3, <1>5, <1>6 DEF Create

LEMMA LinkKeeps ==
  ASSUME FInv, NEW t \in Tasks, Link(t)
  PROVE  FInv'
<1> DEFINE c == call[t]
<1>1. InDir(c) /\ c.op = "link" /\ c.at # "idle"
  BY DEF Link, InBase, At, InDir
<1>2. PICK d : d = MovedTo(t, c.dir, c.path[1])
  OBVIOUS
<1>3. PICK T : T = Moved(inode_table, c.dir, d)
  OBVIOUS
<1>4. /\ d \in Inodes /\ inode_table[d].count > 0 /\ Sound(T)
      /\ \A j \in Inodes : /\ T[j].nlinks = inode_table[j].nlinks
                           /\ T[j].count = inode_table[j].count - Is(c.dir, j) + Is(d, j)
  BY <1>1, <1>2, <1>3, MovedHere
<1>5. c.old # None
  BY <1>1, InCall DEF CallOk
<1>6. NotFound(t, iput(T, d))
  BY <1>2, <1>3, <1>5 DEF Link, NotFound, iput2
<1> QED BY <1>1, <1>4, <1>6, LosesDir

LEMMA OpenDirKeeps ==
  ASSUME FInv, NEW t \in Tasks, OpenDir(t)
  PROVE  FInv'
<1> DEFINE c == call[t]
<1>1. InDir(c) /\ c.op = "open" /\ c.at # "idle"
  BY DEF OpenDir, InBase, At, InDir
<1>2. PICK d \in Inodes : d = c.dir
  BY <1>1, DirInUse
<1>3. CallOk(c) /\ Alone(t) /\ c.old = None
  BY <1>1, DirInUse, NoOld
<1>4. \A j \in Inodes : CallHolds(c, j) = Is(d, j) /\ inode_table[j].count \in Int
  <2> TAKE j \in Inodes
  <2>1. CallHolds(c, j) = Is(d, j) + Is(c.old, j) /\ Is(c.old, j) = 0 /\ Is(d, j) \in Int
    BY <1>1, <1>2, <1>3, CallHoldsIs, FilesAssumption, IsFacts
  <2> QED BY <2>1, HeldHere
<1>5. CASE Opened(t, inode_table, d)
  <2>1. \A j \in Inodes : inode_table[j].count = inode_table[j].count - CallHolds(call[t], j) + (IF d = j THEN 1 ELSE 0)
    BY <1>4 DEF Is
  <2>2. Sound(inode_table) /\ \A j \in Inodes : inode_table[j].nlinks = inode_table[j].nlinks
    BY DEF FInv
  <2> QED BY <1>1, <1>3, <1>5, <2>1, <2>2, OpensWell
<1>6. CASE Fails(t, iput(inode_table, d))
  <2>1. NotFound(t, iput(inode_table, d))
    BY <1>1, <1>6, NoOld
  <2>2. Sound(inode_table) /\ \A j \in Inodes : inode_table[j].count = inode_table[j].count - Is(c.dir, j) + Is(d, j)
    BY <1>2, <1>4, IsFacts DEF FInv
  <2> QED BY <1>1, <2>1, <2>2, LosesDir
<1> QED BY <1>2, <1>5, <1>6 DEF OpenDir

LEMMA OpenOldKeeps ==
  ASSUME FInv, NEW t \in Tasks, OpenOld(t)
  PROVE  FInv'
<1> DEFINE c == call[t]
<1>1. InDir(c) /\ c.op = "open" /\ c.at # "idle"
  BY DEF OpenOld, InBase, At, InDir
<1>2. PICK d : d = MovedTo(t, c.dir, c.path[1])
  OBVIOUS
<1>3. PICK T : T = Moved(inode_table, c.dir, d)
  OBVIOUS
<1>4. /\ d \in Inodes /\ inode_table[d].count > 0 /\ Sound(T)
      /\ \A j \in Inodes : /\ T[j].nlinks = inode_table[j].nlinks
                           /\ T[j].count = inode_table[j].count - Is(c.dir, j) + Is(d, j)
  BY <1>1, <1>2, <1>3, MovedHere
<1>5. CASE Enters(t, c, c.path[1])
  BY <1>1, <1>5, EntersWell
<1>6. CASE Fails(t, iput(T, d))
  <2>1. NotFound(t, iput(T, d))
    BY <1>1, <1>6, NoOld
  <2> QED BY <1>1, <1>4, <2>1, LosesDir
<1> QED BY <1>2, <1>3, <1>5, <1>6 DEF OpenOld

LEMMA OpenGotKeeps ==
  ASSUME FInv, NEW t \in Tasks, OpenGot(t)
  PROVE  FInv'
<1>1. At(t, "got") /\ call[t].op = "open" /\ call[t].at # "idle"
  BY DEF OpenGot, Got, At
<1>2. PICK i \in Inodes : i = call[t].inode
  BY <1>1, GotInode
<1>3. Alone(t) /\ call[t].old = None
  BY <1>1, GotInode, NoOld
<1>4. CASE Fails(t, iput(inode_table, call[t].inode))
  BY <1>1, <1>3, <1>4, LosesInode
<1>5. CASE Opened(t, inode_table, i)
  <2>1. \A j \in Inodes : inode_table[j].count = inode_table[j].count - CallHolds(call[t], j) + (IF i = j THEN 1 ELSE 0)
    <3> TAKE j \in Inodes
    <3>1. CallHolds(call[t], j) = Is(i, j) + Is(call[t].old, j) /\ Is(call[t].old, j) = 0 /\ inode_table[j].count \in Int
      BY <1>1, <1>2, <1>3, GotInode, FilesAssumption, IsFacts
    <3> QED BY <3>1 DEF Is
  <2>2. Sound(inode_table) /\ \A j \in Inodes : inode_table[j].nlinks = inode_table[j].nlinks
    BY DEF FInv
  <2> QED BY <1>1, <1>3, <1>5, <2>1, <2>2, OpensWell
<1> QED BY <1>2, <1>4, <1>5 DEF OpenGot

LEMMA VictimKeeps ==
  ASSUME FInv, NEW t \in Tasks, Victim(t)
  PROVE  FInv'
<1> DEFINE c == call[t]  name == c.path[1]  d == MovedTo(t, c.dir, name)  i == Found(t, c.dir, name)
<1>1. InDir(c) /\ c.op = "dir_namei" /\ i # None
  BY DEF Victim, InBase, At, InDir
<1>2. CallOk(c) /\ Alone(t) /\ c.dir \in Inodes /\ inode_table[c.dir].count > 0
  BY <1>1, DirInUse
<1>3. d = c.dir /\ \/ name = ".." /\ i = c.dir
                   \/ name \in DOMAIN entries[c.dir] /\ entries[c.dir][name] = i
  BY <1>1, <1>2, FoundInode
<1>4. Moved(inode_table, c.dir, d) = inode_table
  BY <1>3 DEF Moved
<1> DEFINE e == [c EXCEPT !.at = "victim", !.dir = d, !.inode = i]
<1>5. Goes(t, inode_table, e)
  BY <1>4 DEF Victim
<1>6. /\ DOMAIN e = DOMAIN Idle /\ e.at = "victim" /\ e.dir = c.dir /\ e.inode = i /\ e.path = c.path
      /\ e.old = c.old /\ e.fd = c.fd /\ e.op = c.op
  BY <1>2, <1>3, IdleIs DEF CallOk
<1> HIDE DEF e
<1>7. CallOk(e) /\ InDir(e)
  <2>1. Kind[c.dir] = "dir"
    BY <1>1, <1>2, FoundInode, EntryInode
  <2> QED BY <1>1, <1>2, <1>3, <1>6, <2>1 DEF CallOk, InDir
<1>8. \A j \in Inodes : inode_table[j].count = inode_table[j].count - Is(c.dir, j) + Is(c.dir, j)
  BY HeldHere, IsFacts
<1>9. Sound(inode_table) /\ \A j \in Inodes : inode_table[j].nlinks = inode_table[j].nlinks
  BY DEF FInv
<1> QED BY <1>1, <1>2, <1>5, <1>6, <1>7, <1>8, <1>9, GoesHolding

(* The links of an inode in use may be counted down.                       *)
LEMMA RelinkedTable ==
  ASSUME NEW T, Sound(T), NEW j \in Inodes, T[j].count > 0, NEW n \in Nat
  PROVE  LET U == [T EXCEPT ![j].nlinks = n] IN
         /\ Sound(U)
         /\ \A i \in Inodes : U[i].count = T[i].count /\ U[i].nlinks = IF i = j THEN n ELSE T[i].nlinks
<1> DEFINE U == [T EXCEPT ![j].nlinks = n]
<1>1. U \in Tables
  BY DEF Sound, Tables
<1>2. \A i \in Inodes : /\ U[i].count = T[i].count /\ U[i].nlinks = (IF i = j THEN n ELSE T[i].nlinks)
                        /\ U[i].kind = T[i].kind
  BY DEF Sound, Tables
<1> HIDE DEF U
<1>3. Sound(U)
  BY <1>1, <1>2 DEF Sound, Tables
<1> QED BY <1>2, <1>3 DEF U

(* What sys_unlink and sys_rmdir have found.                               *)
LEMMA VictimInode ==
  ASSUME FInv, NEW t \in Tasks, At(t, "victim")
  PROVE  LET c == call[t] IN
         /\ InDir(c) /\ CallOk(c) /\ Alone(t) /\ c.op # "link" /\ c.dir \in Inodes /\ inode_table[c.dir].count > 0
         /\ c.inode \in Inodes /\ inode_table[c.inode].kind = Kind[c.inode] /\ Kind[c.inode] # Free /\ Mounted(c.inode)
         /\ Device[c.inode] = Device[c.dir] /\ Kind[c.dir] = "dir"
         /\ c.inode # c.dir => /\ c.path[1] \in DOMAIN entries[c.dir] /\ entries[c.dir][c.path[1]] = c.inode
                               /\ inode_table[c.inode].nlinks > 0
<1> DEFINE c == call[t]
<1>1. InDir(c)
  BY DEF At, InDir
<1>2. /\ CallOk(c) /\ Alone(t) /\ c.dir \in Inodes /\ inode_table[c.dir].count > 0
      /\ inode_table[c.dir].kind # Free /\ Mounted(c.dir)
  BY <1>1, DirInUse
<1>3. c.op # "link" /\ Kind[c.dir] = "dir"
  BY <1>2 DEF CallOk, At
<1>4. CASE c.inode = c.dir
  <2>1. inode_table[c.dir].kind = Kind[c.dir]
    BY <1>2 DEF FInv, Sound
  <2> QED BY <1>1, <1>2, <1>3, <1>4, <2>1
<1>5. CASE c.inode # c.dir
  <2>1. c.path[1] \in DOMAIN entries[c.dir] /\ entries[c.dir][c.path[1]] = c.inode
    BY <1>2, <1>5 DEF CallOk, At
  <2> QED BY <1>1, <1>2, <1>3, <2>1, FoundInUse
<1> QED BY <1>4, <1>5

(* One entry is taken away.                                                *)
LEMMA EntryTaken ==
  ASSUME DirsOk, NEW p \in Inodes, NEW n \in DOMAIN entries[p], NEW i,
         \A d \in Inodes : \A m : m \in DOMAIN entries'[d] <=> m \in DOMAIN entries[d] /\ <<d, m>> # <<p, n>>,
         \A d \in Inodes : \A m \in DOMAIN entries'[d] : entries'[d][m] = entries[d][m]
  PROVE  /\ Entries(i)' = Entries(i) \ {<<p, n>>}
         /\ Cardinality(Entries(i))' = Cardinality(Entries(i)) - Is(entries[p][n], i)
<1> DEFINE A == Entries(i)  B == Entries(i)'  x == <<p, n>>
<1>1. IsFiniteSet(A) /\ Cardinality(A) \in Nat
  BY EntriesFinite
<1>2. B = A \ {x}
  BY DEF Entries
<1>3. x \in A <=> entries[p][n] = i
  BY EntriesAre
<1>4. Cardinality(Entries(i))' = Cardinality(B)
  OBVIOUS
<1> HIDE DEF A, B, x
<1>5. Cardinality(B) = IF x \in A THEN Cardinality(A) - 1 ELSE Cardinality(A)
  BY <1>1, <1>2, FS_RemoveElement
<1>6. Cardinality(B) = Cardinality(A) - Is(entries[p][n], i)
  BY <1>1, <1>3, <1>5 DEF Is
<1>7. Entries(i)' = Entries(i) \ {<<p, n>>}
  BY <1>2 DEF A, B, x
<1> QED BY <1>4, <1>6, <1>7 DEF A

(* A name of what is no directory can be taken from a directory.           *)
LEMMA NameTaken ==
  ASSUME DirsOk, NEW p \in Inodes, NEW n \in DOMAIN entries[p], Kind[entries[p][n]] # "dir",
         entries' = [entries EXCEPT ![p] = Without(@, n)]
  PROVE  /\ DirsOk'
         /\ \A i : Cardinality(Entries(i))' = Cardinality(Entries(i)) - Is(entries[p][n], i)
<1> DEFINE v == entries[p][n]
<1>1. n \in DOMAIN Content[p] /\ v = Content[p][n] /\ Kind[p] = "dir"
  <2>1. n \in DOMAIN Content[p] /\ v = Content[p][n]
    BY DEF DirsOk
  <2> QED BY <2>1, TreeAssumption
<1>2. n \notin Dots
  <2>1. Kind[Content[p]["."]] = "dir" /\ Kind[Content[p][".."]] = "dir"
    BY <1>1, TreeAssumption
  <2> QED BY <1>1, <2>1 DEF Dots
<1>3. /\ DOMAIN entries' = Inodes
      /\ \A d \in Inodes : \A m : m \in DOMAIN entries'[d] <=> m \in DOMAIN entries[d] /\ <<d, m>> # <<p, n>>
      /\ \A d \in Inodes : \A m \in DOMAIN entries'[d] : entries'[d][m] = entries[d][m]
  BY DEF DirsOk, Without
<1>4. ASSUME NEW i
      PROVE  /\ Entries(i)' = Entries(i) \ {<<p, n>>}
             /\ Cardinality(Entries(i))' = Cardinality(Entries(i)) - Is(v, i)
  BY <1>3, EntryTaken
<1>5. ASSUME NEW d \in Inodes, Kind[d] = "dir"
      PROVE  /\ Dots \subseteq DOMAIN entries'[d] \/ (DOMAIN entries'[d] = {} /\ Entries(d)' = {})
             /\ Content[d][".."] = d => Dots \subseteq DOMAIN entries'[d]
             /\ DOMAIN entries[d] # {} <=> DOMAIN entries'[d] # {}
  <2>1. Dots \subseteq DOMAIN entries[d] => Dots \subseteq DOMAIN entries'[d] /\ DOMAIN entries'[d] # {}
    BY <1>2, <1>3 DEF Dots
  <2>2. Entries(d)' \subseteq Entries(d)
    BY <1>4
  <2>3. Dots \subseteq DOMAIN entries[d] \/ (DOMAIN entries[d] = {} /\ Entries(d) = {})
    BY <1>5 DEF DirsOk
  <2>4. Content[d][".."] = d => Dots \subseteq DOMAIN entries[d]
    BY <1>5 DEF DirsOk
  <2>5. DOMAIN entries[d] = {} => DOMAIN entries'[d] = {}
    BY <1>3
  <2>6. Dots # {}
    BY DEF Dots
  <2> QED BY <2>1, <2>2, <2>3, <2>4, <2>5, <2>6
<1>6. ASSUME NEW d \in Inodes, Kind[d] = "dir", NEW q \in Inodes, NEW m \in DOMAIN Content[q] \ Dots, Content[q][m] = d
      PROVE  m \in DOMAIN entries'[q] <=> DOMAIN entries'[d] # {}
  <2>1. <<q, m>> # <<p, n>>
    BY <1>1, <1>6
  <2>2. m \in DOMAIN entries[q] <=> DOMAIN entries[d] # {}
    BY <1>6 DEF DirsOk
  <2> QED BY <1>3, <1>5, <1>6, <2>1, <2>2
<1>7. \A d \in Inodes : \A m \in DOMAIN entries'[d] : m \in DOMAIN Content[d] /\ entries'[d][m] = Content[d][m]
  BY <1>3 DEF DirsOk
<1>8. DirsOk'
  BY <1>3, <1>5, <1>6, <1>7 DEF DirsOk
<1> QED BY <1>4, <1>8

LEMMA UnlinkKeeps ==
  ASSUME FInv, NEW t \in Tasks, Unlink(t)
  PROVE  FInv'
<1> DEFINE c == call[t]
<1>1. At(t, "victim") /\ c.at # "idle"
  BY DEF Unlink, At
<1>2. /\ InDir(c) /\ CallOk(c) /\ Alone(t) /\ c.op # "link" /\ c.inode \in Inodes
      /\ inode_table[c.inode].kind # Free /\ Mounted(c.inode)
  BY <1>1, VictimInode
<1>3. PICK p \in Inodes : p = c.dir /\ inode_table[p].count > 0
  BY <1>1, VictimInode
<1>4. PICK i \in Inodes : i = Crossed(c.inode) /\ inode_table[i].kind # Free /\ Mounted(i)
  BY <1>2, CrossedInode
<1> DEFINE T == Get(inode_table, i)  U == iput(T, p)
<1>5. /\ Alters(inode_table, T, i, 1) /\ T[p].count > 0 /\ Sound(U)
      /\ \A j \in Inodes : /\ U[j].nlinks = inode_table[j].nlinks
                           /\ U[j].count = inode_table[j].count - Is(c.dir, j) + Is(i, j)
  BY <1>2, <1>3, <1>4, TakenTable
<1>6. CASE Fails(t, iput2(T, p, i))
  <2>1. NotFound(t, iput(U, i))
    BY <1>1, <1>2, <1>6, NoOld DEF iput2
  <2> HIDE DEF U
  <2> QED BY <1>2, <1>5, <2>1, LosesDir
<1> DEFINE n == c.path[1]  l == IF T[i].nlinks = 0 THEN 0 ELSE T[i].nlinks - 1
           V == [T EXCEPT ![i].nlinks = l]  W == iput2(V, i, p)
<1>7. CASE T[i].kind # "dir" /\ Gone(t, W, [entries EXCEPT ![p] = Without(@, n)])
  <2>1. /\ inode_table' = W /\ entries' = [entries EXCEPT ![p] = Without(@, n)] /\ Failed(t)
        /\ root' = root /\ pwd' = pwd /\ s_imount' = s_imount
    BY <1>7 DEF Gone, dirVars
  <2>2. T[i].count = inode_table[i].count + 1 /\ inode_table[i].count >= 0 /\ inode_table[i].count \in Int
    BY <1>5, HeldHere DEF Alters
  <2>3. T[i].kind = Kind[i] /\ Kind[i] # "dir"
    BY <1>5, <1>7, <2>2, InUseInode DEF Alters
  <2>4. i = c.inode
    <3>1. Kind[MountedRoot] = "dir"
      BY TreeAssumption
    <3> QED BY <1>2, <1>4, <2>3, <3>1, CrossedInode
  <2>5. /\ n \in DOMAIN entries[p] /\ entries[p][n] = i /\ inode_table[i].nlinks > 0
    BY <1>1, <1>3, <2>3, <2>4, VictimInode
  <2>6. T[i].nlinks = inode_table[i].nlinks /\ T[i].nlinks \in Int /\ l = T[i].nlinks - 1 /\ l \in Nat
    BY <1>5, <2>5 DEF Alters, Sound, Tables
  <2> HIDE DEF T, U, l
  <2>7. /\ Sound(V)
        /\ \A j \in Inodes : V[j].count = T[j].count /\ V[j].nlinks = IF j = i THEN l ELSE T[j].nlinks
    <3>1. Sound(T) /\ T[i].count > 0 /\ l \in Nat
      BY <1>5, <2>2, <2>6 DEF Alters
    <3> QED BY <3>1, RelinkedTable
  <2> HIDE DEF V
  <2>8. /\ Sound(W)
        /\ \A j \in Inodes : /\ W[j].count = inode_table[j].count - Is(p, j)
                             /\ W[j].nlinks = inode_table[j].nlinks - Is(i, j)
    <3> DEFINE X == iput(V, i)
    <3>1. V[i].count > 0
      BY <2>2, <2>7
    <3>2. Alters(V, X, i, -1)
      BY <2>7, <3>1, PutAlters
    <3> HIDE DEF X
    <3>3. \A j \in Inodes : /\ X[j].count = inode_table[j].count
                            /\ X[j].nlinks = inode_table[j].nlinks - Is(i, j)
      <4> TAKE j \in Inodes
      <4>1. inode_table[j].count \in Int /\ inode_table[j].nlinks \in Int
        BY DEF FInv, Sound, Tables
      <4> QED BY <1>5, <2>6, <2>7, <3>2, <4>1 DEF Alters, Is
    <3>4. Alters(X, iput(X, p), p, -1)
      BY <1>3, <3>2, <3>3, PutAlters DEF Alters
    <3>5. W = iput(X, p)
      BY DEF iput2, X
    <3>6. \A j \in Inodes : inode_table[j].count \in Int
      BY HeldHere
    <3> QED BY <3>3, <3>4, <3>5, <3>6 DEF Alters, Is
  <2> HIDE DEF W
  <2>9. DirsOk' /\ \A j : Cardinality(Entries(j))' = Cardinality(Entries(j)) - Is(i, j)
    BY <2>1, <2>3, <2>5, NameTaken DEF FInv
  <2>10. LinksExact'
    BY <2>1, <2>8, <2>9 DEF LinksExact, FInv
  <2>11. PlacesOk' /\ Sound(inode_table)'
    BY <2>1, <2>8 DEF FInv, Sound, Mounted, Tables, PlacesOk
  <2>12. \A j \in Inodes : inode_table'[j].count = inode_table[j].count - CallHolds(call[t], j)
                             - PlaceHolds(t, j) + PlaceHolds(t, j)' - MountHolds(j) + MountHolds(j)'
    <3> TAKE j \in Inodes
    <3>1. c.old = None
      BY <1>1, <1>2, NoOld
    <3>2. CallHolds(c, j) = Is(p, j) + Is(c.old, j) /\ Is(c.old, j) = 0 /\ Is(p, j) \in Int
      BY <1>2, <1>3, <3>1, CallHoldsIs, FilesAssumption, IsFacts
    <3>3. /\ PlaceHolds(t, j)' = PlaceHolds(t, j) /\ PlaceHolds(t, j) \in Int
          /\ MountHolds(j)' = MountHolds(j) /\ MountHolds(j) \in Int
      BY <2>1 DEF PlaceHolds, MountHolds
    <3>4. inode_table[j].count \in Int
      BY HeldHere
    <3> QED BY <2>1, <2>8, <3>2, <3>3, <3>4
  <2> QED BY <1>2, <2>1, <2>9, <2>10, <2>11, <2>12, EndsWith
<1> QED BY <1>3, <1>4, <1>6, <1>7 DEF Unlink

(* A directory with nothing named in it is taken from its parent.  All     *)
(* that leads to it is its name and its own "."; it leads to its parent.   *)
LEMMA DirTaken ==
  ASSUME DirsOk, NEW p \in Inodes, NEW i \in Inodes, p # i, NEW n \in DOMAIN entries[p], n \notin Dots,
         entries[p][n] = i, Kind[i] = "dir", DOMAIN entries[i] = {".", ".."},
         entries' = [entries EXCEPT ![p] = Without(@, n), ![i] = Empty]
  PROVE  /\ DirsOk'
         /\ \A j \in Inodes : Cardinality(Entries(j))' = IF j = i THEN 0 ELSE Cardinality(Entries(j)) - Is(p, j)
<1>1. n \in DOMAIN Content[p] /\ Content[p][n] = i /\ Content[i][".."] = p /\ Content[i]["."] = i
      /\ Kind[p] = "dir"
  <2>1. n \in DOMAIN Content[p] /\ Content[p][n] = i
    BY DEF DirsOk
  <2> QED BY <2>1, TreeAssumption
<1>2. entries[i]["."] = i /\ entries[i][".."] = p
  BY <1>1 DEF DirsOk
<1>3. \A q \in Inodes : \A m \in DOMAIN Content[q] \ Dots : Content[q][m] = i => q = p /\ m = n
  <2> TAKE q \in Inodes
  <2> TAKE m \in DOMAIN Content[q] \ Dots
  <2> HAVE Content[q][m] = i
  <2>1. q = p
    <3>1. Content[i][".."] = q
      BY TreeAssumption
    <3> QED BY <1>1, <3>1
  <2>2. m = n
    <3>1. \A k \in DOMAIN Content[p] \ (Dots \cup {n}) : Content[p][k] # i
      BY <1>1, TreeAssumption
    <3> QED BY <2>1, <3>1
  <2> QED BY <2>1, <2>2
<1>4. /\ DOMAIN entries' = Inodes /\ DOMAIN entries'[i] = {} /\ DOMAIN entries'[p] = DOMAIN entries[p] \ {n}
      /\ \A d \in Inodes \ {i, p} : entries'[d] = entries[d]
      /\ \A d \in Inodes : \A m \in DOMAIN entries'[d] : m \in DOMAIN entries[d] /\ entries'[d][m] = entries[d][m]
  <2>1. DOMAIN Empty = {}
    BY DEF Empty
  <2>2. DOMAIN entries = Inodes
    BY DEF DirsOk
  <2>3. DOMAIN entries' = Inodes /\ entries'[i] = Empty /\ entries'[p] = Without(entries[p], n)
        /\ \A d \in Inodes \ {i, p} : entries'[d] = entries[d]
    BY <2>2
  <2>4. DOMAIN entries'[p] = DOMAIN entries[p] \ {n} /\ \A m \in DOMAIN entries'[p] : entries'[p][m] = entries[p][m]
    BY <2>3 DEF Without
  <2>5. DOMAIN entries'[i] = {}
    BY <2>1, <2>3
  <2> QED BY <2>3, <2>4, <2>5
<1>5. Entries(i) \subseteq {<<p, n>>, <<i, ".">>}
  <2> SUFFICES ASSUME NEW d \in Inodes, NEW m \in DOMAIN entries[d], entries[d][m] = i
               PROVE  (d = p /\ m = n) \/ (d = i /\ m = ".")
    BY DEF Entries
  <2>1. m \in DOMAIN Content[d] /\ Content[d][m] = i
    BY DEF DirsOk
  <2>2. Kind[d] = "dir"
    BY <2>1, TreeAssumption
  <2>3. CASE m = "."
    <3>1. Content[d]["."] = d
      BY <2>2, TreeAssumption
    <3> QED BY <2>1, <2>3, <3>1
  <2>4. CASE m = ".."
    <3>1. d # i
      BY <1>1, <2>1, <2>4
    <3>2. \E k \in DOMAIN Content[i] \ Dots : Content[i][k] = d
      BY <2>1, <2>2, <2>4, <3>1, TreeAssumption
    <3>3. PICK k \in DOMAIN Content[i] \ Dots : Content[i][k] = d
      BY <3>2
    <3>4. k \in DOMAIN entries[i]
      BY <2>2, <3>3 DEF DirsOk
    <3> QED BY <3>3, <3>4 DEF Dots
  <2>5. CASE m \notin Dots
    BY <1>3, <2>1, <2>5
  <2> QED BY <2>3, <2>4, <2>5 DEF Dots
<1>6. Entries(i)' = {}
  <2>1. Entries(i)' \subseteq Entries(i)
    BY <1>4 DEF Entries
  <2>2. <<p, n>> \notin Entries(i)' /\ <<i, ".">> \notin Entries(i)'
    BY <1>4 DEF Entries
  <2> QED BY <1>5, <2>1, <2>2
<1>7. \A j \in Inodes \ {i} : Entries(j)' = Entries(j) \ {<<i, "..">>}
  <2> TAKE j \in Inodes \ {i}
  <2>1. ASSUME NEW d \in Inodes, NEW m
        PROVE  <<d, m>> \in Entries(j)' <=> <<d, m>> \in Entries(j) /\ <<d, m>> # <<i, "..">>
    <3>1. <<d, m>> \in Entries(j) <=> m \in DOMAIN entries[d] /\ entries[d][m] = j
      BY EntriesAre
    <3>2. <<d, m>> \in Entries(j)' <=> m \in DOMAIN entries'[d] /\ entries'[d][m] = j
      BY DEF Entries
    <3>3. CASE d = i
      BY <1>2, <1>4, <3>1, <3>2, <3>3
    <3>4. CASE d = p
      BY <1>4, <3>1, <3>2, <3>4
    <3>5. CASE d # i /\ d # p
      BY <1>4, <3>1, <3>2, <3>5
    <3> QED BY <3>3, <3>4, <3>5
  <2>2. \A x \in Entries(j) \cup Entries(j)' : \E d \in Inodes : \E m : x = <<d, m>>
    BY DEF Entries
  <2> QED BY <2>1, <2>2
<1>8. \A j \in Inodes : Cardinality(Entries(j))' = IF j = i THEN 0 ELSE Cardinality(Entries(j)) - Is(p, j)
  <2> TAKE j \in Inodes
  <2>1. CASE j = i
    <3>1. Cardinality(Entries(j)') = 0
      BY <1>6, <2>1, FS_EmptySet
    <3> QED BY <2>1, <3>1
  <2>2. CASE j # i
    <3> DEFINE A == Entries(j)  B == Entries(j)'  x == <<i, "..">>
    <3>1. IsFiniteSet(A) /\ Cardinality(A) \in Nat
      BY EntriesFinite
    <3>2. B = A \ {x}
      BY <1>7, <2>2
    <3>3. x \in A <=> p = j
      <4>1. ".." \in DOMAIN entries[i]
        OBVIOUS
      <4> QED BY <1>2, <4>1, EntriesAre
    <3>4. Cardinality(Entries(j))' = Cardinality(B)
      OBVIOUS
    <3> HIDE DEF A, B, x
    <3>5. Cardinality(B) = IF x \in A THEN Cardinality(A) - 1 ELSE Cardinality(A)
      BY <3>1, <3>2, FS_RemoveElement
    <3>6. Cardinality(B) = Cardinality(A) - Is(p, j)
      BY <3>1, <3>3, <3>5 DEF Is
    <3> QED BY <2>2, <3>4, <3>6 DEF A
  <2> QED BY <2>1, <2>2
<1>9. Dots \subseteq DOMAIN entries[p] /\ Dots \subseteq DOMAIN entries'[p] /\ DOMAIN entries'[p] # {}
  BY <1>1, <1>4 DEF DirsOk, Dots
<1>10. ASSUME NEW d \in Inodes, Kind[d] = "dir"
       PROVE  /\ Dots \subseteq DOMAIN entries'[d] \/ (DOMAIN entries'[d] = {} /\ Entries(d)' = {})
              /\ Content[d][".."] = d => Dots \subseteq DOMAIN entries'[d]
              /\ d # i => (DOMAIN entries[d] # {} <=> DOMAIN entries'[d] # {})
  <2>1. CASE d = i
    BY <1>1, <1>4, <1>6, <2>1
  <2>2. CASE d = p
    BY <1>9, <2>2
  <2>3. CASE d # i /\ d # p
    <3>1. entries'[d] = entries[d] /\ Entries(d)' \subseteq Entries(d)
      BY <1>4, <1>7, <2>3
    <3>2. Dots \subseteq DOMAIN entries[d] \/ (DOMAIN entries[d] = {} /\ Entries(d) = {})
      BY <1>10 DEF DirsOk
    <3>3. Content[d][".."] = d => Dots \subseteq DOMAIN entries[d]
      BY <1>10 DEF DirsOk
    <3> QED BY <3>1, <3>2, <3>3
  <2> QED BY <2>1, <2>2, <2>3
<1>11. ASSUME NEW d \in Inodes, Kind[d] = "dir", NEW q \in Inodes, NEW m \in DOMAIN Content[q] \ Dots, Content[q][m] = d
       PROVE  m \in DOMAIN entries'[q] <=> DOMAIN entries'[d] # {}
  <2>1. m \in DOMAIN entries[q] <=> DOMAIN entries[d] # {}
    BY <1>11 DEF DirsOk
  <2>2. CASE d = i
    BY <1>3, <1>4, <1>11, <2>2
  <2>3. CASE d # i /\ q = i
    <3>1. m \notin DOMAIN entries[q]
      BY <2>3 DEF Dots
    <3> QED BY <1>4, <1>10, <1>11, <2>1, <2>3, <3>1
  <2>4. CASE d # i /\ q = p
    <3>1. m # n
      BY <1>1, <1>11, <2>4
    <3> QED BY <1>4, <1>10, <1>11, <2>1, <2>4, <3>1
  <2>5. CASE d # i /\ q # i /\ q # p
    BY <1>4, <1>10, <1>11, <2>1, <2>5
  <2> QED BY <2>2, <2>3, <2>4, <2>5
<1>12. \A d \in Inodes : \A m \in DOMAIN entries'[d] : m \in DOMAIN Content[d] /\ entries'[d][m] = Content[d][m]
  BY <1>4 DEF DirsOk
<1>13. DirsOk'
  BY <1>4, <1>10, <1>11, <1>12 DEF DirsOk
<1> QED BY <1>8, <1>13

LEMMA RmdirKeeps ==
  ASSUME FInv, NEW t \in Tasks, Rmdir(t)
  PROVE  FInv'
<1> DEFINE c == call[t]  n == c.path[1]
<1>1. At(t, "victim") /\ c.at # "idle"
  BY DEF Rmdir, At
<1>2. /\ InDir(c) /\ CallOk(c) /\ Alone(t) /\ c.op # "link" /\ c.inode \in Inodes
      /\ inode_table[c.inode].kind # Free /\ Mounted(c.inode) /\ Device[c.inode] = Device[c.dir]
  BY <1>1, VictimInode
<1>3. PICK p \in Inodes : p = c.dir /\ inode_table[p].count > 0 /\ Kind[p] = "dir"
  BY <1>1, VictimInode
<1>4. PICK i \in Inodes : i = Crossed(c.inode) /\ inode_table[i].kind # Free /\ Mounted(i)
  BY <1>2, CrossedInode
<1> DEFINE T == Get(inode_table, i)  V == [T EXCEPT ![i].nlinks = 0]
           X == Unparented(V, p)  W == iput2(X, p, i)
<1>5. Alters(inode_table, T, i, 1) /\ T[p].count > 0
  BY <1>2, <1>3, <1>4, TakenTable
<1>6. /\ Device[i] = Device[p] /\ i # p /\ T[i].kind = "dir" /\ DOMAIN entries[i] = {".", ".."}
      /\ Gone(t, W, [entries EXCEPT ![p] = Without(@, n), ![i] = Empty])
  BY <1>3, <1>4 DEF Rmdir
<1>7. /\ inode_table' = W /\ entries' = [entries EXCEPT ![p] = Without(@, n), ![i] = Empty] /\ Failed(t)
      /\ root' = root /\ pwd' = pwd /\ s_imount' = s_imount
  BY <1>6 DEF Gone, dirVars
<1>8. /\ T[i].count > 0 /\ Sound(T) /\ \A j \in Inodes : inode_table[j].count \in Int /\ inode_table[j].nlinks \in Int
  <2>1. inode_table[i].count >= 0 /\ inode_table[i].count \in Int
    BY HeldHere
  <2>2. T[i].count = inode_table[i].count + 1
    BY <1>5 DEF Alters
  <2>3. \A j \in Inodes : inode_table[j].count \in Int /\ inode_table[j].nlinks \in Int
    BY DEF FInv, Sound, Tables
  <2> QED BY <1>5, <2>1, <2>2, <2>3 DEF Alters
<1>9. Kind[i] = "dir"
  BY <1>6, <1>8, InUseInode
<1>10. i = c.inode
  BY <1>2, <1>3, <1>4, <1>6, CrossedInode DEF FInv, PlacesOk, Mounted
<1>11. n \in DOMAIN entries[p] /\ entries[p][n] = i
  BY <1>1, <1>3, <1>6, <1>10, VictimInode
<1>12. n \notin Dots
  <2>1. n \in DOMAIN Content[p] /\ Content[p][n] = i
    BY <1>11 DEF FInv, DirsOk
  <2>2. CASE n = "."
    BY <1>3, <1>6, <2>1, <2>2, TreeAssumption
  <2>3. CASE n = ".."
    <3>1. \E k \in DOMAIN Content[i] \ Dots : Content[i][k] = p
      BY <1>3, <1>6, <2>1, <2>3, TreeAssumption
    <3>2. PICK k \in DOMAIN Content[i] \ Dots : Content[i][k] = p
      BY <3>1
    <3>3. k \in DOMAIN entries[i]
      BY <1>3, <1>11, <3>2 DEF FInv, DirsOk
    <3> QED BY <1>6, <3>2, <3>3 DEF Dots
  <2> QED BY <2>2, <2>3 DEF Dots
<1>13. DirsOk' /\ \A j \in Inodes : Cardinality(Entries(j))' = IF j = i THEN 0 ELSE Cardinality(Entries(j)) - Is(p, j)
  BY <1>6, <1>7, <1>9, <1>11, <1>12, DirTaken DEF FInv
<1>14. inode_table[p].nlinks > 0
  <2>1. Content[i][".."] = p
    BY <1>9, <1>11, <1>12, TreeAssumption DEF FInv, DirsOk
  <2>2. ".." \in DOMAIN entries[i] /\ entries[i][".."] = p
    BY <1>6, <2>1 DEF FInv, DirsOk
  <2> QED BY <2>2, EntryInode
<1> HIDE DEF T
<1>15. /\ Sound(V)
       /\ \A j \in Inodes : V[j].count = T[j].count /\ V[j].nlinks = IF j = i THEN 0 ELSE T[j].nlinks
  BY <1>8, RelinkedTable
<1> HIDE DEF V
<1>16. /\ Sound(X)
       /\ \A j \in Inodes : X[j].count = T[j].count /\ X[j].nlinks = IF j = p THEN V[p].nlinks - 1 ELSE V[j].nlinks
  <2>1. V[p].nlinks = inode_table[p].nlinks /\ V[p].count > 0
    BY <1>5, <1>6, <1>15 DEF Alters
  <2>2. PICK k \in Nat : k = V[p].nlinks - 1
    BY <1>8, <1>14, <2>1
  <2> DEFINE Z == [V EXCEPT ![p].nlinks = k]
  <2>3. X = Z
    BY <2>2 DEF Unparented
  <2>4. /\ Sound(Z)
        /\ \A j \in Inodes : Z[j].count = V[j].count /\ Z[j].nlinks = IF j = p THEN k ELSE V[j].nlinks
    BY <1>15, <2>1, RelinkedTable
  <2> HIDE DEF X, Z
  <2> QED BY <1>15, <2>2, <2>3, <2>4
<1> HIDE DEF X
<1>17. /\ Sound(W)
       /\ \A j \in Inodes : /\ W[j].count = inode_table[j].count - Is(p, j)
                            /\ W[j].nlinks = IF j = i THEN 0 ELSE inode_table[j].nlinks - Is(p, j)
  <2> DEFINE Y == iput(X, p)
  <2>1. Alters(X, Y, p, -1)
    BY <1>5, <1>16, PutAlters
  <2> HIDE DEF Y
  <2>2. Y[i].count > 0
    BY <1>6, <1>8, <1>16, <2>1 DEF Alters, Sound, Tables
  <2>3. Alters(Y, iput(Y, i), i, -1)
    BY <2>1, <2>2, PutAlters DEF Alters
  <2>4. W = iput(Y, i)
    BY DEF iput2, Y
  <2>5. \A j \in Inodes : /\ W[j].count = inode_table[j].count - Is(p, j)
                          /\ W[j].nlinks = IF j = i THEN 0 ELSE inode_table[j].nlinks - Is(p, j)
    BY <1>5, <1>6, <1>8, <1>15, <1>16, <2>1, <2>3, <2>4 DEF Alters, Is
  <2> QED BY <2>3, <2>4, <2>5 DEF Alters
<1> HIDE DEF W
<1>18. LinksExact'
  BY <1>7, <1>13, <1>17 DEF LinksExact, FInv
<1>19. PlacesOk' /\ Sound(inode_table)'
  BY <1>7, <1>17 DEF FInv, Sound, Mounted, Tables, PlacesOk
<1>20. \A j \in Inodes : inode_table'[j].count = inode_table[j].count - CallHolds(call[t], j)
                             - PlaceHolds(t, j) + PlaceHolds(t, j)' - MountHolds(j) + MountHolds(j)'
  <2> TAKE j \in Inodes
  <2>1. c.old = None
    BY <1>1, <1>2, NoOld
  <2>2. CallHolds(c, j) = Is(p, j) + Is(c.old, j) /\ Is(c.old, j) = 0 /\ Is(p, j) \in Int
    BY <1>2, <1>3, <2>1, CallHoldsIs, FilesAssumption, IsFacts
  <2>3. /\ PlaceHolds(t, j)' = PlaceHolds(t, j) /\ PlaceHolds(t, j) \in Int
        /\ MountHolds(j)' = MountHolds(j) /\ MountHolds(j) \in Int
    BY <1>7 DEF PlaceHolds, MountHolds
  <2> QED BY <1>7, <1>8, <1>17, <2>2, <2>3
<1>21. \A u \in Tasks \ {t} : root'[u] = root[u] /\ pwd'[u] = pwd[u]
  BY <1>7
<1> QED BY <1>2, <1>7, <1>13, <1>18, <1>19, <1>20, <1>21, EndsWith

-----------------------------------------------------------------------------
(* Descriptors.  The first that is free is one: a set of numbers has a     *)
(* least, for the intervals below them are ordered as sets.                *)
LEMMA MinIn ==
  ASSUME NEW n \in Nat, NEW S, S \subseteq 1..n, S # {}
  PROVE  Min(S) \in S
<1> DEFINE Below == {1..x : x \in S}
           R == StrictSubsetOrdering(1..n)
<1>1. Below \subseteq FiniteSubsetsOf(1..n) /\ Below # {}
  <2>1. ASSUME NEW x \in S PROVE IsFiniteSet(1..x) /\ 1..x \subseteq 1..n
    <3>1. 1 \in Int /\ x \in Int /\ x <= n
      OBVIOUS
    <3> QED BY <3>1, FS_Interval
  <2> QED BY <2>1 DEF FiniteSubsetsOf
<1>2. PICK B \in Below : \A C \in Below : <<C, B>> \notin R
  <2> HIDE DEF R, Below
  <2>1. IsWellFoundedOn(R, FiniteSubsetsOf(1..n))
    BY FS_StrictSubsetOrderingWellFounded DEF R
  <2> QED BY <1>1, <2>1, WFMin
<1>3. PICK x \in S : B = 1..x
  BY <1>2
<1>4. \A y \in S : x <= y
  <2> SUFFICES ASSUME NEW y \in S, y < x PROVE FALSE
    OBVIOUS
  <2>1. 1..y \subseteq 1..x /\ x \in 1..x /\ x \notin 1..y /\ 1..x \subseteq 1..n
    OBVIOUS
  <2>2. <<1..y, B>> \in R
    BY <2>1, <1>3 DEF StrictSubsetOrdering
  <2> QED BY <2>2, <1>2
<1> QED BY <1>4 DEF Min

(* A task that makes a call is in none, so no file is being opened.        *)
LEMMA NoneOpening ==
  ASSUME FInv, ~Overlap, NEW t \in Tasks, MayRun(t)
  PROVE  /\ call[t] = Idle /\ Alone(t)
         /\ \A f \in FileNrs : /\ ~Opening(f) /\ (file_table[f].inode = None <=> file_table[f].count = 0)
                               /\ file_table[f].count # 0 => file_table[f].inode \in Inodes
<1>1. call[t] = Idle /\ Alone(t)
  BY NobodyElse DEF MayRun, FInv
<1>2. \A f \in FileNrs : ~Opening(f)
  BY <1>1, IdleIs, OpeningIs DEF FInv
<1> QED BY <1>1, <1>2 DEF FInv, FilesOk

LEMMA FirstFree ==
  ASSUME FInv, NEW t \in Tasks, NEW S, S \subseteq FreeFds(t), S # {}
  PROVE  Min(S) \in S /\ Min(S) \in Fds /\ filp[t][Min(S)] = 0
<1>1. S \subseteq 1..NR_OPEN /\ NR_OPEN \in Nat
  BY FilesAssumption DEF FreeFds, Fds
<1>2. Min(S) \in S
  BY <1>1, MinIn
<1> QED BY <1>2 DEF FreeFds

LEMMA OpenKeeps ==
  ASSUME FInv, ~Overlap, NEW t \in Tasks, Open(t)
  PROVE  FInv'
<1>1. call[t] = Idle /\ Alone(t) /\ \A g \in FileNrs : ~Opening(g)
  BY NoneOpening DEF Open
<1>2. PICK fd \in Fds : fd = Min(FreeFds(t)) /\ filp[t][fd] = 0
  BY FirstFree DEF Open
<1>3. PICK f \in FileNrs : f = Min(FreeFiles) /\ file_table[f].count = 0
  <2>1. FreeFiles \subseteq 1..NR_FILE /\ FreeFiles # {} /\ NR_FILE \in Nat
    BY FilesAssumption DEF Open, FreeFiles, FileNrs
  <2>2. Min(FreeFiles) \in FreeFiles
    BY <2>1, MinIn
  <2> QED BY <2>2 DEF FreeFiles
<1> DEFINE c == [Idle EXCEPT !.op = "open", !.fd = fd]
<1>4. /\ filp' = [filp EXCEPT ![t][fd] = f] /\ file_table' = [file_table EXCEPT ![f].count = 1]
      /\ entries' = entries /\ root' = root /\ pwd' = pwd /\ s_imount' = s_imount
      /\ \E p \in Paths : Base(inode_table, t, c, p)
  BY <1>2, <1>3 DEF Open, dirVars
<1>5. PICK p \in Paths : Base(inode_table, t, c, p)
  BY <1>4
<1>6. DOMAIN c = DOMAIN Idle /\ c.op = "open" /\ c.fd = fd /\ c.old = None
  BY IdleIs
<1> HIDE DEF c
<1>7. PICK b \in {root[t], pwd[t]} : /\ inode_table' = Get(inode_table, b)
                                     /\ call' = [call EXCEPT ![t] = [c EXCEPT !.at = "walk", !.path = p, !.dir = b]]
  BY <1>5 DEF Base
<1>8. b \in Inodes /\ inode_table[b].count > 0
  BY PlacesInUse
<1> DEFINE d == [c EXCEPT !.at = "walk", !.path = p, !.dir = b]
<1>9. Alters(inode_table, Get(inode_table, b), b, 1)
  BY <1>8, InUseInode, GetAlters DEF FInv
<1>10. DOMAIN d = DOMAIN Idle /\ d.at = "walk" /\ d.dir = b /\ d.old = None /\ d.fd = fd /\ d.op = "open"
  BY <1>6, IdleIs
<1>11. call' = [call EXCEPT ![t] = d]
  BY <1>7
<1> HIDE DEF d
<1>12. CallOk(d) /\ CallOk(d)' /\ fd # 0
  <2>1. fd # 0
    BY DEF Fds
  <2> QED BY <1>8, <1>10, <2>1, IdleIs DEF CallOk
<1>13. CallsOk' /\ call'[t] = d /\ \A u \in Tasks \ {t} : call'[u] = call[u]
  BY <1>1, <1>11, <1>12, CallsAfter DEF FInv
<1>14. /\ filp' \in [Tasks -> [Fds -> FileNrs \cup {0}]] /\ filp'[t][fd] = f
       /\ \A u \in Tasks, n \in Fds : u # t \/ n # fd => filp'[u][n] = filp[u][n]
       /\ file_table' \in [FileNrs -> [count : Nat, inode : Inodes \cup {None}]]
       /\ file_table'[f].count = 1 /\ \A g \in FileNrs : /\ file_table'[g].inode = file_table[g].inode
                                                         /\ g # f => file_table'[g].count = file_table[g].count
  BY <1>4 DEF FInv, FilesOk
<1>15. FilesOk'
  <2>1. \A u \in Tasks : (call'[u].fd # 0 <=> u = t) /\ call'[t].fd = fd
    BY <1>1, <1>10, <1>12, <1>13, IdleIs DEF Alone
  <2>2. \A g \in FileNrs : Opening(g)' <=> g = f
    BY <1>12, <1>14, <2>1 DEF Opening
  <2>3. \A g \in FileNrs : file_table'[g].count = Cardinality(Uses(g))'
    <3> TAKE g \in FileNrs
    <3>1. /\ Cardinality(Uses(g)) \in Nat
          /\ Cardinality(Uses(g))' = Cardinality(Uses(g)) - (IF filp[t][fd] = g THEN 1 ELSE 0) + (IF f = g THEN 1 ELSE 0)
      BY <1>14, UsesAfter
    <3>2. filp[t][fd] # g
      BY <1>2 DEF FileNrs
    <3>3. file_table[g].count = Cardinality(Uses(g))
      BY DEF FInv, FilesOk
    <3> QED BY <1>3, <1>14, <3>1, <3>2, <3>3
  <2>4. filp'[t][fd] # 0
    BY <1>14 DEF FileNrs
  <2>5. \A g \in FileNrs : file_table'[g].inode = None <=> file_table'[g].count = 0 \/ g = f
    BY <1>1, <1>3, <1>14 DEF FInv, FilesOk
  <2> QED BY <1>14, <2>1, <2>2, <2>3, <2>4, <2>5 DEF FilesOk
<1>16. DirsOk' /\ LinksExact'
  BY <1>4, <1>7, <1>9, DirsSame DEF FInv, LinksExact, Alters
<1>17. PlacesOk' /\ Sound(inode_table)'
  BY <1>4, <1>7, <1>9 DEF FInv, Sound, Mounted, Tables, PlacesOk, Alters
<1>18. \A i \in Inodes : inode_table'[i].count = inode_table[i].count - Holds(t, 0, i) + Holds(t, 0, i)'
  <2> TAKE i \in Inodes
  <2>1. PlaceHolds(t, i)' = PlaceHolds(t, i) /\ FileHolds(0, i)' = FileHolds(0, i) /\ MountHolds(i)' = MountHolds(i)
    BY <1>4 DEF PlaceHolds, FileHolds, MountHolds, FileNrs
  <2>2. CallHolds(call[t], i) = 0 /\ CallHolds(d, i) = Is(b, i)
    <3>1. Is(None, i) = 0
      BY FilesAssumption, IsFacts
    <3> QED BY <1>1, <1>10, <1>12, <3>1, IdleOk, CallHoldsIs, IsFacts DEF InDir
  <2>3. CallHolds(call[t], i)' = CallHolds(d, i)
    BY <1>13 DEF CallHolds
  <2>4. /\ PlaceHolds(t, i) \in Int /\ FileHolds(0, i) \in Int /\ MountHolds(i) \in Int /\ inode_table[i].count \in Int
    BY HeldHere DEF PlaceHolds, FileHolds, MountHolds
  <2> QED BY <1>7, <1>9, <2>1, <2>2, <2>3, <2>4 DEF Holds, Alters, Is
<1>19. InodesCounted'
  <2>1. \A u \in Tasks \ {t} : root'[u] = root[u] /\ pwd'[u] = pwd[u] /\ call'[u] = call[u]
    BY <1>4, <1>13
  <2>2. \A g \in FileNrs \ {0} : file_table'[g].inode = file_table[g].inode
    BY <1>14
  <2>3. InodesCounted
    BY DEF FInv
  <2> QED BY <1>18, <2>1, <2>2, <2>3, CountsAfter
<1> QED BY <1>13, <1>15, <1>16, <1>17, <1>19 DEF FInv

FileTables == [FileNrs -> [count : Nat, inode : Inodes \cup {None}]]
Descriptors == [Tasks -> [Fds -> FileNrs \cup {0}]]

(* A descriptor gets another file or none, and at most one file another    *)
(* inode: none.                                                            *)
Redirect(t, n, v, f) ==
  /\ filp' \in Descriptors /\ filp'[t][n] = v
  /\ \A u \in Tasks, m \in Fds : u # t \/ m # n => filp'[u][m] = filp[u][m]
  /\ entries' = entries /\ root' = root /\ pwd' = pwd /\ s_imount' = s_imount /\ call' = call
  /\ file_table' \in FileTables
  /\ \A g \in FileNrs : file_table'[g].count = file_table[g].count - Is(filp[t][n], g) + Is(v, g)
  /\ \A g \in FileNrs : file_table'[g].inode = None <=> file_table'[g].count = 0
  /\ \A g \in FileNrs \ {f} : file_table'[g].inode = file_table[g].inode
  /\ Sound(inode_table')
  /\ \A i \in Inodes : /\ inode_table'[i].nlinks = inode_table[i].nlinks
                        /\ inode_table'[i].count = inode_table[i].count - FileHolds(f, i) + FileHolds(f, i)'
LEMMA RedirectKeeps ==
  ASSUME FInv, ~Overlap, NEW t \in Tasks, MayRun(t), NEW n \in Fds, NEW v \in FileNrs \cup {0}, NEW f,
         Redirect(t, n, v, f)
  PROVE  FInv'
<1>1. call[t] = Idle /\ Alone(t)
  BY NoneOpening
<1>2. /\ root' = root /\ pwd' = pwd /\ call' = call
      /\ \A g \in FileNrs \ {f} : file_table'[g].inode = file_table[g].inode
  BY DEF Redirect
<1>3. \A u \in Tasks : call'[u].fd = 0
  <2>1. \A u \in Tasks : call[u] = Idle
    BY <1>1 DEF Alone
  <2> QED BY <1>2, <2>1, IdleIs
<1>5. FilesOk'
  <2>1. \A g \in FileNrs : file_table'[g].count = Cardinality(Uses(g))'
    <3> TAKE g \in FileNrs
    <3>1. /\ Cardinality(Uses(g)) \in Nat
          /\ Cardinality(Uses(g))' = Cardinality(Uses(g)) - (IF filp[t][n] = g THEN 1 ELSE 0) + (IF v = g THEN 1 ELSE 0)
      <4>1. filp'[t][n] = v /\ \A u \in Tasks, m \in Fds : u # t \/ m # n => filp'[u][m] = filp[u][m]
        BY DEF Redirect
      <4> QED BY <4>1, UsesAfter
    <3>2. file_table[g].count = Cardinality(Uses(g))
      BY DEF FInv, FilesOk
    <3>3. file_table'[g].count = file_table[g].count - Is(filp[t][n], g) + Is(v, g)
      BY DEF Redirect
    <3> QED BY <3>1, <3>2, <3>3 DEF Is
  <2>2. \A g \in FileNrs : ~Opening(g)'
    BY <1>3 DEF Opening
  <2>3. /\ filp' \in Descriptors /\ file_table' \in FileTables
        /\ \A g \in FileNrs : file_table'[g].inode = None <=> file_table'[g].count = 0
    BY DEF Redirect
  <2> QED BY <1>3, <2>1, <2>2, <2>3 DEF FilesOk, FileTables, Descriptors
<1>6. CallsOk'
  BY DEF FInv, CallsOk, CallOk, Redirect
<1>7. DirsOk' /\ LinksExact'
  BY DirsSame DEF FInv, LinksExact, Redirect
<1>8. PlacesOk' /\ Sound(inode_table)'
  BY DEF FInv, Sound, Mounted, Tables, PlacesOk, Redirect
<1>9. \A i \in Inodes : inode_table'[i].count = inode_table[i].count - Holds(t, f, i) + Holds(t, f, i)'
  <2> TAKE i \in Inodes
  <2>1. PlaceHolds(t, i)' = PlaceHolds(t, i) /\ CallHolds(call[t], i)' = CallHolds(call[t], i) /\ MountHolds(i)' = MountHolds(i)
    BY DEF PlaceHolds, CallHolds, MountHolds, Redirect
  <2>2. /\ PlaceHolds(t, i) \in Int /\ CallHolds(call[t], i) \in Int /\ MountHolds(i) \in Int
        /\ FileHolds(f, i) \in Int /\ FileHolds(f, i)' \in Int /\ inode_table[i].count \in Int
    BY HeldHere DEF PlaceHolds, CallHolds, MountHolds, FileHolds
  <2> QED BY <2>1, <2>2 DEF Holds, Redirect
<1>10. InodesCounted'
  <2>1. InodesCounted
    BY DEF FInv
  <2>2. \A u \in Tasks \ {t} : root'[u] = root[u] /\ pwd'[u] = pwd[u] /\ call'[u] = call[u]
    BY <1>2
  <2>3. \A g \in FileNrs \ {f} : file_table'[g].inode = file_table[g].inode
    BY <1>2
  <2> QED BY <1>9, <2>1, <2>2, <2>3, CountsAfter
<1> QED BY <1>5, <1>6, <1>7, <1>8, <1>10 DEF FInv

(* sys_close of a descriptor with the file f: the last one puts its inode. *)
LEMMA ClosedFile ==
  ASSUME FInv, ~Overlap, NEW t \in Tasks, MayRun(t), NEW n \in Fds, filp[t][n] # 0
  PROVE  LET f == filp[t][n]
             F == Closed(file_table, inode_table, f)[1]
             T == Closed(file_table, inode_table, f)[2]
         IN  /\ f \in FileNrs /\ file_table[f].count > 0 /\ file_table[f].count \in Nat
             /\ F \in FileTables
             /\ F[f].count = file_table[f].count - 1
             /\ F[f].inode = IF file_table[f].count = 1 THEN None ELSE file_table[f].inode
             /\ \A g \in FileNrs \ {f} : F[g] = file_table[g]
             /\ Sound(T)
             /\ \A i \in Inodes : /\ T[i].nlinks = inode_table[i].nlinks
                                  /\ T[i].count = inode_table[i].count - Is(file_table[f].inode, i) + Is(F[f].inode, i)
<1>1. filp[t][n] \in FileNrs
  BY DEF FInv, FilesOk
<1>2. PICK f \in FileNrs : f = filp[t][n]
  BY <1>1
<1>3. /\ file_table \in FileTables
      /\ file_table[f].count = Cardinality(Uses(f))
  BY DEF FInv, FilesOk, FileTables
<1>4. file_table[f].count \in Nat /\ file_table[f].count > 0
  <2>1. Uses(f) # {}
    <3>1. <<t, n>> \in Uses(f)
      BY <1>2 DEF Uses
    <3> QED BY <3>1
  <2>2. IsFiniteSet(Uses(f))
    <3> DEFINE S == Tasks \X Fds
    <3>1. IsFiniteSet(Tasks) /\ NR_OPEN \in Int
      BY FilesAssumption
    <3>2. IsFiniteSet(Fds)
      BY <3>1, FS_Interval DEF Fds
    <3>3. IsFiniteSet(S) /\ Uses(f) \in SUBSET S
      BY <3>1, <3>2, FS_Product DEF Uses
    <3> HIDE DEF S
    <3> QED BY <3>3, FS_Subset
  <2> QED BY <1>3, <2>1, <2>2, FS_EmptySet, FS_CardinalityType
<1>5. file_table[f].inode \in Inodes /\ None \notin Inodes
  BY <1>4, NoneOpening, FilesAssumption
<1>6. Sound(inode_table) /\ \A i \in Inodes : inode_table[i].count \in Int
  BY HeldHere DEF FInv
<1> DEFINE F == Closed(file_table, inode_table, f)[1]
           T == Closed(file_table, inode_table, f)[2]
<1>7. CASE file_table[f].count = 1
  <2>1. F = [file_table EXCEPT ![f] = NoFile] /\ T = iput(inode_table, file_table[f].inode)
    BY <1>7 DEF Closed
  <2> HIDE DEF F, T
  <2>2. FileHolds(f, file_table[f].inode) = 1
    BY DEF FileHolds
  <2>3. inode_table[file_table[f].inode].count > 0
    <3> DEFINE j == file_table[f].inode
    <3>1. Holders(j) \in Nat /\ Holders(j) >= Holds(t, f, j) /\ inode_table[j].count = Holders(j)
      BY <1>5, HoldersBound DEF FInv, InodesCounted
    <3>2. /\ CallHolds(call[t], j) \in Int /\ PlaceHolds(t, j) \in Int /\ MountHolds(j) \in Int
          /\ CallHolds(call[t], j) >= 0 /\ PlaceHolds(t, j) >= 0 /\ MountHolds(j) >= 0
      BY DEF CallHolds, PlaceHolds, MountHolds
    <3> QED BY <2>2, <3>1, <3>2 DEF Holds
  <2>4. Alters(inode_table, T, file_table[f].inode, -1)
    BY <1>5, <1>6, <2>1, <2>3, PutAlters
  <2>5. /\ F \in FileTables
        /\ F[f].count = 0 /\ F[f].inode = None /\ \A g \in FileNrs \ {f} : F[g] = file_table[g]
    BY <1>3, <2>1 DEF NoFile, FileTables
  <2>6. \A i \in Inodes : Is(None, i) = 0
    BY <1>5, IsFacts
  <2> QED BY <1>2, <1>4, <1>6, <1>7, <2>4, <2>5, <2>6 DEF Alters, Is, F, T
<1>8. CASE file_table[f].count # 1
  <2>1. F = [file_table EXCEPT ![f].count = @ - 1] /\ T = inode_table
    BY <1>4, <1>8 DEF Closed
  <2> HIDE DEF F, T
  <2>2. /\ F \in FileTables
        /\ F[f].count = file_table[f].count - 1 /\ F[f].inode = file_table[f].inode
        /\ \A g \in FileNrs \ {f} : F[g] = file_table[g]
    BY <1>3, <1>4, <2>1 DEF FileTables
  <2>3. \A i \in Inodes : Is(file_table[f].inode, i) \in Int
    BY IsFacts
  <2> QED BY <1>2, <1>4, <1>6, <1>8, <2>1, <2>2, <2>3 DEF F, T
<1> QED BY <1>7, <1>8

LEMMA ClosedKeeps ==
  ASSUME FInv, ~Overlap, NEW t \in Tasks, MayRun(t), NEW n \in Fds, filp[t][n] # 0,
         filp' = [filp EXCEPT ![t][n] = 0], UNCHANGED <<entries, dirVars, call>>,
         file_table' = Closed(file_table, inode_table, filp[t][n])[1],
         inode_table' = Closed(file_table, inode_table, filp[t][n])[2]
  PROVE  FInv'
<1>0. PICK f \in FileNrs : f = filp[t][n]
  BY DEF FInv, FilesOk
<1>1. /\ f \in FileNrs /\ file_table[f].count > 0 /\ file_table[f].count \in Nat
      /\ file_table' \in FileTables
      /\ file_table'[f].count = file_table[f].count - 1
      /\ file_table'[f].inode = IF file_table[f].count = 1 THEN None ELSE file_table[f].inode
      /\ \A g \in FileNrs \ {f} : file_table'[g] = file_table[g]
      /\ Sound(inode_table')
      /\ \A i \in Inodes :
           /\ inode_table'[i].nlinks = inode_table[i].nlinks
           /\ inode_table'[i].count = inode_table[i].count - Is(file_table[f].inode, i) + Is(file_table'[f].inode, i)
  BY <1>0, ClosedFile
<1>2. \A g \in FileNrs : /\ file_table[g].count \in Nat /\ g # 0
                         /\ file_table[g].inode = None <=> file_table[g].count = 0
  <2>1. \A g \in FileNrs : file_table[g].inode = None <=> file_table[g].count = 0
    BY NoneOpening
  <2> QED BY <2>1 DEF FInv, FilesOk, FileNrs
<1>3. \A g \in FileNrs : /\ file_table'[g].count = file_table[g].count - Is(f, g) + Is(0, g)
                         /\ file_table'[g].inode = None <=> file_table'[g].count = 0
                         /\ g # f => file_table'[g].inode = file_table[g].inode
  <2> TAKE g \in FileNrs
  <2>1. Is(0, g) = 0 /\ g # 0
    BY <1>2, IsFacts
  <2>2. CASE g = f
    <3>1. Is(f, g) = 1
      BY <2>2, IsFacts
    <3>2. file_table[f].inode = None <=> file_table[f].count = 0
      BY <1>2
    <3> QED BY <1>1, <2>1, <2>2, <3>1, <3>2
  <2>3. CASE g # f
    <3>1. Is(f, g) = 0
      BY <2>3, IsFacts
    <3>2. file_table'[g] = file_table[g]
      BY <1>1, <2>3
    <3> QED BY <1>2, <2>1, <2>3, <3>1, <3>2
  <2> QED BY <2>2, <2>3
<1>4. \A i \in Inodes : /\ FileHolds(f, i) = Is(file_table[f].inode, i)
                        /\ FileHolds(f, i)' = Is(file_table'[f].inode, i)
  BY <1>1 DEF FileHolds, Is
<1>5. \A i \in Inodes : /\ inode_table'[i].nlinks = inode_table[i].nlinks
                        /\ inode_table'[i].count = inode_table[i].count - FileHolds(f, i) + FileHolds(f, i)'
  BY <1>1, <1>4
<1>6. \A g \in FileNrs : file_table'[g].count = file_table[g].count - Is(filp[t][n], g) + Is(0, g)
  BY <1>0, <1>3
<1>7. /\ 0 \in FileNrs \cup {0} /\ filp' \in Descriptors /\ filp'[t][n] = 0
      /\ \A u \in Tasks, m \in Fds : u # t \/ m # n => filp'[u][m] = filp[u][m]
  <2>1. 0 \in FileNrs \cup {0}
    OBVIOUS
  <2> QED BY <2>1 DEF FInv, FilesOk, Descriptors
<1>8. entries' = entries /\ root' = root /\ pwd' = pwd /\ s_imount' = s_imount /\ call' = call
  BY DEF dirVars
<1>9. Redirect(t, n, 0, f)
  BY <1>1, <1>3, <1>5, <1>6, <1>7, <1>8 DEF Redirect
<1> QED BY <1>7, <1>9, RedirectKeeps

LEMMA CloseKeeps ==
  ASSUME FInv, ~Overlap, NEW t \in Tasks, Close(t)
  PROVE  FInv'
BY ClosedKeeps DEF Close

LEMMA DupKeeps ==
  ASSUME FInv, ~Overlap, NEW t \in Tasks, Dup(t)
  PROVE  FInv'
<1>1. PICK fd \in Fds, arg \in Fds :
        LET free == {n \in FreeFds(t) : n >= arg} IN
        /\ filp[t][fd] # 0 /\ free # {}
        /\ filp' = [filp EXCEPT ![t][Min(free)] = filp[t][fd]]
        /\ file_table' = [file_table EXCEPT ![filp[t][fd]].count = @ + 1]
  BY DEF Dup
<1>2. PICK n \in Fds : n = Min({m \in FreeFds(t) : m >= arg}) /\ filp[t][n] = 0
  <2> DEFINE free == {m \in FreeFds(t) : m >= arg}
  <2>1. free \subseteq FreeFds(t) /\ free # {}
    BY <1>1
  <2> HIDE DEF free
  <2>2. Min(free) \in Fds /\ filp[t][Min(free)] = 0
    BY <2>1, FirstFree
  <2> QED BY <2>2 DEF free
<1>3. PICK f \in FileNrs : f = filp[t][fd] /\ file_table[f].count > 0
  BY <1>1, ClosedFile DEF Dup
<1>4. /\ filp' = [filp EXCEPT ![t][n] = f] /\ file_table' = [file_table EXCEPT ![f].count = @ + 1]
      /\ MayRun(t) /\ UNCHANGED <<entries, dirVars, call>> /\ inode_table' = inode_table
  BY <1>1, <1>2, <1>3 DEF Dup
<1>5. \A g \in FileNrs : /\ file_table[g].count \in Nat /\ g # 0
                         /\ file_table[g].inode = None <=> file_table[g].count = 0
  BY <1>4, NoneOpening DEF FInv, FilesOk, FileNrs
<1>6. /\ file_table' \in FileTables
      /\ \A g \in FileNrs : /\ file_table'[g].count = file_table[g].count + Is(f, g)
                            /\ file_table'[g].inode = file_table[g].inode
  BY <1>4, <1>5 DEF FInv, FilesOk, Is, FileTables
<1>7. \A g \in FileNrs : /\ file_table'[g].count = file_table[g].count - Is(filp[t][n], g) + Is(f, g)
                         /\ file_table'[g].inode = None <=> file_table'[g].count = 0
  <2> TAKE g \in FileNrs
  <2>1. Is(filp[t][n], g) = 0 /\ Is(f, g) \in 0..1
    BY <1>2, <1>5, IsFacts
  <2>2. g = f => file_table[g].count > 0
    BY <1>3
  <2>3. g # f => Is(f, g) = 0
    BY IsFacts
  <2> QED BY <1>5, <1>6, <2>1, <2>2, <2>3
<1>8. /\ Sound(inode_table')
      /\ \A i \in Inodes : /\ inode_table'[i].nlinks = inode_table[i].nlinks
                           /\ inode_table'[i].count = inode_table[i].count - FileHolds(0, i) + FileHolds(0, i)'
  <2>1. \A i \in Inodes : FileHolds(0, i) = 0 /\ FileHolds(0, i)' = 0 /\ inode_table[i].count \in Int
    BY HeldHere DEF FileHolds, FileNrs
  <2> QED BY <1>4, <2>1 DEF FInv
<1>9. f \in FileNrs \cup {0} /\ \A g \in FileNrs : g # 0 => file_table'[g].inode = file_table[g].inode
  BY <1>6
<1>10. /\ filp' \in Descriptors /\ filp'[t][n] = f
       /\ \A u \in Tasks, m \in Fds : u # t \/ m # n => filp'[u][m] = filp[u][m]
  BY <1>4, <1>9 DEF FInv, FilesOk, Descriptors
<1>11. entries' = entries /\ root' = root /\ pwd' = pwd /\ s_imount' = s_imount /\ call' = call
  BY <1>4 DEF dirVars
<1>12. Redirect(t, n, f, 0)
  BY <1>6, <1>7, <1>8, <1>9, <1>10, <1>11 DEF Redirect
<1> QED BY <1>4, <1>9, <1>12, RedirectKeeps

(* Two descriptors of a file are counted twice.                            *)
LEMMA TwoUses ==
  ASSUME FInv, NEW t \in Tasks, NEW fd \in Fds, NEW n \in Fds, fd # n,
         NEW f \in FileNrs, filp[t][fd] = f, filp[t][n] = f
  PROVE  file_table[f].count >= 2
<1> DEFINE S == Tasks \X Fds  A == Uses(f)  B == A \ {<<t, n>>}  C == B \ {<<t, fd>>}
<1>1. IsFiniteSet(S)
  <2>1. NR_OPEN \in Int /\ IsFiniteSet(Tasks)
    BY FilesAssumption
  <2>2. IsFiniteSet(Fds)
    BY <2>1, FS_Interval DEF Fds
  <2> QED BY <2>1, <2>2, FS_Product
<1>2. A \in SUBSET S /\ B \in SUBSET S /\ C \in SUBSET S /\ <<t, n>> \in A /\ <<t, fd>> \in B
  BY DEF Uses
<1>3. A \ {<<t, n>>} = B \ {<<t, n>>} /\ B \ {<<t, fd>>} = C \ {<<t, fd>>} /\ <<t, n>> \notin B
  OBVIOUS
<1>4. file_table[f].count = Cardinality(A)
  BY DEF FInv, FilesOk
<1> HIDE DEF S, A, B, C
<1>5. Cardinality(A) \in Nat /\ Cardinality(B) = Cardinality(A) - 1
  BY <1>1, <1>2, <1>3, Recount
<1>6. Cardinality(B) >= 1
  BY <1>1, <1>2, <1>3, Recount
<1> QED BY <1>4, <1>5, <1>6

LEMMA Dup2Keeps ==
  ASSUME FInv, ~Overlap, NEW t \in Tasks, Dup2(t)
  PROVE  FInv'
<1>1. PICK fd \in Fds, n \in Fds :
        /\ filp[t][fd] # 0 /\ filp[t][n] # 0
        /\ LET after == Closed(file_table, inode_table, filp[t][n]) IN
             /\ inode_table' = after[2]
             /\ IF fd = n THEN filp' = [filp EXCEPT ![t][n] = 0] /\ file_table' = after[1]
                ELSE /\ filp' = [filp EXCEPT ![t][n] = filp[t][fd]]
                     /\ file_table' = [after[1] EXCEPT ![filp[t][fd]].count = @ + 1]
  BY DEF Dup2
<1>2. MayRun(t) /\ UNCHANGED <<entries, dirVars, call>>
  BY DEF Dup2
<1>3. CASE fd = n
  BY <1>1, <1>2, <1>3, ClosedKeeps
<1>4. CASE fd # n
  <2>0. PICK f \in FileNrs : f = filp[t][n]
    BY <1>1 DEF FInv, FilesOk
  <2>1. PICK v \in FileNrs : v = filp[t][fd] /\ file_table[v].count > 0
    BY <1>1, <1>2, ClosedFile
  <2> PICK F : F = Closed(file_table, inode_table, f)[1]
    OBVIOUS
  <2>2. /\ f \in FileNrs /\ file_table[f].count > 0 /\ file_table[f].count \in Nat
        /\ F \in FileTables
        /\ F[f].count = file_table[f].count - 1
        /\ F[f].inode = IF file_table[f].count = 1 THEN None ELSE file_table[f].inode
        /\ \A g \in FileNrs \ {f} : F[g] = file_table[g]
        /\ Sound(inode_table')
        /\ \A i \in Inodes :
             /\ inode_table'[i].nlinks = inode_table[i].nlinks
             /\ inode_table'[i].count = inode_table[i].count - Is(file_table[f].inode, i) + Is(F[f].inode, i)
    BY <1>1, <1>2, <2>0, ClosedFile
  <2>3. filp' = [filp EXCEPT ![t][n] = v] /\ file_table' = [F EXCEPT ![v].count = @ + 1]
    BY <1>1, <1>4, <2>0, <2>1
  <2>4. v = f => file_table[f].count >= 2
    BY <1>4, <2>0, <2>1, TwoUses
  <2>5. \A g \in FileNrs : /\ file_table[g].count \in Nat
                           /\ file_table[g].inode = None <=> file_table[g].count = 0
    BY <1>2, NoneOpening DEF FInv, FilesOk
  <2>6. /\ file_table' \in FileTables
        /\ \A g \in FileNrs : /\ file_table'[g].count = F[g].count + Is(v, g)
                              /\ file_table'[g].inode = F[g].inode
    BY <2>2, <2>3 DEF Is, FileTables
  <2>7. \A g \in FileNrs : /\ file_table'[g].count = file_table[g].count - Is(f, g) + Is(v, g)
                           /\ file_table'[g].inode = None <=> file_table'[g].count = 0
                           /\ g # f => file_table'[g].inode = file_table[g].inode
    <3> TAKE g \in FileNrs
    <3>1. Is(v, g) \in 0..1 /\ (v = g => Is(v, g) = 1) /\ (v # g => Is(v, g) = 0)
      BY IsFacts
    <3>2. CASE g = f
      <4>1. Is(f, g) = 1
        BY <3>2, IsFacts
      <4>2. /\ file_table'[f].count = file_table[f].count - 1 + Is(v, g) /\ file_table'[f].inode = F[f].inode
            /\ F[f].inode = IF file_table[f].count = 1 THEN None ELSE file_table[f].inode
            /\ file_table[f].inode # None /\ file_table[f].count \in Nat /\ file_table[f].count > 0
        BY <2>2, <2>5, <2>6, <3>2
      <4>3. v = g => file_table[f].count >= 2
        BY <2>4, <3>2
      <4> QED BY <3>1, <3>2, <4>1, <4>2, <4>3
    <3>3. CASE g # f
      <4>1. Is(f, g) = 0
        BY <3>3, IsFacts
      <4>2. F[g] = file_table[g]
        BY <2>2, <3>3
      <4>3. file_table'[g].count = file_table[g].count + Is(v, g) /\ file_table'[g].inode = file_table[g].inode
        BY <2>6, <4>2
      <4>4. g = v => file_table[g].count > 0
        BY <2>1
      <4> QED BY <2>5, <3>1, <3>3, <4>1, <4>3, <4>4
    <3> QED BY <3>2, <3>3
  <2>8. \A i \in Inodes : /\ FileHolds(f, i) = Is(file_table[f].inode, i)
                          /\ FileHolds(f, i)' = Is(F[f].inode, i)
    BY <2>2, <2>6 DEF FileHolds, Is
  <2>9. \A i \in Inodes : /\ inode_table'[i].nlinks = inode_table[i].nlinks
                          /\ inode_table'[i].count = inode_table[i].count - FileHolds(f, i) + FileHolds(f, i)'
    BY <2>2, <2>8
  <2>10. \A g \in FileNrs : file_table'[g].count = file_table[g].count - Is(filp[t][n], g) + Is(v, g)
    BY <2>0, <2>7
  <2>11. v \in FileNrs \cup {0}
    OBVIOUS
  <2>12. /\ filp' \in Descriptors /\ filp'[t][n] = v
         /\ \A u \in Tasks, m \in Fds : u # t \/ m # n => filp'[u][m] = filp[u][m]
    BY <2>3, <2>11 DEF FInv, FilesOk, Descriptors
  <2>13. entries' = entries /\ root' = root /\ pwd' = pwd /\ s_imount' = s_imount /\ call' = call
    BY <1>2 DEF dirVars
  <2>14. Redirect(t, n, v, f)
    BY <2>2, <2>6, <2>7, <2>9, <2>10, <2>12, <2>13 DEF Redirect
  <2> QED BY <1>2, <2>11, <2>14, RedirectKeeps
<1> QED BY <1>3, <1>4

-----------------------------------------------------------------------------
(* The specification.                                                      *)
LEMMA InitKeeps ==
  ASSUME FilesInit
  PROVE  FInv
<1>1. /\ entries = Content /\ s_imount = None
      /\ root = [t \in Tasks |-> RootInode] /\ pwd = root
      /\ filp = [t \in Tasks |-> [fd \in Fds |-> 0]]
      /\ file_table = [f \in FileNrs |-> NoFile]
      /\ call = [t \in Tasks |-> Idle]
      /\ inode_table = [i \in Inodes |-> [count |-> IF i = RootInode THEN 2 + 2 * Cardinality(Tasks) ELSE 0,
                                          nlinks |-> Cardinality(Entries(i)), kind |-> Kind[i]]]
  BY DEF FilesInit
<1>2. /\ RootInode \in Inodes /\ Kind[RootInode] = "dir" /\ Device[RootInode] # Device[MountedRoot]
      /\ DOMAIN Content = Inodes
  BY TreeAssumption
<1>3. None \notin Inodes /\ IsFiniteSet(Tasks) /\ Cardinality(Tasks) \in Nat
  BY FilesAssumption, FS_CardinalityType
<1>4. DirsOk
  <2>1. ASSUME NEW d \in Inodes, Kind[d] = "dir" PROVE Dots \subseteq DOMAIN Content[d]
    BY <2>1, TreeAssumption
  <2>2. ASSUME NEW d \in Inodes, Kind[d] = "dir" PROVE DOMAIN Content[d] # {}
    BY <2>1, <2>2 DEF Dots
  <2> QED BY <1>1, <1>2, <2>1, <2>2 DEF DirsOk
<1>5. \A i \in Inodes : /\ Cardinality(Entries(i)) \in Nat
                        /\ Kind[i] = Free <=> Cardinality(Entries(i)) = 0
  <2> TAKE i \in Inodes
  <2>1. IsFiniteSet(Entries(i)) /\ Cardinality(Entries(i)) \in Nat
    BY <1>4, EntriesFinite
  <2>2. CASE Kind[i] = Free
    <3>1. \A d \in Inodes : \A n \in DOMAIN Content[d] : Content[d][n] # i
      BY <2>2, TreeAssumption
    <3>2. Entries(i) = {}
      BY <1>1, <3>1 DEF Entries
    <3> QED BY <2>1, <2>2, <3>2, FS_EmptySet
  <2>3. CASE Kind[i] # Free
    <3>0. PICK d \in Inodes : \E n \in DOMAIN Content[d] : Content[d][n] = i
      BY <2>3, TreeAssumption
    <3>1. PICK n \in DOMAIN Content[d] : Content[d][n] = i
      BY <3>0
    <3>2. <<d, n>> \in Entries(i)
      BY <1>1, <3>1, EntriesAre
    <3>3. Entries(i) # {}
      BY <3>2
    <3> QED BY <2>1, <2>3, <3>3, FS_EmptySet
  <2> QED BY <2>2, <2>3
<1>6. \A i \in Inodes : /\ inode_table[i].count = IF i = RootInode THEN 2 + 2 * Cardinality(Tasks) ELSE 0
                        /\ inode_table[i].nlinks = Cardinality(Entries(i)) /\ inode_table[i].kind = Kind[i]
  BY <1>1
<1>7. Sound(inode_table)
  <2>1. inode_table \in Tables
    BY <1>1, <1>3, <1>5 DEF Tables, KindSet
  <2>2. Kind[RootInode] # Free
    BY <1>2 DEF Free
  <2> QED BY <1>2, <1>3, <1>5, <1>6, <2>1, <2>2 DEF Sound, Mounted
<1>8. CallsOk
  BY <1>1, IdleOk DEF CallsOk
<1>9. FilesOk
  <2>1. \A t \in Tasks : call[t].fd = 0
    BY <1>1, IdleIs
  <2>2. \A f \in FileNrs : ~Opening(f) /\ Cardinality(Uses(f)) = 0
    <3> TAKE f \in FileNrs
    <3>1. Uses(f) = {}
      BY <1>1 DEF Uses, FileNrs
    <3> QED BY <2>1, <3>1, FS_EmptySet DEF Opening
  <2>3. /\ filp \in [Tasks -> [Fds -> FileNrs \cup {0}]]
        /\ file_table \in [FileNrs -> [count : Nat, inode : Inodes \cup {None}]]
        /\ \A f \in FileNrs : file_table[f].count = 0 /\ file_table[f].inode = None
    BY <1>1 DEF NoFile
  <2> QED BY <2>1, <2>2, <2>3 DEF FilesOk
<1>10. PlacesOk
  BY <1>1, <1>2, <1>3 DEF PlacesOk
<1>11. InodesCounted
  <2> SUFFICES ASSUME NEW i \in Inodes PROVE inode_table[i].count = Holders(i)
    BY DEF InodesCounted
  <2> DEFINE R == {t \in Tasks : root[t] = i}  P == {t \in Tasks : pwd[t] = i}
  <2>1. /\ {f \in FileNrs : file_table[f].inode = i} = {}
        /\ {t \in Tasks : call[t].dir = i} = {}
        /\ {t \in Tasks : At(t, "got") /\ call[t].inode = i} = {}
        /\ {t \in Tasks : call[t].old = i} = {}
    BY <1>1, <1>3, IdleIs DEF NoFile, At
  <2>2. Cardinality({}) = 0
    BY FS_EmptySet
  <2>3. s_imount # i
    BY <1>1, <1>3
  <2>4. Holders(i) = (IF i = RootInode THEN 2 ELSE 0) + Cardinality(R) + Cardinality(P) + 0 + 0 + 0 + 0 + 0
    BY <2>1, <2>2, <2>3 DEF Holders
  <2>5. CASE i = RootInode
    <3>1. R = Tasks /\ P = Tasks
      BY <1>1, <2>5
    <3> HIDE DEF R, P
    <3> QED BY <1>3, <1>6, <2>4, <2>5, <3>1
  <2>6. CASE i # RootInode
    <3>1. R = {} /\ P = {}
      BY <1>1, <2>6
    <3> HIDE DEF R, P
    <3> QED BY <1>6, <2>2, <2>4, <2>6, <3>1
  <2> QED BY <2>5, <2>6
<1>12. LinksExact
  BY <1>6 DEF LinksExact
<1> QED BY <1>4, <1>7, <1>8, <1>9, <1>10, <1>11, <1>12 DEF FInv

LEMMA StutterKeeps ==
  ASSUME FInv, UNCHANGED filesVars
  PROVE  FInv'
<1>1. /\ inode_table' = inode_table /\ entries' = entries /\ s_imount' = s_imount /\ root' = root
      /\ pwd' = pwd /\ filp' = filp /\ file_table' = file_table /\ call' = call
  BY DEF filesVars
<1>2. Sound(inode_table)' /\ PlacesOk'
  BY <1>1 DEF FInv, Sound, Mounted, Tables, PlacesOk
<1>3. CallsOk'
  BY <1>1 DEF FInv, CallsOk, CallOk
<1>4. FilesOk'
  <2>1. \A f \in FileNrs : Uses(f)' = Uses(f) /\ (Opening(f)' <=> Opening(f))
    BY <1>1 DEF Uses, Opening
  <2> QED BY <1>1, <2>1 DEF FInv, FilesOk
<1>5. DirsOk' /\ LinksExact'
  BY <1>1, DirsSame DEF FInv, LinksExact
<1>6. InodesCounted'
  BY <1>1 DEF FInv, InodesCounted, Holders, At
<1> QED BY <1>2, <1>3, <1>4, <1>5, <1>6 DEF FInv

LEMMA NextKeeps ==
  ASSUME FInv, ~Overlap, FilesNext
  PROVE  FInv'
<1>1. PICK t \in Tasks :
        \/ Lookup(t) \/ Open(t) \/ NotThrough(t) \/ Walk(t) \/ LastName(t) \/ Name(t) \/ Iget(t)
        \/ Stat(t) \/ ChDir(t) \/ Umount(t) \/ MountDevice(t) \/ Mount(t) \/ LinkOld(t)
        \/ Create(t) \/ Link(t) \/ OpenDir(t) \/ OpenOld(t) \/ OpenGot(t)
        \/ Victim(t) \/ Unlink(t) \/ Rmdir(t)
        \/ Close(t) \/ Dup(t) \/ Dup2(t)
  BY DEF FilesNext
<1>2. CASE Lookup(t) \/ Open(t)
  BY <1>2, LookupKeeps, OpenKeeps
<1>3. CASE NotThrough(t) \/ Walk(t) \/ LastName(t) \/ Name(t) \/ Iget(t)
  BY <1>3, NotThroughKeeps, WalkKeeps, LastNameKeeps, NameKeeps, IgetKeeps
<1>4. CASE Stat(t) \/ ChDir(t) \/ Umount(t) \/ MountDevice(t) \/ Mount(t) \/ LinkOld(t)
  BY <1>4, StatKeeps, ChDirKeeps, UmountKeeps, MountDeviceKeeps, MountKeeps, LinkOldKeeps
<1>5. CASE Create(t) \/ Link(t) \/ OpenDir(t) \/ OpenOld(t) \/ OpenGot(t)
  BY <1>5, CreateKeeps, LinkKeeps, OpenDirKeeps, OpenOldKeeps, OpenGotKeeps
<1>6. CASE Victim(t) \/ Unlink(t) \/ Rmdir(t)
  BY <1>6, VictimKeeps, UnlinkKeeps, RmdirKeeps
<1>7. CASE Close(t) \/ Dup(t) \/ Dup2(t)
  BY <1>7, CloseKeeps, DupKeeps, Dup2Keeps
<1> QED BY <1>1, <1>2, <1>3, <1>4, <1>5, <1>6, <1>7

LEMMA FInvAlways ==
  ASSUME ~Overlap
  PROVE  FilesSpec => []FInv
<1>1. FInv /\ [FilesNext]_filesVars => FInv'
  BY NextKeeps, StutterKeeps
<1> QED BY <1>1, InitKeeps, PTL DEF FilesSpec

(* The count of an inode in memory (i_count) is the number of those that   *)
(* hold it: super blocks, directories of tasks, open files and calls under *)
(* way, whatever path a call is made with and however it ends, so that     *)
(* iput frees no inode that is in use and keeps none that is not; one call *)
(* on names at a time, for a removal beside another call breaks it.        *)
THEOREM InodesCountedAlways ==
  ASSUME ~Overlap
  PROVE  FilesSpec => []InodesCounted
<1>1. FInv => InodesCounted
  BY DEF FInv
<1> QED BY <1>1, FInvAlways, PTL

(* The links of an inode (i_nlinks) are the entries that name it, after    *)
(* every sys_unlink and sys_rmdir, and whatever is created and given back; *)
(* an inode without a link is kept only while somebody holds it.           *)
THEOREM LinksCountedAlways ==
  ASSUME ~Overlap
  PROVE  FilesSpec => []LinksCounted
<1>1. FInv => LinksCounted
  <2> SUFFICES ASSUME FInv, NEW i \in Inodes
               PROVE  /\ inode_table[i].nlinks = Cardinality(Entries(i))
                      /\ inode_table[i].kind # Free => inode_table[i].nlinks > 0 \/ inode_table[i].count > 0
    BY DEF LinksCounted
  <2> QED BY DEF FInv, LinksExact, Sound
<1> QED BY <1>1, FInvAlways, PTL

=============================================================================
