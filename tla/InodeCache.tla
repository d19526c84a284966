------------------------------ MODULE InodeCache ------------------------------
(***************************************************************************)
(* The inodes in memory (fs/inode.c): iget, iput, get_empty_inode,         *)
(* sync_inodes, read_inode and write_inode, with new_inode and free_inode  *)
(* of fs/bitmap.c, for users that sleep on each other's locks.             *)
(*                                                                         *)
(* Whoever runs in the kernel runs until he sleeps: on a locked inode, in  *)
(* the queue threaded through the stacks as in WaitQueue, or for a block.  *)
(* One device is modelled; pipes and mounts are in Pipe and Files.         *)
(***************************************************************************)
EXTENDS Integers, FiniteSets, FiniteSetsExt

CONSTANTS InodeUsers, NoInodeUser,
          NR_INODE,
          Numbers,         \* of the inodes on the device
          OtherCalls       \* what users do besides: sets of "sync", "unlink" and "race", an unlink
                           \* between another user's search for the number and his iget

VARIABLES
  inode,     \* num, count, lock, dirt and contents of each slot of inode_table
  stored,    \* the contents on the device
  linked,    \* the numbers with a name: i_nlinks of the others is 0
  imap,      \* the bit map of the inodes
  i_wait,    \* the head of each slot's queue
  below,     \* tmp of __sleep_on
  sleeps,    \* the slot whose queue a user is in, or 0
  awake,     \* the users whose state is TASK_RUNNING
  does,      \* the call of each user
  holds,     \* the slot and number of the inode that a user has
  runs,      \* who runs in the kernel
  latest,    \* history: the contents as last changed
  uses       \* the one of OtherCalls that this behaviour is under

inodeVars == <<inode, stored, linked, imap, i_wait, below, sleeps, awake, does, holds, runs, latest, uses>>
waitVars == <<i_wait, below, sleeps, awake>>
diskVars == <<stored, linked, imap, latest, uses>>

ASSUME InodeAssumption ==
  /\ NoInodeUser \notin InodeUsers /\ IsFiniteSet(InodeUsers)
  /\ NR_INODE \in Nat /\ NR_INODE >= Cardinality(InodeUsers)
  /\ Numbers \subseteq Nat \ {0}

Slots_ == 1..NR_INODE
Blank == [num |-> 0, count |-> 0, lock |-> FALSE, dirt |-> FALSE, data |-> 0]
AtEase == [op |-> "none", at |-> "user", slot |-> 0, num |-> 0, empty |-> 0]
Nothing_held == [slot |-> 0, num |-> 0]

InodesRest ==
  /\ inode = [s \in Slots_ |-> Blank]
  /\ stored = [n \in Numbers |-> 0] /\ latest = stored
  /\ linked \in SUBSET Numbers /\ imap = linked
  /\ i_wait = [s \in Slots_ |-> NoInodeUser] /\ below = [u \in InodeUsers |-> NoInodeUser]
  /\ sleeps = [u \in InodeUsers |-> 0] /\ awake = InodeUsers
  /\ does = [u \in InodeUsers |-> AtEase] /\ holds = [u \in InodeUsers |-> Nothing_held]
  /\ runs = NoInodeUser /\ uses \in OtherCalls

-----------------------------------------------------------------------------
Runs(u) == runs \in {NoInodeUser, u} /\ sleeps[u] = 0
At_(u, where) == Runs(u) /\ does[u].at = where
GoOn(u, c) == does' = [does EXCEPT ![u] = c] /\ runs' = u
ForBlock(u, c) == does' = [does EXCEPT ![u] = c] /\ runs' = NoInodeUser
Done(u) == does' = [does EXCEPT ![u] = AtEase] /\ runs' = NoInodeUser
Locked_not(u) == FALSE    \* mutant: nobody waits for a locked inode
Locked(u) == inode[does[u].slot].lock

(* sleep_on(&inode->i_wait), where an inode that is needed is locked.      *)
NeedsUnlocked == {"free", "found", "read", "write", "put", "sync"}
SleepOnInode(u) ==
  /\ Runs(u) /\ does[u].at \in NeedsUnlocked /\ Locked(u)
  /\ LET s == does[u].slot IN
       /\ i_wait' = [i_wait EXCEPT ![s] = u]
       /\ below' = [below EXCEPT ![u] = i_wait[s]]
       /\ sleeps' = [sleeps EXCEPT ![u] = s]
  /\ awake' = awake \ {u} /\ runs' = NoInodeUser
  /\ UNCHANGED <<inode, diskVars, does, holds>>

(* Scheduled again: the wake-up is for the head; it may be NULL only if    *)
(* the inode was cleared.                                                  *)
RunAgain(u) ==
  /\ runs = NoInodeUser /\ sleeps[u] # 0 /\ u \in awake
  /\ LET head == i_wait[sleeps[u]] IN
       IF head \notin {NoInodeUser, u}
       THEN awake' = (awake \cup {head}) \ {u} /\ UNCHANGED <<i_wait, below, sleeps, runs>>
       ELSE /\ i_wait' = [i_wait EXCEPT ![sleeps[u]] = below[u]]
            /\ awake' = awake \cup ({below[u]} \ {NoInodeUser})
            /\ below' = [below EXCEPT ![u] = NoInodeUser]
            /\ sleeps' = [sleeps EXCEPT ![u] = 0] /\ runs' = u
  /\ UNCHANGED <<inode, diskVars, does, holds>>

(* unlock_inode, and what else happens to the inode in the same step.      *)
Unlocked(u, new) ==
  /\ inode' = [inode EXCEPT ![does[u].slot] = [new EXCEPT !.lock = FALSE]]
  /\ awake' = awake \cup ({i_wait[does[u].slot]} \ {NoInodeUser})
  /\ UNCHANGED <<i_wait, below, sleeps>>
LockIt(u) == /\ inode' = [inode EXCEPT ![does[u].slot].lock = TRUE]
             /\ UNCHANGED waitVars
(* memset over the whole inode: whoever is in its queue is left there.     *)
Cleared(s, count) == /\ inode' = [inode EXCEPT ![s] = [Blank EXCEPT !.count = count]]
                     /\ i_wait' = [i_wait EXCEPT ![s] = NoInodeUser]
                     /\ UNCHANGED <<below, sleeps, awake>>
Mine(u) == inode[does[u].slot]

-----------------------------------------------------------------------------
(* The calls.  A user has one inode at a time.                             *)
Idle_(u) == runs = NoInodeUser /\ does[u] = AtEase
Begin_(u, c) == GoOn(u, c) /\ UNCHANGED <<inode, diskVars, waitVars, holds>>
CallIget(u) == /\ Idle_(u) /\ holds[u] = Nothing_held
               /\ \E n \in linked : Begin_(u, [AtEase EXCEPT !.op = "iget", !.at = "empty", !.num = n])
CallNewInode(u) == /\ Idle_(u) /\ holds[u] = Nothing_held
                   /\ Begin_(u, [AtEase EXCEPT !.op = "new", !.at = "empty"])
CallIput(u) == /\ Idle_(u) /\ holds[u] # Nothing_held
               /\ GoOn(u, [AtEase EXCEPT !.op = "iput", !.at = "put", !.slot = holds[u].slot])
               /\ UNCHANGED <<inode, diskVars, waitVars, holds>>
CallSync(u) == /\ Idle_(u) /\ "sync" \in uses
               /\ Begin_(u, [AtEase EXCEPT !.op = "sync", !.at = "sync", !.slot = 1])

(* What users change in the inodes they hold.                              *)
ChangeHeld(u) ==
  /\ Idle_(u) /\ holds[u].num \in linked
  /\ inode' = [inode EXCEPT ![holds[u].slot].dirt = TRUE, ![holds[u].slot].data = 1 - @]
  /\ latest' = [latest EXCEPT ![holds[u].num] = 1 - inode[holds[u].slot].data]
  /\ UNCHANGED <<stored, linked, imap, uses, waitVars, does, holds, runs>>
LastUnlink(u) ==
  /\ Idle_(u) /\ holds[u].num \in linked /\ "unlink" \in uses
  /\ "race" \in uses \/ \A v \in InodeUsers : does[v].op = "iget" => does[v].num # holds[u].num
  /\ linked' = linked \ {holds[u].num}
  /\ inode' = [inode EXCEPT ![holds[u].slot].dirt = TRUE]
  /\ UNCHANGED <<stored, imap, latest, uses, waitVars, does, holds, runs>>

-----------------------------------------------------------------------------
(* get_empty_inode: a slot that nobody uses, and that is clean and not     *)
(* locked if there is one.  Where last_inode stands is left open.          *)
Unused_ == {s \in Slots_ : inode[s].count = 0}
Clean == {s \in Unused_ : ~inode[s].dirt /\ ~inode[s].lock}
EmptySearch(u) ==
  /\ At_(u, "empty")
  /\ \E s \in IF Clean # {} THEN Clean ELSE Unused_ :
       GoOn(u, [does[u] EXCEPT !.at = "free", !.slot = s])
  /\ UNCHANGED <<inode, diskVars, waitVars, holds>>

(* ... and after the waits for it.                                         *)
EmptyFound(u) ==
  /\ At_(u, "free") /\ ~Locked(u)
  /\ LET c == does[u] IN
     \/ /\ Mine(u).dirt /\ GoOn(u, [c EXCEPT !.at = "write"])
        /\ UNCHANGED <<inode, waitVars>>
     \/ /\ ~Mine(u).dirt /\ Mine(u).count > 0 /\ GoOn(u, [c EXCEPT !.at = "empty", !.slot = 0])
        /\ UNCHANGED <<inode, waitVars>>
     \/ /\ ~Mine(u).dirt /\ Mine(u).count = 0 /\ Cleared(c.slot, 1)
        /\ GoOn(u, [c EXCEPT !.at = IF c.op = "iget" THEN "scan" ELSE "new", !.slot = 0, !.empty = c.slot])
  /\ UNCHANGED <<diskVars, holds>>

(* iget: a slot with this number, or else the empty one, which is read.    *)
Having(n) == {s \in Slots_ : inode[s].num = n}
Scan(u) ==
  /\ At_(u, "scan")
  /\ LET c == does[u] IN
     IF Having(c.num) # {}
     THEN /\ GoOn(u, [c EXCEPT !.at = "found", !.slot = Min(Having(c.num))])
          /\ UNCHANGED <<inode, holds>>
     ELSE /\ inode' = [inode EXCEPT ![c.empty].num = c.num]
          /\ holds' = [holds EXCEPT ![u] = [slot |-> c.empty, num |-> c.num]]
          /\ GoOn(u, [c EXCEPT !.at = "read", !.slot = c.empty, !.empty = 0])
  /\ UNCHANGED <<diskVars, waitVars>>

(* It may have been given to another number during the wait.               *)
Changed_not(u) == FALSE    \* mutant: it is not looked at again
Changed(u) == Mine(u).num # does[u].num
FoundUnlocked(u) ==
  /\ At_(u, "found") /\ ~Locked(u)
  /\ LET c == does[u] IN
     IF Changed(u)
     THEN GoOn(u, [c EXCEPT !.at = "scan", !.slot = 0]) /\ UNCHANGED <<inode, holds>>
     ELSE /\ inode' = [inode EXCEPT ![c.slot].count = @ + 1, ![c.empty].count = @ - 1]
          /\ holds' = [holds EXCEPT ![u] = [slot |-> c.slot, num |-> c.num]]
          /\ Done(u)
  /\ UNCHANGED <<diskVars, waitVars>>

ReadInode(u) ==
  /\ At_(u, "read") /\ ~Locked(u)
  /\ LockIt(u) /\ ForBlock(u, [does[u] EXCEPT !.at = "reading"])
  /\ UNCHANGED <<diskVars, holds>>
HasRead(u) ==
  /\ At_(u, "reading")
  /\ Unlocked(u, [Mine(u) EXCEPT !.data = stored[Mine(u).num]]) /\ Done(u)
  /\ UNCHANGED <<diskVars, holds>>

(* new_inode: the first number that is free, if there is one.              *)
NewInode(u) ==
  /\ At_(u, "new")
  /\ LET s == does[u].empty  free == Numbers \ imap IN
     IF free = {}
     THEN inode' = [inode EXCEPT ![s].count = @ - 1] /\ UNCHANGED <<imap, linked, latest, holds>>
     ELSE LET n == Min(free) IN
          /\ imap' = imap \cup {n} /\ linked' = linked \cup {n}
          /\ inode' = [inode EXCEPT ![s].num = n, ![s].dirt = TRUE]
          /\ latest' = [latest EXCEPT ![n] = 0]
          /\ holds' = [holds EXCEPT ![u] = [slot |-> s, num |-> n]]
  /\ Done(u) /\ UNCHANGED <<stored, uses, waitVars>>

-----------------------------------------------------------------------------
(* write_inode, called where at is; it returns to before the wait.         *)
After(c) == [c EXCEPT !.at = CASE c.op = "sync" -> "next" [] c.op = "iput" -> "put" [] OTHER -> "free"]
WriteInode_(u) ==
  /\ At_(u, "write") /\ ~Locked(u)
  /\ IF Mine(u).dirt /\ Mine(u).num # 0
     THEN LockIt(u) /\ ForBlock(u, [does[u] EXCEPT !.at = "writing"])
     ELSE Unlocked(u, Mine(u)) /\ GoOn(u, After(does[u]))
  /\ UNCHANGED <<diskVars, holds>>
HasWritten(u) ==
  /\ At_(u, "writing")
  /\ stored' = [stored EXCEPT ![Mine(u).num] = Mine(u).data]
  /\ Unlocked(u, [Mine(u) EXCEPT !.dirt = FALSE]) /\ GoOn(u, After(does[u]))
  /\ UNCHANGED <<linked, imap, latest, uses, holds>>

(* iput: not the last user, or one whose inode has no name, or a dirty     *)
(* one, which is written first.                                            *)
LetGo(i) == i.count > 1 \/ (i.num \in linked /\ ~i.dirt)
Iput(u) ==
  /\ At_(u, "put") /\ ~Locked(u)
  /\ LET c == does[u]  i == Mine(u) IN
     \/ /\ LetGo(i)
        /\ inode' = [inode EXCEPT ![c.slot].count = @ - 1]
        /\ holds' = [holds EXCEPT ![u] = Nothing_held] /\ Done(u)
     \/ /\ i.count = 1 /\ i.num \notin linked /\ ForBlock(u, [c EXCEPT !.at = "truncate"])
        /\ UNCHANGED <<inode, holds>>
     \/ /\ i.count = 1 /\ i.num \in linked /\ i.dirt /\ GoOn(u, [c EXCEPT !.at = "write"])
        /\ UNCHANGED <<inode, holds>>
  /\ UNCHANGED <<diskVars, waitVars>>
(* free_inode, after truncate: it panics if somebody uses the inode now.   *)
FreeInode(u) ==
  /\ At_(u, "truncate") /\ Mine(u).count = 1
  /\ imap' = imap \ {Mine(u).num} /\ Cleared(does[u].slot, 0)
  /\ holds' = [holds EXCEPT ![u] = Nothing_held] /\ Done(u)
  /\ UNCHANGED <<stored, linked, latest, uses>>

SyncInodes_(u) ==
  \/ /\ At_(u, "sync") /\ ~Locked(u)
     /\ GoOn(u, [does[u] EXCEPT !.at = IF Mine(u).dirt THEN "write" ELSE "next"])
     /\ UNCHANGED <<inode, diskVars, waitVars, holds>>
  \/ /\ At_(u, "next")
     /\ IF does[u].slot = NR_INODE THEN Done(u)
        ELSE GoOn(u, [does[u] EXCEPT !.at = "sync", !.slot = @ + 1])
     /\ UNCHANGED <<inode, diskVars, waitVars, holds>>

InodeNext ==
  \E u \in InodeUsers :
    \/ SleepOnInode(u) \/ RunAgain(u)
    \/ CallIget(u) \/ CallNewInode(u) \/ CallIput(u) \/ CallSync(u) \/ ChangeHeld(u) \/ LastUnlink(u)
    \/ EmptySearch(u) \/ EmptyFound(u) \/ Scan(u) \/ FoundUnlocked(u) \/ ReadInode(u) \/ HasRead(u)
    \/ NewInode(u) \/ WriteInode_(u) \/ HasWritten(u) \/ Iput(u) \/ FreeInode(u) \/ SyncInodes_(u)
InodeSpec == InodesRest /\ [][InodeNext]_inodeVars

-----------------------------------------------------------------------------
(* No inode is in memory twice, and what a user holds is the inode he got, *)
(* counted once for each user and each empty slot in use: what iget has    *)
(* found is looked at again after every sleep.                             *)
OneSlotEach ==
  /\ \A s, r \in Slots_ : inode[s].num = inode[r].num /\ inode[s].num # 0 => s = r
  /\ \A u \in InodeUsers : holds[u].slot # 0 => inode[holds[u].slot].num = holds[u].num
  /\ \A s \in Slots_ : inode[s].count = Cardinality({u \in InodeUsers : holds[u].slot = s})
                                        + Cardinality({u \in InodeUsers : does[u].empty = s})
(* An inode that is being freed has no other user, although truncate       *)
(* sleeps (panic in free_inode, fs/bitmap.c:191).                          *)
FreedAlone == \A u \in InodeUsers : does[u].at = "truncate" => Mine(u).count = 1
(* Each inode of the device is in one slot, for those who got it, until    *)
(* the last of them lets it go or frees it.                                *)
InodesApart == OneSlotEach /\ FreedAlone

(* What was changed last in an inode is in memory, or on the device if the *)
(* inode is not in memory or clean: iput writes before it lets go, and     *)
(* write_inode stores what was changed during its sleeps.                  *)
Reading(n) == \E u \in InodeUsers : does[u].at \in {"read", "reading"} /\ does[u].num = n
InodeChangesKept ==
  \A n \in linked :
    LET dirty == {s \in Having(n) : inode[s].dirt} IN
    /\ \A s \in Having(n) : ~Reading(n) => inode[s].data = latest[n]
    /\ dirty = {} => stored[n] = latest[n]

(* Whoever is woken from the queue of an inode finds its head ("Warning:   *)
(* *P = NULL", kernel/sched.c:286).                                        *)
InodeQueueKept == \A u \in awake : sleeps[u] # 0 => i_wait[sleeps[u]] # NoInodeUser
===============================================================================
