-------------------------------- MODULE Malloc --------------------------------
(***************************************************************************)
(* The kernel's malloc and free_s (lib/malloc.c): pages cut into objects   *)
(* of one size, a chain of descriptors of such pages for every size.       *)
(*                                                                         *)
(* malloc keeps interrupts off, but get_free_page may sleep: another task  *)
(* can run in between.  An object is its page and its offset.              *)
(***************************************************************************)
EXTENDS Naturals, FiniteSets, Sequences, SequencesExt

CONSTANTS Callers,      \* the tasks that allocate
          Frames,       \* the pages get_free_page can return
          PAGE_SIZE,
          BucketSize,   \* the sizes in bucket_dir[], in ascending order
          DescPerPage,  \* how many descriptors init_bucket_desc makes of a page
          MaxObjects    \* bound: objects a caller holds

VARIABLES
  chain,              \* bucket_dir[].chain
  free_bucket_desc,   \* the list of unused descriptors
  desc,               \* the descriptors: [page, free, refcnt, size]
  frames,             \* the pages that are free
  request,            \* per caller: where it is in malloc
  objects             \* per caller: the objects it holds, [page, at, len]

mallocVars == <<chain, free_bucket_desc, desc, frames, request, objects>>

Buckets == 1..Len(BucketSize)
Largest == BucketSize[Len(BucketSize)]

ASSUME MallocAssumption ==
  /\ Frames \subseteq Nat /\ PAGE_SIZE \in Nat
  /\ BucketSize \in Seq(1..PAGE_SIZE) /\ BucketSize # <<>>
  /\ \A b, c \in Buckets : b < c => BucketSize[b] < BucketSize[c]
  /\ DescPerPage \in Nat \ {0}

(* Descriptors are named by their page and their place in it.              *)
Desc == Frames \X (1..DescPerPage)
Unused == [page |-> 0, free |-> <<>>, refcnt |-> 0, size |-> 0]
Idle == [at |-> "idle", len |-> 0, desc |-> <<>>]

MallocInit ==
  /\ chain = [b \in Buckets |-> <<>>]
  /\ free_bucket_desc = <<>>
  /\ desc = [d \in Desc |-> Unused]
  /\ frames = Frames
  /\ request = [t \in Callers |-> Idle]
  /\ objects = [t \in Callers |-> {}]

Bucket(len) == CHOOSE b \in Buckets : /\ BucketSize[b] >= len
                                      /\ \A c \in Buckets : BucketSize[c] >= len => b <= c

(* Where the first descriptor of the chain with a free object is.          *)
HasFree(d) == desc[d].free # <<>>
FirstFree(b) == {i \in DOMAIN chain[b] : /\ HasFree(chain[b][i])
                                         /\ \A j \in 1..(i - 1) : ~HasFree(chain[b][j])}

(* get_free_page, where nothing else uses these pages: the last free one.  *)
GetFreePage == {p \in frames : \A q \in frames : q <= p}

(* The last lines of malloc, for a descriptor D[d] with a free object.     *)
Give(t, D, d, len) ==
  /\ desc' = [D EXCEPT ![d].free = Tail(@), ![d].refcnt = @ + 1]
  /\ objects' = [objects EXCEPT ![t] = @ \cup {[page |-> D[d].page, at |-> Head(D[d].free), len |-> len]}]

malloc(t) ==
  /\ request[t] = Idle /\ Cardinality(objects[t]) < MaxObjects
  /\ \E len \in 1..Largest :
       LET b == Bucket(len) IN
       \/ /\ \E i \in FirstFree(b) : Give(t, desc, chain[b][i], len)
          /\ UNCHANGED <<request, free_bucket_desc>>
       \/ /\ FirstFree(b) = {} /\ free_bucket_desc # <<>>
          /\ request' = [request EXCEPT ![t] =
                           [at |-> "page", len |-> len, desc |-> Head(free_bucket_desc)]]
          /\ free_bucket_desc' = Tail(free_bucket_desc)
          /\ UNCHANGED <<desc, objects>>
       \/ /\ FirstFree(b) = {} /\ free_bucket_desc = <<>>
          /\ request' = [request EXCEPT ![t] = [at |-> "descriptors", len |-> len, desc |-> <<>>]]
          /\ UNCHANGED <<desc, objects, free_bucket_desc>>
  /\ UNCHANGED <<chain, frames>>

(* init_bucket_desc when it has its page: the new descriptors go in front. *)
NewList(p) == [i \in 1..DescPerPage |-> <<p, i>>] \o free_bucket_desc

init_bucket_desc(t) ==
  /\ request[t].at = "descriptors"
  /\ \E p \in GetFreePage :
       /\ frames' = frames \ {p}
       /\ free_bucket_desc' = Tail(NewList(p))
       /\ request' = [request EXCEPT ![t].at = "page", ![t].desc = Head(NewList(p))]
  /\ UNCHANGED <<chain, desc, objects>>

(* The page of a new descriptor is cut and the descriptor linked in.       *)
Cut(size) == [i \in 1..(PAGE_SIZE \div size) |-> (i - 1) * size]

LinkPage(t) ==
  LET d == request[t].desc  b == Bucket(request[t].len) IN
  /\ request[t].at = "page"
  /\ \E p \in GetFreePage :
       /\ frames' = frames \ {p}
       /\ Give(t, [desc EXCEPT ![d] = [page |-> p, free |-> Cut(BucketSize[b]), refcnt |-> 0,
                                       size |-> BucketSize[b]]], d, request[t].len)
       /\ chain' = [chain EXCEPT ![b] = <<d>> \o @]
       /\ request' = [request EXCEPT ![t] = Idle]
  /\ UNCHANGED free_bucket_desc

(* free_s with the size of the object, or with 0: the buckets that are too *)
(* small are passed over.  A page without objects is given back.           *)
OfPage(b, p) == {i \in DOMAIN chain[b] : desc[chain[b][i]].page = p}
Found(o, size) == CHOOSE b \in Buckets : BucketSize[b] >= size /\ OfPage(b, o.page) # {}

Kept_off(d) == desc[d].refcnt > 2     \* mutant: a page with one object is given back
Kept(d) == desc[d].refcnt > 1

free_s(t) ==
  /\ request[t] = Idle
  /\ \E o \in objects[t] : \E size \in {0, o.len} :
       LET b == Found(o, size) IN \E i \in OfPage(b, o.page) :
       LET d == chain[b][i] IN
       /\ objects' = [objects EXCEPT ![t] = @ \ {o}]
       /\ IF Kept(d)
          THEN /\ desc' = [desc EXCEPT ![d].free = <<o.at>> \o @, ![d].refcnt = @ - 1]
               /\ UNCHANGED <<chain, free_bucket_desc, frames>>
          ELSE /\ desc' = [desc EXCEPT ![d] = Unused]
               /\ chain' = [chain EXCEPT ![b] = RemoveAt(@, i)]
               /\ free_bucket_desc' = <<d>> \o free_bucket_desc
               /\ frames' = frames \cup {o.page}
  /\ UNCHANGED request

MallocNext == \E t \in Callers : malloc(t) \/ init_bucket_desc(t) \/ LinkPage(t) \/ free_s(t)
MallocSpec == MallocInit /\ [][MallocNext]_mallocVars

-----------------------------------------------------------------------------
(* What callers hold does not overlap, nor with what is free or belongs to *)
(* descriptors: the bytes of an object are its caller's alone.             *)
Bytes(o) == {<<o.page, i>> : i \in o.at..(o.at + o.len - 1)}
Held == {to \in Callers \X UNION {objects[t] : t \in Callers} : to[2] \in objects[to[1]]}
ObjectsApart ==
  /\ \A x, y \in Held : x # y => Bytes(x[2]) \cap Bytes(y[2]) = {}
  /\ \A x \in Held : /\ x[2].page \notin frames
                     /\ \E d \in Desc : /\ desc[d].page = x[2].page
                                        /\ x[2].at \notin Range(desc[d].free)
                                        /\ x[2].at + x[2].len <= PAGE_SIZE

=============================================================================
