---------------------------- MODULE BuddyAllocator ----------------------------
(***************************************************************************)
(* One BuddyAllocator (memory-manager/primary/buddy.hpp:40-252) as the     *)
(* kernel uses its two stand-alone instances, pageAllocator (boot_mem.cpp) *)
(* and vm_buddy (heap.cpp): blocks are allocated and never given back.     *)
(* Processors call alloc() and wait for the instance's ticket lock; the    *)
(* holder searches the free lists upwards, splits the block it removed and *)
(* zeroes what it returns, while the owners of other blocks write to them. *)
(*                                                                         *)
(* The unit of memory is the 4 KiB page, and an order is counted from      *)
(* min_order: k stands for the code's order min_order + k.  Addresses are  *)
(* page numbers relative to `base`.  Of a page only its first word is      *)
(* kept, which is where a free block stores the next block of its list.    *)
(***************************************************************************)
EXTENDS Integers, Sequences

CONSTANTS CPU,        \* processors calling alloc()
          MaxK,       \* max_order - min_order
          Size,       \* Size[k] = 1 << k, the pages of a block of order k
          MinOrder,   \* min_order, 9: the order of a page in 8-byte words
          Sizes,      \* sizes in bytes the callers ask for
          Boot,       \* what the region may contain before init()
          Junk,       \* what owners write in their memory
          Null        \* nullptr, and the zero word

Page == 0 .. (Size[MaxK] - 1)

\* log2(), which rounds up (buddy.hpp:155-161).
Log2(n) == CHOOSE r \in 0 .. 30 : 2^r >= n /\ \A q \in 0 .. (r - 1) : 2^q < n

\* max(min_order, log2(size >> 3)), counted from min_order (buddy.hpp:80).
OrderOf(size) == LET words == Log2(size \div 8)
                 IN  IF words <= MinOrder THEN 0 ELSE words - MinOrder

ASSUME SizeAssumption ==
  /\ MaxK \in Nat
  /\ Size \in [0 .. MaxK -> Nat \ {0}]
  /\ Size[0] = 1
  /\ \A k \in 0 .. (MaxK - 1) : Size[k + 1] = 2 * Size[k]
  /\ \A k \in 0 .. MaxK : \A j \in 0 .. k : Size[k] % Size[j] = 0

\* The sizes asked for are small enough for the int arithmetic of log2();
\* 0 stands for the argument of a processor that is not in a call.
ASSUME RequestAssumption == \A s \in Sizes \cup {0} : OrderOf(s) \in Nat

ASSUME BootAssumption == Boot \subseteq [Page -> Page \cup {Null}]

ASSUME NullAssumption == Null \notin Nat /\ Junk \subseteq Page \cup {Null}

VARIABLES queue,      \* the ticket lock: the CPUs with a ticket, holder first
          list,       \* freelist.list: head of the free list of each order
          word,       \* the first word of each page
          allocated,  \* the blocks handed out so far: <<first page, order>>
          pc,         \* where each CPU is in alloc()
          size,       \* alloc()'s argument
          ord,        \* alloc()'s ord
          block       \* alloc()'s block

vars == <<queue, list, word, allocated, pc, size, ord, block>>

Span(b, k) == b .. (b + Size[k] - 1)

\* The block that b was split from or will merge with: b's bit k flipped
\* (buddy.hpp:216-218), b being a multiple of Size[k].
BuddyOf(b, k) == IF b % Size[k + 1] = 0 THEN b + Size[k] ELSE b - Size[k]

\* Freelist::add (buddy.hpp:175-185).
Add(b, k) == /\ word' = [word EXCEPT ![b] = list[k]]
             /\ list' = [list EXCEPT ![k] = b]

\* Freelist::remove (buddy.hpp:187-200): the head is unlinked with line 197,
\* and line 198 then empties the list, whatever followed the head.
RemoveHead(k) == list' = [list EXCEPT ![k] = Null]

\* init() (buddy.hpp:66-76): the whole region is one free block, whose first
\* page add() has zeroed.
Init == /\ queue = <<>>
        /\ list = [k \in 0 .. MaxK |-> IF k = MaxK THEN 0 ELSE Null]
        /\ \E w \in Boot : word = [w EXCEPT ![0] = Null]
        /\ allocated = {}
        /\ pc = [c \in CPU |-> "idle"]
        /\ size = [c \in CPU |-> 0]
        /\ ord = [c \in CPU |-> 0]
        /\ block = [c \in CPU |-> Null]

\* alloc(): lock.lock() draws a ticket (buddy.hpp:79).
Call(c) == /\ pc[c] = "idle"
           /\ \E s \in Sizes : size' = [size EXCEPT ![c] = s]
           /\ queue' = Append(queue, c)
           /\ pc' = [pc EXCEPT ![c] = "lock"]
           /\ UNCHANGED <<list, word, allocated, ord, block>>

\* Its turn comes, and the search starts at the order asked for.
Acquire(c) == /\ pc[c] = "lock"
              /\ queue # <<>> /\ Head(queue) = c
              /\ ord' = [ord EXCEPT ![c] = OrderOf(size[c])]
              /\ pc' = [pc EXCEPT ![c] = "search"]
              /\ UNCHANGED <<queue, list, word, allocated, size, block>>

\* An iteration of the search that finds the list of this order empty.
SearchOn(c) == /\ pc[c] = "search"
               /\ ord[c] <= MaxK
               /\ list[ord[c]] = Null
               /\ ord' = [ord EXCEPT ![c] = @ + 1]
               /\ UNCHANGED <<queue, list, word, allocated, pc, size, block>>

\* Mutant: the block stays on its list.
MutFoundKept(c) == /\ pc[c] = "search"
                   /\ ord[c] <= MaxK
                   /\ list[ord[c]] # Null
                   /\ block' = [block EXCEPT ![c] = list[ord[c]]]
                   /\ pc' = [pc EXCEPT ![c] = "split"]
                   /\ UNCHANGED <<queue, list, word, allocated, size, ord>>

\* An iteration that finds a block and leaves the search with it.
Found(c) == /\ pc[c] = "search"
            /\ ord[c] <= MaxK
            /\ list[ord[c]] # Null
            /\ block' = [block EXCEPT ![c] = list[ord[c]]]
            /\ RemoveHead(ord[c])
            /\ pc' = [pc EXCEPT ![c] = "split"]
            /\ UNCHANGED <<queue, word, allocated, size, ord>>

\* lock.unlock() and return; the locals go out of scope.
Return(c) == /\ queue' = Tail(queue)
             /\ pc' = [pc EXCEPT ![c] = "idle"]
             /\ size' = [size EXCEPT ![c] = 0]
             /\ ord' = [ord EXCEPT ![c] = 0]
             /\ block' = [block EXCEPT ![c] = Null]

\* Mutant: the search stops before the largest order (< for <=).
MutFailEarly(c) == /\ pc[c] = "search"
                   /\ ord[c] >= MaxK
                   /\ Return(c)
                   /\ UNCHANGED <<list, word, allocated>>

\* Mutant: the null pointer is returned without unlocking.
MutFailLocked(c) == /\ pc[c] = "search"
                    /\ ord[c] > MaxK
                    /\ pc' = [pc EXCEPT ![c] = "idle"]
                    /\ UNCHANGED <<queue, list, word, allocated, size, ord, block>>

\* No order has a block: a null result (buddy.hpp:107-114).
Fail(c) == /\ pc[c] = "search"
           /\ ord[c] > MaxK
           /\ Return(c)
           /\ UNCHANGED <<list, word, allocated>>

\* Mutant: the upper half is forgotten.
MutSplitDropped(c) == /\ pc[c] = "split"
                      /\ ord[c] > OrderOf(size[c])
                      /\ ord' = [ord EXCEPT ![c] = @ - 1]
                      /\ UNCHANGED <<queue, list, word, allocated, pc, size, block>>

\* An iteration of the split loop: the upper half goes to its free list.
Split(c) == /\ pc[c] = "split"
            /\ ord[c] > OrderOf(size[c])
            /\ ord' = [ord EXCEPT ![c] = @ - 1]
            /\ Add(BuddyOf(block[c], ord[c] - 1), ord[c] - 1)
            /\ UNCHANGED <<queue, allocated, pc, size, block>>

\* The block has the order asked for: it is zeroed and returned.
Finish(c) == /\ pc[c] = "split"
             /\ ord[c] = OrderOf(size[c])
             /\ word' = [p \in Page |-> IF p \in Span(block[c], ord[c]) THEN Null
                                                                       ELSE word[p]]
             /\ allocated' = allocated \cup {<<block[c], ord[c]>>}
             /\ Return(c)
             /\ UNCHANGED list

\* The owner of an allocated block stores into it.
Write == /\ \E x \in allocated : \E p \in Span(x[1], x[2]), v \in Junk :
              word' = [word EXCEPT ![p] = v]
         /\ UNCHANGED <<queue, list, allocated, pc, size, ord, block>>

Step(c) == Acquire(c) \/ SearchOn(c) \/ Found(c) \/ Fail(c) \/ Split(c) \/ Finish(c)

Next == (\E c \in CPU : Call(c) \/ Step(c)) \/ Write

Spec == Init /\ [][Next]_vars

\* A processor inside alloc() keeps executing, and the lock is fair.
FairSpec == Spec /\ \A c \in CPU : WF_vars(Step(c))
-----------------------------------------------------------------------------
(***************************************************************************)
(* Properties                                                              *)
(***************************************************************************)
\* Every variable keeps its type: what add() and buddy_of() compute is a
\* page of the region, and only callers of alloc() hold tickets.
TypeOK == /\ queue \in Seq(CPU)
          /\ list \in [0 .. MaxK -> Page \cup {Null}]
          /\ word \in [Page -> Page \cup {Null}]
          /\ allocated \subseteq Page \X (0 .. MaxK)
          /\ pc \in [CPU -> {"idle", "lock", "search", "split"}]
          /\ size \in [CPU -> Sizes \cup {0}]
          /\ ord \in [CPU -> Nat]
          /\ block \in [CPU -> Page \cup {Null}]

Inside(c) == pc[c] \in {"search", "split"}

Apart(b, j, d, k) == b + Size[j] <= d \/ d + Size[k] <= b

\* No two blocks overlap, be they handed out, on a free list or in the hands
\* of the processor that is splitting one: alloc() never returns memory that
\* somebody has, and nobody's stores reach a link of a free list.
NoSharedMemory ==
  /\ \A x, y \in allocated : x = y \/ Apart(x[1], x[2], y[1], y[2])
  /\ \A k \in 0 .. MaxK : list[k] # Null =>
       /\ \A x \in allocated : Apart(x[1], x[2], list[k], k)
       /\ \A j \in 0 .. MaxK : j # k /\ list[j] # Null => Apart(list[j], j, list[k], k)
  /\ \A c \in CPU : pc[c] = "split" =>
       /\ \A x \in allocated : Apart(x[1], x[2], block[c], ord[c])
       /\ \A k \in 0 .. MaxK : list[k] # Null => Apart(list[k], k, block[c], ord[c])

\* Every page of the region is in a block that is handed out, listed or being
\* split: although remove() empties the whole list (buddy.hpp:198), no memory
\* is dropped as long as nothing is freed.
NothingLost ==
  \A p \in Page :
    \/ \E x \in allocated : p \in Span(x[1], x[2])
    \/ \E k \in 0 .. MaxK : list[k] # Null /\ p \in Span(list[k], k)
    \/ \E c \in CPU : pc[c] = "split" /\ p \in Span(block[c], ord[c])

\* The block at the head of a list is its only one, whatever the owners of
\* allocated memory write: this is why line 198 does no harm here.
OnePerList == \A k \in 0 .. MaxK : list[k] # Null => word[list[k]] = Null

\* The lock excludes: two processors are never inside alloc() at a time.
MutualExclusion == \A c, d \in CPU : Inside(c) /\ Inside(d) => c = d

\* FillMode::ZERO: all of a block is zero when alloc() returns it, stores by
\* the owners of other blocks notwithstanding.
ReturnedZeroed ==
  [][\A x \in allocated' \ allocated : \A p \in Span(x[1], x[2]) : word'[p] = Null]_vars

\* A block that is handed out holds at least the bytes asked for: "'size' is
\* not guaranteed to be a power of two. (Hence the manual pow2)" (buddy.hpp:122).
LargeEnough ==
  [][\A c \in CPU : Finish(c) => size[c] <= 4096 * Size[ord[c]]]_vars

\* The inductive invariant behind these.  A block lies in the region at a
\* multiple of its size; the lists the search passed are empty; and memory
\* that is neither handed out nor being split sits in listed blocks as large
\* as it can be, so that a null pointer is never returned too early.
InPlace(b, k) == /\ b \in Page
                 /\ k \in 0 .. MaxK
                 /\ b % Size[k] = 0
                 /\ b + Size[k] <= Size[MaxK]

AllInPlace == /\ \A x \in allocated : InPlace(x[1], x[2])
              /\ \A k \in 0 .. MaxK : list[k] # Null => InPlace(list[k], k)
              /\ \A c \in CPU : pc[c] = "split" => InPlace(block[c], ord[c])

HolderFirst == \A c \in CPU : Inside(c) => queue # <<>> /\ Head(queue) = c

PassedEmpty ==
  \A c \in CPU : Inside(c) =>
    /\ OrderOf(size[c]) <= ord[c]
    /\ \A j \in 0 .. MaxK : OrderOf(size[c]) <= j /\ j < ord[c] => list[j] = Null

Unused(b, k) == /\ \A x \in allocated : Apart(x[1], x[2], b, k)
                /\ \A c \in CPU : pc[c] = "split" => Apart(block[c], ord[c], b, k)

FreeIsListed ==
  \A k \in 0 .. MaxK : \A b \in Page : InPlace(b, k) /\ Unused(b, k) =>
    \E j \in k .. MaxK : /\ list[j] # Null
                         /\ list[j] <= b
                         /\ b + Size[k] <= list[j] + Size[j]

IInv == /\ TypeOK
        /\ HolderFirst
        /\ AllInPlace
        /\ PassedEmpty
        /\ NoSharedMemory
        /\ OnePerList
        /\ NothingLost
        /\ FreeIsListed

\* What alloc()'s callers see is a PageSource: blocks are aligned, new and of
\* the order asked for, and a null pointer is returned only when no aligned
\* block of that order is left anywhere in the region.
Pending == [c \in CPU |-> IF pc[c] = "idle" THEN Null ELSE OrderOf(size[c])]

Source == INSTANCE PageSource WITH
  Orders <- { OrderOf(s) : s \in Sizes },
  None <- Null,
  owned <- allocated,
  pending <- Pending

ImplementsPageSource == Source!Spec

\* Every call of alloc() returns, however the processors compete for the lock.
AllocReturns == \A c \in CPU : pc[c] = "lock" ~> pc[c] = "idle"
===============================================================================
