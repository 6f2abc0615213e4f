------------------------------ MODULE KernelHeap ------------------------------
(***************************************************************************)
(* The kernel heap (memory-manager/secondary/heap.cpp) over its slab caches*)
(* (secondary/slab/slab.hpp).  kernelHeap picks a cache by the logarithm   *)
(* of the size; a cache keeps its slabs in trees by state and hands out    *)
(* objects from the queue of one slab.  The queue is intrusive: the first  *)
(* word of a queued object is the link to the next, and the slab's header  *)
(* lies in front of its objects, so that objects that reach beyond their   *)
(* slab meet the header and the objects of the slab behind it.             *)
(*                                                                         *)
(* Addresses count units of 8 bytes, the smallest object; cache i has      *)
(* objects of 2^i units.  LockingMechanism does nothing: a call is one     *)
(* step, by the one processor that uses the heap.  Where the code follows  *)
(* a pointer that has been overwritten, the model stops ("undefined").     *)
(***************************************************************************)
EXTENDS Integers, FiniteSetsExt

CONSTANTS Caches,     \* kernelAllocatorCaches.size(), 9
          LargeFrom,  \* the first cache with large slabs, 7
          PageUnits,  \* 4 KiB in units, 512
          HeapPages,  \* pages vm_buddy has
          LargePages, \* pages of a large slab, 512
          Header,     \* offset of a slab's first object
          MaxExp,     \* requests of 2^1 to 2^MaxExp bytes, 12
          MaxFrees,   \* bound on the calls of deallocate()
          Stale,      \* sets of pages on which a slab_size may be found
          Null, Junk  \* no object, and what nobody has meant to be there

Cache == 0 .. (Caches - 1)
Size(i) == 2^i \* of an object, in units

\* A slab's memory, in pages.
PagesOf(i) == IF i >= LargeFrom THEN LargePages ELSE 1
Limit == (HeapPages + 1) * PageUnits + Header
Unit == 0 .. Limit

\* Sizes divide a page, a header fits into one and is smaller than a large
\* object.
ASSUME GeometryAssumption ==
  /\ Caches \in Nat /\ LargeFrom \in Nat /\ HeapPages \in Nat
  /\ LargePages \in Nat \ {0} /\ PageUnits \in Nat \ {0}
  /\ Header \in 1 .. (PageUnits - 1)
  /\ \A i \in Cache : /\ Size(i) \in Nat \ {0}
                      /\ PageUnits % Size(i) = 0
                      /\ i >= LargeFrom => Header < Size(i)
  /\ Null \notin Unit /\ Junk \notin Unit

VARIABLES slab,    \* the slabs by first page: [cache, state, head, size, max]
          link,    \* the first word of each unit: link of a queued object
          mark,    \* slab_size of each page, in units, or what was found there
          live,    \* the objects handed out: <<address, slab it came from>>
          lost,    \* objects nobody has and no queue holds
          smashed, \* slabs whose header has been stored into
          past,    \* history: has an object beyond its slab left a queue?
          booted,  \* caches initialized
          frees,   \* calls of deallocate() so far
          status   \* "ok", or how the kernel stopped

vars == <<slab, link, mark, live, lost, smashed, past, booted, frees, status>>

\* Mutant: a large slab gets one page.
MutUsedPages == DOMAIN slab

UsedPages == UNION { p .. (p + PagesOf(slab[p].cache) - 1) : p \in DOMAIN slab }

\* The blocks vm_buddy could give; alloc() without free() always gives the
\* lowest.
Vacant(i) == { p \in 0 .. (HeapPages - PagesOf(i)) :
                 /\ p % PagesOf(i) = 0
                 /\ p .. (p + PagesOf(i) - 1) \cap UsedPages = {} }

Base(p) == p * PageUnits
HeaderOf(p) == Base(p) .. (Base(p) + Header - 1)
Extent(a, i) == a .. (a + Size(i) - 1)

\* The loop of slab() (slab.hpp:219-234) runs to `address + len` inclusive
\* after address has been moved behind the header.
Objects(p, i) ==
  LET first == Base(p) + Header
  IN  { a \in first .. (first + PagesOf(i) * PageUnits) : (a - first) % Size(i) = 0 }

Inside(a, p) == /\ a >= Base(p) + Header
                /\ Extent(a, slab[p].cache)
                     \subseteq Base(p) .. (Base(p + PagesOf(slab[p].cache)) - 1)

\* The page list lies in memory nobody has cleared, and RawPage's operator=
\* leaves slab_size out (page.hpp:29-34): a page, and what phys_to_page() finds
\* in front of the list for the heap's first, may seem to be marked.
Init == /\ slab = <<>>
        /\ link = [a \in Unit |-> Null]
        /\ \E stale \in Stale : mark = [p \in 0 .. HeapPages |-> IF p \in stale THEN Junk ELSE 0]
        /\ live = {} /\ lost = {} /\ smashed = {}
        /\ past = FALSE
        /\ booted = 0
        /\ frees = 0
        /\ status = "ok"

\* createSlab(): the slab's fields, the links and the marks.  A page is
\* marked when an object starts at its first byte, so the first page of a
\* slab never is by the slab, and the page behind it may be.
NewSlab(p, i) ==
  [cache |-> i, state |-> "free", head |-> Base(p) + Header,
   size |-> Cardinality(Objects(p, i)), max |-> Cardinality(Objects(p, i)) - 1]

Inserted(slabs, p, s) == [q \in DOMAIN slabs \cup {p} |-> IF q = p THEN s ELSE slabs[q]]

\* The header overwrites what lies there, and each object gets its link.
NewLinks(p, i) ==
  [a \in Unit |-> IF a \in HeaderOf(p) THEN Junk
                  ELSE IF a \notin Objects(p, i) THEN link[a]
                  ELSE IF a + Size(i) \in Objects(p, i) THEN a + Size(i) ELSE Null]

NewMarks(p, i) ==
  [q \in 0 .. HeapPages |-> IF Base(q) \in Objects(p, i) THEN Size(i) ELSE mark[q]]

\* The slabs whose header the links of a new one overwrite.
Overrun(p, i) == { q \in DOMAIN slab : HeaderOf(q) \cap Objects(p, i) # {} }

\* kernelHeap::init(): the caches are initialized in turn, each with a slab.
InitCache == /\ status = "ok"
             /\ booted \in Cache
             /\ Vacant(booted) # {}
             /\ LET p == Min(Vacant(booted))
                IN  /\ slab' = Inserted(slab, p, NewSlab(p, booted))
                    /\ link' = NewLinks(p, booted)
                    /\ mark' = NewMarks(p, booted)
                    /\ smashed' = smashed \cup Overrun(p, booted)
             /\ booted' = booted + 1
             /\ UNCHANGED <<live, lost, past, frees, status>>

Slabs(i, s) == { p \in DOMAIN slab : slab[p].cache = i /\ slab[p].state = s }

\* kernelHeap::allocate(): the cache of a request for 2^e bytes.
CacheFor(e) == e - 1

Ready(i) == status = "ok" /\ booted = Caches /\ i \in Cache

\* Mutant: the head stays.
MutDequeued(h, lk, s) == [h EXCEPT !.size = @ - 1, !.state = s]

\* Taking the head of a queue; the slab is then in state s.
Dequeued(h, lk, s) == [h EXCEPT !.head = lk[h.head], !.size = @ - 1, !.state = s]

\* The header is intact and the links have led to an object so far.
Usable(p) == p \notin smashed /\ slab[p].head \in Unit

\* From now on the caller owns the object and may have stored into it: links
\* and headers that lie there are lost.
Owned(x, lk, hit) ==
  LET mine == Extent(x[1], slab[x[2]].cache)
  IN  /\ live' = live \cup {x}
      /\ past' = (past \/ ~ Inside(x[1], x[2]))
      /\ link' = [a \in Unit |-> IF a \in mine THEN Junk ELSE lk[a]]
      /\ smashed' = hit \cup { p \in DOMAIN slab' : HeaderOf(p) \cap mine # {} }

\* No partial slab, but a free one: it becomes partial and serves.
AllocFree(i) ==
  /\ Ready(i)
  /\ Slabs(i, "partial") = {}
  /\ Slabs(i, "free") # {}
  /\ LET p == Min(Slabs(i, "free"))
     IN  /\ Usable(p)
         /\ slab' = [slab EXCEPT ![p] = Dequeued(@, link, "partial")]
         /\ Owned(<<slab[p].head, p>>, link, smashed)
  /\ UNCHANGED <<mark, lost, booted, frees, status>>

\* The partial slab serves and keeps at least one object.
AllocPartial(i) ==
  /\ Ready(i)
  /\ \E p \in Slabs(i, "partial") :
       /\ Usable(p)
       /\ slab[p].size > 1
       /\ slab' = [slab EXCEPT ![p] = Dequeued(@, link, "partial")]
       /\ Owned(<<slab[p].head, p>>, link, smashed)
  /\ UNCHANGED <<mark, lost, booted, frees, status>>

\* It serves its last object, becomes full, and the allocation is "retried":
\* a new slab becomes partial and loses its first object, which the inner
\* call returns to nobody.  (There is never a free slab here: caches have one
\* slab that is free or partial.)
AllocLast(i) ==
  /\ Ready(i)
  /\ Vacant(i) # {}
  /\ \E p \in Slabs(i, "partial") :
       LET q == Min(Vacant(i))
           fresh == NewSlab(q, i)
       IN  /\ Usable(p)
           /\ slab[p].size = 1
           /\ slab' = Inserted([slab EXCEPT ![p] = Dequeued(@, link, "full")], q,
                               Dequeued(fresh, NewLinks(q, i), "partial"))
           /\ Owned(<<slab[p].head, p>>, NewLinks(q, i), smashed \cup Overrun(q, i))
           /\ mark' = NewMarks(q, i)
           /\ lost' = lost \cup {<<fresh.head, q>>}
  /\ UNCHANGED <<booted, frees, status>>

Stop(how) == /\ status' = how
             /\ UNCHANGED <<slab, link, mark, live, lost, smashed, past, booted, frees>>

\* vm_buddy has no page for the new slab: panic (heap.cpp:24-25).
HeapOutOfMemory(i) == /\ Ready(i)
                      /\ Vacant(i) = {}
                      /\ \E p \in Slabs(i, "partial") : Usable(p) /\ slab[p].size = 1
                      /\ Stop("out of memory")

\* The slab in use has lost its header or its queue.
AllocUndefined(i) == /\ Ready(i)
                     /\ \E p \in Slabs(i, "partial") \cup Slabs(i, "free") : ~ Usable(p)
                     /\ Stop("undefined")

\* The logarithm selects a cache behind the end of the array.
AllocWild(e) == /\ status = "ok" /\ booted = Caches
                /\ CacheFor(e) \notin Cache
                /\ Stop("wild")

Allocate == \E e \in 1 .. MaxExp :
              \/ AllocFree(CacheFor(e)) \/ AllocPartial(CacheFor(e))
              \/ AllocLast(CacheFor(e)) \/ HeapOutOfMemory(CacheFor(e))
              \/ AllocUndefined(CacheFor(e)) \/ AllocWild(e)

\* Mutant: the page behind the object.
MutPageOf(a) == (a \div PageUnits) + 1

PageOf(a) == a \div PageUnits

\* kernelHeap::deallocate(): on a page that seems not marked, nothing happens.
FreeIgnored(x) == /\ mark[PageOf(x[1])] = 0
                  /\ lost' = lost \cup {x}
                  /\ live' = live \ {x}
                  /\ frees' = frees + 1
                  /\ UNCHANGED <<slab, link, mark, smashed, past, booted, status>>

\* The slab is looked for at the start of the object's page.
Found(x) == PageOf(x[1]) \in DOMAIN slab \ smashed

Allocated(q) == slab[q].size # 0 /\ slab[q].size - 1 < slab[q].max

\* The object becomes the head of that slab's queue.
FreeInto(x) == LET q == PageOf(x[1])
               IN  /\ slab' = [slab EXCEPT ![q].head = x[1], ![q].size = @ + 1]
                   /\ link' = [link EXCEPT ![x[1]] = slab[q].head]

\* slabCache::deallocate() of an object in a slab that is neither full nor
\* whole.  The index of the cache does not matter: it is used only for a slab
\* that was full, and the assertion has stopped those.
FreeObject(x) == /\ mark[PageOf(x[1])] # 0
                 /\ Found(x)
                 /\ Allocated(PageOf(x[1]))
                 /\ FreeInto(x)
                 /\ live' = live \ {x}
                 /\ frees' = frees + 1
                 /\ UNCHANGED <<mark, lost, smashed, past, booted, status>>

\* size() - 1 of an empty queue is the largest size_t (slab.hpp:143).
FreeAsserts(x) == /\ mark[PageOf(x[1])] # 0
                  /\ Found(x)
                  /\ ~ Allocated(PageOf(x[1]))
                  /\ Stop("assertion")

\* What lies there is no slab: a page inside a large slab, or none.
FreeUndefined(x) == /\ mark[PageOf(x[1])] # 0
                    /\ ~ Found(x)
                    /\ Stop("undefined")

Deallocate == /\ status = "ok"
              /\ frees < MaxFrees
              /\ \E x \in live : \/ FreeIgnored(x) \/ FreeObject(x)
                                 \/ FreeAsserts(x) \/ FreeUndefined(x)

\* An owner stores into its object again.
Store == /\ status = "ok"
         /\ UNCHANGED <<slab, mark, lost, booted, frees, status>>
         /\ \E x \in live : Owned(x, link, smashed)

Next == InitCache \/ Allocate \/ Deallocate \/ Store

Spec == Init /\ [][Next]_vars
-----------------------------------------------------------------------------
(***************************************************************************)
(* Properties                                                              *)
(***************************************************************************)
Overlap(x, y) == Extent(x[1], slab[x[2]].cache) \cap Extent(y[1], slab[y[2]].cache) # {}

\* An object has been given back that lies behind the first page of a large
\* slab, on a page whose slab_size nobody has written.
Misled == \E x \in live : mark[PageOf(x[1])] = Junk /\ PageOf(x[1]) \notin DOMAIN slab

\* Two owners share memory, or an owner has the header of a slab, only
\* through an object that reaches beyond the slab it came from; and the heap
\* follows an overwritten pointer only after such an object has left a queue,
\* or where a slab_size that was never written makes it see a slab.
HarmOnlyPastEnd ==
  /\ \A x, y \in live : x # y /\ Overlap(x, y) => ~ Inside(x[1], x[2]) \/ ~ Inside(y[1], y[2])
  /\ \A x \in live, p \in DOMAIN slab :
       Extent(x[1], slab[x[2]].cache) \cap HeaderOf(p) # {} => ~ Inside(x[1], x[2])
  /\ status = "undefined" => past \/ Misled

\* Until then every object is in the queue of its slab, with one owner, or
\* lost: to a retry, one for each slab that became full, or to a free() that
\* was ignored.  A full slab is empty.
ObjectsAccounted ==
  ~ past =>
    \A p \in DOMAIN slab :
      /\ Cardinality(Objects(p, slab[p].cache))
           = slab[p].size + Cardinality({ x \in live \cup lost : x[2] = p })
      /\ slab[p].state = "full" => slab[p].size = 0
      /\ slab[p].state = "free" => slab[p].size = slab[p].max + 1

\* "Tried to free non-allocated address" (slab.hpp:143): the assertion does
\* not fire for an object that its owner gives back.
OwnersMayFree ==
  [][\A x \in live : status = "ok" /\ FreeAsserts(x) => ~ Inside(x[1], x[2])]_vars
-----------------------------------------------------------------------------
(***************************************************************************)
(* Why: the inductive invariant                                            *)
(***************************************************************************)
PagesIn(p) == p .. (p + PagesOf(slab[p].cache) - 1)
Grid(p) == Objects(p, slab[p].cache)
AllObjects == UNION { Grid(p) : p \in DOMAIN slab }
Taken == live \cup lost

\* What is still in the queue of slab p: the objects that nobody has.
Queued(p) == { a \in Grid(p) : <<a, p>> \notin Taken }

Record == [cache : Cache, state : {"free", "partial", "full"}, head : Unit \cup {Null, Junk},
           size : Int, max : Int]

HeapType == /\ DOMAIN slab \subseteq 0 .. HeapPages
            /\ slab = [p \in DOMAIN slab |-> slab[p]]
            /\ \A p \in DOMAIN slab : slab[p] \in Record
            /\ link \in [Unit -> Unit \cup {Null, Junk}]
            /\ mark \in [0 .. HeapPages -> Nat \cup {Junk}]
            /\ Taken \subseteq Unit \X DOMAIN slab
            /\ smashed \subseteq DOMAIN slab
            /\ past \in BOOLEAN
            /\ booted \in 0 .. Caches

\* Slabs lie in the heap and share no page.
SlabsApart == /\ \A p \in DOMAIN slab : p + PagesOf(slab[p].cache) <= HeapPages
              /\ \A p, q \in DOMAIN slab : p # q => PagesIn(p) \cap PagesIn(q) = {}

\* Only places of objects circulate as heads, links and objects.
OnGrids == /\ \A p \in DOMAIN slab : slab[p].head \in AllObjects \cup {Null, Junk}
           /\ \A a \in Unit : link[a] \in AllObjects \cup {Null, Junk}
           /\ \A x \in live : x[1] \in AllObjects

\* Slabs mark pages behind small slabs.
MarksBehind == \A q \in 0 .. HeapPages :
                 mark[q] \notin {0, Junk} => q - 1 \in DOMAIN slab /\ slab[q - 1].cache < LargeFrom

\* While the caches are initialized, no block is free below one that is used.
Booting == booted < Caches =>
             /\ ~ past /\ Taken = {}
             /\ \A u \in UsedPages, q \in 0 .. HeapPages :
                  q <= u /\ q % PagesOf(booted) = 0
                    => q .. (q + PagesOf(booted) - 1) \cap UsedPages # {}

\* The queue begins with one of the objects in it, and from any that lies in
\* the slab a link leads to another, to each from one.  So it does not lose
\* one before it reaches those behind the end.
QueuesWhole == \A p \in DOMAIN slab :
                 /\ slab[p].head \in Queued(p)
                 /\ \A a \in Queued(p) : Inside(a, p) =>
                      /\ link[a] \in Queued(p) \ {slab[p].head}
                      /\ \A b \in Queued(p) : Inside(b, p) /\ link[b] = link[a] => b = a

TakenApart == /\ live \cap lost = {}
              /\ \A x \in Taken : x[1] \in Grid(x[2]) /\ Inside(x[1], x[2])

SlabsCounted ==
  \A p \in DOMAIN slab :
    /\ Cardinality(Grid(p)) = slab[p].size + Cardinality({ x \in Taken : x[2] = p })
    /\ slab[p].state # "full"
    /\ slab[p].state = "free" => slab[p].size = slab[p].max + 1

\* The inductive invariant.
HeapInv == /\ HeapType /\ SlabsApart /\ OnGrids /\ MarksBehind /\ Booting
           /\ ~ past => /\ smashed = {} /\ (status = "undefined" => Misled)
                        /\ QueuesWhole /\ TakenApart /\ SlabsCounted
=============================================================================
