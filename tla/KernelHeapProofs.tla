--------------------------- MODULE KernelHeapProofs ---------------------------
(***************************************************************************)
(* Proofs about KernelHeap for any number of caches, any sizes of pages,   *)
(* slabs and headers that GeometryAssumption allows, and all calls.        *)
(***************************************************************************)
EXTENDS KernelHeap, FiniteSetTheorems, WellFoundedInduction, TLAPS

-----------------------------------------------------------------------------
(***************************************************************************)
(* Numbers                                                                 *)
(***************************************************************************)
\* A set of numbers has a least one.
LEMMA LeastNumber ==
  ASSUME NEW S \in SUBSET Nat, S # {}
  PROVE  Min(S) \in S /\ \A s \in S : Min(S) <= s
<1>1. PICK x \in S : \A y \in S : ~(<<y, x>> \in OpToRel(<, Nat))
  BY NatLessThanWellFounded, WFMin
<1>2. ASSUME NEW y \in S PROVE x <= y
  <2>1. ~(y < x)
    BY <1>1 DEF OpToRel
  <2> QED BY <2>1
<1>3. \E z \in S : \A s \in S : z <= s
  BY <1>2
<1> QED BY <1>3 DEF Min

\* Sums and differences of multiples.
LEMMA Multiples ==
  ASSUME NEW d \in Nat \ {0}, NEW u \in Int, NEW v \in Int, u % d = 0, v % d = 0
  PROVE  (u + v) % d = 0 /\ (u - v) % d = 0
<1>1. u = d * (u \div d) /\ v = d * (v \div d) /\ u \div d \in Int /\ v \div d \in Int
  OBVIOUS
<1>2. u + v = d * ((u \div d) + (v \div d)) /\ u - v = d * ((u \div d) - (v \div d))
  BY <1>1
<1>3. \A k \in Int : (d * k) % d = 0
  OBVIOUS
<1> QED BY <1>1, <1>2, <1>3

LEMMA ProductMultiple ==
  ASSUME NEW d \in Nat \ {0}, NEW u \in Nat, NEW k \in Nat, u % d = 0
  PROVE  (k * u) % d = 0
<1>1. u = d * (u \div d) /\ u \div d \in Int
  OBVIOUS
<1>2. k * u = d * (k * (u \div d))
  BY <1>1
<1>3. \A j \in Int : (d * j) % d = 0
  OBVIOUS
<1>4. k * (u \div d) \in Int
  BY <1>1
<1> QED BY <1>2, <1>3, <1>4

\* Different multiples are at least d apart.
LEMMA MultiplesApart ==
  ASSUME NEW d \in Nat \ {0}, NEW u \in Int, NEW v \in Int, u % d = 0, v % d = 0, u < v
  PROVE  u + d <= v
<1>1. (v - u) % d = 0
  BY Multiples
<1>2. \A w \in Int : w > 0 /\ w % d = 0 => w >= d
  OBVIOUS
<1> QED BY <1>1, <1>2

-----------------------------------------------------------------------------
(***************************************************************************)
(* Pages                                                                   *)
(***************************************************************************)
LEMMA Sizes ==
  ASSUME NEW i \in Cache
  PROVE  /\ Size(i) \in Nat \ {0} /\ PagesOf(i) \in Nat \ {0} /\ PageUnits % Size(i) = 0
         /\ PageUnits \in Nat \ {0} /\ Header \in 1 .. (PageUnits - 1) /\ HeapPages \in Nat
         /\ i \in Nat /\ LargeFrom \in Nat
<1>1. Size(i) \in Nat \ {0} /\ PageUnits % Size(i) = 0
  BY GeometryAssumption
<1>2. i \in Nat
  BY GeometryAssumption DEF Cache
<1> QED BY <1>1, <1>2, GeometryAssumption DEF PagesOf

LEMMA Bases ==
  ASSUME NEW p \in Nat
  PROVE  /\ Base(p) \in Nat /\ Base(p + 1) = Base(p) + PageUnits
         /\ \A n \in Nat : Base(p + n) = Base(p) + n * PageUnits
<1>1. PageUnits \in Nat
  BY GeometryAssumption
<1>2. \A n \in Nat : (p + n) * PageUnits = p * PageUnits + n * PageUnits
  BY <1>1
<1>3. p * PageUnits \in Nat /\ (p + 1) * PageUnits = p * PageUnits + PageUnits
  BY <1>1
<1> QED BY <1>2, <1>3 DEF Base

LEMMA BasesGrow ==
  ASSUME NEW p \in Nat, NEW q \in Nat, p <= q
  PROVE  Base(p) <= Base(q)
<1>1. PICK n \in Nat : q = p + n
  <2>1. q - p \in Nat /\ q = p + (q - p)
    OBVIOUS
  <2> QED BY <2>1
<1>2. n * PageUnits \in Nat
  BY GeometryAssumption
<1> QED BY <1>1, <1>2, Bases

\* The pages behind p begin behind all of p.
LEMMA NextBase ==
  ASSUME NEW p \in Nat, NEW q \in Nat, p < q
  PROVE  Base(p) + PageUnits <= Base(q)
  BY Bases, BasesGrow, p + 1 <= q

LEMMA PageBounds ==
  ASSUME NEW a \in Nat
  PROVE  /\ PageOf(a) \in Nat
         /\ Base(PageOf(a)) <= a /\ a < Base(PageOf(a)) + PageUnits
<1>1. PageUnits \in Nat \ {0}
  BY GeometryAssumption
<1>2. \A d \in Nat \ {0} : /\ a \div d \in Nat
                           /\ d * (a \div d) <= a /\ a < d * (a \div d) + d
  OBVIOUS
<1> QED BY <1>1, <1>2 DEF PageOf, Base

\* Memory between two pages is on a page between them.
LEMMA PageBetween ==
  ASSUME NEW p \in Nat, NEW q \in Nat, NEW a \in Base(p) .. (Base(q) - 1)
  PROVE  PageOf(a) \in p .. (q - 1)
<1>1. a \in Nat /\ PageUnits \in Nat \ {0} /\ Base(p) \in Nat /\ Base(q) \in Nat
  BY Bases, GeometryAssumption
<1>2. PageOf(a) >= p
  <2> SUFFICES ASSUME PageOf(a) < p PROVE FALSE
    BY <1>1, PageBounds
  <2> QED BY <1>1, PageBounds, NextBase, Bases
<1>3. PageOf(a) < q
  <2> SUFFICES ASSUME q <= PageOf(a) PROVE FALSE
    BY <1>1, PageBounds
  <2> QED BY <1>1, PageBounds, BasesGrow, Bases
<1> QED BY <1>1, <1>2, <1>3, PageBounds

-----------------------------------------------------------------------------
(***************************************************************************)
(* Grids of objects                                                        *)
(***************************************************************************)
Fits(p, i) == p \in Nat /\ i \in Cache /\ p + PagesOf(i) <= HeapPages

\* Where the objects of a slab at p may begin.
LEMMA GridPlaces ==
  ASSUME NEW p, NEW i, Fits(p, i)
  PROVE  /\ Base(p) \in Nat /\ Base(p + PagesOf(i)) = Base(p) + PagesOf(i) * PageUnits
         /\ Base(p + PagesOf(i)) \in Nat /\ Base(p) + PageUnits <= Base(p + PagesOf(i))
         /\ \A a : a \in Objects(p, i) <=>
              /\ a \in (Base(p) + Header) .. (Base(p + PagesOf(i)) + Header)
              /\ (a - (Base(p) + Header)) % Size(i) = 0
<1>1. /\ Base(p) \in Nat /\ Base(p + PagesOf(i)) = Base(p) + PagesOf(i) * PageUnits
      /\ Base(p + PagesOf(i)) \in Nat
  BY Sizes, Bases DEF Fits
<1>2. Base(p) + PageUnits <= Base(p + PagesOf(i))
  BY Sizes, NextBase DEF Fits
<1>3. Base(p) + Header + PagesOf(i) * PageUnits = Base(p + PagesOf(i)) + Header
  BY <1>1, Sizes DEF Fits
<1> QED BY <1>1, <1>2, <1>3 DEF Objects

LEMMA OnGrid ==
  ASSUME NEW p, NEW i, Fits(p, i),
         NEW a \in (Base(p) + Header) .. (Base(p + PagesOf(i)) + Header),
         (a - (Base(p) + Header)) % Size(i) = 0
  PROVE  a \in Objects(p, i)
  BY GridPlaces

LEMMA GridUnits ==
  ASSUME NEW p, NEW i, Fits(p, i)
  PROVE  Objects(p, i) \subseteq Unit
<1>1. Base(p + PagesOf(i)) <= Base(HeapPages + 1)
  BY BasesGrow, Sizes DEF Fits
<1>2. Base(HeapPages + 1) = (HeapPages + 1) * PageUnits /\ Base(HeapPages + 1) \in Nat
  BY Bases, GeometryAssumption DEF Base
<1>3. Limit = Base(HeapPages + 1) + Header
  BY <1>2 DEF Limit
<1> QED BY <1>1, <1>2, <1>3, GridPlaces, Sizes DEF Fits, Unit

\* The first and, behind the slab, the last object.
LEMMA GridEnds ==
  ASSUME NEW p, NEW i, Fits(p, i)
  PROVE  /\ Base(p) + Header \in Objects(p, i)
         /\ Base(p + PagesOf(i)) + Header \in Objects(p, i)
<1>1. 0 % Size(i) = 0 /\ (PagesOf(i) * PageUnits) % Size(i) = 0
  BY Sizes, ProductMultiple DEF Fits
<1>2. /\ (Base(p) + Header) - (Base(p) + Header) = 0
      /\ (Base(p + PagesOf(i)) + Header) - (Base(p) + Header) = PagesOf(i) * PageUnits
      /\ Base(p) + Header \in (Base(p) + Header) .. (Base(p + PagesOf(i)) + Header)
      /\ Base(p + PagesOf(i)) + Header \in (Base(p) + Header) .. (Base(p + PagesOf(i)) + Header)
  BY GridPlaces, Sizes DEF Fits
<1> QED BY <1>1, <1>2, OnGrid

\* Objects of a slab do not share memory.
LEMMA ObjectsApart ==
  ASSUME NEW p, NEW i, Fits(p, i), NEW a \in Objects(p, i), NEW b \in Objects(p, i), a # b
  PROVE  Extent(a, i) \cap Extent(b, i) = {}
<1> DEFINE f == Base(p) + Header
<1>1. f \in Int /\ a \in Int /\ b \in Int /\ (a - f) % Size(i) = 0 /\ (b - f) % Size(i) = 0
  BY GridPlaces, Sizes DEF Fits
<1>2. Size(i) \in Nat \ {0}
  BY Sizes DEF Fits
<1> HIDE DEF f
<1>3. a - f < b - f => a + Size(i) <= b
  BY <1>1, <1>2, MultiplesApart
<1>4. b - f < a - f => b + Size(i) <= a
  BY <1>1, <1>2, MultiplesApart
<1> QED BY <1>1, <1>2, <1>3, <1>4 DEF Extent

\* The object that follows one on the grid.
LEMMA NextObject ==
  ASSUME NEW p, NEW i, Fits(p, i), NEW a \in Objects(p, i), a + Size(i) <= Base(p + PagesOf(i))
  PROVE  a + Size(i) \in Objects(p, i)
<1> DEFINE f == Base(p) + Header
<1>1. /\ f \in Int /\ (a - f) % Size(i) = 0
      /\ a \in f .. (Base(p + PagesOf(i)) + Header) /\ Base(p + PagesOf(i)) \in Nat
  BY GridPlaces, Sizes DEF Fits
<1>2. Size(i) \in Nat \ {0} /\ Header \in Nat
  BY Sizes DEF Fits
<1>3. Size(i) % Size(i) = 0
  BY <1>2
<1> HIDE DEF f
<1>4. ((a + Size(i)) - f) % Size(i) = 0
  <2>1. a - f \in Int /\ (a - f) + Size(i) = (a + Size(i)) - f
    BY <1>1, <1>2
  <2>2. ((a - f) + Size(i)) % Size(i) = 0
    BY <1>1, <1>2, <1>3, <2>1, Multiples
  <2> QED BY <2>1, <2>2
<1>5. a + Size(i) \in f .. (Base(p + PagesOf(i)) + Header)
  BY <1>1, <1>2
<1> QED BY <1>4, <1>5, OnGrid DEF f

-----------------------------------------------------------------------------
(***************************************************************************)
(* Slabs                                                                   *)
(***************************************************************************)
LEMMA SlabFits ==
  ASSUME HeapType, SlabsApart, NEW p \in DOMAIN slab
  PROVE  Fits(p, slab[p].cache) /\ p \in PagesIn(p) /\ p + PagesOf(slab[p].cache) - 1 \in PagesIn(p)
<1>1. p \in Nat /\ slab[p].cache \in Cache /\ p + PagesOf(slab[p].cache) <= HeapPages
  BY GeometryAssumption DEF HeapType, SlabsApart, Record
<1> QED BY <1>1, Sizes DEF Fits, PagesIn

\* An object of a slab lies on its pages, and clear of its header.
LEMMA InsideMemory ==
  ASSUME HeapType, SlabsApart, NEW p \in DOMAIN slab, NEW a \in Unit, Inside(a, p)
  PROVE  /\ a \in Extent(a, slab[p].cache)
         /\ \A u \in Extent(a, slab[p].cache) :
              u \in Nat /\ PageOf(u) \in PagesIn(p) /\ u \notin HeaderOf(p)
         /\ a + Size(slab[p].cache) <= Base(p + PagesOf(slab[p].cache))
<1> DEFINE i == slab[p].cache
           e == Base(p + PagesOf(i))
<1>1. Fits(p, i)
  BY SlabFits
<1>2. /\ Size(i) \in Nat \ {0} /\ PagesOf(i) \in Nat /\ Header \in Nat /\ p \in Nat
      /\ Base(p) \in Nat /\ e \in Nat /\ p + PagesOf(i) \in Nat
  BY <1>1, Sizes, GridPlaces DEF Fits
<1>3. a >= Base(p) + Header /\ Extent(a, i) \subseteq Base(p) .. (e - 1) /\ a \in Nat
  BY <1>2 DEF Inside, Unit
<1>4. Extent(a, i) = a .. (a + Size(i) - 1)
  BY DEF Extent
<1> HIDE DEF i, e
<1>5. a \in Extent(a, i) /\ a + Size(i) - 1 \in Extent(a, i)
  BY <1>2, <1>3, <1>4
<1>6. a + Size(i) <= e
  BY <1>2, <1>3, <1>5
<1>7. ASSUME NEW u \in Extent(a, i)
      PROVE  u \in Nat /\ PageOf(u) \in p .. (p + PagesOf(i) - 1) /\ u >= Base(p) + Header
  <2>1. u \in Base(p) .. (e - 1) /\ u >= a
    BY <1>2, <1>3, <1>4
  <2> QED BY <1>2, <1>3, <2>1, PageBetween DEF e
<1>8. \A u \in Int : u >= Base(p) + Header => u \notin HeaderOf(p)
  BY <1>2 DEF HeaderOf
<1> QED BY <1>5, <1>6, <1>7, <1>8 DEF i, e, PagesIn

\* An object inside a slab meets no header, and none inside another slab.
LEMMA InsideMissesHeaders ==
  ASSUME HeapType, SlabsApart, NEW p \in DOMAIN slab, NEW a \in Unit, Inside(a, p),
         NEW q \in DOMAIN slab
  PROVE  Extent(a, slab[p].cache) \cap HeaderOf(q) = {}
<1> SUFFICES ASSUME NEW u \in Extent(a, slab[p].cache), u \in HeaderOf(q) PROVE FALSE
  OBVIOUS
<1>1. PageOf(u) \in PagesIn(p) /\ u \notin HeaderOf(p)
  BY InsideMemory
<1>2. PageOf(u) = q
  <2>1. q \in Nat /\ Header \in 1 .. (PageUnits - 1) /\ PageUnits \in Nat /\ Base(q) \in Nat
    BY SlabFits, Bases, GeometryAssumption DEF Fits
  <2>2. u \in Base(q) .. (Base(q + 1) - 1)
    BY <2>1, Bases DEF HeaderOf
  <2>3. PageOf(u) \in q .. (q + 1 - 1)
    BY <2>1, <2>2, PageBetween
  <2> QED BY <2>1, <2>3
<1>3. q = p
  BY <1>1, <1>2, SlabFits DEF SlabsApart
<1> QED BY <1>1, <1>3

LEMMA InsideApart ==
  ASSUME HeapType, SlabsApart, NEW p \in DOMAIN slab, NEW a \in Unit, Inside(a, p),
         NEW q \in DOMAIN slab, NEW b \in Unit, Inside(b, q), p # q
  PROVE  Extent(a, slab[p].cache) \cap Extent(b, slab[q].cache) = {}
<1> SUFFICES ASSUME NEW u \in Extent(a, slab[p].cache), u \in Extent(b, slab[q].cache) PROVE FALSE
  OBVIOUS
<1>1. PageOf(u) \in PagesIn(p) /\ PageOf(u) \in PagesIn(q)
  BY InsideMemory
<1> QED BY <1>1 DEF SlabsApart

\* Whichever grid an address is from: inside a slab it is on that slab's.
LEMMA InsideOnGrid ==
  ASSUME HeapType, SlabsApart, NEW p \in DOMAIN slab, NEW a \in Grid(p),
         NEW q \in DOMAIN slab, Inside(a, q)
  PROVE  a \in Grid(q)
<1> DEFINE i == slab[p].cache
           j == slab[q].cache
           e == Base(p + PagesOf(i))
<1>1. Fits(p, i) /\ Fits(q, j)
  BY SlabFits
<1>2. a \in Objects(p, i) /\ a \in Unit
  BY <1>1, GridUnits DEF Grid
<1>3. CASE p = q
  BY <1>2, <1>3 DEF Grid
<1>4. CASE p # q
  <2>1. /\ a \in (Base(p) + Header) .. (e + Header) /\ a \in Nat
        /\ p \in Nat /\ q \in Nat /\ PagesOf(i) \in Nat \ {0} /\ Base(p) \in Nat /\ e \in Nat
        /\ Header \in 1 .. (PageUnits - 1) /\ PageUnits \in Nat
    BY <1>1, <1>2, GridPlaces, Sizes DEF Fits, Unit
  <2>2. PageOf(a) \in PagesIn(q) /\ a >= Base(q) + Header
    BY <1>2, InsideMemory DEF Inside
  <2>3. a >= e
    <3> SUFFICES ASSUME a < e PROVE FALSE
      BY <2>1
    <3>1. a \in Base(p) .. (e - 1)
      BY <2>1
    <3>2. PageOf(a) \in p .. (p + PagesOf(i) - 1)
      BY <2>1, <3>1, PageBetween DEF e
    <3> QED BY <1>4, <2>2, <3>2 DEF SlabsApart, PagesIn
  <2>4. PageOf(a) = p + PagesOf(i)
    <3>1. a \in e .. (Base(p + PagesOf(i) + 1) - 1)
      <4>1. Base(p + PagesOf(i) + 1) = e + PageUnits
        BY <2>1, Bases DEF e
      <4> HIDE DEF e
      <4> QED BY <2>1, <2>3, <4>1
    <3>2. PageOf(a) \in (p + PagesOf(i)) .. (p + PagesOf(i) + 1 - 1)
      BY <2>1, <3>1, PageBetween DEF e
    <3> QED BY <2>1, <3>2
  <2>5. q = p + PagesOf(i)
    <3>1. p + PagesOf(i) - 1 \notin PagesIn(q)
      BY <1>4, SlabFits DEF SlabsApart
    <3>2. q \in Nat /\ PagesOf(j) \in Nat
      BY <1>1, Sizes DEF Fits
    <3> QED BY <2>1, <2>2, <2>4, <3>1, <3>2 DEF PagesIn
  <2>6. a = Base(q) + Header
    BY <2>1, <2>2, <2>5 DEF e
  <2> QED BY <1>1, <2>6, GridEnds DEF Grid
<1> QED BY <1>3, <1>4

-----------------------------------------------------------------------------
(***************************************************************************)
(* What holds throughout                                                   *)
(***************************************************************************)
Throughout == HeapType /\ SlabsApart /\ OnGrids /\ MarksBehind /\ Booting
UntilPast == /\ smashed = {} /\ (status = "undefined" => Misled)
             /\ QueuesWhole /\ TakenApart /\ SlabsCounted

Cells == Unit \cup {Null, Junk}
Places == AllObjects \cup {Null, Junk}

\* No slab is made, and none changes its cache.
SameSlabs == DOMAIN slab' = DOMAIN slab /\ \A p \in DOMAIN slab : slab'[p].cache = slab[p].cache

LEMMA LayoutSame ==
  ASSUME SameSlabs
  PROVE  /\ UsedPages' = UsedPages /\ AllObjects' = AllObjects
         /\ \A p \in DOMAIN slab : /\ PagesIn(p)' = PagesIn(p) /\ Grid(p)' = Grid(p)
                                   /\ \A a : Inside(a, p)' <=> Inside(a, p)
<1>1. \A p \in DOMAIN slab : PagesIn(p)' = PagesIn(p) /\ Grid(p)' = Grid(p)
  BY DEF SameSlabs, PagesIn, Grid
<1>2. \A p \in DOMAIN slab : \A a : Inside(a, p)' <=> Inside(a, p)
  BY DEF SameSlabs, Inside
<1>3. UsedPages = UNION { PagesIn(p) : p \in DOMAIN slab }
  BY DEF UsedPages, PagesIn
<1>4. UsedPages' = UNION { PagesIn(p)' : p \in DOMAIN slab' }
  BY DEF UsedPages, PagesIn
<1> QED BY <1>1, <1>2, <1>3, <1>4 DEF SameSlabs, AllObjects

LEMMA GridsInUnits ==
  ASSUME HeapType, SlabsApart
  PROVE  AllObjects \subseteq Unit
<1> SUFFICES ASSUME NEW p \in DOMAIN slab PROVE Grid(p) \subseteq Unit
  BY DEF AllObjects
<1> QED BY SlabFits, GridUnits DEF Grid

LEMMA NoCells == Null \notin Unit /\ Junk \notin Unit
  BY GeometryAssumption

\* An object that is handed out or given back needs all caches.
LEMMA ThroughoutSame ==
  ASSUME Throughout, SameSlabs, HeapType', booted = Caches, booted' = booted, mark' = mark,
         \A p \in DOMAIN slab : slab'[p].head \in Places,
         \A a \in Unit : link'[a] \in Places,
         \A x \in live' : x[1] \in AllObjects
  PROVE  Throughout'
<1>1. SlabsApart'
  <2>1. \A p \in DOMAIN slab : p + PagesOf(slab'[p].cache) <= HeapPages
    BY DEF Throughout, SlabsApart, SameSlabs
  <2> QED BY <2>1, LayoutSame DEF Throughout, SlabsApart, SameSlabs
<1>2. OnGrids'
  BY LayoutSame DEF OnGrids, Places, SameSlabs
<1>3. MarksBehind'
  BY DEF Throughout, MarksBehind, SameSlabs
<1>4. Booting'
  <2>1. ~(Caches < Caches)
    BY GeometryAssumption
  <2> QED BY <2>1 DEF Booting
<1> QED BY <1>1, <1>2, <1>3, <1>4 DEF Throughout

LEMMA DequeuedTypes ==
  ASSUME NEW h \in Record, h.head \in Unit, NEW lk \in [Unit -> Cells], NEW s \in {"free", "partial", "full"}
  PROVE  /\ Dequeued(h, lk, s) \in Record /\ Dequeued(h, lk, s).head = lk[h.head]
         /\ Dequeued(h, lk, s).cache = h.cache /\ Dequeued(h, lk, s).state = s
         /\ Dequeued(h, lk, s).size = h.size - 1
<1>1. h.size - 1 \in Int /\ lk[h.head] \in Cells
  BY DEF Record
<1> QED BY <1>1 DEF Dequeued, Record, Cells

\* What an owner's store leaves alone.
LEMMA OwnedTypes ==
  ASSUME NEW x, NEW lk \in [Unit -> Cells], NEW hit, Owned(x, lk, hit)
  PROVE  /\ link' \in [Unit -> Cells]
         /\ \A a \in Unit : link'[a] \in {lk[a], Junk}
         /\ \A a \in Unit : a \notin Extent(x[1], slab[x[2]].cache) => link'[a] = lk[a]
         /\ smashed' \subseteq hit \cup DOMAIN slab'
         /\ live' = live \cup {x}
  BY DEF Owned, Cells

\* A slab in use hands out the head of its queue.
Serve(p) == /\ status = "ok" /\ booted = Caches
            /\ p \in DOMAIN slab /\ Usable(p)
            /\ slab' = [slab EXCEPT ![p] = Dequeued(@, link, "partial")]
            /\ Owned(<<slab[p].head, p>>, link, smashed)
            /\ UNCHANGED <<mark, lost, booted, status>>

LEMMA ServeFacts ==
  ASSUME HeapType, NEW p, Serve(p)
  PROVE  /\ SameSlabs /\ p \in DOMAIN slab /\ slab[p] \in Record /\ slab[p].head \in Unit
         /\ slab'[p] = Dequeued(slab[p], link, "partial") /\ slab'[p] \in Record
         /\ slab'[p].head = link[slab[p].head] /\ slab'[p].size = slab[p].size - 1
         /\ slab'[p].state = "partial"
         /\ \A q \in DOMAIN slab : q # p => slab'[q] = slab[q]
         /\ slab' = [q \in DOMAIN slab' |-> slab'[q]]
         /\ link \in [Unit -> Cells]
<1>1. /\ p \in DOMAIN slab /\ slab[p] \in Record /\ slab[p].head \in Unit /\ link \in [Unit -> Cells]
      /\ slab = [q \in DOMAIN slab |-> slab[q]]
  BY DEF HeapType, Serve, Usable, Cells
<1>2. slab'[p] = Dequeued(slab[p], link, "partial") /\ DOMAIN slab' = DOMAIN slab
  BY <1>1 DEF Serve
<1>3. \A q \in DOMAIN slab : q # p => slab'[q] = slab[q]
  BY <1>1 DEF Serve
<1>4. slab' = [q \in DOMAIN slab' |-> slab'[q]]
  BY DEF Serve
<1> QED BY <1>1, <1>2, <1>3, <1>4, DequeuedTypes DEF SameSlabs

LEMMA ServeThroughout ==
  ASSUME Throughout, NEW p, Serve(p)
  PROVE  Throughout'
<1> DEFINE h == slab[p].head
<1>1. HeapType /\ OnGrids /\ SlabsApart
  BY DEF Throughout
<1>2. h \in AllObjects
  BY <1>1, ServeFacts, NoCells DEF OnGrids
<1>3. /\ live' = live \cup {<<h, p>>} /\ link' \in [Unit -> Cells] /\ smashed' \subseteq DOMAIN slab
      /\ \A a \in Unit : link'[a] \in {link[a], Junk}
      /\ past' \in BOOLEAN
  <2>1. smashed \subseteq DOMAIN slab /\ DOMAIN slab' = DOMAIN slab
    BY <1>1, ServeFacts DEF HeapType, SameSlabs
  <2>2. Owned(<<h, p>>, link, smashed)
    BY DEF Serve
  <2>3. past' \in BOOLEAN
    BY <1>1, <2>2 DEF Owned, HeapType
  <2> QED BY <1>1, <2>1, <2>2, <2>3, OwnedTypes, ServeFacts
<1>4. HeapType'
  <2>1. \A q \in DOMAIN slab' : slab'[q] \in Record
    BY <1>1, ServeFacts DEF HeapType, SameSlabs
  <2>2. Taken' \subseteq Unit \X DOMAIN slab'
    <3>1. lost' = lost /\ DOMAIN slab' = DOMAIN slab /\ p \in DOMAIN slab /\ h \in Unit
      BY <1>1, ServeFacts DEF SameSlabs, Serve
    <3>2. Taken' = Taken \cup {<<h, p>>}
      BY <1>3, <3>1 DEF Taken
    <3> HIDE DEF h
    <3> QED BY <1>1, <3>1, <3>2 DEF HeapType
  <2> QED BY <1>1, <1>3, <2>1, <2>2, ServeFacts DEF HeapType, SameSlabs, Serve, Cells
<1>5. \A q \in DOMAIN slab : slab'[q].head \in Places
  BY <1>1, ServeFacts DEF OnGrids, Places
<1>6. \A a \in Unit : link'[a] \in Places
  BY <1>1, <1>3 DEF OnGrids, Places
<1>7. \A x \in live' : x[1] \in AllObjects
  BY <1>1, <1>2, <1>3 DEF OnGrids
<1> QED BY <1>1, <1>4, <1>5, <1>6, <1>7, ThroughoutSame, ServeFacts DEF Serve

-----------------------------------------------------------------------------
(***************************************************************************)
(* Until an object beyond its slab leaves a queue                          *)
(***************************************************************************)
TakenFrom(p) == { x \in Taken : x[2] = p }

LEMMA FiniteTaken ==
  ASSUME HeapType, NEW p
  PROVE  IsFiniteSet(TakenFrom(p))
<1>1. IsFiniteSet(Unit) /\ IsFiniteSet(0 .. HeapPages)
  <2>1. Limit \in Int /\ HeapPages \in Int
    BY GeometryAssumption DEF Limit
  <2> QED BY <2>1, FS_Interval DEF Unit
<1>2. IsFiniteSet(DOMAIN slab)
  BY <1>1, FS_Subset DEF HeapType
<1>3. IsFiniteSet(Unit \X DOMAIN slab)
  BY <1>1, <1>2, FS_Product
<1> QED BY <1>3, FS_Subset DEF TakenFrom, HeapType

LEMMA QueuedUnits ==
  ASSUME HeapType, SlabsApart, NEW p \in DOMAIN slab
  PROVE  Queued(p) \subseteq Grid(p) /\ Grid(p) \subseteq Unit
  BY SlabFits, GridUnits DEF Queued, Grid

\* An owner of an object inside its slab stores into no header and into no
\* other object inside a slab.
LEMMA OwnedMisses ==
  ASSUME HeapType, SlabsApart, NEW p \in DOMAIN slab, NEW h \in Grid(p), Inside(h, p),
         NEW lk \in [Unit -> Cells], NEW hit, Owned(<<h, p>>, lk, hit), DOMAIN slab' = DOMAIN slab
  PROVE  /\ smashed' = hit
         /\ \A q \in DOMAIN slab : \A a \in Grid(q) :
              Inside(a, q) /\ <<a, q>> # <<h, p>> => link'[a] = lk[a]
<1>1. h \in Unit
  BY QueuedUnits
<1>2. smashed' = hit
  BY <1>1, InsideMissesHeaders DEF Owned
<1>4. ASSUME NEW q \in DOMAIN slab, NEW a \in Grid(q), Inside(a, q), <<a, q>> # <<h, p>>
      PROVE  link'[a] = lk[a]
  <2>1. a \in Unit
    BY QueuedUnits
  <2>2. Extent(a, slab[q].cache) \cap Extent(h, slab[p].cache) = {}
    <3>1. CASE q = p
      BY <1>4, <3>1, ObjectsApart, SlabFits DEF Grid
    <3>2. CASE q # p
      BY <1>1, <1>4, <2>1, <3>2, InsideApart
    <3> QED BY <3>1, <3>2
  <2>3. a \in Extent(a, slab[q].cache)
    BY <1>4, <2>1, InsideMemory
  <2> QED BY <2>1, <2>2, <2>3, OwnedTypes
<1> QED BY <1>2, <1>4

LEMMA ServeUntilPast ==
  ASSUME Throughout, UntilPast, NEW p, Serve(p), ~ past'
  PROVE  UntilPast'
<1> DEFINE h == slab[p].head
<1>1. HeapType /\ SlabsApart /\ QueuesWhole /\ TakenApart /\ SlabsCounted
  BY DEF Throughout, UntilPast
<1>2. /\ p \in DOMAIN slab /\ h \in Queued(p) /\ h \in Grid(p) /\ Inside(h, p)
      /\ DOMAIN slab' = DOMAIN slab /\ link \in [Unit -> Cells]
      /\ Owned(<<h, p>>, link, smashed)
  BY <1>1, ServeFacts, QueuedUnits DEF QueuesWhole, Serve, Owned, SameSlabs
<1>3. /\ smashed' = smashed
      /\ \A q \in DOMAIN slab : \A a \in Grid(q) :
           Inside(a, q) /\ <<a, q>> # <<h, p>> => link'[a] = link[a]
  BY <1>1, <1>2, OwnedMisses
<1>4. /\ live' = live \cup {<<h, p>>} /\ lost' = lost /\ Taken' = Taken \cup {<<h, p>>}
      /\ <<h, p>> \notin Taken
  BY <1>2 DEF Owned, Serve, Taken, Queued
<1>5. /\ \A q \in DOMAIN slab : q # p => Queued(q)' = Queued(q)
      /\ Queued(p)' = Queued(p) \ {h}
  BY <1>2, <1>4, ServeFacts, <1>1, LayoutSame DEF Queued
<1>6. QueuesWhole'
  <2> SUFFICES ASSUME NEW q \in DOMAIN slab
               PROVE  /\ slab'[q].head \in Queued(q)'
                      /\ \A a \in Queued(q)' : Inside(a, q) =>
                           /\ link'[a] \in Queued(q)' \ {slab'[q].head}
                           /\ \A b \in Queued(q)' : Inside(b, q) /\ link'[b] = link'[a] => b = a
    BY <1>1, <1>2, ServeFacts, LayoutSame DEF QueuesWhole
  <2>1. CASE q # p
    <3>1. \A a \in Queued(q) : Inside(a, q) => link'[a] = link[a]
      BY <1>1, <1>3, <2>1, QueuedUnits
    <3>2. slab'[q].head = slab[q].head
      BY <1>1, <2>1, ServeFacts
    <3> QED BY <1>1, <1>5, <2>1, <3>1, <3>2 DEF QueuesWhole
  <2>2. CASE q = p
    <3>1. \A a \in Queued(p) \ {h} : Inside(a, p) => link'[a] = link[a]
      BY <1>1, <1>2, <1>3, QueuedUnits
    <3>2. slab'[p].head = link[h]
      BY <1>1, ServeFacts
    <3>3. link[h] \in Queued(p) \ {h}
      BY <1>1, <1>2 DEF QueuesWhole
    <3>4. ASSUME NEW a \in Queued(p) \ {h}, Inside(a, p)
          PROVE  link[a] \in (Queued(p) \ {h}) \ {link[h]}
      BY <1>1, <1>2, <3>4 DEF QueuesWhole
    <3> QED BY <1>1, <1>2, <1>5, <2>2, <3>1, <3>2, <3>3, <3>4 DEF QueuesWhole
  <2> QED BY <2>1, <2>2
<1>7. TakenApart'
  <2>1. live' \cap lost' = {}
    BY <1>1, <1>4 DEF TakenApart, Taken
  <2>2. \A x \in Taken' : x[2] \in DOMAIN slab /\ x[1] \in Grid(x[2]) /\ Inside(x[1], x[2])
    BY <1>1, <1>2, <1>4 DEF TakenApart, HeapType
  <2> QED BY <1>1, <2>1, <2>2, ServeFacts, LayoutSame DEF TakenApart
<1>8. SlabsCounted'
  <2> SUFFICES ASSUME NEW q \in DOMAIN slab
               PROVE  /\ Cardinality(Grid(q)) = slab'[q].size + Cardinality(TakenFrom(q)')
                      /\ slab'[q].state # "full"
                      /\ slab'[q].state = "free" => slab'[q].size = slab'[q].max + 1
    BY <1>1, <1>2, ServeFacts, LayoutSame DEF SlabsCounted, TakenFrom
  <2>1. Cardinality(TakenFrom(q)) \in Nat /\ IsFiniteSet(TakenFrom(q))
    BY <1>1, FiniteTaken, FS_CardinalityType
  <2>2. CASE q # p
    <3>1. TakenFrom(q)' = TakenFrom(q)
      BY <1>4, <2>2 DEF TakenFrom
    <3>2. slab'[q] = slab[q]
      BY <1>1, <2>2, ServeFacts
    <3> QED BY <1>1, <3>1, <3>2 DEF SlabsCounted, TakenFrom
  <2>3. CASE q = p
    <3>1. TakenFrom(p)' = TakenFrom(p) \cup {<<h, p>>} /\ <<h, p>> \notin TakenFrom(p)
      BY <1>4 DEF TakenFrom
    <3>2. Cardinality(TakenFrom(p)') = Cardinality(TakenFrom(p)) + 1
      BY <2>1, <2>3, <3>1, FS_AddElement
    <3>3. slab'[p].size = slab[p].size - 1 /\ slab'[p].state = "partial" /\ slab[p].size \in Int
      BY <1>1, ServeFacts DEF Record
    <3>4. Cardinality(Grid(p)) = slab[p].size + Cardinality(TakenFrom(p))
      BY <1>1, <1>2 DEF SlabsCounted, TakenFrom
    <3> QED BY <2>1, <2>3, <3>2, <3>3, <3>4
  <2> QED BY <2>2, <2>3
<1> QED BY <1>3, <1>6, <1>7, <1>8 DEF UntilPast, Serve

\* An owner stores again.
LEMMA StoreKeeps ==
  ASSUME HeapInv, Store
  PROVE  HeapInv'
<1>1. PICK x \in live : Owned(x, link, smashed)
  BY DEF Store
<1>2. /\ slab' = slab /\ mark' = mark /\ lost' = lost /\ booted' = booted /\ status' = status
      /\ HeapType /\ SlabsApart /\ Throughout /\ DOMAIN slab' = DOMAIN slab
      /\ link \in [Unit -> Cells] /\ SameSlabs
  BY DEF Store, HeapInv, Throughout, HeapType, Cells, SameSlabs
<1>3. /\ live' = live /\ link' \in [Unit -> Cells] /\ smashed' \subseteq DOMAIN slab'
      /\ \A a \in Unit : link'[a] \in {link[a], Junk}
  BY <1>1, <1>2, OwnedTypes DEF HeapType
<1>4. x[2] \in DOMAIN slab /\ x = <<x[1], x[2]>>
  BY <1>2 DEF HeapType, Taken
<1>5. booted = Caches
  <2>1. Taken # {}
    BY DEF Taken
  <2> QED BY <1>2, <2>1, GeometryAssumption DEF HeapType, Throughout, Booting
<1>6. Throughout'
  <2>1. HeapType'
    <3>1. past' \in BOOLEAN
      BY <1>1 DEF Owned
    <3> QED BY <1>2, <1>3, <3>1 DEF HeapType, Taken, Cells
  <2>2. \A p \in DOMAIN slab : slab'[p].head \in Places
    BY <1>2 DEF Throughout, OnGrids, Places
  <2>3. \A a \in Unit : link'[a] \in Places
    BY <1>2, <1>3 DEF Throughout, OnGrids, Places
  <2>4. \A y \in live' : y[1] \in AllObjects
    BY <1>2, <1>3 DEF Throughout, OnGrids
  <2> QED BY <1>2, <1>5, <2>1, <2>2, <2>3, <2>4, ThroughoutSame
<1>7. ASSUME ~ past' PROVE UntilPast'
  <2>1. ~ past /\ UntilPast
    BY <1>1, <1>7 DEF Owned, HeapInv, UntilPast
  <2>2. x[1] \in Grid(x[2]) /\ Inside(x[1], x[2])
    BY <2>1 DEF UntilPast, TakenApart, Taken
  <2>3. /\ smashed' = smashed
        /\ \A q \in DOMAIN slab : \A a \in Grid(q) :
             Inside(a, q) /\ <<a, q>> # x => link'[a] = link[a]
    BY <1>1, <1>2, <1>4, <2>2, OwnedMisses
  <2>4. \A q \in DOMAIN slab : Queued(q)' = Queued(q)
    BY <1>2, <1>3, LayoutSame DEF Queued, Taken
  <2>5. ASSUME NEW q \in DOMAIN slab, NEW a \in Queued(q), Inside(a, q) PROVE link'[a] = link[a]
    BY <2>3, <2>5 DEF Queued, Taken
  <2>6. QueuesWhole'
    BY <1>2, <2>1, <2>4, <2>5, LayoutSame DEF UntilPast, QueuesWhole
  <2>7. Taken' = Taken
    BY <1>2, <1>3 DEF Taken
  <2>8. TakenApart'
    BY <1>2, <1>3, <1>4, <2>1, <2>7, LayoutSame DEF UntilPast, TakenApart, HeapType
  <2>9. SlabsCounted'
    BY <1>2, <2>1, <2>7, LayoutSame DEF UntilPast, SlabsCounted
  <2> QED BY <1>2, <2>1, <2>3, <2>6, <2>8, <2>9 DEF UntilPast, Store
<1> QED BY <1>6, <1>7 DEF HeapInv, Throughout, UntilPast

\* What stops the kernel, or does nothing to the heap.
LEMMA QuietKeeps ==
  ASSUME HeapInv, UNCHANGED <<slab, link, mark, live, lost, smashed, past, booted>>,
         ~ past => (status' = "undefined" => Misled)
  PROVE  HeapInv'
<1>1. Taken' = Taken /\ SameSlabs
  BY DEF Taken, SameSlabs
<1>2. /\ UsedPages' = UsedPages /\ AllObjects' = AllObjects
      /\ \A p \in DOMAIN slab : /\ PagesIn(p)' = PagesIn(p) /\ Grid(p)' = Grid(p)
                                /\ \A a : Inside(a, p)' <=> Inside(a, p)
  BY <1>1, LayoutSame
<1>3. \A p \in DOMAIN slab : Queued(p)' = Queued(p)
  BY <1>1, <1>2 DEF Queued
<1>4. HeapType' /\ SlabsApart'
  BY <1>1, <1>2 DEF HeapInv, HeapType, SlabsApart
<1>5. OnGrids' /\ MarksBehind' /\ Booting'
  BY <1>1, <1>2 DEF HeapInv, OnGrids, MarksBehind, Booting
<1>6. ~ past => QueuesWhole'
  BY <1>2, <1>3 DEF HeapInv, QueuesWhole
<1>7. ~ past => TakenApart' /\ SlabsCounted'
  <2>1. \A x \in Taken : x[2] \in DOMAIN slab
    BY DEF HeapInv, HeapType
  <2> QED BY <1>1, <1>2, <2>1 DEF HeapInv, TakenApart, SlabsCounted
<1>8. Misled' <=> Misled
  BY DEF Misled
<1> QED BY <1>4, <1>5, <1>6, <1>7, <1>8 DEF HeapInv

-----------------------------------------------------------------------------
(***************************************************************************)
(* Giving objects back                                                     *)
(***************************************************************************)
\* Who has an object has found all caches initialized.
LEMMA OwnerFacts ==
  ASSUME HeapInv, NEW x \in live
  PROVE  /\ booted = Caches /\ x[2] \in DOMAIN slab /\ x[1] \in Unit /\ x = <<x[1], x[2]>>
         /\ x[1] \in AllObjects
         /\ ~ past => x[1] \in Grid(x[2]) /\ Inside(x[1], x[2]) /\ x \notin lost
<1>1. x \in Taken /\ Taken # {}
  BY DEF Taken
<1>2. booted = Caches
  BY <1>1, GeometryAssumption DEF HeapInv, HeapType, Booting
<1>3. x[2] \in DOMAIN slab /\ x[1] \in Unit /\ x = <<x[1], x[2]>>
  BY <1>1 DEF HeapInv, HeapType
<1> QED BY <1>1, <1>2, <1>3 DEF HeapInv, OnGrids, TakenApart

LEMMA IgnoredKeeps ==
  ASSUME HeapInv, NEW x \in live, FreeIgnored(x), status = "ok"
  PROVE  HeapInv'
<1>1. /\ UNCHANGED <<slab, link, mark, smashed, past, booted, status>>
      /\ lost' = lost \cup {x} /\ live' = live \ {x}
  BY DEF FreeIgnored
<1>2. Taken' = Taken /\ SameSlabs
  BY <1>1 DEF Taken, SameSlabs
<1>3. Throughout'
  <2>1. HeapType' /\ HeapType
    BY <1>1, <1>2 DEF HeapInv, HeapType
  <2>2. /\ Throughout
        /\ \A p \in DOMAIN slab : slab'[p].head \in Places
        /\ \A a \in Unit : link'[a] \in Places
        /\ \A y \in live' : y[1] \in AllObjects
    BY <1>1 DEF HeapInv, Throughout, OnGrids, Places
  <2> QED BY <1>1, <1>2, <2>1, <2>2, OwnerFacts, ThroughoutSame
<1>4. ASSUME ~ past PROVE UntilPast'
  <2>1. \A p \in DOMAIN slab : Queued(p)' = Queued(p)
    BY <1>1, <1>2, LayoutSame DEF Queued
  <2>2. QueuesWhole'
    BY <1>1, <1>2, <1>4, <2>1, LayoutSame DEF HeapInv, QueuesWhole
  <2>3. \A y \in Taken : y[2] \in DOMAIN slab
    BY DEF HeapInv, HeapType
  <2>4. TakenApart' /\ SlabsCounted'
    BY <1>1, <1>2, <1>4, <2>3, LayoutSame DEF HeapInv, TakenApart, SlabsCounted
  <2> QED BY <1>1, <1>4, <2>2, <2>4 DEF HeapInv, UntilPast
<1> QED BY <1>1, <1>3, <1>4 DEF HeapInv, Throughout, UntilPast

\* The slab that is found is the one the object is from.
LEMMA FoundIsOwn ==
  ASSUME HeapInv, NEW x \in live, ~ past, PageOf(x[1]) \in DOMAIN slab
  PROVE  PageOf(x[1]) = x[2]
<1>1. HeapType /\ SlabsApart
  BY DEF HeapInv
<1>2. PageOf(x[1]) \in PagesIn(x[2])
  BY <1>1, OwnerFacts, InsideMemory
<1>3. PageOf(x[1]) \in PagesIn(PageOf(x[1]))
  BY <1>1, SlabFits
<1> QED BY <1>1, <1>2, <1>3, OwnerFacts DEF SlabsApart

LEMMA FreeFacts ==
  ASSUME HeapInv, NEW x \in live, FreeObject(x)
  PROVE  LET q == PageOf(x[1])
         IN  /\ SameSlabs /\ q \in DOMAIN slab /\ slab'[q] \in Record
             /\ slab' = [p \in DOMAIN slab' |-> slab'[p]]
             /\ slab'[q].head = x[1] /\ slab'[q].size = slab[q].size + 1
             /\ slab'[q].state = slab[q].state /\ slab'[q].max = slab[q].max
             /\ \A p \in DOMAIN slab : p # q => slab'[p] = slab[p]
             /\ link' = [link EXCEPT ![x[1]] = slab[q].head] /\ link \in [Unit -> Cells]
             /\ live' = live \ {x}
             /\ UNCHANGED <<mark, lost, smashed, past, booted, status>>
<1> DEFINE q == PageOf(x[1])
<1>1. q \in DOMAIN slab
  BY DEF FreeObject, Found
<1>2. /\ slab[q] \in Record /\ x[1] \in Unit /\ link \in [Unit -> Cells]
      /\ slab = [p \in DOMAIN slab |-> slab[p]]
  BY <1>1, OwnerFacts DEF HeapInv, HeapType, Cells
<1>3. slab' = [slab EXCEPT ![q].head = x[1], ![q].size = @ + 1]
  BY DEF FreeObject, FreeInto
<1>4. /\ DOMAIN slab' = DOMAIN slab /\ slab' = [p \in DOMAIN slab' |-> slab'[p]]
      /\ slab'[q] = [slab[q] EXCEPT !.head = x[1], !.size = @ + 1]
      /\ \A p \in DOMAIN slab : p # q => slab'[p] = slab[p]
  <2> HIDE DEF q
  <2> QED BY <1>1, <1>2, <1>3
<1>5. /\ slab'[q] \in Record /\ slab'[q].head = x[1] /\ slab'[q].size = slab[q].size + 1
      /\ slab'[q].state = slab[q].state /\ slab'[q].max = slab[q].max
      /\ slab'[q].cache = slab[q].cache
  <2> HIDE DEF q
  <2>1. slab[q].size + 1 \in Int
    BY <1>2 DEF Record
  <2> QED BY <1>2, <1>4, <2>1 DEF Record
<1>6. /\ link' = [link EXCEPT ![x[1]] = slab[q].head] /\ live' = live \ {x}
      /\ UNCHANGED <<mark, lost, smashed, past, booted, status>>
  BY DEF FreeObject, FreeInto
<1> HIDE DEF q
<1>7. SameSlabs
  BY <1>4, <1>5 DEF SameSlabs
<1> QED BY <1>1, <1>2, <1>4, <1>5, <1>6, <1>7 DEF q

LEMMA FreeThroughout ==
  ASSUME HeapInv, NEW x \in live, FreeObject(x)
  PROVE  Throughout'
<1> DEFINE q == PageOf(x[1])
<1>1. q \in DOMAIN slab /\ HeapType /\ OnGrids /\ Throughout /\ x[1] \in Unit /\ x[1] \in AllObjects
  BY FreeFacts, OwnerFacts DEF HeapInv, Throughout
<1>2. slab[q].head \in Cells /\ slab[q].head \in Places
  BY <1>1 DEF HeapType, Record, Cells, OnGrids, Places
<1>3. link' \in [Unit -> Cells] /\ \A a \in Unit : link'[a] \in {link[a], slab[q].head}
  <2> HIDE DEF q
  <2> QED BY <1>1, <1>2, FreeFacts DEF q
<1>4. HeapType'
  <2>1. \A p \in DOMAIN slab : slab'[p] \in Record
    BY <1>1, FreeFacts DEF HeapType
  <2>2. Taken' \subseteq Taken /\ DOMAIN slab' = DOMAIN slab
    BY FreeFacts DEF Taken, SameSlabs
  <2> QED BY <1>1, <1>3, <2>1, <2>2, FreeFacts DEF HeapType, Cells
<1>5. \A p \in DOMAIN slab : slab'[p].head \in Places
  BY <1>1, FreeFacts DEF OnGrids, Places
<1>6. \A a \in Unit : link'[a] \in Places
  BY <1>1, <1>2, <1>3 DEF OnGrids, Places
<1>7. \A y \in live' : y[1] \in AllObjects
  BY <1>1, FreeFacts DEF OnGrids
<1> QED BY <1>1, <1>4, <1>5, <1>6, <1>7, FreeFacts, OwnerFacts, ThroughoutSame

LEMMA FreeUntilPast ==
  ASSUME HeapInv, NEW x \in live, FreeObject(x), ~ past, status = "ok"
  PROVE  UntilPast'
<1> DEFINE h == x[1]
           q == x[2]
           top == slab[q].head
<1>1. /\ HeapType /\ SlabsApart /\ QueuesWhole /\ TakenApart /\ SlabsCounted
      /\ smashed = {} /\ status # "undefined"
  BY DEF HeapInv
<1>2. /\ PageOf(h) = q /\ q \in DOMAIN slab /\ h \in Unit /\ x = <<h, q>> /\ h \in Grid(q)
      /\ Inside(h, q) /\ x \notin lost
  BY FoundIsOwn, FreeFacts, OwnerFacts
<1>3. /\ SameSlabs /\ slab'[q].head = h /\ slab'[q].size = slab[q].size + 1
      /\ slab'[q].state = slab[q].state /\ slab'[q].max = slab[q].max
      /\ \A p \in DOMAIN slab : p # q => slab'[p] = slab[p]
      /\ link' = [link EXCEPT ![h] = top] /\ link \in [Unit -> Cells]
      /\ live' = live \ {x} /\ lost' = lost /\ smashed' = smashed /\ status' = status
  BY <1>2, FreeFacts
<1> HIDE DEF h, q, top
<1>4. Taken' = Taken \ {x} /\ x \in Taken
  BY <1>2, <1>3 DEF Taken
<1>5. /\ \A p \in DOMAIN slab : p # q => Queued(p)' = Queued(p)
      /\ Queued(q)' = Queued(q) \cup {h} /\ h \notin Queued(q) /\ top \in Queued(q)
  <2>1. \A p \in DOMAIN slab : Grid(p)' = Grid(p)
    BY <1>3, LayoutSame
  <2>2. \A p \in DOMAIN slab : Queued(p)' = { a \in Grid(p) : <<a, p>> \notin Taken \ {x} }
    BY <1>4, <2>1 DEF Queued
  <2> QED BY <1>1, <1>2, <1>4, <2>2 DEF Queued, QueuesWhole, top
<1>6. /\ \A a \in Unit : a # h => link'[a] = link[a]
      /\ link'[h] = top
  BY <1>2, <1>3
<1>7. QueuesWhole'
  <2> SUFFICES ASSUME NEW p \in DOMAIN slab
               PROVE  /\ slab'[p].head \in Queued(p)'
                      /\ \A a \in Queued(p)' : Inside(a, p) =>
                           /\ link'[a] \in Queued(p)' \ {slab'[p].head}
                           /\ \A b \in Queued(p)' : Inside(b, p) /\ link'[b] = link'[a] => b = a
    BY <1>3, LayoutSame DEF QueuesWhole, SameSlabs
  <2>1. CASE p # q
    <3>1. ASSUME NEW a \in Queued(p), Inside(a, p) PROVE link'[a] = link[a]
      <4>1. a \in Unit /\ a \in Extent(a, slab[p].cache) /\ h \in Extent(h, slab[q].cache)
        BY <1>1, <1>2, <3>1, QueuedUnits, InsideMemory
      <4>2. a # h
        BY <1>1, <1>2, <2>1, <3>1, <4>1, InsideApart
      <4> QED BY <1>6, <4>1, <4>2
    <3> QED BY <1>1, <1>3, <1>5, <2>1, <3>1 DEF QueuesWhole
  <2>2. CASE p = q
    <3>1. \A a \in Queued(q) : a # h /\ link'[a] = link[a]
      BY <1>1, <1>2, <1>5, <1>6, QueuedUnits
    <3>2. \A a \in Queued(q) : Inside(a, q) =>
            /\ link[a] \in Queued(q) /\ link[a] # top
            /\ \A b \in Queued(q) : Inside(b, q) /\ link[b] = link[a] => b = a
      BY <1>1, <1>2 DEF QueuesWhole, top
    <3> QED BY <1>3, <1>5, <1>6, <2>2, <3>1, <3>2
  <2> QED BY <2>1, <2>2
<1>8. TakenApart'
  <2>1. live' \cap lost' = {}
    BY <1>1, <1>3 DEF TakenApart
  <2>2. \A y \in Taken' : y \in Taken /\ y[2] \in DOMAIN slab
    BY <1>1, <1>4 DEF HeapType
  <2> QED BY <1>1, <1>3, <2>1, <2>2, LayoutSame DEF TakenApart
<1>9. SlabsCounted'
  <2> SUFFICES ASSUME NEW p \in DOMAIN slab
               PROVE  /\ Cardinality(Grid(p)) = slab'[p].size + Cardinality(TakenFrom(p)')
                      /\ slab'[p].state # "full"
                      /\ slab'[p].state = "free" => slab'[p].size = slab'[p].max + 1
    BY <1>3, LayoutSame DEF SlabsCounted, TakenFrom, SameSlabs
  <2>1. CASE p # q
    <3>1. TakenFrom(p)' = TakenFrom(p)
      BY <1>2, <1>4, <2>1 DEF TakenFrom
    <3>2. slab'[p] = slab[p]
      BY <1>3, <2>1
    <3> QED BY <1>1, <3>1, <3>2 DEF SlabsCounted, TakenFrom
  <2>2. CASE p = q
    <3>1. TakenFrom(q)' = TakenFrom(q) \ {x} /\ x \in TakenFrom(q)
      BY <1>2, <1>4 DEF TakenFrom, q
    <3>2. IsFiniteSet(TakenFrom(q)) /\ Cardinality(TakenFrom(q)) \in Nat
      BY <1>1, FiniteTaken, FS_CardinalityType
    <3>3. Cardinality(TakenFrom(q)') = Cardinality(TakenFrom(q)) - 1
      BY <3>1, <3>2, FS_RemoveElement
    <3>4. slab[q].size \in Int /\ slab[q].max \in Int
      BY <1>1, <1>2 DEF HeapType, Record
    <3>5. /\ Cardinality(Grid(q)) = slab[q].size + Cardinality(TakenFrom(q))
          /\ slab[q].state # "full"
          /\ slab[q].state = "free" => slab[q].size = slab[q].max + 1
      BY <1>1, <1>2 DEF SlabsCounted, TakenFrom
    <3>6. slab[q].size - 1 < slab[q].max
      BY <1>2 DEF FreeObject, Allocated, h
    <3> QED BY <1>3, <2>2, <3>2, <3>3, <3>4, <3>5, <3>6
  <2> QED BY <2>1, <2>2
<1> QED BY <1>1, <1>3, <1>7, <1>8, <1>9 DEF UntilPast

\* Until then, what is given back on a page that a slab has marked lies in a
\* small slab.
LEMMA FreeDefined ==
  ASSUME HeapInv, NEW x \in live, FreeUndefined(x)
  PROVE  past \/ Misled
<1> SUFFICES ASSUME ~ past, ~ Misled PROVE FALSE
  OBVIOUS
<1> DEFINE m == PageOf(x[1])
           p == x[2]
<1>1. HeapType /\ SlabsApart /\ MarksBehind /\ smashed = {}
  BY DEF HeapInv
<1>2. p \in DOMAIN slab /\ x[1] \in Unit /\ Inside(x[1], p)
  BY OwnerFacts
<1>3. /\ m \in PagesIn(p) /\ Fits(p, slab[p].cache)
      /\ p \in Nat /\ p + PagesOf(slab[p].cache) <= HeapPages /\ PagesOf(slab[p].cache) \in Nat \ {0}
  <2>1. x[1] \in Extent(x[1], slab[p].cache)
    BY <1>1, <1>2, InsideMemory
  <2>2. m \in PagesIn(p) /\ Fits(p, slab[p].cache)
    BY <1>1, <1>2, <2>1, InsideMemory, SlabFits
  <2> QED BY <2>2, Sizes DEF Fits
<1>4. m \in 0 .. HeapPages /\ m \in p .. (p + PagesOf(slab[p].cache) - 1)
  BY <1>3, GeometryAssumption DEF PagesIn
<1>5. m \notin DOMAIN slab /\ mark[m] \notin {0, Junk}
  BY <1>1 DEF FreeUndefined, Found, Misled
<1>6. m - 1 \in DOMAIN slab /\ slab[m - 1].cache < LargeFrom
  BY <1>1, <1>4, <1>5 DEF MarksBehind
<1>7. m # p
  BY <1>2, <1>5
<1> HIDE DEF m, p
<1>8. m - 1 \in PagesIn(p) /\ m - 1 \in PagesIn(m - 1)
  BY <1>1, <1>3, <1>4, <1>6, <1>7, SlabFits DEF PagesIn
<1>9. m - 1 = p
  BY <1>1, <1>2, <1>6, <1>8 DEF SlabsApart, p
<1>10. PagesOf(slab[p].cache) = 1
  <2>1. slab[p].cache \in Nat /\ slab[p].cache < LargeFrom /\ LargeFrom \in Nat
    BY <1>3, <1>6, <1>9, Sizes DEF Fits
  <2> QED BY <2>1 DEF PagesOf
<1> QED BY <1>3, <1>4, <1>9, <1>10

-----------------------------------------------------------------------------
(***************************************************************************)
(* New slabs                                                               *)
(***************************************************************************)
Block(q, i) == q .. (q + PagesOf(i) - 1)

LEMMA VacantFacts ==
  ASSUME HeapType, SlabsApart, NEW i \in Cache, NEW q \in Vacant(i)
  PROVE  /\ Fits(q, i) /\ q \notin DOMAIN slab /\ q % PagesOf(i) = 0 /\ q \in Block(q, i)
         /\ Block(q, i) \cap UsedPages = {}
         /\ \A p \in DOMAIN slab : PagesIn(p) \cap Block(q, i) = {}
<1>1. /\ q \in Nat /\ PagesOf(i) \in Nat \ {0} /\ q + PagesOf(i) <= HeapPages
      /\ q % PagesOf(i) = 0 /\ Block(q, i) \cap UsedPages = {}
  BY Sizes DEF Vacant, Block
<1>2. q \in Block(q, i)
  BY <1>1 DEF Block
<1>3. \A p \in DOMAIN slab : PagesIn(p) \subseteq UsedPages /\ p \in PagesIn(p)
  BY SlabFits DEF UsedPages, PagesIn
<1> QED BY <1>1, <1>2, <1>3 DEF Fits

LEMMA VacantNumbers ==
  ASSUME NEW i \in Cache
  PROVE  Vacant(i) \subseteq Nat
  BY Sizes DEF Vacant

\* The slab made for cache i at q, and nothing else, is new.
Grows(q, i) == /\ DOMAIN slab' = DOMAIN slab \cup {q}
               /\ slab'[q].cache = i
               /\ \A p \in DOMAIN slab : slab'[p].cache = slab[p].cache

LEMMA GrownLayout ==
  ASSUME HeapType, SlabsApart, NEW i \in Cache, NEW q \in Vacant(i), Grows(q, i)
  PROVE  /\ SlabsApart'
         /\ AllObjects' = AllObjects \cup Objects(q, i) /\ UsedPages' = UsedPages \cup Block(q, i)
         /\ Grid(q)' = Objects(q, i) /\ PagesIn(q)' = Block(q, i)
         /\ \A p \in DOMAIN slab : /\ PagesIn(p)' = PagesIn(p) /\ Grid(p)' = Grid(p)
                                   /\ \A a : Inside(a, p)' <=> Inside(a, p)
<1>1. Grid(q)' = Objects(q, i) /\ PagesIn(q)' = Block(q, i)
  BY DEF Grid, PagesIn, Block, Grows
<1>2. q \notin DOMAIN slab
  BY VacantFacts
<1>3. \A p \in DOMAIN slab : /\ PagesIn(p)' = PagesIn(p) /\ Grid(p)' = Grid(p)
                             /\ \A a : Inside(a, p)' <=> Inside(a, p)
  BY <1>2 DEF Grows, PagesIn, Grid, Inside
<1>4. /\ AllObjects = UNION { Grid(p) : p \in DOMAIN slab }
      /\ AllObjects' = UNION { Grid(p)' : p \in DOMAIN slab' }
      /\ UsedPages = UNION { PagesIn(p) : p \in DOMAIN slab }
      /\ UsedPages' = UNION { PagesIn(p)' : p \in DOMAIN slab' }
  BY DEF AllObjects, UsedPages, PagesIn
<1>5. AllObjects' = AllObjects \cup Objects(q, i)
  BY <1>1, <1>3, <1>4 DEF Grows
<1>6. UsedPages' = UsedPages \cup Block(q, i)
  BY <1>1, <1>3, <1>4 DEF Grows
<1>7. SlabsApart'
  <2>1. q + PagesOf(slab'[q].cache) <= HeapPages
    BY VacantFacts DEF Grows, Fits
  <2>2. \A p \in DOMAIN slab' : p + PagesOf(slab'[p].cache) <= HeapPages
    BY <2>1 DEF Grows, SlabsApart
  <2>3. \A p, r \in DOMAIN slab' : p # r => PagesIn(p)' \cap PagesIn(r)' = {}
    BY <1>1, <1>3, VacantFacts DEF SlabsApart, Grows
  <2> QED BY <2>2, <2>3 DEF SlabsApart
<1> QED BY <1>1, <1>3, <1>5, <1>6, <1>7

LEMMA FreshFacts ==
  ASSUME NEW q, NEW i, Fits(q, i)
  PROVE  LET fresh == NewSlab(q, i)
         IN  /\ fresh \in Record /\ fresh.cache = i /\ fresh.state = "free"
             /\ fresh.head = Base(q) + Header /\ fresh.head \in Objects(q, i) /\ fresh.head \in Unit
             /\ fresh.size = Cardinality(Objects(q, i)) /\ fresh.max = Cardinality(Objects(q, i)) - 1
             /\ Cardinality(Objects(q, i)) \in Nat
<1> DEFINE c == Cardinality(Objects(q, i))
           r == [cache |-> i, state |-> "free", head |-> Base(q) + Header, size |-> c, max |-> c - 1]
<1>2. NewSlab(q, i) = r
  BY DEF NewSlab
<1>3. Objects(q, i) \subseteq Unit /\ Base(q) + Header \in Objects(q, i)
  BY GridUnits, GridEnds
<1>4. c \in Nat
  <2>1. Limit \in Int
    BY GeometryAssumption DEF Limit
  <2>2. IsFiniteSet(Unit)
    BY <2>1, FS_Interval DEF Unit
  <2> QED BY <1>3, <2>2, FS_Subset, FS_CardinalityType
<1> HIDE DEF c
<1>5. r \in Record
  BY <1>3, <1>4 DEF Record, Fits
<1> QED BY <1>2, <1>3, <1>4, <1>5 DEF c

LEMMA FreshLinks ==
  ASSUME HeapType, NEW q, NEW i, Fits(q, i)
  PROVE  /\ NewLinks(q, i) \in [Unit -> Cells]
         /\ \A a \in Unit : NewLinks(q, i)[a] \in {link[a], Null, Junk} \cup Objects(q, i)
<1>1. link \in [Unit -> Cells] /\ Objects(q, i) \subseteq Unit
  BY GridUnits DEF HeapType, Cells
<1> QED BY <1>1 DEF NewLinks, Cells

\* A slab marks the page behind it if it is small, and no other.
LEMMA FreshMarks ==
  ASSUME NEW q, NEW i, Fits(q, i), NEW r \in Nat, Base(r) \in Objects(q, i)
  PROVE  r - 1 = q /\ i < LargeFrom
<1> DEFINE e == Base(q + PagesOf(i))
<1>1. /\ Base(r) \in (Base(q) + Header) .. (e + Header)
      /\ (Base(r) - (Base(q) + Header)) % Size(i) = 0
      /\ q \in Nat /\ PagesOf(i) \in Nat \ {0} /\ i \in Cache
      /\ Base(q) \in Nat /\ e \in Nat /\ Base(r) \in Nat
      /\ Header \in 1 .. (PageUnits - 1) /\ PageUnits \in Nat \ {0} /\ Size(i) \in Nat \ {0}
      /\ i \in Nat /\ LargeFrom \in Nat
  BY GridPlaces, Sizes, Bases DEF Fits
<1> HIDE DEF e
<1>2. r > q
  <2> SUFFICES ASSUME r <= q PROVE FALSE
    BY <1>1
  <2> QED BY <1>1, BasesGrow
<1>3. r <= q + PagesOf(i)
  <2> SUFFICES ASSUME q + PagesOf(i) < r PROVE FALSE
    BY <1>1
  <2>1. e + PageUnits <= Base(r)
    BY <1>1, NextBase DEF e
  <2> QED BY <1>1, <2>1
<1>4. i < LargeFrom
  <2> SUFFICES ASSUME i >= LargeFrom PROVE FALSE
    BY <1>1
  <2>1. Header < Size(i)
    BY <1>1, GeometryAssumption
  <2>2. r - q \in Nat /\ r = q + (r - q)
    BY <1>1, <1>2
  <2>3. Base(r) - Base(q) = (r - q) * PageUnits /\ (r - q) * PageUnits \in Nat
    <3>1. Base(q + (r - q)) = Base(q) + (r - q) * PageUnits
      BY <1>1, <2>2, Bases
    <3>2. (r - q) * PageUnits \in Nat
      BY <1>1, <2>2
    <3> QED BY <1>1, <2>2, <3>1, <3>2
  <2>4. (Base(r) - Base(q)) % Size(i) = 0
    BY <1>1, <2>2, <2>3, ProductMultiple, Sizes
  <2>5. /\ Base(r) - Base(q) \in Int /\ Base(r) - (Base(q) + Header) \in Int
        /\ (Base(r) - Base(q)) - (Base(r) - (Base(q) + Header)) = Header
    BY <1>1
  <2>6. Header % Size(i) = 0
    <3>1. ((Base(r) - Base(q)) - (Base(r) - (Base(q) + Header))) % Size(i) = 0
      BY <1>1, <2>4, <2>5, Multiples
    <3> QED BY <2>5, <3>1
  <2> QED BY <1>1, <2>1, <2>6
<1>5. PagesOf(i) = 1
  BY <1>1, <1>4 DEF PagesOf
<1> QED BY <1>1, <1>2, <1>3, <1>4, <1>5

LEMMA MarksGrow ==
  ASSUME HeapType, SlabsApart, MarksBehind, NEW i \in Cache, NEW q \in Vacant(i), Grows(q, i),
         mark' = NewMarks(q, i)
  PROVE  MarksBehind' /\ mark' \in [0 .. HeapPages -> Nat \cup {Junk}]
<1>1. Fits(q, i)
  BY VacantFacts
<1>2. mark' \in [0 .. HeapPages -> Nat \cup {Junk}]
  BY Sizes DEF NewMarks, HeapType
<1>3. ASSUME NEW r \in 0 .. HeapPages, mark'[r] \notin {0, Junk}
      PROVE  r - 1 \in DOMAIN slab' /\ slab'[r - 1].cache < LargeFrom
  <2>1. CASE Base(r) \in Objects(q, i)
    <3>1. r - 1 = q /\ i < LargeFrom
      BY <1>1, <2>1, FreshMarks
    <3> QED BY <3>1 DEF Grows
  <2>2. CASE Base(r) \notin Objects(q, i)
    <3>1. mark[r] \notin {0, Junk}
      BY <1>3, <2>2 DEF NewMarks
    <3> QED BY <3>1 DEF MarksBehind, Grows
  <2> QED BY <2>1, <2>2
<1> QED BY <1>2, <1>3 DEF MarksBehind

\* The parts that a new slab disturbs.
LEMMA ThroughoutGrown ==
  ASSUME Throughout, NEW i \in Cache, NEW q \in Vacant(i), Grows(q, i), HeapType',
         mark' = NewMarks(q, i), Booting',
         \A p \in DOMAIN slab' : slab'[p].head \in Places \cup Objects(q, i),
         \A a \in Unit : link'[a] \in Places \cup Objects(q, i),
         \A x \in live' : x[1] \in AllObjects
  PROVE  Throughout'
<1>1. HeapType /\ SlabsApart /\ MarksBehind
  BY DEF Throughout
<1>2. SlabsApart' /\ AllObjects' = AllObjects \cup Objects(q, i)
  BY <1>1, GrownLayout
<1>3. OnGrids'
  BY <1>2 DEF OnGrids, Places
<1>4. MarksBehind'
  BY <1>1, MarksGrow
<1> QED BY <1>2, <1>3, <1>4 DEF Throughout

-----------------------------------------------------------------------------
(***************************************************************************)
(* The caches are initialized                                              *)
(***************************************************************************)
LEMMA InitFacts ==
  ASSUME HeapInv, InitCache
  PROVE  LET q == Min(Vacant(booted))
         IN  /\ booted \in Cache /\ q \in Vacant(booted) /\ Fits(q, booted)
             /\ \A r \in Vacant(booted) : q <= r
             /\ ~ past /\ Taken = {} /\ q \notin DOMAIN slab
             /\ Grows(q, booted) /\ slab'[q] = NewSlab(q, booted)
             /\ slab' = [p \in DOMAIN slab' |-> slab'[p]]
             /\ \A p \in DOMAIN slab : slab'[p] = slab[p]
             /\ link' = NewLinks(q, booted) /\ mark' = NewMarks(q, booted)
             /\ smashed' = smashed \cup Overrun(q, booted)
             /\ booted' = booted + 1
             /\ live' = live /\ lost' = lost /\ Taken' = {}
             /\ past' = past /\ status' = status /\ status = "ok"
<1> DEFINE q == Min(Vacant(booted))
<1>1. booted \in Cache /\ Vacant(booted) # {} /\ HeapType /\ SlabsApart /\ Booting
  BY DEF InitCache, HeapInv
<1>2. q \in Vacant(booted) /\ \A r \in Vacant(booted) : q <= r
  BY <1>1, LeastNumber, VacantNumbers
<1>3. Fits(q, booted) /\ q \notin DOMAIN slab
  BY <1>1, <1>2, VacantFacts
<1>4. booted < Caches
  BY <1>1, GeometryAssumption DEF Cache
<1>5. ~ past /\ Taken = {}
  BY <1>1, <1>4 DEF Booting
<1>6. slab' = Inserted(slab, q, NewSlab(q, booted))
  BY DEF InitCache
<1> HIDE DEF q
<1>7. /\ DOMAIN slab' = DOMAIN slab \cup {q} /\ slab'[q] = NewSlab(q, booted)
      /\ slab' = [p \in DOMAIN slab' |-> slab'[p]]
      /\ \A p \in DOMAIN slab : slab'[p] = slab[p]
  BY <1>3, <1>6 DEF Inserted
<1>8. Grows(q, booted)
  BY <1>3, <1>7, FreshFacts DEF Grows
<1>9. Taken' = {}
  BY <1>5 DEF InitCache, Taken
<1> QED BY <1>1, <1>2, <1>3, <1>5, <1>7, <1>8, <1>9 DEF InitCache, q

\* Slabs are made above those there are.
LEMMA InitAbove ==
  ASSUME HeapInv, InitCache
  PROVE  \A u \in UsedPages : u \in Nat /\ u < Min(Vacant(booted))
<1> DEFINE q == Min(Vacant(booted))
<1> SUFFICES ASSUME NEW u \in UsedPages PROVE u \in Nat /\ u < q
  OBVIOUS
<1>1. HeapType /\ SlabsApart /\ Booting /\ booted < Caches /\ booted \in Cache
  BY InitFacts, GeometryAssumption DEF HeapInv, Cache
<1>2. u \in Nat
  <2>1. PICK p \in DOMAIN slab : u \in PagesIn(p)
    BY DEF UsedPages, PagesIn
  <2> QED BY <1>1, <2>1, SlabFits, Sizes DEF PagesIn, Fits
<1>3. /\ q \in Vacant(booted) /\ q % PagesOf(booted) = 0
      /\ Block(q, booted) \cap UsedPages = {} /\ Fits(q, booted)
  BY <1>1, InitFacts, VacantFacts
<1>4. q \in 0 .. HeapPages
  BY <1>3, Sizes DEF Fits
<1> HIDE DEF q
<1>5. ~ (q <= u)
  BY <1>1, <1>3, <1>4 DEF Booting, Block
<1> QED BY <1>2, <1>4, <1>5

\* Below what is used then, no block of the next cache is free either.
LEMMA InitBooting ==
  ASSUME HeapInv, InitCache
  PROVE  Booting'
<1> DEFINE q == Min(Vacant(booted))
           n == PagesOf(booted)
           m == PagesOf(booted + 1)
<1>1. /\ HeapType /\ SlabsApart /\ Booting /\ booted \in Cache /\ booted < Caches
      /\ q \in Vacant(booted) /\ Fits(q, booted) /\ Grows(q, booted) /\ booted' = booted + 1
      /\ Taken' = {} /\ ~ past'
  BY InitFacts, GeometryAssumption DEF HeapInv, Cache
<1>2. UsedPages' = UsedPages \cup Block(q, booted)
  BY <1>1, GrownLayout
<1> SUFFICES ASSUME booted + 1 < Caches,
                    NEW u \in UsedPages', NEW r \in 0 .. HeapPages, r <= u, r % m = 0
             PROVE  (r .. (r + m - 1)) \cap UsedPages' # {}
  BY <1>1 DEF Booting
<1>3. /\ n \in Nat \ {0} /\ m \in Nat \ {0} /\ q \in Nat /\ q + n <= HeapPages
      /\ (n = m \/ n = 1) /\ HeapPages \in Nat
  <2>1. booted + 1 \in Cache /\ booted \in Nat
    BY <1>1, GeometryAssumption DEF Cache
  <2>2. n = m \/ n = 1
    BY <2>1, GeometryAssumption DEF PagesOf
  <2> QED BY <1>1, <2>1, <2>2, Sizes DEF Fits
<1>4. Block(q, booted) = q .. (q + n - 1) /\ \A w \in UsedPages : w \in Nat /\ w < q
  BY InitAbove DEF Block
<1>5. \A w \in Vacant(booted) : q <= w
  BY InitFacts
<1>6. \A w \in 0 .. (HeapPages - n) :
        w % n = 0 /\ (w .. (w + n - 1)) \cap UsedPages = {} => w \in Vacant(booted)
  BY DEF Vacant
<1> HIDE DEF q, n, m
<1>7. r % n = 0
  <2>1. r % 1 = 0
    OBVIOUS
  <2> QED BY <1>3, <2>1
<1>8. CASE r < q
  <2>1. r \in 0 .. (HeapPages - n)
    BY <1>3, <1>8
  <2>2. PICK w \in r .. (r + n - 1) : w \in UsedPages
    BY <1>3, <1>5, <1>6, <1>7, <1>8, <2>1
  <2>3. w \in r .. (r + m - 1)
    BY <1>3, <2>2
  <2> QED BY <1>2, <2>2, <2>3
<1>9. CASE q <= r
  <2>1. u \in Block(q, booted)
    BY <1>2, <1>3, <1>4, <1>9
  <2>2. r \in Block(q, booted)
    BY <1>3, <1>4, <1>9, <2>1
  <2>3. r \in r .. (r + m - 1)
    BY <1>3
  <2> QED BY <1>2, <2>2, <2>3
<1> QED BY <1>3, <1>8, <1>9

LEMMA InitThroughout ==
  ASSUME HeapInv, InitCache
  PROVE  Throughout'
<1> DEFINE q == Min(Vacant(booted))
<1>1. HeapType /\ SlabsApart /\ MarksBehind /\ OnGrids /\ Throughout
  BY DEF HeapInv, Throughout
<1>2. /\ booted \in Cache /\ q \in Vacant(booted) /\ Fits(q, booted)
      /\ Taken = {} /\ Grows(q, booted) /\ slab'[q] = NewSlab(q, booted)
      /\ slab' = [p \in DOMAIN slab' |-> slab'[p]]
      /\ \A p \in DOMAIN slab : slab'[p] = slab[p]
      /\ link' = NewLinks(q, booted) /\ mark' = NewMarks(q, booted)
      /\ smashed' = smashed \cup Overrun(q, booted)
      /\ booted' = booted + 1 /\ live' = live /\ Taken' = {} /\ past' = past
  BY InitFacts
<1> HIDE DEF q
<1>3. DOMAIN slab' = DOMAIN slab \cup {q}
  BY <1>2 DEF Grows
<1>4. HeapType'
  <2>1. q \in 0 .. HeapPages
    BY <1>2, Sizes DEF Fits
  <2>2. \A p \in DOMAIN slab' : slab'[p] \in Record
    BY <1>1, <1>2, <1>3, FreshFacts DEF HeapType
  <2>3. link' \in [Unit -> Unit \cup {Null, Junk}]
    BY <1>1, <1>2, FreshLinks DEF Cells
  <2>4. mark' \in [0 .. HeapPages -> Nat \cup {Junk}]
    BY <1>1, <1>2, MarksGrow
  <2>5. smashed' \subseteq DOMAIN slab'
    BY <1>1, <1>2, <1>3 DEF HeapType, Overrun
  <2>6. booted' \in 0 .. Caches
    BY <1>2, GeometryAssumption DEF Cache
  <2> QED BY <1>1, <1>2, <1>3, <2>1, <2>2, <2>3, <2>4, <2>5, <2>6 DEF HeapType
<1>5. \A p \in DOMAIN slab' : slab'[p].head \in Places \cup Objects(q, booted)
  BY <1>1, <1>2, <1>3, FreshFacts DEF OnGrids, Places
<1>6. \A a \in Unit : link'[a] \in Places \cup Objects(q, booted)
  BY <1>1, <1>2, FreshLinks DEF OnGrids, Places
<1>7. \A x \in live' : x[1] \in AllObjects
  BY <1>1, <1>2 DEF OnGrids
<1> QED BY <1>1, <1>2, <1>4, <1>5, <1>6, <1>7, InitBooting, ThroughoutGrown

LEMMA InitUntilPast ==
  ASSUME HeapInv, InitCache
  PROVE  UntilPast'
<1> SUFFICES ASSUME NEW q, q = Min(Vacant(booted)) PROVE UntilPast'
  OBVIOUS
<1>1. /\ HeapType /\ SlabsApart /\ ~ past /\ smashed = {}
      /\ QueuesWhole /\ SlabsCounted /\ status # "undefined"
  BY InitFacts DEF HeapInv, InitCache
<1>2. /\ booted \in Cache /\ q \in Vacant(booted) /\ Fits(q, booted) /\ q \notin DOMAIN slab
      /\ Taken = {} /\ Grows(q, booted) /\ slab'[q] = NewSlab(q, booted)
      /\ \A p \in DOMAIN slab : slab'[p] = slab[p]
      /\ link' = NewLinks(q, booted) /\ smashed' = smashed \cup Overrun(q, booted)
      /\ live' = live /\ lost' = lost /\ Taken' = {} /\ status' = status
  BY InitFacts
<1>3. \A u \in UsedPages : u \in Nat /\ u < q
  BY InitAbove
<1>4. /\ DOMAIN slab' = DOMAIN slab \cup {q} /\ Grid(q)' = Objects(q, booted)
      /\ \A p \in DOMAIN slab : Grid(p)' = Grid(p) /\ \A a : Inside(a, p)' <=> Inside(a, p)
  BY <1>1, <1>2, GrownLayout DEF Grows
<1>5. Base(q) \in Nat /\ q \in Nat /\ Header \in Nat /\ PageUnits \in Nat
  BY <1>2, Bases, Sizes DEF Fits
<1>6. \A a \in Objects(q, booted) \cup HeaderOf(q) : a \in Int /\ a >= Base(q)
  BY <1>2, <1>5, GridPlaces DEF HeaderOf
\* What lies in the slabs there are is in front of the new one.
<1>7. ASSUME NEW p \in DOMAIN slab
      PROVE  /\ Base(p) \in Nat /\ Base(p) + PageUnits <= Base(q)
             /\ \A a \in Grid(p) : Inside(a, p) => a \in Nat /\ a < Base(q)
  <2>1. Fits(p, slab[p].cache) /\ p \in PagesIn(p) /\ p + PagesOf(slab[p].cache) - 1 \in PagesIn(p)
    BY <1>1, SlabFits
  <2>2. PagesIn(p) \subseteq UsedPages
    BY DEF PagesIn, UsedPages
  <2>3. p \in Nat /\ p < q /\ PagesOf(slab[p].cache) \in Nat /\ p + PagesOf(slab[p].cache) <= q
    BY <1>2, <1>3, <1>5, <2>1, <2>2, Sizes DEF Fits
  <2>4. Base(p) \in Nat /\ Base(p) + PageUnits <= Base(q)
    BY <1>5, <2>3, NextBase, Bases
  <2>5. Base(p + PagesOf(slab[p].cache)) <= Base(q) /\ Base(p + PagesOf(slab[p].cache)) \in Nat
    BY <1>5, <2>3, BasesGrow, Bases
  <2>6. ASSUME NEW a \in Grid(p), Inside(a, p) PROVE a \in Nat /\ a < Base(q)
    <3>1. a \in Unit /\ a \in Nat
      BY <1>1, QueuedUnits DEF Unit
    <3>2. a + Size(slab[p].cache) <= Base(p + PagesOf(slab[p].cache))
      BY <1>1, <2>6, <3>1, InsideMemory
    <3>3. Size(slab[p].cache) \in Nat \ {0}
      BY <2>1, Sizes DEF Fits
    <3> QED BY <1>5, <2>5, <3>1, <3>2, <3>3
  <2> QED BY <2>4, <2>6
<1>8. smashed' = {}
  <2> SUFFICES ASSUME NEW p \in DOMAIN slab, NEW a \in HeaderOf(p), a \in Objects(q, booted) PROVE FALSE
    BY <1>1, <1>2 DEF Overrun
  <2>1. a \in Int /\ a < Base(p) + Header /\ Header < PageUnits
    BY <1>5, <1>7, GeometryAssumption DEF HeaderOf
  <2>2. a >= Base(q)
    BY <1>6
  <2> QED BY <1>5, <1>7, <2>1, <2>2
<1>9. ASSUME NEW p \in DOMAIN slab, NEW a \in Grid(p), Inside(a, p) PROVE link'[a] = link[a]
  <2>1. a \in Unit /\ a \in Nat /\ a < Base(q)
    BY <1>1, <1>7, <1>9, QueuedUnits
  <2>2. a \notin HeaderOf(q) /\ a \notin Objects(q, booted)
    BY <1>5, <1>6, <2>1
  <2> QED BY <1>2, <2>1, <2>2 DEF NewLinks
<1>10. /\ \A p \in DOMAIN slab : Queued(p)' = Queued(p) /\ Queued(p) = Grid(p)
       /\ Queued(q)' = Objects(q, booted)
  BY <1>2, <1>4 DEF Queued
<1>11. QueuesWhole'
  <2> SUFFICES ASSUME NEW p \in DOMAIN slab'
               PROVE  /\ slab'[p].head \in Queued(p)'
                      /\ \A a \in Queued(p)' : Inside(a, p)' =>
                           /\ link'[a] \in Queued(p)' \ {slab'[p].head}
                           /\ \A b \in Queued(p)' : Inside(b, p)' /\ link'[b] = link'[a] => b = a
    BY DEF QueuesWhole
  <2>1. CASE p # q
    <3>1. p \in DOMAIN slab
      BY <1>4, <2>1
    <3> QED BY <1>1, <1>2, <1>4, <1>9, <1>10, <3>1 DEF QueuesWhole
  <2>2. CASE p = q
    <3>1. slab'[q].cache = booted /\ slab'[q].head = Base(q) + Header /\ Size(booted) \in Nat \ {0}
      BY <1>2, FreshFacts, Sizes
    <3>2. ASSUME NEW a \in Objects(q, booted), Inside(a, q)'
          PROVE  /\ a \in Nat /\ link'[a] = a + Size(booted) /\ a + Size(booted) \in Objects(q, booted)
                 /\ a >= Base(q) + Header
      <4>1. a \in Unit /\ a \in Nat /\ a >= Base(q) + Header
        BY <1>2, <1>5, GridUnits, GridPlaces DEF Unit
      <4>2. Extent(a, booted) \subseteq Base(q) .. (Base(q + PagesOf(booted)) - 1)
        BY <3>1, <3>2 DEF Inside
      <4>3. a + Size(booted) <= Base(q + PagesOf(booted))
        <5>1. a + Size(booted) - 1 \in Extent(a, booted)
          BY <3>1, <4>1 DEF Extent
        <5>2. Base(q + PagesOf(booted)) \in Nat
          BY <1>2, GridPlaces
        <5> QED BY <1>5, <3>1, <4>1, <4>2, <5>1, <5>2
      <4>4. a + Size(booted) \in Objects(q, booted)
        BY <1>2, <4>3, NextObject
      <4>5. a \notin HeaderOf(q)
        BY <1>5, <4>1 DEF HeaderOf
      <4> QED BY <1>2, <4>1, <4>4, <4>5 DEF NewLinks
    <3>3. Base(q) + Header \in Objects(q, booted)
      BY <1>2, GridEnds
    <3> QED BY <1>5, <1>10, <2>2, <3>1, <3>2, <3>3
  <2> QED BY <2>1, <2>2
<1>12. TakenApart'
  BY <1>2 DEF TakenApart, Taken
<1>13. SlabsCounted'
  <2> SUFFICES ASSUME NEW p \in DOMAIN slab'
               PROVE  /\ Cardinality(Grid(p)') = slab'[p].size + Cardinality({ x \in Taken' : x[2] = p })
                      /\ slab'[p].state # "full"
                      /\ slab'[p].state = "free" => slab'[p].size = slab'[p].max + 1
    BY DEF SlabsCounted
  <2>1. CASE p # q
    <3>1. p \in DOMAIN slab
      BY <1>4, <2>1
    <3> QED BY <1>1, <1>2, <1>4, <3>1 DEF SlabsCounted
  <2>2. CASE p = q
    <3>1. { x \in Taken' : x[2] = q } = {}
      BY <1>2
    <3>2. Cardinality({}) = 0
      BY FS_EmptySet
    <3> QED BY <1>2, <1>4, <2>2, <3>1, <3>2, FreshFacts
  <2> QED BY <2>1, <2>2
<1> QED BY <1>1, <1>2, <1>8, <1>11, <1>12, <1>13 DEF UntilPast

-----------------------------------------------------------------------------
(***************************************************************************)
(* The last object of a slab                                               *)
(***************************************************************************)
LEMMA LastFacts ==
  ASSUME HeapInv, NEW i, AllocLast(i)
  PROVE  \E q \in Vacant(i), p \in DOMAIN slab :
           /\ i \in Cache /\ booted = Caches /\ Fits(q, i) /\ q \notin DOMAIN slab
           /\ Usable(p) /\ slab[p].size = 1
           /\ Grows(q, i) /\ slab' = [r \in DOMAIN slab' |-> slab'[r]]
           /\ slab'[q] = Dequeued(NewSlab(q, i), NewLinks(q, i), "partial")
           /\ slab'[p] = Dequeued(slab[p], link, "full")
           /\ \A r \in DOMAIN slab : r # p => slab'[r] = slab[r]
           /\ Owned(<<slab[p].head, p>>, NewLinks(q, i), smashed \cup Overrun(q, i))
           /\ mark' = NewMarks(q, i) /\ lost' = lost \cup {<<NewSlab(q, i).head, q>>}
           /\ booted' = booted /\ status' = status
<1>1. i \in Cache /\ Vacant(i) # {} /\ booted = Caches /\ HeapType /\ SlabsApart
  BY DEF AllocLast, Ready, HeapInv
<1>2. SUFFICES ASSUME NEW q, q = Min(Vacant(i))
               PROVE  \E p \in DOMAIN slab :
           /\ i \in Cache /\ booted = Caches /\ Fits(q, i) /\ q \notin DOMAIN slab
           /\ Usable(p) /\ slab[p].size = 1
           /\ Grows(q, i) /\ slab' = [r \in DOMAIN slab' |-> slab'[r]]
           /\ slab'[q] = Dequeued(NewSlab(q, i), NewLinks(q, i), "partial")
           /\ slab'[p] = Dequeued(slab[p], link, "full")
           /\ \A r \in DOMAIN slab : r # p => slab'[r] = slab[r]
           /\ Owned(<<slab[p].head, p>>, NewLinks(q, i), smashed \cup Overrun(q, i))
           /\ mark' = NewMarks(q, i) /\ lost' = lost \cup {<<NewSlab(q, i).head, q>>}
           /\ booted' = booted /\ status' = status
  BY <1>1, LeastNumber, VacantNumbers
<1>3. q \in Vacant(i) /\ Fits(q, i) /\ q \notin DOMAIN slab
  BY <1>1, <1>2, LeastNumber, VacantNumbers, VacantFacts
<1>4. PICK p \in Slabs(i, "partial") :
        /\ Usable(p) /\ slab[p].size = 1
        /\ slab' = Inserted([slab EXCEPT ![p] = Dequeued(@, link, "full")], q,
                            Dequeued(NewSlab(q, i), NewLinks(q, i), "partial"))
        /\ Owned(<<slab[p].head, p>>, NewLinks(q, i), smashed \cup Overrun(q, i))
        /\ mark' = NewMarks(q, i)
        /\ lost' = lost \cup {<<NewSlab(q, i).head, q>>}
  BY <1>2 DEF AllocLast
<1>5. p \in DOMAIN slab /\ slab[p] \in Record /\ slab[p].head \in Unit
      /\ slab = [r \in DOMAIN slab |-> slab[r]] /\ link \in [Unit -> Cells]
  BY <1>1, <1>4 DEF Slabs, HeapType, Usable, Cells
<1>6. /\ DOMAIN slab' = DOMAIN slab \cup {q} /\ slab' = [r \in DOMAIN slab' |-> slab'[r]]
      /\ slab'[q] = Dequeued(NewSlab(q, i), NewLinks(q, i), "partial")
      /\ slab'[p] = Dequeued(slab[p], link, "full")
      /\ \A r \in DOMAIN slab : r # p => slab'[r] = slab[r]
  BY <1>3, <1>4, <1>5 DEF Inserted
<1>7. Grows(q, i)
  <2>1. slab'[q].cache = i
    BY <1>1, <1>3, <1>6, FreshFacts, FreshLinks, DequeuedTypes
  <2>2. slab'[p].cache = slab[p].cache
    BY <1>5, <1>6, DequeuedTypes
  <2> QED BY <1>6, <2>1, <2>2 DEF Grows
<1> QED BY <1>1, <1>3, <1>4, <1>5, <1>6, <1>7 DEF AllocLast

\* Two objects in a queue: the second is not the last one.
LEMMA TwoQueued ==
  ASSUME HeapType, SlabsApart, TakenApart, NEW p \in DOMAIN slab,
         NEW a \in Queued(p), NEW b \in Queued(p), a # b
  PROVE  Cardinality(TakenFrom(p)) + 2 <= Cardinality(Grid(p))
<1> DEFINE T == TakenFrom(p)
           all == Grid(p) \X {p}
<1>1. IsFiniteSet(T) /\ Cardinality(T) \in Nat
  BY FiniteTaken, FS_CardinalityType
<1>2. /\ <<a, p>> \notin T /\ <<b, p>> \notin T \cup {<<a, p>>}
      /\ (T \cup {<<a, p>>}) \cup {<<b, p>>} \subseteq all
  <2>1. a \in Grid(p) /\ b \in Grid(p) /\ <<a, p>> \notin Taken /\ <<b, p>> \notin Taken
    BY DEF Queued
  <2>2. T \subseteq all
    BY DEF TakenFrom, TakenApart, HeapType
  <2> QED BY <2>1, <2>2 DEF TakenFrom
<1> HIDE DEF T
<1>3. /\ IsFiniteSet(T \cup {<<a, p>>}) /\ Cardinality(T \cup {<<a, p>>}) = Cardinality(T) + 1
  BY <1>1, <1>2, FS_AddElement
<1>4. Cardinality((T \cup {<<a, p>>}) \cup {<<b, p>>}) = Cardinality(T) + 1 + 1
  BY <1>2, <1>3, FS_AddElement
<1>5. IsFiniteSet(Grid(p))
  <2>1. Limit \in Int
    BY GeometryAssumption DEF Limit
  <2>2. IsFiniteSet(Unit)
    BY <2>1, FS_Interval DEF Unit
  <2> QED BY <2>2, QueuedUnits, FS_Subset
<1>6. IsFiniteSet(all) /\ Cardinality(all) = Cardinality(Grid(p)) * 1
  <2> HIDE DEF T
  <2>1. IsFiniteSet({p}) /\ Cardinality({p}) = 1
    BY FS_Singleton
  <2>2. /\ IsFiniteSet(Grid(p) \X {p})
        /\ Cardinality(Grid(p) \X {p}) = Cardinality(Grid(p)) * Cardinality({p})
    BY <1>5, <2>1, FS_Product
  <2> QED BY <2>1, <2>2 DEF all
<1>7. Cardinality((T \cup {<<a, p>>}) \cup {<<b, p>>}) <= Cardinality(all)
  BY <1>2, <1>6, FS_Subset
<1>8. Cardinality(Grid(p)) \in Nat
  BY <1>5, FS_CardinalityType
<1> QED BY <1>1, <1>4, <1>6, <1>7, <1>8 DEF T

\* The last object in a queue lies beyond the slab.
LEMMA LastIsPast ==
  ASSUME HeapInv, NEW p \in DOMAIN slab, slab[p].size = 1, ~ past
  PROVE  ~ Inside(slab[p].head, p)
<1> SUFFICES ASSUME Inside(slab[p].head, p) PROVE FALSE
  OBVIOUS
<1>1. /\ HeapType /\ SlabsApart /\ TakenApart /\ QueuesWhole /\ SlabsCounted
  BY DEF HeapInv
<1>2. /\ slab[p].head \in Queued(p) /\ link[slab[p].head] \in Queued(p)
      /\ link[slab[p].head] # slab[p].head
  BY <1>1 DEF QueuesWhole
<1>3. Cardinality(TakenFrom(p)) + 2 <= Cardinality(Grid(p))
  BY <1>1, <1>2, TwoQueued
<1>4. Cardinality(Grid(p)) = 1 + Cardinality(TakenFrom(p))
  BY <1>1 DEF SlabsCounted, TakenFrom
<1>5. Cardinality(TakenFrom(p)) \in Nat
  BY <1>1, FiniteTaken, FS_CardinalityType
<1> QED BY <1>3, <1>4, <1>5

LEMMA LastKeeps ==
  ASSUME HeapInv, NEW i, AllocLast(i)
  PROVE  HeapInv'
<1>1. PICK q \in Vacant(i), p \in DOMAIN slab :
           /\ i \in Cache /\ booted = Caches /\ Fits(q, i) /\ q \notin DOMAIN slab
           /\ Usable(p) /\ slab[p].size = 1
           /\ Grows(q, i) /\ slab' = [r \in DOMAIN slab' |-> slab'[r]]
           /\ slab'[q] = Dequeued(NewSlab(q, i), NewLinks(q, i), "partial")
           /\ slab'[p] = Dequeued(slab[p], link, "full")
           /\ \A r \in DOMAIN slab : r # p => slab'[r] = slab[r]
           /\ Owned(<<slab[p].head, p>>, NewLinks(q, i), smashed \cup Overrun(q, i))
           /\ mark' = NewMarks(q, i) /\ lost' = lost \cup {<<NewSlab(q, i).head, q>>}
           /\ booted' = booted /\ status' = status
  BY LastFacts
<1> DEFINE h == slab[p].head
           fresh == NewSlab(q, i)
           links == NewLinks(q, i)
<1>2. /\ HeapType /\ SlabsApart /\ MarksBehind /\ OnGrids /\ Throughout
      /\ slab[p] \in Record /\ h \in Unit /\ h \in AllObjects /\ link \in [Unit -> Cells]
  <2>1. HeapType /\ SlabsApart /\ MarksBehind /\ OnGrids /\ Throughout
    BY DEF HeapInv, Throughout
  <2>2. slab[p] \in Record /\ h \in Unit /\ link \in [Unit -> Cells]
    BY <1>1, <2>1 DEF HeapType, Usable, Cells
  <2> QED BY <2>1, <2>2, NoCells DEF OnGrids
<1>3. /\ links \in [Unit -> Cells]
      /\ \A a \in Unit : links[a] \in {link[a], Null, Junk} \cup Objects(q, i)
      /\ fresh \in Record /\ fresh.head \in Unit /\ fresh.head \in Objects(q, i)
  BY <1>1, <1>2, FreshLinks, FreshFacts
<1>4. /\ slab'[q] \in Record /\ slab'[q].head = links[fresh.head]
      /\ slab'[p] \in Record /\ slab'[p].head = link[h]
  BY <1>1, <1>2, <1>3, DequeuedTypes
<1>5. /\ link' \in [Unit -> Cells] /\ \A a \in Unit : link'[a] \in {links[a], Junk}
      /\ smashed' \subseteq smashed \cup Overrun(q, i) \cup DOMAIN slab'
      /\ live' = live \cup {<<h, p>>}
  BY <1>1, <1>3, OwnedTypes
<1>6. past' = TRUE
  <2>1. past' = (past \/ ~ Inside(h, p))
    BY <1>1 DEF Owned
  <2>2. past \/ ~ Inside(h, p)
    BY <1>1, LastIsPast
  <2> QED BY <2>1, <2>2
<1>7. DOMAIN slab' = DOMAIN slab \cup {q}
  BY <1>1 DEF Grows
<1>8. \A r \in DOMAIN slab : r # p => slab'[r] = slab[r]
  BY <1>1
<1>9. HeapType'
  <2>1. q \in 0 .. HeapPages
    BY <1>1, Sizes DEF Fits
  <2>2. \A r \in DOMAIN slab' : slab'[r] \in Record
    BY <1>2, <1>4, <1>7, <1>8 DEF HeapType
  <2>3. Taken' \subseteq Unit \X DOMAIN slab'
    <3>1. Taken' = Taken \cup {<<h, p>>, <<fresh.head, q>>}
      BY <1>1, <1>5 DEF Taken
    <3> HIDE DEF h, fresh
    <3> QED BY <1>2, <1>3, <1>7, <3>1 DEF HeapType
  <2>4. mark' \in [0 .. HeapPages -> Nat \cup {Junk}]
    BY <1>1, <1>2, MarksGrow
  <2>5. smashed' \subseteq DOMAIN slab'
    BY <1>2, <1>5, <1>7 DEF HeapType, Overrun
  <2>6. booted' \in 0 .. Caches
    BY <1>1, <1>2 DEF HeapType
  <2>7. DOMAIN slab' \subseteq 0 .. HeapPages
    BY <1>2, <1>7, <2>1 DEF HeapType
  <2> QED BY <1>1, <1>5, <1>6, <2>2, <2>3, <2>4, <2>5, <2>6, <2>7 DEF HeapType, Cells
<1>10. \A r \in DOMAIN slab' : slab'[r].head \in Places \cup Objects(q, i)
  <2>1. \A a \in Unit : link[a] \in Places
    BY <1>2 DEF OnGrids, Places
  <2>2. \A a \in Unit : links[a] \in Places \cup Objects(q, i)
    BY <1>3, <2>1 DEF Places
  <2>3. slab'[q].head \in Places \cup Objects(q, i) /\ slab'[p].head \in Places
    BY <1>2, <1>3, <1>4, <2>1, <2>2
  <2>4. \A r \in DOMAIN slab : slab[r].head \in Places
    BY <1>2 DEF OnGrids, Places
  <2> QED BY <1>7, <1>8, <2>3, <2>4
<1>11. \A a \in Unit : link'[a] \in Places \cup Objects(q, i)
  BY <1>2, <1>3, <1>5 DEF OnGrids, Places
<1>12. \A x \in live' : x[1] \in AllObjects
  BY <1>2, <1>5 DEF OnGrids
<1>13. Booting'
  <2>1. ~ (Caches < Caches)
    BY GeometryAssumption
  <2> QED BY <1>1, <2>1 DEF Booting
<1>14. Throughout'
  BY <1>1, <1>2, <1>9, <1>10, <1>11, <1>12, <1>13, ThroughoutGrown
<1> QED BY <1>6, <1>14 DEF HeapInv, Throughout

-----------------------------------------------------------------------------
(***************************************************************************)
(* Theorems                                                                *)
(***************************************************************************)
LEMMA InitHolds == Init => HeapInv
<1> SUFFICES ASSUME Init PROVE HeapInv
  OBVIOUS
<1>1. DOMAIN slab = {} /\ slab = [p \in DOMAIN slab |-> slab[p]] /\ Taken = {}
  BY DEF Init, Taken
<1>2. HeapType
  <2>1. mark \in [0 .. HeapPages -> {0, Junk}]
    BY DEF Init
  <2>2. mark \in [0 .. HeapPages -> Nat \cup {Junk}] /\ booted \in 0 .. Caches
    BY <2>1, GeometryAssumption DEF Init
  <2> QED BY <1>1, <2>2 DEF Init, HeapType
<1>3. UsedPages = {}
  BY <1>1 DEF UsedPages
<1>4. \A p \in 0 .. HeapPages : mark[p] \in {0, Junk}
  BY DEF Init
<1> QED BY <1>1, <1>2, <1>3, <1>4 DEF Init, HeapInv, SlabsApart, OnGrids, MarksBehind, Booting,
                                QueuesWhole, TakenApart, SlabsCounted

LEMMA ServeKeeps ==
  ASSUME HeapInv, NEW p, Serve(p)
  PROVE  HeapInv'
<1>1. Throughout'
  BY ServeThroughout DEF HeapInv, Throughout
<1>2. ASSUME ~ past' PROVE UntilPast'
  <2>1. ~ past
    BY <1>2 DEF Serve, Owned
  <2> QED BY <1>2, <2>1, ServeUntilPast DEF HeapInv, Throughout, UntilPast
<1> QED BY <1>1, <1>2 DEF HeapInv, Throughout, UntilPast

LEMMA AllocateKeeps ==
  ASSUME HeapInv, Allocate
  PROVE  HeapInv'
<1>1. PICK e \in 1 .. MaxExp :
        \/ AllocFree(CacheFor(e)) \/ AllocPartial(CacheFor(e))
        \/ AllocLast(CacheFor(e)) \/ HeapOutOfMemory(CacheFor(e))
        \/ AllocUndefined(CacheFor(e)) \/ AllocWild(e)
  BY DEF Allocate
<1> DEFINE i == CacheFor(e)
<1>2. CASE AllocFree(i)
  <2> DEFINE p == Min(Slabs(i, "free"))
  <2>1. Slabs(i, "free") \subseteq Nat
    BY DEF Slabs, HeapInv, HeapType
  <2>2. p \in DOMAIN slab
    BY <1>2, <2>1, LeastNumber DEF AllocFree, Slabs
  <2>3. Serve(p)
    BY <1>2, <2>2 DEF AllocFree, Serve, Ready
  <2> QED BY <2>3, ServeKeeps
<1>3. CASE AllocPartial(i)
  <2>1. PICK p \in Slabs(i, "partial") :
          /\ Usable(p)
          /\ slab' = [slab EXCEPT ![p] = Dequeued(@, link, "partial")]
          /\ Owned(<<slab[p].head, p>>, link, smashed)
    BY <1>3 DEF AllocPartial
  <2>2. Serve(p)
    BY <1>3, <2>1 DEF AllocPartial, Serve, Ready, Slabs
  <2> QED BY <2>2, ServeKeeps
<1>4. CASE AllocLast(i)
  BY <1>4, LastKeeps
<1>5. CASE HeapOutOfMemory(i)
  BY <1>5, QuietKeeps DEF HeapOutOfMemory, Stop
<1>6. CASE AllocUndefined(i)
  <2>1. PICK p \in DOMAIN slab : ~ Usable(p)
    BY <1>6 DEF AllocUndefined, Slabs
  <2>2. past
    <3> SUFFICES ASSUME ~ past PROVE FALSE
      OBVIOUS
    <3>1. HeapType /\ SlabsApart /\ smashed = {} /\ slab[p].head \in Queued(p)
      BY DEF HeapInv, QueuesWhole
    <3>2. slab[p].head \in Unit
      BY <3>1, QueuedUnits
    <3> QED BY <2>1, <3>1, <3>2 DEF Usable
  <2> QED BY <1>6, <2>2, QuietKeeps DEF AllocUndefined, Stop
<1>7. CASE AllocWild(e)
  BY <1>7, QuietKeeps DEF AllocWild, Stop
<1> QED BY <1>1, <1>2, <1>3, <1>4, <1>5, <1>6, <1>7

LEMMA DeallocateKeeps ==
  ASSUME HeapInv, Deallocate
  PROVE  HeapInv'
<1>1. PICK x \in live : FreeIgnored(x) \/ FreeObject(x) \/ FreeAsserts(x) \/ FreeUndefined(x)
  BY DEF Deallocate
<1>0. status = "ok"
  BY DEF Deallocate
<1>2. CASE FreeIgnored(x)
  BY <1>0, <1>2, IgnoredKeeps
<1>3. CASE FreeObject(x)
  <2>1. past' = past
    BY <1>3 DEF FreeObject
  <2> QED BY <1>0, <1>3, <2>1, FreeThroughout, FreeUntilPast DEF HeapInv, Throughout, UntilPast
<1>4. CASE FreeAsserts(x)
  BY <1>4, QuietKeeps DEF FreeAsserts, Stop
<1>5. CASE FreeUndefined(x)
  BY <1>5, FreeDefined, QuietKeeps DEF FreeUndefined, Stop
<1> QED BY <1>1, <1>2, <1>3, <1>4, <1>5

\* kernelHeap::init(), allocate(), deallocate() and what owners store keep
\* HeapInv: queues run through the objects nobody has until one that lies
\* behind its slab is handed out.
THEOREM HeapInvariance == Spec => []HeapInv
<1>1. Init => HeapInv
  BY InitHolds
<1>2. HeapInv /\ [Next]_vars => HeapInv'
  <2> SUFFICES ASSUME HeapInv, [Next]_vars PROVE HeapInv'
    OBVIOUS
  <2>1. CASE InitCache
    BY <2>1, InitThroughout, InitUntilPast DEF HeapInv, Throughout, UntilPast
  <2>2. CASE Allocate
    BY <2>2, AllocateKeeps
  <2>3. CASE Deallocate
    BY <2>3, DeallocateKeeps
  <2>4. CASE Store
    BY <2>4, StoreKeeps
  <2>5. CASE UNCHANGED vars
    BY <2>5, QuietKeeps DEF vars, HeapInv
  <2> QED BY <2>1, <2>2, <2>3, <2>4, <2>5 DEF Next
<1> QED BY <1>1, <1>2, PTL DEF Spec

LEMMA HarmFollows == HeapInv => HarmOnlyPastEnd
<1> SUFFICES ASSUME HeapInv PROVE HarmOnlyPastEnd
  OBVIOUS
<1>1. HeapType /\ SlabsApart /\ OnGrids
  BY DEF HeapInv
<1>2. ASSUME NEW x \in live, NEW y \in live, x # y, Overlap(x, y),
             Inside(x[1], x[2]), Inside(y[1], y[2])
      PROVE  FALSE
  <2>1. /\ x[2] \in DOMAIN slab /\ x[1] \in Unit /\ x = <<x[1], x[2]>> /\ x[1] \in AllObjects
        /\ y[2] \in DOMAIN slab /\ y[1] \in Unit /\ y = <<y[1], y[2]>> /\ y[1] \in AllObjects
    BY OwnerFacts
  <2>2. x[1] \in Grid(x[2]) /\ y[1] \in Grid(y[2])
    BY <1>1, <1>2, <2>1, InsideOnGrid DEF AllObjects
  <2>3. CASE x[2] = y[2]
    <3>1. x[1] # y[1]
      BY <1>2, <2>1, <2>3
    <3> QED BY <1>1, <1>2, <2>1, <2>2, <2>3, <3>1, ObjectsApart, SlabFits DEF Overlap, Grid
  <2>4. CASE x[2] # y[2]
    BY <1>1, <1>2, <2>1, <2>4, InsideApart DEF Overlap
  <2> QED BY <2>3, <2>4
<1>3. ASSUME NEW x \in live, NEW p \in DOMAIN slab, Inside(x[1], x[2])
      PROVE  Extent(x[1], slab[x[2]].cache) \cap HeaderOf(p) = {}
  BY <1>1, <1>3, OwnerFacts, InsideMissesHeaders
<1>4. status = "undefined" => past \/ Misled
  BY DEF HeapInv
<1> QED BY <1>2, <1>3, <1>4 DEF HarmOnlyPastEnd

\* Owners share memory with each other or with a slab's header only through
\* objects that lie beyond their slab, because the loop of slab() runs past
\* its end, and an overwritten pointer is followed only after such an object
\* has been handed out.
THEOREM HarmIsPastEnd == Spec => []HarmOnlyPastEnd
  BY HeapInvariance, HarmFollows, PTL

\* Until then each object is queued, owned or lost, and none of them twice.
THEOREM ObjectsKept == Spec => []ObjectsAccounted
<1>1. HeapInv => ObjectsAccounted
  BY DEF HeapInv, ObjectsAccounted, SlabsCounted, Grid, Taken
<1> QED BY <1>1, HeapInvariance, PTL
===============================================================================
