----------------------------- MODULE BuddyManager -----------------------------
(***************************************************************************)
(* BuddyManager (memory-manager/primary/buddy.hpp:254-449), the physical   *)
(* page allocator behind mm::Physical: it carves the usable entries of the *)
(* boot loader's memory map into power-of-two instances of BuddyAllocator  *)
(* and serves must_alloc(), alloc() and free() from them, recording in the *)
(* page list who owns what.                                                *)
(*                                                                         *)
(* buddyLock is held for the whole of a call, so a call is two steps: to   *)
(* draw a ticket, and to be served.  What an instance does step by step is *)
(* BuddyAllocator and BuddyFree; here its alloc() and free() are the whole *)
(* effect of a call.  Owners do not store into their memory in this        *)
(* module: BuddyFree shows what that does.  Addresses are page numbers,    *)
(* and k stands for the order min_order + k, 2^k pages.                    *)
(***************************************************************************)
EXTENDS Integers, Sequences, FiniteSetsExt

CONSTANTS CPU,
          Maps,        \* memory maps: sequences of [base, pages, usable]
          BuddyBytes,  \* sizeof(BuddyAllocator)
          MaxBit,      \* no entry has Pow2(MaxBit + 1) pages
          Sizes,       \* sizes in bytes the callers ask for
          Found,       \* what the memory of the page list may hold at first, by page
          MaxCalls,    \* bound on the calls, for each map
          MaxFrees,    \* bound on the calls that are free()
          Null         \* nullptr

PageBytes == 4096
MinOrder == 9

VARIABLES map,        \* the memory map chosen by the boot loader
          buddies,    \* the instances, by index: [base, k]
          topIdx,     \* top_idx
          list,       \* each instance's free lists
          stuck,      \* the instances whose lock was never released
          word,       \* the link in the first word of each page
          meta,       \* the page list: [refcount, order, index] of each page
          unset,      \* history: pages whose reference count nobody has ever set
          queue,      \* buddyLock: the CPUs with a ticket, holder first
          call,       \* call[c]: the call a CPU is in
          owned,      \* history: blocks in the hands of callers
          merged,     \* history: has an instance ever merged two blocks?
          halted,     \* an assertion failed, must_alloc() panicked, or no rule applies
          calls, frees

callVars == <<queue, call, calls, frees>>
setup == <<map, buddies, topIdx>>
vars == <<setup, list, stuck, word, meta, unset, owned, merged, halted, callVars>>
-----------------------------------------------------------------------------
(* init(): sort, reserve, carve. *)

Exchanged(s, i, j) == IF i < j /\ s[j].pages > s[i].pages
                      THEN [s EXCEPT ![i] = s[j], ![j] = s[i]]
                      ELSE s

\* The selection sort of the entries, comparison by comparison (buddy.hpp:377-391).
Sorting(m) ==
  LET s[t \in 0 .. Len(m) * Len(m)] ==
        IF t = 0 THEN m
        ELSE Exchanged(s[t - 1], ((t - 1) \div Len(m)) + 1, ((t - 1) % Len(m)) + 1)
  IN  s

Sorted(m) == Sorting(m)[Len(m) * Len(m)]

Pow2(k) == 2^k
HasBit(n, j) == (n \div Pow2(j)) % 2 = 1

Carved(e) == e.usable /\ e.pages > 1

\* The pieces that the entries are cut into: an entry and a bit of its length.
Cuts(m) == { c \in (DOMAIN m) \X (0 .. MaxBit) : Carved(m[c[1]]) /\ HasBit(m[c[1]].pages, c[2]) }

Required(m) == Cardinality(Cuts(m))

\* Where the array of instances goes (buddy.hpp:409-426).
Hosts(m) == { i \in DOMAIN m : m[i].usable /\ m[i].pages * PageBytes >= Required(m) * BuddyBytes }
Host(m) == Min(Hosts(m))

ArrayPages(m) == (Required(m) * BuddyBytes + PageBytes - 1) \div PageBytes

\* Mutant: the entry that hosts the array keeps its base.
MutReserved(m) ==
  [m EXCEPT ![Host(m)].pages = @ - (Required(m) * BuddyBytes) \div PageBytes]

\* The base is rounded up, the length taken off is rounded down.
Reserved(m) ==
  [m EXCEPT ![Host(m)].base = @ + ArrayPages(m),
            ![Host(m)].pages = @ - (Required(m) * BuddyBytes) \div PageBytes]

Piece(m, c) == [base |-> m[c[1]].base + (m[c[1]].pages % Pow2(c[2])), k |-> c[2]]

\* The loops over entries and bits, small bits first: t of their rounds.
Round(t) == <<((t - 1) \div (MaxBit + 1)) + 1, (t - 1) % (MaxBit + 1)>>
Rounds(m) == Len(m) * (MaxBit + 1)

Carving(m) ==
  LET s[t \in 0 .. Rounds(m)] ==
        IF t = 0 THEN <<>>
        ELSE IF Round(t) \in Cuts(m) THEN Append(s[t - 1], Piece(m, Round(t)))
        ELSE s[t - 1]
  IN  s

Carve(m) == Carving(m)[Rounds(m)]

\* Of the boot loader: page 0 is not usable, and usable entries neither overlap
\* nor touch.  The rest is what buddies_required() and
\* reserve_buddy_allocator_memory() assert.
MemoryMap(m) ==
  /\ m \in Seq([base : Nat, pages : 0 .. (Pow2(MaxBit + 1) - 1), usable : BOOLEAN])
  /\ \A i \in DOMAIN m : m[i].usable => m[i].base > 0
  /\ \A i, j \in DOMAIN m : i # j /\ m[i].usable /\ m[j].usable =>
       m[i].base + m[i].pages < m[j].base \/ m[j].base + m[j].pages < m[i].base
  /\ Required(m) > 0 /\ Hosts(Sorted(m)) # {}

\* The instances are counted before their host is shortened, which may give
\* it more pieces than there is room for.
ArrayFits(m) == LET s == Sorted(m)
                IN  Len(Carve(Reserved(s))) * BuddyBytes <= ArrayPages(s) * PageBytes

ASSUME MapAssumption ==
  BuddyBytes \in Nat \ {0} /\ Null \notin Int /\ \A m \in Maps : MemoryMap(m)

ASSUME PowerAssumption ==
  /\ MaxBit \in Nat /\ Pow2(0) = 1
  /\ \A j \in 0 .. MaxBit : Pow2(j) \in Nat \ {0} /\ Pow2(j + 1) = 2 * Pow2(j)

\* No caller asks for more than 2^30 words.
ASSUME SizesAssumption == \A s \in Sizes : s \in Nat /\ \E r \in 0 .. 30 : Pow2(r) >= s \div 8

Index == DOMAIN buddies
PagesOf(i) == buddies[i].base .. (buddies[i].base + Pow2(buddies[i].k) - 1)
Page == DOMAIN word

NoPage == [refcount |-> 0, order |-> 0, index |-> 0]

\* Pagelist::init() (page.hpp:53-65) sets up the first entries of the page list,
\* by count: one for each page of each entry of the map, as init() of this class
\* has left it, and one more per entry.  They are looked up by address
\* (page.hpp:87-89), so that above a hole of the map nobody sets them up.
Counted(m) == LET s == Reserved(Sorted(m))
                  entries(i) == s[i].pages + 1
              IN  MapThenSumSet(entries, DOMAIN s)

\* The instances are "sorted" by swapping them, but a BuddyAllocator is
\* neither copied nor moved by its constructors and assignments
\* (buddy.hpp:53-64): the last loop of init() changes nothing.  Where the array
\* of instances has outgrown its pages, memory of the first instance and the
\* last ones are the same, and nothing more is said.
Init ==
  /\ map \in Maps
  /\ \E s \in {Carve(Reserved(Sorted(map)))} :
       /\ buddies = [i \in 0 .. (Len(s) - 1) |-> s[i + 1]]
       /\ topIdx = Len(s) - 1
  /\ list = [i \in Index |-> [k \in 0 .. buddies[i].k |->
                                 IF k = buddies[i].k THEN buddies[i].base ELSE Null]]
  /\ stuck = {}
  /\ word = [p \in UNION { PagesOf(i) : i \in Index } |-> Null]
  /\ \E n \in {Counted(map)} : unset = { p \in Page : p > n }
  /\ \E found \in Found : meta = [p \in Page |-> IF p \in unset THEN found[p] ELSE NoPage]
  /\ queue = <<>>
  /\ call = [c \in CPU |-> <<"none">>]
  /\ owned = {}
  /\ merged = FALSE
  /\ halted = ~ ArrayFits(map)
  /\ calls = 0 /\ frees = 0
-----------------------------------------------------------------------------
(* One instance. *)

Span(b, k) == b .. (b + Pow2(k) - 1)

\* buddy_of (buddy.hpp:216-218), relative to the instance's base.
BuddyOf(i, b, k) ==
  IF ((b - buddies[i].base) \div Pow2(k)) % 2 = 0 THEN b + Pow2(k) ELSE b - Pow2(k)

\* log2() of cmath.cpp rounds down, the one of BuddyAllocator up.
Log2(n) == Max({ r \in 0 .. 30 : Pow2(r) <= n })
OrderOf(size) == LET words == Min({ r \in 0 .. 30 : Pow2(r) >= size \div 8 })
                 IN  IF words <= MinOrder THEN 0 ELSE words - MinOrder

\* The orders at which the instance has a block for this order.
Serving(i, k) == { j \in k .. buddies[i].k : list[i][j] # Null }

\* alloc(): the smallest such block is taken, its list emptied, and the halves
\* split off it are listed; all words of the block end up zero.
Take(i, k) ==
  LET j == Min(Serving(i, k))
      b == list[i][j]
      half == [l \in k .. (j - 1) |-> BuddyOf(i, b, l)]
  IN  /\ list' = [list EXCEPT ![i] = [l \in DOMAIN @ |-> CASE l \in DOMAIN half -> half[l]
                                                          [] l = j -> Null
                                                          [] OTHER -> @[l]]]
      /\ word' = [p \in Page |->
                    IF p \in Span(b, k) \cup { half[l] : l \in DOMAIN half }
                    THEN Null ELSE word[p]]

\* What a walk of a free list meets: Null too, if the walk ends.
Walk(i, k) ==
  LET met[s \in SUBSET (Page \cup {Null})] ==
        LET t == s \cup { word[p] : p \in s \ {Null} }
        IN  IF t = s THEN s ELSE met[t]
  IN  met[{list[i][k]}]

\* What find() meets at order j once blocks of the orders from k on were merged:
\* each merge empties the list MinOrder above its own (buddy.hpp:239).
Meets(i, k, j) == IF j >= k + MinOrder THEN {Null} ELSE Walk(i, j)

\* coalesce(b, k): the block of each of its activations, Null where the
\* recursion has ended.
Chain(i, k, b) ==
  LET at[j \in k .. buddies[i].k] ==
        IF j = k THEN b ELSE LET x == at[j - 1]
                 y == BuddyOf(i, x, j - 1)
             IN  IF x = Null THEN Null
                 ELSE IF y \in Meets(i, k, j - 1) THEN Min({x, y}) ELSE Null
  IN  at

Active(chain) == { j \in DOMAIN chain : chain[j] # Null }

\* Every activation but one at max_order looks for its buddy, and a walk that
\* neither meets it nor ends never returns.
Ends(i, k, b) ==
  LET chain == Chain(i, k, b)
  IN  \A j \in Active(chain) \ {buddies[i].k} :
        {BuddyOf(i, chain[j], j), Null} \cap Meets(i, k, j) # {}

\* The last of the free lists (buddy.hpp:249).
LastList == 30 - MinOrder

\* free(b, k) below max_order.  On the way back each activation lists its own
\* block, merged or not.  A merge whose list to empty lies behind the array is
\* undefined behaviour: any lists may be left.
Give(i, k, b) ==
  LET chain == Chain(i, k, b)
      put == Active(chain) \ {buddies[i].k}
      merges == { j \in DOMAIN chain : j + 1 \in Active(chain) }
      left == [j \in DOMAIN list[i] |-> IF j - MinOrder \in merges THEN Null ELSE list[i][j]]
      first(p) == Min({ j \in put : chain[j] = p })
      blocks == { chain[j] : j \in put }
  IN  /\ IF \E j \in merges : j + MinOrder > LastList
         THEN \E l \in [DOMAIN left -> Page \cup {Null}] : list' = [list EXCEPT ![i] = l]
         ELSE list' = [list EXCEPT ![i] = [j \in DOMAIN @ |-> IF j \in put THEN chain[j] ELSE left[j]]]
      /\ word' = [p \in Page |-> IF p \in blocks THEN left[first(p)] ELSE word[p]]
      /\ merged' = (merged \/ Cardinality(Active(chain)) > 1)
-----------------------------------------------------------------------------
(* The calls. *)

\* suitable_buddy(): the last hit of the outer loop, and of the inner one.
\* The last instance is never considered, and orders in bytes are compared
\* with max_order, which counts words.
Suitable(order) ==
  LET J(i) == { j \in (i + 1) .. (topIdx - 1) :
                  buddies[j].k < buddies[i].k /\ buddies[j].k + MinOrder >= order }
      I == { i \in 0 .. (topIdx - 1) : J(i) # {} }
  IN  IF I = {} THEN 0 ELSE Max(J(Max(I)))

HasLock(c) == ~ halted /\ queue # <<>> /\ Head(queue) = c

Return(c) == /\ queue' = Tail(queue)
             /\ call' = [call EXCEPT ![c] = <<"none">>]
             /\ UNCHANGED <<calls, frees>>

Enter(c, what) == /\ ~ halted
                  /\ call[c] = <<"none">>
                  /\ calls < MaxCalls[map]
                  /\ calls' = calls + 1
                  /\ call' = [call EXCEPT ![c] = what]
                  /\ queue' = Append(queue, c)

\* alloc() or must_alloc() is called.
CallAlloc(c) == /\ \E s \in Sizes : Enter(c, <<"alloc", s>>)
                /\ UNCHANGED <<setup, list, stuck, word, meta, unset, owned, merged, halted, frees>>

\* free() is called by the owner of a block, who then no longer owns it; or
\* for the first page of an instance that nobody owns, by a caller who has
\* given it back before (its entry is set) and finds the lock free.
CallFree(c) ==
  /\ frees < MaxFrees
  /\ frees' = frees + 1
  /\ \/ \E x \in owned : /\ Enter(c, <<"free", x[1]>>)
                         /\ owned' = owned \ {x}
     \/ \E i \in Index : LET p == buddies[i].base
                         IN  /\ p \notin unset
                             /\ \A x \in owned : p \notin Span(x[1], x[2])
                             /\ queue = <<>>
                             /\ Enter(c, <<"free", p>>)
                             /\ UNCHANGED owned
  /\ UNCHANGED <<setup, list, stuck, word, meta, unset, merged, halted>>

\* The instances tried for an order, from the suitable one down to 1, and the
\* first that has a block.
Tried(size) == 1 .. Suitable(Log2(size))
Willing(size) == { i \in Tried(size) : Serving(i, OrderOf(size)) # {} }

\* A try of an instance whose lock was lost never returns.
Reaches(size, i) == \A j \in Tried(size) : j >= i => j \notin stuck

\* Mutant: only the first page of the block is marked.
MutMark(b, k, i) == meta' = [meta EXCEPT ![b] = [refcount |-> @.refcount + 1,
                                                 order |-> k + MinOrder, index |-> i]]

\* The pages handed out are marked (buddy.hpp:331-336).
Mark(b, k, i) ==
  meta' = [p \in Page |->
             IF p \in Span(b, k) THEN [refcount |-> meta[p].refcount + 1,
                                       order |-> k + MinOrder, index |-> i]
                                 ELSE meta[p]]

Alloc(c) ==
  /\ HasLock(c)
  /\ call[c][1] = "alloc"
  /\ LET size == call[c][2]
         k == OrderOf(size)
         i == Max(Willing(size))
         b == list[i][Min(Serving(i, k))]
     IN  /\ Willing(size) # {}
         /\ Reaches(size, i)
         /\ Take(i, k)
         /\ Mark(b, k, i)
         /\ owned' = owned \cup {<<b, k>>}
  /\ Return(c)
  /\ UNCHANGED <<setup, stuck, unset, merged, halted>>

\* Nothing is left: alloc() returns null, must_alloc() panics.
AllocFails(c) ==
  /\ HasLock(c)
  /\ call[c][1] = "alloc"
  /\ Willing(call[c][2]) = {}
  /\ Reaches(call[c][2], 1)
  /\ halted' \in BOOLEAN
  /\ Return(c)
  /\ UNCHANGED <<setup, list, stuck, word, meta, unset, owned, merged>>

IsBuddyPage(p) == meta[p].order >= MinOrder

\* Not a buddy page: nothing happens.
FreeIgnored(c) == /\ HasLock(c)
                  /\ call[c][1] = "free"
                  /\ ~ IsBuddyPage(call[c][2])
                  /\ Return(c)
                  /\ UNCHANGED <<setup, list, stuck, word, meta, unset, owned, merged, halted>>

Referenced(p, k) == \A q \in Span(p, k) : q \in Page /\ meta[q].refcount = 1

\* "This pages refcount is not 1" (buddy.hpp:367).
FreeAsserts(c) == /\ HasLock(c)
                  /\ call[c][1] = "free"
                  /\ IsBuddyPage(call[c][2])
                  /\ ~ Referenced(call[c][2], meta[call[c][2]].order - MinOrder)
                  /\ halted' = TRUE
                  /\ UNCHANGED <<setup, list, stuck, word, meta, unset, owned, merged, callVars>>

\* Mutant: the order is not reset.
MutReset(p, k) == meta' = [q \in Page |-> IF q \in Span(p, k)
                                          THEN [meta[q] EXCEPT !.refcount = 0]
                                          ELSE meta[q]]

\* The pages are reset; RawPage::reset() keeps the instance's index.
Reset(p, k) == meta' = [q \in Page |-> IF q \in Span(p, k)
                                       THEN [NoPage EXCEPT !.index = meta[q].index]
                                       ELSE meta[q]]

\* The pages are reset and the block goes back to its instance; a block of
\* max_order is listed, and the instance's lock stays locked.
Free(c) ==
  /\ HasLock(c)
  /\ call[c][1] = "free"
  /\ LET p == call[c][2]
         k == meta[p].order - MinOrder
         i == meta[p].index
     IN  /\ IsBuddyPage(p)
         /\ Referenced(p, k)
         /\ i \notin stuck
         /\ Reset(p, k)
         /\ unset' = unset \ Span(p, k)
         /\ IF k = buddies[i].k
            THEN /\ stuck' = stuck \cup {i}
                 /\ list' = [list EXCEPT ![i][k] = p]
                 /\ word' = [word EXCEPT ![p] = list[i][k]]
                 /\ UNCHANGED merged
            ELSE /\ Ends(i, k, p)
                 /\ Give(i, k, p)
                 /\ UNCHANGED stuck
  /\ Return(c)
  /\ UNCHANGED <<setup, owned, halted>>

Serve(c) == Alloc(c) \/ AllocFails(c) \/ FreeIgnored(c) \/ FreeAsserts(c) \/ Free(c)

Next == \E c \in CPU : CallAlloc(c) \/ CallFree(c) \/ Serve(c)

Spec == Init /\ [][Next]_vars
-----------------------------------------------------------------------------
(***************************************************************************)
(* Properties                                                              *)
(***************************************************************************)
Usable == UNION { e.base .. (e.base + e.pages - 1) :
                    e \in { map[i] : i \in { j \in DOMAIN map : map[j].usable } } }

\* The instances manage different pages, and none of those reserved for the
\* array that describes them, from where its host began; every page is usable memory of the
\* map, except that rounding the length of the host down (buddy.hpp:420) adds
\* the page that follows it if the array does not fill its last page, and if
\* the rest of the host is managed.
MemoryOwned ==
  LET s == Sorted(map)
      host == s[Host(s)]
      surplus == (Required(s) * BuddyBytes) % PageBytes # 0 /\ Carved(Reserved(s)[Host(s)])
  IN  /\ \A i, j \in Index : i # j => PagesOf(i) \cap PagesOf(j) = {}
      /\ Page \cap (host.base .. (host.base + ArrayPages(s) - 1)) = {}
      /\ Page \ Usable = { p \in {host.base + host.pages} : surplus }

\* Who holds a block [base, order]: a caller, a call of free() that has not
\* been served, a free list.
Owned == { <<"owned", Null, x[1], x[2]>> : x \in owned }
Leaving == { <<"call", c, call[c][2], meta[call[c][2]].order - MinOrder>> :
               c \in { d \in CPU : call[d][1] = "free" /\ IsBuddyPage(call[d][2]) } }
Listed == UNION { { <<"list", i, list[i][k], k>> : k \in { l \in 0 .. buddies[i].k : list[i][l] # Null } } :
                    i \in Index }
Taken == Owned \cup Leaving
Held(x) == Span(x[3], x[4])

\* A page of a block of order k is marked as the property below says.
Right(p, k, i) == /\ meta[p].order = k + MinOrder
                  /\ meta[p].index = i
                  /\ p \in unset \/ meta[p].refcount = 1

\* The page list tells what free() relies on: until blocks are merged, each
\* block in the hands of a caller is marked page by page with its order and an
\* instance it lies in, and with one reference unless nobody ever set the
\* count; and of the other pages none whose entry was set carries an order, so
\* that a second free() finds nothing to free.
PageListAgrees ==
  ~ merged =>
    /\ \A x, y \in owned : x # y => Span(x[1], x[2]) \cap Span(y[1], y[2]) = {}
    /\ \A x \in owned : \A p \in Span(x[1], x[2]) :
         Right(p, x[2], meta[p].index) /\ p \in PagesOf(meta[p].index)
    /\ \A p \in Page \ unset : IsBuddyPage(p) => \E x \in Taken : p \in Held(x)

\* The assertion of free() holds until blocks are merged, for an owner's free()
\* as for one that comes too late, of blocks whose pages all had their entry
\* set up: above a hole of the map it may fail although nobody frees "an
\* actively used block of memory".
AssertionHolds ==
  [][\A c \in CPU : FreeAsserts(c) =>
       \/ merged
       \/ LET p == call[c][2]
          IN  unset \cap Span(p, meta[p].order - MinOrder) # {}]_vars
-----------------------------------------------------------------------------
(***************************************************************************)
(* Why: the inductive invariant of the proofs                              *)
(***************************************************************************)
\* A block where the instance's splitting can put it.
InPlace(i, b, k) ==
  /\ k \in 0 .. buddies[i].k
  /\ b \in buddies[i].base .. (buddies[i].base + Pow2(buddies[i].k) - Pow2(k))
  /\ (b - buddies[i].base) % Pow2(k) = 0

Calls == {<<"none">>} \cup ({"alloc"} \X Sizes) \cup ({"free"} \X Page)

\* Who calls has a ticket; a free() of a page that is not taken is served next.
Waiting ==
  /\ queue \in Seq(CPU) /\ call \in [CPU -> Calls]
  /\ \A c \in CPU : call[c] # <<"none">> => \E n \in DOMAIN queue : queue[n] = c
  /\ \A c \in CPU : call[c][1] = "free" /\ ~ IsBuddyPage(call[c][2]) =>
                      queue # <<>> /\ Head(queue) = c

\* Taken blocks are marked, no other page that was set is.
Marked ==
  /\ \A x \in Taken : \E i \in Index :
       InPlace(i, x[3], x[4]) /\ \A p \in Held(x) : Right(p, x[4], i)
  /\ \A p \in Page \ unset : (\A x \in Taken : p \notin Held(x)) =>
                                meta[p].refcount = 0 /\ meta[p].order = 0

\* Every block has one holder.
Accounted ==
  /\ owned \subseteq Int \X Int
  /\ DOMAIN list = Index /\ \A i \in Index : DOMAIN list[i] = 0 .. buddies[i].k
  /\ \A x \in Listed : InPlace(x[2], x[3], x[4])
  /\ \A x, y \in Taken \cup Listed : x # y => Held(x) \cap Held(y) = {}

UnmergedInv == ~ merged => Waiting /\ Marked /\ Accounted

=============================================================================
