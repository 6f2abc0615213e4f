------------------------------- MODULE BuddyFree -------------------------------
(***************************************************************************)
(* BuddyAllocator with free() (buddy.hpp:139-153) and coalesce()           *)
(* (buddy.hpp:220-246), as BuddyManager uses its instances.  A caller      *)
(* frees a block it owns with the order alloc() gave it; free() is not     *)
(* called with a null pointer (its early return, lines 142-143, would keep *)
(* the lock exactly as the one of lines 146-149 does).                     *)
(*                                                                         *)
(* coalesce() calls itself for the merged block before it puts its own     *)
(* block on a list: `frames` are its activation records, the outermost     *)
(* first.  A return that leaves the lock locked leaves its ticket at the   *)
(* head of the queue, where it belongs to nobody (Null).                   *)
(***************************************************************************)
EXTENDS BuddyAllocator, SequencesExt

VARIABLES frames,   \* frames[c]: <<block, order>> of each active coalesce()
          element,  \* the cursor of Freelist::find
          merged,   \* history: has a block ever been merged with its buddy?
          dropped   \* history: has remove() ever thrown away list entries?

freeVars == <<frames, element, merged, dropped>>
allVars == <<vars, freeVars>>

FreeInit == /\ Init
            /\ frames = [c \in CPU |-> <<>>]
            /\ element = [c \in CPU |-> Null]
            /\ merged = FALSE
            /\ dropped = FALSE

\* A step of alloc(), or a store by an owner.
AllocStep(c) == \/ /\ \/ Call(c) \/ Acquire(c) \/ SearchOn(c)
                      \/ Fail(c) \/ Split(c) \/ Finish(c)
                   /\ UNCHANGED freeVars
                \/ /\ Found(c)
                   /\ dropped' = (dropped \/ word[list[ord[c]]] # Null)
                   /\ UNCHANGED <<frames, element, merged>>

OwnerStep == Write /\ UNCHANGED freeVars

\* free(block, order): the owner gives the block up and waits for the lock.
CallFree(c) == /\ pc[c] = "idle"
               /\ \E x \in allocated : /\ allocated' = allocated \ {x}
                                       /\ frames' = [frames EXCEPT ![c] = <<x>>]
               /\ queue' = Append(queue, c)
               /\ pc' = [pc EXCEPT ![c] = "free"]
               /\ UNCHANGED <<list, word, size, ord, block, element, merged, dropped>>

HasLock(c) == queue # <<>> /\ Head(queue) = c

\* order == max_order: the block is listed and the lock is not released.
FreeWhole(c) == /\ pc[c] = "free"
                /\ HasLock(c)
                /\ Last(frames[c])[2] = MaxK
                /\ Add(Last(frames[c])[1], MaxK)
                /\ queue' = <<Null>> \o Tail(queue)
                /\ frames' = [frames EXCEPT ![c] = <<>>]
                /\ pc' = [pc EXCEPT ![c] = "idle"]
                /\ UNCHANGED <<allocated, size, ord, block, element, merged, dropped>>

FreePart(c) == /\ pc[c] = "free"
               /\ HasLock(c)
               /\ Last(frames[c])[2] < MaxK
               /\ pc' = [pc EXCEPT ![c] = "coalesce"]
               /\ UNCHANGED <<queue, list, word, allocated, size, ord, block, freeVars>>

\* coalesce() at max_order returns: the merged block is put on no list.
CoalesceTop(c) == /\ pc[c] = "coalesce"
                  /\ Last(frames[c])[2] = MaxK
                  /\ frames' = [frames EXCEPT ![c] = Front(@)]
                  /\ pc' = [pc EXCEPT ![c] = "put"]
                  /\ UNCHANGED <<queue, list, word, allocated, size, ord, block,
                                 element, merged, dropped>>

\* It starts to look for the buddy at the head of the block's own list.
Coalesce(c) == /\ pc[c] = "coalesce"
               /\ Last(frames[c])[2] < MaxK
               /\ element' = [element EXCEPT ![c] = list[Last(frames[c])[2]]]
               /\ pc' = [pc EXCEPT ![c] = "find"]
               /\ UNCHANGED <<queue, list, word, allocated, size, ord, block,
                              frames, merged, dropped>>

Buddy(c) == BuddyOf(Last(frames[c])[1], Last(frames[c])[2])

FindNext(c) == /\ pc[c] = "find"
               /\ element[c] \notin {Null, Buddy(c)}
               /\ element' = [element EXCEPT ![c] = word[@]]
               /\ UNCHANGED <<queue, list, word, allocated, pc, size, ord, block,
                              frames, merged, dropped>>

\* Mutant: the block is not put back.
MutNotFoundForgets(c) == /\ pc[c] = "find"
                         /\ element[c] = Null
                         /\ frames' = [frames EXCEPT ![c] = Front(@)]
                         /\ pc' = [pc EXCEPT ![c] = "put"]
                         /\ UNCHANGED <<queue, list, word, allocated, size, ord, block,
                                        element, merged, dropped>>

NotFound(c) == /\ pc[c] = "find"
               /\ element[c] = Null
               /\ pc' = [pc EXCEPT ![c] = "put"]
               /\ UNCHANGED <<queue, list, word, allocated, size, ord, block, freeVars>>

\* freelist.remove(order), line 239: the order itself is the index, not
\* order - min_order, so it is the list MinOrder further up that is emptied;
\* a list above MaxK has nothing in it.  Behind the array (LastList, line 249)
\* lie the base and the lock of the instance; what a merge of 32 MiB or more
\* does there is undefined, and any lists may be left.
LastList == 30 - MinOrder

RemoveRaw(k) == CASE k + MinOrder > LastList -> list' \in [0 .. MaxK -> Page \cup {Null}]
                  [] k + MinOrder <= LastList /\ k + MinOrder <= MaxK -> RemoveHead(k + MinOrder)
                  [] OTHER -> UNCHANGED list

Merge(c) == /\ pc[c] = "find"
            /\ element[c] = Buddy(c)
            /\ LET b == Last(frames[c])[1]
                   k == Last(frames[c])[2]
                   lower == IF b < Buddy(c) THEN b ELSE Buddy(c)
               IN  /\ RemoveRaw(k)
                   /\ frames' = [frames EXCEPT ![c] = Append(@, <<lower, k + 1>>)]
            /\ element' = [element EXCEPT ![c] = Null]
            /\ merged' = TRUE
            /\ pc' = [pc EXCEPT ![c] = "coalesce"]
            /\ UNCHANGED <<queue, word, allocated, size, ord, block, dropped>>

\* Mutant: the block is put on the list of the next order.
MutPutBackUp(c) ==
  /\ pc[c] = "put"
  /\ frames[c] # <<>>
  /\ Add(Last(frames[c])[1], Last(frames[c])[2] + 1)
  /\ frames' = [frames EXCEPT ![c] = Front(@)]
  /\ UNCHANGED <<queue, allocated, pc, size, ord, block, element, merged, dropped>>

\* The end of coalesce(): merged or not, its block is listed.
PutBack(c) == /\ pc[c] = "put"
              /\ frames[c] # <<>>
              /\ Add(Last(frames[c])[1], Last(frames[c])[2])
              /\ frames' = [frames EXCEPT ![c] = Front(@)]
              /\ UNCHANGED <<queue, allocated, pc, size, ord, block, element, merged, dropped>>

\* Mutant: free() returns without unlocking.
MutFreedLocked(c) == /\ pc[c] = "put"
                     /\ frames[c] = <<>>
                     /\ pc' = [pc EXCEPT ![c] = "idle"]
                     /\ element' = [element EXCEPT ![c] = Null]
                     /\ queue' = <<Null>> \o Tail(queue)
                     /\ UNCHANGED <<list, word, allocated, size, ord, block,
                                    frames, merged, dropped>>

\* The outermost coalesce() has returned: lock.unlock().
Freed(c) == /\ pc[c] = "put"
            /\ frames[c] = <<>>
            /\ Return(c)
            /\ element' = [element EXCEPT ![c] = Null]
            /\ UNCHANGED <<list, word, allocated, frames, merged, dropped>>

FreeStep(c) == FreeWhole(c) \/ FreePart(c) \/ CoalesceTop(c) \/ Coalesce(c)
               \/ FindNext(c) \/ NotFound(c) \/ Merge(c) \/ PutBack(c) \/ Freed(c)

FreeNext == (\E c \in CPU : AllocStep(c) \/ CallFree(c) \/ FreeStep(c)) \/ OwnerStep

\* Processors inside alloc() or free() keep executing.
FreeSpec == /\ FreeInit
            /\ [][FreeNext]_allVars
            /\ \A c \in CPU : WF_allVars((AllocStep(c) \/ FreeStep(c)) /\ pc[c] # "idle")
-----------------------------------------------------------------------------
(***************************************************************************)
(* Properties                                                              *)
(***************************************************************************)
\* The blocks that a walk of a free list meets: those of every set that has
\* the head and, with a block, the one its link names.
Follows(s, head, links) == /\ head \in s \cup {Null}
                           /\ \A p \in s : links[p] \in s \cup {Null}

Reached(head, links) == { p \in Page : \A s \in SUBSET Page : Follows(s, head, links) => p \in s }

Listed(k) == Reached(list[k], word)

FreeBlocks == UNION { Listed(k) \X {k} : k \in 0 .. MaxK }

\* The blocks nobody owns that a processor inside alloc() or free() works on.
InHand == { <<block[c], ord[c]>> : c \in { d \in CPU : pc[d] = "split" } }
          \cup UNION { ToSet(frames[c]) : c \in CPU }

Blocks == allocated \cup FreeBlocks \cup InHand

Overlap(x, y) == ~ Apart(x[1], x[2], y[1], y[2])

\* As long as no two buddies have been merged, giving blocks back is as safe
\* as handing them out: nothing that is free, owned or in hand overlaps.
SharedOnlyAfterMerge ==
  ~ merged => /\ \A x, y \in Blocks : x # y => ~ Overlap(x, y)
              /\ allocated \cap FreeBlocks = {}
              /\ InHand \cap (allocated \cup FreeBlocks) = {}

\* As long as also no list with a second block has been taken from, every
\* page of the region is accounted for: only line 198 loses memory.
LostOnlyByDropping ==
  ~ merged /\ ~ dropped =>
    \A p \in Page : \E x \in Blocks : p \in Span(x[1], x[2])

WholeFreed == HasLock(Null) /\ list[MaxK] # Null

\* Every call returns, the search of a list included, unless the lock was
\* lost to the release of the whole region, which stays listed for good, or
\* blocks were merged before.
CallsReturn ==
  \A c \in CPU : pc[c] # "idle" ~> (pc[c] = "idle" \/ merged \/ WholeFreed)

\* The inductive invariant behind the first two.  A block is held by an owner,
\* the lists, or the processor that works on it; no two holders have memory in
\* common, because each step hands a block, or its halves, from one to another.
Holder == {<<"owner", Null>>, <<"list", Null>>} \cup ({"cpu"} \X CPU)

Hand(c) == IF pc[c] = "split" THEN {<<block[c], ord[c]>>} ELSE ToSet(frames[c])

Has(h) == CASE h[1] = "owner" -> allocated
            [] h[1] = "list" -> FreeBlocks
            [] OTHER -> Hand(h[2])

HeldInPlace == \A h \in Holder : \A x \in Has(h) : InPlace(x[1], x[2])

HeldApart ==
  \A h, i \in Holder : \A x \in Has(h), y \in Has(i) :
    (h = i /\ x = y) \/ Apart(x[1], x[2], y[1], y[2])

HeldCovers == dropped \/ \A p \in Page : \E h \in Holder : \E x \in Has(h) : p \in Span(x[1], x[2])

\* Only the head of the queue is past the lock, and coalesce() has one frame
\* as long as it has not called itself.
Working(c) == pc[c] \in {"search", "split", "coalesce", "find", "put"}

HeadWorks == \A c \in CPU : Working(c) => HasLock(c)

OneFrame == \A c \in CPU :
  /\ pc[c] \in {"free", "coalesce", "find"} => Len(frames[c]) = 1
  /\ pc[c] \in {"coalesce", "find"} => frames[c][1][2] < MaxK
  /\ pc[c] = "put" => Len(frames[c]) <= 1
  /\ pc[c] \in {"idle", "lock", "search", "split"} => frames[c] = <<>>

FreeTypeOK == /\ queue \in Seq(CPU \cup {Null})
              /\ list \in [0 .. MaxK -> Page \cup {Null}]
              /\ word \in [Page -> Page \cup {Null}]
              /\ allocated \subseteq Page \X (0 .. MaxK)
              /\ pc \in [CPU -> {"idle", "lock", "search", "split",
                                 "free", "coalesce", "find", "put"}]
              /\ size \in [CPU -> Sizes \cup {0}]
              /\ ord \in [CPU -> Nat]
              /\ block \in [CPU -> Page \cup {Null}]
              /\ frames \in [CPU -> Seq(Page \X (0 .. MaxK))]
              /\ element \in [CPU -> Page \cup {Null}]
              /\ {merged, dropped} \subseteq BOOLEAN

FreeIInv == ~ merged => /\ FreeTypeOK
                        /\ HeadWorks
                        /\ OneFrame
                        /\ HeldInPlace
                        /\ HeldApart
                        /\ HeldCovers
===============================================================================
