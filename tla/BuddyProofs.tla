------------------------------ MODULE BuddyProofs ------------------------------
(***************************************************************************)
(* Proofs about BuddyAllocator, one instance that only allocates, and      *)
(* about BuddyFree, the same with free() and coalesce(): for every number  *)
(* of processors, every size of the region and all requests.               *)
(***************************************************************************)
EXTENDS BuddyFree, TLAPS

-----------------------------------------------------------------------------
(***************************************************************************)
(* Multiples                                                               *)
(***************************************************************************)
\* A multiple of s, written out.
LEMMA MultipleMod == \A q \in Nat, s \in Nat \ {0} : (s * q) % s = 0
  OBVIOUS

\* What has remainder 0 is a multiple.
LEMMA ModMultiple ==
  ASSUME NEW b \in Nat, NEW s \in Nat \ {0}, b % s = 0
  PROVE  \E q \in Nat : b = s * q
<1>1. b = s * (b \div s) + (b % s)
  OBVIOUS
<1>2. b \div s \in Nat
  OBVIOUS
<1> QED BY <1>1, <1>2

\* A multiple of a multiple of s is a multiple of s.
LEMMA ModTrans ==
  ASSUME NEW b \in Nat, NEW m \in Nat \ {0}, NEW s \in Nat \ {0}, b % m = 0, m % s = 0
  PROVE  b % s = 0
<1>1. PICK q \in Nat : b = m * q
  BY ModMultiple
<1>2. PICK r \in Nat : m = s * r
  BY ModMultiple
<1>3. b = s * (r * q)
  BY <1>1, <1>2
<1>4. r * q \in Nat
  OBVIOUS
<1> QED BY <1>3, <1>4, MultipleMod

\* The multiple that follows.
LEMMA ModNext ==
  ASSUME NEW b \in Nat, NEW s \in Nat \ {0}, b % s = 0
  PROVE  (b + s) % s = 0
<1>1. PICK q \in Nat : b = s * q
  BY ModMultiple
<1>2. b + s = s * (q + 1)
  BY <1>1
<1>3. q + 1 \in Nat
  OBVIOUS
<1> QED BY <1>2, <1>3, MultipleMod

\* Multiples of s are at least s apart.
LEMMA ModGap ==
  ASSUME NEW b \in Nat, NEW d \in Nat, NEW s \in Nat \ {0},
         b % s = 0, d % s = 0, b < d
  PROVE  b + s <= d
<1>1. PICK q \in Nat : b = s * q
  BY ModMultiple
<1>2. PICK r \in Nat : d = s * r
  BY ModMultiple
<1>3. q < r
  <2>1. CASE q >= r
    <3>1. s * q >= s * r
      BY <2>1
    <3> QED BY <1>1, <1>2, <3>1
  <2> QED BY <2>1
<1>4. s * (q + 1) <= s * r
  BY <1>3
<1> QED BY <1>1, <1>2, <1>4

-----------------------------------------------------------------------------
(***************************************************************************)
(* Blocks                                                                  *)
(***************************************************************************)
\* The sizes of blocks and of the region.
LEMMA SizeFacts ==
  /\ MaxK \in Nat
  /\ \A k \in 0 .. MaxK : Size[k] \in Nat /\ Size[k] > 0
  /\ \A k \in 1 .. MaxK : Size[k] = 2 * Size[k - 1]
  /\ \A k \in 0 .. MaxK : \A j \in 0 .. k : Size[k] % Size[j] = 0
<1>1. ASSUME NEW k \in 1 .. MaxK
      PROVE  Size[k] = 2 * Size[k - 1]
  <2>1. k - 1 \in 0 .. (MaxK - 1) /\ (k - 1) + 1 = k
    BY SizeAssumption DEF SizeAssumption
  <2> QED BY <2>1, SizeAssumption DEF SizeAssumption
<1>2. ASSUME NEW k \in 0 .. MaxK
      PROVE  Size[k] \in Nat /\ Size[k] > 0
  BY SizeAssumption DEF SizeAssumption
<1> QED BY <1>1, <1>2, SizeAssumption DEF SizeAssumption

\* The halves of a block that is in place are in place, and buddy_of() of the
\* lower half is the upper half.
LEMMA Halves ==
  ASSUME NEW b, NEW k \in 1 .. MaxK, InPlace(b, k)
  PROVE  /\ Size[k] = 2 * Size[k - 1]
         /\ InPlace(b, k - 1)
         /\ BuddyOf(b, k - 1) = b + Size[k - 1]
         /\ InPlace(b + Size[k - 1], k - 1)
<1>1. /\ k - 1 \in 0 .. (MaxK - 1)
      /\ (k - 1) + 1 = k
      /\ k \in 0 .. MaxK
      /\ k - 1 \in 0 .. k
  BY SizeFacts
<1>2. Size[k] = 2 * Size[k - 1]
  BY SizeFacts
<1>3. /\ b \in Nat /\ Size[k] \in Nat \ {0} /\ Size[k - 1] \in Nat \ {0}
      /\ Size[MaxK] \in Nat
      /\ b % Size[k] = 0 /\ b + Size[k] <= Size[MaxK]
  BY <1>1, SizeFacts DEF InPlace, Page
<1>4. Size[k] % Size[k - 1] = 0
  BY <1>1, SizeFacts
<1>5. b % Size[k - 1] = 0
  BY <1>3, <1>4, ModTrans
<1>6. (b + Size[k - 1]) % Size[k - 1] = 0
  BY <1>3, <1>5, ModNext
<1>7. BuddyOf(b, k - 1) = b + Size[k - 1]
  BY <1>1, <1>3 DEF BuddyOf
<1>8. b + Size[k - 1] \in Page
  BY <1>2, <1>3 DEF Page
<1>9. /\ b + Size[k - 1] <= Size[MaxK]
      /\ (b + Size[k - 1]) + Size[k - 1] <= Size[MaxK]
  BY <1>2, <1>3
<1>10. b \in Page /\ k - 1 \in 0 .. MaxK
  BY SizeFacts DEF InPlace
<1>11. InPlace(b, k - 1)
  BY <1>5, <1>9, <1>10 DEF InPlace
<1>12. InPlace(b + Size[k - 1], k - 1)
  BY <1>6, <1>8, <1>9, <1>10 DEF InPlace
<1> QED BY <1>2, <1>7, <1>11, <1>12

\* Blocks in place never overlap in part: the smaller lies in the larger, or
\* they are apart.
LEMMA Nested ==
  ASSUME NEW b, NEW d, NEW k \in 0 .. MaxK, NEW j \in 0 .. k,
         InPlace(b, j), InPlace(d, k)
  PROVE  \/ Apart(b, j, d, k)
         \/ d <= b /\ b + Size[j] <= d + Size[k]
<1>1. /\ b \in Nat /\ d \in Nat /\ Size[j] \in Nat \ {0} /\ Size[k] \in Nat \ {0}
      /\ b % Size[j] = 0 /\ d % Size[k] = 0 /\ Size[k] % Size[j] = 0
  BY SizeFacts DEF InPlace, Page
<1>2. d % Size[j] = 0
  BY <1>1, ModTrans
<1>3. CASE b < d
  <2>1. b + Size[j] <= d
    BY <1>1, <1>2, <1>3, ModGap
  <2> QED BY <2>1 DEF Apart
<1>4. CASE d <= b /\ b < d + Size[k]
  <2>1. PICK q \in Nat : d = Size[j] * q
    BY <1>1, <1>2, ModMultiple
  <2>2. PICK r \in Nat : Size[k] = Size[j] * r
    BY <1>1, ModMultiple
  <2>3. d + Size[k] = Size[j] * (q + r) /\ q + r \in Nat
    BY <1>1, <2>1, <2>2
  <2>4. (d + Size[k]) % Size[j] = 0
    BY <1>1, <2>3, MultipleMod
  <2>5. b + Size[j] <= d + Size[k]
    BY <1>1, <1>4, <2>4, ModGap
  <2> QED BY <1>4, <2>5
<1>5. CASE d + Size[k] <= b
  BY <1>5 DEF Apart
<1> QED BY <1>1, <1>3, <1>4, <1>5

-----------------------------------------------------------------------------
(***************************************************************************)
(* Types and the lock                                                      *)
(***************************************************************************)
\* Only the holder of the lock is inside alloc().
LEMMA Alone ==
  ASSUME HolderFirst, NEW c \in CPU, Inside(c), NEW d \in CPU, Inside(d)
  PROVE  c = d
  BY DEF HolderFirst

\* MutualExclusion follows: the two processors are both the head of the queue.
LEMMA ExclusionFromHolder == HolderFirst => MutualExclusion
  BY Alone DEF MutualExclusion

\* What an iteration of the split loop works on: the two halves of the block.
LEMMA SplitFacts ==
  ASSUME TypeOK, AllInPlace, NEW c \in CPU, Split(c)
  PROVE  /\ ord[c] \in 1 .. MaxK
         /\ ord[c] - 1 \in 0 .. MaxK
         /\ block[c] \in Page
         /\ Size[ord[c]] = 2 * Size[ord[c] - 1]
         /\ InPlace(block[c], ord[c])
         /\ InPlace(block[c], ord[c] - 1)
         /\ BuddyOf(block[c], ord[c] - 1) = block[c] + Size[ord[c] - 1]
         /\ InPlace(block[c] + Size[ord[c] - 1], ord[c] - 1)
<1>1. InPlace(block[c], ord[c])
  BY DEF Split, AllInPlace
<1>2. OrderOf(size[c]) \in Nat /\ ord[c] > OrderOf(size[c])
  BY RequestAssumption DEF Split, RequestAssumption, TypeOK
<1>3. ord[c] \in 0 .. MaxK /\ block[c] \in Page
  BY <1>1 DEF InPlace
<1>4. ord[c] \in 1 .. MaxK /\ ord[c] - 1 \in 0 .. MaxK
  BY <1>2, <1>3, SizeFacts
<1> QED BY <1>1, <1>3, <1>4, Halves

\* The type invariant is inductive, given where the blocks are.
LEMMA TypeStep ==
  ASSUME TypeOK, HolderFirst, AllInPlace, PassedEmpty, [Next]_vars
  PROVE  TypeOK'
<1> USE DEF TypeOK
<1>1. ASSUME NEW c \in CPU, Call(c)
      PROVE  TypeOK'
  BY <1>1 DEF Call
<1>2. ASSUME NEW c \in CPU, Acquire(c)
      PROVE  TypeOK'
  <2>1. OrderOf(size[c]) \in Nat
    BY <1>2, RequestAssumption DEF Acquire, RequestAssumption
  <2> QED BY <1>2, <2>1 DEF Acquire
<1>3. ASSUME NEW c \in CPU, SearchOn(c)
      PROVE  TypeOK'
  BY <1>3 DEF SearchOn
<1>4. ASSUME NEW c \in CPU, Found(c)
      PROVE  TypeOK'
  BY <1>4 DEF Found, RemoveHead
<1>5. ASSUME NEW c \in CPU, Fail(c)
      PROVE  TypeOK'
  BY <1>5 DEF Fail, Return, HolderFirst, Inside
<1>6. ASSUME NEW c \in CPU, Split(c)
      PROVE  TypeOK'
  <2>1. /\ ord[c] - 1 \in 0 .. MaxK
        /\ BuddyOf(block[c], ord[c] - 1) \in Page
    BY <1>6, SplitFacts DEF InPlace
  <2>2. list' \in [0 .. MaxK -> Page \cup {Null}] /\ word' \in [Page -> Page \cup {Null}]
    BY <1>6, <2>1 DEF Split, Add
  <2>3. ord' \in [CPU -> Nat]
    BY <1>6, <2>1 DEF Split
  <2> QED BY <1>6, <2>2, <2>3 DEF Split
<1>7. ASSUME NEW c \in CPU, Finish(c)
      PROVE  TypeOK'
  <2>1. block[c] \in Page /\ ord[c] \in 0 .. MaxK
    BY <1>7 DEF Finish, AllInPlace, InPlace
  <2>2. allocated' \subseteq Page \X (0 .. MaxK) /\ word' \in [Page -> Page \cup {Null}]
    BY <1>7, <2>1 DEF Finish
  <2>3. queue' \in Seq(CPU)
    BY <1>7 DEF Finish, Return, HolderFirst, Inside
  <2> QED BY <1>7, <2>2, <2>3 DEF Finish, Return
<1>8. ASSUME Write
      PROVE  TypeOK'
  <2>1. PICK p, v : v \in Junk /\ word' = [word EXCEPT ![p] = v]
    BY <1>8 DEF Write
  <2>2. word' \in [Page -> Page \cup {Null}]
    BY <2>1, NullAssumption DEF NullAssumption
  <2> QED BY <1>8, <2>2 DEF Write
<1>9. CASE UNCHANGED vars
  BY <1>9 DEF vars
<1> QED BY <1>1, <1>2, <1>3, <1>4, <1>5, <1>6, <1>7, <1>8, <1>9 DEF Next, Step

-----------------------------------------------------------------------------
(***************************************************************************)
(* The inductive invariant                                                 *)
(***************************************************************************)
\* HolderFirst is preserved by entering the queue and by leaving it.
LEMMA HolderStep ==
  ASSUME TypeOK, HolderFirst, [Next]_vars
  PROVE  HolderFirst'
<1> USE DEF TypeOK, HolderFirst, Inside
<1>1. ASSUME NEW c \in CPU, Call(c)
      PROVE  HolderFirst'
  <2>1. /\ queue' # <<>>
        /\ queue # <<>> => Head(queue') = Head(queue)
    BY <1>1 DEF Call
  <2> QED BY <1>1, <2>1 DEF Call
<1>2. ASSUME NEW c \in CPU, Acquire(c) \/ SearchOn(c) \/ Found(c) \/ Split(c)
      PROVE  HolderFirst'
  BY <1>2 DEF Acquire, SearchOn, Found, Split
<1>3. ASSUME NEW c \in CPU, Fail(c) \/ Finish(c)
      PROVE  HolderFirst'
  <2>1. \A d \in CPU : Inside(d) => d = c
    BY <1>3, Alone DEF Fail, Finish
  <2>2. \A d \in CPU : ~ Inside(d)'
    BY <1>3, <2>1 DEF Fail, Finish, Return
  <2> QED BY <2>2
<1>4. CASE Write \/ UNCHANGED vars
  BY <1>4 DEF Write, vars
<1> QED BY <1>1, <1>2, <1>3, <1>4 DEF Next, Step

\* A step that moves no block: Call, Acquire, SearchOn and Fail.
LEMMA QuietStep ==
  ASSUME IInv, TypeOK', HolderFirst', PassedEmpty',
         UNCHANGED <<list, word, allocated>>,
         \A d \in CPU : /\ pc'[d] = "split" <=> pc[d] = "split"
                        /\ pc[d] = "split" => block'[d] = block[d] /\ ord'[d] = ord[d]
  PROVE  IInv'
<1> USE DEF IInv
<1>1. AllInPlace'
  BY DEF AllInPlace, InPlace
<1>2. NoSharedMemory'
  BY DEF NoSharedMemory, Apart
<1>3. OnePerList'
  BY DEF OnePerList
<1>4. NothingLost'
  BY DEF NothingLost, Span
<1>5. FreeIsListed'
  BY DEF FreeIsListed, InPlace, Unused, Apart
<1> QED BY <1>1, <1>2, <1>3, <1>4, <1>5

\* What is inside the call of one processor concerns no other.
LEMMA OnlyOne ==
  ASSUME HolderFirst, NEW c \in CPU, Inside(c)
  PROVE  \A d \in CPU : d # c => pc[d] \notin {"search", "split"}
  BY Alone DEF Inside

LEMMA CallStep ==
  ASSUME IInv, TypeOK', HolderFirst', NEW c \in CPU, Call(c)
  PROVE  IInv'
<1>1. PassedEmpty'
  BY DEF Call, IInv, TypeOK, PassedEmpty, Inside
<1> QED BY <1>1, QuietStep DEF Call, IInv, TypeOK

LEMMA AcquireStep ==
  ASSUME IInv, TypeOK', HolderFirst', NEW c \in CPU, Acquire(c)
  PROVE  IInv'
<1>1. OrderOf(size[c]) \in Nat
  BY RequestAssumption DEF RequestAssumption, IInv, TypeOK
<1>2. PassedEmpty'
  BY <1>1, SizeFacts DEF Acquire, IInv, TypeOK, PassedEmpty, Inside
<1> QED BY <1>2, QuietStep DEF Acquire, IInv, TypeOK

LEMMA SearchOnStep ==
  ASSUME IInv, TypeOK', HolderFirst', NEW c \in CPU, SearchOn(c)
  PROVE  IInv'
<1>1. OrderOf(size[c]) \in Nat /\ ord[c] \in Nat
  BY RequestAssumption DEF RequestAssumption, IInv, TypeOK
<1>2. ASSUME NEW d \in CPU, Inside(d)'
      PROVE  /\ OrderOf(size[d]) <= ord'[d]
             /\ \A j \in 0 .. MaxK : OrderOf(size[d]) <= j /\ j < ord'[d] => list[j] = Null
  <2>1. CASE d = c
    <3>1. /\ ord'[c] = ord[c] + 1 /\ list[ord[c]] = Null
          /\ OrderOf(size[c]) <= ord[c]
          /\ \A j \in 0 .. MaxK : OrderOf(size[c]) <= j /\ j < ord[c] => list[j] = Null
      BY DEF SearchOn, IInv, TypeOK, PassedEmpty, Inside
    <3> QED BY <1>1, <2>1, <3>1, SizeFacts
  <2>2. CASE d # c
    BY <1>2, <2>2 DEF SearchOn, IInv, TypeOK, PassedEmpty, Inside
  <2> QED BY <2>1, <2>2
<1>3. PassedEmpty'
  BY <1>2 DEF SearchOn, PassedEmpty, Inside
<1> QED BY <1>3, QuietStep DEF SearchOn, IInv, TypeOK

LEMMA FailStep ==
  ASSUME IInv, TypeOK', HolderFirst', NEW c \in CPU, Fail(c)
  PROVE  IInv'
<1>1. PassedEmpty'
  BY OnlyOne DEF Fail, Return, IInv, TypeOK, PassedEmpty, Inside
<1>2. \A d \in CPU : pc'[d] = "split" <=> pc[d] = "split"
  BY DEF Fail, Return, IInv, TypeOK
<1>3. \A d \in CPU : pc[d] = "split" => block'[d] = block[d] /\ ord'[d] = ord[d]
  BY DEF Fail, Return, IInv, TypeOK
<1> QED BY <1>1, <1>2, <1>3, QuietStep DEF Fail

\* The block leaves its list for the hands of the processor.
LEMMA FoundStep ==
  ASSUME IInv, TypeOK', HolderFirst', NEW c \in CPU, Found(c)
  PROVE  IInv'
<1> DEFINE o == ord[c]
           h == list[ord[c]]
<1>1. /\ o \in 0 .. MaxK /\ h # Null /\ InPlace(h, o)
      /\ word' = word /\ allocated' = allocated /\ size' = size /\ ord' = ord
      /\ list' = [list EXCEPT ![o] = Null]
      /\ block' = [block EXCEPT ![c] = h]
      /\ pc' = [pc EXCEPT ![c] = "split"]
      /\ pc[c] = "search"
  BY SizeFacts DEF Found, RemoveHead, IInv, TypeOK, AllInPlace
<1>2. \A d \in CPU : d # c => pc[d] \notin {"search", "split"}
  BY <1>1, OnlyOne DEF IInv, Inside
<1>3. /\ list'[o] = Null
      /\ \A j \in 0 .. MaxK : j # o => list'[j] = list[j]
      /\ block'[c] = h /\ ord'[c] = o
      /\ \A d \in CPU : pc'[d] = "split" <=> d = c
  BY <1>1, <1>2 DEF IInv, TypeOK
<1> HIDE DEF o, h
<1>4. AllInPlace'
  BY <1>1, <1>3 DEF IInv, AllInPlace, InPlace
<1>5. PassedEmpty'
  <2>1. OrderOf(size[c]) <= ord[c]
    BY <1>1 DEF IInv, PassedEmpty, Inside
  <2>2. \A j \in 0 .. MaxK : OrderOf(size[c]) <= j /\ j < ord[c] => list'[j] = Null
    BY <1>1, <1>3 DEF IInv, PassedEmpty, Inside, o
  <2>3. \A d \in CPU : Inside(d)' => d = c
    BY <1>1, <1>2 DEF Inside, IInv, TypeOK
  <2> QED BY <1>1, <2>1, <2>2, <2>3 DEF PassedEmpty
<1>6. NoSharedMemory'
  <2>1. \A x \in allocated : Apart(x[1], x[2], h, o)
    BY <1>1 DEF IInv, NoSharedMemory, o, h
  <2>2. \A j \in 0 .. MaxK : j # o /\ list[j] # Null => Apart(list[j], j, h, o)
    BY <1>1 DEF IInv, NoSharedMemory, o, h
  <2> QED BY <1>1, <1>3, <2>1, <2>2 DEF IInv, NoSharedMemory, Apart
<1>7. OnePerList'
  BY <1>1, <1>3 DEF IInv, OnePerList
<1>8. NothingLost'
  <2> SUFFICES ASSUME NEW p \in Page
               PROVE  \/ \E x \in allocated' : p \in Span(x[1], x[2])
                      \/ \E k \in 0 .. MaxK : list'[k] # Null /\ p \in Span(list'[k], k)
                      \/ \E d \in CPU : pc'[d] = "split" /\ p \in Span(block'[d], ord'[d])
    BY DEF NothingLost, Span
  <2>1. CASE \E x \in allocated : p \in Span(x[1], x[2])
    BY <1>1, <2>1
  <2>2. CASE \E k \in 0 .. MaxK : list[k] # Null /\ p \in Span(list[k], k)
    BY <1>1, <1>3, <2>2 DEF h, o
  <2>3. ~ \E d \in CPU : pc[d] = "split"
    BY <1>1, <1>2
  <2> QED BY <2>1, <2>2, <2>3 DEF IInv, NothingLost
<1>9. FreeIsListed'
  <2> SUFFICES ASSUME NEW k \in 0 .. MaxK, NEW b \in Page, InPlace(b, k), Unused(b, k)'
               PROVE  \E j \in k .. MaxK : /\ list'[j] # Null
                                           /\ list'[j] <= b
                                           /\ b + Size[k] <= list'[j] + Size[j]
    BY DEF FreeIsListed, InPlace
  <2>1. Unused(b, k) /\ Apart(h, o, b, k)
    BY <1>1, <1>2, <1>3 DEF Unused, Apart
  <2>2. PICK j \in k .. MaxK : /\ list[j] # Null
                               /\ list[j] <= b
                               /\ b + Size[k] <= list[j] + Size[j]
    BY <2>1 DEF IInv, FreeIsListed
  <2>3. j # o
    <3>1. CASE j = o
      <4>1. h <= b /\ b + Size[k] <= h + Size[o] /\ h \in Nat /\ b \in Nat
        BY <1>1, <2>2, <3>1 DEF h, o, InPlace, Page
      <4>2. Size[k] \in Nat /\ Size[k] > 0 /\ Size[o] \in Nat /\ Size[o] > 0
        BY <1>1, SizeFacts
      <4> QED BY <2>1, <4>1, <4>2 DEF Apart
    <3> QED BY <3>1
  <2>4. list'[j] = list[j]
    BY <1>3, <2>3, SizeFacts
  <2> QED BY <2>2, <2>4
<1> QED BY <1>4, <1>5, <1>6, <1>7, <1>8, <1>9 DEF IInv

\* The upper half of the block goes to its list, the lower stays in hand.
LEMMA SplitStep ==
  ASSUME IInv, TypeOK', HolderFirst', NEW c \in CPU, Split(c)
  PROVE  IInv'
<1> DEFINE o == ord[c]
           h == block[c]
           s == Size[ord[c] - 1]
           u == block[c] + Size[ord[c] - 1]
<1>1. /\ o \in 1 .. MaxK /\ o - 1 \in 0 .. MaxK /\ o \in 0 .. MaxK
      /\ h \in Nat /\ s \in Nat /\ s > 0 /\ u = h + s /\ Size[o] = 2 * s /\ Size[o - 1] = s
      /\ InPlace(h, o) /\ InPlace(h, o - 1) /\ InPlace(u, o - 1)
      /\ BuddyOf(h, o - 1) = u
  BY SplitFacts, SizeFacts DEF IInv, Page
<1>2. /\ allocated' = allocated /\ size' = size /\ block' = block /\ pc' = pc
      /\ pc[c] = "split"
      /\ ord' = [ord EXCEPT ![c] = o - 1]
      /\ list' = [list EXCEPT ![o - 1] = u]
      /\ word' = [word EXCEPT ![u] = list[o - 1]]
      /\ OrderOf(size[c]) < o
  BY <1>1 DEF Split, Add
<1>3. OrderOf(size[c]) \in Nat
  BY RequestAssumption DEF RequestAssumption, IInv, TypeOK
<1>4. \A d \in CPU : d # c => pc[d] \notin {"search", "split"}
  BY <1>2, OnlyOne DEF IInv, Inside
<1>5. list[o - 1] = Null
  BY <1>1, <1>2, <1>3 DEF IInv, PassedEmpty, Inside
<1>6. u \in Page /\ u # Null
  BY <1>1, NullAssumption DEF NullAssumption, InPlace, Page
<1>7. /\ list'[o - 1] = u
      /\ \A j \in 0 .. MaxK : j # o - 1 => list'[j] = list[j]
      /\ ord'[c] = o - 1
      /\ word'[u] = Null
      /\ \A p \in Page : p # u => word'[p] = word[p]
  BY <1>1, <1>2, <1>5, <1>6 DEF IInv, TypeOK
<1>8. /\ \A x \in allocated : Apart(x[1], x[2], h, o)
      /\ \A k \in 0 .. MaxK : list[k] # Null => Apart(list[k], k, h, o)
  BY <1>2 DEF IInv, NoSharedMemory
<1>9. ASSUME NEW b \in Nat, NEW k \in 0 .. MaxK
      PROVE  /\ Apart(b, k, h, o) => Apart(b, k, h, o - 1) /\ Apart(b, k, u, o - 1)
             /\ Apart(h, o - 1, u, o - 1)
             /\ Apart(u, o - 1, h, o - 1)
  BY <1>1, SizeFacts DEF Apart
<1> HIDE DEF o, h, s, u
<1>10. AllInPlace'
  BY <1>1, <1>2, <1>4, <1>7 DEF IInv, AllInPlace, InPlace, h
<1>11. PassedEmpty'
  <2>1. OrderOf(size[c]) <= o - 1
    BY <1>1, <1>2, <1>3
  <2>2. \A j \in 0 .. MaxK : OrderOf(size[c]) <= j /\ j < o - 1 => list'[j] = Null
    <3>1. \A j \in 0 .. MaxK : OrderOf(size[c]) <= j /\ j < o => list[j] = Null
      BY <1>2 DEF IInv, PassedEmpty, Inside, o
    <3> QED BY <1>1, <1>7, <3>1
  <2>3. \A d \in CPU : Inside(d)' => d = c
    BY <1>2, <1>4 DEF Inside
  <2> QED BY <1>2, <1>7, <2>1, <2>2, <2>3 DEF PassedEmpty
<1>12. NoSharedMemory'
  <2>1. \A x \in allocated : x[1] \in Nat /\ x[2] \in 0 .. MaxK
    BY DEF IInv, AllInPlace, InPlace, Page
  <2>2. \A k \in 0 .. MaxK : list[k] # Null => list[k] \in Nat
    BY DEF IInv, AllInPlace, InPlace, Page
  <2>3. \A x \in allocated : Apart(x[1], x[2], h, o - 1) /\ Apart(x[1], x[2], u, o - 1)
    BY <1>8, <1>9, <2>1
  <2>4. \A k \in 0 .. MaxK : list[k] # Null =>
          Apart(list[k], k, h, o - 1) /\ Apart(list[k], k, u, o - 1) /\ Apart(u, o - 1, list[k], k)
    <3>1. \A k \in 0 .. MaxK : list[k] # Null =>
            Apart(list[k], k, h, o - 1) /\ Apart(list[k], k, u, o - 1)
      BY <1>8, <1>9, <2>2
    <3> QED BY <3>1 DEF Apart
  <2>5. Apart(u, o - 1, h, o - 1)
    BY <1>1, <1>9
  <2>6. \A d \in CPU : pc'[d] = "split" => d = c
    BY <1>2, <1>4
  <2>7. \A x, y \in allocated : x = y \/ Apart(x[1], x[2], y[1], y[2])
    BY DEF IInv, NoSharedMemory
  <2>8. ASSUME NEW k \in 0 .. MaxK, list'[k] # Null
        PROVE  /\ \A x \in allocated : Apart(x[1], x[2], list'[k], k)
               /\ \A j \in 0 .. MaxK : j # k /\ list'[j] # Null => Apart(list'[j], j, list'[k], k)
               /\ Apart(list'[k], k, h, o - 1)
    BY <1>1, <1>7, <2>3, <2>4, <2>5, <2>8 DEF IInv, NoSharedMemory
  <2>9. ord'[c] = o - 1 /\ block'[c] = h
    BY <1>2, <1>7 DEF h
  <2> QED BY <1>2, <2>3, <2>6, <2>7, <2>8, <2>9 DEF NoSharedMemory, Apart
<1>13. OnePerList'
  <2>1. \A k \in 0 .. MaxK : list[k] # Null => list[k] \in Page
    BY DEF IInv, AllInPlace, InPlace
  <2> QED BY <1>1, <1>7, <2>1 DEF IInv, OnePerList
<1>14. NothingLost'
  <2> SUFFICES ASSUME NEW p \in Page
               PROVE  \/ \E x \in allocated' : p \in Span(x[1], x[2])
                      \/ \E k \in 0 .. MaxK : list'[k] # Null /\ p \in Span(list'[k], k)
                      \/ \E d \in CPU : pc'[d] = "split" /\ p \in Span(block'[d], ord'[d])
    BY DEF NothingLost, Span
  <2>1. CASE \E x \in allocated : p \in Span(x[1], x[2])
    BY <1>2, <2>1
  <2>2. CASE \E k \in 0 .. MaxK : list[k] # Null /\ p \in Span(list[k], k)
    BY <1>5, <1>7, <2>2
  <2>3. CASE \E d \in CPU : pc[d] = "split" /\ p \in Span(block[d], ord[d])
    <3>1. p \in Span(h, o)
      BY <1>4, <2>3 DEF h, o
    <3>2. p \in Span(h, o - 1) \/ p \in Span(u, o - 1)
      BY <1>1, <3>1 DEF Span, Page
    <3> QED BY <1>1, <1>2, <1>6, <1>7, <3>2 DEF h
  <2> QED BY <2>1, <2>2, <2>3 DEF IInv, NothingLost
<1>15. FreeIsListed'
  <2> SUFFICES ASSUME NEW k \in 0 .. MaxK, NEW b \in Page, InPlace(b, k), Unused(b, k)'
               PROVE  \E j \in k .. MaxK : /\ list'[j] # Null
                                           /\ list'[j] <= b
                                           /\ b + Size[k] <= list'[j] + Size[j]
    BY DEF FreeIsListed, InPlace
  <2>1. /\ \A x \in allocated : Apart(x[1], x[2], b, k)
        /\ Apart(h, o - 1, b, k)
    BY <1>2, <1>7 DEF Unused, Apart, h
  <2>2. /\ b \in Nat /\ Size[k] \in Nat /\ Size[k] > 0
    BY SizeFacts DEF Page
  <2>3. CASE Apart(h, o, b, k)
    <3>1. Unused(b, k)
      BY <1>4, <2>1, <2>3 DEF Unused, h, o
    <3>2. PICK j \in k .. MaxK : /\ list[j] # Null
                                 /\ list[j] <= b
                                 /\ b + Size[k] <= list[j] + Size[j]
      BY <3>1 DEF IInv, FreeIsListed
    <3>3. list'[j] = list[j]
      BY <1>5, <1>7, <3>2, SizeFacts
    <3> QED BY <3>2, <3>3
  <2>4. CASE ~ Apart(h, o, b, k)
    <3>1. ~ Apart(u, o - 1, b, k)
      BY <1>1, <2>1, <2>2, <2>4 DEF Apart
    <3>2. CASE k <= o - 1
      <4>1. u <= b /\ b + Size[k] <= u + Size[o - 1]
        <5>1. k \in 0 .. (o - 1)
          BY <1>1, <3>2
        <5>2. Apart(b, k, u, o - 1) \/ (u <= b /\ b + Size[k] <= u + Size[o - 1])
          BY <1>1, <5>1, Nested
        <5> QED BY <3>1, <5>2 DEF Apart
      <4>2. o - 1 \in k .. MaxK
        BY <1>1, <3>2, SizeFacts
      <4> QED BY <1>6, <1>7, <4>1, <4>2
    <3>3. CASE k > o - 1
      <4>1. o - 1 \in 0 .. k
        BY <1>1, <3>3
      <4>2. o \in 0 .. k
        BY <1>1, <3>3
      <4>3. Apart(h, o, b, k) \/ (b <= h /\ h + Size[o] <= b + Size[k])
        BY <1>1, <4>2, Nested
      <4> QED BY <1>1, <2>1, <2>2, <2>4, <4>3 DEF Apart
    <3> QED BY <1>1, <3>2, <3>3, SizeFacts
  <2> QED BY <2>3, <2>4
<1> QED BY <1>10, <1>11, <1>12, <1>13, <1>14, <1>15 DEF IInv

\* The block in hand is handed out.
LEMMA FinishStep ==
  ASSUME IInv, TypeOK', HolderFirst', NEW c \in CPU, Finish(c)
  PROVE  IInv'
<1> DEFINE o == ord[c]
           h == block[c]
<1>1. /\ list' = list /\ allocated' = allocated \cup {<<h, o>>}
      /\ pc[c] = "split" /\ pc' = [pc EXCEPT ![c] = "idle"]
      /\ word' = [p \in Page |-> IF p \in Span(h, o) THEN Null ELSE word[p]]
  BY DEF Finish, Return
<1>2. \A d \in CPU : d # c => pc[d] \notin {"search", "split"}
  BY <1>1, OnlyOne DEF IInv, Inside
<1>3. \A d \in CPU : pc'[d] \notin {"search", "split"}
  BY <1>1, <1>2 DEF IInv, TypeOK
<1>4. /\ InPlace(h, o)
      /\ \A x \in allocated : Apart(x[1], x[2], h, o)
      /\ \A k \in 0 .. MaxK : list[k] # Null => Apart(list[k], k, h, o)
  BY <1>1 DEF IInv, AllInPlace, NoSharedMemory
<1> HIDE DEF h, o
<1>5. \A x \in allocated' : x \in allocated \/ x = <<h, o>>
  BY <1>1
<1>6. AllInPlace'
  BY <1>1, <1>3, <1>4, <1>5 DEF IInv, AllInPlace, InPlace
<1>7. PassedEmpty'
  BY <1>3 DEF PassedEmpty, Inside
<1>8. NoSharedMemory'
  <2>1. \A x, y \in allocated' : x = y \/ Apart(x[1], x[2], y[1], y[2])
    BY <1>4, <1>5 DEF IInv, NoSharedMemory, Apart
  <2>2. ASSUME NEW k \in 0 .. MaxK, list'[k] # Null
        PROVE  /\ \A x \in allocated' : Apart(x[1], x[2], list'[k], k)
               /\ \A j \in 0 .. MaxK : j # k /\ list'[j] # Null => Apart(list'[j], j, list'[k], k)
    BY <1>1, <1>4, <1>5, <2>2 DEF IInv, NoSharedMemory, Apart
  <2> QED BY <1>3, <2>1, <2>2 DEF NoSharedMemory, Apart
<1>9. OnePerList'
  <2>1. \A k \in 0 .. MaxK : list[k] # Null => list[k] \in Page
    BY DEF IInv, AllInPlace, InPlace
  <2> QED BY <1>1, <2>1 DEF IInv, OnePerList
<1>10. NothingLost'
  <2> SUFFICES ASSUME NEW p \in Page
               PROVE  \/ \E x \in allocated' : p \in Span(x[1], x[2])
                      \/ \E k \in 0 .. MaxK : list'[k] # Null /\ p \in Span(list'[k], k)
                      \/ \E d \in CPU : pc'[d] = "split" /\ p \in Span(block'[d], ord'[d])
    BY DEF NothingLost, Span
  <2>1. CASE \E x \in allocated : p \in Span(x[1], x[2])
    BY <1>1, <2>1
  <2>2. CASE \E k \in 0 .. MaxK : list[k] # Null /\ p \in Span(list[k], k)
    BY <1>1, <2>2
  <2>3. CASE \E d \in CPU : pc[d] = "split" /\ p \in Span(block[d], ord[d])
    <3>1. p \in Span(h, o)
      BY <1>2, <2>3 DEF h, o
    <3>2. <<h, o>> \in allocated' /\ <<h, o>>[1] = h /\ <<h, o>>[2] = o
      BY <1>1
    <3> QED BY <3>1, <3>2
  <2> QED BY <2>1, <2>2, <2>3 DEF IInv, NothingLost
<1>11. FreeIsListed'
  <2> SUFFICES ASSUME NEW k \in 0 .. MaxK, NEW b \in Page, InPlace(b, k), Unused(b, k)'
               PROVE  \E j \in k .. MaxK : /\ list'[j] # Null
                                           /\ list'[j] <= b
                                           /\ b + Size[k] <= list'[j] + Size[j]
    BY DEF FreeIsListed, InPlace
  <2>1. <<h, o>> \in allocated' /\ <<h, o>>[1] = h /\ <<h, o>>[2] = o
    BY <1>1
  <2>2. \A x \in allocated' : Apart(x[1], x[2], b, k)
    BY DEF Unused, Apart
  <2>3. Apart(h, o, b, k)
    BY <2>1, <2>2
  <2>4. Unused(b, k)
    BY <1>1, <1>2, <2>2, <2>3 DEF Unused, h, o
  <2> QED BY <1>1, <2>4 DEF IInv, FreeIsListed
<1> QED BY <1>6, <1>7, <1>8, <1>9, <1>10, <1>11 DEF IInv

\* Owners only reach their own pages, never the first word of a listed block.
LEMMA WriteStep ==
  ASSUME IInv, TypeOK', HolderFirst', Write
  PROVE  IInv'
<1>1. UNCHANGED <<queue, list, allocated, pc, size, ord, block>>
  BY DEF Write
<1>2. PICK x \in allocated : \E p \in Span(x[1], x[2]), v \in Junk :
        word' = [word EXCEPT ![p] = v]
  BY DEF Write
<1>3. PICK p \in Span(x[1], x[2]), v \in Junk : word' = [word EXCEPT ![p] = v]
  BY <1>2
<1>4. OnePerList'
  <2> SUFFICES ASSUME NEW k \in 0 .. MaxK, list[k] # Null
               PROVE  word'[list[k]] = Null
    BY <1>1 DEF OnePerList
  <2>1. word[list[k]] = Null /\ Apart(x[1], x[2], list[k], k)
    BY DEF IInv, OnePerList, NoSharedMemory
  <2>2. list[k] \in Nat /\ list[k] \in Page /\ x[1] \in Nat /\ x[2] \in 0 .. MaxK
    BY DEF IInv, AllInPlace, InPlace, Page
  <2>3. list[k] # p
    BY <2>1, <2>2, SizeFacts DEF Apart, Span
  <2> QED BY <1>3, <2>1, <2>2, <2>3 DEF IInv, TypeOK
<1>5. AllInPlace' /\ PassedEmpty'
  BY <1>1 DEF IInv, AllInPlace, InPlace, PassedEmpty, Inside
<1>6. NoSharedMemory'
  BY <1>1 DEF IInv, NoSharedMemory, Apart
<1>7. NothingLost'
  BY <1>1 DEF IInv, NothingLost, Span
<1>8. FreeIsListed'
  BY <1>1 DEF IInv, FreeIsListed, InPlace, Unused, Apart
<1> QED BY <1>4, <1>5, <1>6, <1>7, <1>8 DEF IInv

\* The region starts as one listed block.
LEMMA InitIInv == Init => IInv
<1> SUFFICES ASSUME Init PROVE IInv
  OBVIOUS
<1>1. /\ MaxK \in 0 .. MaxK /\ Size[MaxK] \in Nat /\ Size[MaxK] > 0 /\ 0 \in Page
      /\ 0 # Null
  BY SizeFacts, NullAssumption DEF Page, NullAssumption
<1>2. /\ list[MaxK] = 0
      /\ \A k \in 0 .. MaxK : list[k] # Null => k = MaxK
      /\ \A c \in CPU : pc[c] = "idle"
      /\ allocated = {}
  BY <1>1 DEF Init
<1>3. InPlace(0, MaxK)
  <2>1. 0 % Size[MaxK] = 0
    BY <1>1
  <2> QED BY <1>1, <2>1 DEF InPlace
<1>4. TypeOK
  BY <1>1, BootAssumption DEF Init, TypeOK, BootAssumption
<1>5. HolderFirst /\ PassedEmpty
  BY <1>2 DEF HolderFirst, PassedEmpty, Inside
<1>6. AllInPlace
  BY <1>2, <1>3 DEF AllInPlace
<1>7. NoSharedMemory
  BY <1>2 DEF NoSharedMemory
<1>8. OnePerList
  BY <1>1, <1>2, BootAssumption DEF Init, OnePerList, BootAssumption
<1>9. NothingLost
  BY <1>1, <1>2 DEF NothingLost, Span, Page
<1>10. FreeIsListed
  <2> SUFFICES ASSUME NEW k \in 0 .. MaxK, NEW b \in Page, InPlace(b, k)
               PROVE  MaxK \in k .. MaxK /\ 0 <= b /\ b + Size[k] <= 0 + Size[MaxK]
    BY <1>1, <1>2 DEF FreeIsListed
  <2> QED BY SizeFacts DEF InPlace, Page
<1> QED BY <1>4, <1>5, <1>6, <1>7, <1>8, <1>9, <1>10 DEF IInv

\* Every step preserves the invariant.
LEMMA NextIInv == IInv /\ [Next]_vars => IInv'
<1> SUFFICES ASSUME IInv, [Next]_vars PROVE IInv'
  OBVIOUS
<1>1. TypeOK' /\ HolderFirst'
  BY TypeStep, HolderStep DEF IInv
<1>2. ASSUME NEW c \in CPU, Call(c) \/ Step(c)
      PROVE  IInv'
  BY <1>1, <1>2, CallStep, AcquireStep, SearchOnStep, FoundStep, FailStep, SplitStep,
     FinishStep DEF Step
<1>3. CASE Write
  BY <1>1, <1>3, WriteStep
<1>4. CASE UNCHANGED vars
  <2>1. PassedEmpty'
    BY <1>4 DEF vars, IInv, PassedEmpty, Inside
  <2> QED BY <1>1, <1>4, <2>1, QuietStep DEF vars
<1> QED BY <1>2, <1>3, <1>4 DEF Next

-----------------------------------------------------------------------------
(***************************************************************************)
(* Theorems                                                                *)
(***************************************************************************)
\* The inductive invariant holds of alloc() on any region, for any number of
\* processors and whatever the owners of the blocks store in them.
THEOREM Invariance == Spec => []IInv
  BY InitIInv, NextIInv, PTL DEF Spec

\* alloc() computes only pages of its region, and its lock only holds CPUs.
THEOREM TypeCorrect == Spec => []TypeOK
<1>1. IInv => TypeOK
  BY DEF IInv
<1> QED BY <1>1, Invariance, PTL

\* The ticket lock admits one processor at a time.
THEOREM Exclusion == Spec => []MutualExclusion
<1>1. IInv => MutualExclusion
  BY ExclusionFromHolder DEF IInv
<1> QED BY <1>1, Invariance, PTL

\* No two blocks that are handed out, listed or in hand ever overlap.
THEOREM BlocksDisjoint == Spec => []NoSharedMemory
<1>1. IInv => NoSharedMemory
  BY DEF IInv
<1> QED BY <1>1, Invariance, PTL

\* No page of the region is ever dropped.
THEOREM PagesKept == Spec => []NothingLost
<1>1. IInv => NothingLost
  BY DEF IInv
<1> QED BY <1>1, Invariance, PTL

\* remove() never throws away the rest of a list: there is none.
THEOREM ListsAreShort == Spec => []OnePerList
<1>1. IInv => OnePerList
  BY DEF IInv
<1> QED BY <1>1, Invariance, PTL

\* A block is all zero when it is handed out.
THEOREM Zeroed == Spec => ReturnedZeroed
<1>1. ASSUME IInv, [Next]_vars
      PROVE  [\A x \in allocated' \ allocated : \A p \in Span(x[1], x[2]) : word'[p] = Null]_vars
  <2>1. ASSUME NEW c \in CPU, Finish(c), NEW x \in allocated' \ allocated,
               NEW p \in Span(x[1], x[2])
        PROVE  word'[p] = Null
    <3>1. x = <<block[c], ord[c]>>
      BY <2>1 DEF Finish
    <3>2. /\ p \in Span(block[c], ord[c])
          /\ InPlace(block[c], ord[c])
      <4>1. x[1] = block[c] /\ x[2] = ord[c]
        BY <3>1
      <4> QED BY <1>1, <2>1, <4>1 DEF Finish, IInv, AllInPlace
    <3>3. p \in Page
      BY <3>2, SizeFacts DEF InPlace, Span, Page
    <3> QED BY <2>1, <3>2, <3>3 DEF Finish
  <2>2. CASE \E c \in CPU : Finish(c)
    BY <2>1, <2>2
  <2>3. CASE ~ \E c \in CPU : Finish(c)
    <3>1. allocated' = allocated
      BY <1>1, <2>3
      DEF Next, Step, Call, Acquire, SearchOn, Found, Fail, Split, Write, vars
    <3> QED BY <3>1
  <2> QED BY <2>2, <2>3
<1> QED BY <1>1, Invariance, PTL DEF Spec, ReturnedZeroed

-----------------------------------------------------------------------------
(***************************************************************************)
(* Refinement                                                              *)
(***************************************************************************)
\* The blocks of an order that the abstract source could still hand out are
\* unused: they overlap nothing that is handed out.
LEMMA FitIsUnused ==
  ASSUME IInv, NEW k \in 0 .. MaxK, NEW b \in Source!Fits(k)
  PROVE  /\ b \in Page /\ InPlace(b, k)
         /\ \A x \in allocated : Apart(x[1], x[2], b, k)
<1>1. /\ b \in 0 .. (Size[MaxK] - 1) /\ b % Size[k] = 0
      /\ Source!Span(b, k) \cap Source!Taken = {}
      /\ Size[k] \in Nat /\ Size[k] > 0 /\ Size[MaxK] \in Nat /\ Size[MaxK] > 0
  BY SizeFacts DEF Source!Fits
<1>2. b \in Page /\ b \in Nat
  BY <1>1 DEF Page
<1>3. Size[MaxK] % Size[k] = 0
  BY SizeFacts
<1>4. b + Size[k] <= Size[MaxK]
  BY <1>1, <1>2, <1>3, ModGap
<1>5. InPlace(b, k)
  BY <1>1, <1>2, <1>4 DEF InPlace
<1>6. ASSUME NEW x \in allocated
      PROVE  Apart(x[1], x[2], b, k)
  <2>1. /\ x[1] \in Nat /\ x[2] \in 0 .. MaxK /\ Size[x[2]] \in Nat /\ Size[x[2]] > 0
    BY SizeFacts DEF IInv, AllInPlace, InPlace, Page
  <2>2. ASSUME NEW p \in Nat, x[1] <= p, p < x[1] + Size[x[2]], b <= p, p < b + Size[k]
        PROVE  FALSE
    <3>1. p \in Source!Span(x[1], x[2]) /\ p \in Source!Span(b, k)
      BY <1>1, <1>2, <2>1, <2>2 DEF Source!Span
    <3>2. p \in Source!Taken
      BY <3>1 DEF Source!Taken
    <3> QED BY <1>1, <3>1, <3>2
  <2>3. ~ (x[1] <= b /\ b < x[1] + Size[x[2]])
    BY <1>1, <1>2, <2>2
  <2>4. ~ (b <= x[1] /\ x[1] < b + Size[k])
    BY <1>1, <2>1, <2>2
  <2> QED BY <1>1, <1>2, <2>1, <2>3, <2>4 DEF Apart
<1> QED BY <1>2, <1>5, <1>6

\* The block a processor returns is one the abstract source may grant.
LEMMA FinishedFits ==
  ASSUME IInv, NEW c \in CPU, Finish(c)
  PROVE  block[c] \in Source!Fits(OrderOf(size[c]))
<1> DEFINE o == ord[c]
           h == block[c]
<1>1. /\ InPlace(h, o) /\ o = OrderOf(size[c]) /\ o \in 0 .. MaxK /\ h \in Nat
      /\ \A x \in allocated : Apart(x[1], x[2], h, o)
  BY DEF Finish, IInv, AllInPlace, NoSharedMemory, InPlace, Page
<1>2. /\ Size[o] \in Nat /\ Size[o] > 0 /\ o <= MaxK /\ MaxK \in Nat
  BY <1>1, SizeFacts
<1> HIDE DEF o, h
<1>3. ASSUME NEW p \in Source!Span(h, o), p \in Source!Taken
      PROVE  FALSE
  <2>1. PICK x \in allocated : p \in Source!Span(x[1], x[2])
    BY <1>3 DEF Source!Taken
  <2>2. x[1] \in Nat /\ x[2] \in 0 .. MaxK /\ Apart(x[1], x[2], h, o)
    BY <1>1 DEF IInv, AllInPlace, InPlace, Page
  <2>3. Size[x[2]] \in Nat
    BY <2>2, SizeFacts
  <2> QED BY <1>1, <1>2, <1>3, <2>1, <2>2, <2>3 DEF Source!Span, Apart
<1>4. h \in Source!Fits(o)
  <2>1. h \in 0 .. (Size[MaxK] - 1) /\ h % Size[o] = 0
    BY <1>1 DEF InPlace, Page
  <2>2. Source!Span(h, o) \cap Source!Taken = {}
    BY <1>3
  <2>3. ~ (o > MaxK)
    BY <1>2, <1>1
  <2>4. h \in { b \in 0 .. (Size[MaxK] - 1) :
                b % Size[o] = 0 /\ Source!Span(b, o) \cap Source!Taken = {} }
    BY <2>1, <2>2
  <2> QED BY <2>3, <2>4 DEF Source!Fits
<1> QED BY <1>1, <1>4 DEF h

\* When the search finds nothing, no block of the order asked for is left.
LEMMA FailedFull ==
  ASSUME IInv, NEW c \in CPU, Fail(c)
  PROVE  Source!Fits(OrderOf(size[c])) = {}
<1> DEFINE k == OrderOf(size[c])
<1>1. /\ pc[c] = "search" /\ ord[c] > MaxK /\ ord[c] \in Nat /\ MaxK \in Nat
      /\ k \in Nat
  BY SizeFacts, RequestAssumption DEF Fail, IInv, TypeOK, RequestAssumption
<1>2. \A j \in 0 .. MaxK : k <= j => list[j] = Null
  BY <1>1 DEF IInv, PassedEmpty, Inside
<1>3. \A d \in CPU : pc[d] # "split"
  BY <1>1, OnlyOne DEF IInv, Inside
<1> HIDE DEF k
<1>4. CASE k > MaxK
  BY <1>4 DEF Source!Fits, k
<1>5. CASE k <= MaxK
  <2>1. k \in 0 .. MaxK
    BY <1>1, <1>5
  <2>2. ASSUME NEW b \in Source!Fits(k)
        PROVE  FALSE
    <3>1. b \in Page /\ InPlace(b, k) /\ Unused(b, k)
      BY <1>3, <2>1, FitIsUnused DEF Unused
    <3>2. \E j \in k .. MaxK : list[j] # Null
      BY <2>1, <3>1 DEF IInv, FreeIsListed
    <3> QED BY <1>1, <1>2, <3>2
  <2> QED BY <2>2 DEF k
<1> QED BY <1>1, <1>4, <1>5

\* alloc() implements PageSource: its initial states are initial
\* states there, and every step is a request, a grant, a refusal or a stutter.
THEOREM Refinement == Spec => ImplementsPageSource
<1>1. Init => Source!Init
  BY DEF Init, Source!Init, Pending
<1>2. ASSUME IInv, [Next]_vars
      PROVE  [Source!Next]_(Source!vars)
  <2>1. ASSUME NEW c \in CPU, Call(c)
        PROVE  Source!Next
    <3>1. PICK s \in Sizes : size' = [size EXCEPT ![c] = s]
      BY <2>1 DEF Call
    <3>2. /\ pc[c] = "idle" /\ pc'[c] # "idle" /\ size'[c] = s
          /\ \A d \in CPU : d # c => pc'[d] = pc[d] /\ size'[d] = size[d]
      BY <1>2, <2>1, <3>1 DEF Call, IInv, TypeOK
    <3>3. Pending' = [Pending EXCEPT ![c] = OrderOf(s)] /\ Pending[c] = Null
      BY <3>2 DEF Pending
    <3>4. Source!Request(c)
      BY <2>1, <3>3 DEF Call, Source!Request
    <3> QED BY <3>4 DEF Source!Next
  <2>2. ASSUME NEW c \in CPU, Acquire(c) \/ SearchOn(c) \/ Found(c) \/ Split(c)
        PROVE  UNCHANGED Source!vars
    <3>1. /\ \A d \in CPU : pc'[d] = "idle" <=> pc[d] = "idle"
          /\ size' = size /\ allocated' = allocated
      BY <1>2, <2>2 DEF Acquire, SearchOn, Found, Split, IInv, TypeOK
    <3>2. Pending' = Pending
      BY <3>1 DEF Pending
    <3> QED BY <3>1, <3>2 DEF Source!vars
  <2>3. ASSUME NEW c \in CPU, Fail(c) \/ Finish(c)
        PROVE  /\ Pending' = [Pending EXCEPT ![c] = Null]
               /\ Pending[c] = OrderOf(size[c])
               /\ Pending[c] # Null
    <3>1. /\ pc[c] # "idle" /\ pc'[c] = "idle"
          /\ \A d \in CPU : d # c => pc'[d] = pc[d] /\ size'[d] = size[d]
      BY <1>2, <2>3 DEF Fail, Finish, Return, IInv, TypeOK
    <3>2. OrderOf(size[c]) \in Nat
      BY <1>2, RequestAssumption DEF RequestAssumption, IInv, TypeOK
    <3> QED BY <3>1, <3>2, NullAssumption DEF Pending, NullAssumption
  <2>4. ASSUME NEW c \in CPU, Fail(c)
        PROVE  Source!Next
    <3>1. Source!Refuse(c)
      BY <1>2, <2>3, <2>4, FailedFull DEF Fail, Source!Refuse
    <3> QED BY <3>1 DEF Source!Next
  <2>5. ASSUME NEW c \in CPU, Finish(c)
        PROVE  Source!Next
    <3>1. /\ block[c] \in Source!Fits(OrderOf(size[c]))
          /\ allocated' = allocated \cup {<<block[c], OrderOf(size[c])>>}
      BY <1>2, <2>5, FinishedFits DEF Finish
    <3>2. Source!Grant(c)
      BY <2>3, <2>5, <3>1 DEF Source!Grant
    <3> QED BY <3>2 DEF Source!Next
  <2>6. CASE Write \/ UNCHANGED vars
    BY <2>6 DEF Write, vars, Source!vars, Pending
  <2> QED BY <1>2, <2>1, <2>2, <2>4, <2>5, <2>6 DEF Next, Step
<1> QED BY <1>1, <1>2, Invariance, PTL DEF Spec, ImplementsPageSource, Source!Spec

-----------------------------------------------------------------------------
(***************************************************************************)
(* Free lists                                                              *)
(***************************************************************************)
LEMMA ReachedFollows ==
  ASSUME NEW links \in [Page -> Page \cup {Null}], NEW head \in Page \cup {Null}
  PROVE  Reached(head, links) \subseteq Page /\ Follows(Reached(head, links), head, links)
<1> DEFINE R == Reached(head, links)
<1>1. R \subseteq Page  BY DEF Reached
<1>2. head \in R \cup {Null}  BY DEF Reached, Follows
<1>3. ASSUME NEW p \in R PROVE links[p] \in R \cup {Null}
  <2>1. links[p] \in Page \cup {Null}  BY <1>1
  <2> SUFFICES ASSUME links[p] \in Page, NEW s \in SUBSET Page, Follows(s, head, links)
               PROVE  links[p] \in s
    BY <2>1 DEF Reached
  <2>2. p \in s  BY DEF Reached
  <2>3. links[p] # Null  BY NullAssumption DEF NullAssumption, Page
  <2> QED BY <2>2, <2>3 DEF Follows
<1> QED BY <1>1, <1>2, <1>3 DEF Follows

\* Nothing smaller follows the links.
LEMMA ReachedLeast ==
  ASSUME NEW links, NEW head, NEW s \in SUBSET Page, Follows(s, head, links)
  PROVE  Reached(head, links) \subseteq s
  BY DEF Reached

\* Links of pages that are not on a list do not matter to it.
LEMMA ReachedSame ==
  ASSUME NEW links \in [Page -> Page \cup {Null}], NEW other \in [Page -> Page \cup {Null}],
         NEW head \in Page \cup {Null},
         \A p \in Reached(head, links) : other[p] = links[p]
  PROVE  Reached(head, other) = Reached(head, links)
<1>1. Follows(Reached(head, links), head, other)  BY ReachedFollows DEF Follows
<1>2. Reached(head, other) \subseteq Reached(head, links)
  BY <1>1, ReachedFollows, ReachedLeast
<1>3. Follows(Reached(head, other), head, links)
  BY <1>2, ReachedFollows DEF Follows
<1>4. Reached(head, links) \subseteq Reached(head, other)
  BY <1>3, ReachedFollows, ReachedLeast
<1> QED BY <1>2, <1>4

\* add() puts one block in front.
LEMMA ReachedAdd ==
  ASSUME NEW links \in [Page -> Page \cup {Null}], NEW head \in Page \cup {Null},
         NEW b \in Page, b \notin Reached(head, links)
  PROVE  Reached(b, [links EXCEPT ![b] = head]) = Reached(head, links) \cup {b}
<1> DEFINE other == [links EXCEPT ![b] = head]
           R == Reached(head, links)
           S == Reached(b, other)
<1>1. other \in [Page -> Page \cup {Null}]  OBVIOUS
<1>2. R \subseteq Page /\ Follows(R, head, links)  BY ReachedFollows
<1>3. S \subseteq Page /\ Follows(S, b, other)  BY <1>1, ReachedFollows
<1> HIDE DEF S, R
<1>4. Follows(R \cup {b}, b, other)  BY <1>2 DEF Follows, R
<1>5. S \subseteq R \cup {b}  BY <1>2, <1>4, ReachedLeast DEF S
<1>6. b \in S
  BY <1>3, NullAssumption DEF Follows, NullAssumption, Page
<1>7. Follows(S \cap R, head, links)
  <2>1. head \in S \cup {Null}
    BY <1>3, <1>6 DEF Follows
  <2>2. ASSUME NEW p \in S \cap R PROVE links[p] \in (S \cap R) \cup {Null}
    <3>1. p # b /\ other[p] = links[p]  BY <1>2 DEF R
    <3> QED BY <1>2, <1>3, <3>1 DEF Follows
  <2> QED BY <1>2, <2>1, <2>2 DEF Follows
<1>8. R \subseteq S  BY <1>2, <1>7, ReachedLeast DEF R
<1> QED BY <1>5, <1>6, <1>8 DEF S, R

LEMMA ReachedNone ==
  ASSUME NEW links PROVE Reached(Null, links) = {}
<1>1. Follows({}, Null, links)  BY DEF Follows
<1> QED BY <1>1, ReachedLeast

\* A list of one block.
LEMMA ReachedOne ==
  ASSUME NEW links \in [Page -> Page \cup {Null}], NEW b \in Page, links[b] = Null
  PROVE  Reached(b, links) = {b}
<1>1. Follows({b}, b, links)  BY DEF Follows
<1>2. Reached(b, links) \subseteq {b}  BY <1>1, ReachedLeast
<1>3. b \in Reached(b, links)
  BY ReachedFollows, NullAssumption DEF Follows, NullAssumption, Page
<1> QED BY <1>2, <1>3

-----------------------------------------------------------------------------
(***************************************************************************)
(* Holders                                                                 *)
(***************************************************************************)
Owner == <<"owner", Null>>
Lists == <<"list", Null>>
Cpu(c) == <<"cpu", c>>

LEMMA Holders ==
  /\ Owner \in Holder /\ Lists \in Holder /\ Owner # Lists
  /\ \A c \in CPU : Cpu(c) \in Holder /\ Cpu(c) # Owner /\ Cpu(c) # Lists
  /\ \A c, d \in CPU : Cpu(c) = Cpu(d) => c = d
  /\ \A h \in Holder : h = Owner \/ h = Lists \/ \E c \in CPU : h = Cpu(c)
  BY DEF Holder, Owner, Lists, Cpu

LEMMA HasWhat ==
  /\ Has(Owner) = allocated /\ Has(Lists) = FreeBlocks
  /\ \A c \in CPU : Has(Cpu(c)) = Hand(c)
  /\ Has(Owner)' = allocated' /\ Has(Lists)' = FreeBlocks'
  /\ \A c \in CPU : Has(Cpu(c))' = Hand(c)'
  BY DEF Has, Owner, Lists, Cpu

LEMMA FreeBlocksAre ==
  /\ \A x : x \in FreeBlocks <=> \E k \in 0 .. MaxK : \E b \in Listed(k) : x = <<b, k>>
  /\ \A x : x \in FreeBlocks' <=> \E k \in 0 .. MaxK : \E b \in Listed(k)' : x = <<b, k>>
  BY DEF FreeBlocks

LEMMA ListedPages ==
  ASSUME FreeTypeOK, NEW k \in 0 .. MaxK
  PROVE  /\ list[k] \in Page \cup {Null} /\ Listed(k) \subseteq Page
         /\ list[k] # Null => list[k] \in Listed(k)
<1>1. list[k] \in Page \cup {Null} /\ word \in [Page -> Page \cup {Null}]  BY DEF FreeTypeOK
<1> QED BY <1>1, ReachedFollows DEF Listed, Follows

\* A step that leaves the links of listed blocks alone leaves the lists alone.
LEMMA ListsSame ==
  ASSUME FreeTypeOK, word' \in [Page -> Page \cup {Null}], list' = list,
         \A k \in 0 .. MaxK : \A p \in Listed(k) : word'[p] = word[p]
  PROVE  FreeBlocks' = FreeBlocks
<1>1. ASSUME NEW k \in 0 .. MaxK PROVE Listed(k)' = Listed(k)
  <2>1. list[k] \in Page \cup {Null} /\ word \in [Page -> Page \cup {Null}]  BY DEF FreeTypeOK
  <2> QED BY <2>1, ReachedSame DEF Listed
<1> QED BY <1>1 DEF FreeBlocks

LEMMA ListsAdd ==
  ASSUME FreeTypeOK, NEW b \in Page, NEW k \in 0 .. MaxK, Add(b, k),
         \A j \in 0 .. MaxK : b \notin Listed(j)
  PROVE  FreeBlocks' = FreeBlocks \cup {<<b, k>>}
<1>1. /\ word \in [Page -> Page \cup {Null}] /\ list \in [0 .. MaxK -> Page \cup {Null}]
      /\ word' = [word EXCEPT ![b] = list[k]] /\ list' = [list EXCEPT ![k] = b]
  BY DEF FreeTypeOK, Add
<1>2. Listed(k)' = Listed(k) \cup {b}
  <2>1. Reached(b, word') = Reached(list[k], word) \cup {b}
    BY <1>1, ReachedAdd DEF Listed
  <2> QED BY <1>1, <2>1 DEF Listed
<1>3. ASSUME NEW j \in 0 .. MaxK, j # k PROVE Listed(j)' = Listed(j)
  <2>1. \A p \in Reached(list[j], word) : word'[p] = word[p]
    BY <1>1, ListedPages DEF Listed
  <2>2. /\ word' \in [Page -> Page \cup {Null}]
        /\ list'[j] = list[j] /\ list[j] \in Page \cup {Null}
    BY <1>1, <1>3
  <2>3. Reached(list[j], word') = Reached(list[j], word)
    <3>1. word \in [Page -> Page \cup {Null}]  BY <1>1
    <3> QED BY <2>1, <2>2, <3>1, ReachedSame
  <2> QED BY <2>2, <2>3 DEF Listed
<1>4. ASSUME NEW x PROVE x \in FreeBlocks' <=> x \in FreeBlocks \/ x = <<b, k>>
  BY <1>2, <1>3, FreeBlocksAre
<1> QED BY <1>4

\* remove() takes the head off, and with it the blocks behind it.
LEMMA ListsRemove ==
  ASSUME FreeTypeOK, NEW k \in 0 .. MaxK, list[k] # Null, RemoveHead(k), word' = word
  PROVE  /\ <<list[k], k>> \in FreeBlocks
         /\ FreeBlocks' \subseteq FreeBlocks \ {<<list[k], k>>}
         /\ word[list[k]] = Null => FreeBlocks \subseteq FreeBlocks' \cup {<<list[k], k>>}
<1>1. /\ word \in [Page -> Page \cup {Null}] /\ list \in [0 .. MaxK -> Page \cup {Null}]
      /\ list' = [list EXCEPT ![k] = Null] /\ list[k] \in Page
  BY DEF FreeTypeOK, RemoveHead
<1>2. Listed(k)' = {}
  BY <1>1, ReachedNone DEF Listed
<1>3. \A j \in 0 .. MaxK : j # k => Listed(j)' = Listed(j)
  BY <1>1 DEF Listed
<1>4. <<list[k], k>> \in FreeBlocks
  BY ListedPages, FreeBlocksAre
<1>5. ASSUME NEW x \in FreeBlocks' PROVE x \in FreeBlocks /\ x # <<list[k], k>>
  <2>1. PICK j \in 0 .. MaxK : \E b \in Listed(j)' : x = <<b, j>>  BY <1>5, FreeBlocksAre
  <2>2. j # k  BY <1>2, <2>1
  <2> QED BY <1>3, <2>1, <2>2, FreeBlocksAre
<1>6. ASSUME word[list[k]] = Null, NEW x \in FreeBlocks
      PROVE  x \in FreeBlocks' \/ x = <<list[k], k>>
  <2>1. PICK j \in 0 .. MaxK : \E b \in Listed(j) : x = <<b, j>>  BY <1>6, FreeBlocksAre
  <2>2. Listed(k) = {list[k]}  BY <1>1, <1>6, ReachedOne DEF Listed
  <2> QED BY <1>3, <2>1, <2>2, FreeBlocksAre
<1> QED BY <1>4, <1>5, <1>6

\* Memory that somebody holds is not on a list.
LEMMA NotListed ==
  ASSUME FreeTypeOK, HeldInPlace, HeldApart, NEW h \in Holder, h # Lists,
         NEW x \in Has(h), NEW p \in Span(x[1], x[2]), NEW j \in 0 .. MaxK
  PROVE  p \notin Listed(j)
<1> SUFFICES ASSUME p \in Listed(j) PROVE FALSE
  OBVIOUS
<1>1. <<p, j>> \in Has(Lists) /\ Lists \in Holder
  BY FreeBlocksAre, HasWhat, Holders
<1>2. Apart(x[1], x[2], p, j)
  <2>1. <<p, j>>[1] = p /\ <<p, j>>[2] = j  OBVIOUS
  <2> QED BY <1>1, <2>1 DEF HeldApart
<1>3. InPlace(x[1], x[2])  BY DEF HeldInPlace
<1>4. Size[x[2]] \in Nat /\ Size[j] \in Nat /\ Size[j] > 0 /\ x[1] \in Nat /\ p \in Nat
  BY <1>3, SizeFacts, ListedPages DEF InPlace, Page
<1> QED BY <1>2, <1>4 DEF Apart, Span

LEMMA FirstPage ==
  ASSUME NEW x, InPlace(x[1], x[2])
  PROVE  x[1] \in Page /\ x[2] \in 0 .. MaxK /\ x[1] \in Span(x[1], x[2])
  BY SizeFacts DEF InPlace, Span, Page

\* Nobody gets what nobody had.
LEMMA NothingNew ==
  ASSUME HeldInPlace, HeldApart, \A g \in Holder : Has(g)' \subseteq Has(g)
  PROVE  HeldInPlace' /\ HeldApart'
<1>1. HeldInPlace'  BY DEF HeldInPlace, InPlace
<1>2. HeldApart'  BY DEF HeldApart, Apart
<1> QED BY <1>1, <1>2

\* A block changes hands.
LEMMA Handover ==
  ASSUME HeldInPlace, HeldApart, NEW h \in Holder, NEW i \in Holder, NEW x \in Has(h),
         \A g \in Holder : \A y \in Has(g)' :
           (y \in Has(g) /\ ~ (g = h /\ y = x)) \/ (g = i /\ y = x)
  PROVE  HeldInPlace' /\ HeldApart'
<1>1. HeldInPlace'  BY DEF HeldInPlace, InPlace
<1>2. ASSUME NEW f \in Holder, NEW g \in Holder, NEW y \in Has(f)', NEW z \in Has(g)'
      PROVE  (f = g /\ y = z) \/ Apart(y[1], y[2], z[1], z[2])
  <2>1. CASE y \in Has(f) /\ z \in Has(g)  BY <2>1 DEF HeldApart
  <2>2. CASE y \in Has(f) /\ ~ (f = h /\ y = x) /\ g = i /\ z = x
    BY <2>2 DEF HeldApart
  <2>3. CASE z \in Has(g) /\ ~ (g = h /\ z = x) /\ f = i /\ y = x
    BY <2>3 DEF HeldApart
  <2>4. CASE f = i /\ y = x /\ g = i /\ z = x  BY <2>4
  <2> QED BY <2>1, <2>2, <2>3, <2>4
<1>3. HeldApart'  BY <1>2 DEF HeldApart, Apart
<1> QED BY <1>1, <1>3

\* What is held stays held.
LEMMA KeepsCover ==
  ASSUME HeldCovers, dropped => dropped',
         dropped' \/ \A g \in Holder : \A y \in Has(g) : \E f \in Holder : y \in Has(f)'
  PROVE  HeldCovers'
  BY DEF HeldCovers, Span

\* Nothing changes hands.
LEMMA AllKept ==
  ASSUME HeldInPlace, HeldApart, HeldCovers, \A g \in Holder : Has(g)' = Has(g), dropped => dropped'
  PROVE  HeldInPlace' /\ HeldApart' /\ HeldCovers'
  BY NothingNew, KeepsCover

LEMMA Inner ==
  ASSUME NEW x, NEW y, NEW z, InPlace(x[1], x[2]), InPlace(y[1], y[2]), InPlace(z[1], z[2]),
         x[1] <= y[1], y[1] + Size[y[2]] <= x[1] + Size[x[2]],
         Apart(x[1], x[2], z[1], z[2]) \/ Apart(z[1], z[2], x[1], x[2])
  PROVE  Apart(y[1], y[2], z[1], z[2]) /\ Apart(z[1], z[2], y[1], y[2])
<1>1. /\ x[1] \in Nat /\ y[1] \in Nat /\ z[1] \in Nat
      /\ Size[x[2]] \in Nat /\ Size[y[2]] \in Nat /\ Size[z[2]] \in Nat
  BY SizeFacts DEF InPlace, Page
<1> QED BY <1>1 DEF Apart

\* A block is divided, and its upper half handed to another.
LEMMA Divided ==
  ASSUME HeldInPlace, HeldApart, HeldCovers, NEW h \in Holder, NEW i \in Holder, h # i,
         NEW b, NEW k \in 1 .. MaxK, Has(h) = {<<b, k>>},
         Has(h)' = {<<b, k - 1>>},
         Has(i)' = Has(i) \cup {<<b + Size[k - 1], k - 1>>},
         \A g \in Holder : g \notin {h, i} => Has(g)' = Has(g),
         dropped' = dropped
  PROVE  HeldInPlace' /\ HeldApart' /\ HeldCovers'
<1> DEFINE x == <<b, k>>
           y == <<b, k - 1>>
           z == <<b + Size[k - 1], k - 1>>
<1>1. x \in Has(h) /\ InPlace(b, k)
  <2>1. <<b, k>> \in Has(h) /\ <<b, k>>[1] = b /\ <<b, k>>[2] = k  OBVIOUS
  <2> QED BY <2>1 DEF HeldInPlace
<1>2. InPlace(b, k - 1) /\ InPlace(b + Size[k - 1], k - 1) /\ Size[k] = 2 * Size[k - 1]
  BY <1>1, Halves
<1>3. b \in Nat /\ Size[k - 1] \in Nat /\ Size[k] \in Nat
  BY <1>1, <1>2, SizeFacts DEF InPlace, Page
<1>4. InPlace(x[1], x[2]) /\ InPlace(y[1], y[2]) /\ InPlace(z[1], z[2])
  BY <1>1, <1>2
<1>5. /\ x[1] <= y[1] /\ y[1] + Size[y[2]] <= x[1] + Size[x[2]]
      /\ x[1] <= z[1] /\ z[1] + Size[z[2]] <= x[1] + Size[x[2]]
      /\ Apart(y[1], y[2], z[1], z[2]) /\ Apart(z[1], z[2], y[1], y[2])
      /\ Span(b, k) = Span(y[1], y[2]) \cup Span(z[1], z[2])
  BY <1>2, <1>3 DEF Apart, Span
<1>6. \A g \in Holder : \A w \in Has(g)' :
        \/ w \in Has(g) /\ w # x /\ g # h
        \/ g = h /\ w = y
        \/ g = i /\ w = z
  <2>1. ASSUME NEW g \in Holder, NEW w \in Has(g), w = x, g # h PROVE FALSE
    <3>1. Apart(x[1], x[2], x[1], x[2])  BY <1>1, <2>1 DEF HeldApart
    <3>2. Size[k] > 0  BY SizeFacts
    <3> QED BY <1>3, <3>1, <3>2 DEF Apart
  <2> QED BY <2>1
<1>7. ASSUME NEW g \in Holder, NEW w \in Has(g), g # h
      PROVE  /\ InPlace(w[1], w[2])
             /\ Apart(y[1], y[2], w[1], w[2]) /\ Apart(w[1], w[2], y[1], y[2])
             /\ Apart(z[1], z[2], w[1], w[2]) /\ Apart(w[1], w[2], z[1], z[2])
  <2>1. InPlace(w[1], w[2])  BY DEF HeldInPlace
  <2>2. Apart(x[1], x[2], w[1], w[2])  BY <1>1, <1>7 DEF HeldApart
  <2> HIDE DEF x, y, z
  <2> QED BY <2>1, <2>2, <1>4, <1>5, Inner
<1> HIDE DEF x, y, z
<1>8. HeldInPlace'
  BY <1>4, <1>6, <1>7 DEF HeldInPlace, InPlace
<1>9. ASSUME NEW f \in Holder, NEW g \in Holder, NEW v \in Has(f)', NEW w \in Has(g)'
      PROVE  (f = g /\ v = w) \/ Apart(v[1], v[2], w[1], w[2])
  <2>1. CASE v \in Has(f) /\ w \in Has(g)  BY <2>1 DEF HeldApart
  <2> QED BY <2>1, <1>5, <1>6, <1>7
<1>10. HeldApart'
  BY <1>9 DEF HeldApart, Apart
<1>11. ASSUME ~ dropped', NEW p \in Page
       PROVE  \E g \in Holder : \E w \in Has(g)' : p \in Span(w[1], w[2])
  <2>1. PICK g \in Holder : \E w \in Has(g) : p \in Span(w[1], w[2])  BY <1>11 DEF HeldCovers
  <2>2. PICK w \in Has(g) : p \in Span(w[1], w[2])  BY <2>1
  <2>3. CASE g # h  BY <2>2, <2>3
  <2>4. CASE g = h
    <3>1. p \in Span(b, k)  BY <2>2, <2>4
    <3>2. y \in Has(h)' /\ z \in Has(i)'  BY DEF y, z
    <3> QED BY <1>5, <3>1, <3>2
  <2> QED BY <2>3, <2>4
<1>12. HeldCovers'
  BY <1>11 DEF HeldCovers, Span
<1> QED BY <1>8, <1>10, <1>12

-----------------------------------------------------------------------------
(***************************************************************************)
(* Steps                                                                   *)
(***************************************************************************)
\* A sequence of one element.
LEMMA OneElement ==
  ASSUME NEW S, NEW s \in Seq(S), Len(s) = 1
  PROVE  s[1] \in S /\ ToSet(s) = {s[1]} /\ Last(s) = s[1] /\ Front(s) = <<>>
<1>1. DOMAIN s = {1}  OBVIOUS
<1>2. Front(s) = <<>>  BY DEF Front
<1> QED BY <1>1, <1>2 DEF ToSet, Last

\* What a processor has, by where it is.
LEMMA Hands ==
  ASSUME FreeTypeOK, OneFrame, NEW c \in CPU
  PROVE  /\ pc[c] = "split" => Hand(c) = {<<block[c], ord[c]>>}
         /\ pc[c] \in {"idle", "lock", "search"} => Hand(c) = {}
         /\ frames[c] = <<>> /\ pc[c] # "split" => Hand(c) = {}
         /\ frames[c] # <<>> =>
              /\ Len(frames[c]) = 1 /\ Hand(c) = {frames[c][1]} /\ frames[c][1] \in Page \X (0 .. MaxK)
              /\ Last(frames[c]) = frames[c][1] /\ Front(frames[c]) = <<>>
         /\ pc[c] \in {"free", "coalesce", "find"} => frames[c] # <<>>
<1>1. /\ frames[c] \in Seq(Page \X (0 .. MaxK))
      /\ pc[c] \in {"idle", "lock", "search", "split", "free", "coalesce", "find", "put"}
  BY DEF FreeTypeOK
<1>2. ToSet(<<>>) = {}  BY DEF ToSet
<1>3. ASSUME frames[c] # <<>>
      PROVE  Len(frames[c]) = 1 /\ pc[c] # "split"
  <2>1. pc[c] \in {"free", "coalesce", "find", "put"}
    BY <1>1, <1>3 DEF OneFrame
  <2>2. Len(frames[c]) <= 1
    BY <1>1, <2>1 DEF OneFrame
  <2>3. Len(frames[c]) \in Nat /\ Len(frames[c]) # 0
    BY <1>1, <1>3
  <2>4. pc[c] # "split"  BY <2>1
  <2>5. \A n \in Nat : n <= 1 /\ n # 0 => n = 1  OBVIOUS
  <2> QED BY <2>2, <2>3, <2>4, <2>5
<1>4. ASSUME frames[c] # <<>>
      PROVE  /\ Len(frames[c]) = 1 /\ Hand(c) = {frames[c][1]}
             /\ frames[c][1] \in Page \X (0 .. MaxK)
             /\ Last(frames[c]) = frames[c][1] /\ Front(frames[c]) = <<>>
  BY <1>1, <1>3, <1>4, OneElement DEF Hand
<1>5. pc[c] \in {"free", "coalesce", "find"} => frames[c] # <<>>
  <2>1. Len(<<>>) = 0  OBVIOUS
  <2> QED BY <1>1, <2>1 DEF OneFrame
<1>6. pc[c] \in {"idle", "lock", "search"} => Hand(c) = {}
  BY <1>2 DEF Hand, OneFrame
<1>7. frames[c] = <<>> /\ pc[c] # "split" => Hand(c) = {}
  BY <1>2 DEF Hand
<1> QED BY <1>4, <1>5, <1>6, <1>7 DEF Hand

\* The type invariant is inductive as long as nothing is merged.
LEMMA FreeTypeStep ==
  ASSUME FreeTypeOK, HeadWorks, OneFrame, HeldInPlace, ~ merged', [FreeNext]_allVars
  PROVE  FreeTypeOK'
<1> USE DEF FreeTypeOK
<1>1. ASSUME NEW c \in CPU, Call(c), UNCHANGED freeVars
      PROVE  FreeTypeOK'
  BY <1>1 DEF Call, freeVars
<1>2. ASSUME NEW c \in CPU, Acquire(c), UNCHANGED freeVars
      PROVE  FreeTypeOK'
  <2>1. OrderOf(size[c]) \in Nat
    BY RequestAssumption DEF RequestAssumption
  <2> QED BY <1>2, <2>1 DEF Acquire, freeVars
<1>3. ASSUME NEW c \in CPU, SearchOn(c), UNCHANGED freeVars
      PROVE  FreeTypeOK'
  BY <1>3 DEF SearchOn, freeVars
<1>4. ASSUME NEW c \in CPU, Found(c), dropped' = (dropped \/ word[list[ord[c]]] # Null),
             UNCHANGED <<frames, element, merged>>
      PROVE  FreeTypeOK'
  BY <1>4 DEF Found, RemoveHead
<1>5. ASSUME NEW c \in CPU, Return(c), queue # <<>>, list' = list,
             word' \in [Page -> Page \cup {Null}],
             allocated' \subseteq Page \X (0 .. MaxK), element' \in [CPU -> Page \cup {Null}],
             UNCHANGED <<frames, merged, dropped>>
      PROVE  FreeTypeOK'
  BY <1>5 DEF Return
<1>6. ASSUME NEW c \in CPU, Split(c), UNCHANGED freeVars
      PROVE  FreeTypeOK'
  <2>1. /\ ord[c] - 1 \in 0 .. MaxK
        /\ BuddyOf(block[c], ord[c] - 1) \in Page
    <3>1. InPlace(block[c], ord[c]) /\ ord[c] > 0
      <4>1. <<block[c], ord[c]>> \in Has(Cpu(c)) /\ Cpu(c) \in Holder
        BY <1>6, Hands, HasWhat, Holders DEF Split
      <4>2. InPlace(block[c], ord[c])
        BY <4>1 DEF HeldInPlace
      <4>3. OrderOf(size[c]) \in Nat
        BY RequestAssumption DEF RequestAssumption
      <4> QED BY <1>6, <4>2, <4>3 DEF Split
    <3>2. ord[c] \in 1 .. MaxK  BY <3>1, SizeFacts DEF InPlace
    <3>3. /\ BuddyOf(block[c], ord[c] - 1) = block[c] + Size[ord[c] - 1]
          /\ InPlace(block[c] + Size[ord[c] - 1], ord[c] - 1)
      BY <3>1, <3>2, Halves
    <3> QED BY <3>3 DEF InPlace
  <2>2. list' \in [0 .. MaxK -> Page \cup {Null}] /\ word' \in [Page -> Page \cup {Null}]
    BY <1>6, <2>1 DEF Split, Add
  <2>3. ord' \in [CPU -> Nat]
    BY <1>6, <2>1 DEF Split
  <2> QED BY <1>6, <2>2, <2>3 DEF Split, freeVars
<1>7. ASSUME NEW c \in CPU, Finish(c), UNCHANGED freeVars
      PROVE  FreeTypeOK'
  <2>1. /\ block[c] \in Page /\ ord[c] \in 0 .. MaxK
        /\ queue # <<>>
    <3>1. <<block[c], ord[c]>> \in Has(Cpu(c)) /\ Cpu(c) \in Holder
      BY <1>7, Hands, HasWhat, Holders DEF Finish
    <3> QED BY <1>7, <3>1 DEF HeldInPlace, InPlace, Finish, HeadWorks, Working, HasLock
  <2>2. allocated' \subseteq Page \X (0 .. MaxK) /\ word' \in [Page -> Page \cup {Null}]
    BY <1>7, <2>1 DEF Finish
  <2> QED BY <1>5, <1>7, <2>1, <2>2 DEF Finish, freeVars
<1>8. ASSUME NEW c \in CPU, Fail(c), UNCHANGED freeVars
      PROVE  FreeTypeOK'
  BY <1>5, <1>8 DEF Fail, freeVars, HeadWorks, Working, HasLock
<1>9. ASSUME OwnerStep
      PROVE  FreeTypeOK'
  <2>1. PICK p, v : v \in Junk /\ word' = [word EXCEPT ![p] = v]
    BY <1>9 DEF OwnerStep, Write
  <2>2. word' \in [Page -> Page \cup {Null}]
    BY <2>1, NullAssumption DEF NullAssumption
  <2> QED BY <1>9, <2>2 DEF OwnerStep, Write, freeVars
<1>10. ASSUME NEW c \in CPU, CallFree(c)
       PROVE  FreeTypeOK'
  <2>1. PICK x \in allocated : allocated' = allocated \ {x} /\ frames' = [frames EXCEPT ![c] = <<x>>]
    BY <1>10 DEF CallFree
  <2>2. <<x>> \in Seq(Page \X (0 .. MaxK))
    OBVIOUS
  <2>3. frames' \in [CPU -> Seq(Page \X (0 .. MaxK))] /\ allocated' \subseteq Page \X (0 .. MaxK)
    BY <2>1, <2>2
  <2> QED BY <1>10, <2>3 DEF CallFree
<1>11. ASSUME NEW c \in CPU, frames[c] # <<>>, Front(frames[c]) = <<>>,
              Add(Last(frames[c])[1], Last(frames[c])[2])
       PROVE  list' \in [0 .. MaxK -> Page \cup {Null}] /\ word' \in [Page -> Page \cup {Null}]
  <2>1. Last(frames[c])[1] \in Page /\ Last(frames[c])[2] \in 0 .. MaxK
    BY <1>11, Hands
  <2> QED BY <1>11, <2>1 DEF Add
<1>12. ASSUME NEW c \in CPU, FreeWhole(c)
       PROVE  FreeTypeOK'
  <2>1. list' \in [0 .. MaxK -> Page \cup {Null}] /\ word' \in [Page -> Page \cup {Null}]
    BY <1>11, <1>12, Hands DEF FreeWhole
  <2>2. queue' \in Seq(CPU \cup {Null})
    BY <1>12 DEF FreeWhole, HasLock
  <2>3. frames' \in [CPU -> Seq(Page \X (0 .. MaxK))]
    BY <1>12 DEF FreeWhole
  <2> QED BY <1>12, <2>1, <2>2, <2>3 DEF FreeWhole
<1>13. ASSUME NEW c \in CPU, PutBack(c)
       PROVE  FreeTypeOK'
  <2>1. /\ list' \in [0 .. MaxK -> Page \cup {Null}] /\ word' \in [Page -> Page \cup {Null}]
        /\ frames' = [frames EXCEPT ![c] = <<>>]
    BY <1>11, <1>13, Hands DEF PutBack
  <2>2. frames' \in [CPU -> Seq(Page \X (0 .. MaxK))]
    BY <2>1
  <2> QED BY <1>13, <2>1, <2>2 DEF PutBack
<1>14. ASSUME NEW c \in CPU, Coalesce(c)
       PROVE  FreeTypeOK'
  <2>1. Last(frames[c])[2] \in 0 .. MaxK
    BY <1>14, Hands DEF Coalesce
  <2> QED BY <1>14, <2>1 DEF Coalesce
<1>15. ASSUME NEW c \in CPU, FindNext(c)
       PROVE  FreeTypeOK'
  <2>1. element[c] \in Page  BY <1>15 DEF FindNext
  <2> QED BY <1>15, <2>1 DEF FindNext
<1>16. ASSUME NEW c \in CPU, FreePart(c) \/ NotFound(c)
       PROVE  FreeTypeOK'
  BY <1>16 DEF FreePart, NotFound, freeVars
<1>17. ASSUME NEW c \in CPU, Freed(c)
       PROVE  FreeTypeOK'
  BY <1>5, <1>17 DEF Freed, HeadWorks, Working, HasLock
<1>18. ASSUME NEW c \in CPU, CoalesceTop(c)
       PROVE  FALSE
  BY <1>18, Hands DEF CoalesceTop, OneFrame
<1>19. ASSUME NEW c \in CPU, Merge(c)
       PROVE  FALSE
  BY <1>19 DEF Merge
<1>20. CASE UNCHANGED allVars
  BY <1>20 DEF allVars, vars, freeVars
<1>21. ASSUME NEW c \in CPU, AllocStep(c)
       PROVE  FreeTypeOK'
  BY <1>1, <1>2, <1>3, <1>4, <1>6, <1>7, <1>8, <1>21 DEF AllocStep
<1>22. ASSUME NEW c \in CPU, FreeStep(c)
       PROVE  FreeTypeOK'
  BY <1>12, <1>13, <1>14, <1>15, <1>16, <1>17, <1>18, <1>19, <1>22 DEF FreeStep
<1> QED BY <1>9, <1>10, <1>20, <1>21, <1>22 DEF FreeNext

\* Who is past the lock is its holder: a release by the holder, or its
\* leaving the lock to nobody, finds no other past it.
LEMMA HeadStep ==
  ASSUME FreeTypeOK, HeadWorks, ~ merged', [FreeNext]_allVars
  PROVE  HeadWorks'
<1> USE DEF FreeTypeOK, HeadWorks, Working, HasLock
<1>1. ASSUME NEW c \in CPU, queue' = Append(queue, c), pc[c] \notin {"search", "split", "coalesce", "find", "put"},
             pc' = [pc EXCEPT ![c] = "lock"] \/ pc' = [pc EXCEPT ![c] = "free"]
      PROVE  HeadWorks'
  <2>1. ASSUME NEW d \in CPU, Working(d)' PROVE HasLock(d)'
    <3>1. pc[d] \in {"search", "split", "coalesce", "find", "put"}
      BY <1>1, <2>1
    <3>2. queue # <<>> /\ Head(queue) = d  BY <3>1
    <3>3. queue' # <<>> /\ queue'[1] = queue[1] /\ Head(queue') = queue'[1] /\ Head(queue) = queue[1]
      BY <1>1, <3>2
    <3> QED BY <3>2, <3>3
  <2> QED BY <2>1
<1>2. ASSUME NEW c \in CPU, HasLock(c), pc' = [pc EXCEPT ![c] = "idle"]
      PROVE  HeadWorks'
  BY <1>2
<1>3. ASSUME NEW c \in CPU, HasLock(c), queue' = queue, \A d \in CPU : d # c => pc'[d] = pc[d]
      PROVE  HeadWorks'
  BY <1>3
<1>4. ASSUME NEW c \in CPU, AllocStep(c)
      PROVE  HeadWorks'
  <2>1. CASE Call(c)  BY <1>1, <2>1 DEF Call
  <2>2. CASE Acquire(c)  BY <1>3, <2>2 DEF Acquire
  <2>3. CASE SearchOn(c)  BY <1>3, <2>3 DEF SearchOn
  <2>4. CASE Found(c)  BY <1>3, <2>4 DEF Found
  <2>5. CASE Fail(c)  BY <1>2, <2>5 DEF Fail, Return
  <2>6. CASE Split(c)  BY <1>3, <2>6 DEF Split
  <2>7. CASE Finish(c)  BY <1>2, <2>7 DEF Finish, Return
  <2> QED BY <1>4, <2>1, <2>2, <2>3, <2>4, <2>5, <2>6, <2>7 DEF AllocStep
<1>5. ASSUME NEW c \in CPU, FreeStep(c)
      PROVE  HeadWorks'
  <2>1. CASE FreeWhole(c)  BY <1>2, <2>1 DEF FreeWhole
  <2>2. CASE FreePart(c)  BY <1>3, <2>2 DEF FreePart
  <2>3. CASE CoalesceTop(c)  BY <1>3, <2>3 DEF CoalesceTop
  <2>4. CASE Coalesce(c)  BY <1>3, <2>4 DEF Coalesce
  <2>5. CASE FindNext(c)  BY <1>3, <2>5 DEF FindNext
  <2>6. CASE NotFound(c)  BY <1>3, <2>6 DEF NotFound
  <2>7. CASE Merge(c)  BY <2>7 DEF Merge
  <2>8. CASE PutBack(c)  BY <1>3, <2>8 DEF PutBack
  <2>9. CASE Freed(c)  BY <1>2, <2>9 DEF Freed, Return
  <2> QED BY <1>5, <2>1, <2>2, <2>3, <2>4, <2>5, <2>6, <2>7, <2>8, <2>9 DEF FreeStep
<1>6. ASSUME NEW c \in CPU, CallFree(c)
      PROVE  HeadWorks'
  BY <1>1, <1>6 DEF CallFree
<1>7. CASE OwnerStep \/ UNCHANGED allVars
  BY <1>7 DEF OwnerStep, Write, allVars, vars
<1> QED BY <1>4, <1>5, <1>6, <1>7 DEF FreeNext

\* Without a merge coalesce() does not call itself.
LEMMA FrameStep ==
  ASSUME FreeTypeOK, OneFrame, ~ merged', [FreeNext]_allVars
  PROVE  OneFrame'
<1> DEFINE Frame(d) == /\ pc[d] \in {"free", "coalesce", "find"} => Len(frames[d]) = 1
                       /\ pc[d] \in {"coalesce", "find"} => frames[d][1][2] < MaxK
                       /\ pc[d] = "put" => Len(frames[d]) <= 1
                       /\ pc[d] \in {"idle", "lock", "search", "split"} => frames[d] = <<>>
<1> USE DEF FreeTypeOK
<1>1. \A d \in CPU : Frame(d)  BY DEF OneFrame
<1> SUFFICES \A d \in CPU : Frame(d)'  BY DEF OneFrame
<1>2. ASSUME NEW c \in CPU, Frame(c)', \A d \in CPU : d # c => pc'[d] = pc[d] /\ frames'[d] = frames[d]
      PROVE  \A d \in CPU : Frame(d)'
  BY <1>1, <1>2
<1>3. ASSUME NEW c \in CPU, AllocStep(c)
      PROVE  \A d \in CPU : Frame(d)'
  <2> SUFFICES /\ Frame(c)'
               /\ \A d \in CPU : d # c => pc'[d] = pc[d] /\ frames'[d] = frames[d]
    BY <1>2
  <2> USE <1>1 DEF freeVars
  <2>1. CASE Call(c)  BY <1>3, <2>1 DEF AllocStep, Call, Acquire, SearchOn, Fail, Split, Finish, Found
  <2>2. CASE Acquire(c)  BY <1>3, <2>2 DEF AllocStep, Call, Acquire, SearchOn, Fail, Split, Finish, Found
  <2>3. CASE SearchOn(c)  BY <1>3, <2>3 DEF AllocStep, Call, Acquire, SearchOn, Fail, Split, Finish, Found
  <2>4. CASE Found(c)  BY <1>3, <2>4 DEF AllocStep, Call, Acquire, SearchOn, Fail, Split, Finish, Found
  <2>5. CASE Fail(c)  BY <1>3, <2>5 DEF AllocStep, Return, Call, Acquire, SearchOn, Fail, Split, Finish, Found
  <2>6. CASE Split(c)  BY <1>3, <2>6 DEF AllocStep, Call, Acquire, SearchOn, Fail, Split, Finish, Found
  <2>7. CASE Finish(c)  BY <1>3, <2>7 DEF AllocStep, Return, Call, Acquire, SearchOn, Fail, Split, Finish, Found
  <2> QED BY <1>3, <2>1, <2>2, <2>3, <2>4, <2>5, <2>6, <2>7 DEF AllocStep
<1>4. ASSUME NEW c \in CPU, FreeStep(c)
      PROVE  \A d \in CPU : Frame(d)'
  <2> SUFFICES /\ Frame(c)'
               /\ \A d \in CPU : d # c => pc'[d] = pc[d] /\ frames'[d] = frames[d]
    BY <1>2
  <2> USE <1>1 DEF freeVars
  <2>1. CASE FreeWhole(c)  BY <2>1 DEF FreeWhole
  <2>2. CASE FreePart(c)
    <3>1. Last(frames[c]) = frames[c][1]  BY <2>2, Hands DEF FreePart
    <3> QED BY <2>2, <3>1 DEF FreePart
  <2>3. CASE CoalesceTop(c)
    <3>1. Last(frames[c]) = frames[c][1]  BY <2>3, Hands DEF CoalesceTop
    <3> QED BY <2>3, <3>1 DEF CoalesceTop
  <2>4. CASE Coalesce(c)  BY <2>4 DEF Coalesce
  <2>5. CASE FindNext(c)  BY <2>5 DEF FindNext
  <2>6. CASE NotFound(c)
    <3>1. pc' = [pc EXCEPT ![c] = "put"] /\ frames' = frames /\ Len(frames[c]) = 1
      BY <2>6 DEF NotFound
    <3> QED BY <3>1
  <2>7. CASE Merge(c)  BY <2>7 DEF Merge
  <2>8. CASE PutBack(c)
    <3>1. frames' = [frames EXCEPT ![c] = <<>>]  BY <2>8, Hands DEF PutBack
    <3> QED BY <2>8, <3>1 DEF PutBack
  <2>9. CASE Freed(c)
    <3>1. /\ pc' = [pc EXCEPT ![c] = "idle"] /\ frames' = frames /\ frames[c] = <<>>
      BY <2>9 DEF Freed, Return
    <3> QED BY <3>1
  <2> QED BY <1>4, <2>1, <2>2, <2>3, <2>4, <2>5, <2>6, <2>7, <2>8, <2>9 DEF FreeStep
<1>5. ASSUME NEW c \in CPU, CallFree(c)
      PROVE  \A d \in CPU : Frame(d)'
  <2>1. PICK x \in allocated : frames' = [frames EXCEPT ![c] = <<x>>]  BY <1>5 DEF CallFree
  <2>2. Frame(c)'  BY <1>5, <2>1 DEF CallFree
  <2> QED BY <1>2, <1>5, <2>1, <2>2 DEF CallFree
<1>6. CASE OwnerStep \/ UNCHANGED allVars
  BY <1>1, <1>6 DEF OwnerStep, Write, allVars, vars, freeVars
<1> QED BY <1>3, <1>4, <1>5, <1>6 DEF FreeNext

\* Where the processors' blocks do not change, neither does what they have.
LEMMA HasSame ==
  ASSUME FreeTypeOK, allocated' = allocated, FreeBlocks' = FreeBlocks, \A c \in CPU : Hand(c)' = Hand(c)
  PROVE  \A g \in Holder : Has(g)' = Has(g)
  BY HasWhat, Holders

\* Another processor keeps what it has.
LEMMA OtherHands ==
  ASSUME NEW c \in CPU, FreeTypeOK,
         \A d \in CPU : d # c => /\ pc'[d] = pc[d] /\ frames'[d] = frames[d]
                                 /\ block'[d] = block[d] /\ ord'[d] = ord[d]
  PROVE  \A d \in CPU : d # c => Hand(d)' = Hand(d)
  BY SMTT(30) DEF Hand, ToSet

Held == HeldInPlace /\ HeldApart /\ HeldCovers

\* Steps in which nothing changes hands.
LEMMA QuietHeld ==
  ASSUME FreeTypeOK, OneFrame, OneFrame', FreeTypeOK', Held, NEW c \in CPU,
         \/ Call(c) /\ UNCHANGED freeVars
         \/ Acquire(c) /\ UNCHANGED freeVars
         \/ SearchOn(c) /\ UNCHANGED freeVars
         \/ Fail(c) /\ UNCHANGED freeVars
         \/ FreePart(c) \/ Coalesce(c) \/ FindNext(c) \/ NotFound(c) \/ Freed(c)
  PROVE  Held'
<1>1. /\ allocated' = allocated /\ list' = list /\ word' = word /\ frames' = frames
      /\ dropped' = dropped /\ pc[c] # "split" /\ pc'[c] # "split"
      /\ \A d \in CPU : d # c => pc'[d] = pc[d] /\ block'[d] = block[d] /\ ord'[d] = ord[d]
  BY DEF Call, Acquire, SearchOn, Fail, FreePart, Coalesce, FindNext, NotFound, Freed, Return,
         freeVars, FreeTypeOK
<1>2. FreeBlocks' = FreeBlocks
  BY <1>1 DEF FreeBlocks, Listed
<1>3. \A d \in CPU : Hand(d)' = Hand(d)
  BY <1>1 DEF Hand
<1>4. \A g \in Holder : Has(g)' = Has(g)
  BY <1>1, <1>2, <1>3, HasSame
<1> QED BY <1>1, <1>4, AllKept DEF Held

\* Whoever changes hands, all others keep what they have.
LEMMA HandOver ==
  ASSUME Held, NEW h \in Holder, NEW i \in Holder, h # i, NEW x \in Has(h),
         Has(h)' = Has(h) \ {x}, Has(i)' = Has(i) \cup {x},
         \A g \in Holder : g \notin {h, i} => Has(g)' = Has(g),
         dropped' = dropped
  PROVE  Held'
<1>1. \A g \in Holder : \A y \in Has(g)' :
        (y \in Has(g) /\ ~ (g = h /\ y = x)) \/ (g = i /\ y = x)
  OBVIOUS
<1>2. \A g \in Holder : \A y \in Has(g) : \E f \in Holder : y \in Has(f)'
  OBVIOUS
<1> QED BY <1>1, <1>2, Handover, KeepsCover DEF Held

\* A listed block goes to the processor that takes it off its list.
LEMMA FoundHeld ==
  ASSUME FreeTypeOK, OneFrame, OneFrame', FreeTypeOK', Held, NEW c \in CPU, Found(c),
         dropped' = (dropped \/ word[list[ord[c]]] # Null), UNCHANGED <<frames, element, merged>>
  PROVE  Held'
<1>0. PICK x : x = <<list[ord[c]], ord[c]>>
  OBVIOUS
<1>1. /\ ord[c] \in 0 .. MaxK /\ list[ord[c]] # Null /\ RemoveHead(ord[c])
      /\ word' = word /\ allocated' = allocated /\ pc[c] = "search" /\ pc'[c] = "split"
      /\ block'[c] = list[ord[c]] /\ ord' = ord
      /\ \A d \in CPU : d # c => pc'[d] = pc[d] /\ block'[d] = block[d]
  BY DEF Found, FreeTypeOK
<1>2. /\ x \in FreeBlocks /\ FreeBlocks' \subseteq FreeBlocks \ {x}
      /\ word[list[ord[c]]] = Null => FreeBlocks \subseteq FreeBlocks' \cup {x}
  BY <1>0, <1>1, ListsRemove
<1>3. Hand(c) = {} /\ Hand(c)' = {x} /\ \A d \in CPU : d # c => Hand(d)' = Hand(d)
  <2>1. Hand(c) = {}  BY <1>1, Hands
  <2>2. Hand(c)' = {x}  BY <1>0, <1>1 DEF Hand
  <2>3. \A d \in CPU : d # c => Hand(d)' = Hand(d)  BY <1>1, OtherHands
  <2> QED BY <2>1, <2>2, <2>3
<1>4. /\ Lists \in Holder /\ Cpu(c) \in Holder /\ x \in Has(Lists)
      /\ Has(Cpu(c))' = {x} /\ Has(Lists)' \subseteq Has(Lists) \ {x}
      /\ word[list[ord[c]]] = Null => Has(Lists) \subseteq Has(Lists)' \cup {x}
      /\ \A g \in Holder : g = Lists \/ g = Cpu(c) \/ Has(g)' = Has(g)
      /\ Has(Cpu(c)) = {} /\ Cpu(c) # Lists
  BY <1>1, <1>2, <1>3, HasWhat, Holders
<1>5. \A g \in Holder : \A y \in Has(g)' :
        (y \in Has(g) /\ ~ (g = Lists /\ y = x)) \/ (g = Cpu(c) /\ y = x)
  BY <1>4
<1>6. (dropped => dropped') /\ (dropped' \/ word[list[ord[c]]] = Null)
  BY DEF FreeTypeOK
<1>7. dropped' \/ \A g \in Holder : \A y \in Has(g) : \E f \in Holder : y \in Has(f)'
  BY <1>4, <1>6
<1> QED BY <1>4, <1>5, <1>6, <1>7, Handover, KeepsCover DEF Held

\* Dividing a block gives its upper half to the lists.
LEMMA SplitHeld ==
  ASSUME FreeTypeOK, OneFrame, OneFrame', FreeTypeOK', Held, NEW c \in CPU, Split(c), UNCHANGED freeVars
  PROVE  Held'
<1>1. PICK b, k : b = block[c] /\ k = ord[c]
  OBVIOUS
<1>2. /\ pc[c] = "split" /\ pc'[c] = "split" /\ pc' = pc /\ block' = block /\ frames' = frames
      /\ allocated' = allocated /\ dropped' = dropped /\ block'[c] = b /\ ord'[c] = k - 1
      /\ Add(BuddyOf(b, k - 1), k - 1)
      /\ \A d \in CPU : d # c => ord'[d] = ord[d]
      /\ k > OrderOf(size[c])
  BY <1>1 DEF Split, freeVars, FreeTypeOK
<1>3. Hand(c) = {<<b, k>>} /\ Has(Cpu(c)) = {<<b, k>>} /\ Cpu(c) \in Holder /\ Cpu(c) # Lists
  BY <1>1, <1>2, Hands, HasWhat, Holders
<1>4. InPlace(b, k) /\ k \in 1 .. MaxK
  <2>1. <<b, k>> \in Has(Cpu(c)) /\ <<b, k>>[1] = b /\ <<b, k>>[2] = k  BY <1>3
  <2>2. InPlace(b, k)  BY <1>3, <2>1 DEF Held, HeldInPlace
  <2>3. OrderOf(size[c]) \in Nat
    BY RequestAssumption DEF RequestAssumption, FreeTypeOK
  <2> QED BY <1>2, <2>2, <2>3 DEF InPlace
<1> DEFINE u == b + Size[k - 1]
<1>5. BuddyOf(b, k - 1) = u /\ u \in Page /\ k - 1 \in 0 .. MaxK /\ u \in Span(b, k)
  <2>1. BuddyOf(b, k - 1) = u /\ InPlace(u, k - 1) /\ Size[k] = 2 * Size[k - 1]  BY <1>4, Halves
  <2>2. u \in Page /\ k - 1 \in 0 .. MaxK  BY <2>1 DEF InPlace
  <2>3. b \in Nat /\ Size[k - 1] \in Nat /\ Size[k - 1] > 0
    BY <1>4, <2>2, SizeFacts DEF InPlace, Page
  <2> QED BY <2>1, <2>2, <2>3 DEF Span
<1> HIDE DEF u
<1>6. \A j \in 0 .. MaxK : u \notin Listed(j)
  <2>1. <<b, k>> \in Has(Cpu(c)) /\ <<b, k>>[1] = b /\ <<b, k>>[2] = k  BY <1>3
  <2> QED BY <1>3, <1>5, <2>1, NotListed DEF Held
<1>7. FreeBlocks' = FreeBlocks \cup {<<u, k - 1>>}
  BY <1>2, <1>5, <1>6, ListsAdd
<1>8. Hand(c)' = {<<b, k - 1>>} /\ \A d \in CPU : d # c => Hand(d)' = Hand(d)
  BY <1>2 DEF Hand
<1>9. /\ Lists \in Holder /\ Has(Cpu(c))' = {<<b, k - 1>>}
      /\ Has(Lists)' = Has(Lists) \cup {<<u, k - 1>>}
      /\ \A g \in Holder : g \notin {Cpu(c), Lists} => Has(g)' = Has(g)
  BY <1>2, <1>7, <1>8, HasWhat, Holders
<1> QED BY <1>2, <1>3, <1>4, <1>9, Divided DEF u, Held

\* A block that is handed out is zeroed, no list being disturbed by that.
LEMMA FinishHeld ==
  ASSUME FreeTypeOK, OneFrame, OneFrame', FreeTypeOK', Held, NEW c \in CPU, Finish(c), UNCHANGED freeVars
  PROVE  Held'
<1>1. PICK b, k : b = block[c] /\ k = ord[c]
  OBVIOUS
<1>2. PICK x : x = <<b, k>>
  OBVIOUS
<1>3. /\ pc[c] = "split" /\ pc'[c] = "idle" /\ frames' = frames /\ list' = list
      /\ allocated' = allocated \cup {x} /\ dropped' = dropped
      /\ \A p \in Page : p \notin Span(b, k) => word'[p] = word[p]
      /\ \A d \in CPU : d # c => /\ pc'[d] = pc[d] /\ frames'[d] = frames[d]
                                 /\ block'[d] = block[d] /\ ord'[d] = ord[d]
  <2>1. word' = [p \in Page |-> IF p \in Span(b, k) THEN Null ELSE word[p]]
    BY <1>1 DEF Finish
  <2>2. \A p \in Page : p \notin Span(b, k) => word'[p] = word[p]  BY <2>1
  <2>3. allocated' = allocated \cup {x} /\ list' = list /\ frames' = frames /\ dropped' = dropped
    BY <1>1, <1>2 DEF Finish, freeVars
  <2>4. /\ pc[c] = "split" /\ pc' = [pc EXCEPT ![c] = "idle"]
        /\ ord' = [ord EXCEPT ![c] = 0] /\ block' = [block EXCEPT ![c] = Null]
    BY DEF Finish, Return
  <2>5. pc'[c] = "idle" /\ \A d \in CPU : d # c => /\ pc'[d] = pc[d] /\ block'[d] = block[d] /\ ord'[d] = ord[d]
    BY <2>4 DEF FreeTypeOK
  <2> QED BY <2>2, <2>3, <2>4, <2>5
<1>4. /\ Hand(c) = {x} /\ Hand(c)' = {} /\ Cpu(c) \in Holder /\ Cpu(c) # Lists /\ Cpu(c) # Owner
      /\ Has(Cpu(c)) = {x} /\ Owner \in Holder
  <2>1. Hand(c) = {x} /\ frames[c] = <<>>  BY <1>1, <1>2, <1>3, Hands DEF OneFrame
  <2>2. ToSet(<<>>) = {}  BY DEF ToSet
  <2>3. Hand(c)' = {}  BY <1>3, <2>1, <2>2 DEF Hand
  <2> QED BY <2>1, <2>3, HasWhat, Holders
<1>5. FreeBlocks' = FreeBlocks
  <2>1. ASSUME NEW j \in 0 .. MaxK, NEW p \in Listed(j) PROVE word'[p] = word[p]
    <3>1. p \in Page  BY ListedPages
    <3>2. p \notin Span(b, k)
      BY <1>2, <1>4, NotListed DEF Held
    <3> QED BY <1>3, <3>1, <3>2
  <2>2. word' \in [Page -> Page \cup {Null}]  BY DEF FreeTypeOK
  <2> QED BY <1>3, <2>1, <2>2, ListsSame
<1>6. /\ Has(Cpu(c))' = Has(Cpu(c)) \ {x} /\ Has(Owner)' = Has(Owner) \cup {x}
      /\ \A g \in Holder : g \notin {Cpu(c), Owner} => Has(g)' = Has(g)
  <2>1. \A d \in CPU : d # c => Hand(d)' = Hand(d)  BY <1>3, OtherHands
  <2> QED BY <1>3, <1>4, <1>5, <2>1, HasWhat, Holders
<1> QED BY <1>3, <1>4, <1>6, HandOver

\* Owners store where no link of a list is.
LEMMA WriteHeld ==
  ASSUME FreeTypeOK, FreeTypeOK', Held, OwnerStep
  PROVE  Held'
<1>0. PICK x \in allocated : \E p \in Span(x[1], x[2]), v \in Junk : word' = [word EXCEPT ![p] = v]
  BY DEF OwnerStep, Write
<1>1. PICK p \in Span(x[1], x[2]), v \in Junk : word' = [word EXCEPT ![p] = v]
  BY <1>0
<1>2. /\ allocated' = allocated /\ list' = list /\ dropped' = dropped
      /\ pc' = pc /\ frames' = frames /\ block' = block /\ ord' = ord
  BY DEF OwnerStep, Write, freeVars
<1>3. FreeBlocks' = FreeBlocks
  <2>1. ASSUME NEW j \in 0 .. MaxK, NEW q \in Listed(j) PROVE word'[q] = word[q]
    <3>1. p \notin Listed(j)
      BY <1>1, HasWhat, Holders, NotListed DEF Held
    <3> QED BY <1>1, <2>1, <3>1, ListedPages DEF FreeTypeOK
  <2>2. word' \in [Page -> Page \cup {Null}]  BY DEF FreeTypeOK
  <2> QED BY <1>2, <2>1, <2>2, ListsSame
<1>4. \A c \in CPU : Hand(c)' = Hand(c)
  BY <1>2 DEF Hand
<1> QED BY <1>2, <1>3, <1>4, HasSame, AllKept DEF Held

\* free() takes the block from its owner.
LEMMA CallFreeHeld ==
  ASSUME FreeTypeOK, OneFrame, OneFrame', FreeTypeOK', Held, NEW c \in CPU, CallFree(c)
  PROVE  Held'
<1>1. PICK x \in allocated : allocated' = allocated \ {x} /\ frames' = [frames EXCEPT ![c] = <<x>>]
  BY DEF CallFree
<1>2. /\ pc[c] = "idle" /\ pc' = [pc EXCEPT ![c] = "free"] /\ list' = list /\ word' = word
      /\ block' = block /\ ord' = ord /\ dropped' = dropped
  BY DEF CallFree
<1>3. Hand(c) = {} /\ Hand(c)' = {x}
  <2>1. frames'[c] = <<x>> /\ pc'[c] = "free"  BY <1>1, <1>2 DEF FreeTypeOK
  <2>2. ToSet(<<x>>) = {x}  BY DEF ToSet
  <2> QED BY <1>2, <2>1, <2>2, Hands DEF Hand
<1>4. \A d \in CPU : d # c => Hand(d)' = Hand(d)
  BY <1>1, <1>2, OtherHands DEF FreeTypeOK
<1>5. FreeBlocks' = FreeBlocks
  BY <1>2 DEF FreeBlocks, Listed
<1>6. /\ Owner \in Holder /\ Cpu(c) \in Holder /\ Cpu(c) # Owner /\ x \in Has(Owner)
      /\ Has(Owner)' = Has(Owner) \ {x} /\ Has(Cpu(c))' = Has(Cpu(c)) \cup {x}
      /\ \A g \in Holder : g \notin {Owner, Cpu(c)} => Has(g)' = Has(g)
  BY <1>1, <1>3, <1>4, <1>5, HasWhat, Holders
<1> QED BY <1>2, <1>6, HandOver

\* The end of free() or of coalesce() gives the block to a list.
LEMMA ListHeld ==
  ASSUME FreeTypeOK, OneFrame, OneFrame', FreeTypeOK', Held, NEW c \in CPU,
         FreeWhole(c) \/ PutBack(c)
  PROVE  Held'
<1>1. /\ frames[c] # <<>> /\ pc[c] \in {"free", "put"}
      /\ Add(Last(frames[c])[1], Last(frames[c])[2])
      /\ allocated' = allocated /\ dropped' = dropped /\ pc'[c] # "split"
      /\ frames'[c] = <<>>
      /\ \A d \in CPU : d # c => /\ pc'[d] = pc[d] /\ frames'[d] = frames[d]
                                 /\ block'[d] = block[d] /\ ord'[d] = ord[d]
  <2>1. frames[c] # <<>> /\ Front(frames[c]) = <<>>
    BY Hands DEF FreeWhole, PutBack
  <2>2. CASE FreeWhole(c)
    BY <2>1, <2>2 DEF FreeWhole, FreeTypeOK
  <2>3. CASE PutBack(c)
    BY <2>1, <2>3 DEF PutBack, FreeTypeOK
  <2> QED BY <2>2, <2>3
<1>2. PICK x : x = frames[c][1]
  OBVIOUS
<1>3. /\ Hand(c) = {x} /\ x \in Page \X (0 .. MaxK) /\ x = Last(frames[c])
  BY <1>1, <1>2, Hands
<1>4. /\ Has(Cpu(c)) = {x} /\ Cpu(c) \in Holder /\ Lists \in Holder /\ Cpu(c) # Lists
  BY <1>3, HasWhat, Holders
<1>5. \A j \in 0 .. MaxK : x[1] \notin Listed(j)
  <2>1. InPlace(x[1], x[2])  BY <1>4 DEF Held, HeldInPlace
  <2>2. x[1] \in Span(x[1], x[2])  BY <2>1, FirstPage
  <2> QED BY <1>4, <2>2, NotListed DEF Held
<1>6. FreeBlocks' = FreeBlocks \cup {x}
  <2>1. x[1] \in Page /\ x[2] \in 0 .. MaxK /\ x = <<x[1], x[2]>> /\ Add(x[1], x[2])
    BY <1>1, <1>3
  <2> QED BY <1>5, <2>1, ListsAdd
<1>7. Hand(c)' = {} /\ \A d \in CPU : d # c => Hand(d)' = Hand(d)
  <2>1. ToSet(<<>>) = {}  BY DEF ToSet
  <2>2. Hand(c)' = {}  BY <1>1, <2>1 DEF Hand
  <2> QED BY <1>1, <2>2, OtherHands
<1>8. /\ Has(Cpu(c))' = Has(Cpu(c)) \ {x} /\ Has(Lists)' = Has(Lists) \cup {x}
      /\ \A g \in Holder : g \notin {Cpu(c), Lists} => Has(g)' = Has(g)
  BY <1>1, <1>3, <1>6, <1>7, HasWhat, Holders
<1> QED BY <1>1, <1>4, <1>8, HandOver

\* Blocks only change hands, whole or by halves, as long as nothing is merged.
LEMMA HeldStep ==
  ASSUME FreeTypeOK, HeadWorks, OneFrame, OneFrame', FreeTypeOK', Held, ~ merged', [FreeNext]_allVars
  PROVE  Held'
<1>1. ASSUME NEW c \in CPU, AllocStep(c)
      PROVE  Held'
  <2>1. CASE Found(c) /\ dropped' = (dropped \/ word[list[ord[c]]] # Null)
             /\ UNCHANGED <<frames, element, merged>>
    BY <2>1, FoundHeld
  <2>2. CASE Split(c) /\ UNCHANGED freeVars  BY <2>2, SplitHeld
  <2>3. CASE Finish(c) /\ UNCHANGED freeVars  BY <2>3, FinishHeld
  <2>4. CASE (Call(c) \/ Acquire(c) \/ SearchOn(c) \/ Fail(c)) /\ UNCHANGED freeVars
    BY <2>4, QuietHeld
  <2> QED BY <1>1, <2>1, <2>2, <2>3, <2>4 DEF AllocStep
<1>2. ASSUME NEW c \in CPU, FreeStep(c)
      PROVE  Held'
  <2>1. CASE FreeWhole(c) \/ PutBack(c)  BY <2>1, ListHeld
  <2>2. CASE FreePart(c) \/ Coalesce(c) \/ FindNext(c) \/ NotFound(c) \/ Freed(c)
    BY <2>2, QuietHeld
  <2>3. CASE Merge(c)  BY <2>3 DEF Merge
  <2>4. CASE CoalesceTop(c)  BY <2>4, Hands DEF CoalesceTop, OneFrame
  <2> QED BY <1>2, <2>1, <2>2, <2>3, <2>4 DEF FreeStep
<1>3. CASE UNCHANGED allVars
  <2>1. /\ allocated' = allocated /\ FreeBlocks' = FreeBlocks /\ dropped' = dropped
        /\ \A c \in CPU : Hand(c)' = Hand(c)
    BY <1>3 DEF allVars, vars, freeVars, FreeBlocks, Listed, Hand
  <2> QED BY <2>1, HasSame, AllKept DEF Held
<1> QED BY <1>1, <1>2, <1>3, CallFreeHeld, WriteHeld DEF FreeNext

\* At first the whole region is one listed block.
LEMMA InitFree == FreeInit => FreeIInv
<1> SUFFICES ASSUME FreeInit PROVE FreeIInv
  OBVIOUS
<1> USE DEF FreeInit, Init
<1>1. MaxK \in Nat /\ Size[MaxK] \in Nat /\ Size[MaxK] > 0 /\ 0 \in Page /\ MaxK \in 0 .. MaxK
  BY SizeFacts DEF Page
<1>2. FreeTypeOK
  <2>1. PICK w \in Boot : word = [w EXCEPT ![0] = Null]  OBVIOUS
  <2>2. word \in [Page -> Page \cup {Null}]
    BY <2>1, BootAssumption DEF BootAssumption
  <2>3. list \in [0 .. MaxK -> Page \cup {Null}]  BY <1>1
  <2>4. /\ size \in [CPU -> Sizes \cup {0}] /\ ord \in [CPU -> Nat]
        /\ block \in [CPU -> Page \cup {Null}] /\ element \in [CPU -> Page \cup {Null}]
        /\ pc \in [CPU -> {"idle", "lock", "search", "split", "free", "coalesce", "find", "put"}]
    OBVIOUS
  <2>5. frames \in [CPU -> Seq(Page \X (0 .. MaxK))] /\ queue \in Seq(CPU \cup {Null})
    OBVIOUS
  <2>6. allocated \subseteq Page \X (0 .. MaxK) /\ {merged, dropped} \subseteq BOOLEAN
    OBVIOUS
  <2> QED BY <2>2, <2>3, <2>4, <2>5, <2>6 DEF FreeTypeOK
<1>3. HeadWorks /\ OneFrame
  BY DEF HeadWorks, OneFrame, Working
<1>4. \A c \in CPU : Hand(c) = {}
  BY <1>2, <1>3, Hands
<1>5. FreeBlocks = {<<0, MaxK>>}
  <2>1. word[0] = Null /\ word \in [Page -> Page \cup {Null}]
    BY <1>1, <1>2, BootAssumption DEF BootAssumption, FreeTypeOK
  <2>2. Listed(MaxK) = {0}
    BY <1>1, <2>1, ReachedOne DEF Listed
  <2>3. \A k \in 0 .. MaxK : k # MaxK => Listed(k) = {}
    BY ReachedNone DEF Listed
  <2>4. \A x : x \in FreeBlocks <=> x = <<0, MaxK>>
    BY <1>1, <2>2, <2>3, FreeBlocksAre
  <2> QED BY <2>4
<1>6. \A h \in Holder : \A x \in Has(h) : h = Lists /\ x = <<0, MaxK>>
  BY <1>4, <1>5, HasWhat, Holders
<1>7. InPlace(0, MaxK)
  BY <1>1 DEF InPlace
<1>8. HeldInPlace
  <2>1. <<0, MaxK>>[1] = 0 /\ <<0, MaxK>>[2] = MaxK  OBVIOUS
  <2> QED BY <1>6, <1>7, <2>1 DEF HeldInPlace
<1>9. HeldApart
  BY <1>6 DEF HeldApart
<1>10. HeldCovers
  <2>1. <<0, MaxK>> \in Has(Lists) /\ Lists \in Holder
    BY <1>5, HasWhat, Holders
  <2>2. \A p \in Page : p \in Span(0, MaxK)
    BY <1>1 DEF Span, Page
  <2>3. <<0, MaxK>>[1] = 0 /\ <<0, MaxK>>[2] = MaxK  OBVIOUS
  <2> QED BY <2>1, <2>2, <2>3 DEF HeldCovers
<1> QED BY <1>2, <1>3, <1>8, <1>9, <1>10 DEF FreeIInv

LEMMA StepFree == FreeIInv /\ [FreeNext]_allVars => FreeIInv'
<1> SUFFICES ASSUME FreeIInv, [FreeNext]_allVars, ~ merged' PROVE FreeIInv'
  BY DEF FreeIInv
<1>1. ~ merged
  <2>1. ASSUME merged, NEW c \in CPU, AllocStep(c) PROVE merged'
    BY <2>1 DEF AllocStep, freeVars
  <2>2. ASSUME merged, NEW c \in CPU, FreeStep(c) PROVE merged'
    BY <2>2 DEF FreeStep, FreeWhole, FreePart, CoalesceTop, Coalesce, FindNext, NotFound, Merge,
                PutBack, Freed, freeVars
  <2>3. ASSUME merged, NEW c \in CPU, CallFree(c) PROVE merged'
    BY <2>3 DEF CallFree
  <2> QED BY <2>1, <2>2, <2>3 DEF FreeNext, OwnerStep, allVars, freeVars
<1>2. FreeTypeOK /\ HeadWorks /\ OneFrame /\ Held
  BY <1>1 DEF FreeIInv, Held
<1>3. FreeTypeOK' /\ HeadWorks' /\ OneFrame'
  BY <1>2, FreeTypeStep, HeadStep, FrameStep DEF Held
<1>4. Held'
  BY <1>2, <1>3, HeldStep
<1> QED BY <1>3, <1>4 DEF FreeIInv, Held

-----------------------------------------------------------------------------
(***************************************************************************)
(* Theorems                                                                *)
(***************************************************************************)
\* The inductive invariant of alloc() and free().
THEOREM FreeInvariance == FreeSpec => []FreeIInv
  BY InitFree, StepFree, PTL DEF FreeSpec

\* Blocks are what the holders have.
LEMMA BlocksHeld ==
  ASSUME FreeTypeOK, OneFrame
  PROVE  /\ \A x \in Blocks : \E h \in Holder : x \in Has(h)
         /\ \A h \in Holder : Has(h) \subseteq Blocks
         /\ \A x \in InHand : \E c \in CPU : x \in Has(Cpu(c))
<1>1. \A x \in InHand : \E c \in CPU : x \in Hand(c)
  <2>1. ASSUME NEW c \in CPU, NEW x \in ToSet(frames[c]) PROVE x \in Hand(c)
    BY <2>1, Hands DEF Hand, ToSet, OneFrame
  <2> QED BY <2>1 DEF InHand, Hand
<1>2. \A c \in CPU : Hand(c) \subseteq InHand
  BY DEF Hand, InHand
<1> QED BY <1>1, <1>2, HasWhat, Holders DEF Blocks

\* SharedOnlyAfterMerge: free() and alloc() never let two blocks overlap, or
\* one block have two holders, before coalesce() first merges two buddies.
THEOREM BlocksDisjointUnmerged == FreeSpec => []SharedOnlyAfterMerge
<1>1. FreeIInv => SharedOnlyAfterMerge
  <2> SUFFICES ASSUME FreeIInv, ~ merged PROVE SharedOnlyAfterMerge
    BY DEF SharedOnlyAfterMerge
  <2>1. FreeTypeOK /\ OneFrame /\ HeldInPlace /\ HeldApart  BY DEF FreeIInv
  <2>2. \A x, y \in Blocks : x # y => ~ Overlap(x, y)
    BY <2>1, BlocksHeld DEF HeldApart, Overlap
  <2>3. ASSUME NEW h \in Holder, NEW i \in Holder, h # i, NEW x \in Has(h), x \in Has(i) PROVE FALSE
    <3>1. Apart(x[1], x[2], x[1], x[2]) /\ InPlace(x[1], x[2])
      BY <2>1, <2>3 DEF HeldApart, HeldInPlace
    <3>2. x[1] \in Nat /\ Size[x[2]] \in Nat /\ Size[x[2]] > 0
      BY <3>1, SizeFacts DEF InPlace, Page
    <3> QED BY <3>1, <3>2 DEF Apart
  <2>4. allocated \cap FreeBlocks = {}
    BY <2>3, HasWhat, Holders
  <2>5. InHand \cap (allocated \cup FreeBlocks) = {}
    BY <2>1, <2>3, BlocksHeld, HasWhat, Holders
  <2> QED BY <2>2, <2>4, <2>5 DEF SharedOnlyAfterMerge
<1> QED BY <1>1, FreeInvariance, PTL

\* LostOnlyByDropping: as long as remove() has not emptied a list of several
\* blocks and nothing was merged, every page is in a block that somebody has.
THEOREM PagesKeptUndropped == FreeSpec => []LostOnlyByDropping
<1>1. FreeIInv => LostOnlyByDropping
  BY BlocksHeld DEF FreeIInv, LostOnlyByDropping, HeldCovers
<1> QED BY <1>1, FreeInvariance, PTL
===============================================================================
