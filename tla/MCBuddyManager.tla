---------------------------- MODULE MCBuddyManager ----------------------------
(***************************************************************************)
(* Memory maps for BuddyManager.  The first has no hole, and a reserved    *)
(* entry right behind the one that hosts the array of instances; an        *)
(* instance of 16 pages serves blocks of one and two pages.  In the second *)
(* the page list was set up for page 56 and not for those behind it, and   *)
(* 56 is the first of the instance that serves.  In the third, an instance *)
(* of 8 pages, of which 4 were set up, and one of a single page serve      *)
(* single pages, so that the ninth allocation is a whole instance.  The    *)
(* array of the last map is longer than its pages: for that, instances are *)
(* taken to be twice as long as they are.                                  *)
(***************************************************************************)
EXTENDS BuddyManager

Entry(b, n, u) == [base |-> b, pages |-> n, usable |-> u]

NoHoles == <<Entry(1, 16, TRUE), Entry(17, 13, FALSE), Entry(30, 32, TRUE), Entry(62, 8, FALSE),
             Entry(70, 2, TRUE)>>
Hole == <<Entry(1, 32, TRUE), Entry(33, 2, FALSE), Entry(36, 2, TRUE), Entry(56, 16, TRUE)>>
HoleInside == <<Entry(1, 16, TRUE), Entry(17, 4, FALSE), Entry(30, 1, TRUE),
                Entry(33, 9, TRUE), Entry(60, 2, TRUE)>>

\* 19 instances are counted, and the host of 32 pages makes five of them instead
\* of one as soon as a page of it is taken for the array.
Outgrown == <<Entry(1, 32, TRUE), Entry(34, 31, TRUE), Entry(66, 31, TRUE),
              Entry(98, 31, TRUE), Entry(130, 7, TRUE)>>

MCMaps == {NoHoles, Hole, HoleInside, Outgrown}

\* The third map needs ten calls to free a whole instance.
MCMaxCalls == [m \in MCMaps |-> IF m = HoleInside THEN 10 ELSE 7]

MCSizes == {4096, 8192}

\* Memory that is zero, and memory that looks like pages in use.
MCFound == { [p \in 1 .. 200 |-> NoPage],
             [p \in 1 .. 200 |-> [refcount |-> p % 2, order |-> MinOrder + 1, index |-> 0]] }
===============================================================================
