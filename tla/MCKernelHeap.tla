----------------------------- MODULE MCKernelHeap -----------------------------
(* Two caches, the second with slabs of two pages.  A page of 4 units holds *)
(* the header and 3 small objects, and the heap has room for two slabs      *)
(* more than the caches are given at first.  The memory of the page list is *)
(* zero, or not at all.                                                     *)
EXTENDS KernelHeap

MCStale == {{}, 0 .. HeapPages}
===============================================================================
