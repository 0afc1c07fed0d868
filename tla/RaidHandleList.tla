--------------------------- MODULE RaidHandleList ---------------------------
(***************************************************************************)
(* The list of handles that may lead to RAID devices                       *)
(* (raid_scan_helper.c): heap nodes linked by their next pointers, held    *)
(* by a pointer to the first and a pointer to the last.  A heap is a       *)
(* function on the nodes that are allocated; allocation succeeds while     *)
(* Nodes lasts, which is larger than any scan needs.                       *)
(***************************************************************************)
EXTENDS Naturals, FiniteSets

CONSTANTS Nodes,   (* the memory that entries are allocated from           *)
          NULL     (* the null pointer                                     *)

ASSUME NodesAssumption == IsFiniteSet(Nodes) /\ NULL \notin Nodes

EmptyHeap == [n \in {} |-> NULL]

(* What holds a pointer, and with an entry the one that is next.           *)
NextClosed(S, heap, from) ==
  /\ from \in S \cup {NULL}
  /\ \A n \in S \cap DOMAIN heap : heap[n].next \in S \cup {NULL}

(* The nodes that the next pointers reach from a pointer: the smallest     *)
(* such set.                                                               *)
Reach(heap, from) ==
  {n \in Nodes : \A S \in SUBSET Nodes : NextClosed(S, heap, from) => n \in S}

InList(heap, begin, handle) ==
  \E n \in Reach(heap, begin) \cap DOMAIN heap : heap[n].handle = handle

(* add_RAID_Handle_If_Not_In_List and what its callers do with the         *)
(* pointer it returns: the entry goes behind the current one, and is the   *)
(* beginning of the list if that had none.                                 *)
Added(heap, begin, current, handle) ==
  IF InList(heap, begin, handle) \/ Nodes \subseteq DOMAIN heap
  THEN [heap |-> heap, begin |-> begin, current |-> current]
  ELSE LET new == CHOOSE n \in Nodes : n \notin DOMAIN heap
       IN  [heap |-> [n \in DOMAIN heap \cup {new} |->
                        IF n = new THEN [handle |-> handle, next |-> NULL]
                        ELSE IF n = current THEN [heap[n] EXCEPT !.next = new]
                        ELSE heap[n]],
            begin |-> IF begin = NULL THEN new ELSE begin,
            current |-> new]

(* remove_RAID_Handle: the heap left behind; the caller goes on with       *)
(* the entry that followed.                                                *)
Removed(heap, toRemove, previous) ==
  [n \in DOMAIN heap \ {toRemove} |->
     IF n = previous THEN [heap[n] EXCEPT !.next = heap[toRemove].next] ELSE heap[n]]

(* delete_RAID_List: everything from a pointer on is freed.                *)
Deleted(heap, begin) == [n \in DOMAIN heap \ Reach(heap, begin) |-> heap[n]]
=============================================================================
